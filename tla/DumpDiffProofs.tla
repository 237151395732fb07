---- MODULE DumpDiffProofs ----
(***************************************************************************)
(* What a comparison of two dumps promises, for every pair of dumps,       *)
(* selection, budget and shape of the resources.                           *)
(*                                                                         *)
(* The properties add up numbers over lists of records, so the module      *)
(* first proves what a sum over a function with a finite domain does when  *)
(* one value is changed, and that a list of records is a bag of values:    *)
(* two lists match as bags if and only if the parts that only one of them  *)
(* has are empty.  Then come, in the order of the program, the type and    *)
(* stream facts at each step (BaseInv), the budget (LoadInv), the report   *)
(* (ReportInv), and the four properties that follow from them.             *)
(***************************************************************************)
EXTENDS DumpDiff, EventStreamProofs, FiniteSetTheorems, WellFoundedInduction

(* Induction over the natural numbers, for a set of them.                  *)

LEMMA SetInduction ==
    ASSUME NEW T, 0 \in T, \A n \in Nat : n \in T => n + 1 \in T
    PROVE  Nat \subseteq T
<1> DEFINE Below == {p \in Nat \X Nat : p[1] < p[2]}
<1>1. IsWellFoundedOn(Below, Nat)
  BY NatLessThanWellFounded DEF OpToRel
<1> SUFFICES ASSUME Nat \ T # {} PROVE FALSE
  OBVIOUS
<1>2. PICK x \in Nat \ T : \A y \in Nat \ T : <<y, x>> \notin Below
  <2> HIDE DEF Below
  <2> QED
    BY <1>1, WFMin
<1>3. x # 0 /\ x - 1 \in Nat /\ x - 1 \in T
  <2>1. x # 0 /\ x - 1 \in Nat /\ x - 1 < x
    OBVIOUS
  <2>2. <<x - 1, x>> \in Below
    BY <2>1
  <2> QED
    BY <1>2, <2>1, <2>2
<1> QED
  BY <1>3

-----------------------------------------------------------------------------
(* Sums.                                                                   *)

Pick(s) == CHOOSE x \in s : TRUE
SumsUp(fun, S, g) == g = [s \in SUBSET S |-> IF s = {} THEN 0 ELSE fun[Pick(s)] + g[s \ {Pick(s)}]]
Sums(fun, S) == CHOOSE g : SumsUp(fun, S, g)

LEMMA Picked == \A s : s # {} => Pick(s) \in s
BY DEF Pick

LEMMA SumIsChosen == ASSUME NEW fun, NEW S PROVE SumFunctionOnSet(fun, S) = Sums(fun, S)[S]
BY DEF SumFunctionOnSet, FoldFunctionOnSet, MapThenFoldSet, Sums, SumsUp, Pick

(* The sums of the parts of a finite set can be had one after the other.   *)
LEMMA SumsExist ==
    ASSUME NEW fun, NEW S, IsFiniteSet(S)
    PROVE  SumsUp(fun, S, Sums(fun, S))
<1> DEFINE Step(g, s) == IF s = {} THEN 0 ELSE fun[Pick(s)] + g[s \ {Pick(s)}]
           T == {n \in Nat : \E g : \A s \in SUBSET S : Cardinality(s) <= n => g[s] = Step(g, s)}
<1>1. \A s \in SUBSET S : IsFiniteSet(s) /\ Cardinality(s) \in Nat /\ Cardinality(s) <= Cardinality(S)
  BY FS_Subset, FS_CardinalityType
<1>2. \A s \in SUBSET S : s # {} => /\ s \ {Pick(s)} \in SUBSET S
                                    /\ Cardinality(s \ {Pick(s)}) = Cardinality(s) - 1
  BY <1>1, Picked, FS_RemoveElement
<1>3. 0 \in T
  <2> DEFINE g == [s \in SUBSET S |-> 0]
  <2>1. \A s \in SUBSET S : Cardinality(s) <= 0 => s = {}
    BY <1>1, FS_EmptySet
  <2>2. \A s \in SUBSET S : Cardinality(s) <= 0 => g[s] = Step(g, s)
    BY <2>1
  <2> QED
    BY <2>2
<1>4. ASSUME NEW n \in Nat, n \in T PROVE n + 1 \in T
  <2>1. PICK g : \A s \in SUBSET S : Cardinality(s) <= n => g[s] = Step(g, s)
    BY <1>4
  <2> DEFINE h == [s \in SUBSET S |-> IF Cardinality(s) <= n THEN g[s] ELSE Step(g, s)]
  <2>2. ASSUME NEW s \in SUBSET S, Cardinality(s) <= n + 1 PROVE h[s] = Step(h, s)
    <3>1. h[s] = Step(g, s)
      BY <2>1
    <3>2. CASE s = {}
      BY <3>1, <3>2
    <3>3. CASE s # {}
      <4>1. Cardinality(s \ {Pick(s)}) <= n /\ s \ {Pick(s)} \in SUBSET S
        BY <1>1, <1>2, <2>2, <3>3
      <4>2. h[s \ {Pick(s)}] = g[s \ {Pick(s)}]
        BY <4>1
      <4> QED
        BY <3>1, <3>3, <4>2
    <3> QED
      BY <3>2, <3>3
  <2> HIDE DEF h
  <2> QED
    BY <2>2
<1>5. Cardinality(S) \in T
  <2> HIDE DEF T
  <2>1. Nat \subseteq T
    BY <1>3, <1>4, SetInduction
  <2> QED
    BY <1>1, <2>1
<1>6. PICK g : \A s \in SUBSET S : g[s] = Step(g, s)
  BY <1>1, <1>5
<1> DEFINE h == [s \in SUBSET S |-> g[s]]
<1>7. \A s \in SUBSET S : h[s] = Step(h, s)
  BY <1>2, <1>6
<1>8. SumsUp(fun, S, h)
  BY <1>7 DEF SumsUp
<1> QED
  BY <1>8 DEF Sums

LEMMA SumsNone == \A fun, S : IsFiniteSet(S) => Sums(fun, S)[{}] = 0
<1> SUFFICES ASSUME NEW fun, NEW S, IsFiniteSet(S) PROVE Sums(fun, S)[{}] = 0
  OBVIOUS
<1>1. SumsUp(fun, S, Sums(fun, S))
  BY SumsExist
<1> QED
  BY <1>1 DEF SumsUp

LEMMA SumsStep ==
    \A fun, S : IsFiniteSet(S) =>
        \A s \in SUBSET S : s # {} => Sums(fun, S)[s] = fun[Pick(s)] + Sums(fun, S)[s \ {Pick(s)}]
<1> SUFFICES ASSUME NEW fun, NEW S, IsFiniteSet(S), NEW s \in SUBSET S, s # {}
             PROVE  Sums(fun, S)[s] = fun[Pick(s)] + Sums(fun, S)[s \ {Pick(s)}]
  OBVIOUS
<1> DEFINE g == Sums(fun, S)
<1>1. g = [t \in SUBSET S |-> IF t = {} THEN 0 ELSE fun[Pick(t)] + g[t \ {Pick(t)}]]
  <2>1. SumsUp(fun, S, g)
    BY SumsExist
  <2> HIDE DEF g
  <2> QED
    BY <2>1 DEF SumsUp
<1> HIDE DEF g
<1>2. g[s] = fun[Pick(s)] + g[s \ {Pick(s)}]
  BY <1>1
<1> QED
  BY <1>2 DEF g

Follows(g, fun, S) == \A s \in SUBSET S : s # {} => g[s] = fun[Pick(s)] + g[s \ {Pick(s)}]

LEMMA SumsFollow == \A fun, S : IsFiniteSet(S) => Follows(Sums(fun, S), fun, S)
BY SumsStep DEF Follows

LEMMA Smaller ==
    ASSUME NEW s, IsFiniteSet(s), NEW n \in Nat, Cardinality(s) = n + 1, NEW x \in s
    PROVE  IsFiniteSet(s \ {x}) /\ Cardinality(s \ {x}) = n
BY FS_RemoveElement

(* Sums of the same numbers are the same.                                  *)
LEMMA SumsAgree ==
    ASSUME NEW fun, NEW S, IsFiniteSet(S), NEW other, NEW U, IsFiniteSet(U), S \subseteq U,
           \A x \in S : fun[x] = other[x]
    PROVE  Sums(fun, S)[S] = Sums(other, U)[S]
<1> DEFINE g == Sums(fun, S)
           h == Sums(other, U)
           T == {n \in Nat : \A s \in SUBSET S : Cardinality(s) = n => g[s] = h[s]}
<1>1. \A s \in SUBSET S : IsFiniteSet(s) /\ Cardinality(s) \in Nat
  BY FS_Subset, FS_CardinalityType
<1>5. \A s \in SUBSET S : s # {} => g[s] = fun[Pick(s)] + g[s \ {Pick(s)}]
  <2>1. Follows(g, fun, S)
    BY SumsFollow
  <2> HIDE DEF g
  <2> QED
    BY <2>1 DEF Follows
<1>6. \A s \in SUBSET U : s # {} => h[s] = other[Pick(s)] + h[s \ {Pick(s)}]
  BY SumsStep
<1>2. 0 \in T
  <2>1. ASSUME NEW s \in SUBSET S, Cardinality(s) = 0 PROVE g[s] = h[s]
    <3>1. s = {}
      BY <1>1, <2>1, FS_EmptySet
    <3> QED
      BY <3>1, SumsNone
  <2> QED
    BY <2>1
<1>3. ASSUME NEW n \in Nat, n \in T PROVE n + 1 \in T
  <2>1. ASSUME NEW s \in SUBSET S, Cardinality(s) = n + 1 PROVE g[s] = h[s]
    <3>1. s # {} /\ Pick(s) \in s
      BY <2>1, FS_EmptySet, Picked
    <3>2. s \ {Pick(s)} \in SUBSET S /\ Cardinality(s \ {Pick(s)}) = n
      BY <1>1, <2>1, <3>1, Smaller
    <3>3. g[s \ {Pick(s)}] = h[s \ {Pick(s)}]
      BY <1>3, <3>2
    <3> HIDE DEF g, h
    <3>4. g[s] = fun[Pick(s)] + g[s \ {Pick(s)}]
      BY <1>5, <3>1
    <3>5. h[s] = other[Pick(s)] + h[s \ {Pick(s)}]
      BY <1>6, <3>1
    <3> QED
      BY <3>1, <3>3, <3>4, <3>5
  <2> HIDE DEF g, h
  <2> QED
    BY <2>1
<1>4. Cardinality(S) \in T
  <2> HIDE DEF T
  <2>1. Nat \subseteq T
    BY <1>2, <1>3, SetInduction
  <2> QED
    BY <1>1, <2>1
<1> HIDE DEF g, h
<1>7. g[S] = h[S]
  BY <1>4
<1> QED
  BY <1>7 DEF g, h

LEMMA SumTypes ==
    ASSUME NEW fun, NEW S, IsFiniteSet(S), \A x \in S : fun[x] \in Nat
    PROVE  \A s \in SUBSET S : Sums(fun, S)[s] \in Nat
<1> DEFINE g == Sums(fun, S)
           T == {n \in Nat : \A s \in SUBSET S : Cardinality(s) = n => g[s] \in Nat}
<1>1. \A s \in SUBSET S : IsFiniteSet(s) /\ Cardinality(s) \in Nat
  BY FS_Subset, FS_CardinalityType
<1>2. \A s \in SUBSET S : s # {} => g[s] = fun[Pick(s)] + g[s \ {Pick(s)}]
  BY SumsStep
<1>6. g[{}] = 0
  BY SumsNone
<1> HIDE DEF g
<1>3. 0 \in T
  <2>1. ASSUME NEW s \in SUBSET S, Cardinality(s) = 0 PROVE g[s] \in Nat
    <3>1. s = {}
      BY <1>1, <2>1, FS_EmptySet
    <3> QED
      BY <1>6, <3>1
  <2> QED
    BY <2>1
<1>4. ASSUME NEW n \in Nat, n \in T PROVE n + 1 \in T
  <2>1. ASSUME NEW s \in SUBSET S, Cardinality(s) = n + 1 PROVE g[s] \in Nat
    <3>1. s # {} /\ Pick(s) \in s
      BY <2>1, FS_EmptySet, Picked
    <3>2. s \ {Pick(s)} \in SUBSET S /\ Cardinality(s \ {Pick(s)}) = n
      BY <1>1, <2>1, <3>1, Smaller
    <3>3. g[s \ {Pick(s)}] \in Nat
      BY <1>4, <3>2
    <3>4. fun[Pick(s)] \in Nat
      BY <3>1
    <3>5. g[s] = fun[Pick(s)] + g[s \ {Pick(s)}]
      BY <1>2, <3>1
    <3> HIDE DEF T
    <3> QED
      BY <3>3, <3>4, <3>5
  <2> QED
    BY <2>1
<1>5. \A s \in SUBSET S : g[s] \in Nat
  <2> HIDE DEF T
  <2>1. Nat \subseteq T
    BY <1>3, <1>4, SetInduction
  <2> QED
    BY <1>1, <2>1 DEF T
<1> QED
  BY <1>5 DEF g

(* Any number of a sum may be taken out of it.                             *)
LEMMA SumsSplit ==
    ASSUME NEW fun, NEW S, IsFiniteSet(S), \A x \in S : fun[x] \in Nat
    PROVE  \A s \in SUBSET S : \A x \in s : Sums(fun, S)[s] = fun[x] + Sums(fun, S)[s \ {x}]
<1> DEFINE g == Sums(fun, S)
           Splits(s) == \A x \in s : g[s] = fun[x] + g[s \ {x}]
           T == {n \in Nat : \A s \in SUBSET S : Cardinality(s) = n => Splits(s)}
<1>1. \A s \in SUBSET S : IsFiniteSet(s) /\ Cardinality(s) \in Nat
  BY FS_Subset, FS_CardinalityType
<1>2. \A s \in SUBSET S : s # {} => g[s] = fun[Pick(s)] + g[s \ {Pick(s)}]
  BY SumsStep
<1>6. \A s \in SUBSET S : g[s] \in Nat
  BY SumTypes
<1> HIDE DEF g
<1>3. 0 \in T
  <2>1. \A s \in SUBSET S : Cardinality(s) = 0 => s = {}
    BY <1>1, FS_EmptySet
  <2> QED
    BY <2>1
<1>4. ASSUME NEW n \in Nat, n \in T PROVE n + 1 \in T
  <2>1. ASSUME NEW s \in SUBSET S, Cardinality(s) = n + 1, NEW x \in s PROVE g[s] = fun[x] + g[s \ {x}]
    <3> DEFINE p == Pick(s)
    <3>1. p \in s
      BY Picked
    <3>2. \A y \in s : s \ {y} \in SUBSET S /\ Cardinality(s \ {y}) = n
      BY <1>1, <2>1, Smaller
    <3>3. Splits(s \ {x}) /\ Splits(s \ {p})
      <4> HIDE DEF Splits, p
      <4> QED
        BY <1>4, <3>1, <3>2
    <3>4. g[s] = fun[p] + g[s \ {p}]
      BY <1>2, <3>1
    <3> HIDE DEF p
    <3>5. CASE x = p
      BY <3>4, <3>5
    <3>6. CASE x # p
      <4>1. g[s \ {p}] = fun[x] + g[(s \ {p}) \ {x}]
        BY <3>3, <3>6
      <4>2. g[s \ {x}] = fun[p] + g[(s \ {x}) \ {p}]
        BY <3>1, <3>3, <3>6
      <4>3. (s \ {p}) \ {x} = (s \ {x}) \ {p} /\ (s \ {x}) \ {p} \in SUBSET S
        OBVIOUS
      <4>4. PICK rest : rest = g[(s \ {x}) \ {p}]
        OBVIOUS
      <4>5. rest \in Nat /\ fun[x] \in Nat /\ fun[p] \in Nat
        BY <1>6, <3>1, <4>3, <4>4
      <4>6. g[s] = fun[p] + (fun[x] + rest) /\ g[s \ {x}] = fun[p] + rest
        BY <3>4, <4>1, <4>2, <4>3, <4>4
      <4> QED
        BY <4>5, <4>6
    <3> QED
      BY <3>5, <3>6
  <2> QED
    BY <2>1
<1>5. \A s \in SUBSET S : Splits(s)
  <2> HIDE DEF T
  <2>1. Nat \subseteq T
    BY <1>3, <1>4, SetInduction
  <2> QED
    BY <1>1, <2>1 DEF T
<1> QED
  BY <1>5 DEF g

(* What a sum is of nothing, that it is a number, and that one of its      *)
(* numbers may be added last.                                              *)
LEMMA SumOfNone == ASSUME NEW fun PROVE SumFunctionOnSet(fun, {}) = 0
BY SumIsChosen, SumsNone, FS_EmptySet

LEMMA SumIsNat ==
    ASSUME NEW fun, NEW S, IsFiniteSet(S), \A x \in S : fun[x] \in Nat
    PROVE  SumFunctionOnSet(fun, S) \in Nat
BY SumIsChosen, SumTypes

LEMMA SumAdd ==
    ASSUME NEW fun, NEW S, IsFiniteSet(S), \A x \in S : fun[x] \in Nat, NEW x \in S,
           NEW other, \A y \in S \ {x} : other[y] = fun[y]
    PROVE  SumFunctionOnSet(fun, S) = fun[x] + SumFunctionOnSet(other, S \ {x})
<1>1. IsFiniteSet(S \ {x})
  BY FS_RemoveElement
<1>2. Sums(fun, S)[S] = fun[x] + Sums(fun, S)[S \ {x}]
  BY SumsSplit
<1>3. Sums(other, S \ {x})[S \ {x}] = Sums(fun, S)[S \ {x}]
  <2>1. S \ {x} \subseteq S
    OBVIOUS
  <2> QED
    BY <1>1, <2>1, SumsAgree
<1> QED
  BY <1>2, <1>3, SumIsChosen

LEMMA SumAppend ==
    ASSUME NEW fun, NEW n \in Nat, DOMAIN fun = 1..n, \A m \in 1..n : fun[m] \in Nat,
           NEW longer, DOMAIN longer = 1..(n + 1), \A m \in 1..n : longer[m] = fun[m],
           longer[n + 1] \in Nat
    PROVE  SumFunction(fun) \in Nat /\ SumFunction(longer) = SumFunction(fun) + longer[n + 1]
<1> DEFINE S == 1..(n + 1)
<1>1. IsFiniteSet(1..n) /\ IsFiniteSet(S) /\ S \ {n + 1} = 1..n /\ n + 1 \in S
  <2>1. n \in Int /\ n + 1 \in Int /\ 1 \in Int
    OBVIOUS
  <2>2. IsFiniteSet(1..n) /\ IsFiniteSet(1..(n + 1))
    BY <2>1, FS_Interval
  <2> QED
    BY <2>2
<1>2. \A m \in S : longer[m] \in Nat
  OBVIOUS
<1>3. \A m \in S \ {n + 1} : fun[m] = longer[m]
  BY <1>1
<1>4. SumFunctionOnSet(fun, 1..n) \in Nat
  BY <1>1, SumIsNat
<1>5. SumFunctionOnSet(longer, S) = longer[n + 1] + SumFunctionOnSet(fun, S \ {n + 1})
  <2> HIDE DEF S
  <2> QED
    BY <1>1, <1>2, <1>3, SumAdd
<1>6. SumFunctionOnSet(longer, S) = longer[n + 1] + SumFunctionOnSet(fun, 1..n)
  BY <1>1, <1>5
<1> QED
  BY <1>4, <1>6 DEF SumFunction

(* A part of the numbers makes no larger sum.                              *)
LEMMA SumsGrow ==
    ASSUME NEW fun, NEW S, IsFiniteSet(S), \A x \in S : fun[x] \in Nat
    PROVE  \A s \in SUBSET S : \A t \in SUBSET s : Sums(fun, S)[t] <= Sums(fun, S)[s]
<1> DEFINE g == Sums(fun, S)
           Grows(s) == \A t \in SUBSET s : g[t] <= g[s]
           T == {n \in Nat : \A s \in SUBSET S : Cardinality(s) = n => Grows(s)}
<1>1. \A s \in SUBSET S : IsFiniteSet(s) /\ Cardinality(s) \in Nat
  BY FS_Subset, FS_CardinalityType
<1>2. ASSUME NEW s \in SUBSET S, NEW x \in s PROVE g[s] = fun[x] + g[s \ {x}]
  BY SumsSplit
<1>3. \A s \in SUBSET S : g[s] \in Nat
  BY SumTypes
<1> HIDE DEF g
<1>4. 0 \in T
  <2>1. ASSUME NEW s \in SUBSET S, Cardinality(s) = 0, NEW t \in SUBSET s PROVE g[t] <= g[s]
    <3>1. s = {}
      BY <1>1, <2>1, FS_EmptySet
    <3>2. t = s
      BY <3>1
    <3> QED
      BY <1>3, <3>2
  <2> QED
    BY <2>1
<1>5. ASSUME NEW n \in Nat, n \in T PROVE n + 1 \in T
  <2>1. ASSUME NEW s \in SUBSET S, Cardinality(s) = n + 1, NEW t \in SUBSET s PROVE g[t] <= g[s]
    <3>1. CASE t = s
      BY <1>3, <3>1
    <3>2. CASE t # s
      <4>1. PICK x \in s : x \notin t
        BY <3>2
      <4>2. s \ {x} \in SUBSET S /\ Cardinality(s \ {x}) = n /\ t \in SUBSET (s \ {x})
        BY <1>1, <2>1, <4>1, Smaller
      <4>3. g[t] <= g[s \ {x}]
        BY <1>5, <4>2
      <4>4. g[s] = fun[x] + g[s \ {x}]
        BY <1>2
      <4>5. g[t] \in Nat /\ g[s \ {x}] \in Nat /\ fun[x] \in Nat
        BY <1>3, <4>2
      <4> HIDE DEF T
      <4> QED
        BY <4>3, <4>4, <4>5
    <3> QED
      BY <3>1, <3>2
  <2> QED
    BY <2>1
<1>6. \A s \in SUBSET S : Grows(s)
  <2> HIDE DEF T
  <2>1. Nat \subseteq T
    BY <1>4, <1>5, SetInduction
  <2> QED
    BY <1>1, <2>1 DEF T
<1> QED
  BY <1>6 DEF g

LEMMA SumOfPart ==
    ASSUME NEW fun, NEW S, IsFiniteSet(S), \A x \in S : fun[x] \in Nat,
           NEW other, NEW U, U \subseteq S, \A x \in U : other[x] = fun[x]
    PROVE  SumFunctionOnSet(other, U) <= SumFunctionOnSet(fun, S)
<1>1. IsFiniteSet(U) /\ U \in SUBSET S /\ S \in SUBSET S
  BY FS_Subset
<1>2. Sums(other, U)[U] = Sums(fun, S)[U]
  BY <1>1, SumsAgree
<1>3. Sums(fun, S)[U] <= Sums(fun, S)[S]
  BY <1>1, SumsGrow
<1> QED
  BY <1>2, <1>3, SumIsChosen

-----------------------------------------------------------------------------
(* Records that are equal.                                                 *)

Times(list, v) == Cardinality({m \in DOMAIN list : list[m] = v})

(* The places of a value in the first p places of a list.                  *)
Places(list, v, p) == {m \in 1..p : list[m] = v}

LEMMA PlacesFinite ==
    ASSUME NEW list, NEW v, NEW p \in Nat
    PROVE  IsFiniteSet(Places(list, v, p)) /\ Cardinality(Places(list, v, p)) \in Nat
<1>1. IsFiniteSet(1..p) /\ Places(list, v, p) \in SUBSET (1..p)
  BY FS_Interval DEF Places
<1>2. IsFiniteSet(Places(list, v, p))
  BY <1>1, FS_Subset
<1> QED
  BY <1>2, FS_CardinalityType

(* Of the places of a value, those among the first q are as many.          *)
LEMMA LeadingPlaces ==
    ASSUME NEW list, NEW v, NEW q \in Nat
    PROVE  \A p \in Nat :
              Cardinality({n \in Places(list, v, p) : Cardinality(Places(list, v, n)) <= q})
                  = IF Cardinality(Places(list, v, p)) <= q THEN Cardinality(Places(list, v, p)) ELSE q
<1> DEFINE C(p) == Cardinality(Places(list, v, p))
           First(p) == {n \in Places(list, v, p) : C(n) <= q}
           T == {p \in Nat : Cardinality(First(p)) = IF C(p) <= q THEN C(p) ELSE q}
<1>1. \A p \in Nat : IsFiniteSet(Places(list, v, p)) /\ C(p) \in Nat
  BY PlacesFinite
<1>2. \A p \in Nat : IsFiniteSet(First(p)) /\ Cardinality(First(p)) \in Nat
  <2> SUFFICES ASSUME NEW p \in Nat PROVE IsFiniteSet(First(p)) /\ Cardinality(First(p)) \in Nat
    OBVIOUS
  <2>1. First(p) \in SUBSET Places(list, v, p)
    OBVIOUS
  <2>2. IsFiniteSet(First(p))
    BY <1>1, <2>1, FS_Subset
  <2> QED
    BY <2>2, FS_CardinalityType
<1>3. 0 \in T
  <2>1. Places(list, v, 0) = {} /\ First(0) = {}
    BY DEF Places
  <2> QED
    BY <2>1, FS_EmptySet
<1>4. ASSUME NEW p \in Nat, p \in T PROVE p + 1 \in T
  <2>1. CASE list[p + 1] # v
    <3>1. Places(list, v, p + 1) = Places(list, v, p)
      BY <2>1 DEF Places
    <3> QED
      BY <1>4, <3>1
  <2>2. CASE list[p + 1] = v
    <3>1. Places(list, v, p + 1) = Places(list, v, p) \cup {p + 1} /\ p + 1 \notin Places(list, v, p)
      BY <2>2 DEF Places
    <3>2. C(p + 1) = C(p) + 1
      BY <1>1, <3>1, FS_AddElement
    <3>3. First(p + 1) = IF C(p + 1) <= q THEN First(p) \cup {p + 1} ELSE First(p)
      BY <3>1
    <3>4. p + 1 \notin First(p)
      BY <3>1
    <3>5. Cardinality(First(p + 1)) = IF C(p + 1) <= q THEN Cardinality(First(p)) + 1 ELSE Cardinality(First(p))
      <4> HIDE DEF First, C
      <4> QED
        BY <1>2, <3>3, <3>4, FS_AddElement
    <3>6. Cardinality(First(p)) = IF C(p) <= q THEN C(p) ELSE q
      BY <1>4
    <3>7. Cardinality(First(p + 1)) = IF C(p + 1) <= q THEN C(p + 1) ELSE q
      <4> HIDE DEF First, C
      <4> QED
        BY <1>1, <3>2, <3>5, <3>6
    <3> QED
      BY <3>7
  <2> QED
    BY <2>1, <2>2
<1>5. Nat \subseteq T
  <2> HIDE DEF T
  <2> QED
    BY <1>3, <1>4, SetInduction
<1> QED
  BY <1>5

(* Whatever is too many is taken away from the end, so that a value is     *)
(* left as often as both lists have it.                                    *)
LEMMA SurplusLeaves ==
    ASSUME NEW list, NEW L \in Nat, DOMAIN list = 1..L,
           NEW other, NEW K \in Nat, DOMAIN other = 1..K, NEW v
    PROVE  /\ Times(list, v) \in Nat /\ Times(other, v) \in Nat
           /\ Cardinality({n \in DOMAIN list \ Surplus(list, other) : list[n] = v})
                  = IF Times(list, v) <= Times(other, v) THEN Times(list, v) ELSE Times(other, v)
<1> DEFINE q == Times(other, v)
<1>1. Times(list, v) = Cardinality(Places(list, v, L)) /\ q = Cardinality(Places(other, v, K))
  BY DEF Times, Places
<1>2. Times(list, v) \in Nat /\ q \in Nat
  BY <1>1, PlacesFinite
<1>3. {n \in DOMAIN list \ Surplus(list, other) : list[n] = v}
          = {n \in Places(list, v, L) : Cardinality(Places(list, v, n)) <= q}
  <2>1. ASSUME NEW n \in 1..L, list[n] = v
        PROVE  n \in Surplus(list, other) <=> Cardinality(Places(list, v, n)) > q
    BY <2>1 DEF Surplus, Places, Times
  <2>2. \A n \in 1..L : Cardinality(Places(list, v, n)) \in Nat
    BY PlacesFinite
  <2> HIDE DEF q
  <2>3. \A n \in 1..L : list[n] = v => (n \notin Surplus(list, other) <=> Cardinality(Places(list, v, n)) <= q)
    BY <1>2, <2>1, <2>2
  <2> QED
    BY <2>3 DEF Places
<1> QED
  BY <1>1, <1>2, <1>3, LeadingPlaces

(* A list has a surplus of a value only if it has it more often.           *)
LEMMA SurplusIsMore ==
    ASSUME NEW list, NEW L \in Nat, DOMAIN list = 1..L,
           NEW other, NEW K \in Nat, DOMAIN other = 1..K, NEW n \in Surplus(list, other)
    PROVE  n \in DOMAIN list /\ Times(list, list[n]) > Times(other, list[n])
<1> DEFINE v == list[n]
<1>1. n \in 1..L /\ Cardinality(Places(list, v, n)) > Times(other, v)
  BY DEF Surplus, Places, Times
<1>2. Times(list, v) = Cardinality(Places(list, v, L)) /\ Times(other, v) = Cardinality(Places(other, v, K))
  BY DEF Times, Places
<1>3. Places(list, v, n) \in SUBSET Places(list, v, L)
  BY <1>1 DEF Places
<1>4. Cardinality(Places(list, v, n)) <= Cardinality(Places(list, v, L))
  BY <1>3, PlacesFinite, FS_Subset
<1>5. Cardinality(Places(list, v, n)) \in Nat /\ Cardinality(Places(list, v, L)) \in Nat
      /\ Cardinality(Places(other, v, K)) \in Nat
  BY <1>1, PlacesFinite
<1> HIDE DEF v
<1>6. Times(list, v) > Times(other, v)
  BY <1>1, <1>2, <1>4, <1>5
<1> QED
  BY <1>1, <1>6 DEF v

-----------------------------------------------------------------------------
(* The lists of a resource.                                                *)

LEMMA Typed ==
    ASSUME compared \in Cases, NEW s \in Sides, NEW r \in Resource
    PROVE  /\ Records(s, r) \in Seq(Record)
           /\ Status(s, r) \in {"ok", "error", "unlisted"}
           /\ Status(s, r) # "ok" => Records(s, r) = <<>>
           /\ compared.shape[r] \in {"singleton", "keyed", "hashed"}
<1>1. compared.old \in Dump /\ compared.new \in Dump
      /\ compared.shape \in [Resource -> {"singleton", "keyed", "hashed"}]
  BY DiffAssumption
<1>2. compared[s] \in Dump
  BY <1>1 DEF Sides
<1>3. FileOf(s, r) \in File
  BY <1>2 DEF FileOf, Dump
<1>4. <<>> \in Seq(Record)
  OBVIOUS
<1> QED
  BY <1>1, <1>3, <1>4 DEF File, Status, Records

LEMMA Listed ==
    ASSUME compared \in Cases, NEW s \in Sides, NEW r \in Resource
    PROVE  /\ Len(Records(s, r)) \in Nat
           /\ DOMAIN Records(s, r) = 1..Len(Records(s, r))
           /\ DOMAIN Views(s, r) = DOMAIN Records(s, r)
           /\ DOMAIN Forms(s, r) = DOMAIN Records(s, r)
           /\ IsFiniteSet(DOMAIN Records(s, r))
           /\ \A n \in DOMAIN Records(s, r) :
                 /\ Records(s, r)[n] \in Record
                 /\ Views(s, r)[n] \in Record
                 /\ Views(s, r)[n].id = Records(s, r)[n].id
<1>1. Records(s, r) \in Seq(Record)
  BY Typed
<1>2. Len(Records(s, r)) \in Nat /\ DOMAIN Records(s, r) = 1..Len(Records(s, r))
      /\ \A n \in DOMAIN Records(s, r) : Records(s, r)[n] \in Record
  BY <1>1
<1>3. \A record \in Record : View(r, record) \in Record /\ View(r, record).id = record.id
  BY DEF View, Record, Value
<1>4. DOMAIN Views(s, r) = DOMAIN Records(s, r) /\ DOMAIN Forms(s, r) = DOMAIN Records(s, r)
  BY DEF Views, Forms
<1>5. IsFiniteSet(DOMAIN Records(s, r))
  BY <1>2, FS_Interval
<1>6. ASSUME NEW n \in DOMAIN Records(s, r)
      PROVE  Views(s, r)[n] \in Record /\ Views(s, r)[n].id = Records(s, r)[n].id
  <2>1. Views(s, r)[n] = View(r, Records(s, r)[n])
    BY DEF Views
  <2> QED
    BY <1>2, <1>3, <2>1
<1> QED
  BY <1>2, <1>4, <1>5, <1>6

LEMMA PlainId ==
    ASSUME NEW u \in Record, NEW w \in Record, u.id # "absent", w.id # "absent", Plain(u) = Plain(w)
    PROVE  u.id = w.id
<1>1. "id" \in DOMAIN u /\ "id" \in DOMAIN w
  BY DEF Record
<1>2. Plain(u)["id"] = u["id"] /\ Plain(w)["id"] = w["id"]
  BY <1>1 DEF Plain
<1> QED
  BY <1>2

(* The records of a list with as many ids as records have different ids.   *)
LEMMA IdsTellApart ==
    ASSUME NEW list, NEW L \in Nat, DOMAIN list = 1..L, Cardinality(Ids(list)) = L,
           NEW n \in 1..L, NEW m \in 1..L, list[n].id = list[m].id
    PROVE  n = m
<1> DEFINE f == [k \in 1..L |-> list[k].id]
<1>1. f \in Surjection(1..L, Ids(list))
  BY DEF Surjection, Ids
<1>2. IsFiniteSet(1..L) /\ Cardinality(1..L) = Cardinality(Ids(list))
  BY FS_Interval
<1>3. f \in Injection(1..L, Ids(list))
  <2> HIDE DEF f
  <2> QED
    BY <1>1, <1>2, FS_SurjSameCardinalityImpliesInj
<1>4. f[n] = f[m]
  OBVIOUS
<1> QED
  BY <1>3, <1>4 DEF Injection, IsInjective

(* Whether two records of a resource are the same one.                     *)
Same(r, n, m) == SameRecord(r, Views("old", r)[n], Views("new", r)[m])

Identified(r) ==
    LET old == Forms("old", r)
        new == Forms("new", r)
    IN  /\ \A n, k \in DOMAIN old, m \in DOMAIN new : Same(r, n, m) /\ Same(r, k, m) => n = k
        /\ \A n \in DOMAIN old, m, k \in DOMAIN new : Same(r, n, m) /\ Same(r, n, k) => m = k
        /\ \A n \in DOMAIN old, m \in DOMAIN new : old[n] = new[m] => Same(r, n, m)
        /\ \A n, k \in DOMAIN old : old[n] = old[k] => n = k
        /\ \A m, k \in DOMAIN new : new[m] = new[k] => m = k

LEMMA ShapesIdentify ==
    ASSUME compared \in Cases, NEW r \in Resource, ~Ambiguous(r), compared.shape[r] # "hashed"
    PROVE  Identified(r)
<1> "old" \in Sides /\ "new" \in Sides
  BY DEF Sides
<1>1. \A s \in Sides : \A n \in DOMAIN Records(s, r) : Forms(s, r)[n] = Plain(Views(s, r)[n])
  BY DEF Forms
<1>2. CASE compared.shape[r] = "singleton"
  <2>1. \A s \in Sides : Len(Records(s, r)) <= 1
    <3> SUFFICES ASSUME NEW s \in Sides PROVE Len(Records(s, r)) <= 1
      OBVIOUS
    <3> QED
      BY <1>2, Listed DEF Ambiguous
  <2>2. \A s \in Sides : \A n, k \in DOMAIN Forms(s, r) : n = k
    <3> SUFFICES ASSUME NEW s \in Sides, NEW n \in DOMAIN Forms(s, r), NEW k \in DOMAIN Forms(s, r)
                 PROVE  n = k
      OBVIOUS
    <3> QED
      BY <2>1, Listed
  <2>3. \A n, m : Same(r, n, m)
    BY <1>2 DEF Same, SameRecord
  <2> QED
    BY <2>2, <2>3 DEF Identified
<1>3. CASE compared.shape[r] = "keyed"
  <2>1. \A s \in Sides : \A n \in DOMAIN Records(s, r) : Records(s, r)[n].id # "absent"
    BY <1>3 DEF Ambiguous, Ids
  <2>2. \A s \in Sides : \A n, k \in DOMAIN Records(s, r) : Records(s, r)[n].id = Records(s, r)[k].id => n = k
    <3> SUFFICES ASSUME NEW s \in Sides, NEW n \in DOMAIN Records(s, r), NEW k \in DOMAIN Records(s, r),
                        Records(s, r)[n].id = Records(s, r)[k].id
                 PROVE  n = k
      OBVIOUS
    <3>1. Cardinality(Ids(Records(s, r))) = Len(Records(s, r))
      BY <1>3 DEF Ambiguous
    <3>2. Len(Records(s, r)) \in Nat /\ DOMAIN Records(s, r) = 1..Len(Records(s, r))
      BY Listed
    <3> QED
      BY <3>1, <3>2, IdsTellApart
  <2>3. \A s, t \in Sides : \A n \in DOMAIN Records(s, r), m \in DOMAIN Records(t, r) :
           Forms(s, r)[n] = Forms(t, r)[m] => Records(s, r)[n].id = Records(t, r)[m].id
    <3> SUFFICES ASSUME NEW s \in Sides, NEW t \in Sides,
                        NEW n \in DOMAIN Records(s, r), NEW m \in DOMAIN Records(t, r),
                        Forms(s, r)[n] = Forms(t, r)[m]
                 PROVE  Records(s, r)[n].id = Records(t, r)[m].id
      OBVIOUS
    <3>1. /\ Views(s, r)[n] \in Record /\ Views(s, r)[n].id = Records(s, r)[n].id
          /\ Views(t, r)[m] \in Record /\ Views(t, r)[m].id = Records(t, r)[m].id
      BY Listed
    <3>2. Plain(Views(s, r)[n]) = Plain(Views(t, r)[m])
      BY <1>1
    <3> QED
      BY <2>1, <3>1, <3>2, PlainId
  <2>4. \A n \in DOMAIN Records("old", r), m \in DOMAIN Records("new", r) :
           Same(r, n, m) <=> Records("old", r)[n].id = Records("new", r)[m].id
    <3> SUFFICES ASSUME NEW n \in DOMAIN Records("old", r), NEW m \in DOMAIN Records("new", r)
                 PROVE  Same(r, n, m) <=> Records("old", r)[n].id = Records("new", r)[m].id
      OBVIOUS
    <3>1. Views("old", r)[n].id = Records("old", r)[n].id /\ Views("new", r)[m].id = Records("new", r)[m].id
      BY Listed
    <3> QED
      BY <1>3, <3>1 DEF Same, SameRecord
  <2>5. DOMAIN Forms("old", r) = DOMAIN Records("old", r) /\ DOMAIN Forms("new", r) = DOMAIN Records("new", r)
    BY Listed
  <2> QED
    BY <2>2, <2>3, <2>4, <2>5 DEF Identified
<1> QED
  BY <1>2, <1>3, Typed

(* A set with at most one member.                                          *)
LEMMA AtMostOne ==
    ASSUME NEW A, \A x, y \in A : x = y
    PROVE  IsFiniteSet(A) /\ Cardinality(A) = IF A = {} THEN 0 ELSE 1
<1>1. CASE A = {}
  BY <1>1, FS_EmptySet
<1>2. CASE A # {}
  <2>1. PICK x : A = {x}
    BY <1>2
  <2> QED
    BY <1>2, <2>1, FS_Singleton
<1> QED
  BY <1>1, <1>2

(* What is reported where records can be identified.                       *)
LEMMA IdentifiedEntry ==
    ASSUME compared \in Cases, NEW r \in Resource, compared.shape[r] # "hashed"
    PROVE  LET entry == Compare(r)
               old == Forms("old", r)
               new == Forms("new", r)
           IN  /\ entry.resource = r
               /\ entry.removed = {n \in DOMAIN old : \A m \in DOMAIN new : ~Same(r, n, m)}
               /\ entry.added = {m \in DOMAIN new : \A n \in DOMAIN old : ~Same(r, n, m)}
               /\ \A n \in DOMAIN old, m \in DOMAIN new :
                     Same(r, n, m) /\ old[n] # new[m] => <<n, m>> \in entry.changed
               /\ \A p \in entry.changed : /\ p[1] \in DOMAIN old /\ p[2] \in DOMAIN new
                                           /\ Same(r, p[1], p[2]) /\ old[p[1]] # new[p[2]]
<1> DEFINE entry == Compare(r)
           old == Forms("old", r)
           new == Forms("new", r)
<1> "old" \in Sides /\ "new" \in Sides
  BY DEF Sides
<1>1. DOMAIN Views("old", r) = DOMAIN old /\ DOMAIN Views("new", r) = DOMAIN new
  BY Listed
<1>2. /\ \A n \in DOMAIN old : old[n] = Plain(Views("old", r)[n])
      /\ \A m \in DOMAIN new : new[m] = Plain(Views("new", r)[m])
  BY DEF Forms
<1>3. entry.resource = r
  BY DEF Compare
<1>4. entry.removed = {n \in DOMAIN old : \A m \in DOMAIN new : ~Same(r, n, m)}
  BY <1>1 DEF Compare, Same
<1>5. entry.added = {m \in DOMAIN new : \A n \in DOMAIN old : ~Same(r, n, m)}
  BY <1>1 DEF Compare, Same
<1>6. entry.changed = {p \in (DOMAIN old) \X (DOMAIN new) :
                          /\ Same(r, p[1], p[2])
                          /\ Plain(Views("old", r)[p[1]]) # Plain(Views("new", r)[p[2]])}
  BY <1>1 DEF Compare, Same
<1>7. \A p \in (DOMAIN old) \X (DOMAIN new) :
         old[p[1]] = Plain(Views("old", r)[p[1]]) /\ new[p[2]] = Plain(Views("new", r)[p[2]])
  BY <1>2
<1> HIDE DEF entry, old, new
<1>8. entry.changed = {p \in (DOMAIN old) \X (DOMAIN new) : Same(r, p[1], p[2]) /\ old[p[1]] # new[p[2]]}
  BY <1>6, <1>7
<1>9. \A n \in DOMAIN old, m \in DOMAIN new :
         Same(r, n, m) /\ old[n] # new[m] => <<n, m>> \in entry.changed
  BY <1>8
<1>10. \A p \in entry.changed : /\ p[1] \in DOMAIN old /\ p[2] \in DOMAIN new
                                 /\ Same(r, p[1], p[2]) /\ old[p[1]] # new[p[2]]
  BY <1>8
<1> QED
  BY <1>3, <1>4, <1>5, <1>9, <1>10 DEF entry, old, new

(* Where records can be identified, what is left is the same records.      *)
LEMMA IdentifiedExplains ==
    ASSUME compared \in Cases, NEW r \in Resource, Identified(r), compared.shape[r] # "hashed"
    PROVE  Explains(Compare(r))
<1> DEFINE entry == Compare(r)
           old == Forms("old", r)
           new == Forms("new", r)
           A == DOMAIN old \ (entry.removed \cup {p[1] : p \in entry.changed})
           B == DOMAIN new \ (entry.added \cup {p[2] : p \in entry.changed})
<1>1. /\ entry.resource = r
      /\ entry.removed = {n \in DOMAIN old : \A m \in DOMAIN new : ~Same(r, n, m)}
      /\ entry.added = {m \in DOMAIN new : \A n \in DOMAIN old : ~Same(r, n, m)}
  BY IdentifiedEntry
<1>2. /\ \A n \in DOMAIN old, m \in DOMAIN new :
            Same(r, n, m) /\ old[n] # new[m] => <<n, m>> \in entry.changed
      /\ \A p \in entry.changed : /\ p[1] \in DOMAIN old /\ p[2] \in DOMAIN new
                                  /\ Same(r, p[1], p[2]) /\ old[p[1]] # new[p[2]]
  BY IdentifiedEntry
<1>3. /\ \A n, k \in DOMAIN old, m \in DOMAIN new : Same(r, n, m) /\ Same(r, k, m) => n = k
      /\ \A n \in DOMAIN old, m, k \in DOMAIN new : Same(r, n, m) /\ Same(r, n, k) => m = k
      /\ \A n \in DOMAIN old, m \in DOMAIN new : old[n] = new[m] => Same(r, n, m)
      /\ \A n, k \in DOMAIN old : old[n] = old[k] => n = k
      /\ \A m, k \in DOMAIN new : new[m] = new[k] => m = k
  BY DEF Identified
<1> HIDE DEF entry, old, new
<1>4. \A n \in A : \E m \in B : Same(r, n, m) /\ old[n] = new[m]
  <2> SUFFICES ASSUME NEW n \in A PROVE \E m \in B : Same(r, n, m) /\ old[n] = new[m]
    OBVIOUS
  <2>1. PICK m \in DOMAIN new : Same(r, n, m)
    BY <1>1
  <2>2. ASSUME <<n, m>> \in entry.changed PROVE FALSE
    <3> DEFINE p == <<n, m>>
    <3>1. p \in entry.changed /\ p[1] = n /\ p[2] = m
      BY <2>2
    <3> QED
      BY <3>1
  <2>3. old[n] = new[m]
    BY <1>2, <2>1, <2>2
  <2>4. m \notin entry.added
    BY <1>1, <2>1
  <2>5. ASSUME NEW p \in entry.changed, p[2] = m PROVE FALSE
    BY <1>2, <1>3, <2>1, <2>3, <2>5
  <2> QED
    BY <2>1, <2>3, <2>4, <2>5
<1>5. \A m \in B : \E n \in A : Same(r, n, m) /\ old[n] = new[m]
  <2> SUFFICES ASSUME NEW m \in B PROVE \E n \in A : Same(r, n, m) /\ old[n] = new[m]
    OBVIOUS
  <2>1. PICK n \in DOMAIN old : Same(r, n, m)
    BY <1>1
  <2>2. ASSUME <<n, m>> \in entry.changed PROVE FALSE
    <3> DEFINE p == <<n, m>>
    <3>1. p \in entry.changed /\ p[1] = n /\ p[2] = m
      BY <2>2
    <3> QED
      BY <3>1
  <2>3. old[n] = new[m]
    BY <1>2, <2>1, <2>2
  <2>4. n \notin entry.removed
    BY <1>1, <2>1
  <2>5. ASSUME NEW p \in entry.changed, p[1] = n PROVE FALSE
    BY <1>2, <1>3, <2>1, <2>3, <2>5
  <2> QED
    BY <2>1, <2>3, <2>4, <2>5
<1>6. ASSUME NEW form
      PROVE  Cardinality({n \in A : old[n] = form}) = Cardinality({m \in B : new[m] = form})
  <2>1. /\ \A x, y \in {n \in A : old[n] = form} : x = y
        /\ \A x, y \in {m \in B : new[m] = form} : x = y
    BY <1>3
  <2>2. {n \in A : old[n] = form} = {} <=> {m \in B : new[m] = form} = {}
    BY <1>4, <1>5
  <2> HIDE DEF A, B
  <2> QED
    BY <2>1, <2>2, AtMostOne
<1>7. SameRecords(r, A, B)
  <2> HIDE DEF A, B
  <2> QED
    BY <1>6 DEF SameRecords, old, new
<1>8. \A n \in entry.removed, m \in entry.added : old[n] # new[m]
  BY <1>1, <1>3
<1>9. \A p \in entry.changed : old[p[1]] # new[p[2]]
  BY <1>2
<1> QED
  BY <1>1, <1>7, <1>8, <1>9 DEF Explains, entry, old, new

(* Records without identity: what is left is what both lists have.         *)
LEMMA HashedExplains ==
    ASSUME compared \in Cases, NEW r \in Resource, compared.shape[r] = "hashed"
    PROVE  Explains(Compare(r))
<1> DEFINE entry == Compare(r)
           old == Forms("old", r)
           new == Forms("new", r)
           A == DOMAIN old \ (entry.removed \cup {p[1] : p \in entry.changed})
           B == DOMAIN new \ (entry.added \cup {p[2] : p \in entry.changed})
<1> "old" \in Sides /\ "new" \in Sides
  BY DEF Sides
<1>1. /\ DOMAIN Views("old", r) = DOMAIN old /\ DOMAIN Views("new", r) = DOMAIN new
      /\ DOMAIN old = DOMAIN Records("old", r) /\ DOMAIN new = DOMAIN Records("new", r)
  BY Listed
<1>2. old = Views("old", r) /\ new = Views("new", r)
  BY DEF Forms, Views
<1>3. entry.resource = r /\ entry.removed = Surplus(old, new) /\ entry.added = Surplus(new, old) /\ entry.changed = {}
  BY <1>2 DEF Compare
<1>4. \E L, K \in Nat : DOMAIN old = 1..L /\ DOMAIN new = 1..K
  BY <1>1, Listed
<1> HIDE DEF entry, old, new
<1>5. A = DOMAIN old \ Surplus(old, new) /\ B = DOMAIN new \ Surplus(new, old)
  BY <1>3
<1>6. ASSUME NEW form
      PROVE  Cardinality({n \in A : old[n] = form}) = Cardinality({m \in B : new[m] = form})
  <2>1. /\ Times(old, form) \in Nat /\ Times(new, form) \in Nat
        /\ Cardinality({n \in DOMAIN old \ Surplus(old, new) : old[n] = form})
              = IF Times(old, form) <= Times(new, form) THEN Times(old, form) ELSE Times(new, form)
    BY <1>4, SurplusLeaves
  <2>2. Cardinality({n \in DOMAIN new \ Surplus(new, old) : new[n] = form})
              = IF Times(new, form) <= Times(old, form) THEN Times(new, form) ELSE Times(old, form)
    BY <1>4, SurplusLeaves
  <2>3. Cardinality({n \in DOMAIN old \ Surplus(old, new) : old[n] = form})
            = Cardinality({n \in DOMAIN new \ Surplus(new, old) : new[n] = form})
    BY <2>1, <2>2
  <2> HIDE DEF A, B
  <2> QED
    BY <1>5, <2>3
<1>7. SameRecords(r, A, B)
  <2> HIDE DEF A, B
  <2> QED
    BY <1>6 DEF SameRecords, old, new
<1>8. ASSUME NEW n \in entry.removed, NEW m \in entry.added, old[n] = new[m]
      PROVE  FALSE
  <2>1. Times(old, old[n]) > Times(new, old[n])
    BY <1>3, <1>4, SurplusIsMore
  <2>2. Times(new, new[m]) > Times(old, new[m])
    BY <1>3, <1>4, SurplusIsMore
  <2>3. Times(old, old[n]) \in Nat /\ Times(new, old[n]) \in Nat
    BY <1>4, SurplusLeaves
  <2> QED
    BY <1>8, <2>1, <2>2, <2>3
<1> QED
  BY <1>3, <1>7, <1>8 DEF Explains, entry, old, new

(* An entry tells the whole difference of the records of a resource.       *)
LEMMA CompareExplains ==
    ASSUME compared \in Cases, NEW r \in Resource, ~Ambiguous(r)
    PROVE  Explains(Compare(r))
BY ShapesIdentify, IdentifiedExplains, HashedExplains

(* What an entry weighs, and when it weighs nothing.                       *)
LEMMA CompareFinite ==
    ASSUME compared \in Cases, NEW r \in Resource
    PROVE  /\ Compare(r).resource = r /\ Compare(r).failed = FALSE
           /\ IsFiniteSet(Compare(r).removed) /\ Compare(r).removed \subseteq DOMAIN Records("old", r)
           /\ IsFiniteSet(Compare(r).added) /\ Compare(r).added \subseteq DOMAIN Records("new", r)
           /\ IsFiniteSet(Compare(r).changed)
           /\ Compare(r).changed \subseteq (DOMAIN Records("old", r)) \X (DOMAIN Records("new", r))
<1> "old" \in Sides /\ "new" \in Sides
  BY DEF Sides
<1> DEFINE D == DOMAIN Records("old", r)
           E == DOMAIN Records("new", r)
<1>1. IsFiniteSet(D) /\ DOMAIN Views("old", r) = D /\ IsFiniteSet(E) /\ DOMAIN Views("new", r) = E
  BY Listed
<1>2. IsFiniteSet(D \X E)
  <2> HIDE DEF D, E
  <2> QED
    BY <1>1, FS_Product
<1>3. Compare(r).resource = r /\ Compare(r).failed = FALSE
  BY DEF Compare
<1>4. Compare(r).removed \subseteq D
  BY <1>1 DEF Compare, Surplus
<1>5. Compare(r).added \subseteq E
  BY <1>1 DEF Compare, Surplus
<1>6. Compare(r).changed \subseteq D \X E
  BY <1>1 DEF Compare
<1> HIDE DEF D, E
<1>7. IsFiniteSet(Compare(r).removed) /\ IsFiniteSet(Compare(r).added) /\ IsFiniteSet(Compare(r).changed)
  BY <1>1, <1>2, <1>4, <1>5, <1>6, FS_Subset
<1> QED
  BY <1>3, <1>4, <1>5, <1>6, <1>7 DEF D, E

LEMMA EntryWeight ==
    ASSUME compared \in Cases, NEW r \in Resource
    PROVE  /\ Entry(r).resource = r
           /\ Failed(r) => Entry(r).failed = TRUE
           /\ ~Failed(r) => Entry(r).failed = FALSE
           /\ Weight(Entry(r)) \in Nat
           /\ Failed(r) => Weight(Entry(r)) = 0
           /\ ~Failed(r) => Entry(r) = Compare(r)
<1>1. CASE Failed(r)
  <2>1. Entry(r) = NotCompared(r)
    BY <1>1 DEF Entry
  <2>2. Weight(NotCompared(r)) = 0
    <3>1. NotCompared(r).removed = {} /\ NotCompared(r).added = {} /\ NotCompared(r).changed = {}
      BY DEF NotCompared
    <3> QED
      BY <3>1, FS_EmptySet DEF Weight
  <2>3. NotCompared(r).resource = r /\ NotCompared(r).failed = TRUE
    BY DEF NotCompared
  <2> QED
    BY <1>1, <2>1, <2>2, <2>3
<1>2. CASE ~Failed(r)
  <2>1. Entry(r) = Compare(r)
    BY <1>2 DEF Entry
  <2>2. Weight(Compare(r)) \in Nat
    <3>1. /\ Cardinality(Compare(r).removed) \in Nat
          /\ Cardinality(Compare(r).added) \in Nat
          /\ Cardinality(Compare(r).changed) \in Nat
      BY CompareFinite, FS_CardinalityType
    <3> QED
      BY <3>1 DEF Weight
  <2> QED
    BY <1>2, <2>1, <2>2, CompareFinite
<1> QED
  BY <1>1, <1>2

LEMMA NoWeight ==
    ASSUME compared \in Cases, NEW r \in Resource
    PROVE  Weight(Compare(r)) = 0
               <=> Compare(r).removed = {} /\ Compare(r).added = {} /\ Compare(r).changed = {}
<1>1. /\ IsFiniteSet(Compare(r).removed) /\ Cardinality(Compare(r).removed) \in Nat
      /\ IsFiniteSet(Compare(r).added) /\ Cardinality(Compare(r).added) \in Nat
      /\ IsFiniteSet(Compare(r).changed) /\ Cardinality(Compare(r).changed) \in Nat
  BY CompareFinite, FS_CardinalityType
<1>2. /\ Cardinality(Compare(r).removed) = 0 <=> Compare(r).removed = {}
      /\ Cardinality(Compare(r).added) = 0 <=> Compare(r).added = {}
      /\ Cardinality(Compare(r).changed) = 0 <=> Compare(r).changed = {}
  BY <1>1, FS_EmptySet
<1>3. \A a, b, c \in Nat : a + b + c = 0 <=> a = 0 /\ b = 0 /\ c = 0
  OBVIOUS
<1>4. Weight(Compare(r)) = 0 <=> /\ Cardinality(Compare(r).removed) = 0
                                 /\ Cardinality(Compare(r).added) = 0
                                 /\ Cardinality(Compare(r).changed) = 0
  BY <1>1, <1>3 DEF Weight
<1> QED
  BY <1>2, <1>4

(* Nothing is reported of a resource exactly if both dumps have the same   *)
(* records of it.                                                          *)
LEMMA SameIfNoWeight ==
    ASSUME compared \in Cases, NEW r \in Resource, ~Ambiguous(r), Weight(Compare(r)) = 0
    PROVE  SameRecords(r, DOMAIN Records("old", r), DOMAIN Records("new", r))
<1> "old" \in Sides /\ "new" \in Sides
  BY DEF Sides
<1>1. Compare(r).resource = r /\ Compare(r).removed = {} /\ Compare(r).added = {} /\ Compare(r).changed = {}
  BY NoWeight, CompareFinite
<1>2. DOMAIN Forms("old", r) = DOMAIN Records("old", r) /\ DOMAIN Forms("new", r) = DOMAIN Records("new", r)
  BY Listed
<1>3. SameRecords(r, DOMAIN Forms("old", r) \ ({} \cup {p[1] : p \in {}}),
                     DOMAIN Forms("new", r) \ ({} \cup {p[2] : p \in {}}))
  BY <1>1, CompareExplains DEF Explains
<1>4. /\ DOMAIN Forms("old", r) \ ({} \cup {p[1] : p \in {}}) = DOMAIN Records("old", r)
      /\ DOMAIN Forms("new", r) \ ({} \cup {p[2] : p \in {}}) = DOMAIN Records("new", r)
  BY <1>2
<1> QED
  BY <1>3, <1>4

LEMMA FormOfSame ==
    ASSUME compared \in Cases, NEW r \in Resource,
           SameRecords(r, DOMAIN Records("old", r), DOMAIN Records("new", r))
    PROVE  /\ \A n \in DOMAIN Forms("old", r) : \E m \in DOMAIN Forms("new", r) : Forms("old", r)[n] = Forms("new", r)[m]
           /\ \A m \in DOMAIN Forms("new", r) : \E n \in DOMAIN Forms("old", r) : Forms("old", r)[n] = Forms("new", r)[m]
           /\ \A n \in DOMAIN Forms("old", r) : Times(Forms("old", r), Forms("old", r)[n]) = Times(Forms("new", r), Forms("old", r)[n])
           /\ \A m \in DOMAIN Forms("new", r) : Times(Forms("new", r), Forms("new", r)[m]) = Times(Forms("old", r), Forms("new", r)[m])
<1> "old" \in Sides /\ "new" \in Sides
  BY DEF Sides
<1> DEFINE old == Forms("old", r)
           new == Forms("new", r)
<1>1. /\ DOMAIN old = DOMAIN Records("old", r) /\ IsFiniteSet(DOMAIN old)
      /\ DOMAIN new = DOMAIN Records("new", r) /\ IsFiniteSet(DOMAIN new)
  BY Listed
<1>2. \A form \in {old[n] : n \in DOMAIN old} \cup {new[m] : m \in DOMAIN new} : Times(old, form) = Times(new, form)
  BY <1>1 DEF SameRecords, Times
<1> HIDE DEF old, new
<1>3. \A form : /\ IsFiniteSet({n \in DOMAIN old : old[n] = form})
                /\ IsFiniteSet({m \in DOMAIN new : new[m] = form})
  <2> SUFFICES ASSUME NEW form PROVE /\ IsFiniteSet({n \in DOMAIN old : old[n] = form})
                                     /\ IsFiniteSet({m \in DOMAIN new : new[m] = form})
    OBVIOUS
  <2>1. {n \in DOMAIN old : old[n] = form} \in SUBSET DOMAIN old /\ {m \in DOMAIN new : new[m] = form} \in SUBSET DOMAIN new
    OBVIOUS
  <2> QED
    BY <1>1, <2>1, FS_Subset
<1>4. \A form : /\ Times(old, form) = 0 <=> {n \in DOMAIN old : old[n] = form} = {}
                /\ Times(new, form) = 0 <=> {m \in DOMAIN new : new[m] = form} = {}
  BY <1>3, FS_EmptySet DEF Times
<1>5. ASSUME NEW n \in DOMAIN old PROVE \E m \in DOMAIN new : old[n] = new[m]
  <2>1. Times(old, old[n]) # 0
    BY <1>4
  <2>2. Times(new, old[n]) # 0
    BY <1>2, <2>1
  <2> QED
    BY <1>4, <2>2
<1>6. ASSUME NEW m \in DOMAIN new PROVE \E n \in DOMAIN old : old[n] = new[m]
  <2>1. Times(new, new[m]) # 0
    BY <1>4
  <2>2. Times(old, new[m]) # 0
    BY <1>2, <2>1
  <2> QED
    BY <1>4, <2>2
<1> QED
  BY <1>2, <1>5, <1>6 DEF old, new

LEMMA NoWeightIfSame ==
    ASSUME compared \in Cases, NEW r \in Resource, ~Ambiguous(r),
           SameRecords(r, DOMAIN Records("old", r), DOMAIN Records("new", r))
    PROVE  Weight(Compare(r)) = 0
<1> "old" \in Sides /\ "new" \in Sides
  BY DEF Sides
<1> DEFINE entry == Compare(r)
           old == Forms("old", r)
           new == Forms("new", r)
<1>1. /\ \A n \in DOMAIN old : \E m \in DOMAIN new : old[n] = new[m]
      /\ \A m \in DOMAIN new : \E n \in DOMAIN old : old[n] = new[m]
      /\ \A n \in DOMAIN old : Times(old, old[n]) = Times(new, old[n])
      /\ \A m \in DOMAIN new : Times(new, new[m]) = Times(old, new[m])
  BY FormOfSame
<1>2. CASE compared.shape[r] = "hashed"
  <2>1. old = Views("old", r) /\ new = Views("new", r)
    BY <1>2 DEF Forms, Views
  <2>2. entry.removed = Surplus(old, new) /\ entry.added = Surplus(new, old) /\ entry.changed = {}
    BY <1>2, <2>1 DEF Compare
  <2>3. \E L, K \in Nat : DOMAIN old = 1..L /\ DOMAIN new = 1..K
    BY Listed
  <2> HIDE DEF entry, old, new
  <2>4. ASSUME NEW n \in Surplus(old, new) PROVE FALSE
    <3>1. n \in DOMAIN old /\ Times(old, old[n]) > Times(new, old[n])
      BY <2>3, SurplusIsMore
    <3>2. Times(old, old[n]) \in Nat /\ Times(new, old[n]) \in Nat
      BY <2>3, SurplusLeaves
    <3> QED
      BY <1>1, <3>1, <3>2
  <2>5. ASSUME NEW n \in Surplus(new, old) PROVE FALSE
    <3>1. n \in DOMAIN new /\ Times(new, new[n]) > Times(old, new[n])
      BY <2>3, SurplusIsMore
    <3>2. Times(new, new[n]) \in Nat /\ Times(old, new[n]) \in Nat
      BY <2>3, SurplusLeaves
    <3> QED
      BY <1>1, <3>1, <3>2
  <2>6. entry.removed = {} /\ entry.added = {} /\ entry.changed = {}
    BY <2>2, <2>4, <2>5
  <2> QED
    BY <2>6, NoWeight DEF entry
<1>3. CASE compared.shape[r] # "hashed"
  <2>1. Identified(r)
    BY <1>3, ShapesIdentify
  <2>2. /\ entry.removed = {n \in DOMAIN old : \A m \in DOMAIN new : ~Same(r, n, m)}
        /\ entry.added = {m \in DOMAIN new : \A n \in DOMAIN old : ~Same(r, n, m)}
        /\ \A p \in entry.changed : /\ p[1] \in DOMAIN old /\ p[2] \in DOMAIN new
                                    /\ Same(r, p[1], p[2]) /\ old[p[1]] # new[p[2]]
    BY <1>3, IdentifiedEntry
  <2>3. /\ \A n \in DOMAIN old, m, k \in DOMAIN new : Same(r, n, m) /\ Same(r, n, k) => m = k
        /\ \A n \in DOMAIN old, m \in DOMAIN new : old[n] = new[m] => Same(r, n, m)
    BY <2>1 DEF Identified
  <2> HIDE DEF entry, old, new
  <2>4. entry.removed = {} /\ entry.added = {}
    BY <1>1, <2>2, <2>3
  <2>5. ASSUME NEW p \in entry.changed PROVE FALSE
    <3>1. p[1] \in DOMAIN old /\ p[2] \in DOMAIN new /\ Same(r, p[1], p[2]) /\ old[p[1]] # new[p[2]]
      BY <2>2
    <3>2. PICK m \in DOMAIN new : old[p[1]] = new[m]
      BY <1>1, <3>1
    <3>3. m = p[2]
      BY <2>3, <3>1, <3>2
    <3> QED
      BY <3>1, <3>2, <3>3
  <2> QED
    BY <2>4, <2>5, NoWeight DEF entry
<1> QED
  BY <1>2, <1>3

-----------------------------------------------------------------------------
(* What is compared does not change.                                       *)

LEMMA FixedLists ==
    ASSUME UNCHANGED request
    PROVE  \A s, r : /\ Status(s, r)' = Status(s, r) /\ Records(s, r)' = Records(s, r)
                     /\ FileOf(s, r)' = FileOf(s, r) /\ Views(s, r)' = Views(s, r)
BY DEF request, Status, Records, FileOf, Views, View

LEMMA FixedEntries ==
    ASSUME UNCHANGED request
    PROVE  \A r : /\ Failed(r)' = Failed(r) /\ OneSided(r)' = OneSided(r)
                  /\ Ambiguous(r)' = Ambiguous(r) /\ Entry(r)' = Entry(r)
<1> SUFFICES ASSUME NEW r PROVE /\ Failed(r)' = Failed(r) /\ OneSided(r)' = OneSided(r)
                                /\ Ambiguous(r)' = Ambiguous(r) /\ Entry(r)' = Entry(r)
  OBVIOUS
<1>1. compared' = compared
  BY DEF request
<1>2. Failed(r)' = Failed(r) /\ OneSided(r)' = OneSided(r)
  BY FixedLists DEF Failed, OneSided
<1>3. Ambiguous(r)' = Ambiguous(r)
  BY <1>1, FixedLists DEF Ambiguous
<1>4. Compare(r)' = Compare(r)
  <2>1. Views("old", r)' = Views("old", r) /\ Views("new", r)' = Views("new", r)
    BY FixedLists
  <2> QED
    BY <1>1, <2>1 DEF Compare, SameRecord
<1>5. Entry(r)' = Entry(r)
  BY <1>2, <1>4 DEF Entry, NotCompared
<1> QED
  BY <1>2, <1>3, <1>5

-----------------------------------------------------------------------------
(* The steps of the comparison, and what the stream looks like at each.    *)

DiffTypeOK ==
    /\ compared \in Cases
    /\ selected \subseteq Resource
    /\ failOnDrift \in BOOLEAN
    /\ ctx \in {"live", "canceled", "deadline"}
    /\ pc \in {"prepare", "start", "started", "open", "load", "admit", "next", "told",
               "completed", "failed", "returned", "exited"}
    /\ fault \in {"none", "usage", "internal", "canceled", "deadline"}
    /\ side \in Sides
    /\ i \in 1..(Count + 1)
    /\ pc = "told" => i \in selected
    /\ ret \in {"none", "ok", "sink"} \cup Kinds

Early == {"prepare", "start"}
Quiet == {"open", "load", "admit", "next"}
Waiting == {"started", "told"}

(* The consumer was told that the comparison has been completed.           *)
Answered == sink /\ terminal /\ LastKind = "completed"

PcInv ==
    /\ pc \in Early => Idle /\ result = "none" /\ ~terminal
    /\ pc \in Quiet => Ready
    /\ pc \in Waiting =>
          /\ Idle => result # "none"
          /\ terminal => LastKind = "failed" /\ (IF Idle THEN result = "error" ELSE owed = "error")
    /\ pc = "completed" => Answered /\ (Idle => result # "none")
    /\ pc \in {"failed", "returned", "exited"} /\ sink =>
          /\ terminal
          /\ ret = "canceled" <=> LastKind = "canceled"
    /\ pc \in {"returned", "exited"} => Idle

RetInv ==
    /\ pc \notin {"failed", "returned", "exited"} => ret = "none"
    /\ pc = "failed" => ret \in {"sink"} \cup Kinds
    /\ pc \in {"returned", "exited"} => ret \in {"ok", "sink"} \cup Kinds
    /\ ret = "ok" => Answered
    /\ Answered => pc \in {"completed", "returned", "exited"} /\ ret \in {"none", "ok", "sink"}

BaseInv == DiffTypeOK /\ StreamInv /\ PcInv /\ RetInv

LEMMA NothingTold == 0 \in Subject /\ Count \in Nat /\ (\A r \in Resource : r \in Subject)
BY DiffAssumption DEF Resource

LEMMA BaseInit == Init => BaseInv
<1> SUFFICES ASSUME Init PROVE BaseInv
  OBVIOUS
<1>1. StreamInv
  BY InitStream DEF Init
<1>2. 1 \in 1..(Count + 1)
  BY NothingTold
<1>3. DiffTypeOK
  BY <1>2 DEF Init, DiffTypeOK, Sides
<1>4. PcInv
  BY DEF Init, StreamInit, PcInv, Early, Quiet, Waiting, Idle
<1>5. RetInv
  BY DEF Init, StreamInit, RetInv, Answered
<1> QED
  BY <1>1, <1>3, <1>4, <1>5 DEF BaseInv

(* The stream is told of a failure.                                        *)
LEMMA FailStep ==
    ASSUME BaseInv, Ready, NEW kind \in Kinds, FailWith(kind)
    PROVE  /\ StreamInv' /\ PcInv' /\ RetInv' /\ ProgressOf' = ProgressOf
           /\ ~Answered' /\ pc' = "failed" /\ ret' = kind
<1> DEFINE k == IF kind = "canceled" THEN "canceled" ELSE "failed"
<1>1. k \in {"failed", "canceled"} /\ k \in NonTerminal \cup Terminal /\ k \in Terminal /\ 0 \in Subject
  BY NothingTold DEF Terminal
<1>2. Call(k, 0, "ok") /\ ret' = kind /\ pc' = "failed"
  BY DEF FailWith, Fail
<1>3. /\ StreamInv' /\ ~Idle' /\ result' = "ok" /\ sink' = sink /\ sink
      /\ terminal' = (k \in Terminal) /\ LastKind' = k
      /\ ProgressOf' = ProgressOf \cup (IF k = "progress" THEN {0} ELSE {})
  <2> HIDE DEF k
  <2> QED
    BY <1>1, <1>2, CallEffect DEF BaseInv
<1>4. ProgressOf' = ProgressOf
  BY <1>1, <1>3
<1>5. ~Answered'
  BY <1>1, <1>3 DEF Answered
<1>6. LastKind' = "canceled" <=> kind = "canceled"
  BY <1>3
<1>7. PcInv'
  BY <1>1, <1>2, <1>3, <1>6 DEF PcInv, Early, Quiet, Waiting
<1>8. RetInv'
  BY <1>2, <1>5 DEF RetInv, Kinds, Refusals
<1> QED
  BY <1>2, <1>3, <1>4, <1>5, <1>7, <1>8

(* The comparison goes on, without the stream.                             *)
LEMMA ProceedStep ==
    ASSUME BaseInv, pc \in Quiet \cup Waiting, Ready, NEW step \in Quiet, Proceed(step)
    PROVE  /\ StreamInv' /\ PcInv' /\ RetInv' /\ ProgressOf' = ProgressOf /\ ~Answered' /\ pc' = step
<1>1. UNCHANGED stream /\ ret' = ret /\ pc' = step
  BY DEF Proceed
<1>2. StreamInv' /\ ProgressOf' = ProgressOf /\ Ready'
  BY <1>1, StutterStream DEF BaseInv, ProgressOf, Ready, Idle, stream
<1>3. ~Answered /\ ~Answered'
  BY <1>1 DEF Answered, Ready, stream
<1>4. PcInv'
  BY <1>1, <1>2 DEF PcInv, Early, Quiet, Waiting
<1>5. ret = "none"
  BY DEF BaseInv, RetInv, Quiet, Waiting
<1>6. RetInv'
  BY <1>1, <1>3, <1>5 DEF RetInv, Quiet, Kinds, Refusals
<1> QED
  BY <1>1, <1>2, <1>3, <1>4, <1>6

(* It gives up after an event that could not be delivered.                 *)
LEMMA AbortStep ==
    ASSUME BaseInv, pc \in Waiting, Idle, result = "error", Abort
    PROVE  /\ StreamInv' /\ PcInv' /\ RetInv' /\ ProgressOf' = ProgressOf
           /\ ~Answered' /\ pc' = "failed" /\ ret' = "sink"
<1>1. UNCHANGED stream /\ ret' = "sink" /\ pc' = "failed"
  BY DEF Abort
<1>2. StreamInv' /\ ProgressOf' = ProgressOf
  BY <1>1, StutterStream DEF BaseInv, ProgressOf, stream
<1>3. sink => terminal /\ LastKind = "failed"
  BY DEF BaseInv, PcInv, StreamInv, StreamTypeOK
<1>4. ~Answered'
  BY <1>1, <1>3 DEF Answered, LastKind, stream
<1>5. PcInv'
  BY <1>1, <1>3 DEF PcInv, Early, Quiet, Waiting, LastKind, stream
<1>6. RetInv'
  BY <1>1, <1>4 DEF RetInv
<1> QED
  BY <1>1, <1>2, <1>4, <1>5, <1>6

LEMMA WaitingReady == BaseInv /\ pc \in Waiting /\ Idle /\ result = "ok" => Ready
BY DEF BaseInv, PcInv, Ready

LEMMA QuietReady == BaseInv /\ pc \in Quiet => Ready
BY DEF BaseInv, PcInv

LEMMA ContextKind == BaseInv /\ ctx # "live" => ctx \in Kinds
BY DEF BaseInv, DiffTypeOK, Kinds

(* The three ways a step of the comparison may end.                        *)
Ends == StreamInv' /\ PcInv' /\ RetInv'

LEMMA TypesAfter ==
    ASSUME BaseInv, Ends, UNCHANGED request, failOnDrift' \in BOOLEAN,
           ctx' \in {"live", "canceled", "deadline"},
           fault' \in {"none", "usage", "internal", "canceled", "deadline"},
           side' \in Sides, i' \in 1..(Count + 1), pc' = "told" => i' \in selected,
           pc' \in Early \cup Quiet \cup Waiting \cup {"completed", "failed", "returned", "exited"}
    PROVE  BaseInv'
<1>1. ret' \in {"none", "ok", "sink"} \cup Kinds
  BY DEF Ends, RetInv
<1>2. DiffTypeOK'
  BY <1>1 DEF BaseInv, DiffTypeOK, request, Early, Quiet, Waiting
<1> QED
  BY <1>2 DEF BaseInv, Ends

LEMMA PrepareBase == ASSUME BaseInv, Prepare PROVE BaseInv' /\ ProgressOf' = ProgressOf
<1>1. /\ pc = "prepare" /\ pc' = "start" /\ UNCHANGED stream /\ ret' = ret
      /\ UNCHANGED <<request, command, ctx, side, i>>
      /\ fault' \in {"none", "usage", "internal", "canceled", "deadline"}
  BY DEF Prepare, loader, BaseInv, DiffTypeOK
<1>2. StreamInv' /\ ProgressOf' = ProgressOf
  BY <1>1, StutterStream DEF BaseInv, ProgressOf, stream
<1>3. PcInv'
  BY <1>1 DEF BaseInv, PcInv, Early, Quiet, Waiting, Idle, stream
<1>4. RetInv'
  BY <1>1 DEF BaseInv, RetInv, Answered, LastKind, stream
<1> QED
  BY <1>1, <1>2, <1>3, <1>4, TypesAfter DEF Ends, BaseInv, DiffTypeOK, Early,
     command

LEMMA StartBase == ASSUME BaseInv, Start PROVE BaseInv' /\ ProgressOf' = ProgressOf
<1>1. PICK total \in {0, Cardinality(selected)} : StartEventStream(total)
  BY DEF Start
<1>2. total \in Subject
  <2>1. IsFiniteSet(1..Count) /\ Cardinality(1..Count) = Count /\ selected \in SUBSET (1..Count)
    BY NothingTold, FS_Interval DEF BaseInv, DiffTypeOK, Resource
  <2>2. Cardinality(selected) \in Nat /\ Cardinality(selected) <= Count
    BY <2>1, FS_Subset, FS_CardinalityType
  <2> QED
    BY <2>2, DiffAssumption
<1>3. [kind |-> "started", of |-> total] \in Event
  BY <1>2 DEF Event
<1>4. StreamInv'
  BY <1>1, <1>2, <1>3, CallStream DEF BaseInv, StartEventStream
<1>5. \/ ~Idle' /\ ~terminal'
      \/ Idle' /\ result' = "error" /\ UNCHANGED <<terminal, delivered>>
  <2>1. CASE Refused("started") /\ result' = "error"
             /\ UNCHANGED <<sink, started, terminal, delivering, owed, delivered>>
    BY <1>1, <2>1 DEF StartEventStream, Call, Idle
  <2>2. CASE ~Refused("started") /\ Hand("started", total) /\ owed' = "ok" /\ UNCHANGED result
    BY <1>3, <2>2, HandLast DEF BaseInv, Hand, Terminal
  <2> QED
    BY <1>1, <2>1, <2>2 DEF StartEventStream, Call
<1>6. ProgressOf' = ProgressOf
  <2>1. CASE delivered' = delivered
    BY <2>1 DEF ProgressOf
  <2>2. CASE Hand("started", total)
    BY <1>3, <2>2, HandProgress DEF BaseInv
  <2> QED
    BY <1>1, <2>1, <2>2 DEF StartEventStream, Call
<1>7. pc = "start" /\ pc' = "started" /\ ~terminal /\ ret' = ret /\ ret = "none"
      /\ UNCHANGED <<request, command, ctx, fault, side, i>>
  BY DEF Start, BaseInv, PcInv, RetInv, Early, loader
<1>8. ~terminal'
  BY <1>5, <1>7
<1>9. PcInv'
  BY <1>5, <1>7, <1>8 DEF PcInv, Early, Quiet, Waiting
<1>10. RetInv'
  BY <1>7, <1>8 DEF RetInv, Answered
<1> QED
  BY <1>4, <1>6, <1>7, <1>9, <1>10, TypesAfter DEF Ends, BaseInv, DiffTypeOK,
     Waiting, command

LEMMA StartedBase == ASSUME BaseInv, Started PROVE BaseInv' /\ ProgressOf' = ProgressOf
<1>1. /\ pc = "started" /\ pc \in Waiting /\ Idle
      /\ UNCHANGED <<request, command, ctx, fault, side, i>>
  BY DEF Started, Waiting, loader
<1>2. Ends /\ ProgressOf' = ProgressOf /\ pc' \in {"open", "failed"}
  <2>1. CASE result = "error" /\ Abort
    BY <1>1, <2>1, AbortStep DEF Ends
  <2>2. CASE result = "ok" /\ fault # "none" /\ FailWith(fault)
    BY <1>1, <2>2, WaitingReady, FailStep DEF Ends, BaseInv, DiffTypeOK, Kinds
  <2>3. CASE result = "ok" /\ ctx # "live" /\ FailWith(ctx)
    BY <1>1, <2>3, WaitingReady, FailStep, ContextKind DEF Ends
  <2>4. CASE result = "ok" /\ Proceed("open")
    BY <1>1, <2>4, WaitingReady, ProceedStep DEF Ends, Quiet
  <2> QED
    BY <2>1, <2>2, <2>3, <2>4 DEF Started
<1> QED
  BY <1>1, <1>2, TypesAfter DEF BaseInv, DiffTypeOK, Quiet, command

LEMMA OpenBase == ASSUME BaseInv, OpenDump PROVE BaseInv' /\ ProgressOf' = ProgressOf
<1>1. /\ pc = "open" /\ pc \in Quiet /\ Ready
      /\ UNCHANGED <<request, command, ctx, fault, side>> /\ i' \in 1..(Count + 1)
  BY QuietReady, NothingTold DEF OpenDump, Quiet, loader, BaseInv, DiffTypeOK
<1>2. Ends /\ ProgressOf' = ProgressOf /\ pc' \in {"load", "failed"}
  <2>1. CASE ctx # "live" /\ FailWith(ctx)
    BY <1>1, <2>1, FailStep, ContextKind DEF Ends
  <2>2. CASE FailWith("invalid")
    BY <1>1, <2>2, FailStep DEF Ends, Kinds, Refusals
  <2>3. CASE Proceed("load")
    BY <1>1, <2>3, ProceedStep DEF Ends, Quiet
  <2> QED
    BY <2>1, <2>2, <2>3 DEF OpenDump
<1> QED
  BY <1>1, <1>2, TypesAfter DEF BaseInv, DiffTypeOK, Quiet, command

LEMMA VerdictType == \A size : Verdict(size) \in {"tooLarge", "invalid", "ok"}
BY DEF Verdict

LEMMA LoadFileBase == ASSUME BaseInv, LoadFile PROVE BaseInv' /\ ProgressOf' = ProgressOf
<1>1. /\ pc = "load" /\ pc \in Quiet /\ Ready
      /\ UNCHANGED <<request, command, ctx, fault, side>> /\ i' \in 1..(Count + 1)
  <2>1. pc = "load" /\ i <= Count /\ (i' = i \/ i' = i + 1)
    BY DEF LoadFile
  <2>2. i' \in 1..(Count + 1)
    BY <2>1, NothingTold DEF BaseInv, DiffTypeOK
  <2> QED
    BY <2>1, <2>2, QuietReady DEF LoadFile, Quiet
<1>2. Ends /\ ProgressOf' = ProgressOf /\ pc' \in {"load", "failed"}
  <2>1. CASE ctx # "live" /\ FailWith(ctx)
    BY <1>1, <2>1, FailStep, ContextKind DEF Ends
  <2>2. CASE FailWith("invalid")
    BY <1>1, <2>2, FailStep DEF Ends, Kinds, Refusals
  <2>3. CASE FailWith("tooLarge")
    BY <1>1, <2>3, FailStep DEF Ends, Kinds, Refusals
  <2>4. CASE Proceed("load")
    BY <1>1, <2>4, ProceedStep DEF Ends, Quiet
  <2>5. \/ ctx # "live" /\ FailWith(ctx)
        \/ FailWith("invalid") \/ FailWith("tooLarge") \/ Proceed("load")
    BY VerdictType DEF LoadFile
  <2> QED
    BY <2>1, <2>2, <2>3, <2>4, <2>5
<1> QED
  BY <1>1, <1>2, TypesAfter DEF BaseInv, DiffTypeOK, Quiet, command

LEMMA DumpLoadedBase == ASSUME BaseInv, DumpLoaded PROVE BaseInv' /\ ProgressOf' = ProgressOf
<1>1. /\ pc = "load" /\ pc \in Quiet /\ Ready
      /\ UNCHANGED <<request, command, ctx, fault, i>> /\ side' \in Sides
  BY QuietReady DEF DumpLoaded, Quiet, BaseInv, DiffTypeOK, Sides
<1>2. Ends /\ ProgressOf' = ProgressOf /\ pc' \in Quiet
  <2>1. CASE Proceed("open")
    BY <1>1, <2>1, ProceedStep DEF Ends, Quiet
  <2>2. CASE Proceed("admit")
    BY <1>1, <2>2, ProceedStep DEF Ends, Quiet
  <2> QED
    BY <2>1, <2>2 DEF DumpLoaded
<1> QED
  BY <1>1, <1>2, TypesAfter DEF BaseInv, DiffTypeOK, Quiet, command

LEMMA AdmitBase == ASSUME BaseInv, Admit PROVE BaseInv' /\ ProgressOf' = ProgressOf
<1>1. /\ pc = "admit" /\ pc \in Quiet /\ Ready
      /\ UNCHANGED <<request, command, ctx, fault, side>> /\ i' \in 1..(Count + 1)
  BY QuietReady, NothingTold DEF Admit, Quiet, loader, BaseInv
<1>2. Ends /\ ProgressOf' = ProgressOf /\ pc' \in {"next", "failed"}
  <2>1. CASE ctx # "live" /\ FailWith(ctx)
    BY <1>1, <2>1, FailStep, ContextKind DEF Ends
  <2>2. CASE FailWith("redaction")
    BY <1>1, <2>2, FailStep DEF Ends, Kinds, Refusals
  <2>3. CASE FailWith("partial")
    BY <1>1, <2>3, FailStep DEF Ends, Kinds, Refusals
  <2>4. CASE Proceed("next")
    BY <1>1, <2>4, ProceedStep DEF Ends, Quiet
  <2> QED
    BY <2>1, <2>2, <2>3, <2>4 DEF Admit
<1> QED
  BY <1>1, <1>2, TypesAfter DEF BaseInv, DiffTypeOK, Quiet, command

(* Progress is told of a resource that is going to be compared.            *)
LEMMA NextResourceBase ==
    ASSUME BaseInv, NextResource
    PROVE  /\ BaseInv'
           /\ \/ pc' # "told" /\ ProgressOf' = ProgressOf
              \/ pc' = "told" /\ ProgressOf' = ProgressOf \cup {i}
<1>1. /\ pc = "next" /\ pc \in Quiet /\ Ready /\ i \in Resource
      /\ UNCHANGED <<request, command, ctx, fault, side>> /\ i' \in 1..(Count + 1)
  <2>1. pc = "next" /\ i <= Count /\ (i' = i \/ i' = i + 1)
    BY DEF NextResource
  <2>2. i' \in 1..(Count + 1) /\ i \in Resource
    BY <2>1, NothingTold DEF BaseInv, DiffTypeOK, Resource
  <2> QED
    BY <2>1, <2>2, QuietReady DEF NextResource, Quiet, loader
<1>2. /\ Ends /\ pc' \in {"next", "told", "failed"}
      /\ \/ pc' # "told" /\ ProgressOf' = ProgressOf
         \/ pc' = "told" /\ ProgressOf' = ProgressOf \cup {i}
      /\ pc' = "told" => i \in selected /\ i' = i
  <2>1. CASE ctx # "live" /\ FailWith(ctx)
    BY <1>1, <2>1, FailStep, ContextKind DEF Ends
  <2>2. CASE FailWith("scope")
    BY <1>1, <2>2, FailStep DEF Ends, Kinds, Refusals
  <2>3. CASE Proceed("next")
    BY <1>1, <2>3, ProceedStep DEF Ends, Quiet
  <2>4. CASE i \in selected /\ UNCHANGED i /\ Emit("progress", i) /\ pc' = "told" /\ UNCHANGED ret
    <3>1. i \in Subject /\ "progress" \in NonTerminal \cup Terminal /\ "progress" \notin Terminal
      BY <1>1, NothingTold DEF NonTerminal, Terminal
    <3>2. PICK k : k = i
      OBVIOUS
    <3>3. Call("progress", k, "ok")
      BY <2>4, <3>2 DEF Emit
    <3>4. /\ StreamInv' /\ ~Idle' /\ result' = "ok" /\ ~terminal'
          /\ ProgressOf' = ProgressOf \cup {k}
      BY <1>1, <3>1, <3>2, <3>3, CallEffect DEF BaseInv
    <3>5. PcInv'
      BY <2>4, <3>4 DEF PcInv, Early, Quiet, Waiting
    <3>6. ret = "none"
      BY <1>1 DEF BaseInv, RetInv
    <3>7. RetInv'
      BY <2>4, <3>4, <3>6 DEF RetInv, Answered
    <3> QED
      BY <2>4, <3>2, <3>4, <3>5, <3>7 DEF Ends
  <2> QED
    BY <2>1, <2>2, <2>3, <2>4 DEF NextResource
<1> QED
  BY <1>1, <1>2, TypesAfter DEF BaseInv, DiffTypeOK, Quiet, Waiting, command

LEMMA CompareBase == ASSUME BaseInv, CompareResource PROVE BaseInv' /\ ProgressOf' = ProgressOf
<1>1. /\ pc = "told" /\ pc \in Waiting /\ Idle
      /\ UNCHANGED <<request, command, ctx, fault, side>> /\ i' \in 1..(Count + 1)
  <2>1. pc = "told" /\ i \in 1..Count /\ (i' = i \/ i' = i + 1)
    BY DEF CompareResource, BaseInv, DiffTypeOK, Resource
  <2> QED
    BY <2>1, NothingTold DEF CompareResource, Waiting, loader
<1>2. Ends /\ ProgressOf' = ProgressOf /\ pc' \in {"next", "failed"}
  <2>1. CASE result = "error" /\ Abort
    BY <1>1, <2>1, AbortStep DEF Ends
  <2>2. CASE result = "ok" /\ ctx # "live" /\ FailWith(ctx)
    BY <1>1, <2>2, WaitingReady, FailStep, ContextKind DEF Ends
  <2>3. CASE result = "ok" /\ FailWith("invalid")
    BY <1>1, <2>3, WaitingReady, FailStep DEF Ends, Kinds, Refusals
  <2>4. CASE result = "ok" /\ Proceed("next")
    BY <1>1, <2>4, WaitingReady, ProceedStep DEF Ends, Quiet
  <2> QED
    BY <2>1, <2>2, <2>3, <2>4 DEF CompareResource
<1> QED
  BY <1>1, <1>2, TypesAfter DEF BaseInv, DiffTypeOK, Quiet, command

LEMMA ComparedBase == ASSUME BaseInv, Compared PROVE BaseInv' /\ ProgressOf' = ProgressOf /\ Answered'
<1>1. /\ pc = "next" /\ pc \in Quiet /\ Ready /\ pc' = "completed" /\ ret' = ret /\ ret = "none"
      /\ UNCHANGED <<request, command, ctx, fault, side, i>>
  BY QuietReady DEF Compared, Quiet, loader, BaseInv, RetInv
<1>2. /\ StreamInv' /\ ~Idle' /\ sink' /\ terminal' /\ LastKind' = "completed"
      /\ ProgressOf' = ProgressOf
  <2>1. Call("completed", 0, "ok") /\ 0 \in Subject /\ "completed" \in NonTerminal \cup Terminal
        /\ "completed" \in Terminal
    BY NothingTold DEF Compared, Complete, Terminal
  <2> QED
    BY <1>1, <2>1, CallEffect DEF BaseInv
<1>3. Answered'
  BY <1>2 DEF Answered
<1>4. PcInv'
  BY <1>1, <1>2, <1>3 DEF PcInv, Early, Quiet, Waiting
<1>5. RetInv'
  BY <1>1, <1>3 DEF RetInv
<1> QED
  BY <1>1, <1>2, <1>3, <1>4, <1>5, TypesAfter DEF Ends, BaseInv, DiffTypeOK,
     command

(* Steps that leave the stream alone.                                      *)
LEMMA SameStream ==
    ASSUME BaseInv, UNCHANGED stream
    PROVE  /\ StreamInv' /\ ProgressOf' = ProgressOf /\ (Idle' <=> Idle) /\ (Ready' <=> Ready)
           /\ LastKind' = LastKind /\ (Answered' <=> Answered)
BY StutterStream DEF BaseInv, ProgressOf, stream, Idle, Ready, LastKind,
   Answered

LEMMA CompletedBase == ASSUME BaseInv, Completed PROVE BaseInv' /\ ProgressOf' = ProgressOf
<1>1. /\ pc = "completed" /\ Idle /\ Answered /\ pc' = "returned" /\ UNCHANGED stream
      /\ ret' \in {"ok", "sink"}
      /\ UNCHANGED <<request, command, ctx, fault, side, i>>
  BY DEF Completed, loader, BaseInv, PcInv
<1>2. StreamInv' /\ ProgressOf' = ProgressOf /\ Idle' /\ LastKind' = LastKind /\ Answered'
  BY <1>1, SameStream
<1>3. PcInv'
  BY <1>1, <1>2 DEF PcInv, Early, Quiet, Waiting, Answered
<1>4. RetInv'
  BY <1>1, <1>2 DEF RetInv
<1> QED
  BY <1>1, <1>2, <1>3, <1>4, TypesAfter DEF Ends, BaseInv, DiffTypeOK, command

LEMMA UnwindBase == ASSUME BaseInv, Unwind PROVE BaseInv' /\ ProgressOf' = ProgressOf
<1>1. /\ pc = "failed" /\ Idle /\ pc' = "returned" /\ UNCHANGED stream /\ ret' = ret
      /\ UNCHANGED <<request, command, ctx, fault, side, i>>
  BY DEF Unwind, loader
<1>2. StreamInv' /\ ProgressOf' = ProgressOf /\ Idle' /\ LastKind' = LastKind /\ (Answered' <=> Answered)
  BY <1>1, SameStream
<1>3. PcInv'
  BY <1>1, <1>2 DEF BaseInv, PcInv, Early, Quiet, Waiting, stream
<1>4. RetInv'
  BY <1>1, <1>2 DEF BaseInv, RetInv
<1> QED
  BY <1>1, <1>2, <1>3, <1>4, TypesAfter DEF Ends, BaseInv, DiffTypeOK, command

LEMMA ExitBase == ASSUME BaseInv, Exit PROVE BaseInv' /\ ProgressOf' = ProgressOf
<1>1. /\ pc = "returned" /\ pc' = "exited" /\ UNCHANGED stream /\ ret' = ret
      /\ UNCHANGED <<request, ctx, fault, side, i>> /\ failOnDrift' \in BOOLEAN
  BY DEF Exit, loader
<1>2. StreamInv' /\ ProgressOf' = ProgressOf /\ (Idle' <=> Idle) /\ LastKind' = LastKind /\ (Answered' <=> Answered)
  BY <1>1, SameStream
<1>3. PcInv'
  BY <1>1, <1>2 DEF BaseInv, PcInv, Early, Quiet, Waiting, stream
<1>4. RetInv'
  BY <1>1, <1>2 DEF BaseInv, RetInv
<1> QED
  BY <1>1, <1>2, <1>3, <1>4, TypesAfter DEF Ends, BaseInv, DiffTypeOK

LEMMA SinkBase == ASSUME BaseInv, Sink PROVE BaseInv' /\ ProgressOf' = ProgressOf
<1>1. /\ SinkAccepts \/ SinkRejects
      /\ UNCHANGED <<request, command, ctx, pc, fault, side, i, ret>>
  BY DEF Sink, loader
<1>2. /\ StreamInv' /\ ~Idle /\ sink /\ sink' = sink
      /\ \/ /\ Idle' /\ terminal' = terminal /\ LastKind' = LastKind
            /\ result' = "error" \/ result' = owed
            /\ ~terminal => result' = owed
         \/ /\ ~Idle' /\ ~terminal /\ terminal' /\ LastKind' = "failed"
            /\ owed' = "error" /\ result' = result
  BY <1>1, SinkEffect DEF BaseInv
<1>3. ProgressOf' = ProgressOf
  BY <1>1, SinkProgress DEF BaseInv
<1>4. owed \in {"ok", "error"}
  BY DEF BaseInv, StreamInv, StreamTypeOK
<1>5. Answered' <=> Answered
  BY <1>2 DEF Answered
<1>6. PcInv'
  <2>1. pc \notin Early \cup Quiet \cup {"returned", "exited"}
    BY <1>2 DEF BaseInv, PcInv, Ready
  <2>2. CASE pc \in Waiting
    BY <1>1, <1>2, <1>4, <2>1, <2>2 DEF BaseInv, PcInv, Early, Quiet, Waiting
  <2>3. CASE pc = "completed"
    BY <1>1, <1>2, <1>4, <1>5, <2>3 DEF BaseInv, PcInv, Early, Quiet,
       Waiting, Answered
  <2>4. CASE pc = "failed"
    <3>1. terminal /\ (ret = "canceled" <=> LastKind = "canceled")
      BY <1>2, <2>4 DEF BaseInv, PcInv
    <3> QED
      BY <1>1, <1>2, <2>4, <3>1 DEF PcInv, Early, Quiet, Waiting
  <2> QED
    BY <2>1, <2>2, <2>3, <2>4 DEF BaseInv, DiffTypeOK, Early, Quiet, Waiting
<1>7. RetInv'
  BY <1>1, <1>5 DEF BaseInv, RetInv
<1> QED
  BY <1>1, <1>2, <1>3, <1>6, <1>7, TypesAfter DEF Ends, BaseInv, DiffTypeOK,
     command, request, Early, Quiet, Waiting

LEMMA StillBase ==
    ASSUME BaseInv, UNCHANGED <<stream, request, command, pc, fault, side, i, ret>>,
           ctx' \in {"live", "canceled", "deadline"}
    PROVE  BaseInv' /\ ProgressOf' = ProgressOf
<1>1. StreamInv' /\ ProgressOf' = ProgressOf /\ (Idle' <=> Idle) /\ (Ready' <=> Ready)
      /\ LastKind' = LastKind /\ (Answered' <=> Answered)
  BY SameStream
<1>2. PcInv'
  BY <1>1 DEF BaseInv, PcInv, stream
<1>3. RetInv'
  BY <1>1 DEF BaseInv, RetInv
<1> QED
  BY <1>1, <1>2, <1>3, TypesAfter DEF Ends, BaseInv, DiffTypeOK, command,
     request, Early, Quiet, Waiting

LEMMA BaseStep ==
    ASSUME BaseInv, [Next]_vars
    PROVE  /\ BaseInv'
           /\ \/ ProgressOf' = ProgressOf
              \/ NextResource /\ pc' = "told" /\ ProgressOf' = ProgressOf \cup {i}
<1>1. CASE NextResource
  BY <1>1, NextResourceBase
<1>2. CASE Prepare \/ Start \/ Started \/ OpenDump \/ LoadFile \/ DumpLoaded \/ Admit
  BY <1>2, PrepareBase, StartBase, StartedBase, OpenBase, LoadFileBase,
     DumpLoadedBase, AdmitBase
<1>3. CASE CompareResource \/ Compared \/ Completed \/ Unwind \/ Exit \/ Sink
  BY <1>3, CompareBase, ComparedBase, CompletedBase, UnwindBase, ExitBase,
     SinkBase
<1>4. CASE EndContext
  BY <1>4, StillBase DEF EndContext, loader
<1>5. CASE UNCHANGED vars
  BY <1>5, StillBase DEF vars, loader, BaseInv, DiffTypeOK
<1> QED
  BY <1>1, <1>2, <1>3, <1>4, <1>5 DEF Next, Over

-----------------------------------------------------------------------------
(* The budget.                                                             *)

(* The files that are kept once both dumps are loaded, and those loaded so *)
(* far.                                                                    *)
Chosen == {f \in Sides \X selected : Status(f[1], f[2]) = "ok"}
Behind == {f \in Chosen : \/ f[1] = "old" /\ side = "new"
                          \/ f[1] = side /\ pc = "load" /\ f[2] < i}

Loading == {"prepare", "start", "started", "open", "load"}
Loaded == {"admit", "next", "told", "completed"}

LoadInv ==
    /\ kept \in [Sides -> Nat]
    /\ kept["old"] + kept["new"] <= Budget
    /\ pc \in Early \cup {"started"} => side = "old"
    /\ pc \in Loading => kept["old"] + kept["new"] = Bytes(Behind)
    /\ pc \in Loaded => kept["old"] + kept["new"] = Bytes(Chosen)
    /\ ret = "tooLarge" => Bytes(Chosen) > Budget

FileSize == [f \in Sides \X Resource |-> Size(FileOf(f[1], f[2]))]

LEMMA ChosenSizes ==
    ASSUME BaseInv
    PROVE  /\ IsFiniteSet(Chosen) /\ Chosen \subseteq Sides \X Resource
           /\ \A f \in Sides \X Resource : FileSize[f] = Size(FileOf(f[1], f[2])) /\ FileSize[f] \in Nat \ {0}
<1>1. compared \in Cases /\ selected \subseteq Resource /\ IsFiniteSet(Resource)
  BY NothingTold, FS_Interval DEF BaseInv, DiffTypeOK, Resource
<1>2. IsFiniteSet(Sides)
  <2>1. Sides = {"old"} \cup {"new"}
    BY DEF Sides
  <2>2. IsFiniteSet({"old"})
    BY FS_Singleton
  <2> QED
    BY <2>1, <2>2, FS_AddElement
<1>3. IsFiniteSet(Sides \X Resource) /\ Chosen \in SUBSET (Sides \X Resource)
  BY <1>1, <1>2, FS_Product DEF Chosen
<1>4. IsFiniteSet(Chosen)
  BY <1>3, FS_Subset
<1>5. ASSUME NEW f \in Sides \X Resource
      PROVE  FileSize[f] = Size(FileOf(f[1], f[2])) /\ FileSize[f] \in Nat \ {0}
  <2>1. FileSize[f] = Len(Records(f[1], f[2])) + 1
    BY DEF FileSize, Size, Records
  <2>2. Len(Records(f[1], f[2])) \in Nat
    <3>1. f[1] \in Sides /\ f[2] \in Resource
      OBVIOUS
    <3> QED
      BY <1>1, <3>1, Listed
  <2> QED
    BY <2>1, <2>2 DEF Size, Records
<1> QED
  BY <1>3, <1>4, <1>5

LEMMA ChosenPair ==
    ASSUME BaseInv, NEW f \in Chosen
    PROVE  /\ f = <<f[1], f[2]>> /\ f[1] \in Sides /\ f[2] \in selected
           /\ f[2] \in Nat /\ 1 <= f[2] /\ f[2] <= Count /\ Status(f[1], f[2]) = "ok"
<1>1. f \in Sides \X selected /\ Status(f[1], f[2]) = "ok"
  BY DEF Chosen
<1>2. f = <<f[1], f[2]>> /\ f[1] \in Sides /\ f[2] \in selected
  BY <1>1
<1>3. f[2] \in 1..Count /\ Count \in Nat
  BY <1>2, NothingTold DEF BaseInv, DiffTypeOK, Resource
<1> QED
  BY <1>1, <1>2, <1>3

LEMMA BytesAre ==
    ASSUME BaseInv, NEW files \in SUBSET Chosen
    PROVE  /\ Bytes(files) = SumFunctionOnSet([f \in files |-> FileSize[f]], files)
           /\ Bytes(files) \in Nat
<1>1. IsFiniteSet(files) /\ \A f \in files : FileSize[f] = Size(FileOf(f[1], f[2])) /\ FileSize[f] \in Nat
  BY ChosenSizes, FS_Subset
<1> DEFINE sizes == [f \in files |-> FileSize[f]]
<1>2. sizes = [f \in files |-> Size(FileOf(f[1], f[2]))]
  BY <1>1
<1>3. DOMAIN sizes = files /\ \A f \in files : sizes[f] \in Nat
  BY <1>1
<1>4. Bytes(files) = SumFunctionOnSet(sizes, files)
  BY <1>2, <1>3 DEF Bytes, SumFunction
<1> HIDE DEF sizes
<1>5. Bytes(files) \in Nat
  BY <1>1, <1>3, <1>4, SumIsNat
<1> QED
  BY <1>4, <1>5 DEF sizes

LEMMA NoBytes == Bytes({}) = 0
<1>1. DOMAIN [f \in {} |-> Size(FileOf(f[1], f[2]))] = {}
  OBVIOUS
<1> QED
  BY <1>1, SumOfNone DEF Bytes, SumFunction

LEMMA BytesAdd ==
    ASSUME BaseInv, NEW files \in SUBSET Chosen, NEW g \in Chosen \ files
    PROVE  Bytes(files \cup {g}) = Bytes(files) + FileSize[g]
<1> DEFINE more == files \cup {g}
           fun == [f \in more |-> FileSize[f]]
           other == [f \in files |-> FileSize[f]]
<1>1. more \in SUBSET Chosen /\ more \ {g} = files /\ g \in more
  OBVIOUS
<1>2. IsFiniteSet(more) /\ \A f \in more : FileSize[f] \in Nat
  BY <1>1, ChosenSizes, FS_Subset
<1>3. /\ \A f \in more : fun[f] \in Nat
      /\ \A f \in more \ {g} : other[f] = fun[f]
      /\ fun[g] = FileSize[g]
  BY <1>1, <1>2
<1>4. Bytes(more) = SumFunctionOnSet(fun, more) /\ Bytes(files) = SumFunctionOnSet(other, files)
  BY <1>1, BytesAre
<1>5. SumFunctionOnSet(fun, more) = fun[g] + SumFunctionOnSet(other, more \ {g})
  <2> HIDE DEF fun, other, more
  <2> QED
    BY <1>1, <1>2, <1>3, SumAdd
<1>6. Bytes(files) \in Nat /\ FileSize[g] \in Nat
  BY <1>1, <1>2, BytesAre
<1> HIDE DEF fun, other, more
<1>7. SumFunctionOnSet(other, more \ {g}) = Bytes(files)
  BY <1>1, <1>4
<1>8. Bytes(more) = FileSize[g] + Bytes(files)
  BY <1>3, <1>4, <1>5, <1>7
<1>9. Bytes(more) = Bytes(files) + FileSize[g]
  BY <1>6, <1>8
<1> QED
  BY <1>9 DEF more

LEMMA BytesGrow ==
    ASSUME BaseInv, NEW files \in SUBSET Chosen
    PROVE  Bytes(files) <= Bytes(Chosen)
<1> DEFINE fun == [f \in Chosen |-> FileSize[f]]
           other == [f \in files |-> FileSize[f]]
<1>1. IsFiniteSet(Chosen) /\ \A f \in Chosen : fun[f] \in Nat
  BY ChosenSizes
<1>2. \A f \in files : other[f] = fun[f]
  OBVIOUS
<1>3. Bytes(Chosen) = SumFunctionOnSet(fun, Chosen) /\ Bytes(files) = SumFunctionOnSet(other, files)
  BY BytesAre
<1> HIDE DEF fun, other
<1> QED
  BY <1>1, <1>2, <1>3, SumOfPart

(* What a verdict on a file means for the budget.                          *)
LEMMA VerdictMeans ==
    ASSUME kept \in [Sides -> Nat], kept["old"] + kept["new"] <= Budget, NEW size \in Nat \ {0}
    PROVE  /\ Verdict(size) = "ok" => kept["old"] + kept["new"] + size <= Budget
           /\ Verdict(size) = "tooLarge" => kept["old"] + kept["new"] + size > Budget
<1>1. kept["old"] \in Nat /\ kept["new"] \in Nat /\ Budget \in Nat /\ MaxResource \in Nat \ {0}
  BY DiffAssumption DEF Sides
<1>2. Remaining \in Nat /\ Remaining = Budget - kept["old"] - kept["new"]
  BY <1>1 DEF Remaining
<1>3. \/ Remaining = 0 /\ Verdict(size) = "tooLarge"
      \/ Remaining # 0 /\ Remaining < MaxResource /\ size > Remaining /\ Verdict(size) = "tooLarge"
      \/ Remaining >= MaxResource /\ size > MaxResource /\ Verdict(size) = "invalid"
      \/ Remaining # 0 /\ Remaining < MaxResource /\ size <= Remaining /\ Verdict(size) = "ok"
      \/ Remaining >= MaxResource /\ size <= MaxResource /\ Verdict(size) = "ok"
  BY <1>1, <1>2 DEF Verdict
<1> QED
  BY <1>1, <1>2, <1>3

LEMMA LoadInit == Init => LoadInv
<1> SUFFICES ASSUME Init PROVE LoadInv
  OBVIOUS
<1>1. BaseInv
  BY BaseInit
<1>2. kept = [s \in Sides |-> 0] /\ kept["old"] = 0 /\ kept["new"] = 0 /\ side = "old" /\ pc = "prepare" /\ ret = "none"
  BY DEF Init, Sides
<1>3. Behind = {}
  BY <1>2 DEF Behind
<1>4. Bytes(Behind) = 0
  BY <1>3, NoBytes
<1>5. Budget \in Nat
  BY DiffAssumption
<1> QED
  BY <1>2, <1>4, <1>5 DEF LoadInv, Loaded, Early

(* Neither what is to be loaded nor its size changes.                      *)
LEMMA FixedFiles ==
    ASSUME UNCHANGED request, NEW CONSTANT b
    PROVE  /\ Chosen' = Chosen /\ Bytes(Chosen)' = Bytes(Chosen)
           /\ Behind' = b => Bytes(Behind)' = Bytes(b)
<1>1. \A s, r : Status(s, r)' = Status(s, r) /\ FileOf(s, r)' = FileOf(s, r)
  BY FixedLists
<1>2. Chosen' = Chosen
  BY <1>1 DEF Chosen, request
<1>3. ASSUME NEW CONSTANT files PROVE Bytes(files)' = Bytes(files)
  BY <1>1 DEF Bytes, Size
<1>4. PICK c : c = Chosen
  OBVIOUS
<1>5. Bytes(c)' = Bytes(c) /\ Bytes(b)' = Bytes(b)
  BY <1>3
<1>6. Chosen' = c
  BY <1>2, <1>4
<1>7. Bytes(Chosen)' = Bytes(c)
  BY <1>5, <1>6
<1>8. Behind' = b => Bytes(Behind)' = Bytes(b)
  BY <1>5
<1> QED
  BY <1>2, <1>4, <1>7, <1>8

(* Steps that load nothing.                                                *)
LEMMA KeptStays ==
    ASSUME BaseInv, LoadInv, UNCHANGED <<request, kept>>,
           pc' \in Loading => pc \in Loading /\ Behind' = Behind,
           pc' \in Loaded => pc \in Loaded \/ (pc \in Loading /\ Behind = Chosen),
           pc' \in Early \cup {"started"} => side' = "old",
           ret' = "tooLarge" => ret = "tooLarge"
    PROVE  LoadInv'
<1>1. PICK b : b = Behind
  OBVIOUS
<1>2. Bytes(Chosen)' = Bytes(Chosen) /\ (Behind' = b => Bytes(Behind)' = Bytes(b))
  BY FixedFiles
<1>3. Behind' = Behind => Bytes(Behind)' = Bytes(Behind)
  BY <1>1, <1>2
<1>4. kept \in [Sides -> Nat] /\ kept["old"] + kept["new"] <= Budget /\ kept' = kept
  BY DEF LoadInv
<1>5. pc' \in Loading => kept["old"] + kept["new"] = Bytes(Behind)'
  BY <1>3 DEF LoadInv
<1>6. pc' \in Loaded => kept["old"] + kept["new"] = Bytes(Chosen)'
  BY <1>2 DEF LoadInv
<1>7. ret' = "tooLarge" => Bytes(Chosen)' > Budget
  BY <1>2 DEF LoadInv
<1> QED
  BY <1>4, <1>5, <1>6, <1>7 DEF LoadInv

(* A file of the budget is kept, or refused.                               *)
LEMMA LoadFileLoad == ASSUME BaseInv, BaseInv', LoadInv, LoadFile PROVE LoadInv'
<1> DEFINE g == <<side, i>>
           taken == i \in selected /\ Status(side, i) = "ok"
<1>1. /\ pc = "load" /\ i \in Resource /\ side \in Sides /\ side' = side
      /\ UNCHANGED request /\ kept \in [Sides -> Nat] /\ ret = "none"
      /\ kept["old"] + kept["new"] = Bytes(Behind) /\ kept["old"] + kept["new"] <= Budget
  BY NothingTold DEF LoadFile, BaseInv, DiffTypeOK, RetInv, LoadInv, Loading,
     Resource
<1>2. /\ g \in Sides \X Resource /\ FileSize[g] = Size(FileOf(side, i)) /\ FileSize[g] \in Nat \ {0}
      /\ g[1] = side /\ g[2] = i
  <2>1. g \in Sides \X Resource /\ g[1] = side /\ g[2] = i
    BY <1>1
  <2>2. FileSize[g] = Size(FileOf(g[1], g[2])) /\ FileSize[g] \in Nat \ {0}
    BY <2>1, ChosenSizes
  <2> QED
    BY <2>1, <2>2
<1>3. taken => g \in Chosen \ Behind /\ Behind \in SUBSET Chosen
  <2>1. taken => g \in Sides \X selected /\ Status(g[1], g[2]) = "ok"
    BY <1>1, <1>2
  <2>2. Behind \in SUBSET Chosen
    BY DEF Behind
  <2>3. ~(g[1] = "old" /\ side = "new") /\ ~(g[2] < i)
    BY <1>1, <1>2 DEF BaseInv, DiffTypeOK
  <2> HIDE DEF g
  <2> QED
    BY <2>1, <2>2, <2>3 DEF Chosen, Behind
<1>4. taken => Bytes(Behind \cup {g}) = Bytes(Behind) + FileSize[g]
  BY <1>3, BytesAdd
<1>5. CASE pc' = "failed"
  <2>1. ret' = "tooLarge" => taken /\ Verdict(FileSize[g]) = "tooLarge" /\ kept' = kept
    BY <1>1, <1>2, <1>5, ContextKind DEF LoadFile, FailWith, Proceed, Status,
       BaseInv, DiffTypeOK
  <2>2. kept' = kept
    BY <1>5 DEF LoadFile, Proceed
  <2>3. ret' = "tooLarge" => Bytes(Chosen) > Budget
    <3> SUFFICES ASSUME ret' = "tooLarge" PROVE Bytes(Chosen) > Budget
      OBVIOUS
    <3>1. kept["old"] + kept["new"] + FileSize[g] > Budget
      BY <1>1, <1>2, <2>1, VerdictMeans
    <3>2. Behind \cup {g} \in SUBSET Chosen
      BY <1>3, <2>1
    <3>3. Bytes(Behind \cup {g}) <= Bytes(Chosen) /\ Bytes(Behind \cup {g}) \in Nat /\ Bytes(Chosen) \in Nat
      BY <3>2, BytesGrow, BytesAre
    <3>4. Bytes(Behind \cup {g}) = kept["old"] + kept["new"] + FileSize[g]
      BY <1>1, <1>4, <2>1
    <3>5. Budget \in Nat
      BY DiffAssumption
    <3> HIDE DEF g
    <3> QED
      BY <3>1, <3>3, <3>4, <3>5
  <2>4. Bytes(Chosen)' = Bytes(Chosen)
    BY <1>1, FixedFiles
  <2> QED
    BY <1>1, <1>5, <2>2, <2>3, <2>4 DEF LoadInv, Loading, Loaded, Early
<1>6. CASE pc' = "load"
  <2>1. /\ i' = i + 1 /\ ret' = ret
        /\ taken => Verdict(FileSize[g]) = "ok"
        /\ kept' = IF taken THEN [kept EXCEPT ![side] = @ + FileSize[g]] ELSE kept
    BY <1>2, <1>6 DEF LoadFile, Proceed, FailWith, Status
  <2>2. Behind' = IF taken THEN Behind \cup {g} ELSE Behind
    <3>1. /\ Chosen' = Chosen
          /\ \A f \in Chosen : f[2] \in Nat /\ f[1] \in Sides /\ f = <<f[1], f[2]>>
                                /\ Status(f[1], f[2]) = "ok" /\ f[2] \in selected
      BY <1>1, FixedFiles, ChosenPair
    <3>2. \A f \in Chosen : f[2] < i + 1 <=> f[2] < i \/ f[2] = i
      BY <1>1, <3>1 DEF Resource
    <3>3. Behind' = {f \in Chosen : \/ f[1] = "old" /\ side = "new"
                                    \/ f[1] = side /\ f[2] < i + 1}
      BY <1>1, <1>6, <2>1, <3>1 DEF Behind
    <3>4. Behind = {f \in Chosen : \/ f[1] = "old" /\ side = "new"
                                   \/ f[1] = side /\ f[2] < i}
      BY <1>1 DEF Behind
    <3>5. \A f \in Chosen : f[1] = side /\ f[2] = i => f = g /\ taken
      BY <3>1
    <3> QED
      BY <1>2, <1>3, <3>2, <3>3, <3>4, <3>5
  <2>3. CASE taken
    <3>1. PICK b : b = Behind \cup {g}
      OBVIOUS
    <3>2. Behind' = b
      BY <2>2, <2>3, <3>1
    <3>3. Bytes(Behind)' = Bytes(b)
      BY <1>1, <3>2, FixedFiles
    <3>4. kept' \in [Sides -> Nat]
      BY <1>1, <1>2, <2>1, <2>3
    <3>5. kept'["old"] + kept'["new"] = kept["old"] + kept["new"] + FileSize[g]
      BY <1>1, <1>2, <2>1, <2>3 DEF Sides
    <3>6. kept["old"] + kept["new"] + FileSize[g] <= Budget
      BY <1>1, <1>2, <2>1, <2>3, VerdictMeans
    <3>7. kept'["old"] + kept'["new"] = Bytes(Behind)'
      BY <1>1, <1>4, <2>3, <3>1, <3>3, <3>5
    <3> QED
      BY <1>1, <1>6, <2>1, <3>4, <3>5, <3>6, <3>7 DEF LoadInv, Loaded, Early
  <2>4. CASE ~taken
    <3>1. Behind' = Behind /\ kept' = kept
      BY <2>1, <2>2, <2>4
    <3> QED
      BY <1>1, <1>6, <2>1, <3>1, KeptStays DEF Loading, Loaded, Early
  <2> QED
    BY <2>3, <2>4
<1> QED
  BY <1>5, <1>6 DEF LoadFile, FailWith, Proceed

LEMMA LoadStep == ASSUME BaseInv, BaseInv', LoadInv, [Next]_vars PROVE LoadInv'
<1>1. CASE LoadFile
  BY <1>1, LoadFileLoad
<1>2. CASE Prepare \/ Start \/ Started
  <2>1. /\ UNCHANGED <<request, kept, side>> /\ pc \in Early \cup {"started"} /\ side = "old"
        /\ pc' \in {"start", "started", "open", "failed"}
        /\ ret' = "tooLarge" => ret = "tooLarge"
    BY <1>2 DEF Prepare, Start, Started, FailWith, Abort, Proceed, loader,
       Early, LoadInv, BaseInv, DiffTypeOK
  <2>2. Behind' = Behind
    <3>1. Chosen' = Chosen
      BY <2>1, FixedFiles
    <3> QED
      BY <2>1, <3>1 DEF Behind, Early
  <2> QED
    BY <2>1, <2>2, KeptStays DEF Loading, Loaded, Early
<1>3. CASE OpenDump
  <2>1. /\ UNCHANGED <<request, kept, side>> /\ pc = "open" /\ pc' \in {"failed", "load"}
        /\ pc' = "load" => i' = 1
        /\ ret' = "tooLarge" => ret = "tooLarge"
    BY <1>3 DEF OpenDump, FailWith, Proceed, loader, BaseInv, DiffTypeOK
  <2>2. pc' = "load" => Behind' = Behind
    <3>1. Chosen' = Chosen
      BY <2>1, FixedFiles
    <3>2. \A f \in Chosen : ~(f[2] < 1)
      BY ChosenPair
    <3> QED
      BY <2>1, <3>1, <3>2 DEF Behind
  <2> QED
    BY <2>1, <2>2, KeptStays DEF Loading, Loaded, Early
<1>4. CASE DumpLoaded
  <2>1. /\ UNCHANGED <<request, kept>> /\ pc = "load" /\ i > Count /\ i \in Nat /\ ret' = ret
        /\ \/ side = "old" /\ side' = "new" /\ pc' = "open"
           \/ side = "new" /\ side' = "new" /\ pc' = "admit"
    BY <1>4 DEF DumpLoaded, Proceed, BaseInv, DiffTypeOK
  <2>2. \A f \in Chosen : f[1] \in {"old", "new"} /\ f[2] < i
    BY <2>1, NothingTold, ChosenPair DEF Sides
  <2>3. Chosen' = Chosen
    BY <2>1, FixedFiles
  <2>4. pc' = "open" => Behind' = Behind
    BY <2>1, <2>2, <2>3 DEF Behind
  <2>5. pc' = "admit" => Behind = Chosen
    BY <2>1, <2>2 DEF Behind
  <2> QED
    BY <2>1, <2>4, <2>5, KeptStays DEF Loading, Loaded, Early
<1>5. CASE Admit \/ NextResource \/ CompareResource \/ Compared \/ Completed \/ Unwind \/ Exit
  <2>1. /\ UNCHANGED <<request, kept>> /\ pc' \notin Loading /\ (pc' \in Loaded => pc \in Loaded)
        /\ ret' = "tooLarge" => ret = "tooLarge"
    BY <1>5 DEF Admit, NextResource, CompareResource, Compared, Completed,
       Unwind, Exit, FailWith, Abort, Proceed, loader, Loading, Loaded,
       BaseInv, DiffTypeOK
  <2> QED
    BY <2>1, KeptStays DEF Loading, Early
<1>6. CASE Sink \/ EndContext \/ UNCHANGED vars
  <2>1. UNCHANGED <<request, kept, side, i, pc, ret>>
    BY <1>6 DEF Sink, EndContext, vars, loader
  <2>2. Chosen' = Chosen
    BY <2>1, FixedFiles
  <2>3. Behind' = Behind
    BY <2>1, <2>2 DEF Behind
  <2> QED
    BY <2>1, <2>3, KeptStays DEF LoadInv
<1> QED
  BY <1>1, <1>2, <1>3, <1>4, <1>5, <1>6 DEF Next, Over

-----------------------------------------------------------------------------
(* The report.                                                             *)

(* The selected resources before the one at hand.                          *)
Done == selected \cap 1..(i - 1)

(* There is nothing to tell of this resource.                              *)
Nothing(r) == Records("old", r) = <<>> /\ Records("new", r) = <<>> /\ ~Failed(r)

Covers(done) ==
    /\ report \in Seq({Entry(r) : r \in done})
    /\ \A r \in done : /\ ~OneSided(r)
                       /\ Failed(r) \/ ~Ambiguous(r)
                       /\ Nothing(r) \/ \E n \in DOMAIN report : report[n] = Entry(r)
    /\ drift \in Nat
    /\ drift = SumFunction([n \in DOMAIN report |-> Weight(report[n])])
    /\ drift = 0 <=> \A r \in done : Weight(Entry(r)) = 0

Admitted == allowPartial \/ (~Partial("old") /\ ~Partial("new"))

ReportInv ==
    /\ pc \in Loading \cup {"admit"} => report = <<>> /\ drift = 0 /\ ProgressOf = {}
    /\ pc \in {"next", "told"} => Covers(Done) /\ Admitted
    /\ pc = "next" => ProgressOf = Done
    /\ pc = "told" => ProgressOf = Done \cup {i} /\ ~OneSided(i)
    /\ Answered => Covers(selected) /\ Admitted /\ ProgressOf = selected
    /\ pc \in {"returned", "exited"} /\ ~Answered => report = <<>> /\ drift = 0
    /\ pc = "exited" /\ failOnDrift /\ exit \in {0, 7} => ret = "ok" /\ exit = IF drift > 0 THEN 7 ELSE 0

LEMMA ReportInit == Init => ReportInv
<1> SUFFICES ASSUME Init PROVE ReportInv
  OBVIOUS
<1>1. ~Answered /\ ProgressOf = {}
  <2>1. ~terminal /\ delivered = <<>>
    BY DEF Init, StreamInit
  <2> QED
    BY <2>1 DEF Answered, ProgressOf
<1> QED
  BY <1>1 DEF Init, ReportInv

LEMMA CoversNone == report = <<>> /\ drift = 0 => Covers({})
<1> SUFFICES ASSUME report = <<>>, drift = 0 PROVE Covers({})
  OBVIOUS
<1>1. report \in Seq({Entry(r) : r \in {}}) /\ DOMAIN report = {}
  OBVIOUS
<1>2. DOMAIN [n \in {} |-> Weight(report[n])] = {}
  OBVIOUS
<1>3. SumFunction([n \in DOMAIN report |-> Weight(report[n])]) = 0
  BY <1>1, <1>2, SumOfNone DEF SumFunction
<1> QED
  BY <1>1, <1>3 DEF Covers

(* What does not touch the report leaves it as good as it was.             *)
LEMMA CoversStays ==
    ASSUME UNCHANGED <<request, comparison>>, NEW CONSTANT done, Covers(done)
    PROVE  Covers(done)'
<1>1. report' = report /\ drift' = drift
  BY DEF comparison
<1>2. \A r : /\ Failed(r)' = Failed(r) /\ OneSided(r)' = OneSided(r)
             /\ Ambiguous(r)' = Ambiguous(r) /\ Entry(r)' = Entry(r)
  BY FixedEntries
<1>3. \A r : Nothing(r)' = Nothing(r)
  BY <1>2, FixedLists DEF Nothing
<1>4. {Entry(r) : r \in done}' = {Entry(r) : r \in done}
  BY <1>2
<1>5. SumFunction([n \in DOMAIN report |-> Weight(report[n])])' = SumFunction([n \in DOMAIN report |-> Weight(report[n])])
  BY <1>1
<1> QED
  BY <1>1, <1>2, <1>3, <1>4, <1>5 DEF Covers

LEMMA NothingWeighs ==
    ASSUME compared \in Cases, NEW r \in Resource, Nothing(r)
    PROVE  Weight(Entry(r)) = 0
<1>1. Entry(r) = Compare(r)
  BY EntryWeight DEF Nothing
<1>2. DOMAIN Records("old", r) = {} /\ DOMAIN Records("new", r) = {}
  BY DEF Nothing
<1>3. Compare(r).removed = {} /\ Compare(r).added = {} /\ Compare(r).changed = {}
  BY <1>2, CompareFinite
<1> QED
  BY <1>1, <1>3, NoWeight

(* An entry more.                                                          *)
LEMMA CoversMore ==
    ASSUME UNCHANGED request, compared \in Cases,
           NEW CONSTANT done, done \subseteq Resource, Covers(done),
           NEW CONSTANT r \in Resource, ~OneSided(r), Failed(r) \/ ~Ambiguous(r),
           report' = (IF Nothing(r) THEN report ELSE Append(report, Entry(r))),
           drift' = drift + Weight(Entry(r))
    PROVE  Covers(done \cup {r})'
<1>1. \A q : /\ Failed(q)' = Failed(q) /\ OneSided(q)' = OneSided(q)
             /\ Ambiguous(q)' = Ambiguous(q) /\ Entry(q)' = Entry(q)
  BY FixedEntries
<1>2. \A q : Nothing(q)' = Nothing(q)
  BY <1>1, FixedLists DEF Nothing
<1> DEFINE E == {Entry(q) : q \in done}
           F == {Entry(q) : q \in done \cup {r}}
<1>3. E \subseteq F /\ Entry(r) \in F /\ F' = F
  BY <1>1
<1>4. /\ report \in Seq(E)
      /\ \A q \in done : /\ ~OneSided(q)
                         /\ Failed(q) \/ ~Ambiguous(q)
                         /\ Nothing(q) \/ \E n \in DOMAIN report : report[n] = Entry(q)
      /\ drift \in Nat
      /\ drift = SumFunction([n \in DOMAIN report |-> Weight(report[n])])
      /\ drift = 0 <=> \A q \in done : Weight(Entry(q)) = 0
  BY DEF Covers
<1>5. \A q \in done \cup {r} : Weight(Entry(q)) \in Nat
  BY EntryWeight
<1>6. \A e \in F : Weight(e) \in Nat
  BY <1>5
<1> HIDE DEF E, F
<1>7. report \in Seq(F)
  BY <1>3, <1>4
<1>8. report' \in Seq(F) /\ \A n \in DOMAIN report : n \in DOMAIN report' /\ report'[n] = report[n]
  <2>1. CASE Nothing(r)
    BY <1>7, <2>1
  <2>2. CASE ~Nothing(r)
    BY <1>3, <1>7, <2>2
  <2> QED
    BY <2>1, <2>2
<1>9. ~Nothing(r) => \E n \in DOMAIN report' : report'[n] = Entry(r)
  <2> SUFFICES ASSUME ~Nothing(r) PROVE \E n \in DOMAIN report' : report'[n] = Entry(r)
    OBVIOUS
  <2>1. report' = Append(report, Entry(r)) /\ Len(report) \in Nat
    BY <1>7
  <2>2. Len(report) + 1 \in DOMAIN report' /\ report'[Len(report) + 1] = Entry(r)
    BY <1>3, <1>7, <2>1
  <2> QED
    BY <2>2
<1>10. \A q \in done \cup {r} : /\ ~OneSided(q)
                                /\ Failed(q) \/ ~Ambiguous(q)
                                /\ Nothing(q) \/ \E n \in DOMAIN report' : report'[n] = Entry(q)
  BY <1>4, <1>8, <1>9
<1>11. drift' \in Nat /\ Weight(Entry(r)) \in Nat
  BY <1>4, <1>5
<1>12. drift' = SumFunction([n \in DOMAIN report' |-> Weight(report'[n])])
  <2>1. CASE Nothing(r)
    <3>1. Weight(Entry(r)) = 0
      BY <2>1, NothingWeighs
    <3> QED
      BY <1>4, <2>1, <3>1
  <2>2. CASE ~Nothing(r)
    <3> DEFINE old == [n \in DOMAIN report |-> Weight(report[n])]
               new == [n \in DOMAIN report' |-> Weight(report'[n])]
    <3>1. Len(report) \in Nat /\ DOMAIN report = 1..Len(report)
      BY <1>7
    <3>2. /\ DOMAIN report' = 1..(Len(report) + 1)
          /\ \A n \in 1..Len(report) : report'[n] = report[n]
          /\ report'[Len(report) + 1] = Entry(r)
      BY <1>3, <1>7, <2>2
    <3>3. \A n \in DOMAIN report : report[n] \in F
      BY <1>7
    <3>4. /\ DOMAIN old = 1..Len(report) /\ \A n \in 1..Len(report) : old[n] \in Nat
          /\ DOMAIN new = 1..(Len(report) + 1)
          /\ \A n \in 1..Len(report) : new[n] = old[n]
          /\ Len(report) + 1 \in 1..(Len(report) + 1)
          /\ new[Len(report) + 1] = Weight(Entry(r))
      BY <1>6, <3>1, <3>2, <3>3
    <3> HIDE DEF old, new
    <3>5. SumFunction(new) = SumFunction(old) + new[Len(report) + 1]
      BY <1>11, <3>1, <3>4, SumAppend
    <3> QED
      BY <1>4, <3>4, <3>5 DEF old, new
  <2> QED
    BY <2>1, <2>2
<1>13. drift' = 0 <=> \A q \in done \cup {r} : Weight(Entry(q)) = 0
  <2>1. drift' = 0 <=> drift = 0 /\ Weight(Entry(r)) = 0
    BY <1>4, <1>11
  <2> QED
    BY <1>4, <2>1
<1>14. \A q \in done \cup {r} : Weight(Entry(q))' = Weight(Entry(q))
  BY <1>1 DEF Weight
<1>15. (report \in Seq({Entry(q) : q \in done \cup {r}}))'
  BY <1>3, <1>8 DEF F
<1>16. \A q \in done \cup {r} : /\ ~OneSided(q)'
                                /\ Failed(q)' \/ ~Ambiguous(q)'
                                /\ Nothing(q)' \/ \E n \in DOMAIN report' : report'[n] = Entry(q)'
  BY <1>1, <1>2, <1>10
<1>17. drift' = 0 <=> \A q \in done \cup {r} : Weight(Entry(q))' = 0
  BY <1>13, <1>14
<1> QED
  BY <1>11, <1>12, <1>15, <1>16, <1>17 DEF Covers

(* Steps before anything is compared, and failing ones.                    *)
LEMMA FailsQuietly ==
    ASSUME BaseInv', pc' = "failed"
    PROVE  ReportInv'
<1>1. ~Answered'
  BY DEF BaseInv, RetInv
<1> QED
  BY <1>1 DEF ReportInv, Loading

LEMMA LoadingReport ==
    ASSUME BaseInv', ReportInv, pc \in Loading \cup {"admit"}, pc' \in Loading \cup {"admit"},
           UNCHANGED comparison, ProgressOf' = ProgressOf
    PROVE  ReportInv'
<1>1. ~Answered'
  BY DEF BaseInv, RetInv, Loading
<1> QED
  BY <1>1 DEF ReportInv, Loading, comparison

LEMMA AdmitReport ==
    ASSUME BaseInv, BaseInv', ReportInv, Admit, ProgressOf' = ProgressOf
    PROVE  ReportInv'
<1>1. CASE pc' = "failed"
  BY <1>1, FailsQuietly
<1>2. CASE pc' = "next"
  <2>1. /\ UNCHANGED <<request, comparison>> /\ pc = "admit" /\ i' = 1
        /\ allowPartial \/ (~Partial("old") /\ ~Partial("new"))
    BY <1>2 DEF Admit, FailWith, Proceed
  <2>2. report = <<>> /\ drift = 0 /\ ProgressOf = {}
    BY <2>1 DEF ReportInv
  <2>3. Covers({})'
    BY <2>1, <2>2, CoversNone, CoversStays
  <2>4. Done' = {}
    BY <2>1 DEF Done
  <2>5. Covers(Done)' /\ ProgressOf' = Done'
    BY <2>2, <2>3, <2>4
  <2>6. Admitted'
    <3>1. \A s, r : Status(s, r)' = Status(s, r) /\ FileOf(s, r)' = FileOf(s, r)
      BY <2>1, FixedLists
    <3> QED
      BY <2>1, <3>1 DEF Admitted, Partial, request
  <2>7. ~Answered'
    BY <1>2 DEF BaseInv, RetInv
  <2> QED
    BY <1>2, <2>5, <2>6, <2>7 DEF ReportInv, Loading
<1> QED
  BY <1>1, <1>2 DEF Admit, FailWith, Proceed

(* Whether the dumps were admitted does not change.                        *)
LEMMA StillAdmitted == ASSUME UNCHANGED request PROVE Admitted' <=> Admitted
<1>1. \A s, r : FileOf(s, r)' = FileOf(s, r)
  BY FixedLists
<1> QED
  BY <1>1 DEF Admitted, Partial, request

LEMMA NextReport ==
    ASSUME BaseInv, BaseInv', ReportInv, NextResource,
           \/ ProgressOf' = ProgressOf /\ pc' # "told"
           \/ pc' = "told" /\ ProgressOf' = ProgressOf \cup {i}
    PROVE  ReportInv'
<1>1. /\ pc = "next" /\ i <= Count /\ UNCHANGED <<request, comparison>>
      /\ pc' \in {"failed", "next", "told"}
      /\ Covers(Done) /\ Admitted /\ ProgressOf = Done /\ i \in Nat
  BY NothingTold DEF NextResource, FailWith, Proceed, ReportInv, BaseInv,
     DiffTypeOK
<1>2. Admitted'
  BY <1>1, StillAdmitted
<1>3. PICK done : done = Done
  OBVIOUS
<1>4. Covers(done)'
  BY <1>1, <1>3, CoversStays
<1>5. ~Answered' \/ pc' \notin {"next", "told"}
  BY DEF BaseInv, RetInv
<1>6. CASE pc' = "failed"
  BY <1>6, FailsQuietly
<1>7. CASE pc' = "next"
  <2>1. i \notin selected /\ i' = i + 1
    BY <1>7 DEF NextResource, FailWith
  <2>2. Done' = done
    BY <1>1, <1>3, <2>1 DEF Done, request, BaseInv, DiffTypeOK
  <2>3. Covers(Done)'
    BY <1>4, <2>2
  <2> QED
    BY <1>1, <1>2, <1>3, <1>5, <1>7, <2>2, <2>3 DEF ReportInv, Loading
<1>8. CASE pc' = "told"
  <2>1. ~OneSided(i) /\ i' = i
    BY <1>8 DEF NextResource, FailWith, Proceed
  <2>2. Done' = done
    BY <1>1, <1>3, <2>1 DEF Done, request
  <2>3. Covers(Done)'
    BY <1>4, <2>2
  <2>4. PICK k : k = i
    OBVIOUS
  <2>5. OneSided(k)' <=> OneSided(k)
    BY <1>1, FixedEntries
  <2>6. ~OneSided(i)'
    BY <2>1, <2>4, <2>5
  <2> QED
    BY <1>1, <1>2, <1>3, <1>5, <1>8, <2>1, <2>2, <2>3, <2>6 DEF ReportInv,
       Loading
<1> QED
  BY <1>1, <1>6, <1>7, <1>8

LEMMA CompareReport ==
    ASSUME BaseInv, BaseInv', ReportInv, CompareResource, ProgressOf' = ProgressOf
    PROVE  ReportInv'
<1>1. /\ pc = "told" /\ UNCHANGED request
      /\ pc' \in {"failed", "next"}
      /\ Covers(Done) /\ Admitted /\ ProgressOf = Done \cup {i} /\ ~OneSided(i)
      /\ i \in selected /\ selected \subseteq Resource /\ compared \in Cases
  BY DEF CompareResource, FailWith, Abort, Proceed, ReportInv, BaseInv,
     DiffTypeOK
<1>2. CASE pc' = "failed"
  BY <1>2, FailsQuietly
<1>3. CASE pc' = "next"
  <2>1. PICK k, done : k = i /\ done = Done
    OBVIOUS
  <2>2. /\ Failed(k) \/ ~Ambiguous(k)
        /\ report' = (IF Nothing(k) THEN report ELSE Append(report, Entry(k)))
        /\ drift' = drift + Weight(Entry(k))
        /\ i' = i + 1
    <3>1. /\ Failed(k) \/ ~Ambiguous(k)
          /\ LET entry == Entry(k)
                 empty == Records("old", k) = <<>> /\ Records("new", k) = <<>> /\ ~entry.failed
             IN  /\ report' = IF empty THEN report ELSE Append(report, entry)
                 /\ drift' = drift + Weight(entry)
          /\ i' = i + 1
      BY <1>3, <2>1 DEF CompareResource, FailWith, Abort
    <3>2. Entry(k).failed <=> Failed(k)
      BY <1>1, <2>1, EntryWeight
    <3> QED
      BY <3>1, <3>2 DEF Nothing
  <2>3. k \in Resource /\ done \subseteq Resource
    BY <1>1, <2>1 DEF Done
  <2>4. Covers(done \cup {k})'
    BY <1>1, <2>1, <2>2, <2>3, CoversMore
  <2>5. Done' = done \cup {k}
    <3>1. i \in 1..Count /\ Count \in Nat /\ selected' = selected
      BY <1>1, NothingTold DEF Resource, request
    <3> QED
      BY <1>1, <2>1, <2>2, <3>1 DEF Done, Resource
  <2>6. Covers(Done)'
    BY <2>4, <2>5
  <2>7. Admitted'
    BY <1>1, StillAdmitted
  <2>8. ~Answered'
    BY <1>3 DEF BaseInv, RetInv
  <2> QED
    BY <1>1, <1>3, <2>1, <2>5, <2>6, <2>7, <2>8 DEF ReportInv, Loading
<1> QED
  BY <1>1, <1>2, <1>3

LEMMA ComparedReport ==
    ASSUME BaseInv, BaseInv', ReportInv, Compared, ProgressOf' = ProgressOf
    PROVE  ReportInv'
<1>1. /\ pc = "next" /\ pc' = "completed" /\ i > Count /\ UNCHANGED <<request, comparison>>
      /\ Covers(Done) /\ Admitted /\ ProgressOf = Done
  BY DEF Compared, ReportInv
<1>2. Done = selected
  <2>1. selected \subseteq 1..Count /\ i \in Nat /\ Count \in Nat
    BY NothingTold DEF BaseInv, DiffTypeOK, Resource
  <2>2. \A r \in 1..Count : r \in 1..(i - 1)
    BY <1>1, <2>1
  <2> QED
    BY <2>1, <2>2 DEF Done
<1>3. PICK done : done = selected
  OBVIOUS
<1>4. Covers(done)' /\ selected' = done
  BY <1>1, <1>2, <1>3, CoversStays DEF request
<1>5. Covers(selected)'
  BY <1>4
<1>6. Admitted'
  BY <1>1, StillAdmitted
<1> QED
  BY <1>1, <1>2, <1>3, <1>4, <1>5, <1>6 DEF ReportInv, Loading

(* Steps after which the report is what it was.                            *)
LEMMA SameReport ==
    ASSUME BaseInv, ReportInv, UNCHANGED <<request, comparison>>, ProgressOf' = ProgressOf, Answered' <=> Answered
    PROVE  Answered' => Covers(selected)' /\ Admitted' /\ ProgressOf' = selected'
<1>1. PICK done : done = selected
  OBVIOUS
<1>2. selected' = done /\ (Covers(done) => Covers(done)')
  BY <1>1, CoversStays DEF request
<1>3. Covers(selected) => Covers(selected)'
  BY <1>1, <1>2
<1> QED
  BY <1>1, <1>2, <1>3, StillAdmitted DEF ReportInv

LEMMA CompletedReport ==
    ASSUME BaseInv, BaseInv', ReportInv, Completed, ProgressOf' = ProgressOf
    PROVE  ReportInv'
<1>1. pc = "completed" /\ pc' = "returned" /\ UNCHANGED <<stream, request, comparison>> /\ Answered
  BY DEF Completed, BaseInv, PcInv
<1>2. Answered' <=> Answered
  BY <1>1, SameStream
<1>3. Answered' => Covers(selected)' /\ Admitted' /\ ProgressOf' = selected'
  BY <1>1, <1>2, SameReport
<1> QED
  BY <1>1, <1>2, <1>3 DEF ReportInv, Loading

LEMMA UnwindReport ==
    ASSUME BaseInv, BaseInv', ReportInv, Unwind
    PROVE  ReportInv'
<1>1. pc = "failed" /\ pc' = "returned" /\ UNCHANGED stream /\ report' = <<>> /\ drift' = 0 /\ ~Answered
  BY DEF Unwind, BaseInv, RetInv
<1>2. ~Answered'
  BY <1>1, SameStream
<1> QED
  BY <1>1, <1>2 DEF ReportInv, Loading

LEMMA ExitReport ==
    ASSUME BaseInv, BaseInv', ReportInv, Exit, ProgressOf' = ProgressOf
    PROVE  ReportInv'
<1>1. pc = "returned" /\ pc' = "exited" /\ UNCHANGED <<stream, request, comparison, ret>>
  BY DEF Exit
<1>2. Answered' <=> Answered
  BY <1>1, SameStream
<1>3. Answered' => Covers(selected)' /\ Admitted' /\ ProgressOf' = selected'
  BY <1>1, <1>2, SameReport
<1>4. ~Answered' => report' = <<>> /\ drift' = 0
  BY <1>1, <1>2 DEF ReportInv, comparison
<1>5. ret # "ok" => exit' \in {1, 2, 5}
  <2> SUFFICES ASSUME ret # "ok" PROVE exit' \in {1, 2, 5}
    OBVIOUS
  <2>1. ret \in Kinds /\ exit' = ExitCode(ret)
    BY <1>1 DEF Exit, BaseInv, RetInv
  <2>2. \/ ret \in {"internal", "canceled"} /\ ExitCode(ret) = 1
        \/ ret \in {"usage"} \cup Refusals /\ ExitCode(ret) = 2
        \/ ret = "deadline" /\ ExitCode(ret) = 5
    BY <2>1 DEF ExitCode, Kinds, Refusals
  <2> QED
    BY <2>1, <2>2
<1>6. ret = "ok" => exit' = 1 \/ exit' = (IF failOnDrift' /\ drift > 0 THEN 7 ELSE 0)
  BY DEF Exit
<1>7. failOnDrift' /\ exit' \in {0, 7} => ret' = "ok" /\ exit' = (IF drift' > 0 THEN 7 ELSE 0)
  BY <1>1, <1>5, <1>6 DEF comparison
<1> QED
  BY <1>1, <1>3, <1>4, <1>7 DEF ReportInv, Loading

LEMMA StillReport ==
    ASSUME BaseInv, BaseInv', ReportInv, UNCHANGED <<request, command, pc, i, comparison, ret>>,
           ProgressOf' = ProgressOf, Answered' <=> Answered
    PROVE  ReportInv'
<1>1. Answered' => Covers(selected)' /\ Admitted' /\ ProgressOf' = selected'
  BY SameReport
<1>2. PICK k, done : k = i /\ done = Done
  OBVIOUS
<1>3. /\ Done' = done /\ i' = k
      /\ Covers(done) => Covers(done)'
      /\ OneSided(k)' <=> OneSided(k)
  BY <1>2, CoversStays, FixedEntries DEF Done, request
<1>4. (Covers(Done) => Covers(Done)') /\ (OneSided(i)' <=> OneSided(i))
  BY <1>2, <1>3
<1>5. Admitted' <=> Admitted
  BY StillAdmitted
<1> QED
  BY <1>1, <1>2, <1>3, <1>4, <1>5 DEF ReportInv, comparison, command

LEMMA ReportStep == ASSUME BaseInv, BaseInv', ReportInv, [Next]_vars PROVE ReportInv'
<1>1. \/ ProgressOf' = ProgressOf
      \/ NextResource /\ pc' = "told" /\ ProgressOf' = ProgressOf \cup {i}
  BY BaseStep
<1>2. CASE NextResource
  <2>1. pc' = "told" => ProgressOf' = ProgressOf \cup {i}
    BY <1>2, NextResourceBase
  <2> QED
    BY <1>1, <1>2, <2>1, NextReport
<1>3. CASE Prepare \/ Start \/ Started \/ OpenDump \/ LoadFile \/ DumpLoaded
  <2>1. /\ UNCHANGED comparison /\ pc \in Loading \cup {"admit"}
        /\ pc' \in Loading \cup {"admit"} \/ pc' = "failed"
    BY <1>3 DEF Prepare, Start, Started, OpenDump, LoadFile, DumpLoaded,
       FailWith, Abort, Proceed, Loading
  <2>2. ProgressOf' = ProgressOf
    BY <1>1, <2>1 DEF NextResource, Loading
  <2> QED
    BY <2>1, <2>2, LoadingReport, FailsQuietly
<1>4. CASE Admit
  BY <1>4, AdmitBase, AdmitReport
<1>5. CASE CompareResource
  BY <1>5, CompareBase, CompareReport
<1>6. CASE Compared
  BY <1>6, ComparedBase, ComparedReport
<1>7. CASE Completed
  BY <1>7, CompletedBase, CompletedReport
<1>8. CASE Unwind
  BY <1>8, UnwindReport
<1>9. CASE Exit
  BY <1>9, ExitBase, ExitReport
<1>10. CASE Sink
  <2>1. UNCHANGED <<request, command, pc, i, comparison, ret>> /\ ProgressOf' = ProgressOf
    BY <1>10, SinkBase DEF Sink
  <2>2. Answered' <=> Answered
    BY <1>10, SinkEffect DEF Sink, BaseInv, Answered
  <2> QED
    BY <2>1, <2>2, StillReport
<1>11. CASE EndContext \/ UNCHANGED vars
  <2>1. UNCHANGED <<stream, request, command, pc, i, comparison, ret>>
    BY <1>11 DEF EndContext, vars
  <2>2. ProgressOf' = ProgressOf /\ (Answered' <=> Answered)
    BY <2>1, SameStream
  <2> QED
    BY <2>1, <2>2, StillReport
<1> QED
  BY <1>2, <1>3, <1>4, <1>5, <1>6, <1>7, <1>8, <1>9, <1>10, <1>11 DEF Next,
     Over

-----------------------------------------------------------------------------
(* What holds of every comparison.                                         *)

DiffInv == BaseInv /\ LoadInv /\ ReportInv

(* The inductive invariant of the comparison: what the stream and the      *)
(* returned error are at each step, that what is kept is the bytes of the  *)
(* files loaded so far, and that the report covers what was compared so    *)
(* far.                                                                    *)
THEOREM DiffInvCorrect == Spec => []DiffInv
<1>1. Init => DiffInv
  BY BaseInit, LoadInit, ReportInit DEF DiffInv
<1>2. DiffInv /\ [Next]_vars => DiffInv'
  BY BaseStep, LoadStep, ReportStep DEF DiffInv
<1> QED
  BY <1>1, <1>2, PTL DEF Spec

LEMMA CompletedIsAnswered ==
    ASSUME BaseInv, "completed" \in Told
    PROVE  Answered
<1>1. PICK n \in DOMAIN delivered : delivered[n].kind = "completed"
  BY DEF Told
<1>2. /\ delivered \in Seq(Event) /\ OneStartOneEnd /\ terminal = Ended
      /\ started = (delivered # <<>>) /\ (started => sink)
  BY DEF BaseInv, StreamInv, StreamTypeOK
<1>3. n \in 1..Len(delivered) /\ delivered # <<>>
  BY <1>1, <1>2
<1>4. n = Len(delivered)
  BY <1>1, <1>2, <1>3 DEF OneStartOneEnd, Terminal
<1>5. Ended
  BY <1>1, <1>3, <1>4 DEF Ended, Terminal
<1> QED
  BY <1>1, <1>2, <1>3, <1>4, <1>5 DEF Answered, LastKind

(* A report that is returned is the difference of the two dumps, whatever  *)
(* the dumps, the selection and the shapes of the resources.               *)
THEOREM ReportsAreExact == Spec => []ReportIsExact
<1>1. DiffInv => ReportIsExact
  <2> SUFFICES ASSUME DiffInv, pc = "returned", report # <<>> PROVE ReportIsExact
    BY DEF ReportIsExact
  <2>1. compared \in Cases /\ selected \subseteq Resource /\ Covers(selected)
    BY DEF DiffInv, BaseInv, DiffTypeOK, ReportInv
  <2>2. ASSUME NEW n \in DOMAIN report, ~report[n].failed PROVE Explains(report[n])
    <3>1. report \in Seq({Entry(r) : r \in selected})
      BY <2>1 DEF Covers
    <3>2. PICK r \in selected : report[n] = Entry(r)
      BY <3>1
    <3>3. ~Failed(r)
      BY <2>1, <2>2, <3>2, EntryWeight
    <3>4. ~Ambiguous(r) /\ report[n] = Compare(r)
      BY <2>1, <3>2, <3>3, EntryWeight DEF Covers
    <3> QED
      BY <2>1, <3>4, CompareExplains
  <2>3. ASSUME NEW r \in selected, Records("old", r) \o Records("new", r) # <<>>
        PROVE  \E n \in DOMAIN report : report[n].resource = r
    <3>1. "old" \in Sides /\ "new" \in Sides
      BY DEF Sides
    <3>2. Records("old", r) \in Seq(Record) /\ Records("new", r) \in Seq(Record)
      BY <2>1, <3>1, Typed
    <3>3. ~Nothing(r)
      BY <2>3, <3>2 DEF Nothing
    <3>4. PICK n \in DOMAIN report : report[n] = Entry(r)
      BY <2>1, <3>3 DEF Covers
    <3> QED
      BY <2>1, <3>4, EntryWeight
  <2>4. drift = SumFunction([n \in DOMAIN report |-> Weight(report[n])])
    BY <2>1 DEF Covers
  <2> QED
    BY <2>2, <2>3, <2>4 DEF ReportIsExact
<1> QED
  BY <1>1, DiffInvCorrect, PTL

(* Of a resource that failed in either dump nothing is reported but that   *)
(* it did.                                                                 *)
THEOREM FailuresAreNotDrift == Spec => []FailedIsNotDrift
<1>1. DiffInv => FailedIsNotDrift
  <2> SUFFICES ASSUME DiffInv, "completed" \in Told, NEW r \in selected, Failed(r)
               PROVE  /\ allowPartial
                      /\ \E n \in DOMAIN report :
                            report[n].resource = r /\ report[n].failed /\ Weight(report[n]) = 0
    BY DEF FailedIsNotDrift
  <2>1. /\ compared \in Cases /\ selected \subseteq Resource /\ r \in Resource
        /\ Covers(selected) /\ Admitted
    BY CompletedIsAnswered DEF DiffInv, BaseInv, DiffTypeOK, ReportInv
  <2>2. Partial("old") \/ Partial("new")
    BY <2>1 DEF Failed, Partial, Status
  <2>3. PICK n \in DOMAIN report : report[n] = Entry(r)
    BY <2>1 DEF Covers, Nothing
  <2>4. Entry(r).resource = r /\ Entry(r).failed = TRUE /\ Weight(Entry(r)) = 0
    BY <2>1, EntryWeight
  <2> QED
    BY <2>1, <2>2, <2>3, <2>4 DEF Admitted
<1> QED
  BY <1>1, DiffInvCorrect, PTL

(* Both dumps share one budget, and are refused for it only if they exceed *)
(* it.                                                                     *)
THEOREM BudgetsAreShared == Spec => []BudgetIsShared
<1>1. DiffInv => BudgetIsShared
  <2> SUFFICES ASSUME DiffInv PROVE BudgetIsShared
    OBVIOUS
  <2>1. /\ kept["old"] + kept["new"] <= Budget
        /\ ret = "tooLarge" => Bytes(Chosen) > Budget
        /\ pc \in {"next", "told", "completed"} => kept["old"] + kept["new"] = Bytes(Chosen)
    BY DEF DiffInv, LoadInv, Loaded
  <2> QED
    BY <2>1 DEF BudgetIsShared, Chosen
<1> QED
  BY <1>1, DiffInvCorrect, PTL

(* The consumer, the caller and the exit code are told the same.           *)
THEOREM OutcomesAgree == Spec => []OutcomeAgrees
<1>1. DiffInv => OutcomeAgrees
  <2> SUFFICES ASSUME DiffInv PROVE OutcomeAgrees
    OBVIOUS
  <2>1. compared \in Cases /\ selected \subseteq Resource
    BY DEF DiffInv, BaseInv, DiffTypeOK
  <2>2. ASSUME pc = "returned", sink
        PROVE  /\ Ended
               /\ ret = "canceled" <=> LastKind = "canceled"
               /\ ret = "ok" => LastKind = "completed"
               /\ LastKind = "completed" => ret \in {"ok", "sink"} /\ ProgressOf = selected
               /\ report # <<>> => LastKind = "completed"
    <3>1. terminal /\ Ended /\ (ret = "canceled" <=> LastKind = "canceled")
      BY <2>2 DEF DiffInv, BaseInv, StreamInv, PcInv
    <3>2. Answered <=> LastKind = "completed"
      BY <2>2, <3>1 DEF Answered
    <3>3. (ret = "ok" => Answered) /\ (Answered => ret \in {"ok", "sink"})
      BY <2>2 DEF DiffInv, BaseInv, RetInv, Kinds, Refusals
    <3>4. (Answered => ProgressOf = selected) /\ (report # <<>> => Answered)
      BY <2>2 DEF DiffInv, ReportInv
    <3> QED
      BY <3>1, <3>2, <3>3, <3>4
  <2>3. ASSUME pc = "exited", failOnDrift, exit \in {0, 7}
        PROVE  (exit = 0) = (\A r \in selected : ReadBoth(r) =>
                               SameRecords(r, DOMAIN Records("old", r), DOMAIN Records("new", r)))
    <3>1. ret = "ok" /\ exit = IF drift > 0 THEN 7 ELSE 0
      BY <2>3 DEF DiffInv, ReportInv
    <3>2. Covers(selected)
      BY <3>1 DEF DiffInv, BaseInv, RetInv, ReportInv
    <3>3. drift \in Nat /\ (drift = 0 <=> \A r \in selected : Weight(Entry(r)) = 0)
      BY <3>2 DEF Covers
    <3>4. exit = 0 <=> \A r \in selected : Weight(Entry(r)) = 0
      BY <3>1, <3>3
    <3>5. ASSUME NEW r \in selected
          PROVE  Weight(Entry(r)) = 0 <=>
                    (ReadBoth(r) => SameRecords(r, DOMAIN Records("old", r), DOMAIN Records("new", r)))
      <4>1. r \in Resource /\ "old" \in Sides /\ "new" \in Sides
        BY <2>1 DEF Sides
      <4>2. ~OneSided(r) /\ (Failed(r) \/ ~Ambiguous(r))
        BY <3>2 DEF Covers
      <4>3. CASE Failed(r)
        <5>1. ~ReadBoth(r)
          BY <4>3 DEF ReadBoth, Failed
        <5> QED
          BY <2>1, <4>1, <4>3, <5>1, EntryWeight
      <4>4. CASE ~Failed(r) /\ ReadBoth(r)
        <5>1. Entry(r) = Compare(r)
          BY <2>1, <4>1, <4>4, EntryWeight
        <5> QED
          BY <2>1, <4>1, <4>2, <4>4, <5>1, SameIfNoWeight, NoWeightIfSame
      <4>5. CASE ~Failed(r) /\ ~ReadBoth(r)
        <5>1. /\ Status("old", r) \in {"ok", "error", "unlisted"}
              /\ Status("new", r) \in {"ok", "error", "unlisted"}
          BY <2>1, <4>1, Typed
        <5>2. Status("old", r) = "unlisted" /\ Status("new", r) = "unlisted"
          BY <4>2, <4>5, <5>1 DEF Failed, ReadBoth, OneSided
        <5>3. Records("old", r) = <<>> /\ Records("new", r) = <<>>
          BY <2>1, <4>1, <5>2, Typed
        <5> QED
          BY <2>1, <4>1, <4>5, <5>3, NothingWeighs DEF Nothing
      <4> QED
        BY <4>3, <4>4, <4>5
    <3> QED
      BY <3>4, <3>5
  <2> QED
    BY <2>2, <2>3 DEF OutcomeAgrees, LastKind, ProgressOf
<1> QED
  BY <1>1, DiffInvCorrect, PTL
=============================================================================
