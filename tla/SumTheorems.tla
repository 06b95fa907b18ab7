---------------------------- MODULE SumTheorems ----------------------------
(***************************************************************************)
(* Sums of a function over a finite set, as module Functions defines them: *)
(* how a sum changes when an element comes or goes, or when the function   *)
(* changes at one place.  The invariants that balance one count against    *)
(* others (events in hand, in queue and reported; volumes of the runs of a *)
(* target; totals of a run) rest on these.                                 *)
(*                                                                         *)
(* Induction is by a smallest counterexample: the least natural number of  *)
(* a nonempty set exists because < is well-founded on Nat.                 *)
(***************************************************************************)
EXTENDS Functions, Sequences, FiniteSetTheorems, TLAPS

Chosen(s) == CHOOSE x \in s : TRUE

(* What one step of the recursion says, for the sets in D.                 *)
SumsOn(g, f, D) ==
    g = [s \in D |-> IF s = {} THEN 0 ELSE f[Chosen(s)] + g[s \ {Chosen(s)}]]

IsSum(g, f, S) == SumsOn(g, f, SUBSET S)

(* A nonempty set of naturals has a least member.                          *)
LEMMA LeastNat ==
    ASSUME NEW T, T \subseteq Nat, T # {}
    PROVE  \E n \in T : \A m \in T : n <= m
<1>1. PICK n \in T : \A m \in T : ~(<<m, n>> \in OpToRel(<, Nat))
  BY NatLessThanWellFounded, WFMin
<1>2. \A m \in T : ~(m < n)
  BY <1>1 DEF OpToRel
<1>3. QED BY <1>2

(* A nonempty collection of subsets has one that needs all its elements.   *)
LEMMA SmallestSet ==
    ASSUME NEW S, IsFiniteSet(S), NEW B, B \subseteq SUBSET S, B # {}
    PROVE  \E s \in B : IsFiniteSet(s) /\ \A z \in s : s \ {z} \notin B
<1> DEFINE T == {Cardinality(s) : s \in B}
<1>1. \A s \in B : IsFiniteSet(s) /\ Cardinality(s) \in Nat
  BY FS_Subset, FS_CardinalityType
<1>2. T \subseteq Nat /\ T # {}
  BY <1>1
<1>3. PICK n \in T : \A m \in T : n <= m
  BY <1>2, LeastNat
<1>4. PICK s \in B : n = Cardinality(s)
  BY <1>3
<1>5. ASSUME NEW z \in s, s \ {z} \in B PROVE FALSE
  <2>1. Cardinality(s \ {z}) = Cardinality(s) - 1
    BY <1>1, FS_RemoveElement
  <2>2. Cardinality(s \ {z}) >= Cardinality(s)
    BY <1>3, <1>4, <1>5
  <2>3. QED BY <1>1, <2>1, <2>2
<1>6. QED BY <1>1, <1>5

(* The subsets of at most n elements.                                      *)
UpTo(S, n) == {s \in SUBSET S : Cardinality(s) <= n}

(* Taking the chosen element out of a set leaves one element less.         *)
LEMMA SmallerSet ==
    ASSUME NEW S, IsFiniteSet(S), NEW s \in SUBSET S, s # {}
    PROVE  /\ Chosen(s) \in s
           /\ IsFiniteSet(s \ {Chosen(s)})
           /\ Cardinality(s) \in Nat /\ Cardinality(s \ {Chosen(s)}) \in Nat
           /\ Cardinality(s \ {Chosen(s)}) = Cardinality(s) - 1
<1>1. Chosen(s) \in s
  BY DEF Chosen
<1>2. IsFiniteSet(s)
  BY FS_Subset
<1>3. QED
  BY <1>1, <1>2, FS_RemoveElement, FS_CardinalityType

(* The recursion that defines a sum has a solution.                        *)
LEMMA SumExists ==
    ASSUME NEW f, NEW S, IsFiniteSet(S)
    PROVE  \E g : IsSum(g, f, S)
<1> DEFINE T == {n \in Nat : ~ \E g : SumsOn(g, f, UpTo(S, n))}
<1>1. T = {}
  <2>1. SUFFICES ASSUME T # {} PROVE FALSE
    OBVIOUS
  <2>2. PICK n \in T : \A m \in T : n <= m
    BY <2>1, LeastNat
  <2>3. CASE n = 0
    <3>1. \A s \in UpTo(S, 0) : s = {}
      BY FS_Subset, FS_EmptySet, FS_CardinalityType DEF UpTo
    <3>2. SumsOn([s \in UpTo(S, 0) |-> 0], f, UpTo(S, 0))
      BY <3>1 DEF SumsOn
    <3>3. QED BY <2>3, <3>2
  <2>4. CASE n # 0
    <3>1. n - 1 \in Nat /\ n - 1 \notin T
      BY <2>2, <2>4
    <3>2. PICK g : SumsOn(g, f, UpTo(S, n - 1))
      BY <3>1
    <3> DEFINE h == [s \in UpTo(S, n) |-> IF s = {} THEN 0 ELSE f[Chosen(s)] + g[s \ {Chosen(s)}]]
    <3>3. ASSUME NEW s \in UpTo(S, n), s # {}
          PROVE  s \ {Chosen(s)} \in UpTo(S, n - 1) /\ s \ {Chosen(s)} \in UpTo(S, n)
      BY <3>3, <3>1, SmallerSet DEF UpTo
    <3>4. \A s \in UpTo(S, n - 1) : s \in UpTo(S, n) /\ h[s] = g[s]
      <4> SUFFICES ASSUME NEW s \in UpTo(S, n - 1) PROVE s \in UpTo(S, n) /\ h[s] = g[s]
        OBVIOUS
      <4>1. s \in UpTo(S, n)
        BY <3>1, FS_Subset, FS_CardinalityType DEF UpTo
      <4>2. g[s] = IF s = {} THEN 0 ELSE f[Chosen(s)] + g[s \ {Chosen(s)}]
        BY <3>2 DEF SumsOn
      <4>3. QED BY <4>1, <4>2
    <3>5. \A s \in UpTo(S, n) : s # {} => h[s \ {Chosen(s)}] = g[s \ {Chosen(s)}]
      BY <3>3, <3>4
    <3>6. SumsOn(h, f, UpTo(S, n))
      BY <3>5 DEF SumsOn
    <3>7. QED BY <3>6
  <2>5. QED BY <2>3, <2>4
<1>2. Cardinality(S) \in Nat
  BY FS_CardinalityType
<1>3. UpTo(S, Cardinality(S)) = SUBSET S
  <2>1. \A s \in SUBSET S : Cardinality(s) <= Cardinality(S)
    BY FS_Subset
  <2>2. QED BY <2>1 DEF UpTo
<1>4. \E g : SumsOn(g, f, UpTo(S, Cardinality(S)))
  <2>1. Cardinality(S) \notin T
    BY <1>1
  <2>2. QED BY <1>2, <2>1
<1>5. QED BY <1>3, <1>4 DEF IsSum

(* The sum the library's operator computes is a solution's value at S.     *)
LEMMA SumChosen ==
    ASSUME NEW f, NEW S, IsFiniteSet(S)
    PROVE  \E g : IsSum(g, f, S) /\ SumFunctionOnSet(f, S) = g[S]
<1>1. \E g : IsSum(g, f, S)
  BY SumExists
<1>2. QED
  BY <1>1 DEF SumFunctionOnSet, FoldFunctionOnSet, MapThenFoldSet, IsSum, SumsOn, Chosen

(* Solutions agree where both are defined.                                 *)
LEMMA SumsAgree ==
    ASSUME NEW f, NEW S, IsFiniteSet(S), NEW R, R \subseteq S,
           NEW g, IsSum(g, f, S), NEW h, IsSum(h, f, R)
    PROVE  g[R] = h[R]
<1> DEFINE Bad == {s \in SUBSET R : g[s] # h[s]}
<1>1. SUFFICES ASSUME Bad # {} PROVE FALSE
  <2>1. R \in SUBSET R
    OBVIOUS
  <2>2. QED BY <2>1
<1>2. PICK s \in Bad : \A z \in s : s \ {z} \notin Bad
  <2>1. Bad \subseteq SUBSET S
    OBVIOUS
  <2> HIDE DEF Bad
  <2>2. QED BY <1>1, <2>1, SmallestSet
<1>3. s # {}
  BY <1>2 DEF IsSum, SumsOn
<1>4. Chosen(s) \in s
  BY <1>3 DEF Chosen
<1>5. g[s \ {Chosen(s)}] = h[s \ {Chosen(s)}]
  BY <1>2, <1>4
<1>6. g[s] = f[Chosen(s)] + g[s \ {Chosen(s)}]
  BY <1>2, <1>3 DEF IsSum, SumsOn
<1>7. h[s] = f[Chosen(s)] + h[s \ {Chosen(s)}]
  BY <1>2, <1>3 DEF IsSum, SumsOn
<1>8. QED BY <1>2, <1>5, <1>6, <1>7

(* The operator obeys the equation it is defined by.                       *)
LEMMA SumStep ==
    ASSUME NEW f, NEW S, IsFiniteSet(S)
    PROVE  SumFunctionOnSet(f, S) =
               IF S = {} THEN 0 ELSE f[Chosen(S)] + SumFunctionOnSet(f, S \ {Chosen(S)})
<1>1. PICK g : IsSum(g, f, S) /\ SumFunctionOnSet(f, S) = g[S]
  BY SumChosen
<1>2. g[S] = IF S = {} THEN 0 ELSE f[Chosen(S)] + g[S \ {Chosen(S)}]
  BY <1>1 DEF IsSum, SumsOn
<1> DEFINE R == S \ {Chosen(S)}
<1>3. IsFiniteSet(R)
  BY FS_Subset
<1>4. PICK h : IsSum(h, f, R) /\ SumFunctionOnSet(f, R) = h[R]
  BY <1>3, SumChosen
<1>5. g[R] = h[R]
  <2>1. R \subseteq S
    OBVIOUS
  <2>2. IsSum(g, f, S) /\ IsSum(h, f, R)
    BY <1>1, <1>4
  <2>3. IsFiniteSet(S)
    OBVIOUS
  <2> HIDE DEF R
  <2>4. QED BY <2>1, <2>2, <2>3, SumsAgree
<1>6. QED BY <1>1, <1>2, <1>4, <1>5

(* A sum of integers is an integer, a sum of naturals a natural.           *)
THEOREM SumType ==
    ASSUME NEW S, IsFiniteSet(S), NEW f
    PROVE  /\ (\A y \in S : f[y] \in Int) => SumFunctionOnSet(f, S) \in Int
           /\ (\A y \in S : f[y] \in Nat) => SumFunctionOnSet(f, S) \in Nat
<1>1. ASSUME NEW Num \in {Int, Nat}, \A y \in S : f[y] \in Num
      PROVE  SumFunctionOnSet(f, S) \in Num
  <2> DEFINE Bad == {s \in SUBSET S : SumFunctionOnSet(f, s) \notin Num}
  <2>1. SUFFICES ASSUME Bad # {} PROVE FALSE
    <3>1. S \in SUBSET S
      OBVIOUS
    <3>2. QED BY <3>1
  <2>2. PICK s \in Bad : IsFiniteSet(s) /\ \A z \in s : s \ {z} \notin Bad
    <3>1. Bad \subseteq SUBSET S
      OBVIOUS
    <3> HIDE DEF Bad
    <3>2. QED BY <2>1, <3>1, SmallestSet
  <2> DEFINE p == Chosen(s)
             r == s \ {p}
  <2>3. 0 \in Num /\ \A a, b \in Num : a + b \in Num
    BY <1>1
  <2>4. s # {}
    BY <2>2, <2>3, SumStep
  <2>5. p \in s
    BY <2>4 DEF Chosen
  <2>6. SumFunctionOnSet(f, s) = f[p] + SumFunctionOnSet(f, r)
    BY <2>2, <2>4, SumStep
  <2>7. SumFunctionOnSet(f, r) \in Num
    BY <2>2, <2>5
  <2>8. f[p] \in Num
    BY <1>1, <2>2, <2>5
  <2>9. SumFunctionOnSet(f, s) \in Num
    BY <2>3, <2>6, <2>7, <2>8
  <2>10. QED BY <2>2, <2>9
<1>2. QED BY <1>1

(* Any element may be taken out first.                                     *)
THEOREM SumWithout ==
    ASSUME NEW S, IsFiniteSet(S), NEW f, \A y \in S : f[y] \in Int, NEW x \in S
    PROVE  SumFunctionOnSet(f, S) = f[x] + SumFunctionOnSet(f, S \ {x})
<1> DEFINE Bad == {s \in SUBSET S : \E z \in s :
                     SumFunctionOnSet(f, s) # f[z] + SumFunctionOnSet(f, s \ {z})}
<1>1. SUFFICES ASSUME Bad # {} PROVE FALSE
  <2>1. S \in SUBSET S
    OBVIOUS
  <2>2. QED BY <2>1
<1>2. PICK s \in Bad : IsFiniteSet(s) /\ \A z \in s : s \ {z} \notin Bad
  <2>1. Bad \subseteq SUBSET S
    OBVIOUS
  <2> HIDE DEF Bad
  <2>2. QED BY <1>1, <2>1, SmallestSet
<1>3. PICK z \in s : SumFunctionOnSet(f, s) # f[z] + SumFunctionOnSet(f, s \ {z})
  BY <1>2
<1> DEFINE p == Chosen(s)
           q == (s \ {z}) \ {p}
<1>4. p \in s /\ p \in S /\ z \in S
  BY <1>2, <1>3 DEF Chosen
<1>5. SumFunctionOnSet(f, s) = f[p] + SumFunctionOnSet(f, s \ {p})
  BY <1>2, <1>4, SumStep
<1>6. z # p
  BY <1>3, <1>5
<1>7. SumFunctionOnSet(f, s \ {p}) = f[z] + SumFunctionOnSet(f, (s \ {p}) \ {z})
  <2>1. s \ {p} \in SUBSET S /\ z \in s \ {p}
    BY <1>2, <1>3, <1>6
  <2>2. s \ {p} \notin Bad
    BY <1>2, <1>4
  <2>3. QED BY <2>1, <2>2
<1>8. SumFunctionOnSet(f, s \ {z}) = f[p] + SumFunctionOnSet(f, q)
  <2>1. s \ {z} \in SUBSET S /\ p \in s \ {z}
    BY <1>2, <1>4, <1>6
  <2>2. s \ {z} \notin Bad
    BY <1>2, <1>3
  <2>3. QED BY <2>1, <2>2
<1>9. (s \ {p}) \ {z} = q
  OBVIOUS
<1>10. SumFunctionOnSet(f, q) \in Int /\ f[p] \in Int /\ f[z] \in Int
  <2>1. IsFiniteSet(q) /\ \A y \in q : f[y] \in Int
    BY <1>2, FS_Subset
  <2>2. SumFunctionOnSet(f, q) \in Int
    BY <2>1, SumType
  <2>3. QED BY <1>4, <2>2
<1>11. SumFunctionOnSet(f, s) = f[z] + SumFunctionOnSet(f, s \ {z})
  <2>1. f[p] + (f[z] + SumFunctionOnSet(f, q)) = f[z] + (f[p] + SumFunctionOnSet(f, q))
    <3> HIDE DEF p, q
    <3>1. QED BY <1>10
  <2> HIDE DEF p, q
  <2>2. QED BY <1>5, <1>7, <1>8, <1>9, <2>1
<1>12. QED BY <1>3, <1>11

(* Only what the function is on the set matters.                           *)
THEOREM SumEqual ==
    ASSUME NEW S, IsFiniteSet(S), NEW f, NEW g, \A y \in S : f[y] = g[y]
    PROVE  SumFunctionOnSet(f, S) = SumFunctionOnSet(g, S)
<1> DEFINE Bad == {s \in SUBSET S : SumFunctionOnSet(f, s) # SumFunctionOnSet(g, s)}
<1>1. SUFFICES ASSUME Bad # {} PROVE FALSE
  <2>1. S \in SUBSET S
    OBVIOUS
  <2>2. QED BY <2>1
<1>2. PICK s \in Bad : IsFiniteSet(s) /\ \A z \in s : s \ {z} \notin Bad
  <2>1. Bad \subseteq SUBSET S
    OBVIOUS
  <2> HIDE DEF Bad
  <2>2. QED BY <1>1, <2>1, SmallestSet
<1> DEFINE p == Chosen(s)
<1>3. s # {}
  BY <1>2, SumStep
<1>4. p \in s /\ f[p] = g[p]
  BY <1>2, <1>3 DEF Chosen
<1>5. SumFunctionOnSet(f, s \ {p}) = SumFunctionOnSet(g, s \ {p})
  BY <1>2, <1>4
<1>6. /\ SumFunctionOnSet(f, s) = f[p] + SumFunctionOnSet(f, s \ {p})
      /\ SumFunctionOnSet(g, s) = g[p] + SumFunctionOnSet(g, s \ {p})
  BY <1>2, <1>3, SumStep
<1>7. QED BY <1>2, <1>4, <1>5, <1>6

-----------------------------------------------------------------------------
(* The same for whole functions.                                           *)

(* The sum of a function of integers (naturals) is one.                    *)
LEMMA SumFunctionType ==
    ASSUME NEW S, IsFiniteSet(S), NEW f
    PROVE  /\ f \in [S -> Int] => SumFunction(f) \in Int
           /\ f \in [S -> Nat] => SumFunction(f) \in Nat
  BY SumType DEF SumFunction

(* A function that changes at one place changes its sum by as much.        *)
THEOREM SumUpdate ==
    ASSUME NEW S, IsFiniteSet(S), NEW f \in [S -> Int], NEW g \in [S -> Int],
           NEW x \in S, \A y \in S \ {x} : g[y] = f[y]
    PROVE  SumFunction(g) = SumFunction(f) - f[x] + g[x]
<1> DEFINE R == S \ {x}
<1>1. IsFiniteSet(R)
  BY FS_Subset
<1>2. SumFunctionOnSet(f, S) = f[x] + SumFunctionOnSet(f, R)
  BY SumWithout
<1>3. SumFunctionOnSet(g, S) = g[x] + SumFunctionOnSet(g, R)
  BY SumWithout
<1>4. SumFunctionOnSet(f, R) = SumFunctionOnSet(g, R)
  BY <1>1, SumEqual
<1>5. SumFunctionOnSet(f, R) \in Int
  BY <1>1, SumType
<1>6. DOMAIN f = S /\ DOMAIN g = S
  OBVIOUS
<1> HIDE DEF R
<1>7. QED BY <1>2, <1>3, <1>4, <1>5, <1>6 DEF SumFunction

(* Elements outside the set may be added, if they count nothing.           *)
THEOREM SumPad ==
    ASSUME NEW S, IsFiniteSet(S), NEW R, R \subseteq S,
           NEW f \in [R -> Int], NEW g \in [S -> Int],
           \A s \in S : g[s] = IF s \in R THEN f[s] ELSE 0
    PROVE  SumFunction(f) = SumFunction(g)
<1> DEFINE Bad == {s \in SUBSET S : SumFunctionOnSet(f, s \cap R) # SumFunctionOnSet(g, s)}
<1>1. Bad = {}
  <2>1. SUFFICES ASSUME Bad # {} PROVE FALSE
    OBVIOUS
  <2>2. PICK s \in Bad : IsFiniteSet(s) /\ \A z \in s : s \ {z} \notin Bad
    <3>1. Bad \subseteq SUBSET S
      OBVIOUS
    <3> HIDE DEF Bad
    <3>2. QED BY <2>1, <3>1, SmallestSet
  <2>3. IsFiniteSet(s \cap R) /\ \A y \in s \cap R : f[y] \in Int
    BY <2>2, FS_Subset
  <2>4. ASSUME s = {} PROVE FALSE
    <3>1. s \cap R = {}
      BY <2>4
    <3>2. QED BY <2>2, <2>4, <3>1, SumStep, FS_EmptySet
  <2>5. PICK p \in s : TRUE
    BY <2>4
  <2>6. SumFunctionOnSet(g, s) = g[p] + SumFunctionOnSet(g, s \ {p})
    BY <2>2, SumWithout
  <2>7. SumFunctionOnSet(f, (s \ {p}) \cap R) = SumFunctionOnSet(g, s \ {p})
    BY <2>2
  <2>8. CASE p \in R
    <3>1. SumFunctionOnSet(f, s \cap R) = f[p] + SumFunctionOnSet(f, (s \cap R) \ {p})
      BY <2>3, <2>8, SumWithout
    <3>2. (s \cap R) \ {p} = (s \ {p}) \cap R
      OBVIOUS
    <3>3. g[p] = f[p]
      BY <2>2, <2>8
    <3>4. QED BY <2>2, <2>6, <2>7, <3>1, <3>2, <3>3
  <2>9. CASE p \notin R
    <3>1. s \cap R = (s \ {p}) \cap R
      BY <2>9
    <3>2. g[p] = 0
      BY <2>2, <2>9
    <3>3. SumFunctionOnSet(g, s \ {p}) \in Int
      <4>1. IsFiniteSet(s \ {p}) /\ \A y \in s \ {p} : g[y] \in Int
        BY <2>2, FS_Subset
      <4>2. QED BY <4>1, SumType
    <3>4. QED BY <2>2, <2>6, <2>7, <3>1, <3>2, <3>3
  <2>10. QED BY <2>8, <2>9
<1>2. S \in SUBSET S /\ S \cap R = R /\ DOMAIN f = R /\ DOMAIN g = S
  OBVIOUS
<1>3. SumFunctionOnSet(f, S \cap R) = SumFunctionOnSet(g, S)
  BY <1>1, <1>2
<1>4. QED BY <1>2, <1>3 DEF SumFunction

(* Sums add up and keep an order.                                          *)
THEOREM SumPlus ==
    ASSUME NEW S, IsFiniteSet(S), NEW f \in [S -> Int], NEW g \in [S -> Int],
           NEW h \in [S -> Int], \A s \in S : h[s] = f[s] + g[s]
    PROVE  SumFunction(h) = SumFunction(f) + SumFunction(g)
<1> DEFINE F(s) == SumFunctionOnSet(f, s)
           G(s) == SumFunctionOnSet(g, s)
           H(s) == SumFunctionOnSet(h, s)
           Bad == {s \in SUBSET S : H(s) # F(s) + G(s)}
<1>1. Bad = {}
  <2>1. SUFFICES ASSUME Bad # {} PROVE FALSE
    OBVIOUS
  <2>2. PICK s \in Bad : IsFiniteSet(s) /\ \A z \in s : s \ {z} \notin Bad
    <3>1. Bad \subseteq SUBSET S
      OBVIOUS
    <3> HIDE DEF Bad
    <3>2. QED BY <2>1, <3>1, SmallestSet
  <2>3. ASSUME s = {} PROVE FALSE
    <3>1. F({}) = 0 /\ G({}) = 0 /\ H({}) = 0
      BY SumStep, FS_EmptySet
    <3>2. QED BY <2>2, <2>3, <3>1
  <2>4. PICK p \in s : TRUE
    BY <2>3
  <2> DEFINE r == s \ {p}
  <2>5. F(s) = f[p] + F(r) /\ G(s) = g[p] + G(r) /\ H(s) = h[p] + H(r)
    BY <2>2, SumWithout
  <2>6. H(r) = F(r) + G(r)
    BY <2>2
  <2>7. F(r) \in Int /\ G(r) \in Int /\ H(r) \in Int
    <3>1. IsFiniteSet(r) /\ \A y \in r : f[y] \in Int /\ g[y] \in Int /\ h[y] \in Int
      BY <2>2, FS_Subset
    <3>2. QED BY <3>1, SumType
  <2>8. h[p] = f[p] + g[p] /\ f[p] \in Int /\ g[p] \in Int
    BY <2>2
  <2>9. H(s) = F(s) + G(s)
    <3> HIDE DEF F, G, H, r
    <3>1. QED BY <2>5, <2>6, <2>7, <2>8
  <2>10. QED BY <2>2, <2>9
<1>2. S \in SUBSET S /\ DOMAIN f = S /\ DOMAIN g = S /\ DOMAIN h = S
  OBVIOUS
<1>3. H(S) = F(S) + G(S)
  BY <1>1, <1>2
<1>4. QED BY <1>2, <1>3 DEF SumFunction

(* A function that is nowhere larger has no larger sum.                    *)
THEOREM SumLeq ==
    ASSUME NEW S, IsFiniteSet(S), NEW f \in [S -> Int], NEW g \in [S -> Int],
           \A s \in S : f[s] <= g[s]
    PROVE  SumFunction(f) <= SumFunction(g)
<1> DEFINE d == [s \in S |-> g[s] - f[s]]
<1>1. d \in [S -> Nat] /\ d \in [S -> Int] /\ \A s \in S : g[s] = f[s] + d[s]
  OBVIOUS
<1> HIDE DEF d
<1>2. SumFunction(g) = SumFunction(f) + SumFunction(d)
  BY <1>1, SumPlus
<1>3. SumFunction(f) \in Int /\ SumFunction(d) \in Nat
  BY <1>1, SumFunctionType
<1>4. QED BY <1>2, <1>3

(* A sum that is zero throughout.                                          *)
LEMMA SumZero ==
    ASSUME NEW S, IsFiniteSet(S), NEW f \in [S -> Int], \A s \in S : f[s] = 0
    PROVE  SumFunction(f) = 0
<1> DEFINE n == SumFunction(f)
<1>1. \A s \in S : f[s] = f[s] + f[s]
  OBVIOUS
<1>2. n = n + n
  BY <1>1, SumPlus
<1>3. n \in Int
  BY SumFunctionType
<1> HIDE DEF n
<1>4. n = 0
  BY <1>2, <1>3
<1>5. QED BY <1>4 DEF n

-----------------------------------------------------------------------------
(* Sums along a sequence.                                                  *)

LEMMA SumEnds ==
    ASSUME NEW a \in Int, NEW b \in Int, a <= b, NEW f, \A i \in a .. b : f[i] \in Int
    PROVE  /\ SumFunctionOnSet(f, a .. b) = f[a] + SumFunctionOnSet(f, a + 1 .. b)
           /\ SumFunctionOnSet(f, a .. b) = f[b] + SumFunctionOnSet(f, a .. b - 1)
<1> DEFINE U == a .. b
           V == a + 1 .. b
           W == a .. b - 1
<1>1. a \in U /\ b \in U /\ V = U \ {a} /\ W = U \ {b} /\ \A i \in U : f[i] \in Int
  OBVIOUS
<1>2. IsFiniteSet(U)
  BY FS_Interval
<1> HIDE DEF U, V, W
<1>3. SumFunctionOnSet(f, U) = f[a] + SumFunctionOnSet(f, U \ {a})
  BY <1>1, <1>2, SumWithout
<1>4. SumFunctionOnSet(f, U) = f[b] + SumFunctionOnSet(f, U \ {b})
  BY <1>1, <1>2, SumWithout
<1>5. /\ SumFunctionOnSet(f, U) = f[a] + SumFunctionOnSet(f, V)
      /\ SumFunctionOnSet(f, U) = f[b] + SumFunctionOnSet(f, W)
  BY <1>1, <1>3, <1>4
<1>6. QED BY <1>5 DEF U, V, W

(* What is summed may be moved one place down.                             *)
LEMMA SumShift ==
    ASSUME NEW n \in Nat, NEW f, NEW g,
           \A i \in 1 .. n : f[i] \in Int /\ g[i + 1] = f[i]
    PROVE  SumFunctionOnSet(g, 2 .. n + 1) = SumFunctionOnSet(f, 1 .. n)
<1> DEFINE Bad == {k \in 0 .. n : SumFunctionOnSet(g, 2 .. k + 1) # SumFunctionOnSet(f, 1 .. k)}
<1>1. SUFFICES ASSUME Bad # {} PROVE FALSE
  <2>1. n \in 0 .. n
    OBVIOUS
  <2>2. QED BY <2>1
<1>2. PICK k \in Bad : \A m \in Bad : k <= m
  <2>1. Bad \subseteq Nat
    OBVIOUS
  <2> HIDE DEF Bad
  <2>2. QED BY <1>1, <2>1, LeastNat
<1>3. CASE k = 0
  <2>1. 2 .. k + 1 = {} /\ 1 .. k = {}
    BY <1>3
  <2>2. QED BY <1>2, <2>1, SumStep, FS_EmptySet, ZenonT(60)
<1>4. CASE k # 0
  <2>1. k \in 1 .. n /\ k - 1 \in 0 .. n /\ k - 1 \notin Bad
    BY <1>2, <1>4
  <2>2. SumFunctionOnSet(g, 2 .. k) = SumFunctionOnSet(f, 1 .. k - 1)
    BY <2>1
  <2>3. SumFunctionOnSet(f, 1 .. k) = f[k] + SumFunctionOnSet(f, 1 .. k - 1)
    <3>1. 1 \in Int /\ k \in Int /\ 1 <= k /\ \A i \in 1 .. k : f[i] \in Int
      BY <2>1
    <3>2. QED BY <3>1, SumEnds
  <2>4. SumFunctionOnSet(g, 2 .. k + 1) = g[k + 1] + SumFunctionOnSet(g, 2 .. k)
    <3>1. 2 \in Int /\ k + 1 \in Int /\ 2 <= k + 1 /\ (k + 1) - 1 = k
      BY <2>1
    <3>2. \A i \in 2 .. k + 1 : g[i] \in Int
      <4> SUFFICES ASSUME NEW i \in 2 .. k + 1 PROVE g[i] \in Int
        OBVIOUS
      <4>1. i - 1 \in 1 .. n /\ (i - 1) + 1 = i
        BY <2>1
      <4>2. QED BY <4>1
    <3>3. QED BY <3>1, <3>2, SumEnds
  <2>5. g[k + 1] = f[k]
    BY <2>1
  <2>6. QED BY <1>2, <2>2, <2>3, <2>4, <2>5
<1>5. QED BY <1>3, <1>4

(* The lengths of a sequence of sequences.                                 *)
Lengths(q) == [i \in 1 .. Len(q) |-> Len(q[i])]

(* A sequence of sequences has finitely many lengths, and a total length.  *)
LEMMA LengthsType ==
    ASSUME NEW A, NEW q \in Seq(Seq(A))
    PROVE  /\ Len(q) \in Nat /\ IsFiniteSet(1 .. Len(q))
           /\ Lengths(q) \in [1 .. Len(q) -> Nat]
           /\ Lengths(q) \in [1 .. Len(q) -> Int]
           /\ SumFunction(Lengths(q)) \in Nat
<1>1. Len(q) \in Nat
  OBVIOUS
<1>2. IsFiniteSet(1 .. Len(q))
  BY <1>1, FS_Interval
<1>3. \A i \in 1 .. Len(q) : Len(q[i]) \in Nat
  OBVIOUS
<1>4. Lengths(q) \in [1 .. Len(q) -> Nat] /\ Lengths(q) \in [1 .. Len(q) -> Int]
  BY <1>3 DEF Lengths
<1>5. SumFunction(Lengths(q)) \in Nat
  BY <1>2, <1>4, SumFunctionType
<1>6. QED BY <1>1, <1>2, <1>4, <1>5

(* An item at the end adds its length, the head takes its own along.       *)
THEOREM SumAppended ==
    ASSUME NEW A, NEW q \in Seq(Seq(A)), NEW e \in Seq(A)
    PROVE  SumFunction(Lengths(Append(q, e))) = SumFunction(Lengths(q)) + Len(e)
<1> DEFINE n == Len(q)
           r == Append(q, e)
           f == Lengths(q)
           g == Lengths(r)
<1>1. n \in Nat /\ f \in [1 .. n -> Int] /\ IsFiniteSet(1 .. n)
  BY LengthsType
<1>2. r \in Seq(Seq(A)) /\ Len(r) = n + 1 /\ r[n + 1] = e /\ \A i \in 1 .. n : r[i] = q[i]
  OBVIOUS
<1>3. g \in [1 .. n + 1 -> Int] /\ IsFiniteSet(1 .. n + 1)
  BY <1>2, LengthsType
<1>4. g[n + 1] = Len(e) /\ \A i \in 1 .. n : g[i] = f[i]
  BY <1>1, <1>2 DEF Lengths
<1>5. DOMAIN f = 1 .. n /\ DOMAIN g = 1 .. n + 1
  BY <1>1, <1>3
<1>6. 1 \in Int /\ n + 1 \in Int /\ 1 <= n + 1 /\ (n + 1) - 1 = n
  BY <1>1
<1> HIDE DEF n, r, f, g
<1>7. SumFunctionOnSet(g, 1 .. n + 1) = g[n + 1] + SumFunctionOnSet(g, 1 .. n)
  <2>1. \A i \in 1 .. n + 1 : g[i] \in Int
    BY <1>3
  <2>2. QED BY <1>6, <2>1, SumEnds
<1>8. SumFunctionOnSet(g, 1 .. n) = SumFunctionOnSet(f, 1 .. n)
  BY <1>1, <1>4, SumEqual
<1>9. SumFunction(f) \in Int /\ Len(e) \in Int
  BY <1>1, SumFunctionType
<1>10. SumFunction(g) = SumFunction(f) + Len(e)
  BY <1>4, <1>5, <1>7, <1>8, <1>9 DEF SumFunction
<1>11. QED BY <1>10 DEF n, r, f, g

(* Taking the head off a sequence of sequences takes its length off the    *)
(* total: a sender that takes a batch out of the queue.                    *)
THEOREM SumBeheaded ==
    ASSUME NEW A, NEW q \in Seq(Seq(A)), q # <<>>
    PROVE  SumFunction(Lengths(Tail(q))) = SumFunction(Lengths(q)) - Len(Head(q))
<1> DEFINE n == Len(q) - 1
           r == Tail(q)
           g == Lengths(q)
           f == Lengths(r)
<1>1. n \in Nat /\ Len(q) = n + 1 /\ Head(q) = q[1]
  OBVIOUS
<1>2. r \in Seq(Seq(A)) /\ Len(r) = n /\ \A i \in 1 .. n : r[i] = q[i + 1]
  BY <1>1
<1>3. f \in [1 .. n -> Int] /\ IsFiniteSet(1 .. n)
  BY <1>2, LengthsType
<1>4. g \in [1 .. n + 1 -> Int] /\ IsFiniteSet(1 .. n + 1)
  BY <1>1, LengthsType
<1>5. g[1] = Len(Head(q)) /\ \A i \in 1 .. n : g[i + 1] = f[i]
  <2>1. 1 \in 1 .. Len(q) /\ \A i \in 1 .. n : i + 1 \in 1 .. Len(q)
    BY <1>1
  <2>2. QED BY <1>1, <1>2, <2>1 DEF Lengths
<1>6. 1 \in Int /\ n + 1 \in Int /\ 1 <= n + 1 /\ 1 + 1 = 2
  BY <1>1
<1>7. DOMAIN f = 1 .. n /\ DOMAIN g = 1 .. n + 1
  BY <1>3, <1>4
<1>8. Len(Head(q)) \in Int
  BY <1>1
<1> HIDE DEF n, r, f, g
<1>9. SumFunctionOnSet(g, 1 .. n + 1) = g[1] + SumFunctionOnSet(g, 2 .. n + 1)
  <2>1. \A i \in 1 .. n + 1 : g[i] \in Int
    BY <1>4
  <2>2. QED BY <1>6, <2>1, SumEnds
<1>10. SumFunctionOnSet(g, 2 .. n + 1) = SumFunctionOnSet(f, 1 .. n)
  BY <1>1, <1>3, <1>5, SumShift
<1>11. SumFunction(f) \in Int
  BY <1>3, SumFunctionType
<1>12. SumFunction(f) = SumFunction(g) - Len(Head(q))
  BY <1>5, <1>7, <1>8, <1>9, <1>10, <1>11 DEF SumFunction
<1>13. QED BY <1>12 DEF n, r, f, g

(* The sum of n numbers from a on, the first r of which are q + 1 and the  *)
(* others q: what a total falls into when it is dealt out.                 *)
LEMMA SumStair ==
    ASSUME NEW a \in Int, NEW n \in Nat, NEW q \in Int, NEW r \in 0 .. n,
           NEW f \in [a .. a + n - 1 -> Int],
           \A i \in a .. a + n - 1 : f[i] = q + (IF i - a < r THEN 1 ELSE 0)
    PROVE  SumFunction(f) = n * q + r
<1> DEFINE Sum(k) == SumFunctionOnSet(f, a .. a + k - 1)
           Due(k) == k * q + (IF k < r THEN k ELSE r)
           Bad == {k \in 0 .. n : Sum(k) # Due(k)}
<1>1. SUFFICES ASSUME Bad # {} PROVE FALSE
  <2> HIDE DEF Sum, Due
  <2>1. n \in 0 .. n
    OBVIOUS
  <2>2. Sum(n) = Due(n)
    BY <2>1
  <2>4. Due(n) = n * q + r
    BY DEF Due
  <2>3. DOMAIN f = a .. a + n - 1
    OBVIOUS
  <2> QED BY <2>2, <2>3, <2>4 DEF SumFunction, Sum
<1>2. PICK k \in Bad : \A m \in Bad : k <= m
  <2>1. Bad \subseteq Nat
    OBVIOUS
  <2> HIDE DEF Bad
  <2> QED BY <1>1, <2>1, LeastNat
<1>3. CASE k = 0
  <2>1. a .. a + k - 1 = {}
    BY <1>3
  <2>2. SumFunctionOnSet(f, {}) = 0
    BY SumStep, FS_EmptySet
  <2>3. Due(0) = 0
    OBVIOUS
  <2> QED BY <1>2, <1>3, <2>1, <2>2, <2>3
<1>4. CASE k # 0
  <2>1. k \in 1 .. n /\ k - 1 \in 0 .. n /\ k - 1 \notin Bad
    <3> HIDE DEF Sum, Due
    <3> QED BY <1>2, <1>4
  <2>2. Sum(k - 1) = Due(k - 1)
    BY <2>1
  <2>3. Sum(k) = f[a + k - 1] + Sum(k - 1)
    <3>1. a + k - 1 \in Int /\ a <= a + k - 1 /\ \A i \in a .. a + k - 1 : f[i] \in Int
      BY <2>1
    <3>2. SumFunctionOnSet(f, a .. a + k - 1) =
              f[a + k - 1] + SumFunctionOnSet(f, a .. (a + k - 1) - 1)
      BY <3>1, SumEnds
    <3>3. (a + k - 1) - 1 = a + (k - 1) - 1
      BY <2>1
    <3> QED BY <3>2, <3>3
  <2>4. f[a + k - 1] = q + (IF k - 1 < r THEN 1 ELSE 0)
    <3>1. a + k - 1 \in a .. a + n - 1 /\ (a + k - 1) - a = k - 1
      BY <2>1
    <3> QED BY <3>1
  <2>5. k * q = (k - 1) * q + q
    BY <2>1
  <2>6. Due(k) = f[a + k - 1] + Due(k - 1)
    BY <2>1, <2>4, <2>5
  <2> HIDE DEF Sum, Due
  <2>7. Sum(k) = Due(k)
    BY <2>2, <2>3, <2>6
  <2> QED BY <1>2, <2>7
<1> QED BY <1>3, <1>4

(* Division with remainder.                                                *)
LEMMA Division ==
    ASSUME NEW t \in Nat, NEW n \in Nat \ {0}
    PROVE  /\ t \div n \in Nat /\ t % n \in 0 .. n - 1
           /\ t = n * (t \div n) + (t % n)
<1>1. t % n \in 0 .. n - 1
  OBVIOUS
<1>2. t = n * (t \div n) + (t % n)
  OBVIOUS
<1>3. t \div n \in Nat
  OBVIOUS
<1> QED BY <1>1, <1>2, <1>3

(* A set of n of the numbers up to n is all of them.                       *)
LEMMA AllOfThem ==
    ASSUME NEW n \in Nat, NEW S, S \subseteq 1 .. n, Cardinality(S) >= n
    PROVE  S = 1 .. n
<1>1. IsFiniteSet(1 .. n) /\ Cardinality(1 .. n) = n
  <2>1. 1 \in Int /\ n \in Int
    OBVIOUS
  <2> QED BY <2>1, FS_Interval
<1>2. IsFiniteSet(S) /\ Cardinality(S) <= n
  BY <1>1, FS_Subset
<1>3. Cardinality(S) \in Nat
  BY <1>2, FS_CardinalityType
<1>4. Cardinality(S) = Cardinality(1 .. n)
  BY <1>1, <1>2, <1>3
<1> QED BY <1>1, <1>4, FS_Subset

(* A finite set that is not empty has a positive size.                     *)
LEMMA SomeOfThem ==
    ASSUME NEW S, IsFiniteSet(S), NEW x \in S
    PROVE  Cardinality(S) > 0
<1>1. Cardinality(S) \in Nat /\ Cardinality(S) # 0
  BY FS_CardinalityType, FS_EmptySet
<1> QED BY <1>1

=============================================================================
