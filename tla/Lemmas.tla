------------------------------- MODULE Lemmas -------------------------------
(***************************************************************************)
(* Facts about numbers, finite sets and sums that the proofs of several    *)
(* components cite: arithmetic modulo a number, induction in the form of   *)
(* least elements, and what a sum over a finite set is.                    *)
(***************************************************************************)
EXTENDS Integers, FiniteSets, Functions, FiniteSetTheorems, TLAPS

-----------------------------------------------------------------------------
(* Arithmetic modulo m.                                                    *)

(* A quotient and a remainder below the divisor determine each other.      *)
LEMMA ModUnique ==
  ASSUME NEW m \in Nat \ {0}, NEW q \in Int, NEW r \in 0 .. m - 1
  PROVE  (m * q + r) % m = r
<1> DEFINE x == m * q + r
<1> DEFINE d == q - (x \div m)
<1>1. x = m * (x \div m) + (x % m)
  OBVIOUS
<1>2. x % m \in 0 .. m - 1 /\ x \div m \in Int
  OBVIOUS
<1>3. m * d = (x % m) - r
  BY <1>1, <1>2
<1>4. m * d < m /\ -m < m * d
  BY <1>2, <1>3
<1>5. d = 0
  <2>1. d \in Int
    BY <1>2
  <2> HIDE DEF d
  <2>2. CASE d >= 1
    <3>1. m * d >= m
      BY <2>1, <2>2
    <3> QED BY <3>1, <2>1, <1>4
  <2>3. CASE d <= -1
    <3>1. m * d <= -m
      BY <2>1, <2>3
    <3> QED BY <3>1, <2>1, <1>4
  <2> QED BY <2>1, <2>2, <2>3
<1> QED BY <1>1, <1>2, <1>3, <1>5

(* Reducing a summand first does not change a sum modulo m.                *)
LEMMA ModSum ==
  ASSUME NEW m \in Nat \ {0}, NEW x \in Nat, NEW y \in Nat
  PROVE  ((x % m) + y) % m = (x + y) % m
<1> DEFINE q == x \div m
<1> DEFINE r == x % m
<1> DEFINE p == (r + y) \div m
<1> DEFINE s == (r + y) % m
<1>1. x = m * q + r /\ q \in Int /\ r \in 0 .. m - 1
  OBVIOUS
<1>2. r + y = m * p + s /\ p \in Int /\ s \in 0 .. m - 1
  BY <1>1
<1> HIDE DEF q, r, p, s
<1>3. m * (q + p) = m * q + m * p
  BY <1>1, <1>2
<1>4. x + y = m * (q + p) + s
  BY <1>1, <1>2, <1>3
<1>5. (x + y) % m = s
  <2> DEFINE k == q + p
  <2>1. k \in Int
    BY <1>1, <1>2
  <2> HIDE DEF k
  <2>2. (m * k + s) % m = s
    BY <2>1, <1>2, ModUnique
  <2> QED BY <2>2, <1>4 DEF k
<1> QED BY <1>5 DEF s, r

(* Multiples of m are closed under addition and subtraction.               *)
LEMMA ModZero ==
  ASSUME NEW m \in Nat \ {0}, NEW x \in Nat, NEW y \in Nat, x % m = 0, y % m = 0
  PROVE  (x + y) % m = 0 /\ (x >= y => (x - y) % m = 0)
<1> DEFINE p == x \div m
<1> DEFINE q == y \div m
<1>1. x = m * p /\ y = m * q /\ p \in Int /\ q \in Int
  OBVIOUS
<1> HIDE DEF p, q
<1>2. x + y = m * (p + q) + 0 /\ x - y = m * (p - q) + 0
  BY <1>1
<1>3. p + q \in Int /\ p - q \in Int /\ 0 \in 0 .. m - 1
  BY <1>1
<1>4. (m * (p + q) + 0) % m = 0 /\ (m * (p - q) + 0) % m = 0
  BY <1>3, ModUnique
<1> QED BY <1>2, <1>4

(* Taking its remainder away makes a number a multiple of m.               *)
LEMMA ModFloor ==
  ASSUME NEW m \in Nat \ {0}, NEW x \in Nat
  PROVE  /\ x - (x % m) \in 0 .. x /\ (x - (x % m)) % m = 0
         /\ x - (x % m) >= x - (m - 1)
<1> DEFINE p == x \div m
<1>1. x = m * p + (x % m) /\ p \in Nat /\ x % m \in 0 .. m - 1
  OBVIOUS
<1> HIDE DEF p
<1>2. (m * p + 0) % m = 0 /\ m * p \in Nat /\ m * p + 0 = m * p
  <2>1. 0 \in 0 .. m - 1 /\ p \in Int
    BY <1>1
  <2>2. (m * p + 0) % m = 0
    BY <2>1, ModUnique
  <2> QED BY <1>1, <2>2
<1> DEFINE r == x % m
<1> DEFINE t == m * p
<1>3. x = t + r /\ t \in Nat /\ t % m = 0 /\ r \in 0 .. m - 1
  BY <1>1, <1>2
<1> SUFFICES x - r \in 0 .. x /\ (x - r) % m = 0 /\ x - r >= x - (m - 1)
  OBVIOUS
<1> HIDE DEF r, t
<1>4. x - r = t
  BY <1>3
<1> QED BY <1>3, <1>4

-----------------------------------------------------------------------------
(* Induction.  The provers cannot apply an induction theorem to a formula, *)
(* but they can reason from a least counterexample.                        *)

Below == {ss \in Nat \X Nat : ss[1] < ss[2]}

(* Every nonempty set of natural numbers has a least element.              *)
LEMMA LeastNatural ==
  ASSUME NEW T, T \subseteq Nat, T # {}
  PROVE  \E m \in T : \A k \in T : m <= k
<1>1. IsWellFoundedOn(Below, Nat)
  BY NatLessThanWellFounded DEF OpToRel, Below
<1>2. PICK m \in T : \A k \in T : <<k, m>> \notin Below
  BY <1>1, WFMin
<1>3. \A k \in T : ~(k < m)
  BY <1>2 DEF Below
<1> QED BY <1>2, <1>3

(* Every nonempty set of subsets of a finite set has a minimal element.    *)
LEMMA MinimalSubset ==
  ASSUME NEW S, IsFiniteSet(S), NEW T, T \subseteq SUBSET S, T # {}
  PROVE  \E m \in T : \A k \in T : k \subseteq m => k = m
<1>1. IsWellFoundedOn(StrictSubsetOrdering(S), FiniteSubsetsOf(S))
  BY FS_StrictSubsetOrderingWellFounded
<1>2. FiniteSubsetsOf(S) = SUBSET S
  BY FS_FiniteSubsetsOfFinite
<1>3. PICK m \in T : \A k \in T : ~(<<k, m>> \in StrictSubsetOrdering(S))
  BY <1>1, <1>2, WFMin
<1> QED BY <1>3 DEF StrictSubsetOrdering

-----------------------------------------------------------------------------
(* The sum of f over S, as the models' statistics are checked with.        *)
SumOn(f, S) == FoldFunctionOnSet(LAMBDA x, y : x + y, 0, f, S)

(* A function of the subsets of S that grows by f[x] with every element x. *)
Accumulates(h, f, S) ==
  /\ h = [s \in SUBSET S |-> h[s]] /\ h[{}] = 0
  /\ \A s \in SUBSET S : \A x \in s : h[s] = f[x] + h[s \ {x}]

(* The sum of f over a finite set S, in the order CHOOSE takes the         *)
(* elements in, is the value at S of any function that accumulates f.      *)
LEMMA FoldIsSum ==
  ASSUME NEW S, IsFiniteSet(S), NEW f, NEW h, Accumulates(h, f, S)
  PROVE  SumOn(f, S) = h[S]
<1>a. /\ h = [s \in SUBSET S |-> h[s]] /\ h[{}] = 0
      /\ \A s \in SUBSET S : \A x \in s : h[s] = f[x] + h[s \ {x}]
  BY DEF Accumulates
<1> USE <1>a
<1> DEFINE c(s) == CHOOSE x \in s : TRUE
<1> DEFINE G(g) == g = [s \in SUBSET S |-> IF s = {} THEN 0 ELSE f[c(s)] + g[s \ {c(s)}]]
<1> DEFINE it == CHOOSE g : G(g)
<1>0. \A s : s # {} => c(s) \in s
  OBVIOUS
<1>1. SumOn(f, S) = it[S]
  BY DEF SumOn, FoldFunctionOnSet, MapThenFoldSet
<1> HIDE DEF c
<1>2. G(h)
  <2>1. \A s \in SUBSET S : h[s] = IF s = {} THEN 0 ELSE f[c(s)] + h[s \ {c(s)}]
    BY <1>0
  <2> QED BY <2>1
<1>3. G(it)
  <2> HIDE DEF G
  <2> QED BY <1>2
<1> HIDE DEF it
<1>4. \A s \in SUBSET S : it[s] = h[s]
  <2> DEFINE T == {s \in SUBSET S : it[s] # h[s]}
  <2> SUFFICES ASSUME T # {} PROVE FALSE
    OBVIOUS
  <2>1. T \subseteq SUBSET S
    OBVIOUS
  <2>2. PICK s \in T : \A k \in T : k \subseteq s => k = s
    <3> HIDE DEF T
    <3> QED BY <2>1, MinimalSubset
  <2>3. s # {}
    <3>1. it[{}] = 0
      BY <1>3
    <3> QED BY <2>2, <3>1
  <2> DEFINE r == s \ {c(s)}
  <2>4. c(s) \in s /\ s \in SUBSET S /\ r \in SUBSET S /\ r \subseteq s /\ r # s
    BY <1>0, <2>3
  <2>5. it[s] = f[c(s)] + it[r]
    BY <1>3, <2>3, <2>4
  <2>6. h[s] = f[c(s)] + h[r]
    BY <2>4
  <2> HIDE DEF r
  <2>7. it[r] = h[r]
    BY <2>2, <2>4
  <2> QED BY <2>2, <2>5, <2>6, <2>7
<1> QED BY <1>1, <1>4


(* The elements of the sets that g gives the elements of S.                *)
Gather(g, S) == UNION {g[x] : x \in S}

(* Sets of f[x] elements each, no two of which meet.                       *)
Apart(g, f, S) ==
  /\ \A x \in S : f[x] \in Nat /\ IsFiniteSet(g[x]) /\ Cardinality(g[x]) = f[x]
  /\ \A x, y \in S : x # y => g[x] \cap g[y] = {}

(* The sets of one more element.                                           *)
LEMMA GatherStep ==
  ASSUME NEW S, NEW f, NEW g, Apart(g, f, S), NEW x \in S,
         IsFiniteSet(Gather(g, S \ {x}))
  PROVE  /\ IsFiniteSet(Gather(g, S))
         /\ Cardinality(Gather(g, S)) = f[x] + Cardinality(Gather(g, S \ {x}))
<1> DEFINE A == g[x]
<1> DEFINE B == Gather(g, S \ {x})
<1>1. Gather(g, S) = A \cup B
  BY DEF Gather
<1>2. A \cap B = {}
  BY DEF Gather, Apart
<1>3. IsFiniteSet(A) /\ Cardinality(A) = f[x] /\ f[x] \in Nat
  BY DEF Apart
<1>4. IsFiniteSet(B) /\ Cardinality(B) \in Nat
  BY FS_CardinalityType
<1> SUFFICES IsFiniteSet(A \cup B) /\ Cardinality(A \cup B) = f[x] + Cardinality(B)
  BY <1>1
<1> HIDE DEF A, B
<1>5. /\ IsFiniteSet(A \cup B)
      /\ Cardinality(A \cup B) = Cardinality(A) + Cardinality(B) - Cardinality(A \cap B)
  BY <1>3, <1>4, FS_Union
<1>6. Cardinality(A \cap B) = 0
  BY <1>2, FS_EmptySet
<1>7. Cardinality(A \cup B) = f[x] + Cardinality(B) - 0
  BY <1>3, <1>5, <1>6
<1>8. \A n, m \in Nat : n + m - 0 = n + m
  OBVIOUS
<1> QED BY <1>3, <1>4, <1>5, <1>7, <1>8

(* The sum of f is the number of elements of sets of f[x] elements each.   *)
LEMMA SumGathers ==
  ASSUME NEW S, IsFiniteSet(S), NEW f, NEW g, Apart(g, f, S)
  PROVE  IsFiniteSet(Gather(g, S)) /\ SumOn(f, S) = Cardinality(Gather(g, S))
<1>0. \A s \in SUBSET S : Apart(g, f, s)
  BY DEF Apart
<1>1. IsFiniteSet(Gather(g, {})) /\ Cardinality(Gather(g, {})) = 0
  <2>1. Gather(g, {}) = {}
    BY DEF Gather
  <2> QED BY <2>1, FS_EmptySet
<1>2. \A s \in SUBSET S : IsFiniteSet(Gather(g, s))
  <2> DEFINE T == {s \in SUBSET S : ~IsFiniteSet(Gather(g, s))}
  <2> SUFFICES ASSUME T # {} PROVE FALSE
    OBVIOUS
  <2>1. T \subseteq SUBSET S
    OBVIOUS
  <2>2. PICK s \in T : \A k \in T : k \subseteq s => k = s
    <3> HIDE DEF T
    <3> QED BY <2>1, MinimalSubset
  <2>3. s # {}
    BY <2>2, <1>1
  <2>4. PICK x \in s : TRUE
    BY <2>3
  <2>5. s \ {x} \in SUBSET S /\ s \ {x} \subseteq s /\ s \ {x} # s /\ Apart(g, f, s)
    BY <1>0, <2>2, <2>4
  <2>6. IsFiniteSet(Gather(g, s \ {x}))
    BY <2>2, <2>5
  <2> QED BY <2>2, <2>4, <2>5, <2>6, GatherStep
<1> DEFINE h == [s \in SUBSET S |-> Cardinality(Gather(g, s))]
<1>3. h = [s \in SUBSET S |-> h[s]] /\ h[{}] = 0
  BY <1>1
<1>4. \A s \in SUBSET S : \A x \in s : h[s] = f[x] + h[s \ {x}]
  <2> SUFFICES ASSUME NEW s \in SUBSET S, NEW x \in s PROVE h[s] = f[x] + h[s \ {x}]
    OBVIOUS
  <2>1. s \ {x} \in SUBSET S /\ Apart(g, f, s)
    BY <1>0
  <2>2. Cardinality(Gather(g, s)) = f[x] + Cardinality(Gather(g, s \ {x}))
    BY <1>2, <2>1, GatherStep
  <2> QED BY <2>1, <2>2
<1>5. h[S] = Cardinality(Gather(g, S))
  OBVIOUS
<1> HIDE DEF h
<1>6. Accumulates(h, f, S)
  BY <1>3, <1>4 DEF Accumulates
<1>7. SumOn(f, S) = h[S]
  BY <1>6, FoldIsSum
<1> QED BY <1>2, <1>5, <1>7

(* One token for every unit that f counts at x.                            *)
TokensOf(f, S) == [x \in S |-> {x} \X (1 .. f[x])]

(* Such tokens exist for every f.                                          *)
LEMMA TokensApart ==
  ASSUME NEW S, NEW f, \A x \in S : f[x] \in Nat
  PROVE  Apart(TokensOf(f, S), f, S)
<1> DEFINE g == TokensOf(f, S)
<1>1. \A x \in S : g[x] = {x} \X (1 .. f[x])
  BY DEF TokensOf
<1> HIDE DEF g
<1>2. ASSUME NEW x \in S PROVE IsFiniteSet(g[x]) /\ Cardinality(g[x]) = f[x]
  <2>1. IsFiniteSet({x}) /\ Cardinality({x}) = 1
    BY FS_Singleton
  <2>2. IsFiniteSet(1 .. f[x]) /\ Cardinality(1 .. f[x]) = f[x]
    <3>1. \A n \in Nat : /\ IsFiniteSet(1 .. n)
                         /\ Cardinality(1 .. n) = IF 1 > n THEN 0 ELSE n - 1 + 1
      BY FS_Interval
    <3>2. \A n \in Nat : Cardinality(1 .. n) = n
      BY <3>1
    <3> QED BY <3>1, <3>2
  <2>3. /\ IsFiniteSet({x} \X (1 .. f[x]))
        /\ Cardinality({x} \X (1 .. f[x])) = Cardinality({x}) * Cardinality(1 .. f[x])
    BY <2>1, <2>2, FS_Product
  <2>4. \A n \in Nat : 1 * n = n
    OBVIOUS
  <2> QED BY <1>1, <2>1, <2>2, <2>3, <2>4
<1>3. \A x, y \in S : x # y => g[x] \cap g[y] = {}
  BY <1>1
<1>4. Apart(g, f, S)
  BY <1>2, <1>3 DEF Apart
<1> QED BY <1>4 DEF g

(* The sum of natural numbers is one.                                      *)
LEMMA SumNat ==
  ASSUME NEW S, IsFiniteSet(S), NEW f, \A x \in S : f[x] \in Nat
  PROVE  SumOn(f, S) \in Nat
BY TokensApart, SumGathers, FS_CardinalityType

(* Functions that agree have the same sum, and one more element adds its   *)
(* value to it.                                                            *)
LEMMA SumSteps ==
  ASSUME NEW S, IsFiniteSet(S), NEW f, NEW g, \A y \in S : f[y] \in Nat /\ g[y] = f[y]
  PROVE  /\ SumOn(g, S) = SumOn(f, S) /\ SumOn(f, S) \in Nat
         /\ \A x : x \notin S /\ g[x] \in Nat => SumOn(g, S \cup {x}) = SumOn(f, S) + g[x]
<1>1. PICK t : t = TokensOf(f, S)
  OBVIOUS
<1>2. Apart(t, f, S) /\ Apart(t, g, S)
  <2>1. Apart(t, f, S)
    BY <1>1, TokensApart
  <2> QED BY <2>1 DEF Apart
<1>3. /\ IsFiniteSet(Gather(t, S)) /\ SumOn(f, S) = Cardinality(Gather(t, S))
      /\ SumOn(g, S) = Cardinality(Gather(t, S))
  BY <1>2, SumGathers
<1>4. ASSUME NEW x, x \notin S, g[x] \in Nat PROVE SumOn(g, S \cup {x}) = SumOn(f, S) + g[x]
  <2> DEFINE R == S \cup {x}
  <2>1. IsFiniteSet(R) /\ R \ {x} = S /\ x \in R /\ \A y \in R : g[y] \in Nat
    BY <1>4, FS_AddElement
  <2> HIDE DEF R
  <2>2. PICK r : r = TokensOf(g, R)
    OBVIOUS
  <2>3. Apart(r, g, R) /\ Apart(r, g, S)
    <3>1. Apart(r, g, R)
      BY <2>1, <2>2, TokensApart
    <3> QED BY <2>1, <3>1 DEF Apart
  <2>4. SumOn(g, R) = Cardinality(Gather(r, R))
    BY <2>1, <2>3, SumGathers
  <2>5. IsFiniteSet(Gather(r, S)) /\ SumOn(g, S) = Cardinality(Gather(r, S))
    BY <2>3, SumGathers
  <2>6. Cardinality(Gather(r, R)) = g[x] + Cardinality(Gather(r, R \ {x}))
    BY <2>1, <2>3, <2>5, GatherStep
  <2>7. SumOn(g, R) = g[x] + SumOn(f, S) /\ SumOn(f, S) \in Nat
    BY <1>3, <2>1, <2>4, <2>5, <2>6, SumNat
  <2> QED BY <1>4, <2>7 DEF R
<1> QED BY <1>3, <1>4, SumNat

-----------------------------------------------------------------------------
(* Folds.  The step and the choice of the next element are functions here, *)
(* so that the lemmas can be cited for the fold of any operator.           *)

(* g gives every set of D what is left of base after the elements of the   *)
(* set have been taken in, the one that c chooses last.                    *)
FoldsOn(g, D, base, F, c) ==
  /\ g = [t \in D |-> g[t]]
  /\ \A t \in D : g[t] = IF t = {} THEN base ELSE F[<<c[t], g[t \ {c[t]}]>>]

Level(S, n) == {t \in SUBSET S : Cardinality(t) <= n}

(* There is such a function, whatever the step and the choice are.         *)
LEMMA FoldExists ==
  ASSUME NEW S, IsFiniteSet(S), NEW base, NEW F, NEW c,
         \A t \in SUBSET S : t # {} => c[t] \in t
  PROVE  \E g : FoldsOn(g, SUBSET S, base, F, c)
<1> DEFINE P(n) == \E g : FoldsOn(g, Level(S, n), base, F, c)
<1>0. ASSUME NEW t \in SUBSET S
      PROVE  /\ Cardinality(t) \in Nat /\ (t = {} <=> Cardinality(t) = 0)
             /\ t # {} => /\ t \ {c[t]} \in SUBSET S
                          /\ Cardinality(t \ {c[t]}) = Cardinality(t) - 1
  <2>1. IsFiniteSet(t)
    BY FS_Subset
  <2>2. Cardinality(t) \in Nat /\ (t = {} <=> Cardinality(t) = 0)
    BY <2>1, FS_CardinalityType, FS_EmptySet
  <2>3. t # {} => Cardinality(t \ {c[t]}) = Cardinality(t) - 1
    BY <2>1, FS_RemoveElement
  <2> QED BY <2>2, <2>3
<1>1. P(0)
  <2> DEFINE g == [t \in Level(S, 0) |-> base]
  <2>1. ASSUME NEW t \in Level(S, 0) PROVE t = {}
    <3>1. t \in SUBSET S /\ Cardinality(t) <= 0
      BY DEF Level
    <3>2. Cardinality(t) \in Nat /\ (t = {} <=> Cardinality(t) = 0)
      BY <1>0, <3>1, Zenon
    <3> QED BY <3>1, <3>2
  <2>2. g = [t \in Level(S, 0) |-> g[t]] /\ \A t \in Level(S, 0) : g[t] = base
    OBVIOUS
  <2> HIDE DEF g
  <2>3. \A t \in Level(S, 0) : g[t] = IF t = {} THEN base ELSE F[<<c[t], g[t \ {c[t]}]>>]
    BY <2>1, <2>2
  <2>4. FoldsOn(g, Level(S, 0), base, F, c)
    BY <2>2, <2>3, Zenon DEF FoldsOn
  <2> QED BY <2>4
<1>2. ASSUME NEW n \in Nat, P(n) PROVE P(n + 1)
  <2>1. PICK g : FoldsOn(g, Level(S, n), base, F, c)
    BY <1>2
  <2>2. \A t \in Level(S, n) : g[t] = IF t = {} THEN base ELSE F[<<c[t], g[t \ {c[t]}]>>]
    BY <2>1 DEF FoldsOn
  <2> DEFINE V(t) == IF t = {} THEN base ELSE F[<<c[t], g[t \ {c[t]}]>>]
  <2> DEFINE h == [t \in Level(S, n + 1) |-> V(t)]
  <2>3. ASSUME NEW t \in Level(S, n) PROVE t \in Level(S, n + 1)
    <3>1. t \in SUBSET S /\ Cardinality(t) <= n
      BY DEF Level
    <3>2. Cardinality(t) \in Nat
      BY <1>0, <3>1, Zenon
    <3>3. Cardinality(t) <= n + 1
      BY <3>1, <3>2
    <3> QED BY <3>1, <3>3, Zenon DEF Level
  <2>4. \A t \in Level(S, n) : h[t] = g[t]
    <3>1. \A t \in Level(S, n) : V(t) = g[t]
      BY <2>2
    <3> HIDE DEF V
    <3>2. \A t \in Level(S, n + 1) : h[t] = V(t)
      OBVIOUS
    <3> HIDE DEF h
    <3> QED BY <2>3, <3>1, <3>2
  <2>5. ASSUME NEW t \in Level(S, n + 1), t # {} PROVE t \ {c[t]} \in Level(S, n)
    <3>1. t \in SUBSET S /\ Cardinality(t) <= n + 1
      BY DEF Level
    <3>2. /\ Cardinality(t) \in Nat /\ t \ {c[t]} \in SUBSET S
          /\ Cardinality(t \ {c[t]}) = Cardinality(t) - 1
      BY <1>0, <2>5, <3>1, Zenon
    <3>3. Cardinality(t \ {c[t]}) <= n
      BY <3>1, <3>2
    <3> QED BY <3>2, <3>3, Zenon DEF Level
  <2>6. \A t \in Level(S, n + 1) : h[t] = IF t = {} THEN base ELSE F[<<c[t], h[t \ {c[t]}]>>]
    <3> TAKE t \in Level(S, n + 1)
    <3>1. CASE t = {}
      BY <3>1
    <3>2. CASE t # {}
      <4>1. h[t] = F[<<c[t], g[t \ {c[t]}]>>]
        BY <3>2
      <4>2. h[t \ {c[t]}] = g[t \ {c[t]}]
        BY <2>4, <2>5, <3>2
      <4> HIDE DEF h
      <4> QED BY <3>2, <4>1, <4>2
    <3> QED BY <3>1, <3>2
  <2>7. h = [t \in Level(S, n + 1) |-> h[t]]
    OBVIOUS
  <2> HIDE DEF h
  <2>8. FoldsOn(h, Level(S, n + 1), base, F, c)
    BY <2>6, <2>7, Zenon DEF FoldsOn
  <2> QED BY <2>8
<1> HIDE DEF P
<1>3. \A n \in Nat : P(n)
  <2> DEFINE T == {n \in Nat : ~P(n)}
  <2> SUFFICES ASSUME T # {} PROVE FALSE
    OBVIOUS
  <2>1. PICK m \in T : \A k \in T : m <= k
    <3>1. T \subseteq Nat
      OBVIOUS
    <3> HIDE DEF T
    <3> QED BY <3>1, LeastNatural
  <2>2. m # 0 /\ m \in Nat
    BY <1>1, <2>1
  <2>3. m - 1 \in Nat /\ m - 1 \notin T
    BY <2>1, <2>2
  <2>4. P((m - 1) + 1)
    BY <1>2, <2>3
  <2>5. (m - 1) + 1 = m
    BY <2>2
  <2> QED BY <2>1, <2>4, <2>5
<1>4. Cardinality(S) \in Nat /\ Level(S, Cardinality(S)) = SUBSET S
  <2>1. \A t \in SUBSET S : Cardinality(t) <= Cardinality(S)
    BY FS_Subset
  <2> QED BY <2>1, <1>0 DEF Level
<1>5. P(Cardinality(S))
  BY <1>3, <1>4
<1> QED BY <1>4, <1>5 DEF P

(* A property of base that every step keeps holds of the whole fold.       *)
LEMMA FoldKeeps ==
  ASSUME NEW S, IsFiniteSet(S), NEW g, NEW c, NEW V,
         \A t \in SUBSET S : t # {} => c[t] \in t,
         g[{}] \in V,
         \A t \in SUBSET S : t # {} /\ g[t \ {c[t]}] \in V => g[t] \in V
  PROVE  \A t \in SUBSET S : g[t] \in V
<1> DEFINE T == {t \in SUBSET S : g[t] \notin V}
<1> SUFFICES ASSUME T # {} PROVE FALSE
  OBVIOUS
<1>1. PICK t \in T : \A u \in T : u \subseteq t => u = t
  <2>1. T \subseteq SUBSET S
    OBVIOUS
  <2> HIDE DEF T
  <2> QED BY <2>1, MinimalSubset
<1>2. t \in SUBSET S /\ g[t] \notin V /\ t # {}
  BY <1>1
<1> DEFINE r == t \ {c[t]}
<1>3. r \in SUBSET S /\ r \subseteq t /\ r # t
  BY <1>2
<1>4. g[r] \notin V
  BY <1>2
<1> HIDE DEF r
<1>5. r \in T
  BY <1>3, <1>4
<1> QED BY <1>1, <1>3, <1>5

(* The maximum of a nonempty set of small numbers is one of them.          *)
LEMMA MaxChosen ==
  ASSUME NEW n \in Nat, NEW t, t \subseteq 1 .. n, t # {}
  PROVE  \E x \in t : \A y \in t : x >= y
<1> DEFINE T == {i \in Nat : n - i \in t}
<1>1. T \subseteq Nat /\ T # {}
  <2>1. PICK x \in t : TRUE
    OBVIOUS
  <2>2. n - x \in Nat /\ n - (n - x) = x
    OBVIOUS
  <2> QED BY <2>1, <2>2
<1>2. PICK m \in T : \A i \in T : m <= i
  <2> HIDE DEF T
  <2> QED BY <1>1, LeastNatural
<1>3. ASSUME NEW y \in t PROVE n - m >= y
  <2>1. n - y \in Nat /\ n - (n - y) = y
    OBVIOUS
  <2>2. n - y \in T
    BY <2>1
  <2> QED BY <1>2, <2>1, <2>2
<1> QED BY <1>2, <1>3
=============================================================================
