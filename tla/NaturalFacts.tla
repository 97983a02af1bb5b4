------------------------------ MODULE NaturalFacts ----------------------------
(* What the proofs need to know of numbers, of quotients and of sums. *)
EXTENDS Integers, Sequences, FiniteSetTheorems, Functions, Folds, WellFoundedInduction, TLAPS

(* A number and its bounds, when they are too far apart for an interval. *)
InRange(x, lo, hi) == x \in Int /\ lo <= x /\ x <= hi

(* The remainder of the next number: one more, or none. *)
LEMMA NextRemainder ==
  ASSUME NEW n \in Nat, NEW d \in Nat \ {0}
  PROVE  /\ n % d \in 0 .. d - 1
         /\ (n + 1) % d = IF n % d = d - 1 THEN 0 ELSE (n % d) + 1
  <1> DEFINE q == n \div d
             r == n % d
  <1>1. r \in 0 .. d - 1
    OBVIOUS
  <1>2. CASE r + 1 = d
    <2>1. q \in Int /\ n = d * q + r
      BY <1>2, SMTT(30)
    <2>2. n + 1 = d * (q + 1)
      BY <1>2, <2>1
    <2>3. (d * (q + 1)) % d = 0
      BY <2>1
    <2>. QED  BY <1>1, <1>2, <2>2, <2>3
  <1>3. CASE r + 1 < d
    <2>1. q \in Int /\ n = d * q + r
      BY <1>3, SMTT(30)
    <2> HIDE DEF q, r
    <2>2. n + 1 = d * q + (r + 1)
      BY <2>1, <1>1
    <2>3. (d * q + (r + 1)) % d = r + 1
      BY <2>1, <1>1, <1>3
    <2>. QED  BY <1>1, <1>3, <2>2, <2>3 DEF r
  <1>. QED  BY <1>1, <1>2, <1>3

(* Every inhabited set of natural numbers has a least one. *)
LEMMA LeastNatural ==
  ASSUME NEW T, T \subseteq Nat, T # {}
  PROVE  \E m \in T : \A k \in T : m <= k
<1> DEFINE R == {e \in Nat \X Nat : e[1] < e[2]}
<1>1. R = OpToRel(<, Nat)
  BY DEF OpToRel
<1>2. IsWellFoundedOn(R, Nat)
  BY <1>1, NatLessThanWellFounded
<1>a. \A k, m \in Nat : k < m => <<k, m>> \in R
  OBVIOUS
<1> HIDE DEF R
<1>3. PICK m \in T : \A k \in T : ~(<<k, m>> \in R)
  BY <1>2, WFMin
<1>4. \A k \in T : ~(k < m)
  BY <1>3, <1>a
<1> QED
  BY <1>3, <1>4

(* A set that holds zero and with a number the next holds them all. *)
LEMMA SetInduction ==
  ASSUME NEW S, 0 \in S, \A n \in Nat : n \in S => n + 1 \in S
  PROVE  Nat \subseteq S
<1> SUFFICES ASSUME Nat \ S # {} PROVE FALSE
  OBVIOUS
<1>1. PICK m \in Nat \ S : \A k \in Nat \ S : m <= k
  BY LeastNatural
<1>2. m # 0 /\ m - 1 \in Nat
  BY <1>1
<1>3. m - 1 \in S
  BY <1>1, <1>2
<1> QED
  BY <1>1, <1>2, <1>3

-----------------------------------------------------------------------------
(* Products and quotients.                                                 *)

(* Factors of an inequality. *)
LEMMA TimesOrder ==
  ASSUME NEW x \in Int, NEW y \in Int, NEW k \in Nat, x <= y
  PROVE  k * x <= k * y /\ x * k <= y * k
  OBVIOUS

LEMMA TimesCancel ==
  ASSUME NEW x \in Int, NEW y \in Int, NEW k \in Nat \ {0}, k * x <= k * y
  PROVE  x <= y
  <1>1. CASE y + 1 <= x
    <2>1. k * (y + 1) <= k * x
      BY <1>1, TimesOrder
    <2>2. k * (y + 1) = k * y + k
      OBVIOUS
    <2>3. k * y \in Int /\ k * x \in Int
      OBVIOUS
    <2>. QED  BY <2>1, <2>2, <2>3
  <1>. QED  BY <1>1

(* What is left of a number after division by a positive one. *)
LEMMA QuotientIs ==
  ASSUME NEW n \in Int, NEW d \in Nat \ {0}
  PROVE  /\ n \div d \in Int
         /\ d * (n \div d) <= n
         /\ n < d * (n \div d) + d
  OBVIOUS

(* A number is at most a quotient when its product is at most the dividend. *)
LEMMA BelowQuotient ==
  ASSUME NEW n \in Int, NEW d \in Nat \ {0}, NEW q \in Int, d * q <= n
  PROVE  q <= n \div d
  <1> DEFINE p == n \div d
  <1>1. p \in Int /\ n < d * p + d
    BY QuotientIs
  <1> HIDE DEF p
  <1>2. d * q < d * (p + 1)
    BY <1>1
  <1>3. q < p + 1
    <2>1. \A x, y \in Int : \A k \in Nat \ {0} : x <= y => k * x <= k * y
      OBVIOUS
    <2>2. CASE p + 1 <= q
      <3>1. d * (p + 1) <= d * q
        BY <1>1, <2>1, <2>2
      <3>. QED  BY <1>1, <1>2, <3>1
    <2>. QED  BY <1>1, <2>2
  <1>. QED  BY <1>1, <1>3 DEF p

LEMMA QuotientOrder ==
  ASSUME NEW m \in Int, NEW n \in Int, NEW d \in Nat \ {0}, m <= n
  PROVE  m \div d <= n \div d
  <1>1. m \div d \in Int /\ d * (m \div d) <= m
    BY QuotientIs
  <1> DEFINE p == m \div d
  <1> HIDE DEF p
  <1>2. d * p <= n
    BY <1>1 DEF p
  <1>3. p <= n \div d
    BY <1>1, <1>2, BelowQuotient DEF p
  <1>. QED  BY <1>3 DEF p

(* Fractions of natural numbers keep their order when they are rounded. *)
LEMMA FractionOrder ==
  ASSUME NEW a \in Nat, NEW b \in Nat \ {0}, NEW c \in Nat, NEW d \in Nat \ {0}, a * d <= c * b
  PROVE  a \div b <= c \div d
  <1> DEFINE p == a \div b
  <1>1. p \in Int /\ b * p <= a
    BY QuotientIs
  <1>2. d * p <= c
    <2> HIDE DEF p
    <2>1. (b * p) * d <= a * d
      <3>1. \A x, y \in Int : \A k \in Nat \ {0} : x <= y => x * k <= y * k
        OBVIOUS
      <3>2. b * p \in Int
        BY <1>1
      <3>. QED  BY <1>1, <3>1, <3>2
    <2>2. b * (d * p) <= b * c
      BY <1>1, <2>1
    <2>3. \A x, y \in Int : \A k \in Nat \ {0} : x <= y => k * x <= k * y
      OBVIOUS
    <2>4. CASE c + 1 <= d * p
      <3>1. b * (c + 1) <= b * (d * p)
        BY <1>1, <2>3, <2>4
      <3>. QED  BY <1>1, <2>2, <3>1
    <2>. QED  BY <1>1, <2>4
  <1>. QED  BY <1>1, <1>2, BelowQuotient

-----------------------------------------------------------------------------
(* Sums.                                                                   *)

(* The sum of f over S.  The fold is a function that a CHOOSE picks by its *)
(* equation: that one exists, and that its value does not depend on the   *)
(* order, is shown by looking at a smallest set for which it is not so.    *)
SumOn(f, S) == FoldFunctionOnSet(+, 0, f, S)

(* A family of subsets of a finite set has a member none of whose proper    *)
(* subsets belongs to it.                                                  *)
LEMMA SmallestSet ==
  ASSUME NEW T, IsFiniteSet(T), NEW F, F \subseteq SUBSET T, F # {}
  PROVE  \E m \in F : \A s \in F : s \subseteq m => s = m
<1> DEFINE R == StrictSubsetOrdering(T)
<1>1. IsWellFoundedOn(R, FiniteSubsetsOf(T))
  BY FS_StrictSubsetOrderingWellFounded
<1>2. F \subseteq FiniteSubsetsOf(T)
  BY FS_Subset DEF FiniteSubsetsOf
<1>3. PICK m \in F : \A s \in F : ~(<<s, m>> \in R)
  <2> HIDE DEF R
  <2> QED BY <1>1, <1>2, WFMin, IsWellFoundedOnSubset
<1>4. \A s \in F : s \subseteq m /\ s # m => <<s, m>> \in R
  BY DEF StrictSubsetOrdering
<1> HIDE DEF R
<1>5. \A s \in F : s \subseteq m => s = m
  BY <1>3, <1>4
<1> QED
  BY <1>5

OneOf(s) == CHOOSE x \in s : TRUE

LEMMA OneOfIs == ASSUME NEW s, s # {}  PROVE OneOf(s) \in s
BY DEF OneOf

(* g[s] is the sum of f over s, for the subsets of T. *)
AddsUp(g, f, T) ==
  g = [s \in SUBSET T |-> IF s = {} THEN 0 ELSE f[OneOf(s)] + g[s \ {OneOf(s)}]]

Adder(f, T) == CHOOSE g : AddsUp(g, f, T)

LEMMA SumOnIs == ASSUME NEW f, NEW S  PROVE SumOn(f, S) = Adder(f, S)[S]
BY DEF SumOn, FoldFunctionOnSet, MapThenFoldSet, Adder, AddsUp, OneOf

LEMMA AddersAgree ==
  ASSUME NEW f, NEW T, IsFiniteSet(T), NEW U, NEW g, NEW h, AddsUp(g, f, T), AddsUp(h, f, U),
         NEW s \in SUBSET T, s \in SUBSET U
  PROVE  g[s] = h[s]
<1> DEFINE F == {t \in SUBSET T : t \in SUBSET U /\ g[t] # h[t]}
<1>0. \A t \in SUBSET T : g[t] = IF t = {} THEN 0 ELSE f[OneOf(t)] + g[t \ {OneOf(t)}]
  BY DEF AddsUp
<1>1. \A t \in SUBSET U : h[t] = IF t = {} THEN 0 ELSE f[OneOf(t)] + h[t \ {OneOf(t)}]
  BY DEF AddsUp
<1>2. SUFFICES ASSUME F # {} PROVE FALSE
  OBVIOUS
<1>3. PICK m \in F : \A t \in F : t \subseteq m => t = m
  <2>1. F \subseteq SUBSET T
    OBVIOUS
  <2> HIDE DEF F
  <2> QED BY <2>1, SmallestSet, <1>2
<1>4. m # {}
  BY <1>0, <1>1
<1>5. OneOf(m) \in m
  BY <1>4, OneOfIs
<1>6. m \ {OneOf(m)} \notin F
  BY <1>3, <1>5
<1>7. g[m \ {OneOf(m)}] = h[m \ {OneOf(m)}]
  BY <1>6
<1> QED
  BY <1>0, <1>1, <1>4, <1>7

LEMMA AdderExists ==
  ASSUME NEW f, NEW T, IsFiniteSet(T)
  PROVE  AddsUp(Adder(f, T), f, T)
<1> DEFINE F == {s \in SUBSET T : ~AddsUp(Adder(f, s), f, s)}
<1>1. SUFFICES ASSUME F # {} PROVE FALSE
  OBVIOUS
<1>2. PICK m \in F : \A s \in F : s \subseteq m => s = m
  <2>1. F \subseteq SUBSET T
    OBVIOUS
  <2> HIDE DEF F
  <2> QED BY <2>1, SmallestSet, <1>1
<1>3. \A s \in SUBSET m : s # m => AddsUp(Adder(f, s), f, s)
  BY <1>2
<1> DEFINE val(s) == Adder(f, s)[s]
           h == [s \in SUBSET m |->
                   IF s = m /\ m # {} THEN f[OneOf(m)] + val(m \ {OneOf(m)}) ELSE IF s = {} THEN 0 ELSE val(s)]
<1>4. ASSUME NEW s \in SUBSET m, s # m, s # {}
      PROVE  val(s) = f[OneOf(s)] + val(s \ {OneOf(s)})
  <2>1. IsFiniteSet(s)
    BY FS_Subset
  <2>2. AddsUp(Adder(f, s), f, s) /\ OneOf(s) \in s
    BY <1>3, <1>4, OneOfIs
  <2>3. AddsUp(Adder(f, s \ {OneOf(s)}), f, s \ {OneOf(s)})
    BY <1>3, <1>4, <2>2
  <2>4. val(s) = f[OneOf(s)] + Adder(f, s)[s \ {OneOf(s)}]
    BY <2>2, <1>4 DEF AddsUp
  <2>5. Adder(f, s)[s \ {OneOf(s)}] = val(s \ {OneOf(s)})
    BY <2>1, <2>2, <2>3, AddersAgree
  <2> QED
    BY <2>4, <2>5
<1>5. m # {} => val({}) = 0
  <2>1. m # {} => AddsUp(Adder(f, {}), f, {})
    BY <1>3
  <2> QED BY <2>1 DEF AddsUp
<1>6. \A s \in SUBSET m : h[s] = IF s = {} THEN 0 ELSE f[OneOf(s)] + h[s \ {OneOf(s)}]
  <2> SUFFICES ASSUME NEW s \in SUBSET m, s # {}
               PROVE  h[s] = f[OneOf(s)] + h[s \ {OneOf(s)}]
    OBVIOUS
  <2>1. OneOf(s) \in s
    BY OneOfIs
  <2>2. s \ {OneOf(s)} \in SUBSET m /\ s \ {OneOf(s)} # m
    BY <2>1
  <2>3. h[s \ {OneOf(s)}] = val(s \ {OneOf(s)})
    BY <2>2, <2>1, <1>5
  <2> QED
    BY <1>4, <2>3
<1>7. AddsUp(h, f, m)
  <2> HIDE DEF val
  <2>1. h = [s \in SUBSET m |-> h[s]]
    OBVIOUS
  <2> QED BY <1>6, <2>1 DEF AddsUp
<1>8. AddsUp(Adder(f, m), f, m)
  BY <1>7 DEF Adder
<1> QED
  BY <1>8

LEMMA SumEmpty == ASSUME NEW f  PROVE SumOn(f, {}) = 0
<1>1. AddsUp(Adder(f, {}), f, {})
  BY AdderExists, FS_EmptySet
<1>2. Adder(f, {})[{}] = 0
  BY <1>1 DEF AddsUp
<1> QED
  BY <1>2, SumOnIs

LEMMA SumPicks ==
  ASSUME NEW f, NEW S, IsFiniteSet(S), S # {}
  PROVE  /\ OneOf(S) \in S
         /\ SumOn(f, S) = f[OneOf(S)] + SumOn(f, S \ {OneOf(S)})
<1>1. OneOf(S) \in S
  BY OneOfIs
<1>2. IsFiniteSet(S \ {OneOf(S)})
  BY FS_Subset
<1>3. AddsUp(Adder(f, S), f, S) /\ AddsUp(Adder(f, S \ {OneOf(S)}), f, S \ {OneOf(S)})
  BY AdderExists, <1>2
<1>4. Adder(f, S)[S] = f[OneOf(S)] + Adder(f, S)[S \ {OneOf(S)}]
  BY <1>3 DEF AddsUp
<1>5. Adder(f, S)[S \ {OneOf(S)}] = Adder(f, S \ {OneOf(S)})[S \ {OneOf(S)}]
  <2> DEFINE rest == S \ {OneOf(S)}
  <2>1. rest \in SUBSET S /\ rest \in SUBSET rest
    OBVIOUS
  <2>2. AddsUp(Adder(f, S), f, S) /\ AddsUp(Adder(f, rest), f, rest)
    BY <1>3
  <2> HIDE DEF rest
  <2>3. Adder(f, S)[rest] = Adder(f, rest)[rest]
    BY <2>1, <2>2, AddersAgree
  <2> QED BY <2>3 DEF rest
<1> QED
  BY <1>1, <1>4, <1>5, SumOnIs

LEMMA SumInt ==
  ASSUME NEW S, IsFiniteSet(S), NEW f, \A x \in S : f[x] \in Int
  PROVE  SumOn(f, S) \in Int
<1> DEFINE F == {s \in SUBSET S : SumOn(f, s) \notin Int}
<1>1. SUFFICES ASSUME F # {} PROVE FALSE
  OBVIOUS
<1>2. PICK m \in F : \A s \in F : s \subseteq m => s = m
  <2>1. F \subseteq SUBSET S
    OBVIOUS
  <2> HIDE DEF F
  <2> QED BY <2>1, SmallestSet, <1>1
<1>a. m \in SUBSET S
  OBVIOUS
<1>b. SumOn(f, {}) \in Int
  BY SumEmpty
<1>3. m # {} /\ IsFiniteSet(m)
  <2>1. m # {}
    BY <1>b
  <2> QED BY <2>1, <1>a, FS_Subset
<1>4. /\ OneOf(m) \in m
      /\ SumOn(f, m) = f[OneOf(m)] + SumOn(f, m \ {OneOf(m)})
  BY <1>3, SumPicks
<1>5. SumOn(f, m \ {OneOf(m)}) \in Int
  BY <1>2, <1>4
<1> QED
  BY <1>4, <1>5

(* Any element may be taken out of a sum first. *)
LEMMA SumRemove ==
  ASSUME NEW S, IsFiniteSet(S), NEW f, \A x \in S : f[x] \in Int, NEW y \in S
  PROVE  SumOn(f, S) = f[y] + SumOn(f, S \ {y})
<1> DEFINE F == {s \in SUBSET S : \E x \in s : SumOn(f, s) # f[x] + SumOn(f, s \ {x})}
<1>1. SUFFICES ASSUME F # {} PROVE FALSE
  OBVIOUS
<1>2. PICK m \in F : \A s \in F : s \subseteq m => s = m
  <2>1. F \subseteq SUBSET S
    OBVIOUS
  <2> HIDE DEF F
  <2> QED BY <2>1, SmallestSet, <1>1
<1>3. PICK x \in m : SumOn(f, m) # f[x] + SumOn(f, m \ {x})
  OBVIOUS
<1>4. m # {} /\ IsFiniteSet(m)
  BY <1>3, FS_Subset
<1> DEFINE a == OneOf(m)
           rest == m \ {a}
<1>5. a \in m /\ SumOn(f, m) = f[a] + SumOn(f, rest)
  BY <1>4, SumPicks
<1>6. x # a
  BY <1>3, <1>5
<1> HIDE DEF a
<1>7. rest \notin F /\ rest \in SUBSET S
  BY <1>2, <1>5
<1>8. SumOn(f, rest) = f[x] + SumOn(f, rest \ {x})
  BY <1>6, <1>7
<1>9. m \ {x} \notin F /\ m \ {x} \in SUBSET S
  BY <1>2
<1>10. SumOn(f, m \ {x}) = f[a] + SumOn(f, (m \ {x}) \ {a})
  BY <1>5, <1>6, <1>9
<1>11. (m \ {x}) \ {a} = rest \ {x}
  OBVIOUS
<1>12. SumOn(f, rest \ {x}) \in Int /\ f[x] \in Int /\ f[a] \in Int
  BY SumInt, FS_Subset, <1>4, <1>5
<1>13. SumOn(f, m \ {x}) = f[a] + SumOn(f, rest \ {x})
  BY <1>10, <1>11
<1> HIDE DEF rest, F
<1> QED
  BY <1>3, <1>5, <1>8, <1>12, <1>13

(* Sums are ordered as their terms are. *)
LEMMA SumOrder ==
  ASSUME NEW S, IsFiniteSet(S), NEW f, NEW g, NEW a \in Int, NEW b \in Int,
         \A x \in S : f[x] \in Int /\ g[x] \in Int /\ a * f[x] <= b * g[x]
  PROVE  a * SumOn(f, S) <= b * SumOn(g, S)
<1> DEFINE F == {s \in SUBSET S : ~(a * SumOn(f, s) <= b * SumOn(g, s))}
<1>1. SUFFICES ASSUME F # {} PROVE FALSE
  OBVIOUS
<1>2. PICK m \in F : \A s \in F : s \subseteq m => s = m
  <2>1. F \subseteq SUBSET S
    OBVIOUS
  <2> HIDE DEF F
  <2> QED BY <2>1, SmallestSet, <1>1
<1>a. m \in SUBSET S
  OBVIOUS
<1>b. a * SumOn(f, {}) <= b * SumOn(g, {})
  BY SumEmpty
<1>3. m # {} /\ IsFiniteSet(m)
  <2>1. m # {}
    BY <1>b
  <2> QED BY <2>1, <1>a, FS_Subset
<1>4. PICK x \in m : TRUE
  BY <1>3
<1>5. SumOn(f, m) = f[x] + SumOn(f, m \ {x}) /\ SumOn(g, m) = g[x] + SumOn(g, m \ {x})
  BY SumRemove, <1>3
<1>6. a * SumOn(f, m \ {x}) <= b * SumOn(g, m \ {x})
  BY <1>2
<1>7. /\ SumOn(f, m \ {x}) \in Int /\ SumOn(g, m \ {x}) \in Int
      /\ f[x] \in Int /\ g[x] \in Int /\ a * f[x] <= b * g[x]
  BY SumInt, FS_Subset, <1>3
<1>8. /\ a * SumOn(f, m) = a * f[x] + a * SumOn(f, m \ {x})
      /\ b * SumOn(g, m) = b * g[x] + b * SumOn(g, m \ {x})
  BY <1>5, <1>7
<1>9. a * SumOn(f, m) <= b * SumOn(g, m)
  BY <1>6, <1>7, <1>8
<1> QED
  BY <1>9

(* A sum over two sets without a common element. *)
LEMMA SumSplit ==
  ASSUME NEW S, NEW T, IsFiniteSet(S), IsFiniteSet(T), S \cap T = {},
         NEW f, \A x \in S \cup T : f[x] \in Int
  PROVE  SumOn(f, S \cup T) = SumOn(f, S) + SumOn(f, T)
<1> DEFINE F == {s \in SUBSET S : SumOn(f, s \cup T) # SumOn(f, s) + SumOn(f, T)}
<1>1. SUFFICES ASSUME F # {} PROVE FALSE
  OBVIOUS
<1>2. PICK m \in F : \A s \in F : s \subseteq m => s = m
  <2>1. F \subseteq SUBSET S
    OBVIOUS
  <2> HIDE DEF F
  <2> QED BY <2>1, SmallestSet, <1>1
<1>3. SumOn(f, T) \in Int
  BY SumInt
<1>4. m # {} /\ IsFiniteSet(m)
  <2>1. {} \cup T = T
    OBVIOUS
  <2>2. SumOn(f, {} \cup T) = SumOn(f, {}) + SumOn(f, T)
    BY <1>3, <2>1, SumEmpty
  <2>3. m # {}
    BY <2>2
  <2>4. m \in SUBSET S
    OBVIOUS
  <2> QED BY <2>3, <2>4, FS_Subset
<1>5. PICK x \in m : TRUE
  BY <1>4
<1>6. IsFiniteSet(m \cup T) /\ IsFiniteSet(m \ {x})
  BY <1>4, FS_Union, FS_Subset
<1>7. SumOn(f, m) = f[x] + SumOn(f, m \ {x})
  BY SumRemove, <1>4
<1>8. SumOn(f, m \cup T) = f[x] + SumOn(f, (m \cup T) \ {x})
  BY SumRemove, <1>6
<1>9. (m \cup T) \ {x} = (m \ {x}) \cup T
  OBVIOUS
<1>10. SumOn(f, (m \ {x}) \cup T) = SumOn(f, m \ {x}) + SumOn(f, T)
  BY <1>2
<1>11. SumOn(f, m \ {x}) \in Int /\ f[x] \in Int
  BY SumInt, <1>6
<1>12. SumOn(f, m \cup T) # SumOn(f, m) + SumOn(f, T)
  OBVIOUS
<1>13. SumOn(f, m \cup T) = f[x] + (SumOn(f, m \ {x}) + SumOn(f, T))
  BY <1>8, <1>9, <1>10
<1> HIDE DEF F
<1> QED
  BY <1>3, <1>7, <1>11, <1>12, <1>13

LEMMA PairFinite == ASSUME NEW x, NEW y  PROVE IsFiniteSet({x, y})
<1>1. IsFiniteSet({y})
  BY FS_Singleton
<1>2. IsFiniteSet({y} \cup {x})
  BY <1>1, FS_AddElement
<1>3. {y} \cup {x} = {x, y}
  OBVIOUS
<1> QED
  BY <1>2, <1>3

LEMMA SumTwo ==
  ASSUME NEW x, NEW y, x # y, NEW f, f[x] \in Int, f[y] \in Int
  PROVE  SumOn(f, {x, y}) = f[x] + f[y]
<1>0. {x, y} = {y} \cup {x} /\ {x, y} \ {x} = {y} /\ {y} \ {y} = {}
  OBVIOUS
<1>1. IsFiniteSet({x, y}) /\ IsFiniteSet({y})
  BY PairFinite, FS_Singleton
<1>2. SumOn(f, {x, y}) = f[x] + SumOn(f, {y})
  BY <1>0, <1>1, SumRemove
<1>3. SumOn(f, {y}) = f[y] + SumOn(f, {})
  BY <1>0, <1>1, SumRemove
<1> QED
  BY <1>2, <1>3, SumEmpty

LEMMA SumFour ==
  ASSUME NEW f, \A x \in 1 .. 4 : f[x] \in Int
  PROVE  SumOn(f, 1 .. 4) = f[1] + f[2] + f[3] + f[4]
<1>1. 1 .. 4 = {1, 2} \cup {3, 4}
  OBVIOUS
<1>2. IsFiniteSet({1, 2}) /\ IsFiniteSet({3, 4})
  BY PairFinite
<1>3. SumOn(f, 1 .. 4) = SumOn(f, {1, 2}) + SumOn(f, {3, 4})
  BY <1>1, <1>2, SumSplit
<1>0. /\ 1 \in 1 .. 4 /\ 2 \in 1 .. 4 /\ 3 \in 1 .. 4 /\ 4 \in 1 .. 4
      /\ 1 # 2 /\ 3 # 4
  OBVIOUS
<1>4. SumOn(f, {1, 2}) = f[1] + f[2]
  BY <1>0, SumTwo
<1>5. SumOn(f, {3, 4}) = f[3] + f[4]
  BY <1>0, SumTwo
<1> QED
  BY <1>3, <1>4, <1>5
=============================================================================
