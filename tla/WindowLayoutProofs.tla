-------------------------- MODULE WindowLayoutProofs --------------------------
(***************************************************************************)
(* What the operators of WindowLayout return, for maps of any size, and    *)
(* the facts about finitely many numbers that this rests on: their least,  *)
(* their greatest and their sum.                                           *)
(*                                                                         *)
(* SumFunctionOnSet is a fold, which the library defines by a recursive    *)
(* function, a CHOOSE to the provers.  SumExists shows that the function   *)
(* it chooses exists, by induction over the subsets of a finite set; what  *)
(* follows it are the facts that a proof about sums cites.                 *)
(***************************************************************************)
EXTENDS WindowLayout, FiniteSetTheorems, WellFoundedInduction, TLAPS

(* The least and the greatest of some numbers. *)

\* A non-empty set of naturals has a least element.
LEMMA LeastNat ==
  ASSUME NEW S \in SUBSET Nat, S # {}
  PROVE  \E x \in S : \A y \in S : x <= y
<1>1. PICK x \in S : \A y \in S : <<y, x>> \notin OpToRel(<, Nat)
  BY NatLessThanWellFounded, WFMin, Zenon
<1>2. \A y \in S : ~ (y < x)
  BY <1>1, Zenon DEF OpToRel
<1>. QED
  BY <1>2

\* ... and when it is bounded a greatest one.
LEMMA GreatestNat ==
  ASSUME NEW S \in SUBSET Nat, S # {},
         NEW bound \in Nat, \A x \in S : x <= bound
  PROVE  \E x \in S : \A y \in S : y <= x
<1>. DEFINE Gaps == {bound - x : x \in S}
<1>1. Gaps \in SUBSET Nat /\ Gaps # {}
  <2>1. PICK x \in S : TRUE
    OBVIOUS
  <2>2. bound - x \in Gaps
    BY <2>1
  <2>3. \A y \in S : bound - y \in Nat
    OBVIOUS
  <2>. QED
    BY <2>2, <2>3
<1>2. PICK gap \in Gaps : \A other \in Gaps : gap <= other
  <2>. HIDE DEF Gaps
  <2>. QED  BY <1>1, LeastNat
<1>3. PICK x \in S : gap = bound - x
  OBVIOUS
<1>4. ASSUME NEW y \in S PROVE y <= x
  <2>1. bound - y \in Gaps
    OBVIOUS
  <2>2. bound - x <= bound - y
    BY <1>2, <1>3, <2>1
  <2>. QED
    BY <2>2
<1>. QED
  BY <1>4

\* A nonempty set of naturals has a least member.
LEMMA MinNat ==
  ASSUME NEW S \in SUBSET Nat, S # {}
  PROVE  Min(S) \in S /\ \A y \in S : Min(S) <= y
BY LeastNat DEF Min

\* A nonempty bounded set of naturals has a greatest member.
LEMMA MaxNat ==
  ASSUME NEW S \in SUBSET Nat, S # {},
         NEW bound \in Nat, \A x \in S : x <= bound
  PROVE  Max(S) \in S /\ \A y \in S : y <= Max(S)
<1>1. \E x \in S : \A y \in S : x >= y
  BY GreatestNat
<1>. QED
  BY <1>1 DEF Max

\* The greater of two integers.
LEMMA MaxPair ==
  ASSUME NEW a \in Int, NEW b \in Int
  PROVE  Max({a, b}) = IF a >= b THEN a ELSE b
BY DEF Max

\* The lesser of two integers.
LEMMA MinPair ==
  ASSUME NEW a \in Int, NEW b \in Int
  PROVE  Min({a, b}) = IF a <= b THEN a ELSE b
BY DEF Min

-------------------------------------------------------------------------------
(* Induction over the subsets of a finite set, with the property given as    *)
(* the set of those that have it.                                            *)
LEMMA SubsetInduction ==
  ASSUME NEW S, IsFiniteSet(S), NEW Good,
         \A T \in SUBSET S : (\A x \in T : T \ {x} \in Good) => T \in Good
  PROVE  S \in Good
<1>. DEFINE Sizes == {Cardinality(T) : T \in {U \in SUBSET S : U \notin Good}}
<1>1. \A T \in SUBSET S : IsFiniteSet(T) /\ Cardinality(T) \in Nat
  BY FS_Subset, FS_CardinalityType
<1>2. SUFFICES ASSUME S \notin Good PROVE FALSE
  OBVIOUS
<1>3. Sizes \in SUBSET Nat /\ Cardinality(S) \in Sizes
  BY <1>1, <1>2
<1>4. PICK n \in Sizes : \A m \in Sizes : n <= m
  <2>. HIDE DEF Sizes
  <2>. QED
    BY <1>3, LeastNat
<1>5. PICK T \in SUBSET S : T \notin Good /\ n = Cardinality(T)
  OBVIOUS
<1>6. ASSUME NEW x \in T PROVE T \ {x} \in Good
  <2>1. IsFiniteSet(T) /\ Cardinality(T) \in Nat
    BY <1>1
  <2>2. Cardinality(T \ {x}) = Cardinality(T) - 1
    BY <2>1, FS_RemoveElement
  <2>3. T \ {x} \notin Good => Cardinality(T \ {x}) \in Sizes
    OBVIOUS
  <2>4. ~(n <= Cardinality(T \ {x}))
    BY <1>5, <2>1, <2>2
  <2>. HIDE DEF Sizes
  <2>. QED
    BY <1>4, <2>3, <2>4
<1>. QED
  BY <1>5, <1>6

\* One step of SumFunctionOnSet, which takes out an element it chooses.
SumStep(f, part, sum) ==
  IF part = {} THEN 0
  ELSE f[CHOOSE x \in part : TRUE] + sum[part \ {CHOOSE x \in part : TRUE}]

IsSum(sum, f, S) == sum = [part \in SUBSET S |-> SumStep(f, part, sum)]

\* What such a function gives for one of its sets.
LEMMA SumAtPart ==
  ASSUME NEW f, NEW S, NEW sum, IsSum(sum, f, S), NEW part \in SUBSET S
  PROVE  sum[part] = SumStep(f, part, sum)
BY DEF IsSum

\* A sum over a set, by such a function.
LEMMA SumByStep ==
  ASSUME NEW f, NEW S
  PROVE  SumFunctionOnSet(f, S) = (CHOOSE sum : IsSum(sum, f, S))[S]
BY DEF SumFunctionOnSet, FoldFunctionOnSet, MapThenFoldSet, IsSum, SumStep

\* Two such functions agree where both are defined.
LEMMA SumUnique ==
  ASSUME NEW f, NEW S, NEW T \in SUBSET S, IsFiniteSet(S),
         NEW a, IsSum(a, f, S), NEW b, IsSum(b, f, T)
  PROVE  a[T] = b[T]
<1>. DEFINE Good == {part \in SUBSET T : a[part] = b[part]}
<1>1. IsFiniteSet(T)
  BY FS_Subset
<1>2. ASSUME NEW part \in SUBSET T, \A x \in part : part \ {x} \in Good
      PROVE  part \in Good
  <2>1. a[part] = SumStep(f, part, a) /\ b[part] = SumStep(f, part, b)
    BY DEF IsSum
  <2>2. CASE part = {}
    BY <2>1, <2>2 DEF SumStep
  <2>3. CASE part # {}
    <3>1. (CHOOSE x \in part : TRUE) \in part
      BY <2>3
    <3>. QED
      BY <1>2, <2>1, <2>3, <3>1 DEF SumStep
  <2>. QED
    BY <2>2, <2>3
<1>3. T \in Good
  <2>. HIDE DEF Good
  <2>. QED
    BY <1>1, <1>2, SubsetInduction
<1>. QED
  BY <1>3

\* ... and there is one on every finite set.
LEMMA SumExists ==
  ASSUME NEW f, NEW S, IsFiniteSet(S)
  PROVE  \E sum : IsSum(sum, f, S)
<1>. DEFINE Good == {T \in SUBSET S : \E sum : IsSum(sum, f, T)}
<1>1. ASSUME NEW T \in SUBSET S, \A x \in T : T \ {x} \in Good
      PROVE  T \in Good
  <2>1. \A x \in T : \E sum : IsSum(sum, f, T \ {x})
    BY <1>1
  <2>. DEFINE sums == [x \in T |-> CHOOSE sum : IsSum(sum, f, T \ {x})]
              val(part) == sums[CHOOSE x \in T : x \notin part][part]
              all == [part \in SUBSET T |->
                        IF part = T
                        THEN IF T = {} THEN 0
                             ELSE f[CHOOSE x \in T : TRUE]
                                  + val(T \ {CHOOSE x \in T : TRUE})
                        ELSE val(part)]
  <2>2. ASSUME NEW x \in T PROVE IsSum(sums[x], f, T \ {x})
    BY <2>1
  <2>3. ASSUME NEW part \in SUBSET T, part # T
        PROVE  /\ all[part] = val(part)
               /\ \A x \in T \ part : sums[x][part] = val(part)
    <3>1. ASSUME NEW x \in T \ part, NEW y \in T \ part
          PROVE  sums[x][part] = sums[y][part]
      <4>. DEFINE below == [p \in SUBSET part |-> sums[y][p]]
      <4>1. IsFiniteSet(T \ {x}) /\ IsFiniteSet(T \ {y})
        BY FS_Subset
      <4>2. IsSum(below, f, part)
        <5>1. ASSUME NEW p \in SUBSET part
              PROVE  SumStep(f, p, below) = sums[y][p]
          <6>1. sums[y][p] = SumStep(f, p, sums[y])
            <7>1. p \in SUBSET (T \ {y})
              OBVIOUS
            <7>. HIDE DEF sums
            <7>. QED
              BY <2>2, <7>1, SumAtPart
          <6>2. p # {} => (CHOOSE z \in p : TRUE) \in p
            OBVIOUS
          <6>3. p # {} => below[p \ {CHOOSE z \in p : TRUE}]
                            = sums[y][p \ {CHOOSE z \in p : TRUE}]
            OBVIOUS
          <6>. HIDE DEF below, sums
          <6>. QED
            BY <6>1, <6>3 DEF SumStep
        <5>2. below = [p \in SUBSET part |-> SumStep(f, p, below)]
          BY <5>1
        <5>. QED
          BY <5>2 DEF IsSum
      <4>3. sums[x][part] = below[part] /\ sums[y][part] = below[part]
        <5>. HIDE DEF sums, below
        <5>. QED
          BY <2>2, <4>1, <4>2, SumUnique
      <4>. QED
        BY <4>3
    <3>2. (CHOOSE x \in T : x \notin part) \in T \ part
      BY <2>3
    <3>. QED
      BY <2>3, <3>1, <3>2
  <2>4. IsSum(all, f, T)
    <3>1. ASSUME NEW part \in SUBSET T PROVE all[part] = SumStep(f, part, all)
      <4>. DEFINE c == CHOOSE x \in part : TRUE
      <4>0. CASE part = {}
        <5>1. CASE T = {}
          BY <4>0, <5>1 DEF SumStep
        <5>2. CASE T # {}
          <6>1. PICK x \in T \ part : TRUE
            BY <4>0, <5>2
          <6>2. all[part] = sums[x][part]
            BY <2>3, <6>1
          <6>3. sums[x][part] = SumStep(f, part, sums[x])
            <7>1. part \in SUBSET (T \ {x})
              BY <4>0
            <7>. HIDE DEF sums
            <7>. QED
              BY <2>2, <6>1, <7>1, SumAtPart
          <6>. HIDE DEF all, sums
          <6>. QED
            BY <4>0, <6>2, <6>3 DEF SumStep
        <5>. QED
          BY <5>1, <5>2
      <4>1. CASE part # {} /\ part = T
        <5>1. c \in part
          BY <4>1
        <5>2. all[T \ {c}] = val(T \ {c})
          BY <2>3, <4>1, <5>1
        <5>. QED
          BY <4>1, <5>2 DEF SumStep
      <4>2. CASE part # {} /\ part # T
        <5>1. c \in part
          BY <4>2
        <5>2. PICK x \in T \ part : TRUE
          BY <4>2
        <5>3. /\ all[part] = sums[x][part]
              /\ all[part \ {c}] = sums[x][part \ {c}]
          BY <2>3, <4>2, <5>1, <5>2
        <5>4. sums[x][part] = SumStep(f, part, sums[x])
          <6>1. part \in SUBSET (T \ {x})
            BY <5>2
          <6>. HIDE DEF sums
          <6>. QED
            BY <2>2, <5>2, <6>1, SumAtPart
        <5>. QED
          BY <4>2, <5>3, <5>4 DEF SumStep
      <4>. QED
        BY <4>0, <4>1, <4>2
    <3>2. all = [part \in SUBSET T |-> all[part]]
      OBVIOUS
    <3>3. all = [part \in SUBSET T |-> SumStep(f, part, all)]
      <4>. HIDE DEF all
      <4>. QED
        BY <3>1, <3>2
    <3>. QED
      BY <3>3, Zenon DEF IsSum
  <2>. QED
    BY <2>4
<1>2. S \in Good
  <2>. HIDE DEF Good
  <2>. QED
    BY <1>1, SubsetInduction
<1>. QED
  BY <1>2

\* The function SumFunctionOnSet chooses is one.
LEMMA SumDef ==
  ASSUME NEW f, NEW S, IsFiniteSet(S), NEW T \in SUBSET S
  PROVE  SumFunctionOnSet(f, T) = (CHOOSE sum : IsSum(sum, f, S))[T]
<1>1. IsFiniteSet(T)
  BY FS_Subset
<1>2. /\ IsSum(CHOOSE sum : IsSum(sum, f, S), f, S)
      /\ IsSum(CHOOSE sum : IsSum(sum, f, T), f, T)
  BY <1>1, SumExists
<1>. QED
  BY <1>2, SumUnique, SumByStep

\* The sum over the empty set.
LEMMA SumEmpty ==
  ASSUME NEW f
  PROVE  SumFunctionOnSet(f, {}) = 0
<1>1. IsFiniteSet({})
  BY FS_EmptySet
<1>2. PICK sum : IsSum(sum, f, {}) /\ sum = CHOOSE s : IsSum(s, f, {})
  BY <1>1, SumExists
<1>3. sum[{}] = SumStep(f, {}, sum)
  BY <1>2, SumAtPart
<1>. QED
  BY <1>2, <1>3, SumByStep DEF SumStep

\* A sum over a nonempty set takes out one element.
LEMMA SumChosen ==
  ASSUME NEW f, NEW S, IsFiniteSet(S), S # {}
  PROVE  \E x \in S :
           SumFunctionOnSet(f, S) = f[x] + SumFunctionOnSet(f, S \ {x})
<1>1. PICK sum : IsSum(sum, f, S) /\ sum = CHOOSE s : IsSum(s, f, S)
  BY SumExists
<1>. DEFINE x == CHOOSE y \in S : TRUE
<1>2. x \in S
  OBVIOUS
<1>3. sum[S] = SumStep(f, S, sum)
  BY <1>1, SumAtPart
<1>4. /\ SumFunctionOnSet(f, S) = sum[S]
      /\ SumFunctionOnSet(f, S \ {x}) = sum[S \ {x}]
  BY <1>1, SumDef
<1>. QED
  BY <1>2, <1>3, <1>4 DEF SumStep

\* A sum of integers is an integer.
LEMMA SumInt ==
  ASSUME NEW f, NEW S, IsFiniteSet(S), \A x \in S : f[x] \in Int
  PROVE  SumFunctionOnSet(f, S) \in Int
<1>. DEFINE Good == {T \in SUBSET S : SumFunctionOnSet(f, T) \in Int}
<1>1. ASSUME NEW T \in SUBSET S, \A x \in T : T \ {x} \in Good
      PROVE  T \in Good
  <2>1. IsFiniteSet(T)
    BY FS_Subset
  <2>2. CASE T = {}
    BY <2>2, SumEmpty
  <2>3. CASE T # {}
    <3>1. PICK x \in T :
            SumFunctionOnSet(f, T) = f[x] + SumFunctionOnSet(f, T \ {x})
      BY <2>1, <2>3, SumChosen
    <3>. QED
      BY <1>1, <3>1
  <2>. QED
    BY <2>2, <2>3
<1>2. S \in Good
  <2>. HIDE DEF Good
  <2>. QED
    BY <1>1, SubsetInduction
<1>. QED
  BY <1>2

\* Any element can be taken out of a sum first.
LEMMA SumRemove ==
  ASSUME NEW f, NEW S, IsFiniteSet(S), \A x \in S : f[x] \in Int,
         NEW x \in S
  PROVE  SumFunctionOnSet(f, S) = f[x] + SumFunctionOnSet(f, S \ {x})
<1>. DEFINE sum(T) == SumFunctionOnSet(f, T)
            Good == {T \in SUBSET S :
                       \A y \in T : sum(T) = f[y] + sum(T \ {y})}
<1>0. \A T \in SUBSET S : IsFiniteSet(T) /\ sum(T) \in Int
  BY FS_Subset, SumInt
<1>1. ASSUME NEW T \in SUBSET S, \A y \in T : T \ {y} \in Good
      PROVE  T \in Good
  <2>. SUFFICES ASSUME NEW y \in T PROVE sum(T) = f[y] + sum(T \ {y})
    OBVIOUS
  <2>1. PICK c \in T : sum(T) = f[c] + sum(T \ {c})
    BY <1>0, SumChosen
  <2>2. CASE c = y
    BY <2>1, <2>2
  <2>3. CASE c # y
    <3>1. sum(T \ {c}) = f[y] + sum((T \ {c}) \ {y})
      BY <1>1, <2>3
    <3>2. sum(T \ {y}) = f[c] + sum((T \ {y}) \ {c})
      BY <1>1, <2>3
    <3>3. (T \ {c}) \ {y} = (T \ {y}) \ {c}
      OBVIOUS
    <3>4. /\ sum((T \ {c}) \ {y}) \in Int /\ sum((T \ {y}) \ {c}) \in Int
          /\ f[c] \in Int /\ f[y] \in Int
      BY <1>0
    <3>5. sum(T \ {y}) = f[c] + sum((T \ {c}) \ {y})
      BY <3>2, <3>3
    <3>6. PICK rest \in Int : /\ sum(T \ {c}) = f[y] + rest
                             /\ sum(T \ {y}) = f[c] + rest
      BY <3>1, <3>4, <3>5
    <3>. HIDE DEF sum
    <3>. QED
      BY <2>1, <3>4, <3>6
  <2>. QED
    BY <2>2, <2>3
<1>2. S \in Good
  <2>. HIDE DEF Good
  <2>. QED
    BY <1>1, SubsetInduction
<1>. QED
  BY <1>2

\* A sum of naturals is one, and no part of it is greater.
LEMMA SumNat ==
  ASSUME NEW f, NEW S, IsFiniteSet(S), \A x \in S : f[x] \in Nat
  PROVE  /\ SumFunctionOnSet(f, S) \in Nat
         /\ \A x \in S : f[x] <= SumFunctionOnSet(f, S)
<1>. DEFINE sum(T) == SumFunctionOnSet(f, T)
            Good == {T \in SUBSET S : sum(T) \in Nat}
<1>1. \A T \in SUBSET S : IsFiniteSet(T) /\ \A x \in T : f[x] \in Int
  BY FS_Subset
<1>2. ASSUME NEW T \in SUBSET S, NEW x \in T
      PROVE  sum(T) = f[x] + sum(T \ {x})
  BY <1>1, SumRemove
<1>3. sum({}) = 0
  BY SumEmpty
<1>. HIDE DEF sum
<1>4. ASSUME NEW T \in SUBSET S, \A x \in T : T \ {x} \in Good
      PROVE  T \in Good
  <2>1. CASE T = {}
    BY <1>3, <2>1
  <2>2. CASE T # {}
    <3>1. PICK x \in T : TRUE
      BY <2>2
    <3>2. sum(T \ {x}) \in Nat /\ f[x] \in Nat
      BY <1>4, <3>1
    <3>3. sum(T) \in Nat
      BY <1>2, <3>1, <3>2
    <3>. QED
      BY <3>3
  <2>. QED
    BY <2>1, <2>2
<1>5. ASSUME NEW T \in SUBSET S PROVE sum(T) \in Nat
  <2>1. IsFiniteSet(T)
    BY FS_Subset
  <2>2. \A U \in SUBSET T : (\A x \in U : U \ {x} \in Good) => U \in Good
    BY <1>4
  <2>. HIDE DEF Good
  <2>3. T \in Good
    BY <2>1, <2>2, SubsetInduction
  <2>. QED
    BY <2>3 DEF Good
<1>6. ASSUME NEW x \in S PROVE f[x] <= sum(S)
  <2>1. sum(S) = f[x] + sum(S \ {x}) /\ sum(S \ {x}) \in Nat /\ f[x] \in Nat
    BY <1>2, <1>5
  <2>. QED
    BY <2>1
<1>. QED
  BY <1>5, <1>6 DEF sum

\* Functions that agree on a set have the same sum over it.
LEMMA SumSame ==
  ASSUME NEW f, NEW g, NEW S, IsFiniteSet(S),
         \A x \in S : f[x] \in Int /\ f[x] = g[x]
  PROVE  SumFunctionOnSet(f, S) = SumFunctionOnSet(g, S)
<1>. DEFINE Good == {T \in SUBSET S :
                       SumFunctionOnSet(f, T) = SumFunctionOnSet(g, T)}
<1>1. ASSUME NEW T \in SUBSET S, \A x \in T : T \ {x} \in Good
      PROVE  T \in Good
  <2>1. IsFiniteSet(T)
    BY FS_Subset
  <2>2. CASE T = {}
    BY <2>2, SumEmpty
  <2>3. CASE T # {}
    <3>1. PICK x \in T : TRUE
      BY <2>3
    <3>2. /\ SumFunctionOnSet(f, T) = f[x] + SumFunctionOnSet(f, T \ {x})
          /\ SumFunctionOnSet(g, T) = g[x] + SumFunctionOnSet(g, T \ {x})
      BY <2>1, SumRemove
    <3>. QED
      BY <1>1, <3>2
  <2>. QED
    BY <2>2, <2>3
<1>2. S \in Good
  <2>. HIDE DEF Good
  <2>. QED
    BY <1>1, SubsetInduction
<1>. QED
  BY <1>2

\* What one element gains and another one pays leaves the sum as it was.
LEMMA SumMove ==
  ASSUME NEW f, NEW g, NEW S, IsFiniteSet(S),
         NEW j \in S, NEW k \in S, j # k, NEW d \in Int,
         \A x \in S : f[x] \in Int,
         g[j] = f[j] + d, g[k] = f[k] - d,
         \A x \in S \ {j, k} : g[x] = f[x]
  PROVE  SumFunctionOnSet(g, S) = SumFunctionOnSet(f, S)
<1>. DEFINE R == (S \ {j}) \ {k}
<1>1. \A x \in S : g[x] \in Int
  <2>. SUFFICES ASSUME NEW x \in S PROVE g[x] \in Int
    OBVIOUS
  <2>. QED
    BY DEF R
<1>2. IsFiniteSet(S \ {j}) /\ IsFiniteSet(R)
  BY FS_Subset
<1>3. /\ SumFunctionOnSet(f, S) = f[j] + SumFunctionOnSet(f, S \ {j})
      /\ SumFunctionOnSet(f, S \ {j}) = f[k] + SumFunctionOnSet(f, R)
  BY <1>2, SumRemove
<1>4. /\ SumFunctionOnSet(g, S) = g[j] + SumFunctionOnSet(g, S \ {j})
      /\ SumFunctionOnSet(g, S \ {j}) = g[k] + SumFunctionOnSet(g, R)
  BY <1>1, <1>2, SumRemove
<1>5. SumFunctionOnSet(f, R) = SumFunctionOnSet(g, R)
  BY <1>2, SumSame
<1>6. SumFunctionOnSet(f, R) \in Int
  BY <1>2, SumInt
<1>. HIDE DEF R
<1>. QED
  BY <1>3, <1>4, <1>5, <1>6

\* The arithmetic of one more share.
LEMMA SharesStep ==
  ASSUME NEW base \in Int, NEW n \in Nat, NEW more \in Int, NEW extra \in Int,
         NEW sum, sum = base * (n - 1) + (more - extra)
  PROVE  (base + extra) + sum = base * n + more
<1>1. base * (n - 1) = base * n - base /\ base * n \in Int
  OBVIOUS
<1>. QED
  BY <1>1

\* f gives each member of S the same share, and those of More one more.
Shares(f, S, base, More) ==
  \A x \in S : f[x] = base + (IF x \in More THEN 1 ELSE 0)

\* The sum of such shares.
LEMMA SumShares ==
  ASSUME NEW f, NEW S, IsFiniteSet(S), NEW base \in Int, NEW More,
         Shares(f, S, base, More)
  PROVE  SumFunctionOnSet(f, S)
           = base * Cardinality(S) + Cardinality(S \cap More)
<1>. USE DEF Shares
<1>. DEFINE Good == {T \in SUBSET S : SumFunctionOnSet(f, T)
                       = base * Cardinality(T) + Cardinality(T \cap More)}
<1>1. ASSUME NEW T \in SUBSET S, \A x \in T : T \ {x} \in Good
      PROVE  T \in Good
  <2>1. IsFiniteSet(T) /\ IsFiniteSet(T \cap More)
    BY FS_Subset
  <2>2. CASE T = {}
    <3>1. Cardinality(T) = 0 /\ Cardinality(T \cap More) = 0
      BY <2>2, FS_EmptySet
    <3>. QED
      BY <2>2, <3>1, SumEmpty
  <2>3. CASE T # {}
    <3>1. PICK x \in T : TRUE
      BY <2>3
    <3>2. SumFunctionOnSet(f, T) = f[x] + SumFunctionOnSet(f, T \ {x})
      BY <2>1, SumRemove
    <3>3. /\ Cardinality(T \ {x}) = Cardinality(T) - 1
          /\ Cardinality(T) \in Nat /\ Cardinality(T \cap More) \in Nat
      BY <2>1, FS_RemoveElement, FS_CardinalityType
    <3>. DEFINE extra == IF x \in More THEN 1 ELSE 0
    <3>4. extra \in Int /\ f[x] = base + extra
      OBVIOUS
    <3>5. Cardinality((T \ {x}) \cap More) = Cardinality(T \cap More) - extra
      <4>1. CASE x \in More
        <5>1. (T \ {x}) \cap More = (T \cap More) \ {x} /\ x \in T \cap More
          BY <4>1
        <5>2. Cardinality((T \cap More) \ {x}) = Cardinality(T \cap More) - 1
          BY <2>1, <5>1, FS_RemoveElement
        <5>. QED
          BY <4>1, <5>1, <5>2
      <4>2. CASE x \notin More
        <5>1. (T \ {x}) \cap More = T \cap More
          BY <4>2
        <5>2. extra = 0
          BY <4>2
        <5>. HIDE DEF extra
        <5>. QED
          BY <3>3, <5>1, <5>2
      <4>. QED
        BY <4>1, <4>2
    <3>. HIDE DEF extra
    <3>6. SumFunctionOnSet(f, T \ {x})
            = base * (Cardinality(T) - 1) + (Cardinality(T \cap More) - extra)
      BY <1>1, <3>3, <3>5
    <3>7. (base + extra) + SumFunctionOnSet(f, T \ {x})
            = base * Cardinality(T) + Cardinality(T \cap More)
      BY <3>3, <3>4, <3>6, SharesStep
    <3>. QED
      BY <3>2, <3>4, <3>7
  <2>. QED
    BY <2>2, <2>3
<1>2. S \in Good
  <2>. HIDE DEF Good
  <2>. QED
    BY <1>1, SubsetInduction
<1>. QED
  BY <1>2

-------------------------------------------------------------------------------
(* Maps, indexes and partners. *)

\* The index a new window or pane gets is above every index in use, and below
\* the id it gets if every index is below its own id.
LEMMA NextIndexFresh ==
  ASSUME NEW map, NEW bound \in Nat \ {0}, DOMAIN map \subseteq 1 .. bound - 1,
         \A k \in DOMAIN map : map[k].index \in Nat /\ map[k].index < k
  PROVE  /\ NextIndex(map) \in Nat
         /\ NextIndex(map) < bound
         /\ \A k \in DOMAIN map : map[k].index < NextIndex(map)
<1>. DEFINE Used == {map[k].index : k \in DOMAIN map}
<1>1. CASE DOMAIN map = {}
  BY <1>1 DEF NextIndex
<1>2. CASE DOMAIN map # {}
  <2>1. Used \in SUBSET Nat /\ Used # {} /\ \A x \in Used : x <= bound
    BY <1>2
  <2>2. Max(Used) \in Used /\ \A x \in Used : x <= Max(Used)
    BY <2>1, MaxNat
  <2>3. NextIndex(map) = Max(Used) + 1
    BY <1>2 DEF NextIndex
  <2>. HIDE DEF Used
  <2>4. PICK k \in DOMAIN map : Max(Used) = map[k].index
    BY <2>2 DEF Used
  <2>5. \A j \in DOMAIN map : map[j].index \in Used
    BY DEF Used
  <2>. QED
    BY <2>2, <2>3, <2>4, <2>5
<1>. QED
  BY <1>1, <1>2

\* An active pointer repaired with the first key is live.
LEMMA FirstKeyLive ==
  ASSUME NEW map, DOMAIN map \subseteq Nat, DOMAIN map # {}
  PROVE  FirstKey(map) \in DOMAIN map
BY MinNat DEF FirstKey

\* A set of panes with distinct indexes has a first and a last one.
LEMMA FirstOfSome ==
  ASSUME NEW panes, NEW S, S \subseteq DOMAIN panes, S # {},
         \A k \in S : panes[k].index \in Nat,
         \A j, k \in S : j # k => panes[j].index # panes[k].index
  PROVE  /\ FirstOf(panes, S) \in S
         /\ \A i \in S \ {FirstOf(panes, S)} : Before(panes, FirstOf(panes, S), i)
<1>. DEFINE Used == {panes[k].index : k \in S}
<1>1. Used \in SUBSET Nat /\ Used # {}
  OBVIOUS
<1>2. PICK least \in Used : \A x \in Used : least <= x
  <2>. HIDE DEF Used
  <2>. QED  BY <1>1, LeastNat
<1>3. PICK j \in S : least = panes[j].index
  OBVIOUS
<1>4. ASSUME NEW i \in S \ {j} PROVE Before(panes, j, i)
  <2>1. panes[i].index \in Used
    OBVIOUS
  <2>2. panes[j].index <= panes[i].index
    BY <1>2, <1>3, <2>1
  <2>. QED
    BY <2>2 DEF Before
<1>. QED
  BY <1>4 DEF FirstOf

\* Among panes of distinct indexes one comes last.
LEMMA LastOfSome ==
  ASSUME NEW panes, NEW S, S \subseteq DOMAIN panes, S # {},
         NEW bound \in Nat,
         \A k \in S : panes[k].index \in Nat /\ panes[k].index <= bound,
         \A j, k \in S : j # k => panes[j].index # panes[k].index
  PROVE  /\ LastOf(panes, S) \in S
         /\ \A i \in S \ {LastOf(panes, S)} : Before(panes, i, LastOf(panes, S))
<1>. DEFINE Used == {panes[k].index : k \in S}
<1>1. Used \in SUBSET Nat /\ Used # {} /\ \A x \in Used : x <= bound
  OBVIOUS
<1>2. PICK greatest \in Used : \A x \in Used : x <= greatest
  <2>. HIDE DEF Used
  <2>. QED  BY <1>1, GreatestNat
<1>3. PICK j \in S : greatest = panes[j].index
  OBVIOUS
<1>4. ASSUME NEW i \in S \ {j} PROVE Before(panes, i, j)
  <2>1. panes[i].index \in Used
    OBVIOUS
  <2>2. panes[i].index <= panes[j].index
    BY <1>2, <1>3, <2>1
  <2>. QED
    BY <2>2 DEF Before
<1>. QED
  BY <1>4 DEF LastOf

\* In a window of two panes or more, every pane has a partner to resize with.
LEMMA PartnerIsPane ==
  ASSUME NEW panes, DOMAIN panes \subseteq Nat,
         NEW k \in DOMAIN panes, DOMAIN panes # {k},
         NEW bound \in Nat,
         \A j \in DOMAIN panes :
           panes[j].index \in Nat /\ panes[j].index <= bound,
         \A i, j \in DOMAIN panes : i # j => panes[i].index # panes[j].index
  PROVE  Partner(panes, k) \in DOMAIN panes \ {k}
<1>. DEFINE later == {j \in DOMAIN panes : Before(panes, k, j)}
<1>1. CASE later # {}
  <2>1. k \notin later
    BY DEF Before
  <2>2. FirstOf(panes, later) \in later
    BY <1>1, FirstOfSome
  <2>. QED
    BY <1>1, <2>1, <2>2 DEF Partner
<1>2. CASE later = {}
  <2>1. LastOf(panes, DOMAIN panes \ {k}) \in DOMAIN panes \ {k}
    BY LastOfSome
  <2>. QED
    BY <1>2, <2>1 DEF Partner
<1>. QED
  BY <1>1, <1>2

-------------------------------------------------------------------------------
(* The sizes of the panes. *)

\* Positions number the panes: no two have the same, all are below the count.
LEMMA PositionNumbers ==
  ASSUME NEW panes, IsFiniteSet(DOMAIN panes), DOMAIN panes \subseteq Nat,
         \A k \in DOMAIN panes : panes[k].index \in Nat,
         \A j, k \in DOMAIN panes : j # k => panes[j].index # panes[k].index
  PROVE  /\ \A k \in DOMAIN panes :
              Position(panes, k) \in 0 .. Cardinality(DOMAIN panes) - 1
         /\ \A j, k \in DOMAIN panes :
              panes[j].index < panes[k].index
                => Position(panes, j) < Position(panes, k)
         /\ \A j, k \in DOMAIN panes :
              Position(panes, j) = Position(panes, k) => j = k
<1>. DEFINE D == DOMAIN panes
            ahead(k) == {j \in D : Before(panes, j, k)}
<1>1. ASSUME NEW k \in D
      PROVE  /\ ahead(k) \in SUBSET D /\ k \notin ahead(k)
             /\ ahead(k) = {j \in D : panes[j].index < panes[k].index}
  BY DEF Before
<1>2. ASSUME NEW k \in D
      PROVE  /\ IsFiniteSet(ahead(k))
             /\ Position(panes, k) = Cardinality(ahead(k))
             /\ Position(panes, k) \in 0 .. Cardinality(D) - 1
  <2>1. IsFiniteSet(ahead(k)) /\ Cardinality(ahead(k)) <= Cardinality(D)
        /\ Cardinality(ahead(k)) # Cardinality(D)
    BY <1>1, FS_Subset
  <2>2. Position(panes, k) = Cardinality(ahead(k))
    BY DEF Position
  <2>3. Cardinality(ahead(k)) \in Nat /\ Cardinality(D) \in Nat
    BY <2>1, FS_CardinalityType
  <2>. HIDE DEF D, ahead
  <2>. QED
    BY <2>1, <2>2, <2>3
<1>3. ASSUME NEW j \in D, NEW k \in D, panes[j].index < panes[k].index
      PROVE  Position(panes, j) < Position(panes, k)
  <2>1. j \in ahead(k) /\ j \notin ahead(j) /\ ahead(j) \in SUBSET ahead(k)
    BY <1>1, <1>3
  <2>2. /\ Cardinality(ahead(j)) <= Cardinality(ahead(k))
        /\ Cardinality(ahead(j)) # Cardinality(ahead(k))
    BY <1>2, <2>1, FS_Subset
  <2>. HIDE DEF D, ahead
  <2>. QED
    BY <1>2, <2>2
<1>4. ASSUME NEW j \in D, NEW k \in D, Position(panes, j) = Position(panes, k)
      PROVE  j = k
  <2>1. Position(panes, j) \in Int /\ Position(panes, k) \in Int
    <3>. HIDE DEF ahead
    <3>. QED
      BY <1>2
  <2>2. /\ ~(panes[j].index < panes[k].index)
        /\ ~(panes[k].index < panes[j].index)
    <3>. HIDE DEF ahead
    <3>. QED
      BY <1>3, <1>4, <2>1
  <2>. QED
    BY <2>2
<1>. QED
  BY <1>2, <1>3, <1>4

\* The partner of a pane is next to it.
LEMMA PartnerAdjacent ==
  ASSUME NEW panes, IsFiniteSet(DOMAIN panes), DOMAIN panes \subseteq Nat,
         NEW k \in DOMAIN panes, DOMAIN panes # {k},
         NEW bound \in Nat,
         \A j \in DOMAIN panes :
           panes[j].index \in Nat /\ panes[j].index <= bound,
         \A i, j \in DOMAIN panes : i # j => panes[i].index # panes[j].index
  PROVE  Position(panes, Partner(panes, k)) - Position(panes, k) \in {-1, 1}
<1>. DEFINE D == DOMAIN panes
            ahead(i) == {j \in D : Before(panes, j, i)}
            later == {j \in D : Before(panes, k, j)}
            n == Partner(panes, k)
<1>1. n \in D \ {k}
  BY PartnerIsPane
<1>2. \A i, j \in D : Before(panes, i, j) <=> panes[i].index < panes[j].index
  BY DEF Before
<1>3. \A i \in D : /\ IsFiniteSet(ahead(i)) /\ i \notin ahead(i)
                   /\ Position(panes, i) = Cardinality(ahead(i))
                   /\ Cardinality(ahead(i)) \in Nat
  BY <1>2, FS_Subset, FS_CardinalityType DEF Position
<1>4. CASE later # {}
  <2>1. n \in later /\ \A i \in later \ {n} : Before(panes, n, i)
    BY <1>4, FirstOfSome DEF Partner
  <2>2. \A i \in D : Before(panes, i, n) <=> i = k \/ Before(panes, i, k)
    BY <1>1, <1>2, <2>1
  <2>3. ahead(n) = ahead(k) \cup {k}
    BY <2>2
  <2>4. Cardinality(ahead(n)) = Cardinality(ahead(k)) + 1
    BY <1>3, <2>3, FS_AddElement
  <2>. HIDE DEF ahead, n
  <2>. QED
    BY <1>1, <1>3, <2>4 DEF n
<1>5. CASE later = {}
  <2>1. n = LastOf(panes, D \ {k})
    BY <1>5 DEF Partner
  <2>2. \A i \in (D \ {k}) \ {n} : Before(panes, i, n)
    BY <1>1, <2>1, LastOfSome
  <2>3. \A i \in D : Before(panes, i, k) <=> i = n \/ Before(panes, i, n)
    BY <1>1, <1>2, <1>5, <2>2
  <2>4. ahead(k) = ahead(n) \cup {n}
    BY <1>1, <2>3
  <2>5. Cardinality(ahead(k)) = Cardinality(ahead(n)) + 1
    BY <1>1, <1>3, <2>4, FS_AddElement
  <2>. HIDE DEF ahead, n
  <2>. QED
    BY <1>1, <1>3, <2>5 DEF n
<1>. QED
  BY <1>4, <1>5

\* So of count panes exactly m have one of the first m positions.
LEMMA FirstPositions ==
  ASSUME NEW panes, IsFiniteSet(DOMAIN panes), DOMAIN panes \subseteq Nat,
         \A k \in DOMAIN panes : panes[k].index \in Nat,
         \A j, k \in DOMAIN panes : j # k => panes[j].index # panes[k].index,
         NEW m \in Nat, m <= Cardinality(DOMAIN panes)
  PROVE  Cardinality({k \in DOMAIN panes : Position(panes, k) < m}) = m
<1>. DEFINE D == DOMAIN panes
            n == Cardinality(D)
            First == {k \in D : Position(panes, k) < m}
            Rest == D \ First
<1>1. /\ \A k \in D : Position(panes, k) \in 0 .. n - 1
      /\ \A j, k \in D : Position(panes, j) = Position(panes, k) => j = k
  BY PositionNumbers
<1>2. n \in Nat /\ IsFiniteSet(First) /\ IsFiniteSet(Rest)
  BY FS_Subset, FS_CardinalityType
<1>3. Cardinality(First) <= m
  <2>. DEFINE f == [k \in First |-> Position(panes, k)]
  <2>1. f \in [First -> 0 .. m - 1] /\ \A a, b \in First : f[a] = f[b] => a = b
    BY <1>1
  <2>2. f \in Injection(First, 0 .. m - 1)
    BY <2>1 DEF Injection, IsInjective
  <2>3. IsFiniteSet(0 .. m - 1) /\ Cardinality(0 .. m - 1) = m
    BY FS_Interval
  <2>. QED
    BY <2>2, <2>3, FS_Injection
<1>4. Cardinality(Rest) <= n - m
  <2>. DEFINE f == [k \in Rest |-> Position(panes, k)]
  <2>1. f \in [Rest -> m .. n - 1] /\ \A a, b \in Rest : f[a] = f[b] => a = b
    BY <1>1
  <2>2. f \in Injection(Rest, m .. n - 1)
    BY <2>1 DEF Injection, IsInjective
  <2>3. IsFiniteSet(m .. n - 1) /\ Cardinality(m .. n - 1) = n - m
    <3>1. n - 1 \in Int /\ m \in Int /\ m <= n
      BY <1>2
    <3>2. /\ IsFiniteSet(m .. n - 1)
          /\ Cardinality(m .. n - 1) = IF m > n - 1 THEN 0 ELSE (n - 1) - m + 1
      <4>. HIDE DEF n
      <4>. QED
        BY <3>1, FS_Interval
    <3>. HIDE DEF n
    <3>. QED
      BY <1>2, <3>1, <3>2
  <2>. QED
    BY <2>2, <2>3, FS_Injection
<1>5. Cardinality(First) + Cardinality(Rest) = n
  <2>1. First = D \cap First /\ D \ First = Rest
    OBVIOUS
  <2>2. Cardinality(Rest) = n - Cardinality(First)
    BY <2>1, FS_Difference
  <2>. QED
    BY <1>2, <2>2, FS_CardinalityType
<1>6. Cardinality(First) \in Nat /\ Cardinality(Rest) \in Nat
  BY <1>2, FS_CardinalityType
<1>. HIDE DEF n, First, Rest
<1>7. Cardinality(First) = m
  BY <1>2, <1>3, <1>4, <1>5, <1>6
<1>. QED
  BY <1>7 DEF First

\* Equal shares of the hundred percent, and one more for as many as the
\* division leaves over.
LEMMA SharesFill ==
  ASSUME NEW f, NEW S, IsFiniteSet(S), S # {}, NEW More,
         Cardinality(S \cap More) = Full % Cardinality(S),
         Shares(f, S, Full \div Cardinality(S), More)
  PROVE  SumFunctionOnSet(f, S) = Full
<1>. DEFINE count == Cardinality(S)
            base == Full \div count
<1>1. count \in Nat \ {0}
  BY FS_CardinalityType, FS_EmptySet
<1>2. base \in Int /\ Full = base * count + (Full % count)
  <2>. HIDE DEF count
  <2>. QED
    BY <1>1 DEF Full
<1>3. Shares(f, S, base, More)
  OBVIOUS
<1>. HIDE DEF base
<1>4. SumFunctionOnSet(f, S) = base * Cardinality(S) + Cardinality(S \cap More)
  BY <1>2, <1>3, SumShares
<1>. QED
  BY <1>2, <1>4

\* The shares Rebalance hands out, whatever the rounding, fill the window.
LEMMA RebalanceFills ==
  ASSUME NEW w, IsFiniteSet(DOMAIN w.panes), DOMAIN w.panes # {},
         DOMAIN w.panes \subseteq Nat, "panes" \in DOMAIN w,
         \A k \in DOMAIN w.panes : "size" \in DOMAIN w.panes[k],
         \A k \in DOMAIN w.panes : w.panes[k].index \in Nat,
         \A j, k \in DOMAIN w.panes :
           j # k => w.panes[j].index # w.panes[k].index
  PROVE  FillsWindow(Rebalance(w).panes)
<1>. DEFINE D == DOMAIN w.panes
            count == Cardinality(D)
            More == {k \in D : Position(w.panes, k) < Full % count}
            sizes == PaneSizes(Rebalance(w).panes)
<1>1. count \in Nat \ {0}
  BY FS_CardinalityType, FS_EmptySet
<1>2. Full % count \in Nat /\ Full % count <= count
  <2>. HIDE DEF count
  <2>. QED
    BY <1>1 DEF Full
<1>3. Cardinality(D \cap More) = Full % count
  <2>1. Cardinality(More) = Full % count
    BY <1>2, FirstPositions
  <2>2. D \cap More = More
    OBVIOUS
  <2>. QED
    BY <2>1, <2>2
<1>4. /\ DOMAIN sizes = D
      /\ Shares(sizes, D, Full \div count, More)
  BY DEF Rebalance, PaneSizes, Shares
<1>5. IsFiniteSet(D) /\ D # {}
  OBVIOUS
<1>6. SumFunctionOnSet(sizes, D) = Full
  <2>. HIDE DEF sizes, More, D
  <2>. QED
    BY <1>3, <1>4, <1>5, SharesFill
<1>. QED
  BY <1>4, <1>6 DEF FillsWindow, SumFunction

\* No pane of a window that is filled is larger than the window.
LEMMA PaneFits ==
  ASSUME NEW panes, IsFiniteSet(DOMAIN panes), FillsWindow(panes),
         \A k \in DOMAIN panes : panes[k].size \in Nat
  PROVE  \A k \in DOMAIN panes : panes[k].size <= Full
<1>. DEFINE sizes == PaneSizes(panes)
<1>1. DOMAIN sizes = DOMAIN panes
      /\ \A k \in DOMAIN panes : sizes[k] = panes[k].size /\ sizes[k] \in Nat
  BY DEF PaneSizes
<1>2. SumFunctionOnSet(sizes, DOMAIN panes) = Full
  BY <1>1 DEF FillsWindow, SumFunction
<1>. HIDE DEF sizes
<1>. QED
  BY <1>1, <1>2, SumNat

\* What the clamp leaves of a delta: neither pane gets a negative size, and the
\* one that shrinks keeps the minimum.
LEMMA ClampedFits ==
  ASSUME NEW panes, NEW k, NEW delta \in Int,
         panes[k].size \in Nat, panes[Partner(panes, k)].size \in Nat
  PROVE  LET d == Clamped(panes, k, delta)
             grown == panes[k].size + d
             paid == panes[Partner(panes, k)].size - d
         IN  /\ d \in Int /\ grown \in Nat /\ paid \in Nat
             /\ d > 0 => paid >= MinPaneSize
             /\ d < 0 => grown >= MinPaneSize
<1>. DEFINE d == Clamped(panes, k, delta)
            a == panes[k].size
            b == panes[Partner(panes, k)].size
            ra == Room(panes[k])
            rb == Room(panes[Partner(panes, k)])
<1>1. /\ ra = IF a - MinPaneSize >= 0 THEN a - MinPaneSize ELSE 0
      /\ rb = IF b - MinPaneSize >= 0 THEN b - MinPaneSize ELSE 0
  <2>1. a \in Int /\ b \in Int
    OBVIOUS
  <2>2. ra = Max({a - MinPaneSize, 0}) /\ rb = Max({b - MinPaneSize, 0})
    BY DEF Room
  <2>. HIDE DEF a, b, ra, rb
  <2>3. a - MinPaneSize \in Int /\ b - MinPaneSize \in Int /\ 0 \in Int
    BY <2>1 DEF MinPaneSize
  <2>. QED
    BY <2>2, <2>3, MaxPair
<1>2. d = IF delta > 0 THEN Min({delta, rb}) ELSE Max({delta, -ra})
  BY DEF Clamped
<1>3. a \in Nat /\ b \in Nat
  OBVIOUS
<1>. HIDE DEF a, b, ra, rb, d
<1>4. ra \in Nat /\ rb \in Nat /\ -ra \in Int
  BY <1>1, <1>3 DEF MinPaneSize
<1>5. CASE delta > 0
  <2>1. d = IF delta <= rb THEN delta ELSE rb
    BY <1>2, <1>4, <1>5, MinPair
  <2>2. /\ d \in Int /\ a + d \in Nat /\ b - d \in Nat
        /\ d > 0 => b - d >= MinPaneSize
        /\ d < 0 => a + d >= MinPaneSize
    BY <1>1, <1>3, <1>4, <1>5, <2>1 DEF MinPaneSize
  <2>. QED
    BY <2>2 DEF a, b, d
<1>6. CASE ~(delta > 0)
  <2>1. d = IF delta >= -ra THEN delta ELSE -ra
    BY <1>2, <1>4, <1>6, MaxPair
  <2>2. /\ d \in Int /\ a + d \in Nat /\ b - d \in Nat
        /\ d > 0 => b - d >= MinPaneSize
        /\ d < 0 => a + d >= MinPaneSize
    BY <1>1, <1>3, <1>4, <1>6, <2>1 DEF MinPaneSize
  <2>. QED
    BY <2>2 DEF a, b, d
<1>. QED
  BY <1>5, <1>6

\* Panes that keep their sizes keep the window filled.
LEMMA SameSizesFill ==
  ASSUME NEW old, NEW new, DOMAIN new = DOMAIN old,
         \A k \in DOMAIN old : new[k].size = old[k].size
  PROVE  FillsWindow(new) <=> FillsWindow(old)
<1>1. PaneSizes(new) = PaneSizes(old)
  BY DEF PaneSizes
<1>. QED
  BY <1>1 DEF FillsWindow

\* What a resize gives to one pane it takes from another.
LEMMA ResizeFills ==
  ASSUME NEW old, NEW new, IsFiniteSet(DOMAIN old), DOMAIN new = DOMAIN old,
         \A k \in DOMAIN old : old[k].size \in Int,
         NEW j \in DOMAIN old, NEW k \in DOMAIN old, j # k, NEW d \in Int,
         new[j].size = old[j].size + d, new[k].size = old[k].size - d,
         \A x \in DOMAIN old \ {j, k} : new[x].size = old[x].size
  PROVE  FillsWindow(new) <=> FillsWindow(old)
<1>. DEFINE f == PaneSizes(old)
            g == PaneSizes(new)
            D == DOMAIN old
<1>1. /\ DOMAIN f = D /\ DOMAIN g = D
      /\ \A x \in D : f[x] = old[x].size /\ g[x] = new[x].size
  BY DEF PaneSizes
<1>2. SumFunctionOnSet(g, D) = SumFunctionOnSet(f, D)
  <2>. HIDE DEF f, g
  <2>. QED
    BY <1>1, SumMove
<1>. QED
  BY <1>1, <1>2 DEF FillsWindow, SumFunction
===============================================================================
