-------------------------------- MODULE SumProofs -------------------------------
(***************************************************************************)
(* Induction over finite sets and over numbers, and what MapThenSumSet of  *)
(* the community modules computes.  The induction theorems of the library  *)
(* are about operators; these are about sets of what has the property.     *)
(***************************************************************************)
EXTENDS Integers, FiniteSets, FiniteSetsExt, FiniteSetTheorems, WellFoundedInduction, TLAPS

\* A set with a property that every finite set has if its strict subsets have it.
LEMMA SubsetInduction ==
    ASSUME NEW S, IsFiniteSet(S), NEW G,
           \A A \in SUBSET S : (\A B \in SUBSET A : B # A => B \in G) => A \in G
    PROVE  \A A \in SUBSET S : A \in G
<1> DEFINE Bad == (SUBSET S) \ G
           R == StrictSubsetOrdering(S)
<1>1. IsWellFoundedOn(R, SUBSET S)
  BY FS_StrictSubsetOrderingWellFounded, FS_FiniteSubsetsOfFinite
<1>2. ASSUME Bad # {} PROVE FALSE
  <2>1. PICK A \in Bad : \A B \in Bad : ~ (<<B, A>> \in R)
    <3>1. Bad \subseteq SUBSET S
      OBVIOUS
    <3> HIDE DEF Bad, R
    <3> QED
      BY <1>1, <1>2, <3>1, WFMin
  <2>2. ASSUME NEW B \in SUBSET A, B # A PROVE B \in G
    <3>1. <<B, A>> \in R
      BY <2>1, <2>2 DEF StrictSubsetOrdering
    <3> QED
      BY <2>1, <2>2, <3>1
  <2> QED
    BY <2>1, <2>2
<1> QED
  BY <1>2

\* A finite set with a property that the empty set has, and that one more element keeps.
LEMMA FiniteInduction ==
    ASSUME NEW S, IsFiniteSet(S), NEW G, {} \in G,
           \A A \in SUBSET S : \A x \in S \ A : A \in G => A \cup {x} \in G
    PROVE  S \in G
<1>1. ASSUME NEW A \in SUBSET S, \A B \in SUBSET A : B # A => B \in G
      PROVE  A \in G
  <2>1. CASE A = {}
    BY <2>1
  <2>2. CASE A # {}
    <3>1. PICK x \in A : TRUE
      BY <2>2
    <3>2. A \ {x} \in G /\ A = (A \ {x}) \cup {x}
      BY <1>1, <3>1
    <3> QED
      BY <3>1, <3>2
  <2> QED
    BY <2>1, <2>2
<1> QED
  BY <1>1, SubsetInduction

\* A set of numbers that holds 0 and, with a number, the next one.
LEMMA NumberInduction ==
    ASSUME NEW G, 0 \in G, \A n \in Nat : n \in G => n + 1 \in G
    PROVE  \A n \in Nat : n \in G
<1> DEFINE Less == {p \in Nat \X Nat : p[1] < p[2]}
           Bad == Nat \ G
<1>1. IsWellFoundedOn(Less, Nat)
  BY NatLessThanWellFounded, Zenon DEF OpToRel
<1>2. ASSUME Bad # {} PROVE FALSE
  <2>1. PICK n \in Bad : \A m \in Bad : ~ (<<m, n>> \in Less)
    <3>1. Bad \subseteq Nat
      OBVIOUS
    <3> HIDE DEF Less, Bad
    <3> QED
      BY <1>1, <1>2, <3>1, WFMin
  <2>2. n \in Nat /\ n # 0 /\ n - 1 \in Nat /\ n - 1 < n /\ (n - 1) + 1 = n
    BY <2>1
  <2>3. <<n - 1, n>> \in Less
    BY <2>2
  <2>4. n - 1 \in G
    BY <2>1, <2>2, <2>3
  <2> QED
    BY <2>1, <2>2, <2>4
<1> QED
  BY <1>2

--------------------------------------------------------------------------------
(***************************************************************************)
(* The sum of a function over a set.                                       *)
(***************************************************************************)
SumOn(f, S) == MapThenSumSet(LAMBDA i : f[i], S)

\* the recursive function that MapThenSumSet evaluates
Term(h, f, s) == IF s = {} THEN 0
                 ELSE f[CHOOSE x \in s : TRUE] + h[s \ {CHOOSE x \in s : TRUE}]
IsSum(h, f, S) == h = [s \in SUBSET S |-> Term(h, f, s)]

\* MapThenSumSet takes a function that satisfies IsSum.
LEMMA SumIsChosen == \A f, S : SumOn(f, S) = (CHOOSE h : IsSum(h, f, S))[S]
  BY Zenon DEF SumOn, MapThenSumSet, MapThenFoldSet, IsSum, Term

\* Two such functions agree where both are defined.
LEMMA SumsAgree ==
    ASSUME NEW f, NEW S, NEW T, NEW h, NEW k, IsSum(h, f, S), IsSum(k, f, T),
           NEW A, IsFiniteSet(A), A \in SUBSET S, A \in SUBSET T
    PROVE  h[A] = k[A]
<1> DEFINE G == {s \in SUBSET A : h[s] = k[s]}
<1>1. ASSUME NEW B \in SUBSET A, \A C \in SUBSET B : C # B => C \in G
      PROVE  B \in G
  <2>1. B \in SUBSET S /\ B \in SUBSET T
    OBVIOUS
  <2>2. CASE B = {}
    BY <2>1, <2>2 DEF IsSum, Term
  <2>3. CASE B # {}
    <3> DEFINE c == CHOOSE x \in B : TRUE
    <3>1. c \in B
      BY <2>3
    <3>2. h[B \ {c}] = k[B \ {c}]
      BY <1>1, <3>1
    <3>3. h[B] = f[c] + h[B \ {c}] /\ k[B] = f[c] + k[B \ {c}]
      BY <2>1, <2>3 DEF IsSum, Term
    <3> QED
      BY <3>2, <3>3
  <2> QED
    BY <2>2, <2>3
<1> HIDE DEF G
<1>2. A \in G
  BY <1>1, SubsetInduction
<1> QED
  BY <1>2 DEF G

\* There is one: from the function on a set to that on the set with one more element.
LEMMA SumExists ==
    ASSUME NEW f, NEW S, IsFiniteSet(S)
    PROVE  \E h : IsSum(h, f, S)
<1> DEFINE Upto(n) == {s \in SUBSET S : Cardinality(s) <= n}
           G == {n \in Nat : \E h : \A s \in Upto(n) : h[s] = Term(h, f, s)}
<1>0. \A s \in SUBSET S : IsFiniteSet(s) /\ Cardinality(s) \in Nat
  BY FS_Subset, FS_CardinalityType
<1>1. 0 \in G
  <2>1. ASSUME NEW s \in Upto(0) PROVE s = {}
    <3>1. IsFiniteSet(s) /\ Cardinality(s) = 0
      BY <1>0
    <3> QED
      BY <3>1, FS_EmptySet
  <2> DEFINE h == [s \in SUBSET S |-> 0]
  <2>2. \A s \in Upto(0) : h[s] = Term(h, f, s)
    BY <2>1 DEF Term
  <2> QED
    BY <2>2
<1>2. ASSUME NEW n \in Nat, n \in G PROVE n + 1 \in G
  <2>1. PICK h : \A s \in Upto(n) : h[s] = Term(h, f, s)
    BY <1>2
  <2> DEFINE k == [s \in SUBSET S |-> IF s \in Upto(n) THEN h[s] ELSE Term(h, f, s)]
  <2>2. ASSUME NEW s \in Upto(n + 1) PROVE Term(k, f, s) = Term(h, f, s)
    <3>1. CASE s = {}
      BY <3>1 DEF Term
    <3>2. CASE s # {}
      <4> DEFINE c == CHOOSE x \in s : TRUE
      <4>1. c \in s
        BY <3>2
      <4>2. s \ {c} \in SUBSET S /\ Cardinality(s \ {c}) = Cardinality(s) - 1
        BY <1>0, <4>1, FS_RemoveElement
      <4>3. s \ {c} \in Upto(n)
        BY <1>0, <4>2
      <4>4. k[s \ {c}] = h[s \ {c}]
        BY <4>3
      <4> HIDE DEF k
      <4> QED
        BY <3>2, <4>4 DEF Term
    <3> QED
      BY <3>1, <3>2
  <2>3. ASSUME NEW s \in Upto(n + 1) PROVE k[s] = Term(k, f, s)
    <3>1. k[s] = Term(h, f, s)
      BY <2>1
    <3> QED
      BY <2>2, <3>1
  <2> HIDE DEF k
  <2> QED
    BY <2>3
<1> HIDE DEF G
<1>3. Cardinality(S) \in G
  BY <1>0, <1>1, <1>2, NumberInduction
<1>4. PICK h : \A s \in Upto(Cardinality(S)) : h[s] = Term(h, f, s)
  BY <1>3 DEF G
<1>5. \A s \in SUBSET S : s \in Upto(Cardinality(S))
  BY FS_Subset
<1> DEFINE k == [s \in SUBSET S |-> h[s]]
<1>6. ASSUME NEW s \in SUBSET S PROVE k[s] = Term(k, f, s)
  BY <1>4, <1>5 DEF Term
<1>7. k = [s \in SUBSET S |-> Term(k, f, s)]
  BY <1>6
<1> HIDE DEF k
<1> QED
  BY <1>7 DEF IsSum

\* A sum is the value at the whole set of such a function.
LEMMA SumIsSum ==
    ASSUME NEW f, NEW S, IsFiniteSet(S)
    PROVE  \E h : IsSum(h, f, S) /\ SumOn(f, S) = h[S]
<1>1. IsSum(CHOOSE h : IsSum(h, f, S), f, S)
  BY SumExists
<1> QED
  BY <1>1, SumIsChosen

\* The sum over no element is 0.
LEMMA SumOfNothing == ASSUME NEW f PROVE SumOn(f, {}) = 0
<1>1. PICK h : IsSum(h, f, {}) /\ SumOn(f, {}) = h[{}]
  BY FS_EmptySet, SumIsSum
<1> QED
  BY <1>1 DEF IsSum, Term

\* One term may be taken out of a sum, whatever the terms are.
LEMMA SumStep ==
    ASSUME NEW f, NEW S, IsFiniteSet(S), S # {}
    PROVE  \E c \in S : SumOn(f, S) = f[c] + SumOn(f, S \ {c})
<1> DEFINE c == CHOOSE x \in S : TRUE
<1>1. c \in S /\ IsFiniteSet(S \ {c})
  BY FS_RemoveElement
<1>2. PICK h : IsSum(h, f, S) /\ SumOn(f, S) = h[S]
  BY SumIsSum
<1>3. PICK k : IsSum(k, f, S \ {c}) /\ SumOn(f, S \ {c}) = k[S \ {c}]
  BY <1>1, SumIsSum
<1>4. h[S \ {c}] = k[S \ {c}]
  BY <1>1, <1>2, <1>3, SumsAgree
<1>5. h[S] = f[c] + h[S \ {c}]
  BY <1>2 DEF IsSum, Term
<1> HIDE DEF c
<1> QED
  BY <1>1, <1>2, <1>3, <1>4, <1>5

\* A sum is a number, and any of its terms may be taken out of it.
LEMMA SumTerm ==
    ASSUME NEW f, NEW S, IsFiniteSet(S), \A x \in S : f[x] \in Int
    PROVE  /\ SumOn(f, S) \in Int
           /\ \A x \in S : SumOn(f, S) = f[x] + SumOn(f, S \ {x})
<1> DEFINE G == {A \in SUBSET S : /\ SumOn(f, A) \in Int
                                  /\ \A x \in A : SumOn(f, A) = f[x] + SumOn(f, A \ {x})}
<1>1. ASSUME NEW A \in SUBSET S, \A B \in SUBSET A : B # A => B \in G
      PROVE  A \in G
  <2>1. CASE A = {}
    BY <2>1, SumOfNothing
  <2>2. CASE A # {}
    <3>1. IsFiniteSet(A)
      BY FS_Subset
    <3>2. PICK c \in A : SumOn(f, A) = f[c] + SumOn(f, A \ {c})
      BY <2>2, <3>1, SumStep
    <3>3. A \ {c} \in G
      BY <1>1, <3>2
    <3>4. SumOn(f, A) \in Int
      BY <3>2, <3>3
    <3>5. ASSUME NEW x \in A, x # c PROVE SumOn(f, A) = f[x] + SumOn(f, A \ {x})
      <4>1. SumOn(f, A \ {c}) = f[x] + SumOn(f, (A \ {c}) \ {x})
        BY <3>3, <3>5
      <4>2. A \ {x} \in G /\ c \in A \ {x}
        BY <1>1, <3>5
      <4>3. SumOn(f, A \ {x}) = f[c] + SumOn(f, (A \ {x}) \ {c})
        BY <4>2
      <4>4. (A \ {c}) \ {x} = (A \ {x}) \ {c}
        OBVIOUS
      <4>5. (A \ {x}) \ {c} \in G
        BY <1>1, <3>5
      <4> DEFINE rest == SumOn(f, (A \ {x}) \ {c})
      <4>6. rest \in Int /\ f[x] \in Int /\ f[c] \in Int
        BY <4>5
      <4>7. SumOn(f, A) = f[c] + (f[x] + rest) /\ SumOn(f, A \ {x}) = f[c] + rest
        BY <3>2, <4>1, <4>3, <4>4
      <4> HIDE DEF rest
      <4> QED
        BY <4>6, <4>7
    <3> QED
      BY <3>2, <3>4, <3>5
  <2> QED
    BY <2>1, <2>2
<1> HIDE DEF G
<1>2. S \in G
  BY <1>1, SubsetInduction
<1> QED
  BY <1>2 DEF G

\* One element more adds its term.
LEMMA SumOfMore ==
    ASSUME NEW f, NEW S, IsFiniteSet(S), NEW x, x \notin S, \A y \in S \cup {x} : f[y] \in Int
    PROVE  SumOn(f, S \cup {x}) = f[x] + SumOn(f, S)
<1>1. IsFiniteSet(S \cup {x}) /\ (S \cup {x}) \ {x} = S
  BY FS_AddElement
<1> QED
  BY <1>1, SumTerm

\* The sum over one element is its term.
LEMMA SumOfOne == ASSUME NEW f, NEW x, f[x] \in Int PROVE SumOn(f, {x}) = f[x]
<1>1. {x} \ {x} = {}
  OBVIOUS
<1>2. SumOn(f, {x}) = f[x] + SumOn(f, {x} \ {x})
  BY SumTerm, FS_Singleton
<1> QED
  BY <1>1, <1>2, SumOfNothing

\* Terms that are natural numbers sum up to one.
LEMMA SumIsNat ==
    ASSUME NEW f, NEW S, IsFiniteSet(S), \A x \in S : f[x] \in Nat PROVE SumOn(f, S) \in Nat
<1> DEFINE G == {A \in SUBSET S : SumOn(f, A) \in Nat}
<1>1. {} \in G
  BY SumOfNothing
<1>2. ASSUME NEW A \in SUBSET S, NEW x \in S \ A, A \in G PROVE A \cup {x} \in G
  <2>1. IsFiniteSet(A) /\ \A y \in A \cup {x} : f[y] \in Int
    BY FS_Subset
  <2>2. SumOn(f, A \cup {x}) = f[x] + SumOn(f, A)
    BY <2>1, SumOfMore
  <2> QED
    BY <1>2, <2>2
<1> HIDE DEF G
<1>3. S \in G
  BY <1>1, <1>2, FiniteInduction
<1> QED
  BY <1>3 DEF G

\* The sum over two sets without a common element.
LEMMA SumOfBoth ==
    ASSUME NEW f, NEW S, NEW T, IsFiniteSet(S), IsFiniteSet(T), S \cap T = {},
           \A x \in S \cup T : f[x] \in Int
    PROVE  SumOn(f, S \cup T) = SumOn(f, S) + SumOn(f, T)
<1> DEFINE G == {A \in SUBSET T : SumOn(f, S \cup A) = SumOn(f, S) + SumOn(f, A)}
<1>0. SumOn(f, S) \in Int
  BY SumTerm
<1>1. {} \in G
  <2>1. S \cup {} = S
    OBVIOUS
  <2> QED
    BY <1>0, <2>1, SumOfNothing
<1>2. ASSUME NEW A \in SUBSET T, NEW x \in T \ A, A \in G PROVE A \cup {x} \in G
  <2>1. IsFiniteSet(A) /\ IsFiniteSet(S \cup A)
    BY FS_Subset, FS_Union
  <2>2. SumOn(f, A \cup {x}) = f[x] + SumOn(f, A)
    BY <2>1, SumOfMore
  <2>3. SumOn(f, (S \cup A) \cup {x}) = f[x] + SumOn(f, S \cup A)
    BY <2>1, SumOfMore
  <2>4. (S \cup A) \cup {x} = S \cup (A \cup {x})
    OBVIOUS
  <2>5. SumOn(f, A) \in Int /\ f[x] \in Int /\ SumOn(f, S \cup A) = SumOn(f, S) + SumOn(f, A)
    BY <1>2, <2>1, SumTerm
  <2>6. SumOn(f, S \cup (A \cup {x})) = f[x] + SumOn(f, S \cup A)
    BY <2>3, <2>4
  <2>7. SumOn(f, S \cup (A \cup {x})) = SumOn(f, S) + SumOn(f, A \cup {x})
    BY <1>0, <2>2, <2>5, <2>6
  <2> QED
    BY <2>7
<1> HIDE DEF G
<1>3. T \in G
  BY <1>1, <1>2, FiniteInduction
<1> QED
  BY <1>3 DEF G

\* Terms that are all at least c, or all at most c.
LEMMA SumAtLeast ==
    ASSUME NEW f, NEW S, IsFiniteSet(S), NEW c \in Int, \A x \in S : f[x] \in Int /\ f[x] >= c
    PROVE  SumOn(f, S) >= c * Cardinality(S)
<1> DEFINE G == {A \in SUBSET S : SumOn(f, A) >= c * Cardinality(A)}
<1>1. {} \in G
  BY SumOfNothing, FS_EmptySet
<1>2. ASSUME NEW A \in SUBSET S, NEW x \in S \ A, A \in G PROVE A \cup {x} \in G
  <2>1. IsFiniteSet(A) /\ Cardinality(A) \in Nat
    BY FS_Subset, FS_CardinalityType
  <2>2. SumOn(f, A \cup {x}) = f[x] + SumOn(f, A) /\ SumOn(f, A) \in Int
    BY <2>1, SumOfMore, SumTerm
  <2>3. Cardinality(A \cup {x}) = Cardinality(A) + 1
    BY <2>1, FS_AddElement
  <2> DEFINE n == Cardinality(A)
  <2>4. c * (n + 1) = c * n + c /\ c * n \in Int
    BY <2>1
  <2>5. SumOn(f, A) >= c * n /\ f[x] \in Int /\ f[x] >= c
    BY <1>2
  <2> HIDE DEF n
  <2>6. f[x] + SumOn(f, A) >= c * n + c
    BY <2>2, <2>4, <2>5
  <2> QED
    BY <2>2, <2>3, <2>4, <2>6 DEF n
<1> HIDE DEF G
<1>3. S \in G
  BY <1>1, <1>2, FiniteInduction
<1> QED
  BY <1>3 DEF G

LEMMA SumAtMost ==
    ASSUME NEW f, NEW S, IsFiniteSet(S), NEW c \in Int, \A x \in S : f[x] \in Int /\ f[x] <= c
    PROVE  SumOn(f, S) <= c * Cardinality(S)
<1> DEFINE G == {A \in SUBSET S : SumOn(f, A) <= c * Cardinality(A)}
<1>1. {} \in G
  BY SumOfNothing, FS_EmptySet
<1>2. ASSUME NEW A \in SUBSET S, NEW x \in S \ A, A \in G PROVE A \cup {x} \in G
  <2>1. IsFiniteSet(A) /\ Cardinality(A) \in Nat
    BY FS_Subset, FS_CardinalityType
  <2>2. SumOn(f, A \cup {x}) = f[x] + SumOn(f, A) /\ SumOn(f, A) \in Int
    BY <2>1, SumOfMore, SumTerm
  <2>3. Cardinality(A \cup {x}) = Cardinality(A) + 1
    BY <2>1, FS_AddElement
  <2> DEFINE n == Cardinality(A)
  <2>4. c * (n + 1) = c * n + c /\ c * n \in Int
    BY <2>1
  <2>5. SumOn(f, A) <= c * n /\ f[x] \in Int /\ f[x] <= c
    BY <1>2
  <2> HIDE DEF n
  <2>6. f[x] + SumOn(f, A) <= c * n + c
    BY <2>2, <2>4, <2>5
  <2> QED
    BY <2>2, <2>3, <2>4, <2>6 DEF n
<1> HIDE DEF G
<1>3. S \in G
  BY <1>1, <1>2, FiniteInduction
<1> QED
  BY <1>3 DEF G

\* The sum over the image of a set under a function that keeps its elements apart.
LEMMA SumOfImage ==
    ASSUME NEW f, NEW g, NEW b, NEW S, IsFiniteSet(S), \A x, y \in S : b[x] = b[y] => x = y,
           \A x \in S : g[x] \in Int /\ f[b[x]] = g[x]
    PROVE  SumOn(f, {b[x] : x \in S}) = SumOn(g, S)
<1> DEFINE Image(A) == {b[x] : x \in A}
           G == {A \in SUBSET S : IsFiniteSet(Image(A)) /\ SumOn(f, Image(A)) = SumOn(g, A)}
<1>1. {} \in G
  <2>1. Image({}) = {}
    OBVIOUS
  <2> QED
    BY <2>1, SumOfNothing, FS_EmptySet
<1>2. ASSUME NEW A \in SUBSET S, NEW x \in S \ A, A \in G PROVE A \cup {x} \in G
  <2>1. IsFiniteSet(A) /\ IsFiniteSet(Image(A))
    BY <1>2, FS_Subset
  <2>2. Image(A \cup {x}) = Image(A) \cup {b[x]} /\ b[x] \notin Image(A)
    OBVIOUS
  <2>3. \A y \in Image(A) \cup {b[x]} : f[y] \in Int
    OBVIOUS
  <2>4. IsFiniteSet(Image(A) \cup {b[x]})
    BY <2>1, FS_AddElement
  <2> HIDE DEF Image
  <2>5. SumOn(f, Image(A) \cup {b[x]}) = f[b[x]] + SumOn(f, Image(A))
    BY <2>1, <2>2, <2>3, SumOfMore
  <2>6. SumOn(g, A \cup {x}) = g[x] + SumOn(g, A)
    BY <2>1, SumOfMore
  <2> QED
    BY <1>2, <2>2, <2>4, <2>5, <2>6
<1> HIDE DEF G
<1>3. S \in G
  BY <1>1, <1>2, FiniteInduction
<1> QED
  BY <1>3 DEF G
--------------------------------------------------------------------------------
(***************************************************************************)
(* Sums of terms that are made from those of other sums.                   *)
(***************************************************************************)
\* The sum of terms that are combined from those of two functions.
LEMMA SumOfTwo ==
    ASSUME NEW f, NEW g, NEW h, NEW a \in Int, NEW b \in Int, NEW S, IsFiniteSet(S),
           \A x \in S : g[x] \in Int /\ h[x] \in Int /\ f[x] = a * g[x] + b * h[x]
    PROVE  SumOn(f, S) = a * SumOn(g, S) + b * SumOn(h, S)
<1> DEFINE G == {A \in SUBSET S : SumOn(f, A) = a * SumOn(g, A) + b * SumOn(h, A)}
<1>0. \A x \in S : f[x] \in Int
  OBVIOUS
<1>1. {} \in G
  BY SumOfNothing
<1>2. ASSUME NEW A \in SUBSET S, NEW x \in S \ A, A \in G PROVE A \cup {x} \in G
  <2>1. IsFiniteSet(A) /\ \A y \in A \cup {x} : f[y] \in Int /\ g[y] \in Int /\ h[y] \in Int
    BY <1>0, FS_Subset
  <2>2. /\ SumOn(f, A \cup {x}) = f[x] + SumOn(f, A)
        /\ SumOn(g, A \cup {x}) = g[x] + SumOn(g, A)
        /\ SumOn(h, A \cup {x}) = h[x] + SumOn(h, A)
    BY <2>1, SumOfMore
  <2> DEFINE sg == SumOn(g, A)
             sh == SumOn(h, A)
             gx == g[x]
             hx == h[x]
  <2>3. sg \in Int /\ sh \in Int /\ gx \in Int /\ hx \in Int
    BY <2>1, SumTerm
  <2>4. SumOn(f, A) = a * sg + b * sh /\ f[x] = a * gx + b * hx
    BY <1>2
  <2> HIDE DEF sg, sh, gx, hx
  <2>5. a * (gx + sg) = a * gx + a * sg /\ b * (hx + sh) = b * hx + b * sh
        /\ a * gx \in Int /\ a * sg \in Int /\ b * hx \in Int /\ b * sh \in Int
    BY <2>3
  <2>6. f[x] + SumOn(f, A) = a * (gx + sg) + b * (hx + sh)
    BY <2>4, <2>5
  <2> QED
    BY <2>2, <2>6 DEF sg, sh, gx, hx
<1> HIDE DEF G
<1>3. S \in G
  BY <1>1, <1>2, FiniteInduction
<1> QED
  BY <1>3 DEF G

\* Some of the terms are one greater.
LEMMA SumOfSome ==
    ASSUME NEW f, NEW g, NEW S, IsFiniteSet(S), NEW T \in SUBSET S,
           \A x \in S : g[x] \in Int /\ f[x] = IF x \in T THEN g[x] + 1 ELSE g[x]
    PROVE  SumOn(f, S) = SumOn(g, S) + Cardinality(T)
<1> DEFINE G == {A \in SUBSET S : SumOn(f, A) = SumOn(g, A) + Cardinality(A \cap T)}
<1>0. \A x \in S : f[x] \in Int
  OBVIOUS
<1>1. {} \in G
  <2>1. {} \cap T = {}
    OBVIOUS
  <2> QED
    BY <2>1, SumOfNothing, FS_EmptySet
<1>2. ASSUME NEW A \in SUBSET S, NEW x \in S \ A, A \in G PROVE A \cup {x} \in G
  <2>1. /\ IsFiniteSet(A) /\ \A y \in A \cup {x} : f[y] \in Int /\ g[y] \in Int
        /\ IsFiniteSet(A \cap T) /\ Cardinality(A \cap T) \in Nat
    BY <1>0, FS_Subset, FS_Intersection, FS_CardinalityType
  <2>2. /\ SumOn(f, A \cup {x}) = f[x] + SumOn(f, A)
        /\ SumOn(g, A \cup {x}) = g[x] + SumOn(g, A)
        /\ SumOn(g, A) \in Int
    BY <2>1, SumOfMore, SumTerm
  <2>3. SumOn(f, A) = SumOn(g, A) + Cardinality(A \cap T)
    BY <1>2
  <2>4. CASE x \in T
    <3>1. (A \cup {x}) \cap T = (A \cap T) \cup {x} /\ x \notin A \cap T
      BY <2>4
    <3>2. Cardinality((A \cup {x}) \cap T) = Cardinality(A \cap T) + 1
      BY <2>1, <3>1, FS_AddElement
    <3>3. f[x] = g[x] + 1 /\ g[x] \in Int
      BY <2>1, <2>4
    <3> QED
      BY <2>1, <2>2, <2>3, <3>2, <3>3
  <2>5. CASE x \notin T
    <3>1. (A \cup {x}) \cap T = A \cap T
      BY <2>5
    <3>2. f[x] = g[x] /\ g[x] \in Int
      BY <2>1, <2>5
    <3>3. f[x] + SumOn(f, A) = (g[x] + SumOn(g, A)) + Cardinality(A \cap T)
      BY <2>1, <2>2, <2>3, <3>2
    <3> QED
      BY <2>2, <3>1, <3>3
  <2> QED
    BY <2>4, <2>5
<1> HIDE DEF G
<1>3. S \in G
  BY <1>1, <1>2, FiniteInduction
<1>4. S \cap T = T
  OBVIOUS
<1> QED
  BY <1>3, <1>4 DEF G

\* Of a set of numbers, as many are among the first d as there are, and d at most.
LEMMA FirstOnes ==
    ASSUME NEW n \in Nat, NEW P \in SUBSET (0 .. n), NEW d \in Nat, d <= Cardinality(P)
    PROVE  Cardinality({l \in P : Cardinality({m \in P : m < l}) < d}) = d
<1> DEFINE Before(Q, l) == {m \in Q : m < l}
           First(Q, e) == {l \in Q : Cardinality(Before(Q, l)) < e}
           G == {u \in Nat : \A Q \in SUBSET (0 .. u - 1) :
                    \A e \in Nat : e <= Cardinality(Q) => Cardinality(First(Q, e)) = e}
<1>1. 0 \in G
  <2> SUFFICES ASSUME NEW Q \in SUBSET (0 .. 0 - 1), NEW e \in Nat, e <= Cardinality(Q)
               PROVE  Cardinality(First(Q, e)) = e
    OBVIOUS
  <2>1. Q = {}
    OBVIOUS
  <2>2. First(Q, e) = {}
    BY <2>1
  <2>3. Cardinality(Q) = 0
    BY <2>1, FS_EmptySet
  <2> HIDE DEF First
  <2> QED
    BY <2>2, <2>3, FS_EmptySet
<1>2. ASSUME NEW u \in Nat, u \in G PROVE u + 1 \in G
  <2> SUFFICES ASSUME NEW Q \in SUBSET (0 .. u), NEW e \in Nat, e <= Cardinality(Q)
               PROVE  Cardinality(First(Q, e)) = e
    BY <1>2
  <2>1. CASE u \notin Q
    <3>1. Q \in SUBSET (0 .. u - 1)
      BY <2>1
    <3> HIDE DEF First, Before
    <3> QED
      BY <1>2, <3>1
  <2>2. CASE u \in Q
    <3> DEFINE R == Q \ {u}
    <3>0. IsFiniteSet(0 .. u)
      BY FS_Interval
    <3>1. /\ R \in SUBSET (0 .. u - 1) /\ Q = R \cup {u} /\ u \notin R
          /\ IsFiniteSet(Q) /\ IsFiniteSet(R) /\ \A m \in R : m \in Nat /\ m < u
      <4>1. \A m \in R : m \in Nat /\ m < u /\ m \in 0 .. u - 1
        OBVIOUS
      <4>2. IsFiniteSet(Q) /\ IsFiniteSet(R)
        BY <3>0, FS_Subset
      <4> QED
        BY <2>2, <4>1, <4>2
    <3>2. Cardinality(Q) = Cardinality(R) + 1 /\ Cardinality(R) \in Nat
      BY <3>1, FS_AddElement, FS_CardinalityType
    <3>3. \A l \in R : Before(Q, l) = Before(R, l)
      BY <3>1
    <3>4. Before(Q, u) = R
      <4>1. \A m \in Q : m < u <=> m \in R
        BY <3>1
      <4> QED
        BY <3>1, <4>1
    <3>5. \A l \in R : Before(R, l) \in SUBSET R
      OBVIOUS
    <3>6. \A l \in R : Cardinality(Before(R, l)) \in Nat /\ Cardinality(Before(R, l)) <= Cardinality(R)
      <4> HIDE DEF Before, R
      <4> QED
        BY <3>1, <3>5, FS_Subset, FS_CardinalityType
    <3>7. CASE e <= Cardinality(R)
      <4>1. \A l \in Q : l \in R \/ l = u
        BY <3>1
      <4>2. First(Q, e) = First(R, e)
        <5>1. \A l \in R : Cardinality(Before(Q, l)) = Cardinality(Before(R, l))
          BY <3>3
        <5>2. ~ (Cardinality(Before(Q, u)) < e)
          BY <3>2, <3>4, <3>7
        <5> HIDE DEF Before, R
        <5> QED
          BY <3>1, <4>1, <5>1, <5>2
      <4> HIDE DEF First, R
      <4> QED
        BY <1>2, <3>1, <3>7, <4>2
    <3>8. CASE e = Cardinality(R) + 1
      <4>1. First(Q, e) = Q
        <5>1. \A l \in R : Cardinality(Before(Q, l)) < e
          BY <3>2, <3>3, <3>6, <3>8
        <5>2. Cardinality(Before(Q, u)) < e
          BY <3>2, <3>4, <3>8
        <5> HIDE DEF Before, R
        <5> QED
          BY <3>1, <5>1, <5>2
      <4> HIDE DEF First
      <4> QED
        BY <3>2, <3>8, <4>1
    <3> HIDE DEF R
    <3> QED
      BY <3>2, <3>7, <3>8
  <2> QED
    BY <2>1, <2>2
<1>3. \A u \in Nat : u \in G
  <2> HIDE DEF G
  <2> QED
    BY <1>1, <1>2, NumberInduction
<1>4. Cardinality(First(P, d)) = d
  <2>1. n + 1 \in Nat /\ (n + 1) - 1 = n
    OBVIOUS
  <2> HIDE DEF First
  <2>2. \A Q \in SUBSET (0 .. (n + 1) - 1) :
           \A e \in Nat : e <= Cardinality(Q) => Cardinality(First(Q, e)) = e
    BY <1>3, <2>1
  <2> QED
    BY <2>1, <2>2
<1> QED
  BY <1>4
================================================================================
