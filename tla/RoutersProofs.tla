---- MODULE RoutersProofs ----
(***************************************************************************)
(* What holds of the routers a link may be given, whichever it is: the     *)
(* budget of the ABC router, also where it is a class of the weighted      *)
(* queue, and the level to which that queue fills the link's rate, for any *)
(* number of flows and any rates; and the number that a path of RCP, VCP   *)
(* or XCP routers leaves in a header, of any number of bits.               *)
(***************************************************************************)
EXTENDS Routers, CellularProofs, FiniteSetTheorems

(***************************************************************************)
(* Sums of functions over finite sets.                                     *)
(***************************************************************************)
\* Induction over the natural numbers, with a set in place of a predicate.
LEMMA Induction ==
  ASSUME NEW T, 0 \in T, \A n \in Nat : n \in T => n + 1 \in T
  PROVE  \A n \in Nat : n \in T
  <1> DEFINE others == {n \in Nat : n \notin T}
  <1> SUFFICES ASSUME others # {}
               PROVE  FALSE
    OBVIOUS
  <1>1. PICK n \in others : \A m \in others : n <= m
    BY LeastNatural
  <1>2. n \in Nat /\ n \notin T /\ n # 0
    BY <1>1
  <1>3. n - 1 \in Nat /\ n - 1 < n /\ (n - 1) + 1 = n
    BY <1>2
  <1>4. n - 1 \in T
    BY <1>1, <1>3
  <1> QED BY <1>2, <1>3, <1>4

\* What the fold makes of a set s of indices, once it is known for smaller sets.
One(s) == CHOOSE x \in s : TRUE
Turn(iter, f, s) == IF s = {} THEN 0 ELSE f[One(s)] + iter[s \ {One(s)}]
Iterates(iter, f) == iter = [s \in SUBSET DOMAIN f |-> Turn(iter, f, s)]

\* What Total expands to, up to the iteration that the fold chooses.
LEMMA TotalIs ==
  ASSUME NEW f
  PROVE  Total(f) = (CHOOSE iter : Iterates(iter, f))[DOMAIN f]
  BY DEF Total, FoldFunction, FoldFunctionOnSet, MapThenFoldSet, Iterates, Turn, One

\* A function from a finite set to the integers.
Summable(f) == IsFiniteSet(DOMAIN f) /\ f \in [DOMAIN f -> Int]

\* An element is taken out of each set that is not empty.
LEMMA OneIsIn ==
  ASSUME NEW s, s # {}
  PROVE  One(s) \in s
  BY DEF One

\* The set without an element has one element less.
LEMMA Smaller ==
  ASSUME NEW s, IsFiniteSet(s), NEW n \in Nat, Cardinality(s) = n + 1, NEW x \in s
  PROVE  IsFiniteSet(s \ {x}) /\ Cardinality(s \ {x}) = n
  <1>1. Cardinality(s \ {x}) = (n + 1) - 1 /\ IsFiniteSet(s \ {x})
    BY FS_RemoveElement
  <1> QED BY <1>1

\* A set is not empty if it has one element more than some number.
LEMMA NotEmptyCard ==
  ASSUME NEW s, IsFiniteSet(s)
  PROVE  Cardinality(s) \in Nat /\ (s # {} <=> \E n \in Nat : Cardinality(s) = n + 1)
  <1>1. Cardinality(s) \in Nat /\ (Cardinality(s) = 0 <=> s = {})
    BY FS_CardinalityType, FS_EmptySet
  <1>2. s # {} => (Cardinality(s) - 1) \in Nat /\ Cardinality(s) = (Cardinality(s) - 1) + 1
    BY <1>1
  <1> QED BY <1>1, <1>2

\* The fold is defined: n turns make it for all sets of up to n elements.
LEMMA IterationExists ==
  ASSUME NEW f, Summable(f)
  PROVE  \E iter : Iterates(iter, f)
  <1> DEFINE D == DOMAIN f
             Upto(iter, n) == \A s \in SUBSET D :
                                Cardinality(s) <= n => iter[s] = Turn(iter, f, s)
             T == {n \in Nat : \E iter : iter = [s \in SUBSET D |-> iter[s]] /\ Upto(iter, n)}
  <1>0. \A s \in SUBSET D : IsFiniteSet(s) /\ Cardinality(s) \in Nat
    BY FS_Subset, FS_CardinalityType DEF Summable
  <1>1. 0 \in T
    <2> DEFINE g == [s \in SUBSET D |-> 0]
    <2>1. g = [s \in SUBSET D |-> g[s]] 
      OBVIOUS
    <2>2. ASSUME NEW s \in SUBSET D, Cardinality(s) <= 0
          PROVE  g[s] = Turn(g, f, s)
      <3>1. s = {}
        BY <1>0, <2>2, FS_EmptySet
      <3> QED BY <3>1 DEF Turn
    <2> HIDE DEF g
    <2> QED BY <2>1, <2>2
  <1>2. ASSUME NEW n \in Nat, n \in T
        PROVE  n + 1 \in T
    <2>1. PICK it : it = [s \in SUBSET D |-> it[s]] /\ Upto(it, n)
      BY <1>2
    <2> DEFINE g == [s \in SUBSET D |-> Turn(it, f, s)]
    <2>2. \A s \in SUBSET D : g[s] = Turn(it, f, s)
      OBVIOUS
    <2>3. g = [s \in SUBSET D |-> g[s]]
      OBVIOUS
    <2> HIDE DEF g
    <2>4. ASSUME NEW s \in SUBSET D, Cardinality(s) <= n + 1
          PROVE  g[s] = Turn(g, f, s)
      <3>1. CASE s = {}
        BY <2>2, <3>1 DEF Turn
      <3>2. CASE s # {}
        <4> DEFINE r == s \ {One(s)}
        <4>1. PICK k \in Nat : Cardinality(s) = k + 1
          BY <1>0, <3>2, NotEmptyCard
        <4>2. Cardinality(r) = k /\ r \in SUBSET D
          BY <1>0, <3>2, <4>1, Smaller, OneIsIn
        <4>3. Cardinality(r) <= n
          BY <2>4, <4>1, <4>2
        <4>4. it[r] = Turn(it, f, r)
          BY <2>1, <4>2, <4>3
        <4>5. g[r] = it[r]
          BY <2>2, <4>2, <4>4
        <4>6. g[s] = Turn(it, f, s)
          BY <2>2
        <4> QED BY <3>2, <4>5, <4>6 DEF Turn
      <3> QED BY <3>1, <3>2
    <2>5. Upto(g, n + 1)
      BY <2>4
    <2>6. n + 1 \in Nat
      OBVIOUS
    <2> HIDE DEF Upto
    <2> QED BY <2>3, <2>5, <2>6
  <1>3. \A n \in Nat : n \in T
    <2> HIDE DEF T
    <2> QED BY <1>1, <1>2, Induction
  <1>4. Cardinality(D) \in T
    BY <1>0, <1>3
  <1>5. PICK iter : iter = [s \in SUBSET D |-> iter[s]] /\ Upto(iter, Cardinality(D))
    BY <1>4
  <1>6. \A s \in SUBSET D : Cardinality(s) <= Cardinality(D)
    BY FS_Subset DEF Summable
  <1>7. \A s \in SUBSET D : iter[s] = Turn(iter, f, s)
    BY <1>5, <1>6
  <1>8. iter = [s \in SUBSET D |-> Turn(iter, f, s)]
    BY <1>5, <1>7
  <1> QED BY <1>8 DEF Iterates

\* What it makes is an integer.
LEMMA IterationType ==
  ASSUME NEW f, Summable(f), NEW iter, Iterates(iter, f)
  PROVE  \A s \in SUBSET DOMAIN f : iter[s] \in Int
  <1> DEFINE D == DOMAIN f
             T == {n \in Nat : \A s \in SUBSET D : Cardinality(s) = n => iter[s] \in Int}
  <1>0. \A s \in SUBSET D : IsFiniteSet(s) /\ Cardinality(s) \in Nat
    BY FS_Subset, FS_CardinalityType DEF Summable
  <1>a. \A s \in SUBSET D : iter[s] = Turn(iter, f, s)
    BY DEF Iterates
  <1>1. 0 \in T
    <2>1. ASSUME NEW s \in SUBSET D, Cardinality(s) = 0
          PROVE  iter[s] \in Int
      <3>1. s = {}
        BY <1>0, <2>1, FS_EmptySet
      <3>2. iter[s] = Turn(iter, f, s)
        BY <1>a
      <3> QED BY <3>1, <3>2 DEF Turn
    <2> QED BY <2>1
  <1>2. ASSUME NEW n \in Nat, n \in T
        PROVE  n + 1 \in T
    <2>1. ASSUME NEW s \in SUBSET D, Cardinality(s) = n + 1
          PROVE  iter[s] \in Int
      <3> DEFINE y == One(s)
                 r == s \ {y}
      <3>1. s # {} /\ y \in s
        BY <1>0, <2>1, NotEmptyCard, OneIsIn
      <3>2. r \in SUBSET D /\ Cardinality(r) = n
        BY <1>0, <2>1, <3>1, Smaller
      <3>3. iter[r] \in Int
        BY <1>2, <3>2
      <3>4. iter[s] = f[y] + iter[r]
        BY <1>a, <3>1 DEF Turn
      <3> QED BY <3>1, <3>3, <3>4 DEF Summable
    <2> QED BY <2>1
  <1>3. \A n \in Nat : n \in T
    <2> HIDE DEF T
    <2> QED BY <1>1, <1>2, Induction
  <1> QED BY <1>0, <1>3

\* It is a sum: any element may be the one that is taken out first.
LEMMA IterationAdds ==
  ASSUME NEW f, Summable(f), NEW iter, Iterates(iter, f)
  PROVE  /\ iter[{}] = 0
         /\ \A s \in SUBSET DOMAIN f :
              iter[s] \in Int /\ \A x \in s : iter[s] = f[x] + iter[s \ {x}]
  <1> DEFINE D == DOMAIN f
             Adds(s) == iter[s] \in Int /\ \A x \in s : iter[s] = f[x] + iter[s \ {x}]
             T == {n \in Nat : \A s \in SUBSET D : Cardinality(s) = n => Adds(s)}
  <1>0. \A s \in SUBSET D : IsFiniteSet(s) /\ Cardinality(s) \in Nat
    BY FS_Subset, FS_CardinalityType DEF Summable
  <1>a. \A s \in SUBSET D : iter[s] = Turn(iter, f, s)
    BY DEF Iterates
  <1>b. iter[{}] = 0
    BY <1>a DEF Turn
  <1>1. 0 \in T
    <2>1. ASSUME NEW s \in SUBSET D, Cardinality(s) = 0
          PROVE  Adds(s)
      <3>1. s = {}
        BY <1>0, <2>1, FS_EmptySet
      <3> QED BY <1>b, <3>1
    <2> HIDE DEF Adds
    <2> QED BY <2>1
  <1>2. ASSUME NEW n \in Nat, n \in T
        PROVE  n + 1 \in T
    <2>1. ASSUME NEW s \in SUBSET D, Cardinality(s) = n + 1
          PROVE  Adds(s)
      <3> DEFINE y == One(s)
                 r == s \ {y}
      <3>1. s # {} /\ y \in s
        BY <1>0, <2>1, NotEmptyCard, OneIsIn
      <3>2. r \in SUBSET D /\ Cardinality(r) = n
        BY <1>0, <2>1, <3>1, Smaller
      <3>3. Adds(r)
        BY <1>2, <3>2
      <3>4. iter[s] = f[y] + iter[r]
        BY <1>a, <3>1 DEF Turn
      <3> HIDE DEF y
      <3>5. \A x \in D : f[x] \in Int
        BY DEF Summable
      <3>6. iter[s] \in Int
        BY <3>1, <3>3, <3>4, <3>5
      <3>7. ASSUME NEW x \in s, x # y
            PROVE  iter[s] = f[x] + iter[s \ {x}]
        <4> DEFINE q == s \ {x}
        <4>1. q \in SUBSET D /\ Cardinality(q) = n
          BY <1>0, <2>1, Smaller
        <4>2. Adds(q)
          BY <1>2, <4>1
        <4>3. x \in r /\ y \in q /\ r \ {x} = q \ {y}
          BY <3>1, <3>7
        <4>4. iter[q] = f[y] + iter[q \ {y}] /\ iter[q] \in Int
          BY <4>2, <4>3
        <4>5. iter[r] = f[x] + iter[q \ {y}] /\ iter[r] \in Int
          BY <3>3, <4>3
        <4>6. q \ {y} \in SUBSET D /\ Cardinality(q \ {y}) + 1 = n
          <5>1. IsFiniteSet(q)
            BY <1>0, <4>1
          <5>2. Cardinality(q \ {y}) = Cardinality(q) - 1
            BY <4>3, <5>1, FS_RemoveElement
          <5> QED BY <4>1, <5>2
        <4>7. f[x] \in Int /\ f[y] \in Int
          BY <3>1, <3>5
        <4>8. iter[q \ {y}] \in Int
          BY <4>6, IterationType
        <4> HIDE DEF q, r
        <4>9. iter[s] = f[x] + iter[q]
          BY <3>4, <4>4, <4>5, <4>7, <4>8
        <4> QED BY <4>9 DEF q
      <3> QED BY <3>4, <3>6, <3>7
    <2> HIDE DEF Adds
    <2> QED BY <2>1
  <1>3. \A n \in Nat : n \in T
    <2> HIDE DEF T
    <2> QED BY <1>1, <1>2, Induction
  <1>4. \A s \in SUBSET D : Adds(s)
    <2> HIDE DEF Adds
    <2> QED BY <1>0, <1>3
  <1> QED BY <1>b, <1>4

\* Two iterations agree on a set on which what they sum agrees.
LEMMA IterationsAgree ==
  ASSUME NEW f, Summable(f), NEW iter, Iterates(iter, f),
         NEW g, Summable(g), NEW other, Iterates(other, g)
  PROVE  \A s \in (SUBSET DOMAIN f) \cap (SUBSET DOMAIN g) :
           (\A x \in s : f[x] = g[x]) => iter[s] = other[s]
  <1> DEFINE B == (SUBSET DOMAIN f) \cap (SUBSET DOMAIN g)
             Agrees(s) == (\A x \in s : f[x] = g[x]) => iter[s] = other[s]
             T == {n \in Nat : \A s \in B : Cardinality(s) = n => Agrees(s)}
  <1>0. \A s \in B : IsFiniteSet(s) /\ Cardinality(s) \in Nat
    BY FS_Subset, FS_CardinalityType DEF Summable
  <1>1. 0 \in T
    <2>1. ASSUME NEW s \in B, Cardinality(s) = 0
          PROVE  Agrees(s)
      <3>1. s = {}
        BY <1>0, <2>1, FS_EmptySet
      <3>2. iter[{}] = 0 /\ other[{}] = 0
        BY IterationAdds
      <3> QED BY <3>1, <3>2
    <2> HIDE DEF Agrees
    <2> QED BY <2>1
  <1>2. ASSUME NEW n \in Nat, n \in T
        PROVE  n + 1 \in T
    <2>1. ASSUME NEW s \in B, Cardinality(s) = n + 1, \A x \in s : f[x] = g[x]
          PROVE  iter[s] = other[s]
      <3>1. PICK x \in s : TRUE
        BY <1>0, <2>1, NotEmptyCard
      <3>2. s \ {x} \in B /\ Cardinality(s \ {x}) = n
        BY <1>0, <2>1, Smaller
      <3>3. iter[s \ {x}] = other[s \ {x}]
        BY <1>2, <2>1, <3>2
      <3>4. /\ iter[s] = f[x] + iter[s \ {x}]
            /\ other[s] = g[x] + other[s \ {x}]
        BY IterationAdds
      <3> QED BY <2>1, <3>3, <3>4
    <2> QED BY <2>1
  <1>3. \A n \in Nat : n \in T
    <2> HIDE DEF T
    <2> QED BY <1>1, <1>2, Induction
  <1>4. \A s \in B : Agrees(s)
    <2> HIDE DEF Agrees
    <2> QED BY <1>0, <1>3
  <1> QED BY <1>4

\* Total is the sum: it adds up over the elements, in any order.
LEMMA TotalIsIteration ==
  ASSUME NEW f, Summable(f)
  PROVE  \E iter : Iterates(iter, f) /\ Total(f) = iter[DOMAIN f]
  BY IterationExists, TotalIs

\* Nothing adds up to nothing.
LEMMA TotalOfNone ==
  ASSUME NEW f \in [{} -> Int]
  PROVE  Total(f) = 0
  <1>1. DOMAIN f = {} /\ IsFiniteSet({})
    BY FS_EmptySet
  <1>2. Summable(f)
    BY <1>1 DEF Summable
  <1> QED BY <1>1, <1>2, TotalIsIteration, IterationAdds

\* A sum of integers is one.
LEMMA TotalType ==
  ASSUME NEW f, Summable(f)
  PROVE  Total(f) \in Int
  BY TotalIsIteration, IterationType

\* The function without one of its indices.
Without(f, x) == [y \in DOMAIN f \ {x} |-> f[y]]

LEMMA TotalTakesOut ==
  ASSUME NEW f, Summable(f), NEW x \in DOMAIN f
  PROVE  Summable(Without(f, x)) /\ Total(f) = f[x] + Total(Without(f, x))
  <1> DEFINE D == DOMAIN f
             g == Without(f, x)
  <1>1. /\ DOMAIN g = D \ {x}
        /\ \A y \in D \ {x} : g[y] = f[y]
        /\ g \in [D \ {x} -> Int]
    BY DEF Without, Summable
  <1>2. Summable(g)
    <2>1. IsFiniteSet(D \ {x})
      BY FS_RemoveElement DEF Summable
    <2> QED BY <1>1, <2>1 DEF Summable
  <1>3. PICK iter : Iterates(iter, f) /\ Total(f) = iter[D]
    BY TotalIsIteration
  <1>4. PICK other : Iterates(other, g) /\ Total(g) = other[D \ {x}]
    BY <1>1, <1>2, TotalIsIteration
  <1>5. iter[D] = f[x] + iter[D \ {x}]
    <2>1. D \in SUBSET DOMAIN f /\ x \in D
      OBVIOUS
    <2> HIDE DEF D
    <2> QED BY <1>3, <2>1, IterationAdds
  <1>6. iter[D \ {x}] = other[D \ {x}]
    <2>1. D \ {x} \in (SUBSET DOMAIN f) \cap (SUBSET DOMAIN g)
      BY <1>1
    <2>2. \A y \in D \ {x} : f[y] = g[y]
      BY <1>1
    <2> HIDE DEF g, D
    <2> QED BY <1>2, <1>3, <1>4, <2>1, <2>2, IterationsAgree DEF D
  <1> QED BY <1>2, <1>3, <1>4, <1>5, <1>6

----
(***************************************************************************)
(* Sums over the beginnings of a list, as the loop that fills the vessel   *)
(* accumulates them.                                                       *)
(***************************************************************************)
\* The sum of the first i values.
First(w, i) == Total([j \in 1..i |-> w[j]])

\* The beginnings of a list of demands have sums.
LEMMA FirstIsASum ==
  ASSUME NEW n \in Nat, NEW w \in [1..n -> Int], NEW i \in 0..n
  PROVE  Summable([j \in 1..i |-> w[j]]) /\ First(w, i) \in Int
  <1>1. IsFiniteSet(1..i)
    BY FS_Interval
  <1>2. 1..i \subseteq 1..n
    OBVIOUS
  <1>3. [j \in 1..i |-> w[j]] \in [1..i -> Int]
    BY <1>2
  <1>4. Summable([j \in 1..i |-> w[j]])
    BY <1>1, <1>3 DEF Summable
  <1> QED BY <1>4, TotalType DEF First

\* The loop starts with nothing used.
LEMMA FirstNone ==
  ASSUME NEW w
  PROVE  First(w, 0) = 0
  <1>1. 1..0 = {}
    OBVIOUS
  <1>2. [j \in 1..0 |-> w[j]] \in [{} -> Int]
    BY <1>1
  <1> QED BY <1>2, TotalOfNone DEF First

\* Each turn of the loop adds one demand.
LEMMA FirstAdds ==
  ASSUME NEW n \in Nat, NEW w \in [1..n -> Int], NEW i \in 0..(n - 1)
  PROVE  First(w, i + 1) = First(w, i) + w[i + 1]
  <1> DEFINE f == [j \in 1..(i + 1) |-> w[j]]
             g == [j \in 1..i |-> w[j]]
  <1>1. i + 1 \in 0..n /\ i \in 0..n /\ i + 1 \in 1..(i + 1) /\ i + 1 \in 1..n
    OBVIOUS
  <1>2. Summable(f) /\ DOMAIN f = 1..(i + 1) /\ f[i + 1] = w[i + 1]
    BY <1>1, FirstIsASum
  <1>3. (1..(i + 1)) \ {i + 1} = 1..i
    BY <1>1
  <1>4. Without(f, i + 1) = g
    BY <1>2, <1>3 DEF Without
  <1>5. Total(f) = f[i + 1] + Total(g)
    <2> HIDE DEF f, g
    <2> QED BY <1>1, <1>2, <1>4, TotalTakesOut
  <1>6. Total(g) \in Int /\ w[i + 1] \in Int
    BY <1>1, FirstIsASum, TotalType
  <1> QED BY <1>2, <1>5, <1>6 DEF First

\* A list of the domain in any order has the sum of the function.
LEMMA TotalInAnyOrder ==
  ASSUME NEW v, Summable(v), NEW n \in Nat,
         NEW s \in [1..n -> DOMAIN v],
         \A i, j \in 1..n : i < j => s[i] # s[j],
         \A q \in DOMAIN v : \E i \in 1..n : s[i] = q
  PROVE  Total(v) = First([j \in 1..n |-> v[s[j]]], n)
  <1> DEFINE w == [j \in 1..n |-> v[s[j]]]
             Seen(i) == {s[j] : j \in 1..i}
             part(i) == [q \in Seen(i) |-> v[q]]
             Sums(i) == Summable(part(i)) /\ Total(part(i)) = First(w, i)
             T == {i \in Nat : i <= n => Sums(i)}
  <1>0. w \in [1..n -> Int] /\ \A q \in DOMAIN v : v[q] \in Int
    BY DEF Summable
  <1>1. 0 \in T
    <2>1. 1..0 = {}
      OBVIOUS
    <2>2. part(0) \in [{} -> Int] /\ DOMAIN part(0) = {}
      BY <2>1
    <2>3. Total(part(0)) = 0 /\ First(w, 0) = 0
      BY <2>2, TotalOfNone, FirstNone
    <2>4. Summable(part(0))
      BY <2>2, FS_EmptySet DEF Summable
    <2> HIDE DEF part, w
    <2> QED BY <2>3, <2>4
  <1>2. ASSUME NEW i \in Nat, i \in T
        PROVE  i + 1 \in T
    <2> SUFFICES ASSUME i + 1 <= n
                 PROVE  Sums(i + 1)
      OBVIOUS
    <2> DEFINE x == s[i + 1]
    <2>1. i + 1 \in 1..n /\ i \in 0..(n - 1) /\ 1..(i + 1) = (1..i) \cup {i + 1}
          /\ i + 1 \in 1..(i + 1) /\ i + 1 \notin 1..i /\ 1..i \subseteq 1..n
      OBVIOUS
    <2>2. \A j \in 1..i : s[j] # x
      BY <2>1
    <2>3. Seen(i + 1) = Seen(i) \cup {x} /\ x \notin Seen(i) /\ Seen(i + 1) \subseteq DOMAIN v
      <3>1. Seen(i + 1) = Seen(i) \cup {x}
        BY <2>1
      <3>2. x \notin Seen(i)
        BY <2>2
      <3>3. Seen(i + 1) \subseteq DOMAIN v
        <4>1. 1..(i + 1) \subseteq 1..n
          BY <2>1
        <4> QED BY <4>1
      <3> QED BY <3>1, <3>2, <3>3
    <2>4. Sums(i)
      BY <1>2, <2>1
    <2> HIDE DEF Seen, x, w
    <2>5. Summable(part(i + 1))
      <3>1. IsFiniteSet(Seen(i + 1))
        BY <2>3, FS_Subset DEF Summable
      <3> QED BY <1>0, <2>3, <3>1 DEF Summable
    <2>6. Without(part(i + 1), x) = part(i)
      <3>1. (Seen(i + 1)) \ {x} = Seen(i)
        BY <2>3
      <3> QED BY <2>3, <3>1 DEF Without
    <2>7. x \in DOMAIN part(i + 1) /\ (part(i + 1))[x] = v[x]
      BY <2>3
    <2>8. Total(part(i + 1)) = v[x] + Total(part(i))
      <3> HIDE DEF part
      <3> QED BY <2>5, <2>6, <2>7, TotalTakesOut
    <2>9. First(w, i + 1) = First(w, i) + w[i + 1] /\ w[i + 1] = v[x]
      BY <1>0, <2>1, FirstAdds DEF w, x
    <2>10. v[x] \in Int /\ First(w, i) \in Int
      <3>1. i \in 0..n
        BY <2>1
      <3> QED BY <1>0, <2>3, <3>1, FirstIsASum
    <2> HIDE DEF part
    <2> QED BY <2>4, <2>5, <2>8, <2>9, <2>10
  <1>3. \A i \in Nat : i \in T
    <2> HIDE DEF T
    <2> QED BY <1>1, <1>2, Induction
  <1>4. Sums(n)
    <2> HIDE DEF Sums
    <2> QED BY <1>3
  <1>5. Seen(n) = DOMAIN v
    BY ZenonT(30)
  <1>6. part(n) = v
    BY <1>5 DEF Summable
  <1> QED BY <1>4, <1>6

----
(***************************************************************************)
(* The loop over the demands in increasing order, in WaterLevel.           *)
(***************************************************************************)
\* What InOrder chooses: n different indices, of values that never decrease.
Sorts(s, v, n) ==
  \A i, j \in 1..n : i < j => s[i] # s[j] /\ v[s[i]] <= v[s[j]]

\* There is an order of the demands: the least of them, then the others in order.
LEMMA OrderExists ==
  ASSUME NEW v, IsFiniteSet(DOMAIN v), v \in [DOMAIN v -> Nat]
  PROVE  \E s \in [1..Cardinality(DOMAIN v) -> DOMAIN v] : Sorts(s, v, Cardinality(DOMAIN v))
  <1> DEFINE D == DOMAIN v
             Ordered(d, n) == \E s \in [1..n -> d] : Sorts(s, v, n)
             T == {n \in Nat : \A d \in SUBSET D : Cardinality(d) = n => Ordered(d, n)}
  <1>0. \A d \in SUBSET D : IsFiniteSet(d) /\ Cardinality(d) \in Nat
    BY FS_Subset, FS_CardinalityType
  <1>1. 0 \in T
    <2>1. ASSUME NEW d \in SUBSET D
          PROVE  Ordered(d, 0)
      <3>1. 1..0 = {}
        OBVIOUS
      <3>2. [i \in 1..0 |-> 0] \in [1..0 -> d]
        BY <3>1
      <3>3. Sorts([i \in 1..0 |-> 0], v, 0)
        BY <3>1 DEF Sorts
      <3> QED BY <3>2, <3>3
    <2> HIDE DEF Ordered
    <2> QED BY <2>1
  <1>2. ASSUME NEW n \in Nat, n \in T
        PROVE  n + 1 \in T
    <2>1. ASSUME NEW d \in SUBSET D, Cardinality(d) = n + 1
          PROVE  Ordered(d, n + 1)
      <3>1. PICK x \in d : \A y \in d : v[x] <= v[y]
        <4> DEFINE values == {v[y] : y \in d}
        <4>1. d # {}
          BY <1>0, <2>1, NotEmptyCard
        <4>2. values \in SUBSET Nat /\ values # {}
          BY <4>1
        <4> HIDE DEF values
        <4>3. PICK m \in values : \A k \in values : m <= k
          BY <4>2, LeastNatural
        <4> QED BY <4>3 DEF values
      <3>2. d \ {x} \in SUBSET D /\ Cardinality(d \ {x}) = n
        BY <1>0, <2>1, Smaller
      <3>3. PICK s \in [1..n -> d \ {x}] : Sorts(s, v, n)
        BY <1>2, <3>2
      <3> DEFINE t == [i \in 1..(n + 1) |-> IF i = 1 THEN x ELSE s[i - 1]]
      <3>4. \A i \in 1..(n + 1) : i # 1 => i - 1 \in 1..n
        OBVIOUS
      <3>5. \A i \in 1..(n + 1) : i # 1 => t[i] = s[i - 1] /\ t[i] \in d \ {x}
        BY <3>4
      <3>6. 1 \in 1..(n + 1) /\ t[1] = x
        OBVIOUS
      <3>7. t \in [1..(n + 1) -> d]
        BY <3>4
      <3> HIDE DEF t
      <3>8. ASSUME NEW i \in 1..(n + 1), NEW j \in 1..(n + 1), i < j
            PROVE  t[i] # t[j] /\ v[t[i]] <= v[t[j]]
        <4>1. j # 1 /\ t[j] = s[j - 1] /\ t[j] \in d \ {x} /\ j - 1 \in 1..n
          BY <3>4, <3>5, <3>8
        <4>2. CASE i = 1
          BY <3>1, <3>6, <4>1, <4>2
        <4>3. CASE i # 1
          <5>1. t[i] = s[i - 1] /\ i - 1 \in 1..n /\ i - 1 < j - 1
            BY <3>4, <3>5, <3>8, <4>3
          <5> QED BY <3>3, <4>1, <5>1 DEF Sorts
        <4> QED BY <4>2, <4>3
      <3>9. Sorts(t, v, n + 1)
        BY <3>8 DEF Sorts
      <3> QED BY <3>7, <3>9
    <2> HIDE DEF Ordered
    <2> QED BY <2>1
  <1>3. \A n \in Nat : n \in T
    <2> HIDE DEF T
    <2> QED BY <1>1, <1>2, Induction
  <1>4. Ordered(D, Cardinality(D))
    <2> HIDE DEF Ordered
    <2> QED BY <1>0, <1>3
  <1> QED BY <1>4

\* So all demands are in the order that is chosen.
LEMMA InOrderFacts ==
  ASSUME NEW v, IsFiniteSet(DOMAIN v), v \in [DOMAIN v -> Nat], NEW n, n = Cardinality(DOMAIN v)
  PROVE  /\ n \in Nat
         /\ InOrder(v) \in [1..n -> DOMAIN v]
         /\ Sorts(InOrder(v), v, n)
         /\ \A q \in DOMAIN v : \E i \in 1..n : InOrder(v)[i] = q
  <1> DEFINE s == InOrder(v)
  <1>1. n \in Nat
    BY FS_CardinalityType
  <1>2. s \in [1..n -> DOMAIN v] /\ Sorts(s, v, n)
    <2>1. \E t \in [1..n -> DOMAIN v] :
             \A i, j \in 1..n : i < j => t[i] # t[j] /\ v[t[i]] <= v[t[j]]
      BY OrderExists DEF Sorts
    <2>2. s = CHOOSE t \in [1..n -> DOMAIN v] :
             \A i, j \in 1..n : i < j => t[i] # t[j] /\ v[t[i]] <= v[t[j]]
      BY DEF InOrder
    <2> HIDE DEF s
    <2> QED BY <2>1, <2>2 DEF Sorts
  <1> HIDE DEF s
  <1>3. \A i, j \in 1..n : s[i] = s[j] => i = j
    <2> SUFFICES ASSUME NEW i \in 1..n, NEW j \in 1..n, s[i] = s[j], i # j
                 PROVE  FALSE
      OBVIOUS
    <2>1. i < j \/ j < i
      BY <1>1
    <2> QED BY <1>2, <2>1 DEF Sorts
  <1>4. s \in Injection(1..n, DOMAIN v)
    BY <1>2, <1>3 DEF Injection, IsInjective
  <1>5. Cardinality(1..n) = n
    <2>1. 1 \in Int /\ n \in Int
      BY <1>1
    <2>2. Cardinality(1..n) = IF 1 > n THEN 0 ELSE n - 1 + 1
      BY <2>1, FS_Interval
    <2> QED BY <1>1, <2>2
  <1>6. s \in Surjection(1..n, DOMAIN v)
    BY <1>4, <1>5, FS_Injection
  <1>7. \A q \in DOMAIN v : \E i \in 1..n : s[i] = q
    BY <1>6 DEF Surjection
  <1> QED BY <1>1, <1>2, <1>7 DEF s

\* The demands w of n flows in increasing order; whether the i-th, and as much for
\* each that follows, is more than there is; and what they get up to a level a/b.
Rises(w, n) == \A i, j \in 1..n : i < j => w[i] <= w[j]
Overflows(w, n, total, i) == First(w, i - 1) + w[i] * (n - i + 1) > total
Levelled(w, n, a, b) == [j \in 1..n |-> AtMost(w[j] * b, a)]

\* A larger demand takes more of the same shares.
LEMMA TimesGrows ==
  ASSUME NEW x \in Nat, NEW y \in Nat, NEW c \in Nat, x <= y
  PROVE  x * c \in Int /\ y * c \in Int /\ x * c <= y * c
  <1>1. PICK d \in Nat : y = x + d
    <2>1. y - x \in Nat /\ y = x + (y - x)
      OBVIOUS
    <2> QED BY <2>1
  <1>2. (x + d) * c = x * c + d * c
    BY SMT
  <1>3. d * c \in Nat /\ x * c \in Nat
    BY SMT
  <1> QED BY <1>1, <1>2, <1>3

\* One share more.
LEMMA OneMore ==
  ASSUME NEW x \in Int, NEW c \in Int
  PROVE  x * (c + 1) = x * c + x /\ x * c = c * x /\ x * c \in Int
  BY SMT

\* Flows that all fit get all there is, which is what they ask for: there is no
\* flow that leaves room.
LEMMA AllFit ==
  ASSUME NEW n \in Nat \ {0}, NEW w \in [1..n -> Nat], NEW total \in Nat,
         Rises(w, n), First(w, n) >= total,
         \A i \in 1..n : ~ Overflows(w, n, total, i)
  PROVE  First(Levelled(w, n, w[n], 1), n) = total * 1
  <1> DEFINE u == Levelled(w, n, w[n], 1)
  <1>1. n \in 1..n /\ n - 1 \in 0..(n - 1) /\ (n - 1) + 1 = n /\ w \in [1..n -> Int]
    OBVIOUS
  <1>2. \A j \in 1..n : AtMost(w[j] * 1, w[n]) = w[j]
    <2> SUFFICES ASSUME NEW j \in 1..n
                 PROVE  AtMost(w[j] * 1, w[n]) = w[j]
      OBVIOUS
    <2>1. j < n \/ j = n
      OBVIOUS
    <2>2. w[j] <= w[n] /\ w[j] \in Nat /\ w[n] \in Nat
      BY <1>1, <2>1 DEF Rises
    <2> QED BY <2>2 DEF AtMost
  <1>3. u = w
    BY <1>2 DEF Levelled
  <1>4. First(w, (n - 1) + 1) = First(w, n - 1) + w[(n - 1) + 1]
    BY <1>1, FirstAdds
  <1>6. First(w, n - 1) \in Int /\ w[n] \in Int
    <2>1. n - 1 \in 0..n
      OBVIOUS
    <2> QED BY <1>1, <2>1, FirstIsASum
  <1>5. First(w, n - 1) + w[n] * (n - n + 1) <= total
    <2>1. ~ (First(w, n - 1) + w[n] * (n - n + 1) > total)
      BY <1>1 DEF Overflows
    <2>2. w[n] * (n - n + 1) \in Int
      BY <1>6, SMT
    <2> QED BY <1>6, <2>1, <2>2
  <1>7. First(w, n) = total
    <2>1. First(w, n) = First(w, n - 1) + w[n]
      BY <1>1, <1>4
    <2>2. n - n + 1 = 1
      OBVIOUS
    <2>3. First(w, n - 1) + w[n] <= total
      BY <1>5, <1>6, <2>2
    <2> QED BY <1>6, <2>1, <2>3
  <1> HIDE DEF u
  <1>8. First(u, n) = total * 1
    BY <1>3, <1>7
  <1> QED BY <1>8 DEF u

\* The first flow that does not fit shares what the smaller ones leave with all
\* that are larger: those get their demand, and these get the level.
LEMMA SharedAmongLarger ==
  ASSUME NEW n \in Nat \ {0}, NEW w \in [1..n -> Nat], NEW total \in Nat,
         Rises(w, n),
         NEW k \in 1..n, Overflows(w, n, total, k),
         \A i \in 1..n : i < k => ~ Overflows(w, n, total, i),
         NEW a, a = total - First(w, k - 1), NEW b, b = n - k + 1
  PROVE  First(Levelled(w, n, a, b), n) = total * b
  <1> DEFINE u == Levelled(w, n, a, b)
  <1>1. b \in Nat /\ w \in [1..n -> Int] /\ k - 1 \in 0..n
    OBVIOUS
  <1>2. First(w, k - 1) \in Int /\ a \in Int
    <2>1. n \in Nat
      OBVIOUS
    <2>2. First(w, k - 1) \in Int
      BY <1>1, <2>1, FirstIsASum
    <2> QED BY <2>2
  <1>3. ASSUME NEW j \in 1..n, j >= k
        PROVE  u[j] = a
    <2>1. w[k] <= w[j] /\ w[k] \in Nat /\ w[j] \in Nat
      <3>1. j = k \/ k < j
        BY <1>3
      <3> QED BY <3>1 DEF Rises
    <2>2. w[k] * b > a
      <3>1. w[k] * b \in Int
        BY <1>1, <2>1, SMT
      <3>2. First(w, k - 1) + w[k] * b > total
        BY DEF Overflows
      <3> QED BY <1>2, <3>1, <3>2
    <2>3. w[k] * b <= w[j] * b
      BY <1>1, <2>1, TimesGrows
    <2>4. w[k] * b \in Int /\ w[j] * b \in Int
      BY <1>1, <2>1, SMT
    <2>5. ~ (w[j] * b < a)
      BY <1>2, <2>2, <2>3, <2>4
    <2> QED BY <2>5 DEF AtMost, Levelled
  <1>4. ASSUME NEW j \in 1..n, j < k
        PROVE  u[j] = b * w[j]
    <2>1. k - 1 \in 1..n /\ k - 1 < k /\ k - 2 \in 0..(n - 1) /\ (k - 2) + 1 = k - 1
          /\ (k - 1) - 1 = k - 2
      BY <1>4
    <2>2. w[j] <= w[k - 1] /\ w[k - 1] \in Nat /\ w[j] \in Nat
      <3>1. j = k - 1 \/ j < k - 1
        BY <1>4
      <3>2. w[k - 1] \in Nat /\ w[j] \in Nat
        BY <2>1
      <3>3. j < k - 1 => w[j] <= w[k - 1]
        BY <2>1 DEF Rises
      <3> QED BY <3>1, <3>2, <3>3
    <2>3. ~ (First(w, k - 2) + w[k - 1] * (n - (k - 1) + 1) > total)
      <3>1. ~ (First(w, (k - 1) - 1) + w[k - 1] * (n - (k - 1) + 1) > total)
        BY <2>1 DEF Overflows
      <3> QED BY <2>1, <3>1
    <2>4. First(w, k - 1) = First(w, k - 2) + w[k - 1]
      <3>1. First(w, (k - 2) + 1) = First(w, k - 2) + w[(k - 2) + 1]
        BY <1>1, <2>1, FirstAdds
      <3> QED BY <2>1, <3>1
    <2>5. First(w, k - 2) \in Int
      <3>1. k - 2 \in 0..n
        BY <2>1
      <3> QED BY <1>1, <3>1, FirstIsASum
    <2>6. w[k - 1] * (n - (k - 1) + 1) = w[k - 1] * b + w[k - 1]
      <3>1. n - (k - 1) + 1 = b + 1
        OBVIOUS
      <3>2. w[k - 1] * (b + 1) = w[k - 1] * b + w[k - 1]
        <4>1. w[k - 1] \in Int /\ b \in Int
          BY <1>1, <2>2
        <4> HIDE DEF u
        <4> QED BY <4>1, OneMore
      <3> QED BY <3>1, <3>2
    <2>7. w[k - 1] * b \in Int /\ w[j] * b \in Int /\ w[j] * b <= w[k - 1] * b
      BY <1>1, <2>2, TimesGrows
    <2>8. w[k - 1] * b <= a
      <3>1. ~ (First(w, k - 2) + (w[k - 1] * b + w[k - 1]) > total)
        BY <2>3, <2>6
      <3>2. a = total - (First(w, k - 2) + w[k - 1])
        BY <2>4
      <3> DEFINE p == w[k - 1] * b
                 q == First(w, k - 2)
                 m == w[k - 1]
      <3>3. p \in Int /\ q \in Int /\ m \in Int /\ ~ (q + (p + m) > total) /\ a = total - (q + m)
        BY <2>2, <2>5, <2>7, <3>1, <3>2
      <3> HIDE DEF p, q, m
      <3>4. p <= a
        BY <3>3
      <3> QED BY <3>4 DEF p
    <2>9. w[j] * b <= a
      BY <1>2, <2>7, <2>8
    <2>10. w[j] * b = b * w[j]
      BY <1>1, <2>2, OneMore
    <2>11. u[j] = AtMost(w[j] * b, a)
      BY DEF Levelled
    <2>12. AtMost(w[j] * b, a) = w[j] * b
      BY <1>2, <2>7, <2>9 DEF AtMost
    <2> QED BY <2>10, <2>11, <2>12
  <1>5. u \in [1..n -> Int]
    <2>1. \A j \in 1..n : w[j] * b \in Int
      BY <1>1, SMT
    <2>2. \A j \in 1..n : AtMost(w[j] * b, a) \in Int
      BY <1>2, <2>1 DEF AtMost
    <2> QED BY <2>2 DEF Levelled
  <1> HIDE DEF u
  <1> DEFINE Filled(i) == /\ i < k => First(u, i) = b * First(w, i)
                          /\ i >= k - 1 => First(u, i) = b * First(w, k - 1) + (i - (k - 1)) * a
             T == {i \in Nat : i <= n => Filled(i)}
  <1>6. 0 \in T
    <2>1. First(u, 0) = 0 /\ First(w, 0) = 0
      BY FirstNone
    <2>2. b * 0 = 0 /\ 0 * a = 0
      BY <1>1, <1>2, SMT
    <2>3. 0 >= k - 1 => k - 1 = 0
      OBVIOUS
    <2> QED BY <2>1, <2>2, <2>3
  <1>7. ASSUME NEW i \in Nat, i \in T
        PROVE  i + 1 \in T
    <2> SUFFICES ASSUME i + 1 <= n
                 PROVE  Filled(i + 1)
      OBVIOUS
    <2>1. i + 1 \in 1..n /\ i \in 0..(n - 1) /\ i \in 0..n /\ i + 1 \in 0..n /\ Filled(i)
      BY <1>7
    <2>2. /\ First(u, i + 1) = First(u, i) + u[i + 1]
          /\ First(w, i + 1) = First(w, i) + w[i + 1]
      BY <1>1, <1>5, <2>1, FirstAdds
    <2>3. First(w, i) \in Int /\ First(u, i) \in Int /\ First(w, i + 1) \in Int /\ w[i + 1] \in Int
      BY <1>1, <1>5, <2>1, FirstIsASum
    <2>4. CASE i + 1 < k
      <3>1. First(u, i) = b * First(w, i) /\ u[i + 1] = b * w[i + 1]
        BY <1>4, <2>1, <2>4
      <3>2. b * (First(w, i) + w[i + 1]) = b * First(w, i) + b * w[i + 1]
        BY <1>1, <2>3, SMT
      <3>3. First(u, i + 1) = b * First(w, i + 1)
        BY <2>2, <3>1, <3>2
      <3>4. i + 1 >= k - 1 => i + 1 = k - 1
        BY <2>4
      <3>5. (k - 1) - (k - 1) = 0 /\ 0 * a = 0 /\ b * First(w, i + 1) \in Int
        BY <1>1, <1>2, <2>3, SMT
      <3> QED BY <2>4, <3>3, <3>4, <3>5
    <2>5. CASE i + 1 >= k
      <3>1. i >= k - 1
        BY <2>5
      <3>2. First(u, i) = b * First(w, k - 1) + (i - (k - 1)) * a /\ u[i + 1] = a
        BY <1>3, <2>1, <2>5, <3>1
      <3>3. ((i + 1) - (k - 1)) * a = (i - (k - 1)) * a + a
        BY <1>2, SMT
      <3>4. b * First(w, k - 1) \in Int /\ (i - (k - 1)) * a \in Int
        BY <1>1, <1>2, SMT
      <3>5. First(u, i + 1) = b * First(w, k - 1) + ((i + 1) - (k - 1)) * a
        BY <1>2, <2>2, <3>2, <3>3, <3>4, SMTT(30)
      <3> QED BY <2>5, <3>5
    <2> QED BY <2>4, <2>5
  <1>8. n \in T
    <2> HIDE DEF T
    <2> QED BY <1>6, <1>7, Induction
  <1>9. First(u, n) = b * First(w, k - 1) + (n - (k - 1)) * a
    BY <1>8
  <1>10. n - (k - 1) = b
    OBVIOUS
  <1>11. b * First(w, k - 1) + b * (total - First(w, k - 1)) = total * b
    BY <1>1, <1>2, SMT
  <1> QED BY <1>9, <1>10, <1>11 DEF u

\* The level is fair, whatever is to be shared that is not more than is demanded.
LEMMA LevelIsFair ==
  ASSUME NEW v, IsFiniteSet(DOMAIN v), v \in [DOMAIN v -> Nat], DOMAIN v # {},
         NEW total \in Nat, Total(v) >= total, NEW level, level = WaterLevel(v, total)
  PROVE  Total([q \in DOMAIN v |-> AtMost(v[q] * level[2], level[1])]) = total * level[2]
  <1> DEFINE n == Cardinality(DOMAIN v)
             s == InOrder(v)
             w == [j \in 1..n |-> v[s[j]]]
             h == [q \in DOMAIN v |-> AtMost(v[q] * level[2], level[1])]
             over == {i \in 1..n : First(w, i - 1) + w[i] * (n - i + 1) > total}
  <1>1. /\ n \in Nat \ {0} /\ s \in [1..n -> DOMAIN v] /\ Sorts(s, v, n)
        /\ \A q \in DOMAIN v : \E i \in 1..n : s[i] = q
    BY InOrderFacts, FS_EmptySet
  <1> HIDE DEF n, s
  <1>2. Len(s) = n
    BY <1>1
  <1>3. w \in [1..n -> Nat] /\ \A i \in 1..n : w[i] = v[s[i]]
    BY <1>1
  <1>4. \A i, j \in 1..n : i < j => w[i] <= w[j] /\ s[i] # s[j]
    BY <1>1, <1>3 DEF Sorts
  <1>5. \A i \in 1..n : SumBelow(v, s, i) = First(w, i - 1)
    <2> SUFFICES ASSUME NEW i \in 1..n
                 PROVE  SumBelow(v, s, i) = First(w, i - 1)
      OBVIOUS
    <2>1. \A j \in 1..(i - 1) : j \in 1..n
      BY <1>1
    <2>2. [j \in 1..(i - 1) |-> v[s[j]]] = [j \in 1..(i - 1) |-> w[j]]
      BY <1>3, <2>1
    <2> QED BY <2>2 DEF SumBelow, First
  <1>6. n \in 1..n
    BY <1>1
  <1> HIDE DEF w
  <1>7. {i \in 1..n : SumBelow(v, s, i) + v[s[i]] * (n - i + 1) > total} = over
    BY <1>3, <1>5
  <1>0. over # {} => Min(over) \in over /\ \A i \in over : Min(over) <= i
    <2>1. over \in SUBSET Nat
      OBVIOUS
    <2>2. over # {} => \E x \in over : \A y \in over : x <= y
      <3> HIDE DEF over
      <3> QED BY <2>1, LeastNatural
    <2> QED BY <2>2 DEF Min
  <1>8. level = IF over = {} THEN <<w[n], 1>>
                ELSE <<total - First(w, Min(over) - 1), n - Min(over) + 1>>
    <2>1. over # {} => Min(over) \in 1..n
      BY <1>0
    <2>2. over # {} => SumBelow(v, s, Min(over)) = First(w, Min(over) - 1)
      BY <1>5, <2>1
    <2> HIDE DEF over
    <2> QED BY <1>2, <1>3, <1>6, <1>7, <2>2 DEF WaterLevel, s
  <1>9. First(Levelled(w, n, level[1], level[2]), n) = total * level[2]
    <2>1. First(w, n) >= total
      <3>1. Summable(v)
        BY DEF Summable
      <3>2. Total(v) = First([j \in 1..n |-> v[s[j]]], n)
        <4>1. n \in Nat
          BY <1>1
        <4>2. s \in [1..n -> DOMAIN v]
          BY <1>1
        <4>3. \A i, j \in 1..n : i < j => s[i] # s[j]
          BY <1>4
        <4>4. \A q \in DOMAIN v : \E i \in 1..n : s[i] = q
          BY <1>1
        <4> HIDE DEF h, over
        <4> QED BY <3>1, <4>1, <4>2, <4>3, <4>4, TotalInAnyOrder, ZenonT(30)
      <3> QED BY <3>2 DEF w
    <2>2. Rises(w, n)
      BY <1>4 DEF Rises
    <2>3. CASE over = {}
      <3>1. level[1] = w[n] /\ level[2] = 1
        BY <1>8, <2>3
      <3>2. \A i \in 1..n : ~ Overflows(w, n, total, i)
        BY <2>3 DEF Overflows
      <3> HIDE DEF over, h
      <3> QED BY <1>1, <1>3, <2>1, <2>2, <3>1, <3>2, AllFit
    <2>4. CASE over # {}
      <3> DEFINE k == Min(over)
      <3>1. k \in over /\ \A i \in over : k <= i
        BY <1>0, <2>4
      <3>2. level[1] = total - First(w, k - 1) /\ level[2] = n - k + 1
        BY <1>8, <2>4
      <3> HIDE DEF k
      <3>3. k \in 1..n /\ Overflows(w, n, total, k)
        BY <3>1 DEF Overflows
      <3>4. \A i \in 1..n : i < k => ~ Overflows(w, n, total, i)
        BY <3>1, <3>3 DEF Overflows
      <3> HIDE DEF over, h
      <3> QED BY <1>1, <1>3, <2>1, <2>2, <3>2, <3>3, <3>4, SharedAmongLarger
    <2> QED BY <2>3, <2>4
  <1>10. Total(h) = First([j \in 1..n |-> h[s[j]]], n)
    <2>1. level[1] \in Int /\ level[2] \in Int
      <3>1. CASE over = {}
        BY <1>1, <1>3, <1>6, <1>8, <3>1
      <3>2. CASE over # {}
        <4>1. Min(over) \in 1..n /\ Min(over) - 1 \in 0..n /\ w \in [1..n -> Int]
          BY <1>0, <1>1, <1>3, <3>2, SMTT(30)
        <4> HIDE DEF over
        <4>2. First(w, Min(over) - 1) \in Int
          BY <1>1, <4>1, FirstIsASum
        <4> QED BY <1>1, <1>8, <3>2, <4>1, <4>2, SMTT(30)
      <3> QED BY <3>1, <3>2
    <2>2. \A q \in DOMAIN v : v[q] * level[2] \in Int
      BY <2>1, SMT
    <2>3. \A q \in DOMAIN v : AtMost(v[q] * level[2], level[1]) \in Int
      BY <2>1, <2>2 DEF AtMost
    <2>4. Summable(h) /\ DOMAIN h = DOMAIN v
      BY <2>3 DEF Summable
    <2> HIDE DEF h
    <2> QED BY <1>1, <1>4, <2>4, TotalInAnyOrder
  <1>11. [j \in 1..n |-> h[s[j]]] = Levelled(w, n, level[1], level[2])
    BY <1>1, <1>3 DEF Levelled
  <1> QED BY <1>9, <1>10, <1>11

\* What is ten times as large, index by index, has ten times the sum.
LEMMA TotalGrows ==
  ASSUME NEW f, IsFiniteSet(DOMAIN f), f \in [DOMAIN f -> Nat],
         NEW g \in [DOMAIN f -> Nat], \A x \in DOMAIN f : g[x] >= 10 * f[x]
  PROVE  Total(f) \in Nat /\ Total(g) >= 10 * Total(f)
  <1> DEFINE Above(u, w) == /\ IsFiniteSet(DOMAIN u) /\ u \in [DOMAIN u -> Nat]
                            /\ w \in [DOMAIN u -> Nat] /\ \A x \in DOMAIN u : w[x] >= 10 * u[x]
             Grows(u, w) == Total(u) \in Nat /\ Total(w) \in Int /\ Total(w) >= 10 * Total(u)
             T == {n \in Nat : \A u, w : Above(u, w) /\ Cardinality(DOMAIN u) = n => Grows(u, w)}
  <1>1. 0 \in T
    <2>1. ASSUME NEW u, NEW w, Above(u, w), Cardinality(DOMAIN u) = 0
          PROVE  Grows(u, w)
      <3>1. DOMAIN u = {}
        BY <2>1, FS_EmptySet
      <3>2. u \in [{} -> Int] /\ w \in [{} -> Int]
        BY <2>1, <3>1
      <3>3. Total(u) = 0 /\ Total(w) = 0
        BY <3>2, TotalOfNone
      <3> QED BY <3>3
    <2> HIDE DEF Above, Grows
    <2> QED BY <2>1
  <1>2. ASSUME NEW n \in Nat, n \in T
        PROVE  n + 1 \in T
    <2>1. ASSUME NEW u, NEW w, Above(u, w), Cardinality(DOMAIN u) = n + 1
          PROVE  Grows(u, w)
      <3>1. PICK x \in DOMAIN u : TRUE
        BY <2>1, NotEmptyCard
      <3>2. IsFiniteSet(DOMAIN u \ {x}) /\ Cardinality(DOMAIN u \ {x}) = n
        BY <2>1, Smaller
      <3>3. Summable(u) /\ Summable(w) /\ DOMAIN w = DOMAIN u
        BY <2>1 DEF Summable
      <3>4. DOMAIN Without(u, x) = DOMAIN u \ {x} /\ Above(Without(u, x), Without(w, x))
        BY <2>1, <3>2, <3>3 DEF Without
      <3>5. Grows(Without(u, x), Without(w, x))
        <4> HIDE DEF Above, Grows
        <4> QED BY <1>2, <3>2, <3>4
      <3>6. Total(u) = u[x] + Total(Without(u, x)) /\ Total(w) = w[x] + Total(Without(w, x))
        BY <3>1, <3>3, TotalTakesOut
      <3>7. u[x] \in Nat /\ w[x] \in Nat /\ w[x] >= 10 * u[x]
        BY <2>1, <3>1
      <3> QED BY <3>5, <3>6, <3>7
    <2> HIDE DEF Above, Grows
    <2> QED BY <2>1
  <1>3. \A n \in Nat : n \in T
    <2> HIDE DEF T
    <2> QED BY <1>1, <1>2, Induction
  <1>4. Above(f, g) /\ Cardinality(DOMAIN f) \in Nat
    BY FS_CardinalityType
  <1>5. Grows(f, g)
    <2> HIDE DEF Above, Grows
    <2> QED BY <1>3, <1>4
  <1> QED BY <1>5
----
(***************************************************************************)
(* The routers.                                                            *)
(***************************************************************************)
\* Rates are natural numbers, of as many flows as were seen.
RatesAreCounted == IsFiniteSet(DOMAIN category) /\ category \in [DOMAIN category -> Nat]

\* The inductive invariant.  By itself the ABC router keeps its own; as a class of
\* the weighted queue it is called with packets of another run, of which the
\* budget needs only that they are counted; RCP, VCP and XCP leave it alone.
RoutersIInv ==
  /\ MeterInv /\ clock \in Nat /\ RatesAreCounted
  /\ kind = "cellular" => TypeOK
  /\ kind = "weighted" => queue.packets \in Int

\* The constructors.
LEMMA InitRouters == RoutersInit => RoutersIInv
  <1> SUFFICES ASSUME RoutersInit
               PROVE  RoutersIInv
    OBVIOUS
  <1>1. TypeOK /\ MeterInv /\ clock \in Nat
    BY InitIInv, MeterInvIsPart DEF RoutersInit, TypeOK
  <1>2. RatesAreCounted
    <2>1. category = <<>>
      BY DEF RoutersInit, WeightedInit
    <2>2. DOMAIN category = {} /\ category \in [{} -> Nat]
      BY <2>1
    <2> QED BY <2>2, FS_EmptySet DEF RatesAreCounted
  <1>3. queue.packets \in Int
    BY <1>1 DEF TypeOK
  <1> QED BY <1>1, <1>2, <1>3 DEF RoutersIInv

\* The lengths of queues stay numbers.
LEMMA QueueStaysCounted ==
  ASSUME NEW q, q.packets \in Int, NEW p
  PROVE  TailEnqueue(q, p).packets \in Int /\ Dequeued(q).packets \in Int
  BY DEF TailEnqueue, Accept, Dequeued

\* The ABC router by itself.
LEMMA CellularKeeps ==
  ASSUME RoutersIInv, kind = "cellular", Next, UNCHANGED <<rateVars, weightedVars>>
  PROVE  RoutersIInv'
  <1>1. IInv
    BY MeterInvIsPart DEF RoutersIInv
  <1>2. IInv'
    BY <1>1, NextKeepsIInv
  <1>3. TypeOK' /\ MeterInv' /\ clock' \in Nat
    BY <1>2 DEF IInv, TypeOK, MeterInv
  <1>4. RatesAreCounted' /\ kind' = "cellular"
    BY DEF RoutersIInv, RatesAreCounted, weightedVars, rateVars
  <1> QED BY <1>3, <1>4 DEF RoutersIInv

\* RCP, VCP and XCP leave the budget and the rates alone.
LEMMA OthersKeep ==
  ASSUME RoutersIInv, kind \in {"rcp", "vcp", "xcp"}, RateNext, UNCHANGED weightedVars
  PROVE  RoutersIInv'
  <1>1. UNCHANGED <<kind, unused>>
    BY DEF RateNext, RateArrive, RateEnqueue, RateIdle, RateDequeue, RateTick
  <1>2. MeterInv'
    BY <1>1, UnmeasuredKeeps DEF RoutersIInv, unused
  <1>3. clock' \in Nat
    BY DEF RoutersIInv, RateNext, RateArrive, RateTick
  <1>4. RatesAreCounted'
    BY DEF RoutersIInv, RatesAreCounted, weightedVars
  <1> QED BY <1>1, <1>2, <1>3, <1>4 DEF RoutersIInv

\* An arrival is charged to its flow.
LEMMA WeightedArriveKeeps ==
  ASSUME RoutersIInv, kind = "weighted", UNCHANGED rateVars,
         NEW size \in Sizes, NEW ecn \in MixedEcns, NEW port \in Ports,
         WeightedArrive(size, ecn, port)
  PROVE  RoutersIInv'
  <1> DEFINE p == [id |-> arrived + 1, size |-> size, ecn |-> ecn]
  <1>1. /\ category' = Charged(port)
        /\ queue' = TailEnqueue(queue, p) \/ queue' = queue
        /\ UNCHANGED <<meter, tokens, accelerated, chances, clock>>
    BY DEF WeightedArrive, WeightedEnqueue, RouterEnqueue, router
  <1> HIDE DEF p
  <1>2. queue'.packets \in Int
    BY <1>1, QueueStaysCounted DEF RoutersIInv
  <1>3. MeterInv'
    BY <1>1, UnmeasuredKeeps DEF RoutersIInv
  <1>4. RatesAreCounted'
    <2>1. IsFiniteSet(DOMAIN category \cup {port})
      BY FS_AddElement DEF RoutersIInv, RatesAreCounted
    <2>2. Charged(port) \in [DOMAIN category \cup {port} -> Nat]
      BY WeightAssumption DEF Charged, RoutersIInv, RatesAreCounted
    <2> QED BY <1>1, <2>1, <2>2 DEF RatesAreCounted
  <1>5. kind' = "weighted"
    BY DEF rateVars
  <1> QED BY <1>1, <1>2, <1>3, <1>4, <1>5 DEF RoutersIInv

\* An opportunity that no packet uses, whichever queue it was meant for.
LEMMA UnusedKeeps ==
  ASSUME RoutersIInv, DequeueEmpty(clock % Wrap)
  PROVE  MeterInv' /\ queue' = queue
  <1>1. clock % Wrap \in Nat
    BY RouterAssumption, SMT DEF RoutersIInv
  <1> QED BY <1>1, DequeueEmptyKeeps DEF RoutersIInv, DequeueEmpty

\* The droptail queue is served: the router may learn of the opportunity.
LEMMA ServeQueue1Keeps ==
  ASSUME RoutersIInv, kind = "weighted", NEW random, ServeQueue1(random)
  PROVE  MeterInv' /\ queue' = queue
  <1>1. CASE DequeueEmpty(clock % Wrap)
    BY <1>1, UnusedKeeps
  <1>2. CASE UNCHANGED router
    BY <1>2, UnmeasuredKeeps DEF RoutersIInv, router
  <1> QED BY <1>1, <1>2 DEF ServeQueue1

\* The router is served.
LEMMA ServeQueue2Keeps ==
  ASSUME RoutersIInv, kind = "weighted", NEW random, NEW ecn, ServeQueue2(random, ecn)
  PROVE  MeterInv' /\ queue'.packets \in Int
  <1>1. DequeueNotEct(returned') \/ DequeueEct(clock % Wrap, returned')
    BY DEF ServeQueue2
  <1>2. queue' = Dequeued(queue)
    BY <1>1 DEF DequeueNotEct, DequeueEct
  <1>3. queue'.packets \in Int
    BY <1>2, QueueStaysCounted DEF RoutersIInv
  <1>4. clock % Wrap \in Nat
    BY RouterAssumption, SMT DEF RoutersIInv
  <1>5. MeterInv'
    BY <1>1, <1>3, <1>4, DequeueEctKeeps, UnmeasuredKeeps DEF RoutersIInv, DequeueNotEct
  <1> QED BY <1>3, <1>5

\* Rates decay to natural numbers.
LEMMA DecayedIsCounted ==
  ASSUME NEW x \in Nat
  PROVE  Decayed(x) \in Nat
  <1>1. x \div Decay \in Nat /\ x \div Decay <= x
    BY WeightAssumption, SMT
  <1> QED BY <1>1 DEF Decayed

\* Whichever is served, the rates decay.
LEMMA WeightedServeKeeps ==
  ASSUME RoutersIInv, kind = "weighted", UNCHANGED <<rateVars, clock>>,
         NEW random, NEW ecn, WeightedDequeue(random, ecn)
  PROVE  RoutersIInv'
  <1>1. MeterInv' /\ queue'.packets \in Int
    BY ServeQueue1Keeps, ServeQueue2Keeps DEF WeightedDequeue, RoutersIInv
  <1>2. RatesAreCounted'
    <2>1. category' = [q \in DOMAIN category |-> Decayed(category[q])]
      BY DEF WeightedDequeue
    <2> QED BY <2>1, DecayedIsCounted DEF RoutersIInv, RatesAreCounted
  <1>3. kind' = "weighted" /\ clock' \in Nat
    BY DEF rateVars, RoutersIInv
  <1> QED BY <1>1, <1>2, <1>3 DEF RoutersIInv

\* The weighted queue as a whole.
LEMMA WeightedKeeps ==
  ASSUME RoutersIInv, kind = "weighted", WeightedNext, UNCHANGED rateVars
  PROVE  RoutersIInv'
  <1>0. kind' = "weighted"
    BY DEF rateVars
  <1>1. CASE WeightedIdle /\ UNCHANGED clock
    <2>1. MeterInv' /\ queue' = queue
      BY <1>1, UnusedKeeps DEF WeightedIdle
    <2>2. RatesAreCounted'
      BY <1>1 DEF WeightedIdle, weightedVars, RoutersIInv, RatesAreCounted
    <2> QED BY <1>0, <1>1, <2>1, <2>2 DEF RoutersIInv
  <1>2. CASE WeightedTick
    <2>1. clock' \in Nat
      BY <1>2, WeightAssumption DEF WeightedTick
    <2>2. MeterInv' /\ queue' = queue
      BY <1>2, UnmeasuredKeeps DEF WeightedTick, router, RoutersIInv
    <2>3. RatesAreCounted'
      BY <1>2 DEF WeightedTick, weightedVars, RoutersIInv, RatesAreCounted
    <2> QED BY <1>0, <2>1, <2>2, <2>3 DEF RoutersIInv
  <1> QED BY <1>1, <1>2, WeightedArriveKeeps, WeightedServeKeeps DEF WeightedNext

\* Every step of every router.
LEMMA NextKeepsRouters == RoutersIInv /\ [RoutersNext]_<<vars, rateVars, weightedVars>> => RoutersIInv'
  <1> SUFFICES ASSUME RoutersIInv, [RoutersNext]_<<vars, rateVars, weightedVars>>
               PROVE  RoutersIInv'
    OBVIOUS
  <1>1. CASE UNCHANGED <<vars, rateVars, weightedVars>>
    <2>1. UNCHANGED <<router, clock, arrived, returned, kind, category>>
      BY <1>1 DEF vars, rateVars, weightedVars
    <2>2. MeterInv'
      BY <2>1, UnmeasuredKeeps DEF router, RoutersIInv
    <2>3. (TypeOK <=> TypeOK') /\ queue' = queue
      BY <2>1 DEF router, meter, TypeOK
    <2> QED BY <2>1, <2>2, <2>3 DEF RoutersIInv, RatesAreCounted
  <1> QED BY <1>1, CellularKeeps, OthersKeep, WeightedKeeps DEF RoutersNext

\* Packets accelerated are paid from a budget also where the router is a class of
\* the weighted queue, and is asked only when the draw says so.
THEOREM AnyRouterKeepsBudget == RoutersSpec => []AccelerationWithinBudget
  <1>1. RoutersIInv => AccelerationWithinBudget
    BY DEF RoutersIInv, MeterInv
  <1> QED BY <1>1, InitRouters, NextKeepsRouters, PTL DEF RoutersSpec

\* What the flows measured to have is not more than what they may demand.
LEMMA DemandCovers ==
  ASSUME RatesAreCounted
  PROVE  /\ DOMAIN Demand(category) = DOMAIN category
         /\ Demand(category) \in [DOMAIN category -> Nat]
         /\ 10 * Total(category) \in Nat
         /\ Total(Demand(category)) >= 10 * Total(category)
  <1> DEFINE v == Demand(category)
  <1>1. \A q \in DOMAIN category : category[q] \in Nat
    BY DEF RatesAreCounted
  <1>2. v \in [DOMAIN category -> Nat] /\ DOMAIN v = DOMAIN category
    BY <1>1 DEF Demand
  <1>3. \A q \in DOMAIN category : v[q] >= 10 * category[q]
    BY <1>1 DEF Demand
  <1> HIDE DEF v
  <1>4. Total(category) \in Nat /\ Total(v) >= 10 * Total(category)
    BY <1>2, <1>3, TotalGrows DEF RatesAreCounted
  <1> QED BY <1>2, <1>4 DEF v

\* The weighted queue fills the link's rate with its flows as max-min fairness
\* asks, for any number of flows and any rates they come to have.
THEOREM FlowsShareFairly == RoutersSpec => []WaterLevelIsFair
  <1>1. ASSUME RatesAreCounted
        PROVE  WaterLevelIsFair
    <2> DEFINE v == Demand(category)
               total == 10 * Total(category)
               level == WaterLevel(v, total)
    <2> SUFFICES ASSUME category # <<>>
                 PROVE  Total([q \in DOMAIN v |-> AtMost(v[q] * level[2], level[1])])
                          = total * level[2]
      BY DEF WaterLevelIsFair
    <2>1. DOMAIN category # {}
      <3>1. DOMAIN category = {} => category = <<>>
        BY <1>1 DEF RatesAreCounted
      <3> QED BY <3>1
    <2>2. /\ IsFiniteSet(DOMAIN v) /\ v \in [DOMAIN v -> Nat] /\ DOMAIN v # {}
          /\ total \in Nat /\ Total(v) >= total
      BY <1>1, <2>1, DemandCovers DEF RatesAreCounted
    <2>3. level = WaterLevel(v, total)
      OBVIOUS
    <2> HIDE DEF v, total, level
    <2> QED BY <2>2, <2>3, LevelIsFair
  <1>2. RoutersIInv => RatesAreCounted
    BY DEF RoutersIInv
  <1> QED BY <1>1, <1>2, InitRouters, NextKeepsRouters, PTL DEF RoutersSpec
----
(***************************************************************************)
(* The header a path of rate routers writes.                               *)
(***************************************************************************)
Rates == {"rcp", "vcp", "xcp"}

\* Numbers that fit in the bits of a header: XCP may ask for less than it can
\* write down, and then says something else.
Fits(t) == kind = "xcp" => t <= Most

\* The bytes of VCP are to leave room for the largest load: it compares them as
\* signed numbers, and one that has wrapped around says nothing.
LoadFits == 2 * (Fill + 2) < ByteSpace /\ 2 * (Fill - 2) >= - ByteSpace

UpstreamFits == /\ \A t \in Targets : Fits(t)
                /\ kind = "vcp" => LoadFits
FeedbackFits == UpstreamFits /\ Fits(- target_rate)

\* A packet of these queues.
Cells == [-1..Bits -> Int]
Headers == [id : Nat, size : Lengths, at : Nat, cells : Cells, least : Int]

\* What up to h routers have left of a header: its pairs are no further apart
\* than so many can have put them, and read as the least that was asked for.  A
\* sign is set only with a number.
Reads(cells, least, h) ==
  /\ \A i \in -1..(Bits - 1) : cells[i] \in 0..(2 * h)
  /\ Decoded(cells) = least
  /\ kind = "vcp" => least \in Loads /\ cells[Bits] = least
  /\ kind # "vcp" => least <= Most
  /\ kind = "rcp" => least >= 0
  /\ kind = "xcp" => - least <= Most /\ (cells[-1] # 0 => least < 0)

Says(p, h) == p \in Headers /\ Reads(p.cells, p.least, h)

QueueSays ==
  /\ queue.pkts \in Seq({p \in Headers : UpstreamFits => Says(p, Hops)})
  /\ queue.packets \in Int

\* The windows are never empty, so that the laws divide by no zero; the averages
\* are of at least the time a packet needs without a queue.
Samples == {s \in Seq(Int) : Len(s) >= 1}
RoundTripsKept ==
  /\ rate_dq_queue \in Samples /\ rtt_avg \in Samples
  /\ Len(rtt_avg) = Len(rate_dq_queue)
  /\ \A k \in 1..Len(rtt_avg) : rtt_avg[k] >= Long
  /\ avg_rtt \in Int /\ avg_rtt >= Long
WindowsKept ==
  /\ eq_queue \in Samples /\ real_dq_queue \in Samples /\ real_dq_queue_our_scheme \in Samples
  /\ dq_queue2 \in Samples /\ qsize_avg \in Samples /\ Len(qsize_avg) = Len(dq_queue2)
  /\ RoundTripsKept
TargetKept ==
  /\ target_rate \in Int
  /\ kind # "xcp" => target_rate >= 0
  /\ kind = "vcp" => target_rate \in Loads

RatesIInv ==
  IF kind \in Rates
  THEN /\ clock \in Nat /\ arrived \in Nat
       /\ QueueSays /\ WindowsKept /\ TargetKept
       /\ FeedbackFits => PathDecides
  ELSE coded = <<>>
----
(***************************************************************************)
(* Numbers written in bits.                                                *)
(***************************************************************************)
\* What an integer division and its remainder make of a number.
LEMMA Parts ==
  ASSUME NEW a \in Int, NEW n \in Int, n > 0
  PROVE  /\ a \div n \in Int /\ a % n \in Int /\ a = n * (a \div n) + (a % n)
         /\ 0 <= a % n /\ a % n < n
         /\ a >= 0 => a \div n >= 0
  BY SMT

\* There is only one such quotient and remainder.
LEMMA PartsAreUnique ==
  ASSUME NEW a \in Int, NEW n \in Int, n > 0, NEW q \in Int, NEW r \in Int,
         a = n * q + r, 0 <= r, r < n
  PROVE  a \div n = q /\ a % n = r
  <1> DEFINE d == a \div n
             s == a % n
  <1>1. d \in Int /\ s \in Int /\ a = n * d + s /\ 0 <= s /\ s < n
    BY Parts
  <1> HIDE DEF d, s
  <1>2. n * (d - q) = r - s
    BY <1>1, SMT
  <1>3. ~ (d - q >= 1)
    <2> SUFFICES ASSUME d - q >= 1
                 PROVE  FALSE
      OBVIOUS
    <2>1. n * (d - q) >= n
      BY <1>1, SMT
    <2> QED BY <1>1, <1>2, <2>1
  <1>4. ~ (d - q <= -1)
    <2> SUFFICES ASSUME d - q <= -1
                 PROVE  FALSE
      OBVIOUS
    <2>1. n * (d - q) <= - n
      BY <1>1, SMT
    <2> QED BY <1>1, <1>2, <2>1
  <1>5. d = q
    BY <1>1, <1>3, <1>4
  <1>6. r = s
    BY <1>1, <1>5, SMT
  <1> QED BY <1>5, <1>6 DEF d, s

\* One bit more of a number: what the next turn of the loop writes.
LEMMA OneBitMore ==
  ASSUME NEW n \in Nat, NEW m \in Nat \ {0}
  PROVE  n % (2 * m) = (n % m) + ((n \div m) % 2) * m
  <1> DEFINE q == n \div m
             r == n % m
             h == q \div 2
             b == q % 2
  <1>1. q \in Int /\ r \in Int /\ n = m * q + r /\ 0 <= r /\ r < m
    BY Parts
  <1> HIDE DEF q, r
  <1>2. h \in Int /\ b \in Int /\ q = 2 * h + b /\ 0 <= b /\ b < 2
    BY <1>1, Parts
  <1> HIDE DEF h, b
  <1>3. b = 0 \/ b = 1
    BY <1>2
  <1>4. m * q = (2 * m) * h + b * m /\ (2 * m) * h \in Int
    BY <1>2, SMT
  <1>5. b * m \in Int /\ 0 <= b * m /\ b * m <= m
    BY <1>3, SMT
  <1>6. n = (2 * m) * h + (r + b * m)
    BY <1>1, <1>4, <1>5, SMT
  <1>7. 0 <= r + b * m /\ r + b * m < 2 * m /\ r + b * m \in Int
    BY <1>1, <1>5
  <1>8. n % (2 * m) = r + b * m
    <2>1. 2 * m \in Int /\ 2 * m > 0 /\ n \in Int
      OBVIOUS
    <2> QED BY <1>2, <1>6, <1>7, <2>1, PartsAreUnique
  <1> QED BY <1>8 DEF q, r, b

\* The powers up to some bit, as a function of their own.
Doubles(f, k) == f = [i \in 0..k |-> IF i = 0 THEN 1 ELSE 2 * f[i - 1]]

LEMMA DoublesExists ==
  ASSUME NEW n \in Nat
  PROVE  \E f : Doubles(f, n)
  <1> DEFINE T == {k \in Nat : \E f : Doubles(f, k)}
  <1>1. 0 \in T
    <2> DEFINE g == [i \in 0..0 |-> 1]
    <2>1. \A i \in 0..0 : i = 0
      OBVIOUS
    <2>2. Doubles(g, 0)
      BY <2>1 DEF Doubles
    <2> QED BY <2>2
  <1>2. ASSUME NEW k \in Nat, k \in T
        PROVE  k + 1 \in T
    <2>1. PICK f : Doubles(f, k)
      BY <1>2
    <2> DEFINE g == [i \in 0..(k + 1) |-> IF i = k + 1 THEN 2 * f[k] ELSE f[i]]
    <2>2. \A i \in 0..k : f[i] = IF i = 0 THEN 1 ELSE 2 * f[i - 1]
      BY <2>1 DEF Doubles
    <2>3. ASSUME NEW i \in 0..(k + 1)
          PROVE  g[i] = IF i = 0 THEN 1 ELSE 2 * g[i - 1]
      <3>1. CASE i = k + 1
        <4>1. i # 0 /\ i - 1 = k /\ k \in 0..(k + 1) /\ k # k + 1
          BY <3>1
        <4> QED BY <3>1, <4>1
      <3>2. CASE i # k + 1
        <4>1. i \in 0..k /\ (i # 0 => i - 1 \in 0..(k + 1) /\ i - 1 # k + 1)
          BY <3>2
        <4>2. g[i] = f[i] /\ (i # 0 => g[i - 1] = f[i - 1])
          BY <3>2, <4>1
        <4> HIDE DEF g
        <4> QED BY <2>2, <4>1, <4>2
      <3> QED BY <3>1, <3>2
    <2>4. g = [i \in 0..(k + 1) |-> g[i]]
      OBVIOUS
    <2> HIDE DEF g
    <2>5. Doubles(g, k + 1)
      BY <2>3, <2>4 DEF Doubles
    <2> QED BY <2>5
  <1> HIDE DEF T
  <1>3. n \in T
    BY <1>1, <1>2, Induction
  <1> QED BY <1>3 DEF T

\* The powers of two double, and are never zero.
LEMMA PowerFacts ==
  /\ Power[0] = 1
  /\ \A i \in 0..(Bits - 1) : Power[i + 1] = 2 * Power[i]
  /\ \A i \in 0..Bits : Power[i] \in Nat \ {0}
  <1>0. Bits \in Nat
    BY RateAssumption
  <1>1. Power = CHOOSE f : Doubles(f, Bits)
    BY DEF Power, Doubles
  <1>2. Doubles(Power, Bits)
    BY <1>0, <1>1, DoublesExists
  <1>3. \A i \in 0..Bits : Power[i] = IF i = 0 THEN 1 ELSE 2 * Power[i - 1]
    <2> DEFINE P == Power
    <2>1. Doubles(P, Bits)
      BY <1>2
    <2> HIDE DEF P
    <2>2. \A i \in 0..Bits : P[i] = IF i = 0 THEN 1 ELSE 2 * P[i - 1]
      BY <2>1 DEF Doubles
    <2> QED BY <2>2 DEF P
  <1>4. Power[0] = 1
    BY <1>0, <1>3
  <1>5. ASSUME NEW i \in 0..(Bits - 1)
        PROVE  Power[i + 1] = 2 * Power[i]
    <2>1. i + 1 \in 0..Bits /\ i + 1 # 0 /\ (i + 1) - 1 = i
      BY <1>0
    <2> QED BY <1>3, <2>1
  <1> DEFINE T == {k \in Nat : k <= Bits => Power[k] \in Nat \ {0}}
  <1>6. 0 \in T
    BY <1>4
  <1>7. ASSUME NEW k \in Nat, k \in T
        PROVE  k + 1 \in T
    <2> SUFFICES ASSUME k + 1 <= Bits
                 PROVE  Power[k + 1] \in Nat \ {0}
      OBVIOUS
    <2>1. k \in 0..(Bits - 1) /\ Power[k] \in Nat \ {0}
      BY <1>0, <1>7
    <2>2. Power[k + 1] = 2 * Power[k]
      BY <1>5, <2>1
    <2> QED BY <2>1, <2>2
  <1>8. \A k \in Nat : k \in T
    <2> HIDE DEF T
    <2> QED BY <1>6, <1>7, Induction
  <1>9. \A i \in 0..Bits : Power[i] \in Nat \ {0}
    BY <1>0, <1>8
  <1> QED BY <1>4, <1>5, <1>9

\* The values of the pairs that are equal, in the order of the loop.
Values(cells) == [j \in 1..Bits |-> IF cells[j - 1] = 0 THEN Power[j - 1] ELSE 0]

\* The number read is their sum.
LEMMA MagnitudeIsASum ==
  ASSUME NEW cells
  PROVE  /\ Values(cells) \in [1..Bits -> Int]
         /\ Magnitude(cells) = First(Values(cells), Bits)
  <1> DEFINE D == 0..(Bits - 1)
             v == [i \in D |-> IF cells[i] = 0 THEN Power[i] ELSE 0]
             s == [j \in 1..Bits |-> j - 1]
  <1>0. Bits \in Nat
    BY RateAssumption
  <1>1. \A i \in D : Power[i] \in Int /\ i \in Int
    BY <1>0, PowerFacts
  <1>2. v \in [D -> Int] /\ DOMAIN v = D
    BY <1>1
  <1>3. Summable(v)
    BY <1>0, <1>2, FS_Interval DEF Summable
  <1>4. s \in [1..Bits -> D]
    BY <1>0
  <1>5. \A i, j \in 1..Bits : i < j => s[i] # s[j]
    BY <1>0
  <1>6. \A q \in D : \E i \in 1..Bits : s[i] = q
    <2> SUFFICES ASSUME NEW q \in D
                 PROVE  q + 1 \in 1..Bits /\ s[q + 1] = q
      OBVIOUS
    <2> QED BY <1>0
  <1>7. Values(cells) = [j \in 1..Bits |-> v[s[j]]]
    <2>1. \A j \in 1..Bits : s[j] = j - 1 /\ j - 1 \in D
      BY <1>0
    <2> QED BY <2>1 DEF Values
  <1>8. Values(cells) \in [1..Bits -> Int]
    <2>1. \A j \in 1..Bits : v[s[j]] \in Int
      BY <1>2, <1>4
    <2> HIDE DEF v, s
    <2> QED BY <1>7, <2>1
  <1>9. Magnitude(cells) = Total(v)
    BY DEF Magnitude, SumOf, Total
  <1> HIDE DEF v, s
  <1>10. Total(v) = First([j \in 1..Bits |-> v[s[j]]], Bits)
    <2>1. s \in [1..Bits -> DOMAIN v] /\ \A q \in DOMAIN v : \E i \in 1..Bits : s[i] = q
      BY <1>2, <1>4, <1>6
    <2> HIDE DEF D
    <2> QED BY <1>0, <1>3, <1>5, <2>1, TotalInAnyOrder
  <1> QED BY <1>7, <1>8, <1>9, <1>10

\* A number that fits is the one its bits say.
LEMMA BitsSayTheNumber ==
  ASSUME NEW n \in Nat, n <= Power[Bits] - 1,
         NEW cells, \A i \in 0..(Bits - 1) : cells[i] = 0 <=> Bit(n, i) = 1
  PROVE  Magnitude(cells) = n
  <1> DEFINE w == Values(cells)
             T == {k \in Nat : k <= Bits => First(w, k) = n % Power[k]}
  <1>0. Bits \in Nat /\ w \in [1..Bits -> Int] /\ Magnitude(cells) = First(w, Bits)
    BY RateAssumption, MagnitudeIsASum
  <1>1. 0 \in T
    <2>1. n % 1 = 0
      BY SMT
    <2>2. First(w, 0) = 0 /\ Power[0] = 1
      <3> HIDE DEF w
      <3> QED BY FirstNone, PowerFacts
    <2> QED BY <2>1, <2>2
  <1>2. ASSUME NEW k \in Nat, k \in T
        PROVE  k + 1 \in T
    <2> SUFFICES ASSUME k + 1 <= Bits
                 PROVE  First(w, k + 1) = n % Power[k + 1]
      OBVIOUS
    <2> DEFINE m == Power[k]
               b == (n \div m) % 2
    <2>1. k \in 0..(Bits - 1) /\ k + 1 \in 1..Bits /\ k \in 0..Bits /\ (k + 1) - 1 = k
          /\ First(w, k) = n % Power[k]
      BY <1>0, <1>2
    <2>2. m \in Nat \ {0} /\ Power[k + 1] = 2 * m
      BY <2>1, PowerFacts
    <2>3. w[k + 1] = IF b = 1 THEN m ELSE 0
      BY <2>1 DEF Values, Bit
    <2>4. b \in {0, 1}
      <3>1. n \div m \in Int
        BY <2>2, Parts
      <3> HIDE DEF m
      <3> QED BY <3>1, SMT
    <2>5. First(w, k + 1) = First(w, k) + w[k + 1]
      <3> HIDE DEF w
      <3> QED BY <1>0, <2>1, FirstAdds
    <2>6. n % (2 * m) = (n % m) + b * m
      BY <2>2, OneBitMore
    <2>7. w[k + 1] = b * m
      <3> HIDE DEF w, m, b
      <3> QED BY <2>2, <2>3, <2>4
    <2> QED BY <2>1, <2>2, <2>5, <2>6, <2>7
  <1>3. Bits \in T
    <2> HIDE DEF T
    <2>1. \A k \in Nat : k \in T
      BY <1>1, <1>2, Induction
    <2> QED BY <1>0, <2>1
  <1>4. n % Power[Bits] = n
    <2> DEFINE m == Power[Bits]
    <2>1. Bits \in 0..Bits
      BY <1>0
    <2>2. m \in Nat \ {0} /\ n < m /\ n \in Int
      BY <2>1, PowerFacts
    <2>3. n = m * 0 + n
      BY <2>2, SMT
    <2> HIDE DEF m
    <2>4. n % m = n
      BY <2>2, <2>3, PartsAreUnique
    <2> QED BY <2>4 DEF m
  <1> QED BY <1>0, <1>3, <1>4

\* A packet as its sender filled it asks for the largest number.
LEMMA BlankSaysMost ==
  ASSUME NEW cells, \A i \in 0..(Bits - 1) : cells[i] = 0
  PROVE  Magnitude(cells) = Power[Bits] - 1
  <1> DEFINE w == Values(cells)
             T == {k \in Nat : k <= Bits => First(w, k) = Power[k] - 1}
  <1>0. Bits \in Nat /\ w \in [1..Bits -> Int] /\ Magnitude(cells) = First(w, Bits)
    BY RateAssumption, MagnitudeIsASum
  <1>1. 0 \in T
    <2> HIDE DEF w
    <2> QED BY FirstNone, PowerFacts
  <1>2. ASSUME NEW k \in Nat, k \in T
        PROVE  k + 1 \in T
    <2> SUFFICES ASSUME k + 1 <= Bits
                 PROVE  First(w, k + 1) = Power[k + 1] - 1
      OBVIOUS
    <2>1. k \in 0..(Bits - 1) /\ k + 1 \in 1..Bits /\ k \in 0..Bits /\ (k + 1) - 1 = k
          /\ First(w, k) = Power[k] - 1
      BY <1>0, <1>2
    <2>2. Power[k] \in Nat \ {0} /\ Power[k + 1] = 2 * Power[k]
      BY <2>1, PowerFacts
    <2>3. w[k + 1] = Power[k]
      BY <2>1 DEF Values
    <2>4. First(w, k + 1) = First(w, k) + w[k + 1]
      <3> HIDE DEF w
      <3> QED BY <1>0, <2>1, FirstAdds
    <2> QED BY <2>1, <2>2, <2>3, <2>4
  <1>3. Bits \in T
    <2> HIDE DEF T
    <2>1. \A k \in Nat : k \in T
      BY <1>1, <1>2, Induction
    <2> QED BY <1>0, <2>1
  <1> QED BY <1>0, <1>3
----
(***************************************************************************)
(* Routers that write over one another's numbers.                          *)
(***************************************************************************)
\* The pairs of a path of up to Hops routers do not wrap: one is equal again if
\* and only if the last router set the bit.
LEMMA WrittenIsRead ==
  ASSUME NEW h \in 0..Hops, NEW d \in 0..(2 * h), NEW bit
  PROVE  Written(d, bit) \in 0..(2 * (h + 1)) /\ (Written(d, bit) = 0 <=> bit = 1)
  <1>1. /\ Hops \in Nat /\ h \in Nat /\ h <= Hops /\ d \in Nat /\ d <= 2 * h
        /\ ByteSpace \in Int /\ 2 * (Hops + 1) < ByteSpace
    BY RateAssumption
  <1>2. d + 2 \in Int /\ 0 <= d + 2 /\ d + 2 < ByteSpace /\ ByteSpace > 0
    BY <1>1
  <1>3. \A e \in Int : 0 <= e /\ e < ByteSpace => e % ByteSpace = e
    <2> SUFFICES ASSUME NEW e \in Int, 0 <= e, e < ByteSpace
                 PROVE  e % ByteSpace = e
      OBVIOUS
    <2>1. e = ByteSpace * 0 + e /\ 0 \in Int
      BY <1>1, SMT
    <2> QED BY <1>1, <1>2, <2>1, PartsAreUnique
  <1>4. (d + 2) % ByteSpace = d + 2
    BY <1>2, <1>3
  <1> QED BY <1>1, <1>4 DEF Written

\* A number that fits is read as it was written, over whatever was there.
LEMMA NumberIsRead ==
  ASSUME NEW cells \in Cells, NEW h \in 0..Hops,
         \A i \in 0..(Bits - 1) : cells[i] \in 0..(2 * h),
         NEW n \in Nat, n <= Power[Bits] - 1
  PROVE  /\ WithNumber(cells, n) \in Cells
         /\ \A i \in 0..(Bits - 1) : WithNumber(cells, n)[i] \in 0..(2 * (h + 1))
         /\ WithNumber(cells, n)[-1] = cells[-1]
         /\ Magnitude(WithNumber(cells, n)) = n
  <1> DEFINE new == WithNumber(cells, n)
  <1>0. Bits \in Nat /\ Hops \in Nat /\ h \in Nat
    BY RateAssumption
  <1>1. /\ DOMAIN cells = -1..Bits /\ -1 \in -1..Bits
        /\ \A i \in 0..(Bits - 1) : i \in -1..Bits
    BY <1>0 DEF Cells
  <1>2. /\ DOMAIN new = -1..Bits
        /\ \A i \in 0..(Bits - 1) : new[i] = Written(cells[i], Bit(n, i))
        /\ \A i \in -1..Bits : i \notin 0..(Bits - 1) => new[i] = cells[i]
    BY <1>1 DEF WithNumber
  <1>3. \A i \in 0..(Bits - 1) :
          new[i] \in 0..(2 * (h + 1)) /\ (new[i] = 0 <=> Bit(n, i) = 1)
    BY <1>1, <1>2, WrittenIsRead
  <1>4. new[-1] = cells[-1]
    BY <1>1, <1>2
  <1>5. \A i \in -1..Bits : cells[i] \in Int
    BY DEF Cells
  <1>6. \A i \in -1..Bits : new[i] \in Int
    <2>1. \A i \in 0..(Bits - 1) : new[i] \in Int
      <3> HIDE DEF new
      <3> QED BY <1>0, <1>3
    <2> HIDE DEF new
    <2> QED BY <1>2, <1>5, <2>1
  <1>7. new \in Cells
    <2>1. new = [i \in -1..Bits |-> new[i]]
      BY <1>1 DEF WithNumber
    <2> HIDE DEF new
    <2> QED BY <1>6, <2>1 DEF Cells
  <1>8. Magnitude(new) = n
    <2> HIDE DEF new
    <2> QED BY <1>3, BitsSayTheNumber
  <1> QED BY <1>3, <1>4, <1>7, <1>8

\* The bounds of the pairs, that of the sign apart.
LEMMA PairsAreBounded ==
  ASSUME NEW cells, NEW b
  PROVE  (\A i \in -1..(Bits - 1) : cells[i] \in 0..b)
           <=> cells[-1] \in 0..b /\ \A i \in 0..(Bits - 1) : cells[i] \in 0..b
  <1>1. -1..(Bits - 1) = {-1} \cup (0..(Bits - 1))
    BY RateAssumption
  <1> QED BY <1>1

\* What one more router leaves untouched is within the bounds of one more.
LEMMA ReadsOneMore ==
  ASSUME NEW cells, NEW least, NEW h \in 0..Hops, Reads(cells, least, h)
  PROVE  Reads(cells, least, h + 1)
  <1>1. \A i \in -1..(Bits - 1) : cells[i] \in 0..(2 * h)
    BY DEF Reads
  <1>2. 0..(2 * h) \subseteq 0..(2 * (h + 1))
    BY RateAssumption
  <1>3. \A i \in -1..(Bits - 1) : cells[i] \in 0..(2 * (h + 1))
    BY <1>1, <1>2
  <1> QED BY <1>3 DEF Reads

\* RCP writes what is below the rate it finds.
LEMMA RcpSays ==
  ASSUME kind = "rcp", NEW cells \in Cells, NEW least \in Int, NEW h \in 0..Hops,
         Reads(cells, least, h), NEW target \in Nat
  PROVE  /\ RcpCoded(cells, target) \in Cells
         /\ Reads(RcpCoded(cells, target), AtMost(least, target), h + 1)
  <1>1. Decoded(cells) = least /\ least <= Most /\ least >= 0 /\ Most = Power[Bits] - 1
    BY DEF Reads, Most
  <1>2. CASE target < least
    <2> DEFINE new == WithNumber(cells, target)
    <2>1. target <= Power[Bits] - 1
      <3>1. Power[Bits] \in Int
        BY PowerFacts, RateAssumption
      <3> QED BY <1>1, <1>2, <3>1
    <2>2. /\ new \in Cells /\ Magnitude(new) = target /\ new[-1] = cells[-1]
          /\ \A i \in 0..(Bits - 1) : new[i] \in 0..(2 * (h + 1))
      <3>1. \A i \in 0..(Bits - 1) : cells[i] \in 0..(2 * h)
        BY PairsAreBounded DEF Reads
      <3> QED BY <2>1, <3>1, NumberIsRead
    <2>4. cells[-1] \in 0..(2 * (h + 1))
      BY ReadsOneMore, PairsAreBounded DEF Reads
    <2>5. \A i \in -1..(Bits - 1) : new[i] \in 0..(2 * (h + 1))
      <3> HIDE DEF new
      <3> QED BY <2>2, <2>4, PairsAreBounded
    <2>3. RcpCoded(cells, target) = new /\ AtMost(least, target) = target
      BY <1>1, <1>2 DEF RcpCoded, AtMost
    <2> HIDE DEF new
    <2> QED BY <1>1, <2>1, <2>2, <2>3, <2>5 DEF Reads, Decoded
  <1>3. CASE ~ (target < least)
    <2>1. RcpCoded(cells, target) = cells /\ AtMost(least, target) = least
      BY <1>1, <1>3 DEF RcpCoded, AtMost
    <2> QED BY <2>1, ReadsOneMore
  <1> QED BY <1>2, <1>3

\* XCP always writes, and marks the sign again if it is negative.
LEMMA XcpSays ==
  ASSUME kind = "xcp", NEW cells \in Cells, NEW least \in Int, NEW h \in 0..Hops,
         Reads(cells, least, h), NEW target \in Int, - target <= Most
  PROVE  /\ XcpCoded(cells, target) \in Cells
         /\ Reads(XcpCoded(cells, target), AtMost(least, target), h + 1)
  <1> DEFINE t == AtMost(target, Decoded(cells))
             signed == IF t < 0 THEN [cells EXCEPT ![-1] = Written(@, 0)] ELSE cells
             n == IF t < 0 THEN - t ELSE t
             new == WithNumber(signed, n)
  <1>0. /\ Decoded(cells) = least /\ least <= Most /\ - least <= Most
        /\ cells[-1] # 0 => least < 0
        /\ \A i \in -1..(Bits - 1) : cells[i] \in 0..(2 * h)
    BY DEF Reads
  <1>1. /\ Most = Power[Bits] - 1 /\ Power[Bits] \in Nat \ {0} /\ Bits \in Nat
    BY PowerFacts, RateAssumption DEF Most
  <1>2. t = AtMost(least, target) /\ t \in Int /\ t <= least
    BY <1>0 DEF AtMost
  <1>3. t <= Most /\ - t <= Most
    BY <1>0, <1>1, <1>2 DEF AtMost
  <1>4. XcpCoded(cells, target) = new
    BY DEF XcpCoded
  <1>5. /\ cells[-1] \in 0..(2 * h) /\ cells[-1] \in 0..(2 * (h + 1))
        /\ \A i \in 0..(Bits - 1) : cells[i] \in 0..(2 * h)
    BY <1>0, ReadsOneMore, PairsAreBounded DEF Reads
  <1> HIDE DEF t
  <1>6. n \in Nat /\ n <= Power[Bits] - 1
    BY <1>1, <1>2, <1>3
  <1>7. /\ signed \in Cells /\ signed[-1] \in 0..(2 * (h + 1))
        /\ \A i \in 0..(Bits - 1) : signed[i] = cells[i]
        /\ signed[-1] # 0 <=> t < 0
    <2>1. CASE t < 0
      <3> DEFINE mark == Written(cells[-1], 0)
      <3>1. mark \in 0..(2 * (h + 1)) /\ mark # 0 /\ mark \in Int
        <4>1. mark \in 0..(2 * (h + 1)) /\ (mark = 0 <=> 0 = 1)
          BY <1>5, WrittenIsRead
        <4> HIDE DEF mark
        <4> QED BY <4>1, RateAssumption
      <3>2. signed = [cells EXCEPT ![-1] = mark] /\ -1 \in -1..Bits
        BY <1>1, <2>1
      <3>3. \A i \in 0..(Bits - 1) : i # -1 /\ i \in -1..Bits
        BY <1>1
      <3> HIDE DEF mark, signed
      <3> QED BY <2>1, <3>1, <3>2, <3>3 DEF Cells
    <2>2. CASE ~ (t < 0)
      <3>1. cells[-1] = 0
        BY <1>0, <1>2, <2>2
      <3> QED BY <1>5, <2>2, <3>1
    <2> QED BY <2>1, <2>2
  <1> HIDE DEF n, signed
  <1>8. /\ new \in Cells /\ Magnitude(new) = n /\ new[-1] = signed[-1]
        /\ \A i \in 0..(Bits - 1) : new[i] \in 0..(2 * (h + 1))
    BY <1>5, <1>6, <1>7, NumberIsRead
  <1> HIDE DEF new
  <1>9. \A i \in -1..(Bits - 1) : new[i] \in 0..(2 * (h + 1))
    BY <1>7, <1>8, PairsAreBounded
  <1>10. Decoded(new) = t
    BY <1>2, <1>7, <1>8 DEF Decoded, n
  <1>11. Reads(new, t, h + 1)
    BY <1>2, <1>3, <1>7, <1>8, <1>9, <1>10 DEF Reads
  <1> QED BY <1>2, <1>4, <1>8, <1>11

\* A load is read as it was written, if the bytes leave room for it.
LEMMA LoadIsRead ==
  ASSUME LoadFits, NEW n \in Loads
  PROVE  VcpRead(n) = n
  <1>1. Fill \in Int /\ ByteSpace \in Nat /\ n \in Int /\ 0 <= n /\ n <= 2
    BY RateAssumption DEF Loads
  <1>2. Char(Fill + n) = Fill + n
    BY <1>1 DEF Char, LoadFits
  <1>3. Char(Fill - n) = Fill - n
    BY <1>1 DEF Char, LoadFits
  <1>4. Char(Fill + n) - Char(Fill - n) = 2 * n
    BY <1>1, <1>2, <1>3
  <1> QED BY <1>4 DEF VcpRead, Loads

LEMMA VcpReadsALoad ==
  ASSUME NEW n
  PROVE  VcpRead(n) \in Loads
  BY DEF VcpRead, Loads

\* VCP raises the load to its own.
LEMMA VcpSays ==
  ASSUME kind = "vcp", LoadFits,
         NEW cells \in Cells, NEW least \in Int, NEW h \in 0..Hops,
         Reads(cells, least, h), NEW target \in Loads
  PROVE  /\ VcpCoded(cells, target) \in Cells
         /\ Reads(VcpCoded(cells, target), AtLeast(least, target), h + 1)
  <1> DEFINE new == VcpCoded(cells, target)
  <1>1. Bits \in Nat /\ Bits \in -1..Bits /\ \A i \in -1..(Bits - 1) : i # Bits /\ i \in -1..Bits
    BY RateAssumption
  <1>2. cells[Bits] = least /\ least \in Loads /\ VcpRead(least) = least
    BY LoadIsRead DEF Reads
  <1>4. AtLeast(least, target) \in Loads
    BY <1>2 DEF AtLeast
  <1>3. new = [cells EXCEPT ![Bits] = AtLeast(least, target)]
    <2>1. \A a \in Loads, b \in Loads : a + (b - a) = b
      BY DEF Loads
    <2>2. least + (AtLeast(least, target) - least) = AtLeast(least, target)
      BY <1>2, <1>4, <2>1
    <2> QED BY <1>1, <1>2, <2>2 DEF VcpCoded
  <1>5. /\ new \in Cells /\ new[Bits] = AtLeast(least, target)
        /\ \A i \in -1..(Bits - 1) : new[i] = cells[i]
    <2>1. AtLeast(least, target) \in Int
      BY <1>4 DEF Loads
    <2> HIDE DEF new
    <2> QED BY <1>1, <1>3, <2>1 DEF Cells
  <1> HIDE DEF new
  <1>6. Reads(cells, least, h + 1)
    BY ReadsOneMore
  <1>7. Reads(new, AtLeast(least, target), h + 1)
    <2>1. VcpRead(new[Bits]) = AtLeast(least, target)
      BY <1>4, <1>5, LoadIsRead
    <2> QED BY <1>4, <1>5, <1>6, <2>1 DEF Reads, Decoded
  <1> QED BY <1>5, <1>7 DEF new

\* A target a router of the kind can have: only XCP's are negative, and then they
\* are to fit; VCP's are loads.
IsTarget(t) ==
  /\ t \in Int /\ (kind # "xcp" => t >= 0) /\ Fits(- t)
  /\ kind = "vcp" => t \in Loads

\* Whatever a router asks for, what it writes is a header.
LEMMA ForwardedIsHeader ==
  ASSUME kind \in Rates, NEW p \in Headers, NEW t \in Int
  PROVE  Forwarded(p, t) \in Headers
  <1> DEFINE cells == Coded(p.cells, t)
             least == Stricter(p.least, t)
  <1>1. p.cells \in Cells /\ p.least \in Int /\ Bits \in Nat
    BY RateAssumption DEF Headers
  <1>2. least \in Int
    BY <1>1 DEF Stricter, AtMost, AtLeast
  <1>3. \A d \in Int, bit \in Int : Written(d, bit) \in Int
    <2> SUFFICES ASSUME NEW d \in Int, NEW bit \in Int
                 PROVE  Written(d, bit) \in Int
      OBVIOUS
    <2>1. d + 2 \in Int /\ ByteSpace \in Int /\ ByteSpace > 0
      BY RateAssumption
    <2>2. (d + 2) % ByteSpace \in Int
      BY <2>1, Parts
    <2> QED BY <2>2 DEF Written
  <1>4. ASSUME NEW c \in Cells, NEW n \in Int
        PROVE  WithNumber(c, n) \in Cells
    <2>1. DOMAIN c = -1..Bits /\ \A i \in -1..Bits : c[i] \in Int
      BY DEF Cells
    <2>2. \A i \in 0..(Bits - 1) : Bit(n, i) \in Int
      <3> SUFFICES ASSUME NEW i \in 0..(Bits - 1)
                   PROVE  Bit(n, i) \in Int
        OBVIOUS
      <3>1. Power[i] \in Int /\ Power[i] > 0
        BY <1>1, PowerFacts
      <3>2. n \div Power[i] \in Int
        BY <3>1, Parts
      <3>3. (n \div Power[i]) % 2 \in Int
        BY <3>2, Parts
      <3> QED BY <3>3 DEF Bit
    <2>3. \A i \in 0..(Bits - 1) : i \in -1..Bits /\ Written(c[i], Bit(n, i)) \in Int
      BY <1>1, <1>3, <2>1, <2>2
    <2> QED BY <2>1, <2>3 DEF WithNumber, Cells
  <1>5. cells \in Cells
    <2>1. CASE kind = "rcp"
      <3>1. cells = RcpCoded(p.cells, t)
        BY <2>1 DEF Coded
      <3> HIDE DEF cells
      <3> QED BY <1>1, <1>4, <3>1 DEF RcpCoded
    <2>2. CASE kind = "xcp"
      <3> DEFINE u == AtMost(t, Decoded(p.cells))
                 mark == Written(p.cells[-1], 0)
                 signed == IF u < 0 THEN [p.cells EXCEPT ![-1] = mark] ELSE p.cells
                 n == IF u < 0 THEN - u ELSE u
      <3>1. cells = WithNumber(signed, n)
        BY <2>2, <1>1 DEF Coded, XcpCoded, Cells
      <3>2. Magnitude(p.cells) \in Int
        <4> DEFINE w == Values(p.cells)
        <4>1. w \in [1..Bits -> Int] /\ Magnitude(p.cells) = First(w, Bits)
          BY MagnitudeIsASum
        <4> HIDE DEF w
        <4> QED BY <1>1, <4>1, FirstIsASum
      <3>3. u \in Int
        BY <2>2, <3>2 DEF AtMost, Decoded
      <3>4. -1 \in -1..Bits /\ p.cells[-1] \in Int
        BY <1>1 DEF Cells
      <3>5. mark \in Int
        <4> DEFINE d == p.cells[-1]
        <4>1. d \in Int /\ mark = Written(d, 0)
          BY <3>4
        <4> HIDE DEF d, mark
        <4>2. Written(d, 0) \in Int
          BY <1>3, <4>1
        <4> QED BY <4>1, <4>2
      <3> HIDE DEF mark, u
      <3>6. signed \in Cells
        BY <1>1, <3>4, <3>5 DEF Cells
      <3>7. n \in Int
        BY <3>3
      <3> HIDE DEF signed, n, cells
      <3> QED BY <1>4, <3>1, <3>6, <3>7
    <2>3. CASE kind = "vcp"
      <3> DEFINE was == VcpRead(p.cells[Bits])
                 moved == p.cells[Bits] + (AtLeast(was, t) - was)
      <3>1. Bits \in -1..Bits /\ p.cells[Bits] \in Int
        BY <1>1 DEF Cells
      <3>2. cells = [p.cells EXCEPT ![Bits] = moved]
        BY <1>1, <2>3 DEF Coded, VcpCoded, Cells
      <3>3. moved \in Int
        <4>1. was \in Int
          BY VcpReadsALoad DEF Loads
        <4> HIDE DEF was
        <4> QED BY <3>1, <4>1 DEF AtLeast
      <3> HIDE DEF moved
      <3> HIDE DEF cells
      <3> QED BY <1>1, <3>1, <3>2, <3>3 DEF Cells
    <2> QED BY <2>1, <2>2, <2>3 DEF Rates
  <1>6. Forwarded(p, t) = p \/ Forwarded(p, t) = [p EXCEPT !.cells = cells, !.least = least]
    BY DEF Forwarded, Headers
  <1> HIDE DEF cells, least
  <1> QED BY <1>2, <1>5, <1>6 DEF Headers

\* What leaves a router reads as the least of what it read before and its own.
LEMMA ForwardedSays ==
  ASSUME kind \in Rates, UpstreamFits,
         NEW h \in 0..Hops, NEW p, Says(p, h), NEW t, IsTarget(t)
  PROVE  Says(Forwarded(p, t), h + 1)
  <1>1. /\ p \in Headers /\ p.cells \in Cells /\ p.least \in Int
        /\ Reads(p.cells, p.least, h)
    BY DEF Says, Headers
  <1>2. CASE ~ IsCoded(p)
    BY <1>1, <1>2, ReadsOneMore DEF Forwarded, Says
  <1>3. CASE IsCoded(p)
    <2> DEFINE cells == Coded(p.cells, t)
               least == Stricter(p.least, t)
    <2>1. cells \in Cells /\ least \in Int /\ Reads(cells, least, h + 1)
      <3>1. CASE kind = "rcp"
        <4>1. t \in Nat
          BY <3>1 DEF IsTarget
        <4>2. cells = RcpCoded(p.cells, t) /\ least = AtMost(p.least, t)
          BY <3>1 DEF Coded, Stricter
        <4> HIDE DEF cells, least
        <4> QED BY <1>1, <3>1, <4>1, <4>2, RcpSays DEF AtMost
      <3>2. CASE kind = "xcp"
        <4>1. t \in Int /\ - t <= Most
          BY <3>2 DEF IsTarget, Fits
        <4>2. cells = XcpCoded(p.cells, t) /\ least = AtMost(p.least, t)
          BY <3>2 DEF Coded, Stricter
        <4> HIDE DEF cells, least
        <4> QED BY <1>1, <3>2, <4>1, <4>2, XcpSays DEF AtMost
      <3>3. CASE kind = "vcp"
        <4>1. t \in Loads /\ LoadFits /\ t \in Int
          BY <3>3 DEF IsTarget, UpstreamFits
        <4>2. cells = VcpCoded(p.cells, t) /\ least = AtLeast(p.least, t)
          BY <3>3 DEF Coded, Stricter
        <4> HIDE DEF cells, least
        <4> QED BY <1>1, <3>3, <4>1, <4>2, VcpSays DEF AtLeast
      <3> QED BY <3>1, <3>2, <3>3 DEF Rates
    <2>2. Forwarded(p, t) = [p EXCEPT !.cells = cells, !.least = least]
      BY <1>1, <1>3 DEF Forwarded, Headers
    <2> HIDE DEF cells, least
    <2>3. /\ Forwarded(p, t) \in Headers
          /\ Forwarded(p, t).cells = cells /\ Forwarded(p, t).least = least
      BY <1>1, <2>1, <2>2 DEF Headers
    <2> QED BY <2>1, <2>3 DEF Says
  <1> QED BY <1>2, <1>3
----
(***************************************************************************)
(* The windows and the laws.                                               *)
(***************************************************************************)
\* Forgetting old samples keeps the last one.
LEMMA ForgottenFacts ==
  ASSUME NEW w, NEW samples \in Samples
  PROVE  Forgotten(w, samples) \in 0..(Len(samples) - 1)
  <1> DEFINE suffix(n) == SubSeq(samples, n + 1, Len(samples))
             ends == {n \in 0..(Len(samples) - 1) : ~ StaleFor(w, suffix(n))}
             last == Len(samples) - 1
  <1>1. samples \in Seq(Int) /\ Len(samples) \in Nat /\ Len(samples) >= 1
    BY DEF Samples
  <1>2. last \in ends
    <2>1. Len(suffix(last)) = 1
      BY <1>1
    <2>2. last \in 0..(Len(samples) - 1)
      BY <1>1
    <2> HIDE DEF suffix
    <2> QED BY <2>1, <2>2 DEF StaleFor
  <1>3. ends \in SUBSET Nat /\ ends # {}
    <2>1. 0..(Len(samples) - 1) \subseteq Nat
      BY <1>1
    <2> HIDE DEF suffix
    <2> QED BY <1>2, <2>1
  <1>4. Forgotten(w, samples) = Min(ends)
    BY DEF Forgotten
  <1>5. Min(ends) \in ends
    <2> HIDE DEF ends
    <2>1. \E x \in ends : \A y \in ends : x <= y
      BY <1>3, LeastNatural
    <2> QED BY <2>1 DEF Min
  <1> QED BY <1>4, <1>5

\* A window that has taken a sample in holds it and another one.
LEMMA JoinedFacts ==
  ASSUME NEW w, NEW samples \in Samples, NEW value \in Int, NEW n \in 0..(Len(samples) - 1)
  PROVE  /\ Joined(w, samples, value, n) \in Samples
         /\ Len(Joined(w, samples, value, n)) = Len(samples) - n + 1
         /\ Len(Joined(w, samples, value, n)) >= 2
         /\ \A k \in 1..Len(Joined(w, samples, value, n)) :
              \/ Joined(w, samples, value, n)[k] = value
              \/ \E j \in 1..Len(samples) : Joined(w, samples, value, n)[k] = samples[j]
  <1> DEFINE kept == SubSeq(samples, n + 1, Len(samples))
             new == Append(kept, value)
  <1>1. samples \in Seq(Int) /\ Len(samples) \in Nat /\ n \in Nat /\ n <= Len(samples) - 1
    BY DEF Samples
  <1>2. /\ kept \in Seq(Int) /\ Len(kept) = Len(samples) - n
        /\ \A k \in 1..(Len(samples) - n) : kept[k] = samples[n + k]
    BY <1>1
  <1> HIDE DEF kept
  <1>3. /\ new \in Seq(Int) /\ Len(new) = Len(kept) + 1 /\ Len(kept) \in Nat
        /\ new[Len(kept) + 1] = value
        /\ \A k \in 1..Len(kept) : new[k] = kept[k]
    <2>1. kept \in Seq(Int) /\ Len(kept) \in Nat
      BY <1>1, <1>2
    <2> QED BY <2>1
  <1>4. Joined(w, samples, value, n) = new
    BY DEF Joined, kept
  <1> HIDE DEF new
  <1>5. ASSUME NEW k \in 1..Len(new)
        PROVE  new[k] = value \/ \E j \in 1..Len(samples) : new[k] = samples[j]
    <2>1. CASE k = Len(kept) + 1
      BY <1>3, <2>1
    <2>2. CASE k # Len(kept) + 1
      <3>0. k \in 1..(Len(kept) + 1) /\ Len(kept) = Len(samples) - n
        BY <1>2, <1>3
      <3>1. k \in 1..Len(kept) /\ n + k \in 1..Len(samples)
        BY <1>1, <2>2, <3>0
      <3>2. new[k] = samples[n + k]
        BY <1>2, <1>3, <3>1
      <3> QED BY <3>1, <3>2
    <2> QED BY <2>1, <2>2
  <1>6. Len(new) = Len(samples) - n + 1 /\ Len(new) >= 2
    <2>1. Len(kept) = Len(samples) - n /\ Len(new) = Len(kept) + 1
      BY <1>2, <1>3
    <2> QED BY <1>1, <2>1
  <1>7. new \in Samples
    BY <1>3, <1>6 DEF Samples
  <1> QED BY <1>4, <1>5, <1>6, <1>7

\* As happens to the window of arrivals, and to that of opportunities.
LEMMA NotedFacts ==
  ASSUME clock \in Nat, NEW w, NEW samples \in Samples
  PROVE  Noted(w, samples) \in Samples /\ Len(Noted(w, samples)) >= 2
  <1>1. now \in Int
    BY RouterAssumption, SMT DEF now
  <1> QED BY <1>1, ForgottenFacts, JoinedFacts DEF Noted

\* The average of numbers is no less than the least of them.
LEMMA AverageIsAtLeast ==
  ASSUME NEW s \in Samples, NEW b \in Int, \A k \in 1..Len(s) : s[k] >= b
  PROVE  SumOf(s) \div Len(s) \in Int /\ SumOf(s) \div Len(s) >= b
  <1> DEFINE n == Len(s)
             T == {k \in Nat : k <= n => First(s, k) >= b * k}
  <1>1. n \in Nat /\ n >= 1 /\ s \in [1..n -> Int]
    BY DEF Samples
  <1>2. SumOf(s) = First(s, n)
    <2>1. s = [j \in 1..n |-> s[j]]
      BY <1>1
    <2>2. First(s, n) = Total(s)
      BY <2>1 DEF First
    <2> QED BY <2>2 DEF SumOf, Total
  <1>3. 0 \in T
    <2>1. First(s, 0) = 0 /\ b * 0 = 0
      BY FirstNone, SMT
    <2> QED BY <2>1
  <1>4. ASSUME NEW k \in Nat, k \in T
        PROVE  k + 1 \in T
    <2> SUFFICES ASSUME k + 1 <= n
                 PROVE  First(s, k + 1) >= b * (k + 1)
      OBVIOUS
    <2>1. k \in 0..(n - 1) /\ k \in 0..n /\ k + 1 \in 1..n /\ First(s, k) >= b * k
      BY <1>1, <1>4
    <2>2. First(s, k) \in Int
      BY <1>1, <2>1, FirstIsASum
    <2>3. First(s, k + 1) = First(s, k) + s[k + 1]
      <3> HIDE DEF n
      <3> QED BY <1>1, <2>1, FirstAdds
    <2>4. s[k + 1] \in Int /\ s[k + 1] >= b
      BY <1>1, <2>1
    <2>5. b * (k + 1) = b * k + b /\ b * k \in Int
      BY SMT
    <2> QED BY <2>1, <2>2, <2>3, <2>4, <2>5
  <1>5. First(s, n) >= b * n
    <2>1. \A k \in Nat : k \in T
      <3> HIDE DEF T
      <3> QED BY <1>3, <1>4, Induction
    <2> QED BY <1>1, <2>1
  <1> DEFINE a == First(s, n)
             q == a \div n
             r == a % n
  <1>6. a \in Int /\ n \in 0..n
    <2>1. n \in 0..n
      BY <1>1
    <2> HIDE DEF n
    <2> QED BY <1>1, <2>1, FirstIsASum
  <1> HIDE DEF a, n
  <1>7. q \in Int /\ r \in Int /\ a = n * q + r /\ 0 <= r /\ r < n
    BY <1>1, <1>6, Parts
  <1> HIDE DEF q, r
  <1>8. q >= b
    <2> SUFFICES ASSUME q - b <= -1
                 PROVE  FALSE
      BY <1>7
    <2>1. n * (q - b) <= - n
      BY <1>1, <1>7, SMT
    <2>2. n * q = n * (q - b) + b * n /\ n * (q - b) \in Int /\ b * n \in Int
      BY <1>1, <1>7, SMT
    <2>3. a >= b * n
      BY <1>5 DEF a
    <2> QED BY <1>1, <1>7, <2>1, <2>2, <2>3
  <1> QED BY <1>2, <1>7, <1>8 DEF q, a, n

\* The present time is a number.
LEMMA NowIsANumber ==
  ASSUME clock \in Nat
  PROVE  now \in Nat
  BY RouterAssumption, SMT DEF now

\* An opportunity joins its windows, used or not.
LEMMA OpportunityKeeps ==
  ASSUME clock \in Nat, WindowsKept, Opportunity
  PROVE  /\ real_dq_queue' \in Samples /\ Len(real_dq_queue') >= 2
         /\ real_dq_queue_our_scheme' \in Samples
         /\ kind = "rcp" => Len(real_dq_queue_our_scheme') >= 2
  BY NotedFacts DEF WindowsKept, Opportunity

\* A departure joins its windows, and its round trip took no less than the path.
LEMMA RoundTripsKeep ==
  ASSUME clock \in Nat, RoundTripsKept, NEW p \in Headers,
         RoundTrips(p, Forgotten(avg_rtt, rate_dq_queue))
  PROVE  /\ rate_dq_queue' \in Samples /\ rtt_avg' \in Samples
         /\ Len(rtt_avg') = Len(rate_dq_queue')
         /\ \A k \in 1..Len(rtt_avg') : rtt_avg'[k] >= Long
         /\ Average \in Int /\ Average >= Long
  <1> DEFINE n == Forgotten(avg_rtt, rate_dq_queue)
             trip == Long + ((now - p.at) % Wrap)
  <1>1. /\ rate_dq_queue \in Samples /\ rtt_avg \in Samples
        /\ Len(rtt_avg) = Len(rate_dq_queue)
        /\ \A k \in 1..Len(rtt_avg) : rtt_avg[k] >= Long
    BY DEF RoundTripsKept
  <1>2. n \in 0..(Len(rate_dq_queue) - 1) /\ n \in 0..(Len(rtt_avg) - 1)
    BY <1>1, ForgottenFacts
  <1>3. now \in Int /\ p.at \in Int /\ Long \in Int
    BY NowIsANumber, RateAssumption DEF Headers
  <1>4. trip \in Int /\ trip >= Long
    <2>1. (now - p.at) % Wrap \in Int /\ (now - p.at) % Wrap >= 0
      BY <1>3, RouterAssumption, Parts
    <2> QED BY <1>3, <2>1
  <1>5. /\ rate_dq_queue' = Joined(avg_rtt, rate_dq_queue, now, n)
        /\ rtt_avg' = Joined(avg_rtt, rtt_avg, trip, n)
    BY DEF RoundTrips
  <1> HIDE DEF n, trip
  <1>6. rate_dq_queue' \in Samples /\ Len(rate_dq_queue') = Len(rate_dq_queue) - n + 1
    BY <1>1, <1>2, <1>3, <1>5, JoinedFacts
  <1>7. rtt_avg' \in Samples /\ Len(rtt_avg') = Len(rtt_avg) - n + 1
    BY <1>1, <1>2, <1>4, <1>5, JoinedFacts
  <1>8. ASSUME NEW k \in 1..Len(rtt_avg')
        PROVE  rtt_avg'[k] >= Long
    <2>1. rtt_avg'[k] = trip \/ \E j \in 1..Len(rtt_avg) : rtt_avg'[k] = rtt_avg[j]
      BY <1>1, <1>2, <1>4, <1>5, JoinedFacts
    <2> QED BY <1>1, <1>4, <2>1
  <1>9. Len(rtt_avg') = Len(rate_dq_queue')
    BY <1>1, <1>6, <1>7
  <1>10. Average \in Int /\ Average >= Long
    BY <1>3, <1>7, <1>8, <1>9, AverageIsAtLeast DEF Average
  <1> QED BY <1>6, <1>7, <1>8, <1>9, <1>10

\* The product of positive numbers divides.
LEMMA Quotients ==
  ASSUME NEW a \in Int, NEW n \in Int, n > 0
  PROVE  a \div n \in Int /\ (a >= 0 => a \div n >= 0)
  BY Parts

\* The law of RCP divides by what was served, and by the round trip, which are not
\* zero; its rate is at least a twentieth of a packet.
LEMMA RcpRateIsPositive ==
  ASSUME real_dq_queue' \in Samples, Len(real_dq_queue') >= 2, eq_queue \in Samples,
         queue'.packets \in Int, target_rate \in Int, NEW avg \in Int, avg >= Long
  PROVE  RcpRate(avg) \in Nat
  <1> DEFINE n == Len(real_dq_queue') - 1
             m == Len(eq_queue) - 1
             gain == Alpha * (95 * n - 100 * m) * avg - 100 * Beta * queue'.packets * Long
             top == target_rate * Long * gain
             bottom == 9500 * n * avg * avg
             moved == target_rate + (top \div bottom)
  <1>0. Long \in Nat \ {0} /\ Alpha \in Int /\ Beta \in Int /\ Unit \in Nat
    BY RateAssumption
  <1>1. n \in Int /\ n >= 1 /\ m \in Int /\ avg >= 1
    BY <1>0 DEF Samples
  <1> HIDE DEF n, m
  <1>2. top \in Int
    <2>1. Alpha * (95 * n - 100 * m) * avg \in Int
      BY <1>0, <1>1, SMT
    <2>2. 100 * Beta * queue'.packets * Long \in Int
      BY <1>0, SMT
    <2>3. gain \in Int
      BY <2>1, <2>2
    <2> HIDE DEF gain
    <2> QED BY <1>0, <2>3, SMT
  <1>3. bottom \in Int /\ bottom > 0
    <2>1. 9500 * n \in Int /\ 9500 * n >= 1
      BY <1>1
    <2>2. \A x, y \in Int : x >= 1 /\ y >= 1 => x * y \in Int /\ x * y >= 1
      BY SMT
    <2>3. (9500 * n) * avg \in Int /\ (9500 * n) * avg >= 1
      BY <1>1, <2>1, <2>2
    <2>4. ((9500 * n) * avg) * avg \in Int /\ ((9500 * n) * avg) * avg >= 1
      BY <1>1, <2>2, <2>3
    <2> QED BY <2>4
  <1>4. RcpRate(avg) = AtLeast(Unit \div 20, moved)
    BY DEF RcpRate, n, m
  <1> HIDE DEF top, bottom
  <1>5. moved \in Int
    BY <1>2, <1>3, Quotients
  <1>6. Unit \div 20 \in Nat
    BY <1>0, Quotients
  <1> HIDE DEF moved
  <1> QED BY <1>4, <1>5, <1>6 DEF AtLeast

\* The target that ABC would have is at least a hundredth of a packet.
LEMMA AbcRateIsPositive ==
  ASSUME real_dq_queue_our_scheme' \in Samples, queue'.packets \in Int
  PROVE  AbcRate \in Nat
  <1> DEFINE k == Len(real_dq_queue_our_scheme') - 1
             late == AtMost(0, QdelayRef * k - (queue'.packets + 1) * Short)
             rate == (98 * Unit * k + ((Beta * Unit * late) \div Long)) \div (100 * Short)
  <1>0. /\ Long \in Int /\ Long > 0 /\ Short \in Int /\ 100 * Short \in Int /\ 100 * Short > 0
        /\ Beta \in Int /\ Unit \in Nat /\ QdelayRef \in Int
    BY RateAssumption, RouterAssumption
  <1>1. k \in Int
    BY DEF Samples
  <1>2. AbcRate = AtLeast(Unit \div 100, rate)
    BY DEF AbcRate
  <1> HIDE DEF k
  <1>3. late \in Int
    <2>1. QdelayRef * k - (queue'.packets + 1) * Short \in Int
      BY <1>0, <1>1, SMT
    <2> QED BY <2>1 DEF AtMost
  <1> HIDE DEF late
  <1>4. rate \in Int
    <2>1. 98 * Unit * k \in Int /\ Beta * Unit * late \in Int
      BY <1>0, <1>1, <1>3, SMT
    <2>2. (Beta * Unit * late) \div Long \in Int
      BY <1>0, <2>1, Quotients
    <2>3. 98 * Unit * k + ((Beta * Unit * late) \div Long) \in Int
      BY <2>1, <2>2
    <2> QED BY <1>0, <2>3, Quotients
  <1>5. Unit \div 100 \in Nat
    BY <1>0, Quotients
  <1> HIDE DEF rate
  <1> QED BY <1>2, <1>4, <1>5 DEF AtLeast
----
(***************************************************************************)
(* The steps of the rate routers.                                          *)
(***************************************************************************)
\* What a router does with a packet p that leaves it.
Tells(p) == \E t : IsTarget(t) /\ coded' = Forwarded(p, t)

\* What is returned reads as the strictest of the path.
LEMMA ReturnDecides ==
  ASSUME kind \in Rates, kind' = kind, UpstreamFits, NEW p, Says(p, Hops), Tells(p)
  PROVE  PathDecides'
  <1>1. PICK t : IsTarget(t) /\ coded' = Forwarded(p, t)
    BY DEF Tells
  <1>2. Hops \in 0..Hops
    BY RateAssumption
  <1>3. Says(coded', Hops + 1)
    BY <1>1, <1>2, ForwardedSays
  <1>4. Decoded(coded'.cells) = coded'.least
    BY <1>3 DEF Says, Reads
  <1> QED BY <1>4 DEF PathDecides, Decoded

\* A departure from RCP.
LEMMA RcpDequeueKeeps ==
  ASSUME kind = "rcp", UNCHANGED <<kind, mode, eq_queue>>, clock \in Nat,
         WindowsKept, TargetKept, Opportunity, queue'.packets \in Int,
         NEW p \in Headers, RcpDequeue(p)
  PROVE  WindowsKept' /\ TargetKept' /\ Tells(p)
  <1> DEFINE due == now > (last_update + Long) % Wrap
             avg == IF due THEN Average ELSE avg_rtt
             rate == IF due /\ mode = 3 THEN RcpRate(avg) ELSE target_rate
  <1>1. /\ avg_rtt' = avg /\ target_rate' = IF mode = 1 THEN AbcRate ELSE rate
        /\ UNCHANGED <<dq_queue2, qsize_avg>> /\ coded' = Forwarded(p, target_rate')
        /\ RoundTrips(p, Forgotten(avg_rtt, rate_dq_queue))
    BY DEF RcpDequeue
  <1>2. /\ real_dq_queue' \in Samples /\ Len(real_dq_queue') >= 2
        /\ real_dq_queue_our_scheme' \in Samples
    BY OpportunityKeeps
  <1>3. /\ rate_dq_queue' \in Samples /\ rtt_avg' \in Samples
        /\ Len(rtt_avg') = Len(rate_dq_queue')
        /\ \A k \in 1..Len(rtt_avg') : rtt_avg'[k] >= Long
        /\ Average \in Int /\ Average >= Long
    BY <1>1, RoundTripsKeep DEF WindowsKept
  <1>4. avg \in Int /\ avg >= Long
    BY <1>3 DEF WindowsKept, RoundTripsKept
  <1> HIDE DEF due, avg
  <1>5. WindowsKept'
    BY <1>1, <1>2, <1>3, <1>4 DEF WindowsKept, RoundTripsKept
  <1>6. rate \in Nat
    <2>1. target_rate \in Nat
      BY DEF TargetKept
    <2>2. RcpRate(avg) \in Nat
      BY <1>2, <1>4, <2>1, RcpRateIsPositive DEF WindowsKept
    <2> QED BY <2>1, <2>2
  <1> HIDE DEF rate
  <1>7. target_rate' \in Nat
    BY <1>1, <1>2, <1>6, AbcRateIsPositive
  <1>8. TargetKept' /\ IsTarget(target_rate')
    BY <1>7 DEF TargetKept, IsTarget, Fits
  <1> QED BY <1>1, <1>5, <1>8 DEF Tells

\* There is a least of the lengths that XCP remembers.
LEMMA LeastSample ==
  ASSUME NEW s \in Samples, NEW values, values = {s[i] : i \in 1..Len(s)}
  PROVE  \E x \in values : x \in Int /\ \A y \in values : x <= y
  <1> DEFINE IsLeast(i, k) == \A j \in 1..k : s[i] <= s[j]
             T == {k \in Nat : k + 1 <= Len(s) => \E i \in 1..(k + 1) : IsLeast(i, k + 1)}
  <1>1. Len(s) \in Nat /\ Len(s) >= 1 /\ \A i \in 1..Len(s) : s[i] \in Int
    BY DEF Samples
  <1>2. 0 \in T
    <2>1. s[1] <= s[1] /\ 1 \in 1..(0 + 1) /\ \A j \in 1..(0 + 1) : j = 1
      BY <1>1
    <2> QED BY <2>1
  <1>3. ASSUME NEW k \in Nat, k \in T
        PROVE  k + 1 \in T
    <2> SUFFICES ASSUME (k + 1) + 1 <= Len(s)
                 PROVE  \E i \in 1..((k + 1) + 1) : IsLeast(i, (k + 1) + 1)
      OBVIOUS
    <2> DEFINE m == k + 1
    <2>1. /\ m \in Nat /\ m + 1 <= Len(s) /\ m + 1 \in 1..(m + 1)
          /\ \A j \in 1..(m + 1) : j \in 1..Len(s) /\ (j = m + 1 \/ j \in 1..m)
          /\ \A j \in 1..m : j \in 1..(m + 1)
      BY <1>1
    <2>2. PICK i \in 1..m : IsLeast(i, m)
      BY <1>1, <1>3
    <2> HIDE DEF m
    <2>3. s[i] \in Int /\ s[m + 1] \in Int
      BY <1>1, <2>1
    <2>4. CASE s[i] <= s[m + 1]
      <3>1. IsLeast(i, m + 1)
        BY <2>1, <2>2, <2>4
      <3> QED BY <2>1, <3>1 DEF m
    <2>5. CASE ~ (s[i] <= s[m + 1])
      <3>1. IsLeast(m + 1, m + 1)
        <4> SUFFICES ASSUME NEW g \in 1..(m + 1)
                     PROVE  s[m + 1] <= s[g]
          OBVIOUS
        <4>1. s[g] \in Int /\ (g = m + 1 \/ s[i] <= s[g])
          BY <1>1, <2>1, <2>2
        <4> QED BY <2>3, <2>5, <4>1
      <3> QED BY <2>1, <3>1 DEF m
    <2> QED BY <2>4, <2>5
  <1>4. Len(s) - 1 \in T
    <2>1. \A k \in Nat : k \in T
      <3> HIDE DEF T
      <3> QED BY <1>2, <1>3, Induction
    <2>2. Len(s) - 1 \in Nat
      BY <1>1
    <2> HIDE DEF T
    <2> QED BY <2>1, <2>2
  <1>5. PICK i \in 1..Len(s) : IsLeast(i, Len(s))
    <2>1. (Len(s) - 1) + 1 = Len(s) /\ Len(s) <= Len(s)
      BY <1>1
    <2> HIDE DEF IsLeast
    <2> QED BY <1>4, <2>1
  <1> QED BY <1>1, <1>5

\* A departure from XCP: what it asks for may be more than it can write down.
LEMMA XcpDequeueKeeps ==
  ASSUME kind = "xcp", UNCHANGED <<kind, mode, eq_queue>>, clock \in Nat,
         WindowsKept, TargetKept, Opportunity, queue'.packets \in Int,
         NEW p \in Headers, XcpDequeue(p)
  PROVE  WindowsKept' /\ TargetKept' /\ (Fits(- target_rate)' => Tells(p))
  <1> DEFINE n == Forgotten(Long, dq_queue2)
             spare == Len(real_dq_queue') - Len(eq_queue)
             lengths == {qsize_avg'[i] : i \in DOMAIN qsize_avg'}
             avg_qsize == Min(lengths)
             a == Unit * (Alpha * spare - Beta * avg_qsize)
             b == 100 * Len(rate_dq_queue')
  <1>1. /\ dq_queue2' = Joined(Long, dq_queue2, now, n)
        /\ qsize_avg' = Joined(Long, qsize_avg, queue'.packets, n)
        /\ avg_rtt' = Average /\ coded' = Forwarded(p, target_rate')
        /\ RoundTrips(p, Forgotten(avg_rtt, rate_dq_queue))
        /\ target_rate' = Truncated(a, b)
    BY DEF XcpDequeue
  <1>2. /\ real_dq_queue' \in Samples /\ real_dq_queue_our_scheme' \in Samples
    BY OpportunityKeeps
  <1>3. /\ rate_dq_queue' \in Samples /\ rtt_avg' \in Samples
        /\ Len(rtt_avg') = Len(rate_dq_queue')
        /\ \A k \in 1..Len(rtt_avg') : rtt_avg'[k] >= Long
        /\ Average \in Int /\ Average >= Long
    BY <1>1, RoundTripsKeep DEF WindowsKept
  <1>4. /\ dq_queue2' \in Samples /\ qsize_avg' \in Samples
        /\ Len(qsize_avg') = Len(dq_queue2')
    <2>1. /\ dq_queue2 \in Samples /\ qsize_avg \in Samples
          /\ Len(qsize_avg) = Len(dq_queue2)
      BY DEF WindowsKept
    <2>2. n \in 0..(Len(dq_queue2) - 1) /\ n \in 0..(Len(qsize_avg) - 1)
      BY <2>1, ForgottenFacts
    <2>3. now \in Int
      BY NowIsANumber
    <2> HIDE DEF n
    <2>4. dq_queue2' \in Samples /\ Len(dq_queue2') = Len(dq_queue2) - n + 1
      BY <1>1, <2>1, <2>2, <2>3, JoinedFacts
    <2>5. qsize_avg' \in Samples /\ Len(qsize_avg') = Len(qsize_avg) - n + 1
      BY <1>1, <2>1, <2>2, JoinedFacts
    <2> QED BY <2>1, <2>4, <2>5
  <1>5. WindowsKept'
    BY <1>1, <1>2, <1>3, <1>4 DEF WindowsKept, RoundTripsKept
  <1>6. avg_qsize \in Int
    <2>1. lengths = {qsize_avg'[i] : i \in 1..Len(qsize_avg')}
      <3>1. DOMAIN qsize_avg' = 1..Len(qsize_avg')
        BY <1>4 DEF Samples
      <3> QED BY <3>1
    <2>2. \E x \in lengths : x \in Int /\ \A y \in lengths : x <= y
      <3> HIDE DEF lengths
      <3> QED BY <1>4, <2>1, LeastSample
    <2> HIDE DEF lengths
    <2>3. Min(lengths) \in lengths /\ \A y \in lengths : Min(lengths) <= y
      BY <2>2 DEF Min
    <2>4. \A y \in lengths : y \in Int
      <3>1. \A i \in 1..Len(qsize_avg') : qsize_avg'[i] \in Int
        BY <1>4 DEF Samples
      <3> QED BY <2>1, <3>1
    <2> QED BY <2>3, <2>4
  <1>7. a \in Int /\ b \in Int /\ b > 0
    <2>1. spare \in Int /\ b \in Int /\ b > 0
      BY <1>2, <1>3 DEF Samples, WindowsKept
    <2> HIDE DEF spare, avg_qsize
    <2> QED BY <1>6, <2>1, RateAssumption, SMT
  <1> HIDE DEF a, b
  <1>8. target_rate' \in Int
    <2>1. \A x \in Int : x \div b \in Int
      BY <1>7, Quotients
    <2> QED BY <1>1, <1>7, <2>1 DEF Truncated
  <1>9. TargetKept'
    BY <1>8 DEF TargetKept
  <1>10. Fits(- target_rate)' => IsTarget(target_rate')
    BY <1>8 DEF IsTarget, Fits, Most
  <1> QED BY <1>1, <1>5, <1>9, <1>10 DEF Tells

\* A departure from VCP: one of three classes, the second for a third that is new.
LEMMA VcpDequeueKeeps ==
  ASSUME kind = "vcp", UNCHANGED <<kind, mode, eq_queue>>, clock \in Nat,
         WindowsKept, TargetKept, Opportunity, NEW p \in Headers, VcpDequeue(p)
  PROVE  WindowsKept' /\ TargetKept' /\ Tells(p)
  <1>1. /\ UNCHANGED <<rate_dq_queue, rtt_avg, dq_queue2, qsize_avg, avg_rtt>>
        /\ target_rate' \in {0, 1, 2} \/ target_rate' = target_rate
        /\ coded' = Forwarded(p, 1) \/ coded' = Forwarded(p, target_rate')
    BY DEF VcpDequeue
  <1>2. /\ real_dq_queue' \in Samples /\ real_dq_queue_our_scheme' \in Samples
    BY OpportunityKeeps
  <1>3. WindowsKept'
    BY <1>1, <1>2 DEF WindowsKept, RoundTripsKept
  <1>4. TargetKept' /\ target_rate' \in Nat
    BY <1>1 DEF TargetKept, Loads
  <1>5. IsTarget(1) /\ IsTarget(target_rate')
    BY <1>4 DEF IsTarget, Fits, TargetKept, Loads
  <1> QED BY <1>1, <1>3, <1>4, <1>5 DEF Tells
----
(***************************************************************************)
(* The path before the router.                                             *)
(***************************************************************************)
\* What routers before the k-th have made of a packet, for each k.
Hopped(f, fresh, path, k) ==
  f = [n \in 0..k |-> IF n = 0 THEN fresh ELSE Forwarded(f[n - 1], path[n])]

LEMMA HopsExist ==
  ASSUME NEW fresh, NEW path, NEW n \in Nat
  PROVE  \E f : Hopped(f, fresh, path, n)
  <1> DEFINE T == {k \in Nat : \E f : Hopped(f, fresh, path, k)}
  <1>1. 0 \in T
    <2> DEFINE g == [i \in 0..0 |-> fresh]
    <2>1. \A i \in 0..0 : i = 0
      OBVIOUS
    <2>2. Hopped(g, fresh, path, 0)
      BY <2>1 DEF Hopped
    <2> QED BY <2>2
  <1>2. ASSUME NEW k \in Nat, k \in T
        PROVE  k + 1 \in T
    <2>1. PICK f : Hopped(f, fresh, path, k)
      BY <1>2
    <2> DEFINE g == [i \in 0..(k + 1) |-> IF i = k + 1 THEN Forwarded(f[k], path[k + 1]) ELSE f[i]]
    <2>2. \A i \in 0..k : f[i] = IF i = 0 THEN fresh ELSE Forwarded(f[i - 1], path[i])
      BY <2>1 DEF Hopped
    <2>3. ASSUME NEW i \in 0..(k + 1)
          PROVE  g[i] = IF i = 0 THEN fresh ELSE Forwarded(g[i - 1], path[i])
      <3>1. CASE i = k + 1
        <4>1. i # 0 /\ i - 1 = k /\ k \in 0..(k + 1) /\ k # k + 1
          BY <3>1
        <4>2. g[i] = Forwarded(f[k], path[k + 1]) /\ g[k] = f[k]
          BY <3>1, <4>1
        <4> HIDE DEF g
        <4> QED BY <3>1, <4>1, <4>2
      <3>2. CASE i # k + 1
        <4>1. i \in 0..k /\ (i # 0 => i - 1 \in 0..(k + 1) /\ i - 1 # k + 1)
          BY <3>2
        <4>2. g[i] = f[i] /\ (i # 0 => g[i - 1] = f[i - 1])
          BY <3>2, <4>1
        <4> HIDE DEF g
        <4> QED BY <2>2, <4>1, <4>2
      <3> QED BY <3>1, <3>2
    <2>4. g = [i \in 0..(k + 1) |-> g[i]]
      OBVIOUS
    <2> HIDE DEF g
    <2>5. Hopped(g, fresh, path, k + 1)
      BY <2>3, <2>4 DEF Hopped
    <2> QED BY <2>5
  <1> HIDE DEF T
  <1>3. n \in T
    BY <1>1, <1>2, Induction
  <1> QED BY <1>3 DEF T

\* What the sender fills a packet with asks for the most there is to ask.
LEMMA FreshSays ==
  ASSUME kind \in Rates, clock \in Nat, arrived \in Nat, NEW size \in Lengths
  PROVE  Says([id |-> arrived + 1, size |-> size, at |-> now,
               cells |-> Blank, least |-> Most], 0)
  <1> DEFINE p == [id |-> arrived + 1, size |-> size, at |-> now,
                   cells |-> Blank, least |-> Most]
  <1>1. /\ Bits \in Nat /\ -1 \in -1..Bits /\ Bits \in -1..Bits
        /\ \A i \in -1..(Bits - 1) : i \in -1..Bits
        /\ \A i \in 0..(Bits - 1) : i \in -1..Bits
    BY RateAssumption
  <1>2. Blank \in Cells /\ \A i \in -1..Bits : Blank[i] = 0
    BY DEF Blank, Cells
  <1>3. Magnitude(Blank) = Power[Bits] - 1
    BY <1>1, <1>2, BlankSaysMost
  <1>4. Decoded(Blank) = Most
    <2>1. VcpRead(0) = 0
      BY RateAssumption DEF VcpRead, Char
    <2> QED BY <1>1, <1>2, <1>3, <2>1 DEF Decoded, Most, Rates
  <1>5. Most \in Nat
    BY <1>1, PowerFacts DEF Most
  <1>6. p \in Headers
    BY <1>2, <1>5, NowIsANumber DEF Headers
  <1>7. \A i \in -1..(Bits - 1) : Blank[i] \in 0..(2 * 0)
    BY <1>1, <1>2
  <1>8. Reads(Blank, Most, 0)
    <2>1. Most <= Most /\ - Most <= Most /\ Most >= 0
      BY <1>5
    <2>2. kind = "vcp" => Most \in Loads /\ Blank[Bits] = Most
      BY <1>1, <1>2 DEF Most, Loads
    <2> QED BY <1>1, <1>2, <1>4, <1>7, <2>1, <2>2 DEF Reads
  <1> QED BY <1>6, <1>8 DEF Says

\* What earlier routers ask for are numbers.
LEMMA AskedIsANumber ==
  ASSUME NEW t \in Asked
  PROVE  t \in Int
  <1>1. CASE t \in Targets
    BY <1>1, RateAssumption
  <1>2. CASE kind = "vcp"
    BY <1>2 DEF Asked, Loads
  <1>3. CASE t \notin Targets /\ kind # "vcp"
    <2>1. PICK u \in Targets : t = - u
      BY <1>3 DEF Asked
    <2> QED BY <2>1, RateAssumption
  <1> QED BY <1>1, <1>2, <1>3

\* What earlier routers ask for are targets.
LEMMA AskedIsATarget ==
  ASSUME kind \in Rates, UpstreamFits, NEW t \in Asked
  PROVE  IsTarget(t)
  <1>1. Most \in Nat
    BY PowerFacts, RateAssumption DEF Most
  <1>2. CASE kind = "xcp"
    <2>1. CASE t \in Targets
      <3>1. t \in Nat
        BY <2>1, RateAssumption
      <3> QED BY <1>1, <1>2, <3>1 DEF IsTarget, Fits
    <2>2. CASE t \notin Targets
      <3>1. PICK u \in Targets : t = - u
        BY <1>2, <2>2 DEF Asked
      <3>2. u \in Nat /\ u <= Most
        BY <1>2, RateAssumption DEF UpstreamFits, Fits
      <3> QED BY <1>1, <1>2, <3>1, <3>2 DEF IsTarget, Fits
    <2> QED BY <2>1, <2>2
  <1>3. CASE kind = "vcp"
    BY <1>3 DEF Asked, IsTarget, Fits, Loads
  <1>4. CASE kind = "rcp"
    <2>1. t \in Nat
      BY <1>4, RateAssumption DEF Asked
    <2> QED BY <1>4, <2>1 DEF IsTarget, Fits
  <1> QED BY <1>2, <1>3, <1>4 DEF Rates

\* A packet arrives with what the path has asked of it, if that can be written.
LEMMA TravelledSays ==
  ASSUME kind \in Rates, clock \in Nat, arrived \in Nat,
         NEW size \in Lengths, NEW path \in Upstream
  PROVE  /\ Travelled(size, path) \in Headers
         /\ UpstreamFits => Says(Travelled(size, path), Hops)
  <1> DEFINE fresh == [id |-> arrived + 1, size |-> size, at |-> now,
                       cells |-> Blank, least |-> Most]
             after == CHOOSE f : Hopped(f, fresh, path, Len(path))
             T == {k \in Nat : k <= Len(path) => /\ after[k] \in Headers
                                                 /\ UpstreamFits => Says(after[k], k)}
  <1>1. PICK m \in 0..Hops : path \in [1..m -> Asked]
    BY DEF Upstream
  <1>2. m \in Nat /\ Len(path) = m /\ Hops \in Nat /\ m <= Hops
    BY <1>1, RateAssumption
  <1>3. Travelled(size, path) = after[Len(path)]
    BY DEF Travelled, Hopped
  <1> HIDE DEF fresh
  <1>4. Hopped(after, fresh, path, Len(path))
    BY <1>2, HopsExist
  <1> HIDE DEF after
  <1>5. \A k \in 0..m : after[k] = IF k = 0 THEN fresh ELSE Forwarded(after[k - 1], path[k])
    BY <1>2, <1>4 DEF Hopped
  <1>6. 0 \in T
    <2>1. after[0] = fresh
      BY <1>2, <1>5
    <2>2. Says(fresh, 0) /\ fresh \in Headers
      BY FreshSays DEF fresh, Says
    <2> QED BY <2>1, <2>2
  <1>7. ASSUME NEW k \in Nat, k \in T
        PROVE  k + 1 \in T
    <2> SUFFICES ASSUME k + 1 <= Len(path)
                 PROVE  /\ after[k + 1] \in Headers
                        /\ UpstreamFits => Says(after[k + 1], k + 1)
      OBVIOUS
    <2>1. /\ k \in 0..Hops /\ k + 1 \in 0..m /\ k + 1 # 0 /\ (k + 1) - 1 = k
          /\ k + 1 \in 1..m /\ k <= Len(path)
      BY <1>2
    <2>2. after[k] \in Headers /\ (UpstreamFits => Says(after[k], k))
      BY <1>7, <2>1
    <2>3. path[k + 1] \in Int /\ (UpstreamFits => IsTarget(path[k + 1]))
      <3>1. path[k + 1] \in Asked
        BY <1>1, <2>1
      <3>2. path[k + 1] \in Int
        BY <3>1, AskedIsANumber
      <3> QED BY <3>1, <3>2, AskedIsATarget
    <2>4. after[k + 1] = Forwarded(after[k], path[k + 1])
      BY <1>5, <2>1
    <2>5. after[k + 1] \in Headers
      BY <2>2, <2>3, <2>4, ForwardedIsHeader
    <2>6. UpstreamFits => Says(after[k + 1], k + 1)
      BY <2>1, <2>2, <2>3, <2>4, ForwardedSays
    <2> QED BY <2>5, <2>6
  <1>8. after[m] \in Headers /\ (UpstreamFits => Says(after[m], m))
    <2>1. \A k \in Nat : k \in T
      <3> HIDE DEF T
      <3> QED BY <1>6, <1>7, Induction
    <2> QED BY <1>2, <2>1
  <1>9. UpstreamFits => Says(after[m], Hops)
    <2>1. 0..(2 * m) \subseteq 0..(2 * Hops)
      BY <1>2
    <2> QED BY <1>8, <2>1 DEF Says, Reads
  <1> QED BY <1>2, <1>3, <1>8, <1>9
----
(***************************************************************************)
(* The invariant.                                                          *)
(***************************************************************************)
\* The constructors.
LEMMA InitRates == RoutersInit => RatesIInv
  <1> SUFFICES ASSUME RoutersInit
               PROVE  RatesIInv
    OBVIOUS
  <1>0. Init /\ RateInit
    BY DEF RoutersInit
  <1>1. clock = 0 /\ arrived = 0 /\ queue = EmptyQueue
    BY <1>0 DEF Init, RouterInit
  <1>2. coded = <<>>
    BY <1>0 DEF RateInit
  <1>3. QueueSays
    BY <1>1 DEF QueueSays, EmptyQueue
  <1>4. Long \in Int /\ Unit \div 2 \in Nat
    BY RateAssumption, Quotients
  <1>5. <<0>> \in Samples /\ <<Long>> \in Samples /\ Len(<<0>>) = 1 /\ Len(<<Long>>) = 1
        /\ \A k \in 1..Len(<<Long>>) : <<Long>>[k] = Long
    BY <1>4 DEF Samples
  <1>6. WindowsKept
    <2>1. /\ eq_queue = <<0>> /\ rate_dq_queue = <<0>> /\ real_dq_queue = <<0>>
          /\ real_dq_queue_our_scheme = <<0>> /\ dq_queue2 = <<0>> /\ qsize_avg = <<0>>
          /\ rtt_avg = <<Long>> /\ avg_rtt = Long
      BY <1>0 DEF RateInit
    <2>2. Long >= Long
      BY <1>4
    <2> QED BY <1>4, <1>5, <2>1, <2>2 DEF WindowsKept, RoundTripsKept
  <1>7. TargetKept
    BY <1>0, <1>4 DEF RateInit, TargetKept, Loads
  <1> QED BY <1>1, <1>2, <1>3, <1>6, <1>7 DEF RatesIInv, PathDecides

\* An arrival.
LEMMA RateArriveKeeps ==
  ASSUME kind \in Rates, RatesIInv,
         NEW size \in Lengths, NEW path \in Upstream, RateArrive(size, path)
  PROVE  RatesIInv'
  <1> DEFINE p == Travelled(size, path)
  <1>1. /\ clock \in Nat /\ arrived \in Nat /\ QueueSays /\ WindowsKept /\ TargetKept
    BY DEF RatesIInv
  <1>2. p \in Headers /\ (UpstreamFits => Says(p, Hops))
    BY <1>1, TravelledSays
  <1>3. /\ queue' = TailEnqueue(queue, p) /\ arrived' = arrived + 1 /\ coded' = <<>>
        /\ UNCHANGED <<kind, clock, real_dq_queue, real_dq_queue_our_scheme,
                       rate_dq_queue, dq_queue2, qsize_avg, rtt_avg, avg_rtt, target_rate>>
        /\ eq_queue' = eq_queue \/ eq_queue' = Noted(EqWindow, eq_queue)
    BY DEF RateArrive, RateEnqueue, law
  <1> HIDE DEF p
  <1>4. WindowsKept' /\ TargetKept'
    BY <1>1, <1>3, NotedFacts DEF WindowsKept, RoundTripsKept, TargetKept
  <1>5. /\ queue'.packets \in Int
        /\ queue'.pkts \in Seq({q \in Headers : UpstreamFits => Says(q, Hops)})
    <2> DEFINE S == {q \in Headers : UpstreamFits => Says(q, Hops)}
    <2>1. p \in S /\ queue.pkts \in Seq(S) /\ queue.packets \in Int
      BY <1>1, <1>2 DEF QueueSays
    <2> HIDE DEF S
    <2>2. Append(queue.pkts, p) \in Seq(S)
      BY <2>1
    <2>3. queue'.packets \in Int /\ queue'.pkts \in Seq(S)
      BY <1>3, <2>1, <2>2 DEF TailEnqueue, Accept
    <2> QED BY <2>3 DEF S
  <1>6. QueueSays'
    BY <1>3, <1>5 DEF QueueSays, UpstreamFits, Fits, Says, Reads, Decoded, Most
  <1>7. PathDecides'
    BY <1>3 DEF PathDecides
  <1>8. clock' \in Nat /\ arrived' \in Nat /\ kind' \in Rates
    BY <1>1, <1>3
  <1> QED BY <1>4, <1>6, <1>7, <1>8 DEF RatesIInv

\* An opportunity that finds no packet.
LEMMA RateIdleKeeps ==
  ASSUME kind \in Rates, RatesIInv, RateIdle, UNCHANGED <<clock, arrived>>
  PROVE  RatesIInv'
  <1>1. /\ clock \in Nat /\ arrived \in Nat /\ QueueSays /\ WindowsKept /\ TargetKept
    BY DEF RatesIInv
  <1>2. /\ Opportunity /\ coded' = <<>>
        /\ UNCHANGED <<queue, kind, eq_queue, rate_dq_queue, dq_queue2, qsize_avg,
                       rtt_avg, avg_rtt, target_rate>>
    BY DEF RateIdle, law
  <1>3. real_dq_queue' \in Samples /\ real_dq_queue_our_scheme' \in Samples
    BY <1>1, <1>2, OpportunityKeeps
  <1>4. WindowsKept' /\ TargetKept'
    BY <1>1, <1>2, <1>3 DEF WindowsKept, RoundTripsKept, TargetKept
  <1>5. QueueSays'
    BY <1>1, <1>2 DEF QueueSays, UpstreamFits, Fits, Says, Reads, Decoded, Most
  <1>6. PathDecides'
    BY <1>2 DEF PathDecides
  <1>7. clock' \in Nat /\ arrived' \in Nat /\ kind' \in Rates
    BY <1>1, <1>2
  <1> QED BY <1>4, <1>5, <1>6, <1>7 DEF RatesIInv

\* The passing of time.
LEMMA RateTickKeeps ==
  ASSUME kind \in Rates, RatesIInv, RateTick
  PROVE  RatesIInv'
  <1>1. /\ arrived \in Nat /\ QueueSays /\ WindowsKept /\ TargetKept
    BY DEF RatesIInv
  <1>2. /\ coded' = <<>> /\ clock' \in Nat
        /\ UNCHANGED <<queue, arrived, kind, windows, avg_rtt, target_rate>>
    BY DEF RateTick, law
  <1>3. WindowsKept' /\ TargetKept'
    BY <1>1, <1>2 DEF WindowsKept, RoundTripsKept, TargetKept, windows
  <1>4. QueueSays'
    BY <1>1, <1>2 DEF QueueSays, UpstreamFits, Fits, Says, Reads, Decoded, Most
  <1>5. PathDecides'
    BY <1>2 DEF PathDecides
  <1> QED BY <1>1, <1>2, <1>3, <1>4, <1>5 DEF RatesIInv

\* A departure.
LEMMA RateDequeueKeeps ==
  ASSUME kind \in Rates, RatesIInv, RateDequeue, UNCHANGED <<clock, arrived>>
  PROVE  RatesIInv'
  <1> DEFINE p == Front(queue)
             S == {q \in Headers : UpstreamFits => Says(q, Hops)}
  <1>1. /\ clock \in Nat /\ arrived \in Nat /\ QueueSays /\ WindowsKept /\ TargetKept
    BY DEF RatesIInv
  <1>2. /\ queue.pkts # <<>> /\ queue' = Dequeued(queue) /\ Opportunity
        /\ UNCHANGED <<kind, mode, eq_queue>>
        /\ kind = "rcp" => RcpDequeue(p)
        /\ kind = "xcp" => XcpDequeue(p)
        /\ kind = "vcp" => VcpDequeue(p)
    BY DEF RateDequeue, IsEmpty
  <1>3. queue.pkts \in Seq(S) /\ queue.packets \in Int
    BY <1>1 DEF QueueSays
  <1>4. p \in S /\ queue'.pkts \in Seq(S) /\ queue'.packets \in Int
    <2> HIDE DEF S
    <2> QED BY <1>2, <1>3 DEF Front, Dequeued
  <1>5. p \in Headers /\ (UpstreamFits => Says(p, Hops))
    BY <1>4
  <1>6. QueueSays'
    BY <1>2, <1>4 DEF QueueSays, UpstreamFits, Fits, Says, Reads, Decoded, Most
  <1> HIDE DEF p, S
  <1>7. WindowsKept' /\ TargetKept' /\ (Fits(- target_rate)' => Tells(p))
    <2>1. CASE kind = "rcp"
      BY <1>1, <1>2, <1>4, <1>5, <2>1, RcpDequeueKeeps
    <2>2. CASE kind = "xcp"
      BY <1>1, <1>2, <1>4, <1>5, <2>2, XcpDequeueKeeps
    <2>3. CASE kind = "vcp"
      BY <1>1, <1>2, <1>4, <1>5, <2>3, VcpDequeueKeeps
    <2> QED BY <2>1, <2>2, <2>3 DEF Rates
  <1>8. FeedbackFits' => PathDecides'
    <2> SUFFICES ASSUME FeedbackFits'
                 PROVE  PathDecides'
      OBVIOUS
    <2>1. UpstreamFits /\ Fits(- target_rate)'
      BY <1>2 DEF FeedbackFits, UpstreamFits, Fits, Most, LoadFits
    <2> QED BY <1>2, <1>5, <1>7, <2>1, ReturnDecides
  <1>9. clock' \in Nat /\ arrived' \in Nat /\ kind' \in Rates
    BY <1>1, <1>2
  <1> QED BY <1>6, <1>7, <1>8, <1>9 DEF RatesIInv

\* Every step of every router.
LEMMA NextKeepsRates == RatesIInv /\ [RoutersNext]_<<vars, rateVars, weightedVars>> => RatesIInv'
  <1> SUFFICES ASSUME RatesIInv, [RoutersNext]_<<vars, rateVars, weightedVars>>
               PROVE  RatesIInv'
    OBVIOUS
  <1>1. CASE kind \notin Rates
    <2>1. UNCHANGED <<kind, coded>>
      BY <1>1 DEF RoutersNext, rateVars, Rates
    <2> QED BY <1>1, <2>1 DEF RatesIInv
  <1>2. CASE kind \in Rates
    <2>1. CASE UNCHANGED <<vars, rateVars, weightedVars>>
      BY <2>1 DEF vars, router, rateVars, windows, law, RatesIInv, QueueSays, Says, Reads,
                  Decoded, Most, WindowsKept, RoundTripsKept, TargetKept, UpstreamFits,
                  FeedbackFits, Fits, PathDecides, IsCoded
    <2>2. CASE RateNext
      BY <1>2, <2>2, RateArriveKeeps, RateIdleKeeps, RateDequeueKeeps, RateTickKeeps
         DEF RateNext, unused
    <2> QED BY <1>2, <2>1, <2>2 DEF RoutersNext, Rates
  <1> QED BY <1>1, <1>2

\* No law of RCP, VCP or XCP divides by zero: a window keeps a sample, and a second
\* once the present time is noted, and an average of round trips is no less than
\* what a packet needs without a queue.  RCP asks for no negative rate, for which
\* its header has no sign.
THEOREM RateLawsAreDefined ==
  RoutersSpec => [](kind \in Rates => WindowsKept /\ TargetKept)
  <1>1. RatesIInv => (kind \in Rates => WindowsKept /\ TargetKept)
    BY DEF RatesIInv
  <1> QED BY <1>1, InitRates, NextKeepsRates, PTL DEF RoutersSpec

\* What leaves RCP, VCP or XCP reads as the strictest that any router of its path
\* asked for, over any number of bits, hops and targets, and any windows.  XCP is
\* to ask for nothing below what its bits hold, for the code would write such a
\* number without its highest bits; and the byte that fills a packet is to be two
\* away from the ends of a signed byte, or VCP reads the load it wrote as none.
THEOREM PathIsRead == RoutersSpec => [](FeedbackFits => PathDecides)
  <1>1. RatesIInv => (FeedbackFits => PathDecides)
    BY DEF RatesIInv, PathDecides
  <1> QED BY <1>1, InitRates, NextKeepsRates, PTL DEF RoutersSpec
====
