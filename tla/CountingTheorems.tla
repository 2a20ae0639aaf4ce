---------------------------- MODULE CountingTheorems ----------------------------
(***************************************************************************)
(* What the proofs need to know of minima, of induction over naturals and    *)
(* finite sets, and of sums over a finite set.  The induction principles take *)
(* the set of what the property holds for where the library's take the        *)
(* property itself.                                                         *)
(***************************************************************************)
EXTENDS Naturals, FiniteSetsExt, FiniteSetTheorems, WellFoundedInduction, TLAPS

(* A non-empty set of naturals has a minimum. *)
LEMMA MinInSet ==
  ASSUME NEW S \in SUBSET Nat, S # {}
  PROVE  Min(S) \in S /\ \A y \in S : Min(S) =< y
<1>1. PICK x \in S : \A y \in S : ~(<<y, x>> \in OpToRel(<, Nat))
  BY NatLessThanWellFounded, WFMin
<1>2. ASSUME NEW y \in S
      PROVE  x =< y
  <2>1. ~(y < x)
    <3>1. SUFFICES ASSUME y < x
                   PROVE  <<y, x>> \in OpToRel(<, Nat)
      BY <1>1
    <3>2. <<y, x>> \in Nat \X Nat /\ <<y, x>>[1] < <<y, x>>[2]
      BY <3>1
    <3> QED
      BY <3>2 DEF OpToRel
  <2> QED
    BY <2>1
<1> QED
  BY <1>2 DEF Min

(* A set of naturals with 0 and every successor of its members is Nat. *)
LEMMA NatSetInduction ==
  ASSUME NEW G \in SUBSET Nat, 0 \in G, \A n \in G : n + 1 \in G
  PROVE  \A n \in Nat : n \in G
<1>1. SUFFICES ASSUME Nat \ G # {}
               PROVE  FALSE
  OBVIOUS
<1> DEFINE m == Min(Nat \ G)
<1>2. m \in Nat \ G /\ \A y \in Nat \ G : m =< y
  BY <1>1, MinInSet
<1>3. m # 0 /\ m - 1 \in Nat
  BY <1>2
<1>4. m - 1 \in G
  BY <1>2, <1>3
<1>5. m = (m - 1) + 1
  BY <1>2
<1> QED
  BY <1>2, <1>4, <1>5

(* A recursion over an interval, from b and then step by step, has a solution. *)
Solutions(N, T, b, step) ==
  {f \in [0..N -> T] : f[0] = b /\ \A i \in 1..N : f[i] = step[<<i, f[i - 1]>>]}

LEMMA FiniteRecursion ==
  ASSUME NEW N \in Nat, NEW T, NEW b \in T, NEW step \in [(1..N) \X T -> T]
  PROVE  Solutions(N, T, b, step) # {}
<1> DEFINE Solves(f, n) ==
             /\ f \in [0..n -> T]
             /\ f[0] = b /\ \A i \in 1..n : f[i] = step[<<i, f[i - 1]>>]
           G == {n \in Nat : n <= N => \E f : Solves(f, n)}
<1>1. 0 \in G
  <2>1. Solves([i \in 0..0 |-> b], 0)
    OBVIOUS
  <2> QED
    BY <2>1
<1>2. ASSUME NEW n \in G
      PROVE  n + 1 \in G
  <2>1. SUFFICES ASSUME n + 1 <= N
                 PROVE  \E f : Solves(f, n + 1)
    OBVIOUS
  <2>2. PICK f : Solves(f, n)
    BY <2>1
  <2> DEFINE g == [i \in 0..(n + 1) |-> IF i = n + 1 THEN step[<<n + 1, f[n]>>] ELSE f[i]]
  <2>3. f[n] \in T /\ step[<<n + 1, f[n]>>] \in T
    BY <2>1, <2>2
  <2>4. g \in [0..(n + 1) -> T] /\ g[0] = b
    BY <2>2, <2>3
  <2>5. ASSUME NEW i \in 1..(n + 1)
        PROVE  g[i] = step[<<i, g[i - 1]>>]
    <3>1. CASE i = n + 1
      <4>1. i - 1 = n /\ n \in 0..(n + 1) /\ n # n + 1 /\ i \in 0..(n + 1)
        BY <3>1
      <4>2. g[n] = f[n]
        BY <4>1
      <4>3. g[i] = step[<<n + 1, f[n]>>]
        BY <3>1, <4>1
      <4> HIDE DEF g
      <4> QED
        BY <3>1, <4>1, <4>2, <4>3
    <3>2. CASE i # n + 1
      <4>1. i \in 1..n /\ i - 1 \in 0..n
        BY <3>2
      <4>2. g[i] = f[i] /\ g[i - 1] = f[i - 1]
        BY <4>1
      <4> QED
        BY <2>2, <4>1, <4>2
    <3> QED
      BY <3>1, <3>2
  <2>6. Solves(g, n + 1)
    BY <2>4, <2>5
  <2> QED
    BY <2>6
<1>3. G \in SUBSET Nat
  OBVIOUS
<1>4. N \in G
  <2> HIDE DEF G
  <2> QED
    BY <1>1, <1>2, <1>3, NatSetInduction
<1>5. PICK f : Solves(f, N)
  BY <1>4
<1>6. f \in Solutions(N, T, b, step)
  BY <1>5 DEF Solutions
<1> QED
  BY <1>6

(* A family of subsets of a finite set with the empty set, and with a set     *)
(* whenever it has that set without any one element, is the whole family.     *)
LEMMA SetInduction ==
  ASSUME NEW S, IsFiniteSet(S), NEW G \in SUBSET (SUBSET S),
         {} \in G,
         \A T \in SUBSET S : T # {} /\ (\A x \in T : T \ {x} \in G) => T \in G
  PROVE  \A T \in SUBSET S : T \in G
<1> DEFINE H == {n \in Nat : \A T \in SUBSET S : Cardinality(T) = n => T \in G}
<1>1. \A T \in SUBSET S : IsFiniteSet(T) /\ Cardinality(T) \in Nat
  BY FS_Subset, FS_CardinalityType
<1>2. 0 \in H
  BY <1>1, FS_EmptySet
<1>3. ASSUME NEW n \in H
      PROVE  n + 1 \in H
  <2>1. SUFFICES ASSUME NEW T \in SUBSET S, Cardinality(T) = n + 1
                 PROVE  T \in G
    OBVIOUS
  <2>2. T # {}
    BY <2>1, FS_EmptySet
  <2>3. ASSUME NEW x \in T
        PROVE  T \ {x} \in G
    <3>1. Cardinality(T \ {x}) = Cardinality(T) - 1
      BY <1>1, FS_RemoveElement
    <3> QED
      BY <2>1, <3>1
  <2> QED
    BY <2>2, <2>3
<1>4. \A n \in Nat : n \in H
  <2>1. H \in SUBSET Nat
    OBVIOUS
  <2> HIDE DEF H
  <2> QED
    BY <1>2, <1>3, <2>1, NatSetInduction
<1> QED
  BY <1>1, <1>4

-------------------------------------------------------------------------------
(* The sum of v over S, as the number of pairs of an element and one of its   *)
(* units: what a sum is told by without recursion.                           *)
Units(v, S) == {u \in S \X Nat : u[2] \in 1..v[u[1]]}

(* Taking one element out of the set takes its units out of the pairs. *)
LEMMA UnitsSplit ==
  ASSUME NEW S, NEW v \in [S -> Nat], NEW T \in SUBSET S, NEW x \in T
  PROVE  /\ Units(v, T) = Units(v, T \ {x}) \cup ({x} \X (1..v[x]))
         /\ Units(v, T \ {x}) \cap ({x} \X (1..v[x])) = {}
<1>1. v[x] \in Nat /\ 1..v[x] \subseteq Nat
  OBVIOUS
<1>2. ASSUME NEW u
      PROVE  u \in Units(v, T) <=> u \in Units(v, T \ {x}) \cup ({x} \X (1..v[x]))
  BY <1>1 DEF Units
<1> QED
  BY <1>2 DEF Units

LEMMA UnitsCounted ==
  ASSUME NEW S, IsFiniteSet(S), NEW v \in [S -> Nat]
  PROVE  \A T \in SUBSET S :
           /\ IsFiniteSet(Units(v, T)) /\ Cardinality(Units(v, T)) \in Nat
           /\ \A x \in T : Cardinality(Units(v, T))
                             = v[x] + Cardinality(Units(v, T \ {x}))
<1> DEFINE G == {T \in SUBSET S : IsFiniteSet(Units(v, T))}
<1>1. ASSUME NEW T \in SUBSET S, NEW x \in T
      PROVE  /\ IsFiniteSet({x} \X (1..v[x]))
             /\ Cardinality({x} \X (1..v[x])) = v[x]
  <2>1. v[x] \in Nat
    OBVIOUS
  <2>2. IsFiniteSet(1..v[x]) /\ Cardinality(1..v[x]) = v[x]
    BY <2>1, FS_Interval
  <2>3. IsFiniteSet({x}) /\ Cardinality({x}) = 1
    BY FS_Singleton
  <2>4. Cardinality({x} \X (1..v[x])) = Cardinality({x}) * Cardinality(1..v[x])
    BY <2>2, <2>3, FS_Product
  <2>5. IsFiniteSet({x} \X (1..v[x]))
    BY <2>2, <2>3, FS_Product
  <2>6. Cardinality({x} \X (1..v[x])) = 1 * v[x]
    BY <2>2, <2>3, <2>4
  <2> QED
    BY <2>1, <2>5, <2>6
<1>2. \A T \in SUBSET S : T \in G
  <2>1. {} \in G
    BY FS_EmptySet DEF Units
  <2>2. ASSUME NEW T \in SUBSET S, T # {}, \A x \in T : T \ {x} \in G
        PROVE  T \in G
    <3>1. PICK x \in T : TRUE
      BY <2>2
    <3>2. IsFiniteSet(Units(v, T \ {x})) /\ IsFiniteSet({x} \X (1..v[x]))
      BY <1>1, <2>2
    <3>3. IsFiniteSet(Units(v, T \ {x}) \cup ({x} \X (1..v[x])))
      BY <3>2, FS_Union
    <3> QED
      BY <3>3, UnitsSplit
  <2>3. G \in SUBSET (SUBSET S)
    OBVIOUS
  <2> HIDE DEF G
  <2> QED
    BY <2>1, <2>2, <2>3, SetInduction
<1>3. \A T \in SUBSET S : IsFiniteSet(Units(v, T)) /\ Cardinality(Units(v, T)) \in Nat
  BY <1>2, FS_CardinalityType
<1>4. ASSUME NEW T \in SUBSET S, NEW x \in T
      PROVE  Cardinality(Units(v, T)) = v[x] + Cardinality(Units(v, T \ {x}))
  <2> DEFINE A == Units(v, T \ {x})
             B == {x} \X (1..v[x])
  <2>1. IsFiniteSet(A) /\ Cardinality(A) \in Nat
    BY <1>3
  <2>2. IsFiniteSet(B) /\ Cardinality(B) = v[x] /\ v[x] \in Nat
    BY <1>1
  <2>3. Units(v, T) = A \cup B /\ A \cap B = {}
    BY UnitsSplit
  <2> HIDE DEF A, B
  <2>4. Cardinality(A \cup B) = Cardinality(A) + Cardinality(B) - Cardinality(A \cap B)
    BY <2>1, <2>2, FS_Union
  <2>5. Cardinality(A \cup B) = v[x] + Cardinality(A)
    <3>1. Cardinality(A \cap B) = 0
      BY <2>3, FS_EmptySet
    <3>2. Cardinality(A \cup B) = Cardinality(A) + v[x] - 0
      BY <2>2, <2>4, <3>1
    <3> QED
      BY <2>1, <2>2, <3>2
  <2> QED
    BY <2>3, <2>5 DEF A
<1> QED
  BY <1>3, <1>4

(* A sum is the number of units. *)
LEMMA SumIsUnits ==
  ASSUME NEW S, IsFiniteSet(S), NEW v \in [S -> Nat]
  PROVE  MapThenSumSet(LAMBDA s : v[s], S) = Cardinality(Units(v, S))
<1> DEFINE iterates(iter) ==
             iter = [T \in SUBSET S |->
                       IF T = {} THEN 0
                       ELSE v[CHOOSE x \in T : TRUE] + iter[T \ {CHOOSE x \in T : TRUE}]]
           iter == CHOOSE i : iterates(i)
           g == [T \in SUBSET S |-> Cardinality(Units(v, T))]
<1>1. MapThenSumSet(LAMBDA s : v[s], S) = iter[S]
  BY DEF MapThenSumSet, MapThenFoldSet
<1>2. iterates(g)
  <2>1. ASSUME NEW T \in SUBSET S
        PROVE  g[T] = IF T = {} THEN 0
                      ELSE v[CHOOSE x \in T : TRUE] + g[T \ {CHOOSE x \in T : TRUE}]
    <3>1. CASE T = {}
      BY <3>1, FS_EmptySet DEF Units
    <3>2. CASE T # {}
      <4> DEFINE x == CHOOSE x \in T : TRUE
      <4>1. x \in T
        BY <3>2
      <4> HIDE DEF x
      <4>2. T \ {x} \in SUBSET S
        OBVIOUS
      <4>3. g[T] = v[x] + g[T \ {x}]
        BY <4>1, <4>2, UnitsCounted
      <4> QED
        BY <3>2, <4>3 DEF x
    <3> QED
      BY <3>1, <3>2
  <2> QED
    BY <2>1
<1>3. iterates(iter)
  BY <1>2
<1> DEFINE G == {T \in SUBSET S : iter[T] = Cardinality(Units(v, T))}
<1>4. \A T \in SUBSET S : T \in G
  <2>1. {} \in G
    BY <1>3, FS_EmptySet DEF Units
  <2>2. ASSUME NEW T \in SUBSET S, T # {},
               \A x \in T : T \ {x} \in G
        PROVE  T \in G
    <3> DEFINE x == CHOOSE x \in T : TRUE
    <3>1. x \in T
      BY <2>2
    <3>2. iter[T] = v[x] + iter[T \ {x}]
      BY <1>3, <2>2
    <3> HIDE DEF x
    <3>3. iter[T \ {x}] = Cardinality(Units(v, T \ {x}))
      BY <2>2, <3>1
    <3> QED
      BY <3>1, <3>2, <3>3, UnitsCounted
  <2>3. G \in SUBSET (SUBSET S)
    OBVIOUS
  <2> HIDE DEF G
  <2> QED
    BY <2>1, <2>2, <2>3, SetInduction
<1>5. S \in G
  BY <1>4
<1> QED
  BY <1>1, <1>5

(* When one element counts for more or less, so does the sum. *)
LEMMA SumMoves ==
  ASSUME NEW S, IsFiniteSet(S), NEW v \in [S -> Nat], NEW w \in [S -> Nat],
         NEW x \in S, \A s \in S \ {x} : w[s] = v[s]
  PROVE  Cardinality(Units(w, S)) + v[x] = Cardinality(Units(v, S)) + w[x]
<1>1. Units(w, S \ {x}) = Units(v, S \ {x})
  BY DEF Units
<1>2. Cardinality(Units(v, S)) = v[x] + Cardinality(Units(v, S \ {x}))
  BY UnitsCounted
<1>3. Cardinality(Units(w, S)) = w[x] + Cardinality(Units(w, S \ {x}))
  BY UnitsCounted
<1>4. Cardinality(Units(v, S \ {x})) \in Nat /\ v[x] \in Nat /\ w[x] \in Nat
  BY UnitsCounted
<1> QED
  BY <1>1, <1>2, <1>3, <1>4

(* When no element counts for more, the sum does not either. *)
LEMMA SumKept ==
  ASSUME NEW S, IsFiniteSet(S), NEW v \in [S -> Nat], NEW w \in [S -> Nat],
         \A s \in S : w[s] =< v[s]
  PROVE  Cardinality(Units(w, S)) =< Cardinality(Units(v, S))
<1>1. Units(w, S) \subseteq Units(v, S)
  BY DEF Units
<1> QED
  BY <1>1, UnitsCounted, FS_Subset

(* The others count for at most m each. *)
LEMMA SumOfOthers ==
  ASSUME NEW S, IsFiniteSet(S), NEW m \in Nat, NEW v \in [S -> Nat],
         \A s \in S : v[s] =< m, NEW x \in S
  PROVE  Cardinality(Units(v, S)) + m =< v[x] + Cardinality(S) * m
<1> DEFINE R == S \ {x}
           n == Cardinality(S)
           r == Cardinality(Units(v, R))
<1>1. n \in Nat /\ IsFiniteSet(R) /\ Cardinality(R) = n - 1 /\ n - 1 \in Nat
  <2>1. n \in Nat /\ n # 0
    BY FS_CardinalityType, FS_EmptySet
  <2>2. IsFiniteSet(R) /\ Cardinality(R) = n - 1
    BY FS_RemoveElement
  <2> QED
    BY <2>1, <2>2
<1>2. IsFiniteSet(1..m) /\ Cardinality(1..m) = m
  BY FS_Interval
<1>3. IsFiniteSet(R \X (1..m)) /\ Cardinality(R \X (1..m)) = Cardinality(R) * Cardinality(1..m)
  BY <1>1, <1>2, FS_Product
<1>4. Units(v, R) \subseteq R \X (1..m)
  BY DEF Units
<1>5. r =< Cardinality(R \X (1..m))
  BY <1>3, <1>4, FS_Subset
<1>6. Cardinality(Units(v, S)) = v[x] + r /\ r \in Nat /\ v[x] \in Nat
  BY UnitsCounted
<1>7. r =< (n - 1) * m
  BY <1>1, <1>2, <1>3, <1>5
<1> HIDE DEF R, n, r
<1>8. (n - 1) * m = n * m - m /\ n * m \in Int
  BY <1>1
<1>9. Cardinality(Units(v, S)) + m =< v[x] + n * m
  BY <1>6, <1>7, <1>8
<1> QED
  BY <1>9 DEF n

-------------------------------------------------------------------------------
(* A finite, non-empty set of naturals has a maximum. *)
LEMMA MaxInSet ==
  ASSUME NEW S \in SUBSET Nat, IsFiniteSet(S), S # {}
  PROVE  \E m \in S : \A y \in S : y =< m
<1> DEFINE G == {T \in SUBSET S : T = {} \/ \E m \in T : \A y \in T : y =< m}
<1>1. ASSUME NEW T \in SUBSET S, T # {}, \A x \in T : T \ {x} \in G
      PROVE  T \in G
  <2>1. PICK x \in T : TRUE
    BY <1>1
  <2>2. CASE T \ {x} = {}
    BY <2>2
  <2>3. CASE T \ {x} # {}
    <3>1. PICK m \in T \ {x} : \A y \in T \ {x} : y =< m
      BY <1>1, <2>3
    <3>2. \A y \in T : y =< (IF m < x THEN x ELSE m)
      BY <3>1
    <3> QED
      BY <3>1, <3>2
  <2> QED
    BY <2>2, <2>3
<1>2. {} \in G /\ G \in SUBSET (SUBSET S)
  OBVIOUS
<1>3. S \in G
  <2> HIDE DEF G
  <2> QED
    BY <1>1, <1>2, SetInduction
<1> QED
  BY <1>3

(* The first n in an order are no more than n. *)
LEMMA OldestBounded ==
  ASSUME NEW S \in SUBSET Nat, IsFiniteSet(S), NEW n \in Nat
  PROVE  Cardinality({f \in S : Cardinality({g \in S : g < f}) < n}) =< n
<1> DEFINE O == {f \in S : Cardinality({g \in S : g < f}) < n}
<1>1. IsFiniteSet(O) /\ Cardinality(O) \in Nat
  BY FS_Subset, FS_CardinalityType
<1>2. CASE O = {}
  <2>1. Cardinality(O) = 0
    BY <1>2, FS_EmptySet
  <2> QED
    BY <2>1
<1>3. CASE O # {}
  <2>1. PICK m \in O : \A y \in O : y =< m
    BY <1>1, <1>3, MaxInSet
  <2> DEFINE B == {g \in S : g < m}
  <2>2. O \ {m} \subseteq B
    <3>1. O \subseteq S /\ S \subseteq Nat
      OBVIOUS
    <3> HIDE DEF O
    <3> QED
      BY <2>1, <3>1
  <2>3. IsFiniteSet(B) /\ Cardinality(B) \in Nat /\ Cardinality(B) < n
    BY <2>1, FS_Subset, FS_CardinalityType
  <2> HIDE DEF O, B
  <2>4. Cardinality(O \ {m}) = Cardinality(O) - 1
    BY <1>1, <2>1, FS_RemoveElement
  <2>5. Cardinality(O \ {m}) =< Cardinality(B)
    BY <2>2, <2>3, FS_Subset
  <2>6. Cardinality(O) =< n
    BY <1>1, <2>3, <2>4, <2>5
  <2> QED
    BY <2>6 DEF O
<1> QED
  BY <1>2, <1>3

(* A listing of the last n that is shorter than n has left nothing out. *)
LEMMA NewestComplete ==
  ASSUME NEW S \in SUBSET Nat, IsFiniteSet(S), NEW n \in Nat,
         Cardinality({f \in S : Cardinality({g \in S : g > f}) < n}) < n
  PROVE  {f \in S : Cardinality({g \in S : g > f}) < n} = S
<1> DEFINE L == {f \in S : Cardinality({g \in S : g > f}) < n}
<1>1. SUFFICES ASSUME S \ L # {}
               PROVE  FALSE
  OBVIOUS
<1>2. IsFiniteSet(S \ L) /\ IsFiniteSet(L) /\ Cardinality(L) \in Nat
  BY FS_Subset, FS_CardinalityType
<1>3. PICK m \in S \ L : \A y \in S \ L : y =< m
  BY <1>1, <1>2, MaxInSet
<1> DEFINE B == {g \in S : g > m}
<1>4. B \subseteq L
  <2>1. L \subseteq S /\ S \subseteq Nat
    OBVIOUS
  <2> HIDE DEF L
  <2>2. ASSUME NEW y \in S, y > m, y \notin L
        PROVE  FALSE
    <3>1. y =< m /\ y \in Nat /\ m \in Nat
      BY <1>3, <2>1, <2>2
    <3> QED
      BY <2>2, <3>1
  <2> QED
    BY <2>2
<1>5. IsFiniteSet(B) /\ Cardinality(B) \in Nat /\ ~(Cardinality(B) < n)
  BY <1>3, FS_Subset, FS_CardinalityType
<1>6. Cardinality(L) < n
  OBVIOUS
<1> HIDE DEF L, B
<1>7. Cardinality(B) =< Cardinality(L)
  BY <1>2, <1>4, FS_Subset
<1> QED
  BY <1>2, <1>5, <1>6, <1>7
-------------------------------------------------------------------------------
(* The rows P in progress and what each server of S has reserved stay within  *)
(* m for each server.                                                        *)
Within(S, m, P, v) ==
  Cardinality(P) + MapThenSumSet(LAMBDA s : v[s], S) <= Cardinality(S) * m

LEMMA WithinByUnits ==
  ASSUME NEW S, IsFiniteSet(S), NEW m \in Nat, NEW P, NEW v \in [S -> Nat]
  PROVE  Within(S, m, P, v)
           <=> Cardinality(P) + Cardinality(Units(v, S)) <= Cardinality(S) * m
<1>1. MapThenSumSet(LAMBDA s : v[s], S) = Cardinality(Units(v, S))
  BY SumIsUnits
<1> QED
  BY <1>1 DEF Within

(* Rows leave, reservations shrink. *)
LEMMA WithinKept ==
  ASSUME NEW S, IsFiniteSet(S), NEW m \in Nat,
         NEW P, IsFiniteSet(P), NEW Q \in SUBSET P,
         NEW v \in [S -> Nat], NEW w \in [S -> Nat], \A s \in S : w[s] =< v[s],
         Within(S, m, P, v)
  PROVE  Within(S, m, Q, w)
<1>1. Cardinality(Units(w, S)) =< Cardinality(Units(v, S))
  BY SumKept
<1>2. Cardinality(Q) =< Cardinality(P) /\ Cardinality(P) \in Nat /\ Cardinality(Q) \in Nat
  BY FS_Subset, FS_CardinalityType
<1>3. Cardinality(Units(w, S)) \in Nat /\ Cardinality(Units(v, S)) \in Nat
  BY UnitsCounted
<1>4. Cardinality(S) * m \in Int
  <2>1. Cardinality(S) \in Nat
    BY FS_CardinalityType
  <2> QED
    BY <2>1
<1>5. Cardinality(P) + Cardinality(Units(v, S)) <= Cardinality(S) * m
  BY WithinByUnits
<1>6. Cardinality(Q) + Cardinality(Units(w, S)) <= Cardinality(S) * m
  BY <1>1, <1>2, <1>3, <1>4, <1>5
<1> QED
  BY <1>6, WithinByUnits

(* What a server has reserved comes into progress. *)
LEMMA WithinCommitted ==
  ASSUME NEW S, IsFiniteSet(S), NEW m \in Nat,
         NEW P, IsFiniteSet(P), NEW B, IsFiniteSet(B), P \cap B = {},
         NEW v \in [S -> Nat], NEW w \in [S -> Nat],
         NEW x \in S, \A s \in S \ {x} : w[s] = v[s],
         v[x] = Cardinality(B), w[x] = 0,
         Within(S, m, P, v)
  PROVE  Within(S, m, P \cup B, w)
<1>1. Cardinality(Units(w, S)) + v[x] = Cardinality(Units(v, S)) + w[x]
  BY SumMoves
<1>2. Cardinality(P \cup B) = Cardinality(P) + Cardinality(B)
  <2>1. Cardinality(P \cup B) = Cardinality(P) + Cardinality(B) - Cardinality(P \cap B)
    BY FS_Union
  <2>2. Cardinality(P \cap B) = 0
    BY FS_EmptySet
  <2>3. Cardinality(P) \in Nat /\ Cardinality(B) \in Nat
    BY FS_CardinalityType
  <2> QED
    BY <2>1, <2>2, <2>3
<1>3. /\ Cardinality(Units(w, S)) \in Nat /\ Cardinality(Units(v, S)) \in Nat
      /\ Cardinality(P) \in Nat /\ Cardinality(B) \in Nat
  BY UnitsCounted, FS_CardinalityType
<1>4. Cardinality(P) + Cardinality(Units(v, S)) <= Cardinality(S) * m
  BY WithinByUnits
<1>5. Cardinality(P \cup B) + Cardinality(Units(w, S))
        = Cardinality(P) + Cardinality(Units(v, S))
  BY <1>1, <1>2, <1>3
<1> QED
  BY <1>4, <1>5, WithinByUnits

(* A server without a reservation sees what is in progress and reserves the   *)
(* rest of its own maximum, whatever the others have reserved.                *)
LEMMA WithinReserved ==
  ASSUME NEW S, IsFiniteSet(S), NEW m \in Nat, NEW P, IsFiniteSet(P),
         NEW v \in [S -> Nat], NEW w \in [S -> Nat], \A s \in S : v[s] =< m,
         NEW x \in S, \A s \in S \ {x} : w[s] = v[s],
         v[x] = 0, w[x] = IF Cardinality(P) >= m THEN 0 ELSE m - Cardinality(P),
         Within(S, m, P, v)
  PROVE  Within(S, m, P, w)
<1>1. Cardinality(Units(w, S)) + v[x] = Cardinality(Units(v, S)) + w[x]
  BY SumMoves
<1>2. /\ Cardinality(Units(w, S)) \in Nat /\ Cardinality(Units(v, S)) \in Nat
      /\ Cardinality(P) \in Nat
  BY UnitsCounted, FS_CardinalityType
<1>3. Cardinality(P) + Cardinality(Units(v, S)) <= Cardinality(S) * m
  BY WithinByUnits
<1>4. Cardinality(Units(v, S)) + m =< v[x] + Cardinality(S) * m
  BY SumOfOthers
<1>5. Cardinality(S) * m \in Int
  <2>1. Cardinality(S) \in Nat
    BY FS_CardinalityType
  <2> QED
    BY <2>1
<1>6. Cardinality(P) + Cardinality(Units(w, S)) <= Cardinality(S) * m
  BY <1>1, <1>2, <1>3, <1>4, <1>5
<1> QED
  BY <1>6, WithinByUnits
===============================================================================
