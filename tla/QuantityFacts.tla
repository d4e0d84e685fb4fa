---------------------------- MODULE QuantityFacts ----------------------------
(***************************************************************************)
(* Facts about the sums and the greedy loop of Quantities, for any finite  *)
(* set of rows.  SumOf counts units, so each fact about a sum is one about *)
(* the cardinality of a set of units.                                      *)
(***************************************************************************)
EXTENDS Quantities, FiniteSetTheorems, TLAPS

\* The units of finitely many rows (Sum over the rows of a query) are finite.
LEMMA UnitsFinite ==
    ASSUME NEW S, IsFiniteSet(S), NEW f, \A x \in S : f[x] \in Int
    PROVE  IsFiniteSet(Units(f, S))
<1> DEFINE U(x) == {x} \X (1 .. f[x])
           T == {U(x) : x \in S}
           g == [x \in S |-> U(x)]
<1>1. g \in Surjection(S, T)
  BY DEF Surjection
<1>2. IsFiniteSet(T)
  BY <1>1, FS_Surjection
<1>3. ASSUME NEW t \in T
      PROVE  IsFiniteSet(t)
  <2>1. PICK x \in S : t = U(x)
    OBVIOUS
  <2>2. IsFiniteSet(1 .. f[x])
    BY FS_Interval
  <2>3. IsFiniteSet({x})
    BY FS_Singleton
  <2> QED
    BY <2>1, <2>2, <2>3, FS_Product
<1>4. IsFiniteSet(UNION T)
  <2> HIDE DEF T
  <2> QED
    BY <1>2, <1>3, FS_UNION
<1> QED
  BY <1>4 DEF Units

\* A sum over finitely many rows is a natural number.
LEMMA SumType ==
    ASSUME NEW S, IsFiniteSet(S), NEW f, \A x \in S : f[x] \in Int
    PROVE  SumOf(f, S) \in Nat
BY UnitsFinite, FS_CardinalityType DEF SumOf

\* Rows with no more units have no larger sum (deallocation only frees).
LEMMA SumMonotone ==
    ASSUME NEW S, IsFiniteSet(S),
           NEW f, \A x \in S : f[x] \in Int,
           NEW g, \A x \in S : g[x] \in Int,
           \A x \in S : f[x] <= g[x]
    PROVE  SumOf(f, S) <= SumOf(g, S)
<1>1. Units(f, S) \in SUBSET Units(g, S)
  <2>1. ASSUME NEW x \in S
        PROVE  {x} \X (1 .. f[x]) \subseteq {x} \X (1 .. g[x])
    OBVIOUS
  <2> QED
    BY <2>1 DEF Units
<1> QED
  BY <1>1, UnitsFinite, FS_Subset DEF SumOf

\* Rows that hold nothing sum to zero (Coalesce(Sum(...), 0)).
LEMMA SumZero ==
    ASSUME NEW S, NEW f, \A x \in S : f[x] = 0
    PROVE  SumOf(f, S) = 0
<1>1. Units(f, S) = {}
  BY DEF Units
<1> QED
  BY <1>1, FS_EmptySet DEF SumOf

\* Adding units to one row adds as many to the sum (F("...") + quantity).
LEMMA SumIncrease ==
    ASSUME NEW S, IsFiniteSet(S), NEW k \in S,
           NEW f, \A x \in S : f[x] \in Nat,
           NEW g, \A x \in S : g[x] \in Nat,
           \A x \in S \ {k} : g[x] = f[x],
           f[k] <= g[k]
    PROVE  SumOf(g, S) = SumOf(f, S) + (g[k] - f[k])
<1> DEFINE More == {k} \X ((f[k] + 1) .. g[k])
<1>1. /\ IsFiniteSet(More)
      /\ Cardinality(More) = g[k] - f[k]
  <2> DEFINE I == (f[k] + 1) .. g[k]
  <2>1. IsFiniteSet(I) /\ Cardinality(I) = g[k] - f[k]
    BY FS_Interval
  <2>2. IsFiniteSet({k}) /\ Cardinality({k}) = 1
    BY FS_Singleton
  <2> HIDE DEF I
  <2>3. IsFiniteSet({k} \X I) /\ Cardinality({k} \X I) = 1 * Cardinality(I)
    BY <2>1, <2>2, FS_Product
  <2> QED
    BY <2>1, <2>3 DEF I
<1>2. Units(g, S) = Units(f, S) \cup More
  <2>1. ASSUME NEW u \in Units(g, S)
        PROVE  u \in Units(f, S) \cup More
    <3>1. PICK x \in S : u \in {x} \X (1 .. g[x])
      BY DEF Units
    <3>2. CASE x = k
      BY <3>1, <3>2 DEF Units
    <3>3. CASE x # k
      BY <3>1, <3>3 DEF Units
    <3> QED
      BY <3>2, <3>3
  <2>2. ASSUME NEW u \in Units(f, S)
        PROVE  u \in Units(g, S)
    <3>1. PICK x \in S : u \in {x} \X (1 .. f[x])
      BY DEF Units
    <3>2. u \in {x} \X (1 .. g[x])
      BY <3>1
    <3> QED
      BY <3>2 DEF Units
  <2>3. More \subseteq Units(g, S)
    BY DEF Units
  <2> QED
    BY <2>1, <2>2, <2>3
<1>3. Units(f, S) \cap More = {}
  BY DEF Units
<1>4. IsFiniteSet(Units(f, S)) /\ Cardinality(Units(f, S)) \in Nat
  BY UnitsFinite, FS_CardinalityType
<1> HIDE DEF More
<1>5. Cardinality(Units(g, S)) =
        Cardinality(Units(f, S)) + Cardinality(More) - Cardinality({})
  BY <1>1, <1>2, <1>3, <1>4, FS_Union
<1> QED
  BY <1>1, <1>4, <1>5, FS_EmptySet DEF SumOf

\* Rows with the same units have the same sum.
LEMMA SumSame ==
    ASSUME NEW S, NEW f, NEW g, \A x \in S : f[x] = g[x]
    PROVE  SumOf(f, S) = SumOf(g, S)
<1>1. Units(f, S) = Units(g, S)
  BY DEF Units
<1> QED
  BY <1>1 DEF SumOf

\* A row that changes changes the sum by as much.
LEMMA SumChange ==
    ASSUME NEW S, IsFiniteSet(S), NEW k \in S,
           NEW f, \A x \in S : f[x] \in Nat,
           NEW g, \A x \in S : g[x] \in Nat,
           \A x \in S \ {k} : g[x] = f[x]
    PROVE  SumOf(g, S) = SumOf(f, S) + (g[k] - f[k])
<1>1. f[k] \in Nat /\ g[k] \in Nat /\ SumOf(f, S) \in Nat /\ SumOf(g, S) \in Nat
  BY SumType
<1>2. CASE f[k] <= g[k]
  BY <1>2, SumIncrease
<1>3. CASE g[k] <= f[k]
  <2>1. SumOf(f, S) = SumOf(g, S) + (f[k] - g[k])
    BY <1>3, SumIncrease
  <2> QED
    BY <1>1, <2>1
<1> QED
  BY <1>1, <1>2, <1>3

\* No row holds more than all together.
LEMMA SumPart ==
    ASSUME NEW S, IsFiniteSet(S), NEW k \in S, NEW f, \A x \in S : f[x] \in Nat
    PROVE  f[k] <= SumOf(f, S)
<1> DEFINE g == [x \in S |-> IF x = k THEN 0 ELSE f[x]]
<1>1. /\ \A x \in S : g[x] \in Nat
      /\ \A x \in S \ {k} : g[x] = f[x]
      /\ g[k] = 0
  OBVIOUS
<1> HIDE DEF g
<1>2. SumOf(g, S) = SumOf(f, S) + (g[k] - f[k])
  BY <1>1, SumChange
<1>3. SumOf(f, S) \in Nat /\ SumOf(g, S) \in Nat /\ f[k] \in Nat
  BY <1>1, SumType
<1> QED
  BY <1>1, <1>2, <1>3

\* One row, or two, that hold all units.
LEMMA SumSingle ==
    ASSUME NEW S, IsFiniteSet(S), NEW k \in S, NEW f, f[k] \in Nat,
           \A x \in S \ {k} : f[x] = 0
    PROVE  SumOf(f, S) = f[k]
<1> DEFINE g == [x \in S |-> 0]
<1>1. \A x \in S : g[x] \in Nat /\ g[x] = 0
  OBVIOUS
<1>2. \A x \in S : f[x] \in Nat
  OBVIOUS
<1> HIDE DEF g
<1>3. SumOf(g, S) = 0
  BY <1>1, SumZero
<1>4. SumOf(f, S) = SumOf(g, S) + (f[k] - g[k])
  BY <1>1, <1>2, SumChange
<1> QED
  BY <1>1, <1>3, <1>4

LEMMA SumPair ==
    ASSUME NEW S, IsFiniteSet(S), NEW k \in S, NEW j \in S, j # k,
           NEW f, f[k] \in Nat, f[j] \in Nat,
           \A x \in S \ {j, k} : f[x] = 0
    PROVE  SumOf(f, S) = f[j] + f[k]
<1> DEFINE g == [x \in S |-> IF x = j THEN f[j] ELSE 0]
<1>1. /\ \A x \in S : g[x] \in Nat
      /\ \A x \in S \ {j} : g[x] = 0
      /\ g[j] = f[j] /\ g[k] = 0
      /\ \A x \in S \ {k} : f[x] = g[x]
  OBVIOUS
<1>2. \A x \in S : f[x] \in Nat
  OBVIOUS
<1> HIDE DEF g
<1>3. SumOf(g, S) = g[j]
  BY <1>1, SumSingle
<1>4. SumOf(f, S) = SumOf(g, S) + (f[k] - g[k])
  BY <1>1, <1>2, SumChange
<1> QED
  BY <1>1, <1>3, <1>4

\* Sums of two columns of the same rows add up.
LEMMA SumPlus ==
    ASSUME NEW S, IsFiniteSet(S),
           NEW f, \A x \in S : f[x] \in Nat,
           NEW g, \A x \in S : g[x] \in Nat,
           NEW h, \A x \in S : h[x] = f[x] + g[x]
    PROVE  SumOf(h, S) = SumOf(f, S) + SumOf(g, S)
<1> DEFINE Shift == [u \in Units(g, S) |-> <<u[1], f[u[1]] + u[2]>>]
           More == Units(h, S) \ Units(f, S)
<1>1. \A u : u \in Units(g, S) <=> \E x \in S : \E i \in 1 .. g[x] : u = <<x, i>>
  BY DEF Units
<1>2. \A u : u \in Units(f, S) <=> \E x \in S : \E i \in 1 .. f[x] : u = <<x, i>>
  BY DEF Units
<1>3. \A u : u \in Units(h, S) <=> \E x \in S : \E i \in 1 .. h[x] : u = <<x, i>>
  BY DEF Units
<1>4. \A u : u \in More <=> \E x \in S : \E i \in (f[x] + 1) .. h[x] : u = <<x, i>>
  <2>1. ASSUME NEW u \in More
        PROVE  \E x \in S : \E i \in (f[x] + 1) .. h[x] : u = <<x, i>>
    <3>1. PICK x \in S : \E i \in 1 .. h[x] : u = <<x, i>>
      BY <1>3
    <3>2. PICK i \in 1 .. h[x] : u = <<x, i>>
      BY <3>1
    <3>3. i \notin 1 .. f[x]
      BY <1>2, <3>2
    <3>4. f[x] \in Nat /\ h[x] \in Nat
      OBVIOUS
    <3>5. i \in (f[x] + 1) .. h[x]
      BY <3>3, <3>4
    <3> QED
      BY <3>2, <3>5
  <2>2. ASSUME NEW x \in S, NEW i \in (f[x] + 1) .. h[x]
        PROVE  <<x, i>> \in More
    <3>1. f[x] \in Nat /\ h[x] \in Nat
      OBVIOUS
    <3>2. i \in 1 .. h[x] /\ i \notin 1 .. f[x]
      BY <3>1
    <3> QED
      BY <1>2, <1>3, <3>2
  <2> QED
    BY <2>1, <2>2
<1> HIDE DEF More
<1>5. Shift \in Bijection(Units(g, S), More)
  <2>1. \A u \in Units(g, S) : Shift[u] \in More
    <3> SUFFICES ASSUME NEW u \in Units(g, S) PROVE Shift[u] \in More
      OBVIOUS
    <3>1. PICK x \in S : \E i \in 1 .. g[x] : u = <<x, i>>
      BY <1>1
    <3>2. PICK i \in 1 .. g[x] : u = <<x, i>>
      BY <3>1
    <3>3. f[x] \in Nat /\ g[x] \in Nat /\ h[x] = f[x] + g[x]
      OBVIOUS
    <3>4. Shift[u] = <<x, f[x] + i>> /\ f[x] + i \in (f[x] + 1) .. h[x]
      BY <3>2, <3>3
    <3> QED
      BY <1>4, <3>4
  <2>2. \A u, v \in Units(g, S) : Shift[u] = Shift[v] => u = v
    <3> SUFFICES ASSUME NEW u \in Units(g, S), NEW v \in Units(g, S),
                        Shift[u] = Shift[v]
                 PROVE  u = v
      OBVIOUS
    <3>1. PICK x \in S : \E i \in 1 .. g[x] : u = <<x, i>>
      BY <1>1
    <3>2. PICK i \in 1 .. g[x] : u = <<x, i>>
      BY <3>1
    <3>3. PICK y \in S : \E j \in 1 .. g[y] : v = <<y, j>>
      BY <1>1
    <3>4. PICK j \in 1 .. g[y] : v = <<y, j>>
      BY <3>3
    <3>5. x = y /\ f[x] + i = f[x] + j
      BY <3>2, <3>4
    <3>6. f[x] \in Nat /\ i \in Int /\ j \in Int
      OBVIOUS
    <3> QED
      BY <3>2, <3>4, <3>5, <3>6
  <2>3. \A w \in More : \E u \in Units(g, S) : Shift[u] = w
    <3> SUFFICES ASSUME NEW w \in More PROVE \E u \in Units(g, S) : Shift[u] = w
      OBVIOUS
    <3>1. PICK x \in S : \E i \in (f[x] + 1) .. h[x] : w = <<x, i>>
      BY <1>4
    <3>2. PICK i \in (f[x] + 1) .. h[x] : w = <<x, i>>
      BY <3>1
    <3>3. f[x] \in Nat /\ g[x] \in Nat /\ h[x] = f[x] + g[x]
      OBVIOUS
    <3>4. i - f[x] \in 1 .. g[x] /\ f[x] + (i - f[x]) = i
      BY <3>3
    <3>5. <<x, i - f[x]>> \in Units(g, S)
      BY <1>1, <3>4
    <3>6. Shift[<<x, i - f[x]>>] = w
      BY <3>2, <3>4, <3>5
    <3> QED
      BY <3>5, <3>6
  <2> QED
    BY <2>1, <2>2, <2>3 DEF Bijection, Injection, Surjection, IsInjective
<1> HIDE DEF Shift
<1>6. /\ IsFiniteSet(Units(f, S)) /\ IsFiniteSet(Units(g, S))
      /\ Cardinality(Units(f, S)) \in Nat /\ Cardinality(Units(g, S)) \in Nat
  BY UnitsFinite, FS_CardinalityType
<1>7. ExistsBijection(Units(g, S), More)
  BY <1>5 DEF ExistsBijection
<1>8. IsFiniteSet(More) /\ Cardinality(More) = Cardinality(Units(g, S))
  BY <1>6, <1>7, FS_Bijection
<1>9. Units(h, S) = Units(f, S) \cup More /\ Units(f, S) \cap More = {}
  <2>1. Units(f, S) \subseteq Units(h, S)
    <3> SUFFICES ASSUME NEW u \in Units(f, S) PROVE u \in Units(h, S)
      OBVIOUS
    <3>1. PICK x \in S : \E i \in 1 .. f[x] : u = <<x, i>>
      BY <1>2
    <3>2. f[x] \in Nat /\ g[x] \in Nat /\ h[x] = f[x] + g[x]
      OBVIOUS
    <3>3. \E i \in 1 .. h[x] : u = <<x, i>>
      BY <3>1, <3>2
    <3> QED
      BY <1>3, <3>3
  <2> QED
    BY <2>1 DEF More
<1>10. Cardinality(Units(h, S)) =
         Cardinality(Units(f, S)) + Cardinality(More) - Cardinality({})
  BY <1>6, <1>8, <1>9, FS_Union
<1> QED
  BY <1>6, <1>8, <1>10, FS_EmptySet DEF SumOf

\* A row that comes to the others adds what it holds.
LEMMA SumAdd ==
    ASSUME NEW S, IsFiniteSet(S), NEW k, k \notin S,
           NEW f, \A x \in S : f[x] \in Int,
           NEW g, \A x \in S : g[x] = f[x], g[k] \in Int
    PROVE  SumOf(g, S \cup {k}) = SumOf(f, S) + Pos(g[k])
<1> DEFINE More == {k} \X (1 .. g[k])
<1>1. IsFiniteSet(More) /\ Cardinality(More) = Pos(g[k])
  <2> DEFINE I == 1 .. g[k]
  <2>1. IsFiniteSet(I) /\ Cardinality(I) = Pos(g[k])
    BY FS_Interval DEF Pos
  <2>2. IsFiniteSet({k}) /\ Cardinality({k}) = 1
    BY FS_Singleton
  <2>3. Pos(g[k]) \in Nat
    BY DEF Pos
  <2> HIDE DEF I
  <2>4. IsFiniteSet({k} \X I) /\ Cardinality({k} \X I) = 1 * Cardinality(I)
    BY <2>1, <2>2, FS_Product
  <2> QED
    BY <2>1, <2>3, <2>4 DEF I
<1>2. Units(g, S \cup {k}) = Units(f, S) \cup More
  BY DEF Units
<1>3. Units(f, S) \cap More = {}
  BY DEF Units
<1>4. IsFiniteSet(Units(f, S)) /\ Cardinality(Units(f, S)) \in Nat
  BY UnitsFinite, FS_CardinalityType
<1>5. Pos(g[k]) \in Nat
  BY DEF Pos
<1> HIDE DEF More
<1>6. Cardinality(Units(g, S \cup {k})) =
        Cardinality(Units(f, S)) + Cardinality(More) - Cardinality({})
  BY <1>1, <1>2, <1>3, <1>4, FS_Union
<1> QED
  BY <1>1, <1>4, <1>5, <1>6, FS_EmptySet DEF SumOf

\* The rows that hold nothing can be left out, and the others named in
\* another way.
LEMMA SumRenamed ==
    ASSUME NEW S, NEW T, NEW R \in SUBSET T, IsFiniteSet(S),
           NEW h \in Bijection(S, R),
           NEW f, \A x \in S : f[x] \in Int,
           NEW g, \A x \in S : g[h[x]] = f[x], \A y \in T \ R : g[y] = 0
    PROVE  SumOf(g, T) = SumOf(f, S)
<1> DEFINE H == [u \in Units(f, S) |-> <<h[u[1]], u[2]>>]
<1>1. \A u : u \in Units(f, S) <=> \E x \in S : \E i \in 1 .. f[x] : u = <<x, i>>
  BY DEF Units
<1>2. \A u : u \in Units(g, T) <=> \E x \in S : \E i \in 1 .. f[x] : u = <<h[x], i>>
  <2>1. ASSUME NEW x \in S, NEW i \in 1 .. f[x]
        PROVE  <<h[x], i>> \in Units(g, T)
    <3>1. h[x] \in T /\ i \in 1 .. g[h[x]]
      BY DEF Bijection, Injection
    <3> QED
      BY <3>1 DEF Units
  <2>2. ASSUME NEW u \in Units(g, T)
        PROVE  \E x \in S : \E i \in 1 .. f[x] : u = <<h[x], i>>
    <3>1. PICK y \in T : \E i \in 1 .. g[y] : u = <<y, i>>
      BY DEF Units
    <3>2. y \in R
      BY <3>1
    <3>3. PICK x \in S : h[x] = y
      BY <3>2 DEF Bijection, Surjection
    <3> QED
      BY <3>1, <3>3
  <2> QED
    BY <2>1, <2>2
<1>3. H \in Bijection(Units(f, S), Units(g, T))
  <2>1. \A u \in Units(f, S) : H[u] \in Units(g, T)
    BY <1>1, <1>2
  <2>2. \A u, v \in Units(f, S) : H[u] = H[v] => u = v
    <3> SUFFICES ASSUME NEW u \in Units(f, S), NEW v \in Units(f, S), H[u] = H[v]
                 PROVE  u = v
      OBVIOUS
    <3>1. PICK x \in S : \E i \in 1 .. f[x] : u = <<x, i>>
      BY <1>1
    <3>2. PICK y \in S : \E i \in 1 .. f[y] : v = <<y, i>>
      BY <1>1
    <3>3. h[x] = h[y] /\ u = <<x, u[2]>> /\ v = <<y, v[2]>> /\ u[2] = v[2]
      BY <3>1, <3>2
    <3>4. x = y
      BY <3>3 DEF Bijection, Injection, IsInjective
    <3> QED
      BY <3>3, <3>4
  <2>3. \A w \in Units(g, T) : \E u \in Units(f, S) : H[u] = w
    <3> SUFFICES ASSUME NEW w \in Units(g, T)
                 PROVE  \E u \in Units(f, S) : H[u] = w
      OBVIOUS
    <3>1. PICK x \in S : \E i \in 1 .. f[x] : w = <<h[x], i>>
      BY <1>2
    <3>2. PICK i \in 1 .. f[x] : w = <<h[x], i>>
      BY <3>1
    <3>3. <<x, i>> \in Units(f, S) /\ H[<<x, i>>] = w
      BY <1>1, <3>2
    <3> QED
      BY <3>3
  <2> QED
    BY <2>1, <2>2, <2>3 DEF Bijection, Injection, Surjection, IsInjective
<1> HIDE DEF H
<1>4. ExistsBijection(Units(f, S), Units(g, T))
  BY <1>3 DEF ExistsBijection
<1> QED
  BY <1>4, UnitsFinite, FS_Bijection DEF SumOf

\* The same facts for amounts that may be negative.
LEMMA TotalType ==
    ASSUME NEW S, IsFiniteSet(S), NEW f, \A x \in S : f[x] \in Int
    PROVE  Total(f, S) \in Int
<1> DEFINE n == [x \in S |-> -f[x]]
<1>1. \A x \in S : n[x] \in Int
  OBVIOUS
<1> HIDE DEF n
<1>2. SumOf(f, S) \in Nat /\ SumOf(n, S) \in Nat
  BY <1>1, SumType
<1>3. SumOf(f, S) - SumOf(n, S) \in Int
  BY <1>2
<1> QED
  BY <1>3 DEF Total, n

LEMMA TotalAdd ==
    ASSUME NEW S, IsFiniteSet(S), NEW k, k \notin S,
           NEW f, \A x \in S : f[x] \in Int,
           NEW g, \A x \in S : g[x] = f[x], g[k] \in Int
    PROVE  Total(g, S \cup {k}) = Total(f, S) + g[k]
<1> DEFINE m == [x \in S |-> -f[x]]
           n == [x \in S \cup {k} |-> -g[x]]
<1>1. /\ \A x \in S : m[x] \in Int /\ n[x] = m[x]
      /\ n[k] = -g[k] /\ n[k] \in Int
  OBVIOUS
<1> HIDE DEF m, n
<1>2. SumOf(g, S \cup {k}) = SumOf(f, S) + Pos(g[k])
  BY SumAdd
<1>3. SumOf(n, S \cup {k}) = SumOf(m, S) + Pos(-g[k])
  BY <1>1, SumAdd
<1>4. SumOf(f, S) \in Nat /\ SumOf(m, S) \in Nat
  BY <1>1, SumType
<1>5. SumOf(g, S \cup {k}) - SumOf(n, S \cup {k}) = (SumOf(f, S) - SumOf(m, S)) + g[k]
  BY <1>2, <1>3, <1>4 DEF Pos
<1> QED
  BY <1>5 DEF Total, m, n

LEMMA TotalRenamed ==
    ASSUME NEW S, NEW T, NEW R \in SUBSET T, IsFiniteSet(S),
           NEW h \in Bijection(S, R),
           NEW f, \A x \in S : f[x] \in Int,
           NEW g, \A x \in S : g[h[x]] = f[x], \A y \in T \ R : g[y] = 0
    PROVE  Total(g, T) = Total(f, S)
<1> DEFINE m == [x \in S |-> -f[x]]
           n == [y \in T |-> -g[y]]
<1>1. \A x \in S : h[x] \in T
  BY DEF Bijection, Injection
<1>2. /\ \A x \in S : m[x] \in Int /\ n[h[x]] = m[x]
      /\ \A y \in T \ R : n[y] = 0
  BY <1>1
<1> HIDE DEF m, n
<1>3. SumOf(g, T) = SumOf(f, S)
  BY SumRenamed
<1>4. SumOf(n, T) = SumOf(m, S)
  BY <1>2, SumRenamed
<1> QED
  BY <1>3, <1>4 DEF Total, m, n

\* Amounts that are not negative have the same sum either way.
LEMMA TotalOfNat ==
    ASSUME NEW S, IsFiniteSet(S), NEW f, \A x \in S : f[x] \in Nat
    PROVE  Total(f, S) = SumOf(f, S)
<1> DEFINE n == [x \in S |-> -f[x]]
<1>1. Units(n, S) = {}
  <2>1. \A x \in S : 1 .. n[x] = {}
    OBVIOUS
  <2> HIDE DEF n
  <2> QED
    BY <2>1 DEF Units
<1>2. SumOf(n, S) = 0
  BY <1>1, FS_EmptySet DEF SumOf
<1> HIDE DEF n
<1>3. SumOf(f, S) \in Nat
  BY SumType
<1>4. Total(f, S) = SumOf(f, S) - SumOf(n, S)
  BY DEF Total, n
<1> QED
  BY <1>2, <1>3, <1>4

\* Some row has the least key (ORDER BY pk LIMIT 1).
LEMMA LeastNumber ==
    ASSUME NEW N \in SUBSET Nat, N # {}
    PROVE  \E n \in N : \A m \in N : n <= m
<1> DEFINE T == {1 .. n : n \in N}
<1>1. T \subseteq FiniteSubsetsOf(Nat) /\ T # {}
  <2>1. ASSUME NEW n \in N
        PROVE  1 .. n \in FiniteSubsetsOf(Nat)
    <3>1. IsFiniteSet(1 .. n)
      BY FS_Interval
    <3>2. 1 .. n \subseteq Nat
      OBVIOUS
    <3> QED
      BY <3>1, <3>2 DEF FiniteSubsetsOf
  <2> QED
    BY <2>1
<1>2. PICK t \in T : \A u \in T : ~(<<u, t>> \in StrictSubsetOrdering(Nat))
  <2> HIDE DEF T
  <2> QED
    BY <1>1, FS_StrictSubsetOrderingWellFounded, WFMin
<1>3. PICK n \in N : t = 1 .. n
  BY <1>2
<1>4. ASSUME NEW m \in N, ~(n <= m)
      PROVE  FALSE
  <2>1. 1 .. m \subseteq 1 .. n /\ 1 .. m # 1 .. n
    BY <1>4
  <2>2. <<1 .. m, 1 .. n>> \in StrictSubsetOrdering(Nat)
    BY <2>1 DEF StrictSubsetOrdering
  <2> QED
    BY <1>2, <1>3, <2>2
<1> QED
  BY <1>4

\* What the allocation loop takes from a row is never negative and never more
\* than the row offers.
LEMMA GreedyBounds ==
    ASSUME NEW S, IsFiniteSet(S), NEW q \in Int, NEW avail,
           \A x \in S : avail[x] \in Int,
           NEW earlier, NEW s \in S, earlier[s] \subseteq S
    PROVE  /\ Greedy(q, avail, earlier, S)[s] \in Nat
           /\ Greedy(q, avail, earlier, S)[s] <= Pos(avail[s])
<1>1. IsFiniteSet(earlier[s])
  BY FS_Subset
<1>2. SumOf(avail, earlier[s]) \in Nat
  BY <1>1, SumType
<1>3. Greedy(q, avail, earlier, S)[s]
        = Least(Pos(avail[s]), Pos(q - SumOf(avail, earlier[s])))
  BY DEF Greedy
<1> QED
  BY <1>2, <1>3 DEF Least, Pos

-----------------------------------------------------------------------------
(* Rows visited one after the other.                                       *)

\* Rows without units do not count.
LEMMA SumWithin ==
    ASSUME NEW S, NEW T, T \subseteq S, NEW f,
           \A x \in S : f[x] \in Int, \A x \in S \ T : f[x] <= 0
    PROVE  SumOf(f, S) = SumOf(f, T)
<1>1. \A x \in S \ T : {x} \X (1 .. f[x]) = {}
  OBVIOUS
<1>2. Units(f, S) = Units(f, T)
  BY <1>1 DEF Units
<1> QED
  BY <1>2 DEF SumOf

\* Fewer rows have no larger sum.
LEMMA SumSubset ==
    ASSUME NEW S, IsFiniteSet(S), NEW T, T \subseteq S, NEW f, \A x \in S : f[x] \in Int
    PROVE  SumOf(f, T) <= SumOf(f, S)
<1>1. Units(f, T) \in SUBSET Units(f, S)
  BY DEF Units
<1> QED
  BY <1>1, UnitsFinite, FS_Subset DEF SumOf

\* One more row adds its units.
LEMMA SumInsert ==
    ASSUME NEW T, IsFiniteSet(T), NEW k, k \notin T, NEW f, f[k] \in Nat,
           \A x \in T : f[x] \in Nat
    PROVE  SumOf(f, T \cup {k}) = SumOf(f, T) + f[k]
<1> DEFINE S == T \cup {k}
           h == [x \in S |-> IF x = k THEN 0 ELSE f[x]]
<1>1. IsFiniteSet(S) /\ k \in S /\ T \subseteq S
  BY FS_AddElement
<1>2. /\ \A x \in S : h[x] \in Nat
      /\ \A x \in S : f[x] \in Nat
      /\ \A x \in S : h[x] \in Int
      /\ \A x \in S \ {k} : f[x] = h[x]
      /\ \A x \in S \ T : h[x] <= 0
      /\ \A x \in T : h[x] = f[x]
      /\ h[k] = 0
  OBVIOUS
<1> HIDE DEF h, S
<1>3. SumOf(f, S) = SumOf(h, S) + (f[k] - h[k])
  BY <1>1, <1>2, SumChange
<1>4. SumOf(h, S) = SumOf(h, T)
  BY <1>1, <1>2, SumWithin
<1>5. SumOf(h, T) = SumOf(f, T)
  BY <1>2, SumSame
<1>6. SumOf(f, T) \in Nat
  BY SumType
<1> QED
  BY <1>2, <1>3, <1>4, <1>5, <1>6 DEF S

\* earlier[s] is what a loop over S has visited before s.
InTurn(earlier, S) ==
    /\ \A s \in S : earlier[s] \subseteq S /\ s \notin earlier[s]
    /\ \A s, t \in S : s = t \/ s \in earlier[t] \/ t \in earlier[s]
    /\ \A s, t \in S : s \in earlier[t] => earlier[s] \subseteq earlier[t]

\* Of some rows one is visited first ...
LEMMA FirstRow ==
    ASSUME NEW S, IsFiniteSet(S), NEW earlier, InTurn(earlier, S),
           NEW T, T \subseteq S, T # {}
    PROVE  \E t \in T : \A u \in T \ {t} : t \in earlier[u]
<1> DEFINE N == {Cardinality(earlier[t]) : t \in T}
<1>1. \A t \in S : earlier[t] \in SUBSET S /\ IsFiniteSet(earlier[t])
  BY FS_Subset DEF InTurn
<1>2. \A t \in S : Cardinality(earlier[t]) \in Nat
  BY <1>1, FS_CardinalityType
<1>3. N \in SUBSET Nat /\ N # {}
  BY <1>2
<1>4. PICK n \in N : \A m \in N : n <= m
  <2> HIDE DEF N
  <2> QED
    BY <1>3, LeastNumber
<1>5. PICK t \in T : n = Cardinality(earlier[t])
  BY <1>4
<1>6. ASSUME NEW u \in T \ {t}, t \notin earlier[u]
      PROVE  FALSE
  <2>1. u \in earlier[t] /\ u \notin earlier[u] /\ earlier[u] \in SUBSET earlier[t]
    BY <1>6 DEF InTurn
  <2>2. /\ Cardinality(earlier[u]) <= Cardinality(earlier[t])
        /\ Cardinality(earlier[t]) = Cardinality(earlier[u]) => earlier[t] = earlier[u]
    BY <1>1, <2>1, FS_Subset
  <2>3. Cardinality(earlier[t]) <= Cardinality(earlier[u])
    BY <1>4, <1>5
  <2>4. Cardinality(earlier[t]) \in Nat /\ Cardinality(earlier[u]) \in Nat
    BY <1>2
  <2> QED
    BY <2>1, <2>2, <2>3, <2>4
<1> QED
  BY <1>6

\* ... and one last.
LEMMA LastRow ==
    ASSUME NEW S, IsFiniteSet(S), NEW earlier, InTurn(earlier, S),
           NEW T, T \subseteq S, T # {}
    PROVE  \E t \in T : \A u \in T \ {t} : u \in earlier[t]
<1> DEFINE later == [s \in S |-> {t \in S : s \in earlier[t]}]
<1>1. InTurn(later, S)
  <2>1. \A s \in S : later[s] \subseteq S /\ s \notin later[s]
    BY DEF InTurn
  <2>2. \A s, t \in S : s = t \/ s \in later[t] \/ t \in later[s]
    BY DEF InTurn
  <2>3. \A s, t \in S : s \in later[t] => later[s] \subseteq later[t]
    BY DEF InTurn
  <2> HIDE DEF later
  <2> QED
    BY <2>1, <2>2, <2>3 DEF InTurn
<1>2. \A s, t \in S : s \in later[t] => t \in earlier[s]
  OBVIOUS
<1> HIDE DEF later
<1>3. \E t \in T : \A u \in T \ {t} : t \in later[u]
  BY <1>1, FirstRow
<1> QED
  BY <1>2, <1>3

\* The rows up to and including a row hold its units and those before it.
LEMMA SumUpTo ==
    ASSUME NEW S, IsFiniteSet(S), NEW earlier, InTurn(earlier, S),
           NEW f, \A x \in S : f[x] \in Nat, NEW s \in S
    PROVE  /\ SumOf(f, earlier[s]) \in Nat
           /\ SumOf(f, earlier[s] \cup {s}) = SumOf(f, earlier[s]) + f[s]
           /\ SumOf(f, earlier[s]) + f[s] <= SumOf(f, S)
           /\ \A t \in S : s \in earlier[t] =>
                 SumOf(f, earlier[s]) + f[s] <= SumOf(f, earlier[t])
<1> DEFINE E == earlier[s]
<1>1. E \in SUBSET S /\ s \notin E
  BY DEF InTurn
<1>2. IsFiniteSet(E)
  BY <1>1, FS_Subset
<1>3. \A x \in E : f[x] \in Nat
  BY <1>1
<1>4. \A x \in E : f[x] \in Int
  BY <1>3
<1> HIDE DEF E
<1>5. SumOf(f, E) \in Nat
  BY <1>2, <1>4, SumType
<1>6. SumOf(f, E \cup {s}) = SumOf(f, E) + f[s]
  BY <1>1, <1>2, <1>3, SumInsert
<1>7. E \cup {s} \subseteq S /\ \A x \in S : f[x] \in Int
  BY <1>1
<1>8. SumOf(f, E \cup {s}) <= SumOf(f, S)
  BY <1>7, SumSubset
<1>9. ASSUME NEW t \in S, s \in earlier[t]
      PROVE  SumOf(f, E \cup {s}) <= SumOf(f, earlier[t])
  <2>1. E \cup {s} \subseteq earlier[t] /\ earlier[t] \in SUBSET S
    BY <1>9 DEF InTurn, E
  <2>2. IsFiniteSet(earlier[t]) /\ \A x \in earlier[t] : f[x] \in Int
    BY <1>7, <2>1, FS_Subset
  <2> QED
    BY <2>1, <2>2, SumSubset
<1> QED
  BY <1>5, <1>6, <1>8, <1>9 DEF E

\* A demand that the rows cannot cover takes everything.
LEMMA GreedyAll ==
    ASSUME NEW S, IsFiniteSet(S), NEW earlier, InTurn(earlier, S),
           NEW avail, \A x \in S : avail[x] \in Nat,
           NEW q \in Nat, SumOf(avail, S) <= q, NEW s \in S
    PROVE  Greedy(q, avail, earlier, S)[s] = avail[s]
<1> DEFINE E == SumOf(avail, earlier[s])
<1>1. E \in Nat /\ E + avail[s] <= SumOf(avail, S) /\ avail[s] \in Nat
  BY SumUpTo
<1>2. SumOf(avail, S) \in Nat
  BY SumType
<1>3. Greedy(q, avail, earlier, S)[s] = Least(Pos(avail[s]), Pos(q - E))
  BY DEF Greedy
<1> HIDE DEF E
<1> QED
  BY <1>1, <1>2, <1>3 DEF Least, Pos

\* A demand that the rows can cover is met exactly.
LEMMA GreedyTotal ==
    ASSUME NEW S, IsFiniteSet(S), NEW earlier, InTurn(earlier, S),
           NEW avail, \A x \in S : avail[x] \in Nat,
           NEW q \in Nat, q <= SumOf(avail, S)
    PROVE  SumOf(Greedy(q, avail, earlier, S), S) = q
<1> DEFINE g == Greedy(q, avail, earlier, S)
           E(s) == SumOf(avail, earlier[s])
           T == {s \in S : q <= E(s) + avail[s]}
<1>1. \A s \in S : g[s] = Least(Pos(avail[s]), Pos(q - E(s)))
  BY DEF Greedy
<1>2. /\ \A s \in S : E(s) \in Nat
      /\ \A s \in S : SumOf(avail, earlier[s] \cup {s}) = E(s) + avail[s]
      /\ \A s \in S : E(s) + avail[s] <= SumOf(avail, S)
      /\ \A s, t \in S : s \in earlier[t] => E(s) + avail[s] <= E(t)
  <2>1. ASSUME NEW s \in S
        PROVE  /\ E(s) \in Nat
               /\ SumOf(avail, earlier[s] \cup {s}) = E(s) + avail[s]
               /\ E(s) + avail[s] <= SumOf(avail, S)
               /\ \A t \in S : s \in earlier[t] => E(s) + avail[s] <= E(t)
    BY SumUpTo
  <2> QED
    BY <2>1
<1>3. \A s \in S : avail[s] \in Nat
  OBVIOUS
<1> HIDE DEF g, E
<1>4. CASE q = 0
  <2>1. \A s \in S : g[s] = 0
    BY <1>1, <1>2, <1>3, <1>4 DEF Least, Pos
  <2> QED
    BY <1>4, <2>1, SumZero DEF g
<1>5. CASE q > 0
  <2>1. S # {}
    <3>1. S = {} => SumOf(avail, S) = 0
      BY SumZero
    <3> QED
      BY <1>5, <3>1
  <2>2. PICK z \in S : \A u \in S \ {z} : u \in earlier[z]
    BY <2>1, LastRow
  <2>3. earlier[z] \cup {z} = S
    BY <2>2 DEF InTurn
  <2>4. z \in T
    BY <1>2, <2>3
  <2>5. PICK k \in T : \A u \in T \ {k} : k \in earlier[u]
    <3>1. T \subseteq S /\ T # {}
      BY <2>4
    <3> HIDE DEF T
    <3> QED
      BY <3>1, FirstRow
  <2>6. k \in S /\ q <= E(k) + avail[k]
    OBVIOUS
  <2>7. E(k) < q
    <3>1. CASE earlier[k] = {}
      <4>1. E(k) = 0
        BY <3>1, SumZero DEF E
      <4> QED
        BY <1>5, <4>1
    <3>2. CASE earlier[k] # {}
      <4>1. earlier[k] \subseteq S
        BY <2>6 DEF InTurn
      <4>2. PICK t \in earlier[k] : \A u \in earlier[k] \ {t} : u \in earlier[t]
        BY <3>2, <4>1, LastRow
      <4>3. t \in S /\ earlier[k] = earlier[t] \cup {t}
        BY <2>6, <4>1, <4>2 DEF InTurn
      <4>4. E(k) = E(t) + avail[t]
        BY <1>2, <4>3 DEF E
      <4>5. t \notin T
        <5>1. t # k /\ ~(k \in earlier[t])
          BY <2>6, <4>2, <4>3 DEF InTurn
        <5> QED
          BY <2>5, <5>1
      <4>6. ~(q <= E(t) + avail[t])
        BY <4>3, <4>5
      <4> QED
        BY <1>2, <1>3, <4>3, <4>4, <4>6
    <3> QED
      BY <3>1, <3>2
  <2>8. g[k] = q - E(k) /\ g[k] \in Nat
    BY <1>1, <1>2, <1>3, <2>6, <2>7 DEF Least, Pos
  <2>9. ASSUME NEW t \in S, t \in earlier[k]
        PROVE  g[t] = avail[t]
    <3>1. E(t) + avail[t] <= E(k) /\ E(t) \in Nat /\ E(k) \in Nat /\ avail[t] \in Nat
      BY <1>2, <1>3, <2>6, <2>9
    <3>2. g[t] = Least(Pos(avail[t]), Pos(q - E(t)))
      BY <1>1
    <3> QED
      BY <2>7, <3>1, <3>2 DEF Least, Pos
  <2>10. ASSUME NEW t \in S, t # k, t \notin earlier[k]
         PROVE  g[t] = 0
    <3>1. k \in earlier[t]
      BY <2>6, <2>10 DEF InTurn
    <3>2. E(k) + avail[k] <= E(t) /\ E(t) \in Nat /\ E(k) \in Nat /\ avail[t] \in Nat
          /\ avail[k] \in Nat
      BY <1>2, <1>3, <2>6, <3>1
    <3>3. g[t] = Least(Pos(avail[t]), Pos(q - E(t)))
      BY <1>1
    <3> QED
      BY <2>6, <3>2, <3>3 DEF Least, Pos
  <2> DEFINE K == earlier[k]
             U == K \cup {k}
  <2>11. /\ K \in SUBSET S /\ k \notin K
    BY <2>6 DEF InTurn
  <2>12. IsFiniteSet(K)
    BY <2>11, FS_Subset
  <2>13. \A x \in K : g[x] = avail[x] /\ g[x] \in Nat
    BY <1>3, <2>9, <2>11
  <2>14. U \subseteq S /\ (\A x \in S : g[x] \in Int) /\ \A x \in S \ U : g[x] <= 0
    BY <1>3, <2>6, <2>8, <2>9, <2>10, <2>11
  <2> HIDE DEF K, T
  <2>15. SumOf(g, S) = SumOf(g, U)
    <3> HIDE DEF U
    <3> QED
      BY <2>14, SumWithin
  <2>16. SumOf(g, U) = SumOf(g, K) + g[k]
    BY <2>8, <2>11, <2>12, <2>13, SumInsert
  <2>17. SumOf(g, K) = SumOf(avail, K)
    BY <2>13, SumSame
  <2>18. SumOf(avail, K) = E(k) /\ E(k) \in Nat
    BY <1>2, <2>6 DEF E, K
  <2>19. SumOf(g, S) = E(k) + (q - E(k))
    BY <2>8, <2>15, <2>16, <2>17, <2>18
  <2> QED
    BY <2>18, <2>19 DEF g
<1> QED
  BY <1>4, <1>5

\* Rows that offer less than nothing offer nothing.
LEMMA SumPos ==
    ASSUME NEW S, NEW f, \A x \in S : f[x] \in Int,
           NEW g, \A x \in S : g[x] = Pos(f[x])
    PROVE  SumOf(g, S) = SumOf(f, S)
<1>1. \A x \in S : 1 .. g[x] = 1 .. f[x]
  BY DEF Pos
<1>2. Units(g, S) = Units(f, S)
  BY <1>1 DEF Units
<1> QED
  BY <1>2 DEF SumOf
=============================================================================
