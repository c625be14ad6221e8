----------------------------- MODULE NatLemmas -----------------------------
(***************************************************************************)
(* Facts about natural numbers that the other proofs rest on: the          *)
(* least-number principle in a first-order form (from the well-founded     *)
(* order of finite sets by inclusion), the maximum of a bounded set, the   *)
(* bound of a finite function, and sums.                                   *)
(***************************************************************************)
EXTENDS FiniteSetsExt, FiniteSetTheorems, TLAPS

\* A non-empty set of natural numbers has a least element.
LEMMA LeastNat ==
  ASSUME NEW S, S \subseteq Nat, S # {}
  PROVE  \E m \in S : \A n \in S : m <= n
<1> DEFINE T == {0 .. n : n \in S}
<1>1. T \subseteq FiniteSubsetsOf(Nat)
  <2> SUFFICES ASSUME NEW n \in S PROVE 0 .. n \in SUBSET Nat /\ IsFiniteSet(0 .. n)
    BY DEF FiniteSubsetsOf
  <2>1. n \in Int /\ 0 \in Int
    OBVIOUS
  <2>2. IsFiniteSet(0 .. n)
    BY <2>1, FS_Interval
  <2> QED BY <2>2
<1>2. T # {}
  OBVIOUS
<1>3. IsWellFoundedOn(StrictSubsetOrdering(Nat), FiniteSubsetsOf(Nat))
  BY FS_StrictSubsetOrderingWellFounded
<1>4. PICK t \in T : \A u \in T : <<u, t>> \notin StrictSubsetOrdering(Nat)
  <2> HIDE DEF T
  <2> QED BY <1>1, <1>2, <1>3, WFMin
<1>5. PICK m \in S : t = 0 .. m
  OBVIOUS
<1>6. ASSUME NEW n \in S, n < m
      PROVE  FALSE
  <2>1. 0 .. n \in T
    OBVIOUS
  <2>2. 0 .. n \subseteq 0 .. m
    BY <1>6
  <2>2a. m \in 0 .. m /\ m \notin 0 .. n
    BY <1>6
  <2>2b. 0 .. n # 0 .. m
    BY <2>2a
  <2>3. <<0 .. n, t>> \in StrictSubsetOrdering(Nat)
    <3>1. 0 .. n \in SUBSET Nat /\ 0 .. m \in SUBSET Nat
      OBVIOUS
    <3> QED BY <3>1, <2>2, <2>2b, <1>5 DEF StrictSubsetOrdering
  <2> QED BY <2>1, <2>3, <1>4
<1> QED BY <1>6

\* Min picks it.
LEMMA MinNat ==
  ASSUME NEW S, S \subseteq Nat, S # {}
  PROVE  Min(S) \in S /\ \A n \in S : Min(S) <= n
<1>1. \E m \in S : \A n \in S : m <= n
  BY LeastNat
<1>2. Min(S) \in S /\ \A n \in S : n >= Min(S)
  BY <1>1 DEF Min
<1> QED BY <1>2

\* A bounded non-empty set of natural numbers has a greatest element.
LEMMA GreatestNat ==
  ASSUME NEW S, S \subseteq Nat, S # {}, NEW b \in Nat, \A x \in S : x <= b
  PROVE  \E m \in S : \A x \in S : x <= m
<1> DEFINE U == {u \in Nat : \A x \in S : x <= u}
<1>1. PICK m \in U : \A n \in U : m <= n
  <2>1. U \subseteq Nat /\ b \in U
    OBVIOUS
  <2> HIDE DEF U
  <2> QED BY <2>1, LeastNat
<1>2. m \in S
  <2> SUFFICES ASSUME m \notin S PROVE FALSE
    OBVIOUS
  <2>1. m \in Nat /\ \A x \in S : x \in Nat /\ x <= m /\ x # m
    OBVIOUS
  <2>2. PICK y \in S : TRUE
    OBVIOUS
  <2>3. m - 1 \in Nat /\ \A x \in S : x <= m - 1
    <3> HIDE DEF U
    <3> QED BY <2>1, <2>2
  <2>4. m - 1 \in U
    BY <2>3
  <2>5. m <= m - 1
    <3> HIDE DEF U
    <3> QED BY <2>4, <1>1
  <2> QED BY <2>1, <2>5
<1>3. \A x \in S : x <= m
  OBVIOUS
<1> QED BY <1>2, <1>3

\* Max picks it.
LEMMA MaxNat ==
  ASSUME NEW S, S \subseteq Nat, S # {}, NEW b \in Nat, \A x \in S : x <= b
  PROVE  Max(S) \in S /\ \A x \in S : x <= Max(S)
<1>1. \E m \in S : \A x \in S : x <= m
  BY GreatestNat
<1>2. \E m \in S : \A x \in S : m >= x
  BY <1>1
<1>3. Max(S) \in S /\ \A x \in S : Max(S) >= x
  BY <1>2 DEF Max
<1> QED BY <1>3

\* A function on 1 .. n with natural values is bounded.
LEMMA BoundedFunction ==
  ASSUME NEW n \in Nat, NEW f \in [1 .. n -> Nat]
  PROVE  \E b \in Nat : \A i \in 1 .. n : f[i] <= b
<1> DEFINE T == {k \in 0 .. n : \A b \in Nat : \E i \in 1 .. k : b < f[i]}
<1> SUFFICES ASSUME T # {} PROVE FALSE
  <2>0. T = {}
    OBVIOUS
  <2>1. n \notin T
    <3> HIDE DEF T
    <3> QED BY <2>0
  <2>2. PICK b \in Nat : \A i \in 1 .. n : ~(b < f[i])
    <3>1. n \in 0 .. n
      OBVIOUS
    <3> QED BY <2>1, <3>1
  <2>3. \A i \in 1 .. n : f[i] \in Nat
    OBVIOUS
  <2>4. \A i \in 1 .. n : f[i] <= b
    BY <2>2, <2>3
  <2> QED BY <2>4
<1>1. PICK m \in T : \A k \in T : m <= k
  <2>1. T \subseteq Nat
    OBVIOUS
  <2> HIDE DEF T
  <2> QED BY <2>1, LeastNat
<1>2. m \in 0 .. n /\ \A b \in Nat : \E i \in 1 .. m : b < f[i]
  OBVIOUS
<1> HIDE DEF T
<1>3. m # 0
  BY <1>2
<1>4. m - 1 \notin T
  BY <1>1, <1>2
<1>5. PICK b \in Nat : \A i \in 1 .. m - 1 : ~(b < f[i])
  <2>1. m - 1 \in 0 .. n
    BY <1>2, <1>3
  <2> QED BY <1>4, <2>1 DEF T
<1>6. f[m] \in Nat
  BY <1>2, <1>3
<1>7. PICK i \in 1 .. m : b + f[m] < f[i]
  <2>1. b + f[m] \in Nat
    BY <1>6
  <2> QED BY <2>1, <1>2
<1>8. i # m /\ i \in 1 .. m - 1
  BY <1>6, <1>7, <1>2
<1>9. f[i] \in Nat
  BY <1>8, <1>2
<1> QED BY <1>5, <1>6, <1>7, <1>8, <1>9

\* Among sets of members of a finite set one is minimal.
LEMMA LeastSet ==
  ASSUME NEW S, IsFiniteSet(S), NEW B, B \subseteq SUBSET S, B # {}
  PROVE  \E m \in B : \A n \in B : n \subseteq m => n = m
<1>1. B \subseteq FiniteSubsetsOf(S)
  BY FS_Subset DEF FiniteSubsetsOf
<1>2. IsWellFoundedOn(StrictSubsetOrdering(S), FiniteSubsetsOf(S))
  BY FS_StrictSubsetOrderingWellFounded
<1>3. PICK m \in B : \A n \in B : <<n, m>> \notin StrictSubsetOrdering(S)
  BY <1>1, <1>2, WFMin
<1>4. \A n \in B : n \subseteq m /\ n # m => <<n, m>> \in StrictSubsetOrdering(S)
  BY DEF StrictSubsetOrdering
<1>5. \A n \in B : n \subseteq m => n = m
  BY <1>3, <1>4
<1> QED BY <1>5

-----------------------------------------------------------------------------
(***************************************************************************)
(* Sums.  MapThenSumSet takes the members of a set in an order of its own; *)
(* these facts free a proof from that order.                               *)
(***************************************************************************)
Total(f, S) == MapThenSumSet(LAMBDA x : f[x], S)

Some(S) == CHOOSE x \in S : TRUE

\* The recursion of MapThenSumSet, a table of the sums over every subset.
Table(f, S, sum) ==
  sum = [s \in SUBSET S |-> IF s = {} THEN 0 ELSE f[Some(s)] + sum[s \ {Some(s)}]]

LEMMA TotalTable == ASSUME NEW f, NEW S PROVE Total(f, S) = (CHOOSE sum : Table(f, S, sum))[S]
BY DEF Total, MapThenSumSet, MapThenFoldSet, Table, Some

LEMMA TableStep ==
  ASSUME NEW f, NEW S, NEW sum, Table(f, S, sum), NEW s \in SUBSET S, s # {}
  PROVE  /\ Some(s) \in s /\ s \ {Some(s)} \in SUBSET S
         /\ sum[s] = f[Some(s)] + sum[s \ {Some(s)}]
<1>1. Some(s) \in s
  BY DEF Some
<1>2. sum[s] = f[Some(s)] + sum[s \ {Some(s)}]
  BY DEF Table
<1> QED BY <1>1, <1>2

LEMMA TableAgrees ==
  ASSUME NEW f, NEW S, NEW T, NEW a, NEW b, Table(f, S, a), Table(f, T, b),
         NEW s \in SUBSET S, s \in SUBSET T, IsFiniteSet(s)
  PROVE  a[s] = b[s]
<1> DEFINE B == {t \in SUBSET s : a[t] # b[t]}
<1> SUFFICES ASSUME B # {} PROVE FALSE
  OBVIOUS
<1>1. PICK m \in B : \A n \in B : n \subseteq m => n = m
  <2> HIDE DEF B
  <2>1. B \subseteq SUBSET s
    BY DEF B
  <2> QED BY <2>1, LeastSet
<1>2. m \in SUBSET S /\ m \in SUBSET T /\ m \subseteq s /\ a[m] # b[m]
  OBVIOUS
<1>3. CASE m = {}
  BY <1>2, <1>3 DEF Table
<1>4. CASE m # {}
  <2> HIDE DEF B
  <2>1a. a[m] = f[Some(m)] + a[m \ {Some(m)}]
    BY <1>2, <1>4, TableStep
  <2>1b. b[m] = f[Some(m)] + b[m \ {Some(m)}]
    BY <1>2, <1>4, TableStep
  <2>1. /\ a[m] = f[Some(m)] + a[m \ {Some(m)}] /\ b[m] = f[Some(m)] + b[m \ {Some(m)}]
        /\ Some(m) \in m
    BY <1>4, <2>1a, <2>1b DEF Some
  <2> DEFINE n == m \ {Some(m)}
  <2>2. n \subseteq m /\ n # m /\ n \in SUBSET s
    BY <1>2, <2>1
  <2> HIDE DEF n
  <2>3. n \notin B
    BY <1>1, <2>2
  <2>4. a[n] = b[n]
    BY <2>2, <2>3 DEF B
  <2> QED BY <1>2, <2>1, <2>4 DEF n
<1> QED BY <1>3, <1>4

LEMMA TableExists ==
  ASSUME NEW f, NEW S, IsFiniteSet(S)
  PROVE  \E sum : Table(f, S, sum)
<1> DEFINE B == {t \in SUBSET S : \A sum : ~Table(f, t, sum)}
<1> SUFFICES ASSUME B # {} PROVE FALSE
  OBVIOUS
<1>1. PICK m \in B : \A n \in B : n \subseteq m => n = m
  <2>1. B \subseteq SUBSET S
    OBVIOUS
  <2> HIDE DEF B
  <2> QED BY <2>1, LeastSet
<1>2. m \in SUBSET S /\ \A sum : ~Table(f, m, sum)
  OBVIOUS
<1>3. ASSUME NEW n \in SUBSET m, n # m
      PROVE  Table(f, n, CHOOSE sum : Table(f, n, sum)) /\ IsFiniteSet(n)
  <2>1. n \notin B
    <3> HIDE DEF B
    <3> QED BY <1>1, <1>3
  <2>2. n \in SUBSET S
    BY <1>2
  <2>3. \E sum : Table(f, n, sum)
    BY <2>1, <2>2
  <2>4. IsFiniteSet(n)
    BY <2>2, FS_Subset
  <2> QED BY <2>3, <2>4
<1> HIDE DEF B
<1> DEFINE part(n) == (CHOOSE sum : Table(f, n, sum))[n]
           rest(s) == s \ {Some(s)}
           whole == [s \in SUBSET m |-> IF s = {} THEN 0 ELSE f[Some(s)] + part(rest(s))]
<1>4. ASSUME NEW n \in SUBSET m, n # m
      PROVE  part(n) = whole[n]
  <2>1. CASE n = {}
    <3> DEFINE here == CHOOSE sum : Table(f, n, sum)
    <3>1. Table(f, n, here)
      BY <1>3, <1>4
    <3> HIDE DEF here
    <3>2. here[n] = 0
      BY <2>1, <3>1 DEF Table
    <3> QED BY <2>1, <3>2 DEF here
  <2>2. CASE n # {}
    <3> DEFINE here == CHOOSE sum : Table(f, n, sum)
               there == CHOOSE sum : Table(f, rest(n), sum)
    <3>1. Table(f, n, here)
      BY <1>3, <1>4
    <3>1a. n \in SUBSET n
      OBVIOUS
    <3>2. Some(n) \in n /\ rest(n) \in SUBSET n /\ here[n] = f[Some(n)] + here[rest(n)]
      <4> HIDE DEF here
      <4> QED BY <2>2, <3>1, <3>1a, TableStep
    <3>3. rest(n) \in SUBSET m /\ rest(n) # m /\ rest(n) # n
      BY <1>4, <3>2
    <3>4. Table(f, rest(n), there) /\ IsFiniteSet(rest(n))
      BY <1>3, <3>3
    <3>5. here[rest(n)] = there[rest(n)]
      <4> HIDE DEF here, there, rest
      <4> QED BY <3>1, <3>2, <3>4, TableAgrees
    <3> QED BY <2>2, <3>2, <3>5
  <2> QED BY <2>1, <2>2
<1>5. \A s \in SUBSET m : s # {} => rest(s) \in SUBSET m /\ rest(s) # m
  BY DEF Some
<1>6. whole = [s \in SUBSET m |-> IF s = {} THEN 0 ELSE f[Some(s)] + whole[rest(s)]]
  <2>1. \A s \in SUBSET m : s # {} => part(rest(s)) = whole[rest(s)]
    <3> HIDE DEF part, rest, whole
    <3> QED BY <1>4, <1>5
  <2> HIDE DEF part, rest
  <2> QED BY <2>1
<1> HIDE DEF whole
<1>7. Table(f, m, whole)
  BY <1>6 DEF Table
<1> QED BY <1>2, <1>7

\* The sum over no members is 0, and each member adds what it maps to.
LEMMA TotalEmpty == ASSUME NEW f PROVE Total(f, {}) = 0
<1>1. IsFiniteSet({})
  BY FS_EmptySet
<1>2. Table(f, {}, CHOOSE sum : Table(f, {}, sum))
  BY <1>1, TableExists
<1> DEFINE t == CHOOSE sum : Table(f, {}, sum)
<1> HIDE DEF t
<1>3. t[{}] = 0
  BY <1>2 DEF Table, t
<1> QED BY <1>3, TotalTable DEF t

LEMMA TotalSome ==
  ASSUME NEW f, NEW S, IsFiniteSet(S), S # {}
  PROVE  Some(S) \in S /\ Total(f, S) = f[Some(S)] + Total(f, S \ {Some(S)})
<1> DEFINE n == S \ {Some(S)}
           a == CHOOSE sum : Table(f, S, sum)
           b == CHOOSE sum : Table(f, n, sum)
<1>1. IsFiniteSet(n)
  BY FS_Subset
<1>2. Table(f, S, a) /\ Table(f, n, b)
  BY <1>1, TableExists
<1> HIDE DEF a, b
<1>3. Some(S) \in S /\ n \in SUBSET S /\ a[S] = f[Some(S)] + a[n]
  BY <1>2, TableStep
<1>4. a[n] = b[n]
  <2> HIDE DEF n
  <2> QED BY <1>1, <1>2, <1>3, TableAgrees
<1>5. Total(f, S) = a[S] /\ Total(f, n) = b[n]
  BY TotalTable DEF a, b
<1> QED BY <1>3, <1>4, <1>5

LEMMA TotalNat ==
  ASSUME NEW f, NEW S, IsFiniteSet(S), \A x \in S : f[x] \in Nat
  PROVE  Total(f, S) \in Nat
<1> DEFINE B == {t \in SUBSET S : Total(f, t) \notin Nat}
<1> SUFFICES ASSUME B # {} PROVE FALSE
  OBVIOUS
<1>1. PICK m \in B : \A n \in B : n \subseteq m => n = m
  <2>1. B \subseteq SUBSET S
    OBVIOUS
  <2> HIDE DEF B
  <2> QED BY <2>1, LeastSet
<1>2. m \in SUBSET S /\ Total(f, m) \notin Nat /\ IsFiniteSet(m)
  BY FS_Subset
<1>3. m # {}
  BY <1>2, TotalEmpty
<1>4. Some(m) \in m /\ Total(f, m) = f[Some(m)] + Total(f, m \ {Some(m)})
  BY <1>2, <1>3, TotalSome
<1> DEFINE n == m \ {Some(m)}
<1>5. n \in SUBSET S /\ n \subseteq m /\ n # m
  BY <1>2, <1>4
<1> HIDE DEF n
<1>6. Total(f, n) \in Nat
  <2>1. n \notin B
    <3> HIDE DEF B
    <3> QED BY <1>1, <1>5
  <2> QED BY <1>5, <2>1
<1>7. f[Some(m)] \in Nat
  BY <1>2, <1>4
<1> QED BY <1>2, <1>4, <1>6, <1>7 DEF n

LEMMA TotalMember ==
  ASSUME NEW f, NEW S, IsFiniteSet(S), \A x \in S : f[x] \in Nat, NEW y \in S
  PROVE  Total(f, S) = f[y] + Total(f, S \ {y})
<1> DEFINE B == {t \in SUBSET S : \E z \in t : Total(f, t) # f[z] + Total(f, t \ {z})}
<1> SUFFICES ASSUME B # {} PROVE FALSE
  OBVIOUS
<1>1. PICK m \in B : \A n \in B : n \subseteq m => n = m
  <2>1. B \subseteq SUBSET S
    OBVIOUS
  <2> HIDE DEF B
  <2> QED BY <2>1, LeastSet
<1>2. \A t \in SUBSET S : IsFiniteSet(t) /\ Total(f, t) \in Nat
  <2> TAKE t \in SUBSET S
  <2>1. IsFiniteSet(t) /\ \A x \in t : f[x] \in Nat
    BY FS_Subset
  <2> QED BY <2>1, TotalNat
<1>3. PICK z \in m : Total(f, m) # f[z] + Total(f, m \ {z})
  OBVIOUS
<1>4. m \in SUBSET S
  OBVIOUS
<1>4a. \A n \in SUBSET S : n \subseteq m /\ n # m => \A x \in n : Total(f, n) = f[x] + Total(f, n \ {x})
  <2> TAKE n \in SUBSET S
  <2> SUFFICES ASSUME n \subseteq m, n # m PROVE n \notin B
    OBVIOUS
  <2> HIDE DEF B
  <2> QED BY <1>1
<1> HIDE DEF B
<1>5. Some(m) \in m /\ Total(f, m) = f[Some(m)] + Total(f, m \ {Some(m)})
  BY <1>2, <1>3, <1>4, TotalSome
<1> DEFINE x == Some(m)
<1> HIDE DEF x
<1>6. x \in m /\ Total(f, m) = f[x] + Total(f, m \ {x}) /\ x # z
  BY <1>3, <1>5 DEF x
<1>7. Total(f, m \ {x}) = f[z] + Total(f, (m \ {x}) \ {z})
  <2>1. m \ {x} \in SUBSET S /\ m \ {x} \subseteq m /\ m \ {x} # m /\ z \in m \ {x}
    BY <1>4, <1>6
  <2> QED BY <1>4a, <2>1
<1>8. Total(f, m \ {z}) = f[x] + Total(f, (m \ {z}) \ {x})
  <2>1. m \ {z} \in SUBSET S /\ m \ {z} \subseteq m /\ m \ {z} # m /\ x \in m \ {z}
    BY <1>4, <1>6
  <2> QED BY <1>4a, <2>1
<1>9. (m \ {z}) \ {x} = (m \ {x}) \ {z} /\ (m \ {x}) \ {z} \in SUBSET S
  BY <1>4
<1>10. f[x] \in Nat /\ f[z] \in Nat /\ Total(f, (m \ {x}) \ {z}) \in Nat
  BY <1>2, <1>4, <1>6, <1>9
<1> QED BY <1>3, <1>6, <1>7, <1>8, <1>9, <1>10

\* It is a matter of the members alone.
LEMMA TotalSame ==
  ASSUME NEW f, NEW g, NEW S, \A x \in S : f[x] = g[x]
  PROVE  Total(f, S) = Total(g, S)
<1>1. ASSUME NEW sum PROVE Table(f, S, sum) <=> Table(g, S, sum)
  <2>1. \A s \in SUBSET S : s # {} => f[Some(s)] = g[Some(s)]
    BY DEF Some
  <2>2. [s \in SUBSET S |-> IF s = {} THEN 0 ELSE f[Some(s)] + sum[s \ {Some(s)}]]
          = [s \in SUBSET S |-> IF s = {} THEN 0 ELSE g[Some(s)] + sum[s \ {Some(s)}]]
    BY <2>1
  <2> QED BY <2>2 DEF Table
<1>2. (CHOOSE sum : Table(f, S, sum)) = (CHOOSE sum : Table(g, S, sum))
  BY <1>1, Zenon
<1> QED BY <1>2, TotalTable

\* The numbers 1 .. n: one more, and one further.
LEMMA TotalLast ==
  ASSUME NEW n \in Nat, NEW f, \A i \in 1 .. n + 1 : f[i] \in Nat
  PROVE  Total(f, 1 .. n + 1) = Total(f, 1 .. n) + f[n + 1]
<1>1. IsFiniteSet(1 .. n + 1) /\ IsFiniteSet(1 .. n)
  BY FS_Interval
<1>2. n + 1 \in 1 .. n + 1 /\ (1 .. n + 1) \ {n + 1} = 1 .. n
  OBVIOUS
<1>3. Total(f, 1 .. n + 1) = f[n + 1] + Total(f, (1 .. n + 1) \ {n + 1})
  BY <1>1, <1>2, TotalMember
<1>4. f[n + 1] \in Nat /\ Total(f, 1 .. n) \in Nat
  <2>1. \A i \in 1 .. n : f[i] \in Nat
    OBVIOUS
  <2> QED BY <1>1, <1>2, <2>1, TotalNat
<1>5. Total(f, (1 .. n + 1) \ {n + 1}) = Total(f, 1 .. n)
  BY <1>2
<1> QED BY <1>3, <1>4, <1>5

LEMMA TotalFirst ==
  ASSUME NEW n \in Nat, NEW f, NEW g, \A i \in 1 .. n + 1 : f[i] \in Nat,
         \A i \in 1 .. n : g[i] = f[i + 1]
  PROVE  Total(f, 1 .. n + 1) = f[1] + Total(g, 1 .. n)
<1> DEFINE B == {m \in 0 .. n : Total(f, 1 .. m + 1) # f[1] + Total(g, 1 .. m)}
<1> SUFFICES ASSUME B # {} PROVE FALSE
  <2>1. n \in 0 .. n
    OBVIOUS
  <2>2. B = {} => n \notin B
    OBVIOUS
  <2> QED BY <2>1, <2>2
<1>1. PICK m \in B : \A k \in B : m <= k
  <2>1. B \subseteq Nat
    OBVIOUS
  <2> HIDE DEF B
  <2> QED BY <2>1, LeastNat
<1>2. m \in 0 .. n /\ Total(f, 1 .. m + 1) # f[1] + Total(g, 1 .. m)
  OBVIOUS
<1>3. \A k \in 0 .. n : k < m => Total(f, 1 .. k + 1) = f[1] + Total(g, 1 .. k)
  <2> SUFFICES ASSUME NEW k \in 0 .. n, k < m PROVE k \notin B
    OBVIOUS
  <2> HIDE DEF B
  <2> QED BY <1>1, <1>2
<1> HIDE DEF B
<1>4. Total(f, 1 .. m + 1) = Total(f, 1 .. m) + f[m + 1]
  <2>1. \A i \in 1 .. m + 1 : f[i] \in Nat
    BY <1>2
  <2> QED BY <1>2, <2>1, TotalLast
<1>5. CASE m = 0
  <2>1. 1 .. m = {}
    BY <1>5
  <2>2. f[1] \in Nat
    OBVIOUS
  <2> QED BY <1>2, <1>4, <1>5, <2>1, <2>2, TotalEmpty
<1>6. CASE m # 0
  <2>1. m - 1 \in 0 .. n /\ m - 1 < m /\ m - 1 \in Nat /\ m - 1 + 1 = m
    BY <1>2, <1>6
  <2>2. Total(f, 1 .. m) = f[1] + Total(g, 1 .. m - 1)
    BY <1>3, <2>1
  <2>3. \A i \in 1 .. m : g[i] \in Nat
    BY <1>2
  <2>4. Total(g, 1 .. m) = Total(g, 1 .. m - 1) + g[m]
    BY <2>1, <2>3, TotalLast
  <2>5. Total(g, 1 .. m - 1) \in Nat
    <3>1. IsFiniteSet(1 .. m - 1)
      BY <2>1, FS_Interval
    <3>2. \A i \in 1 .. m - 1 : g[i] \in Nat
      BY <1>2, <2>3
    <3> QED BY <3>1, <3>2, TotalNat
  <2>6. f[1] \in Nat /\ g[m] = f[m + 1] /\ f[m + 1] \in Nat
    BY <1>2, <1>6
  <2> QED BY <1>2, <1>4, <2>2, <2>4, <2>5, <2>6
<1> QED BY <1>5, <1>6

\* A sum of smaller numbers is smaller.
LEMMA TotalAtMost ==
  ASSUME NEW f, NEW g, NEW S, IsFiniteSet(S),
         \A x \in S : f[x] \in Nat /\ g[x] \in Nat /\ f[x] <= g[x]
  PROVE  Total(f, S) <= Total(g, S)
<1> DEFINE B == {t \in SUBSET S : ~(Total(f, t) <= Total(g, t))}
<1> SUFFICES ASSUME B # {} PROVE FALSE
  OBVIOUS
<1>1. PICK m \in B : \A n \in B : n \subseteq m => n = m
  <2>1. B \subseteq SUBSET S
    OBVIOUS
  <2> HIDE DEF B
  <2> QED BY <2>1, LeastSet
<1>2. m \in SUBSET S /\ ~(Total(f, m) <= Total(g, m)) /\ IsFiniteSet(m)
  BY FS_Subset
<1>3. m # {}
  <2> SUFFICES ASSUME m = {} PROVE FALSE
    OBVIOUS
  <2>1. Total(f, m) = 0 /\ Total(g, m) = 0
    BY TotalEmpty
  <2> QED BY <1>2, <2>1
<1>4. Some(m) \in m /\ Total(f, m) = f[Some(m)] + Total(f, m \ {Some(m)})
  BY <1>2, <1>3, TotalSome
<1>5. Total(g, m) = g[Some(m)] + Total(g, m \ {Some(m)})
  BY <1>2, <1>3, TotalSome
<1> DEFINE n == m \ {Some(m)}
<1>6. n \in SUBSET S /\ n \subseteq m /\ n # m
  BY <1>2, <1>4
<1> HIDE DEF n
<1>7. Total(f, n) <= Total(g, n)
  <2>1. n \notin B
    <3> HIDE DEF B
    <3> QED BY <1>1, <1>6
  <2> QED BY <1>6, <2>1
<1>8. IsFiniteSet(n) /\ (\A x \in n : f[x] \in Nat) /\ \A x \in n : g[x] \in Nat
  BY <1>6, FS_Subset
<1>9a. Total(f, n) \in Nat
  BY <1>8, TotalNat
<1>9b. Total(g, n) \in Nat
  BY <1>8, TotalNat
<1>10. f[Some(m)] \in Nat /\ g[Some(m)] \in Nat /\ f[Some(m)] <= g[Some(m)]
  BY <1>2, <1>4
<1> QED BY <1>2, <1>4, <1>5, <1>7, <1>9a, <1>9b, <1>10 DEF n
=============================================================================
