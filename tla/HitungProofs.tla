---------------------------- MODULE HitungProofs ----------------------------
(***************************************************************************)
(* Sums over finite sets, as SumFunctionOnSet computes them: they do not   *)
(* depend on the order, and change with one summand by what it changes.    *)
(* Induction is by the least counterexample.                               *)
(***************************************************************************)
EXTENDS Integers, FiniteSets, Functions, FiniteSetTheorems, WellFoundedInduction, TLAPS

-----------------------------------------------------------------------------
(* Least elements *)

Pasangan == {p \in Nat \X Nat : p[1] < p[2]}

LEMMA PasanganUrut == IsWellFoundedOn(Pasangan, Nat)
<1>1. OpToRel(<, Nat) = Pasangan
  BY DEF OpToRel, Pasangan
<1> QED
  BY <1>1, NatLessThanWellFounded

\* A set of natural numbers has a least one.
LEMMA Terkecil ==
  ASSUME NEW T \in SUBSET Nat, T # {}
  PROVE  \E m \in T : \A n \in T : m <= n
<1>1. PICK m \in T : \A n \in T : <<n, m>> \notin Pasangan
  BY PasanganUrut, WFMin
<1>2. ASSUME NEW n \in T, n < m
      PROVE  FALSE
  <2>1. <<n, m>> \in Nat \X Nat /\ <<n, m>>[1] = n /\ <<n, m>>[2] = m
    OBVIOUS
  <2>2. <<n, m>> \in Pasangan
    BY <1>2, <2>1 DEF Pasangan
  <2> QED
    BY <1>1, <2>2
<1>3. m \in Nat /\ \A n \in T : n \in Nat /\ ~(n < m)
  BY <1>2
<1> QED
  BY <1>3

\* Of some subsets of a finite set, one is smallest.
LEMMA SubsetTerkecil ==
  ASSUME NEW S, IsFiniteSet(S), NEW B \in SUBSET (SUBSET S), B # {}
  PROVE  \E s \in B : \A t \in SUBSET S : Cardinality(t) < Cardinality(s) => t \notin B
<1> DEFINE T == {Cardinality(s) : s \in B}
<1>1. \A s \in SUBSET S : Cardinality(s) \in Nat
  BY FS_Subset, FS_CardinalityType
<1>2. T \in SUBSET Nat /\ T # {}
  BY <1>1
<1>3. PICK m \in T : \A n \in T : m <= n
  BY <1>2, Terkecil
<1>4. PICK s \in B : m = Cardinality(s)
  BY <1>3
<1>5. \A t \in B : Cardinality(s) <= Cardinality(t)
  BY <1>3, <1>4
<1> QED
  BY <1>1, <1>4, <1>5

-----------------------------------------------------------------------------
(* What the sum computes *)

Ambil(s) == CHOOSE x \in s : TRUE
Rumus(f, s, it) == IF s = {} THEN 0 ELSE f[Ambil(s)] + it[s \ {Ambil(s)}]
Iterasi(f, S) == CHOOSE it : it = [s \in SUBSET S |-> Rumus(f, s, it)]

LEMMA JumlahIterasi ==
  ASSUME NEW f, NEW S
  PROVE  SumFunctionOnSet(f, S) = Iterasi(f, S)[S]
BY DEF SumFunctionOnSet, FoldFunctionOnSet, MapThenFoldSet, Iterasi, Rumus, Ambil

LEMMA AmbilKurang ==
  ASSUME NEW S, IsFiniteSet(S), NEW s \in SUBSET S, s # {}
  PROVE  /\ Ambil(s) \in s /\ s \ {Ambil(s)} \in SUBSET S
         /\ Cardinality(s) \in Nat /\ Cardinality(s) > 0
         /\ Cardinality(s \ {Ambil(s)}) = Cardinality(s) - 1
<1>1. Ambil(s) \in s
  BY DEF Ambil
<1>2. IsFiniteSet(s) /\ Cardinality(s) \in Nat
  BY FS_Subset, FS_CardinalityType
<1>3. Cardinality(s \ {Ambil(s)}) = Cardinality(s) - 1
  BY <1>1, <1>2, FS_RemoveElement
<1>4. Cardinality(s) > 0
  BY <1>1, <1>2, FS_EmptySet
<1> QED
  BY <1>1, <1>2, <1>3, <1>4

\* The recursion of the sum has a solution: up to any size, and so on all subsets.
LEMMA IterasiAda ==
  ASSUME NEW f, NEW S, IsFiniteSet(S)
  PROVE  \A s \in SUBSET S : Iterasi(f, S)[s] = Rumus(f, s, Iterasi(f, S))
<1> DEFINE Cocok(g, n) == \A s \in SUBSET S : Cardinality(s) <= n => g[s] = Rumus(f, s, g)
           T == {n \in Nat : ~ \E g : Cocok(g, n)}
<1>1. T = {}
  <2> SUFFICES ASSUME T # {}
               PROVE  FALSE
    OBVIOUS
  <2>1. PICK m \in T : \A n \in T : m <= n
    BY Terkecil
  <2>2. CASE m = 0
    <3> DEFINE g == [s \in SUBSET S |-> 0]
    <3>1. ASSUME NEW s \in SUBSET S, Cardinality(s) <= 0, s # {}
          PROVE  FALSE
      <4>1. Cardinality(s) \in Nat /\ Cardinality(s) > 0
        BY <3>1, AmbilKurang
      <4> QED
        BY <3>1, <4>1
    <3>2. Cocok(g, 0)
      BY <3>1 DEF Rumus
    <3> QED
      BY <2>2, <3>2
  <2>3. CASE m # 0
    <3>1. m \in Nat /\ m - 1 \in Nat /\ m - 1 \notin T
      BY <2>1, <2>3
    <3>2. PICK g : Cocok(g, m - 1)
      BY <3>1
    <3> DEFINE h == [s \in SUBSET S |-> Rumus(f, s, g)]
    <3>3. ASSUME NEW s \in SUBSET S, Cardinality(s) <= m
          PROVE  h[s] = Rumus(f, s, h)
      <4>1. CASE s = {}
        BY <4>1 DEF Rumus
      <4>2. CASE s # {}
        <5> DEFINE t == s \ {Ambil(s)}
        <5>1. t \in SUBSET S /\ Cardinality(t) = Cardinality(s) - 1 /\ Cardinality(s) \in Nat
          BY <4>2, AmbilKurang
        <5>2. g[t] = Rumus(f, t, g)
          BY <3>1, <3>2, <3>3, <5>1
        <5>3. h[t] = g[t]
          BY <5>1, <5>2
        <5>4. h[s] = f[Ambil(s)] + g[t]
          BY <4>2 DEF Rumus
        <5>5. Rumus(f, s, h) = f[Ambil(s)] + h[t]
          BY <4>2 DEF Rumus
        <5> QED
          BY <5>3, <5>4, <5>5
      <4> QED
        BY <4>1, <4>2
    <3>4. Cocok(h, m)
      BY <3>3
    <3> QED
      BY <3>1, <3>4
  <2> QED
    BY <2>2, <2>3
<1>2. PICK g : Cocok(g, Cardinality(S))
  <2>1. Cardinality(S) \in Nat
    BY FS_CardinalityType
  <2> QED
    BY <1>1, <2>1
<1> DEFINE h == [s \in SUBSET S |-> g[s]]
<1>3. \A s \in SUBSET S : Cardinality(s) <= Cardinality(S)
  BY FS_Subset
<1>4. \A s \in SUBSET S : h[s] = Rumus(f, s, h)
  <2> SUFFICES ASSUME NEW s \in SUBSET S
               PROVE  h[s] = Rumus(f, s, h)
    OBVIOUS
  <2>1. g[s] = Rumus(f, s, g)
    BY <1>2, <1>3
  <2>2. Rumus(f, s, h) = Rumus(f, s, g)
    BY DEF Rumus
  <2> QED
    BY <2>1, <2>2
<1>5. h = [s \in SUBSET S |-> Rumus(f, s, h)]
  BY <1>4
<1> HIDE DEF h
<1>6. Iterasi(f, S) = [s \in SUBSET S |-> Rumus(f, s, Iterasi(f, S))]
  BY <1>5 DEF Iterasi
<1> QED
  BY <1>6

\* Two recursions agree where their summands do.
LEMMA IterasiSama ==
  ASSUME NEW S, IsFiniteSet(S), NEW T \in SUBSET S, NEW f, NEW g,
         \A x \in T : f[x] = g[x]
  PROVE  \A s \in SUBSET T : Iterasi(f, S)[s] = Iterasi(g, T)[s]
<1> DEFINE B == {s \in SUBSET T : Iterasi(f, S)[s] # Iterasi(g, T)[s]}
<1> SUFFICES ASSUME B # {}
             PROVE  FALSE
  OBVIOUS
<1>1. IsFiniteSet(T)
  BY FS_Subset
<1>2. PICK s \in B : \A t \in SUBSET T : Cardinality(t) < Cardinality(s) => t \notin B
  <2>1. B \in SUBSET (SUBSET T)
    OBVIOUS
  <2> HIDE DEF B
  <2> QED
    BY <1>1, <2>1, SubsetTerkecil
<1>3. s \in SUBSET T /\ s \in SUBSET S
  OBVIOUS
<1>4. /\ Iterasi(f, S)[s] = Rumus(f, s, Iterasi(f, S))
      /\ Iterasi(g, T)[s] = Rumus(g, s, Iterasi(g, T))
  BY <1>1, <1>3, IterasiAda
<1>5. s # {}
  BY <1>4 DEF Rumus
<1>6. /\ Ambil(s) \in T /\ s \ {Ambil(s)} \in SUBSET T
      /\ Cardinality(s \ {Ambil(s)}) < Cardinality(s)
  <2>1. /\ Ambil(s) \in s /\ s \ {Ambil(s)} \in SUBSET T
        /\ Cardinality(s) \in Nat
        /\ Cardinality(s \ {Ambil(s)}) = Cardinality(s) - 1
    BY <1>1, <1>3, <1>5, AmbilKurang
  <2> QED
    BY <1>3, <2>1
<1>7. Iterasi(f, S)[s \ {Ambil(s)}] = Iterasi(g, T)[s \ {Ambil(s)}]
  BY <1>2, <1>6
<1> QED
  BY <1>4, <1>5, <1>6, <1>7 DEF Rumus

\* The sum takes one summand, and then the rest.
LEMMA JumlahRumus ==
  ASSUME NEW S, IsFiniteSet(S), NEW f
  PROVE  SumFunctionOnSet(f, S) =
            IF S = {} THEN 0 ELSE f[Ambil(S)] + SumFunctionOnSet(f, S \ {Ambil(S)})
<1>1. Iterasi(f, S)[S] = Rumus(f, S, Iterasi(f, S))
  BY IterasiAda
<1>2. CASE S = {}
  BY <1>1, <1>2, JumlahIterasi DEF Rumus
<1>3. CASE S # {}
  <2> DEFINE T == S \ {Ambil(S)}
  <2>1. T \in SUBSET S
    OBVIOUS
  <2>2. Iterasi(f, S)[T] = Iterasi(f, T)[T]
    BY <2>1, IterasiSama
  <2>3. SumFunctionOnSet(f, T) = Iterasi(f, T)[T] /\ SumFunctionOnSet(f, S) = Iterasi(f, S)[S]
    BY JumlahIterasi
  <2> QED
    BY <1>1, <1>3, <2>2, <2>3 DEF Rumus
<1> QED
  BY <1>2, <1>3

-----------------------------------------------------------------------------
(* What is known of sums *)

LEMMA JumlahKosong == \A f : SumFunctionOnSet(f, {}) = 0
BY JumlahRumus, FS_EmptySet

\* Only the summands matter.
LEMMA JumlahSama ==
  ASSUME NEW S, IsFiniteSet(S), NEW f, NEW g, \A x \in S : f[x] = g[x]
  PROVE  SumFunctionOnSet(f, S) = SumFunctionOnSet(g, S)
<1>1. S \in SUBSET S
  OBVIOUS
<1>2. Iterasi(f, S)[S] = Iterasi(g, S)[S]
  BY <1>1, IterasiSama
<1> QED
  BY <1>2, JumlahIterasi

LEMMA JumlahTipe ==
  ASSUME NEW S, IsFiniteSet(S), NEW f, \A x \in S : f[x] \in Int
  PROVE  \A s \in SUBSET S : SumFunctionOnSet(f, s) \in Int
<1> DEFINE B == {s \in SUBSET S : SumFunctionOnSet(f, s) \notin Int}
<1> SUFFICES ASSUME B # {}
             PROVE  FALSE
  OBVIOUS
<1>1. PICK s \in B : \A t \in SUBSET S : Cardinality(t) < Cardinality(s) => t \notin B
  <2>1. B \in SUBSET (SUBSET S)
    OBVIOUS
  <2> HIDE DEF B
  <2> QED
    BY <2>1, SubsetTerkecil
<1>2. s \in SUBSET S /\ IsFiniteSet(s)
  BY FS_Subset
<1>3. s # {}
  BY JumlahKosong
<1>4. SumFunctionOnSet(f, s) = f[Ambil(s)] + SumFunctionOnSet(f, s \ {Ambil(s)})
  BY <1>2, <1>3, JumlahRumus
<1>5. /\ Ambil(s) \in s /\ s \ {Ambil(s)} \in SUBSET S
      /\ Cardinality(s) \in Nat
      /\ Cardinality(s \ {Ambil(s)}) = Cardinality(s) - 1
  BY <1>2, <1>3, AmbilKurang
<1>6. Cardinality(s \ {Ambil(s)}) < Cardinality(s)
  BY <1>5
<1>7. SumFunctionOnSet(f, s \ {Ambil(s)}) \in Int
  BY <1>1, <1>5, <1>6
<1>8. f[Ambil(s)] \in Int
  BY <1>2, <1>5
<1> QED
  BY <1>4, <1>7, <1>8

\* Any summand may be taken first.
LEMMA JumlahPisah ==
  ASSUME NEW S, IsFiniteSet(S), NEW f, \A x \in S : f[x] \in Int
  PROVE  \A s \in SUBSET S : \A x \in s :
            SumFunctionOnSet(f, s) = f[x] + SumFunctionOnSet(f, s \ {x})
<1> DEFINE J(s) == SumFunctionOnSet(f, s)
           B == {s \in SUBSET S : ~ \A x \in s : J(s) = f[x] + J(s \ {x})}
<1> SUFFICES ASSUME B # {}
             PROVE  FALSE
  OBVIOUS
<1>1. PICK s \in B : \A t \in SUBSET S : Cardinality(t) < Cardinality(s) => t \notin B
  <2>1. B \in SUBSET (SUBSET S)
    OBVIOUS
  <2> HIDE DEF B
  <2> QED
    BY <2>1, SubsetTerkecil
<1>2. PICK x \in s : J(s) # f[x] + J(s \ {x})
  OBVIOUS
<1>3. s \in SUBSET S /\ IsFiniteSet(s) /\ s # {}
  BY FS_Subset
<1> DEFINE a == Ambil(s)
           t == s \ {a}
           u == s \ {x}
           v == s \ {a, x}
<1>4. J(s) = f[a] + J(t) /\ a \in s
  <2> HIDE DEF J
  <2>1. SumFunctionOnSet(f, s) = f[Ambil(s)] + SumFunctionOnSet(f, s \ {Ambil(s)})
    BY <1>3, JumlahRumus
  <2>2. Ambil(s) \in s
    BY <1>3 DEF Ambil
  <2> QED
    BY <2>1, <2>2 DEF J
<1>5. a # x
  BY <1>2, <1>4
<1>6. /\ Cardinality(t) < Cardinality(s) /\ Cardinality(u) < Cardinality(s)
  <2>1. /\ Cardinality(s) \in Nat
        /\ Cardinality(s \ {a}) = Cardinality(s) - 1
        /\ Cardinality(s \ {x}) = Cardinality(s) - 1
    BY <1>3, <1>4, FS_RemoveElement, FS_CardinalityType
  <2> QED
    BY <2>1
<1>7. t \in SUBSET S /\ u \in SUBSET S /\ v \in SUBSET S /\ x \in t /\ a \in u
  BY <1>3, <1>4, <1>5
<1>8. t \ {x} = v /\ u \ {a} = v
  OBVIOUS
<1>9. t \notin B /\ u \notin B
  BY <1>1, <1>6, <1>7
<1>10. J(t) = f[x] + J(v) /\ J(u) = f[a] + J(v)
  BY <1>7, <1>8, <1>9
<1>11. J(v) \in Int /\ f[a] \in Int /\ f[x] \in Int
  <2>1. SumFunctionOnSet(f, v) \in Int
    BY <1>7, JumlahTipe
  <2> QED
    BY <1>3, <1>4, <2>1
<1>12. J(s) = f[x] + J(u)
  <2> HIDE DEF J, a, t, u, v
  <2> QED
    BY <1>4, <1>10, <1>11
<1> QED
  BY <1>2, <1>12

\* One summand changes.
LEMMA JumlahUbah ==
  ASSUME NEW S, IsFiniteSet(S), NEW f, NEW g, NEW x \in S,
         \A y \in S : f[y] \in Int /\ g[y] \in Int, \A y \in S \ {x} : f[y] = g[y]
  PROVE  SumFunctionOnSet(g, S) = SumFunctionOnSet(f, S) + (g[x] - f[x])
<1> DEFINE T == S \ {x}
<1>1. IsFiniteSet(T) /\ T \in SUBSET S /\ S \in SUBSET S
  BY FS_Subset
<1>2. SumFunctionOnSet(f, T) = SumFunctionOnSet(g, T)
  BY <1>1, JumlahSama
<1>3. /\ SumFunctionOnSet(f, S) = f[x] + SumFunctionOnSet(f, T)
      /\ SumFunctionOnSet(g, S) = g[x] + SumFunctionOnSet(g, T)
  BY <1>1, JumlahPisah
<1>4. SumFunctionOnSet(f, T) \in Int
  BY <1>1, JumlahTipe
<1> QED
  BY <1>2, <1>3, <1>4

\* Summands of zero may be left out.
LEMMA JumlahNol ==
  ASSUME NEW S, IsFiniteSet(S), NEW f, \A x \in S : f[x] \in Int, NEW T \in SUBSET S,
         \A x \in S \ T : f[x] = 0
  PROVE  SumFunctionOnSet(f, S) = SumFunctionOnSet(f, T)
<1> DEFINE J(s) == SumFunctionOnSet(f, s)
           B == {s \in SUBSET S : T \subseteq s /\ J(s) # J(T)}
<1> SUFFICES ASSUME B # {}
             PROVE  FALSE
  OBVIOUS
<1>1. PICK s \in B : \A t \in SUBSET S : Cardinality(t) < Cardinality(s) => t \notin B
  <2>1. B \in SUBSET (SUBSET S)
    OBVIOUS
  <2> HIDE DEF B
  <2> QED
    BY <2>1, SubsetTerkecil
<1>2. PICK x \in s : x \notin T
  OBVIOUS
<1>3. s \in SUBSET S /\ IsFiniteSet(s) /\ s \ {x} \in SUBSET S
  BY FS_Subset
<1>4. J(s) = f[x] + J(s \ {x})
  <2>1. SumFunctionOnSet(f, s) = f[x] + SumFunctionOnSet(f, s \ {x})
    BY <1>3, JumlahPisah
  <2> QED
    BY <2>1
<1>5. J(s \ {x}) = J(T)
  <2>1. Cardinality(s) \in Nat /\ Cardinality(s \ {x}) = Cardinality(s) - 1
    BY <1>3, FS_RemoveElement, FS_CardinalityType
  <2>2. s \ {x} \notin B
    BY <1>1, <1>3, <2>1
  <2> QED
    BY <1>2, <1>3, <2>2
<1>6. J(T) \in Int /\ f[x] = 0
  <2>1. SumFunctionOnSet(f, T) \in Int
    BY JumlahTipe
  <2> QED
    BY <1>2, <1>3, <2>1
<1>7. J(s) = J(T)
  <2> HIDE DEF J
  <2> QED
    BY <1>4, <1>5, <1>6
<1> QED
  BY <1>7

\* Functions of numbers on S that differ at x at most.
Geser(f, g, S, x) ==
  /\ x \in S
  /\ \A y \in S : f[y] \in Int /\ g[y] \in Int
  /\ \A y \in S \ {x} : f[y] = g[y]

LEMMA JumlahGeser ==
  ASSUME NEW S, IsFiniteSet(S), NEW f, NEW g, NEW x, Geser(f, g, S, x)
  PROVE  SumFunctionOnSet(g, S) = SumFunctionOnSet(f, S) + (g[x] - f[x])
BY JumlahUbah DEF Geser

\* Two equal sums stay equal when one summand of each changes by the same amount.
LEMMA JumlahSeiring ==
  ASSUME NEW S, IsFiniteSet(S), NEW f, NEW g, NEW x, Geser(f, g, S, x),
         NEW T, IsFiniteSet(T), NEW h, NEW k, NEW z, Geser(h, k, T, z),
         g[x] - f[x] = k[z] - h[z]
  PROVE  SumFunctionOnSet(f, S) = SumFunctionOnSet(h, T) =>
            SumFunctionOnSet(g, S) = SumFunctionOnSet(k, T)
<1> SUFFICES ASSUME SumFunctionOnSet(f, S) = SumFunctionOnSet(h, T)
             PROVE  SumFunctionOnSet(g, S) = SumFunctionOnSet(k, T)
  OBVIOUS
<1>1. SumFunctionOnSet(g, S) = SumFunctionOnSet(f, S) + (g[x] - f[x])
  BY JumlahUbah DEF Geser
<1>2. SumFunctionOnSet(k, T) = SumFunctionOnSet(h, T) + (k[z] - h[z])
  BY JumlahUbah DEF Geser
<1> QED
  BY <1>1, <1>2

=============================================================================
