---------------------------------- MODULE Sums ----------------------------------
(***************************************************************************)
(* Induction over numbers and finite sets without operator parameters, and *)
(* from it the facts about finite sums that the proofs of the components   *)
(* cite.                                                                   *)
(***************************************************************************)
EXTENDS Integers, FiniteSets, FiniteSetsExt, Functions, FiniteSetTheorems, TLAPS

(* A set of naturals that is not empty has a least element. *)
LEMMA LeastNatural ==
    ASSUME NEW T \in SUBSET Nat, T # {}
    PROVE  \E n \in T : \A m \in T : n <= m
<1> DEFINE Below == { 0 .. m : m \in T }
<1>1. Below \subseteq FiniteSubsetsOf(Nat) /\ Below # {}
  <2>1. \A m \in T : IsFiniteSet(0 .. m)
    BY FS_Interval
  <2>2. \A m \in T : 0 .. m \in FiniteSubsetsOf(Nat)
    BY <2>1 DEF FiniteSubsetsOf
  <2> QED BY <2>2
<1>2. PICK B \in Below : \A C \in Below : ~(<< C, B >> \in StrictSubsetOrdering(Nat))
  <2> HIDE DEF Below
  <2> QED BY <1>1, WFMin, FS_StrictSubsetOrderingWellFounded
<1>3. PICK n \in T : B = 0 .. n
  OBVIOUS
<1>4. ASSUME NEW m \in T, m < n PROVE FALSE
  <2>1. << 0 .. m, 0 .. n >> \in (SUBSET Nat) \X (SUBSET Nat)
    OBVIOUS
  <2>2. 0 .. m \subseteq 0 .. n /\ 0 .. m # 0 .. n
    BY <1>4
  <2>3. << 0 .. m, 0 .. n >> \in StrictSubsetOrdering(Nat)
    BY <2>1, <2>2 DEF StrictSubsetOrdering
  <2> QED BY <1>2, <1>3, <2>3
<1> QED BY <1>4

(* Among subsets of a finite set there is one that contains no other. *)
LEMMA SmallestSubset ==
    ASSUME NEW S, IsFiniteSet(S), NEW Q \in SUBSET SUBSET S, Q # {}
    PROVE  \E T \in Q : \A U \in Q : U \subseteq T => U = T
<1>1. Q \subseteq FiniteSubsetsOf(S)
  BY FS_FiniteSubsetsOfFinite
<1>2. PICK T \in Q : \A U \in Q : ~(<< U, T >> \in StrictSubsetOrdering(S))
  BY <1>1, WFMin, FS_StrictSubsetOrderingWellFounded
<1>3. ASSUME NEW U \in Q, U \subseteq T, U # T PROVE FALSE
  <2>1. << U, T >> \in (SUBSET S) \X (SUBSET S)
    OBVIOUS
  <2>2. << U, T >> \in StrictSubsetOrdering(S)
    BY <1>3, <2>1 DEF StrictSubsetOrdering
  <2> QED BY <1>2, <2>2
<1> QED BY <1>3

-----------------------------------------------------------------------------
(* The sum of f[x] over the x of S. *)
SumOver(f, S) == MapThenSumSet(LAMBDA x : f[x], S)

(* The element a sum begins with, and the recursive function inside it. *)
First(s) == CHOOSE x \in s : TRUE

Adds(f, S, h) ==
    h = [s \in SUBSET S |-> IF s = {} THEN 0 ELSE f[First(s)] + h[s \ {First(s)}]]

(* A sum is what its recursive function gives for the whole set. *)
LEMMA SumIsAdding ==
    ASSUME NEW f, NEW S
    PROVE  SumOver(f, S) = (CHOOSE h : Adds(f, S, h))[S]
BY DEF SumOver, MapThenSumSet, MapThenFoldSet, Adds, First

(* The sum of a function over a set, as the models write it, is such a sum. *)
LEMMA SumFunctionIsSum ==
    ASSUME NEW f, NEW S
    PROVE  SumFunctionOnSet(f, S) = SumOver(f, S)
BY DEF SumFunctionOnSet, FoldFunctionOnSet, SumOver, MapThenSumSet

(* A set that is not empty has a first element. *)
LEMMA FirstIsElement ==
    ASSUME NEW s, s # {}
    PROVE  First(s) \in s
BY DEF First

(* Two functions that add up agree wherever both are defined. *)
LEMMA AddingUnique ==
    ASSUME NEW f, NEW S, IsFiniteSet(S), NEW T, T \subseteq S, NEW g, NEW h,
           Adds(f, S, g), Adds(f, T, h)
    PROVE  g[T] = h[T]
<1> DEFINE Q == { s \in SUBSET T : g[s] # h[s] }
<1>1. Q = {}
  <2> SUFFICES ASSUME Q # {} PROVE FALSE
    OBVIOUS
  <2>0. Q \in SUBSET SUBSET S
    OBVIOUS
  <2>1. PICK s \in Q : \A u \in Q : u \subseteq s => u = s
    <3> HIDE DEF Q
    <3> QED BY <2>0, SmallestSubset
  <2>2. s \in SUBSET T /\ s \in SUBSET S /\ g[s] # h[s]
    BY <2>1
  <2>3. s # {}
    BY <2>2 DEF Adds
  <2>4. s \ {First(s)} \notin Q /\ s \ {First(s)} \in SUBSET T
    BY <2>1, <2>3, FirstIsElement
  <2>5. g[s \ {First(s)}] = h[s \ {First(s)}]
    BY <2>4
  <2>6. g[s] = f[First(s)] + g[s \ {First(s)}]
    BY <2>2, <2>3 DEF Adds
  <2>7. h[s] = f[First(s)] + h[s \ {First(s)}]
    BY <2>2, <2>3 DEF Adds
  <2> QED BY <2>2, <2>5, <2>6, <2>7
<1> QED BY <1>1

(* There is such a function for every finite set. *)
LEMMA AddingExists ==
    ASSUME NEW f, NEW S, IsFiniteSet(S)
    PROVE  \E h : Adds(f, S, h)
<1> DEFINE Q == { T \in SUBSET S : ~\E h : Adds(f, T, h) }
           G(T) == CHOOSE h : Adds(f, T, h)
<1>1. Q = {}
  <2> SUFFICES ASSUME Q # {} PROVE FALSE
    OBVIOUS
  <2>0. Q \in SUBSET SUBSET S
    OBVIOUS
  <2>1. PICK T \in Q : \A U \in Q : U \subseteq T => U = T
    <3> HIDE DEF Q
    <3> QED BY <2>0, SmallestSubset
  <2>2. ASSUME NEW U \in SUBSET T, U # T
        PROVE  Adds(f, U, G(U)) /\ IsFiniteSet(U)
    <3>1. U \notin Q /\ U \in SUBSET S
      BY <2>1, <2>2
    <3>2. \E h : Adds(f, U, h)
      BY <3>1
    <3>3. IsFiniteSet(U)
      BY <3>1, FS_Subset
    <3> QED BY <3>2, <3>3
  <2>3. ASSUME NEW U \in SUBSET T, U # T
        PROVE  G(U)[U] = IF U = {} THEN 0 ELSE f[First(U)] + G(U \ {First(U)})[U \ {First(U)}]
    <3>1. CASE U = {}
      <4> HIDE DEF G
      <4> QED BY <2>2, <2>3, <3>1 DEF Adds
    <3>2. CASE U # {}
      <4> DEFINE W == U \ {First(U)}
      <4>1. W \in SUBSET T /\ W # T /\ W \in SUBSET U
        BY <2>3, <3>2, FirstIsElement
      <4>2. Adds(f, U, G(U)) /\ IsFiniteSet(U) /\ Adds(f, W, G(W))
        BY <2>2, <2>3, <4>1
      <4> HIDE DEF G, W
      <4>3. G(U)[W] = G(W)[W]
        BY <4>1, <4>2, AddingUnique
      <4>4. G(U)[U] = f[First(U)] + G(U)[W]
        BY <3>2, <4>2 DEF Adds, W
      <4> QED BY <3>2, <4>3, <4>4 DEF W
    <3> QED BY <3>1, <3>2
  <2> DEFINE h == [s \in SUBSET T |->
                      IF s = {} THEN 0 ELSE f[First(s)] + G(s \ {First(s)})[s \ {First(s)}]]
  <2>4. ASSUME NEW s \in SUBSET T, s # {}
        PROVE  h[s \ {First(s)}] = G(s \ {First(s)})[s \ {First(s)}]
    <3>1. s \ {First(s)} \in SUBSET T /\ s \ {First(s)} # T
      BY <2>4, FirstIsElement
    <3> HIDE DEF G
    <3> QED BY <2>3, <3>1
  <2>5. Adds(f, T, h)
    <3> HIDE DEF G
    <3> QED BY <2>4, Zenon DEF Adds
  <2> QED BY <2>1, <2>5
<1> QED BY <1>1

-----------------------------------------------------------------------------
(* Nothing sums up to zero. *)
LEMMA SumEmpty ==
    ASSUME NEW f
    PROVE  SumOver(f, {}) = 0
<1>1. PICK h : Adds(f, {}, h)
  BY AddingExists, FS_EmptySet
<1>2. Adds(f, {}, CHOOSE g : Adds(f, {}, g))
  BY <1>1
<1> QED BY <1>2, SumIsAdding DEF Adds

(* A sum is its first term and the sum of the others. *)
LEMMA SumFirst ==
    ASSUME NEW f, NEW S, IsFiniteSet(S), S # {}
    PROVE  SumOver(f, S) = f[First(S)] + SumOver(f, S \ {First(S)})
<1> DEFINE T == S \ {First(S)}
           G(U) == CHOOSE h : Adds(f, U, h)
<1>1. IsFiniteSet(T) /\ T \subseteq S
  BY FS_Subset
<1>2. Adds(f, S, G(S)) /\ Adds(f, T, G(T))
  BY <1>1, AddingExists
<1>3. SumOver(f, S) = G(S)[S] /\ SumOver(f, T) = G(T)[T]
  BY SumIsAdding
<1> HIDE DEF G, T
<1>4. G(S)[T] = G(T)[T]
  BY <1>1, <1>2, AddingUnique
<1>5. G(S)[S] = f[First(S)] + G(S)[T]
  BY <1>2 DEF Adds, T
<1> QED BY <1>3, <1>4, <1>5 DEF T

(* Sums of integers are integers. *)
LEMMA SumInt ==
    ASSUME NEW f, NEW S, IsFiniteSet(S), \A x \in S : f[x] \in Int
    PROVE  SumOver(f, S) \in Int
<1> DEFINE Q == { T \in SUBSET S : SumOver(f, T) \notin Int }
<1>1. Q = {}
  <2> SUFFICES ASSUME Q # {} PROVE FALSE
    OBVIOUS
  <2>1. PICK T \in Q : \A U \in Q : U \subseteq T => U = T
    <3>1. Q \in SUBSET SUBSET S
      OBVIOUS
    <3> HIDE DEF Q
    <3> QED BY <3>1, SmallestSubset
  <2>2. T # {} /\ IsFiniteSet(T)
    <3>1. SumOver(f, {}) \in Int /\ SumOver(f, T) \notin Int
      BY <2>1, SumEmpty
    <3> QED BY <2>1, <3>1, FS_Subset
  <2>3. First(T) \in T /\ T \ {First(T)} \notin Q /\ T \ {First(T)} \in SUBSET S
    BY <2>1, <2>2, FirstIsElement
  <2>4. SumOver(f, T) = f[First(T)] + SumOver(f, T \ {First(T)})
    BY <2>2, SumFirst
  <2>5. f[First(T)] \in Int /\ SumOver(f, T \ {First(T)}) \in Int
    BY <2>3
  <2> QED BY <2>1, <2>4, <2>5
<1> QED BY <1>1

(* Any element may be the one that is taken out first. *)
LEMMA SumRemove ==
    ASSUME NEW f, NEW S, IsFiniteSet(S), \A x \in S : f[x] \in Int, NEW x \in S
    PROVE  SumOver(f, S) = f[x] + SumOver(f, S \ {x})
<1> DEFINE Q == { T \in SUBSET S :
                    \E y \in T : SumOver(f, T) # f[y] + SumOver(f, T \ {y}) }
<1>1. Q = {}
  <2> SUFFICES ASSUME Q # {} PROVE FALSE
    OBVIOUS
  <2>1. PICK T \in Q : \A U \in Q : U \subseteq T => U = T
    <3>1. Q \in SUBSET SUBSET S
      OBVIOUS
    <3> HIDE DEF Q
    <3> QED BY <3>1, SmallestSubset
  <2>2. PICK y \in T : SumOver(f, T) # f[y] + SumOver(f, T \ {y})
    BY <2>1
  <2> DEFINE c == First(T)
             Tc == T \ {c}
             Ty == T \ {y}
             Tcy == T \ {c, y}
  <2>3. IsFiniteSet(T) /\ T # {} /\ c \in T
    BY <2>1, <2>2, FS_Subset, FirstIsElement
  <2>4. SumOver(f, T) = f[c] + SumOver(f, Tc)
    BY <2>3, SumFirst
  <2>5. c # y
    BY <2>2, <2>4
  <2>6. Tc \in SUBSET S /\ Tc \notin Q /\ y \in Tc
    BY <2>1, <2>2, <2>3, <2>5
  <2>7. Ty \in SUBSET S /\ Ty \notin Q /\ c \in Ty
    BY <2>1, <2>2, <2>3, <2>5
  <2>8. Tc \ {y} = Tcy /\ Ty \ {c} = Tcy /\ Tcy \in SUBSET S
    BY <2>1
  <2>9. SumOver(f, Tc) = f[y] + SumOver(f, Tcy)
    BY <2>6, <2>8
  <2>10. SumOver(f, Ty) = f[c] + SumOver(f, Tcy)
    BY <2>7, <2>8
  <2>11. f[c] \in Int /\ f[y] \in Int /\ SumOver(f, Tcy) \in Int
    <3>1. IsFiniteSet(Tcy) /\ \A z \in Tcy : f[z] \in Int
      BY <2>8, FS_Subset
    <3> QED BY <2>6, <2>7, <3>1, SumInt
  <2> HIDE DEF c, Tc, Ty, Tcy
  <2> QED BY <2>2, <2>4, <2>9, <2>10, <2>11 DEF Ty
<1> QED BY <1>1

(* One number sums up to itself. *)
LEMMA SumSingleton ==
    ASSUME NEW f, NEW x, f[x] \in Int
    PROVE  SumOver(f, {x}) = f[x]
<1>1. IsFiniteSet({x}) /\ {x} \ {x} = {}
  BY FS_Singleton
<1>2. SumOver(f, {x}) = f[x] + SumOver(f, {x} \ {x})
  BY <1>1, SumRemove
<1> QED BY <1>1, <1>2, SumEmpty

(* A further element adds its term. *)
LEMMA SumAdd ==
    ASSUME NEW f, NEW S, IsFiniteSet(S), NEW x, x \notin S, \A y \in S \cup {x} : f[y] \in Int
    PROVE  SumOver(f, S \cup {x}) = f[x] + SumOver(f, S)
<1>1. IsFiniteSet(S \cup {x}) /\ (S \cup {x}) \ {x} = S
  BY FS_AddElement
<1> QED BY <1>1, SumRemove

(* A sum depends on nothing but what is summed. *)
LEMMA SumSame ==
    ASSUME NEW f, NEW g, NEW S, IsFiniteSet(S), \A x \in S : f[x] = g[x]
    PROVE  SumOver(f, S) = SumOver(g, S)
<1> DEFINE Q == { T \in SUBSET S : SumOver(f, T) # SumOver(g, T) }
<1>1. Q = {}
  <2> SUFFICES ASSUME Q # {} PROVE FALSE
    OBVIOUS
  <2>1. PICK T \in Q : \A U \in Q : U \subseteq T => U = T
    <3>1. Q \in SUBSET SUBSET S
      OBVIOUS
    <3> HIDE DEF Q
    <3> QED BY <3>1, SmallestSubset
  <2>2. T # {} /\ IsFiniteSet(T)
    BY <2>1, SumEmpty, FS_Subset
  <2>3. First(T) \in T /\ T \ {First(T)} \notin Q /\ T \ {First(T)} \in SUBSET S
    BY <2>1, <2>2, FirstIsElement
  <2>4. SumOver(f, T) = f[First(T)] + SumOver(f, T \ {First(T)})
    BY <2>2, SumFirst
  <2>5. SumOver(g, T) = g[First(T)] + SumOver(g, T \ {First(T)})
    BY <2>2, SumFirst
  <2> QED BY <2>1, <2>3, <2>4, <2>5
<1> QED BY <1>1

(* Larger terms, larger sum. *)
LEMMA SumMonotone ==
    ASSUME NEW f, NEW g, NEW S, IsFiniteSet(S),
           \A x \in S : f[x] \in Int /\ g[x] \in Int /\ f[x] <= g[x]
    PROVE  SumOver(f, S) <= SumOver(g, S)
<1> DEFINE Q == { T \in SUBSET S : ~(SumOver(f, T) <= SumOver(g, T)) }
<1>1. Q = {}
  <2> SUFFICES ASSUME Q # {} PROVE FALSE
    OBVIOUS
  <2>1. PICK T \in Q : \A U \in Q : U \subseteq T => U = T
    <3>1. Q \in SUBSET SUBSET S
      OBVIOUS
    <3> HIDE DEF Q
    <3> QED BY <3>1, SmallestSubset
  <2> DEFINE c == First(T)
             R == T \ {c}
  <2>2. T # {} /\ IsFiniteSet(T)
    <3>1. SumOver(f, {}) <= SumOver(g, {}) /\ ~(SumOver(f, T) <= SumOver(g, T))
      BY <2>1, SumEmpty
    <3> QED BY <2>1, <3>1, FS_Subset
  <2>3. c \in T /\ R \notin Q /\ R \in SUBSET S /\ IsFiniteSet(R)
    BY <2>1, <2>2, FirstIsElement, FS_Subset
  <2>4. SumOver(f, T) = f[c] + SumOver(f, R)
    BY <2>2, SumFirst
  <2>5. SumOver(g, T) = g[c] + SumOver(g, R)
    BY <2>2, SumFirst
  <2>6. SumOver(f, R) \in Int /\ SumOver(g, R) \in Int
    BY <2>3, SumInt
  <2>7. f[c] \in Int /\ g[c] \in Int /\ f[c] <= g[c] /\ SumOver(f, R) <= SumOver(g, R)
    BY <2>3
  <2>8. ~(SumOver(f, T) <= SumOver(g, T))
    BY <2>1
  <2> HIDE DEF c, R
  <2> QED BY <2>4, <2>5, <2>6, <2>7, <2>8
<1> QED BY <1>1

(* Zeros sum up to zero. *)
LEMMA SumZero ==
    ASSUME NEW f, NEW S, IsFiniteSet(S), \A x \in S : f[x] = 0
    PROVE  SumOver(f, S) = 0
<1> DEFINE Q == { T \in SUBSET S : SumOver(f, T) # 0 }
<1>1. Q = {}
  <2> SUFFICES ASSUME Q # {} PROVE FALSE
    OBVIOUS
  <2>1. PICK T \in Q : \A U \in Q : U \subseteq T => U = T
    <3>1. Q \in SUBSET SUBSET S
      OBVIOUS
    <3> HIDE DEF Q
    <3> QED BY <3>1, SmallestSubset
  <2>2. T # {} /\ IsFiniteSet(T)
    BY <2>1, SumEmpty, FS_Subset
  <2>3. First(T) \in T /\ T \ {First(T)} \notin Q /\ T \ {First(T)} \in SUBSET S
    BY <2>1, <2>2, FirstIsElement
  <2>4. SumOver(f, T) = f[First(T)] + SumOver(f, T \ {First(T)})
    BY <2>2, SumFirst
  <2>5. f[First(T)] = 0 /\ SumOver(f, T \ {First(T)}) = 0
    BY <2>3
  <2> QED BY <2>1, <2>4, <2>5
<1> QED BY <1>1

(* No term is negative: neither is the sum, and no term exceeds it. *)
LEMMA SumNat ==
    ASSUME NEW f, NEW S, IsFiniteSet(S), \A x \in S : f[x] \in Nat
    PROVE  SumOver(f, S) \in Nat /\ \A x \in S : f[x] <= SumOver(f, S)
<1>1. ASSUME NEW T \in SUBSET S PROVE SumOver(f, T) \in Nat
  <2> DEFINE z == [x \in S |-> 0]
  <2>1. IsFiniteSet(T) /\ \A x \in T : z[x] = 0 /\ z[x] \in Int /\ f[x] \in Int /\ z[x] <= f[x]
    BY FS_Subset
  <2> HIDE DEF z
  <2>2. SumOver(z, T) = 0 /\ SumOver(z, T) <= SumOver(f, T) /\ SumOver(f, T) \in Int
    BY <2>1, SumZero, SumMonotone, SumInt
  <2> QED BY <2>2
<1>2. ASSUME NEW x \in S PROVE f[x] <= SumOver(f, S)
  <2>1. SumOver(f, S) = f[x] + SumOver(f, S \ {x})
    <3>1. \A y \in S : f[y] \in Int
      OBVIOUS
    <3> QED BY <3>1, SumRemove
  <2>2. SumOver(f, S \ {x}) \in Nat /\ f[x] \in Nat
    BY <1>1
  <2> QED BY <2>1, <2>2
<1> QED BY <1>1, <1>2

(* What changes in one place changes the sum by as much. *)
LEMMA SumChange ==
    ASSUME NEW f, NEW g, NEW S, IsFiniteSet(S), NEW x \in S,
           \A y \in S : f[y] \in Int /\ g[y] \in Int,
           \A y \in S \ {x} : f[y] = g[y]
    PROVE  SumOver(g, S) = SumOver(f, S) - f[x] + g[x]
<1>1. IsFiniteSet(S \ {x})
  BY FS_Subset
<1>2. SumOver(f, S \ {x}) = SumOver(g, S \ {x}) /\ SumOver(f, S \ {x}) \in Int
  BY <1>1, SumSame, SumInt
<1>3. SumOver(f, S) = f[x] + SumOver(f, S \ {x}) /\ SumOver(g, S) = g[x] + SumOver(g, S \ {x})
  BY SumRemove
<1> QED BY <1>2, <1>3

(* Sums over sets that do not overlap add up. *)
LEMMA SumUnion ==
    ASSUME NEW f, NEW S, IsFiniteSet(S), NEW T, IsFiniteSet(T), S \cap T = {},
           \A x \in S \cup T : f[x] \in Int
    PROVE  SumOver(f, S \cup T) = SumOver(f, S) + SumOver(f, T)
<1> DEFINE Q == { U \in SUBSET T : SumOver(f, S \cup U) # SumOver(f, S) + SumOver(f, U) }
<1>0. SumOver(f, S) \in Int
  BY SumInt
<1>1. Q = {}
  <2> SUFFICES ASSUME Q # {} PROVE FALSE
    OBVIOUS
  <2>1. PICK U \in Q : \A V \in Q : V \subseteq U => V = U
    <3>1. Q \in SUBSET SUBSET T
      OBVIOUS
    <3> HIDE DEF Q
    <3> QED BY <3>1, SmallestSubset
  <2>2. CASE U = {}
    <3>1. SumOver(f, U) = 0 /\ S \cup U = S
      BY <2>2, SumEmpty
    <3>2. SumOver(f, S \cup U) # SumOver(f, S) + SumOver(f, U)
      BY <2>1
    <3> QED BY <1>0, <3>1, <3>2
  <2>3. CASE U # {}
    <3> DEFINE c == First(U)
               R == U \ {c}
    <3>1. c \in U /\ R \notin Q /\ R \in SUBSET T /\ U \in SUBSET T
      BY <2>1, <2>3, FirstIsElement
    <3>2. IsFiniteSet(R) /\ IsFiniteSet(U) /\ IsFiniteSet(S \cup U) /\ IsFiniteSet(S \cup R)
      BY <3>1, FS_Subset, FS_Union
    <3>3. (S \cup U) \ {c} = S \cup R /\ c \in S \cup U /\ f[c] \in Int
      BY <3>1
    <3>4. SumOver(f, S \cup U) = f[c] + SumOver(f, S \cup R)
      BY <3>1, <3>2, <3>3, SumRemove
    <3>5. SumOver(f, U) = f[c] + SumOver(f, R)
      BY <3>1, <3>2, SumRemove
    <3>6. SumOver(f, S \cup R) = SumOver(f, S) + SumOver(f, R) /\ SumOver(f, R) \in Int
      BY <3>1, <3>2, SumInt
    <3>7. SumOver(f, S \cup U) # SumOver(f, S) + SumOver(f, U)
      BY <2>1
    <3> HIDE DEF c, R
    <3> QED BY <1>0, <3>3, <3>4, <3>5, <3>6, <3>7
  <2> QED BY <2>2, <2>3
<1> QED BY <1>1

-----------------------------------------------------------------------------
(* Sums over an interval. *)

(* The last number of an interval apart. *)
LEMMA IntervalStep ==
    ASSUME NEW a \in Int, NEW b \in Int, a <= b
    PROVE  /\ a .. b = (a .. (b - 1)) \cup {b}
           /\ b \notin a .. (b - 1)
           /\ IsFiniteSet(a .. (b - 1))
<1>1. a .. b = (a .. (b - 1)) \cup {b} /\ b \notin a .. (b - 1)
  OBVIOUS
<1>2. b - 1 \in Int
  OBVIOUS
<1>3. IsFiniteSet(a .. (b - 1))
  BY <1>2, FS_Interval
<1> QED BY <1>1, <1>3

(* After its first n terms, f has the m terms of g. *)
Holds(f, n, g, m) == \A i \in 1 .. m : g[i] \in Int /\ f[n + i] = g[i]

(* Numbered from n + 1 or from 1, the sum is the same. *)
LEMMA SumShift ==
    ASSUME NEW n \in Nat, NEW m \in Nat, NEW f, NEW g, Holds(f, n, g, m)
    PROVE  SumOver(f, n + 1 .. n + m) = SumOver(g, 1 .. m)
<1> USE DEF Holds
<1> DEFINE Q == { k \in 0 .. m : SumOver(f, n + 1 .. n + k) # SumOver(g, 1 .. k) }
<1>1. Q = {}
  <2> SUFFICES ASSUME Q # {} PROVE FALSE
    OBVIOUS
  <2>1. PICK k \in Q : \A l \in Q : k <= l
    <3>1. Q \in SUBSET Nat
      OBVIOUS
    <3> HIDE DEF Q
    <3> QED BY <3>1, LeastNatural
  <2>2. k \in 0 .. m /\ SumOver(f, n + 1 .. n + k) # SumOver(g, 1 .. k)
    OBVIOUS
  <2>3. k # 0
    <3>1. n + 1 .. n + 0 = {} /\ 1 .. 0 = {}
      OBVIOUS
    <3> QED BY <2>2, <3>1, SumEmpty
  <2>4. k - 1 \in 0 .. m /\ ~(k <= k - 1)
    BY <2>2, <2>3
  <2>5. SumOver(f, n + 1 .. n + (k - 1)) = SumOver(g, 1 .. (k - 1))
    BY <2>1, <2>4
  <2>6. /\ n + 1 .. n + k = (n + 1 .. n + (k - 1)) \cup {n + k}
        /\ 1 .. k = (1 .. (k - 1)) \cup {k}
        /\ n + k \notin n + 1 .. n + (k - 1) /\ k \notin 1 .. (k - 1)
        /\ IsFiniteSet(n + 1 .. n + (k - 1)) /\ IsFiniteSet(1 .. (k - 1))
    <3>1. n + 1 \in Int /\ n + k \in Int /\ n + 1 <= n + k /\ 1 \in Int /\ k \in Int /\ 1 <= k
      BY <2>2, <2>3
    <3>2. (n + k) - 1 = n + (k - 1)
      BY <2>2
    <3>3. /\ n + 1 .. n + k = (n + 1 .. (n + k) - 1) \cup {n + k}
          /\ n + k \notin n + 1 .. (n + k) - 1
          /\ IsFiniteSet(n + 1 .. (n + k) - 1)
      BY <3>1, IntervalStep
    <3>4. /\ 1 .. k = (1 .. k - 1) \cup {k}
          /\ k \notin 1 .. k - 1
          /\ IsFiniteSet(1 .. k - 1)
      BY <3>1, IntervalStep
    <3> QED BY <3>2, <3>3, <3>4
  <2>7. \A i \in (n + 1 .. n + (k - 1)) \cup {n + k} : f[i] \in Int
    <3> SUFFICES ASSUME NEW i \in (n + 1 .. n + (k - 1)) \cup {n + k} PROVE f[i] \in Int
      OBVIOUS
    <3>1. i \in Int /\ n + 1 <= i /\ i <= n + k /\ k \in Int /\ k <= m
      BY <2>2, <2>3
    <3> DEFINE l == i - n
    <3>2. l \in 1 .. m /\ n + l = i
      BY <3>1
    <3> HIDE DEF l
    <3> QED BY <3>2
  <2>8. \A i \in (1 .. (k - 1)) \cup {k} : g[i] \in Int
    BY <2>2, <2>3
  <2>9. f[n + k] = g[k]
    BY <2>2, <2>3
  <2> HIDE DEF Q
  <2>10. SumOver(f, n + 1 .. n + k) = f[n + k] + SumOver(f, n + 1 .. n + (k - 1))
    <3> DEFINE A == n + 1 .. n + (k - 1)
    <3>1. n + 1 .. n + k = A \cup {n + k} /\ n + k \notin A /\ IsFiniteSet(A)
      BY <2>6
    <3>2. \A i \in A \cup {n + k} : f[i] \in Int
      BY <2>7
    <3> HIDE DEF A
    <3>3. SumOver(f, A \cup {n + k}) = f[n + k] + SumOver(f, A)
      BY <3>1, <3>2, SumAdd
    <3> QED BY <3>1, <3>3 DEF A
  <2>11. SumOver(g, 1 .. k) = g[k] + SumOver(g, 1 .. (k - 1))
    <3> DEFINE A == 1 .. (k - 1)
    <3>1. 1 .. k = A \cup {k} /\ k \notin A /\ IsFiniteSet(A)
      BY <2>6
    <3>2. \A i \in A \cup {k} : g[i] \in Int
      BY <2>8
    <3> HIDE DEF A
    <3>3. SumOver(g, A \cup {k}) = g[k] + SumOver(g, A)
      BY <3>1, <3>2, SumAdd
    <3> QED BY <3>1, <3>3 DEF A
  <2> QED BY <2>2, <2>5, <2>9, <2>10, <2>11
<1>2. m \notin Q
  BY <1>1
<1> QED BY <1>2

(* The sum over one sequence after another is the sum of their sums. *)
LEMMA SumConcat ==
    ASSUME NEW n \in Nat, NEW m \in Nat, NEW f, NEW g, NEW h,
           Holds(f, 0, g, n), Holds(f, n, h, m)
    PROVE  SumOver(f, 1 .. n + m) = SumOver(g, 1 .. n) + SumOver(h, 1 .. m)
<1> DEFINE S == 1 .. n
           T == n + 1 .. n + m
<1>1. /\ IsFiniteSet(S) /\ IsFiniteSet(T)
      /\ S \cap T = {} /\ 1 .. n + m = S \cup T
  <2>1. S \cap T = {} /\ 1 .. n + m = S \cup T
    OBVIOUS
  <2>2. 1 \in Int /\ n \in Int /\ n + 1 \in Int /\ n + m \in Int
    OBVIOUS
  <2>3. IsFiniteSet(S) /\ IsFiniteSet(T)
    BY <2>2, FS_Interval
  <2> QED BY <2>1, <2>3
<1>2. \A i \in S \cup T : f[i] \in Int
  <2> USE DEF Holds
  <2> SUFFICES ASSUME NEW i \in S \cup T, i \notin S PROVE f[i] \in Int
    OBVIOUS
  <2>1. i - n \in 1 .. m /\ n + (i - n) = i
    OBVIOUS
  <2> QED BY <2>1
<1>3. SumOver(f, S) = SumOver(g, S)
  <2>1. \A i \in S : f[i] = g[i]
    BY DEF Holds
  <2> HIDE DEF S
  <2> QED BY <1>1, <2>1, SumSame
<1>4. SumOver(f, n + 1 .. n + m) = SumOver(h, 1 .. m)
  BY SumShift
<1> HIDE DEF S, T
<1>5. SumOver(f, S \cup T) = SumOver(f, S) + SumOver(f, T)
  BY <1>1, <1>2, SumUnion
<1> QED BY <1>1, <1>3, <1>4, <1>5 DEF S, T

(* .. and one more term is added to it. *)
LEMMA SumAppend ==
    ASSUME NEW n \in Nat, NEW f, NEW g, Holds(f, 0, g, n), f[n + 1] \in Int
    PROVE  SumOver(f, 1 .. n + 1) = SumOver(g, 1 .. n) + f[n + 1]
<1>1. /\ IsFiniteSet(1 .. n) /\ n + 1 \notin 1 .. n
      /\ 1 .. n + 1 = (1 .. n) \cup {n + 1}
  <2>1. n + 1 \in Int /\ 1 <= n + 1 /\ (n + 1) - 1 = n
    OBVIOUS
  <2> DEFINE k == n + 1
  <2>2. 1 .. k = (1 .. (k - 1)) \cup {k} /\ k \notin 1 .. (k - 1) /\ IsFiniteSet(1 .. (k - 1))
    <3> HIDE DEF k
    <3>1. 1 \in Int /\ k \in Int /\ 1 <= k
      BY <2>1 DEF k
    <3> QED BY <3>1, IntervalStep
  <2> QED BY <2>1, <2>2
<1>2. \A i \in (1 .. n) \cup {n + 1} : f[i] \in Int
  BY DEF Holds
<1>3. SumOver(f, 1 .. n + 1) = f[n + 1] + SumOver(f, 1 .. n)
  BY <1>1, <1>2, SumAdd
<1>4. SumOver(f, 1 .. n) = SumOver(g, 1 .. n)
  <2>1. \A i \in 1 .. n : f[i] = g[i]
    BY DEF Holds
  <2> QED BY <1>1, <2>1, SumSame
<1>5. SumOver(g, 1 .. n) \in Int
  <2>1. \A i \in 1 .. n : g[i] \in Int
    BY DEF Holds
  <2> QED BY <1>1, <2>1, SumInt
<1> QED BY <1>3, <1>4, <1>5

-----------------------------------------------------------------------------
(* Term by term: the sum of differences is the difference of sums. *)
LEMMA SumPlus ==
    ASSUME NEW f, NEW g, NEW d, NEW S, IsFiniteSet(S),
           \A x \in S : f[x] \in Int /\ d[x] \in Int /\ g[x] = f[x] + d[x]
    PROVE  SumOver(g, S) = SumOver(f, S) + SumOver(d, S)
<1> DEFINE Q == { T \in SUBSET S : SumOver(g, T) # SumOver(f, T) + SumOver(d, T) }
<1>1. Q = {}
  <2> SUFFICES ASSUME Q # {} PROVE FALSE
    OBVIOUS
  <2>1. PICK T \in Q : \A U \in Q : U \subseteq T => U = T
    <3>1. Q \in SUBSET SUBSET S
      OBVIOUS
    <3> HIDE DEF Q
    <3> QED BY <3>1, SmallestSubset
  <2> DEFINE c == First(T)
             R == T \ {c}
  <2>2. T # {} /\ IsFiniteSet(T)
    <3>1. SumOver(g, {}) = SumOver(f, {}) + SumOver(d, {})
      BY SumEmpty
    <3>2. SumOver(g, T) # SumOver(f, T) + SumOver(d, T)
      BY <2>1
    <3> QED BY <2>1, <3>1, <3>2, FS_Subset
  <2>3. c \in T /\ R \notin Q /\ R \in SUBSET S /\ IsFiniteSet(R)
    BY <2>1, <2>2, FirstIsElement, FS_Subset
  <2>4. /\ SumOver(f, T) = f[c] + SumOver(f, R)
        /\ SumOver(g, T) = g[c] + SumOver(g, R)
        /\ SumOver(d, T) = d[c] + SumOver(d, R)
    BY <2>2, SumFirst
  <2>5. SumOver(f, R) \in Int /\ SumOver(d, R) \in Int
    BY <2>3, SumInt
  <2>6. f[c] \in Int /\ d[c] \in Int /\ g[c] = f[c] + d[c] /\ SumOver(g, R) = SumOver(f, R) + SumOver(d, R)
    BY <2>3
  <2>7. SumOver(g, T) # SumOver(f, T) + SumOver(d, T)
    BY <2>1
  <2> HIDE DEF c, R
  <2> QED BY <2>4, <2>5, <2>6, <2>7
<1> QED BY <1>1

(* A sum over a part: what is outside of it counts as zero. *)
LEMMA SumPart ==
    ASSUME NEW f, NEW g, NEW S, IsFiniteSet(S), NEW T \in SUBSET S,
           \A x \in T : f[x] \in Int /\ g[x] = f[x],
           \A x \in S \ T : g[x] = 0
    PROVE  SumOver(g, S) = SumOver(f, T)
<1> DEFINE U == S \ T
<1>1. IsFiniteSet(T) /\ IsFiniteSet(U) /\ T \cap U = {} /\ T \cup U = S
  BY FS_Subset
<1>2. \A x \in T \cup U : g[x] \in Int
  OBVIOUS
<1>3. \A x \in U : g[x] = 0
  OBVIOUS
<1> HIDE DEF U
<1>4. SumOver(g, T \cup U) = SumOver(g, T) + SumOver(g, U)
  BY <1>1, <1>2, SumUnion
<1>5. SumOver(g, U) = 0
  BY <1>1, <1>3, SumZero
<1>6. SumOver(g, T) = SumOver(f, T) /\ SumOver(f, T) \in Int
  BY <1>1, SumSame, SumInt
<1>7. SumOver(g, S) = SumOver(g, T) + SumOver(g, U)
  BY <1>1, <1>4
<1> DEFINE x == SumOver(f, T)
<1>8. SumOver(g, S) = x + 0 /\ x \in Int
  BY <1>5, <1>6, <1>7
<1> HIDE DEF x
<1>9. SumOver(g, S) = x
  BY <1>8
<1> QED BY <1>9 DEF x

(* t[x] is the sum of what f is on the elements of S whose key is x. *)
Grouped(t, L, f, S, key) == \A x \in L : t[x] = SumOver(f, { y \in S : key[y] = x })

(* Grouping a sum by keys does not change it. *)
LEMMA SumByKey ==
    ASSUME NEW f, NEW S, IsFiniteSet(S), \A y \in S : f[y] \in Int,
           NEW key, NEW L, IsFiniteSet(L), NEW t, Grouped(t, L, f, S, key)
    PROVE  SumOver(t, L) = SumOver(f, { y \in S : key[y] \in L })
<1> DEFINE Part(M) == { y \in S : key[y] \in M }
           Q == { M \in SUBSET L : SumOver(t, M) # SumOver(f, Part(M)) }
<1>1. Q = {}
  <2> SUFFICES ASSUME Q # {} PROVE FALSE
    OBVIOUS
  <2>1. PICK M \in Q : \A U \in Q : U \subseteq M => U = M
    <3>1. Q \in SUBSET SUBSET L
      OBVIOUS
    <3> HIDE DEF Q
    <3> QED BY <3>1, SmallestSubset
  <2> DEFINE c == First(M)
             R == M \ {c}
             C == { y \in S : key[y] = c }
             P == Part(R)
  <2>2. M # {} /\ IsFiniteSet(M)
    <3>1. SumOver(t, {}) = SumOver(f, {}) /\ Part({}) = {}
      BY SumEmpty
    <3>2. SumOver(t, M) # SumOver(f, Part(M))
      BY <2>1
    <3> QED BY <2>1, <3>1, <3>2, FS_Subset
  <2>3. c \in M /\ c \in L /\ R \notin Q /\ R \in SUBSET L
    BY <2>1, <2>2, FirstIsElement
  <2>4. SumOver(t, M) = t[c] + SumOver(t, R)
    BY <2>2, SumFirst
  <2>5. t[c] = SumOver(f, C)
    BY <2>3 DEF Grouped
  <2>6. SumOver(t, R) = SumOver(f, P)
    BY <2>3
  <2>7. Part(M) = C \cup P /\ C \cap P = {} /\ C \subseteq S /\ P \subseteq S
    BY <2>3
  <2>8. IsFiniteSet(C) /\ IsFiniteSet(P) /\ \A y \in C \cup P : f[y] \in Int
    BY <2>7, FS_Subset
  <2>9. SumOver(t, M) # SumOver(f, Part(M))
    BY <2>1
  <2> HIDE DEF C, P, R, c, Q
  <2>10. SumOver(f, C \cup P) = SumOver(f, C) + SumOver(f, P)
    BY <2>7, <2>8, SumUnion
  <2> QED BY <2>4, <2>5, <2>6, <2>7, <2>9, <2>10
<1>2. L \in SUBSET L /\ L \notin Q
  BY <1>1
<1> QED BY <1>2
=============================================================================
