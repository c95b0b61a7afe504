------------------------------ MODULE CostingProofs ------------------------------
(***************************************************************************)
(* Proofs about Costing: what an outflow takes from the layers, and that   *)
(* layers are used oldest first, a transfer keeps its cost, the average    *)
(* stays between the costs paid and the layers cover the stock.            *)
(***************************************************************************)
EXTENDS Costing, Sums, SequenceTheorems

Part == [qty : Nat \ {0}, cost : Int]
Layer == [left : Nat, got : Nat, cost : Int, source : Nat]

Units(parts) == Total([i \in DOMAIN parts |-> parts[i].qty], DOMAIN parts)

(* What is left in the layers older than the i-th. *)
Before(ls, i) == SumOver(LeftOf(ls), 1 .. i - 1)

Lesser(a, b) == IF a <= b THEN a ELSE b

-----------------------------------------------------------------------------
(* The lesser of two numbers .. *)
LEMMA MinOfTwo ==
    ASSUME NEW a \in Int, NEW b \in Int
    PROVE  Min({a, b}) = IF a <= b THEN a ELSE b
<1>1. \E x \in {a, b} : \A y \in {a, b} : x <= y
  OBVIOUS
<1>2. Min({a, b}) \in {a, b} /\ \A y \in {a, b} : Min({a, b}) <= y
  BY <1>1 DEF Min
<1> QED BY <1>2

(* .. and the greater. *)
LEMMA MaxOfTwo ==
    ASSUME NEW a \in Int, NEW b \in Int
    PROVE  Max({a, b}) = IF a >= b THEN a ELSE b
<1>1. \E x \in {a, b} : \A y \in {a, b} : x >= y
  OBVIOUS
<1>2. Max({a, b}) \in {a, b} /\ \A y \in {a, b} : Max({a, b}) >= y
  BY <1>1 DEF Max
<1> QED BY <1>2

(* Total is the sum that Sums is about. *)
LEMMA TotalIsSum ==
    ASSUME NEW f, NEW S
    PROVE  Total(f, S) = SumOver(f, S)
BY DEF Total, SumOver

-----------------------------------------------------------------------------
(* The parts of a layer. *)
LEMMA LayerFields ==
    ASSUME NEW ls \in Seq(Layer), NEW i \in 1 .. Len(ls)
    PROVE  /\ ls[i] \in Layer
           /\ ls[i].left \in Nat /\ ls[i].got \in Nat
           /\ ls[i].cost \in Int /\ ls[i].source \in Nat
           /\ LeftOf(ls)[i] = ls[i].left
           /\ CostOf(ls)[i] = ls[i].got * ls[i].cost
<1>1. ls[i] \in Layer /\ DOMAIN ls = 1 .. Len(ls)
  OBVIOUS
<1>2. ls[i].left \in Nat /\ ls[i].got \in Nat /\ ls[i].cost \in Int /\ ls[i].source \in Nat
  BY <1>1 DEF Layer
<1>3. LeftOf(ls)[i] = ls[i].left /\ CostOf(ls)[i] = ls[i].got * ls[i].cost
  BY <1>1 DEF LeftOf, CostOf
<1> QED BY <1>1, <1>2, <1>3

(* The layers before the first hold nothing; each adds what it has left. *)
LEMMA BeforeAdds ==
    ASSUME NEW ls \in Seq(Layer)
    PROVE  /\ Before(ls, 1) = 0
           /\ Before(ls, Len(ls) + 1) = Left(ls)
           /\ \A i \in 1 .. Len(ls) + 1 : Before(ls, i) \in Nat
           /\ \A i \in 1 .. Len(ls) : Before(ls, i + 1) = Before(ls, i) + ls[i].left
<1> DEFINE f == LeftOf(ls)
<1>1. \A i \in 1 .. Len(ls) : f[i] = ls[i].left /\ f[i] \in Nat
  BY LayerFields
<1> HIDE DEF f
<1>2. Before(ls, 1) = 0
  <2>1. 1 .. 1 - 1 = {}
    OBVIOUS
  <2> QED BY <2>1, SumEmpty DEF Before
<1>3. Before(ls, Len(ls) + 1) = Left(ls)
  <2>1. (Len(ls) + 1) - 1 = Len(ls) /\ DOMAIN ls = 1 .. Len(ls)
    OBVIOUS
  <2> QED BY <2>1, TotalIsSum DEF Before, Left
<1>4. ASSUME NEW i \in 1 .. Len(ls) + 1 PROVE Before(ls, i) \in Nat
  <2>1. 1 \in Int /\ i - 1 \in Int
    OBVIOUS
  <2>2. IsFiniteSet(1 .. i - 1)
    BY <2>1, FS_Interval
  <2>3. \A j \in 1 .. i - 1 : f[j] \in Nat
    BY <1>1
  <2> QED BY <2>2, <2>3, SumNat DEF Before, f
<1>5. ASSUME NEW i \in 1 .. Len(ls) PROVE Before(ls, i + 1) = Before(ls, i) + ls[i].left
  <2>1. PICK n \in Nat : i = n + 1
    <3>1. i - 1 \in Nat /\ i = (i - 1) + 1
      OBVIOUS
    <3> QED BY <3>1
  <2>2. Holds(f, 0, f, n) /\ f[n + 1] \in Int
    BY <1>1, <2>1 DEF Holds
  <2>3. SumOver(f, 1 .. n + 1) = SumOver(f, 1 .. n) + f[n + 1]
    BY <2>2, SumAppend
  <2>4. (i + 1) - 1 = n + 1 /\ i - 1 = n
    BY <2>1
  <2> QED BY <1>1, <2>1, <2>3, <2>4 DEF Before, f
<1> QED BY <1>2, <1>3, <1>4, <1>5

(* Of a younger layer, an older one is among the layers before it. *)
LEMMA BeforeGrows ==
    ASSUME NEW ls \in Seq(Layer), NEW i \in 1 .. Len(ls), NEW k \in 1 .. Len(ls), i < k
    PROVE  Before(ls, i) + ls[i].left <= Before(ls, k)
<1> DEFINE Q == { n \in i + 1 .. Len(ls) : ~(Before(ls, i + 1) <= Before(ls, n)) }
<1>1. Q = {}
  <2> SUFFICES ASSUME Q # {} PROVE FALSE
    OBVIOUS
  <2>1. PICK n \in Q : \A l \in Q : n <= l
    <3>1. Q \in SUBSET Nat
      OBVIOUS
    <3> HIDE DEF Q
    <3> QED BY <3>1, LeastNatural
  <2>2. n \in i + 1 .. Len(ls) /\ ~(Before(ls, i + 1) <= Before(ls, n))
    OBVIOUS
  <2>3. Before(ls, i + 1) \in Nat /\ Before(ls, n) \in Nat
    BY <2>2, BeforeAdds
  <2>4. n # i + 1
    BY <2>2, <2>3
  <2>5. n - 1 \in i + 1 .. Len(ls) /\ ~(n <= n - 1)
    BY <2>2, <2>4
  <2>6. Before(ls, i + 1) <= Before(ls, n - 1)
    BY <2>1, <2>5
  <2>7. n - 1 \in 1 .. Len(ls) /\ (n - 1) + 1 = n
    BY <2>2, <2>5
  <2>8. Before(ls, n) = Before(ls, n - 1) + ls[n - 1].left /\ Before(ls, n - 1) \in Nat
    <3> DEFINE o == n - 1
    <3>1. o \in 1 .. Len(ls) /\ o \in 1 .. Len(ls) + 1 /\ o + 1 = n
      BY <2>7
    <3> HIDE DEF o
    <3>2. Before(ls, o + 1) = Before(ls, o) + ls[o].left /\ Before(ls, o) \in Nat
      BY <3>1, BeforeAdds
    <3> QED BY <3>1, <3>2 DEF o
  <2>9. ls[n - 1].left \in Nat
    BY <2>7, LayerFields
  <2> HIDE DEF Q
  <2> QED BY <2>2, <2>3, <2>6, <2>8, <2>9
<1>2. k \notin Q /\ k \in i + 1 .. Len(ls)
  BY <1>1
<1>3. Before(ls, i + 1) <= Before(ls, k)
  BY <1>2
<1> QED BY <1>3, BeforeAdds

(* What is taken from a layer: what the older ones leave to take, if it has *)
(* as much.                                                                  *)
LEMMA TakenFromLayer ==
    ASSUME NEW ls \in Seq(Layer), NEW need \in Nat, NEW i \in 1 .. Len(ls)
    PROVE  /\ Taken(ls, need, i) \in 0 .. ls[i].left
           /\ Taken(ls, need, i) = Lesser(need, Before(ls, i + 1)) - Lesser(need, Before(ls, i))
<1>1. { j \in DOMAIN ls : j < i } = 1 .. i - 1
  OBVIOUS
<1> DEFINE b == Before(ls, i)
           l == ls[i].left
<1>2. b \in Nat /\ l \in Nat /\ Before(ls, i + 1) = b + l
  <2>1. i \in 1 .. Len(ls) + 1
    OBVIOUS
  <2> QED BY <2>1, BeforeAdds, LayerFields
<1>3. Taken(ls, need, i) = Min({l, Max({0, need - b})})
  BY <1>1, TotalIsSum DEF Taken, Before
<1> HIDE DEF b, l
<1>4. Max({0, need - b}) = IF 0 >= need - b THEN 0 ELSE need - b
  BY <1>2, MaxOfTwo
<1> DEFINE m == Max({0, need - b})
<1>5. m \in Nat /\ m = IF 0 >= need - b THEN 0 ELSE need - b
  BY <1>2, <1>4
<1> HIDE DEF m
<1>6. Min({l, m}) = IF l <= m THEN l ELSE m
  BY <1>2, <1>5, MinOfTwo
<1>7. Taken(ls, need, i) = IF l <= m THEN l ELSE m
  BY <1>3, <1>6 DEF m
<1>8. /\ Taken(ls, need, i) \in 0 .. l
      /\ Taken(ls, need, i) = Lesser(need, b + l) - Lesser(need, b)
  BY <1>2, <1>5, <1>7 DEF Lesser
<1> QED BY <1>2, <1>8 DEF b, l

(* Consumption lowers what is left, and nothing else. *)
LEMMA ConsumedLayers ==
    ASSUME NEW ls \in Seq(Layer), NEW need \in Nat
    PROVE  /\ Consumed(ls, need) \in Seq(Layer)
           /\ Len(Consumed(ls, need)) = Len(ls)
           /\ \A i \in 1 .. Len(ls) :
                /\ Consumed(ls, need)[i].left = ls[i].left - Taken(ls, need, i)
                /\ Consumed(ls, need)[i].got = ls[i].got
                /\ Consumed(ls, need)[i].cost = ls[i].cost
                /\ Consumed(ls, need)[i].source = ls[i].source
<1> DEFINE cs == Consumed(ls, need)
<1>1. Len(ls) \in Nat /\ DOMAIN ls = 1 .. Len(ls)
  OBVIOUS
<1>2. cs = [i \in 1 .. Len(ls) |-> [ls[i] EXCEPT !.left = ls[i].left - Taken(ls, need, i)]]
  BY <1>1 DEF Consumed
<1> HIDE DEF cs
<1>3. ASSUME NEW i \in 1 .. Len(ls)
      PROVE  /\ cs[i] \in Layer
             /\ cs[i].left = ls[i].left - Taken(ls, need, i)
             /\ cs[i].got = ls[i].got
             /\ cs[i].cost = ls[i].cost
             /\ cs[i].source = ls[i].source
  <2> DEFINE l == ls[i].left - Taken(ls, need, i)
  <2>1. l \in Nat
    <3>1. Taken(ls, need, i) \in 0 .. ls[i].left /\ ls[i].left \in Nat
      BY TakenFromLayer, LayerFields
    <3> QED BY <3>1
  <2>2. ls[i] \in Layer
    BY LayerFields
  <2>3. cs[i] = [ls[i] EXCEPT !.left = l]
    BY <1>2
  <2> HIDE DEF l
  <2>4. /\ cs[i] \in Layer /\ cs[i].left = l /\ cs[i].got = ls[i].got
        /\ cs[i].cost = ls[i].cost /\ cs[i].source = ls[i].source
    BY <2>1, <2>2, <2>3 DEF Layer
  <2> QED BY <2>4 DEF l
<1>4. cs \in Seq(Layer) /\ Len(cs) = Len(ls)
  <2>1. \A i \in 1 .. Len(ls) : cs[i] \in Layer
    BY <1>3
  <2>2. cs = [i \in 1 .. Len(ls) |-> cs[i]]
    BY <1>2
  <2> DEFINE c(i) == cs[i]
  <2>3. [i \in 1 .. Len(ls) |-> cs[i]] \in Seq(Layer)
    BY <1>1, <2>1, IsASeq
  <2> QED BY <1>1, <2>2, <2>3
<1> QED BY <1>3, <1>4 DEF cs

(* As much is gone from the layers as an outflow needs, if they have as much. *)
LEMMA ConsumedLeft ==
    ASSUME NEW ls \in Seq(Layer), NEW need \in Nat
    PROVE  Left(Consumed(ls, need)) = Left(ls) - Lesser(need, Left(ls))
<1> DEFINE cs == Consumed(ls, need)
           Q == { n \in 1 .. Len(ls) + 1 :
                    Before(cs, n) # Before(ls, n) - Lesser(need, Before(ls, n)) }
<1>1. cs \in Seq(Layer) /\ Len(cs) = Len(ls)
  BY ConsumedLayers
<1> HIDE DEF cs
<1>2. Q = {}
  <2> SUFFICES ASSUME Q # {} PROVE FALSE
    OBVIOUS
  <2>1. PICK n \in Q : \A l \in Q : n <= l
    <3>1. Q \in SUBSET Nat
      OBVIOUS
    <3> HIDE DEF Q
    <3> QED BY <3>1, LeastNatural
  <2>2. n \in 1 .. Len(ls) + 1 /\ Before(cs, n) # Before(ls, n) - Lesser(need, Before(ls, n))
    OBVIOUS
  <2>3. n # 1
    BY <1>1, <2>2, BeforeAdds DEF Lesser
  <2> DEFINE o == n - 1
  <2>4. o \in 1 .. Len(ls) /\ o \in 1 .. Len(ls) + 1 /\ o + 1 = n /\ ~(n <= o)
    BY <2>2, <2>3
  <2>5. o \notin Q
    BY <2>1, <2>4
  <2>6. Before(cs, o) = Before(ls, o) - Lesser(need, Before(ls, o))
    BY <2>4, <2>5
  <2> HIDE DEF o, Q
  <2>7. /\ Before(ls, n) = Before(ls, o) + ls[o].left
        /\ Before(ls, n) \in Nat /\ Before(ls, o) \in Nat
    BY <2>2, <2>4, BeforeAdds
  <2>8. Before(cs, n) = Before(cs, o) + cs[o].left
    BY <1>1, <2>4, BeforeAdds
  <2>9. /\ cs[o].left = ls[o].left - Taken(ls, need, o)
        /\ Taken(ls, need, o) = Lesser(need, Before(ls, n)) - Lesser(need, Before(ls, o))
        /\ ls[o].left \in Nat
    BY <2>4, ConsumedLayers, TakenFromLayer, LayerFields DEF cs
  <2>10. \A a, b \in Nat : Lesser(a, b) \in Nat
    BY DEF Lesser
  <2>11. Lesser(need, Before(ls, n)) \in Nat /\ Lesser(need, Before(ls, o)) \in Nat
    BY <2>7, <2>10
  <2> QED BY <2>2, <2>6, <2>7, <2>8, <2>9, <2>11
<1>3. Len(ls) + 1 \in 1 .. Len(ls) + 1 /\ Len(ls) + 1 \notin Q
  BY <1>2
<1>4. Before(cs, Len(ls) + 1) = Before(ls, Len(ls) + 1) - Lesser(need, Before(ls, Len(ls) + 1))
  BY <1>3
<1> QED BY <1>1, <1>4, BeforeAdds DEF cs

-----------------------------------------------------------------------------
(* The parts of a part. *)
LEMMA PartFields ==
    ASSUME NEW ps \in Seq(Part), NEW i \in 1 .. Len(ps)
    PROVE  ps[i] \in Part /\ ps[i].qty \in Nat /\ ps[i].qty # 0 /\ ps[i].cost \in Int
<1>1. ps[i] \in Part
  OBVIOUS
<1> QED BY <1>1 DEF Part

(* One part more is as many units more. *)
LEMMA UnitsAppend ==
    ASSUME NEW ps \in Seq(Part), NEW p \in Part
    PROVE  Units(Append(ps, p)) = Units(ps) + p.qty
<1> DEFINE qs == Append(ps, p)
           f == [i \in DOMAIN qs |-> qs[i].qty]
           g == [i \in DOMAIN ps |-> ps[i].qty]
           n == Len(ps)
<1>1. /\ n \in Nat /\ DOMAIN ps = 1 .. n /\ DOMAIN qs = 1 .. n + 1
      /\ \A i \in 1 .. n : qs[i] = ps[i]
      /\ qs[n + 1] = p
  OBVIOUS
<1>2. p.qty \in Int
  BY DEF Part
<1> HIDE DEF qs, n
<1>3. \A i \in 1 .. n : g[i] \in Int /\ f[i] = g[i]
  BY <1>1, PartFields DEF n
<1>4. f[n + 1] = p.qty
  BY <1>1
<1> HIDE DEF f, g
<1>5. Holds(f, 0, g, n)
  BY <1>1, <1>3 DEF Holds
<1>6. SumOver(f, 1 .. n + 1) = SumOver(g, 1 .. n) + f[n + 1]
  BY <1>1, <1>2, <1>4, <1>5, SumAppend
<1>7. Units(qs) = SumOver(f, 1 .. n + 1) /\ Units(ps) = SumOver(g, 1 .. n)
  BY <1>1, TotalIsSum DEF Units, f, g
<1> QED BY <1>4, <1>6, <1>7 DEF qs

-----------------------------------------------------------------------------
(* The function that Allocations is computed with, up to the n-th layer. *)
AllocatesUpTo(ls, need, n, h) ==
    h = [k \in 0 .. n |->
            IF k = 0 THEN << >>
            ELSE IF Taken(ls, need, k) > 0
            THEN Append(h[k - 1], [qty |-> Taken(ls, need, k), cost |-> ls[k].cost])
            ELSE h[k - 1]]

(* Allocations is what it gives for all layers. *)
LEMMA AllocationsUnfolded ==
    ASSUME NEW ls, NEW need
    PROVE  Allocations(ls, need) = (CHOOSE h : AllocatesUpTo(ls, need, Len(ls), h))[Len(ls)]
BY DEF Allocations, AllocatesUpTo

(* There is such a function. *)
LEMMA AllocationsExist ==
    ASSUME NEW ls, NEW need, NEW n \in Nat
    PROVE  \E h : AllocatesUpTo(ls, need, n, h)
<1> DEFINE Q == { m \in Nat : ~\E h : AllocatesUpTo(ls, need, m, h) }
<1>1. Q = {}
  <2> SUFFICES ASSUME Q # {} PROVE FALSE
    OBVIOUS
  <2>1. PICK m \in Q : \A l \in Q : m <= l
    <3>1. Q \in SUBSET Nat
      OBVIOUS
    <3> HIDE DEF Q
    <3> QED BY <3>1, LeastNatural
  <2>2. m \in Nat /\ ~\E h : AllocatesUpTo(ls, need, m, h)
    OBVIOUS
  <2>3. m # 0
    <3> DEFINE h == [k \in 0 .. 0 |-> << >>]
    <3>1. AllocatesUpTo(ls, need, 0, h)
      BY DEF AllocatesUpTo
    <3> QED BY <2>2, <3>1
  <2>4. m - 1 \in Nat /\ ~(m <= m - 1)
    BY <2>2, <2>3
  <2>5. PICK g : AllocatesUpTo(ls, need, m - 1, g)
    BY <2>1, <2>4
  <2> HIDE DEF Q
  <2> DEFINE last == IF Taken(ls, need, m) > 0
                     THEN Append(g[m - 1], [qty |-> Taken(ls, need, m), cost |-> ls[m].cost])
                     ELSE g[m - 1]
             h == [k \in 0 .. m |-> IF k = m THEN last ELSE g[k]]
             Step(k) == IF k = 0 THEN << >>
                        ELSE IF Taken(ls, need, k) > 0
                        THEN Append(h[k - 1], [qty |-> Taken(ls, need, k), cost |-> ls[k].cost])
                        ELSE h[k - 1]
  <2>6. ASSUME NEW k \in 0 .. m PROVE h[k] = Step(k)
    <3>1. CASE k = m
      <4>1. h[m] = last /\ h[m - 1] = g[m - 1] /\ m # 0
        BY <2>2, <2>3, <2>4
      <4> QED BY <3>1, <4>1
    <3>2. CASE k # m
      <4>1. k \in 0 .. m - 1
        BY <2>2, <3>2
      <4>2. h[k] = g[k]
        BY <3>2
      <4>3. k # 0 => h[k - 1] = g[k - 1]
        BY <2>2, <4>1
      <4>4. g[k] = IF k = 0 THEN << >>
                   ELSE IF Taken(ls, need, k) > 0
                   THEN Append(g[k - 1], [qty |-> Taken(ls, need, k), cost |-> ls[k].cost])
                   ELSE g[k - 1]
        BY <2>5, <4>1 DEF AllocatesUpTo
      <4> HIDE DEF h
      <4> QED BY <4>2, <4>3, <4>4
    <3> QED BY <3>1, <3>2
  <2>7. h = [k \in 0 .. m |-> Step(k)]
    <3>1. h = [k \in 0 .. m |-> h[k]]
      OBVIOUS
    <3> HIDE DEF h, Step
    <3> QED BY <2>6, <3>1
  <2>8. AllocatesUpTo(ls, need, m, h)
    <3> HIDE DEF last, h
    <3> QED BY <2>7 DEF AllocatesUpTo
  <2> QED BY <2>2, <2>8
<1> QED BY <1>1

(* An outflow's consumptions are parts of positive quantity; together they   *)
(* are what it needs, if the layers have as much.                            *)
LEMMA AllocationsUnits ==
    ASSUME NEW ls \in Seq(Layer), NEW need \in Nat
    PROVE  /\ Allocations(ls, need) \in Seq(Part)
           /\ Units(Allocations(ls, need)) = Lesser(need, Left(ls))
<1> DEFINE N == Len(ls)
           h == CHOOSE g : AllocatesUpTo(ls, need, Len(ls), g)
           Q == { n \in 0 .. N :
                    ~(h[n] \in Seq(Part) /\ Units(h[n]) = Lesser(need, Before(ls, n + 1))) }
<1>1. AllocatesUpTo(ls, need, N, h)
  <2>1. Len(ls) \in Nat
    OBVIOUS
  <2> QED BY <2>1, AllocationsExist
<1>2. Allocations(ls, need) = h[N]
  BY AllocationsUnfolded
<1> HIDE DEF h
<1>3. Q = {}
  <2> SUFFICES ASSUME Q # {} PROVE FALSE
    OBVIOUS
  <2>1. PICK n \in Q : \A l \in Q : n <= l
    <3>1. Q \in SUBSET Nat
      OBVIOUS
    <3> HIDE DEF Q
    <3> QED BY <3>1, LeastNatural
  <2>2. n \in 0 .. N /\ ~(h[n] \in Seq(Part) /\ Units(h[n]) = Lesser(need, Before(ls, n + 1)))
    OBVIOUS
  <2>3. n # 0
    <3>1. h[0] = << >>
      BY <1>1 DEF AllocatesUpTo
    <3>2. Units(<< >>) = 0
      <4>1. DOMAIN << >> = {}
        OBVIOUS
      <4> QED BY <4>1, TotalIsSum, SumEmpty DEF Units
    <3>3. Lesser(need, Before(ls, 0 + 1)) = 0
      BY BeforeAdds DEF Lesser
    <3>4. << >> \in Seq(Part)
      OBVIOUS
    <3> QED BY <2>2, <3>1, <3>2, <3>3, <3>4
  <2> DEFINE o == n - 1
             t == Taken(ls, need, n)
             p == [qty |-> t, cost |-> ls[n].cost]
  <2>4. o \in 0 .. N /\ ~(n <= o) /\ n \in 1 .. Len(ls) /\ o + 1 = n
    BY <2>2, <2>3
  <2>5. h[o] \in Seq(Part) /\ Units(h[o]) = Lesser(need, Before(ls, n))
    BY <2>1, <2>4
  <2>6. h[n] = IF t > 0 THEN Append(h[o], p) ELSE h[o]
    BY <1>1, <2>2, <2>3 DEF AllocatesUpTo
  <2>7. /\ t \in Nat
        /\ t = Lesser(need, Before(ls, n + 1)) - Lesser(need, Before(ls, n))
        /\ ls[n].cost \in Int
        /\ Lesser(need, Before(ls, n + 1)) \in Nat /\ Lesser(need, Before(ls, n)) \in Nat
    <3>1. Taken(ls, need, n) \in 0 .. ls[n].left /\ ls[n].left \in Nat /\ ls[n].cost \in Int
      BY <2>4, TakenFromLayer, LayerFields
    <3>2. n \in 1 .. Len(ls) + 1 /\ n + 1 \in 1 .. Len(ls) + 1
      BY <2>4
    <3>3. Before(ls, n) \in Nat /\ Before(ls, n + 1) \in Nat
      BY <3>2, BeforeAdds
    <3>4. \A a, b \in Nat : Lesser(a, b) \in Nat
      BY DEF Lesser
    <3>5. t = Lesser(need, Before(ls, n + 1)) - Lesser(need, Before(ls, n))
      BY <2>4, TakenFromLayer
    <3> QED BY <3>1, <3>3, <3>4, <3>5
  <2> HIDE DEF Q, o, t
  <2>8. CASE t > 0
    <3>1. p \in Part
      BY <2>7, <2>8 DEF Part
    <3> HIDE DEF p
    <3>2. Append(h[o], p) \in Seq(Part)
      BY <2>5, <3>1
    <3>3. Units(Append(h[o], p)) = Units(h[o]) + t
      BY <2>5, <3>1, UnitsAppend DEF p
    <3> QED BY <2>2, <2>5, <2>6, <2>7, <2>8, <3>2, <3>3
  <2>9. CASE ~(t > 0)
    <3>1. t = 0 /\ h[n] = h[o]
      BY <2>6, <2>7, <2>9
    <3> QED BY <2>2, <2>5, <2>7, <3>1
  <2> QED BY <2>8, <2>9
<1>4. N \in 0 .. N /\ N \notin Q
  BY <1>3
<1> QED BY <1>2, <1>4, BeforeAdds

-----------------------------------------------------------------------------
(* The value of parts is a number. *)
LEMMA ValueInt ==
    ASSUME NEW ps \in Seq(Part)
    PROVE  Value(ps) \in Int
<1> DEFINE f == [i \in DOMAIN ps |-> ps[i].qty * ps[i].cost]
<1>1. DOMAIN ps = 1 .. Len(ps) /\ 1 \in Int /\ Len(ps) \in Int
  OBVIOUS
<1>2. IsFiniteSet(DOMAIN ps)
  BY <1>1, FS_Interval
<1>3. ASSUME NEW i \in DOMAIN ps PROVE f[i] \in Int
  <2>1. ps[i].qty \in Int /\ ps[i].cost \in Int
    BY <1>1, PartFields
  <2> DEFINE q == ps[i].qty
             c == ps[i].cost
  <2>2. f[i] = q * c
    OBVIOUS
  <2> HIDE DEF q, c, f
  <2>3. q * c \in Int
    BY <2>1 DEF q, c
  <2> QED BY <2>2, <2>3
<1> HIDE DEF f
<1>4. SumOver(f, DOMAIN ps) \in Int
  BY <1>2, <1>3, SumInt
<1> QED BY <1>4, TotalIsSum DEF Value, f

(* What is opened for a basis: a layer for each part, whole. *)
LEMMA OpenedLayers ==
    ASSUME NEW ls \in Seq(Layer), NEW ps \in Seq(Part), NEW source \in Nat
    PROVE  /\ Len(Opened(ps, source)) = Len(ps)
           /\ Opened(ps, source) \in Seq(Layer)
           /\ ls \o Opened(ps, source) \in Seq(Layer)
           /\ Len(ls \o Opened(ps, source)) = Len(ls) + Len(ps)
           /\ \A i \in 1 .. Len(ls) : (ls \o Opened(ps, source))[i] = ls[i]
           /\ \A i \in 1 .. Len(ps) :
                LET l == (ls \o Opened(ps, source))[Len(ls) + i]
                IN  l.left = ps[i].qty /\ l.got = ps[i].qty /\ l.cost = ps[i].cost /\ l.source = source
<1> DEFINE os == Opened(ps, source)
           L(i) == [left |-> ps[i].qty, got |-> ps[i].qty, cost |-> ps[i].cost, source |-> source]
<1>1. Len(ps) \in Nat /\ DOMAIN ps = 1 .. Len(ps) /\ Len(ls) \in Nat
  OBVIOUS
<1>2. os = [i \in 1 .. Len(ps) |-> L(i)]
  BY <1>1 DEF Opened
<1>3. \A i \in 1 .. Len(ps) : L(i) \in Layer
  BY PartFields DEF Layer
<1>4. os \in Seq(Layer) /\ Len(os) = Len(ps) /\ \A i \in 1 .. Len(ps) : os[i] = L(i)
  <2> HIDE DEF L, os
  <2>1. [i \in 1 .. Len(ps) |-> L(i)] \in Seq(Layer)
    BY <1>1, <1>3, IsASeq
  <2> QED BY <1>1, <1>2, <2>1
<1> HIDE DEF os
<1>5. /\ ls \o os \in Seq(Layer)
      /\ Len(ls \o os) = Len(ls) + Len(ps)
      /\ \A i \in 1 .. Len(ls) : (ls \o os)[i] = ls[i]
      /\ \A i \in 1 .. Len(ps) : (ls \o os)[Len(ls) + i] = os[i]
  <2> HIDE DEF L
  <2>1. ls \o os \in Seq(Layer) /\ Len(ls \o os) = Len(ls) + Len(os)
    BY <1>4, ConcatProperties
  <2>2. \A i \in 1 .. Len(ls) + Len(os) :
           (ls \o os)[i] = IF i <= Len(ls) THEN ls[i] ELSE os[i - Len(ls)]
    BY <1>4, ConcatProperties
  <2>3. ASSUME NEW i \in 1 .. Len(ls) PROVE (ls \o os)[i] = ls[i]
    <3>1. i \in 1 .. Len(ls) + Len(os) /\ i <= Len(ls)
      BY <1>1, <1>4
    <3> QED BY <2>2, <3>1
  <2>4. ASSUME NEW i \in 1 .. Len(ps) PROVE (ls \o os)[Len(ls) + i] = os[i]
    <3> DEFINE k == Len(ls) + i
    <3>1. k \in 1 .. Len(ls) + Len(os) /\ ~(k <= Len(ls)) /\ k - Len(ls) = i
      BY <1>1, <1>4
    <3> HIDE DEF k
    <3>2. (ls \o os)[k] = os[i]
      BY <2>2, <3>1
    <3> QED BY <3>2 DEF k
  <2> QED BY <1>4, <2>1, <2>3, <2>4
<1>6. ASSUME NEW i \in 1 .. Len(ps)
      PROVE  LET l == (ls \o os)[Len(ls) + i]
             IN  l.left = ps[i].qty /\ l.got = ps[i].qty /\ l.cost = ps[i].cost /\ l.source = source
  <2>1. (ls \o os)[Len(ls) + i] = L(i)
    BY <1>4, <1>5
  <2> QED BY <2>1
<1> HIDE DEF L
<1> QED BY <1>4, <1>5, <1>6 DEF os

(* As much is put into the layers as the basis has units. *)
LEMMA OpenedLeft ==
    ASSUME NEW ls \in Seq(Layer), NEW ps \in Seq(Part), NEW source \in Nat
    PROVE  Left(ls \o Opened(ps, source)) = Left(ls) + Units(ps)
<1> DEFINE cs == ls \o Opened(ps, source)
           n == Len(ls)
           m == Len(ps)
           f == LeftOf(cs)
           g == LeftOf(ls)
           h == [i \in DOMAIN ps |-> ps[i].qty]
<1>1. /\ n \in Nat /\ m \in Nat /\ DOMAIN ls = 1 .. n /\ DOMAIN ps = 1 .. m
      /\ cs \in Seq(Layer) /\ Len(cs) = n + m
      /\ \A i \in 1 .. n : cs[i] = ls[i]
      /\ \A i \in 1 .. m : cs[n + i].left = ps[i].qty
  BY OpenedLayers
<1> HIDE DEF cs
<1>2. ASSUME NEW i \in 1 .. n PROVE g[i] \in Int /\ f[i] = g[i]
  <2>1. i \in 1 .. Len(cs) /\ cs[i] = ls[i]
    BY <1>1
  <2>2. f[i] = cs[i].left
    BY <1>1, <2>1, LayerFields
  <2> QED BY <2>1, <2>2, LayerFields
<1>3. ASSUME NEW i \in 1 .. m PROVE h[i] \in Int /\ f[n + i] = h[i]
  <2>1. n + i \in 1 .. Len(cs) /\ cs[n + i].left = ps[i].qty
    BY <1>1
  <2>2. f[n + i] = cs[n + i].left
    BY <1>1, <2>1, LayerFields
  <2>3. h[i] = ps[i].qty /\ h[i] \in Int
    BY <1>1, PartFields
  <2> QED BY <2>1, <2>2, <2>3
<1>4. DOMAIN cs = 1 .. n + m
  BY <1>1
<1> HIDE DEF f, g, h, n, m
<1>5. Holds(f, 0, g, n) /\ Holds(f, n, h, m)
  <2>1. \A i \in 1 .. n : 0 + i = i
    OBVIOUS
  <2> QED BY <1>2, <1>3, <2>1 DEF Holds
<1>6. SumOver(f, 1 .. n + m) = SumOver(g, 1 .. n) + SumOver(h, 1 .. m)
  BY <1>1, <1>5, SumConcat
<1>7. /\ Left(cs) = SumOver(f, 1 .. n + m)
      /\ Left(ls) = SumOver(g, 1 .. n)
      /\ Units(ps) = SumOver(h, 1 .. m)
  BY <1>1, <1>4, TotalIsSum DEF Left, Units, f, g, h
<1> QED BY <1>6, <1>7 DEF cs

(* What layers of one source have cost when they were opened. *)
CostFrom(ls, m) == SumOver(CostOf(ls), { k \in DOMAIN ls : ls[k].source = m })

(* Those of a source that is new have cost what the basis is worth .. *)
LEMMA OpenedCost ==
    ASSUME NEW ls \in Seq(Layer), NEW ps \in Seq(Part), NEW source \in Nat,
           \A i \in 1 .. Len(ls) : ls[i].source # source
    PROVE  CostFrom(ls \o Opened(ps, source), source) = Value(ps)
<1> DEFINE cs == ls \o Opened(ps, source)
           n == Len(ls)
           m == Len(ps)
           f == CostOf(cs)
           h == [i \in DOMAIN ps |-> ps[i].qty * ps[i].cost]
           K == { k \in DOMAIN cs : cs[k].source = source }
<1>1. /\ n \in Nat /\ m \in Nat /\ DOMAIN ls = 1 .. n /\ DOMAIN ps = 1 .. m
      /\ cs \in Seq(Layer) /\ Len(cs) = n + m
      /\ \A i \in 1 .. n : cs[i] = ls[i]
      /\ \A i \in 1 .. m : /\ cs[n + i].got = ps[i].qty
                           /\ cs[n + i].cost = ps[i].cost
                           /\ cs[n + i].source = source
  BY OpenedLayers
<1> HIDE DEF cs
<1>2. ASSUME NEW i \in 1 .. m PROVE h[i] \in Int /\ f[n + i] = h[i]
  <2>1. n + i \in 1 .. Len(cs) /\ cs[n + i].got = ps[i].qty /\ cs[n + i].cost = ps[i].cost
    BY <1>1
  <2>2. f[n + i] = cs[n + i].got * cs[n + i].cost
    BY <1>1, <2>1, LayerFields
  <2>3. ps[i].qty \in Int /\ ps[i].cost \in Int
    BY PartFields
  <2>4. h[i] = ps[i].qty * ps[i].cost
    BY <1>1
  <2> DEFINE q == ps[i].qty
             c == ps[i].cost
  <2> HIDE DEF f, h
  <2>5. f[n + i] = q * c /\ h[i] = q * c /\ q \in Int /\ c \in Int
    BY <2>1, <2>2, <2>3, <2>4
  <2> HIDE DEF q, c
  <2>6. q * c \in Int
    BY <2>5
  <2> QED BY <2>5, <2>6
<1>3. DOMAIN cs = 1 .. n + m
  BY <1>1
<1>4. K = n + 1 .. n + m
  <2>1. ASSUME NEW k \in K PROVE k \in n + 1 .. n + m
    <3>1. k \in 1 .. n + m /\ cs[k].source = source
      BY <1>3
    <3>2. k \notin 1 .. n
      BY <1>1, <3>1
    <3> QED BY <1>1, <3>1, <3>2
  <2>2. ASSUME NEW k \in n + 1 .. n + m PROVE k \in K
    <3> DEFINE i == k - n
    <3>1. i \in 1 .. m /\ n + i = k /\ k \in 1 .. n + m
      BY <1>1
    <3> HIDE DEF i
    <3> QED BY <1>1, <1>3, <3>1
  <2> QED BY <2>1, <2>2
<1> HIDE DEF f, h, n, m
<1>5. Holds(f, n, h, m)
  BY <1>2 DEF Holds
<1>6. SumOver(f, n + 1 .. n + m) = SumOver(h, 1 .. m)
  BY <1>1, <1>5, SumShift
<1>7. Value(ps) = SumOver(h, 1 .. m)
  BY <1>1, TotalIsSum DEF Value, h
<1>8. CostFrom(cs, source) = SumOver(f, n + 1 .. n + m)
  BY <1>4 DEF CostFrom, f
<1> QED BY <1>6, <1>7, <1>8 DEF cs

(* .. and no others have changed in cost. *)
LEMMA CostKept ==
    ASSUME NEW ls \in Seq(Layer), NEW cs \in Seq(Layer), NEW m,
           Len(ls) <= Len(cs),
           \A i \in 1 .. Len(ls) :
               cs[i].source = ls[i].source /\ cs[i].got = ls[i].got /\ cs[i].cost = ls[i].cost,
           \A i \in 1 .. Len(cs) : i > Len(ls) => cs[i].source # m
    PROVE  CostFrom(cs, m) = CostFrom(ls, m)
<1> DEFINE K == { k \in DOMAIN ls : ls[k].source = m }
           f == CostOf(ls)
           g == CostOf(cs)
<1>1. DOMAIN ls = 1 .. Len(ls) /\ DOMAIN cs = 1 .. Len(cs) /\ Len(ls) \in Nat /\ Len(cs) \in Nat
  OBVIOUS
<1>2. K = { k \in DOMAIN cs : cs[k].source = m }
  <2>1. \A k \in 1 .. Len(cs) : k \in 1 .. Len(ls) \/ k > Len(ls)
    BY <1>1
  <2>2. \A k \in 1 .. Len(ls) : k \in 1 .. Len(cs)
    BY <1>1
  <2> QED BY <1>1, <2>1, <2>2
<1>3. IsFiniteSet(K)
  <2>1. 1 \in Int /\ Len(ls) \in Int /\ K \subseteq 1 .. Len(ls)
    BY <1>1
  <2>2. IsFiniteSet(1 .. Len(ls))
    BY <2>1, FS_Interval
  <2> QED BY <2>1, <2>2, FS_Subset
<1>4. ASSUME NEW k \in K PROVE f[k] = g[k]
  <2>1. k \in 1 .. Len(ls) /\ k \in 1 .. Len(cs)
    BY <1>1
  <2>2. f[k] = ls[k].got * ls[k].cost /\ g[k] = cs[k].got * cs[k].cost
    BY <2>1, LayerFields
  <2>3. cs[k].got = ls[k].got /\ cs[k].cost = ls[k].cost
    BY <2>1
  <2> QED BY <2>2, <2>3
<1> HIDE DEF K, f, g
<1>5. SumOver(f, K) = SumOver(g, K)
  BY <1>3, <1>4, SumSame
<1>6. CostFrom(ls, m) = SumOver(f, K) /\ CostFrom(cs, m) = SumOver(g, K)
  BY <1>2 DEF CostFrom, K, f, g
<1> QED BY <1>5, <1>6

-----------------------------------------------------------------------------
(* Division rounds down. *)
LEMMA Quotient ==
    ASSUME NEW a \in Int, NEW b \in Nat \ {0}
    PROVE  a \div b \in Int /\ b * (a \div b) <= a /\ a < b * (a \div b) + b
OBVIOUS

(* A greater number of times makes more. *)
LEMMA TimesGrows ==
    ASSUME NEW a \in Int, NEW b \in Int, NEW d \in Nat, a <= b
    PROVE  a * d <= b * d /\ a * d \in Int /\ b * d \in Int
<1>1. (b - a) * d >= 0 /\ (b - a) * d = b * d - a * d
  OBVIOUS
<1> QED BY <1>1

(* Half up, what lies between two numbers of units stays between them. *)
LEMMA RoundedBetween ==
    ASSUME NEW n \in Int, NEW d \in Nat \ {0}
    PROVE  /\ Rounded(n, d) \in Int
           /\ \A lo \in Int : lo * d <= n => lo <= Rounded(n, d)
           /\ \A hi \in Int : n <= hi * d => Rounded(n, d) <= hi
<1> DEFINE q == Rounded(n, d)
           e == q * d
<1>1. q \in Int /\ (2 * d) * q <= 2 * n + d /\ 2 * n + d < (2 * d) * q + 2 * d
  <2>1. 2 * n + d \in Int /\ 2 * d \in Nat \ {0}
    OBVIOUS
  <2> QED BY <2>1, Quotient DEF Rounded
<1> HIDE DEF q
<1>2. e \in Int /\ (2 * d) * q = 2 * e /\ (q + 1) * d = e + d
  BY <1>1
<1> HIDE DEF e
<1>3. ASSUME NEW lo \in Int, lo * d <= n, ~(lo <= q) PROVE FALSE
  <2>1. q + 1 \in Int /\ q + 1 <= lo
    BY <1>1, <1>3
  <2>2. (q + 1) * d <= lo * d /\ lo * d \in Int
    BY <2>1, TimesGrows
  <2> QED BY <1>1, <1>2, <1>3, <2>2
<1>4. ASSUME NEW hi \in Int, n <= hi * d, ~(q <= hi) PROVE FALSE
  <2>1. hi + 1 \in Int /\ hi + 1 <= q
    BY <1>1, <1>4
  <2>2. (hi + 1) * d <= q * d
    BY <1>1, <2>1, TimesGrows
  <2>3. (hi + 1) * d = hi * d + d /\ hi * d \in Int
    OBVIOUS
  <2> QED BY <1>1, <1>2, <1>4, <2>2, <2>3 DEF e
<1> QED BY <1>1, <1>3, <1>4 DEF q

-----------------------------------------------------------------------------
(* The invariant that everything else rests on: the types, and what movements *)
(* and requests under way go back to.                                         *)

MovementTypes == ExplicitCostInflow \cup FifoValueOutflow \cup {"TRANSFER_IN", "RETURN_RECEIPT"}

Entry ==
    [type : MovementTypes, row : Rows, delta : Int \ {0}, unit : Int, spent : Seq(Part), of : Nat,
     priced : BOOLEAN]

Pending ==
    [type : MovementTypes, row : Rows, delta : Int \ {0}, unit : Int \cup {NoCost}, basis : Seq(Part),
     of : Nat, strategy : Strategies]

CostingTypeOK ==
    /\ policy \in Strategies
    /\ onHand \in [Rows -> Int]
    /\ avgCost \in [Rows -> Int]
    /\ layers \in [Scopes -> Seq(Layer)]
    /\ journal \in Seq(Entry)
    /\ DOMAIN posting = Posters
    /\ \A p \in Posters : posting[p] # Nothing => posting[p] \in Pending
    /\ switching \in [Switchers -> Strategies \cup {"none"}]

(* Reversals put goods back and never take any away. *)
OnlyOutflowsReversed == Reversible \subseteq FifoValueOutflow

(* What goes out of a type that consumes layers goes out; what is reversed   *)
(* comes back.                                                               *)
Directed(j) ==
    /\ j.type \in FifoValueOutflow /\ j.of = 0 => j.delta < 0
    /\ OnlyOutflowsReversed /\ j.delta < 0 => j.type \in FifoValueOutflow /\ j.of = 0

(* A movement goes back to an earlier one, an arrival always; what it has     *)
(* consumed is what it took.                                                  *)
EntryGrounded(e, m) ==
    /\ Directed(e)
    /\ e.of < m
    /\ e.type = "TRANSFER_IN" => e.of # 0
    /\ e.spent # << >> => Units(e.spent) = -e.delta

EntryInv == \A m \in DOMAIN journal : EntryGrounded(journal[m], m)

(* The same of a request; an arrival brings what its dispatch has consumed.   *)
Grounded(j, past) ==
    /\ Directed(j)
    /\ j.of <= Len(past)
    /\ j.type = "TRANSFER_IN" => j.of # 0 /\ j.basis = past[j.of].spent
    /\ j.basis # << >> => Units(j.basis) = j.delta

PendingInv == \A p \in Posters : posting[p] # Nothing => Grounded(posting[p], journal)

CostingInv == CostingTypeOK /\ EntryInv /\ PendingInv

(* The types of a request's parts. *)
RequestTyped(j) ==
    /\ j.type \in MovementTypes /\ j.row \in Rows /\ j.delta \in Int \ {0} /\ j.unit \in Int \cup {NoCost}
    /\ j.basis \in Seq(Part) /\ j.of \in Nat

-----------------------------------------------------------------------------
(* No parts have no units, one has its own, parts of one unit are as many as *)
(* there are of them.                                                        *)
LEMMA UnitsOfFew ==
    /\ Units(<< >>) = 0
    /\ \A p \in Part : << p >> \in Seq(Part) /\ Units(<< p >>) = p.qty
<1>1. Units(<< >>) = 0
  <2>1. DOMAIN << >> = {}
    OBVIOUS
  <2> QED BY <2>1, TotalIsSum, SumEmpty DEF Units
<1>2. ASSUME NEW p \in Part PROVE << p >> \in Seq(Part) /\ Units(<< p >>) = p.qty
  <2>1. << p >> = Append(<< >>, p) /\ << >> \in Seq(Part) /\ << p >> \in Seq(Part)
    OBVIOUS
  <2>2. p.qty \in Int
    BY DEF Part
  <2>3. Units(Append(<< >>, p)) = Units(<< >>) + p.qty
    BY <2>1, UnitsAppend
  <2>4. Units(Append(<< >>, p)) = p.qty
    BY <1>1, <2>2, <2>3
  <2> QED BY <2>1, <2>4
<1> QED BY <1>1, <1>2

(* An arrival booked unit by unit has as many units as came. *)
LEMMA UnitsOfOnes ==
    ASSUME NEW q \in Nat, NEW c \in Int
    PROVE  /\ [i \in 1 .. q |-> [qty |-> 1, cost |-> c]] \in Seq(Part)
           /\ Units([i \in 1 .. q |-> [qty |-> 1, cost |-> c]]) = q
<1> DEFINE one == [qty |-> 1, cost |-> c]
           Ones(n) == [i \in 1 .. n |-> one]
           Q == { n \in 0 .. q : ~(Ones(n) \in Seq(Part) /\ Units(Ones(n)) = n) }
<1>1. one \in Part /\ one.qty = 1
  BY DEF Part
<1> HIDE DEF one
<1>2. Q = {}
  <2> SUFFICES ASSUME Q # {} PROVE FALSE
    OBVIOUS
  <2>1. PICK n \in Q : \A l \in Q : n <= l
    <3>1. Q \in SUBSET Nat
      OBVIOUS
    <3> HIDE DEF Q
    <3> QED BY <3>1, LeastNatural
  <2>2. n \in 0 .. q /\ ~(Ones(n) \in Seq(Part) /\ Units(Ones(n)) = n)
    OBVIOUS
  <2>3. n # 0
    <3>1. Ones(0) = << >>
      OBVIOUS
    <3>2. << >> \in Seq(Part)
      OBVIOUS
    <3> HIDE DEF Ones
    <3> QED BY <2>2, <3>1, <3>2, UnitsOfFew
  <2>4. n - 1 \in 0 .. q /\ ~(n <= n - 1)
    BY <2>2, <2>3
  <2>5. Ones(n - 1) \in Seq(Part) /\ Units(Ones(n - 1)) = n - 1
    BY <2>1, <2>4
  <2>6. Ones(n) = Append(Ones(n - 1), one)
    <3>1. n - 1 \in Nat /\ (n - 1) + 1 = n
      BY <2>2, <2>3
    <3>2. Len(Ones(n - 1)) = n - 1
      BY <3>1
    <3>3. Append(Ones(n - 1), one) = [i \in 1 .. (n - 1) + 1 |-> IF i = (n - 1) + 1 THEN one ELSE Ones(n - 1)[i]]
      <4>1. Len(Append(Ones(n - 1), one)) = (n - 1) + 1
        <5> HIDE DEF Ones
        <5> QED BY <2>5, <3>2, <1>1
      <4> QED BY <2>5, <3>1, <3>2, <1>1
    <3>4. \A i \in 1 .. n : (IF i = n THEN one ELSE Ones(n - 1)[i]) = one
      BY <3>1
    <3> QED BY <3>1, <3>3, <3>4
  <2> HIDE DEF Ones, Q
  <2>7. Ones(n) \in Seq(Part) /\ Units(Ones(n)) = Units(Ones(n - 1)) + 1
    <3>1. Append(Ones(n - 1), one) \in Seq(Part)
      BY <1>1, <2>5
    <3>2. Units(Append(Ones(n - 1), one)) = Units(Ones(n - 1)) + 1
      BY <1>1, <2>5, UnitsAppend
    <3> QED BY <2>6, <3>1, <3>2
  <2> QED BY <2>2, <2>5, <2>7
<1>3. q \in 0 .. q /\ q \notin Q
  BY <1>2
<1>4. Ones(q) \in Seq(Part) /\ Units(Ones(q)) = q
  BY <1>3
<1> QED BY <1>4 DEF one

-----------------------------------------------------------------------------
(* The parts of a movement. *)
LEMMA EntryFields ==
    ASSUME CostingTypeOK, EntryInv, NEW m \in DOMAIN journal
    PROVE  /\ m \in 1 .. Len(journal) /\ Len(journal) \in Nat
           /\ journal[m] \in Entry
           /\ journal[m].type \in MovementTypes /\ journal[m].row \in Rows
           /\ journal[m].delta \in Int \ {0} /\ journal[m].unit \in Int
           /\ journal[m].spent \in Seq(Part) /\ journal[m].of \in Nat
           /\ journal[m].of < m
           /\ Directed(journal[m])
           /\ journal[m].spent # << >> => Units(journal[m].spent) = -journal[m].delta
           /\ journal[m].type = "TRANSFER_IN" => journal[m].of # 0
<1>1. journal \in Seq(Entry)
  BY DEF CostingTypeOK
<1>2. m \in 1 .. Len(journal) /\ Len(journal) \in Nat /\ journal[m] \in Entry
  BY <1>1
<1>3. /\ journal[m].type \in MovementTypes /\ journal[m].row \in Rows
      /\ journal[m].delta \in Int \ {0} /\ journal[m].unit \in Int
      /\ journal[m].spent \in Seq(Part) /\ journal[m].of \in Nat
  BY <1>2 DEF Entry
<1> QED BY <1>2, <1>3 DEF EntryInv, EntryGrounded

(* What makes a request well formed, other than an arrival. *)
LEMMA RequestGrounded ==
    ASSUME NEW type \in MovementTypes, type # "TRANSFER_IN", NEW r \in Rows, NEW delta \in Int \ {0},
           NEW unit \in Int \cup {NoCost}, NEW basis \in Seq(Part), NEW of \in Nat,
           of <= Len(journal),
           basis # << >> => Units(basis) = delta,
           type \in FifoValueOutflow /\ of = 0 => delta < 0,
           OnlyOutflowsReversed /\ delta < 0 => type \in FifoValueOutflow /\ of = 0
    PROVE  RequestTyped(Request(type, r, delta, unit, basis, of))
           /\ Grounded(Request(type, r, delta, unit, basis, of), journal)
<1> DEFINE j == Request(type, r, delta, unit, basis, of)
<1>1. /\ j.type = type /\ j.row = r /\ j.delta = delta /\ j.unit = unit
      /\ j.basis = basis /\ j.of = of
  BY DEF Request
<1> HIDE DEF j
<1>2. RequestTyped(j)
  BY <1>1 DEF RequestTyped
<1>3. Grounded(j, journal)
  BY <1>1 DEF Grounded, Directed
<1> QED BY <1>2, <1>3 DEF j

(* .. and one that goes back to nothing and brings no basis. *)
LEMMA PlainGrounded ==
    ASSUME NEW type \in MovementTypes, type # "TRANSFER_IN", NEW r \in Rows, NEW delta \in Int \ {0},
           NEW unit \in Int \cup {NoCost}, Len(journal) \in Nat,
           type \in FifoValueOutflow <=> delta < 0
    PROVE  RequestTyped(Request(type, r, delta, unit, << >>, 0))
           /\ Grounded(Request(type, r, delta, unit, << >>, 0), journal)
<1> DEFINE none == << >>
           of == 0
<1>1. none \in Seq(Part) /\ none = << >> /\ of \in Nat /\ of <= Len(journal) /\ of = 0
  OBVIOUS
<1> HIDE DEF none, of
<1>2. RequestTyped(Request(type, r, delta, unit, none, of))
      /\ Grounded(Request(type, r, delta, unit, none, of), journal)
  BY <1>1, RequestGrounded
<1> QED BY <1>2 DEF none, of

(* Whatever is asked for is well formed and grounded in the journal. *)
LEMMA RequestsGrounded ==
    ASSUME CostingInv,
           NEW j \in Inflows \cup Outflows \cup Arrivals \cup SerialReturns \cup PlainReturns \cup Reversals
    PROVE  RequestTyped(j) /\ Grounded(j, journal)
<1> USE DEF CostingInv
<1>0. /\ Len(journal) \in Nat /\ << >> \in Seq(Part) /\ NoCost \notin Int
      /\ MaxQty \in Nat \ {0} /\ \A q \in Quantities : q \in Nat \ {0}
  <2>1. journal \in Seq(Entry)
    BY DEF CostingTypeOK
  <2>2. MaxQty \in Nat \ {0} /\ NoCost \notin Int
    BY CostingAssumption
  <2> QED BY <2>1, <2>2 DEF Quantities
<1>1. CASE j \in Inflows
  <2>1. CASE j \in { Request("PURCHASE_RECEIPT", r, MaxQty, c, << >>, 0) : r \in Rows, c \in Prices }
    <3>1. PICK r \in Rows, c \in Prices : j = Request("PURCHASE_RECEIPT", r, MaxQty, c, << >>, 0)
      BY <2>1
    <3>2. c \in Int /\ MaxQty \in Int \ {0} /\ ~(MaxQty < 0)
      BY CostingAssumption
    <3>3. "PURCHASE_RECEIPT" \notin FifoValueOutflow /\ "PURCHASE_RECEIPT" \in MovementTypes
      BY DEF FifoValueOutflow, MovementTypes, ExplicitCostInflow
    <3> QED BY <1>0, <3>1, <3>2, <3>3, PlainGrounded
  <2>2. CASE j \in { Request("STOCK_ADJUSTMENT_IN", r, 1, NoCost, << >>, 0) : r \in Rows }
    <3>1. PICK r \in Rows : j = Request("STOCK_ADJUSTMENT_IN", r, 1, NoCost, << >>, 0)
      BY <2>2
    <3>2. "STOCK_ADJUSTMENT_IN" \notin FifoValueOutflow /\ "STOCK_ADJUSTMENT_IN" \in MovementTypes
      BY DEF FifoValueOutflow, MovementTypes, ExplicitCostInflow
    <3> DEFINE one == 1
    <3>3. one \in Int \ {0} /\ ~(one < 0)
      OBVIOUS
    <3>4. j = Request("STOCK_ADJUSTMENT_IN", r, one, NoCost, << >>, 0)
      BY <3>1
    <3> HIDE DEF one
    <3> QED BY <1>0, <3>2, <3>3, <3>4, PlainGrounded
  <2> QED BY <1>1, <2>1, <2>2 DEF Inflows
<1>2. CASE j \in Outflows
  <2>1. PICK type \in {"SALES_RELEASE", "TRANSFER_OUT"}, r \in Rows, q \in Quantities :
            j = Request(type, r, -q, NoCost, << >>, 0)
    BY <1>2 DEF Outflows
  <2>2. q \in Nat \ {0}
    BY <1>0
  <2>3. -q \in Int \ {0} /\ -q < 0
    BY <2>2
  <2>4. type \in MovementTypes /\ type # "TRANSFER_IN" /\ type \in FifoValueOutflow
    BY DEF FifoValueOutflow, MovementTypes
  <2> QED BY <1>0, <2>1, <2>3, <2>4, PlainGrounded
<1>3. CASE j \in Arrivals
  <2>1. PICK m \in Of("TRANSFER_OUT"), r \in Rows : j = Arrival(m, r)
    BY <1>3 DEF Arrivals
  <2>2. m \in DOMAIN journal /\ journal[m].type = "TRANSFER_OUT" /\ journal[m].of = 0
    BY DEF Of
  <2>3. /\ j.type = "TRANSFER_IN" /\ j.row = r /\ j.delta = -journal[m].delta
        /\ j.unit = journal[m].unit /\ j.basis = journal[m].spent /\ j.of = m
    BY <2>1 DEF Arrival, Basis, Request
  <2>4. journal[m].delta < 0
    BY <2>2, EntryFields DEF Directed, FifoValueOutflow
  <2>5. j.delta \in Int \ {0} /\ j.delta > 0
    BY <2>2, <2>3, <2>4, EntryFields
  <2>6. RequestTyped(j)
    <3>1. journal[m].unit \in Int /\ journal[m].spent \in Seq(Part) /\ m \in Nat
      BY <2>2, EntryFields
    <3>2. "TRANSFER_IN" \in MovementTypes
      BY DEF MovementTypes
    <3> QED BY <2>3, <2>5, <3>1, <3>2 DEF RequestTyped
  <2>7. Directed(j)
    BY <2>3, <2>5 DEF Directed, FifoValueOutflow
  <2>8. j.of <= Len(journal) /\ j.of # 0 /\ (j.basis # << >> => Units(j.basis) = j.delta)
    BY <2>2, <2>3, EntryFields
  <2> QED BY <2>3, <2>6, <2>7, <2>8 DEF Grounded
<1>4. CASE j \in SerialReturns
  <2>1. PICK r \in Rows, q \in Quantities,
             m \in { k \in Of("SALES_RELEASE") : policy = "FIFO" => Basis(k) # << >> } :
             j = Request("RETURN_RECEIPT", r, q, NoCost, FirstCost(m, q), m)
    BY <1>4 DEF SerialReturns
  <2>2. m \in DOMAIN journal /\ (policy = "FIFO" => journal[m].spent # << >>)
    BY DEF Of, Basis
  <2>3. /\ j.type = "RETURN_RECEIPT" /\ j.row = r /\ j.delta = q
        /\ j.unit = NoCost /\ j.basis = FirstCost(m, q) /\ j.of = m
    BY <2>1 DEF Request
  <2>4. q \in Nat \ {0}
    BY <1>0
  <2>5. j.basis \in Seq(Part) /\ (j.basis # << >> => Units(j.basis) = q)
    <3>1. CASE policy = "FIFO"
      <4>1. journal[m].spent \in Seq(Part) /\ journal[m].spent # << >>
        BY <2>2, <3>1, EntryFields
      <4>2. 1 \in 1 .. Len(journal[m].spent)
        BY <4>1
      <4>3. journal[m].spent[1].cost \in Int
        BY <4>1, <4>2, PartFields
      <4>4. j.basis = [i \in 1 .. q |-> [qty |-> 1, cost |-> journal[m].spent[1].cost]]
        BY <2>3, <3>1 DEF FirstCost, Basis
      <4> QED BY <2>4, <4>3, <4>4, UnitsOfOnes
    <3>2. CASE policy # "FIFO"
      BY <1>0, <2>3, <3>2 DEF FirstCost
    <3> QED BY <3>1, <3>2
  <2>6. m \in Nat /\ m <= Len(journal)
    BY <2>2, EntryFields
  <2>7. /\ q \in Int \ {0} /\ ~(q < 0)
        /\ "RETURN_RECEIPT" \notin FifoValueOutflow /\ "RETURN_RECEIPT" \in MovementTypes
    BY <2>4 DEF FifoValueOutflow, MovementTypes
  <2>8. FirstCost(m, q) \in Seq(Part) /\ (FirstCost(m, q) # << >> => Units(FirstCost(m, q)) = q)
    BY <2>3, <2>5
  <2> QED BY <1>0, <2>1, <2>6, <2>7, <2>8, RequestGrounded
<1>5. CASE j \in PlainReturns
  <2>1. PICK r \in Rows : j = Request("RETURN_RECEIPT", r, 1, NoCost, << >>, 0)
    BY <1>5 DEF PlainReturns
  <2>2. "RETURN_RECEIPT" \notin FifoValueOutflow /\ "RETURN_RECEIPT" \in MovementTypes
    BY DEF FifoValueOutflow, MovementTypes
  <2> DEFINE one == 1
  <2>3. one \in Int \ {0} /\ ~(one < 0)
    OBVIOUS
  <2>4. j = Request("RETURN_RECEIPT", r, one, NoCost, << >>, 0)
    BY <2>1
  <2> HIDE DEF one
  <2> QED BY <1>0, <2>2, <2>3, <2>4, PlainGrounded
<1>6. CASE j \in Reversals
  <2>1. PICK m \in { k \in DOMAIN journal : journal[k].of = 0 /\ journal[k].type \in Reversible } :
             j = Request(journal[m].type, journal[m].row, -journal[m].delta, journal[m].unit, << >>, m)
    BY <1>6 DEF Reversals
  <2>2. m \in DOMAIN journal /\ journal[m].of = 0 /\ journal[m].type \in Reversible
    OBVIOUS
  <2>3. /\ j.type = journal[m].type /\ j.row = journal[m].row /\ j.delta = -journal[m].delta
        /\ j.unit = journal[m].unit /\ j.basis = << >> /\ j.of = m
    BY <2>1 DEF Request
  <2>4. journal[m].delta \in Int \ {0} /\ m \in Nat \ {0} /\ m <= Len(journal)
    BY <2>2, EntryFields
  <2>5. OnlyOutflowsReversed => journal[m].delta < 0
    BY <2>2, EntryFields DEF OnlyOutflowsReversed, Directed
  <2>6. RequestTyped(j)
    BY <1>0, <2>2, <2>3, <2>4, EntryFields DEF RequestTyped
  <2>7. Directed(j)
    BY <2>3, <2>4, <2>5 DEF Directed
  <2>8. j.type # "TRANSFER_IN"
    BY <2>2, <2>3, EntryFields
  <2> QED BY <2>3, <2>4, <2>6, <2>7, <2>8 DEF Grounded
<1> QED BY <1>1, <1>2, <1>3, <1>4, <1>5, <1>6

-----------------------------------------------------------------------------
(* What the posting of a request writes. *)
Spent(j) == IF Consumes(j) THEN Allocations(layers[ScopeOf[j.row]], -j.delta) ELSE << >>
Unit(j) == IF Consumes(j) THEN Rounded(Value(Spent(j)), -j.delta) ELSE UnitCost(j)
Parts(j) == IF j.basis # << >> THEN j.basis ELSE << [qty |-> j.delta, cost |-> Unit(j)] >>

NewEntry(j) ==
    [type |-> j.type, row |-> j.row, delta |-> j.delta, unit |-> Unit(j), spent |-> Spent(j),
     of |-> j.of, priced |-> j.unit # NoCost]

NewLayers(j) ==
    IF Consumes(j) THEN Consumed(layers[ScopeOf[j.row]], -j.delta)
    ELSE IF Opens(j) THEN layers[ScopeOf[j.row]] \o Opened(Parts(j), Len(journal) + 1)
    ELSE layers[ScopeOf[j.row]]

(* What a commit writes, in terms of the request. *)
LEMMA CommitWrites ==
    ASSUME NEW p \in Posters, Commit(p), NEW j, j = posting[p]
    PROVE  /\ j # Nothing /\ Admitted(j)
           /\ onHand' = [onHand EXCEPT ![j.row] = @ + j.delta]
           /\ avgCost' = [avgCost EXCEPT ![j.row] = Blended(j)]
           /\ layers' = [layers EXCEPT ![ScopeOf[j.row]] = NewLayers(j)]
           /\ journal' = Append(journal, NewEntry(j))
           /\ posting' = [posting EXCEPT ![p] = Nothing]
           /\ policy' = policy /\ switching' = switching
BY DEF Commit, Spent, Unit, Parts, NewEntry, NewLayers

(* The parts of a request that is under way. *)
LEMMA PendingFields ==
    ASSUME CostingInv, NEW p \in Posters, posting[p] # Nothing, NEW j, j = posting[p]
    PROVE  /\ j.type \in MovementTypes /\ j.row \in Rows /\ j.delta \in Int \ {0}
           /\ j.unit \in Int \cup {NoCost} /\ j.basis \in Seq(Part) /\ j.of \in Nat
           /\ j.strategy \in Strategies
           /\ Grounded(j, journal)
           /\ ScopeOf[j.row] \in Scopes
           /\ layers[ScopeOf[j.row]] \in Seq(Layer)
           /\ journal \in Seq(Entry) /\ Len(journal) \in Nat /\ DOMAIN journal = 1 .. Len(journal)
<1>1. j \in Pending /\ Grounded(j, journal)
  BY DEF CostingInv, CostingTypeOK, PendingInv
<1>2. /\ j.type \in MovementTypes /\ j.row \in Rows /\ j.delta \in Int \ {0}
      /\ j.unit \in Int \cup {NoCost} /\ j.basis \in Seq(Part) /\ j.of \in Nat
      /\ j.strategy \in Strategies
  BY <1>1 DEF Pending
<1>3. journal \in Seq(Entry)
  BY DEF CostingInv, CostingTypeOK
<1>4. Len(journal) \in Nat /\ DOMAIN journal = 1 .. Len(journal)
  BY <1>3
<1>5. ScopeOf[j.row] \in Scopes
  BY <1>2 DEF Scopes
<1>6. layers[ScopeOf[j.row]] \in Seq(Layer)
  BY <1>5 DEF CostingInv, CostingTypeOK
<1> QED BY <1>1, <1>2, <1>3, <1>4, <1>5, <1>6

(* What is posted is well formed: it has consumed as many units as went out,  *)
(* and opens layers for as many as came in.                                   *)
LEMMA PostedWellFormed ==
    ASSUME CostingInv, NEW p \in Posters, posting[p] # Nothing, NEW j, j = posting[p], Admitted(j)
    PROVE  /\ NewEntry(j) \in Entry
           /\ Consumes(j) => /\ -j.delta \in Nat
                             /\ -j.delta <= Left(layers[ScopeOf[j.row]])
                             /\ Units(Spent(j)) = -j.delta
           /\ ~Consumes(j) => Spent(j) = << >>
           /\ Opens(j) => /\ Parts(j) \in Seq(Part)
                          /\ Units(Parts(j)) = j.delta
           /\ Blended(j) \in Int
           /\ NewLayers(j) \in Seq(Layer)
<1> DEFINE ls == layers[ScopeOf[j.row]]
<1>1. /\ j.type \in MovementTypes /\ j.row \in Rows /\ j.delta \in Int \ {0}
      /\ j.unit \in Int \cup {NoCost} /\ j.basis \in Seq(Part) /\ j.of \in Nat
      /\ Grounded(j, journal) /\ ls \in Seq(Layer) /\ Len(journal) \in Nat
  BY PendingFields
<1>2. onHand[j.row] \in Int /\ avgCost[j.row] \in Int
  BY <1>1 DEF CostingInv, CostingTypeOK
<1>3. UnitCost(j) \in Int
  BY <1>1, <1>2 DEF UnitCost
<1> HIDE DEF ls
<1>4. CASE Consumes(j)
  <2>1. -j.delta \in Nat \ {0} /\ -j.delta <= Left(ls)
    <3>1. Left(ls) >= -j.delta /\ j.delta < 0
      BY <1>4 DEF Admitted, Valued, Consumes, ls
    <3>2. Left(ls) \in Int
      <4>1. Len(ls) + 1 \in 1 .. Len(ls) + 1
        BY <1>1
      <4> QED BY <1>1, <4>1, BeforeAdds
    <3> QED BY <1>1, <3>1, <3>2
  <2> DEFINE need == -j.delta
  <2>2. Spent(j) = Allocations(ls, need) /\ need \in Nat
    BY <1>4, <2>1 DEF Spent, ls
  <2> HIDE DEF need
  <2>3. Spent(j) \in Seq(Part) /\ Units(Spent(j)) = Lesser(need, Left(ls))
    BY <1>1, <2>2, AllocationsUnits
  <2>4. Units(Spent(j)) = -j.delta
    BY <2>1, <2>3 DEF Lesser, need
  <2>5. Unit(j) \in Int
    <3>1. Value(Spent(j)) \in Int
      BY <2>3, ValueInt
    <3>2. Unit(j) = Rounded(Value(Spent(j)), need)
      BY <1>4 DEF Unit, need
    <3>3. need \in Nat \ {0}
      BY <2>1 DEF need
    <3> QED BY <3>1, <3>2, <3>3, RoundedBetween
  <2>6. NewEntry(j) \in Entry
    BY <1>1, <2>3, <2>5 DEF NewEntry, Entry
  <2>7. ~Opens(j)
    BY <1>1, <1>4 DEF Opens, Consumes
  <2>8. NewLayers(j) \in Seq(Layer)
    <3>1. NewLayers(j) = Consumed(ls, need)
      BY <1>4 DEF NewLayers, ls, need
    <3> QED BY <1>1, <2>2, <3>1, ConsumedLayers
  <2>9. Blended(j) \in Int
    <3>1. ~(j.delta > 0)
      BY <1>1, <2>1
    <3>2. Blended(j) = avgCost[j.row]
      BY <3>1 DEF Blended
    <3> QED BY <1>2, <3>2
  <2> QED BY <1>4, <2>1, <2>4, <2>6, <2>7, <2>8, <2>9 DEF ls
<1>5. CASE ~Consumes(j)
  <2>1. Spent(j) = << >> /\ Unit(j) = UnitCost(j)
    BY <1>5 DEF Spent, Unit
  <2>2. NewEntry(j) \in Entry
    <3>1. << >> \in Seq(Part)
      OBVIOUS
    <3> QED BY <1>1, <1>3, <2>1, <3>1 DEF NewEntry, Entry
  <2>3. ASSUME Opens(j) PROVE Parts(j) \in Seq(Part) /\ Units(Parts(j)) = j.delta
    <3>1. CASE j.basis # << >>
      BY <1>1, <3>1 DEF Parts, Grounded
    <3>2. CASE j.basis = << >>
      <4> DEFINE part == [qty |-> j.delta, cost |-> Unit(j)]
      <4>1. part \in Part /\ part.qty = j.delta
        BY <1>1, <1>3, <2>1, <2>3 DEF Part, Opens
      <4> HIDE DEF part
      <4>2. Parts(j) = << part >>
        BY <3>2 DEF Parts, part
      <4> QED BY <4>1, <4>2, UnitsOfFew
    <3> QED BY <3>1, <3>2
  <2>4. NewLayers(j) \in Seq(Layer)
    <3>1. CASE Opens(j)
      <4>1. NewLayers(j) = ls \o Opened(Parts(j), Len(journal) + 1)
        BY <1>5, <3>1 DEF NewLayers, ls
      <4>2. Len(journal) + 1 \in Nat
        BY <1>1
      <4> QED BY <1>1, <2>3, <3>1, <4>1, <4>2, OpenedLayers
    <3>2. CASE ~Opens(j)
      BY <1>1, <1>5, <3>2 DEF NewLayers, ls
    <3> QED BY <3>1, <3>2
  <2>5. Blended(j) \in Int
    <3> DEFINE new == onHand[j.row] + j.delta
               n == onHand[j.row] * avgCost[j.row] + j.delta * UnitCost(j)
    <3>1. new \in Int /\ n \in Int
      <4> DEFINE a == onHand[j.row]
                 b == avgCost[j.row]
                 c == j.delta
                 d == UnitCost(j)
      <4>1. a \in Int /\ b \in Int /\ c \in Int /\ d \in Int
        BY <1>1, <1>2, <1>3
      <4> HIDE DEF a, b, c, d
      <4>2. a + c \in Int /\ a * b + c * d \in Int
        BY <4>1
      <4> QED BY <4>2 DEF a, b, c, d
    <3>2. CASE j.delta > 0 /\ new > 0
      <4>1. Blended(j) = Rounded(n, new)
        BY <3>2 DEF Blended
      <4>2. new \in Nat \ {0}
        BY <3>1, <3>2
      <4> HIDE DEF new, n
      <4> QED BY <3>1, <4>1, <4>2, RoundedBetween
    <3>3. CASE ~(j.delta > 0 /\ new > 0)
      BY <1>2, <3>3 DEF Blended
    <3> QED BY <3>2, <3>3
  <2> QED BY <1>5, <2>1, <2>2, <2>3, <2>4, <2>5
<1> QED BY <1>4, <1>5

-----------------------------------------------------------------------------
(* The journal only grows. *)
LEMMA JournalGrows ==
    ASSUME CostingTypeOK, NEW e \in Entry, journal' = Append(journal, e)
    PROVE  /\ journal' \in Seq(Entry)
           /\ Len(journal') = Len(journal) + 1
           /\ DOMAIN journal' = (DOMAIN journal) \cup {Len(journal) + 1}
           /\ Len(journal) + 1 \notin DOMAIN journal
           /\ \A m \in DOMAIN journal : journal'[m] = journal[m]
           /\ journal'[Len(journal) + 1] = e
<1>1. journal \in Seq(Entry) /\ Len(journal) \in Nat /\ DOMAIN journal = 1 .. Len(journal)
  BY DEF CostingTypeOK
<1>2. journal' \in Seq(Entry) /\ Len(journal') = Len(journal) + 1
  BY <1>1
<1>3. DOMAIN journal' = 1 .. Len(journal) + 1
  BY <1>2
<1>4. /\ 1 .. Len(journal) + 1 = (1 .. Len(journal)) \cup {Len(journal) + 1}
      /\ Len(journal) + 1 \notin 1 .. Len(journal)
  BY <1>1
<1>5. \A m \in 1 .. Len(journal) : journal'[m] = journal[m]
  BY <1>1
<1>6. journal'[Len(journal) + 1] = e
  BY <1>1
<1> QED BY <1>1, <1>2, <1>3, <1>4, <1>5, <1>6

(* Posting keeps the invariant. *)
LEMMA CommitKeepsInv ==
    ASSUME CostingInv, NEW p \in Posters, Commit(p)
    PROVE  CostingInv'
<1> DEFINE j == posting[p]
<1>1. /\ j # Nothing /\ Admitted(j)
      /\ onHand' = [onHand EXCEPT ![j.row] = @ + j.delta]
      /\ avgCost' = [avgCost EXCEPT ![j.row] = Blended(j)]
      /\ layers' = [layers EXCEPT ![ScopeOf[j.row]] = NewLayers(j)]
      /\ journal' = Append(journal, NewEntry(j))
      /\ posting' = [posting EXCEPT ![p] = Nothing]
      /\ policy' = policy /\ switching' = switching
  BY CommitWrites
<1>2. /\ j.row \in Rows /\ j.delta \in Int \ {0} /\ j.of \in Nat
      /\ Grounded(j, journal) /\ ScopeOf[j.row] \in Scopes /\ Len(journal) \in Nat
      /\ DOMAIN journal = 1 .. Len(journal)
  BY <1>1, PendingFields
<1>3. /\ NewEntry(j) \in Entry
      /\ Spent(j) # << >> => Units(Spent(j)) = -j.delta
      /\ Blended(j) \in Int
      /\ NewLayers(j) \in Seq(Layer)
  BY <1>1, PostedWellFormed
<1>4. CostingTypeOK
  BY DEF CostingInv
<1> HIDE DEF j
<1>5. /\ journal' \in Seq(Entry) /\ Len(journal') = Len(journal) + 1
      /\ DOMAIN journal' = (DOMAIN journal) \cup {Len(journal) + 1}
      /\ \A m \in DOMAIN journal : journal'[m] = journal[m]
      /\ journal'[Len(journal) + 1] = NewEntry(j)
  BY <1>1, <1>3, <1>4, JournalGrows
<1>6. CostingTypeOK'
  <2>1. policy' \in Strategies /\ switching' \in [Switchers -> Strategies \cup {"none"}]
    BY <1>1, <1>4 DEF CostingTypeOK
  <2>2. onHand' \in [Rows -> Int] /\ avgCost' \in [Rows -> Int]
    BY <1>1, <1>2, <1>3, <1>4 DEF CostingTypeOK
  <2>3. layers' \in [Scopes -> Seq(Layer)]
    BY <1>1, <1>3, <1>4 DEF CostingTypeOK
  <2>4. DOMAIN posting' = Posters /\ \A q \in Posters : posting'[q] # Nothing => posting'[q] \in Pending
    BY <1>1, <1>4 DEF CostingTypeOK
  <2> QED BY <1>5, <2>1, <2>2, <2>3, <2>4 DEF CostingTypeOK
<1>7. EntryInv'
  <2>1. ASSUME NEW m \in DOMAIN journal' PROVE EntryGrounded(journal'[m], m)
    <3>1. CASE m \in DOMAIN journal
      BY <1>5, <3>1 DEF CostingInv, EntryInv
    <3>2. CASE m = Len(journal) + 1
      <4>1. /\ NewEntry(j).type = j.type /\ NewEntry(j).delta = j.delta
            /\ NewEntry(j).of = j.of /\ NewEntry(j).spent = Spent(j)
        BY DEF NewEntry
      <4>2. Directed(NewEntry(j)) /\ j.of < m /\ (j.type = "TRANSFER_IN" => j.of # 0)
        BY <1>2, <3>2, <4>1 DEF Grounded, Directed
      <4>3. EntryGrounded(NewEntry(j), m)
        BY <1>3, <4>1, <4>2 DEF EntryGrounded
      <4> QED BY <1>5, <3>2, <4>3
    <3> QED BY <1>5, <2>1, <3>1, <3>2
  <2> QED BY <2>1 DEF EntryInv
<1>8. PendingInv'
  <2>1. ASSUME NEW q \in Posters, posting'[q] # Nothing PROVE Grounded(posting'[q], journal')
    <3>1. posting'[q] = posting[q] /\ posting[q] # Nothing
      BY <1>1, <1>4, <2>1 DEF CostingTypeOK
    <3> DEFINE k == posting[q]
    <3>2. Grounded(k, journal) /\ k.of \in Nat
      BY <3>1, PendingFields
    <3> HIDE DEF k
    <3>3. k.of # 0 => k.of \in DOMAIN journal
      BY <1>2, <3>2 DEF Grounded
    <3>4. Grounded(k, journal')
      BY <1>2, <1>5, <3>2, <3>3 DEF Grounded
    <3> QED BY <3>1, <3>4 DEF k
  <2> QED BY <2>1 DEF PendingInv, Nothing
<1> QED BY <1>6, <1>7, <1>8 DEF CostingInv

(* So does a request that begins. *)
LEMMA BeginKeepsInv ==
    ASSUME CostingInv, NEW p \in Posters, Begin(p)
    PROVE  CostingInv'
<1>1. PICK j \in Inflows \cup Outflows \cup Arrivals \cup SerialReturns \cup PlainReturns \cup Reversals :
          posting' = [posting EXCEPT
             ![p] = [type |-> j.type, row |-> j.row, delta |-> j.delta, unit |-> j.unit,
                     basis |-> j.basis, of |-> j.of, strategy |-> policy]]
  BY DEF Begin
<1>2. UNCHANGED << policy, onHand, avgCost, layers, journal, switching >>
  BY DEF Begin
<1>3. RequestTyped(j) /\ Grounded(j, journal)
  BY RequestsGrounded
<1> DEFINE k == [type |-> j.type, row |-> j.row, delta |-> j.delta, unit |-> j.unit,
                 basis |-> j.basis, of |-> j.of, strategy |-> policy]
<1>4. policy \in Strategies /\ DOMAIN posting = Posters
  BY DEF CostingInv, CostingTypeOK
<1>5. k \in Pending
  BY <1>3, <1>4 DEF RequestTyped, Pending
<1>6. Grounded(k, journal)
  BY <1>3 DEF Grounded, Directed
<1>7. posting' = [posting EXCEPT ![p] = k]
  BY <1>1
<1> HIDE DEF k
<1>8. CostingTypeOK'
  <2>1. DOMAIN posting' = Posters /\ \A q \in Posters : posting'[q] # Nothing => posting'[q] \in Pending
    BY <1>4, <1>5, <1>7 DEF CostingInv, CostingTypeOK
  <2> QED BY <1>2, <2>1 DEF CostingInv, CostingTypeOK, Nothing
<1>9. EntryInv'
  BY <1>2 DEF CostingInv, EntryInv
<1>10. PendingInv'
  <2>1. ASSUME NEW q \in Posters, posting'[q] # Nothing PROVE Grounded(posting'[q], journal')
    BY <1>2, <1>4, <1>6, <1>7, <2>1 DEF CostingInv, PendingInv
  <2> QED BY <2>1 DEF PendingInv, Nothing
<1> QED BY <1>8, <1>9, <1>10 DEF CostingInv

(* The invariant holds to begin with, and every step keeps it. *)
LEMMA CostingInvInit ==
    ASSUME Init
    PROVE  CostingInv
<1>1. CostingTypeOK
  BY DEF Init, CostingTypeOK, Strategies
<1>2. EntryInv
  BY DEF Init, EntryInv
<1>3. PendingInv
  BY DEF Init, PendingInv
<1> QED BY <1>1, <1>2, <1>3 DEF CostingInv

(* Each step keeps the invariant. *)
LEMMA CostingInvStep ==
    ASSUME CostingInv, [Next]_vars
    PROVE  CostingInv'
<1>1. CASE UNCHANGED vars
  <2>1. CostingTypeOK'
    BY <1>1 DEF vars, CostingInv, CostingTypeOK, Nothing
  <2>2. EntryInv' /\ PendingInv'
    BY <1>1 DEF vars, CostingInv, EntryInv, PendingInv, Nothing
  <2> QED BY <2>1, <2>2 DEF CostingInv
<1>2. ASSUME NEW p \in Posters, Begin(p) PROVE CostingInv'
  BY <1>2, BeginKeepsInv
<1>3. ASSUME NEW p \in Posters, Commit(p) PROVE CostingInv'
  BY <1>3, CommitKeepsInv
<1>4. ASSUME NEW p \in Posters, Refuse(p) PROVE CostingInv'
  <2>1. CostingTypeOK'
    BY <1>4 DEF Refuse, CostingInv, CostingTypeOK, Nothing
  <2>2. EntryInv'
    BY <1>4 DEF Refuse, CostingInv, EntryInv
  <2>3. PendingInv'
    <3>1. ASSUME NEW q \in Posters, posting'[q] # Nothing PROVE Grounded(posting'[q], journal')
      BY <1>4, <3>1 DEF Refuse, CostingInv, CostingTypeOK, PendingInv
    <3> QED BY <3>1 DEF PendingInv, Nothing
  <2> QED BY <2>1, <2>2, <2>3 DEF CostingInv
<1>5. ASSUME NEW u \in Switchers, WriteSwitch(u) PROVE CostingInv'
  <2>1. policy' \in Strategies /\ switching' \in [Switchers -> Strategies \cup {"none"}]
    BY <1>5 DEF WriteSwitch, CostingInv, CostingTypeOK
  <2>2. CostingTypeOK'
    BY <1>5, <2>1 DEF WriteSwitch, CostingInv, CostingTypeOK, Nothing
  <2>3. EntryInv' /\ PendingInv'
    BY <1>5 DEF WriteSwitch, CostingInv, EntryInv, PendingInv, Nothing
  <2> QED BY <2>2, <2>3 DEF CostingInv
<1>6. ASSUME NEW u \in Switchers, NEW to \in Strategies, CheckSwitch(u, to) PROVE CostingInv'
  <2>1. switching' \in [Switchers -> Strategies \cup {"none"}]
    BY <1>6 DEF CheckSwitch, CostingInv, CostingTypeOK
  <2>2. CostingTypeOK'
    BY <1>6, <2>1 DEF CheckSwitch, CostingInv, CostingTypeOK, Nothing
  <2>3. EntryInv' /\ PendingInv'
    BY <1>6 DEF CheckSwitch, CostingInv, EntryInv, PendingInv, Nothing
  <2> QED BY <2>2, <2>3 DEF CostingInv
<1> QED BY <1>1, <1>2, <1>3, <1>4, <1>5, <1>6 DEF Next

(* The types, and what movements and requests go back to, in every state. *)
THEOREM CostingInvariant == Spec => []CostingInv
BY CostingInvInit, CostingInvStep, PTL DEF Spec

-----------------------------------------------------------------------------
(* Steps other than a posting leave stock, averages, layers and journal.     *)
LEMMA OnlyCommitPosts ==
    ASSUME CostingInv, [Next]_vars, \A p \in Posters : ~Commit(p)
    PROVE  UNCHANGED << onHand, avgCost, layers, journal >>
BY DEF Next, vars, Begin, Refuse, WriteSwitch, CheckSwitch

-----------------------------------------------------------------------------
(* Oldest first *)

InOrder(ls) ==
    \A i, k \in DOMAIN ls : i < k /\ ls[k].left < ls[k].got => ls[i].left = 0

(* An outflow goes on where the last one has stopped .. *)
LEMMA ConsumedInOrder ==
    ASSUME NEW ls \in Seq(Layer), NEW need \in Nat, InOrder(ls)
    PROVE  InOrder(Consumed(ls, need))
<1> DEFINE cs == Consumed(ls, need)
<1>1. DOMAIN ls = 1 .. Len(ls) /\ DOMAIN cs = 1 .. Len(ls)
  <2>1. cs \in Seq(Layer) /\ Len(cs) = Len(ls)
    BY ConsumedLayers
  <2> QED BY <2>1
<1> SUFFICES ASSUME NEW i \in 1 .. Len(ls), NEW k \in 1 .. Len(ls), i < k, cs[k].left < cs[k].got
             PROVE  cs[i].left = 0
  BY <1>1 DEF InOrder
<1> DEFINE bi == Before(ls, i)
           bk == Before(ls, k)
           li == ls[i].left
           lk == ls[k].left
<1>2. /\ cs[i].left = li - Taken(ls, need, i)
      /\ cs[k].left = lk - Taken(ls, need, k) /\ cs[k].got = ls[k].got
      /\ Taken(ls, need, i) \in 0 .. li
      /\ Taken(ls, need, i) = Lesser(need, Before(ls, i + 1)) - Lesser(need, bi)
      /\ Taken(ls, need, k) = Lesser(need, Before(ls, k + 1)) - Lesser(need, bk)
  BY ConsumedLayers, TakenFromLayer
<1>3. /\ Before(ls, i + 1) = bi + li /\ Before(ls, k + 1) = bk + lk
      /\ bi \in Nat /\ bk \in Nat /\ li \in Nat /\ lk \in Nat
      /\ bi + li <= bk
  <2>1. i \in 1 .. Len(ls) + 1 /\ k \in 1 .. Len(ls) + 1
    OBVIOUS
  <2> QED BY <2>1, BeforeAdds, BeforeGrows, LayerFields
<1> HIDE DEF cs, bi, bk, li, lk
<1>4. CASE lk < ls[k].got
  <2>1. li = 0
    BY <1>1, <1>4 DEF InOrder, li, lk
  <2> QED BY <1>2, <2>1
<1>5. CASE ~(lk < ls[k].got)
  <2>1. ls[k].got \in Nat
    BY LayerFields
  <2>2. Taken(ls, need, k) # 0
    <3>1. SUFFICES ASSUME Taken(ls, need, k) = 0 PROVE FALSE
      OBVIOUS
    <3>2. cs[k].left = lk
      BY <1>2, <1>3, <3>1
    <3> QED BY <1>2, <1>5, <3>2
  <2>3. need > bk
    BY <1>2, <1>3, <2>2 DEF Lesser
  <2>4. Taken(ls, need, i) = li
    BY <1>2, <1>3, <2>3 DEF Lesser
  <2> QED BY <1>2, <1>3, <2>4
<1> QED BY <1>4, <1>5

(* .. and what is opened is whole. *)
LEMMA OpenedInOrder ==
    ASSUME NEW ls \in Seq(Layer), NEW ps \in Seq(Part), NEW source \in Nat, InOrder(ls)
    PROVE  InOrder(ls \o Opened(ps, source))
<1> DEFINE cs == ls \o Opened(ps, source)
<1>1. /\ cs \in Seq(Layer) /\ Len(cs) = Len(ls) + Len(ps)
      /\ \A i \in 1 .. Len(ls) : cs[i] = ls[i]
      /\ \A i \in 1 .. Len(ps) : cs[Len(ls) + i].left = cs[Len(ls) + i].got
  BY OpenedLayers
<1> HIDE DEF cs
<1>2. /\ DOMAIN ls = 1 .. Len(ls) /\ DOMAIN cs = 1 .. Len(ls) + Len(ps)
      /\ Len(ls) \in Nat /\ Len(ps) \in Nat
  BY <1>1
<1>3. ASSUME NEW i \in DOMAIN cs, NEW k \in DOMAIN cs, i < k, cs[k].left < cs[k].got
      PROVE  cs[i].left = 0
  <2>1. k \in 1 .. Len(ls)
    <3> SUFFICES ASSUME k \notin 1 .. Len(ls) PROVE FALSE
      OBVIOUS
    <3> DEFINE n == k - Len(ls)
    <3>1. n \in 1 .. Len(ps) /\ Len(ls) + n = k
      BY <1>2
    <3> HIDE DEF n
    <3>2. cs[k].left = cs[k].got
      BY <1>1, <3>1
    <3>3. cs[k].got \in Nat
      <4>1. k \in 1 .. Len(cs)
        BY <1>1, <1>2
      <4> QED BY <1>1, <4>1, LayerFields
    <3> QED BY <1>3, <3>2, <3>3
  <2>2. i \in 1 .. Len(ls)
    BY <1>2, <1>3, <2>1
  <2> QED BY <1>1, <1>2, <1>3, <2>1, <2>2 DEF InOrder
<1> QED BY <1>3 DEF InOrder, cs

(* A layer is not touched while an older one of its scope has units left.    *)
THEOREM OldestUsedFirst == Spec => []OldestFirst
<1>1. Init => OldestFirst
  BY DEF Init, OldestFirst
<1>2. CostingInv /\ OldestFirst /\ [Next]_vars => OldestFirst'
  <2> SUFFICES ASSUME CostingInv, OldestFirst, [Next]_vars PROVE OldestFirst'
    OBVIOUS
  <2>0. \A s \in Scopes : InOrder(layers[s])
    BY DEF OldestFirst, InOrder
  <2>1. CASE \A p \in Posters : ~Commit(p)
    BY <2>1, OnlyCommitPosts DEF OldestFirst
  <2>2. ASSUME NEW p \in Posters, Commit(p) PROVE OldestFirst'
    <3> DEFINE j == posting[p]
               t == ScopeOf[j.row]
               ls == layers[t]
    <3>1. /\ j # Nothing /\ Admitted(j)
          /\ layers' = [layers EXCEPT ![t] = NewLayers(j)]
      BY <2>2, CommitWrites
    <3>2. t \in Scopes /\ ls \in Seq(Layer) /\ Len(journal) \in Nat
      BY <3>1, PendingFields
    <3>3. /\ Consumes(j) => -j.delta \in Nat
          /\ Opens(j) => Parts(j) \in Seq(Part)
      BY <3>1, PostedWellFormed
    <3> HIDE DEF j
    <3>4. InOrder(ls)
      BY <2>0, <3>2
    <3>5. InOrder(NewLayers(j))
      <4>1. CASE Consumes(j)
        BY <3>2, <3>3, <3>4, <4>1, ConsumedInOrder DEF NewLayers
      <4>2. CASE ~Consumes(j) /\ Opens(j)
        <5>1. Len(journal) + 1 \in Nat
          BY <3>2
        <5> QED BY <3>2, <3>3, <3>4, <4>2, <5>1, OpenedInOrder DEF NewLayers
      <4>3. CASE ~Consumes(j) /\ ~Opens(j)
        BY <3>4, <4>3 DEF NewLayers
      <4> QED BY <4>1, <4>2, <4>3
    <3>6. \A s \in Scopes : InOrder(layers'[s])
      BY <2>0, <3>1, <3>5 DEF CostingInv, CostingTypeOK
    <3> QED BY <3>6 DEF OldestFirst, InOrder, Scopes
  <2> QED BY <2>1, <2>2
<1> QED BY <1>1, <1>2, CostingInvariant, PTL DEF Spec

-----------------------------------------------------------------------------
(* Transfers *)

(* Each layer goes back to a movement; those that an arrival has opened have  *)
(* cost what its dispatch has consumed.                                       *)
PaidFor(ls, past) ==
    \A i \in DOMAIN ls :
        /\ ls[i].source \in DOMAIN past
        /\ past[ls[i].source].type = "TRANSFER_IN" =>
               CostFrom(ls, ls[i].source) = Value(past[past[ls[i].source].of].spent)

PaidInv == \A s \in Scopes : PaidFor(layers[s], journal)

(* The layers of ls are kept as the first layers of cs, save for what is left. *)
KeptLayers(ls, cs) ==
    /\ Len(ls) <= Len(cs)
    /\ \A i \in 1 .. Len(ls) :
           cs[i].source = ls[i].source /\ cs[i].got = ls[i].got /\ cs[i].cost = ls[i].cost

(* The layers that cs has beyond those of ls are those of movement m. *)
AddedLayers(ls, cs, m) == \A i \in 1 .. Len(cs) : i > Len(ls) => cs[i].source = m

(* Layer i of cs cost what the journal past says. *)
PaidAt(cs, i, past) ==
    /\ cs[i].source \in DOMAIN past
    /\ past[cs[i].source].type = "TRANSFER_IN" =>
           CostFrom(cs, cs[i].source) = Value(past[past[cs[i].source].of].spent)

(* Layers whose sources and costs are kept stay paid for as the journal grows. *)
LEMMA PaidStays ==
    ASSUME CostingInv, NEW e \in Entry, NEW past, past = Append(journal, e),
           NEW ls \in Seq(Layer), PaidFor(ls, journal), NEW cs \in Seq(Layer),
           KeptLayers(ls, cs), AddedLayers(ls, cs, Len(journal) + 1),
           NEW i \in 1 .. Len(ls)
    PROVE  PaidAt(cs, i, past)
<1> DEFINE m == ls[i].source
<1>1. /\ journal \in Seq(Entry) /\ Len(journal) \in Nat /\ DOMAIN journal = 1 .. Len(journal)
      /\ DOMAIN ls = 1 .. Len(ls)
  BY DEF CostingInv, CostingTypeOK
<1>2. /\ DOMAIN past = 1 .. Len(journal) + 1
      /\ \A k \in 1 .. Len(journal) : past[k] = journal[k]
  BY <1>1
<1>3. /\ m \in DOMAIN journal /\ cs[i].source = m
      /\ journal[m].type = "TRANSFER_IN" => CostFrom(ls, m) = Value(journal[journal[m].of].spent)
  BY <1>1 DEF PaidFor, KeptLayers
<1> HIDE DEF m
<1>4. past[m] = journal[m] /\ m \in DOMAIN past
  BY <1>1, <1>2, <1>3
<1>5. ASSUME journal[m].type = "TRANSFER_IN" PROVE past[past[m].of] = journal[journal[m].of]
  <2>1. m \in 1 .. Len(journal) /\ journal[m].of \in Nat /\ journal[m].of < m /\ journal[m].of # 0
    BY <1>3, <1>5, EntryFields DEF CostingInv
  <2>2. journal[m].of \in 1 .. Len(journal)
    BY <1>1, <2>1
  <2> QED BY <1>2, <1>4, <2>2
<1>6. CostFrom(cs, m) = CostFrom(ls, m)
  <2>1. \A k \in 1 .. Len(cs) : k > Len(ls) => cs[k].source # m
    BY <1>1, <1>3 DEF AddedLayers
  <2> QED BY <2>1, CostKept DEF KeptLayers
<1> QED BY <1>3, <1>4, <1>5, <1>6 DEF PaidAt

(* A posting leaves the layers of its scope paid for. *)
LEMMA NewLayersPaid ==
    ASSUME CostingInv, NEW p \in Posters, posting[p] # Nothing, NEW j, j = posting[p], Admitted(j),
           PaidFor(layers[ScopeOf[j.row]], journal), NEW past, past = Append(journal, NewEntry(j))
    PROVE  PaidFor(NewLayers(j), past)
<1> DEFINE ls == layers[ScopeOf[j.row]]
           cs == NewLayers(j)
<1>1. /\ ls \in Seq(Layer) /\ cs \in Seq(Layer) /\ NewEntry(j) \in Entry
      /\ journal \in Seq(Entry) /\ Len(journal) \in Nat /\ DOMAIN journal = 1 .. Len(journal)
      /\ Grounded(j, journal) /\ j.of \in Nat /\ j.delta \in Int
  BY PendingFields, PostedWellFormed
<1>2. /\ Consumes(j) => -j.delta \in Nat
      /\ Opens(j) => Parts(j) \in Seq(Part)
  BY PostedWellFormed
<1>3. CASE Consumes(j) \/ ~Opens(j)
  <2>1. KeptLayers(ls, cs) /\ Len(cs) = Len(ls)
    <3>1. CASE Consumes(j)
      <4> DEFINE need == -j.delta
      <4>1. cs = Consumed(ls, need) /\ need \in Nat
        BY <1>2, <3>1 DEF NewLayers
      <4> HIDE DEF ls, cs, need
      <4>2. Len(cs) = Len(ls) /\ Len(ls) \in Nat
        BY <1>1, <4>1, ConsumedLayers
      <4>3. ASSUME NEW i \in 1 .. Len(ls)
            PROVE  cs[i].source = ls[i].source /\ cs[i].got = ls[i].got /\ cs[i].cost = ls[i].cost
        BY <1>1, <4>1, ConsumedLayers
      <4> QED BY <4>2, <4>3 DEF KeptLayers
    <3>2. CASE ~Consumes(j) /\ ~Opens(j)
      <4>1. cs = ls
        BY <3>2 DEF NewLayers
      <4> HIDE DEF ls, cs
      <4>2. Len(ls) \in Nat
        BY <1>1
      <4> QED BY <4>1, <4>2 DEF KeptLayers
    <3> QED BY <1>3, <3>1, <3>2
  <2>2. PaidFor(ls, journal)
    OBVIOUS
  <2> HIDE DEF ls, cs
  <2>3. Len(ls) \in Nat /\ DOMAIN cs = 1 .. Len(ls)
    BY <1>1, <2>1
  <2>4. AddedLayers(ls, cs, Len(journal) + 1)
    BY <2>1, <2>3 DEF AddedLayers
  <2>5. ASSUME NEW i \in 1 .. Len(ls) PROVE PaidAt(cs, i, past)
    BY <1>1, <2>1, <2>2, <2>4, PaidStays
  <2> QED BY <2>3, <2>5 DEF PaidFor, PaidAt, cs
<1>4. CASE ~Consumes(j) /\ Opens(j)
  <2> DEFINE m == Len(journal) + 1
             ps == Parts(j)
  <2>1. cs = ls \o Opened(ps, m) /\ ps \in Seq(Part) /\ m \in Nat
    <3>1. cs = ls \o Opened(ps, m)
      BY <1>4 DEF NewLayers
    <3>2. ps \in Seq(Part)
      BY <1>2, <1>4
    <3>3. m \in Nat
      BY <1>1
    <3> QED BY <3>1, <3>2, <3>3
  <2> HIDE DEF ls, cs, ps
  <2>2. /\ Len(cs) = Len(ls) + Len(ps)
        /\ \A i \in 1 .. Len(ls) : cs[i] = ls[i]
        /\ \A i \in 1 .. Len(ps) : cs[Len(ls) + i].source = m
    BY <1>1, <2>1, OpenedLayers
  <2>3. Len(ls) \in Nat /\ Len(ps) \in Nat /\ DOMAIN cs = 1 .. Len(ls) + Len(ps) /\ DOMAIN ls = 1 .. Len(ls)
    BY <1>1, <2>1, <2>2
  <2>4. ASSUME NEW i \in 1 .. Len(cs), i > Len(ls) PROVE cs[i].source = m
    <3> DEFINE n == i - Len(ls)
    <3>1. n \in 1 .. Len(ps) /\ Len(ls) + n = i
      BY <2>2, <2>3, <2>4
    <3> HIDE DEF n
    <3> QED BY <2>2, <3>1
  <2>5. PaidFor(ls, journal) /\ KeptLayers(ls, cs) /\ AddedLayers(ls, cs, m)
    <3>1. PaidFor(ls, journal)
      BY DEF ls
    <3>2. Len(ls) <= Len(cs)
      BY <2>2, <2>3
    <3> QED BY <2>2, <2>4, <3>1, <3>2 DEF KeptLayers, AddedLayers
  <2>6. past[m] = NewEntry(j) /\ DOMAIN past = 1 .. m /\ \A k \in 1 .. Len(journal) : past[k] = journal[k]
    BY <1>1
  <2>7. ASSUME past[m].type = "TRANSFER_IN" PROVE CostFrom(cs, m) = Value(past[past[m].of].spent)
    <3>1. past[m].of = j.of /\ j.type = "TRANSFER_IN"
      BY <2>6, <2>7 DEF NewEntry
    <3>2. j.of # 0 /\ j.of <= Len(journal) /\ j.basis = journal[j.of].spent
      BY <1>1, <3>1 DEF Grounded
    <3>3. past[j.of] = journal[j.of]
      BY <1>1, <2>6, <3>2
    <3>4. ps = j.basis
      <4>1. j.basis # << >>
        BY <1>4, <3>1 DEF Admitted, Valued, Opens, ExplicitCostInflow
      <4> QED BY <4>1 DEF Parts, ps
    <3>5. \A i \in 1 .. Len(ls) : ls[i].source # m
      <4>1. \A i \in 1 .. Len(ls) : ls[i].source \in 1 .. Len(journal)
        BY <1>1, <2>3, <2>5 DEF PaidFor
      <4>2. m \notin 1 .. Len(journal)
        BY <1>1
      <4> QED BY <4>1, <4>2
    <3>6. CostFrom(cs, m) = Value(ps)
      BY <1>1, <2>1, <3>5, OpenedCost
    <3> QED BY <3>1, <3>2, <3>3, <3>4, <3>6
  <2> HIDE DEF m
  <2>8. ASSUME NEW i \in 1 .. Len(ls) PROVE PaidAt(cs, i, past)
    BY <1>1, <2>5, PaidStays DEF m
  <2>9. ASSUME NEW i \in 1 .. Len(cs), i > Len(ls) PROVE PaidAt(cs, i, past)
    <3>1. m \in DOMAIN past
      BY <1>1, <2>6 DEF m
    <3>2. cs[i].source = m
      BY <2>4, <2>9
    <3> QED BY <2>7, <3>1, <3>2 DEF PaidAt
  <2>10. \A i \in DOMAIN cs : i \in 1 .. Len(ls) \/ (i \in 1 .. Len(cs) /\ i > Len(ls))
    BY <2>2, <2>3
  <2> QED BY <2>8, <2>9, <2>10 DEF PaidFor, PaidAt, cs
<1> QED BY <1>3, <1>4

(* A transfer moves cost: what an arrival opens is worth what its dispatch    *)
(* has consumed.                                                              *)
THEOREM TransfersKeepCost == Spec => []TransferKeepsCost
<1>1. Init => PaidInv
  BY DEF Init, PaidInv, PaidFor
<1>2. CostingInv /\ PaidInv /\ [Next]_vars => PaidInv'
  <2> SUFFICES ASSUME CostingInv, PaidInv, [Next]_vars PROVE PaidInv'
    OBVIOUS
  <2>1. CASE \A p \in Posters : ~Commit(p)
    BY <2>1, OnlyCommitPosts DEF PaidInv
  <2>2. ASSUME NEW p \in Posters, Commit(p) PROVE PaidInv'
    <3> DEFINE j == posting[p]
               t == ScopeOf[j.row]
    <3>1. /\ j # Nothing /\ Admitted(j)
          /\ layers' = [layers EXCEPT ![t] = NewLayers(j)]
          /\ journal' = Append(journal, NewEntry(j))
      BY <2>2, CommitWrites
    <3>2. t \in Scopes /\ NewEntry(j) \in Entry
      BY <3>1, PendingFields, PostedWellFormed
    <3>3. PaidFor(NewLayers(j), journal')
      <4>1. PaidFor(layers[t], journal)
        BY <3>2 DEF PaidInv
      <4> QED BY <3>1, <4>1, NewLayersPaid
    <3> HIDE DEF j
    <3>4. ASSUME NEW s \in Scopes, s # t PROVE PaidFor(layers[s], journal')
      <4> DEFINE ls == layers[s]
      <4>1. ls \in Seq(Layer) /\ PaidFor(ls, journal)
        BY DEF CostingInv, CostingTypeOK, PaidInv
      <4> HIDE DEF ls
      <4>2. Len(ls) \in Nat /\ DOMAIN ls = 1 .. Len(ls)
        BY <4>1
      <4>3. KeptLayers(ls, ls) /\ AddedLayers(ls, ls, Len(journal) + 1)
        BY <4>2 DEF KeptLayers, AddedLayers
      <4> DEFINE e == NewEntry(j)
                 past == journal'
      <4>4. e \in Entry /\ past = Append(journal, e)
        BY <3>1, <3>2
      <4> HIDE DEF e, past
      <4>5. ASSUME NEW i \in 1 .. Len(ls) PROVE PaidAt(ls, i, past)
        BY <4>1, <4>3, <4>4, PaidStays
      <4>6. PaidFor(ls, past)
        BY <4>2, <4>5 DEF PaidFor, PaidAt
      <4> QED BY <4>6 DEF ls, past
    <3>5. \A s \in Scopes : PaidFor(layers'[s], journal')
      BY <3>1, <3>3, <3>4 DEF CostingInv, CostingTypeOK
    <3> QED BY <3>5 DEF PaidInv, Scopes
  <2> QED BY <2>1, <2>2
<1>3. PaidInv => TransferKeepsCost
  BY TotalIsSum DEF PaidInv, PaidFor, TransferKeepsCost, CostFrom
<1> QED BY <1>1, <1>2, <1>3, CostingInvariant, PTL DEF Spec

-----------------------------------------------------------------------------
(* The average *)

(* Where only outflows are reversed no balance is negative. *)
StockInv == OnlyOutflowsReversed => \A r \in Rows : onHand[r] >= 0

(* A row that nothing came to has nothing. *)
EmptyInv ==
    \A r \in Rows :
        (\A m \in DOMAIN journal : journal[m].row = r => ~(journal[m].delta > 0)) => onHand[r] <= 0

Came(past, r) == { m \in DOMAIN past : past[m].row = r /\ past[m].delta > 0 }

Between(past, r, avg) ==
    Came(past, r) # {} /\ (\A m \in Came(past, r) : past[m].priced) =>
        /\ \E m \in Came(past, r) : past[m].unit <= avg
        /\ \E m \in Came(past, r) : past[m].unit >= avg

BetweenInv == \A r \in Rows : Between(journal, r, avgCost[r])

AverageInv == CostingInv /\ StockInv /\ EmptyInv

(* The average of old units at a and d units at u. *)
Blend(old, a, d, u) == Rounded(old * a + d * u, old + d)

(* A blend lies between what is blended. *)
LEMMA BlendBetween ==
    ASSUME NEW a \in Int, NEW u \in Int, NEW old \in Nat, NEW d \in Nat \ {0}
    PROVE  LET v == Blend(old, a, d, u)
           IN  /\ v \in Int
               /\ u <= a => u <= v /\ v <= a
               /\ a <= u => a <= v /\ v <= u
               /\ old = 0 => v = u
<1> DEFINE v == Blend(old, a, d, u)
           n == old * a + d * u
           new == old + d
<1>1. new \in Nat \ {0} /\ n \in Int
  OBVIOUS
<1>2. u * new = u * old + u * d /\ a * new = a * old + a * d /\ n = a * old + u * d
  OBVIOUS
<1>3. u * old \in Int /\ u * d \in Int /\ a * old \in Int /\ a * d \in Int
  OBVIOUS
<1>4. v = Rounded(n, new)
  BY DEF Blend
<1> HIDE DEF n, new, v
<1>5. /\ v \in Int
      /\ \A lo \in Int : lo * new <= n => lo <= v
      /\ \A hi \in Int : n <= hi * new => v <= hi
  BY <1>1, <1>4, RoundedBetween
<1>6. ASSUME u <= a PROVE u <= v /\ v <= a
  <2>1. u * old <= a * old /\ u * d <= a * d
    BY <1>6, TimesGrows
  <2>2. u * new <= n /\ n <= a * new
    BY <1>2, <1>3, <2>1
  <2> QED BY <1>5, <2>2
<1>7. ASSUME a <= u PROVE a <= v /\ v <= u
  <2>1. a * old <= u * old /\ a * d <= u * d
    BY <1>7, TimesGrows
  <2>2. a * new <= n /\ n <= u * new
    BY <1>2, <1>3, <2>1
  <2> QED BY <1>5, <2>2
<1>8. ASSUME old = 0 PROVE v = u
  <2>1. a * old = 0 /\ u * old = 0
    BY <1>8
  <2>2. u * new = n
    BY <1>2, <1>3, <2>1
  <2>3. u * new <= n /\ n <= u * new
    BY <1>1, <2>2
  <2> QED BY <1>5, <2>3
<1> QED BY <1>5, <1>6, <1>7, <1>8 DEF v

(* Stock and journal move together. *)
LEMMA StockStep ==
    ASSUME AverageInv, [Next]_vars
    PROVE  StockInv' /\ EmptyInv'
<1>1. CASE \A p \in Posters : ~Commit(p)
  BY <1>1, OnlyCommitPosts DEF AverageInv, StockInv, EmptyInv
<1>2. ASSUME NEW p \in Posters, Commit(p) PROVE StockInv' /\ EmptyInv'
  <2> DEFINE j == posting[p]
             e == NewEntry(j)
  <2>1. /\ j # Nothing /\ Admitted(j)
        /\ onHand' = [onHand EXCEPT ![j.row] = @ + j.delta]
        /\ journal' = Append(journal, e)
    BY <1>2, CommitWrites
  <2>2. /\ j.row \in Rows /\ j.delta \in Int \ {0} /\ Grounded(j, journal)
        /\ j.of \in Nat /\ Len(journal) \in Nat /\ DOMAIN journal = 1 .. Len(journal)
    BY <2>1, PendingFields DEF AverageInv
  <2>3. e \in Entry
    BY <2>1, PostedWellFormed DEF AverageInv
  <2>4. onHand \in [Rows -> Int]
    BY DEF AverageInv, CostingInv, CostingTypeOK
  <2>5. e.row = j.row /\ e.delta = j.delta
    BY DEF NewEntry
  <2> HIDE DEF j, e
  <2>6. \A r \in Rows : onHand'[r] = IF r = j.row THEN onHand[r] + j.delta ELSE onHand[r]
    BY <2>1, <2>2, <2>4
  <2>7. StockInv'
    <3> SUFFICES ASSUME OnlyOutflowsReversed, NEW r \in Rows PROVE onHand'[r] >= 0
      BY DEF StockInv
    <3>1. onHand[r] >= 0 /\ onHand[r] \in Int
      BY <2>4 DEF AverageInv, StockInv
    <3>2. CASE r # j.row
      BY <2>6, <3>1, <3>2
    <3>3. CASE r = j.row /\ j.delta > 0
      BY <2>2, <2>6, <3>1, <3>3
    <3>4. CASE r = j.row /\ ~(j.delta > 0)
      <4>1. j.delta < 0
        BY <2>2, <3>4
      <4>2. j.of = 0
        BY <2>2, <4>1 DEF Grounded, Directed
      <4>3. onHand[j.row] + j.delta >= 0
        BY <2>1, <4>2 DEF Admitted, IsReversal
      <4> QED BY <2>6, <3>4, <4>3
    <3> QED BY <3>2, <3>3, <3>4
  <2>8. EmptyInv'
    <3>1. /\ DOMAIN journal' = (DOMAIN journal) \cup {Len(journal) + 1}
          /\ \A m \in DOMAIN journal : journal'[m] = journal[m]
          /\ journal'[Len(journal) + 1] = e
      BY <2>1, <2>3, JournalGrows DEF AverageInv, CostingInv
    <3> SUFFICES ASSUME NEW r \in Rows,
                        \A m \in DOMAIN journal' : journal'[m].row = r => ~(journal'[m].delta > 0)
                 PROVE  onHand'[r] <= 0
      BY DEF EmptyInv
    <3>2. onHand[r] <= 0 /\ onHand[r] \in Int
      <4>1. \A m \in DOMAIN journal : journal[m].row = r => ~(journal[m].delta > 0)
        BY <3>1
      <4> QED BY <2>4, <4>1 DEF AverageInv, EmptyInv
    <3>3. r = j.row => ~(j.delta > 0)
      BY <2>5, <3>1
    <3> QED BY <2>2, <2>6, <3>2, <3>3
  <2> QED BY <2>7, <2>8
<1> QED BY <1>1, <1>2

(* What comes is blended into the average of its row, and stays between. *)
LEMMA BetweenStep ==
    ASSUME OnlyOutflowsReversed, AverageInv, BetweenInv, [Next]_vars
    PROVE  BetweenInv'
<1>1. CASE \A p \in Posters : ~Commit(p)
  BY <1>1, OnlyCommitPosts DEF BetweenInv, AverageInv
<1>2. ASSUME NEW p \in Posters, Commit(p) PROVE BetweenInv'
  <2> DEFINE j == posting[p]
             e == NewEntry(j)
             N == Len(journal) + 1
  <2>1. /\ j # Nothing /\ Admitted(j)
        /\ avgCost' = [avgCost EXCEPT ![j.row] = Blended(j)]
        /\ journal' = Append(journal, e)
    BY <1>2, CommitWrites
  <2>2. j.row \in Rows /\ j.delta \in Int \ {0} /\ j.unit \in Int \cup {NoCost}
    BY <2>1, PendingFields DEF AverageInv
  <2>3. e \in Entry
    BY <2>1, PostedWellFormed DEF AverageInv
  <2>4. onHand \in [Rows -> Int] /\ avgCost \in [Rows -> Int]
    BY DEF AverageInv, CostingInv, CostingTypeOK
  <2>5. /\ e.row = j.row /\ e.delta = j.delta /\ e.unit = Unit(j)
        /\ e.priced = (j.unit # NoCost)
    BY DEF NewEntry
  <2> HIDE DEF j, e, N
  <2>6. /\ DOMAIN journal' = (DOMAIN journal) \cup {N} /\ N \notin DOMAIN journal
        /\ \A m \in DOMAIN journal : journal'[m] = journal[m]
        /\ journal'[N] = e
    BY <2>1, <2>3, JournalGrows DEF AverageInv, CostingInv, N
  <2>7. ASSUME NEW r \in Rows, ~(r = j.row /\ j.delta > 0) PROVE Between(journal', r, avgCost'[r])
    <3>1. Came(journal', r) = Came(journal, r)
      BY <2>5, <2>6, <2>7 DEF Came
    <3>2. \A m \in Came(journal, r) : journal'[m] = journal[m]
      BY <2>6 DEF Came
    <3>3. avgCost'[r] = avgCost[r]
      <4>1. CASE r # j.row
        BY <2>1, <2>4, <4>1
      <4>2. CASE ~(j.delta > 0)
        <5>1. Blended(j) = avgCost[j.row]
          BY <4>2 DEF Blended
        <5> QED BY <2>1, <2>4, <5>1
      <4> QED BY <2>7, <4>1, <4>2
    <3>4. Between(journal, r, avgCost[r])
      BY DEF BetweenInv
    <3> QED BY <3>1, <3>2, <3>3, <3>4 DEF Between
  <2>8. ASSUME j.delta > 0 PROVE Between(journal', j.row, avgCost'[j.row])
    <3> DEFINE r == j.row
               C == Came(journal, r)
               a == avgCost[r]
               u == j.unit
               v == Blended(j)
    <3> SUFFICES ASSUME \A m \in Came(journal', r) : journal'[m].priced
                 PROVE  /\ \E m \in Came(journal', r) : journal'[m].unit <= v
                        /\ \E m \in Came(journal', r) : journal'[m].unit >= v
      BY <2>1, <2>2, <2>4 DEF Between
    <3>1. Came(journal', r) = C \cup {N} /\ N \notin C /\ \A m \in C : journal'[m] = journal[m]
      BY <2>5, <2>6, <2>8 DEF Came
    <3>2. u \in Int /\ e.unit = u
      <4>1. u # NoCost
        BY <2>5, <2>6, <3>1
      <4>2. Unit(j) = u
        BY <2>2, <2>8, <4>1 DEF Unit, Consumes, UnitCost
      <4> QED BY <2>2, <2>5, <4>1, <4>2
    <3>3. onHand[r] \in Nat /\ a \in Int /\ (C = {} => onHand[r] = 0)
      <4>1. onHand[r] \in Int /\ onHand[r] >= 0
        BY <2>2, <2>4 DEF AverageInv, StockInv
      <4>2. C = {} => onHand[r] <= 0
        BY <2>2 DEF AverageInv, EmptyInv, Came
      <4> QED BY <2>2, <2>4, <4>1, <4>2
    <3>4. v = Rounded(onHand[r] * a + j.delta * u, onHand[r] + j.delta)
      <4>1. UnitCost(j) = u /\ onHand[r] + j.delta > 0
        BY <2>2, <2>8, <3>2, <3>3, CostingAssumption DEF UnitCost
      <4> QED BY <2>8, <4>1 DEF Blended
    <3> HIDE DEF r, a, u, v, C
    <3>5. /\ v \in Int
          /\ u <= a => u <= v /\ v <= a
          /\ a <= u => a <= v /\ v <= u
          /\ onHand[r] = 0 => v = u
      <4> DEFINE old == onHand[r]
                 d == j.delta
      <4>1. d \in Nat \ {0} /\ old \in Nat /\ a \in Int /\ u \in Int
        BY <2>2, <2>8, <3>2, <3>3
      <4>2. v = Blend(old, a, d, u)
        BY <3>4 DEF Blend
      <4> HIDE DEF old, d
      <4>3. /\ v \in Int
            /\ u <= a => u <= v /\ v <= a
            /\ a <= u => a <= v /\ v <= u
            /\ old = 0 => v = u
        <5>1. LET b == Blend(old, a, d, u)
              IN  /\ b \in Int
                  /\ u <= a => u <= b /\ b <= a
                  /\ a <= u => a <= b /\ b <= u
                  /\ old = 0 => b = u
          BY <4>1, BlendBetween
        <5> QED BY <4>2, <5>1
      <4> QED BY <4>3 DEF old
    <3>6. N \in Came(journal', r) /\ journal'[N].unit = u
      BY <2>6, <3>1, <3>2
    <3>7. CASE C = {}
      <4>1. v = u
        BY <3>3, <3>5, <3>7
      <4> QED BY <3>2, <3>6, <4>1
    <3>8. CASE C # {}
      <4>1. (\E m \in C : journal[m].unit <= a) /\ (\E m \in C : journal[m].unit >= a)
        <5>1. Between(journal, r, a)
          BY <2>2 DEF BetweenInv, r, a
        <5>2. \A m \in C : journal[m].priced
          BY <3>1
        <5> QED BY <3>8, <5>1, <5>2 DEF Between, C
      <4>2. PICK lo \in C : journal[lo].unit <= a
        BY <4>1
      <4>3. PICK hi \in C : journal[hi].unit >= a
        BY <4>1
      <4>4. /\ lo \in Came(journal', r) /\ journal'[lo].unit <= a /\ journal'[lo].unit \in Int
            /\ hi \in Came(journal', r) /\ journal'[hi].unit >= a /\ journal'[hi].unit \in Int
        <5>1. lo \in DOMAIN journal /\ hi \in DOMAIN journal
          BY DEF C, Came
        <5>2. journal[lo].unit \in Int /\ journal[hi].unit \in Int
          BY <5>1, EntryFields DEF AverageInv, CostingInv
        <5> QED BY <3>1, <4>2, <4>3, <5>2
      <4>5. CASE u <= a
        <5>1. journal'[N].unit <= v
          BY <3>5, <3>6, <4>5
        <5>2. journal'[hi].unit >= v
          BY <3>3, <3>5, <4>4, <4>5
        <5> QED BY <3>6, <4>4, <5>1, <5>2
      <4>6. CASE a <= u
        <5>1. journal'[N].unit >= v
          BY <3>2, <3>5, <3>6, <4>6
        <5>2. journal'[lo].unit <= v
          BY <3>3, <3>5, <4>4, <4>6
        <5> QED BY <3>6, <4>4, <5>1, <5>2
      <4> QED BY <3>2, <3>3, <4>5, <4>6
    <3> QED BY <3>7, <3>8
  <2>9. \A r \in Rows : Between(journal', r, avgCost'[r])
    BY <2>7, <2>8
  <2> QED BY <2>9 DEF BetweenInv
<1> QED BY <1>1, <1>2

(* Stock is never negative where only outflows are reversed. *)
THEOREM StockInvariant == Spec => []AverageInv
<1>1. Init => AverageInv
  <2> SUFFICES ASSUME Init PROVE AverageInv
    OBVIOUS
  <2>1. StockInv /\ EmptyInv
    BY DEF Init, StockInv, EmptyInv
  <2> QED BY <2>1, CostingInvInit DEF AverageInv
<1>2. AverageInv /\ [Next]_vars => AverageInv'
  <2> SUFFICES ASSUME AverageInv, [Next]_vars PROVE AverageInv'
    OBVIOUS
  <2>1. CostingInv'
    BY CostingInvStep DEF AverageInv
  <2> QED BY <2>1, StockStep DEF AverageInv
<1> QED BY <1>1, <1>2, PTL DEF Spec

(* Where only outflows are reversed, the average of a row whose goods all      *)
(* came with a cost lies between the lowest and the highest of these.         *)
THEOREM AverageStaysBetween ==
    ASSUME OnlyOutflowsReversed
    PROVE  Spec => []AverageWithinCosts
<1>1. Init => BetweenInv
  BY DEF Init, BetweenInv, Between, Came
<1>2. AverageInv /\ BetweenInv /\ [Next]_vars => BetweenInv'
  BY BetweenStep
<1>3. BetweenInv => AverageWithinCosts
  BY DEF BetweenInv, Between, Came, AverageWithinCosts
<1> QED BY <1>1, <1>2, <1>3, StockInvariant, PTL DEF Spec

-----------------------------------------------------------------------------
(* The layers and the stock *)

(* Where the strategy does not change under way: requests have the strategy   *)
(* of the product, none is under way while it changes, and what a switch has   *)
(* found still holds when it is written.                                       *)
SwitchInv ==
    /\ \A p \in Posters : posting[p] # Nothing =>
           posting[p].strategy = policy /\ \A u \in Switchers : switching[u] = "none"
    /\ \A u \in Switchers : switching[u] \notin {"none", policy} => Total(onHand, Rows) <= 0

(* The stock of scope s, where f gives that of each row. *)
RowsOf(s) == { r \in Rows : ScopeOf[r] = s }
StockIn(f, s) == SumOver(f, RowsOf(s))

(* Under average cost the layers are used up. *)
CoverInv ==
    \A s \in Scopes : Left(layers[s]) = IF policy = "FIFO" THEN StockIn(onHand, s) ELSE 0

LayersInv == AverageInv /\ SwitchInv /\ CoverInv

(* No stock at all is no stock of any scope. *)
LEMMA NoStockAnywhere ==
    ASSUME AverageInv, OnlyOutflowsReversed, Total(onHand, Rows) <= 0, NEW s \in Scopes
    PROVE  StockIn(onHand, s) = 0
<1>1. IsFiniteSet(Rows)
  BY CostingAssumption
<1>2. \A r \in Rows : onHand[r] \in Nat
  BY DEF AverageInv, StockInv, CostingInv, CostingTypeOK
<1>3. \A r \in Rows : onHand[r] <= SumOver(onHand, Rows)
  BY <1>1, <1>2, SumNat
<1>4. SumOver(onHand, Rows) \in Nat /\ SumOver(onHand, Rows) <= 0
  BY <1>1, <1>2, SumNat, TotalIsSum
<1>5. \A r \in Rows : onHand[r] = 0
  BY <1>2, <1>3, <1>4
<1>6. IsFiniteSet(RowsOf(s)) /\ \A r \in RowsOf(s) : onHand[r] = 0
  BY <1>1, <1>5, FS_Subset DEF RowsOf
<1> QED BY <1>6, SumZero DEF StockIn

(* Stock of which d units came to row r. *)
Moved(old, new, r, d) == new = [old EXCEPT ![r] = @ + d]

(* A posting changes the stock of its own scope by what it moves. *)
LEMMA StockMoves ==
    ASSUME NEW old \in [Rows -> Int], NEW new \in [Rows -> Int], NEW r \in Rows, NEW d \in Int,
           Moved(old, new, r, d), NEW s
    PROVE  /\ StockIn(old, s) \in Int
           /\ StockIn(new, s) = StockIn(old, s) + (IF ScopeOf[r] = s THEN d ELSE 0)
<1> DEFINE S == RowsOf(s)
<1>1. IsFiniteSet(S) /\ S \subseteq Rows /\ (r \in S <=> ScopeOf[r] = s)
  BY CostingAssumption, FS_Subset DEF RowsOf
<1> HIDE DEF S
<1>2. (\A q \in S : old[q] \in Int) /\ (\A q \in S : new[q] \in Int)
  BY <1>1
<1>3. SumOver(old, S) \in Int
  BY <1>1, <1>2, SumInt
<1>4. (\A q \in S \ {r} : old[q] = new[q]) /\ new[r] = old[r] + d /\ old[r] \in Int
  BY <1>1 DEF Moved
<1>5. CASE r \in S
  <2>1. /\ SumOver(old, S) = old[r] + SumOver(old, S \ {r})
        /\ SumOver(new, S) = new[r] + SumOver(new, S \ {r})
    BY <1>1, <1>2, <1>5, SumRemove
  <2>2. IsFiniteSet(S \ {r}) /\ \A q \in S \ {r} : old[q] \in Int
    BY <1>1, <1>2, FS_Subset
  <2>3. SumOver(old, S \ {r}) = SumOver(new, S \ {r}) /\ SumOver(old, S \ {r}) \in Int
    BY <1>4, <2>2, SumSame, SumInt
  <2>4. SumOver(new, S) = SumOver(old, S) + d
    BY <1>3, <1>4, <2>1, <2>3
  <2> QED BY <1>1, <1>3, <1>5, <2>4 DEF StockIn, S
<1>6. CASE r \notin S
  <2>1. \A q \in S : old[q] = new[q]
    BY <1>4, <1>6
  <2>2. SumOver(old, S) = SumOver(new, S)
    BY <1>1, <2>1, SumSame
  <2> QED BY <1>1, <1>3, <1>6, <2>2 DEF StockIn, S
<1> QED BY <1>5, <1>6

(* Under FIFO a posting changes the layers by as much, under average cost it  *)
(* leaves them alone.                                                         *)
LEMMA LayersMove ==
    ASSUME CostingInv, OnlyOutflowsReversed,
           NEW p \in Posters, posting[p] # Nothing, NEW j, j = posting[p], Admitted(j)
    PROVE  /\ Left(layers[ScopeOf[j.row]]) \in Int
           /\ Left(NewLayers(j)) =
                  Left(layers[ScopeOf[j.row]]) + (IF j.strategy = "FIFO" THEN j.delta ELSE 0)
<1> DEFINE ls == layers[ScopeOf[j.row]]
<1>1. /\ ls \in Seq(Layer) /\ j.delta \in Int \ {0} /\ Grounded(j, journal) /\ Len(journal) \in Nat
  BY PendingFields
<1>2. /\ Consumes(j) => /\ -j.delta \in Nat
                        /\ -j.delta <= Left(ls)
      /\ Opens(j) => /\ Parts(j) \in Seq(Part)
                     /\ Units(Parts(j)) = j.delta
  BY PostedWellFormed
<1> HIDE DEF ls
<1>3. Left(ls) \in Int
  <2>1. Len(ls) + 1 \in 1 .. Len(ls) + 1
    BY <1>1
  <2> QED BY <1>1, <2>1, BeforeAdds
<1>4. CASE Consumes(j)
  <2> DEFINE need == -j.delta
  <2>1. need \in Nat /\ need <= Left(ls) /\ j.strategy = "FIFO" /\ NewLayers(j) = Consumed(ls, need)
    BY <1>2, <1>4 DEF Consumes, NewLayers, ls
  <2> HIDE DEF need
  <2>2. Left(Consumed(ls, need)) = Left(ls) - need
    BY <1>1, <2>1, ConsumedLeft DEF Lesser
  <2>3. Left(ls) - need = Left(ls) + j.delta
    BY <1>1, <1>3 DEF need
  <2> QED BY <1>3, <2>1, <2>2, <2>3 DEF ls
<1>5. CASE ~Consumes(j) /\ Opens(j)
  <2> DEFINE m == Len(journal) + 1
  <2>1. NewLayers(j) = ls \o Opened(Parts(j), m) /\ j.strategy = "FIFO"
    BY <1>5 DEF NewLayers, Opens, ls
  <2>2. m \in Nat
    BY <1>1
  <2> HIDE DEF m
  <2>3. Left(ls \o Opened(Parts(j), m)) = Left(ls) + Units(Parts(j))
    BY <1>1, <1>2, <1>5, <2>2, OpenedLeft
  <2> QED BY <1>2, <1>3, <1>5, <2>1, <2>3 DEF ls
<1>6. CASE ~Consumes(j) /\ ~Opens(j)
  <2>1. j.strategy # "FIFO"
    BY <1>1, <1>6 DEF Consumes, Opens, Grounded, Directed
  <2> QED BY <1>3, <1>6, <2>1 DEF NewLayers, ls
<1> QED BY <1>4, <1>5, <1>6

(* Each step keeps the strategy and the switches in line .. *)
LEMMA SwitchStep ==
    ASSUME ~SwitchUnderWay, CostingInv, SwitchInv, [Next]_vars
    PROVE  SwitchInv'
<1>0. /\ DOMAIN posting = Posters /\ switching \in [Switchers -> Strategies \cup {"none"}]
      /\ policy \in Strategies
  BY DEF CostingInv, CostingTypeOK
<1>1. CASE UNCHANGED vars
  <2>1. /\ posting' = posting /\ policy' = policy /\ switching' = switching
        /\ Total(onHand', Rows) = Total(onHand, Rows)
    BY <1>1 DEF vars
  <2> QED BY <2>1 DEF SwitchInv, Nothing
<1>2. ASSUME NEW p \in Posters, Begin(p) PROVE SwitchInv'
  <2>1. \A u \in Switchers : switching[u] = "none"
    BY <1>2 DEF Begin
  <2>2. \A q \in Posters : posting'[q] # Nothing => posting'[q] = posting[q] \/ posting'[q].strategy = policy
    BY <1>0, <1>2 DEF Begin
  <2>3. \A q \in Posters : posting'[q] # Nothing => posting'[q].strategy = policy
    BY <1>0, <2>2 DEF SwitchInv
  <2>4. policy' = policy /\ switching' = switching
    BY <1>2 DEF Begin
  <2> QED BY <2>1, <2>3, <2>4 DEF SwitchInv, Nothing
<1>3. ASSUME NEW p \in Posters, Commit(p) \/ Refuse(p) PROVE SwitchInv'
  <2>1. /\ posting' = [posting EXCEPT ![p] = Nothing] /\ posting[p] # Nothing
        /\ policy' = policy /\ switching' = switching
    BY <1>3, CommitWrites DEF Refuse
  <2>2. \A u \in Switchers : switching[u] = "none"
    BY <2>1 DEF SwitchInv
  <2>3. \A q \in Posters : posting'[q] # Nothing => posting'[q] = posting[q]
    BY <1>0, <2>1
  <2> QED BY <2>1, <2>2, <2>3 DEF SwitchInv, Nothing
<1>4. ASSUME NEW u \in Switchers, WriteSwitch(u) PROVE SwitchInv'
  <2>1. \A p \in Posters : posting[p] = Nothing
    BY <1>4 DEF WriteSwitch, SwitchInv
  <2>2. onHand' = onHand /\ posting' = posting /\ policy' = switching[u]
    BY <1>4 DEF WriteSwitch
  <2>3. ASSUME NEW w \in Switchers, switching'[w] \notin {"none", policy'}
        PROVE  Total(onHand, Rows) <= 0
    <3>1. w # u /\ switching[w] \notin {"none", switching[u]} /\ switching[u] # "none"
      BY <1>0, <1>4, <2>2, <2>3 DEF WriteSwitch
    <3>2. switching[w] # policy \/ switching[u] # policy
      BY <3>1
    <3> QED BY <3>1, <3>2 DEF SwitchInv
  <2>4. Total(onHand', Rows) = Total(onHand, Rows)
    BY <2>2
  <2> QED BY <2>1, <2>2, <2>3, <2>4 DEF SwitchInv, Nothing
<1>5. ASSUME NEW u \in Switchers, NEW to \in Strategies, CheckSwitch(u, to) PROVE SwitchInv'
  <2>1. \A p \in Posters : posting[p] = Nothing
    BY <1>5 DEF CheckSwitch
  <2>2. onHand' = onHand /\ posting' = posting /\ policy' = policy
    BY <1>5 DEF CheckSwitch
  <2>3. ASSUME NEW w \in Switchers, switching'[w] \notin {"none", policy}
        PROVE  Total(onHand, Rows) <= 0
    <3>1. CASE w = u
      BY <1>0, <1>5, <2>3, <3>1 DEF CheckSwitch, MaySwitch
    <3>2. CASE w # u
      BY <1>0, <1>5, <2>3, <3>2 DEF CheckSwitch, SwitchInv
    <3> QED BY <3>1, <3>2
  <2>4. Total(onHand', Rows) = Total(onHand, Rows)
    BY <2>2
  <2> QED BY <2>1, <2>2, <2>3, <2>4 DEF SwitchInv, Nothing
<1> QED BY <1>1, <1>2, <1>3, <1>4, <1>5 DEF Next

(* .. and the layers in line with the stock. *)
LEMMA CoverStep ==
    ASSUME OnlyOutflowsReversed, LayersInv, [Next]_vars
    PROVE  CoverInv'
<1>1. ASSUME NEW p \in Posters, Commit(p) PROVE CoverInv'
  <2> DEFINE j == posting[p]
             t == ScopeOf[j.row]
  <2>1. /\ j # Nothing /\ Admitted(j)
        /\ onHand' = [onHand EXCEPT ![j.row] = @ + j.delta]
        /\ layers' = [layers EXCEPT ![t] = NewLayers(j)]
        /\ policy' = policy
    BY <1>1, CommitWrites
  <2>2. j.row \in Rows /\ j.delta \in Int /\ t \in Scopes
    BY <2>1, PendingFields DEF LayersInv, AverageInv
  <2>3. /\ Left(layers[t]) \in Int
        /\ Left(NewLayers(j)) = Left(layers[t]) + (IF j.strategy = "FIFO" THEN j.delta ELSE 0)
    BY <2>1, LayersMove DEF LayersInv, AverageInv
  <2>4. j.strategy = policy
    BY <2>1 DEF LayersInv, SwitchInv
  <2>5. onHand \in [Rows -> Int] /\ onHand' \in [Rows -> Int] /\ DOMAIN layers = Scopes
    BY <2>1, <2>2 DEF LayersInv, AverageInv, CostingInv, CostingTypeOK
  <2> HIDE DEF j
  <2>6. ASSUME NEW s
        PROVE  /\ StockIn(onHand, s) \in Int
               /\ StockIn(onHand', s) = StockIn(onHand, s) + (IF t = s THEN j.delta ELSE 0)
    <3>1. Moved(onHand, onHand', j.row, j.delta)
      BY <2>1 DEF Moved
    <3> QED BY <2>2, <2>5, <3>1, StockMoves
  <2>8. ASSUME NEW s \in Scopes
        PROVE  Left(layers'[s]) = IF policy = "FIFO" THEN StockIn(onHand', s) ELSE 0
    <3>1. Left(layers[s]) = IF policy = "FIFO" THEN StockIn(onHand, s) ELSE 0
      BY DEF LayersInv, CoverInv
    <3>2. CASE s = t
      <4>1. Left(layers'[s]) = Left(layers[t]) + (IF policy = "FIFO" THEN j.delta ELSE 0)
        BY <2>1, <2>2, <2>3, <2>4, <2>5, <3>2
      <4>2. StockIn(onHand', s) = StockIn(onHand, s) + j.delta
        BY <2>6, <3>2
      <4> QED BY <2>3, <3>1, <3>2, <4>1, <4>2
    <3>3. CASE s # t
      <4>1. Left(layers'[s]) = Left(layers[s])
        BY <2>1, <2>5, <3>3
      <4>2. StockIn(onHand', s) = StockIn(onHand, s)
        BY <2>2, <2>6, <3>3
      <4> QED BY <3>1, <4>1, <4>2
    <3> QED BY <3>2, <3>3
  <2> QED BY <2>1, <2>8 DEF CoverInv, Scopes
<1>2. CASE \A p \in Posters : ~Commit(p)
  <2>1. UNCHANGED << onHand, avgCost, layers, journal >>
    BY <1>2, OnlyCommitPosts DEF LayersInv, AverageInv
  <2>2. \A s : StockIn(onHand', s) = StockIn(onHand, s)
    BY <2>1
  <2>3. CASE policy' = policy
    <3>1. \A s \in Scopes : Left(layers'[s]) = IF policy' = "FIFO" THEN StockIn(onHand', s) ELSE 0
      BY <2>1, <2>2, <2>3 DEF LayersInv, CoverInv
    <3> QED BY <3>1 DEF CoverInv, Scopes
  <2>4. CASE policy' # policy
    <3>1. PICK u \in Switchers : WriteSwitch(u)
      BY <1>2, <2>4 DEF Next, vars, Begin, Refuse, CheckSwitch
    <3>2. Total(onHand, Rows) <= 0
      BY <2>4, <3>1 DEF WriteSwitch, LayersInv, SwitchInv
    <3>3. \A s \in Scopes : StockIn(onHand, s) = 0
      BY <3>2, NoStockAnywhere DEF LayersInv
    <3>4. \A s \in Scopes : Left(layers'[s]) = IF policy' = "FIFO" THEN StockIn(onHand', s) ELSE 0
      BY <2>1, <2>2, <3>3 DEF LayersInv, CoverInv
    <3> QED BY <3>4 DEF CoverInv, Scopes
  <2> QED BY <2>3, <2>4
<1> QED BY <1>1, <1>2

(* Where the strategy does not change under way and only outflows are         *)
(* reversed, under FIFO the layers of a scope are exactly its stock.          *)
THEOREM LayersAreTheStock ==
    ASSUME OnlyOutflowsReversed, ~SwitchUnderWay
    PROVE  Spec => []LayersCoverStock
<1>1. Init => SwitchInv /\ CoverInv
  <2> SUFFICES ASSUME Init PROVE SwitchInv /\ CoverInv
    OBVIOUS
  <2>1. SwitchInv
    BY DEF Init, SwitchInv
  <2>2. Left(<< >>) = 0
    <3>1. DOMAIN << >> = {}
      OBVIOUS
    <3> QED BY <3>1, TotalIsSum, SumEmpty DEF Left
  <2> QED BY <2>1, <2>2 DEF Init, CoverInv
<1>2. AverageInv /\ SwitchInv /\ CoverInv /\ [Next]_vars => SwitchInv' /\ CoverInv'
  BY SwitchStep, CoverStep DEF LayersInv, AverageInv
<1>3. CoverInv => LayersCoverStock
  <2>1. \A s : StockOf(s) = StockIn(onHand, s)
    BY TotalIsSum DEF StockOf, StockIn, RowsOf
  <2> QED BY <2>1 DEF CoverInv, LayersCoverStock
<1> QED BY <1>1, <1>2, <1>3, StockInvariant, PTL DEF Spec
=============================================================================
