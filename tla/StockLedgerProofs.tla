--------------------------- MODULE StockLedgerProofs ---------------------------
(***************************************************************************)
(* What the ledger makes of the lines of a command: Posted, a fold over a   *)
(* sequence, unfolded into its steps, and what every step keeps of the      *)
(* balance.                                                                 *)
(***************************************************************************)
EXTENDS StockLedger, Sums

-----------------------------------------------------------------------------
(* The recursive function inside the fold: a set of places of lines is       *)
(* posted after all of it but the last.                                      *)
Folds(lines, bal, S, h) ==
    h = [s \in SUBSET S |->
            IF s = {} THEN [ok |-> TRUE, bal |-> bal]
            ELSE PostLine(h[s \ {Max(s)}], lines[Max(s)])]

(* A fold is what its recursive function gives for all lines. *)
LEMMA PostedIsFolding ==
    ASSUME NEW lines
    PROVE  Posted(lines) = (CHOOSE h : Folds(lines, balance, DOMAIN lines, h))[DOMAIN lines]
BY DEF Posted, FoldLeft, MapThenFoldSet, Folds

(* A set of numbers up to n that is not empty has a greatest. *)
LEMMA MaxOfSet ==
    ASSUME NEW n \in Nat, NEW s \in SUBSET (1 .. n), s # {}
    PROVE  Max(s) \in s /\ \A y \in s : Max(s) >= y
<1> DEFINE T == { n - y : y \in s }
<1>1. T \subseteq Nat /\ T # {}
  <2>1. \A y \in s : n - y \in Nat
    OBVIOUS
  <2>2. T \subseteq Nat
    BY <2>1
  <2> QED BY <2>2
<1>2. PICK d \in T : \A e \in T : d <= e
  <2> HIDE DEF T
  <2> QED BY <1>1, LeastNatural
<1>3. PICK x \in s : d = n - x
  OBVIOUS
<1>4. ASSUME NEW y \in s PROVE x >= y
  <2>1. n - y \in T
    OBVIOUS
  <2>2. d <= n - y
    BY <1>2, <2>1
  <2> QED BY <1>3, <2>2
<1>5. \E z \in s : \A y \in s : z >= y
  BY <1>4
<1> QED BY <1>5 DEF Max

(* A finite set whose subsets have greatest elements. *)
Ordered(S) == IsFiniteSet(S) /\ \A s \in SUBSET S : s # {} => Max(s) \in s

(* So has an interval, and every subset of such a set. *)
LEMMA IntervalOrdered ==
    ASSUME NEW n \in Nat
    PROVE  Ordered(1 .. n) /\ \A T \in SUBSET (1 .. n) : Ordered(T)
<1>1. IsFiniteSet(1 .. n)
  BY FS_Interval
<1>2. \A T \in SUBSET (1 .. n) : IsFiniteSet(T)
  BY <1>1, FS_Subset
<1> QED BY <1>1, <1>2, MaxOfSet DEF Ordered

(* Two functions that post agree wherever both are defined. *)
LEMMA FoldingUnique ==
    ASSUME NEW lines, NEW bal, NEW S, NEW T, T \subseteq S, Ordered(T),
           NEW g, NEW h, Folds(lines, bal, S, g), Folds(lines, bal, T, h)
    PROVE  g[T] = h[T]
<1> DEFINE Q == { s \in SUBSET T : g[s] # h[s] }
<1>1. Q = {}
  <2> SUFFICES ASSUME Q # {} PROVE FALSE
    OBVIOUS
  <2>1. PICK s \in Q : \A u \in Q : u \subseteq s => u = s
    <3>1. Q \in SUBSET SUBSET T /\ IsFiniteSet(T)
      BY DEF Ordered
    <3> HIDE DEF Q
    <3> QED BY <3>1, SmallestSubset
  <2>2. s \in SUBSET T /\ s \in SUBSET S /\ g[s] # h[s]
    BY <2>1
  <2>3. s # {}
    BY <2>2 DEF Folds
  <2>4. Max(s) \in s
    BY <2>2, <2>3 DEF Ordered
  <2>5. s \ {Max(s)} \notin Q /\ s \ {Max(s)} \in SUBSET T
    BY <2>1, <2>4
  <2>6. g[s \ {Max(s)}] = h[s \ {Max(s)}]
    BY <2>5
  <2>7. g[s] = PostLine(g[s \ {Max(s)}], lines[Max(s)])
    BY <2>2, <2>3 DEF Folds
  <2>8. h[s] = PostLine(h[s \ {Max(s)}], lines[Max(s)])
    BY <2>2, <2>3 DEF Folds
  <2> QED BY <2>2, <2>6, <2>7, <2>8
<1> QED BY <1>1

(* There is such a function. *)
LEMMA FoldingExists ==
    ASSUME NEW lines, NEW bal, NEW S, Ordered(S)
    PROVE  \E h : Folds(lines, bal, S, h)
<1> DEFINE Q == { T \in SUBSET S : ~\E h : Folds(lines, bal, T, h) }
           G(T) == CHOOSE h : Folds(lines, bal, T, h)
<1>1. Q = {}
  <2> SUFFICES ASSUME Q # {} PROVE FALSE
    OBVIOUS
  <2>1. PICK T \in Q : \A U \in Q : U \subseteq T => U = T
    <3>1. Q \in SUBSET SUBSET S /\ IsFiniteSet(S)
      BY DEF Ordered
    <3> HIDE DEF Q
    <3> QED BY <3>1, SmallestSubset
  <2>2. ASSUME NEW U \in SUBSET T, U # T PROVE Folds(lines, bal, U, G(U))
    <3>1. U \notin Q /\ U \in SUBSET S
      BY <2>1, <2>2
    <3>2. \E h : Folds(lines, bal, U, h)
      BY <3>1
    <3> QED BY <3>2
  <2>3. ASSUME NEW U \in SUBSET T, U # T
        PROVE  G(U)[U] = IF U = {} THEN [ok |-> TRUE, bal |-> bal]
                         ELSE PostLine(G(U \ {Max(U)})[U \ {Max(U)}], lines[Max(U)])
    <3>1. CASE U = {}
      <4> HIDE DEF G
      <4> QED BY <2>2, <2>3, <3>1 DEF Folds
    <3>2. CASE U # {}
      <4> DEFINE W == U \ {Max(U)}
      <4>1. W \in SUBSET T /\ W # T /\ W \subseteq U /\ Ordered(W)
        <5>1. Max(U) \in U
          BY <2>3, <3>2 DEF Ordered
        <5>2. W \in SUBSET S
          BY <2>3
        <5>3. Ordered(W)
          BY <5>2, FS_Subset DEF Ordered
        <5> QED BY <2>3, <5>1, <5>3
      <4>2. Folds(lines, bal, U, G(U)) /\ Folds(lines, bal, W, G(W))
        BY <2>2, <2>3, <4>1
      <4> HIDE DEF G, W
      <4>3. G(U)[W] = G(W)[W]
        BY <4>1, <4>2, FoldingUnique
      <4>4. G(U)[U] = PostLine(G(U)[W], lines[Max(U)])
        BY <3>2, <4>2 DEF Folds, W
      <4> QED BY <3>2, <4>3, <4>4 DEF W
    <3> QED BY <3>1, <3>2
  <2> DEFINE h == [s \in SUBSET T |->
                      IF s = {} THEN [ok |-> TRUE, bal |-> bal]
                      ELSE PostLine(G(s \ {Max(s)})[s \ {Max(s)}], lines[Max(s)])]
  <2>4. ASSUME NEW s \in SUBSET T, s # {}
        PROVE  h[s \ {Max(s)}] = G(s \ {Max(s)})[s \ {Max(s)}]
    <3>1. s \ {Max(s)} \in SUBSET T /\ s \ {Max(s)} # T
      BY <2>1, <2>4 DEF Ordered
    <3> HIDE DEF G
    <3> QED BY <2>3, <3>1
  <2>5. Folds(lines, bal, T, h)
    <3> HIDE DEF G
    <3> QED BY <2>4, Zenon DEF Folds
  <2> QED BY <2>1, <2>5
<1> QED BY <1>1

-----------------------------------------------------------------------------
(* acc[n] is what the first n lines make of the balance bal, and whether all *)
(* of them were admissible.                                                  *)
Accumulates(lines, bal, acc) ==
    /\ acc[0] = [ok |-> TRUE, bal |-> bal]
    /\ \A n \in 1 .. Len(lines) : acc[n] = PostLine(acc[n - 1], lines[n])

(* Posted is what the lines make of the balance one after the other. *)
LEMMA PostedSteps ==
    ASSUME NEW lines, Len(lines) \in Nat, DOMAIN lines = 1 .. Len(lines)
    PROVE  \E acc : Accumulates(lines, balance, acc) /\ Posted(lines) = acc[Len(lines)]
<1> DEFINE N == Len(lines)
           h == CHOOSE g : Folds(lines, balance, 1 .. N, g)
           acc == [n \in 0 .. N |-> h[1 .. n]]
<1>1. Folds(lines, balance, 1 .. N, h)
  BY IntervalOrdered, FoldingExists
<1>2. Posted(lines) = h[1 .. N]
  BY PostedIsFolding
<1> HIDE DEF h
<1>3. acc[0] = [ok |-> TRUE, bal |-> balance]
  BY <1>1 DEF Folds
<1>4. ASSUME NEW n \in 1 .. N PROVE acc[n] = PostLine(acc[n - 1], lines[n])
  <2> DEFINE s == 1 .. n
  <2>1. n \in Nat /\ n - 1 \in Nat /\ n - 1 \in 0 .. N /\ n \in 0 .. N /\ n \in s
    OBVIOUS
  <2>2. Max(s) = n
    <3>1. Max(s) \in s /\ \A y \in s : Max(s) >= y
      BY <2>1, MaxOfSet
    <3>2. Max(s) >= n /\ Max(s) \in 1 .. n
      BY <2>1, <3>1
    <3> QED BY <2>1, <3>2
  <2>3. s \ {n} = 1 .. n - 1
    BY <2>1
  <2>4. s \in SUBSET (1 .. N) /\ s # {}
    <3>1. n <= N /\ N \in Nat
      OBVIOUS
    <3>2. \A k \in 1 .. n : k \in 1 .. N
      BY <2>1, <3>1
    <3> QED BY <2>1, <3>2
  <2> HIDE DEF s
  <2>5. h[s] = PostLine(h[s \ {Max(s)}], lines[Max(s)])
    BY <1>1, <2>4 DEF Folds
  <2>6. acc[n] = h[s] /\ acc[n - 1] = h[1 .. n - 1]
    BY <2>1 DEF s
  <2> QED BY <2>2, <2>3, <2>5, <2>6
<1>5. acc[N] = h[1 .. N]
  OBVIOUS
<1> HIDE DEF acc
<1>6. Accumulates(lines, balance, acc)
  BY <1>3, <1>4 DEF Accumulates
<1> QED BY <1>2, <1>5, <1>6

-----------------------------------------------------------------------------
Balances == [Grains -> Row]

(* A line that can be posted, admissible or not. *)
PostableLine(line) == line.grain \in Grains /\ LineDeltas(line) \in Row

(* What line k does to bucket b of row g. *)
EffectOn(lines, g, b) ==
    [k \in DOMAIN lines |-> IF lines[k].grain = g THEN LineDeltas(lines[k])[b] ELSE 0]

(* Moving a row by deltas. *)
LEMMA AddDeltasRow ==
    ASSUME NEW row \in Row, NEW delta \in Row
    PROVE  /\ AddDeltas(row, delta) \in Row
           /\ \A b \in Buckets : AddDeltas(row, delta)[b] = row[b] + delta[b]
BY DEF AddDeltas, Row

(* One line: it moves its row by its deltas and no other, and a row it moves  *)
(* stays at or above zero unless the line may go below.                      *)
LEMMA PostLineMoves ==
    ASSUME NEW a, a = [ok |-> a.ok, bal |-> a.bal], a.ok \in BOOLEAN, a.bal \in Balances,
           NEW line, PostableLine(line), NEW z, z = PostLine(a, line)
    PROVE  /\ z = [ok |-> z.ok, bal |-> z.bal] /\ z.ok \in BOOLEAN /\ z.bal \in Balances
           /\ z.ok => /\ a.ok
                      /\ \A g \in Grains, b \in Buckets :
                            /\ z.bal[g][b] = a.bal[g][b]
                                   + (IF line.grain = g THEN LineDeltas(line)[b] ELSE 0)
                            /\ line.grain = g /\ ~line.allowNegative => z.bal[g][b] >= 0
<1> DEFINE g0 == line.grain
           d == LineDeltas(line)
           new == AddDeltas(a.bal[g0], d)
<1>1. g0 \in Grains /\ d \in Row /\ a.bal[g0] \in Row
  BY DEF PostableLine, Balances
<1>2. /\ new \in Row
      /\ \A b \in Buckets : new[b] = a.bal[g0][b] + d[b]
  BY <1>1, AddDeltasRow
<1>3. CASE a.ok /\ Admissible(a.bal[g0], line)
  <2>1. z = [a EXCEPT !.bal[g0] = new]
    BY <1>3 DEF PostLine
  <2>2. z = [ok |-> TRUE, bal |-> [a.bal EXCEPT ![g0] = new]]
    BY <1>3, <2>1
  <2>3. \A b \in Buckets : ~line.allowNegative => new[b] >= 0
    <3>1. /\ line.qty > 0 /\ (new["onHand"] < 0 => line.allowNegative)
          /\ \A b \in Buckets \ {"onHand"} : new[b] >= 0
      BY <1>3 DEF Admissible
    <3>2. "onHand" \in Buckets /\ new["onHand"] \in Int
      BY <1>2 DEF Buckets, Row
    <3> HIDE DEF new
    <3> QED BY <3>1, <3>2
  <2> HIDE DEF new, d, g0
  <2>4. /\ z.ok /\ z.bal \in Balances
        /\ z.bal[g0] = new /\ \A g \in Grains : g # g0 => z.bal[g] = a.bal[g]
    BY <1>1, <1>2, <2>2 DEF Balances
  <2>5. ASSUME NEW g \in Grains, NEW b \in Buckets
        PROVE  /\ z.bal[g][b] = a.bal[g][b] + (IF g0 = g THEN d[b] ELSE 0)
               /\ g0 = g /\ ~line.allowNegative => z.bal[g][b] >= 0
    <3>1. a.bal[g][b] \in Int
      BY DEF Balances, Row
    <3> QED BY <1>2, <2>3, <2>4, <3>1
  <2> QED BY <1>3, <2>2, <2>4, <2>5 DEF g0, d
<1>4. CASE ~(a.ok /\ Admissible(a.bal[g0], line))
  <2>1. z = [a EXCEPT !.ok = FALSE]
    BY <1>4 DEF PostLine
  <2>2. z = [ok |-> FALSE, bal |-> a.bal]
    BY <2>1
  <2> QED BY <2>2
<1> QED BY <1>3, <1>4

(* All lines: the balances stay balances; if every line was admissible, each *)
(* row moves by what the lines do to it, and none below zero that was not,   *)
(* unless a line may.                                                        *)
LEMMA PostedMoves ==
    ASSUME balance \in Balances,
           NEW lines, Len(lines) \in Nat, DOMAIN lines = 1 .. Len(lines),
           \A k \in 1 .. Len(lines) : PostableLine(lines[k])
    PROVE  /\ Posted(lines).ok \in BOOLEAN /\ Posted(lines).bal \in Balances
           /\ Posted(lines).ok =>
                 \A g \in Grains, b \in Buckets :
                    /\ Posted(lines).bal[g][b] =
                           balance[g][b] + SumOver(EffectOn(lines, g, b), 1 .. Len(lines))
                    /\ (\A k \in 1 .. Len(lines) : ~lines[k].allowNegative) /\ balance[g][b] >= 0
                           => Posted(lines).bal[g][b] >= 0
<1> DEFINE N == Len(lines)
           bal == balance
<1>1. PICK acc : Accumulates(lines, bal, acc) /\ Posted(lines) = acc[N]
  BY PostedSteps
<1> HIDE DEF bal
<1> DEFINE E(g, b) == EffectOn(lines, g, b)
           Good(n) ==
               /\ acc[n] = [ok |-> acc[n].ok, bal |-> acc[n].bal]
               /\ acc[n].ok \in BOOLEAN /\ acc[n].bal \in Balances
               /\ acc[n].ok =>
                     \A g \in Grains, b \in Buckets :
                        /\ acc[n].bal[g][b] = bal[g][b] + SumOver(E(g, b), 1 .. n)
                        /\ (\A k \in 1 .. N : ~lines[k].allowNegative) /\ bal[g][b] >= 0
                               => acc[n].bal[g][b] >= 0
           Q == { n \in 0 .. N : ~Good(n) }
<1>2. N \in Nat /\ DOMAIN lines = 1 .. N /\ \A k \in 1 .. N : PostableLine(lines[k])
  OBVIOUS
<1>3. bal \in Balances
  BY DEF bal
<1> HIDE DEF N
<1>4. \A g \in Grains, b \in Buckets : \A k \in 1 .. N : E(g, b)[k] \in Int
  BY <1>2 DEF EffectOn, PostableLine, Row
<1>5. Good(0)
  <2>1. acc[0] = [ok |-> TRUE, bal |-> bal]
    BY <1>1 DEF Accumulates
  <2>2. \A g \in Grains, b \in Buckets : SumOver(E(g, b), 1 .. 0) = 0
    <3>1. 1 .. 0 = {}
      OBVIOUS
    <3> QED BY <3>1, SumEmpty
  <2>3. \A g \in Grains, b \in Buckets : bal[g][b] \in Int
    BY <1>3 DEF Balances, Row
  <2> HIDE DEF E
  <2> QED BY <1>3, <2>1, <2>2, <2>3
<1>6. ASSUME NEW n \in 1 .. N, Good(n - 1) PROVE Good(n)
  <2> DEFINE a == acc[n - 1]
             z == acc[n]
             line == lines[n]
  <2>1. PostableLine(line) /\ z = PostLine(a, line)
    BY <1>1, <1>2 DEF Accumulates, N
  <2>2. /\ a = [ok |-> a.ok, bal |-> a.bal] /\ a.ok \in BOOLEAN /\ a.bal \in Balances
        /\ a.ok => \A g \in Grains, b \in Buckets :
                      /\ a.bal[g][b] = bal[g][b] + SumOver(E(g, b), 1 .. n - 1)
                      /\ (\A k \in 1 .. N : ~lines[k].allowNegative) /\ bal[g][b] >= 0
                             => a.bal[g][b] >= 0
    BY <1>6
  <2>3. \A g \in Grains, b \in Buckets :
           /\ SumOver(E(g, b), 1 .. n) = SumOver(E(g, b), 1 .. n - 1) + E(g, b)[n]
           /\ SumOver(E(g, b), 1 .. n - 1) \in Int
           /\ E(g, b)[n] = (IF line.grain = g THEN LineDeltas(line)[b] ELSE 0)
    <3> SUFFICES ASSUME NEW g \in Grains, NEW b \in Buckets
                 PROVE  /\ SumOver(E(g, b), 1 .. n) = SumOver(E(g, b), 1 .. n - 1) + E(g, b)[n]
                        /\ SumOver(E(g, b), 1 .. n - 1) \in Int
                        /\ E(g, b)[n] = (IF line.grain = g THEN LineDeltas(line)[b] ELSE 0)
      OBVIOUS
    <3> DEFINE f == E(g, b)
    <3>1. f[n] = (IF line.grain = g THEN LineDeltas(line)[b] ELSE 0)
      BY <1>2 DEF EffectOn
    <3>2. n \in Nat /\ n - 1 \in Nat /\ \A k \in 1 .. n : f[k] \in Int
      BY <1>2, <1>4
    <3> HIDE DEF f
    <3>3. IsFiniteSet(1 .. n) /\ n \in 1 .. n /\ (1 .. n) \ {n} = 1 .. n - 1 /\ IsFiniteSet(1 .. n - 1)
      <4>1. IsFiniteSet(1 .. n) /\ IsFiniteSet(1 .. n - 1)
        BY <3>2, FS_Interval
      <4> QED BY <3>2, <4>1
    <3>4. SumOver(f, 1 .. n) = f[n] + SumOver(f, (1 .. n) \ {n})
      BY <3>2, <3>3, SumRemove
    <3>5. SumOver(f, 1 .. n - 1) \in Int
      BY <3>2, <3>3, SumInt
    <3>6. f[n] \in Int
      BY <1>2, <3>2
    <3>7. SumOver(f, 1 .. n) = SumOver(f, 1 .. n - 1) + f[n]
      <4> DEFINE x == SumOver(f, 1 .. n - 1)
                 y == SumOver(f, 1 .. n)
                 u == f[n]
      <4>1. y = u + x
        BY <3>3, <3>4
      <4>2. x \in Int /\ u \in Int
        BY <3>5, <3>6
      <4> HIDE DEF x, y, u
      <4>3. y = x + u
        BY <4>1, <4>2
      <4> QED BY <4>3 DEF x, y, u
    <3> QED BY <3>1, <3>5, <3>7 DEF f
  <2> HIDE DEF a, z, line, E
  <2>4. /\ z = [ok |-> z.ok, bal |-> z.bal] /\ z.ok \in BOOLEAN /\ z.bal \in Balances
        /\ z.ok => /\ a.ok
                   /\ \A g \in Grains, b \in Buckets :
                         /\ z.bal[g][b] = a.bal[g][b]
                                + (IF line.grain = g THEN LineDeltas(line)[b] ELSE 0)
                         /\ line.grain = g /\ ~line.allowNegative => z.bal[g][b] >= 0
    BY <2>1, <2>2, PostLineMoves
  <2>5. ASSUME z.ok, NEW g \in Grains, NEW b \in Buckets
        PROVE  /\ z.bal[g][b] = bal[g][b] + SumOver(E(g, b), 1 .. n)
               /\ (\A k \in 1 .. N : ~lines[k].allowNegative) /\ bal[g][b] >= 0
                      => z.bal[g][b] >= 0
    <3> DEFINE e == IF line.grain = g THEN LineDeltas(line)[b] ELSE 0
               old == SumOver(E(g, b), 1 .. n - 1)
               new == SumOver(E(g, b), 1 .. n)
    <3>1. new = old + e /\ old \in Int
      BY <2>3
    <3>2. e \in Int /\ bal[g][b] \in Int /\ a.bal[g][b] \in Int
      BY <1>3, <2>1, <2>2 DEF PostableLine, Row, Balances
    <3>3. z.bal[g][b] = a.bal[g][b] + e /\ (line.grain = g /\ ~line.allowNegative => z.bal[g][b] >= 0)
      BY <2>4, <2>5
    <3>4. /\ a.bal[g][b] = bal[g][b] + old
          /\ (\A k \in 1 .. N : ~lines[k].allowNegative) /\ bal[g][b] >= 0 => a.bal[g][b] >= 0
      BY <2>2, <2>4, <2>5
    <3>5. line.grain # g => e = 0
      OBVIOUS
    <3>6. (\A k \in 1 .. N : ~lines[k].allowNegative) => ~line.allowNegative
      BY DEF line
    <3> HIDE DEF e, old, new
    <3>7. z.bal[g][b] = bal[g][b] + new
      BY <3>1, <3>2, <3>3, <3>4
    <3>8. ASSUME \A k \in 1 .. N : ~lines[k].allowNegative, bal[g][b] >= 0 PROVE z.bal[g][b] >= 0
      BY <3>2, <3>3, <3>4, <3>5, <3>6, <3>8
    <3> QED BY <3>7, <3>8 DEF new
  <2> QED BY <2>4, <2>5 DEF z
<1>7. Q = {}
  <2> SUFFICES ASSUME Q # {} PROVE FALSE
    OBVIOUS
  <2>1. PICK n \in Q : \A m \in Q : n <= m
    <3>1. Q \in SUBSET Nat
      BY <1>2
    <3> HIDE DEF Q
    <3> QED BY <3>1, LeastNatural
  <2>2. n \in 0 .. N /\ ~Good(n)
    OBVIOUS
  <2> HIDE DEF Good
  <2>3. n # 0
    BY <1>5, <2>2
  <2>4. n \in 1 .. N /\ n - 1 \in 0 .. N /\ ~(n <= n - 1)
    BY <1>2, <2>2, <2>3
  <2>5. Good(n - 1)
    BY <2>1, <2>4
  <2> QED BY <1>6, <2>2, <2>4, <2>5
<1>8. Good(N)
  <2>1. N \in 0 .. N
    BY <1>2
  <2> HIDE DEF Good
  <2> QED BY <1>7, <2>1
<1> QED BY <1>1, <1>8 DEF bal, N
=============================================================================
