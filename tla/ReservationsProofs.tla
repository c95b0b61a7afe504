--------------------------- MODULE ReservationsProofs ---------------------------
(***************************************************************************)
(* Proofs about Reservations: what holds however the handlers race, and     *)
(* what holds as long as only the expiry timer is under way on a document   *)
(* together with another of its kind.                                       *)
(***************************************************************************)
EXTENDS Reservations, StockLedgerProofs, SequenceTheorems

-----------------------------------------------------------------------------
(* The lines *)

(* A reservation line .. *)
LEMMA LineFields ==
    ASSUME NEW l \in LineIds
    PROVE  /\ Lines[l].res \in Reservations /\ Lines[l].product \in Products
           /\ Lines[l].qty \in Nat /\ Lines[l].qty > 0
<1>1. Lines[l] \in [res : Reservations, product : Products, qty : Nat \ {0}]
  BY ReservationsAssumption
<1> QED BY <1>1

(* .. and an item of a release. *)
LEMMA ItemFields ==
    ASSUME NEW s \in Releases
    PROVE  /\ Len(Items[s]) \in Nat /\ DOMAIN Items[s] = 1 .. Len(Items[s])
           /\ \A i \in DOMAIN Items[s] :
                 /\ Items[s][i].product \in Products
                 /\ Items[s][i].qty \in Nat /\ Items[s][i].qty > 0
                 /\ Items[s][i].line \in LineIds \cup {NoLine}
<1> DEFINE T == [product : Products, qty : Nat \ {0}, line : LineIds \cup {NoLine}]
<1>1. Items[s] \in Seq(T)
  BY ReservationsAssumption
<1>2. Len(Items[s]) \in Nat /\ DOMAIN Items[s] = 1 .. Len(Items[s])
  <2> HIDE DEF T
  <2> QED BY <1>1
<1>3. \A i \in DOMAIN Items[s] : Items[s][i] \in T
  <2> HIDE DEF T
  <2> QED BY <1>1
<1> QED BY <1>2, <1>3

(* What a reservation has left is never negative. *)
LEMMA LeftNat ==
    ASSUME NEW r, NEW p, NEW used \in [LineIds -> Nat]
    PROVE  Left(r, p, used) \in Nat
<1> DEFINE f == [l \in LineIds |-> IF Lines[l].qty > used[l] THEN Lines[l].qty - used[l] ELSE 0]
           S == { l \in LinesOf(r) : Lines[l].product = p }
<1>1. IsFiniteSet(S)
  BY ReservationsAssumption, FS_Subset DEF LinesOf
<1>2. \A l \in S : f[l] \in Nat
  BY LineFields DEF LinesOf
<1>3. Left(r, p, used) = SumOver(f, S)
  BY SumFunctionIsSum DEF Left
<1> HIDE DEF f, S
<1> QED BY <1>1, <1>2, <1>3, SumNat

(* Quantities for the items of s. *)
ForItems(s, qty) ==
    /\ s \in Releases /\ qty \in Seq(Nat) /\ DOMAIN qty = DOMAIN Items[s]
    /\ \A i \in DOMAIN Items[s] : qty[i] <= Items[s][i].qty

(* The items that are approved in them. *)
LEMMA ApprovedItemsFinite ==
    ASSUME NEW s, NEW qty, ForItems(s, qty)
    PROVE  /\ IsFiniteSet(ApprovedItems(s, qty))
           /\ ApprovedItems(s, qty) \subseteq DOMAIN Items[s]
           /\ \A i \in DOMAIN Items[s] : qty[i] \in Nat
<1>1. IsFiniteSet(DOMAIN Items[s])
  <2>1. Len(Items[s]) \in Nat /\ DOMAIN Items[s] = 1 .. Len(Items[s])
    BY ItemFields DEF ForItems
  <2>2. IsFiniteSet(1 .. Len(Items[s]))
    BY <2>1, FS_Interval
  <2> QED BY <2>1, <2>2
<1>2. ApprovedItems(s, qty) \subseteq DOMAIN Items[s]
  BY DEF ApprovedItems
<1>3. \A i \in DOMAIN Items[s] : qty[i] \in Nat
  BY DEF ForItems
<1> QED BY <1>1, <1>2, <1>3, FS_Subset

(* What they take of a line: nothing of a line that no item of them names. *)
LEMMA TakenOf ==
    ASSUME NEW s, NEW qty, ForItems(s, qty), NEW l
    PROVE  /\ Taken(s, qty, l) \in Nat
           /\ \A i \in ApprovedItems(s, qty) : Items[s][i].line = l => qty[i] <= Taken(s, qty, l)
           /\ l \in LineIds /\ l \notin LinesUsed(s, qty) => Taken(s, qty, l) = 0
<1> DEFINE S == { i \in ApprovedItems(s, qty) : Items[s][i].line = l }
<1>1. IsFiniteSet(S) /\ \A i \in S : qty[i] \in Nat
  BY ApprovedItemsFinite, FS_Subset
<1>2. Taken(s, qty, l) = SumOver(qty, S)
  BY SumFunctionIsSum DEF Taken
<1>3. l \in LineIds /\ l \notin LinesUsed(s, qty) => S = {}
  BY ReservationsAssumption DEF LinesUsed
<1>4. \A i \in ApprovedItems(s, qty) : Items[s][i].line = l => i \in S
  OBVIOUS
<1> HIDE DEF S
<1>5. SumOver(qty, S) \in Nat /\ \A i \in S : qty[i] <= SumOver(qty, S)
  BY <1>1, SumNat
<1> QED BY <1>2, <1>3, <1>4, <1>5, SumEmpty

(* What they take of the reserved bucket of a batch-tracked product. *)
LEMMA BatchTakenOf ==
    ASSUME NEW s, NEW qty, ForItems(s, qty), NEW p
    PROVE  BatchTaken(s, qty, p) \in Nat /\ (Lots[p] = {} => BatchTaken(s, qty, p) = 0)
<1> DEFINE S == { i \in ApprovedItems(s, qty) : Items[s][i].product = p /\ Items[s][i].line # NoLine }
<1>1. IsFiniteSet(S) /\ \A i \in S : qty[i] \in Nat
  BY ApprovedItemsFinite, FS_Subset
<1>2. BatchTaken(s, qty, p) = IF Lots[p] = {} THEN 0 ELSE SumOver(qty, S)
  BY SumFunctionIsSum DEF BatchTaken
<1> HIDE DEF S
<1>3. SumOver(qty, S) \in Nat
  BY <1>1, SumNat
<1> QED BY <1>2, <1>3

-----------------------------------------------------------------------------
(* Balances *)

(* Setting the reserved buckets of all products changes nothing else. *)
LEMMA WithReservedRows ==
    ASSUME balance \in Balances, NEW f \in [Products -> Int]
    PROVE  /\ WithReserved(f) \in Balances
           /\ \A p \in Products : WithReserved(f)[Nil[p]]["reserved"] = f[p]
           /\ \A g \in Grains, b \in Buckets : b # "reserved" => WithReserved(f)[g][b] = balance[g][b]
<1> DEFINE W == WithReserved(f)
<1>1. ASSUME NEW p \in Products
      PROVE  Nil[p] \in Grains /\ W[Nil[p]] = [balance[Nil[p]] EXCEPT !["reserved"] = f[p]]
  <2>1. Nil[p] \in Grains
    BY ReservationsAssumption
  <2>2. (CHOOSE q \in Products : Nil[p] = Nil[q]) = p
    BY ReservationsAssumption
  <2> QED BY <2>1, <2>2 DEF WithReserved
<1>2. \A g \in Grains : (\A p \in Products : g # Nil[p]) => W[g] = balance[g]
  BY DEF WithReserved
<1>3. DOMAIN W = Grains /\ W = [g \in Grains |-> W[g]]
  BY DEF WithReserved
<1> HIDE DEF W
<1>4. ASSUME NEW g \in Grains
      PROVE  W[g] \in Row /\ \A b \in Buckets : b # "reserved" => W[g][b] = balance[g][b]
  <2>1. balance[g] \in Row
    BY DEF Balances
  <2>2. CASE \E p \in Products : g = Nil[p]
    <3>1. PICK p \in Products : g = Nil[p]
      BY <2>2
    <3>2. W[g] = [balance[g] EXCEPT !["reserved"] = f[p]] /\ f[p] \in Int
      BY <1>1, <3>1
    <3> QED BY <2>1, <3>2 DEF Row
  <2>3. CASE \A p \in Products : g # Nil[p]
    BY <1>2, <2>1, <2>3
  <2> QED BY <2>2, <2>3
<1>5. \A p \in Products : W[Nil[p]]["reserved"] = f[p]
  <2>1. \A p \in Products : "reserved" \in DOMAIN balance[Nil[p]]
    BY <1>1 DEF Balances, Row, Buckets
  <2> QED BY <1>1, <2>1
<1>6. W \in Balances
  BY <1>3, <1>4 DEF Balances
<1> QED BY <1>4, <1>5, <1>6 DEF W

(* What a product has reserved is a number. *)
LEMMA ReservedInt ==
    ASSUME balance \in Balances, NEW p \in Products
    PROVE  Nil[p] \in Grains /\ Reserved(p) \in Int
<1>1. Nil[p] \in Grains
  BY ReservationsAssumption
<1>2. "reserved" \in Buckets
  BY DEF Buckets
<1> QED BY <1>1, <1>2 DEF Reserved, Balances, Row

(* What ends of reservations leave reserved: down to zero at most. *)
LEMMA ReturnedRows ==
    ASSUME balance \in Balances, NEW r, NEW used \in [LineIds -> Nat]
    PROVE  /\ Returned(r, used) \in Balances
           /\ \A g \in Grains, b \in Buckets :
                 b # "reserved" => Returned(r, used)[g][b] = balance[g][b]
           /\ \A p \in Products :
                 Returned(r, used)[Nil[p]]["reserved"] =
                     IF Left(r, p, used) = 0 THEN Reserved(p)
                     ELSE IF Left(r, p, used) > Reserved(p) THEN 0
                     ELSE Reserved(p) - Left(r, p, used)
           /\ \A p \in Products : Reserved(p) >= 0 => Returned(r, used)[Nil[p]]["reserved"] >= 0
<1> DEFINE f == [p \in Products |->
                    LET left == Left(r, p, used)
                    IN  IF left = 0 THEN Reserved(p)
                        ELSE IF left > Reserved(p) THEN 0
                        ELSE Reserved(p) - left]
<1>1. \A p \in Products : Left(r, p, used) \in Nat /\ Reserved(p) \in Int
  BY LeftNat, ReservedInt
<1>2. ASSUME NEW p \in Products
      PROVE  /\ f[p] \in Int /\ (Reserved(p) >= 0 => f[p] >= 0)
             /\ f[p] = IF Left(r, p, used) = 0 THEN Reserved(p)
                       ELSE IF Left(r, p, used) > Reserved(p) THEN 0
                       ELSE Reserved(p) - Left(r, p, used)
  BY <1>1
<1>3. f \in [Products -> Int]
  BY <1>2
<1>4. Returned(r, used) = WithReserved(f)
  BY DEF Returned
<1> HIDE DEF f
<1> QED BY <1>2, <1>3, <1>4, WithReservedRows

-----------------------------------------------------------------------------
(* The lines of a posting *)

(* An item's posting line. *)
LineFor(j, i) == PostingLine(Items[j.doc][i], j.lot[i], j.qty[i])
LinesFor(j) == { LineFor(j, i) : i \in ApprovedItems(j.doc, j.qty) }

(* The function that PostingLines is computed with, up to the n-th item. *)
LinesUpTo(j, n, h) ==
    h = [k \in 0 .. n |->
            IF k = 0 THEN << >>
            ELSE IF j.qty[k] > 0 THEN Append(h[k - 1], LineFor(j, k))
            ELSE h[k - 1]]

(* PostingLines is what it gives for all items. *)
LEMMA PostingLinesUnfolded ==
    ASSUME NEW j
    PROVE  PostingLines(j) =
               (CHOOSE h : LinesUpTo(j, Len(Items[j.doc]), h))[Len(Items[j.doc])]
BY DEF PostingLines, LinesUpTo, LineFor

(* There is such a function. *)
LEMMA PostingLinesExist ==
    ASSUME NEW j, NEW n \in Nat
    PROVE  \E h : LinesUpTo(j, n, h)
<1> DEFINE Q == { m \in Nat : ~\E h : LinesUpTo(j, m, h) }
<1>1. Q = {}
  <2> SUFFICES ASSUME Q # {} PROVE FALSE
    OBVIOUS
  <2>1. PICK m \in Q : \A l \in Q : m <= l
    <3>1. Q \in SUBSET Nat
      OBVIOUS
    <3> HIDE DEF Q
    <3> QED BY <3>1, LeastNatural
  <2>2. m \in Nat /\ ~\E h : LinesUpTo(j, m, h)
    OBVIOUS
  <2>3. m # 0
    <3> DEFINE h == [k \in 0 .. 0 |-> << >>]
    <3>1. LinesUpTo(j, 0, h)
      BY DEF LinesUpTo
    <3> QED BY <2>2, <3>1
  <2>4. m - 1 \in Nat /\ ~(m <= m - 1)
    BY <2>2, <2>3
  <2>5. PICK g : LinesUpTo(j, m - 1, g)
    BY <2>1, <2>4
  <2> HIDE DEF Q
  <2> DEFINE last == IF j.qty[m] > 0 THEN Append(g[m - 1], LineFor(j, m)) ELSE g[m - 1]
             h == [k \in 0 .. m |-> IF k = m THEN last ELSE g[k]]
             Step(k) == IF k = 0 THEN << >>
                        ELSE IF j.qty[k] > 0 THEN Append(h[k - 1], LineFor(j, k))
                        ELSE h[k - 1]
  <2>6. ASSUME NEW k \in 0 .. m PROVE h[k] = Step(k)
    <3>1. CASE k = m
      <4>1. h[m] = last /\ h[m - 1] = g[m - 1] /\ m # 0
        BY <2>2, <2>3, <2>4
      <4> QED BY <3>1, <4>1
    <3>2. CASE k # m
      <4>1. k \in 0 .. m - 1
        BY <2>2, <3>2
      <4>2. h[k] = g[k]
        BY <3>2
      <4>3. k # 0 => h[k - 1] = g[k - 1]
        BY <2>2, <4>1
      <4>4. g[k] = IF k = 0 THEN << >>
                   ELSE IF j.qty[k] > 0 THEN Append(g[k - 1], LineFor(j, k))
                   ELSE g[k - 1]
        BY <2>5, <4>1 DEF LinesUpTo
      <4> HIDE DEF h
      <4> QED BY <4>2, <4>3, <4>4
    <3> QED BY <3>1, <3>2
  <2>7. h = [k \in 0 .. m |-> Step(k)]
    <3>1. h = [k \in 0 .. m |-> h[k]]
      OBVIOUS
    <3> HIDE DEF h, Step
    <3> QED BY <2>6, <3>1
  <2>8. LinesUpTo(j, m, h)
    <3> HIDE DEF last, h
    <3> QED BY <2>7 DEF LinesUpTo
  <2> QED BY <2>2, <2>8
<1> QED BY <1>1

(* A release is posted in lines of its approved items, at least one if there *)
(* is one and no more than it has items.                                     *)
LEMMA PostingLinesOf ==
    ASSUME NEW j, ForItems(j.doc, j.qty)
    PROVE  /\ PostingLines(j) \in Seq(LinesFor(j))
           /\ Len(PostingLines(j)) <= Len(Items[j.doc])
           /\ ApprovedItems(j.doc, j.qty) # {} => Len(PostingLines(j)) >= 1
<1> DEFINE N == Len(Items[j.doc])
           h == CHOOSE g : LinesUpTo(j, Len(Items[j.doc]), g)
           Good(n) == /\ h[n] \in Seq(LinesFor(j)) /\ Len(h[n]) <= n
                      /\ (\E i \in 1 .. n : j.qty[i] > 0) => Len(h[n]) >= 1
           Q == { n \in 0 .. N : ~Good(n) }
<1>1. /\ N \in Nat /\ DOMAIN Items[j.doc] = 1 .. N
      /\ \A i \in 1 .. N : j.qty[i] \in Nat
  BY ItemFields, ApprovedItemsFinite DEF ForItems
<1>2. LinesUpTo(j, N, h) /\ PostingLines(j) = h[N]
  BY <1>1, PostingLinesExist, PostingLinesUnfolded
<1> HIDE DEF h, N
<1>3. h[0] = << >>
  BY <1>1, <1>2 DEF LinesUpTo
<1>4. ASSUME NEW n \in 1 .. N
      PROVE  h[n] = IF j.qty[n] > 0 THEN Append(h[n - 1], LineFor(j, n)) ELSE h[n - 1]
  <2>1. n \in 0 .. N /\ n # 0
    BY <1>1
  <2> QED BY <1>2, <2>1 DEF LinesUpTo
<1>5. Good(0)
  <2>1. << >> \in Seq(LinesFor(j)) /\ Len(<< >>) = 0 /\ 1 .. 0 = {}
    OBVIOUS
  <2> QED BY <1>3, <2>1
<1>6. ASSUME NEW n \in 1 .. N, Good(n - 1) PROVE Good(n)
  <2> DEFINE s == h[n - 1]
             e == LineFor(j, n)
  <2>1. /\ s \in Seq(LinesFor(j)) /\ Len(s) \in Nat /\ Len(s) <= n - 1
        /\ (\E i \in 1 .. n - 1 : j.qty[i] > 0) => Len(s) >= 1
    BY <1>6
  <2>2. n \in Nat /\ h[n] = IF j.qty[n] > 0 THEN Append(s, e) ELSE s
    BY <1>1, <1>4
  <2>3. CASE j.qty[n] > 0
    <3>1. n \in ApprovedItems(j.doc, j.qty)
      BY <1>1, <2>3 DEF ApprovedItems
    <3>2. e \in LinesFor(j)
      BY <3>1 DEF LinesFor
    <3> HIDE DEF s, e
    <3>3. Append(s, e) \in Seq(LinesFor(j)) /\ Len(Append(s, e)) = Len(s) + 1
      BY <2>1, <3>2
    <3>4. Len(h[n]) = Len(s) + 1 /\ h[n] \in Seq(LinesFor(j))
      BY <2>2, <2>3, <3>3
    <3> QED BY <2>1, <2>2, <3>4
  <2>4. CASE ~(j.qty[n] > 0)
    <3>1. (\E i \in 1 .. n : j.qty[i] > 0) => \E i \in 1 .. n - 1 : j.qty[i] > 0
      <4>1. \A i \in 1 .. n : j.qty[i] > 0 => i # n /\ i \in 1 .. n - 1
        BY <2>2, <2>4
      <4> QED BY <4>1
    <3>2. h[n] = s
      BY <2>2, <2>4
    <3> HIDE DEF s
    <3>3. s \in Seq(LinesFor(j)) /\ Len(s) <= n
      BY <2>1, <2>2
    <3>4. (\E i \in 1 .. n : j.qty[i] > 0) => Len(s) >= 1
      BY <2>1, <3>1
    <3> QED BY <3>2, <3>3, <3>4
  <2> QED BY <2>3, <2>4
<1>7. Q = {}
  <2> SUFFICES ASSUME Q # {} PROVE FALSE
    OBVIOUS
  <2>1. PICK n \in Q : \A m \in Q : n <= m
    <3>1. Q \in SUBSET Nat
      BY <1>1
    <3> HIDE DEF Q
    <3> QED BY <3>1, LeastNatural
  <2>2. n \in 0 .. N /\ ~Good(n)
    OBVIOUS
  <2> HIDE DEF Good
  <2>3. n # 0
    BY <1>5, <2>2
  <2>4. n \in 1 .. N /\ n - 1 \in 0 .. N /\ ~(n <= n - 1)
    BY <1>1, <2>2, <2>3
  <2>5. Good(n - 1)
    BY <2>1, <2>4
  <2> QED BY <1>6, <2>2, <2>4, <2>5
<1>8. Good(N)
  <2>1. N \in 0 .. N
    BY <1>1
  <2> HIDE DEF Good
  <2> QED BY <1>7, <2>1
<1>9. ApprovedItems(j.doc, j.qty) # {} => \E i \in 1 .. N : j.qty[i] > 0
  BY <1>1 DEF ApprovedItems
<1> QED BY <1>2, <1>8, <1>9 DEF N

-----------------------------------------------------------------------------
(* Types *)

Phases == {"idle", "loaded", "validated", "posted", "recorded"}

(* The row that an item comes from: a lot's if its product has lots. *)
RowFits(p, g) == IF Lots[p] = {} THEN g = Nil[p] ELSE g \in Lots[p]

(* What is known of a job in each phase of its handler. *)
Sound(j, phase) ==
    /\ j \in JobType
    /\ j.op \in ReservationOps => j.doc \in Reservations
    /\ j.op \in ReleaseOps => j.doc \in Releases
    /\ j.op # "post" => phase = "loaded"
    /\ j.op = "post" => /\ ForItems(j.doc, j.qty) /\ ApprovedItems(j.doc, j.qty) # {}
                        /\ j.key \in KeysOf[j.doc]
    /\ phase # "loaded" => \A i \in DOMAIN Items[j.doc] : RowFits(Items[j.doc][i].product, j.lot[i])
    /\ phase = "recorded" => j.rolled \in [ReservationsUsed(j.doc, j.qty) -> {"CONSUMED", "PARTIALLY_CONSUMED"}]

JobsSound(p, jb) ==
    /\ p \in [Workers -> Phases]
    /\ jb \in [Workers -> JobType \cup {NoJob}]
    /\ \A w \in Workers : IF p[w] = "idle" THEN jb[w] = NoJob ELSE Sound(jb[w], p[w])

DataTypes ==
    /\ balance \in Balances
    /\ movements \in Seq(Movement)
    /\ resStatus \in [Reservations -> ReservationStatus]
    /\ consumed \in [LineIds -> Nat]
    /\ relStatus \in [Releases -> ReleaseStatus]
    /\ approved \in [Releases -> Seq(Nat)] /\ \A s \in Releases : ForItems(s, approved[s])

ResTypeInv == DataTypes /\ JobsSound(pc, job) /\ failures \in 0 .. MaxFailures

(* A job begins, goes on or ends. *)
LEMMA JobsStep ==
    ASSUME NEW p, NEW jb, JobsSound(p, jb), NEW w \in Workers, NEW phase, NEW j,
           \/ phase = "idle" /\ j = NoJob
           \/ phase \in Phases \ {"idle"} /\ Sound(j, phase)
    PROVE  JobsSound([p EXCEPT ![w] = phase], [jb EXCEPT ![w] = j])
<1> DEFINE q == [p EXCEPT ![w] = phase]
           kb == [jb EXCEPT ![w] = j]
<1>1. p \in [Workers -> Phases] /\ jb \in [Workers -> JobType \cup {NoJob}]
  BY DEF JobsSound
<1>2. phase \in Phases /\ j \in JobType \cup {NoJob}
  BY DEF Sound, Phases
<1>3. /\ q \in [Workers -> Phases] /\ kb \in [Workers -> JobType \cup {NoJob}]
      /\ q[w] = phase /\ kb[w] = j
      /\ \A v \in Workers \ {w} : q[v] = p[v] /\ kb[v] = jb[v]
  BY <1>1, <1>2
<1> HIDE DEF q, kb
<1>4. ASSUME NEW v \in Workers PROVE IF q[v] = "idle" THEN kb[v] = NoJob ELSE Sound(kb[v], q[v])
  <2>1. CASE v = w
    BY <1>3, <2>1
  <2>2. CASE v # w
    BY <1>3, <2>2 DEF JobsSound
  <2> QED BY <2>1, <2>2
<1>5. JobsSound(q, kb)
  BY <1>3, <1>4 DEF JobsSound
<1> QED BY <1>5 DEF q, kb

(* A worker that is not idle has a job. *)
LEMMA JobFields ==
    ASSUME ResTypeInv, NEW w \in Workers, pc[w] # "idle"
    PROVE  Sound(job[w], pc[w]) /\ pc[w] \in Phases /\ job[w] # NoJob /\ DOMAIN job = Workers
BY ReservationsAssumption DEF ResTypeInv, JobsSound, Sound

(* The lines that a posting's items become. *)
LEMMA LineForFields ==
    ASSUME NEW j, ForItems(j.doc, j.qty), NEW i \in ApprovedItems(j.doc, j.qty),
           RowFits(Items[j.doc][i].product, j.lot[i])
    PROVE  LET line == LineFor(j, i)
               item == Items[j.doc][i]
           IN  /\ line.grain = j.lot[i] /\ line.grain \in Grains
               /\ line.type = "SALES_RELEASE" /\ line.qty = j.qty[i] /\ line.qty \in Nat
               /\ line.allowNegative = FALSE
               /\ LineDeltas(line) \in Row
               /\ LineDeltas(line)["reserved"] =
                      IF item.line # NoLine /\ Lots[item.product] = {} THEN -j.qty[i] ELSE 0
<1> DEFINE line == LineFor(j, i)
           item == Items[j.doc][i]
           r == IF item.line # NoLine /\ Lots[item.product] = {} THEN -j.qty[i] ELSE 0
           d == [EmptyRow EXCEPT !["onHand"] = -j.qty[i], !["reserved"] = r]
<1>1. i \in DOMAIN Items[j.doc] /\ j.qty[i] \in Nat /\ j.doc \in Releases
  BY ApprovedItemsFinite DEF ForItems
<1>2. item.product \in Products
  BY <1>1, ItemFields
<1>3. j.lot[i] \in Grains
  BY <1>2, ReservationsAssumption DEF RowFits
<1>4. /\ line.grain = j.lot[i] /\ line.type = "SALES_RELEASE" /\ line.qty = j.qty[i]
      /\ line.allowNegative = FALSE /\ line.deltas = d
  BY DEF LineFor, PostingLine
<1>5. d \in Row /\ d["reserved"] = r
  <2>1. -j.qty[i] \in Int /\ r \in Int
    BY <1>1
  <2> HIDE DEF r
  <2> QED BY <2>1 DEF EmptyRow, Row, Buckets
<1> HIDE DEF d, line
<1>6. LineDeltas(line) = d
  BY <1>4, <1>5, ReservationsAssumption DEF LineDeltas
<1> QED BY <1>1, <1>3, <1>4, <1>5, <1>6 DEF line

(* The parts of a concatenation. *)
LEMMA ConcatParts ==
    ASSUME NEW T, NEW s \in Seq(T), NEW u \in Seq(T)
    PROVE  /\ s \o u \in Seq(T) /\ Len(s \o u) = Len(s) + Len(u)
           /\ \A i \in 1 .. Len(s) : (s \o u)[i] = s[i]
           /\ \A i \in 1 .. Len(u) : (s \o u)[Len(s) + i] = u[i]
<1>1. Len(s) \in Nat /\ Len(u) \in Nat
  OBVIOUS
<1>2. s \o u \in Seq(T) /\ Len(s \o u) = Len(s) + Len(u)
  OBVIOUS
<1>3. \A i \in 1 .. Len(s) : (s \o u)[i] = s[i]
  OBVIOUS
<1>4. \A i \in 1 .. Len(u) : (s \o u)[Len(s) + i] = u[i]
  OBVIOUS
<1> QED BY <1>2, <1>3, <1>4

(* What the ledger writes when it posts a release. *)
LEMMA PostingWrites ==
    ASSUME ResTypeInv, NEW j, Sound(j, "validated"),
           Post([key |-> j.key, ref |-> j.doc, lines |-> PostingLines(j), reversalOf |-> 0], j.doc)
    PROVE  LET n == Len(movements)
               m == Len(PostingLines(j))
           IN  /\ KeyedBy(movements, j.key) = {}
               /\ balance' \in Balances
               /\ \A g \in Grains, b \in Buckets :
                     /\ balance'[g][b] = balance[g][b] + SumOver(EffectOn(PostingLines(j), g, b), 1 .. m)
                     /\ balance[g][b] >= 0 => balance'[g][b] >= 0
               /\ movements' \in Seq(Movement)
               /\ n \in Nat /\ m \in Nat /\ 1 <= m /\ m <= Len(Items[j.doc]) /\ Len(movements') = n + m
               /\ \A i \in 1 .. n : movements'[i] = movements[i]
               /\ \A i \in n + 1 .. n + m : movements'[i].ref = j.doc
               /\ movements'[n + 1].key = j.key
               /\ \A i \in n + 1 .. n + m : movements'[i].key \in {j.key, NoKey}
<1> DEFINE n == Len(movements)
           ls == PostingLines(j)
           m == Len(ls)
           cmd == [key |-> j.key, ref |-> j.doc, lines |-> ls, reversalOf |-> 0]
           new == [i \in DOMAIN ls |-> MovementFor(cmd, i, n + i, j.doc)]
<1>1. /\ j \in JobType /\ j.op = "post" /\ j.doc \in Releases /\ ForItems(j.doc, j.qty)
      /\ ApprovedItems(j.doc, j.qty) # {} /\ j.key \in KeysOf[j.doc]
      /\ \A i \in DOMAIN Items[j.doc] : RowFits(Items[j.doc][i].product, j.lot[i])
  BY DEF Sound, ReleaseOps
<1>2. movements \in Seq(Movement) /\ n \in Nat /\ balance \in Balances
  BY DEF ResTypeInv, DataTypes
<1>3. /\ ls \in Seq(LinesFor(j)) /\ m <= Len(Items[j.doc]) /\ m >= 1
  BY <1>1, PostingLinesOf
<1>4. m \in Nat /\ DOMAIN ls = 1 .. m /\ \A k \in 1 .. m : ls[k] \in LinesFor(j)
  <2> HIDE DEF ls
  <2> QED BY <1>3
<1>5. ASSUME NEW k \in 1 .. m
      PROVE  /\ ls[k].grain \in Grains /\ ls[k].type = "SALES_RELEASE" /\ ls[k].qty \in Nat
             /\ ls[k].allowNegative = FALSE /\ LineDeltas(ls[k]) \in Row
  <2>1. PICK i \in ApprovedItems(j.doc, j.qty) : ls[k] = LineFor(j, i)
    BY <1>4 DEF LinesFor
  <2>2. i \in DOMAIN Items[j.doc]
    BY <1>1, ApprovedItemsFinite
  <2>3. RowFits(Items[j.doc][i].product, j.lot[i])
    BY <1>1, <2>2
  <2>4. /\ LineFor(j, i).grain \in Grains /\ LineFor(j, i).type = "SALES_RELEASE"
        /\ LineFor(j, i).qty \in Nat /\ LineFor(j, i).allowNegative = FALSE
        /\ LineDeltas(LineFor(j, i)) \in Row
    BY <1>1, <2>3, LineForFields
  <2> QED BY <2>1, <2>4
<1>6. /\ KeyedBy(movements, j.key) = {} /\ Posted(ls).ok /\ balance' = Posted(ls).bal
      /\ movements' = movements \o new
  BY DEF Post
<1> HIDE DEF ls
<1>7. \A k \in 1 .. m : PostableLine(ls[k]) /\ ~ls[k].allowNegative
  BY <1>5 DEF PostableLine
<1>8. /\ balance' \in Balances
      /\ \A g \in Grains, b \in Buckets :
            /\ balance'[g][b] = balance[g][b] + SumOver(EffectOn(ls, g, b), 1 .. m)
            /\ balance[g][b] >= 0 => balance'[g][b] >= 0
  BY <1>2, <1>4, <1>6, <1>7, PostedMoves
<1>9. \A k \in 1 .. m : /\ new[k] \in Movement /\ new[k].ref = j.doc
                        /\ new[k].key = IF k = 1 THEN j.key ELSE NoKey
  <2> SUFFICES ASSUME NEW k \in 1 .. m
               PROVE  /\ new[k] \in Movement /\ new[k].ref = j.doc
                      /\ new[k].key = IF k = 1 THEN j.key ELSE NoKey
    OBVIOUS
  <2>1. new[k] = MovementFor(cmd, k, n + k, j.doc)
    BY <1>4
  <2>2. j.key \in Keys /\ j.doc \in Refs /\ n + k \in Nat /\ "SALES_RELEASE" \in MovementTypes
    BY <1>1, <1>2, <1>4, ReservationsAssumption DEF MovementTypes
  <2>3. new[k] = [no |-> n + k, grain |-> ls[k].grain, type |-> ls[k].type, qty |-> ls[k].qty,
                  delta |-> LineDeltas(ls[k]), ref |-> j.doc,
                  key |-> IF k = 1 THEN j.key ELSE NoKey,
                  reversalOf |-> 0, override |-> ls[k].allowNegative]
    BY <2>1 DEF MovementFor
  <2> DEFINE key == IF k = 1 THEN j.key ELSE NoKey
             no == n + k
  <2>4. key \in Keys \cup {NoKey} /\ no \in Nat /\ key = IF k = 1 THEN j.key ELSE NoKey
    BY <2>2
  <2>5. /\ new[k] = [no |-> no, grain |-> ls[k].grain, type |-> ls[k].type, qty |-> ls[k].qty,
                     delta |-> LineDeltas(ls[k]), ref |-> j.doc, key |-> key,
                     reversalOf |-> 0, override |-> ls[k].allowNegative]
    BY <2>3
  <2>6. /\ ls[k].grain \in Grains /\ ls[k].type \in MovementTypes /\ ls[k].qty \in Int
        /\ LineDeltas(ls[k]) \in Row /\ j.doc \in Refs \cup {NoRef} /\ 0 \in Nat
        /\ ls[k].allowNegative \in BOOLEAN
    <3>1. ls[k].allowNegative \in BOOLEAN
      BY <1>5, Zenon
    <3>2. ls[k].grain \in Grains /\ LineDeltas(ls[k]) \in Row
      BY <1>5, Zenon
    <3>4. ls[k].qty \in Int
      <4>1. ls[k].qty \in Nat
        BY <1>5, Zenon
      <4> QED BY <4>1
    <3>3. ls[k].type \in MovementTypes
      BY <1>5, <2>2, Zenon
    <3> QED BY <2>2, <3>1, <3>2, <3>3, <3>4
  <2> HIDE DEF new, n, key, no
  <2>7. new[k] \in Movement
    BY <2>4, <2>5, <2>6 DEF Movement
  <2> QED BY <2>4, <2>5, <2>7
<1>10. new \in Seq(Movement) /\ Len(new) = m
  <2>1. DOMAIN new = 1 .. m /\ new = [i \in 1 .. m |-> new[i]]
    BY <1>4
  <2> HIDE DEF new
  <2>2. new \in [1 .. m -> Movement]
    BY <1>9, <2>1
  <2> QED BY <1>4, <2>2
<1> HIDE DEF new, n, m
<1>11. /\ movements' \in Seq(Movement) /\ Len(movements') = n + m
       /\ \A i \in 1 .. n : movements'[i] = movements[i]
       /\ \A i \in 1 .. m : movements'[n + i] = new[i]
  <2> DEFINE u == movements \o new
  <2>1. /\ u \in Seq(Movement) /\ Len(u) = Len(movements) + Len(new)
        /\ \A i \in 1 .. Len(movements) : u[i] = movements[i]
        /\ \A i \in 1 .. Len(new) : u[Len(movements) + i] = new[i]
    <3>1. movements \in Seq(Movement) /\ new \in Seq(Movement)
      BY <1>2, <1>10
    <3> DEFINE s == movements
    <3> HIDE DEF s
    <3>2. /\ s \o new \in Seq(Movement) /\ Len(s \o new) = Len(s) + Len(new)
          /\ \A i \in 1 .. Len(s) : (s \o new)[i] = s[i]
          /\ \A i \in 1 .. Len(new) : (s \o new)[Len(s) + i] = new[i]
      <4>1. s \in Seq(Movement)
        BY <3>1 DEF s
      <4> HIDE <1>1, <1>2, <1>3, <1>4, <1>6, <1>7, <1>8
      <4> QED BY <3>1, <4>1, ConcatParts
    <3> QED BY <3>2 DEF s
  <2>2. movements' = u
    BY <1>6
  <2> HIDE DEF u
  <2> QED BY <1>10, <2>1, <2>2 DEF n
<1>12. \A i \in n + 1 .. n + m : movements'[i].ref = j.doc
  <2> SUFFICES ASSUME NEW i \in n + 1 .. n + m PROVE movements'[i].ref = j.doc
    OBVIOUS
  <2>1. i - n \in 1 .. m /\ n + (i - n) = i
    BY <1>2, <1>4
  <2> QED BY <1>9, <1>11, <2>1
<1>13. movements'[n + 1].key = j.key
  <2>1. 1 \in 1 .. m
    BY <1>3, <1>4 DEF m
  <2> QED BY <1>9, <1>11, <2>1
<1>14. \A i \in n + 1 .. n + m : movements'[i].key \in {j.key, NoKey}
  <2> SUFFICES ASSUME NEW i \in n + 1 .. n + m PROVE movements'[i].key \in {j.key, NoKey}
    OBVIOUS
  <2>1. i - n \in 1 .. m /\ n + (i - n) = i
    BY <1>2, <1>4
  <2> QED BY <1>9, <1>11, <2>1
<1> QED BY <1>2, <1>3, <1>4, <1>6, <1>8, <1>11, <1>12, <1>13, <1>14 DEF n, m, ls

(* A new job is sound. *)
LEMMA NewJobSound ==
    ASSUME ResTypeInv, NEW op, NEW doc,
           \/ op \in ReservationOps /\ doc \in Reservations
           \/ op \in ReleaseOps \ {"post"} /\ doc \in Releases,
           NEW st \in ReservationStatus \cup {"none"}
    PROVE  Sound([Job(op, doc) EXCEPT !.status = st], "loaded")
<1> DEFINE j == [Job(op, doc) EXCEPT !.status = st]
           e == << >>
<1>1. /\ j = [op |-> op, doc |-> doc, key |-> NoKey, status |-> st, used |-> consumed,
              qty |-> e, lot |-> e, rolled |-> e]
  BY DEF Job
<1>2. e \in Seq(Nat) /\ e \in Seq(Grains) /\ e \in [{} -> ReservationStatus]
  OBVIOUS
<1>3. op # "post" /\ (op \in ReservationOps => doc \in Reservations) /\ (op \in ReleaseOps => doc \in Releases)
      /\ op \in ReservationOps \cup ReleaseOps /\ doc \in Reservations \cup Releases
  BY DEF ReservationOps, ReleaseOps
<1> HIDE DEF e, j
<1>4. e \in UNION { [R -> ReservationStatus] : R \in SUBSET Reservations }
  <2>1. {} \in SUBSET Reservations
    OBVIOUS
  <2> QED BY <1>2, <2>1
<1>5. consumed \in [LineIds -> Nat]
  BY DEF ResTypeInv, DataTypes
<1>6. j \in JobType
  BY <1>1, <1>2, <1>3, <1>4, <1>5 DEF JobType
<1>7. j.op = op /\ j.doc = doc
  BY <1>1
<1> QED BY <1>3, <1>6, <1>7 DEF Sound, j

(* .. without a status, too. *)
LEMMA PlainJobSound ==
    ASSUME ResTypeInv, NEW op, NEW doc,
           \/ op \in ReservationOps /\ doc \in Reservations
           \/ op \in ReleaseOps \ {"post"} /\ doc \in Releases
    PROVE  Sound(Job(op, doc), "loaded")
<1> DEFINE none == "none"
<1>1. [Job(op, doc) EXCEPT !.status = none] = Job(op, doc)
  <2> DEFINE e == << >>
  <2>1. Job(op, doc) = [op |-> op, doc |-> doc, key |-> NoKey, status |-> none, used |-> consumed,
                        qty |-> e, lot |-> e, rolled |-> e]
    BY DEF Job
  <2> HIDE DEF e, none
  <2> QED BY <2>1
<1>2. none \in ReservationStatus \cup {"none"}
  OBVIOUS
<1> HIDE DEF none
<1> QED BY <1>1, <1>2, NewJobSound

(* So is a new posting. *)
LEMMA NewPostSound ==
    ASSUME ResTypeInv, NEW s \in Releases, NEW key \in KeysOf[s],
           ApprovedItems(s, approved[s]) # {}
    PROVE  Sound([Job("post", s) EXCEPT !.key = key, !.qty = approved[s]], "loaded")
<1> DEFINE q == approved[s]
           e == << >>
           j == [Job("post", s) EXCEPT !.key = key, !.qty = q]
<1>1. /\ j = [op |-> "post", doc |-> s, key |-> key, status |-> "none", used |-> consumed,
              qty |-> q, lot |-> e, rolled |-> e]
  <2> DEFINE first == Job("post", s)
             second == [first EXCEPT !.key = key]
  <2>1. first = [op |-> "post", doc |-> s, key |-> NoKey, status |-> "none",
                 used |-> consumed, qty |-> e, lot |-> e, rolled |-> e]
    BY DEF Job
  <2>2. j = [second EXCEPT !.qty = q]
    OBVIOUS
  <2> HIDE DEF e, q, j, first
  <2>3. second = [op |-> "post", doc |-> s, key |-> key, status |-> "none",
                  used |-> consumed, qty |-> e, lot |-> e, rolled |-> e]
    BY <2>1
  <2> HIDE DEF second
  <2> QED BY <2>2, <2>3
<1>2. e \in Seq(Grains) /\ e \in [{} -> ReservationStatus]
  OBVIOUS
<1>3. "post" \in ReleaseOps /\ "post" \notin ReservationOps /\ key \in Keys
  BY ReservationsAssumption DEF ReservationOps, ReleaseOps
<1> HIDE DEF e, j
<1>4. e \in UNION { [R -> ReservationStatus] : R \in SUBSET Reservations }
  <2>1. {} \in SUBSET Reservations
    OBVIOUS
  <2> QED BY <1>2, <2>1
<1>5. consumed \in [LineIds -> Nat] /\ q \in Seq(Nat) /\ ForItems(s, q)
  BY DEF ResTypeInv, DataTypes
<1> HIDE DEF q
<1>6. j \in JobType
  BY <1>1, <1>2, <1>3, <1>4, <1>5 DEF JobType
<1>7. j.op = "post" /\ j.doc = s /\ j.qty = q /\ j.key = key
  BY <1>1
<1> QED BY <1>3, <1>5, <1>6, <1>7 DEF Sound, j, q

(* Starting a job keeps the types .. *)
LEMMA StartTypes ==
    ASSUME ResTypeInv, NEW w \in Workers, NEW j, Sound(j, "loaded"), Start(w, j)
    PROVE  ResTypeInv'
<1>1. JobsSound(pc', job')
  <2>1. "loaded" \in Phases \ {"idle"} /\ JobsSound(pc, job)
    BY DEF Phases, ResTypeInv
  <2>2. JobsSound([pc EXCEPT ![w] = "loaded"], [job EXCEPT ![w] = j])
    BY <2>1, JobsStep
  <2> QED BY <2>2 DEF Start
<1>2. DataTypes' /\ failures' = failures
  BY DEF Start, stockVars, docVars, ResTypeInv, DataTypes
<1> QED BY <1>1, <1>2 DEF ResTypeInv

(* .. and so does ending one. *)
LEMMA DoneTypes ==
    ASSUME ResTypeInv, NEW w \in Workers,
           pc' = [pc EXCEPT ![w] = "idle"], job' = [job EXCEPT ![w] = NoJob]
    PROVE  JobsSound(pc', job')
BY JobsStep DEF ResTypeInv

(* What a worker's job is when it does what. *)
LEMMA HandlingFields ==
    ASSUME ResTypeInv, NEW w \in Workers, pc[w] # "idle"
    PROVE  LET j == job[w]
           IN  /\ j \in JobType /\ j.used \in [LineIds -> Nat]
               /\ j.op \in ReservationOps => j.doc \in Reservations
               /\ j.op \in ReleaseOps => j.doc \in Releases
               /\ pc[w] # "loaded" => j.op = "post"
               /\ j.op = "post" => ForItems(j.doc, j.qty) /\ j.key \in KeysOf[j.doc]
BY JobFields DEF Sound, JobType

(* A step that drives neither on-hand stock nor what is reserved of a product *)
(* without lots below zero.                                                   *)
RowsKept ==
    /\ balance' \in Balances
    /\ \A g \in Grains : balance[g]["onHand"] >= 0 => balance'[g]["onHand"] >= 0
    /\ \A p \in Products : Lots[p] = {} /\ balance[Nil[p]]["reserved"] >= 0
                           => balance'[Nil[p]]["reserved"] >= 0

(* So do steps that leave the balances alone. *)
LEMMA SameRows ==
    ASSUME ResTypeInv, UNCHANGED balance
    PROVE  RowsKept
BY DEF RowsKept, ResTypeInv, DataTypes

(* What confirming reserves. *)
Reserving(r) == [p \in Products |-> Reserved(p) + Left(r, p, [l \in LineIds |-> 0])]

(* Confirming keeps the types, and rows at or above zero. *)
LEMMA ConfirmStep ==
    ASSUME ResTypeInv, NEW w \in Workers, Confirm(w)
    PROVE  ResTypeInv' /\ RowsKept
<1> DEFINE r == job[w].doc
           none == [l \in LineIds |-> 0]
<1>1. r \in Reservations /\ pc[w] # "idle"
  BY HandlingFields DEF Confirm, Handling, ReservationOps
<1>2. balance \in Balances /\ none \in [LineIds -> Nat]
  BY DEF ResTypeInv, DataTypes
<1>3. ASSUME NEW p \in Products
      PROVE  /\ Reserved(p) \in Int /\ Left(r, p, none) \in Nat
             /\ Reserving(r)[p] = Reserved(p) + Left(r, p, none)
  <2>1. Left(r, p, none) \in Nat
    <3> HIDE DEF none, r
    <3> QED BY <1>2, LeftNat
  <2> QED BY <1>2, <2>1, ReservedInt DEF Reserving
<1>4. Reserving(r) \in [Products -> Int]
  <2>1. \A p \in Products : Reserved(p) + Left(r, p, none) \in Int
    BY <1>3
  <2> QED BY <2>1 DEF Reserving
<1>5. RowsKept
  <2>1. CASE balance' = WithReserved(Reserving(r))
    <3> DEFINE f == Reserving(r)
    <3>1. /\ WithReserved(f) \in Balances
          /\ \A p \in Products : WithReserved(f)[Nil[p]]["reserved"] = f[p]
          /\ \A g \in Grains, b \in Buckets : b # "reserved" => WithReserved(f)[g][b] = balance[g][b]
      <4> HIDE DEF f
      <4> QED BY <1>2, <1>4, WithReservedRows DEF f
    <3>2. "onHand" \in Buckets /\ "onHand" # "reserved"
      BY DEF Buckets
    <3>3. \A p \in Products : Reserved(p) >= 0 => f[p] >= 0
      BY <1>3
    <3> QED BY <2>1, <3>1, <3>2, <3>3 DEF RowsKept, Reserved
  <2>2. CASE balance' = balance
    BY <2>2, SameRows
  <2>3. balance' = WithReserved(Reserving(r)) \/ balance' = balance
    BY DEF Confirm, Reserving
  <2> QED BY <2>1, <2>2, <2>3
<1>6. resStatus' \in [Reservations -> ReservationStatus]
  <2>1. resStatus \in [Reservations -> ReservationStatus] /\ "RESERVED" \in ReservationStatus
    BY DEF ResTypeInv, DataTypes, ReservationStatus
  <2>2. resStatus' = resStatus \/ resStatus' = [resStatus EXCEPT ![r] = "RESERVED"]
    BY DEF Confirm
  <2> QED BY <1>1, <2>1, <2>2
<1>7. DataTypes'
  <2>1. UNCHANGED << movements, consumed, relStatus, approved >>
    BY DEF Confirm
  <2> QED BY <1>5, <1>6, <2>1 DEF ResTypeInv, DataTypes, RowsKept
<1>8. JobsSound(pc', job') /\ failures' \in 0 .. MaxFailures
  BY DoneTypes DEF Confirm, Done, ResTypeInv
<1> QED BY <1>5, <1>7, <1>8 DEF ResTypeInv

(* What a reservation that ends gives back. *)
LEMMA ReturnedKept ==
    ASSUME ResTypeInv, NEW r, NEW used \in [LineIds -> Nat], balance' = Returned(r, used)
    PROVE  RowsKept
<1>1. balance \in Balances
  BY DEF ResTypeInv, DataTypes
<1>2. /\ Returned(r, used) \in Balances
      /\ \A g \in Grains, b \in Buckets : b # "reserved" => Returned(r, used)[g][b] = balance[g][b]
      /\ \A p \in Products : Reserved(p) >= 0 => Returned(r, used)[Nil[p]]["reserved"] >= 0
  BY <1>1, ReturnedRows
<1>3. "onHand" \in Buckets /\ "onHand" # "reserved"
  BY DEF Buckets
<1> QED BY <1>2, <1>3 DEF RowsKept, Reserved

(* So does releasing or cancelling a reservation, .. *)
LEMMA ReturnStep ==
    ASSUME ResTypeInv, NEW w \in Workers, ReturnReserved(w)
    PROVE  ResTypeInv' /\ RowsKept
<1> DEFINE r == job[w].doc
           op == job[w].op
<1>1. /\ pc[w] # "idle" /\ op \in {"release", "cancel"}
      /\ r \in Reservations /\ job[w].used \in [LineIds -> Nat]
  BY HandlingFields DEF ReturnReserved, Handling, ReservationOps
<1>2. RowsKept
  <2>1. CASE balance' = Returned(r, job[w].used)
    BY <1>1, <2>1, ReturnedKept
  <2>2. CASE balance' = balance
    BY <2>2, SameRows
  <2> QED BY <2>1, <2>2 DEF ReturnReserved
<1>3. resStatus' \in [Reservations -> ReservationStatus]
  <2>1. resStatus \in [Reservations -> ReservationStatus] /\ Target[op] \in ReservationStatus
    BY <1>1 DEF ResTypeInv, DataTypes, ReservationStatus, Target
  <2>2. resStatus' = [resStatus EXCEPT ![r] = Target[op]]
    BY DEF ReturnReserved
  <2> QED BY <1>1, <2>1, <2>2
<1>4. DataTypes'
  <2>1. UNCHANGED << movements, consumed, relStatus, approved >>
    BY DEF ReturnReserved
  <2> QED BY <1>2, <1>3, <2>1 DEF ResTypeInv, DataTypes, RowsKept
<1>5. JobsSound(pc', job') /\ failures' \in 0 .. MaxFailures
  BY DoneTypes DEF ReturnReserved, Done, ResTypeInv
<1> QED BY <1>2, <1>4, <1>5 DEF ResTypeInv

(* .. and expiring one. *)
LEMMA ExpireStep ==
    ASSUME ResTypeInv, NEW w \in Workers, Expire(w)
    PROVE  ResTypeInv' /\ RowsKept
<1> DEFINE r == job[w].doc
<1>1. pc[w] # "idle" /\ r \in Reservations /\ consumed \in [LineIds -> Nat]
  BY HandlingFields DEF Expire, Handling, ReservationOps, ResTypeInv, DataTypes
<1>2. RowsKept
  <2>1. CASE balance' = Returned(r, consumed)
    BY <1>1, <2>1, ReturnedKept
  <2>2. CASE balance' = balance
    BY <2>2, SameRows
  <2> QED BY <2>1, <2>2 DEF Expire
<1>3. resStatus' \in [Reservations -> ReservationStatus]
  <2>1. resStatus \in [Reservations -> ReservationStatus] /\ "EXPIRED" \in ReservationStatus
    BY DEF ResTypeInv, DataTypes, ReservationStatus
  <2>2. resStatus' = resStatus \/ resStatus' = [resStatus EXCEPT ![r] = "EXPIRED"]
    BY DEF Expire
  <2> QED BY <1>1, <2>1, <2>2
<1>4. DataTypes'
  <2>1. UNCHANGED << movements, consumed, relStatus, approved >>
    BY DEF Expire
  <2> QED BY <1>2, <1>3, <2>1 DEF ResTypeInv, DataTypes, RowsKept
<1>5. JobsSound(pc', job') /\ failures' \in 0 .. MaxFailures
  BY DoneTypes DEF Expire, Done, ResTypeInv
<1> QED BY <1>2, <1>4, <1>5 DEF ResTypeInv

(* What an approver grants are quantities for the items. *)
LEMMA QuantitiesOf ==
    ASSUME NEW s \in Releases, NEW qty \in Quantities(s)
    PROVE  ForItems(s, qty)
<1> DEFINE n == Len(Items[s])
           asked == { Items[s][i].qty : i \in DOMAIN Items[s] }
<1>1. n \in Nat /\ DOMAIN Items[s] = 1 .. n /\ \A i \in 1 .. n : Items[s][i].qty \in Nat
  BY ItemFields
<1>2. /\ qty \in [1 .. n -> 0 .. Max(asked)]
      /\ \A i \in 1 .. n : qty[i] <= Items[s][i].qty
  BY <1>1 DEF Quantities
<1>3. 1 .. n # {} => Max(asked) \in Nat
  <2> SUFFICES ASSUME 1 .. n # {} PROVE Max(asked) \in Nat
    OBVIOUS
  <2> DEFINE f == [i \in 1 .. n |-> Items[s][i].qty]
             total == SumOver(f, 1 .. n)
  <2>1. total \in Nat /\ \A i \in 1 .. n : f[i] <= total
    <3>1. IsFiniteSet(1 .. n) /\ \A i \in 1 .. n : f[i] \in Nat
      BY <1>1, FS_Interval
    <3> HIDE DEF f
    <3> QED BY <3>1, SumNat
  <2>2. asked # {} /\ asked \in SUBSET (1 .. total)
    <3>1. \A i \in 1 .. n : Items[s][i].qty \in 1 .. total
      <4>1. \A i \in 1 .. n : f[i] = Items[s][i].qty /\ Items[s][i].qty > 0
        BY <1>1, ItemFields
      <4> HIDE DEF f
      <4> QED BY <1>1, <2>1, <4>1
    <3> HIDE DEF total
    <3> QED BY <1>1, <3>1
  <2> HIDE DEF asked, total
  <2>3. Max(asked) \in asked
    BY <2>1, <2>2, MaxOfSet
  <2> DEFINE most == Max(asked)
  <2>4. most \in 1 .. total
    BY <2>2, <2>3
  <2> HIDE DEF most
  <2>5. most \in Nat
    BY <2>1, <2>4
  <2> QED BY <2>5 DEF most
<1> HIDE DEF asked
<1>4. \A i \in 1 .. n : qty[i] \in Nat
  <2> SUFFICES ASSUME NEW i \in 1 .. n PROVE qty[i] \in Nat
    OBVIOUS
  <2>1. qty[i] \in 0 .. Max(asked) /\ Max(asked) \in Nat
    BY <1>2, <1>3
  <2> QED BY <2>1
<1>5. qty \in [1 .. n -> Nat] /\ DOMAIN qty = 1 .. n
  BY <1>2, <1>4
<1>6. qty \in Seq(Nat)
  BY <1>1, <1>5
<1> QED BY <1>1, <1>2, <1>5, <1>6 DEF ForItems

(* Moving a release on keeps the types, .. *)
LEMMA AdvanceStep ==
    ASSUME ResTypeInv, NEW w \in Workers, Advance(w)
    PROVE  ResTypeInv' /\ RowsKept
<1> DEFINE s == job[w].doc
           op == job[w].op
<1>1. s \in Releases /\ op \in ReleaseOps \ {"post"}
  BY HandlingFields DEF Advance
<1>2. UNCHANGED << balance, movements, resStatus, consumed >>
  BY DEF Advance, stockVars
<1>3. relStatus' \in [Releases -> ReleaseStatus]
  <2>1. To[op] \in ReleaseStatus /\ relStatus \in [Releases -> ReleaseStatus]
    BY <1>1 DEF To, ReleaseStatus, ReleaseOps, ResTypeInv, DataTypes
  <2>2. relStatus' = [relStatus EXCEPT ![s] = To[op]]
    BY DEF Advance
  <2> QED BY <1>1, <2>1, <2>2
<1>4. approved' \in [Releases -> Seq(Nat)] /\ \A x \in Releases : ForItems(x, approved'[x])
  <2>1. approved \in [Releases -> Seq(Nat)] /\ \A x \in Releases : ForItems(x, approved[x])
    BY DEF ResTypeInv, DataTypes
  <2>2. CASE op = "approve"
    <3>1. PICK qty \in Quantities(s) : approved' = [approved EXCEPT ![s] = qty]
      BY <2>2 DEF Advance
    <3>2. ForItems(s, qty) /\ qty \in Seq(Nat)
      BY <1>1, QuantitiesOf DEF ForItems
    <3>3. approved' \in [Releases -> Seq(Nat)]
      BY <1>1, <2>1, <3>1, <3>2
    <3>4. ASSUME NEW x \in Releases PROVE approved'[x] = IF x = s THEN qty ELSE approved[x]
      BY <1>1, <2>1, <3>1
    <3> QED BY <2>1, <3>2, <3>3, <3>4
  <2>3. CASE op # "approve"
    BY <2>1, <2>3 DEF Advance
  <2> QED BY <2>2, <2>3
<1>5. DataTypes'
  BY <1>2, <1>3, <1>4 DEF ResTypeInv, DataTypes
<1>6. JobsSound(pc', job') /\ failures' \in 0 .. MaxFailures
  BY DoneTypes DEF Advance, Done, ResTypeInv
<1> QED BY <1>2, <1>5, <1>6, SameRows DEF ResTypeInv

(* .. and so does validating it, .. *)
LEMMA ValidateStep ==
    ASSUME ResTypeInv, NEW w \in Workers, Validate(w)
    PROVE  ResTypeInv' /\ RowsKept
<1> DEFINE j == job[w]
           s == j.doc
<1>1. Sound(j, "loaded") /\ j.op = "post" /\ DOMAIN job = Workers /\ pc[w] = "loaded"
  BY JobFields DEF Validate, Handling
<1>2. DataTypes' /\ UNCHANGED balance /\ failures' = failures
  BY DEF Validate, stockVars, docVars, Done, ResTypeInv, DataTypes
<1>3. JobsSound(pc', job')
  <2>1. CASE /\ pc' = [pc EXCEPT ![w] = "validated"]
             /\ \E lot \in Allocations(s, j.qty) : job' = [job EXCEPT ![w].lot = lot]
    <3>1. PICK lot \in Allocations(s, j.qty) : job' = [job EXCEPT ![w].lot = lot]
      BY <2>1
    <3> DEFINE k == [j EXCEPT !.lot = lot]
    <3>2. /\ j \in JobType /\ s \in Releases /\ ForItems(s, j.qty)
          /\ ApprovedItems(s, j.qty) # {} /\ j.key \in KeysOf[s]
      BY <1>1 DEF Sound, ReleaseOps
    <3>3. lot \in [DOMAIN Items[s] -> Grains]
      BY DEF Allocations
    <3>4. lot \in Seq(Grains)
      BY <3>2, <3>3, ItemFields
    <3>5. \A i \in DOMAIN Items[s] : RowFits(Items[s][i].product, lot[i])
      BY DEF Allocations, RowFits
    <3>6. /\ k \in JobType /\ k.op = j.op /\ k.doc = j.doc /\ k.qty = j.qty /\ k.key = j.key
          /\ k.lot = lot
      <4> HIDE DEF s
      <4>1. k \in JobType
        BY <3>2, <3>4 DEF JobType
      <4> QED BY <3>2, <4>1 DEF JobType
    <3>7. job' = [job EXCEPT ![w] = k]
      BY <1>1, <3>1
    <3> HIDE DEF k
    <3>8. Sound(k, "validated")
      BY <1>1, <3>2, <3>5, <3>6 DEF Sound, ReservationOps
    <3>9. "validated" \in Phases \ {"idle"} /\ JobsSound(pc, job)
      BY DEF Phases, ResTypeInv
    <3>10. JobsSound([pc EXCEPT ![w] = "validated"], [job EXCEPT ![w] = k])
      BY <3>8, <3>9, JobsStep
    <3> QED BY <2>1, <3>7, <3>10
  <2>2. CASE Done(w)
    BY <2>2, DoneTypes DEF Done
  <2> QED BY <2>1, <2>2 DEF Validate
<1> QED BY <1>2, <1>3, SameRows DEF ResTypeInv

(* .. posting it, whose rows the ledger's guards keep from going below zero, .. *)
LEMMA PostStep ==
    ASSUME ResTypeInv, NEW w \in Workers, PostToLedger(w)
    PROVE  ResTypeInv' /\ RowsKept
<1> DEFINE j == job[w]
<1>1. pc[w] = "validated" /\ Sound(j, "validated") /\ DOMAIN job = Workers
  BY JobFields DEF PostToLedger
<1>2. failures' = failures /\ UNCHANGED docVars
  BY DEF PostToLedger, Done
<1>3. \/ UNCHANGED stockVars
      \/ Post([key |-> j.key, ref |-> j.doc, lines |-> PostingLines(j), reversalOf |-> 0], j.doc)
  BY DEF PostToLedger
<1>4. RowsKept /\ movements' \in Seq(Movement)
  <2>1. CASE UNCHANGED stockVars
    BY <2>1, SameRows DEF stockVars, ResTypeInv, DataTypes
  <2>2. CASE Post([key |-> j.key, ref |-> j.doc, lines |-> PostingLines(j), reversalOf |-> 0], j.doc)
    <3>1. /\ balance' \in Balances /\ movements' \in Seq(Movement)
          /\ \A g \in Grains, b \in Buckets : balance[g][b] >= 0 => balance'[g][b] >= 0
      <4> HIDE DEF j
      <4> QED BY <1>1, <2>2, PostingWrites
    <3>2. "onHand" \in Buckets /\ "reserved" \in Buckets /\ \A p \in Products : Nil[p] \in Grains
      BY ReservationsAssumption DEF Buckets
    <3> QED BY <3>1, <3>2 DEF RowsKept
  <2> QED BY <1>3, <2>1, <2>2
<1>5. DataTypes'
  BY <1>2, <1>4 DEF ResTypeInv, DataTypes, docVars, RowsKept
<1>6. JobsSound(pc', job')
  <2>1. CASE pc' = [pc EXCEPT ![w] = "posted"] /\ job' = job
    <3>1. Sound(j, "posted") /\ "posted" \in Phases \ {"idle"} /\ JobsSound(pc, job)
      BY <1>1 DEF Sound, Phases, ResTypeInv
    <3>2. JobsSound([pc EXCEPT ![w] = "posted"], [job EXCEPT ![w] = j])
      BY <3>1, JobsStep
    <3>3. [job EXCEPT ![w] = j] = job
      BY DEF ResTypeInv, JobsSound
    <3> QED BY <2>1, <3>2, <3>3
  <2>2. CASE Done(w)
    BY <2>2, DoneTypes DEF Done
  <2> QED BY <2>1, <2>2 DEF PostToLedger
<1> QED BY <1>2, <1>4, <1>5, <1>6 DEF ResTypeInv

(* The statuses that recording decides on. *)
LEMMA RolledStatus ==
    ASSUME NEW s, NEW qty, NEW r
    PROVE  Rolled(s, qty, r) \in {"CONSUMED", "PARTIALLY_CONSUMED"}
BY DEF Rolled

(* .. recording what it consumes .. *)
LEMMA RecordStep ==
    ASSUME ResTypeInv, NEW w \in Workers, Record(w)
    PROVE  ResTypeInv' /\ RowsKept
<1> DEFINE j == job[w]
           used == ReservationsUsed(j.doc, j.qty)
           rolled == [r \in used |-> Rolled(j.doc, j.qty, r)]
           k == [j EXCEPT !.rolled = rolled]
<1>1. pc[w] = "posted" /\ Sound(j, "posted") /\ DOMAIN job = Workers
  BY JobFields DEF Record
<1>2. failures' = failures /\ UNCHANGED << stockVars, docVars >>
  BY DEF Record
<1>3. j \in JobType /\ j.op = "post" /\ j.doc \in Releases /\ ForItems(j.doc, j.qty)
  BY <1>1 DEF Sound, ReleaseOps
<1>4. used \in SUBSET Reservations
  <2>1. \A l \in LinesUsed(j.doc, j.qty) : l \in LineIds
    BY <1>3, ApprovedItemsFinite, ItemFields DEF LinesUsed
  <2> QED BY <2>1, LineFields DEF ReservationsUsed
<1>5. rolled \in [used -> {"CONSUMED", "PARTIALLY_CONSUMED"}]
  BY RolledStatus
<1>6. rolled \in UNION { [R -> ReservationStatus] : R \in SUBSET Reservations }
  <2>1. rolled \in [used -> ReservationStatus]
    <3>1. {"CONSUMED", "PARTIALLY_CONSUMED"} \subseteq ReservationStatus
      BY DEF ReservationStatus
    <3> HIDE DEF rolled, used
    <3> QED BY <1>5, <3>1
  <2> HIDE DEF rolled, used
  <2> QED BY <1>4, <2>1
<1>7. /\ k \in JobType /\ k.op = j.op /\ k.doc = j.doc /\ k.qty = j.qty /\ k.key = j.key
      /\ k.lot = j.lot /\ k.rolled = rolled
  <2> HIDE DEF rolled, j
  <2>1. k \in JobType
    BY <1>3, <1>6 DEF JobType
  <2> QED BY <1>3, <2>1 DEF JobType
<1>8. job' = [job EXCEPT ![w] = k] /\ pc' = [pc EXCEPT ![w] = "recorded"]
  BY <1>1 DEF Record
<1>9. used = ReservationsUsed(k.doc, k.qty)
  BY <1>7
<1> HIDE DEF rolled, used, k
<1>10. Sound(k, "recorded")
  BY <1>1, <1>3, <1>5, <1>7, <1>9 DEF Sound, ReservationOps
<1>11. JobsSound(pc', job')
  <2>1. "recorded" \in Phases \ {"idle"} /\ JobsSound(pc, job)
    BY DEF Phases, ResTypeInv
  <2>2. JobsSound([pc EXCEPT ![w] = "recorded"], [job EXCEPT ![w] = k])
    BY <1>10, <2>1, JobsStep
  <2> QED BY <1>8, <2>2
<1>12. DataTypes' /\ RowsKept
  BY <1>2, SameRows DEF ResTypeInv, DataTypes, stockVars, docVars
<1> QED BY <1>2, <1>11, <1>12 DEF ResTypeInv

(* What closing a release leaves reserved. *)
Closing(s, qty) == [p \in Products |-> Reserved(p) - BatchTaken(s, qty, p)]

(* .. and closing it: it takes reserved stock of batch-tracked products only. *)
LEMMA CloseStep ==
    ASSUME ResTypeInv, NEW w \in Workers, Close(w)
    PROVE  ResTypeInv' /\ RowsKept
<1> DEFINE j == job[w]
           s == j.doc
           f == Closing(s, j.qty)
<1>1. pc[w] = "recorded" /\ Sound(j, "recorded") /\ balance \in Balances
  BY JobFields DEF Close, ResTypeInv, DataTypes
<1>2. /\ j \in JobType /\ j.op = "post" /\ s \in Releases /\ ForItems(s, j.qty)
      /\ j.rolled \in [ReservationsUsed(s, j.qty) -> {"CONSUMED", "PARTIALLY_CONSUMED"}]
  BY <1>1 DEF Sound, ReleaseOps
<1>3. ASSUME NEW p \in Products
      PROVE f[p] = Reserved(p) - BatchTaken(s, j.qty, p) /\ f[p] \in Int /\ (Lots[p] = {} => f[p] = Reserved(p))
  BY <1>1, <1>2, BatchTakenOf, ReservedInt DEF Closing
<1>4. f \in [Products -> Int]
  BY <1>3 DEF Closing
<1>5. balance' = WithReserved(f)
  BY DEF Close, Closing
<1>6. RowsKept
  <2> HIDE DEF f
  <2>1. /\ WithReserved(f) \in Balances
        /\ \A p \in Products : WithReserved(f)[Nil[p]]["reserved"] = f[p]
        /\ \A g \in Grains, b \in Buckets : b # "reserved" => WithReserved(f)[g][b] = balance[g][b]
    BY <1>1, <1>4, WithReservedRows
  <2>2. "onHand" \in Buckets /\ "onHand" # "reserved"
    BY DEF Buckets
  <2> QED BY <1>3, <1>5, <2>1, <2>2 DEF RowsKept, Reserved
<1>7. consumed' \in [LineIds -> Nat]
  <2>1. consumed \in [LineIds -> Nat] /\ \A l \in LineIds : Taken(s, j.qty, l) \in Nat
    BY <1>2, TakenOf DEF ResTypeInv, DataTypes
  <2>2. consumed' = [l \in LineIds |-> consumed[l] + Taken(s, j.qty, l)]
    BY DEF Close
  <2> QED BY <2>1, <2>2
<1>8. resStatus' \in [Reservations -> ReservationStatus]
  <2>1. /\ resStatus \in [Reservations -> ReservationStatus]
        /\ {"CONSUMED", "PARTIALLY_CONSUMED"} \subseteq ReservationStatus
    BY DEF ResTypeInv, DataTypes, ReservationStatus
  <2>2. resStatus' = [r \in Reservations |->
                         IF r \in DOMAIN j.rolled THEN j.rolled[r] ELSE resStatus[r]]
    BY DEF Close
  <2>3. \A r \in Reservations :
           (IF r \in DOMAIN j.rolled THEN j.rolled[r] ELSE resStatus[r]) \in ReservationStatus
    BY <1>2, <2>1
  <2> QED BY <2>2, <2>3
<1>9. relStatus' \in [Releases -> ReleaseStatus]
  <2>1. relStatus \in [Releases -> ReleaseStatus] /\ "RELEASED" \in ReleaseStatus
    BY DEF ResTypeInv, DataTypes, ReleaseStatus
  <2>2. relStatus' = [relStatus EXCEPT ![s] = "RELEASED"]
    BY DEF Close
  <2> QED BY <1>2, <2>1, <2>2
<1>10. DataTypes'
  <2>1. UNCHANGED << movements, approved >>
    BY DEF Close
  <2> QED BY <1>6, <1>7, <1>8, <1>9, <2>1 DEF ResTypeInv, DataTypes, RowsKept
<1>11. JobsSound(pc', job') /\ failures' \in 0 .. MaxFailures
  BY DoneTypes DEF Close, Done, ResTypeInv
<1> QED BY <1>6, <1>10, <1>11 DEF ResTypeInv

(* The steps that load a document. *)
LEMMA LoadStep ==
    ASSUME ResTypeInv, NEW w \in Workers,
           \/ \E op \in ReservationOps, r \in Reservations : LoadReservation(w, op, r)
           \/ \E r \in Reservations : FindDue(w, r)
           \/ \E op \in ReleaseOps, s \in Releases : LoadRelease(w, op, s)
           \/ \E s \in Releases : \E key \in KeysOf[s] : LoadPost(w, s, key)
    PROVE  ResTypeInv' /\ RowsKept
<1>1. \E j : Sound(j, "loaded") /\ Start(w, j)
  <2>1. ASSUME NEW op \in ReservationOps, NEW r \in Reservations, LoadReservation(w, op, r)
        PROVE  \E j : Sound(j, "loaded") /\ Start(w, j)
    <3>1. resStatus[r] \in ReservationStatus \cup {"none"}
      BY DEF ResTypeInv, DataTypes
    <3> DEFINE st == resStatus[r]
    <3>2. Start(w, [Job(op, r) EXCEPT !.status = st])
      BY <2>1 DEF LoadReservation
    <3> HIDE DEF st
    <3>3. Sound([Job(op, r) EXCEPT !.status = st], "loaded")
      BY <3>1, NewJobSound DEF st
    <3> QED BY <3>2, <3>3
  <2>2. ASSUME NEW r \in Reservations, FindDue(w, r)
        PROVE  \E j : Sound(j, "loaded") /\ Start(w, j)
    <3> DEFINE op == "expire"
    <3>1. op \in ReservationOps
      BY DEF ReservationOps
    <3> HIDE DEF op
    <3>2. Sound(Job(op, r), "loaded")
      BY <3>1, PlainJobSound
    <3> QED BY <2>2, <3>2 DEF FindDue, op
  <2>3. ASSUME NEW op \in ReleaseOps, NEW s \in Releases, LoadRelease(w, op, s)
        PROVE  \E j : Sound(j, "loaded") /\ Start(w, j)
    <3>1. op \in ReleaseOps \ {"post"} /\ Start(w, Job(op, s))
      BY <2>3 DEF LoadRelease
    <3>2. Sound(Job(op, s), "loaded")
      BY <3>1, PlainJobSound
    <3> QED BY <3>1, <3>2
  <2>4. ASSUME NEW s \in Releases, NEW key \in KeysOf[s], LoadPost(w, s, key)
        PROVE  \E j : Sound(j, "loaded") /\ Start(w, j)
    BY <2>4, NewPostSound DEF LoadPost
  <2> QED BY <2>1, <2>2, <2>3, <2>4
<1>2. PICK j : Sound(j, "loaded") /\ Start(w, j)
  BY <1>1
<1>3. UNCHANGED balance
  BY <1>2 DEF Start, stockVars
<1> QED BY <1>2, <1>3, StartTypes, SameRows

(* .. and the failure of a handler. *)
LEMMA FailStep ==
    ASSUME ResTypeInv, NEW w \in Workers, Fail(w)
    PROVE  ResTypeInv' /\ RowsKept
<1>1. DataTypes' /\ UNCHANGED balance
  BY DEF Fail, stockVars, docVars, ResTypeInv, DataTypes
<1>2. failures' \in 0 .. MaxFailures
  BY ReservationsAssumption DEF Fail, ResTypeInv
<1>3. JobsSound(pc', job')
  BY DoneTypes DEF Fail
<1> QED BY <1>1, <1>2, <1>3, SameRows DEF ResTypeInv

(* To begin with, everything is of its type. *)
LEMMA ResInit ==
    ASSUME Init
    PROVE  ResTypeInv
<1>1. balance \in Balances
  <2>1. ASSUME NEW g \in Grains PROVE balance[g] \in Row
    <3> DEFINE o == Opening[g]
    <3>1. o \in Int
      <4>1. o \in Nat
        BY ReservationsAssumption
      <4> HIDE DEF o
      <4> QED BY <4>1
    <3>2. balance[g] = [EmptyRow EXCEPT !["onHand"] = o]
      BY DEF Init
    <3> HIDE DEF o
    <3> QED BY <3>1, <3>2 DEF EmptyRow, Row, Buckets
  <2> QED BY <2>1 DEF Init, Balances
<1>2. /\ movements \in Seq(Movement) /\ consumed \in [LineIds -> Nat]
      /\ resStatus \in [Reservations -> ReservationStatus]
      /\ relStatus \in [Releases -> ReleaseStatus]
  BY ReservationsAssumption DEF Init, ReservationStatus, ReleaseStatus
<1>3. ASSUME NEW s \in Releases PROVE ForItems(s, approved[s]) /\ approved[s] \in Seq(Nat)
  <2> DEFINE n == Len(Items[s])
  <2>1. n \in Nat /\ DOMAIN Items[s] = 1 .. n /\ \A i \in 1 .. n : Items[s][i].qty \in Nat
    BY ItemFields
  <2>2. approved[s] = [i \in 1 .. n |-> IF InitialReleaseStatus = "APPROVED" THEN Items[s][i].qty ELSE 0]
    BY <2>1 DEF Init
  <2>3. approved[s] \in [1 .. n -> Nat] /\ \A i \in 1 .. n : approved[s][i] <= Items[s][i].qty
    BY <2>1, <2>2
  <2>4. approved[s] \in Seq(Nat)
    BY <2>1, <2>3
  <2> QED BY <2>1, <2>3, <2>4 DEF ForItems
<1>4. approved \in [Releases -> Seq(Nat)]
  BY <1>3 DEF Init
<1>5. JobsSound(pc, job) /\ failures \in 0 .. MaxFailures
  BY ReservationsAssumption DEF Init, JobsSound, Phases
<1> QED BY <1>1, <1>2, <1>3, <1>4, <1>5 DEF ResTypeInv, DataTypes

(* Every step keeps the types, and rows at or above zero. *)
LEMMA ResNext ==
    ASSUME ResTypeInv, [Next]_vars
    PROVE  ResTypeInv' /\ RowsKept
<1>1. ASSUME NEW w \in Workers, Handle(w) PROVE ResTypeInv' /\ RowsKept
  BY <1>1, ConfirmStep, ReturnStep, ExpireStep, AdvanceStep, ValidateStep, PostStep, RecordStep,
     CloseStep DEF Handle
<1>2. ASSUME NEW w \in Workers, Fail(w) PROVE ResTypeInv' /\ RowsKept
  BY <1>2, FailStep
<1>3. ASSUME UNCHANGED vars PROVE ResTypeInv' /\ RowsKept
  <2>1. UNCHANGED balance
    BY <1>3 DEF vars
  <2>2. ResTypeInv'
    BY <1>3 DEF vars, ResTypeInv, DataTypes
  <2> QED BY <2>1, <2>2, SameRows
<1>4. ASSUME NEW w \in Workers,
             \/ \E op \in ReservationOps, r \in Reservations : LoadReservation(w, op, r)
             \/ \E r \in Reservations : FindDue(w, r)
             \/ \E op \in ReleaseOps, s \in Releases : LoadRelease(w, op, s)
             \/ \E s \in Releases : \E key \in KeysOf[s] : LoadPost(w, s, key)
      PROVE  ResTypeInv' /\ RowsKept
  BY <1>4, LoadStep
<1> QED BY <1>1, <1>2, <1>3, <1>4 DEF Next, Quiet

(* What the handlers hold is of its type, in every phase (TypeOK and more). *)
THEOREM ReservationTypes == Spec => []ResTypeInv
<1>1. Init => ResTypeInv
  BY ResInit
<1>2. ResTypeInv /\ [Next]_vars => ResTypeInv'
  BY ResNext
<1> QED BY <1>1, <1>2, PTL DEF Spec

(* Every variable holds a value of its kind. *)
THEOREM ReservationsTypeCorrect == Spec => []TypeOK
<1>1. ResTypeInv => TypeOK
  <2> SUFFICES ASSUME ResTypeInv PROVE TypeOK
    OBVIOUS
  <2>1. \A s \in Releases : /\ DOMAIN approved[s] = DOMAIN Items[s]
                            /\ \A i \in DOMAIN Items[s] : approved[s][i] \in 0 .. Items[s][i].qty
    BY ItemFields DEF ResTypeInv, DataTypes, ForItems
  <2>2. \A w \in Workers : IF pc[w] = "idle" THEN job[w] = NoJob ELSE job[w] \in JobType
    BY DEF ResTypeInv, JobsSound, Sound
  <2> QED BY <2>1, <2>2 DEF TypeOK, ResTypeInv, DataTypes, JobsSound, Phases, Balances
<1> QED BY <1>1, ReservationTypes, PTL

(* However the handlers race, fail and come back, no physical row and no     *)
(* reserved bucket of a product without lots goes below zero.                *)
THEOREM RowsStayNonNegative == Spec => []RowsNeverNegative
<1>1. Init => RowsNeverNegative
  <2> SUFFICES ASSUME Init PROVE RowsNeverNegative
    OBVIOUS
  <2>1. ASSUME NEW g \in Grains PROVE balance[g]["onHand"] >= 0 /\ balance[g]["reserved"] >= 0
    <3>1. Opening[g] \in Nat
      BY ReservationsAssumption
    <3>2. balance[g]["onHand"] = Opening[g] /\ balance[g]["reserved"] = 0
      BY DEF Init, EmptyRow, Buckets
    <3> QED BY <3>1, <3>2
  <2> QED BY <2>1, ReservationsAssumption DEF RowsNeverNegative, Reserved
<1>2. ResTypeInv /\ RowsNeverNegative /\ [Next]_vars => RowsNeverNegative'
  <2> SUFFICES ASSUME ResTypeInv, RowsNeverNegative, [Next]_vars PROVE RowsNeverNegative'
    OBVIOUS
  <2>1. RowsKept
    BY ResNext
  <2> QED BY <2>1 DEF RowsKept, RowsNeverNegative, Reserved
<1> QED BY <1>1, <1>2, ReservationTypes, PTL DEF Spec

-----------------------------------------------------------------------------
(* A release's stock leaves once *)

(* Requests to post a release come with its own key, the default one of      *)
(* post(): stock_release:<id>.                                               *)
OwnKeys ==
    /\ \A s \in Releases : \A k, l \in KeysOf[s] : k = l
    /\ \A s, t \in Releases : s # t => KeysOf[s] \cap KeysOf[t] = {}

PostedBy(s) == { i \in DOMAIN movements : movements[i].ref = s }

(* Keys tell releases apart, a release that has posted has left its key, and *)
(* a handler past the ledger has posted, or found that another has.          *)
KeyInv ==
    /\ \A i \in DOMAIN movements : movements[i].key # NoKey =>
           movements[i].ref \in Releases /\ movements[i].key \in KeysOf[movements[i].ref]
    /\ \A s \in Releases : PostedBy(s) # {} => \E i \in PostedBy(s) : movements[i].key \in KeysOf[s]
    /\ \A w \in Workers : pc[w] \in {"posted", "recorded"} => PostedBy(job[w].doc) # {}

(* A handler begins, goes on or ends. *)
Moves(w, phase, j) == pc' = [pc EXCEPT ![w] = phase] /\ job' = [job EXCEPT ![w] = j]

(* Others are where they were. *)
LEMMA MovesOne ==
    ASSUME ResTypeInv, NEW w \in Workers, NEW phase, NEW j, Moves(w, phase, j)
    PROVE  /\ pc'[w] = phase /\ job'[w] = j
           /\ \A v \in Workers : v # w => pc'[v] = pc[v] /\ job'[v] = job[v]
BY DEF Moves, ResTypeInv, JobsSound

(* A step that posts nothing. *)
LEMMA KeysSame ==
    ASSUME ResTypeInv, KeyInv, StockLeavesOnce, UNCHANGED movements,
           NEW w \in Workers, NEW phase, NEW j, Moves(w, phase, j),
           phase \in {"posted", "recorded"} => PostedBy(j.doc) # {},
           \A s \in Releases : relStatus'[s] = "RELEASED" => relStatus[s] = "RELEASED" \/ PostedBy(s) # {}
    PROVE  KeyInv' /\ StockLeavesOnce'
<1>1. \A s : PostedBy(s)' = PostedBy(s)
  BY DEF PostedBy
<1>2. \A v \in Workers : pc'[v] \in {"posted", "recorded"} => PostedBy(job'[v].doc) # {}
  BY MovesOne DEF KeyInv
<1>3. KeyInv'
  BY <1>1, <1>2 DEF KeyInv, PostedBy
<1>4. StockLeavesOnce'
  BY <1>1 DEF StockLeavesOnce, PostedBy
<1> QED BY <1>3, <1>4

(* The posting of a release. *)
LEMMA KeysPosted ==
    ASSUME OwnKeys, ResTypeInv, KeyInv, StockLeavesOnce, UNCHANGED << relStatus, job >>,
           NEW w \in Workers, NEW j, j = job[w], Sound(j, "validated"), pc[w] = "validated",
           pc' = [pc EXCEPT ![w] = "posted"],
           Post([key |-> j.key, ref |-> j.doc, lines |-> PostingLines(j), reversalOf |-> 0], j.doc)
    PROVE  KeyInv' /\ StockLeavesOnce'
<1> DEFINE n == Len(movements)
           m == Len(PostingLines(j))
           d == j.doc
<1>1. /\ KeyedBy(movements, j.key) = {}
      /\ movements' \in Seq(Movement)
      /\ n \in Nat /\ m \in Nat /\ 1 <= m /\ m <= Len(Items[d]) /\ Len(movements') = n + m
      /\ \A i \in 1 .. n : movements'[i] = movements[i]
      /\ \A i \in n + 1 .. n + m : movements'[i].ref = d
      /\ movements'[n + 1].key = j.key
      /\ \A i \in n + 1 .. n + m : movements'[i].key \in {j.key, NoKey}
  BY PostingWrites
<1>2. /\ d \in Releases /\ j.key \in KeysOf[d] /\ j.key # NoKey
      /\ \A k \in KeysOf[d] : k = j.key
      /\ \A s \in Releases : s # d => j.key \notin KeysOf[s]
  BY ReservationsAssumption DEF Sound, ReleaseOps, OwnKeys
<1>3. DOMAIN movements = 1 .. n /\ DOMAIN movements' = 1 .. n + m
  BY <1>1 DEF ResTypeInv, DataTypes
<1> HIDE DEF n, m
<1>4. PostedBy(d) = {}
  <2> SUFFICES ASSUME PostedBy(d) # {} PROVE FALSE
    OBVIOUS
  <2>1. PICK i \in PostedBy(d) : movements[i].key \in KeysOf[d]
    BY <1>2 DEF KeyInv
  <2>2. i \in KeyedBy(movements, j.key)
    BY <1>2, <2>1 DEF KeyedBy, PostedBy
  <2> QED BY <1>1, <2>2
<1>5. \A i \in 1 .. n + m : i \in 1 .. n \/ i \in n + 1 .. n + m
  BY <1>1
<1>6. 1 .. n \subseteq 1 .. n + m /\ n + 1 .. n + m \subseteq 1 .. n + m /\ n + 1 \in n + 1 .. n + m
  BY <1>1
<1>7. PostedBy(d)' = n + 1 .. n + m
  <2>1. \A i \in 1 .. n : movements'[i].ref # d
    BY <1>1, <1>3, <1>4 DEF PostedBy
  <2>2. PostedBy(d)' = { i \in 1 .. n + m : movements'[i].ref = d }
    BY <1>3 DEF PostedBy
  <2> HIDE DEF d
  <2> QED BY <1>1, <1>5, <1>6, <2>1, <2>2
<1>8. \A s : s # d => PostedBy(s)' = PostedBy(s)
  <2> SUFFICES ASSUME NEW s, s # d PROVE PostedBy(s)' = PostedBy(s)
    OBVIOUS
  <2>1. PostedBy(s)' = { i \in 1 .. n + m : movements'[i].ref = s }
    BY <1>3 DEF PostedBy
  <2>2. PostedBy(s) = { i \in 1 .. n : movements[i].ref = s }
    BY <1>3 DEF PostedBy
  <2> HIDE DEF d
  <2> QED BY <1>1, <1>5, <1>6, <2>1, <2>2
<1>9. \A i \in DOMAIN movements' : movements'[i].key # NoKey =>
         movements'[i].ref \in Releases /\ movements'[i].key \in KeysOf[movements'[i].ref]
  <2> SUFFICES ASSUME NEW i \in 1 .. n + m, movements'[i].key # NoKey
               PROVE  movements'[i].ref \in Releases /\ movements'[i].key \in KeysOf[movements'[i].ref]
    BY <1>3
  <2>1. CASE i \in 1 .. n
    BY <1>1, <1>3, <2>1 DEF KeyInv
  <2>2. CASE i \in n + 1 .. n + m
    BY <1>1, <1>2, <2>2
  <2> QED BY <1>5, <2>1, <2>2
<1>10. ASSUME NEW s \in Releases, PostedBy(s)' # {}
       PROVE  \E i \in PostedBy(s)' : movements'[i].key \in KeysOf[s]
  <2>1. CASE s = d
    BY <1>1, <1>2, <1>6, <1>7, <2>1
  <2>2. CASE s # d
    <3>1. PICK i \in PostedBy(s) : movements[i].key \in KeysOf[s]
      BY <1>8, <1>10, <2>2 DEF KeyInv
    <3>2. i \in 1 .. n /\ movements'[i] = movements[i]
      BY <1>1, <1>3, <3>1 DEF PostedBy
    <3> QED BY <1>8, <2>2, <3>1, <3>2
  <2> QED BY <2>1, <2>2
<1>11. PostedBy(d)' # {}
  BY <1>6, <1>7
<1>12. ASSUME NEW v \in Workers, pc'[v] \in {"posted", "recorded"}
       PROVE  \E i \in DOMAIN movements' : movements'[i].ref = job'[v].doc
  <2>1. pc \in [Workers -> Phases] /\ job'[v] = job[v]
    BY DEF ResTypeInv, JobsSound
  <2>2. CASE job[v].doc = d
    BY <1>1, <1>3, <1>6, <2>1, <2>2
  <2>3. CASE job[v].doc # d
    <3>1. v # w
      BY <2>3
    <3>2. PostedBy(job[v].doc) # {}
      BY <1>12, <2>1, <3>1 DEF KeyInv
    <3>3. PICK i \in 1 .. n : movements[i].ref = job[v].doc
      BY <1>3, <3>2 DEF PostedBy
    <3> QED BY <1>1, <1>3, <1>6, <2>1, <3>3
  <2> QED BY <2>2, <2>3
<1>13. KeyInv'
  <2>1. \A v \in Workers : pc'[v] \in {"posted", "recorded"} =>
           { i \in DOMAIN movements' : movements'[i].ref = job'[v].doc } # {}
    BY <1>12
  <2>2. \A s \in Releases : { i \in DOMAIN movements' : movements'[i].ref = s } # {} =>
           \E i \in { i \in DOMAIN movements' : movements'[i].ref = s } : movements'[i].key \in KeysOf[s]
    BY <1>10 DEF PostedBy
  <2> QED BY <1>9, <2>1, <2>2 DEF KeyInv, PostedBy
<1>14. Cardinality(n + 1 .. n + m) = m
  <2>1. n + 1 \in Int /\ n + m \in Int
    BY <1>1
  <2>2. Cardinality(n + 1 .. n + m) = IF n + 1 > n + m THEN 0 ELSE (n + m) - (n + 1) + 1
    BY <2>1, FS_Interval
  <2> QED BY <1>1, <2>2
<1>15. StockLeavesOnce'
  <2>1. ASSUME NEW s \in Releases
        PROVE  /\ Cardinality(PostedBy(s)') <= Len(Items[s])
               /\ relStatus[s] = "RELEASED" => PostedBy(s)' # {}
    <3>1. CASE s = d
      BY <1>1, <1>7, <1>11, <1>14, <3>1
    <3>2. CASE s # d
      BY <1>8, <3>2 DEF StockLeavesOnce, PostedBy
    <3> QED BY <3>1, <3>2
  <2> QED BY <2>1 DEF StockLeavesOnce, PostedBy
<1> QED BY <1>13, <1>15

(* No step breaks either. *)
LEMMA KeysNext ==
    ASSUME OwnKeys, ResTypeInv, KeyInv, StockLeavesOnce, [Next]_vars
    PROVE  KeyInv' /\ StockLeavesOnce'
<1>1. ASSUME NEW w \in Workers, Done(w), UNCHANGED movements,
             \A s \in Releases : relStatus'[s] = "RELEASED" => relStatus[s] = "RELEASED" \/ PostedBy(s) # {}
      PROVE  KeyInv' /\ StockLeavesOnce'
  <2>1. Moves(w, "idle", NoJob)
    BY <1>1 DEF Done, Moves
  <2> QED BY <1>1, <2>1, KeysSame
<1>2. ASSUME NEW w \in Workers, NEW j, Start(w, j)
      PROVE  KeyInv' /\ StockLeavesOnce'
  <2>1. Moves(w, "loaded", j) /\ UNCHANGED << movements, relStatus >>
    BY <1>2 DEF Start, Moves, stockVars, docVars
  <2> QED BY <2>1, KeysSame
<1>3. ASSUME NEW w \in Workers, Confirm(w) \/ ReturnReserved(w) \/ Expire(w)
      PROVE  KeyInv' /\ StockLeavesOnce'
  <2>1. Done(w) /\ UNCHANGED << movements, relStatus >>
    BY <1>3 DEF Confirm, ReturnReserved, Expire
  <2> QED BY <1>1, <2>1
<1>4. ASSUME NEW w \in Workers, Advance(w)
      PROVE  KeyInv' /\ StockLeavesOnce'
  <2>1. Done(w) /\ UNCHANGED movements
    BY <1>4 DEF Advance, stockVars
  <2>2. relStatus' = [relStatus EXCEPT ![job[w].doc] = To[job[w].op]] /\ To[job[w].op] # "RELEASED"
    BY <1>4 DEF Advance, To, ReleaseOps
  <2>3. \A s \in Releases : relStatus'[s] = "RELEASED" => relStatus[s] = "RELEASED"
    BY <2>2 DEF ResTypeInv, DataTypes
  <2> QED BY <1>1, <2>1, <2>3
<1>5. ASSUME NEW w \in Workers, Validate(w)
      PROVE  KeyInv' /\ StockLeavesOnce'
  <2>1. UNCHANGED << movements, relStatus >>
    BY <1>5 DEF Validate, stockVars, docVars
  <2>2. CASE Done(w)
    BY <1>1, <2>1, <2>2
  <2>3. CASE /\ pc' = [pc EXCEPT ![w] = "validated"]
             /\ \E lot \in Allocations(job[w].doc, job[w].qty) : job' = [job EXCEPT ![w].lot = lot]
    <3>1. PICK lot \in Allocations(job[w].doc, job[w].qty) : job' = [job EXCEPT ![w].lot = lot]
      BY <2>3
    <3>2. Moves(w, "validated", [job[w] EXCEPT !.lot = lot])
      BY <2>3, <3>1 DEF Moves, ResTypeInv, JobsSound
    <3> QED BY <2>1, <3>2, KeysSame
  <2> QED BY <1>5, <2>2, <2>3 DEF Validate
<1>6. ASSUME NEW w \in Workers, PostToLedger(w)
      PROVE  KeyInv' /\ StockLeavesOnce'
  <2> DEFINE j == job[w]
  <2>1. pc[w] = "validated" /\ Sound(j, "validated") /\ UNCHANGED relStatus
    BY <1>6, JobFields DEF PostToLedger, docVars
  <2>2. CASE KeyedBy(movements, j.key) # {} /\ UNCHANGED << movements, job >> /\ pc' = [pc EXCEPT ![w] = "posted"]
    <3>1. PICK i \in DOMAIN movements : j.key # NoKey /\ movements[i].key = j.key
      BY <2>2 DEF KeyedBy
    <3>2. j.doc \in Releases /\ j.key \in KeysOf[j.doc]
      BY <2>1 DEF Sound, ReleaseOps
    <3>3. movements[i].ref \in Releases /\ j.key \in KeysOf[movements[i].ref]
      BY <3>1 DEF KeyInv
    <3>4. movements[i].ref = j.doc
      BY <3>2, <3>3 DEF OwnKeys
    <3>5. PostedBy(j.doc) # {}
      BY <3>4 DEF PostedBy
    <3>6. Moves(w, "posted", j)
      BY <2>2 DEF Moves, ResTypeInv, JobsSound
    <3> QED BY <2>1, <2>2, <3>5, <3>6, KeysSame
  <2>3. CASE /\ Post([key |-> j.key, ref |-> j.doc, lines |-> PostingLines(j), reversalOf |-> 0], j.doc)
             /\ pc' = [pc EXCEPT ![w] = "posted"] /\ UNCHANGED job
    <3> HIDE DEF j
    <3>1. j = job[w]
      BY DEF j
    <3> QED BY <2>1, <2>3, <3>1, KeysPosted
  <2>4. CASE Done(w) /\ UNCHANGED movements
    BY <1>1, <2>1, <2>4
  <2> QED BY <1>6, <2>2, <2>3, <2>4 DEF PostToLedger, stockVars
<1>7. ASSUME NEW w \in Workers, Record(w)
      PROVE  KeyInv' /\ StockLeavesOnce'
  <2> DEFINE j == job[w]
             rolled == [r \in ReservationsUsed(j.doc, j.qty) |-> Rolled(j.doc, j.qty, r)]
             k == [j EXCEPT !.rolled = rolled]
  <2>1. pc[w] = "posted" /\ j \in JobType /\ UNCHANGED << movements, relStatus >>
    BY <1>7, JobFields DEF Record, stockVars, docVars, Sound
  <2>2. Moves(w, "recorded", k)
    BY <1>7 DEF Record, Moves, ResTypeInv, JobsSound
  <2>3. k.doc = j.doc
    <3> HIDE DEF rolled, j
    <3> QED BY <2>1 DEF JobType
  <2>4. PostedBy(k.doc) # {}
    BY <2>1, <2>3 DEF KeyInv
  <2> HIDE DEF k
  <2> QED BY <2>1, <2>2, <2>4, KeysSame
<1>8. ASSUME NEW w \in Workers, Close(w)
      PROVE  KeyInv' /\ StockLeavesOnce'
  <2>1. Done(w) /\ UNCHANGED movements /\ pc[w] = "recorded"
    BY <1>8 DEF Close
  <2>2. relStatus' = [relStatus EXCEPT ![job[w].doc] = "RELEASED"] /\ PostedBy(job[w].doc) # {}
    BY <1>8, <2>1 DEF Close, KeyInv
  <2>3. \A s \in Releases : relStatus'[s] = "RELEASED" => relStatus[s] = "RELEASED" \/ PostedBy(s) # {}
    BY <2>2 DEF ResTypeInv, DataTypes
  <2> QED BY <1>1, <2>1, <2>3
<1>9. ASSUME NEW w \in Workers, Fail(w)
      PROVE  KeyInv' /\ StockLeavesOnce'
  <2>1. Moves(w, "idle", NoJob) /\ UNCHANGED << movements, relStatus >>
    BY <1>9 DEF Fail, Moves, stockVars, docVars
  <2> QED BY <2>1, KeysSame
<1>10. ASSUME UNCHANGED vars
       PROVE  KeyInv' /\ StockLeavesOnce'
  <2>1. UNCHANGED << movements, pc, job, relStatus >>
    BY <1>10 DEF vars
  <2>2. KeyInv'
    BY <2>1 DEF KeyInv, PostedBy
  <2>3. StockLeavesOnce'
    BY <2>1 DEF StockLeavesOnce
  <2> QED BY <2>2, <2>3
<1>11. ASSUME NEW w \in Workers, Handle(w)
       PROVE  KeyInv' /\ StockLeavesOnce'
  BY <1>11, <1>3, <1>4, <1>5, <1>6, <1>7, <1>8 DEF Handle
<1>12. ASSUME NEW w \in Workers,
              \/ \E op \in ReservationOps, r \in Reservations : LoadReservation(w, op, r)
              \/ \E r \in Reservations : FindDue(w, r)
              \/ \E op \in ReleaseOps, s \in Releases : LoadRelease(w, op, s)
              \/ \E s \in Releases : \E key \in KeysOf[s] : LoadPost(w, s, key)
       PROVE  KeyInv' /\ StockLeavesOnce'
  BY <1>2, <1>12 DEF LoadReservation, FindDue, LoadRelease, LoadPost
<1> QED BY <1>9, <1>10, <1>11, <1>12 DEF Next, Quiet

(* The stock of a release leaves at most once under its key, and it has left *)
(* when the release says so, whatever raced, failed, or came back.           *)
THEOREM ReleasesLeaveOnce ==
    ASSUME OwnKeys
    PROVE  Spec => []StockLeavesOnce
<1>1. Init => KeyInv /\ StockLeavesOnce
  <2> SUFFICES ASSUME Init PROVE KeyInv /\ StockLeavesOnce
    OBVIOUS
  <2>1. \A s : PostedBy(s) = {}
    BY DEF Init, PostedBy
  <2>2. KeyInv
    BY <2>1 DEF Init, KeyInv
  <2>3. \A s \in Releases : relStatus[s] # "RELEASED"
    BY ReservationsAssumption DEF Init
  <2>4. Cardinality({}) = 0 /\ \A s \in Releases : Len(Items[s]) >= 0
    BY FS_EmptySet, ItemFields
  <2> QED BY <2>1, <2>2, <2>3, <2>4 DEF StockLeavesOnce, PostedBy
<1>2. ResTypeInv /\ KeyInv /\ StockLeavesOnce /\ [Next]_vars => KeyInv' /\ StockLeavesOnce'
  BY KeysNext
<1> QED BY <1>1, <1>2, ReservationTypes, PTL DEF Spec

-----------------------------------------------------------------------------
(* One handler at a time on a document *)

(* Only the expiry timer may be under way twice on one document. *)
Exclusive == MayOverlap \subseteq {"expire"}

(* Handlers that are under way on one document are all expiring it. *)
Alone ==
    \A v, w \in Workers :
        v # w /\ pc[v] # "idle" /\ pc[w] # "idle" /\ Documents(job[v]) \cap Documents(job[w]) # {}
        => job[v].op = "expire" /\ job[w].op = "expire"

(* What a handler has loaded and checked is so still, rs, cs, rel and app    *)
(* being the statuses, consumed quantities and approved quantities of now.   *)
Facts(j, phase, rs, cs, rel, app) ==
    /\ j.op = "confirm" => rs[j.doc] = "DRAFT"
    /\ j.op \in {"release", "cancel"} =>
          /\ j.status = rs[j.doc] /\ Target[j.op] \in Transitions[rs[j.doc]]
          /\ \A l \in LinesOf(j.doc) : j.used[l] = cs[l]
    /\ j.op \in ReleaseOps => rel[j.doc] \in From[j.op]
    /\ j.op = "post" => app[j.doc] = j.qty
    /\ phase \in {"validated", "posted", "recorded"} =>
          \A i \in ApprovedItems(j.doc, j.qty) :
             LET l == Items[j.doc][i].line
             IN  l # NoLine => rs[Lines[l].res] \in Active /\ j.qty[i] <= Lines[l].qty - cs[l]
    /\ phase = "recorded" =>
          \A r \in ReservationsUsed(j.doc, j.qty) :
             j.rolled[r] = IF \A l \in LinesOf(r) : cs[l] + Taken(j.doc, j.qty, l) >= Lines[l].qty
                           THEN "CONSUMED" ELSE "PARTIALLY_CONSUMED"

FactsInv ==
    /\ Alone
    /\ \A w \in Workers :
          pc[w] # "idle" => Facts(job[w], pc[w], resStatus, consumed, relStatus, approved)

(* A release that is being posted is approved, as it was when it was loaded. *)
LEMMA PostingFacts ==
    ASSUME NEW j, NEW phase, NEW rs, NEW cs, NEW rel, NEW app,
           j.op = "post", Facts(j, phase, rs, cs, rel, app)
    PROVE  rel[j.doc] = "APPROVED" /\ app[j.doc] = j.qty
<1>1. app[j.doc] = j.qty
  BY DEF Facts
<1>2. j.op \in ReleaseOps => rel[j.doc] \in From[j.op]
  BY DEF Facts
<1>3. From["post"] = {"APPROVED"}
  BY DEF From
<1> QED BY <1>1, <1>2, <1>3 DEF ReleaseOps

(* A handler whose release has been validated is posting it, with lots that *)
(* its items may be taken from.                                             *)
LEMMA ValidatedFields ==
    ASSUME NEW j, Sound(j, "validated")
    PROVE  /\ j.op = "post" /\ j.doc \in Releases /\ ForItems(j.doc, j.qty)
           /\ j.key \in KeysOf[j.doc]
           /\ \A i \in DOMAIN Items[j.doc] : RowFits(Items[j.doc][i].product, j.lot[i])
<1>1. j.op = "post"
  BY DEF Sound
<1>2. /\ j.op \in ReleaseOps => j.doc \in Releases
      /\ ForItems(j.doc, j.qty) /\ j.key \in KeysOf[j.doc]
  BY <1>1 DEF Sound
<1>3. \A i \in DOMAIN Items[j.doc] : RowFits(Items[j.doc][i].product, j.lot[i])
  BY DEF Sound
<1> QED BY <1>1, <1>2, <1>3 DEF ReleaseOps

(* A step that writes only documents in D, and lines of reservations in D. *)
Elsewhere(D) ==
    /\ \A r \in Reservations \ D : /\ resStatus'[r] = resStatus[r]
                                   /\ \A l \in LinesOf(r) : consumed'[l] = consumed[l]
    /\ \A s \in Releases \ D : relStatus'[s] = relStatus[s] /\ approved'[s] = approved[s]

(* The lines and reservations that a release uses. *)
LEMMA UsedFields ==
    ASSUME NEW s, NEW qty, ForItems(s, qty)
    PROVE  /\ LinesUsed(s, qty) \subseteq LineIds
           /\ ReservationsUsed(s, qty) \subseteq Reservations
           /\ \A i \in ApprovedItems(s, qty) : Items[s][i].line # NoLine =>
                 /\ Items[s][i].line \in LinesUsed(s, qty)
                 /\ Lines[Items[s][i].line].res \in ReservationsUsed(s, qty)
<1>1. \A l \in LinesUsed(s, qty) : l \in LineIds
  BY ApprovedItemsFinite, ItemFields DEF LinesUsed, ForItems
<1>2. ReservationsUsed(s, qty) \subseteq Reservations
  BY <1>1, LineFields DEF ReservationsUsed
<1>3. \A i \in ApprovedItems(s, qty) : Items[s][i].line # NoLine => Items[s][i].line \in LinesUsed(s, qty)
  BY DEF LinesUsed
<1> QED BY <1>1, <1>2, <1>3 DEF ReservationsUsed

(* Other handlers' facts are about other documents. *)
LEMMA FactsElsewhere ==
    ASSUME NEW j, NEW phase, Sound(j, phase), NEW D, Documents(j) \cap D = {}, Elsewhere(D),
           Facts(j, phase, resStatus, consumed, relStatus, approved)
    PROVE  Facts(j, phase, resStatus', consumed', relStatus', approved')
<1>1. j.doc \in Documents(j) /\ j.doc \notin D
  BY DEF Documents
<1>2. /\ j.op \in ReservationOps => j.doc \in Reservations
      /\ j.op \in ReleaseOps => j.doc \in Releases
      /\ j.op = "post" => ForItems(j.doc, j.qty)
      /\ phase # "loaded" => j.op = "post"
  BY DEF Sound
<1>3. /\ j.op \in ReservationOps =>
            /\ resStatus'[j.doc] = resStatus[j.doc]
            /\ \A l \in LinesOf(j.doc) : consumed'[l] = consumed[l]
      /\ j.op \in ReleaseOps => relStatus'[j.doc] = relStatus[j.doc] /\ approved'[j.doc] = approved[j.doc]
  BY <1>1, <1>2 DEF Elsewhere
<1>4. ASSUME j.op = "post", NEW r \in ReservationsUsed(j.doc, j.qty)
      PROVE  /\ resStatus'[r] = resStatus[r]
             /\ \A l \in LinesOf(r) : consumed'[l] = consumed[l]
  <2>1. r \in Documents(j) /\ r \in Reservations
    BY <1>2, <1>4, UsedFields DEF Documents
  <2> QED BY <2>1 DEF Elsewhere
<1>5. ASSUME phase \in {"validated", "posted", "recorded"}, NEW i \in ApprovedItems(j.doc, j.qty),
             Items[j.doc][i].line # NoLine
      PROVE  LET l == Items[j.doc][i].line
             IN  resStatus'[Lines[l].res] \in Active /\ j.qty[i] <= Lines[l].qty - consumed'[l]
  <2> DEFINE l == Items[j.doc][i].line
  <2>1. j.op = "post" /\ ForItems(j.doc, j.qty)
    BY <1>2, <1>5
  <2>2. l \in LineIds /\ Lines[l].res \in ReservationsUsed(j.doc, j.qty)
    BY <1>5, <2>1, UsedFields
  <2>3. l \in LinesOf(Lines[l].res)
    BY <2>2 DEF LinesOf
  <2>4. resStatus'[Lines[l].res] = resStatus[Lines[l].res] /\ consumed'[l] = consumed[l]
    BY <1>4, <2>1, <2>2, <2>3
  <2>5. resStatus[Lines[l].res] \in Active /\ j.qty[i] <= Lines[l].qty - consumed[l]
    BY <1>5 DEF Facts
  <2> QED BY <2>4, <2>5
<1>6. ASSUME phase = "recorded", NEW r \in ReservationsUsed(j.doc, j.qty)
      PROVE  j.rolled[r] = IF \A l \in LinesOf(r) : consumed'[l] + Taken(j.doc, j.qty, l) >= Lines[l].qty
                           THEN "CONSUMED" ELSE "PARTIALLY_CONSUMED"
  <2>1. \A l \in LinesOf(r) : consumed'[l] = consumed[l]
    BY <1>2, <1>4, <1>6
  <2>2. j.rolled[r] = IF \A l \in LinesOf(r) : consumed[l] + Taken(j.doc, j.qty, l) >= Lines[l].qty
                      THEN "CONSUMED" ELSE "PARTIALLY_CONSUMED"
    BY <1>6 DEF Facts
  <2> QED BY <2>1, <2>2
<1>7. /\ j.op = "confirm" => resStatus'[j.doc] = "DRAFT"
      /\ j.op \in {"release", "cancel"} =>
            /\ j.status = resStatus'[j.doc] /\ Target[j.op] \in Transitions[resStatus'[j.doc]]
            /\ \A l \in LinesOf(j.doc) : j.used[l] = consumed'[l]
      /\ j.op \in ReleaseOps => relStatus'[j.doc] \in From[j.op]
      /\ j.op = "post" => approved'[j.doc] = j.qty
  BY <1>3 DEF Facts, ReservationOps, ReleaseOps
<1> QED BY <1>5, <1>6, <1>7 DEF Facts

(* Nothing is to be known of a handler that expires a reservation. *)
LEMMA FactsOfExpiry ==
    ASSUME NEW j, NEW phase, Sound(j, phase), j.op = "expire",
           NEW rs, NEW cs, NEW rel, NEW app
    PROVE  Facts(j, phase, rs, cs, rel, app)
<1>1. phase = "loaded" /\ "expire" \notin ReleaseOps
  BY DEF Sound, ReleaseOps
<1> QED BY <1>1 DEF Facts

(* A handler goes on or ends. *)
LEMMA AloneGoesOn ==
    ASSUME ResTypeInv, Alone, NEW w \in Workers, NEW phase, NEW j, Moves(w, phase, j),
           \/ phase = "idle"
           \/ pc[w] # "idle" /\ j.op = job[w].op /\ Documents(j) = Documents(job[w])
    PROVE  Alone'
<1>1. /\ pc'[w] = phase /\ job'[w] = j
      /\ \A v \in Workers : v # w => pc'[v] = pc[v] /\ job'[v] = job[v]
  BY MovesOne
<1>2. ASSUME NEW u \in Workers, NEW v \in Workers, u # v, pc'[u] # "idle", pc'[v] # "idle",
             Documents(job'[u]) \cap Documents(job'[v]) # {}
      PROVE  job'[u].op = "expire" /\ job'[v].op = "expire"
  <2>1. \A x \in {u, v} : /\ pc[x] # "idle" /\ job'[x].op = job[x].op
                          /\ Documents(job'[x]) = Documents(job[x])
    BY <1>1, <1>2
  <2>2. job[u].op = "expire" /\ job[v].op = "expire"
    BY <1>2, <2>1 DEF Alone
  <2> QED BY <2>1, <2>2
<1> QED BY <1>2 DEF Alone

(* A handler begins. *)
LEMMA AloneStarts ==
    ASSUME Exclusive, ResTypeInv, Alone, NEW w \in Workers, NEW j, Start(w, j)
    PROVE  Alone'
<1>1. Moves(w, "loaded", j) /\ MayStart(w, j)
  BY DEF Start, Moves
<1>2. /\ job'[w] = j
      /\ \A v \in Workers : v # w => pc'[v] = pc[v] /\ job'[v] = job[v]
  BY <1>1, MovesOne
<1>3. ASSUME NEW v \in Workers, v # w, pc[v] # "idle", Documents(job[v]) \cap Documents(j) # {}
      PROVE  job[v].op = "expire" /\ j.op = "expire"
  <2>1. job[v] # NoJob
    BY <1>3, JobFields
  <2> QED BY <1>1, <1>3, <2>1 DEF MayStart, Exclusive
<1>4. ASSUME NEW u \in Workers, NEW v \in Workers, u # v, pc'[u] # "idle", pc'[v] # "idle",
             Documents(job'[u]) \cap Documents(job'[v]) # {}
      PROVE  job'[u].op = "expire" /\ job'[v].op = "expire"
  <2>1. CASE u = w
    BY <1>2, <1>3, <1>4, <2>1
  <2>2. CASE v = w
    BY <1>2, <1>3, <1>4, <2>2
  <2>3. CASE u # w /\ v # w
    BY <1>2, <1>4, <2>3 DEF Alone
  <2> QED BY <2>1, <2>2, <2>3
<1> QED BY <1>4 DEF Alone

(* The facts after a step of w that writes only documents in D. *)
LEMMA FactsStep ==
    ASSUME ResTypeInv, FactsInv, NEW w \in Workers, NEW phase, NEW j, Moves(w, phase, j), Alone',
           NEW D, Elsewhere(D),
           \A v \in Workers \ {w} :
              pc[v] # "idle" /\ Documents(job[v]) \cap D # {} => job[v].op = "expire",
           phase # "idle" => Facts(j, phase, resStatus', consumed', relStatus', approved')
    PROVE  FactsInv'
<1>1. /\ pc'[w] = phase /\ job'[w] = j
      /\ \A v \in Workers : v # w => pc'[v] = pc[v] /\ job'[v] = job[v]
  BY MovesOne
<1>2. ASSUME NEW v \in Workers, pc'[v] # "idle"
      PROVE  Facts(job'[v], pc'[v], resStatus', consumed', relStatus', approved')
  <2>1. CASE v = w
    BY <1>1, <1>2, <2>1
  <2>2. CASE v # w
    <3> DEFINE k == job[v]
               p == pc[v]
    <3>1. p # "idle" /\ Sound(k, p) /\ job'[v] = k /\ pc'[v] = p
      BY <1>1, <1>2, <2>2, JobFields
    <3>2. Facts(k, p, resStatus, consumed, relStatus, approved)
      BY <3>1 DEF FactsInv
    <3>3. Documents(k) \cap D # {} => k.op = "expire"
      BY <2>2, <3>1
    <3> HIDE DEF k, p
    <3>4. Facts(k, p, resStatus', consumed', relStatus', approved')
      <4>1. CASE Documents(k) \cap D = {}
        BY <3>1, <3>2, <4>1, FactsElsewhere
      <4>2. CASE k.op = "expire"
        BY <3>1, <4>2, FactsOfExpiry
      <4> QED BY <3>3, <4>1, <4>2
    <3> QED BY <3>1, <3>4
  <2> QED BY <2>1, <2>2
<1> QED BY <1>2 DEF FactsInv

(* What is in a job that begins. *)
LEMMA LoadedFields ==
    ASSUME NEW op, NEW doc, NEW st
    PROVE  /\ Job(op, doc).op = op /\ Job(op, doc).doc = doc
           /\ [Job(op, doc) EXCEPT !.status = st].op = op
           /\ [Job(op, doc) EXCEPT !.status = st].doc = doc
           /\ [Job(op, doc) EXCEPT !.status = st].status = st
           /\ [Job(op, doc) EXCEPT !.status = st].used = consumed
<1> DEFINE e == << >>
           j == Job(op, doc)
<1>1. j = [op |-> op, doc |-> doc, key |-> NoKey, status |-> "none", used |-> consumed,
           qty |-> e, lot |-> e, rolled |-> e]
  BY DEF Job
<1> HIDE DEF e, j
<1>2. /\ j.op = op /\ j.doc = doc
      /\ [j EXCEPT !.status = st].op = op /\ [j EXCEPT !.status = st].doc = doc
      /\ [j EXCEPT !.status = st].status = st /\ [j EXCEPT !.status = st].used = consumed
  BY <1>1
<1> QED BY <1>2 DEF j

(* .. and in a posting that begins. *)
LEMMA PostFields ==
    ASSUME NEW s, NEW key, NEW q
    PROVE  LET j == [Job("post", s) EXCEPT !.key = key, !.qty = q]
           IN  j.op = "post" /\ j.doc = s /\ j.qty = q
<1> DEFINE e == << >>
           i == Job("post", s)
           j == [i EXCEPT !.key = key, !.qty = q]
<1>1. i = [op |-> "post", doc |-> s, key |-> NoKey, status |-> "none", used |-> consumed,
           qty |-> e, lot |-> e, rolled |-> e]
  BY DEF Job
<1> HIDE DEF e, i
<1>2. j.op = "post" /\ j.doc = s /\ j.qty = q
  BY <1>1
<1> QED BY <1>2 DEF i

(* A handler ends, having written only its documents. *)
LEMMA FactsEnd ==
    ASSUME ResTypeInv, FactsInv, NEW w \in Workers, pc[w] # "idle", Moves(w, "idle", NoJob),
           Elsewhere(Documents(job[w]))
    PROVE  FactsInv'
<1>1. Alone'
  BY AloneGoesOn DEF FactsInv
<1>2. \A v \in Workers \ {w} :
         pc[v] # "idle" /\ Documents(job[v]) \cap Documents(job[w]) # {} => job[v].op = "expire"
  BY DEF FactsInv, Alone
<1> DEFINE D == Documents(job[w])
<1>3. Elsewhere(D) /\ \A v \in Workers \ {w} : pc[v] # "idle" /\ Documents(job[v]) \cap D # {} => job[v].op = "expire"
  BY <1>2
<1> HIDE DEF D
<1> QED BY <1>1, <1>3, FactsStep

(* A handler goes on, having written no document. *)
LEMMA FactsGoOn ==
    ASSUME ResTypeInv, FactsInv, NEW w \in Workers, pc[w] # "idle", NEW phase, NEW j, Moves(w, phase, j),
           UNCHANGED docVars, j.op = job[w].op, Documents(j) = Documents(job[w]),
           Facts(j, phase, resStatus, consumed, relStatus, approved)
    PROVE  FactsInv'
<1>1. Alone'
  BY AloneGoesOn DEF FactsInv
<1>2. UNCHANGED << resStatus, consumed, relStatus, approved >>
  BY DEF docVars
<1>3. Facts(j, phase, resStatus', consumed', relStatus', approved')
  BY <1>2
<1> DEFINE D == {}
<1>4. Elsewhere(D) /\ \A v \in Workers \ {w} : pc[v] # "idle" /\ Documents(job[v]) \cap D # {} => job[v].op = "expire"
  BY <1>2 DEF Elsewhere
<1> HIDE DEF D
<1> QED BY <1>1, <1>3, <1>4, FactsStep

(* A handler begins. *)
LEMMA FactsStart ==
    ASSUME Exclusive, ResTypeInv, FactsInv, NEW w \in Workers, NEW j, Start(w, j),
           Facts(j, "loaded", resStatus, consumed, relStatus, approved)
    PROVE  FactsInv'
<1>1. Alone' /\ Moves(w, "loaded", j)
  BY AloneStarts DEF FactsInv, Start, Moves
<1>2. UNCHANGED << resStatus, consumed, relStatus, approved >>
  BY DEF docVars, Start
<1>3. Facts(j, "loaded", resStatus', consumed', relStatus', approved')
  BY <1>2
<1> DEFINE D == {}
           phase == "loaded"
<1>4. Elsewhere(D) /\ \A v \in Workers \ {w} : pc[v] # "idle" /\ Documents(job[v]) \cap D # {} => job[v].op = "expire"
  BY <1>2 DEF Elsewhere
<1>5. Moves(w, phase, j) /\ Facts(j, phase, resStatus', consumed', relStatus', approved')
  BY <1>1, <1>3
<1> HIDE DEF D, phase
<1> QED BY <1>1, <1>4, <1>5, FactsStep

(* The facts of a handler that loads a document. *)
LEMMA FactsLoad ==
    ASSUME Exclusive, ResTypeInv, FactsInv, NEW w \in Workers,
           \/ \E op \in ReservationOps, r \in Reservations : LoadReservation(w, op, r)
           \/ \E r \in Reservations : FindDue(w, r)
           \/ \E op \in ReleaseOps, s \in Releases : LoadRelease(w, op, s)
           \/ \E s \in Releases : \E key \in KeysOf[s] : LoadPost(w, s, key)
    PROVE  FactsInv'
<1>1. ASSUME NEW op \in ReservationOps, NEW r \in Reservations, LoadReservation(w, op, r)
      PROVE  FactsInv'
  <2> DEFINE st == resStatus[r]
             j == [Job(op, r) EXCEPT !.status = st]
  <2>1. /\ op \in {"confirm", "release", "cancel"} /\ Target[op] \in Transitions[st] /\ Start(w, j)
    BY <1>1 DEF LoadReservation
  <2>2. j.op = op /\ j.doc = r /\ j.status = st /\ j.used = consumed
    <3> HIDE DEF st
    <3> QED BY LoadedFields
  <2>3. op = "confirm" => st = "DRAFT"
    <3>1. st \in ReservationStatus
      BY DEF ResTypeInv, DataTypes
    <3> HIDE DEF st
    <3> QED BY <2>1, <3>1 DEF Target, Transitions, ReservationStatus
  <2> HIDE DEF j
  <2>4. Facts(j, "loaded", resStatus, consumed, relStatus, approved)
    BY <2>1, <2>2, <2>3 DEF Facts, ReleaseOps
  <2> QED BY <2>1, <2>4, FactsStart
<1>2. ASSUME NEW r \in Reservations, FindDue(w, r) PROVE FactsInv'
  <2> DEFINE j == Job("expire", r)
  <2>1. Start(w, j) /\ j.op = "expire"
    BY <1>2, LoadedFields DEF FindDue
  <2> HIDE DEF j
  <2>2. Facts(j, "loaded", resStatus, consumed, relStatus, approved)
    BY <2>1 DEF Facts, ReleaseOps
  <2> QED BY <2>1, <2>2, FactsStart
<1>3. ASSUME NEW op \in ReleaseOps, NEW s \in Releases, LoadRelease(w, op, s) PROVE FactsInv'
  <2> DEFINE j == Job(op, s)
  <2>1. Start(w, j) /\ j.op = op /\ j.doc = s /\ op \in ReleaseOps \ {"post"} /\ relStatus[s] \in From[op]
    BY <1>3, LoadedFields DEF LoadRelease
  <2> HIDE DEF j
  <2>2. Facts(j, "loaded", resStatus, consumed, relStatus, approved)
    BY <2>1 DEF Facts, ReleaseOps
  <2> QED BY <2>1, <2>2, FactsStart
<1>4. ASSUME NEW s \in Releases, NEW key \in KeysOf[s], LoadPost(w, s, key) PROVE FactsInv'
  <2> DEFINE q == approved[s]
             j == [Job("post", s) EXCEPT !.key = key, !.qty = q]
  <2>1. Start(w, j) /\ relStatus[s] \in From["post"]
    BY <1>4 DEF LoadPost
  <2>2. j.op = "post" /\ j.doc = s /\ j.qty = approved[s]
    <3> HIDE DEF q
    <3>1. j.op = "post" /\ j.doc = s /\ j.qty = q
      BY PostFields
    <3> QED BY <3>1 DEF q
  <2> HIDE DEF j
  <2>3. Facts(j, "loaded", resStatus, consumed, relStatus, approved)
    BY <2>1, <2>2 DEF Facts
  <2> QED BY <2>1, <2>3, FactsStart
<1> QED BY <1>1, <1>2, <1>3, <1>4

(* What each handler writes are documents it works on. *)
LEMMA WritesOwnReservation ==
    ASSUME ResTypeInv, NEW w \in Workers, Confirm(w) \/ ReturnReserved(w) \/ Expire(w)
    PROVE  /\ pc[w] # "idle" /\ Moves(w, "idle", NoJob) /\ Elsewhere(Documents(job[w]))
           /\ job[w].doc \in Reservations
           /\ UNCHANGED << consumed, relStatus, approved >>
           /\ \A r \in Reservations : r # job[w].doc => resStatus'[r] = resStatus[r]
<1>1. pc[w] # "idle" /\ Moves(w, "idle", NoJob) /\ UNCHANGED << consumed, relStatus, approved >>
  BY DEF Confirm, ReturnReserved, Expire, Handling, Done, Moves
<1>2. job[w].op \in ReservationOps /\ job[w].doc \in Reservations
  BY HandlingFields DEF Confirm, ReturnReserved, Expire, Handling, ReservationOps
<1>3. resStatus' = resStatus \/ \E st : resStatus' = [resStatus EXCEPT ![job[w].doc] = st]
  BY DEF Confirm, ReturnReserved, Expire
<1>4. \A r \in Reservations : r # job[w].doc => resStatus'[r] = resStatus[r]
  BY <1>3 DEF ResTypeInv, DataTypes
<1>5. Elsewhere(Documents(job[w]))
  BY <1>1, <1>4 DEF Elsewhere, Documents
<1> QED BY <1>1, <1>2, <1>4, <1>5

(* .. be they releases, .. *)
LEMMA WritesOwnRelease ==
    ASSUME ResTypeInv, NEW w \in Workers, Advance(w)
    PROVE  /\ pc[w] # "idle" /\ Moves(w, "idle", NoJob) /\ Elsewhere(Documents(job[w]))
           /\ job[w].doc \in Releases
           /\ UNCHANGED << resStatus, consumed >>
           /\ \A s \in Releases : s # job[w].doc =>
                 relStatus'[s] = relStatus[s] /\ approved'[s] = approved[s]
<1>1. pc[w] # "idle" /\ Moves(w, "idle", NoJob) /\ UNCHANGED << resStatus, consumed >>
  BY DEF Advance, Done, Moves
<1>2. job[w].doc \in Releases
  BY HandlingFields DEF Advance
<1>3. /\ relStatus' = [relStatus EXCEPT ![job[w].doc] = To[job[w].op]]
      /\ approved' = approved \/ \E qty : approved' = [approved EXCEPT ![job[w].doc] = qty]
  BY DEF Advance
<1>4. \A s \in Releases : s # job[w].doc => relStatus'[s] = relStatus[s] /\ approved'[s] = approved[s]
  BY <1>3 DEF ResTypeInv, DataTypes
<1>5. Elsewhere(Documents(job[w]))
  BY <1>1, <1>4 DEF Elsewhere, Documents
<1> QED BY <1>1, <1>2, <1>4, <1>5

(* .. or, when a release is closed, the release and the reservations it uses. *)
LEMMA WritesOnClosing ==
    ASSUME ResTypeInv, NEW w \in Workers, Close(w)
    PROVE  LET j == job[w]
               s == j.doc
               used == ReservationsUsed(s, j.qty)
           IN  /\ pc[w] = "recorded" /\ Moves(w, "idle", NoJob) /\ Elsewhere(Documents(j))
               /\ s \in Releases /\ ForItems(s, j.qty) /\ used \subseteq Reservations
               /\ \A r \in Reservations :
                     IF r \in used THEN resStatus'[r] = j.rolled[r]
                     ELSE /\ resStatus'[r] = resStatus[r]
                          /\ \A l \in LinesOf(r) : consumed'[l] = consumed[l]
               /\ \A l \in LineIds : /\ consumed'[l] = consumed[l] + Taken(s, j.qty, l)
                                     /\ Taken(s, j.qty, l) \in Nat /\ consumed[l] \in Nat
               /\ \A t \in Releases : relStatus'[t] = IF t = s THEN "RELEASED" ELSE relStatus[t]
               /\ UNCHANGED approved
<1> DEFINE j == job[w]
           s == j.doc
           used == ReservationsUsed(s, j.qty)
<1>1. pc[w] = "recorded" /\ Moves(w, "idle", NoJob) /\ UNCHANGED approved
  BY DEF Close, Done, Moves
<1>2. /\ s \in Releases /\ ForItems(s, j.qty) /\ j.op = "post"
      /\ DOMAIN j.rolled = used
  BY <1>1, JobFields DEF Sound, ReleaseOps
<1>3. used \subseteq Reservations
  BY <1>2, UsedFields
<1>4. \A l \in LineIds : /\ consumed'[l] = consumed[l] + Taken(s, j.qty, l)
                         /\ Taken(s, j.qty, l) \in Nat /\ consumed[l] \in Nat
                         /\ l \notin LinesUsed(s, j.qty) => Taken(s, j.qty, l) = 0
  BY <1>2, TakenOf DEF Close, ResTypeInv, DataTypes
<1>5. \A r \in Reservations : resStatus'[r] = IF r \in used THEN j.rolled[r] ELSE resStatus[r]
  BY <1>2 DEF Close
<1>6. ASSUME NEW r \in Reservations, r \notin used, NEW l \in LinesOf(r)
      PROVE  consumed'[l] = consumed[l]
  <2>1. l \in LineIds /\ l \notin LinesUsed(s, j.qty)
    BY <1>6 DEF LinesOf, ReservationsUsed
  <2> QED BY <1>4, <2>1
<1>7. \A t \in Releases : relStatus'[t] = IF t = s THEN "RELEASED" ELSE relStatus[t]
  BY DEF Close, ResTypeInv, DataTypes
<1>8. s \in Documents(j) /\ used \subseteq Documents(j)
  BY <1>2 DEF Documents
<1>9. Elsewhere(Documents(j))
  BY <1>1, <1>5, <1>6, <1>7, <1>8 DEF Elsewhere
<1> QED BY <1>1, <1>2, <1>3, <1>4, <1>5, <1>6, <1>7, <1>9

(* The facts of a posting as it goes on. *)
LEMMA FactsPosting ==
    ASSUME ResTypeInv, FactsInv, NEW w \in Workers, Validate(w) \/ PostToLedger(w) \/ Record(w)
    PROVE  FactsInv'
<1> DEFINE j == job[w]
           docs == << resStatus, consumed, relStatus, approved >>
<1>1. /\ pc[w] # "idle" /\ j \in JobType /\ j.op = "post" /\ j.doc \in Releases /\ DOMAIN job = Workers
      /\ UNCHANGED docVars
      /\ Facts(j, pc[w], resStatus, consumed, relStatus, approved)
  <2>1. pc[w] # "idle" /\ j.op = "post"
    BY HandlingFields DEF Validate, PostToLedger, Record, Handling
  <2>2. j \in JobType /\ j.doc \in Releases /\ DOMAIN job = Workers
    BY <2>1, JobFields DEF Sound, ReleaseOps
  <2>3. UNCHANGED docVars
    BY DEF Validate, PostToLedger, Record
  <2> QED BY <2>1, <2>2, <2>3 DEF FactsInv
<1>2. CASE Done(w)
  <2>1. Moves(w, "idle", NoJob) /\ Elsewhere(Documents(j))
    BY <1>1, <1>2 DEF Done, Moves, Elsewhere, docVars
  <2> QED BY <1>1, <2>1, FactsEnd
<1>3. CASE Validate(w) /\ ~Done(w)
  <2>1. PICK lot \in Allocations(j.doc, j.qty) :
           /\ job' = [job EXCEPT ![w].lot = lot] /\ pc' = [pc EXCEPT ![w] = "validated"]
           /\ Consumable(j.doc, j.qty) /\ pc[w] = "loaded"
    BY <1>3 DEF Validate, Handling
  <2> DEFINE k == [j EXCEPT !.lot = lot]
             phase == "validated"
  <2>2. Moves(w, phase, k)
    BY <1>1, <2>1 DEF Moves
  <2>3. k.op = j.op /\ k.doc = j.doc /\ k.qty = j.qty
    <3> HIDE DEF j
    <3> QED BY <1>1 DEF JobType
  <2>4. Facts(j, "loaded", resStatus, consumed, relStatus, approved)
    BY <1>1, <2>1
  <2> HIDE DEF k
  <2>5. Facts(k, phase, resStatus, consumed, relStatus, approved) /\ Documents(k) = Documents(j)
    BY <1>1, <2>1, <2>3, <2>4 DEF Facts, Documents, Consumable
  <2> HIDE DEF phase
  <2> QED BY <1>1, <2>2, <2>3, <2>5, FactsGoOn
<1>4. CASE PostToLedger(w) /\ ~Done(w)
  <2> DEFINE phase == "posted"
             k == job[w]
  <2>1. Moves(w, phase, k) /\ pc[w] = "validated"
    BY <1>4 DEF PostToLedger, Moves, ResTypeInv, JobsSound
  <2>2. Facts(k, phase, resStatus, consumed, relStatus, approved)
    BY <1>1, <2>1 DEF Facts
  <2>3. k.op = j.op /\ Documents(k) = Documents(j)
    OBVIOUS
  <2> HIDE DEF phase, k
  <2> QED BY <1>1, <2>1, <2>2, <2>3, FactsGoOn
<1>5. CASE Record(w)
  <2> DEFINE rolled == [r \in ReservationsUsed(j.doc, j.qty) |-> Rolled(j.doc, j.qty, r)]
             k == [j EXCEPT !.rolled = rolled]
             phase == "recorded"
  <2>1. Moves(w, phase, k) /\ pc[w] = "posted"
    BY <1>1, <1>5 DEF Record, Moves
  <2>2. k.op = j.op /\ k.doc = j.doc /\ k.qty = j.qty /\ k.rolled = rolled
    <3> HIDE DEF j, rolled
    <3> QED BY <1>1 DEF JobType
  <2>3. Facts(j, "posted", resStatus, consumed, relStatus, approved)
    BY <1>1, <2>1
  <2> HIDE DEF k
  <2>4. Facts(k, phase, resStatus, consumed, relStatus, approved) /\ Documents(k) = Documents(j)
    BY <1>1, <2>2, <2>3 DEF Facts, Documents, Rolled
  <2> HIDE DEF phase
  <2> QED BY <1>1, <2>1, <2>2, <2>4, FactsGoOn
<1> QED BY <1>2, <1>3, <1>4, <1>5

(* No step of a handler makes another's facts untrue. *)
LEMMA FactsNext ==
    ASSUME Exclusive, ResTypeInv, FactsInv, [Next]_vars
    PROVE  FactsInv'
<1>1. ASSUME NEW w \in Workers, Confirm(w) \/ ReturnReserved(w) \/ Expire(w) PROVE FactsInv'
  BY <1>1, WritesOwnReservation, FactsEnd
<1>2. ASSUME NEW w \in Workers, Advance(w) PROVE FactsInv'
  BY <1>2, WritesOwnRelease, FactsEnd
<1>3. ASSUME NEW w \in Workers, Close(w) PROVE FactsInv'
  <2>1. pc[w] # "idle" /\ Moves(w, "idle", NoJob) /\ Elsewhere(Documents(job[w]))
    BY <1>3, WritesOnClosing
  <2> QED BY <2>1, FactsEnd
<1>4. ASSUME NEW w \in Workers, Validate(w) \/ PostToLedger(w) \/ Record(w) PROVE FactsInv'
  BY <1>4, FactsPosting
<1>5. ASSUME NEW w \in Workers, Fail(w) PROVE FactsInv'
  <2>1. pc[w] # "idle" /\ Moves(w, "idle", NoJob) /\ Elsewhere(Documents(job[w]))
    BY <1>5 DEF Fail, Moves, Elsewhere, docVars
  <2> QED BY <2>1, FactsEnd
<1>6. ASSUME UNCHANGED vars PROVE FactsInv'
  BY <1>6 DEF vars, FactsInv, Alone
<1>7. ASSUME NEW w \in Workers,
             \/ \E op \in ReservationOps, r \in Reservations : LoadReservation(w, op, r)
             \/ \E r \in Reservations : FindDue(w, r)
             \/ \E op \in ReleaseOps, s \in Releases : LoadRelease(w, op, s)
             \/ \E s \in Releases : \E key \in KeysOf[s] : LoadPost(w, s, key)
      PROVE  FactsInv'
  BY <1>7, FactsLoad
<1>8. ASSUME NEW w \in Workers, Handle(w) PROVE FactsInv'
  BY <1>1, <1>2, <1>3, <1>4, <1>8 DEF Handle
<1> QED BY <1>5, <1>6, <1>7, <1>8 DEF Next, Quiet

-----------------------------------------------------------------------------
(* What becomes of a reservation *)

(* A step leaves r alone, .. *)
Rests(r) == resStatus'[r] = resStatus[r] /\ \A l \in LinesOf(r) : consumed'[l] = consumed[l]

(* .. moves it on without consuming anything, .. *)
MovesOn(r) ==
    /\ resStatus'[r] \in Transitions[resStatus[r]] \ {"PARTIALLY_CONSUMED", "CONSUMED"}
    /\ \A l \in LinesOf(r) : consumed'[l] = consumed[l]

(* .. or consumes some of it, as the status says afterwards. *)
Consumes(r) ==
    /\ resStatus[r] \in Active
    /\ \E l \in LinesOf(r) : consumed'[l] > 0
    /\ resStatus'[r] = IF \A l \in LinesOf(r) : consumed'[l] >= Lines[l].qty
                       THEN "CONSUMED" ELSE "PARTIALLY_CONSUMED"

(* Nothing else can become of a reservation. *)
LEMMA ReservationStep ==
    ASSUME ResTypeInv, FactsInv, [Next]_vars, NEW r \in Reservations
    PROVE  Rests(r) \/ MovesOn(r) \/ Consumes(r)
<1>1. ASSUME NEW w \in Workers, Confirm(w) \/ ReturnReserved(w) \/ Expire(w)
      PROVE  Rests(r) \/ MovesOn(r)
  <2> DEFINE d == job[w].doc
  <2>1. /\ pc[w] # "idle" /\ UNCHANGED consumed /\ d \in Reservations
        /\ r # d => resStatus'[r] = resStatus[r]
    BY <1>1, WritesOwnReservation
  <2>2. Facts(job[w], pc[w], resStatus, consumed, relStatus, approved)
    BY <2>1 DEF FactsInv
  <2>3. resStatus \in [Reservations -> ReservationStatus]
    BY DEF ResTypeInv, DataTypes
  <2>4. resStatus'[d] \in Transitions[resStatus[d]] \ {"PARTIALLY_CONSUMED", "CONSUMED"} \/ resStatus'[d] = resStatus[d]
    <3>1. CASE Confirm(w)
      <4>1. resStatus[d] = "DRAFT"
        BY <2>2, <3>1 DEF Confirm, Handling, Facts
      <4>2. resStatus'[d] = "RESERVED" \/ resStatus'[d] = resStatus[d]
        BY <2>1, <2>3, <3>1 DEF Confirm
      <4> QED BY <4>1, <4>2 DEF Transitions
    <3>2. CASE ReturnReserved(w)
      <4>1. job[w].op \in {"release", "cancel"} /\ Target[job[w].op] \in Transitions[resStatus[d]]
        BY <2>2, <3>2 DEF ReturnReserved, Handling, Facts
      <4>2. resStatus'[d] = Target[job[w].op]
        BY <2>1, <2>3, <3>2 DEF ReturnReserved
      <4>3. Target[job[w].op] \notin {"PARTIALLY_CONSUMED", "CONSUMED"}
        BY <4>1 DEF Target
      <4> QED BY <4>1, <4>2, <4>3
    <3>3. CASE Expire(w)
      <4>1. resStatus'[d] = resStatus[d] \/ (resStatus[d] \in Active /\ resStatus'[d] = "EXPIRED")
        BY <2>1, <2>3, <3>3 DEF Expire, Claim
      <4> QED BY <4>1 DEF Active, Transitions
    <3> QED BY <1>1, <3>1, <3>2, <3>3
  <2> QED BY <2>1, <2>4 DEF Rests, MovesOn
<1>2. ASSUME NEW w \in Workers, Close(w)
      PROVE  Rests(r) \/ Consumes(r)
  <2> DEFINE j == job[w]
             s == j.doc
             used == ReservationsUsed(s, j.qty)
  <2>1. /\ pc[w] = "recorded" /\ s \in Releases /\ ForItems(s, j.qty)
        /\ IF r \in used THEN resStatus'[r] = j.rolled[r]
           ELSE resStatus'[r] = resStatus[r] /\ \A l \in LinesOf(r) : consumed'[l] = consumed[l]
        /\ \A l \in LineIds : /\ consumed'[l] = consumed[l] + Taken(s, j.qty, l)
                              /\ Taken(s, j.qty, l) \in Nat /\ consumed[l] \in Nat
    BY <1>2, WritesOnClosing
  <2>2. CASE r \notin used
    BY <2>1, <2>2 DEF Rests
  <2>3. CASE r \in used
    <3>1. Facts(j, "recorded", resStatus, consumed, relStatus, approved)
      BY <2>1 DEF FactsInv
    <3>2. PICK l \in LinesUsed(s, j.qty) : Lines[l].res = r
      BY <2>3 DEF ReservationsUsed
    <3>3. PICK i \in ApprovedItems(s, j.qty) : Items[s][i].line = l /\ l # NoLine
      BY <3>2 DEF LinesUsed
    <3>4. l \in LinesOf(r) /\ l \in LineIds
      BY <2>1, <3>2, UsedFields DEF LinesOf
    <3>5. resStatus[r] \in Active
      BY <3>1, <3>2, <3>3 DEF Facts
    <3>6. consumed'[l] > 0
      <4>1. j.qty[i] > 0 /\ j.qty[i] \in Nat
        BY <2>1, ApprovedItemsFinite DEF ApprovedItems
      <4>2. j.qty[i] <= Taken(s, j.qty, l)
        BY <2>1, <3>3, TakenOf
      <4> HIDE DEF j, s
      <4> QED BY <2>1, <3>4, <4>1, <4>2
    <3>7. resStatus'[r] = IF \A k \in LinesOf(r) : consumed'[k] >= Lines[k].qty
                          THEN "CONSUMED" ELSE "PARTIALLY_CONSUMED"
      <4>1. j.rolled[r] = IF \A k \in LinesOf(r) : consumed[k] + Taken(s, j.qty, k) >= Lines[k].qty
                          THEN "CONSUMED" ELSE "PARTIALLY_CONSUMED"
        BY <2>3, <3>1 DEF Facts
      <4>2. \A k \in LinesOf(r) : consumed'[k] = consumed[k] + Taken(s, j.qty, k)
        BY <2>1 DEF LinesOf
      <4> QED BY <2>1, <2>3, <4>1, <4>2
    <3> QED BY <3>4, <3>5, <3>6, <3>7 DEF Consumes
  <2> QED BY <2>2, <2>3
<1>3. ASSUME UNCHANGED << resStatus, consumed >> PROVE Rests(r)
  BY <1>3 DEF Rests
<1>4. ASSUME NEW w \in Workers, Handle(w) PROVE Rests(r) \/ MovesOn(r) \/ Consumes(r)
  <2>1. ASSUME Advance(w) \/ Validate(w) \/ PostToLedger(w) \/ Record(w)
        PROVE  UNCHANGED << resStatus, consumed >>
    BY <2>1 DEF Advance, Validate, PostToLedger, Record, docVars
  <2> QED BY <1>1, <1>2, <1>3, <1>4, <2>1 DEF Handle
<1>5. ASSUME [Next]_vars, ~\E w \in Workers : Handle(w) PROVE UNCHANGED << resStatus, consumed >>
  BY <1>5 DEF Next, LoadReservation, FindDue, LoadRelease, LoadPost, Start, Fail, Quiet, vars, docVars
<1> QED BY <1>3, <1>4, <1>5

(* As long as only the expiry timer is let into a document while another     *)
(* handler is under way on it, reservations that have ended stay so.         *)
THEOREM ReservationsEndOnce ==
    ASSUME Exclusive
    PROVE  Spec => EndedStaysEnded
<1>1. Init => FactsInv
  BY DEF Init, FactsInv, Alone
<1>2. ResTypeInv /\ FactsInv /\ [Next]_vars => FactsInv'
  BY FactsNext
<1>3. ResTypeInv /\ FactsInv /\ [Next]_vars =>
         [\A r \in Reservations : resStatus[r] \in Terminal => resStatus'[r] = resStatus[r]]_resStatus
  <2> SUFFICES ASSUME ResTypeInv, FactsInv, [Next]_vars, NEW r \in Reservations, resStatus[r] \in Terminal
               PROVE  resStatus'[r] = resStatus[r]
    OBVIOUS
  <2>1. Transitions[resStatus[r]] = {} /\ resStatus[r] \notin Active
    BY DEF Terminal, Transitions, Active
  <2> QED BY <2>1, ReservationStep DEF Rests, MovesOn, Consumes
<1> QED BY <1>1, <1>2, <1>3, ReservationTypes, PTL DEF Spec, EndedStaysEnded

(* .. and their status tells what of them is consumed. *)
THEOREM StatusesTellConsumption ==
    ASSUME Exclusive
    PROVE  Spec => []StatusTellsConsumption
<1>1. Init => FactsInv /\ StatusTellsConsumption
  <2> SUFFICES ASSUME Init PROVE FactsInv /\ StatusTellsConsumption
    OBVIOUS
  <2>1. FactsInv
    BY DEF Init, FactsInv, Alone
  <2>2. ASSUME NEW r \in Reservations
        PROVE  resStatus[r] = "DRAFT" /\ (\A l \in LinesOf(r) : consumed[l] = 0)
               /\ \E l \in LinesOf(r) : ~(consumed[l] >= Lines[l].qty)
    <3>1. \A l \in LinesOf(r) : l \in LineIds /\ consumed[l] = 0 /\ Lines[l].qty \in Nat /\ Lines[l].qty > 0
      BY LineFields DEF Init, LinesOf
    <3>2. \E l \in LinesOf(r) : TRUE
      BY ReservationsAssumption DEF LinesOf
    <3> QED BY <3>1, <3>2 DEF Init
  <2> QED BY <2>1, <2>2 DEF StatusTellsConsumption
<1>2. ResTypeInv /\ FactsInv /\ [Next]_vars => FactsInv'
  BY FactsNext
<1>3. ResTypeInv /\ FactsInv /\ StatusTellsConsumption /\ [Next]_vars => StatusTellsConsumption'
  <2> SUFFICES ASSUME ResTypeInv, FactsInv, StatusTellsConsumption, [Next]_vars, NEW r \in Reservations
               PROVE  /\ resStatus'[r] = "CONSUMED" <=> \A l \in LinesOf(r) : consumed'[l] >= Lines[l].qty
                      /\ resStatus'[r] = "PARTIALLY_CONSUMED" => \E l \in LinesOf(r) : consumed'[l] > 0
                      /\ resStatus'[r] \in {"DRAFT", "RESERVED"} => \A l \in LinesOf(r) : consumed'[l] = 0
    BY DEF StatusTellsConsumption
  <2> DEFINE st == resStatus[r]
             new == resStatus'[r]
             all == \A l \in LinesOf(r) : consumed[l] >= Lines[l].qty
  <2>1. /\ st = "CONSUMED" <=> all
        /\ st = "PARTIALLY_CONSUMED" => \E l \in LinesOf(r) : consumed[l] > 0
        /\ st \in {"DRAFT", "RESERVED"} => \A l \in LinesOf(r) : consumed[l] = 0
    BY DEF StatusTellsConsumption
  <2>2. CASE Rests(r)
    BY <2>1, <2>2 DEF Rests
  <2>3. CASE MovesOn(r)
    <3>1. st \in ReservationStatus /\ new \in Transitions[st] \ {"PARTIALLY_CONSUMED", "CONSUMED"}
      BY <2>3 DEF MovesOn, ResTypeInv, DataTypes
    <3>2. st # "CONSUMED" /\ new # "DRAFT" /\ (new = "RESERVED" => st = "DRAFT")
      <4> HIDE DEF st, new
      <4> QED BY <3>1 DEF Transitions, ReservationStatus
    <3>3. ~ \A l \in LinesOf(r) : consumed'[l] >= Lines[l].qty
      BY <2>1, <2>3, <3>2 DEF MovesOn
    <3>4. new = "RESERVED" => \A l \in LinesOf(r) : consumed'[l] = 0
      BY <2>1, <2>3, <3>2 DEF MovesOn
    <3> QED BY <3>1, <3>2, <3>3, <3>4
  <2>4. CASE Consumes(r)
    BY <2>4 DEF Consumes
  <2> QED BY <2>2, <2>3, <2>4, ReservationStep
<1> QED BY <1>1, <1>2, <1>3, ReservationTypes, PTL DEF Spec

(* No two items of a release name one reservation line.  Nothing in the code *)
(* sees to it: each item is checked on its own.                              *)
DistinctLines ==
    \A s \in Releases : \A i, k \in DOMAIN Items[s] :
        Items[s][i].line = Items[s][k].line /\ Items[s][i].line # NoLine => i = k

(* .. and, if the items of each release name lines of their own, never is    *)
(* more of a line consumed than was reserved.                                *)
THEOREM ConsumptionWithinQuantity ==
    ASSUME Exclusive, DistinctLines
    PROVE  Spec => []ConsumedWithinQuantity
<1>1. Init => FactsInv /\ ConsumedWithinQuantity
  BY LineFields DEF Init, FactsInv, Alone, ConsumedWithinQuantity
<1>2. ResTypeInv /\ FactsInv /\ [Next]_vars => FactsInv'
  BY FactsNext
<1>3. ResTypeInv /\ FactsInv /\ ConsumedWithinQuantity /\ [Next]_vars => ConsumedWithinQuantity'
  <2> SUFFICES ASSUME ResTypeInv, FactsInv, ConsumedWithinQuantity, [Next]_vars
               PROVE  ConsumedWithinQuantity'
    OBVIOUS
  <2>1. ASSUME NEW w \in Workers, Close(w), NEW l \in LineIds
        PROVE  consumed'[l] <= Lines[l].qty
    <3> DEFINE j == job[w]
               s == j.doc
               S == { i \in ApprovedItems(s, j.qty) : Items[s][i].line = l }
    <3>1. /\ pc[w] = "recorded" /\ s \in Releases /\ ForItems(s, j.qty)
          /\ consumed'[l] = consumed[l] + Taken(s, j.qty, l)
          /\ Taken(s, j.qty, l) \in Nat /\ consumed[l] \in Nat
      BY <2>1, WritesOnClosing
    <3>2. consumed[l] <= Lines[l].qty /\ Lines[l].qty \in Nat /\ l # NoLine
      BY LineFields, ReservationsAssumption DEF ConsumedWithinQuantity
    <3>3. CASE l \notin LinesUsed(s, j.qty)
      <4>1. Taken(s, j.qty, l) = 0
        BY <3>1, <3>3, TakenOf
      <4> QED BY <3>1, <3>2, <4>1
    <3>4. CASE l \in LinesUsed(s, j.qty)
      <4>1. PICK i \in ApprovedItems(s, j.qty) : Items[s][i].line = l
        BY <3>4 DEF LinesUsed
      <4>2. \A k \in S : k = i
        <5>1. \A k \in ApprovedItems(s, j.qty) : k \in DOMAIN Items[s]
          BY <3>1, ApprovedItemsFinite
        <5> QED BY <3>1, <3>2, <4>1, <5>1 DEF DistinctLines
      <4>3. S = {i} /\ j.qty[i] \in Nat
        <5>1. i \in S
          BY <4>1
        <5>2. j.qty[i] \in Nat
          BY <3>1, ApprovedItemsFinite
        <5> HIDE DEF S
        <5> QED BY <4>2, <5>1, <5>2
      <4>4. Taken(s, j.qty, l) = j.qty[i]
        <5>1. Taken(s, j.qty, l) = SumOver(j.qty, S)
          BY SumFunctionIsSum DEF Taken
        <5> DEFINE q == j.qty
        <5>2. SumOver(q, {i}) = q[i]
          <6>1. q[i] \in Int
            BY <4>3
          <6> HIDE DEF q
          <6> QED BY <6>1, SumSingleton
        <5> QED BY <4>3, <5>1, <5>2
      <4>5. j.qty[i] <= Lines[l].qty - consumed[l]
        <5>1. Facts(j, "recorded", resStatus, consumed, relStatus, approved)
          BY <3>1 DEF FactsInv
        <5> QED BY <3>2, <4>1, <5>1 DEF Facts
      <4> DEFINE q == j.qty[i]
      <4>6. consumed'[l] = consumed[l] + q /\ q \in Nat /\ q <= Lines[l].qty - consumed[l]
        BY <3>1, <4>3, <4>4, <4>5
      <4> HIDE DEF q
      <4> QED BY <3>1, <3>2, <4>6
    <3> QED BY <3>3, <3>4
  <2>2. ASSUME [Next]_vars, ~\E w \in Workers : Close(w) PROVE UNCHANGED consumed
    BY <2>2 DEF Next, Handle, LoadReservation, FindDue, LoadRelease, LoadPost, Start, Fail, Quiet, vars,
                docVars, Confirm, ReturnReserved, Expire, Advance, Validate, PostToLedger, Record
  <2> QED BY <2>1, <2>2 DEF ConsumedWithinQuantity
<1> QED BY <1>1, <1>2, <1>3, ReservationTypes, PTL DEF Spec

-----------------------------------------------------------------------------
(* Confirming *)

(* What is free of a row. *)
Free(bal) == [g \in Grains |-> bal[g]["onHand"] - bal[g]["reserved"] - bal[g]["quarantined"]]

(* What is available of a product is what is free of its rows. *)
LEMMA AvailableIsFree ==
    ASSUME NEW p
    PROVE  Available(p) = SumOver(Free(balance), {Nil[p]} \cup Lots[p])
BY SumFunctionIsSum DEF Available, Free

(* .. which are finitely many numbers. *)
LEMMA FreeInt ==
    ASSUME NEW bal \in Balances, NEW p \in Products
    PROVE  /\ \A g \in Grains : Free(bal)[g] \in Int
           /\ IsFiniteSet({Nil[p]} \cup Lots[p]) /\ {Nil[p]} \cup Lots[p] \subseteq Grains
<1>1. {Nil[p]} \cup Lots[p] \subseteq Grains /\ IsFiniteSet(Grains)
  BY ReservationsAssumption
<1>2. IsFiniteSet({Nil[p]} \cup Lots[p])
  BY <1>1, FS_Subset
<1>3. ASSUME NEW g \in Grains PROVE Free(bal)[g] \in Int
  <2> DEFINE x == bal[g]["onHand"]
             y == bal[g]["reserved"]
             z == bal[g]["quarantined"]
  <2>1. x \in Int /\ y \in Int /\ z \in Int
    BY DEF Balances, Row, Buckets
  <2>2. Free(bal)[g] = x - y - z
    BY DEF Free
  <2> HIDE DEF x, y, z
  <2> QED BY <2>1, <2>2
<1> QED BY <1>1, <1>2, <1>3

(* A confirmation, however stale what its handler has read, reserves no more *)
(* than is available when it does.                                           *)
LEMMA ConfirmFits ==
    ASSUME ResTypeInv, NEW w \in Workers, Confirm(w), balance' # balance,
           NEW p \in ProductsOf(job[w].doc)
    PROVE  SumOver(Free(balance'), {Nil[p]} \cup Lots[p]) >= 0
<1> DEFINE r == job[w].doc
           S == {Nil[p]} \cup Lots[p]
           none == [l \in LineIds |-> 0]
           left == Left(r, p, none)
           f == Free(balance)
           h == Free(balance')
<1>1. balance' = WithReserved(Reserving(r)) /\ left <= Available(p)
  <2>1. Fits(r) /\ balance' = WithReserved(Reserving(r))
    BY DEF Confirm, Reserving
  <2> QED BY <2>1 DEF Fits
<1>2. p \in Products /\ balance \in Balances /\ balance' \in Balances
  <2>1. p \in Products
    BY LineFields DEF ProductsOf, LinesOf
  <2>2. balance' \in Balances
    BY ConfirmStep DEF RowsKept
  <2> QED BY <2>1, <2>2 DEF ResTypeInv, DataTypes
<1>3. \A q \in Products : Reserved(q) \in Int /\ Left(r, q, none) \in Nat
  <2>1. none \in [LineIds -> Nat]
    OBVIOUS
  <2> HIDE DEF none
  <2> QED BY <1>2, <2>1, LeftNat, ReservedInt
<1>4. Reserving(r) \in [Products -> Int] /\ Reserving(r)[p] = Reserved(p) + left
  <2>1. \A q \in Products : Reserved(q) + Left(r, q, none) \in Int
    BY <1>3
  <2> QED BY <1>2, <2>1 DEF Reserving
<1> DEFINE F == Reserving(r)
<1>5. /\ \A q \in Products : balance'[Nil[q]]["reserved"] = F[q]
      /\ \A g \in Grains, b \in Buckets : b # "reserved" => balance'[g][b] = balance[g][b]
      /\ \A g \in Grains : (\A q \in Products : g # Nil[q]) => balance'[g] = balance[g]
  <2>1. \A g \in Grains : (\A q \in Products : g # Nil[q]) => balance'[g] = balance[g]
    BY <1>1 DEF WithReserved
  <2>2. F \in [Products -> Int]
    BY <1>4
  <2> HIDE DEF F
  <2>3. balance' = WithReserved(F)
    BY <1>1 DEF F
  <2> QED BY <1>2, <2>1, <2>2, <2>3, WithReservedRows
<1>6. /\ \A g \in Grains : f[g] \in Int /\ h[g] \in Int
      /\ IsFiniteSet(S) /\ S \subseteq Grains /\ Nil[p] \in S
  BY <1>2, FreeInt
<1>7. h[Nil[p]] = f[Nil[p]] - left
  <2> DEFINE x == balance[Nil[p]]["onHand"]
             y == balance[Nil[p]]["reserved"]
             z == balance[Nil[p]]["quarantined"]
  <2>1. x \in Int /\ y \in Int /\ z \in Int /\ left \in Int
    BY <1>2, <1>3, <1>6 DEF Balances, Row, Buckets
  <2>2. f[Nil[p]] = x - y - z
    BY <1>6 DEF Free
  <2>3. h[Nil[p]] = x - (y + left) - z
    <3>1. /\ balance'[Nil[p]]["onHand"] = x /\ balance'[Nil[p]]["quarantined"] = z
          /\ balance'[Nil[p]]["reserved"] = y + left
      BY <1>2, <1>4, <1>5, <1>6 DEF Buckets, Reserved
    <3> QED BY <1>6, <3>1 DEF Free
  <2> HIDE DEF x, y, z, left, f, h
  <2> QED BY <2>1, <2>2, <2>3
<1>8. \A g \in S \ {Nil[p]} : h[g] = f[g]
  <2> SUFFICES ASSUME NEW g \in S \ {Nil[p]} PROVE h[g] = f[g]
    OBVIOUS
  <2>1. g \in Grains /\ \A q \in Products : g # Nil[q]
    BY <1>2, <1>6, ReservationsAssumption
  <2> QED BY <1>5, <2>1 DEF Free
<1>9. SumOver(h, S) = SumOver(f, S) - f[Nil[p]] + h[Nil[p]]
  <2> DEFINE x == Nil[p]
  <2>1. x \in S /\ (\A g \in S : f[g] \in Int /\ h[g] \in Int) /\ \A g \in S \ {x} : f[g] = h[g]
    BY <1>6, <1>8
  <2> HIDE DEF x, f, h, S
  <2>2. SumOver(h, S) = SumOver(f, S) - f[x] + h[x]
    BY <1>6, <2>1, SumChange
  <2> QED BY <2>2 DEF x
<1>10. SumOver(f, S) = Available(p) /\ SumOver(f, S) \in Int
  <2>1. SumOver(f, S) = Available(p)
    BY AvailableIsFree
  <2>2. \A g \in S : f[g] \in Int
    BY <1>6
  <2> HIDE DEF f, S
  <2> QED BY <1>6, <2>1, <2>2, SumInt
<1>11. f[Nil[p]] \in Int /\ left \in Int
  BY <1>2, <1>3, <1>6
<1> HIDE DEF f, h, S, left
<1>12. SumOver(h, S) >= 0
  BY <1>1, <1>7, <1>9, <1>10, <1>11
<1> QED BY <1>12 DEF h, S

(* "A reservation confirm can never make available negative", whatever else   *)
(* is under way.                                                             *)
THEOREM ConfirmsWithinStock == Spec => ConfirmNeverOversells
<1>1. ResTypeInv /\ [Next]_vars =>
         [\A w \in Workers : Handling(w, "confirm") /\ pc'[w] = "idle" /\ balance' # balance
              => \A p \in ProductsOf(job[w].doc) : Available(p)' >= 0]_vars
  <2> SUFFICES ASSUME ResTypeInv, [Next]_vars, NEW w \in Workers, Handling(w, "confirm"),
                      pc'[w] = "idle", balance' # balance, NEW p \in ProductsOf(job[w].doc)
               PROVE  Available(p)' >= 0
    OBVIOUS
  <2>1. Available(p)' = SumOver(Free(balance'), {Nil[p]} \cup Lots[p])
    BY SumFunctionIsSum DEF Available, Free
  <2>2. Confirm(w)
    <3>1. ASSUME NEW v \in Workers, Handle(v) PROVE v = w
      <4>1. \E phase, j : Moves(v, phase, j)
        <5>1. CASE Done(v)
          BY <5>1 DEF Done, Moves
        <5>2. CASE Validate(v) /\ ~Done(v)
          <6>1. PICK lot : job' = [job EXCEPT ![v].lot = lot] /\ pc' = [pc EXCEPT ![v] = "validated"]
            BY <5>2 DEF Validate
          <6>2. Moves(v, "validated", [job[v] EXCEPT !.lot = lot])
            BY <6>1 DEF Moves, ResTypeInv, JobsSound
          <6> QED BY <6>2
        <5>3. CASE PostToLedger(v) /\ ~Done(v)
          <6>1. Moves(v, "posted", job[v])
            BY <5>3 DEF PostToLedger, Moves, ResTypeInv, JobsSound
          <6> QED BY <6>1
        <5>4. CASE Record(v)
          <6> DEFINE k == [job[v] EXCEPT !.rolled = [r \in ReservationsUsed(job[v].doc, job[v].qty) |->
                                                        Rolled(job[v].doc, job[v].qty, r)]]
          <6>1. Moves(v, "recorded", k)
            BY <5>4 DEF Record, Moves, ResTypeInv, JobsSound
          <6> QED BY <6>1
        <5> QED BY <3>1, <5>1, <5>2, <5>3, <5>4
              DEF Handle, Confirm, ReturnReserved, Expire, Advance, Close
      <4>2. PICK phase, j : Moves(v, phase, j)
        BY <4>1
      <4> QED BY <4>2, MovesOne DEF Handling
    <3>2. ASSUME [Next]_vars, ~\E v \in Workers : Handle(v) PROVE UNCHANGED balance
      BY <3>2 DEF Next, LoadReservation, FindDue, LoadRelease, LoadPost, Start, Fail, Quiet, vars, stockVars
    <3>3. Handle(w)
      BY <3>1, <3>2
    <3> QED BY <3>3 DEF Handle, Handling, ReturnReserved, Expire, Advance, Validate, PostToLedger,
                        Record, Close, ReleaseOps
  <2>3. SumOver(Free(balance'), {Nil[p]} \cup Lots[p]) >= 0
    BY <2>2, ConfirmFits
  <2> QED BY <2>1, <2>3
<1> QED BY <1>1, ReservationTypes, PTL DEF Spec, ConfirmNeverOversells

-----------------------------------------------------------------------------
(* What is reserved, line by line *)

LinesOn(p) == { l \in LineIds : Lines[l].product = p }

(* What lines have left, by consumed quantities cs; what of it is held, by   *)
(* statuses rs; and less what half-posted releases, u, have taken of it.     *)
LeftLine(cs) == [l \in LineIds |-> IF Lines[l].qty > cs[l] THEN Lines[l].qty - cs[l] ELSE 0]
Held(rs, cs) == [l \in LineIds |-> IF rs[Lines[l].res] \in Active THEN LeftLine(cs)[l] ELSE 0]
Owing(u) == [l \in LineIds |-> IF Lots[Lines[l].product] = {} THEN u[l] ELSE 0]
Net(rs, cs, u) == [l \in LineIds |-> Held(rs, cs)[l] - Owing(u)[l]]

(* What r has left, on all lines. *)
PartOf(r, cs) == [l \in LineIds |-> IF Lines[l].res = r THEN LeftLine(cs)[l] ELSE 0]

(* The terms are numbers. *)
LEMMA LeftTerms ==
    ASSUME NEW cs \in [LineIds -> Nat], NEW l \in LineIds
    PROVE  /\ LeftLine(cs)[l] \in Nat
           /\ LeftLine(cs)[l] = IF Lines[l].qty > cs[l] THEN Lines[l].qty - cs[l] ELSE 0
<1>1. Lines[l].qty \in Nat /\ cs[l] \in Nat
  BY LineFields
<1> QED BY <1>1 DEF LeftLine

(* What one reservation leaves on one line: its own line's remainder, and nothing of another's. *)
LEMMA PartTerms ==
    ASSUME NEW cs \in [LineIds -> Nat], NEW r, NEW l \in LineIds
    PROVE  /\ PartOf(r, cs)[l] \in Nat
           /\ PartOf(r, cs)[l] = IF Lines[l].res = r THEN LeftLine(cs)[l] ELSE 0
<1>1. PartOf(r, cs)[l] = IF Lines[l].res = r THEN LeftLine(cs)[l] ELSE 0
  BY DEF PartOf
<1>2. LeftLine(cs)[l] \in Nat
  BY LeftTerms
<1> QED BY <1>1, <1>2

(* The terms of the claim a line has on its row are numbers too. *)
LEMMA NetTypes ==
    ASSUME NEW rs, NEW cs \in [LineIds -> Nat], NEW u \in [LineIds -> Nat], NEW l \in LineIds
    PROVE  Held(rs, cs)[l] \in Nat /\ Owing(u)[l] \in Nat /\ Net(rs, cs, u)[l] \in Int
<1>1. Held(rs, cs)[l] = IF rs[Lines[l].res] \in Active THEN LeftLine(cs)[l] ELSE 0
  BY DEF Held
<1>2. Owing(u)[l] = IF Lots[Lines[l].product] = {} THEN u[l] ELSE 0
  BY DEF Owing
<1>3. Net(rs, cs, u)[l] = Held(rs, cs)[l] - Owing(u)[l]
  BY DEF Net
<1>4. LeftLine(cs)[l] \in Nat /\ u[l] \in Nat
  BY LeftTerms
<1>5. Held(rs, cs)[l] \in Nat /\ Owing(u)[l] \in Nat
  BY <1>1, <1>2, <1>4
<1> QED BY <1>3, <1>5

(* A product has finitely many lines, so that they can be summed. *)
LEMMA LinesOnFinite ==
    ASSUME NEW p
    PROVE  IsFiniteSet(LinesOn(p)) /\ LinesOn(p) \subseteq LineIds
BY ReservationsAssumption, FS_Subset DEF LinesOn

(* What r has left of p, as a sum over all lines on p. *)
LEMMA LeftIsPart ==
    ASSUME NEW r, NEW p, NEW cs \in [LineIds -> Nat]
    PROVE  Left(r, p, cs) = SumOver(PartOf(r, cs), LinesOn(p))
<1> DEFINE f == LeftLine(cs)
           g == PartOf(r, cs)
           S == LinesOn(p)
           T == { l \in LinesOf(r) : Lines[l].product = p }
<1>1. \A l \in LineIds : f[l] \in Nat /\ g[l] = IF Lines[l].res = r THEN f[l] ELSE 0
  BY LeftTerms, PartTerms
<1>2. IsFiniteSet(S) /\ S \subseteq LineIds
  BY LinesOnFinite
<1>3. Left(r, p, cs) = SumOver(f, T)
  BY SumFunctionIsSum DEF Left, LeftLine
<1>4. T \in SUBSET S /\ \A l \in T : Lines[l].res = r
  BY DEF LinesOn, LinesOf
<1>5. \A l \in S \ T : Lines[l].res # r
  BY DEF LinesOn, LinesOf
<1> HIDE DEF f, g, S, T
<1>6. (\A l \in T : f[l] \in Int /\ g[l] = f[l]) /\ \A l \in S \ T : g[l] = 0
  BY <1>1, <1>2, <1>4, <1>5
<1>7. SumOver(g, S) = SumOver(f, T)
  BY <1>2, <1>4, <1>6, SumPart
<1> QED BY <1>3, <1>7 DEF g, S

(* The sums of ReservedHeld are one sum over the lines on p. *)
LEMMA HeldSum ==
    ASSUME NEW rs, NEW cs \in [LineIds -> Nat], NEW u \in [LineIds -> Nat], NEW p
    PROVE  SumFunctionOnSet([r \in Reservations |-> Left(r, p, cs)],
                            { r \in Reservations : rs[r] \in Active })
           - SumFunctionOnSet([l \in LineIds |-> u[l]], { l \in LineIds : Lines[l].product = p /\ Lots[p] = {} })
           = SumOver(Net(rs, cs, u), LinesOn(p))
<1> DEFINE S == LinesOn(p)
           L == { r \in Reservations : rs[r] \in Active }
           f == LeftLine(cs)
           h == Held(rs, cs)
           o == Owing(u)
           n == Net(rs, cs, u)
           t == [r \in Reservations |-> Left(r, p, cs)]
           v == [l \in LineIds |-> u[l]]
           key == [l \in LineIds |-> Lines[l].res]
           T == { l \in S : key[l] \in L }
           V == { l \in LineIds : Lines[l].product = p /\ Lots[p] = {} }
<1>1. /\ \A l \in LineIds :
            /\ f[l] \in Nat /\ h[l] \in Nat /\ o[l] \in Nat /\ n[l] \in Int /\ n[l] = h[l] - o[l]
            /\ h[l] = IF rs[Lines[l].res] \in Active THEN f[l] ELSE 0
            /\ o[l] = IF Lots[Lines[l].product] = {} THEN u[l] ELSE 0
      /\ IsFiniteSet(S) /\ S \subseteq LineIds
  <2>1. ASSUME NEW l \in LineIds
        PROVE  /\ f[l] \in Nat /\ h[l] \in Nat /\ o[l] \in Nat /\ n[l] \in Int /\ n[l] = h[l] - o[l]
               /\ h[l] = IF rs[Lines[l].res] \in Active THEN f[l] ELSE 0
               /\ o[l] = IF Lots[Lines[l].product] = {} THEN u[l] ELSE 0
    <3>1. f[l] \in Nat
      BY LeftTerms
    <3>2. h[l] \in Nat /\ o[l] \in Nat /\ n[l] \in Int
      BY NetTypes
    <3>5. n[l] = h[l] - o[l]
      BY DEF Net
    <3>3. h[l] = IF rs[Lines[l].res] \in Active THEN f[l] ELSE 0
      BY DEF Held
    <3>4. o[l] = IF Lots[Lines[l].product] = {} THEN u[l] ELSE 0
      BY DEF Owing
    <3> HIDE DEF f, h, o, n
    <3> QED BY <3>1, <3>2, <3>3, <3>4, <3>5
  <2>2. IsFiniteSet(S) /\ S \subseteq LineIds
    BY LinesOnFinite
  <2> QED BY <2>1, <2>2
<1>2. SumOver(t, L) = SumOver(f, T)
  <2>1. Grouped(t, L, f, S, key)
    <3> SUFFICES ASSUME NEW r \in L PROVE t[r] = SumOver(f, { l \in S : key[l] = r })
      BY DEF Grouped
    <3>1. t[r] = Left(r, p, cs)
      OBVIOUS
    <3>2. Left(r, p, cs) = SumOver(f, { l \in LinesOf(r) : Lines[l].product = p })
      BY SumFunctionIsSum DEF Left, LeftLine
    <3>3. { l \in LinesOf(r) : Lines[l].product = p } = { l \in S : key[l] = r }
      BY DEF LinesOf, LinesOn
    <3> QED BY <3>1, <3>2, <3>3
  <2>2. IsFiniteSet(L) /\ \A l \in S : f[l] \in Int
    BY <1>1, ReservationsAssumption, FS_Subset
  <2> HIDE DEF t, L, f, S, key
  <2> QED BY <1>1, <2>1, <2>2, SumByKey DEF T
<1>3. SumOver(h, S) = SumOver(f, T)
  <2>1. T \in SUBSET S
    OBVIOUS
  <2>2. \A l \in S : key[l] \in L <=> rs[Lines[l].res] \in Active
    BY <1>1, LineFields
  <2>3. (\A l \in T : l \in S /\ key[l] \in L) /\ \A l \in S \ T : ~(key[l] \in L)
    OBVIOUS
  <2> HIDE DEF T, f, h, S, L, key
  <2>4. (\A l \in T : f[l] \in Int /\ h[l] = f[l]) /\ \A l \in S \ T : h[l] = 0
    BY <1>1, <2>2, <2>3
  <2> QED BY <1>1, <2>1, <2>4, SumPart
<1>4. SumOver(o, S) = SumOver(v, V)
  <2>1. V \in SUBSET S /\ \A l \in LineIds : v[l] = u[l] /\ u[l] \in Nat
    BY DEF LinesOn
  <2>2. /\ \A l \in V : l \in LineIds /\ Lots[Lines[l].product] = {}
        /\ \A l \in S \ V : l \in LineIds /\ Lots[Lines[l].product] # {}
    BY DEF LinesOn
  <2> HIDE DEF V, v, o, S
  <2>3. ASSUME NEW l \in V PROVE v[l] \in Int /\ o[l] = v[l]
    <3>1. l \in LineIds /\ Lots[Lines[l].product] = {}
      BY <2>2
    <3>2. o[l] = u[l]
      BY <1>1, <3>1
    <3>3. v[l] = u[l] /\ u[l] \in Nat
      BY <2>1, <3>1
    <3> QED BY <3>2, <3>3
  <2>4. ASSUME NEW l \in S \ V PROVE o[l] = 0
    BY <1>1, <2>2
  <2> QED BY <1>1, <2>1, <2>3, <2>4, SumPart
<1>5. SumOver(h, S) = SumOver(n, S) + SumOver(o, S) /\ SumOver(n, S) \in Int /\ SumOver(o, S) \in Int
  <2>1. \A l \in S : n[l] \in Int /\ o[l] \in Int /\ h[l] = n[l] + o[l]
    BY <1>1
  <2> HIDE DEF h, n, o, S
  <2> QED BY <1>1, <2>1, SumPlus, SumInt
<1>6. /\ SumFunctionOnSet(t, L) = SumOver(t, L) /\ SumFunctionOnSet(v, V) = SumOver(v, V)
  <2> HIDE DEF t, L, v, V
  <2> QED BY SumFunctionIsSum
<1> HIDE DEF t, L, v, V, S, f, h, o, n, T
<1>7. SumFunctionOnSet(t, L) - SumFunctionOnSet(v, V) = SumOver(n, S)
  <2> DEFINE x == SumOver(n, S)
             y == SumOver(o, S)
  <2>1. SumFunctionOnSet(t, L) = x + y /\ SumFunctionOnSet(v, V) = y /\ x \in Int /\ y \in Int
    BY <1>2, <1>3, <1>4, <1>5, <1>6
  <2> HIDE DEF x, y
  <2>2. SumFunctionOnSet(t, L) - SumFunctionOnSet(v, V) = x
    BY <2>1
  <2> QED BY <2>2 DEF x
<1> QED BY <1>7 DEF t, L, v, V, n, S

-----------------------------------------------------------------------------
(* The balances and the lines agree *)

(* What half-posted releases have taken fits what is left of the lines. *)
Agrees(rs, cs, u) ==
    \A l \in LineIds : u[l] > 0 => rs[Lines[l].res] \in Active /\ cs[l] + u[l] <= Lines[l].qty

(* What is reserved of each product is what its lines hold. *)
Matches(bal, rs, cs, u) ==
    \A p \in Products : bal[Nil[p]]["reserved"] = SumOver(Net(rs, cs, u), LinesOn(p))

(* The lines hold d more, and as much more is reserved. *)
LEMMA MatchesMore ==
    ASSUME NEW bal, NEW rs, NEW cs \in [LineIds -> Nat], NEW u \in [LineIds -> Nat],
           NEW bal2, NEW rs2, NEW cs2 \in [LineIds -> Nat], NEW u2 \in [LineIds -> Nat], NEW d,
           Matches(bal, rs, cs, u),
           \A l \in LineIds : d[l] \in Int /\ Net(rs2, cs2, u2)[l] = Net(rs, cs, u)[l] + d[l],
           \A p \in Products :
              bal2[Nil[p]]["reserved"] = bal[Nil[p]]["reserved"] + SumOver(d, LinesOn(p))
    PROVE  Matches(bal2, rs2, cs2, u2)
<1> SUFFICES ASSUME NEW p \in Products
             PROVE  bal2[Nil[p]]["reserved"] = SumOver(Net(rs2, cs2, u2), LinesOn(p))
  BY DEF Matches
<1> DEFINE f == Net(rs, cs, u)
           g == Net(rs2, cs2, u2)
           S == LinesOn(p)
<1>1. IsFiniteSet(S) /\ \A l \in S : f[l] \in Int /\ d[l] \in Int /\ g[l] = f[l] + d[l]
  BY NetTypes, LinesOnFinite
<1>2. bal[Nil[p]]["reserved"] = SumOver(f, S)
  BY DEF Matches
<1> HIDE DEF f, g, S
<1>3. SumOver(g, S) = SumOver(f, S) + SumOver(d, S)
  BY <1>1, SumPlus
<1> QED BY <1>2, <1>3 DEF g, S

(* They hold d less, and as much less is reserved. *)
LEMMA MatchesLess ==
    ASSUME NEW bal, NEW rs, NEW cs \in [LineIds -> Nat], NEW u \in [LineIds -> Nat],
           NEW bal2 \in Balances, NEW rs2, NEW cs2 \in [LineIds -> Nat], NEW u2 \in [LineIds -> Nat], NEW d,
           Matches(bal, rs, cs, u),
           \A l \in LineIds : d[l] \in Int /\ Net(rs, cs, u)[l] = Net(rs2, cs2, u2)[l] + d[l],
           \A p \in Products :
              bal[Nil[p]]["reserved"] = bal2[Nil[p]]["reserved"] + SumOver(d, LinesOn(p))
    PROVE  Matches(bal2, rs2, cs2, u2)
<1> SUFFICES ASSUME NEW p \in Products
             PROVE  bal2[Nil[p]]["reserved"] = SumOver(Net(rs2, cs2, u2), LinesOn(p))
  BY DEF Matches
<1> DEFINE f == Net(rs, cs, u)
           g == Net(rs2, cs2, u2)
           S == LinesOn(p)
           x == bal[Nil[p]]["reserved"]
           y == bal2[Nil[p]]["reserved"]
<1>1. IsFiniteSet(S) /\ \A l \in S : g[l] \in Int /\ d[l] \in Int /\ f[l] = g[l] + d[l]
  BY NetTypes, LinesOnFinite
<1>2. x = SumOver(f, S) /\ x = y + SumOver(d, S) /\ y \in Int
  <2>1. Nil[p] \in Grains /\ "reserved" \in Buckets
    BY ReservationsAssumption DEF Buckets
  <2> QED BY <2>1 DEF Matches, Balances, Row
<1> HIDE DEF f, g, S, x, y
<1>3. SumOver(f, S) = SumOver(g, S) + SumOver(d, S) /\ SumOver(g, S) \in Int /\ SumOver(d, S) \in Int
  BY <1>1, SumPlus, SumInt
<1>4. y = SumOver(g, S)
  <2> DEFINE a == SumOver(g, S)
             b == SumOver(d, S)
  <2>1. x = a + b /\ x = y + b /\ a \in Int /\ b \in Int /\ y \in Int
    BY <1>2, <1>3
  <2> HIDE DEF a, b
  <2>2. y = a
    BY <2>1
  <2> QED BY <2>2 DEF a
<1> QED BY <1>4 DEF y, g, S

-----------------------------------------------------------------------------
(* Lines and items *)

(* What s takes of each line, all together and by product. *)
TakenBy(s, qty) == [l \in LineIds |-> Taken(s, qty, l)]
Direct(s, qty) == Owing(TakenBy(s, qty))
Batched(s, qty) == [l \in LineIds |-> IF Lots[Lines[l].product] = {} THEN 0 ELSE Taken(s, qty, l)]

(* The items that take of reservations of p. *)
Takers(s, qty, p) ==
    { i \in ApprovedItems(s, qty) : Items[s][i].product = p /\ Items[s][i].line # NoLine }

(* They are quantities. *)
LEMMA TakenTerms ==
    ASSUME NEW s, NEW qty, ForItems(s, qty), NEW l \in LineIds
    PROVE  /\ TakenBy(s, qty)[l] = Taken(s, qty, l) /\ Taken(s, qty, l) \in Nat
           /\ Direct(s, qty)[l] = IF Lots[Lines[l].product] = {} THEN Taken(s, qty, l) ELSE 0
           /\ Batched(s, qty)[l] = IF Lots[Lines[l].product] = {} THEN 0 ELSE Taken(s, qty, l)
<1>1. Taken(s, qty, l) \in Nat
  BY TakenOf
<1> QED BY <1>1 DEF TakenBy, Direct, Batched, Owing

(* What is taken of the lines on p is what these items take. *)
LEMMA TakenByProduct ==
    ASSUME NEW s, NEW qty, ForItems(s, qty), NEW p \in Products
    PROVE  SumOver(TakenBy(s, qty), LinesOn(p)) = SumOver(qty, Takers(s, qty, p))
<1> DEFINE t == TakenBy(s, qty)
           L == LinesOn(p)
           S == ApprovedItems(s, qty)
           key == [i \in DOMAIN Items[s] |-> Items[s][i].line]
<1>1. IsFiniteSet(S) /\ S \subseteq DOMAIN Items[s] /\ \A i \in S : qty[i] \in Int
  <2>1. \A i \in DOMAIN Items[s] : qty[i] \in Nat
    BY ApprovedItemsFinite
  <2>2. IsFiniteSet(S) /\ S \subseteq DOMAIN Items[s]
    BY ApprovedItemsFinite
  <2> QED BY <2>1, <2>2
<1>2. IsFiniteSet(L) /\ L \subseteq LineIds
  BY LinesOnFinite
<1>3. Grouped(t, L, qty, S, key)
  <2> SUFFICES ASSUME NEW l \in L PROVE t[l] = SumOver(qty, { i \in S : key[i] = l })
    BY DEF Grouped
  <2>1. t[l] = SumOver(qty, { i \in S : Items[s][i].line = l })
    BY <1>2, SumFunctionIsSum DEF TakenBy, Taken
  <2>2. { i \in S : Items[s][i].line = l } = { i \in S : key[i] = l }
    BY <1>1
  <2> QED BY <2>1, <2>2
<1>4. \A i \in S : key[i] \in L <=> Items[s][i].product = p /\ Items[s][i].line # NoLine
  <2> SUFFICES ASSUME NEW i \in S
               PROVE  key[i] \in L <=> Items[s][i].product = p /\ Items[s][i].line # NoLine
    OBVIOUS
  <2>1. i \in DOMAIN Items[s] /\ s \in Releases /\ key[i] = Items[s][i].line
    BY <1>1 DEF ForItems
  <2>2. Items[s][i].line \in LineIds \cup {NoLine} /\ NoLine \notin LineIds
    BY <2>1, ItemFields, ReservationsAssumption
  <2>3. Items[s][i].line # NoLine => Lines[Items[s][i].line].product = Items[s][i].product
    BY <2>1, ReservationsAssumption
  <2> HIDE DEF key
  <2> QED BY <2>1, <2>2, <2>3 DEF LinesOn
<1>5. { i \in S : key[i] \in L } = Takers(s, qty, p)
  <2>1. Takers(s, qty, p) = { i \in S : Items[s][i].product = p /\ Items[s][i].line # NoLine }
    BY DEF Takers
  <2> HIDE DEF S, key, L
  <2> QED BY <1>4, <2>1
<1> HIDE DEF t, L, S, key
<1>6. SumOver(t, L) = SumOver(qty, { i \in S : key[i] \in L })
  BY <1>1, <1>2, <1>3, SumByKey
<1> QED BY <1>5, <1>6 DEF t, L

(* Takers that are posted on the row of the reservation, .. *)
LEMMA DirectByProduct ==
    ASSUME NEW s, NEW qty, ForItems(s, qty), NEW p \in Products
    PROVE  SumOver(Direct(s, qty), LinesOn(p)) = IF Lots[p] = {} THEN SumOver(qty, Takers(s, qty, p)) ELSE 0
<1> DEFINE f == Direct(s, qty)
           t == TakenBy(s, qty)
           L == LinesOn(p)
<1>1. IsFiniteSet(L) /\ L \subseteq LineIds /\ \A l \in L : Lines[l].product = p
  BY LinesOnFinite DEF LinesOn
<1>2. \A l \in L : f[l] = IF Lots[p] = {} THEN t[l] ELSE 0
  <2> SUFFICES ASSUME NEW l \in L PROVE f[l] = IF Lots[p] = {} THEN t[l] ELSE 0
    OBVIOUS
  <2>1. l \in LineIds /\ Lines[l].product = p
    BY <1>1
  <2> QED BY <2>1, TakenTerms
<1>3. SumOver(t, L) = SumOver(qty, Takers(s, qty, p))
  BY TakenByProduct
<1> HIDE DEF f, t, L
<1>4. CASE Lots[p] = {}
  BY <1>1, <1>2, <1>3, <1>4, SumSame DEF f, L
<1>5. CASE Lots[p] # {}
  BY <1>1, <1>2, <1>5, SumZero DEF f, L
<1> QED BY <1>4, <1>5

(* .. and those that are not. *)
LEMMA BatchedByProduct ==
    ASSUME NEW s, NEW qty, ForItems(s, qty), NEW p \in Products
    PROVE  BatchTaken(s, qty, p) = SumOver(Batched(s, qty), LinesOn(p))
<1> DEFINE f == Batched(s, qty)
           t == TakenBy(s, qty)
           L == LinesOn(p)
<1>1. IsFiniteSet(L) /\ L \subseteq LineIds /\ \A l \in L : Lines[l].product = p
  BY LinesOnFinite DEF LinesOn
<1>2. \A l \in L : f[l] = IF Lots[p] = {} THEN 0 ELSE t[l]
  <2> SUFFICES ASSUME NEW l \in L PROVE f[l] = IF Lots[p] = {} THEN 0 ELSE t[l]
    OBVIOUS
  <2>1. l \in LineIds /\ Lines[l].product = p
    BY <1>1
  <2> QED BY <2>1, TakenTerms
<1>3. SumOver(t, L) = SumOver(qty, Takers(s, qty, p))
  BY TakenByProduct
<1>4. BatchTaken(s, qty, p) = IF Lots[p] = {} THEN 0 ELSE SumOver(qty, Takers(s, qty, p))
  BY SumFunctionIsSum DEF BatchTaken, Takers
<1> HIDE DEF f, t, L
<1>5. CASE Lots[p] # {}
  BY <1>1, <1>2, <1>3, <1>4, <1>5, SumSame DEF f, L
<1>6. CASE Lots[p] = {}
  BY <1>1, <1>2, <1>4, <1>6, SumZero DEF f, L
<1> QED BY <1>5, <1>6

(* The effect of a further line on a bucket is that of the line. *)
LEMMA EffectAppended ==
    ASSUME NEW T, \A e \in T : LineDeltas(e) \in Row, NEW s \in Seq(T), NEW e \in T,
           NEW g, NEW b \in Buckets
    PROVE  /\ SumOver(EffectOn(Append(s, e), g, b), 1 .. Len(Append(s, e))) =
                  SumOver(EffectOn(s, g, b), 1 .. Len(s))
                  + (IF e.grain = g THEN LineDeltas(e)[b] ELSE 0)
<1> DEFINE n == Len(s)
           u == Append(s, e)
           f == EffectOn(u, g, b)
           h == EffectOn(s, g, b)
           x == IF e.grain = g THEN LineDeltas(e)[b] ELSE 0
<1>1. /\ n \in Nat /\ Len(u) = n + 1 /\ DOMAIN u = 1 .. n + 1 /\ DOMAIN s = 1 .. n
      /\ u[n + 1] = e /\ \A i \in 1 .. n : u[i] = s[i] /\ s[i] \in T
  OBVIOUS
<1>2. ASSUME NEW y \in T PROVE (IF y.grain = g THEN LineDeltas(y)[b] ELSE 0) \in Int
  <2>1. LineDeltas(y)[b] \in Int
    BY DEF Row
  <2> QED BY <2>1
<1> HIDE DEF n, u
<1>3. ASSUME NEW i \in 1 .. n PROVE h[i] \in Int /\ f[0 + i] = h[i]
  <2>1. i \in 1 .. n + 1 /\ 0 + i = i
    BY <1>1
  <2>2. f[i] = IF u[i].grain = g THEN LineDeltas(u[i])[b] ELSE 0
    BY <1>1, <2>1 DEF EffectOn
  <2>3. h[i] = IF s[i].grain = g THEN LineDeltas(s[i])[b] ELSE 0
    BY <1>1 DEF EffectOn
  <2>4. h[i] \in Int
    BY <1>1, <1>2, <2>3
  <2> HIDE DEF f, h
  <2> QED BY <1>1, <2>1, <2>2, <2>3, <2>4
<1>4. f[n + 1] = x /\ x \in Int
  <2>1. n + 1 \in 1 .. n + 1
    BY <1>1
  <2>2. f[n + 1] = IF u[n + 1].grain = g THEN LineDeltas(u[n + 1])[b] ELSE 0
    BY <1>1, <2>1 DEF EffectOn
  <2>3. x \in Int
    BY <1>2
  <2> QED BY <1>1, <2>2, <2>3
<1>5. Holds(f, 0, h, n)
  BY <1>3 DEF Holds
<1> HIDE DEF f, h, x
<1>6. SumOver(f, 1 .. n + 1) = SumOver(h, 1 .. n) + f[n + 1]
  BY <1>1, <1>4, <1>5, SumAppend
<1> QED BY <1>1, <1>4, <1>6 DEF f, h, x, n, u

(* Posting a release lowers what is reserved of p by what its takers take of *)
(* it, if it has no lots.                                                    *)
LEMMA PostingLowers ==
    ASSUME NEW j, ForItems(j.doc, j.qty),
           \A i \in DOMAIN Items[j.doc] : RowFits(Items[j.doc][i].product, j.lot[i]),
           NEW p \in Products
    PROVE  SumOver(EffectOn(PostingLines(j), Nil[p], "reserved"), 1 .. Len(PostingLines(j))) =
               -(IF Lots[p] = {} THEN SumOver(j.qty, Takers(j.doc, j.qty, p)) ELSE 0)
<1> DEFINE N == Len(Items[j.doc])
           q == j.qty
           g == Nil[p]
           T == LinesFor(j)
           b == "reserved"
           h == CHOOSE k : LinesUpTo(j, Len(Items[j.doc]), k)
           Takes(i) == q[i] > 0 /\ Items[j.doc][i].product = p /\ Items[j.doc][i].line # NoLine /\ Lots[p] = {}
           U(n) == { i \in 1 .. n : Takes(i) }
           Effect(n) == SumOver(EffectOn(h[n], g, b), 1 .. Len(h[n]))
           Good(n) == h[n] \in Seq(T) /\ Effect(n) = -SumOver(q, U(n))
           Q == { n \in 0 .. N : ~Good(n) }
<1>1. /\ N \in Nat /\ DOMAIN Items[j.doc] = 1 .. N /\ j.doc \in Releases
      /\ \A i \in 1 .. N : q[i] \in Nat
  BY ItemFields, ApprovedItemsFinite DEF ForItems
<1>2. LinesUpTo(j, N, h) /\ PostingLines(j) = h[N]
  BY <1>1, PostingLinesExist, PostingLinesUnfolded
<1> HIDE DEF h, N
<1>3. h[0] = << >>
  BY <1>1, <1>2 DEF LinesUpTo
<1>4. ASSUME NEW n \in 1 .. N
      PROVE  h[n] = IF q[n] > 0 THEN Append(h[n - 1], LineFor(j, n)) ELSE h[n - 1]
  <2>1. n \in 0 .. N /\ n # 0
    BY <1>1
  <2> QED BY <1>2, <2>1 DEF LinesUpTo
<1>5. b \in Buckets /\ g \in Grains
  BY ReservationsAssumption DEF Buckets
<1>6. ASSUME NEW i \in ApprovedItems(j.doc, q)
      PROVE  /\ LineFor(j, i) \in T /\ LineDeltas(LineFor(j, i)) \in Row
             /\ (IF LineFor(j, i).grain = g THEN LineDeltas(LineFor(j, i))[b] ELSE 0)
                    = IF Takes(i) THEN -q[i] ELSE 0
  <2> DEFINE item == Items[j.doc][i]
             e == LineFor(j, i)
  <2>1. i \in DOMAIN Items[j.doc] /\ q[i] > 0
    BY DEF ApprovedItems
  <2>2. item.product \in Products /\ RowFits(item.product, j.lot[i])
    BY <1>1, <2>1, ItemFields
  <2>3. /\ e.grain = j.lot[i] /\ LineDeltas(e) \in Row
        /\ LineDeltas(e)["reserved"] = IF item.line # NoLine /\ Lots[item.product] = {} THEN -j.qty[i] ELSE 0
    BY <2>2, LineForFields
  <2>4. Lots[item.product] = {} => (j.lot[i] = g <=> item.product = p)
    BY <2>2, ReservationsAssumption DEF RowFits
  <2>5. e \in T
    BY DEF LinesFor
  <2> HIDE DEF item, e, T
  <2>6. LineDeltas(e)[b] = IF item.line # NoLine /\ Lots[item.product] = {} THEN -q[i] ELSE 0
    BY <2>3
  <2>7. Takes(i) <=> item.product = p /\ item.line # NoLine /\ Lots[p] = {}
    BY <2>1 DEF item
  <2> HIDE DEF Takes, b, g, q
  <2>8. (IF e.grain = g THEN LineDeltas(e)[b] ELSE 0) = IF Takes(i) THEN -q[i] ELSE 0
    BY <2>3, <2>4, <2>6, <2>7
  <2> QED BY <2>3, <2>5, <2>8 DEF e
<1>7. \A e \in T : LineDeltas(e) \in Row
  BY <1>6 DEF LinesFor
<1>8. \A n \in 0 .. N : IsFiniteSet(U(n)) /\ \A i \in U(n) : q[i] \in Int
  <2> SUFFICES ASSUME NEW n \in 0 .. N PROVE IsFiniteSet(U(n)) /\ \A i \in U(n) : q[i] \in Int
    OBVIOUS
  <2>1. n \in Nat /\ 1 .. n \subseteq 1 .. N
    BY <1>1
  <2>2. IsFiniteSet(1 .. n) /\ U(n) \subseteq 1 .. n
    BY <2>1, FS_Interval
  <2>3. IsFiniteSet(U(n))
    <3> HIDE DEF U
    <3> QED BY <2>2, FS_Subset
  <2>4. \A i \in 1 .. N : q[i] \in Int
    BY <1>1
  <2> HIDE DEF U
  <2> QED BY <2>1, <2>2, <2>3, <2>4
<1>9. Good(0)
  <2> DEFINE e == << >>
             f == EffectOn(e, g, b)
  <2>1. e \in Seq(T) /\ Len(e) = 0 /\ 1 .. 0 = {} /\ U(0) = {}
    OBVIOUS
  <2>2. h[0] = e
    BY <1>3
  <2> HIDE DEF e, U, T
  <2>3. Effect(0) = SumOver(f, {})
    BY <2>1, <2>2
  <2> HIDE DEF f, Effect
  <2>4. Effect(0) = 0 /\ SumOver(q, U(0)) = 0
    BY <2>1, <2>3, SumEmpty
  <2> QED BY <2>1, <2>2, <2>4
<1>10. ASSUME NEW n \in 1 .. N, Good(n - 1) PROVE Good(n)
  <2> DEFINE s == h[n - 1]
             e == LineFor(j, n)
             x == IF e.grain = g THEN LineDeltas(e)[b] ELSE 0
  <2>1. s \in Seq(T) /\ Effect(n - 1) = -SumOver(q, U(n - 1))
    BY <1>10
  <2>2. n \in Nat /\ n - 1 \in 0 .. N /\ n \notin 1 .. n - 1 /\ q[n] \in Nat
    BY <1>1
  <2>3. \A i : i \in 1 .. n <=> i \in 1 .. n - 1 \/ i = n
    BY <2>2
  <2>4. SumOver(q, U(n - 1)) \in Int
    <3> HIDE DEF U, q
    <3> QED BY <1>8, <2>2, SumInt
  <2>5. CASE q[n] > 0
    <3>1. n \in ApprovedItems(j.doc, q)
      BY <1>1, <2>5 DEF ApprovedItems
    <3>2. e \in T /\ x = IF Takes(n) THEN -q[n] ELSE 0
      BY <1>6, <3>1
    <3>3. h[n] = Append(s, e) /\ Append(s, e) \in Seq(T)
      <4>1. h[n] = Append(s, e)
        BY <1>4, <2>5
      <4>2. s \in Seq(T) /\ e \in T
        BY <2>1, <3>2
      <4> HIDE DEF s, e, T, x
      <4>3. Append(s, e) \in Seq(T)
        BY <4>2
      <4> QED BY <4>1, <4>3
    <3>4. Effect(n) = Effect(n - 1) + x
      <4> HIDE DEF e, s, g, b, T
      <4>1. SumOver(EffectOn(Append(s, e), g, b), 1 .. Len(Append(s, e))) =
               SumOver(EffectOn(s, g, b), 1 .. Len(s)) + (IF e.grain = g THEN LineDeltas(e)[b] ELSE 0)
        BY <1>5, <1>7, <2>1, <3>2, EffectAppended
      <4> QED BY <3>3, <4>1 DEF s
    <3>5. CASE Takes(n)
      <4>1. U(n) = U(n - 1) \cup {n} /\ n \notin U(n - 1)
        BY <2>2, <2>3, <3>5
      <4>2. \A i \in U(n - 1) \cup {n} : q[i] \in Int
        <5>1. \A i \in U(n - 1) : q[i] \in Int
          BY <1>8, <2>2
        <5>2. q[n] \in Int
          BY <2>2
        <5> HIDE DEF U, q
        <5> QED BY <5>1, <5>2
      <4>3. SumOver(q, U(n)) = q[n] + SumOver(q, U(n - 1))
        <5> HIDE DEF U, q
        <5> QED BY <1>8, <2>2, <4>1, <4>2, SumAdd
      <4>4. x = -q[n]
        BY <3>2, <3>5
      <4> DEFINE a == SumOver(q, U(n - 1))
                 c == SumOver(q, U(n))
                 y == q[n]
      <4>5. Effect(n) = -a + x /\ x = -y /\ c = y + a /\ a \in Int /\ y \in Int
        BY <2>1, <2>2, <2>4, <3>4, <4>3, <4>4
      <4> HIDE DEF a, c, y, x, Effect
      <4>6. Effect(n) = -c
        BY <4>5
      <4> QED BY <3>3, <4>6 DEF c
    <3>6. CASE ~Takes(n)
      <4>1. U(n) = U(n - 1)
        BY <2>2, <2>3, <3>6
      <4>2. x = 0
        BY <3>2, <3>6
      <4> DEFINE a == SumOver(q, U(n - 1))
      <4>3. Effect(n) = -a + x /\ x = 0 /\ a \in Int
        BY <2>1, <2>4, <3>4, <4>2
      <4> HIDE DEF a, x, Effect
      <4>4. Effect(n) = -a
        BY <4>3
      <4>5. a = SumOver(q, U(n))
        BY <4>1 DEF a
      <4> QED BY <3>3, <4>4, <4>5
    <3> QED BY <3>5, <3>6
  <2>6. CASE ~(q[n] > 0)
    <3>1. U(n) = U(n - 1)
      BY <2>2, <2>3, <2>6
    <3>2. h[n] = s
      BY <1>4, <2>6
    <3>3. Effect(n) = Effect(n - 1)
      BY <3>2
    <3> HIDE DEF U, Effect, T
    <3> QED BY <2>1, <3>1, <3>2, <3>3
  <2> QED BY <2>5, <2>6
<1>11. Q = {}
  <2> SUFFICES ASSUME Q # {} PROVE FALSE
    OBVIOUS
  <2>1. PICK n \in Q : \A m \in Q : n <= m
    <3>1. Q \in SUBSET Nat
      BY <1>1
    <3> HIDE DEF Q
    <3> QED BY <3>1, LeastNatural
  <2>2. n \in 0 .. N /\ ~Good(n)
    OBVIOUS
  <2> HIDE DEF Good
  <2>3. n # 0
    BY <1>9, <2>2
  <2>4. n \in 1 .. N /\ n - 1 \in 0 .. N /\ ~(n <= n - 1)
    BY <1>1, <2>2, <2>3
  <2>5. Good(n - 1)
    BY <2>1, <2>4
  <2> QED BY <1>10, <2>2, <2>4, <2>5
<1>12. Good(N)
  <2>1. N \in 0 .. N
    BY <1>1
  <2> HIDE DEF Good
  <2> QED BY <1>11, <2>1
<1>13. Effect(N) = -SumOver(q, U(N))
  BY <1>12
<1>14. CASE Lots[p] = {}
  <2>1. U(N) = Takers(j.doc, j.qty, p)
    BY <1>1, <1>14 DEF Takers, ApprovedItems
  <2> QED BY <1>2, <1>13, <1>14, <2>1
<1>15. CASE Lots[p] # {}
  <2>1. U(N) = {}
    BY <1>15
  <2>2. SumOver(q, U(N)) = 0
    BY <2>1, SumEmpty
  <2> QED BY <1>2, <1>13, <1>15, <2>2
<1> QED BY <1>14, <1>15

-----------------------------------------------------------------------------
(* What half-posted releases have taken of the lines *)

HalfOnes == { s \in Releases : HalfPosted(s) }

Pending(half, app) ==
    [l \in LineIds |-> SumOver([s \in Releases |-> Taken(s, app[s], l)], half)]

AllForItems(app) == \A s \in Releases : ForItems(s, app[s])

(* What half-done releases still owe a line is a natural number. *)
LEMMA PendingNat ==
    ASSUME NEW app, AllForItems(app), NEW half \in SUBSET Releases
    PROVE  Pending(half, app) \in [LineIds -> Nat]
<1>1. ASSUME NEW l \in LineIds
      PROVE  SumOver([s \in Releases |-> Taken(s, app[s], l)], half) \in Nat
  <2> DEFINE f == [s \in Releases |-> Taken(s, app[s], l)]
  <2>1. IsFiniteSet(half)
    BY ReservationsAssumption, FS_Subset
  <2>2. \A s \in half : f[s] \in Nat
    BY TakenOf DEF AllForItems
  <2> HIDE DEF f
  <2>3. SumOver(f, half) \in Nat
    BY <2>1, <2>2, SumNat
  <2> QED BY <2>3 DEF f
<1> QED BY <1>1 DEF Pending

(* A further half-posted release .. *)
LEMMA PendingMore ==
    ASSUME NEW app, AllForItems(app), NEW half \in SUBSET Releases, NEW s \in Releases, s \notin half,
           NEW l \in LineIds
    PROVE  Pending(half \cup {s}, app)[l] = Pending(half, app)[l] + Taken(s, app[s], l)
<1> DEFINE f == [t \in Releases |-> Taken(t, app[t], l)]
<1>1. IsFiniteSet(half)
  BY ReservationsAssumption, FS_Subset
<1>2. \A t \in Releases : f[t] = Taken(t, app[t], l) /\ Taken(t, app[t], l) \in Nat
  BY TakenOf DEF AllForItems
<1>3. Pending(half, app)[l] = SumOver(f, half) /\ Pending(half \cup {s}, app)[l] = SumOver(f, half \cup {s})
  BY DEF Pending
<1> HIDE DEF f
<1>4. \A t \in half \cup {s} : f[t] \in Int
  BY <1>2
<1>5. SumOver(f, half \cup {s}) = f[s] + SumOver(f, half) /\ SumOver(f, half) \in Int /\ f[s] \in Int
  BY <1>1, <1>4, SumAdd, SumInt
<1> QED BY <1>2, <1>3, <1>5

(* .. or quantities of releases that are not half-posted. *)
LEMMA PendingSame ==
    ASSUME NEW app, NEW app2, NEW half \in SUBSET Releases, \A s \in half : app2[s] = app[s]
    PROVE  Pending(half, app2) = Pending(half, app)
<1>1. ASSUME NEW l \in LineIds
      PROVE  SumOver([s \in Releases |-> Taken(s, app2[s], l)], half)
                 = SumOver([s \in Releases |-> Taken(s, app[s], l)], half)
  <2> DEFINE f == [s \in Releases |-> Taken(s, app2[s], l)]
             g == [s \in Releases |-> Taken(s, app[s], l)]
  <2>1. IsFiniteSet(half) /\ \A s \in half : f[s] = g[s]
    BY ReservationsAssumption, FS_Subset
  <2> HIDE DEF f, g
  <2>2. SumOver(f, half) = SumOver(g, half)
    BY <2>1, SumSame
  <2> QED BY <2>2 DEF f, g
<1> QED BY <1>1 DEF Pending

-----------------------------------------------------------------------------
(* Steps that the balances follow *)

(* Nothing is held differently if the same reservations are active. *)
LEMMA NetSame ==
    ASSUME NEW rs, NEW rs2, NEW cs, NEW u,
           \A l \in LineIds : rs2[Lines[l].res] \in Active <=> rs[Lines[l].res] \in Active
    PROVE  /\ Agrees(rs2, cs, u) => Agrees(rs, cs, u)
           /\ Net(rs2, cs, u) = Net(rs, cs, u)
<1>1. Held(rs2, cs) = Held(rs, cs)
  BY DEF Held
<1> QED BY <1>1 DEF Net, Agrees

(* A reservation that ends has no more left than is reserved. *)
LEMMA PartWithin ==
    ASSUME NEW rs, NEW cs \in [LineIds -> Nat], NEW u \in [LineIds -> Nat], Agrees(rs, cs, u),
           NEW r, rs[r] \in Active, \A l \in LinesOf(r) : u[l] = 0, NEW p
    PROVE  SumOver(PartOf(r, cs), LinesOn(p)) <= SumOver(Net(rs, cs, u), LinesOn(p))
<1> DEFINE f == PartOf(r, cs)
           g == Net(rs, cs, u)
           S == LinesOn(p)
<1>1. ASSUME NEW l \in LineIds PROVE f[l] \in Int /\ g[l] \in Int /\ f[l] <= g[l]
  <2>1. /\ f[l] \in Nat /\ f[l] = IF Lines[l].res = r THEN LeftLine(cs)[l] ELSE 0
    BY PartTerms
  <2>2. g[l] \in Int /\ g[l] = Held(rs, cs)[l] - Owing(u)[l]
    <3>1. Net(rs, cs, u)[l] \in Int
      BY NetTypes
    <3>2. Net(rs, cs, u)[l] = Held(rs, cs)[l] - Owing(u)[l]
      BY DEF Net
    <3> QED BY <3>1, <3>2
  <2>3. Held(rs, cs)[l] = IF rs[Lines[l].res] \in Active THEN LeftLine(cs)[l] ELSE 0
    BY DEF Held
  <2>4. Owing(u)[l] = IF Lots[Lines[l].product] = {} THEN u[l] ELSE 0
    BY DEF Owing
  <2>5. LeftLine(cs)[l] \in Nat /\ LeftLine(cs)[l] = IF Lines[l].qty > cs[l] THEN Lines[l].qty - cs[l] ELSE 0
    BY LeftTerms
  <2>6. Lines[l].qty \in Nat /\ cs[l] \in Nat /\ u[l] \in Nat
    BY LineFields
  <2>7. u[l] > 0 => rs[Lines[l].res] \in Active /\ cs[l] + u[l] <= Lines[l].qty
    BY DEF Agrees
  <2>8. Lines[l].res = r => u[l] = 0
    BY DEF LinesOf
  <2> HIDE DEF f, g
  <2>9. Owing(u)[l] <= Held(rs, cs)[l] /\ Owing(u)[l] \in Nat /\ Held(rs, cs)[l] \in Nat
    BY <2>3, <2>4, <2>5, <2>6, <2>7
  <2>10. CASE Lines[l].res = r
    <3>1. Owing(u)[l] = 0 /\ Held(rs, cs)[l] = LeftLine(cs)[l]
      BY <2>3, <2>4, <2>8, <2>10
    <3> QED BY <2>1, <2>2, <2>5, <2>10, <3>1
  <2>11. CASE Lines[l].res # r
    BY <2>1, <2>2, <2>9, <2>11
  <2> QED BY <2>10, <2>11
<1>2. IsFiniteSet(S) /\ S \subseteq LineIds
  BY LinesOnFinite
<1>3. \A l \in S : f[l] \in Int /\ g[l] \in Int /\ f[l] <= g[l]
  BY <1>1, <1>2
<1> HIDE DEF f, g, S
<1>4. SumOver(f, S) <= SumOver(g, S)
  BY <1>2, <1>3, SumMonotone
<1> QED BY <1>4 DEF f, g, S

(* No other reservation than r changes status. *)
OnlyIn(r, rs, rs2) == \A q \in Reservations : q # r => rs2[q] = rs[q]

(* A reservation changes status, and only that: what is held changes by what *)
(* it has left.                                                              *)
LEMMA NetOfStatus ==
    ASSUME NEW rs, NEW rs2, NEW cs \in [LineIds -> Nat], NEW u \in [LineIds -> Nat],
           NEW r \in Reservations, rs[r] \in Active, rs2[r] \notin Active, OnlyIn(r, rs, rs2),
           NEW l \in LineIds
    PROVE  Net(rs, cs, u)[l] = Net(rs2, cs, u)[l] + PartOf(r, cs)[l]
<1>1. PartOf(r, cs)[l] = IF Lines[l].res = r THEN LeftLine(cs)[l] ELSE 0
  BY PartTerms
<1>2. Net(rs, cs, u)[l] = Held(rs, cs)[l] - Owing(u)[l] /\ Owing(u)[l] \in Nat
  <2>1. Net(rs, cs, u)[l] = Held(rs, cs)[l] - Owing(u)[l]
    BY DEF Net
  <2>2. Owing(u)[l] \in Nat
    BY NetTypes
  <2> QED BY <2>1, <2>2
<1>3. Net(rs2, cs, u)[l] = Held(rs2, cs)[l] - Owing(u)[l]
  BY DEF Net
<1>4. Held(rs, cs)[l] = IF rs[Lines[l].res] \in Active THEN LeftLine(cs)[l] ELSE 0
  BY DEF Held
<1>5. Held(rs2, cs)[l] = IF rs2[Lines[l].res] \in Active THEN LeftLine(cs)[l] ELSE 0
  BY DEF Held
<1>6. LeftLine(cs)[l] \in Nat
  BY LeftTerms
<1>7. Lines[l].res # r => rs2[Lines[l].res] = rs[Lines[l].res]
  BY LineFields DEF OnlyIn
<1>8. CASE Lines[l].res = r
  <2>1. Held(rs, cs)[l] = LeftLine(cs)[l] /\ Held(rs2, cs)[l] = 0 /\ PartOf(r, cs)[l] = LeftLine(cs)[l]
    BY <1>1, <1>4, <1>5, <1>8
  <2> QED BY <1>2, <1>3, <1>6, <2>1
<1>9. CASE Lines[l].res # r
  <2>1. Held(rs, cs)[l] = Held(rs2, cs)[l] /\ PartOf(r, cs)[l] = 0 /\ Held(rs, cs)[l] \in Nat
    BY <1>1, <1>4, <1>5, <1>6, <1>7, <1>9
  <2> QED BY <1>2, <1>3, <2>1
<1> QED BY <1>8, <1>9

(* A reservation is confirmed, .. *)
LEMMA ConfirmedHeld ==
    ASSUME balance \in Balances, NEW rs, NEW rs2, NEW cs \in [LineIds -> Nat], NEW u \in [LineIds -> Nat],
           NEW r \in Reservations, rs[r] \notin Active, rs2[r] \in Active,
           OnlyIn(r, rs, rs2),
           \A l \in LinesOf(r) : cs[l] = 0, Matches(balance, rs, cs, u)
    PROVE  Matches(WithReserved(Reserving(r)), rs2, cs, u)
<1> DEFINE none == [l \in LineIds |-> 0]
           f == Reserving(r)
           bal == WithReserved(f)
           d == PartOf(r, cs)
<1>1. none \in [LineIds -> Nat]
  OBVIOUS
<1>2. ASSUME NEW p \in Products
      PROVE  Left(r, p, none) = SumOver(d, LinesOn(p)) /\ Left(r, p, none) \in Nat
  <2>1. Left(r, p, none) = SumOver(PartOf(r, none), LinesOn(p)) /\ Left(r, p, none) \in Nat
    <3> HIDE DEF none
    <3> QED BY <1>1, LeftIsPart, LeftNat
  <2>2. PartOf(r, none) = d
    <3>1. \A l \in LineIds : Lines[l].res = r => none[l] = cs[l]
      BY DEF LinesOf
    <3> HIDE DEF none
    <3>2. \A l \in LineIds : Lines[l].res = r => LeftLine(none)[l] = LeftLine(cs)[l]
      BY <3>1 DEF LeftLine
    <3> QED BY <3>2 DEF PartOf
  <2> QED BY <2>1, <2>2
<1>3. f \in [Products -> Int] /\ \A p \in Products : f[p] = Reserved(p) + SumOver(d, LinesOn(p))
  <2>1. \A p \in Products : Reserved(p) \in Int /\ Left(r, p, none) \in Nat
    BY <1>2, ReservedInt
  <2>2. \A p \in Products : Reserved(p) + Left(r, p, none) \in Int
    BY <2>1
  <2>3. f = [p \in Products |-> Reserved(p) + Left(r, p, none)]
    BY DEF Reserving
  <2> HIDE DEF f, none
  <2> QED BY <1>2, <2>2, <2>3
<1>4. \A p \in Products : bal[Nil[p]]["reserved"] = balance[Nil[p]]["reserved"] + SumOver(d, LinesOn(p))
  <2> HIDE DEF f, d
  <2>1. \A p \in Products : WithReserved(f)[Nil[p]]["reserved"] = f[p]
    BY <1>3, WithReservedRows
  <2> QED BY <1>3, <2>1 DEF Reserved
<1>5. \A l \in LineIds : d[l] \in Int /\ Net(rs2, cs, u)[l] = Net(rs, cs, u)[l] + d[l]
  <2> SUFFICES ASSUME NEW l \in LineIds PROVE d[l] \in Int /\ Net(rs2, cs, u)[l] = Net(rs, cs, u)[l] + d[l]
    OBVIOUS
  <2>1. Net(rs2, cs, u)[l] = Net(rs, cs, u)[l] + PartOf(r, cs)[l]
    <3>1. OnlyIn(r, rs2, rs)
      BY DEF OnlyIn
    <3> QED BY <3>1, NetOfStatus
  <2>2. PartOf(r, cs)[l] \in Nat
    BY PartTerms
  <2> QED BY <2>1, <2>2
<1> HIDE DEF bal, d
<1>6. Matches(bal, rs2, cs, u)
  BY <1>4, <1>5, MatchesMore
<1> QED BY <1>6 DEF bal

(* .. or ends and returns what it has left. *)
LEMMA ReturnedHeld ==
    ASSUME balance \in Balances, NEW rs, NEW rs2, NEW cs \in [LineIds -> Nat], NEW u \in [LineIds -> Nat],
           NEW r \in Reservations, rs[r] \in Active, rs2[r] \notin Active,
           OnlyIn(r, rs, rs2),
           NEW used \in [LineIds -> Nat], \A l \in LinesOf(r) : used[l] = cs[l],
           Agrees(rs, cs, u) => Matches(balance, rs, cs, u), Agrees(rs2, cs, u)
    PROVE  Matches(Returned(r, used), rs2, cs, u)
<1> DEFINE bal == Returned(r, used)
           d == PartOf(r, cs)
<1>1. \A l \in LinesOf(r) : u[l] = 0
  <2> SUFFICES ASSUME NEW l \in LineIds, Lines[l].res = r PROVE u[l] = 0
    BY DEF LinesOf
  <2>1. u[l] \in Nat /\ ~(u[l] > 0)
    BY DEF Agrees
  <2> QED BY <2>1
<1>2. Agrees(rs, cs, u) /\ Matches(balance, rs, cs, u)
  <2>1. ASSUME NEW l \in LineIds, u[l] > 0 PROVE rs[Lines[l].res] \in Active /\ cs[l] + u[l] <= Lines[l].qty
    <3>1. rs2[Lines[l].res] \in Active /\ cs[l] + u[l] <= Lines[l].qty /\ Lines[l].res \in Reservations
      BY <2>1, LineFields DEF Agrees
    <3> QED BY <3>1 DEF OnlyIn
  <2> QED BY <2>1 DEF Agrees
<1>3. ASSUME NEW p \in Products
      PROVE  /\ Left(r, p, used) = SumOver(d, LinesOn(p)) /\ Left(r, p, used) \in Nat
             /\ Left(r, p, used) <= Reserved(p) /\ Reserved(p) \in Int
  <2>1. Left(r, p, used) = SumOver(PartOf(r, used), LinesOn(p)) /\ Left(r, p, used) \in Nat
    BY LeftIsPart, LeftNat
  <2>2. PartOf(r, used) = d
    <3>1. \A l \in LineIds : Lines[l].res = r => used[l] = cs[l]
      BY DEF LinesOf
    <3>2. \A l \in LineIds : Lines[l].res = r => LeftLine(used)[l] = LeftLine(cs)[l]
      BY <3>1 DEF LeftLine
    <3> QED BY <3>2 DEF PartOf
  <2>3. SumOver(PartOf(r, cs), LinesOn(p)) <= SumOver(Net(rs, cs, u), LinesOn(p))
    BY <1>1, <1>2, PartWithin
  <2>4. Reserved(p) = SumOver(Net(rs, cs, u), LinesOn(p)) /\ Reserved(p) \in Int
    BY <1>2, ReservedInt DEF Matches, Reserved
  <2> QED BY <2>1, <2>2, <2>3, <2>4
<1>4. /\ bal \in Balances
      /\ \A p \in Products : balance[Nil[p]]["reserved"] = bal[Nil[p]]["reserved"] + SumOver(d, LinesOn(p))
  <2> SUFFICES ASSUME NEW p \in Products
               PROVE  /\ bal \in Balances
                      /\ balance[Nil[p]]["reserved"] = bal[Nil[p]]["reserved"] + SumOver(d, LinesOn(p))
    <3>1. bal \in Balances
      BY ReturnedRows
    <3> QED BY <3>1
  <2>1. /\ bal \in Balances
        /\ bal[Nil[p]]["reserved"] = IF Left(r, p, used) = 0 THEN Reserved(p)
                                     ELSE IF Left(r, p, used) > Reserved(p) THEN 0
                                     ELSE Reserved(p) - Left(r, p, used)
    BY ReturnedRows
  <2> DEFINE x == Left(r, p, used)
             y == Reserved(p)
             z == bal[Nil[p]]["reserved"]
  <2>2. x \in Nat /\ y \in Int /\ x <= y /\ z = IF x = 0 THEN y ELSE IF x > y THEN 0 ELSE y - x
    BY <1>3, <2>1
  <2>3. balance[Nil[p]]["reserved"] = y
    BY DEF Reserved
  <2>4. x = SumOver(d, LinesOn(p))
    BY <1>3
  <2> HIDE DEF x, y, z
  <2>5. y = z + x
    BY <2>2
  <2> QED BY <2>1, <2>3, <2>4, <2>5 DEF z
<1>5. \A l \in LineIds : d[l] \in Int /\ Net(rs, cs, u)[l] = Net(rs2, cs, u)[l] + d[l]
  <2> SUFFICES ASSUME NEW l \in LineIds PROVE d[l] \in Int /\ Net(rs, cs, u)[l] = Net(rs2, cs, u)[l] + d[l]
    OBVIOUS
  <2>1. Net(rs, cs, u)[l] = Net(rs2, cs, u)[l] + PartOf(r, cs)[l]
    BY NetOfStatus
  <2>2. PartOf(r, cs)[l] \in Nat
    BY PartTerms
  <2> QED BY <2>1, <2>2
<1> HIDE DEF bal, d
<1>6. Matches(bal, rs2, cs, u)
  <2> DEFINE old == balance
  <2>1. /\ Matches(old, rs, cs, u)
        /\ \A p \in Products : old[Nil[p]]["reserved"] = bal[Nil[p]]["reserved"] + SumOver(d, LinesOn(p))
    BY <1>2, <1>4
  <2> HIDE DEF old
  <2> QED BY <1>4, <1>5, <2>1, MatchesLess
<1> QED BY <1>6 DEF bal

(* What is reserved of each product goes down by d. *)
LowersBy(d, bal, bal2) ==
    \A p \in Products : bal[Nil[p]]["reserved"] = bal2[Nil[p]]["reserved"] + SumOver(d, LinesOn(p))

(* A release is posted: what it takes is owing, and directly taken. *)
LEMMA PostedHeld ==
    ASSUME NEW bal, NEW bal2 \in Balances, NEW rs, NEW cs \in [LineIds -> Nat],
           NEW u \in [LineIds -> Nat], NEW u2 \in [LineIds -> Nat],
           NEW s, NEW qty, ForItems(s, qty), \A l \in LineIds : u2[l] = u[l] + Taken(s, qty, l),
           LowersBy(Direct(s, qty), bal, bal2),
           Agrees(rs, cs, u) => Matches(bal, rs, cs, u), Agrees(rs, cs, u2)
    PROVE  Matches(bal2, rs, cs, u2)
<1> DEFINE d == Direct(s, qty)
<1>1. \A l \in LineIds : u[l] \in Nat /\ Taken(s, qty, l) \in Nat /\ cs[l] \in Nat /\ Lines[l].qty \in Nat
  BY TakenTerms, LineFields
<1>2. Agrees(rs, cs, u)
  BY <1>1 DEF Agrees
<1>3. ASSUME NEW l \in LineIds PROVE d[l] \in Int /\ Net(rs, cs, u)[l] = Net(rs, cs, u2)[l] + d[l]
  <2>1. d[l] = IF Lots[Lines[l].product] = {} THEN Taken(s, qty, l) ELSE 0
    BY TakenTerms
  <2>2. Net(rs, cs, u)[l] = Held(rs, cs)[l] - Owing(u)[l] /\ Held(rs, cs)[l] \in Nat
    <3>1. Net(rs, cs, u)[l] = Held(rs, cs)[l] - Owing(u)[l]
      BY DEF Net
    <3>2. Held(rs, cs)[l] \in Nat
      BY NetTypes
    <3> QED BY <3>1, <3>2
  <2>3. Net(rs, cs, u2)[l] = Held(rs, cs)[l] - Owing(u2)[l]
    BY DEF Net
  <2>4. Owing(u)[l] = IF Lots[Lines[l].product] = {} THEN u[l] ELSE 0
    BY DEF Owing
  <2>5. Owing(u2)[l] = IF Lots[Lines[l].product] = {} THEN u2[l] ELSE 0
    BY DEF Owing
  <2>6. u2[l] = u[l] + Taken(s, qty, l)
    OBVIOUS
  <2> HIDE DEF d
  <2>7. CASE Lots[Lines[l].product] = {}
    BY <1>1, <2>1, <2>2, <2>3, <2>4, <2>5, <2>6, <2>7
  <2>8. CASE Lots[Lines[l].product] # {}
    BY <2>1, <2>2, <2>3, <2>4, <2>5, <2>8
  <2> QED BY <2>7, <2>8
<1>4. \A p \in Products : bal[Nil[p]]["reserved"] = bal2[Nil[p]]["reserved"] + SumOver(d, LinesOn(p))
  BY DEF LowersBy
<1> HIDE DEF d
<1>5. \A l \in LineIds : d[l] \in Int /\ Net(rs, cs, u)[l] = Net(rs, cs, u2)[l] + d[l]
  BY <1>3
<1> QED BY <1>2, <1>4, <1>5, MatchesLess

(* A release is closed: on each line, what was owing is consumed. *)
ClosesLine(l, s, qty, rs, rs2, cs, cs2, u, u2) ==
    LET r == Lines[l].res
        taken == Taken(s, qty, l)
    IN  /\ cs2[l] = cs[l] + taken /\ u[l] = u2[l] + taken
        /\ taken > 0 => cs2[l] <= Lines[l].qty
        /\ IF r \in ReservationsUsed(s, qty)
           THEN rs[r] \in Active /\ (rs2[r] \in Active \/ cs2[l] >= Lines[l].qty)
           ELSE rs2[r] = rs[r] /\ taken = 0

(* Then what is owing fitted before if it fits after, and what is held changes *)
(* by what is taken of batch-tracked products.                               *)
KeepsLine(l, s, qty, rs, rs2, cs, cs2, u, u2) ==
    /\ (u2[l] > 0 => rs2[Lines[l].res] \in Active /\ cs2[l] + u2[l] <= Lines[l].qty)
       => (u[l] > 0 => rs[Lines[l].res] \in Active /\ cs[l] + u[l] <= Lines[l].qty)
    /\ Batched(s, qty)[l] \in Int
    /\ Net(rs, cs, u)[l] = Net(rs2, cs2, u2)[l] + Batched(s, qty)[l]

(* Closing the holds of a release keeps the account of every line. *)
LEMMA ClosedLine ==
    ASSUME NEW rs, NEW rs2, NEW cs \in [LineIds -> Nat], NEW cs2 \in [LineIds -> Nat],
           NEW u \in [LineIds -> Nat], NEW u2 \in [LineIds -> Nat], NEW s, NEW qty, ForItems(s, qty),
           NEW l \in LineIds, ClosesLine(l, s, qty, rs, rs2, cs, cs2, u, u2)
    PROVE  KeepsLine(l, s, qty, rs, rs2, cs, cs2, u, u2)
<1> DEFINE r == Lines[l].res
           t == Taken(s, qty, l)
           q == Lines[l].qty
           c == cs[l]
           c2 == cs2[l]
           v == u[l]
           v2 == u2[l]
           b == Batched(s, qty)[l]
           n == Net(rs, cs, u)[l]
           n2 == Net(rs2, cs2, u2)[l]
           h == Held(rs, cs)[l]
           h2 == Held(rs2, cs2)[l]
           o == Owing(u)[l]
           o2 == Owing(u2)[l]
           a == LeftLine(cs)[l]
           a2 == LeftLine(cs2)[l]
           none == Lots[Lines[l].product] = {}
<1>1. q \in Nat /\ t \in Nat /\ c \in Nat /\ c2 \in Nat /\ v \in Nat /\ v2 \in Nat
  BY LineFields, TakenTerms
<1>2. b = IF none THEN 0 ELSE t
  BY TakenTerms
<1>3. n = h - o /\ h = (IF rs[r] \in Active THEN a ELSE 0) /\ o = IF none THEN v ELSE 0
  <2>1. n = h - o
    BY DEF Net
  <2>2. h = IF rs[r] \in Active THEN a ELSE 0
    BY DEF Held
  <2>3. o = IF none THEN v ELSE 0
    BY DEF Owing
  <2> HIDE DEF n, h, o, r, a, none, v
  <2> QED BY <2>1, <2>2, <2>3
<1>4. n2 = h2 - o2 /\ h2 = (IF rs2[r] \in Active THEN a2 ELSE 0) /\ o2 = IF none THEN v2 ELSE 0
  <2>1. n2 = h2 - o2
    BY DEF Net
  <2>2. h2 = IF rs2[r] \in Active THEN a2 ELSE 0
    BY DEF Held
  <2>3. o2 = IF none THEN v2 ELSE 0
    BY DEF Owing
  <2> HIDE DEF n2, h2, o2, r, a2, none, v2
  <2> QED BY <2>1, <2>2, <2>3
<1>5. a = (IF q > c THEN q - c ELSE 0) /\ a2 = IF q > c2 THEN q - c2 ELSE 0
  <2>1. a = IF q > c THEN q - c ELSE 0
    BY LeftTerms
  <2>2. a2 = IF q > c2 THEN q - c2 ELSE 0
    BY LeftTerms
  <2> HIDE DEF a, a2, q, c, c2
  <2> QED BY <2>1, <2>2
<1> DEFINE used == r \in ReservationsUsed(s, qty)
           live == rs[r] \in Active
           live2 == rs2[r] \in Active
<1>6. /\ c2 = c + t /\ v = v2 + t /\ (t > 0 => c2 <= q)
      /\ IF used THEN live /\ (live2 \/ c2 >= q) ELSE (live <=> live2) /\ t = 0
  BY DEF ClosesLine
<1>7. n = h - o /\ h = (IF live THEN a ELSE 0) /\ n2 = h2 - o2 /\ h2 = (IF live2 THEN a2 ELSE 0)
  BY <1>3, <1>4
<1>8. o = (IF none THEN v ELSE 0) /\ o2 = IF none THEN v2 ELSE 0
  BY <1>3, <1>4
<1> HIDE DEF t, q, c, c2, v, v2, b, n, n2, h, h2, o, o2, a, a2, none, used, live, live2
<1>9. (v2 > 0 => live2 /\ c2 + v2 <= q) => (v > 0 => live /\ c + v <= q)
  BY <1>1, <1>6
<1>10. b \in Int /\ n = n2 + b
  <2>1. h = h2 + t /\ h2 \in Int
    <3>1. CASE used
      <4>1. h = a /\ h2 = a2
        BY <1>1, <1>5, <1>6, <1>7, <3>1
      <4> QED BY <1>1, <1>5, <1>6, <3>1, <4>1
    <3>2. CASE ~used
      BY <1>1, <1>5, <1>6, <1>7, <3>2
    <3> QED BY <3>1, <3>2
  <2>2. CASE none
    BY <1>1, <1>2, <1>6, <1>7, <1>8, <2>1, <2>2
  <2>3. CASE ~none
    BY <1>1, <1>2, <1>6, <1>7, <1>8, <2>1, <2>3
  <2> QED BY <2>2, <2>3
<1> QED BY <1>9, <1>10 DEF KeepsLine, v2, live2, c2, q, v, live, c, b, n, n2

(* ... and so the reserved column keeps matching its lines when the holds are closed. *)
LEMMA ClosedHeld ==
    ASSUME balance \in Balances, NEW rs, NEW rs2, NEW cs \in [LineIds -> Nat], NEW cs2 \in [LineIds -> Nat],
           NEW u \in [LineIds -> Nat], NEW u2 \in [LineIds -> Nat], NEW s, NEW qty, ForItems(s, qty),
           \A l \in LineIds : ClosesLine(l, s, qty, rs, rs2, cs, cs2, u, u2),
           Agrees(rs, cs, u) => Matches(balance, rs, cs, u), Agrees(rs2, cs2, u2)
    PROVE  Matches(WithReserved(Closing(s, qty)), rs2, cs2, u2)
<1> DEFINE f == Closing(s, qty)
           bal == WithReserved(f)
           d == Batched(s, qty)
           old == balance
<1>1. ASSUME NEW l \in LineIds PROVE KeepsLine(l, s, qty, rs, rs2, cs, cs2, u, u2)
  <2>1. ClosesLine(l, s, qty, rs, rs2, cs, cs2, u, u2)
    OBVIOUS
  <2> QED BY <2>1, ClosedLine
<1>2. Agrees(rs, cs, u)
  <2>1. ASSUME NEW l \in LineIds
        PROVE  u[l] > 0 => rs[Lines[l].res] \in Active /\ cs[l] + u[l] <= Lines[l].qty
    <3>1. u2[l] > 0 => rs2[Lines[l].res] \in Active /\ cs2[l] + u2[l] <= Lines[l].qty
      BY DEF Agrees
    <3>2. KeepsLine(l, s, qty, rs, rs2, cs, cs2, u, u2)
      BY <1>1
    <3> QED BY <3>1, <3>2 DEF KeepsLine
  <2> QED BY <2>1 DEF Agrees
<1>3. \A l \in LineIds : d[l] \in Int /\ Net(rs, cs, u)[l] = Net(rs2, cs2, u2)[l] + d[l]
  BY <1>1 DEF KeepsLine
<1>4. ASSUME NEW p \in Products
      PROVE  f[p] \in Int /\ Reserved(p) = f[p] + SumOver(d, LinesOn(p))
  <2>1. BatchTaken(s, qty, p) \in Nat /\ BatchTaken(s, qty, p) = SumOver(Batched(s, qty), LinesOn(p))
    BY BatchTakenOf, BatchedByProduct
  <2>2. Reserved(p) \in Int /\ f[p] = Reserved(p) - BatchTaken(s, qty, p)
    BY ReservedInt DEF Closing
  <2> HIDE DEF f
  <2> QED BY <2>1, <2>2
<1>5. f \in [Products -> Int]
  <2>1. f = [p \in Products |-> f[p]]
    BY DEF Closing
  <2> HIDE DEF f
  <2> QED BY <1>4, <2>1
<1>6. /\ bal \in Balances
      /\ \A p \in Products : old[Nil[p]]["reserved"] = bal[Nil[p]]["reserved"] + SumOver(d, LinesOn(p))
  <2> HIDE DEF f, d
  <2>1. WithReserved(f) \in Balances /\ \A p \in Products : WithReserved(f)[Nil[p]]["reserved"] = f[p]
    BY <1>5, WithReservedRows
  <2> QED BY <1>4, <2>1 DEF Reserved
<1>7. Matches(old, rs, cs, u)
  BY <1>2
<1> HIDE DEF bal, d, old
<1>8. Matches(bal, rs2, cs2, u2)
  BY <1>3, <1>6, <1>7, MatchesLess
<1> QED BY <1>8 DEF bal

-----------------------------------------------------------------------------
(* What is reserved is held *)

(* A release that has posted is not edited any more, and the reservations it *)
(* uses have been confirmed.                                                 *)
PostedInv ==
    \A s \in Releases : PostedBy(s) # {} =>
        /\ relStatus[s] \in {"APPROVED", "RELEASED", "CANCELLED"}
        /\ \A l \in LinesUsed(s, approved[s]) : resStatus[Lines[l].res] # "DRAFT"

(* The invariant behind ReservedHeld. *)
HeldInv ==
    Agrees(resStatus, consumed, Pending(HalfOnes, approved))
    => Matches(balance, resStatus, consumed, Pending(HalfOnes, approved))

(* Half-posted releases have posted and are not closed. *)
LEMMA HalfOnesAre ==
    /\ HalfOnes = { s \in Releases : relStatus[s] # "RELEASED" /\ PostedBy(s) # {} }
    /\ HalfOnes \in SUBSET Releases
<1>1. \A s : HalfPosted(s) <=> relStatus[s] # "RELEASED" /\ PostedBy(s) # {}
  BY DEF HalfPosted, PostedBy
<1> QED BY <1>1 DEF HalfOnes

(* What they have taken are quantities, .. *)
LEMMA PendingNow ==
    ASSUME ResTypeInv
    PROVE  /\ Pending(HalfOnes, approved) \in [LineIds -> Nat] /\ AllForItems(approved)
           /\ resStatus \in [Reservations -> ReservationStatus] /\ consumed \in [LineIds -> Nat]
           /\ balance \in Balances
<1>1. AllForItems(approved)
  BY DEF ResTypeInv, DataTypes, AllForItems
<1> QED BY <1>1, HalfOnesAre, PendingNat DEF ResTypeInv, DataTypes

(* .. none of reservations that are not confirmed. *)
LEMMA PendingNone ==
    ASSUME ResTypeInv, PostedInv, NEW l \in LineIds, resStatus[Lines[l].res] = "DRAFT"
    PROVE  Pending(HalfOnes, approved)[l] = 0
<1> DEFINE f == [s \in Releases |-> Taken(s, approved[s], l)]
           S == HalfOnes
<1>1. IsFiniteSet(S) /\ S \subseteq Releases
  BY HalfOnesAre, ReservationsAssumption, FS_Subset
<1>2. ASSUME NEW s \in S PROVE f[s] = 0
  <2>1. s \in Releases /\ PostedBy(s) # {}
    BY HalfOnesAre
  <2>2. l \notin LinesUsed(s, approved[s])
    BY <2>1 DEF PostedInv
  <2>3. ForItems(s, approved[s])
    BY <2>1 DEF ResTypeInv, DataTypes
  <2>4. Taken(s, approved[s], l) = 0
    BY <2>2, <2>3, TakenOf
  <2> QED BY <2>1, <2>4
<1>3. Pending(HalfOnes, approved)[l] = SumOver(f, S)
  BY DEF Pending
<1> HIDE DEF f, S
<1> QED BY <1>1, <1>2, <1>3, SumZero

(* No reservation becomes a draft again. *)
LEMMA DraftsAreNew ==
    ASSUME ResTypeInv, FactsInv, [Next]_vars, NEW r \in Reservations, resStatus[r] # "DRAFT"
    PROVE  resStatus'[r] # "DRAFT"
<1> DEFINE st == resStatus[r]
<1>1. "DRAFT" \notin Transitions[resStatus[r]]
  <2>1. st \in ReservationStatus
    BY DEF ResTypeInv, DataTypes
  <2> HIDE DEF st
  <2>2. "DRAFT" \notin Transitions[st]
    BY <2>1 DEF Transitions, ReservationStatus
  <2> QED BY <2>2 DEF st
<1> HIDE DEF st
<1> QED BY <1>1, ReservationStep DEF Rests, MovesOn, Consumes

(* A step that posts nothing, and changes no release that has posted but to   *)
(* close or withdraw it.                                                     *)
LEMMA PostedSame ==
    ASSUME ResTypeInv, FactsInv, [Next]_vars, PostedInv, UNCHANGED movements,
           \A s \in Releases : PostedBy(s) # {} =>
               /\ relStatus'[s] \in {relStatus[s], "RELEASED", "CANCELLED"}
               /\ approved'[s] = approved[s]
    PROVE  PostedInv'
<1>1. \A s : PostedBy(s)' = PostedBy(s)
  BY DEF PostedBy
<1>2. ASSUME NEW s \in Releases, PostedBy(s) # {}
      PROVE  /\ relStatus'[s] \in {"APPROVED", "RELEASED", "CANCELLED"}
             /\ \A l \in LinesUsed(s, approved'[s]) : resStatus'[Lines[l].res] # "DRAFT"
  <2>1. relStatus'[s] \in {"APPROVED", "RELEASED", "CANCELLED"}
    BY <1>2 DEF PostedInv
  <2>2. ForItems(s, approved[s])
    BY DEF ResTypeInv, DataTypes
  <2>3. ASSUME NEW l \in LinesUsed(s, approved[s]) PROVE resStatus'[Lines[l].res] # "DRAFT"
    <3>1. l \in LineIds /\ Lines[l].res \in Reservations
      BY <2>2, UsedFields, LineFields
    <3>2. resStatus[Lines[l].res] # "DRAFT"
      BY <1>2 DEF PostedInv
    <3> QED BY <3>1, <3>2, DraftsAreNew
  <2> QED BY <1>2, <2>1, <2>3
<1> QED BY <1>1, <1>2 DEF PostedInv

(* A step that changes nothing of this. *)
LEMMA HeldQuiet ==
    ASSUME ResTypeInv, FactsInv, [Next]_vars, PostedInv, HeldInv,
           UNCHANGED << balance, movements, resStatus, consumed, relStatus, approved >>
    PROVE  PostedInv' /\ HeldInv'
<1>1. PostedInv'
  BY PostedSame
<1>2. HalfOnes' = HalfOnes
  BY DEF HalfOnes, HalfPosted
<1> QED BY <1>1, <1>2 DEF HeldInv

(* A reservation is confirmed, released, cancelled or expired. *)
LEMMA HeldReservation ==
    ASSUME ResTypeInv, FactsInv, [Next]_vars, StatusTellsConsumption, PostedInv, HeldInv,
           NEW w \in Workers, Confirm(w) \/ ReturnReserved(w) \/ Expire(w)
    PROVE  PostedInv' /\ HeldInv'
<1> DEFINE r == job[w].doc
           u == Pending(HalfOnes, approved)
           rs == resStatus
           rs2 == resStatus'
           cs == consumed
<1>1. /\ pc[w] # "idle" /\ r \in Reservations /\ UNCHANGED << consumed, relStatus, approved >>
      /\ \A q \in Reservations : q # r => rs2[q] = rs[q]
  BY WritesOwnReservation
<1>2. UNCHANGED movements
  BY DEF Confirm, ReturnReserved, Expire
<1>3. PostedInv'
  BY <1>1, <1>2, PostedSame
<1>4. HalfOnes' = HalfOnes
  BY <1>1, <1>2 DEF HalfOnes, HalfPosted
<1>5. /\ u \in [LineIds -> Nat] /\ rs \in [Reservations -> ReservationStatus]
      /\ cs \in [LineIds -> Nat] /\ balance \in Balances
  BY PendingNow
<1>6. Facts(job[w], pc[w], resStatus, consumed, relStatus, approved)
  BY <1>1 DEF FactsInv
<1>7. OnlyIn(r, rs, rs2)
  BY <1>1 DEF OnlyIn
<1>8. SUFFICES ASSUME Agrees(rs2, cs, u) PROVE Matches(balance', rs2, cs, u)
  BY <1>1, <1>3, <1>4 DEF HeldInv
<1>9. Agrees(rs, cs, u) => Matches(balance, rs, cs, u)
  BY DEF HeldInv
<1>10. CASE balance' = balance /\ rs2 = rs
  BY <1>8, <1>9, <1>10
<1>11. CASE Confirm(w) /\ ~(balance' = balance /\ rs2 = rs)
  <2>1. rs[r] = "DRAFT"
    BY <1>6, <1>11 DEF Confirm, Handling, Facts
  <2>2. balance' = WithReserved(Reserving(r)) /\ rs2[r] = "RESERVED"
    BY <1>1, <1>5, <1>11 DEF Confirm, Reserving
  <2>3. \A l \in LinesOf(r) : cs[l] = 0
    BY <1>1, <2>1 DEF StatusTellsConsumption
  <2>4. \A l \in LineIds : Lines[l].res = r => u[l] = 0
    BY <2>1, PendingNone
  <2>5. Agrees(rs, cs, u)
    <3>1. ASSUME NEW l \in LineIds, u[l] > 0
          PROVE  rs[Lines[l].res] \in Active /\ cs[l] + u[l] <= Lines[l].qty
      <4>1. Lines[l].res # r /\ Lines[l].res \in Reservations
        BY <2>4, <3>1, LineFields
      <4> QED BY <1>1, <1>8, <3>1, <4>1 DEF Agrees
    <3> QED BY <3>1 DEF Agrees
  <2>6. rs[r] \notin Active /\ rs2[r] \in Active
    BY <2>1, <2>2 DEF Active
  <2>7. Matches(balance, rs, cs, u)
    BY <1>9, <2>5
  <2> HIDE DEF r, u, rs, rs2, cs
  <2> QED BY <1>1, <1>5, <1>7, <2>2, <2>3, <2>6, <2>7, ConfirmedHeld
<1>12. CASE ReturnReserved(w)
  <2>1. /\ job[w].op \in {"release", "cancel"} /\ job[w].status = rs[r]
        /\ Target[job[w].op] \in Transitions[rs[r]] /\ \A l \in LinesOf(r) : job[w].used[l] = cs[l]
    BY <1>6, <1>12 DEF ReturnReserved, Handling, Facts
  <2>2. rs2[r] = Target[job[w].op] /\ balance' = IF rs[r] \in Active THEN Returned(r, job[w].used) ELSE balance
    BY <1>1, <1>5, <1>12, <2>1 DEF ReturnReserved
  <2>3. rs2[r] \notin Active
    BY <2>1, <2>2 DEF Target, Active
  <2>4. job[w].used \in [LineIds -> Nat]
    BY <1>1, HandlingFields
  <2>5. CASE rs[r] \in Active
    <3> DEFINE used == job[w].used
    <3>1. used \in [LineIds -> Nat] /\ (\A l \in LinesOf(r) : used[l] = cs[l]) /\ balance' = Returned(r, used)
      BY <2>1, <2>2, <2>4, <2>5
    <3> HIDE DEF r, u, rs, rs2, cs, used
    <3> QED BY <1>1, <1>5, <1>7, <1>8, <1>9, <2>3, <2>5, <3>1, ReturnedHeld
  <2>6. CASE rs[r] \notin Active
    <3>1. \A l \in LineIds : rs2[Lines[l].res] \in Active <=> rs[Lines[l].res] \in Active
      BY <1>1, <2>3, <2>6, LineFields
    <3>2. balance' = balance
      BY <2>2, <2>6
    <3> HIDE DEF r, u, rs, rs2, cs
    <3>3. Agrees(rs, cs, u) /\ Net(rs2, cs, u) = Net(rs, cs, u)
      BY <1>8, <3>1, NetSame
    <3> QED BY <1>9, <3>2, <3>3 DEF Matches
  <2> QED BY <2>5, <2>6
<1>13. CASE Expire(w) /\ ~(balance' = balance /\ rs2 = rs)
  <2>1. rs[r] \in Active /\ rs2[r] = "EXPIRED" /\ balance' = Returned(r, cs)
    BY <1>1, <1>5, <1>13 DEF Expire, Claim
  <2>2. rs2[r] \notin Active
    BY <2>1 DEF Active
  <2> HIDE DEF r, u, rs, rs2, cs
  <2> QED BY <1>1, <1>5, <1>7, <1>8, <1>9, <2>1, <2>2, ReturnedHeld
<1> QED BY <1>10, <1>11, <1>12, <1>13

(* A release moves on, but not to be posted or closed. *)
LEMMA HeldAdvance ==
    ASSUME ResTypeInv, FactsInv, [Next]_vars, PostedInv, HeldInv, NEW w \in Workers, Advance(w)
    PROVE  PostedInv' /\ HeldInv'
<1> DEFINE s == job[w].doc
           op == job[w].op
<1>1. /\ pc[w] # "idle" /\ s \in Releases /\ UNCHANGED << resStatus, consumed >>
      /\ \A t \in Releases : t # s => relStatus'[t] = relStatus[t] /\ approved'[t] = approved[t]
  BY WritesOwnRelease
<1>2. /\ op \in ReleaseOps \ {"post"} /\ UNCHANGED << balance, movements >>
      /\ relStatus'[s] = To[op] /\ (op # "approve" => UNCHANGED approved)
  BY <1>1 DEF Advance, stockVars, ResTypeInv, DataTypes
<1>3. relStatus[s] \in From[op]
  BY <1>1, <1>2 DEF FactsInv, Facts
<1>4. relStatus[s] # "RELEASED" /\ relStatus'[s] # "RELEASED"
  BY <1>2, <1>3 DEF ReleaseOps, From, To
<1>5. PostedBy(s) # {} => op = "withdraw" /\ relStatus'[s] = "CANCELLED"
  <2>1. PostedBy(s) # {} => relStatus[s] \in {"APPROVED", "RELEASED", "CANCELLED"}
    BY <1>1 DEF PostedInv
  <2> HIDE DEF s, op
  <2>2. op \in {"submit", "approve", "reject"} => relStatus[s] \in {"DRAFT", "FOR_APPROVAL"}
    BY <1>3 DEF From
  <2>3. PostedBy(s) # {} => op = "withdraw"
    BY <1>2, <2>1, <2>2 DEF ReleaseOps
  <2>4. To["withdraw"] = "CANCELLED"
    BY DEF To
  <2> QED BY <1>2, <2>3, <2>4
<1>6. \A t \in Releases : PostedBy(t) # {} =>
         relStatus'[t] \in {relStatus[t], "RELEASED", "CANCELLED"} /\ approved'[t] = approved[t]
  <2> SUFFICES ASSUME NEW t \in Releases, PostedBy(t) # {}
               PROVE  relStatus'[t] \in {relStatus[t], "RELEASED", "CANCELLED"} /\ approved'[t] = approved[t]
    OBVIOUS
  <2>1. CASE t = s
    BY <1>2, <1>5, <2>1
  <2>2. CASE t # s
    BY <1>1, <2>2
  <2> QED BY <2>1, <2>2
<1>7. PostedInv'
  BY <1>2, <1>6, PostedSame
<1>8. HalfOnes' = HalfOnes
  <2>1. \A t \in Releases : relStatus'[t] # "RELEASED" <=> relStatus[t] # "RELEASED"
    BY <1>1, <1>4
  <2>2. HalfOnes' = { t \in Releases : relStatus'[t] # "RELEASED" /\ \E i \in DOMAIN movements : movements[i].ref = t }
    BY <1>2 DEF HalfOnes, HalfPosted
  <2>3. HalfOnes = { t \in Releases : relStatus[t] # "RELEASED" /\ \E i \in DOMAIN movements : movements[i].ref = t }
    BY DEF HalfOnes, HalfPosted
  <2> QED BY <2>1, <2>2, <2>3
<1>9. Pending(HalfOnes, approved') = Pending(HalfOnes, approved)
  <2>1. \A t \in HalfOnes : approved'[t] = approved[t]
    BY <1>6, HalfOnesAre
  <2> DEFINE half == HalfOnes
             app == approved
             app2 == approved'
  <2>2. half \in SUBSET Releases /\ \A t \in half : app2[t] = app[t]
    BY <2>1, HalfOnesAre
  <2> HIDE DEF half, app, app2
  <2>3. Pending(half, app2) = Pending(half, app)
    BY <2>2, PendingSame
  <2> QED BY <2>3 DEF half, app, app2
<1>10. HeldInv'
  BY <1>1, <1>2, <1>8, <1>9 DEF HeldInv
<1> QED BY <1>7, <1>10

(* The ledger posts a release. *)
LEMMA HeldPosting ==
    ASSUME OwnKeys, ResTypeInv, KeyInv, FactsInv, PostedInv, HeldInv,
           UNCHANGED docVars, NEW w \in Workers, pc[w] = "validated",
           NEW j, j = job[w],
           Post([key |-> j.key, ref |-> j.doc, lines |-> PostingLines(j), reversalOf |-> 0], j.doc)
    PROVE  PostedInv' /\ HeldInv'
<1> DEFINE s == j.doc
           qty == j.qty
           ls == PostingLines(j)
           n == Len(movements)
           m == Len(ls)
           half == HalfOnes
           app == approved
           u == Pending(half, app)
           u2 == Pending(half \cup {s}, app)
           rs == resStatus
           cs == consumed
           bal == balance
           bal2 == balance'
<1>1. /\ Sound(j, "validated") /\ Facts(j, "validated", resStatus, consumed, relStatus, approved)
      /\ pc[w] # "idle"
  BY JobFields DEF FactsInv
<1>2. /\ j.op = "post" /\ s \in Releases /\ ForItems(s, qty) /\ j.key \in KeysOf[s]
      /\ \A i \in DOMAIN Items[s] : RowFits(Items[s][i].product, j.lot[i])
      /\ relStatus[s] = "APPROVED" /\ approved[s] = qty
  <2>1. /\ j.op = "post" /\ s \in Releases /\ ForItems(s, qty) /\ j.key \in KeysOf[s]
        /\ \A i \in DOMAIN Items[s] : RowFits(Items[s][i].product, j.lot[i])
    <3> HIDE DEF ls, n, m, u, u2
    <3> QED BY <1>1, ValidatedFields
  <2>2. relStatus[s] = "APPROVED" /\ approved[s] = qty
    <3> HIDE DEF ls, n, m, u, u2
    <3> QED BY <1>1, <2>1, PostingFacts
  <2> QED BY <2>1, <2>2
<1>3. UNCHANGED << resStatus, consumed, relStatus, approved >>
  BY DEF docVars
<1>4. /\ KeyedBy(movements, j.key) = {}
      /\ balance' \in Balances
      /\ \A g \in Grains, b \in Buckets :
            balance'[g][b] = balance[g][b] + SumOver(EffectOn(ls, g, b), 1 .. m)
      /\ movements' \in Seq(Movement)
      /\ n \in Nat /\ m \in Nat /\ 1 <= m /\ Len(movements') = n + m
      /\ \A i \in 1 .. n : movements'[i] = movements[i]
      /\ \A i \in n + 1 .. n + m : movements'[i].ref = s
  BY <1>1, PostingWrites
<1>5. DOMAIN movements = 1 .. n /\ DOMAIN movements' = 1 .. n + m
  BY <1>4 DEF ResTypeInv, DataTypes
<1>6. PostedBy(s) = {}
  <2> SUFFICES ASSUME PostedBy(s) # {} PROVE FALSE
    OBVIOUS
  <2>1. PICK i \in PostedBy(s) : movements[i].key \in KeysOf[s]
    BY <1>2 DEF KeyInv
  <2>2. movements[i].key = j.key /\ j.key # NoKey
    BY <1>2, <2>1, ReservationsAssumption DEF OwnKeys
  <2>3. i \in KeyedBy(movements, j.key)
    BY <2>1, <2>2 DEF KeyedBy, PostedBy
  <2> QED BY <1>4, <2>3
<1>7. ASSUME NEW t \in Releases
      PROVE  (\E i \in DOMAIN movements' : movements'[i].ref = t) <=> t = s \/ PostedBy(t) # {}
  <2> HIDE DEF n, m, s
  <2>1. \A i \in 1 .. n + m : i \in 1 .. n \/ i \in n + 1 .. n + m
    BY <1>4
  <2>2. n + 1 \in n + 1 .. n + m /\ 1 .. n \subseteq 1 .. n + m /\ n + 1 .. n + m \subseteq 1 .. n + m
    BY <1>4
  <2>3. PostedBy(t) = { i \in 1 .. n : movements[i].ref = t }
    BY <1>5 DEF PostedBy
  <2> QED BY <1>4, <1>5, <2>1, <2>2, <2>3
<1>8. HalfOnes' = half \cup {s} /\ s \notin half
  <2>1. HalfOnes' = { t \in Releases : relStatus[t] # "RELEASED" /\ \E i \in DOMAIN movements' : movements'[i].ref = t }
    BY <1>3 DEF HalfOnes, HalfPosted
  <2>2. half = { t \in Releases : relStatus[t] # "RELEASED" /\ PostedBy(t) # {} }
    BY HalfOnesAre
  <2> HIDE DEF half, s
  <2> QED BY <1>2, <1>6, <1>7, <2>1, <2>2
<1>9. PostedInv'
  <2>1. ASSUME NEW t \in Releases, t = s \/ PostedBy(t) # {}
        PROVE  /\ relStatus[t] \in {"APPROVED", "RELEASED", "CANCELLED"}
               /\ \A l \in LinesUsed(t, approved[t]) : resStatus[Lines[l].res] # "DRAFT"
    <3>1. CASE PostedBy(t) # {}
      BY <3>1 DEF PostedInv
    <3>2. CASE t = s
      <4>1. ASSUME NEW l \in LinesUsed(s, qty) PROVE resStatus[Lines[l].res] # "DRAFT"
        <5>1. PICK i \in ApprovedItems(s, qty) : Items[s][i].line = l /\ l # NoLine
          BY DEF LinesUsed
        <5>2. resStatus[Lines[l].res] \in Active
          BY <1>1, <5>1 DEF Facts
        <5> QED BY <5>2 DEF Active
      <4> QED BY <1>2, <3>2, <4>1
    <3> QED BY <2>1, <3>1, <3>2
  <2>2. \A t \in Releases : PostedBy(t)' # {} <=> \E i \in DOMAIN movements' : movements'[i].ref = t
    BY DEF PostedBy
  <2> QED BY <1>3, <1>7, <2>1, <2>2 DEF PostedInv
<1>10. /\ u \in [LineIds -> Nat] /\ rs \in [Reservations -> ReservationStatus] /\ cs \in [LineIds -> Nat]
       /\ bal \in Balances /\ half \in SUBSET Releases /\ AllForItems(app)
  BY PendingNow, HalfOnesAre
<1>11. u2 \in [LineIds -> Nat]
  <2>1. half \cup {s} \in SUBSET Releases
    BY <1>2, <1>10
  <2> HIDE DEF half, app
  <2> QED BY <1>10, <2>1, PendingNat
<1>12. \A l \in LineIds : u2[l] = u[l] + Taken(s, qty, l)
  <2>1. app[s] = qty
    BY <1>2
  <2> HIDE DEF half, app, s, qty
  <2> QED BY <1>2, <1>8, <1>10, <2>1, PendingMore
<1>13. LowersBy(Direct(s, qty), bal, bal2)
  <2> SUFFICES ASSUME NEW p \in Products
               PROVE  bal[Nil[p]]["reserved"] = bal2[Nil[p]]["reserved"] + SumOver(Direct(s, qty), LinesOn(p))
    BY DEF LowersBy
  <2> DEFINE e == SumOver(EffectOn(ls, Nil[p], "reserved"), 1 .. m)
             k == IF Lots[p] = {} THEN SumOver(qty, Takers(s, qty, p)) ELSE 0
             x == bal[Nil[p]]["reserved"]
             y == bal2[Nil[p]]["reserved"]
             d == SumOver(Direct(s, qty), LinesOn(p))
  <2>1. Nil[p] \in Grains /\ "reserved" \in Buckets
    BY ReservationsAssumption DEF Buckets
  <2>2. y = x + e
    BY <1>4, <2>1
  <2>3. x \in Int
    BY <1>10, <2>1 DEF Balances, Row
  <2>4. e = -k
    BY <1>2, PostingLowers
  <2>5. d = k
    BY <1>2, DirectByProduct
  <2>6. d \in Int
    <3> DEFINE f == Direct(s, qty)
               S == LinesOn(p)
    <3>1. IsFiniteSet(S) /\ S \subseteq LineIds
      BY LinesOnFinite
    <3>2. \A l \in LineIds : f[l] \in Int
      BY <1>2, TakenTerms
    <3> HIDE DEF f, S
    <3>3. SumOver(f, S) \in Int
      BY <3>1, <3>2, SumInt
    <3> QED BY <3>3 DEF f, S
  <2> HIDE DEF e, k, x, y, d
  <2>7. x = y + d
    BY <2>2, <2>3, <2>4, <2>5, <2>6
  <2> QED BY <2>7 DEF x, y, d
<1>14. SUFFICES ASSUME Agrees(rs, cs, u2) PROVE Matches(bal2, rs, cs, u2)
  BY <1>3, <1>8, <1>9 DEF HeldInv
<1>15. Agrees(rs, cs, u) => Matches(bal, rs, cs, u)
  BY DEF HeldInv
<1>16. bal2 \in Balances
  BY <1>4
<1> HIDE DEF s, qty, ls, n, m, half, app, u, u2, rs, cs, bal, bal2
<1>17. ForItems(s, qty) /\ u \in [LineIds -> Nat] /\ cs \in [LineIds -> Nat]
  BY <1>2, <1>10
<1> QED BY <1>11, <1>12, <1>13, <1>14, <1>15, <1>16, <1>17, PostedHeld

(* A release is closed. *)
LEMMA HeldClose ==
    ASSUME DistinctLines, ResTypeInv, KeyInv, FactsInv, [Next]_vars, PostedInv, HeldInv,
           NEW w \in Workers, Close(w)
    PROVE  PostedInv' /\ HeldInv'
<1> DEFINE j == job[w]
           s == j.doc
           qty == j.qty
           half == HalfOnes \ {s}
           app == approved
           u == Pending(HalfOnes, app)
           u2 == Pending(half, app)
           rs == resStatus
           rs2 == resStatus'
           cs == consumed
           cs2 == consumed'
           used == ReservationsUsed(s, qty)
<1>1. /\ pc[w] = "recorded" /\ s \in Releases /\ ForItems(s, qty) /\ used \subseteq Reservations
      /\ \A r \in Reservations : IF r \in used THEN rs2[r] = j.rolled[r] ELSE rs2[r] = rs[r]
      /\ \A l \in LineIds : /\ cs2[l] = cs[l] + Taken(s, qty, l)
                            /\ Taken(s, qty, l) \in Nat /\ cs[l] \in Nat
      /\ \A t \in Releases : relStatus'[t] = IF t = s THEN "RELEASED" ELSE relStatus[t]
      /\ UNCHANGED approved
  BY WritesOnClosing
<1>2. /\ UNCHANGED movements /\ balance' = WithReserved(Closing(s, qty))
  BY DEF Close, Closing
<1>3. Facts(j, "recorded", resStatus, consumed, relStatus, approved) /\ j.op = "post"
  BY <1>1, JobFields DEF FactsInv, Sound
<1>4. relStatus[s] = "APPROVED" /\ approved[s] = qty
  BY <1>3, PostingFacts
<1>5. PostedBy(s) # {}
  BY <1>1 DEF KeyInv
<1>6. PostedInv'
  BY <1>1, <1>2, PostedSame
<1>7. HalfOnes' = half /\ s \in HalfOnes
  <2>1. HalfOnes' = { t \in Releases : relStatus'[t] # "RELEASED" /\ \E i \in DOMAIN movements : movements[i].ref = t }
    BY <1>2 DEF HalfOnes, HalfPosted
  <2>2. HalfOnes = { t \in Releases : relStatus[t] # "RELEASED" /\ \E i \in DOMAIN movements : movements[i].ref = t }
    BY DEF HalfOnes, HalfPosted
  <2>3. s \in HalfOnes
    BY <1>1, <1>4, <1>5, HalfOnesAre
  <2> QED BY <1>1, <2>1, <2>2, <2>3
<1>8. /\ u \in [LineIds -> Nat] /\ rs \in [Reservations -> ReservationStatus] /\ cs \in [LineIds -> Nat]
      /\ balance \in Balances /\ HalfOnes \in SUBSET Releases /\ AllForItems(app)
  BY PendingNow, HalfOnesAre
<1>9. u2 \in [LineIds -> Nat] /\ cs2 \in [LineIds -> Nat]
  <2>1. half \in SUBSET Releases
    BY <1>8
  <2>2. u2 \in [LineIds -> Nat]
    <3> HIDE DEF half, app
    <3> QED BY <1>8, <2>1, PendingNat
  <2>3. \A l \in LineIds : consumed[l] + Taken(s, qty, l) \in Nat
    BY <1>1
  <2>4. cs2 = [l \in LineIds |-> consumed[l] + Taken(s, qty, l)]
    BY DEF Close
  <2> HIDE DEF s, qty, cs2
  <2> QED BY <2>2, <2>3, <2>4
<1>10. \A l \in LineIds : u[l] = u2[l] + Taken(s, qty, l)
  <2>1. app[s] = qty /\ HalfOnes = half \cup {s} /\ s \notin half /\ half \in SUBSET Releases
    BY <1>4, <1>7, <1>8
  <2> HIDE DEF half, app, s, qty
  <2>2. \A l \in LineIds : Pending(half \cup {s}, app)[l] = Pending(half, app)[l] + Taken(s, app[s], l)
    BY <1>1, <1>8, <2>1, PendingMore
  <2> QED BY <2>1, <2>2
<1>11. ASSUME NEW l \in LineIds, Taken(s, qty, l) > 0 PROVE cs2[l] <= Lines[l].qty
  <2> DEFINE S == { i \in ApprovedItems(s, qty) : Items[s][i].line = l }
             T == ApprovedItems(s, qty)
  <2>1. l \in LinesUsed(s, qty) /\ l # NoLine
    BY <1>1, <1>11, TakenOf, ReservationsAssumption
  <2>2. PICK i \in T : Items[s][i].line = l
    BY <2>1 DEF LinesUsed
  <2>3. \A k \in T : k \in DOMAIN Items[s] /\ qty[k] \in Nat
    BY <1>1, ApprovedItemsFinite
  <2>4. \A k \in S : k = i
    BY <1>1, <2>1, <2>2, <2>3 DEF DistinctLines
  <2>5. S = {i} /\ qty[i] \in Nat
    <3>1. i \in S
      BY <2>2
    <3> HIDE DEF S
    <3> QED BY <2>3, <2>4, <3>1
  <2>6. Taken(s, qty, l) = qty[i]
    <3>1. Taken(s, qty, l) = SumOver(qty, S)
      BY SumFunctionIsSum DEF Taken
    <3> HIDE DEF S, qty
    <3>2. qty[i] \in Int
      BY <2>5
    <3>3. SumOver(qty, {i}) = qty[i]
      BY <3>2, SumSingleton
    <3> QED BY <2>5, <3>1, <3>3
  <2>7. qty[i] <= Lines[l].qty - cs[l]
    BY <1>3, <2>1, <2>2 DEF Facts
  <2>8. Lines[l].qty \in Nat
    BY LineFields
  <2> DEFINE a == qty[i]
             b == Lines[l].qty
             c == cs[l]
  <2>9. cs2[l] = c + a /\ a <= b - c /\ a \in Nat /\ b \in Nat /\ c \in Nat
    BY <1>1, <2>5, <2>6, <2>7, <2>8
  <2> HIDE DEF a, b, c, cs2
  <2>10. cs2[l] <= b
    BY <2>9
  <2> QED BY <2>10 DEF b
<1>12. ASSUME NEW l \in LineIds PROVE ClosesLine(l, s, qty, rs, rs2, cs, cs2, u, u2)
  <2> DEFINE r == Lines[l].res
  <2>1. r \in Reservations /\ l \in LinesOf(r)
    BY LineFields DEF LinesOf
  <2>2. cs2[l] = cs[l] + Taken(s, qty, l) /\ u[l] = u2[l] + Taken(s, qty, l)
    BY <1>1, <1>10
  <2>3. Taken(s, qty, l) > 0 => cs2[l] <= Lines[l].qty
    BY <1>11
  <2>4. CASE r \in used
    <3>1. rs[r] \in Active
      <4>1. PICK k \in LinesUsed(s, qty) : Lines[k].res = r
        BY <2>4 DEF ReservationsUsed
      <4>2. PICK i \in ApprovedItems(s, qty) : Items[s][i].line = k /\ k # NoLine
        BY <4>1 DEF LinesUsed
      <4> QED BY <1>3, <4>1, <4>2 DEF Facts
    <3>2. j.rolled[r] = IF \A k \in LinesOf(r) : cs[k] + Taken(s, qty, k) >= Lines[k].qty
                        THEN "CONSUMED" ELSE "PARTIALLY_CONSUMED"
      BY <1>3, <2>4 DEF Facts
    <3>3. rs2[r] = j.rolled[r]
      BY <1>1, <2>1, <2>4
    <3>4. rs2[r] \in Active \/ cs2[l] >= Lines[l].qty
      <4>1. CASE \A k \in LinesOf(r) : cs[k] + Taken(s, qty, k) >= Lines[k].qty
        <5>1. cs[l] + Taken(s, qty, l) >= Lines[l].qty
          BY <2>1, <4>1
        <5> QED BY <2>2, <5>1
      <4>2. CASE ~\A k \in LinesOf(r) : cs[k] + Taken(s, qty, k) >= Lines[k].qty
        <5>1. rs2[r] = "PARTIALLY_CONSUMED"
          BY <3>2, <3>3, <4>2
        <5> QED BY <5>1 DEF Active
      <4> QED BY <4>1, <4>2
    <3> HIDE DEF used, rs, rs2, cs, cs2, u, u2, s, qty, j
    <3> QED BY <2>2, <2>3, <2>4, <3>1, <3>4 DEF ClosesLine, used
  <2>5. CASE r \notin used
    <3>1. rs2[r] = rs[r]
      BY <1>1, <2>1, <2>5
    <3>2. l \notin LinesUsed(s, qty)
      BY <2>5 DEF ReservationsUsed
    <3>3. Taken(s, qty, l) = 0
      BY <1>1, <3>2, TakenOf
    <3> HIDE DEF used, rs, rs2, cs, cs2, u, u2, s, qty, j
    <3> QED BY <2>2, <2>3, <2>5, <3>1, <3>3 DEF ClosesLine, used
  <2> QED BY <2>4, <2>5
<1>13. SUFFICES ASSUME Agrees(rs2, cs2, u2) PROVE Matches(balance', rs2, cs2, u2)
  BY <1>1, <1>6, <1>7 DEF HeldInv
<1>14. Agrees(rs, cs, u) => Matches(balance, rs, cs, u)
  BY DEF HeldInv
<1>15. ForItems(s, qty) /\ u \in [LineIds -> Nat] /\ cs \in [LineIds -> Nat] /\ balance \in Balances
  BY <1>1, <1>8
<1> HIDE DEF j, s, qty, half, app, u, u2, rs, rs2, cs, cs2, used
<1>16. Matches(WithReserved(Closing(s, qty)), rs2, cs2, u2)
  BY <1>9, <1>12, <1>13, <1>14, <1>15, ClosedHeld
<1> QED BY <1>2, <1>16

(* No step breaks it. *)
LEMMA HeldNext ==
    ASSUME OwnKeys, DistinctLines, ResTypeInv, KeyInv, FactsInv, StatusTellsConsumption,
           PostedInv, HeldInv, [Next]_vars
    PROVE  PostedInv' /\ HeldInv'
<1>1. ASSUME NEW w \in Workers, Confirm(w) \/ ReturnReserved(w) \/ Expire(w) PROVE PostedInv' /\ HeldInv'
  BY <1>1, HeldReservation
<1>2. ASSUME NEW w \in Workers, Advance(w) PROVE PostedInv' /\ HeldInv'
  BY <1>2, HeldAdvance
<1>3. ASSUME NEW w \in Workers, Close(w) PROVE PostedInv' /\ HeldInv'
  BY <1>3, HeldClose
<1>4. ASSUME UNCHANGED << stockVars, docVars >> PROVE PostedInv' /\ HeldInv'
  <2>1. UNCHANGED << balance, movements, resStatus, consumed, relStatus, approved >>
    BY <1>4 DEF stockVars, docVars
  <2> QED BY <2>1, HeldQuiet
<1>5. ASSUME NEW w \in Workers, PostToLedger(w) PROVE PostedInv' /\ HeldInv'
  <2> DEFINE j == job[w]
  <2>1. pc[w] = "validated" /\ UNCHANGED docVars
    BY <1>5 DEF PostToLedger
  <2>2. \/ UNCHANGED stockVars
        \/ Post([key |-> j.key, ref |-> j.doc, lines |-> PostingLines(j), reversalOf |-> 0], j.doc)
    BY <1>5 DEF PostToLedger
  <2>3. CASE UNCHANGED stockVars
    BY <1>4, <2>1, <2>3
  <2>4. CASE Post([key |-> j.key, ref |-> j.doc, lines |-> PostingLines(j), reversalOf |-> 0], j.doc)
    <3>1. j = job[w]
      OBVIOUS
    <3> HIDE DEF j
    <3> QED BY <2>1, <2>4, <3>1, HeldPosting
  <2> QED BY <2>2, <2>3, <2>4
<1>6. ASSUME NEW w \in Workers, Validate(w) \/ Record(w) PROVE PostedInv' /\ HeldInv'
  <2>1. UNCHANGED << stockVars, docVars >>
    BY <1>6 DEF Validate, Record
  <2> QED BY <1>4, <2>1
<1>7. ASSUME NEW w \in Workers, Handle(w) PROVE PostedInv' /\ HeldInv'
  BY <1>1, <1>2, <1>3, <1>5, <1>6, <1>7 DEF Handle
<1>8. ASSUME ~\E w \in Workers : Handle(w) PROVE UNCHANGED << stockVars, docVars >>
  BY <1>8 DEF Next, LoadReservation, FindDue, LoadRelease, LoadPost, Start, Fail, Quiet, vars,
              stockVars, docVars
<1> QED BY <1>4, <1>7, <1>8

(* It holds to begin with. *)
LEMMA HeldInit ==
    ASSUME Init
    PROVE  PostedInv /\ HeldInv
<1>1. ResTypeInv
  BY ResInit
<1>2. movements = << >> /\ \A s : PostedBy(s) = {}
  BY DEF Init, PostedBy
<1>3. PostedInv
  BY <1>2 DEF PostedInv
<1> DEFINE u == Pending(HalfOnes, approved)
<1>4. u \in [LineIds -> Nat] /\ consumed \in [LineIds -> Nat]
  BY <1>1, PendingNow
<1>5. \A l \in LineIds : resStatus[Lines[l].res] = "DRAFT" /\ u[l] = 0
  <2>1. \A l \in LineIds : resStatus[Lines[l].res] = "DRAFT"
    BY LineFields DEF Init
  <2> QED BY <1>1, <1>3, <2>1, PendingNone
<1>6. ASSUME NEW p \in Products
      PROVE  balance[Nil[p]]["reserved"] = SumOver(Net(resStatus, consumed, u), LinesOn(p))
  <2> DEFINE f == Net(resStatus, consumed, u)
             S == LinesOn(p)
  <2>1. \A l \in LineIds : f[l] = 0
    <3> SUFFICES ASSUME NEW l \in LineIds PROVE f[l] = 0
      OBVIOUS
    <3>1. resStatus[Lines[l].res] \notin Active
      BY <1>5 DEF Active
    <3>2. Held(resStatus, consumed)[l] = 0
      BY <3>1 DEF Held
    <3>3. Owing(u)[l] = 0
      BY <1>5 DEF Owing
    <3> HIDE DEF u
    <3> QED BY <3>2, <3>3 DEF Net
  <2>2. IsFiniteSet(S) /\ S \subseteq LineIds
    BY LinesOnFinite
  <2> HIDE DEF f, S
  <2>3. SumOver(f, S) = 0
    BY <2>1, <2>2, SumZero
  <2>4. balance[Nil[p]]["reserved"] = 0
    <3>1. Nil[p] \in Grains
      BY ReservationsAssumption
    <3> DEFINE x == Opening[Nil[p]]
    <3>2. balance[Nil[p]] = [EmptyRow EXCEPT !["onHand"] = x]
      BY <3>1 DEF Init
    <3> HIDE DEF x
    <3> QED BY <3>2 DEF EmptyRow, Buckets
  <2> QED BY <2>3, <2>4 DEF f, S
<1>7. HeldInv
  BY <1>6 DEF HeldInv, Matches
<1> QED BY <1>3, <1>7

(* What is reserved is what active reservations have left, as ReservedHeld   *)
(* says, if only the expiry timer overlaps itself, releases are posted under *)
(* their own keys and their items name lines of their own.                   *)
THEOREM ReservedStaysHeld ==
    ASSUME Exclusive, OwnKeys, DistinctLines
    PROVE  Spec => []ReservedHeld
<1>1. Init => PostedInv /\ HeldInv /\ FactsInv /\ KeyInv
  <2> SUFFICES ASSUME Init PROVE FactsInv /\ KeyInv
    BY HeldInit
  <2>1. FactsInv
    BY DEF Init, FactsInv, Alone
  <2>2. KeyInv
    BY DEF Init, KeyInv, PostedBy
  <2> QED BY <2>1, <2>2
<1>2. ResTypeInv /\ FactsInv /\ [Next]_vars => FactsInv'
  BY FactsNext
<1>3. ResTypeInv /\ KeyInv /\ StockLeavesOnce /\ [Next]_vars => KeyInv'
  BY KeysNext
<1>4. /\ ResTypeInv /\ KeyInv /\ FactsInv /\ StatusTellsConsumption /\ PostedInv /\ HeldInv /\ [Next]_vars
      => PostedInv' /\ HeldInv'
  BY HeldNext
<1>5. ResTypeInv /\ HeldInv => ReservedHeld
  <2> SUFFICES ASSUME ResTypeInv, HeldInv PROVE ReservedHeld
    OBVIOUS
  <2> DEFINE u == Pending(HalfOnes, approved)
             rs == resStatus
             cs == consumed
  <2>1. u \in [LineIds -> Nat] /\ cs \in [LineIds -> Nat]
    BY PendingNow
  <2>2. \A l \in LineIds : Unrecorded(l) = u[l]
    BY SumFunctionIsSum DEF Unrecorded, Pending, HalfOnes
  <2>3. [l \in LineIds |-> Unrecorded(l)] = [l \in LineIds |-> u[l]]
    <3> HIDE DEF u
    <3> QED BY <2>2
  <2>4. SUFFICES ASSUME Agrees(rs, cs, u), NEW p \in Products
                 PROVE  Reserved(p) =
                            SumFunctionOnSet([r \in Reservations |-> Left(r, p, cs)],
                                             { r \in Reservations : rs[r] \in Active })
                            - SumFunctionOnSet([l \in LineIds |-> u[l]],
                                               { l \in LineIds : Lines[l].product = p /\ Lots[p] = {} })
    <3> HIDE DEF u
    <3> QED BY <2>2, <2>3 DEF ReservedHeld, Agrees
  <2>5. Reserved(p) = SumOver(Net(rs, cs, u), LinesOn(p))
    BY <2>4 DEF HeldInv, Matches, Reserved
  <2> HIDE DEF u, rs, cs
  <2> QED BY <2>1, <2>5, HeldSum
<1>6. Spec => []StatusTellsConsumption /\ []StockLeavesOnce
  BY StatusesTellConsumption, ReleasesLeaveOnce
<1> QED BY <1>1, <1>2, <1>3, <1>4, <1>5, <1>6, ReservationTypes, PTL DEF Spec
=============================================================================
