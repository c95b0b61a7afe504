------------------------------ MODULE WarehouseProofs ------------------------------
(***************************************************************************)
(* What holds of Warehouse for all documents, workers and users. First     *)
(* lists, jobs and what a step of a handler may do to documents that are   *)
(* not its own. Then that an adjustment worth more than the threshold is   *)
(* approved by two people before anything moves. Then what steps move, and *)
(* kind by kind - documents posted once, counts and their tasks, returns,  *)
(* transfers - that the ledger has moved what the documents say.  Last     *)
(* that the quarantined stock is what returns have left.                   *)
(***************************************************************************)
EXTENDS Warehouse, StockLedgerProofs, TLAPS

-----------------------------------------------------------------------------
(* Lists *)

(* A sequence, of whatever it holds. *)
IsList(s) == s \in Seq(ToSet(s))

(* A sequence over any set is a list. *)
LEMMA SeqIsList ==
    ASSUME NEW S, NEW s \in Seq(S)
    PROVE  IsList(s)
BY DEF IsList, ToSet

(* A list has a length, and the numbers up to it for its domain. *)
LEMMA ListDomain ==
    ASSUME NEW s, IsList(s)
    PROVE  Len(s) \in Nat /\ DOMAIN s = 1 .. Len(s)
BY DEF IsList

(* A function of the positions of a list is a list. *)
LEMMA MappedList ==
    ASSUME NEW n \in Nat, NEW f, f = [i \in 1 .. n |-> f[i]]
    PROVE  IsList(f) /\ Len(f) = n
<1>1. f \in [1 .. n -> ToSet(f)]
  BY DEF ToSet
<1>2. f \in Seq(ToSet(f))
  BY <1>1
<1> QED BY <1>1, <1>2 DEF IsList

(* Two lists in a row are one, with the elements of both. *)
LEMMA JoinedList ==
    ASSUME NEW s, NEW t, IsList(s), IsList(t)
    PROVE  /\ IsList(s \o t)
           /\ Len(s \o t) = Len(s) + Len(t)
           /\ \A i \in 1 .. Len(s) : (s \o t)[i] = s[i]
           /\ \A i \in 1 .. Len(t) : (s \o t)[Len(s) + i] = t[i]
           /\ \A i \in 1 .. Len(s) + Len(t) : i > Len(s) => (s \o t)[i] = t[i - Len(s)]
<1> DEFINE S == ToSet(s) \cup ToSet(t)
<1>1. s \in Seq(S) /\ t \in Seq(S)
  BY DEF IsList
<1> HIDE DEF S
<1>2. s \o t \in Seq(S)
  BY <1>1
<1>3. IsList(s \o t)
  BY <1>2, SeqIsList
<1>4. Len(s \o t) = Len(s) + Len(t)
  BY <1>1
<1>5. \A i \in 1 .. Len(s) : (s \o t)[i] = s[i]
  BY <1>1
<1>6. \A i \in 1 .. Len(t) : (s \o t)[Len(s) + i] = t[i]
  BY <1>1
<1>7. \A i \in 1 .. Len(s) + Len(t) : i > Len(s) => (s \o t)[i] = t[i - Len(s)]
  BY <1>1
<1> QED BY <1>3, <1>4, <1>5, <1>6, <1>7

(* f is the flattening of the first elements of s, one after the other. *)
Flattens(s, n, f) == f = [i \in 1 .. n |-> IF i = 1 THEN s[i] ELSE f[i - 1] \o s[i]]

(* There is such a flattening .. *)
LEMMA FlatteningExists ==
    ASSUME NEW s, NEW n \in Nat
    PROVE  \E f : Flattens(s, n, f)
<1> DEFINE Bad == { m \in Nat : ~\E f : Flattens(s, m, f) }
<1>1. Bad = {}
  <2> SUFFICES ASSUME Bad # {} PROVE FALSE
    OBVIOUS
  <2>1. PICK m \in Bad : \A k \in Bad : m <= k
    <3>1. Bad \in SUBSET Nat
      OBVIOUS
    <3> HIDE DEF Bad
    <3> QED BY <3>1, LeastNatural
  <2>2. CASE m = 0
    <3> DEFINE g == [i \in 1 .. 0 |-> 0]
    <3>1. Flattens(s, 0, g)
      BY DEF Flattens
    <3> QED BY <2>1, <2>2, <3>1
  <2>3. CASE m # 0
    <3>1. m - 1 \in Nat /\ m - 1 \notin Bad
      BY <2>1, <2>3
    <3>2. PICK f : Flattens(s, m - 1, f)
      BY <3>1
    <3> DEFINE last == IF m = 1 THEN s[m] ELSE f[m - 1] \o s[m]
               g == [i \in 1 .. m |-> IF i = m THEN last ELSE f[i]]
    <3>3. ASSUME NEW i \in 1 .. m PROVE g[i] = IF i = 1 THEN s[i] ELSE g[i - 1] \o s[i]
      <4>1. CASE i = m
        <5>1. m \in Nat /\ (m # 1 => m - 1 \in 1 .. m /\ m - 1 # m)
          BY <2>1, <2>3
        <5> QED BY <4>1, <5>1
      <4>2. CASE i # m
        <5>1. m \in Nat /\ i \in 1 .. m - 1 /\ (i # 1 => i - 1 \in 1 .. m /\ i - 1 # m)
          BY <2>1, <4>2
        <5>2. f[i] = IF i = 1 THEN s[i] ELSE f[i - 1] \o s[i]
          BY <3>2, <5>1 DEF Flattens
        <5> QED BY <4>2, <5>1, <5>2
      <4> QED BY <4>1, <4>2
    <3>4. Flattens(s, m, g)
      <4>1. g = [i \in 1 .. m |-> g[i]]
        OBVIOUS
      <4> HIDE DEF g
      <4> QED BY <3>3, <4>1 DEF Flattens
    <3> QED BY <2>1, <3>4
  <2> QED BY <2>2, <2>3
<1> QED BY <1>1

(* What a list of lists is flattened into are elements of these; and there   *)
(* are some, if there are some in each.                                      *)
LEMMA FlattenedElements ==
    ASSUME NEW s, IsList(s), \A i \in DOMAIN s : IsList(s[i]), NEW flat, flat = FlattenSeq(s)
    PROVE  /\ IsList(flat)
           /\ \A k \in 1 .. Len(flat) : \E i \in DOMAIN s : \E j \in 1 .. Len(s[i]) : flat[k] = s[i][j]
           /\ s # << >> /\ (\A i \in DOMAIN s : s[i] # << >>) => flat # << >>
<1> DEFINE n == Len(s)
           S == UNION { ToSet(s[i]) : i \in 1 .. n }
           f == CHOOSE g : Flattens(s, n, g)
           Fine(i) == /\ f[i] \in Seq(S)
                      /\ (\A k \in 1 .. n : s[k] # << >>) => f[i] # << >>
<1>1. n \in Nat /\ DOMAIN s = 1 .. n
  BY ListDomain
<1>2. ASSUME NEW i \in 1 .. n PROVE s[i] \in Seq(S) /\ IsList(s[i])
  <2>1. s[i] \in Seq(ToSet(s[i])) /\ ToSet(s[i]) \subseteq S
    BY <1>1 DEF IsList
  <2> HIDE DEF S
  <2> QED BY <1>1, <2>1
<1>3. CASE n = 0
  BY <1>1, <1>3 DEF FlattenSeq, IsList
<1>4. ASSUME n # 0 PROVE Fine(n) /\ flat = f[n]
  <2>1. Flattens(s, n, f)
    BY <1>1, FlatteningExists
  <2>2. flat = f[n]
    BY <1>4 DEF FlattenSeq, Flattens
  <2> DEFINE Bad == { i \in 1 .. n : ~Fine(i) }
  <2>3. Bad = {}
    <3> SUFFICES ASSUME Bad # {} PROVE FALSE
      OBVIOUS
    <3>1. PICK m \in Bad : \A k \in Bad : m <= k
      <4>1. Bad \in SUBSET Nat
        BY <1>1
      <4> HIDE DEF Bad
      <4> QED BY <4>1, LeastNatural
    <3> HIDE DEF f, n, S
    <3>2. f[m] = IF m = 1 THEN s[m] ELSE f[m - 1] \o s[m]
      BY <2>1, <3>1 DEF Flattens
    <3>3. CASE m = 1
      BY <1>1, <1>2, <3>1, <3>2, <3>3
    <3>4. CASE m # 1
      <4>1. m - 1 \in 1 .. n /\ m - 1 \notin Bad
        BY <1>1, <3>1, <3>4
      <4>2. Fine(m - 1) /\ s[m] \in Seq(S)
        BY <1>1, <1>2, <3>1, <4>1
      <4>3. f[m - 1] \o s[m] \in Seq(S) /\ (f[m - 1] # << >> => f[m - 1] \o s[m] # << >>)
        BY <4>2
      <4> QED BY <3>1, <3>2, <3>4, <4>2, <4>3
    <3> QED BY <3>3, <3>4
  <2> QED BY <1>1, <1>4, <2>2, <2>3
<1>5. CASE n # 0
  <2>1. flat \in Seq(S) /\ ((\A k \in 1 .. n : s[k] # << >>) => flat # << >>)
    BY <1>4, <1>5
  <2>2. ASSUME NEW k \in 1 .. Len(flat)
        PROVE  \E i \in DOMAIN s : \E j \in 1 .. Len(s[i]) : flat[k] = s[i][j]
    <3>1. flat[k] \in S
      <4> HIDE DEF S
      <4> QED BY <2>1
    <3>2. PICK i \in 1 .. n : flat[k] \in ToSet(s[i])
      BY <3>1
    <3>3. IsList(s[i]) /\ DOMAIN s[i] = 1 .. Len(s[i])
      BY <1>2, ListDomain
    <3> QED BY <1>1, <3>2, <3>3 DEF ToSet
  <2>3. IsList(flat)
    <3> HIDE DEF S
    <3> QED BY <2>1, SeqIsList
  <2> QED BY <1>1, <2>1, <2>2, <2>3
<1> QED BY <1>3, <1>5

(* So it is a list. *)
LEMMA FlattenedList ==
    ASSUME NEW s, IsList(s), \A i \in DOMAIN s : IsList(s[i])
    PROVE  IsList(FlattenSeq(s))
BY FlattenedElements

-----------------------------------------------------------------------------
(* What is posted are lists *)

(* For a list of documents' lines every service posts a list: of dispatched, *)
(* adjusted ..                                                               *)
LEMMA LineByLineLists ==
    ASSUME NEW lines, IsList(lines)
    PROVE  IsList(OutLines(lines)) /\ IsList(AdjustmentLines(lines))
<1>1. Len(lines) \in Nat /\ DOMAIN lines = 1 .. Len(lines)
  BY ListDomain
<1>2. IsList(OutLines(lines))
  <2> DEFINE f == OutLines(lines)
  <2>1. f = [i \in 1 .. Len(lines) |-> f[i]]
    BY <1>1 DEF OutLines
  <2> HIDE DEF f
  <2>2. IsList(f)
    BY <1>1, <2>1, MappedList
  <2> QED BY <2>2 DEF f
<1>3. IsList(AdjustmentLines(lines))
  <2> DEFINE f == AdjustmentLines(lines)
  <2>1. f = [i \in 1 .. Len(lines) |-> f[i]]
    BY <1>1 DEF AdjustmentLines
  <2> HIDE DEF f
  <2>2. IsList(f)
    BY <1>1, <2>1, MappedList
  <2> QED BY <2>2 DEF f
<1> QED BY <1>2, <1>3

(* No line, one and two are lists. *)
LEMMA ShortLists ==
    /\ IsList(<< >>)
    /\ \A x : IsList(<< x >>)
    /\ \A x, y : IsList(<< x, y >>)
<1>1. << >> \in Seq({})
  OBVIOUS
<1>2. \A x : << x >> \in Seq({x})
  OBVIOUS
<1>3. \A x, y : << x, y >> \in Seq({x, y})
  OBVIOUS
<1> QED BY <1>1, <1>2, <1>3, SeqIsList

(* .. received (of a transfer, a return or a receipt) ..                     *)
LEMMA ReceivedLists ==
    ASSUME NEW lines, IsList(lines), NEW qty
    PROVE  /\ IsList(InLines(lines, qty))
           /\ IsList(IntakeLines(lines, qty))
           /\ IsList(ReceiptLines(lines))
<1>1. Len(lines) \in Nat /\ DOMAIN lines = 1 .. Len(lines)
  BY ListDomain
<1>2. ASSUME NEW f, f = [i \in DOMAIN lines |-> f[i]], \A i \in DOMAIN lines : IsList(f[i])
      PROVE  IsList(FlattenSeq(f))
  <2>1. f = [i \in 1 .. Len(lines) |-> f[i]]
    BY <1>1, <1>2
  <2>2. IsList(f) /\ DOMAIN f = DOMAIN lines
    BY <1>1, <2>1, MappedList
  <2> QED BY <1>2, <2>2, FlattenedList
<1>3. IsList(InLines(lines, qty))
  <2> DEFINE Leg(g, q, bucket, delta) ==
                 [grain |-> g, type |-> "TRANSFER_IN", qty |-> q, allowNegative |-> FALSE,
                  deltas |-> [EmptyRow EXCEPT ![bucket] = delta]]
             legs(i) == << Leg(lines[i].grain, qty[i], "inTransit", -qty[i]),
                           Leg(lines[i].to, qty[i], "onHand", qty[i]) >>
             f == [i \in DOMAIN lines |-> IF qty[i] > 0 THEN legs(i) ELSE << >>]
  <2>1. InLines(lines, qty) = FlattenSeq(f)
    BY DEF InLines
  <2>2. ASSUME NEW i \in DOMAIN lines PROVE IsList(f[i])
    <3> DEFINE l == legs(i)
    <3>1. IsList(l)
      BY ShortLists
    <3>2. f[i] = IF qty[i] > 0 THEN l ELSE << >>
      OBVIOUS
    <3> HIDE DEF l, f
    <3> QED BY <3>1, <3>2, ShortLists
  <2>3. f = [i \in DOMAIN lines |-> f[i]]
    OBVIOUS
  <2> HIDE DEF f
  <2> QED BY <1>2, <2>1, <2>2, <2>3
<1>4. IsList(IntakeLines(lines, qty))
  <2> DEFINE line(i) == [grain |-> lines[i].grain, type |-> "RETURN_RECEIPT", qty |-> qty[i],
                         deltas |-> NoDeltas, allowNegative |-> FALSE]
             f == [i \in DOMAIN lines |-> IF qty[i] > 0 THEN << line(i) >> ELSE << >>]
  <2>1. IntakeLines(lines, qty) = FlattenSeq(f)
    BY DEF IntakeLines
  <2>2. ASSUME NEW i \in DOMAIN lines PROVE IsList(f[i])
    <3> DEFINE l == line(i)
    <3>1. f[i] = IF qty[i] > 0 THEN << l >> ELSE << >>
      OBVIOUS
    <3> HIDE DEF l, f
    <3> QED BY <3>1, ShortLists
  <2>3. f = [i \in DOMAIN lines |-> f[i]]
    OBVIOUS
  <2> HIDE DEF f
  <2> QED BY <1>2, <2>1, <2>2, <2>3
<1>5. IsList(ReceivedLines(lines))
  <2> DEFINE f == [i \in DOMAIN lines |-> IF lines[i].qty > 0 THEN << lines[i] >> ELSE << >>]
  <2>1. ReceivedLines(lines) = FlattenSeq(f)
    BY DEF ReceivedLines
  <2>2. ASSUME NEW i \in DOMAIN lines PROVE IsList(f[i])
    <3>1. f[i] = IF lines[i].qty > 0 THEN << lines[i] >> ELSE << >>
      OBVIOUS
    <3> HIDE DEF f
    <3> QED BY <3>1, ShortLists
  <2>3. f = [i \in DOMAIN lines |-> f[i]]
    OBVIOUS
  <2> HIDE DEF f
  <2> QED BY <1>2, <2>1, <2>2, <2>3
<1>6. IsList(ReceiptLines(lines))
  <2> DEFINE f == ReceiptLines(lines)
             n == Len(ReceivedLines(lines))
  <2>1. n \in Nat /\ DOMAIN ReceivedLines(lines) = 1 .. n
    BY <1>5, ListDomain
  <2>2. f = [i \in 1 .. n |-> f[i]]
    BY <2>1 DEF ReceiptLines
  <2> HIDE DEF f, n
  <2>3. IsList(f)
    BY <2>1, <2>2, MappedList
  <2> QED BY <2>3 DEF f
<1> QED BY <1>3, <1>4, <1>6

(* .. disposed of ..                                                         *)
LEMMA DisposedList ==
    ASSUME NEW j
    PROVE  IsList(DisposalLines(j))
BY ShortLists DEF DisposalLines

(* .. or found to be missing or to be too much.                              *)
LEMMA DifferenceList ==
    ASSUME NEW items, IsList(items), NEW books, NEW found
    PROVE  /\ IsList(Difference(items, books, found))
           /\ \A k \in 1 .. Len(Difference(items, books, found)) : \E i \in 1 .. Len(items) :
                 LET line == Difference(items, books, found)[k]
                 IN  /\ line.grain = items[i].grain
                     /\ line.type \in {"STOCK_ADJUSTMENT_OUT", "STOCK_ADJUSTMENT_IN"}
                     /\ line.qty \in {Cardinality(books[i].units \ found[i].units),
                                     Cardinality(found[i].units \ books[i].units),
                                     books[i].qty - found[i].qty, found[i].qty - books[i].qty}
<1>1. Len(items) \in Nat /\ DOMAIN items = 1 .. Len(items)
  BY ListDomain
<1> DEFINE line(type, g, n, S) ==
               IF n > 0 THEN << [grain |-> g, type |-> type, qty |-> n, units |-> S] >> ELSE << >>
           loss(g, n, S) == line("STOCK_ADJUSTMENT_OUT", g, n, S)
           find(g, n, S) == line("STOCK_ADJUSTMENT_IN", g, n, S)
           grain(i) == items[i].grain
           missing(i) == books[i].units \ found[i].units
           extra(i) == found[i].units \ books[i].units
           amounts(i) == {Cardinality(missing(i)), Cardinality(extra(i)),
                          books[i].qty - found[i].qty, found[i].qty - books[i].qty}
           item(i) ==
               IF grain(i) \in Serialized
               THEN loss(grain(i), Cardinality(missing(i)), missing(i))
                        \o find(grain(i), Cardinality(extra(i)), extra(i))
               ELSE loss(grain(i), books[i].qty - found[i].qty, {})
                        \o find(grain(i), found[i].qty - books[i].qty, {})
           f == [i \in DOMAIN items |-> item(i)]
           flat == Difference(items, books, found)
           types == {"STOCK_ADJUSTMENT_OUT", "STOCK_ADJUSTMENT_IN"}
           (* Lines for item i. *)
           For(l, i) ==
               /\ IsList(l)
               /\ \A k \in 1 .. Len(l) :
                     l[k].grain = grain(i) /\ l[k].type \in types /\ l[k].qty \in amounts(i)
<1>2. flat = IF found = << >> THEN << >> ELSE FlattenSeq(f)
  BY DEF Difference
<1>3. ASSUME NEW i, NEW type \in types, NEW n \in amounts(i), NEW S PROVE For(line(type, grain(i), n, S), i)
  <2> DEFINE g == grain(i)
             l == [grain |-> g, type |-> type, qty |-> n, units |-> S]
             one == << l >>
  <2>1. line(type, g, n, S) = IF n > 0 THEN one ELSE << >>
    OBVIOUS
  <2>2. l.grain = g /\ l.qty = n /\ l.type \in types
    OBVIOUS
  <2>3. IsList(one) /\ Len(one) = 1 /\ one[1] = l
    <3> HIDE DEF l
    <3> QED BY ShortLists
  <2>4. IsList(<< >>) /\ Len(<< >>) = 0
    BY ShortLists
  <2> HIDE DEF l, line, amounts, one, grain, types
  <2>5. For(one, i) /\ For(<< >>, i)
    BY <2>2, <2>3, <2>4 DEF g
  <2> QED BY <2>1, <2>5 DEF g
<1>4. ASSUME NEW i \in DOMAIN items PROVE For(f[i], i)
  <2>1. PICK s, t : For(s, i) /\ For(t, i) /\ item(i) = s \o t
    <3> DEFINE n1 == Cardinality(missing(i))
               n2 == Cardinality(extra(i))
               n3 == books[i].qty - found[i].qty
               n4 == found[i].qty - books[i].qty
               out == "STOCK_ADJUSTMENT_OUT"
               in == "STOCK_ADJUSTMENT_IN"
               m == missing(i)
               x == extra(i)
    <3>1. /\ n1 \in amounts(i) /\ n2 \in amounts(i) /\ n3 \in amounts(i) /\ n4 \in amounts(i)
          /\ out \in types /\ in \in types
          /\ item(i) = IF grain(i) \in Serialized
                       THEN line(out, grain(i), n1, m) \o line(in, grain(i), n2, x)
                       ELSE line(out, grain(i), n3, {}) \o line(in, grain(i), n4, {})
      OBVIOUS
    <3> HIDE DEF n1, n2, n3, n4, out, in, m, x, line, item, For, amounts, grain, types
    <3>2. /\ For(line(out, grain(i), n1, m), i) /\ For(line(in, grain(i), n2, x), i)
          /\ For(line(out, grain(i), n3, {}), i) /\ For(line(in, grain(i), n4, {}), i)
      BY <1>3, <3>1
    <3> QED BY <3>1, <3>2
  <2>2. f[i] = s \o t
    <3>1. f[i] = item(i)
      OBVIOUS
    <3> HIDE DEF f, item
    <3> QED BY <2>1, <3>1
  <2> HIDE DEF f, item, amounts, grain, types
  <2>3. /\ IsList(s \o t) /\ Len(s \o t) = Len(s) + Len(t)
        /\ \A k \in 1 .. Len(s) : (s \o t)[k] = s[k]
        /\ \A k \in 1 .. Len(s) + Len(t) : k > Len(s) => (s \o t)[k] = t[k - Len(s)]
    BY <2>1, JoinedList
  <2>4. Len(s) \in Nat /\ Len(t) \in Nat
    BY <2>1, ListDomain
  <2>5. ASSUME NEW k \in 1 .. Len(s) + Len(t)
        PROVE  /\ (s \o t)[k].grain = grain(i) /\ (s \o t)[k].qty \in amounts(i)
               /\ (s \o t)[k].type \in types
    <3>1. CASE k > Len(s)
      <4>1. k - Len(s) \in 1 .. Len(t)
        BY <2>4, <3>1
      <4> QED BY <2>1, <2>3, <3>1, <4>1
    <3>2. CASE ~(k > Len(s))
      <4>1. k \in 1 .. Len(s)
        BY <2>4, <3>2
      <4> QED BY <2>1, <2>3, <4>1
    <3> QED BY <3>1, <3>2
  <2> QED BY <2>2, <2>3, <2>5
<1>5. f = [i \in 1 .. Len(items) |-> f[i]]
  BY <1>1
<1> HIDE DEF f, flat, amounts, grain, types
<1>6. IsList(f) /\ DOMAIN f = DOMAIN items
  BY <1>1, <1>5, MappedList
<1>7. ASSUME found # << >>
      PROVE  /\ IsList(flat)
             /\ \A k \in 1 .. Len(flat) : \E i \in DOMAIN f : \E j \in 1 .. Len(f[i]) : flat[k] = f[i][j]
  BY <1>2, <1>4, <1>6, <1>7, FlattenedElements
<1>8. found = << >> => IsList(flat) /\ Len(flat) = 0
  BY <1>2, ShortLists
<1>9. ASSUME NEW k \in 1 .. Len(flat)
      PROVE  \E i \in 1 .. Len(items) :
                 flat[k].grain = grain(i) /\ flat[k].type \in types /\ flat[k].qty \in amounts(i)
  <2>1. found # << >>
    BY <1>8
  <2>2. PICK i \in DOMAIN f : \E j \in 1 .. Len(f[i]) : flat[k] = f[i][j]
    BY <1>7, <2>1
  <2> QED BY <1>1, <1>4, <1>6, <2>2
<1> QED BY <1>7, <1>8, <1>9 DEF flat, grain, amounts, types

(* A list of what was found on the rows of a count. *)
LEMMA VarianceList ==
    ASSUME NEW c \in Docs, IsList(Lines(c))
    PROVE  IsList(Variance(c))
BY DifferenceList DEF Variance

-----------------------------------------------------------------------------
(* Jobs *)

JobFields == {"op", "doc", "by", "cmd", "key", "next", "lines", "qty", "line", "units"}

(* What worker w does at a step of a handler is an operation of the kind of  *)
(* document it works on.                                                     *)
Fits(j, step) ==
    /\ DOMAIN j = JobFields
    /\ j.doc \in Docs
    /\ IsList(j.lines)
    /\ j.op \in {"dispatch", "receive"} => j.doc \in Transfers
    /\ j.op \in {"intake", "dispose"} => j.doc \in Returns
    /\ j.op = "enter" => j.doc \in Counts
    /\ j.op \in {"assign", "start", "recount"} => j.doc \in Tasks
    /\ step \in {"linking", "withdrawing", "closing"} => j.doc \in Tasks
    /\ step = "completing" => j.doc \in CycleCounts

(* The shape of the data that handlers share. *)
ShapeInv ==
    /\ DOMAIN status = Docs /\ DOMAIN content = Docs
    /\ \A d \in Docs : content[d] \in DOMAIN Versions[d]
    /\ IsList(movements)
    /\ DOMAIN pc = Workers /\ DOMAIN job = Workers
    /\ \A w \in Workers : IF pc[w] = "idle" THEN job[w] = Idle ELSE Fits(job[w], pc[w])

(* A step of worker w for a document of D: what it may do to the statuses,   *)
(* to the items, to the ledger and to the workers.                           *)
StatusStep(D) == DOMAIN status' = Docs /\ \A d \in Docs \ D : status'[d] = status[d]

ContentStep(D) ==
    /\ DOMAIN content' = Docs
    /\ \A d \in Docs : content'[d] \in DOMAIN Versions[d]
    /\ \A d \in Docs \ D : content'[d] = content[d]

LedgerStep(D) ==
    /\ IsList(movements') /\ Len(movements) <= Len(movements')
    /\ \A i \in 1 .. Len(movements') :
          IF i <= Len(movements) THEN movements'[i] = movements[i] ELSE movements'[i].ref \in D

WorkerStep(w, D) ==
    /\ DOMAIN pc' = Workers /\ DOMAIN job' = Workers
    /\ \A v \in Workers \ {w} : pc'[v] = pc[v] /\ job'[v] = job[v]
    /\ pc[w] # "idle" => job[w].doc \in D
    /\ IF pc'[w] = "idle" THEN job'[w] = Idle ELSE Fits(job'[w], pc'[w]) /\ job'[w].doc \in D

Step(w, D) == StatusStep(D) /\ ContentStep(D) /\ LedgerStep(D) /\ WorkerStep(w, D)

(* The lines of a document are a list. *)
LEMMA LinesAreLists ==
    ASSUME ShapeInv, NEW d \in Docs
    PROVE  IsList(Lines(d))
BY DocumentsAssumption DEF ShapeInv, Lines, IsList

(* What stays as it is has taken a step. *)
LEMMA NothingSteps ==
    ASSUME ShapeInv, NEW D
    PROVE  /\ UNCHANGED status => StatusStep(D)
           /\ UNCHANGED content => ContentStep(D)
           /\ UNCHANGED movements => LedgerStep(D)
<1>1. UNCHANGED status => StatusStep(D)
  BY DEF ShapeInv, StatusStep
<1>2. UNCHANGED content => ContentStep(D)
  BY DEF ShapeInv, ContentStep
<1>3. ASSUME UNCHANGED movements PROVE LedgerStep(D)
  <2>1. IsList(movements) /\ Len(movements) \in Nat
    BY ListDomain DEF ShapeInv
  <2> QED BY <1>3, <2>1 DEF LedgerStep
<1> QED BY <1>1, <1>2, <1>3

(* A posting appends movements for its document. *)
LEMMA PostSteps ==
    ASSUME ShapeInv, NEW cmd, NEW D, NEW ref \in D, IsList(cmd.lines), Post(cmd, ref)
    PROVE  LedgerStep(D)
<1> DEFINE n == Len(cmd.lines)
           new == [i \in DOMAIN cmd.lines |-> MovementFor(cmd, i, Len(movements) + i, ref)]
           m == movements
           after == movements'
<1>1. after = m \o new /\ IsList(m) /\ Len(m) \in Nat
  BY ListDomain DEF Post, ShapeInv
<1>2. n \in Nat /\ DOMAIN cmd.lines = 1 .. n
  BY ListDomain
<1>3. new = [i \in 1 .. n |-> new[i]] /\ \A i \in 1 .. n : new[i].ref = ref
  BY <1>2 DEF MovementFor
<1> HIDE DEF new, n, m, after
<1>4. IsList(new) /\ Len(new) = n
  BY <1>2, <1>3, MappedList
<1>5. IsList(after) /\ Len(after) = Len(m) + n
  BY <1>1, <1>4, JoinedList
<1>6. \A i \in 1 .. Len(m) : after[i] = m[i]
  BY <1>1, <1>4, JoinedList
<1>7. ASSUME NEW i \in 1 .. Len(after), i > Len(m) PROVE after[i].ref \in D
  <2>1. after[i] = new[i - Len(m)] /\ i - Len(m) \in 1 .. n
    BY <1>1, <1>2, <1>4, <1>5, <1>7, JoinedList
  <2> QED BY <1>3, <2>1
<1>8. Len(m) <= Len(after) /\ \A i \in 1 .. Len(after) : i <= Len(m) => i \in 1 .. Len(m)
  BY <1>1, <1>2, <1>5
<1> QED BY <1>1, <1>5, <1>6, <1>7, <1>8 DEF LedgerStep, m, after

(* A handler ends, or its command is answered; or it goes on. *)
LEMMA FinishSteps ==
    ASSUME ShapeInv, NEW w \in Workers, pc[w] # "idle", NEW D, job[w].doc \in D, NEW o, Finish(w, o)
    PROVE  WorkerStep(w, D)
<1>1. Fits(job[w], pc[w]) /\ DOMAIN pc = Workers /\ DOMAIN job = Workers
  BY DEF ShapeInv
<1>2. CASE job[w].cmd = NoCommand
  BY <1>1, <1>2 DEF Finish, WorkerStep
<1>3. CASE job[w].cmd # NoCommand
  <2>1. /\ pc' = [pc EXCEPT ![w] = "answering"]
        /\ job' = [job EXCEPT ![w].next = o]
    BY <1>3 DEF Finish
  <2>2. /\ DOMAIN job'[w] = JobFields
        /\ job'[w].doc = job[w].doc /\ job'[w].op = job[w].op /\ job'[w].lines = job[w].lines
    BY <1>1, <2>1 DEF Fits, JobFields
  <2>3. Fits(job'[w], "answering")
    BY <1>1, <2>2 DEF Fits
  <2> QED BY <1>1, <2>1, <2>2, <2>3 DEF WorkerStep
<1> QED BY <1>2, <1>3

(* A handler goes on to its next transaction. *)
LEMMA GotoSteps ==
    ASSUME ShapeInv, NEW w \in Workers, pc[w] # "idle", NEW D, job[w].doc \in D,
           NEW step, step # "idle",
           step \in {"linking", "withdrawing", "closing"} => job[w].doc \in Tasks,
           step = "completing" => job[w].doc \in CycleCounts,
           Goto(w, step)
    PROVE  WorkerStep(w, D)
<1>1. Fits(job[w], pc[w]) /\ DOMAIN pc = Workers /\ DOMAIN job = Workers
  BY DEF ShapeInv
<1>2. pc' = [pc EXCEPT ![w] = step] /\ job' = job
  BY DEF Goto
<1>3. Fits(job[w], step)
  BY <1>1 DEF Fits
<1> QED BY <1>1, <1>2, <1>3 DEF WorkerStep

(* A request is taken up. *)
LEMMA BeginSteps ==
    ASSUME ShapeInv, NEW w \in Workers, pc[w] = "idle", NEW D, NEW j, Fits(j, "loaded"), j.doc \in D,
           Begin(w, j)
    PROVE  Step(w, D)
<1>1. DOMAIN pc = Workers /\ DOMAIN job = Workers
  BY DEF ShapeInv
<1>2. /\ pc' = [pc EXCEPT ![w] = "loaded"]
      /\ job' = [job EXCEPT ![w] = j]
      /\ UNCHANGED << movements, status, content >>
  BY DEF Begin, stockVars
<1>3. WorkerStep(w, D)
  BY <1>1, <1>2 DEF WorkerStep
<1> QED BY <1>2, <1>3, NothingSteps DEF Step

(* A handler answers without having written anything .. *)
LEMMA ReplySteps ==
    ASSUME ShapeInv, NEW w \in Workers, pc[w] # "idle", NEW D, job[w].doc \in D, NEW o, Reply(w, o)
    PROVE  Step(w, D)
<1>1. Finish(w, o) /\ UNCHANGED << movements, status, content >>
  BY DEF Reply, stockVars
<1>2. WorkerStep(w, D)
  BY <1>1, FinishSteps
<1> QED BY <1>1, <1>2, NothingSteps DEF Step

(* .. declines .. *)
LEMMA RefuseSteps ==
    ASSUME ShapeInv, NEW w \in Workers, pc[w] # "idle", NEW D, job[w].doc \in D, Refuse(w)
    PROVE  Step(w, D)
<1> DEFINE o == "DECLINED"
<1>1. Reply(w, o)
  BY DEF Refuse
<1> HIDE DEF o
<1> QED BY <1>1, ReplySteps

(* .. or goes on without having written anything. *)
LEMMA OnwardSteps ==
    ASSUME ShapeInv, NEW w \in Workers, pc[w] # "idle", NEW D, job[w].doc \in D,
           NEW step, step \notin {"idle", "linking", "withdrawing", "closing", "completing"},
           Goto(w, step), UNCHANGED << movements, status, content >>
    PROVE  Step(w, D)
<1>1. WorkerStep(w, D)
  BY GotoSteps
<1> QED BY <1>1, NothingSteps DEF Step

(* A status is written .. *)
LEMMA WriteSteps ==
    ASSUME ShapeInv, NEW w \in Workers, NEW D, job[w].doc \in D, NEW s, Write(w, s)
    PROVE  StatusStep(D)
BY DEF Write, StatusStep, ShapeInv

(* .. and nothing else. *)
LEMMA AdvanceSteps ==
    ASSUME ShapeInv, NEW w \in Workers, pc[w] # "idle", NEW D, job[w].doc \in D, NEW s, Advance(w, s)
    PROVE  Step(w, D)
<1>1. Finish(w, "APPLIED") /\ Write(w, s) /\ UNCHANGED << movements, content >>
  BY DEF Advance, stockVars
<1> DEFINE o == "APPLIED"
<1>2. WorkerStep(w, D)
  <2>1. Finish(w, o)
    BY <1>1
  <2> HIDE DEF o
  <2> QED BY <2>1, FinishSteps
<1>3. StatusStep(D)
  BY <1>1, WriteSteps
<1> QED BY <1>1, <1>2, <1>3, NothingSteps DEF Step

(* Somebody makes a document. *)
LEMMA CreateSteps ==
    ASSUME ShapeInv, NEW w \in Workers, NEW D, NEW d \in D, d \in Docs, Create(w, d)
    PROVE  Step(w, D)
<1>1. /\ pc[w] = "idle"
      /\ status' = [status EXCEPT ![d] = "DRAFT"]
      /\ \E c \in DOMAIN Versions[d] : content' = [content EXCEPT ![d] = c]
      /\ UNCHANGED << movements, pc, job >>
  BY DEF Create, stockVars, workVars
<1>2. StatusStep(D)
  BY <1>1 DEF ShapeInv, StatusStep
<1>3. ContentStep(D)
  BY <1>1 DEF ShapeInv, ContentStep
<1>4. WorkerStep(w, D)
  BY <1>1 DEF ShapeInv, WorkerStep
<1> QED BY <1>1, <1>2, <1>3, <1>4, NothingSteps DEF Step

(* Somebody replaces its items. *)
LEMMA EditSteps ==
    ASSUME ShapeInv, NEW w \in Workers, NEW D, job[w].doc \in D, Edit(w)
    PROVE  Step(w, D)
<1> DEFINE d == job[w].doc
<1>1. /\ pc[w] = "loaded"
      /\ \E c \in DOMAIN Versions[d] : content' = [content EXCEPT ![d] = c]
      /\ Write(w, status[d]) /\ Finish(w, "APPLIED")
      /\ UNCHANGED movements
  BY DEF Edit, At, stockVars
<1>2. d \in Docs
  BY <1>1 DEF ShapeInv, Fits
<1>3. StatusStep(D)
  <2> DEFINE s == status[d]
  <2>1. Write(w, s)
    BY <1>1
  <2> HIDE DEF s
  <2> QED BY <2>1, WriteSteps
<1>4. ContentStep(D)
  BY <1>1, <1>2 DEF ShapeInv, ContentStep
<1>5. WorkerStep(w, D)
  <2> DEFINE o == "APPLIED"
  <2>1. Finish(w, o) /\ pc[w] # "idle"
    BY <1>1
  <2> HIDE DEF o
  <2> QED BY <2>1, FinishSteps
<1> QED BY <1>1, <1>3, <1>4, <1>5, NothingSteps DEF Step

(* The ledger takes a list of lines in a transaction of its own .. *)
LEMMA TakeSteps ==
    ASSUME ShapeInv, NEW w \in Workers, pc[w] # "idle", NEW D, job[w].doc \in D,
           NEW lines, IsList(lines), Take(w, lines)
    PROVE  Step(w, D)
<1> DEFINE cmd == CommandOf(job[w], lines)
           d == job[w].doc
           posted == "posted"
<1>1. CASE Refuse(w)
  BY <1>1, RefuseSteps
<1>2. CASE Goto(w, "posted") /\ UNCHANGED << status, content >> /\ (UNCHANGED movements \/ Post(cmd, d))
  <2>1. WorkerStep(w, D)
    <3>1. Goto(w, posted) /\ posted # "idle" /\ posted \notin {"linking", "withdrawing", "closing", "completing"}
      BY <1>2
    <3> HIDE DEF posted
    <3> QED BY <3>1, GotoSteps
  <2>2. LedgerStep(D)
    <3>1. CASE UNCHANGED movements
      BY <3>1, NothingSteps
    <3>2. CASE Post(cmd, d)
      <4>1. IsList(cmd.lines) /\ d \in D
        BY DEF CommandOf
      <4> HIDE DEF cmd, d
      <4> QED BY <3>2, <4>1, PostSteps
    <3> QED BY <1>2, <3>1, <3>2
  <2> QED BY <1>2, <2>1, <2>2, NothingSteps DEF Step
<1> QED BY <1>1, <1>2 DEF Take, stockVars

(* .. and the document's service looks before it records that it has. *)
LEMMA LookSteps ==
    ASSUME ShapeInv, NEW w \in Workers, NEW D, job[w].doc \in D, NEW fit, Look(w, fit)
    PROVE  Step(w, D)
<1> DEFINE recording == "recording"
<1>1. pc[w] # "idle"
  BY DEF Look
<1>2. CASE Refuse(w)
  BY <1>1, <1>2, RefuseSteps
<1>3. CASE Goto(w, "recording") /\ UNCHANGED << status, content, movements >>
  <2>1. /\ Goto(w, recording)
        /\ recording \notin {"idle", "linking", "withdrawing", "closing", "completing"}
    BY <1>3
  <2> HIDE DEF recording
  <2> QED BY <1>1, <1>3, <2>1, OnwardSteps
<1> QED BY <1>2, <1>3 DEF Look, stockVars

(* A document's service enters the transaction that posts. *)
LEMMA EnterSteps ==
    ASSUME ShapeInv, NEW w \in Workers, pc[w] # "idle", NEW D, job[w].doc \in D,
           NEW lines, NEW fit, Enter(w, lines, fit)
    PROVE  Step(w, D)
<1> DEFINE posting == "posting"
           o == IF Answered(CommandOf(job[w], lines)) THEN "APPLIED" ELSE "DECLINED"
<1>1. CASE Reply(w, o)
  <2> HIDE DEF o
  <2> QED BY <1>1, ReplySteps
<1>2. CASE Goto(w, "posting") /\ UNCHANGED << status, content, movements >>
  <2>1. /\ Goto(w, posting)
        /\ posting \notin {"idle", "linking", "withdrawing", "closing", "completing"}
    BY <1>2
  <2> HIDE DEF posting
  <2> QED BY <1>2, <2>1, OnwardSteps
<1> QED BY <1>1, <1>2 DEF Enter, stockVars

(* A handler fails. *)
LEMMA FailSteps ==
    ASSUME ShapeInv, NEW w \in Workers, NEW D, job[w].doc \in D, Fail(w)
    PROVE  Step(w, D)
<1>1. /\ pc' = [pc EXCEPT ![w] = "idle"] /\ job' = [job EXCEPT ![w] = Idle]
      /\ UNCHANGED << status, content, movements >>
  BY DEF Fail, stockVars
<1>2. WorkerStep(w, D)
  BY <1>1 DEF ShapeInv, WorkerStep
<1> QED BY <1>1, <1>2, NothingSteps DEF Step

(* The transaction that records a posting on the document .. *)
LEMMA RecordSteps ==
    ASSUME ShapeInv, NEW w \in Workers, pc[w] # "idle", NEW D, job[w].doc \in D, NEW s,
           Write(w, s), Finish(w, "APPLIED"), UNCHANGED << movements, content >>
    PROVE  Step(w, D)
<1> DEFINE o == "APPLIED"
<1>1. WorkerStep(w, D)
  <2>1. Finish(w, o)
    OBVIOUS
  <2> HIDE DEF o
  <2> QED BY <2>1, FinishSteps
<1>2. StatusStep(D)
  BY WriteSteps
<1> QED BY <1>1, <1>2, NothingSteps DEF Step

(* .. or that posts and records at once. *)
LEMMA CloseSteps ==
    ASSUME ShapeInv, NEW w \in Workers, pc[w] # "idle", NEW D, job[w].doc \in D, NEW s,
           NEW lines, IsList(lines), Post(CommandOf(job[w], lines), job[w].doc),
           Write(w, s), UNCHANGED content
    PROVE  StatusStep(D) /\ ContentStep(D) /\ LedgerStep(D)
<1> DEFINE cmd == CommandOf(job[w], lines)
           d == job[w].doc
<1>1. IsList(cmd.lines) /\ d \in D /\ Post(cmd, d)
  BY DEF CommandOf
<1>2. LedgerStep(D)
  <2> HIDE DEF cmd, d
  <2> QED BY <1>1, PostSteps
<1>3. StatusStep(D)
  BY WriteSteps
<1> QED BY <1>2, <1>3, NothingSteps

(* The job of a request as it is loaded. *)
LEMMA JobShape ==
    ASSUME NEW op, NEW d
    PROVE  /\ DOMAIN Job(op, d) = JobFields
           /\ Job(op, d).op = op /\ Job(op, d).doc = d /\ Job(op, d).lines = Lines(d)
           /\ Job(op, d).next = "none" /\ Job(op, d).by = NoDoc
BY DEF Job, Idle, JobFields

(* An operation of the kind of document it is done on. *)
Belongs(op, d) ==
    /\ op \in {"dispatch", "receive"} => d \in Transfers
    /\ op \in {"intake", "dispose"} => d \in Returns
    /\ op = "enter" => d \in Counts
    /\ op \in {"assign", "start", "recount"} => d \in Tasks

(* Somebody asks for an operation of a document of D. *)
LEMMA LoadSteps ==
    ASSUME ShapeInv, NEW w \in Workers, NEW D, NEW d \in D, d \in Docs, NEW op, Belongs(op, d),
           NEW j, DOMAIN j = JobFields, j.op = op, j.doc = d, IsList(j.lines), Start(w, j)
    PROVE  Step(w, D)
<1>1. Fits(j, "loaded") /\ j.doc \in D
  BY DEF Fits, Belongs
<1>2. pc[w] = "idle" /\ Begin(w, j)
  BY DEF Start
<1> QED BY <1>1, <1>2, BeginSteps

-----------------------------------------------------------------------------
(* The steps of each service *)

(* The service of transfers works on a transfer .. *)
LEMMA TransferJobs ==
    ASSUME ShapeInv, NEW w \in Workers, TransferStep(w)
    PROVE  pc[w] # "idle" /\ job[w].doc \in Transfers
<1>1. pc[w] # "idle"
  BY DEF TransferStep, AdvanceTransfer, EditTransfer, Edit, ValidateDispatch, PostDispatch, LookDispatch,
         RecordDispatch, PostReceive, LookReceive, RecordReceive, At
<1>2. job[w].op \in {"dispatch", "receive"} \/ job[w].doc \in Transfers
  BY DEF TransferStep, AdvanceTransfer, EditTransfer, ValidateDispatch, PostDispatch, LookDispatch,
         RecordDispatch, PostReceive, LookReceive, RecordReceive, At
<1> QED BY <1>1, <1>2 DEF ShapeInv, Fits

(* .. one at a time. *)
LEMMA TransfersStep ==
    ASSUME ShapeInv, NEW w \in Workers, NEW D, NEW d \in Transfers, d \in D,
           \/ CreateTransfer(w, d)
           \/ \E op \in DOMAIN TransferFrom : LoadTransfer(w, op, d)
           \/ TransferStep(w) /\ job[w].doc = d
    PROVE  Step(w, D)
<1>1. CASE CreateTransfer(w, d)
  BY <1>1, CreateSteps DEF CreateTransfer, Transfers
<1>2. ASSUME NEW op \in DOMAIN TransferFrom, LoadTransfer(w, op, d) PROVE Step(w, D)
  <2>1. PICK key \in KeysOf[d][op] : Start(w, TransferJob(op, d, key))
    BY <1>2 DEF LoadTransfer
  <2> DEFINE j == TransferJob(op, d, key)
  <2>2. Belongs(op, d) /\ d \in Docs
    BY DEF TransferFrom, Transfers, Belongs
  <2>3. /\ DOMAIN j = JobFields /\ j.doc = d /\ j.op = op /\ j.lines = Lines(d)
    BY JobShape DEF TransferJob, JobFields
  <2>4. Start(w, j) /\ IsList(j.lines)
    BY <2>1, <2>2, <2>3, LinesAreLists
  <2> HIDE DEF j
  <2> QED BY <2>2, <2>3, <2>4, LoadSteps
<1>3. ASSUME TransferStep(w), job[w].doc = d PROVE Step(w, D)
  <2>1. pc[w] # "idle"
    BY <1>3, TransferJobs
  <2> DEFINE lines == job[w].lines
  <2>2. job[w].doc \in D /\ IsList(lines)
    BY <1>3, <2>1 DEF ShapeInv, Fits
  <2> HIDE DEF lines
  <2>3. CASE AdvanceTransfer(w)
    <3> DEFINE s == TransferTo[job[w].op]
    <3>1. Advance(w, s)
      BY <2>3 DEF AdvanceTransfer
    <3> HIDE DEF s
    <3> QED BY <2>1, <2>2, <3>1, AdvanceSteps
  <2>4. CASE EditTransfer(w)
    BY <2>2, <2>4, EditSteps DEF EditTransfer
  <2>5. CASE ValidateDispatch(w)
    <3>1. CASE Refuse(w)
      BY <2>1, <2>2, <3>1, RefuseSteps
    <3>2. CASE Goto(w, "validated") /\ UNCHANGED << movements, status, content >>
      <4> DEFINE validated == "validated"
      <4>1. /\ Goto(w, validated)
            /\ validated \notin {"idle", "linking", "withdrawing", "closing", "completing"}
        BY <3>2
      <4> HIDE DEF validated
      <4> QED BY <2>1, <2>2, <3>2, <4>1, OnwardSteps
    <3> QED BY <2>5, <3>1, <3>2 DEF ValidateDispatch, stockVars
  <2>6. CASE PostDispatch(w)
    <3> DEFINE l == OutLines(job[w].lines)
    <3>1. Take(w, l) /\ IsList(l)
      BY <2>2, <2>6, LineByLineLists DEF PostDispatch, lines
    <3> HIDE DEF l
    <3> QED BY <2>1, <2>2, <3>1, TakeSteps
  <2>7. CASE LookDispatch(w)
    <3> DEFINE fit == AtSource(job[w].lines)
    <3>1. Look(w, fit)
      BY <2>7 DEF LookDispatch
    <3> HIDE DEF fit
    <3> QED BY <2>2, <3>1, LookSteps
  <2>8. CASE RecordDispatch(w)
    <3> DEFINE s == "IN_TRANSIT"
    <3>1. Write(w, s) /\ Finish(w, "APPLIED") /\ UNCHANGED << movements, content >>
      BY <2>8 DEF RecordDispatch, stockVars
    <3> HIDE DEF s
    <3> QED BY <2>1, <2>2, <3>1, RecordSteps
  <2>9. CASE PostReceive(w)
    <3> DEFINE l == InLines(job[w].lines, job[w].qty)
               qty == job[w].qty
    <3>1. l = InLines(lines, qty) /\ Take(w, l)
      BY <2>9 DEF PostReceive, lines
    <3> HIDE DEF l, qty
    <3>2. IsList(l)
      BY <2>2, <3>1, ReceivedLists
    <3> QED BY <2>1, <2>2, <3>1, <3>2, TakeSteps
  <2>10. CASE LookReceive(w)
    <3> DEFINE fit == MayMove(UnitsOf(job[w].lines), "IN_TRANSIT", Grains)
    <3>1. Look(w, fit)
      BY <2>10 DEF LookReceive
    <3> HIDE DEF fit
    <3> QED BY <2>2, <3>1, LookSteps
  <2>11. CASE RecordReceive(w)
    <3> DEFINE s == "RECEIVED"
    <3>1. Write(w, s) /\ Finish(w, "APPLIED") /\ UNCHANGED << movements, content >>
      BY <2>11 DEF RecordReceive, stockVars
    <3> HIDE DEF s
    <3> QED BY <2>1, <2>2, <3>1, RecordSteps
  <2> QED BY <1>3, <2>3, <2>4, <2>5, <2>6, <2>7, <2>8, <2>9, <2>10, <2>11 DEF TransferStep
<1> QED BY <1>1, <1>2, <1>3

(* The service of receipts works on a receipt .. *)
LEMMA ReceiptJobs ==
    ASSUME ShapeInv, NEW w \in Workers, ReceiptStep(w)
    PROVE  pc[w] # "idle" /\ job[w].doc \in Receipts
BY DEF ReceiptStep, CancelReceipt, EditReceipt, Edit, PostReceipt, CloseReceipt, At

(* .. one at a time. *)
LEMMA ReceiptsStep ==
    ASSUME ShapeInv, NEW w \in Workers, NEW D, NEW d \in Receipts, d \in D,
           \/ CreateReceipt(w, d)
           \/ \E op \in {"edit", "cancel", "post"} : LoadReceipt(w, op, d)
           \/ ReceiptStep(w) /\ job[w].doc = d
    PROVE  Step(w, D)
<1>1. CASE CreateReceipt(w, d)
  BY <1>1, CreateSteps DEF CreateReceipt, Receipts
<1>2. ASSUME NEW op \in {"edit", "cancel", "post"}, LoadReceipt(w, op, d) PROVE Step(w, D)
  <2>1. PICK key \in KeysOf[d][op] : Start(w, [Job(op, d) EXCEPT !.key = key])
    BY <1>2 DEF LoadReceipt
  <2> DEFINE j == [Job(op, d) EXCEPT !.key = key]
  <2>2. Belongs(op, d) /\ d \in Docs
    BY DEF Receipts, Belongs
  <2>3. /\ DOMAIN j = JobFields /\ j.doc = d /\ j.op = op /\ j.lines = Lines(d)
    BY JobShape DEF JobFields
  <2>4. Start(w, j) /\ IsList(j.lines)
    BY <2>1, <2>2, <2>3, LinesAreLists
  <2> HIDE DEF j
  <2> QED BY <2>2, <2>3, <2>4, LoadSteps
<1>3. ASSUME ReceiptStep(w), job[w].doc = d PROVE Step(w, D)
  <2>1. pc[w] # "idle"
    BY <1>3, ReceiptJobs
  <2> DEFINE lines == job[w].lines
  <2>2. job[w].doc \in D /\ IsList(lines)
    BY <1>3, <2>1 DEF ShapeInv, Fits
  <2> HIDE DEF lines
  <2>3. CASE CancelReceipt(w)
    <3> DEFINE s == "CANCELLED"
    <3>1. Advance(w, s)
      BY <2>3 DEF CancelReceipt
    <3> HIDE DEF s
    <3> QED BY <2>1, <2>2, <3>1, AdvanceSteps
  <2>4. CASE EditReceipt(w)
    BY <2>2, <2>4, EditSteps DEF EditReceipt
  <2>5. CASE PostReceipt(w)
    <3> DEFINE l == ReceiptLines(job[w].lines)
               fit == Unregistered(UnitsOf(job[w].lines))
    <3>1. Enter(w, l, fit)
      BY <2>5 DEF PostReceipt
    <3> HIDE DEF l, fit
    <3> QED BY <2>1, <2>2, <3>1, EnterSteps
  <2>6. CASE CloseReceipt(w)
    <3> DEFINE s == ReceiptStatus(job[w].lines)
               l == ReceiptLines(lines)
               o == "APPLIED"
    <3>1. /\ Post(CommandOf(job[w], l), job[w].doc) /\ Write(w, s) /\ Finish(w, o)
          /\ UNCHANGED content
      BY <2>6 DEF CloseReceipt, lines
    <3>2. IsList(l)
      BY <2>2, ReceivedLists
    <3> HIDE DEF s, l, o
    <3>3. StatusStep(D) /\ ContentStep(D) /\ LedgerStep(D)
      BY <2>1, <2>2, <3>1, <3>2, CloseSteps
    <3>4. WorkerStep(w, D)
      BY <2>1, <2>2, <3>1, FinishSteps
    <3> QED BY <2>2, <3>3, <3>4 DEF Step
  <2> QED BY <1>3, <2>3, <2>4, <2>5, <2>6 DEF ReceiptStep
<1> QED BY <1>1, <1>2, <1>3

(* The service of adjustments works on an adjustment .. *)
LEMMA AdjustmentJobs ==
    ASSUME ShapeInv, NEW w \in Workers, AdjustmentStep(w)
    PROVE  pc[w] # "idle" /\ job[w].doc \in Adjustments
BY DEF AdjustmentStep, SubmitAdjustment, ApproveAdjustment, EndAdjustment, EditAdjustment, Edit,
       PostAdjustment, CloseAdjustment, At

(* .. one at a time. *)
LEMMA AdjustmentsStep ==
    ASSUME ShapeInv, NEW w \in Workers, NEW D, NEW d \in Adjustments, d \in D,
           \/ CreateAdjustment(w, d)
           \/ \E op \in DOMAIN AdjustmentFrom, by \in Users \cup {NoDoc} : LoadAdjustment(w, op, d, by)
           \/ AdjustmentStep(w) /\ job[w].doc = d
    PROVE  Step(w, D)
<1>1. CASE CreateAdjustment(w, d)
  BY <1>1, CreateSteps DEF CreateAdjustment, Adjustments
<1>2. ASSUME NEW op \in DOMAIN AdjustmentFrom, NEW by \in Users \cup {NoDoc},
             LoadAdjustment(w, op, d, by)
      PROVE  Step(w, D)
  <2>1. PICK key \in KeysOf[d][op] :
            Start(w, [Job(op, d) EXCEPT !.by = by, !.next = AdjustmentTo(op, d), !.key = key])
    BY <1>2 DEF LoadAdjustment
  <2> DEFINE j == [Job(op, d) EXCEPT !.by = by, !.next = AdjustmentTo(op, d), !.key = key]
  <2>2. Belongs(op, d) /\ d \in Docs
    BY DEF AdjustmentFrom, Adjustments, Belongs
  <2>3. /\ DOMAIN j = JobFields /\ j.doc = d /\ j.op = op /\ j.lines = Lines(d)
    BY JobShape DEF JobFields
  <2>4. Start(w, j) /\ IsList(j.lines)
    BY <2>1, <2>2, <2>3, LinesAreLists
  <2> HIDE DEF j
  <2> QED BY <2>2, <2>3, <2>4, LoadSteps
<1>3. ASSUME AdjustmentStep(w), job[w].doc = d PROVE Step(w, D)
  <2>1. pc[w] # "idle"
    BY <1>3, AdjustmentJobs
  <2> DEFINE lines == job[w].lines
  <2>2. job[w].doc \in D /\ IsList(lines)
    BY <1>3, <2>1 DEF ShapeInv, Fits
  <2> HIDE DEF lines
  <2>3. CASE SubmitAdjustment(w) \/ ApproveAdjustment(w) \/ EndAdjustment(w)
    <3> DEFINE s == job[w].next
    <3>1. Advance(w, s)
      BY <2>3 DEF SubmitAdjustment, ApproveAdjustment, EndAdjustment
    <3> HIDE DEF s
    <3> QED BY <2>1, <2>2, <3>1, AdvanceSteps
  <2>4. CASE EditAdjustment(w)
    BY <2>2, <2>4, EditSteps DEF EditAdjustment
  <2>5. CASE PostAdjustment(w)
    <3> DEFINE l == AdjustmentLines(job[w].lines)
               fit == UnitsAdjustable(job[w].lines)
    <3>1. Enter(w, l, fit)
      BY <2>5 DEF PostAdjustment
    <3> HIDE DEF l, fit
    <3> QED BY <2>1, <2>2, <3>1, EnterSteps
  <2>6. CASE CloseAdjustment(w)
    <3> DEFINE s == "POSTED"
               l == AdjustmentLines(lines)
               o == "APPLIED"
    <3>1. /\ Post(CommandOf(job[w], l), job[w].doc) /\ Write(w, s) /\ Finish(w, o)
          /\ UNCHANGED content
      BY <2>6 DEF CloseAdjustment, lines
    <3>2. IsList(l)
      BY <2>2, LineByLineLists
    <3> HIDE DEF s, l, o
    <3>3. StatusStep(D) /\ ContentStep(D) /\ LedgerStep(D)
      BY <2>1, <2>2, <3>1, <3>2, CloseSteps
    <3>4. WorkerStep(w, D)
      BY <2>1, <2>2, <3>1, FinishSteps
    <3> QED BY <2>2, <3>3, <3>4 DEF Step
  <2> QED BY <1>3, <2>3, <2>4, <2>5, <2>6 DEF AdjustmentStep
<1> QED BY <1>1, <1>2, <1>3

(* The service of returns works on a return .. *)
LEMMA ReturnJobs ==
    ASSUME ShapeInv, NEW w \in Workers, ReturnStep(w)
    PROVE  pc[w] # "idle" /\ job[w].doc \in Returns
<1>1. pc[w] # "idle" /\ (job[w].op \in {"intake", "dispose"} \/ job[w].doc \in Returns)
  BY DEF ReturnStep, PostIntake, LookIntake, RecordIntake, CancelReturn, PostDisposal, CloseDisposal, At
<1> QED BY <1>1 DEF ShapeInv, Fits

(* .. one at a time. *)
LEMMA ReturnsStep ==
    ASSUME ShapeInv, NEW w \in Workers, NEW D, NEW d \in Returns, d \in D,
           \/ CreateReturn(w, d)
           \/ LoadIntake(w, d)
           \/ LoadCancel(w, d)
           \/ \E a \in Disposals, key \in KeysOf[d]["dispose"] :
                 LoadDispose(w, d, a.line, a.outcome, a.qty, a.units, key)
           \/ ReturnStep(w) /\ job[w].doc = d
    PROVE  Step(w, D)
<1>1. CASE CreateReturn(w, d)
  BY <1>1, CreateSteps DEF CreateReturn, Returns
<1>2. CASE LoadIntake(w, d)
  <2>1. PICK qty \in Overrides[d], key \in KeysOf[d]["intake"] :
            Start(w, [Job("intake", d) EXCEPT !.key = key, !.qty = qty])
    BY <1>2 DEF LoadIntake
  <2> DEFINE op == "intake"
             j == [Job(op, d) EXCEPT !.key = key, !.qty = qty]
  <2>2. Belongs(op, d) /\ d \in Docs
    BY DEF Returns, Belongs
  <2>3. /\ DOMAIN j = JobFields /\ j.doc = d /\ j.op = op /\ j.lines = Lines(d)
    BY JobShape DEF JobFields
  <2>4. Start(w, j) /\ IsList(j.lines)
    BY <2>1, <2>2, <2>3, LinesAreLists
  <2> HIDE DEF j, op
  <2> QED BY <2>2, <2>3, <2>4, LoadSteps
<1>3. CASE LoadCancel(w, d)
  <2> DEFINE op == "cancel"
             j == Job(op, d)
  <2>1. Belongs(op, d) /\ d \in Docs
    BY DEF Returns, Belongs
  <2>2. /\ DOMAIN j = JobFields /\ j.doc = d /\ j.op = op /\ j.lines = Lines(d)
    BY JobShape
  <2>3. Start(w, j) /\ IsList(j.lines)
    BY <1>3, <2>1, <2>2, LinesAreLists DEF LoadCancel
  <2> HIDE DEF j, op
  <2> QED BY <2>1, <2>2, <2>3, LoadSteps
<1>4. ASSUME NEW a \in Disposals, NEW key \in KeysOf[d]["dispose"],
             LoadDispose(w, d, a.line, a.outcome, a.qty, a.units, key)
      PROVE  Step(w, D)
  <2> DEFINE op == "dispose"
             j == [Job(op, d) EXCEPT !.key = key, !.next = a.outcome, !.line = a.line, !.qty = << a.qty >>,
                                     !.units = a.units]
  <2>1. Belongs(op, d) /\ d \in Docs
    BY DEF Returns, Belongs
  <2>2. /\ DOMAIN j = JobFields /\ j.doc = d /\ j.op = op /\ j.lines = Lines(d)
    BY JobShape DEF JobFields
  <2>3. Start(w, j) /\ IsList(j.lines)
    BY <1>4, <2>1, <2>2, LinesAreLists DEF LoadDispose
  <2> HIDE DEF j, op
  <2> QED BY <2>1, <2>2, <2>3, LoadSteps
<1>5. ASSUME ReturnStep(w), job[w].doc = d PROVE Step(w, D)
  <2>1. pc[w] # "idle"
    BY <1>5, ReturnJobs
  <2> DEFINE lines == job[w].lines
  <2>2. job[w].doc \in D /\ IsList(lines)
    BY <1>5, <2>1 DEF ShapeInv, Fits
  <2> HIDE DEF lines
  <2>3. CASE PostIntake(w)
    <3> DEFINE l == IntakeLines(job[w].lines, job[w].qty)
               qty == job[w].qty
    <3>1. l = IntakeLines(lines, qty) /\ Take(w, l)
      BY <2>3 DEF PostIntake, lines
    <3> HIDE DEF l, qty
    <3>2. IsList(l)
      BY <2>2, <3>1, ReceivedLists
    <3> QED BY <2>1, <2>2, <3>1, <3>2, TakeSteps
  <2>4. CASE LookIntake(w)
    <3> DEFINE fit == \A i \in DOMAIN job[w].lines :
                          job[w].qty[i] > 0 => MayMove(job[w].lines[i].units, "ISSUED", Grains \cup {Nowhere})
    <3>1. Look(w, fit)
      BY <2>4 DEF LookIntake
    <3> HIDE DEF fit
    <3> QED BY <2>2, <3>1, LookSteps
  <2>5. CASE RecordIntake(w)
    <3> DEFINE s == "RECEIVED"
    <3>1. Write(w, s) /\ Finish(w, "APPLIED") /\ UNCHANGED << movements, content >>
      BY <2>5 DEF RecordIntake, stockVars
    <3> HIDE DEF s
    <3> QED BY <2>1, <2>2, <3>1, RecordSteps
  <2>6. CASE CancelReturn(w)
    <3> DEFINE s == "CANCELLED"
    <3>1. Advance(w, s)
      BY <2>6 DEF CancelReturn
    <3> HIDE DEF s
    <3> QED BY <2>1, <2>2, <3>1, AdvanceSteps
  <2>7. CASE PostDisposal(w)
    <3> DEFINE l == DisposalLines(job[w])
               fit == /\ job[w].qty[1] <= LeftOf(job[w].doc, job[w].line)
                      /\ MayMove(job[w].units, "QUARANTINED", Grains)
    <3>1. Enter(w, l, fit)
      BY <2>7 DEF PostDisposal
    <3> HIDE DEF l, fit
    <3> QED BY <2>1, <2>2, <3>1, EnterSteps
  <2>8. CASE CloseDisposal(w)
    <3> DEFINE j == job[w]
               s == RolledUp(j.doc, [disposedQty[j.doc] EXCEPT ![j.line] = @ + j.qty[1]])
               l == DisposalLines(j)
               o == "APPLIED"
    <3>1. /\ Post(CommandOf(job[w], l), job[w].doc) /\ Write(w, s) /\ Finish(w, o)
          /\ UNCHANGED content
      BY <2>8 DEF CloseDisposal
    <3>2. IsList(l)
      <4> HIDE DEF j
      <4> QED BY DisposedList
    <3> HIDE DEF s, l, o, j
    <3>3. StatusStep(D) /\ ContentStep(D) /\ LedgerStep(D)
      BY <2>1, <2>2, <3>1, <3>2, CloseSteps
    <3>4. WorkerStep(w, D)
      BY <2>1, <2>2, <3>1, FinishSteps
    <3> QED BY <2>2, <3>3, <3>4 DEF Step
  <2> QED BY <1>5, <2>3, <2>4, <2>5, <2>6, <2>7, <2>8 DEF ReturnStep
<1> QED BY <1>1, <1>2, <1>3, <1>4, <1>5

(* Counts and the tasks that they are for. *)
Counting == Counts \cup Tasks

(* A task is assigned, started, cancelled or refused to be. *)
LEMMA WriteTaskSteps ==
    ASSUME ShapeInv, NEW w \in Workers, pc[w] # "idle", NEW D, job[w].doc \in D, NEW s, WriteTask(w, s)
    PROVE  Step(w, D)
<1>1. Refuse(w) \/ Advance(w, s)
  BY DEF WriteTask
<1> QED BY <1>1, RefuseSteps, AdvanceSteps

(* The services of counts and of tasks work on these .. *)
LEMMA CountsAsked ==
    ASSUME ShapeInv, NEW w \in Workers,
           \/ \E d \in Counts : CreateCount(w, d) \/ \E op \in DOMAIN CountFrom : LoadCount(w, op, d)
           \/ \E d \in Tasks : CreateTask(w, d) \/ \E op \in DOMAIN TaskFrom : LoadTask(w, op, d)
    PROVE  Step(w, Counting)
<1>1. ASSUME NEW d \in Counting, NEW s, pc[w] = "idle", status' = [status EXCEPT ![d] = s],
             UNCHANGED << movements, content, pc, job >>
      PROVE  Step(w, Counting)
  <2>1. StatusStep(Counting)
    BY <1>1 DEF ShapeInv, StatusStep
  <2>2. WorkerStep(w, Counting)
    BY <1>1 DEF ShapeInv, WorkerStep
  <2> QED BY <1>1, <2>1, <2>2, NothingSteps DEF Step
<1>2. ASSUME NEW d \in Counts, CreateCount(w, d) PROVE Step(w, Counting)
  BY <1>1, <1>2 DEF CreateCount, Open, Counting, stockVars, workVars
<1>3. ASSUME NEW d \in Tasks, CreateTask(w, d) PROVE Step(w, Counting)
  BY <1>1, <1>3 DEF CreateTask, Counting, stockVars, workVars
<1>4. ASSUME NEW d \in Counts, NEW op \in DOMAIN CountFrom, LoadCount(w, op, d)
      PROVE  Step(w, Counting)
  <2>1. PICK key \in KeysOf[d][op] :
            Start(w, [Job(op, d) EXCEPT !.key = IF Variance(d) = << >> THEN NoKey ELSE key,
                                        !.lines = Variance(d), !.units = UnitsOf(Variance(d))])
    BY <1>4 DEF LoadCount
  <2> DEFINE lines == Variance(d)
             key0 == IF lines = << >> THEN NoKey ELSE key
             units0 == UnitsOf(lines)
             j == [Job(op, d) EXCEPT !.key = key0, !.lines = lines, !.units = units0]
  <2>2. Belongs(op, d) /\ d \in Docs /\ d \in Counting
    BY DEF CountFrom, Counts, Belongs, Counting
  <2>3. IsList(lines) /\ Start(w, j)
    BY <2>1, <2>2, LinesAreLists, VarianceList
  <2> HIDE DEF lines, key0, units0
  <2>4. /\ DOMAIN j = JobFields /\ j.doc = d /\ j.op = op /\ j.lines = lines
    BY JobShape DEF JobFields
  <2> HIDE DEF j
  <2> QED BY <2>2, <2>3, <2>4, LoadSteps
<1>5. ASSUME NEW d \in Tasks, NEW op \in DOMAIN TaskFrom, LoadTask(w, op, d)
      PROVE  Step(w, Counting)
  <2> DEFINE next == IF op = "cancel" /\ d \in linked /\ status[CountOf[d]] # "CANCELLED"
                     THEN "count" ELSE "task"
             j == [Job(op, d) EXCEPT !.next = next]
  <2>1. Belongs(op, d) /\ d \in Docs /\ d \in Counting
    BY DEF TaskFrom, Tasks, Belongs, Counting
  <2>2. Start(w, j)
    BY <1>5 DEF LoadTask
  <2> HIDE DEF next
  <2>3. /\ DOMAIN j = JobFields /\ j.doc = d /\ j.op = op /\ j.lines = Lines(d)
    BY JobShape DEF JobFields
  <2>4. IsList(j.lines)
    BY <2>1, <2>3, LinesAreLists
  <2> HIDE DEF j
  <2> QED BY <2>1, <2>2, <2>3, <2>4, LoadSteps
<1> QED BY <1>2, <1>3, <1>4, <1>5

(* .. also while they are at it. *)
LEMMA CountsHandled ==
    ASSUME ShapeInv, NEW w \in Workers, CountStep(w) \/ TaskStep(w)
    PROVE  Step(w, Counting)
<1>1. pc[w] # "idle"
  BY DEF CountStep, EnterCounts, AdvanceCount, PostCount, CloseCount, TaskStep, AssignTask, StartCount,
         LinkCount, Recount, CompleteTask, CancelTask, WithdrawCount, CloseTask, At
<1>2. Fits(job[w], pc[w])
  BY <1>1 DEF ShapeInv
<1>3. job[w].doc \in Counting
  <2>1. CASE CountStep(w)
    BY <2>1 DEF CountStep, EnterCounts, AdvanceCount, PostCount, CloseCount, Counting
  <2>2. CASE TaskStep(w)
    <3>1. CASE CompleteTask(w)
      <4>1. job[w].doc \in CycleCounts
        BY <1>2, <3>1 DEF CompleteTask, Fits
      <4> QED BY <4>1, CountsAssumption DEF Counting
    <3>2. CASE CancelTask(w)
      BY <3>2 DEF CancelTask, Counting
    <3>3. CASE AssignTask(w) \/ StartCount(w) \/ LinkCount(w) \/ Recount(w)
      BY <1>2, <3>3 DEF AssignTask, StartCount, LinkCount, Recount, At, Fits, Counting
    <3>4. CASE WithdrawCount(w) \/ CloseTask(w)
      BY <1>2, <3>4 DEF WithdrawCount, CloseTask, Fits, Counting
    <3> QED BY <2>2, <3>1, <3>2, <3>3, <3>4 DEF TaskStep
  <2> QED BY <2>1, <2>2
<1> DEFINE D == Counting
           lines == job[w].lines
<1>4. D = Counting /\ job[w].doc \in D /\ IsList(lines)
  BY <1>2, <1>3 DEF Fits
<1>5. \A k \in Tasks : k \in D /\ CountOf[k] \in D
  BY CountsAssumption DEF Counting
<1> HIDE DEF D, lines
<1>6. CASE EnterCounts(w)
  <2> DEFINE o == "APPLIED"
  <2>1. Finish(w, o) /\ UNCHANGED << movements, status, content >>
    BY <1>6 DEF EnterCounts, stockVars
  <2> HIDE DEF o
  <2>2. WorkerStep(w, D)
    BY <1>1, <1>4, <2>1, FinishSteps
  <2> QED BY <1>4, <2>1, <2>2, NothingSteps DEF Step
<1>7. CASE AdvanceCount(w)
  <2> DEFINE s == CountTo[job[w].op]
  <2>1. Advance(w, s)
    BY <1>7 DEF AdvanceCount
  <2> HIDE DEF s
  <2> QED BY <1>1, <1>4, <2>1, AdvanceSteps
<1>8. CASE PostCount(w)
  <2> DEFINE l == AdjustmentLines(job[w].lines)
             fit == UnitsAdjustable(job[w].lines)
  <2>1. Enter(w, l, fit)
    BY <1>8 DEF PostCount
  <2> HIDE DEF l, fit
  <2> QED BY <1>1, <1>4, <2>1, EnterSteps
<1>9. CASE CloseCount(w)
  <2> DEFINE s == "POSTED"
             l == AdjustmentLines(lines)
             o == "APPLIED"
             completing == "completing"
  <2>1. /\ Post(CommandOf(job[w], l), job[w].doc) /\ Write(w, s)
        /\ IF job[w].doc \in CycleCounts THEN Goto(w, completing) ELSE Finish(w, o)
        /\ UNCHANGED content
    BY <1>9 DEF CloseCount, lines
  <2>2. IsList(l)
    BY <1>4, LineByLineLists
  <2>3. completing \notin {"idle", "linking", "withdrawing", "closing"}
    OBVIOUS
  <2> HIDE DEF s, l, o, completing
  <2>4. StatusStep(D) /\ ContentStep(D) /\ LedgerStep(D)
    BY <1>1, <1>4, <2>1, <2>2, CloseSteps
  <2>5. WorkerStep(w, D)
    <3>1. CASE job[w].doc \in CycleCounts
      BY <1>1, <1>4, <2>1, <2>3, <3>1, GotoSteps
    <3>2. CASE job[w].doc \notin CycleCounts
      BY <1>1, <1>4, <2>1, <3>2, FinishSteps
    <3> QED BY <3>1, <3>2
  <2> QED BY <1>4, <2>4, <2>5 DEF Step
<1>10. CASE AssignTask(w) \/ LinkCount(w) \/ CloseTask(w)
  <2>1. PICK t \in {"ASSIGNED", "IN_PROGRESS", "CANCELLED"} : WriteTask(w, t)
    BY <1>10 DEF AssignTask, LinkCount, CloseTask
  <2> QED BY <1>1, <1>4, <2>1, WriteTaskSteps
<1>11. CASE StartCount(w)
  <2> DEFINE k == job[w].doc
             c == CountOf[k]
             linking == "linking"
             s == "IN_PROGRESS"
  <2>1. k \in Tasks
    BY <1>2, <1>11 DEF StartCount, At, Fits
  <2>2. CASE Open(c) /\ Goto(w, "linking") /\ UNCHANGED << movements, content >>
    <3>1. Goto(w, linking) /\ linking # "idle" /\ linking # "completing"
      BY <2>2
    <3> HIDE DEF linking
    <3>2. WorkerStep(w, D)
      BY <1>1, <1>4, <2>1, <3>1, GotoSteps
    <3>3. StatusStep(D)
      BY <1>5, <2>1, <2>2 DEF Open, StatusStep, ShapeInv
    <3> QED BY <1>4, <2>2, <3>2, <3>3, NothingSteps DEF Step
  <2>3. CASE WriteTask(w, s)
    <3> HIDE DEF s
    <3> QED BY <1>1, <1>4, <2>3, WriteTaskSteps
  <2>4. CASE Refuse(w)
    BY <1>1, <1>4, <2>4, RefuseSteps
  <2> QED BY <1>11, <2>2, <2>3, <2>4 DEF StartCount, stockVars
<1>12. CASE Recount(w)
  <2>1. pc[w] = "loaded"
    BY <1>12 DEF Recount, At
  <2>2. CASE Refuse(w)
    BY <1>1, <1>4, <2>2, RefuseSteps
  <2>3. ASSUME NEW k \in Tasks, status' = [status EXCEPT ![k] = "PENDING"],
               job' = [job EXCEPT ![w] = Job("start", k)],
               UNCHANGED << movements, content, pc >>
        PROVE  Step(w, D)
    <3> DEFINE j == Job("start", k)
               op == "start"
    <3>1. DOMAIN j = JobFields /\ j.doc = k /\ j.op = op /\ j.lines = Lines(k)
      BY JobShape
    <3>2. k \in Docs /\ IsList(Lines(k))
      BY LinesAreLists DEF Tasks
    <3>3. j.doc \in D /\ Fits(j, "loaded")
      BY <1>5, <3>1, <3>2 DEF Fits
    <3>4. job' = [job EXCEPT ![w] = j]
      BY <2>3
    <3> HIDE DEF j
    <3>5. WorkerStep(w, D)
      BY <1>4, <2>1, <2>3, <3>3, <3>4 DEF WorkerStep, ShapeInv
    <3>6. StatusStep(D)
      BY <1>5, <2>3 DEF StatusStep, ShapeInv
    <3> QED BY <2>3, <3>5, <3>6, NothingSteps DEF Step
  <2> QED BY <1>4, <1>12, <2>2, <2>3 DEF Recount, stockVars
<1>13. CASE CompleteTask(w)
  <2> DEFINE k == CHOOSE l \in Tasks : CountOf[l] = job[w].doc
             o == "APPLIED"
  <2>1. job[w].doc \in CycleCounts
    BY <1>2, <1>13 DEF CompleteTask, Fits
  <2>2. k \in Tasks
    BY <2>1, CountsAssumption
  <2>3. status' = [status EXCEPT ![k] = "COMPLETED"] /\ Finish(w, o) /\ UNCHANGED << movements, content >>
    BY <1>13 DEF CompleteTask, stockVars
  <2> HIDE DEF k, o
  <2>4. WorkerStep(w, D)
    BY <1>1, <1>4, <2>3, FinishSteps
  <2>5. StatusStep(D)
    BY <1>5, <2>2, <2>3 DEF StatusStep, ShapeInv
  <2> QED BY <1>4, <2>3, <2>4, <2>5, NothingSteps DEF Step
<1>14. CASE CancelTask(w)
  <2> DEFINE s == "CANCELLED"
             withdrawing == "withdrawing"
  <2>1. CASE WriteTask(w, s)
    <3> HIDE DEF s
    <3> QED BY <1>1, <1>4, <2>1, WriteTaskSteps
  <2>2. CASE Refuse(w)
    BY <1>1, <1>4, <2>2, RefuseSteps
  <2>3. CASE Goto(w, withdrawing) /\ UNCHANGED << movements, status, content >>
    <3>1. job[w].doc \in Tasks /\ withdrawing # "idle" /\ withdrawing # "completing"
      BY <1>14 DEF CancelTask
    <3> HIDE DEF withdrawing
    <3>2. WorkerStep(w, D)
      BY <1>1, <1>4, <2>3, <3>1, GotoSteps
    <3> QED BY <1>4, <2>3, <3>2, NothingSteps DEF Step
  <2> QED BY <1>4, <1>14, <2>1, <2>2, <2>3 DEF CancelTask, stockVars
<1>15. CASE WithdrawCount(w)
  <2> DEFINE closing == "closing"
             c == CountOf[job[w].doc]
  <2>1. job[w].doc \in Tasks
    BY <1>2, <1>15 DEF WithdrawCount, Fits
  <2>2. /\ status' = [status EXCEPT ![c] = "CANCELLED"] /\ Goto(w, closing)
        /\ UNCHANGED << movements, content >>
    BY <1>15 DEF WithdrawCount, stockVars
  <2>3. closing # "idle" /\ closing # "completing" /\ c \in D
    BY <1>5, <2>1
  <2> HIDE DEF closing, c
  <2>4. WorkerStep(w, D)
    BY <1>1, <1>4, <2>1, <2>2, <2>3, GotoSteps
  <2>5. StatusStep(D)
    BY <2>2, <2>3 DEF StatusStep, ShapeInv
  <2> QED BY <1>4, <2>2, <2>4, <2>5, NothingSteps DEF Step
<1> QED BY <1>4, <1>6, <1>7, <1>8, <1>9, <1>10, <1>11, <1>12, <1>13, <1>14, <1>15 DEF CountStep, TaskStep

-----------------------------------------------------------------------------
(* Every step is one of a worker *)

(* What becomes of adjustment a. *)
AdjustmentAction(w, a) ==
    \/ CreateAdjustment(w, a)
    \/ \E op \in DOMAIN AdjustmentFrom, by \in Users \cup {NoDoc} : LoadAdjustment(w, op, a, by)
    \/ AdjustmentStep(w) /\ job[w].doc = a
    \/ Fail(w) /\ job[w].doc = a /\ UNCHANGED adjustmentVars

(* It is a step for a alone. *)
LEMMA AdjustmentActionSteps ==
    ASSUME ShapeInv, NEW w \in Workers, NEW a \in Adjustments, AdjustmentAction(w, a)
    PROVE  Step(w, {a})
<1> DEFINE D == {a}
<1>1. a \in D /\ D = {a}
  OBVIOUS
<1> HIDE DEF D
<1>2. CASE Fail(w) /\ job[w].doc = a
  BY <1>1, <1>2, FailSteps
<1>3. CASE ~(Fail(w) /\ job[w].doc = a)
  BY <1>1, <1>3, AdjustmentsStep DEF AdjustmentAction
<1> QED BY <1>1, <1>2, <1>3

(* Every step is that of a worker for an adjustment, or for documents of     *)
(* another kind and without a word of who has approved what.                 *)
LEMMA WhoSteps ==
    ASSUME ShapeInv, WarehouseNext
    PROVE  \/ UNCHANGED vars
           \/ \E w \in Workers :
                 \/ \E a \in Adjustments : AdjustmentAction(w, a)
                 \/ UNCHANGED adjustmentVars /\ \E D \in SUBSET (Docs \ Adjustments) : Step(w, D)
<1>0. /\ Counting \in SUBSET (Docs \ Adjustments)
      /\ \A d \in Transfers \cup Receipts \cup Returns : {d} \in SUBSET (Docs \ Adjustments)
  BY DEF Counting, Counts, Tasks, Transfers, Receipts, Returns, Adjustments
<1> DEFINE Other(w) == UNCHANGED adjustmentVars /\ \E D \in SUBSET (Docs \ Adjustments) : Step(w, D)
           Own(w) == \E a \in Adjustments : AdjustmentAction(w, a)
<1>1. ASSUME NEW w \in Workers, Ask(w) PROVE Own(w) \/ Other(w)
  <2>1. ASSUME NEW d \in Transfers, UNCHANGED adjustmentVars,
               CreateTransfer(w, d) \/ \E op \in DOMAIN TransferFrom : LoadTransfer(w, op, d)
        PROVE  Other(w)
    BY <1>0, <2>1, TransfersStep
  <2>2. ASSUME NEW d \in Receipts, UNCHANGED adjustmentVars,
               CreateReceipt(w, d) \/ \E op \in {"edit", "cancel", "post"} : LoadReceipt(w, op, d)
        PROVE  Other(w)
    BY <1>0, <2>2, ReceiptsStep
  <2>3. ASSUME NEW d \in Adjustments,
               \/ CreateAdjustment(w, d)
               \/ \E op \in DOMAIN AdjustmentFrom, by \in Users \cup {NoDoc} : LoadAdjustment(w, op, d, by)
        PROVE  Own(w)
    BY <2>3 DEF AdjustmentAction
  <2>4. ASSUME NEW d \in Returns, UNCHANGED adjustmentVars,
               \/ CreateReturn(w, d)
               \/ LoadIntake(w, d)
               \/ LoadCancel(w, d)
               \/ \E a \in Disposals, key \in KeysOf[d]["dispose"] :
                     LoadDispose(w, d, a.line, a.outcome, a.qty, a.units, key)
        PROVE  Other(w)
    BY <1>0, <2>4, ReturnsStep
  <2>5. ASSUME UNCHANGED adjustmentVars,
               \/ \E d \in Counts : CreateCount(w, d) \/ \E op \in DOMAIN CountFrom : LoadCount(w, op, d)
               \/ \E d \in Tasks : CreateTask(w, d) \/ \E op \in DOMAIN TaskFrom : LoadTask(w, op, d)
        PROVE  Other(w)
    BY <1>0, <2>5, CountsAsked
  <2> HIDE DEF Other, Own
  <2> QED BY <1>1, <2>1, <2>2, <2>3, <2>4, <2>5 DEF Ask
<1>2. ASSUME NEW w \in Workers, Handle(w) PROVE Own(w) \/ Other(w)
  <2> DEFINE d == job[w].doc
  <2>1. ASSUME TransferStep(w), UNCHANGED adjustmentVars PROVE Other(w)
    <3>1. d \in Transfers /\ job[w].doc = d
      BY <2>1, TransferJobs
    <3> HIDE DEF d
    <3> QED BY <1>0, <2>1, <3>1, TransfersStep
  <2>2. ASSUME ReceiptStep(w), UNCHANGED adjustmentVars PROVE Other(w)
    <3>1. d \in Receipts /\ job[w].doc = d
      BY <2>2, ReceiptJobs
    <3> HIDE DEF d
    <3> QED BY <1>0, <2>2, <3>1, ReceiptsStep
  <2>3. ASSUME AdjustmentStep(w) PROVE Own(w)
    BY <2>3, AdjustmentJobs DEF AdjustmentAction
  <2>4. ASSUME ReturnStep(w), UNCHANGED adjustmentVars PROVE Other(w)
    <3>1. d \in Returns /\ job[w].doc = d
      BY <2>4, ReturnJobs
    <3> HIDE DEF d
    <3> QED BY <1>0, <2>4, <3>1, ReturnsStep
  <2>5. ASSUME CountStep(w) \/ TaskStep(w), UNCHANGED adjustmentVars PROVE Other(w)
    BY <1>0, <2>5, CountsHandled
  <2> HIDE DEF Other, Own
  <2> QED BY <1>2, <2>1, <2>2, <2>3, <2>4, <2>5 DEF Handle
<1>3. ASSUME NEW w \in Workers, Fail(w), UNCHANGED adjustmentVars PROVE Own(w) \/ Other(w)
  <2> DEFINE d == job[w].doc
  <2>1. d \in Docs /\ job[w].doc \in {d}
    BY <1>3 DEF Fail, ShapeInv, Fits
  <2>2. CASE d \in Adjustments
    BY <1>3, <2>2 DEF AdjustmentAction
  <2>3. CASE d \notin Adjustments
    <3>1. {d} \in SUBSET (Docs \ Adjustments)
      BY <2>1, <2>3
    <3> HIDE DEF d
    <3> QED BY <1>3, <2>1, <3>1, FailSteps
  <2> QED BY <2>2, <2>3
<1>4. WarehouseNext => \/ UNCHANGED vars
                       \/ \E w \in Workers : Ask(w) \/ Handle(w) \/ (Fail(w) /\ UNCHANGED adjustmentVars)
  BY DEF WarehouseNext, Quiet, docVars
<1> HIDE DEF Other, Own
<1>5. UNCHANGED vars \/ \E w \in Workers : Own(w) \/ Other(w)
  BY <1>1, <1>2, <1>3, <1>4
<1> QED BY <1>5 DEF Other, Own

(* A worker's step keeps the shape. *)
LEMMA StepKeepsShape ==
    ASSUME ShapeInv, NEW w \in Workers, NEW D, Step(w, D)
    PROVE  ShapeInv'
BY DEF ShapeInv, Step, StatusStep, ContentStep, LedgerStep, WorkerStep, Idle, Fits

-----------------------------------------------------------------------------
(* Who has approved *)

(* Stock has moved for adjustment a. *)
StockMovedFor(a) == \E i \in 1 .. Len(movements) : movements[i].ref = a

(* Two different people have approved it. *)
ApprovedByTwo(a) == \E u, v \in approvedBy[a] : u # v

Unsubmitted == {"NONE", "DRAFT"}

Handling(w, a, op) == pc[w] = "loaded" /\ job[w].doc = a /\ job[w].op = op
Moving(w, a) == pc[w] = "posting" /\ job[w].doc = a

(* What a request has loaded and decided on still holds where it matters:    *)
(* the adjustment is submitted by one request and before all others; a first *)
(* approval does not make an adjustment that wants two APPROVED; a second    *)
(* one comes from somebody who has not given the first; and by the time that *)
(* it is posted both have been given.                                        *)
RequestInv(w, a) ==
    /\ Handling(w, a, "submit") =>
          /\ status[a] = "DRAFT" /\ job[w].next = "SUBMITTED"
          /\ \A v \in Workers \ {w} : job[v].doc # a
    /\ Handling(w, a, "approve") =>
          /\ status[a] \notin Unsubmitted
          /\ job[w].next \in {"PENDING_SECOND_APPROVAL", "APPROVED"}
          /\ a \in needsSecond => job[w].next = "PENDING_SECOND_APPROVAL"
    /\ Handling(w, a, "secondApprove") =>
          /\ status[a] \notin Unsubmitted /\ job[w].next = "APPROVED"
          /\ a \in needsSecond => \E u \in approvedBy[a] : u # job[w].by
    /\ Handling(w, a, "reject") => job[w].next = "REJECTED"
    /\ Handling(w, a, "cancel") => job[w].next = "CANCELLED"
    /\ Handling(w, a, "post") \/ Moving(w, a) =>
          /\ status[a] \notin Unsubmitted
          /\ a \in needsSecond => ApprovedByTwo(a)

(* Whether a second approver is wanted is settled before anybody approves;   *)
(* then an adjustment that waits for one has had its first, and one that is  *)
(* approved, or has moved stock, has had two.                                *)
AdjustmentInv(a) ==
    /\ status[a] \in Unsubmitted => ~StockMovedFor(a) /\ a \notin needsSecond
    /\ a \in needsSecond =>
          /\ status[a] = "PENDING_SECOND_APPROVAL" => firstApprover[a] \in approvedBy[a]
          /\ status[a] = "APPROVED" \/ StockMovedFor(a) => ApprovedByTwo(a)

RequestsInv(a) == \A w \in Workers : RequestInv(w, a)

ApproversShape ==
    /\ DOMAIN firstApprover = Adjustments /\ DOMAIN approvedBy = Adjustments
    /\ \A a \in Adjustments : IsFiniteSet(approvedBy[a])

ApprovalInv ==
    /\ ShapeInv
    /\ ApproversShape
    /\ \A a \in Adjustments : AdjustmentInv(a) /\ RequestsInv(a)

(* What approve, submit and the rest do not do: take an approval back, or    *)
(* change their minds about the second approver.                             *)
Kept(a) ==
    /\ a \in needsSecond' <=> a \in needsSecond
    /\ approvedBy[a] \subseteq approvedBy'[a]

(* Stock moves for the documents of a step only. *)
LEMMA LedgerStepMoves ==
    ASSUME ShapeInv, NEW D, LedgerStep(D), NEW a
    PROVE  /\ StockMovedFor(a) => StockMovedFor(a)'
           /\ a \notin D \/ UNCHANGED movements => (StockMovedFor(a)' <=> StockMovedFor(a))
<1> DEFINE m == movements
           after == movements'
<1>1. /\ Len(m) \in Nat /\ Len(after) \in Nat /\ Len(m) <= Len(after)
      /\ \A i \in 1 .. Len(after) : IF i <= Len(m) THEN after[i] = m[i] ELSE after[i].ref \in D
  BY ListDomain DEF ShapeInv, LedgerStep
<1> HIDE DEF m, after
<1>2. (\E i \in 1 .. Len(m) : m[i].ref = a) => \E i \in 1 .. Len(after) : after[i].ref = a
  BY <1>1
<1>3. a \notin D /\ (\E i \in 1 .. Len(after) : after[i].ref = a) => \E i \in 1 .. Len(m) : m[i].ref = a
  BY <1>1
<1>4. after = m => ((\E i \in 1 .. Len(after) : after[i].ref = a) <=> \E i \in 1 .. Len(m) : m[i].ref = a)
  OBVIOUS
<1> QED BY <1>2, <1>3, <1>4 DEF StockMovedFor, m, after

(* Two approvers stay two. *)
LEMMA TwoStayTwo ==
    ASSUME NEW a, Kept(a), ApprovedByTwo(a)
    PROVE  ApprovedByTwo(a)'
BY DEF Kept, ApprovedByTwo

(* A request for a that worker v is at keeps what it has decided on, unless  *)
(* a is sent back to be a draft or another request comes between its submit. *)
LEMMA RequestKept ==
    ASSUME NEW a, NEW v \in Workers, RequestInv(v, a), Kept(a),
           pc'[v] = pc[v], job'[v] = job[v],
           status[a] \notin Unsubmitted => status'[a] \notin Unsubmitted,
           Handling(v, a, "submit") =>
               status'[a] = status[a] /\ \A u \in Workers \ {v} : job'[u].doc # a
    PROVE  RequestInv(v, a)'
<1>1. /\ \A op \in {"submit", "approve", "secondApprove", "reject", "cancel", "post"} :
             Handling(v, a, op)' <=> Handling(v, a, op)
      /\ Moving(v, a)' <=> Moving(v, a)
  BY DEF Handling, Moving
<1>2. Handling(v, a, "submit")' =>
          /\ status'[a] = "DRAFT" /\ job'[v].next = "SUBMITTED"
          /\ \A u \in Workers \ {v} : job'[u].doc # a
  BY <1>1 DEF RequestInv
<1>3. Handling(v, a, "approve")' =>
          /\ status'[a] \notin Unsubmitted
          /\ job'[v].next \in {"PENDING_SECOND_APPROVAL", "APPROVED"}
          /\ a \in needsSecond' => job'[v].next = "PENDING_SECOND_APPROVAL"
  BY <1>1 DEF RequestInv, Kept
<1>4. Handling(v, a, "secondApprove")' =>
          /\ status'[a] \notin Unsubmitted /\ job'[v].next = "APPROVED"
          /\ a \in needsSecond' => \E u \in approvedBy'[a] : u # job'[v].by
  BY <1>1 DEF RequestInv, Kept
<1>5. /\ Handling(v, a, "reject")' => job'[v].next = "REJECTED"
      /\ Handling(v, a, "cancel")' => job'[v].next = "CANCELLED"
  BY <1>1 DEF RequestInv
<1>6. Handling(v, a, "post")' \/ Moving(v, a)' =>
          /\ status'[a] \notin Unsubmitted
          /\ a \in needsSecond' => ApprovedByTwo(a)'
  BY <1>1, TwoStayTwo DEF RequestInv, Kept
<1> QED BY <1>2, <1>3, <1>4, <1>5, <1>6 DEF RequestInv, Unsubmitted

(* A worker that is not at work on a has nothing to keep. *)
LEMMA NoRequest ==
    ASSUME NEW a, NEW w, pc'[w] \notin {"loaded", "posting"} \/ job'[w].doc # a
    PROVE  RequestInv(w, a)'
BY DEF RequestInv, Handling, Moving

(* A worker that is done has none. *)
LEMMA FinishedNoRequest ==
    ASSUME ShapeInv, NEW w \in Workers, NEW o, Finish(w, o), NEW a
    PROVE  RequestInv(w, a)'
<1>1. pc'[w] \notin {"loaded", "posting"}
  BY DEF Finish, ShapeInv
<1> QED BY <1>1, NoRequest

(* While one request for a is being handled no other one submits it. *)
LEMMA NobodySubmits ==
    ASSUME NEW a, RequestsInv(a), NEW w \in Workers, job[w].doc = a
    PROVE  \A v \in Workers \ {w} : ~Handling(v, a, "submit")
BY DEF RequestsInv, RequestInv, Handling

(* What the other requests for a have decided on is kept by a step of w. *)
LEMMA RequestsKept ==
    ASSUME NEW a, RequestsInv(a), NEW w \in Workers, NEW D, Step(w, D), Kept(a),
           status[a] \notin Unsubmitted => status'[a] \notin Unsubmitted,
           \A v \in Workers \ {w} : ~Handling(v, a, "submit"),
           RequestInv(w, a)'
    PROVE  RequestsInv(a)'
<1>1. ASSUME NEW v \in Workers \ {w} PROVE RequestInv(v, a)'
  <2>1. pc'[v] = pc[v] /\ job'[v] = job[v] /\ RequestInv(v, a) /\ ~Handling(v, a, "submit")
    BY DEF Step, WorkerStep, RequestsInv
  <2> QED BY <2>1, RequestKept
<1> QED BY <1>1 DEF RequestsInv

(* A step for other documents says nothing of a. *)
LEMMA ElsewhereKeeps ==
    ASSUME ShapeInv, NEW a \in Adjustments, AdjustmentInv(a), RequestsInv(a),
           NEW w \in Workers, NEW D, a \notin D, Step(w, D),
           a \in needsSecond' <=> a \in needsSecond,
           firstApprover'[a] = firstApprover[a], approvedBy'[a] = approvedBy[a]
    PROVE  AdjustmentInv(a)' /\ RequestsInv(a)'
<1>1. /\ a \in Docs /\ a # NoDoc
      /\ status'[a] = status[a]
      /\ StockMovedFor(a)' <=> StockMovedFor(a)
  BY LedgerStepMoves, DocumentsAssumption DEF Step, StatusStep, Adjustments
<1>2. job'[w].doc # a /\ job[w].doc # a
  <2>1. pc[w] = "idle" => job[w].doc = NoDoc
    BY DEF ShapeInv, Idle
  <2>2. pc'[w] = "idle" => job'[w].doc = NoDoc
    BY DEF Step, WorkerStep, Idle
  <2> QED BY <1>1, <2>1, <2>2 DEF Step, WorkerStep
<1>3. Kept(a) /\ (ApprovedByTwo(a)' <=> ApprovedByTwo(a))
  BY DEF Kept, ApprovedByTwo
<1>4. RequestsInv(a)'
  <2>1. RequestInv(w, a)'
    BY <1>2, NoRequest
  <2>2. ASSUME NEW v \in Workers \ {w} PROVE RequestInv(v, a)'
    <3>1. pc'[v] = pc[v] /\ job'[v] = job[v] /\ RequestInv(v, a)
      BY DEF Step, WorkerStep, RequestsInv
    <3>2. ASSUME Handling(v, a, "submit") PROVE \A u \in Workers \ {v} : job'[u].doc # a
      <4>1. \A u \in Workers \ {v} : job[u].doc # a
        BY <3>1, <3>2 DEF RequestInv
      <4> QED BY <1>2, <4>1 DEF Step, WorkerStep
    <3> QED BY <1>1, <1>3, <3>1, <3>2, RequestKept
  <2> QED BY <2>1, <2>2 DEF RequestsInv
<1>5. AdjustmentInv(a)'
  BY <1>1, <1>3 DEF AdjustmentInv
<1> QED BY <1>4, <1>5

(* An adjustment is made. *)
LEMMA CreateKeeps ==
    ASSUME ShapeInv, NEW a \in Adjustments, AdjustmentInv(a), RequestsInv(a),
           NEW w \in Workers, Step(w, {a}), CreateAdjustment(w, a)
    PROVE  AdjustmentInv(a)' /\ RequestsInv(a)'
<1>1. /\ pc[w] = "idle" /\ status[a] = "NONE" /\ status'[a] = "DRAFT" /\ a \in Docs
      /\ UNCHANGED << movements, pc, job, needsSecond, firstApprover, approvedBy >>
  BY DEF CreateAdjustment, Create, stockVars, workVars, adjustmentVars, ShapeInv, Adjustments
<1>2. Kept(a) /\ ~StockMovedFor(a)' /\ a \notin needsSecond'
  BY <1>1, LedgerStepMoves DEF Kept, AdjustmentInv, Unsubmitted, Step
<1>3. \A v \in Workers \ {w} : ~Handling(v, a, "submit")
  BY <1>1 DEF RequestsInv, RequestInv
<1>4. RequestInv(w, a)'
  BY <1>1, NoRequest
<1>5. RequestsInv(a)'
  BY <1>1, <1>2, <1>3, <1>4, RequestsKept DEF Unsubmitted
<1>6. AdjustmentInv(a)'
  BY <1>2 DEF AdjustmentInv
<1> QED BY <1>5, <1>6

(* A request for it is taken up; none other may be while it is submitted. *)
LEMMA LoadKeeps ==
    ASSUME "submit" \notin MayOverlap["adjustment"],
           ShapeInv, NEW a \in Adjustments, AdjustmentInv(a), RequestsInv(a),
           NEW w \in Workers, Step(w, {a}),
           NEW op \in DOMAIN AdjustmentFrom, NEW by \in Users \cup {NoDoc}, LoadAdjustment(w, op, a, by)
    PROVE  AdjustmentInv(a)' /\ RequestsInv(a)'
<1>1. PICK key \in KeysOf[a][op] :
          Start(w, [Job(op, a) EXCEPT !.by = by, !.next = AdjustmentTo(op, a), !.key = key])
  BY DEF LoadAdjustment
<1> DEFINE j == [Job(op, a) EXCEPT !.by = by, !.next = AdjustmentTo(op, a), !.key = key]
<1>2. j.doc = a /\ j.op = op /\ j.by = by /\ j.next = AdjustmentTo(op, a)
  BY JobShape DEF JobFields
<1>3. Start(w, j)
  BY <1>1
<1> HIDE DEF j
<1>4. /\ MayStart(w, j) /\ pc'[w] = "loaded" /\ job'[w] = j
      /\ UNCHANGED << movements, status, needsSecond, firstApprover, approvedBy >>
  BY <1>3 DEF Start, Begin, stockVars, ShapeInv, LoadAdjustment, adjustmentVars
<1>5. \A v \in Workers \ {w} : job[v].doc = a => job[v].op # "submit" /\ op # "submit"
  BY <1>2, <1>4 DEF MayStart, Adjustments
<1>6. Kept(a) /\ (ApprovedByTwo(a)' <=> ApprovedByTwo(a)) /\ (StockMovedFor(a)' <=> StockMovedFor(a))
  BY <1>4, LedgerStepMoves DEF Kept, ApprovedByTwo, Step
<1>7. AdjustmentInv(a)'
  BY <1>4, <1>6 DEF AdjustmentInv
<1>8. /\ status[a] \in AdjustmentFrom[op]
      /\ op = "secondApprove" => firstApprover[a] # by
  BY DEF LoadAdjustment, MayApproveSecond
<1>9. RequestInv(w, a)'
  <2>1. \A o : Handling(w, a, o)' => op = o
    BY <1>2, <1>4 DEF Handling
  <2>2. ~Moving(w, a)'
    BY <1>4 DEF Moving
  <2>3. ASSUME op = "submit"
        PROVE  /\ status'[a] = "DRAFT" /\ job'[w].next = "SUBMITTED"
               /\ \A v \in Workers \ {w} : job'[v].doc # a
    BY <1>2, <1>4, <1>5, <1>8, <2>3 DEF AdjustmentFrom, AdjustmentTo, Step, WorkerStep
  <2>4. ASSUME op = "approve"
        PROVE  /\ status'[a] \notin Unsubmitted
               /\ job'[w].next \in {"PENDING_SECOND_APPROVAL", "APPROVED"}
               /\ a \in needsSecond' => job'[w].next = "PENDING_SECOND_APPROVAL"
    BY <1>2, <1>4, <1>8, <2>4 DEF AdjustmentFrom, AdjustmentTo, Unsubmitted
  <2>5. ASSUME op = "secondApprove"
        PROVE  /\ status'[a] \notin Unsubmitted /\ job'[w].next = "APPROVED"
               /\ a \in needsSecond' => \E u \in approvedBy'[a] : u # job'[w].by
    BY <1>2, <1>4, <1>8, <2>5 DEF AdjustmentFrom, AdjustmentTo, Unsubmitted, AdjustmentInv
  <2>6. /\ op = "reject" => job'[w].next = "REJECTED"
        /\ op = "cancel" => job'[w].next = "CANCELLED"
    BY <1>2, <1>4 DEF AdjustmentTo
  <2>7. ASSUME op = "post"
        PROVE  status'[a] \notin Unsubmitted /\ (a \in needsSecond' => ApprovedByTwo(a)')
    BY <1>4, <1>6, <1>8, <2>7 DEF AdjustmentFrom, Unsubmitted, AdjustmentInv
  <2> QED BY <2>1, <2>2, <2>3, <2>4, <2>5, <2>6, <2>7 DEF RequestInv, Unsubmitted
<1>10. RequestsInv(a)'
  <2>1. \A v \in Workers \ {w} : ~Handling(v, a, "submit")
    BY <1>5 DEF Handling
  <2> QED BY <1>4, <1>6, <1>9, <2>1, RequestsKept
<1> QED BY <1>7, <1>10

(* It is submitted: whether it wants a second approver is settled while      *)
(* nobody else is at it.                                                     *)
LEMMA SubmitKeeps ==
    ASSUME ShapeInv, NEW a \in Adjustments, AdjustmentInv(a), RequestsInv(a),
           NEW w \in Workers, Step(w, {a}), job[w].doc = a, SubmitAdjustment(w)
    PROVE  AdjustmentInv(a)' /\ RequestsInv(a)'
<1> DEFINE o == "APPLIED"
<1>1. Handling(w, a, "submit") /\ Finish(w, o) /\ Write(w, job[w].next) /\ UNCHANGED movements
  BY DEF SubmitAdjustment, Advance, At, Handling, stockVars
<1> HIDE DEF o
<1>2. /\ status[a] = "DRAFT" /\ job[w].next = "SUBMITTED"
      /\ \A v \in Workers \ {w} : job[v].doc # a
  BY <1>1 DEF RequestsInv, RequestInv
<1>3. status'[a] = "SUBMITTED"
  BY <1>1, <1>2 DEF Write, ShapeInv, Adjustments
<1>4. ~StockMovedFor(a)'
  BY <1>1, <1>2, LedgerStepMoves DEF AdjustmentInv, Unsubmitted, Step
<1>5. AdjustmentInv(a)'
  BY <1>3, <1>4 DEF AdjustmentInv, Unsubmitted
<1>6. RequestInv(w, a)'
  BY <1>1, FinishedNoRequest
<1>7. ASSUME NEW v \in Workers \ {w} PROVE RequestInv(v, a)'
  <2>1. job'[v].doc # a
    BY <1>2 DEF Step, WorkerStep
  <2> QED BY <2>1, NoRequest
<1> QED BY <1>5, <1>6, <1>7 DEF RequestsInv

(* It is approved, by the first or by the second. *)
LEMMA ApproveKeeps ==
    ASSUME ShapeInv, ApproversShape, NEW a \in Adjustments, AdjustmentInv(a), RequestsInv(a),
           NEW w \in Workers, Step(w, {a}), job[w].doc = a, ApproveAdjustment(w)
    PROVE  AdjustmentInv(a)' /\ RequestsInv(a)'
<1> DEFINE o == "APPLIED"
           next == job[w].next
           by == job[w].by
           op == job[w].op
<1>1. /\ op \in {"approve", "secondApprove"} /\ Handling(w, a, op)
      /\ Finish(w, o) /\ Write(w, next) /\ UNCHANGED << movements, needsSecond >>
      /\ firstApprover'[a] = IF op = "approve" THEN by ELSE firstApprover[a]
      /\ approvedBy'[a] = approvedBy[a] \cup {by}
  BY DEF ApproveAdjustment, Advance, Handling, stockVars, ApproversShape
<1>2. /\ op = "approve" =>
            /\ next \in {"PENDING_SECOND_APPROVAL", "APPROVED"}
            /\ a \in needsSecond => next = "PENDING_SECOND_APPROVAL"
      /\ op = "secondApprove" =>
            /\ next = "APPROVED"
            /\ a \in needsSecond => \E u \in approvedBy[a] : u # by
  BY <1>1 DEF RequestsInv, RequestInv
<1>3. status'[a] = next
  BY <1>1 DEF Write, ShapeInv, Adjustments
<1> HIDE DEF o, next, by, op
<1>4. Kept(a) /\ (StockMovedFor(a)' <=> StockMovedFor(a))
  BY <1>1, LedgerStepMoves DEF Kept, Step
<1>5. status'[a] \notin Unsubmitted
  BY <1>1, <1>2, <1>3 DEF Unsubmitted
<1>6. AdjustmentInv(a)'
  <2>1. a \in needsSecond' /\ status'[a] = "PENDING_SECOND_APPROVAL" => firstApprover'[a] \in approvedBy'[a]
    BY <1>1, <1>2, <1>3
  <2>2. a \in needsSecond' /\ status'[a] = "APPROVED" => ApprovedByTwo(a)'
    BY <1>1, <1>2, <1>3 DEF ApprovedByTwo
  <2>3. a \in needsSecond' /\ StockMovedFor(a)' => ApprovedByTwo(a)'
    BY <1>4, TwoStayTwo DEF Kept, AdjustmentInv
  <2> QED BY <1>5, <2>1, <2>2, <2>3 DEF AdjustmentInv, Unsubmitted
<1>7. RequestsInv(a)'
  BY <1>1, <1>4, <1>5, FinishedNoRequest, NobodySubmits, RequestsKept
<1> QED BY <1>6, <1>7

(* It is rejected or cancelled. *)
LEMMA EndKeeps ==
    ASSUME ShapeInv, NEW a \in Adjustments, AdjustmentInv(a), RequestsInv(a),
           NEW w \in Workers, Step(w, {a}), job[w].doc = a, EndAdjustment(w)
    PROVE  AdjustmentInv(a)' /\ RequestsInv(a)'
<1> DEFINE o == "APPLIED"
           next == job[w].next
<1>1. /\ Handling(w, a, "reject") \/ Handling(w, a, "cancel")
      /\ Finish(w, o) /\ Write(w, next)
      /\ UNCHANGED << movements, needsSecond, firstApprover, approvedBy >>
  BY DEF EndAdjustment, Advance, Handling, stockVars, adjustmentVars
<1>2. next \in {"REJECTED", "CANCELLED"}
  BY <1>1 DEF RequestsInv, RequestInv
<1>3. status'[a] = next
  BY <1>1 DEF Write, ShapeInv, Adjustments
<1> HIDE DEF o, next
<1>4. Kept(a) /\ (StockMovedFor(a)' <=> StockMovedFor(a)) /\ status'[a] \notin Unsubmitted
  BY <1>1, <1>2, <1>3, LedgerStepMoves DEF Kept, Step, Unsubmitted
<1>5. AdjustmentInv(a)'
  BY <1>2, <1>3, <1>4, TwoStayTwo DEF AdjustmentInv, Kept
<1>6. RequestsInv(a)'
  BY <1>1, <1>4, FinishedNoRequest, NobodySubmits, RequestsKept
<1> QED BY <1>5, <1>6

(* A step that changes neither its status, nor its approvals, nor the        *)
(* ledger, and after which nothing new is decided.                           *)
LEMMA StillKeeps ==
    ASSUME ShapeInv, NEW a \in Adjustments, AdjustmentInv(a), RequestsInv(a),
           NEW w \in Workers, Step(w, {a}), job[w].doc = a,
           UNCHANGED << movements, needsSecond, firstApprover, approvedBy >>,
           status'[a] = status[a], RequestInv(w, a)'
    PROVE  AdjustmentInv(a)' /\ RequestsInv(a)'
<1>1. /\ Kept(a) /\ (StockMovedFor(a)' <=> StockMovedFor(a))
      /\ ApprovedByTwo(a)' <=> ApprovedByTwo(a)
  BY LedgerStepMoves DEF Kept, Step, ApprovedByTwo
<1>2. AdjustmentInv(a)'
  BY <1>1 DEF AdjustmentInv
<1>3. RequestsInv(a)'
  BY <1>1, NobodySubmits, RequestsKept
<1> QED BY <1>2, <1>3

(* It is edited. *)
LEMMA EditKeeps ==
    ASSUME ShapeInv, NEW a \in Adjustments, AdjustmentInv(a), RequestsInv(a),
           NEW w \in Workers, Step(w, {a}), job[w].doc = a, EditAdjustment(w)
    PROVE  AdjustmentInv(a)' /\ RequestsInv(a)'
<1> DEFINE o == "APPLIED"
<1>1. /\ Finish(w, o) /\ Write(w, status[a])
      /\ UNCHANGED << movements, needsSecond, firstApprover, approvedBy >>
  BY DEF EditAdjustment, Edit, stockVars, adjustmentVars
<1>2. status'[a] = status[a]
  BY <1>1 DEF Write, ShapeInv, Adjustments
<1> HIDE DEF o
<1>3. RequestInv(w, a)'
  BY <1>1, FinishedNoRequest
<1> QED BY <1>1, <1>2, <1>3, StillKeeps

(* Its posting is entered, or refused. *)
LEMMA PostKeeps ==
    ASSUME ShapeInv, NEW a \in Adjustments, AdjustmentInv(a), RequestsInv(a),
           NEW w \in Workers, Step(w, {a}), job[w].doc = a, PostAdjustment(w)
    PROVE  AdjustmentInv(a)' /\ RequestsInv(a)'
<1>1. /\ Handling(w, a, "post")
      /\ UNCHANGED << movements, status, needsSecond, firstApprover, approvedBy >>
      /\ Goto(w, "posting") \/ \E o \in {"APPLIED", "DECLINED"} : Finish(w, o)
  BY DEF PostAdjustment, Enter, Reply, At, Handling, stockVars, adjustmentVars
<1>2. /\ status[a] \notin Unsubmitted
      /\ a \in needsSecond => ApprovedByTwo(a)
  BY <1>1 DEF RequestsInv, RequestInv
<1>3. RequestInv(w, a)'
  <2>1. CASE Goto(w, "posting")
    <3>1. pc'[w] = "posting"
      BY <2>1 DEF Goto, ShapeInv
    <3>2. \A op : ~Handling(w, a, op)'
      BY <3>1 DEF Handling
    <3>3. status'[a] \notin Unsubmitted /\ (a \in needsSecond' => ApprovedByTwo(a)')
      BY <1>1, <1>2 DEF ApprovedByTwo
    <3> QED BY <3>2, <3>3 DEF RequestInv, Unsubmitted
  <2>2. CASE \E o \in {"APPLIED", "DECLINED"} : Finish(w, o)
    BY <2>2, FinishedNoRequest
  <2> QED BY <1>1, <2>1, <2>2
<1> QED BY <1>1, <1>3, StillKeeps

(* It is posted. *)
LEMMA CloseKeeps ==
    ASSUME ShapeInv, NEW a \in Adjustments, AdjustmentInv(a), RequestsInv(a),
           NEW w \in Workers, Step(w, {a}), job[w].doc = a, CloseAdjustment(w)
    PROVE  AdjustmentInv(a)' /\ RequestsInv(a)'
<1> DEFINE o == "APPLIED"
<1>1. /\ Moving(w, a) /\ Finish(w, o) /\ Write(w, "POSTED")
      /\ UNCHANGED << needsSecond, firstApprover, approvedBy >>
  BY DEF CloseAdjustment, At, Moving, adjustmentVars
<1>2. a \in needsSecond => ApprovedByTwo(a)
  BY <1>1 DEF RequestsInv, RequestInv
<1>3. status'[a] = "POSTED"
  BY <1>1 DEF Write, ShapeInv, Adjustments
<1> HIDE DEF o
<1>4. Kept(a) /\ status'[a] \notin Unsubmitted
  BY <1>1, <1>3 DEF Kept, Unsubmitted
<1>5. AdjustmentInv(a)'
  BY <1>2, <1>3, <1>4, TwoStayTwo DEF AdjustmentInv, Kept
<1>6. RequestsInv(a)'
  BY <1>1, <1>4, FinishedNoRequest, NobodySubmits, RequestsKept
<1> QED BY <1>5, <1>6

(* A request for it fails. *)
LEMMA FailKeeps ==
    ASSUME ShapeInv, NEW a \in Adjustments, AdjustmentInv(a), RequestsInv(a),
           NEW w \in Workers, Step(w, {a}), job[w].doc = a, Fail(w), UNCHANGED adjustmentVars
    PROVE  AdjustmentInv(a)' /\ RequestsInv(a)'
<1>1. /\ UNCHANGED << movements, status, needsSecond, firstApprover, approvedBy >>
      /\ pc'[w] = "idle"
  BY DEF Fail, stockVars, adjustmentVars, ShapeInv
<1>2. RequestInv(w, a)'
  BY <1>1, NoRequest
<1> QED BY <1>1, <1>2, StillKeeps

(* Whatever becomes of an adjustment. *)
LEMMA AdjustmentActionKeeps ==
    ASSUME "submit" \notin MayOverlap["adjustment"],
           ShapeInv, ApproversShape, NEW a \in Adjustments, AdjustmentInv(a), RequestsInv(a),
           NEW w \in Workers, AdjustmentAction(w, a)
    PROVE  AdjustmentInv(a)' /\ RequestsInv(a)'
<1>1. Step(w, {a})
  BY AdjustmentActionSteps
<1>2. CASE CreateAdjustment(w, a)
  BY <1>1, <1>2, CreateKeeps
<1>3. CASE \E op \in DOMAIN AdjustmentFrom, by \in Users \cup {NoDoc} : LoadAdjustment(w, op, a, by)
  BY <1>1, <1>3, LoadKeeps
<1>4. CASE AdjustmentStep(w) /\ job[w].doc = a
  BY <1>1, <1>4, SubmitKeeps, ApproveKeeps, EndKeeps, EditKeeps, PostKeeps, CloseKeeps DEF AdjustmentStep
<1>5. CASE Fail(w) /\ job[w].doc = a /\ UNCHANGED adjustmentVars
  BY <1>1, <1>5, FailKeeps
<1> QED BY <1>2, <1>3, <1>4, <1>5 DEF AdjustmentAction

(* What becomes of one says nothing of who has approved another .. *)
LEMMA AdjustmentActionElsewhere ==
    ASSUME ApproversShape, NEW a \in Adjustments, NEW b \in Adjustments, a # b,
           NEW w \in Workers, AdjustmentAction(w, b)
    PROVE  /\ a \in needsSecond' <=> a \in needsSecond
           /\ firstApprover'[a] = firstApprover[a] /\ approvedBy'[a] = approvedBy[a]
<1>1. CASE UNCHANGED adjustmentVars
  BY <1>1 DEF adjustmentVars
<1>2. CASE job[w].doc = b /\ (SubmitAdjustment(w) \/ ApproveAdjustment(w))
  BY <1>2 DEF SubmitAdjustment, ApproveAdjustment, ApproversShape
<1> QED BY <1>1, <1>2 DEF AdjustmentAction, CreateAdjustment, LoadAdjustment, AdjustmentStep,
           EndAdjustment, EditAdjustment, PostAdjustment, CloseAdjustment

(* .. and of every one there is a finite number. *)
LEMMA AdjustmentActionShape ==
    ASSUME ApproversShape, NEW b \in Adjustments, NEW w \in Workers, AdjustmentAction(w, b)
    PROVE  ApproversShape'
<1>1. CASE UNCHANGED << firstApprover, approvedBy >>
  BY <1>1 DEF ApproversShape
<1>2. CASE job[w].doc = b /\ ApproveAdjustment(w)
  <2>1. /\ DOMAIN firstApprover' = Adjustments
        /\ approvedBy' = [approvedBy EXCEPT ![b] = @ \cup {job[w].by}]
    BY <1>2 DEF ApproveAdjustment, ApproversShape
  <2>2. IsFiniteSet(approvedBy[b] \cup {job[w].by})
    BY FS_AddElement DEF ApproversShape
  <2> QED BY <2>1, <2>2 DEF ApproversShape
<1> QED BY <1>1, <1>2 DEF AdjustmentAction, CreateAdjustment, LoadAdjustment, AdjustmentStep,
           SubmitAdjustment, EndAdjustment, EditAdjustment, PostAdjustment, CloseAdjustment, adjustmentVars

-----------------------------------------------------------------------------
(* The invariant *)

(* Data have their shape before anybody has asked for anything. *)
LEMMA ShapeInitially ==
    ASSUME WarehouseInit
    PROVE  ShapeInv
<1>1. DOMAIN status = Docs
  BY StartsAssumption DEF WarehouseInit
<1>2. IsList(movements)
  BY ShortLists DEF WarehouseInit
<1> QED BY <1>1, <1>2, DocumentsAssumption DEF WarehouseInit, ShapeInv

(* The invariant holds then .. *)
LEMMA ApprovalInitially ==
    ASSUME WarehouseInit
    PROVE  ApprovalInv
<1>1. ShapeInv
  BY ShapeInitially
<1>2. ApproversShape
  BY FS_EmptySet DEF WarehouseInit, ApproversShape
<1>3. ASSUME NEW a \in Adjustments PROVE AdjustmentInv(a) /\ RequestsInv(a)
  <2>1. ~StockMovedFor(a)
    BY DEF WarehouseInit, StockMovedFor
  <2>2. AdjustmentInv(a)
    BY <2>1 DEF WarehouseInit, AdjustmentInv
  <2>3. RequestsInv(a)
    BY DEF WarehouseInit, RequestsInv, RequestInv, Handling, Moving
  <2> QED BY <2>2, <2>3
<1> QED BY <1>1, <1>2, <1>3 DEF ApprovalInv

(* .. is kept by every step .. *)
LEMMA ApprovalStep ==
    ASSUME "submit" \notin MayOverlap["adjustment"], ApprovalInv, [WarehouseNext]_vars
    PROVE  ApprovalInv'
<1>1. ShapeInv /\ ApproversShape /\ \A a \in Adjustments : AdjustmentInv(a) /\ RequestsInv(a)
  BY DEF ApprovalInv
<1>2. CASE UNCHANGED vars
  <2>1. /\ UNCHANGED << status, content, movements, pc, job, needsSecond, firstApprover, approvedBy >>
    BY <1>2 DEF vars, baseVars, docVars, adjustmentVars, stockVars
  <2>2. ShapeInv' /\ ApproversShape'
    BY <1>1, <2>1 DEF ShapeInv, ApproversShape, Fits
  <2>3. ASSUME NEW a \in Adjustments PROVE AdjustmentInv(a)' /\ RequestsInv(a)'
    BY <1>1, <2>1 DEF AdjustmentInv, StockMovedFor, ApprovedByTwo, RequestsInv, RequestInv, Handling, Moving
  <2> QED BY <2>2, <2>3 DEF ApprovalInv
<1>3. ASSUME NEW w \in Workers, NEW b \in Adjustments, AdjustmentAction(w, b) PROVE ApprovalInv'
  <2>1. Step(w, {b})
    BY <1>1, <1>3, AdjustmentActionSteps
  <2>2. ShapeInv'
    BY <1>1, <2>1, StepKeepsShape
  <2>3. ApproversShape'
    BY <1>1, <1>3, AdjustmentActionShape
  <2>4. ASSUME NEW a \in Adjustments PROVE AdjustmentInv(a)' /\ RequestsInv(a)'
    <3>1. CASE a = b
      BY <1>1, <1>3, <3>1, AdjustmentActionKeeps
    <3>2. CASE a # b
      <4>1. /\ a \in needsSecond' <=> a \in needsSecond
            /\ firstApprover'[a] = firstApprover[a] /\ approvedBy'[a] = approvedBy[a]
        BY <1>1, <1>3, <3>2, AdjustmentActionElsewhere
      <4>2. a \notin {b}
        BY <3>2
      <4> QED BY <1>1, <2>1, <4>1, <4>2, ElsewhereKeeps
    <3> QED BY <3>1, <3>2
  <2> QED BY <2>2, <2>3, <2>4 DEF ApprovalInv
<1>4. ASSUME NEW w \in Workers, NEW D \in SUBSET (Docs \ Adjustments), Step(w, D), UNCHANGED adjustmentVars
      PROVE  ApprovalInv'
  <2>1. UNCHANGED << needsSecond, firstApprover, approvedBy >>
    BY <1>4 DEF adjustmentVars
  <2>2. ShapeInv'
    BY <1>1, <1>4, StepKeepsShape
  <2>3. ApproversShape'
    BY <1>1, <2>1 DEF ApproversShape
  <2>4. ASSUME NEW a \in Adjustments PROVE AdjustmentInv(a)' /\ RequestsInv(a)'
    BY <1>1, <1>4, <2>1, ElsewhereKeeps
  <2> QED BY <2>2, <2>3, <2>4 DEF ApprovalInv
<1>5. CASE WarehouseNext
  BY <1>1, <1>2, <1>3, <1>4, <1>5, WhoSteps
<1> QED BY <1>2, <1>5

(* A document for which no movement is in the journal has moved nothing. *)
LEMMA NoMovementMovesNothing ==
    ASSUME NEW a, IsList(movements), ~StockMovedFor(a)
    PROVE  MovedBy(a) = Nothing
<1> DEFINE of(g) == { i \in DOMAIN movements : movements[i].ref = a /\ movements[i].grain = g }
           f(b) == [i \in DOMAIN movements |-> movements[i].delta[b]]
<1>1. ASSUME NEW g \in Grains PROVE of(g) = {}
  BY ListDomain DEF StockMovedFor
<1>2. ASSUME NEW b \in Buckets, NEW g \in Grains PROVE SumFunctionOnSet(f(b), of(g)) = 0
  <2> DEFINE fun == f(b)
  <2>1. SumFunctionOnSet(fun, of(g)) = SumFunctionOnSet(fun, {})
    BY <1>1
  <2> HIDE DEF fun
  <2>2. SumFunctionOnSet(fun, {}) = 0
    BY SumFunctionIsSum, SumEmpty
  <2> QED BY <2>1, <2>2 DEF fun
<1> HIDE DEF f, of
<1>3. [g \in Grains |-> [b \in Buckets |-> SumFunctionOnSet(f(b), of(g))]] = Nothing
  BY <1>2 DEF Nothing, EmptyRow
<1> QED BY <1>3 DEF MovedBy, f, of

(* .. and is what was wanted: what has moved has two different approvers. *)
LEMMA ApprovalInvImplies ==
    ASSUME ApprovalInv
    PROVE  TwoPeopleApproved
<1>1. ASSUME NEW a \in Adjustments, a \in needsSecond, MovedBy(a) # Nothing
      PROVE  Cardinality(approvedBy[a]) >= 2
  <2>1. StockMovedFor(a)
    BY <1>1, NoMovementMovesNothing DEF ApprovalInv, ShapeInv
  <2>2. PICK u \in approvedBy[a], v \in approvedBy[a] : u # v
    BY <1>1, <2>1 DEF ApprovalInv, AdjustmentInv, ApprovedByTwo
  <2>3. IsFiniteSet(approvedBy[a])
    BY DEF ApprovalInv, ApproversShape
  <2>4. Cardinality({u, v}) = 2
    <3>1. Cardinality({u}) = 1 /\ IsFiniteSet({u})
      BY FS_Singleton
    <3>2. {u, v} = {u} \cup {v} /\ v \notin {u}
      BY <2>2
    <3> QED BY <3>1, <3>2, FS_AddElement
  <2>5. Cardinality({u, v}) <= Cardinality(approvedBy[a]) /\ Cardinality(approvedBy[a]) \in Nat
    BY <2>3, FS_Subset, FS_CardinalityType
  <2> QED BY <2>4, <2>5
<1> QED BY <1>1 DEF TwoPeopleApproved

(* Of an adjustment worth more than the threshold nothing moves before two   *)
(* different people have approved it: whatever else is asked of it and of    *)
(* other documents at the same time, by however many, and however often      *)
(* handlers fail; as long as two requests do not submit it at once.          *)
THEOREM NothingMovesUnapproved ==
    ASSUME "submit" \notin MayOverlap["adjustment"]
    PROVE  WarehouseSpec => []TwoPeopleApproved
<1>1. WarehouseInit => ApprovalInv
  BY ApprovalInitially
<1>2. ApprovalInv /\ [WarehouseNext]_vars => ApprovalInv'
  BY ApprovalStep
<1>3. ApprovalInv => TwoPeopleApproved
  BY ApprovalInvImplies
<1> QED BY <1>1, <1>2, <1>3, PTL DEF WarehouseSpec

-----------------------------------------------------------------------------
(* The stock that moves *)

(* A list of lines that can be posted, admissible or not. *)
Typed(lines) == IsList(lines) /\ \A i \in 1 .. Len(lines) : PostableLine(lines[i])

(* What a posting does to the journal. *)
Appended(m, after, cmd, ref) ==
    /\ IsList(after) /\ Len(m) \in Nat /\ Len(cmd.lines) \in Nat
    /\ Len(after) = Len(m) + Len(cmd.lines) /\ DOMAIN after = 1 .. Len(after)
    /\ \A i \in 1 .. Len(m) : after[i] = m[i]
    /\ \A i \in 1 .. Len(cmd.lines) :
          /\ after[Len(m) + i].ref = ref
          /\ after[Len(m) + i].grain = cmd.lines[i].grain
          /\ after[Len(m) + i].delta = LineDeltas(cmd.lines[i])
          /\ after[Len(m) + i].key = (IF i = 1 THEN cmd.key ELSE NoKey)

(* A posting appends its lines. *)
LEMMA PostAppends ==
    ASSUME IsList(movements), NEW cmd, IsList(cmd.lines), NEW ref, Post(cmd, ref)
    PROVE  Appended(movements, movements', cmd, ref)
<1> DEFINE n == Len(cmd.lines)
           m == movements
           new == [i \in DOMAIN cmd.lines |-> MovementFor(cmd, i, Len(m) + i, ref)]
           after == movements'
<1>1. after = m \o new /\ IsList(m) /\ Len(m) \in Nat
  BY ListDomain DEF Post
<1>2. n \in Nat /\ DOMAIN cmd.lines = 1 .. n
  BY ListDomain
<1>3. new = [i \in 1 .. n |-> new[i]]
  BY <1>2
<1>4. \A i \in 1 .. n :
          /\ new[i].ref = ref /\ new[i].grain = cmd.lines[i].grain
          /\ new[i].delta = LineDeltas(cmd.lines[i]) /\ new[i].key = IF i = 1 THEN cmd.key ELSE NoKey
  BY <1>2 DEF MovementFor
<1> HIDE DEF new, m, after
<1>5. IsList(new) /\ Len(new) = n
  BY <1>2, <1>3, MappedList
<1>6. /\ IsList(after) /\ Len(after) = Len(m) + n
      /\ \A i \in 1 .. Len(m) : after[i] = m[i]
  <2>1. IsList(m \o new) /\ Len(m \o new) = Len(m) + Len(new)
    BY <1>1, <1>5, JoinedList
  <2>2. \A i \in 1 .. Len(m) : (m \o new)[i] = m[i]
    BY <1>1, <1>5, JoinedList
  <2> QED BY <1>1, <1>5, <2>1, <2>2
<1>7. DOMAIN after = 1 .. Len(after)
  BY <1>6, ListDomain
<1>8. \A i \in 1 .. n : after[Len(m) + i] = new[i]
  <2>1. \A i \in 1 .. Len(new) : (m \o new)[Len(m) + i] = new[i]
    BY <1>1, <1>5, JoinedList
  <2> QED BY <1>1, <1>5, <2>1
<1> QED BY <1>1, <1>2, <1>4, <1>6, <1>7, <1>8 DEF Appended, m, after, n

(* The keys in the journal are those before and that of the posting, if it   *)
(* has a line.                                                               *)
LEMMA PostKeys ==
    ASSUME NEW m, DOMAIN m = 1 .. Len(m), NEW after, NEW cmd, NEW ref, Appended(m, after, cmd, ref),
           NEW key
    PROVE  KeyedBy(after, key) # {} <=>
               KeyedBy(m, key) # {} \/ (key # NoKey /\ cmd.key = key /\ Len(cmd.lines) > 0)
<1> DEFINE n == Len(m)
           k == Len(cmd.lines)
<1>1. n \in Nat /\ k \in Nat /\ DOMAIN after = 1 .. n + k
  BY DEF Appended
<1>2. \A i \in 1 .. n : after[i] = m[i] /\ i \in 1 .. n + k
  BY <1>1 DEF Appended
<1>3. \A i \in 1 .. k : after[n + i].key = (IF i = 1 THEN cmd.key ELSE NoKey) /\ n + i \in 1 .. n + k
  BY <1>1 DEF Appended
<1>4. \A j \in 1 .. n + k : j \in 1 .. n \/ (j - n \in 1 .. k /\ j = n + (j - n))
  BY <1>1
<1> HIDE DEF n, k
<1>5. ASSUME KeyedBy(m, key) # {} PROVE KeyedBy(after, key) # {}
  <2>1. PICK i \in 1 .. n : key # NoKey /\ m[i].key = key
    BY <1>5 DEF KeyedBy, n
  <2>2. i \in DOMAIN after /\ after[i].key = key
    BY <1>1, <1>2, <2>1
  <2> QED BY <2>1, <2>2 DEF KeyedBy
<1>6. ASSUME key # NoKey, cmd.key = key, k > 0 PROVE KeyedBy(after, key) # {}
  <2>1. 1 \in 1 .. k
    BY <1>1, <1>6
  <2>2. n + 1 \in DOMAIN after /\ after[n + 1].key = key
    BY <1>1, <1>3, <1>6, <2>1
  <2> QED BY <1>6, <2>2 DEF KeyedBy
<1>7. ASSUME KeyedBy(after, key) # {}
      PROVE  KeyedBy(m, key) # {} \/ (key # NoKey /\ cmd.key = key /\ k > 0)
  <2>1. PICK j \in 1 .. n + k : key # NoKey /\ after[j].key = key
    BY <1>1, <1>7 DEF KeyedBy
  <2>2. CASE j \in 1 .. n
    <3>1. j \in DOMAIN m /\ m[j].key = key
      BY <1>2, <2>1, <2>2 DEF n
    <3> QED BY <2>1, <3>1 DEF KeyedBy
  <2>3. CASE j \notin 1 .. n
    <3>1. j - n \in 1 .. k /\ j = n + (j - n)
      BY <1>4, <2>3
    <3>2. after[j].key = (IF j - n = 1 THEN cmd.key ELSE NoKey) /\ k > 0
      BY <1>1, <1>3, <3>1
    <3> QED BY <2>1, <3>2
  <2> QED BY <2>2, <2>3
<1> QED BY <1>5, <1>6, <1>7 DEF k

-----------------------------------------------------------------------------
(* A journal of movements whose deltas are numbers. *)
Journal(m) == IsList(m) /\ \A i \in 1 .. Len(m) : m[i].delta \in Row

(* What the movements of journal m are for document d, by row and bucket. *)
MovedIn(m, d) ==
    [g \in Grains |-> [b \in Buckets |->
        SumFunctionOnSet([i \in DOMAIN m |-> m[i].delta[b]],
                         { i \in DOMAIN m : m[i].ref = d /\ m[i].grain = g })]]

(* What movement i of m is for it .. *)
Terms(m, d, g, b) ==
    [i \in 1 .. Len(m) |-> IF m[i].ref = d /\ m[i].grain = g THEN m[i].delta[b] ELSE 0]

(* .. and the sum of these is what the document has moved. *)
LEMMA MovedTerms ==
    ASSUME NEW m, Journal(m), NEW d, NEW g \in Grains, NEW b \in Buckets
    PROVE  /\ MovedIn(m, d)[g][b] = SumOver(Terms(m, d, g, b), 1 .. Len(m))
           /\ MovedIn(m, d)[g][b] \in Int
           /\ \A i \in 1 .. Len(m) : Terms(m, d, g, b)[i] \in Int
<1> DEFINE n == Len(m)
           T == { i \in 1 .. n : m[i].ref = d /\ m[i].grain = g }
           f == [i \in 1 .. n |-> m[i].delta[b]]
           t == Terms(m, d, g, b)
<1>1. n \in Nat /\ DOMAIN m = 1 .. n
  BY ListDomain DEF Journal
<1>2. MovedIn(m, d)[g][b] = SumOver(f, T)
  <2>1. MovedIn(m, d)[g][b] = SumFunctionOnSet(f, T)
    BY <1>1 DEF MovedIn
  <2> HIDE DEF f, T
  <2> QED BY <2>1, SumFunctionIsSum
<1>3. \A i \in 1 .. n : f[i] \in Int /\ t[i] = IF i \in T THEN f[i] ELSE 0
  BY DEF Journal, Row, Terms
<1>4. IsFiniteSet(1 .. n) /\ T \in SUBSET (1 .. n)
  BY <1>1, FS_Interval
<1> DEFINE S == 1 .. n
<1>5. SumOver(t, S) = SumOver(f, T)
  <2>1. IsFiniteSet(S) /\ T \in SUBSET S
    BY <1>4
  <2>2. (\A i \in T : f[i] \in Int /\ t[i] = f[i]) /\ \A i \in S \ T : t[i] = 0
    BY <1>3, <1>4
  <2> HIDE DEF S, T, f, t
  <2> QED BY <2>1, <2>2, SumPart
<1>6. \A i \in S : t[i] \in Int
  BY <1>3
<1>7. SumOver(t, S) \in Int
  <2> HIDE DEF S, t
  <2> QED BY <1>4, <1>6, SumInt DEF S
<1> QED BY <1>2, <1>5, <1>6, <1>7

(* What line i of a posting moves. *)
LineTerms(lines, g, b) ==
    [i \in 1 .. Len(lines) |-> IF lines[i].grain = g THEN LineDeltas(lines[i])[b] ELSE 0]

(* .. and the sum of these is its effect. *)
LEMMA EffectTerms ==
    ASSUME NEW lines, Typed(lines), NEW g \in Grains, NEW b \in Buckets
    PROVE  /\ EffectOf(lines)[g][b] = SumOver(LineTerms(lines, g, b), 1 .. Len(lines))
           /\ EffectOf(lines)[g][b] \in Int
           /\ \A i \in 1 .. Len(lines) : LineTerms(lines, g, b)[i] \in Int
<1> DEFINE n == Len(lines)
           T == { i \in 1 .. n : lines[i].grain = g }
           f == [i \in 1 .. n |-> LineDeltas(lines[i])[b]]
           t == LineTerms(lines, g, b)
<1>1. n \in Nat /\ DOMAIN lines = 1 .. n
  BY ListDomain DEF Typed
<1>2. EffectOf(lines)[g][b] = SumOver(f, T)
  <2>1. EffectOf(lines)[g][b] = SumFunctionOnSet(f, T)
    BY <1>1 DEF EffectOf
  <2> HIDE DEF f, T
  <2> QED BY <2>1, SumFunctionIsSum
<1>3. \A i \in 1 .. n : f[i] \in Int /\ t[i] = IF i \in T THEN f[i] ELSE 0
  BY DEF Typed, PostableLine, Row, LineTerms
<1>4. IsFiniteSet(1 .. n) /\ T \in SUBSET (1 .. n)
  BY <1>1, FS_Interval
<1> DEFINE S == 1 .. n
<1>5. SumOver(t, S) = SumOver(f, T)
  <2>1. IsFiniteSet(S) /\ T \in SUBSET S
    BY <1>4
  <2>2. (\A i \in T : f[i] \in Int /\ t[i] = f[i]) /\ \A i \in S \ T : t[i] = 0
    BY <1>3, <1>4
  <2> HIDE DEF S, T, f, t
  <2> QED BY <2>1, <2>2, SumPart
<1>6. \A i \in S : t[i] \in Int
  BY <1>3
<1>7. SumOver(t, S) \in Int
  <2> HIDE DEF S, t
  <2> QED BY <1>4, <1>6, SumInt DEF S
<1> QED BY <1>2, <1>5, <1>6, <1>7

(* Both are rows of numbers. *)
LEMMA MovedAreBalances ==
    ASSUME NEW m, Journal(m), NEW d
    PROVE  MovedIn(m, d) \in Balances
<1>1. \A g \in Grains, b \in Buckets : MovedIn(m, d)[g][b] \in Int
  BY MovedTerms
<1> DEFINE f(g, b) == SumFunctionOnSet([i \in DOMAIN m |-> m[i].delta[b]],
                                       { i \in DOMAIN m : m[i].ref = d /\ m[i].grain = g })
<1>2. MovedIn(m, d) = [g \in Grains |-> [b \in Buckets |-> f(g, b)]]
  BY DEF MovedIn
<1> HIDE DEF f
<1> QED BY <1>1, <1>2 DEF Balances, Row

(* .. and what lines would move is. *)
LEMMA EffectIsBalances ==
    ASSUME NEW lines, Typed(lines)
    PROVE  EffectOf(lines) \in Balances
<1>1. \A g \in Grains, b \in Buckets : EffectOf(lines)[g][b] \in Int
  BY EffectTerms
<1> DEFINE f(g, b) == SumFunctionOnSet([i \in DOMAIN lines |-> LineDeltas(lines[i])[b]],
                                       { i \in DOMAIN lines : lines[i].grain = g })
<1>2. EffectOf(lines) = [g \in Grains |-> [b \in Buckets |-> f(g, b)]]
  BY DEF EffectOf
<1> HIDE DEF f
<1> QED BY <1>1, <1>2 DEF Balances, Row

(* Balances that agree everywhere are the same. *)
LEMMA SameBalances ==
    ASSUME NEW e \in Balances, NEW f \in Balances, \A g \in Grains, b \in Buckets : e[g][b] = f[g][b]
    PROVE  e = f
<1>1. ASSUME NEW g \in Grains PROVE e[g] = f[g]
  <2>1. e[g] \in [Buckets -> Int] /\ f[g] \in [Buckets -> Int]
    BY DEF Balances, Row
  <2> QED BY <2>1
<1> QED BY <1>1 DEF Balances

(* Nothing added, or added to nothing, is nothing. *)
LEMMA PlusNothing ==
    ASSUME NEW e \in Balances, NEW f \in Balances
    PROVE  /\ Plus(e, f) \in Balances
           /\ \A g \in Grains, b \in Buckets : Plus(e, f)[g][b] = e[g][b] + f[g][b]
           /\ Nothing \in Balances
           /\ Plus(Nothing, f) = f
<1>1. ASSUME NEW p \in Balances, NEW q \in Balances
      PROVE  /\ Plus(p, q) \in Balances
             /\ \A g \in Grains, b \in Buckets : Plus(p, q)[g][b] = p[g][b] + q[g][b]
  BY <1>1, AddDeltasRow DEF Plus, Balances
<1>2. Nothing \in Balances /\ \A g \in Grains, b \in Buckets : Nothing[g][b] = 0
  BY DEF Nothing, EmptyRow, Balances, Row
<1>3. Plus(Nothing, f) = f
  <2>1. \A g \in Grains, b \in Buckets : f[g][b] \in Int
    BY DEF Balances, Row
  <2>2. \A g \in Grains, b \in Buckets : Plus(Nothing, f)[g][b] = f[g][b]
    BY <1>1, <1>2, <2>1
  <2> QED BY <1>1, <1>2, <2>2, SameBalances
<1> QED BY <1>1, <1>2, <1>3

(* No lines have no effect. *)
LEMMA NoLinesMoveNothing == EffectOf(<< >>) = Nothing
<1> DEFINE f(b) == [i \in DOMAIN << >> |-> LineDeltas(<< >>[i])[b]]
           of(g) == { i \in DOMAIN << >> : << >>[i].grain = g }
<1>1. ASSUME NEW g \in Grains, NEW b \in Buckets PROVE SumFunctionOnSet(f(b), of(g)) = 0
  <2> DEFINE fun == f(b)
             S == of(g)
  <2>1. S = {}
    OBVIOUS
  <2> HIDE DEF fun, S
  <2>2. SumFunctionOnSet(fun, S) = 0
    BY <2>1, SumFunctionIsSum, SumEmpty
  <2> QED BY <2>2 DEF fun, S
<1> HIDE DEF f, of
<1>2. [g \in Grains |-> [b \in Buckets |-> SumFunctionOnSet(f(b), of(g))]] = Nothing
  BY <1>1 DEF Nothing, EmptyRow
<1> QED BY <1>2 DEF EffectOf, f, of

(* A posting moves its effect for its document and nothing for any other. *)
LEMMA PostMoves ==
    ASSUME NEW m, Journal(m), NEW after, NEW cmd, NEW ref, Appended(m, after, cmd, ref), Typed(cmd.lines)
    PROVE  /\ Journal(after)
           /\ MovedIn(after, ref) = Plus(MovedIn(m, ref), EffectOf(cmd.lines))
           /\ \A d : d # ref => MovedIn(after, d) = MovedIn(m, d)
<1> DEFINE n == Len(m)
           lines == cmd.lines
           k == Len(lines)
<1>1. /\ n \in Nat /\ k \in Nat /\ IsList(after) /\ Len(after) = n + k
      /\ \A i \in 1 .. n : after[i] = m[i]
      /\ \A i \in 1 .. k :
            /\ after[n + i].ref = ref /\ after[n + i].grain = lines[i].grain
            /\ after[n + i].delta = LineDeltas(lines[i])
  BY DEF Appended
<1>2. \A i \in 1 .. k : LineDeltas(lines[i]) \in Row
  BY DEF Typed, PostableLine
<1>3. Journal(after)
  <2>1. ASSUME NEW j \in 1 .. n + k PROVE after[j].delta \in Row
    <3>1. CASE j \in 1 .. n
      BY <1>1, <3>1 DEF Journal
    <3>2. CASE j \notin 1 .. n
      <4>1. j - n \in 1 .. k /\ j = n + (j - n)
        BY <1>1, <3>2
      <4> HIDE DEF n, k, lines
      <4>2. after[j].delta = LineDeltas(lines[j - n])
        BY <1>1, <4>1
      <4> QED BY <1>2, <4>1, <4>2
    <3> QED BY <3>1, <3>2
  <2> QED BY <1>1, <2>1 DEF Journal
<1>4. ASSUME NEW d, NEW g \in Grains, NEW b \in Buckets
      PROVE  MovedIn(after, d)[g][b] =
                 MovedIn(m, d)[g][b] + (IF d = ref THEN EffectOf(lines)[g][b] ELSE 0)
  <2> DEFINE new == Terms(after, d, g, b)
             old == Terms(m, d, g, b)
             add == [i \in 1 .. k |-> IF d = ref THEN LineTerms(lines, g, b)[i] ELSE 0]
  <2>1. \A i \in 1 .. n : old[i] \in Int /\ new[0 + i] = old[i]
    <3>1. \A i \in 1 .. n : old[i] \in Int
      BY MovedTerms
    <3>2. n + k \in Nat /\ \A i \in 1 .. n : i \in 1 .. n + k /\ 0 + i = i
      <4> HIDE DEF n, k
      <4> QED BY <1>1
    <3>3. ASSUME NEW i \in 1 .. n PROVE new[i] = old[i]
      BY <1>1, <3>2 DEF Terms
    <3> HIDE DEF n, k, new, old
    <3> QED BY <3>1, <3>2, <3>3
  <2>2. \A i \in 1 .. k : add[i] \in Int /\ new[n + i] = add[i]
    <3>1. \A i \in 1 .. k : LineTerms(lines, g, b)[i] \in Int
      BY EffectTerms
    <3>2. \A i \in 1 .. k : n + i \in 1 .. n + k
      <4> HIDE DEF n, k
      <4> QED BY <1>1
    <3>3. ASSUME NEW i \in 1 .. k PROVE new[n + i] = add[i]
      <4>1. new[n + i] = IF after[n + i].ref = d /\ after[n + i].grain = g THEN after[n + i].delta[b] ELSE 0
        BY <1>1, <3>2 DEF Terms
      <4>2. LineTerms(lines, g, b)[i] = IF lines[i].grain = g THEN LineDeltas(lines[i])[b] ELSE 0
        BY DEF LineTerms
      <4> HIDE DEF n, new
      <4> QED BY <1>1, <4>1, <4>2
    <3> HIDE DEF n, new
    <3> QED BY <3>1, <3>3
  <2>3. SumOver(add, 1 .. k) = IF d = ref THEN EffectOf(lines)[g][b] ELSE 0
    <3> DEFINE S == 1 .. k
               part == LineTerms(lines, g, b)
    <3>1. IsFiniteSet(S)
      BY <1>1, FS_Interval
    <3>2. CASE d = ref
      <4>1. EffectOf(lines)[g][b] = SumOver(part, S)
        BY EffectTerms
      <4>2. \A i \in S : add[i] = part[i]
        BY <3>2
      <4> HIDE DEF S, add, part
      <4> QED BY <3>1, <3>2, <4>1, <4>2, SumSame DEF S
    <3>3. CASE d # ref
      <4>1. \A i \in S : add[i] = 0
        BY <3>3
      <4> HIDE DEF S, add
      <4> QED BY <3>1, <3>3, <4>1, SumZero DEF S
    <3> QED BY <3>2, <3>3
  <2>4. /\ MovedIn(after, d)[g][b] = SumOver(new, 1 .. n + k)
        /\ MovedIn(m, d)[g][b] = SumOver(old, 1 .. n)
    BY <1>1, <1>3, MovedTerms
  <2> HIDE DEF new, old, add, n, k
  <2>5. SumOver(new, 1 .. n + k) = SumOver(old, 1 .. n) + SumOver(add, 1 .. k)
    <3>1. Holds(new, 0, old, n) /\ Holds(new, n, add, k)
      BY <2>1, <2>2 DEF Holds
    <3>2. n \in Nat /\ k \in Nat
      BY <1>1
    <3> QED BY <3>1, <3>2, SumConcat
  <2> QED BY <2>3, <2>4, <2>5
<1>5. /\ \A d : MovedIn(after, d) \in Balances /\ MovedIn(m, d) \in Balances
      /\ EffectOf(lines) \in Balances
  BY <1>3, MovedAreBalances, EffectIsBalances
<1> HIDE DEF lines, n, k
<1>6. MovedIn(after, ref) = Plus(MovedIn(m, ref), EffectOf(lines))
  <2> DEFINE e == MovedIn(m, ref)
             f == EffectOf(lines)
             z == MovedIn(after, ref)
  <2>1. /\ e \in Balances /\ f \in Balances /\ z \in Balances
        /\ \A g \in Grains, b \in Buckets : z[g][b] = e[g][b] + f[g][b]
    BY <1>4, <1>5
  <2> HIDE DEF e, f, z
  <2>2. Plus(e, f) \in Balances /\ \A g \in Grains, b \in Buckets : Plus(e, f)[g][b] = e[g][b] + f[g][b]
    BY <2>1, PlusNothing
  <2>3. z = Plus(e, f)
    <3> DEFINE p == Plus(e, f)
    <3>1. p \in Balances /\ \A g \in Grains, b \in Buckets : z[g][b] = p[g][b]
      BY <2>1, <2>2
    <3> HIDE DEF p
    <3> QED BY <2>1, <3>1, SameBalances DEF p
  <2> QED BY <2>3 DEF e, f, z
<1>7. ASSUME NEW d, d # ref PROVE MovedIn(after, d) = MovedIn(m, d)
  <2> DEFINE e == MovedIn(m, d)
             z == MovedIn(after, d)
  <2>1. e \in Balances /\ z \in Balances /\ \A g \in Grains, b \in Buckets : e[g][b] \in Int
    BY <1>5 DEF Balances, Row
  <2>2. \A g \in Grains, b \in Buckets : z[g][b] = e[g][b] + 0
    BY <1>4, <1>7
  <2> HIDE DEF e, z
  <2>3. z = e
    BY <2>1, <2>2, SameBalances
  <2> QED BY <2>3 DEF e, z
<1> QED BY <1>3, <1>6, <1>7 DEF lines

-----------------------------------------------------------------------------
(* The lines that are posted can be *)

(* Lines of documents: each has a row, and a quantity. *)
Sourced(lines) == IsList(lines) /\ \A i \in 1 .. Len(lines) : lines[i].grain \in Grains /\ lines[i].qty \in Int

(* By the direction table every type moves every bucket by a number .. *)
LEMMA TableMoves ==
    ASSUME NEW line, line.grain \in Grains, line.deltas = NoDeltas, line.qty \in Int
    PROVE  PostableLine(line)
BY DEF PostableLine, LineDeltas, BucketDeltasFor, Row

(* .. so that what is dispatched, adjusted .. *)
LEMMA LineByLineTyped ==
    ASSUME NEW lines, Sourced(lines)
    PROVE  /\ Typed(OutLines(lines)) /\ Len(OutLines(lines)) = Len(lines)
           /\ Typed(AdjustmentLines(lines)) /\ Len(AdjustmentLines(lines)) = Len(lines)
<1>1. Len(lines) \in Nat /\ DOMAIN lines = 1 .. Len(lines)
  BY ListDomain DEF Sourced
<1>2. ASSUME NEW f, f = [i \in 1 .. Len(lines) |-> f[i]],
             \A i \in 1 .. Len(lines) : f[i].grain = lines[i].grain /\ f[i].qty = lines[i].qty /\ f[i].deltas = NoDeltas
      PROVE  Typed(f) /\ Len(f) = Len(lines)
  <2>1. IsList(f) /\ Len(f) = Len(lines)
    BY <1>1, <1>2, MappedList
  <2>2. \A i \in 1 .. Len(lines) : PostableLine(f[i])
    BY <1>2, TableMoves DEF Sourced
  <2> QED BY <2>1, <2>2 DEF Typed
<1>3. Typed(OutLines(lines)) /\ Len(OutLines(lines)) = Len(lines)
  <2> DEFINE f == OutLines(lines)
  <2>1. /\ f = [i \in 1 .. Len(lines) |-> f[i]]
        /\ \A i \in 1 .. Len(lines) : f[i].grain = lines[i].grain /\ f[i].qty = lines[i].qty /\ f[i].deltas = NoDeltas
    BY <1>1 DEF OutLines
  <2> HIDE DEF f
  <2>2. Typed(f) /\ Len(f) = Len(lines)
    BY <1>2, <2>1
  <2> QED BY <2>2 DEF f
<1>4. Typed(AdjustmentLines(lines)) /\ Len(AdjustmentLines(lines)) = Len(lines)
  <2> DEFINE f == AdjustmentLines(lines)
  <2>1. /\ f = [i \in 1 .. Len(lines) |-> f[i]]
        /\ \A i \in 1 .. Len(lines) : f[i].grain = lines[i].grain /\ f[i].qty = lines[i].qty /\ f[i].deltas = NoDeltas
    BY <1>1 DEF AdjustmentLines
  <2> HIDE DEF f
  <2>2. Typed(f) /\ Len(f) = Len(lines)
    BY <1>2, <2>1
  <2> QED BY <2>2 DEF f
<1> QED BY <1>3, <1>4

(* No line, and one or two that can be posted. *)
LEMMA ShortTyped ==
    /\ Typed(<< >>)
    /\ \A x : PostableLine(x) => Typed(<< x >>)
    /\ \A x, y : PostableLine(x) /\ PostableLine(y) => Typed(<< x, y >>)
<1>1. ASSUME NEW x, PostableLine(x) PROVE Typed(<< x >>)
  BY <1>1, ShortLists DEF Typed
<1>2. ASSUME NEW x, NEW y, PostableLine(x), PostableLine(y) PROVE Typed(<< x, y >>)
  BY <1>2, ShortLists DEF Typed
<1> QED BY <1>1, <1>2, ShortLists DEF Typed

(* Lists of them, one after the other. *)
LEMMA FlattenedTyped ==
    ASSUME NEW s, IsList(s), \A i \in DOMAIN s : Typed(s[i]), NEW flat, flat = FlattenSeq(s)
    PROVE  /\ Typed(flat)
           /\ s # << >> /\ (\A i \in DOMAIN s : s[i] # << >>) => flat # << >>
<1>1. \A i \in DOMAIN s : IsList(s[i])
  BY DEF Typed
<1>2. /\ IsList(flat)
      /\ \A k \in 1 .. Len(flat) : \E i \in DOMAIN s : \E j \in 1 .. Len(s[i]) : flat[k] = s[i][j]
      /\ s # << >> /\ (\A i \in DOMAIN s : s[i] # << >>) => flat # << >>
  BY <1>1, FlattenedElements
<1>3. ASSUME NEW k \in 1 .. Len(flat) PROVE PostableLine(flat[k])
  BY <1>2 DEF Typed
<1> QED BY <1>2, <1>3 DEF Typed

(* .. received of a transfer .. *)
LEMMA InTyped ==
    ASSUME NEW lines, Sourced(lines), \A i \in 1 .. Len(lines) : lines[i].to \in Grains,
           NEW qty, \A i \in 1 .. Len(lines) : qty[i] \in Int
    PROVE  /\ Typed(InLines(lines, qty))
           /\ lines # << >> /\ (\A i \in 1 .. Len(lines) : qty[i] > 0) => InLines(lines, qty) # << >>
<1> DEFINE Leg(g, q, bucket, delta) ==
               [grain |-> g, type |-> "TRANSFER_IN", qty |-> q, allowNegative |-> FALSE,
                deltas |-> [EmptyRow EXCEPT ![bucket] = delta]]
           legs(i) == << Leg(lines[i].grain, qty[i], "inTransit", -qty[i]),
                         Leg(lines[i].to, qty[i], "onHand", qty[i]) >>
           f == [i \in DOMAIN lines |-> IF qty[i] > 0 THEN legs(i) ELSE << >>]
           flat == InLines(lines, qty)
<1>1. Len(lines) \in Nat /\ DOMAIN lines = 1 .. Len(lines)
  BY ListDomain DEF Sourced
<1>2. flat = FlattenSeq(f)
  BY DEF InLines
<1>3. ASSUME NEW g \in Grains, NEW q \in Int, NEW bucket \in Buckets, NEW delta \in Int
      PROVE  PostableLine(Leg(g, q, bucket, delta))
  <2> DEFINE row == [EmptyRow EXCEPT ![bucket] = delta]
             line == Leg(g, q, bucket, delta)
  <2>1. row \in Row
    BY DEF Row, EmptyRow
  <2>2. line.grain = g /\ line.qty = q /\ line.deltas = row
    OBVIOUS
  <2> HIDE DEF row, line
  <2>3. ASSUME row = NoDeltas PROVE PostableLine(line)
    BY <2>2, <2>3, TableMoves
  <2>4. ASSUME row # NoDeltas PROVE PostableLine(line)
    BY <2>1, <2>2, <2>4 DEF PostableLine, LineDeltas
  <2>5. PostableLine(line)
    BY <2>3, <2>4
  <2> QED BY <2>5 DEF line
<1> HIDE DEF Leg, flat
<1>4. ASSUME NEW i \in DOMAIN lines PROVE Typed(f[i]) /\ (qty[i] > 0 => f[i] # << >>)
  <2>1. qty[i] \in Int /\ -qty[i] \in Int /\ lines[i].grain \in Grains /\ lines[i].to \in Grains
    BY <1>1 DEF Sourced
  <2>2. "inTransit" \in Buckets /\ "onHand" \in Buckets
    BY DEF Buckets
  <2> DEFINE x == Leg(lines[i].grain, qty[i], "inTransit", -qty[i])
             y == Leg(lines[i].to, qty[i], "onHand", qty[i])
  <2>3. PostableLine(x) /\ PostableLine(y)
    <3> DEFINE q == qty[i]
               minus == -qty[i]
               b == "inTransit"
               h == "onHand"
    <3>1. q \in Int /\ minus \in Int /\ b \in Buckets /\ h \in Buckets
      BY <2>1, <2>2
    <3> HIDE DEF q, minus, b, h
    <3>2. PostableLine(Leg(lines[i].grain, q, b, minus)) /\ PostableLine(Leg(lines[i].to, q, h, q))
      BY <1>3, <2>1, <3>1
    <3> QED BY <3>2 DEF q, minus, b, h
  <2>4. f[i] = IF qty[i] > 0 THEN << x, y >> ELSE << >>
    OBVIOUS
  <2> HIDE DEF x, y, f
  <2>5. Typed(<< x, y >>) /\ << x, y >> # << >> /\ Typed(<< >>)
    BY <2>3, ShortTyped
  <2> QED BY <2>4, <2>5
<1>5. f = [i \in 1 .. Len(lines) |-> f[i]]
  BY <1>1
<1> HIDE DEF f
<1>6. IsList(f) /\ Len(f) = Len(lines) /\ DOMAIN f = DOMAIN lines
  BY <1>1, <1>5, MappedList
<1>7. Typed(flat) /\ (f # << >> /\ (\A i \in DOMAIN f : f[i] # << >>) => flat # << >>)
  BY <1>2, <1>4, <1>6, FlattenedTyped
<1>8. lines # << >> => f # << >>
  BY <1>6 DEF Sourced, IsList
<1> QED BY <1>1, <1>4, <1>6, <1>7, <1>8 DEF flat

(* .. of a return .. *)
LEMMA IntakeTyped ==
    ASSUME NEW lines, IsList(lines), NEW qty,
           \A i \in 1 .. Len(lines) : lines[i].grain \in Grains /\ qty[i] \in Int
    PROVE  Typed(IntakeLines(lines, qty))
<1> DEFINE line(i) == [grain |-> lines[i].grain, type |-> "RETURN_RECEIPT", qty |-> qty[i],
                       deltas |-> NoDeltas, allowNegative |-> FALSE]
           f == [i \in DOMAIN lines |-> IF qty[i] > 0 THEN << line(i) >> ELSE << >>]
           flat == IntakeLines(lines, qty)
<1>1. Len(lines) \in Nat /\ DOMAIN lines = 1 .. Len(lines)
  BY ListDomain
<1>2. flat = FlattenSeq(f)
  BY DEF IntakeLines
<1>3. ASSUME NEW i \in DOMAIN lines PROVE Typed(f[i])
  <2> DEFINE l == line(i)
  <2>1. f[i] = IF qty[i] > 0 THEN << l >> ELSE << >>
    OBVIOUS
  <2>2. l.grain \in Grains /\ l.qty \in Int /\ l.deltas = NoDeltas
    BY <1>1
  <2> HIDE DEF l, f
  <2>3. PostableLine(l)
    BY <2>2, TableMoves
  <2> QED BY <2>1, <2>3, ShortTyped
<1>4. f = [i \in 1 .. Len(lines) |-> f[i]]
  BY <1>1
<1> HIDE DEF f, flat
<1>5. IsList(f) /\ DOMAIN f = DOMAIN lines
  BY <1>1, <1>4, MappedList
<1>6. Typed(flat)
  BY <1>2, <1>3, <1>5, FlattenedTyped
<1> QED BY <1>6 DEF flat

(* .. or of a receipt .. *)
LEMMA ReceiptTyped ==
    ASSUME NEW lines, Sourced(lines)
    PROVE  Typed(ReceiptLines(lines))
<1> DEFINE f == [i \in DOMAIN lines |-> IF lines[i].qty > 0 THEN << lines[i] >> ELSE << >>]
           flat == ReceivedLines(lines)
           posted == ReceiptLines(lines)
<1>1. IsList(lines) /\ Len(lines) \in Nat /\ DOMAIN lines = 1 .. Len(lines)
  BY ListDomain DEF Sourced
<1>2. flat = FlattenSeq(f)
  BY DEF ReceivedLines
<1>3. ASSUME NEW i \in DOMAIN lines
      PROVE  IsList(f[i]) /\ \A j \in 1 .. Len(f[i]) : f[i][j] = lines[i]
  <2> DEFINE l == lines[i]
             one == << l >>
             s == f[i]
  <2>1. s = IF l.qty > 0 THEN one ELSE << >>
    OBVIOUS
  <2>2. IsList(one) /\ Len(one) = 1 /\ one[1] = l
    <3> HIDE DEF l
    <3> QED BY ShortLists
  <2> HIDE DEF l, f, one, s
  <2>3. IsList(<< >>) /\ Len(<< >>) = 0
    BY ShortLists
  <2>4. IsList(s) /\ \A j \in 1 .. Len(s) : s[j] = l
    <3>1. ASSUME s = one PROVE IsList(s) /\ \A j \in 1 .. Len(s) : s[j] = l
      BY <2>2, <3>1
    <3>2. ASSUME s = << >> PROVE IsList(s) /\ Len(s) = 0
      BY <2>3, <3>2
    <3>3. s = << >> => \A j \in 1 .. Len(s) : s[j] = l
      BY <3>2
    <3> QED BY <2>1, <3>1, <3>2, <3>3
  <2> QED BY <2>4 DEF l, s
<1>4. f = [i \in 1 .. Len(lines) |-> f[i]]
  BY <1>1
<1>5. posted = [k \in DOMAIN flat |-> posted[k]]
      /\ \A k \in DOMAIN flat : /\ posted[k].grain = flat[k].grain /\ posted[k].qty = flat[k].qty
                                /\ posted[k].deltas = NoDeltas
  BY DEF ReceiptLines
<1> HIDE DEF f, flat, posted
<1>6. IsList(f) /\ DOMAIN f = DOMAIN lines
  BY <1>1, <1>4, MappedList
<1>7. /\ IsList(flat)
      /\ \A k \in 1 .. Len(flat) : \E i \in DOMAIN f : \E j \in 1 .. Len(f[i]) : flat[k] = f[i][j]
  BY <1>2, <1>3, <1>6, FlattenedElements
<1>8. Len(flat) \in Nat /\ DOMAIN flat = 1 .. Len(flat)
  BY <1>7, ListDomain
<1>9. ASSUME NEW k \in 1 .. Len(flat) PROVE PostableLine(posted[k])
  <2>1. PICK i \in DOMAIN lines : flat[k] = lines[i]
    BY <1>3, <1>6, <1>7
  <2>2. posted[k].grain \in Grains /\ posted[k].qty \in Int /\ posted[k].deltas = NoDeltas
    BY <1>1, <1>5, <1>8, <2>1 DEF Sourced
  <2> QED BY <2>2, TableMoves
<1>10. IsList(posted) /\ Len(posted) = Len(flat)
  <2>1. posted = [k \in 1 .. Len(flat) |-> posted[k]]
    BY <1>5, <1>8
  <2> QED BY <1>8, <2>1, MappedList
<1> QED BY <1>9, <1>10 DEF Typed, posted

(* .. or disposed of. *)
LEMMA DisposalTyped ==
    ASSUME NEW j, j.lines[j.line].grain \in Grains, j.qty[1] \in Int, j.next \in DOMAIN Outcomes
    PROVE  Typed(DisposalLines(j))
<1> DEFINE q == j.qty[1]
           out == Outcomes[j.next]
           deltas == [b \in Buckets |-> IF b \in out.buckets THEN -q
                                        ELSE IF b = "damaged" /\ out.to = "DAMAGED" THEN q ELSE 0]
           line == [grain |-> j.lines[j.line].grain, type |-> out.type, qty |-> q, allowNegative |-> FALSE,
                    deltas |-> deltas]
<1>1. DisposalLines(j) = << line >>
  BY DEF DisposalLines
<1>2. line.grain \in Grains /\ line.qty = q /\ line.deltas = deltas /\ q \in Int
  OBVIOUS
<1>3. deltas \in Row
  <2>1. q \in Int /\ -q \in Int
    OBVIOUS
  <2> HIDE DEF q, out
  <2> QED BY <2>1 DEF Row
<1> HIDE DEF line, deltas, q
<1>4. PostableLine(line)
  <2>1. ASSUME deltas = NoDeltas PROVE PostableLine(line)
    BY <1>2, <2>1, TableMoves
  <2>2. ASSUME deltas # NoDeltas PROVE PostableLine(line)
    BY <1>2, <1>3, <2>2 DEF PostableLine, LineDeltas
  <2> QED BY <2>1, <2>2
<1> QED BY <1>1, <1>4, ShortTyped

(* What was found of a count is something to adjust. *)
LEMMA DifferenceSourced ==
    ASSUME NEW items, IsList(items), NEW books, NEW found,
           \A i \in 1 .. Len(items) : /\ items[i].grain \in Grains
                                      /\ books[i].qty \in Int /\ IsFiniteSet(books[i].units),
           found # << >> =>
               \A i \in 1 .. Len(items) : found[i].qty \in Int /\ IsFiniteSet(found[i].units)
    PROVE  Sourced(Difference(items, books, found))
<1> DEFINE flat == Difference(items, books, found)
<1>1. IsList(flat)
  BY DifferenceList
<1>2. ASSUME found # << >>, NEW i \in 1 .. Len(items)
      PROVE  {Cardinality(books[i].units \ found[i].units), Cardinality(found[i].units \ books[i].units),
              books[i].qty - found[i].qty, found[i].qty - books[i].qty} \subseteq Int
  <2>1. IsFiniteSet(books[i].units \ found[i].units) /\ IsFiniteSet(found[i].units \ books[i].units)
    BY <1>2, FS_Difference
  <2>2. /\ Cardinality(books[i].units \ found[i].units) \in Int
        /\ Cardinality(found[i].units \ books[i].units) \in Int
    BY <2>1, FS_CardinalityType
  <2>3. books[i].qty \in Int /\ found[i].qty \in Int
    BY <1>2
  <2>4. books[i].qty - found[i].qty \in Int /\ found[i].qty - books[i].qty \in Int
    BY <2>3
  <2> QED BY <2>2, <2>4
<1>3. ASSUME NEW k \in 1 .. Len(flat) PROVE flat[k].grain \in Grains /\ flat[k].qty \in Int
  <2>1. PICK i \in 1 .. Len(items) :
            /\ flat[k].grain = items[i].grain
            /\ flat[k].qty \in {Cardinality(books[i].units \ found[i].units),
                                Cardinality(found[i].units \ books[i].units),
                                books[i].qty - found[i].qty, found[i].qty - books[i].qty}
    BY DifferenceList
  <2>2. found # << >>
    <3>1. found = << >> => flat = << >>
      BY DEF Difference
    <3> HIDE DEF flat
    <3> QED BY <3>1
  <2> QED BY <1>2, <2>1, <2>2
<1> HIDE DEF flat
<1>4. Sourced(flat)
  BY <1>1, <1>3 DEF Sourced
<1> QED BY <1>4 DEF flat

-----------------------------------------------------------------------------
(* What a request to post is about to post *)

PostingOps == {"dispatch", "receive", "post", "intake", "dispose"}

AtWork(w) == pc[w] \notin {"idle", "answering"}

(* The lines of a job, by what it does. *)
PostedLines(j) ==
    CASE j.op = "dispatch" -> OutLines(j.lines)
      [] j.op = "receive" -> InLines(j.lines, j.qty)
      [] j.op = "intake" -> IntakeLines(j.lines, j.qty)
      [] j.op = "dispose" -> DisposalLines(j)
      [] OTHER -> IF j.doc \in Receipts THEN ReceiptLines(j.lines) ELSE AdjustmentLines(j.lines)

(* Rows hold numbers, and so do movements. *)
StockInv == balance \in Balances /\ Journal(movements)

(* They can be posted, with a key that came with the request. *)
PostableJob(j) ==
    j.op \in PostingOps =>
        Typed(PostedLines(j)) /\ j.key \in KeysOf[j.doc][j.op] \cup {NoKey}

JobInv(w) == AtWork(w) => PostableJob(job[w])

(* Worker w may post that: nothing else moves stock. *)
Posts(w) ==
    /\ AtWork(w) /\ job[w].op \in PostingOps
    /\ Post(CommandOf(job[w], PostedLines(job[w])), job[w].doc)

(* Rows stay rows. *)
LEMMA PostsKeepStock ==
    ASSUME StockInv, NEW w, JobInv(w), Posts(w)
    PROVE  /\ StockInv'
           /\ Appended(movements, movements', CommandOf(job[w], PostedLines(job[w])), job[w].doc)
           /\ MovedIn(movements', job[w].doc) =
                  Plus(MovedIn(movements, job[w].doc), EffectOf(PostedLines(job[w])))
           /\ \A d : d # job[w].doc => MovedIn(movements', d) = MovedIn(movements, d)
<1> DEFINE cmd == CommandOf(job[w], PostedLines(job[w]))
           ref == job[w].doc
           lines == PostedLines(job[w])
           m == movements
           after == movements'
<1>1. cmd.lines = lines /\ Typed(lines) /\ Post(cmd, ref) /\ IsList(m) /\ Journal(m)
  BY DEF CommandOf, Posts, JobInv, PostableJob, StockInv, Journal
<1> HIDE DEF cmd, ref, lines
<1>2. IsList(cmd.lines) /\ Typed(cmd.lines)
  BY <1>1 DEF Typed
<1>3. Appended(m, after, cmd, ref)
  BY <1>1, <1>2, PostAppends
<1>4. balance' \in Balances
  <2>1. Len(lines) \in Nat /\ DOMAIN lines = 1 .. Len(lines) /\ \A k \in 1 .. Len(lines) : PostableLine(lines[k])
    BY <1>1, ListDomain DEF Typed
  <2>2. Posted(lines).bal \in Balances
    BY <2>1, PostedMoves DEF StockInv
  <2> QED BY <1>1, <2>2 DEF Post
<1> HIDE DEF m, after
<1>5. /\ Journal(after)
      /\ MovedIn(after, ref) = Plus(MovedIn(m, ref), EffectOf(cmd.lines))
      /\ \A d : d # ref => MovedIn(after, d) = MovedIn(m, d)
  BY <1>1, <1>2, <1>3, PostMoves
<1>6. StockInv'
  BY <1>4, <1>5 DEF StockInv, after
<1> QED BY <1>1, <1>3, <1>5, <1>6 DEF cmd, ref, lines, m, after

-----------------------------------------------------------------------------
(* What a handler does at a step *)

(* To the ledger: nothing, or it posts what it has loaded. *)
StockStep(w) == UNCHANGED stockVars \/ Posts(w)

(* To its worker: that is done .. *)
Ends(w) == pc'[w] \in {"idle", "answering"}

(* .. or has something to do still, with what it has loaded. *)
GoesOn(w) == AtWork(w) /\ job'[w] = job[w]

(* Each transaction of a handler. *)
LEMMA EndsOrGoesOn ==
    ASSUME ShapeInv, NEW w \in Workers
    PROVE  /\ \A o : Finish(w, o) => Ends(w)
           /\ \A step : Goto(w, step) => pc'[w] = step /\ job' = job
BY DEF Finish, Goto, Ends, ShapeInv

(* Its posting in a transaction of the ledger's own .. *)
LEMMA TakeWorks ==
    ASSUME ShapeInv, NEW w \in Workers, AtWork(w), job[w].op \in PostingOps,
           NEW lines, lines = PostedLines(job[w]), Take(w, lines)
    PROVE  StockStep(w) /\ (Ends(w) \/ GoesOn(w))
<1>1. Finish(w, "DECLINED") \/ Goto(w, "posted")
  BY DEF Take, Refuse, Reply
<1>2. Ends(w) \/ GoesOn(w)
  BY <1>1, EndsOrGoesOn DEF GoesOn
<1>3. StockStep(w)
  BY DEF Take, Refuse, Reply, StockStep, Posts
<1> QED BY <1>2, <1>3

(* .. and the steps that do not post. *)
LEMMA LooksWork ==
    ASSUME ShapeInv, NEW w \in Workers, AtWork(w)
    PROVE  /\ \A fit : Look(w, fit) => UNCHANGED stockVars /\ (Ends(w) \/ GoesOn(w))
           /\ \A lines, fit : Enter(w, lines, fit) => UNCHANGED stockVars /\ (Ends(w) \/ GoesOn(w))
           /\ \A s : Advance(w, s) => UNCHANGED stockVars /\ Ends(w)
           /\ Edit(w) => UNCHANGED stockVars /\ Ends(w)
           /\ Refuse(w) => UNCHANGED stockVars /\ Ends(w)
           /\ \A s : WriteTask(w, s) => UNCHANGED stockVars /\ Ends(w)
<1>1. ASSUME NEW fit, Look(w, fit) PROVE UNCHANGED stockVars /\ (Ends(w) \/ GoesOn(w))
  <2>1. UNCHANGED stockVars /\ (Finish(w, "DECLINED") \/ Goto(w, "recording"))
    BY <1>1 DEF Look, Refuse, Reply
  <2> QED BY <2>1, EndsOrGoesOn DEF GoesOn
<1>2. ASSUME NEW lines, NEW fit, Enter(w, lines, fit) PROVE UNCHANGED stockVars /\ (Ends(w) \/ GoesOn(w))
  <2>1. UNCHANGED stockVars /\ (Finish(w, "APPLIED") \/ Finish(w, "DECLINED") \/ Goto(w, "posting"))
    BY <1>2 DEF Enter, Reply
  <2> QED BY <2>1, EndsOrGoesOn DEF GoesOn
<1>3. ASSUME NEW s, Advance(w, s) PROVE UNCHANGED stockVars /\ Ends(w)
  BY <1>3, EndsOrGoesOn DEF Advance
<1>4. Edit(w) => UNCHANGED stockVars /\ Ends(w)
  BY EndsOrGoesOn DEF Edit
<1>5. Refuse(w) => UNCHANGED stockVars /\ Ends(w)
  BY EndsOrGoesOn DEF Refuse, Reply
<1>6. ASSUME NEW s, WriteTask(w, s) PROVE UNCHANGED stockVars /\ Ends(w)
  BY <1>3, <1>5, <1>6 DEF WriteTask
<1> QED BY <1>1, <1>2, <1>3, <1>4, <1>5, <1>6

(* What handlers do, service by service: transfers .. *)
LEMMA TransferWorks ==
    ASSUME ShapeInv, NEW w \in Workers, TransferStep(w)
    PROVE  StockStep(w) /\ (Ends(w) \/ GoesOn(w))
<1>1. AtWork(w)
  BY DEF TransferStep, AdvanceTransfer, EditTransfer, Edit, ValidateDispatch, PostDispatch, LookDispatch,
         RecordDispatch, PostReceive, LookReceive, RecordReceive, At, AtWork
<1>2. CASE AdvanceTransfer(w) \/ EditTransfer(w) \/ LookDispatch(w) \/ LookReceive(w)
  BY <1>1, <1>2, LooksWork DEF AdvanceTransfer, EditTransfer, LookDispatch, LookReceive, StockStep
<1>3. CASE ValidateDispatch(w)
  <2>1. UNCHANGED stockVars /\ (Finish(w, "DECLINED") \/ Goto(w, "validated"))
    BY <1>3 DEF ValidateDispatch, Refuse, Reply
  <2> QED BY <1>1, <2>1, EndsOrGoesOn DEF GoesOn, StockStep
<1>4. CASE PostDispatch(w)
  <2> DEFINE l == OutLines(job[w].lines)
  <2>1. job[w].op \in PostingOps /\ l = PostedLines(job[w]) /\ Take(w, l)
    BY <1>4 DEF PostDispatch, At, PostingOps, PostedLines
  <2> HIDE DEF l
  <2> QED BY <1>1, <2>1, TakeWorks
<1>5. CASE PostReceive(w)
  <2> DEFINE l == InLines(job[w].lines, job[w].qty)
  <2>1. job[w].op \in PostingOps /\ l = PostedLines(job[w]) /\ Take(w, l)
    BY <1>5 DEF PostReceive, At, PostingOps, PostedLines
  <2> HIDE DEF l
  <2> QED BY <1>1, <2>1, TakeWorks
<1>6. CASE RecordDispatch(w) \/ RecordReceive(w)
  <2>1. UNCHANGED stockVars /\ Finish(w, "APPLIED")
    BY <1>6 DEF RecordDispatch, RecordReceive
  <2> QED BY <2>1, EndsOrGoesOn DEF StockStep
<1> QED BY <1>2, <1>3, <1>4, <1>5, <1>6 DEF TransferStep

(* .. receipts .. *)
LEMMA ReceiptWorks ==
    ASSUME ShapeInv, NEW w \in Workers, ReceiptStep(w)
    PROVE  StockStep(w) /\ (Ends(w) \/ GoesOn(w))
<1>1. AtWork(w)
  BY DEF ReceiptStep, CancelReceipt, EditReceipt, Edit, PostReceipt, CloseReceipt, At, AtWork
<1>2. CASE CancelReceipt(w) \/ EditReceipt(w) \/ PostReceipt(w)
  BY <1>1, <1>2, LooksWork DEF CancelReceipt, EditReceipt, PostReceipt, StockStep
<1>3. CASE CloseReceipt(w)
  <2>1. Posts(w) /\ Finish(w, "APPLIED")
    BY <1>1, <1>3 DEF CloseReceipt, At, Posts, PostingOps, PostedLines
  <2> QED BY <2>1, EndsOrGoesOn DEF StockStep
<1> QED BY <1>2, <1>3 DEF ReceiptStep

(* .. adjustments .. *)
LEMMA AdjustmentWorks ==
    ASSUME ShapeInv, NEW w \in Workers, AdjustmentStep(w)
    PROVE  StockStep(w) /\ (Ends(w) \/ GoesOn(w))
<1>1. AtWork(w)
  BY DEF AdjustmentStep, SubmitAdjustment, ApproveAdjustment, EndAdjustment, EditAdjustment, Edit,
         PostAdjustment, CloseAdjustment, At, AtWork
<1>2. CASE SubmitAdjustment(w) \/ ApproveAdjustment(w) \/ EndAdjustment(w)
  BY <1>1, <1>2, LooksWork DEF SubmitAdjustment, ApproveAdjustment, EndAdjustment, StockStep
<1>3. CASE EditAdjustment(w) \/ PostAdjustment(w)
  BY <1>1, <1>3, LooksWork DEF EditAdjustment, PostAdjustment, StockStep
<1>4. CASE CloseAdjustment(w)
  <2>1. job[w].doc \in Adjustments /\ job[w].doc \notin Receipts
    BY <1>4 DEF CloseAdjustment, Adjustments, Receipts
  <2>2. Posts(w) /\ Finish(w, "APPLIED")
    BY <1>1, <1>4, <2>1 DEF CloseAdjustment, At, Posts, PostingOps, PostedLines
  <2> QED BY <2>2, EndsOrGoesOn DEF StockStep
<1> QED BY <1>2, <1>3, <1>4 DEF AdjustmentStep

(* .. returns .. *)
LEMMA ReturnWorks ==
    ASSUME ShapeInv, NEW w \in Workers, ReturnStep(w)
    PROVE  StockStep(w) /\ (Ends(w) \/ GoesOn(w))
<1>1. AtWork(w)
  BY DEF ReturnStep, PostIntake, LookIntake, RecordIntake, CancelReturn, PostDisposal, CloseDisposal, At, AtWork
<1>2. CASE PostIntake(w)
  <2> DEFINE l == IntakeLines(job[w].lines, job[w].qty)
  <2>1. job[w].op \in PostingOps /\ l = PostedLines(job[w]) /\ Take(w, l)
    BY <1>2 DEF PostIntake, At, PostingOps, PostedLines
  <2> HIDE DEF l
  <2> QED BY <1>1, <2>1, TakeWorks
<1>3. CASE LookIntake(w) \/ CancelReturn(w) \/ PostDisposal(w)
  BY <1>1, <1>3, LooksWork DEF LookIntake, CancelReturn, PostDisposal, StockStep
<1>4. CASE RecordIntake(w)
  BY <1>4, EndsOrGoesOn DEF RecordIntake, StockStep
<1>5. CASE CloseDisposal(w)
  <2>1. Posts(w) /\ Finish(w, "APPLIED")
    BY <1>1, <1>5 DEF CloseDisposal, At, Posts, PostingOps, PostedLines
  <2> QED BY <2>1, EndsOrGoesOn DEF StockStep
<1> QED BY <1>2, <1>3, <1>4, <1>5 DEF ReturnStep

(* .. counts and tasks, of which a task that is to be counted again has      *)
(* another to start.                                                         *)
LEMMA CountWorks ==
    ASSUME ShapeInv, NEW w \in Workers, CountStep(w) \/ TaskStep(w)
    PROVE  /\ StockStep(w)
           /\ Ends(w) \/ GoesOn(w) \/ \E k \in Tasks : job'[w] = Job("start", k) /\ pc'[w] = "loaded"
<1>1. AtWork(w)
  BY DEF CountStep, EnterCounts, AdvanceCount, PostCount, CloseCount, TaskStep, AssignTask, StartCount,
         LinkCount, Recount, CompleteTask, CancelTask, WithdrawCount, CloseTask, At, AtWork
<1>2. CASE EnterCounts(w) \/ CompleteTask(w)
  <2>1. UNCHANGED stockVars /\ Finish(w, "APPLIED")
    BY <1>2 DEF EnterCounts, CompleteTask
  <2> QED BY <2>1, EndsOrGoesOn DEF StockStep
<1>3. CASE AdvanceCount(w) \/ PostCount(w)
  BY <1>1, <1>3, LooksWork DEF AdvanceCount, PostCount, StockStep
<1>4. CASE CloseCount(w)
  <2>1. job[w].doc \in Counts /\ job[w].doc \notin Receipts
    BY <1>4 DEF CloseCount, Counts, Receipts
  <2>2. Posts(w) /\ (Finish(w, "APPLIED") \/ Goto(w, "completing"))
    BY <1>1, <1>4, <2>1 DEF CloseCount, At, Posts, PostingOps, PostedLines
  <2> QED BY <1>1, <2>2, EndsOrGoesOn DEF StockStep, GoesOn
<1>5. CASE AssignTask(w) \/ LinkCount(w) \/ CloseTask(w)
  BY <1>1, <1>5, LooksWork DEF AssignTask, LinkCount, CloseTask, StockStep
<1>6. CASE StartCount(w)
  <2>1. \/ UNCHANGED stockVars /\ Goto(w, "linking")
        \/ WriteTask(w, "IN_PROGRESS")
        \/ Refuse(w)
    BY <1>6 DEF StartCount
  <2> QED BY <1>1, <2>1, LooksWork, EndsOrGoesOn DEF StockStep, GoesOn
<1>7. CASE CancelTask(w)
  <2>1. \/ UNCHANGED stockVars /\ Goto(w, "withdrawing")
        \/ WriteTask(w, "CANCELLED")
        \/ Refuse(w)
    BY <1>7 DEF CancelTask
  <2> QED BY <1>1, <2>1, LooksWork, EndsOrGoesOn DEF StockStep, GoesOn
<1>8. CASE WithdrawCount(w)
  BY <1>1, <1>8, EndsOrGoesOn DEF WithdrawCount, StockStep, GoesOn
<1>9. CASE Recount(w)
  <2>1. CASE Refuse(w)
    BY <1>1, <2>1, LooksWork DEF StockStep
  <2>2. ASSUME NEW k \in Tasks, job' = [job EXCEPT ![w] = Job("start", k)], UNCHANGED << stockVars, pc >>
        PROVE  StockStep(w) /\ job'[w] = Job("start", k) /\ pc'[w] = "loaded"
    BY <1>9, <2>2 DEF Recount, At, ShapeInv, StockStep
  <2> QED BY <1>9, <2>1, <2>2 DEF Recount
<1> QED BY <1>2, <1>3, <1>4, <1>5, <1>6, <1>7, <1>8, <1>9 DEF CountStep, TaskStep

-----------------------------------------------------------------------------
(* What a step moves *)

Keyed(key) == KeyedBy(movements, key) # {}

(* The one key that requests for an operation of a document come with. *)
OneKey(d, op) == \E key : key # NoKey /\ KeysOf[d][op] = {key}
TheKey(d, op) == CHOOSE key : KeysOf[d][op] = {key}

(* It is a key, and there is no other. *)
LEMMA OneKeyOnly ==
    ASSUME NEW d, NEW op, OneKey(d, op)
    PROVE  TheKey(d, op) # NoKey /\ KeysOf[d][op] = {TheKey(d, op)}
BY DEF OneKey, TheKey

(* A step moves stock for the document of its handler only, and uses no key  *)
(* but that of its request.                                                  *)
LEMMA StockMoves ==
    ASSUME ShapeInv, StockInv, NEW w \in Workers, JobInv(w), StockStep(w)
    PROVE  /\ StockInv'
           /\ \A d : d # job[w].doc => MovedIn(movements', d) = MovedIn(movements, d)
           /\ \A key : Keyed(key) => Keyed(key)'
           /\ \A key : Keyed(key)' /\ ~Keyed(key) => Posts(w) /\ key # NoKey /\ key = job[w].key
<1>1. CASE UNCHANGED stockVars
  BY <1>1 DEF stockVars, StockInv, Keyed
<1>2. CASE Posts(w)
  <2> DEFINE cmd == CommandOf(job[w], PostedLines(job[w]))
             ref == job[w].doc
             m == movements
             after == movements'
  <2>1. /\ StockInv' /\ Appended(m, after, cmd, ref)
        /\ \A d : d # ref => MovedIn(after, d) = MovedIn(m, d)
    BY <1>2, PostsKeepStock
  <2>2. DOMAIN m = 1 .. Len(m)
    BY ListDomain DEF ShapeInv
  <2>3. cmd.key = job[w].key
    BY DEF CommandOf
  <2> HIDE DEF cmd, ref, m, after
  <2>4. \A key : KeyedBy(after, key) # {} <=>
                     KeyedBy(m, key) # {} \/ (key # NoKey /\ cmd.key = key /\ Len(cmd.lines) > 0)
    BY <2>1, <2>2, PostKeys
  <2>5. \A key : (Keyed(key) <=> KeyedBy(m, key) # {}) /\ (Keyed(key)' <=> KeyedBy(after, key) # {})
    BY DEF Keyed, m, after
  <2> QED BY <1>2, <2>1, <2>3, <2>4, <2>5 DEF ref, m, after
<1> QED BY <1>1, <1>2 DEF StockStep

-----------------------------------------------------------------------------
(* Documents that are posted once *)

(* Receipts, adjustments and counts post and are recorded in one transaction. *)
Once == Receipts \cup Adjustments \cup Counts

Unposted == {"NONE", "DRAFT", "COUNTING"}

(* What such a document says is to move. *)
Due(d) ==
    IF d \in Receipts THEN ReceiptLines(Lines(d))
    ELSE IF d \in Counts THEN AdjustmentLines(Variance(d)) ELSE AdjustmentLines(Lines(d))

(* A task has been told that count c is posted, or is about to be. *)
Completed(c) ==
    \/ \E w \in Workers : pc[w] = "completing" /\ job[w].doc = c
    \/ \E k \in completions : CountOf[k] = c

(* It says that stock has moved .. *)
Booked(d) ==
    IF d \in Receipts THEN d \in postedAt
    ELSE status[d] = "POSTED" \/ (d \in Counts /\ Completed(d))

(* .. or the ledger does. *)
Told(d) == StockMovedFor(d) \/ Booked(d)

Rewriting(w, d) == pc[w] = "loaded" /\ job[w].doc = d /\ job[w].op \in {"edit", "enter"}
Posting(w, d) == pc[w] \in {"loaded", "posting"} /\ job[w].doc = d /\ job[w].op = "post"
Deciding(w, d) == pc[w] = "loaded" /\ job[w].doc = d /\ job[w].op \notin {"edit", "post"}

(* What a request for d has loaded still holds where it matters: whoever     *)
(* rewrites d is alone with it, and nothing is posted; whoever posts it      *)
(* posts what it says; and nobody sends it back to where it came from.       *)
OnceRequest(w, d) ==
    /\ Rewriting(w, d) => ~Told(d) /\ \A v \in Workers \ {w} : job[v].doc # d
    /\ Posting(w, d) =>
          /\ status[d] # "NONE"
          /\ PostedLines(job[w]) = Due(d)
          /\ job[w].key = TheKey(d, "post") \/ Due(d) = << >>
    /\ Deciding(w, d) => job[w].next \notin Unposted \cup {"POSTED"}

(* Document and ledger tell the same. *)
OnceInv(d) ==
    /\ status[d] \in Unposted => ~Told(d)
    /\ Told(d) => MovedIn(movements, d) = EffectOf(Due(d))
    /\ StockMovedFor(d) => Keyed(TheKey(d, "post")) /\ (d \in Receipts => d \in postedAt)
    /\ \A w \in Workers : OnceRequest(w, d)

(* A step that moves nothing for d. *)
StockStays(d) ==
    /\ MovedIn(movements', d) = MovedIn(movements, d)
    /\ StockMovedFor(d)' <=> StockMovedFor(d)
    /\ \A key : Keyed(key) => Keyed(key)'

(* A worker that takes up nothing to do with d. *)
Leaves(w, d) ==
    /\ job'[w].doc = d => job[w].doc = d
    /\ pc'[w] \notin {"loaded", "posting"} \/ job'[w].doc # d

(* Steps of handlers of other documents are of that kind, and those that     *)
(* leave the ledger as it is.                                                *)
LEMMA StockStaysSame ==
    ASSUME ShapeInv, StockInv, NEW w \in Workers, JobInv(w), StockStep(w), NEW D, Step(w, D), NEW d \in Docs,
           d # job[w].doc \/ UNCHANGED stockVars
    PROVE  StockStays(d)
<1>1. \A key : Keyed(key) => Keyed(key)'
  BY StockMoves
<1>2. CASE UNCHANGED stockVars
  BY <1>1, <1>2 DEF stockVars, StockStays, StockMovedFor
<1>3. CASE ~UNCHANGED stockVars
  <2>1. Posts(w) /\ d # job[w].doc
    BY <1>3 DEF StockStep
  <2> DEFINE ref == job[w].doc
             E == {ref}
             m == movements
             after == movements'
             cmd == CommandOf(job[w], PostedLines(job[w]))
  <2>2. IsList(cmd.lines) /\ ref \in E /\ d \notin E /\ Post(cmd, ref)
    BY <2>1 DEF Posts, CommandOf, JobInv, PostableJob, Typed
  <2> HIDE DEF cmd, ref, E
  <2>3. LedgerStep(E)
    BY <2>2, PostSteps
  <2>4. StockMovedFor(d)' <=> StockMovedFor(d)
    BY <2>2, <2>3, LedgerStepMoves
  <2>5. MovedIn(movements', d) = MovedIn(movements, d)
    BY <2>1, StockMoves
  <2> QED BY <1>1, <2>4, <2>5 DEF StockStays
<1> QED BY <1>2, <1>3

(* A step that changes nothing that d says, and does not send it back. *)
LEMMA OnceAside ==
    ASSUME NEW d \in Docs, OnceInv(d), NEW w \in Workers, NEW D, Step(w, D), StockStays(d),
           Due(d)' = Due(d), Booked(d)' => Booked(d), d \in Receipts /\ d \in postedAt => d \in postedAt',
           status'[d] \in Unposted => status'[d] = status[d],
           \/ Leaves(w, d)
           \/ Posting(w, d) /\ pc'[w] = "posting" /\ job'[w] = job[w]
    PROVE  OnceInv(d)'
<1>1. Told(d)' => Told(d)
  BY DEF Told, StockStays
<1>2. \A v \in Workers \ {w} : pc'[v] = pc[v] /\ job'[v] = job[v]
  BY DEF Step, WorkerStep
<1>3. status'[d] = "NONE" => status[d] = "NONE"
  BY DEF Unposted
<1>4. ASSUME NEW v \in Workers PROVE OnceRequest(v, d)'
  <2>1. CASE pc'[v] = pc[v] /\ job'[v] = job[v] /\ (v = w => Posting(w, d))
    <3>1. /\ Rewriting(v, d)' <=> Rewriting(v, d)
          /\ Posting(v, d)' <=> Posting(v, d)
          /\ Deciding(v, d)' <=> Deciding(v, d)
      BY <2>1 DEF Rewriting, Posting, Deciding
    <3>2. OnceRequest(v, d)
      BY DEF OnceInv
    <3>3. ASSUME Rewriting(v, d)' PROVE ~Told(d)' /\ \A u \in Workers \ {v} : job'[u].doc # d
      <4>1. ~Told(d) /\ \A u \in Workers \ {v} : job[u].doc # d
        BY <3>1, <3>2, <3>3 DEF OnceRequest
      <4>2. v # w
        BY <2>1, <3>1, <3>3 DEF Posting, Rewriting
      <4>3. job'[w].doc # d
        BY <4>1, <4>2 DEF Leaves, Posting
      <4> QED BY <1>1, <1>2, <4>1, <4>3
    <3>4. ASSUME Posting(v, d)'
          PROVE  /\ status'[d] # "NONE" /\ PostedLines(job'[v]) = Due(d)'
                 /\ job'[v].key = TheKey(d, "post") \/ Due(d)' = << >>
      BY <1>3, <2>1, <3>1, <3>2, <3>4 DEF OnceRequest
    <3>5. Deciding(v, d)' => job'[v].next \notin Unposted \cup {"POSTED"}
      BY <2>1, <3>1, <3>2 DEF OnceRequest
    <3> QED BY <3>3, <3>4, <3>5 DEF OnceRequest, TheKey, Unposted
  <2>2. CASE pc'[v] \notin {"loaded", "posting"} \/ job'[v].doc # d
    BY <2>2 DEF OnceRequest, Rewriting, Posting, Deciding
  <2>3. CASE v = w /\ Posting(w, d) /\ pc'[w] = "posting" /\ job'[w] = job[w]
    <3>1. OnceRequest(w, d)
      BY DEF OnceInv
    <3>2. ~Rewriting(w, d)' /\ ~Deciding(w, d)'
      BY <2>3 DEF Rewriting, Deciding
    <3>3. /\ status'[d] # "NONE" /\ PostedLines(job'[w]) = Due(d)'
          /\ job'[w].key = TheKey(d, "post") \/ Due(d)' = << >>
      BY <1>3, <2>3, <3>1 DEF OnceRequest
    <3> QED BY <2>3, <3>2, <3>3 DEF OnceRequest, TheKey
  <2> QED BY <1>2, <2>1, <2>2, <2>3 DEF Leaves
<1>5. /\ status'[d] \in Unposted => ~Told(d)'
      /\ Told(d)' => MovedIn(movements', d) = EffectOf(Due(d)')
      /\ StockMovedFor(d)' => Keyed(TheKey(d, "post"))' /\ (d \in Receipts => d \in postedAt')
  BY <1>1 DEF OnceInv, StockStays, TheKey
<1> QED BY <1>4, <1>5 DEF OnceInv, Unposted, TheKey, Receipts

(* A step that changes what d says, before anything is posted of it and      *)
(* while nobody is about to.                                                 *)
LEMMA OnceDrawn ==
    ASSUME NEW d \in Docs, OnceInv(d), NEW w \in Workers, NEW D, Step(w, D), StockStays(d),
           ~Told(d), Booked(d)' => Booked(d), \A v \in Workers \ {w} : ~Posting(v, d), Leaves(w, d)
    PROVE  OnceInv(d)'
<1>1. ~Told(d)' /\ ~StockMovedFor(d)'
  BY DEF Told, StockStays
<1>2. \A v \in Workers \ {w} : pc'[v] = pc[v] /\ job'[v] = job[v]
  BY DEF Step, WorkerStep
<1>3. ASSUME NEW v \in Workers PROVE OnceRequest(v, d)'
  <2>1. CASE v # w
    <3>1. OnceRequest(v, d) /\ pc'[v] = pc[v] /\ job'[v] = job[v]
      BY <1>2, <2>1 DEF OnceInv
    <3>2. Rewriting(v, d)' => \A u \in Workers \ {v} : job'[u].doc # d
      BY <1>2, <2>1, <3>1 DEF OnceRequest, Rewriting, Leaves
    <3>3. ~Posting(v, d)'
      BY <2>1, <3>1 DEF Posting
    <3>4. Deciding(v, d)' => job'[v].next \notin Unposted \cup {"POSTED"}
      BY <3>1 DEF OnceRequest, Deciding
    <3> QED BY <1>1, <3>2, <3>3, <3>4 DEF OnceRequest, Unposted
  <2>2. CASE v = w
    BY <2>2 DEF OnceRequest, Rewriting, Posting, Deciding, Leaves
  <2> QED BY <2>1, <2>2
<1> QED BY <1>1, <1>3 DEF OnceInv

(* What d says is what it has said, if its items, and what is known of a     *)
(* count, are the same; and so is whether it is posted.                      *)
LEMMA DueSame ==
    ASSUME NEW d \in Docs, content'[d] = content[d],
           d \in Counts => expected'[d] = expected[d] /\ counted'[d] = counted[d]
    PROVE  Due(d)' = Due(d)
BY DEF Due, Lines, Variance, Receipts, Counts

(* .. and it is not told of as posted if it has not been. *)
LEMMA BookedSame ==
    ASSUME ShapeInv, NEW d \in Docs, NEW w \in Workers, NEW D, Step(w, D),
           d \in Receipts => (d \in postedAt' <=> d \in postedAt),
           d \in Counts => \A k \in completions' : CountOf[k] = d => Completed(d),
           status'[d] = "POSTED" => status[d] = "POSTED",
           pc'[w] = "completing" => job'[w].doc # d
    PROVE  Booked(d)' => Booked(d)
<1>1. \A v \in Workers \ {w} : pc'[v] = pc[v] /\ job'[v] = job[v]
  BY DEF Step, WorkerStep
<1>2. ASSUME d \in Counts, Completed(d)' PROVE Completed(d)
  BY <1>1, <1>2 DEF Completed
<1> QED BY <1>2 DEF Booked, Receipts, Counts

(* The step of a handler of other documents. *)
LEMMA OnceElsewhere ==
    ASSUME ShapeInv, StockInv, NEW w \in Workers, JobInv(w), StockStep(w), NEW D, Step(w, D),
           NEW d \in Once, d \notin D, OnceInv(d),
           d \in Receipts => (d \in postedAt' <=> d \in postedAt),
           d \in Counts => expected'[d] = expected[d] /\ counted'[d] = counted[d] /\ completions' = completions
    PROVE  OnceInv(d)'
<1>1. d \in Docs /\ d # NoDoc
  BY DocumentsAssumption DEF Once, Receipts, Adjustments, Counts
<1>2. job[w].doc # d /\ job'[w].doc # d
  <2>1. pc[w] = "idle" => job[w].doc = NoDoc
    BY DEF ShapeInv, Idle
  <2>2. pc'[w] = "idle" => job'[w].doc = NoDoc
    BY DEF Step, WorkerStep, Idle
  <2> QED BY <1>1, <2>1, <2>2 DEF Step, WorkerStep
<1>3. status'[d] = status[d] /\ content'[d] = content[d]
  BY <1>1 DEF Step, StatusStep, ContentStep
<1>4. StockStays(d)
  BY <1>1, <1>2, StockStaysSame
<1>5. Due(d)' = Due(d)
  BY <1>1, <1>3, DueSame
<1>6. Booked(d)' => Booked(d)
  <2>1. d \in Counts => \A k \in completions' : CountOf[k] = d => Completed(d)
    BY DEF Completed
  <2> QED BY <1>1, <1>2, <1>3, <2>1, BookedSame
<1>7. d \in Receipts /\ d \in postedAt => d \in postedAt'
  OBVIOUS
<1>8. Leaves(w, d)
  BY <1>2 DEF Leaves
<1> QED BY <1>1, <1>3, <1>4, <1>5, <1>6, <1>7, <1>8, OnceAside

(* Whoever rewrites a document of a kind is alone with it. *)
RewritesAlone(kind) == {"edit", "enter"} \cap MayOverlap[kind] = {}

(* A request for d is taken up. *)
LEMMA OnceLoaded ==
    ASSUME ShapeInv, NEW d \in Once, RewritesAlone(KindOf[d]), OnceInv(d),
           NEW w \in Workers, NEW D, Step(w, D), NEW j, j.doc = d, Start(w, j),
           UNCHANGED << postedAt, expected, counted, completions >>,
           j.op \in {"edit", "enter"} => status[d] \in Unposted,
           j.op = "post" => /\ status[d] # "NONE" /\ PostedLines(j) = Due(d)
                            /\ j.key = TheKey(d, "post") \/ Due(d) = << >>,
           j.op \notin {"edit", "post"} => j.next \notin Unposted \cup {"POSTED"}
    PROVE  OnceInv(d)'
<1>1. d \in Docs
  BY DEF Once, Receipts, Adjustments, Counts
<1>2. /\ pc[w] = "idle" /\ MayStart(w, j) /\ pc'[w] = "loaded" /\ job'[w] = j
      /\ UNCHANGED << movements, status, content >>
  BY DEF Start, Begin, stockVars, ShapeInv
<1>3. \A v \in Workers \ {w} : pc'[v] = pc[v] /\ job'[v] = job[v]
  BY DEF Step, WorkerStep
<1>4. \A v \in Workers \ {w} : job[v].doc = d => {job[v].op, j.op} \cap {"edit", "enter"} = {}
  BY <1>2 DEF MayStart, RewritesAlone
<1>5. Due(d)' = Due(d)
  BY <1>1, <1>2, DueSame
<1>6. Told(d)' <=> Told(d)
  <2>1. Completed(d)' <=> Completed(d)
    BY <1>2, <1>3 DEF Completed
  <2> QED BY <1>2, <2>1 DEF Told, Booked, StockMovedFor, Receipts, Counts
<1>7. ASSUME NEW v \in Workers \ {w} PROVE OnceRequest(v, d)'
  <2>1. OnceRequest(v, d) /\ pc'[v] = pc[v] /\ job'[v] = job[v]
    BY <1>3 DEF OnceInv
  <2>2. ~Rewriting(v, d)'
    BY <1>4, <2>1 DEF Rewriting
  <2>3. ASSUME Posting(v, d)'
        PROVE  /\ status'[d] # "NONE" /\ PostedLines(job'[v]) = Due(d)'
               /\ job'[v].key = TheKey(d, "post") \/ Due(d)' = << >>
    BY <1>2, <1>5, <2>1, <2>3 DEF OnceRequest, Posting
  <2>4. Deciding(v, d)' => job'[v].next \notin Unposted \cup {"POSTED"}
    BY <2>1 DEF OnceRequest, Deciding
  <2> QED BY <2>2, <2>3, <2>4 DEF OnceRequest, TheKey, Unposted
<1>8. OnceRequest(w, d)'
  <2>1. ASSUME Rewriting(w, d)' PROVE ~Told(d)' /\ \A u \in Workers \ {w} : job'[u].doc # d
    <3>1. j.op \in {"edit", "enter"}
      BY <1>2, <2>1 DEF Rewriting
    <3> QED BY <1>3, <1>4, <1>6, <3>1 DEF OnceInv
  <2>2. ASSUME Posting(w, d)'
        PROVE  /\ status'[d] # "NONE" /\ PostedLines(job'[w]) = Due(d)'
               /\ job'[w].key = TheKey(d, "post") \/ Due(d)' = << >>
    BY <1>2, <1>5, <2>2 DEF Posting
  <2>3. Deciding(w, d)' => job'[w].next \notin Unposted \cup {"POSTED"}
    BY <1>2 DEF Deciding
  <2> QED BY <2>1, <2>2, <2>3 DEF OnceRequest, TheKey, Unposted
<1>9. /\ status'[d] \in Unposted => ~Told(d)'
      /\ Told(d)' => MovedIn(movements', d) = EffectOf(Due(d)')
      /\ StockMovedFor(d)' => Keyed(TheKey(d, "post"))' /\ (d \in Receipts => d \in postedAt')
  BY <1>2, <1>5, <1>6 DEF OnceInv, StockMovedFor, Keyed
<1> QED BY <1>7, <1>8, <1>9 DEF OnceInv, Unposted, TheKey, Receipts

(* A document no movement is for has moved nothing. *)
LEMMA NothingMoved ==
    ASSUME ShapeInv, NEW d, ~StockMovedFor(d)
    PROVE  MovedIn(movements, d) = Nothing
<1>1. IsList(movements)
  BY DEF ShapeInv
<1>2. MovedBy(d) = Nothing
  BY <1>1, NoMovementMovesNothing
<1> QED BY <1>2 DEF MovedBy, MovedIn

(* It is posted. *)
LEMMA OncePosted ==
    ASSUME ShapeInv, StockInv, NEW d \in Docs, OneKey(d, "post"), OnceInv(d),
           NEW w \in Workers, JobInv(w), NEW D, Step(w, D), Posting(w, d), Posts(w),
           content'[d] = content[d],
           d \in Counts => expected'[d] = expected[d] /\ counted'[d] = counted[d],
           status'[d] \notin Unposted, d \in Receipts => d \in postedAt',
           pc'[w] \notin {"loaded", "posting"}
    PROVE  OnceInv(d)'
<1> DEFINE lines == PostedLines(job[w])
           cmd == CommandOf(job[w], lines)
           m == movements
           after == movements'
           due == Due(d)
           key == TheKey(d, "post")
<1>1. /\ job[w].doc = d /\ Posts(w) /\ lines = due /\ Typed(lines)
      /\ cmd.lines = lines /\ cmd.key = job[w].key
      /\ cmd.key = key \/ due = << >>
  BY DEF Posting, Posts, OnceInv, OnceRequest, JobInv, PostableJob, CommandOf
<1>2. /\ Appended(m, after, cmd, d)
      /\ MovedIn(after, d) = Plus(MovedIn(m, d), EffectOf(lines))
  BY <1>1, PostsKeepStock
<1>3. Due(d)' = due
  BY DueSame
<1>4. key # NoKey
  BY OneKeyOnly
<1>5. KeyedBy(m, cmd.key) = {} /\ IsList(m) /\ DOMAIN m = 1 .. Len(m) /\ Journal(m)
  BY ListDomain DEF Posts, Post, ShapeInv, StockInv
<1>6. /\ StockMovedFor(d) => KeyedBy(m, key) # {}
      /\ StockMovedFor(d) => MovedIn(m, d) = EffectOf(due)
      /\ ~StockMovedFor(d) => MovedIn(m, d) = Nothing
  BY NothingMoved DEF OnceInv, Told, Keyed
<1>7. MovedIn(m, d) \in Balances /\ EffectOf(lines) \in Balances
  BY <1>1, <1>5, MovedAreBalances, EffectIsBalances
<1>8. Keyed(key) => Keyed(key)'
  BY <1>1, StockMoves DEF StockStep
<1>9. (StockMovedFor(d)' <=> \E i \in 1 .. Len(after) : after[i].ref = d)
      /\ (StockMovedFor(d) <=> \E i \in 1 .. Len(m) : m[i].ref = d)
      /\ (Keyed(key)' <=> KeyedBy(after, key) # {}) /\ (Keyed(key) <=> KeyedBy(m, key) # {})
  BY DEF StockMovedFor, Keyed
<1> HIDE DEF m, after, due, cmd, key, lines
<1>10. MovedIn(after, d) = EffectOf(due) /\ (StockMovedFor(d)' => Keyed(key)')
  <2>1. CASE due = << >>
    <3>1. EffectOf(due) = Nothing
      BY <2>1, NoLinesMoveNothing
    <3>2. MovedIn(m, d) = Nothing
      BY <1>6, <3>1
    <3>3. MovedIn(after, d) = EffectOf(due)
      BY <1>1, <1>2, <1>7, <3>1, <3>2, PlusNothing
    <3>4. Len(cmd.lines) = 0
      BY <1>1, <2>1
    <3>5. StockMovedFor(d)' => StockMovedFor(d)
      <4>1. Len(after) = Len(m) /\ \A i \in 1 .. Len(m) : after[i] = m[i]
        BY <1>2, <3>4 DEF Appended
      <4> QED BY <1>9, <4>1
    <3> QED BY <1>6, <1>8, <1>9, <3>3, <3>5
  <2>2. CASE due # << >>
    <3>1. cmd.key = key /\ ~StockMovedFor(d)
      BY <1>1, <1>5, <1>6, <2>2
    <3>2. MovedIn(after, d) = EffectOf(due)
      BY <1>1, <1>2, <1>6, <1>7, <3>1, PlusNothing
    <3>3. Len(cmd.lines) > 0
      <4>1. IsList(lines) /\ lines # << >>
        BY <1>1, <2>2 DEF Typed
      <4>2. Len(lines) \in Nat /\ Len(lines) # 0
        BY <4>1 DEF IsList
      <4> QED BY <1>1, <4>2
    <3>4. KeyedBy(after, key) # {}
      <4>1. \A k : KeyedBy(after, k) # {} <=>
                       KeyedBy(m, k) # {} \/ (k # NoKey /\ cmd.key = k /\ Len(cmd.lines) > 0)
        BY <1>2, <1>5, PostKeys
      <4> QED BY <1>4, <3>1, <3>3, <4>1
    <3> QED BY <1>9, <3>2, <3>4
  <2> QED BY <2>1, <2>2
<1>11. ASSUME NEW v \in Workers PROVE OnceRequest(v, d)'
  <2>1. CASE v = w
    BY <2>1 DEF OnceRequest, Rewriting, Posting, Deciding
  <2>2. CASE v # w
    <3>1. OnceRequest(v, d) /\ pc'[v] = pc[v] /\ job'[v] = job[v]
      BY <2>2 DEF OnceInv, Step, WorkerStep
    <3>2. ~Rewriting(v, d)'
      BY <1>1, <2>2, <3>1 DEF OnceRequest, Rewriting
    <3>3. ASSUME Posting(v, d)'
          PROVE  /\ status'[d] # "NONE" /\ PostedLines(job'[v]) = Due(d)'
                 /\ job'[v].key = TheKey(d, "post") \/ Due(d)' = << >>
      BY <1>3, <3>1, <3>3 DEF OnceRequest, Posting, due, Unposted
    <3>4. Deciding(v, d)' => job'[v].next \notin Unposted \cup {"POSTED"}
      BY <3>1 DEF OnceRequest, Deciding
    <3> QED BY <3>2, <3>3, <3>4 DEF OnceRequest, TheKey, Unposted
  <2> QED BY <2>1, <2>2
<1> QED BY <1>3, <1>10, <1>11 DEF OnceInv, after, key, TheKey, Unposted, Receipts

(* What is known of d beside its items and its status stays. *)
FactsStay(d) ==
    /\ d \in Receipts => (d \in postedAt' <=> d \in postedAt)
    /\ d \in Counts =>
          /\ expected'[d] = expected[d] /\ counted'[d] = counted[d]
          /\ \A k \in completions' : CountOf[k] = d => Completed(d)

(* It does where nothing is written of it. *)
LEMMA FactsStaySame ==
    ASSUME NEW d
    PROVE  /\ UNCHANGED << postedAt, expected, counted, completions >> => FactsStay(d)
           /\ UNCHANGED << expected, counted, completions >> /\ d \notin Receipts => FactsStay(d)
BY DEF FactsStay, Completed

(* What ends has nothing more to do with any document, nor has what goes on  *)
(* to do anything but to post.                                               *)
LEMMA WhoLeaves ==
    ASSUME ShapeInv, NEW w \in Workers, pc[w] # "idle", NEW d \in Docs
    PROVE  /\ \A o : Finish(w, o) => Leaves(w, d) /\ pc'[w] # "completing"
           /\ \A step : Goto(w, step) /\ step \notin {"loaded", "posting"} => Leaves(w, d)
           /\ Fail(w) => Leaves(w, d) /\ pc'[w] # "completing"
<1>1. DOMAIN job = Workers /\ DOMAIN pc = Workers /\ Idle.doc # d /\ DOMAIN job[w] = JobFields
  BY DocumentsAssumption DEF ShapeInv, Idle, Fits
<1>2. ASSUME NEW o, Finish(w, o) PROVE Leaves(w, d) /\ pc'[w] # "completing"
  <2>1. pc'[w] \in {"idle", "answering"}
    BY <1>1, <1>2 DEF Finish
  <2>2. job'[w] = Idle \/ job'[w].doc = job[w].doc
    BY <1>1, <1>2 DEF Finish, JobFields
  <2> QED BY <1>1, <2>1, <2>2 DEF Leaves
<1>3. ASSUME NEW step, Goto(w, step), step \notin {"loaded", "posting"} PROVE Leaves(w, d)
  BY <1>1, <1>3 DEF Goto, Leaves
<1>4. Fail(w) => Leaves(w, d) /\ pc'[w] # "completing"
  BY <1>1 DEF Fail, Leaves
<1> QED BY <1>2, <1>3, <1>4

(* The steps of services with documents that are posted once.  No stock      *)
(* moves, and nothing that d says is changed ..                              *)
LEMMA OnceStill ==
    ASSUME ShapeInv, StockInv, NEW w \in Workers, JobInv(w), UNCHANGED stockVars, NEW D, Step(w, D),
           NEW d \in Once, OnceInv(d), FactsStay(d), content'[d] = content[d],
           status'[d] = status[d] \/ status'[d] \notin Unposted \cup {"POSTED"},
           pc'[w] = "completing" => job'[w].doc # d,
           \/ Leaves(w, d)
           \/ Posting(w, d) /\ pc'[w] = "posting" /\ job'[w] = job[w]
    PROVE  OnceInv(d)'
<1>1. d \in Docs
  BY DEF Once, Receipts, Adjustments, Counts
<1>2. StockStays(d)
  BY <1>1, StockStaysSame DEF StockStep
<1>3. Due(d)' = Due(d)
  BY <1>1, DueSame DEF FactsStay
<1>4. Booked(d)' => Booked(d)
  <2>1. status'[d] = "POSTED" => status[d] = "POSTED"
    OBVIOUS
  <2> QED BY <1>1, <2>1, BookedSame DEF FactsStay
<1>5. /\ status'[d] \in Unposted => status'[d] = status[d]
      /\ d \in Receipts /\ d \in postedAt => d \in postedAt'
  BY DEF FactsStay
<1> QED BY <1>1, <1>2, <1>3, <1>4, <1>5, OnceAside

(* .. a handler looks whether it may post, or fails, or ends by writing that *)
(* d has come to this or that ..                                             *)
LEMMA OnceHandled ==
    ASSUME ShapeInv, StockInv, NEW w \in Workers, JobInv(w), NEW D, Step(w, D),
           NEW d \in Once, job[w].doc = d, OnceInv(d), FactsStay(d),
           \/ \E s : Advance(w, s) /\ s \notin Unposted \cup {"POSTED"} /\ pc[w] # "idle"
           \/ \E lines, fit : Enter(w, lines, fit) /\ At(w, "loaded", "post")
           \/ Fail(w)
    PROVE  OnceInv(d)'
<1>1. d \in Docs /\ DOMAIN status = Docs
  BY DEF Once, Receipts, Adjustments, Counts, ShapeInv
<1>2. ASSUME NEW s, Advance(w, s), s \notin Unposted \cup {"POSTED"}, pc[w] # "idle" PROVE OnceInv(d)'
  <2>1. UNCHANGED stockVars /\ UNCHANGED content /\ Finish(w, "APPLIED") /\ status'[d] = s
    BY <1>1, <1>2 DEF Advance, Write
  <2>2. Leaves(w, d) /\ pc'[w] # "completing"
    BY <1>1, <1>2, <2>1, WhoLeaves
  <2> QED BY <1>2, <2>1, <2>2, OnceStill
<1>3. ASSUME NEW lines, NEW fit, Enter(w, lines, fit), At(w, "loaded", "post") PROVE OnceInv(d)'
  <2>1. /\ UNCHANGED stockVars /\ UNCHANGED << content, status >>
        /\ Finish(w, "APPLIED") \/ Finish(w, "DECLINED") \/ Goto(w, "posting")
    BY <1>3 DEF Enter, Reply
  <2>2. CASE Finish(w, "APPLIED") \/ Finish(w, "DECLINED")
    <3>1. Leaves(w, d) /\ pc'[w] # "completing"
      BY <1>1, <1>3, <2>2, WhoLeaves DEF At
    <3> QED BY <2>1, <3>1, OnceStill
  <2>3. CASE Goto(w, "posting")
    <3>1. Posting(w, d) /\ pc'[w] = "posting" /\ job'[w] = job[w]
      BY <1>3, <2>3 DEF Goto, At, Posting, ShapeInv
    <3> QED BY <2>1, <3>1, OnceStill
  <2> QED BY <2>1, <2>2, <2>3
<1>4. CASE Fail(w)
  <2>1. UNCHANGED stockVars /\ UNCHANGED << content, status >> /\ pc[w] # "idle"
    BY <1>4 DEF Fail
  <2>2. Leaves(w, d) /\ pc'[w] # "completing"
    BY <1>1, <1>4, <2>1, WhoLeaves
  <2> QED BY <2>1, <2>2, OnceStill
<1> QED BY <1>2, <1>3, <1>4

(* .. d is made ..                                                           *)
LEMMA OnceCreated ==
    ASSUME ShapeInv, StockInv, NEW w \in Workers, JobInv(w), NEW D, Step(w, D),
           NEW d \in Once, OnceInv(d), FactsStay(d), Create(w, d)
    PROVE  OnceInv(d)'
<1>1. d \in Docs /\ d # NoDoc
  BY DocumentsAssumption DEF Once, Receipts, Adjustments, Counts
<1>2. /\ pc[w] = "idle" /\ status[d] = "NONE" /\ status'[d] = "DRAFT"
      /\ UNCHANGED stockVars /\ UNCHANGED << pc, job >>
  BY <1>1 DEF Create, workVars, ShapeInv
<1>3. StockStays(d)
  BY <1>1, <1>2, StockStaysSame DEF StockStep
<1>4. ~Told(d) /\ \A v \in Workers : ~Posting(v, d)
  BY <1>2 DEF OnceInv, OnceRequest, Unposted
<1>5. Booked(d)' => Booked(d)
  BY <1>1, <1>2, BookedSame DEF FactsStay
<1>6. Leaves(w, d)
  BY <1>2 DEF Leaves
<1> QED BY <1>1, <1>3, <1>4, <1>5, <1>6, OnceDrawn

(* .. or rewritten, by one who is alone with it. *)
LEMMA OnceRewritten ==
    ASSUME ShapeInv, StockInv, NEW w \in Workers, JobInv(w), NEW D, Step(w, D),
           NEW d \in Once, Rewriting(w, d), OnceInv(d), UNCHANGED stockVars,
           Finish(w, "APPLIED"), status'[d] = status[d],
           d \in Receipts => (d \in postedAt' <=> d \in postedAt),
           d \in Counts => completions' = completions
    PROVE  OnceInv(d)'
<1>1. d \in Docs
  BY DEF Once, Receipts, Adjustments, Counts
<1>2. StockStays(d)
  BY <1>1, StockStaysSame DEF StockStep
<1>3. ~Told(d) /\ \A v \in Workers \ {w} : job[v].doc # d
  BY DEF OnceInv, OnceRequest
<1>4. Leaves(w, d) /\ pc'[w] # "completing"
  BY <1>1, WhoLeaves DEF Rewriting
<1>5. Booked(d)' => Booked(d)
  <2>1. d \in Counts => \A k \in completions' : CountOf[k] = d => Completed(d)
    BY DEF Completed
  <2> QED BY <1>1, <1>4, <2>1, BookedSame
<1>6. \A v \in Workers \ {w} : ~Posting(v, d)
  BY <1>3 DEF Posting
<1> QED BY <1>1, <1>2, <1>3, <1>4, <1>5, <1>6, OnceDrawn

(* The job of a worker that ends or goes on can be posted if it could. *)
LEMMA JobKept ==
    ASSUME NEW w, JobInv(w), Ends(w) \/ GoesOn(w) \/ PostableJob(job'[w])
    PROVE  JobInv(w)'
BY DEF JobInv, Ends, GoesOn, AtWork, PostableJob

(* The lines of receipts and adjustments have a row and a quantity. *)
LEMMA ItemsAreSourced ==
    ASSUME ShapeInv, NEW d \in Receipts \cup Adjustments
    PROVE  Sourced(Lines(d))
<1>1. d \in Docs /\ content[d] \in DOMAIN Versions[d]
  BY DEF Receipts, Adjustments, ShapeInv
<1>2. IsList(Lines(d)) /\ DOMAIN Lines(d) = 1 .. Len(Lines(d))
  BY <1>1, LinesAreLists, ListDomain
<1>3. \A i \in DOMAIN Lines(d) : Lines(d)[i].grain \in Grains /\ Lines(d)[i].qty \in Nat
  BY <1>1, ReceiptsAssumption, AdjustmentsAssumption DEF Lines
<1> QED BY <1>2, <1>3 DEF Sourced

(* What becomes of receipt r. *)
ReceiptAction(w, r) ==
    \/ CreateReceipt(w, r)
    \/ \E op \in {"edit", "cancel", "post"} : LoadReceipt(w, op, r)
    \/ ReceiptStep(w) /\ job[w].doc = r
    \/ Fail(w) /\ job[w].doc = r /\ UNCHANGED receiptVars

(* It is a step for r alone. *)
LEMMA ReceiptActionSteps ==
    ASSUME ShapeInv, NEW w \in Workers, NEW r \in Receipts, ReceiptAction(w, r)
    PROVE  Step(w, {r})
<1> DEFINE D == {r}
<1>1. r \in D /\ D = {r}
  OBVIOUS
<1> HIDE DEF D
<1>2. CASE Fail(w) /\ job[w].doc = r
  BY <1>1, <1>2, FailSteps
<1>3. CASE ~(Fail(w) /\ job[w].doc = r)
  BY <1>1, <1>3, ReceiptsStep DEF ReceiptAction
<1> QED BY <1>1, <1>2, <1>3

(* A request for it is taken up: to post it is to post what it says. *)
LEMMA ReceiptLoaded ==
    ASSUME ShapeInv, NEW r \in Receipts, RewritesAlone("receipt"), OneKey(r, "post"), OnceInv(r),
           NEW w \in Workers, Step(w, {r}), UNCHANGED << expected, counted, completions >>,
           NEW op \in {"edit", "cancel", "post"}, LoadReceipt(w, op, r)
    PROVE  OnceInv(r)' /\ UNCHANGED stockVars /\ PostableJob(job'[w])
<1>1. PICK key \in KeysOf[r][op] : Start(w, [Job(op, r) EXCEPT !.key = key])
  BY DEF LoadReceipt
<1> DEFINE j == [Job(op, r) EXCEPT !.key = key]
           lines == Lines(r)
<1>2. j.doc = r /\ j.op = op /\ j.key = key /\ j.lines = lines /\ j.next = "none"
  BY JobShape DEF JobFields
<1>3. Start(w, j) /\ UNCHANGED postedAt
  BY <1>1 DEF LoadReceipt, receiptVars
<1>4. RewritesAlone(KindOf[r]) /\ r \in Once
  BY DEF Receipts, Once
<1>5. op = "post" => key = TheKey(r, "post")
  BY OneKeyOnly
<1>6. /\ op = "edit" => status[r] = "DRAFT"
      /\ op = "post" => status[r] \in {"DRAFT", "RECEIVING", "FOR_INSPECTION"}
  BY DEF LoadReceipt, MayLoadReceipt, MayPostReceipt, Postable
<1>7. Typed(ReceiptLines(lines)) /\ Due(r) = ReceiptLines(lines)
  <2>1. Sourced(lines)
    BY ItemsAreSourced
  <2>2. Due(r) = ReceiptLines(lines)
    BY DEF Due
  <2> HIDE DEF lines
  <2> QED BY <2>1, <2>2, ReceiptTyped
<1> HIDE DEF j, lines
<1>8. op = "post" => PostedLines(j) = ReceiptLines(lines)
  BY <1>2 DEF PostedLines
<1>9. UNCHANGED stockVars /\ job'[w] = j
  BY <1>3 DEF Start, Begin, ShapeInv
<1>10. PostableJob(j)
  BY <1>2, <1>7, <1>8 DEF PostableJob, PostingOps
<1>11. OnceInv(r)'
  <2>1. j.op \in {"edit", "enter"} => status[r] \in Unposted
    BY <1>2, <1>6 DEF Unposted
  <2>2. j.op = "post" => /\ status[r] # "NONE" /\ PostedLines(j) = Due(r)
                         /\ j.key = TheKey(r, "post") \/ Due(r) = << >>
    BY <1>2, <1>5, <1>6, <1>7, <1>8
  <2>3. j.next \notin Unposted \cup {"POSTED"}
    BY <1>2 DEF Unposted
  <2> DEFINE D == {r}
  <2>4. Step(w, D)
    OBVIOUS
  <2> HIDE DEF D
  <2> QED BY <1>2, <1>3, <1>4, <2>1, <2>2, <2>3, <2>4, OnceLoaded
<1> QED BY <1>9, <1>10, <1>11

(* Whatever becomes of it. *)
LEMMA ReceiptActionKeepsOnce ==
    ASSUME ShapeInv, StockInv, NEW r \in Receipts, RewritesAlone("receipt"), OneKey(r, "post"), OnceInv(r),
           NEW w \in Workers, JobInv(w), ReceiptAction(w, r), UNCHANGED << expected, counted, completions >>
    PROVE  /\ OnceInv(r)'
           /\ StockStep(w) /\ JobInv(w)'
           /\ \A d : d # r => (d \in postedAt' <=> d \in postedAt)
<1> DEFINE D == {r}
<1>1. Step(w, D) /\ r \in Docs /\ r \in Once
  BY ReceiptActionSteps DEF Receipts, Once
<1> HIDE DEF D
<1>2. CASE CreateReceipt(w, r)
  <2>1. Create(w, r) /\ UNCHANGED << postedAt, expected, counted, completions >>
    BY <1>2 DEF CreateReceipt, receiptVars
  <2>2. OnceInv(r)'
    BY <1>1, <2>1, FactsStaySame, OnceCreated
  <2>3. UNCHANGED stockVars /\ pc'[w] = "idle"
    BY <2>1 DEF Create, workVars
  <2> QED BY <2>1, <2>2, <2>3, JobKept DEF StockStep, Ends
<1>3. ASSUME NEW op \in {"edit", "cancel", "post"}, LoadReceipt(w, op, r)
      PROVE  OnceInv(r)' /\ StockStep(w) /\ JobInv(w)' /\ UNCHANGED postedAt
  <2>1. OnceInv(r)' /\ UNCHANGED stockVars /\ PostableJob(job'[w])
    BY <1>1, <1>3, ReceiptLoaded DEF D
  <2> QED BY <1>3, <2>1, JobKept DEF StockStep, LoadReceipt, receiptVars
<1>4. ASSUME ReceiptStep(w), job[w].doc = r
      PROVE  /\ OnceInv(r)' /\ StockStep(w) /\ JobInv(w)'
             /\ \A d : d # r => (d \in postedAt' <=> d \in postedAt)
  <2>1. StockStep(w) /\ JobInv(w)'
    BY <1>4, ReceiptWorks, JobKept
  <2>2. CASE CancelReceipt(w)
    <3> DEFINE s == "CANCELLED"
    <3>1. /\ Advance(w, s) /\ pc[w] # "idle" /\ s \notin Unposted \cup {"POSTED"}
          /\ UNCHANGED << postedAt, expected, counted, completions >>
      BY <2>2 DEF CancelReceipt, receiptVars, At, Unposted
    <3> HIDE DEF s
    <3> QED BY <1>1, <1>4, <2>1, <3>1, FactsStaySame, OnceHandled
  <2>3. CASE EditReceipt(w)
    <3>1. /\ Rewriting(w, r) /\ UNCHANGED stockVars /\ Finish(w, "APPLIED") /\ UNCHANGED postedAt
          /\ Write(w, status[r])
      BY <1>4, <2>3 DEF EditReceipt, Edit, At, Rewriting, receiptVars
    <3>2. status'[r] = status[r]
      BY <1>1, <1>4, <3>1 DEF Write, ShapeInv
    <3> QED BY <1>1, <2>1, <3>1, <3>2, OnceRewritten
  <2>4. CASE PostReceipt(w)
    <3> DEFINE l == ReceiptLines(job[w].lines)
               fit == Unregistered(UnitsOf(job[w].lines))
    <3>1. /\ Enter(w, l, fit) /\ At(w, "loaded", "post")
          /\ UNCHANGED << postedAt, expected, counted, completions >>
      BY <2>4 DEF PostReceipt, receiptVars
    <3> HIDE DEF l, fit
    <3> QED BY <1>1, <1>4, <2>1, <3>1, FactsStaySame, OnceHandled
  <2>5. CASE CloseReceipt(w)
    <3>1. /\ Posting(w, r) /\ Posts(w) /\ UNCHANGED content /\ Finish(w, "APPLIED")
          /\ postedAt' = postedAt \cup {r} /\ Write(w, ReceiptStatus(job[w].lines))
      BY <1>4, <2>5 DEF CloseReceipt, At, Posting, Posts, AtWork, PostingOps, PostedLines
    <3>2. status'[r] \notin Unposted
      BY <1>1, <1>4, <3>1 DEF Write, ShapeInv, ReceiptStatus, Unposted
    <3>3. pc'[w] \notin {"loaded", "posting"}
      BY <3>1, EndsOrGoesOn DEF Ends
    <3>4. OnceInv(r)'
      BY <1>1, <3>1, <3>2, <3>3, OncePosted DEF Receipts, Counts
    <3> QED BY <2>1, <3>1, <3>4
  <2> QED BY <1>4, <2>2, <2>3, <2>4, <2>5 DEF ReceiptStep
<1>5. ASSUME Fail(w), job[w].doc = r, UNCHANGED receiptVars
      PROVE  OnceInv(r)' /\ StockStep(w) /\ JobInv(w)' /\ UNCHANGED postedAt
  <2>1. UNCHANGED << postedAt, expected, counted, completions >>
    BY <1>5 DEF receiptVars
  <2>2. UNCHANGED stockVars /\ pc'[w] = "idle"
    BY <1>5 DEF Fail, ShapeInv
  <2> QED BY <1>1, <1>5, <2>1, <2>2, FactsStaySame, OnceHandled, JobKept DEF StockStep, Ends
<1> QED BY <1>2, <1>3, <1>4, <1>5 DEF ReceiptAction

(* A request for an adjustment is taken up: what it decides on is neither a  *)
(* draft nor posted; to post it is to post what it says.                     *)
LEMMA AdjustmentLoaded ==
    ASSUME ShapeInv, NEW a \in Adjustments, RewritesAlone("adjustment"), OneKey(a, "post"), OnceInv(a),
           NEW w \in Workers, Step(w, {a}), UNCHANGED << postedAt, expected, counted, completions >>,
           NEW op \in DOMAIN AdjustmentFrom, NEW by, LoadAdjustment(w, op, a, by)
    PROVE  OnceInv(a)' /\ UNCHANGED stockVars /\ PostableJob(job'[w])
<1>1. PICK key \in KeysOf[a][op] :
          Start(w, [Job(op, a) EXCEPT !.by = by, !.next = AdjustmentTo(op, a), !.key = key])
  BY DEF LoadAdjustment
<1> DEFINE next == AdjustmentTo(op, a)
           j == [Job(op, a) EXCEPT !.by = by, !.next = next, !.key = key]
           lines == Lines(a)
<1>2. next = AdjustmentTo(op, a)
  OBVIOUS
<1>3. Start(w, j)
  BY <1>1
<1> HIDE DEF next, lines
<1>4. j.doc = a /\ j.op = op /\ j.key = key /\ j.lines = lines /\ j.next = next
  BY JobShape DEF JobFields, lines
<1>5. RewritesAlone(KindOf[a]) /\ a \in Once /\ a \notin Receipts /\ a \notin Counts
  BY DEF Adjustments, Receipts, Counts, Once
<1>6. op = "post" => key = TheKey(a, "post")
  BY OneKeyOnly
<1>7. /\ op \in {"edit", "submit", "approve", "secondApprove", "reject", "cancel", "post"}
      /\ op = "edit" => status[a] = "DRAFT"
      /\ op = "post" => status[a] = "APPROVED"
  BY DEF LoadAdjustment, AdjustmentFrom
<1>8. op \notin {"edit", "post"} => next \notin Unposted \cup {"POSTED"}
  BY <1>2, <1>7 DEF AdjustmentTo, Unposted
<1>9. Typed(AdjustmentLines(lines)) /\ Due(a) = AdjustmentLines(lines)
  <2>1. Sourced(lines)
    BY ItemsAreSourced DEF lines
  <2> QED BY <1>5, <2>1, LineByLineTyped DEF Due, lines
<1> HIDE DEF j
<1>10. op = "post" => PostedLines(j) = AdjustmentLines(lines)
  BY <1>4, <1>5 DEF PostedLines
<1>11. UNCHANGED stockVars /\ job'[w] = j
  BY <1>3 DEF Start, Begin, ShapeInv
<1>12. PostableJob(j)
  BY <1>4, <1>7, <1>9, <1>10 DEF PostableJob, PostingOps
<1>13. OnceInv(a)'
  <2>1. j.op \in {"edit", "enter"} => status[a] \in Unposted
    BY <1>4, <1>7 DEF Unposted
  <2>2. j.op = "post" => /\ status[a] # "NONE" /\ PostedLines(j) = Due(a)
                         /\ j.key = TheKey(a, "post") \/ Due(a) = << >>
    BY <1>4, <1>6, <1>7, <1>9, <1>10
  <2>3. j.op \notin {"edit", "post"} => j.next \notin Unposted \cup {"POSTED"}
    BY <1>4, <1>8
  <2> DEFINE D == {a}
  <2>4. Step(w, D)
    OBVIOUS
  <2> HIDE DEF D
  <2> QED BY <1>3, <1>4, <1>5, <2>1, <2>2, <2>3, <2>4, OnceLoaded
<1> QED BY <1>11, <1>12, <1>13

(* Whatever becomes of it. *)
LEMMA AdjustmentActionKeepsOnce ==
    ASSUME ShapeInv, StockInv, NEW a \in Adjustments, RewritesAlone("adjustment"), OneKey(a, "post"),
           OnceInv(a), NEW w \in Workers, JobInv(w), AdjustmentAction(w, a),
           UNCHANGED << postedAt, expected, counted, completions >>
    PROVE  OnceInv(a)' /\ StockStep(w) /\ JobInv(w)'
<1> DEFINE D == {a}
<1>1. /\ Step(w, D) /\ a \in Docs /\ a \in Once /\ FactsStay(a)
      /\ a \notin Receipts /\ a \notin Counts
  BY AdjustmentActionSteps, FactsStaySame DEF Adjustments, Receipts, Counts, Once
<1> HIDE DEF D
<1>2. CASE CreateAdjustment(w, a)
  <2>1. Create(w, a)
    BY <1>2 DEF CreateAdjustment
  <2>2. OnceInv(a)'
    BY <1>1, <2>1, OnceCreated
  <2>3. UNCHANGED stockVars /\ pc'[w] = "idle"
    BY <2>1 DEF Create, workVars
  <2> QED BY <2>2, <2>3, JobKept DEF StockStep, Ends
<1>3. ASSUME NEW op \in DOMAIN AdjustmentFrom, NEW by \in Users \cup {NoDoc}, LoadAdjustment(w, op, a, by)
      PROVE  OnceInv(a)' /\ StockStep(w) /\ JobInv(w)'
  <2>1. OnceInv(a)' /\ UNCHANGED stockVars /\ PostableJob(job'[w])
    BY <1>1, <1>3, AdjustmentLoaded DEF D
  <2> QED BY <2>1, JobKept DEF StockStep
<1>4. ASSUME AdjustmentStep(w), job[w].doc = a PROVE OnceInv(a)' /\ StockStep(w) /\ JobInv(w)'
  <2>1. StockStep(w) /\ JobInv(w)'
    BY <1>4, AdjustmentWorks, JobKept
  <2>2. CASE SubmitAdjustment(w) \/ ApproveAdjustment(w) \/ EndAdjustment(w)
    <3> DEFINE s == job[w].next
    <3>1. Advance(w, s) /\ Deciding(w, a)
      BY <1>4, <2>2 DEF SubmitAdjustment, ApproveAdjustment, EndAdjustment, At, Deciding
    <3>2. s \notin Unposted \cup {"POSTED"} /\ pc[w] # "idle"
      BY <3>1 DEF OnceInv, OnceRequest, Deciding
    <3> HIDE DEF s
    <3> QED BY <1>1, <1>4, <2>1, <3>1, <3>2, OnceHandled
  <2>3. CASE EditAdjustment(w)
    <3>1. /\ Rewriting(w, a) /\ UNCHANGED stockVars /\ Finish(w, "APPLIED") /\ Write(w, status[a])
      BY <1>4, <2>3 DEF EditAdjustment, Edit, At, Rewriting
    <3>2. status'[a] = status[a]
      BY <1>1, <1>4, <3>1 DEF Write, ShapeInv
    <3> QED BY <1>1, <2>1, <3>1, <3>2, OnceRewritten
  <2>4. CASE PostAdjustment(w)
    <3> DEFINE l == AdjustmentLines(job[w].lines)
               fit == UnitsAdjustable(job[w].lines)
    <3>1. Enter(w, l, fit) /\ At(w, "loaded", "post")
      BY <2>4 DEF PostAdjustment
    <3> HIDE DEF l, fit
    <3> QED BY <1>1, <1>4, <2>1, <3>1, OnceHandled
  <2>5. CASE CloseAdjustment(w)
    <3>1. /\ Posting(w, a) /\ Posts(w) /\ UNCHANGED content /\ Finish(w, "APPLIED")
          /\ Write(w, "POSTED")
      BY <1>1, <1>4, <2>5 DEF CloseAdjustment, At, Posting, Posts, AtWork, PostingOps, PostedLines
    <3>2. status'[a] \notin Unposted
      BY <1>1, <1>4, <3>1 DEF Write, ShapeInv, Unposted
    <3>3. pc'[w] \notin {"loaded", "posting"}
      BY <3>1, EndsOrGoesOn DEF Ends
    <3>4. OnceInv(a)'
      BY <1>1, <3>1, <3>2, <3>3, OncePosted
    <3> QED BY <2>1, <3>4
  <2> QED BY <1>4, <2>2, <2>3, <2>4, <2>5 DEF AdjustmentStep
<1>5. ASSUME Fail(w), job[w].doc = a PROVE OnceInv(a)' /\ StockStep(w) /\ JobInv(w)'
  <2>1. UNCHANGED stockVars /\ pc'[w] = "idle"
    BY <1>5 DEF Fail, ShapeInv
  <2> QED BY <1>1, <1>5, <2>1, OnceHandled, JobKept DEF StockStep, Ends
<1> QED BY <1>2, <1>3, <1>4, <1>5 DEF AdjustmentAction

-----------------------------------------------------------------------------
(* Counts and their tasks *)

(* What is known of a count is known of each of its rows. *)
CountsShape ==
    /\ DOMAIN expected = Counts /\ DOMAIN counted = Counts
    /\ \A c \in Counts : \A i \in 1 .. Len(Lines(c)) :
          /\ expected[c][i].qty \in Int /\ IsFiniteSet(expected[c][i].units)
          /\ counted[c] # << >> => counted[c][i].qty \in Int /\ IsFiniteSet(counted[c][i].units)

Reviewed == {"REVIEW", "APPROVED", "POSTED"}

(* Worker w takes count c further on its way to be posted. *)
Furthers(w, c) == AtWork(w) /\ job[w].doc = c /\ job[w].op \in {"submit", "approve", "post"}

(* What is on that way, or has come to its end, has been counted. *)
CountedInv(c) ==
    status[c] \in Reviewed \/ Completed(c) \/ (\E w \in Workers : Furthers(w, c)) => counted[c] # << >>

(* A task that is said to be completed has an event that says so. *)
TaskInv == \A k \in Tasks : status[k] = "COMPLETED" => k \in completions

CountInvs == CountsShape /\ TaskInv /\ \A c \in Counts : CountedInv(c)

(* What a step says of counts and tasks. *)
CountFacts(w) ==
    /\ DOMAIN expected' = Counts /\ DOMAIN counted' = Counts
    /\ \A c \in Counts :
          /\ content'[c] = content[c]
          /\ expected'[c] \in {expected[c], OnTheBooks(c)}
          /\ counted'[c] = counted[c] \/ counted'[c] \in Tallies[c]
          /\ Furthers(w, c)' => Furthers(w, c) \/ status[c] \in Reviewed \/ counted[c] # << >>
          /\ status'[c] \in Reviewed => status[c] \in Reviewed \/ Furthers(w, c)
          /\ Completed(c)' => Completed(c) \/ Furthers(w, c)
    /\ completions \subseteq completions'
    /\ \A k \in Tasks : status'[k] = "COMPLETED" => status[k] = "COMPLETED" \/ k \in completions'

(* What the books say of the rows of a count. *)
LEMMA BooksShape ==
    ASSUME ShapeInv, StockInv, NEW c \in Counts, NEW i \in 1 .. Len(Lines(c))
    PROVE  OnTheBooks(c)[i].qty \in Int /\ IsFiniteSet(OnTheBooks(c)[i].units)
<1> DEFINE g == Lines(c)[i].grain
           S == { u \in Units : units[u] = [status |-> "IN_STOCK", at |-> g] }
<1>1. c \in Docs /\ content[c] \in DOMAIN Versions[c]
  BY DEF Counts, ShapeInv
<1>2. DOMAIN Lines(c) = 1 .. Len(Lines(c))
  BY <1>1, LinesAreLists, ListDomain
<1>3. g \in Grains
  BY <1>1, <1>2, TalliesAssumption DEF Lines
<1>4. OnTheBooks(c)[i] = [qty |-> balance[g]["onHand"], units |-> S]
  BY <1>2 DEF OnTheBooks
<1>5. IsFiniteSet(S)
  <2>1. S \subseteq Units
    OBVIOUS
  <2> HIDE DEF S
  <2> QED BY <2>1, UnitsAssumption, FS_Subset
<1>6. balance[g]["onHand"] \in Int
  <2> HIDE DEF g
  <2> QED BY <1>3 DEF StockInv, Balances, Row, Buckets
<1> HIDE DEF S, g
<1> QED BY <1>4, <1>5, <1>6

(* A tally that is entered is known of each row. *)
LEMMA TallyShape ==
    ASSUME ShapeInv, NEW c \in Counts, NEW tally \in Tallies[c], NEW i \in 1 .. Len(Lines(c))
    PROVE  tally[i].qty \in Int /\ IsFiniteSet(tally[i].units)
<1>1. c \in Docs /\ content[c] \in DOMAIN Versions[c]
  BY DEF Counts, ShapeInv
<1>2. DOMAIN Lines(c) = 1 .. Len(Lines(c))
  BY <1>1, LinesAreLists, ListDomain
<1>3. \A v \in DOMAIN Versions[c] : \A l \in DOMAIN Versions[c][v] :
          tally[l].qty \in Nat /\ IsFiniteSet(tally[l].units)
  BY TalliesAssumption
<1> DEFINE v == content[c]
<1>4. v \in DOMAIN Versions[c] /\ i \in DOMAIN Versions[c][v]
  BY <1>1, <1>2 DEF Lines
<1> HIDE DEF v
<1>5. tally[i].qty \in Nat /\ IsFiniteSet(tally[i].units)
  BY <1>3, <1>4
<1> QED BY <1>5

(* Items that stay are as known, and as counted, as they were. *)
LEMMA CountFactsKeep ==
    ASSUME ShapeInv, StockInv, CountInvs, NEW w \in Workers, NEW D, Step(w, D), CountFacts(w)
    PROVE  CountInvs'
<1>1. \A v \in Workers \ {w} : pc'[v] = pc[v] /\ job'[v] = job[v]
  BY DEF Step, WorkerStep
<1>2. CountsShape'
  <2>1. DOMAIN expected' = Counts /\ DOMAIN counted' = Counts
    BY DEF CountFacts
  <2>2. ASSUME NEW c \in Counts, NEW i \in 1 .. Len(Lines(c))
        PROVE  /\ expected'[c][i].qty \in Int /\ IsFiniteSet(expected'[c][i].units)
               /\ counted'[c] # << >> => counted'[c][i].qty \in Int /\ IsFiniteSet(counted'[c][i].units)
    <3>1. expected'[c][i].qty \in Int /\ IsFiniteSet(expected'[c][i].units)
      <4>1. CASE expected'[c] = expected[c]
        BY <4>1 DEF CountInvs, CountsShape
      <4>2. CASE expected'[c] = OnTheBooks(c)
        BY <4>2, BooksShape
      <4> QED BY <4>1, <4>2 DEF CountFacts
    <3>2. ASSUME counted'[c] # << >>
          PROVE  counted'[c][i].qty \in Int /\ IsFiniteSet(counted'[c][i].units)
      <4>1. CASE counted'[c] = counted[c]
        BY <3>2, <4>1 DEF CountInvs, CountsShape
      <4>2. CASE counted'[c] \in Tallies[c]
        BY <4>2, TallyShape
      <4> QED BY <4>1, <4>2 DEF CountFacts
    <3> QED BY <3>1, <3>2
  <2>3. \A c \in Counts : Lines(c)' = Lines(c)
    BY DEF CountFacts, Lines
  <2> QED BY <2>1, <2>2, <2>3 DEF CountsShape
<1>3. ASSUME NEW c \in Counts PROVE CountedInv(c)'
  <2>1. counted[c] # << >> => counted'[c] # << >>
    BY TalliesAssumption DEF CountFacts
  <2>2. \A v \in Workers \ {w} : Furthers(v, c)' => Furthers(v, c)
    BY <1>1 DEF Furthers, AtWork
  <2>3. ASSUME status'[c] \in Reviewed \/ Completed(c)' \/ \E v \in Workers : Furthers(v, c)'
        PROVE  counted[c] # << >>
    BY <2>2, <2>3 DEF CountFacts, CountInvs, CountedInv
  <2> QED BY <2>1, <2>3 DEF CountedInv, Reviewed
<1>4. TaskInv'
  BY DEF CountFacts, CountInvs, TaskInv
<1> QED BY <1>2, <1>3, <1>4 DEF CountInvs

(* What becomes of counts and tasks. *)
CountAction(w) ==
    \/ \E c \in Counts :
          /\ CreateCount(w, c) \/ \E op \in DOMAIN CountFrom : LoadCount(w, op, c)
          /\ UNCHANGED taskVars
    \/ \E k \in Tasks : CreateTask(w, k) \/ \E op \in DOMAIN TaskFrom : LoadTask(w, op, k)
    \/ CountStep(w) /\ UNCHANGED taskVars
    \/ TaskStep(w)
    \/ Fail(w) /\ job[w].doc \in Counting /\ UNCHANGED << countVars, taskVars >>

(* It is a step for those alone. *)
LEMMA CountActionSteps ==
    ASSUME ShapeInv, NEW w \in Workers, CountAction(w)
    PROVE  Step(w, Counting)
<1> DEFINE D == Counting
<1>1. CASE Fail(w) /\ job[w].doc \in Counting
  <2>1. job[w].doc \in D
    BY <1>1
  <2> HIDE DEF D
  <2>2. Step(w, D)
    BY <1>1, <2>1, FailSteps
  <2> QED BY <2>2 DEF D
<1>2. CASE CountStep(w) \/ TaskStep(w)
  BY <1>2, CountsHandled
<1>3. CASE ~(Fail(w) /\ job[w].doc \in Counting) /\ ~(CountStep(w) \/ TaskStep(w))
  BY <1>3, CountsAsked DEF CountAction
<1> QED BY <1>1, <1>2, <1>3

(* What a step of the service of tasks says: a count is opened that there    *)
(* was not, or cancelled, and nobody takes it up; and a task is completed    *)
(* with an event that says so, after its count is posted.                    *)
TaskSays(w) ==
    /\ UNCHANGED << balance, movements, content, counted >>
    /\ DOMAIN expected' = Counts
    /\ \A c \in Counts :
          /\ \/ expected'[c] = expected[c] /\ status'[c] \in {status[c], "CANCELLED"}
             \/ status[c] = "NONE" /\ status'[c] = "COUNTING" /\ expected'[c] = OnTheBooks(c)
          /\ Leaves(w, c)
          /\ AtWork(w)' => job'[w].doc # c
          /\ \A k \in completions' : CountOf[k] = c => Completed(c)
    /\ completions \subseteq completions'
    /\ \A k \in Tasks : status'[k] = "COMPLETED" => status[k] = "COMPLETED" \/ k \in completions'

(* Where it has to do with counts at all. *)
LEMMA NoCountSays ==
    ASSUME ShapeInv, CountsShape, NEW w \in Workers, UNCHANGED << balance, movements, content, counted, expected >>,
           \A c \in Counts : status'[c] \in {status[c], "CANCELLED"},
           \A k \in Tasks : status'[k] = "COMPLETED" => status[k] = "COMPLETED",
           UNCHANGED completions,
           \/ Ends(w) /\ job'[w].doc \in {job[w].doc, NoDoc} /\ job[w].doc \in Tasks
           \/ pc'[w] # "idle" /\ job'[w].doc \in Tasks
           \/ pc[w] = "idle" /\ UNCHANGED << pc, job >>
    PROVE  TaskSays(w)
<1>1. \A c \in Counts : \A k \in completions' : CountOf[k] = c => Completed(c)
  BY DEF Completed
<1>2. ASSUME NEW c \in Counts PROVE Leaves(w, c) /\ (AtWork(w)' => job'[w].doc # c)
  <2>1. c \notin Tasks /\ c # NoDoc
    BY DocumentsAssumption DEF Counts, Tasks
  <2> QED BY <2>1 DEF Leaves, AtWork, Ends
<1> QED BY <1>1, <1>2 DEF TaskSays, CountsShape

(* A task is written to. *)
LEMMA WriteTaskSays ==
    ASSUME ShapeInv, CountsShape, NEW w \in Workers, job[w].doc \in Tasks, pc[w] # "idle",
           NEW s \in {"ASSIGNED", "IN_PROGRESS", "CANCELLED"}, WriteTask(w, s), UNCHANGED countVars
    PROVE  TaskSays(w)
<1>1. /\ UNCHANGED << balance, movements, content, counted, expected, completions >>
      /\ Finish(w, "DECLINED") \/ Finish(w, "APPLIED")
      /\ UNCHANGED status \/ Write(w, s)
  BY DEF WriteTask, Refuse, Reply, Advance, stockVars, countVars, taskVars
<1>2. job[w].doc \in Docs /\ \A c \in Counts : c # job[w].doc /\ c \in Docs
  BY DEF Counts, Tasks
<1>3. /\ \A c \in Counts : status'[c] \in {status[c], "CANCELLED"}
      /\ \A k \in Tasks : status'[k] = "COMPLETED" => status[k] = "COMPLETED"
  BY <1>1, <1>2 DEF Write, ShapeInv, Tasks
<1>4. Ends(w) /\ job'[w].doc \in {job[w].doc, NoDoc}
  BY <1>1 DEF Finish, Ends, ShapeInv, Fits, JobFields, Idle
<1> QED BY <1>1, <1>3, <1>4, NoCountSays

(* Every step of the service. *)
LEMMA TasksSay ==
    ASSUME ShapeInv, CountsShape, NEW w \in Workers,
           \/ \E k \in Tasks : CreateTask(w, k) \/ \E op \in DOMAIN TaskFrom : LoadTask(w, op, k)
           \/ TaskStep(w)
    PROVE  TaskSays(w)
<1>1. \A k \in Tasks : k \in Docs /\ k \notin Counts /\ CountOf[k] \in Counts
  BY CountsAssumption DEF Tasks, Counts
<1>2. \A c \in Counts : c \in Docs /\ c \notin Tasks /\ c # NoDoc
  BY DocumentsAssumption DEF Tasks, Counts
<1>3. DOMAIN status = Docs /\ DOMAIN pc = Workers /\ DOMAIN job = Workers /\ DOMAIN expected = Counts
  BY DEF ShapeInv, CountsShape
<1>4. pc[w] # "idle" => Fits(job[w], pc[w])
  BY DEF ShapeInv
<1>5. ASSUME NEW k \in Tasks, CreateTask(w, k) PROVE TaskSays(w)
  <2>1. /\ UNCHANGED << balance, movements, content, counted, expected, completions, pc, job >>
        /\ pc[w] = "idle" /\ status' = [status EXCEPT ![k] = "PENDING"]
    BY <1>5 DEF CreateTask, stockVars, workVars, taskVars, countVars
  <2>2. /\ \A c \in Counts : status'[c] \in {status[c], "CANCELLED"}
        /\ \A l \in Tasks : status'[l] = "COMPLETED" => status[l] = "COMPLETED"
    BY <1>1, <1>2, <1>3, <2>1
  <2> QED BY <2>1, <2>2, NoCountSays
<1>6. ASSUME NEW k \in Tasks, NEW op \in DOMAIN TaskFrom, LoadTask(w, op, k) PROVE TaskSays(w)
  <2> DEFINE next == IF op = "cancel" /\ k \in linked /\ status[CountOf[k]] # "CANCELLED"
                     THEN "count" ELSE "task"
             j == [Job(op, k) EXCEPT !.next = next]
  <2>1. Start(w, j) /\ UNCHANGED << counted, expected, completions >>
    BY <1>6 DEF LoadTask, taskVars, countVars
  <2> HIDE DEF next
  <2>2. j.doc = k
    BY JobShape DEF JobFields
  <2> HIDE DEF j
  <2>3. /\ UNCHANGED << balance, movements, content, status >>
        /\ pc'[w] # "idle" /\ job'[w] = j
    BY <1>3, <2>1 DEF Start, Begin, stockVars
  <2> QED BY <2>1, <2>2, <2>3, NoCountSays
<1>7. CASE AssignTask(w)
  BY <1>4, <1>7, WriteTaskSays DEF AssignTask, At, Fits
<1>8. CASE LinkCount(w)
  BY <1>4, <1>8, WriteTaskSays DEF LinkCount, At, Fits
<1>9. CASE CloseTask(w)
  BY <1>4, <1>9, WriteTaskSays DEF CloseTask, Fits
<1>10. CASE StartCount(w)
  <2>1. job[w].doc \in Tasks /\ pc[w] # "idle"
    BY <1>4, <1>10 DEF StartCount, At, Fits
  <2> DEFINE c == CountOf[job[w].doc]
  <2>2. CASE status[c] = "NONE" /\ Open(c) /\ Goto(w, "linking")
             /\ UNCHANGED << balance, movements, content, counted, completions >>
    <3>1. c \in Counts
      BY <1>1, <2>1
    <3> HIDE DEF c
    <3>2. /\ status' = [status EXCEPT ![c] = "COUNTING"]
          /\ expected' = [expected EXCEPT ![c] = OnTheBooks(c)]
          /\ status[c] = "NONE"
      BY <2>2 DEF Open
    <3>3. pc'[w] = "linking" /\ job'[w] = job[w]
      BY <1>3, <2>2 DEF Goto
    <3>4. ASSUME NEW d \in Counts
          PROVE  /\ \/ expected'[d] = expected[d] /\ status'[d] \in {status[d], "CANCELLED"}
                    \/ status[d] = "NONE" /\ status'[d] = "COUNTING" /\ expected'[d] = OnTheBooks(d)
                 /\ Leaves(w, d)
                 /\ AtWork(w)' => job'[w].doc # d
                 /\ \A k \in completions' : CountOf[k] = d => Completed(d)
      <4>1. \/ expected'[d] = expected[d] /\ status'[d] \in {status[d], "CANCELLED"}
            \/ status[d] = "NONE" /\ status'[d] = "COUNTING" /\ expected'[d] = OnTheBooks(d)
        <5> HIDE DEF OnTheBooks
        <5> QED BY <1>2, <1>3, <3>1, <3>2
      <4>2. Leaves(w, d) /\ (AtWork(w)' => job'[w].doc # d)
        BY <1>2, <2>1, <3>3 DEF Leaves
      <4>3. \A k \in completions' : CountOf[k] = d => Completed(d)
        BY <2>2 DEF Completed
      <4> QED BY <4>1, <4>2, <4>3
    <3>5. \A k \in Tasks : status'[k] = "COMPLETED" => status[k] = "COMPLETED"
      BY <1>1, <1>3, <3>1, <3>2
    <3>6. DOMAIN expected' = Counts
      BY <1>3, <3>2
    <3> QED BY <2>2, <3>4, <3>5, <3>6 DEF TaskSays
  <2>3. CASE WriteTask(w, "IN_PROGRESS") /\ UNCHANGED countVars
    BY <2>1, <2>3, WriteTaskSays
  <2>4. CASE Refuse(w) /\ UNCHANGED << taskVars, countVars >>
    <3>1. WriteTask(w, "IN_PROGRESS") \/ Refuse(w)
      BY <2>4
    <3>2. /\ UNCHANGED << balance, movements, content, counted, expected, completions, status >>
          /\ Finish(w, "DECLINED")
      BY <2>4 DEF Refuse, Reply, stockVars, countVars, taskVars
    <3>3. Ends(w) /\ job'[w].doc \in {job[w].doc, NoDoc}
      BY <3>2 DEF Finish, Ends, ShapeInv, Fits, JobFields, Idle
    <3> QED BY <2>1, <3>2, <3>3, NoCountSays
  <2> QED BY <1>10, <2>2, <2>3, <2>4 DEF StartCount, stockVars, taskVars
<1>11. CASE CancelTask(w)
  <2>1. job[w].doc \in Tasks /\ pc[w] # "idle" /\ UNCHANGED << counted, expected >>
    BY <1>11 DEF CancelTask, At, countVars
  <2>2. CASE WriteTask(w, "CANCELLED")
    BY <1>11, <2>1, <2>2, WriteTaskSays DEF CancelTask
  <2>3. CASE Refuse(w) /\ UNCHANGED completions
    <3>1. UNCHANGED << balance, movements, content, status >> /\ Finish(w, "DECLINED")
      BY <2>3 DEF Refuse, Reply, stockVars
    <3>2. Ends(w) /\ job'[w].doc \in {job[w].doc, NoDoc}
      BY <2>1, <3>1 DEF Finish, Ends, ShapeInv, Fits, JobFields, Idle
    <3> QED BY <2>1, <2>3, <3>1, <3>2, NoCountSays
  <2>4. CASE Goto(w, "withdrawing") /\ UNCHANGED << balance, movements, status, content, completions >>
    <3>1. pc'[w] # "idle" /\ job'[w].doc = job[w].doc
      BY <1>3, <2>4 DEF Goto
    <3> QED BY <2>1, <2>4, <3>1, NoCountSays
  <2> QED BY <1>11, <2>2, <2>3, <2>4 DEF CancelTask, stockVars, taskVars
<1>12. CASE WithdrawCount(w)
  <2> DEFINE c == CountOf[job[w].doc]
  <2>1. job[w].doc \in Tasks /\ c \in Counts
    BY <1>1, <1>4, <1>12 DEF WithdrawCount, Fits
  <2>2. /\ status' = [status EXCEPT ![c] = "CANCELLED"]
        /\ UNCHANGED << balance, movements, content, counted, expected, completions >>
        /\ pc'[w] = "closing" /\ job'[w] = job[w]
    BY <1>3, <1>12 DEF WithdrawCount, Goto, stockVars, taskVars, countVars
  <2> HIDE DEF c
  <2>3. /\ \A d \in Counts : status'[d] \in {status[d], "CANCELLED"}
        /\ \A l \in Tasks : status'[l] = "COMPLETED" => status[l] = "COMPLETED"
    BY <1>1, <1>2, <1>3, <2>1, <2>2
  <2> QED BY <2>1, <2>2, <2>3, NoCountSays
<1>13. CASE Recount(w)
  <2>1. /\ job[w].doc \in Tasks /\ pc[w] = "loaded"
        /\ UNCHANGED << counted, expected, completions >>
    BY <1>4, <1>13 DEF Recount, At, Fits, taskVars, countVars
  <2>2. CASE Refuse(w)
    <3>1. UNCHANGED << balance, movements, content, status >> /\ Finish(w, "DECLINED")
      BY <2>2 DEF Refuse, Reply, stockVars
    <3>2. Ends(w) /\ job'[w].doc \in {job[w].doc, NoDoc}
      BY <2>1, <3>1 DEF Finish, Ends, ShapeInv, Fits, JobFields, Idle
    <3> QED BY <2>1, <3>1, <3>2, NoCountSays
  <2>3. ASSUME NEW k \in Tasks, status' = [status EXCEPT ![k] = "PENDING"],
               job' = [job EXCEPT ![w] = Job("start", k)],
               UNCHANGED << stockVars, content, pc >>
        PROVE  TaskSays(w)
    <3>1. job'[w].doc = k /\ pc'[w] # "idle"
      BY <1>3, <2>1, <2>3, JobShape
    <3>2. /\ \A d \in Counts : status'[d] \in {status[d], "CANCELLED"}
          /\ \A l \in Tasks : status'[l] = "COMPLETED" => status[l] = "COMPLETED"
      BY <1>1, <1>2, <1>3, <2>3
    <3>3. UNCHANGED << balance, movements, content >>
      BY <2>3 DEF stockVars
    <3> QED BY <2>1, <3>1, <3>2, <3>3, NoCountSays
  <2> QED BY <1>13, <2>2, <2>3 DEF Recount
<1>14. CASE CompleteTask(w)
  <2> DEFINE k == CHOOSE l \in Tasks : CountOf[l] = job[w].doc
  <2>1. job[w].doc \in CycleCounts /\ pc[w] = "completing"
    BY <1>4, <1>14 DEF CompleteTask, Fits
  <2>2. k \in Tasks /\ CountOf[k] = job[w].doc
    BY <2>1, CountsAssumption
  <2>3. /\ status' = [status EXCEPT ![k] = "COMPLETED"] /\ completions' = completions \cup {k}
        /\ UNCHANGED << balance, movements, content, counted, expected >> /\ Finish(w, "APPLIED")
    BY <1>14 DEF CompleteTask, stockVars, countVars
  <2> HIDE DEF k
  <2>4. ASSUME NEW c \in Counts
        PROVE  /\ status'[c] = status[c] /\ Leaves(w, c) /\ ~AtWork(w)'
               /\ \A l \in completions' : CountOf[l] = c => Completed(c)
    <3>1. status'[c] = status[c]
      BY <1>2, <1>3, <2>2, <2>3
    <3>2. Leaves(w, c) /\ Ends(w)
      BY <1>2, <2>1, <2>3, WhoLeaves, EndsOrGoesOn
    <3>3. \A l \in completions' : CountOf[l] = c => Completed(c)
      BY <2>1, <2>2, <2>3 DEF Completed
    <3> QED BY <3>1, <3>2, <3>3 DEF Ends, AtWork
  <2>5. \A l \in Tasks : status'[l] = "COMPLETED" => status[l] = "COMPLETED" \/ l \in completions'
    BY <1>1, <1>3, <2>2, <2>3
  <2> QED BY <1>3, <2>3, <2>4, <2>5 DEF TaskSays
<1> QED BY <1>5, <1>6, <1>7, <1>8, <1>9, <1>10, <1>11, <1>12, <1>13, <1>14 DEF TaskStep

(* That is what a step may say of counts and tasks, and keeps every count as *)
(* the ledger has it.                                                        *)
LEMMA TaskSaysKeeps ==
    ASSUME ShapeInv, StockInv, CountInvs, NEW w \in Workers, JobInv(w), NEW D, Step(w, D), TaskSays(w),
           \A c \in Counts : OnceInv(c)
    PROVE  CountFacts(w) /\ \A c \in Counts : OnceInv(c)'
<1>1. \A v \in Workers \ {w} : pc'[v] = pc[v] /\ job'[v] = job[v]
  BY DEF Step, WorkerStep
<1>2. CountFacts(w)
  <2>1. ASSUME NEW c \in Counts
        PROVE  /\ content'[c] = content[c]
               /\ expected'[c] \in {expected[c], OnTheBooks(c)}
               /\ counted'[c] = counted[c]
               /\ ~Furthers(w, c)'
               /\ status'[c] \in Reviewed => status[c] \in Reviewed
    BY DEF TaskSays, Furthers, Reviewed
  <2>2. ASSUME NEW c \in Counts, Completed(c)' PROVE Completed(c)
    <3>1. pc'[w] = "completing" => job'[w].doc # c
      BY DEF TaskSays, AtWork
    <3> QED BY <1>1, <2>2, <3>1 DEF Completed, TaskSays
  <2>3. DOMAIN expected' = Counts /\ DOMAIN counted' = Counts
    BY DEF TaskSays, CountInvs, CountsShape
  <2> QED BY <2>1, <2>2, <2>3 DEF CountFacts, TaskSays
<1>3. ASSUME NEW c \in Counts PROVE OnceInv(c)'
  <2>1. c \in Once /\ c \in Docs /\ c \notin Receipts
    BY DEF Once, Counts, Receipts
  <2>2. UNCHANGED stockVars /\ UNCHANGED content /\ Leaves(w, c)
    BY DEF TaskSays, stockVars
  <2>3. pc'[w] = "completing" => job'[w].doc # c
    BY DEF TaskSays, AtWork
  <2>4. CASE expected'[c] = expected[c] /\ status'[c] \in {status[c], "CANCELLED"}
    <3>1. FactsStay(c)
      BY <2>1, <2>4 DEF FactsStay, TaskSays
    <3>2. status'[c] = status[c] \/ status'[c] \notin Unposted \cup {"POSTED"}
      BY <2>4 DEF Unposted
    <3> QED BY <2>1, <2>2, <2>3, <3>1, <3>2, OnceStill
  <2>5. CASE status[c] = "NONE" /\ status'[c] = "COUNTING"
    <3>1. ~Told(c) /\ \A v \in Workers : ~Posting(v, c)
      BY <2>5 DEF OnceInv, OnceRequest, Unposted
    <3>2. StockStays(c)
      BY <2>1, <2>2, StockStaysSame DEF StockStep
    <3>3. Booked(c)' => Booked(c)
      BY <2>1, <2>3, <2>5, BookedSame DEF TaskSays
    <3> QED BY <2>1, <2>2, <3>1, <3>2, <3>3, OnceDrawn
  <2> QED BY <2>4, <2>5 DEF TaskSays
<1> QED BY <1>2, <1>3

-----------------------------------------------------------------------------
(* A step of a handler of other documents, whatever stock that moves. *)
LEMMA OnceNotMine ==
    ASSUME ShapeInv, StockInv, NEW w \in Workers, JobInv(w), StockStep(w), NEW D, Step(w, D),
           NEW d \in Once, OnceInv(d), job[w].doc # d, job'[w].doc # d,
           FactsStay(d), status'[d] = status[d], content'[d] = content[d]
    PROVE  OnceInv(d)'
<1>1. d \in Docs
  BY DEF Once, Receipts, Adjustments, Counts
<1>2. StockStays(d)
  BY <1>1, StockStaysSame
<1>3. Due(d)' = Due(d)
  BY <1>1, DueSame DEF FactsStay
<1>4. Booked(d)' => Booked(d)
  BY <1>1, BookedSame DEF FactsStay
<1>5. d \in Receipts /\ d \in postedAt => d \in postedAt'
  BY DEF FactsStay
<1>6. Leaves(w, d)
  BY DEF Leaves
<1> QED BY <1>1, <1>2, <1>3, <1>4, <1>5, <1>6, OnceAside

(* What a step of the service of counts says, for count d: nothing of any    *)
(* other.                                                                    *)
CountSays(w, d) ==
    /\ UNCHANGED << content, completions >>
    /\ DOMAIN expected' = Counts /\ DOMAIN counted' = Counts
    /\ \A c \in Counts \ {d} :
          /\ status'[c] = status[c] /\ expected'[c] = expected[c] /\ counted'[c] = counted[c]
          /\ job[w].doc # c /\ job'[w].doc # c
    /\ \A k \in Tasks : status'[k] = status[k]
    /\ expected'[d] \in {expected[d], OnTheBooks(d)}
    /\ counted'[d] = counted[d] \/ counted'[d] \in Tallies[d]
    /\ Furthers(w, d)' => Furthers(w, d) \/ status[d] \in Reviewed \/ counted[d] # << >>
    /\ status'[d] \in Reviewed => status[d] \in Reviewed \/ Furthers(w, d)
    /\ pc'[w] = "completing" /\ job'[w].doc = d => Completed(d) \/ Furthers(w, d)

(* Other counts are told the same. *)
LEMMA CountSaysKeeps ==
    ASSUME ShapeInv, StockInv, CountInvs, NEW w \in Workers, JobInv(w), StockStep(w), NEW D, Step(w, D),
           NEW d \in Counts, CountSays(w, d), \A c \in Counts \ {d} : OnceInv(c)
    PROVE  CountFacts(w) /\ \A c \in Counts \ {d} : OnceInv(c)'
<1>1. \A v \in Workers \ {w} : pc'[v] = pc[v] /\ job'[v] = job[v]
  BY DEF Step, WorkerStep
<1>2. CountFacts(w)
  <2>1. ASSUME NEW c \in Counts, Completed(c)' PROVE Completed(c) \/ Furthers(w, c)
    BY <1>1, <2>1 DEF Completed, CountSays
  <2>2. ASSUME NEW c \in Counts, c # d PROVE ~Furthers(w, c)'
    BY <2>2 DEF CountSays, Furthers
  <2> QED BY <2>1, <2>2 DEF CountFacts, CountSays
<1>3. ASSUME NEW c \in Counts \ {d} PROVE OnceInv(c)'
  <2>1. c \in Once /\ c \notin Receipts
    BY DEF Once, Counts, Receipts
  <2>2. FactsStay(c)
    BY <2>1 DEF FactsStay, CountSays, Completed
  <2> QED BY <2>1, <2>2, OnceNotMine DEF CountSays
<1> QED BY <1>2, <1>3

(* The difference of a count is something to adjust. *)
LEMMA VarianceSourced ==
    ASSUME ShapeInv, CountsShape, NEW c \in Counts
    PROVE  Sourced(Variance(c))
<1> DEFINE items == Lines(c)
           books == expected[c]
           found == counted[c]
<1>1. c \in Docs /\ content[c] \in DOMAIN Versions[c]
  BY DEF Counts, ShapeInv
<1>2. IsList(items) /\ DOMAIN items = 1 .. Len(items)
  BY <1>1, LinesAreLists, ListDomain
<1>3. \A i \in DOMAIN items : items[i].grain \in Grains
  BY <1>1, TalliesAssumption DEF Lines
<1>4. \A i \in 1 .. Len(items) : /\ items[i].grain \in Grains
                                 /\ books[i].qty \in Int /\ IsFiniteSet(books[i].units)
  <2> HIDE DEF items
  <2>1. \A i \in 1 .. Len(items) : items[i].grain \in Grains
    BY <1>2, <1>3
  <2>2. \A i \in 1 .. Len(items) : books[i].qty \in Int /\ IsFiniteSet(books[i].units)
    BY DEF CountsShape, items
  <2> QED BY <2>1, <2>2
<1>5. found # << >> => \A i \in 1 .. Len(items) : found[i].qty \in Int /\ IsFiniteSet(found[i].units)
  BY DEF CountsShape
<1>6. Variance(c) = Difference(items, books, found)
  BY DEF Variance
<1> HIDE DEF items, books, found
<1>7. Sourced(Difference(items, books, found))
  BY <1>2, <1>4, <1>5, DifferenceSourced
<1> QED BY <1>6, <1>7

(* Nothing to adjust is nothing to post. *)
LEMMA NothingAdjusted == AdjustmentLines(<< >>) = << >>
BY DEF AdjustmentLines

(* A request for a count is taken up: to post it is to post the difference.  *)
LEMMA CountLoaded ==
    ASSUME ShapeInv, CountInvs, NEW c \in Counts, RewritesAlone("count"), OneKey(c, "post"), OnceInv(c),
           NEW w \in Workers, NEW D, Step(w, D), UNCHANGED << postedAt, completions >>,
           NEW op \in DOMAIN CountFrom, LoadCount(w, op, c)
    PROVE  OnceInv(c)' /\ UNCHANGED stockVars /\ PostableJob(job'[w]) /\ CountSays(w, c)
<1>1. PICK key \in KeysOf[c][op] :
          Start(w, [Job(op, c) EXCEPT !.key = IF Variance(c) = << >> THEN NoKey ELSE key,
                                      !.lines = Variance(c), !.units = UnitsOf(Variance(c))])
  BY DEF LoadCount
<1> DEFINE lines == Variance(c)
           key0 == IF lines = << >> THEN NoKey ELSE key
           units0 == UnitsOf(lines)
           j == [Job(op, c) EXCEPT !.key = key0, !.lines = lines, !.units = units0]
<1>2. Start(w, j)
  BY <1>1
<1>3. (key0 = NoKey /\ lines = << >>) \/ key0 = key
  OBVIOUS
<1> HIDE DEF lines, key0, units0
<1>4. j.doc = c /\ j.op = op /\ j.key = key0 /\ j.lines = lines /\ j.next = "none"
  BY JobShape DEF JobFields
<1>5. RewritesAlone(KindOf[c]) /\ c \in Once /\ c \notin Receipts /\ c \in Docs /\ c # NoDoc
  BY DocumentsAssumption DEF Counts, Receipts, Once
<1>6. op = "post" => key = TheKey(c, "post")
  BY OneKeyOnly
<1>7. /\ op \in {"enter", "submit", "approve", "post", "cancel"}
      /\ op = "enter" => status[c] = "COUNTING"
      /\ op = "post" => status[c] = "APPROVED"
      /\ op = "approve" => status[c] = "REVIEW"
      /\ op = "submit" => counted[c] # << >>
  BY DEF LoadCount, CountFrom, MaySubmit
<1>8. Typed(AdjustmentLines(lines)) /\ Due(c) = AdjustmentLines(lines)
  <2>1. Sourced(lines)
    BY VarianceSourced DEF lines, CountInvs
  <2>2. Due(c) = AdjustmentLines(lines)
    BY <1>5 DEF Due, lines
  <2> QED BY <2>1, <2>2, LineByLineTyped
<1>9. key0 = key \/ Due(c) = << >>
  <2>1. lines = << >> => AdjustmentLines(lines) = << >>
    BY NothingAdjusted
  <2> QED BY <1>3, <1>8, <2>1
<1> HIDE DEF j
<1>10. op = "post" => PostedLines(j) = AdjustmentLines(lines)
  BY <1>4, <1>5 DEF PostedLines
<1>11. /\ UNCHANGED stockVars /\ job'[w] = j /\ pc'[w] = "loaded" /\ pc[w] = "idle"
       /\ UNCHANGED << status, content, expected, counted >>
  BY <1>2 DEF Start, Begin, ShapeInv, LoadCount, countVars
<1>12. PostableJob(j)
  BY <1>3, <1>4, <1>7, <1>8, <1>10 DEF PostableJob, PostingOps
<1>13. OnceInv(c)'
  <2>1. j.op \in {"edit", "enter"} => status[c] \in Unposted
    BY <1>4, <1>7 DEF Unposted
  <2>2. j.op = "post" => /\ status[c] # "NONE" /\ PostedLines(j) = Due(c)
                         /\ j.key = TheKey(c, "post") \/ Due(c) = << >>
    BY <1>4, <1>6, <1>7, <1>8, <1>9, <1>10
  <2>3. j.op \notin {"edit", "post"} => j.next \notin Unposted \cup {"POSTED"}
    BY <1>4 DEF Unposted
  <2> QED BY <1>2, <1>4, <1>5, <1>11, <2>1, <2>2, <2>3, OnceLoaded
<1>14. CountSays(w, c)
  <2>1. DOMAIN expected' = Counts /\ DOMAIN counted' = Counts
    BY <1>11 DEF CountInvs, CountsShape
  <2>2. \A d \in Counts \ {c} : job[w].doc # d /\ job'[w].doc # d
    <3>1. job[w].doc = NoDoc
      BY <1>11 DEF ShapeInv, Idle
    <3> QED BY <1>4, <1>11, <3>1, DocumentsAssumption DEF Counts
  <2>3. Furthers(w, c)' => status[c] \in Reviewed \/ counted[c] # << >>
    BY <1>4, <1>7, <1>11 DEF Furthers, Reviewed
  <2> QED BY <1>11, <2>1, <2>2, <2>3 DEF CountSays
<1> QED BY <1>11, <1>12, <1>13, <1>14

(* A count is made. *)
LEMMA CountCreated ==
    ASSUME ShapeInv, StockInv, CountInvs, NEW c \in Counts, OnceInv(c),
           NEW w \in Workers, JobInv(w), NEW D, Step(w, D), UNCHANGED << postedAt, completions >>,
           CreateCount(w, c)
    PROVE  OnceInv(c)' /\ UNCHANGED stockVars /\ pc'[w] = "idle" /\ CountSays(w, c)
<1>1. c \in Once /\ c \notin Receipts /\ c \in Docs /\ c # NoDoc
  BY DocumentsAssumption DEF Counts, Receipts, Once
<1>2. DOMAIN status = Docs /\ DOMAIN expected = Counts /\ DOMAIN counted = Counts
  BY DEF ShapeInv, CountInvs, CountsShape
<1>3. /\ pc[w] = "idle" /\ status[c] = "NONE" /\ UNCHANGED stockVars
      /\ UNCHANGED << pc, job, content, counted >>
      /\ status' = [status EXCEPT ![c] = "COUNTING"]
      /\ expected' = [expected EXCEPT ![c] = OnTheBooks(c)]
  BY DEF CreateCount, Open, workVars
<1>4. job[w].doc = NoDoc
  BY <1>3 DEF ShapeInv, Idle
<1>5. Leaves(w, c)
  BY <1>3 DEF Leaves
<1>6. status'[c] = "COUNTING" /\ expected'[c] = OnTheBooks(c)
  BY <1>1, <1>2, <1>3
<1>7. ~Told(c) /\ \A v \in Workers : ~Posting(v, c)
  BY <1>3 DEF OnceInv, OnceRequest, Unposted
<1>8. StockStays(c)
  BY <1>1, <1>3, StockStaysSame DEF StockStep
<1>9. Booked(c)' => Booked(c)
  <2>1. \A k \in completions' : CountOf[k] = c => Completed(c)
    BY DEF Completed
  <2> QED BY <1>1, <1>3, <1>4, <1>6, <2>1, BookedSame
<1>10. OnceInv(c)'
  BY <1>1, <1>5, <1>7, <1>8, <1>9, OnceDrawn
<1>11. CountSays(w, c)
  <2>1. /\ \A d \in Counts \ {c} :
              /\ status'[d] = status[d] /\ expected'[d] = expected[d]
              /\ job[w].doc # d /\ job'[w].doc # d
        /\ \A k \in Tasks : status'[k] = status[k]
    <3>1. \A d \in Counts : d \in Docs /\ d # NoDoc
      BY DocumentsAssumption DEF Counts
    <3>2. \A k \in Tasks : k \in Docs /\ k # c
      BY DEF Tasks, Counts
    <3> HIDE DEF OnTheBooks
    <3> QED BY <1>2, <1>3, <1>4, <3>1, <3>2
  <2>2. /\ DOMAIN expected' = Counts /\ DOMAIN counted' = Counts
        /\ expected'[c] = OnTheBooks(c) /\ status'[c] \notin Reviewed
    BY <1>2, <1>3, <1>6 DEF Reviewed
  <2>3. ~Furthers(w, c)' /\ pc'[w] # "completing"
    BY <1>3 DEF Furthers, AtWork
  <2> QED BY <1>3, <2>1, <2>2, <2>3 DEF CountSays
<1> QED BY <1>3, <1>10, <1>11

(* A handler of a count goes on, or ends. *)
LEMMA CountHandled ==
    ASSUME ShapeInv, StockInv, CountInvs, NEW c \in Counts, OneKey(c, "post"), OnceInv(c),
           NEW w \in Workers, JobInv(w), NEW D, Step(w, D), UNCHANGED << postedAt, completions >>,
           job[w].doc = c, CountStep(w) \/ (Fail(w) /\ UNCHANGED countVars)
    PROVE  OnceInv(c)' /\ CountSays(w, c)
<1>1. c \in Once /\ c \notin Receipts /\ c \in Docs /\ c # NoDoc
  BY DocumentsAssumption DEF Counts, Receipts, Once
<1>2. /\ DOMAIN status = Docs /\ DOMAIN expected = Counts /\ DOMAIN counted = Counts
      /\ DOMAIN pc = Workers /\ DOMAIN job = Workers
  BY DEF ShapeInv, CountInvs, CountsShape
<1>3. pc[w] # "idle"
  BY DEF CountStep, EnterCounts, AdvanceCount, PostCount, CloseCount, At, Fail
<1>4. job'[w].doc \in {c, NoDoc}
  BY <1>3 DEF Step, WorkerStep, CountStep, EnterCounts, AdvanceCount, PostCount, CloseCount, Enter, Reply,
              Advance, Finish, Goto, Fail, ShapeInv, Fits, JobFields, Idle
<1>5. \A d \in Counts \ {c} : job[w].doc # d /\ job'[w].doc # d
  BY <1>4, DocumentsAssumption DEF Counts
<1>6. \A k \in Tasks : k \in Docs /\ k # c
  BY DEF Tasks, Counts
<1>7. \A d \in Counts : d \in Docs
  BY DEF Counts
<1>8. CASE EnterCounts(w)
  <2>1. /\ Rewriting(w, c) /\ UNCHANGED stockVars /\ Finish(w, "APPLIED")
        /\ UNCHANGED << status, content, expected >>
        /\ \E tally \in Tallies[c] : counted' = [counted EXCEPT ![c] = tally]
    BY <1>8 DEF EnterCounts, At, Rewriting
  <2>2. OnceInv(c)'
    BY <1>1, <2>1, OnceRewritten
  <2>3. Ends(w)
    BY <2>1, EndsOrGoesOn
  <2>4. /\ DOMAIN counted' = Counts /\ counted'[c] \in Tallies[c]
        /\ \A d \in Counts \ {c} : counted'[d] = counted[d]
    BY <1>2, <2>1
  <2>5. ~Furthers(w, c)' /\ pc'[w] # "completing"
    BY <2>3 DEF Ends, Furthers, AtWork
  <2> QED BY <1>2, <1>5, <2>1, <2>2, <2>4, <2>5 DEF CountSays
<1>9. CASE AdvanceCount(w)
  <2> DEFINE s == CountTo[job[w].op]
  <2>1. /\ Advance(w, s) /\ UNCHANGED countVars /\ pc[w] = "loaded"
        /\ job[w].op \in {"submit", "approve", "cancel"}
        /\ s \in {"REVIEW", "APPROVED", "CANCELLED"}
        /\ s \in Reviewed => job[w].op # "cancel"
    BY <1>9 DEF AdvanceCount, CountTo, Reviewed
  <2> HIDE DEF s
  <2>2. s \notin Unposted \cup {"POSTED"} /\ FactsStay(c)
    BY <1>1, <2>1 DEF Unposted, FactsStay, countVars, Completed
  <2>3. OnceInv(c)'
    BY <1>1, <1>3, <2>1, <2>2, OnceHandled
  <2>4. status' = [status EXCEPT ![c] = s] /\ UNCHANGED << content, expected, counted >> /\ Finish(w, "APPLIED")
    BY <2>1 DEF Advance, Write, countVars
  <2>5. Ends(w)
    BY <2>4, EndsOrGoesOn
  <2>6. s \in Reviewed => Furthers(w, c)
    BY <2>1 DEF Furthers, AtWork
  <2>7. /\ \A d \in Counts \ {c} : status'[d] = status[d]
        /\ \A k \in Tasks : status'[k] = status[k]
        /\ status'[c] = s
    BY <1>1, <1>2, <1>6, <1>7, <2>4
  <2>8. ~Furthers(w, c)' /\ pc'[w] # "completing"
    BY <2>5 DEF Ends, Furthers, AtWork
  <2> QED BY <1>2, <1>5, <2>3, <2>4, <2>6, <2>7, <2>8 DEF CountSays
<1>10. CASE PostCount(w)
  <2> DEFINE l == AdjustmentLines(job[w].lines)
             fit == UnitsAdjustable(job[w].lines)
  <2>1. Enter(w, l, fit) /\ At(w, "loaded", "post") /\ UNCHANGED countVars
    BY <1>10 DEF PostCount
  <2> HIDE DEF l, fit
  <2>2. FactsStay(c)
    BY <1>1, <2>1 DEF FactsStay, countVars, Completed
  <2>3. OnceInv(c)'
    BY <1>1, <2>1, <2>2, OnceHandled
  <2>4. /\ UNCHANGED << status, content, expected, counted >>
        /\ Finish(w, "APPLIED") \/ Finish(w, "DECLINED") \/ Goto(w, "posting")
    BY <2>1 DEF Enter, Reply, countVars
  <2>5. Ends(w) \/ (pc'[w] = "posting" /\ job' = job)
    BY <2>4, EndsOrGoesOn
  <2>6. (Furthers(w, c)' => Furthers(w, c)) /\ pc'[w] # "completing"
    BY <2>1, <2>5 DEF Ends, Furthers, AtWork, At
  <2> QED BY <1>2, <1>5, <2>3, <2>4, <2>6 DEF CountSays
<1>11. CASE CloseCount(w)
  <2>1. /\ Posting(w, c) /\ Posts(w) /\ UNCHANGED << content, expected, counted >>
        /\ status' = [status EXCEPT ![c] = "POSTED"]
        /\ Finish(w, "APPLIED") \/ Goto(w, "completing")
        /\ Furthers(w, c)
    BY <1>1, <1>11 DEF CloseCount, At, Posting, Posts, AtWork, PostingOps, PostedLines, Write, countVars, Furthers
  <2>2. /\ \A d \in Counts \ {c} : status'[d] = status[d]
        /\ \A k \in Tasks : status'[k] = status[k]
        /\ status'[c] \notin Unposted
    BY <1>1, <1>2, <1>6, <1>7, <2>1 DEF Unposted
  <2>3. pc'[w] \notin {"loaded", "posting"}
    BY <2>1, EndsOrGoesOn DEF Ends
  <2>4. OnceInv(c)'
    BY <1>1, <2>1, <2>2, <2>3, OncePosted
  <2> QED BY <1>2, <1>5, <2>1, <2>2, <2>4 DEF CountSays
<1>12. CASE Fail(w) /\ UNCHANGED countVars
  <2>1. FactsStay(c)
    BY <1>1, <1>12 DEF FactsStay, countVars, Completed
  <2>2. OnceInv(c)'
    BY <1>1, <1>12, <2>1, OnceHandled
  <2>3. UNCHANGED << status, content, expected, counted >> /\ pc'[w] = "idle"
    BY <1>2, <1>12 DEF Fail, countVars
  <2>4. ~Furthers(w, c)'
    BY <2>3 DEF Furthers, AtWork
  <2> QED BY <1>2, <1>5, <2>2, <2>3, <2>4 DEF CountSays
<1> QED BY <1>8, <1>9, <1>10, <1>11, <1>12 DEF CountStep

(* Whatever becomes of counts and tasks. *)
LEMMA CountActionKeeps ==
    ASSUME ShapeInv, StockInv, CountInvs, RewritesAlone("count"),
           \A c \in Counts : OneKey(c, "post") /\ OnceInv(c),
           NEW w \in Workers, JobInv(w), CountAction(w), UNCHANGED postedAt
    PROVE  (\A c \in Counts : OnceInv(c)') /\ StockStep(w) /\ JobInv(w)' /\ CountInvs'
<1> DEFINE D == Counting
<1>1. Step(w, D)
  BY CountActionSteps
<1> HIDE DEF D
<1>2. ASSUME TaskSays(w), Ends(w) \/ GoesOn(w) \/ PostableJob(job'[w])
      PROVE  (\A c \in Counts : OnceInv(c)') /\ StockStep(w) /\ JobInv(w)' /\ CountInvs'
  <2>1. StockStep(w) /\ JobInv(w)'
    BY <1>2, JobKept DEF StockStep, TaskSays, stockVars
  <2>2. CountFacts(w) /\ \A c \in Counts : OnceInv(c)'
    BY <1>1, <1>2, TaskSaysKeeps
  <2> QED BY <1>1, <2>1, <2>2, CountFactsKeep
<1>3. ASSUME NEW c \in Counts, CountSays(w, c), OnceInv(c)', StockStep(w),
             Ends(w) \/ GoesOn(w) \/ PostableJob(job'[w])
      PROVE  (\A d \in Counts : OnceInv(d)') /\ StockStep(w) /\ JobInv(w)' /\ CountInvs'
  <2>1. JobInv(w)'
    BY <1>3, JobKept
  <2>2. CountFacts(w) /\ \A d \in Counts \ {c} : OnceInv(d)'
    BY <1>1, <1>3, CountSaysKeeps
  <2>3. \A d \in Counts : OnceInv(d)'
    BY <1>3, <2>2
  <2> QED BY <1>1, <1>3, <2>1, <2>2, <2>3, CountFactsKeep
<1>4. ASSUME NEW k \in Tasks, job'[w] = Job("start", k) PROVE PostableJob(job'[w])
  BY <1>4, JobShape DEF PostableJob, PostingOps
<1>5. ASSUME NEW c \in Counts, CreateCount(w, c), UNCHANGED taskVars
      PROVE  (\A d \in Counts : OnceInv(d)') /\ StockStep(w) /\ JobInv(w)' /\ CountInvs'
  <2>1. OnceInv(c)' /\ UNCHANGED stockVars /\ pc'[w] = "idle" /\ CountSays(w, c)
    BY <1>1, <1>5, CountCreated DEF taskVars
  <2> QED BY <1>3, <2>1 DEF StockStep, Ends
<1>6. ASSUME NEW c \in Counts, NEW op \in DOMAIN CountFrom, LoadCount(w, op, c), UNCHANGED taskVars
      PROVE  (\A d \in Counts : OnceInv(d)') /\ StockStep(w) /\ JobInv(w)' /\ CountInvs'
  <2>1. OnceInv(c)' /\ UNCHANGED stockVars /\ PostableJob(job'[w]) /\ CountSays(w, c)
    BY <1>1, <1>6, CountLoaded DEF taskVars
  <2> QED BY <1>3, <2>1 DEF StockStep
<1>7. ASSUME NEW k \in Tasks, CreateTask(w, k)
      PROVE  (\A d \in Counts : OnceInv(d)') /\ StockStep(w) /\ JobInv(w)' /\ CountInvs'
  <2>1. TaskSays(w)
    BY <1>7, TasksSay DEF CountInvs
  <2>2. pc'[w] = "idle"
    BY <1>7 DEF CreateTask, workVars
  <2> QED BY <1>2, <2>1, <2>2 DEF Ends
<1>8. ASSUME NEW k \in Tasks, NEW op \in DOMAIN TaskFrom, LoadTask(w, op, k)
      PROVE  (\A d \in Counts : OnceInv(d)') /\ StockStep(w) /\ JobInv(w)' /\ CountInvs'
  <2>1. TaskSays(w)
    BY <1>8, TasksSay DEF CountInvs
  <2> DEFINE next == IF op = "cancel" /\ k \in linked /\ status[CountOf[k]] # "CANCELLED"
                     THEN "count" ELSE "task"
             j == [Job(op, k) EXCEPT !.next = next]
  <2>2. Start(w, j) /\ op \in {"assign", "start", "cancel", "recount"}
    BY <1>8 DEF LoadTask, TaskFrom
  <2> HIDE DEF next
  <2>3. j.op = op
    BY JobShape DEF JobFields
  <2> HIDE DEF j
  <2>4. job'[w] = j
    BY <2>2 DEF Start, Begin, ShapeInv
  <2>5. PostableJob(job'[w])
    BY <2>2, <2>3, <2>4 DEF PostableJob, PostingOps
  <2> QED BY <1>2, <2>1, <2>5
<1>9. CASE CountStep(w) /\ UNCHANGED taskVars
  <2>1. PICK c \in Counts : job[w].doc = c
    BY <1>9 DEF CountStep, EnterCounts, AdvanceCount, PostCount, CloseCount
  <2>2. StockStep(w) /\ (Ends(w) \/ GoesOn(w) \/ PostableJob(job'[w]))
    BY <1>4, <1>9, CountWorks
  <2>3. OnceInv(c)' /\ CountSays(w, c)
    <3>1. OneKey(c, "post") /\ OnceInv(c)
      OBVIOUS
    <3> QED BY <1>1, <1>9, <2>1, <3>1, CountHandled DEF taskVars
  <2> QED BY <1>3, <2>1, <2>2, <2>3
<1>10. CASE TaskStep(w)
  <2>1. TaskSays(w)
    BY <1>10, TasksSay DEF CountInvs
  <2>2. Ends(w) \/ GoesOn(w) \/ PostableJob(job'[w])
    BY <1>4, <1>10, CountWorks
  <2> QED BY <1>2, <2>1, <2>2
<1>11. CASE Fail(w) /\ job[w].doc \in Counting /\ UNCHANGED << countVars, taskVars >>
  <2>1. /\ UNCHANGED << balance, movements, content, counted, expected, status, completions, postedAt >>
        /\ UNCHANGED stockVars /\ pc'[w] = "idle" /\ job'[w] = Idle
    BY <1>11 DEF Fail, ShapeInv, stockVars, countVars, taskVars
  <2>2. Ends(w) /\ StockStep(w)
    BY <2>1 DEF Ends, StockStep
  <2>3. CASE job[w].doc \in Counts
    <3>1. PICK c \in Counts : job[w].doc = c
      BY <2>3
    <3>2. OneKey(c, "post") /\ OnceInv(c)
      OBVIOUS
    <3>3. OnceInv(c)' /\ CountSays(w, c)
      BY <1>1, <1>11, <2>1, <3>1, <3>2, CountHandled
    <3> QED BY <1>3, <2>2, <3>1, <3>3
  <2>4. CASE job[w].doc \in Tasks
    <3>1. job'[w].doc = NoDoc
      BY <2>1 DEF Idle
    <3>2. TaskSays(w)
      BY <2>1, <2>2, <2>4, <3>1, NoCountSays DEF CountInvs
    <3> QED BY <1>2, <2>2, <3>2
  <2> QED BY <1>11, <2>3, <2>4 DEF Counting
<1> QED BY <1>5, <1>6, <1>7, <1>8, <1>9, <1>10, <1>11 DEF CountAction

-----------------------------------------------------------------------------
(* Returns, which are not posted once: they post what they can *)

(* What becomes of return r. *)
ReturnAction(w, r) ==
    \/ CreateReturn(w, r)
    \/ LoadIntake(w, r)
    \/ LoadCancel(w, r)
    \/ \E a \in Disposals, key \in KeysOf[r]["dispose"] :
          LoadDispose(w, r, a.line, a.outcome, a.qty, a.units, key)
    \/ ReturnStep(w) /\ job[w].doc = r
    \/ Fail(w) /\ job[w].doc = r /\ UNCHANGED returnVars

(* It is a step for r alone. *)
LEMMA ReturnActionSteps ==
    ASSUME ShapeInv, NEW w \in Workers, NEW r \in Returns, ReturnAction(w, r)
    PROVE  Step(w, {r})
<1> DEFINE D == {r}
<1>1. r \in D /\ D = {r}
  OBVIOUS
<1> HIDE DEF D
<1>2. CASE Fail(w) /\ job[w].doc = r
  BY <1>1, <1>2, FailSteps
<1>3. CASE ~(Fail(w) /\ job[w].doc = r)
  BY <1>1, <1>3, ReturnsStep DEF ReturnAction
<1> QED BY <1>1, <1>2, <1>3

(* What it posts can be posted. *)
LEMMA ReturnActionWorks ==
    ASSUME ShapeInv, NEW r \in Returns, NEW w \in Workers, JobInv(w), ReturnAction(w, r)
    PROVE  StockStep(w) /\ JobInv(w)'
<1> DEFINE lines == Lines(r)
<1>1. r \in Docs /\ content[r] \in DOMAIN Versions[r] /\ DOMAIN job = Workers /\ DOMAIN pc = Workers
  BY DEF Returns, ShapeInv
<1>2. IsList(lines) /\ DOMAIN lines = 1 .. Len(lines)
  BY <1>1, LinesAreLists, ListDomain
<1>3. \A i \in DOMAIN lines : lines[i].grain \in Grains /\ \A qty \in Overrides[r] : qty[i] \in Nat
  BY <1>1, ReturnsAssumption DEF Lines
<1>4. CASE CreateReturn(w, r)
  <2>1. UNCHANGED stockVars /\ pc'[w] = "idle"
    BY <1>4 DEF CreateReturn, Create, workVars
  <2> QED BY <2>1, JobKept DEF StockStep, Ends
<1>5. CASE LoadIntake(w, r)
  <2>1. PICK qty \in Overrides[r], key \in KeysOf[r]["intake"] :
            Start(w, [Job("intake", r) EXCEPT !.key = key, !.qty = qty])
    BY <1>5 DEF LoadIntake
  <2> DEFINE j == [Job("intake", r) EXCEPT !.key = key, !.qty = qty]
  <2>2. j.op = "intake" /\ j.doc = r /\ j.key = key /\ j.qty = qty /\ j.lines = lines
    BY JobShape DEF JobFields
  <2>3. Start(w, j)
    BY <2>1
  <2> HIDE DEF j, lines
  <2>4. UNCHANGED stockVars /\ job'[w] = j
    BY <1>1, <2>3 DEF Start, Begin
  <2>5. \A i \in 1 .. Len(lines) : lines[i].grain \in Grains /\ qty[i] \in Int
    BY <1>2, <1>3
  <2>6. Typed(IntakeLines(lines, qty))
    BY <1>2, <2>5, IntakeTyped
  <2>7. PostedLines(j) = IntakeLines(lines, qty)
    BY <2>2 DEF PostedLines
  <2>8. PostableJob(j)
    BY <2>2, <2>6, <2>7 DEF PostableJob
  <2> QED BY <2>4, <2>8, JobKept DEF StockStep
<1>6. CASE LoadCancel(w, r)
  <2> DEFINE j == Job("cancel", r)
  <2>1. j.op = "cancel"
    BY JobShape
  <2>2. Start(w, j)
    BY <1>6 DEF LoadCancel
  <2> HIDE DEF j
  <2>3. UNCHANGED stockVars /\ job'[w] = j
    BY <1>1, <2>2 DEF Start, Begin
  <2>4. PostableJob(j)
    BY <2>1 DEF PostableJob, PostingOps
  <2> QED BY <2>3, <2>4, JobKept DEF StockStep
<1>7. ASSUME NEW a \in Disposals, NEW key \in KeysOf[r]["dispose"],
             LoadDispose(w, r, a.line, a.outcome, a.qty, a.units, key)
      PROVE  StockStep(w) /\ JobInv(w)'
  <2> DEFINE qty == << a.qty >>
             j == [Job("dispose", r) EXCEPT !.key = key, !.next = a.outcome, !.line = a.line, !.qty = qty,
                                            !.units = a.units]
  <2>1. Start(w, j) /\ a.line \in DOMAIN lines /\ qty[1] = a.qty
    BY <1>7 DEF LoadDispose
  <2> HIDE DEF qty
  <2>2. /\ j.op = "dispose" /\ j.doc = r /\ j.key = key /\ j.next = a.outcome /\ j.line = a.line
        /\ j.qty = qty /\ j.lines = lines
    BY JobShape DEF JobFields
  <2> HIDE DEF j, lines
  <2>3. UNCHANGED stockVars /\ job'[w] = j
    BY <1>1, <2>1 DEF Start, Begin
  <2>4. j.lines[j.line].grain \in Grains /\ j.qty[1] \in Int /\ j.next \in DOMAIN Outcomes
    BY <1>3, <2>1, <2>2, StockAssumption
  <2>5. Typed(DisposalLines(j))
    BY <2>4, DisposalTyped
  <2>6. PostedLines(j) = DisposalLines(j)
    BY <2>2 DEF PostedLines
  <2>7. PostableJob(j)
    BY <2>2, <2>5, <2>6 DEF PostableJob
  <2> QED BY <2>3, <2>7, JobKept DEF StockStep
<1>8. CASE ReturnStep(w)
  BY <1>8, ReturnWorks, JobKept
<1>9. CASE Fail(w)
  <2>1. UNCHANGED stockVars /\ pc'[w] = "idle"
    BY <1>1, <1>9 DEF Fail
  <2> QED BY <2>1, JobKept DEF StockStep, Ends
<1> QED BY <1>4, <1>5, <1>6, <1>7, <1>8, <1>9 DEF ReturnAction

-----------------------------------------------------------------------------
(* Transfers, which are posted twice, each time before they are recorded *)

(* The ledger has posted the dispatch of t, and its receipt. *)
Left(t) == Keyed(TheKey(t, "dispatch"))
There(t) == Keyed(TheKey(t, "receive"))

(* A transfer's two keys are its own. *)
OwnKeys(t) ==
    /\ OneKey(t, "dispatch") /\ OneKey(t, "receive")
    /\ TheKey(t, "dispatch") # TheKey(t, "receive")
    /\ \A d \in Docs \ {t} : \A op \in PostingOps :
          TheKey(t, "dispatch") \notin KeysOf[d][op] /\ TheKey(t, "receive") \notin KeysOf[d][op]

Qtys(lines) == [i \in DOMAIN lines |-> lines[i].qty]

(* What has moved for t by then is what t says. *)
LedgerHas(t) ==
    /\ StockMovedFor(t) <=> Left(t)
    /\ There(t) => Left(t)
    /\ MovedIn(movements, t) =
          IF There(t) THEN Arrived(t) ELSE IF Left(t) THEN Sent(t) ELSE Nothing

Handles(w, t, op) == AtWork(w) /\ job[w].doc = t /\ job[w].op = op

(* What a request for t has loaded still holds where it matters. *)
TransferRequest(w, t) ==
    /\ Handles(w, t, "edit") => ~StockMovedFor(t) /\ \A v \in Workers \ {w} : job[v].doc # t
    /\ Handles(w, t, "dispatch") =>
          /\ job[w].key = TheKey(t, "dispatch") /\ job[w].lines = Lines(t) /\ status[t] \notin Unposted
          /\ pc[w] \in {"posted", "recording"} => Left(t)
    /\ Handles(w, t, "receive") =>
          /\ job[w].key = TheKey(t, "receive") /\ job[w].lines = Lines(t) /\ status[t] \notin Unposted
          /\ job[w].qty = Qtys(Lines(t)) /\ Left(t)
          /\ pc[w] \in {"posted", "recording"} => There(t)

(* What is on the items of t has moved. *)
OnItems(t) ==
    /\ qtyDispatched[t] = NoneOf(Lines(t)) \/ (Left(t) /\ qtyDispatched[t] = Qtys(Lines(t)))
    /\ qtyReceived[t] = NoneOf(Lines(t)) \/ (There(t) /\ qtyReceived[t] = Qtys(Lines(t)))

TransferInv(t) ==
    /\ status[t] \in Unposted => ~StockMovedFor(t)
    /\ LedgerHas(t)
    /\ OnItems(t)
    /\ \A w \in Workers : TransferRequest(w, t)

TransfersShape == DOMAIN qtyDispatched = Transfers /\ DOMAIN qtyReceived = Transfers

(* The lines of a transfer have rows to leave and to arrive at, and move.    *)
LEMMA TransferLines ==
    ASSUME ShapeInv, NEW t \in Transfers
    PROVE  /\ Typed(OutLines(Lines(t))) /\ Len(OutLines(Lines(t))) > 0
           /\ Typed(InLines(Lines(t), Qtys(Lines(t)))) /\ Len(InLines(Lines(t), Qtys(Lines(t)))) > 0
           /\ NoneOf(Lines(t)) # Qtys(Lines(t)) /\ \A i \in DOMAIN Lines(t) : Lines(t)[i].qty \in Nat \ {0}
<1> DEFINE lines == Lines(t)
           qty == Qtys(lines)
           out == OutLines(lines)
           in == InLines(lines, qty)
<1>1. t \in Docs /\ content[t] \in DOMAIN Versions[t]
  BY DEF Transfers, ShapeInv
<1>2. IsList(lines) /\ DOMAIN lines = 1 .. Len(lines) /\ Len(lines) \in Nat
  BY <1>1, LinesAreLists, ListDomain
<1>3. /\ lines # << >>
      /\ \A i \in DOMAIN lines : /\ lines[i].grain \in Grains /\ lines[i].to \in Grains
                                 /\ lines[i].qty \in Nat \ {0}
  BY <1>1, TransfersAssumption DEF Lines
<1> HIDE DEF lines
<1>4. DOMAIN qty = DOMAIN lines /\ \A i \in DOMAIN lines : qty[i] = lines[i].qty
  BY DEF Qtys
<1>5. Len(lines) > 0
  BY <1>2, <1>3 DEF IsList
<1>6. Sourced(lines)
  BY <1>2, <1>3 DEF Sourced
<1>7. /\ \A i \in 1 .. Len(lines) : lines[i].to \in Grains
      /\ \A i \in 1 .. Len(lines) : qty[i] \in Int
      /\ \A i \in 1 .. Len(lines) : qty[i] > 0
  BY <1>2, <1>3, <1>4
<1> HIDE DEF qty
<1>8. Typed(out) /\ Len(out) = Len(lines)
  BY <1>6, LineByLineTyped
<1>9. Typed(in) /\ in # << >>
  BY <1>3, <1>6, <1>7, InTyped
<1> HIDE DEF out, in
<1>10. Len(in) > 0
  BY <1>9, ListDomain DEF Typed, IsList
<1>11. NoneOf(lines) # qty
  <2>1. 1 \in DOMAIN lines
    BY <1>2, <1>5
  <2>2. NoneOf(lines)[1] = 0 /\ qty[1] # 0
    BY <1>3, <1>4, <2>1 DEF NoneOf
  <2> QED BY <2>2
<1> QED BY <1>3, <1>5, <1>8, <1>9, <1>10, <1>11 DEF lines, qty, out, in

(* What other documents post, and what does not post, leaves t as it is.     *)
LEMMA LedgerStays ==
    ASSUME ShapeInv, StockInv, NEW w \in Workers, JobInv(w), StockStep(w), NEW D, Step(w, D),
           NEW t \in Transfers, OwnKeys(t), t # job[w].doc \/ UNCHANGED stockVars
    PROVE  /\ StockMovedFor(t)' <=> StockMovedFor(t)
           /\ Left(t)' <=> Left(t)
           /\ There(t)' <=> There(t)
           /\ MovedIn(movements', t) = MovedIn(movements, t)
<1>1. t \in Docs
  BY DEF Transfers
<1>2. StockStays(t)
  BY <1>1, StockStaysSame
<1>3. ASSUME NEW key \in {TheKey(t, "dispatch"), TheKey(t, "receive")} PROVE Keyed(key)' <=> Keyed(key)
  <2>1. CASE UNCHANGED stockVars
    BY <2>1 DEF stockVars, Keyed
  <2>2. CASE t # job[w].doc
    <3>1. ASSUME Keyed(key)', ~Keyed(key) PROVE FALSE
      <4>1. Posts(w) /\ key # NoKey /\ key = job[w].key
        BY <3>1, StockMoves
      <4>2. job[w].op \in PostingOps /\ job[w].key \in KeysOf[job[w].doc][job[w].op] \cup {NoKey}
        BY <4>1 DEF Posts, JobInv, PostableJob
      <4>3. job[w].doc \in Docs \ {t}
        BY <2>2, <4>1 DEF Posts, AtWork, ShapeInv, Fits
      <4> QED BY <4>1, <4>2, <4>3 DEF OwnKeys
    <3> QED BY <1>2, <3>1 DEF StockStays
  <2> QED BY <2>1, <2>2
<1>4. (Left(t)' <=> Left(t)) /\ (There(t)' <=> There(t))
  BY <1>3 DEF Left, There, TheKey
<1> QED BY <1>2, <1>4 DEF StockStays

(* Its dispatch and its receipt move what they say, once. *)
LEMMA TransferPosts ==
    ASSUME ShapeInv, StockInv, NEW w \in Workers, JobInv(w), Posts(w), NEW D, Step(w, D),
           NEW t \in Transfers, OwnKeys(t), TransferInv(t), content'[t] = content[t],
           Handles(w, t, "dispatch") \/ Handles(w, t, "receive")
    PROVE  /\ LedgerHas(t)'
           /\ Handles(w, t, "dispatch") => Left(t)'
           /\ Handles(w, t, "receive") => There(t)'
           /\ Left(t) => Left(t)'
           /\ There(t) => There(t)'
<1> DEFINE lines == PostedLines(job[w])
           cmd == CommandOf(job[w], lines)
           m == movements
           after == movements'
           out == TheKey(t, "dispatch")
           in == TheKey(t, "receive")
           sent == EffectOf(OutLines(Lines(t)))
           got == EffectOf(InLines(Lines(t), Qtys(Lines(t))))
<1>1. /\ job[w].doc = t /\ Typed(lines) /\ cmd.lines = lines /\ cmd.key = job[w].key
      /\ TransferRequest(w, t)
  BY DEF Handles, Posts, TransferInv, JobInv, PostableJob, CommandOf
<1>2. Appended(m, after, cmd, t) /\ MovedIn(after, t) = Plus(MovedIn(m, t), EffectOf(lines))
  BY <1>1, PostsKeepStock
<1>3. out # in /\ out # NoKey /\ in # NoKey
  BY OneKeyOnly DEF OwnKeys
<1>4. KeyedBy(m, cmd.key) = {} /\ IsList(m) /\ DOMAIN m = 1 .. Len(m) /\ Journal(m)
  BY ListDomain DEF Posts, Post, ShapeInv, StockInv
<1>5. /\ Left(t) <=> KeyedBy(m, out) # {}
      /\ There(t) <=> KeyedBy(m, in) # {}
      /\ Left(t)' <=> KeyedBy(after, out) # {}
      /\ There(t)' <=> KeyedBy(after, in) # {}
  BY DEF Left, There, Keyed, TheKey
<1>6. StockMovedFor(t)' <=> \E i \in 1 .. Len(after) : after[i].ref = t
  BY DEF StockMovedFor
<1>7. /\ Sent(t)' = sent /\ Arrived(t)' = Plus(sent, got)
      /\ Sent(t) = sent /\ Arrived(t) = Plus(sent, got)
  BY DEF Sent, Arrived, Lines, Qtys
<1>8. sent \in Balances /\ Len(OutLines(Lines(t))) > 0 /\ Len(InLines(Lines(t), Qtys(Lines(t)))) > 0
  BY TransferLines, EffectIsBalances
<1>9. LedgerHas(t)' <=>
          /\ StockMovedFor(t)' <=> Left(t)'
          /\ There(t)' => Left(t)'
          /\ MovedIn(after, t) = IF There(t)' THEN Plus(sent, got) ELSE IF Left(t)' THEN sent ELSE Nothing
  BY <1>7 DEF LedgerHas
<1>10. LedgerHas(t) <=>
          /\ StockMovedFor(t) <=> Left(t)
          /\ There(t) => Left(t)
          /\ MovedIn(m, t) = IF There(t) THEN Plus(sent, got) ELSE IF Left(t) THEN sent ELSE Nothing
  BY <1>7 DEF LedgerHas
<1>11. LedgerHas(t)
  BY DEF TransferInv
<1>12. \/ lines = OutLines(Lines(t)) /\ cmd.key = out /\ EffectOf(lines) = sent /\ Handles(w, t, "dispatch")
       \/ /\ lines = InLines(Lines(t), Qtys(Lines(t))) /\ cmd.key = in /\ EffectOf(lines) = got
          /\ Left(t) /\ Handles(w, t, "receive")
  BY <1>1 DEF PostedLines, TransferRequest, Handles
<1>13. Handles(w, t, "dispatch") => ~Handles(w, t, "receive")
  BY DEF Handles
<1> HIDE DEF lines, cmd, m, after, out, in, sent, got
<1>14. Len(cmd.lines) > 0
  BY <1>1, <1>8, <1>12
<1>15. /\ KeyedBy(after, out) # {} <=> KeyedBy(m, out) # {} \/ cmd.key = out
       /\ KeyedBy(after, in) # {} <=> KeyedBy(m, in) # {} \/ cmd.key = in
  <2>1. \A key : KeyedBy(after, key) # {} <=>
                     KeyedBy(m, key) # {} \/ (key # NoKey /\ cmd.key = key /\ Len(cmd.lines) > 0)
    BY <1>2, <1>4, PostKeys
  <2> QED BY <1>3, <1>14, <2>1
<1>16. StockMovedFor(t)'
  <2> DEFINE n == Len(m) + 1
  <2>1. n \in 1 .. Len(after) /\ after[n].ref = t
    BY <1>2, <1>14 DEF Appended
  <2> HIDE DEF n
  <2> QED BY <1>6, <2>1
<1>17. CASE cmd.key = out /\ EffectOf(lines) = sent /\ Handles(w, t, "dispatch")
  <2>1. ~Left(t) /\ ~There(t) /\ MovedIn(m, t) = Nothing
    BY <1>4, <1>5, <1>10, <1>11, <1>17
  <2>2. Left(t)' /\ ~There(t)'
    BY <1>3, <1>5, <1>15, <1>17, <2>1
  <2>3. MovedIn(after, t) = sent
    BY <1>2, <1>8, <1>17, <2>1, PlusNothing
  <2> QED BY <1>9, <1>13, <1>16, <1>17, <2>1, <2>2, <2>3
<1>18. CASE cmd.key = in /\ EffectOf(lines) = got /\ Left(t) /\ Handles(w, t, "receive")
  <2>1. ~There(t) /\ MovedIn(m, t) = sent
    BY <1>4, <1>5, <1>10, <1>11, <1>18
  <2>2. Left(t)' /\ There(t)'
    BY <1>5, <1>15, <1>18
  <2>3. MovedIn(after, t) = Plus(sent, got)
    BY <1>2, <1>18, <2>1
  <2> QED BY <1>9, <1>13, <1>16, <1>18, <2>2, <2>3
<1> QED BY <1>12, <1>17, <1>18

(* A step that leaves on the items of t what has moved, or puts it there. *)
LEMMA TransferStill ==
    ASSUME ShapeInv, NEW t \in Transfers, TransferInv(t), NEW w \in Workers, NEW D, Step(w, D),
           content'[t] = content[t], LedgerHas(t)', Left(t) => Left(t)', There(t) => There(t)',
           StockMovedFor(t)' => StockMovedFor(t) \/ job[w].doc = t,
           status'[t] \in Unposted => status[t] \in Unposted /\ ~StockMovedFor(t)',
           qtyDispatched'[t] = qtyDispatched[t] \/ (Left(t)' /\ qtyDispatched'[t] = Qtys(Lines(t))),
           qtyReceived'[t] = qtyReceived[t] \/ (There(t)' /\ qtyReceived'[t] = Qtys(Lines(t))),
           job'[w].doc = t => job[w].doc = t \/ \A v \in Workers \ {w} : ~Handles(v, t, "edit"),
           TransferRequest(w, t)'
    PROVE  TransferInv(t)'
<1>1. Lines(t)' = Lines(t)
  BY DEF Lines
<1>2. OnItems(t)'
  <2>1. OnItems(t)
    BY DEF TransferInv
  <2> DEFINE none == NoneOf(Lines(t))
             all == Qtys(Lines(t))
  <2>2. NoneOf(Lines(t))' = none /\ Qtys(Lines(t))' = all
    BY <1>1 DEF NoneOf, Qtys
  <2>3. /\ qtyDispatched[t] = none \/ (Left(t) /\ qtyDispatched[t] = all)
        /\ qtyReceived[t] = none \/ (There(t) /\ qtyReceived[t] = all)
    BY <2>1 DEF OnItems
  <2>4. /\ qtyDispatched'[t] = none \/ (Left(t)' /\ qtyDispatched'[t] = all)
        /\ qtyReceived'[t] = none \/ (There(t)' /\ qtyReceived'[t] = all)
    BY <2>3
  <2> QED BY <2>2, <2>4 DEF OnItems
<1>3. ASSUME NEW v \in Workers \ {w} PROVE TransferRequest(v, t)'
  <2>1. TransferRequest(v, t) /\ \A u \in Workers \ {w} : pc'[u] = pc[u] /\ job'[u] = job[u]
    BY DEF TransferInv, Step, WorkerStep
  <2>2. \A op : Handles(v, t, op)' <=> Handles(v, t, op)
    BY <2>1 DEF Handles, AtWork
  <2>3. ASSUME Handles(v, t, "edit")' PROVE ~StockMovedFor(t)' /\ \A u \in Workers \ {v} : job'[u].doc # t
    <3>1. Handles(v, t, "edit")
      BY <2>2, <2>3
    <3>2. ~StockMovedFor(t) /\ \A u \in Workers \ {v} : job[u].doc # t
      BY <2>1, <3>1 DEF TransferRequest
    <3>3. job[w].doc # t /\ job'[w].doc # t
      BY <3>1, <3>2
    <3> QED BY <2>1, <3>2, <3>3
  <2>4. ASSUME Handles(v, t, "dispatch")'
        PROVE  /\ job'[v].key = TheKey(t, "dispatch") /\ job'[v].lines = Lines(t)' /\ status'[t] \notin Unposted
               /\ pc'[v] \in {"posted", "recording"} => Left(t)'
    <3>1. Handles(v, t, "dispatch")
      BY <2>2, <2>4
    <3> QED BY <1>1, <2>1, <3>1 DEF TransferRequest
  <2>5. ASSUME Handles(v, t, "receive")'
        PROVE  /\ job'[v].key = TheKey(t, "receive") /\ job'[v].lines = Lines(t)' /\ status'[t] \notin Unposted
               /\ job'[v].qty = Qtys(Lines(t)') /\ Left(t)'
               /\ pc'[v] \in {"posted", "recording"} => There(t)'
    <3>1. Handles(v, t, "receive")
      BY <2>2, <2>5
    <3> QED BY <1>1, <2>1, <3>1 DEF TransferRequest
  <2> QED BY <2>3, <2>4, <2>5 DEF TransferRequest, TheKey, Unposted, Qtys
<1> QED BY <1>2, <1>3 DEF TransferInv, Unposted

(* Its items are made or replaced, before anything has moved and while nobody *)
(* is about to move it.                                                       *)
LEMMA TransferRedrawn ==
    ASSUME ShapeInv, NEW t \in Transfers, TransferInv(t), NEW w \in Workers, NEW D, Step(w, D),
           UNCHANGED stockVars, ~StockMovedFor(t),
           qtyDispatched'[t] = NoneOf(Lines(t)'), qtyReceived'[t] = NoneOf(Lines(t)'),
           \A v \in Workers \ {w} : ~Handles(v, t, "dispatch") /\ ~Handles(v, t, "receive"),
           \A op : ~Handles(w, t, op)', job'[w].doc = t => job[w].doc = t
    PROVE  TransferInv(t)'
<1>1. LedgerHas(t) /\ movements' = movements
  BY DEF TransferInv, stockVars
<1>2. ~Left(t) /\ ~There(t) /\ MovedIn(movements, t) = Nothing
  BY <1>1 DEF LedgerHas
<1>3. ~StockMovedFor(t)' /\ ~Left(t)' /\ ~There(t)' /\ MovedIn(movements', t) = Nothing
  BY <1>1, <1>2 DEF StockMovedFor, Left, There, Keyed, TheKey
<1>4. LedgerHas(t)'
  BY <1>3 DEF LedgerHas
<1>5. OnItems(t)'
  BY DEF OnItems, NoneOf
<1>6. ASSUME NEW v \in Workers PROVE TransferRequest(v, t)'
  <2>1. CASE v = w
    BY <2>1 DEF TransferRequest
  <2>2. CASE v # w
    <3>1. TransferRequest(v, t) /\ \A u \in Workers \ {w} : pc'[u] = pc[u] /\ job'[u] = job[u]
      BY DEF TransferInv, Step, WorkerStep
    <3>2. \A op : Handles(v, t, op)' <=> Handles(v, t, op)
      BY <2>2, <3>1 DEF Handles, AtWork
    <3>3. ASSUME Handles(v, t, "edit") PROVE \A u \in Workers \ {v} : job'[u].doc # t
      BY <2>2, <3>1, <3>3 DEF TransferRequest
    <3>4. ~Handles(v, t, "dispatch")' /\ ~Handles(v, t, "receive")'
      BY <2>2, <3>2
    <3>5. Handles(v, t, "edit")' => \A u \in Workers \ {v} : job'[u].doc # t
      BY <3>2, <3>3
    <3> QED BY <1>3, <3>4, <3>5 DEF TransferRequest
  <2> QED BY <2>1, <2>2
<1> QED BY <1>3, <1>4, <1>5, <1>6 DEF TransferInv

(* The step of a handler of another document. *)
LEMMA TransferElsewhere ==
    ASSUME ShapeInv, StockInv, NEW w \in Workers, JobInv(w), StockStep(w), NEW D, Step(w, D),
           NEW t \in Transfers, t \notin D, OwnKeys(t), TransferInv(t),
           qtyDispatched'[t] = qtyDispatched[t], qtyReceived'[t] = qtyReceived[t]
    PROVE  TransferInv(t)'
<1>1. t \in Docs /\ t # NoDoc
  BY DocumentsAssumption DEF Transfers
<1>2. job[w].doc # t /\ job'[w].doc # t
  <2>1. pc[w] = "idle" => job[w].doc = NoDoc
    BY DEF ShapeInv, Idle
  <2>2. pc'[w] = "idle" => job'[w].doc = NoDoc
    BY DEF Step, WorkerStep, Idle
  <2> QED BY <1>1, <2>1, <2>2 DEF Step, WorkerStep
<1>3. status'[t] = status[t] /\ content'[t] = content[t]
  BY <1>1 DEF Step, StatusStep, ContentStep
<1>4. /\ StockMovedFor(t)' <=> StockMovedFor(t)
      /\ Left(t)' <=> Left(t)
      /\ There(t)' <=> There(t)
      /\ MovedIn(movements', t) = MovedIn(movements, t)
  BY <1>2, LedgerStays
<1>5. LedgerHas(t)'
  <2>1. Sent(t)' = Sent(t) /\ Arrived(t)' = Arrived(t)
    BY <1>3 DEF Sent, Arrived, Lines
  <2> QED BY <1>4, <2>1 DEF LedgerHas, TransferInv
<1>6. TransferRequest(w, t)'
  BY <1>2 DEF TransferRequest, Handles
<1>7. status'[t] \in Unposted => status[t] \in Unposted /\ ~StockMovedFor(t)'
  BY <1>3, <1>4 DEF TransferInv
<1> QED BY <1>2, <1>3, <1>4, <1>5, <1>6, <1>7, TransferStill

(* A step of its own handler that moves nothing: what is put on the items is  *)
(* what has moved.                                                            *)
LEMMA TransferQuiet ==
    ASSUME ShapeInv, StockInv, NEW t \in Transfers, OwnKeys(t), TransferInv(t), NEW w \in Workers, JobInv(w),
           NEW D, Step(w, D), job[w].doc = t, UNCHANGED stockVars, content'[t] = content[t],
           status'[t] \in Unposted => status'[t] = status[t],
           qtyDispatched'[t] = qtyDispatched[t] \/ (Left(t) /\ qtyDispatched'[t] = Qtys(Lines(t))),
           qtyReceived'[t] = qtyReceived[t] \/ (There(t) /\ qtyReceived'[t] = Qtys(Lines(t))),
           \/ Ends(w)
           \/ /\ GoesOn(w)
              /\ pc'[w] \in {"posted", "recording"} =>
                    (Handles(w, t, "dispatch") => Left(t)) /\ (Handles(w, t, "receive") => There(t))
    PROVE  TransferInv(t)'
<1>1. /\ StockMovedFor(t)' <=> StockMovedFor(t)
      /\ Left(t)' <=> Left(t)
      /\ There(t)' <=> There(t)
      /\ MovedIn(movements', t) = MovedIn(movements, t)
  BY LedgerStays DEF StockStep
<1>2. LedgerHas(t)'
  <2>1. Sent(t)' = Sent(t) /\ Arrived(t)' = Arrived(t)
    BY DEF Sent, Arrived, Lines
  <2> QED BY <1>1, <2>1 DEF LedgerHas, TransferInv
<1>3. status'[t] \in Unposted => status[t] \in Unposted /\ ~StockMovedFor(t)'
  BY <1>1 DEF TransferInv
<1>4. TransferRequest(w, t)'
  <2>1. CASE Ends(w)
    BY <2>1 DEF TransferRequest, Handles, AtWork, Ends
  <2>2. CASE ~Ends(w)
    <3>1. /\ GoesOn(w)
          /\ pc'[w] \in {"posted", "recording"} =>
                (Handles(w, t, "dispatch") => Left(t)) /\ (Handles(w, t, "receive") => There(t))
      BY <2>2
    <3>2. TransferRequest(w, t) /\ job'[w] = job[w] /\ \A op : Handles(w, t, op)' => Handles(w, t, op)
      BY <3>1 DEF TransferInv, GoesOn, Handles
    <3>3. Lines(t)' = Lines(t) /\ \A v \in Workers \ {w} : job'[v] = job[v]
      BY DEF Lines, Step, WorkerStep
    <3>4. ASSUME Handles(w, t, "edit")' PROVE ~StockMovedFor(t)' /\ \A u \in Workers \ {w} : job'[u].doc # t
      BY <1>1, <3>2, <3>3, <3>4 DEF TransferRequest
    <3>5. ASSUME Handles(w, t, "dispatch")'
          PROVE  /\ job'[w].key = TheKey(t, "dispatch") /\ job'[w].lines = Lines(t)' /\ status'[t] \notin Unposted
                 /\ pc'[w] \in {"posted", "recording"} => Left(t)'
      BY <1>1, <3>1, <3>2, <3>3, <3>5 DEF TransferRequest
    <3>6. ASSUME Handles(w, t, "receive")'
          PROVE  /\ job'[w].key = TheKey(t, "receive") /\ job'[w].lines = Lines(t)' /\ status'[t] \notin Unposted
                 /\ job'[w].qty = Qtys(Lines(t)') /\ Left(t)'
                 /\ pc'[w] \in {"posted", "recording"} => There(t)'
      BY <1>1, <3>1, <3>2, <3>3, <3>6 DEF TransferRequest
    <3> QED BY <3>4, <3>5, <3>6 DEF TransferRequest, TheKey, Unposted, Qtys
  <2> QED BY <2>1, <2>2
<1>5. (Left(t) => Left(t)') /\ (There(t) => There(t)') /\ (StockMovedFor(t)' => StockMovedFor(t) \/ job[w].doc = t)
  BY <1>1
<1>6. /\ qtyDispatched'[t] = qtyDispatched[t] \/ (Left(t)' /\ qtyDispatched'[t] = Qtys(Lines(t)))
      /\ qtyReceived'[t] = qtyReceived[t] \/ (There(t)' /\ qtyReceived'[t] = Qtys(Lines(t)))
  BY <1>1
<1> QED BY <1>2, <1>3, <1>4, <1>5, <1>6, TransferStill

(* It posts, or finds that it has. *)
LEMMA TransferTaken ==
    ASSUME ShapeInv, StockInv, NEW t \in Transfers, OwnKeys(t), TransferInv(t), NEW w \in Workers, JobInv(w),
           NEW D, Step(w, D), Handles(w, t, "dispatch") \/ Handles(w, t, "receive"),
           NEW lines, lines = PostedLines(job[w]), Take(w, lines), UNCHANGED transferVars
    PROVE  TransferInv(t)'
<1>1. /\ UNCHANGED << status, content, qtyDispatched, qtyReceived >> /\ AtWork(w) /\ job[w].doc = t
      /\ TransferRequest(w, t)
  BY DEF Take, Refuse, Reply, transferVars, Handles, TransferInv
<1>2. CASE Refuse(w)
  BY <1>1, <1>2, LooksWork, TransferQuiet
<1> DEFINE cmd == CommandOf(job[w], lines)
<1>3. cmd.key = job[w].key
  BY DEF CommandOf
<1>4. CASE Answered(cmd) /\ Goto(w, "posted") /\ UNCHANGED stockVars
  <2>1. pc'[w] = "posted" /\ GoesOn(w)
    BY <1>1, <1>4, EndsOrGoesOn DEF GoesOn
  <2>2. (Handles(w, t, "dispatch") => Left(t)) /\ (Handles(w, t, "receive") => There(t))
    BY <1>1, <1>3, <1>4 DEF Answered, TransferRequest, Left, There, Keyed
  <2> QED BY <1>1, <1>4, <2>1, <2>2, TransferQuiet
<1>5. CASE Post(cmd, job[w].doc) /\ Goto(w, "posted")
  <2>1. pc'[w] = "posted" /\ job' = job
    BY <1>5, EndsOrGoesOn
  <2>2. Posts(w)
    BY <1>1, <1>5 DEF Posts, Handles, PostingOps
  <2>3. content'[t] = content[t]
    BY <1>1
  <2>4. /\ LedgerHas(t)'
        /\ Handles(w, t, "dispatch") => Left(t)'
        /\ Handles(w, t, "receive") => There(t)'
        /\ Left(t) => Left(t)'
        /\ There(t) => There(t)'
    BY <2>2, <2>3, TransferPosts
  <2>5. status'[t] \notin Unposted
    BY <1>1 DEF TransferRequest
  <2>6. TransferRequest(w, t)'
    <3>1. Lines(t)' = Lines(t) /\ \A op : Handles(w, t, op)' => Handles(w, t, op)
      BY <1>1, <2>1 DEF Lines, Handles
    <3>2. ~Handles(w, t, "edit")'
      BY <3>1 DEF Handles
    <3>3. ASSUME Handles(w, t, "dispatch")'
          PROVE  job'[w].key = TheKey(t, "dispatch") /\ job'[w].lines = Lines(t)' /\ Left(t)'
      BY <1>1, <2>1, <2>4, <3>1, <3>3 DEF TransferRequest
    <3>4. ASSUME Handles(w, t, "receive")'
          PROVE  /\ job'[w].key = TheKey(t, "receive") /\ job'[w].lines = Lines(t)'
                 /\ job'[w].qty = Qtys(Lines(t)') /\ Left(t)' /\ There(t)'
      BY <1>1, <2>1, <2>4, <3>1, <3>4 DEF TransferRequest
    <3> QED BY <2>5, <3>2, <3>3, <3>4 DEF TransferRequest, TheKey, Unposted, Qtys
  <2> QED BY <1>1, <2>1, <2>3, <2>4, <2>5, <2>6, TransferStill
<1> QED BY <1>1, <1>2, <1>4, <1>5 DEF Take

(* What receive() remembers of an item is all of it: it was dispatched, and   *)
(* nothing of it received.                                                    *)
LEMMA AllUnderWay ==
    ASSUME ShapeInv, NEW t \in Transfers, TransferInv(t), \E i \in DOMAIN Remaining(t) : Remaining(t)[i] > 0
    PROVE  Left(t) /\ Remaining(t) = Qtys(Lines(t))
<1> DEFINE lines == Lines(t)
           none == NoneOf(lines)
           all == Qtys(lines)
           out == qtyDispatched[t]
           in == qtyReceived[t]
           rest == Remaining(t)
<1>1. /\ out = none \/ (Left(t) /\ out = all)
      /\ in = none \/ in = all
  BY DEF TransferInv, OnItems
<1>2. \A i \in DOMAIN lines : lines[i].qty \in Nat \ {0}
  BY TransferLines
<1>3. /\ DOMAIN none = DOMAIN lines /\ DOMAIN all = DOMAIN lines
      /\ \A i \in DOMAIN lines : none[i] = 0 /\ all[i] = lines[i].qty
  BY DEF NoneOf, Qtys
<1>4. rest = [i \in DOMAIN out |-> out[i] - in[i]]
  BY DEF Remaining
<1>5. PICK i \in DOMAIN rest : rest[i] > 0
  OBVIOUS
<1>6. all = [j \in DOMAIN lines |-> lines[j].qty]
  BY DEF Qtys
<1> HIDE DEF lines, none, all, out, in, rest
<1>7. DOMAIN rest = DOMAIN lines /\ rest[i] = out[i] - in[i] /\ i \in DOMAIN lines
  BY <1>1, <1>3, <1>4, <1>5
<1>8. out # none
  <2>1. ASSUME out = none PROVE FALSE
    <3>1. out[i] = 0 /\ in[i] \in Nat
      BY <1>1, <1>2, <1>3, <1>7, <2>1
    <3> QED BY <1>5, <1>7, <3>1
  <2> QED BY <2>1
<1>9. in = none
  <2>1. ASSUME in = all PROVE FALSE
    <3>1. out[i] \in Nat /\ in[i] = out[i]
      BY <1>1, <1>2, <1>3, <1>7, <1>8, <2>1
    <3> QED BY <1>5, <1>7, <3>1
  <2> QED BY <1>1, <2>1
<1>10. \A j \in DOMAIN lines : out[j] - in[j] = lines[j].qty
  BY <1>1, <1>2, <1>3, <1>8, <1>9
<1>11. rest = all
  BY <1>1, <1>3, <1>4, <1>6, <1>8, <1>10
<1> QED BY <1>1, <1>8, <1>11 DEF rest, all, lines

(* What becomes of transfer t. *)
TransferAction(w, t) ==
    \/ CreateTransfer(w, t)
    \/ \E op \in DOMAIN TransferFrom : LoadTransfer(w, op, t)
    \/ TransferStep(w) /\ job[w].doc = t
    \/ Fail(w) /\ job[w].doc = t /\ UNCHANGED transferVars

(* It is a step for t alone .. *)
LEMMA TransferActionSteps ==
    ASSUME ShapeInv, NEW w \in Workers, NEW t \in Transfers, TransferAction(w, t)
    PROVE  Step(w, {t})
<1> DEFINE D == {t}
<1>1. t \in D /\ D = {t}
  OBVIOUS
<1> HIDE DEF D
<1>2. CASE Fail(w) /\ job[w].doc = t
  BY <1>1, <1>2, FailSteps
<1>3. CASE ~(Fail(w) /\ job[w].doc = t)
  BY <1>1, <1>3, TransfersStep DEF TransferAction
<1> QED BY <1>1, <1>2, <1>3

(* .. and of its items, which are dispatched and received at their own steps. *)
LEMMA TransferActionShape ==
    ASSUME TransfersShape, NEW w \in Workers, NEW t \in Transfers, TransferAction(w, t)
    PROVE  /\ TransfersShape'
           /\ \A d \in Transfers \ {t} : qtyDispatched'[d] = qtyDispatched[d] /\ qtyReceived'[d] = qtyReceived[d]
<1>1. CASE UNCHANGED transferVars
  BY <1>1 DEF transferVars, TransfersShape
<1>2. CASE Renew(t)
  <2> DEFINE none == NoneOf(Versions[t][content'[t]])
  <2>1. qtyDispatched' = [qtyDispatched EXCEPT ![t] = none] /\ qtyReceived' = [qtyReceived EXCEPT ![t] = none]
    BY <1>2 DEF Renew
  <2> HIDE DEF none
  <2> QED BY <2>1 DEF TransfersShape
<1>3. CASE RecordDispatch(w) /\ job[w].doc = t
  <2> DEFINE qty == [i \in DOMAIN job[w].lines |-> job[w].lines[i].qty]
  <2>1. qtyDispatched' = [qtyDispatched EXCEPT ![t] = qty] /\ qtyReceived' = qtyReceived
    BY <1>3 DEF RecordDispatch
  <2> HIDE DEF qty
  <2> QED BY <2>1 DEF TransfersShape
<1>4. CASE RecordReceive(w) /\ job[w].doc = t
  <2> DEFINE qty == job[w].qty
  <2>1. qtyReceived' = [qtyReceived EXCEPT ![t] = qty] /\ qtyDispatched' = qtyDispatched
    BY <1>4 DEF RecordReceive
  <2> HIDE DEF qty
  <2> QED BY <2>1 DEF TransfersShape
<1>5. CASE CreateTransfer(w, t)
  BY <1>2, <1>5 DEF CreateTransfer
<1>6. CASE \E op \in DOMAIN TransferFrom : LoadTransfer(w, op, t)
  BY <1>1, <1>6 DEF LoadTransfer
<1>7. CASE TransferStep(w) /\ job[w].doc = t
  BY <1>1, <1>2, <1>3, <1>4, <1>7
     DEF TransferStep, AdvanceTransfer, EditTransfer, ValidateDispatch, PostDispatch, LookDispatch,
         PostReceive, LookReceive
<1> QED BY <1>1, <1>5, <1>6, <1>7 DEF TransferAction

(* A request for t is taken up: what it is to post is what t says .. *)
LEMMA TransferLoaded ==
    ASSUME ShapeInv, StockInv, NEW t \in Transfers, RewritesAlone("transfer"), OwnKeys(t), TransferInv(t),
           NEW w \in Workers, JobInv(w), NEW D, Step(w, D),
           NEW op \in DOMAIN TransferFrom, LoadTransfer(w, op, t)
    PROVE  TransferInv(t)' /\ UNCHANGED stockVars /\ PostableJob(job'[w])
<1>1. PICK key \in KeysOf[t][op] : Start(w, TransferJob(op, t, key))
  BY DEF LoadTransfer
<1> DEFINE j == TransferJob(op, t, key)
           lines == Lines(t)
<1>2. /\ j.doc = t /\ j.op = op /\ j.key = key /\ j.lines = lines
      /\ op = "receive" => j.qty = Remaining(t)
  BY JobShape DEF JobFields, TransferJob
<1>3. Start(w, j)
  BY <1>1
<1> HIDE DEF j
<1>4. /\ UNCHANGED stockVars /\ UNCHANGED << status, content >> /\ MayStart(w, j)
      /\ pc'[w] = "loaded" /\ job'[w] = j
  BY <1>3 DEF Start, Begin, ShapeInv
<1>5. /\ op = "edit" => status[t] = "DRAFT"
      /\ op \in {"dispatch", "receive"} => status[t] \notin Unposted
      /\ op = "receive" => \E i \in DOMAIN Remaining(t) : Remaining(t)[i] > 0
      /\ UNCHANGED << qtyDispatched, qtyReceived >>
  BY DEF LoadTransfer, MayLoad, TransferFrom, transferVars, Unposted
<1>6. op = "receive" => Left(t) /\ j.qty = Qtys(lines)
  BY <1>2, <1>5, AllUnderWay
<1>7. /\ op = "dispatch" => key = TheKey(t, "dispatch")
      /\ op = "receive" => key = TheKey(t, "receive")
  <2>1. ASSUME op = "dispatch" PROVE key = TheKey(t, "dispatch")
    BY <2>1, OneKeyOnly DEF OwnKeys
  <2>2. ASSUME op = "receive" PROVE key = TheKey(t, "receive")
    BY <2>2, OneKeyOnly DEF OwnKeys
  <2> QED BY <2>1, <2>2
<1>8. ASSUME NEW v \in Workers \ {w}, job[v].doc = t PROVE job[v].op # "edit" /\ op # "edit"
  <2>1. {job[v].op, op} \subseteq MayOverlap["transfer"]
    BY <1>2, <1>4, <1>8 DEF MayStart, Transfers
  <2> QED BY <2>1 DEF RewritesAlone
<1>9. TransferRequest(w, t)'
  <2>1. \A o : Handles(w, t, o)' <=> o = op
    BY <1>2, <1>4 DEF Handles, AtWork
  <2>2. StockMovedFor(t)' <=> StockMovedFor(t)
    BY <1>4 DEF StockMovedFor, stockVars
  <2>3. Left(t)' <=> Left(t)
    BY <1>4 DEF Left, Keyed, TheKey, stockVars
  <2>4. Lines(t)' = lines
    BY <1>4 DEF Lines
  <2>5. ASSUME op = "edit" PROVE ~StockMovedFor(t)' /\ \A v \in Workers \ {w} : job'[v].doc # t
    <3>1. ~StockMovedFor(t)
      BY <1>5, <2>5 DEF TransferInv, Unposted
    <3> QED BY <1>8, <2>2, <2>5, <3>1 DEF Step, WorkerStep
  <2>6. ASSUME op = "dispatch"
        PROVE  /\ job'[w].key = TheKey(t, "dispatch") /\ job'[w].lines = Lines(t)' /\ status'[t] \notin Unposted
               /\ pc'[w] \notin {"posted", "recording"}
    BY <1>2, <1>4, <1>5, <1>7, <2>4, <2>6
  <2>7. ASSUME op = "receive"
        PROVE  /\ job'[w].key = TheKey(t, "receive") /\ job'[w].lines = Lines(t)' /\ status'[t] \notin Unposted
               /\ job'[w].qty = Qtys(Lines(t)') /\ Left(t)' /\ pc'[w] \notin {"posted", "recording"}
    BY <1>2, <1>4, <1>5, <1>6, <1>7, <2>3, <2>4, <2>7
  <2> QED BY <2>1, <2>5, <2>6, <2>7 DEF TransferRequest, TheKey, Unposted, Qtys
<1>10. TransferInv(t)'
  <2>1. (StockMovedFor(t)' <=> StockMovedFor(t)) /\ (Left(t)' <=> Left(t)) /\ (There(t)' <=> There(t))
    BY <1>4 DEF StockMovedFor, Left, There, Keyed, TheKey, stockVars
  <2>2. LedgerHas(t)'
    <3>1. MovedIn(movements', t) = MovedIn(movements, t) /\ Sent(t)' = Sent(t) /\ Arrived(t)' = Arrived(t)
      BY <1>4 DEF Sent, Arrived, Lines, stockVars
    <3> QED BY <2>1, <3>1 DEF LedgerHas, TransferInv
  <2>3. status'[t] \in Unposted => status[t] \in Unposted /\ ~StockMovedFor(t)'
    BY <1>4, <2>1 DEF TransferInv
  <2>4. \A v \in Workers \ {w} : ~Handles(v, t, "edit")
    BY <1>8 DEF Handles
  <2>5. content'[t] = content[t] /\ qtyDispatched'[t] = qtyDispatched[t] /\ qtyReceived'[t] = qtyReceived[t]
    BY <1>4, <1>5
  <2> QED BY <1>9, <2>1, <2>2, <2>3, <2>4, <2>5, TransferStill
<1>11. PostableJob(j)
  <2>1. op = "dispatch" => Typed(PostedLines(j))
    BY <1>2, TransferLines DEF PostedLines
  <2>2. op = "receive" => Typed(PostedLines(j))
    BY <1>2, <1>6, TransferLines DEF PostedLines
  <2>3. op \in PostingOps => op \in {"dispatch", "receive"}
    BY DEF PostingOps, TransferFrom
  <2> QED BY <1>2, <2>1, <2>2, <2>3 DEF PostableJob
<1> QED BY <1>4, <1>10, <1>11

(* .. a step of its handler keeps to what has moved .. *)
LEMMA TransferHandled ==
    ASSUME ShapeInv, StockInv, TransfersShape, NEW t \in Transfers, OwnKeys(t), TransferInv(t),
           NEW w \in Workers, JobInv(w), NEW D, Step(w, D), TransferStep(w), job[w].doc = t
    PROVE  TransferInv(t)'
<1>1. t \in Docs /\ DOMAIN status = Docs /\ TransferRequest(w, t)
  BY DEF Transfers, ShapeInv, TransferInv
<1>2. CASE AdvanceTransfer(w)
  <2> DEFINE s == TransferTo[job[w].op]
  <2>1. Advance(w, s) /\ UNCHANGED transferVars /\ AtWork(w) /\ s \notin Unposted
    BY <1>2 DEF AdvanceTransfer, AtWork, TransferTo, Unposted
  <2> HIDE DEF s
  <2>2. UNCHANGED stockVars /\ Ends(w)
    BY <2>1, LooksWork
  <2>3. status'[t] \notin Unposted /\ content'[t] = content[t]
        /\ qtyDispatched'[t] = qtyDispatched[t] /\ qtyReceived'[t] = qtyReceived[t]
    BY <1>1, <2>1 DEF Advance, Write, transferVars
  <2> QED BY <2>2, <2>3, TransferQuiet
<1>3. CASE EditTransfer(w)
  <2>1. /\ Handles(w, t, "edit") /\ Renew(t) /\ UNCHANGED stockVars /\ pc[w] = "loaded" /\ Edit(w)
    BY <1>3 DEF EditTransfer, Edit, At, Handles, AtWork
  <2>2. ~StockMovedFor(t) /\ \A v \in Workers \ {w} : job[v].doc # t
    BY <1>1, <2>1 DEF TransferRequest
  <2>3. \A v \in Workers \ {w} : ~Handles(v, t, "dispatch") /\ ~Handles(v, t, "receive")
    BY <2>2 DEF Handles
  <2>4. \A op : ~Handles(w, t, op)'
    <3>1. Ends(w)
      BY <2>1, LooksWork DEF AtWork
    <3> QED BY <3>1 DEF Handles, AtWork, Ends
  <2>5. qtyDispatched'[t] = NoneOf(Lines(t)') /\ qtyReceived'[t] = NoneOf(Lines(t)')
    <3> DEFINE none == NoneOf(Versions[t][content'[t]])
    <3>1. qtyDispatched' = [qtyDispatched EXCEPT ![t] = none] /\ qtyReceived' = [qtyReceived EXCEPT ![t] = none]
      BY <2>1 DEF Renew
    <3>2. none = NoneOf(Lines(t)')
      BY DEF Lines
    <3> HIDE DEF none
    <3> QED BY <3>1, <3>2 DEF TransfersShape
  <2> QED BY <2>1, <2>2, <2>3, <2>4, <2>5, TransferRedrawn
<1>4. CASE ValidateDispatch(w)
  <2>1. /\ AtWork(w) /\ UNCHANGED stockVars /\ UNCHANGED << status, content, qtyDispatched, qtyReceived >>
        /\ Refuse(w) \/ Goto(w, "validated")
    BY <1>4 DEF ValidateDispatch, Refuse, Reply, transferVars, At, AtWork
  <2>2. Ends(w) \/ (GoesOn(w) /\ pc'[w] \notin {"posted", "recording"})
    BY <2>1, LooksWork, EndsOrGoesOn DEF GoesOn
  <2> QED BY <2>1, <2>2, TransferQuiet
<1>5. CASE PostDispatch(w)
  <2> DEFINE l == OutLines(job[w].lines)
  <2>1. Handles(w, t, "dispatch") /\ l = PostedLines(job[w]) /\ Take(w, l) /\ UNCHANGED transferVars
    BY <1>5 DEF PostDispatch, At, Handles, AtWork, PostedLines
  <2> HIDE DEF l
  <2> QED BY <2>1, TransferTaken
<1>6. CASE PostReceive(w)
  <2> DEFINE l == InLines(job[w].lines, job[w].qty)
  <2>1. Handles(w, t, "receive") /\ l = PostedLines(job[w]) /\ Take(w, l) /\ UNCHANGED transferVars
    BY <1>6 DEF PostReceive, At, Handles, AtWork, PostedLines
  <2> HIDE DEF l
  <2> QED BY <2>1, TransferTaken
<1>7. CASE LookDispatch(w) \/ LookReceive(w)
  <2>1. /\ AtWork(w) /\ pc[w] = "posted" /\ UNCHANGED << qtyDispatched, qtyReceived >>
        /\ \E fit : Look(w, fit)
        /\ job[w].op \in {"dispatch", "receive"}
    BY <1>7 DEF LookDispatch, LookReceive, transferVars, At, AtWork
  <2>2. UNCHANGED stockVars /\ (Ends(w) \/ GoesOn(w)) /\ UNCHANGED << status, content >>
    BY <2>1, LooksWork DEF Look, Refuse, Reply
  <2>3. (Handles(w, t, "dispatch") => Left(t)) /\ (Handles(w, t, "receive") => There(t))
    BY <1>1, <2>1 DEF TransferRequest
  <2> QED BY <2>1, <2>2, <2>3, TransferQuiet
<1>8. CASE RecordDispatch(w)
  <2> DEFINE qty == Qtys(job[w].lines)
  <2>1. /\ Handles(w, t, "dispatch") /\ pc[w] = "recording" /\ UNCHANGED stockVars /\ Finish(w, "APPLIED")
        /\ UNCHANGED << content, qtyReceived >> /\ Write(w, "IN_TRANSIT")
        /\ qtyDispatched' = [qtyDispatched EXCEPT ![t] = qty]
    BY <1>8 DEF RecordDispatch, At, Handles, AtWork, Qtys
  <2>2. qty = Qtys(Lines(t)) /\ Left(t)
    BY <1>1, <2>1 DEF TransferRequest
  <2>3. Ends(w) /\ status'[t] \notin Unposted
    BY <1>1, <2>1, EndsOrGoesOn DEF Write, Unposted
  <2> HIDE DEF qty
  <2>4. qtyDispatched'[t] = Qtys(Lines(t)) /\ qtyReceived'[t] = qtyReceived[t] /\ content'[t] = content[t]
    BY <2>1, <2>2 DEF TransfersShape
  <2> QED BY <2>1, <2>2, <2>3, <2>4, TransferQuiet
<1>9. CASE RecordReceive(w)
  <2> DEFINE qty == job[w].qty
  <2>1. /\ Handles(w, t, "receive") /\ pc[w] = "recording" /\ UNCHANGED stockVars /\ Finish(w, "APPLIED")
        /\ UNCHANGED << content, qtyDispatched >> /\ Write(w, "RECEIVED")
        /\ qtyReceived' = [qtyReceived EXCEPT ![t] = qty]
    BY <1>9 DEF RecordReceive, At, Handles, AtWork
  <2>2. qty = Qtys(Lines(t)) /\ There(t)
    BY <1>1, <2>1 DEF TransferRequest
  <2>3. Ends(w) /\ status'[t] \notin Unposted
    BY <1>1, <2>1, EndsOrGoesOn DEF Write, Unposted
  <2> HIDE DEF qty
  <2>4. qtyReceived'[t] = Qtys(Lines(t)) /\ qtyDispatched'[t] = qtyDispatched[t] /\ content'[t] = content[t]
    BY <2>1, <2>2 DEF TransfersShape
  <2> QED BY <2>1, <2>2, <2>3, <2>4, TransferQuiet
<1> QED BY <1>2, <1>3, <1>4, <1>5, <1>6, <1>7, <1>8, <1>9 DEF TransferStep

(* .. and so does whatever becomes of it. *)
LEMMA TransferActionKeeps ==
    ASSUME ShapeInv, StockInv, TransfersShape, NEW t \in Transfers, RewritesAlone("transfer"), OwnKeys(t),
           TransferInv(t), NEW w \in Workers, JobInv(w), TransferAction(w, t)
    PROVE  TransferInv(t)' /\ StockStep(w) /\ JobInv(w)'
<1> DEFINE D == {t}
<1>1. Step(w, D) /\ t \in Docs /\ DOMAIN status = Docs /\ DOMAIN job = Workers /\ DOMAIN pc = Workers
  BY TransferActionSteps DEF Transfers, ShapeInv
<1> HIDE DEF D
<1>2. CASE CreateTransfer(w, t)
  <2>1. /\ pc[w] = "idle" /\ status[t] = "NONE" /\ UNCHANGED stockVars /\ UNCHANGED << pc, job >> /\ Renew(t)
    BY <1>2 DEF CreateTransfer, Create, workVars
  <2>2. ~StockMovedFor(t) /\ \A v \in Workers : ~Handles(v, t, "dispatch") /\ ~Handles(v, t, "receive")
    BY <2>1 DEF TransferInv, TransferRequest, Unposted
  <2>3. \A op : ~Handles(w, t, op)'
    BY <2>1 DEF Handles, AtWork
  <2>4. qtyDispatched'[t] = NoneOf(Lines(t)') /\ qtyReceived'[t] = NoneOf(Lines(t)')
    <3> DEFINE none == NoneOf(Versions[t][content'[t]])
    <3>1. qtyDispatched' = [qtyDispatched EXCEPT ![t] = none] /\ qtyReceived' = [qtyReceived EXCEPT ![t] = none]
      BY <2>1 DEF Renew
    <3>2. none = NoneOf(Lines(t)')
      BY DEF Lines
    <3> HIDE DEF none
    <3> QED BY <3>1, <3>2 DEF TransfersShape
  <2>5. TransferInv(t)'
    BY <1>1, <2>1, <2>2, <2>3, <2>4, TransferRedrawn
  <2> QED BY <2>1, <2>5, JobKept DEF StockStep, Ends
<1>3. ASSUME NEW op \in DOMAIN TransferFrom, LoadTransfer(w, op, t)
      PROVE  TransferInv(t)' /\ StockStep(w) /\ JobInv(w)'
  <2>1. TransferInv(t)' /\ UNCHANGED stockVars /\ PostableJob(job'[w])
    BY <1>1, <1>3, TransferLoaded
  <2> QED BY <2>1, JobKept DEF StockStep
<1>4. CASE TransferStep(w) /\ job[w].doc = t
  BY <1>1, <1>4, TransferHandled, TransferWorks, JobKept
<1>5. CASE Fail(w) /\ job[w].doc = t /\ UNCHANGED transferVars
  <2>1. /\ UNCHANGED stockVars /\ pc'[w] = "idle" /\ UNCHANGED << status, content, qtyDispatched, qtyReceived >>
    BY <1>1, <1>5 DEF Fail, transferVars
  <2>2. TransferInv(t)'
    BY <1>1, <1>5, <2>1, TransferQuiet DEF Ends
  <2> QED BY <2>1, <2>2, JobKept DEF StockStep, Ends
<1> QED BY <1>2, <1>3, <1>4, <1>5 DEF TransferAction

-----------------------------------------------------------------------------
(* What the ledger has moved is what the documents say *)

(* Requests to post a document once come with one key, and each of the two    *)
(* postings of a transfer with one of its own; and whoever rewrites a         *)
(* document does so while nobody else works on it.                            *)
RequestsInOrder ==
    /\ \A kind \in {"transfer", "receipt", "adjustment", "count"} : RewritesAlone(kind)
    /\ \A d \in Once : OneKey(d, "post")
    /\ \A t \in Transfers : OwnKeys(t)

(* Every step is something that becomes of a document, while others are as    *)
(* they were.                                                                 *)
LEMMA WhoActs ==
    ASSUME ShapeInv, WarehouseNext
    PROVE  \/ UNCHANGED vars
           \/ \E w \in Workers :
                 \/ /\ \E t \in Transfers : TransferAction(w, t)
                    /\ UNCHANGED << receiptVars, returnVars, countVars, taskVars >>
                 \/ /\ \E r \in Receipts : ReceiptAction(w, r)
                    /\ UNCHANGED << transferVars, returnVars, countVars, taskVars >>
                 \/ /\ \E a \in Adjustments : AdjustmentAction(w, a)
                    /\ UNCHANGED << transferVars, receiptVars, returnVars, countVars, taskVars >>
                 \/ /\ \E r \in Returns : ReturnAction(w, r)
                    /\ UNCHANGED << transferVars, receiptVars, countVars, taskVars >>
                 \/ CountAction(w) /\ UNCHANGED << transferVars, receiptVars, returnVars >>
<1> DEFINE OnTransfer(w) == /\ \E t \in Transfers : TransferAction(w, t)
                            /\ UNCHANGED << receiptVars, returnVars, countVars, taskVars >>
           OnReceipt(w) == /\ \E r \in Receipts : ReceiptAction(w, r)
                           /\ UNCHANGED << transferVars, returnVars, countVars, taskVars >>
           OnAdjustment(w) == /\ \E a \in Adjustments : AdjustmentAction(w, a)
                              /\ UNCHANGED << transferVars, receiptVars, returnVars, countVars, taskVars >>
           OnReturn(w) == /\ \E r \in Returns : ReturnAction(w, r)
                          /\ UNCHANGED << transferVars, receiptVars, countVars, taskVars >>
           OnCount(w) == CountAction(w) /\ UNCHANGED << transferVars, receiptVars, returnVars >>
           Act(w) == OnTransfer(w) \/ OnReceipt(w) \/ OnAdjustment(w) \/ OnReturn(w) \/ OnCount(w)
<1>1. ASSUME NEW w \in Workers, Ask(w) PROVE Act(w)
  <2>1. ASSUME NEW d \in Transfers,
               CreateTransfer(w, d) \/ \E op \in DOMAIN TransferFrom : LoadTransfer(w, op, d),
               UNCHANGED << receiptVars, adjustmentVars, returnVars, countVars, taskVars >>
        PROVE  OnTransfer(w)
    BY <2>1 DEF TransferAction
  <2>2. ASSUME NEW d \in Receipts,
               CreateReceipt(w, d) \/ \E op \in {"edit", "cancel", "post"} : LoadReceipt(w, op, d),
               UNCHANGED << transferVars, adjustmentVars, returnVars, countVars, taskVars >>
        PROVE  OnReceipt(w)
    BY <2>2 DEF ReceiptAction
  <2>3. ASSUME NEW d \in Adjustments,
               \/ CreateAdjustment(w, d)
               \/ \E op \in DOMAIN AdjustmentFrom, by \in Users \cup {NoDoc} : LoadAdjustment(w, op, d, by),
               UNCHANGED << transferVars, receiptVars, returnVars, countVars, taskVars >>
        PROVE  OnAdjustment(w)
    BY <2>3 DEF AdjustmentAction
  <2>4. ASSUME NEW d \in Returns,
               \/ CreateReturn(w, d)
               \/ LoadIntake(w, d)
               \/ LoadCancel(w, d)
               \/ \E a \in Disposals, key \in KeysOf[d]["dispose"] :
                     LoadDispose(w, d, a.line, a.outcome, a.qty, a.units, key),
               UNCHANGED << transferVars, receiptVars, adjustmentVars, countVars, taskVars >>
        PROVE  OnReturn(w)
    <3>1. ReturnAction(w, d)
      BY <2>4 DEF ReturnAction
    <3> QED BY <2>4, <3>1
  <2>5. ASSUME NEW d \in Counts,
               CreateCount(w, d) \/ \E op \in DOMAIN CountFrom : LoadCount(w, op, d),
               UNCHANGED << transferVars, receiptVars, adjustmentVars, returnVars, taskVars >>
        PROVE  OnCount(w)
    BY <2>5 DEF CountAction
  <2>6. ASSUME NEW d \in Tasks,
               CreateTask(w, d) \/ \E op \in DOMAIN TaskFrom : LoadTask(w, op, d),
               UNCHANGED << transferVars, receiptVars, adjustmentVars, returnVars >>
        PROVE  OnCount(w)
    BY <2>6 DEF CountAction
  <2> HIDE DEF OnTransfer, OnReceipt, OnAdjustment, OnReturn, OnCount
  <2> QED BY <1>1, <2>1, <2>2, <2>3, <2>4, <2>5, <2>6 DEF Ask
<1>2. ASSUME NEW w \in Workers, Handle(w) PROVE Act(w)
  <2>1. ASSUME TransferStep(w), UNCHANGED << receiptVars, adjustmentVars, returnVars, countVars, taskVars >>
        PROVE  OnTransfer(w)
    BY <2>1, TransferJobs DEF TransferAction
  <2>2. ASSUME ReceiptStep(w), UNCHANGED << transferVars, adjustmentVars, returnVars, countVars, taskVars >>
        PROVE  OnReceipt(w)
    BY <2>2, ReceiptJobs DEF ReceiptAction
  <2>3. ASSUME AdjustmentStep(w), UNCHANGED << transferVars, receiptVars, returnVars, countVars, taskVars >>
        PROVE  OnAdjustment(w)
    BY <2>3, AdjustmentJobs DEF AdjustmentAction
  <2>4. ASSUME ReturnStep(w), UNCHANGED << transferVars, receiptVars, adjustmentVars, countVars, taskVars >>
        PROVE  OnReturn(w)
    BY <2>4, ReturnJobs DEF ReturnAction
  <2>5. ASSUME CountStep(w), UNCHANGED << transferVars, receiptVars, adjustmentVars, returnVars, taskVars >>
        PROVE  OnCount(w)
    BY <2>5 DEF CountAction
  <2>6. ASSUME TaskStep(w), UNCHANGED << transferVars, receiptVars, adjustmentVars, returnVars >>
        PROVE  OnCount(w)
    BY <2>6 DEF CountAction
  <2> HIDE DEF OnTransfer, OnReceipt, OnAdjustment, OnReturn, OnCount
  <2> QED BY <1>2, <2>1, <2>2, <2>3, <2>4, <2>5, <2>6 DEF Handle
<1>3. ASSUME NEW w \in Workers, Fail(w), UNCHANGED docVars PROVE Act(w)
  <2> DEFINE d == job[w].doc
  <2>0. UNCHANGED << transferVars, receiptVars, adjustmentVars, returnVars, countVars, taskVars >>
    BY <1>3 DEF docVars
  <2>1. d \in Docs
    BY <1>3 DEF Fail, ShapeInv, Fits
  <2>2. d \in Transfers \cup Receipts \cup Adjustments \cup Returns \cup Counting
    BY <2>1, DocumentsAssumption
       DEF Transfers, Receipts, Adjustments, Returns, Counting, Counts, Tasks
  <2>3. d \in Transfers => OnTransfer(w)
    BY <1>3, <2>0 DEF TransferAction
  <2>4. d \in Receipts => OnReceipt(w)
    BY <1>3, <2>0 DEF ReceiptAction
  <2>5. d \in Adjustments => OnAdjustment(w)
    BY <1>3, <2>0 DEF AdjustmentAction
  <2>6. d \in Returns => OnReturn(w)
    BY <1>3, <2>0 DEF ReturnAction
  <2>7. d \in Counting => OnCount(w)
    BY <1>3, <2>0 DEF CountAction
  <2> HIDE DEF OnTransfer, OnReceipt, OnAdjustment, OnReturn, OnCount
  <2> QED BY <2>2, <2>3, <2>4, <2>5, <2>6, <2>7
<1>4. UNCHANGED vars \/ \E w \in Workers : Ask(w) \/ Handle(w) \/ (Fail(w) /\ UNCHANGED docVars)
  BY DEF WarehouseNext, Quiet
<1> HIDE DEF Act
<1>5. UNCHANGED vars \/ \E w \in Workers : Act(w)
  BY <1>1, <1>2, <1>3, <1>4
<1> QED BY <1>5 DEF Act

(* Document by document, request by request. *)
LedgerInv ==
    /\ ShapeInv /\ StockInv /\ CountInvs /\ TransfersShape
    /\ \A w \in Workers : JobInv(w)
    /\ \A d \in Once : OnceInv(d)
    /\ \A t \in Transfers : TransferInv(t)

(* Steps for other documents leave counts and tasks as they are. *)
LEMMA CountsElsewhere ==
    ASSUME ShapeInv, StockInv, CountInvs, NEW w \in Workers, NEW D, Step(w, D), D \cap Counting = {},
           UNCHANGED << expected, counted, completions >>
    PROVE  CountInvs'
<1>1. DOMAIN expected' = Counts /\ DOMAIN counted' = Counts
  BY DEF CountInvs, CountsShape
<1>2. ASSUME NEW c \in Counts
      PROVE  /\ content'[c] = content[c] /\ status'[c] = status[c]
             /\ ~Furthers(w, c)'
             /\ Completed(c)' => Completed(c)
  <2>1. c \in Docs /\ c \notin D /\ c # NoDoc
    BY DocumentsAssumption DEF Counting, Counts
  <2>2. job'[w].doc # c
    BY <2>1 DEF Step, WorkerStep, Idle
  <2>3. \A v \in Workers \ {w} : pc'[v] = pc[v] /\ job'[v] = job[v]
    BY DEF Step, WorkerStep
  <2> QED BY <2>1, <2>2, <2>3 DEF Step, ContentStep, StatusStep, Furthers, Completed
<1>3. ASSUME NEW k \in Tasks PROVE status'[k] = status[k]
  <2>1. k \in Docs /\ k \notin D
    BY DEF Counting, Tasks
  <2> QED BY <2>1 DEF Step, StatusStep
<1>4. CountFacts(w)
  BY <1>1, <1>2, <1>3 DEF CountFacts
<1> QED BY <1>4, CountFactsKeep

(* A step that keeps what it works on keeps everything. *)
LEMMA StepKeepsLedger ==
    ASSUME LedgerInv, RequestsInOrder, NEW w \in Workers, NEW D, Step(w, D), StockStep(w), JobInv(w)',
           \A d \in Once \cap D : OnceInv(d)', \A t \in Transfers \cap D : TransferInv(t)',
           \A r \in Receipts \ D : (r \in postedAt' <=> r \in postedAt),
           Counts \subseteq D \/ UNCHANGED << expected, counted, completions >>,
           \A t \in Transfers \ D : qtyDispatched'[t] = qtyDispatched[t] /\ qtyReceived'[t] = qtyReceived[t],
           TransfersShape', CountInvs'
    PROVE  LedgerInv'
<1>1. ShapeInv /\ StockInv /\ JobInv(w)
  BY DEF LedgerInv
<1>2. ShapeInv' /\ StockInv'
  BY <1>1, StepKeepsShape, StockMoves
<1>3. ASSUME NEW v \in Workers PROVE JobInv(v)'
  <2>1. CASE v = w
    BY <2>1
  <2>2. CASE v # w
    <3>1. pc'[v] = pc[v] /\ job'[v] = job[v] /\ JobInv(v)
      BY <2>2 DEF Step, WorkerStep, LedgerInv
    <3> QED BY <3>1 DEF JobInv, AtWork, PostableJob
  <2> QED BY <2>1, <2>2
<1>4. ASSUME NEW d \in Once PROVE OnceInv(d)'
  <2>1. CASE d \in D
    BY <2>1
  <2>2. CASE d \notin D
    <3>1. OnceInv(d)
      BY DEF LedgerInv
    <3>2. d \in Receipts => (d \in postedAt' <=> d \in postedAt)
      BY <2>2
    <3>3. d \in Counts => expected'[d] = expected[d] /\ counted'[d] = counted[d] /\ completions' = completions
      BY <2>2
    <3> QED BY <1>1, <2>2, <3>1, <3>2, <3>3, OnceElsewhere
  <2> QED BY <2>1, <2>2
<1>5. ASSUME NEW t \in Transfers PROVE TransferInv(t)'
  <2>1. CASE t \in D
    BY <2>1
  <2>2. CASE t \notin D
    <3>1. TransferInv(t) /\ OwnKeys(t)
      BY DEF LedgerInv, RequestsInOrder
    <3>2. qtyDispatched'[t] = qtyDispatched[t] /\ qtyReceived'[t] = qtyReceived[t]
      BY <2>2
    <3> QED BY <1>1, <2>2, <3>1, <3>2, TransferElsewhere
  <2> QED BY <2>1, <2>2
<1> QED BY <1>2, <1>3, <1>4, <1>5 DEF LedgerInv, Once, Transfers, Receipts, Adjustments, Counts

(* Everything does. *)
LEMMA LedgerStepKeeps ==
    ASSUME LedgerInv, RequestsInOrder, [WarehouseNext]_vars
    PROVE  LedgerInv'
<1>1. /\ ShapeInv /\ StockInv /\ CountInvs /\ TransfersShape
      /\ \A w \in Workers : JobInv(w)
      /\ \A d \in Once : OnceInv(d)
      /\ \A t \in Transfers : TransferInv(t)
  BY DEF LedgerInv
<1>2. /\ RewritesAlone("transfer") /\ RewritesAlone("receipt") /\ RewritesAlone("adjustment")
      /\ RewritesAlone("count")
      /\ \A d \in Once : OneKey(d, "post")
      /\ \A t \in Transfers : OwnKeys(t)
  BY DEF RequestsInOrder
<1>3. ASSUME NEW w \in Workers, NEW t \in Transfers, TransferAction(w, t),
             UNCHANGED << receiptVars, countVars, taskVars >>
      PROVE  LedgerInv'
  <2> DEFINE D == {t}
  <2>1. Step(w, D)
    BY <1>1, <1>3, TransferActionSteps
  <2>2. TransferInv(t)' /\ StockStep(w) /\ JobInv(w)'
    <3>1. TransferInv(t) /\ OwnKeys(t) /\ JobInv(w)
      BY <1>1, <1>2
    <3> QED BY <1>1, <1>2, <1>3, <3>1, TransferActionKeeps
  <2>3. /\ TransfersShape'
        /\ \A d \in Transfers \ {t} : qtyDispatched'[d] = qtyDispatched[d] /\ qtyReceived'[d] = qtyReceived[d]
    BY <1>1, <1>3, TransferActionShape
  <2>4. UNCHANGED << postedAt, expected, counted, completions >>
    BY <1>3 DEF receiptVars, countVars, taskVars
  <2>5. D \cap Counting = {} /\ Once \cap D = {} /\ Transfers \cap D = {t}
    BY DEF Counting, Counts, Tasks, Once, Receipts, Adjustments, Transfers
  <2>6. \A d \in Transfers \cap D : TransferInv(d)'
    <3>1. \A d : d \in Transfers \cap D => d = t
      BY <2>5
    <3> QED BY <2>2, <3>1
  <2>7. \A d \in Transfers \ D : qtyDispatched'[d] = qtyDispatched[d] /\ qtyReceived'[d] = qtyReceived[d]
    BY <2>3
  <2> HIDE DEF D
  <2>8. CountInvs'
    BY <1>1, <2>1, <2>4, <2>5, CountsElsewhere
  <2>9. /\ \A d \in Once \cap D : OnceInv(d)'
        /\ \A r \in Receipts \ D : (r \in postedAt' <=> r \in postedAt)
    BY <2>4, <2>5
  <2> QED BY <2>1, <2>2, <2>3, <2>4, <2>6, <2>7, <2>8, <2>9, StepKeepsLedger
<1>4. ASSUME NEW w \in Workers, NEW d \in Receipts \cup Adjustments \cup Returns, Step(w, {d}),
             StockStep(w), JobInv(w)', d \in Once => OnceInv(d)',
             \A r \in Receipts \ {d} : (r \in postedAt' <=> r \in postedAt),
             UNCHANGED << transferVars, countVars, taskVars >>
      PROVE  LedgerInv'
  <2> DEFINE D == {d}
  <2>1. Step(w, D)
    BY <1>4
  <2>2. UNCHANGED << qtyDispatched, qtyReceived, expected, counted, completions >>
    BY <1>4 DEF transferVars, countVars, taskVars
  <2>3. D \cap Counting = {} /\ Transfers \cap D = {}
    BY DEF Counting, Counts, Tasks, Receipts, Adjustments, Returns, Transfers
  <2>4. \A e \in Once \cap D : OnceInv(e)'
    <3>1. \A e : e \in Once \cap D => e = d
      OBVIOUS
    <3> QED BY <1>4, <3>1
  <2>5. \A r \in Receipts \ D : (r \in postedAt' <=> r \in postedAt)
    BY <1>4
  <2> HIDE DEF D
  <2>6. CountInvs'
    BY <1>1, <2>1, <2>2, <2>3, CountsElsewhere
  <2>7. TransfersShape'
    BY <1>1, <2>2 DEF TransfersShape
  <2>8. /\ \A t \in Transfers \cap D : TransferInv(t)'
        /\ \A t \in Transfers \ D : qtyDispatched'[t] = qtyDispatched[t] /\ qtyReceived'[t] = qtyReceived[t]
    BY <2>2, <2>3
  <2> QED BY <1>4, <2>1, <2>2, <2>4, <2>5, <2>6, <2>7, <2>8, StepKeepsLedger
<1>5. ASSUME NEW w \in Workers, NEW r \in Receipts, ReceiptAction(w, r),
             UNCHANGED << transferVars, countVars, taskVars >>
      PROVE  LedgerInv'
  <2>1. OnceInv(r) /\ OneKey(r, "post") /\ JobInv(w) /\ UNCHANGED << expected, counted, completions >>
    BY <1>1, <1>2, <1>5 DEF Once, countVars, taskVars
  <2>2. Step(w, {r})
    BY <1>1, <1>5, ReceiptActionSteps
  <2>3. /\ OnceInv(r)'
        /\ StockStep(w) /\ JobInv(w)'
        /\ \A d : d # r => (d \in postedAt' <=> d \in postedAt)
    BY <1>1, <1>2, <1>5, <2>1, ReceiptActionKeepsOnce
  <2>4. \A d \in Receipts \ {r} : (d \in postedAt' <=> d \in postedAt)
    BY <2>3
  <2> QED BY <1>4, <1>5, <2>2, <2>3, <2>4
<1>6. ASSUME NEW w \in Workers, NEW a \in Adjustments, AdjustmentAction(w, a),
             UNCHANGED << transferVars, receiptVars, countVars, taskVars >>
      PROVE  LedgerInv'
  <2>1. /\ OnceInv(a) /\ OneKey(a, "post") /\ JobInv(w)
        /\ UNCHANGED << postedAt, expected, counted, completions >>
    BY <1>1, <1>2, <1>6 DEF Once, receiptVars, countVars, taskVars
  <2>2. Step(w, {a})
    BY <1>1, <1>6, AdjustmentActionSteps
  <2>3. OnceInv(a)' /\ StockStep(w) /\ JobInv(w)'
    BY <1>1, <1>2, <1>6, <2>1, AdjustmentActionKeepsOnce
  <2>4. \A d \in Receipts \ {a} : (d \in postedAt' <=> d \in postedAt)
    BY <2>1
  <2> QED BY <1>4, <1>6, <2>2, <2>3, <2>4
<1>7. ASSUME NEW w \in Workers, NEW r \in Returns, ReturnAction(w, r),
             UNCHANGED << transferVars, receiptVars, countVars, taskVars >>
      PROVE  LedgerInv'
  <2>1. JobInv(w) /\ UNCHANGED postedAt
    BY <1>1, <1>7 DEF receiptVars
  <2>2. Step(w, {r})
    BY <1>1, <1>7, ReturnActionSteps
  <2>3. StockStep(w) /\ JobInv(w)'
    BY <1>1, <1>7, <2>1, ReturnActionWorks
  <2>4. r \notin Once /\ \A d \in Receipts \ {r} : (d \in postedAt' <=> d \in postedAt)
    BY <2>1 DEF Once, Receipts, Adjustments, Counts, Returns
  <2> QED BY <1>4, <1>7, <2>2, <2>3, <2>4
<1>8. ASSUME NEW w \in Workers, CountAction(w), UNCHANGED << transferVars, receiptVars >>
      PROVE  LedgerInv'
  <2> DEFINE D == Counting
  <2>1. Step(w, D)
    BY <1>1, <1>8, CountActionSteps
  <2>2. UNCHANGED << qtyDispatched, qtyReceived, postedAt >>
    BY <1>8 DEF transferVars, receiptVars
  <2>3. \A c \in Counts : OneKey(c, "post") /\ OnceInv(c)
    BY <1>1, <1>2 DEF Once
  <2>4. (\A c \in Counts : OnceInv(c)') /\ StockStep(w) /\ JobInv(w)' /\ CountInvs'
    BY <1>1, <1>2, <1>8, <2>2, <2>3, CountActionKeeps
  <2>5. Once \cap D = Counts /\ Transfers \cap D = {} /\ Counts \subseteq D
    BY DEF Counting, Counts, Tasks, Once, Receipts, Adjustments, Transfers
  <2> HIDE DEF D
  <2>6. TransfersShape'
    BY <1>1, <2>2 DEF TransfersShape
  <2>7. /\ \A d \in Once \cap D : OnceInv(d)'
        /\ \A t \in Transfers \cap D : TransferInv(t)'
        /\ \A r \in Receipts \ D : (r \in postedAt' <=> r \in postedAt)
        /\ \A t \in Transfers \ D : qtyDispatched'[t] = qtyDispatched[t] /\ qtyReceived'[t] = qtyReceived[t]
    BY <2>2, <2>4, <2>5
  <2> QED BY <2>1, <2>4, <2>5, <2>6, <2>7, StepKeepsLedger
<1>9. CASE UNCHANGED vars
  <2>1. UNCHANGED << balance, movements, status, content, pc, job, qtyDispatched, qtyReceived, postedAt,
                     expected, counted, completions, units >>
    BY <1>9 DEF vars, baseVars, docVars, transferVars, receiptVars, countVars, taskVars
  <2>2. ShapeInv' /\ StockInv' /\ TransfersShape'
    BY <1>1, <2>1 DEF ShapeInv, Fits, StockInv, TransfersShape
  <2>3. \A w \in Workers : JobInv(w)'
    BY <1>1, <2>1 DEF JobInv, AtWork, PostableJob
  <2>4. CountInvs'
    BY <1>1, <2>1 DEF CountInvs, CountsShape, TaskInv, CountedInv, Completed, Furthers, AtWork, Lines, Reviewed
  <2>5. \A d \in Once : OnceInv(d)'
    <3> TAKE d \in Once
    <3>1. /\ Due(d)' = Due(d) /\ (Told(d)' <=> Told(d)) /\ (StockMovedFor(d)' <=> StockMovedFor(d))
          /\ Keyed(TheKey(d, "post"))' <=> Keyed(TheKey(d, "post"))
      BY <2>1 DEF Due, Lines, Variance, Told, Booked, Completed, StockMovedFor, Keyed, TheKey, Receipts, Counts
    <3>2. OnceInv(d)
      BY <1>1
    <3>3. ASSUME NEW w \in Workers PROVE OnceRequest(w, d)'
      <4>1. OnceRequest(w, d)
        BY <3>2 DEF OnceInv
      <4>2. /\ Rewriting(w, d)' <=> Rewriting(w, d)
            /\ Posting(w, d)' <=> Posting(w, d)
            /\ Deciding(w, d)' <=> Deciding(w, d)
        BY <2>1 DEF Rewriting, Posting, Deciding
      <4> QED BY <2>1, <3>1, <4>1, <4>2 DEF OnceRequest, TheKey, Unposted
    <3> QED BY <2>1, <3>1, <3>2, <3>3 DEF OnceInv, Unposted, TheKey, Receipts
  <2>6. \A t \in Transfers : TransferInv(t)'
    <3> TAKE t \in Transfers
    <3>1. TransferInv(t)
      BY <1>1
    <3>2. /\ StockMovedFor(t)' <=> StockMovedFor(t)
          /\ Left(t)' <=> Left(t)
          /\ There(t)' <=> There(t)
      BY <2>1 DEF StockMovedFor, Left, There, Keyed, TheKey
    <3>3. LedgerHas(t)'
      <4>1. Sent(t)' = Sent(t) /\ Arrived(t)' = Arrived(t)
        BY <2>1 DEF Sent, Arrived, Lines
      <4> QED BY <2>1, <3>1, <3>2, <4>1 DEF LedgerHas, TransferInv
    <3>4. Lines(t)' = Lines(t)
      BY <2>1 DEF Lines
    <3>5. OnItems(t)'
      BY <2>1, <3>1, <3>2, <3>4 DEF OnItems, TransferInv, NoneOf, Qtys
    <3>6. ASSUME NEW w \in Workers PROVE TransferRequest(w, t)'
      <4>1. TransferRequest(w, t) /\ \A op : Handles(w, t, op)' <=> Handles(w, t, op)
        BY <2>1, <3>1 DEF TransferInv, Handles, AtWork
      <4> QED BY <2>1, <3>2, <3>4, <4>1 DEF TransferRequest, TheKey, Unposted, Qtys
    <3> QED BY <2>1, <3>1, <3>2, <3>3, <3>5, <3>6 DEF TransferInv, Unposted
  <2> QED BY <2>2, <2>3, <2>4, <2>5, <2>6 DEF LedgerInv, Once, Transfers, Receipts, Adjustments, Counts
<1>10. CASE WarehouseNext
  BY <1>1, <1>3, <1>5, <1>6, <1>7, <1>8, <1>9, <1>10, WhoActs
<1> QED BY <1>9, <1>10

(* Before anybody has asked for anything rows hold what they open with .. *)
LEMMA StockInitially ==
    ASSUME WarehouseInit
    PROVE  StockInv
<1>1. balance \in Balances
  <2>1. ASSUME NEW g \in Grains PROVE [EmptyRow EXCEPT !["onHand"] = Opening[g]] \in Row
    <3> DEFINE n == Opening[g]
    <3>1. n \in Int
      BY StockAssumption
    <3> HIDE DEF n
    <3>2. [EmptyRow EXCEPT !["onHand"] = n] = [b \in Buckets |-> IF b = "onHand" THEN n ELSE 0]
      BY DEF EmptyRow
    <3>3. [b \in Buckets |-> IF b = "onHand" THEN n ELSE 0] \in Row
      BY <3>1 DEF Row
    <3> QED BY <3>2, <3>3 DEF n
  <2> QED BY <2>1 DEF WarehouseInit, Balances
<1>2. Journal(movements)
  <2>1. IsList(movements) /\ Len(movements) = 0
    BY ShortLists DEF WarehouseInit
  <2> QED BY <2>1 DEF Journal
<1> QED BY <1>1, <1>2 DEF StockInv

(* .. and nothing has moved, nor does a document say that it has. *)
LEMMA LedgerInitially ==
    ASSUME WarehouseInit
    PROVE  LedgerInv
<1>1. ShapeInv /\ StockInv
  BY ShapeInitially, StockInitially
<1>2. (\A w \in Workers : pc[w] = "idle") /\ movements = << >> /\ postedAt = {} /\ completions = {}
  BY DEF WarehouseInit
<1>3. \A d : ~StockMovedFor(d)
  BY <1>2 DEF StockMovedFor
<1>4. \A key : ~Keyed(key)
  BY <1>2 DEF Keyed, KeyedBy
<1>5. \A c : ~Completed(c)
  BY <1>2 DEF Completed
<1>6. CountInvs
  <2>1. /\ expected = [c \in Counts |-> OnTheBooks(c)]
        /\ counted = [c \in Counts |-> << >>]
    BY DEF WarehouseInit
  <2>2. CountsShape
    BY <1>1, <2>1, BooksShape DEF CountsShape
  <2>3. TaskInv
    BY StartsAssumption DEF WarehouseInit, TaskInv
  <2>4. ASSUME NEW c \in Counts PROVE CountedInv(c)
    <3>1. status[c] \notin Reviewed
      BY StartsAssumption DEF WarehouseInit, Reviewed
    <3>2. \A w \in Workers : ~Furthers(w, c)
      BY <1>2 DEF Furthers, AtWork
    <3> QED BY <1>5, <3>1, <3>2 DEF CountedInv
  <2> QED BY <2>2, <2>3, <2>4 DEF CountInvs
<1>7. TransfersShape
  BY DEF WarehouseInit, TransferInit, TransfersShape
<1>8. \A w \in Workers : JobInv(w)
  BY <1>2 DEF JobInv, AtWork
<1>9. ASSUME NEW d \in Once PROVE OnceInv(d)
  <2>1. ~Booked(d)
    <3>1. d \notin Receipts => status[d] # "POSTED"
      BY StartsAssumption DEF WarehouseInit, Once
    <3> QED BY <1>2, <1>5, <3>1 DEF Booked
  <2>2. \A w \in Workers : OnceRequest(w, d)
    BY <1>2 DEF OnceRequest, Rewriting, Posting, Deciding
  <2> QED BY <1>3, <2>1, <2>2 DEF OnceInv, Told
<1>10. ASSUME NEW t \in Transfers PROVE TransferInv(t)
  <2>1. MovedIn(movements, t) = Nothing
    BY <1>1, <1>3, NothingMoved
  <2>2. LedgerHas(t)
    BY <1>3, <1>4, <2>1 DEF LedgerHas, Left, There
  <2>3. OnItems(t)
    BY DEF WarehouseInit, TransferInit, OnItems
  <2>4. \A w \in Workers : TransferRequest(w, t)
    BY <1>2 DEF TransferRequest, Handles, AtWork
  <2> QED BY <1>3, <2>2, <2>3, <2>4 DEF TransferInv
<1> QED BY <1>1, <1>6, <1>7, <1>8, <1>9, <1>10 DEF LedgerInv

(* What is told of a document is what has moved for it. *)
LEMMA LedgerInvImplies ==
    ASSUME LedgerInv
    PROVE  LedgerTellsDocuments /\ CompletedMeansCounted
<1>1. \A d : MovedBy(d) = MovedIn(movements, d)
  BY DEF MovedBy, MovedIn
<1>2. ASSUME NEW t \in Transfers
      PROVE  /\ MovedBy(t) \in {Nothing, Sent(t), Arrived(t)}
             /\ qtyDispatched[t] # NoneOf(Lines(t)) => MovedBy(t) \in {Sent(t), Arrived(t)}
             /\ qtyReceived[t] # NoneOf(Lines(t)) => MovedBy(t) = Arrived(t)
  BY <1>1, <1>2 DEF LedgerInv, TransferInv, LedgerHas, OnItems
<1>3. ASSUME NEW d \in Once
      PROVE  /\ MovedBy(d) = IF Told(d) THEN EffectOf(Due(d)) ELSE Nothing
             /\ d \in Receipts => (Told(d) <=> d \in postedAt)
  <2>1. ShapeInv /\ OnceInv(d)
    BY DEF LedgerInv
  <2>2. ~Told(d) => MovedIn(movements, d) = Nothing
    BY <2>1, NothingMoved DEF Told
  <2> QED BY <1>1, <2>1, <2>2 DEF OnceInv, Told, Booked
<1>4. ASSUME NEW r \in Receipts
      PROVE  MovedBy(r) = IF r \in postedAt THEN EffectOf(ReceiptLines(Lines(r))) ELSE Nothing
  <2>1. r \in Once /\ Due(r) = ReceiptLines(Lines(r))
    BY DEF Once, Due
  <2> QED BY <1>3, <2>1
<1>5. ASSUME NEW a \in Adjustments
      PROVE  /\ MovedBy(a) \in {Nothing, EffectOf(AdjustmentLines(Lines(a)))}
             /\ status[a] = "POSTED" => MovedBy(a) = EffectOf(AdjustmentLines(Lines(a)))
  <2>1. a \in Once /\ a \notin Receipts /\ Due(a) = AdjustmentLines(Lines(a))
    BY DEF Once, Due, Receipts, Counts, Adjustments
  <2>2. status[a] = "POSTED" => Told(a)
    BY <2>1 DEF Told, Booked
  <2> QED BY <1>3, <2>1, <2>2
<1>6. ASSUME NEW c \in Counts
      PROVE  /\ MovedBy(c) \in {Nothing, Found(c)}
             /\ status[c] = "POSTED" \/ Completed(c) => MovedBy(c) = Found(c)
  <2>1. c \in Once /\ c \notin Receipts /\ EffectOf(Due(c)) = Found(c)
    BY DEF Once, Due, Receipts, Counts, Found
  <2>2. status[c] = "POSTED" \/ Completed(c) => Told(c)
    BY <2>1 DEF Told, Booked
  <2> QED BY <1>3, <2>1, <2>2
<1>7. LedgerTellsDocuments
  BY <1>2, <1>4, <1>5, <1>6 DEF LedgerTellsDocuments
<1>8. ASSUME NEW k \in Tasks
      PROVE  /\ k \in completions => counted[CountOf[k]] # << >> /\ MovedBy(CountOf[k]) = Found(CountOf[k])
             /\ status[k] = "COMPLETED" => k \in completions
  <2>1. CountOf[k] \in Counts
    BY CountsAssumption
  <2>2. k \in completions => Completed(CountOf[k])
    BY DEF Completed
  <2>3. CountedInv(CountOf[k]) /\ TaskInv
    BY <2>1 DEF LedgerInv, CountInvs
  <2>4. Completed(CountOf[k]) => counted[CountOf[k]] # << >>
    BY <2>3 DEF CountedInv
  <2> QED BY <1>6, <2>1, <2>2, <2>3, <2>4 DEF TaskInv
<1>9. CompletedMeansCounted
  BY <1>8 DEF CompletedMeansCounted
<1> QED BY <1>7, <1>9

(* The ledger has moved for a document exactly what the document says,        *)
(* whatever handlers of this and other documents do side by side, in          *)
(* whatever order their transactions come, and however often they fail        *)
(* between two of them.                                                       *)
THEOREM LedgerMovesWhatDocumentsSay ==
    ASSUME RequestsInOrder
    PROVE  WarehouseSpec => []LedgerTellsDocuments
<1>1. WarehouseInit => LedgerInv
  BY LedgerInitially
<1>2. LedgerInv /\ [WarehouseNext]_vars => LedgerInv'
  BY LedgerStepKeeps
<1>3. LedgerInv => LedgerTellsDocuments
  BY LedgerInvImplies
<1> QED BY <1>1, <1>2, <1>3, PTL DEF WarehouseSpec

(* A task is completed when its row has been counted and the difference is    *)
(* in the ledger, and not before; whatever became of count and task while     *)
(* the transactions of start, post and complete went by.                      *)
THEOREM TasksCompleteCounted ==
    ASSUME RequestsInOrder
    PROVE  WarehouseSpec => []CompletedMeansCounted
<1>1. WarehouseInit => LedgerInv
  BY LedgerInitially
<1>2. LedgerInv /\ [WarehouseNext]_vars => LedgerInv'
  BY LedgerStepKeeps
<1>3. LedgerInv => CompletedMeansCounted
  BY LedgerInvImplies
<1> QED BY <1>1, <1>2, <1>3, PTL DEF WarehouseSpec

-----------------------------------------------------------------------------
(* Lines that leave quarantined stock alone *)

(* Lines of which none touches quarantined stock. *)
SparesQuarantined(lines) == Typed(lines) /\ \A i \in 1 .. Len(lines) : LineDeltas(lines[i])["quarantined"] = 0

(* The types of movement, other than those of returns, that documents post. *)
QuietTypes ==
    {"TRANSFER_OUT", "PURCHASE_RECEIPT", "STOCK_ADJUSTMENT_IN", "STOCK_ADJUSTMENT_OUT", "DAMAGE"}

(* Nothing quarantined is moved by them. *)
LEMMA QuietMovesNothing ==
    ASSUME NEW lines, SparesQuarantined(lines), NEW g \in Grains
    PROVE  EffectOf(lines)[g]["quarantined"] = 0
<1> DEFINE b == "quarantined"
           S == 1 .. Len(lines)
           part == LineTerms(lines, g, b)
<1>1. b \in Buckets /\ Typed(lines)
  BY DEF Buckets, SparesQuarantined
<1>2. IsFiniteSet(S)
  BY <1>1, ListDomain, FS_Interval DEF Typed
<1>3. \A i \in S : part[i] = 0
  BY DEF LineTerms, SparesQuarantined
<1>4. EffectOf(lines)[g][b] = SumOver(part, S)
  BY <1>1, EffectTerms
<1> HIDE DEF part, S
<1>5. SumOver(part, S) = 0
  BY <1>2, <1>3, SumZero
<1> QED BY <1>4, <1>5

(* A line that leaves its effect to one of these types is such a line. *)
LEMMA TableQuiet ==
    ASSUME NEW line, line.deltas = NoDeltas, line.type \in QuietTypes
    PROVE  LineDeltas(line)["quarantined"] = 0
<1>1. LineDeltas(line) = BucketDeltasFor(line.type, line.qty) /\ "quarantined" \in Buckets
  BY DEF LineDeltas, Buckets
<1>2. line.type \notin Raising["quarantined"] /\ line.type \notin Lowering["quarantined"]
  BY DEF Raising, Lowering, QuietTypes
<1> QED BY <1>1, <1>2 DEF BucketDeltasFor

(* Dispatches and adjustments, line by line. *)
LEMMA LineByLineQuiet ==
    ASSUME NEW lines, Sourced(lines)
    PROVE  /\ SparesQuarantined(OutLines(lines))
           /\ (\A i \in 1 .. Len(lines) : lines[i].type \in QuietTypes) => SparesQuarantined(AdjustmentLines(lines))
<1>1. Len(lines) \in Nat /\ DOMAIN lines = 1 .. Len(lines)
  BY ListDomain DEF Sourced
<1>2. SparesQuarantined(OutLines(lines))
  <2> DEFINE f == OutLines(lines)
  <2>1. Typed(f) /\ Len(f) = Len(lines)
    BY LineByLineTyped
  <2>2. \A i \in 1 .. Len(lines) :
            f[i].type \in QuietTypes /\ f[i].deltas = NoDeltas
    BY <1>1 DEF OutLines, QuietTypes
  <2> HIDE DEF f
  <2>3. \A i \in 1 .. Len(lines) : LineDeltas(f[i])["quarantined"] = 0
    BY <2>2, TableQuiet
  <2>4. SparesQuarantined(f)
    BY <2>1, <2>3 DEF SparesQuarantined
  <2> QED BY <2>4 DEF f
<1>3. ASSUME \A i \in 1 .. Len(lines) : lines[i].type \in QuietTypes PROVE SparesQuarantined(AdjustmentLines(lines))
  <2> DEFINE f == AdjustmentLines(lines)
  <2>1. Typed(f) /\ Len(f) = Len(lines)
    BY LineByLineTyped
  <2>2. \A i \in 1 .. Len(lines) :
            f[i].type = lines[i].type /\ f[i].deltas = NoDeltas
    BY <1>1 DEF AdjustmentLines
  <2> HIDE DEF f
  <2>3. \A i \in 1 .. Len(lines) : LineDeltas(f[i])["quarantined"] = 0
    BY <1>3, <2>2, TableQuiet
  <2>4. SparesQuarantined(f)
    BY <2>1, <2>3 DEF SparesQuarantined
  <2> QED BY <2>4 DEF f
<1> QED BY <1>2, <1>3

(* Lists put behind one another, if each is. *)
LEMMA FlattenedQuiet ==
    ASSUME NEW s, IsList(s), \A i \in DOMAIN s : SparesQuarantined(s[i]), NEW flat, flat = FlattenSeq(s)
    PROVE  SparesQuarantined(flat)
<1>1. (\A i \in DOMAIN s : Typed(s[i])) /\ \A i \in DOMAIN s : IsList(s[i])
  BY DEF SparesQuarantined, Typed
<1>2. Typed(flat)
  BY <1>1, FlattenedTyped
<1>3. \A k \in 1 .. Len(flat) : \E i \in DOMAIN s : \E j \in 1 .. Len(s[i]) : flat[k] = s[i][j]
  BY <1>1, FlattenedElements
<1>4. ASSUME NEW k \in 1 .. Len(flat) PROVE LineDeltas(flat[k])["quarantined"] = 0
  <2>1. PICK i \in DOMAIN s : \E j \in 1 .. Len(s[i]) : flat[k] = s[i][j]
    BY <1>3
  <2>2. PICK j \in 1 .. Len(s[i]) : flat[k] = s[i][j]
    BY <2>1
  <2> QED BY <2>1, <2>2 DEF SparesQuarantined
<1> QED BY <1>2, <1>4 DEF SparesQuarantined

(* What of a transfer arrives: on hand, and no longer in transit. *)
LEMMA InQuiet ==
    ASSUME NEW lines, Sourced(lines), \A i \in 1 .. Len(lines) : lines[i].to \in Grains,
           NEW qty, \A i \in 1 .. Len(lines) : qty[i] \in Int
    PROVE  SparesQuarantined(InLines(lines, qty))
<1> DEFINE Leg(g, q, bucket, delta) ==
               [grain |-> g, type |-> "TRANSFER_IN", qty |-> q, allowNegative |-> FALSE,
                deltas |-> [EmptyRow EXCEPT ![bucket] = delta]]
           legs(i) == << Leg(lines[i].grain, qty[i], "inTransit", -qty[i]),
                         Leg(lines[i].to, qty[i], "onHand", qty[i]) >>
           f == [i \in DOMAIN lines |-> IF qty[i] > 0 THEN legs(i) ELSE << >>]
           flat == InLines(lines, qty)
<1>1. Len(lines) \in Nat /\ DOMAIN lines = 1 .. Len(lines)
  BY ListDomain DEF Sourced
<1>2. flat = FlattenSeq(f)
  BY DEF InLines
<1>3. ASSUME NEW g \in Grains, NEW q \in Int, NEW bucket \in Buckets \ {"quarantined"}, NEW delta \in Int
      PROVE  PostableLine(Leg(g, q, bucket, delta)) /\ LineDeltas(Leg(g, q, bucket, delta))["quarantined"] = 0
  <2> DEFINE row == [EmptyRow EXCEPT ![bucket] = delta]
             line == Leg(g, q, bucket, delta)
  <2>1. row \in Row /\ row["quarantined"] = 0
    BY DEF Row, EmptyRow, Buckets
  <2>2. line.grain = g /\ line.qty = q /\ line.deltas = row
    OBVIOUS
  <2> HIDE DEF row, line
  <2>3. row # NoDeltas
    BY <2>1, DocumentsAssumption
  <2>4. PostableLine(line) /\ LineDeltas(line)["quarantined"] = 0
    BY <2>1, <2>2, <2>3 DEF PostableLine, LineDeltas
  <2> QED BY <2>4 DEF line
<1> HIDE DEF Leg, flat
<1>4. ASSUME NEW i \in DOMAIN lines PROVE SparesQuarantined(f[i])
  <2>1. qty[i] \in Int /\ -qty[i] \in Int /\ lines[i].grain \in Grains /\ lines[i].to \in Grains
    BY <1>1 DEF Sourced
  <2> DEFINE x == Leg(lines[i].grain, qty[i], "inTransit", -qty[i])
             y == Leg(lines[i].to, qty[i], "onHand", qty[i])
  <2>2. /\ PostableLine(x) /\ PostableLine(y)
        /\ LineDeltas(x)["quarantined"] = 0 /\ LineDeltas(y)["quarantined"] = 0
    <3> DEFINE q == qty[i]
               minus == -qty[i]
               b == "inTransit"
               h == "onHand"
               B == Buckets \ {"quarantined"}
    <3>1. q \in Int /\ minus \in Int /\ b \in B /\ h \in B
      BY <2>1 DEF Buckets
    <3>2. \A gg \in Grains, qq \in Int, bb \in B, dd \in Int :
              PostableLine(Leg(gg, qq, bb, dd)) /\ LineDeltas(Leg(gg, qq, bb, dd))["quarantined"] = 0
      BY <1>3
    <3> HIDE DEF q, minus, b, h, B
    <3>3. /\ PostableLine(Leg(lines[i].grain, q, b, minus)) /\ PostableLine(Leg(lines[i].to, q, h, q))
          /\ LineDeltas(Leg(lines[i].grain, q, b, minus))["quarantined"] = 0
          /\ LineDeltas(Leg(lines[i].to, q, h, q))["quarantined"] = 0
      BY <2>1, <3>1, <3>2
    <3> QED BY <3>3 DEF q, minus, b, h
  <2>3. f[i] = IF qty[i] > 0 THEN << x, y >> ELSE << >>
    OBVIOUS
  <2> HIDE DEF x, y, f
  <2>4. SparesQuarantined(<< x, y >>) /\ SparesQuarantined(<< >>)
    <3>1. Typed(<< x, y >>) /\ Typed(<< >>)
      BY <2>2, ShortTyped
    <3> QED BY <2>2, <3>1 DEF SparesQuarantined
  <2> QED BY <2>3, <2>4
<1>5. f = [i \in 1 .. Len(lines) |-> f[i]]
  BY <1>1
<1> HIDE DEF f
<1>6. IsList(f) /\ DOMAIN f = DOMAIN lines
  BY <1>1, <1>5, MappedList
<1>7. SparesQuarantined(flat)
  BY <1>2, <1>4, <1>6, FlattenedQuiet
<1> QED BY <1>7 DEF flat

(* What of a receipt has come in. *)
LEMMA ReceiptQuiet ==
    ASSUME NEW lines, Sourced(lines)
    PROVE  SparesQuarantined(ReceiptLines(lines))
<1> DEFINE posted == ReceiptLines(lines)
<1>1. Typed(posted)
  BY ReceiptTyped
<1>2. \A k \in DOMAIN posted : posted[k].type \in QuietTypes /\ posted[k].deltas = NoDeltas
  BY DEF ReceiptLines, QuietTypes
<1> HIDE DEF posted
<1>3. DOMAIN posted = 1 .. Len(posted)
  BY <1>1, ListDomain DEF Typed
<1>4. \A k \in 1 .. Len(posted) : LineDeltas(posted[k])["quarantined"] = 0
  BY <1>2, <1>3, TableQuiet
<1> QED BY <1>1, <1>4 DEF SparesQuarantined, posted

(* What a count posts are corrections. *)
LEMMA VarianceQuiet ==
    ASSUME ShapeInv, CountsShape, NEW c \in Counts
    PROVE  SparesQuarantined(AdjustmentLines(Variance(c)))
<1> DEFINE items == Lines(c)
           v == Variance(c)
<1>1. c \in Docs /\ content[c] \in DOMAIN Versions[c]
  BY DEF Counts, ShapeInv
<1>2. IsList(items)
  BY <1>1, LinesAreLists
<1>3. Sourced(v)
  BY VarianceSourced
<1>4. \A k \in 1 .. Len(v) : v[k].type \in {"STOCK_ADJUSTMENT_OUT", "STOCK_ADJUSTMENT_IN"}
  <2> DEFINE books == expected[c]
             found == counted[c]
  <2>1. v = Difference(items, books, found)
    BY DEF Variance
  <2> HIDE DEF items, books, found, v
  <2>2. \A k \in 1 .. Len(Difference(items, books, found)) :
           Difference(items, books, found)[k].type \in {"STOCK_ADJUSTMENT_OUT", "STOCK_ADJUSTMENT_IN"}
    BY <1>2, DifferenceList
  <2> QED BY <2>1, <2>2
<1> HIDE DEF v
<1>5. \A k \in 1 .. Len(v) : v[k].type \in QuietTypes
  BY <1>4 DEF QuietTypes
<1>6. SparesQuarantined(AdjustmentLines(v))
  BY <1>3, <1>5, LineByLineQuiet
<1> QED BY <1>6 DEF v

(* The ledger has moved nothing for a task. *)
TasksMoveNothing == \A k \in Tasks : ~StockMovedFor(k)

(* No document but a return touches quarantined stock. *)
LEMMA OthersSpareQuarantined ==
    ASSUME LedgerInv, TasksMoveNothing, NEW d \in Docs \ Returns, NEW g \in Grains
    PROVE  MovedIn(movements, d)[g]["quarantined"] = 0
<1>1. ShapeInv /\ StockInv /\ CountsShape
  BY DEF LedgerInv, CountInvs
<1>2. "quarantined" \in Buckets
  BY DEF Buckets
<1>3. Nothing[g]["quarantined"] = 0
  BY <1>2 DEF Nothing, EmptyRow
<1>4. content[d] \in DOMAIN Versions[d] /\ IsList(Lines(d)) /\ DOMAIN Lines(d) = 1 .. Len(Lines(d))
  <2>1. IsList(Lines(d))
    BY <1>1, LinesAreLists
  <2> QED BY <1>1, <2>1, ListDomain DEF ShapeInv
<1>5. CASE d \in Transfers
  <2> DEFINE lines == Lines(d)
             qty == Qtys(lines)
  <2>1. \A i \in DOMAIN lines : lines[i].grain \in Grains /\ lines[i].to \in Grains /\ lines[i].qty \in Nat \ {0}
    BY <1>4, <1>5, TransfersAssumption DEF Lines
  <2>2. IsList(lines) /\ DOMAIN lines = 1 .. Len(lines)
    BY <1>4
  <2>3. Arrived(d) = Plus(Sent(d), EffectOf(InLines(lines, qty))) /\ Sent(d) = EffectOf(OutLines(lines))
    BY DEF Arrived, Sent, Qtys
  <2> HIDE DEF lines
  <2>4. \A i \in 1 .. Len(lines) : qty[i] \in Int
    BY <2>1, <2>2 DEF Qtys
  <2> HIDE DEF qty
  <2>5. Sourced(lines) /\ \A i \in 1 .. Len(lines) : lines[i].to \in Grains
    BY <2>1, <2>2 DEF Sourced
  <2>6. SparesQuarantined(OutLines(lines)) /\ SparesQuarantined(InLines(lines, qty))
    BY <2>4, <2>5, LineByLineQuiet, InQuiet
  <2>7. EffectOf(OutLines(lines))[g]["quarantined"] = 0 /\ EffectOf(InLines(lines, qty))[g]["quarantined"] = 0
    BY <2>6, QuietMovesNothing
  <2>8. Arrived(d)[g]["quarantined"] = 0
    <3> DEFINE e == EffectOf(OutLines(lines))
               f == EffectOf(InLines(lines, qty))
    <3>1. e \in Balances /\ f \in Balances
      BY <2>6, EffectIsBalances DEF SparesQuarantined
    <3>2. e[g]["quarantined"] = 0 /\ f[g]["quarantined"] = 0 /\ Arrived(d) = Plus(e, f)
      BY <2>3, <2>7
    <3> HIDE DEF e, f
    <3>3. Plus(e, f)[g]["quarantined"] = e[g]["quarantined"] + f[g]["quarantined"]
      BY <1>2, <3>1, PlusNothing
    <3> QED BY <3>2, <3>3
  <2>9. MovedIn(movements, d) \in {Nothing, Sent(d), Arrived(d)}
    BY <1>5 DEF LedgerInv, TransferInv, LedgerHas
  <2> QED BY <1>3, <2>3, <2>7, <2>8, <2>9
<1>6. ASSUME d \in Once, SparesQuarantined(Due(d)) PROVE MovedIn(movements, d)[g]["quarantined"] = 0
  <2>1. OnceInv(d)
    BY <1>6 DEF LedgerInv
  <2>2. CASE Told(d)
    BY <1>6, <2>1, <2>2, QuietMovesNothing DEF OnceInv
  <2>3. CASE ~Told(d)
    <3>1. ~StockMovedFor(d)
      BY <2>3 DEF Told
    <3> QED BY <1>1, <1>3, <3>1, NothingMoved
  <2> QED BY <2>2, <2>3
<1>7. CASE d \in Receipts
  <2>1. Sourced(Lines(d)) /\ Due(d) = ReceiptLines(Lines(d)) /\ d \in Once
    BY <1>1, <1>7, ItemsAreSourced DEF Due, Once
  <2> QED BY <1>6, <2>1, ReceiptQuiet
<1>8. CASE d \in Adjustments
  <2>1. Sourced(Lines(d)) /\ Due(d) = AdjustmentLines(Lines(d)) /\ d \in Once
    BY <1>1, <1>8, ItemsAreSourced DEF Due, Once, Adjustments, Receipts, Counts
  <2>2. \A i \in 1 .. Len(Lines(d)) : Lines(d)[i].type \in QuietTypes
    BY <1>4, <1>8, AdjustmentsAssumption DEF Lines, QuietTypes
  <2>3. SparesQuarantined(AdjustmentLines(Lines(d)))
    BY <2>1, <2>2, LineByLineQuiet
  <2> QED BY <1>6, <2>1, <2>3
<1>9. CASE d \in Counts
  <2>1. Due(d) = AdjustmentLines(Variance(d)) /\ d \in Once
    BY <1>9 DEF Due, Once, Receipts, Counts
  <2> QED BY <1>1, <1>6, <1>9, <2>1, VarianceQuiet
<1>10. CASE d \in Tasks
  <2>1. ~StockMovedFor(d)
    BY <1>10 DEF TasksMoveNothing
  <2> QED BY <1>1, <1>3, <2>1, NothingMoved
<1> QED BY <1>5, <1>7, <1>8, <1>9, <1>10, DocumentsAssumption
        DEF Transfers, Receipts, Adjustments, Returns, Counts, Tasks

-----------------------------------------------------------------------------
(* What comes into quarantine, and what leaves it *)

(* Lines after lines move what both move. *)
LEMMA JoinedEffect ==
    ASSUME NEW s, NEW t, Typed(s), Typed(t), NEW g \in Grains, NEW b \in Buckets
    PROVE  /\ Typed(s \o t)
           /\ EffectOf(s \o t)[g][b] = EffectOf(s)[g][b] + EffectOf(t)[g][b]
<1> DEFINE n == Len(s)
           m == Len(t)
           z == s \o t
           f == LineTerms(z, g, b)
           h == LineTerms(s, g, b)
           k == LineTerms(t, g, b)
<1>1. IsList(s) /\ IsList(t) /\ n \in Nat /\ m \in Nat
  BY ListDomain DEF Typed
<1>2. /\ IsList(z) /\ Len(z) = n + m
      /\ \A i \in 1 .. n : z[i] = s[i]
      /\ \A i \in 1 .. m : z[n + i] = t[i]
      /\ \A i \in 1 .. n + m : i > n => z[i] = t[i - n]
  BY <1>1, JoinedList
<1> HIDE DEF z
<1>3. Typed(z)
  <2>1. ASSUME NEW i \in 1 .. n + m PROVE PostableLine(z[i])
    <3>1. CASE i <= n
      BY <1>1, <1>2, <2>1, <3>1 DEF Typed
    <3>2. CASE i > n
      <4>1. i - n \in 1 .. m
        BY <1>1, <2>1, <3>2
      <4> QED BY <1>2, <2>1, <3>2, <4>1 DEF Typed
    <3> QED BY <1>1, <2>1, <3>1, <3>2
  <2> QED BY <1>2, <2>1 DEF Typed
<1>4. /\ EffectOf(s)[g][b] = SumOver(h, 1 .. n) /\ EffectOf(t)[g][b] = SumOver(k, 1 .. m)
      /\ EffectOf(z)[g][b] = SumOver(f, 1 .. n + m)
      /\ (\A i \in 1 .. n : h[i] \in Int) /\ \A i \in 1 .. m : k[i] \in Int
  BY <1>2, <1>3, EffectTerms
<1>5. \A i \in 1 .. n : f[0 + i] = h[i]
  <2>1. ASSUME NEW i \in 1 .. n PROVE f[i] = h[i]
    BY <1>1, <1>2, <2>1 DEF LineTerms
  <2>2. \A i \in 1 .. n : 0 + i = i
    BY <1>1
  <2> HIDE DEF f, h
  <2> QED BY <2>1, <2>2
<1>6. \A i \in 1 .. m : f[n + i] = k[i]
  <2>1. \A i \in 1 .. m : n + i \in 1 .. n + m
    BY <1>1
  <2> QED BY <1>1, <1>2, <2>1 DEF LineTerms
<1> HIDE DEF f, h, k, n, m
<1>7. Holds(f, 0, h, n) /\ Holds(f, n, k, m)
  BY <1>4, <1>5, <1>6 DEF Holds
<1>8. SumOver(f, 1 .. n + m) = SumOver(h, 1 .. n) + SumOver(k, 1 .. m)
  BY <1>1, <1>7, SumConcat
<1> QED BY <1>3, <1>4, <1>8 DEF z

(* Lists put behind one another move what all of them move. *)
LEMMA FlattenedEffect ==
    ASSUME NEW s, IsList(s), \A i \in DOMAIN s : Typed(s[i]), NEW g \in Grains, NEW b \in Buckets,
           NEW t, t = [i \in 1 .. Len(s) |-> EffectOf(s[i])[g][b]]
    PROVE  EffectOf(FlattenSeq(s))[g][b] = SumOver(t, 1 .. Len(s))
<1> DEFINE n == Len(s)
           f == CHOOSE h : Flattens(s, n, h)
           Fine(i) == Typed(f[i]) /\ EffectOf(f[i])[g][b] = SumOver(t, 1 .. i)
<1>1. n \in Nat /\ DOMAIN s = 1 .. n
  BY ListDomain
<1>2. \A i \in 1 .. n : Typed(s[i]) /\ t[i] = EffectOf(s[i])[g][b] /\ t[i] \in Int
  <2>1. \A i \in 1 .. n : Typed(s[i]) /\ EffectOf(s[i])[g][b] \in Int
    BY <1>1, EffectTerms
  <2> QED BY <2>1
<1>3. CASE n = 0
  <2>1. FlattenSeq(s) = << >>
    BY <1>1, <1>3 DEF FlattenSeq, IsList
  <2>2. EffectOf(<< >>)[g][b] = 0
    BY NoLinesMoveNothing DEF Nothing, EmptyRow
  <2>3. 1 .. n = {}
    BY <1>3
  <2>4. SumOver(t, 1 .. n) = 0
    BY <2>3, SumEmpty
  <2> QED BY <2>1, <2>2, <2>4
<1>4. CASE n # 0
  <2>1. Flattens(s, n, f)
    BY <1>1, FlatteningExists
  <2>2. FlattenSeq(s) = f[n]
    BY <1>4 DEF FlattenSeq, Flattens
  <2> DEFINE Bad == { i \in 1 .. n : ~Fine(i) }
  <2>3. Bad = {}
    <3> SUFFICES ASSUME Bad # {} PROVE FALSE
      OBVIOUS
    <3>1. PICK m \in Bad : \A k \in Bad : m <= k
      <4>1. Bad \in SUBSET Nat
        BY <1>1
      <4> HIDE DEF Bad
      <4> QED BY <4>1, LeastNatural
    <3> HIDE DEF f, n
    <3>2. m \in 1 .. n /\ ~Fine(m)
      BY <3>1
    <3>3. f[m] = IF m = 1 THEN s[m] ELSE f[m - 1] \o s[m]
      BY <2>1, <3>2 DEF Flattens
    <3>4. CASE m = 1
      <4>1. 1 .. 1 = {1}
        OBVIOUS
      <4>2. SumOver(t, {1}) = t[1]
        BY <1>1, <1>2, <3>2, <3>4, SumSingleton
      <4> QED BY <1>2, <3>2, <3>3, <3>4, <4>1, <4>2
    <3>5. CASE m # 1
      <4> DEFINE k == m - 1
      <4>1. k \in 1 .. n /\ k \notin Bad /\ m \in Int /\ 1 <= m
        BY <1>1, <3>1, <3>2, <3>5
      <4>2. Fine(k)
        BY <4>1
      <4>3. 1 .. m = (1 .. k) \cup {m} /\ m \notin 1 .. k /\ IsFiniteSet(1 .. k)
        <5> HIDE DEF Bad
        <5>1. k = m - 1 /\ 1 \in Int
          OBVIOUS
        <5> DEFINE a == 1
        <5> HIDE DEF k, a
        <5>2. a .. m = (a .. (m - 1)) \cup {m} /\ m \notin a .. (m - 1) /\ IsFiniteSet(a .. (m - 1))
          BY <4>1, <5>1, IntervalStep DEF a
        <5> QED BY <5>1, <5>2 DEF a
      <4>4. \A i \in (1 .. k) \cup {m} : t[i] \in Int
        <5>1. \A i \in 1 .. k : i \in 1 .. n
          BY <1>1, <3>2
        <5> QED BY <1>2, <3>2, <5>1
      <4>5. f[m] = f[k] \o s[m]
        BY <3>3, <3>5
      <4> HIDE DEF k, Bad
      <4>6. SumOver(t, 1 .. m) = t[m] + SumOver(t, 1 .. k)
        <5> DEFINE S == 1 .. k
        <5>1. IsFiniteSet(S) /\ m \notin S /\ (\A i \in S \cup {m} : t[i] \in Int) /\ 1 .. m = S \cup {m}
          BY <4>3, <4>4
        <5> HIDE DEF S
        <5>2. SumOver(t, S \cup {m}) = t[m] + SumOver(t, S)
          BY <5>1, SumAdd
        <5> QED BY <5>1, <5>2 DEF S
      <4>7. Typed(f[k]) /\ Typed(s[m]) /\ EffectOf(f[k])[g][b] = SumOver(t, 1 .. k) /\ t[m] = EffectOf(s[m])[g][b]
        BY <1>2, <3>2, <4>2
      <4>8. /\ Typed(f[k] \o s[m])
            /\ EffectOf(f[k] \o s[m])[g][b] = EffectOf(f[k])[g][b] + EffectOf(s[m])[g][b]
        BY <4>7, JoinedEffect
      <4>9. EffectOf(f[k])[g][b] \in Int /\ EffectOf(s[m])[g][b] \in Int
        BY <4>7, EffectTerms
      <4>10. Fine(m)
        BY <4>5, <4>6, <4>7, <4>8, <4>9
      <4> QED BY <3>2, <4>10
    <3> QED BY <3>4, <3>5
  <2>4. Fine(n)
    <3> HIDE DEF f, n
    <3>1. n \in 1 .. n
      BY <1>1, <1>4
    <3> QED BY <2>3, <3>1
  <2> HIDE DEF f, n
  <2> QED BY <2>2, <2>4 DEF n
<1> QED BY <1>3, <1>4

(* Of each line what was received of it. *)
LEMMA IntakeEffect ==
    ASSUME NEW lines, IsList(lines), NEW qty,
           \A i \in DOMAIN lines : lines[i].grain \in Grains /\ qty[i] \in Nat, NEW g \in Grains
    PROVE  EffectOf(IntakeLines(lines, qty))[g]["quarantined"] =
               SumFunctionOnSet([i \in DOMAIN lines |-> qty[i]], { i \in DOMAIN lines : lines[i].grain = g })
<1> DEFINE line(i) == [grain |-> lines[i].grain, type |-> "RETURN_RECEIPT", qty |-> qty[i],
                       deltas |-> NoDeltas, allowNegative |-> FALSE]
           f == [i \in DOMAIN lines |-> IF qty[i] > 0 THEN << line(i) >> ELSE << >>]
           b == "quarantined"
           n == Len(lines)
           t == [i \in 1 .. n |-> EffectOf(f[i])[g][b]]
           T == { i \in DOMAIN lines : lines[i].grain = g }
           q == [i \in DOMAIN lines |-> qty[i]]
           S == 1 .. n
<1>1. n \in Nat /\ DOMAIN lines = S /\ b \in Buckets
  BY ListDomain DEF Buckets
<1>2. IntakeLines(lines, qty) = FlattenSeq(f)
  BY DEF IntakeLines
<1>3. ASSUME NEW i \in DOMAIN lines
      PROVE  Typed(f[i]) /\ EffectOf(f[i])[g][b] = IF lines[i].grain = g THEN qty[i] ELSE 0
  <2> DEFINE l == line(i)
             one == << l >>
             part == LineTerms(one, g, b)
  <2>1. f[i] = IF qty[i] > 0 THEN one ELSE << >>
    OBVIOUS
  <2>2. /\ l.grain = lines[i].grain /\ l.qty = qty[i] /\ l.deltas = NoDeltas /\ l.type = "RETURN_RECEIPT"
        /\ l.grain \in Grains /\ qty[i] \in Nat /\ l.qty \in Int
    BY <1>1
  <2> HIDE DEF l, f, n
  <2>3. LineDeltas(l)[b] = qty[i]
    <3>1. l.type \in Raising[b] /\ l.type \notin Lowering[b]
      BY <2>2 DEF Raising, Lowering
    <3> QED BY <1>1, <2>2, <3>1 DEF LineDeltas, BucketDeltasFor
  <2>4. PostableLine(l)
    BY <2>2, TableMoves
  <2>5. Typed(one) /\ Typed(<< >>)
    BY <2>4, ShortTyped
  <2>6. Len(one) = 1 /\ one[1] = l
    OBVIOUS
  <2> HIDE DEF one
  <2>7. EffectOf(one)[g][b] = SumOver(part, 1 .. Len(one)) /\ 1 .. Len(one) = {1}
    BY <1>1, <2>5, <2>6, EffectTerms
  <2>8. part[1] = IF lines[i].grain = g THEN qty[i] ELSE 0
    BY <2>2, <2>3, <2>6 DEF LineTerms
  <2> HIDE DEF part
  <2>9. SumOver(part, {1}) = part[1]
    <3>1. part[1] \in Int
      BY <2>2, <2>8
    <3> QED BY <3>1, SumSingleton
  <2>10. EffectOf(one)[g][b] = IF lines[i].grain = g THEN qty[i] ELSE 0
    BY <2>7, <2>8, <2>9
  <2>11. EffectOf(<< >>)[g][b] = 0
    BY <1>1, NoLinesMoveNothing DEF Nothing, EmptyRow
  <2>12. CASE qty[i] > 0
    BY <2>1, <2>5, <2>10, <2>12
  <2>13. CASE ~(qty[i] > 0)
    BY <2>1, <2>2, <2>5, <2>11, <2>13
  <2> QED BY <2>12, <2>13
<1>4. f = [i \in 1 .. n |-> f[i]]
  BY <1>1
<1>5. t = [i \in 1 .. n |-> EffectOf(f[i])[g][b]] /\ \A i \in S : t[i] = EffectOf(f[i])[g][b]
  BY <1>1
<1>6. \A i \in S : i \in T <=> lines[i].grain = g
  BY <1>1
<1>7. T \in SUBSET S /\ \A i \in S : q[i] = qty[i] /\ qty[i] \in Nat
  BY <1>1
<1> HIDE DEF f, t, T, q, S
<1>8. IsList(f) /\ Len(f) = n /\ DOMAIN f = S
  <2>1. IsList(f) /\ Len(f) = n
    BY <1>1, <1>4, MappedList
  <2> QED BY <2>1, ListDomain DEF S
<1>9. EffectOf(FlattenSeq(f))[g][b] = SumOver(t, S)
  <2>1. \A i \in DOMAIN f : Typed(f[i])
    BY <1>1, <1>3, <1>8
  <2>2. t = [i \in 1 .. Len(f) |-> EffectOf(f[i])[g][b]]
    BY <1>5, <1>8
  <2> HIDE DEF n
  <2> QED BY <1>1, <1>8, <2>1, <2>2, FlattenedEffect DEF S
<1>10. SumOver(t, S) = SumOver(q, T)
  <2>1. IsFiniteSet(S)
    BY <1>1, FS_Interval DEF S
  <2>2. \A i \in T : q[i] \in Int /\ t[i] = q[i]
    BY <1>1, <1>3, <1>5, <1>6, <1>7
  <2>3. \A i \in S \ T : t[i] = 0
    BY <1>1, <1>3, <1>5, <1>6
  <2> QED BY <1>7, <2>1, <2>2, <2>3, SumPart
<1>11. SumFunctionOnSet(q, T) = SumOver(q, T)
  BY SumFunctionIsSum
<1> QED BY <1>2, <1>9, <1>10, <1>11 DEF q, T

(* When something was received there is a line to post. *)
LEMMA IntakeNotEmpty ==
    ASSUME NEW lines, IsList(lines), NEW qty,
           \A i \in DOMAIN lines : lines[i].grain \in Grains /\ qty[i] \in Nat,
           NEW i \in DOMAIN lines, qty[i] > 0
    PROVE  Len(IntakeLines(lines, qty)) > 0
<1> DEFINE g == lines[i].grain
           T == { k \in DOMAIN lines : lines[k].grain = g }
           q == [k \in DOMAIN lines |-> qty[k]]
           in == IntakeLines(lines, qty)
<1>1. DOMAIN lines = 1 .. Len(lines) /\ Len(lines) \in Nat
  BY ListDomain
<1>2. Typed(in)
  <2>1. \A k \in 1 .. Len(lines) : lines[k].grain \in Grains /\ qty[k] \in Int
    BY <1>1
  <2> QED BY <2>1, IntakeTyped
<1>3. g \in Grains /\ i \in T /\ IsFiniteSet(T) /\ (\A k \in T : q[k] \in Nat) /\ q[i] > 0
  <2>1. IsFiniteSet(DOMAIN lines)
    BY <1>1, FS_Interval
  <2>2. T \in SUBSET DOMAIN lines
    OBVIOUS
  <2>3. IsFiniteSet(T)
    BY <2>1, <2>2, FS_Subset
  <2> QED BY <2>3
<1>4. EffectOf(in)[g]["quarantined"] = SumFunctionOnSet(q, T)
  BY <1>3, IntakeEffect
<1> HIDE DEF T, q
<1>5. SumFunctionOnSet(q, T) = SumOver(q, T) /\ SumOver(q, T) \in Nat /\ q[i] <= SumOver(q, T)
  BY <1>3, SumNat, SumFunctionIsSum
<1> HIDE DEF in, g
<1>6. in # << >>
  <2> SUFFICES ASSUME in = << >> PROVE FALSE
    OBVIOUS
  <2>1. "quarantined" \in Buckets
    BY DEF Buckets
  <2>2. EffectOf(in)[g]["quarantined"] = 0
    BY <1>3, <2>1, NoLinesMoveNothing DEF Nothing, EmptyRow
  <2>3. q[i] \in Nat
    BY <1>3
  <2> QED BY <1>3, <1>4, <1>5, <2>2, <2>3
<1> QED BY <1>2, <1>6, ListDomain DEF Typed, IsList, in

(* Of a disposed line the quantity, whatever becomes of the goods. *)
LEMMA DisposalEffect ==
    ASSUME NEW j, j.lines[j.line].grain \in Grains, j.qty[1] \in Int, j.next \in DOMAIN Outcomes,
           NEW g \in Grains
    PROVE  EffectOf(DisposalLines(j))[g]["quarantined"] = IF j.lines[j.line].grain = g THEN -j.qty[1] ELSE 0
<1> DEFINE q == j.qty[1]
           out == Outcomes[j.next]
           deltas == [b \in Buckets |-> IF b \in out.buckets THEN -q
                                        ELSE IF b = "damaged" /\ out.to = "DAMAGED" THEN q ELSE 0]
           line == [grain |-> j.lines[j.line].grain, type |-> out.type, qty |-> q, allowNegative |-> FALSE,
                    deltas |-> deltas]
           one == << line >>
           part == LineTerms(one, g, "quarantined")
<1>1. DisposalLines(j) = one
  BY DEF DisposalLines
<1>2. "quarantined" \in Buckets /\ "quarantined" \in out.buckets
  <2>1. \A o \in DOMAIN Outcomes : "quarantined" \in Outcomes[o].buckets
    BY DEF Outcomes
  <2> QED BY <2>1 DEF Buckets
<1>3. deltas \in Row /\ deltas["quarantined"] = -q
  <2>1. q \in Int /\ -q \in Int
    OBVIOUS
  <2> HIDE DEF q, out
  <2> QED BY <1>2, <2>1 DEF Row
<1>4. line.grain = j.lines[j.line].grain /\ line.deltas = deltas /\ q \in Int /\ -q \in Int
  OBVIOUS
<1> HIDE DEF line, deltas, q
<1>5. deltas # NoDeltas
  BY <1>3, DocumentsAssumption
<1>6. LineDeltas(line) = deltas /\ PostableLine(line)
  BY <1>3, <1>4, <1>5 DEF LineDeltas, PostableLine
<1>7. Typed(one) /\ Len(one) = 1 /\ one[1] = line
  BY <1>6, ShortTyped
<1> HIDE DEF one
<1>8. EffectOf(one)[g]["quarantined"] = SumOver(part, {1})
  <2>1. 1 .. Len(one) = {1}
    BY <1>7
  <2> QED BY <1>2, <1>7, <2>1, EffectTerms
<1>9. part[1] = IF j.lines[j.line].grain = g THEN -q ELSE 0
  BY <1>3, <1>4, <1>6, <1>7 DEF LineTerms
<1> HIDE DEF part
<1>10. SumOver(part, {1}) = part[1]
  <2>1. part[1] \in Int
    BY <1>4, <1>9
  <2> QED BY <2>1, SumSingleton
<1> QED BY <1>1, <1>8, <1>9, <1>10 DEF q

-----------------------------------------------------------------------------
(* The books: a row holds what it opened with and what has been moved *)

(* What document d has moved on a row, for each document. *)
MovedOn(m, g, b) == [d \in Docs |-> MovedIn(m, d)[g][b]]

(* Rows hold what documents have moved there, and nothing else. *)
BooksInv ==
    \A g \in Grains, b \in Buckets :
        balance[g][b] = (IF b = "onHand" THEN Opening[g] ELSE 0) + SumOver(MovedOn(movements, g, b), Docs)

(* Every posting is in the books and in the journal. *)
LEMMA StockStepKeepsBooks ==
    ASSUME ShapeInv, StockInv, BooksInv, NEW w \in Workers, JobInv(w), StockStep(w)
    PROVE  BooksInv'
<1>1. CASE UNCHANGED stockVars
  BY <1>1 DEF stockVars, BooksInv
<1>2. CASE Posts(w)
  <2> DEFINE d == job[w].doc
             lines == PostedLines(job[w])
             cmd == CommandOf(job[w], lines)
             m == movements
             after == movements'
  <2>1. Typed(lines) /\ d \in Docs /\ cmd.lines = lines
    BY <1>2 DEF Posts, JobInv, PostableJob, AtWork, ShapeInv, Fits, CommandOf
  <2>2. Posted(cmd.lines).ok /\ balance' = Posted(cmd.lines).bal
    BY <1>2 DEF Posts, Post
  <2>3. /\ StockInv' /\ Journal(m) /\ Journal(after) /\ balance \in Balances
        /\ MovedIn(after, d) = Plus(MovedIn(m, d), EffectOf(lines))
        /\ \A e : e # d => MovedIn(after, e) = MovedIn(m, e)
    <3>1. /\ StockInv'
          /\ MovedIn(after, d) = Plus(MovedIn(m, d), EffectOf(lines))
          /\ \A e : e # d => MovedIn(after, e) = MovedIn(m, e)
      BY <1>2, PostsKeepStock
    <3>2. Journal(after)
      BY <3>1 DEF StockInv
    <3> QED BY <3>1, <3>2 DEF StockInv
  <2> HIDE DEF cmd, lines, d
  <2>4. Posted(lines).ok /\ balance' = Posted(lines).bal
    BY <2>1, <2>2
  <2>5. ASSUME NEW g \in Grains, NEW b \in Buckets
        PROVE  balance'[g][b] = (IF b = "onHand" THEN Opening[g] ELSE 0) + SumOver(MovedOn(after, g, b), Docs)
    <3> DEFINE old == MovedOn(m, g, b)
               new == MovedOn(after, g, b)
               part == LineTerms(lines, g, b)
               n == Len(lines)
               e == EffectOf(lines)[g][b]
    <3>1. IsList(lines) /\ n \in Nat /\ DOMAIN lines = 1 .. n /\ \A k \in 1 .. n : PostableLine(lines[k])
      BY <2>1, ListDomain DEF Typed
    <3>2. EffectOn(lines, g, b) = part
      BY <3>1 DEF EffectOn, LineTerms
    <3>3. balance'[g][b] = balance[g][b] + e
      <4>1. Posted(lines).bal[g][b] = balance[g][b] + SumOver(EffectOn(lines, g, b), 1 .. n)
        BY <2>3, <2>4, <3>1, PostedMoves
      <4>2. e = SumOver(part, 1 .. n)
        BY <2>1, EffectTerms
      <4> HIDE DEF part, e, n
      <4> QED BY <2>4, <3>2, <4>1, <4>2
    <3>4. balance[g][b] = (IF b = "onHand" THEN Opening[g] ELSE 0) + SumOver(old, Docs)
      BY DEF BooksInv
    <3>5. \A x \in Docs : old[x] \in Int /\ new[x] \in Int
      <4>1. ASSUME NEW x \in Docs PROVE old[x] \in Int /\ new[x] \in Int
        BY <2>3, MovedTerms DEF MovedOn
      <4> QED BY <4>1
    <3>6. \A x \in Docs \ {d} : old[x] = new[x]
      BY <2>3 DEF MovedOn
    <3>7. new[d] = old[d] + e
      <4> DEFINE p == MovedIn(m, d)
                 q == EffectOf(lines)
      <4>1. p \in Balances /\ q \in Balances
        BY <2>1, <2>3, MovedAreBalances, EffectIsBalances
      <4>2. new[d] = Plus(p, q)[g][b] /\ old[d] = p[g][b] /\ e = q[g][b]
        BY <2>1, <2>3 DEF MovedOn
      <4> HIDE DEF p, q, new, old, e
      <4>3. Plus(p, q)[g][b] = p[g][b] + q[g][b]
        BY <4>1, PlusNothing
      <4> QED BY <4>2, <4>3
    <3>8. e \in Int /\ Opening[g] \in Int
      BY <2>1, EffectTerms, StockAssumption
    <3>9. IsFiniteSet(Docs) /\ d \in Docs
      BY <2>1, DocumentsAssumption
    <3> HIDE DEF old, new, e, m, after
    <3>10. SumOver(new, Docs) = SumOver(old, Docs) - old[d] + new[d]
      BY <3>5, <3>6, <3>9, SumChange
    <3>11. SumOver(old, Docs) \in Int
      BY <3>5, <3>9, SumInt
    <3>12. old[d] \in Int
      BY <3>5, <3>9
    <3> QED BY <3>3, <3>4, <3>7, <3>8, <3>10, <3>11, <3>12 DEF new
  <2> QED BY <2>5 DEF BooksInv
<1> QED BY <1>1, <1>2 DEF StockStep

(* Before anything moves rows hold what they open with. *)
LEMMA BooksInitially ==
    ASSUME WarehouseInit
    PROVE  BooksInv
<1>1. Journal(movements) /\ ShapeInv /\ \A d : ~StockMovedFor(d)
  BY ShapeInitially, StockInitially DEF WarehouseInit, StockMovedFor, StockInv
<1>2. ASSUME NEW g \in Grains, NEW b \in Buckets
      PROVE  balance[g][b] = (IF b = "onHand" THEN Opening[g] ELSE 0) + SumOver(MovedOn(movements, g, b), Docs)
  <2> DEFINE f == MovedOn(movements, g, b)
             n == Opening[g]
  <2>1. balance[g] = [EmptyRow EXCEPT !["onHand"] = n] /\ n \in Int
    BY StockAssumption DEF WarehouseInit
  <2> HIDE DEF n
  <2>2. balance[g][b] = IF b = "onHand" THEN n ELSE 0
    BY <2>1 DEF EmptyRow
  <2>3. \A d \in Docs : f[d] = 0
    BY <1>1, NothingMoved DEF MovedOn, Nothing, EmptyRow
  <2> HIDE DEF f
  <2>4. SumOver(f, Docs) = 0
    BY <2>3, SumZero, DocumentsAssumption
  <2> QED BY <2>1, <2>2, <2>4 DEF f, n
<1> QED BY <1>2 DEF BooksInv

(* Steps for documents that are no tasks move nothing for a task. *)
LEMMA TasksElsewhere ==
    ASSUME ShapeInv, TasksMoveNothing, NEW D, LedgerStep(D), D \cap Tasks = {}
    PROVE  TasksMoveNothing'
<1>1. ASSUME NEW k \in Tasks PROVE ~StockMovedFor(k)'
  <2>1. k \notin D
    OBVIOUS
  <2> QED BY <2>1, LedgerStepMoves DEF TasksMoveNothing
<1> QED BY <1>1 DEF TasksMoveNothing, Tasks

(* Nor do those of counts, which move for the count. *)
LEMMA CountActionMovesNothing ==
    ASSUME ShapeInv, CountsShape, TasksMoveNothing, NEW w \in Workers, CountAction(w)
    PROVE  TasksMoveNothing'
<1>1. ASSUME UNCHANGED movements PROVE TasksMoveNothing'
  BY <1>1 DEF TasksMoveNothing, StockMovedFor, Tasks
<1>2. ASSUME NEW c \in Counts, CreateCount(w, c) PROVE UNCHANGED movements
  BY <1>2 DEF CreateCount, stockVars
<1>3. ASSUME NEW c \in Counts, NEW op, LoadCount(w, op, c) PROVE UNCHANGED movements
  BY <1>3 DEF LoadCount, Start, Begin, stockVars
<1>4. ASSUME \/ \E k \in Tasks : CreateTask(w, k) \/ \E op \in DOMAIN TaskFrom : LoadTask(w, op, k)
             \/ TaskStep(w)
      PROVE  UNCHANGED movements
  BY <1>4, TasksSay DEF TaskSays
<1>5. ASSUME CountStep(w), ~CloseCount(w) PROVE UNCHANGED movements
  BY <1>5 DEF CountStep, EnterCounts, AdvanceCount, PostCount, Advance, Enter, Reply, stockVars
<1>6. ASSUME CloseCount(w) PROVE TasksMoveNothing'
  <2> DEFINE c == job[w].doc
             D == {c}
             lines == AdjustmentLines(job[w].lines)
             cmd == CommandOf(job[w], lines)
  <2>1. c \in Counts /\ Post(cmd, c) /\ cmd.lines = lines
    BY <1>6 DEF CloseCount, CommandOf
  <2>2. IsList(lines)
    <3>1. pc[w] # "idle"
      BY <1>6 DEF CloseCount, At
    <3>2. IsList(job[w].lines)
      BY <3>1 DEF ShapeInv, Fits
    <3> QED BY <3>2, LineByLineLists
  <2>3. c \in D /\ D \cap Tasks = {}
    BY <2>1 DEF Counts, Tasks
  <2> HIDE DEF c, D, lines, cmd
  <2>4. LedgerStep(D)
    BY <2>1, <2>2, <2>3, PostSteps
  <2> QED BY <2>3, <2>4, TasksElsewhere
<1>7. ASSUME Fail(w) PROVE UNCHANGED movements
  BY <1>7 DEF Fail, stockVars
<1> QED BY <1>1, <1>2, <1>3, <1>4, <1>5, <1>6, <1>7 DEF CountAction

-----------------------------------------------------------------------------
(* Returns *)

(* What the one request to receive a return says of each line. *)
TheQty(r) == CHOOSE qty : Overrides[r] = {qty}

(* The ledger has the goods of return r. *)
Taken(r) == Keyed(TheKey(r, "intake"))

TakenOn(r, g) ==
    SumFunctionOnSet([i \in DOMAIN Lines(r) |-> TheQty(r)[i]],
                     { i \in DOMAIN Lines(r) : Lines(r)[i].grain = g })

Quarantined(r, g) == MovedIn(movements, r)[g]["quarantined"]

(* Requests to receive a return come with one key, which no other request    *)
(* has, and with the same quantities.                                        *)
TakenOnce(r) ==
    /\ OneKey(r, "intake")
    /\ \E qty : Overrides[r] = {qty}
    /\ \A d \in Docs, op \in PostingOps :
          d # r \/ op # "intake" => TheKey(r, "intake") \notin KeysOf[d][op]

(* What the handler of worker w may count on while it is at return r: receipt *)
(* and cancellation are alone with it, and a disposition that holds the lock *)
(* takes no more than is left.                                               *)
ReturnRequest(w, r) ==
    /\ Handles(w, r, "intake") \/ Handles(w, r, "cancel") =>
          /\ r \notin receivedAt /\ status[r] = "DRAFT"
          /\ \A v \in Workers \ {w} : job[v].doc # r
    /\ Handles(w, r, "intake") =>
          /\ job[w].lines = Lines(r) /\ job[w].qty = TheQty(r) /\ job[w].key = TheKey(r, "intake")
          /\ \E i \in DOMAIN Lines(r) : TheQty(r)[i] > 0
          /\ pc[w] \in {"posted", "recording"} => Taken(r)
    /\ Handles(w, r, "dispose") =>
          /\ r \in receivedAt
          /\ job[w].lines = Lines(r) /\ job[w].line \in DOMAIN Lines(r)
          /\ job[w].qty[1] \in Nat /\ job[w].next \in DOMAIN Outcomes
          /\ pc[w] = "posting" =>
                /\ job[w].qty[1] <= LeftOf(r, job[w].line)
                /\ \A v \in Workers \ {w} : ~(pc[v] = "posting" /\ job[v].doc = r)

(* No more is disposed of than was received. *)
Numbers(r) ==
    /\ DOMAIN disposedQty[r] = DOMAIN Lines(r)
    /\ \A i \in DOMAIN Lines(r) : receivedQty[r][i] \in Nat /\ disposedQty[r][i] \in 0 .. receivedQty[r][i]

(* Of a return that is received what is left is what the ledger has in        *)
(* quarantine for it ..                                                      *)
Accounted(r) ==
    r \in receivedAt =>
        /\ status[r] \in {"RECEIVED", "PARTIALLY_DISPOSED", "COMPLETED"}
        /\ status[r] = "COMPLETED" <=> \A i \in DOMAIN Lines(r) : LeftOf(r, i) = 0
        /\ \A g \in Grains : Quarantined(r, g) = LeftOn(r, g)

(* .. and of one that is not, all of it or nothing. *)
Awaited(r) ==
    r \notin receivedAt =>
        /\ status[r] \in {"NONE", "DRAFT", "CANCELLED"}
        /\ \A i \in DOMAIN Lines(r) : receivedQty[r][i] = 0
        /\ \A g \in Grains : Quarantined(r, g) = IF Taken(r) THEN TakenOn(r, g) ELSE 0
        /\ status[r] = "NONE" => ~Taken(r)

ReturnInv(r) == Numbers(r) /\ Accounted(r) /\ Awaited(r) /\ \A w \in Workers : ReturnRequest(w, r)

ReturnsShape == DOMAIN receivedQty = Returns /\ DOMAIN disposedQty = Returns

(* The rows of a return have a place and what is received is a quantity. *)
LEMMA ReturnLines ==
    ASSUME ShapeInv, NEW r \in Returns, TakenOnce(r)
    PROVE  /\ IsList(Lines(r)) /\ DOMAIN Lines(r) = 1 .. Len(Lines(r)) /\ Len(Lines(r)) \in Nat
           /\ Overrides[r] = {TheQty(r)}
           /\ \A i \in DOMAIN Lines(r) : Lines(r)[i].grain \in Grains /\ TheQty(r)[i] \in Nat
<1>1. r \in Docs /\ content[r] \in DOMAIN Versions[r]
  BY DEF Returns, ShapeInv
<1>2. IsList(Lines(r)) /\ DOMAIN Lines(r) = 1 .. Len(Lines(r)) /\ Len(Lines(r)) \in Nat
  BY <1>1, LinesAreLists, ListDomain
<1>3. Overrides[r] = {TheQty(r)}
  BY DEF TakenOnce, TheQty
<1>4. \A i \in DOMAIN Lines(r) : Lines(r)[i].grain \in Grains /\ \A qty \in Overrides[r] : qty[i] \in Nat
  BY <1>1, ReturnsAssumption DEF Lines
<1> QED BY <1>2, <1>3, <1>4

(* A step that posts nothing for a return leaves its goods where they are. *)
LEMMA QuarantineStays ==
    ASSUME ShapeInv, StockInv, NEW w \in Workers, JobInv(w), StockStep(w), NEW D, Step(w, D),
           NEW r \in Returns, TakenOnce(r), r # job[w].doc \/ UNCHANGED stockVars
    PROVE  (\A g \in Grains : Quarantined(r, g)' = Quarantined(r, g)) /\ (Taken(r)' <=> Taken(r))
<1>1. r \in Docs
  BY DEF Returns
<1>2. StockStays(r)
  BY <1>1, StockStaysSame
<1>3. Taken(r)' <=> Taken(r)
  <2> DEFINE key == TheKey(r, "intake")
  <2>1. CASE UNCHANGED stockVars
    BY <2>1 DEF stockVars, Taken, Keyed, TheKey
  <2>2. CASE r # job[w].doc
    <3>1. ASSUME Keyed(key)', ~Keyed(key) PROVE FALSE
      <4>1. Posts(w) /\ key # NoKey /\ key = job[w].key
        BY <3>1, StockMoves
      <4>2. job[w].op \in PostingOps /\ job[w].key \in KeysOf[job[w].doc][job[w].op] \cup {NoKey}
        BY <4>1 DEF Posts, JobInv, PostableJob
      <4>3. job[w].doc \in Docs
        BY <4>1 DEF Posts, AtWork, ShapeInv, Fits
      <4> QED BY <2>2, <4>1, <4>2, <4>3 DEF TakenOnce
    <3>2. Keyed(key)' <=> Keyed(key)
      BY <1>2, <3>1 DEF StockStays
    <3> QED BY <3>2 DEF Taken, TheKey
  <2> QED BY <2>1, <2>2
<1> QED BY <1>2, <1>3 DEF StockStays, Quarantined

(* Another worker's request may still count on what it counted on. *)
LEMMA OtherReturnRequest ==
    ASSUME ShapeInv, NEW r \in Returns, NEW w \in Workers, NEW D, Step(w, D),
           NEW v \in Workers \ {w}, ReturnRequest(v, r), content'[r] = content[r],
           Handles(v, r, "intake") \/ Handles(v, r, "cancel") =>
               r \notin receivedAt' /\ status'[r] = status[r] /\ job'[w].doc # r,
           Handles(v, r, "intake") /\ Taken(r) => Taken(r)',
           Handles(v, r, "dispose") => r \in receivedAt',
           Handles(v, r, "dispose") /\ pc[v] = "posting" =>
               /\ receivedQty'[r] = receivedQty[r] /\ disposedQty'[r] = disposedQty[r]
               /\ ~(pc'[w] = "posting" /\ job'[w].doc = r)
    PROVE  ReturnRequest(v, r)'
<1>1. pc'[v] = pc[v] /\ job'[v] = job[v] /\ \A u \in Workers \ {w} : pc'[u] = pc[u] /\ job'[u] = job[u]
  BY DEF Step, WorkerStep
<1>2. \A op : Handles(v, r, op)' <=> Handles(v, r, op)
  BY <1>1 DEF Handles, AtWork
<1>3. Lines(r)' = Lines(r)
  BY DEF Lines
<1>4. ASSUME Handles(v, r, "intake") \/ Handles(v, r, "cancel")
      PROVE  /\ r \notin receivedAt' /\ status'[r] = "DRAFT"
             /\ \A u \in Workers \ {v} : job'[u].doc # r
  <2>1. status[r] = "DRAFT" /\ \A u \in Workers \ {v} : job[u].doc # r
    BY <1>4 DEF ReturnRequest
  <2> QED BY <1>1, <1>4, <2>1
<1>5. ASSUME Handles(v, r, "intake")
      PROVE  /\ job'[v].lines = Lines(r)' /\ job'[v].qty = TheQty(r) /\ job'[v].key = TheKey(r, "intake")
             /\ \E i \in DOMAIN Lines(r)' : TheQty(r)[i] > 0
             /\ pc'[v] \in {"posted", "recording"} => Taken(r)'
  BY <1>1, <1>3, <1>5 DEF ReturnRequest
<1>6. ASSUME Handles(v, r, "dispose")
      PROVE  /\ r \in receivedAt'
             /\ job'[v].lines = Lines(r)' /\ job'[v].line \in DOMAIN Lines(r)'
             /\ job'[v].qty[1] \in Nat /\ job'[v].next \in DOMAIN Outcomes
             /\ pc'[v] = "posting" =>
                   /\ job'[v].qty[1] <= LeftOf(r, job[v].line)'
                   /\ \A u \in Workers \ {v} : ~(pc'[u] = "posting" /\ job'[u].doc = r)
  <2>1. /\ job[v].lines = Lines(r) /\ job[v].line \in DOMAIN Lines(r)
        /\ job[v].qty[1] \in Nat /\ job[v].next \in DOMAIN Outcomes
    BY <1>6 DEF ReturnRequest
  <2>2. ASSUME pc[v] = "posting"
        PROVE  /\ job[v].qty[1] <= LeftOf(r, job[v].line)'
               /\ \A u \in Workers \ {v} : ~(pc'[u] = "posting" /\ job'[u].doc = r)
    <3>1. LeftOf(r, job[v].line)' = LeftOf(r, job[v].line)
      BY <1>1, <1>6, <2>2 DEF LeftOf
    <3>2. /\ job[v].qty[1] <= LeftOf(r, job[v].line)
          /\ \A u \in Workers \ {v} : ~(pc[u] = "posting" /\ job[u].doc = r)
      BY <1>6, <2>2 DEF ReturnRequest
    <3> QED BY <1>1, <1>6, <2>2, <3>1, <3>2
  <2> QED BY <1>1, <1>3, <1>6, <2>1, <2>2
<1>7. job[v].line = job'[v].line
  BY <1>1
<1> QED BY <1>1, <1>2, <1>4, <1>5, <1>6, <1>7 DEF ReturnRequest, TheQty, TheKey

(* A step that leaves a return as it is. *)
LEMMA ReturnStill ==
    ASSUME ShapeInv, NEW r \in Returns, ReturnInv(r), NEW w \in Workers, NEW D, Step(w, D),
           status'[r] = status[r], content'[r] = content[r], r \in receivedAt' <=> r \in receivedAt,
           receivedQty'[r] = receivedQty[r], disposedQty'[r] = disposedQty[r],
           \A g \in Grains : Quarantined(r, g)' = Quarantined(r, g), Taken(r)' <=> Taken(r),
           \A v \in Workers \ {w} : Handles(v, r, "intake") \/ Handles(v, r, "cancel") => job'[w].doc # r,
           pc'[w] = "posting" /\ job'[w].doc = r => \A v \in Workers \ {w} : pc[v] # "posting",
           ReturnRequest(w, r)'
    PROVE  ReturnInv(r)'
<1>1. Lines(r)' = Lines(r) /\ \A i : LeftOf(r, i)' = LeftOf(r, i)
  BY DEF Lines, LeftOf
<1>2. \A g \in Grains : TakenOn(r, g)' = TakenOn(r, g) /\ LeftOn(r, g)' = LeftOn(r, g)
  <2>1. \A g : TakenOn(r, g)' = TakenOn(r, g)
    BY <1>1 DEF TakenOn, TheQty
  <2>2. \A g : LeftOn(r, g)' = LeftOn(r, g)
    BY <1>1 DEF LeftOn
  <2> QED BY <2>1, <2>2
<1>3. Numbers(r) /\ Accounted(r) /\ Awaited(r) /\ \A v \in Workers : ReturnRequest(v, r)
  BY DEF ReturnInv
<1>4. Numbers(r)'
  BY <1>1, <1>3 DEF Numbers
<1>5. Accounted(r)'
  BY <1>1, <1>2, <1>3 DEF Accounted
<1>6. Awaited(r)'
  BY <1>1, <1>2, <1>3 DEF Awaited
<1>7. ASSUME NEW v \in Workers PROVE ReturnRequest(v, r)'
  <2>1. CASE v = w
    BY <2>1
  <2>2. CASE v # w
    <3>1. v \in Workers \ {w} /\ ReturnRequest(v, r)
      BY <1>3, <2>2
    <3>2. Handles(v, r, "intake") \/ Handles(v, r, "cancel") =>
               r \notin receivedAt' /\ status'[r] = status[r] /\ job'[w].doc # r
      BY <3>1 DEF ReturnRequest
    <3>3. Handles(v, r, "dispose") => r \in receivedAt'
      BY <3>1 DEF ReturnRequest
    <3>4. Handles(v, r, "dispose") /\ pc[v] = "posting" => ~(pc'[w] = "posting" /\ job'[w].doc = r)
      BY <3>1
    <3> QED BY <3>1, <3>2, <3>3, <3>4, OtherReturnRequest
  <2> QED BY <2>1, <2>2
<1> QED BY <1>4, <1>5, <1>6, <1>7 DEF ReturnInv

(* Nobody else's step touches a return. *)
LEMMA ReturnElsewhere ==
    ASSUME ShapeInv, StockInv, NEW w \in Workers, JobInv(w), StockStep(w), NEW D, Step(w, D),
           NEW r \in Returns, r \notin D, TakenOnce(r), ReturnInv(r),
           r \in receivedAt' <=> r \in receivedAt,
           receivedQty'[r] = receivedQty[r], disposedQty'[r] = disposedQty[r]
    PROVE  ReturnInv(r)'
<1>1. r \in Docs /\ r # NoDoc
  BY DocumentsAssumption DEF Returns
<1>2. job[w].doc # r /\ job'[w].doc # r
  <2>1. pc[w] = "idle" => job[w].doc = NoDoc
    BY DEF ShapeInv, Idle
  <2>2. pc'[w] = "idle" => job'[w].doc = NoDoc
    BY DEF Step, WorkerStep, Idle
  <2> QED BY <1>1, <2>1, <2>2 DEF Step, WorkerStep
<1>3. status'[r] = status[r] /\ content'[r] = content[r]
  BY <1>1 DEF Step, StatusStep, ContentStep
<1>4. (\A g \in Grains : Quarantined(r, g)' = Quarantined(r, g)) /\ (Taken(r)' <=> Taken(r))
  BY <1>2, QuarantineStays
<1>5. ReturnRequest(w, r)'
  BY <1>2 DEF ReturnRequest, Handles
<1> QED BY <1>2, <1>3, <1>4, <1>5, ReturnStill

(* Who receives or cancels a return is alone with it. *)
ReturnsAlone == MayOverlap["return"] \cap {"intake", "cancel"} = {}

(* A return for which a request is taken up. *)
LEMMA ReturnLoaded ==
    ASSUME ShapeInv, StockInv, NEW r \in Returns, ReturnsAlone, TakenOnce(r), ReturnInv(r),
           NEW w \in Workers, JobInv(w), NEW D, Step(w, D),
           NEW op \in {"intake", "cancel", "dispose"}, NEW j, j.op = op, j.doc = r, Start(w, j),
           UNCHANGED returnVars, j.lines = Lines(r),
           op \in {"intake", "cancel"} => r \notin receivedAt /\ status[r] = "DRAFT",
           op = "intake" => /\ j.qty = TheQty(r) /\ j.key = TheKey(r, "intake")
                            /\ \E i \in DOMAIN Lines(r) : TheQty(r)[i] > 0,
           op = "dispose" => /\ r \in receivedAt /\ j.line \in DOMAIN Lines(r)
                             /\ j.qty[1] \in Nat /\ j.next \in DOMAIN Outcomes
    PROVE  ReturnInv(r)'
<1>1. DOMAIN pc = Workers /\ DOMAIN job = Workers /\ KindOf[r] = "return"
  BY DEF ShapeInv, Returns
<1>2. /\ pc[w] = "idle" /\ pc'[w] = "loaded" /\ job'[w] = j
      /\ MayStart(w, j) /\ UNCHANGED << stockVars, status, content >>
  BY <1>1 DEF Start, Begin
<1>3. \A v \in Workers \ {w} : job'[v] = job[v] /\ pc'[v] = pc[v]
  BY DEF Step, WorkerStep
<1>4. ASSUME NEW v \in Workers \ {w}, job[v].doc = r
      PROVE  op \notin {"intake", "cancel"} /\ job[v].op \notin {"intake", "cancel"}
  BY <1>1, <1>2, <1>4 DEF MayStart, ReturnsAlone
<1>5. (\A g \in Grains : Quarantined(r, g)' = Quarantined(r, g)) /\ (Taken(r)' <=> Taken(r))
  <2>1. StockStep(w) /\ UNCHANGED stockVars
    BY <1>2 DEF StockStep
  <2> QED BY <2>1, QuarantineStays
<1>6. ReturnRequest(w, r)'
  <2>1. Lines(r)' = Lines(r) /\ status'[r] = status[r] /\ UNCHANGED receivedAt
    BY <1>2 DEF Lines, returnVars
  <2>2. \A o : Handles(w, r, o)' <=> op = o
    BY <1>2 DEF Handles, AtWork
  <2>3. op \in {"intake", "cancel"} => \A v \in Workers \ {w} : job'[v].doc # r
    BY <1>3, <1>4
  <2> QED BY <1>2, <2>1, <2>2, <2>3 DEF ReturnRequest, TheQty, TheKey
<1>7. \A v \in Workers \ {w} : ~(Handles(v, r, "intake") \/ Handles(v, r, "cancel"))
  BY <1>4 DEF Handles, ReturnInv, ReturnRequest
<1>8. UNCHANGED << receivedAt, receivedQty, disposedQty >> /\ status'[r] = status[r] /\ content'[r] = content[r]
  BY <1>2 DEF returnVars
<1> QED BY <1>2, <1>5, <1>6, <1>7, <1>8, ReturnStill

(* A request that ends without having changed the return, or gets further. *)
LEMMA ReturnQuiet ==
    ASSUME ShapeInv, StockInv, NEW r \in Returns, TakenOnce(r), ReturnInv(r),
           NEW w \in Workers, JobInv(w), NEW D, Step(w, D), job[w].doc = r,
           UNCHANGED << stockVars, returnVars >>, status'[r] = status[r], content'[r] = content[r],
           \/ Ends(w)
           \/ /\ GoesOn(w)
              /\ pc'[w] \in {"posted", "recording"} /\ Handles(w, r, "intake") => Taken(r)
              /\ pc'[w] = "posting" =>
                    /\ Handles(w, r, "dispose") => job[w].qty[1] <= LeftOf(r, job[w].line)
                    /\ \A v \in Workers \ {w} : pc[v] # "posting"
    PROVE  ReturnInv(r)'
<1>1. UNCHANGED << receivedAt, receivedQty, disposedQty >> /\ Lines(r)' = Lines(r)
      /\ \A i : LeftOf(r, i)' = LeftOf(r, i)
  BY DEF returnVars, Lines, LeftOf
<1>2. (\A g \in Grains : Quarantined(r, g)' = Quarantined(r, g)) /\ (Taken(r)' <=> Taken(r))
  <2>1. StockStep(w) /\ UNCHANGED stockVars
    BY DEF StockStep
  <2> QED BY <2>1, QuarantineStays
<1>3. \A v \in Workers \ {w} : pc'[v] = pc[v] /\ job'[v] = job[v]
  BY DEF Step, WorkerStep
<1>4. ASSUME NEW v \in Workers \ {w} PROVE ~(Handles(v, r, "intake") \/ Handles(v, r, "cancel"))
  <2>1. ReturnRequest(v, r) /\ w \in Workers \ {v}
    BY DEF ReturnInv
  <2> QED BY <2>1 DEF ReturnRequest
<1>5. pc'[w] = "posting" => \A v \in Workers \ {w} : pc[v] # "posting"
  BY DEF Ends
<1>6. ReturnRequest(w, r)'
  <2>1. CASE Ends(w)
    BY <2>1 DEF Ends, ReturnRequest, Handles, AtWork
  <2>2. CASE ~Ends(w)
    <3>1. ReturnRequest(w, r)
      BY DEF ReturnInv
    <3>2. job'[w] = job[w] /\ AtWork(w) /\ \A op : Handles(w, r, op)' => Handles(w, r, op)
      BY <2>2 DEF GoesOn, Handles
    <3>3. ASSUME Handles(w, r, "intake") \/ Handles(w, r, "cancel")
          PROVE  /\ r \notin receivedAt' /\ status'[r] = "DRAFT"
                 /\ \A v \in Workers \ {w} : job'[v].doc # r
      BY <1>1, <1>3, <3>1, <3>3 DEF ReturnRequest
    <3>4. ASSUME Handles(w, r, "intake")
          PROVE  /\ job'[w].lines = Lines(r)' /\ job'[w].qty = TheQty(r) /\ job'[w].key = TheKey(r, "intake")
                 /\ \E i \in DOMAIN Lines(r)' : TheQty(r)[i] > 0
                 /\ pc'[w] \in {"posted", "recording"} => Taken(r)'
      BY <1>1, <1>2, <2>2, <3>1, <3>2, <3>4 DEF ReturnRequest
    <3>5. ASSUME Handles(w, r, "dispose")
          PROVE  /\ r \in receivedAt'
                 /\ job'[w].lines = Lines(r)' /\ job'[w].line \in DOMAIN Lines(r)'
                 /\ job'[w].qty[1] \in Nat /\ job'[w].next \in DOMAIN Outcomes
                 /\ pc'[w] = "posting" =>
                       /\ job'[w].qty[1] <= LeftOf(r, job[w].line)'
                       /\ \A v \in Workers \ {w} : ~(pc'[v] = "posting" /\ job'[v].doc = r)
      BY <1>1, <1>3, <1>5, <2>2, <3>1, <3>2, <3>5 DEF ReturnRequest
    <3>6. job'[w].line = job[w].line
      BY <3>2
    <3> QED BY <3>2, <3>3, <3>4, <3>5, <3>6 DEF ReturnRequest, TheQty, TheKey
  <2> QED BY <2>1, <2>2
<1> QED BY <1>1, <1>2, <1>4, <1>5, <1>6, ReturnStill

(* The ledger takes the goods in, answers that it has them, or refuses. *)
LEMMA ReturnTaken ==
    ASSUME ShapeInv, StockInv, NEW r \in Returns, TakenOnce(r), ReturnInv(r),
           NEW w \in Workers, JobInv(w), NEW D, Step(w, D), job[w].doc = r, PostIntake(w)
    PROVE  ReturnInv(r)'
<1> DEFINE lines == Lines(r)
           qty == TheQty(r)
           key == TheKey(r, "intake")
           in == IntakeLines(job[w].lines, job[w].qty)
           cmd == CommandOf(job[w], in)
<1>1. /\ pc[w] = "loaded" /\ job[w].op = "intake" /\ Take(w, in) /\ UNCHANGED returnVars
      /\ AtWork(w) /\ Handles(w, r, "intake")
  BY DEF PostIntake, At, AtWork, Handles
<1>2. /\ r \notin receivedAt /\ status[r] = "DRAFT" /\ \A v \in Workers \ {w} : job[v].doc # r
      /\ job[w].lines = lines /\ job[w].qty = qty /\ job[w].key = key
      /\ \E i \in DOMAIN lines : qty[i] > 0
  BY <1>1 DEF ReturnInv, ReturnRequest
<1>3. /\ IsList(lines) /\ \A i \in DOMAIN lines : lines[i].grain \in Grains /\ qty[i] \in Nat
      /\ key # NoKey
  BY ReturnLines, OneKeyOnly DEF TakenOnce
<1>4. in = PostedLines(job[w]) /\ Typed(in) /\ Len(in) > 0 /\ cmd.key = key /\ cmd.lines = in
  <2>1. in = PostedLines(job[w])
    BY <1>1 DEF PostedLines
  <2>2. Typed(in)
    BY <1>1, <2>1 DEF JobInv, PostableJob, PostingOps
  <2>3. in = IntakeLines(lines, qty)
    BY <1>2
  <2> HIDE DEF in, lines, qty, key
  <2>4. Len(in) > 0
    BY <1>2, <1>3, <2>3, IntakeNotEmpty
  <2> QED BY <1>2, <2>1, <2>2, <2>4 DEF CommandOf
<1>5. Answered(cmd) <=> Taken(r)
  BY <1>4 DEF Answered, Taken, Keyed
<1>6. status'[r] = status[r] /\ content'[r] = content[r]
  BY <1>1 DEF Take, Refuse, Reply
<1>7. CASE Answered(cmd)
  <2>1. Goto(w, "posted") /\ UNCHANGED stockVars
    BY <1>1, <1>7 DEF Take
  <2>2. pc'[w] = "posted" /\ GoesOn(w)
    BY <1>1, <2>1, EndsOrGoesOn DEF GoesOn
  <2> QED BY <1>1, <1>5, <1>6, <1>7, <2>1, <2>2, ReturnQuiet
<1>8. CASE Refuse(w)
  <2>1. UNCHANGED stockVars /\ Ends(w)
    BY <1>1, <1>8, LooksWork
  <2> QED BY <1>1, <1>6, <2>1, ReturnQuiet
<1>9. ASSUME ~Answered(cmd), Post(cmd, job[w].doc), Goto(w, "posted") PROVE ReturnInv(r)'
  <2>1. Posts(w)
    BY <1>1, <1>4, <1>9 DEF Posts, PostingOps
  <2>2. /\ Appended(movements, movements', cmd, r)
        /\ MovedIn(movements', r) = Plus(MovedIn(movements, r), EffectOf(in))
    BY <1>4, <2>1, PostsKeepStock
  <2>3. Taken(r)'
    <3>1. DOMAIN movements = 1 .. Len(movements)
      BY ListDomain DEF ShapeInv
    <3> DEFINE m == movements
               after == movements'
    <3>2. DOMAIN m = 1 .. Len(m) /\ Appended(m, after, cmd, r) /\ key # NoKey /\ cmd.key = key /\ Len(cmd.lines) > 0
      BY <1>3, <1>4, <2>2, <3>1
    <3> HIDE DEF m, after, cmd, key
    <3>3. KeyedBy(after, key) # {}
      BY <3>2, PostKeys
    <3> QED BY <3>3 DEF Taken, Keyed, after, key, TheKey
  <2>4. ASSUME NEW g \in Grains PROVE Quarantined(r, g)' = TakenOn(r, g)
    <3> DEFINE p == MovedIn(movements, r)
               q == EffectOf(in)
    <3>1. p \in Balances /\ q \in Balances
      BY <1>4, MovedAreBalances, EffectIsBalances DEF StockInv
    <3>2. "quarantined" \in Buckets
      BY DEF Buckets
    <3>3. Plus(p, q)[g]["quarantined"] = p[g]["quarantined"] + q[g]["quarantined"]
      <4> HIDE DEF p, q
      <4> QED BY <3>1, <3>2, PlusNothing
    <3>4. p[g]["quarantined"] = 0
      BY <1>2, <1>5, <1>9 DEF ReturnInv, Awaited, Quarantined
    <3>5. q[g]["quarantined"] = TakenOn(r, g)
      <4>1. in = IntakeLines(lines, qty)
        BY <1>2
      <4>2. EffectOf(IntakeLines(lines, qty))[g]["quarantined"] =
               SumFunctionOnSet([i \in DOMAIN lines |-> qty[i]], { i \in DOMAIN lines : lines[i].grain = g })
        <5> HIDE DEF lines, qty
        <5> QED BY <1>3, IntakeEffect
      <4> QED BY <4>1, <4>2 DEF TakenOn
    <3>6. q[g]["quarantined"] \in Int
      <4> HIDE DEF q
      <4> QED BY <3>1, <3>2 DEF Balances, Row
    <3>7. Quarantined(r, g)' = Plus(p, q)[g]["quarantined"]
      BY <2>2 DEF Quarantined
    <3> HIDE DEF p, q
    <3> QED BY <3>3, <3>4, <3>5, <3>6, <3>7
  <2>5. UNCHANGED << receivedAt, receivedQty, disposedQty >> /\ Lines(r)' = Lines(r)
    BY <1>1, <1>6 DEF returnVars, Lines
  <2>6. pc'[w] = "posted" /\ job' = job /\ \A v \in Workers \ {w} : pc'[v] = pc[v]
    BY <1>9, EndsOrGoesOn DEF Step, WorkerStep
  <2>7. Numbers(r)' /\ Accounted(r)'
    BY <1>2, <2>5 DEF ReturnInv, Numbers, Accounted
  <2>8. Awaited(r)'
    <3>1. \A g : TakenOn(r, g)' = TakenOn(r, g)
      BY <2>5 DEF TakenOn, TheQty
    <3> QED BY <1>2, <1>6, <2>3, <2>4, <2>5, <3>1 DEF ReturnInv, Awaited
  <2>9. ASSUME NEW v \in Workers PROVE ReturnRequest(v, r)'
    <3>1. CASE v # w
      <4>1. job'[v].doc # r
        BY <1>2, <2>6, <3>1
      <4> QED BY <4>1 DEF ReturnRequest, Handles
    <3>2. CASE v = w
      <4>1. \A op : Handles(w, r, op)' <=> op = "intake"
        BY <1>1, <2>6 DEF Handles, AtWork
      <4>2. /\ r \notin receivedAt' /\ status'[r] = "DRAFT"
            /\ \A u \in Workers \ {w} : job'[u].doc # r
        BY <1>2, <1>6, <2>5, <2>6
      <4>3. /\ job'[w].lines = Lines(r)' /\ job'[w].qty = TheQty(r)' /\ job'[w].key = TheKey(r, "intake")'
            /\ \E i \in DOMAIN Lines(r)' : TheQty(r)'[i] > 0
        BY <1>2, <2>5, <2>6 DEF TheQty, TheKey
      <4> HIDE DEF lines, qty, key, in, cmd
      <4> QED BY <2>3, <3>2, <4>1, <4>2, <4>3 DEF ReturnRequest
    <3> QED BY <3>1, <3>2
  <2> QED BY <2>7, <2>8, <2>9 DEF ReturnInv
<1> QED BY <1>1, <1>7, <1>8, <1>9 DEF Take

(* A disposition that is admitted takes no more than is left; the look at    *)
(* the units and every failure leave the return as it is.                    *)
LEMMA ReturnLooked ==
    ASSUME ShapeInv, StockInv, NEW r \in Returns, TakenOnce(r), ReturnInv(r),
           NEW w \in Workers, JobInv(w), NEW D, Step(w, D), job[w].doc = r,
           \/ LookIntake(w)
           \/ PostDisposal(w)
           \/ Fail(w) /\ UNCHANGED returnVars
    PROVE  ReturnInv(r)'
<1>1. CASE LookIntake(w)
  <2>1. pc[w] = "posted" /\ job[w].op = "intake" /\ AtWork(w) /\ Handles(w, r, "intake") /\ UNCHANGED returnVars
    BY <1>1 DEF LookIntake, At, AtWork, Handles
  <2>2. PICK fit : Look(w, fit)
    BY <1>1 DEF LookIntake
  <2>3. UNCHANGED stockVars /\ (Ends(w) \/ GoesOn(w))
    BY <2>1, <2>2, LooksWork
  <2>4. status'[r] = status[r] /\ content'[r] = content[r] /\ (Goto(w, "recording") \/ Refuse(w))
    BY <2>2 DEF Look, Refuse, Reply
  <2>5. Ends(w) \/ pc'[w] = "recording"
    BY <2>1, <2>4, EndsOrGoesOn, LooksWork
  <2>6. Taken(r)
    BY <2>1 DEF ReturnInv, ReturnRequest
  <2> QED BY <2>1, <2>3, <2>4, <2>5, <2>6, ReturnQuiet
<1>2. CASE PostDisposal(w)
  <2>1. pc[w] = "loaded" /\ job[w].op = "dispose" /\ AtWork(w) /\ UNCHANGED returnVars
    BY <1>2 DEF PostDisposal, At, AtWork
  <2>2. PICK lines, fit : Enter(w, lines, fit) /\ (fit => job[w].qty[1] <= LeftOf(r, job[w].line))
    BY <1>2 DEF PostDisposal
  <2>3. UNCHANGED stockVars /\ (Ends(w) \/ GoesOn(w))
    BY <2>1, <2>2, LooksWork
  <2>4. /\ status'[r] = status[r] /\ content'[r] = content[r] /\ SequenceFree(w)
        /\ (fit /\ Goto(w, "posting")) \/ \E o : Finish(w, o)
    BY <2>2 DEF Enter, Reply
  <2>5. Ends(w) \/ (fit /\ pc'[w] = "posting")
    BY <2>4, EndsOrGoesOn
  <2> QED BY <2>1, <2>2, <2>3, <2>4, <2>5, ReturnQuiet DEF SequenceFree
<1>3. CASE Fail(w) /\ UNCHANGED returnVars
  <2>1. pc'[w] = "idle" /\ UNCHANGED << stockVars, status, content >>
    BY <1>3 DEF Fail, ShapeInv
  <2> QED BY <1>3, <2>1, ReturnQuiet DEF Ends
<1> QED BY <1>1, <1>2, <1>3

(* Requests to receive a return, to cancel it or to dispose of some of it are *)
(* taken up in states that are right for them.                               *)
LEMMA ReturnAsked ==
    ASSUME ShapeInv, StockInv, NEW r \in Returns, ReturnsAlone, TakenOnce(r), ReturnInv(r),
           NEW w \in Workers, JobInv(w), NEW D, Step(w, D),
           \/ LoadIntake(w, r)
           \/ LoadCancel(w, r)
           \/ \E a \in Disposals, key \in KeysOf[r]["dispose"] :
                 LoadDispose(w, r, a.line, a.outcome, a.qty, a.units, key)
    PROVE  ReturnInv(r)'
<1>1. status[r] = "DRAFT" => r \notin receivedAt
  BY DEF ReturnInv, Accounted
<1>2. status[r] \in {"RECEIVED", "PARTIALLY_DISPOSED"} => r \in receivedAt
  BY DEF ReturnInv, Awaited
<1>3. CASE LoadIntake(w, r)
  <2>1. PICK qty \in Overrides[r], key \in KeysOf[r]["intake"] :
           /\ Receivable(Lines(r), qty)
           /\ Start(w, [Job("intake", r) EXCEPT !.key = key, !.qty = qty])
    BY <1>3 DEF LoadIntake
  <2> DEFINE j == [Job("intake", r) EXCEPT !.key = key, !.qty = qty]
  <2>2. r \notin receivedAt /\ status[r] = "DRAFT" /\ UNCHANGED returnVars
    BY <1>3 DEF LoadIntake
  <2>3. j.op = "intake" /\ j.doc = r /\ j.lines = Lines(r) /\ j.qty = qty /\ j.key = key
    BY JobShape DEF JobFields
  <2>4. qty = TheQty(r) /\ key = TheKey(r, "intake")
    <3>1. Overrides[r] = {TheQty(r)}
      BY ReturnLines
    <3>2. KeysOf[r]["intake"] = {TheKey(r, "intake")}
      BY OneKeyOnly DEF TakenOnce
    <3> QED BY <3>1, <3>2
  <2>5. \E i \in DOMAIN Lines(r) : TheQty(r)[i] > 0
    BY <2>1, <2>4 DEF Receivable
  <2>6. Start(w, j)
    BY <2>1
  <2> HIDE DEF j
  <2> QED BY <2>2, <2>3, <2>4, <2>5, <2>6, ReturnLoaded
<1>4. CASE LoadCancel(w, r)
  <2> DEFINE j == Job("cancel", r)
  <2>1. status[r] = "DRAFT" /\ Start(w, j) /\ UNCHANGED returnVars
    BY <1>4 DEF LoadCancel
  <2>2. j.op = "cancel" /\ j.doc = r /\ j.lines = Lines(r)
    BY JobShape
  <2> HIDE DEF j
  <2> QED BY <1>1, <2>1, <2>2, ReturnLoaded
<1>5. ASSUME NEW a \in Disposals, NEW key, LoadDispose(w, r, a.line, a.outcome, a.qty, a.units, key)
      PROVE  ReturnInv(r)'
  <2> DEFINE j == [Job("dispose", r) EXCEPT !.key = key, !.next = a.outcome, !.line = a.line,
                                            !.qty = << a.qty >>, !.units = a.units]
  <2>1. /\ status[r] \in {"RECEIVED", "PARTIALLY_DISPOSED"} /\ a.line \in DOMAIN Lines(r)
        /\ Start(w, j) /\ UNCHANGED returnVars
    BY <1>5 DEF LoadDispose
  <2>2. /\ j.op = "dispose" /\ j.doc = r /\ j.lines = Lines(r) /\ j.line = a.line
        /\ j.qty[1] = a.qty /\ j.next = a.outcome
    BY JobShape DEF JobFields
  <2>3. a.qty \in Nat /\ a.outcome \in DOMAIN Outcomes
    BY StockAssumption
  <2> HIDE DEF j
  <2> QED BY <1>2, <2>1, <2>2, <2>3, ReturnLoaded
<1> QED BY <1>3, <1>4, <1>5

(* Only a return that has not been received is cancelled. *)
LEMMA ReturnCancelled ==
    ASSUME ShapeInv, StockInv, NEW r \in Returns, TakenOnce(r), ReturnInv(r),
           NEW w \in Workers, JobInv(w), NEW D, Step(w, D), job[w].doc = r, CancelReturn(w)
    PROVE  ReturnInv(r)'
<1>1. /\ pc[w] = "loaded" /\ job[w].op = "cancel" /\ Advance(w, "CANCELLED") /\ UNCHANGED returnVars
      /\ AtWork(w) /\ Handles(w, r, "cancel")
  BY DEF CancelReturn, At, AtWork, Handles
<1>2. r \notin receivedAt /\ \A v \in Workers \ {w} : job[v].doc # r
  BY <1>1 DEF ReturnInv, ReturnRequest
<1>3. UNCHANGED stockVars /\ Ends(w)
  BY <1>1, LooksWork
<1>4. status'[r] = "CANCELLED" /\ Lines(r)' = Lines(r) /\ UNCHANGED << receivedAt, receivedQty, disposedQty >>
  BY <1>1 DEF Advance, Write, Lines, returnVars, ShapeInv, Returns
<1>5. (\A g \in Grains : Quarantined(r, g)' = Quarantined(r, g)) /\ (Taken(r)' <=> Taken(r))
  <2>1. StockStep(w)
    BY <1>3 DEF StockStep
  <2> QED BY <1>3, <2>1, QuarantineStays
<1>6. Numbers(r)' /\ Accounted(r)'
  BY <1>2, <1>4 DEF ReturnInv, Numbers, Accounted
<1>7. Awaited(r)'
  <2>1. \A g : TakenOn(r, g)' = TakenOn(r, g)
    BY <1>4 DEF TakenOn, TheQty
  <2> QED BY <1>2, <1>4, <1>5, <2>1 DEF ReturnInv, Awaited
<1>8. ASSUME NEW v \in Workers PROVE ReturnRequest(v, r)'
  <2>1. CASE v = w
    BY <1>3, <2>1 DEF Ends, ReturnRequest, Handles, AtWork
  <2>2. CASE v # w
    <3>1. job'[v].doc # r
      BY <1>2, <2>2 DEF Step, WorkerStep
    <3> QED BY <3>1 DEF ReturnRequest, Handles
  <2> QED BY <2>1, <2>2
<1> QED BY <1>6, <1>7, <1>8 DEF ReturnInv

(* A new return has received nothing and disposed of nothing. *)
LEMMA ReturnCreated ==
    ASSUME ShapeInv, StockInv, ReturnsShape, NEW r \in Returns, TakenOnce(r), ReturnInv(r),
           NEW w \in Workers, JobInv(w), NEW D, Step(w, D), CreateReturn(w, r)
    PROVE  ReturnInv(r)'
<1>1. /\ status[r] = "NONE" /\ status'[r] = "DRAFT"
      /\ UNCHANGED << stockVars, pc, job, receivedAt >>
  BY DEF CreateReturn, Create, workVars, ShapeInv, Returns
<1>2. receivedQty'[r] = NoneOf(Lines(r)') /\ disposedQty'[r] = NoneOf(Lines(r)')
  BY DEF CreateReturn, Lines, ReturnsShape
<1>3. r \notin receivedAt /\ ~Taken(r) /\ \A g \in Grains : Quarantined(r, g) = 0
  BY <1>1 DEF ReturnInv, Accounted, Awaited
<1>4. \A v \in Workers : ~Handles(v, r, "intake") /\ ~Handles(v, r, "cancel") /\ ~Handles(v, r, "dispose")
  BY <1>1, <1>3 DEF ReturnInv, ReturnRequest
<1>5. (\A g \in Grains : Quarantined(r, g)' = Quarantined(r, g)) /\ (Taken(r)' <=> Taken(r))
  <2>1. StockStep(w) /\ UNCHANGED stockVars
    BY <1>1 DEF StockStep
  <2> QED BY <2>1, QuarantineStays
<1>6. Numbers(r)'
  BY <1>2 DEF Numbers, NoneOf
<1>7. Accounted(r)' /\ Awaited(r)'
  <2>1. \A i \in DOMAIN Lines(r)' : receivedQty'[r][i] = 0
    BY <1>2 DEF NoneOf
  <2> QED BY <1>1, <1>3, <1>5, <2>1 DEF Accounted, Awaited
<1>8. \A v \in Workers : ReturnRequest(v, r)'
  BY <1>1, <1>4 DEF ReturnRequest, Handles, AtWork
<1> QED BY <1>6, <1>7, <1>8 DEF ReturnInv

(* The goods that the ledger has taken in are received. *)
LEMMA ReturnRecorded ==
    ASSUME ShapeInv, StockInv, ReturnsShape, NEW r \in Returns, TakenOnce(r), ReturnInv(r),
           NEW w \in Workers, JobInv(w), NEW D, Step(w, D), job[w].doc = r, RecordIntake(w)
    PROVE  ReturnInv(r)'
<1>1. /\ pc[w] = "recording" /\ job[w].op = "intake" /\ AtWork(w) /\ Handles(w, r, "intake")
      /\ receivedAt' = receivedAt \cup {r} /\ Write(w, "RECEIVED") /\ Finish(w, "APPLIED")
      /\ receivedQty' = [receivedQty EXCEPT ![r] = job[w].qty]
      /\ UNCHANGED << stockVars, content, disposedQty >>
  BY DEF RecordIntake, At, AtWork, Handles
<1>2. /\ r \notin receivedAt /\ \A v \in Workers \ {w} : job[v].doc # r
      /\ job[w].qty = TheQty(r) /\ Taken(r) /\ \E i \in DOMAIN Lines(r) : TheQty(r)[i] > 0
  BY <1>1 DEF ReturnInv, ReturnRequest
<1>3. status'[r] = "RECEIVED" /\ Lines(r)' = Lines(r) /\ r \in receivedAt' /\ receivedQty'[r] = TheQty(r)
  BY <1>1, <1>2 DEF Write, Lines, ShapeInv, Returns, ReturnsShape
<1>4. Ends(w)
  BY <1>1, EndsOrGoesOn
<1>5. \A g \in Grains : Quarantined(r, g)' = TakenOn(r, g)
  <2>1. StockStep(w) /\ UNCHANGED stockVars
    BY <1>1 DEF StockStep
  <2>2. \A g \in Grains : Quarantined(r, g)' = Quarantined(r, g)
    BY <2>1, QuarantineStays
  <2> QED BY <1>2, <2>2 DEF ReturnInv, Awaited
<1>6. \A i \in DOMAIN Lines(r) : TheQty(r)[i] \in Nat /\ disposedQty[r][i] = 0
  <2>1. \A i \in DOMAIN Lines(r) : TheQty(r)[i] \in Nat
    BY ReturnLines
  <2>2. \A i \in DOMAIN Lines(r) : receivedQty[r][i] = 0 /\ disposedQty[r][i] \in 0 .. receivedQty[r][i]
    BY <1>2 DEF ReturnInv, Awaited, Numbers
  <2> QED BY <2>1, <2>2
<1>7. \A i \in DOMAIN Lines(r) : LeftOf(r, i)' = TheQty(r)[i]
  BY <1>1, <1>3, <1>6 DEF LeftOf
<1>8. Numbers(r)'
  BY <1>1, <1>3, <1>6 DEF ReturnInv, Numbers
<1>9. Accounted(r)'
  <2>1. \A g : LeftOn(r, g)' = TakenOn(r, g)
    BY <1>3, <1>7 DEF LeftOn, TakenOn
  <2>2. ~\A i \in DOMAIN Lines(r) : LeftOf(r, i)' = 0
    BY <1>2, <1>7
  <2> QED BY <1>3, <1>5, <2>1, <2>2 DEF Accounted
<1>10. Awaited(r)'
  BY <1>3 DEF Awaited
<1>11. ASSUME NEW v \in Workers PROVE ReturnRequest(v, r)'
  <2>1. CASE v = w
    BY <1>4, <2>1 DEF Ends, ReturnRequest, Handles, AtWork
  <2>2. CASE v # w
    <3>1. job'[v].doc # r
      BY <1>2, <2>2 DEF Step, WorkerStep
    <3> QED BY <3>1 DEF ReturnRequest, Handles
  <2> QED BY <2>1, <2>2
<1> QED BY <1>8, <1>9, <1>10, <1>11 DEF ReturnInv

(* Quantities add up to nothing when and only when all are nothing. *)
LEMMA AllOrSome ==
    ASSUME NEW f, NEW S, IsFiniteSet(S), \A x \in S : f[x] \in Nat
    PROVE  SumFunctionOnSet(f, S) <= 0 <=> \A x \in S : f[x] = 0
<1>1. SumFunctionOnSet(f, S) = SumOver(f, S)
  BY SumFunctionIsSum
<1>2. SumOver(f, S) \in Nat /\ \A x \in S : f[x] <= SumOver(f, S)
  BY SumNat
<1>3. (\A x \in S : f[x] = 0) => SumOver(f, S) = 0
  BY SumZero
<1> HIDE DEF SumOver
<1>4. ASSUME SumOver(f, S) <= 0, NEW x \in S PROVE f[x] = 0
  BY <1>2, <1>4
<1> QED BY <1>1, <1>2, <1>3, <1>4

(* What is left of a return's lines on a row when one of them has got less. *)
LEMMA LessLeft ==
    ASSUME NEW S, IsFiniteSet(S), NEW e, NEW f, NEW k, NEW q \in Int,
           \A i \in S : e[i] \in Int, \A i \in S \ {k} : f[i] = e[i],
           k \in S => f[k] = e[k] - q
    PROVE  /\ k \in S => SumFunctionOnSet(f, S) = SumFunctionOnSet(e, S) - q
           /\ k \notin S => SumFunctionOnSet(f, S) = SumFunctionOnSet(e, S)
<1>1. SumFunctionOnSet(e, S) = SumOver(e, S) /\ SumFunctionOnSet(f, S) = SumOver(f, S)
  BY SumFunctionIsSum
<1>2. SumOver(e, S) \in Int
  BY SumInt
<1>3. CASE k \in S
  <2>1. SumOver(f, S) = SumOver(e, S) - e[k] + f[k]
    BY <1>3, SumChange
  <2>2. e[k] \in Int /\ f[k] = e[k] - q
    BY <1>3
  <2> QED BY <1>1, <1>2, <1>3, <2>1, <2>2
<1>4. CASE k \notin S
  <2>1. SumOver(f, S) = SumOver(e, S)
    BY <1>4, SumSame
  <2> QED BY <1>1, <1>4, <2>1
<1> QED BY <1>3, <1>4

(* What is disposed of leaves quarantine and is counted on its line, and the  *)
(* return is complete when nothing is left of any.                           *)
LEMMA ReturnDisposed ==
    ASSUME ShapeInv, StockInv, ReturnsShape, NEW r \in Returns, TakenOnce(r), ReturnInv(r),
           NEW w \in Workers, JobInv(w), NEW D, Step(w, D), job[w].doc = r, CloseDisposal(w)
    PROVE  ReturnInv(r)'
<1> DEFINE j == job[w]
           k == j.line
           q == j.qty[1]
           lines == Lines(r)
           disposed == [disposedQty[r] EXCEPT ![k] = @ + q]
           cmd == CommandOf(j, DisposalLines(j))
<1>1. /\ pc[w] = "posting" /\ j.op = "dispose" /\ AtWork(w) /\ Handles(w, r, "dispose")
      /\ Post(cmd, r) /\ Write(w, RolledUp(r, disposed)) /\ Finish(w, "APPLIED")
      /\ disposedQty' = [disposedQty EXCEPT ![r] = disposed]
      /\ UNCHANGED << content, receivedAt, receivedQty >>
  BY DEF CloseDisposal, At, AtWork, Handles
<1>2. /\ r \in receivedAt /\ j.lines = lines /\ k \in DOMAIN lines /\ q \in Nat
      /\ j.next \in DOMAIN Outcomes /\ q <= LeftOf(r, k)
      /\ \A v \in Workers \ {w} : ~(pc[v] = "posting" /\ job[v].doc = r)
  BY <1>1 DEF ReturnInv, ReturnRequest
<1>3. Numbers(r) /\ Accounted(r) /\ \A v \in Workers : ReturnRequest(v, r)
  BY DEF ReturnInv
<1>4. Posts(w) /\ PostedLines(j) = DisposalLines(j)
  BY <1>1 DEF Posts, PostingOps, PostedLines
<1>5. /\ IsList(lines) /\ DOMAIN lines = 1 .. Len(lines) /\ Len(lines) \in Nat
      /\ \A i \in DOMAIN lines : lines[i].grain \in Grains
  BY ReturnLines
<1>6. /\ DOMAIN disposed = DOMAIN lines /\ disposedQty'[r] = disposed /\ Lines(r)' = lines
      /\ receivedQty'[r] = receivedQty[r] /\ r \in receivedAt'
      /\ status'[r] = RolledUp(r, disposed)
  BY <1>1, <1>2, <1>3 DEF Numbers, Write, Lines, ShapeInv, Returns, ReturnsShape
<1>7. \A i \in DOMAIN lines : /\ receivedQty[r][i] \in Nat
                              /\ disposedQty[r][i] \in 0 .. receivedQty[r][i]
                              /\ disposed[i] = (IF i = k THEN disposedQty[r][i] + q ELSE disposedQty[r][i])
  BY <1>2, <1>3 DEF Numbers
<1>8. \A i \in DOMAIN lines : /\ LeftOf(r, i) \in Int
                              /\ LeftOf(r, i)' = (IF i = k THEN LeftOf(r, i) - q ELSE LeftOf(r, i))
                              /\ LeftOf(r, i)' = receivedQty[r][i] - disposed[i]
                              /\ LeftOf(r, i)' \in Nat
  <2> HIDE DEF disposed, q, k, lines
  <2> QED BY <1>2, <1>6, <1>7 DEF LeftOf
<1>9. Numbers(r)'
  <2> HIDE DEF disposed, q, k, lines
  <2> QED BY <1>2, <1>6, <1>7, <1>8 DEF Numbers, LeftOf
<1>10. status'[r] = IF \A i \in DOMAIN lines : LeftOf(r, i)' = 0 THEN "COMPLETED" ELSE "PARTIALLY_DISPOSED"
  <2> DEFINE f == [i \in DOMAIN disposed |-> receivedQty[r][i] - disposed[i]]
             S == DOMAIN lines
  <2>1. RolledUp(r, disposed) = IF SumFunctionOnSet(f, S) <= 0 THEN "COMPLETED" ELSE "PARTIALLY_DISPOSED"
    BY <1>6 DEF RolledUp
  <2>2. \A i \in S : f[i] = LeftOf(r, i)' /\ f[i] \in Nat
    <3> HIDE DEF disposed, lines
    <3> QED BY <1>6, <1>8
  <2>3. IsFiniteSet(S)
    BY <1>5, FS_Interval
  <2> HIDE DEF f, S
  <2>4. SumFunctionOnSet(f, S) <= 0 <=> \A i \in S : f[i] = 0
    BY <2>2, <2>3, AllOrSome
  <2> QED BY <1>6, <2>1, <2>2, <2>4 DEF S
<1>11. ASSUME NEW g \in Grains PROVE Quarantined(r, g)' = LeftOn(r, g)'
  <2> DEFINE p == MovedIn(movements, r)
             e == EffectOf(DisposalLines(j))
             n == IF lines[k].grain = g THEN q ELSE 0
  <2>1. MovedIn(movements, r)' = Plus(p, e)
    BY <1>4, PostsKeepStock
  <2>2. p \in Balances /\ e \in Balances
    <3>1. Typed(DisposalLines(j))
      BY <1>1, <1>4 DEF JobInv, PostableJob, PostingOps
    <3> QED BY <3>1, MovedAreBalances, EffectIsBalances DEF StockInv
  <2>3. "quarantined" \in Buckets
    BY DEF Buckets
  <2>4. /\ Plus(p, e)[g]["quarantined"] = p[g]["quarantined"] + e[g]["quarantined"]
        /\ p[g]["quarantined"] \in Int
    <3> HIDE DEF p, e
    <3>1. Plus(p, e)[g]["quarantined"] = p[g]["quarantined"] + e[g]["quarantined"]
      BY <2>2, <2>3, PlusNothing
    <3> QED BY <2>2, <2>3, <3>1 DEF Balances, Row
  <2>5. e[g]["quarantined"] = -n
    <3>1. j.lines[j.line].grain \in Grains /\ j.qty[1] \in Int /\ j.next \in DOMAIN Outcomes
      BY <1>2, <1>5
    <3>2. e[g]["quarantined"] = IF j.lines[j.line].grain = g THEN -j.qty[1] ELSE 0
      <4> HIDE DEF j
      <4> QED BY <3>1, DisposalEffect
    <3> QED BY <1>2, <3>2
  <2>6. p[g]["quarantined"] = LeftOn(r, g)
    BY <1>2, <1>3 DEF Accounted, Quarantined
  <2>7. LeftOn(r, g)' = LeftOn(r, g) - n
    <3> DEFINE old == [i \in DOMAIN lines |-> LeftOf(r, i)]
               new == [i \in DOMAIN lines |-> LeftOf(r, i)']
               S == { i \in DOMAIN lines : lines[i].grain = g }
    <3>1. LeftOn(r, g) = SumFunctionOnSet(old, S)
      BY DEF LeftOn
    <3>2. LeftOn(r, g)' = SumFunctionOnSet(new, S)
      BY <1>6 DEF LeftOn
    <3>3. /\ \A i \in S : old[i] \in Int
          /\ \A i \in S \ {k} : new[i] = old[i]
          /\ k \in S => new[k] = old[k] - q
      BY <1>8
    <3>4. q \in Int /\ (k \in S <=> lines[k].grain = g)
      BY <1>2
    <3>5. IsFiniteSet(S)
      <4>1. IsFiniteSet(1 .. Len(lines))
        BY <1>5, FS_Interval
      <4> QED BY <1>5, <4>1, FS_Subset
    <3>6. /\ k \in S => SumFunctionOnSet(new, S) = SumFunctionOnSet(old, S) - q
          /\ k \notin S => SumFunctionOnSet(new, S) = SumFunctionOnSet(old, S)
      <4> HIDE DEF old, new, k, q, S
      <4> QED BY <3>3, <3>4, <3>5, LessLeft
    <3>7. SumFunctionOnSet(old, S) \in Int
      <4> HIDE DEF old, S
      <4> QED BY <3>3, <3>5, SumFunctionIsSum, SumInt
    <3> HIDE DEF old, new, lines, k, q, S
    <3> QED BY <3>1, <3>2, <3>4, <3>6, <3>7
  <2>8. n \in Int
    BY <1>2
  <2>9. Quarantined(r, g)' = Plus(p, e)[g]["quarantined"]
    BY <2>1 DEF Quarantined
  <2> HIDE DEF p, e, n
  <2> QED BY <2>4, <2>5, <2>6, <2>7, <2>8, <2>9
<1>12. Accounted(r)'
  <2>1. DOMAIN Lines(r)' = DOMAIN lines
    BY <1>6
  <2> HIDE DEF lines
  <2> QED BY <1>10, <1>11, <2>1 DEF Accounted
<1>13. Awaited(r)'
  BY <1>6 DEF Awaited
<1>14. ASSUME NEW v \in Workers PROVE ReturnRequest(v, r)'
  <2>1. CASE v = w
    <3>1. Ends(w)
      BY <1>1, EndsOrGoesOn
    <3> QED BY <2>1, <3>1 DEF Ends, ReturnRequest, Handles, AtWork
  <2>2. CASE v # w
    <3>1. v \in Workers \ {w} /\ ReturnRequest(v, r) /\ content'[r] = content[r]
      BY <1>1, <1>3, <2>2
    <3>2. ~Handles(v, r, "intake") /\ ~Handles(v, r, "cancel")
      BY <1>2, <3>1 DEF ReturnRequest
    <3>3. Handles(v, r, "dispose") => pc[v] # "posting"
      BY <1>2, <3>1 DEF Handles
    <3>4. r \in receivedAt'
      BY <1>6
    <3> QED BY <3>1, <3>2, <3>3, <3>4, OtherReturnRequest
  <2> QED BY <2>1, <2>2
<1> QED BY <1>9, <1>12, <1>13, <1>14 DEF ReturnInv

(* Whatever is done with a return keeps its books. *)
LEMMA ReturnActionKeeps ==
    ASSUME ShapeInv, StockInv, ReturnsShape, NEW r \in Returns, ReturnsAlone, TakenOnce(r), ReturnInv(r),
           NEW w \in Workers, JobInv(w), ReturnAction(w, r)
    PROVE  ReturnInv(r)'
<1> DEFINE D == {r}
<1>1. Step(w, D)
  BY ReturnActionSteps
<1> HIDE DEF D
<1>2. CASE CreateReturn(w, r)
  BY <1>1, <1>2, ReturnCreated
<1>3. CASE LoadIntake(w, r)
  BY <1>1, <1>3, ReturnAsked
<1>4. CASE LoadCancel(w, r)
  BY <1>1, <1>4, ReturnAsked
<1>5. CASE \E a \in Disposals, key \in KeysOf[r]["dispose"] :
              LoadDispose(w, r, a.line, a.outcome, a.qty, a.units, key)
  BY <1>1, <1>5, ReturnAsked
<1>6. CASE ReturnStep(w) /\ job[w].doc = r
  <2>1. CASE PostIntake(w)
    BY <1>1, <1>6, <2>1, ReturnTaken
  <2>2. CASE LookIntake(w) \/ PostDisposal(w)
    BY <1>1, <1>6, <2>2, ReturnLooked
  <2>3. CASE RecordIntake(w)
    BY <1>1, <1>6, <2>3, ReturnRecorded
  <2>4. CASE CancelReturn(w)
    BY <1>1, <1>6, <2>4, ReturnCancelled
  <2>5. CASE CloseDisposal(w)
    BY <1>1, <1>6, <2>5, ReturnDisposed
  <2> QED BY <1>6, <2>1, <2>2, <2>3, <2>4, <2>5 DEF ReturnStep
<1>7. CASE Fail(w) /\ job[w].doc = r /\ UNCHANGED returnVars
  BY <1>1, <1>7, ReturnLooked
<1> QED BY <1>2, <1>3, <1>4, <1>5, <1>6, <1>7 DEF ReturnAction

(* .. and leaves other returns alone. *)
LEMMA ReturnActionShape ==
    ASSUME ReturnsShape, NEW w \in Workers, NEW r \in Returns, ReturnAction(w, r)
    PROVE  /\ ReturnsShape'
           /\ \A d \in Returns \ {r} : /\ d \in receivedAt' <=> d \in receivedAt
                                       /\ receivedQty'[d] = receivedQty[d] /\ disposedQty'[d] = disposedQty[d]
<1>1. CASE UNCHANGED returnVars
  BY <1>1 DEF returnVars, ReturnsShape, Returns
<1>2. CASE CreateReturn(w, r)
  BY <1>2 DEF CreateReturn, ReturnsShape, Returns
<1>3. CASE RecordIntake(w) /\ job[w].doc = r
  BY <1>3 DEF RecordIntake, ReturnsShape, Returns
<1>4. CASE CloseDisposal(w) /\ job[w].doc = r
  <2>1. UNCHANGED << receivedAt, receivedQty >> /\ \E x : disposedQty' = [disposedQty EXCEPT ![r] = x]
    BY <1>4 DEF CloseDisposal
  <2> QED BY <2>1 DEF ReturnsShape, Returns
<1> QED BY <1>1, <1>2, <1>3, <1>4
        DEF ReturnAction, LoadIntake, LoadCancel, LoadDispose, ReturnStep, PostIntake, LookIntake, CancelReturn,
            PostDisposal

-----------------------------------------------------------------------------
(* Requests for returns come in order: goods are taken in once, while nobody  *)
(* else is at the return.                                                    *)
ReturnsInOrder == ReturnsAlone /\ \A r \in Returns : TakenOnce(r)

(* The books of the warehouse with those of its returns. *)
QuarantineInv ==
    /\ LedgerInv /\ BooksInv /\ TasksMoveNothing /\ ReturnsShape
    /\ \A r \in Returns : ReturnInv(r)

(* A step that keeps the returns it may touch keeps them all. *)
LEMMA StepKeepsQuarantine ==
    ASSUME QuarantineInv, ReturnsInOrder, NEW w \in Workers, NEW D, Step(w, D), StockStep(w),
           LedgerInv', TasksMoveNothing', ReturnsShape', \A r \in Returns \cap D : ReturnInv(r)',
           \A r \in Returns \ D : /\ r \in receivedAt' <=> r \in receivedAt
                                  /\ receivedQty'[r] = receivedQty[r] /\ disposedQty'[r] = disposedQty[r]
    PROVE  QuarantineInv'
<1>1. ShapeInv /\ StockInv /\ BooksInv /\ JobInv(w)
  BY DEF QuarantineInv, LedgerInv
<1>2. BooksInv'
  BY <1>1, StockStepKeepsBooks
<1>3. ASSUME NEW r \in Returns PROVE ReturnInv(r)'
  <2>1. CASE r \in D
    BY <2>1
  <2>2. CASE r \notin D
    <3>1. ReturnInv(r) /\ TakenOnce(r)
      BY DEF QuarantineInv, ReturnsInOrder
    <3> QED BY <1>1, <2>2, <3>1, ReturnElsewhere
  <2> QED BY <2>1, <2>2
<1> QED BY <1>2, <1>3 DEF QuarantineInv, Returns

(* Every step does. *)
LEMMA QuarantineStepKeeps ==
    ASSUME QuarantineInv, RequestsInOrder, ReturnsInOrder, [WarehouseNext]_vars
    PROVE  QuarantineInv'
<1>1. /\ LedgerInv /\ ShapeInv /\ StockInv /\ CountInvs /\ TransfersShape
      /\ TasksMoveNothing /\ ReturnsShape
      /\ \A w \in Workers : JobInv(w)
      /\ \A d \in Once : OnceInv(d)
      /\ \A t \in Transfers : TransferInv(t)
      /\ \A r \in Returns : ReturnInv(r)
  BY DEF QuarantineInv, LedgerInv
<1>2. /\ RewritesAlone("transfer") /\ RewritesAlone("receipt") /\ RewritesAlone("adjustment")
      /\ RewritesAlone("count")
      /\ \A d \in Once : OneKey(d, "post")
      /\ \A t \in Transfers : OwnKeys(t)
  BY DEF RequestsInOrder
<1>3. LedgerInv'
  BY <1>1, LedgerStepKeeps
<1>4. ASSUME NEW w \in Workers, NEW D, Step(w, D), StockStep(w), UNCHANGED returnVars, D \cap Returns = {},
             TasksMoveNothing'
      PROVE  QuarantineInv'
  <2>1. UNCHANGED << receivedAt, receivedQty, disposedQty >>
    BY <1>4 DEF returnVars
  <2>2. ReturnsShape'
    BY <1>1, <2>1 DEF ReturnsShape, Returns
  <2>3. \A r \in Returns \cap D : ReturnInv(r)'
    BY <1>4
  <2> QED BY <1>3, <1>4, <2>1, <2>2, <2>3, StepKeepsQuarantine
<1>5. ASSUME NEW w \in Workers, NEW d \in Docs \ (Tasks \cup Returns), Step(w, {d}), StockStep(w),
             UNCHANGED returnVars
      PROVE  QuarantineInv'
  <2> DEFINE D == {d}
  <2>1. Step(w, D) /\ D \cap Tasks = {} /\ D \cap Returns = {}
    BY <1>5
  <2> HIDE DEF D
  <2>2. TasksMoveNothing'
    BY <1>1, <2>1, TasksElsewhere DEF Step
  <2> QED BY <1>4, <1>5, <2>1, <2>2
<1>6. ASSUME NEW w \in Workers, NEW t \in Transfers, TransferAction(w, t), UNCHANGED returnVars
      PROVE  QuarantineInv'
  <2>1. Step(w, {t})
    BY <1>1, <1>6, TransferActionSteps
  <2>2. StockStep(w)
    <3>1. TransferInv(t) /\ OwnKeys(t) /\ JobInv(w)
      BY <1>1, <1>2
    <3> QED BY <1>1, <1>2, <1>6, <3>1, TransferActionKeeps
  <2>3. t \in Docs \ (Tasks \cup Returns)
    BY DEF Transfers, Tasks, Returns
  <2> QED BY <1>5, <1>6, <2>1, <2>2, <2>3
<1>7. ASSUME NEW w \in Workers, NEW r \in Receipts, ReceiptAction(w, r),
             UNCHANGED << returnVars, countVars, taskVars >>
      PROVE  QuarantineInv'
  <2>1. Step(w, {r})
    BY <1>1, <1>7, ReceiptActionSteps
  <2>2. StockStep(w)
    <3>1. OnceInv(r) /\ OneKey(r, "post") /\ JobInv(w) /\ UNCHANGED << expected, counted, completions >>
      BY <1>1, <1>2, <1>7 DEF Once, countVars, taskVars
    <3> QED BY <1>1, <1>2, <1>7, <3>1, ReceiptActionKeepsOnce
  <2>3. r \in Docs \ (Tasks \cup Returns)
    BY DEF Receipts, Tasks, Returns
  <2> QED BY <1>5, <1>7, <2>1, <2>2, <2>3
<1>8. ASSUME NEW w \in Workers, NEW a \in Adjustments, AdjustmentAction(w, a),
             UNCHANGED << receiptVars, returnVars, countVars, taskVars >>
      PROVE  QuarantineInv'
  <2>1. Step(w, {a})
    BY <1>1, <1>8, AdjustmentActionSteps
  <2>2. StockStep(w)
    <3>1. /\ OnceInv(a) /\ OneKey(a, "post") /\ JobInv(w)
          /\ UNCHANGED << postedAt, expected, counted, completions >>
      BY <1>1, <1>2, <1>8 DEF Once, receiptVars, countVars, taskVars
    <3> QED BY <1>1, <1>2, <1>8, <3>1, AdjustmentActionKeepsOnce
  <2>3. a \in Docs \ (Tasks \cup Returns)
    BY DEF Adjustments, Tasks, Returns
  <2> QED BY <1>5, <1>8, <2>1, <2>2, <2>3
<1>9. ASSUME NEW w \in Workers, NEW r \in Returns, ReturnAction(w, r) PROVE QuarantineInv'
  <2> DEFINE D == {r}
  <2>1. Step(w, D)
    BY <1>1, <1>9, ReturnActionSteps
  <2>2. StockStep(w)
    BY <1>1, <1>9, ReturnActionWorks
  <2>3. ReturnInv(r)'
    <3>1. ReturnInv(r) /\ JobInv(w) /\ ReturnsAlone /\ TakenOnce(r)
      BY <1>1 DEF ReturnsInOrder
    <3> QED BY <1>1, <1>9, <3>1, ReturnActionKeeps
  <2>4. /\ ReturnsShape'
        /\ \A d \in Returns \ D : /\ d \in receivedAt' <=> d \in receivedAt
                                  /\ receivedQty'[d] = receivedQty[d] /\ disposedQty'[d] = disposedQty[d]
    BY <1>1, <1>9, ReturnActionShape
  <2>5. \A d \in Returns \cap D : ReturnInv(d)'
    <3>1. \A d : d \in Returns \cap D => d = r
      OBVIOUS
    <3> QED BY <2>3, <3>1
  <2>6. D \cap Tasks = {}
    BY DEF Tasks, Returns
  <2> HIDE DEF D
  <2>7. TasksMoveNothing'
    BY <1>1, <2>1, <2>6, TasksElsewhere DEF Step
  <2> QED BY <1>3, <2>1, <2>2, <2>4, <2>5, <2>7, StepKeepsQuarantine
<1>10. ASSUME NEW w \in Workers, CountAction(w), UNCHANGED << receiptVars, returnVars >>
       PROVE  QuarantineInv'
  <2>1. Step(w, Counting)
    BY <1>1, <1>10, CountActionSteps
  <2>2. StockStep(w)
    <3>1. \A c \in Counts : OneKey(c, "post") /\ OnceInv(c)
      BY <1>1, <1>2 DEF Once
    <3> QED BY <1>1, <1>2, <1>10, <3>1, CountActionKeeps DEF receiptVars
  <2>3. TasksMoveNothing'
    BY <1>1, <1>10, CountActionMovesNothing DEF CountInvs
  <2>4. Counting \cap Returns = {}
    BY DEF Counting, Counts, Tasks, Returns
  <2> QED BY <1>4, <1>10, <2>1, <2>2, <2>3, <2>4
<1>11. CASE UNCHANGED vars
  <2>1. UNCHANGED << balance, movements, status, content, pc, job, receivedAt, receivedQty, disposedQty >>
    BY <1>11 DEF vars, baseVars, docVars, returnVars
  <2>2. BooksInv' /\ TasksMoveNothing' /\ ReturnsShape'
    BY <2>1 DEF QuarantineInv, BooksInv, TasksMoveNothing, StockMovedFor, ReturnsShape, Tasks, Returns
  <2>3. ASSUME NEW r \in Returns PROVE ReturnInv(r)'
    <3>1. ReturnInv(r)
      BY <1>1
    <3>2. Lines(r)' = Lines(r) /\ (Taken(r)' <=> Taken(r)) /\ TheQty(r)' = TheQty(r)
          /\ \A i : LeftOf(r, i)' = LeftOf(r, i)
      BY <2>1 DEF Lines, Taken, Keyed, TheKey, TheQty, LeftOf
    <3>3. \A g : /\ Quarantined(r, g)' = Quarantined(r, g)
                 /\ LeftOn(r, g)' = LeftOn(r, g) /\ TakenOn(r, g)' = TakenOn(r, g)
      BY <2>1, <3>2 DEF Quarantined, LeftOn, TakenOn
    <3>4. Numbers(r)' /\ Accounted(r)' /\ Awaited(r)'
      BY <2>1, <3>1, <3>2, <3>3 DEF ReturnInv, Numbers, Accounted, Awaited
    <3>5. ASSUME NEW w \in Workers PROVE ReturnRequest(w, r)'
      <4>1. ReturnRequest(w, r) /\ \A op : Handles(w, r, op)' <=> Handles(w, r, op)
        BY <2>1, <3>1 DEF ReturnInv, Handles, AtWork
      <4> QED BY <2>1, <3>2, <4>1 DEF ReturnRequest, TheKey
    <3> QED BY <3>4, <3>5 DEF ReturnInv
  <2> QED BY <1>3, <2>2, <2>3 DEF QuarantineInv, Returns
<1>12. CASE WarehouseNext
  BY <1>1, <1>6, <1>7, <1>8, <1>9, <1>10, <1>11, <1>12, WhoActs
<1> QED BY <1>11, <1>12

(* Before anything is returned nothing is in quarantine. *)
LEMMA QuarantineInitially ==
    ASSUME WarehouseInit
    PROVE  QuarantineInv
<1>1. LedgerInv /\ BooksInv /\ ShapeInv
  BY LedgerInitially, BooksInitially DEF LedgerInv
<1>2. (\A w \in Workers : pc[w] = "idle") /\ movements = << >> /\ receivedAt = {}
  BY DEF WarehouseInit
<1>3. (\A d : ~StockMovedFor(d)) /\ \A key : ~Keyed(key)
  BY <1>2 DEF StockMovedFor, Keyed, KeyedBy
<1>4. TasksMoveNothing
  BY <1>3 DEF TasksMoveNothing
<1>5. /\ receivedQty = [r \in Returns |-> NoneOf(Lines(r))]
      /\ disposedQty = [r \in Returns |-> NoneOf(Lines(r))]
  BY DEF WarehouseInit
<1>6. ASSUME NEW r \in Returns PROVE ReturnInv(r)
  <2>1. \A g \in Grains : Quarantined(r, g) = 0
    BY <1>1, <1>3, NothingMoved DEF Quarantined, Nothing, EmptyRow, Buckets
  <2>2. status[r] \in {"NONE", "DRAFT", "CANCELLED"}
    BY StartsAssumption DEF WarehouseInit
  <2>3. Numbers(r) /\ \A i \in DOMAIN Lines(r) : receivedQty[r][i] = 0
    BY <1>5 DEF Numbers, NoneOf
  <2>4. Awaited(r) /\ Accounted(r)
    BY <1>2, <1>3, <2>1, <2>2, <2>3 DEF Awaited, Accounted, Taken
  <2>5. \A w \in Workers : ReturnRequest(w, r)
    BY <1>2 DEF ReturnRequest, Handles, AtWork
  <2> QED BY <2>3, <2>4, <2>5 DEF ReturnInv
<1> QED BY <1>1, <1>4, <1>5, <1>6 DEF QuarantineInv, ReturnsShape

(* The books of the returns are those of the quarantined stock. *)
LEMMA QuarantineInvImplies ==
    ASSUME QuarantineInv
    PROVE  QuarantineAccounted
<1>1. ASSUME NEW r \in Returns
      PROVE  /\ \A i \in DOMAIN Lines(r) : disposedQty[r][i] <= receivedQty[r][i]
             /\ status[r] = "COMPLETED" <=> r \in receivedAt /\ \A i \in DOMAIN Lines(r) : LeftOf(r, i) = 0
  <2>1. Numbers(r) /\ Accounted(r) /\ Awaited(r)
    BY DEF QuarantineInv, ReturnInv
  <2> QED BY <2>1 DEF Numbers, Accounted, Awaited
<1>2. ASSUME \A r \in Returns : ~HalfDone(r), NEW g \in Grains
      PROVE  balance[g]["quarantined"] = SumFunctionOnSet([r \in Returns |-> LeftOn(r, g)], Returns)
  <2> DEFINE moved == MovedOn(movements, g, "quarantined")
             left == [r \in Returns |-> LeftOn(r, g)]
  <2>1. LedgerInv /\ ShapeInv /\ StockInv /\ TasksMoveNothing /\ BooksInv /\ "quarantined" \in Buckets
    BY DEF QuarantineInv, LedgerInv, Buckets
  <2>2. ASSUME NEW r \in Returns PROVE moved[r] = left[r] /\ moved[r] \in Int
    <3>1. Numbers(r) /\ Accounted(r) /\ Awaited(r) /\ r \in Docs
      BY DEF QuarantineInv, ReturnInv, Returns
    <3>2. moved[r] = Quarantined(r, g)
      BY <3>1 DEF MovedOn, Quarantined
    <3>3. Quarantined(r, g) \in Int
      BY <2>1, MovedTerms DEF Quarantined, StockInv
    <3>4. CASE r \in receivedAt
      BY <3>1, <3>2, <3>3, <3>4 DEF Accounted
    <3>5. CASE r \notin receivedAt
      <4>1. MovedIn(movements, r) = Nothing
        BY <1>2, <3>5 DEF HalfDone, MovedBy, MovedIn
      <4>2. Quarantined(r, g) = 0
        BY <2>1, <4>1 DEF Quarantined, Nothing, EmptyRow
      <4>3. LeftOn(r, g) = 0
        <5> DEFINE f == [i \in DOMAIN Lines(r) |-> LeftOf(r, i)]
                   S == { i \in DOMAIN Lines(r) : Lines(r)[i].grain = g }
        <5>1. \A i \in S : f[i] = 0
          BY <3>1, <3>5 DEF Numbers, Awaited, LeftOf
        <5>2. IsFiniteSet(S)
          <6>1. DOMAIN Lines(r) = 1 .. Len(Lines(r)) /\ Len(Lines(r)) \in Nat
            BY <2>1, <3>1, LinesAreLists, ListDomain
          <6>2. IsFiniteSet(1 .. Len(Lines(r)))
            BY <6>1, FS_Interval
          <6> QED BY <6>1, <6>2, FS_Subset
        <5>3. LeftOn(r, g) = SumFunctionOnSet(f, S)
          BY DEF LeftOn
        <5> HIDE DEF f, S
        <5> QED BY <5>1, <5>2, <5>3, SumFunctionIsSum, SumZero
      <4> QED BY <3>2, <3>3, <4>2, <4>3
    <3> QED BY <3>4, <3>5
  <2>3. \A d \in Docs \ Returns : moved[d] = 0
    BY <2>1, OthersSpareQuarantined DEF MovedOn
  <2>4. IsFiniteSet(Docs) /\ Returns \in SUBSET Docs
    BY DocumentsAssumption DEF Returns
  <2>5. balance[g]["quarantined"] = 0 + SumOver(moved, Docs)
    BY <2>1 DEF BooksInv
  <2> HIDE DEF moved, left
  <2>6. SumOver(moved, Docs) = SumOver(left, Returns)
    BY <2>2, <2>3, <2>4, SumPart
  <2>7. SumOver(left, Returns) \in Int
    <3>1. IsFiniteSet(Returns)
      BY <2>4, FS_Subset
    <3> QED BY <2>2, <3>1, SumInt
  <2>8. balance[g]["quarantined"] = SumFunctionOnSet(left, Returns)
    BY <2>5, <2>6, <2>7, SumFunctionIsSum
  <2> QED BY <2>8 DEF left
<1> QED BY <1>1, <1>2 DEF QuarantineAccounted

(* Of every row the quarantined stock is what returns have received and not   *)
(* disposed of, and a return is complete when and only when nothing is left   *)
(* of it, however receipts, dispositions and everything else in the warehouse *)
(* race and fail; if goods are taken in under one key and with one quantity.  *)
THEOREM QuarantineIsAccountedFor ==
    ASSUME RequestsInOrder, ReturnsInOrder
    PROVE  WarehouseSpec => []QuarantineAccounted
<1>1. WarehouseInit => QuarantineInv
  BY QuarantineInitially
<1>2. QuarantineInv /\ [WarehouseNext]_vars => QuarantineInv'
  BY QuarantineStepKeeps
<1>3. QuarantineInv => QuarantineAccounted
  BY QuarantineInvImplies
<1> QED BY <1>1, <1>2, <1>3, PTL DEF WarehouseSpec
=============================================================================
