--------------------------- MODULE RetrievalProofs ---------------------------
(***************************************************************************)
(* What one answer of the retriever promises of any vault, context, budget *)
(* and prices.  What an answer costs is a sum over its items, so the facts *)
(* on sums go by induction over the items; the library's induction         *)
(* theorems take an operator as a parameter, so the principle is stated    *)
(* here for sets, and follows from WFMin.                                  *)
(***************************************************************************)
EXTENDS Retrieval, FiniteSetTheorems, SequenceTheorems, WellFoundedInduction, TLAPS

LEMMA LeastOfNaturals ==
    ASSUME NEW T \in SUBSET Nat, T # {}
    PROVE  \E x \in T : \A y \in T : x =< y
<1> DEFINE R == StrictSubsetOrdering(Nat)
           F == FiniteSubsetsOf(Nat)
           D == {1 .. n : n \in T}
<1>1. IsWellFoundedOn(R, F)
    BY FS_StrictSubsetOrderingWellFounded
<1>2. \A n \in Nat : 1 .. n \in F
    BY FS_Interval DEF FiniteSubsetsOf
<1>3. D \subseteq F /\ D # {}
    BY <1>2
<1>4. \E U \in D : \A V \in D : <<V, U>> \notin R
    <2> HIDE DEF R, F, D
    <2> QED
        BY <1>1, <1>3, WFMin
<1>5. PICK x \in T : \A V \in D : <<V, 1 .. x>> \notin R
    BY <1>4
<1>6. ASSUME NEW y \in T PROVE x =< y
    <2>1. <<1 .. y, 1 .. x>> \notin R
        BY <1>5
    <2>2. SUFFICES ASSUME y < x PROVE FALSE
        OBVIOUS
    <2>3. 1 .. y \subseteq 1 .. x /\ x \in 1 .. x /\ x \notin 1 .. y
        BY <2>2
    <2>4. 1 .. y # 1 .. x
        BY <2>3
    <2>5. 1 .. y \in SUBSET Nat /\ 1 .. x \in SUBSET Nat
        OBVIOUS
    <2> QED
        BY <2>1, <2>3, <2>4, <2>5 DEF StrictSubsetOrdering
<1> QED
    BY <1>6

\* What holds of 0, and of n + 1 where it holds of n, holds of every number.
LEMMA SetInduction ==
    ASSUME NEW S \in SUBSET Nat, 0 \in S, \A n \in S : n + 1 \in S
    PROVE  S = Nat
<1> SUFFICES ASSUME Nat \ S # {} PROVE FALSE
    OBVIOUS
<1>1. PICK n \in Nat \ S : \A m \in Nat \ S : n =< m
    BY LeastOfNaturals, Zenon
<1>2. n - 1 \in Nat /\ n - 1 \notin Nat \ S
    BY <1>1
<1> QED
    BY <1>1, <1>2

-----------------------------------------------------------------------------
(* Sums.                                                                   *)

Sums(costs) == CHOOSE sum : sum = [n \in 0 .. Len(costs) |-> IF n = 0 THEN 0 ELSE sum[n - 1] + costs[n]]

\* The recursion has a solution: it is extended from one number to the next.
LEMMA SumsAre ==
    ASSUME NEW costs \in Seq(Nat)
    PROVE  /\ Sums(costs) = [n \in 0 .. Len(costs) |-> IF n = 0 THEN 0 ELSE Sums(costs)[n - 1] + costs[n]]
           /\ Sum(costs) = Sums(costs)[Len(costs)]
<1> DEFINE G(f, k) == IF k = 0 THEN 0 ELSE f[k - 1] + costs[k]
           S == {n \in Nat : \E f : f = [k \in 0 .. n |-> G(f, k)]}
<1>1. 0 \in S
    <2>1. [k \in 0 .. 0 |-> 0] = [k \in 0 .. 0 |-> G([k2 \in 0 .. 0 |-> 0], k)]
        OBVIOUS
    <2> QED
        BY <2>1
<1>2. ASSUME NEW n \in S PROVE n + 1 \in S
    <2>1. n \in Nat
        OBVIOUS
    <2>2. PICK f : f = [k \in 0 .. n |-> G(f, k)]
        OBVIOUS
    <2> DEFINE g == [k \in 0 .. n + 1 |-> G(f, k)]
    <2>3. \A k \in 0 .. n : g[k] = f[k]
        BY <2>1, <2>2
    <2>4. ASSUME NEW k \in 0 .. n + 1 PROVE G(g, k) = G(f, k)
        <3>1. k # 0 => k - 1 \in 0 .. n
            BY <2>1
        <3> HIDE DEF g
        <3> QED
            BY <2>3, <3>1
    <2>5. g = [k \in 0 .. n + 1 |-> G(g, k)]
        <3> HIDE DEF G
        <3> QED
            BY <2>4
    <2> HIDE DEF g
    <2> QED
        BY <2>1, <2>5
<1>3. S = Nat
    <2> HIDE DEF S
    <2>1. S \in SUBSET Nat
        BY DEF S
    <2> QED
        BY <1>1, <1>2, <2>1, SetInduction
<1>4. \E f : f = [k \in 0 .. Len(costs) |-> G(f, k)]
    <2>1. Len(costs) \in S
        <3> HIDE DEF S
        <3> QED
            BY <1>3, LenProperties
    <2> HIDE DEF G
    <2> QED
        BY <2>1
<1>5. Sums(costs) = CHOOSE f : f = [k \in 0 .. Len(costs) |-> G(f, k)]
    BY DEF Sums
<1> HIDE DEF G
<1>6. Sums(costs) = [k \in 0 .. Len(costs) |-> G(Sums(costs), k)]
    BY <1>4, <1>5
<1>7. Sum(costs) = Sums(costs)[Len(costs)]
    BY DEF Sum, Sums
<1> QED
    BY <1>6, <1>7 DEF G

LEMMA SumsStep ==
    ASSUME NEW costs \in Seq(Nat)
    PROVE  Sums(costs)[0] = 0 /\ \A n \in 1 .. Len(costs) : Sums(costs)[n] = Sums(costs)[n - 1] + costs[n]
<1>1. Len(costs) \in Nat
    BY LenProperties
<1>2. Sums(costs) = [n \in 0 .. Len(costs) |-> IF n = 0 THEN 0 ELSE Sums(costs)[n - 1] + costs[n]]
    BY SumsAre
<1> QED
    BY <1>1, <1>2

LEMMA AddMonotone ==
    \A a, b, c, d \in Nat : a =< b /\ c =< d => a + c \in Nat /\ b + d \in Nat /\ a + c =< b + d
    OBVIOUS

\* As far as no cost is higher, no sum is.
LEMMA SumsMonotone ==
    ASSUME NEW f \in Seq(Nat), NEW g \in Seq(Nat), NEW m \in Nat, m =< Len(f), m =< Len(g),
           \A i \in 1 .. m : f[i] =< g[i]
    PROVE  Sums(f)[m] \in Nat /\ Sums(g)[m] \in Nat /\ Sums(f)[m] =< Sums(g)[m]
<1> DEFINE P(n) == Sums(f)[n] \in Nat /\ Sums(g)[n] \in Nat /\ Sums(f)[n] =< Sums(g)[n]
           S == {n \in Nat : n =< m => P(n)}
<1>1. 0 \in S
    BY SumsStep
<1>2. ASSUME NEW n \in S PROVE n + 1 \in S
    <2> SUFFICES ASSUME n + 1 =< m PROVE P(n + 1)
        OBVIOUS
    <2>1. n \in Nat /\ n =< m /\ P(n)
        OBVIOUS
    <2>2. n + 1 \in 1 .. Len(f) /\ n + 1 \in 1 .. Len(g) /\ n + 1 \in 1 .. m
        BY <2>1, LenProperties
    <2>3. Sums(f)[n + 1] = Sums(f)[n] + f[n + 1] /\ Sums(g)[n + 1] = Sums(g)[n] + g[n + 1]
        BY <2>1, <2>2, SumsStep
    <2>4. f[n + 1] \in Nat /\ g[n + 1] \in Nat /\ f[n + 1] =< g[n + 1]
        BY <2>2, ElementOfSeq
    <2>5. n \in Nat /\ Sums(f)[n] \in Nat /\ Sums(g)[n] \in Nat /\ Sums(f)[n] =< Sums(g)[n]
        BY <2>1
    <2>6. /\ Sums(f)[n] + f[n + 1] \in Nat /\ Sums(g)[n] + g[n + 1] \in Nat
          /\ Sums(f)[n] + f[n + 1] =< Sums(g)[n] + g[n + 1]
        BY <2>4, <2>5, AddMonotone, Zenon
    <2> QED
        BY <2>3, <2>6, Zenon
<1>3. S = Nat
    <2> HIDE DEF S
    <2>1. S \in SUBSET Nat
        BY DEF S
    <2> QED
        BY <1>1, <1>2, <2>1, SetInduction
<1>4. m \in S
    <2> HIDE DEF S
    <2> QED
        BY <1>3
<1> QED
    BY <1>4

LEMMA SumMonotone ==
    ASSUME NEW f \in Seq(Nat), NEW g \in Seq(Nat), Len(f) = Len(g), \A i \in 1 .. Len(f) : f[i] =< g[i]
    PROVE  Sum(f) \in Nat /\ Sum(f) =< Sum(g)
<1>1. Len(f) \in Nat /\ Len(f) =< Len(g)
    BY LenProperties
<1>2. Sums(f)[Len(f)] \in Nat /\ Sums(f)[Len(f)] =< Sums(g)[Len(f)]
    BY <1>1, SumsMonotone
<1> QED
    BY <1>2, SumsAre

LEMMA SumAppend ==
    ASSUME NEW f \in Seq(Nat), NEW g \in Seq(Nat), Len(g) = Len(f) + 1, \A i \in 1 .. Len(f) : g[i] = f[i]
    PROVE  Sum(g) = Sum(f) + g[Len(g)] /\ Sum(f) \in Nat /\ g[Len(g)] \in Nat
<1> DEFINE n == Len(f)
<1>1. n \in Nat /\ Len(g) \in 1 .. Len(g)
    BY LenProperties
<1>2. g[Len(g)] \in Nat
    BY <1>1, ElementOfSeq
<1>3. \A i \in 1 .. n : f[i] \in Nat
    BY ElementOfSeq
<1>4. n =< Len(g) /\ \A i \in 1 .. n : f[i] =< g[i] /\ g[i] =< f[i]
    BY <1>1, <1>3
<1>5. Sums(f)[n] \in Nat /\ Sums(g)[n] \in Nat /\ Sums(f)[n] =< Sums(g)[n] /\ Sums(g)[n] =< Sums(f)[n]
    <2> HIDE DEF n
    <2>1. n =< Len(f) /\ n \in Nat
        BY <1>1 DEF n
    <2>2. Sums(f)[n] \in Nat /\ Sums(g)[n] \in Nat /\ Sums(f)[n] =< Sums(g)[n]
        BY <2>1, <1>4, SumsMonotone
    <2>3. Sums(g)[n] =< Sums(f)[n]
        BY <2>1, <1>4, SumsMonotone
    <2> QED
        BY <2>2, <2>3
<1>6. Sums(g)[Len(g)] = Sums(g)[Len(g) - 1] + g[Len(g)]
    BY <1>1, SumsStep
<1> QED
    BY <1>1, <1>2, <1>5, <1>6, SumsAre
-----------------------------------------------------------------------------
(* What the items cost.                                                    *)

Item == [row : Row, layer : Layer]

Spent(list) == Sum([i \in DOMAIN list |-> Wrap + CostOf(list[i])])

LEMMA Prices ==
    /\ Wrap \in Nat /\ HeadCost \in Nat /\ Base \in Nat /\ RoleCost \in Nat /\ LabelCost \in Nat
    /\ Least \in Nat /\ Reserved \in Nat /\ Limit \in Nat /\ Low \in Nat
    /\ \A v \in Vault, r \in Row : v[r].own \subseteq Layer /\ v[r].cost \in [Layer -> Nat]
    /\ \A request \in Request :
          /\ request.budget \in Nat /\ Reserved =< request.budget
          /\ request.depth \in Layer \cup {None}
    BY RetrievalAssumption

LEMMA ItemCost == ASSUME vault \in Vault, NEW item \in Item PROVE CostOf(item) \in Nat
    BY Prices DEF CostOf, Item

LEMMA CostsAreNumbers ==
    ASSUME vault \in Vault, NEW list \in Seq(Item)
    PROVE  LET costs == [i \in DOMAIN list |-> Wrap + CostOf(list[i])] IN
           /\ costs \in Seq(Nat) /\ Len(costs) = Len(list)
           /\ \A i \in 1 .. Len(list) : list[i] \in Item /\ costs[i] = Wrap + CostOf(list[i]) /\ CostOf(list[i]) \in Nat
<1> DEFINE costs == [i \in DOMAIN list |-> Wrap + CostOf(list[i])]
<1>1. DOMAIN list = 1 .. Len(list) /\ Len(list) \in Nat /\ \A i \in 1 .. Len(list) : list[i] \in Item
    BY LenProperties, ElementOfSeq
<1>2. \A i \in 1 .. Len(list) : CostOf(list[i]) \in Nat /\ Wrap + CostOf(list[i]) \in Nat
    BY <1>1, ItemCost, Prices
<1>3. costs \in [1 .. Len(list) -> Nat]
    BY <1>1, <1>2
<1>4. costs \in Seq(Nat) /\ Len(costs) = Len(list)
    <2> HIDE DEF costs
    <2>1. costs \in Seq(Nat)
        BY <1>1, <1>3, SeqDef
    <2> QED
        BY <1>1, <1>3, <2>1, LenProperties
<1> QED
    BY <1>1, <1>2, <1>4

LEMMA SpentAppend ==
    ASSUME vault \in Vault, NEW list \in Seq(Item), NEW item \in Item
    PROVE  /\ Append(list, item) \in Seq(Item)
           /\ Spent(list) \in Nat /\ CostOf(item) \in Nat
           /\ Spent(Append(list, item)) = Spent(list) + (Wrap + CostOf(item))
<1> DEFINE more == Append(list, item)
           f == [i \in DOMAIN list |-> Wrap + CostOf(list[i])]
           g == [i \in DOMAIN more |-> Wrap + CostOf(more[i])]
<1>1. /\ more \in Seq(Item) /\ Len(more) = Len(list) + 1 /\ more[Len(more)] = item
      /\ \A i \in 1 .. Len(list) : more[i] = list[i]
      /\ Len(list) \in Nat
    BY AppendProperties, LenProperties
<1> HIDE DEF more
<1>2. f \in Seq(Nat) /\ Len(f) = Len(list) /\ \A i \in 1 .. Len(list) : f[i] = Wrap + CostOf(list[i])
    BY CostsAreNumbers
<1>3. g \in Seq(Nat) /\ Len(g) = Len(more) /\ \A i \in 1 .. Len(more) : g[i] = Wrap + CostOf(more[i])
    BY <1>1, CostsAreNumbers
<1>4. Sum(g) = Sum(f) + g[Len(g)] /\ Sum(f) \in Nat /\ g[Len(g)] = Wrap + CostOf(item)
    <2> HIDE DEF f, g
    <2>1. Len(g) = Len(f) + 1 /\ \A i \in 1 .. Len(f) : g[i] = f[i]
        BY <1>1, <1>2, <1>3
    <2>2. g[Len(g)] = Wrap + CostOf(item)
        BY <1>1, <1>3
    <2> QED
        BY <1>2, <1>3, <2>1, <2>2, SumAppend
<1> QED
    BY <1>1, <1>4, ItemCost DEF Spent, more

\* Without its last item a list costs no more.
LEMMA SpentFront ==
    ASSUME vault \in Vault, NEW list \in Seq(Item), list # <<>>
    PROVE  LET front == SubSeq(list, 1, Len(list) - 1) IN
           /\ front \in Seq(Item)
           /\ \A i \in DOMAIN front : i \in DOMAIN list /\ front[i] = list[i]
           /\ Spent(front) \in Nat /\ Spent(list) \in Nat /\ Spent(front) =< Spent(list)
<1> DEFINE front == SubSeq(list, 1, Len(list) - 1)
           f == [i \in DOMAIN front |-> Wrap + CostOf(front[i])]
           g == [i \in DOMAIN list |-> Wrap + CostOf(list[i])]
<1>1. /\ Len(list) \in Nat \ {0} /\ DOMAIN list = 1 .. Len(list)
      /\ \A i \in 1 .. Len(list) : list[i] \in Item
    BY LenProperties, EmptySeq, ElementOfSeq
<1>2. /\ front \in Seq(Item) /\ Len(front) = Len(list) - 1 /\ DOMAIN front = 1 .. Len(front)
      /\ \A i \in 1 .. Len(front) : front[i] = list[i]
    BY <1>1, SubSeqProperties, LenProperties
<1> HIDE DEF front
<1>3. f \in Seq(Nat) /\ Len(f) = Len(front) /\ \A i \in 1 .. Len(front) : f[i] = Wrap + CostOf(front[i])
    BY <1>2, CostsAreNumbers
<1>4. g \in Seq(Nat) /\ Len(g) = Len(list) /\ \A i \in 1 .. Len(list) : g[i] = Wrap + CostOf(list[i])
    BY CostsAreNumbers
<1>5. Sum(g) = Sum(f) + g[Len(g)] /\ Sum(f) \in Nat /\ g[Len(g)] \in Nat
    <2> HIDE DEF f, g
    <2>1. Len(g) = Len(f) + 1 /\ \A i \in 1 .. Len(f) : g[i] = f[i]
        BY <1>1, <1>2, <1>3, <1>4
    <2> QED
        BY <1>3, <1>4, <2>1, SumAppend
<1>6. Sum(f) \in Nat /\ Sum(g) \in Nat /\ Sum(f) =< Sum(g)
    <2> HIDE DEF f, g
    <2> QED
        BY <1>5
<1>7. \A i \in DOMAIN front : i \in DOMAIN list /\ front[i] = list[i]
    BY <1>1, <1>2
<1> QED
    BY <1>2, <1>6, <1>7 DEF Spent, front

\* Neither does it with its last item at a cheaper layer.
LEMMA SpentShrunk ==
    ASSUME vault \in Vault, NEW list \in Seq(Item), list # <<>>, NEW l \in Layer,
           vault[list[Len(list)].row].cost[l] =< CostOf(list[Len(list)])
    PROVE  LET shrunk == [list EXCEPT ![Len(list)].layer = l] IN
           /\ shrunk \in Seq(Item) /\ shrunk # <<>>
           /\ DOMAIN shrunk = DOMAIN list /\ \A i \in DOMAIN list : shrunk[i].row = list[i].row
           /\ Spent(shrunk) \in Nat /\ Spent(list) \in Nat /\ Spent(shrunk) =< Spent(list)
<1> DEFINE shrunk == [list EXCEPT ![Len(list)].layer = l]
           f == [i \in DOMAIN shrunk |-> Wrap + CostOf(shrunk[i])]
           g == [i \in DOMAIN list |-> Wrap + CostOf(list[i])]
           last == list[Len(list)]
<1>1. /\ Len(list) \in Nat \ {0} /\ DOMAIN list = 1 .. Len(list)
      /\ \A i \in 1 .. Len(list) : list[i] \in Item
    BY LenProperties, EmptySeq, ElementOfSeq
<1>2. last \in Item /\ last.row \in Row
    BY <1>1 DEF Item
<1>3. /\ DOMAIN shrunk = DOMAIN list
      /\ shrunk[Len(list)] = [row |-> last.row, layer |-> l]
      /\ \A i \in DOMAIN list : i # Len(list) => shrunk[i] = list[i]
    BY <1>1, <1>2 DEF Item
<1>4. [row |-> last.row, layer |-> l] \in Item
    BY <1>2 DEF Item
<1>5. shrunk \in [1 .. Len(list) -> Item]
    <2>1. shrunk = [i \in DOMAIN list |-> shrunk[i]]
        BY <1>3
    <2>2. \A i \in 1 .. Len(list) : shrunk[i] \in Item
        BY <1>1, <1>3, <1>4
    <2> HIDE DEF shrunk
    <2> QED
        BY <1>1, <2>1, <2>2
<1> HIDE DEF shrunk
<1>6. shrunk \in Seq(Item) /\ Len(shrunk) = Len(list)
    <2>1. shrunk \in Seq(Item)
        BY <1>1, <1>5, SeqDef
    <2> QED
        BY <1>1, <1>3, <2>1, LenProperties
<1>7. f \in Seq(Nat) /\ Len(f) = Len(list) /\ \A i \in 1 .. Len(list) : f[i] = Wrap + CostOf(shrunk[i]) /\ CostOf(shrunk[i]) \in Nat
    BY <1>6, CostsAreNumbers
<1>8. g \in Seq(Nat) /\ Len(g) = Len(list) /\ \A i \in 1 .. Len(list) : g[i] = Wrap + CostOf(list[i]) /\ CostOf(list[i]) \in Nat
    BY CostsAreNumbers
<1>9. CostOf(shrunk[Len(list)]) =< CostOf(list[Len(list)])
    BY <1>3 DEF CostOf
<1>10. \A i \in 1 .. Len(list) : f[i] =< g[i]
    <2> HIDE DEF f, g
    <2> TAKE i \in 1 .. Len(list)
    <2>1. CASE i = Len(list)
        BY <1>7, <1>8, <1>9, <2>1, Prices
    <2>2. CASE i # Len(list)
        <3>1. shrunk[i] = list[i]
            BY <1>1, <1>3, <2>2
        <3>2. f[i] = g[i]
            BY <1>7, <1>8, <3>1
        <3>3. f[i] \in Nat
            BY <1>7, ElementOfSeq
        <3> QED
            BY <3>2, <3>3
    <2> QED
        BY <2>1, <2>2
<1>11. Sum(f) \in Nat /\ Sum(f) =< Sum(g) /\ Sum(g) \in Nat
    <2> HIDE DEF f, g
    <2>1. \A i \in 1 .. Len(g) : g[i] =< g[i]
        BY <1>8, ElementOfSeq
    <2> QED
        BY <1>7, <1>8, <1>10, <2>1, SumMonotone
<1>12. \A i \in DOMAIN list : shrunk[i].row = list[i].row
    BY <1>3
<1>13. shrunk # <<>>
    BY <1>1, <1>6, EmptySeq
<1> QED
    BY <1>3, <1>6, <1>11, <1>12, <1>13 DEF Spent, shrunk

\* Fewer items with fewer missing roles cost no more, and what an answer costs is a number.
LEMMA DeliveredLess ==
    ASSUME vault \in Vault, items \in Seq(Item), NEW v, NEW w, NEW labels \in BOOLEAN,
           NEW kept \in SUBSET DOMAIN items,
           IsFiniteSet(v.missing), w.missing = v.missing \/ w.missing = {}
    PROVE  /\ DeliveredCost(kept, w, labels) \in Nat
           /\ DeliveredCost(DOMAIN items, v, labels) \in Nat
           /\ DeliveredCost(kept, w, labels) =< DeliveredCost(DOMAIN items, v, labels)
<1> DEFINE f == [i \in DOMAIN items |-> IF i \in kept THEN HeadCost + CostOf(items[i]) ELSE 0]
           g == [i \in DOMAIN items |-> IF i \in DOMAIN items THEN HeadCost + CostOf(items[i]) ELSE 0]
           a == RoleCost * Cardinality(w.missing)
           b == RoleCost * Cardinality(v.missing)
           c == IF Labelled(kept, w, labels) THEN LabelCost ELSE 0
           d == IF Labelled(DOMAIN items, v, labels) THEN LabelCost ELSE 0
<1>1. DOMAIN items = 1 .. Len(items) /\ Len(items) \in Nat /\ \A i \in 1 .. Len(items) : items[i] \in Item
    BY LenProperties, ElementOfSeq
<1>2. \A i \in 1 .. Len(items) : HeadCost + CostOf(items[i]) \in Nat
    BY <1>1, ItemCost, Prices
<1>3. f \in [1 .. Len(items) -> Nat] /\ g \in [1 .. Len(items) -> Nat] /\ \A i \in 1 .. Len(items) : f[i] =< g[i]
    BY <1>1, <1>2
<1>4. f \in Seq(Nat) /\ g \in Seq(Nat) /\ Len(f) = Len(items) /\ Len(g) = Len(items)
    <2> HIDE DEF f, g
    <2>1. f \in Seq(Nat)
        BY <1>1, <1>3, SeqDef
    <2>2. g \in Seq(Nat)
        BY <1>1, <1>3, SeqDef
    <2>3. Len(f) \in Nat /\ DOMAIN f = 1 .. Len(f) /\ Len(g) \in Nat /\ DOMAIN g = 1 .. Len(g)
        BY <2>1, <2>2, LenProperties
    <2>4. DOMAIN f = 1 .. Len(items) /\ DOMAIN g = 1 .. Len(items)
        BY <1>3
    <2>5. \A m, n \in Nat : 1 .. m = 1 .. n => m = n
        OBVIOUS
    <2>6. Len(f) = Len(items) /\ Len(g) = Len(items)
        BY <1>1, <2>3, <2>4, <2>5, Zenon
    <2> QED
        BY <2>1, <2>2, <2>6
<1>5. Sum(f) \in Nat /\ Sum(f) =< Sum(g) /\ Sum(g) \in Nat
    <2> HIDE DEF f, g
    <2>1. \A i \in 1 .. Len(g) : g[i] =< g[i]
        BY <1>4, ElementOfSeq
    <2> QED
        BY <1>3, <1>4, <2>1, SumMonotone
<1>6. a \in Nat /\ b \in Nat /\ a =< b
    <2>1. Cardinality(v.missing) \in Nat /\ Cardinality({}) = 0
        BY FS_CardinalityType, FS_EmptySet
    <2>2. b \in Nat
        BY <2>1, Prices
    <2>3. CASE w.missing = v.missing
        BY <2>2, <2>3
    <2>4. CASE w.missing = {}
        <3>1. a = 0
            BY <2>1, <2>4, Prices
        <3> HIDE DEF a, b
        <3> QED
            BY <2>2, <3>1
    <2> QED
        BY <2>3, <2>4
<1>7. c \in Nat /\ d \in Nat /\ c =< d
    BY Prices DEF Labelled
<1>8. /\ DeliveredCost(kept, w, labels) = Base + a + c + Sum(f)
      /\ DeliveredCost(DOMAIN items, v, labels) = Base + b + d + Sum(g)
    BY DEF DeliveredCost
<1> HIDE DEF a, b, c, d, f, g
<1> QED
    BY <1>5, <1>6, <1>7, <1>8, Prices
-----------------------------------------------------------------------------
(* The invariant.                                                          *)

\* The verdict is true of the items while they are fitted.
VerdictTrue ==
    /\ verdict.state \in {"sufficient_context", "partial_context", "insufficient_evidence",
                          "conflicting_evidence", "no_retrieval_needed"}
    /\ verdict.state = "sufficient_context" => items # <<>> /\ Needed[ctx] \subseteq Roles(items)
    /\ verdict.state \in {"partial_context", "insufficient_evidence", "conflicting_evidence"} =>
           verdict.missing = Needed[ctx] \ Roles(items)
    /\ verdict.state = "conflicting_evidence" => items = <<>>

Spending == remaining + Spent(items) =< asked.budget - Reserved

Decided ==
    /\ pc = "gate" => found = {}
    /\ pc \in {"gate", "search", "score"} => items = <<>> /\ decisions = {}
    /\ pc # "done" => \A i \in DOMAIN items : \E d \in decisions : d.row = items[i].row
    /\ \A d, e \in decisions : d.row = e.row => d = e

Judged ==
    /\ verdict.missing \subseteq Needed[ctx]
    /\ pc \in {"fit", "deliver"} => VerdictTrue
    /\ pc = "deliver" => ~Refused

Answered ==
    /\ pc = "done" => used =< asked.budget
    /\ StateTellsDelivery
    /\ DecisionsTellDelivery

RetrievalIInv == TypeOK /\ Spending /\ Decided /\ Judged /\ Answered

\* What is fitted is judged again.
LEMMA Verdicts ==
    ASSUME NEW list,
           verdict' \in {Sufficiency(list), [Nothing EXCEPT !.state = "no_retrieval_needed"]} \/
           (list = <<>> /\ verdict' = [Sufficiency(list) EXCEPT !.state = "conflicting_evidence"]),
           items' = list, UNCHANGED <<vault, ctx>>
    PROVE  VerdictTrue' /\ verdict'.missing \subseteq Needed[ctx]
<1>1. Needed' = Needed /\ Roles(list)' = Roles(items)' /\ Roles(list)' = Roles(list)
    BY DEF Roles
<1>2. list = <<>> => Roles(list) = {}
    BY DEF Roles
<1>3. CASE verdict' = Sufficiency(list)
    <2>1. CASE list = <<>>
        BY <1>1, <1>2, <1>3, <2>1 DEF Sufficiency, VerdictTrue
    <2>2. CASE list # <<>>
        BY <1>1, <1>3, <2>2 DEF Sufficiency, VerdictTrue
    <2> QED
        BY <2>1, <2>2
<1>4. CASE verdict' = [Nothing EXCEPT !.state = "no_retrieval_needed"]
    BY <1>1, <1>4 DEF Nothing, VerdictTrue
<1>5. CASE list = <<>> /\ verdict' = [Sufficiency(list) EXCEPT !.state = "conflicting_evidence"]
    BY <1>1, <1>2, <1>5 DEF Sufficiency, VerdictTrue
<1> QED
    BY <1>3, <1>4, <1>5

LEMMA Highest ==
    ASSUME NEW S \in SUBSET Layer, S # {}
    PROVE  Max(S) \in S
<1>1. S \subseteq {0, 1, 2}
    BY DEF Layer
<1>2. \E x \in S : \A y \in S : x >= y
    <2>1. CASE 2 \in S
        BY <1>1, <2>1
    <2>2. CASE 2 \notin S /\ 1 \in S
        BY <1>1, <2>2
    <2>3. CASE 2 \notin S /\ 1 \notin S
        <3>1. S = {0}
            BY <1>1, <2>3
        <3> QED
            BY <3>1
    <2> QED
        BY <2>1, <2>2, <2>3
<1> QED
    BY <1>2 DEF Max

LEMMA InitRetrieval == Init => RetrievalIInv
<1> SUFFICES ASSUME Init PROVE RetrievalIInv
    OBVIOUS
<1>1. asked.budget \in Nat /\ Reserved \in Nat /\ Reserved =< asked.budget
    BY Prices DEF Init
<1>2. Spent(<<>>) = 0
    <2> DEFINE f == [i \in DOMAIN <<>> |-> Wrap + CostOf(<<>>[i])]
    <2>1. f = <<>>
        OBVIOUS
    <2>2. <<>> \in Seq(Nat) /\ Len(<<>>) = 0
        BY EmptySeq
    <2>3. Sum(<<>>) = 0
        BY <2>2, SumsAre, SumsStep
    <2> HIDE DEF f
    <2> QED
        BY <2>1, <2>3 DEF Spent, f
<1>3. TypeOK
    <2>1. items \in Seq([row : Row, layer : Layer])
        BY DEF Init
    <2>2. remaining \in 0 .. asked.budget
        BY <1>1 DEF Init
    <2> QED
        BY <2>1, <2>2 DEF Init, TypeOK
<1>4. Spending
    BY <1>1, <1>2 DEF Init, Spending
<1>5. Decided /\ Judged /\ Answered
    BY DEF Init, Decided, Judged, Answered, Nothing, StateTellsDelivery, DecisionsTellDelivery
<1> QED
    BY <1>3, <1>4, <1>5 DEF RetrievalIInv
-----------------------------------------------------------------------------
(* One lemma per action.                                                   *)

\* A step that touches neither the items nor what they cost.
LEMMA ItemsStay ==
    ASSUME UNCHANGED <<vault, ctx, asked, items>>
    PROVE  /\ Spent(items)' = Spent(items) /\ Roles(items)' = Roles(items)
           /\ remaining' = remaining /\ Spending => Spending'
           /\ verdict' = verdict /\ VerdictTrue => VerdictTrue'
<1>1. Spent(items)' = Spent(items)
    BY DEF Spent, CostOf
<1>2. Roles(items)' = Roles(items)
    BY DEF Roles
<1> QED
    BY <1>1, <1>2 DEF Spending, VerdictTrue

\* One decision more, of a row that has none.
LEMMA OneDecisionMore ==
    ASSUME NEW D \in SUBSET [row : Row, selected : BOOLEAN], NEW r \in Row, NEW b \in BOOLEAN,
           \A d, e \in D : d.row = e.row => d = e, \A d \in D : d.row # r
    PROVE  LET more == D \cup {[row |-> r, selected |-> b]} IN
           /\ more \subseteq [row : Row, selected : BOOLEAN]
           /\ \A d, e \in more : d.row = e.row => d = e
<1> DEFINE new == [row |-> r, selected |-> b]
<1>1. new \in [row : Row, selected : BOOLEAN] /\ new.row = r
    OBVIOUS
<1> HIDE DEF new
<1>2. D \cup {new} \subseteq [row : Row, selected : BOOLEAN]
    BY <1>1
<1>3. ASSUME NEW d \in D \cup {new}, NEW e \in D \cup {new}, d.row = e.row PROVE d = e
    BY <1>1, <1>3
<1> QED
    BY <1>2, <1>3 DEF new

LEMMA NotSelected ==
    ASSUME NEW R \in SUBSET Row
    PROVE  LET refused == {[row |-> r, selected |-> FALSE] : r \in R} IN
           /\ refused \subseteq [row : Row, selected : BOOLEAN]
           /\ \A d, e \in refused : d.row = e.row => d = e
<1>1. \A r \in R : [row |-> r, selected |-> FALSE] \in [row : Row, selected : BOOLEAN]
    OBVIOUS
<1>2. \A r \in R : [row |-> r, selected |-> FALSE].row = r
    OBVIOUS
<1> QED
    BY <1>1, <1>2

LEMMA GateStep == ASSUME RetrievalIInv, Gate PROVE RetrievalIInv'
<1> USE DEF RetrievalIInv, inputs
<1>1. eligible' \subseteq Row
    <2>1. eligible' \subseteq DOMAIN vault
        BY DEF Gate, Eligible, Passing
    <2> QED
        BY <2>1, RetrievalAssumption DEF TypeOK
<1>2. TypeOK'
    BY <1>1 DEF TypeOK, Gate, Decided
<1>3. Spending'
    BY ItemsStay DEF Gate
<1>4. Decided'
    BY DEF Gate, Decided
<1>5. Judged'
    BY DEF Gate, Judged
<1>6. Answered'
    BY DEF Gate, Answered, StateTellsDelivery, DecisionsTellDelivery, Decided
<1> QED
    BY <1>2, <1>3, <1>4, <1>5, <1>6

LEMMA SearchStep == ASSUME RetrievalIInv, Search PROVE RetrievalIInv'
<1> USE DEF RetrievalIInv, inputs
<1>1. found' \subseteq eligible
    <2>1. CASE asked.route = "none"
        BY <2>1 DEF Search
    <2>2. CASE asked.route # "none"
        <3>1. PICK hits \in Hits(eligible) : \E seeds \in SUBSET Row :
                found' = hits \cup (IF asked.route = "lexical" THEN {} ELSE Neighbours(seeds))
            <4>1. \A hits \in Hits(eligible) : hits \subseteq Row
                BY DEF Hits, kSubset, TypeOK
            <4> QED
                BY <2>2, <4>1 DEF Search, kSubset
        <3>2. hits \subseteq eligible
            BY DEF Hits, kSubset
        <3> QED
            BY <3>1, <3>2 DEF Neighbours
    <2> QED
        BY <2>1, <2>2
<1>2. TypeOK'
    BY <1>1 DEF TypeOK, Search
<1>3. Spending'
    BY ItemsStay DEF Search
<1>4. Decided'
    BY DEF Search, Decided
<1>5. Judged'
    BY DEF Search, Judged
<1>6. Answered'
    BY DEF Search, Answered, StateTellsDelivery, DecisionsTellDelivery, Decided
<1> QED
    BY <1>2, <1>3, <1>4, <1>5, <1>6

LEMMA ScoreStep == ASSUME RetrievalIInv, Score PROVE RetrievalIInv'
<1> USE DEF RetrievalIInv, inputs
<1>1. PICK enough \in SUBSET found :
        /\ found' = enough
        /\ excluded' = excluded \cup (found \ enough)
        /\ decisions' = {[row |-> r, selected |-> FALSE] : r \in found \ enough}
    BY DEF Score, Enough
<1>2. TypeOK'
    <2>1. found \ enough \subseteq Row
        BY DEF TypeOK
    <2>2. decisions' \subseteq [row : Row, selected : BOOLEAN]
        BY <1>1, <2>1, NotSelected
    <2> QED
        BY <1>1, <2>1, <2>2 DEF TypeOK, Score
<1>3. Spending'
    BY ItemsStay DEF Score
<1>4. Decided'
    <2>1. items' = <<>> /\ pc' = "allocate"
        BY DEF Score, Decided
    <2>2. \A d, e \in decisions' : d.row = e.row => d = e
        <3>1. found \ enough \subseteq Row
            BY DEF TypeOK
        <3> QED
            BY <1>1, <3>1, NotSelected
    <2> QED
        BY <2>1, <2>2 DEF Decided
<1>5. Judged'
    BY DEF Score, Judged
<1>6. Answered'
    BY <1>4 DEF Score, Answered, StateTellsDelivery, DecisionsTellDelivery, Decided
<1> QED
    BY <1>2, <1>3, <1>4, <1>5, <1>6

\* What is taken is a layer that the note has and that can be paid for.
LEMMA PayloadIsLayer ==
    ASSUME RetrievalIInv, NEW r \in Row, NEW wish, Payload(r, wish) # None
    PROVE  Payload(r, wish) \in Layer
<1> DEFINE texts == {l \in vault[r].own : l =< wish}
           fit(preferred, most) == {l \in 0 .. preferred : vault[r].cost[l] > 0 /\ vault[r].cost[l] =< most}
<1>1. SelectLayer(vault[r], wish) \in Layer
    <2>1. CASE texts = {}
        BY <2>1 DEF SelectLayer, Layer
    <2>2. CASE texts # {}
        <3>1. texts \subseteq Layer
            BY Prices DEF RetrievalIInv, TypeOK
        <3>2. Max(texts) \in texts
            <4> HIDE DEF texts
            <4> QED
                BY <2>2, <3>1, Highest
        <3> QED
            BY <2>2, <3>1, <3>2 DEF SelectLayer
    <2> QED
        BY <2>1, <2>2
<1>2. Preferred(r, wish) \in Layer
    BY <1>1 DEF Preferred, Layer
<1> DEFINE low == fit(Preferred(r, wish), IF remaining > Wrap THEN remaining - Wrap ELSE 0)
<1>3. low \subseteq Layer
    BY <1>2 DEF Layer
<1>4. low # {} /\ Payload(r, wish) = Max(low)
    BY DEF Payload, Compile
<1> HIDE DEF low
<1> QED
    BY <1>3, <1>4, Highest

LEMMA TakeStep ==
    ASSUME RetrievalIInv, NEW r \in Pool, NEW wish \in Wishes, Take(r, wish)
    PROVE  RetrievalIInv'
<1> USE DEF RetrievalIInv, inputs
<1> DEFINE layer == Payload(r, wish)
           item == [row |-> r, layer |-> layer]
           price == vault[r].cost[layer]
<1>1. r \in Row /\ r \in found /\ \A d \in decisions : d.row # r
    BY DEF Pool, TypeOK
<1>2. layer \in Layer
    BY <1>1, PayloadIsLayer DEF Take, Fits
<1>3. item \in Item /\ CostOf(item) = price
    BY <1>1, <1>2 DEF Item, CostOf
<1>4. /\ items' = Append(items, item) /\ remaining' = remaining - (price + Wrap)
      /\ price + Wrap =< remaining
      /\ decisions' = decisions \cup {[row |-> r, selected |-> TRUE]}
      /\ UNCHANGED <<vault, ctx, asked, matches, pc, eligible, found, excluded, label, verdict, delivered, used>>
      /\ pc = "allocate"
    BY DEF Take, Fits
<1> HIDE DEF item, price, layer
<1>5. /\ items' \in Seq(Item) /\ Spent(items) \in Nat /\ price \in Nat
      /\ Spent(Append(items, item)) = Spent(items) + (Wrap + price)
    BY <1>3, <1>4, SpentAppend DEF TypeOK, Item
<1>6. Spent(items)' = Spent(Append(items, item))
    BY <1>4 DEF Spent, CostOf
<1>7. remaining' \in 0 .. asked.budget /\ remaining' + (Wrap + price) = remaining
    BY <1>4, <1>5, Prices DEF TypeOK
<1>8. TypeOK'
    <2>1. items' \in Seq([row : Row, layer : Layer])
        BY <1>5 DEF Item
    <2>2. decisions' \subseteq [row : Row, selected : BOOLEAN]
        BY <1>1, <1>4, OneDecisionMore DEF TypeOK, Decided
    <2> QED
        BY <1>4, <1>7, <2>1, <2>2 DEF TypeOK
<1>9. Spending'
    <2>1. asked'.budget = asked.budget
        BY <1>4
    <2>2. remaining' \in Nat /\ Spent(items) \in Nat /\ price \in Nat /\ Wrap \in Nat /\ remaining \in Nat
        BY <1>5, <1>7, Prices DEF TypeOK
    <2>3. remaining' + Spent(items)' = remaining + Spent(items)
        <3>2. Spent(items)' = Spent(items) + (Wrap + price)
            BY <1>5, <1>6
        <3>3. remaining' + (Wrap + price) = remaining
            BY <1>7
        <3>4. remaining' + (Spent(items) + (Wrap + price)) = remaining + Spent(items)
            <4> DEFINE b == Spent(items)
                       c == price
                       d == remaining
                       e == remaining'
            <4>1. b \in Nat /\ c \in Nat /\ d \in Nat /\ e \in Nat /\ Wrap \in Nat /\ e + (Wrap + c) = d
                BY <2>2, <3>3
            <4> HIDE DEF b, c, d, e
            <4>2. e + (b + (Wrap + c)) = d + b
                BY <4>1
            <4> QED
                BY <4>2 DEF b, c, d, e
        <3> QED
            BY <3>2, <3>4, Zenon
    <2> QED
        BY <2>1, <2>3 DEF Spending
<1>10. Decided'
    <2>1. \A i \in DOMAIN items' : \E d \in decisions' : d.row = items'[i].row
        <3> TAKE i \in DOMAIN items'
        <3>1. /\ Len(items) \in Nat /\ DOMAIN items = 1 .. Len(items) /\ DOMAIN items' = 1 .. Len(items) + 1
              /\ items'[Len(items) + 1] = item /\ \A j \in 1 .. Len(items) : items'[j] = items[j]
            BY <1>3, <1>4, <1>5, AppendProperties, LenProperties DEF TypeOK, Item
        <3>2. CASE i \in 1 .. Len(items)
            <4>1. items'[i] = items[i] /\ i \in DOMAIN items
                BY <3>1, <3>2
            <4>2. PICK d \in decisions : d.row = items[i].row
                BY <1>4, <4>1 DEF Decided
            <4> QED
                BY <1>4, <4>1, <4>2
        <3>3. CASE i = Len(items) + 1
            <4>1. items'[i].row = r
                BY <3>1, <3>3 DEF item
            <4>2. [row |-> r, selected |-> TRUE] \in decisions'
                BY <1>4
            <4> QED
                BY <4>1, <4>2
        <3> QED
            BY <3>1, <3>2, <3>3
    <2>2. \A d, e \in decisions' : d.row = e.row => d = e
        BY <1>1, <1>4, OneDecisionMore DEF TypeOK, Decided
    <2> QED
        BY <1>4, <2>1, <2>2 DEF Decided
<1>11. Judged'
    BY <1>4 DEF Judged
<1>12. Answered'
    BY <1>4, <1>10 DEF Answered, StateTellsDelivery, DecisionsTellDelivery, Decided
<1> QED
    BY <1>8, <1>9, <1>10, <1>11, <1>12

LEMMA PassOverStep ==
    ASSUME RetrievalIInv, NEW r \in Pool, NEW wish \in Wishes, PassOver(r, wish)
    PROVE  RetrievalIInv'
<1> USE DEF RetrievalIInv, inputs
<1>1. r \in Row /\ \A d \in decisions : d.row # r
    BY DEF Pool, TypeOK
<1>2. TypeOK'
    <2>1. decisions' \subseteq [row : Row, selected : BOOLEAN]
        BY <1>1, OneDecisionMore DEF TypeOK, PassOver, Decided
    <2> QED
        BY <1>1, <2>1 DEF TypeOK, PassOver
<1>3. Spending'
    BY ItemsStay DEF PassOver
<1>4. Decided'
    <2>1. \A d, e \in decisions' : d.row = e.row => d = e
        <3>1. decisions' = decisions \cup {[row |-> r, selected |-> FALSE]}
            BY DEF PassOver
        <3>2. decisions \subseteq [row : Row, selected : BOOLEAN] /\ \A d, e \in decisions : d.row = e.row => d = e
            BY DEF TypeOK, Decided
        <3> QED
            BY <1>1, <3>1, <3>2, OneDecisionMore
    <2>2. pc = "allocate" /\ UNCHANGED <<pc, items>> /\ decisions \subseteq decisions'
        BY DEF PassOver
    <2> QED
        BY <2>1, <2>2 DEF Decided
<1>5. Judged'
    BY DEF PassOver, Judged
<1>6. Answered'
    BY <1>4 DEF PassOver, Answered, StateTellsDelivery, DecisionsTellDelivery, Decided
<1> QED
    BY <1>2, <1>3, <1>4, <1>5, <1>6

LEMMA AllocateDoneStep == ASSUME RetrievalIInv, AllocateDone PROVE RetrievalIInv'
<1> USE DEF RetrievalIInv, inputs
<1>1. TypeOK'
    BY DEF TypeOK, AllocateDone
<1>2. Spending'
    BY ItemsStay DEF AllocateDone
<1>3. Decided'
    BY DEF AllocateDone, Decided
<1>4. VerdictTrue' /\ verdict'.missing \subseteq Needed[ctx]
    BY Verdicts DEF AllocateDone, FirstVerdict
<1>5. Judged'
    BY <1>4 DEF AllocateDone, Judged
<1>6. Answered'
    BY <1>3 DEF AllocateDone, Answered, StateTellsDelivery, DecisionsTellDelivery, Decided
<1> QED
    BY <1>1, <1>2, <1>3, <1>5, <1>6
LEMMA DropLabelsStep == ASSUME RetrievalIInv, DropLabels PROVE RetrievalIInv'
<1> USE DEF RetrievalIInv, inputs
<1>1. pc = "fit"
    BY DEF DropLabels, Fitting
<1>2. TypeOK'
    BY DEF TypeOK, DropLabels
<1>3. Spending'
    BY ItemsStay DEF DropLabels
<1>4. Decided'
    BY DEF DropLabels, Decided
<1>5. Judged'
    BY <1>1, ItemsStay DEF DropLabels, Judged
<1>6. Answered'
    BY <1>1 DEF DropLabels, Answered, StateTellsDelivery, DecisionsTellDelivery
<1> QED
    BY <1>2, <1>3, <1>4, <1>5, <1>6

\* What the two ways to refit have in common: the list costs no more and is of the same rows.
LEMMA RefitStep ==
    ASSUME RetrievalIInv, pc = "fit", NEW list, Refit(list),
           list \in Seq(Item), Spent(list) \in Nat, Spent(items) \in Nat, Spent(list) =< Spent(items),
           \A i \in DOMAIN list : i \in DOMAIN items /\ list[i].row = items[i].row,
           UNCHANGED <<inputs, pc, eligible, found, remaining, decisions, label, delivered, used>>,
           excluded' \subseteq Row
    PROVE  RetrievalIInv'
<1> USE DEF RetrievalIInv, inputs
<1>1. items' = list /\ verdict' = Sufficiency(list)
    BY DEF Refit
<1>2. TypeOK'
    <2>1. items' \in Seq([row : Row, layer : Layer])
        BY <1>1 DEF Item
    <2> QED
        BY <2>1 DEF TypeOK
<1>3. Spending'
    <2>1. Spent(items)' = Spent(list)
        BY <1>1 DEF Spent, CostOf
    <2>2. \A a, b, c, d \in Nat : b =< c /\ a + c =< d => a + b =< d
        OBVIOUS
    <2>3. remaining \in Nat /\ asked.budget - Reserved \in Nat
        BY Prices DEF TypeOK
    <2>4. remaining + Spent(list) =< asked.budget - Reserved
        BY <2>2, <2>3, Zenon DEF Spending
    <2> QED
        BY <2>1, <2>4 DEF Spending
<1>4. Decided'
    BY <1>1 DEF Decided
<1>5. VerdictTrue' /\ verdict'.missing \subseteq Needed[ctx]
    BY <1>1, Verdicts
<1>6. Judged'
    BY <1>5 DEF Judged
<1>7. Answered'
    BY DEF Answered, StateTellsDelivery, DecisionsTellDelivery
<1> QED
    BY <1>2, <1>3, <1>4, <1>6, <1>7

LEMMA ShrinkLastStep == ASSUME RetrievalIInv, ShrinkLast PROVE RetrievalIInv'
<1> USE DEF RetrievalIInv, inputs
<1> DEFINE last == items[Len(items)]
           lower == {l \in 0 .. 1 : l < last.layer /\ vault[last.row].cost[l] > 0
                                    /\ vault[last.row].cost[l] < vault[last.row].cost[last.layer]}
           list == [items EXCEPT ![Len(items)].layer = Smaller]
<1>1. pc = "fit" /\ items # <<>> /\ Refit(list) /\ Smaller # None
    BY DEF ShrinkLast, Fitting, TooLarge
<1>2. lower \subseteq Layer /\ lower # {} /\ Smaller = Max(lower)
    <2>1. Smaller = IF lower = {} THEN None ELSE Max(lower)
        BY DEF Smaller
    <2>2. lower \subseteq Layer
        BY DEF Layer
    <2> HIDE DEF lower
    <2> QED
        BY <1>1, <2>1, <2>2
<1>3. Smaller \in lower
    <2> HIDE DEF lower
    <2> QED
        BY <1>2, Highest
<1>4. items \in Seq(Item) /\ vault \in Vault
    BY DEF TypeOK, Item
<1>5. last \in Item
    BY <1>1, <1>4, ElementOfSeq, LenProperties, EmptySeq
<1>6. vault[last.row].cost[Smaller] \in Nat /\ CostOf(last) \in Nat /\ vault[last.row].cost[Smaller] =< CostOf(last)
    <2>1. vault[last.row].cost[Smaller] \in Nat
        BY <1>2, <1>3, <1>4, <1>5, Prices DEF Item
    <2>2. CostOf(last) \in Nat
        BY <1>4, <1>5, ItemCost
    <2>3. vault[last.row].cost[Smaller] < CostOf(last)
        BY <1>3 DEF CostOf
    <2> QED
        BY <2>1, <2>2, <2>3
<1>7. /\ list \in Seq(Item) /\ DOMAIN list = DOMAIN items /\ \A i \in DOMAIN items : list[i].row = items[i].row
      /\ Spent(list) \in Nat /\ Spent(items) \in Nat /\ Spent(list) =< Spent(items)
    <2>1. Smaller \in Layer
        BY <1>2, <1>3
    <2>2. vault[items[Len(items)].row].cost[Smaller] =< CostOf(items[Len(items)])
        BY <1>6
    <2> QED
        BY <1>1, <1>4, <2>1, <2>2, SpentShrunk
<1> HIDE DEF list
<1>8. /\ UNCHANGED <<inputs, pc, eligible, found, remaining, decisions, label, delivered, used>>
      /\ excluded' \subseteq Row
    BY DEF ShrinkLast, TypeOK
<1> QED
    BY <1>1, <1>7, <1>8, RefitStep

LEMMA DropLastStep == ASSUME RetrievalIInv, DropLast PROVE RetrievalIInv'
<1> USE DEF RetrievalIInv, inputs
<1> DEFINE list == SubSeq(items, 1, Len(items) - 1)
<1>1. pc = "fit" /\ items # <<>> /\ Refit(list)
    BY DEF DropLast, Fitting, TooLarge
<1>2. items \in Seq(Item) /\ vault \in Vault
    BY DEF TypeOK, Item
<1>3. /\ list \in Seq(Item)
      /\ \A i \in DOMAIN list : i \in DOMAIN items /\ list[i] = items[i]
      /\ Spent(list) \in Nat /\ Spent(items) \in Nat /\ Spent(list) =< Spent(items)
    BY <1>1, <1>2, SpentFront
<1>4. items[Len(items)] \in Item
    BY <1>1, <1>2, ElementOfSeq, LenProperties, EmptySeq
<1>5. /\ UNCHANGED <<inputs, pc, eligible, found, remaining, decisions, label, delivered, used>>
      /\ excluded' \subseteq Row
    BY <1>4 DEF DropLast, TypeOK, Item
<1> HIDE DEF list
<1> QED
    BY <1>1, <1>3, <1>5, RefitStep

LEMMA FitDoneStep == ASSUME RetrievalIInv, FitDone PROVE RetrievalIInv'
<1> USE DEF RetrievalIInv, inputs
<1>1. pc = "fit" /\ pc' \in {"refused", "deliver"} /\ pc' = IF Refused THEN "refused" ELSE "deliver"
    BY DEF FitDone
<1>2. TypeOK'
    BY <1>1 DEF TypeOK, FitDone
<1>3. Spending'
    BY ItemsStay DEF FitDone
<1>4. Decided'
    BY <1>1 DEF FitDone, Decided
<1>5. Judged'
    <2>1. Refused' = Refused
        BY DEF Refused, Cost, DeliveredCost, Labelled, CostOf, FitDone
    <2> QED
        BY <1>1, <2>1, ItemsStay DEF FitDone, Judged
<1>6. Answered'
    BY <1>1, <1>4 DEF FitDone, Answered, StateTellsDelivery, DecisionsTellDelivery, Decided
<1> QED
    BY <1>2, <1>3, <1>4, <1>5, <1>6
\* What the decisions are corrected to says selected of just the rows delivered.
LEMMA CorrectedTells ==
    ASSUME NEW rows, decisions \in SUBSET [row : Row, selected : BOOLEAN],
           \A d, e \in decisions : d.row = e.row => d = e,
           \A r \in rows : \E d \in decisions : d.row = r
    PROVE  /\ Corrected(rows) \subseteq [row : Row, selected : BOOLEAN]
           /\ \A d, e \in Corrected(rows) : d.row = e.row => d = e
           /\ {d.row : d \in {e \in Corrected(rows) : e.selected}} = rows
<1> DEFINE as(d) == [row |-> d.row, selected |-> d.row \in rows]
<1>1. \A d \in decisions : /\ as(d) \in [row : Row, selected : BOOLEAN]
                           /\ as(d).row = d.row /\ as(d).selected = (d.row \in rows)
    OBVIOUS
<1>2. Corrected(rows) = {as(d) : d \in decisions}
    BY DEF Corrected
<1> HIDE DEF as
<1>3. \A d, e \in Corrected(rows) : d.row = e.row => d = e
    <2> TAKE g, h \in Corrected(rows)
    <2> HAVE g.row = h.row
    <2>1. PICK d \in decisions : g = as(d)
        BY <1>2
    <2>2. PICK e \in decisions : h = as(e)
        BY <1>2
    <2>3. d.row = e.row
        BY <1>1, <2>1, <2>2
    <2>4. d = e
        BY <2>3
    <2> QED
        BY <2>1, <2>2, <2>4
<1>4. ASSUME NEW r \in rows PROVE \E e \in Corrected(rows) : e.selected /\ e.row = r
    <2>1. PICK d \in decisions : d.row = r
        OBVIOUS
    <2>2. as(d) \in Corrected(rows)
        BY <1>2, <2>1
    <2> QED
        BY <1>1, <2>1, <2>2
<1>5. ASSUME NEW e \in Corrected(rows), e.selected PROVE e.row \in rows
    <2>1. PICK d \in decisions : e = as(d)
        BY <1>2
    <2> QED
        BY <1>1, <1>5, <2>1
<1>6. Corrected(rows) \subseteq [row : Row, selected : BOOLEAN]
    <2>1. \A d \in decisions : as(d) \in [row : Row, selected : BOOLEAN]
        BY <1>1
    <2> SUFFICES ASSUME NEW g \in Corrected(rows) PROVE g \in [row : Row, selected : BOOLEAN]
        OBVIOUS
    <2>2. PICK d \in decisions : g = as(d)
        BY <1>2
    <2> QED
        BY <2>1, <2>2
<1>7. {d.row : d \in {e \in Corrected(rows) : e.selected}} = rows
    BY <1>4, <1>5
<1> QED
    BY <1>3, <1>6, <1>7

LEMMA DeliverStep == ASSUME RetrievalIInv, Deliver PROVE RetrievalIInv'
<1> USE DEF RetrievalIInv, inputs
<1> DEFINE known == items # <<>> /\ News = {}
           last == IF known THEN [Nothing EXCEPT !.state = "unchanged_context"] ELSE verdict
           rows == {items[i].row : i \in News}
<1>1. /\ pc = "deliver" /\ pc' = "done"
      /\ verdict' = last
      /\ used' = IF Cost > asked.budget THEN Least ELSE DeliveredCost(News, last, label)
      /\ delivered' = rows
      /\ decisions' = IF asked.record THEN Corrected(rows) ELSE {}
      /\ UNCHANGED <<vault, ctx, asked, matches, eligible, found, items, remaining, excluded, label>>
    BY DEF Deliver
<1>2. /\ verdict.missing \subseteq Needed[ctx] /\ VerdictTrue /\ ~Refused
    BY <1>1 DEF Judged
<1>3. items \in Seq(Item) /\ vault \in Vault
    BY DEF TypeOK, Item
<1>4. News \subseteq DOMAIN items
    BY DEF News
<1>5. last.missing = verdict.missing \/ last.missing = {}
    BY DEF Nothing
<1>6. IsFiniteSet(verdict.missing)
    BY <1>2, RetrievalAssumption, FS_Subset DEF TypeOK
<1> HIDE DEF last
<1>7. /\ DeliveredCost(News, last, label) \in Nat /\ Cost \in Nat
      /\ DeliveredCost(News, last, label) =< Cost
    BY <1>3, <1>4, <1>5, <1>6, DeliveredLess DEF Cost, TypeOK, Item
<1>8. used' \in Nat /\ used' =< asked.budget
    <2>1. asked.budget \in Nat /\ Least \in Nat
        BY Prices DEF TypeOK
    <2>2. CASE Cost > asked.budget
        <3>1. used' = Least /\ ~(Least > asked.budget)
            BY <1>1, <1>2, <2>2 DEF Refused
        <3> QED
            BY <2>1, <3>1
    <2>3. CASE ~(Cost > asked.budget)
        <3>1. used' = DeliveredCost(News, last, label)
            BY <1>1, <2>3
        <3> HIDE DEF rows
        <3> QED
            BY <1>7, <2>1, <2>3, <3>1
    <2> QED
        BY <2>2, <2>3
<1>9. /\ \A i \in DOMAIN items : items[i] \in Item
      /\ rows \subseteq Row /\ \A r \in rows : \E d \in decisions : d.row = r
    <2>1. \A i \in DOMAIN items : items[i] \in Item
        BY <1>3, ElementOfSeq, LenProperties
    <2>2. \A i \in DOMAIN items : \E d \in decisions : d.row = items[i].row
        BY <1>1 DEF Decided
    <2> QED
        BY <1>4, <2>1, <2>2 DEF Item
<1> HIDE DEF rows
<1>10. /\ decisions' \subseteq [row : Row, selected : BOOLEAN]
       /\ \A d, e \in decisions' : d.row = e.row => d = e
       /\ asked.record => {d.row : d \in {e \in decisions' : e.selected}} = rows
    <2>1. /\ Corrected(rows) \subseteq [row : Row, selected : BOOLEAN]
          /\ \A d, e \in Corrected(rows) : d.row = e.row => d = e
          /\ {d.row : d \in {e \in Corrected(rows) : e.selected}} = rows
        BY <1>9, CorrectedTells DEF TypeOK, Decided
    <2>2. CASE asked.record
        <3>1. decisions' = Corrected(rows)
            BY <1>1, <2>2
        <3> QED
            BY <2>1, <3>1
    <2>3. CASE ~asked.record
        BY <1>1, <2>3
    <2> QED
        BY <2>2, <2>3
<1>11. TypeOK'
    BY <1>1, <1>8, <1>9, <1>10 DEF TypeOK
<1>12. Spending'
    BY <1>1, ItemsStay
<1>13. Decided'
    BY <1>1, <1>10 DEF Decided
<1>14. Judged'
    BY <1>1, <1>2, <1>5 DEF Judged
<1>15. StateTellsDelivery'
    <2>1. CASE known
        <3>1. verdict'.state = "unchanged_context"
            BY <1>1, <2>1 DEF last, Nothing
        <3>2. \A i \in DOMAIN items : asked.known[items[i].row] = items[i].layer
            BY <2>1 DEF News
        <3> QED
            BY <1>1, <3>1, <3>2 DEF StateTellsDelivery
    <2>2. CASE ~known
        <3>1. verdict' = verdict
            BY <1>1, <2>2 DEF last
        <3>2. VerdictTrue'
            BY <1>1, <1>2, <3>1, ItemsStay
        <3>3. verdict.state = "conflicting_evidence" => delivered' = {}
            <4>1. items = <<>> => rows = {}
                BY DEF rows, News
            <4> QED
                BY <1>1, <1>2, <4>1 DEF VerdictTrue
        <3> QED
            BY <1>1, <3>1, <3>2, <3>3 DEF VerdictTrue, StateTellsDelivery
    <2> QED
        BY <2>1, <2>2
<1>16. DecisionsTellDelivery'
    BY <1>1, <1>10 DEF DecisionsTellDelivery
<1>17. Answered'
    <2>1. asked' = asked
        BY <1>1
    <2> QED
        BY <1>8, <1>15, <1>16, <2>1 DEF Answered
<1> QED
    BY <1>11, <1>12, <1>13, <1>14, <1>17
-----------------------------------------------------------------------------
(* The theorems.                                                           *)

LEMMA RetrievalStep == ASSUME RetrievalIInv, [Next]_vars PROVE RetrievalIInv'
<1>1. CASE Next
    <2>1. CASE Allocate
        BY <2>1, TakeStep, PassOverStep DEF Allocate
    <2>2. CASE Fit
        BY <2>2, DropLabelsStep, ShrinkLastStep, DropLastStep DEF Fit
    <2> QED
        BY <1>1, <2>1, <2>2, GateStep, SearchStep, ScoreStep, AllocateDoneStep, FitDoneStep, DeliverStep DEF Next
<1>2. CASE UNCHANGED vars
    <2>1. Spending'
        BY <1>2, ItemsStay DEF RetrievalIInv, vars
    <2>2. TypeOK' /\ Decided' /\ Answered'
        BY <1>2 DEF RetrievalIInv, vars, TypeOK, Decided, Answered, StateTellsDelivery, DecisionsTellDelivery, Roles
    <2>3. Judged'
        BY <1>2 DEF RetrievalIInv, vars, Judged, VerdictTrue, Roles, Refused, Cost, DeliveredCost, Labelled, CostOf
    <2> QED
        BY <2>1, <2>2, <2>3 DEF RetrievalIInv
<1> QED
    BY <1>1, <1>2

\* The invariant of one call of retrieve: what it may still spend and has spent stays within
\* the budget, rows taken have a decision of their own, the verdict is true of the items.
THEOREM RetrievalInductive == Spec => []RetrievalIInv
    BY InitRetrieval, RetrievalStep, PTL DEF Spec

\* What Retriever.retrieve delivers never costs more than the budget, whatever the notes cost
\* and whatever is shortened, dropped or left out as known; the allocation never overspends.
THEOREM BudgetIsKept == Spec => []FitsBudget
<1>1. RetrievalIInv => FitsBudget
    BY DEF RetrievalIInv, Answered, Spending, Spent, FitsBudget
<1> QED
    BY <1>1, RetrievalInductive, PTL

\* The state of an answer is true of the items it ends with, after they were shortened,
\* dropped, or found to be known to the host.
THEOREM StateIsTrue == Spec => []StateTellsDelivery
<1>1. RetrievalIInv => StateTellsDelivery
    BY DEF RetrievalIInv, Answered
<1> QED
    BY <1>1, RetrievalInductive, PTL

\* What is recorded as selected is what was delivered, and no row has two decisions.
THEOREM DecisionsAreTrue == Spec => []DecisionsTellDelivery
<1>1. RetrievalIInv => DecisionsTellDelivery
    BY DEF RetrievalIInv, Answered
<1> QED
    BY <1>1, RetrievalInductive, PTL

\* The MCP server lists and shows no note that retrieve would not deliver in the same
\* context: it leaves duplicates out only after it has looked for contradictions.
THEOREM ListedIsEligible == Spec => []VisibleIsEligible
<1>1. VisibleIsEligible
    <2>1. Passing(vault, ctx, FALSE, FALSE, Evidence) \subseteq
              {r \in DOMAIN vault : MemoryReadGate(vault[r], ctx, FALSE, FALSE) /\ vault[r].evidence \subseteq Evidence}
        BY DEF Passing
    <2>2. \A small, large : small \subseteq large => Conflicting(vault, small) \subseteq Conflicting(vault, large)
        BY DEF Conflicting
    <2> QED
        BY <2>1, <2>2 DEF VisibleIsEligible, VisibleNotes, Eligible, Passing
<1> QED
    BY <1>1, PTL
=============================================================================
