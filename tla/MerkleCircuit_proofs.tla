-------------------------- MODULE MerkleCircuit_proofs --------------------------
(***************************************************************************)
(* Which transactions can be proved, for blocks of any size and circuits   *)
(* of any depth.                                                           *)
(*                                                                         *)
(* First the arithmetic of powers of two and of bits, then the tree (its   *)
(* branches exist, they lead from a leaf to the root, and their sides are  *)
(* the bits of the index exactly if the leaf is at the bottom), and last   *)
(* the prover's loop and the circuit's, which follow a branch upwards.     *)
(***************************************************************************)
EXTENDS MerkleCircuit, SumLemmas

USE MerkleAssumption

-----------------------------------------------------------------------------
(* Powers of two                                                           *)

\* A function that doubles from one index to the next, up to n.
Doubles(f, n) == f = [k \in 0 .. n |-> IF k = 0 THEN 1 ELSE 2 * f[k - 1]]

LEMMA DoublingExists == \E f : Doubles(f, MaxTxs)
  <1> DEFINE G == {n \in Nat : \E f : Doubles(f, n)}
  <1>1. 0 \in G
    <2> DEFINE f == [k \in 0 .. 0 |-> 1]
    <2>1. Doubles(f, 0)
      BY DEF Doubles
    <2>2. QED  BY <2>1
  <1>2. ASSUME NEW n \in 0 .. MaxTxs - 1, n \in G PROVE n + 1 \in G
    <2>1. PICK f : Doubles(f, n)
      BY <1>2
    <2> DEFINE g == [k \in 0 .. n + 1 |-> IF k = 0 THEN 1 ELSE 2 * f[k - 1]]
    <2>2. \A k \in 0 .. n : g[k] = f[k]
      BY <2>1 DEF Doubles
    <2>3. \A k \in 0 .. n + 1 : k # 0 => g[k - 1] = f[k - 1]
      BY <2>2
    <2>4. Doubles(g, n + 1)
      BY <2>3 DEF Doubles
    <2>5. QED  BY <2>4
  <1> HIDE DEF G
  <1>3. MaxTxs \in G
    BY <1>1, <1>2, Upwards
  <1>4. QED  BY <1>3 DEF G

LEMMA PowerStep == \A k \in 0 .. MaxTxs : Power[k] = IF k = 0 THEN 1 ELSE 2 * Power[k - 1]
  <1>1. Doubles(Power, MaxTxs)
    BY DoublingExists DEF Power, Doubles
  <1>2. QED  BY <1>1 DEF Doubles

LEMMA PowerAbove == \A k \in 0 .. MaxTxs : Power[k] \in Nat /\ Power[k] > k
  <1> DEFINE G == {k \in Nat : Power[k] \in Nat /\ Power[k] > k}
  <1>1. 0 \in G
    BY PowerStep
  <1>2. ASSUME NEW n \in 0 .. MaxTxs - 1, n \in G PROVE n + 1 \in G
    <2>1. Power[n + 1] = 2 * Power[n]
      BY PowerStep
    <2>2. QED  BY <1>2, <2>1
  <1> HIDE DEF G
  <1>3. \A k \in 0 .. MaxTxs : k \in G
    BY <1>1, <1>2, Upwards
  <1>4. QED  BY <1>3 DEF G

\* A larger exponent means at least twice as much.
LEMMA PowerGrows ==
    ASSUME NEW j \in 0 .. MaxTxs
    PROVE  \A k \in j + 1 .. MaxTxs : 2 * Power[j] <= Power[k]
  <1> DEFINE G == {k \in Nat : 2 * Power[j] <= Power[k]}
  <1>1. \A k \in 0 .. MaxTxs : Power[k] \in Nat
    BY PowerAbove
  <1>2. j + 1 <= MaxTxs => j + 1 \in G
    BY <1>1, PowerStep
  <1>3. ASSUME NEW n \in j + 1 .. MaxTxs - 1, n \in G PROVE n + 1 \in G
    <2>1. Power[n + 1] = 2 * Power[n]
      BY PowerStep
    <2>2. Power[j] \in Nat /\ Power[n] \in Nat
      BY <1>1
    <2>3. QED  BY <1>3, <2>1, <2>2
  <1> HIDE DEF G
  <1>4. CASE j + 1 <= MaxTxs
    <2>1. \A k \in j + 1 .. MaxTxs : k \in G
      BY <1>2, <1>3, <1>4, Upwards
    <2>2. QED  BY <2>1 DEF G
  <1>5. CASE j + 1 > MaxTxs
    BY <1>5
  <1>6. QED  BY <1>4, <1>5

-----------------------------------------------------------------------------
(* Heights and splitting points                                            *)

Tall(n, d) == Power[d] >= n /\ \A e \in 0 .. d - 1 : Power[e] < n

\* A tree is as high as the least power of two that has room for its leaves.
LEMMA HeightIs ==
    ASSUME NEW n \in 1 .. MaxTxs
    PROVE  Height(n) \in 0 .. n /\ Tall(n, Height(n))
  <1> DEFINE S == {d \in 0 .. n : Power[d] >= n}
  <1>1. n \in S
    BY PowerAbove
  <1>2. PICK d \in S : \A e \in S : d <= e
    <2>1. S \in SUBSET Nat /\ S # {}
      BY <1>1
    <2> HIDE DEF S
    <2>2. QED  BY <2>1, Least
  <1>3. \A e \in 0 .. d - 1 : Power[e] < n
    <2>1. TAKE e \in 0 .. d - 1
    <2>2. e \notin S
      BY <1>2
    <2>3. e \in 0 .. n /\ Power[e] \in Nat
      BY <1>2, PowerAbove
    <2>4. QED  BY <2>2, <2>3
  <1>4. \E c \in 0 .. n : Tall(n, c)
    BY <1>2, <1>3 DEF Tall
  <1>5. QED  BY <1>4 DEF Height, Tall

\* There is only one such height.
LEMMA OneHeight ==
    ASSUME NEW n \in 1 .. MaxTxs, NEW d \in 0 .. MaxTxs, Tall(n, d)
    PROVE  Height(n) = d
  <1>1. Height(n) \in 0 .. MaxTxs /\ Tall(n, Height(n))
    BY HeightIs
  <1> DEFINE h == Height(n)
  <1> HIDE DEF h
  <1>2. h \in 0 .. MaxTxs /\ Tall(n, h)
    BY <1>1 DEF h
  <1>3. Power[h] \in Nat /\ Power[d] \in Nat
    BY <1>2, PowerAbove
  <1>4. h = d
    <2>1. CASE h < d
      BY <2>1, <1>2, <1>3 DEF Tall
    <2>2. CASE d < h
      BY <2>2, <1>2, <1>3 DEF Tall
    <2>3. QED  BY <2>1, <2>2, <1>2
  <1>5. QED  BY <1>4 DEF h

\* The splitting point is the power of two below.
LEMMA SplitIs ==
    ASSUME NEW n \in 2 .. MaxTxs
    PROVE  /\ Height(n) \in 1 .. n
           /\ SplitPoint(n) = Power[Height(n) - 1]
           /\ SplitPoint(n) \in 1 .. n - 1
           /\ n <= 2 * SplitPoint(n)
  <1> DEFINE h == Height(n)
             p == Power[h - 1]
  <1>1. h \in 0 .. n /\ Tall(n, h)
    BY HeightIs
  <1> HIDE DEF h
  <1>2. h # 0
    BY <1>1, PowerStep DEF Tall
  <1>3. h \in 1 .. n /\ Power[h] = 2 * p
    BY <1>1, <1>2, PowerStep
  <1>4. p \in Nat /\ p > h - 1
    BY <1>3, PowerAbove
  <1>5. p < n /\ n <= 2 * p
    BY <1>1, <1>3 DEF Tall
  <1>6. ASSUME NEW j \in 0 .. n, Power[j] < n, n <= 2 * Power[j] PROVE Power[j] = p
    <2>1. Power[j] \in Nat
      BY PowerAbove
    <2>2. CASE j < h - 1
      <3>1. 2 * Power[j] <= p
        BY <1>3, <2>2, PowerGrows
      <3>2. QED  BY <3>1, <2>1, <1>4, <1>5, <1>6
    <2>3. CASE j > h - 1
      <3>1. 2 * p <= Power[j]
        BY <1>3, <2>3, PowerGrows
      <3>2. QED  BY <3>1, <2>1, <1>4, <1>5, <1>6
    <2>4. CASE j = h - 1
      BY <2>4
    <2>5. QED  BY <2>2, <2>3, <2>4, <1>3
  <1>7. p \in {Power[k] : k \in 0 .. n}
    BY <1>3
  <1> HIDE DEF p
  <1>8. SplitPoint(n) = p
    BY <1>5, <1>6, <1>7 DEF SplitPoint
  <1>9. QED  BY <1>3, <1>4, <1>5, <1>8 DEF p, h

\* The left side of a tree is full, and the right side is not higher.
LEMMA HeightOfSides ==
    ASSUME NEW n \in 2 .. MaxTxs
    PROVE  /\ Height(SplitPoint(n)) = Height(n) - 1
           /\ Height(n - SplitPoint(n)) \in 0 .. Height(n) - 1
  <1> DEFINE h == Height(n)
             p == SplitPoint(n)
             g == Height(n - p)
  <1>1. h \in 1 .. n /\ p = Power[h - 1] /\ p \in 1 .. n - 1 /\ n <= 2 * p
    BY SplitIs
  <1> HIDE DEF h, p
  <1>2. Height(p) = h - 1
    <2>1. \A e \in 0 .. (h - 1) - 1 : 2 * Power[e] <= Power[h - 1] /\ Power[e] \in Nat
      BY <1>1, PowerGrows, PowerAbove
    <2>2. Tall(p, h - 1)
      BY <1>1, <2>1 DEF Tall
    <2>3. p \in 1 .. MaxTxs /\ h - 1 \in 0 .. MaxTxs
      BY <1>1
    <2>4. QED  BY <2>2, <2>3, OneHeight
  <1>3. n - p \in 1 .. MaxTxs /\ n - p <= p
    BY <1>1
  <1>4. g \in Nat /\ Tall(n - p, g)
    BY <1>3, HeightIs
  <1> HIDE DEF g
  <1>5. ~(h - 1 < g)
    BY <1>1, <1>3, <1>4 DEF Tall
  <1>6. g \in 0 .. h - 1
    BY <1>1, <1>4, <1>5
  <1>7. QED  BY <1>2, <1>6 DEF g, h, p

-----------------------------------------------------------------------------
(* Bits                                                                    *)

Bit(i, k) == (i \div Power[k]) % 2
Aligned(lo, k) == \E q \in Nat : lo = Power[k] * q

LEMMA DivIs ==
    ASSUME NEW p \in Nat \ {0}, NEW q \in Nat, NEW r \in 0 .. p - 1
    PROVE  (p * q + r) \div p = q
  OBVIOUS

\* The next number that is aligned.
LEMMA AlignedNext ==
    ASSUME NEW lo \in Nat, NEW k \in 0 .. MaxTxs, Aligned(lo, k)
    PROVE  Aligned(lo + Power[k], k)
  <1>1. PICK q \in Nat : lo = Power[k] * q
    BY DEF Aligned
  <1>2. Power[k] \in Nat
    BY PowerAbove
  <1>3. \A p \in Nat : p * q + p = p * (q + 1)
    OBVIOUS
  <1>4. lo + Power[k] = Power[k] * (q + 1)
    BY <1>1, <1>2, <1>3
  <1>5. QED  BY <1>4 DEF Aligned

LEMMA AlignedBelow ==
    ASSUME NEW lo \in Nat, NEW b \in 0 .. MaxTxs, Aligned(lo, b)
    PROVE  \A a \in 0 .. b : Aligned(lo, a)
  <1> DEFINE G == {j \in Nat : Aligned(lo, b - j)}
  <1>1. 0 \in G
    BY DEF Aligned
  <1>2. ASSUME NEW j \in 0 .. b - 1, j \in G PROVE j + 1 \in G
    <2>1. Power[b - j] = 2 * Power[b - j - 1] /\ Power[b - j - 1] \in Nat
      BY PowerStep, PowerAbove
    <2>2. PICK q \in Nat : lo = Power[b - j] * q
      BY <1>2 DEF Aligned
    <2>3. lo = Power[b - j - 1] * (2 * q)
      BY <2>1, <2>2
    <2>4. Aligned(lo, b - (j + 1))
      BY <2>3 DEF Aligned
    <2>5. QED  BY <2>4
  <1> HIDE DEF G
  <1>3. \A j \in 0 .. b : j \in G
    BY <1>1, <1>2, Upwards
  <1>4. QED
    <2>1. TAKE a \in 0 .. b
    <2>2. b - a \in G
      BY <1>3
    <2>3. Aligned(lo, b - (b - a))
      BY <2>2 DEF G
    <2>4. b - (b - a) = a
      OBVIOUS
    <2>5. QED  BY <2>3, <2>4

\* Above an aligned number a bit is that of the rest.
LEMMA BitOfRest ==
    ASSUME NEW k \in 0 .. MaxTxs - 1, NEW lo \in Nat, Aligned(lo, k + 1), NEW r \in Nat
    PROVE  /\ r < Power[k] => Bit(lo + r, k) = 0
           /\ Power[k] <= r /\ r < 2 * Power[k] => Bit(lo + r, k) = 1
  <1> DEFINE p == Power[k]
  <1>1. p \in Nat \ {0} /\ Power[k + 1] = 2 * p
    BY PowerStep, PowerAbove
  <1> HIDE DEF p
  <1>2. PICK q \in Nat : lo = (2 * p) * q
    BY <1>1 DEF Aligned
  <1>3. lo = p * (2 * q) /\ lo + r = p * (2 * q + 1) + (r - p)
    BY <1>1, <1>2
  <1>4. ASSUME r < p PROVE (lo + r) \div p = 2 * q
    <2>1. r \in 0 .. p - 1 /\ 2 * q \in Nat
      BY <1>1, <1>4
    <2>2. QED  BY <1>1, <1>3, <2>1, DivIs
  <1>5. ASSUME p <= r, r < 2 * p PROVE (lo + r) \div p = 2 * q + 1
    <2>1. r - p \in 0 .. p - 1 /\ 2 * q + 1 \in Nat
      BY <1>1, <1>5
    <2>2. QED  BY <1>1, <1>3, <2>1, DivIs
  <1>6. (2 * q) % 2 = 0 /\ (2 * q + 1) % 2 = 1
    OBVIOUS
  <1>7. QED  BY <1>4, <1>5, <1>6 DEF Bit, p

-----------------------------------------------------------------------------
(* Branches                                                                *)

\* One step of Trail's recursion, and the recursion of leaf i.
Step(f, i, node) ==
    IF node[2] = 1 THEN <<>>
    ELSE IF i < node[1] + SplitPoint(node[2])
    THEN Append(f[<<node[1], SplitPoint(node[2])>>],
                [aunt |-> <<node[1] + SplitPoint(node[2]), node[2] - SplitPoint(node[2])>>,
                 side |-> 0])
    ELSE Append(f[<<node[1] + SplitPoint(node[2]), node[2] - SplitPoint(node[2])>>],
                [aunt |-> <<node[1], SplitPoint(node[2])>>, side |-> 1])

Way(i) == CHOOSE f : f = [node \in Subtree |-> Step(f, i, node)]

\* The nodes of at most m leaves.
Small(m) == {node \in Subtree : node[2] <= m}
Walks(f, i, m) == f = [node \in Small(m) |-> Step(f, i, node)]

\* A step looks only at smaller nodes.
LEMMA StepSame ==
    ASSUME NEW i \in 0 .. MaxTxs, NEW node \in Subtree, NEW f, NEW g,
           \A x \in Subtree : x[2] < node[2] => f[x] = g[x]
    PROVE  Step(f, i, node) = Step(g, i, node)
  <1> DEFINE lo == node[1]
             m == node[2]
             p == SplitPoint(m)
  <1>1. lo \in 0 .. MaxTxs /\ m \in 1 .. MaxTxs
    BY DEF Subtree
  <1>2. CASE m = 1
    BY <1>2 DEF Step
  <1>3. CASE m # 1
    <2>1. p \in 1 .. m - 1
      BY <1>1, <1>3, SplitIs
    <2> HIDE DEF p
    <2>2. CASE i < lo + p
      <3>1. <<lo, p>> \in Subtree /\ <<lo, p>>[2] < m
        BY <1>1, <2>1 DEF Subtree
      <3>2. f[<<lo, p>>] = g[<<lo, p>>]
        BY <3>1
      <3>3. QED  BY <1>3, <2>2, <3>2 DEF Step, p
    <2>3. CASE ~(i < lo + p)
      <3>1. <<lo + p, m - p>> \in Subtree /\ <<lo + p, m - p>>[2] < m
        BY <1>1, <2>1, <2>3 DEF Subtree
      <3>2. f[<<lo + p, m - p>>] = g[<<lo + p, m - p>>]
        BY <3>1
      <3>3. QED  BY <1>3, <2>3, <3>2 DEF Step, p
    <2>4. QED  BY <2>2, <2>3
  <1>4. QED  BY <1>2, <1>3

LEMMA WayExists ==
    ASSUME NEW i \in 0 .. MaxTxs
    PROVE  \E f : f = [node \in Subtree |-> Step(f, i, node)]
  <1> DEFINE G == {m \in Nat : \E f : Walks(f, i, m)}
  <1>1. 0 \in G
    <2> DEFINE f == [node \in Small(0) |-> <<>>]
    <2>1. Small(0) = {}
      BY DEF Small, Subtree
    <2>2. Walks(f, i, 0)
      BY <2>1 DEF Walks
    <2>3. QED  BY <2>2
  <1>2. ASSUME NEW m \in 0 .. MaxTxs - 1, m \in G PROVE m + 1 \in G
    <2>1. PICK f : Walks(f, i, m)
      BY <1>2
    <2> DEFINE g == [node \in Small(m + 1) |-> Step(f, i, node)]
    <2>2. \A node \in Small(m) : node \in Small(m + 1) /\ g[node] = f[node]
      BY <2>1 DEF Small, Subtree, Walks
    <2>3. ASSUME NEW node \in Small(m + 1) PROVE Step(f, i, node) = Step(g, i, node)
      <3> HIDE DEF g
      <3>1. \A x \in Subtree : x[2] < node[2] => x \in Small(m)
        BY DEF Small, Subtree
      <3>2. \A x \in Subtree : x[2] < node[2] => f[x] = g[x]
        BY <3>1, <2>2
      <3>3. node \in Subtree
        BY DEF Small
      <3>4. QED  BY <3>2, <3>3, StepSame
    <2>4. Walks(g, i, m + 1)
      BY <2>3 DEF Walks
    <2>5. QED  BY <2>4
  <1> HIDE DEF G
  <1>3. MaxTxs \in G
    <2>1. \A m \in 0 .. MaxTxs : m \in G
      BY <1>1, <1>2, Upwards
    <2>2. QED  BY <2>1
  <1>4. PICK f : Walks(f, i, MaxTxs)
    BY <1>3 DEF G
  <1>5. Small(MaxTxs) = Subtree
    BY DEF Small, Subtree
  <1>6. QED  BY <1>4, <1>5 DEF Walks

LEMMA TrailIsWay == ASSUME NEW i, NEW n PROVE Trail(i, n) = Way(i)[<<0, n>>]
  BY DEF Trail, Way, Step

LEMMA WayStep ==
    ASSUME NEW i \in 0 .. MaxTxs, NEW node \in Subtree
    PROVE  Way(i)[node] = Step(Way(i), i, node)
  <1>1. Way(i) = [x \in Subtree |-> Step(Way(i), i, x)]
    BY WayExists DEF Way
  <1>2. QED  BY <1>1

\* The nodes above leaf i, in any block of the bound or less.
Above(i) == {node \in Subtree : /\ node[1] <= i /\ i < node[1] + node[2]
                                /\ node[1] + node[2] <= MaxTxs}

\* What holds of a leaf, and of a node if of the side the leaf is on, holds of
\* all nodes above the leaf.
LEMMA UpTheTree ==
    ASSUME NEW i \in 0 .. MaxTxs, NEW G, Leaf(i) \in G,
           \A lo \in Nat, m \in 2 .. MaxTxs :
               <<lo, m>> \in Above(i) =>
               /\ i < lo + SplitPoint(m) /\ <<lo, SplitPoint(m)>> \in Above(i) \cap G
                      => <<lo, m>> \in G
               /\ lo + SplitPoint(m) <= i
                      /\ <<lo + SplitPoint(m), m - SplitPoint(m)>> \in Above(i) \cap G
                      => <<lo, m>> \in G
    PROVE  Above(i) \subseteq G
  <1> DEFINE Bad == {m \in Nat : \E lo \in Nat : <<lo, m>> \in Above(i) /\ <<lo, m>> \notin G}
  <1>1. SUFFICES ASSUME NEW node \in Above(i), node \notin G PROVE FALSE
    OBVIOUS
  <1>2. node[2] \in Bad
    <2>1. node = <<node[1], node[2]>> /\ node[1] \in Nat /\ node[2] \in Nat
      BY DEF Above, Subtree
    <2>2. QED  BY <1>1, <2>1
  <1>3. PICK m \in Bad : \A k \in Bad : m <= k
    <2>1. Bad \in SUBSET Nat /\ Bad # {}
      BY <1>2
    <2> HIDE DEF Bad
    <2>2. QED  BY <2>1, Least
  <1>4. PICK lo \in Nat : <<lo, m>> \in Above(i) /\ <<lo, m>> \notin G
    BY <1>3
  <1>5. /\ m \in 1 .. MaxTxs /\ lo \in 0 .. MaxTxs /\ lo + m <= MaxTxs
        /\ lo <= i /\ i < lo + m
    BY <1>4 DEF Above, Subtree
  <1>6. m # 1
    BY <1>4, <1>5 DEF Leaf
  <1> DEFINE p == SplitPoint(m)
  <1>7. p \in 1 .. m - 1
    BY <1>5, <1>6, SplitIs
  <1>8. /\ i < lo + p /\ <<lo, p>> \in Above(i) /\ <<lo, p>> \in G => <<lo, m>> \in G
        /\ lo + p <= i /\ <<lo + p, m - p>> \in Above(i) /\ <<lo + p, m - p>> \in G
               => <<lo, m>> \in G
    <2>1. m \in 2 .. MaxTxs
      BY <1>5, <1>6
    <2>2. QED  BY <2>1, <1>4
  <1> HIDE DEF p
  <1>9. \A k \in Nat, l \in Nat : k < m /\ <<l, k>> \in Above(i) => <<l, k>> \in G
    BY <1>3
  <1>10. CASE i < lo + p
    <2>1. <<lo, p>> \in Above(i) /\ p \in Nat /\ p < m
      BY <1>5, <1>7, <1>10 DEF Above, Subtree
    <2>2. <<lo, p>> \in G
      BY <1>9, <2>1
    <2>3. QED  BY <1>4, <1>8, <1>10, <2>1, <2>2
  <1>11. CASE lo + p <= i
    <2>1. <<lo + p, m - p>> \in Above(i) /\ m - p \in Nat /\ m - p < m /\ lo + p \in Nat
      BY <1>5, <1>7, <1>11 DEF Above, Subtree
    <2>2. <<lo + p, m - p>> \in G
      BY <1>9, <2>1
    <2>3. QED  BY <1>4, <1>8, <1>11, <2>1, <2>2
  <1>12. QED  BY <1>5, <1>7, <1>10, <1>11

Sibling == [aunt : Subtree, side : {0, 1}]

\* Node a and its sibling hash to b, each on its own side.
Joins(a, s, b) == b = IF s.side = 1 THEN Hash(s.aunt, a) ELSE Hash(a, s.aunt)

\* Branch t leads from leaf i over the nodes of A to a node.
Leads(t, A, i, node) ==
    /\ t \in Seq(Sibling) /\ A \in Seq(Above(i))
    /\ Len(A) = Len(t) + 1
    /\ A[1] = Leaf(i) /\ A[Len(A)] = node
    /\ \A k \in 1 .. Len(t) : Joins(A[k], t[k], A[k + 1])

LEMMA LeadsOn ==
    ASSUME NEW i, NEW t, NEW A, NEW a, Leads(t, A, i, a),
           NEW s \in Sibling, NEW b \in Above(i), Joins(a, s, b)
    PROVE  Leads(Append(t, s), Append(A, b), i, b)
  <1> DEFINE u == Append(t, s)
             B == Append(A, b)
  <1>1. /\ t \in Seq(Sibling) /\ A \in Seq(Above(i)) /\ Len(A) = Len(t) + 1
        /\ Len(t) \in Nat /\ A[1] = Leaf(i) /\ A[Len(A)] = a
        /\ \A k \in 1 .. Len(t) : Joins(A[k], t[k], A[k + 1])
    BY DEF Leads
  <1>2. /\ u \in Seq(Sibling) /\ Len(u) = Len(t) + 1
        /\ \A k \in 1 .. Len(t) : u[k] = t[k]
        /\ u[Len(t) + 1] = s
    BY <1>1
  <1>3. /\ B \in Seq(Above(i)) /\ Len(B) = Len(t) + 2
        /\ \A k \in 1 .. Len(t) + 1 : B[k] = A[k]
        /\ B[Len(t) + 2] = b
    BY <1>1
  <1> HIDE DEF u, B
  <1>4. ASSUME NEW k \in 1 .. Len(u) PROVE Joins(B[k], u[k], B[k + 1])
    <2>1. CASE k <= Len(t)
      <3>1. k \in 1 .. Len(t) /\ k + 1 \in 1 .. Len(t) + 1
        BY <1>1, <2>1
      <3>2. B[k] = A[k] /\ u[k] = t[k] /\ B[k + 1] = A[k + 1]
        BY <1>1, <1>2, <1>3, <3>1
      <3>3. QED  BY <1>1, <3>1, <3>2
    <2>2. CASE k = Len(t) + 1
      <3>1. B[k] = a /\ u[k] = s /\ B[k + 1] = b
        BY <1>1, <1>2, <1>3, <2>2
      <3>2. QED  BY <3>1
    <2>3. QED  BY <1>1, <1>2, <2>1, <2>2
  <1>5. B[1] = Leaf(i) /\ B[Len(B)] = b /\ Len(B) = Len(u) + 1
    BY <1>1, <1>2, <1>3
  <1>6. QED  BY <1>2, <1>3, <1>4, <1>5 DEF Leads, u, B

\* What Way says at a node that is not a leaf.
LEMMA WayLeft ==
    ASSUME NEW i \in 0 .. MaxTxs, NEW lo \in Nat, NEW m \in 2 .. MaxTxs, <<lo, m>> \in Above(i),
           i < lo + SplitPoint(m)
    PROVE  Way(i)[<<lo, m>>] = Append(Way(i)[<<lo, SplitPoint(m)>>],
               [aunt |-> <<lo + SplitPoint(m), m - SplitPoint(m)>>, side |-> 0])
  <1>1. Way(i)[<<lo, m>>] = Step(Way(i), i, <<lo, m>>)
    BY WayStep DEF Above
  <1>2. m # 1
    OBVIOUS
  <1>3. QED  BY <1>1, <1>2 DEF Step

LEMMA WayRight ==
    ASSUME NEW i \in 0 .. MaxTxs, NEW lo \in Nat, NEW m \in 2 .. MaxTxs, <<lo, m>> \in Above(i),
           lo + SplitPoint(m) <= i
    PROVE  Way(i)[<<lo, m>>] =
               Append(Way(i)[<<lo + SplitPoint(m), m - SplitPoint(m)>>],
                      [aunt |-> <<lo, SplitPoint(m)>>, side |-> 1])
  <1>1. SplitPoint(m) \in Nat
    BY SplitIs
  <1>2. ~(i < lo + SplitPoint(m)) /\ m # 1
    BY <1>1
  <1>3. Way(i)[<<lo, m>>] = Step(Way(i), i, <<lo, m>>)
    BY WayStep DEF Above
  <1>4. QED  BY <1>2, <1>3 DEF Step

LEMMA WayOfLeaf ==
    ASSUME NEW i \in 0 .. MaxTxs - 1
    PROVE  Leaf(i) \in Above(i) /\ Way(i)[Leaf(i)] = <<>>
  <1>1. Leaf(i) \in Above(i) /\ Leaf(i) \in Subtree
    BY DEF Leaf, Above, Subtree
  <1>2. Way(i)[Leaf(i)] = Step(Way(i), i, Leaf(i))
    BY <1>1, WayStep
  <1>3. Leaf(i)[2] = 1
    BY DEF Leaf
  <1>4. QED  BY <1>1, <1>2, <1>3 DEF Step

\* The two sides of a node, and what they hash to.
LEMMA SidesHash ==
    ASSUME NEW i \in 0 .. MaxTxs, NEW lo \in Nat, NEW m \in 2 .. MaxTxs, <<lo, m>> \in Above(i)
    PROVE  /\ <<lo, SplitPoint(m)>> \in Subtree
           /\ <<lo + SplitPoint(m), m - SplitPoint(m)>> \in Subtree
           /\ Hash(<<lo, SplitPoint(m)>>, <<lo + SplitPoint(m), m - SplitPoint(m)>>) = <<lo, m>>
  <1> DEFINE p == SplitPoint(m)
  <1>1. p \in 1 .. m - 1
    BY SplitIs
  <1>2. p + (m - p) = m /\ SplitPoint(m) = p
    BY <1>1
  <1>3. lo + m <= MaxTxs
    BY DEF Above
  <1> HIDE DEF p
  <1>4. <<lo, p>> \in Subtree /\ <<lo + p, m - p>> \in Subtree
    BY <1>1, <1>3 DEF Subtree
  <1>5. SplitPoint(p + (m - p)) = p
    BY <1>2
  <1>6. Hash(<<lo, p>>, <<lo + p, m - p>>) = <<lo, m>>
    BY <1>1, <1>2, <1>5 DEF Hash
  <1>7. QED  BY <1>4, <1>6 DEF p

\* Every branch leads to its node.
LEMMA WayLeads ==
    ASSUME NEW i \in 0 .. MaxTxs - 1
    PROVE  \A node \in Above(i) : \E A : Leads(Way(i)[node], A, i, node)
  <1> DEFINE G == {node \in Above(i) : \E A : Leads(Way(i)[node], A, i, node)}
  <1>0. i \in 0 .. MaxTxs
    OBVIOUS
  <1>1. Leaf(i) \in G
    <2>1. Leads(<<>>, <<Leaf(i)>>, i, Leaf(i))
      BY WayOfLeaf DEF Leads
    <2>2. QED  BY <2>1, WayOfLeaf
  <1>2. ASSUME NEW lo \in Nat, NEW m \in 2 .. MaxTxs, <<lo, m>> \in Above(i),
               i < lo + SplitPoint(m), <<lo, SplitPoint(m)>> \in Above(i) \cap G
        PROVE  <<lo, m>> \in G
    <2> DEFINE p == SplitPoint(m)
               s == [aunt |-> <<lo + p, m - p>>, side |-> 0]
    <2>1. PICK A : Leads(Way(i)[<<lo, p>>], A, i, <<lo, p>>)
      BY <1>2
    <2>2. s \in Sibling /\ Joins(<<lo, p>>, s, <<lo, m>>)
      BY <1>2, SidesHash DEF Sibling, Joins
    <2>3. Way(i)[<<lo, m>>] = Append(Way(i)[<<lo, p>>], s)
      BY <1>0, <1>2, WayLeft DEF p, s
    <2> HIDE DEF p, s
    <2>4. Leads(Way(i)[<<lo, m>>], Append(A, <<lo, m>>), i, <<lo, m>>)
      BY <1>2, <2>1, <2>2, <2>3, LeadsOn
    <2>5. QED  BY <1>2, <2>4
  <1>3. ASSUME NEW lo \in Nat, NEW m \in 2 .. MaxTxs, <<lo, m>> \in Above(i),
               lo + SplitPoint(m) <= i,
               <<lo + SplitPoint(m), m - SplitPoint(m)>> \in Above(i) \cap G
        PROVE  <<lo, m>> \in G
    <2> DEFINE p == SplitPoint(m)
               s == [aunt |-> <<lo, p>>, side |-> 1]
    <2>1. PICK A : Leads(Way(i)[<<lo + p, m - p>>], A, i, <<lo + p, m - p>>)
      BY <1>3
    <2>2. s \in Sibling /\ Joins(<<lo + p, m - p>>, s, <<lo, m>>)
      BY <1>3, SidesHash DEF Sibling, Joins
    <2>3. Way(i)[<<lo, m>>] = Append(Way(i)[<<lo + p, m - p>>], s)
      BY <1>0, <1>3, WayRight DEF p, s
    <2> HIDE DEF p, s
    <2>4. Leads(Way(i)[<<lo, m>>], Append(A, <<lo, m>>), i, <<lo, m>>)
      BY <1>3, <2>1, <2>2, <2>3, LeadsOn
    <2>5. QED  BY <1>3, <2>4
  <1> HIDE DEF G
  <1>4. Above(i) \subseteq G
    BY <1>1, <1>2, <1>3, UpTheTree
  <1>5. QED  BY <1>4 DEF G

-----------------------------------------------------------------------------
(* Sides and bits                                                          *)

SidesAreBits(t, i) == \A k \in 1 .. Len(t) : t[k].side = Bit(i, k - 1)

\* A branch is not longer than its tree is high; it is as long if and only if
\* its sides are the bits of the index; and in a full tree all are.
BottomOK(t, i, m) ==
    /\ t \in Seq(Sibling) /\ Len(t) <= Height(m)
    /\ Len(t) = Height(m) <=> SidesAreBits(t, i)
    /\ m = Power[Height(m)] => Len(t) = Height(m)

LEMMA SidesOfAppend ==
    ASSUME NEW i, NEW t \in Seq(Sibling), NEW s \in Sibling
    PROVE  SidesAreBits(Append(t, s), i) <=> SidesAreBits(t, i) /\ s.side = Bit(i, Len(t))
  <1> DEFINE u == Append(t, s)
  <1>1. /\ Len(u) = Len(t) + 1 /\ Len(t) \in Nat
        /\ \A k \in 1 .. Len(t) : u[k] = t[k]
        /\ u[Len(t) + 1] = s
    OBVIOUS
  <1> HIDE DEF u
  <1>2. \A k \in 1 .. Len(u) : k \in 1 .. Len(t) \/ k = Len(t) + 1
    BY <1>1
  <1>3. \A k \in 1 .. Len(t) : k \in 1 .. Len(u)
    BY <1>1
  <1>4. Len(t) + 1 \in 1 .. Len(u) /\ (Len(t) + 1) - 1 = Len(t)
    BY <1>1
  <1>5. SidesAreBits(u, i) <=> SidesAreBits(t, i) /\ s.side = Bit(i, Len(t))
    BY <1>1, <1>2, <1>3, <1>4 DEF SidesAreBits
  <1>6. QED  BY <1>5 DEF u

\* A leaf on the left: the sides from there down are those of a full tree, and
\* the next bit is 0.
LEMMA BottomLeft ==
    ASSUME NEW i \in 0 .. MaxTxs, NEW lo \in Nat, NEW m \in 2 .. MaxTxs,
           Aligned(lo, Height(m)), lo <= i, i < lo + SplitPoint(m),
           NEW t, BottomOK(t, i, SplitPoint(m)), NEW s \in Sibling, s.side = 0
    PROVE  BottomOK(Append(t, s), i, m)
  <1> DEFINE h == Height(m)
             p == SplitPoint(m)
  <1>1. h \in 1 .. m /\ p = Power[h - 1] /\ Height(p) = h - 1
    BY SplitIs, HeightOfSides
  <1>2. BottomOK(t, i, p) /\ i < lo + p /\ Aligned(lo, h)
    OBVIOUS
  <1> HIDE DEF h, p
  <1>3. t \in Seq(Sibling) /\ Len(t) = h - 1 /\ SidesAreBits(t, i)
    BY <1>1, <1>2 DEF BottomOK
  <1>4. Bit(i, h - 1) = 0
    <2>1. i - lo \in Nat /\ i - lo < p /\ lo + (i - lo) = i
      BY <1>1, <1>2, PowerAbove
    <2>2. h - 1 \in 0 .. MaxTxs - 1 /\ (h - 1) + 1 = h
      BY <1>1
    <2>3. QED  BY <1>1, <1>2, <2>1, <2>2, BitOfRest
  <1>5. Append(t, s) \in Seq(Sibling) /\ Len(Append(t, s)) = h
    BY <1>1, <1>3
  <1>6. SidesAreBits(Append(t, s), i)
    BY <1>3, <1>4, SidesOfAppend
  <1>7. QED  BY <1>1, <1>5, <1>6 DEF BottomOK, h

\* A leaf on the right: the next bit is 1 if the right side is as high as the
\* left, and there is a 0 before it if it is not.
LEMMA BottomRight ==
    ASSUME NEW i \in 0 .. MaxTxs, NEW lo \in Nat, NEW m \in 2 .. MaxTxs,
           Aligned(lo, Height(m)), lo + SplitPoint(m) <= i, i < lo + m,
           NEW t, BottomOK(t, i, m - SplitPoint(m)), NEW s \in Sibling, s.side = 1
    PROVE  BottomOK(Append(t, s), i, m)
  <1> DEFINE h == Height(m)
             p == SplitPoint(m)
             g == Height(m - p)
             l == Len(t)
  <1>1. h \in 1 .. m /\ p = Power[h - 1] /\ p \in 1 .. m - 1 /\ m <= 2 * p
    BY SplitIs
  <1>2. g \in 0 .. h - 1
    BY HeightOfSides
  <1>3. BottomOK(t, i, m - p) /\ lo + p <= i /\ Aligned(lo, h)
    OBVIOUS
  <1>4. m - p \in 1 .. MaxTxs
    BY <1>1
  <1>5. Tall(m - p, g)
    BY <1>4, HeightIs
  <1>6. m = Power[h] => m - p = p
    BY <1>1, PowerStep
  <1>7. m - p = p => g = h - 1
    BY HeightOfSides
  <1> HIDE DEF h, p, g
  <1>8. /\ t \in Seq(Sibling) /\ l \in Nat /\ l <= g
        /\ l = g <=> SidesAreBits(t, i)
        /\ m - p = Power[g] => l = g
    BY <1>3 DEF BottomOK, g
  <1>9. Append(t, s) \in Seq(Sibling) /\ Len(Append(t, s)) = l + 1
    BY <1>8
  <1>10. SidesAreBits(Append(t, s), i) <=> SidesAreBits(t, i) /\ Bit(i, l) = 1
    BY <1>8, SidesOfAppend
  <1> HIDE DEF l
  <1>11. Bit(i, h - 1) = 1
    <2>1. i - lo \in Nat /\ p <= i - lo /\ i - lo < 2 * p /\ lo + (i - lo) = i
      BY <1>1, <1>3
    <2>2. h - 1 \in 0 .. MaxTxs - 1 /\ (h - 1) + 1 = h
      BY <1>1
    <2>3. QED  BY <1>1, <1>3, <2>1, <2>2, BitOfRest
  <1>12. g < h - 1 => Bit(i, g) = 0
    <2>1. SUFFICES ASSUME g < h - 1 PROVE Bit(i, g) = 0
      OBVIOUS
    <2>2. Aligned(lo + p, h - 1)
      <3>1. Aligned(lo, h - 1)
        BY <1>1, <1>3, AlignedBelow
      <3>2. h - 1 \in 0 .. MaxTxs
        BY <1>1
      <3>3. QED  BY <1>1, <3>1, <3>2, AlignedNext
    <2>3. Aligned(lo + p, g + 1)
      <3>1. lo + p \in Nat /\ h - 1 \in 0 .. MaxTxs /\ g + 1 \in 0 .. h - 1
        BY <1>1, <1>2, <2>1
      <3>2. QED  BY <2>2, <3>1, AlignedBelow
    <2>4. /\ i - (lo + p) \in Nat /\ i - (lo + p) < Power[g]
          /\ (lo + p) + (i - (lo + p)) = i
      <3>1. Power[g] \in Nat
        BY <1>1, <1>2, PowerAbove
      <3>2. QED  BY <1>1, <1>3, <1>5, <3>1 DEF Tall
    <2>5. g \in 0 .. MaxTxs - 1 /\ lo + p \in Nat
      BY <1>1, <1>2, <2>1
    <2>6. QED  BY <2>3, <2>4, <2>5, BitOfRest
  <1>13. CASE l = h - 1
    <2>1. g = h - 1 /\ SidesAreBits(Append(t, s), i)
      BY <1>2, <1>8, <1>10, <1>11, <1>13
    <2>2. l + 1 = h
      BY <1>1, <1>13
    <2>3. QED  BY <1>9, <2>1, <2>2, <1>1 DEF BottomOK, h
  <1>14. CASE l # h - 1
    <2>1. l + 1 < h
      BY <1>1, <1>2, <1>8, <1>14
    <2>2. ~SidesAreBits(Append(t, s), i)
      <3>1. SUFFICES ASSUME SidesAreBits(Append(t, s), i) PROVE FALSE
        OBVIOUS
      <3>2. l = g /\ Bit(i, g) = 1
        BY <1>8, <1>10, <3>1
      <3>3. g < h - 1
        BY <1>1, <1>2, <1>8, <1>14, <3>2
      <3>4. QED  BY <1>12, <3>2, <3>3
    <2>3. m # Power[h]
      <3>1. SUFFICES ASSUME m = Power[h] PROVE FALSE
        OBVIOUS
      <3>2. g = h - 1 /\ m - p = Power[g]
        BY <1>1, <1>6, <1>7, <3>1
      <3>3. QED  BY <1>8, <1>14, <3>2
    <2>4. QED  BY <1>9, <2>1, <2>2, <2>3, <1>1 DEF BottomOK, h
  <1>15. QED  BY <1>13, <1>14

\* So the sides are bits exactly at the bottom of the tree.
LEMMA WayBottom ==
    ASSUME NEW i \in 0 .. MaxTxs - 1
    PROVE  \A node \in Above(i) :
               Aligned(node[1], Height(node[2])) => BottomOK(Way(i)[node], i, node[2])
  <1> DEFINE G == {node \in Above(i) :
                     Aligned(node[1], Height(node[2])) => BottomOK(Way(i)[node], i, node[2])}
  <1>0. i \in 0 .. MaxTxs
    OBVIOUS
  <1>1. Leaf(i) \in G
    <2>1. 1 \in 1 .. MaxTxs /\ 0 \in 0 .. MaxTxs /\ Power[0] = 1
      BY PowerStep
    <2>2. Height(1) = 0
      <3>1. Tall(1, 0)
        BY <2>1 DEF Tall
      <3>2. QED  BY <2>1, <3>1, OneHeight
    <2>3. BottomOK(<<>>, i, 1)
      BY <2>1, <2>2 DEF BottomOK, SidesAreBits
    <2>4. QED  BY <2>3, WayOfLeaf DEF Leaf
  <1>2. ASSUME NEW lo \in Nat, NEW m \in 2 .. MaxTxs, <<lo, m>> \in Above(i),
               i < lo + SplitPoint(m), <<lo, SplitPoint(m)>> \in Above(i) \cap G
        PROVE  <<lo, m>> \in G
    <2> DEFINE p == SplitPoint(m)
               s == [aunt |-> <<lo + p, m - p>>, side |-> 0]
    <2>1. SUFFICES ASSUME Aligned(lo, Height(m)) PROVE BottomOK(Way(i)[<<lo, m>>], i, m)
      BY <1>2
    <2>2. s \in Sibling /\ s.side = 0
      BY <1>2, <1>0, SidesHash DEF Sibling
    <2>3. Way(i)[<<lo, m>>] = Append(Way(i)[<<lo, p>>], s)
      BY <1>0, <1>2, WayLeft DEF p, s
    <2>4. Aligned(lo, Height(p))
      <3>1. Height(m) \in 0 .. MaxTxs /\ Height(p) \in 0 .. Height(m)
        BY SplitIs, HeightOfSides
      <3>2. QED  BY <2>1, <3>1, AlignedBelow
    <2>5. BottomOK(Way(i)[<<lo, p>>], i, p)
      BY <1>2, <2>4
    <2>6. lo <= i
      BY <1>2 DEF Above
    <2> HIDE DEF s
    <2>7. BottomOK(Append(Way(i)[<<lo, p>>], s), i, m)
      BY <1>0, <1>2, <2>1, <2>2, <2>5, <2>6, BottomLeft
    <2>8. QED  BY <2>3, <2>7
  <1>3. ASSUME NEW lo \in Nat, NEW m \in 2 .. MaxTxs, <<lo, m>> \in Above(i),
               lo + SplitPoint(m) <= i,
               <<lo + SplitPoint(m), m - SplitPoint(m)>> \in Above(i) \cap G
        PROVE  <<lo, m>> \in G
    <2> DEFINE p == SplitPoint(m)
               s == [aunt |-> <<lo, p>>, side |-> 1]
    <2>1. SUFFICES ASSUME Aligned(lo, Height(m)) PROVE BottomOK(Way(i)[<<lo, m>>], i, m)
      BY <1>3
    <2>2. s \in Sibling /\ s.side = 1
      BY <1>3, <1>0, SidesHash DEF Sibling
    <2>3. Way(i)[<<lo, m>>] = Append(Way(i)[<<lo + p, m - p>>], s)
      BY <1>0, <1>3, WayRight DEF p, s
    <2>4. Aligned(lo + p, Height(m - p))
      <3>1. /\ Height(m) - 1 \in 0 .. MaxTxs /\ Height(m - p) \in 0 .. Height(m) - 1
            /\ p = Power[Height(m) - 1] /\ p \in Nat
        BY SplitIs, HeightOfSides
      <3>2. Aligned(lo, Height(m) - 1)
        <4>1. Height(m) \in 0 .. MaxTxs /\ Height(m) - 1 \in 0 .. Height(m)
          BY SplitIs
        <4>2. QED  BY <2>1, <4>1, AlignedBelow
      <3> HIDE DEF p
      <3>3. Aligned(lo + p, Height(m) - 1)
        BY <3>1, <3>2, AlignedNext
      <3>4. lo + p \in Nat
        BY <3>1
      <3>5. QED  BY <3>1, <3>3, <3>4, AlignedBelow
    <2>5. BottomOK(Way(i)[<<lo + p, m - p>>], i, m - p)
      BY <1>3, <2>4
    <2>6. i < lo + m
      BY <1>3 DEF Above
    <2> HIDE DEF s
    <2>7. BottomOK(Append(Way(i)[<<lo + p, m - p>>], s), i, m)
      BY <1>0, <1>3, <2>1, <2>2, <2>5, <2>6, BottomRight
    <2>8. QED  BY <2>3, <2>7
  <1> HIDE DEF G
  <1>4. Above(i) \subseteq G
    BY <1>0, <1>1, <1>2, <1>3, UpTheTree
  <1>5. QED  BY <1>4 DEF G

-----------------------------------------------------------------------------
(* The branch of the transaction                                           *)

LEMMA TrailIs ==
    ASSUME NEW n \in 1 .. MaxTxs, NEW i \in 0 .. n - 1
    PROVE  /\ Trail(i, n) \in Seq(Sibling)
           /\ BottomOK(Trail(i, n), i, n)
           /\ \E A : Leads(Trail(i, n), A, i, <<0, n>>)
  <1>1. i \in 0 .. MaxTxs - 1 /\ <<0, n>> \in Above(i)
    BY DEF Above, Subtree
  <1>2. Aligned(0, Height(n))
    <2>1. Power[Height(n)] \in Nat
      BY HeightIs, PowerAbove
    <2>2. 0 = Power[Height(n)] * 0
      BY <2>1
    <2>3. QED  BY <2>2 DEF Aligned
  <1>3. BottomOK(Way(i)[<<0, n>>], i, n)
    BY <1>1, <1>2, WayBottom
  <1>4. \E A : Leads(Way(i)[<<0, n>>], A, i, <<0, n>>)
    BY <1>1, WayLeads
  <1>5. QED  BY <1>3, <1>4, TrailIsWay DEF BottomOK

\* On the wrong side of its sibling a node hashes to nothing.
LEMMA WrongSide ==
    ASSUME NEW a \in Subtree, NEW s \in Sibling, NEW b \in Subtree, Joins(a, s, b)
    PROVE  IF s.side = 1 THEN Hash(a, s.aunt) = Junk ELSE Hash(s.aunt, a) = Junk
  <1> DEFINE u == s.aunt
  <1>1. u \in Subtree
    BY DEF Sibling
  <1>2. a[1] \in Nat /\ a[2] \in Nat \ {0} /\ u[1] \in Nat /\ u[2] \in Nat \ {0} /\ b # Junk
    BY <1>1 DEF Subtree, Junk
  <1> HIDE DEF u
  <1>3. CASE s.side = 1
    <2>1. Hash(u, a) # Junk
      BY <1>2, <1>3 DEF Joins, u
    <2>2. a[1] = u[1] + u[2]
      BY <2>1 DEF Hash
    <2>3. Hash(a, u) = Junk
      BY <1>2, <2>2 DEF Hash
    <2>4. QED  BY <1>3, <2>3 DEF u
  <1>4. CASE s.side # 1
    <2>1. Hash(a, u) # Junk
      BY <1>2, <1>4 DEF Joins, u
    <2>2. u[1] = a[1] + a[2]
      BY <2>1 DEF Hash
    <2>3. Hash(u, a) = Junk
      BY <1>2, <2>2 DEF Hash
    <2>4. QED  BY <1>4, <2>3 DEF u
  <1>5. QED  BY <1>3, <1>4

\* A node has more leaves than those below it.
LEMMA JoinsGrows ==
    ASSUME NEW a \in Subtree, NEW s \in Sibling, NEW b \in Subtree, Joins(a, s, b)
    PROVE  a[2] < b[2]
  <1> DEFINE u == s.aunt
  <1>1. u \in Subtree
    BY DEF Sibling
  <1>2. a[2] \in Nat \ {0} /\ u[2] \in Nat \ {0} /\ b # Junk
    BY <1>1 DEF Subtree, Junk
  <1> HIDE DEF u
  <1>3. b[2] = a[2] + u[2]
    <2>1. CASE s.side = 1
      <3>1. b = Hash(u, a)
        BY <2>1 DEF Joins, u
      <3>2. b = <<u[1], u[2] + a[2]>>
        BY <1>2, <3>1 DEF Hash
      <3>3. QED  BY <1>2, <3>2
    <2>2. CASE s.side # 1
      <3>1. b = Hash(a, u)
        BY <2>2 DEF Joins, u
      <3>2. b = <<a[1], a[2] + u[2]>>
        BY <1>2, <3>1 DEF Hash
      <3>3. QED  BY <3>2
    <2>3. QED  BY <2>1, <2>2
  <1>4. QED  BY <1>2, <1>3

\* The nodes of a branch before its end are not its end.
LEMMA BranchGrows ==
    ASSUME NEW i, NEW t, NEW A, NEW node, Leads(t, A, i, node), NEW k \in 1 .. Len(t)
    PROVE  A[k] # node
  <1> DEFINE G == {j \in Nat : A[k][2] < A[j][2]}
             e == Len(t) + 1
  <1>1. /\ t \in Seq(Sibling) /\ A \in Seq(Above(i)) /\ Len(t) \in Nat
        /\ Len(A) = e /\ A[e] = node
        /\ \A j \in 1 .. Len(t) : Joins(A[j], t[j], A[j + 1])
    BY DEF Leads
  <1>2. \A j \in 1 .. e : A[j] \in Subtree /\ A[j][2] \in Nat
    <2>1. TAKE j \in 1 .. e
    <2>2. A[j] \in Above(i)
      BY <1>1
    <2>3. QED  BY <2>2 DEF Above, Subtree
  <1>3. \A j \in 1 .. Len(t) : A[j][2] < A[j + 1][2]
    <2>1. TAKE j \in 1 .. Len(t)
    <2>2. A[j] \in Subtree /\ A[j + 1] \in Subtree /\ t[j] \in Sibling
      BY <1>1, <1>2
    <2>3. QED  BY <1>1, <2>2, JoinsGrows
  <1>4. k + 1 \in G
    BY <1>3
  <1>5. ASSUME NEW j \in k + 1 .. e - 1, j \in G PROVE j + 1 \in G
    <2>1. j \in 1 .. Len(t) /\ j \in 1 .. e /\ j + 1 \in 1 .. e /\ k \in 1 .. e
      BY <1>1
    <2>2. A[k][2] < A[j][2] /\ A[j][2] < A[j + 1][2]
      BY <1>3, <1>5, <2>1
    <2>3. A[k][2] \in Nat /\ A[j][2] \in Nat /\ A[j + 1][2] \in Nat
      BY <1>2, <2>1
    <2>4. A[k][2] < A[j + 1][2]
      BY <2>2, <2>3
    <2>5. QED  BY <2>4
  <1>6. \A j \in k + 1 .. e : j \in G
    <2>1. k + 1 \in Nat /\ e \in Nat
      BY <1>1
    <2> HIDE DEF G, e
    <2>2. QED  BY <1>4, <1>5, <2>1, Upwards
  <1>7. A[k][2] < A[e][2] /\ A[k][2] \in Nat
    BY <1>1, <1>2, <1>6
  <1>8. QED  BY <1>1, <1>7

LEMMA DivTwice ==
    ASSUME NEW x \in Nat, NEW p \in Nat \ {0}
    PROVE  (x \div p) \div 2 = x \div (2 * p)
  <1> DEFINE q == x \div p
             r == x - p * q
             d == q \div 2
             b == q % 2
  <1>1. q \in Nat /\ r \in 0 .. p - 1 /\ x = p * q + r
    OBVIOUS
  <1> HIDE DEF q, r
  <1>2. d \in Nat /\ b \in {0, 1} /\ q = 2 * d + b
    BY <1>1
  <1> HIDE DEF d, b
  <1>3. x = (2 * p) * d + (p * b + r)
    BY <1>1, <1>2
  <1>4. p * b + r \in 0 .. 2 * p - 1
    BY <1>1, <1>2
  <1>5. 2 * p \in Nat \ {0}
    OBVIOUS
  <1>6. x \div (2 * p) = d
    BY <1>2, <1>3, <1>4, <1>5, DivIs
  <1>7. QED  BY <1>6 DEF d, q

-----------------------------------------------------------------------------
(* The inductive invariant                                                 *)

Branch == Trail(place, total)

\* What the loop of GenerateProof has filled in, and what is left of the index.
WitnessOK ==
    /\ Len(path) <= ActualDepth
    /\ index = place \div Power[Len(path)]
    /\ \A k \in 1 .. Len(path) : path[k] = aunts[k] /\ helper[k] = Bit(place, k - 1)
    /\ pc = "witness" => level = 0
    /\ pc # "witness" => Len(path) = ActualDepth \/ Len(path) >= MerkleDepth

Climbed == IF level < ActualDepth THEN level ELSE ActualDepth
OnTrail == \A k \in 1 .. Climbed : ProofHelper(k - 1) = sides[k] /\ k <= Len(path)

\* The circuit is at the node of the branch, or nowhere.
ClimbOK ==
    IF OnTrail
    THEN \A A : Leads(Branch, A, place, Root) => currentHash = A[Climbed + 1]
    ELSE currentHash = Junk

EndOK ==
    pc \in {"proved", "unprovable"} =>
        level = MerkleDepth /\ (pc = "proved" <=> currentHash = Root)

IInv == TypeOK /\ WitnessOK /\ ClimbOK /\ EndOK

-----------------------------------------------------------------------------
(* What the invariant says of the branch                                   *)

LEMMA BranchIs ==
    ASSUME total \in 1 .. MaxTxs, place \in 0 .. total - 1
    PROVE  /\ Branch \in Seq(Sibling) /\ Len(Branch) \in Nat
           /\ ActualDepth = Len(Branch)
           /\ \A k \in 1 .. Len(Branch) : /\ Branch[k] \in Sibling
                                          /\ aunts[k] = Branch[k].aunt
                                          /\ sides[k] = Branch[k].side
           /\ BottomOK(Branch, place, total)
           /\ Len(Branch) <= MaxTxs
           /\ \E A : Leads(Branch, A, place, Root)
  <1> DEFINE t == Branch
  <1>1. /\ t \in Seq(Sibling) /\ BottomOK(t, place, total)
        /\ \E A : Leads(t, A, place, Root)
    BY TrailIs DEF Branch, Root
  <1>2. aunts = [k \in DOMAIN t |-> t[k].aunt] /\ sides = [k \in DOMAIN t |-> t[k].side]
    BY DEF aunts, sides, Branch
  <1> HIDE DEF t
  <1>3. Len(t) \in Nat /\ DOMAIN t = 1 .. Len(t)
    BY <1>1
  <1>4. \A k \in 1 .. Len(t) : aunts[k] = t[k].aunt /\ sides[k] = t[k].side /\ t[k] \in Sibling
    BY <1>1, <1>2, <1>3
  <1>5. ActualDepth = Len(t)
    <2>1. DOMAIN aunts = 1 .. Len(t) /\ aunts \in Seq(Subtree)
      BY <1>2, <1>3, <1>4 DEF Sibling
    <2>2. QED  BY <1>3, <2>1 DEF ActualDepth
  <1>6. Len(t) <= MaxTxs
    BY <1>1, <1>3, HeightIs DEF BottomOK
  <1>7. QED  BY <1>1, <1>3, <1>4, <1>5, <1>6 DEF t

\* In the circuit the witness has a level for each that is climbed.
LEMMA PathLongEnough ==
    ASSUME TypeOK, WitnessOK
    PROVE  /\ Climbed \in Nat /\ Climbed <= ActualDepth /\ Climbed <= level
           /\ Climbed <= Len(path)
           /\ OnTrail <=> \A k \in 1 .. Climbed : Bit(place, k - 1) = sides[k]
  <1>1. /\ ActualDepth \in Nat /\ level \in 0 .. MerkleDepth
        /\ Len(path) \in Nat /\ Len(helper) = Len(path)
    BY BranchIs DEF TypeOK
  <1>2. /\ Climbed \in Nat /\ Climbed <= ActualDepth /\ Climbed <= level
    BY <1>1 DEF Climbed
  <1>3. Climbed <= Len(path)
    <2>1. CASE pc = "witness"
      BY <2>1, <1>1, <1>2 DEF WitnessOK
    <2>2. CASE pc # "witness"
      BY <2>2, <1>1, <1>2 DEF WitnessOK
    <2>3. QED  BY <2>1, <2>2
  <1>4. ASSUME NEW k \in 1 .. Climbed PROVE k <= Len(path) /\ ProofHelper(k - 1) = Bit(place, k - 1)
    <2>1. k \in 1 .. Len(path) /\ k - 1 < Len(helper) /\ (k - 1) + 1 = k
      BY <1>1, <1>2, <1>3
    <2>2. QED  BY <2>1 DEF ProofHelper, WitnessOK
  <1>5. OnTrail <=> \A k \in 1 .. Climbed : Bit(place, k - 1) = sides[k]
    BY <1>4 DEF OnTrail
  <1>6. QED  BY <1>2, <1>3, <1>5

-----------------------------------------------------------------------------
(* Steps                                                                   *)

LEMMA InitOK == Init => IInv
  <1> SUFFICES ASSUME Init PROVE IInv
    OBVIOUS
  <1>2. TypeOK
    BY DEF Init, TypeOK, Node, Subtree, Leaf
  <1>3. ActualDepth \in Nat
    BY <1>2, BranchIs DEF TypeOK
  <1>4. WitnessOK
    <2>1. Power[0] = 1 /\ Len(path) = 0
      BY PowerStep DEF Init
    <2>2. place \in Nat /\ place \div 1 = place
      BY DEF Init
    <2>3. QED  BY <2>1, <2>2, <1>3 DEF Init, WitnessOK
  <1>5. ClimbOK
    <2>1. Climbed = 0
      BY <1>3 DEF Climbed, Init
    <2>2. OnTrail
      BY <2>1 DEF OnTrail
    <2>3. \A A : Leads(Branch, A, place, Root) => currentHash = A[1]
      BY DEF Leads, Init
    <2>4. QED  BY <2>1, <2>2, <2>3 DEF ClimbOK
  <1>6. QED  BY <1>2, <1>4, <1>5 DEF IInv, EndOK, Init

LEMMA FillLevelOK == IInv /\ FillLevel => IInv'
  <1> SUFFICES ASSUME IInv, FillLevel PROVE IInv'
    OBVIOUS
  <1> DEFINE l == Len(path)
  <1>2. TypeOK /\ WitnessOK /\ ClimbOK
    BY DEF IInv
  <1>3. /\ l \in Nat /\ l < ActualDepth /\ l < MerkleDepth /\ ActualDepth <= MaxTxs
        /\ ActualDepth \in Nat /\ Len(helper) = l
    BY <1>2, BranchIs DEF TypeOK, FillLevel
  <1>4. aunts[l + 1] \in Subtree
    <2>1. l + 1 \in 1 .. Len(Branch)
      BY <1>2, <1>3, BranchIs DEF TypeOK
    <2>2. QED  BY <1>2, <2>1, BranchIs DEF TypeOK, Sibling
  <1>5. /\ index \in Nat /\ place \in Nat /\ index <= place
        /\ index % 2 \in {0, 1} /\ index \div 2 \in Nat /\ index \div 2 <= index
    BY <1>2 DEF TypeOK
  <1>6. /\ path' = Append(path, aunts[l + 1]) /\ helper' = Append(helper, index % 2)
        /\ path \in Seq(Node) /\ helper \in Seq({0, 1}) /\ aunts[l + 1] \in Node
        /\ index' = index \div 2
    BY <1>2, <1>4 DEF FillLevel, TypeOK, Node
  <1>7. /\ path' \in Seq(Node) /\ Len(path') = l + 1
        /\ \A k \in 1 .. l : path'[k] = path[k]
        /\ path'[l + 1] = aunts[l + 1]
    BY <1>6
  <1>8. /\ helper' \in Seq({0, 1}) /\ Len(helper') = l + 1
        /\ \A k \in 1 .. l : helper'[k] = helper[k]
        /\ helper'[l + 1] = index % 2
    BY <1>3, <1>5, <1>6
  <1>9. TypeOK'
    BY <1>2, <1>3, <1>5, <1>6, <1>7, <1>8 DEF TypeOK, FillLevel
  <1>10. index = place \div Power[l]
    BY <1>2 DEF WitnessOK
  <1>11. /\ ActualDepth' = ActualDepth /\ aunts' = aunts /\ sides' = sides /\ Branch' = Branch
         /\ Root' = Root
    BY DEF FillLevel, ActualDepth, aunts, sides, Branch, Root
  <1>12. WitnessOK'
    <2>1. index' = place \div Power[l + 1]
      <3>1. Power[l + 1] = 2 * Power[l] /\ Power[l] \in Nat \ {0}
        BY <1>3, PowerStep, PowerAbove
      <3>2. QED  BY <1>5, <1>6, <1>10, <3>1, DivTwice
    <2>2. \A k \in 1 .. l + 1 : path'[k] = aunts[k] /\ helper'[k] = Bit(place, k - 1)
      <3>1. TAKE k \in 1 .. l + 1
      <3>2. CASE k \in 1 .. l
        BY <3>2, <1>2, <1>7, <1>8 DEF WitnessOK
      <3>3. CASE k = l + 1
        <4>1. k - 1 = l
          BY <3>3, <1>3
        <4>2. QED  BY <3>3, <4>1, <1>7, <1>8, <1>10 DEF Bit
      <3>4. QED  BY <1>3, <3>2, <3>3
    <2>3. Len(path') <= ActualDepth /\ Len(path') = l + 1
      BY <1>3, <1>7
    <2>4. pc' = "witness" /\ level' = level /\ place' = place /\ pc = "witness"
      BY DEF FillLevel
    <2> HIDE DEF l
    <2>5. QED  BY <2>1, <2>2, <2>3, <2>4, <1>2, <1>11 DEF WitnessOK, Bit
  <1>13. level = 0 /\ level' = 0 /\ currentHash' = currentHash /\ place' = place
    BY <1>2 DEF FillLevel, WitnessOK
  <1>14. ClimbOK'
    <2>1. Climbed = 0 /\ Climbed' = 0
      BY <1>3, <1>11, <1>13 DEF Climbed
    <2>2. OnTrail /\ OnTrail'
      BY <2>1 DEF OnTrail
    <2>3. QED  BY <1>2, <1>11, <1>13, <2>1, <2>2 DEF ClimbOK
  <1>15. QED  BY <1>9, <1>12, <1>14 DEF IInv, EndOK, FillLevel

LEMMA StartCircuitOK == IInv /\ StartCircuit => IInv'
  <1> SUFFICES ASSUME IInv, StartCircuit PROVE IInv'
    OBVIOUS
  <1>2. UNCHANGED <<total, place, index, path, helper, level, currentHash>> /\ pc' = "circuit"
    BY DEF StartCircuit
  <1>3. TypeOK'
    BY <1>2 DEF IInv, TypeOK
  <1>4. /\ ActualDepth' = ActualDepth /\ aunts' = aunts /\ sides' = sides /\ Branch' = Branch
        /\ Root' = Root /\ Climbed' = Climbed
    BY <1>2 DEF ActualDepth, aunts, sides, Branch, Root, Climbed
  <1>5. WitnessOK'
    BY <1>2, <1>4 DEF IInv, WitnessOK, StartCircuit, Bit
  <1>6. OnTrail' = OnTrail
    BY <1>2, <1>4 DEF OnTrail, ProofHelper
  <1>7. ClimbOK'
    BY <1>2, <1>4, <1>6 DEF IInv, ClimbOK
  <1>8. QED  BY <1>2, <1>3, <1>5, <1>7 DEF IInv, EndOK

LEMMA AssertRootOK == IInv /\ AssertRoot => IInv'
  <1> SUFFICES ASSUME IInv, AssertRoot PROVE IInv'
    OBVIOUS
  <1>2. /\ UNCHANGED <<total, place, index, path, helper, level, currentHash>>
        /\ pc = "circuit" /\ level = MerkleDepth
        /\ pc' = IF currentHash = Root THEN "proved" ELSE "unprovable"
    BY DEF AssertRoot
  <1>3. TypeOK'
    BY <1>2 DEF IInv, TypeOK
  <1>4. /\ ActualDepth' = ActualDepth /\ aunts' = aunts /\ sides' = sides /\ Branch' = Branch
        /\ Root' = Root /\ Climbed' = Climbed
    BY <1>2 DEF ActualDepth, aunts, sides, Branch, Root, Climbed
  <1>5. WitnessOK'
    BY <1>2, <1>4 DEF IInv, WitnessOK, Bit
  <1>6. OnTrail' = OnTrail
    BY <1>2, <1>4 DEF OnTrail, ProofHelper
  <1>7. ClimbOK'
    BY <1>2, <1>4, <1>6 DEF IInv, ClimbOK
  <1>8. EndOK'
    BY <1>2, <1>4 DEF EndOK
  <1>9. QED  BY <1>3, <1>5, <1>7, <1>8 DEF IInv

LEMMA ClimbLevelOK == IInv /\ ClimbLevel => IInv'
  <1> SUFFICES ASSUME IInv, ClimbLevel PROVE IInv'
    OBVIOUS
  <1>1. TypeOK /\ WitnessOK /\ ClimbOK
    BY DEF IInv
  <1>2. /\ UNCHANGED <<total, place, index, path, helper, pc>>
        /\ level \in 0 .. MerkleDepth - 1 /\ level' = level + 1 /\ pc = "circuit"
        /\ currentHash' = Climb(level)
    BY <1>1 DEF ClimbLevel, TypeOK
  <1>3. /\ ActualDepth' = ActualDepth /\ aunts' = aunts /\ sides' = sides /\ Branch' = Branch
        /\ Root' = Root
    BY <1>2 DEF ActualDepth, aunts, sides, Branch, Root
  <1>4. WitnessOK'
    BY <1>1, <1>2, <1>3 DEF WitnessOK, Bit
  <1>5. /\ ActualDepth = Len(Branch) /\ ActualDepth \in Nat
        /\ \A k \in 1 .. Len(Branch) : /\ Branch[k] \in Sibling
                                       /\ aunts[k] = Branch[k].aunt
                                       /\ sides[k] = Branch[k].side
    BY <1>1, BranchIs DEF TypeOK
  <1>6. /\ place \in Nat /\ Len(path) = Len(helper) /\ Len(path) \in Nat
    BY <1>1 DEF TypeOK
  <1>7. ClimbOK' /\ currentHash' \in Node
    <2>1. CASE level >= ActualDepth
      <3>1. currentHash' = currentHash /\ Climbed' = Climbed
        BY <2>1, <1>2, <1>3, <1>5 DEF Climb, Climbed
      <3>2. OnTrail' = OnTrail
        BY <3>1, <1>2, <1>3 DEF OnTrail, ProofHelper
      <3>3. QED  BY <3>1, <3>2, <1>1, <1>2, <1>3 DEF ClimbOK, TypeOK
    <2>2. CASE level < ActualDepth
      <3> DEFINE j == level + 1
      <3>1. /\ Climbed = level /\ Climbed' = j /\ j \in 1 .. Len(Branch)
            /\ j \in Nat /\ j - 1 = level
        BY <2>2, <1>2, <1>3, <1>5 DEF Climbed
      <3>2. j \in 1 .. Len(path)
        BY <2>2, <1>1, <1>2, <1>5, <1>6 DEF WitnessOK
      <3>3. ProofPath(level) = Branch[j].aunt /\ ProofHelper(level) = helper[j]
        <4>1. level < Len(path) /\ level < Len(helper)
          BY <1>2, <1>6, <3>2
        <4>2. path[j] = aunts[j]
          BY <1>1, <3>2 DEF WitnessOK
        <4>3. QED  BY <4>1, <4>2, <1>5, <3>1 DEF ProofPath, ProofHelper
      <3>4. helper[j] \in {0, 1}
        BY <1>1, <1>6, <3>2 DEF TypeOK
      <3>5. currentHash' = IF helper[j] = 1 THEN Hash(Branch[j].aunt, currentHash)
                                            ELSE Hash(currentHash, Branch[j].aunt)
        BY <1>2, <2>2, <3>3 DEF Climb
      <3>6. OnTrail' <=> OnTrail /\ helper[j] = Branch[j].side
        <4>1. \A k \in Int : ProofHelper(k)' = ProofHelper(k)
          BY <1>2 DEF ProofHelper
        <4>2. OnTrail' <=> \A k \in 1 .. j : ProofHelper(k - 1) = sides[k] /\ k <= Len(path)
          BY <1>2, <1>3, <3>1, <4>1 DEF OnTrail
        <4>3. OnTrail <=> \A k \in 1 .. level : ProofHelper(k - 1) = sides[k] /\ k <= Len(path)
          BY <3>1 DEF OnTrail
        <4>4. \A k \in 1 .. j : k \in 1 .. level \/ k = j
          BY <1>2
        <4>5. \A k \in 1 .. level : k \in 1 .. j
          BY <1>2
        <4>6. j \in 1 .. j /\ ProofHelper(j - 1) = helper[j] /\ sides[j] = Branch[j].side
              /\ j <= Len(path)
          BY <1>5, <3>1, <3>2, <3>3
        <4> HIDE DEF j
        <4>7. QED  BY <4>2, <4>3, <4>4, <4>5, <4>6
      <3>7. Branch[j] \in Sibling
        BY <1>5, <3>1
      <3> HIDE DEF j
      <3>8. CASE OnTrail
        <4>1. ASSUME NEW A, Leads(Branch, A, place, Root)
              PROVE  /\ currentHash = A[j] /\ A[j] \in Subtree /\ A[j + 1] \in Subtree
                     /\ Joins(A[j], Branch[j], A[j + 1])
          <5>1. currentHash = A[j]
            BY <1>1, <3>1, <3>8, <4>1 DEF ClimbOK, j
          <5>2. /\ A \in Seq(Above(place)) /\ Len(A) = Len(Branch) + 1
                /\ Joins(A[j], Branch[j], A[j + 1])
            BY <3>1, <4>1 DEF Leads
          <5>3. j \in 1 .. Len(A) /\ j + 1 \in 1 .. Len(A)
            BY <1>5, <3>1, <5>2
          <5>4. A[j] \in Above(place) /\ A[j + 1] \in Above(place)
            BY <5>2, <5>3
          <5>5. QED  BY <5>1, <5>2, <5>4 DEF Above
        <4>2. CASE helper[j] = Branch[j].side
          <5>1. \A A : Leads(Branch, A, place, Root) =>
                          currentHash' = A[j + 1] /\ A[j + 1] \in Subtree
            BY <3>5, <4>1, <4>2 DEF Joins
          <5>2. \E A : Leads(Branch, A, place, Root)
            BY <1>1, BranchIs DEF TypeOK
          <5>3. currentHash' \in Node
            BY <5>1, <5>2 DEF Node
          <5>4. ClimbOK'
            BY <1>2, <1>3, <3>1, <3>6, <3>8, <4>2, <5>1 DEF ClimbOK
          <5>5. QED  BY <5>3, <5>4
        <4>3. CASE helper[j] # Branch[j].side
          <5>1. PICK A : Leads(Branch, A, place, Root)
            BY <1>1, BranchIs DEF TypeOK
          <5>2. currentHash' = Junk
            <6>1. Branch[j].side \in {0, 1}
              BY <3>7 DEF Sibling
            <6>2. IF Branch[j].side = 1 THEN Hash(A[j], Branch[j].aunt) = Junk
                                        ELSE Hash(Branch[j].aunt, A[j]) = Junk
              BY <3>7, <4>1, <5>1, WrongSide
            <6>3. currentHash = A[j]
              BY <4>1, <5>1
            <6>4. QED  BY <3>4, <3>5, <4>3, <6>1, <6>2, <6>3
          <5>3. QED  BY <5>2, <3>6, <4>3 DEF ClimbOK, Node
        <4>4. QED  BY <4>2, <4>3
      <3>9. CASE ~OnTrail
        <4>1. currentHash = Junk
          BY <1>1, <3>9 DEF ClimbOK
        <4>2. \A x : Hash(x, Junk) = Junk /\ Hash(Junk, x) = Junk
          BY DEF Hash, Junk
        <4>3. currentHash' = Junk
          BY <3>5, <4>1, <4>2
        <4>4. QED  BY <3>6, <3>9, <4>3 DEF ClimbOK, Node
      <3>10. QED  BY <3>8, <3>9
    <2>3. QED  BY <2>1, <2>2, <1>2, <1>5
  <1>8. TypeOK'
    BY <1>1, <1>2, <1>7 DEF TypeOK
  <1>9. EndOK'
    BY <1>2 DEF EndOK
  <1>10. QED  BY <1>4, <1>7, <1>8, <1>9 DEF IInv

LEMMA StutterOK == IInv /\ UNCHANGED vars => IInv'
  <1> SUFFICES ASSUME IInv, UNCHANGED vars PROVE IInv'
    OBVIOUS
  <1>1. UNCHANGED <<total, place, index, path, helper, level, currentHash, pc>>
    BY DEF vars
  <1>2. /\ ActualDepth' = ActualDepth /\ aunts' = aunts /\ sides' = sides /\ Branch' = Branch
        /\ Root' = Root /\ Climbed' = Climbed
    BY <1>1 DEF ActualDepth, aunts, sides, Branch, Root, Climbed
  <1>3. OnTrail' = OnTrail
    BY <1>1, <1>2 DEF OnTrail, ProofHelper
  <1>4. TypeOK' /\ EndOK'
    BY <1>1, <1>2 DEF IInv, TypeOK, EndOK
  <1>5. WitnessOK'
    BY <1>1, <1>2 DEF IInv, WitnessOK, Bit
  <1>6. ClimbOK'
    BY <1>1, <1>2, <1>3 DEF IInv, ClimbOK
  <1>7. QED  BY <1>4, <1>5, <1>6 DEF IInv

-----------------------------------------------------------------------------
(* The theorems                                                            *)

(* The invariant holds in every state, for blocks of any size and circuits *)
(* of any depth: the witness is the branch of the transaction with the     *)
(* bits of its index, and the circuit is at a node of it or nowhere.       *)
THEOREM Invariance == Spec => []IInv
  <1>1. IInv /\ [Next]_vars => IInv'
    BY FillLevelOK, StartCircuitOK, ClimbLevelOK, AssertRootOK, StutterOK DEF Next
  <1>2. QED  BY InitOK, <1>1, PTL DEF Spec

(* Every variable has its type; the witness never has more levels than the *)
(* circuit.                                                                *)
THEOREM TypeCorrect == Spec => []TypeOK
  <1>1. IInv => TypeOK
    BY DEF IInv
  <1>2. QED  BY <1>1, Invariance, PTL

(* Define climbs the tree of the block, node by node, for as long as the   *)
(* bits of the index are the sides, and ends at the root or at a hash that *)
(* is of no block.                                                         *)
THEOREM ClimbsTheTree == Spec => []ClimbsTree
  <1>1. IInv => ClimbsTree
    <2> SUFFICES ASSUME IInv PROVE ClimbsTree
      OBVIOUS
    <2>1. TypeOK /\ WitnessOK /\ ClimbOK
      BY DEF IInv
    <2>2. /\ Climbed \in Nat /\ Climbed <= ActualDepth
          /\ ActualDepth = Len(Branch) /\ Len(Branch) \in Nat /\ place \in Nat
      BY <2>1, PathLongEnough, BranchIs DEF TypeOK
    <2>3. PICK A : Leads(Branch, A, place, Root)
      BY <2>1, BranchIs DEF TypeOK
    <2>4. /\ A \in Seq(Above(place)) /\ Len(A) = Len(Branch) + 1 /\ A[Len(A)] = Root
      BY <2>3 DEF Leads
    <2>5. Climbed + 1 \in 1 .. Len(A)
      BY <2>2, <2>4
    <2>6. A[Climbed + 1] \in Above(place)
      BY <2>4, <2>5
    <2>7. CASE OnTrail
      <3>1. currentHash = A[Climbed + 1]
        BY <2>1, <2>3, <2>7 DEF ClimbOK
      <3>2. currentHash[1] <= place /\ place < currentHash[1] + currentHash[2]
        BY <2>6, <3>1 DEF Above
      <3>3. Climbed = ActualDepth => currentHash = Root
        BY <2>2, <2>4, <3>1
      <3>4. QED  BY <2>7, <3>2, <3>3 DEF ClimbsTree, OnTrail, Climbed
    <2>8. CASE ~OnTrail
      <3>1. currentHash = Junk
        BY <2>1, <2>8 DEF ClimbOK
      <3>2. QED  BY <2>8, <3>1 DEF ClimbsTree, OnTrail, Climbed
    <2>9. QED  BY <2>7, <2>8
  <1>2. QED  BY <1>1, Invariance, PTL

(* Exactly the transactions whose leaf is at the bottom of the tree can be *)
(* proved, in blocks of any size.                                          *)
THEOREM ProvesAtBottom == Spec => []ProvesBottomLeaves
  <1>1. IInv => ProvesBottomLeaves
    <2> SUFFICES ASSUME IInv, pc \in {"proved", "unprovable"}
                 PROVE  pc = "proved" <=> ActualDepth = Height(total) /\ ActualDepth <= MerkleDepth
      BY DEF ProvesBottomLeaves
    <2>1. TypeOK /\ WitnessOK /\ ClimbOK
      BY DEF IInv
    <2>2. level = MerkleDepth /\ (pc = "proved" <=> currentHash = Root) /\ MerkleDepth \in Nat
      BY DEF IInv, EndOK
    <2>3. /\ ActualDepth = Len(Branch) /\ Len(Branch) \in Nat
          /\ \A k \in 1 .. Len(Branch) : sides[k] = Branch[k].side
          /\ Len(Branch) = Height(total) <=> SidesAreBits(Branch, place)
      BY <2>1, BranchIs DEF TypeOK, BottomOK
    <2>4. /\ Climbed \in Nat /\ Climbed <= ActualDepth
          /\ OnTrail <=> \A k \in 1 .. Climbed : Bit(place, k - 1) = sides[k]
      BY <2>1, PathLongEnough
    <2>5. PICK A : Leads(Branch, A, place, Root)
      BY <2>1, BranchIs DEF TypeOK
    <2>6. Len(A) = Len(Branch) + 1 /\ A[Len(A)] = Root
      BY <2>5 DEF Leads
    <2>7. OnTrail => currentHash = A[Climbed + 1]
      BY <2>1, <2>5 DEF ClimbOK
    <2>8. ~OnTrail => currentHash # Root
      BY <2>1 DEF ClimbOK, Junk, Root, TypeOK
    <2>9. CASE ActualDepth <= MerkleDepth
      <3>1. Climbed = ActualDepth
        BY <2>2, <2>3, <2>9 DEF Climbed
      <3>2. OnTrail <=> SidesAreBits(Branch, place)
        BY <2>3, <2>4, <3>1 DEF SidesAreBits
      <3>3. OnTrail <=> currentHash = Root
        BY <2>3, <2>6, <2>7, <2>8, <3>1
      <3>4. QED  BY <2>2, <2>3, <2>9, <3>2, <3>3
    <2>10. CASE ~(ActualDepth <= MerkleDepth)
      <3>1. Climbed = MerkleDepth /\ Climbed + 1 \in 1 .. Len(Branch)
        BY <2>2, <2>3, <2>10 DEF Climbed
      <3>2. A[Climbed + 1] # Root
        BY <2>5, <3>1, BranchGrows
      <3>3. QED  BY <2>2, <2>7, <2>8, <2>10, <3>2
    <2>11. QED  BY <2>9, <2>10
  <1>2. QED  BY <1>1, Invariance, PTL

(* In a block of a power of two of transactions all of them can be proved, *)
(* as long as the circuit has a level for each of the tree: what           *)
(* GenerateProof takes from the index is right for such blocks.            *)
THEOREM FullBlocksProve ==
    Spec => [](pc = "unprovable" /\ (\E d \in 0 .. MaxTxs : total = Power[d])
                   => Height(total) > MerkleDepth)
  <1>1. ASSUME IInv, ProvesBottomLeaves, pc = "unprovable",
               NEW d \in 0 .. MaxTxs, total = Power[d]
        PROVE  Height(total) > MerkleDepth
    <2>1. total \in 1 .. MaxTxs /\ place \in 0 .. total - 1
      BY <1>1 DEF IInv, TypeOK
    <2>2. Tall(total, d)
      <3>1. \A e \in 0 .. d - 1 : 2 * Power[e] <= Power[d] /\ Power[e] \in Nat /\ Power[e] > e
        BY PowerGrows, PowerAbove
      <3>2. QED  BY <1>1, <2>1, <3>1 DEF Tall
    <2>3. Height(total) = d
      BY <2>1, <2>2, OneHeight
    <2>4. ActualDepth = Height(total)
      BY <1>1, <2>1, <2>3, BranchIs DEF BottomOK
    <2>5. QED  BY <1>1, <2>3, <2>4 DEF ProvesBottomLeaves
  <1>2. IInv /\ ProvesBottomLeaves =>
            (pc = "unprovable" /\ (\E d \in 0 .. MaxTxs : total = Power[d])
                 => Height(total) > MerkleDepth)
    BY <1>1
  <1>3. QED  BY <1>2, Invariance, ProvesAtBottom, PTL
=============================================================================
