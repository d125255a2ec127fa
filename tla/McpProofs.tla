----------------------------- MODULE McpProofs ------------------------------
(***************************************************************************)
(* The theorems of the MCP server, for any index, question, configuration, *)
(* texts, callers and number of commits: in this order its configuration,  *)
(* the paths of query_flow, the walks over the call and the import graph,  *)
(* and what module Retrieval keeps.                                        *)
(*                                                                         *)
(* Paths and walks are compared with Reach, a recursive function, by       *)
(* induction on the number of hops.                                        *)
(***************************************************************************)
EXTENDS McpServer, FiniteSetTheorems, WellFoundedInduction, TLAPS

-----------------------------------------------------------------------------
(* Induction.  The least element of a set of numbers needs no operator for *)
(* a parameter, unlike the induction theorems of the library               *)

LEMMA LeastNumber ==
  ASSUME NEW S \in SUBSET Nat, S # {}
  PROVE  \E m \in S : \A k \in S : m <= k
<1>1. PICK m \in S : \A k \in S : <<k, m>> \notin OpToRel(<, Nat)
  BY WFMin, NatLessThanWellFounded
<1>2. ASSUME NEW k \in S PROVE m <= k
  <2>1. <<k, m>> \notin {ss \in Nat \X Nat : ss[1] < ss[2]}
    BY <1>1 DEF OpToRel
  <2> QED BY <2>1
<1> QED BY <1>2

LEMMA Induction ==
  ASSUME NEW S, 0 \in S, \A n \in Nat : n \in S => n + 1 \in S
  PROVE  \A n \in Nat : n \in S
<1> SUFFICES ASSUME NEW n \in Nat, n \notin S PROVE FALSE
  OBVIOUS
<1> DEFINE T == {k \in Nat : k \notin S}
<1>1. PICK m \in T : \A k \in T : m <= k
  <2>1. T \in SUBSET Nat /\ T # {}
    OBVIOUS
  <2> QED BY <2>1, LeastNumber
<1>2. m # 0 /\ m - 1 \in Nat /\ ~(m <= m - 1)
  OBVIOUS
<1>3. m - 1 \in S
  BY <1>1, <1>2
<1> QED BY <1>2, <1>3

-----------------------------------------------------------------------------
(* The nodes d hops away *)

(* g is the function by which Reach is defined *)
Unrolls(g, links, dir, nodes, depth) ==
  g = [d \in 0..depth |-> IF d = 0 THEN nodes ELSE Hop(links, dir, g[d - 1])]

LEMMA UnrollingExists ==
  ASSUME NEW links, NEW dir, NEW nodes, NEW depth \in Nat
  PROVE  \E g : Unrolls(g, links, dir, nodes, depth)
<1> DEFINE S == {n \in Nat : \E g : Unrolls(g, links, dir, nodes, n)}
<1>1. 0 \in S
  <2> DEFINE g == [d \in 0..0 |-> nodes]
  <2>1. Unrolls(g, links, dir, nodes, 0)
    BY DEF Unrolls
  <2> QED BY <2>1
<1>2. ASSUME NEW n \in Nat, n \in S PROVE n + 1 \in S
  <2>1. PICK g : Unrolls(g, links, dir, nodes, n)
    BY <1>2
  <2> DEFINE h == [d \in 0..(n + 1) |-> IF d = n + 1 THEN Hop(links, dir, g[n]) ELSE g[d]]
  <2>2. \A d \in 0..n : g[d] = IF d = 0 THEN nodes ELSE Hop(links, dir, g[d - 1])
    BY <2>1 DEF Unrolls
  <2>3. \A d \in 0..(n + 1) : h[d] = IF d = 0 THEN nodes ELSE Hop(links, dir, h[d - 1])
    BY <2>2
  <2>4. Unrolls(h, links, dir, nodes, n + 1)
    BY <2>3 DEF Unrolls
  <2> QED BY <2>4
<1> HIDE DEF S
<1>3. depth \in S
  BY <1>1, <1>2, Induction
<1> QED BY <1>3 DEF S

LEMMA ReachUnrolled ==
  ASSUME NEW links, NEW dir, NEW nodes, NEW depth \in Nat
  PROVE  \E g : Unrolls(g, links, dir, nodes, depth) /\ Reach(links, dir, nodes, depth) = g[depth]
<1> DEFINE r == CHOOSE g : g = [d \in 0..depth |-> IF d = 0 THEN nodes ELSE Hop(links, dir, g[d - 1])]
<1>1. Reach(links, dir, nodes, depth) = r[depth]
  BY DEF Reach
<1>2. \E g : g = [d \in 0..depth |-> IF d = 0 THEN nodes ELSE Hop(links, dir, g[d - 1])]
  <2>1. \E g : Unrolls(g, links, dir, nodes, depth)
    BY UnrollingExists
  <2> QED BY <2>1, Zenon DEF Unrolls
<1>3. r = [d \in 0..depth |-> IF d = 0 THEN nodes ELSE Hop(links, dir, r[d - 1])]
  BY <1>2
<1> QED BY <1>1, <1>3 DEF Unrolls

LEMMA UnrollingsAgree ==
  ASSUME NEW links, NEW dir, NEW nodes, NEW m \in Nat, NEW n \in Nat, m <= n,
         NEW g, NEW h, Unrolls(g, links, dir, nodes, m), Unrolls(h, links, dir, nodes, n)
  PROVE  \A k \in 0..m : g[k] = h[k]
<1> DEFINE S == {k \in Nat : k <= m => g[k] = h[k]}
<1>1. \A d \in 0..m : g[d] = IF d = 0 THEN nodes ELSE Hop(links, dir, g[d - 1])
  BY DEF Unrolls
<1>2. \A d \in 0..n : h[d] = IF d = 0 THEN nodes ELSE Hop(links, dir, h[d - 1])
  BY DEF Unrolls
<1>3. 0 \in S
  BY <1>1, <1>2
<1>4. ASSUME NEW k \in Nat, k \in S PROVE k + 1 \in S
  BY <1>1, <1>2, <1>4
<1> HIDE DEF S
<1>5. \A k \in Nat : k \in S
  BY <1>3, <1>4, Induction
<1> QED BY <1>5 DEF S

(* The recursion of Reach, as equations *)
LEMMA ReachSteps ==
  ASSUME NEW links, NEW dir, NEW nodes, NEW d \in Nat
  PROVE  /\ Reach(links, dir, nodes, 0) = nodes
         /\ Reach(links, dir, nodes, d + 1) = Hop(links, dir, Reach(links, dir, nodes, d))
<1>1. PICK g : Unrolls(g, links, dir, nodes, 0) /\ Reach(links, dir, nodes, 0) = g[0]
  BY ReachUnrolled
<1>2. Reach(links, dir, nodes, 0) = nodes
  BY <1>1 DEF Unrolls
<1>3. PICK h : Unrolls(h, links, dir, nodes, d) /\ Reach(links, dir, nodes, d) = h[d]
  BY ReachUnrolled
<1>4. PICK i : Unrolls(i, links, dir, nodes, d + 1) /\ Reach(links, dir, nodes, d + 1) = i[d + 1]
  BY ReachUnrolled
<1>5. h[d] = i[d]
  BY <1>3, <1>4, UnrollingsAgree
<1>6. i[d + 1] = Hop(links, dir, i[d])
  BY <1>4 DEF Unrolls
<1> QED BY <1>2, <1>3, <1>4, <1>5, <1>6

(* Who is a hop away *)
LEMMA HopDef ==
  ASSUME NEW links, NEW nodes, NEW n
  PROVE  /\ n \in Hop(links, "up", nodes) <=> \E q \in links : q[2] \in nodes /\ n = q[1]
         /\ n \in Hop(links, "down", nodes) <=> \E q \in links : q[1] \in nodes /\ n = q[2]
BY DEF Hop

LEMMA HopMonotone ==
  ASSUME NEW few, NEW many, few \subseteq many, NEW dir, NEW A, NEW B, A \subseteq B
  PROVE  Hop(few, dir, A) \subseteq Hop(many, dir, B)
BY DEF Hop

LEMMA ReachMonotone ==
  ASSUME NEW few, NEW many, few \subseteq many, NEW dir, NEW nodes, NEW d \in Nat
  PROVE  Reach(few, dir, nodes, d) \subseteq Reach(many, dir, nodes, d)
<1> DEFINE S == {k \in Nat : Reach(few, dir, nodes, k) \subseteq Reach(many, dir, nodes, k)}
<1>1. 0 \in S
  BY ReachSteps
<1>2. ASSUME NEW k \in Nat, k \in S PROVE k + 1 \in S
  <2>1. Hop(few, dir, Reach(few, dir, nodes, k)) \subseteq Hop(many, dir, Reach(many, dir, nodes, k))
    BY <1>2, HopMonotone
  <2>2. Reach(few, dir, nodes, k + 1) \subseteq Reach(many, dir, nodes, k + 1)
    BY <2>1, ReachSteps
  <2> QED BY <2>2
<1> HIDE DEF S
<1>3. d \in S
  BY <1>1, <1>2, Induction
<1> QED BY <1>3 DEF S

(* A way of a + b hops from s to t has a point a hops behind s and b hops  *)
(* before t                                                                *)
LEMMA WaySplits ==
  ASSUME NEW links, NEW s, NEW t, NEW a \in Nat, NEW b \in Nat,
         t \in Reach(links, "down", {s}, a + b)
  PROVE  \E z : z \in Reach(links, "down", {s}, a) /\ z \in Reach(links, "up", {t}, b)
<1> DEFINE Splits(i, j) ==
      t \in Reach(links, "down", {s}, i + j) =>
        \E z : z \in Reach(links, "down", {s}, i) /\ z \in Reach(links, "up", {t}, j)
<1>1. ASSUME NEW i \in Nat PROVE Splits(i, 0)
  <2>1. i + 0 = i /\ Reach(links, "up", {t}, 0) = {t}
    BY ReachSteps
  <2> QED BY <2>1
<1>2. ASSUME NEW j \in Nat, \A i \in Nat : Splits(i, j), NEW i \in Nat
      PROVE  Splits(i, j + 1)
  <2> SUFFICES ASSUME t \in Reach(links, "down", {s}, i + (j + 1))
               PROVE  \E z : z \in Reach(links, "down", {s}, i) /\ z \in Reach(links, "up", {t}, j + 1)
    OBVIOUS
  <2>1. i + 1 \in Nat /\ i + (j + 1) = (i + 1) + j
    OBVIOUS
  <2>2. PICK z : z \in Reach(links, "down", {s}, i + 1) /\ z \in Reach(links, "up", {t}, j)
    BY <1>2, <2>1
  <2>3. z \in Hop(links, "down", Reach(links, "down", {s}, i))
    BY <2>2, ReachSteps
  <2>4. PICK q \in links : q[1] \in Reach(links, "down", {s}, i) /\ z = q[2]
    BY <2>3, HopDef
  <2>5. q[1] \in Hop(links, "up", Reach(links, "up", {t}, j))
    BY <2>2, <2>4, HopDef
  <2> QED BY <2>4, <2>5, ReachSteps
<1> HIDE DEF Splits
<1> DEFINE S == {j \in Nat : \A i \in Nat : Splits(i, j)}
<1>3. 0 \in S /\ \A j \in Nat : j \in S => j + 1 \in S
  BY <1>1, <1>2
<1> HIDE DEF S
<1>4. b \in S
  BY <1>3, Induction
<1>5. Splits(a, b)
  BY <1>4 DEF S
<1> QED BY <1>5 DEF Splits

(* The other way round: two halves that meet are a way *)
LEMMA WaysJoin ==
  ASSUME NEW links, NEW s, NEW t, NEW a \in Nat, NEW b \in Nat,
         NEW z, z \in Reach(links, "down", {s}, a), z \in Reach(links, "up", {t}, b)
  PROVE  t \in Reach(links, "down", {s}, a + b)
<1> DEFINE Joins(i, j) == \A y :
      y \in Reach(links, "down", {s}, i) /\ y \in Reach(links, "up", {t}, j)
        => t \in Reach(links, "down", {s}, i + j)
<1>1. ASSUME NEW i \in Nat PROVE Joins(i, 0)
  <2>1. i + 0 = i /\ Reach(links, "up", {t}, 0) = {t}
    BY ReachSteps
  <2> QED BY <2>1
<1>2. ASSUME NEW j \in Nat, \A i \in Nat : Joins(i, j), NEW i \in Nat
      PROVE  Joins(i, j + 1)
  <2> SUFFICES ASSUME NEW y, y \in Reach(links, "down", {s}, i), y \in Reach(links, "up", {t}, j + 1)
               PROVE  t \in Reach(links, "down", {s}, i + (j + 1))
    OBVIOUS
  <2>1. i + 1 \in Nat /\ i + (j + 1) = (i + 1) + j
    OBVIOUS
  <2>2. y \in Hop(links, "up", Reach(links, "up", {t}, j))
    BY ReachSteps
  <2>3. PICK q \in links : q[2] \in Reach(links, "up", {t}, j) /\ y = q[1]
    BY <2>2, HopDef
  <2>4. q[2] \in Hop(links, "down", Reach(links, "down", {s}, i))
    BY <2>3, HopDef
  <2>5. q[2] \in Reach(links, "down", {s}, i + 1)
    BY <2>4, ReachSteps
  <2> QED BY <1>2, <2>1, <2>3, <2>5
<1> HIDE DEF Joins
<1> DEFINE S == {j \in Nat : \A i \in Nat : Joins(i, j)}
<1>3. 0 \in S /\ \A j \in Nat : j \in S => j + 1 \in S
  BY <1>1, <1>2
<1> HIDE DEF S
<1>4. b \in S
  BY <1>3, Induction
<1>5. Joins(a, b)
  BY <1>4 DEF S
<1> QED BY <1>5 DEF Joins

-----------------------------------------------------------------------------
(* One side of a search: dom are the nodes at most k hops from s, and of   *)
(* these all but the front are closer                                      *)
Explored(links, dir, s, dom, front, k) ==
  /\ \A n : n \in dom <=> \E d \in 0..k : n \in Reach(links, dir, {s}, d)
  /\ front \subseteq Reach(links, dir, {s}, k)
  /\ \A n \in dom \ front : \E d \in 0..k : d < k /\ n \in Reach(links, dir, {s}, d)

LEMMA ExploredStart ==
  ASSUME NEW links, NEW dir, NEW s
  PROVE  Explored(links, dir, s, {s}, {s}, 0)
<1>1. Reach(links, dir, {s}, 0) = {s}
  BY ReachSteps
<1>2. \A d \in 0..0 : d = 0
  OBVIOUS
<1> QED BY <1>1, <1>2 DEF Explored

LEMMA ExploredStep ==
  ASSUME NEW links, NEW dir, NEW s, NEW dom, NEW front, NEW k \in Nat,
         Explored(links, dir, s, dom, front, k),
         NEW fresh, fresh = Hop(links, dir, front) \ dom
  PROVE  Explored(links, dir, s, dom \cup fresh, fresh, k + 1)
<1> DEFINE R(d) == Reach(links, dir, {s}, d)
<1>1. \A d \in Nat : R(d + 1) = Hop(links, dir, R(d))
  BY ReachSteps
<1>2. \A d \in 0..k : d \in 0..(k + 1) /\ d \in Nat /\ d < k + 1 /\ d + 1 \in 0..(k + 1)
  OBVIOUS
<1>3. /\ \A n : n \in dom <=> \E d \in 0..k : n \in R(d)
      /\ front \subseteq R(k)
      /\ \A n \in dom \ front : \E d \in 0..k : d < k /\ n \in R(d)
  BY DEF Explored
<1> HIDE DEF R
<1>4. fresh \subseteq R(k + 1)
  BY <1>1, <1>3, HopMonotone
<1>5. R(k) = front \cup (R(k) \ front) /\ R(k) \subseteq dom
  <2>1. k \in 0..k
    OBVIOUS
  <2> QED BY <1>3, <2>1
<1>6. Hop(links, dir, R(k) \ front) \subseteq dom
  <2> SUFFICES ASSUME NEW n \in Hop(links, dir, R(k) \ front) PROVE n \in dom
    OBVIOUS
  <2>1. PICK q \in links : \/ dir = "up" /\ q[2] \in R(k) \ front /\ n = q[1]
                           \/ dir # "up" /\ q[1] \in R(k) \ front /\ n = q[2]
    BY DEF Hop
  <2>2. PICK m \in R(k) \ front : n \in Hop(links, dir, {m})
    BY <2>1 DEF Hop
  <2>3. PICK d \in 0..k : d < k /\ m \in R(d)
    BY <1>3, <1>5, <2>2
  <2>4. n \in R(d + 1)
    BY <1>1, <1>2, <2>2, <2>3, HopMonotone
  <2>5. d + 1 \in 0..k
    BY <2>3
  <2> QED BY <1>3, <2>4, <2>5
<1>7. R(k + 1) \subseteq dom \cup fresh
  <2> SUFFICES ASSUME NEW n \in Hop(links, dir, R(k)) PROVE n \in dom \cup fresh
    BY <1>1
  <2>1. n \in Hop(links, dir, front) \/ n \in Hop(links, dir, R(k) \ front)
    BY <1>5 DEF Hop
  <2> QED BY <1>6, <2>1
<1>8. ASSUME NEW n
      PROVE  n \in dom \cup fresh <=> \E d \in 0..(k + 1) : n \in R(d)
  <2>1. ASSUME n \in dom PROVE \E d \in 0..(k + 1) : n \in R(d)
    BY <1>2, <1>3, <2>1
  <2>2. k + 1 \in 0..(k + 1)
    OBVIOUS
  <2>3. ASSUME NEW d \in 0..(k + 1), n \in R(d) PROVE n \in dom \cup fresh
    <3>1. d \in 0..k \/ d = k + 1
      OBVIOUS
    <3> QED BY <1>3, <1>7, <2>3, <3>1
  <2> QED BY <1>4, <2>1, <2>2, <2>3
<1>9. \A n \in dom : \E d \in 0..(k + 1) : d < k + 1 /\ n \in R(d)
  BY <1>2, <1>3
<1> QED BY <1>4, <1>8, <1>9 DEF Explored, R

(* When nothing is left to expand, nothing else can be reached *)
LEMMA ExploredAll ==
  ASSUME NEW links, NEW dir, NEW s, NEW dom, NEW k \in Nat,
         Explored(links, dir, s, dom, {}, k), NEW d \in Nat
  PROVE  Reach(links, dir, {s}, d) \subseteq dom
<1> DEFINE R(i) == Reach(links, dir, {s}, i)
<1> DEFINE S == {i \in Nat : R(i) \subseteq dom}
<1>1. \A i \in Nat : R(i + 1) = Hop(links, dir, R(i))
  BY ReachSteps
<1>2. /\ \A n : n \in dom <=> \E i \in 0..k : n \in R(i)
      /\ \A n \in dom : \E i \in 0..k : i < k /\ n \in R(i)
  BY DEF Explored
<1> HIDE DEF R
<1>3. 0 \in S
  <2>1. 0 \in 0..k
    OBVIOUS
  <2> QED BY <1>2, <2>1
<1>4. ASSUME NEW i \in Nat, R(i) \subseteq dom PROVE R(i + 1) \subseteq dom
  <2> SUFFICES ASSUME NEW n \in Hop(links, dir, R(i)) PROVE n \in dom
    BY <1>1
  <2>1. PICK m \in R(i) : n \in Hop(links, dir, {m})
    BY DEF Hop
  <2>2. PICK j \in 0..k : j < k /\ m \in R(j)
    BY <1>2, <1>4, <2>1
  <2>3. n \in R(j + 1)
    BY <1>1, <2>1, <2>2, HopMonotone
  <2>4. j + 1 \in 0..k
    BY <2>2
  <2> QED BY <1>2, <2>3, <2>4
<1>5. \A i \in Nat : i \in S => i + 1 \in S
  BY <1>4
<1> HIDE DEF S
<1>6. d \in S
  BY <1>3, <1>5, Induction
<1> QED BY <1>6 DEF S, R

(* Two searches that do not touch: there is no way of one hop more.  This  *)
(* one has looked from the front of s at all that is known before t        *)
LEMMA NoContactForward ==
  ASSUME NEW links, NEW s, NEW t, NEW F, NEW B, NEW frontF, NEW frontB, NEW k \in Nat, NEW j \in Nat,
         Explored(links, "down", s, F, frontF, k), Explored(links, "up", t, B, frontB, j),
         \A d \in 0..(k + j) : t \notin Reach(links, "down", {s}, d),
         \A p \in links : ~(p[1] \in frontF /\ p[2] \in B)
  PROVE  \A d \in 0..(k + j + 1) : t \notin Reach(links, "down", {s}, d)
<1> SUFFICES ASSUME t \in Reach(links, "down", {s}, (k + 1) + j) PROVE FALSE
  <2>1. \A d \in 0..(k + j + 1) : d \in 0..(k + j) \/ d = (k + 1) + j
    OBVIOUS
  <2> QED BY <2>1
<1>1. PICK z : z \in Reach(links, "down", {s}, k + 1) /\ z \in Reach(links, "up", {t}, j)
  <2>1. k + 1 \in Nat /\ j + 1 \in Nat
    OBVIOUS
  <2> QED BY <2>1, WaySplits
<1>2. z \in Hop(links, "down", Reach(links, "down", {s}, k))
  BY <1>1, ReachSteps
<1>3. PICK p \in links : p[1] \in Reach(links, "down", {s}, k) /\ z = p[2]
  BY <1>2, HopDef
<1>4. p[1] \in F /\ z \in B
  <2>1. k \in 0..k /\ j \in 0..j
    OBVIOUS
  <2> QED BY <1>1, <1>3, <2>1 DEF Explored
<1>5. PICK d \in 0..k : d < k /\ p[1] \in Reach(links, "down", {s}, d)
  BY <1>3, <1>4 DEF Explored
<1>6. z \in Hop(links, "down", Reach(links, "down", {s}, d))
  BY <1>3, <1>5, HopDef
<1>7. z \in Reach(links, "down", {s}, d + 1)
  BY <1>6, ReachSteps
<1>8. t \in Reach(links, "down", {s}, (d + 1) + j)
  <2>1. d + 1 \in Nat
    OBVIOUS
  <2> QED BY <1>1, <1>7, <2>1, WaysJoin
<1>9. (d + 1) + j \in 0..(k + j)
  BY <1>5
<1> QED BY <1>8, <1>9

LEMMA NoContactBackward ==
  ASSUME NEW links, NEW s, NEW t, NEW F, NEW B, NEW frontF, NEW frontB, NEW k \in Nat, NEW j \in Nat,
         Explored(links, "down", s, F, frontF, k), Explored(links, "up", t, B, frontB, j),
         \A d \in 0..(k + j) : t \notin Reach(links, "down", {s}, d),
         \A p \in links : ~(p[2] \in frontB /\ p[1] \in F)
  PROVE  \A d \in 0..(k + j + 1) : t \notin Reach(links, "down", {s}, d)
<1> SUFFICES ASSUME t \in Reach(links, "down", {s}, k + (j + 1)) PROVE FALSE
  <2>1. \A d \in 0..(k + j + 1) : d \in 0..(k + j) \/ d = k + (j + 1)
    OBVIOUS
  <2> QED BY <2>1
<1>1. PICK z : z \in Reach(links, "down", {s}, k) /\ z \in Reach(links, "up", {t}, j + 1)
  <2>1. k + 1 \in Nat /\ j + 1 \in Nat
    OBVIOUS
  <2> QED BY <2>1, WaySplits
<1>2. z \in Hop(links, "up", Reach(links, "up", {t}, j))
  BY <1>1, ReachSteps
<1>3. PICK p \in links : p[2] \in Reach(links, "up", {t}, j) /\ z = p[1]
  BY <1>2, HopDef
<1>4. p[2] \in B /\ z \in F
  <2>1. k \in 0..k /\ j \in 0..j
    OBVIOUS
  <2> QED BY <1>1, <1>3, <2>1 DEF Explored
<1>5. PICK d \in 0..j : d < j /\ p[2] \in Reach(links, "up", {t}, d)
  BY <1>3, <1>4 DEF Explored
<1>6. z \in Hop(links, "up", Reach(links, "up", {t}, d))
  BY <1>3, <1>5, HopDef
<1>7. z \in Reach(links, "up", {t}, d + 1)
  BY <1>6, ReachSteps
<1>8. t \in Reach(links, "down", {s}, k + (d + 1))
  <2>1. d + 1 \in Nat
    OBVIOUS
  <2> QED BY <1>1, <1>7, <2>1, WaysJoin
<1>9. k + (d + 1) \in 0..(k + j)
  BY <1>5
<1> QED BY <1>8, <1>9

-----------------------------------------------------------------------------
(* A path along links *)
Trail(links, path, a, b) ==
  /\ path \in Seq(Symbols) /\ path # <<>>
  /\ path[1] = a /\ path[Len(path)] = b
  /\ \A i \in 1..(Len(path) - 1) : <<path[i], path[i + 1]>> \in links

LEMMA TrailOfOne ==
  ASSUME NEW links, NEW n \in Symbols
  PROVE  Trail(links, <<n>>, n, n) /\ Len(<<n>>) = 1
BY DEF Trail

LEMMA TrailIsFinite ==
  ASSUME NEW links, NEW p, NEW a, NEW b, Trail(links, p, a, b)
  PROVE  Len(p) \in Nat
BY DEF Trail

LEMMA TrailJoins ==
  ASSUME NEW links, NEW p, NEW q, NEW a, NEW b, NEW m, NEW n,
         Trail(links, p, a, m), Trail(links, q, n, b), <<m, n>> \in links
  PROVE  Trail(links, p \o q, a, b) /\ Len(p \o q) = Len(p) + Len(q)
<1> DEFINE pq == p \o q
<1>1. /\ p \in Seq(Symbols) /\ q \in Seq(Symbols) /\ Len(p) \in Nat \ {0} /\ Len(q) \in Nat \ {0}
      /\ p[1] = a /\ p[Len(p)] = m /\ q[1] = n /\ q[Len(q)] = b
      /\ \A i \in 1..(Len(p) - 1) : <<p[i], p[i + 1]>> \in links
      /\ \A i \in 1..(Len(q) - 1) : <<q[i], q[i + 1]>> \in links
  BY DEF Trail
<1>2. pq \in Seq(Symbols) /\ Len(pq) = Len(p) + Len(q)
  BY <1>1
<1>3. \A i \in 1..Len(pq) : pq[i] = IF i <= Len(p) THEN p[i] ELSE q[i - Len(p)]
  BY <1>1
<1> HIDE DEF pq
<1>4. pq # <<>> /\ pq[1] = a /\ pq[Len(pq)] = b
  BY <1>1, <1>2, <1>3
<1>5. ASSUME NEW i \in 1..(Len(pq) - 1) PROVE <<pq[i], pq[i + 1]>> \in links
  <2>0. i \in 1..Len(pq) /\ i + 1 \in 1..Len(pq)
    BY <1>1, <1>2
  <2>1. CASE i < Len(p)
    <3>1. pq[i] = p[i] /\ pq[i + 1] = p[i + 1] /\ i \in 1..(Len(p) - 1)
      BY <1>1, <1>3, <2>0, <2>1
    <3> QED BY <1>1, <3>1
  <2>2. CASE i = Len(p)
    <3>1. pq[i] = m /\ pq[i + 1] = n
      BY <1>1, <1>3, <2>0, <2>2
    <3> QED BY <3>1
  <2>3. CASE i > Len(p)
    <3> DEFINE h == i - Len(p)
    <3>1. pq[i] = q[h] /\ pq[i + 1] = q[h + 1] /\ h \in 1..(Len(q) - 1)
      BY <1>1, <1>2, <1>3, <2>0, <2>3
    <3> HIDE DEF h
    <3> QED BY <1>1, <3>1
  <2> QED BY <1>1, <2>1, <2>2, <2>3
<1>6. Trail(links, pq, a, b)
  BY <1>2, <1>4, <1>5 DEF Trail
<1> QED BY <1>2, <1>6 DEF pq

LEMMA TrailGrows ==
  ASSUME NEW links, NEW p, NEW a, NEW m, NEW n \in Symbols, Trail(links, p, a, m), <<m, n>> \in links
  PROVE  Trail(links, Append(p, n), a, n) /\ Len(Append(p, n)) = Len(p) + 1
<1>1. Append(p, n) = p \o <<n>>
  BY DEF Trail
<1>2. Trail(links, <<n>>, n, n) /\ Len(<<n>>) = 1
  BY TrailOfOne
<1>3. Trail(links, p \o <<n>>, a, n) /\ Len(p \o <<n>>) = Len(p) + Len(<<n>>)
  BY <1>2, TrailJoins
<1> QED BY <1>1, <1>2, <1>3

-----------------------------------------------------------------------------
(* The configuration *)

LEMMA FirstAccepted ==
  ASSUME NEW key, NEW layers, Accepts(key, layers[4]),
         NEW i, i = CHOOSE n \in 1..4 : /\ Accepts(key, layers[n])
                                       /\ \A j \in 1..(n - 1) : ~Accepts(key, layers[j])
  PROVE  i \in 1..4 /\ Accepts(key, layers[i]) /\ \A j \in 1..(i - 1) : ~Accepts(key, layers[j])
<1> DEFINE S == {n \in 1..4 : Accepts(key, layers[n])}
<1>1. S \in SUBSET Nat /\ S # {}
  OBVIOUS
<1> HIDE DEF S
<1>2. PICK m \in S : \A k \in S : m <= k
  BY <1>1, LeastNumber
<1>3. m \in 1..4 /\ Accepts(key, layers[m])
  BY DEF S
<1>4. ASSUME NEW j \in 1..(m - 1) PROVE ~Accepts(key, layers[j])
  <2>1. j \in 1..4 /\ ~(m <= j)
    BY <1>3
  <2> QED BY <1>2, <2>1 DEF S
<1>5. \E n \in 1..4 : Accepts(key, layers[n]) /\ \A j \in 1..(n - 1) : ~Accepts(key, layers[j])
  BY <1>3, <1>4
<1> QED BY <1>5

LEMMA LoadedIsValid ==
  ASSUME NEW env, NEW project, NEW user, NEW root, NEW key \in DOMAIN FIELDS
  PROVE  load_from(env, project, user, root)[key] \in FIELDS[key].valid
<1> DEFINE layers == <<env,
                  IF root = NoRoot THEN Nothing ELSE read_config_values(project, TRUE),
                  read_config_values(user, FALSE),
                  [k \in DOMAIN FIELDS |-> FIELDS[k].default]>>
           i == CHOOSE n \in 1..4 : /\ Accepts(key, layers[n])
                                    /\ \A j \in 1..(n - 1) : ~Accepts(key, layers[j])
<1>1. load_from(env, project, user, root)[key] = layers[i][key]
  BY DEF load_from
<1>2. layers[4] = [k \in DOMAIN FIELDS |-> FIELDS[k].default]
  OBVIOUS
<1>3. Accepts(key, layers[4])
  BY <1>2, McpConfigAssumption DEF Accepts
<1> HIDE DEF layers
<1>4. Accepts(key, layers[i])
  BY <1>3, FirstAccepted
<1> QED BY <1>1, <1>4 DEF Accepts

(***************************************************************************)
(* Theorem: a file of the project has no say in the keys it may not set,   *)
(* such as the key of the language model: their values are the same        *)
(* whatever it holds and wherever its root is (config.rs load_from).       *)
(***************************************************************************)
THEOREM ProjectKeysAreIgnored ==
  ASSUME NEW env, NEW user, NEW project, NEW root, NEW other, NEW place,
         NEW key \in PROJECT_FORBIDDEN_KEYS \cap DOMAIN FIELDS
  PROVE  load_from(env, project, user, root)[key] = load_from(env, other, user, place)[key]
<1> DEFINE defaults == [k \in DOMAIN FIELDS |-> FIELDS[k].default]
           given(p, r) == IF r = NoRoot THEN Nothing ELSE read_config_values(p, TRUE)
           A == <<env, given(project, root), read_config_values(user, FALSE), defaults>>
           B == <<env, given(other, place), read_config_values(user, FALSE), defaults>>
           i == CHOOSE n \in 1..4 : /\ Accepts(key, A[n])
                                    /\ \A j \in 1..(n - 1) : ~Accepts(key, A[j])
           l == CHOOSE n \in 1..4 : /\ Accepts(key, B[n])
                                    /\ \A j \in 1..(n - 1) : ~Accepts(key, B[j])
<1>1. /\ load_from(env, project, user, root)[key] = A[i][key]
      /\ load_from(env, other, user, place)[key] = B[l][key]
  BY DEF load_from
<1>2. A[1] = B[1] /\ A[3] = B[3] /\ A[4] = B[4] /\ A[4] = defaults
  OBVIOUS
<1>3. ~Accepts(key, A[2]) /\ ~Accepts(key, B[2])
  <2>1. \A p, r : key \notin DOMAIN given(p, r)
    BY DEF read_config_values, Nothing
  <2>2. A[2] = given(project, root) /\ B[2] = given(other, place)
    OBVIOUS
  <2> HIDE DEF given, A, B
  <2> QED BY <2>1, <2>2 DEF Accepts
<1>4. Accepts(key, A[4]) /\ Accepts(key, B[4])
  BY <1>2, McpConfigAssumption DEF Accepts
<1> HIDE DEF A, B, defaults
<1>5. /\ i \in 1..4 /\ Accepts(key, A[i]) /\ \A j \in 1..(i - 1) : ~Accepts(key, A[j])
      /\ l \in 1..4 /\ Accepts(key, B[l]) /\ \A j \in 1..(l - 1) : ~Accepts(key, B[j])
  BY <1>4, FirstAccepted
<1> HIDE DEF i, l
<1>6. \A n \in 1..4 : n = 1 \/ n = 2 \/ n = 3 \/ n = 4
  OBVIOUS
<1>7. \A n \in 1..4 : Accepts(key, A[n]) <=> Accepts(key, B[n])
  BY <1>2, <1>3, <1>6
<1>8. i = l
  <2>1. ~(i < l)
    <3>1. i < l => i \in 1..(l - 1)
      BY <1>5
    <3> QED BY <1>5, <1>7, <3>1
  <2>2. ~(l < i)
    <3>1. l < i => l \in 1..(i - 1)
      BY <1>5
    <3> QED BY <1>5, <1>7, <3>1
  <2> QED BY <1>5, <2>1, <2>2
<1>9. A[i] = B[l]
  BY <1>2, <1>3, <1>5, <1>6, <1>8
<1> QED BY <1>1, <1>9

ConfigIsValid == \A key \in DOMAIN FIELDS : cfg[key] \in FIELDS[key].valid

LEMMA ConfigurationsAreValid ==
  ASSUME cfg \in Configurations
  PROVE  ConfigIsValid
BY LoadedIsValid DEF Configurations, ConfigIsValid

LEMMA Limits ==
  ASSUME ConfigIsValid
  PROVE  bfs_max_depth \in Nat /\ flow_max_depth \in Nat /\ flow_max_visited \in Nat
BY McpConfigAssumption DEF ConfigIsValid, bfs_max_depth, flow_max_depth, flow_max_visited

-----------------------------------------------------------------------------
(* query_flow *)

Trees == UNION {[D -> Seq(Symbols)] : D \in SUBSET Symbols}
Flows == [rows : SUBSET CallRows, known : SUBSET Symbols, resolved : Seq(Symbols \cup {None}),
          segments : Seq(Seq(Symbols)), F : Trees, B : Trees,
          frontF : SUBSET Symbols, frontB : SUBSET Symbols, round : Nat]

(* What FlowIsShortest says of one segment *)
Seen(rows, dir, s, depth) == UNION {Reach(Pairs(rows), dir, {s}, d) : d \in 0..depth}
SegmentOk(rows, src, tgt, path, depth, budget) ==
  (src # None /\ tgt # None) =>
    IF path = <<>>
    THEN \/ \A d \in 0..(2 * depth) : tgt \notin Reach(Pairs(rows), "down", {src}, d)
         \/ Cardinality(Seen(rows, "down", src, depth)) + Cardinality(Seen(rows, "up", tgt, depth))
              > budget
    ELSE /\ path[1] = src /\ Last(path) = tgt
         /\ \A k \in 1..(Len(path) - 1) : <<path[k], path[k + 1]>> \in Pairs(rows)
         /\ \A d \in 0..(Len(path) - 2) : tgt \notin Reach(Pairs(rows), "down", {src}, d)

SegmentsOk(f, depth, budget) ==
  \A i \in DOMAIN f.segments :
    SegmentOk(f.rows, f.resolved[i], f.resolved[i + 1], f.segments[i], depth, budget)

LEMMA FlowBySegment ==
  /\ FlowIsShortest <=> SegmentsOk(flow, FlowDepth, FlowVisited)
  /\ FlowIsShortest' <=> SegmentsOk(flow', FlowDepth', FlowVisited')
BY DEF FlowIsShortest, SegmentsOk, SegmentOk, Seen, Calls

LEMMA NoSegments ==
  /\ flow.segments = <<>> => FlowIsShortest
  /\ flow'.segments = <<>> => FlowIsShortest'
<1>1. DOMAIN <<>> = {}
  OBVIOUS
<1> QED BY <1>1, FlowBySegment DEF SegmentsOk

(* The search between two symbols: m rounds of the source's side are done, *)
(* flow.round of the target's                                              *)
From(f) == f.resolved[Len(f.segments) + 1]
To(f) == f.resolved[Len(f.segments) + 2]
Search(f, m) ==
  LET links == Pairs(f.rows)
  IN /\ From(f) \in Symbols /\ To(f) \in Symbols
     /\ Explored(links, "down", From(f), DOMAIN f.F, f.frontF, m)
     /\ Explored(links, "up", To(f), DOMAIN f.B, f.frontB, f.round)
     /\ \A n \in DOMAIN f.F : Trail(links, f.F[n], From(f), n) /\ Len(f.F[n]) <= m + 1
     /\ \A n \in DOMAIN f.B : Trail(links, f.B[n], n, To(f)) /\ Len(f.B[n]) <= f.round + 1
     /\ \A d \in 0..(m + f.round) : To(f) \notin Reach(links, "down", {From(f)}, d)

FlowPlaced ==
  /\ pc # "idle" => call \in Questions
  /\ pc \in {"idle", "edges", "symbols", "names"} => flow.segments = <<>>
  /\ pc = "symbols" => flow.resolved = <<>>
  /\ pc = "names" => Len(flow.resolved) < Len(call.names)
  /\ pc \in {"edges", "symbols", "names"} => Len(call.names) >= 2
  /\ pc \in {"pair", "round", "backward"} => Len(flow.segments) + 2 <= Len(flow.resolved)

FlowInv ==
  /\ ConfigIsValid
  /\ edges \in SUBSET CallRows /\ symbols \in SUBSET Symbols
  /\ flow \in Flows
  /\ FlowPlaced
  /\ FlowIsShortest
  /\ pc = "round" => Search(flow, flow.round) /\ (flow.round = 0 \/ flow.round <= FlowDepth)
  /\ pc = "backward" => Search(flow, flow.round + 1) /\ flow.round < FlowDepth

LEMMA PairsTyped ==
  ASSUME NEW rows \in SUBSET CallRows, NEW p \in Pairs(rows)
  PROVE  p = <<p[1], p[2]>> /\ p[1] \in Symbols /\ p[2] \in Symbols
BY McpGraphAssumption DEF Pairs

LEMMA ReachTyped ==
  ASSUME NEW rows \in SUBSET CallRows, NEW dir \in {"up", "down"}, NEW s \in Symbols, NEW d \in Nat
  PROVE  Reach(Pairs(rows), dir, {s}, d) \subseteq Symbols
<1>1. CASE d = 0
  BY <1>1, ReachSteps
<1>2. CASE d # 0
  <2>1. d - 1 \in Nat /\ d = (d - 1) + 1
    BY <1>2
  <2>2. Reach(Pairs(rows), dir, {s}, d) = Hop(Pairs(rows), dir, Reach(Pairs(rows), dir, {s}, d - 1))
    BY <2>1, ReachSteps
  <2>3. \A A : Hop(Pairs(rows), dir, A) \subseteq Symbols
    BY PairsTyped DEF Hop
  <2> QED BY <2>2, <2>3
<1> QED BY <1>1, <1>2

LEMMA FlowLimits ==
  ASSUME ConfigIsValid, call \in Questions
  PROVE  FlowDepth \in Int /\ FlowVisited \in Int
<1>1. call.depth \in Int /\ call.visited \in Int
  BY McpGraphAssumption
<1>2. flow_max_depth \in Nat /\ flow_max_visited \in Nat
  BY Limits
<1> QED BY <1>1, <1>2 DEF FlowDepth, FlowVisited, AtMost

(* A contact: the two halves are a path, and no way is shorter *)
LEMMA ContactIsShortest ==
  ASSUME flow \in Flows, NEW m \in Nat, Search(flow, m), NEW p \in Calls,
         p[1] \in DOMAIN flow.F, p[2] \in DOMAIN flow.B
  PROVE  /\ Joined(p) \in Seq(Symbols)
         /\ SegmentOk(flow.rows, Source, Target, Joined(p), FlowDepth, FlowVisited)
<1> DEFINE links == Pairs(flow.rows)
           path == Joined(p)
<1>1. flow.rows \in SUBSET CallRows /\ flow.round \in Nat
  BY DEF Flows
<1>2. p = <<p[1], p[2]>>
  BY <1>1, PairsTyped DEF Calls
<1>3. /\ Trail(links, flow.F[p[1]], From(flow), p[1]) /\ Len(flow.F[p[1]]) <= m + 1
      /\ Trail(links, flow.B[p[2]], p[2], To(flow)) /\ Len(flow.B[p[2]]) <= flow.round + 1
      /\ \A d \in 0..(m + flow.round) : To(flow) \notin Reach(links, "down", {From(flow)}, d)
  BY DEF Search
<1>4. /\ Trail(links, path, From(flow), To(flow))
      /\ Len(path) = Len(flow.F[p[1]]) + Len(flow.B[p[2]])
  BY <1>2, <1>3, TrailJoins DEF Joined, Calls
<1> HIDE DEF path
<1>5. Len(path) \in Nat /\ Len(path) - 2 <= m + flow.round
  <2> DEFINE f == Len(flow.F[p[1]])
             b == Len(flow.B[p[2]])
             r == flow.round
  <2>1. Len(path) \in Nat /\ f \in Nat /\ b \in Nat
    BY <1>3, <1>4, TrailIsFinite
  <2>2. f <= m + 1 /\ b <= r + 1 /\ Len(path) = f + b /\ r \in Nat
    BY <1>1, <1>3, <1>4
  <2> HIDE DEF f, b, r
  <2>3. Len(path) - 2 <= m + r
    BY <2>1, <2>2
  <2> QED BY <2>1, <2>3 DEF r
<1>6. \A d \in 0..(Len(path) - 2) : To(flow) \notin Reach(links, "down", {From(flow)}, d)
  <2>1. \A d \in 0..(Len(path) - 2) : d \in 0..(m + flow.round)
    BY <1>1, <1>5
  <2> QED BY <1>3, <2>1
<1>7. From(flow) = Source /\ To(flow) = Target
  BY DEF From, To, Source, Target
<1>8. path \in Seq(Symbols) /\ path # <<>> /\ path[1] = Source /\ Last(path) = Target
  BY <1>4, <1>7 DEF Trail, Last
<1>9. \A k \in 1..(Len(path) - 1) : <<path[k], path[k + 1]>> \in links
  BY <1>4 DEF Trail
<1>10. SegmentOk(flow.rows, Source, Target, path, FlowDepth, FlowVisited)
  BY <1>6, <1>7, <1>8, <1>9 DEF SegmentOk
<1> QED BY <1>8, <1>10 DEF path

LEMMA FrontIsExplored ==
  ASSUME NEW links, NEW dir, NEW s, NEW dom, NEW front, NEW k \in Nat,
         Explored(links, dir, s, dom, front, k)
  PROVE  front \subseteq dom
<1>1. k \in 0..k
  OBVIOUS
<1> QED BY <1>1 DEF Explored

(* Nothing was found: there is no way of so many calls, or the budget was  *)
(* exceeded                                                                *)
LEMMA GiveUpIsRight ==
  ASSUME ConfigIsValid, call \in Questions, flow \in Flows, Search(flow, flow.round),
         flow.round = 0 \/ flow.round <= FlowDepth,
         \/ flow.round >= FlowDepth
         \/ Cardinality(DOMAIN flow.F) + Cardinality(DOMAIN flow.B) > FlowVisited
         \/ flow.frontF = {} /\ flow.frontB = {}
  PROVE  SegmentOk(flow.rows, Source, Target, <<>>, FlowDepth, FlowVisited)
<1> DEFINE links == Pairs(flow.rows)
           k == flow.round
           Away(d) == Target \in Reach(links, "down", {Source}, d)
<1>1. /\ flow.rows \in SUBSET CallRows /\ k \in Nat /\ FlowDepth \in Int /\ FlowVisited \in Int
      /\ Source = From(flow) /\ Target = To(flow)
  BY FlowLimits DEF Flows, From, To, Source, Target
<1>2. /\ Source \in Symbols /\ Target \in Symbols
      /\ Explored(links, "down", Source, DOMAIN flow.F, flow.frontF, k)
      /\ Explored(links, "up", Target, DOMAIN flow.B, flow.frontB, k)
      /\ \A d \in 0..(k + k) : ~Away(d)
  BY <1>1 DEF Search
<1> SUFFICES \/ \A d \in 0..(2 * FlowDepth) : ~Away(d)
             \/ Cardinality(Seen(flow.rows, "down", Source, FlowDepth))
                  + Cardinality(Seen(flow.rows, "up", Target, FlowDepth)) > FlowVisited
  BY DEF SegmentOk
<1> HIDE DEF k
<1>3. CASE k >= FlowDepth
  <2>1. \A d \in 0..(2 * FlowDepth) : d \in 0..(k + k)
    BY <1>1, <1>3
  <2> QED BY <1>2, <2>1
<1>4. CASE k < FlowDepth /\ Cardinality(DOMAIN flow.F) + Cardinality(DOMAIN flow.B) > FlowVisited
  <2>1. \A d \in 0..k : d \in 0..FlowDepth
    BY <1>1, <1>4
  <2>2. DOMAIN flow.F \subseteq Seen(flow.rows, "down", Source, FlowDepth)
    BY <1>2, <2>1 DEF Explored, Seen
  <2>3. DOMAIN flow.B \subseteq Seen(flow.rows, "up", Target, FlowDepth)
    BY <1>2, <2>1 DEF Explored, Seen
  <2>4. /\ Seen(flow.rows, "down", Source, FlowDepth) \subseteq Symbols
        /\ Seen(flow.rows, "up", Target, FlowDepth) \subseteq Symbols
    <3>1. \A d \in 0..FlowDepth : d \in Nat
      BY <1>1
    <3>2. \A d \in 0..FlowDepth : /\ Reach(links, "down", {Source}, d) \subseteq Symbols
                                  /\ Reach(links, "up", {Target}, d) \subseteq Symbols
      BY <1>1, <1>2, <3>1, ReachTyped
    <3> QED BY <3>2 DEF Seen
  <2>5. /\ IsFiniteSet(Seen(flow.rows, "down", Source, FlowDepth))
        /\ IsFiniteSet(Seen(flow.rows, "up", Target, FlowDepth))
    BY <2>4, FS_Subset, McpGraphAssumption
  <2>6. /\ Cardinality(DOMAIN flow.F) <= Cardinality(Seen(flow.rows, "down", Source, FlowDepth))
        /\ Cardinality(DOMAIN flow.B) <= Cardinality(Seen(flow.rows, "up", Target, FlowDepth))
        /\ IsFiniteSet(DOMAIN flow.F) /\ IsFiniteSet(DOMAIN flow.B)
    BY <2>2, <2>3, <2>5, FS_Subset
  <2>7. /\ Cardinality(DOMAIN flow.F) \in Nat /\ Cardinality(DOMAIN flow.B) \in Nat
        /\ Cardinality(Seen(flow.rows, "down", Source, FlowDepth)) \in Nat
        /\ Cardinality(Seen(flow.rows, "up", Target, FlowDepth)) \in Nat
    BY <2>5, <2>6, FS_CardinalityType
  <2> QED BY <1>1, <1>4, <2>6, <2>7
<1>5. CASE flow.frontF = {}
  <2>1. ASSUME NEW d \in 0..(2 * FlowDepth), Away(d) PROVE FALSE
    <3>1. d \in Nat
      BY <1>1
    <3>2. Target \in DOMAIN flow.F
      BY <1>1, <1>2, <1>5, <2>1, <3>1, ExploredAll
    <3>3. PICK e \in 0..k : Away(e)
      BY <1>2, <3>2 DEF Explored
    <3>4. e \in 0..(k + k)
      BY <1>1
    <3> QED BY <1>2, <3>3, <3>4
  <2> QED BY <2>1
<1>6. k >= FlowDepth \/ k < FlowDepth
  BY <1>1
<1> QED BY <1>3, <1>4, <1>5, <1>6 DEF k

ForwardStep ==
  LET fresh == Hop(Calls, "down", flow.frontF) \ DOMAIN flow.F
  IN \E parent \in [fresh -> flow.frontF] :
       /\ \A n \in fresh : <<parent[n], n>> \in Calls
       /\ flow' = [flow EXCEPT
            !.F = [n \in DOMAIN flow.F \cup fresh |->
                     IF n \in fresh THEN Append(flow.F[parent[n]], n) ELSE flow.F[n]],
            !.frontF = fresh]

(* A round of the source's side without a contact *)
LEMMA ForwardRound ==
  ASSUME flow \in Flows, Search(flow, flow.round), ForwardStep,
         \A p \in Calls : ~(p[1] \in flow.frontF /\ p[2] \in DOMAIN flow.B)
  PROVE  /\ flow' \in Flows /\ flow'.segments = flow.segments /\ flow'.resolved = flow.resolved
         /\ flow'.rows = flow.rows /\ flow'.round = flow.round
         /\ Search(flow', flow.round + 1)
<1> DEFINE fresh == Hop(Calls, "down", flow.frontF) \ DOMAIN flow.F
<1>a. PICK parent \in [fresh -> flow.frontF] :
        /\ \A n \in fresh : <<parent[n], n>> \in Calls
        /\ flow' = [flow EXCEPT
             !.F = [n \in DOMAIN flow.F \cup fresh |->
                      IF n \in fresh THEN Append(flow.F[parent[n]], n) ELSE flow.F[n]],
             !.frontF = fresh]
  BY Zenon DEF ForwardStep
<1> DEFINE F == [n \in DOMAIN flow.F \cup fresh |->
                   IF n \in fresh THEN Append(flow.F[parent[n]], n) ELSE flow.F[n]]
           g == flow'
<1>b. g = [flow EXCEPT !.F = F, !.frontF = fresh]
  BY <1>a
<1> HIDE DEF g
<1> DEFINE links == Pairs(flow.rows)
           k == flow.round
           s == From(flow)
           t == To(flow)
<1>1. /\ flow.rows \in SUBSET CallRows /\ k \in Nat /\ flow.F \in Trees
      /\ links = Calls
  BY DEF Flows, Calls
<1>2. /\ s \in Symbols /\ t \in Symbols
      /\ Explored(links, "down", s, DOMAIN flow.F, flow.frontF, k)
      /\ Explored(links, "up", t, DOMAIN flow.B, flow.frontB, k)
      /\ \A n \in DOMAIN flow.F : Trail(links, flow.F[n], s, n) /\ Len(flow.F[n]) <= k + 1
      /\ \A n \in DOMAIN flow.B : Trail(links, flow.B[n], n, t) /\ Len(flow.B[n]) <= k + 1
      /\ \A d \in 0..(k + k) : t \notin Reach(links, "down", {s}, d)
  BY DEF Search
<1>3. fresh \subseteq Symbols
  <2>1. \A p \in Calls : p[1] \in Symbols /\ p[2] \in Symbols
    BY <1>1, PairsTyped
  <2> QED BY <2>1 DEF Hop
<1>4. ASSUME NEW n \in DOMAIN F
      PROVE  Trail(links, F[n], s, n) /\ Len(F[n]) <= (k + 1) + 1
  <2> HIDE DEF links, k, s
  <2>1. CASE n \in fresh
    <3>1. parent[n] \in DOMAIN flow.F
      BY <1>1, <1>2, <2>1, FrontIsExplored
    <3> DEFINE p == flow.F[parent[n]]
    <3>2. F[n] = Append(p, n)
      BY <2>1
    <3>3. Trail(links, p, s, parent[n]) /\ Len(p) <= k + 1 /\ Len(p) \in Nat
      BY <1>2, <3>1, TrailIsFinite
    <3> HIDE DEF p
    <3>4. Trail(links, Append(p, n), s, n) /\ Len(Append(p, n)) = Len(p) + 1
      <4>1. n \in Symbols /\ <<parent[n], n>> \in links
        BY <1>1, <1>3, <1>a, <2>1
      <4> QED BY <3>3, <4>1, TrailGrows
    <3>5. Len(p) + 1 <= (k + 1) + 1
      BY <1>1, <3>3
    <3> QED BY <3>2, <3>4, <3>5
  <2>2. CASE n \notin fresh
    <3>1. n \in DOMAIN flow.F /\ F[n] = flow.F[n]
      BY <2>2
    <3>2. Trail(links, F[n], s, n) /\ Len(F[n]) <= k + 1
      BY <1>2, <3>1
    <3>3. Len(F[n]) \in Nat
      BY <3>2, TrailIsFinite
    <3> QED BY <1>1, <3>2, <3>3
  <2> QED BY <2>1, <2>2
<1>5. DOMAIN F = DOMAIN flow.F \cup fresh
  OBVIOUS
<1>6. F \in Trees
  <2>1. DOMAIN flow.F \subseteq Symbols
    BY <1>1 DEF Trees
  <2>2. \A n \in DOMAIN F : F[n] \in Seq(Symbols)
    BY <1>4 DEF Trail
  <2>3. F \in [DOMAIN F -> Seq(Symbols)] /\ DOMAIN F \in SUBSET Symbols
    BY <1>3, <1>5, <2>1, <2>2
  <2> QED BY <2>3 DEF Trees
<1>7. /\ g \in Flows /\ g.segments = flow.segments /\ g.resolved = flow.resolved
      /\ g.rows = flow.rows /\ g.round = flow.round /\ g.B = flow.B /\ g.frontB = flow.frontB
      /\ g.F = F /\ g.frontF = fresh
  BY <1>b, <1>3, <1>6 DEF Flows
<1>8. Explored(links, "down", s, DOMAIN F, fresh, k + 1)
  BY <1>1, <1>2, <1>5, ExploredStep
<1>9. \A d \in 0..((k + 1) + k) : t \notin Reach(links, "down", {s}, d)
  <2>1. \A d \in 0..(k + k + 1) : t \notin Reach(links, "down", {s}, d)
    BY <1>1, <1>2, NoContactForward
  <2>2. (k + 1) + k = k + k + 1
    BY <1>1
  <2> QED BY <2>1, <2>2
<1>10. From(g) = s /\ To(g) = t
  BY <1>7 DEF From, To
<1> HIDE DEF s, t
<1>11. Search(g, k + 1)
  BY <1>2, <1>4, <1>7, <1>8, <1>9, <1>10 DEF Search
<1> QED BY <1>7, <1>11 DEF g

BackwardStep ==
  LET fresh == Hop(Calls, "up", flow.frontB) \ DOMAIN flow.B
  IN \E parent \in [fresh -> flow.frontB] :
       /\ \A n \in fresh : <<n, parent[n]>> \in Calls
       /\ flow' = [flow EXCEPT
            !.B = [n \in DOMAIN flow.B \cup fresh |->
                     IF n \in fresh THEN <<n>> \o flow.B[parent[n]] ELSE flow.B[n]],
            !.frontB = fresh, !.round = @ + 1]

(* The same for the target's side, which has one round less behind it *)
LEMMA BackwardRound ==
  ASSUME flow \in Flows, Search(flow, flow.round + 1), BackwardStep,
         \A p \in Calls : ~(p[2] \in flow.frontB /\ p[1] \in DOMAIN flow.F)
  PROVE  /\ flow' \in Flows /\ flow'.segments = flow.segments /\ flow'.resolved = flow.resolved
         /\ flow'.rows = flow.rows /\ flow'.round = flow.round + 1
         /\ Search(flow', flow'.round)
<1> DEFINE fresh == Hop(Calls, "up", flow.frontB) \ DOMAIN flow.B
<1>a. PICK parent \in [fresh -> flow.frontB] :
        /\ \A n \in fresh : <<n, parent[n]>> \in Calls
        /\ flow' = [flow EXCEPT
             !.B = [n \in DOMAIN flow.B \cup fresh |->
                      IF n \in fresh THEN <<n>> \o flow.B[parent[n]] ELSE flow.B[n]],
             !.frontB = fresh, !.round = @ + 1]
  BY Zenon DEF BackwardStep
<1> DEFINE B == [n \in DOMAIN flow.B \cup fresh |->
                   IF n \in fresh THEN <<n>> \o flow.B[parent[n]] ELSE flow.B[n]]
           g == flow'
<1>b. g = [flow EXCEPT !.B = B, !.frontB = fresh, !.round = @ + 1]
  BY <1>a
<1> HIDE DEF g
<1> DEFINE links == Pairs(flow.rows)
           k == flow.round
           s == From(flow)
           t == To(flow)
<1>1. /\ flow.rows \in SUBSET CallRows /\ k \in Nat /\ k + 1 \in Nat /\ flow.B \in Trees
      /\ links = Calls
  BY DEF Flows, Calls
<1>2. /\ s \in Symbols /\ t \in Symbols
      /\ Explored(links, "down", s, DOMAIN flow.F, flow.frontF, k + 1)
      /\ Explored(links, "up", t, DOMAIN flow.B, flow.frontB, k)
      /\ \A n \in DOMAIN flow.F : Trail(links, flow.F[n], s, n) /\ Len(flow.F[n]) <= (k + 1) + 1
      /\ \A n \in DOMAIN flow.B : Trail(links, flow.B[n], n, t) /\ Len(flow.B[n]) <= k + 1
      /\ \A d \in 0..((k + 1) + k) : t \notin Reach(links, "down", {s}, d)
  BY DEF Search
<1>3. fresh \subseteq Symbols
  <2>1. \A p \in Calls : p[1] \in Symbols /\ p[2] \in Symbols
    BY <1>1, PairsTyped
  <2> QED BY <2>1 DEF Hop
<1>4. ASSUME NEW n \in DOMAIN B
      PROVE  Trail(links, B[n], n, t) /\ Len(B[n]) <= (k + 1) + 1
  <2> HIDE DEF links, k, t
  <2>1. CASE n \in fresh
    <3>1. parent[n] \in DOMAIN flow.B
      BY <1>1, <1>2, <2>1, FrontIsExplored
    <3> DEFINE p == flow.B[parent[n]]
    <3>2. B[n] = <<n>> \o p
      BY <2>1
    <3>3. Trail(links, p, parent[n], t) /\ Len(p) <= k + 1 /\ Len(p) \in Nat
      BY <1>2, <3>1, TrailIsFinite
    <3> HIDE DEF p
    <3>4. Trail(links, <<n>>, n, n) /\ Len(<<n>>) = 1
      BY <1>3, <2>1, TrailOfOne
    <3>5. Trail(links, <<n>> \o p, n, t) /\ Len(<<n>> \o p) = Len(<<n>>) + Len(p)
      <4>1. <<n, parent[n]>> \in links
        BY <1>1, <1>a, <2>1
      <4> QED BY <3>3, <3>4, <4>1, TrailJoins
    <3>6. 1 + Len(p) <= (k + 1) + 1
      BY <1>1, <3>3
    <3> QED BY <3>2, <3>4, <3>5, <3>6
  <2>2. CASE n \notin fresh
    <3>1. n \in DOMAIN flow.B /\ B[n] = flow.B[n]
      BY <2>2
    <3>2. Trail(links, B[n], n, t) /\ Len(B[n]) <= k + 1
      BY <1>2, <3>1
    <3>3. Len(B[n]) \in Nat
      BY <3>2, TrailIsFinite
    <3> QED BY <1>1, <3>2, <3>3
  <2> QED BY <2>1, <2>2
<1>5. DOMAIN B = DOMAIN flow.B \cup fresh
  OBVIOUS
<1>6. B \in Trees
  <2>1. DOMAIN flow.B \subseteq Symbols
    BY <1>1 DEF Trees
  <2>2. \A n \in DOMAIN B : B[n] \in Seq(Symbols)
    BY <1>4 DEF Trail
  <2>3. B \in [DOMAIN B -> Seq(Symbols)] /\ DOMAIN B \in SUBSET Symbols
    BY <1>3, <1>5, <2>1, <2>2
  <2> QED BY <2>3 DEF Trees
<1>7. /\ g \in Flows /\ g.segments = flow.segments /\ g.resolved = flow.resolved
      /\ g.rows = flow.rows /\ g.round = k + 1 /\ g.F = flow.F /\ g.frontF = flow.frontF
      /\ g.B = B /\ g.frontB = fresh
  <2>1. g \in Flows
    BY <1>b, <1>1, <1>3, <1>6 DEF Flows
  <2> QED BY <1>b, <2>1 DEF Flows
<1>8. Explored(links, "up", t, DOMAIN B, fresh, k + 1)
  BY <1>1, <1>2, <1>5, ExploredStep
<1>9. \A d \in 0..((k + 1) + (k + 1)) : t \notin Reach(links, "down", {s}, d)
  <2>1. \A d \in 0..((k + 1) + k + 1) : t \notin Reach(links, "down", {s}, d)
    BY <1>1, <1>2, NoContactBackward
  <2>2. (k + 1) + k + 1 = (k + 1) + (k + 1)
    BY <1>1
  <2> QED BY <2>1, <2>2
<1>10. From(g) = s /\ To(g) = t
  BY <1>7 DEF From, To
<1> HIDE DEF s, t
<1>11. Search(g, k + 1)
  BY <1>2, <1>4, <1>7, <1>8, <1>9, <1>10 DEF Search
<1> QED BY <1>7, <1>11 DEF g

LEMMA SameLimits ==
  ASSUME UNCHANGED <<cfg, call>>
  PROVE  FlowDepth' = FlowDepth /\ FlowVisited' = FlowVisited /\ ConfigIsValid' = ConfigIsValid
BY DEF FlowDepth, FlowVisited, flow_max_depth, flow_max_visited, ConfigIsValid, AtMost

(* Steps of the other tools, and commits *)
LEMMA OtherToolFlow ==
  ASSUME FlowInv, UNCHANGED <<cfg, call, flow>>, pc # "idle",
         edges' \in SUBSET CallRows, symbols' \in SUBSET Symbols,
         \/ pc' = pc
         \/ pc' \notin {"idle", "edges", "symbols", "names", "pair", "round", "backward"}
  PROVE  FlowInv'
<1>1. FlowIsShortest' /\ ConfigIsValid'
  BY SameLimits, FlowBySegment DEF FlowInv
<1>2. FlowPlaced'
  BY DEF FlowInv, FlowPlaced
<1>3. FlowDepth' = FlowDepth
  BY SameLimits
<1> QED BY <1>1, <1>2, <1>3 DEF FlowInv

LEMMA SegmentEnds ==
  ASSUME FlowInv, UNCHANGED <<cfg, call, edges, symbols>>, pc \in {"pair", "round", "backward"},
         NEW path \in Seq(Symbols), EndSegment(path),
         SegmentOk(flow.rows, Source, Target, path, FlowDepth, FlowVisited)
  PROVE  FlowInv'
<1> DEFINE l == Len(flow.segments)
<1>1. flow \in Flows /\ flow.segments \in Seq(Seq(Symbols)) /\ l \in Nat
      /\ flow.resolved \in Seq(Symbols \cup {None}) /\ Len(flow.resolved) \in Nat
      /\ l + 2 <= Len(flow.resolved)
  BY DEF FlowInv, Flows, FlowPlaced
<1>2. flow' = [flow EXCEPT !.segments = Append(@, path)]
  BY DEF EndSegment
<1>3. Append(flow.segments, path) \in Seq(Seq(Symbols)) /\ Len(Append(flow.segments, path)) = l + 1
  BY <1>1
<1>4. /\ flow' \in Flows /\ flow'.segments = Append(flow.segments, path)
      /\ flow'.rows = flow.rows /\ flow'.resolved = flow.resolved
  BY <1>1, <1>2, <1>3 DEF Flows
<1>5. FlowDepth' = FlowDepth /\ FlowVisited' = FlowVisited /\ ConfigIsValid'
  BY SameLimits DEF FlowInv
<1>6. ASSUME NEW i \in DOMAIN flow'.segments
      PROVE  SegmentOk(flow.rows, flow.resolved[i], flow.resolved[i + 1], flow'.segments[i],
                       FlowDepth, FlowVisited)
  <2>1. CASE i \in DOMAIN flow.segments
    <3>1. flow'.segments[i] = flow.segments[i]
      BY <1>1, <1>4, <2>1
    <3> QED BY <2>1, <3>1, FlowBySegment DEF FlowInv, SegmentsOk
  <2>2. CASE i \notin DOMAIN flow.segments
    <3>1. i = l + 1 /\ i + 1 = l + 2 /\ flow'.segments[i] = path
      BY <1>1, <1>4, <2>2
    <3> QED BY <3>1 DEF Source, Target
  <2> QED BY <2>1, <2>2
<1>7. SegmentsOk(flow', FlowDepth', FlowVisited')
  BY <1>4, <1>5, <1>6 DEF SegmentsOk
<1>8. FlowIsShortest'
  BY <1>7, FlowBySegment
<1>9. pc' \in {"flowed", "pair"} /\ (pc' = "pair" => l + 2 # Len(flow.resolved))
  BY DEF EndSegment
<1>10. pc' = "pair" => (l + 1) + 2 <= Len(flow.resolved)
  BY <1>1, <1>9
<1>11. FlowPlaced'
  BY <1>3, <1>4, <1>9, <1>10 DEF FlowPlaced, FlowInv
<1> QED BY <1>4, <1>5, <1>8, <1>9, <1>11 DEF FlowInv

(* Until the names are resolved there is no segment *)
LEMMA LoadingFlow ==
  ASSUME FlowInv, UNCHANGED <<cfg, call, edges, symbols>>, call \in Questions,
         LoadEdges \/ LoadSymbols \/ ResolveName \/ AnswerFlow
  PROVE  FlowInv'
<1> SUFFICES /\ flow' \in Flows /\ flow'.segments = <<>> /\ FlowPlaced'
             /\ pc' \notin {"round", "backward"}
  <2>1. ConfigIsValid'
    BY SameLimits DEF FlowInv
  <2>2. FlowIsShortest'
    BY NoSegments
  <2> QED BY <2>1, <2>2 DEF FlowInv
<1>0. NoFlow \in Flows
  <2>1. <<>> \in [{} -> Seq(Symbols)] /\ {} \in SUBSET Symbols
    OBVIOUS
  <2>2. <<>> \in Trees
    BY <2>1 DEF Trees
  <2> QED BY <2>2 DEF NoFlow, Flows
<1>1. flow \in Flows /\ edges \in SUBSET CallRows /\ symbols \in SUBSET Symbols /\ call.names \in Seq(Names)
  BY McpGraphAssumption DEF FlowInv
<1>2. CASE LoadEdges
  <2>1. flow' \in Flows /\ flow'.segments = <<>> /\ flow'.resolved = <<>>
    BY <1>0, <1>1, <1>2 DEF LoadEdges, NoFlow, Flows
  <2> QED BY <1>2, <2>1 DEF LoadEdges, FlowPlaced, FlowInv
<1>3. CASE LoadSymbols
  <2>0. pc = "symbols" /\ flow.segments = <<>> /\ flow.resolved = <<>> /\ Len(call.names) >= 2
    BY <1>3 DEF LoadSymbols, FlowInv, FlowPlaced
  <2>1. flow' \in Flows /\ flow'.segments = <<>> /\ flow'.resolved = <<>>
    BY <1>1, <1>3, <2>0 DEF LoadSymbols, Flows
  <2>2. pc' \in {"answered", "names"}
    BY <1>3 DEF LoadSymbols
  <2>3. Len(flow'.resolved) < Len(call.names)
    <3>1. Len(call.names) \in Nat /\ Len(<<>>) = 0
      BY <1>1
    <3> QED BY <2>0, <2>1, <3>1
  <2> QED BY <2>0, <2>1, <2>2, <2>3 DEF FlowPlaced
<1>4. CASE ResolveName
  <2>0. pc = "names" /\ flow.segments = <<>> /\ Len(flow.resolved) < Len(call.names) /\ Len(call.names) >= 2
    BY <1>4 DEF ResolveName, FlowInv, FlowPlaced
  <2>1. PICK s \in resolve_flow_symbol(call.names[Len(flow.resolved) + 1]) \cup {None} :
          /\ flow' = [flow EXCEPT !.resolved = Append(flow.resolved, s)]
          /\ pc' = IF Len(Append(flow.resolved, s)) < Len(call.names) THEN "names"
                   ELSE IF Range(Append(flow.resolved, s)) = {None} THEN "answered" ELSE "pair"
    BY <1>4 DEF ResolveName
  <2>2. s \in Symbols \cup {None}
    <3> DEFINE n == call.names[Len(flow.resolved) + 1]
    <3>1. resolve_flow_symbol(n) \subseteq Symbols \cup {None}
      BY <1>1 DEF resolve_flow_symbol, Known, Flows
    <3> QED BY <3>1
  <2>3. flow.resolved \in Seq(Symbols \cup {None})
    BY <1>1 DEF Flows
  <2>4. /\ Append(flow.resolved, s) \in Seq(Symbols \cup {None})
        /\ Len(Append(flow.resolved, s)) = Len(flow.resolved) + 1
        /\ Len(flow.resolved) \in Nat /\ Len(call.names) \in Nat
    BY <1>1, <2>2, <2>3
  <2>5. /\ flow' \in Flows /\ flow'.segments = <<>> /\ flow'.resolved = Append(flow.resolved, s)
    BY <1>1, <2>0, <2>1, <2>4 DEF Flows
  <2>6. /\ pc' \in {"names", "answered", "pair"}
        /\ pc' = "names" => Len(flow.resolved) + 1 < Len(call.names)
        /\ pc' = "pair" => ~(Len(flow.resolved) + 1 < Len(call.names))
    BY <2>1, <2>4
  <2>7. pc' = "pair" => 0 + 2 <= Len(flow.resolved) + 1
    BY <2>0, <2>4, <2>6
  <2>8. Len(flow'.segments) = 0
    BY <2>5
  <2> QED BY <2>0, <2>4, <2>5, <2>6, <2>7, <2>8 DEF FlowPlaced
<1>5. CASE AnswerFlow
  BY <1>0, <1>5 DEF AnswerFlow, FlowPlaced, FlowInv, NoFlow
<1> QED BY <1>2, <1>3, <1>4, <1>5

LEMMA StartPairFlow ==
  ASSUME FlowInv, UNCHANGED <<cfg, call, edges, symbols>>, StartPair
  PROVE  FlowInv'
<1>1. pc = "pair" /\ flow \in Flows /\ Len(flow.segments) + 2 <= Len(flow.resolved)
  BY DEF StartPair, FlowInv, FlowPlaced
<1>2. /\ Source \in Symbols \cup {None} /\ Target \in Symbols \cup {None}
      /\ Source = From(flow) /\ Target = To(flow)
  <2>1. /\ flow.resolved \in Seq(Symbols \cup {None})
        /\ Len(flow.segments) \in Nat /\ Len(flow.resolved) \in Nat
    BY <1>1 DEF Flows
  <2>2. Len(flow.segments) + 1 \in 1..Len(flow.resolved) /\ Len(flow.segments) + 2 \in 1..Len(flow.resolved)
    BY <1>1, <2>1
  <2> QED BY <2>1, <2>2 DEF Source, Target, From, To
<1>3. CASE Source = None \/ Target = None
  <2>1. EndSegment(<<>>) /\ <<>> \in Seq(Symbols)
    BY <1>3 DEF StartPair
  <2>2. SegmentOk(flow.rows, Source, Target, <<>>, FlowDepth, FlowVisited)
    BY <1>3 DEF SegmentOk
  <2> QED BY <1>1, <2>1, <2>2, SegmentEnds
<1>4. CASE Source # None /\ Target # None /\ Source = Target
  <2>1. EndSegment(<<Source>>) /\ <<Source>> \in Seq(Symbols)
    BY <1>2, <1>4 DEF StartPair
  <2>2. SegmentOk(flow.rows, Source, Target, <<Source>>, FlowDepth, FlowVisited)
    BY <1>4 DEF SegmentOk, Last
  <2> QED BY <1>1, <2>1, <2>2, SegmentEnds
<1>5. CASE Source # None /\ Target # None /\ Source # Target
  <2> DEFINE F == [n \in {Source} |-> <<n>>]
             B == [n \in {Target} |-> <<n>>]
             links == Pairs(flow.rows)
  <2>1. /\ flow' = [flow EXCEPT !.F = F, !.B = B, !.frontF = {Source}, !.frontB = {Target}, !.round = 0]
        /\ pc' = "round"
    BY <1>5 DEF StartPair
  <2>2. Source \in Symbols /\ Target \in Symbols
    BY <1>2, <1>5
  <2>3. F \in Trees /\ B \in Trees
    <3>1. /\ F \in [{Source} -> Seq(Symbols)] /\ {Source} \in SUBSET Symbols
          /\ B \in [{Target} -> Seq(Symbols)] /\ {Target} \in SUBSET Symbols
      BY <2>2
    <3> QED BY <3>1 DEF Trees
  <2>4. DOMAIN F = {Source} /\ DOMAIN B = {Target} /\ F[Source] = <<Source>> /\ B[Target] = <<Target>>
    OBVIOUS
  <2> HIDE DEF F, B
  <2>5. /\ flow' \in Flows /\ flow'.segments = flow.segments /\ flow'.resolved = flow.resolved
        /\ flow'.rows = flow.rows /\ flow'.round = 0 /\ flow'.F = F /\ flow'.B = B
        /\ flow'.frontF = {Source} /\ flow'.frontB = {Target}
    BY <1>1, <2>1, <2>2, <2>3 DEF Flows
  <2>6. From(flow') = Source /\ To(flow') = Target
    BY <1>2, <2>5 DEF From, To
  <2>7. /\ Explored(links, "down", Source, {Source}, {Source}, 0)
        /\ Explored(links, "up", Target, {Target}, {Target}, 0)
    BY ExploredStart
  <2>8. /\ Trail(links, <<Source>>, Source, Source) /\ Trail(links, <<Target>>, Target, Target)
        /\ Len(<<Source>>) <= 0 + 1 /\ Len(<<Target>>) <= 0 + 1
    BY <2>2, TrailOfOne
  <2>9. \A d \in 0..(0 + 0) : Target \notin Reach(links, "down", {Source}, d)
    <3>1. Reach(links, "down", {Source}, 0) = {Source}
      BY ReachSteps
    <3>2. \A d \in 0..(0 + 0) : d = 0
      OBVIOUS
    <3> QED BY <1>5, <3>1, <3>2
  <2>10. Search(flow', 0)
    BY <2>2, <2>4, <2>5, <2>6, <2>7, <2>8, <2>9 DEF Search
  <2>11. FlowIsShortest' /\ ConfigIsValid'
    BY <2>5, SameLimits, FlowBySegment DEF FlowInv, SegmentsOk
  <2>12. FlowPlaced'
    BY <1>1, <2>1, <2>5 DEF FlowPlaced, FlowInv
  <2> QED BY <2>1, <2>5, <2>10, <2>11, <2>12 DEF FlowInv
<1> QED BY <1>3, <1>4, <1>5

LEMMA SearchingFlow ==
  ASSUME FlowInv, UNCHANGED <<cfg, call, edges, symbols>>,
         GiveUp \/ ExpandForward \/ ExpandBackward
  PROVE  FlowInv'
<1>0. /\ pc \in {"round", "backward"} /\ call \in Questions /\ flow \in Flows /\ flow.round \in Nat
      /\ FlowDepth \in Int /\ ConfigIsValid
      /\ Len(flow.segments) + 2 <= Len(flow.resolved)
  BY FlowLimits DEF GiveUp, ExpandForward, ExpandBackward, FlowInv, FlowPlaced, Flows
<1>1. CASE GiveUp
  <2>1. /\ pc = "round" /\ Search(flow, flow.round) /\ (flow.round = 0 \/ flow.round <= FlowDepth)
        /\ EndSegment(<<>>) /\ <<>> \in Seq(Symbols)
    BY <1>1 DEF GiveUp, FlowInv
  <2>2. SegmentOk(flow.rows, Source, Target, <<>>, FlowDepth, FlowVisited)
    BY <1>0, <1>1, <2>1, GiveUpIsRight DEF GiveUp
  <2> QED BY <1>0, <2>1, <2>2, SegmentEnds
<1>2. ASSUME NEW m \in Nat, Search(flow, m), NEW p \in Calls, EndSegment(Joined(p)),
             p[1] \in DOMAIN flow.F, p[2] \in DOMAIN flow.B
      PROVE  FlowInv'
  BY <1>0, <1>2, ContactIsShortest, SegmentEnds
<1>3. ASSUME flow' \in Flows, flow'.segments = flow.segments, flow'.resolved = flow.resolved,
             flow'.rows = flow.rows, pc' \in {"round", "backward"}
      PROVE  FlowIsShortest' /\ ConfigIsValid' /\ FlowPlaced' /\ FlowDepth' = FlowDepth
  <2>1. FlowIsShortest' /\ ConfigIsValid' /\ FlowDepth' = FlowDepth
    BY <1>3, SameLimits, FlowBySegment DEF FlowInv, SegmentsOk
  <2>2. FlowPlaced'
    BY <1>0, <1>3 DEF FlowPlaced
  <2> QED BY <2>1, <2>2
<1>4. CASE ExpandForward
  <2> DEFINE met == {p \in Calls : p[1] \in flow.frontF /\ p[2] \in DOMAIN flow.B}
  <2>1. pc = "round" /\ Open /\ Search(flow, flow.round)
    BY <1>4 DEF ExpandForward, FlowInv
  <2>2. CASE met # {}
    <3>1. PICK p \in met : EndSegment(Joined(p))
      BY <1>4, <2>2 DEF ExpandForward
    <3>2. flow.frontF \subseteq DOMAIN flow.F
      <4>1. Explored(Pairs(flow.rows), "down", From(flow), DOMAIN flow.F, flow.frontF, flow.round)
        BY <2>1 DEF Search
      <4> QED BY <1>0, <4>1, FrontIsExplored
    <3> QED BY <1>0, <1>2, <2>1, <3>1, <3>2
  <2>3. CASE met = {}
    <3>1. pc' = "backward" /\ ForwardStep
      BY <1>4, <2>3, Zenon DEF ExpandForward, ForwardStep
    <3>3. \A p \in Calls : ~(p[1] \in flow.frontF /\ p[2] \in DOMAIN flow.B)
      BY <2>3
    <3>4. /\ flow' \in Flows /\ flow'.segments = flow.segments /\ flow'.resolved = flow.resolved
          /\ flow'.rows = flow.rows /\ flow'.round = flow.round /\ Search(flow', flow.round + 1)
      BY <1>0, <2>1, <3>1, <3>3, ForwardRound
    <3>5. flow.round < FlowDepth
      BY <2>1 DEF Open
    <3> QED BY <1>3, <3>1, <3>4, <3>5 DEF FlowInv
  <2> QED BY <2>2, <2>3
<1>5. CASE ExpandBackward
  <2> DEFINE met == {p \in Calls : p[2] \in flow.frontB /\ p[1] \in DOMAIN flow.F}
  <2>1. pc = "backward" /\ Search(flow, flow.round + 1) /\ flow.round < FlowDepth /\ flow.round + 1 \in Nat
    <3>1. pc = "backward"
      BY <1>5 DEF ExpandBackward
    <3>2. Search(flow, flow.round + 1) /\ flow.round < FlowDepth
      BY <3>1 DEF FlowInv
    <3> QED BY <1>0, <3>1, <3>2
  <2>2. CASE met # {}
    <3>1. PICK p \in met : EndSegment(Joined(p))
      BY <1>5, <2>2 DEF ExpandBackward
    <3>2. flow.frontB \subseteq DOMAIN flow.B
      <4>1. Explored(Pairs(flow.rows), "up", To(flow), DOMAIN flow.B, flow.frontB, flow.round)
        BY <2>1 DEF Search
      <4> QED BY <1>0, <4>1, FrontIsExplored
    <3> QED BY <1>0, <1>2, <2>1, <3>1, <3>2
  <2>3. CASE met = {}
    <3>1. pc' = "round" /\ BackwardStep
      BY <1>5, <2>3, Zenon DEF ExpandBackward, BackwardStep
    <3>3. \A p \in Calls : ~(p[2] \in flow.frontB /\ p[1] \in DOMAIN flow.F)
      BY <2>3
    <3>4. /\ flow' \in Flows /\ flow'.segments = flow.segments /\ flow'.resolved = flow.resolved
          /\ flow'.rows = flow.rows /\ flow'.round = flow.round + 1 /\ Search(flow', flow'.round)
      BY <1>0, <2>1, <3>1, <3>3, BackwardRound
    <3>5. flow.round + 1 <= FlowDepth
      BY <1>0, <2>1
    <3> QED BY <1>3, <3>1, <3>4, <3>5 DEF FlowInv
  <2> QED BY <2>2, <2>3
<1> QED BY <1>1, <1>4, <1>5

LEMMA AskFlow ==
  ASSUME FlowInv, NEW c \in Questions, Ask(c), UNCHANGED cfg
  PROVE  FlowInv'
<1>1. /\ pc = "idle" /\ call' = c /\ UNCHANGED <<edges, symbols, flow>>
      /\ pc' = CASE c.tool \in {"callers", "callees"} -> "resolve"
             [] c.tool = "impact" -> "seeds"
             [] c.tool = "dependencies" -> "files"
             [] c.tool = "flow" -> IF Len(c.names) < 2 THEN "answered" ELSE "edges"
  BY DEF Ask, index
<1>2. flow.segments = <<>>
  BY <1>1 DEF FlowInv, FlowPlaced
<1>3. c.tool \in Tools /\ Len(c.names) \in Nat
  BY McpGraphAssumption
<1>4. /\ pc' \in {"resolve", "seeds", "files", "answered", "edges"}
      /\ pc' = "edges" => Len(c.names) >= 2
  <2>1. CASE c.tool \in {"callers", "callees"}
    BY <1>1, <2>1
  <2>2. CASE c.tool = "impact"
    BY <1>1, <2>2
  <2>3. CASE c.tool = "dependencies"
    BY <1>1, <2>3
  <2>4. CASE c.tool = "flow"
    <3>1. pc' = IF Len(c.names) < 2 THEN "answered" ELSE "edges"
      BY <1>1, <2>4
    <3> QED BY <1>3, <3>1
  <2> QED BY <1>3, <2>1, <2>2, <2>3, <2>4 DEF Tools
<1>5. FlowIsShortest'
  BY <1>1, <1>2, NoSegments
<1>6. ConfigIsValid'
  BY DEF FlowInv, ConfigIsValid
<1>7. FlowPlaced'
  BY <1>1, <1>2, <1>4 DEF FlowPlaced
<1> QED BY <1>1, <1>4, <1>5, <1>6, <1>7 DEF FlowInv

(* The actions of the tools that walk do not touch the flow *)
LEMMA WalkToolFlow ==
  ASSUME FlowInv, UNCHANGED cfg,
         \/ \E f \in Files : CommitIndex(f) \/ ReadSeeds(f)
         \/ ResolveTargets \/ ResolveFiles \/ ReadImports \/ DeriveBindings
         \/ QueryChunk \/ EndLevel \/ ImportLevel \/ NextWalk
         \/ format_bfs_result \/ format_impact_result \/ render_section
  PROVE  FlowInv'
<1>0. edges \in SUBSET CallRows /\ symbols \in SUBSET Symbols
  BY DEF FlowInv
<1>1. ASSUME UNCHANGED <<edges, symbols, call, flow>>, pc # "idle",
             pc' \in {pc, "answered", "walked", "query", "imports", "derive"}
      PROVE  FlowInv'
  BY <1>0, <1>1, OtherToolFlow
<1>2. ASSUME NEW f \in Files, CommitIndex(f) PROVE FlowInv'
  <2>1. /\ pc # "idle" /\ pc' = pc /\ UNCHANGED <<call, flow>>
    BY <1>2 DEF CommitIndex, Serving
  <2>2. symbols' \in SUBSET Symbols
    BY <1>0, <1>2 DEF CommitIndex
  <2>3. edges' \in SUBSET CallRows
    BY <1>0, <1>2 DEF CommitIndex
  <2> QED BY <2>1, <2>2, <2>3, OtherToolFlow
<1>3. ASSUME NEW f \in Files, ReadSeeds(f) PROVE FlowInv'
  <2>1. pc = "seeds" /\ UNCHANGED <<edges, symbols, call, flow>>
    BY <1>3 DEF ReadSeeds, index
  <2>2. pc' \in {pc, "answered", "walked", "query"}
    BY <1>3 DEF ReadSeeds, StartOf, StartBfs
  <2> QED BY <1>1, <2>1, <2>2
<1>4. CASE ResolveTargets
  <2>1. pc = "resolve" /\ UNCHANGED <<edges, symbols, call, flow>>
    BY <1>4 DEF ResolveTargets, index
  <2>2. pc' \in {"answered", "walked", "query"}
    BY <1>4 DEF ResolveTargets, StartOf, StartBfs
  <2> QED BY <1>1, <2>1, <2>2
<1>5. CASE ResolveFiles
  BY <1>1, <1>5 DEF ResolveFiles, index
<1>6. CASE ReadImports
  BY <1>1, <1>6 DEF ReadImports, index
<1>7. CASE DeriveBindings
  <2>1. pc = "derive" /\ UNCHANGED <<edges, symbols, call, flow>>
    BY <1>7 DEF DeriveBindings, index
  <2>2. pc' \in {"walked", "query"}
    BY <1>7 DEF DeriveBindings, StartBfs
  <2> QED BY <1>1, <2>1, <2>2
<1>8. CASE QueryChunk
  BY <1>1, <1>8 DEF QueryChunk, index
<1>9. CASE EndLevel
  BY <1>1, <1>9 DEF EndLevel, NextLevel, index
<1>10. CASE ImportLevel
  BY <1>1, <1>10 DEF ImportLevel, NextLevel, index
<1>11. CASE NextWalk
  <2>1. pc = "walked" /\ UNCHANGED <<edges, symbols, call, flow>>
    BY <1>11 DEF NextWalk, index
  <2>2. pc' \in {"walked", "query"}
    BY <1>11 DEF NextWalk, StartOf, StartBfs
  <2> QED BY <1>1, <2>1, <2>2
<1>12. CASE format_bfs_result \/ format_impact_result \/ render_section
  BY <1>1, <1>12 DEF format_bfs_result, format_impact_result, render_section, Answer, index
<1> QED BY <1>2, <1>3, <1>4, <1>5, <1>6, <1>7, <1>8, <1>9, <1>10, <1>11, <1>12

LEMMA GraphFlow ==
  ASSUME FlowInv, GraphNext, UNCHANGED cfg
  PROVE  FlowInv'
<1>1. CASE \E c \in Questions : Ask(c)
  BY <1>1, AskFlow
<1>2. CASE LoadEdges \/ LoadSymbols \/ ResolveName \/ AnswerFlow
  <2>1. UNCHANGED <<call, edges, symbols>> /\ pc # "idle"
    BY <1>2 DEF LoadEdges, LoadSymbols, ResolveName, AnswerFlow, index
  <2>2. call \in Questions
    BY <2>1 DEF FlowInv, FlowPlaced
  <2> QED BY <1>2, <2>1, <2>2, LoadingFlow
<1>3. CASE StartPair
  BY <1>3, StartPairFlow DEF StartPair, index
<1>4. CASE GiveUp \/ ExpandForward \/ ExpandBackward
  <2>1. UNCHANGED <<call, edges, symbols>>
    BY <1>4 DEF GiveUp, ExpandForward, ExpandBackward, index
  <2> QED BY <1>4, <2>1, SearchingFlow
<1> QED BY <1>1, <1>2, <1>3, <1>4, WalkToolFlow DEF GraphNext

LEMMA InitFlow ==
  ASSUME Init
  PROVE  FlowInv
<1>1. /\ cfg \in Configurations /\ symbols = Symbols /\ pc = "idle" /\ flow = NoFlow
      /\ edges \in (IF session = "graph" THEN StartCalls ELSE {{}})
  BY DEF Init
<1>2. edges \in SUBSET CallRows
  BY <1>1, StartAssumption
<1>3. ConfigIsValid
  BY <1>1, ConfigurationsAreValid
<1>4. flow \in Flows /\ flow.segments = <<>>
  <2>1. <<>> \in [{} -> Seq(Symbols)] /\ {} \in SUBSET Symbols
    OBVIOUS
  <2>2. <<>> \in Trees
    BY <2>1 DEF Trees
  <2> QED BY <1>1, <2>2 DEF NoFlow, Flows
<1>5. FlowIsShortest
  BY <1>4, NoSegments
<1> QED BY <1>1, <1>2, <1>3, <1>4, <1>5 DEF FlowInv, FlowPlaced

LEMMA StepFlow ==
  ASSUME FlowInv, [Next]_vars
  PROVE  FlowInv'
<1>1. CASE GraphNext /\ UNCHANGED cfg
  BY <1>1, GraphFlow
<1>2. CASE UNCHANGED <<cfg, graphVars>>
  <2>1. UNCHANGED <<cfg, edges, symbols, call, pc, flow>>
    BY <1>2 DEF graphVars
  <2>2. FlowIsShortest' /\ ConfigIsValid' /\ FlowDepth' = FlowDepth
    BY <2>1, SameLimits, FlowBySegment DEF FlowInv
  <2>3. FlowPlaced'
    BY <2>1 DEF FlowInv, FlowPlaced
  <2> QED BY <2>1, <2>2, <2>3 DEF FlowInv
<1> QED BY <1>1, <1>2 DEF Next, vars

(***************************************************************************)
(* Theorem: whatever the environment and the files say, the server runs    *)
(* with a value of every field that its kind accepts (config.rs load_from: *)
(* a layer that does not coerce is passed over).                           *)
(***************************************************************************)
THEOREM ConfigCorrect == Spec => []ConfigIsValid
<1>1. Init => FlowInv
  BY InitFlow
<1>2. FlowInv /\ [Next]_vars => FlowInv'
  BY StepFlow
<1>3. FlowInv => ConfigIsValid
  BY DEF FlowInv
<1> QED BY <1>1, <1>2, <1>3, PTL DEF Spec

(***************************************************************************)
(* Theorem: for every call graph, question, limit and number of commits,   *)
(* a path of query_flow is a shortest one of the graph it loaded, and      *)
(* "no path" is said only if none has at most twice max_depth calls or     *)
(* max_visited is exceeded (graph.rs bidir_bfs).                           *)
(***************************************************************************)
THEOREM FlowCorrect == Spec => []FlowIsShortest
<1>1. Init => FlowInv
  BY InitFlow
<1>2. FlowInv /\ [Next]_vars => FlowInv'
  BY StepFlow
<1>3. FlowInv => FlowIsShortest
  BY DEF FlowInv
<1> QED BY <1>1, <1>2, <1>3, PTL DEF Spec

-----------------------------------------------------------------------------
(* The walks *)

(* The nodes found up to level d *)
Upto(w, d) == w.seeds \cup UNION {w.levels[k] : k \in 1..AtMost(d, Len(w.levels))}

(* What was found is there, level by level and only once *)
Sound(links, w) ==
  \A d \in DOMAIN w.levels : /\ w.levels[d] \subseteq Reach(links, w.dir, w.seeds, d)
                             /\ w.levels[d] \cap Upto(w, d - 1) = {}

(* Nothing is missing up to level n: the links lead from level to level *)
Closed(links, w, n) == \A d \in 0..(n - 1) : Hop(links, w.dir, Upto(w, d)) \subseteq Upto(w, d + 1)

Walking(w, ev, al, failed) ==
  /\ Len(w.levels) < w.depth
  /\ w.visited = Upto(w, Len(w.levels))
  /\ w.current \subseteq w.visited /\ w.current \subseteq Reach(ev, w.dir, w.seeds, Len(w.levels))
  /\ Sound(ev, w)
  /\ ~failed => /\ Closed(al, w, Len(w.levels))
                /\ Hop(al, w.dir, w.visited \ w.current) \subseteq w.visited

(* The statements of a level: the rows of the chunks that were read *)
Chunked(w, ev, al, failed) ==
  /\ w.pending \subseteq w.current /\ w.rows \subseteq Hop(ev, w.dir, w.current)
  /\ ~failed => Hop(al, w.dir, w.current \ w.pending) \subseteq w.rows

Snapshot(w, ev, al, failed) == w.graph \subseteq ev /\ (~failed => al \subseteq w.graph)

(* The first of the two reads of the imports is done *)
HalfRead(w, ev, al, failed) ==
  w.graph \subseteq ev /\ (~failed => \A p \in al : p[3] = FALSE => p \in w.graph)

Walked(w, ev, al, failed) ==
  Sound(ev, w) /\ (~failed => \A d \in 1..w.depth : Reach(al, w.dir, w.seeds, d) \subseteq Upto(w, d))

Steps == [dir : {"up", "down"}, depth : Int]
Links == Files \X Files \X BOOLEAN
GraphNodes == Symbols \cup Files
Walks == [seeds : SUBSET GraphNodes, depth : Int, dir : {"up", "down"}, visited : SUBSET GraphNodes,
          current : SUBSET GraphNodes, pending : SUBSET GraphNodes, rows : SUBSET GraphNodes,
          levels : Seq(SUBSET GraphNodes), graph : SUBSET Links]

WalkPlaced ==
  /\ pc = "resolve" => call.tool \in {"callers", "callees"}
  /\ pc = "seeds" => call.tool = "impact"
  /\ pc \in {"files", "imports", "derive"} => call.tool = "dependencies"
  /\ pc \in {"resolve", "seeds", "files", "imports", "derive"} => plan # <<>>
  /\ pc \in {"files", "imports"} => walk.graph = {}

WalkInv ==
  /\ walk \in Walks /\ plan \in Seq(Steps)
  /\ imports \in SUBSET ImportRows /\ dropped \in BOOLEAN
  /\ WalkPlaced
  /\ (pc \in {"derive", "query"} \/ (pc = "walked" /\ call.tool = "dependencies")) =>
       always \subseteq GraphNow /\ GraphNow \subseteq ever
  /\ pc = "derive" => HalfRead(walk, ever, always, dropped)
  /\ pc = "query" => Walking(walk, ever, always, dropped)
  /\ pc = "query" /\ call.tool # "dependencies" => Chunked(walk, ever, always, dropped)
  /\ pc \in {"query", "walked"} /\ call.tool = "dependencies" => Snapshot(walk, ever, always, dropped)
  /\ WalkMatchesIndex

LEMMA WalkByLevel ==
  /\ WalkMatchesIndex <=> (pc = "walked" => Walked(walk, ever, always, dropped))
  /\ WalkMatchesIndex' <=> (pc' = "walked" => Walked(walk', ever', always', dropped'))
BY DEF WalkMatchesIndex, Walked, Sound, Upto

LEMMA UptoNone ==
  ASSUME NEW w, w.levels = <<>>, NEW d \in Nat
  PROVE  Upto(w, d) = w.seeds
<1>1. Len(w.levels) = 0
  OBVIOUS
<1>2. 1..AtMost(d, 0) = {}
  BY DEF AtMost
<1> QED BY <1>1, <1>2 DEF Upto

(* v has one level more than w *)
Grown(v, w, next) ==
  /\ Len(v.levels) = Len(w.levels) + 1 /\ Len(w.levels) \in Nat
  /\ v.levels[Len(w.levels) + 1] = next
  /\ \A k \in DOMAIN w.levels : v.levels[k] = w.levels[k]
  /\ \A d \in 0..Len(w.levels) : Upto(v, d) = Upto(w, d)
  /\ Upto(v, Len(w.levels) + 1) = Upto(w, Len(w.levels)) \cup next

LEMMA UptoGrows ==
  ASSUME NEW w \in Walks, NEW v \in Walks, NEW next,
         v.seeds = w.seeds, v.levels = Append(w.levels, next)
  PROVE  Grown(v, w, next)
<1> DEFINE l == Len(w.levels)
<1>1. /\ w.levels \in Seq(SUBSET GraphNodes) /\ l \in Nat /\ Len(v.levels) = l + 1
      /\ v.levels[l + 1] = next /\ \A k \in 1..l : v.levels[k] = w.levels[k]
      /\ DOMAIN w.levels = 1..l
  BY DEF Walks
<1> HIDE DEF l
<1>2. ASSUME NEW d \in 0..l PROVE Upto(v, d) = Upto(w, d)
  <2>1. AtMost(d, l) = d /\ AtMost(d, l + 1) = d
    BY <1>1 DEF AtMost
  <2>2. \A k \in 1..d : v.levels[k] = w.levels[k]
    BY <1>1
  <2>3. {v.levels[k] : k \in 1..d} = {w.levels[k] : k \in 1..d}
    BY <2>2
  <2> QED BY <1>1, <2>1, <2>3 DEF Upto, l
<1>3. Upto(v, l + 1) = Upto(w, l) \cup next
  <2>1. AtMost(l + 1, l + 1) = l + 1 /\ AtMost(l, l) = l
    BY <1>1 DEF AtMost
  <2>2. {v.levels[k] : k \in 1..(l + 1)} = {w.levels[k] : k \in 1..l} \cup {next}
    <3>1. \A k \in 1..(l + 1) : k \in 1..l \/ k = l + 1
      BY <1>1
    <3>2. \A k \in 1..l : k \in 1..(l + 1)
      BY <1>1
    <3>3. l + 1 \in 1..(l + 1)
      BY <1>1
    <3> QED BY <1>1, <3>1, <3>2, <3>3
  <2> QED BY <1>1, <2>1, <2>2 DEF Upto, l
<1> QED BY <1>1, <1>2, <1>3 DEF Grown, l

LEMMA UptoEnds ==
  ASSUME NEW w \in Walks, NEW d \in Nat, d >= Len(w.levels)
  PROVE  Upto(w, d) = Upto(w, Len(w.levels))
<1>1. Len(w.levels) \in Nat
  BY DEF Walks
<1>2. AtMost(d, Len(w.levels)) = Len(w.levels) /\ AtMost(Len(w.levels), Len(w.levels)) = Len(w.levels)
  BY <1>1 DEF AtMost
<1> QED BY <1>2 DEF Upto

(* From level to level nothing was missed, so the last one misses nothing *)
LEMMA ClosedIsComplete ==
  ASSUME NEW w \in Walks, NEW links, Closed(links, w, w.depth)
  PROVE  \A d \in 1..w.depth : Reach(links, w.dir, w.seeds, d) \subseteq Upto(w, d)
<1> DEFINE S == {d \in Nat : d <= w.depth => Reach(links, w.dir, w.seeds, d) \subseteq Upto(w, d)}
<1>0. w.depth \in Int
  BY DEF Walks
<1>1. 0 \in S
  <2>1. Reach(links, w.dir, w.seeds, 0) = w.seeds
    BY ReachSteps
  <2>2. w.seeds \subseteq Upto(w, 0)
    BY DEF Upto
  <2> QED BY <2>1, <2>2
<1>2. ASSUME NEW d \in Nat, d \in S, d + 1 <= w.depth
      PROVE  Reach(links, w.dir, w.seeds, d + 1) \subseteq Upto(w, d + 1)
  <2>1. d <= w.depth /\ d \in 0..(w.depth - 1)
    BY <1>0, <1>2
  <2>2. Reach(links, w.dir, w.seeds, d) \subseteq Upto(w, d)
    BY <1>2, <2>1
  <2>3. Reach(links, w.dir, w.seeds, d + 1) = Hop(links, w.dir, Reach(links, w.dir, w.seeds, d))
    BY ReachSteps
  <2>4. Hop(links, w.dir, Reach(links, w.dir, w.seeds, d)) \subseteq Hop(links, w.dir, Upto(w, d))
    BY <2>2, HopMonotone
  <2>5. Hop(links, w.dir, Upto(w, d)) \subseteq Upto(w, d + 1)
    BY <2>1 DEF Closed
  <2> QED BY <2>3, <2>4, <2>5
<1>3. \A d \in Nat : d \in S => d + 1 \in S
  BY <1>2
<1> HIDE DEF S
<1>4. \A d \in Nat : d \in S
  BY <1>1, <1>3, Induction
<1> QED BY <1>0, <1>4 DEF S

(* A commit: more links were there at some time, fewer all the time *)
LEMMA CommitKeepsWalk ==
  ASSUME NEW w \in Walks, NEW few, NEW many, NEW al, NEW less, few \subseteq many, less \subseteq al,
         NEW failed
  PROVE  /\ Walking(w, few, al, failed) => Walking(w, many, less, failed)
         /\ Chunked(w, few, al, failed) => Chunked(w, many, less, failed)
         /\ Snapshot(w, few, al, failed) => Snapshot(w, many, less, failed)
         /\ HalfRead(w, few, al, failed) => HalfRead(w, many, less, failed)
<1>0. Len(w.levels) \in Nat /\ DOMAIN w.levels = 1..Len(w.levels)
  BY DEF Walks
<1>1. \A A : /\ Hop(less, w.dir, A) \subseteq Hop(al, w.dir, A)
             /\ Hop(few, w.dir, A) \subseteq Hop(many, w.dir, A)
  BY HopMonotone
<1>2. \A d \in Nat : Reach(few, w.dir, w.seeds, d) \subseteq Reach(many, w.dir, w.seeds, d)
  BY ReachMonotone
<1>3. ASSUME Walking(w, few, al, failed) PROVE Walking(w, many, less, failed)
  <2>1. Sound(many, w)
    <3>1. Sound(few, w)
      BY <1>3 DEF Walking
    <3>2. \A d \in DOMAIN w.levels : d \in Nat
      BY <1>0
    <3> QED BY <1>2, <3>1, <3>2 DEF Sound
  <2>2. ~failed => Closed(less, w, Len(w.levels))
    BY <1>1, <1>3 DEF Walking, Closed
  <2>3. w.current \subseteq Reach(many, w.dir, w.seeds, Len(w.levels))
    BY <1>0, <1>2, <1>3 DEF Walking
  <2> QED BY <1>1, <1>3, <2>1, <2>2, <2>3 DEF Walking
<1>4. Chunked(w, few, al, failed) => Chunked(w, many, less, failed)
  BY <1>1 DEF Chunked
<1>5. Snapshot(w, few, al, failed) => Snapshot(w, many, less, failed)
  BY DEF Snapshot
<1>6. HalfRead(w, few, al, failed) => HalfRead(w, many, less, failed)
  BY DEF HalfRead
<1> QED BY <1>3, <1>4, <1>5, <1>6

(* A walk starts *)
LEMMA StartedWalk ==
  ASSUME NEW w \in Walks, w.levels = <<>>, w.visited = w.seeds, w.current = w.seeds,
         w.pending = w.seeds, w.rows = {}, NEW ev, NEW al, NEW failed
  PROVE  /\ w.depth > 0 => Walking(w, ev, al, failed) /\ Chunked(w, ev, al, failed)
         /\ w.depth <= 0 => Walked(w, ev, al, failed)
<1>0. Len(w.levels) = 0 /\ DOMAIN w.levels = {} /\ w.depth \in Int
  BY DEF Walks
<1>1. Upto(w, 0) = w.seeds
  BY UptoNone
<1>2. Reach(ev, w.dir, w.seeds, 0) = w.seeds
  BY ReachSteps
<1>3. Sound(ev, w)
  BY <1>0 DEF Sound
<1>4. \A A : Hop(al, w.dir, A \ A) = {}
  BY DEF Hop
<1>5. Closed(al, w, 0)
  BY DEF Closed
<1>6. w.depth <= 0 => \A d \in 1..w.depth : FALSE
  BY <1>0
<1>7. w.depth > 0 => Walking(w, ev, al, failed)
  BY <1>0, <1>1, <1>2, <1>3, <1>4, <1>5 DEF Walking
<1>8. Chunked(w, ev, al, failed)
  BY <1>4 DEF Chunked
<1>9. w.depth <= 0 => Walked(w, ev, al, failed)
  BY <1>3, <1>6 DEF Walked
<1> QED BY <1>7, <1>8, <1>9

LEMMA HopUnion ==
  ASSUME NEW links, NEW dir, NEW A, NEW B
  PROVE  Hop(links, dir, A \cup B) = Hop(links, dir, A) \cup Hop(links, dir, B)
BY DEF Hop

(* What the links that stayed lead to from all that was visited *)
LEMMA VisitedLeadsTo ==
  ASSUME NEW w \in Walks, NEW ev, NEW al, Walking(w, ev, al, FALSE),
         NEW rows, Hop(al, w.dir, w.current) \subseteq rows
  PROVE  Hop(al, w.dir, w.visited) \subseteq w.visited \cup rows
<1>1. w.visited = (w.visited \ w.current) \cup w.current
  BY DEF Walking
<1>2. Hop(al, w.dir, w.visited) = Hop(al, w.dir, w.visited \ w.current) \cup Hop(al, w.dir, w.current)
  BY <1>1, HopUnion
<1> QED BY <1>2 DEF Walking

(* A level without a new node ends the walk *)
LEMMA NothingNew ==
  ASSUME NEW w \in Walks, NEW v \in Walks, NEW ev, NEW al, NEW failed \in BOOLEAN,
         Walking(w, ev, al, failed),
         NEW rows, ~failed => Hop(al, w.dir, w.current) \subseteq rows, rows \ w.visited = {},
         v.seeds = w.seeds, v.dir = w.dir, v.depth = w.depth, v.levels = w.levels
  PROVE  Walked(v, ev, al, failed)
<1> DEFINE l == Len(w.levels)
<1>0. l \in Nat /\ w.depth \in Int /\ \A d : Upto(v, d) = Upto(w, d)
  BY DEF Walks, Upto
<1>1. Sound(ev, v)
  BY <1>0 DEF Walking, Sound
<1>2. ASSUME ~failed PROVE Closed(al, v, v.depth)
  <2>1. Walking(w, ev, al, FALSE)
    BY <1>2
  <2>2. Hop(al, w.dir, w.visited) \subseteq w.visited
    BY <1>2, <2>1, VisitedLeadsTo
  <2>3. ASSUME NEW d \in 0..(w.depth - 1)
        PROVE  Hop(al, w.dir, Upto(w, d)) \subseteq Upto(w, d + 1)
    <3>1. CASE d < l
      <4>1. d \in 0..(l - 1)
        BY <1>0, <3>1
      <4> QED BY <1>2, <4>1 DEF Walking, Closed
    <3>2. CASE ~(d < l)
      <4>1. d \in Nat /\ d + 1 \in Nat /\ d >= l /\ d + 1 >= l
        BY <1>0, <3>2
      <4>2. Upto(w, d) = Upto(w, l) /\ Upto(w, d + 1) = Upto(w, l)
        BY <4>1, UptoEnds
      <4>3. w.visited = Upto(w, l)
        BY DEF Walking
      <4> QED BY <2>2, <4>2, <4>3
    <3> QED BY <3>1, <3>2
  <2> QED BY <1>0, <2>3 DEF Closed
<1>3. ~failed => \A d \in 1..v.depth : Reach(al, v.dir, v.seeds, d) \subseteq Upto(v, d)
  BY <1>2, ClosedIsComplete
<1> QED BY <1>1, <1>3 DEF Walked

(* The nodes that are new are the next level *)
LEMMA LevelEnds ==
  ASSUME NEW w \in Walks, NEW v \in Walks, NEW ev, NEW al, NEW failed \in BOOLEAN,
         Walking(w, ev, al, failed),
         NEW rows, rows \subseteq Hop(ev, w.dir, w.current),
         ~failed => Hop(al, w.dir, w.current) \subseteq rows,
         NEW next, next = rows \ w.visited,
         v.seeds = w.seeds, v.dir = w.dir, v.depth = w.depth, v.levels = Append(w.levels, next),
         v.visited = w.visited \cup next, v.current = next, v.pending = next, v.rows = {}
  PROVE  /\ Len(w.levels) + 1 # w.depth => Walking(v, ev, al, failed) /\ Chunked(v, ev, al, failed)
         /\ Len(w.levels) + 1 = w.depth => Walked(v, ev, al, failed)
<1> DEFINE l == Len(w.levels)
<1>0. /\ w.depth \in Int /\ l < w.depth /\ w.visited = Upto(w, l) /\ Sound(ev, w)
      /\ w.current \subseteq w.visited /\ w.current \subseteq Reach(ev, w.dir, w.seeds, l)
  BY DEF Walking, Walks
<1>1. /\ Len(v.levels) = l + 1 /\ l \in Nat /\ v.levels[l + 1] = next
      /\ \A k \in DOMAIN w.levels : v.levels[k] = w.levels[k]
      /\ \A d \in 0..l : Upto(v, d) = Upto(w, d)
      /\ Upto(v, l + 1) = Upto(w, l) \cup next
  <2>1. Grown(v, w, next)
    BY UptoGrows
  <2> QED BY <2>1 DEF Grown
<1>2. DOMAIN w.levels = 1..l /\ DOMAIN v.levels = 1..(l + 1)
  BY <1>1 DEF Walks
<1> HIDE DEF l
<1>3. v.visited = Upto(v, l + 1)
  BY <1>0, <1>1
<1>4. next \subseteq Reach(ev, v.dir, v.seeds, l + 1)
  <2>1. Hop(ev, w.dir, w.current) \subseteq Hop(ev, w.dir, Reach(ev, w.dir, w.seeds, l))
    BY <1>0, HopMonotone
  <2>2. Reach(ev, w.dir, w.seeds, l + 1) = Hop(ev, w.dir, Reach(ev, w.dir, w.seeds, l))
    BY <1>1, ReachSteps
  <2> QED BY <2>1, <2>2
<1>5. Sound(ev, v)
  <2>1. ASSUME NEW d \in 1..l
        PROVE  v.levels[d] \subseteq Reach(ev, v.dir, v.seeds, d) /\ v.levels[d] \cap Upto(v, d - 1) = {}
    <3>1. d \in DOMAIN w.levels /\ d - 1 \in 0..l
      BY <1>1, <1>2
    <3> QED BY <1>0, <1>1, <3>1 DEF Sound
  <2>2. next \cap Upto(v, (l + 1) - 1) = {}
    <3>1. (l + 1) - 1 = l /\ l \in 0..l
      BY <1>1
    <3> QED BY <1>0, <1>1, <3>1
  <2>3. \A d \in 1..(l + 1) : d \in 1..l \/ d = l + 1
    BY <1>1
  <2> QED BY <1>1, <1>2, <1>4, <2>1, <2>2, <2>3 DEF Sound
<1>6. ASSUME ~failed PROVE Hop(al, v.dir, w.visited) \subseteq v.visited
  <2>1. Walking(w, ev, al, FALSE)
    BY <1>6
  <2>2. Hop(al, w.dir, w.visited) \subseteq w.visited \cup rows
    BY <1>6, <2>1, VisitedLeadsTo
  <2> QED BY <2>2
<1>7. ASSUME ~failed PROVE Closed(al, v, l + 1)
  <2>1. ASSUME NEW d \in 0..((l + 1) - 1)
        PROVE  Hop(al, v.dir, Upto(v, d)) \subseteq Upto(v, d + 1)
    <3>1. CASE d < l
      <4>1. d \in 0..(l - 1) /\ d \in 0..l /\ d + 1 \in 0..l
        BY <1>1, <3>1
      <4>2. Hop(al, w.dir, Upto(w, d)) \subseteq Upto(w, d + 1)
        BY <1>7, <4>1 DEF Walking, Closed, l
      <4> QED BY <1>1, <4>1, <4>2
    <3>2. CASE d = l
      <4>1. Upto(v, d) = w.visited
        BY <1>0, <1>1, <3>2
      <4> QED BY <1>3, <1>6, <1>7, <3>2, <4>1
    <3> QED BY <1>1, <3>1, <3>2
  <2> QED BY <2>1 DEF Closed
<1>8. ASSUME l + 1 # w.depth
      PROVE  Walking(v, ev, al, failed)
  <2>1. Len(v.levels) < v.depth
    BY <1>0, <1>1, <1>8
  <2>2. v.visited \ v.current = w.visited
    OBVIOUS
  <2> QED BY <1>1, <1>3, <1>4, <1>5, <1>6, <1>7, <2>1, <2>2 DEF Walking
<1>9. Chunked(v, ev, al, failed)
  <2>1. Hop(al, v.dir, next \ next) = {}
    BY DEF Hop
  <2> QED BY <2>1 DEF Chunked
<1>10. ASSUME l + 1 = w.depth
       PROVE  Walked(v, ev, al, failed)
  <2>1. ~failed => Closed(al, v, v.depth)
    BY <1>7, <1>10
  <2>2. ~failed => \A d \in 1..v.depth : Reach(al, v.dir, v.seeds, d) \subseteq Upto(v, d)
    BY <2>1, ClosedIsComplete
  <2> QED BY <1>5, <2>2 DEF Walked
<1> QED BY <1>8, <1>9, <1>10 DEF l

-----------------------------------------------------------------------------
(* The actions of the walks *)

LEMMA HopsAreNodes ==
  /\ \A rows \in SUBSET CallRows : \A dir, A : Hop(CallPairs(rows), dir, A) \subseteq GraphNodes
  /\ \A graph \in SUBSET Links : \A dir, A : Hop(graph, dir, A) \subseteq GraphNodes
  /\ \A rows \in SUBSET ImportRows : ImportLinks(rows) \in SUBSET Links
<1>1. ASSUME NEW rows \in SUBSET CallRows, NEW dir, NEW A
      PROVE  Hop(CallPairs(rows), dir, A) \subseteq GraphNodes
  <2>1. \A p \in CallPairs(rows) : p[1] \in Symbols /\ p[2] \in Symbols
    BY PairsTyped DEF CallPairs
  <2> QED BY <2>1 DEF Hop, GraphNodes
<1>2. ASSUME NEW graph \in SUBSET Links, NEW dir, NEW A
      PROVE  Hop(graph, dir, A) \subseteq GraphNodes
  BY DEF Hop, GraphNodes, Links
<1>3. ASSUME NEW rows \in SUBSET ImportRows
      PROVE  ImportLinks(rows) \in SUBSET Links
  BY McpGraphAssumption DEF ImportLinks, Links
<1> QED BY <1>1, <1>2, <1>3

LEMMA WalkElsewhere ==
  ASSUME WalkInv, walk' \in Walks, plan' \in Seq(Steps), imports' \in SUBSET ImportRows,
         dropped' \in BOOLEAN,
         pc' \notin {"resolve", "seeds", "files", "imports", "derive", "query", "walked"}
  PROVE  WalkInv'
<1>1. WalkMatchesIndex'
  BY WalkByLevel
<1> QED BY <1>1 DEF WalkInv, WalkPlaced

LEMMA StartedBfs ==
  ASSUME FlowInv, WalkInv, plan # <<>>, NEW seeds \in SUBSET GraphNodes, NEW graph \in SUBSET Links,
         StartBfs(seeds, graph), UNCHANGED <<imports, call>>, dropped' \in BOOLEAN,
         always' \subseteq GraphNow', GraphNow' \subseteq ever',
         call.tool = "dependencies" => graph \subseteq ever' /\ (~dropped' => always' \subseteq graph)
  PROVE  WalkInv'
<1> DEFINE depth == AtMost(Head(plan).depth, bfs_max_depth)
<1>1. plan \in Seq(Steps) /\ Head(plan) \in Steps /\ Tail(plan) \in Seq(Steps)
  BY DEF WalkInv
<1>2. depth \in Int
  <2>1. bfs_max_depth \in Nat
    BY Limits DEF FlowInv
  <2>2. Head(plan).depth \in Int
    BY <1>1 DEF Steps
  <2> QED BY <2>1, <2>2 DEF AtMost
<1>3. /\ walk' = [seeds |-> seeds, depth |-> depth, dir |-> Head(plan).dir, visited |-> seeds,
                  current |-> seeds, pending |-> seeds, rows |-> {}, levels |-> <<>>, graph |-> graph]
      /\ plan' = Tail(plan) /\ pc' = IF depth <= 0 THEN "walked" ELSE "query"
  BY DEF StartBfs
<1> HIDE DEF depth
<1>4. walk' \in Walks
  <2>1. Head(plan).dir \in {"up", "down"}
    BY <1>1 DEF Steps
  <2> QED BY <1>2, <1>3, <2>1 DEF Walks
<1>5. /\ walk'.levels = <<>> /\ walk'.visited = walk'.seeds /\ walk'.current = walk'.seeds
      /\ walk'.pending = walk'.seeds /\ walk'.rows = {} /\ walk'.depth = depth /\ walk'.graph = graph
  BY <1>3
<1>6. /\ depth > 0 => /\ Walking(walk', ever', always', dropped')
                      /\ Chunked(walk', ever', always', dropped')
      /\ depth <= 0 => Walked(walk', ever', always', dropped')
  BY <1>4, <1>5, StartedWalk
<1>7. /\ pc' \in {"walked", "query"}
      /\ pc' = "query" => depth > 0
      /\ pc' = "walked" => depth <= 0
  BY <1>2, <1>3
<1>8. WalkMatchesIndex'
  BY <1>6, <1>7, WalkByLevel
<1>9. imports' \in SUBSET ImportRows /\ plan' \in Seq(Steps)
  BY <1>1, <1>3 DEF WalkInv
<1>10. call'.tool = "dependencies" => Snapshot(walk', ever', always', dropped')
  BY <1>5 DEF Snapshot
<1>11. WalkPlaced'
  BY <1>7 DEF WalkPlaced
<1> QED BY <1>4, <1>6, <1>7, <1>8, <1>9, <1>10, <1>11 DEF WalkInv

LEMMA SameGraph ==
  ASSUME UNCHANGED <<edges, imports, call>>
  PROVE  GraphNow' = GraphNow
BY DEF GraphNow, CallPairs, Selected

LEMMA StartedCalls ==
  ASSUME FlowInv, WalkInv, plan # <<>>, NEW seeds \in SUBSET GraphNodes, StartOf(seeds),
         UNCHANGED <<edges, imports, call>>, dropped' \in BOOLEAN, call.tool # "dependencies"
  PROVE  WalkInv'
<1>1. StartBfs(seeds, {}) /\ always' = GraphNow' /\ ever' = GraphNow'
  BY SameGraph DEF StartOf
<1>2. {} \in SUBSET Links
  OBVIOUS
<1> QED BY <1>1, <1>2, StartedBfs

LEMMA SeedingWalk ==
  ASSUME FlowInv, WalkInv, ResolveTargets \/ \E f \in Files : ReadSeeds(f)
  PROVE  WalkInv'
<1>0. /\ walk \in Walks /\ plan \in Seq(Steps) /\ imports \in SUBSET ImportRows /\ dropped \in BOOLEAN
      /\ symbols \in SUBSET Symbols
  BY DEF WalkInv, FlowInv
<1>1. CASE ResolveTargets
  <2>1. /\ pc = "resolve" /\ UNCHANGED <<edges, imports, call, dropped>>
        /\ plan # <<>> /\ call.tool \in {"callers", "callees"} /\ call \in Questions
    BY <1>1 DEF ResolveTargets, index, WalkInv, WalkPlaced, FlowInv, FlowPlaced
  <2>2. call.names[1] \in Names
    BY <2>1, McpGraphAssumption
  <2>3. PICK seeds \in resolve_targets(call.names[1]) :
          IF seeds = {} THEN pc' = "answered" /\ UNCHANGED <<walk, plan, ever, always>>
          ELSE StartOf(seeds)
    BY <1>1 DEF ResolveTargets
  <2>4. seeds \in SUBSET GraphNodes
    BY <2>2, <2>3, <1>0, McpGraphAssumption DEF resolve_targets, GraphNodes
  <2>5. CASE seeds = {}
    <3>1. pc' = "answered" /\ UNCHANGED <<walk, plan>>
      BY <2>3, <2>5
    <3> QED BY <1>0, <2>1, <3>1, WalkElsewhere
  <2>6. CASE seeds # {}
    <3>1. StartOf(seeds)
      BY <2>3, <2>6
    <3> QED BY <1>0, <2>1, <2>4, <3>1, StartedCalls
  <2> QED BY <2>5, <2>6
<1>2. ASSUME NEW f \in Files, ReadSeeds(f) PROVE WalkInv'
  <2>1. /\ pc = "seeds" /\ UNCHANGED <<edges, imports, call, dropped>>
        /\ plan # <<>> /\ call.tool = "impact"
    BY <1>2 DEF ReadSeeds, index, WalkInv, WalkPlaced
  <2>2. PICK own \in {{s \in symbols : FileOf[s] = f}, {}} :
       LET seeds == walk.seeds \cup own
           rest == walk.pending \ {f}
       IN IF rest # {}
          THEN /\ walk' = [walk EXCEPT !.seeds = seeds, !.pending = rest]
               /\ UNCHANGED <<pc, plan, ever, always>>
          ELSE IF seeds = {}
          THEN pc' = "answered" /\ UNCHANGED <<walk, plan, ever, always>>
          ELSE StartOf(seeds)
    BY <1>2 DEF ReadSeeds
  <2> DEFINE seeds == walk.seeds \cup own
             rest == walk.pending \ {f}
  <2>3. seeds \in SUBSET GraphNodes /\ rest \in SUBSET GraphNodes
    BY <1>0, <2>2 DEF GraphNodes, Walks
  <2>4. CASE rest # {}
    <3>1. walk' = [walk EXCEPT !.seeds = seeds, !.pending = rest] /\ UNCHANGED <<pc, plan>>
      BY <2>2, <2>4
    <3> HIDE DEF seeds, rest
    <3>2. walk' \in Walks
      BY <1>0, <2>3, <3>1 DEF Walks
    <3>3. WalkMatchesIndex'
      BY <2>1, <3>1, WalkByLevel
    <3>4. WalkPlaced'
      BY <2>1, <3>1 DEF WalkPlaced
    <3> QED BY <1>0, <2>1, <3>1, <3>2, <3>3, <3>4 DEF WalkInv
  <2>5. CASE rest = {} /\ seeds = {}
    <3>1. pc' = "answered" /\ UNCHANGED <<walk, plan>>
      BY <2>2, <2>5
    <3> QED BY <1>0, <2>1, <3>1, WalkElsewhere
  <2>6. CASE rest = {} /\ seeds # {}
    <3>1. StartOf(seeds)
      BY <2>2, <2>6
    <3> HIDE DEF seeds
    <3> QED BY <1>0, <2>1, <2>3, <3>1, StartedCalls
  <2> QED BY <2>4, <2>5, <2>6
<1> QED BY <1>1, <1>2

(* dependencies: the snapshot of the imports *)
LEMMA SnapshotWalk ==
  ASSUME FlowInv, WalkInv, ResolveFiles \/ ReadImports \/ DeriveBindings
  PROVE  WalkInv'
<1>0. /\ walk \in Walks /\ plan \in Seq(Steps) /\ imports \in SUBSET ImportRows /\ dropped \in BOOLEAN
  BY DEF WalkInv
<1>1. CASE ResolveFiles
  <2>1. PICK found \in SUBSET call.files :
          /\ pc' = IF found = {} THEN "answered" ELSE "imports"
          /\ walk' = [walk EXCEPT !.seeds = found]
    BY <1>1 DEF ResolveFiles
  <2>2. /\ pc = "files" /\ UNCHANGED <<call, imports, plan, dropped>> /\ call.tool = "dependencies"
        /\ plan # <<>> /\ walk.graph = {} /\ call \in Questions
    BY <1>1 DEF ResolveFiles, index, WalkInv, WalkPlaced, FlowInv, FlowPlaced
  <2>3. call.files \in SUBSET Files
    BY <2>2, McpGraphAssumption
  <2>4. found \in SUBSET GraphNodes
    BY <2>3 DEF GraphNodes
  <2>5. walk' \in Walks /\ walk'.graph = {}
    BY <1>0, <2>1, <2>2, <2>4 DEF Walks
  <2>6. pc' \in {"answered", "imports"}
    BY <2>1
  <2>7. WalkMatchesIndex'
    BY <2>6, WalkByLevel
  <2>8. WalkPlaced'
    BY <2>2, <2>5, <2>6 DEF WalkPlaced
  <2> QED BY <1>0, <2>2, <2>5, <2>6, <2>7, <2>8 DEF WalkInv
<1>2. CASE ReadImports
  <2>1. /\ pc = "imports" /\ pc' = "derive" /\ UNCHANGED <<call, edges, imports, plan>>
        /\ call.tool = "dependencies" /\ plan # <<>> /\ walk.graph = {}
        /\ ever' = GraphNow /\ always' = GraphNow
    BY <1>2 DEF ReadImports, index, WalkInv, WalkPlaced
  <2>2. GraphNow' = GraphNow /\ GraphNow = ImportLinks(imports)
    BY <2>1, SameGraph DEF GraphNow
  <2>3. walk' \in Walks /\ dropped' \in BOOLEAN /\ HalfRead(walk', ever', always', dropped')
    <3>1. CASE /\ walk' = [walk EXCEPT !.graph = ImportLinks({r \in imports : ~r.derived})]
               /\ UNCHANGED dropped
      <4> DEFINE listed == ImportLinks({r \in imports : ~r.derived})
      <4>1. listed \in SUBSET Links
        BY <1>0, HopsAreNodes
      <4>2. listed \subseteq GraphNow /\ \A p \in GraphNow : p[3] = FALSE => p \in listed
        BY <2>2 DEF ImportLinks
      <4> HIDE DEF listed
      <4>3. walk' = [walk EXCEPT !.graph = listed]
        BY <3>1 DEF listed
      <4>4. walk' \in Walks /\ walk'.graph = listed
        BY <1>0, <4>1, <4>3 DEF Walks
      <4> QED BY <1>0, <2>1, <3>1, <4>2, <4>4 DEF HalfRead
    <3>2. CASE dropped' = TRUE /\ UNCHANGED walk
      BY <1>0, <2>1, <3>2 DEF HalfRead
    <3> QED BY <1>2, <3>1, <3>2 DEF ReadImports
  <2>4. WalkMatchesIndex'
    BY <2>1, WalkByLevel
  <2>5. WalkPlaced'
    BY <2>1 DEF WalkPlaced
  <2> QED BY <1>0, <2>1, <2>2, <2>3, <2>4, <2>5 DEF WalkInv
<1>3. CASE DeriveBindings
  <2>1. /\ pc = "derive" /\ UNCHANGED <<call, edges, imports, ever, always>>
        /\ call.tool = "dependencies" /\ plan # <<>>
    BY <1>3 DEF DeriveBindings, index, WalkInv, WalkPlaced
  <2>2. /\ always \subseteq GraphNow /\ GraphNow \subseteq ever
        /\ HalfRead(walk, ever, always, dropped)
    BY <2>1 DEF WalkInv
  <2>3. GraphNow' = GraphNow /\ GraphNow = ImportLinks(imports)
    BY <2>1, SameGraph DEF GraphNow
  <2>4. walk.seeds \in SUBSET GraphNodes /\ walk.graph \in SUBSET Links
    BY <1>0 DEF Walks
  <2>5. CASE /\ StartBfs(walk.seeds, walk.graph \cup ImportLinks({r \in imports : r.derived}))
             /\ UNCHANGED dropped
    <3> DEFINE derived == ImportLinks({r \in imports : r.derived})
               graph == walk.graph \cup derived
    <3>1. derived \in SUBSET Links
      BY <1>0, HopsAreNodes
    <3>2. /\ derived \subseteq GraphNow
          /\ \A p \in GraphNow : p[3] = FALSE \/ p \in derived
      <4>1. \A r \in imports : r.derived \in BOOLEAN
        BY <1>0, McpGraphAssumption
      <4> QED BY <2>3, <4>1 DEF ImportLinks
    <3> HIDE DEF derived
    <3>3. graph \in SUBSET Links /\ graph \subseteq ever
      BY <2>2, <2>4, <3>1, <3>2 DEF HalfRead
    <3>4. ~dropped => always \subseteq graph
      BY <2>2, <3>2 DEF HalfRead
    <3>5. StartBfs(walk.seeds, graph) /\ dropped' = dropped
      BY <2>5 DEF derived
    <3> HIDE DEF graph
    <3> QED BY <1>0, <2>1, <2>2, <2>3, <2>4, <3>3, <3>4, <3>5, StartedBfs
  <2>6. CASE StartBfs(walk.seeds, walk.graph) /\ dropped' = TRUE
    <3>1. walk.graph \subseteq ever
      BY <2>2 DEF HalfRead
    <3> QED BY <2>1, <2>2, <2>3, <2>4, <2>6, <3>1, StartedBfs
  <2> QED BY <1>3, <2>5, <2>6 DEF DeriveBindings
<1> QED BY <1>1, <1>2, <1>3

LEMMA CommitWalk ==
  ASSUME FlowInv, WalkInv, NEW f \in Files, CommitIndex(f)
  PROVE  WalkInv'
<1>0. /\ walk \in Walks /\ plan \in Seq(Steps) /\ imports \in SUBSET ImportRows /\ dropped \in BOOLEAN
  BY DEF WalkInv
<1>1. /\ pc \in Serving /\ UNCHANGED <<call, pc, walk, plan, dropped>>
      /\ ever' = ever \cup GraphNow' /\ always' = always \cap GraphNow'
  BY DEF CommitIndex, GraphNow, CallPairs, Selected
<1>2. imports' \in SUBSET ImportRows
  BY <1>0 DEF CommitIndex
<1>3. ever \subseteq ever' /\ always' \subseteq always
  BY <1>1
<1>4. /\ pc = "derive" => HalfRead(walk, ever', always', dropped)
      /\ pc = "query" => Walking(walk, ever', always', dropped)
      /\ pc = "query" /\ call.tool # "dependencies" => Chunked(walk, ever', always', dropped)
      /\ pc = "query" /\ call.tool = "dependencies" => Snapshot(walk, ever', always', dropped)
  BY <1>0, <1>3, CommitKeepsWalk DEF WalkInv
<1>5. pc # "walked"
  BY <1>1 DEF Serving
<1>6. WalkMatchesIndex'
  BY <1>1, <1>5, WalkByLevel
<1>7. WalkPlaced'
  BY <1>1 DEF WalkInv, WalkPlaced
<1>8. always' \subseteq GraphNow' /\ GraphNow' \subseteq ever'
  BY <1>1
<1> QED BY <1>0, <1>1, <1>2, <1>4, <1>5, <1>6, <1>7, <1>8 DEF WalkInv

(* Walking looks at neither the chunks left nor the rows read *)
LEMMA SameWalking ==
  ASSUME NEW w, NEW v, NEW ev, NEW al, NEW failed,
         v.seeds = w.seeds, v.dir = w.dir, v.depth = w.depth, v.levels = w.levels,
         v.visited = w.visited, v.current = w.current
  PROVE  /\ Walking(w, ev, al, failed) => Walking(v, ev, al, failed)
         /\ Walking(w, ev, al, failed) => Walking(v, ev, al, TRUE)
<1>1. \A d : Upto(v, d) = Upto(w, d)
  BY DEF Upto
<1>2. Sound(ev, w) => Sound(ev, v)
  BY <1>1 DEF Sound
<1>3. Closed(al, w, Len(w.levels)) => Closed(al, v, Len(v.levels))
  BY <1>1 DEF Closed
<1> QED BY <1>1, <1>2, <1>3 DEF Walking

LEMMA ChunkWalk ==
  ASSUME FlowInv, WalkInv, QueryChunk
  PROVE  WalkInv'
<1>0. /\ walk \in Walks /\ plan \in Seq(Steps) /\ imports \in SUBSET ImportRows /\ dropped \in BOOLEAN
      /\ edges \in SUBSET CallRows
  BY DEF WalkInv, FlowInv
<1>1. /\ pc = "query" /\ call.tool # "dependencies"
      /\ UNCHANGED <<edges, imports, call, pc, plan, ever, always>>
  BY DEF QueryChunk, index
<1>2. /\ always \subseteq GraphNow /\ GraphNow \subseteq ever /\ GraphNow = CallPairs(edges)
      /\ Walking(walk, ever, always, dropped) /\ Chunked(walk, ever, always, dropped)
  BY <1>1 DEF WalkInv, GraphNow
<1>3. PICK chunk \in SUBSET walk.pending :
       \/ /\ walk' = [walk EXCEPT !.pending = @ \ chunk,
                                  !.rows = @ \cup Hop(CallPairs(edges), walk.dir, chunk)]
          /\ UNCHANGED dropped
       \/ /\ walk' = [walk EXCEPT !.pending = @ \ chunk]
          /\ dropped' = TRUE
  BY DEF QueryChunk, kSubset
<1> DEFINE read == Hop(CallPairs(edges), walk.dir, chunk)
<1>4. read \in SUBSET GraphNodes
  BY <1>0, HopsAreNodes
<1>5. read \subseteq Hop(ever, walk.dir, walk.current) /\ Hop(always, walk.dir, chunk) \subseteq read
  <2>1. chunk \subseteq walk.current
    BY <1>2 DEF Chunked
  <2> QED BY <1>2, <2>1, HopMonotone
<1> HIDE DEF read
<1>6. /\ walk' \in Walks /\ dropped' \in BOOLEAN
      /\ Walking(walk', ever, always, dropped') /\ Chunked(walk', ever, always, dropped')
  <2>1. CASE walk' = [walk EXCEPT !.pending = @ \ chunk, !.rows = @ \cup read] /\ UNCHANGED dropped
    <3>1. /\ walk' \in Walks /\ walk'.pending = walk.pending \ chunk /\ walk'.rows = walk.rows \cup read
          /\ walk'.seeds = walk.seeds /\ walk'.dir = walk.dir /\ walk'.depth = walk.depth
          /\ walk'.levels = walk.levels /\ walk'.visited = walk.visited /\ walk'.current = walk.current
      BY <1>0, <1>4, <2>1 DEF Walks
    <3>2. Walking(walk', ever, always, dropped)
      BY <1>2, <3>1, SameWalking
    <3>3. ~dropped =>
            Hop(always, walk.dir, walk.current \ (walk.pending \ chunk)) \subseteq walk.rows \cup read
      <4> DEFINE done == walk.current \ walk.pending
                 now == walk.current \ (walk.pending \ chunk)
      <4>1. now \subseteq done \cup chunk
        OBVIOUS
      <4>2. Hop(always, walk.dir, now)
              \subseteq Hop(always, walk.dir, done) \cup Hop(always, walk.dir, chunk)
        <5> HIDE DEF done, now
        <5>1. Hop(always, walk.dir, now) \subseteq Hop(always, walk.dir, done \cup chunk)
          BY <4>1, HopMonotone
        <5>2. Hop(always, walk.dir, done \cup chunk)
                = Hop(always, walk.dir, done) \cup Hop(always, walk.dir, chunk)
          BY HopUnion
        <5> QED BY <5>1, <5>2
      <4> QED BY <1>2, <1>5, <4>2 DEF Chunked
    <3>4. Chunked(walk', ever, always, dropped)
      BY <1>2, <1>5, <3>1, <3>3 DEF Chunked
    <3> QED BY <1>0, <2>1, <3>1, <3>2, <3>4
  <2>2. CASE walk' = [walk EXCEPT !.pending = @ \ chunk] /\ dropped' = TRUE
    <3>1. /\ walk' \in Walks /\ walk'.pending = walk.pending \ chunk /\ walk'.rows = walk.rows
          /\ walk'.seeds = walk.seeds /\ walk'.dir = walk.dir /\ walk'.depth = walk.depth
          /\ walk'.levels = walk.levels /\ walk'.visited = walk.visited /\ walk'.current = walk.current
      BY <1>0, <2>2 DEF Walks
    <3>2. Walking(walk', ever, always, TRUE)
      BY <1>2, <3>1, SameWalking
    <3>3. Chunked(walk', ever, always, TRUE)
      BY <1>2, <3>1 DEF Chunked
    <3> QED BY <2>2, <3>1, <3>2, <3>3
  <2> QED BY <1>3, <2>1, <2>2 DEF read
<1>7. WalkMatchesIndex'
  BY <1>1, WalkByLevel
<1>8. WalkPlaced'
  BY <1>1 DEF WalkPlaced
<1>9. GraphNow' = GraphNow
  BY <1>1, SameGraph
<1> QED BY <1>0, <1>1, <1>2, <1>6, <1>7, <1>8, <1>9 DEF WalkInv

LEMMA NextLevelWalk ==
  ASSUME FlowInv, WalkInv, pc = "query", NEW rows \in SUBSET GraphNodes, NextLevel(rows),
         rows \subseteq Hop(ever, walk.dir, walk.current),
         ~dropped => Hop(always, walk.dir, walk.current) \subseteq rows
  PROVE  WalkInv'
<1> DEFINE next == rows \ walk.visited
<1>0. /\ walk \in Walks /\ plan \in Seq(Steps) /\ imports \in SUBSET ImportRows /\ dropped \in BOOLEAN
      /\ Walking(walk, ever, always, dropped)
      /\ call.tool = "dependencies" => Snapshot(walk, ever, always, dropped)
      /\ always \subseteq GraphNow /\ GraphNow \subseteq ever
  BY DEF WalkInv
<1>1. /\ UNCHANGED <<edges, imports, call, plan, ever, always, dropped>>
      /\ walk' = IF next = {} THEN [walk EXCEPT !.rows = {}]
                 ELSE [walk EXCEPT !.visited = @ \cup next, !.current = next,
                                   !.pending = next, !.rows = {}, !.levels = Append(@, next)]
      /\ pc' = IF next = {} \/ Len(walk.levels) + 1 = walk.depth THEN "walked" ELSE "query"
  BY DEF NextLevel, index
<1>2. next \in SUBSET GraphNodes
  OBVIOUS
<1>3. /\ walk' \in Walks /\ walk'.graph = walk.graph
      /\ pc' = "walked" => Walked(walk', ever, always, dropped)
      /\ pc' = "query" => Walking(walk', ever, always, dropped) /\ Chunked(walk', ever, always, dropped)
  <2>1. CASE next = {}
    <3>1. walk' = [walk EXCEPT !.rows = {}] /\ pc' = "walked"
      BY <1>1, <2>1
    <3>2. /\ walk' \in Walks /\ walk'.graph = walk.graph /\ walk'.seeds = walk.seeds
          /\ walk'.dir = walk.dir /\ walk'.depth = walk.depth /\ walk'.levels = walk.levels
      BY <1>0, <3>1 DEF Walks
    <3>3. Walked(walk', ever, always, dropped)
      BY <1>0, <2>1, <3>2, NothingNew
    <3> QED BY <3>1, <3>2, <3>3
  <2>2. CASE next # {}
    <3>0. next = rows \ walk.visited
      OBVIOUS
    <3> HIDE DEF next
    <3>1. /\ walk' = [walk EXCEPT !.visited = @ \cup next, !.current = next,
                                  !.pending = next, !.rows = {}, !.levels = Append(@, next)]
          /\ pc' = IF Len(walk.levels) + 1 = walk.depth THEN "walked" ELSE "query"
      BY <1>1, <2>2
    <3>2. Append(walk.levels, next) \in Seq(SUBSET GraphNodes)
      BY <1>0, <1>2 DEF Walks
    <3>3. /\ walk' \in Walks /\ walk'.graph = walk.graph /\ walk'.seeds = walk.seeds
          /\ walk'.dir = walk.dir /\ walk'.depth = walk.depth
          /\ walk'.levels = Append(walk.levels, next) /\ walk'.visited = walk.visited \cup next
          /\ walk'.current = next /\ walk'.pending = next /\ walk'.rows = {}
      BY <1>0, <1>2, <3>1, <3>2 DEF Walks
    <3>4. /\ Len(walk.levels) + 1 # walk.depth => /\ Walking(walk', ever, always, dropped)
                                                  /\ Chunked(walk', ever, always, dropped)
          /\ Len(walk.levels) + 1 = walk.depth => Walked(walk', ever, always, dropped)
      BY <1>0, <3>0, <3>3, LevelEnds
    <3> QED BY <3>1, <3>3, <3>4
  <2> QED BY <2>1, <2>2
<1>4. pc' \in {"walked", "query"}
  BY <1>1
<1>5. WalkMatchesIndex'
  BY <1>1, <1>3, WalkByLevel
<1>6. call.tool = "dependencies" => Snapshot(walk', ever, always, dropped)
  BY <1>0, <1>3 DEF Snapshot
<1>7. WalkPlaced'
  BY <1>4 DEF WalkPlaced
<1>8. GraphNow' = GraphNow
  BY <1>1, SameGraph
<1> HIDE DEF next
<1> QED BY <1>0, <1>1, <1>3, <1>4, <1>5, <1>6, <1>7, <1>8 DEF WalkInv

LEMMA LevelWalk ==
  ASSUME FlowInv, WalkInv, EndLevel \/ ImportLevel
  PROVE  WalkInv'
<1>0. walk \in Walks
  BY DEF WalkInv
<1>1. CASE EndLevel
  <2>1. pc = "query" /\ NextLevel(walk.rows) /\ walk.pending = {} /\ Chunked(walk, ever, always, dropped)
    BY <1>1 DEF EndLevel, WalkInv
  <2>2. walk.current \ walk.pending = walk.current
    BY <2>1
  <2>3. walk.rows \in SUBSET GraphNodes
    BY <1>0 DEF Walks
  <2>4. /\ walk.rows \subseteq Hop(ever, walk.dir, walk.current)
        /\ ~dropped => Hop(always, walk.dir, walk.current) \subseteq walk.rows
    BY <2>1, <2>2 DEF Chunked
  <2> QED BY <2>1, <2>3, <2>4, NextLevelWalk
<1>2. CASE ImportLevel
  <2> DEFINE rows == Hop(walk.graph, walk.dir, walk.current)
  <2>1. pc = "query" /\ NextLevel(rows) /\ Snapshot(walk, ever, always, dropped)
    BY <1>2 DEF ImportLevel, WalkInv
  <2>2. walk.graph \in SUBSET Links
    BY <1>0 DEF Walks
  <2>3. rows \in SUBSET GraphNodes
    BY <2>2, HopsAreNodes
  <2>4. /\ rows \subseteq Hop(ever, walk.dir, walk.current)
        /\ ~dropped => Hop(always, walk.dir, walk.current) \subseteq rows
    BY <2>1, HopMonotone DEF Snapshot
  <2> HIDE DEF rows
  <2> QED BY <2>1, <2>3, <2>4, NextLevelWalk
<1> QED BY <1>1, <1>2

LEMMA NextWalkWalk ==
  ASSUME FlowInv, WalkInv, NextWalk
  PROVE  WalkInv'
<1>0. walk \in Walks /\ dropped \in BOOLEAN
  BY DEF WalkInv
<1>1. /\ pc = "walked" /\ plan # <<>> /\ UNCHANGED <<edges, imports, call>>
  BY DEF NextWalk, index
<1>2. walk.seeds \in SUBSET GraphNodes /\ walk.graph \in SUBSET Links
  BY <1>0 DEF Walks
<1>3. CASE call.tool = "dependencies"
  <2>1. StartBfs(walk.seeds, walk.graph) /\ UNCHANGED <<ever, always, dropped>>
    BY <1>3 DEF NextWalk
  <2>2. Snapshot(walk, ever, always, dropped) /\ always \subseteq GraphNow /\ GraphNow \subseteq ever
    BY <1>1, <1>3 DEF WalkInv
  <2>3. GraphNow' = GraphNow
    BY <1>1, SameGraph
  <2> QED BY <1>0, <1>1, <1>2, <2>1, <2>2, <2>3, StartedBfs DEF Snapshot
<1>4. CASE call.tool # "dependencies"
  <2>1. StartOf(walk.seeds) /\ dropped' = FALSE
    BY <1>4 DEF NextWalk
  <2> QED BY <1>1, <1>2, <1>4, <2>1, StartedCalls
<1> QED BY <1>3, <1>4

LEMMA NoWalkTyped ==
  NoWalk \in Walks
<1>1. <<>> \in Seq(SUBSET GraphNodes) /\ {} \in SUBSET Links /\ {} \in SUBSET GraphNodes
  OBVIOUS
<1> QED BY <1>1 DEF NoWalk, Walks

LEMMA AskWalk ==
  ASSUME FlowInv, WalkInv, NEW c \in Questions, Ask(c)
  PROVE  WalkInv'
<1>0. imports \in SUBSET ImportRows /\ dropped \in BOOLEAN
  BY DEF WalkInv
<1>1. /\ call' = c /\ UNCHANGED <<imports, dropped>> /\ plan' = c.walks
      /\ walk' = [NoWalk EXCEPT !.pending = c.files]
      /\ pc' = CASE c.tool \in {"callers", "callees"} -> "resolve"
             [] c.tool = "impact" -> "seeds"
             [] c.tool = "dependencies" -> "files"
             [] c.tool = "flow" -> IF Len(c.names) < 2 THEN "answered" ELSE "edges"
  BY DEF Ask, index
<1>2. /\ c.tool \in Tools /\ c.walks \in Seq(Steps) /\ c.files \in SUBSET Files
      /\ c.tool # "flow" => c.walks # <<>>
  BY McpGraphAssumption DEF Steps
<1>3. walk' \in Walks /\ walk'.graph = {}
  <2>1. c.files \in SUBSET GraphNodes
    BY <1>2 DEF GraphNodes
  <2>2. walk' \in Walks /\ walk'.graph = NoWalk.graph
    BY <1>1, <2>1, NoWalkTyped DEF Walks
  <2> QED BY <2>2 DEF NoWalk
<1>4. \/ c.tool \in {"callers", "callees"} /\ pc' = "resolve"
      \/ c.tool = "impact" /\ pc' = "seeds"
      \/ c.tool = "dependencies" /\ pc' = "files"
      \/ c.tool = "flow" /\ pc' \in {"answered", "edges"}
  <2>1. CASE c.tool \in {"callers", "callees"}
    BY <1>1, <2>1
  <2>2. CASE c.tool = "impact"
    BY <1>1, <2>2
  <2>3. CASE c.tool = "dependencies"
    BY <1>1, <2>3
  <2>4. CASE c.tool = "flow"
    <3>1. pc' = IF Len(c.names) < 2 THEN "answered" ELSE "edges"
      BY <1>1, <2>4
    <3> QED BY <2>4, <3>1
  <2> QED BY <1>2, <2>1, <2>2, <2>3, <2>4 DEF Tools
<1>5. WalkMatchesIndex'
  BY <1>4, WalkByLevel
<1>6. WalkPlaced'
  BY <1>1, <1>2, <1>3, <1>4 DEF WalkPlaced
<1> QED BY <1>0, <1>1, <1>2, <1>3, <1>4, <1>5, <1>6 DEF WalkInv

LEMMA AnswerWalk ==
  ASSUME WalkInv, format_bfs_result \/ format_impact_result \/ render_section
  PROVE  WalkInv'
<1>1. walk' = NoWalk /\ pc' = "answered" /\ dropped' = FALSE /\ UNCHANGED <<imports, plan>>
  BY DEF format_bfs_result, format_impact_result, render_section, Answer, index
<1> QED BY <1>1, NoWalkTyped, WalkElsewhere DEF WalkInv

LEMMA FlowToolWalk ==
  ASSUME WalkInv, \/ LoadEdges \/ LoadSymbols \/ ResolveName \/ StartPair \/ GiveUp
                  \/ ExpandForward \/ ExpandBackward \/ AnswerFlow
  PROVE  WalkInv'
<1>1. UNCHANGED <<imports, walk, plan, dropped>>
  BY DEF LoadEdges, LoadSymbols, ResolveName, StartPair, GiveUp, ExpandForward, ExpandBackward,
         AnswerFlow, index
<1>2. pc' \in {"symbols", "names", "answered", "pair", "flowed", "round", "backward"}
  <2>1. CASE LoadEdges \/ LoadSymbols \/ AnswerFlow
    BY <2>1 DEF LoadEdges, LoadSymbols, AnswerFlow
  <2>2. CASE ResolveName
    BY <2>2 DEF ResolveName
  <2>3. CASE StartPair \/ GiveUp
    BY <2>3 DEF StartPair, GiveUp, EndSegment
  <2>4. CASE ExpandForward
    BY <2>4 DEF ExpandForward, EndSegment
  <2>5. CASE ExpandBackward
    BY <2>5 DEF ExpandBackward, EndSegment
  <2> QED BY <2>1, <2>2, <2>3, <2>4, <2>5
<1> QED BY <1>1, <1>2, WalkElsewhere DEF WalkInv

LEMMA InitWalk ==
  ASSUME Init
  PROVE  WalkInv
<1>1. /\ pc = "idle" /\ walk = NoWalk /\ plan = <<>> /\ dropped = FALSE
      /\ imports \in (IF session = "graph" THEN StartImports ELSE {{}})
  BY DEF Init
<1>2. imports \in SUBSET ImportRows
  BY <1>1, StartAssumption
<1>3. WalkMatchesIndex
  BY <1>1, WalkByLevel
<1>4. <<>> \in Seq(Steps)
  OBVIOUS
<1> QED BY <1>1, <1>2, <1>3, <1>4, NoWalkTyped DEF WalkInv, WalkPlaced

LEMMA StepWalk ==
  ASSUME FlowInv, WalkInv, [Next]_vars
  PROVE  WalkInv'
<1>1. CASE GraphNext
  BY <1>1, AskWalk, CommitWalk, SeedingWalk, SnapshotWalk, ChunkWalk, LevelWalk, NextWalkWalk,
     AnswerWalk, FlowToolWalk DEF GraphNext
<1>2. CASE UNCHANGED graphVars
  <2>1. UNCHANGED <<edges, imports, call, pc, walk, plan, ever, always, dropped>>
    BY <1>2 DEF graphVars
  <2>2. WalkMatchesIndex' /\ GraphNow' = GraphNow
    BY <2>1, WalkByLevel, SameGraph DEF WalkInv
  <2>3. WalkPlaced'
    BY <2>1 DEF WalkInv, WalkPlaced
  <2> QED BY <2>1, <2>2, <2>3 DEF WalkInv
<1> QED BY <1>1, <1>2 DEF Next, vars

(***************************************************************************)
(* Theorem: whatever scans commit between its statements, a level of a     *)
(* walk holds nodes that many hops away over links the index held, none of *)
(* them twice, and unless a statement failed it misses no node that the    *)
(* links that stayed lead to (graph.rs bfs, deps.rs bfs): for every index, *)
(* question, chunk size and number of commits.                             *)
(***************************************************************************)
THEOREM WalkCorrect == Spec => []WalkMatchesIndex
<1>1. Init => FlowInv /\ WalkInv
  BY InitFlow, InitWalk
<1>2. FlowInv /\ WalkInv /\ [Next]_vars => (FlowInv /\ WalkInv)'
  BY StepFlow, StepWalk
<1>3. WalkInv => WalkMatchesIndex
  BY DEF WalkInv
<1> QED BY <1>1, <1>2, <1>3, PTL DEF Spec

-----------------------------------------------------------------------------
(* Summaries, search documents and the cache of rankings *)

AllStatuses == AVAILABLE_STATUSES \cup SKIPPABLE_STATUSES \cup {BARRIER_STATUS}
Origins == Bodies \cup {Absent} \cup (SUBSET SymbolNodes) \cup (SUBSET FileNodes)
Version == [text : Bodies \cup Texts, status : AllStatuses, of : Origins]

-----------------------------------------------------------------------------
(* The versions of a node *)

DecidingSet(vs) == {i \in DOMAIN vs : vs[i].status \in AVAILABLE_STATUSES \cup {BARRIER_STATUS}}

(* The newest of the versions that decide can be named *)
Decided(vs) ==
  DecidingSet(vs) = {} \/ \E i \in DecidingSet(vs) : \A j \in DecidingSet(vs) : j <= i

(* What a fact tool shows, read newest first *)
Visible(vs, i) ==
  /\ i \in DOMAIN vs
  /\ vs[i].status \in AVAILABLE_STATUSES
  /\ \A j \in DOMAIN vs : j > i => vs[j].status \in SKIPPABLE_STATUSES

LEMMA StatusesDiffer ==
  /\ AVAILABLE_STATUSES \cap SKIPPABLE_STATUSES = {}
  /\ BARRIER_STATUS \notin AVAILABLE_STATUSES /\ BARRIER_STATUS \notin SKIPPABLE_STATUSES
BY DEF AVAILABLE_STATUSES, SKIPPABLE_STATUSES, BARRIER_STATUS

(* select_current_summary and the reading newest first agree. *)
LEMMA SelectIsVisible ==
  ASSUME NEW vs \in Seq(Version), Decided(vs)
  PROVE  /\ \A i : Visible(vs, i) => select_current_summary(vs) = i /\ i # 0
         /\ select_current_summary(vs) # 0 => Visible(vs, select_current_summary(vs))
<1>0. DOMAIN vs = 1 .. Len(vs) /\ Len(vs) \in Nat
  OBVIOUS
<1>1. \A i \in DOMAIN vs : vs[i].status \in AllStatuses
  <2>1. \A i \in DOMAIN vs : vs[i] \in Version
    OBVIOUS
  <2> QED BY <2>1 DEF Version
<1>2. CASE DecidingSet(vs) = {}
  <2>1. Deciding(vs) = 0
    BY <1>2 DEF Deciding, DecidingSet
  <2>2. select_current_summary(vs) = 0
    BY <2>1 DEF select_current_summary
  <2>3. \A i : ~Visible(vs, i)
    BY <1>2 DEF Visible, DecidingSet
  <2> QED BY <2>2, <2>3
<1>3. CASE DecidingSet(vs) # {}
  <2> DEFINE m == Deciding(vs)
  <2>1. m \in DecidingSet(vs) /\ \A j \in DecidingSet(vs) : j <= m
    BY <1>3 DEF Decided, Deciding, DecidingSet
  <2>2. m \in DOMAIN vs /\ m # 0 /\ vs[m].status \in AVAILABLE_STATUSES \cup {BARRIER_STATUS}
    BY <1>0, <2>1 DEF DecidingSet
  <2>3. \A j \in DOMAIN vs : j > m => vs[j].status \in SKIPPABLE_STATUSES
    BY <1>0, <1>1, <2>1, <2>2 DEF DecidingSet, AllStatuses
  <2>4. \A i : Visible(vs, i) => i = m
    <3>1. ASSUME NEW i, Visible(vs, i)
          PROVE  i = m
      <4>1. i \in DecidingSet(vs)
        BY <3>1 DEF Visible, DecidingSet
      <4>2. i <= m
        BY <2>1, <4>1
      <4>3. ~(m > i)
        BY <2>2, <3>1, StatusesDiffer DEF Visible
      <4> QED BY <1>0, <2>2, <3>1, <4>2, <4>3 DEF Visible
    <3> QED BY <3>1
  <2>5. vs[m].status \in AVAILABLE_STATUSES => Visible(vs, m) /\ select_current_summary(vs) = m
    BY <2>2, <2>3 DEF Visible, select_current_summary
  <2>6. vs[m].status \notin AVAILABLE_STATUSES => select_current_summary(vs) = 0
    BY DEF select_current_summary
  <2>7. vs[m].status \notin AVAILABLE_STATUSES => ~Visible(vs, m)
    BY DEF Visible
  <2> HIDE DEF m
  <2> QED BY <2>2, <2>4, <2>5, <2>6, <2>7
<1> QED BY <1>2, <1>3

LEMMA AppendTyped ==
  ASSUME NEW vs \in Seq(Version), NEW v \in Version
  PROVE  /\ Append(vs, v) \in Seq(Version)
         /\ Len(Append(vs, v)) = Len(vs) + 1
         /\ DOMAIN vs = 1 .. Len(vs) /\ DOMAIN Append(vs, v) = 1 .. (Len(vs) + 1)
         /\ \A i \in 1 .. Len(vs) : Append(vs, v)[i] = vs[i]
         /\ Append(vs, v)[Len(vs) + 1] = v
         /\ Len(vs) \in Nat
OBVIOUS

(* A version that is available is what is shown from now on. *)
LEMMA AppendAvailable ==
  ASSUME NEW vs \in Seq(Version), NEW v \in Version, v.status \in AVAILABLE_STATUSES
  PROVE  /\ Append(vs, v) \in Seq(Version)
         /\ Decided(Append(vs, v))
         /\ \A i : Visible(Append(vs, v), i) => Append(vs, v)[i] = v
<1> DEFINE ws == Append(vs, v)
<1>1. /\ ws \in Seq(Version) /\ DOMAIN ws = 1 .. (Len(vs) + 1) /\ ws[Len(vs) + 1] = v
      /\ Len(vs) \in Nat
  BY AppendTyped
<1> HIDE DEF ws
<1>2. Len(vs) + 1 \in DecidingSet(ws) /\ \A j \in DecidingSet(ws) : j <= Len(vs) + 1
  BY <1>1 DEF DecidingSet
<1>3. ASSUME NEW i, Visible(ws, i)
      PROVE  i = Len(vs) + 1
  <2>1. ~(Len(vs) + 1 > i)
    BY <1>1, <1>3, StatusesDiffer DEF Visible
  <2> QED BY <1>1, <1>3, <2>1 DEF Visible
<1>4. Decided(ws)
  BY <1>2 DEF Decided
<1> QED BY <1>1, <1>3, <1>4 DEF ws

(* One that is skipped changes nothing. *)
LEMMA AppendSkippable ==
  ASSUME NEW vs \in Seq(Version), Decided(vs), NEW v \in Version, v.status \in SKIPPABLE_STATUSES
  PROVE  /\ Append(vs, v) \in Seq(Version)
         /\ Decided(Append(vs, v))
         /\ \A i : Visible(Append(vs, v), i) => Visible(vs, i) /\ Append(vs, v)[i] = vs[i]
<1> DEFINE ws == Append(vs, v)
<1>1. /\ ws \in Seq(Version) /\ DOMAIN ws = 1 .. (Len(vs) + 1) /\ ws[Len(vs) + 1] = v
      /\ Len(vs) \in Nat /\ DOMAIN vs = 1 .. Len(vs) /\ \A i \in 1 .. Len(vs) : ws[i] = vs[i]
  BY AppendTyped
<1> HIDE DEF ws
<1>2. DecidingSet(ws) = DecidingSet(vs)
  BY <1>1, StatusesDiffer DEF DecidingSet
<1>3. Decided(ws)
  BY <1>2 DEF Decided
<1>4. ASSUME NEW i, Visible(ws, i)
      PROVE  Visible(vs, i) /\ ws[i] = vs[i]
  <2>1. i # Len(vs) + 1
    BY <1>1, <1>4, StatusesDiffer DEF Visible
  <2>2. i \in 1 .. Len(vs)
    BY <1>1, <1>4, <2>1 DEF Visible
  <2> QED BY <1>1, <1>4, <2>2 DEF Visible
<1> QED BY <1>1, <1>3, <1>4 DEF ws

(* A current summary that is marked leaves none, not even an older one. *)
LEMMA MarkStaleHides ==
  ASSUME NEW vs \in Seq(Version), Decided(vs)
  PROVE  /\ MarkStale(vs) \in Seq(Version)
         /\ Decided(MarkStale(vs))
         /\ \A i : ~Visible(MarkStale(vs), i)
<1> DEFINE c == select_current_summary(vs)
           ws == MarkStale(vs)
<1>1. /\ \A i : Visible(vs, i) => c = i /\ i # 0
      /\ c # 0 => Visible(vs, c)
  BY SelectIsVisible
<1>2. CASE c = 0
  <2>1. ws = vs
    BY <1>2 DEF MarkStale
  <2> QED BY <1>1, <1>2, <2>1
<1>3. CASE c # 0
  <2>1. Visible(vs, c) /\ c \in DOMAIN vs
    BY <1>1, <1>3 DEF Visible
  <2>2. ws = [vs EXCEPT ![c].status = BARRIER_STATUS]
    BY <1>3 DEF MarkStale
  <2> HIDE DEF c, ws
  <2>3. /\ ws \in Seq(Version) /\ DOMAIN ws = DOMAIN vs /\ ws[c].status = BARRIER_STATUS
        /\ \A i \in DOMAIN vs : i # c => ws[i] = vs[i]
    <3> DEFINE v == [vs[c] EXCEPT !.status = BARRIER_STATUS]
    <3>1. vs[c] \in Version
      BY <2>1
    <3>2. v \in Version /\ v.status = BARRIER_STATUS
      BY <3>1 DEF Version, AllStatuses
    <3>3. ws = [vs EXCEPT ![c] = v]
      BY <2>2
    <3> HIDE DEF v
    <3> QED BY <2>1, <3>2, <3>3
  <2>4. DecidingSet(ws) = DecidingSet(vs)
    BY <2>1, <2>3 DEF DecidingSet, Visible
  <2>5. Decided(ws)
    BY <2>4 DEF Decided
  <2>6. ASSUME NEW i, Visible(ws, i)
        PROVE  FALSE
    <3>1. i # c /\ i \in DOMAIN vs /\ c \in DOMAIN vs
      BY <2>1, <2>3, <2>6, StatusesDiffer DEF Visible
    <3>2. ~(c > i)
      BY <2>3, <2>6, <3>1, StatusesDiffer DEF Visible
    <3>3. i > c
      BY <3>1, <3>2
    <3>4. ws[i].status \in SKIPPABLE_STATUSES
      BY <2>1, <2>3, <3>1, <3>3 DEF Visible
    <3> QED BY <2>6, <3>4, StatusesDiffer DEF Visible
  <2> QED BY <2>3, <2>5, <2>6 DEF ws
<1> QED BY <1>2, <1>3

-----------------------------------------------------------------------------
(* What holds of the tables between two commits *)

(* The summary shown for a node that exists was written for what it is *)
Describes(n, b, ms, vs) ==
  /\ (n \in SymbolNodes /\ b[n] # Absent) => \A i : Visible(vs, i) => vs[i].of = b[n]
  /\ (n \in ClusterNodes /\ ms[n] # {}) => \A i : Visible(vs, i) => vs[i].of = ms[n]

Kept(n, b, ms, vs) == vs \in Seq(Version) /\ Decided(vs) /\ Describes(n, b, ms, vs)

TablesTyped ==
  /\ body \in [SymbolNodes -> Bodies \cup {Absent}]
  /\ files \in SUBSET FileNodes
  /\ members \in [ClusterNodes -> SUBSET FileNodes]
  /\ DOMAIN versions = Nodes /\ versions = [n \in Nodes |-> versions[n]]

Projected == docs = [n \in Nodes |-> refresh_node(n, body, files, members, versions[n])]

TablesInv ==
  /\ TablesTyped
  /\ \A n \in Nodes : Kept(n, body, members, versions[n])
  /\ Projected

LEMMA KindsDiffer ==
  ASSUME NEW n
  PROVE  /\ n \in SymbolNodes => n \notin FileNodes /\ n \notin ClusterNodes
         /\ n \in FileNodes => n \notin SymbolNodes /\ n \notin ClusterNodes
         /\ n \in ClusterNodes => n \notin SymbolNodes /\ n \notin FileNodes
BY RetrievalAssumption

LEMMA FactOf ==
  ASSUME NEW n, NEW b, NEW fs, NEW ms
  PROVE  /\ n \in SymbolNodes =>
              Fact(n, b, fs, ms) = IF b[n] = Absent THEN Absent ELSE Signature[b[n]]
         /\ n \in FileNodes => Fact(n, b, fs, ms) = IF n \in fs THEN "file" ELSE Absent
         /\ n \in ClusterNodes => Fact(n, b, fs, ms) = IF ms[n] # {} THEN "cluster" ELSE Absent
<1> USE KindsDiffer DEF Fact
<1>1. n \in SymbolNodes =>
        Fact(n, b, fs, ms) = IF b[n] = Absent THEN Absent ELSE Signature[b[n]]
  OBVIOUS
<1>2. n \in FileNodes => Fact(n, b, fs, ms) = IF n \in fs THEN "file" ELSE Absent
  OBVIOUS
<1>3. n \in ClusterNodes => Fact(n, b, fs, ms) = IF ms[n] # {} THEN "cluster" ELSE Absent
  OBVIOUS
<1> QED BY <1>1, <1>2, <1>3

(* A document depends on the facts and the versions of its node alone *)
LEMMA RefreshOf ==
  ASSUME NEW n, NEW b, NEW fs, NEW ms, NEW c, NEW gs, NEW ls, NEW vs, n \in Nodes,
         n \in SymbolNodes => b[n] = c[n],
         n \in FileNodes => (n \in fs <=> n \in gs),
         n \in ClusterNodes => ms[n] = ls[n]
  PROVE  refresh_node(n, b, fs, ms, vs) = refresh_node(n, c, gs, ls, vs)
<1>1. Fact(n, b, fs, ms) = Fact(n, c, gs, ls)
  BY FactOf DEF Nodes
<1> QED BY <1>1 DEF refresh_node

LEMMA RefreshGone ==
  ASSUME NEW n, NEW b, NEW fs, NEW ms, NEW vs,
         \/ n \in SymbolNodes /\ b[n] = Absent
         \/ n \in FileNodes /\ n \notin fs
  PROVE  refresh_node(n, b, fs, ms, vs) = NoDoc
BY FactOf DEF refresh_node

(* The first versions of a node *)
LEMMA NoVersions ==
  <<>> \in Seq(Version) /\ Decided(<<>>) /\ \A i : ~Visible(<<>>, i)
BY DEF Decided, DecidingSet, Visible

(* write_file_facts leaves a symbol a summary of its body or none *)
LEMMA AfterScanKept ==
  ASSUME NEW s \in SymbolNodes, NEW new \in Bodies, NEW documented \in BOOLEAN, NEW b, NEW ms,
         Kept(s, body, members, versions[s]), b[s] = new
  PROVE  Kept(s, b, ms, AfterScan(s, body[s], new, documented))
<1> DEFINE vs == versions[s]
           v == [text |-> new, status |-> "ok", of |-> new]
           kept == IF vs = <<>> THEN <<>> ELSE MarkStale(vs)
           after == AfterScan(s, body[s], new, documented)
<1>0. new # Absent /\ s \notin ClusterNodes
  BY RetrievalAssumption
<1>1. vs \in Seq(Version) /\ Decided(vs)
  BY DEF Kept
<1>2. kept \in Seq(Version) /\ Decided(kept) /\ \A i : ~Visible(kept, i)
  <2>1. CASE vs = <<>>
    BY <2>1, NoVersions
  <2>2. CASE vs # <<>>
    BY <1>1, <2>2, MarkStaleHides
  <2> QED BY <2>1, <2>2
<1>3. v \in Version /\ v.status \in AVAILABLE_STATUSES /\ v.of = new
  BY DEF Version, AllStatuses, Origins, AVAILABLE_STATUSES
<1>4. after = IF body[s] = new /\ vs # <<>> THEN vs
              ELSE IF documented THEN Append(kept, v) ELSE kept
  BY DEF AfterScan
<1> HIDE DEF v, kept, after, vs
<1>5. CASE body[s] = new /\ vs # <<>>
  <2>1. after = vs
    BY <1>4, <1>5
  <2>2. \A i : Visible(vs, i) => vs[i].of = b[s]
    BY <1>0, <1>5 DEF Kept, Describes, vs
  <2> QED BY <1>0, <1>1, <2>1, <2>2 DEF Kept, Describes, after
<1>6. CASE ~(body[s] = new /\ vs # <<>>) /\ documented
  <2>1. after = Append(kept, v)
    BY <1>4, <1>6
  <2>2. after \in Seq(Version) /\ Decided(after) /\ \A i : Visible(after, i) => after[i] = v
    BY <1>2, <1>3, <2>1, AppendAvailable
  <2>3. \A i : Visible(after, i) => after[i].of = b[s]
    BY <1>3, <2>2
  <2> QED BY <1>0, <2>2, <2>3 DEF Kept, Describes, after
<1>7. CASE ~(body[s] = new /\ vs # <<>>) /\ ~documented
  <2>1. after = kept
    BY <1>4, <1>7
  <2> QED BY <1>2, <2>1 DEF Kept, Describes, after
<1> QED BY <1>5, <1>6, <1>7

(* The rebuild leaves a cluster a summary of its members or none *)
LEMMA AfterRebuildKept ==
  ASSUME NEW c \in ClusterNodes, NEW b, NEW ms, Kept(c, body, members, versions[c])
  PROVE  Kept(c, b, ms, AfterRebuild(c, versions[c], ms[c]))
<1> DEFINE vs == versions[c]
           after == AfterRebuild(c, vs, ms[c])
<1>0. c \notin SymbolNodes
  BY KindsDiffer
<1>1. vs \in Seq(Version) /\ Decided(vs)
  BY DEF Kept
<1>2. after = IF ms[c] # {} /\ ms[c] # members[c] THEN MarkStale(vs) ELSE vs
  BY DEF AfterRebuild
<1> HIDE DEF after
<1>3. CASE ms[c] # {} /\ ms[c] # members[c]
  <2>1. after \in Seq(Version) /\ Decided(after) /\ \A i : ~Visible(after, i)
    BY <1>1, <1>2, <1>3, MarkStaleHides
  <2> QED BY <2>1 DEF Kept, Describes, after
<1>4. CASE ~(ms[c] # {} /\ ms[c] # members[c])
  <2>1. after = vs
    BY <1>2, <1>4
  <2>2. ms[c] # {} => \A i : Visible(vs, i) => vs[i].of = ms[c]
    BY <1>4 DEF Kept, Describes
  <2> QED BY <1>0, <1>1, <2>1, <2>2 DEF Kept, Describes, after
<1> QED BY <1>3, <1>4

LEMMA MarkStaleKept ==
  ASSUME NEW n, NEW b, NEW ms, NEW vs, vs \in Seq(Version), Decided(vs)
  PROVE  Kept(n, b, ms, MarkStale(vs))
BY MarkStaleHides DEF Kept, Describes

(* Versions stay right while what the node is stays the same, or goes *)
LEMMA KeptOn ==
  ASSUME NEW n, NEW b, NEW ms, NEW c, NEW ls, NEW vs, Kept(n, b, ms, vs),
         n \in SymbolNodes => c[n] \in {Absent, b[n]},
         n \in ClusterNodes => ls[n] \in {{}, ms[n]}
  PROVE  Kept(n, c, ls, vs)
BY DEF Kept, Describes

-----------------------------------------------------------------------------
(* The writers *)

LEMMA OwnIn ==
  ASSUME NEW f \in FileNodes
  PROVE  Own(f) \subseteq SymbolNodes
BY DEF Own

LEMMA ScanStep ==
  ASSUME TablesInv, NEW f \in FileNodes, ScanFile(f)
  PROVE  TablesInv'
<1>1. PICK new \in [Own(f) -> Bodies \cup {Absent}], documented \in SUBSET Own(f),
           ms \in [ClusterNodes -> SUBSET (files \cup {f})] :
        LET now == {s \in Own(f) : new[s] # Absent}
            before == {s \in Own(f) : body[s] # Absent}
            b == [s \in SymbolNodes |-> IF s \in Own(f) THEN new[s] ELSE body[s]]
            vs == [n \in Nodes |->
                     IF n \in now THEN AfterScan(n, body[n], new[n], n \in documented)
                     ELSE IF n = f /\ f \in files /\ now # before THEN MarkStale(versions[n])
                     ELSE IF n \in ClusterNodes THEN AfterRebuild(n, versions[n], ms[n])
                     ELSE versions[n]]
        IN /\ f \notin files \/ b # body \/ ms # members
           /\ documented \subseteq now
           /\ \A n \in Nodes : Len(vs[n]) <= MaxVersions
           /\ body' = b
           /\ files' = files \cup {f}
           /\ members' = ms
           /\ versions' = vs
           /\ docs' = [n \in Nodes |->
                         IF n \in now \cup {f} \cup ClusterNodes
                         THEN refresh_node(n, b, files \cup {f}, ms, vs[n])
                         ELSE IF n \in before \ now THEN NoDoc
                         ELSE docs[n]]
  BY Zenon DEF ScanFile
<1> DEFINE now == {s \in Own(f) : new[s] # Absent}
           before == {s \in Own(f) : body[s] # Absent}
<1>2. /\ body' = [s \in SymbolNodes |-> IF s \in Own(f) THEN new[s] ELSE body[s]]
      /\ files' = files \cup {f} /\ members' = ms
      /\ versions' = [n \in Nodes |->
                     IF n \in now THEN AfterScan(n, body[n], new[n], n \in documented)
                     ELSE IF n = f /\ f \in files /\ now # before THEN MarkStale(versions[n])
                     ELSE IF n \in ClusterNodes THEN AfterRebuild(n, versions[n], ms[n])
                     ELSE versions[n]]
  BY <1>1
<1>3. docs' = [n \in Nodes |->
                 IF n \in now \cup {f} \cup ClusterNodes
                 THEN refresh_node(n, body', files', members', versions'[n])
                 ELSE IF n \in before \ now THEN NoDoc
                 ELSE docs[n]]
  BY <1>1
<1>4. /\ now \subseteq SymbolNodes /\ before \subseteq SymbolNodes
      /\ \A s \in now : new[s] \in Bodies /\ body'[s] = new[s] /\ s \in Own(f)
      /\ \A s \in Own(f) \ now : body'[s] = Absent
      /\ \A s \in Own(f) \ before : body[s] = Absent
      /\ \A s \in SymbolNodes \ Own(f) : body'[s] = body[s]
  BY <1>2, OwnIn
<1>5. now \subseteq Own(f) /\ before \subseteq Own(f) /\ Own(f) \subseteq SymbolNodes
  BY OwnIn
<1> HIDE DEF now, before
<1>6. TablesTyped'
  <2>1. body' \in [SymbolNodes -> Bodies \cup {Absent}]
    BY <1>2, OwnIn DEF TablesInv, TablesTyped
  <2>2. files' \in SUBSET FileNodes /\ members' \in [ClusterNodes -> SUBSET FileNodes]
    BY <1>2 DEF TablesInv, TablesTyped
  <2>3. DOMAIN versions' = Nodes /\ versions' = [n \in Nodes |-> versions'[n]]
    BY <1>2
  <2> QED BY <2>1, <2>2, <2>3 DEF TablesTyped
<1>7. ASSUME NEW n \in Nodes
      PROVE  Kept(n, body', members', versions'[n])
  <2>0. Kept(n, body, members, versions[n])
    BY DEF TablesInv
  <2>1. CASE n \in now
    <3>1. versions'[n] = AfterScan(n, body[n], new[n], n \in documented)
      BY <1>2, <2>1
    <3>2. n \in SymbolNodes /\ new[n] \in Bodies /\ body'[n] = new[n]
      BY <1>4, <2>1
    <3>3. (n \in documented) \in BOOLEAN
      OBVIOUS
    <3> QED BY <2>0, <3>1, <3>2, <3>3, AfterScanKept
  <2>2. CASE n \notin now /\ n \in SymbolNodes
    <3>1. versions'[n] = versions[n]
      BY <1>2, <2>2, KindsDiffer
    <3>2. body'[n] \in {Absent, body[n]}
      BY <1>4, <2>2
    <3>3. n \notin ClusterNodes
      BY <2>2, KindsDiffer
    <3> QED BY <2>0, <3>1, <3>2, <3>3, KeptOn
  <2>3. CASE n \in FileNodes
    <3>1. n \notin now /\ n \notin ClusterNodes /\ n \notin SymbolNodes
      BY <1>4, <2>3, KindsDiffer
    <3>2. versions'[n] \in {versions[n], MarkStale(versions[n])}
      BY <1>2, <3>1
    <3>3. versions[n] \in Seq(Version) /\ Decided(versions[n])
      BY <2>0 DEF Kept
    <3>4. Kept(n, body', members', versions[n])
      BY <2>0, <3>1, KeptOn
    <3>5. Kept(n, body', members', MarkStale(versions[n]))
      BY <3>3, MarkStaleKept
    <3> QED BY <3>2, <3>4, <3>5
  <2>4. CASE n \in ClusterNodes
    <3>1. n \notin now /\ n # f
      BY <1>4, <2>4, KindsDiffer
    <3>2. versions'[n] = AfterRebuild(n, versions[n], members'[n])
      BY <1>2, <2>4, <3>1
    <3> QED BY <2>0, <2>4, <3>2, AfterRebuildKept
  <2> QED BY <2>1, <2>2, <2>3, <2>4 DEF Nodes
<1>8. ASSUME NEW n \in Nodes
      PROVE  docs'[n] = refresh_node(n, body', files', members', versions'[n])
  <2>0. docs[n] = refresh_node(n, body, files, members, versions[n])
    BY DEF TablesInv, Projected
  <2>1. CASE n \in now \cup {f} \cup ClusterNodes
    BY <1>3, <2>1
  <2>2. CASE n \notin now \cup {f} \cup ClusterNodes /\ n \in before \ now
    <3>1. docs'[n] = NoDoc
      BY <1>3, <2>2
    <3>2. n \in SymbolNodes /\ body'[n] = Absent
      BY <1>4, <1>5, <2>2
    <3> QED BY <3>1, <3>2, RefreshGone
  <2>3. CASE n \notin now \cup {f} \cup ClusterNodes /\ n \notin before \ now
    <3>1. docs'[n] = docs[n] /\ versions'[n] = versions[n]
      BY <1>2, <1>3, <2>3
    <3>2. n \in SymbolNodes => body'[n] = body[n]
      BY <1>4, <2>3
    <3>3. n \in FileNodes => (n \in files' <=> n \in files)
      BY <1>2, <2>3
    <3> QED BY <2>0, <2>3, <3>1, <3>2, <3>3, RefreshOf
  <2> QED BY <2>1, <2>2, <2>3
<1>9. Projected'
  <2>1. docs' = [n \in Nodes |-> docs'[n]]
    BY <1>3
  <2> QED BY <1>8, <2>1 DEF Projected
<1> QED BY <1>6, <1>7, <1>9 DEF TablesInv

LEMMA DeleteStep ==
  ASSUME TablesInv, NEW f \in FileNodes, DeleteFile(f)
  PROVE  TablesInv'
<1>1. /\ body' = [s \in SymbolNodes |-> IF s \in Own(f) THEN Absent ELSE body[s]]
      /\ files' = files \ {f}
      /\ members' \in [ClusterNodes -> SUBSET (files \ {f})]
      /\ versions' = [n \in Nodes |-> IF n \in ClusterNodes
                                      THEN AfterRebuild(n, versions[n], members'[n])
                                      ELSE versions[n]]
      /\ docs' = [n \in Nodes |->
                    IF n \in Own(f) \cup {f} THEN NoDoc
                    ELSE IF n \in ClusterNodes
                    THEN refresh_node(n, body', files', members', versions'[n])
                    ELSE docs[n]]
  BY DEF DeleteFile
<1>2. /\ Own(f) \subseteq SymbolNodes
      /\ \A s \in Own(f) : body'[s] = Absent
      /\ \A s \in SymbolNodes \ Own(f) : body'[s] = body[s]
  BY <1>1, OwnIn
<1>3. TablesTyped'
  BY <1>1 DEF TablesInv, TablesTyped
<1>4. ASSUME NEW n \in Nodes
      PROVE  Kept(n, body', members', versions'[n])
  <2>0. Kept(n, body, members, versions[n])
    BY DEF TablesInv
  <2>1. CASE n \in ClusterNodes
    <3>1. versions'[n] = AfterRebuild(n, versions[n], members'[n])
      BY <1>1, <2>1
    <3> QED BY <2>0, <2>1, <3>1, AfterRebuildKept
  <2>2. CASE n \notin ClusterNodes
    <3>1. versions'[n] = versions[n]
      BY <1>1, <2>2
    <3>2. n \in SymbolNodes => body'[n] \in {Absent, body[n]}
      BY <1>2
    <3> QED BY <2>0, <2>2, <3>1, <3>2, KeptOn
  <2> QED BY <2>1, <2>2
<1>5. ASSUME NEW n \in Nodes
      PROVE  docs'[n] = refresh_node(n, body', files', members', versions'[n])
  <2>0. docs[n] = refresh_node(n, body, files, members, versions[n])
    BY DEF TablesInv, Projected
  <2>1. CASE n \in Own(f) \cup {f}
    <3>1. docs'[n] = NoDoc
      BY <1>1, <2>1
    <3>2. \/ n \in SymbolNodes /\ body'[n] = Absent
          \/ n \in FileNodes /\ n \notin files'
      BY <1>1, <1>2, <2>1
    <3> QED BY <3>1, <3>2, RefreshGone
  <2>2. CASE n \notin Own(f) \cup {f} /\ n \in ClusterNodes
    BY <1>1, <2>2
  <2>3. CASE n \notin Own(f) \cup {f} /\ n \notin ClusterNodes
    <3>1. docs'[n] = docs[n] /\ versions'[n] = versions[n]
      BY <1>1, <2>3
    <3>2. n \in SymbolNodes => body'[n] = body[n]
      BY <1>2, <2>3
    <3>3. n \in FileNodes => (n \in files' <=> n \in files)
      BY <1>1, <2>3
    <3> QED BY <2>0, <2>3, <3>1, <3>2, <3>3, RefreshOf
  <2> QED BY <2>1, <2>2, <2>3
<1>6. Projected'
  <2>1. docs' = [n \in Nodes |-> docs'[n]]
    BY <1>1
  <2> QED BY <1>5, <2>1 DEF Projected
<1> QED BY <1>3, <1>4, <1>6 DEF TablesInv

LEMMA SummarizeStep ==
  ASSUME TablesInv, NEW m \in Nodes, NEW text \in Texts, NEW status \in Statuses,
         Summarize(m, text, status)
  PROVE  TablesInv'
<1> DEFINE v == [text |-> text, status |-> status, of |-> WrittenFor(m)]
           vs == Append(versions[m], v)
<1>1. /\ versions' = [versions EXCEPT ![m] = vs]
      /\ docs' = [docs EXCEPT ![m] = refresh_node(m, body, files, members, vs)]
      /\ body' = body /\ files' = files /\ members' = members
  BY DEF Summarize
<1>2. /\ m \in SymbolNodes => WrittenFor(m) = body[m]
      /\ m \in FileNodes => WrittenFor(m) = {s \in Own(m) : body[s] # Absent}
      /\ m \in ClusterNodes => WrittenFor(m) = members[m]
  <2> USE KindsDiffer DEF WrittenFor
  <2>1. m \in SymbolNodes => WrittenFor(m) = body[m]
    OBVIOUS
  <2>2. m \in FileNodes => WrittenFor(m) = {s \in Own(m) : body[s] # Absent}
    OBVIOUS
  <2>3. m \in ClusterNodes => WrittenFor(m) = members[m]
    OBVIOUS
  <2> QED BY <2>1, <2>2, <2>3
<1>3. WrittenFor(m) \in Origins
  <2>1. m \in FileNodes => WrittenFor(m) \in SUBSET SymbolNodes
    BY <1>2, OwnIn
  <2>2. m \in SymbolNodes => WrittenFor(m) \in Bodies \cup {Absent}
    BY <1>2 DEF TablesInv, TablesTyped
  <2>3. m \in ClusterNodes => WrittenFor(m) \in SUBSET FileNodes
    BY <1>2 DEF TablesInv, TablesTyped
  <2> QED BY <2>1, <2>2, <2>3 DEF Origins, Nodes
<1>4. status \in AVAILABLE_STATUSES \cup SKIPPABLE_STATUSES
  BY RetrievalAssumption
<1>5. v \in Version /\ v.status = status /\ v.of = WrittenFor(m)
  BY <1>3, <1>4 DEF Version, AllStatuses
<1>6. Kept(m, body, members, versions[m])
  BY DEF TablesInv
<1>7. Kept(m, body, members, vs)
  <2>0. versions[m] \in Seq(Version) /\ Decided(versions[m])
    BY <1>6 DEF Kept
  <2> HIDE DEF v
  <2>1. CASE status \in AVAILABLE_STATUSES
    <3>1. vs \in Seq(Version) /\ Decided(vs) /\ \A i : Visible(vs, i) => vs[i] = v
      BY <1>5, <2>0, <2>1, AppendAvailable
    <3> HIDE DEF vs
    <3> QED BY <1>2, <1>5, <3>1 DEF Kept, Describes
  <2>2. CASE status \in SKIPPABLE_STATUSES
    <3>1. /\ vs \in Seq(Version) /\ Decided(vs)
          /\ \A i : Visible(vs, i) => Visible(versions[m], i) /\ vs[i] = versions[m][i]
      BY <1>5, <2>0, <2>2, AppendSkippable
    <3> HIDE DEF vs
    <3> QED BY <1>6, <3>1 DEF Kept, Describes
  <2> QED BY <1>4, <2>1, <2>2
<1> HIDE DEF vs, v
<1>8. TablesTyped'
  BY <1>1 DEF TablesInv, TablesTyped
<1>9. ASSUME NEW n \in Nodes
      PROVE  Kept(n, body', members', versions'[n])
  <2>1. versions'[n] = IF n = m THEN vs ELSE versions[n]
    BY <1>1 DEF TablesInv, TablesTyped
  <2>2. Kept(n, body, members, versions[n])
    BY DEF TablesInv
  <2> QED BY <1>1, <1>7, <2>1, <2>2
<1>10. Projected'
  <2>1. docs = [n \in Nodes |-> refresh_node(n, body, files, members, versions[n])]
    BY DEF TablesInv, Projected
  <2>2. \A n \in Nodes : versions'[n] = IF n = m THEN vs ELSE versions[n]
    BY <1>1 DEF TablesInv, TablesTyped
  <2>3. docs' = [n \in Nodes |-> refresh_node(n, body, files, members, versions'[n])]
    BY <1>1, <2>1, <2>2
  <2> QED BY <1>1, <2>3 DEF Projected
<1> QED BY <1>8, <1>9, <1>10 DEF TablesInv

-----------------------------------------------------------------------------
(* What the calls of query_navigate and of the fact tools hold *)

Shorts == Bodies \cup Texts \cup {Absent}
Facts == {Absent, "file", "cluster"} \cup {Signature[b] : b \in Bodies}
Docs == [fact : Facts, short : Shorts]
Homes == Nodes \cup {Absent}
Maps == [FileNodes -> Homes]
Candidates == [node : Nodes, cluster : Homes, short : Shorts, hash : Docs]
Places == {"idle", "clusters", "files", "exact", "prefix", "bm25", "fuzzy", "docs", "corpus",
           "hashes", "lookup", "cached", "asking", "done", "outline", "facts"}
Call == [pc : Places, map : Maps, seen : SUBSET Candidates, hits : SUBSET Nodes,
         short : SUBSET (Nodes \X Shorts), source : {"llm", "llm-cluster-only"}, tries : Nat]

(* Text and hash of a candidate come from one row, but in the fallback *)
Sincere(c) == c.source = "llm" => \A x \in c.seen : x.short = x.hash.short

Fine(c) == c \in Call /\ Sincere(c)

NavInv == nav \in [Callers -> Call] /\ \A k \in Callers : Fine(nav[k])

(* Which texts were shown can be told from the key, the clusters cannot *)
ShownOf(key) == {<<x[1], x[2].short>> : x \in key}
CacheInv == \A e \in cache : e.source = "llm" => TextsOf(e.of) = ShownOf(e.key)

LEMMA VersionText ==
  ASSUME TablesInv, NEW n \in Nodes, NEW i, Visible(versions[n], i)
  PROVE  versions[n][i].text \in Bodies \cup Texts /\ versions[n][i].text # Absent
<1>1. versions[n] \in Seq(Version) /\ i \in DOMAIN versions[n]
  BY DEF TablesInv, Kept, Visible
<1>2. versions[n][i] \in Version
  BY <1>1
<1> QED BY <1>2, RetrievalAssumption DEF Version

LEMMA DocsTyped ==
  ASSUME TablesInv
  PROVE  docs \in [Nodes -> Docs]
<1>1. ASSUME NEW n \in Nodes
      PROVE  refresh_node(n, body, files, members, versions[n]) \in Docs
  <2> DEFINE i == select_current_summary(versions[n])
  <2>1. Fact(n, body, files, members) \in Facts
    <3>1. n \in SymbolNodes => body[n] \in Bodies \cup {Absent}
      BY DEF TablesInv, TablesTyped
    <3>2. n \in SymbolNodes => Fact(n, body, files, members) \in Facts
      BY <3>1, FactOf DEF Facts
    <3>3. n \in FileNodes => Fact(n, body, files, members) \in Facts
      BY FactOf DEF Facts
    <3>4. n \in ClusterNodes => Fact(n, body, files, members) \in Facts
      BY FactOf DEF Facts
    <3> QED BY <3>2, <3>3, <3>4 DEF Nodes
  <2>2. i # 0 => Visible(versions[n], i)
    BY SelectIsVisible DEF TablesInv, Kept
  <2>3. i # 0 => versions[n][i].text \in Shorts
    BY <2>2, VersionText DEF Shorts
  <2>4. Absent \in Facts /\ Absent \in Shorts
    BY DEF Facts, Shorts
  <2> QED BY <2>1, <2>3, <2>4 DEF refresh_node, Docs, NoDoc
<1> QED BY <1>1 DEF TablesInv, Projected

LEMMA ClusterIsHome ==
  ASSUME NEW map \in Maps, NEW n \in Nodes
  PROVE  ClusterOf(map, n) \in Homes
<1> USE KindsDiffer DEF ClusterOf
<1>1. CASE n \in SymbolNodes
  <2>1. ClusterOf(map, n) = map[Owner[n]]
    BY <1>1
  <2> QED BY <1>1, <2>1, RetrievalAssumption DEF Maps
<1>2. CASE n \in FileNodes
  <2>1. ClusterOf(map, n) = map[n]
    BY <1>2
  <2> QED BY <1>2, <2>1 DEF Maps
<1>3. CASE n \in ClusterNodes
  <2>1. ClusterOf(map, n) = n
    BY <1>3
  <2> QED BY <1>3, <2>1 DEF Homes
<1> QED BY <1>1, <1>2, <1>3 DEF Nodes

LEMMA CandidatesFine ==
  ASSUME TablesInv, NEW map \in Maps, NEW found \in SUBSET Nodes
  PROVE  /\ {Candidate(map, n) : n \in found} \in SUBSET Candidates
         /\ \A x \in {Candidate(map, n) : n \in found} : x.short = x.hash.short
BY DocsTyped, ClusterIsHome DEF Candidate, Candidates, Docs

LEMMA UpToIn ==
  ASSUME NEW limit, NEW rows, NEW found \in UpTo(limit, rows) \cup {{}}
  PROVE  found \subseteq rows
BY DEF UpTo, kSubset

(* A call that does one step *)
LEMMA NavMoves ==
  ASSUME NavInv, NEW k \in Callers, NEW from, NEW to, NavStep(k, from, to), Fine(to)
  PROVE  NavInv'
<1>1. nav' = [nav EXCEPT ![k] = to] /\ nav \in [Callers -> Call] /\ to \in Call
  BY DEF NavStep, NavInv, Fine
<1>2. nav' \in [Callers -> Call] /\ \A j \in Callers : nav'[j] = IF j = k THEN to ELSE nav[j]
  BY <1>1
<1> QED BY <1>2 DEF NavInv

LEMMA CallChanges ==
  ASSUME NEW c, Fine(c), NEW p \in Places
  PROVE  /\ Fine([c EXCEPT !.pc = p])
         /\ \A h \in SUBSET Nodes : Fine([c EXCEPT !.pc = p, !.hits = h])
         /\ \A t \in SUBSET (Nodes \X Shorts) : Fine([c EXCEPT !.pc = p, !.short = t])
         /\ Fine([c EXCEPT !.tries = c.tries + 1])
<1>1. Fine([c EXCEPT !.pc = p])
  BY DEF Fine, Call, Sincere
<1>2. \A h \in SUBSET Nodes : Fine([c EXCEPT !.pc = p, !.hits = h])
  BY DEF Fine, Call, Sincere
<1>3. ASSUME NEW t \in SUBSET (Nodes \X Shorts)
      PROVE  Fine([c EXCEPT !.pc = p, !.short = t])
  <2> DEFINE T == SUBSET (Nodes \X Shorts)
  <2>1. t \in T
    OBVIOUS
  <2>2. Call = [pc : Places, map : Maps, seen : SUBSET Candidates, hits : SUBSET Nodes,
                short : T, source : {"llm", "llm-cluster-only"}, tries : Nat]
    BY DEF Call
  <2> HIDE DEF T
  <2> QED BY <2>1, <2>2 DEF Fine, Sincere
<1>4. Fine([c EXCEPT !.tries = c.tries + 1])
  BY DEF Fine, Call, Sincere
<1> QED BY <1>1, <1>2, <1>3, <1>4

LEMMA IdleFine ==
  /\ Fine(Idle) /\ Fine(Done)
  /\ \A p \in Places : Fine([Idle EXCEPT !.pc = p])
  /\ \A p \in Places, h \in SUBSET Nodes : Fine([Idle EXCEPT !.pc = p, !.hits = h])
  /\ \A p \in Places, map \in Maps : Fine([Idle EXCEPT !.pc = p, !.map = map])
<1>1. Fine(Idle)
  <2> DEFINE T == SUBSET (Nodes \X Shorts)
  <2>1. {} \in T
    OBVIOUS
  <2>2. Call = [pc : Places, map : Maps, seen : SUBSET Candidates, hits : SUBSET Nodes,
                short : T, source : {"llm", "llm-cluster-only"}, tries : Nat]
    BY DEF Call
  <2>3. Unclustered \in Maps
    BY DEF Unclustered, Maps, Homes
  <2> HIDE DEF T
  <2> QED BY <2>1, <2>2, <2>3 DEF Fine, Sincere, Idle, Places
<1>2. Fine(Done)
  <2>1. "done" \in Places
    BY DEF Places
  <2> QED BY <1>1, <2>1, CallChanges DEF Done
<1>3. ASSUME NEW p \in Places, NEW map \in Maps
      PROVE  Fine([Idle EXCEPT !.pc = p, !.map = map])
  BY <1>1 DEF Fine, Call, Sincere
<1> QED BY <1>1, <1>2, <1>3, CallChanges

LEMMA CallSees ==
  ASSUME NEW c, Fine(c), NEW p \in Places, NEW h \in SUBSET Nodes, NEW s \in SUBSET Candidates,
         \A x \in s : x.short = x.hash.short
  PROVE  /\ Fine([c EXCEPT !.pc = p, !.seen = s])
         /\ Fine([c EXCEPT !.pc = p, !.seen = c.seen \cup s])
         /\ Fine([c EXCEPT !.hits = h, !.seen = c.seen \cup s])
<1>0. c \in Call /\ (c.source = "llm" => \A x \in c.seen : x.short = x.hash.short)
  BY DEF Fine, Sincere
<1>1. c.seen \cup s \in SUBSET Candidates
  BY <1>0 DEF Call
<1>2. c.source = "llm" => \A x \in c.seen \cup s : x.short = x.hash.short
  BY <1>0
<1>3. Fine([c EXCEPT !.pc = p, !.seen = s])
  BY <1>0 DEF Fine, Call, Sincere
<1>4. Fine([c EXCEPT !.pc = p, !.seen = c.seen \cup s])
  <2> DEFINE d == [c EXCEPT !.pc = p, !.seen = c.seen \cup s]
  <2>1. d \in Call /\ d.seen = c.seen \cup s /\ d.source = c.source
    BY <1>0, <1>1 DEF Call
  <2> HIDE DEF d
  <2>2. Fine(d)
    BY <1>2, <2>1 DEF Fine, Sincere
  <2> QED BY <2>2 DEF d
<1>5. Fine([c EXCEPT !.hits = h, !.seen = c.seen \cup s])
  <2> DEFINE d == [c EXCEPT !.hits = h, !.seen = c.seen \cup s]
  <2>1. d \in Call /\ d.seen = c.seen \cup s /\ d.source = c.source
    BY <1>0, <1>1 DEF Call
  <2> HIDE DEF d
  <2>2. Fine(d)
    BY <1>2, <2>1 DEF Fine, Sincere
  <2> QED BY <2>2 DEF d
<1> QED BY <1>3, <1>4, <1>5

LEMMA ShownOfKey ==
  ASSUME NEW c, Fine(c), c.source = "llm"
  PROVE  TextsOf(Shown(c.seen)) = ShownOf(CacheKey(c.seen))
<1>1. \A x \in c.seen : x.short = x.hash.short
  BY DEF Fine, Sincere
<1>2. \A x : <<x.node, x.hash>>[1] = x.node /\ <<x.node, x.hash>>[2] = x.hash
  OBVIOUS
<1>3. ShownOf(CacheKey(c.seen)) = {<<x.node, x.hash.short>> : x \in c.seen}
  BY <1>2, Zenon DEF ShownOf, CacheKey
<1>4. {<<x.node, x.hash.short>> : x \in c.seen} = {<<x.node, x.short>> : x \in c.seen}
  BY <1>1
<1>5. \A x : /\ <<x.node, x.cluster, x.short>>[1] = x.node
             /\ <<x.node, x.cluster, x.short>>[3] = x.short
  OBVIOUS
<1>6. TextsOf(Shown(c.seen)) = {<<x.node, x.short>> : x \in c.seen}
  BY <1>5, Zenon DEF TextsOf, Shown
<1> QED BY <1>3, <1>4, <1>6

LEMMA LatestIsVisible ==
  ASSUME TablesInv, NEW n \in Nodes
  PROVE  /\ \A v \in get_latest_summary(n) :
              \E i : Visible(versions[n], i) /\ v = versions[n][i]
         /\ \A i : Visible(versions[n], i) => versions[n][i] \in get_latest_summary(n)
<1>1. versions[n] \in Seq(Version)
  BY DEF TablesInv, Kept
<1>2. DOMAIN versions[n] = 1 .. Len(versions[n]) /\ Len(versions[n]) \in Nat
  BY <1>1
<1> QED BY <1>2 DEF get_latest_summary, Visible

(* The steps of query_navigate, and of the fact tools *)
LEMMA NavigateStep ==
  ASSUME TablesInv, NavInv, CacheInv, NavigateNext
  PROVE  NavInv' /\ CacheInv' /\ UNCHANGED tables
<1>0. PICK k \in Callers :
       \/ Navigate(k) \/ ReadClusters(k) \/ ReadFiles(k)
       \/ search_exact(k) \/ search_like(k) \/ search_fts(k) \/ search_fuzzy(k)
       \/ \E s \in SymbolNodes : ReadSymbolDoc(k, s)
       \/ EndCandidates(k) \/ ReadCorpus(k) \/ ReadHashes(k) \/ Lookup(k)
       \/ AnswerFromCache(k) \/ Retry(k) \/ NoRanking(k) \/ StoreRanking(k)
  BY DEF NavigateNext
<1> DEFINE c == nav[k]
<1>p. {"clusters", "files", "exact", "prefix", "bm25", "docs", "hashes", "lookup", "cached",
       "asking"} \subseteq Places
  BY DEF Places
<1>a. /\ Fine(c) /\ c.seen \in SUBSET Candidates /\ c.hits \in SUBSET Nodes
      /\ c.short \in SUBSET (Nodes \X Shorts) /\ c.map \in Maps
  BY DEF NavInv, Fine, Call
<1>b. SymbolNodes \subseteq Nodes /\ FileNodes \subseteq Nodes /\ ClusterNodes \subseteq Nodes
  BY DEF Nodes
<1>c. ASSUME NEW from, NEW to, NavStep(k, from, to), Fine(to)
      PROVE  NavInv'
  BY <1>c, NavMoves
<1>d. UNCHANGED cache => CacheInv'
  BY DEF CacheInv
<1>e. ASSUME NEW from, NEW rows \in SUBSET Nodes, NEW p \in Places, Channel(k, from, rows, p)
      PROVE  NavInv' /\ CacheInv' /\ UNCHANGED tables
  <2>1. PICK found \in UpTo(Quota, rows) \cup {{}} :
          NavStep(k, from, [c EXCEPT !.pc = p, !.hits = c.hits \cup found])
    BY <1>e DEF Channel
  <2>2. c.hits \cup found \in SUBSET Nodes
    BY <1>a, UpToIn
  <2> QED BY <1>a, <1>c, <1>d, <1>e, <2>1, <2>2, CallChanges DEF Channel
<1>1. CASE Navigate(k)
  <2>1. PICK map \in file_cluster_map :
          NavStep(k, "idle", [Idle EXCEPT !.pc = "clusters", !.map = map])
    BY <1>1 DEF Navigate
  <2>2. map \in Maps
    BY DEF file_cluster_map, Unclustered, Maps, Homes, Nodes
  <2>3. Fine([Idle EXCEPT !.pc = "clusters", !.map = map])
    BY <1>p, <2>2, IdleFine
  <2> QED BY <1>1, <1>c, <1>d, <2>1, <2>3 DEF Navigate
<1>2. CASE ReadClusters(k)
  <2>1. PICK found \in UpTo(Quota, Matching(ClusterNodes)) \cup {{}} :
          NavStep(k, "clusters", [c EXCEPT !.pc = "files", !.seen = {Candidate(c.map, n) : n \in found}])
    BY <1>2 DEF ReadClusters
  <2>2. found \in SUBSET Nodes
    BY <1>b, UpToIn DEF Matching
  <2>3. Fine([c EXCEPT !.pc = "files", !.seen = {Candidate(c.map, n) : n \in found}])
    BY <1>p, <1>a, <2>2, CandidatesFine, CallSees
  <2> QED BY <1>2, <1>c, <1>d, <2>1, <2>3 DEF ReadClusters
<1>3. CASE ReadFiles(k)
  <2>1. PICK found \in UpTo(Quota, Matching(FileNodes)) \cup {{}} :
          NavStep(k, "files", [c EXCEPT !.pc = "exact",
                                        !.seen = c.seen \cup {Candidate(c.map, n) : n \in found}])
    BY <1>3 DEF ReadFiles
  <2>2. found \in SUBSET Nodes
    BY <1>b, UpToIn DEF Matching
  <2>3. Fine([c EXCEPT !.pc = "exact", !.seen = c.seen \cup {Candidate(c.map, n) : n \in found}])
    BY <1>p, <1>a, <2>2, CandidatesFine, CallSees
  <2> QED BY <1>3, <1>c, <1>d, <2>1, <2>3 DEF ReadFiles
<1>4. \A channel \in {"exact", "prefix", "fuzzy"} : NameRows(channel) \in SUBSET Nodes
  BY <1>b, RetrievalAssumption DEF NameRows
<1>5. CASE search_exact(k)
  BY <1>p, <1>4, <1>5, <1>e DEF search_exact
<1>6. CASE search_like(k)
  BY <1>p, <1>4, <1>6, <1>e DEF search_like
<1>7. CASE search_fuzzy(k)
  BY <1>p, <1>4, <1>7, <1>e DEF search_fuzzy
<1>8. CASE search_fts(k)
  <2>0. PICK found \in UpTo(Quota, FtsRows) \cup {{}} :
          \E kept \in UpTo(Quota, c.hits \cup found) :
            NavStep(k, "bm25", [c EXCEPT !.pc = IF kept = {} THEN "fuzzy" ELSE "docs",
                                         !.hits = kept])
    BY <1>8 DEF search_fts, merge_candidates
  <2>1. PICK kept \in UpTo(Quota, c.hits \cup found) :
          NavStep(k, "bm25", [c EXCEPT !.pc = IF kept = {} THEN "fuzzy" ELSE "docs",
                                       !.hits = kept])
    BY <2>0
  <2>2. found \in SUBSET Nodes
    BY <1>b, UpToIn DEF FtsRows, Matching
  <2>3. kept \in SUBSET Nodes
    BY <1>a, <2>2, UpToIn
  <2>4. (IF kept = {} THEN "fuzzy" ELSE "docs") \in Places
    BY DEF Places
  <2>5. Fine([c EXCEPT !.pc = IF kept = {} THEN "fuzzy" ELSE "docs", !.hits = kept])
    BY <1>a, <2>3, <2>4, CallChanges
  <2> QED BY <1>8, <1>c, <1>d, <2>1, <2>5 DEF search_fts
<1>9. CASE \E s \in SymbolNodes : ReadSymbolDoc(k, s)
  <2>1. PICK s \in SymbolNodes : ReadSymbolDoc(k, s)
    BY <1>9
  <2>2. NavStep(k, "docs", [c EXCEPT !.hits = c.hits \ {s}, !.seen = c.seen \cup {Candidate(c.map, s)}])
    BY <2>1 DEF ReadSymbolDoc
  <2>3. {Candidate(c.map, s)} = {Candidate(c.map, n) : n \in {s}} /\ {s} \in SUBSET Nodes
    BY <1>b
  <2>4. /\ {Candidate(c.map, s)} \in SUBSET Candidates
        /\ \A x \in {Candidate(c.map, s)} : x.short = x.hash.short
    BY <1>a, <2>3, CandidatesFine
  <2>5. c.hits \ {s} \in SUBSET Nodes
    BY <1>a
  <2>6. Fine([c EXCEPT !.hits = c.hits \ {s}, !.seen = c.seen \cup {Candidate(c.map, s)}])
    BY <1>p, <1>a, <2>4, <2>5, CallSees
  <2> QED BY <1>c, <1>d, <2>1, <2>2, <2>6 DEF ReadSymbolDoc
<1>10. CASE EndCandidates(k)
  <2>1. (IF c.seen = {} THEN "corpus" ELSE "lookup") \in Places
    BY DEF Places
  <2>2. NavStep(k, "docs", [c EXCEPT !.pc = IF c.seen = {} THEN "corpus" ELSE "lookup"])
    BY <1>10 DEF EndCandidates
  <2>3. Fine([c EXCEPT !.pc = IF c.seen = {} THEN "corpus" ELSE "lookup"])
    BY <1>a, <2>1, CallChanges
  <2> QED BY <1>10, <1>c, <1>d, <2>2, <2>3 DEF EndCandidates
<1>11. CASE ReadCorpus(k)
  <2> DEFINE corpus == {d \in ClusterNodes : members[d] # {}}
             current(d) == select_current_summary(versions[d])
             shown(d) == IF current(d) = 0 THEN Absent ELSE versions[d][current(d)].text
             texts == {<<d, shown(d)>> : d \in corpus}
             to == IF corpus = {} \/ ~llm_enabled THEN Done
                   ELSE [c EXCEPT !.pc = "hashes", !.short = texts]
  <2>1. NavStep(k, "corpus", to)
    BY <1>11 DEF ReadCorpus
  <2>2. ASSUME NEW d \in ClusterNodes
        PROVE  shown(d) \in Shorts /\ d \in Nodes
    <3>1. d \in Nodes
      BY <1>b
    <3>2. current(d) # 0 => Visible(versions[d], current(d))
      BY <3>1, SelectIsVisible DEF TablesInv, Kept
    <3>3. current(d) # 0 => versions[d][current(d)].text \in Shorts
      BY <3>1, <3>2, VersionText DEF Shorts
    <3> QED BY <3>1, <3>3 DEF Shorts
  <2> HIDE DEF shown
  <2>3. texts \in SUBSET (Nodes \X Shorts)
    BY <2>2
  <2> HIDE DEF texts
  <2>4. Fine([c EXCEPT !.pc = "hashes", !.short = texts])
    BY <1>p, <1>a, <2>3, CallChanges
  <2>5. Fine(to)
    BY <2>4, IdleFine
  <2> HIDE DEF to
  <2> QED BY <1>11, <1>c, <1>d, <2>1, <2>5 DEF ReadCorpus
<1>12. CASE ReadHashes(k)
  <2> DEFINE rows == {[node |-> p[1], cluster |-> p[1], short |-> p[2], hash |-> docs[p[1]]] :
                       p \in c.short}
             to == [c EXCEPT !.pc = "lookup", !.source = "llm-cluster-only", !.seen = rows]
  <2>1. NavStep(k, "hashes", to)
    BY <1>12 DEF ReadHashes
  <2>2. rows \in SUBSET Candidates
    <3>1. \A p \in c.short : p \in Nodes \X Shorts
      BY <1>a
    <3>2. Nodes \subseteq Homes /\ \A n \in Nodes : docs[n] \in Docs
      BY DocsTyped DEF Homes
    <3> QED BY <3>1, <3>2 DEF Candidates
  <2> HIDE DEF rows
  <2>3. to \in Call /\ to.source = "llm-cluster-only"
    BY <1>p, <1>a, <2>2 DEF Fine, Call
  <2> HIDE DEF to
  <2>4. Fine(to)
    BY <2>3 DEF Fine, Sincere
  <2> QED BY <1>12, <1>c, <1>d, <2>1, <2>4 DEF ReadHashes
<1>13. CASE Lookup(k)
  <2> DEFINE hit == \E e \in cache : e.key = CacheKey(c.seen)
             to == IF hit THEN [c EXCEPT !.pc = "cached"]
                   ELSE IF llm_enabled THEN [c EXCEPT !.pc = "asking"] ELSE Done
  <2>1. NavStep(k, "lookup", to)
    BY <1>13 DEF Lookup
  <2> HIDE DEF hit
  <2>2. Fine([c EXCEPT !.pc = "cached"]) /\ Fine([c EXCEPT !.pc = "asking"]) /\ Fine(Done)
    BY <1>p, <1>a, CallChanges, IdleFine
  <2>3. Fine(to)
    BY <2>2
  <2> HIDE DEF to
  <2> QED BY <1>13, <1>c, <1>d, <2>1, <2>3 DEF Lookup
<1>14. CASE AnswerFromCache(k)
  BY <1>14, <1>c, <1>d, IdleFine DEF AnswerFromCache
<1>15. CASE Retry(k)
  <2>1. NavStep(k, "asking", [c EXCEPT !.tries = c.tries + 1])
    BY <1>15 DEF Retry
  <2>2. "asking" \in Places
    BY DEF Places
  <2>3. Fine([c EXCEPT !.tries = c.tries + 1])
    BY <1>a, <2>2, CallChanges
  <2> QED BY <1>15, <1>c, <1>d, <2>1, <2>3 DEF Retry
<1>16. CASE NoRanking(k)
  BY <1>16, <1>c, <1>d, IdleFine DEF NoRanking
<1>17. CASE StoreRanking(k)
  <2> DEFINE new == [key |-> CacheKey(c.seen), of |-> Shown(c.seen), source |-> c.source]
  <2>1. NavStep(k, "asking", Done) /\ UNCHANGED tables
    BY <1>17 DEF StoreRanking
  <2>2. \A e \in cache' : e \in cache \/ e = new
    BY <1>17 DEF StoreRanking
  <2>3. c.source = "llm" => TextsOf(Shown(c.seen)) = ShownOf(CacheKey(c.seen))
    BY <1>a, ShownOfKey
  <2>4. new.key = CacheKey(c.seen) /\ new.of = Shown(c.seen) /\ new.source = c.source
    OBVIOUS
  <2> HIDE DEF new
  <2>5. CacheInv'
    BY <2>2, <2>3, <2>4 DEF CacheInv
  <2> QED BY <1>c, <2>1, <2>5, IdleFine
<1> QED BY <1>0, <1>1, <1>2, <1>3, <1>5, <1>6, <1>7, <1>8, <1>9, <1>10, <1>11, <1>12, <1>13,
           <1>14, <1>15, <1>16, <1>17

LEMMA FactsStep ==
  ASSUME TablesInv, NavInv, CacheInv, FactsNext
  PROVE  NavInv' /\ CacheInv' /\ UNCHANGED tables
<1>0. PICK k \in Callers :
        \/ query_symbol(k) \/ query_cluster_summary(k) \/ query_file_summary(k) \/ ReadOutline(k)
        \/ \E n \in Nodes : ShowSummary(k, n)
  BY DEF FactsNext
<1> DEFINE c == nav[k]
<1>p. {"outline", "facts", "done"} \subseteq Places
  BY DEF Places
<1>a. /\ Fine(c) /\ c.hits \in SUBSET Nodes /\ c.short \in SUBSET (Nodes \X Shorts) /\ c \in Call
  BY DEF NavInv, Fine, Call
<1>b. SymbolNodes \subseteq Nodes /\ FileNodes \subseteq Nodes /\ ClusterNodes \subseteq Nodes
  BY DEF Nodes
<1>c. ASSUME NEW from, NEW to, NavStep(k, from, to), Fine(to)
      PROVE  NavInv'
  BY <1>c, NavMoves
<1>d. UNCHANGED cache => CacheInv'
  BY DEF CacheInv
<1>e. ASSUME NEW from, NEW rows \in SUBSET Nodes, ReadRows(k, from, rows)
      PROVE  NavInv' /\ CacheInv' /\ UNCHANGED tables
  <2>1. PICK found \in UpTo(Quota, rows) \cup {{}} :
          NavStep(k, from,
                  IF found = {} THEN Done ELSE [Idle EXCEPT !.pc = "facts", !.hits = found])
    BY <1>e DEF ReadRows
  <2>2. found \in SUBSET Nodes
    BY UpToIn
  <2>3. Fine(IF found = {} THEN Done ELSE [Idle EXCEPT !.pc = "facts", !.hits = found])
    BY <1>p, <2>2, IdleFine
  <2> QED BY <1>c, <1>d, <1>e, <2>1, <2>3 DEF ReadRows
<1>1. CASE query_symbol(k)
  <2>1. PICK s \in SymbolNodes : ReadRows(k, "idle", resolve_symbol(s))
    BY <1>1 DEF query_symbol
  <2>2. resolve_symbol(s) \in SUBSET Nodes
    BY <1>b DEF resolve_symbol
  <2> QED BY <1>e, <2>1, <2>2
<1>2. CASE query_cluster_summary(k)
  <2>1. PICK named \in SUBSET ClusterNodes :
          ReadRows(k, "idle", {d \in named : members[d] # {}})
    BY <1>2 DEF query_cluster_summary
  <2>2. {d \in named : members[d] # {}} \in SUBSET Nodes
    BY <1>b
  <2> QED BY <1>e, <2>1, <2>2
<1>3. CASE query_file_summary(k)
  <2>1. PICK f \in FileNodes :
          NavStep(k, "idle",
                  IF f \in files THEN [Idle EXCEPT !.pc = "outline", !.hits = {f}] ELSE Done)
    BY <1>3 DEF query_file_summary
  <2>2. {f} \in SUBSET Nodes
    BY <1>b
  <2>3. Fine(IF f \in files THEN [Idle EXCEPT !.pc = "outline", !.hits = {f}] ELSE Done)
    BY <1>p, <2>2, IdleFine
  <2> QED BY <1>3, <1>c, <1>d, <2>1, <2>3 DEF query_file_summary
<1>4. CASE ReadOutline(k)
  BY <1>4, <1>a, <1>e DEF ReadOutline
<1>5. CASE \E n \in Nodes : ShowSummary(k, n)
  <2>1. PICK n \in Nodes : ShowSummary(k, n)
    BY <1>5
  <2> DEFINE shown == {<<n, v.text>> : v \in get_latest_summary(n)}
             p == IF c.hits = {n} THEN "done" ELSE "facts"
             to == [c EXCEPT !.hits = c.hits \ {n}, !.short = c.short \cup shown, !.pc = p]
  <2>2. NavStep(k, "facts", to)
    BY <2>1 DEF ShowSummary
  <2>3. \A v \in get_latest_summary(n) : v.text \in Shorts
    BY LatestIsVisible, VersionText DEF Shorts
  <2>4. shown \in SUBSET (Nodes \X Shorts)
    BY <2>3
  <2>5. p \in Places
    BY <1>p
  <2> DEFINE T == SUBSET (Nodes \X Shorts)
             texts == c.short \cup shown
  <2>6. texts \in T
    BY <1>a, <2>4
  <2>7. Call = [pc : Places, map : Maps, seen : SUBSET Candidates, hits : SUBSET Nodes,
                short : T, source : {"llm", "llm-cluster-only"}, tries : Nat]
    BY DEF Call
  <2>8. to = [c EXCEPT !.hits = c.hits \ {n}, !.short = texts, !.pc = p]
    OBVIOUS
  <2>9. c.hits \ {n} \in SUBSET Nodes
    BY <1>a
  <2> HIDE DEF T, texts, p, to
  <2>10. to \in Call /\ to.seen = c.seen /\ to.source = c.source
    BY <1>a, <2>5, <2>6, <2>7, <2>8, <2>9
  <2>11. Fine(to)
    BY <1>a, <2>10 DEF Fine, Sincere
  <2> QED BY <1>c, <1>d, <2>1, <2>2, <2>11 DEF ShowSummary
<1> QED BY <1>0, <1>1, <1>2, <1>3, <1>4, <1>5

-----------------------------------------------------------------------------
RetrievalInv == TablesInv /\ NavInv /\ CacheInv

LEMMA RetrievalStart == Init => RetrievalInv
<1> SUFFICES ASSUME RetrievalInit PROVE RetrievalInv
  BY DEF Init
<1>1. TablesTyped
  BY DEF RetrievalInit, TablesTyped
<1>2. ASSUME NEW n \in Nodes
      PROVE  Kept(n, body, members, versions[n])
  <2>1. versions[n] = <<>>
    BY DEF RetrievalInit
  <2> QED BY <2>1, NoVersions DEF Kept, Describes
<1>3. ASSUME NEW n \in Nodes
      PROVE  refresh_node(n, body, files, members, versions[n]) = NoDoc
  <2>1. Fact(n, body, files, members) = Absent
    BY FactOf DEF RetrievalInit, Nodes
  <2> QED BY <2>1 DEF refresh_node
<1>4. Projected
  BY <1>3 DEF Projected, RetrievalInit
<1>5. NavInv
  BY IdleFine DEF RetrievalInit, NavInv, Fine
<1>6. CacheInv
  BY DEF RetrievalInit, CacheInv
<1> QED BY <1>1, <1>2, <1>4, <1>5, <1>6 DEF RetrievalInv, TablesInv

LEMMA WriterStep ==
  ASSUME TablesInv, WriterNext
  PROVE  TablesInv' /\ UNCHANGED <<cache, nav>>
<1>1. CASE \E f \in FileNodes : ScanFile(f)
  BY <1>1, ScanStep DEF ScanFile
<1>2. CASE \E f \in FileNodes : DeleteFile(f)
  BY <1>2, DeleteStep DEF DeleteFile
<1>3. CASE \E n \in Nodes, text \in Texts, status \in Statuses : Summarize(n, text, status)
  BY <1>3, SummarizeStep DEF Summarize
<1> QED BY <1>1, <1>2, <1>3 DEF WriterNext

LEMMA TablesSame ==
  ASSUME TablesInv, UNCHANGED tables
  PROVE  TablesInv'
<1>1. UNCHANGED <<body, files, members, versions, docs>>
  BY DEF tables
<1> QED BY <1>1 DEF TablesInv, TablesTyped, Projected

LEMMA RetrievalStep == RetrievalInv /\ [Next]_vars => RetrievalInv'
<1> SUFFICES ASSUME RetrievalInv, [Next]_vars PROVE RetrievalInv'
  OBVIOUS
<1>0. TablesInv /\ NavInv /\ CacheInv
  BY DEF RetrievalInv
<1>1. CASE UNCHANGED retrievalVars
  <2>1. UNCHANGED tables /\ UNCHANGED <<cache, nav>>
    BY <1>1 DEF retrievalVars, tables
  <2>2. NavInv' /\ CacheInv'
    BY <1>0, <2>1 DEF NavInv, CacheInv
  <2> QED BY <1>0, <2>1, <2>2, TablesSame DEF RetrievalInv
<1>2. CASE WriterNext
  <2>1. TablesInv' /\ UNCHANGED <<cache, nav>>
    BY <1>0, <1>2, WriterStep
  <2>2. NavInv' /\ CacheInv'
    BY <1>0, <2>1 DEF NavInv, CacheInv
  <2> QED BY <2>1, <2>2 DEF RetrievalInv
<1>3. CASE NavigateNext
  BY <1>0, <1>3, NavigateStep, TablesSame DEF RetrievalInv
<1>4. CASE FactsNext
  BY <1>0, <1>4, FactsStep, TablesSame DEF RetrievalInv
<1>5. UNCHANGED retrievalVars \/ WriterNext \/ NavigateNext \/ FactsNext
  BY DEF Next, vars
<1> QED BY <1>1, <1>2, <1>3, <1>4, <1>5

(* The documents, the summaries and the rankings stay in step. *)
THEOREM RetrievalInvariant == Spec => []RetrievalInv
BY RetrievalStart, RetrievalStep, PTL DEF Spec

(***************************************************************************)
(* Whatever is scanned, deleted, rebuilt and summarised, in any order, the *)
(* documents a search reads are those of the facts, and the summary in     *)
(* them is the one the fact tools show.  Needs that of the versions that   *)
(* decide there is a newest (Decided): the two readings of projection.rs   *)
(* and common.rs then find the same one.                                   *)
(***************************************************************************)
THEOREM ProjectionCorrect == Spec => []ProjectionIsCurrent
<1>1. RetrievalInv => ProjectionIsCurrent
  <2> SUFFICES ASSUME TablesInv, NEW n \in Nodes
               PROVE  LET fact == Fact(n, body, files, members)
                      IN /\ docs[n].fact = fact
                         /\ fact # Absent =>
                              IF docs[n].short = Absent THEN get_latest_summary(n) = {}
                              ELSE \E v \in get_latest_summary(n) : v.text = docs[n].short
    BY DEF RetrievalInv, ProjectionIsCurrent
  <2> DEFINE fact == Fact(n, body, files, members)
             i == select_current_summary(versions[n])
  <2>1. docs[n] = IF fact = Absent THEN NoDoc
                  ELSE [fact |-> fact, short |-> IF i = 0 THEN Absent ELSE versions[n][i].text]
    BY DEF TablesInv, Projected, refresh_node
  <2>2. /\ \A j : Visible(versions[n], j) => i = j /\ j # 0
        /\ i # 0 => Visible(versions[n], i)
    BY SelectIsVisible DEF TablesInv, Kept
  <2>3. i = 0 => get_latest_summary(n) = {}
    BY <2>2, LatestIsVisible
  <2>4. i # 0 => versions[n][i] \in get_latest_summary(n) /\ versions[n][i].text # Absent
    BY <2>2, LatestIsVisible, VersionText
  <2> HIDE DEF fact, i
  <2>5. docs[n].fact = fact
    BY <2>1 DEF NoDoc
  <2>6. fact # Absent => docs[n].short = IF i = 0 THEN Absent ELSE versions[n][i].text
    BY <2>1
  <2>7. fact # Absent => IF docs[n].short = Absent THEN get_latest_summary(n) = {}
                         ELSE \E v \in get_latest_summary(n) : v.text = docs[n].short
    BY <2>3, <2>4, <2>6
  <2> QED BY <2>5, <2>7 DEF fact
<1> QED BY <1>1, RetrievalInvariant, PTL

(***************************************************************************)
(* No history of edits, removals and returns makes a tool show a summary   *)
(* of another body of the symbol, or of other members of the cluster.      *)
(***************************************************************************)
THEOREM SummaryCorrect == Spec => []SummaryIsOfThisCode
<1>1. RetrievalInv => SummaryIsOfThisCode
  <2> SUFFICES ASSUME TablesInv, NEW n \in SymbolNodes \cup ClusterNodes,
                      Fact(n, body, files, members) # Absent,
                      NEW v \in get_latest_summary(n)
               PROVE  v.of = WrittenFor(n)
    BY DEF RetrievalInv, SummaryIsOfThisCode
  <2>1. n \in Nodes
    BY DEF Nodes
  <2>2. PICK i : Visible(versions[n], i) /\ v = versions[n][i]
    BY <2>1, LatestIsVisible
  <2>3. Describes(n, body, members, versions[n])
    BY <2>1 DEF TablesInv, Kept
  <2>4. CASE n \in SymbolNodes
    <3>1. WrittenFor(n) = body[n]
      BY <2>4, KindsDiffer DEF WrittenFor
    <3>2. body[n] # Absent
      BY <2>4, FactOf
    <3> QED BY <2>2, <2>3, <2>4, <3>1, <3>2 DEF Describes
  <2>5. CASE n \in ClusterNodes
    <3>1. WrittenFor(n) = members[n]
      BY <2>5, KindsDiffer DEF WrittenFor
    <3>2. members[n] # {}
      BY <2>5, FactOf
    <3> QED BY <2>2, <2>3, <2>5, <3>1, <3>2 DEF Describes
  <2> QED BY <2>4, <2>5
<1> QED BY <1>1, RetrievalInvariant, PTL

(***************************************************************************)
(* However many calls and commits interleave, a ranking found under the    *)
(* key of what a call has read was made for the same candidates with the   *)
(* same texts; the clusters they were shown with may differ.               *)
(***************************************************************************)
THEOREM RankingCorrect == Spec => []CachedRankingSawSameTexts
<1>1. RetrievalInv => CachedRankingSawSameTexts
  <2> SUFFICES ASSUME NavInv, CacheInv, NEW k \in Callers, nav[k].source = "llm",
                      NEW e \in cache, e.key = CacheKey(nav[k].seen), e.source = "llm"
               PROVE  TextsOf(e.of) = TextsOf(Shown(nav[k].seen))
    BY DEF RetrievalInv, CachedRankingSawSameTexts
  <2>1. TextsOf(e.of) = ShownOf(CacheKey(nav[k].seen))
    BY DEF CacheInv
  <2>2. TextsOf(Shown(nav[k].seen)) = ShownOf(CacheKey(nav[k].seen))
    BY ShownOfKey DEF NavInv
  <2> QED BY <2>1, <2>2
<1> QED BY <1>1, RetrievalInvariant, PTL
=============================================================================
