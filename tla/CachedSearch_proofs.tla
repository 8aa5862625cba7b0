------------------------- MODULE CachedSearch_proofs -------------------------
(***************************************************************************)
(* The search of graph_optimize and the results in the cache it shares     *)
(* between the graphs it maps: for any operators and degrees, any graphs   *)
(* and problem trees, any machine, any costs and communication.            *)
(***************************************************************************)
EXTENDS CachedSearch, FiniteSetTheorems, WellFoundedInduction, TLAPS

-----------------------------------------------------------------------------
(***************************************************************************)
(* Recursion over problem trees.                                           *)
(***************************************************************************)
LEMMA Least ==
  ASSUME NEW S \in SUBSET Nat, S # {}
  PROVE  \E m \in S : \A k \in S : m <= k
<1>1. IsWellFoundedOn(OpToRel(<, Nat), Nat)
  BY NatLessThanWellFounded
<1>2. \E m \in S : \A k \in S : ~ (<<k, m>> \in OpToRel(<, Nat))
  BY <1>1, WFMin
<1>3. PICK m \in S : \A k \in S : ~ (<<k, m>> \in OpToRel(<, Nat))
  BY <1>2
<1>4. \A k \in S : ~ (k < m)
  BY <1>3, Zenon DEF OpToRel
<1> QED BY <1>4

\* What the assumption says of the sides of a tree, without its leaf paths.
LEMMA Sides ==
  ASSUME NEW t \in Trees
  PROVE  /\ IsLeaf(t) => t = [leaf |-> t.leaf] /\ t.leaf \in Kinds
         /\ Depth[t] \in Nat
         /\ ~IsLeaf(t) => /\ Left(t) \in Trees /\ Right(t) \in Trees
                          /\ Depth[Left(t)] \in Nat /\ Depth[Left(t)] < Depth[t]
                          /\ Depth[Right(t)] \in Nat /\ Depth[Right(t)] < Depth[t]
<1>1. IsProblemTree(t) /\ Depth \in [Trees -> Nat]
      /\ (IsLeaf(t) \/ (Depth[Left(t)] < Depth[t] /\ Depth[Right(t)] < Depth[t]))
  BY TreesAssumption DEF TreesAssumption
<1>2. CASE t \in [leaf : Kinds]
  BY <1>1, <1>2 DEF IsLeaf
<1>3. CASE t \in [parallel : Trees \X Trees]
  <2>1. Left(t) \in Trees /\ Right(t) \in Trees /\ ~IsLeaf(t)
    BY <1>3 DEF Left, Right, IsSeriesSplit, IsLeaf
  <2> QED BY <1>1, <2>1
<1>4. CASE t \in [series : Trees \X Trees,
                  moves : SUBSET [src : LeafPaths(t.series[1]), dst : LeafPaths(t.series[2])]]
  <2> DEFINE M == SUBSET [src : LeafPaths(t.series[1]), dst : LeafPaths(t.series[2])]
  <2>0. t \in [series : Trees \X Trees, moves : M]
    BY <1>4
  <2> HIDE DEF M
  <2>1. Left(t) \in Trees /\ Right(t) \in Trees /\ ~IsLeaf(t)
    BY <2>0 DEF Left, Right, IsSeriesSplit, IsLeaf
  <2> QED BY <1>1, <2>1
<1> QED BY <1>1, <1>2, <1>3, <1>4 DEF IsProblemTree

LEMMA Shallowest ==
  ASSUME NEW S \in SUBSET Trees, S # {}
  PROVE  \E t \in S : \A u \in S : Depth[t] <= Depth[u]
<1> DEFINE D == {Depth[t] : t \in S}
<1>1. D \in SUBSET Nat /\ D # {}
  BY Sides
<1>2. \E d \in D : \A k \in D : d <= k
  <2> HIDE DEF D
  <2> QED BY <1>1, Least
<1> QED BY <1>2

\* Values for the trees up to some depth.
IsUpTo(f, n, base, step) ==
  /\ DOMAIN f = {t \in Trees : Depth[t] < n}
  /\ \A t \in DOMAIN f :
       f[t] = IF IsLeaf(t) THEN base[t] ELSE step[t][<<f[Left(t)], f[Right(t)]>>]

LEMMA UpToAgree ==
  ASSUME NEW n \in Nat, NEW m \in Nat, n <= m, NEW base, NEW step, NEW f, NEW g,
         IsUpTo(f, n, base, step), IsUpTo(g, m, base, step)
  PROVE  \A t \in DOMAIN f : t \in DOMAIN g /\ f[t] = g[t]
<1> DEFINE Bad == {t \in DOMAIN f : f[t] # g[t]}
<1>1. \A t \in DOMAIN f : t \in DOMAIN g /\ t \in Trees
  BY Sides DEF IsUpTo
<1> SUFFICES ASSUME Bad # {} PROVE FALSE
  BY <1>1
<1>4. PICK t \in Bad : \A u \in Bad : Depth[t] <= Depth[u]
  <2>1. Bad \in SUBSET Trees /\ Bad # {}
    BY <1>1
  <2> HIDE DEF Bad
  <2> QED BY <2>1, Shallowest
<1>5. t \in Trees /\ t \in DOMAIN f /\ t \in DOMAIN g /\ Depth[t] < n /\ f[t] # g[t]
  BY <1>1 DEF IsUpTo
<1>6. CASE IsLeaf(t)
  BY <1>5, <1>6 DEF IsUpTo
<1>7. CASE ~IsLeaf(t)
  <2>1. Left(t) \in DOMAIN f /\ Right(t) \in DOMAIN f
    BY <1>5, <1>7, Sides DEF IsUpTo
  <2>2. f[Left(t)] = g[Left(t)] /\ f[Right(t)] = g[Right(t)]
    BY <1>4, <1>5, <1>7, <2>1, Sides
  <2> QED BY <1>5, <1>7, <2>2 DEF IsUpTo
<1> QED BY <1>6, <1>7

LEMMA UpToExists ==
  ASSUME NEW base, NEW step, NEW n \in Nat
  PROVE  \E f : IsUpTo(f, n, base, step)
<1> DEFINE Bad == {m \in Nat : ~ \E f : IsUpTo(f, m, base, step)}
<1> SUFFICES ASSUME Bad # {} PROVE FALSE
  OBVIOUS
<1>1. PICK m \in Bad : \A k \in Bad : m <= k
  <2>1. Bad \in SUBSET Nat
    OBVIOUS
  <2> HIDE DEF Bad
  <2> QED BY <2>1, Least
<1>2. m # 0
  <2>1. {t \in Trees : Depth[t] < 0} = {}
    BY Sides
  <2>2. IsUpTo([t \in {} |-> t], 0, base, step)
    BY <2>1 DEF IsUpTo
  <2> QED BY <2>2
<1>3. m \in Nat /\ m - 1 \in Nat /\ \E f : IsUpTo(f, m - 1, base, step)
  BY <1>1, <1>2
<1>4. PICK f : IsUpTo(f, m - 1, base, step)
  BY <1>3
<1> DEFINE D == {t \in Trees : Depth[t] < m}
           g == [t \in D |-> IF t \in DOMAIN f THEN f[t]
                             ELSE IF IsLeaf(t) THEN base[t] ELSE step[t][<<f[Left(t)], f[Right(t)]>>]]
<1>5. ASSUME NEW t \in D
      PROVE  g[t] = IF IsLeaf(t) THEN base[t] ELSE step[t][<<g[Left(t)], g[Right(t)]>>]
  <2>0. t \in Trees /\ Depth[t] < m /\ Depth[t] \in Nat
    BY Sides
  <2>1. CASE IsLeaf(t)
    BY <1>4, <2>1 DEF IsUpTo
  <2>2. CASE ~IsLeaf(t)
    <3>1. Left(t) \in DOMAIN f /\ Right(t) \in DOMAIN f /\ Left(t) \in D /\ Right(t) \in D
      BY <1>3, <1>4, <2>0, <2>2, Sides DEF IsUpTo
    <3>2. g[Left(t)] = f[Left(t)] /\ g[Right(t)] = f[Right(t)]
      BY <3>1
    <3>3. g[t] = step[t][<<f[Left(t)], f[Right(t)]>>]
      BY <1>4, <2>2 DEF IsUpTo
    <3> QED BY <2>2, <3>2, <3>3
  <2> QED BY <2>1, <2>2
<1>6. IsUpTo(g, m, base, step)
  <2>1. DOMAIN g = D
    OBVIOUS
  <2> HIDE DEF g
  <2> QED BY <1>5, <2>1 DEF IsUpTo
<1> QED BY <1>6, <1>1

IsOnTrees(f) == f = [t \in Trees |-> f[t]]
IsRecursion(f, base, step) ==
  /\ IsOnTrees(f)
  /\ \A t \in Trees : IsLeaf(t) => f[t] = base[t]
  /\ \A t \in Trees : ~IsLeaf(t) => f[t] = step[t][<<f[Left(t)], f[Right(t)]>>]

LEMMA RecursionExists ==
  ASSUME NEW base, NEW step
  PROVE  \E f : IsRecursion(f, base, step)
<1> DEFINE g(n) == CHOOSE f : IsUpTo(f, n, base, step)
           h == [t \in Trees |-> g(Depth[t] + 1)[t]]
<1>1. ASSUME NEW n \in Nat PROVE IsUpTo(g(n), n, base, step)
  BY UpToExists
<1> HIDE DEF g
<1>2. ASSUME NEW t \in Trees
      PROVE  h[t] = IF IsLeaf(t) THEN base[t] ELSE step[t][<<h[Left(t)], h[Right(t)]>>]
  <2> DEFINE d == Depth[t]
  <2>1. d \in Nat /\ d + 1 \in Nat /\ h[t] = g(d + 1)[t]
    BY Sides
  <2>2. IsUpTo(g(d + 1), d + 1, base, step) /\ t \in DOMAIN g(d + 1)
    <3>1. IsUpTo(g(d + 1), d + 1, base, step)
      BY <1>1, <2>1
    <3>2. DOMAIN g(d + 1) = {u \in Trees : Depth[u] < d + 1}
      BY ONLY <3>1 DEF IsUpTo
    <3>3. Depth[t] < d + 1
      BY <2>1
    <3> QED BY <3>1, <3>2, <3>3
  <2>3. CASE IsLeaf(t)
    BY <2>1, <2>2, <2>3 DEF IsUpTo
  <2>4. CASE ~IsLeaf(t)
    <3>1. ASSUME NEW u \in Trees, Depth[u] \in Nat, Depth[u] < d
          PROVE  h[u] = g(d + 1)[u]
      <4>1. Depth[u] + 1 \in Nat /\ Depth[u] + 1 <= d + 1 /\ h[u] = g(Depth[u] + 1)[u]
        BY <2>1, <3>1
      <4>2. IsUpTo(g(Depth[u] + 1), Depth[u] + 1, base, step)
        BY <1>1, <4>1
      <4>3. u \in DOMAIN g(Depth[u] + 1)
        BY <3>1, <4>1, <4>2 DEF IsUpTo
      <4> QED BY <2>1, <2>2, <4>1, <4>2, <4>3, UpToAgree
    <3>2. h[Left(t)] = g(d + 1)[Left(t)] /\ h[Right(t)] = g(d + 1)[Right(t)]
      BY <2>4, <3>1, Sides
    <3>3. g(d + 1)[t] = step[t][<<g(d + 1)[Left(t)], g(d + 1)[Right(t)]>>]
      BY <2>2, <2>4 DEF IsUpTo
    <3> QED BY <2>1, <2>4, <3>2, <3>3
  <2> QED BY <2>3, <2>4
<1>3. IsOnTrees(h)
  BY DEF IsOnTrees
<1> HIDE DEF h
<1>4. IsRecursion(h, base, step)
  BY <1>2, <1>3 DEF IsRecursion
<1> QED BY <1>4

\* A definition by recursion over the sides of a tree is that of a function, whose
\* values have the types T that its steps respect.
LEMMA Recursion ==
  ASSUME NEW T, NEW base, NEW step,
         \A t \in Trees : IsLeaf(t) => base[t] \in T[t],
         \A t \in Trees : ~IsLeaf(t) => step[t] \in [T[Left(t)] \X T[Right(t)] -> T[t]]
  PROVE  \E f : IsRecursion(f, base, step) /\ \A t \in Trees : f[t] \in T[t]
<1>1. PICK f : IsRecursion(f, base, step)
  BY RecursionExists
<1> DEFINE Bad == {t \in Trees : f[t] \notin T[t]}
<1>3. Bad = {}
  <2> SUFFICES ASSUME Bad # {} PROVE FALSE
    OBVIOUS
  <2>1. PICK t \in Bad : \A u \in Bad : Depth[t] <= Depth[u]
    <3>1. Bad \in SUBSET Trees /\ Bad # {}
      OBVIOUS
    <3> HIDE DEF Bad
    <3> QED BY <3>1, Shallowest
  <2>2. CASE IsLeaf(t)
    BY <1>1, <2>2 DEF IsRecursion
  <2>3. CASE ~IsLeaf(t)
    <3>1. f[Left(t)] \in T[Left(t)] /\ f[Right(t)] \in T[Right(t)]
      BY <2>1, <2>3, Sides
    <3>2. step[t] \in [T[Left(t)] \X T[Right(t)] -> T[t]]
      BY <2>3
    <3>3. step[t][<<f[Left(t)], f[Right(t)]>>] \in T[t]
      BY <3>1, <3>2
    <3>4. f[t] = step[t][<<f[Left(t)], f[Right(t)]>>]
      BY <1>1, <2>3 DEF IsRecursion
    <3> QED BY <3>3, <3>4
  <2> QED BY <2>2, <2>3
<1> QED BY <1>1, <1>3

(***************************************************************************)
(* Paths and functions on them.                                            *)
(***************************************************************************)
SideNames == {"l", "r"}

LEMMA PathFacts ==
  /\ <<>> \in Paths
  /\ \A s \in SideNames, p \in Paths :
       Under(s, p) \in Paths /\ Head(Under(s, p)) = s /\ Tail(Under(s, p)) = p /\ Under(s, p) # <<>>
BY DEF Paths, Under, SideNames

LEMMA BeneathFacts ==
  ASSUME NEW s \in SideNames, NEW A \in SUBSET Paths
  PROVE  /\ Beneath(s, A) \in SUBSET Paths
         /\ \A p \in Paths : Under(s, p) \in Beneath(s, A) <=> p \in A
         /\ \A q \in Beneath(s, A) : Head(q) = s /\ Tail(q) \in A /\ q = Under(s, Tail(q))
         /\ <<>> \notin Beneath(s, A)
<1>1. \A p \in A : Under(s, p) \in Paths /\ Head(Under(s, p)) = s /\ Tail(Under(s, p)) = p
                   /\ Under(s, p) # <<>>
  BY PathFacts
<1>2. \A q \in Beneath(s, A) : \E p \in A : q = Under(s, p)
  BY DEF Beneath
<1>3. \A p \in A : Under(s, p) \in Beneath(s, A)
  BY DEF Beneath
<1>4. ASSUME NEW p \in Paths, Under(s, p) \in Beneath(s, A)
      PROVE  p \in A
  <2>1. PICK q \in A : Under(s, p) = Under(s, q)
    BY <1>2, <1>4
  <2> QED BY <2>1, PathFacts
<1> QED BY <1>1, <1>2, <1>3, <1>4

PathsBeneath(A, B) == Beneath("l", A) \cup Beneath("r", B)

LEMMA PathsBeneathFacts ==
  ASSUME NEW A \in SUBSET Paths, NEW B \in SUBSET Paths
  PROVE  /\ PathsBeneath(A, B) \in SUBSET Paths
         /\ <<>> \notin PathsBeneath(A, B)
         /\ \A p \in Paths : Under("l", p) \in PathsBeneath(A, B) <=> p \in A
         /\ \A p \in Paths : Under("r", p) \in PathsBeneath(A, B) <=> p \in B
         /\ \A q \in PathsBeneath(A, B) :
              \/ Head(q) = "l" /\ Tail(q) \in A /\ q = Under("l", Tail(q))
              \/ Head(q) = "r" /\ Tail(q) \in B /\ q = Under("r", Tail(q))
<1>1. \A p \in Paths : Under("l", p) \notin Beneath("r", B) /\ Under("r", p) \notin Beneath("l", A)
  <2>1. \A q \in Beneath("r", B) : Head(q) = "r"
    BY BeneathFacts DEF SideNames
  <2>2. \A q \in Beneath("l", A) : Head(q) = "l"
    BY BeneathFacts DEF SideNames
  <2> QED BY <2>1, <2>2, PathFacts DEF SideNames
<1>2. \A p \in Paths : Under("l", p) \in Beneath("l", A) <=> p \in A
  BY BeneathFacts DEF SideNames
<1>3. \A p \in Paths : Under("r", p) \in Beneath("r", B) <=> p \in B
  BY BeneathFacts DEF SideNames
<1>4. \A q \in Beneath("l", A) : Head(q) = "l" /\ Tail(q) \in A /\ q = Under("l", Tail(q))
  BY BeneathFacts DEF SideNames
<1>5. \A q \in Beneath("r", B) : Head(q) = "r" /\ Tail(q) \in B /\ q = Under("r", Tail(q))
  BY BeneathFacts DEF SideNames
<1>6. PathsBeneath(A, B) \in SUBSET Paths /\ <<>> \notin PathsBeneath(A, B)
  BY BeneathFacts DEF PathsBeneath, SideNames
<1> QED BY <1>1, <1>2, <1>3, <1>4, <1>5, <1>6 DEF PathsBeneath

\* A function on some of the paths.
IsMapping(f) == DOMAIN f \in SUBSET Paths /\ f = [p \in DOMAIN f |-> f[p]]

LEMMA Mapping ==
  ASSUME NEW A \in SUBSET Paths, NEW X, NEW f \in [A -> X]
  PROVE  IsMapping(f)
BY DEF IsMapping

LEMMA CombineFacts ==
  ASSUME NEW f, NEW g, IsMapping(f), IsMapping(g)
  PROVE  /\ IsMapping(CombineMappings(f, g))
         /\ DOMAIN CombineMappings(f, g) = PathsBeneath(DOMAIN f, DOMAIN g)
         /\ \A p \in DOMAIN f : CombineMappings(f, g)[Under("l", p)] = f[p]
         /\ \A p \in DOMAIN g : CombineMappings(f, g)[Under("r", p)] = g[p]
<1> DEFINE A == DOMAIN f
           B == DOMAIN g
           m == CombineMappings(f, g)
           D == PathsBeneath(A, B)
<1>0. A \in SUBSET Paths /\ B \in SUBSET Paths
  BY DEF IsMapping
<1>1. m = [p \in D |-> IF Head(p) = "l" THEN f[Tail(p)] ELSE g[Tail(p)]]
  BY DEF CombineMappings, PathsBeneath
<1> HIDE DEF A, B
<1>2. D \in SUBSET Paths
  BY <1>0, PathsBeneathFacts
<1>3. ASSUME NEW p \in A PROVE m[Under("l", p)] = f[p]
  <2>1. Under("l", p) \in D /\ Head(Under("l", p)) = "l" /\ Tail(Under("l", p)) = p
    BY <1>0, PathsBeneathFacts, PathFacts DEF SideNames
  <2> HIDE DEF m, D
  <2> QED BY <1>1, <2>1
<1>4. ASSUME NEW p \in B PROVE m[Under("r", p)] = g[p]
  <2>1. Under("r", p) \in D /\ Head(Under("r", p)) = "r" /\ Tail(Under("r", p)) = p
    BY <1>0, PathsBeneathFacts, PathFacts DEF SideNames
  <2> HIDE DEF m, D
  <2> QED BY <1>1, <2>1
<1>5. IsMapping(m) /\ DOMAIN m = D
  <2> HIDE DEF m, D
  <2> QED BY <1>1, <1>2 DEF IsMapping
<1> QED BY <1>3, <1>4, <1>5 DEF A, B

LEMMA CombineType ==
  ASSUME NEW f, NEW g, IsMapping(f), IsMapping(g), NEW X,
         \A p \in DOMAIN f : f[p] \in X, \A p \in DOMAIN g : g[p] \in X
  PROVE  \A p \in DOMAIN CombineMappings(f, g) : CombineMappings(f, g)[p] \in X
<1>1. ASSUME NEW q \in DOMAIN CombineMappings(f, g)
      PROVE  CombineMappings(f, g)[q] \in X
  <2>1. DOMAIN f \in SUBSET Paths /\ DOMAIN g \in SUBSET Paths
    BY DEF IsMapping
  <2>2. q \in PathsBeneath(DOMAIN f, DOMAIN g)
    BY CombineFacts
  <2>3. \/ Tail(q) \in DOMAIN f /\ q = Under("l", Tail(q))
        \/ Tail(q) \in DOMAIN g /\ q = Under("r", Tail(q))
    BY <2>1, <2>2, PathsBeneathFacts
  <2> QED BY <2>3, CombineFacts
<1> QED BY <1>1

LEMMA RestrictFacts ==
  ASSUME NEW A \in SUBSET Paths, NEW B \in SUBSET Paths,
         NEW m, DOMAIN m = PathsBeneath(A, B)
  PROVE  /\ DOMAIN RestrictToChild(m, "l") = A /\ DOMAIN RestrictToChild(m, "r") = B
         /\ \A p \in A : RestrictToChild(m, "l")[p] = m[Under("l", p)]
         /\ \A p \in B : RestrictToChild(m, "r")[p] = m[Under("r", p)]
         /\ IsMapping(RestrictToChild(m, "l")) /\ IsMapping(RestrictToChild(m, "r"))
<1> DEFINE D == PathsBeneath(A, B)
           L == {Tail(q) : q \in {x \in D : Head(x) = "l"}}
           R == {Tail(q) : q \in {x \in D : Head(x) = "r"}}
<1>1. \A q \in D : \/ Head(q) = "l" /\ Tail(q) \in A
                   \/ Head(q) = "r" /\ Tail(q) \in B
  BY PathsBeneathFacts
<1>2. /\ \A p \in A : Under("l", p) \in D /\ Head(Under("l", p)) = "l" /\ Tail(Under("l", p)) = p
      /\ \A p \in B : Under("r", p) \in D /\ Head(Under("r", p)) = "r" /\ Tail(Under("r", p)) = p
  BY PathsBeneathFacts, PathFacts DEF SideNames
<1> HIDE DEF D
<1>3. \A p \in A : p \in L
  BY <1>2
<1>4. \A p \in B : p \in R
  BY <1>2
<1>5. L \subseteq A /\ R \subseteq B
  BY <1>1
<1>6. L = A /\ R = B
  BY <1>3, <1>4, <1>5
<1>7. RestrictToChild(m, "l") = [p \in A |-> m[Under("l", p)]]
  <2>1. RestrictToChild(m, "l") = [p \in L |-> m[Under("l", p)]]
    BY DEF RestrictToChild, Inside, D
  <2> QED BY <1>6, <2>1
<1>8. RestrictToChild(m, "r") = [p \in B |-> m[Under("r", p)]]
  <2>1. RestrictToChild(m, "r") = [p \in R |-> m[Under("r", p)]]
    BY DEF RestrictToChild, Inside, D
  <2> QED BY <1>6, <2>1
<1>9. IsMapping(RestrictToChild(m, "l")) /\ IsMapping(RestrictToChild(m, "r"))
  BY <1>7, <1>8 DEF IsMapping
<1> QED BY <1>7, <1>8, <1>9

LEMMA SameMapping ==
  ASSUME NEW f, NEW g, IsMapping(f), IsMapping(g), DOMAIN f = DOMAIN g,
         \A p \in DOMAIN f : f[p] = g[p]
  PROVE  f = g
BY DEF IsMapping

LEMMA RestrictCombine ==
  ASSUME NEW f, NEW g, IsMapping(f), IsMapping(g)
  PROVE  /\ RestrictToChild(CombineMappings(f, g), "l") = f
         /\ RestrictToChild(CombineMappings(f, g), "r") = g
<1>1. DOMAIN f \in SUBSET Paths /\ DOMAIN g \in SUBSET Paths
  BY DEF IsMapping
<1>2. DOMAIN CombineMappings(f, g) = PathsBeneath(DOMAIN f, DOMAIN g)
  BY CombineFacts
<1>3. RestrictToChild(CombineMappings(f, g), "l") = f
  <2>1. /\ IsMapping(RestrictToChild(CombineMappings(f, g), "l"))
        /\ DOMAIN RestrictToChild(CombineMappings(f, g), "l") = DOMAIN f
        /\ \A p \in DOMAIN f : RestrictToChild(CombineMappings(f, g), "l")[p]
                                 = CombineMappings(f, g)[Under("l", p)]
    BY <1>1, <1>2, RestrictFacts
  <2>2. \A p \in DOMAIN f : RestrictToChild(CombineMappings(f, g), "l")[p] = f[p]
    BY <2>1, CombineFacts
  <2> QED BY <2>1, <2>2, SameMapping
<1>4. RestrictToChild(CombineMappings(f, g), "r") = g
  <2>1. /\ IsMapping(RestrictToChild(CombineMappings(f, g), "r"))
        /\ DOMAIN RestrictToChild(CombineMappings(f, g), "r") = DOMAIN g
        /\ \A p \in DOMAIN g : RestrictToChild(CombineMappings(f, g), "r")[p]
                                 = CombineMappings(f, g)[Under("r", p)]
    BY <1>1, <1>2, RestrictFacts
  <2>2. \A p \in DOMAIN g : RestrictToChild(CombineMappings(f, g), "r")[p] = g[p]
    BY <2>1, CombineFacts
  <2> QED BY <2>1, <2>2, SameMapping
<1> QED BY <1>3, <1>4

(***************************************************************************)
(* The layers of a tree.                                                   *)
(***************************************************************************)
SomeMappings(X) == UNION {[S -> X] : S \in SUBSET Paths}

LEMMA SomeMappingsFacts ==
  ASSUME NEW X, NEW f
  PROVE  f \in SomeMappings(X) <=> IsMapping(f) /\ \A p \in DOMAIN f : f[p] \in X
<1>1. ASSUME f \in SomeMappings(X)
      PROVE  IsMapping(f) /\ \A p \in DOMAIN f : f[p] \in X
  BY <1>1 DEF SomeMappings, IsMapping
<1>2. ASSUME IsMapping(f), \A p \in DOMAIN f : f[p] \in X
      PROVE  f \in SomeMappings(X)
  <2>1. DOMAIN f \in SUBSET Paths /\ f \in [DOMAIN f -> X]
    BY <1>2 DEF IsMapping
  <2> QED BY <2>1 DEF SomeMappings
<1> QED BY <1>1, <1>2

LEMMA KindsOfUnfolds ==
  /\ \A t \in Trees : KindsOf[t] \in SomeMappings(Kinds)
  /\ \A t \in Trees : IsLeaf(t) => KindsOf[t] = [p \in {<<>>} |-> t.leaf]
  /\ \A t \in Trees : ~IsLeaf(t) => KindsOf[t] = CombineMappings(KindsOf[Left(t)], KindsOf[Right(t)])
<1> DEFINE V == SomeMappings(Kinds)
           T == [t \in Trees |-> V]
           base == [t \in Trees |-> [p \in {<<>>} |-> t.leaf]]
           step == [t \in Trees |-> [ab \in V \X V |-> CombineMappings(ab[1], ab[2])]]
<1>1. \A t \in Trees : IsLeaf(t) => base[t] \in T[t]
  <2> SUFFICES ASSUME NEW t \in Trees, IsLeaf(t) PROVE [p \in {<<>>} |-> t.leaf] \in V
    OBVIOUS
  <2>1. [p \in {<<>>} |-> t.leaf] \in [{<<>>} -> Kinds] /\ {<<>>} \in SUBSET Paths
    BY Sides, PathFacts
  <2> QED BY <2>1 DEF SomeMappings
<1>2. \A t \in Trees : ~IsLeaf(t) => step[t] \in [T[Left(t)] \X T[Right(t)] -> T[t]]
  <2>1. ASSUME NEW ab \in V \X V PROVE CombineMappings(ab[1], ab[2]) \in V
    <3>1. /\ IsMapping(ab[1]) /\ \A p \in DOMAIN ab[1] : ab[1][p] \in Kinds
          /\ IsMapping(ab[2]) /\ \A p \in DOMAIN ab[2] : ab[2][p] \in Kinds
      BY SomeMappingsFacts
    <3>2. IsMapping(CombineMappings(ab[1], ab[2]))
      BY <3>1, CombineFacts
    <3>3. \A p \in DOMAIN CombineMappings(ab[1], ab[2]) : CombineMappings(ab[1], ab[2])[p] \in Kinds
      BY <3>1, CombineType
    <3> QED BY <3>2, <3>3, SomeMappingsFacts
  <2> HIDE DEF V
  <2> QED BY <2>1, Sides
<1>3. \A t \in Trees : base[t] = [p \in {<<>>} |-> t.leaf]
  OBVIOUS
<1>4. \A t \in Trees, a \in V, b \in V : step[t][<<a, b>>] = CombineMappings(a, b)
  <2> HIDE DEF V
  <2> QED OBVIOUS
<1>5. \A t \in Trees : T[t] = V
  OBVIOUS
<1> HIDE DEF T, base, step, V
<1>6. PICK f : IsRecursion(f, base, step) /\ \A t \in Trees : f[t] \in T[t]
  BY <1>1, <1>2, Recursion
<1>7. f = [t \in Trees |-> IF IsLeaf(t) THEN [p \in {<<>>} |-> t.leaf]
                           ELSE CombineMappings(f[Left(t)], f[Right(t)])]
  <2>1. ASSUME NEW t \in Trees
        PROVE  f[t] = IF IsLeaf(t) THEN [p \in {<<>>} |-> t.leaf]
                      ELSE CombineMappings(f[Left(t)], f[Right(t)])
    <3>1. CASE IsLeaf(t)
      BY <1>3, <1>6, <3>1 DEF IsRecursion
    <3>2. CASE ~IsLeaf(t)
      <4>1. f[t] = step[t][<<f[Left(t)], f[Right(t)]>>]
        BY <1>6, <3>2 DEF IsRecursion
      <4>2. f[Left(t)] \in V /\ f[Right(t)] \in V
        BY <1>5, <1>6, <3>2, Sides
      <4> QED BY <1>4, <3>2, <4>1, <4>2
    <3> QED BY <3>1, <3>2
  <2>2. f = [t \in Trees |-> f[t]]
    BY <1>6 DEF IsRecursion, IsOnTrees
  <2> QED BY <2>1, <2>2
<1> DEFINE P(g) == g = [t \in Trees |-> IF IsLeaf(t) THEN [p \in {<<>>} |-> t.leaf]
                           ELSE CombineMappings(g[Left(t)], g[Right(t)])]
<1>8. KindsOf = CHOOSE g : P(g)
  BY DEF KindsOf
<1>9. P(KindsOf)
  <2>1. P(f)
    BY <1>7
  <2> HIDE DEF P
  <2> QED BY <1>8, <2>1
<1>10. /\ \A t \in Trees : IsLeaf(t) => KindsOf[t] = [p \in {<<>>} |-> t.leaf]
       /\ \A t \in Trees : ~IsLeaf(t) => KindsOf[t] = CombineMappings(KindsOf[Left(t)], KindsOf[Right(t)])
  BY <1>9
<1> HIDE DEF P
<1>11. \A t \in Trees : KindsOf[t] \in V
  <2> DEFINE Bad == {t \in Trees : KindsOf[t] \notin V}
  <2> SUFFICES ASSUME Bad # {} PROVE FALSE
    OBVIOUS
  <2>1. PICK t \in Bad : \A u \in Bad : Depth[t] <= Depth[u]
    <3>1. Bad \in SUBSET Trees /\ Bad # {}
      OBVIOUS
    <3> HIDE DEF Bad
    <3> QED BY <3>1, Shallowest
  <2>2. CASE IsLeaf(t)
    BY <1>1, <1>3, <1>5, <1>10, <2>2
  <2>3. CASE ~IsLeaf(t)
    <3>1. KindsOf[Left(t)] \in V /\ KindsOf[Right(t)] \in V
      BY <2>1, <2>3, Sides
    <3>2. step[t] \in [V \X V -> V]
      BY <1>2, <1>5, <2>3, Sides
    <3>3. step[t][<<KindsOf[Left(t)], KindsOf[Right(t)]>>] \in V
      BY <3>1, <3>2
    <3>4. KindsOf[t] = step[t][<<KindsOf[Left(t)], KindsOf[Right(t)]>>]
      BY <1>4, <1>10, <2>3, <3>1
    <3> QED BY <3>3, <3>4
  <2> QED BY <2>2, <2>3
<1> QED BY <1>10, <1>11 DEF V

LEMMA LayerFacts ==
  ASSUME NEW t \in Trees
  PROVE  /\ LeafPaths(t) \in SUBSET Paths
         /\ IsMapping(KindsOf[t])
         /\ \A p \in LeafPaths(t) : KindAt(t, p) \in Kinds
         /\ IsLeaf(t) => /\ \A p : p \in LeafPaths(t) <=> p = <<>>
                         /\ KindAt(t, <<>>) = t.leaf
         /\ ~IsLeaf(t) => /\ LeafPaths(t) = PathsBeneath(LeafPaths(Left(t)), LeafPaths(Right(t)))
                          /\ \A p \in LeafPaths(Left(t)) : KindAt(t, Under("l", p)) = KindAt(Left(t), p)
                          /\ \A p \in LeafPaths(Right(t)) : KindAt(t, Under("r", p)) = KindAt(Right(t), p)
<1>1. KindsOf[t] \in SomeMappings(Kinds)
  BY KindsOfUnfolds
<1>2. IsMapping(KindsOf[t]) /\ \A p \in DOMAIN KindsOf[t] : KindsOf[t][p] \in Kinds
  BY <1>1, SomeMappingsFacts
<1>3. DOMAIN KindsOf[t] \in SUBSET Paths
  BY <1>2 DEF IsMapping
<1>4. CASE IsLeaf(t)
  <2>1. KindsOf[t] = [p \in {<<>>} |-> t.leaf]
    BY <1>4, KindsOfUnfolds
  <2>2. (\A p : p \in DOMAIN KindsOf[t] <=> p = <<>>) /\ KindsOf[t][<<>>] = t.leaf
    BY <2>1
  <2> QED BY <1>2, <1>3, <1>4, <2>2 DEF LeafPaths, KindAt
<1>5. CASE ~IsLeaf(t)
  <2>1. KindsOf[t] = CombineMappings(KindsOf[Left(t)], KindsOf[Right(t)])
    BY <1>5, KindsOfUnfolds
  <2>2. IsMapping(KindsOf[Left(t)]) /\ IsMapping(KindsOf[Right(t)])
    BY <1>5, Sides, KindsOfUnfolds, SomeMappingsFacts
  <2>3. DOMAIN KindsOf[t] = PathsBeneath(DOMAIN KindsOf[Left(t)], DOMAIN KindsOf[Right(t)])
    BY <2>1, <2>2, CombineFacts
  <2>4. /\ \A p \in DOMAIN KindsOf[Left(t)] : KindsOf[t][Under("l", p)] = KindsOf[Left(t)][p]
        /\ \A p \in DOMAIN KindsOf[Right(t)] : KindsOf[t][Under("r", p)] = KindsOf[Right(t)][p]
    BY <2>1, <2>2, CombineFacts
  <2> QED BY <1>2, <1>3, <1>5, <2>3, <2>4 DEF LeafPaths, KindAt
<1> QED BY <1>4, <1>5

LEMMA MovesFacts ==
  ASSUME NEW t \in Trees, ~IsLeaf(t)
  PROVE  /\ IsFiniteSet(Moves(t))
         /\ \A mv \in Moves(t) : mv.src \in LeafPaths(Left(t)) /\ mv.dst \in LeafPaths(Right(t))
         /\ ~IsSeriesSplit(t) => \A mv : mv \notin Moves(t)
<1>1. IsProblemTree(t)
  BY TreesAssumption DEF TreesAssumption
<1>2. CASE t \in [leaf : Kinds]
  BY <1>2 DEF IsLeaf
<1>3. CASE t \in [parallel : Trees \X Trees]
  <2>1. ~IsSeriesSplit(t)
    BY <1>3 DEF IsSeriesSplit
  <2> QED BY <2>1, FS_EmptySet DEF Moves
<1>4. CASE t \in [series : Trees \X Trees,
                  moves : SUBSET [src : LeafPaths(t.series[1]), dst : LeafPaths(t.series[2])]]
           /\ IsFiniteSet(t.moves)
  <2> DEFINE P == [src : LeafPaths(t.series[1]), dst : LeafPaths(t.series[2])]
             M == SUBSET P
  <2>0. t \in [series : Trees \X Trees, moves : M] /\ IsFiniteSet(t.moves)
    BY <1>4
  <2>1. IsSeriesSplit(t) /\ t.moves \in M
    <3> HIDE DEF M
    <3> QED BY <2>0 DEF IsSeriesSplit
  <2>2. Left(t) = t.series[1] /\ Right(t) = t.series[2] /\ Moves(t) = t.moves
    BY <2>1 DEF Left, Right, Moves
  <2> QED BY <2>0, <2>1, <2>2
<1> QED BY <1>1, <1>2, <1>3, <1>4 DEF IsProblemTree

(***************************************************************************)
(* Machine views.                                                          *)
(***************************************************************************)
LEMMA Product ==
  ASSUME NEW a \in Nat, NEW b \in Nat
  PROVE  a * b \in Nat
BY SMT

LEMMA ProductMonotone ==
  ASSUME NEW a \in Nat, NEW b \in Nat, NEW c \in Nat, a <= b
  PROVE  a * c <= b * c /\ c * a <= c * b
BY SMT

LEMMA DivMonotone ==
  ASSUME NEW a \in Nat, NEW b \in Nat, NEW d \in Nat \ {0}, a <= b
  PROVE  a \div d \in Nat /\ a \div d <= b \div d
<1> DEFINE p == a \div d
           q == b \div d
<1>1. p \in Int /\ q \in Int /\ d * p <= a /\ a < d * p + d /\ d * q <= b /\ b < d * q + d
  BY SMT
<1>2. p >= 0
  <2> SUFFICES ASSUME p < 0 PROVE FALSE
    BY <1>1
  <2> HIDE DEF p, q
  <2>1. d * p <= d * (-1)
    BY <1>1, SMT
  <2> QED BY <1>1, <2>1
<1>3. p <= q
  <2> SUFFICES ASSUME q + 1 <= p PROVE FALSE
    BY <1>1
  <2> HIDE DEF p, q
  <2>1. d * (q + 1) <= d * p
    BY <1>1, SMT
  <2>2. d * (q + 1) = d * q + d
    BY <1>1, SMT
  <2> QED BY <1>1, <2>1, <2>2
<1> QED BY <1>1, <1>2, <1>3

LEMMA LongerFacts ==
  ASSUME NEW a \in Int, NEW b \in Int
  PROVE  /\ Longer(a, b) \in Int /\ a <= Longer(a, b) /\ b <= Longer(a, b)
         /\ Longer(a, b) = a \/ Longer(a, b) = b
BY DEF Longer

LEMMA DegreeFacts ==
  ASSUME NEW kind \in Kinds
  PROVE  Degree[kind] \in Nat /\ Degree[kind] - 1 \in Nat
BY DegreesAssumption DEF DegreesAssumption

LEMMA ViewFacts ==
  ASSUME NEW mv \in Views
  PROVE  mv.node \in Nat /\ mv.gpu \in Nat /\ mv.dn \in Nat /\ mv.dg \in Nat
BY DEF Views

LEMMA SliceFacts ==
  ASSUME NEW s \in Slices
  PROVE  s.nodes \in Nat \ {0} /\ s.gpus \in Nat \ {0}
BY DEF Slices

\* The coordinate of shard k lies between that of the first and that of the last.
LEMMA Between ==
  ASSUME NEW mv \in Views, NEW k \in Nat, NEW last \in Nat, k <= last
  PROVE  /\ mv.node + k * mv.dn \in Nat /\ mv.gpu + k * mv.dg \in Nat
         /\ mv.node <= mv.node + k * mv.dn /\ mv.node + k * mv.dn <= mv.node + last * mv.dn
         /\ mv.gpu <= mv.gpu + k * mv.dg /\ mv.gpu + k * mv.dg <= mv.gpu + last * mv.dg
         /\ mv.node + last * mv.dn \in Nat /\ mv.gpu + last * mv.dg \in Nat
<1>1. mv.node \in Nat /\ mv.gpu \in Nat /\ mv.dn \in Nat /\ mv.dg \in Nat
  BY ViewFacts
<1>2. k * mv.dn \in Nat /\ last * mv.dn \in Nat /\ k * mv.dn <= last * mv.dn
  BY <1>1, Product, ProductMonotone
<1>3. k * mv.dg \in Nat /\ last * mv.dg \in Nat /\ k * mv.dg <= last * mv.dg
  BY <1>1, Product, ProductMonotone
<1> QED BY <1>1, <1>2, <1>3

LEMMA StridesGrow ==
  ASSUME NEW kind \in Kinds, NEW s \in Slices, NEW u \in Slices, s.nodes <= u.nodes, s.gpus <= u.gpus
  PROVE  Strides(kind, s) \subseteq Strides(kind, u)
<1>1. /\ s.nodes \in Nat /\ s.gpus \in Nat /\ u.nodes \in Nat /\ u.gpus \in Nat
      /\ Degree[kind] \in Nat /\ Degree[kind] - 1 \in Nat
  BY SliceFacts, DegreeFacts
<1>2. s.nodes * s.gpus \in Nat /\ u.nodes * u.gpus \in Nat /\ s.nodes * s.gpus <= u.nodes * u.gpus
  <2>1. s.nodes * s.gpus <= u.nodes * s.gpus
    BY <1>1, ProductMonotone
  <2>2. u.nodes * s.gpus <= u.nodes * u.gpus
    BY <1>1, ProductMonotone
  <2> QED BY <1>1, <2>1, <2>2, Product
<1> DEFINE d == Longer(Degree[kind] - 1, 1)
<1>3. d \in Nat \ {0}
  BY <1>1 DEF Longer
<1>4. StrideBound(kind, s) \in Nat /\ StrideBound(kind, u) \in Nat /\ StrideBound(kind, s) <= StrideBound(kind, u)
  <2>1. /\ StrideBound(kind, s) = (s.nodes * s.gpus + d - 1) \div d
        /\ StrideBound(kind, u) = (u.nodes * u.gpus + d - 1) \div d
    BY DEF StrideBound
  <2>2. \A a, b \in Nat : a <= b => a + d - 1 \in Nat /\ b + d - 1 \in Nat /\ a + d - 1 <= b + d - 1
    BY <1>3
  <2> HIDE DEF d
  <2>3. /\ s.nodes * s.gpus + d - 1 \in Nat /\ u.nodes * u.gpus + d - 1 \in Nat
        /\ s.nodes * s.gpus + d - 1 <= u.nodes * u.gpus + d - 1
    BY <1>2, <2>2
  <2>4. \A a, b \in Nat : a <= b => a \div d \in Nat /\ b \div d \in Nat /\ a \div d <= b \div d
    BY <1>3, DivMonotone
  <2> QED BY <2>1, <2>3, <2>4
<1> QED BY <1>4 DEF Strides

LEMMA AllowedFacts ==
  ASSUME NEW kind \in Kinds, NEW s \in Slices, NEW mv
  PROVE  mv \in AllowedViews(kind, s)
           <=> /\ mv \in Views /\ <<mv.dn, mv.dg>> \in Strides(kind, s)
               /\ mv.node < s.nodes /\ mv.gpu < s.gpus
               /\ mv.node + (Degree[kind] - 1) * mv.dn < s.nodes
               /\ mv.gpu + (Degree[kind] - 1) * mv.dg < s.gpus
<1>1. s.nodes \in Nat \ {0} /\ s.gpus \in Nat \ {0}
  BY SliceFacts
<1>2. \A x \in Strides(kind, s) : x = <<x[1], x[2]>> /\ x[1] \in Nat /\ x[2] \in Nat
  <2>1. \A i \in 1..StrideBound(kind, s) : i \in Nat
    OBVIOUS
  <2> QED BY <2>1 DEF Strides
<1>3. ASSUME mv \in AllowedViews(kind, s)
      PROVE  /\ mv \in Views /\ <<mv.dn, mv.dg>> \in Strides(kind, s)
             /\ mv.node < s.nodes /\ mv.gpu < s.gpus
             /\ InSlice(Coordinate(mv, Degree[kind] - 1), s)
  <2>1. PICK n \in 0..(s.nodes - 1), g \in 0..(s.gpus - 1), x \in Strides(kind, s) :
            mv = [node |-> n, gpu |-> g, dn |-> x[1], dg |-> x[2]]
            /\ InSlice(Coordinate(mv, Degree[kind] - 1), s)
    BY <1>3 DEF AllowedViews
  <2>2. mv.node = n /\ mv.gpu = g /\ mv.dn = x[1] /\ mv.dg = x[2]
    BY <2>1
  <2>3. mv \in Views
    BY <1>1, <1>2, <2>1 DEF Views
  <2> QED BY <1>1, <1>2, <2>1, <2>2, <2>3
<1>4. ASSUME mv \in Views, <<mv.dn, mv.dg>> \in Strides(kind, s), mv.node < s.nodes, mv.gpu < s.gpus,
             InSlice(Coordinate(mv, Degree[kind] - 1), s)
      PROVE  mv \in AllowedViews(kind, s)
  <2> DEFINE x == <<mv.dn, mv.dg>>
  <2>1. mv = [node |-> mv.node, gpu |-> mv.gpu, dn |-> x[1], dg |-> x[2]]
    BY <1>4 DEF Views
  <2>2. mv.node \in 0..(s.nodes - 1) /\ mv.gpu \in 0..(s.gpus - 1) /\ x \in Strides(kind, s)
    BY <1>1, <1>4, ViewFacts
  <2> HIDE DEF x
  <2> QED BY <1>4, <2>1, <2>2 DEF AllowedViews
<1> QED BY <1>3, <1>4 DEF InSlice, Coordinate

(***************************************************************************)
(* Dividing the slice.                                                     *)
(***************************************************************************)
LEMMA SplitPointsFacts ==
  ASSUME NEW n \in Nat \ {0}, NEW o \in SplitPoints(n)
  PROVE  o \in Nat \ {0} /\ n - o \in Nat \ {0}
<1> DEFINE P(i) == \E k \in 0..n : i = 2^k
           powers == {i \in 1..(n - 1) : P(i)}
<1>1. SplitPoints(n) = powers \cup {n - i : i \in powers}
  BY DEF SplitPoints
<1> HIDE DEF P
<1>2. \A i \in powers : i \in 1..(n - 1)
  OBVIOUS
<1> HIDE DEF powers
<1>3. CASE o \in powers
  BY <1>2, <1>3
<1>4. CASE o \notin powers
  <2>1. PICK i \in powers : o = n - i
    BY <1>1, <1>4
  <2> QED BY <1>2, <2>1
<1> QED BY <1>3, <1>4

\* The two sides of a split are next to each other, along one dimension.
LEMMA SplitFacts ==
  ASSUME NEW s \in Slices, NEW split \in MachineResourceSplits(s)
  PROVE  /\ split.offset \in Nat \ {0}
         /\ LhsResources(split, s) \in Slices /\ RhsResources(split, s) \in Slices
         /\ \/ /\ split.dimension = "nodes"
               /\ LhsResources(split, s).nodes = split.offset /\ LhsResources(split, s).gpus = s.gpus
               /\ RhsResources(split, s).nodes + split.offset = s.nodes
               /\ RhsResources(split, s).gpus = s.gpus
            \/ /\ split.dimension = "gpus"
               /\ LhsResources(split, s).gpus = split.offset /\ LhsResources(split, s).nodes = s.nodes
               /\ RhsResources(split, s).gpus + split.offset = s.gpus
               /\ RhsResources(split, s).nodes = s.nodes
<1>1. s.nodes \in Nat \ {0} /\ s.gpus \in Nat \ {0}
  BY SliceFacts
<1>0. \E a, b : s = [nodes |-> a, gpus |-> b]
  BY DEF Slices
<1> DEFINE o == split.offset
<1>2. CASE split \in {[dimension |-> "nodes", offset |-> x] : x \in SplitPoints(s.nodes)}
  <2>1. split.dimension = "nodes" /\ o \in SplitPoints(s.nodes)
    BY <1>2
  <2>2. o \in Nat \ {0} /\ s.nodes - o \in Nat \ {0}
    BY <1>1, <2>1, SplitPointsFacts
  <2>3. LhsResources(split, s) = [nodes |-> o, gpus |-> s.gpus]
    <3>1. LhsResources(split, s) = [s EXCEPT !["nodes"] = o]
      BY <2>1 DEF LhsResources
    <3>2. [s EXCEPT !["nodes"] = o] = [nodes |-> o, gpus |-> s.gpus]
      <4>1. PICK a, b : s = [nodes |-> a, gpus |-> b]
        BY <1>0
      <4> QED BY <4>1
    <3> QED BY <3>1, <3>2
  <2>4. RhsResources(split, s) = [nodes |-> s.nodes - o, gpus |-> s.gpus]
    <3>1. RhsResources(split, s) = [s EXCEPT !["nodes"] = s["nodes"] - o]
      BY <2>1 DEF RhsResources
    <3>2. [s EXCEPT !["nodes"] = s["nodes"] - o] = [nodes |-> s.nodes - o, gpus |-> s.gpus]
      <4>1. PICK a, b : s = [nodes |-> a, gpus |-> b]
        BY <1>0
      <4> QED BY <4>1
    <3> QED BY <3>1, <3>2
  <2> HIDE DEF o
  <2>5. LhsResources(split, s) \in Slices /\ RhsResources(split, s) \in Slices
    BY <1>1, <2>2, <2>3, <2>4 DEF Slices
  <2> QED BY <1>1, <2>1, <2>2, <2>3, <2>4, <2>5 DEF o
<1>3. CASE split \in {[dimension |-> "gpus", offset |-> x] : x \in SplitPoints(s.gpus)}
  <2>1. split.dimension = "gpus" /\ o \in SplitPoints(s.gpus)
    BY <1>3
  <2>2. o \in Nat \ {0} /\ s.gpus - o \in Nat \ {0}
    BY <1>1, <2>1, SplitPointsFacts
  <2>3. LhsResources(split, s) = [nodes |-> s.nodes, gpus |-> o]
    <3>1. LhsResources(split, s) = [s EXCEPT !["gpus"] = o]
      BY <2>1 DEF LhsResources
    <3>2. [s EXCEPT !["gpus"] = o] = [nodes |-> s.nodes, gpus |-> o]
      <4>1. PICK a, b : s = [nodes |-> a, gpus |-> b]
        BY <1>0
      <4> QED BY <4>1
    <3> QED BY <3>1, <3>2
  <2>4. RhsResources(split, s) = [nodes |-> s.nodes, gpus |-> s.gpus - o]
    <3>1. RhsResources(split, s) = [s EXCEPT !["gpus"] = s["gpus"] - o]
      BY <2>1 DEF RhsResources
    <3>2. [s EXCEPT !["gpus"] = s["gpus"] - o] = [nodes |-> s.nodes, gpus |-> s.gpus - o]
      <4>1. PICK a, b : s = [nodes |-> a, gpus |-> b]
        BY <1>0
      <4> QED BY <4>1
    <3> QED BY <3>1, <3>2
  <2> HIDE DEF o
  <2>5. LhsResources(split, s) \in Slices /\ RhsResources(split, s) \in Slices
    BY <1>1, <2>2, <2>3, <2>4 DEF Slices
  <2> QED BY <1>1, <2>1, <2>2, <2>3, <2>4, <2>5 DEF o
<1> QED BY <1>2, <1>3 DEF MachineResourceSplits

LEMMA OffsetViewFacts ==
  ASSUME NEW s \in Slices, NEW split \in MachineResourceSplits(s), NEW mv \in Views
  PROVE  /\ OffsetView(mv, split) \in Views
         /\ OffsetView(mv, split).dn = mv.dn /\ OffsetView(mv, split).dg = mv.dg
         /\ split.dimension = "nodes" => /\ OffsetView(mv, split).node = mv.node + split.offset
                                         /\ OffsetView(mv, split).gpu = mv.gpu
         /\ split.dimension = "gpus" => /\ OffsetView(mv, split).gpu = mv.gpu + split.offset
                                        /\ OffsetView(mv, split).node = mv.node
<1>1. split.offset \in Nat /\ split.dimension \in {"nodes", "gpus"}
  BY SplitFacts
<1>2. CASE split.dimension = "nodes"
  BY <1>1, <1>2 DEF OffsetView, Views
<1>3. CASE split.dimension = "gpus"
  BY <1>1, <1>3 DEF OffsetView, Views
<1> QED BY <1>1, <1>2, <1>3

\* What fits the left part fits the slice; what fits the right part fits it once moved.
LEMMA AllowedLeft ==
  ASSUME NEW kind \in Kinds, NEW s \in Slices, NEW split \in MachineResourceSplits(s),
         NEW mv \in AllowedViews(kind, LhsResources(split, s))
  PROVE  mv \in AllowedViews(kind, s)
<1> DEFINE u == LhsResources(split, s)
<1>1. u \in Slices /\ u.nodes <= s.nodes /\ u.gpus <= s.gpus
  BY SplitFacts, SliceFacts
<1>2. u.nodes \in Nat /\ u.gpus \in Nat /\ s.nodes \in Nat /\ s.gpus \in Nat
  BY <1>1, SliceFacts
<1>3. Strides(kind, u) \subseteq Strides(kind, s)
  BY <1>1, StridesGrow
<1>4. /\ mv \in Views /\ <<mv.dn, mv.dg>> \in Strides(kind, u)
      /\ mv.node < u.nodes /\ mv.gpu < u.gpus
      /\ mv.node + (Degree[kind] - 1) * mv.dn < u.nodes
      /\ mv.gpu + (Degree[kind] - 1) * mv.dg < u.gpus
  BY <1>1, AllowedFacts
<1> HIDE DEF u
<1>5. /\ mv.node + (Degree[kind] - 1) * mv.dn \in Nat /\ mv.gpu + (Degree[kind] - 1) * mv.dg \in Nat
      /\ mv.node \in Nat /\ mv.gpu \in Nat
  <2>1. mv.node \in Nat /\ mv.gpu \in Nat /\ mv.dn \in Nat /\ mv.dg \in Nat
    BY <1>4, ViewFacts
  <2>2. (Degree[kind] - 1) * mv.dn \in Nat /\ (Degree[kind] - 1) * mv.dg \in Nat
    BY <2>1, DegreeFacts, Product
  <2> QED BY <2>1, <2>2
<1>6. \A a, b, c \in Nat : a < b /\ b <= c => a < c
  OBVIOUS
<1>7. /\ mv.node < s.nodes /\ mv.gpu < s.gpus
      /\ mv.node + (Degree[kind] - 1) * mv.dn < s.nodes
      /\ mv.gpu + (Degree[kind] - 1) * mv.dg < s.gpus
  BY <1>1, <1>2, <1>4, <1>5, <1>6
<1> QED BY <1>3, <1>4, <1>7, AllowedFacts

LEMMA AllowedRight ==
  ASSUME NEW kind \in Kinds, NEW s \in Slices, NEW split \in MachineResourceSplits(s),
         NEW mv \in AllowedViews(kind, RhsResources(split, s))
  PROVE  OffsetView(mv, split) \in AllowedViews(kind, s)
<1> DEFINE u == RhsResources(split, s)
           w == OffsetView(mv, split)
           d == Degree[kind] - 1
<1>1. u \in Slices /\ u.nodes <= s.nodes /\ u.gpus <= s.gpus
  BY SplitFacts, SliceFacts
<1>2. u.nodes \in Nat /\ u.gpus \in Nat /\ s.nodes \in Nat /\ s.gpus \in Nat
  BY <1>1, SliceFacts
<1>3. Strides(kind, u) \subseteq Strides(kind, s)
  BY <1>1, StridesGrow
<1>4. /\ mv \in Views /\ <<mv.dn, mv.dg>> \in Strides(kind, u)
      /\ mv.node < u.nodes /\ mv.gpu < u.gpus
      /\ mv.node + d * mv.dn < u.nodes /\ mv.gpu + d * mv.dg < u.gpus
  BY <1>1, AllowedFacts
<1>5. w \in Views /\ w.dn = mv.dn /\ w.dg = mv.dg
      /\ \/ /\ w.node = mv.node + split.offset /\ w.gpu = mv.gpu
            /\ u.nodes + split.offset = s.nodes /\ u.gpus = s.gpus
         \/ /\ w.gpu = mv.gpu + split.offset /\ w.node = mv.node
            /\ u.gpus + split.offset = s.gpus /\ u.nodes = s.nodes
  BY <1>4, SplitFacts, OffsetViewFacts
<1>6. split.offset \in Nat
  BY SplitFacts
<1>7. /\ d * mv.dn \in Nat /\ d * mv.dg \in Nat
      /\ mv.node \in Nat /\ mv.gpu \in Nat
  BY <1>4, DegreeFacts, Product, ViewFacts
<1> HIDE DEF u, w, d
<1>8. /\ w.node < s.nodes /\ w.gpu < s.gpus /\ w.node + d * w.dn < s.nodes /\ w.gpu + d * w.dg < s.gpus
  <2> DEFINE x == d * mv.dn
             y == d * mv.dg
  <2>1. /\ x \in Nat /\ y \in Nat /\ mv.node + x < u.nodes /\ mv.gpu + y < u.gpus
        /\ d * w.dn = x /\ d * w.dg = y
    BY <1>4, <1>5, <1>7
  <2> HIDE DEF x, y
  <2> QED BY <1>2, <1>4, <1>5, <1>6, <1>7, <2>1
<1>9. <<w.dn, w.dg>> \in Strides(kind, s)
  BY <1>3, <1>4, <1>5
<1>10. w \in AllowedViews(kind, s)
  BY <1>5, <1>8, <1>9, AllowedFacts DEF d
<1> QED BY <1>10 DEF w

\* The left part's devices and the moved right part's are different.
LEMMA SplitDisjoint ==
  ASSUME NEW k1 \in Kinds, NEW k2 \in Kinds, NEW s \in Slices, NEW split \in MachineResourceSplits(s),
         NEW m1 \in AllowedViews(k1, LhsResources(split, s)),
         NEW m2 \in AllowedViews(k2, RhsResources(split, s)), NEW c
  PROVE  ~ (c \in Devices(k1, m1) /\ c \in Devices(k2, OffsetView(m2, split)))
<1> SUFFICES ASSUME c \in Devices(k1, m1), c \in Devices(k2, OffsetView(m2, split)) PROVE FALSE
  OBVIOUS
<1> DEFINE u == LhsResources(split, s)
           w == OffsetView(m2, split)
<1>1. u \in Slices /\ RhsResources(split, s) \in Slices
  BY SplitFacts
<1>2. m1 \in Views /\ m1.node + (Degree[k1] - 1) * m1.dn < u.nodes
      /\ m1.gpu + (Degree[k1] - 1) * m1.dg < u.gpus
  BY <1>1, AllowedFacts
<1>3. m2 \in Views
  BY <1>1, AllowedFacts
<1>4. w \in Views /\ \/ w.node = m2.node + split.offset /\ u.nodes = split.offset
                     \/ w.gpu = m2.gpu + split.offset /\ u.gpus = split.offset
  BY <1>3, SplitFacts, OffsetViewFacts
<1>5. Degree[k1] - 1 \in Nat /\ Degree[k2] - 1 \in Nat /\ split.offset \in Nat
      /\ m2.node \in Nat /\ m2.gpu \in Nat
  BY <1>3, DegreeFacts, SplitFacts, ViewFacts
<1>6. PICK i \in 0..(Degree[k1] - 1) : c = Coordinate(m1, i)
  BY DEF Devices
<1>7. PICK j \in 0..(Degree[k2] - 1) : c = Coordinate(w, j)
  BY DEF Devices
<1> HIDE DEF u, w
<1>8. m1.node + i * m1.dn = w.node + j * w.dn /\ m1.gpu + i * m1.dg = w.gpu + j * w.dg
  BY <1>6, <1>7 DEF Coordinate
<1>9. /\ m1.node + i * m1.dn \in Nat /\ m1.node + i * m1.dn <= m1.node + (Degree[k1] - 1) * m1.dn
      /\ m1.gpu + i * m1.dg \in Nat /\ m1.gpu + i * m1.dg <= m1.gpu + (Degree[k1] - 1) * m1.dg
      /\ m1.node + (Degree[k1] - 1) * m1.dn \in Nat /\ m1.gpu + (Degree[k1] - 1) * m1.dg \in Nat
  BY <1>2, <1>5, Between
<1>10. w.node <= w.node + j * w.dn /\ w.gpu <= w.gpu + j * w.dg
       /\ w.node + j * w.dn \in Nat /\ w.gpu + j * w.dg \in Nat
  BY <1>4, <1>5, Between
<1>11. u.nodes \in Nat /\ u.gpus \in Nat /\ w.node \in Nat /\ w.gpu \in Nat
  BY <1>1, <1>4, SliceFacts, ViewFacts DEF u
<1>12. \A a, b, e, f \in Nat : a <= b /\ b < e /\ f <= a => f < e
  OBVIOUS
<1>13. w.node < u.nodes /\ w.gpu < u.gpus
  BY <1>2, <1>8, <1>9, <1>10, <1>11, <1>12
<1> QED BY <1>4, <1>5, <1>11, <1>13

(***************************************************************************)
(* What operators and the tensors between them cost.                       *)
(***************************************************************************)
LEMMA ImageFinite ==
  ASSUME NEW S, IsFiniteSet(S), NEW f
  PROVE  IsFiniteSet({f[x] : x \in S})
<1> DEFINE T == {f[x] : x \in S}
           g == [x \in S |-> f[x]]
<1>1. g \in Surjection(S, T)
  BY DEF Surjection
<1> HIDE DEF g, T
<1> QED BY <1>1, FS_Surjection DEF T

LEMMA OpCostType ==
  ASSUME NEW ctx \in Contexts, NEW kind \in Kinds, NEW mv
  PROVE  OpCost(ctx, kind, mv) \in Nat
<1>1. ctx.cost[kind] \in [within : Nat, across : Nat]
  BY DEF Contexts
<1>2. ctx.cost[kind]["within"] \in Nat /\ ctx.cost[kind]["across"] \in Nat
  BY <1>1
<1> QED BY <1>2 DEF OpCost

\* The pairs of devices between which a movement carries a shard.
LEMMA EdgeFacts ==
  ASSUME NEW kl, NEW kr, NEW a, NEW b, NEW e
  PROVE  e \in CommunicationEdges(kl, kr, a, b)
           <=> \E i \in 0..(Degree[kl] - 1), j \in 0..(Degree[kr] - 1) :
                  /\ i = j \/ Degree[kl] # Degree[kr]
                  /\ e = <<Coordinate(a, i), Coordinate(b, j)>>
                  /\ Coordinate(a, i) # Coordinate(b, j)
<1> DEFINE C(ij) == <<Coordinate(a, ij[1]), Coordinate(b, ij[2])>>
           I == {ij \in (0..(Degree[kl] - 1)) \X (0..(Degree[kr] - 1)) :
                    ij[1] = ij[2] \/ Degree[kl] # Degree[kr]}
<1>1. CommunicationEdges(kl, kr, a, b) = {x \in {C(ij) : ij \in I} : x[1] # x[2]}
  BY DEF CommunicationEdges
<1>2. ASSUME e \in CommunicationEdges(kl, kr, a, b)
      PROVE  \E i \in 0..(Degree[kl] - 1), j \in 0..(Degree[kr] - 1) :
                  /\ i = j \/ Degree[kl] # Degree[kr]
                  /\ e = <<Coordinate(a, i), Coordinate(b, j)>>
                  /\ Coordinate(a, i) # Coordinate(b, j)
  <2>1. PICK ij \in I : e = C(ij) /\ e[1] # e[2]
    BY <1>1, <1>2
  <2>2. e = <<Coordinate(a, ij[1]), Coordinate(b, ij[2])>>
    BY <2>1
  <2>3. Coordinate(a, ij[1]) # Coordinate(b, ij[2])
    BY <2>1, <2>2
  <2> QED BY <2>2, <2>3
<1>3. ASSUME NEW i \in 0..(Degree[kl] - 1), NEW j \in 0..(Degree[kr] - 1),
             i = j \/ Degree[kl] # Degree[kr],
             e = <<Coordinate(a, i), Coordinate(b, j)>>, Coordinate(a, i) # Coordinate(b, j)
      PROVE  e \in CommunicationEdges(kl, kr, a, b)
  <2>1. <<i, j>> \in I /\ e = C(<<i, j>>) /\ e[1] # e[2]
    BY <1>3
  <2> HIDE DEF C, I
  <2> QED BY <1>1, <2>1
<1> QED BY <1>2, <1>3

LEMMA EdgesFinite ==
  ASSUME NEW kl \in Kinds, NEW kr \in Kinds, NEW a, NEW b
  PROVE  IsFiniteSet(CommunicationEdges(kl, kr, a, b))
<1> DEFINE J == (0..(Degree[kl] - 1)) \X (0..(Degree[kr] - 1))
           f == [ij \in J |-> <<Coordinate(a, ij[1]), Coordinate(b, ij[2])>>]
<1>1. IsFiniteSet(J)
  <2>1. IsFiniteSet(0..(Degree[kl] - 1)) /\ IsFiniteSet(0..(Degree[kr] - 1))
    <3>1. Degree[kl] - 1 \in Int /\ Degree[kr] - 1 \in Int
      BY DegreeFacts
    <3> DEFINE x == Degree[kl] - 1
               y == Degree[kr] - 1
    <3>2. x \in Int /\ y \in Int /\ 0 \in Int
      BY <3>1
    <3> HIDE DEF x, y
    <3>3. IsFiniteSet(0..x) /\ IsFiniteSet(0..y)
      BY <3>2, FS_Interval
    <3> QED BY <3>3 DEF x, y
  <2> QED BY <2>1, FS_Product
<1>2. IsFiniteSet({f[x] : x \in J})
  <2> HIDE DEF f, J
  <2> QED BY <1>1, ImageFinite
<1>3. CommunicationEdges(kl, kr, a, b) \subseteq {f[x] : x \in J}
  <2> SUFFICES ASSUME NEW e \in CommunicationEdges(kl, kr, a, b) PROVE \E x \in J : e = f[x]
    OBVIOUS
  <2>1. PICK i \in 0..(Degree[kl] - 1), j \in 0..(Degree[kr] - 1) : e = <<Coordinate(a, i), Coordinate(b, j)>>
    BY EdgeFacts
  <2>2. <<i, j>> \in J /\ f[<<i, j>>] = e
    BY <2>1
  <2> HIDE DEF f, J
  <2> QED BY <2>2
<1> QED BY <1>2, <1>3, FS_Subset

Crossing(left, right, moves, m1, m2) ==
  UNION {CommunicationEdges(KindAt(left, mv.src), KindAt(right, mv.dst), m1[mv.src], m2[mv.dst]) : mv \in moves}

LEMMA CrossingFacts ==
  ASSUME NEW left, NEW right, NEW moves, NEW m1, NEW m2, NEW e
  PROVE  e \in Crossing(left, right, moves, m1, m2)
           <=> \E mv \in moves : e \in CommunicationEdges(KindAt(left, mv.src), KindAt(right, mv.dst),
                                                         m1[mv.src], m2[mv.dst])
BY DEF Crossing

LEMMA CostOfCrossing ==
  ASSUME NEW ctx, NEW left, NEW right, NEW moves, NEW m1, NEW m2
  PROVE  CostAcrossSplit(ctx, left, right, moves, m1, m2) = ctx.comm * Cardinality(Crossing(left, right, moves, m1, m2))
BY DEF CostAcrossSplit, Crossing

CostOf(ctx, t, m1, m2) == CostAcrossSplit(ctx, Left(t), Right(t), Moves(t), m1, m2)
CrossingOf(t, m1, m2) == Crossing(Left(t), Right(t), Moves(t), m1, m2)

LEMMA CrossingFinite ==
  ASSUME NEW t \in Trees, ~IsLeaf(t), NEW m1, NEW m2
  PROVE  IsFiniteSet(CrossingOf(t, m1, m2))
<1> DEFINE f == [mv \in Moves(t) |-> CommunicationEdges(KindAt(Left(t), mv.src), KindAt(Right(t), mv.dst),
                                                       m1[mv.src], m2[mv.dst])]
           F == {f[mv] : mv \in Moves(t)}
<1>1. IsFiniteSet(F)
  <2> HIDE DEF f
  <2> QED BY MovesFacts, ImageFinite
<1>2. \A E \in F : IsFiniteSet(E)
  <2> SUFFICES ASSUME NEW mv \in Moves(t) PROVE IsFiniteSet(f[mv])
    OBVIOUS
  <2>1. KindAt(Left(t), mv.src) \in Kinds /\ KindAt(Right(t), mv.dst) \in Kinds
    BY Sides, MovesFacts, LayerFacts
  <2>2. IsFiniteSet(CommunicationEdges(KindAt(Left(t), mv.src), KindAt(Right(t), mv.dst), m1[mv.src], m2[mv.dst]))
    BY <2>1, EdgesFinite
  <2> QED BY <2>2
<1>3. CrossingOf(t, m1, m2) = UNION F
  BY DEF CrossingOf, Crossing
<1> HIDE DEF F
<1> QED BY <1>1, <1>2, <1>3, FS_UNION

LEMMA CostType ==
  ASSUME NEW ctx \in Contexts, NEW t \in Trees, ~IsLeaf(t), NEW m1, NEW m2
  PROVE  CostOf(ctx, t, m1, m2) \in Nat
<1>1. Cardinality(CrossingOf(t, m1, m2)) \in Nat
  BY CrossingFinite, FS_CardinalityType
<1>2. ctx.comm \in Nat
  BY DEF Contexts
<1>3. CostOf(ctx, t, m1, m2) = ctx.comm * Cardinality(CrossingOf(t, m1, m2))
  BY CostOfCrossing DEF CostOf, CrossingOf
<1> QED BY <1>1, <1>2, <1>3, Product

\* No tensor crosses a parallel split.
LEMMA NoMovesNoCost ==
  ASSUME NEW ctx \in Contexts, NEW t \in Trees, ~IsLeaf(t), ~IsSeriesSplit(t), NEW m1, NEW m2
  PROVE  CostOf(ctx, t, m1, m2) = 0
<1>1. CrossingOf(t, m1, m2) = {}
  <2>1. \A e : e \notin Crossing(Left(t), Right(t), Moves(t), m1, m2)
    BY MovesFacts, CrossingFacts
  <2> QED BY <2>1 DEF CrossingOf
<1>2. Cardinality(CrossingOf(t, m1, m2)) = 0
  BY <1>1, FS_EmptySet
<1>3. ctx.comm \in Nat
  BY DEF Contexts
<1>4. CostOf(ctx, t, m1, m2) = ctx.comm * Cardinality(CrossingOf(t, m1, m2))
  BY CostOfCrossing DEF CostOf, CrossingOf
<1> QED BY <1>2, <1>3, <1>4

\* Only the views on the boundary of a split matter for what crosses it.
LEMMA CostOfBoundary ==
  ASSUME NEW ctx \in Contexts, NEW t \in Trees, ~IsLeaf(t), NEW l1, NEW r1, NEW l2, NEW r2,
         \A mv \in Moves(t) : l1[mv.src] = l2[mv.src] /\ r1[mv.dst] = r2[mv.dst]
  PROVE  CostOf(ctx, t, l1, r1) = CostOf(ctx, t, l2, r2)
<1>1. \A e : e \in CrossingOf(t, l1, r1) <=> e \in CrossingOf(t, l2, r2)
  BY CrossingFacts DEF CrossingOf
<1>2. CrossingOf(t, l1, r1) = CrossingOf(t, l2, r2)
  BY <1>1
<1> QED BY <1>2, CostOfCrossing DEF CostOf, CrossingOf

(***************************************************************************)
(* Moving a mapping to another place of the slice changes no cost.         *)
(***************************************************************************)
Moved(c, x, y) == <<c[1] + x, c[2] + y>>

\* The view v, moved by x nodes and y devices, is w.
IsMoved(v, w, x, y) ==
  /\ v \in Views /\ w \in Views
  /\ w.node = v.node + x /\ w.gpu = v.gpu + y /\ w.dn = v.dn /\ w.dg = v.dg

LEMMA OffsetMoves ==
  ASSUME NEW s \in Slices, NEW split \in MachineResourceSplits(s)
  PROVE  \E x, y \in Nat : \A v \in Views : IsMoved(v, OffsetView(v, split), x, y)
<1> DEFINE x == IF split.dimension = "nodes" THEN split.offset ELSE 0
           y == IF split.dimension = "nodes" THEN 0 ELSE split.offset
<1>1. split.offset \in Nat /\ split.dimension \in {"nodes", "gpus"}
  BY SplitFacts
<1>2. x \in Nat /\ y \in Nat
  BY <1>1
<1>3. ASSUME NEW v \in Views PROVE IsMoved(v, OffsetView(v, split), x, y)
  BY <1>1, ViewFacts, OffsetViewFacts DEF IsMoved
<1> QED BY <1>2, <1>3

IsPlace(c) == c = <<c[1], c[2]>> /\ c[1] \in Nat /\ c[2] \in Nat

LEMMA CoordinateMoves ==
  ASSUME NEW x \in Nat, NEW y \in Nat, NEW v, NEW w, IsMoved(v, w, x, y), NEW k \in Nat
  PROVE  /\ IsPlace(Coordinate(v, k))
         /\ Coordinate(w, k) = Moved(Coordinate(v, k), x, y)
<1>1. /\ v.node \in Nat /\ v.gpu \in Nat /\ v.dn \in Nat /\ v.dg \in Nat
      /\ w.node = v.node + x /\ w.gpu = v.gpu + y /\ w.dn = v.dn /\ w.dg = v.dg
  BY ViewFacts DEF IsMoved
<1>2. k * v.dn \in Nat /\ k * v.dg \in Nat
  BY <1>1, Product
<1> DEFINE p == k * v.dn
           q == k * v.dg
<1>3. /\ Coordinate(v, k) = <<v.node + p, v.gpu + q>>
      /\ Coordinate(w, k) = <<w.node + p, w.gpu + q>>
  BY <1>1 DEF Coordinate
<1>4. p \in Nat /\ q \in Nat
  BY <1>2
<1> HIDE DEF p, q
<1> QED BY <1>1, <1>3, <1>4 DEF Moved, IsPlace

LEMMA MovedInjective ==
  ASSUME NEW x \in Nat, NEW y \in Nat, NEW c, NEW d, IsPlace(c), IsPlace(d), Moved(c, x, y) = Moved(d, x, y)
  PROVE  c = d
BY DEF Moved, IsPlace

\* All views of m, moved by x nodes and y devices, are those of n.
IsMovedMapping(m, n, paths, x, y) == \A p \in paths : IsMoved(m[p], n[p], x, y)

LEMMA EdgesMove ==
  ASSUME NEW kl \in Kinds, NEW kr \in Kinds, NEW x \in Nat, NEW y \in Nat,
         NEW a, NEW b, NEW c, NEW d, IsMoved(a, c, x, y), IsMoved(b, d, x, y)
  PROVE  /\ \A e \in CommunicationEdges(kl, kr, a, b) :
              /\ e = <<e[1], e[2]>> /\ IsPlace(e[1]) /\ IsPlace(e[2])
              /\ <<Moved(e[1], x, y), Moved(e[2], x, y)>> \in CommunicationEdges(kl, kr, c, d)
         /\ \A g \in CommunicationEdges(kl, kr, c, d) :
              \E e \in CommunicationEdges(kl, kr, a, b) : g = <<Moved(e[1], x, y), Moved(e[2], x, y)>>
<1>1. \A k \in Nat : IsPlace(Coordinate(a, k)) /\ Coordinate(c, k) = Moved(Coordinate(a, k), x, y)
  BY CoordinateMoves
<1>2. \A k \in Nat : IsPlace(Coordinate(b, k)) /\ Coordinate(d, k) = Moved(Coordinate(b, k), x, y)
  BY CoordinateMoves
<1>3. \A i \in 0..(Degree[kl] - 1) : i \in Nat
  OBVIOUS
<1>4. \A i \in 0..(Degree[kr] - 1) : i \in Nat
  OBVIOUS
<1>5. ASSUME NEW e \in CommunicationEdges(kl, kr, a, b)
      PROVE  /\ e = <<e[1], e[2]>> /\ IsPlace(e[1]) /\ IsPlace(e[2])
             /\ <<Moved(e[1], x, y), Moved(e[2], x, y)>> \in CommunicationEdges(kl, kr, c, d)
  <2>1. PICK i \in 0..(Degree[kl] - 1), j \in 0..(Degree[kr] - 1) :
              /\ i = j \/ Degree[kl] # Degree[kr]
              /\ e = <<Coordinate(a, i), Coordinate(b, j)>>
              /\ Coordinate(a, i) # Coordinate(b, j)
    BY EdgeFacts
  <2>2. e[1] = Coordinate(a, i) /\ e[2] = Coordinate(b, j)
    BY <2>1
  <2>3. IsPlace(e[1]) /\ IsPlace(e[2]) /\ e[1] # e[2]
    BY <1>1, <1>2, <1>3, <1>4, <2>1, <2>2
  <2>4. Coordinate(c, i) = Moved(e[1], x, y) /\ Coordinate(d, j) = Moved(e[2], x, y)
    BY <1>1, <1>2, <1>3, <1>4, <2>2
  <2>5. Coordinate(c, i) # Coordinate(d, j)
    BY <2>3, <2>4, MovedInjective
  <2>6. <<Coordinate(c, i), Coordinate(d, j)>> \in CommunicationEdges(kl, kr, c, d)
    BY <2>1, <2>5, EdgeFacts
  <2> QED BY <2>1, <2>2, <2>3, <2>4, <2>6
<1>6. ASSUME NEW g \in CommunicationEdges(kl, kr, c, d)
      PROVE  \E e \in CommunicationEdges(kl, kr, a, b) : g = <<Moved(e[1], x, y), Moved(e[2], x, y)>>
  <2>1. PICK i \in 0..(Degree[kl] - 1), j \in 0..(Degree[kr] - 1) :
              /\ i = j \/ Degree[kl] # Degree[kr]
              /\ g = <<Coordinate(c, i), Coordinate(d, j)>>
              /\ Coordinate(c, i) # Coordinate(d, j)
    BY EdgeFacts
  <2>2. Coordinate(c, i) = Moved(Coordinate(a, i), x, y) /\ Coordinate(d, j) = Moved(Coordinate(b, j), x, y)
    BY <1>1, <1>2, <1>3, <1>4
  <2>3. Coordinate(a, i) # Coordinate(b, j)
    BY <2>1, <2>2
  <2> DEFINE e == <<Coordinate(a, i), Coordinate(b, j)>>
  <2>4. e \in CommunicationEdges(kl, kr, a, b)
    BY <2>1, <2>3, EdgeFacts
  <2>5. e[1] = Coordinate(a, i) /\ e[2] = Coordinate(b, j)
    OBVIOUS
  <2> HIDE DEF e
  <2> QED BY <2>1, <2>2, <2>4, <2>5
<1> QED BY <1>5, <1>6

LEMMA CrossingMoves ==
  ASSUME NEW ctx \in Contexts, NEW t \in Trees, ~IsLeaf(t), NEW x \in Nat, NEW y \in Nat,
         NEW l1, NEW r1, NEW l2, NEW r2,
         IsMovedMapping(l1, l2, LeafPaths(Left(t)), x, y),
         IsMovedMapping(r1, r2, LeafPaths(Right(t)), x, y)
  PROVE  CostOf(ctx, t, l2, r2) = CostOf(ctx, t, l1, r1)
<1> DEFINE E(mv) == CommunicationEdges(KindAt(Left(t), mv.src), KindAt(Right(t), mv.dst), l1[mv.src], r1[mv.dst])
           F(mv) == CommunicationEdges(KindAt(Left(t), mv.src), KindAt(Right(t), mv.dst), l2[mv.src], r2[mv.dst])
           S == CrossingOf(t, l1, r1)
           T == CrossingOf(t, l2, r2)
           f == [e \in S |-> <<Moved(e[1], x, y), Moved(e[2], x, y)>>]
<1>1. ASSUME NEW mv \in Moves(t)
      PROVE  /\ KindAt(Left(t), mv.src) \in Kinds /\ KindAt(Right(t), mv.dst) \in Kinds
             /\ IsMoved(l1[mv.src], l2[mv.src], x, y) /\ IsMoved(r1[mv.dst], r2[mv.dst], x, y)
  BY Sides, MovesFacts, LayerFacts DEF IsMovedMapping
<1>2. \A e : e \in S <=> \E mv \in Moves(t) : e \in E(mv)
  BY CrossingFacts DEF CrossingOf
<1>3. \A e : e \in T <=> \E mv \in Moves(t) : e \in F(mv)
  BY CrossingFacts DEF CrossingOf
<1>4. ASSUME NEW mv \in Moves(t), NEW e \in E(mv)
      PROVE  /\ e = <<e[1], e[2]>> /\ IsPlace(e[1]) /\ IsPlace(e[2])
             /\ <<Moved(e[1], x, y), Moved(e[2], x, y)>> \in F(mv)
  BY <1>1, EdgesMove
<1>5. ASSUME NEW mv \in Moves(t), NEW g \in F(mv)
      PROVE  \E e \in E(mv) : g = <<Moved(e[1], x, y), Moved(e[2], x, y)>>
  BY <1>1, EdgesMove
<1> HIDE DEF E, F, S, T
<1>6. \A e \in S : e = <<e[1], e[2]>> /\ IsPlace(e[1]) /\ IsPlace(e[2])
  BY <1>2, <1>4
<1>7. \A e \in S : f[e] \in T /\ f[e] = <<Moved(e[1], x, y), Moved(e[2], x, y)>>
  BY <1>2, <1>3, <1>4
<1>8. \A g \in T : \E e \in S : f[e] = g
  BY <1>2, <1>3, <1>5, <1>7
<1>9. ASSUME NEW d \in S, NEW e \in S, f[d] = f[e] PROVE d = e
  <2>1. Moved(d[1], x, y) = Moved(e[1], x, y) /\ Moved(d[2], x, y) = Moved(e[2], x, y)
    BY <1>7, <1>9
  <2>2. d[1] = e[1] /\ d[2] = e[2]
    BY <1>6, <2>1, MovedInjective
  <2> QED BY <1>6, <2>2
<1>10. f \in Bijection(S, T)
  <2>1. f \in [S -> T]
    BY <1>7
  <2> HIDE DEF f
  <2>2. f \in Injection(S, T)
    BY <1>9, <2>1 DEF Injection, IsInjective
  <2>3. f \in Surjection(S, T)
    BY <1>8, <2>1 DEF Surjection
  <2> QED BY <2>2, <2>3 DEF Bijection
<1>11. ExistsBijection(S, T)
  <2> HIDE DEF f
  <2> QED BY <1>10 DEF ExistsBijection
<1>12. Cardinality(T) = Cardinality(S)
  <2>1. IsFiniteSet(S)
    BY CrossingFinite DEF S
  <2> QED BY <1>11, <2>1, FS_Bijection
<1> QED BY <1>12, CostOfCrossing DEF S, T, CostOf, CrossingOf

(***************************************************************************)
(* Feasible results.                                                       *)
(***************************************************************************)
Placements(t) == [LeafPaths(t) -> Views]
Results(t) == [runtime : Nat, mapping : Placements(t)]

LEMMA PlacementFacts ==
  ASSUME NEW t \in Trees, NEW m
  PROVE  m \in Placements(t) <=> /\ IsMapping(m) /\ DOMAIN m = LeafPaths(t)
                                 /\ \A p \in LeafPaths(t) : m[p] \in Views
<1>1. LeafPaths(t) \in SUBSET Paths
  BY LayerFacts
<1> QED BY <1>1 DEF Placements, IsMapping

LEMMA ResultFacts ==
  ASSUME NEW t \in Trees, NEW r \in Results(t)
  PROVE  /\ r.runtime \in Nat /\ r.mapping \in Placements(t)
         /\ ~IsInfeasible(r)
<1>1. r.runtime \in Nat /\ r.mapping \in Placements(t)
  BY DEF Results
<1>2. Infeasible.runtime = -1
  BY DEF Infeasible
<1>3. -1 \notin Nat
  OBVIOUS
<1> QED BY <1>1, <1>2, <1>3 DEF IsInfeasible

LEMMA FeasibleFacts ==
  ASSUME NEW t \in Trees, NEW n \in Nat, NEW m \in Placements(t)
  PROVE  Feasible(n, m) \in Results(t) /\ Feasible(n, m).runtime = n /\ Feasible(n, m).mapping = m
BY DEF Feasible, Results

LEMMA CombinePlacements ==
  ASSUME NEW t \in Trees, ~IsLeaf(t), NEW f \in Placements(Left(t)), NEW g \in Placements(Right(t))
  PROVE  /\ CombineMappings(f, g) \in Placements(t)
         /\ RestrictToChild(CombineMappings(f, g), "l") = f
         /\ RestrictToChild(CombineMappings(f, g), "r") = g
         /\ \A p \in LeafPaths(Left(t)) : CombineMappings(f, g)[Under("l", p)] = f[p]
         /\ \A p \in LeafPaths(Right(t)) : CombineMappings(f, g)[Under("r", p)] = g[p]
<1>1. /\ IsMapping(f) /\ DOMAIN f = LeafPaths(Left(t)) /\ \A p \in DOMAIN f : f[p] \in Views
      /\ IsMapping(g) /\ DOMAIN g = LeafPaths(Right(t)) /\ \A p \in DOMAIN g : g[p] \in Views
  BY Sides, PlacementFacts
<1>2. IsMapping(CombineMappings(f, g)) /\ DOMAIN CombineMappings(f, g) = LeafPaths(t)
  BY <1>1, CombineFacts, LayerFacts
<1>3. \A p \in LeafPaths(t) : CombineMappings(f, g)[p] \in Views
  BY <1>1, <1>2, CombineType
<1>4. CombineMappings(f, g) \in Placements(t)
  BY <1>2, <1>3, PlacementFacts
<1> QED BY <1>1, <1>4, CombineFacts, RestrictCombine

LEMMA RestrictPlacements ==
  ASSUME NEW t \in Trees, ~IsLeaf(t), NEW m \in Placements(t)
  PROVE  /\ RestrictToChild(m, "l") \in Placements(Left(t))
         /\ RestrictToChild(m, "r") \in Placements(Right(t))
         /\ \A p \in LeafPaths(Left(t)) : RestrictToChild(m, "l")[p] = m[Under("l", p)]
         /\ \A p \in LeafPaths(Right(t)) : RestrictToChild(m, "r")[p] = m[Under("r", p)]
<1>1. /\ DOMAIN m = PathsBeneath(LeafPaths(Left(t)), LeafPaths(Right(t)))
      /\ LeafPaths(Left(t)) \in SUBSET Paths /\ LeafPaths(Right(t)) \in SUBSET Paths
  BY Sides, PlacementFacts, LayerFacts
<1>2. \A p \in DOMAIN m : m[p] \in Views
  BY PlacementFacts
<1> DEFINE f == RestrictToChild(m, "l")
           g == RestrictToChild(m, "r")
<1>3. /\ IsMapping(f) /\ DOMAIN f = LeafPaths(Left(t)) /\ \A p \in LeafPaths(Left(t)) : f[p] = m[Under("l", p)]
      /\ IsMapping(g) /\ DOMAIN g = LeafPaths(Right(t)) /\ \A p \in LeafPaths(Right(t)) : g[p] = m[Under("r", p)]
  BY <1>1, RestrictFacts
<1>4. /\ \A p \in LeafPaths(Left(t)) : Under("l", p) \in DOMAIN m
      /\ \A p \in LeafPaths(Right(t)) : Under("r", p) \in DOMAIN m
  BY <1>1, PathsBeneathFacts
<1>5. /\ \A p \in LeafPaths(Left(t)) : f[p] \in Views
      /\ \A p \in LeafPaths(Right(t)) : g[p] \in Views
  BY <1>2, <1>3, <1>4
<1> HIDE DEF f, g
<1>6. f \in Placements(Left(t)) /\ g \in Placements(Right(t))
  BY <1>3, <1>5, Sides, PlacementFacts
<1> QED BY <1>3, <1>6 DEF f, g

LEMMA SeriesCombineFacts ==
  ASSUME NEW t \in Trees, ~IsLeaf(t), NEW c \in Nat, NEW l \in Results(Left(t)), NEW r \in Results(Right(t))
  PROVE  /\ SeriesCombine(c, l, r) \in Results(t)
         /\ SeriesCombine(c, l, r).runtime = l.runtime + c + r.runtime
         /\ SeriesCombine(c, l, r).mapping = CombineMappings(l.mapping, r.mapping)
<1>1. /\ l.runtime \in Nat /\ l.mapping \in Placements(Left(t)) /\ ~IsInfeasible(l)
      /\ r.runtime \in Nat /\ r.mapping \in Placements(Right(t)) /\ ~IsInfeasible(r)
  BY Sides, ResultFacts
<1>2. CombineMappings(l.mapping, r.mapping) \in Placements(t)
  BY <1>1, CombinePlacements
<1>3. SeriesCombine(c, l, r) = Feasible(l.runtime + c + r.runtime, CombineMappings(l.mapping, r.mapping))
  BY <1>1 DEF SeriesCombine
<1>4. l.runtime + c + r.runtime \in Nat
  BY <1>1
<1> QED BY <1>2, <1>3, <1>4, FeasibleFacts

LEMMA OffsetPlacement ==
  ASSUME NEW t \in Trees, NEW s \in Slices, NEW split \in MachineResourceSplits(s), NEW m \in Placements(t)
  PROVE  /\ OffsetMapping(m, split) \in Placements(t)
         /\ \A p \in LeafPaths(t) : OffsetMapping(m, split)[p] = OffsetView(m[p], split)
<1>1. DOMAIN m = LeafPaths(t) /\ LeafPaths(t) \in SUBSET Paths /\ \A p \in LeafPaths(t) : m[p] \in Views
  BY PlacementFacts, LayerFacts
<1>2. OffsetMapping(m, split) = [p \in LeafPaths(t) |-> OffsetView(m[p], split)]
  BY <1>1 DEF OffsetMapping
<1>3. \A p \in LeafPaths(t) : OffsetView(m[p], split) \in Views
  BY <1>1, OffsetViewFacts
<1> QED BY <1>2, <1>3 DEF Placements

LEMMA ParallelCombineFacts ==
  ASSUME NEW t \in Trees, ~IsLeaf(t), NEW s \in Slices, NEW split \in MachineResourceSplits(s),
         NEW l \in Results(Left(t)), NEW r \in Results(Right(t))
  PROVE  /\ ParallelCombine(split, l, r) \in Results(t)
         /\ ParallelCombine(split, l, r).runtime = Longer(l.runtime, r.runtime)
         /\ ParallelCombine(split, l, r).mapping = CombineMappings(l.mapping, OffsetMapping(r.mapping, split))
<1>1. /\ l.runtime \in Nat /\ l.mapping \in Placements(Left(t)) /\ ~IsInfeasible(l)
      /\ r.runtime \in Nat /\ r.mapping \in Placements(Right(t)) /\ ~IsInfeasible(r)
  BY Sides, ResultFacts
<1>2. OffsetMapping(r.mapping, split) \in Placements(Right(t))
  BY <1>1, Sides, OffsetPlacement
<1>3. CombineMappings(l.mapping, OffsetMapping(r.mapping, split)) \in Placements(t)
  BY <1>1, <1>2, CombinePlacements
<1>4. ParallelCombine(split, l, r) = Feasible(Longer(l.runtime, r.runtime),
                                              CombineMappings(l.mapping, OffsetMapping(r.mapping, split)))
  BY <1>1 DEF ParallelCombine
<1>5. Longer(l.runtime, r.runtime) \in Nat
  BY <1>1 DEF Longer
<1> QED BY <1>3, <1>4, <1>5, FeasibleFacts

LEMMA LeafPlacement ==
  ASSUME NEW t \in Trees, IsLeaf(t), NEW mv \in Views
  PROVE  [p \in {<<>>} |-> mv] \in Placements(t)
<1>1. LeafPaths(t) = {<<>>}
  BY LayerFacts
<1> QED BY <1>1 DEF Placements

(***************************************************************************)
(* The recursive definitions, unfolded.                                    *)
(***************************************************************************)
LeafPlans(ctx, t, slice) ==
  {Feasible(OpCost(ctx, t.leaf, mv), [p \in {<<>>} |-> mv]) : mv \in AllowedViews(t.leaf, slice)}
SeriesPlans(ctx, t, A, B) ==
  {SeriesCombine(CostOf(ctx, t, l.mapping, r.mapping), l, r) : l \in A, r \in B}
SplitPlans(slice, PA, PB) ==
  UNION {{ParallelCombine(split, l, r) : l \in PA[LhsResources(split, slice)],
                                         r \in PB[RhsResources(split, slice)]} :
         split \in MachineResourceSplits(slice)}
PlansOfSides(ctx, t, slice, PA, PB) ==
  SeriesPlans(ctx, t, PA[slice], PB[slice])
  \cup IF IsSeriesSplit(t) THEN {} ELSE SplitPlans(slice, PA, PB)

LEMMA LeafPlansFacts ==
  ASSUME NEW ctx \in Contexts, NEW t \in Trees, IsLeaf(t), NEW s \in Slices, NEW plan
  PROVE  /\ plan \in LeafPlans(ctx, t, s)
              <=> \E mv \in AllowedViews(t.leaf, s) : plan = Feasible(OpCost(ctx, t.leaf, mv), [p \in {<<>>} |-> mv])
         /\ plan \in LeafPlans(ctx, t, s) => plan \in Results(t)
<1>1. plan \in LeafPlans(ctx, t, s)
        <=> \E mv \in AllowedViews(t.leaf, s) : plan = Feasible(OpCost(ctx, t.leaf, mv), [p \in {<<>>} |-> mv])
  BY DEF LeafPlans
<1>2. ASSUME NEW mv \in AllowedViews(t.leaf, s)
      PROVE  Feasible(OpCost(ctx, t.leaf, mv), [p \in {<<>>} |-> mv]) \in Results(t)
  <2>1. t.leaf \in Kinds /\ mv \in Views
    BY Sides, AllowedFacts
  <2>2. OpCost(ctx, t.leaf, mv) \in Nat /\ [p \in {<<>>} |-> mv] \in Placements(t)
    BY <2>1, OpCostType, LeafPlacement
  <2> QED BY <2>2, FeasibleFacts
<1> QED BY <1>1, <1>2

LEMMA SeriesPlansFacts ==
  ASSUME NEW ctx \in Contexts, NEW t \in Trees, ~IsLeaf(t), NEW A \in SUBSET Results(Left(t)),
         NEW B \in SUBSET Results(Right(t)), NEW plan
  PROVE  /\ plan \in SeriesPlans(ctx, t, A, B)
              <=> \E l \in A, r \in B : plan = SeriesCombine(CostOf(ctx, t, l.mapping, r.mapping), l, r)
         /\ plan \in SeriesPlans(ctx, t, A, B) => plan \in Results(t)
<1>1. plan \in SeriesPlans(ctx, t, A, B)
        <=> \E l \in A, r \in B : plan = SeriesCombine(CostOf(ctx, t, l.mapping, r.mapping), l, r)
  BY DEF SeriesPlans
<1>2. ASSUME NEW l \in A, NEW r \in B
      PROVE  SeriesCombine(CostOf(ctx, t, l.mapping, r.mapping), l, r) \in Results(t)
  BY CostType, SeriesCombineFacts
<1> QED BY <1>1, <1>2

IsPlanTable(t, P) == \A s \in Slices : P[s] \subseteq Results(t)

LEMMA SplitPlansFacts ==
  ASSUME NEW t \in Trees, ~IsLeaf(t), NEW s \in Slices,
         NEW PA, IsPlanTable(Left(t), PA), NEW PB, IsPlanTable(Right(t), PB), NEW plan
  PROVE  /\ plan \in SplitPlans(s, PA, PB)
              <=> \E split \in MachineResourceSplits(s) :
                  \E l \in PA[LhsResources(split, s)], r \in PB[RhsResources(split, s)] :
                     plan = ParallelCombine(split, l, r)
         /\ plan \in SplitPlans(s, PA, PB) => plan \in Results(t)
<1>1. plan \in SplitPlans(s, PA, PB)
              <=> \E split \in MachineResourceSplits(s) :
                  \E l \in PA[LhsResources(split, s)], r \in PB[RhsResources(split, s)] :
                     plan = ParallelCombine(split, l, r)
  BY DEF SplitPlans
<1>2. ASSUME NEW split \in MachineResourceSplits(s), NEW l \in PA[LhsResources(split, s)],
             NEW r \in PB[RhsResources(split, s)]
      PROVE  ParallelCombine(split, l, r) \in Results(t)
  <2>1. l \in Results(Left(t)) /\ r \in Results(Right(t))
    BY SplitFacts DEF IsPlanTable
  <2> QED BY <2>1, ParallelCombineFacts
<1> QED BY <1>1, <1>2

LEMMA PlansOfSidesFacts ==
  ASSUME NEW ctx \in Contexts, NEW t \in Trees, ~IsLeaf(t), NEW s \in Slices,
         NEW PA, IsPlanTable(Left(t), PA), NEW PB, IsPlanTable(Right(t), PB), NEW plan
  PROVE  /\ plan \in PlansOfSides(ctx, t, s, PA, PB)
              <=> \/ \E l \in PA[s], r \in PB[s] :
                        plan = SeriesCombine(CostOf(ctx, t, l.mapping, r.mapping), l, r)
                  \/ /\ ~IsSeriesSplit(t)
                     /\ \E split \in MachineResourceSplits(s) :
                        \E l \in PA[LhsResources(split, s)], r \in PB[RhsResources(split, s)] :
                           plan = ParallelCombine(split, l, r)
         /\ plan \in PlansOfSides(ctx, t, s, PA, PB) => plan \in Results(t)
<1>1. PA[s] \in SUBSET Results(Left(t)) /\ PB[s] \in SUBSET Results(Right(t))
  BY DEF IsPlanTable
<1>2. plan \in PlansOfSides(ctx, t, s, PA, PB)
        <=> \/ plan \in SeriesPlans(ctx, t, PA[s], PB[s])
            \/ ~IsSeriesSplit(t) /\ plan \in SplitPlans(s, PA, PB)
  BY DEF PlansOfSides
<1> QED BY <1>1, <1>2, SeriesPlansFacts, SplitPlansFacts

PlanTables(t) == [Slices -> SUBSET Results(t)]

LEMMA PlansUnfold ==
  ASSUME NEW ctx \in Contexts
  PROVE  \A t \in Trees :
           /\ IsPlanTable(t, PlansFor(ctx)[t])
           /\ IsLeaf(t) => \A s \in Slices : PlansFor(ctx)[t][s] = LeafPlans(ctx, t, s)
           /\ ~IsLeaf(t) => \A s \in Slices :
                PlansFor(ctx)[t][s]
                  = PlansOfSides(ctx, t, s, PlansFor(ctx)[Left(t)], PlansFor(ctx)[Right(t)])
<1> DEFINE T == [t \in Trees |-> PlanTables(t)]
           base == [t \in Trees |-> [s \in Slices |-> LeafPlans(ctx, t, s)]]
           step == [t \in Trees |-> [ab \in PlanTables(Left(t)) \X PlanTables(Right(t)) |->
                      [s \in Slices |-> PlansOfSides(ctx, t, s, ab[1], ab[2])]]]
<1>1. \A t \in Trees : IsLeaf(t) => base[t] \in T[t]
  <2> SUFFICES ASSUME NEW t \in Trees, IsLeaf(t)
               PROVE  [s \in Slices |-> LeafPlans(ctx, t, s)] \in PlanTables(t)
    OBVIOUS
  <2>1. \A s \in Slices : LeafPlans(ctx, t, s) \in SUBSET Results(t)
    BY LeafPlansFacts
  <2> QED BY <2>1 DEF PlanTables
<1>2. \A t \in Trees : ~IsLeaf(t) => step[t] \in [T[Left(t)] \X T[Right(t)] -> T[t]]
  <2> SUFFICES ASSUME NEW t \in Trees, ~IsLeaf(t)
               PROVE  step[t] \in [PlanTables(Left(t)) \X PlanTables(Right(t)) -> PlanTables(t)]
    BY Sides
  <2>1. ASSUME NEW ab \in PlanTables(Left(t)) \X PlanTables(Right(t)), NEW s \in Slices
        PROVE  PlansOfSides(ctx, t, s, ab[1], ab[2]) \in SUBSET Results(t)
    <3>1. IsPlanTable(Left(t), ab[1]) /\ IsPlanTable(Right(t), ab[2])
      BY DEF PlanTables, IsPlanTable
    <3> QED BY <3>1, PlansOfSidesFacts
  <2>2. \A ab \in PlanTables(Left(t)) \X PlanTables(Right(t)) :
          [s \in Slices |-> PlansOfSides(ctx, t, s, ab[1], ab[2])] \in PlanTables(t)
    BY <2>1 DEF PlanTables
  <2> QED BY <2>2
<1>3. \A t \in Trees : T[t] = PlanTables(t) /\ base[t] = [s \in Slices |-> LeafPlans(ctx, t, s)]
  OBVIOUS
<1>4. \A t \in Trees : \A a, b : a \in PlanTables(Left(t)) /\ b \in PlanTables(Right(t)) =>
        step[t][<<a, b>>] = [s \in Slices |-> PlansOfSides(ctx, t, s, a, b)]
  OBVIOUS
<1> HIDE DEF T, base, step
<1>5. PICK f : IsRecursion(f, base, step) /\ \A t \in Trees : f[t] \in T[t]
  BY <1>1, <1>2, Recursion
<1> DEFINE P(g) == g = [t \in Trees |-> [s \in Slices |->
                          IF IsLeaf(t) THEN LeafPlans(ctx, t, s)
                          ELSE PlansOfSides(ctx, t, s, g[Left(t)], g[Right(t)])]]
<1>6. P(f)
  <2>1. ASSUME NEW t \in Trees
        PROVE  f[t] = [s \in Slices |-> IF IsLeaf(t) THEN LeafPlans(ctx, t, s)
                                        ELSE PlansOfSides(ctx, t, s, f[Left(t)], f[Right(t)])]
    <3>1. CASE IsLeaf(t)
      BY <1>3, <1>5, <3>1 DEF IsRecursion
    <3>2. CASE ~IsLeaf(t)
      <4>1. f[t] = step[t][<<f[Left(t)], f[Right(t)]>>]
        BY <1>5, <3>2 DEF IsRecursion
      <4>2. f[Left(t)] \in PlanTables(Left(t)) /\ f[Right(t)] \in PlanTables(Right(t))
        BY <1>3, <1>5, <3>2, Sides
      <4> QED BY <1>4, <3>2, <4>1, <4>2
    <3> QED BY <3>1, <3>2
  <2>2. f = [t \in Trees |-> f[t]]
    BY <1>5 DEF IsRecursion, IsOnTrees
  <2> QED BY <2>1, <2>2
<1>7. PlansFor(ctx) = CHOOSE g : P(g)
  BY DEF PlansFor, LeafPlans, PlansOfSides, SeriesPlans, SplitPlans, CostOf
<1>8. P(PlansFor(ctx))
  <2> HIDE DEF P
  <2> QED BY <1>6, <1>7
<1> DEFINE g == PlansFor(ctx)
<1>9. ASSUME NEW t \in Trees
      PROVE  g[t] = [s \in Slices |-> IF IsLeaf(t) THEN LeafPlans(ctx, t, s)
                                      ELSE PlansOfSides(ctx, t, s, g[Left(t)], g[Right(t)])]
  <2>1. P(g)
    BY <1>8
  <2> HIDE DEF g
  <2> QED BY <2>1
<1> HIDE DEF g, P
<1>10. \A t \in Trees : IsPlanTable(t, g[t])
  <2> DEFINE Bad == {t \in Trees : ~IsPlanTable(t, g[t])}
  <2> SUFFICES ASSUME Bad # {} PROVE FALSE
    OBVIOUS
  <2>1. PICK t \in Bad : \A u \in Bad : Depth[t] <= Depth[u]
    <3>1. Bad \in SUBSET Trees /\ Bad # {}
      OBVIOUS
    <3> HIDE DEF Bad
    <3> QED BY <3>1, Shallowest
  <2>2. CASE IsLeaf(t)
    <3>1. \A s \in Slices : g[t][s] = LeafPlans(ctx, t, s)
      BY <1>9, <2>1, <2>2
    <3>2. \A s \in Slices : LeafPlans(ctx, t, s) \subseteq Results(t)
      BY <2>2, LeafPlansFacts
    <3> QED BY <2>1, <3>1, <3>2 DEF IsPlanTable
  <2>3. CASE ~IsLeaf(t)
    <3>1. IsPlanTable(Left(t), g[Left(t)]) /\ IsPlanTable(Right(t), g[Right(t)])
      BY <2>1, <2>3, Sides
    <3>2. \A s \in Slices : PlansOfSides(ctx, t, s, g[Left(t)], g[Right(t)]) \subseteq Results(t)
      BY <2>3, <3>1, PlansOfSidesFacts
    <3>3. IsPlanTable(t, g[t])
      BY <1>9, <2>3, <3>2 DEF IsPlanTable
    <3> QED BY <2>1, <3>3
  <2> QED BY <2>2, <2>3
<1> QED BY <1>9, <1>10 DEF g

\* Plans, by the shape of the tree.
LEMMA PlansType ==
  ASSUME NEW ctx \in Contexts, NEW t \in Trees, NEW s \in Slices, NEW plan \in Plans(ctx, t, s)
  PROVE  plan \in Results(t)
<1>1. IsPlanTable(t, PlansFor(ctx)[t])
  BY PlansUnfold
<1> QED BY <1>1 DEF Plans, IsPlanTable

LEMMA LeafPlan ==
  ASSUME NEW ctx \in Contexts, NEW t \in Trees, IsLeaf(t), NEW s \in Slices, NEW plan \in Plans(ctx, t, s)
  PROVE  \E mv \in AllowedViews(t.leaf, s) : plan = Feasible(OpCost(ctx, t.leaf, mv), [p \in {<<>>} |-> mv])
<1>1. plan \in LeafPlans(ctx, t, s)
  BY PlansUnfold DEF Plans
<1> QED BY <1>1 DEF LeafPlans

LEMMA SplitPlan ==
  ASSUME NEW ctx \in Contexts, NEW t \in Trees, ~IsLeaf(t), NEW s \in Slices, NEW plan \in Plans(ctx, t, s)
  PROVE  \/ \E l \in Plans(ctx, Left(t), s), r \in Plans(ctx, Right(t), s) :
               plan = SeriesCombine(CostOf(ctx, t, l.mapping, r.mapping), l, r)
         \/ /\ ~IsSeriesSplit(t)
            /\ \E split \in MachineResourceSplits(s) :
               \E l \in Plans(ctx, Left(t), LhsResources(split, s)),
                  r \in Plans(ctx, Right(t), RhsResources(split, s)) : plan = ParallelCombine(split, l, r)
<1> DEFINE A == PlansFor(ctx)[Left(t)]
           B == PlansFor(ctx)[Right(t)]
<1>1. /\ IsPlanTable(Left(t), A) /\ IsPlanTable(Right(t), B)
      /\ plan \in PlansOfSides(ctx, t, s, A, B)
  BY Sides, PlansUnfold DEF Plans
<1>2. \/ \E l \in A[s], r \in B[s] : plan = SeriesCombine(CostOf(ctx, t, l.mapping, r.mapping), l, r)
      \/ /\ ~IsSeriesSplit(t)
         /\ \E split \in MachineResourceSplits(s) :
            \E l \in A[LhsResources(split, s)], r \in B[RhsResources(split, s)] :
               plan = ParallelCombine(split, l, r)
  <2> HIDE DEF A, B
  <2> QED BY <1>1, PlansOfSidesFacts
<1> QED BY <1>2 DEF Plans

\* The layers of a side.
LEMMA InsideFacts ==
  ASSUME NEW t \in Trees, ~IsLeaf(t), NEW S \in SUBSET LeafPaths(t)
  PROVE  /\ Inside(S, "l") \in SUBSET LeafPaths(Left(t)) /\ Inside(S, "r") \in SUBSET LeafPaths(Right(t))
         /\ \A p \in Inside(S, "l") : Under("l", p) \in S
         /\ \A p \in Inside(S, "r") : Under("r", p) \in S
<1> DEFINE A == LeafPaths(Left(t))
           B == LeafPaths(Right(t))
<1>1. A \in SUBSET Paths /\ B \in SUBSET Paths /\ S \in SUBSET PathsBeneath(A, B)
  BY Sides, LayerFacts
<1> HIDE DEF A, B
<1>2. \A q \in PathsBeneath(A, B) : \/ Head(q) = "l" /\ Tail(q) \in A /\ q = Under("l", Tail(q))
                                    \/ Head(q) = "r" /\ Tail(q) \in B /\ q = Under("r", Tail(q))
  BY <1>1, PathsBeneathFacts
<1>3. ASSUME NEW p \in Inside(S, "l") PROVE p \in A /\ Under("l", p) \in S
  <2>1. PICK q \in S : Head(q) = "l" /\ p = Tail(q)
    BY DEF Inside
  <2> QED BY <1>1, <1>2, <2>1
<1>4. ASSUME NEW p \in Inside(S, "r") PROVE p \in B /\ Under("r", p) \in S
  <2>1. PICK q \in S : Head(q) = "r" /\ p = Tail(q)
    BY DEF Inside
  <2> QED BY <1>1, <1>2, <2>1
<1> QED BY <1>3, <1>4 DEF A, B

LEMMA InsideGrows ==
  ASSUME NEW S, NEW U, S \subseteq U, NEW side
  PROVE  Inside(S, side) \subseteq Inside(U, side)
BY DEF Inside

LayerSets(t) == SUBSET LeafPaths(t)
LeafRuntimes(ctx, t) == [m \in Placements(t) |-> [S \in LayerSets(t) |-> OpCost(ctx, t.leaf, m[<<>>])]]
Apart(t, ml, mr, S) == UsedDevices(Left(t), ml, Inside(S, "l")) \cap UsedDevices(Right(t), mr, Inside(S, "r")) = {}
SideRuntimes(ctx, t, m, S, rl, rr) ==
  IF IsSeriesSplit(t)
  THEN rl + CostOf(ctx, t, RestrictToChild(m, "l"), RestrictToChild(m, "r")) + rr
  ELSE IF Apart(t, RestrictToChild(m, "l"), RestrictToChild(m, "r"), S)
  THEN Longer(rl, rr) ELSE rl + rr

LEMMA SideRuntimesType ==
  ASSUME NEW ctx \in Contexts, NEW t \in Trees, ~IsLeaf(t), NEW m, NEW S, NEW rl \in Nat, NEW rr \in Nat
  PROVE  SideRuntimes(ctx, t, m, S, rl, rr) \in Nat
<1>1. CostOf(ctx, t, RestrictToChild(m, "l"), RestrictToChild(m, "r")) \in Nat
  BY CostType
<1>2. Longer(rl, rr) \in Nat
  BY DEF Longer
<1> QED BY <1>1, <1>2 DEF SideRuntimes

RuntimeTables(t) == [Placements(t) -> [LayerSets(t) -> Nat]]
RuntimesOfSides(ctx, t, ra, rb) ==
  [m \in Placements(t) |-> [S \in LayerSets(t) |->
     SideRuntimes(ctx, t, m, S, ra[RestrictToChild(m, "l")][Inside(S, "l")],
                                rb[RestrictToChild(m, "r")][Inside(S, "r")])]]

LEMMA RuntimeTablesFacts ==
  ASSUME NEW ctx \in Contexts, NEW t \in Trees
  PROVE  /\ IsLeaf(t) => LeafRuntimes(ctx, t) \in RuntimeTables(t)
         /\ \A a, b : ~IsLeaf(t) /\ a \in RuntimeTables(Left(t)) /\ b \in RuntimeTables(Right(t)) =>
              RuntimesOfSides(ctx, t, a, b) \in RuntimeTables(t)
<1>1. ASSUME IsLeaf(t) PROVE LeafRuntimes(ctx, t) \in RuntimeTables(t)
  BY <1>1, Sides, OpCostType DEF LeafRuntimes, RuntimeTables
<1>2. ASSUME NEW a, NEW b, ~IsLeaf(t), a \in RuntimeTables(Left(t)), b \in RuntimeTables(Right(t))
      PROVE  RuntimesOfSides(ctx, t, a, b) \in RuntimeTables(t)
  <2>1. \A m \in Placements(t) : RestrictToChild(m, "l") \in Placements(Left(t))
                                 /\ RestrictToChild(m, "r") \in Placements(Right(t))
    BY <1>2, RestrictPlacements
  <2>2. \A S \in LayerSets(t) : Inside(S, "l") \in LayerSets(Left(t)) /\ Inside(S, "r") \in LayerSets(Right(t))
    BY <1>2, InsideFacts DEF LayerSets
  <2>3. \A m \in Placements(t), S \in LayerSets(t) : /\ a[RestrictToChild(m, "l")][Inside(S, "l")] \in Nat
                                                     /\ b[RestrictToChild(m, "r")][Inside(S, "r")] \in Nat
    <3>1. \A f \in Placements(Left(t)), U \in LayerSets(Left(t)) : a[f][U] \in Nat
      BY <1>2 DEF RuntimeTables
    <3>2. \A f \in Placements(Right(t)), U \in LayerSets(Right(t)) : b[f][U] \in Nat
      BY <1>2 DEF RuntimeTables
    <3> QED BY <2>1, <2>2, <3>1, <3>2
  <2>4. \A m \in Placements(t), S \in LayerSets(t) :
          SideRuntimes(ctx, t, m, S, a[RestrictToChild(m, "l")][Inside(S, "l")],
                                     b[RestrictToChild(m, "r")][Inside(S, "r")]) \in Nat
    BY <1>2, <2>3, SideRuntimesType
  <2> QED BY <2>4 DEF RuntimesOfSides, RuntimeTables
<1> QED BY <1>1, <1>2

LEMMA RuntimesUnfold ==
  ASSUME NEW ctx \in Contexts
  PROVE  \A t \in Trees :
           /\ RuntimesFor(ctx)[t] \in RuntimeTables(t)
           /\ IsLeaf(t) => RuntimesFor(ctx)[t] = LeafRuntimes(ctx, t)
           /\ ~IsLeaf(t) => RuntimesFor(ctx)[t]
                              = RuntimesOfSides(ctx, t, RuntimesFor(ctx)[Left(t)], RuntimesFor(ctx)[Right(t)])
<1> DEFINE T == [t \in Trees |-> RuntimeTables(t)]
           base == [t \in Trees |-> LeafRuntimes(ctx, t)]
           step == [t \in Trees |-> [ab \in RuntimeTables(Left(t)) \X RuntimeTables(Right(t)) |->
                      RuntimesOfSides(ctx, t, ab[1], ab[2])]]
<1>1. \A t \in Trees : IsLeaf(t) => base[t] \in T[t]
  BY RuntimeTablesFacts
<1>2. \A t \in Trees : ~IsLeaf(t) => step[t] \in [T[Left(t)] \X T[Right(t)] -> T[t]]
  <2> SUFFICES ASSUME NEW t \in Trees, ~IsLeaf(t)
               PROVE  step[t] \in [RuntimeTables(Left(t)) \X RuntimeTables(Right(t)) -> RuntimeTables(t)]
    BY Sides
  <2>1. \A ab \in RuntimeTables(Left(t)) \X RuntimeTables(Right(t)) :
          RuntimesOfSides(ctx, t, ab[1], ab[2]) \in RuntimeTables(t)
    BY RuntimeTablesFacts
  <2> QED BY <2>1
<1>3. \A t \in Trees : T[t] = RuntimeTables(t) /\ base[t] = LeafRuntimes(ctx, t)
  OBVIOUS
<1>4. \A t \in Trees : \A a, b : a \in RuntimeTables(Left(t)) /\ b \in RuntimeTables(Right(t)) =>
        step[t][<<a, b>>] = RuntimesOfSides(ctx, t, a, b)
  OBVIOUS
<1> HIDE DEF T, base, step
<1>5. PICK f : IsRecursion(f, base, step) /\ \A t \in Trees : f[t] \in T[t]
  BY <1>1, <1>2, Recursion
<1> DEFINE Body(g, t) == [m \in Placements(t) |-> [S \in LayerSets(t) |->
                            IF IsLeaf(t) THEN OpCost(ctx, t.leaf, m[<<>>])
                            ELSE SideRuntimes(ctx, t, m, S, g[Left(t)][RestrictToChild(m, "l")][Inside(S, "l")],
                                                            g[Right(t)][RestrictToChild(m, "r")][Inside(S, "r")])]]
           P(g) == g = [t \in Trees |-> Body(g, t)]
<1>0. \A g : \A t \in Trees :
        /\ IsLeaf(t) => Body(g, t) = LeafRuntimes(ctx, t)
        /\ ~IsLeaf(t) => Body(g, t) = RuntimesOfSides(ctx, t, g[Left(t)], g[Right(t)])
  BY DEF LeafRuntimes, RuntimesOfSides
<1>6. P(f)
  <2> HIDE DEF Body
  <2>1. ASSUME NEW t \in Trees PROVE f[t] = Body(f, t)
    <3>1. CASE IsLeaf(t)
      BY <1>0, <1>3, <1>5, <3>1 DEF IsRecursion
    <3>2. CASE ~IsLeaf(t)
      <4>1. f[t] = step[t][<<f[Left(t)], f[Right(t)]>>]
        BY <1>5, <3>2 DEF IsRecursion
      <4>2. f[Left(t)] \in RuntimeTables(Left(t)) /\ f[Right(t)] \in RuntimeTables(Right(t))
        BY <1>3, <1>5, <3>2, Sides
      <4> QED BY <1>0, <1>4, <3>2, <4>1, <4>2
    <3> QED BY <3>1, <3>2
  <2>2. f = [t \in Trees |-> f[t]]
    BY <1>5 DEF IsRecursion, IsOnTrees
  <2> QED BY <2>1, <2>2
<1>7. RuntimesFor(ctx) = CHOOSE g : P(g)
  BY DEF RuntimesFor, SideRuntimes, Placements, LayerSets, CostOf, Apart
<1>8. P(RuntimesFor(ctx))
  <2> HIDE DEF P
  <2> QED BY <1>6, <1>7
<1> DEFINE g == RuntimesFor(ctx)
<1>9. ASSUME NEW t \in Trees PROVE g[t] = Body(g, t)
  <2>1. P(g)
    BY <1>8
  <2> HIDE DEF g, Body
  <2> QED BY <2>1
<1> HIDE DEF g, P, Body
<1>10. \A t \in Trees : g[t] \in RuntimeTables(t)
  <2> DEFINE Bad == {t \in Trees : g[t] \notin RuntimeTables(t)}
  <2> SUFFICES ASSUME Bad # {} PROVE FALSE
    OBVIOUS
  <2>1. PICK t \in Bad : \A u \in Bad : Depth[t] <= Depth[u]
    <3>1. Bad \in SUBSET Trees /\ Bad # {}
      OBVIOUS
    <3> HIDE DEF Bad
    <3> QED BY <3>1, Shallowest
  <2>2. CASE IsLeaf(t)
    BY <1>0, <1>9, <2>1, <2>2, RuntimeTablesFacts
  <2>3. CASE ~IsLeaf(t)
    <3>1. g[Left(t)] \in RuntimeTables(Left(t)) /\ g[Right(t)] \in RuntimeTables(Right(t))
      BY <2>1, <2>3, Sides
    <3> QED BY <1>0, <1>9, <2>1, <2>3, <3>1, RuntimeTablesFacts
  <2> QED BY <2>2, <2>3
<1> QED BY <1>0, <1>9, <1>10 DEF g

\* How long a placement takes, by the shape of the tree.
LEMMA RuntimeFacts ==
  ASSUME NEW ctx \in Contexts, NEW t \in Trees, NEW m \in Placements(t), NEW S \in LayerSets(t)
  PROVE  /\ RuntimeUnder(ctx, t, m, S) \in Nat
         /\ IsLeaf(t) => RuntimeUnder(ctx, t, m, S) = OpCost(ctx, t.leaf, m[<<>>])
         /\ ~IsLeaf(t) => RuntimeUnder(ctx, t, m, S)
              = SideRuntimes(ctx, t, m, S, RuntimeUnder(ctx, Left(t), RestrictToChild(m, "l"), Inside(S, "l")),
                                           RuntimeUnder(ctx, Right(t), RestrictToChild(m, "r"), Inside(S, "r")))
<1> DEFINE R == RuntimesFor(ctx)
<1>0. R[t] \in [Placements(t) -> [LayerSets(t) -> Nat]]
  BY RuntimesUnfold DEF RuntimeTables
<1>1. R[t][m][S] \in Nat
  <2> HIDE DEF R
  <2> QED BY <1>0
<1>2. ASSUME IsLeaf(t) PROVE R[t][m][S] = OpCost(ctx, t.leaf, m[<<>>])
  <2>1. R[t] = LeafRuntimes(ctx, t)
    BY <1>2, RuntimesUnfold
  <2> HIDE DEF R
  <2> QED BY <2>1 DEF LeafRuntimes
<1>3. ASSUME ~IsLeaf(t)
      PROVE  R[t][m][S] = SideRuntimes(ctx, t, m, S, R[Left(t)][RestrictToChild(m, "l")][Inside(S, "l")],
                                                     R[Right(t)][RestrictToChild(m, "r")][Inside(S, "r")])
  <2>1. R[t] = RuntimesOfSides(ctx, t, R[Left(t)], R[Right(t)])
    BY <1>3, RuntimesUnfold
  <2> HIDE DEF R
  <2> QED BY <2>1 DEF RuntimesOfSides
<1> QED BY <1>1, <1>2, <1>3 DEF RuntimeUnder

ExposedOfSides(t, A, B) == IF IsSeriesSplit(t) THEN PathsBeneath(A, B) ELSE {}

LEMMA ExposedUnfolds ==
  \A t \in Trees :
    /\ Exposed[t] \in SUBSET LeafPaths(t)
    /\ IsLeaf(t) => Exposed[t] = {<<>>}
    /\ ~IsLeaf(t) => Exposed[t] = ExposedOfSides(t, Exposed[Left(t)], Exposed[Right(t)])
<1> DEFINE V(t) == SUBSET LeafPaths(t)
           T == [t \in Trees |-> V(t)]
           base == [t \in Trees |-> {<<>>}]
           step == [t \in Trees |-> [ab \in V(Left(t)) \X V(Right(t)) |-> ExposedOfSides(t, ab[1], ab[2])]]
<1>0. ASSUME NEW t \in Trees
      PROVE  /\ IsLeaf(t) => {<<>>} \in V(t)
             /\ \A a, b : ~IsLeaf(t) /\ a \in V(Left(t)) /\ b \in V(Right(t)) => ExposedOfSides(t, a, b) \in V(t)
  <2>1. ASSUME IsLeaf(t) PROVE {<<>>} \in V(t)
    BY <2>1, LayerFacts
  <2>2. ASSUME ~IsLeaf(t), NEW a \in V(Left(t)), NEW b \in V(Right(t))
        PROVE  ExposedOfSides(t, a, b) \in V(t)
    <3>1. /\ LeafPaths(t) = PathsBeneath(LeafPaths(Left(t)), LeafPaths(Right(t)))
          /\ LeafPaths(Left(t)) \in SUBSET Paths /\ LeafPaths(Right(t)) \in SUBSET Paths
      BY <2>2, Sides, LayerFacts
    <3>2. PathsBeneath(a, b) \subseteq PathsBeneath(LeafPaths(Left(t)), LeafPaths(Right(t)))
      BY DEF PathsBeneath, Beneath
    <3> QED BY <3>1, <3>2 DEF ExposedOfSides
  <2> QED BY <2>1, <2>2
<1>1. \A t \in Trees : IsLeaf(t) => base[t] \in T[t]
  BY <1>0
<1>4. \A t \in Trees : \A a, b : a \in V(Left(t)) /\ b \in V(Right(t)) => step[t][<<a, b>>] = ExposedOfSides(t, a, b)
  <2> HIDE DEF V
  <2> QED OBVIOUS
<1>2. \A t \in Trees : ~IsLeaf(t) => step[t] \in [T[Left(t)] \X T[Right(t)] -> T[t]]
  <2> SUFFICES ASSUME NEW t \in Trees, ~IsLeaf(t)
               PROVE  step[t] \in [V(Left(t)) \X V(Right(t)) -> V(t)]
    BY Sides
  <2>1. \A ab \in V(Left(t)) \X V(Right(t)) : ExposedOfSides(t, ab[1], ab[2]) \in V(t)
    BY <1>0
  <2> HIDE DEF V
  <2> QED BY <2>1
<1>3. \A t \in Trees : T[t] = V(t) /\ base[t] = {<<>>}
  OBVIOUS
<1> HIDE DEF T, base, step, V
<1>5. PICK f : IsRecursion(f, base, step) /\ \A t \in Trees : f[t] \in T[t]
  BY <1>1, <1>2, Recursion
<1> DEFINE Body(g, t) == IF IsLeaf(t) THEN {<<>>} ELSE ExposedOfSides(t, g[Left(t)], g[Right(t)])
           P(g) == g = [t \in Trees |-> Body(g, t)]
<1>6. P(f)
  <2>1. ASSUME NEW t \in Trees PROVE f[t] = Body(f, t)
    <3>1. CASE IsLeaf(t)
      BY <1>3, <1>5, <3>1 DEF IsRecursion
    <3>2. CASE ~IsLeaf(t)
      <4>1. f[t] = step[t][<<f[Left(t)], f[Right(t)]>>]
        BY <1>5, <3>2 DEF IsRecursion
      <4>2. f[Left(t)] \in V(Left(t)) /\ f[Right(t)] \in V(Right(t))
        BY <1>3, <1>5, <3>2, Sides
      <4> QED BY <1>4, <3>2, <4>1, <4>2
    <3> QED BY <3>1, <3>2
  <2>2. f = [t \in Trees |-> f[t]]
    BY <1>5 DEF IsRecursion, IsOnTrees
  <2> HIDE DEF Body
  <2> QED BY <2>1, <2>2
<1>7. Exposed = CHOOSE g : P(g)
  BY DEF Exposed, ExposedOfSides, PathsBeneath
<1>8. P(Exposed)
  <2> HIDE DEF P
  <2> QED BY <1>6, <1>7
<1>9. ASSUME NEW t \in Trees PROVE Exposed[t] = Body(Exposed, t)
  BY <1>8
<1> HIDE DEF P
<1>10. \A t \in Trees : Exposed[t] \in V(t)
  <2> DEFINE Bad == {t \in Trees : Exposed[t] \notin V(t)}
  <2> SUFFICES ASSUME Bad # {} PROVE FALSE
    OBVIOUS
  <2>1. PICK t \in Bad : \A u \in Bad : Depth[t] <= Depth[u]
    <3>1. Bad \in SUBSET Trees /\ Bad # {}
      OBVIOUS
    <3> HIDE DEF Bad
    <3> QED BY <3>1, Shallowest
  <2>2. CASE IsLeaf(t)
    BY <1>0, <1>9, <2>1, <2>2
  <2>3. CASE ~IsLeaf(t)
    <3>1. Exposed[Left(t)] \in V(Left(t)) /\ Exposed[Right(t)] \in V(Right(t))
      BY <2>1, <2>3, Sides
    <3> QED BY <1>0, <1>9, <2>1, <2>3, <3>1
  <2> QED BY <2>2, <2>3
<1> QED BY <1>9, <1>10 DEF V

\* The layers in no parallel split, by the shape of the tree.
LEMMA ExposedFacts ==
  ASSUME NEW t \in Trees
  PROVE  /\ Exposed[t] \in SUBSET LeafPaths(t) /\ Exposed[t] \in SUBSET Paths
         /\ IsLeaf(t) => \A p : p \in Exposed[t] <=> p = <<>>
         /\ ~IsLeaf(t) /\ IsSeriesSplit(t) =>
              /\ \A p \in Paths : Under("l", p) \in Exposed[t] <=> p \in Exposed[Left(t)]
              /\ \A p \in Paths : Under("r", p) \in Exposed[t] <=> p \in Exposed[Right(t)]
              /\ \A q \in Exposed[t] :
                   \/ Head(q) = "l" /\ Tail(q) \in Exposed[Left(t)] /\ q = Under("l", Tail(q))
                   \/ Head(q) = "r" /\ Tail(q) \in Exposed[Right(t)] /\ q = Under("r", Tail(q))
         /\ ~IsLeaf(t) /\ ~IsSeriesSplit(t) => \A p : p \notin Exposed[t]
<1>1. Exposed[t] \in SUBSET LeafPaths(t) /\ LeafPaths(t) \in SUBSET Paths
  BY ExposedUnfolds, LayerFacts
<1>2. CASE IsLeaf(t)
  BY <1>1, <1>2, ExposedUnfolds
<1>3. CASE ~IsLeaf(t) /\ IsSeriesSplit(t)
  <2>1. Exposed[Left(t)] \in SUBSET Paths /\ Exposed[Right(t)] \in SUBSET Paths
    BY <1>3, Sides, ExposedUnfolds, LayerFacts
  <2>2. Exposed[t] = PathsBeneath(Exposed[Left(t)], Exposed[Right(t)])
    BY <1>3, ExposedUnfolds DEF ExposedOfSides
  <2> DEFINE A == Exposed[Left(t)]
             B == Exposed[Right(t)]
  <2>3. /\ \A p \in Paths : Under("l", p) \in PathsBeneath(A, B) <=> p \in A
        /\ \A p \in Paths : Under("r", p) \in PathsBeneath(A, B) <=> p \in B
        /\ \A q \in PathsBeneath(A, B) :
              \/ Head(q) = "l" /\ Tail(q) \in A /\ q = Under("l", Tail(q))
              \/ Head(q) = "r" /\ Tail(q) \in B /\ q = Under("r", Tail(q))
    BY <2>1, PathsBeneathFacts
  <2> QED BY <1>1, <1>3, <2>2, <2>3
<1>4. CASE ~IsLeaf(t) /\ ~IsSeriesSplit(t)
  <2>1. Exposed[t] = {}
    BY <1>4, ExposedUnfolds DEF ExposedOfSides
  <2> QED BY <1>1, <1>4, <2>1
<1> QED BY <1>2, <1>3, <1>4

AroundOfSides(t, A, B) ==
  PathsBeneath(A \cup ({mv.src : mv \in Moves(t)} \ Exposed[Left(t)]),
               B \cup ({mv.dst : mv \in Moves(t)} \ Exposed[Right(t)]))

LEMMA FixedAroundUnfolds ==
  \A t \in Trees :
    /\ FixedAround[t] \in SUBSET Paths
    /\ IsLeaf(t) => FixedAround[t] = {}
    /\ ~IsLeaf(t) => FixedAround[t] = AroundOfSides(t, FixedAround[Left(t)], FixedAround[Right(t)])
<1> DEFINE V == SUBSET Paths
           T == [t \in Trees |-> V]
           base == [t \in Trees |-> {}]
           step == [t \in Trees |-> [ab \in V \X V |-> AroundOfSides(t, ab[1], ab[2])]]
<1>0. ASSUME NEW t \in Trees, ~IsLeaf(t), NEW a \in V, NEW b \in V PROVE AroundOfSides(t, a, b) \in V
  <2>1. /\ \A mv \in Moves(t) : mv.src \in LeafPaths(Left(t)) /\ mv.dst \in LeafPaths(Right(t))
        /\ LeafPaths(Left(t)) \in SUBSET Paths /\ LeafPaths(Right(t)) \in SUBSET Paths
    BY <1>0, MovesFacts, Sides, LayerFacts
  <2> DEFINE A == a \cup ({mv.src : mv \in Moves(t)} \ Exposed[Left(t)])
             B == b \cup ({mv.dst : mv \in Moves(t)} \ Exposed[Right(t)])
  <2>2. A \in SUBSET Paths /\ B \in SUBSET Paths
    BY <2>1
  <2>3. PathsBeneath(A, B) \in SUBSET Paths
    <3> HIDE DEF A, B
    <3> QED BY <2>2, PathsBeneathFacts
  <2> QED BY <2>3 DEF AroundOfSides
<1>1. \A t \in Trees : IsLeaf(t) => base[t] \in T[t]
  OBVIOUS
<1>4. \A t \in Trees : \A a, b : a \in V /\ b \in V => step[t][<<a, b>>] = AroundOfSides(t, a, b)
  <2> HIDE DEF V
  <2> QED OBVIOUS
<1>2. \A t \in Trees : ~IsLeaf(t) => step[t] \in [T[Left(t)] \X T[Right(t)] -> T[t]]
  <2> SUFFICES ASSUME NEW t \in Trees, ~IsLeaf(t) PROVE step[t] \in [V \X V -> V]
    BY Sides
  <2>1. \A ab \in V \X V : AroundOfSides(t, ab[1], ab[2]) \in V
    BY <1>0
  <2> HIDE DEF V
  <2> QED BY <2>1
<1>3. \A t \in Trees : T[t] = V /\ base[t] = {}
  OBVIOUS
<1> HIDE DEF T, base, step, V
<1>5. PICK f : IsRecursion(f, base, step) /\ \A t \in Trees : f[t] \in T[t]
  BY <1>1, <1>2, Recursion
<1> DEFINE Body(g, t) == IF IsLeaf(t) THEN {} ELSE AroundOfSides(t, g[Left(t)], g[Right(t)])
           P(g) == g = [t \in Trees |-> Body(g, t)]
<1>6. P(f)
  <2>1. ASSUME NEW t \in Trees PROVE f[t] = Body(f, t)
    <3>1. CASE IsLeaf(t)
      BY <1>3, <1>5, <3>1 DEF IsRecursion
    <3>2. CASE ~IsLeaf(t)
      <4>1. f[t] = step[t][<<f[Left(t)], f[Right(t)]>>]
        BY <1>5, <3>2 DEF IsRecursion
      <4>2. f[Left(t)] \in V /\ f[Right(t)] \in V
        BY <1>3, <1>5, <3>2, Sides
      <4> QED BY <1>4, <3>2, <4>1, <4>2
    <3> QED BY <3>1, <3>2
  <2>2. f = [t \in Trees |-> f[t]]
    BY <1>5 DEF IsRecursion, IsOnTrees
  <2> HIDE DEF Body
  <2> QED BY <2>1, <2>2
<1>7. FixedAround = CHOOSE g : P(g)
  BY DEF FixedAround, AroundOfSides, PathsBeneath
<1>8. P(FixedAround)
  <2> HIDE DEF P
  <2> QED BY <1>6, <1>7
<1>9. ASSUME NEW t \in Trees PROVE FixedAround[t] = Body(FixedAround, t)
  BY <1>8
<1> HIDE DEF P
<1>10. \A t \in Trees : FixedAround[t] \in V
  <2> DEFINE Bad == {t \in Trees : FixedAround[t] \notin V}
  <2> SUFFICES ASSUME Bad # {} PROVE FALSE
    OBVIOUS
  <2>1. PICK t \in Bad : \A u \in Bad : Depth[t] <= Depth[u]
    <3>1. Bad \in SUBSET Trees /\ Bad # {}
      OBVIOUS
    <3> HIDE DEF Bad
    <3> QED BY <3>1, Shallowest
  <2>2. CASE IsLeaf(t)
    BY <1>9, <2>1, <2>2 DEF V
  <2>3. CASE ~IsLeaf(t)
    <3>1. FixedAround[Left(t)] \in V /\ FixedAround[Right(t)] \in V
      BY <2>1, <2>3, Sides
    <3> QED BY <1>0, <1>9, <2>1, <2>3, <3>1
  <2> QED BY <2>2, <2>3
<1> QED BY <1>9, <1>10 DEF V

\* The layers whose views are fixed around a parallel split, by the shape of the tree.
LEMMA FixedAroundFacts ==
  ASSUME NEW t \in Trees
  PROVE  /\ IsLeaf(t) => \A p : p \notin FixedAround[t]
         /\ ~IsLeaf(t) =>
              /\ \A p \in FixedAround[Left(t)] : Under("l", p) \in FixedAround[t]
              /\ \A p \in FixedAround[Right(t)] : Under("r", p) \in FixedAround[t]
              /\ \A mv \in Moves(t) : mv.src \in Exposed[Left(t)] \/ Under("l", mv.src) \in FixedAround[t]
              /\ \A mv \in Moves(t) : mv.dst \in Exposed[Right(t)] \/ Under("r", mv.dst) \in FixedAround[t]
<1>1. ASSUME IsLeaf(t) PROVE \A p : p \notin FixedAround[t]
  BY <1>1, FixedAroundUnfolds
<1>2. ASSUME ~IsLeaf(t)
      PROVE  /\ \A p \in FixedAround[Left(t)] : Under("l", p) \in FixedAround[t]
             /\ \A p \in FixedAround[Right(t)] : Under("r", p) \in FixedAround[t]
             /\ \A mv \in Moves(t) : mv.src \in Exposed[Left(t)] \/ Under("l", mv.src) \in FixedAround[t]
             /\ \A mv \in Moves(t) : mv.dst \in Exposed[Right(t)] \/ Under("r", mv.dst) \in FixedAround[t]
  <2> DEFINE A == FixedAround[Left(t)] \cup ({mv.src : mv \in Moves(t)} \ Exposed[Left(t)])
             B == FixedAround[Right(t)] \cup ({mv.dst : mv \in Moves(t)} \ Exposed[Right(t)])
  <2>1. FixedAround[t] = PathsBeneath(A, B)
    BY <1>2, FixedAroundUnfolds DEF AroundOfSides
  <2>2. /\ \A p \in FixedAround[Left(t)] : p \in A
        /\ \A p \in FixedAround[Right(t)] : p \in B
        /\ \A mv \in Moves(t) : mv.src \in Exposed[Left(t)] \/ mv.src \in A
        /\ \A mv \in Moves(t) : mv.dst \in Exposed[Right(t)] \/ mv.dst \in B
    OBVIOUS
  <2> HIDE DEF A, B
  <2>3. /\ \A p \in A : Under("l", p) \in PathsBeneath(A, B)
        /\ \A p \in B : Under("r", p) \in PathsBeneath(A, B)
    BY DEF PathsBeneath, Beneath
  <2> QED BY <2>1, <2>2, <2>3
<1> QED BY <1>1, <1>2

(***************************************************************************)
(* What plans and placements have in common.                               *)
(***************************************************************************)
LEMMA TreeInduction ==
  ASSUME NEW Good \in SUBSET Trees,
         \A t \in Trees : IsLeaf(t) => t \in Good,
         \A t \in Trees : ~IsLeaf(t) /\ Left(t) \in Good /\ Right(t) \in Good => t \in Good
  PROVE  Good = Trees
<1> DEFINE Bad == Trees \ Good
<1> SUFFICES ASSUME Bad # {} PROVE FALSE
  OBVIOUS
<1>1. PICK t \in Bad : \A u \in Bad : Depth[t] <= Depth[u]
  <2>1. Bad \in SUBSET Trees /\ Bad # {}
    OBVIOUS
  <2> HIDE DEF Bad
  <2> QED BY <2>1, Shallowest
<1>2. ~IsLeaf(t) /\ t \in Trees
  BY <1>1
<1>3. Left(t) \in Good /\ Right(t) \in Good
  BY <1>1, <1>2, Sides
<1> QED BY <1>1, <1>2, <1>3

\* The placement m uses only views that are allowed on the slice s.
WithinSlice(t, m, s) == \A p \in LeafPaths(t) : m[p] \in AllowedViews(KindAt(t, p), s)

LEMMA WithinCombined ==
  ASSUME NEW t \in Trees, ~IsLeaf(t), NEW s \in Slices,
         NEW f \in Placements(Left(t)), WithinSlice(Left(t), f, s),
         NEW g \in Placements(Right(t)), WithinSlice(Right(t), g, s)
  PROVE  WithinSlice(t, CombineMappings(f, g), s)
<1> SUFFICES ASSUME NEW q \in LeafPaths(t)
             PROVE  CombineMappings(f, g)[q] \in AllowedViews(KindAt(t, q), s)
  BY DEF WithinSlice
<1>1. /\ LeafPaths(Left(t)) \in SUBSET Paths /\ LeafPaths(Right(t)) \in SUBSET Paths
      /\ q \in PathsBeneath(LeafPaths(Left(t)), LeafPaths(Right(t)))
  BY Sides, LayerFacts
<1>2. \/ Tail(q) \in LeafPaths(Left(t)) /\ q = Under("l", Tail(q))
      \/ Tail(q) \in LeafPaths(Right(t)) /\ q = Under("r", Tail(q))
  BY <1>1, PathsBeneathFacts
<1>3. CASE Tail(q) \in LeafPaths(Left(t)) /\ q = Under("l", Tail(q))
  <2>1. CombineMappings(f, g)[Under("l", Tail(q))] = f[Tail(q)]
    BY <1>3, CombinePlacements
  <2>2. KindAt(t, Under("l", Tail(q))) = KindAt(Left(t), Tail(q))
    BY <1>3, LayerFacts
  <2> QED BY <1>3, <2>1, <2>2 DEF WithinSlice
<1>4. CASE Tail(q) \in LeafPaths(Right(t)) /\ q = Under("r", Tail(q))
  <2>1. CombineMappings(f, g)[Under("r", Tail(q))] = g[Tail(q)]
    BY <1>4, CombinePlacements
  <2>2. KindAt(t, Under("r", Tail(q))) = KindAt(Right(t), Tail(q))
    BY <1>4, LayerFacts
  <2> QED BY <1>4, <2>1, <2>2 DEF WithinSlice
<1> QED BY <1>2, <1>3, <1>4

LEMMA WithinParts ==
  ASSUME NEW t \in Trees, NEW s \in Slices, NEW split \in MachineResourceSplits(s), NEW m \in Placements(t)
  PROVE  /\ WithinSlice(t, m, LhsResources(split, s)) => WithinSlice(t, m, s)
         /\ WithinSlice(t, m, RhsResources(split, s)) => WithinSlice(t, OffsetMapping(m, split), s)
<1>1. \A p \in LeafPaths(t) : KindAt(t, p) \in Kinds /\ OffsetMapping(m, split)[p] = OffsetView(m[p], split)
  BY LayerFacts, OffsetPlacement
<1> QED BY <1>1, AllowedLeft, AllowedRight DEF WithinSlice

LEMMA PlansStayWithin ==
  ASSUME NEW ctx \in Contexts
  PROVE  \A t \in Trees, s \in Slices : \A plan \in Plans(ctx, t, s) : WithinSlice(t, plan.mapping, s)
<1> DEFINE G(t) == \A s \in Slices : \A plan \in Plans(ctx, t, s) : WithinSlice(t, plan.mapping, s)
           Good == {t \in Trees : G(t)}
<1>1. ASSUME NEW t \in Trees, IsLeaf(t) PROVE G(t)
  <2> SUFFICES ASSUME NEW s \in Slices, NEW plan \in Plans(ctx, t, s)
               PROVE  WithinSlice(t, plan.mapping, s)
    OBVIOUS
  <2>1. PICK mv \in AllowedViews(t.leaf, s) : plan = Feasible(OpCost(ctx, t.leaf, mv), [p \in {<<>>} |-> mv])
    BY <1>1, LeafPlan
  <2>2. plan.mapping[<<>>] = mv
    BY <2>1 DEF Feasible
  <2> QED BY <1>1, <2>2, LayerFacts DEF WithinSlice
<1>2. ASSUME NEW t \in Trees, ~IsLeaf(t), G(Left(t)), G(Right(t)) PROVE G(t)
  <2> SUFFICES ASSUME NEW s \in Slices, NEW plan \in Plans(ctx, t, s)
               PROVE  WithinSlice(t, plan.mapping, s)
    OBVIOUS
  <2>0. Left(t) \in Trees /\ Right(t) \in Trees
    BY <1>2, Sides
  <2>1. CASE \E l \in Plans(ctx, Left(t), s), r \in Plans(ctx, Right(t), s) :
                plan = SeriesCombine(CostOf(ctx, t, l.mapping, r.mapping), l, r)
    <3>1. PICK l \in Plans(ctx, Left(t), s), r \in Plans(ctx, Right(t), s) :
                plan = SeriesCombine(CostOf(ctx, t, l.mapping, r.mapping), l, r)
      BY <2>1
    <3>2. l \in Results(Left(t)) /\ r \in Results(Right(t))
      BY <2>0, PlansType
    <3>3. plan.mapping = CombineMappings(l.mapping, r.mapping)
      BY <1>2, <3>1, <3>2, CostType, SeriesCombineFacts
    <3>4. l.mapping \in Placements(Left(t)) /\ r.mapping \in Placements(Right(t))
      BY <2>0, <3>2, ResultFacts
    <3>5. WithinSlice(Left(t), l.mapping, s) /\ WithinSlice(Right(t), r.mapping, s)
      BY <1>2
    <3> QED BY <1>2, <3>3, <3>4, <3>5, WithinCombined
  <2>2. CASE \E split \in MachineResourceSplits(s) :
               \E l \in Plans(ctx, Left(t), LhsResources(split, s)),
                  r \in Plans(ctx, Right(t), RhsResources(split, s)) : plan = ParallelCombine(split, l, r)
    <3>1. PICK split \in MachineResourceSplits(s) :
               \E l \in Plans(ctx, Left(t), LhsResources(split, s)),
                  r \in Plans(ctx, Right(t), RhsResources(split, s)) : plan = ParallelCombine(split, l, r)
      BY <2>2
    <3>2. PICK l \in Plans(ctx, Left(t), LhsResources(split, s)),
               r \in Plans(ctx, Right(t), RhsResources(split, s)) : plan = ParallelCombine(split, l, r)
      BY <3>1
    <3>3. LhsResources(split, s) \in Slices /\ RhsResources(split, s) \in Slices
      BY SplitFacts
    <3>4. l \in Results(Left(t)) /\ r \in Results(Right(t))
      BY <2>0, <3>3, PlansType
    <3>5. plan.mapping = CombineMappings(l.mapping, OffsetMapping(r.mapping, split))
      BY <1>2, <3>2, <3>4, ParallelCombineFacts
    <3>6. l.mapping \in Placements(Left(t)) /\ r.mapping \in Placements(Right(t))
      BY <2>0, <3>4, ResultFacts
    <3>7. WithinSlice(Left(t), l.mapping, LhsResources(split, s))
          /\ WithinSlice(Right(t), r.mapping, RhsResources(split, s))
      BY <1>2, <3>3
    <3>8. WithinSlice(Left(t), l.mapping, s) /\ WithinSlice(Right(t), OffsetMapping(r.mapping, split), s)
      BY <2>0, <3>6, <3>7, WithinParts
    <3>9. OffsetMapping(r.mapping, split) \in Placements(Right(t))
      BY <2>0, <3>6, OffsetPlacement
    <3> QED BY <1>2, <3>5, <3>6, <3>8, <3>9, WithinCombined
  <2> QED BY <1>2, <2>1, <2>2, SplitPlan
<1>3. Good \in SUBSET Trees /\ \A t \in Trees : t \in Good <=> G(t)
  OBVIOUS
<1> HIDE DEF Good, G
<1>4. Good = Trees
  BY <1>1, <1>2, <1>3, Sides, TreeInduction
<1>5. \A t \in Trees : G(t)
  BY <1>3, <1>4
<1> QED BY <1>5 DEF G

\* The devices that layers use.
LEMMA UsedFacts ==
  ASSUME NEW t, NEW m, NEW S, NEW c
  PROVE  c \in UsedDevices(t, m, S) <=> \E p \in S : c \in Devices(KindAt(t, p), m[p])
BY DEF UsedDevices

LEMMA DevicesMove ==
  ASSUME NEW kind \in Kinds, NEW x \in Nat, NEW y \in Nat, NEW v, NEW w, IsMoved(v, w, x, y)
  PROVE  /\ \A c \in Devices(kind, w) : \E d \in Devices(kind, v) : IsPlace(d) /\ c = Moved(d, x, y)
         /\ \A d \in Devices(kind, v) : IsPlace(d) /\ Moved(d, x, y) \in Devices(kind, w)
<1>1. \A k \in 0..(Degree[kind] - 1) :
        IsPlace(Coordinate(v, k)) /\ Coordinate(w, k) = Moved(Coordinate(v, k), x, y)
  BY CoordinateMoves
<1> QED BY <1>1 DEF Devices

LEMMA UsedMove ==
  ASSUME NEW t \in Trees, NEW x \in Nat, NEW y \in Nat, NEW m, NEW n, IsMovedMapping(m, n, LeafPaths(t), x, y),
         NEW S \in SUBSET LeafPaths(t)
  PROVE  /\ \A c \in UsedDevices(t, n, S) : \E d \in UsedDevices(t, m, S) : IsPlace(d) /\ c = Moved(d, x, y)
         /\ \A d \in UsedDevices(t, m, S) : IsPlace(d) /\ Moved(d, x, y) \in UsedDevices(t, n, S)
<1>1. ASSUME NEW p \in LeafPaths(t)
      PROVE  /\ \A c \in Devices(KindAt(t, p), n[p]) :
                   \E d \in Devices(KindAt(t, p), m[p]) : IsPlace(d) /\ c = Moved(d, x, y)
             /\ \A d \in Devices(KindAt(t, p), m[p]) :
                   IsPlace(d) /\ Moved(d, x, y) \in Devices(KindAt(t, p), n[p])
  BY LayerFacts, DevicesMove DEF IsMovedMapping
<1> QED BY <1>1, UsedFacts

LEMMA ApartMoves ==
  ASSUME NEW t \in Trees, ~IsLeaf(t), NEW x \in Nat, NEW y \in Nat, NEW l1, NEW r1, NEW l2, NEW r2,
         IsMovedMapping(l1, l2, LeafPaths(Left(t)), x, y), IsMovedMapping(r1, r2, LeafPaths(Right(t)), x, y),
         NEW S \in SUBSET LeafPaths(t)
  PROVE  Apart(t, l1, r1, S) <=> Apart(t, l2, r2, S)
<1> DEFINE A(m) == UsedDevices(Left(t), m, Inside(S, "l"))
           B(m) == UsedDevices(Right(t), m, Inside(S, "r"))
<1>0. Inside(S, "l") \in SUBSET LeafPaths(Left(t)) /\ Inside(S, "r") \in SUBSET LeafPaths(Right(t))
  BY InsideFacts
<1>1. /\ \A c \in A(l2) : \E d \in A(l1) : IsPlace(d) /\ c = Moved(d, x, y)
      /\ \A d \in A(l1) : IsPlace(d) /\ Moved(d, x, y) \in A(l2)
  BY <1>0, Sides, UsedMove
<1>2. /\ \A c \in B(r2) : \E d \in B(r1) : IsPlace(d) /\ c = Moved(d, x, y)
      /\ \A d \in B(r1) : IsPlace(d) /\ Moved(d, x, y) \in B(r2)
  BY <1>0, Sides, UsedMove
<1>3. \A m, n : Apart(t, m, n, S) <=> \A c : ~(c \in A(m) /\ c \in B(n))
  BY DEF Apart
<1> HIDE DEF A, B
<1>4. ASSUME NEW c, c \in A(l1), c \in B(r1)
      PROVE  Moved(c, x, y) \in A(l2) /\ Moved(c, x, y) \in B(r2)
  BY <1>1, <1>2, <1>4
<1>5. ASSUME NEW c, c \in A(l2), c \in B(r2)
      PROVE  \E d : d \in A(l1) /\ d \in B(r1)
  <2>1. PICK d \in A(l1) : IsPlace(d) /\ c = Moved(d, x, y)
    BY <1>1, <1>5
  <2>2. PICK e \in B(r1) : IsPlace(e) /\ c = Moved(e, x, y)
    BY <1>2, <1>5
  <2>3. d = e
    BY <2>1, <2>2, MovedInjective
  <2> QED BY <2>3
<1> QED BY <1>3, <1>4, <1>5

LEMMA RestrictMoved ==
  ASSUME NEW t \in Trees, ~IsLeaf(t), NEW x \in Nat, NEW y \in Nat, NEW m \in Placements(t), NEW n \in Placements(t),
         IsMovedMapping(m, n, LeafPaths(t), x, y)
  PROVE  /\ IsMovedMapping(RestrictToChild(m, "l"), RestrictToChild(n, "l"), LeafPaths(Left(t)), x, y)
         /\ IsMovedMapping(RestrictToChild(m, "r"), RestrictToChild(n, "r"), LeafPaths(Right(t)), x, y)
<1>1. /\ LeafPaths(Left(t)) \in SUBSET Paths /\ LeafPaths(Right(t)) \in SUBSET Paths
      /\ LeafPaths(t) = PathsBeneath(LeafPaths(Left(t)), LeafPaths(Right(t)))
  BY Sides, LayerFacts
<1>2. /\ \A p \in LeafPaths(Left(t)) : Under("l", p) \in LeafPaths(t)
      /\ \A p \in LeafPaths(Right(t)) : Under("r", p) \in LeafPaths(t)
  <2> DEFINE A == LeafPaths(Left(t))
             B == LeafPaths(Right(t))
  <2>1. /\ \A p \in A : Under("l", p) \in PathsBeneath(A, B)
        /\ \A p \in B : Under("r", p) \in PathsBeneath(A, B)
    <3> HIDE DEF A, B
    <3>1. A \in SUBSET Paths /\ B \in SUBSET Paths
      BY <1>1 DEF A, B
    <3> QED BY <3>1, PathsBeneathFacts
  <2> QED BY <1>1, <2>1
<1>3. /\ \A p \in LeafPaths(Left(t)) : RestrictToChild(m, "l")[p] = m[Under("l", p)]
      /\ \A p \in LeafPaths(Left(t)) : RestrictToChild(n, "l")[p] = n[Under("l", p)]
      /\ \A p \in LeafPaths(Right(t)) : RestrictToChild(m, "r")[p] = m[Under("r", p)]
      /\ \A p \in LeafPaths(Right(t)) : RestrictToChild(n, "r")[p] = n[Under("r", p)]
  BY RestrictPlacements
<1> QED BY <1>2, <1>3 DEF IsMovedMapping

\* A placement takes as long somewhere else on the machine.
LEMMA RuntimeMoves ==
  ASSUME NEW ctx \in Contexts, NEW x \in Nat, NEW y \in Nat
  PROVE  \A t \in Trees : \A m, n \in Placements(t), S \in LayerSets(t) :
           IsMovedMapping(m, n, LeafPaths(t), x, y) => RuntimeUnder(ctx, t, n, S) = RuntimeUnder(ctx, t, m, S)
<1> DEFINE G(t) == \A m, n \in Placements(t), S \in LayerSets(t) :
                     IsMovedMapping(m, n, LeafPaths(t), x, y) =>
                       RuntimeUnder(ctx, t, n, S) = RuntimeUnder(ctx, t, m, S)
           Good == {t \in Trees : G(t)}
<1>1. ASSUME NEW t \in Trees, IsLeaf(t) PROVE G(t)
  <2> SUFFICES ASSUME NEW m \in Placements(t), NEW n \in Placements(t), NEW S \in LayerSets(t),
                      IsMovedMapping(m, n, LeafPaths(t), x, y)
               PROVE  RuntimeUnder(ctx, t, n, S) = RuntimeUnder(ctx, t, m, S)
    OBVIOUS
  <2>1. IsMoved(m[<<>>], n[<<>>], x, y)
    BY <1>1, LayerFacts DEF IsMovedMapping
  <2>2. OpCost(ctx, t.leaf, m[<<>>]) = OpCost(ctx, t.leaf, n[<<>>])
    BY <2>1 DEF OpCost, IsMoved
  <2> QED BY <1>1, <2>2, RuntimeFacts
<1>2. ASSUME NEW t \in Trees, ~IsLeaf(t), G(Left(t)), G(Right(t)) PROVE G(t)
  <2> SUFFICES ASSUME NEW m \in Placements(t), NEW n \in Placements(t), NEW S \in LayerSets(t),
                      IsMovedMapping(m, n, LeafPaths(t), x, y)
               PROVE  RuntimeUnder(ctx, t, n, S) = RuntimeUnder(ctx, t, m, S)
    OBVIOUS
  <2> DEFINE ml == RestrictToChild(m, "l")
             mr == RestrictToChild(m, "r")
             nl == RestrictToChild(n, "l")
             nr == RestrictToChild(n, "r")
             sl == Inside(S, "l")
             sr == Inside(S, "r")
  <2>0. sl \in LayerSets(Left(t)) /\ sr \in LayerSets(Right(t))
    BY <1>2, InsideFacts DEF LayerSets
  <2>1. /\ ml \in Placements(Left(t)) /\ nl \in Placements(Left(t))
        /\ mr \in Placements(Right(t)) /\ nr \in Placements(Right(t))
    BY <1>2, RestrictPlacements
  <2>2. /\ IsMovedMapping(ml, nl, LeafPaths(Left(t)), x, y)
        /\ IsMovedMapping(mr, nr, LeafPaths(Right(t)), x, y)
    BY <1>2, RestrictMoved
  <2>3. /\ RuntimeUnder(ctx, Left(t), nl, sl) = RuntimeUnder(ctx, Left(t), ml, sl)
        /\ RuntimeUnder(ctx, Right(t), nr, sr) = RuntimeUnder(ctx, Right(t), mr, sr)
    BY <1>2, <2>0, <2>1, <2>2
  <2>4. CostOf(ctx, t, nl, nr) = CostOf(ctx, t, ml, mr)
    BY <1>2, <2>2, CrossingMoves
  <2>5. Apart(t, ml, mr, S) <=> Apart(t, nl, nr, S)
    BY <1>2, <2>2, ApartMoves DEF LayerSets
  <2>6. SideRuntimes(ctx, t, n, S, RuntimeUnder(ctx, Left(t), nl, sl), RuntimeUnder(ctx, Right(t), nr, sr))
          = SideRuntimes(ctx, t, m, S, RuntimeUnder(ctx, Left(t), ml, sl), RuntimeUnder(ctx, Right(t), mr, sr))
    BY <2>3, <2>4, <2>5 DEF SideRuntimes
  <2> QED BY <1>2, <2>6, RuntimeFacts
<1>3. Good \in SUBSET Trees /\ \A t \in Trees : t \in Good <=> G(t)
  OBVIOUS
<1> HIDE DEF Good, G
<1>4. Good = Trees
  BY <1>1, <1>2, <1>3, Sides, TreeInduction
<1>5. \A t \in Trees : G(t)
  BY <1>3, <1>4
<1> QED BY <1>5 DEF G

LEMMA RuntimeOfOffset ==
  ASSUME NEW ctx \in Contexts, NEW t \in Trees, NEW s \in Slices, NEW split \in MachineResourceSplits(s),
         NEW m \in Placements(t), NEW S \in LayerSets(t)
  PROVE  RuntimeUnder(ctx, t, OffsetMapping(m, split), S) = RuntimeUnder(ctx, t, m, S)
<1>1. PICK x \in Nat, y \in Nat : \A v \in Views : IsMoved(v, OffsetView(v, split), x, y)
  BY OffsetMoves
<1>2. /\ OffsetMapping(m, split) \in Placements(t)
      /\ \A p \in LeafPaths(t) : OffsetMapping(m, split)[p] = OffsetView(m[p], split)
      /\ \A p \in LeafPaths(t) : m[p] \in Views
  BY OffsetPlacement, PlacementFacts
<1>3. IsMovedMapping(m, OffsetMapping(m, split), LeafPaths(t), x, y)
  BY <1>1, <1>2 DEF IsMovedMapping
<1> QED BY <1>2, <1>3, RuntimeMoves

\* The more layers count for sharing a device, the longer a placement takes.
LEMMA SideRuntimesGrow ==
  ASSUME NEW ctx \in Contexts, NEW t \in Trees, ~IsLeaf(t), NEW m, NEW S, NEW U, S \subseteq U,
         NEW a \in Nat, NEW b \in Nat, NEW a2 \in Nat, NEW b2 \in Nat, a <= a2, b <= b2
  PROVE  SideRuntimes(ctx, t, m, S, a, b) <= SideRuntimes(ctx, t, m, U, a2, b2)
<1> DEFINE c == CostOf(ctx, t, RestrictToChild(m, "l"), RestrictToChild(m, "r"))
           near(W) == Apart(t, RestrictToChild(m, "l"), RestrictToChild(m, "r"), W)
<1>1. c \in Nat
  BY CostType
<1>2. near(U) => near(S)
  <2>1. /\ UsedDevices(Left(t), RestrictToChild(m, "l"), Inside(S, "l"))
             \subseteq UsedDevices(Left(t), RestrictToChild(m, "l"), Inside(U, "l"))
        /\ UsedDevices(Right(t), RestrictToChild(m, "r"), Inside(S, "r"))
             \subseteq UsedDevices(Right(t), RestrictToChild(m, "r"), Inside(U, "r"))
    BY InsideGrows DEF UsedDevices
  <2> QED BY <2>1 DEF Apart
<1>3. /\ Longer(a, b) <= Longer(a2, b2) /\ Longer(a, b) <= a2 + b2 /\ a + b <= a2 + b2
  BY DEF Longer
<1>4. SideRuntimes(ctx, t, m, S, a, b) = IF IsSeriesSplit(t) THEN a + c + b ELSE IF near(S) THEN Longer(a, b) ELSE a + b
  BY DEF SideRuntimes
<1>5. SideRuntimes(ctx, t, m, U, a2, b2)
        = IF IsSeriesSplit(t) THEN a2 + c + b2 ELSE IF near(U) THEN Longer(a2, b2) ELSE a2 + b2
  BY DEF SideRuntimes
<1> HIDE DEF c, near
<1> QED BY <1>1, <1>2, <1>3, <1>4, <1>5

LEMMA RuntimeGrows ==
  ASSUME NEW ctx \in Contexts
  PROVE  \A t \in Trees : \A m \in Placements(t), S, U \in LayerSets(t) :
           S \subseteq U => RuntimeUnder(ctx, t, m, S) <= RuntimeUnder(ctx, t, m, U)
<1> DEFINE G(t) == \A m \in Placements(t), S, U \in LayerSets(t) :
                     S \subseteq U => RuntimeUnder(ctx, t, m, S) <= RuntimeUnder(ctx, t, m, U)
           Good == {t \in Trees : G(t)}
<1>1. ASSUME NEW t \in Trees, IsLeaf(t) PROVE G(t)
  BY <1>1, RuntimeFacts
<1>2. ASSUME NEW t \in Trees, ~IsLeaf(t), G(Left(t)), G(Right(t)) PROVE G(t)
  <2> SUFFICES ASSUME NEW m \in Placements(t), NEW S \in LayerSets(t), NEW U \in LayerSets(t), S \subseteq U
               PROVE  RuntimeUnder(ctx, t, m, S) <= RuntimeUnder(ctx, t, m, U)
    OBVIOUS
  <2> DEFINE ml == RestrictToChild(m, "l")
             mr == RestrictToChild(m, "r")
             ra(W) == RuntimeUnder(ctx, Left(t), ml, Inside(W, "l"))
             rb(W) == RuntimeUnder(ctx, Right(t), mr, Inside(W, "r"))
  <2>1. ml \in Placements(Left(t)) /\ mr \in Placements(Right(t)) /\ Left(t) \in Trees /\ Right(t) \in Trees
    BY <1>2, Sides, RestrictPlacements
  <2>2. /\ Inside(S, "l") \in LayerSets(Left(t)) /\ Inside(S, "r") \in LayerSets(Right(t))
        /\ Inside(U, "l") \in LayerSets(Left(t)) /\ Inside(U, "r") \in LayerSets(Right(t))
    BY <1>2, InsideFacts DEF LayerSets
  <2>3. ra(S) \in Nat /\ rb(S) \in Nat /\ ra(U) \in Nat /\ rb(U) \in Nat
    BY <2>1, <2>2, RuntimeFacts
  <2>4. ra(S) <= ra(U) /\ rb(S) <= rb(U)
    BY <1>2, <2>1, <2>2, InsideGrows
  <2>5. /\ RuntimeUnder(ctx, t, m, S) = SideRuntimes(ctx, t, m, S, ra(S), rb(S))
        /\ RuntimeUnder(ctx, t, m, U) = SideRuntimes(ctx, t, m, U, ra(U), rb(U))
    BY <1>2, RuntimeFacts
  <2> HIDE DEF ra, rb
  <2> QED BY <1>2, <2>3, <2>4, <2>5, SideRuntimesGrow
<1>3. Good \in SUBSET Trees /\ \A t \in Trees : t \in Good <=> G(t)
  OBVIOUS
<1> HIDE DEF Good, G
<1>4. Good = Trees
  BY <1>1, <1>2, <1>3, Sides, TreeInduction
<1>5. \A t \in Trees : G(t)
  BY <1>3, <1>4
<1> QED BY <1>5 DEF G

\* The layers in S are placed within the slice s.
PlacedWithin(t, m, S, s) == \A p \in S : m[p] \in AllowedViews(KindAt(t, p), s)

\* Layers within their sides' parts of a divided slice share no device.
LEMMA SplitIsApart ==
  ASSUME NEW t \in Trees, ~IsLeaf(t), NEW s \in Slices, NEW split \in MachineResourceSplits(s),
         NEW S \in SUBSET LeafPaths(t),
         NEW f, PlacedWithin(Left(t), f, Inside(S, "l"), LhsResources(split, s)),
         NEW g \in Placements(Right(t)), PlacedWithin(Right(t), g, Inside(S, "r"), RhsResources(split, s))
  PROVE  Apart(t, f, OffsetMapping(g, split), S)
<1> SUFFICES ASSUME NEW c, c \in UsedDevices(Left(t), f, Inside(S, "l")),
                    c \in UsedDevices(Right(t), OffsetMapping(g, split), Inside(S, "r"))
             PROVE  FALSE
  BY DEF Apart
<1>0. Inside(S, "l") \in SUBSET LeafPaths(Left(t)) /\ Inside(S, "r") \in SUBSET LeafPaths(Right(t))
  BY InsideFacts
<1>1. PICK p \in Inside(S, "l") : c \in Devices(KindAt(Left(t), p), f[p])
  BY UsedFacts
<1>2. PICK q \in Inside(S, "r") : c \in Devices(KindAt(Right(t), q), OffsetMapping(g, split)[q])
  BY UsedFacts
<1>3. OffsetMapping(g, split)[q] = OffsetView(g[q], split)
  BY <1>0, Sides, OffsetPlacement
<1>4. KindAt(Left(t), p) \in Kinds /\ KindAt(Right(t), q) \in Kinds
  BY <1>0, Sides, LayerFacts
<1>5. f[p] \in AllowedViews(KindAt(Left(t), p), LhsResources(split, s))
      /\ g[q] \in AllowedViews(KindAt(Right(t), q), RhsResources(split, s))
  BY DEF PlacedWithin
<1> QED BY <1>1, <1>2, <1>3, <1>4, <1>5, SplitDisjoint

(***************************************************************************)
(* Subproblems and the views they fix.                                     *)
(***************************************************************************)
Fixed(k) == {p \in DOMAIN k.constraints : k.constraints[p] # None}
Keeps(k, m) == \A p \in Fixed(k) : m[p] = k.constraints[p]
KeepsExposed(k, m) == \A p \in Fixed(k) : p \in Exposed[k.tree] => m[p] = k.constraints[p]
Regular(k) == FixedAround[k.tree] = {} /\ Fixed(k) \subseteq Exposed[k.tree]

\* The layers of which k says nothing about where they end up, and all others.
Astray(k) ==
  FixedAround[k.tree]
  \cup {p \in Fixed(k) : \/ p \notin Exposed[k.tree]
                         \/ k.constraints[p] \notin AllowedViews(KindAt(k.tree, p), k.resources)}
Placed(k) == LeafPaths(k.tree) \ Astray(k)

LEMMA ViewIsNotNone == \A v \in Views : v # None
<1>1. \A v \in Views : DOMAIN v = {"node", "gpu", "dn", "dg"}
  BY DEF Views
<1>2. DOMAIN None = {"none"}
  BY DEF None
<1> QED BY <1>1, <1>2

LEMMA SubproblemFacts ==
  ASSUME NEW q, IsSubproblem(q)
  PROVE  /\ q.tree \in Trees /\ q.resources \in Slices
         /\ DOMAIN q.constraints = LeafPaths(q.tree)
         /\ \A p \in LeafPaths(q.tree) : q.constraints[p] \in Views \cup {None}
         /\ \A p : p \in Fixed(q) <=> p \in LeafPaths(q.tree) /\ q.constraints[p] # None
<1> DEFINE C == [LeafPaths(q.tree) -> Views \cup {None}]
<1>1. q \in [tree : Trees, resources : Slices, constraints : C]
  BY DEF IsSubproblem
<1>2. q.tree \in Trees /\ q.resources \in Slices /\ q.constraints \in C
  <2> HIDE DEF C
  <2> QED BY <1>1
<1> QED BY <1>2 DEF Fixed

LEMMA LeafPathCases ==
  ASSUME NEW t \in Trees, ~IsLeaf(t), NEW p \in LeafPaths(t)
  PROVE  \/ Tail(p) \in LeafPaths(Left(t)) /\ p = Under("l", Tail(p))
         \/ Tail(p) \in LeafPaths(Right(t)) /\ p = Under("r", Tail(p))
<1> DEFINE A == LeafPaths(Left(t))
           B == LeafPaths(Right(t))
<1>1. A \in SUBSET Paths /\ B \in SUBSET Paths /\ p \in PathsBeneath(A, B)
  BY Sides, LayerFacts
<1> HIDE DEF A, B
<1>2. \/ Tail(p) \in A /\ p = Under("l", Tail(p))
      \/ Tail(p) \in B /\ p = Under("r", Tail(p))
  BY <1>1, PathsBeneathFacts
<1> QED BY <1>2 DEF A, B

SideOf(t, side) == IF side = "l" THEN Left(t) ELSE Right(t)
Boundary(t, side) == IF side = "l" THEN {mv.src : mv \in Moves(t)} ELSE {mv.dst : mv \in Moves(t)}
SideViews(q, side) == BoundaryAssignments(Child(q, side, q.resources), Boundary(q.tree, side))

LEMMA SideViewsFacts ==
  ASSUME NEW q
  PROVE  PreViews(q) = SideViews(q, "l") /\ PostViews(q) = SideViews(q, "r")
BY DEF PreViews, PostViews, SideViews, Boundary

LEMMA SideFacts ==
  ASSUME NEW t \in Trees, ~IsLeaf(t), NEW side \in SideNames
  PROVE  /\ SideOf(t, side) \in Trees
         /\ LeafPaths(SideOf(t, side)) \in SUBSET Paths
         /\ \A p \in Boundary(t, side) : p \in LeafPaths(SideOf(t, side))
         /\ \A p \in LeafPaths(SideOf(t, side)) : /\ Under(side, p) \in LeafPaths(t)
                                                  /\ KindAt(t, Under(side, p)) = KindAt(SideOf(t, side), p)
<1>1. Left(t) \in Trees /\ Right(t) \in Trees
  BY Sides
<1>2. LeafPaths(Left(t)) \in SUBSET Paths /\ LeafPaths(Right(t)) \in SUBSET Paths
  BY <1>1, LayerFacts
<1>3. LeafPaths(t) = PathsBeneath(LeafPaths(Left(t)), LeafPaths(Right(t)))
  BY LayerFacts
<1>4. /\ \A p \in LeafPaths(Left(t)) : Under("l", p) \in LeafPaths(t)
      /\ \A p \in LeafPaths(Right(t)) : Under("r", p) \in LeafPaths(t)
  <2> DEFINE A == LeafPaths(Left(t))
             B == LeafPaths(Right(t))
  <2>1. /\ \A p \in A : Under("l", p) \in PathsBeneath(A, B)
        /\ \A p \in B : Under("r", p) \in PathsBeneath(A, B)
    <3> HIDE DEF A, B
    <3>1. A \in SUBSET Paths /\ B \in SUBSET Paths
      BY <1>2 DEF A, B
    <3> QED BY <3>1, PathsBeneathFacts
  <2> QED BY <1>3, <2>1
<1>5. \A mv \in Moves(t) : mv.src \in LeafPaths(Left(t)) /\ mv.dst \in LeafPaths(Right(t))
  BY MovesFacts
<1>6. /\ \A p \in LeafPaths(Left(t)) : KindAt(t, Under("l", p)) = KindAt(Left(t), p)
      /\ \A p \in LeafPaths(Right(t)) : KindAt(t, Under("r", p)) = KindAt(Right(t), p)
  BY LayerFacts
<1>7. CASE side = "l"
  BY <1>1, <1>2, <1>4, <1>5, <1>6, <1>7 DEF SideOf, Boundary
<1>8. CASE side = "r"
  BY <1>1, <1>2, <1>4, <1>5, <1>6, <1>8 DEF SideOf, Boundary
<1> QED BY <1>7, <1>8 DEF SideNames

\* What a child is asked: the slice it gets, and the views fixed for its layers.
LEMMA ChildFacts ==
  ASSUME NEW q, IsSubproblem(q), ~IsLeaf(q.tree), NEW side \in SideNames, NEW s
  PROVE  /\ Child(q, side, s).tree = SideOf(q.tree, side)
         /\ Child(q, side, s).resources = s
         /\ DOMAIN Child(q, side, s).constraints = LeafPaths(SideOf(q.tree, side))
         /\ \A p \in LeafPaths(SideOf(q.tree, side)) :
              Child(q, side, s).constraints[p] = q.constraints[Under(side, p)]
<1> DEFINE A == LeafPaths(Left(q.tree))
           B == LeafPaths(Right(q.tree))
           c == q.constraints
<1>1. A \in SUBSET Paths /\ B \in SUBSET Paths /\ DOMAIN c = PathsBeneath(A, B)
  BY SubproblemFacts, Sides, LayerFacts
<1>2. /\ DOMAIN RestrictToChild(c, "l") = A /\ DOMAIN RestrictToChild(c, "r") = B
      /\ \A p \in A : RestrictToChild(c, "l")[p] = c[Under("l", p)]
      /\ \A p \in B : RestrictToChild(c, "r")[p] = c[Under("r", p)]
  <2> HIDE DEF A, B, c
  <2> QED BY <1>1, RestrictFacts
<1>3. /\ Child(q, side, s).tree = SideOf(q.tree, side)
      /\ Child(q, side, s).resources = s
      /\ Child(q, side, s).constraints = RestrictToChild(q.constraints, side)
  BY DEF Child, SideOf
<1>4. CASE side = "l"
  BY <1>2, <1>3, <1>4 DEF SideOf
<1>5. CASE side = "r"
  BY <1>2, <1>3, <1>5 DEF SideOf
<1> QED BY <1>4, <1>5 DEF SideNames

\* The views that the loops give the layers on the boundary.
LEMMA AssignmentFacts ==
  ASSUME NEW child, NEW boundary, NEW v \in BoundaryAssignments(child, boundary)
  PROVE  /\ \A p : p \in DOMAIN v <=> p \in boundary /\ child.constraints[p] = None
         /\ \A p \in DOMAIN v : v[p] \in AllowedViews(KindAt(child.tree, p), child.resources)
BY DEF BoundaryAssignments

LEMMA AssignmentExists ==
  ASSUME NEW child, NEW boundary, NEW m,
         \A p \in boundary : m[p] \in AllowedViews(KindAt(child.tree, p), child.resources)
  PROVE  \E v \in BoundaryAssignments(child, boundary) : \A p \in DOMAIN v : v[p] = m[p]
<1> DEFINE free == {p \in boundary : child.constraints[p] = None}
           allowed(p) == AllowedViews(KindAt(child.tree, p), child.resources)
           U == UNION {allowed(p) : p \in free}
           v == [p \in free |-> m[p]]
<1>1. \A p \in free : m[p] \in allowed(p) /\ m[p] \in U
  OBVIOUS
<1>2. BoundaryAssignments(child, boundary) = {f \in [free -> U] : \A p \in free : f[p] \in allowed(p)}
  BY DEF BoundaryAssignments
<1> HIDE DEF U, free, allowed
<1>3. v \in [free -> U] /\ \A p \in free : v[p] \in allowed(p)
  BY <1>1
<1>4. v \in BoundaryAssignments(child, boundary)
  <2> HIDE DEF v
  <2> QED BY <1>2, <1>3
<1>5. \A p \in DOMAIN v : v[p] = m[p]
  OBVIOUS
<1> HIDE DEF v
<1> QED BY <1>4, <1>5

LEMMA ChildUnderFacts ==
  ASSUME NEW q, IsSubproblem(q), ~IsLeaf(q.tree), NEW side \in SideNames, NEW v \in SideViews(q, side)
  PROVE  /\ ChildUnder(q, side, v).tree = SideOf(q.tree, side)
         /\ ChildUnder(q, side, v).resources = q.resources
         /\ DOMAIN ChildUnder(q, side, v).constraints = LeafPaths(SideOf(q.tree, side))
         /\ \A p \in LeafPaths(SideOf(q.tree, side)) :
              \/ /\ p \in DOMAIN v /\ p \in Boundary(q.tree, side) /\ q.constraints[Under(side, p)] = None
                 /\ ChildUnder(q, side, v).constraints[p] = v[p]
                 /\ v[p] \in AllowedViews(KindAt(SideOf(q.tree, side), p), q.resources)
                 /\ v[p] # None
              \/ /\ p \notin DOMAIN v
                 /\ p \in Boundary(q.tree, side) => q.constraints[Under(side, p)] # None
                 /\ ChildUnder(q, side, v).constraints[p] = q.constraints[Under(side, p)]
<1> DEFINE c == Child(q, side, q.resources)
           k == ChildUnder(q, side, v)
           t == SideOf(q.tree, side)
<1>1. /\ c.tree = t /\ c.resources = q.resources /\ DOMAIN c.constraints = LeafPaths(t)
      /\ \A p \in LeafPaths(t) : c.constraints[p] = q.constraints[Under(side, p)]
  <2> HIDE DEF t
  <2> QED BY ChildFacts DEF t
<1>2. /\ k.tree = t /\ k.resources = q.resources
      /\ k.constraints = [p \in DOMAIN c.constraints |-> IF p \in DOMAIN v THEN v[p] ELSE c.constraints[p]]
  BY DEF ChildUnder, Child, SideOf, WithAdditionalConstraints
<1> HIDE DEF c, k
<1>3. v \in BoundaryAssignments(c, Boundary(q.tree, side))
  BY DEF SideViews, c
<1>4. /\ \A p : p \in DOMAIN v <=> p \in Boundary(q.tree, side) /\ c.constraints[p] = None
      /\ \A p \in DOMAIN v : v[p] \in AllowedViews(KindAt(t, p), q.resources)
  <2> HIDE DEF t
  <2>1. /\ \A p : p \in DOMAIN v <=> p \in Boundary(q.tree, side) /\ c.constraints[p] = None
        /\ \A p \in DOMAIN v : v[p] \in AllowedViews(KindAt(c.tree, p), c.resources)
    BY <1>3, AssignmentFacts
  <2> QED BY <1>1, <2>1
<1>5. \A p \in DOMAIN v : p \in LeafPaths(t) => v[p] # None
  <2> SUFFICES ASSUME NEW p \in DOMAIN v, p \in LeafPaths(t) PROVE v[p] # None
    OBVIOUS
  <2>1. t \in Trees /\ q.resources \in Slices
    BY SubproblemFacts, SideFacts
  <2>2. KindAt(t, p) \in Kinds
    BY <2>1, LayerFacts
  <2>3. v[p] \in Views
    BY <1>4, <2>1, <2>2, AllowedFacts
  <2> QED BY <2>3, ViewIsNotNone
<1>6. \A p \in LeafPaths(t) : k.constraints[p] = IF p \in DOMAIN v THEN v[p] ELSE q.constraints[Under(side, p)]
  BY <1>1, <1>2
<1> HIDE DEF t
<1>7. /\ k.tree = t /\ k.resources = q.resources /\ DOMAIN k.constraints = LeafPaths(t)
  BY <1>1, <1>2
<1>8. ASSUME NEW p \in LeafPaths(t)
      PROVE  \/ /\ p \in DOMAIN v /\ p \in Boundary(q.tree, side) /\ q.constraints[Under(side, p)] = None
                /\ k.constraints[p] = v[p]
                /\ v[p] \in AllowedViews(KindAt(t, p), q.resources)
                /\ v[p] # None
             \/ /\ p \notin DOMAIN v
                /\ p \in Boundary(q.tree, side) => q.constraints[Under(side, p)] # None
                /\ k.constraints[p] = q.constraints[Under(side, p)]
  BY <1>1, <1>4, <1>5, <1>6
<1> QED BY <1>7, <1>8 DEF k, t

\* What is fixed for a child of a series split, or of a parallel split tried as one.
LEMMA FixedUnder ==
  ASSUME NEW q, IsSubproblem(q), ~IsLeaf(q.tree), NEW side \in SideNames, NEW v \in SideViews(q, side)
  PROVE  \A p : p \in Fixed(ChildUnder(q, side, v))
                  <=> /\ p \in LeafPaths(SideOf(q.tree, side))
                      /\ p \in Boundary(q.tree, side) \/ q.constraints[Under(side, p)] # None
<1> DEFINE k == ChildUnder(q, side, v)
           t == SideOf(q.tree, side)
<1>1. /\ DOMAIN k.constraints = LeafPaths(t)
      /\ \A p \in LeafPaths(t) :
              \/ /\ p \in Boundary(q.tree, side) /\ k.constraints[p] # None
              \/ /\ p \in Boundary(q.tree, side) => q.constraints[Under(side, p)] # None
                 /\ k.constraints[p] = q.constraints[Under(side, p)]
  <2> HIDE DEF k, t
  <2> QED BY ChildUnderFacts DEF k, t
<1> HIDE DEF k, t
<1>2. \A p : p \in Fixed(k) <=> p \in LeafPaths(t) /\ k.constraints[p] # None
  BY <1>1 DEF Fixed
<1> QED BY <1>1, <1>2 DEF k, t

LEMMA RegularUnder ==
  ASSUME NEW q, IsSubproblem(q), ~IsLeaf(q.tree), Regular(q), NEW side \in SideNames, NEW v \in SideViews(q, side)
  PROVE  Regular(ChildUnder(q, side, v))
<1> DEFINE k == ChildUnder(q, side, v)
           t == SideOf(q.tree, side)
<1>1. q.tree \in Trees /\ FixedAround[q.tree] = {} /\ \A p \in Fixed(q) : p \in Exposed[q.tree]
  BY SubproblemFacts DEF Regular
<1>2. /\ FixedAround[t] = {}
      /\ \A p \in Boundary(q.tree, side) : p \in Exposed[t]
  <2>1. /\ FixedAround[Left(q.tree)] = {} /\ FixedAround[Right(q.tree)] = {}
        /\ \A mv \in Moves(q.tree) : mv.src \in Exposed[Left(q.tree)] /\ mv.dst \in Exposed[Right(q.tree)]
    BY <1>1, FixedAroundFacts
  <2> QED BY <2>1 DEF SideNames, SideOf, Boundary
<1>3. k.tree = t
  BY ChildUnderFacts
<1> HIDE DEF k
<1>4. ASSUME NEW p \in Fixed(k) PROVE p \in Exposed[t]
  <2>1. /\ p \in LeafPaths(t) /\ p \in Paths
        /\ p \in Boundary(q.tree, side) \/ q.constraints[Under(side, p)] # None
    BY <1>1, <1>4, FixedUnder, SideFacts DEF k
  <2>2. CASE p \in Boundary(q.tree, side)
    BY <1>2, <2>2
  <2>3. CASE q.constraints[Under(side, p)] # None
    <3>1. Under(side, p) \in LeafPaths(q.tree)
      BY <1>1, <2>1, SideFacts
    <3>2. Under(side, p) \in Exposed[q.tree]
      BY <1>1, <2>3, <3>1, SubproblemFacts
    <3>3. IsSeriesSplit(q.tree)
      BY <1>1, <3>2, ExposedFacts
    <3>4. /\ Under("l", p) \in Exposed[q.tree] => p \in Exposed[Left(q.tree)]
          /\ Under("r", p) \in Exposed[q.tree] => p \in Exposed[Right(q.tree)]
      BY <1>1, <2>1, <3>3, ExposedFacts
    <3> QED BY <3>2, <3>4 DEF SideNames, SideOf
  <2> QED BY <2>1, <2>2, <2>3
<1>5. Regular(k)
  <2> HIDE DEF t
  <2> QED BY <1>2, <1>3, <1>4 DEF Regular
<1> QED BY <1>5 DEF k

\* What is astray for a side is astray for the whole.
LEMMA FixedAroundSide ==
  ASSUME NEW t \in Trees, ~IsLeaf(t), NEW side \in SideNames
  PROVE  /\ \A p \in FixedAround[SideOf(t, side)] : Under(side, p) \in FixedAround[t]
         /\ \A p \in Boundary(t, side) : p \notin Exposed[SideOf(t, side)] => Under(side, p) \in FixedAround[t]
<1>1. /\ \A p \in FixedAround[Left(t)] : Under("l", p) \in FixedAround[t]
      /\ \A p \in FixedAround[Right(t)] : Under("r", p) \in FixedAround[t]
      /\ \A mv \in Moves(t) : mv.src \in Exposed[Left(t)] \/ Under("l", mv.src) \in FixedAround[t]
      /\ \A mv \in Moves(t) : mv.dst \in Exposed[Right(t)] \/ Under("r", mv.dst) \in FixedAround[t]
  BY FixedAroundFacts
<1>2. CASE side = "l"
  BY <1>1, <1>2 DEF SideOf, Boundary
<1>3. CASE side = "r"
  BY <1>1, <1>3 DEF SideOf, Boundary
<1> QED BY <1>2, <1>3 DEF SideNames

LEMMA ExposedSide ==
  ASSUME NEW t \in Trees, ~IsLeaf(t), NEW side \in SideNames, NEW p \in Paths, Under(side, p) \in Exposed[t]
  PROVE  p \in Exposed[SideOf(t, side)] /\ IsSeriesSplit(t)
<1>1. IsSeriesSplit(t)
  BY ExposedFacts
<1>2. /\ Under("l", p) \in Exposed[t] => p \in Exposed[Left(t)]
      /\ Under("r", p) \in Exposed[t] => p \in Exposed[Right(t)]
  BY <1>1, ExposedFacts
<1> QED BY <1>1, <1>2 DEF SideNames, SideOf

LEMMA PlacedUnder ==
  ASSUME NEW q, IsSubproblem(q), ~IsLeaf(q.tree), NEW side \in SideNames, NEW v \in SideViews(q, side)
  PROVE  Inside(Placed(q), side) \subseteq Placed(ChildUnder(q, side, v))
<1> DEFINE k == ChildUnder(q, side, v)
           t == SideOf(q.tree, side)
<1>1. q.tree \in Trees /\ k.tree = t /\ k.resources = q.resources
  BY SubproblemFacts, ChildUnderFacts
<1> SUFFICES ASSUME NEW p \in Inside(Placed(q), side) PROVE p \in Placed(k)
  OBVIOUS
<1>2. p \in LeafPaths(t) /\ p \in Paths /\ Under(side, p) \in Placed(q)
  <2>1. Placed(q) \in SUBSET LeafPaths(q.tree)
    BY DEF Placed
  <2>2. /\ Inside(Placed(q), "l") \in SUBSET LeafPaths(Left(q.tree))
        /\ Inside(Placed(q), "r") \in SUBSET LeafPaths(Right(q.tree))
        /\ \A x \in Inside(Placed(q), "l") : Under("l", x) \in Placed(q)
        /\ \A x \in Inside(Placed(q), "r") : Under("r", x) \in Placed(q)
    BY <1>1, <2>1, InsideFacts
  <2>3. p \in LeafPaths(t) /\ Under(side, p) \in Placed(q)
    BY <2>2 DEF SideNames, SideOf
  <2> QED BY <1>1, <2>3, SideFacts
<1>3. KindAt(q.tree, Under(side, p)) = KindAt(t, p) /\ Under(side, p) \in LeafPaths(q.tree)
  BY <1>1, <1>2, SideFacts
<1>4. /\ Under(side, p) \notin FixedAround[q.tree]
      /\ Under(side, p) \in Fixed(q) =>
           /\ Under(side, p) \in Exposed[q.tree]
           /\ q.constraints[Under(side, p)] \in AllowedViews(KindAt(t, p), q.resources)
  BY <1>2, <1>3 DEF Placed, Astray
<1>5. p \notin FixedAround[t] /\ (p \in Boundary(q.tree, side) => p \in Exposed[t])
  BY <1>1, <1>4, FixedAroundSide
<1>6. ASSUME p \in Fixed(k)
      PROVE  p \in Exposed[t] /\ k.constraints[p] \in AllowedViews(KindAt(t, p), q.resources)
  <2>1. \/ /\ p \in Boundary(q.tree, side)
           /\ k.constraints[p] = v[p]
           /\ v[p] \in AllowedViews(KindAt(t, p), q.resources)
        \/ k.constraints[p] = q.constraints[Under(side, p)]
    BY <1>2, ChildUnderFacts
  <2>2. CASE k.constraints[p] = q.constraints[Under(side, p)]
    <3>1. Under(side, p) \in Fixed(q)
      BY <1>3, <1>6, <2>2, SubproblemFacts DEF Fixed
    <3> QED BY <1>1, <1>2, <1>4, <2>2, <3>1, ExposedSide
  <2> QED BY <1>5, <2>1, <2>2
<1> HIDE DEF k
<1> QED BY <1>1, <1>2, <1>5, <1>6 DEF Placed, Astray

\* Placements of the sides that keep their views make one that keeps those of the whole.
LEMMA KeepsFromSides ==
  ASSUME NEW q, IsSubproblem(q), ~IsLeaf(q.tree),
         NEW v \in SideViews(q, "l"), NEW w \in SideViews(q, "r"),
         NEW f \in Placements(Left(q.tree)), NEW g \in Placements(Right(q.tree)),
         KeepsExposed(ChildUnder(q, "l", v), f), KeepsExposed(ChildUnder(q, "r", w), g)
  PROVE  KeepsExposed(q, CombineMappings(f, g))
<1> DEFINE m == CombineMappings(f, g)
           kl == ChildUnder(q, "l", v)
           kr == ChildUnder(q, "r", w)
<1>0. q.tree \in Trees /\ "l" \in SideNames /\ "r" \in SideNames
      /\ SideOf(q.tree, "l") = Left(q.tree) /\ SideOf(q.tree, "r") = Right(q.tree)
      /\ kl.tree = Left(q.tree) /\ kr.tree = Right(q.tree)
  BY SubproblemFacts, ChildUnderFacts DEF SideNames, SideOf
<1> SUFFICES ASSUME NEW p \in Fixed(q), p \in Exposed[q.tree] PROVE m[p] = q.constraints[p]
  BY DEF KeepsExposed
<1>1. p \in LeafPaths(q.tree) /\ q.constraints[p] # None
  BY SubproblemFacts
<1>2. LeafPaths(Left(q.tree)) \in SUBSET Paths /\ LeafPaths(Right(q.tree)) \in SUBSET Paths
  BY <1>0, SideFacts
<1>3. \/ Tail(p) \in LeafPaths(Left(q.tree)) /\ p = Under("l", Tail(p))
      \/ Tail(p) \in LeafPaths(Right(q.tree)) /\ p = Under("r", Tail(p))
  BY <1>0, <1>1, LeafPathCases
<1>4. CASE Tail(p) \in LeafPaths(Left(q.tree)) /\ p = Under("l", Tail(p))
  <2> DEFINE x == Tail(p)
  <2>1. x \in Fixed(kl) /\ x \in Exposed[kl.tree]
    BY <1>0, <1>1, <1>2, <1>4, FixedUnder, ExposedSide
  <2>2. f[x] = kl.constraints[x]
    BY <2>1 DEF KeepsExposed
  <2>3. kl.constraints[x] = q.constraints[Under("l", x)]
    BY <1>0, <1>1, <1>4, ChildUnderFacts
  <2>4. m[Under("l", x)] = f[x]
    BY <1>0, <1>4, CombinePlacements
  <2> QED BY <1>4, <2>2, <2>3, <2>4
<1>5. CASE Tail(p) \in LeafPaths(Right(q.tree)) /\ p = Under("r", Tail(p))
  <2> DEFINE x == Tail(p)
  <2>1. x \in Fixed(kr) /\ x \in Exposed[kr.tree]
    BY <1>0, <1>1, <1>2, <1>5, FixedUnder, ExposedSide
  <2>2. g[x] = kr.constraints[x]
    BY <2>1 DEF KeepsExposed
  <2>3. kr.constraints[x] = q.constraints[Under("r", x)]
    BY <1>0, <1>1, <1>5, ChildUnderFacts
  <2>4. m[Under("r", x)] = g[x]
    BY <1>0, <1>5, CombinePlacements
  <2> QED BY <1>5, <2>2, <2>3, <2>4
<1> QED BY <1>3, <1>4, <1>5

\* A placement that keeps the views of the whole keeps those of a side under the views
\* it gives to the boundary itself.
LEMMA KeepsToSide ==
  ASSUME NEW q, IsSubproblem(q), ~IsLeaf(q.tree), NEW side \in SideNames, NEW v \in SideViews(q, side),
         NEW m, Keeps(q, m), NEW f,
         \A p \in LeafPaths(SideOf(q.tree, side)) : m[Under(side, p)] = f[p],
         \A p \in DOMAIN v : v[p] = f[p]
  PROVE  Keeps(ChildUnder(q, side, v), f)
<1> DEFINE k == ChildUnder(q, side, v)
<1>0. q.tree \in Trees
  BY SubproblemFacts
<1> SUFFICES ASSUME NEW p \in Fixed(k) PROVE f[p] = k.constraints[p]
  BY DEF Keeps
<1>1. p \in LeafPaths(SideOf(q.tree, side)) /\ (p \in Boundary(q.tree, side) \/ q.constraints[Under(side, p)] # None)
  BY FixedUnder
<1>2. Under(side, p) \in LeafPaths(q.tree)
  BY <1>0, <1>1, SideFacts
<1>3. q.constraints[Under(side, p)] # None => m[Under(side, p)] = q.constraints[Under(side, p)]
  BY <1>2, SubproblemFacts DEF Keeps
<1>4. \/ p \in DOMAIN v /\ k.constraints[p] = v[p]
      \/ /\ p \in Boundary(q.tree, side) => q.constraints[Under(side, p)] # None
         /\ k.constraints[p] = q.constraints[Under(side, p)]
  BY <1>1, ChildUnderFacts
<1> QED BY <1>1, <1>3, <1>4

\* Of views given to the boundary, some are those of a placement within the slice.
LEMMA SideViewsExist ==
  ASSUME NEW q, IsSubproblem(q), ~IsLeaf(q.tree), NEW side \in SideNames, NEW f,
         WithinSlice(SideOf(q.tree, side), f, q.resources)
  PROVE  \E v \in SideViews(q, side) : \A p \in DOMAIN v : v[p] = f[p]
<1> DEFINE c == Child(q, side, q.resources)
           b == Boundary(q.tree, side)
<1>1. c.tree = SideOf(q.tree, side) /\ c.resources = q.resources /\ q.tree \in Trees
  BY ChildFacts, SubproblemFacts
<1>2. \A p \in b : p \in LeafPaths(SideOf(q.tree, side))
  BY <1>1, SideFacts
<1>3. \A p \in b : f[p] \in AllowedViews(KindAt(c.tree, p), c.resources)
  BY <1>1, <1>2 DEF WithinSlice
<1>4. SideViews(q, side) = BoundaryAssignments(c, b)
  BY DEF SideViews
<1> HIDE DEF c, b
<1> QED BY <1>3, <1>4, AssignmentExists

(***************************************************************************)
(* What the results in the cache are worth.                                *)
(***************************************************************************)
LEMMA FastestFacts ==
  ASSUME NEW r, NEW S, IsFastest(r, S)
  PROVE  /\ r # Infeasible => r \in S
         /\ \A s \in S : s # Infeasible => r # Infeasible /\ r.runtime <= s.runtime
BY DEF IsFastest

Realises(ctx, k, r) ==
  /\ KeepsExposed(k, r.mapping)
  /\ PlacedWithin(k.tree, r.mapping, Placed(k), k.resources)
  /\ RuntimeUnder(ctx, k.tree, r.mapping, Placed(k)) <= r.runtime

LEMMA RealisedKeeps ==
  ASSUME NEW ctx, NEW k, Regular(k), NEW r, Realises(ctx, k, r)
  PROVE  Keeps(k, r.mapping)
BY DEF Realises, Regular, Keeps, KeepsExposed

LEMMA PlacedLayers ==
  ASSUME NEW k
  PROVE  Placed(k) \in LayerSets(k.tree)
BY DEF Placed, LayerSets

Beats(ctx, k, r) ==
  Regular(k) =>
    \A plan \in Plans(ctx, k.tree, k.resources) :
      Keeps(k, plan.mapping) => r # Infeasible /\ r.runtime <= plan.runtime

\* The result r of subproblem k is one of its kind, takes no longer than it claims,
\* and is as fast as any plan.
Solves(ctx, k, r) ==
  /\ r # Infeasible => r \in Results(k.tree) /\ Realises(ctx, k, r)
  /\ Beats(ctx, k, r)

LEMMA LeafResultsFacts ==
  ASSUME NEW ctx \in Contexts, NEW k, IsSubproblem(k), IsLeaf(k.tree), NEW x
  PROVE  x \in LeafResults(ctx, k)
           <=> \E mv \in Views :
                  /\ IF k.constraints[<<>>] = None THEN mv \in AllowedViews(k.tree.leaf, k.resources)
                     ELSE mv = k.constraints[<<>>]
                  /\ x = Feasible(OpCost(ctx, k.tree.leaf, mv), [p \in {<<>>} |-> mv])
<1>1. k.tree.leaf \in Kinds /\ k.resources \in Slices
  BY SubproblemFacts, Sides
<1>2. \A mv \in AllowedViews(k.tree.leaf, k.resources) : mv \in Views
  BY <1>1, AllowedFacts
<1>3. k.constraints[<<>>] # None => k.constraints[<<>>] \in Views
  BY SubproblemFacts, LayerFacts
<1> DEFINE views == IF k.constraints[<<>>] = None THEN AllowedViews(k.tree.leaf, k.resources)
                    ELSE {k.constraints[<<>>]}
           F(mv) == Feasible(OpCost(ctx, k.tree.leaf, mv), [p \in {<<>>} |-> mv])
<1>4. LeafResults(ctx, k) = {F(mv) : mv \in views}
  BY DEF LeafResults
<1>5. x \in LeafResults(ctx, k) <=> \E mv \in views : x = F(mv)
  <2> HIDE DEF views, F
  <2> QED BY <1>4
<1>6. \A mv : mv \in views <=> mv \in Views /\ IF k.constraints[<<>>] = None
                                               THEN mv \in AllowedViews(k.tree.leaf, k.resources)
                                               ELSE mv = k.constraints[<<>>]
  BY <1>2, <1>3
<1> HIDE DEF views
<1>7. x \in LeafResults(ctx, k)
           <=> \E mv \in Views :
                  /\ IF k.constraints[<<>>] = None THEN mv \in AllowedViews(k.tree.leaf, k.resources)
                     ELSE mv = k.constraints[<<>>]
                  /\ x = F(mv)
  <2> HIDE DEF F
  <2> QED BY <1>5, <1>6
<1> QED BY <1>7

LEMMA LeafSolved ==
  ASSUME NEW ctx \in Contexts, NEW k, IsSubproblem(k), IsLeaf(k.tree),
         NEW r, IsFastest(r, LeafResults(ctx, k))
  PROVE  Solves(ctx, k, r)
<1> DEFINE t == k.tree
           F(mv) == Feasible(OpCost(ctx, t.leaf, mv), [p \in {<<>>} |-> mv])
<1>1. t \in Trees /\ t.leaf \in Kinds /\ k.resources \in Slices
  BY SubproblemFacts, Sides
<1>2. ASSUME NEW mv \in Views
      PROVE  /\ F(mv) \in Results(t) /\ F(mv).runtime = OpCost(ctx, t.leaf, mv) /\ F(mv).mapping[<<>>] = mv
             /\ \A S \in LayerSets(t) : RuntimeUnder(ctx, t, F(mv).mapping, S) = F(mv).runtime
             /\ F(mv) # Infeasible
  <2>1. OpCost(ctx, t.leaf, mv) \in Nat /\ [p \in {<<>>} |-> mv] \in Placements(t)
    BY <1>1, OpCostType, LeafPlacement
  <2>2. /\ F(mv) \in Results(t) /\ F(mv).runtime = OpCost(ctx, t.leaf, mv)
        /\ F(mv).mapping = [p \in {<<>>} |-> mv]
    BY <1>1, <2>1, FeasibleFacts
  <2>3. F(mv).mapping[<<>>] = mv /\ F(mv).mapping \in Placements(t)
    BY <2>1, <2>2
  <2> HIDE DEF F
  <2>4. \A S \in LayerSets(t) : RuntimeUnder(ctx, t, F(mv).mapping, S) = OpCost(ctx, t.leaf, F(mv).mapping[<<>>])
    BY <1>1, <2>3, RuntimeFacts
  <2>5. F(mv) # Infeasible
    BY <1>1, <2>2, ResultFacts DEF IsInfeasible
  <2> QED BY <2>2, <2>3, <2>4, <2>5
<1>3. \A x : x \in LeafResults(ctx, k)
           <=> \E mv \in Views :
                  /\ IF k.constraints[<<>>] = None THEN mv \in AllowedViews(t.leaf, k.resources)
                     ELSE mv = k.constraints[<<>>]
                  /\ x = F(mv)
  BY LeafResultsFacts
<1>4. \A p : p \in Fixed(k) <=> p = <<>> /\ k.constraints[<<>>] # None
  BY <1>1, SubproblemFacts, LayerFacts
<1>5. \A p : p \in LeafPaths(t) <=> p = <<>>
  BY <1>1, LayerFacts
<1>6. KindAt(t, <<>>) = t.leaf
  BY <1>1, LayerFacts
<1> HIDE DEF F
<1>7. ASSUME r # Infeasible PROVE r \in Results(t) /\ Realises(ctx, k, r)
  <2>1. r \in LeafResults(ctx, k)
    BY <1>7, FastestFacts
  <2>2. PICK mv \in Views :
                  /\ IF k.constraints[<<>>] = None THEN mv \in AllowedViews(t.leaf, k.resources)
                     ELSE mv = k.constraints[<<>>]
                  /\ r = F(mv)
    BY <1>3, <2>1
  <2>3. /\ r \in Results(t) /\ r.mapping[<<>>] = mv
        /\ RuntimeUnder(ctx, t, r.mapping, Placed(k)) = r.runtime
    BY <1>2, <2>2, PlacedLayers
  <2>4. RuntimeUnder(ctx, t, r.mapping, Placed(k)) <= r.runtime
    BY <1>1, <2>3, ResultFacts
  <2>5. KeepsExposed(k, r.mapping)
    BY <1>4, <2>2, <2>3 DEF KeepsExposed
  <2>6. PlacedWithin(t, r.mapping, Placed(k), k.resources)
    <3> SUFFICES ASSUME NEW p \in Placed(k)
                 PROVE  r.mapping[p] \in AllowedViews(KindAt(t, p), k.resources)
      BY DEF PlacedWithin
    <3>1. p = <<>>
      BY <1>5 DEF Placed
    <3>2. k.constraints[<<>>] # None => k.constraints[<<>>] \in AllowedViews(KindAt(t, p), k.resources)
      BY <1>4, <3>1 DEF Placed, Astray
    <3> QED BY <1>6, <2>2, <2>3, <3>1, <3>2
  <2> QED BY <2>3, <2>4, <2>5, <2>6 DEF Realises
<1>8. ASSUME NEW plan \in Plans(ctx, t, k.resources), Keeps(k, plan.mapping)
      PROVE  r # Infeasible /\ r.runtime <= plan.runtime
  <2>1. PICK mv \in AllowedViews(t.leaf, k.resources) : plan = F(mv)
    BY <1>1, LeafPlan DEF F
  <2>2. mv \in Views
    BY <1>1, AllowedFacts
  <2>3. plan.mapping[<<>>] = mv /\ plan # Infeasible
    BY <1>2, <2>1, <2>2
  <2>4. k.constraints[<<>>] # None => mv = k.constraints[<<>>]
    BY <1>4, <1>8, <2>3 DEF Keeps
  <2>5. plan \in LeafResults(ctx, k)
    BY <1>3, <2>1, <2>2, <2>4
  <2> QED BY <2>3, <2>5, FastestFacts
<1> QED BY <1>7, <1>8 DEF Solves, Beats

\* The loops over the views of the boundary, and over the ways to divide the slice.
SeriesResult(ctx, q, a, b) == SeriesCombine(CostOf(ctx, q.tree, a.mapping, b.mapping), a, b)

LEMMA SeriesResultsFacts ==
  ASSUME NEW ctx, NEW saved, NEW q, NEW x
  PROVE  x \in SeriesResults(ctx, saved, q)
           <=> \E v \in SideViews(q, "l"), w \in SideViews(q, "r") :
                  /\ saved[ChildUnder(q, "l", v)] # Infeasible
                  /\ saved[ChildUnder(q, "r", w)] # Infeasible
                  /\ x = SeriesResult(ctx, q, saved[ChildUnder(q, "l", v)], saved[ChildUnder(q, "r", w)])
<1> DEFINE A(v) == saved[ChildUnder(q, "l", v)]
           B(w) == saved[ChildUnder(q, "r", w)]
           R(v, w) == SeriesCombine(CostAcrossSplit(ctx, Left(q.tree), Right(q.tree), Moves(q.tree),
                                                    A(v).mapping, B(w).mapping), A(v), B(w))
           V == {v \in PreViews(q) : ~IsInfeasible(A(v))}
           W == {w \in PostViews(q) : ~IsInfeasible(B(w))}
<1>1. SeriesResults(ctx, saved, q) = {R(v, w) : v \in V, w \in W}
  BY DEF SeriesResults, FeasiblePre
<1>2. \A v, w : R(v, w) = SeriesResult(ctx, q, A(v), B(w))
  BY DEF SeriesResult, CostOf
<1>3. \A v : v \in V <=> v \in SideViews(q, "l") /\ A(v) # Infeasible
  BY SideViewsFacts DEF IsInfeasible
<1>4. \A w : w \in W <=> w \in SideViews(q, "r") /\ B(w) # Infeasible
  BY SideViewsFacts DEF IsInfeasible
<1>5. x \in SeriesResults(ctx, saved, q) <=> \E v \in V, w \in W : x = R(v, w)
  <2> HIDE DEF R, V, W
  <2> QED BY <1>1
<1> HIDE DEF A, B, R, V, W
<1>6. x \in SeriesResults(ctx, saved, q)
           <=> \E v \in SideViews(q, "l"), w \in SideViews(q, "r") :
                  A(v) # Infeasible /\ B(w) # Infeasible /\ x = SeriesResult(ctx, q, A(v), B(w))
  BY <1>2, <1>3, <1>4, <1>5
<1> QED BY <1>6 DEF A, B

LhsOf(q, split) == Child(q, "l", LhsResources(split, q.resources))
RhsOf(q, split) == Child(q, "r", RhsResources(split, q.resources))

LEMMA SplitResultsFacts ==
  ASSUME NEW saved, NEW q, NEW x
  PROVE  x \in SplitResults(saved, q)
           <=> \E split \in MachineResourceSplits(q.resources) :
                  x = ParallelCombine(split, saved[LhsOf(q, split)], saved[RhsOf(q, split)])
BY DEF SplitResults, LhsOf, RhsOf

LEMMA PartsFacts ==
  ASSUME NEW saved, NEW q, PartsOf(saved, q) \subseteq DOMAIN saved
  PROVE  /\ \A v \in SideViews(q, "l") : ChildUnder(q, "l", v) \in DOMAIN saved
         /\ \A v \in SideViews(q, "l") : saved[ChildUnder(q, "l", v)] # Infeasible =>
              \A w \in SideViews(q, "r") : ChildUnder(q, "r", w) \in DOMAIN saved
         /\ ~IsSeriesSplit(q.tree) => \A split \in MachineResourceSplits(q.resources) :
              LhsOf(q, split) \in DOMAIN saved /\ RhsOf(q, split) \in DOMAIN saved
<1>1. \A v \in SideViews(q, "l") : ChildUnder(q, "l", v) \in PartsOf(saved, q)
  BY SideViewsFacts DEF PartsOf
<1>2. ASSUME NEW v \in SideViews(q, "l"), saved[ChildUnder(q, "l", v)] # Infeasible,
             NEW w \in SideViews(q, "r")
      PROVE  ChildUnder(q, "r", w) \in PartsOf(saved, q)
  <2>1. v \in FeasiblePre(saved, q)
    BY <1>2, SideViewsFacts DEF FeasiblePre, IsInfeasible
  <2>2. FeasiblePre(saved, q) # {}
    BY <2>1
  <2> QED BY <2>2, SideViewsFacts DEF PartsOf
<1>3. ASSUME ~IsSeriesSplit(q.tree), NEW split \in MachineResourceSplits(q.resources)
      PROVE  LhsOf(q, split) \in PartsOf(saved, q) /\ RhsOf(q, split) \in PartsOf(saved, q)
  BY <1>3 DEF PartsOf, LhsOf, RhsOf
<1> QED BY <1>1, <1>2, <1>3

\* What the placements of the sides say about the one made of them.
LEMMA PlacedFromSides ==
  ASSUME NEW ctx \in Contexts, NEW t \in Trees, ~IsLeaf(t), NEW S \in LayerSets(t),
         NEW f \in Placements(Left(t)), NEW SL \in LayerSets(Left(t)), Inside(S, "l") \subseteq SL,
         NEW g \in Placements(Right(t)), NEW SR \in LayerSets(Right(t)), Inside(S, "r") \subseteq SR
  PROVE  /\ \A s : PlacedWithin(Left(t), f, SL, s) /\ PlacedWithin(Right(t), g, SR, s) =>
                     PlacedWithin(t, CombineMappings(f, g), S, s)
         /\ RuntimeUnder(ctx, t, CombineMappings(f, g), S)
              <= SideRuntimes(ctx, t, CombineMappings(f, g), S, RuntimeUnder(ctx, Left(t), f, SL),
                                                                RuntimeUnder(ctx, Right(t), g, SR))
<1> DEFINE m == CombineMappings(f, g)
           sl == Inside(S, "l")
           sr == Inside(S, "r")
<1>1. /\ Left(t) \in Trees /\ Right(t) \in Trees
      /\ LeafPaths(Left(t)) \in SUBSET Paths /\ LeafPaths(Right(t)) \in SUBSET Paths
  BY Sides, LayerFacts
<1>2. /\ sl \in LayerSets(Left(t)) /\ sr \in LayerSets(Right(t))
  BY InsideFacts DEF LayerSets
<1>3. /\ m \in Placements(t) /\ RestrictToChild(m, "l") = f /\ RestrictToChild(m, "r") = g
      /\ \A p \in LeafPaths(Left(t)) : m[Under("l", p)] = f[p]
      /\ \A p \in LeafPaths(Right(t)) : m[Under("r", p)] = g[p]
  BY CombinePlacements
<1>4. ASSUME NEW s, PlacedWithin(Left(t), f, SL, s), PlacedWithin(Right(t), g, SR, s)
      PROVE  PlacedWithin(t, m, S, s)
  <2> SUFFICES ASSUME NEW q \in S PROVE m[q] \in AllowedViews(KindAt(t, q), s)
    BY DEF PlacedWithin
  <2>1. q \in LeafPaths(t)
    BY DEF LayerSets
  <2>2. \/ Tail(q) \in LeafPaths(Left(t)) /\ q = Under("l", Tail(q))
        \/ Tail(q) \in LeafPaths(Right(t)) /\ q = Under("r", Tail(q))
    BY <2>1, LeafPathCases
  <2>3. CASE Tail(q) \in LeafPaths(Left(t)) /\ q = Under("l", Tail(q))
    <3>1. Head(q) = "l"
      BY <1>1, <2>3, PathFacts DEF SideNames
    <3>2. Tail(q) \in sl
      BY <3>1 DEF Inside
    <3>3. f[Tail(q)] \in AllowedViews(KindAt(Left(t), Tail(q)), s)
      BY <1>4, <3>2 DEF PlacedWithin
    <3>4. KindAt(t, Under("l", Tail(q))) = KindAt(Left(t), Tail(q)) /\ m[Under("l", Tail(q))] = f[Tail(q)]
      BY <1>3, <2>3, LayerFacts
    <3> HIDE DEF m
    <3> QED BY <2>3, <3>3, <3>4
  <2>4. CASE Tail(q) \in LeafPaths(Right(t)) /\ q = Under("r", Tail(q))
    <3>1. Head(q) = "r"
      BY <1>1, <2>4, PathFacts DEF SideNames
    <3>2. Tail(q) \in sr
      BY <3>1 DEF Inside
    <3>3. g[Tail(q)] \in AllowedViews(KindAt(Right(t), Tail(q)), s)
      BY <1>4, <3>2 DEF PlacedWithin
    <3>4. KindAt(t, Under("r", Tail(q))) = KindAt(Right(t), Tail(q)) /\ m[Under("r", Tail(q))] = g[Tail(q)]
      BY <1>3, <2>4, LayerFacts
    <3> HIDE DEF m
    <3> QED BY <2>4, <3>3, <3>4
  <2> QED BY <2>2, <2>3, <2>4
<1> DEFINE a == RuntimeUnder(ctx, Left(t), f, sl)
           b == RuntimeUnder(ctx, Right(t), g, sr)
           a2 == RuntimeUnder(ctx, Left(t), f, SL)
           b2 == RuntimeUnder(ctx, Right(t), g, SR)
<1>5. RuntimeUnder(ctx, t, m, S) = SideRuntimes(ctx, t, m, S, a, b)
  BY <1>3, RuntimeFacts
<1>6. a \in Nat /\ b \in Nat /\ a2 \in Nat /\ b2 \in Nat
  BY <1>1, <1>2, RuntimeFacts
<1>7. a <= a2 /\ b <= b2
  BY <1>1, <1>2, RuntimeGrows
<1>8. SideRuntimes(ctx, t, m, S, a, b) <= SideRuntimes(ctx, t, m, S, a2, b2)
  <2> HIDE DEF a, b, a2, b2, m
  <2> QED BY <1>6, <1>7, SideRuntimesGrow
<1> QED BY <1>4, <1>5, <1>8

\* A result made of results for the sides under views of the boundary.
LEMMA SeriesRealised ==
  ASSUME NEW ctx \in Contexts, NEW q, IsSubproblem(q), ~IsLeaf(q.tree),
         NEW v \in SideViews(q, "l"), NEW w \in SideViews(q, "r"), NEW a, NEW b,
         a \in Results(Left(q.tree)), Realises(ctx, ChildUnder(q, "l", v), a),
         b \in Results(Right(q.tree)), Realises(ctx, ChildUnder(q, "r", w), b)
  PROVE  /\ SeriesResult(ctx, q, a, b) \in Results(q.tree)
         /\ Realises(ctx, q, SeriesResult(ctx, q, a, b))
         /\ SeriesResult(ctx, q, a, b).runtime = a.runtime + CostOf(ctx, q.tree, a.mapping, b.mapping) + b.runtime
<1> DEFINE t == q.tree
           kl == ChildUnder(q, "l", v)
           kr == ChildUnder(q, "r", w)
           c == CostOf(ctx, t, a.mapping, b.mapping)
           x == SeriesResult(ctx, q, a, b)
           m == CombineMappings(a.mapping, b.mapping)
           ra == RuntimeUnder(ctx, Left(t), a.mapping, Placed(kl))
           rb == RuntimeUnder(ctx, Right(t), b.mapping, Placed(kr))
<1>1. t \in Trees /\ q.resources \in Slices /\ Left(t) \in Trees /\ Right(t) \in Trees
  BY SubproblemFacts, Sides
<1>2. /\ a.mapping \in Placements(Left(t)) /\ a.runtime \in Nat
      /\ b.mapping \in Placements(Right(t)) /\ b.runtime \in Nat
  BY <1>1, ResultFacts
<1>3. c \in Nat
  BY <1>1, CostType
<1>4. x \in Results(t) /\ x.runtime = a.runtime + c + b.runtime /\ x.mapping = m
  BY <1>1, <1>3, SeriesCombineFacts DEF SeriesResult
<1>5. KeepsExposed(q, m)
  BY <1>2, KeepsFromSides DEF Realises
<1>6. /\ kl.tree = Left(t) /\ kl.resources = q.resources
      /\ kr.tree = Right(t) /\ kr.resources = q.resources
  BY ChildUnderFacts DEF SideNames, SideOf
<1>7. /\ Inside(Placed(q), "l") \subseteq Placed(kl) /\ Inside(Placed(q), "r") \subseteq Placed(kr)
  BY PlacedUnder DEF SideNames
<1>8. /\ Placed(q) \in LayerSets(t) /\ Placed(kl) \in LayerSets(Left(t)) /\ Placed(kr) \in LayerSets(Right(t))
  BY <1>6, PlacedLayers
<1>9. /\ PlacedWithin(Left(t), a.mapping, Placed(kl), q.resources) /\ ra <= a.runtime
      /\ PlacedWithin(Right(t), b.mapping, Placed(kr), q.resources) /\ rb <= b.runtime
  BY <1>6 DEF Realises
<1>10. ra \in Nat /\ rb \in Nat
  BY <1>1, <1>2, <1>8, RuntimeFacts
<1> HIDE DEF kl, kr
<1>11. /\ PlacedWithin(t, m, Placed(q), q.resources)
       /\ RuntimeUnder(ctx, t, m, Placed(q)) <= SideRuntimes(ctx, t, m, Placed(q), ra, rb)
  BY <1>1, <1>2, <1>7, <1>8, <1>9, PlacedFromSides
<1>12. m \in Placements(t) /\ RestrictToChild(m, "l") = a.mapping /\ RestrictToChild(m, "r") = b.mapping
  BY <1>1, <1>2, CombinePlacements
<1>13. SideRuntimes(ctx, t, m, Placed(q), ra, rb) <= ra + c + rb
  <2>1. CostOf(ctx, t, RestrictToChild(m, "l"), RestrictToChild(m, "r")) = c
    BY <1>12
  <2>2. Longer(ra, rb) <= ra + rb /\ Longer(ra, rb) \in Nat
    BY <1>10 DEF Longer
  <2> HIDE DEF c, ra, rb, m
  <2> QED BY <1>3, <1>10, <2>1, <2>2 DEF SideRuntimes
<1>14. RuntimeUnder(ctx, t, m, Placed(q)) \in Nat /\ SideRuntimes(ctx, t, m, Placed(q), ra, rb) \in Nat
  <2> HIDE DEF ra, rb, m
  <2> QED BY <1>1, <1>8, <1>10, <1>12, RuntimeFacts, SideRuntimesType
<1> HIDE DEF c, ra, rb, m
<1>15. RuntimeUnder(ctx, t, m, Placed(q)) <= a.runtime + c + b.runtime
  BY <1>2, <1>3, <1>9, <1>10, <1>11, <1>13, <1>14
<1>16. Realises(ctx, q, x)
  <2> HIDE DEF x
  <2> QED BY <1>4, <1>5, <1>11, <1>15 DEF Realises
<1> QED BY <1>4, <1>16 DEF c

\* What is not astray for a parallel split is not fixed for its sides.
LEMMA PlacedInSplit ==
  ASSUME NEW q, IsSubproblem(q), ~IsLeaf(q.tree), ~IsSeriesSplit(q.tree), NEW side \in SideNames, NEW s
  PROVE  Inside(Placed(q), side) \subseteq Placed(Child(q, side, s))
<1> DEFINE k == Child(q, side, s)
           t == SideOf(q.tree, side)
<1>1. /\ q.tree \in Trees /\ k.tree = t /\ DOMAIN k.constraints = LeafPaths(t)
      /\ \A p \in LeafPaths(t) : k.constraints[p] = q.constraints[Under(side, p)]
  <2> HIDE DEF k, t
  <2> QED BY SubproblemFacts, ChildFacts DEF k, t
<1> SUFFICES ASSUME NEW p \in Inside(Placed(q), side) PROVE p \in Placed(k)
  OBVIOUS
<1>2. p \in LeafPaths(t) /\ Under(side, p) \in Placed(q)
  <2>1. Placed(q) \in SUBSET LeafPaths(q.tree)
    BY DEF Placed
  <2>2. /\ Inside(Placed(q), "l") \in SUBSET LeafPaths(Left(q.tree))
        /\ Inside(Placed(q), "r") \in SUBSET LeafPaths(Right(q.tree))
        /\ \A x \in Inside(Placed(q), "l") : Under("l", x) \in Placed(q)
        /\ \A x \in Inside(Placed(q), "r") : Under("r", x) \in Placed(q)
    BY <1>1, <2>1, InsideFacts
  <2> QED BY <2>2 DEF SideNames, SideOf
<1>3. Under(side, p) \notin FixedAround[q.tree] /\ Under(side, p) \notin Fixed(q)
  BY <1>1, <1>2, ExposedFacts DEF Placed, Astray
<1>4. Under(side, p) \in LeafPaths(q.tree)
  BY <1>1, <1>2, SideFacts
<1>5. q.constraints[Under(side, p)] = None
  BY <1>3, <1>4, SubproblemFacts
<1>6. p \notin FixedAround[t]
  BY <1>1, <1>3, FixedAroundSide
<1> HIDE DEF k
<1>7. p \notin Fixed(k)
  BY <1>1, <1>2, <1>5 DEF Fixed
<1> QED BY <1>1, <1>2, <1>6, <1>7 DEF Placed, Astray

\* Without exposed layers nothing is fixed, and nothing is for the sides.
LEMMA NothingFixed ==
  ASSUME NEW q, IsSubproblem(q), ~IsLeaf(q.tree), ~IsSeriesSplit(q.tree), Regular(q), NEW side \in SideNames, NEW s
  PROVE  /\ \A p : p \notin Fixed(Child(q, side, s))
         /\ Regular(Child(q, side, s))
<1> DEFINE k == Child(q, side, s)
           u == SideOf(q.tree, side)
<1>1. q.tree \in Trees
  BY SubproblemFacts
<1>2. \A p : p \notin Fixed(q)
  BY <1>1, ExposedFacts DEF Regular
<1>3. /\ k.tree = u /\ DOMAIN k.constraints = LeafPaths(u)
      /\ \A p \in LeafPaths(u) : k.constraints[p] = q.constraints[Under(side, p)]
  <2> HIDE DEF k, u
  <2> QED BY ChildFacts DEF k, u
<1>4. \A p \in LeafPaths(u) : q.constraints[Under(side, p)] = None
  BY <1>1, <1>2, SideFacts, SubproblemFacts
<1> HIDE DEF k
<1>5. \A p : p \notin Fixed(k)
  BY <1>3, <1>4 DEF Fixed
<1>6. FixedAround[u] = {}
  <2>1. \A p \in FixedAround[u] : Under(side, p) \in FixedAround[q.tree]
    BY <1>1, FixedAroundSide
  <2> QED BY <2>1 DEF Regular
<1> HIDE DEF u
<1> QED BY <1>3, <1>5, <1>6 DEF Regular, k

\* A result made of results for the sides, side by side on the two parts of the slice.
LEMMA SplitRealised ==
  ASSUME NEW ctx \in Contexts, NEW q, IsSubproblem(q), ~IsLeaf(q.tree), ~IsSeriesSplit(q.tree),
         NEW split \in MachineResourceSplits(q.resources), NEW a, NEW b,
         a \in Results(Left(q.tree)), Realises(ctx, LhsOf(q, split), a),
         b \in Results(Right(q.tree)), Realises(ctx, RhsOf(q, split), b)
  PROVE  /\ ParallelCombine(split, a, b) \in Results(q.tree)
         /\ Realises(ctx, q, ParallelCombine(split, a, b))
         /\ ParallelCombine(split, a, b).runtime = Longer(a.runtime, b.runtime)
<1> DEFINE t == q.tree
           s == q.resources
           x == ParallelCombine(split, a, b)
           n == OffsetMapping(b.mapping, split)
           m == CombineMappings(a.mapping, n)
           SL == Placed(LhsOf(q, split))
           SR == Placed(RhsOf(q, split))
           ra == RuntimeUnder(ctx, Left(t), a.mapping, SL)
           rb == RuntimeUnder(ctx, Right(t), b.mapping, SR)
<1>1. t \in Trees /\ s \in Slices /\ Left(t) \in Trees /\ Right(t) \in Trees
  BY SubproblemFacts, Sides
<1>2. /\ a.mapping \in Placements(Left(t)) /\ a.runtime \in Nat
      /\ b.mapping \in Placements(Right(t)) /\ b.runtime \in Nat
  BY <1>1, ResultFacts
<1>3. x \in Results(t) /\ x.runtime = Longer(a.runtime, b.runtime) /\ x.mapping = m
  BY <1>1, ParallelCombineFacts
<1>4. KeepsExposed(q, m)
  BY <1>1, ExposedFacts DEF KeepsExposed
<1>5. /\ LhsOf(q, split).tree = Left(t) /\ LhsOf(q, split).resources = LhsResources(split, s)
      /\ RhsOf(q, split).tree = Right(t) /\ RhsOf(q, split).resources = RhsResources(split, s)
  BY ChildFacts DEF SideNames, SideOf, LhsOf, RhsOf
<1>6. /\ Placed(q) \in LayerSets(t) /\ SL \in LayerSets(Left(t)) /\ SR \in LayerSets(Right(t))
  BY <1>5, PlacedLayers
<1>7. Inside(Placed(q), "l") \subseteq SL /\ Inside(Placed(q), "r") \subseteq SR
  BY PlacedInSplit DEF LhsOf, RhsOf, SideNames
<1>8. /\ PlacedWithin(Left(t), a.mapping, SL, LhsResources(split, s)) /\ ra <= a.runtime
      /\ PlacedWithin(Right(t), b.mapping, SR, RhsResources(split, s)) /\ rb <= b.runtime
  BY <1>5 DEF Realises
<1> HIDE DEF SL, SR
<1>9. PlacedWithin(Left(t), a.mapping, SL, s) /\ PlacedWithin(Right(t), n, SR, s)
  <2>1. \A p \in LeafPaths(Left(t)) : KindAt(Left(t), p) \in Kinds
    BY <1>1, LayerFacts
  <2>2. \A p \in LeafPaths(Right(t)) : KindAt(Right(t), p) \in Kinds /\ n[p] = OffsetView(b.mapping[p], split)
    BY <1>1, <1>2, LayerFacts, OffsetPlacement
  <2> HIDE DEF n
  <2> QED BY <1>1, <1>6, <1>8, <2>1, <2>2, AllowedLeft, AllowedRight DEF PlacedWithin, LayerSets
<1>10. n \in Placements(Right(t))
  BY <1>1, <1>2, OffsetPlacement
<1>11. RuntimeUnder(ctx, Right(t), n, SR) = rb
  BY <1>1, <1>2, <1>6, RuntimeOfOffset
<1>12. Apart(t, a.mapping, n, Placed(q))
  <2>1. /\ PlacedWithin(Left(t), a.mapping, Inside(Placed(q), "l"), LhsResources(split, s))
        /\ PlacedWithin(Right(t), b.mapping, Inside(Placed(q), "r"), RhsResources(split, s))
    BY <1>7, <1>8 DEF PlacedWithin
  <2>2. Placed(q) \in SUBSET LeafPaths(t)
    BY <1>6 DEF LayerSets
  <2> QED BY <1>1, <1>2, <2>1, <2>2, SplitIsApart
<1>13. m \in Placements(t) /\ RestrictToChild(m, "l") = a.mapping /\ RestrictToChild(m, "r") = n
  BY <1>1, <1>2, <1>10, CombinePlacements
<1> HIDE DEF n
<1>14. /\ PlacedWithin(t, m, Placed(q), s)
       /\ RuntimeUnder(ctx, t, m, Placed(q)) <= SideRuntimes(ctx, t, m, Placed(q), ra, rb)
  BY <1>1, <1>2, <1>6, <1>7, <1>9, <1>10, <1>11, PlacedFromSides
<1>15. SideRuntimes(ctx, t, m, Placed(q), ra, rb) = Longer(ra, rb)
  BY <1>12, <1>13 DEF SideRuntimes
<1>16. ra \in Nat /\ rb \in Nat
  BY <1>1, <1>2, <1>6, RuntimeFacts
<1>17. RuntimeUnder(ctx, t, m, Placed(q)) \in Nat
  BY <1>1, <1>6, <1>13, RuntimeFacts
<1>18. RuntimeUnder(ctx, t, m, Placed(q)) <= Longer(a.runtime, b.runtime)
  <2> HIDE DEF ra, rb, m
  <2> QED BY <1>2, <1>8, <1>14, <1>15, <1>16, <1>17 DEF Longer
<1>19. Realises(ctx, q, x)
  <2> HIDE DEF x, m
  <2> QED BY <1>3, <1>4, <1>14, <1>18 DEF Realises
<1> QED BY <1>3, <1>19

\* A plan that runs the sides one after the other is no faster than what the loops find.
LEMMA SeriesOptimal ==
  ASSUME NEW ctx \in Contexts, NEW saved, NEW q, IsSubproblem(q), ~IsLeaf(q.tree), Regular(q),
         PartsOf(saved, q) \subseteq DOMAIN saved,
         \A k \in DOMAIN saved : k.tree = Left(q.tree) \/ k.tree = Right(q.tree) => Solves(ctx, k, saved[k]),
         NEW l \in Plans(ctx, Left(q.tree), q.resources), NEW r \in Plans(ctx, Right(q.tree), q.resources),
         Keeps(q, SeriesResult(ctx, q, l, r).mapping)
  PROVE  \E x \in SeriesResults(ctx, saved, q) :
           x # Infeasible /\ x.runtime \in Nat /\ x.runtime <= SeriesResult(ctx, q, l, r).runtime
<1> DEFINE t == q.tree
           s == q.resources
           m == CombineMappings(l.mapping, r.mapping)
           c == CostOf(ctx, t, l.mapping, r.mapping)
<1>1. t \in Trees /\ s \in Slices /\ Left(t) \in Trees /\ Right(t) \in Trees
      /\ "l" \in SideNames /\ "r" \in SideNames /\ SideOf(t, "l") = Left(t) /\ SideOf(t, "r") = Right(t)
  BY SubproblemFacts, Sides DEF SideNames, SideOf
<1>2. l \in Results(Left(t)) /\ r \in Results(Right(t))
  BY <1>1, PlansType
<1>3. /\ l.mapping \in Placements(Left(t)) /\ l.runtime \in Nat
      /\ r.mapping \in Placements(Right(t)) /\ r.runtime \in Nat
  BY <1>1, <1>2, ResultFacts
<1>4. c \in Nat
  BY <1>1, CostType
<1>5. SeriesResult(ctx, q, l, r).runtime = l.runtime + c + r.runtime
      /\ SeriesResult(ctx, q, l, r).mapping = m
  BY <1>1, <1>2, <1>4, SeriesCombineFacts DEF SeriesResult
<1>6. /\ \A p \in LeafPaths(Left(t)) : m[Under("l", p)] = l.mapping[p]
      /\ \A p \in LeafPaths(Right(t)) : m[Under("r", p)] = r.mapping[p]
  BY <1>1, <1>3, CombinePlacements
<1>7. WithinSlice(Left(t), l.mapping, s) /\ WithinSlice(Right(t), r.mapping, s)
  BY <1>1, PlansStayWithin
<1>8. PICK v \in SideViews(q, "l") : \A p \in DOMAIN v : v[p] = l.mapping[p]
  BY <1>1, <1>7, SideViewsExist
<1>9. PICK w \in SideViews(q, "r") : \A p \in DOMAIN w : w[p] = r.mapping[p]
  BY <1>1, <1>7, SideViewsExist
<1> DEFINE kl == ChildUnder(q, "l", v)
           kr == ChildUnder(q, "r", w)
           a == saved[kl]
           b == saved[kr]
<1>10. Keeps(kl, l.mapping) /\ Keeps(kr, r.mapping)
  <2>1. Keeps(q, m)
    BY <1>5
  <2> HIDE DEF m
  <2> QED BY <2>1, <1>1, <1>6, <1>8, <1>9, KeepsToSide
<1>11. /\ kl.tree = Left(t) /\ kl.resources = s /\ Regular(kl)
       /\ kr.tree = Right(t) /\ kr.resources = s /\ Regular(kr)
  BY <1>1, ChildUnderFacts, RegularUnder
<1>12. kl \in DOMAIN saved
  BY PartsFacts
<1>13. a # Infeasible /\ a.runtime <= l.runtime /\ a \in Results(Left(t)) /\ Keeps(kl, a.mapping)
       /\ Realises(ctx, kl, a)
  <2>1. Solves(ctx, kl, a)
    BY <1>11, <1>12
  <2> HIDE DEF kl, a
  <2> QED BY <1>10, <1>11, <2>1, RealisedKeeps DEF Solves, Beats
<1>14. kr \in DOMAIN saved
  BY <1>13, PartsFacts
<1>15. b # Infeasible /\ b.runtime <= r.runtime /\ b \in Results(Right(t)) /\ Keeps(kr, b.mapping)
       /\ Realises(ctx, kr, b)
  <2>1. Solves(ctx, kr, b)
    BY <1>11, <1>14
  <2> HIDE DEF kr, b
  <2> QED BY <1>10, <1>11, <2>1, RealisedKeeps DEF Solves, Beats
<1> DEFINE x == SeriesResult(ctx, q, a, b)
<1>16. x \in SeriesResults(ctx, saved, q)
  <2> HIDE DEF x
  <2>1. x = SeriesResult(ctx, q, saved[ChildUnder(q, "l", v)], saved[ChildUnder(q, "r", w)])
    BY DEF x
  <2> QED BY <1>13, <1>15, <2>1, SeriesResultsFacts
<1>17. CostOf(ctx, t, a.mapping, b.mapping) = c
  <2>1. \A mv \in Moves(t) : mv.src \in Fixed(kl) /\ mv.dst \in Fixed(kr)
    <3>1. \A mv \in Moves(t) : mv.src \in Boundary(t, "l") /\ mv.dst \in Boundary(t, "r")
      BY DEF Boundary
    <3>2. \A mv \in Moves(t) : mv.src \in LeafPaths(Left(t)) /\ mv.dst \in LeafPaths(Right(t))
      BY <1>1, MovesFacts
    <3> QED BY <1>1, <3>1, <3>2, FixedUnder
  <2>2. \A mv \in Moves(t) : a.mapping[mv.src] = l.mapping[mv.src] /\ b.mapping[mv.dst] = r.mapping[mv.dst]
    BY <1>10, <1>13, <1>15, <2>1 DEF Keeps
  <2> HIDE DEF a, b
  <2> QED BY <1>1, <2>2, CostOfBoundary
<1>18. x \in Results(t) /\ x.runtime = a.runtime + CostOf(ctx, t, a.mapping, b.mapping) + b.runtime
  <2> HIDE DEF a, b
  <2> QED BY <1>13, <1>15, SeriesRealised
<1>19. x # Infeasible /\ x.runtime \in Nat
  BY <1>1, <1>18, ResultFacts DEF IsInfeasible
<1>20. a.runtime \in Nat /\ b.runtime \in Nat
  BY <1>1, <1>13, <1>15, ResultFacts
<1>21. x.runtime <= l.runtime + c + r.runtime
  <2> HIDE DEF a, b, c, x
  <2> QED BY <1>3, <1>4, <1>13, <1>15, <1>17, <1>18, <1>20
<1> QED BY <1>5, <1>16, <1>19, <1>21

LEMMA SplitOptimal ==
  ASSUME NEW ctx \in Contexts, NEW saved, NEW q, IsSubproblem(q), ~IsLeaf(q.tree), ~IsSeriesSplit(q.tree),
         Regular(q), PartsOf(saved, q) \subseteq DOMAIN saved,
         \A k \in DOMAIN saved : k.tree = Left(q.tree) \/ k.tree = Right(q.tree) => Solves(ctx, k, saved[k]),
         NEW split \in MachineResourceSplits(q.resources),
         NEW l \in Plans(ctx, Left(q.tree), LhsResources(split, q.resources)),
         NEW r \in Plans(ctx, Right(q.tree), RhsResources(split, q.resources))
  PROVE  \E x \in SplitResults(saved, q) :
           x # Infeasible /\ x.runtime \in Nat /\ x.runtime <= ParallelCombine(split, l, r).runtime
<1> DEFINE t == q.tree
           s == q.resources
           kl == LhsOf(q, split)
           kr == RhsOf(q, split)
           a == saved[kl]
           b == saved[kr]
<1>1. t \in Trees /\ s \in Slices /\ Left(t) \in Trees /\ Right(t) \in Trees
  BY SubproblemFacts, Sides
<1>2. LhsResources(split, s) \in Slices /\ RhsResources(split, s) \in Slices
  BY <1>1, SplitFacts
<1>3. l \in Results(Left(t)) /\ r \in Results(Right(t))
  BY <1>1, <1>2, PlansType
<1>4. l.runtime \in Nat /\ r.runtime \in Nat
  BY <1>1, <1>3, ResultFacts
<1>5. ParallelCombine(split, l, r).runtime = Longer(l.runtime, r.runtime)
  BY <1>1, <1>3, ParallelCombineFacts
<1>6. /\ kl.tree = Left(t) /\ kl.resources = LhsResources(split, s)
      /\ kr.tree = Right(t) /\ kr.resources = RhsResources(split, s)
  BY ChildFacts DEF SideNames, SideOf, LhsOf, RhsOf
<1>7. Regular(kl) /\ Regular(kr) /\ (\A p : p \notin Fixed(kl)) /\ (\A p : p \notin Fixed(kr))
  BY NothingFixed DEF LhsOf, RhsOf, SideNames
<1>8. Keeps(kl, l.mapping) /\ Keeps(kr, r.mapping)
  BY <1>7 DEF Keeps
<1>9. kl \in DOMAIN saved /\ kr \in DOMAIN saved
  BY PartsFacts
<1>10. Solves(ctx, kl, a) /\ Solves(ctx, kr, b)
  BY <1>6, <1>9
<1> HIDE DEF kl, kr
<1>11. a # Infeasible /\ a.runtime <= l.runtime /\ a \in Results(Left(t)) /\ Realises(ctx, kl, a)
  <2> HIDE DEF a
  <2> QED BY <1>6, <1>7, <1>8, <1>10 DEF Solves, Beats
<1>12. b # Infeasible /\ b.runtime <= r.runtime /\ b \in Results(Right(t)) /\ Realises(ctx, kr, b)
  <2> HIDE DEF b
  <2> QED BY <1>6, <1>7, <1>8, <1>10 DEF Solves, Beats
<1> DEFINE x == ParallelCombine(split, a, b)
<1>13. x \in SplitResults(saved, q)
  <2> HIDE DEF x
  <2>1. x = ParallelCombine(split, saved[LhsOf(q, split)], saved[RhsOf(q, split)])
    BY DEF x, kl, kr
  <2> QED BY <2>1, SplitResultsFacts
<1>14. x \in Results(t) /\ x.runtime = Longer(a.runtime, b.runtime)
  <2> HIDE DEF a, b
  <2> QED BY <1>11, <1>12, SplitRealised DEF kl, kr
<1>15. x # Infeasible /\ x.runtime \in Nat
  BY <1>1, <1>14, ResultFacts DEF IsInfeasible
<1>16. a.runtime \in Nat /\ b.runtime \in Nat
  BY <1>1, <1>11, <1>12, ResultFacts
<1>17. x.runtime <= Longer(l.runtime, r.runtime)
  <2> HIDE DEF a, b, x
  <2> QED BY <1>4, <1>11, <1>12, <1>14, <1>16 DEF Longer
<1> QED BY <1>5, <1>13, <1>15, <1>17

AllResults(ctx, saved, q) ==
  SeriesResults(ctx, saved, q) \cup IF IsSeriesSplit(q.tree) THEN {} ELSE SplitResults(saved, q)

LEMMA SplitSolved ==
  ASSUME NEW ctx \in Contexts, NEW saved, NEW q, IsSubproblem(q), ~IsLeaf(q.tree),
         PartsOf(saved, q) \subseteq DOMAIN saved,
         \A k \in DOMAIN saved : k.tree = Left(q.tree) \/ k.tree = Right(q.tree) => Solves(ctx, k, saved[k]),
         NEW y, IsFastest(y, AllResults(ctx, saved, q))
  PROVE  Solves(ctx, q, y)
<1> DEFINE t == q.tree
<1>1. t \in Trees /\ q.resources \in Slices /\ Left(t) \in Trees /\ Right(t) \in Trees
  BY SubproblemFacts, Sides
<1>2. \A x : x \in AllResults(ctx, saved, q)
          <=> x \in SeriesResults(ctx, saved, q) \/ (~IsSeriesSplit(t) /\ x \in SplitResults(saved, q))
  BY DEF AllResults
<1>3. ASSUME y # Infeasible PROVE y \in Results(t) /\ Realises(ctx, q, y)
  <2>1. y \in AllResults(ctx, saved, q)
    BY <1>3, FastestFacts
  <2>2. CASE y \in SeriesResults(ctx, saved, q)
    <3>1. PICK v \in SideViews(q, "l"), w \in SideViews(q, "r") :
                  /\ saved[ChildUnder(q, "l", v)] # Infeasible
                  /\ saved[ChildUnder(q, "r", w)] # Infeasible
                  /\ y = SeriesResult(ctx, q, saved[ChildUnder(q, "l", v)], saved[ChildUnder(q, "r", w)])
      BY <2>2, SeriesResultsFacts
    <3> DEFINE kl == ChildUnder(q, "l", v)
               kr == ChildUnder(q, "r", w)
    <3>2. kl \in DOMAIN saved /\ kr \in DOMAIN saved
      BY <3>1, PartsFacts
    <3>3. kl.tree = Left(t) /\ kr.tree = Right(t)
      BY ChildUnderFacts DEF SideNames, SideOf
    <3>4. Solves(ctx, kl, saved[kl]) /\ Solves(ctx, kr, saved[kr])
      BY <3>2, <3>3
    <3>5. /\ saved[kl] \in Results(Left(t)) /\ Realises(ctx, kl, saved[kl])
          /\ saved[kr] \in Results(Right(t)) /\ Realises(ctx, kr, saved[kr])
      <4> HIDE DEF kl, kr
      <4>1. saved[kl] # Infeasible /\ saved[kr] # Infeasible
        BY <3>1 DEF kl, kr
      <4> QED BY <3>3, <3>4, <4>1 DEF Solves
    <3> QED BY <3>1, <3>5, SeriesRealised
  <2>3. CASE ~IsSeriesSplit(t) /\ y \in SplitResults(saved, q)
    <3>1. PICK split \in MachineResourceSplits(q.resources) :
                  y = ParallelCombine(split, saved[LhsOf(q, split)], saved[RhsOf(q, split)])
      BY <2>3, SplitResultsFacts
    <3> DEFINE kl == LhsOf(q, split)
               kr == RhsOf(q, split)
    <3>2. kl \in DOMAIN saved /\ kr \in DOMAIN saved
      BY <2>3, PartsFacts
    <3>3. kl.tree = Left(t) /\ kr.tree = Right(t)
      BY ChildFacts DEF SideNames, SideOf, LhsOf, RhsOf
    <3>4. Solves(ctx, kl, saved[kl]) /\ Solves(ctx, kr, saved[kr])
      BY <3>2, <3>3
    <3>5. saved[kl] # Infeasible /\ saved[kr] # Infeasible
      <4> HIDE DEF kl, kr
      <4> QED BY <1>3, <3>1 DEF ParallelCombine, IsInfeasible, kl, kr
    <3>6. /\ saved[kl] \in Results(Left(t)) /\ Realises(ctx, kl, saved[kl])
          /\ saved[kr] \in Results(Right(t)) /\ Realises(ctx, kr, saved[kr])
      <4> HIDE DEF kl, kr
      <4> QED BY <3>3, <3>4, <3>5 DEF Solves
    <3> QED BY <2>3, <3>1, <3>6, SplitRealised
  <2> QED BY <1>2, <2>1, <2>2, <2>3
<1>4. ASSUME Regular(q), NEW plan \in Plans(ctx, t, q.resources), Keeps(q, plan.mapping)
      PROVE  y # Infeasible /\ y.runtime <= plan.runtime
  <2>1. plan.runtime \in Nat
    BY <1>1, PlansType, ResultFacts
  <2>2. ASSUME NEW x \in AllResults(ctx, saved, q), x # Infeasible, x.runtime \in Nat, x.runtime <= plan.runtime
        PROVE  y # Infeasible /\ y.runtime <= plan.runtime
    <3>1. y # Infeasible /\ y.runtime <= x.runtime
      BY <2>2, FastestFacts
    <3>2. y.runtime \in Nat
      BY <1>1, <1>3, <3>1, ResultFacts
    <3> QED BY <2>1, <2>2, <3>1, <3>2
  <2>3. CASE \E l \in Plans(ctx, Left(t), q.resources), r \in Plans(ctx, Right(t), q.resources) :
               plan = SeriesCombine(CostOf(ctx, t, l.mapping, r.mapping), l, r)
    <3>1. PICK l \in Plans(ctx, Left(t), q.resources), r \in Plans(ctx, Right(t), q.resources) :
               plan = SeriesCombine(CostOf(ctx, t, l.mapping, r.mapping), l, r)
      BY <2>3
    <3>2. plan = SeriesResult(ctx, q, l, r)
      BY <3>1 DEF SeriesResult
    <3>3. \E x \in SeriesResults(ctx, saved, q) :
           x # Infeasible /\ x.runtime \in Nat /\ x.runtime <= SeriesResult(ctx, q, l, r).runtime
      BY <1>4, <3>2, SeriesOptimal
    <3> QED BY <1>2, <2>2, <3>2, <3>3
  <2>4. CASE ~IsSeriesSplit(t)
             /\ \E split \in MachineResourceSplits(q.resources) :
                \E l \in Plans(ctx, Left(t), LhsResources(split, q.resources)),
                   r \in Plans(ctx, Right(t), RhsResources(split, q.resources)) :
                   plan = ParallelCombine(split, l, r)
    <3>1. PICK split \in MachineResourceSplits(q.resources) :
                \E l \in Plans(ctx, Left(t), LhsResources(split, q.resources)),
                   r \in Plans(ctx, Right(t), RhsResources(split, q.resources)) :
                   plan = ParallelCombine(split, l, r)
      BY <2>4
    <3>2. PICK l \in Plans(ctx, Left(t), LhsResources(split, q.resources)),
               r \in Plans(ctx, Right(t), RhsResources(split, q.resources)) :
                   plan = ParallelCombine(split, l, r)
      BY <3>1
    <3>3. \E x \in SplitResults(saved, q) :
           x # Infeasible /\ x.runtime \in Nat /\ x.runtime <= ParallelCombine(split, l, r).runtime
      BY <1>4, <2>4, SplitOptimal
    <3> QED BY <1>2, <2>2, <2>4, <3>2, <3>3
  <2> QED BY <1>1, <2>3, <2>4, SplitPlan
<1> QED BY <1>3, <1>4 DEF Solves, Beats

\* Every result in a cache that has grown as the code grows it solves its subproblem.
LEMMA CacheSolves ==
  ASSUME NEW ctx \in Contexts, NEW saved,
         \A k \in DOMAIN saved : IsSubproblem(k) /\ Justified(ctx, saved, k)
  PROVE  \A k \in DOMAIN saved : Solves(ctx, k, saved[k])
<1> DEFINE G(t) == \A k \in DOMAIN saved : k.tree = t => Solves(ctx, k, saved[k])
           Good == {t \in Trees : G(t)}
<1>1. ASSUME NEW t \in Trees, IsLeaf(t) PROVE G(t)
  <2> SUFFICES ASSUME NEW k \in DOMAIN saved, k.tree = t PROVE Solves(ctx, k, saved[k])
    OBVIOUS
  <2>1. IsSubproblem(k) /\ IsFastest(saved[k], LeafResults(ctx, k))
    BY <1>1 DEF Justified
  <2> QED BY <1>1, <2>1, LeafSolved
<1>2. ASSUME NEW t \in Trees, ~IsLeaf(t), G(Left(t)), G(Right(t)) PROVE G(t)
  <2> SUFFICES ASSUME NEW k \in DOMAIN saved, k.tree = t PROVE Solves(ctx, k, saved[k])
    OBVIOUS
  <2>1. /\ IsSubproblem(k) /\ PartsOf(saved, k) \subseteq DOMAIN saved
        /\ IsFastest(saved[k], AllResults(ctx, saved, k))
    BY <1>2 DEF Justified, AllResults
  <2>2. \A j \in DOMAIN saved : j.tree = Left(k.tree) \/ j.tree = Right(k.tree) => Solves(ctx, j, saved[j])
    BY <1>2
  <2> QED BY <1>2, <2>1, <2>2, SplitSolved
<1>3. Good \in SUBSET Trees /\ \A t \in Trees : t \in Good <=> G(t)
  OBVIOUS
<1> HIDE DEF Good, G
<1>4. Good = Trees
  BY <1>1, <1>2, <1>3, Sides, TreeInduction
<1>5. \A t \in Trees : G(t)
  BY <1>3, <1>4
<1>6. \A k \in DOMAIN saved : k.tree \in Trees
  BY SubproblemFacts
<1> QED BY <1>5, <1>6 DEF G

-----------------------------------------------------------------------------
(***************************************************************************)
(* The search loop keeps its promises whatever mapping a graph costs.      *)
(***************************************************************************)
Exploring == problem.alpha[1] >= problem.alpha[2]

\* What stands between a graph that was mapped and its being forgotten.
Remembered(i) ==
    \/ best.runtime <= considered[i].runtime
    \/ \E c \in candidates : c.runtime <= considered[i].runtime

NothingForgotten ==
    pc \in {"loop", "expanding", "returned"} /\ Exploring =>
        \A i \in DOMAIN considered : Remembered(i)

\* With alpha < 1 a first graph that takes any time stays alone: the loop takes it
\* out of the queue and goes on.
FirstStaysAlone ==
    ~Exploring /\ considered # <<>> =>
        \/ considered[1].runtime \in {0, Infinity}
        \/ /\ Len(considered) = 1 /\ best = considered[1]
           /\ candidates \subseteq {best} /\ pc # "expanding"

Positions ==
    /\ pc = "begin" => considered = <<>> /\ candidates = {} /\ iteration = 0
    /\ pc = "expanding" => iteration < problem.budget
    /\ pc \in {"loop", "expanding"} => considered # <<>>

IInv == TypeOK /\ Positions /\ NothingForgotten /\ FirstStaysAlone

\* Alpha at least one: what is not within alpha of a time is slower.
LEMMA BeyondAlphaIsSlower ==
    ASSUME NEW s \in Nat, NEW b \in Nat, NEW n \in Nat \ {0}, NEW d \in Nat \ {0},
           n >= d, s * d > b * n
    PROVE  b <= s
<1> SUFFICES ASSUME s < b PROVE FALSE
  OBVIOUS
<1>1. s * d <= b * d
  BY SMT
<1>2. b * d <= b * n
  BY SMT
<1> QED BY <1>1, <1>2

\* Alpha below one: nothing that takes time is within alpha of itself.
LEMMA NotWithinItself ==
    ASSUME NEW b \in Nat \ {0}, NEW n \in Nat \ {0}, NEW d \in Nat \ {0}, n < d
    PROVE  ~(b * d <= b * n)
BY SMT

LEMMA InitIInv == SearchInit => IInv
<1> SUFFICES ASSUME SearchInit PROVE IInv
  OBVIOUS
<1>1. TypeOK
  BY ProblemsAssumption DEF SearchInit, TypeOK, States, State, Costs
<1> QED BY <1>1 DEF SearchInit, IInv, Positions, NothingForgotten, FirstStaysAlone

\* Costs are numbers, and infinity is the largest.
LEMMA CostsAreNumbers ==
    \A c \in Costs : c \in Nat /\ c <= Infinity
BY RuntimesAssumption DEF Costs

LEMMA BeginIInv ==
    ASSUME IInv, NEW cost \in Costs, Begin(cost)
    PROVE  IInv'
<1>1. /\ pc = "begin" /\ pc' = "loop" /\ problem' = problem
      /\ best' = [pcg |-> problem.pcg, runtime |-> cost]
      /\ candidates' = {best'} /\ considered' = <<best'>>
      /\ iteration' = iteration /\ todo' = todo
  BY DEF Begin, Starting, State
<1>2. best' \in States
  BY <1>1, ProblemsAssumption DEF IInv, TypeOK, States
<1>3. TypeOK'
  BY <1>1, <1>2 DEF IInv, TypeOK
<1>4. Positions'
  BY <1>1 DEF Positions
<1>5. DOMAIN considered' = {1} /\ considered'[1] = best' /\ Len(considered') = 1
  BY <1>1
<1>6. NothingForgotten'
  BY <1>1, <1>2, <1>5, CostsAreNumbers DEF NothingForgotten, Remembered
<1>7. FirstStaysAlone'
  BY <1>1, <1>5 DEF FirstStaysAlone
<1> QED BY <1>3, <1>4, <1>6, <1>7 DEF IInv

LEMMA PopIInv ==
    ASSUME IInv, Pop
    PROVE  IInv'
<1>1. PICK s \in candidates : IsTop(s) /\ candidates' = candidates \ {s} /\ Expand(s)
  BY DEF Pop
<1>2. /\ s \in States /\ best \in States /\ pc = "loop" /\ iteration < problem.budget
      /\ problem' = problem /\ considered' = considered
      /\ best' = IF s.runtime < best.runtime THEN s ELSE best
      /\ \/ /\ s.runtime < best.runtime \/ WithinAlpha(s)
            /\ pc' = "expanding" /\ todo' = problem.rewrites[s.pcg] /\ iteration' = iteration
         \/ /\ ~(s.runtime < best.runtime \/ WithinAlpha(s))
            /\ pc' = pc /\ todo' = todo /\ iteration' = iteration + 1
  BY <1>1 DEF Pop, Expand, IInv, TypeOK
<1>3. s.runtime \in Nat /\ best.runtime \in Nat /\ best.runtime <= Infinity
  BY <1>2, CostsAreNumbers DEF States
<1>4. TypeOK'
  <2>1. problem.rewrites[s.pcg] \in Seq(PCGs) /\ problem.budget \in Nat
    BY <1>2, ProblemsAssumption DEF IInv, TypeOK, States
  <2> QED BY <1>1, <1>2, <2>1 DEF IInv, TypeOK
<1>5. Positions'
  BY <1>2 DEF IInv, Positions
<1>6. NothingForgotten'
  <2> SUFFICES ASSUME Exploring, NEW i \in DOMAIN considered
               PROVE  Remembered(i)'
    BY <1>2 DEF NothingForgotten, Exploring
  <2>1. Remembered(i)
    BY <1>2 DEF IInv, NothingForgotten
  <2>2. considered[i].runtime \in Nat
    <3>1. considered[i] \in States
      BY DEF IInv, TypeOK
    <3> QED BY <3>1, CostsAreNumbers DEF States
  <2>3. best'.runtime <= best.runtime /\ best'.runtime <= s.runtime
    BY <1>2, <1>3
  <2>4. \A c \in candidates : c.runtime \in Nat
    BY CostsAreNumbers DEF IInv, TypeOK, States
  <2>5. best'.runtime \in Nat
    BY <1>2, <1>3
  <2> QED BY <1>1, <1>2, <1>3, <2>1, <2>2, <2>3, <2>4, <2>5 DEF Remembered
<1>7. FirstStaysAlone'
  <2> SUFFICES ASSUME ~Exploring, considered # <<>>, considered[1].runtime \notin {0, Infinity}
               PROVE  Len(considered) = 1 /\ best' = considered[1] /\ pc' # "expanding"
                      /\ candidates' \subseteq {best'}
    BY <1>2 DEF FirstStaysAlone, Exploring
  <2>1. Len(considered) = 1 /\ best = considered[1] /\ candidates \subseteq {best}
    BY DEF IInv, FirstStaysAlone
  <2>2. s = best /\ best' = best
    BY <1>1, <1>2, <1>3, <2>1
  <2>3. ~WithinAlpha(s)
    <3>1. problem.alpha[1] \in Nat \ {0} /\ problem.alpha[2] \in Nat \ {0}
      BY ProblemsAssumption DEF IInv, TypeOK
    <3>2. best.runtime \in Nat \ {0} /\ best.runtime # Infinity
      BY <1>3, <2>1
    <3> QED BY <2>2, <3>1, <3>2, NotWithinItself DEF WithinAlpha, Exploring
  <2> QED BY <1>1, <1>2, <1>3, <2>1, <2>2, <2>3
<1> QED BY <1>4, <1>5, <1>6, <1>7 DEF IInv

LEMMA EvaluateIInv ==
    ASSUME IInv, NEW cost \in Costs, Evaluate(cost)
    PROVE  IInv'
<1> DEFINE new == State(Head(todo), cost)
           kept == WithinAlpha(new) /\ ~ \E s \in candidates : s.runtime = new.runtime
<1>1. /\ pc = "expanding" /\ todo # <<>> /\ pc' = pc /\ problem' = problem /\ best' = best
      /\ iteration' = iteration /\ todo' = Tail(todo)
      /\ candidates' = candidates \/ (kept /\ candidates' = candidates \cup {new})
      /\ \/ considered' = considered
         \/ considered' = Append(considered, new) /\ (kept => candidates' = candidates \cup {new})
  BY DEF Evaluate, Evaluating
<1>2. new \in States /\ new.runtime = cost /\ cost \in Nat
  <2>1. Head(todo) \in PCGs
    BY <1>1 DEF IInv, TypeOK
  <2> QED BY <2>1, CostsAreNumbers DEF States, State
<1> HIDE DEF new
<1>3. TypeOK'
  <2>1. candidates' \subseteq States /\ \A s, u \in candidates' : s.runtime = u.runtime => s = u
    BY <1>1, <1>2 DEF IInv, TypeOK
  <2>2. considered' \in Seq(States)
    BY <1>1, <1>2 DEF IInv, TypeOK
  <2>3. todo' \in Seq(PCGs)
    BY <1>1 DEF IInv, TypeOK
  <2> QED BY <1>1, <2>1, <2>2, <2>3 DEF IInv, TypeOK
<1>4. Positions'
  BY <1>1 DEF IInv, Positions
<1>5. NothingForgotten'
  <2> SUFFICES ASSUME Exploring, NEW i \in DOMAIN considered'
               PROVE  Remembered(i)'
    BY <1>1 DEF NothingForgotten, Exploring
  <2>1. candidates \subseteq candidates'
    BY <1>1
  <2>2. CASE i \in DOMAIN considered /\ considered'[i] = considered[i]
    <3>1. Remembered(i)
      BY <1>1, <2>2 DEF IInv, NothingForgotten
    <3> QED BY <1>1, <2>1, <2>2, <3>1 DEF Remembered
  <2>3. CASE considered' = Append(considered, new) /\ considered'[i] = new
    <3>1. CASE kept
      BY <1>1, <1>2, <2>3, <3>1 DEF Remembered
    <3>2. CASE \E s \in candidates : s.runtime = new.runtime
      BY <1>2, <2>1, <2>3, <3>2 DEF Remembered
    <3>3. CASE ~WithinAlpha(new)
      <4>1. problem.alpha[1] \in Nat \ {0} /\ problem.alpha[2] \in Nat \ {0}
        BY ProblemsAssumption DEF IInv, TypeOK
      <4>2. best.runtime \in Nat /\ best.runtime <= Infinity
        BY CostsAreNumbers DEF IInv, TypeOK, States
      <4>3. best.runtime <= new.runtime
        <5>1. CASE new.runtime = Infinity
          BY <4>2, <5>1
        <5>2. CASE new.runtime # Infinity
          <6>1. new.runtime * problem.alpha[2] > best.runtime * problem.alpha[1]
            <7>1. ~(new.runtime * problem.alpha[2] <= best.runtime * problem.alpha[1])
              BY <3>3, <5>2 DEF WithinAlpha
            <7>2. /\ new.runtime * problem.alpha[2] \in Nat
                  /\ best.runtime * problem.alpha[1] \in Nat
              BY <1>2, <4>1, <4>2
            <7> QED BY <7>1, <7>2
          <6> QED BY <1>2, <4>1, <4>2, <6>1, BeyondAlphaIsSlower DEF Exploring
        <5> QED BY <5>1, <5>2
      <4> QED BY <1>1, <2>3, <4>3 DEF Remembered
    <3> QED BY <3>1, <3>2, <3>3
  <2>4. considered \in Seq(States)
    BY DEF IInv, TypeOK
  <2> QED BY <1>1, <1>2, <2>2, <2>3, <2>4
<1>6. FirstStaysAlone'
  <2> SUFFICES ASSUME ~Exploring, considered' # <<>>,
                      considered'[1].runtime \notin {0, Infinity}
               PROVE  FALSE
    BY <1>1 DEF FirstStaysAlone, Exploring
  <2>1. considered \in Seq(States) /\ considered # <<>>
    BY <1>1 DEF IInv, TypeOK, Positions
  <2>2. considered'[1] = considered[1]
    BY <1>1, <1>2, <2>1
  <2> QED BY <1>1, <2>1, <2>2 DEF IInv, FirstStaysAlone
<1> QED BY <1>3, <1>4, <1>5, <1>6 DEF IInv

LEMMA OtherIInv ==
    ASSUME IInv,
           \/ \E cost \in Costs : ReturnResult(cost)
           \/ BeginUndecomposable \/ EvaluateUndecomposable \/ EndIteration
           \/ UNCHANGED searchVars
    PROVE  IInv'
<1>1. /\ UNCHANGED <<problem, best, candidates, todo, considered>>
      /\ \/ UNCHANGED <<pc, iteration>>
         \/ pc' = "aborted" /\ iteration' = iteration
         \/ pc = "loop" /\ pc' = "returned" /\ iteration' = iteration
         \/ pc = "expanding" /\ pc' = "loop" /\ iteration' = iteration + 1
  BY DEF ReturnResult, Returning, BeginUndecomposable, EvaluateUndecomposable, EndIteration,
         Abort, searchVars
<1>2. TypeOK'
  BY <1>1, ProblemsAssumption DEF IInv, TypeOK, Positions
<1>3. Positions'
  BY <1>1 DEF IInv, Positions
<1>4. NothingForgotten'
  BY <1>1 DEF IInv, NothingForgotten, Remembered, Exploring
<1>5. FirstStaysAlone'
  BY <1>1 DEF IInv, FirstStaysAlone, Exploring
<1> QED BY <1>2, <1>3, <1>4, <1>5 DEF IInv

\* The invariant holds in every reachable state of the search.
THEOREM SearchInductive == SearchSpec => []IInv
<1>1. IInv /\ [SearchNext]_searchVars => IInv'
  BY BeginIInv, PopIInv, EvaluateIInv, OtherIInv DEF SearchNext
<1> QED BY InitIInv, <1>1, PTL DEF SearchSpec

\* The queue never holds two states with one runtime and the loop never exceeds
\* its budget, whatever mapping costs.
THEOREM SearchTypes == SearchSpec => []TypeOK
<1>1. IInv => TypeOK
  BY DEF IInv
<1> QED BY <1>1, SearchInductive, PTL

\* No graph that was mapped and is faster than the best is lost; with alpha < 1 the
\* search stops at the first graph that takes time.
THEOREM NothingFasterLost == SearchSpec => []NothingFasterIsForgotten
<1>1. IInv => NothingFasterIsForgotten
  <2> SUFFICES ASSUME IInv PROVE NothingFasterIsForgotten
    OBVIOUS
  <2>1. pc \in {"loop", "returned"} /\ problem.alpha[1] >= problem.alpha[2] =>
          \A i \in DOMAIN considered : Remembered(i)
    BY DEF IInv, NothingForgotten, Exploring
  <2>2. problem.alpha[1] < problem.alpha[2] => ~Exploring
    BY ProblemsAssumption DEF IInv, TypeOK, Exploring
  <2> QED BY <2>1, <2>2 DEF NothingFasterIsForgotten, IInv, FirstStaysAlone, Remembered
<1> QED BY <1>1, SearchInductive, PTL

-----------------------------------------------------------------------------
(***************************************************************************)
(* What mapping costs is not just anything: it is saved in the cache.      *)
(***************************************************************************)
LEMMA PartsStay ==
  ASSUME NEW c1, NEW c2, NEW q, PartsOf(c1, q) \subseteq DOMAIN c1,
         \A k \in DOMAIN c1 : k \in DOMAIN c2 /\ c2[k] = c1[k]
  PROVE  PartsOf(c2, q) = PartsOf(c1, q)
<1>1. \A v \in PreViews(q) : c2[ChildUnder(q, "l", v)] = c1[ChildUnder(q, "l", v)]
  BY PartsFacts, SideViewsFacts
<1>2. FeasiblePre(c2, q) = FeasiblePre(c1, q)
  BY <1>1 DEF FeasiblePre
<1> QED BY <1>2 DEF PartsOf

LEMMA ResultsStay ==
  ASSUME NEW ctx, NEW c1, NEW c2, NEW q, PartsOf(c1, q) \subseteq DOMAIN c1,
         \A k \in DOMAIN c1 : k \in DOMAIN c2 /\ c2[k] = c1[k]
  PROVE  AllResults(ctx, c2, q) = AllResults(ctx, c1, q)
<1> DEFINE kl(v) == ChildUnder(q, "l", v)
           kr(w) == ChildUnder(q, "r", w)
<1>1. \A v \in SideViews(q, "l") : kl(v) \in DOMAIN c1 /\ c2[kl(v)] = c1[kl(v)]
  BY PartsFacts
<1>2. \A v \in SideViews(q, "l") : c1[kl(v)] # Infeasible =>
        \A w \in SideViews(q, "r") : kr(w) \in DOMAIN c1 /\ c2[kr(w)] = c1[kr(w)]
  BY PartsFacts
<1>3. ASSUME NEW x PROVE x \in SeriesResults(ctx, c2, q) <=> x \in SeriesResults(ctx, c1, q)
  <2>1. x \in SeriesResults(ctx, c1, q)
           <=> \E v \in SideViews(q, "l"), w \in SideViews(q, "r") :
                  /\ c1[kl(v)] # Infeasible /\ c1[kr(w)] # Infeasible
                  /\ x = SeriesResult(ctx, q, c1[kl(v)], c1[kr(w)])
    BY SeriesResultsFacts
  <2>2. x \in SeriesResults(ctx, c2, q)
           <=> \E v \in SideViews(q, "l"), w \in SideViews(q, "r") :
                  /\ c2[kl(v)] # Infeasible /\ c2[kr(w)] # Infeasible
                  /\ x = SeriesResult(ctx, q, c2[kl(v)], c2[kr(w)])
    BY SeriesResultsFacts
  <2> HIDE DEF kl, kr
  <2> QED BY <1>1, <1>2, <2>1, <2>2
<1>4. ASSUME ~IsSeriesSplit(q.tree), NEW x PROVE x \in SplitResults(c2, q) <=> x \in SplitResults(c1, q)
  <2>1. \A split \in MachineResourceSplits(q.resources) :
          c2[LhsOf(q, split)] = c1[LhsOf(q, split)] /\ c2[RhsOf(q, split)] = c1[RhsOf(q, split)]
    BY <1>4, PartsFacts
  <2> QED BY <2>1, SplitResultsFacts
<1>5. SeriesResults(ctx, c2, q) = SeriesResults(ctx, c1, q)
  BY <1>3
<1>6. ~IsSeriesSplit(q.tree) => SplitResults(c2, q) = SplitResults(c1, q)
  BY <1>4
<1> QED BY <1>5, <1>6 DEF AllResults

\* A cache that only grows keeps what it holds justified.
LEMMA JustifiedStays ==
  ASSUME NEW ctx, NEW c1, NEW c2, NEW q \in DOMAIN c1, Justified(ctx, c1, q),
         \A k \in DOMAIN c1 : k \in DOMAIN c2 /\ c2[k] = c1[k]
  PROVE  Justified(ctx, c2, q)
<1>1. c2[q] = c1[q]
  OBVIOUS
<1>2. CASE IsLeaf(q.tree)
  BY <1>1, <1>2 DEF Justified
<1>3. CASE ~IsLeaf(q.tree)
  <2>1. PartsOf(c1, q) \subseteq DOMAIN c1 /\ IsFastest(c1[q], AllResults(ctx, c1, q))
    BY <1>3 DEF Justified, AllResults
  <2>2. PartsOf(c2, q) = PartsOf(c1, q) /\ AllResults(ctx, c2, q) = AllResults(ctx, c1, q)
    BY <2>1, PartsStay, ResultsStay
  <2>3. PartsOf(c2, q) \subseteq DOMAIN c2 /\ IsFastest(c2[q], AllResults(ctx, c2, q))
    BY <1>1, <2>1, <2>2
  <2> QED BY <1>3, <2>3 DEF Justified, AllResults
<1> QED BY <1>2, <1>3

CacheJustified ==
  \A k \in DOMAIN cache : IsSubproblem(k) /\ Justified(problem.ctx, cache, k)

\* The graph of s has been mapped, and s has the runtime that the cache holds for it.
IsMapped(s) ==
  /\ s.pcg \in PCGs /\ Pcg[s.pcg].sp # NoSP
  /\ RootProblem(s.pcg) \in DOMAIN cache
  /\ s.runtime = RuntimeCost(cache[RootProblem(s.pcg)])

StatesAreMapped ==
  pc \in {"loop", "expanding", "returned"} => IsMapped(best) /\ \A s \in candidates : IsMapped(s)

AnswerIsSaved ==
  pc = "returned" => answer = cache[RootProblem(best.pcg)] /\ answer # Infeasible

CachedIInv == IInv /\ CacheJustified /\ StatesAreMapped /\ AnswerIsSaved

LEMMA InitCachedIInv == CachedInit => CachedIInv
<1> SUFFICES ASSUME CachedInit PROVE CachedIInv
  OBVIOUS
<1>1. IInv
  BY InitIInv DEF CachedInit
<1>2. pc = "begin" /\ cache = EmptyCache
  BY DEF CachedInit, SearchInit
<1>3. \A k : k \notin DOMAIN cache
  BY <1>2 DEF EmptyCache
<1> QED BY <1>1, <1>2, <1>3 DEF CachedIInv, CacheJustified, StatesAreMapped, AnswerIsSaved

CacheGrows == \A k \in DOMAIN cache : k \in DOMAIN cache' /\ cache'[k] = cache[k]

LEMMA SolveGrows ==
  ASSUME CachedIInv, problem' = problem, NEW g, Solve(g)
  PROVE  CacheGrows /\ CacheJustified' /\ RootProblem(g)' \in DOMAIN cache'
<1>1. CacheGrows /\ RootProblem(g) \in DOMAIN cache'
  BY DEF Solve, CacheGrows
<1>2. RootProblem(g)' = RootProblem(g)
  BY DEF RootProblem
<1>3. ASSUME NEW k \in DOMAIN cache' PROVE IsSubproblem(k) /\ Justified(problem.ctx, cache', k)
  <2>1. CASE k \in DOMAIN cache
    <3>1. IsSubproblem(k) /\ Justified(problem.ctx, cache, k)
      BY <2>1 DEF CachedIInv, CacheJustified
    <3> QED BY <1>1, <2>1, <3>1, JustifiedStays DEF CacheGrows
  <2>2. CASE k \notin DOMAIN cache
    BY <2>2 DEF Solve
  <2> QED BY <2>1, <2>2
<1>4. CacheJustified'
  BY <1>3 DEF CacheJustified
<1> QED BY <1>1, <1>2, <1>4

LEMMA MappedStays ==
  ASSUME NEW s, IsMapped(s), problem' = problem, CacheGrows
  PROVE  IsMapped(s)'
<1>1. RootProblem(s.pcg)' = RootProblem(s.pcg)
  BY DEF RootProblem
<1> QED BY <1>1 DEF IsMapped, CacheGrows, RuntimeCost

\* A state that is made of a graph and the cost the cache now holds for it.
LEMMA NewIsMapped ==
  ASSUME NEW g \in PCGs, Pcg[g].sp # NoSP, problem' = problem, Solve(g), NEW cost, CostsNow(g, cost)
  PROVE  IsMapped(State(g, cost))'
<1>1. RootProblem(g)' = RootProblem(g) /\ RootProblem(g) \in DOMAIN cache'
  BY DEF RootProblem, Solve
<1>2. State(g, cost).pcg = g /\ State(g, cost).runtime = cost
  BY DEF State
<1>3. cost = RuntimeCost(cache'[RootProblem(g)])
  BY DEF CostsNow
<1>4. RuntimeCost(cache[RootProblem(g)])' = RuntimeCost(cache'[RootProblem(g)])
  BY <1>1 DEF RuntimeCost
<1> QED BY <1>1, <1>2, <1>3, <1>4 DEF IsMapped

LEMMA MapFirstIInv ==
  ASSUME CachedIInv, MapFirst
  PROVE  CachedIInv'
<1>1. PICK cost \in Costs : CostsNow(problem.pcg, cost) /\ Begin(cost)
  BY DEF MapFirst
<1>2. /\ Solve(problem.pcg) /\ Pcg[problem.pcg].sp # NoSP /\ problem' = problem /\ pc' = "loop"
      /\ best' = State(problem.pcg, cost) /\ candidates' = {best'}
  BY <1>1 DEF MapFirst, Starting, Begin
<1>3. IInv'
  BY <1>1, BeginIInv DEF CachedIInv
<1>4. problem.pcg \in PCGs
  BY ProblemsAssumption DEF CachedIInv, IInv, TypeOK
<1>5. CacheJustified'
  BY <1>2, SolveGrows
<1>6. IsMapped(State(problem.pcg, cost))'
  BY <1>1, <1>2, <1>4, NewIsMapped
<1>7. IsMapped(best)'
  BY <1>2, <1>6 DEF IsMapped, State
<1>8. StatesAreMapped'
  BY <1>2, <1>7 DEF StatesAreMapped
<1> QED BY <1>2, <1>3, <1>5, <1>8 DEF CachedIInv, AnswerIsSaved

LEMMA MapNextIInv ==
  ASSUME CachedIInv, MapNext
  PROVE  CachedIInv'
<1>1. PICK cost \in Costs : CostsNow(Head(todo), cost) /\ Evaluate(cost)
  BY DEF MapNext
<1> DEFINE g == Head(todo)
           new == State(g, cost)
<1>2. /\ Solve(g) /\ pc = "expanding" /\ todo # <<>> /\ Pcg[g].sp # NoSP
      /\ problem' = problem /\ pc' = pc /\ best' = best
      /\ candidates' = candidates \/ candidates' = candidates \cup {new}
  BY <1>1 DEF MapNext, Evaluating, Evaluate
<1>3. IInv'
  BY <1>1, EvaluateIInv DEF CachedIInv
<1>4. g \in PCGs
  BY <1>2 DEF CachedIInv, IInv, TypeOK
<1>5. CacheGrows /\ CacheJustified'
  BY <1>2, SolveGrows
<1>6. PICK made : made = new /\ IsMapped(made)'
  <2>1. PICK h \in PCGs : h = g
    BY <1>4
  <2>2. IsMapped(State(h, cost))'
    BY <1>1, <1>2, <2>1, NewIsMapped
  <2> QED BY <2>1, <2>2
<1>7. IsMapped(best)' /\ \A s \in candidates : IsMapped(s)'
  <2>1. IsMapped(best) /\ \A s \in candidates : IsMapped(s)
    BY <1>2 DEF CachedIInv, StatesAreMapped
  <2> QED BY <1>2, <1>5, <2>1, MappedStays
<1> HIDE DEF new
<1>8. StatesAreMapped'
  BY <1>2, <1>6, <1>7 DEF StatesAreMapped
<1> QED BY <1>2, <1>3, <1>5, <1>8 DEF CachedIInv, AnswerIsSaved

LEMMA MapBestIInv ==
  ASSUME CachedIInv, MapBest
  PROVE  CachedIInv'
<1>1. PICK cost \in Costs : CostsNow(best.pcg, cost) /\ ReturnResult(cost)
  BY DEF MapBest
<1>2. /\ Solve(best.pcg) /\ pc = "loop" /\ problem' = problem /\ best' = best /\ candidates' = candidates
      /\ answer' = cache'[RootProblem(best.pcg)]
      /\ pc' = IF cost = Infinity THEN "aborted" ELSE "returned"
  BY <1>1 DEF MapBest, Returning, ReturnResult
<1>3. IInv'
  BY <1>1, OtherIInv DEF CachedIInv
<1>4. CacheGrows /\ CacheJustified'
  BY <1>2, SolveGrows
<1>5. IsMapped(best)' /\ \A s \in candidates : IsMapped(s)'
  <2>1. IsMapped(best) /\ \A s \in candidates : IsMapped(s)
    BY <1>2 DEF CachedIInv, StatesAreMapped
  <2> QED BY <1>2, <1>4, <2>1, MappedStays
<1>6. StatesAreMapped'
  BY <1>2, <1>5 DEF StatesAreMapped
<1>7. AnswerIsSaved'
  <2>1. RootProblem(best.pcg)' = RootProblem(best.pcg)
    BY <1>2 DEF RootProblem
  <2>2. pc' = "returned" => answer' # Infeasible
    BY <1>1, <1>2 DEF CostsNow, RuntimeCost, IsInfeasible
  <2> QED BY <1>2, <2>1, <2>2 DEF AnswerIsSaved
<1> QED BY <1>3, <1>4, <1>6, <1>7 DEF CachedIInv

LEMMA OtherCachedIInv ==
  ASSUME CachedIInv, UNCHANGED <<cache, answer>>,
         Pop \/ EndIteration \/ BeginUndecomposable \/ EvaluateUndecomposable \/ UNCHANGED searchVars
  PROVE  CachedIInv'
<1>1. /\ problem' = problem /\ cache' = cache /\ answer' = answer
      /\ \/ best' = best /\ candidates' \subseteq candidates
         \/ best' \in candidates /\ candidates' \subseteq candidates
      /\ \/ pc' = "aborted"
         \/ pc \in {"loop", "expanding"} /\ pc' \in {"loop", "expanding"}
         \/ pc' = pc /\ best' = best
  BY DEF Pop, Expand, EndIteration, BeginUndecomposable, EvaluateUndecomposable, Abort, searchVars
<1>2. IInv'
  BY PopIInv, OtherIInv DEF CachedIInv
<1>3. CacheGrows /\ CacheJustified'
  BY <1>1 DEF CacheGrows, CacheJustified, CachedIInv
<1>4. \A s : IsMapped(s)' <=> IsMapped(s)
  BY <1>1 DEF IsMapped, RootProblem, RuntimeCost
<1>5. StatesAreMapped'
  <2> SUFFICES ASSUME pc' \in {"loop", "expanding", "returned"}
               PROVE  IsMapped(best)' /\ \A s \in candidates' : IsMapped(s)'
    BY DEF StatesAreMapped
  <2>1. IsMapped(best) /\ \A s \in candidates : IsMapped(s)
    BY <1>1 DEF CachedIInv, StatesAreMapped
  <2>2. IsMapped(best') /\ \A s \in candidates' : IsMapped(s)
    BY <1>1, <2>1
  <2>3. IsMapped(best)' /\ \A s \in candidates' : IsMapped(s)'
    BY <1>1, <2>2 DEF IsMapped, RootProblem, RuntimeCost
  <2> QED BY <2>3
<1>6. AnswerIsSaved'
  BY <1>1 DEF CachedIInv, AnswerIsSaved, RootProblem
<1> QED BY <1>2, <1>3, <1>5, <1>6 DEF CachedIInv

\* The invariant holds in every reachable state: the cache stays justified, every state
\* in the queue has the runtime that the cache holds for its graph, and so has the best.
THEOREM CachedInductive == CachedSpec => []CachedIInv
<1>1. CachedIInv /\ [CachedNext]_vars => CachedIInv'
  <2> SUFFICES ASSUME CachedIInv, [CachedNext]_vars PROVE CachedIInv'
    OBVIOUS
  <2>1. CASE MapFirst
    BY <2>1, MapFirstIInv
  <2>2. CASE MapNext
    BY <2>2, MapNextIInv
  <2>3. CASE MapBest
    BY <2>3, MapBestIInv
  <2>4. CASE (Pop \/ EndIteration \/ BeginUndecomposable \/ EvaluateUndecomposable) /\ UNCHANGED <<cache, answer>>
    BY <2>4, OtherCachedIInv
  <2>5. CASE UNCHANGED vars
    BY <2>5, OtherCachedIInv DEF vars
  <2> QED BY <2>1, <2>2, <2>3, <2>4, <2>5 DEF CachedNext
<1> QED BY InitCachedIInv, <1>1, PTL DEF CachedSpec

\* The search with a cache is a search: what is proved above for any costs holds for
\* the costs that the mapping of graphs really has.
THEOREM CachedSearchSearches == CachedSpec => SearchSpec
<1>1. CachedInit => SearchInit
  BY DEF CachedInit
<1>2. [CachedNext]_vars => [SearchNext]_searchVars
  <2> SUFFICES ASSUME [CachedNext]_vars PROVE [SearchNext]_searchVars
    OBVIOUS
  <2>1. CASE MapFirst
    BY <2>1 DEF MapFirst, SearchNext
  <2>2. CASE MapNext
    BY <2>2 DEF MapNext, SearchNext
  <2>3. CASE MapBest
    BY <2>3 DEF MapBest, SearchNext
  <2>4. CASE Pop \/ EndIteration \/ BeginUndecomposable \/ EvaluateUndecomposable
    BY <2>4 DEF SearchNext
  <2>5. CASE UNCHANGED vars
    BY <2>5 DEF vars
  <2> QED BY <2>1, <2>2, <2>3, <2>4, <2>5 DEF CachedNext
<1> QED BY <1>1, <1>2, PTL DEF CachedSpec, SearchSpec

LEMMA CacheIsSolved ==
  ASSUME CachedIInv, NEW k \in DOMAIN cache
  PROVE  IsSubproblem(k) /\ Solves(problem.ctx, k, cache[k])
<1>1. problem.ctx \in Contexts
  BY MappingAssumption DEF CachedIInv, IInv, TypeOK
<1>2. \A j \in DOMAIN cache : IsSubproblem(j) /\ Justified(problem.ctx, cache, j)
  BY DEF CachedIInv, CacheJustified
<1> QED BY <1>1, <1>2, CacheSolves

\* Whatever was mapped before, a result in the cache is as fast as any plan for its
\* subproblem that keeps the views fixed there, although the views at a series split
\* are chosen before the slice is divided.
THEOREM CachedOptimal == CachedSpec => []CachedResultsAreOptimal
<1>1. CachedIInv => CachedResultsAreOptimal
  <2> SUFFICES ASSUME CachedIInv PROVE CachedResultsAreOptimal
    OBVIOUS
  <2>1. ASSUME NEW k \in DOMAIN cache
        PROVE  /\ IsInfeasible(cache[k])
                  \/ \A p \in Fixed(k) \cap Exposed[k.tree] : cache[k].mapping[p] = k.constraints[p]
               /\ FixedAround[k.tree] = {} /\ Fixed(k) \subseteq Exposed[k.tree] =>
                    \A plan \in Plans(problem.ctx, k.tree, k.resources) :
                      Keeps(k, plan.mapping) => ~IsInfeasible(cache[k]) /\ cache[k].runtime <= plan.runtime
    <3>1. Solves(problem.ctx, k, cache[k])
      BY <2>1, CacheIsSolved
    <3>2. IsInfeasible(cache[k])
          \/ \A p \in Fixed(k) \cap Exposed[k.tree] : cache[k].mapping[p] = k.constraints[p]
      BY <3>1 DEF Solves, Realises, KeepsExposed, IsInfeasible
    <3>3. ASSUME FixedAround[k.tree] = {}, Fixed(k) \subseteq Exposed[k.tree],
                 NEW plan \in Plans(problem.ctx, k.tree, k.resources), Keeps(k, plan.mapping)
          PROVE  ~IsInfeasible(cache[k]) /\ cache[k].runtime <= plan.runtime
      BY <3>1, <3>3 DEF Solves, Beats, Regular, IsInfeasible
    <3> QED BY <3>2, <3>3
  <2> QED BY <2>1 DEF CachedResultsAreOptimal, Fixed, Keeps
<1> QED BY <1>1, CachedInductive, PTL

\* The mapping returned places every layer and takes no longer than the runtime that
\* decided the search, whatever the tree; only layers inside a parallel split whose
\* views a series split around it has fixed may leave the machine or share a device.
THEOREM ClaimRealised == CachedSpec => []ClaimIsRealised
<1>1. CachedIInv => ClaimIsRealised
  <2> DEFINE k == RootProblem(best.pcg)
             t == TreeOf[best.pcg]
             S == LeafPaths(t) \ FixedAround[t]
  <2> SUFFICES ASSUME CachedIInv, pc = "returned"
               PROVE  /\ answer.runtime = best.runtime
                      /\ DOMAIN answer.mapping = LeafPaths(t)
                      /\ \A p \in S : answer.mapping[p] \in AllowedViews(KindAt(t, p), problem.machine)
                      /\ RuntimeUnder(problem.ctx, t, answer.mapping, S) <= answer.runtime
    BY DEF ClaimIsRealised
  <2>1. IsMapped(best) /\ answer = cache[k] /\ answer # Infeasible
    BY DEF CachedIInv, StatesAreMapped, AnswerIsSaved
  <2>2. k \in DOMAIN cache /\ best.runtime = answer.runtime
    BY <2>1 DEF IsMapped, RuntimeCost, IsInfeasible
  <2>3. k.tree = t /\ k.resources = problem.machine /\ k.constraints = Unconstrained(t)
    BY DEF RootProblem
  <2>4. IsSubproblem(k) /\ Solves(problem.ctx, k, cache[k])
    BY <2>2, CacheIsSolved
  <2> HIDE DEF k, t
  <2>5. \A p : p \notin Fixed(k)
    BY <2>3 DEF Fixed, Unconstrained
  <2>6. Placed(k) = S
    BY <2>3, <2>5 DEF Placed, Astray
  <2>7. answer \in Results(t) /\ Realises(problem.ctx, k, answer)
    BY <2>1, <2>3, <2>4 DEF Solves
  <2> HIDE DEF S
  <2>8. PlacedWithin(t, answer.mapping, S, problem.machine)
        /\ RuntimeUnder(problem.ctx, t, answer.mapping, S) <= answer.runtime
    BY <2>3, <2>6, <2>7 DEF Realises
  <2>9. t \in Trees
    BY <2>3, <2>4, SubproblemFacts
  <2>10. DOMAIN answer.mapping = LeafPaths(t)
    BY <2>7, <2>9, ResultFacts, PlacementFacts
  <2> QED BY <2>2, <2>8, <2>10 DEF PlacedWithin
<1> QED BY <1>1, CachedInductive, PTL
=============================================================================
