------------------------ MODULE GraphAlgorithms_proofs ------------------------
(***************************************************************************)
(* For every set of graphs: is_acyclic answers correctly, the vector       *)
(* get_topological_ordering returns lists every node once, behind all its  *)
(* predecessors, and get_series_parallel_decomposition returns a tree that *)
(* is the graph, or nullopt for a graph that has none.                     *)
(*                                                                         *)
(* Two inductive invariants carry the first part.  CheckInv is about the   *)
(* colouring search: the calls that are running form a path, and a node is *)
(* fully explored only after all its successors.  The order in which nodes *)
(* become so therefore ranks them, and an acyclic verdict gives every      *)
(* nonempty set of nodes a member without a predecessor in it (HasSource). *)
(* OrderInv is about the walk: a node whose predecessors have all been     *)
(* listed, but which has not been listed itself, is on the stack or about  *)
(* to be pushed.  So an empty stack leaves a set of unlisted nodes each of *)
(* which has an unlisted predecessor, and HasSource says it is empty.      *)
(*                                                                         *)
(* The second part shows that the multigraph is a picture of the order     *)
(* (Net): its edges divide the layers among them, one edge's layers all    *)
(* precede another's or none does, and they do exactly when a path of the  *)
(* multigraph leads from the one to the other.  The inverse line graph is  *)
(* such a picture, both reductions keep it one, in whatever order those    *)
(* found at once are applied, and a picture with several edges to which no *)
(* reduction applies holds an N, the order no tree has.                    *)
(***************************************************************************)
EXTENDS SPDecomposition, TLAPS, WellFoundedInduction, SequenceTheorems, FiniteSetTheorems

Frame == [node : graph.nodes, left : SUBSET graph.nodes]
Injective(s) == \A i, j \in 1..Len(s) : s[i] = s[j] => i = j

GraphOK == graph \in Graphs

CallsArePath ==
    /\ \A i \in 1..(Len(calls) - 1) : calls[i + 1].node \in Succ(calls[i].node)
    /\ \A i \in 1..Len(calls) : calls[i].left \subseteq Succ(calls[i].node)
    /\ \A i, j \in 1..Len(calls) : calls[i].node = calls[j].node => i = j

\* A successor of a node under exploration is still to be looked at, or done,
\* or the call it made.
SuccessorsAccounted ==
    \A i \in 1..Len(calls) : \A m \in Succ(calls[i].node) :
        \/ m \in calls[i].left
        \/ m \in FullyExplored
        \/ i < Len(calls) /\ m = calls[i + 1].node

SuccessorsFirst ==
    \A i \in 1..Len(explored) : \A m \in Succ(explored[i]) :
        \E j \in 1..(i - 1) : explored[j] = m

CheckInv ==
    /\ CallsArePath
    /\ SuccessorsAccounted
    /\ SuccessorsFirst
    /\ Injective(explored)
    /\ BeingExplored \cap FullyExplored = {}
    /\ \A n \in graph.nodes : n \in roots \/ n \in BeingExplored \/ n \in FullyExplored
    /\ pc = "cyclic" => Cyclic
    /\ pc \in {"ordering", "ordered"} => FullyExplored = graph.nodes

Listed == Elements(order)

OrderInv ==
    /\ Injective(order)
    /\ Injective(stack)
    /\ Elements(stack) \cap Listed = {}
    /\ pending \cap Listed = {}
    /\ \A i \in 1..Len(order) : \A p \in Pred(order[i]) : \E j \in 1..(i - 1) : order[j] = p
    /\ pc \in {"ordering", "ordered"} =>
          \A n \in graph.nodes \ Listed :
              Pred(n) \subseteq Listed => n \in Elements(stack) \cup pending
    /\ pc = "ordered" => stack = <<>> /\ pending = {}
    /\ pc = "checking" => order = <<>> /\ stack = <<>> /\ pending = {}

IInv == GraphOK /\ TypeOK /\ CheckInv /\ OrderInv

-----------------------------------------------------------------------------
\* What the sequence operators of the model do.
LEMMA ElementsAppend ==
    ASSUME NEW S, NEW s \in Seq(S), NEW x \in S
    PROVE  /\ Append(s, x) \in Seq(S)
           /\ Elements(Append(s, x)) = Elements(s) \cup {x}
           /\ Injective(s) /\ x \notin Elements(s) => Injective(Append(s, x))
  <1>1. /\ Append(s, x) \in Seq(S)
        /\ Len(Append(s, x)) = Len(s) + 1
        /\ Append(s, x)[Len(s) + 1] = x
        /\ \A i \in 1..Len(s) : Append(s, x)[i] = s[i]
    OBVIOUS
  <1>2. 1..(Len(s) + 1) = 1..Len(s) \cup {Len(s) + 1}
    OBVIOUS
  <1>3. Elements(Append(s, x)) = Elements(s) \cup {x}
    BY <1>1, <1>2 DEF Elements
  <1>4. Injective(s) /\ x \notin Elements(s) => Injective(Append(s, x))
    BY <1>1, <1>2 DEF Elements, Injective
  <1> QED BY <1>1, <1>3, <1>4

\* Pop takes away the last element, and only it.
LEMMA ElementsPop ==
    ASSUME NEW S, NEW s \in Seq(S), s # <<>>
    PROVE  /\ Pop(s) \in Seq(S)
           /\ Len(Pop(s)) = Len(s) - 1
           /\ Len(s) \in Nat \ {0}
           /\ \A i \in 1..(Len(s) - 1) : Pop(s)[i] = s[i]
           /\ s[Len(s)] \in S
           /\ Elements(s) = Elements(Pop(s)) \cup {s[Len(s)]}
           /\ Injective(s) => Injective(Pop(s)) /\ s[Len(s)] \notin Elements(Pop(s))
  <1>1. Len(s) \in Nat \ {0}
    OBVIOUS
  <1>2. /\ Pop(s) \in Seq(S)
        /\ Len(Pop(s)) = Len(s) - 1
        /\ \A i \in 1..(Len(s) - 1) : Pop(s)[i] = s[i]
        /\ s[Len(s)] \in S
    <2> DEFINE k == Len(s) - 1
    <2>1. k \in Int /\ 1 \in Int /\ k \in Nat /\ k + 1 = Len(s)
      BY <1>1
    <2>2. \A i \in 1..k : s[i] \in S
      BY <1>1
    <2>3. s[Len(s)] \in S
      BY <1>1
    <2> HIDE DEF k
    <2>4. /\ SubSeq(s, 1, k) \in Seq(S)
          /\ Len(SubSeq(s, 1, k)) = IF 1 <= k THEN k - 1 + 1 ELSE 0
          /\ \A i \in 1..(k - 1 + 1) : SubSeq(s, 1, k)[i] = s[1 + i - 1]
      BY <2>1, <2>2, SubSeqProperties
    <2>5. /\ SubSeq(s, 1, k) \in Seq(S)
          /\ Len(SubSeq(s, 1, k)) = k
          /\ \A i \in 1..k : SubSeq(s, 1, k)[i] = s[i]
      <3>1. k - 1 + 1 = k /\ (~(1 <= k) => k = 0) /\ \A i \in 1..k : 1 + i - 1 = i
        BY <2>1
      <3> QED BY <2>4, <3>1
    <2> QED BY <2>3, <2>5 DEF Pop, k
  <1>3. 1..Len(s) = 1..(Len(s) - 1) \cup {Len(s)}
    BY <1>1
  <1>4. Elements(s) = Elements(Pop(s)) \cup {s[Len(s)]}
    BY <1>2, <1>3 DEF Elements
  <1>5. Injective(s) => Injective(Pop(s)) /\ s[Len(s)] \notin Elements(Pop(s))
    BY <1>1, <1>2, <1>3 DEF Elements, Injective
  <1> QED BY <1>1, <1>2, <1>4, <1>5

\* Erase takes a value out of a sequence without repetitions.
LEMMA ElementsErase ==
    ASSUME NEW S, NEW s \in Seq(S), Injective(s), NEW n
    PROVE  /\ Erase(s, n) \in Seq(S)
           /\ Injective(Erase(s, n))
           /\ Elements(Erase(s, n)) = Elements(s) \ {n}
  <1>1. CASE \E i \in 1..Len(s) : s[i] = n
    <2> DEFINE i == CHOOSE k \in 1..Len(s) : s[k] = n
               e == EraseAt(s, i)
    <2>1. i \in 1..Len(s) /\ s[i] = n /\ Erase(s, n) = e
      BY <1>1 DEF Erase
    <2> HIDE DEF i
    <2>2. Len(s) \in Nat /\ i \in Nat
      BY <2>1
    <2>3. /\ e \in Seq(S)
          /\ Len(e) = Len(s) - 1
          /\ \A k \in 1..(Len(s) - 1) : e[k] = IF k < i THEN s[k] ELSE s[k + 1]
      BY <2>1, <2>2 DEF EraseAt
    <2> HIDE DEF e
    <2>4. Injective(e)
      BY <2>1, <2>2, <2>3 DEF Injective
    <2>5. ASSUME NEW k \in 1..Len(e) PROVE e[k] \in Elements(s) \ {n}
      <3>1. CASE k < i BY <3>1, <2>1, <2>2, <2>3 DEF Elements, Injective
      <3>2. CASE ~(k < i) BY <3>2, <2>1, <2>2, <2>3 DEF Elements, Injective
      <3> QED BY <3>1, <3>2
    <2>6. ASSUME NEW k \in 1..Len(s), s[k] # n PROVE s[k] \in Elements(e)
      <3>1. CASE k < i
        <4>1. k \in 1..Len(e) /\ e[k] = s[k] BY <3>1, <2>1, <2>2, <2>3
        <4> QED BY <4>1 DEF Elements
      <3>2. CASE k > i
        <4>1. k - 1 \in 1..Len(e) /\ e[k - 1] = s[k] BY <3>2, <2>1, <2>2, <2>3
        <4> QED BY <4>1 DEF Elements
      <3> QED BY <3>1, <3>2, <2>1, <2>2, <2>6
    <2>7. Elements(e) = Elements(s) \ {n}
      BY <2>5, <2>6 DEF Elements
    <2> QED BY <2>1, <2>3, <2>4, <2>7
  <1>2. CASE ~\E i \in 1..Len(s) : s[i] = n
    BY <1>2 DEF Erase, Elements
  <1> QED BY <1>1, <1>2

\* A nonempty set of naturals bounded from above has a greatest element.
LEMMA GreatestNat ==
    ASSUME NEW n \in Nat, NEW T \in SUBSET (1..n), T # {}
    PROVE  \E x \in T : \A y \in T : y <= x
  <1> DEFINE U == {n - x : x \in T}
  <1>1. U \subseteq Nat /\ U # {}
    <2>1. \A x \in T : n - x \in Nat
      OBVIOUS
    <2> QED BY <2>1
  <1>2. \E u \in U : \A v \in U : ~(<<v, u>> \in OpToRel(<, Nat))
    BY <1>1, NatLessThanWellFounded, WFMin
  <1>3. PICK u \in U : \A v \in U : ~(v < u)
    BY <1>1, <1>2 DEF OpToRel
  <1>4. PICK x \in T : u = n - x
    OBVIOUS
  <1>5. ASSUME NEW y \in T PROVE y <= x
    <2>1. ~(n - y < n - x)
      BY <1>3, <1>4
    <2> QED BY <2>1
  <1> QED BY <1>5

\* The innermost call loses m from its list, and nothing else changes.
LEMMA AdvanceFacts ==
    ASSUME calls \in Seq(Frame), calls # <<>>, NEW m
    PROVE  /\ AdvancePast(m) \in Seq(Frame)
           /\ Len(AdvancePast(m)) = Len(calls)
           /\ \A i \in 1..Len(calls) :
                 /\ AdvancePast(m)[i].node = calls[i].node
                 /\ AdvancePast(m)[i].left =
                       IF i = Len(calls) THEN calls[i].left \ {m} ELSE calls[i].left
  <1> DEFINE n == Len(calls)
  <1>1. n \in Nat \ {0} /\ n \in 1..n /\ \A i \in 1..n : calls[i] \in Frame
    OBVIOUS
  <1>2. [calls[n] EXCEPT !.left = @ \ {m}] \in Frame
    BY <1>1 DEF Frame
  <1>3. AdvancePast(m) = [calls EXCEPT ![n] = [calls[n] EXCEPT !.left = @ \ {m}]]
    BY DEF AdvancePast
  <1>4. /\ AdvancePast(m) \in Seq(Frame)
        /\ Len(AdvancePast(m)) = n
        /\ \A i \in 1..n : AdvancePast(m)[i] =
              IF i = n THEN [calls[n] EXCEPT !.left = @ \ {m}] ELSE calls[i]
    BY <1>1, <1>2, <1>3
  <1>5. /\ [calls[n] EXCEPT !.left = @ \ {m}].node = calls[n].node
        /\ [calls[n] EXCEPT !.left = @ \ {m}].left = calls[n].left \ {m}
    BY <1>1 DEF Frame
  <1> QED BY <1>1, <1>4, <1>5

\* A call of a node of the graph has a frame of its own type.
LEMMA CallIsFrame ==
    ASSUME GraphOK, NEW n \in graph.nodes
    PROVE  /\ Call(n) \in Frame
           /\ Call(n).node = n
           /\ Call(n).left = Succ(n)
           /\ Succ(n) \subseteq graph.nodes
           /\ Pred(n) \subseteq graph.nodes
  BY DEF Call, Frame, Succ, Pred

\* The completion order is a ranking: unless the graph has a cycle, some member
\* of every nonempty set of nodes has no predecessor in the set, and some member
\* no successor.
LEMMA HasSource ==
    ASSUME explored \in Seq(graph.nodes), SuccessorsFirst, Injective(explored),
           FullyExplored = graph.nodes,
           NEW U \in SUBSET graph.nodes, U # {}
    PROVE  /\ \E n \in U : \A p \in U : n \notin Succ(p)
           /\ \E n \in U : \A p \in U : p \notin Succ(n)
  <1> DEFINE T == {i \in 1..Len(explored) : explored[i] \in U}
  <1>1. Len(explored) \in Nat
    OBVIOUS
  <1>2. \A n \in U : \E i \in T : explored[i] = n
    BY DEF FullyExplored, Elements
  <1>3. T # {}
    BY <1>2
  <1>4. PICK i \in T : \A k \in T : k <= i
    BY <1>1, <1>3, GreatestNat
  <1>5. ASSUME NEW p \in U, explored[i] \in Succ(p) PROVE FALSE
    <2>1. PICK k \in T : explored[k] = p
      BY <1>2
    <2>2. PICK j \in 1..(k - 1) : explored[j] = explored[i]
      BY <2>1, <1>5 DEF SuccessorsFirst
    <2>3. j = i
      BY <2>2, <1>1 DEF Injective
    <2> QED BY <1>1, <1>4, <2>2, <2>3
  <1>6. \E l \in T : \A k \in T : l <= k
    <2> DEFINE D == {Len(explored) + 1 - k : k \in T}
    <2>1. \A k \in T : Len(explored) + 1 - k \in 1..Len(explored)
      BY <1>1
    <2>2. D \in SUBSET (1..Len(explored)) /\ D # {}
      BY <1>3, <2>1
    <2>3. PICK d \in D : \A c \in D : c <= d
      BY <1>1, <2>2, GreatestNat
    <2>4. PICK l \in T : d = Len(explored) + 1 - l
      OBVIOUS
    <2>5. ASSUME NEW k \in T PROVE l <= k
      <3>1. Len(explored) + 1 - k <= Len(explored) + 1 - l
        BY <2>3, <2>4
      <3> QED BY <3>1, <1>1
    <2> QED BY <2>5
  <1>7. PICK l \in T : \A k \in T : l <= k
    BY <1>6
  <1>8. ASSUME NEW p \in U, p \in Succ(explored[l]) PROVE FALSE
    <2>1. PICK j \in 1..(l - 1) : explored[j] = p
      BY <1>8 DEF SuccessorsFirst
    <2>2. j \in T
      BY <2>1, <1>1
    <2> QED BY <1>1, <1>7, <2>1, <2>2
  <1> QED BY <1>5, <1>8

\* Nodes that became fully explored in this way do not lie on a cycle.
LEMMA ExploredIsAcyclic ==
    ASSUME explored \in Seq(graph.nodes), SuccessorsFirst, Injective(explored),
           FullyExplored = graph.nodes
    PROVE  ~Cyclic
  <1> SUFFICES ASSUME NEW S \in SUBSET graph.nodes, S # {}, EachHasSuccessorIn(S)
               PROVE  FALSE
    BY DEF Cyclic
  <1>1. PICK n \in S : \A p \in S : p \notin Succ(n)
    BY HasSource
  <1> QED BY <1>1 DEF EachHasSuccessorIn, Succ
-----------------------------------------------------------------------------
\* The types are inductive once the graph is one of the given ones.
LEMMA TypeStep ==
    ASSUME GraphOK, TypeOK, Injective(stack), [Next]_vars
    PROVE  GraphOK' /\ TypeOK'
  <1>0. calls \in Seq(Frame) BY DEF TypeOK, Frame
  <1> USE DEF GraphOK
  <1>1. ASSUME NEW n \in graph.nodes, VisitRoot(n) PROVE GraphOK' /\ TypeOK'
    <2>1. <<Call(n)>> \in Seq(Frame) BY CallIsFrame
    <2> QED BY <1>0, <1>1, <2>1 DEF TypeOK, VisitRoot, Frame, orderVars
  <1>2. ASSUME NEW n \in graph.nodes, ExploreSuccessor(n) PROVE GraphOK' /\ TypeOK'
    <2>1. calls' \in Seq(Frame)
      BY <1>0, <1>2, AdvanceFacts, CallIsFrame, ElementsAppend DEF ExploreSuccessor
    <2> QED BY <1>2, <2>1 DEF TypeOK, ExploreSuccessor, Frame, orderVars
  <1>3. ASSUME NEW n \in graph.nodes, FindCycle(n) PROVE GraphOK' /\ TypeOK'
    BY <1>3 DEF TypeOK, FindCycle, checkVars, orderVars
  <1>4. CASE FinishNode
    <2>1. Pop(calls) \in Seq(Frame) /\ Top \in Frame
      BY <1>0, <1>4, ElementsPop DEF FinishNode, Top
    <2>2. Append(explored, Top.node) \in Seq(graph.nodes)
      BY <2>1 DEF TypeOK, Frame
    <2> QED BY <1>4, <2>1, <2>2 DEF TypeOK, FinishNode, Frame, orderVars
  <1>5. CASE StartOrdering
    BY <1>5 DEF TypeOK, StartOrdering, checkVars, InitialNodes
  <1>6. ASSUME NEW n \in graph.nodes, PushSuccessor(n) PROVE GraphOK' /\ TypeOK'
    <2>1. Erase(stack, n) \in Seq(graph.nodes)
      BY ElementsErase DEF TypeOK
    <2>2. stack' \in Seq(graph.nodes)
      BY <1>6, <2>1 DEF PushSuccessor
    <2> QED BY <1>6, <2>2 DEF TypeOK, PushSuccessor, checkVars
  <1>7. CASE VisitNode
    <2>1. Pop(stack) \in Seq(graph.nodes) /\ Current \in graph.nodes
      BY <1>7, ElementsPop DEF TypeOK, VisitNode, Current
    <2>2. Append(order, Current) \in Seq(graph.nodes) /\ Succ(Current) \subseteq graph.nodes
      BY <2>1, CallIsFrame DEF TypeOK
    <2> QED BY <1>7, <2>1, <2>2 DEF TypeOK, VisitNode, checkVars
  <1>8. CASE SkipNode
    <2>1. Pop(stack) \in Seq(graph.nodes)
      BY <1>8, ElementsPop DEF TypeOK, SkipNode
    <2> QED BY <1>8, <2>1 DEF TypeOK, SkipNode, checkVars
  <1>9. CASE ReturnOrder
    BY <1>9 DEF TypeOK, ReturnOrder, checkVars, orderVars
  <1>10. CASE UNCHANGED vars
    BY <1>10 DEF TypeOK, vars
  <1> QED BY <1>1, <1>2, <1>3, <1>4, <1>5, <1>6, <1>7, <1>8, <1>9, <1>10
         DEF Next, Check, Order
-----------------------------------------------------------------------------
\* What the colouring search knows depends on its own variables only.
LEMMA CheckUnchanged ==
    ASSUME CheckInv, UNCHANGED <<graph, calls, explored>>
    PROVE  /\ CallsArePath' /\ SuccessorsAccounted' /\ SuccessorsFirst' /\ Injective(explored)'
           /\ BeingExplored' = BeingExplored /\ FullyExplored' = FullyExplored
           /\ Cyclic' = Cyclic
  <1>1. BeingExplored' = BeingExplored /\ FullyExplored' = FullyExplored
    BY DEF BeingExplored, FullyExplored, Elements
  <1>2. \A n : Succ(n)' = Succ(n)
    BY DEF Succ
  <1>3. CallsArePath'
    BY <1>2 DEF CheckInv, CallsArePath
  <1>4. SuccessorsAccounted'
    BY <1>1, <1>2 DEF CheckInv, SuccessorsAccounted
  <1>5. SuccessorsFirst' /\ Injective(explored)'
    <2>1. explored' = explored /\ Injective(explored) /\ SuccessorsFirst
      BY DEF CheckInv
    <2>2. Injective(explored)'
      BY <2>1 DEF Injective
    <2>3. SuccessorsFirst'
      BY <1>2, <2>1 DEF SuccessorsFirst
    <2> QED BY <2>2, <2>3
  <1>6. Cyclic' = Cyclic
    BY DEF Cyclic, EachHasSuccessorIn
  <1> QED BY <1>1, <1>3, <1>4, <1>5, <1>6

\* Each step of the colouring search keeps what is known of it.
LEMMA CheckStep ==
    ASSUME GraphOK, TypeOK, CheckInv, [Next]_vars
    PROVE  CheckInv'
  <1> DEFINE L == Len(calls)
  <1>0. calls \in Seq(Frame) /\ L \in Nat /\ \A i \in 1..L : calls[i] \in Frame
    <2>1. calls \in Seq(Frame)
      BY DEF TypeOK, Frame
    <2> QED BY <2>1
  <1>1. ASSUME NEW n \in graph.nodes, VisitRoot(n) PROVE CheckInv'
    <2>1. BeingExplored = {} /\ L = 0
      BY <1>1 DEF VisitRoot, BeingExplored
    <2>2. CASE NotExplored(n)
      <3>1. calls' = <<Call(n)>> /\ Len(calls') = 1 /\ calls'[1] = Call(n)
        BY <1>1, <2>2 DEF VisitRoot
      <3>2. BeingExplored' = {n}
        BY <3>1, CallIsFrame DEF BeingExplored
      <3>3. UNCHANGED <<graph, pc, explored>> /\ roots' = roots \ {n}
        BY <1>1 DEF VisitRoot
      <3>4. Succ(n)' = Succ(n) /\ FullyExplored' = FullyExplored
        BY <3>3 DEF Succ, FullyExplored, Elements
      <3>5. CallsArePath' /\ SuccessorsAccounted'
        BY <3>1, <3>4, CallIsFrame DEF CallsArePath, SuccessorsAccounted
      <3>6. SuccessorsFirst' /\ Injective(explored)'
        BY <3>3 DEF CheckInv, SuccessorsFirst, Injective, Succ
      <3>7. n \notin FullyExplored
        BY <2>2 DEF NotExplored
      <3>8. pc = "checking"
        BY <1>1 DEF VisitRoot
      <3> QED BY <2>1, <3>2, <3>3, <3>4, <3>5, <3>6, <3>7, <3>8 DEF CheckInv
    <2>3. CASE ~NotExplored(n)
      <3>1. UNCHANGED <<graph, pc, explored, calls>> /\ roots' = roots \ {n}
        BY <1>1, <2>3 DEF VisitRoot
      <3>2. n \in FullyExplored
        BY <2>1, <2>3 DEF NotExplored
      <3> QED BY <3>1, <3>2, CheckUnchanged DEF CheckInv
    <2> QED BY <2>2, <2>3
  <1>2. ASSUME NEW m \in graph.nodes, ExploreSuccessor(m) PROVE CheckInv'
    <2> DEFINE A == AdvancePast(m)
    <2>1. /\ calls # <<>> /\ m \in calls[L].left /\ m \notin BeingExplored
          /\ UNCHANGED <<graph, pc, roots, explored>> /\ pc = "checking"
      BY <1>2 DEF ExploreSuccessor, Top
    <2>2. /\ A \in Seq(Frame) /\ Len(A) = L
          /\ \A i \in 1..L : /\ A[i].node = calls[i].node
                             /\ A[i].left = IF i = L THEN calls[i].left \ {m} ELSE calls[i].left
      BY <1>0, <2>1, AdvanceFacts
    <2>3. L \in 1..L
      BY <1>0, <2>1
    <2>4. FullyExplored' = FullyExplored /\ \A n : Succ(n)' = Succ(n)
      BY <2>1 DEF FullyExplored, Elements, Succ
    <2>5. SuccessorsFirst' /\ Injective(explored)'
      BY <2>1 DEF CheckInv, SuccessorsFirst, Injective, Succ
    <2> HIDE DEF A
    <2>6. CASE NotExplored(m)
      <3>1. calls' = Append(A, Call(m))
        BY <1>2, <2>6 DEF ExploreSuccessor, A
      <3>2. /\ Len(calls') = L + 1
            /\ calls'[L + 1] = Call(m)
            /\ \A i \in 1..L : calls'[i] = A[i]
        BY <2>2, <3>1, CallIsFrame
      <3>3. 1..(L + 1) = 1..L \cup {L + 1} /\ (L + 1) - 1 = L
        BY <1>0
      <3>9. /\ calls'[L + 1].node = m /\ calls'[L + 1].left = Succ(m)
            /\ \A i \in 1..L : calls'[i].node = calls[i].node
        BY <2>2, <3>2, CallIsFrame
      <3>4. BeingExplored' = BeingExplored \cup {m}
        <4>1. BeingExplored' = {calls'[i].node : i \in 1..(L + 1)}
          BY <3>2 DEF BeingExplored
        <4>2. {calls'[i].node : i \in 1..(L + 1)} = {calls'[i].node : i \in 1..L} \cup {m}
          BY <3>3, <3>9
        <4>3. {calls'[i].node : i \in 1..L} = BeingExplored
          BY <3>9 DEF BeingExplored
        <4> QED BY <4>1, <4>2, <4>3
      <3>5. CallsArePath'
        <4>1. \A i \in 1..L : calls'[i + 1].node \in Succ(calls'[i].node)
          <5> SUFFICES ASSUME NEW i \in 1..L PROVE calls'[i + 1].node \in Succ(calls[i].node)
            BY <3>9
          <5>1. CASE i = L
            <6>1. m \in Succ(calls[L].node)
              BY <2>1, <2>3 DEF CheckInv, CallsArePath
            <6> QED BY <3>9, <5>1, <6>1
          <5>2. CASE i # L
            <6>1. i \in 1..(L - 1) /\ i + 1 \in 1..L
              BY <1>0, <5>2
            <6> QED BY <3>9, <6>1 DEF CheckInv, CallsArePath
          <5> QED BY <5>1, <5>2
        <4>2. \A i \in 1..(L + 1) : calls'[i].left \subseteq Succ(calls'[i].node)
          <5>1. \A i \in 1..L : calls'[i].left \subseteq Succ(calls[i].node)
            BY <2>2, <3>2 DEF CheckInv, CallsArePath
          <5> QED BY <3>3, <3>9, <5>1
        <4>3. \A i \in 1..L : calls[i].node # m
          BY <2>1 DEF BeingExplored
        <4>4. \A i, j \in 1..(L + 1) : calls'[i].node = calls'[j].node => i = j
          <5>1. \A i, j \in 1..L : calls[i].node = calls[j].node => i = j
            BY DEF CheckInv, CallsArePath
          <5> QED BY <3>3, <3>9, <4>3, <5>1
        <4> QED BY <2>4, <3>2, <3>3, <4>1, <4>2, <4>4 DEF CallsArePath
      <3>6. SuccessorsAccounted'
        <4>1. ASSUME NEW i \in 1..L, NEW k \in Succ(calls[i].node)
              PROVE  \/ k \in calls'[i].left
                     \/ k \in FullyExplored
                     \/ i < L + 1 /\ k = calls'[i + 1].node
          <5>1. \/ k \in calls[i].left
                \/ k \in FullyExplored
                \/ i < L /\ k = calls[i + 1].node
            BY DEF CheckInv, SuccessorsAccounted
          <5>2. CASE i = L
            <6>1. calls'[L].left = calls[L].left \ {m} /\ calls'[i + 1].node = m /\ i < L + 1
              <7>1. calls'[L] = A[L] /\ A[L].left = calls[L].left \ {m}
                BY <2>2, <2>3, <3>2
              <7> QED BY <1>0, <3>9, <5>2, <7>1
            <6> QED BY <1>0, <5>1, <5>2, <6>1
          <5>3. CASE i # L
            <6>1. i < L /\ i < L + 1 /\ i + 1 \in 1..L
              BY <1>0, <5>3
            <6>2. calls'[i].left = calls[i].left /\ calls'[i + 1].node = calls[i + 1].node
              BY <2>2, <3>2, <3>9, <5>3, <6>1
            <6> QED BY <5>1, <6>1, <6>2
          <5> QED BY <5>2, <5>3
        <4>2. \A k \in Succ(m) : k \in calls'[L + 1].left
          BY <3>9
        <4>3. \A i \in 1..(L + 1) : \A k \in Succ(calls'[i].node) :
                \/ k \in calls'[i].left
                \/ k \in FullyExplored
                \/ i < L + 1 /\ k = calls'[i + 1].node
          BY <3>3, <3>9, <4>1, <4>2
        <4> QED BY <2>4, <3>2, <4>3 DEF SuccessorsAccounted
      <3>7. m \notin FullyExplored
        BY <2>6 DEF NotExplored
      <3> QED BY <2>1, <2>4, <2>5, <3>4, <3>5, <3>6, <3>7 DEF CheckInv
    <2>7. CASE ~NotExplored(m)
      <3>1. calls' = A /\ m \in FullyExplored
        BY <1>2, <2>1, <2>7 DEF ExploreSuccessor, NotExplored, A
      <3>2. BeingExplored' = BeingExplored
        BY <2>2, <3>1 DEF BeingExplored
      <3>3. CallsArePath'
        <4>1. /\ \A i \in 1..(L - 1) : A[i + 1].node \in Succ(A[i].node)
              /\ \A i \in 1..L : A[i].left \subseteq Succ(A[i].node)
              /\ \A i, j \in 1..L : A[i].node = A[j].node => i = j
          <5>1. \A i \in 1..(L - 1) : i \in 1..L /\ i + 1 \in 1..L
            BY <1>0
          <5> QED BY <2>2, <5>1 DEF CheckInv, CallsArePath
        <4> QED BY <2>2, <2>4, <3>1, <4>1 DEF CallsArePath
      <3>4. SuccessorsAccounted'
        <4>1. ASSUME NEW i \in 1..L, NEW k \in Succ(A[i].node)
              PROVE  k \in A[i].left \/ k \in FullyExplored \/ (i < L /\ k = A[i + 1].node)
          <5>1. k \in Succ(calls[i].node)
            BY <2>2
          <5>2. \/ k \in calls[i].left
                \/ k \in FullyExplored
                \/ i < L /\ k = calls[i + 1].node
            BY <5>1 DEF CheckInv, SuccessorsAccounted
          <5>3. CASE k \in calls[i].left
            BY <2>2, <3>1, <5>3
          <5>4. CASE i < L /\ k = calls[i + 1].node
            <6>1. i + 1 \in 1..L
              BY <1>0, <5>4
            <6> QED BY <2>2, <5>4, <6>1
          <5> QED BY <5>2, <5>3, <5>4
        <4> QED BY <2>2, <2>4, <3>1, <4>1 DEF SuccessorsAccounted
      <3> QED BY <2>1, <2>4, <2>5, <3>2, <3>3, <3>4 DEF CheckInv
    <2> QED BY <2>6, <2>7
  <1>3. ASSUME NEW m \in graph.nodes, FindCycle(m) PROVE CheckInv'
    <2>1. /\ calls # <<>> /\ m \in calls[L].left /\ m \in BeingExplored
          /\ UNCHANGED <<graph, checkVars>> /\ pc' = "cyclic"
      BY <1>3 DEF FindCycle, Top
    <2>2. PICK j \in 1..L : calls[j].node = m
      BY <2>1 DEF BeingExplored
    <2> DEFINE S == {calls[i].node : i \in j..L}
    <2>3. S \in SUBSET graph.nodes /\ m \in S
      BY <1>0, <2>2 DEF Frame
    <2>4. ASSUME NEW i \in j..L PROVE \E k \in S : <<calls[i].node, k>> \in graph.edges
      <3>1. CASE i = L
        <4>1. m \in Succ(calls[i].node)
          BY <1>0, <2>1, <2>2, <3>1 DEF CheckInv, CallsArePath
        <4> QED BY <2>3, <4>1 DEF Succ
      <3>2. CASE i # L
        <4>1. i \in 1..(L - 1) /\ i + 1 \in j..L
          BY <1>0, <2>2, <3>2
        <4>2. calls[i + 1].node \in Succ(calls[i].node)
          BY <4>1 DEF CheckInv, CallsArePath
        <4> QED BY <4>1, <4>2 DEF Succ
      <3> QED BY <3>1, <3>2
    <2>5. Cyclic
      BY <2>3, <2>4 DEF Cyclic, EachHasSuccessorIn
    <2>6. Cyclic'
      BY <2>1, <2>5 DEF Cyclic, EachHasSuccessorIn
    <2>7. UNCHANGED <<graph, calls, explored, roots>>
      BY <2>1 DEF checkVars
    <2> QED BY <2>1, <2>6, <2>7, CheckUnchanged DEF CheckInv
  <1>4. CASE FinishNode
    <2> DEFINE n == calls[L].node
    <2>1. /\ calls # <<>> /\ calls[L].left = {} /\ pc = "checking"
          /\ explored' = Append(explored, n) /\ calls' = Pop(calls)
          /\ UNCHANGED <<graph, pc, roots>>
      BY <1>4 DEF FinishNode, Top
    <2>2. L \in 1..L /\ n \in graph.nodes
      BY <1>0, <2>1 DEF Frame
    <2>3. Len(calls') = L - 1 /\ \A i \in 1..(L - 1) : calls'[i] = calls[i]
      BY <1>0, <2>1, ElementsPop
    <2>4. 1..L = 1..(L - 1) \cup {L}
      BY <1>0, <2>2
    <2>5. n \in BeingExplored /\ BeingExplored' = BeingExplored \ {n}
      BY <1>0, <2>2, <2>3, <2>4 DEF BeingExplored, CheckInv, CallsArePath
    <2>6. explored \in Seq(graph.nodes) /\ n \notin FullyExplored
      BY <2>5 DEF TypeOK, CheckInv
    <2>7. /\ FullyExplored' = FullyExplored \cup {n}
          /\ Injective(explored')
      BY <2>1, <2>2, <2>6, ElementsAppend DEF FullyExplored, CheckInv
    <2>8. /\ Len(explored') = Len(explored) + 1 /\ Len(explored) \in Nat
          /\ explored'[Len(explored) + 1] = n
          /\ \A i \in 1..Len(explored) : explored'[i] = explored[i]
      BY <2>1, <2>2, <2>6
    <2>9. \A k : Succ(k)' = Succ(k)
      BY <2>1 DEF Succ
    <2>10. Succ(n) \subseteq FullyExplored
      BY <2>1, <2>2 DEF CheckInv, SuccessorsAccounted
    <2>11. SuccessorsFirst'
      <3>1. ASSUME NEW i \in 1..Len(explored), NEW m \in Succ(explored[i])
            PROVE  \E j \in 1..(i - 1) : explored'[j] = m
        <4>1. PICK j \in 1..(i - 1) : explored[j] = m
          BY DEF CheckInv, SuccessorsFirst
        <4>2. j \in 1..Len(explored)
          BY <2>8
        <4> QED BY <2>8, <4>1, <4>2
      <3>2. ASSUME NEW m \in Succ(n) PROVE \E j \in 1..Len(explored) : explored'[j] = m
        BY <2>8, <2>10 DEF FullyExplored, Elements
      <3>3. 1..(Len(explored) + 1) = 1..Len(explored) \cup {Len(explored) + 1}
            /\ (Len(explored) + 1) - 1 = Len(explored)
        BY <2>8
      <3> QED BY <2>8, <2>9, <3>1, <3>2, <3>3 DEF SuccessorsFirst
    <2>12. CallsArePath'
      <3>1. CallsArePath
        BY DEF CheckInv
      <3>2. \A i \in 1..(L - 1) : i \in 1..L
        BY <1>0
      <3>3. ASSUME NEW i \in 1..((L - 1) - 1)
            PROVE  i \in 1..(L - 1) /\ i + 1 \in 1..(L - 1)
        BY <1>0
      <3>4. \A i \in 1..((L - 1) - 1) : calls'[i + 1].node \in Succ(calls'[i].node)
        BY <2>3, <3>1, <3>3 DEF CallsArePath
      <3>5. \A i \in 1..(L - 1) : calls'[i].left \subseteq Succ(calls'[i].node)
        BY <2>3, <3>1, <3>2 DEF CallsArePath
      <3>6. \A i, j \in 1..(L - 1) : calls'[i].node = calls'[j].node => i = j
        BY <2>3, <3>1, <3>2 DEF CallsArePath
      <3> HIDE DEF L, n
      <3> QED BY <2>3, <2>9, <3>4, <3>5, <3>6 DEF CallsArePath
    <2>13. SuccessorsAccounted'
      <3>1. ASSUME NEW i \in 1..(L - 1), NEW m \in Succ(calls[i].node)
            PROVE  \/ m \in calls'[i].left
                   \/ m \in FullyExplored'
                   \/ i < L - 1 /\ m = calls'[i + 1].node
        <4>1. \/ m \in calls[i].left
              \/ m \in FullyExplored
              \/ m = calls[i + 1].node
          BY <1>0 DEF CheckInv, SuccessorsAccounted
        <4>2. CASE i = L - 1
          BY <1>0, <2>3, <2>7, <4>1, <4>2
        <4>3. CASE i # L - 1
          <5>1. i < L - 1 /\ i + 1 \in 1..(L - 1)
            BY <1>0, <4>3
          <5> QED BY <2>3, <2>7, <4>1, <5>1
        <4> QED BY <4>2, <4>3
      <3> QED BY <2>3, <2>9, <3>1 DEF SuccessorsAccounted
    <2> HIDE DEF n
    <2> QED BY <2>1, <2>5, <2>6, <2>7, <2>11, <2>12, <2>13 DEF CheckInv, Injective
  <1>5. CASE StartOrdering
    <2>1. calls = <<>> /\ roots = {} /\ UNCHANGED <<graph, checkVars>> /\ pc' = "ordering"
      BY <1>5 DEF StartOrdering
    <2>2. BeingExplored = {}
      BY <2>1 DEF BeingExplored
    <2>3. FullyExplored = graph.nodes
      <3>1. \A i \in 1..Len(explored) : explored[i] \in graph.nodes
        BY DEF TypeOK
      <3>2. FullyExplored \subseteq graph.nodes
        BY <3>1 DEF FullyExplored, Elements
      <3>3. graph.nodes \subseteq FullyExplored
        BY <2>1, <2>2 DEF CheckInv
      <3> QED BY <3>2, <3>3
    <2>4. UNCHANGED <<graph, calls, explored, roots>>
      BY <2>1 DEF checkVars
    <2> QED BY <2>1, <2>3, <2>4, CheckUnchanged DEF CheckInv
  <1>6. CASE \/ \E n \in graph.nodes : PushSuccessor(n)
             \/ VisitNode \/ SkipNode \/ ReturnOrder \/ UNCHANGED vars
    <2>1. /\ UNCHANGED <<graph, roots, calls, explored>>
          /\ pc' = pc \/ (pc = "ordering" /\ pc' = "ordered")
      <3>1. CASE \E n \in graph.nodes : PushSuccessor(n)
        BY <3>1 DEF PushSuccessor, checkVars
      <3>2. CASE VisitNode BY <3>2 DEF VisitNode, checkVars
      <3>3. CASE SkipNode BY <3>3 DEF SkipNode, checkVars
      <3>4. CASE ReturnOrder BY <3>4 DEF ReturnOrder, checkVars
      <3>5. CASE UNCHANGED vars BY <3>5 DEF vars
      <3> QED BY <1>6, <3>1, <3>2, <3>3, <3>4, <3>5
    <2> QED BY <2>1, CheckUnchanged DEF CheckInv
  <1> QED BY <1>1, <1>2, <1>3, <1>4, <1>5, <1>6 DEF Next, Check, Order
-----------------------------------------------------------------------------
\* Each step of the walk keeps what is known of it.
LEMMA OrderStep ==
    ASSUME GraphOK, TypeOK, CheckInv, OrderInv, [Next]_vars
    PROVE  OrderInv'
  <1>1. CASE /\ UNCHANGED <<graph, stack, pending, order>>
             /\ pc' = pc \/ (pc = "checking" /\ pc' = "cyclic")
    <2>1. \A n : Pred(n)' = Pred(n)
      BY <1>1 DEF Pred
    <2>2. Elements(stack)' = Elements(stack) /\ Listed' = Listed
      BY <1>1 DEF Elements, Listed
    <2>3. Injective(order)' /\ Injective(stack)'
      BY <1>1 DEF OrderInv, Injective
    <2> QED BY <1>1, <2>1, <2>2, <2>3 DEF OrderInv
  <1>2. CASE StartOrdering
    <2>1. /\ order = <<>> /\ stack = <<>> /\ order' = <<>> /\ stack' = <<>>
          /\ pending' = InitialNodes /\ graph' = graph /\ pc' = "ordering"
      BY <1>2 DEF StartOrdering, OrderInv, checkVars
    <2>2. Listed' = {} /\ Elements(stack)' = {}
      BY <2>1 DEF Listed, Elements
    <2>3. \A n : Pred(n)' = Pred(n)
      BY <2>1 DEF Pred
    <2>4. \A n \in graph.nodes : Pred(n) \subseteq {} => n \in InitialNodes
      BY DEF InitialNodes
    <2> QED BY <2>1, <2>2, <2>3, <2>4 DEF OrderInv, Injective
  <1>3. ASSUME NEW n \in graph.nodes, PushSuccessor(n) PROVE OrderInv'
    <2>1. /\ pc = "ordering" /\ n \in pending
          /\ stack' = Append(Erase(stack, n), n) /\ pending' = pending \ {n}
          /\ UNCHANGED <<graph, pc, order>>
      BY <1>3 DEF PushSuccessor
    <2>2. /\ Erase(stack, n) \in Seq(graph.nodes)
          /\ Injective(Erase(stack, n))
          /\ Elements(Erase(stack, n)) = Elements(stack) \ {n}
      BY ElementsErase DEF TypeOK, OrderInv
    <2>3. Injective(stack)' /\ Elements(stack)' = Elements(stack) \cup {n}
      <3>1. n \notin Elements(Erase(stack, n))
        BY <2>2
      <3>2. /\ Elements(Append(Erase(stack, n), n)) = (Elements(stack) \ {n}) \cup {n}
            /\ Injective(Append(Erase(stack, n), n))
        BY <2>2, <3>1, ElementsAppend
      <3> QED BY <2>1, <3>2 DEF Injective, Elements
    <2>4. Listed' = Listed /\ Injective(order)' /\ \A m : Pred(m)' = Pred(m)
      BY <2>1 DEF Listed, Elements, Pred, OrderInv, Injective
    <2> QED BY <2>1, <2>3, <2>4 DEF OrderInv
  <1>4. CASE VisitNode
    <2> DEFINE n == stack[Len(stack)]
    <2>1. /\ pc = "ordering" /\ pending = {} /\ stack # <<>>
          /\ Pred(n) \subseteq Listed
          /\ order' = Append(order, n) /\ stack' = Pop(stack) /\ pending' = Succ(n)
          /\ UNCHANGED <<graph, pc>>
      BY <1>4 DEF VisitNode, Current, AllPredecessorsSeen, Listed
    <2>2. /\ Len(stack') = Len(stack) - 1 /\ n \in graph.nodes
          /\ Elements(stack) = Elements(Pop(stack)) \cup {n}
          /\ Injective(Pop(stack)) /\ n \notin Elements(Pop(stack))
      BY <2>1, ElementsPop DEF TypeOK, OrderInv
    <2> HIDE DEF n
    <2>3. Elements(stack)' = Elements(stack) \ {n} /\ Injective(stack)'
      <3>1. Elements(stack)' = Elements(Pop(stack))
        BY <2>1 DEF Elements
      <3>2. Injective(stack)'
        BY <2>1, <2>2 DEF Injective
      <3> QED BY <2>2, <3>1, <3>2
    <2>4. n \notin Listed
      BY <2>2 DEF OrderInv
    <2>5. order \in Seq(graph.nodes)
      BY DEF TypeOK
    <2>6. Listed' = Listed \cup {n} /\ Injective(order)'
      <3>1. /\ Elements(Append(order, n)) = Elements(order) \cup {n}
            /\ Injective(Append(order, n))
        BY <2>2, <2>4, <2>5, ElementsAppend DEF OrderInv, Listed
      <3> QED BY <2>1, <3>1 DEF Listed, Elements, Injective
    <2>7. /\ Len(order') = Len(order) + 1 /\ Len(order) \in Nat
          /\ order'[Len(order) + 1] = n
          /\ \A i \in 1..Len(order) : order'[i] = order[i]
      BY <2>1, <2>2, <2>5
    <2>8. \A m : Pred(m)' = Pred(m)
      BY <2>1 DEF Pred
    <2>9. \A i \in 1..Len(order') : \A p \in Pred(order'[i]) : \E j \in 1..(i - 1) : order'[j] = p
      <3>1. ASSUME NEW i \in 1..Len(order), NEW p \in Pred(order[i])
            PROVE  \E j \in 1..(i - 1) : order'[j] = p
        <4>1. PICK j \in 1..(i - 1) : order[j] = p
          BY DEF OrderInv
        <4>2. j \in 1..Len(order)
          BY <2>7
        <4> QED BY <2>7, <4>1, <4>2
      <3>2. ASSUME NEW p \in Pred(n) PROVE \E j \in 1..Len(order) : order'[j] = p
        BY <2>1, <2>7 DEF Listed, Elements
      <3>3. 1..(Len(order) + 1) = 1..Len(order) \cup {Len(order) + 1}
            /\ (Len(order) + 1) - 1 = Len(order)
        BY <2>7
      <3> QED BY <2>7, <3>1, <3>2, <3>3
    <2>10. Succ(n) \cap (Listed \cup {n}) = {}
      <3>1. ASSUME NEW m \in Succ(n), m \in Listed PROVE FALSE
        <4>1. PICK i \in 1..Len(order) : order[i] = m
          BY <3>1 DEF Listed, Elements
        <4>2. n \in Pred(order[i])
          BY <2>2, <4>1 DEF Pred, Succ
        <4>3. PICK j \in 1..(i - 1) : order[j] = n
          BY <4>2 DEF OrderInv
        <4>4. j \in 1..Len(order)
          BY <2>7
        <4> QED BY <2>4, <4>3, <4>4 DEF Listed, Elements
      <3>2. n \notin Succ(n)
        BY <2>1, <2>2, <2>4 DEF Pred, Succ
      <3> QED BY <3>1, <3>2
    <2>11. ASSUME NEW m \in graph.nodes \ (Listed \cup {n}), Pred(m) \subseteq Listed \cup {n}
           PROVE  m \in (Elements(stack) \ {n}) \cup Succ(n)
      <3>1. CASE n \in Pred(m)
        BY <3>1 DEF Pred, Succ
      <3>2. CASE n \notin Pred(m)
        BY <2>1, <2>11, <3>2 DEF OrderInv
      <3> QED BY <3>1, <3>2
    <2>12. /\ Elements(stack)' \cap Listed' = {}
           /\ pending' \cap Listed' = {}
      BY <2>1, <2>3, <2>6, <2>10 DEF OrderInv
    <2> QED BY <2>1, <2>3, <2>6, <2>8, <2>9, <2>11, <2>12 DEF OrderInv
  <1>5. CASE SkipNode
    <2> DEFINE n == stack[Len(stack)]
    <2>1. /\ pc = "ordering" /\ pending = {} /\ stack # <<>>
          /\ ~(Pred(n) \subseteq Listed)
          /\ stack' = Pop(stack)
          /\ UNCHANGED <<graph, pc, pending, order>>
      BY <1>5 DEF SkipNode, Current, AllPredecessorsSeen, Listed
    <2>2. /\ Elements(stack) = Elements(Pop(stack)) \cup {n}
          /\ Injective(Pop(stack)) /\ n \notin Elements(Pop(stack))
      BY <2>1, ElementsPop DEF TypeOK, OrderInv
    <2> HIDE DEF n
    <2>3. Elements(stack)' = Elements(stack) \ {n} /\ Injective(stack)'
      <3>1. Elements(stack)' = Elements(Pop(stack))
        BY <2>1 DEF Elements
      <3>2. Injective(stack)'
        BY <2>1, <2>2 DEF Injective
      <3> QED BY <2>2, <3>1, <3>2
    <2>4. Listed' = Listed /\ Injective(order)' /\ \A m : Pred(m)' = Pred(m)
      BY <2>1 DEF Listed, Elements, Pred, OrderInv, Injective
    <2> QED BY <2>1, <2>3, <2>4 DEF OrderInv
  <1>6. CASE ReturnOrder
    <2>1. /\ pc = "ordering" /\ pc' = "ordered" /\ stack = <<>> /\ pending = {}
          /\ UNCHANGED <<graph, stack, pending, order>>
      BY <1>6 DEF ReturnOrder, orderVars
    <2>2. \A n : Pred(n)' = Pred(n)
      BY <2>1 DEF Pred
    <2> QED BY <2>1, <2>2 DEF OrderInv, Injective, Elements, Listed
  <1>7. CASE Check \/ UNCHANGED vars
    <2>1. /\ UNCHANGED <<graph, stack, pending, order>>
          /\ pc' = pc \/ (pc = "checking" /\ pc' = "cyclic")
      <3>1. CASE \E n \in graph.nodes : VisitRoot(n)
        BY <3>1 DEF VisitRoot, orderVars
      <3>2. CASE \E n \in graph.nodes : ExploreSuccessor(n)
        BY <3>2 DEF ExploreSuccessor, orderVars
      <3>3. CASE \E n \in graph.nodes : FindCycle(n)
        BY <3>3 DEF FindCycle, orderVars
      <3>4. CASE FinishNode BY <3>4 DEF FinishNode, orderVars
      <3>5. CASE UNCHANGED vars BY <3>5 DEF vars
      <3> QED BY <1>7, <3>1, <3>2, <3>3, <3>4, <3>5 DEF Check
    <2> QED BY <1>1, <2>1
  <1> QED BY <1>2, <1>3, <1>4, <1>5, <1>6, <1>7 DEF Next, Order
-----------------------------------------------------------------------------

\* The invariant holds at first.
LEMMA InductiveInit == Init => IInv
  <1> SUFFICES ASSUME Init PROVE IInv
    OBVIOUS
  <1>1. GraphOK /\ TypeOK
    BY GraphsAssumption DEF Init, GraphOK, TypeOK, GraphsAssumption
  <1>2. CheckInv
    BY DEF Init, CheckInv, CallsArePath, SuccessorsAccounted, SuccessorsFirst, Injective,
           BeingExplored, FullyExplored, Elements
  <1>3. OrderInv
    BY DEF Init, OrderInv, Injective, Elements, Listed
  <1> QED BY <1>1, <1>2, <1>3 DEF IInv

\* Every step of the check and of the walk keeps the invariant.
LEMMA InductiveStep == IInv /\ [Next]_vars => IInv'
  BY TypeStep, CheckStep, OrderStep DEF IInv, OrderInv

\* The inductive invariant, for every set of graphs.
THEOREM Inductive == Spec => []IInv
  BY InductiveInit, InductiveStep, PTL DEF Spec

\* The variables keep their types.
THEOREM TypeCorrect == Spec => []TypeOK
  BY Inductive, PTL DEF IInv

\* is_acyclic gives the right verdict on every finite graph: it stops the
\* program only for a cycle and lets only acyclic graphs through.
THEOREM RightVerdict == Spec => []VerdictIsRight
  <1>1. IInv => VerdictIsRight
    BY ExploredIsAcyclic DEF IInv, CheckInv, TypeOK, VerdictIsRight
  <1> QED BY <1>1, Inductive, PTL

\* An empty stack leaves nothing unlisted.
LEMMA OrderedRight == IInv => OrderIsTopological
  <1> SUFFICES ASSUME IInv, pc = "ordered"
               PROVE  /\ Elements(order) = graph.nodes
                      /\ \A i, j \in 1..Len(order) : order[i] = order[j] => i = j
                      /\ \A i, j \in 1..Len(order) :
                            <<order[i], order[j]>> \in graph.edges => i < j
    BY DEF OrderIsTopological
  <1> DEFINE U == graph.nodes \ Listed
  <1>1. order \in Seq(graph.nodes) /\ Listed \subseteq graph.nodes
    BY DEF IInv, TypeOK, Listed, Elements
  <1>2. CASE U # {}
    <2>1. PICK n \in U : \A p \in U : n \notin Succ(p)
      BY <1>2, HasSource DEF IInv, CheckInv, TypeOK
    <2>2. Pred(n) \subseteq Listed
      BY <2>1 DEF Pred, Succ
    <2>3. n \in Elements(stack) \cup pending /\ stack = <<>> /\ pending = {}
      BY <2>1, <2>2 DEF IInv, OrderInv
    <2> QED BY <2>3 DEF Elements
  <1>3. Elements(order) = graph.nodes
    BY <1>1, <1>2 DEF Listed
  <1>4. \A i, j \in 1..Len(order) : order[i] = order[j] => i = j
    BY DEF IInv, OrderInv, Injective
  <1>5. ASSUME NEW i \in 1..Len(order), NEW j \in 1..Len(order),
               <<order[i], order[j]>> \in graph.edges
        PROVE  i < j
    <2>1. order[i] \in Pred(order[j])
      BY <1>1, <1>5 DEF Pred
    <2>2. PICK k \in 1..(j - 1) : order[k] = order[i]
      BY <2>1 DEF IInv, OrderInv
    <2>3. k \in 1..Len(order)
      BY <1>1
    <2>4. k = i
      BY <1>4, <2>2, <2>3
    <2> QED BY <1>1, <2>2, <2>4
  <1> QED BY <1>3, <1>4, <1>5

\* get_topological_ordering lists all nodes, none twice, each behind its
\* predecessors.
THEOREM Topological == Spec => []OrderIsTopological
  BY OrderedRight, Inductive, PTL

-----------------------------------------------------------------------------
(***************************************************************************)
(* Induction on natural numbers, and iterations.                           *)
(***************************************************************************)
LEMMA Least ==
    ASSUME NEW S \in SUBSET Nat, S # {}
    PROVE  \E m \in S : \A k \in S : m <= k
  <1>1. IsWellFoundedOn(OpToRel(<, Nat), Nat)
    BY NatLessThanWellFounded
  <1>2. \E m \in S : \A k \in S : ~ (<<k, m>> \in OpToRel(<, Nat))
    BY <1>1, WFMin
  <1>3. PICK m \in S : \A k \in S : ~ (<<k, m>> \in OpToRel(<, Nat))
    BY <1>2
  <1>4. \A k \in S : ~ (k < m)
    BY <1>3, Zenon DEF OpToRel
  <1> QED BY <1>4

\* What holds at 0 and is handed on from each number to the next holds up to n.
LEMMA UpTo ==
    ASSUME NEW n \in Nat, NEW S, 0 \in S, \A k \in 1..n : k - 1 \in S => k \in S
    PROVE  \A k \in 0..n : k \in S
  <1> DEFINE Bad == {k \in 0..n : k \notin S}
  <1> SUFFICES ASSUME Bad # {} PROVE FALSE
    OBVIOUS
  <1>1. Bad \in SUBSET Nat
    OBVIOUS
  <1>2. PICK m \in Bad : \A k \in Bad : m <= k
    <2> HIDE DEF Bad
    <2> QED BY <1>1, Least
  <1>3. m # 0 /\ m \in 1..n /\ m - 1 \in 0..n
    BY <1>2
  <1>4. m - 1 \in S
    BY <1>2, <1>3
  <1> QED BY <1>2, <1>3, <1>4

IsIteration(f, A, x, step, n) ==
    f \in [0..n -> A] /\ f[0] = x /\ \A k \in 1..n : f[k] = step[k][f[k - 1]]

\* A function defined by iterating typed steps exists.
LEMMA Iteration ==
    ASSUME NEW A, NEW x \in A, NEW step \in [Nat -> [A -> A]], NEW n \in Nat
    PROVE  \E f : IsIteration(f, A, x, step, n)
  <1> DEFINE Good == {m \in Nat : \E f : IsIteration(f, A, x, step, m)}
  <1>1. 0 \in Good
    <2>1. IsIteration([i \in 0..0 |-> x], A, x, step, 0)
      BY DEF IsIteration
    <2> QED BY <2>1
  <1>2. ASSUME NEW m \in 1..n, m - 1 \in Good
        PROVE  m \in Good
    <2>1. PICK f : IsIteration(f, A, x, step, m - 1)
      BY <1>2
    <2>2. m \in Nat /\ m # 0 /\ m - 1 \in Nat /\ m - 1 \in 0..(m - 1)
      BY <1>2
    <2>3. /\ f \in [0..(m - 1) -> A] /\ f[0] = x
          /\ \A k \in 1..(m - 1) : f[k] = step[k][f[k - 1]]
      BY <2>1 DEF IsIteration
    <2> DEFINE g == [k \in 0..m |-> IF k = m THEN step[m][f[m - 1]] ELSE f[k]]
    <2>4. f[m - 1] \in A
      BY <2>2, <2>3
    <2>5. step[m][f[m - 1]] \in A
      BY <2>2, <2>4
    <2>6. ASSUME NEW k \in 0..m PROVE g[k] = IF k = m THEN step[m][f[m - 1]] ELSE f[k]
      OBVIOUS
    <2>7. g \in [0..m -> A]
      <3>1. \A k \in 0..m : k # m => k \in 0..(m - 1)
        BY <2>2
      <3> QED BY <2>3, <2>5, <3>1
    <2> HIDE DEF g
    <2>8. g[0] = x
      <3>1. 0 \in 0..m /\ 0 # m
        BY <2>2
      <3>2. g[0] = f[0]
        BY <2>6, <3>1
      <3> QED BY <2>3, <3>2
    <2>9. ASSUME NEW k \in 1..m PROVE g[k] = step[k][g[k - 1]]
      <3>1. k \in 0..m /\ k - 1 \in 0..m /\ k - 1 # m /\ (k # m => k \in 1..(m - 1))
        BY <2>2
      <3>2. g[k - 1] = f[k - 1]
        BY <2>6, <3>1
      <3> QED BY <2>3, <2>6, <3>1, <3>2
    <2>10. IsIteration(g, A, x, step, m)
      BY <2>7, <2>8, <2>9 DEF IsIteration
    <2> QED BY <2>2, <2>10
  <1> HIDE DEF Good
  <1>3. \A k \in 0..n : k \in Good
    BY <1>1, <1>2, UpTo
  <1> QED BY <1>3 DEF Good

-----------------------------------------------------------------------------
(***************************************************************************)
(* The matrices of transitive_reduction.                                   *)
(***************************************************************************)
IsGraph(g) ==
    /\ IsFiniteSet(g.nodes)
    /\ g.nodes \subseteq Nat \ {0}
    /\ g.edges \subseteq Pairs(g)

IsTransitive(T) == \A a, b, c : <<a, b>> \in T /\ <<b, c>> \in T => <<a, c>> \in T

\* A finite nonempty set of numbers has a greatest one.
LEMMA GreatestOf ==
    ASSUME NEW S, IsFiniteSet(S), S \subseteq Nat, S # {}
    PROVE  \E m \in S : \A k \in S : k <= m
  <1>1. PICK n \in Nat : ExistsSurjection(1..n, S)
    BY FS_NatSurjection
  <1>2. PICK f \in [1..n -> S] : \A y \in S : \E k \in 1..n : f[k] = y
    BY <1>1 DEF ExistsSurjection, Surjection
  <1> DEFINE T == {k \in 0..n : \E m \in Nat : \A i \in 1..k : f[i] <= m}
  <1>3. 0 \in T
    OBVIOUS
  <1>4. ASSUME NEW k \in 1..n, k - 1 \in T
        PROVE  k \in T
    <2>1. PICK m \in Nat : \A i \in 1..(k - 1) : f[i] <= m
      BY <1>4
    <2>2. f[k] \in Nat
      OBVIOUS
    <2> DEFINE l == IF m <= f[k] THEN f[k] ELSE m
    <2>3. l \in Nat /\ m <= l /\ f[k] <= l
      BY <2>2
    <2> HIDE DEF l
    <2>4. ASSUME NEW i \in 1..k PROVE f[i] <= l
      <3>1. k \in Nat /\ i \in 1..n /\ (i = k \/ i \in 1..(k - 1))
        BY <1>4
      <3>2. f[i] \in Nat
        BY <3>1
      <3>3. i \in 1..(k - 1) => f[i] <= m
        BY <2>1
      <3> QED BY <2>2, <2>3, <3>1, <3>2, <3>3
    <2>5. k \in 0..n
      BY <1>4
    <2> QED BY <2>3, <2>4, <2>5
  <1>5. n \in T
    <2> HIDE DEF T
    <2> QED BY <1>3, <1>4, UpTo
  <1>6. PICK m \in Nat : \A k \in S : k <= m
    BY <1>2, <1>5
  <1> DEFINE U == {m - k : k \in S}
  <1>7. U \in SUBSET Nat /\ U # {}
    <2>1. \A k \in S : m - k \in Nat
      BY <1>6
    <2> QED BY <2>1
  <1>8. PICK u \in U : \A v \in U : u <= v
    <2> HIDE DEF U
    <2> QED BY <1>7, Least
  <1>9. PICK k \in S : u = m - k
    BY <1>8
  <1>10. ASSUME NEW y \in S PROVE y <= k
    <2>1. m - k <= m - y
      BY <1>8, <1>9
    <2> QED BY <2>1
  <1> QED BY <1>10

\* MaxNode bounds the nodes of the graph.
LEMMA MaxNodeFacts ==
    ASSUME NEW g, IsGraph(g)
    PROVE  MaxNode(g) \in Nat /\ \A n \in g.nodes : n \in 1..MaxNode(g)
  <1> DEFINE S == g.nodes \cup {0}
  <1>1. IsFiniteSet(S)
    BY FS_AddElement DEF IsGraph
  <1>2. S \subseteq Nat /\ S # {}
    BY DEF IsGraph
  <1> HIDE DEF S
  <1>3. PICK m \in S : \A k \in S : k <= m
    BY <1>1, <1>2, GreatestOf
  <1>4. \A k \in S : m >= k
    BY <1>2, <1>3
  <1>5. Max(S) \in S /\ \A k \in S : Max(S) >= k
    BY <1>3, <1>4 DEF Max
  <1> QED BY <1>2, <1>5 DEF MaxNode, S, IsGraph

\* What satisfies the equations of an iteration stays within its type.
LEMMA IterationTyped ==
    ASSUME NEW A, NEW x \in A, NEW step \in [Nat -> [A -> A]], NEW n \in Nat, NEW f,
           f = [k \in 0..n |-> f[k]],
           \A k \in 0..n : f[k] = IF k = 0 THEN x ELSE step[k][f[k - 1]]
    PROVE  IsIteration(f, A, x, step, n)
  <1>0. 0 \in 0..n /\ \A k \in 1..n : k \in 0..n /\ k # 0 /\ k \in Nat
    OBVIOUS
  <1>1. f[0] = x /\ \A k \in 1..n : f[k] = step[k][f[k - 1]]
    BY <1>0, Zenon
  <1> DEFINE S == {m \in 0..n : f[m] \in A}
  <1>2. 0 \in S
    BY <1>0, <1>1, Zenon
  <1>3. ASSUME NEW k \in 1..n, k - 1 \in S PROVE k \in S
    <2>1. f[k - 1] \in A /\ k \in Nat /\ k \in 0..n
      BY <1>0, <1>3, Zenon
    <2> DEFINE y == f[k - 1]
    <2>2. step[k][y] \in A
      <3>1. y \in A /\ k \in Nat
        BY <2>1
      <3> HIDE DEF y
      <3> QED BY ONLY <3>1, step \in [Nat -> [A -> A]]
    <2> QED BY <1>1, <2>1, <2>2, Zenon
  <1>4. \A k \in 0..n : k \in S
    <2> HIDE DEF S
    <2> QED BY <1>2, <1>3, UpTo
  <1>5. f \in [0..n -> A]
    BY <1>4
  <1> QED BY <1>1, <1>5 DEF IsIteration

\* An iteration satisfies the equation of its recursive definition.
LEMMA IterationEquation ==
    ASSUME NEW A, NEW x \in A, NEW step, NEW n \in Nat, NEW f, IsIteration(f, A, x, step, n)
    PROVE  f = [k \in 0..n |-> IF k = 0 THEN x ELSE step[k][f[k - 1]]]
  <1>1. f = [k \in 0..n |-> f[k]]
    BY DEF IsIteration
  <1>2. \A k \in 0..n : f[k] = IF k = 0 THEN x ELSE step[k][f[k - 1]]
    BY DEF IsIteration
  <1> QED BY <1>1, <1>2, Zenon

\* A function defined by iteration is one.
LEMMA IterationChosen ==
    ASSUME NEW A, NEW x \in A, NEW step \in [Nat -> [A -> A]], NEW n \in Nat, NEW f,
           f = CHOOSE h : h = [k \in 0..n |-> IF k = 0 THEN x ELSE step[k][h[k - 1]]]
    PROVE  IsIteration(f, A, x, step, n)
  <1>1. PICK i : IsIteration(i, A, x, step, n)
    BY Iteration, Zenon
  <1>2. i = [k \in 0..n |-> IF k = 0 THEN x ELSE step[k][i[k - 1]]]
    <2> HIDE DEF IsIteration
    <2> QED BY <1>1, IterationEquation
  <1>3. f = [k \in 0..n |-> IF k = 0 THEN x ELSE step[k][f[k - 1]]]
    BY <1>2, Zenon
  <1>4. \A k \in 0..n : f[k] = IF k = 0 THEN x ELSE step[k][f[k - 1]]
    BY <1>3, Zenon
  <1>5. f = [k \in 0..n |-> f[k]]
    BY <1>3, Zenon
  <1> QED BY ONLY <1>4, <1>5, x \in A, step \in [Nat -> [A -> A]], n \in Nat, IterationTyped

\* The closure is what the first triple loop of transitive_reduction computes.
LEMMA ClosureIterates ==
    ASSUME NEW g, IsGraph(g)
    PROVE  \E f : /\ f \in [0..MaxNode(g) -> SUBSET Pairs(g)]
                  /\ f[0] = g.edges
                  /\ \A k \in 1..MaxNode(g) : f[k] = f[k - 1] \cup {p \in Pairs(g) :
                        <<p[1], k>> \in f[k - 1] /\ <<k, p[2]>> \in f[k - 1]}
                  /\ Closure(g) = f[MaxNode(g)]
  <1> DEFINE n == MaxNode(g)
             A == SUBSET Pairs(g)
             add == [k \in Nat |-> [M \in A |->
                        M \cup {p \in Pairs(g) : <<p[1], k>> \in M /\ <<k, p[2]>> \in M}]]
             f == CHOOSE h : h = [k \in 0..n |-> IF k = 0 THEN g.edges ELSE add[k][h[k - 1]]]
  <1>1. Closure(g) = f[n]
    BY DEF Closure
  <1>2. n \in Nat /\ g.edges \in A
    BY MaxNodeFacts DEF IsGraph
  <1>3. \A k \in Nat, M \in A : add[k][M] =
            M \cup {p \in Pairs(g) : <<p[1], k>> \in M /\ <<k, p[2]>> \in M}
    OBVIOUS
  <1>4. add \in [Nat -> [A -> A]]
    OBVIOUS
  <1> HIDE DEF add
  <1>5. IsIteration(f, A, g.edges, add, n)
    <2> DEFINE x == g.edges
    <2>1. x \in A
      BY <1>2
    <2>2. f = CHOOSE h : h = [k \in 0..n |-> IF k = 0 THEN x ELSE add[k][h[k - 1]]]
      OBVIOUS
    <2> HIDE DEF n, A, f, x
    <2>3. IsIteration(f, A, x, add, n)
      BY <1>2, <1>4, <2>1, <2>2, IterationChosen, Zenon
    <2> QED BY <2>3 DEF x
  <1> HIDE DEF f
  <1>6. f \in [0..n -> A] /\ f[0] = g.edges /\ \A k \in 1..n : f[k] = add[k][f[k - 1]]
    BY <1>5 DEF IsIteration
  <1>7. ASSUME NEW k \in 1..n
        PROVE  f[k] = f[k - 1] \cup {p \in Pairs(g) :
                          <<p[1], k>> \in f[k - 1] /\ <<k, p[2]>> \in f[k - 1]}
    <2>1. k \in Nat /\ k - 1 \in 0..n
      BY <1>2
    <2>2. f[k - 1] \in A
      BY <1>6, <2>1
    <2> QED BY <1>3, <1>6, <2>1, <2>2
  <1> QED BY <1>1, <1>6, <1>7

\* The closure is the least transitive relation that holds the edges.
LEMMA ClosureFacts ==
    ASSUME NEW g, IsGraph(g)
    PROVE  /\ g.edges \subseteq Closure(g)
           /\ Closure(g) \subseteq Pairs(g)
           /\ IsTransitive(Closure(g))
           /\ \A T : IsTransitive(T) /\ g.edges \subseteq T => Closure(g) \subseteq T
  <1> DEFINE n == MaxNode(g)
  <1>1. PICK f : /\ f \in [0..n -> SUBSET Pairs(g)]
                 /\ f[0] = g.edges
                 /\ \A k \in 1..n : f[k] = f[k - 1] \cup {p \in Pairs(g) :
                        <<p[1], k>> \in f[k - 1] /\ <<k, p[2]>> \in f[k - 1]}
                 /\ Closure(g) = f[n]
    BY ClosureIterates
  <1>2. n \in Nat /\ \A m \in g.nodes : m \in 1..n
    BY MaxNodeFacts
  <1> HIDE DEF n
  <1> DEFINE ThroughUpTo(k) == \A m \in 1..k, a, b \in g.nodes :
                                  <<a, m>> \in f[k] /\ <<m, b>> \in f[k] => <<a, b>> \in f[k]
             S == {k \in 0..n : g.edges \subseteq f[k] /\ ThroughUpTo(k)}
  <1>3. 0 \in S
    BY <1>1, <1>2
  <1>4. ASSUME NEW k \in 1..n, k - 1 \in S
        PROVE  k \in S
    <2> DEFINE M == f[k - 1]
               N == f[k]
    <2>1. k \in 0..n /\ k - 1 \in 0..n /\ k \in Nat
      BY <1>2
    <2>2. M \subseteq Pairs(g) /\ N \subseteq Pairs(g) /\ g.edges \subseteq M
      BY <1>1, <1>4, <2>1
    <2>3. \A a, b \in g.nodes :
              <<a, b>> \in N <=> <<a, b>> \in M \/ (<<a, k>> \in M /\ <<k, b>> \in M)
      <3>1. N = M \cup {p \in Pairs(g) : <<p[1], k>> \in M /\ <<k, p[2]>> \in M}
        BY <1>1
      <3> HIDE DEF M, N
      <3> QED BY <3>1 DEF Pairs
    <2>4. \A m \in 1..(k - 1), a, b \in g.nodes :
              <<a, m>> \in M /\ <<m, b>> \in M => <<a, b>> \in M
      BY <1>4
    <2>5. g.edges \subseteq N
      BY <1>1, <2>2
    <2> HIDE DEF M, N
    <2>6. ASSUME NEW m \in 1..k, NEW a \in g.nodes, NEW b \in g.nodes,
                 <<a, m>> \in N, <<m, b>> \in N
          PROVE  <<a, b>> \in N
      <3>1. m \in g.nodes
        BY <2>2, <2>6 DEF Pairs
      <3>2. CASE m = k
        BY <2>3, <2>6, <3>1, <3>2
      <3>3. CASE m # k
        <4>1. m \in 1..(k - 1)
          BY <2>1, <3>3
        <4>2. <<a, m>> \in M \/ (<<a, k>> \in M /\ <<k, m>> \in M)
          BY <2>3, <2>6, <3>1
        <4>3. <<m, b>> \in M \/ (<<m, k>> \in M /\ <<k, b>> \in M)
          BY <2>3, <2>6, <3>1
        <4>4. \A c, d \in g.nodes : <<c, m>> \in M /\ <<m, d>> \in M => <<c, d>> \in M
          BY <2>4, <4>1
        <4>5. <<a, k>> \in M \/ <<m, k>> \in M \/ <<k, m>> \in M => k \in g.nodes
          BY <2>2 DEF Pairs
        <4> QED BY <2>3, <4>2, <4>3, <4>4, <4>5
      <3> QED BY <3>2, <3>3
    <2> QED BY <2>1, <2>5, <2>6 DEF N
  <1>5. n \in S
    <2> HIDE DEF S
    <2> QED BY <1>2, <1>3, <1>4, UpTo
  <1>6. Closure(g) \subseteq Pairs(g) /\ g.edges \subseteq Closure(g)
    BY <1>1, <1>2, <1>5
  <1>7. IsTransitive(Closure(g))
    <2> SUFFICES ASSUME NEW a, NEW b, NEW c, <<a, b>> \in Closure(g), <<b, c>> \in Closure(g)
                 PROVE  <<a, c>> \in Closure(g)
      BY DEF IsTransitive
    <2>1. a \in g.nodes /\ b \in g.nodes /\ c \in g.nodes
      BY <1>6 DEF Pairs
    <2> QED BY <1>1, <1>2, <1>5, <2>1
  <1>8. ASSUME NEW T, IsTransitive(T), g.edges \subseteq T
        PROVE  Closure(g) \subseteq T
    <2> DEFINE U == {k \in 0..n : f[k] \subseteq T}
    <2>1. 0 \in U
      BY <1>1, <1>2, <1>8
    <2>2. ASSUME NEW k \in 1..n, k - 1 \in U
          PROVE  k \in U
      <3>1. k \in 0..n /\ k - 1 \in 0..n /\ f[k - 1] \subseteq T
        BY <1>2, <2>2
      <3>2. ASSUME NEW p \in f[k] PROVE p \in T
        <4>1. CASE p \in f[k - 1]
          BY <3>1, <4>1
        <4>2. CASE p \notin f[k - 1]
          <5>1. p \in Pairs(g) /\ <<p[1], k>> \in f[k - 1] /\ <<k, p[2]>> \in f[k - 1]
            BY <1>1, <4>2
          <5>2. p = <<p[1], p[2]>>
            BY <5>1 DEF Pairs
          <5>3. <<p[1], p[2]>> \in T
            BY <1>8, <3>1, <5>1 DEF IsTransitive
          <5> QED BY <5>2, <5>3
        <4> QED BY <4>1, <4>2
      <3> QED BY <3>1, <3>2
    <2>3. n \in U
      <3> HIDE DEF U
      <3> QED BY <1>2, <2>1, <2>2, UpTo
    <2> QED BY <1>1, <2>3
  <1> QED BY <1>6, <1>7, <1>8

-----------------------------------------------------------------------------
Clear(g, j) == [i \in Nat |-> [M \in SUBSET Pairs(g) |-> ClearImplied(M, j, i)]]

\* One pass of the innermost two loops: what two steps over j imply is cleared.
Implied(M, j) == {p \in M : <<p[1], j>> \in M /\ <<j, p[2]>> \in M}

\* The inner two loops over j clear exactly what two steps over j imply, although
\* they read the matrix they clear.
LEMMA RowsClear ==
    ASSUME NEW g, IsGraph(g), NEW M \in SUBSET Pairs(g), NEW j \in Nat, <<j, j>> \notin M,
           NEW n \in Nat, \A m \in g.nodes : m \in 1..n,
           NEW r, IsIteration(r, SUBSET Pairs(g), M, Clear(g, j), n)
    PROVE  r[n] = M \ Implied(M, j)
  <1> DEFINE After(i) == {p \in M : ~(p[1] <= i /\ p \in Implied(M, j))}
             S == {i \in 0..n : r[i] = After(i)}
  <1>1. /\ r \in [0..n -> SUBSET Pairs(g)]
        /\ r[0] = M
        /\ \A i \in 1..n : r[i] = Clear(g, j)[i][r[i - 1]]
    BY DEF IsIteration
  <1>2. \A p \in M : p[1] \in Nat /\ p[1] # 0 /\ p[1] <= n /\ p = <<p[1], p[2]>>
    BY DEF Pairs, IsGraph
  <1>3. \A i \in 1..n : r[i] = ClearImplied(r[i - 1], j, i)
    <2>1. \A i \in Nat, N \in SUBSET Pairs(g) : Clear(g, j)[i][N] = ClearImplied(N, j, i)
      BY DEF Clear
    <2>2. \A i \in 1..n : i \in Nat /\ i - 1 \in 0..n
      OBVIOUS
    <2>3. \A i \in 1..n : r[i - 1] \in SUBSET Pairs(g)
      BY <1>1, <2>2
    <2> QED BY <1>1, <2>1, <2>2, <2>3
  <1>4. 0 \in S
    <2>1. After(0) = M
      BY <1>2
    <2> QED BY <1>1, <2>1
  <1>5. ASSUME NEW i \in 1..n, i - 1 \in S
        PROVE  i \in S
    <2>1. r[i - 1] = After(i - 1) /\ i \in 0..n /\ i \in Nat /\ i - 1 \in Nat
      BY <1>5
    <2> DEFINE N == After(i - 1)
    <2>2. r[i] = ClearImplied(N, j, i)
      BY <1>3, <2>1
    <2>3. <<i, j>> \in N <=> <<i, j>> \in M
      BY <2>1
    <2>4. \A k : <<j, k>> \in N <=> <<j, k>> \in M
      BY <2>1 DEF Implied
    <2>5. \A p \in M : p \in N <=> ~(p[1] <= i - 1 /\ p \in Implied(M, j))
      OBVIOUS
    <2>6. N \subseteq M
      OBVIOUS
    <2> HIDE DEF N
    <2>7. ASSUME NEW p
          PROVE  p \in r[i] <=> p \in After(i)
      <3>1. p \notin M => p \notin r[i] /\ p \notin After(i)
        BY <2>2, <2>6 DEF ClearImplied
      <3>2. CASE p \in M /\ p[1] = i
        <4>1. p \in N
          BY <1>2, <2>5, <3>2
        <4>2. p \in Implied(M, j) <=> <<i, j>> \in M /\ <<j, p[2]>> \in M
          BY <3>2 DEF Implied
        <4>3. p \in r[i] <=> ~(<<i, j>> \in N /\ <<j, p[2]>> \in N)
          BY <2>2, <3>2, <4>1 DEF ClearImplied
        <4>4. p \in After(i) <=> ~(p \in Implied(M, j))
          BY <1>2, <3>2
        <4> QED BY <2>3, <2>4, <4>2, <4>3, <4>4
      <3>3. CASE p \in M /\ p[1] # i
        <4>1. p \in r[i] <=> p \in N
          BY <2>2, <3>3 DEF ClearImplied
        <4>2. p[1] <= i - 1 <=> p[1] <= i
          BY <1>2, <2>1, <3>3
        <4> QED BY <2>5, <3>3, <4>1, <4>2
      <3> QED BY <3>1, <3>2, <3>3
    <2>8. r[i] = After(i)
      <3> HIDE DEF After
      <3> QED BY <2>7
    <2> QED BY <2>1, <2>8
  <1>6. r[n] = After(n)
    <2> HIDE DEF S
    <2>1. \A i \in 0..n : i \in S
      BY <1>4, <1>5, UpTo
    <2> QED BY <2>1 DEF S
  <1> QED BY <1>2, <1>6

Between(g, a, b) == {c \in g.nodes : <<a, c>> \in Closure(g) /\ <<c, b>> \in Closure(g)}
Covers(g) == {p \in Closure(g) : Between(g, p[1], p[2]) = {}}

\* Each pass clears the pairs with j in between, and finds them intact: a pair
\* that had been cleared before would have cleared them with it.
LEMMA MatrixIsReduced ==
    ASSUME NEW g, IsGraph(g), \A a : <<a, a>> \notin Closure(g)
    PROVE  ReducedMatrix(g) = Covers(g)
  <1> DEFINE n == MaxNode(g)
             A == SUBSET Pairs(g)
             row(M, j) == CHOOSE r : r = [i \in 0..n |-> IF i = 0 THEN M ELSE Clear(g, j)[i][r[i - 1]]]
             over == [j \in Nat |-> [M \in A |-> row(M, j)[n]]]
             f == CHOOSE h : h = [j \in 0..n |-> IF j = 0 THEN Closure(g) ELSE over[j][h[j - 1]]]
             C == Closure(g)
  <1>1. ReducedMatrix(g) = f[n]
    BY DEF ReducedMatrix, Clear
  <1>2. n \in Nat /\ C \in A /\ \A m \in g.nodes : m \in 1..n
    BY MaxNodeFacts, ClosureFacts
  <1>3. ASSUME NEW j \in Nat, NEW M \in A
        PROVE  IsIteration(row(M, j), A, M, Clear(g, j), n)
    <2>1. Clear(g, j) \in [Nat -> [A -> A]]
      <3>1. \A i \in Nat, N \in A : ClearImplied(N, j, i) \in A
        BY DEF ClearImplied
      <3> QED BY <3>1 DEF Clear
    <2> DEFINE r == row(M, j)
               x == M
    <2>2. r = CHOOSE h : h = [i \in 0..n |-> IF i = 0 THEN x ELSE Clear(g, j)[i][h[i - 1]]]
      OBVIOUS
    <2>3. x \in A
      OBVIOUS
    <2> HIDE DEF r, n, A, x
    <2>4. IsIteration(r, A, x, Clear(g, j), n)
      BY ONLY <1>2, <2>1, <2>2, <2>3, IterationChosen, Zenon
    <2> QED BY <2>4 DEF r, x
  <1> HIDE DEF row
  <1>4. \A j \in Nat, M \in A : over[j][M] = row(M, j)[n]
    OBVIOUS
  <1>5. over \in [Nat -> [A -> A]]
    <2>1. \A j \in Nat, M \in A : row(M, j)[n] \in A
      BY <1>2, <1>3 DEF IsIteration
    <2> QED BY <2>1
  <1>6. ASSUME NEW j \in Nat, NEW M \in A, <<j, j>> \notin M
        PROVE  over[j][M] = M \ Implied(M, j)
    BY <1>2, <1>3, <1>4, <1>6, RowsClear
  <1> HIDE DEF over
  <1>7. IsIteration(f, A, C, over, n)
    <2> HIDE DEF n, A, C
    <2>2. f = CHOOSE h : h = [i \in 0..n |-> IF i = 0 THEN C ELSE over[i][h[i - 1]]]
      BY DEF C
    <2> HIDE DEF f
    <2> QED BY ONLY <1>2, <1>5, <2>2, IterationChosen, Zenon
  <1> HIDE DEF f
  <1>8. f \in [0..n -> A] /\ f[0] = C /\ \A j \in 1..n : f[j] = over[j][f[j - 1]]
    BY <1>7 DEF IsIteration
  <1> HIDE DEF A
  <1> DEFINE After(j) == {p \in C : \A c \in 1..j : ~(<<p[1], c>> \in C /\ <<c, p[2]>> \in C)}
             S == {j \in 0..n : f[j] = After(j)}
  <1>9. 0 \in S
    BY <1>2, <1>8
  <1>10. ASSUME NEW j \in 1..n, j - 1 \in S
         PROVE  j \in S
    <2> DEFINE M == After(j - 1)
    <2>1. j \in Nat /\ j \in 0..n /\ f[j - 1] = M /\ j - 1 \in 0..n
      BY <1>2, <1>10
    <2>2. M \in A /\ M \subseteq C
      <3>1. M \subseteq C
        OBVIOUS
      <3> HIDE DEF M
      <3> QED BY <1>8, <2>1, <3>1
    <2>3. f[j] = M \ Implied(M, j)
      <3>1. <<j, j>> \notin M
        BY <2>2
      <3> HIDE DEF M
      <3> QED BY <1>6, <1>8, <2>1, <2>2, <3>1
    <2>4. IsTransitive(C)
      BY ClosureFacts
    <2>5. ASSUME NEW p \in M, <<p[1], j>> \in C, <<j, p[2]>> \in C
          PROVE  <<p[1], j>> \in M /\ <<j, p[2]>> \in M
      <3>1. ASSUME NEW c \in 1..(j - 1) PROVE ~(<<p[1], c>> \in C /\ <<c, j>> \in C)
        BY <2>4, <2>5 DEF IsTransitive
      <3>2. ASSUME NEW c \in 1..(j - 1) PROVE ~(<<j, c>> \in C /\ <<c, p[2]>> \in C)
        BY <2>4, <2>5 DEF IsTransitive
      <3> QED BY <2>5, <3>1, <3>2
    <2>6. \A p : p \in After(j) <=> p \in M /\ ~(<<p[1], j>> \in C /\ <<j, p[2]>> \in C)
      <3>1. 1..j = 1..(j - 1) \cup {j}
        BY <2>1
      <3> QED BY <3>1
    <2>7. f[j] = After(j)
      <3> HIDE DEF After
      <3>1. \A p : p \in f[j] <=> p \in M /\ ~(<<p[1], j>> \in M /\ <<j, p[2]>> \in M)
        BY <2>3 DEF Implied
      <3> HIDE DEF M
      <3> QED BY <2>2, <2>5, <2>6, <3>1
    <2> QED BY <2>1, <2>7
  <1>11. f[n] = After(n)
    <2> HIDE DEF S
    <2>1. \A i \in 0..n : i \in S
      BY <1>2, <1>9, <1>10, UpTo
    <2> QED BY <1>2, <2>1 DEF S
  <1>12. ASSUME NEW p \in C
         PROVE  p \in After(n) <=> Between(g, p[1], p[2]) = {}
    <2>1. \A c : <<p[1], c>> \in C => c \in g.nodes
      BY <1>2 DEF A, Pairs
    <2> QED BY <1>2, <2>1 DEF Between
  <1> QED BY <1>1, <1>11, <1>12 DEF Covers

-----------------------------------------------------------------------------
(***************************************************************************)
(* An acyclic graph, its closure and its reduction.                        *)
(***************************************************************************)
IsRanked(g, pos) ==
    /\ IsGraph(g)
    /\ pos \in [g.nodes -> Nat]
    /\ \A e \in g.edges : pos[e[1]] < pos[e[2]]

\* The closure of a ranked graph respects the ranks, so it has no loops.
LEMMA ClosureIsRanked ==
    ASSUME NEW g, NEW pos, IsRanked(g, pos)
    PROVE  /\ \A p \in Closure(g) : pos[p[1]] < pos[p[2]]
           /\ \A a : <<a, a>> \notin Closure(g)
  <1> DEFINE T == {p \in Pairs(g) : pos[p[1]] < pos[p[2]]}
  <1>1. IsTransitive(T)
    <2> SUFFICES ASSUME NEW a, NEW b, NEW c, <<a, b>> \in T, <<b, c>> \in T PROVE <<a, c>> \in T
      BY DEF IsTransitive
    <2>1. pos[a] < pos[b] /\ pos[b] < pos[c] /\ a \in g.nodes /\ b \in g.nodes /\ c \in g.nodes
      BY DEF Pairs
    <2>2. pos[a] \in Nat /\ pos[b] \in Nat /\ pos[c] \in Nat
      BY <2>1 DEF IsRanked
    <2> QED BY <2>1, <2>2 DEF Pairs
  <1>2. g.edges \subseteq T
    BY DEF IsRanked, IsGraph
  <1>3. Closure(g) \subseteq T
    <2> HIDE DEF T
    <2> QED BY <1>1, <1>2, ClosureFacts DEF IsRanked
  <1>4. ASSUME NEW a, <<a, a>> \in Closure(g) PROVE FALSE
    <2>1. pos[a] < pos[a] /\ a \in g.nodes
      BY <1>3, <1>4 DEF Pairs
    <2>2. pos[a] \in Nat
      BY <2>1 DEF IsRanked
    <2> QED BY <2>1, <2>2
  <1> QED BY <1>3, <1>4

\* A pair of the closure with nothing in between is an edge: without it the closure
\* would still be transitive.
LEMMA CoversAreEdges ==
    ASSUME NEW g, NEW pos, IsRanked(g, pos)
    PROVE  Covers(g) \subseteq g.edges
  <1> SUFFICES ASSUME NEW p \in Covers(g), p \notin g.edges PROVE FALSE
    OBVIOUS
  <1> DEFINE C == Closure(g)
             T == C \ {p}
  <1>1. p \in C /\ p = <<p[1], p[2]>> /\ Between(g, p[1], p[2]) = {}
    BY ClosureFacts DEF Covers, Pairs, IsRanked
  <1>2. \A a, b, c : <<a, b>> \in C /\ <<b, c>> \in C => <<a, c>> \in C /\ b \in g.nodes
    BY ClosureFacts DEF IsTransitive, Pairs, IsRanked
  <1>3. IsTransitive(T)
    <2> SUFFICES ASSUME NEW a, NEW b, NEW c, <<a, b>> \in T, <<b, c>> \in T, <<a, c>> = p
                 PROVE  FALSE
      BY <1>2 DEF IsTransitive
    <2>1. a = p[1] /\ c = p[2]
      BY <1>1
    <2>2. b \in Between(g, p[1], p[2])
      BY <1>2, <2>1 DEF Between
    <2> QED BY <1>1, <2>2
  <1>4. g.edges \subseteq T
    BY ClosureFacts DEF IsRanked
  <1>5. C \subseteq T
    <2> HIDE DEF T, C
    <2>1. Closure(g) \subseteq T
      BY <1>3, <1>4, ClosureFacts DEF IsRanked
    <2> QED BY <2>1 DEF C
  <1> QED BY <1>1, <1>5

\* The covers generate the closure.
LEMMA CoversGenerate ==
    ASSUME NEW g, NEW pos, IsRanked(g, pos), NEW T, IsTransitive(T), Covers(g) \subseteq T
    PROVE  Closure(g) \subseteq T
  <1> DEFINE C == Closure(g)
             Length(p) == pos[p[2]] - pos[p[1]]
             Bad == {n \in Nat : \E p \in C : p \notin T /\ Length(p) = n}
  <1> SUFFICES ASSUME NEW q \in C, q \notin T PROVE FALSE
    OBVIOUS
  <1>1. \A p \in C : /\ p[1] \in g.nodes /\ p[2] \in g.nodes /\ p = <<p[1], p[2]>>
                     /\ pos[p[1]] < pos[p[2]] /\ pos[p[1]] \in Nat /\ pos[p[2]] \in Nat
    BY ClosureFacts, ClosureIsRanked DEF Pairs, IsRanked
  <1>2. Bad # {}
    <2>1. Length(q) \in Nat
      BY <1>1
    <2> QED BY <2>1
  <1>3. PICK m \in Bad : \A k \in Bad : m <= k
    <2>1. Bad \in SUBSET Nat
      OBVIOUS
    <2> HIDE DEF Bad
    <2> QED BY <1>2, <2>1, Least
  <1>4. PICK p \in C : p \notin T /\ Length(p) = m
    BY <1>3
  <1>5. PICK c \in g.nodes : <<p[1], c>> \in C /\ <<c, p[2]>> \in C
    BY <1>4 DEF Covers, Between
  <1>6. ASSUME NEW r \in C, Length(r) < Length(p)
        PROVE  r \in T
    <2>1. Length(r) \in Nat
      BY <1>1
    <2>2. Length(r) \notin Bad
      BY <1>3, <1>4, <1>6, <2>1
    <2> QED BY <2>1, <2>2
  <1>7. <<p[1], c>> \in T /\ <<c, p[2]>> \in T
    <2> DEFINE r == <<p[1], c>>
               s == <<c, p[2]>>
    <2>1. pos[p[1]] < pos[c] /\ pos[c] < pos[p[2]] /\ pos[c] \in Nat
      BY <1>1, <1>5
    <2>2. Length(r) < Length(p) /\ Length(s) < Length(p)
      BY <1>1, <2>1
    <2> QED BY <1>5, <1>6, <2>2
  <1>8. <<p[1], p[2]>> \in T
    BY <1>7 DEF IsTransitive
  <1> QED BY <1>1, <1>4, <1>8

\* A way through the graph begins and ends with a cover.
LEMMA FirstAndLastStep ==
    ASSUME NEW g, NEW pos, IsRanked(g, pos), NEW a, NEW b, <<a, b>> \in Closure(g)
    PROVE  /\ \E x : <<a, x>> \in Covers(g) /\ (x = b \/ <<x, b>> \in Closure(g))
           /\ \E x : <<x, b>> \in Covers(g) /\ (x = a \/ <<a, x>> \in Closure(g))
  <1> DEFINE C == Closure(g)
             T == {p \in C : \E x : <<p[1], x>> \in Covers(g) /\ (x = p[2] \/ <<x, p[2]>> \in C)}
             U == {p \in C : \E x : <<x, p[2]>> \in Covers(g) /\ (x = p[1] \/ <<p[1], x>> \in C)}
  <1>1. \A c, d, e : <<c, d>> \in C /\ <<d, e>> \in C => <<c, e>> \in C
    BY ClosureFacts DEF IsTransitive, IsRanked
  <1>2. \A p \in Covers(g) : p \in C /\ p = <<p[1], p[2]>>
    BY ClosureFacts DEF Covers, Pairs, IsRanked
  <1>3. IsTransitive(T) /\ IsTransitive(U)
    BY <1>1 DEF IsTransitive
  <1>4. Covers(g) \subseteq T /\ Covers(g) \subseteq U
    BY <1>2
  <1>5. C \subseteq T /\ C \subseteq U
    <2> HIDE DEF T, U
    <2> QED BY <1>3, <1>4, CoversGenerate
  <1> QED BY <1>5

\* transitive_reduction leaves exactly the covers of the order.
LEMMA ReductionFacts ==
    ASSUME NEW g, NEW pos, IsRanked(g, pos)
    PROVE  transitive_reduction(g) = [nodes |-> g.nodes, edges |-> Covers(g)]
  <1>1. ReducedMatrix(g) = Covers(g)
    BY ClosureIsRanked, MatrixIsReduced DEF IsRanked
  <1>2. g.edges \cap Covers(g) = Covers(g)
    BY CoversAreEdges
  <1>3. transitive_reduction(g) = [nodes |-> g.nodes, edges |-> g.edges \cap Covers(g)]
    BY <1>1 DEF transitive_reduction
  <1> QED BY <1>2, <1>3

-----------------------------------------------------------------------------
(***************************************************************************)
(* The inverse of the line graph.                                          *)
(***************************************************************************)
LEMMA ComponentsAreComplete ==
    ASSUME NEW h, h.edges \subseteq Pairs(h), HasCbcDecomposition(h), NEW c \in Components(h)
    PROVE  /\ c.head # {} /\ c.tail # {}
           /\ \A m \in c.head, n \in c.tail : <<m, n>> \in h.edges
           /\ \A m, n : <<m, n>> \in h.edges => (m \in c.head <=> n \in c.tail)
  <1>1. PICK e \in h.edges : c = Component(h, e)
    BY DEF Components
  <1>2. e = <<e[1], e[2]>> /\ e[1] \in h.nodes /\ e[2] \in h.nodes
    BY DEF Pairs
  <1>3. c.head = Preds(h, e[2]) /\ c.tail = Succs(h, e[1])
    BY <1>1 DEF Component
  <1>4. e[1] \in c.head /\ e[2] \in c.tail
    BY <1>2, <1>3 DEF Preds, Succs
  <1>5. /\ h.edges \cap ((c.head \cup c.tail) \X (c.head \cup c.tail)) = c.head \X c.tail
        /\ \A d \in h.edges : d[1] \in c.head <=> d[2] \in c.tail
    BY DEF HasCbcDecomposition, IsCompleteBipartite
  <1>6. ASSUME NEW m \in c.head, NEW n \in c.tail PROVE <<m, n>> \in h.edges
    <2>1. <<m, n>> \in c.head \X c.tail
      BY <1>6
    <2> QED BY <1>5, <2>1
  <1>7. ASSUME NEW m, NEW n, <<m, n>> \in h.edges PROVE m \in c.head <=> n \in c.tail
    BY <1>5, <1>7
  <1> QED BY <1>4, <1>6, <1>7

\* A node is in the head of one line node only, and in the tail of one only.
LEMMA LineNodesApart ==
    ASSUME NEW h, h.edges \subseteq Pairs(h), HasCbcDecomposition(h),
           NEW c \in LineNodes(h), NEW d \in LineNodes(h), NEW n
    PROVE  /\ n \in c.head /\ n \in d.head => c = d
           /\ n \in c.tail /\ n \in d.tail => c = d
  <1>1. ASSUME NEW k \in LineNodes(h)
        PROVE  \/ k \in Components(h)
               \/ k.head = {} /\ k.tail = {m \in h.nodes : Preds(h, m) = {}} /\ k = Alpha(h)
               \/ k.tail = {} /\ k.head = {m \in h.nodes : Succs(h, m) = {}} /\ k = Omega(h)
    BY DEF LineNodes, Alpha, Omega
  <1>2. ASSUME NEW k \in Components(h)
        PROVE  k = [head |-> k.head, tail |-> k.tail]
    BY DEF Components, Component
  <1>3. \A m, p : <<m, p>> \in h.edges => m \in h.nodes /\ p \in h.nodes
    BY DEF Pairs
  <1>4. ASSUME NEW k \in Components(h), NEW m \in k.head
        PROVE  k.tail = Succs(h, m)
    BY <1>3, <1>4, ComponentsAreComplete DEF Succs
  <1>5. ASSUME NEW k \in Components(h), NEW m \in k.tail
        PROVE  k.head = Preds(h, m)
    BY <1>3, <1>5, ComponentsAreComplete DEF Preds
  <1>6. ASSUME NEW k \in Components(h) PROVE k.head # {} /\ k.tail # {}
    BY ComponentsAreComplete
  <1>7. ASSUME n \in c.head, n \in d.head PROVE c = d
    <2>1. CASE c \in Components(h) /\ d \in Components(h)
      <3>1. c.tail = d.tail
        BY <1>4, <1>7, <2>1
      <3>2. c.head = d.head
        BY <1>5, <1>6, <2>1, <3>1
      <3> QED BY <1>2, <2>1, <3>1, <3>2
    <2>2. CASE c = Omega(h) \/ d = Omega(h)
      <3>1. Succs(h, n) = {}
        BY <1>7, <2>2 DEF Omega
      <3>2. c \notin Components(h) /\ d \notin Components(h)
        BY <1>4, <1>6, <1>7, <3>1
      <3> QED BY <1>1, <1>7, <3>2
    <2> QED BY <1>1, <1>7, <2>1, <2>2
  <1>8. ASSUME n \in c.tail, n \in d.tail PROVE c = d
    <2>1. CASE c \in Components(h) /\ d \in Components(h)
      <3>1. c.head = d.head
        BY <1>5, <1>8, <2>1
      <3>2. c.tail = d.tail
        BY <1>4, <1>6, <2>1, <3>1
      <3> QED BY <1>2, <2>1, <3>1, <3>2
    <2>2. CASE c = Alpha(h) \/ d = Alpha(h)
      <3>1. Preds(h, n) = {}
        BY <1>8, <2>2 DEF Alpha
      <3>2. c \notin Components(h) /\ d \notin Components(h)
        BY <1>5, <1>6, <1>8, <3>1
      <3> QED BY <1>1, <1>8, <3>2
    <2> QED BY <1>1, <1>8, <2>1, <2>2
  <1> QED BY <1>7, <1>8

\* Two nodes are joined by an edge exactly if the edge of the one ends where that of
\* the other begins; the nodes without predecessors begin at one line node, those
\* without successors end at one.
LEMMA LineGraphFacts ==
    ASSUME NEW h, h.edges \subseteq Pairs(h), HasCbcDecomposition(h),
           NEW m \in h.nodes, NEW n \in h.nodes
    PROVE  /\ DstForNode(h, m) = SrcForNode(h, n) <=> <<m, n>> \in h.edges
           /\ Preds(h, n) = {} => SrcForNode(h, n) = Alpha(h)
           /\ Succs(h, n) = {} => DstForNode(h, n) = Omega(h)
  <1>1. \A p, q : <<p, q>> \in h.edges => /\ Component(h, <<p, q>>) \in LineNodes(h)
                                         /\ Component(h, <<p, q>>).head = Preds(h, q)
                                         /\ Component(h, <<p, q>>).tail = Succs(h, p)
    BY DEF LineNodes, Components, Component
  <1>2. Alpha(h) \in LineNodes(h) /\ Omega(h) \in LineNodes(h)
    BY DEF LineNodes
  <1>3. ASSUME NEW p \in h.nodes
        PROVE  DstForNode(h, p) \in LineNodes(h) /\ p \in DstForNode(h, p).head
    <2>1. \E c \in LineNodes(h) : p \in c.head
      <3>1. CASE Succs(h, p) = {}
        BY <1>2, <3>1 DEF Omega
      <3>2. CASE Succs(h, p) # {}
        <4>1. PICK q \in Succs(h, p) : TRUE
          BY <3>2
        <4>2. <<p, q>> \in h.edges /\ p \in Preds(h, q)
          BY <4>1 DEF Succs, Preds
        <4> QED BY <1>1, <4>2
      <3> QED BY <3>1, <3>2
    <2> QED BY <2>1 DEF DstForNode
  <1>4. ASSUME NEW p \in h.nodes
        PROVE  SrcForNode(h, p) \in LineNodes(h) /\ p \in SrcForNode(h, p).tail
    <2>1. \E c \in LineNodes(h) : p \in c.tail
      <3>1. CASE Preds(h, p) = {}
        BY <1>2, <3>1 DEF Alpha
      <3>2. CASE Preds(h, p) # {}
        <4>1. PICK q \in Preds(h, p) : TRUE
          BY <3>2
        <4>2. <<q, p>> \in h.edges /\ p \in Succs(h, q)
          BY <4>1 DEF Succs, Preds
        <4> QED BY <1>1, <4>2
      <3> QED BY <3>1, <3>2
    <2> QED BY <2>1 DEF SrcForNode
  <1>5. ASSUME DstForNode(h, m) = SrcForNode(h, n) PROVE <<m, n>> \in h.edges
    <2> DEFINE c == DstForNode(h, m)
    <2>1. c \in LineNodes(h) /\ m \in c.head /\ n \in c.tail
      BY <1>3, <1>4, <1>5
    <2>2. c \in Components(h)
      BY <2>1 DEF LineNodes, Alpha, Omega
    <2> HIDE DEF c
    <2> QED BY <2>1, <2>2, ComponentsAreComplete
  <1>6. ASSUME <<m, n>> \in h.edges PROVE DstForNode(h, m) = SrcForNode(h, n)
    <2> DEFINE c == Component(h, <<m, n>>)
    <2>1. c \in LineNodes(h) /\ m \in c.head /\ n \in c.tail
      BY <1>1, <1>6 DEF Preds, Succs
    <2> HIDE DEF c
    <2>2. DstForNode(h, m) = c
      BY <1>3, <2>1, LineNodesApart
    <2>3. SrcForNode(h, n) = c
      BY <1>4, <2>1, LineNodesApart
    <2> QED BY <2>2, <2>3
  <1>7. ASSUME Preds(h, n) = {} PROVE SrcForNode(h, n) = Alpha(h)
    <2>1. n \in Alpha(h).tail
      BY <1>7 DEF Alpha
    <2> QED BY <1>2, <1>4, <2>1, LineNodesApart
  <1>8. ASSUME Succs(h, n) = {} PROVE DstForNode(h, n) = Omega(h)
    <2>1. n \in Omega(h).head
      BY <1>8 DEF Omega
    <2> QED BY <1>2, <1>3, <2>1, LineNodesApart
  <1> QED BY <1>5, <1>6, <1>7, <1>8

-----------------------------------------------------------------------------
(***************************************************************************)
(* A reduced graph without an inverse line graph has the order no          *)
(* composition has.                                                        *)
(***************************************************************************)
LEMMA FourElements ==
    ASSUME NEW a, NEW b, NEW c, NEW d, a # b, a # c, a # d, b # c, b # d, c # d
    PROVE  Cardinality({a, b, c, d}) = 4
  <1>1. IsFiniteSet({a}) /\ Cardinality({a}) = 1
    BY FS_Singleton
  <1>2. IsFiniteSet({a} \cup {b}) /\ Cardinality({a} \cup {b}) = 2
    BY <1>1, FS_AddElement
  <1>3. IsFiniteSet(({a} \cup {b}) \cup {c}) /\ Cardinality(({a} \cup {b}) \cup {c}) = 3
    BY <1>2, FS_AddElement
  <1>4. Cardinality((({a} \cup {b}) \cup {c}) \cup {d}) = 4
    BY <1>3, FS_AddElement
  <1>5. (({a} \cup {b}) \cup {c}) \cup {d} = {a, b, c, d}
    OBVIOUS
  <1> QED BY <1>4, <1>5

\* Three related pairs among four layers, the other pairs unrelated, are an N.
LEMMA MakesN ==
    ASSUME NEW pos, IsRanked(graph, pos), NEW a, NEW b, NEW c, NEW d,
           <<a, c>> \in Closure(graph), <<b, c>> \in Closure(graph), <<b, d>> \in Closure(graph),
           <<a, b>> \notin Closure(graph), <<b, a>> \notin Closure(graph),
           <<c, d>> \notin Closure(graph), <<d, c>> \notin Closure(graph),
           <<a, d>> \notin Closure(graph), <<d, a>> \notin Closure(graph)
    PROVE  HasN
  <1> DEFINE C == Closure(graph)
  <1>1. \A x, y, z : <<x, y>> \in C /\ <<y, z>> \in C => <<x, z>> \in C
    BY ClosureFacts DEF IsTransitive, IsRanked
  <1>2. \A x : <<x, x>> \notin C
    BY ClosureIsRanked
  <1>3. \A x, y : <<x, y>> \in C => x \in graph.nodes /\ y \in graph.nodes
    BY ClosureFacts DEF IsRanked, Pairs
  <1>4. C = Closure(graph)
    OBVIOUS
  <1> HIDE DEF C
  <1>5. a # b /\ a # c /\ a # d /\ b # c /\ b # d /\ c # d
    BY <1>2, <1>4
  <1>6. Cardinality({a, b, c, d}) = 4
    BY <1>5, FourElements
  <1>7. <<c, a>> \notin C /\ <<c, b>> \notin C /\ <<d, b>> \notin C
    BY <1>1, <1>2, <1>4
  <1>8. ASSUME NEW x \in {a, b, c, d}, NEW y \in {a, b, c, d}
        PROVE  <<x, y>> \in C <=> <<x, y>> \in {<<a, c>>, <<b, c>>, <<b, d>>}
    BY <1>2, <1>4, <1>5, <1>7
  <1>9. {p \in {a, b, c, d} \X {a, b, c, d} : p \in C} = {<<a, c>>, <<b, c>>, <<b, d>>}
    <2>1. \A p \in {a, b, c, d} \X {a, b, c, d} : p = <<p[1], p[2]>>
      OBVIOUS
    <2> QED BY <1>8, <2>1
  <1>10. a \in graph.nodes /\ b \in graph.nodes /\ c \in graph.nodes /\ d \in graph.nodes
    BY <1>3, <1>4
  <1>11. {p \in {a, b, c, d} \X {a, b, c, d} : p \in Closure(graph)}
             = {<<a, c>>, <<b, c>>, <<b, d>>}
    BY <1>4, <1>9
  <1> DEFINE P(w, x, y, z) ==
                /\ Cardinality({w, x, y, z}) = 4
                /\ {p \in {w, x, y, z} \X {w, x, y, z} : p \in Closure(graph)}
                      = {<<w, y>>, <<x, y>>, <<x, z>>}
  <1>12. P(a, b, c, d)
    BY ONLY <1>6, <1>11
  <1>13. HasN <=> \E w, x, y, z \in graph.nodes : P(w, x, y, z)
    BY DEF HasN
  <1> HIDE DEF P
  <1> QED BY <1>10, <1>12, <1>13

\* Three covers in a zigzag whose ends are no cover lead to an N.
LEMMA ZMakesN ==
    ASSUME NEW pos, IsRanked(graph, pos), NEW p, NEW q, NEW r, NEW s,
           <<p, r>> \in Covers(graph), <<q, r>> \in Covers(graph), <<q, s>> \in Covers(graph),
           <<p, s>> \notin Covers(graph)
    PROVE  HasN
  <1> DEFINE C == Closure(graph)
  <1>1. \A x, y, z : <<x, y>> \in C /\ <<y, z>> \in C => <<x, z>> \in C
    BY ClosureFacts DEF IsTransitive, IsRanked
  <1>2. \A x : <<x, x>> \notin C
    BY ClosureIsRanked
  <1>3. \A x, y, z : <<x, y>> \in Covers(graph) => ~(<<x, z>> \in C /\ <<z, y>> \in C)
    <2>1. \A x, z : <<x, z>> \in C => z \in graph.nodes
      BY ClosureFacts DEF IsRanked, Pairs
    <2> QED BY <2>1 DEF Covers, Between
  <1>4. <<p, r>> \in C /\ <<q, r>> \in C /\ <<q, s>> \in C
    BY DEF Covers
  <1>5. CASE <<p, s>> \notin C
    <2>1. /\ <<p, q>> \notin C /\ <<q, p>> \notin C /\ <<r, s>> \notin C /\ <<s, r>> \notin C
          /\ <<s, p>> \notin C
      BY <1>1, <1>3, <1>4
    <2> QED BY <1>4, <1>5, <2>1, MakesN
  <1>6. CASE <<p, s>> \in C
    <2>1. PICK z : <<p, z>> \in C /\ <<z, s>> \in C
      BY <1>6 DEF Covers, Between
    <2>2. /\ <<z, q>> \notin C /\ <<q, z>> \notin C /\ <<r, s>> \notin C /\ <<s, r>> \notin C
          /\ <<z, r>> \notin C /\ <<r, z>> \notin C
      BY <1>1, <1>3, <1>4, <2>1
    <2> QED BY <1>4, <2>1, <2>2, MakesN
  <1> QED BY <1>5, <1>6

\* A reduction that is no line graph holds an N: the early nullopt of
\* get_series_parallel_decomposition is right.
LEMMA NoLineGraphOnlyWithN ==
    ASSUME NEW pos, IsRanked(graph, pos), ~HasCbcDecomposition(transitive_reduction(graph))
    PROVE  HasN
  <1> DEFINE C == Closure(graph)
             h == transitive_reduction(graph)
  <1>1. h.nodes = graph.nodes /\ h.edges = Covers(graph)
    BY ReductionFacts
  <1>2. \A x, y : <<x, y>> \in h.edges => x \in graph.nodes /\ y \in graph.nodes /\ <<x, y>> \in C
    BY <1>1, ClosureFacts DEF Covers, Pairs, IsRanked
  <1>3. \A e \in h.edges : e = <<e[1], e[2]>>
    BY <1>1, ClosureFacts DEF Covers, Pairs, IsRanked
  <1>4. \A x, y, z : <<x, y>> \in C /\ <<y, z>> \in C => <<x, z>> \in C
    BY ClosureFacts DEF IsTransitive, IsRanked
  <1>5. \A x : <<x, x>> \notin C
    BY ClosureIsRanked
  <1>6. \A x, y, z : <<x, y>> \in h.edges => ~(<<x, z>> \in C /\ <<z, y>> \in C)
    <2>1. \A x, z : <<x, z>> \in C => z \in graph.nodes
      BY ClosureFacts DEF IsRanked, Pairs
    <2> QED BY <1>1, <2>1 DEF Covers, Between
  <1> SUFFICES ASSUME ~HasN PROVE FALSE
    OBVIOUS
  <1>7. \A p, q, r, s : /\ <<p, r>> \in h.edges /\ <<q, r>> \in h.edges /\ <<q, s>> \in h.edges
                       => <<p, s>> \in h.edges
    BY <1>1, ZMakesN
  <1>8. PICK e \in h.edges : ~IsCompleteBipartite(h, Component(h, e))
    BY DEF HasCbcDecomposition, Components
  <1> DEFINE x == e[1]
             y == e[2]
             c == Component(h, e)
  <1>9. <<x, y>> \in h.edges
    BY <1>3
  <1>10. /\ \A n : n \in c.head <=> <<n, y>> \in h.edges
         /\ \A n : n \in c.tail <=> <<x, n>> \in h.edges
    BY <1>1, <1>2 DEF Component, Preds, Succs
  <1> HIDE DEF x, y, c, C, h
  <1>11. c.head \cap c.tail = {}
    BY <1>2, <1>6, <1>9, <1>10
  <1>12. ASSUME NEW m \in c.head, NEW n \in c.tail PROVE <<m, n>> \in h.edges
    BY <1>7, <1>9, <1>10
  <1>13. ASSUME NEW m, NEW n, <<m, n>> \in h.edges PROVE m \in c.head <=> n \in c.tail
    BY <1>7, <1>9, <1>10, <1>13
  <1>14. ASSUME NEW m \in c.head \cup c.tail, NEW n \in c.head \cup c.tail, <<m, n>> \in h.edges
         PROVE  m \in c.head /\ n \in c.tail
    <2>1. \/ m \in c.head /\ n \in c.tail
          \/ m \in c.tail /\ n \in c.head
      BY <1>13, <1>14
    <2>2. ASSUME m \in c.tail, n \in c.head PROVE FALSE
      <3>1. <<x, m>> \in C /\ <<m, n>> \in C /\ <<n, y>> \in C
        BY <1>2, <1>10, <1>14, <2>2
      <3>2. <<m, y>> \in C
        BY <1>4, <3>1
      <3> QED BY <1>6, <1>9, <3>1, <3>2
    <2> QED BY <2>1, <2>2
  <1>15. h.edges \cap ((c.head \cup c.tail) \X (c.head \cup c.tail)) = c.head \X c.tail
    <2> DEFINE S == c.head \cup c.tail
    <2>1. ASSUME NEW d \in h.edges \cap (S \X S) PROVE d \in c.head \X c.tail
      <3>1. d = <<d[1], d[2]>> /\ d[1] \in S /\ d[2] \in S /\ d \in h.edges
        OBVIOUS
      <3> HIDE DEF S
      <3>2. d[1] \in c.head /\ d[2] \in c.tail
        BY <1>14, <3>1 DEF S
      <3> QED BY <3>1, <3>2
    <2>2. ASSUME NEW d \in c.head \X c.tail PROVE d \in h.edges \cap (S \X S)
      <3>1. d = <<d[1], d[2]>> /\ d[1] \in c.head /\ d[2] \in c.tail
        OBVIOUS
      <3>2. d \in h.edges
        BY <1>12, <3>1
      <3> QED BY <3>1, <3>2
    <2> QED BY <2>1, <2>2
  <1>16. IsCompleteBipartite(h, c)
    BY <1>3, <1>11, <1>13, <1>15 DEF IsCompleteBipartite
  <1> QED BY <1>8, <1>16 DEF c

-----------------------------------------------------------------------------
(***************************************************************************)
(* The meaning of trees.                                                   *)
(***************************************************************************)
Below(f, d) == IF d = 0 THEN <<>> ELSE f[d - 1]
IsPoset(f, n) == f = [d \in 0..n |-> f[d]] /\ \A d \in 0..n : f[d] = Meaning(Below(f, d))

\* The meanings of trees exist up to any depth.
LEMMA PosetUpTo ==
    ASSUME NEW n \in Nat
    PROVE  \E f : IsPoset(f, n)
  <1> DEFINE Good == {m \in Nat : \E f : IsPoset(f, m)}
  <1>1. 0 \in Good
    <2> DEFINE f == [d \in 0..0 |-> Meaning(<<>>)]
    <2>1. f = [d \in 0..0 |-> f[d]] /\ \A d \in 0..0 : f[d] = Meaning(<<>>) /\ d = 0
      OBVIOUS
    <2> HIDE DEF f
    <2>2. IsPoset(f, 0)
      BY <2>1 DEF IsPoset, Below
    <2> QED BY <2>2
  <1>2. ASSUME NEW m \in 1..n, m - 1 \in Good
        PROVE  m \in Good
    <2>1. PICK f : IsPoset(f, m - 1)
      BY <1>2
    <2>2. m \in Nat /\ m # 0 /\ m - 1 \in 0..(m - 1)
      BY <1>2
    <2> DEFINE g == [d \in 0..m |-> IF d = m THEN Meaning(f[m - 1]) ELSE f[d]]
    <2>3. \A d \in 0..m : g[d] = IF d = m THEN Meaning(f[m - 1]) ELSE f[d]
      OBVIOUS
    <2>4. g = [d \in 0..m |-> g[d]]
      OBVIOUS
    <2> HIDE DEF g
    <2>5. ASSUME NEW d \in 0..m PROVE g[d] = Meaning(Below(g, d))
      <3>1. d # 0 => d - 1 \in 0..m /\ d - 1 # m /\ g[d - 1] = f[d - 1]
        <4>1. d # 0 => d - 1 \in 0..m /\ d - 1 # m
          BY <2>2
        <4> QED BY <2>3, <4>1
      <3>2. Below(g, d) = Below(f, d)
        BY <3>1 DEF Below
      <3>3. CASE d = m
        BY <2>2, <2>3, <3>2, <3>3 DEF Below
      <3>4. CASE d # m
        <4>1. d \in 0..(m - 1)
          BY <2>2, <3>4
        <4>2. f[d] = Meaning(Below(f, d))
          BY <2>1, <4>1 DEF IsPoset
        <4> QED BY <2>3, <3>2, <3>4, <4>2
      <3> QED BY <3>3, <3>4
    <2>6. IsPoset(g, m)
      BY <2>4, <2>5 DEF IsPoset
    <2> QED BY <2>2, <2>6
  <1>3. \A k \in 0..n : k \in Good
    <2> HIDE DEF Good
    <2> QED BY <1>1, <1>2, UpTo
  <1>4. n \in Good
    BY <1>3
  <1> QED BY <1>4

\* They do not depend on how deep they are computed.
LEMMA PosetsAgree ==
    ASSUME NEW n \in Nat, NEW m \in Nat, NEW f, NEW g, IsPoset(f, n), IsPoset(g, m), m <= n
    PROVE  \A d \in 0..m : f[d] = g[d]
  <1> DEFINE S == {d \in 0..m : f[d] = g[d]}
  <1>1. ASSUME NEW d \in 0..m, d # 0 => f[d - 1] = g[d - 1]
        PROVE  f[d] = g[d]
    <2>1. d \in 0..n
      OBVIOUS
    <2>2. f[d] = Meaning(Below(f, d)) /\ g[d] = Meaning(Below(g, d))
      BY <2>1 DEF IsPoset
    <2>3. Below(f, d) = Below(g, d)
      BY <1>1 DEF Below
    <2> QED BY <2>2, <2>3
  <1>2. 0 \in S
    <2>1. 0 \in 0..m
      OBVIOUS
    <2> QED BY <1>1, <2>1
  <1>3. ASSUME NEW d \in 1..m, d - 1 \in S PROVE d \in S
    BY <1>1, <1>3
  <1>4. \A d \in 0..m : d \in S
    <2> HIDE DEF S
    <2> QED BY <1>2, <1>3, UpTo
  <1> QED BY <1>4

\* The recursive definition of Poset has the function it asks for.
LEMMA PosetUnfolds ==
    ASSUME NEW d \in Nat
    PROVE  Poset[d] = Meaning(Below(Poset, d))
  <1> DEFINE p(n) == CHOOSE f : IsPoset(f, n)
             h == [n \in Nat |-> p(n)[n]]
  <1>1. \A n \in Nat : IsPoset(p(n), n)
    BY PosetUpTo
  <1> HIDE DEF p
  <1>2. ASSUME NEW n \in Nat PROVE h[n] = Meaning(Below(h, n))
    <2>1. h[n] = p(n)[n] /\ p(n)[n] = Meaning(Below(p(n), n))
      BY <1>1 DEF IsPoset
    <2>2. n # 0 => h[n - 1] = p(n)[n - 1]
      <3> SUFFICES ASSUME n # 0 PROVE h[n - 1] = p(n)[n - 1]
        OBVIOUS
      <3>1. n - 1 \in Nat /\ n - 1 <= n /\ n - 1 \in 0..(n - 1)
        OBVIOUS
      <3>2. p(n)[n - 1] = p(n - 1)[n - 1]
        BY <1>1, <3>1, PosetsAgree
      <3> QED BY <3>1, <3>2
    <2>3. Below(h, n) = Below(p(n), n)
      BY <2>2 DEF Below
    <2> QED BY <2>1, <2>3
  <1>3. h = [n \in Nat |-> h[n]]
    OBVIOUS
  <1> HIDE DEF h
  <1>4. h = [n \in Nat |-> Meaning(IF n = 0 THEN <<>> ELSE h[n - 1])]
    <2>1. \A n \in Nat : h[n] = Meaning(IF n = 0 THEN <<>> ELSE h[n - 1])
      BY <1>2 DEF Below
    <2> QED BY <1>3, <2>1, Zenon
  <1>5. Poset = [n \in Nat |-> Meaning(IF n = 0 THEN <<>> ELSE Poset[n - 1])]
    BY <1>4, Zenon DEF Poset
  <1>6. Poset[d] = Meaning(IF d = 0 THEN <<>> ELSE Poset[d - 1])
    BY <1>5, Zenon
  <1> QED BY <1>6 DEF Below

\* The three kinds of trees, and their meaning in terms of those of their parts.
LEMMA MeaningFacts ==
    ASSUME NEW sub
    PROVE  /\ \A n \in Nat : /\ [leaf |-> n] \in DOMAIN Meaning(sub)
                             /\ Meaning(sub)[[leaf |-> n]] = [layers |-> {n}, order |-> {}, twice |-> {}]
                             /\ ~IsSeries([leaf |-> n]) /\ ~IsParallel([leaf |-> n])
           /\ \A s \in Seq(DOMAIN sub) :
                 /\ [series |-> s] \in DOMAIN Meaning(sub)
                 /\ Meaning(sub)[[series |-> s]] = InSeries([i \in DOMAIN s |-> sub[s[i]]])
                 /\ IsSeries([series |-> s]) /\ ~IsParallel([series |-> s])
           /\ \A S \in SUBSET DOMAIN sub :
                 /\ [parallel |-> S] \in DOMAIN Meaning(sub)
                 /\ Meaning(sub)[[parallel |-> S]] = InParallel([c \in S |-> sub[c]])
                 /\ ~IsSeries([parallel |-> S]) /\ IsParallel([parallel |-> S])
           /\ \A t \in DOMAIN Meaning(sub) :
                 \/ \E n \in Nat : t = [leaf |-> n]
                 \/ \E s \in Seq(DOMAIN sub) : t = [series |-> s]
                 \/ \E S \in SUBSET DOMAIN sub : t = [parallel |-> S]
  <1> DEFINE D == [leaf : Nat] \cup [series : Seq(DOMAIN sub)] \cup [parallel : SUBSET DOMAIN sub]
             V(t) == IF IsSeries(t) THEN InSeries([i \in DOMAIN t.series |-> sub[t.series[i]]])
                     ELSE IF IsParallel(t) THEN InParallel([c \in t.parallel |-> sub[c]])
                     ELSE [layers |-> {t.leaf}, order |-> {}, twice |-> {}]
  <1>1. Meaning(sub) = [t \in D |-> V(t)]
    BY Zenon DEF Meaning
  <1> HIDE DEF V
  <1>2. DOMAIN Meaning(sub) = D /\ \A t \in D : Meaning(sub)[t] = V(t)
    BY <1>1
  <1>3. /\ \A n : ~IsSeries([leaf |-> n]) /\ ~IsParallel([leaf |-> n])
        /\ \A s : IsSeries([series |-> s]) /\ ~IsParallel([series |-> s])
        /\ \A S : ~IsSeries([parallel |-> S]) /\ IsParallel([parallel |-> S])
    BY DEF IsSeries, IsParallel
  <1>4. ASSUME NEW n \in Nat
        PROVE  [leaf |-> n] \in D /\ V([leaf |-> n]) = [layers |-> {n}, order |-> {}, twice |-> {}]
    BY <1>3 DEF V
  <1>5. ASSUME NEW s \in Seq(DOMAIN sub)
        PROVE  [series |-> s] \in D /\ V([series |-> s]) = InSeries([i \in DOMAIN s |-> sub[s[i]]])
    BY <1>3 DEF V
  <1>6. ASSUME NEW S \in SUBSET DOMAIN sub
        PROVE  [parallel |-> S] \in D /\ V([parallel |-> S]) = InParallel([c \in S |-> sub[c]])
    BY <1>3 DEF V
  <1>7. ASSUME NEW t \in D
        PROVE  \/ \E n \in Nat : t = [leaf |-> n]
               \/ \E s \in Seq(DOMAIN sub) : t = [series |-> s]
               \/ \E S \in SUBSET DOMAIN sub : t = [parallel |-> S]
    OBVIOUS
  <1> HIDE DEF D
  <1> QED BY <1>2, <1>3, <1>4, <1>5, <1>6, <1>7

-----------------------------------------------------------------------------
(***************************************************************************)
(* Compositions of trees mean compositions of orders.                      *)
(***************************************************************************)
Extends(f, g) == DOMAIN f \subseteq DOMAIN g /\ \A t \in DOMAIN f : g[t] = f[t]

\* What more trees have a meaning, more compositions have one, and the old ones
\* keep theirs.
LEMMA MeaningExtends ==
    ASSUME NEW f, NEW g, Extends(f, g)
    PROVE  Extends(Meaning(f), Meaning(g))
  <1> SUFFICES ASSUME NEW t \in DOMAIN Meaning(f)
               PROVE  t \in DOMAIN Meaning(g) /\ Meaning(g)[t] = Meaning(f)[t]
    BY DEF Extends
  <1>1. CASE \E n \in Nat : t = [leaf |-> n]
    <2>1. PICK n \in Nat : t = [leaf |-> n]
      BY <1>1
    <2>2. /\ Meaning(f)[t] = [layers |-> {n}, order |-> {}, twice |-> {}]
          /\ t \in DOMAIN Meaning(g)
          /\ Meaning(g)[t] = [layers |-> {n}, order |-> {}, twice |-> {}]
      BY <2>1, MeaningFacts, SMTT(30)
    <2> QED BY <2>2
  <1>2. CASE \E s \in Seq(DOMAIN f) : t = [series |-> s]
    <2>1. PICK s \in Seq(DOMAIN f) : t = [series |-> s]
      BY <1>2
    <2>2. s \in Seq(DOMAIN g)
      BY SeqMonotonic DEF Extends
    <2>3. \A i \in DOMAIN s : f[s[i]] = g[s[i]]
      BY ElementOfSeq, LenProperties DEF Extends
    <2>4. [i \in DOMAIN s |-> f[s[i]]] = [i \in DOMAIN s |-> g[s[i]]]
      BY <2>3
    <2>5. Meaning(f)[t] = InSeries([i \in DOMAIN s |-> f[s[i]]])
      BY <2>1, MeaningFacts, SMTT(30)
    <2>6. t \in DOMAIN Meaning(g) /\ Meaning(g)[t] = InSeries([i \in DOMAIN s |-> g[s[i]]])
      BY <2>1, <2>2, MeaningFacts, SMTT(30)
    <2> QED BY <2>4, <2>5, <2>6
  <1>3. CASE \E S \in SUBSET DOMAIN f : t = [parallel |-> S]
    <2>1. PICK S \in SUBSET DOMAIN f : t = [parallel |-> S]
      BY <1>3
    <2>2. S \in SUBSET DOMAIN g /\ \A c \in S : f[c] = g[c]
      BY DEF Extends
    <2>3. [c \in S |-> f[c]] = [c \in S |-> g[c]]
      BY <2>2
    <2>4. Meaning(f)[t] = InParallel([c \in S |-> f[c]])
      BY <2>1, MeaningFacts, SMTT(30)
    <2>5. t \in DOMAIN Meaning(g) /\ Meaning(g)[t] = InParallel([c \in S |-> g[c]])
      BY <2>1, <2>2, MeaningFacts, SMTT(30)
    <2> QED BY <2>3, <2>4, <2>5
  <1> QED BY <1>1, <1>2, <1>3, MeaningFacts

\* A tree means the same at every depth that holds it.
LEMMA PosetGrows ==
    ASSUME NEW d \in Nat, NEW e \in Nat, d <= e
    PROVE  Extends(Poset[d], Poset[e])
  <1>1. \A k \in Nat : Extends(Below(Poset, k), Below(Poset, k + 1)) => Extends(Poset[k], Poset[k + 1])
    BY PosetUnfolds, MeaningExtends
  <1>2. \A k \in Nat : Extends(Poset[k], Poset[k + 1])
    <2> SUFFICES ASSUME NEW n \in Nat PROVE Extends(Poset[n], Poset[n + 1])
      OBVIOUS
    <2> DEFINE S == {k \in 0..n : Extends(Poset[k], Poset[k + 1])}
    <2>1. 0 \in S
      <3>1. Below(Poset, 0) = <<>> /\ DOMAIN <<>> = {}
        BY DEF Below
      <3>2. Extends(Below(Poset, 0), Below(Poset, 0 + 1))
        BY <3>1 DEF Extends
      <3>3. Extends(Poset[0], Poset[0 + 1])
        BY <1>1, <3>2
      <3> QED BY <3>3
    <2>2. ASSUME NEW k \in 1..n, k - 1 \in S PROVE k \in S
      <3>1. k \in Nat /\ k # 0 /\ k + 1 # 0 /\ (k + 1) - 1 = k /\ (k - 1) + 1 = k
        OBVIOUS
      <3>2. Below(Poset, k) = Poset[k - 1] /\ Below(Poset, k + 1) = Poset[k]
        BY <3>1 DEF Below
      <3>3. Extends(Poset[k - 1], Poset[k])
        BY <2>2, <3>1
      <3> QED BY <1>1, <3>1, <3>2, <3>3
    <2>3. \A k \in 0..n : k \in S
      <3> HIDE DEF S
      <3> QED BY <2>1, <2>2, UpTo
    <2> QED BY <2>3
  <1> DEFINE S == {k \in 0..(e - d) : Extends(Poset[d], Poset[d + k])}
  <1>3. 0 \in S
    BY DEF Extends
  <1>4. ASSUME NEW k \in 1..(e - d), k - 1 \in S PROVE k \in S
    <2>1. d + (k - 1) \in Nat /\ (d + (k - 1)) + 1 = d + k
      OBVIOUS
    <2>2. Extends(Poset[d + (k - 1)], Poset[d + k])
      BY <1>2, <2>1
    <2>3. Extends(Poset[d], Poset[d + (k - 1)])
      BY <1>4
    <2> QED BY <2>2, <2>3 DEF Extends
  <1>5. e - d \in Nat /\ \A k \in 0..(e - d) : k \in S
    <2>1. e - d \in Nat
      OBVIOUS
    <2> HIDE DEF S
    <2> QED BY <1>3, <1>4, <2>1, UpTo
  <1>6. e - d \in S /\ d + (e - d) = e
    BY <1>5
  <1> QED BY <1>6

\* A parallel split, field by field.
LEMMA ParallelMeans ==
    ASSUME NEW ps
    PROVE  /\ \A x : x \in InParallel(ps).layers <=> \E i \in DOMAIN ps : x \in ps[i].layers
           /\ \A x : x \in InParallel(ps).order <=> \E i \in DOMAIN ps : x \in ps[i].order
           /\ \A x : x \in InParallel(ps).twice <=>
                        \/ \E i \in DOMAIN ps : x \in ps[i].twice
                        \/ \E i, j \in DOMAIN ps : i # j /\ x \in ps[i].layers /\ x \in ps[j].layers
           /\ InParallel(ps) = [layers |-> InParallel(ps).layers, order |-> InParallel(ps).order,
                                twice |-> InParallel(ps).twice]
  <1> DEFINE D == {q \in (DOMAIN ps) \X (DOMAIN ps) : q[1] # q[2]}
             X == UNION {ps[p[1]].layers \cap ps[p[2]].layers : p \in D}
  <1>1. ASSUME NEW x
        PROVE  x \in X <=> \E i, j \in DOMAIN ps : i # j /\ x \in ps[i].layers /\ x \in ps[j].layers
    <2>1. ASSUME NEW i \in DOMAIN ps, NEW j \in DOMAIN ps, i # j,
                 x \in ps[i].layers, x \in ps[j].layers
          PROVE  x \in X
      <3>1. <<i, j>> \in D
        BY <2>1
      <3>2. <<i, j>>[1] = i /\ <<i, j>>[2] = j
        OBVIOUS
      <3> HIDE DEF D
      <3> QED BY <2>1, <3>1, <3>2
    <2>2. ASSUME x \in X
          PROVE  \E i, j \in DOMAIN ps : i # j /\ x \in ps[i].layers /\ x \in ps[j].layers
      <3>1. PICK p \in D : x \in ps[p[1]].layers \cap ps[p[2]].layers
        BY <2>2
      <3> QED BY <3>1
    <2> QED BY <2>1, <2>2
  <1> DEFINE A == UNION {ps[i].layers : i \in DOMAIN ps}
             B == UNION {ps[i].order : i \in DOMAIN ps}
             E == UNION {ps[i].twice : i \in DOMAIN ps}
  <1>3. /\ \A x : x \in A <=> \E i \in DOMAIN ps : x \in ps[i].layers
        /\ \A x : x \in B <=> \E i \in DOMAIN ps : x \in ps[i].order
        /\ \A x : x \in E <=> \E i \in DOMAIN ps : x \in ps[i].twice
    OBVIOUS
  <1>4. InParallel(ps) = [layers |-> A, order |-> B, twice |-> E \cup X]
    BY Zenon DEF InParallel
  <1> HIDE DEF X, A, B, E
  <1>5. /\ InParallel(ps).layers = A /\ InParallel(ps).order = B
        /\ InParallel(ps).twice = E \cup X
    BY <1>4
  <1> QED BY <1>1, <1>3, <1>4, <1>5

\* A series split, field by field.
LEMMA SeriesMeans ==
    ASSUME NEW ps
    PROVE  /\ \A x : x \in InSeries(ps).layers <=> \E i \in DOMAIN ps : x \in ps[i].layers
           /\ \A x : x \in InSeries(ps).order <=>
                        \/ \E i \in DOMAIN ps : x \in ps[i].order
                        \/ \E i, j \in DOMAIN ps : i < j /\ x \in ps[i].layers \X ps[j].layers
           /\ \A x : x \in InSeries(ps).twice <=>
                        \/ \E i \in DOMAIN ps : x \in ps[i].twice
                        \/ \E i, j \in DOMAIN ps : i # j /\ x \in ps[i].layers /\ x \in ps[j].layers
           /\ InSeries(ps) = [layers |-> InSeries(ps).layers, order |-> InSeries(ps).order,
                              twice |-> InSeries(ps).twice]
  <1> DEFINE D == {q \in (DOMAIN ps) \X (DOMAIN ps) : q[1] < q[2]}
             X == UNION {ps[p[1]].layers \X ps[p[2]].layers : p \in D}
             Q == InParallel(ps)
  <1>1. ASSUME NEW x
        PROVE  x \in X <=> \E i, j \in DOMAIN ps : i < j /\ x \in ps[i].layers \X ps[j].layers
    <2>1. ASSUME NEW i \in DOMAIN ps, NEW j \in DOMAIN ps, i < j,
                 x \in ps[i].layers \X ps[j].layers
          PROVE  x \in X
      <3>1. <<i, j>> \in D
        BY <2>1
      <3>2. <<i, j>>[1] = i /\ <<i, j>>[2] = j
        OBVIOUS
      <3> HIDE DEF D
      <3> QED BY <2>1, <3>1, <3>2
    <2>2. ASSUME x \in X
          PROVE  \E i, j \in DOMAIN ps : i < j /\ x \in ps[i].layers \X ps[j].layers
      <3>1. PICK p \in D : x \in ps[p[1]].layers \X ps[p[2]].layers
        BY <2>2
      <3> QED BY <3>1
    <2> QED BY <2>1, <2>2
  <1>2. InSeries(ps) = [Q EXCEPT !.order = @ \cup X]
    BY DEF InSeries
  <1>3. Q = [layers |-> Q.layers, order |-> Q.order, twice |-> Q.twice]
    BY ParallelMeans
  <1> HIDE DEF X, Q
  <1>4. InSeries(ps) = [layers |-> Q.layers, order |-> Q.order \cup X, twice |-> Q.twice]
    BY <1>2, <1>3
  <1>5. /\ InSeries(ps).layers = Q.layers /\ InSeries(ps).order = Q.order \cup X
        /\ InSeries(ps).twice = Q.twice
        /\ InSeries(ps) = [layers |-> InSeries(ps).layers, order |-> InSeries(ps).order,
                           twice |-> InSeries(ps).twice]
    BY <1>4
  <1>6. /\ \A x : x \in Q.layers <=> \E i \in DOMAIN ps : x \in ps[i].layers
        /\ \A x : x \in Q.order <=> \E i \in DOMAIN ps : x \in ps[i].order
        /\ \A x : x \in Q.twice <=>
                    \/ \E i \in DOMAIN ps : x \in ps[i].twice
                    \/ \E i, j \in DOMAIN ps : i # j /\ x \in ps[i].layers /\ x \in ps[j].layers
    BY ParallelMeans DEF Q
  <1> QED BY <1>1, <1>5, <1>6

Then(a, b) == [layers |-> a.layers \cup b.layers,
               order |-> a.order \cup b.order \cup (a.layers \X b.layers),
               twice |-> a.twice \cup b.twice \cup (a.layers \cap b.layers)]

\* A series of two series is the one after the other.
LEMMA SeriesSplits ==
    ASSUME NEW m \in Nat, NEW n \in Nat, NEW p, NEW q, NEW r,
           DOMAIN p = 1..m, DOMAIN q = 1..n, DOMAIN r = 1..(m + n),
           \A i \in 1..(m + n) : r[i] = IF i <= m THEN p[i] ELSE q[i - m]
    PROVE  InSeries(r) = Then(InSeries(p), InSeries(q))
  <1>0. /\ \A i \in 1..m : i \in 1..(m + n) /\ i <= m
        /\ \A j \in 1..n : m + j \in 1..(m + n) /\ ~(m + j <= m) /\ (m + j) - m = j
        /\ \A i \in 1..(m + n) : \/ i \in 1..m
                                 \/ i > m /\ ~(i <= m) /\ i - m \in 1..n /\ i = m + (i - m)
    OBVIOUS
  <1>1. /\ \A i \in 1..m : i \in 1..(m + n) /\ r[i] = p[i]
        /\ \A j \in 1..n : m + j \in 1..(m + n) /\ r[m + j] = q[j]
        /\ \A i \in 1..(m + n) : \/ i \in 1..m /\ r[i] = p[i]
                                 \/ i > m /\ i - m \in 1..n /\ r[i] = q[i - m] /\ i = m + (i - m)
    BY <1>0
  <1>2. /\ \A i \in 1..m, j \in 1..n : i < m + j /\ i # m + j
        /\ \A i \in 1..n, j \in 1..n : (i < j <=> m + i < m + j) /\ (i # j <=> m + i # m + j)
    OBVIOUS
  <1>3. ASSUME NEW x PROVE x \in InSeries(r).layers <=> x \in Then(InSeries(p), InSeries(q)).layers
    <2>1. (\E i \in 1..(m + n) : x \in r[i].layers)
             <=> (\E i \in 1..m : x \in p[i].layers) \/ (\E i \in 1..n : x \in q[i].layers)
      BY <1>1
    <2> QED BY <2>1, SeriesMeans DEF Then
  <1>4. ASSUME NEW x PROVE x \in InSeries(r).order <=> x \in Then(InSeries(p), InSeries(q)).order
    <2>1. (\E i \in 1..(m + n) : x \in r[i].order)
             <=> (\E i \in 1..m : x \in p[i].order) \/ (\E i \in 1..n : x \in q[i].order)
      BY <1>1
    <2> DEFINE Over(f, k) == \E i, j \in 1..k : i < j /\ x \in f[i].layers \X f[j].layers
               Between2 == \E i \in 1..m, j \in 1..n : x \in p[i].layers \X q[j].layers
    <2>2. Over(r, m + n) => Over(p, m) \/ Over(q, n) \/ Between2
      <3> SUFFICES ASSUME NEW i \in 1..(m + n), NEW j \in 1..(m + n), i < j,
                          x \in r[i].layers \X r[j].layers
                   PROVE  Over(p, m) \/ Over(q, n) \/ Between2
        OBVIOUS
      <3>1. CASE j \in 1..m
        <4>1. i \in 1..m /\ r[i] = p[i] /\ r[j] = p[j]
          BY <1>1, <3>1
        <4> QED BY <3>1, <4>1
      <3>2. CASE i \in 1..m /\ j \notin 1..m
        <4>1. j - m \in 1..n /\ r[i] = p[i] /\ r[j] = q[j - m]
          BY <1>1, <3>2
        <4> QED BY <3>2, <4>1
      <3>3. CASE i \notin 1..m
        <4>1. i - m \in 1..n /\ j - m \in 1..n /\ i - m < j - m /\ r[i] = q[i - m] /\ r[j] = q[j - m]
          BY <1>1, <3>3
        <4> QED BY <4>1
      <3> QED BY <3>1, <3>2, <3>3
    <2>3. Over(p, m) => Over(r, m + n)
      BY <1>1
    <2>4. Over(q, n) => Over(r, m + n)
      <3> SUFFICES ASSUME NEW i \in 1..n, NEW j \in 1..n, i < j, x \in q[i].layers \X q[j].layers
                   PROVE  Over(r, m + n)
        OBVIOUS
      <3>1. m + i \in 1..(m + n) /\ m + j \in 1..(m + n) /\ m + i < m + j
        OBVIOUS
      <3>2. r[m + i] = q[i] /\ r[m + j] = q[j]
        BY <1>1
      <3> QED BY <3>1, <3>2
    <2>5. Between2 => Over(r, m + n)
      <3> SUFFICES ASSUME NEW i \in 1..m, NEW j \in 1..n, x \in p[i].layers \X q[j].layers
                   PROVE  Over(r, m + n)
        OBVIOUS
      <3>1. i \in 1..(m + n) /\ m + j \in 1..(m + n) /\ i < m + j
        OBVIOUS
      <3>2. r[i] = p[i] /\ r[m + j] = q[j]
        BY <1>1
      <3> QED BY <3>1, <3>2
    <2>6. Between2 <=> x \in InSeries(p).layers \X InSeries(q).layers
      <3>1. Between2 => x \in InSeries(p).layers \X InSeries(q).layers
        <4> SUFFICES ASSUME NEW i \in 1..m, NEW j \in 1..n, x \in p[i].layers \X q[j].layers
                     PROVE  x \in InSeries(p).layers \X InSeries(q).layers
          OBVIOUS
        <4>1. \A y : (y \in p[i].layers => y \in InSeries(p).layers)
                     /\ (y \in q[j].layers => y \in InSeries(q).layers)
          BY SeriesMeans
        <4> QED BY <4>1
      <3>2. x \in InSeries(p).layers \X InSeries(q).layers => Between2
        <4> SUFFICES ASSUME x \in InSeries(p).layers \X InSeries(q).layers PROVE Between2
          OBVIOUS
        <4>1. x = <<x[1], x[2]>> /\ x[1] \in InSeries(p).layers /\ x[2] \in InSeries(q).layers
          OBVIOUS
        <4>2. \E i \in 1..m : x[1] \in p[i].layers
          BY <4>1, SeriesMeans
        <4>3. \E j \in 1..n : x[2] \in q[j].layers
          BY <4>1, SeriesMeans
        <4> QED BY <4>1, <4>2, <4>3
      <3> QED BY <3>1, <3>2
    <2>7. (x \in InSeries(r).order <=> (\E i \in 1..(m + n) : x \in r[i].order) \/ Over(r, m + n))
      BY SeriesMeans
    <2>8. (x \in InSeries(p).order <=> (\E i \in 1..m : x \in p[i].order) \/ Over(p, m))
      BY SeriesMeans
    <2>9. (x \in InSeries(q).order <=> (\E i \in 1..n : x \in q[i].order) \/ Over(q, n))
      BY SeriesMeans
    <2>10. x \in Then(InSeries(p), InSeries(q)).order <=>
              x \in InSeries(p).order \/ x \in InSeries(q).order
              \/ x \in InSeries(p).layers \X InSeries(q).layers
      BY DEF Then
    <2> HIDE DEF Over, Between2
    <2> QED BY <2>1, <2>2, <2>3, <2>4, <2>5, <2>6, <2>7, <2>8, <2>9, <2>10
  <1>5. ASSUME NEW x PROVE x \in InSeries(r).twice <=> x \in Then(InSeries(p), InSeries(q)).twice
    <2>1. (\E i \in 1..(m + n) : x \in r[i].twice)
             <=> (\E i \in 1..m : x \in p[i].twice) \/ (\E i \in 1..n : x \in q[i].twice)
      BY <1>1
    <2> DEFINE Over(f, k) == \E i, j \in 1..k : i # j /\ x \in f[i].layers /\ x \in f[j].layers
               Both == \E i \in 1..m, j \in 1..n : x \in p[i].layers /\ x \in q[j].layers
    <2>2. Over(r, m + n) => Over(p, m) \/ Over(q, n) \/ Both
      <3> SUFFICES ASSUME NEW i \in 1..(m + n), NEW j \in 1..(m + n), i # j,
                          x \in r[i].layers, x \in r[j].layers
                   PROVE  Over(p, m) \/ Over(q, n) \/ Both
        OBVIOUS
      <3>1. CASE i \in 1..m /\ j \in 1..m
        BY <1>1, <3>1
      <3>2. CASE i \in 1..m /\ j \notin 1..m
        <4>1. j - m \in 1..n /\ r[i] = p[i] /\ r[j] = q[j - m]
          BY <1>1, <3>2
        <4> QED BY <3>2, <4>1
      <3>3. CASE i \notin 1..m /\ j \in 1..m
        <4>1. i - m \in 1..n /\ r[j] = p[j] /\ r[i] = q[i - m]
          BY <1>1, <3>3
        <4> QED BY <3>3, <4>1
      <3>4. CASE i \notin 1..m /\ j \notin 1..m
        <4>1. i - m \in 1..n /\ j - m \in 1..n /\ i - m # j - m /\ r[i] = q[i - m] /\ r[j] = q[j - m]
          BY <1>1, <3>4
        <4> QED BY <4>1
      <3> QED BY <3>1, <3>2, <3>3, <3>4
    <2>3. Over(p, m) => Over(r, m + n)
      BY <1>1
    <2>4. Over(q, n) => Over(r, m + n)
      <3> SUFFICES ASSUME NEW i \in 1..n, NEW j \in 1..n, i # j, x \in q[i].layers, x \in q[j].layers
                   PROVE  Over(r, m + n)
        OBVIOUS
      <3>1. m + i \in 1..(m + n) /\ m + j \in 1..(m + n) /\ m + i # m + j
        OBVIOUS
      <3>2. r[m + i] = q[i] /\ r[m + j] = q[j]
        BY <1>1
      <3> QED BY <3>1, <3>2
    <2>5. Both => Over(r, m + n)
      <3> SUFFICES ASSUME NEW i \in 1..m, NEW j \in 1..n, x \in p[i].layers, x \in q[j].layers
                   PROVE  Over(r, m + n)
        OBVIOUS
      <3>1. i \in 1..(m + n) /\ m + j \in 1..(m + n) /\ i # m + j
        OBVIOUS
      <3>2. r[i] = p[i] /\ r[m + j] = q[j]
        BY <1>1
      <3> QED BY <3>1, <3>2
    <2>6. Both <=> x \in InSeries(p).layers \cap InSeries(q).layers
      BY SeriesMeans
    <2>7. (x \in InSeries(r).twice <=> (\E i \in 1..(m + n) : x \in r[i].twice) \/ Over(r, m + n))
      BY SeriesMeans
    <2>8. (x \in InSeries(p).twice <=> (\E i \in 1..m : x \in p[i].twice) \/ Over(p, m))
      BY SeriesMeans
    <2>9. (x \in InSeries(q).twice <=> (\E i \in 1..n : x \in q[i].twice) \/ Over(q, n))
      BY SeriesMeans
    <2>10. x \in Then(InSeries(p), InSeries(q)).twice <=>
              x \in InSeries(p).twice \/ x \in InSeries(q).twice
              \/ x \in InSeries(p).layers \cap InSeries(q).layers
      BY DEF Then
    <2> HIDE DEF Over, Both
    <2> QED BY <2>1, <2>2, <2>3, <2>4, <2>5, <2>6, <2>7, <2>8, <2>9, <2>10
  <1> DEFINE T == Then(InSeries(p), InSeries(q))
  <1>6. T = [layers |-> T.layers, order |-> T.order, twice |-> T.twice]
    BY DEF Then
  <1> HIDE DEF T
  <1>7. InSeries(r) = [layers |-> InSeries(r).layers, order |-> InSeries(r).order,
                       twice |-> InSeries(r).twice]
    BY SeriesMeans
  <1>8. InSeries(r).layers = T.layers /\ InSeries(r).order = T.order /\ InSeries(r).twice = T.twice
    BY <1>3, <1>4, <1>5 DEF T
  <1>9. InSeries(r) = T
    BY <1>6, <1>7, <1>8
  <1> QED BY <1>9 DEF T

-----------------------------------------------------------------------------
(***************************************************************************)
(* Series and parallel compositions of trees.                              *)
(***************************************************************************)
Strung(d, s) == InSeries([i \in DOMAIN s |-> Poset[d][s[i]]])
Steps(t) == IF IsSeries(t) THEN t.series ELSE <<t>>
Branches(t) == IF IsParallel(t) THEN t.parallel ELSE {t}

\* The trees one level down are among those of a level.
LEMMA BelowIsPart ==
    ASSUME NEW d \in Nat
    PROVE  Extends(Below(Poset, d), Poset[d])
  <1>1. CASE d = 0
    <2>1. Below(Poset, d) = <<>> /\ DOMAIN <<>> = {}
      BY <1>1 DEF Below
    <2> QED BY <2>1 DEF Extends
  <1>2. CASE d # 0
    <2>1. d - 1 \in Nat /\ d - 1 <= d
      BY <1>2
    <2>2. Below(Poset, d) = Poset[d - 1]
      BY <1>2 DEF Below
    <2> QED BY <2>1, <2>2, PosetGrows
  <1> QED BY <1>1, <1>2

\* A tree is a layer, a series of trees or a set of parallel trees, and means what
\* its parts mean together.
LEMMA TreeKinds ==
    ASSUME NEW d \in Nat, NEW t \in DOMAIN Poset[d]
    PROVE  \/ /\ ~IsSeries(t) /\ ~IsParallel(t)
              /\ \E n : Poset[d][t] = [layers |-> {n}, order |-> {}, twice |-> {}]
           \/ /\ IsSeries(t) /\ ~IsParallel(t)
              /\ t.series \in Seq(DOMAIN Below(Poset, d)) /\ t.series \in Seq(DOMAIN Poset[d])
              /\ Poset[d][t] = Strung(d, t.series)
           \/ /\ IsParallel(t) /\ ~IsSeries(t)
              /\ t.parallel \in SUBSET DOMAIN Below(Poset, d) /\ t.parallel \in SUBSET DOMAIN Poset[d]
              /\ Poset[d][t] = InParallel([c \in t.parallel |-> Poset[d][c]])
  <1> DEFINE B == Below(Poset, d)
  <1>1. Poset[d] = Meaning(B) /\ t \in DOMAIN Meaning(B)
    BY PosetUnfolds
  <1>2. Extends(B, Poset[d])
    BY BelowIsPart
  <1> HIDE DEF B
  <1>6. \A S \in SUBSET DOMAIN B : /\ [parallel |-> S] \in DOMAIN Meaning(B)
                                   /\ Meaning(B)[[parallel |-> S]] = InParallel([c \in S |-> B[c]])
                                   /\ ~IsSeries([parallel |-> S]) /\ IsParallel([parallel |-> S])
    BY MeaningFacts, Zenon
  <1>7. \/ \E n \in Nat : t = [leaf |-> n]
        \/ \E s \in Seq(DOMAIN B) : t = [series |-> s]
        \/ \E S \in SUBSET DOMAIN B : t = [parallel |-> S]
    BY <1>1, MeaningFacts
  <1>3. CASE \E n \in Nat : t = [leaf |-> n]
    <2>1. PICK n \in Nat : t = [leaf |-> n]
      BY <1>3
    <2>2. /\ Meaning(B)[t] = [layers |-> {n}, order |-> {}, twice |-> {}]
          /\ ~IsSeries(t) /\ ~IsParallel(t)
      BY <2>1, MeaningFacts
    <2> QED BY <1>1, <2>2
  <1>4. CASE \E s \in Seq(DOMAIN B) : t = [series |-> s]
    <2>1. PICK s \in Seq(DOMAIN B) : t = [series |-> s]
      BY <1>4
    <2>2. /\ IsSeries(t) /\ ~IsParallel(t)
          /\ Meaning(B)[t] = InSeries([i \in DOMAIN s |-> B[s[i]]])
      BY <2>1, MeaningFacts
    <2>3. \A i \in DOMAIN s : B[s[i]] = Poset[d][s[i]]
      BY <1>2, ElementOfSeq, LenProperties DEF Extends
    <2>4. [i \in DOMAIN s |-> B[s[i]]] = [i \in DOMAIN s |-> Poset[d][s[i]]]
      BY <2>3
    <2>5. s \in Seq(DOMAIN Poset[d]) /\ t.series = s
      BY <1>2, <2>1, SeqMonotonic DEF Extends
    <2>6. Poset[d][t] = Strung(d, s)
      BY <1>1, <2>2, <2>4 DEF Strung
    <2> QED BY <2>2, <2>5, <2>6 DEF B
  <1>5. CASE \E S \in SUBSET DOMAIN B : t = [parallel |-> S]
    <2>1. PICK S \in SUBSET DOMAIN B : t = [parallel |-> S]
      BY <1>5
    <2>2. /\ IsParallel(t) /\ ~IsSeries(t)
          /\ Meaning(B)[t] = InParallel([c \in S |-> B[c]])
      BY <2>1, <1>6
    <2>3. S \in SUBSET DOMAIN Poset[d] /\ \A c \in S : B[c] = Poset[d][c]
      BY <1>2 DEF Extends
    <2>4. [c \in S |-> B[c]] = [c \in S |-> Poset[d][c]]
      BY <2>3
    <2>5. t.parallel = S
      BY <2>1
    <2>6. Poset[d][t] = InParallel([c \in t.parallel |-> Poset[d][c]])
      BY <1>1, <2>2, <2>4, <2>5
    <2> QED BY <2>2, <2>3, <2>5, <2>6 DEF B
  <1> QED BY <1>3, <1>4, <1>5, <1>7

\* A meaning is a record of its three fields.
LEMMA ValueIsRecord ==
    ASSUME NEW d \in Nat, NEW t \in DOMAIN Poset[d]
    PROVE  Poset[d][t] = [layers |-> Poset[d][t].layers, order |-> Poset[d][t].order,
                          twice |-> Poset[d][t].twice]
  <1>1. CASE \E n : Poset[d][t] = [layers |-> {n}, order |-> {}, twice |-> {}]
    BY <1>1
  <1>2. CASE Poset[d][t] = Strung(d, t.series)
    BY <1>2, SeriesMeans DEF Strung
  <1>3. CASE Poset[d][t] = InParallel([c \in t.parallel |-> Poset[d][c]])
    BY <1>3, ParallelMeans
  <1> QED BY <1>1, <1>2, <1>3, TreeKinds

\* A series of one tree means that tree.
LEMMA SeriesOfOne ==
    ASSUME NEW p, p = [layers |-> p.layers, order |-> p.order, twice |-> p.twice],
           NEW ps, DOMAIN ps = 1..1, ps[1] = p
    PROVE  InSeries(ps) = p
  <1> DEFINE Q == InSeries(ps)
  <1>1. \A i, j \in DOMAIN ps : i = 1 /\ j = 1 /\ ~(i < j)
    OBVIOUS
  <1>2. Q = [layers |-> Q.layers, order |-> Q.order, twice |-> Q.twice]
    BY SeriesMeans
  <1>3. \A x : (x \in Q.layers <=> x \in p.layers)
    BY <1>1, SeriesMeans
  <1>4. \A x : (x \in Q.order <=> x \in p.order)
    BY <1>1, SeriesMeans
  <1>5. \A x : (x \in Q.twice <=> x \in p.twice)
    BY <1>1, SeriesMeans
  <1> HIDE DEF Q
  <1>6. Q.layers = p.layers /\ Q.order = p.order /\ Q.twice = p.twice
    BY <1>3, <1>4, <1>5
  <1>7. Q = p
    BY <1>2, <1>6
  <1> QED BY <1>7 DEF Q

\* A tree means the series of its steps.
LEMMA StepsMeanTheTree ==
    ASSUME NEW d \in Nat, NEW t \in DOMAIN Poset[d]
    PROVE  Steps(t) \in Seq(DOMAIN Poset[d]) /\ Strung(d, Steps(t)) = Poset[d][t]
  <1>1. CASE IsSeries(t)
    BY <1>1, TreeKinds DEF Steps
  <1>2. CASE ~IsSeries(t)
    <2>1. Steps(t) = <<t>>
      BY <1>2 DEF Steps
    <2>2. <<t>> \in Seq(DOMAIN Poset[d]) /\ DOMAIN <<t>> = 1..1 /\ <<t>>[1] = t
      <3>1. DOMAIN <<t>> = 1..1 /\ <<t>>[1] = t
        OBVIOUS
      <3>2. ASSUME NEW A, NEW a \in A PROVE <<a>> \in Seq(A)
        OBVIOUS
      <3> QED BY <3>1, <3>2
    <2> DEFINE ps == [i \in DOMAIN <<t>> |-> Poset[d][<<t>>[i]]]
    <2>3. DOMAIN ps = 1..1 /\ ps[1] = Poset[d][t]
      BY <2>2
    <2> HIDE DEF ps
    <2>4. InSeries(ps) = Poset[d][t]
      BY <2>3, ValueIsRecord, SeriesOfOne
    <2> QED BY <2>1, <2>2, <2>4 DEF Strung, ps
  <1> QED BY <1>1, <1>2

\* Concatenated sequences of trees mean the one after the other.
LEMMA StrungTogether ==
    ASSUME NEW d \in Nat, NEW s \in Seq(DOMAIN Poset[d]), NEW t \in Seq(DOMAIN Poset[d])
    PROVE  s \o t \in Seq(DOMAIN Poset[d]) /\ Strung(d, s \o t) = Then(Strung(d, s), Strung(d, t))
  <1> DEFINE p == [i \in DOMAIN s |-> Poset[d][s[i]]]
             q == [i \in DOMAIN t |-> Poset[d][t[i]]]
             r == [i \in DOMAIN (s \o t) |-> Poset[d][(s \o t)[i]]]
             m == Len(s)
             n == Len(t)
  <1>1. /\ m \in Nat /\ n \in Nat /\ DOMAIN s = 1..m /\ DOMAIN t = 1..n
        /\ s \o t \in Seq(DOMAIN Poset[d]) /\ DOMAIN (s \o t) = 1..(m + n)
        /\ \A i \in 1..(m + n) : (s \o t)[i] = IF i <= m THEN s[i] ELSE t[i - m]
    BY ConcatProperties, LenProperties
  <1>2. \A i \in 1..(m + n) : (i <= m => i \in 1..m) /\ (~(i <= m) => i - m \in 1..n)
    BY <1>1
  <1>3. \A i \in 1..(m + n) : r[i] = IF i <= m THEN p[i] ELSE q[i - m]
    <2> SUFFICES ASSUME NEW i \in 1..(m + n) PROVE r[i] = IF i <= m THEN p[i] ELSE q[i - m]
      OBVIOUS
    <2>1. r[i] = Poset[d][(s \o t)[i]]
      BY <1>1
    <2>2. i <= m => p[i] = Poset[d][s[i]]
      BY <1>1, <1>2
    <2>3. ~(i <= m) => q[i - m] = Poset[d][t[i - m]]
      BY <1>1, <1>2
    <2> QED BY <1>1, <2>1, <2>2, <2>3
  <1>4. DOMAIN p = 1..m /\ DOMAIN q = 1..n /\ DOMAIN r = 1..(m + n)
    BY <1>1
  <1>5. Strung(d, s) = InSeries(p) /\ Strung(d, t) = InSeries(q) /\ Strung(d, s \o t) = InSeries(r)
    BY DEF Strung
  <1> HIDE DEF p, q, r, m, n
  <1>6. InSeries(r) = Then(InSeries(p), InSeries(q))
    BY <1>1, <1>3, <1>4, SeriesSplits
  <1> QED BY <1>1, <1>5, <1>6

\* The accumulation of FlattenSeq.
IsFlattening(f, A, seqs, n) ==
    /\ f \in [1..n -> Seq(A)]
    /\ f[1] = seqs[1]
    /\ \A i \in 2..n : f[i] = f[i - 1] \o seqs[i]
    /\ FlattenSeq(seqs) = f[n]

\* FlattenSeq concatenates its sequences one after the other.
LEMMA Flattened ==
    ASSUME NEW A, NEW n \in Nat, n # 0, NEW seqs, DOMAIN seqs = 1..n, Len(seqs) = n,
           \A i \in 1..n : seqs[i] \in Seq(A)
    PROVE  \E f : IsFlattening(f, A, seqs, n)
  <1> DEFINE step == [k \in Nat |-> [s \in Seq(A) |-> IF k + 1 \in 1..n THEN s \o seqs[k + 1] ELSE s]]
             flat == CHOOSE f : f = [i \in 1..n |-> IF i = 1 THEN seqs[i] ELSE f[i - 1] \o seqs[i]]
  <1>1. FlattenSeq(seqs) = flat[n]
    BY Zenon DEF FlattenSeq
  <1>2. step \in [Nat -> [Seq(A) -> Seq(A)]]
    <2>1. ASSUME NEW k \in Nat, NEW s \in Seq(A)
          PROVE  (IF k + 1 \in 1..n THEN s \o seqs[k + 1] ELSE s) \in Seq(A)
      BY ConcatProperties
    <2> QED BY <2>1
  <1>3. n - 1 \in Nat /\ 1 \in 1..n /\ seqs[1] \in Seq(A)
    OBVIOUS
  <1>4. \A k \in 1..(n - 1), s \in Seq(A) : step[k][s] = s \o seqs[k + 1]
    <2>1. \A k \in 1..(n - 1) : k \in Nat /\ k + 1 \in 1..n
      OBVIOUS
    <2> QED BY <2>1
  <1> HIDE DEF step, flat
  <1>5. PICK g : IsIteration(g, Seq(A), seqs[1], step, n - 1)
    BY <1>2, <1>3, Iteration
  <1>6. g \in [0..(n - 1) -> Seq(A)] /\ g[0] = seqs[1] /\ \A k \in 1..(n - 1) : g[k] = step[k][g[k - 1]]
    BY <1>5 DEF IsIteration
  <1> DEFINE f == [i \in 1..n |-> g[i - 1]]
  <1>7. \A i \in 1..n : f[i] = g[i - 1] /\ i - 1 \in 0..(n - 1)
    OBVIOUS
  <1>8. f = [i \in 1..n |-> f[i]]
    OBVIOUS
  <1>9. f \in [1..n -> Seq(A)]
    BY <1>6, <1>7
  <1> HIDE DEF f
  <1>10. f[1] = seqs[1]
    BY <1>3, <1>6, <1>7
  <1>11. ASSUME NEW i \in 2..n PROVE f[i] = f[i - 1] \o seqs[i]
    <2>1. i - 1 \in 1..(n - 1) /\ i \in 1..n /\ i - 1 \in 1..n /\ (i - 1) + 1 = i
      OBVIOUS
    <2>2. f[i] = step[i - 1][g[(i - 1) - 1]] /\ f[i - 1] = g[(i - 1) - 1]
      BY <1>6, <1>7, <2>1
    <2>3. f[i - 1] \in Seq(A)
      BY <1>9, <2>1
    <2> QED BY <1>4, <2>1, <2>2, <2>3
  <1>12. \A i \in 1..n : f[i] = IF i = 1 THEN seqs[i] ELSE f[i - 1] \o seqs[i]
    <2>1. \A i \in 1..n : i = 1 \/ i \in 2..n
      OBVIOUS
    <2> QED BY <1>10, <1>11, <2>1
  <1>13. f = [i \in 1..n |-> IF i = 1 THEN seqs[i] ELSE f[i - 1] \o seqs[i]]
    BY <1>8, <1>12, Zenon
  <1>14. flat = [i \in 1..n |-> IF i = 1 THEN seqs[i] ELSE flat[i - 1] \o seqs[i]]
    BY <1>13, Zenon DEF flat
  <1>15. \A i \in 1..n : flat[i] = IF i = 1 THEN seqs[i] ELSE flat[i - 1] \o seqs[i]
    BY <1>14, Zenon
  <1> DEFINE S == {k \in 0..n : k = 0 \/ flat[k] = f[k]}
  <1>16. 0 \in S
    OBVIOUS
  <1>17. ASSUME NEW k \in 1..n, k - 1 \in S PROVE k \in S
    <2>1. CASE k = 1
      BY <1>10, <1>15, <2>1
    <2>2. CASE k # 1
      <3>1. k - 1 # 0 /\ flat[k - 1] = f[k - 1]
        BY <1>17, <2>2
      <3> QED BY <1>12, <1>15, <2>2, <3>1
    <2> QED BY <2>1, <2>2
  <1>18. \A k \in 0..n : k \in S
    <2> HIDE DEF S
    <2> QED BY <1>16, <1>17, UpTo
  <1>19. FlattenSeq(seqs) = f[n]
    BY <1>1, <1>18
  <1> QED BY <1>9, <1>10, <1>11, <1>19 DEF IsFlattening

\* series_composition, which merges nested series, means the series of its trees.
LEMMA SeriesComposed ==
    ASSUME NEW d \in Nat, NEW ts \in Seq(DOMAIN Poset[d]), ts # <<>>
    PROVE  /\ series_composition(ts) \in DOMAIN Poset[d + 1]
           /\ Poset[d + 1][series_composition(ts)] = Strung(d, ts)
  <1> DEFINE D == DOMAIN Poset[d]
             n == Len(ts)
             seqs == [i \in DOMAIN ts |-> IF IsSeries(ts[i]) THEN ts[i].series ELSE <<ts[i]>>]
  <1>1. n \in Nat /\ n # 0 /\ DOMAIN ts = 1..n /\ \A i \in 1..n : ts[i] \in D
    BY LenProperties, EmptySeq
  <1>2. DOMAIN seqs = 1..n /\ \A i \in 1..n : seqs[i] = Steps(ts[i])
    BY <1>1 DEF Steps
  <1>3. series_composition(ts) = [series |-> FlattenSeq(seqs)]
    BY DEF series_composition
  <1> HIDE DEF n, seqs, D
  <1>4. Len(seqs) = n
    BY <1>1, <1>2
  <1>5. \A i \in 1..n : seqs[i] \in Seq(D)
    BY <1>1, <1>2, StepsMeanTheTree DEF D
  <1>61. PICK f : IsFlattening(f, D, seqs, n)
    BY <1>1, <1>2, <1>4, <1>5, Flattened
  <1>6. /\ f \in [1..n -> Seq(D)]
        /\ f[1] = seqs[1]
        /\ \A i \in 2..n : f[i] = f[i - 1] \o seqs[i]
        /\ FlattenSeq(seqs) = f[n]
    BY <1>61 DEF IsFlattening
  <1> DEFINE First(k) == [i \in 1..k |-> Poset[d][ts[i]]]
             S == {k \in 0..n : k = 0 \/ Strung(d, f[k]) = InSeries(First(k))}
  <1>7. 0 \in S
    BY <1>1
  <1>8. \A i \in 1..n : Strung(d, seqs[i]) = Poset[d][ts[i]]
    BY <1>1, <1>2, StepsMeanTheTree DEF D
  <1>9. ASSUME NEW k \in 1..n, k - 1 \in S PROVE k \in S
    <2>0. k \in Nat /\ k \in 0..n
      BY <1>1
    <2>1. CASE k = 1
      <3>1. Strung(d, f[k]) = Poset[d][ts[k]]
        BY <1>6, <1>8, <2>1
      <3>2. DOMAIN First(k) = 1..1 /\ First(k)[1] = Poset[d][ts[k]]
        BY <2>1
      <3>3. Poset[d][ts[k]] = [layers |-> Poset[d][ts[k]].layers, order |-> Poset[d][ts[k]].order,
                               twice |-> Poset[d][ts[k]].twice]
        BY <1>1, ValueIsRecord DEF D
      <3> HIDE DEF First
      <3>4. InSeries(First(k)) = Poset[d][ts[k]]
        BY <3>2, <3>3, SeriesOfOne
      <3> QED BY <2>0, <3>1, <3>4
    <2>2. CASE k # 1
      <3>1. /\ k \in 2..n /\ k - 1 \in 1..n /\ k - 1 # 0 /\ k - 1 \in Nat /\ 1 \in Nat
            /\ k = (k - 1) + 1
        BY <1>1, <2>2
      <3>2. Strung(d, f[k - 1]) = InSeries(First(k - 1))
        BY <1>9, <3>1
      <3>3. f[k] = f[k - 1] \o seqs[k] /\ f[k - 1] \in Seq(D) /\ seqs[k] \in Seq(D)
        BY <1>5, <1>6, <3>1
      <3>4. Strung(d, f[k]) = Then(InSeries(First(k - 1)), Poset[d][ts[k]])
        BY <1>8, <3>2, <3>3, StrungTogether DEF D
      <3> DEFINE one == [i \in 1..1 |-> Poset[d][ts[k]]]
      <3>5. DOMAIN one = 1..1 /\ one[1] = Poset[d][ts[k]]
        OBVIOUS
      <3>6. Poset[d][ts[k]] = [layers |-> Poset[d][ts[k]].layers, order |-> Poset[d][ts[k]].order,
                               twice |-> Poset[d][ts[k]].twice]
        BY <1>1, ValueIsRecord DEF D
      <3> HIDE DEF one
      <3>7. InSeries(one) = Poset[d][ts[k]]
        BY <3>5, <3>6, SeriesOfOne
      <3>8. DOMAIN First(k - 1) = 1..(k - 1) /\ DOMAIN First(k) = 1..((k - 1) + 1)
        BY <3>1
      <3>9. ASSUME NEW i \in 1..((k - 1) + 1)
            PROVE  First(k)[i] = IF i <= k - 1 THEN First(k - 1)[i] ELSE one[i - (k - 1)]
        <4>1. First(k)[i] = Poset[d][ts[i]]
          BY <3>1
        <4>2. i <= k - 1 => First(k - 1)[i] = Poset[d][ts[i]]
          BY <3>1
        <4>3. ~(i <= k - 1) => i = k /\ i - (k - 1) = 1
          BY <3>1
        <4> QED BY <3>5, <4>1, <4>2, <4>3
      <3> DEFINE m == k - 1
                 p == First(k - 1)
                 r == First(k)
                 l == 1
      <3>11. /\ m \in Nat /\ l \in Nat
             /\ DOMAIN p = 1..m /\ DOMAIN one = 1..l /\ DOMAIN r = 1..(m + l)
             /\ \A i \in 1..(m + l) : r[i] = IF i <= m THEN p[i] ELSE one[i - m]
        BY <3>1, <3>5, <3>8, <3>9
      <3> HIDE DEF First, m, p, r, l
      <3>12. InSeries(r) = Then(InSeries(p), InSeries(one))
        BY <3>11, SeriesSplits
      <3>10. InSeries(First(k)) = Then(InSeries(First(k - 1)), InSeries(one))
        BY <3>12 DEF p, r
      <3> QED BY <2>0, <3>4, <3>7, <3>10
    <2> QED BY <2>1, <2>2
  <1>10. \A k \in 0..n : k \in S
    <2> HIDE DEF S
    <2> QED BY <1>1, <1>7, <1>9, UpTo
  <1>11. f[n] \in Seq(D) /\ Strung(d, f[n]) = InSeries(First(n)) /\ First(n) = [i \in DOMAIN ts |-> Poset[d][ts[i]]]
    BY <1>1, <1>6, <1>10
  <1>12. Poset[d + 1] = Meaning(Poset[d])
    <2>1. d + 1 \in Nat /\ d + 1 # 0 /\ (d + 1) - 1 = d
      OBVIOUS
    <2> QED BY <2>1, PosetUnfolds DEF Below
  <1> HIDE DEF First, S
  <1>13. /\ [series |-> f[n]] \in DOMAIN Meaning(Poset[d])
         /\ Meaning(Poset[d])[[series |-> f[n]]] = Strung(d, f[n])
    BY <1>11, MeaningFacts DEF D, Strung
  <1>14. Strung(d, f[n]) = Strung(d, ts)
    BY <1>11 DEF Strung
  <1> QED BY <1>3, <1>6, <1>12, <1>13, <1>14

\* parallel_composition, which merges nested parallels, means its trees side by
\* side, when they share no layer.
LEMMA ParallelComposed ==
    ASSUME NEW d \in Nat, NEW T \in SUBSET DOMAIN Poset[d],
           \A t \in T : Poset[d][t].twice = {},
           \A t, u \in T : t # u => Poset[d][t].layers \cap Poset[d][u].layers = {}
    PROVE  /\ parallel_composition(T) \in DOMAIN Poset[d + 1]
           /\ \A x : x \in Poset[d + 1][parallel_composition(T)].layers
                        <=> \E t \in T : x \in Poset[d][t].layers
           /\ \A x : x \in Poset[d + 1][parallel_composition(T)].order
                        <=> \E t \in T : x \in Poset[d][t].order
           /\ Poset[d + 1][parallel_composition(T)].twice = {}
  <1> DEFINE U == UNION {IF IsParallel(t) THEN t.parallel ELSE {t} : t \in T}
             V == Poset[d]
             P == InParallel([c \in U |-> V[c]])
  <1>1. \A c : c \in U <=> \E t \in T : c \in Branches(t)
    BY DEF Branches
  <1>2. parallel_composition(T) = [parallel |-> U]
    BY DEF parallel_composition
  <1>3. Poset[d + 1] = Meaning(V)
    <2>1. d + 1 \in Nat /\ d + 1 # 0 /\ (d + 1) - 1 = d
      OBVIOUS
    <2> QED BY <2>1, PosetUnfolds DEF Below
  <1> HIDE DEF U
  <1>4. ASSUME NEW t \in T
        PROVE  /\ Branches(t) \subseteq DOMAIN V
               /\ \A x : x \in V[t].layers <=> \E c \in Branches(t) : x \in V[c].layers
               /\ \A x : x \in V[t].order <=> \E c \in Branches(t) : x \in V[c].order
               /\ \A c \in Branches(t) : V[c].twice = {}
               /\ \A b, c \in Branches(t) : b # c => V[b].layers \cap V[c].layers = {}
    <2>1. CASE IsParallel(t)
      <3>1. /\ Branches(t) = t.parallel /\ t.parallel \in SUBSET DOMAIN V
            /\ V[t] = InParallel([c \in t.parallel |-> V[c]])
        BY <2>1, TreeKinds DEF Branches
      <3> DEFINE ps == [c \in t.parallel |-> V[c]]
      <3>2. DOMAIN ps = t.parallel /\ \A c \in t.parallel : ps[c] = V[c]
        OBVIOUS
      <3>3. V[t] = InParallel(ps) /\ InParallel(ps).twice = {}
        BY <3>1
      <3> HIDE DEF ps, V
      <3>4. \A x : x \notin InParallel(ps).twice
        BY <3>3
      <3>9. \A x : /\ \A i \in t.parallel : x \notin V[i].twice
                   /\ \A i, j \in t.parallel : i # j => ~(x \in V[i].layers /\ x \in V[j].layers)
        <4>1. \A x : x \in InParallel(ps).twice <=>
                        \/ \E i \in DOMAIN ps : x \in ps[i].twice
                        \/ \E i, j \in DOMAIN ps : i # j /\ x \in ps[i].layers /\ x \in ps[j].layers
          BY ParallelMeans
        <4> QED BY <3>2, <3>4, <4>1
      <3>5. \A c \in Branches(t) : V[c].twice = {}
        BY <3>1, <3>9
      <3>6. \A b, c \in Branches(t) : b # c => V[b].layers \cap V[c].layers = {}
        BY <3>1, <3>9
      <3>7. \A x : (x \in V[t].layers <=> \E c \in Branches(t) : x \in V[c].layers)
        BY <3>1, <3>2, <3>3, ParallelMeans
      <3>8. \A x : (x \in V[t].order <=> \E c \in Branches(t) : x \in V[c].order)
        BY <3>1, <3>2, <3>3, ParallelMeans
      <3> QED BY <3>1, <3>5, <3>6, <3>7, <3>8
    <2>2. CASE ~IsParallel(t)
      <3>1. Branches(t) = {t}
        BY <2>2 DEF Branches
      <3> QED BY <3>1
    <2> QED BY <2>1, <2>2
  <1>5. U \in SUBSET DOMAIN V
    BY <1>1, <1>4
  <1>6. [parallel |-> U] \in DOMAIN Meaning(V) /\ Meaning(V)[[parallel |-> U]] = P
    <2> HIDE DEF V
    <2>1. \A S \in SUBSET DOMAIN V : /\ [parallel |-> S] \in DOMAIN Meaning(V)
                                     /\ Meaning(V)[[parallel |-> S]] = InParallel([c \in S |-> V[c]])
                                     /\ ~IsSeries([parallel |-> S]) /\ IsParallel([parallel |-> S])
      BY MeaningFacts, Zenon
    <2> QED BY <1>5, <2>1
  <1> DEFINE ps == [c \in U |-> V[c]]
  <1>7. P = InParallel(ps) /\ DOMAIN ps = U /\ \A c \in U : ps[c] = V[c]
    OBVIOUS
  <1>8. \A t \in T : V[t].twice = {}
    OBVIOUS
  <1>9. \A t, u \in T : t # u => V[t].layers \cap V[u].layers = {}
    OBVIOUS
  <1> HIDE DEF V, P, ps
  <1>10. \A x : (x \in P.layers <=> \E t \in T : x \in V[t].layers)
    <2>1. \A x : (x \in P.layers <=> \E c \in U : x \in V[c].layers)
      BY <1>7, ParallelMeans
    <2> QED BY <1>1, <1>4, <2>1
  <1>11. \A x : (x \in P.order <=> \E t \in T : x \in V[t].order)
    <2>1. \A x : (x \in P.order <=> \E c \in U : x \in V[c].order)
      BY <1>7, ParallelMeans
    <2> QED BY <1>1, <1>4, <2>1
  <1>12. ASSUME NEW x \in P.twice PROVE FALSE
    <2>1. \/ \E c \in U : x \in V[c].twice
          \/ \E b, c \in U : b # c /\ x \in V[b].layers /\ x \in V[c].layers
      BY <1>7, <1>12, ParallelMeans
    <2>2. ASSUME NEW c \in U, x \in V[c].twice PROVE FALSE
      BY <1>1, <1>4, <2>2
    <2>3. ASSUME NEW b \in U, NEW c \in U, b # c, x \in V[b].layers, x \in V[c].layers PROVE FALSE
      <3>1. PICK t \in T : b \in Branches(t)
        BY <1>1
      <3>2. PICK u \in T : c \in Branches(u)
        BY <1>1
      <3>3. x \in V[t].layers /\ x \in V[u].layers
        BY <1>4, <2>3, <3>1, <3>2
      <3>4. t = u
        BY <1>9, <3>3
      <3> QED BY <1>4, <2>3, <3>1, <3>2, <3>4
    <2> QED BY <2>1, <2>2, <2>3
  <1>13. Poset[d + 1][parallel_composition(T)] = P /\ parallel_composition(T) \in DOMAIN Poset[d + 1]
    BY <1>2, <1>3, <1>6
  <1>14. P.twice = {}
    BY <1>12
  <1> QED BY <1>10, <1>11, <1>13, <1>14 DEF V

-----------------------------------------------------------------------------
(***************************************************************************)
(* No tree has the order N.                                                *)
(***************************************************************************)
Crossed(p, a, b, c, d) ==
    /\ {a, b, c, d} \subseteq p.layers /\ a # b /\ a # d /\ c # d
    /\ <<a, c>> \in p.order /\ <<b, c>> \in p.order /\ <<b, d>> \in p.order
    /\ <<a, b>> \notin p.order /\ <<b, a>> \notin p.order /\ <<a, d>> \notin p.order
    /\ <<d, a>> \notin p.order /\ <<c, d>> \notin p.order /\ <<d, c>> \notin p.order

Sound(p) == /\ p.order \subseteq p.layers \X p.layers
            /\ p.twice = {} => \A a, b, c, d : ~Crossed(p, a, b, c, d)

\* A parallel split of orders without an N has none.
LEMMA ParallelIsSound ==
    ASSUME NEW ps, \A i \in DOMAIN ps : Sound(ps[i])
    PROVE  Sound(InParallel(ps))
  <1> DEFINE P == InParallel(ps)
  <1>1. /\ \A x : x \in P.layers <=> \E i \in DOMAIN ps : x \in ps[i].layers
        /\ \A x : x \in P.order <=> \E i \in DOMAIN ps : x \in ps[i].order
        /\ \A x : x \in P.twice <=>
                    \/ \E i \in DOMAIN ps : x \in ps[i].twice
                    \/ \E i, j \in DOMAIN ps : i # j /\ x \in ps[i].layers /\ x \in ps[j].layers
    BY ParallelMeans
  <1> HIDE DEF P
  <1>2. ASSUME NEW x \in P.order PROVE x \in P.layers \X P.layers
    <2>1. PICK i \in DOMAIN ps : x \in ps[i].order
      BY <1>1
    <2>2. x \in ps[i].layers \X ps[i].layers
      BY <2>1 DEF Sound
    <2>3. x = <<x[1], x[2]>> /\ x[1] \in ps[i].layers /\ x[2] \in ps[i].layers
      BY <2>2
    <2>4. x[1] \in P.layers /\ x[2] \in P.layers
      BY <1>1, <2>3
    <2> QED BY <2>3, <2>4
  <1>3. ASSUME P.twice = {}, NEW a, NEW b, NEW c, NEW d, Crossed(P, a, b, c, d) PROVE FALSE
    <2>1. \A i \in DOMAIN ps : ps[i].twice = {}
      BY <1>1, <1>3
    <2>2. \A x : \A i, j \in DOMAIN ps : x \in ps[i].layers /\ x \in ps[j].layers => i = j
      BY <1>1, <1>3
    <2>3. \A x, y : \A i \in DOMAIN ps :
             <<x, y>> \in ps[i].order => x \in ps[i].layers /\ y \in ps[i].layers
      BY DEF Sound
    <2>4. PICK i \in DOMAIN ps : <<a, c>> \in ps[i].order
      BY <1>1, <1>3 DEF Crossed
    <2>5. PICK j \in DOMAIN ps : <<b, c>> \in ps[j].order
      BY <1>1, <1>3 DEF Crossed
    <2>6. PICK k \in DOMAIN ps : <<b, d>> \in ps[k].order
      BY <1>1, <1>3 DEF Crossed
    <2>7. i = j /\ j = k
      BY <2>2, <2>3, <2>4, <2>5, <2>6
    <2>8. {a, b, c, d} \subseteq ps[i].layers
      BY <2>3, <2>4, <2>5, <2>6, <2>7
    <2>9. \A x : x \notin P.order => x \notin ps[i].order
      BY <1>1
    <2>10. Crossed(ps[i], a, b, c, d)
      BY <1>3, <2>4, <2>5, <2>6, <2>7, <2>8, <2>9 DEF Crossed
    <2> QED BY <2>1, <2>10 DEF Sound
  <1> QED BY <1>2, <1>3 DEF Sound, P

\* Nor has a series split.
LEMMA SeriesIsSound ==
    ASSUME NEW ps, NEW n \in Nat, DOMAIN ps = 1..n, \A i \in DOMAIN ps : Sound(ps[i])
    PROVE  Sound(InSeries(ps))
  <1> DEFINE P == InSeries(ps)
  <1>1. /\ \A x : x \in P.layers <=> \E i \in DOMAIN ps : x \in ps[i].layers
        /\ \A x : x \in P.order <=>
                    \/ \E i \in DOMAIN ps : x \in ps[i].order
                    \/ \E i, j \in DOMAIN ps : i < j /\ x \in ps[i].layers \X ps[j].layers
        /\ \A x : x \in P.twice <=>
                    \/ \E i \in DOMAIN ps : x \in ps[i].twice
                    \/ \E i, j \in DOMAIN ps : i # j /\ x \in ps[i].layers /\ x \in ps[j].layers
    BY SeriesMeans
  <1> HIDE DEF P
  <1>2. ASSUME NEW x \in P.order PROVE x \in P.layers \X P.layers
    <2>1. \E i, j \in DOMAIN ps : x \in ps[i].layers \X ps[j].layers
      BY <1>1 DEF Sound
    <2>2. PICK i \in DOMAIN ps, j \in DOMAIN ps : x \in ps[i].layers \X ps[j].layers
      BY <2>1
    <2>3. x = <<x[1], x[2]>> /\ x[1] \in ps[i].layers /\ x[2] \in ps[j].layers
      BY <2>2
    <2>4. x[1] \in P.layers /\ x[2] \in P.layers
      BY <1>1, <2>3
    <2> QED BY <2>3, <2>4
  <1>3. ASSUME P.twice = {}, NEW a, NEW b, NEW c, NEW d, Crossed(P, a, b, c, d) PROVE FALSE
    <2>1. \A i \in DOMAIN ps : ps[i].twice = {}
      BY <1>1, <1>3
    <2>2. \A x : \A i, j \in DOMAIN ps : x \in ps[i].layers /\ x \in ps[j].layers => i = j
      BY <1>1, <1>3
    <2>3. ASSUME NEW x \in P.layers, NEW y \in P.layers, <<x, y>> \notin P.order, <<y, x>> \notin P.order,
                 NEW i \in DOMAIN ps, x \in ps[i].layers
          PROVE  y \in ps[i].layers
      <3>1. PICK j \in DOMAIN ps : y \in ps[j].layers
        BY <1>1
      <3>2. <<x, y>> \in ps[i].layers \X ps[j].layers /\ <<y, x>> \in ps[j].layers \X ps[i].layers
        BY <2>3, <3>1
      <3>3. ~(i < j) /\ ~(j < i)
        BY <1>1, <2>3, <3>1, <3>2
      <3>4. i = j
        BY <3>3
      <3> QED BY <3>1, <3>4
    <2>4. PICK i \in DOMAIN ps : a \in ps[i].layers
      BY <1>1, <1>3 DEF Crossed
    <2>5. a \in P.layers /\ b \in P.layers /\ c \in P.layers /\ d \in P.layers
      BY <1>3 DEF Crossed
    <2>6. b \in ps[i].layers
      BY <1>3, <2>3, <2>4, <2>5 DEF Crossed
    <2>7. d \in ps[i].layers
      BY <1>3, <2>3, <2>4, <2>5 DEF Crossed
    <2>8. c \in ps[i].layers
      BY <1>3, <2>3, <2>5, <2>7 DEF Crossed
    <2>9. ASSUME NEW x \in ps[i].layers, NEW y \in ps[i].layers
          PROVE  <<x, y>> \in P.order <=> <<x, y>> \in ps[i].order
      <3>1. ASSUME NEW j \in DOMAIN ps, <<x, y>> \in ps[j].order PROVE j = i
        <4>1. x \in ps[j].layers
          BY <3>1 DEF Sound
        <4> QED BY <2>2, <4>1
      <3>2. ASSUME NEW j \in DOMAIN ps, NEW k \in DOMAIN ps, j < k, <<x, y>> \in ps[j].layers \X ps[k].layers
            PROVE  FALSE
        <4>1. j = i /\ k = i
          BY <2>2, <3>2
        <4> QED BY <3>2, <4>1
      <3> QED BY <1>1, <3>1, <3>2
    <2>10. Crossed(ps[i], a, b, c, d)
      BY <1>3, <2>4, <2>6, <2>7, <2>8, <2>9 DEF Crossed
    <2> QED BY <2>1, <2>10 DEF Sound
  <1> QED BY <1>2, <1>3 DEF Sound, P

\* So no tree has one.
LEMMA TreesAreSound ==
    ASSUME NEW d \in Nat, NEW t \in DOMAIN Poset[d]
    PROVE  Sound(Poset[d][t])
  <1> DEFINE S == {k \in 0..d : \A c \in DOMAIN Poset[k] : Sound(Poset[k][c])}
  <1>1. ASSUME NEW k \in 0..d, \A c \in DOMAIN Below(Poset, k) : Sound(Below(Poset, k)[c])
        PROVE  k \in S
    <2> SUFFICES ASSUME NEW c \in DOMAIN Poset[k] PROVE Sound(Poset[k][c])
      OBVIOUS
    <2> DEFINE B == Below(Poset, k)
    <2>1. Extends(B, Poset[k])
      BY BelowIsPart
    <2>2. \A u \in DOMAIN B : Sound(Poset[k][u])
      BY <1>1, <2>1 DEF Extends
    <2> HIDE DEF B
    <2>3. CASE \E n : Poset[k][c] = [layers |-> {n}, order |-> {}, twice |-> {}]
      <3>1. PICK n : Poset[k][c] = [layers |-> {n}, order |-> {}, twice |-> {}]
        BY <2>3
      <3>2. Poset[k][c].order = {}
        BY <3>1
      <3> QED BY <3>2 DEF Sound, Crossed
    <2>4. CASE c.series \in Seq(DOMAIN B) /\ Poset[k][c] = Strung(k, c.series)
      <3> DEFINE ps == [i \in DOMAIN c.series |-> Poset[k][c.series[i]]]
      <3>1. /\ Len(c.series) \in Nat /\ DOMAIN c.series = 1..Len(c.series)
            /\ \A i \in DOMAIN c.series : c.series[i] \in DOMAIN B
        BY <2>4, LenProperties, ElementOfSeq
      <3>2. DOMAIN ps = 1..Len(c.series) /\ \A i \in DOMAIN ps : Sound(ps[i])
        BY <2>2, <3>1
      <3>3. Poset[k][c] = InSeries(ps)
        BY <2>4 DEF Strung
      <3> HIDE DEF ps
      <3> QED BY <3>1, <3>2, <3>3, SeriesIsSound
    <2>5. CASE /\ c.parallel \in SUBSET DOMAIN B
               /\ Poset[k][c] = InParallel([u \in c.parallel |-> Poset[k][u]])
      <3> DEFINE ps == [u \in c.parallel |-> Poset[k][u]]
      <3>1. \A u \in DOMAIN ps : Sound(ps[u])
        BY <2>2, <2>5
      <3>2. Poset[k][c] = InParallel(ps)
        BY <2>5
      <3> HIDE DEF ps
      <3> QED BY <3>1, <3>2, ParallelIsSound
    <2>6. k \in Nat
      OBVIOUS
    <2> QED BY <2>3, <2>4, <2>5, <2>6, TreeKinds DEF B
  <1>2. 0 \in S
    <2>1. Below(Poset, 0) = <<>> /\ DOMAIN <<>> = {}
      BY DEF Below
    <2> QED BY <1>1, <2>1
  <1>3. ASSUME NEW k \in 1..d, k - 1 \in S PROVE k \in S
    <2>1. k \in 0..d /\ Below(Poset, k) = Poset[k - 1]
      BY DEF Below
    <2> QED BY <1>1, <1>3, <2>1
  <1>4. \A k \in 0..d : k \in S
    <2> HIDE DEF S
    <2> QED BY <1>2, <1>3, UpTo
  <1> QED BY <1>4

\* Four elements are four distinct ones.
LEMMA NeedsFour ==
    ASSUME NEW a, NEW b, NEW c, NEW d, Cardinality({a, b, c, d}) = 4
    PROVE  a # b /\ a # d /\ c # d /\ a # c /\ b # c /\ b # d
  <1>1. ASSUME NEW x, NEW y, NEW z PROVE Cardinality({x, y, z}) < 4
    <2>1. IsFiniteSet({x}) /\ Cardinality({x}) = 1
      BY FS_Singleton
    <2>2. IsFiniteSet({x} \cup {y}) /\ Cardinality({x} \cup {y}) \in {1, 2}
      BY <2>1, FS_AddElement
    <2>3. IsFiniteSet(({x} \cup {y}) \cup {z}) /\ Cardinality(({x} \cup {y}) \cup {z}) \in {1, 2, 3}
      BY <2>2, FS_AddElement
    <2>4. ({x} \cup {y}) \cup {z} = {x, y, z}
      OBVIOUS
    <2> QED BY <2>3, <2>4
  <1>2. a = b => {a, b, c, d} = {a, c, d}
    OBVIOUS
  <1>3. a = d => {a, b, c, d} = {a, b, c}
    OBVIOUS
  <1>4. c = d => {a, b, c, d} = {a, b, c}
    OBVIOUS
  <1>5. a = c => {a, b, c, d} = {a, b, d}
    OBVIOUS
  <1>6. b = c => {a, b, c, d} = {a, b, d}
    OBVIOUS
  <1>7. b = d => {a, b, c, d} = {a, b, c}
    OBVIOUS
  <1>8. \A x, y, z : Cardinality({x, y, z}) # 4
    BY <1>1
  <1> QED BY <1>2, <1>3, <1>4, <1>5, <1>6, <1>7, <1>8

\* A graph a tree denotes does not have the order N.
LEMMA DenotedHasNoN ==
    ASSUME NEW d \in Nat, NEW t \in DOMAIN Poset[d], Poset[d][t].twice = {},
           Poset[d][t].layers = graph.nodes, Poset[d][t].order = Closure(graph)
    PROVE  ~HasN
  <1> DEFINE C == Closure(graph)
             P(w, x, y, z) ==
                /\ Cardinality({w, x, y, z}) = 4
                /\ {p \in {w, x, y, z} \X {w, x, y, z} : p \in C} = {<<w, y>>, <<x, y>>, <<x, z>>}
  <1>1. HasN <=> \E w, x, y, z \in graph.nodes : P(w, x, y, z)
    BY DEF HasN
  <1>2. ASSUME NEW a \in graph.nodes, NEW b \in graph.nodes, NEW c \in graph.nodes,
               NEW e \in graph.nodes, P(a, b, c, e)
        PROVE  FALSE
    <2> DEFINE F == {a, b, c, e}
               T == {<<a, c>>, <<b, c>>, <<b, e>>}
    <2>1. a # b /\ a # e /\ c # e /\ a # c /\ b # c /\ b # e
      BY <1>2, NeedsFour
    <2>2. {p \in F \X F : p \in C} = T
      BY <1>2
    <2> HIDE DEF C
    <2>3. \A x \in F, y \in F : <<x, y>> \in C <=> <<x, y>> \in T
      <3> SUFFICES ASSUME NEW x \in F, NEW y \in F PROVE <<x, y>> \in C <=> <<x, y>> \in T
        OBVIOUS
      <3>1. <<x, y>> \in F \X F
        OBVIOUS
      <3>2. <<x, y>> \in {p \in F \X F : p \in C} <=> <<x, y>> \in C
        BY <3>1
      <3> HIDE DEF F, T
      <3> QED BY <2>2, <3>2
    <2>4. a \in F /\ b \in F /\ c \in F /\ e \in F
      OBVIOUS
    <2>5. \A x, y : <<x, y>> \in T <=> (x = a /\ y = c) \/ (x = b /\ y = c) \/ (x = b /\ y = e)
      OBVIOUS
    <2> HIDE DEF F, T
    <2>6. /\ <<a, c>> \in C /\ <<b, c>> \in C /\ <<b, e>> \in C
          /\ <<a, b>> \notin C /\ <<b, a>> \notin C /\ <<a, e>> \notin C
          /\ <<e, a>> \notin C /\ <<c, e>> \notin C /\ <<e, c>> \notin C
      BY <2>1, <2>3, <2>4, <2>5
    <2>7. Crossed(Poset[d][t], a, b, c, e)
      BY <2>1, <2>6 DEF Crossed, C
    <2> QED BY <2>7, TreesAreSound DEF Sound
  <1> HIDE DEF P
  <1> QED BY <1>1, <1>2

-----------------------------------------------------------------------------
(***************************************************************************)
(* The multigraph as a picture of the order.                               *)
(***************************************************************************)
Value(g, e) == Poset[Cardinality(g.nodes)][e.tree]
Layers(g, e) == Value(g, e).layers

Follows(g, e, f) == \A x \in Layers(g, e), y \in Layers(g, f) : <<x, y>> \in Closure(g)
Touches(g, e, f) == \E x \in Layers(g, e), y \in Layers(g, f) : <<x, y>> \in Closure(g)

Part(g, e) ==
    /\ e = [src |-> e.src, dst |-> e.dst, tree |-> e.tree]
    /\ Layers(g, e) # {} /\ Layers(g, e) \subseteq g.nodes
    /\ e.tree \in DOMAIN Poset[Cardinality(Layers(g, e)) - 1]
    /\ Value(g, e).twice = {}
    /\ Value(g, e).order = Closure(g) \cap (Layers(g, e) \X Layers(g, e))

Parted(g, E) ==
    /\ \A e \in E : Part(g, e)
    /\ \A e, f \in E : e # f => Layers(g, e) \cap Layers(g, f) = {}
    /\ \A x \in g.nodes : \E e \in E : x \in Layers(g, e)

\* The layers of f come after those of e, and the multigraph shows it.
Leads(g, E, e, f) ==
    /\ Follows(g, e, f)
    /\ \/ e.dst = f.src
       \/ /\ \E h \in E : e.dst = h.src /\ Follows(g, h, f)
          /\ \E h \in E : h.dst = f.src /\ Follows(g, e, h)

Joined(g, E) == \A e, f \in E : e.dst = f.src => Follows(g, e, f)
Led(g, E) == \A e, f \in E : e # f /\ Touches(g, e, f) => Leads(g, E, e, f)
OneSource(E) == \A e, f \in E : (\A h \in E : h.dst # e.src /\ h.dst # f.src) => e.src = f.src
OneSink(E) == \A e, f \in E : (\A h \in E : h.src # e.dst /\ h.src # f.dst) => e.dst = f.dst

Net(g, E) == /\ IsFiniteSet(E)
             /\ Parted(g, E)
             /\ Joined(g, E) /\ Led(g, E)
             /\ OneSource(E) /\ OneSink(E)

\* Following is a strict order on the edges of the picture.
LEMMA FollowsFacts ==
    ASSUME NEW g, NEW pos, IsRanked(g, pos), NEW E, Parted(g, E)
    PROVE  /\ \A e \in E : ~Follows(g, e, e)
           /\ \A e, f, h \in E : Follows(g, e, f) /\ Follows(g, f, h) => Follows(g, e, h)
           /\ \A e, f \in E : Follows(g, e, f) => Touches(g, e, f) /\ e # f /\ ~Follows(g, f, e)
  <1> DEFINE C == Closure(g)
             L(e) == Layers(g, e)
  <1>1. \A x, y, z : <<x, y>> \in C /\ <<y, z>> \in C => <<x, z>> \in C
    BY ClosureFacts DEF IsTransitive, IsRanked
  <1>2. \A x : <<x, x>> \notin C
    BY ClosureIsRanked
  <1>3. \A e \in E : \E x : x \in L(e)
    BY DEF Parted, Part
  <1>4. /\ \A e, f : Follows(g, e, f) <=> \A x \in L(e), y \in L(f) : <<x, y>> \in C
        /\ \A e, f : Touches(g, e, f) <=> \E x \in L(e), y \in L(f) : <<x, y>> \in C
    BY DEF Follows, Touches
  <1> HIDE DEF C, L
  <1>5. \A e \in E : ~Follows(g, e, e)
    BY <1>2, <1>3, <1>4
  <1>6. ASSUME NEW e \in E, NEW f \in E, NEW h \in E, Follows(g, e, f), Follows(g, f, h)
        PROVE  Follows(g, e, h)
    <2>1. PICK y : y \in L(f)
      BY <1>3
    <2>2. ASSUME NEW x \in L(e), NEW z \in L(h) PROVE <<x, z>> \in C
      <3>1. <<x, y>> \in C /\ <<y, z>> \in C
        BY <1>4, <1>6, <2>1
      <3> QED BY <1>1, <3>1
    <2> QED BY <1>4, <2>2
  <1>7. ASSUME NEW e \in E, NEW f \in E, Follows(g, e, f) PROVE Touches(g, e, f)
    <2>1. PICK x : x \in L(e)
      BY <1>3
    <2>2. PICK y : y \in L(f)
      BY <1>3
    <2> QED BY <1>4, <1>7, <2>1, <2>2
  <1> QED BY <1>5, <1>6, <1>7

\* What an edge follows depends on where it begins only, and what follows it on
\* where it ends.
LEMMA SameEnds ==
    ASSUME NEW g, NEW pos, IsRanked(g, pos), NEW E, Net(g, E), NEW p \in E, NEW q \in E, NEW e \in E
    PROVE  /\ p.src = q.src /\ Follows(g, e, p) => Follows(g, e, q)
           /\ p.dst = q.dst /\ Follows(g, p, e) => Follows(g, q, e)
  <1>1. ASSUME p.src = q.src, Follows(g, e, p) PROVE Follows(g, e, q)
    <2>1. Leads(g, E, e, p)
      BY <1>1, FollowsFacts DEF Net, Led
    <2>2. CASE e.dst = p.src
      BY <1>1, <2>2 DEF Net, Joined
    <2>3. CASE \E h \in E : h.dst = p.src /\ Follows(g, e, h)
      <3>1. PICK h \in E : h.dst = p.src /\ Follows(g, e, h)
        BY <2>3
      <3>2. Follows(g, h, q)
        BY <1>1, <3>1 DEF Net, Joined
      <3> QED BY <3>1, <3>2, FollowsFacts DEF Net
    <2> QED BY <2>1, <2>2, <2>3 DEF Leads
  <1>2. ASSUME p.dst = q.dst, Follows(g, p, e) PROVE Follows(g, q, e)
    <2>1. Leads(g, E, p, e)
      BY <1>2, FollowsFacts DEF Net, Led
    <2>2. CASE p.dst = e.src
      BY <1>2, <2>2 DEF Net, Joined
    <2>3. CASE \E h \in E : p.dst = h.src /\ Follows(g, h, e)
      <3>1. PICK h \in E : p.dst = h.src /\ Follows(g, h, e)
        BY <2>3
      <3>2. Follows(g, q, h)
        BY <1>2, <3>1 DEF Net, Joined
      <3> QED BY <3>1, <3>2, FollowsFacts DEF Net
    <2> QED BY <2>1, <2>2, <2>3 DEF Leads
  <1> QED BY <1>1, <1>2

\* A set r of edges may give way to one edge m.
Replaces(g, E, r, m) ==
    /\ r \subseteq E
    /\ Part(g, m)
    /\ \A x : x \in Layers(g, m) <=> \E p \in r : x \in Layers(g, p)
    /\ \A e \in E \ r : \A p, q \in r : /\ Follows(g, e, p) => Follows(g, e, q)
                                        /\ Follows(g, p, e) => Follows(g, q, e)
    /\ \E p \in r : p.src = m.src
    /\ \E p \in r : p.dst = m.dst
    /\ \A e \in E \ r : \A p \in r : /\ e.dst = p.src => p.src = m.src
                                     /\ p.dst = e.src => p.dst = m.dst
    /\ \A p \in r : p.dst # m.src /\ p.src # m.dst

\* An edge that replaces others leaves the layers divided among the edges.
LEMMA ReplacedIsParted ==
    ASSUME NEW g, NEW E, NEW r, NEW m, Parted(g, E), Replaces(g, E, r, m)
    PROVE  Parted(g, (E \ r) \cup {m})
  <1> DEFINE F == (E \ r) \cup {m}
  <1>1. \A e \in F : Part(g, e)
    BY DEF Parted, Replaces
  <1>2. ASSUME NEW e \in E \ r, NEW x, x \in Layers(g, e), x \in Layers(g, m) PROVE FALSE
    <2>1. PICK p \in r : x \in Layers(g, p)
      BY <1>2 DEF Replaces
    <2>2. p # e /\ p \in E
      BY <2>1 DEF Replaces
    <2> QED BY <1>2, <2>1, <2>2 DEF Parted
  <1>3. ASSUME NEW e \in F, NEW f \in F, e # f PROVE Layers(g, e) \cap Layers(g, f) = {}
    <2>1. CASE e \in E \ r /\ f \in E \ r
      BY <1>3, <2>1 DEF Parted
    <2>2. CASE e = m \/ f = m
      BY <1>2, <1>3, <2>2
    <2> QED BY <2>1, <2>2
  <1>4. ASSUME NEW x \in g.nodes PROVE \E e \in F : x \in Layers(g, e)
    <2>1. PICK e \in E : x \in Layers(g, e)
      BY DEF Parted
    <2>2. e \in r => x \in Layers(g, m)
      BY <2>1 DEF Replaces
    <2> QED BY <2>1, <2>2
  <1> QED BY <1>1, <1>3, <1>4 DEF Parted

\* It follows, and is followed by, what those it replaces did.
LEMMA ReplacedFollows ==
    ASSUME NEW g, NEW E, NEW r, NEW m, Replaces(g, E, r, m), NEW e \in E \ r
    PROVE  /\ \A p \in r : Follows(g, e, p) => Follows(g, e, m)
           /\ \A p \in r : Follows(g, p, e) => Follows(g, m, e)
           /\ Touches(g, e, m) => \E p \in r : Touches(g, e, p)
           /\ Touches(g, m, e) => \E p \in r : Touches(g, p, e)
  <1> DEFINE C == Closure(g)
             L(d) == Layers(g, d)
  <1>1. \A x : x \in L(m) <=> \E p \in r : x \in L(p)
    BY DEF Replaces
  <1>2. \A p, q \in r : /\ Follows(g, e, p) => Follows(g, e, q)
                        /\ Follows(g, p, e) => Follows(g, q, e)
    BY DEF Replaces
  <1>4. /\ \A d, f : Follows(g, d, f) <=> \A x \in L(d), y \in L(f) : <<x, y>> \in C
        /\ \A d, f : Touches(g, d, f) <=> \E x \in L(d), y \in L(f) : <<x, y>> \in C
    BY DEF Follows, Touches
  <1> HIDE DEF C, L
  <1>5. ASSUME NEW p \in r, Follows(g, e, p) PROVE Follows(g, e, m)
    <2>1. ASSUME NEW x \in L(e), NEW y \in L(m) PROVE <<x, y>> \in C
      <3>1. PICK q \in r : y \in L(q)
        BY <1>1
      <3> QED BY <1>2, <1>4, <1>5, <3>1
    <2> QED BY <1>4, <2>1
  <1>6. ASSUME NEW p \in r, Follows(g, p, e) PROVE Follows(g, m, e)
    <2>1. ASSUME NEW x \in L(m), NEW y \in L(e) PROVE <<x, y>> \in C
      <3>1. PICK q \in r : x \in L(q)
        BY <1>1
      <3> QED BY <1>2, <1>4, <1>6, <3>1
    <2> QED BY <1>4, <2>1
  <1>7. Touches(g, e, m) => \E p \in r : Touches(g, e, p)
    BY <1>1, <1>4
  <1>8. Touches(g, m, e) => \E p \in r : Touches(g, p, e)
    BY <1>1, <1>4
  <1> QED BY <1>5, <1>6, <1>7, <1>8

\* And the multigraph still shows the order between edges.
LEMMA ReplacedIsLed ==
    ASSUME NEW g, NEW pos, IsRanked(g, pos), NEW E, NEW r, NEW m, Net(g, E), Replaces(g, E, r, m)
    PROVE  Led(g, (E \ r) \cup {m})
  <1> DEFINE F == (E \ r) \cup {m}
             Fo(e, f) == Follows(g, e, f)
  <1>1. /\ r \subseteq E
        /\ \A e \in E : e \notin r => \A p \in r : /\ Fo(e, p) => Fo(e, m)
                                                   /\ Fo(p, e) => Fo(m, e)
        /\ \A e \in E : e \notin r => \A p, q \in r : /\ Fo(e, p) => Fo(e, q)
                                                      /\ Fo(p, e) => Fo(q, e)
        /\ \A e \in E : e \notin r => \A p \in r : /\ e.dst = p.src => p.src = m.src
                                                   /\ p.dst = e.src => p.dst = m.dst
        /\ \A p \in r : p.dst # m.src /\ p.src # m.dst
    BY ReplacedFollows DEF Replaces
  <1>2. \A e, f \in E : Fo(e, f) => Leads(g, E, e, f)
    BY FollowsFacts DEF Net, Led
  <1>31. PICK first \in r : first.src = m.src
    BY DEF Replaces
  <1>32. PICK last \in r : last.dst = m.dst
    BY DEF Replaces
  <1>3. first.src = m.src /\ last.dst = m.dst
    BY <1>31, <1>32
  <1>4. \A e, f \in E : Leads(g, E, e, f) <=>
            Fo(e, f) /\ \/ e.dst = f.src
                        \/ /\ \E h \in E : e.dst = h.src /\ Fo(h, f)
                           /\ \E h \in E : h.dst = f.src /\ Fo(e, h)
    BY DEF Leads
  <1>5. \A e, f \in F : Leads(g, F, e, f) <=>
            Fo(e, f) /\ \/ e.dst = f.src
                        \/ /\ \E h \in F : e.dst = h.src /\ Fo(h, f)
                           /\ \E h \in F : h.dst = f.src /\ Fo(e, h)
    BY DEF Leads
  <1>0. \A e \in F : e \in E \ r \/ e = m
    OBVIOUS
  <1>01. m \in F /\ \A e \in E : e \in r \/ e \in F
    OBVIOUS
  <1> SUFFICES ASSUME NEW e \in F, NEW f \in F, e # f, Touches(g, e, f) PROVE Leads(g, F, e, f)
    BY DEF Led
  <1> HIDE DEF Fo, F
  <1>6. CASE e \in E \ r /\ f \in E \ r
    <2>1. Leads(g, E, e, f)
      BY <1>6 DEF Net, Led
    <2>2. CASE e.dst = f.src
      BY <1>4, <1>5, <1>6, <2>1, <2>2
    <2>3. CASE e.dst # f.src
      <3>1. PICK h \in E : e.dst = h.src /\ Fo(h, f)
        BY <1>4, <1>6, <2>1, <2>3
      <3>2. PICK k \in E : k.dst = f.src /\ Fo(e, k)
        BY <1>4, <1>6, <2>1, <2>3
      <3>3. \E j \in F : e.dst = j.src /\ Fo(j, f)
        <4>1. h \in r => e.dst = m.src /\ Fo(m, f)
          BY <1>1, <1>6, <3>1
        <4> QED BY <1>01, <3>1, <4>1
      <3>4. \E j \in F : j.dst = f.src /\ Fo(e, j)
        <4>1. k \in r => m.dst = f.src /\ Fo(e, m)
          BY <1>1, <1>6, <3>2
        <4> QED BY <1>01, <3>2, <4>1
      <3> QED BY <1>4, <1>5, <1>6, <2>1, <3>3, <3>4
    <2> QED BY <2>2, <2>3
  <1>7. CASE e \in E \ r /\ f = m
    <2>1. PICK p \in r : Touches(g, e, p)
      BY <1>7, ReplacedFollows
    <2>2. Fo(e, p)
      BY <1>1, <1>7, <2>1 DEF Net, Led, Leads, Fo
    <2>3. Fo(e, first) /\ Fo(e, m)
      BY <1>1, <1>3, <1>7, <2>2
    <2>4. Leads(g, E, e, first)
      BY <1>1, <1>2, <1>3, <1>7, <2>3
    <2>5. CASE e.dst = first.src
      BY <1>3, <1>5, <1>7, <2>3, <2>5
    <2>6. CASE e.dst # first.src
      <3>1. PICK h \in E : e.dst = h.src /\ Fo(h, first)
        BY <1>1, <1>3, <1>4, <1>7, <2>4, <2>6
      <3>2. PICK k \in E : k.dst = first.src /\ Fo(e, k)
        BY <1>1, <1>3, <1>4, <1>7, <2>4, <2>6
      <3>3. k \in F
        BY <1>01, <1>1, <1>3, <3>2
      <3>4. h \in F /\ Fo(h, m)
        <4>1. h \notin r
          BY <1>1, <1>3, <1>7, <2>6, <3>1
        <4>2. Fo(h, m)
          BY <1>1, <3>1, <4>1
        <4> QED BY <1>01, <4>1, <4>2
      <3> QED BY <1>3, <1>5, <1>7, <2>3, <3>1, <3>2, <3>3, <3>4
    <2> QED BY <2>5, <2>6
  <1>8. CASE e = m /\ f \in E \ r
    <2>1. PICK p \in r : Touches(g, p, f)
      BY <1>8, ReplacedFollows
    <2>2. Fo(p, f)
      BY <1>1, <1>8, <2>1 DEF Net, Led, Leads, Fo
    <2>3. Fo(last, f) /\ Fo(m, f)
      BY <1>1, <1>3, <1>8, <2>2
    <2>4. Leads(g, E, last, f)
      BY <1>1, <1>2, <1>3, <1>8, <2>3
    <2>5. CASE last.dst = f.src
      BY <1>3, <1>5, <1>8, <2>3, <2>5
    <2>6. CASE last.dst # f.src
      <3>1. PICK h \in E : last.dst = h.src /\ Fo(h, f)
        BY <1>1, <1>3, <1>4, <1>8, <2>4, <2>6
      <3>2. PICK k \in E : k.dst = f.src /\ Fo(last, k)
        BY <1>1, <1>3, <1>4, <1>8, <2>4, <2>6
      <3>3. h \in F
        BY <1>01, <1>1, <1>3, <3>1
      <3>4. k \in F /\ Fo(m, k)
        <4>1. k \notin r
          BY <1>1, <1>3, <1>8, <2>6, <3>2
        <4>2. Fo(m, k)
          BY <1>1, <3>2, <4>1
        <4> QED BY <1>01, <4>1, <4>2
      <3> QED BY <1>3, <1>5, <1>8, <2>3, <3>1, <3>2, <3>3, <3>4
    <2> QED BY <2>5, <2>6
  <1> QED BY <1>0, <1>6, <1>7, <1>8

\* So replacing edges by one that stands for them leaves a picture of the order.
LEMMA Replaced ==
    ASSUME NEW g, NEW pos, IsRanked(g, pos), NEW E, NEW r, NEW m, Net(g, E), Replaces(g, E, r, m)
    PROVE  Net(g, (E \ r) \cup {m})
  <1> DEFINE F == (E \ r) \cup {m}
  <1>1. IsFiniteSet(F)
    <2>1. IsFiniteSet(E \ r)
      BY FS_Subset DEF Net
    <2> QED BY <2>1, FS_AddElement
  <1>2. Parted(g, F)
    BY ReplacedIsParted DEF Net
  <1>31. PICK first \in r : first.src = m.src
    BY DEF Replaces
  <1>32. PICK last \in r : last.dst = m.dst
    BY DEF Replaces
  <1>3. first.src = m.src /\ last.dst = m.dst
    BY <1>31, <1>32
  <1>4. /\ first \in E /\ last \in E
        /\ \A e \in E : e \notin r => \A p \in r : /\ e.dst = p.src => p.src = m.src
                                                   /\ p.dst = e.src => p.dst = m.dst
        /\ \A p \in r : p.dst # m.src /\ p.src # m.dst
    BY DEF Replaces
  <1>0. m \in F /\ (\A e \in F : e \in E \ r \/ e = m) /\ \A e \in E : e \in r \/ e \in F
    OBVIOUS
  <1> HIDE DEF F
  <1>5. Joined(g, F)
    <2> SUFFICES ASSUME NEW e \in F, NEW f \in F, e.dst = f.src PROVE Follows(g, e, f)
      BY DEF Joined
    <2>1. CASE e \in E \ r /\ f \in E \ r
      BY <2>1 DEF Net, Joined
    <2>2. CASE e \in E \ r /\ f = m
      <3>1. Follows(g, e, first)
        BY <1>3, <1>4, <2>2 DEF Net, Joined
      <3> QED BY <2>2, <3>1, ReplacedFollows
    <2>3. CASE e = m /\ f \in E \ r
      <3>1. Follows(g, last, f)
        BY <1>3, <1>4, <2>3 DEF Net, Joined
      <3> QED BY <2>3, <3>1, ReplacedFollows
    <2>4. CASE e = m /\ f = m
      BY <1>3, <1>4, <2>4
    <2> QED BY <1>0, <2>1, <2>2, <2>3, <2>4
  <1>6. Led(g, F)
    BY ReplacedIsLed DEF F
  <1>7. OneSource(F)
    <2>1. ASSUME NEW e \in F, \A h \in F : h.dst # e.src
          PROVE  \E d \in E : d.src = e.src /\ \A h \in E : h.dst # d.src
      <3>1. CASE e \in E \ r
        <4>1. ASSUME NEW h \in E, h.dst = e.src PROVE FALSE
          <5>1. h \in r
            BY <1>0, <2>1, <4>1
          <5>2. h.dst = m.dst
            BY <1>4, <3>1, <4>1, <5>1
          <5> QED BY <1>0, <2>1, <4>1, <5>2
        <4> QED BY <3>1, <4>1
      <3>2. CASE e = m
        <4>1. ASSUME NEW h \in E, h.dst = first.src PROVE FALSE
          BY <1>0, <1>3, <1>4, <2>1, <3>2, <4>1
        <4> QED BY <1>3, <1>4, <3>2, <4>1
      <3> QED BY <1>0, <3>1, <3>2
    <2> QED BY <2>1 DEF OneSource, Net
  <1>8. OneSink(F)
    <2>1. ASSUME NEW e \in F, \A h \in F : h.src # e.dst
          PROVE  \E d \in E : d.dst = e.dst /\ \A h \in E : h.src # d.dst
      <3>1. CASE e \in E \ r
        <4>1. ASSUME NEW h \in E, h.src = e.dst PROVE FALSE
          <5>1. h \in r
            BY <1>0, <2>1, <4>1
          <5>2. h.src = m.src
            BY <1>4, <3>1, <4>1, <5>1
          <5> QED BY <1>0, <2>1, <4>1, <5>2
        <4> QED BY <3>1, <4>1
      <3>2. CASE e = m
        <4>1. ASSUME NEW h \in E, h.src = last.dst PROVE FALSE
          BY <1>0, <1>3, <1>4, <2>1, <3>2, <4>1
        <4> QED BY <1>3, <1>4, <3>2, <4>1
      <3> QED BY <1>0, <3>1, <3>2
    <2> QED BY <2>1 DEF OneSink, Net
  <1> QED BY <1>1, <1>2, <1>5, <1>6, <1>7, <1>8 DEF Net, F

-----------------------------------------------------------------------------
(***************************************************************************)
(* The two reductions replace edges by one that stands for the same part.  *)
(***************************************************************************)
LEMMA PartDepth ==
    ASSUME NEW g, IsFiniteSet(g.nodes), NEW e, Part(g, e),
           NEW d \in Nat, Cardinality(Layers(g, e)) - 1 <= d, d <= Cardinality(g.nodes)
    PROVE  e.tree \in DOMAIN Poset[d] /\ Poset[d][e.tree] = Value(g, e)
  <1> DEFINE k == Cardinality(Layers(g, e)) - 1
             N == Cardinality(g.nodes)
  <1>1. IsFiniteSet(Layers(g, e)) /\ Layers(g, e) # {}
    BY FS_Subset DEF Part
  <1>2. k \in Nat /\ N \in Nat
    BY <1>1, FS_CardinalityType, FS_EmptySet
  <1>3. k <= d /\ k <= N /\ e.tree \in DOMAIN Poset[k]
    BY <1>2 DEF Part
  <1>4. Value(g, e) = Poset[N][e.tree]
    BY DEF Value
  <1> HIDE DEF k, N
  <1>5. Extends(Poset[k], Poset[d]) /\ Extends(Poset[k], Poset[N])
    BY <1>2, <1>3, PosetGrows
  <1> QED BY <1>3, <1>4, <1>5 DEF Extends

Union(g, r) == {x \in g.nodes : \E p \in r : x \in Layers(g, p)}

\* Trees of depth d + 1 can stand for the union of the edges r, of depth d.
Composable(g, r, d) ==
    /\ \A p \in r : p.tree \in DOMAIN Poset[d] /\ Poset[d][p.tree] = Value(g, p)
    /\ \A src, dst, tree :
          /\ tree \in DOMAIN Poset[d + 1]
          /\ Poset[d + 1][tree].layers = Union(g, r)
          /\ Poset[d + 1][tree].twice = {}
          /\ Poset[d + 1][tree].order = Closure(g) \cap (Union(g, r) \X Union(g, r))
          => /\ Part(g, [src |-> src, dst |-> dst, tree |-> tree])
             /\ Layers(g, [src |-> src, dst |-> dst, tree |-> tree]) = Union(g, r)

\* Edges that stand for parts have trees of one depth, and a tree with their
\* union as its meaning stands for the union.
LEMMA Composed ==
    ASSUME NEW g, NEW pos, IsRanked(g, pos), NEW E, Parted(g, E), NEW r, r \subseteq E,
           NEW p0 \in r, NEW q0 \in r, p0 # q0
    PROVE  \E d \in Nat : Composable(g, r, d)
  <1> DEFINE U == Union(g, r)
             c == Cardinality(U)
             N == Cardinality(g.nodes)
             L(p) == Layers(g, p)
  <1>1. IsFiniteSet(g.nodes) /\ IsFiniteSet(U) /\ c <= N /\ c \in Nat /\ N \in Nat
    <2>1. IsFiniteSet(g.nodes)
      BY DEF IsRanked, IsGraph
    <2>2. U \subseteq g.nodes
      BY DEF Union
    <2> QED BY <2>1, <2>2, FS_Subset, FS_CardinalityType
  <1>2. \A p \in r : /\ Part(g, p)
                     /\ L(p) \subseteq U /\ L(p) # {}
    BY DEF Parted, Part, Union
  <1>3. ASSUME NEW p \in r PROVE Cardinality(L(p)) \in Nat /\ Cardinality(L(p)) >= 1 /\ Cardinality(L(p)) < c
    <2>1. PICK q \in r : q # p
      OBVIOUS
    <2>2. PICK x : x \in L(q)
      BY <1>2
    <2>3. x \notin L(p) /\ x \in U
      BY <1>2, <2>1, <2>2 DEF Parted
    <2>4. L(p) \subseteq U /\ L(p) # U
      BY <1>2, <2>3
    <2> HIDE DEF U, L
    <2>5. /\ IsFiniteSet(L(p)) /\ Cardinality(L(p)) <= Cardinality(U)
          /\ Cardinality(U) = Cardinality(L(p)) => U = L(p)
      <3>1. L(p) \in SUBSET U
        BY <2>4
      <3> QED BY <1>1, <3>1, FS_Subset
    <2>6. Cardinality(L(p)) \in Nat /\ Cardinality(L(p)) # 0
      BY <1>2, <2>5, FS_CardinalityType, FS_EmptySet
    <2>7. Cardinality(U) \in Nat
      BY <1>1, FS_CardinalityType
    <2> QED BY <2>4, <2>5, <2>6, <2>7
  <1>4. c - 2 \in Nat /\ (c - 2) + 1 = c - 1 /\ c - 1 \in Nat /\ c - 2 <= N /\ c - 1 <= N
    BY <1>1, <1>3
  <1>5. ASSUME NEW p \in r PROVE p.tree \in DOMAIN Poset[c - 2] /\ Poset[c - 2][p.tree] = Value(g, p)
    <2>1. Cardinality(Layers(g, p)) - 1 <= c - 2
      BY <1>1, <1>3
    <2> QED BY <1>1, <1>2, <1>4, <2>1, PartDepth
  <1>6. ASSUME NEW src, NEW dst, NEW tree,
               tree \in DOMAIN Poset[c - 1],
               Poset[c - 1][tree].layers = U,
               Poset[c - 1][tree].twice = {},
               Poset[c - 1][tree].order = Closure(g) \cap (U \X U)
        PROVE  /\ Part(g, [src |-> src, dst |-> dst, tree |-> tree])
               /\ Layers(g, [src |-> src, dst |-> dst, tree |-> tree]) = U
    <2> DEFINE m == [src |-> src, dst |-> dst, tree |-> tree]
    <2>1. m = [src |-> m.src, dst |-> m.dst, tree |-> m.tree] /\ m.tree = tree
      OBVIOUS
    <2> HIDE DEF m
    <2>2. Value(g, m) = Poset[c - 1][tree]
      <3>1. Extends(Poset[c - 1], Poset[N])
        BY <1>1, <1>4, PosetGrows
      <3>2. Value(g, m) = Poset[N][tree]
        BY <2>1 DEF Value
      <3> QED BY <1>6, <3>1, <3>2 DEF Extends
    <2>3. Layers(g, m) = U
      BY <1>6, <2>2 DEF Layers
    <2>4. U # {} /\ U \subseteq g.nodes
      BY <1>2 DEF Union
    <2>5. Value(g, m).twice = {} /\ Value(g, m).order = Closure(g) \cap (U \X U)
      BY <1>6, <2>2
    <2>6. m.tree \in DOMAIN Poset[Cardinality(Layers(g, m)) - 1]
      BY <1>6, <2>1, <2>3
    <2>7. Part(g, m)
      BY <2>1, <2>3, <2>4, <2>5, <2>6 DEF Part
    <2> QED BY <2>3, <2>7 DEF m
  <1> DEFINE d == c - 2
  <1>7. d \in Nat /\ d + 1 = c - 1
    BY <1>4
  <1>8. Composable(g, r, d)
    BY <1>5, <1>6, <1>7 DEF Composable
  <1> HIDE DEF d
  <1> QED BY <1>7, <1>8

\* A parallel reduction replaces edges with the same ends by one.
LEMMA ParallelReplaces ==
    ASSUME NEW g, NEW pos, IsRanked(g, pos), NEW E, Net(g, E), NEW r, r \subseteq E,
           NEW p0 \in r, NEW q0 \in r, p0 # q0, NEW src, NEW dst,
           \A e \in r : e.src = src /\ e.dst = dst
    PROVE  Replaces(g, E, r, [src |-> src, dst |-> dst,
                              tree |-> parallel_composition({e.tree : e \in r})])
  <1> DEFINE T == {e.tree : e \in r}
             tree == parallel_composition(T)
             m == [src |-> src, dst |-> dst, tree |-> tree]
             C == Closure(g)
             L(p) == Layers(g, p)
             U == Union(g, r)
  <1>1. Parted(g, E) /\ Joined(g, E) /\ Led(g, E)
    BY DEF Net
  <1>0. PICK d \in Nat : Composable(g, r, d)
    <2> HIDE DEF T, tree, m
    <2> QED BY <1>1, Composed
  <1>2. /\ \A p \in r : p.tree \in DOMAIN Poset[d] /\ Poset[d][p.tree] = Value(g, p)
        /\ \A s, t, tr :
              /\ tr \in DOMAIN Poset[d + 1]
              /\ Poset[d + 1][tr].layers = Union(g, r)
              /\ Poset[d + 1][tr].twice = {}
              /\ Poset[d + 1][tr].order = Closure(g) \cap (Union(g, r) \X Union(g, r))
              => /\ Part(g, [src |-> s, dst |-> t, tree |-> tr])
                 /\ Layers(g, [src |-> s, dst |-> t, tree |-> tr]) = Union(g, r)
    BY <1>0 DEF Composable
  <1>3. \A p \in r : p \in E /\ Part(g, p)
    BY <1>1 DEF Parted
  <1>4. \A x : x \in U <=> \E p \in r : x \in L(p)
    BY <1>3 DEF Union, Part
  <1>5. T \in SUBSET DOMAIN Poset[d]
    BY <1>2
  <1>6. \A t \in T : Poset[d][t].twice = {}
    BY <1>2, <1>3 DEF Part
  <1>7. ASSUME NEW t \in T, NEW u \in T, t # u
        PROVE  Poset[d][t].layers \cap Poset[d][u].layers = {}
    <2>1. PICK p \in r : p.tree = t
      OBVIOUS
    <2>2. PICK q \in r : q.tree = u
      OBVIOUS
    <2>3. Poset[d][t].layers = Layers(g, p) /\ Poset[d][u].layers = Layers(g, q) /\ p # q
      BY <1>2, <1>7, <2>1, <2>2 DEF Layers
    <2> QED BY <1>1, <1>3, <2>3 DEF Parted
  <1>8. /\ tree \in DOMAIN Poset[d + 1]
        /\ \A x : x \in Poset[d + 1][tree].layers <=> \E t \in T : x \in Poset[d][t].layers
        /\ \A x : x \in Poset[d + 1][tree].order <=> \E t \in T : x \in Poset[d][t].order
        /\ Poset[d + 1][tree].twice = {}
    <2> HIDE DEF T
    <2> QED BY <1>5, <1>6, <1>7, ParallelComposed
  <1>9. /\ \A x : (\E t \in T : x \in Poset[d][t].layers) <=> \E p \in r : x \in L(p)
        /\ \A x : (\E t \in T : x \in Poset[d][t].order) <=> \E p \in r : x \in C \cap (L(p) \X L(p))
    <2>1. \A p \in r : Poset[d][p.tree].layers = L(p) /\ Poset[d][p.tree].order = C \cap (L(p) \X L(p))
      BY <1>2, <1>3 DEF Part, Layers
    <2> HIDE DEF C, L
    <2> QED BY <2>1
  <1> HIDE DEF T, tree, U, L, C
  <1>10. Poset[d + 1][tree].layers = U
    BY <1>4, <1>8, <1>9
  <1>11. ASSUME NEW p \in r, NEW q \in r, NEW x \in L(p), NEW y \in L(q), <<x, y>> \in C
         PROVE  p = q
    <2> SUFFICES ASSUME p # q PROVE FALSE
      OBVIOUS
    <2>1. Leads(g, E, p, q)
      BY <1>1, <1>3, <1>11 DEF Led, Touches, L, C
    <2>2. p.dst # q.src
      <3>1. q.src = p.src
        OBVIOUS
      <3> QED BY <1>1, <1>3, <3>1, FollowsFacts DEF Joined
    <2>3. PICK h \in E : p.dst = h.src /\ Follows(g, h, q)
      BY <2>1, <2>2 DEF Leads
    <2>4. Follows(g, q, h)
      <3>1. q.dst = h.src
        BY <2>3
      <3> QED BY <1>1, <1>3, <3>1 DEF Joined
    <2> QED BY <1>1, <1>3, <2>3, <2>4, FollowsFacts
  <1>12. \A x \in C : x = <<x[1], x[2]>>
    BY ClosureFacts DEF C, Pairs, IsRanked
  <1>13. Poset[d + 1][tree].order = C \cap (U \X U)
    <2>1. ASSUME NEW x, x \in C \cap (U \X U) PROVE \E p \in r : x \in C \cap (L(p) \X L(p))
      <3>1. x = <<x[1], x[2]>> /\ x[1] \in U /\ x[2] \in U /\ x \in C
        BY <2>1
      <3>2. PICK p \in r : x[1] \in L(p)
        BY <1>4, <3>1
      <3>3. PICK q \in r : x[2] \in L(q)
        BY <1>4, <3>1
      <3>4. p = q
        BY <1>11, <3>1, <3>2, <3>3
      <3>5. x \in L(p) \X L(p)
        BY <3>1, <3>2, <3>3, <3>4
      <3> QED BY <3>1, <3>5
    <2>2. ASSUME NEW x, NEW p \in r, x \in C \cap (L(p) \X L(p)) PROVE x \in C \cap (U \X U)
      <3>1. L(p) \subseteq U
        BY <1>4
      <3> QED BY <2>2, <3>1
    <2> QED BY <1>8, <1>9, <2>1, <2>2
  <1>14. Part(g, m) /\ Layers(g, m) = U
    BY <1>2, <1>8, <1>10, <1>13 DEF U, C
  <1>15. \A x : x \in Layers(g, m) <=> \E p \in r : x \in Layers(g, p)
    BY <1>4, <1>14 DEF L
  <1>16. ASSUME NEW e \in E \ r, NEW p \in r, NEW q \in r
         PROVE  /\ Follows(g, e, p) => Follows(g, e, q)
                /\ Follows(g, p, e) => Follows(g, q, e)
    <2>1. p.src = q.src /\ p.dst = q.dst /\ p \in E /\ q \in E /\ e \in E
      OBVIOUS
    <2> QED BY <2>1, SameEnds
  <1>17. m.src = src /\ m.dst = dst
    OBVIOUS
  <1>18. \A p \in r : p.src = m.src /\ p.dst = m.dst
    BY <1>17
  <1>19. \A p \in r : p.src # p.dst
    BY <1>1, <1>3, FollowsFacts DEF Joined
  <1>20. \A p \in r : p.dst # m.src /\ p.src # m.dst
    BY <1>18, <1>19
  <1> HIDE DEF m
  <1>21. Replaces(g, E, r, m)
    BY <1>14, <1>15, <1>16, <1>18, <1>20 DEF Replaces
  <1> QED BY <1>21 DEF m, tree, T

-----------------------------------------------------------------------------
(***************************************************************************)
(* Strands.                                                                *)
(***************************************************************************)
IsStrand(E, s) ==
    /\ s \in Seq(E) /\ Len(s) >= 2
    /\ \A i \in 1..(Len(s) - 1) :
          /\ s[i + 1].src = s[i].dst
          /\ \A e \in E : e.dst = s[i].dst => e = s[i]
          /\ \A e \in E : e.src = s[i].dst => e = s[i + 1]

\* The edges of a strand come one after the other.
LEMMA StrandFollows ==
    ASSUME NEW g, NEW pos, IsRanked(g, pos), NEW E, Net(g, E), NEW s, IsStrand(E, s)
    PROVE  /\ \A i, j \in 1..Len(s) : i < j => Follows(g, s[i], s[j])
           /\ \A i, j \in 1..Len(s) : s[i] = s[j] => i = j
  <1> DEFINE n == Len(s)
  <1>1. n \in Nat /\ n >= 2 /\ \A i \in 1..n : s[i] \in E
    BY LenProperties, ElementOfSeq DEF IsStrand
  <1>2. \A i \in 1..(n - 1) : s[i + 1].src = s[i].dst
    BY DEF IsStrand
  <1>3. Joined(g, E) /\ Parted(g, E)
    BY DEF Net
  <1> HIDE DEF n
  <1> DEFINE S == {j \in 0..n : \A i \in 1..n : i < j => Follows(g, s[i], s[j])}
  <1>4. 0 \in S
    BY <1>1
  <1>5. ASSUME NEW j \in 1..n, j - 1 \in S PROVE j \in S
    <2> SUFFICES ASSUME NEW i \in 1..n, i < j PROVE Follows(g, s[i], s[j])
      BY <1>1
    <2>1. j - 1 \in 1..(n - 1) /\ (j - 1) + 1 = j /\ j - 1 \in 1..n
      BY <1>1
    <2>2. s[j - 1].dst = s[j].src
      BY <1>2, <2>1
    <2>3. Follows(g, s[j - 1], s[j])
      BY <1>1, <1>3, <2>1, <2>2 DEF Joined
    <2>4. CASE i = j - 1
      BY <2>3, <2>4
    <2>5. CASE i # j - 1
      <3>1. i < j - 1
        BY <1>1, <2>1, <2>5
      <3>2. Follows(g, s[i], s[j - 1])
        BY <1>5, <3>1
      <3> QED BY <1>1, <1>3, <2>1, <2>3, <3>2, FollowsFacts
    <2> QED BY <2>4, <2>5
  <1>6. \A j \in 0..n : j \in S
    <2> HIDE DEF S
    <2> QED BY <1>1, <1>4, <1>5, UpTo
  <1>7. \A i, j \in 1..n : i < j => Follows(g, s[i], s[j])
    BY <1>1, <1>6
  <1>8. ASSUME NEW i \in 1..n, NEW j \in 1..n, s[i] = s[j] PROVE i = j
    <2>1. i < j \/ j < i \/ i = j
      BY <1>1
    <2>2. ~Follows(g, s[i], s[i]) /\ ~Follows(g, s[j], s[j])
      BY <1>1, <1>3, FollowsFacts
    <2>3. ~(i < j)
      BY <1>7, <1>8, <2>2
    <2>4. ~(j < i)
      BY <1>7, <1>8, <2>2
    <2> QED BY <2>1, <2>3, <2>4
  <1> QED BY <1>7, <1>8 DEF n

\* What comes before a part of a strand comes before all of it, and after.
LEMMA StrandIsOne ==
    ASSUME NEW g, NEW pos, IsRanked(g, pos), NEW E, Net(g, E), NEW s, IsStrand(E, s),
           NEW e \in E, e \notin Elements(s), NEW k \in 1..Len(s)
    PROVE  /\ Follows(g, e, s[k]) => \A j \in 1..Len(s) : Follows(g, e, s[j])
           /\ Follows(g, s[k], e) => \A j \in 1..Len(s) : Follows(g, s[j], e)
  <1> DEFINE n == Len(s)
  <1>1. n \in Nat /\ n >= 2 /\ (\A i \in 1..n : s[i] \in E) /\ k \in 1..n
    BY LenProperties, ElementOfSeq DEF IsStrand
  <1>2. \A i \in 1..(n - 1) : /\ s[i + 1].src = s[i].dst
                              /\ \A h \in E : h.dst = s[i].dst => h = s[i]
                              /\ \A h \in E : h.src = s[i].dst => h = s[i + 1]
    BY DEF IsStrand
  <1>3. Parted(g, E) /\ \A d, f \in E : Follows(g, d, f) => Leads(g, E, d, f)
    BY FollowsFacts DEF Net, Led
  <1>4. \A i \in 1..n : e # s[i]
    BY DEF Elements
  <1>5. \A i, j \in 1..n : i < j => Follows(g, s[i], s[j])
    BY StrandFollows
  <1> HIDE DEF n
  <1>6. ASSUME Follows(g, e, s[k]) PROVE \A j \in 1..n : Follows(g, e, s[j])
    <2> DEFINE S == {j \in 0..n : j >= 1 /\ Follows(g, e, s[j]) => Follows(g, e, s[1])}
    <2>1. 0 \in S
      BY <1>1
    <2>2. ASSUME NEW j \in 1..n, j - 1 \in S PROVE j \in S
      <3> SUFFICES ASSUME Follows(g, e, s[j]) PROVE Follows(g, e, s[1])
        BY <1>1
      <3>1. CASE j = 1
        BY <3>1
      <3>2. CASE j # 1
        <4>1. j - 1 \in 1..(n - 1) /\ (j - 1) + 1 = j /\ j - 1 \in 1..n
          BY <1>1, <3>2
        <4>2. s[j].src = s[j - 1].dst /\ \A h \in E : h.dst = s[j - 1].dst => h = s[j - 1]
          BY <1>2, <4>1
        <4>3. Leads(g, E, e, s[j])
          BY <1>1, <1>3
        <4>4. e.dst # s[j].src
          BY <1>4, <4>1, <4>2
        <4>5. Follows(g, e, s[j - 1])
          BY <4>2, <4>3, <4>4 DEF Leads
        <4> QED BY <2>2, <4>1, <4>5
      <3> QED BY <3>1, <3>2
    <2>3. \A j \in 0..n : j \in S
      <3> HIDE DEF S
      <3> QED BY <1>1, <2>1, <2>2, UpTo
    <2>4. Follows(g, e, s[1])
      <3>1. k \in 0..n /\ k >= 1
        BY <1>1
      <3> QED BY <1>6, <2>3, <3>1
    <2>5. ASSUME NEW j \in 1..n PROVE Follows(g, e, s[j])
      <3>1. 1 \in 1..n /\ (j # 1 => 1 < j)
        BY <1>1
      <3>2. j # 1 => Follows(g, s[1], s[j])
        BY <1>5, <3>1
      <3> QED BY <1>1, <1>3, <2>4, <3>1, <3>2, FollowsFacts
    <2> QED BY <2>5
  <1>7. ASSUME Follows(g, s[k], e) PROVE \A j \in 1..n : Follows(g, s[j], e)
    <2> DEFINE S == {j \in 0..n : j >= k => Follows(g, s[j], e)}
    <2>1. 0 \in S
      BY <1>1
    <2>2. ASSUME NEW j \in 1..n, j - 1 \in S PROVE j \in S
      <3> SUFFICES ASSUME j >= k PROVE Follows(g, s[j], e)
        BY <1>1
      <3>1. CASE j = k
        BY <1>7, <3>1
      <3>2. CASE j # k
        <4>1. j - 1 \in 1..(n - 1) /\ (j - 1) + 1 = j /\ j - 1 \in 1..n /\ j - 1 >= k
          BY <1>1, <3>2
        <4>2. s[j].src = s[j - 1].dst /\ \A h \in E : h.src = s[j - 1].dst => h = s[j]
          BY <1>2, <4>1
        <4>3. Follows(g, s[j - 1], e)
          BY <2>2, <4>1
        <4>4. Leads(g, E, s[j - 1], e)
          BY <1>1, <1>3, <4>1, <4>3
        <4>5. e.src # s[j - 1].dst
          BY <1>4, <4>2
        <4>6. PICK h \in E : s[j - 1].dst = h.src /\ Follows(g, h, e)
          BY <4>4, <4>5 DEF Leads
        <4> QED BY <4>2, <4>6
      <3> QED BY <3>1, <3>2
    <2>3. \A j \in 0..n : j \in S
      <3> HIDE DEF S
      <3> QED BY <1>1, <2>1, <2>2, UpTo
    <2>4. n \in 1..n /\ Follows(g, s[n], e)
      <3>1. n \in 0..n /\ n >= k /\ n \in 1..n
        BY <1>1
      <3> QED BY <2>3, <3>1
    <2>5. ASSUME NEW j \in 1..n PROVE Follows(g, s[j], e)
      <3>1. j # n => j < n
        BY <1>1
      <3>2. j # n => Follows(g, s[j], s[n])
        BY <1>5, <2>4, <3>1
      <3> QED BY <1>1, <1>3, <2>4, <3>2, FollowsFacts
    <2> QED BY <2>5
  <1> QED BY <1>6, <1>7 DEF n

\* A series reduction replaces a strand by one edge.
LEMMA SeriesReplaces ==
    ASSUME NEW g, NEW pos, IsRanked(g, pos), NEW E, Net(g, E), NEW s, IsStrand(E, s)
    PROVE  Replaces(g, E, Elements(s),
                    [src |-> Head(s).src, dst |-> Last(s).dst,
                     tree |-> series_composition([i \in 1..Len(s) |-> s[i].tree])])
  <1> DEFINE n == Len(s)
             r == Elements(s)
             ts == [i \in 1..n |-> s[i].tree]
             tree == series_composition(ts)
             m == [src |-> Head(s).src, dst |-> Last(s).dst, tree |-> tree]
             C == Closure(g)
             L(p) == Layers(g, p)
             U == Union(g, r)
  <1>1. /\ n \in Nat /\ n >= 2 /\ (\A i \in 1..n : s[i] \in E) /\ 1 \in 1..n /\ n \in 1..n /\ 2 \in 1..n
        /\ r \subseteq E /\ \A p \in r : \E i \in 1..n : p = s[i]
    BY LenProperties, ElementOfSeq DEF IsStrand, Elements
  <1>2. /\ \A i \in 1..n : s[i] \in r
        /\ \A i, j \in 1..n : i < j => Follows(g, s[i], s[j])
        /\ \A i, j \in 1..n : i # j => s[i] # s[j]
    BY StrandFollows DEF Elements
  <1>3. Parted(g, E) /\ Joined(g, E) /\ Led(g, E)
    BY DEF Net
  <1>4. Head(s) = s[1] /\ Last(s) = s[n]
    BY <1>1 DEF Last, IsStrand
  <1>5. s[1] \in r /\ s[2] \in r /\ s[1] # s[2]
    BY <1>1, <1>2
  <1>0. PICK d \in Nat : Composable(g, r, d)
    <2> HIDE DEF r
    <2>1. PICK p0 \in r, q0 \in r : p0 # q0
      BY <1>5
    <2>2. r \subseteq E /\ Parted(g, E)
      BY <1>1, <1>3
    <2> QED BY <2>1, <2>2, Composed
  <1>6. /\ \A p \in r : p.tree \in DOMAIN Poset[d] /\ Poset[d][p.tree] = Value(g, p)
        /\ \A a, b, tr :
              /\ tr \in DOMAIN Poset[d + 1]
              /\ Poset[d + 1][tr].layers = Union(g, r)
              /\ Poset[d + 1][tr].twice = {}
              /\ Poset[d + 1][tr].order = Closure(g) \cap (Union(g, r) \X Union(g, r))
              => /\ Part(g, [src |-> a, dst |-> b, tree |-> tr])
                 /\ Layers(g, [src |-> a, dst |-> b, tree |-> tr]) = Union(g, r)
    BY <1>0 DEF Composable
  <1> HIDE DEF r, n
  <1>7. \A i \in 1..n : Part(g, s[i])
    BY <1>1, <1>3 DEF Parted
  <1>8. \A x : x \in U <=> \E i \in 1..n : x \in L(s[i])
    <2>1. \A x : x \in U => \E i \in 1..n : x \in L(s[i])
      BY <1>1 DEF Union
    <2>2. ASSUME NEW x, NEW i \in 1..n, x \in L(s[i]) PROVE x \in U
      <3>1. x \in g.nodes
        BY <1>7, <2>2 DEF Part
      <3> QED BY <1>2, <2>2, <3>1 DEF Union
    <2> QED BY <2>1, <2>2
  <1>9. ts \in Seq(DOMAIN Poset[d]) /\ DOMAIN ts = 1..n /\ \A i \in 1..n : ts[i] = s[i].tree
    <2>1. \A i \in 1..n : s[i].tree \in DOMAIN Poset[d]
      BY <1>2, <1>6
    <2> QED BY <1>1, <2>1
  <1>10. ts # <<>>
    <2>1. 1 \in DOMAIN ts
      BY <1>1
    <2> QED BY <2>1
  <1> HIDE DEF ts
  <1> DEFINE ps == [i \in DOMAIN ts |-> Poset[d][ts[i]]]
  <1>11. /\ tree \in DOMAIN Poset[d + 1]
         /\ Poset[d + 1][tree] = InSeries(ps)
    BY <1>9, <1>10, SeriesComposed DEF Strung
  <1>12. /\ DOMAIN ps = 1..n
         /\ \A i \in 1..n : /\ ps[i].layers = L(s[i])
                            /\ ps[i].order = C \cap (L(s[i]) \X L(s[i]))
                            /\ ps[i].twice = {}
    <2>1. \A i \in 1..n : ps[i] = Value(g, s[i])
      BY <1>2, <1>6, <1>9
    <2> HIDE DEF ps
    <2>2. \A i \in 1..n : ps[i].layers = L(s[i])
      BY <2>1 DEF Layers
    <2>3. \A i \in 1..n : ps[i].order = C \cap (L(s[i]) \X L(s[i])) /\ ps[i].twice = {}
      BY <1>7, <2>1 DEF Part
    <2>4. DOMAIN ps = 1..n
      BY <1>9 DEF ps
    <2> QED BY <2>2, <2>3, <2>4
  <1>13. /\ \A x : x \in InSeries(ps).layers <=> \E i \in DOMAIN ps : x \in ps[i].layers
         /\ \A x : x \in InSeries(ps).order <=>
                      \/ \E i \in DOMAIN ps : x \in ps[i].order
                      \/ \E i, j \in DOMAIN ps : i < j /\ x \in ps[i].layers \X ps[j].layers
         /\ \A x : x \in InSeries(ps).twice <=>
                      \/ \E i \in DOMAIN ps : x \in ps[i].twice
                      \/ \E i, j \in DOMAIN ps : i # j /\ x \in ps[i].layers /\ x \in ps[j].layers
    BY SeriesMeans
  <1>14. \A i, j \in 1..n : i < j => \A x \in L(s[i]), y \in L(s[j]) : <<x, y>> \in C
    BY <1>2 DEF Follows
  <1>15. \A i, j \in 1..n : i # j => \A x : ~(x \in L(s[i]) /\ x \in L(s[j]))
    BY <1>1, <1>2, <1>3 DEF Parted
  <1>16. /\ \A x \in C : x = <<x[1], x[2]>>
         /\ \A x, y : <<x, y>> \in C => <<y, x>> \notin C
    <2>1. \A x \in C : x = <<x[1], x[2]>>
      BY ClosureFacts DEF Pairs, IsRanked
    <2>2. \A x, y : <<x, y>> \in C /\ <<y, x>> \in C => <<x, x>> \in C
      BY ClosureFacts DEF IsTransitive, IsRanked
    <2>3. \A x : <<x, x>> \notin C
      BY ClosureIsRanked
    <2> QED BY <2>1, <2>2, <2>3
  <1> HIDE DEF ps, U, L, C, tree
  <1>17. InSeries(ps).layers = U
    <2>1. \A x : (\E i \in DOMAIN ps : x \in ps[i].layers) <=> \E i \in 1..n : x \in L(s[i])
      BY <1>12
    <2>2. \A x : x \in InSeries(ps).layers <=> x \in U
      BY <1>8, <1>13, <2>1
    <2> QED BY <2>2
  <1>18. InSeries(ps).twice = {}
    <2>1. ASSUME NEW x, NEW i \in DOMAIN ps, x \in ps[i].twice PROVE FALSE
      BY <1>12, <2>1
    <2>2. ASSUME NEW x, NEW i \in DOMAIN ps, NEW j \in DOMAIN ps, i # j,
                 x \in ps[i].layers, x \in ps[j].layers
          PROVE  FALSE
      <3>1. i \in 1..n /\ j \in 1..n /\ x \in L(s[i]) /\ x \in L(s[j])
        BY <1>12, <2>2
      <3> QED BY <1>15, <2>2, <3>1
    <2>3. \A x : x \notin InSeries(ps).twice
      BY <1>13, <2>1, <2>2
    <2> QED BY <2>3
  <1>19. InSeries(ps).order = C \cap (U \X U)
    <2>1. ASSUME NEW x, x \in InSeries(ps).order PROVE x \in C \cap (U \X U)
      <3>1. \/ \E i \in 1..n : x \in C \cap (L(s[i]) \X L(s[i]))
            \/ \E i, j \in 1..n : i < j /\ x \in L(s[i]) \X L(s[j])
        BY <1>12, <1>13, <2>1
      <3>2. CASE \E i \in 1..n : x \in C \cap (L(s[i]) \X L(s[i]))
        <4>1. PICK i \in 1..n : x \in C \cap (L(s[i]) \X L(s[i]))
          BY <3>2
        <4>2. L(s[i]) \subseteq U
          BY <1>8
        <4> QED BY <4>1, <4>2
      <3>3. CASE \E i, j \in 1..n : i < j /\ x \in L(s[i]) \X L(s[j])
        <4>1. PICK i \in 1..n, j \in 1..n : i < j /\ x \in L(s[i]) \X L(s[j])
          BY <3>3
        <4>2. x = <<x[1], x[2]>> /\ x[1] \in L(s[i]) /\ x[2] \in L(s[j])
          BY <4>1
        <4>3. x[1] \in U /\ x[2] \in U /\ <<x[1], x[2]>> \in C
          BY <1>8, <1>14, <4>1, <4>2
        <4> QED BY <4>2, <4>3
      <3> QED BY <3>1, <3>2, <3>3
    <2>2. ASSUME NEW x, x \in C \cap (U \X U) PROVE x \in InSeries(ps).order
      <3>1. x = <<x[1], x[2]>> /\ x[1] \in U /\ x[2] \in U /\ x \in C
        BY <2>2
      <3>2. PICK i \in 1..n : x[1] \in L(s[i])
        BY <1>8, <3>1
      <3>3. PICK j \in 1..n : x[2] \in L(s[j])
        BY <1>8, <3>1
      <3>4. x \in L(s[i]) \X L(s[j])
        BY <3>1, <3>2, <3>3
      <3>5. CASE i = j
        BY <1>12, <1>13, <3>1, <3>4, <3>5
      <3>6. CASE i < j
        BY <1>12, <1>13, <3>4, <3>6
      <3>7. CASE j < i
        <4>1. <<x[2], x[1]>> \in C /\ <<x[1], x[2]>> \in C
          BY <1>14, <3>1, <3>2, <3>3, <3>7
        <4> QED BY <1>16, <4>1
      <3>8. i = j \/ i < j \/ j < i
        BY <1>1
      <3> QED BY <3>5, <3>6, <3>7, <3>8
    <2> QED BY <2>1, <2>2
  <1>20. Part(g, m) /\ Layers(g, m) = U
    BY <1>6, <1>11, <1>17, <1>18, <1>19 DEF U, C
  <1>21. \A x : x \in Layers(g, m) <=> \E p \in r : x \in Layers(g, p)
    BY <1>1, <1>2, <1>8, <1>20 DEF L
  <1>22. ASSUME NEW e \in E \ r, NEW p \in r, NEW q \in r
         PROVE  /\ Follows(g, e, p) => Follows(g, e, q)
                /\ Follows(g, p, e) => Follows(g, q, e)
    <2>1. PICK i \in 1..n : p = s[i]
      BY <1>1
    <2>2. PICK j \in 1..n : q = s[j]
      BY <1>1
    <2>3. e \in E /\ e \notin Elements(s)
      BY DEF r
    <2> QED BY <2>1, <2>2, <2>3, StrandIsOne DEF n
  <1>23. m.src = s[1].src /\ m.dst = s[n].dst
    BY <1>4
  <1>24. \A i \in 1..(n - 1) : /\ s[i + 1].src = s[i].dst
                               /\ \A h \in E : h.dst = s[i].dst => h = s[i]
                               /\ \A h \in E : h.src = s[i].dst => h = s[i + 1]
    BY DEF IsStrand, n
  <1> HIDE DEF m
  <1>25. ASSUME NEW e \in E \ r, NEW p \in r
         PROVE  /\ e.dst = p.src => p.src = m.src
                /\ p.dst = e.src => p.dst = m.dst
    <2>1. PICK i \in 1..n : p = s[i]
      BY <1>1
    <2>2. ASSUME e.dst = p.src, i # 1 PROVE FALSE
      <3>1. i - 1 \in 1..(n - 1) /\ (i - 1) + 1 = i /\ i - 1 \in 1..n
        BY <1>1, <2>2
      <3>2. s[i].src = s[i - 1].dst /\ \A h \in E : h.dst = s[i - 1].dst => h = s[i - 1]
        BY <1>24, <3>1
      <3>3. e = s[i - 1]
        BY <2>1, <2>2, <3>2
      <3> QED BY <1>2, <3>1, <3>3
    <2>3. ASSUME p.dst = e.src, i # n PROVE FALSE
      <3>1. i \in 1..(n - 1) /\ i + 1 \in 1..n
        BY <1>1, <2>3
      <3>2. e = s[i + 1]
        BY <1>24, <2>1, <2>3, <3>1
      <3> QED BY <1>2, <3>1, <3>2
    <2> QED BY <1>23, <2>1, <2>2, <2>3
  <1>26. ASSUME NEW p \in r PROVE p.dst # m.src /\ p.src # m.dst
    <2>1. PICK i \in 1..n : p = s[i]
      BY <1>1
    <2>2. ~(s[i].dst = s[1].src)
      <3> SUFFICES ASSUME s[i].dst = s[1].src PROVE FALSE
        OBVIOUS
      <3>1. Follows(g, s[i], s[1])
        BY <1>1, <1>3 DEF Joined
      <3>2. i = 1 \/ 1 < i
        BY <1>1
      <3>3. i = 1 \/ Follows(g, s[1], s[i])
        BY <1>1, <1>2, <3>2
      <3> QED BY <1>1, <1>3, <3>1, <3>3, FollowsFacts
    <2>3. ~(s[n].dst = s[i].src)
      <3> SUFFICES ASSUME s[n].dst = s[i].src PROVE FALSE
        OBVIOUS
      <3>1. Follows(g, s[n], s[i])
        BY <1>1, <1>3 DEF Joined
      <3>2. i = n \/ i < n
        BY <1>1
      <3>3. i = n \/ Follows(g, s[i], s[n])
        BY <1>1, <1>2, <3>2
      <3> QED BY <1>1, <1>3, <3>1, <3>3, FollowsFacts
    <2> QED BY <1>23, <2>1, <2>2, <2>3
  <1>27. Replaces(g, E, r, m)
    <2>1. \E p \in r : p.src = m.src
      BY <1>1, <1>2, <1>23
    <2>2. \E p \in r : p.dst = m.dst
      BY <1>1, <1>2, <1>23
    <2> QED BY <1>1, <1>20, <1>21, <1>22, <1>25, <1>26, <2>1, <2>2 DEF Replaces
  <1> QED BY <1>27 DEF m, r, tree, ts, n

-----------------------------------------------------------------------------
(***************************************************************************)
(* The reductions found at once, and applied one after the other.          *)
(***************************************************************************)
SameEnded(r) == \A p, q \in r : p.src = q.src /\ p.dst = q.dst
ParallelPending(E, R) ==
    /\ \A r \in R : r \subseteq E /\ (\E p, q \in r : p # q) /\ SameEnded(r)
    /\ \A r, t \in R : r # t => r \cap t = {}
SeriesPending(E, R) ==
    /\ \A r \in R : IsStrand(E, r)
    /\ \A r, t \in R : r # t => Elements(r) \cap Elements(t) = {}

\* A node with one edge in and one edge out.
Inner(E, v) == Cardinality({e \in E : e.dst = v}) = 1 /\ Cardinality({e \in E : e.src = v}) = 1

\* The parallel reductions that are found can be applied one after the other, and
\* none is found only if no two edges are parallel.
LEMMA ParallelFound ==
    ASSUME NEW E, IsFiniteSet(E)
    PROVE  /\ ParallelPending(E, ParallelReductions(E))
           /\ ParallelReductions(E) = {} =>
                 \A p, q \in E : p.src = q.src /\ p.dst = q.dst => p = q
  <1> DEFINE K(e) == {f \in E : f.src = e.src /\ f.dst = e.dst}
             R == ParallelReductions(E)
  <1>1. \A r : r \in R <=> (\E e \in E : r = K(e)) /\ Cardinality(r) > 1
    BY DEF ParallelReductions
  <1>2. ASSUME NEW r, IsFiniteSet(r), Cardinality(r) > 1 PROVE \E p, q \in r : p # q
    <2>1. r # {}
      BY <1>2, FS_EmptySet
    <2>2. PICK p \in r : TRUE
      BY <2>1
    <2>3. r # {p}
      BY <1>2, FS_Singleton
    <2> QED BY <2>2, <2>3
  <1> HIDE DEF R
  <1>3. \A e \in E : IsFiniteSet(K(e)) /\ K(e) \subseteq E /\ SameEnded(K(e))
    <2> SUFFICES ASSUME NEW e \in E PROVE IsFiniteSet(K(e)) /\ K(e) \subseteq E /\ SameEnded(K(e))
      OBVIOUS
    <2>1. K(e) \in SUBSET E
      OBVIOUS
    <2>2. SameEnded(K(e))
      BY DEF SameEnded
    <2> HIDE DEF K
    <2> QED BY <2>1, <2>2, FS_Subset
  <1>4. \A r \in R : r \subseteq E /\ (\E p, q \in r : p # q) /\ SameEnded(r)
    BY <1>1, <1>2, <1>3
  <1>5. ASSUME NEW r \in R, NEW t \in R, r # t PROVE r \cap t = {}
    <2>1. PICK d \in E : r = K(d)
      BY <1>1
    <2>2. PICK e \in E : t = K(e)
      BY <1>1
    <2> QED BY <1>5, <2>1, <2>2
  <1>6. ASSUME R = {}, NEW p \in E, NEW q \in E, p.src = q.src, p.dst = q.dst PROVE p = q
    <2> SUFFICES ASSUME p # q PROVE FALSE
      OBVIOUS
    <2>1. K(p) \notin R
      BY <1>6
    <2>2. p \in K(p) /\ q \in K(p)
      BY <1>6
    <2> HIDE DEF K
    <2>3. ~(Cardinality(K(p)) > 1) /\ IsFiniteSet(K(p))
      BY <1>1, <1>3, <2>1
    <2>4. Cardinality(K(p)) \in Nat
      BY <2>3, FS_CardinalityType
    <2>5. Cardinality(K(p)) # 0 /\ Cardinality(K(p)) # 1
      <3>1. Cardinality(K(p)) = 0 => K(p) = {}
        BY <2>3, FS_EmptySet
      <3>2. Cardinality(K(p)) = 1 => \E x : K(p) = {x}
        BY <2>3, FS_Singleton
      <3> QED BY <2>2, <3>1, <3>2
    <2> QED BY <2>3, <2>4, <2>5
  <1> QED BY <1>4, <1>5, <1>6 DEF R, ParallelPending

\* Applying one leaves the others applicable.
LEMMA ParallelStillPending ==
    ASSUME NEW E, NEW R, ParallelPending(E, R), NEW r \in R, NEW m
    PROVE  ParallelPending((E \ r) \cup {m}, R \ {r})
  BY DEF ParallelPending

\* A node inside a strand has one edge on either side.
LEMMA InnerFacts ==
    ASSUME NEW E, IsFiniteSet(E), NEW v, Inner(E, v)
    PROVE  /\ \E e \in E : e.dst = v /\ \A f \in E : f.dst = v => f = e
           /\ \E e \in E : e.src = v /\ \A f \in E : f.src = v => f = e
  <1> DEFINE I == {e \in E : e.dst = v}
             O == {e \in E : e.src = v}
  <1>1. I \in SUBSET E /\ O \in SUBSET E
    OBVIOUS
  <1>2. IsFiniteSet(I) /\ IsFiniteSet(O)
    <2> HIDE DEF I, O
    <2> QED BY <1>1, FS_Subset
  <1>3. Cardinality(I) = 1 /\ Cardinality(O) = 1
    BY DEF Inner
  <1> HIDE DEF I, O
  <1>4. (\E x : I = {x}) /\ (\E x : O = {x})
    BY <1>2, <1>3, FS_Singleton
  <1>5. PICK e : I = {e}
    BY <1>4
  <1>6. PICK f : O = {f}
    BY <1>4
  <1>7. e \in E /\ e.dst = v /\ \A d \in E : d.dst = v => d = e
    BY <1>5 DEF I
  <1>8. f \in E /\ f.src = v /\ \A d \in E : d.src = v => d = f
    BY <1>6 DEF O
  <1> QED BY <1>7, <1>8

\* A strand follows the inner nodes as far as it gets.
FollowsInner(E, s) ==
    \A i \in 1..(Len(s) - 1) : Inner(E, s[i].dst) /\ s[i + 1].src = s[i].dst

\* Following a strand from its first edge passes only through nodes inside it.
LEMMA StrandFound ==
    ASSUME IsFiniteSet(ttsp), NEW e \in ttsp, InsideStrand(e.dst)
    PROVE  /\ Strand(e) \in Seq(ttsp) /\ Len(Strand(e)) >= 2 /\ Strand(e)[1] = e
           /\ FollowsInner(ttsp, Strand(e))
  <1> DEFINE A == Seq(ttsp)
             n == Cardinality(ttsp)
             next(s) == CHOOSE f \in EdgesFrom(Last(s).dst) : TRUE
             extend == [s \in A |-> IF InsideStrand(Last(s).dst) THEN Append(s, next(s)) ELSE s]
             step == [k \in Nat |-> extend]
             x == <<e>>
             follow == CHOOSE h : h = [k \in 0..n |-> IF k = 0 THEN x ELSE extend[h[k - 1]]]
  <1>1. Strand(e) = follow[n]
    BY Zenon DEF Strand
  <1>2. \A v : InsideStrand(v) <=> Inner(ttsp, v)
    BY DEF InsideStrand, EdgesInto, EdgesFrom, Inner
  <1>3. n \in Nat /\ n >= 1
    <2>1. ttsp # {}
      OBVIOUS
    <2> QED BY <2>1, FS_CardinalityType, FS_EmptySet
  <1>4. x \in A /\ Len(x) = 1 /\ x[1] = e
    OBVIOUS
  <1>5. \A s : Inner(ttsp, Last(s).dst) => next(s) \in ttsp /\ next(s).src = Last(s).dst
    <2> SUFFICES ASSUME NEW s, Inner(ttsp, Last(s).dst)
                 PROVE  next(s) \in ttsp /\ next(s).src = Last(s).dst
      OBVIOUS
    <2>1. \E f : f \in EdgesFrom(Last(s).dst)
      BY InnerFacts DEF EdgesFrom
    <2>2. next(s) \in EdgesFrom(Last(s).dst)
      BY <2>1, Zenon
    <2> HIDE DEF next
    <2> QED BY <2>2 DEF EdgesFrom
  <1> HIDE DEF next
  <1>6. \A s \in A : extend[s] = IF Inner(ttsp, Last(s).dst) THEN Append(s, next(s)) ELSE s
    BY <1>2
  <1>7. extend \in [A -> A]
    <2>1. \A s \in A : (IF InsideStrand(Last(s).dst) THEN Append(s, next(s)) ELSE s) \in A
      BY <1>2, <1>5, AppendProperties
    <2> HIDE DEF A
    <2> QED BY <2>1
  <1>8. step \in [Nat -> [A -> A]] /\ \A k \in Nat : step[k] = extend
    BY <1>7
  <1> HIDE DEF extend, step, n, x, A, follow
  <1>9. PICK i : IsIteration(i, A, x, step, n)
    BY <1>3, <1>4, <1>8, Iteration
  <1>10. i = [k \in 0..n |-> i[k]] /\ i[0] = x /\ \A k \in 1..n : i[k] = extend[i[k - 1]]
    BY <1>3, <1>8, <1>9 DEF IsIteration
  <1>11. \A k \in 0..n : i[k] = IF k = 0 THEN x ELSE extend[i[k - 1]]
    <2>1. \A k \in 0..n : k # 0 => k \in 1..n
      BY <1>3
    <2> QED BY <1>10, <2>1, Zenon
  <1>12. i = [k \in 0..n |-> IF k = 0 THEN x ELSE extend[i[k - 1]]]
    BY <1>10, <1>11, Zenon
  <1>13. follow = [k \in 0..n |-> IF k = 0 THEN x ELSE extend[follow[k - 1]]]
    BY <1>12, Zenon DEF follow
  <1>14. \A k \in 0..n : follow[k] = IF k = 0 THEN x ELSE extend[follow[k - 1]]
    BY <1>13, Zenon
  <1> DEFINE Good(s) == s \in A /\ Len(s) >= 1 /\ s[1] = e /\ FollowsInner(ttsp, s)
             S == {k \in 0..n : Good(follow[k]) /\ (k >= 1 => Len(follow[k]) >= 2)}
  <1>15. 0 \in S
    <2>1. 0 \in 0..n /\ follow[0] = x
      BY <1>3, <1>14
    <2>2. FollowsInner(ttsp, x)
      BY <1>4 DEF FollowsInner
    <2>3. ~(0 >= 1) /\ 1 >= 1
      OBVIOUS
    <2> QED BY <1>4, <2>1, <2>2, <2>3
  <1>16. ASSUME NEW k \in 1..n, k - 1 \in S PROVE k \in S
    <2> DEFINE s == follow[k - 1]
    <2>1. k \in 0..n /\ k # 0 /\ follow[k] = extend[s]
      BY <1>3, <1>14
    <2>2. Good(s) /\ (k - 1 >= 1 => Len(s) >= 2)
      BY <1>16
    <2>22. s \in Seq(ttsp) /\ Len(s) \in Nat /\ Len(s) >= 1 /\ Last(s) = s[Len(s)]
      BY <2>2, LenProperties DEF A, Last
    <2> HIDE DEF s
    <2>3. CASE Inner(ttsp, Last(s).dst)
      <3> DEFINE f == next(s)
                 t == Append(s, f)
                 l == Len(s)
      <3>1. f \in ttsp /\ f.src = s[l].dst
        BY <1>5, <2>3, <2>22
      <3>2. follow[k] = t
        BY <1>6, <2>1, <2>2, <2>3
      <3> HIDE DEF f
      <3>3. /\ t \in Seq(ttsp) /\ Len(t) = l + 1 /\ t[l + 1] = f
            /\ \A j \in 1..l : t[j] = s[j]
        BY <2>22, <3>1, AppendProperties
      <3>5. l \in Nat /\ l >= 1 /\ Inner(ttsp, s[l].dst)
        BY <2>3, <2>22
      <3> HIDE DEF t, l
      <3>4. FollowsInner(ttsp, t)
        <4> SUFFICES ASSUME NEW j \in 1..(Len(t) - 1)
                     PROVE  Inner(ttsp, t[j].dst) /\ t[j + 1].src = t[j].dst
          BY DEF FollowsInner
        <4>1. j \in 1..l
          BY <3>3, <3>5
        <4>2. CASE j = l
          BY <3>1, <3>3, <3>5, <4>1, <4>2
        <4>3. CASE j # l
          <5>1. j \in 1..(l - 1) /\ j + 1 \in 1..l
            BY <3>5, <4>1, <4>3
          <5>2. Inner(ttsp, s[j].dst) /\ s[j + 1].src = s[j].dst
            BY <2>2, <5>1 DEF FollowsInner, l
          <5> QED BY <3>3, <4>1, <5>1, <5>2
        <4> QED BY <4>2, <4>3
      <3>6. t[1] = e /\ Len(t) >= 1 /\ Len(t) >= 2
        <4>1. 1 \in 1..l
          BY <3>5
        <4> QED BY <2>2, <3>3, <3>5, <4>1
      <3> QED BY <2>1, <3>2, <3>3, <3>4, <3>6 DEF A
    <2>4. CASE ~Inner(ttsp, Last(s).dst)
      <3>1. follow[k] = s
        BY <1>6, <2>1, <2>2, <2>4
      <3>2. k # 1
        <4> SUFFICES ASSUME k = 1 PROVE FALSE
          OBVIOUS
        <4>1. s = x
          <5>1. k - 1 = 0 /\ 0 \in 0..n
            BY <1>3
          <5> QED BY <1>14, <5>1 DEF s
        <4>2. Last(s) = e
          BY <1>4, <2>22, <4>1
        <4> QED BY <1>2, <2>4, <4>2
      <3>3. k - 1 >= 1
        BY <3>2
      <3> QED BY <2>1, <2>2, <3>1, <3>3
    <2> QED BY <2>3, <2>4
  <1>17. \A k \in 0..n : k \in S
    <2> HIDE DEF S
    <2> QED BY <1>3, <1>15, <1>16, UpTo
  <1>18. n \in S /\ n >= 1
    BY <1>3, <1>17
  <1> QED BY <1>1, <1>18 DEF A

\* A path through such nodes is a strand.
LEMMA InnerIsStrand ==
    ASSUME NEW E, IsFiniteSet(E), NEW s \in Seq(E), Len(s) >= 2, FollowsInner(E, s)
    PROVE  IsStrand(E, s)
  <1> SUFFICES ASSUME NEW i \in 1..(Len(s) - 1)
               PROVE  /\ s[i + 1].src = s[i].dst
                      /\ \A e \in E : e.dst = s[i].dst => e = s[i]
                      /\ \A e \in E : e.src = s[i].dst => e = s[i + 1]
    BY DEF IsStrand
  <1>1. i \in 1..Len(s) /\ i + 1 \in 1..Len(s)
    BY LenProperties
  <1>2. s[i] \in E /\ s[i + 1] \in E
    BY <1>1, ElementOfSeq
  <1>3. Inner(E, s[i].dst) /\ s[i + 1].src = s[i].dst
    BY DEF FollowsInner
  <1> QED BY <1>2, <1>3, InnerFacts

\* Two strands that share an edge begin with the same one.
LEMMA StrandsApart ==
    ASSUME NEW E, NEW s, NEW t, IsStrand(E, s), IsStrand(E, t),
           FollowsInner(E, s), FollowsInner(E, t),
           ~Inner(E, s[1].src), ~Inner(E, t[1].src),
           Elements(s) \cap Elements(t) # {}
    PROVE  s[1] = t[1]
  <1> DEFINE n == Len(s)
             k == Len(t)
  <1>1. /\ n \in Nat /\ n >= 2 /\ k \in Nat /\ k >= 2
        /\ (\A i \in 1..n : s[i] \in E) /\ (\A i \in 1..k : t[i] \in E)
    BY LenProperties, ElementOfSeq DEF IsStrand
  <1>2. /\ \A i \in 1..(n - 1) : s[i + 1].src = s[i].dst /\ \A e \in E : e.dst = s[i].dst => e = s[i]
        /\ \A i \in 1..(k - 1) : t[i + 1].src = t[i].dst /\ \A e \in E : e.dst = t[i].dst => e = t[i]
    BY DEF IsStrand
  <1>3. /\ \A i \in 1..(n - 1) : Inner(E, s[i].dst)
        /\ \A i \in 1..(k - 1) : Inner(E, t[i].dst)
    BY DEF FollowsInner
  <1>4. PICK a \in 1..n, b \in 1..k : s[a] = t[b]
    BY DEF Elements
  <1> HIDE DEF n, k
  <1> DEFINE S == {i \in 0..n : i >= 1 => \A j \in 1..k : s[i] = t[j] => s[1] = t[1]}
  <1>5. 0 \in S
    BY <1>1
  <1>6. ASSUME NEW i \in 1..n, i - 1 \in S PROVE i \in S
    <2> SUFFICES ASSUME NEW j \in 1..k, s[i] = t[j] PROVE s[1] = t[1]
      BY <1>1
    <2>1. i # 1 => i - 1 \in 1..(n - 1) /\ (i - 1) + 1 = i /\ i - 1 \in 1..n /\ i - 1 >= 1
      BY <1>1
    <2>2. j # 1 => j - 1 \in 1..(k - 1) /\ (j - 1) + 1 = j /\ j - 1 \in 1..k
      BY <1>1
    <2>3. CASE i = 1 /\ j = 1
      BY <2>3
    <2>4. CASE i = 1 /\ j # 1
      <3>1. s[1].src = t[j - 1].dst
        BY <1>2, <2>2, <2>4
      <3> QED BY <1>3, <2>2, <2>4, <3>1
    <2>5. CASE i # 1 /\ j = 1
      <3>1. t[1].src = s[i - 1].dst
        BY <1>2, <2>1, <2>5
      <3> QED BY <1>3, <2>1, <2>5, <3>1
    <2>6. CASE i # 1 /\ j # 1
      <3>1. s[i - 1].dst = t[j - 1].dst
        BY <1>2, <2>1, <2>2, <2>6
      <3>2. s[i - 1] \in E
        BY <1>1, <2>1, <2>6
      <3>3. s[i - 1] = t[j - 1]
        BY <1>2, <2>2, <2>6, <3>1, <3>2
      <3> QED BY <1>6, <2>1, <2>2, <2>6, <3>3
    <2> QED BY <2>3, <2>4, <2>5, <2>6
  <1>7. \A i \in 0..n : i \in S
    <2> HIDE DEF S
    <2> QED BY <1>1, <1>5, <1>6, UpTo
  <1>8. a \in 0..n /\ a >= 1
    BY <1>1
  <1> QED BY <1>4, <1>7, <1>8

\* The strands that are found can be reduced one after the other, and none is
\* found only if every node inside a strand has another such node before it.
LEMMA SeriesFound ==
    ASSUME IsFiniteSet(ttsp)
    PROVE  /\ SeriesPending(ttsp, SeriesReductions)
           /\ SeriesReductions = {} =>
                 \A e \in ttsp : Inner(ttsp, e.dst) => Inner(ttsp, e.src)
  <1>1. \A v : InsideStrand(v) <=> Inner(ttsp, v)
    BY DEF InsideStrand, EdgesInto, EdgesFrom, Inner
  <1>2. \A e \in StrandHeads : e \in ttsp /\ InsideStrand(e.dst) /\ ~Inner(ttsp, e.src)
    BY <1>1 DEF StrandHeads
  <1>3. \A r \in SeriesReductions : \E e \in StrandHeads : r = Strand(e)
    BY DEF SeriesReductions
  <1>4. ASSUME NEW e \in StrandHeads
        PROVE  /\ IsStrand(ttsp, Strand(e)) /\ FollowsInner(ttsp, Strand(e))
               /\ Strand(e)[1] = e
    BY <1>2, StrandFound, InnerIsStrand
  <1>5. ASSUME NEW r \in SeriesReductions, NEW t \in SeriesReductions, r # t
        PROVE  Elements(r) \cap Elements(t) = {}
    <2> SUFFICES ASSUME Elements(r) \cap Elements(t) # {} PROVE FALSE
      OBVIOUS
    <2>1. PICK d \in StrandHeads : r = Strand(d)
      BY <1>3
    <2>2. PICK e \in StrandHeads : t = Strand(e)
      BY <1>3
    <2>3. r[1] = t[1]
      BY <1>2, <1>4, <2>1, <2>2, StrandsApart
    <2>4. d = e
      BY <1>4, <2>1, <2>2, <2>3
    <2> QED BY <1>5, <2>1, <2>2, <2>4
  <1>6. ASSUME SeriesReductions = {}, NEW e \in ttsp, Inner(ttsp, e.dst)
        PROVE  Inner(ttsp, e.src)
    <2>1. e \notin StrandHeads
      BY <1>6 DEF SeriesReductions
    <2> QED BY <1>1, <1>6, <2>1 DEF StrandHeads
  <1> QED BY <1>3, <1>4, <1>5, <1>6 DEF SeriesPending

\* Reducing one strand leaves the others in place.
LEMMA SeriesStillPending ==
    ASSUME NEW E, NEW R, SeriesPending(E, R), NEW r \in R, NEW m,
           m.src = Head(r).src, m.dst = Last(r).dst
    PROVE  SeriesPending((E \ Elements(r)) \cup {m}, R \ {r})
  <1> DEFINE F == (E \ Elements(r)) \cup {m}
  <1>1. /\ Len(r) \in Nat /\ Len(r) >= 2 /\ 1 \in 1..Len(r) /\ Len(r) \in 1..Len(r)
        /\ Head(r) = r[1] /\ Last(r) = r[Len(r)]
        /\ r[1] \in E /\ r[Len(r)] \in E /\ r[1] \in Elements(r) /\ r[Len(r)] \in Elements(r)
    <2>1. r \in Seq(E) /\ Len(r) >= 2
      BY DEF SeriesPending, IsStrand
    <2>2. Len(r) \in Nat /\ 1 \in 1..Len(r) /\ Len(r) \in 1..Len(r)
      BY <2>1, LenProperties
    <2>3. r[1] \in E /\ r[Len(r)] \in E
      BY <2>1, <2>2, ElementOfSeq
    <2>4. r[1] \in Elements(r) /\ r[Len(r)] \in Elements(r)
      BY <2>2 DEF Elements
    <2>5. Head(r) = r[1] /\ Last(r) = r[Len(r)]
      BY <2>1, <2>2 DEF Last
    <2> QED BY <2>1, <2>2, <2>3, <2>4, <2>5
  <1>2. ASSUME NEW s \in R \ {r} PROVE IsStrand(F, s)
    <2> DEFINE n == Len(s)
    <2>1. /\ s \in Seq(E) /\ n >= 2 /\ n \in Nat
          /\ \A i \in 1..(n - 1) :
                /\ s[i + 1].src = s[i].dst
                /\ \A e \in E : e.dst = s[i].dst => e = s[i]
                /\ \A e \in E : e.src = s[i].dst => e = s[i + 1]
      BY LenProperties DEF SeriesPending, IsStrand
    <2>2. Elements(s) \cap Elements(r) = {}
      BY DEF SeriesPending
    <2>3. \A i \in 1..n : s[i] \in Elements(s) /\ s[i] \in F
      <3>1. \A i \in 1..n : s[i] \in Elements(s)
        BY DEF Elements
      <3>2. \A i \in 1..n : s[i] \in E
        BY <2>1, ElementOfSeq
      <3> QED BY <2>2, <3>1, <3>2
    <2>4. s \in Seq(F)
      BY <2>1, <2>3, LenProperties
    <2>5. ASSUME NEW i \in 1..(n - 1)
          PROVE  /\ \A e \in F : e.dst = s[i].dst => e = s[i]
                 /\ \A e \in F : e.src = s[i].dst => e = s[i + 1]
      <3>1. i \in 1..n /\ i + 1 \in 1..n
        BY <2>1
      <3>2. m.dst # s[i].dst
        BY <1>1, <2>1, <2>2, <2>3, <3>1
      <3>3. m.src # s[i].dst
        BY <1>1, <2>1, <2>2, <2>3, <3>1
      <3> QED BY <2>1, <3>2, <3>3
    <2> QED BY <2>1, <2>4, <2>5 DEF IsStrand
  <1>3. \A s, t \in R \ {r} : s # t => Elements(s) \cap Elements(t) = {}
    BY DEF SeriesPending
  <1> QED BY <1>2, <1>3 DEF SeriesPending

\* The edges a series reduction leaves are those that are not in the strand.
LEMMA StrandIsCut ==
    ASSUME NEW E, NEW s, IsStrand(E, s)
    PROVE  {e \in E : /\ e.src \notin {s[i].dst : i \in 1..(Len(s) - 1)}
                      /\ e.dst \notin {s[i].dst : i \in 1..(Len(s) - 1)}}
              = E \ Elements(s)
  <1> DEFINE n == Len(s)
             I == {s[i].dst : i \in 1..(n - 1)}
  <1>1. /\ n \in Nat /\ n >= 2
        /\ \A i \in 1..(n - 1) :
              /\ s[i + 1].src = s[i].dst
              /\ \A e \in E : e.dst = s[i].dst => e = s[i]
              /\ \A e \in E : e.src = s[i].dst => e = s[i + 1]
    BY LenProperties DEF IsStrand
  <1>2. \A v : v \in I <=> \E i \in 1..(n - 1) : v = s[i].dst
    OBVIOUS
  <1>3. \A e : e \in Elements(s) <=> \E i \in 1..n : e = s[i]
    BY DEF Elements
  <1> HIDE DEF I, n
  <1>4. ASSUME NEW e \in E, e.src \in I \/ e.dst \in I PROVE e \in Elements(s)
    <2>1. CASE e.src \in I
      <3>1. PICK i \in 1..(n - 1) : e.src = s[i].dst
        BY <1>2, <2>1
      <3>2. e = s[i + 1] /\ i + 1 \in 1..n
        BY <1>1, <3>1
      <3> QED BY <1>3, <3>2
    <2>2. CASE e.dst \in I
      <3>1. PICK i \in 1..(n - 1) : e.dst = s[i].dst
        BY <1>2, <2>2
      <3>2. e = s[i] /\ i \in 1..n
        BY <1>1, <3>1
      <3> QED BY <1>3, <3>2
    <2> QED BY <1>4, <2>1, <2>2
  <1>5. ASSUME NEW e \in Elements(s) PROVE e.src \in I \/ e.dst \in I
    <2>1. PICK i \in 1..n : e = s[i]
      BY <1>3
    <2>2. CASE i = n
      <3>1. i - 1 \in 1..(n - 1) /\ (i - 1) + 1 = i
        BY <1>1, <2>2
      <3>2. e.src = s[i - 1].dst
        BY <1>1, <2>1, <3>1
      <3> QED BY <1>2, <3>1, <3>2
    <2>3. CASE i # n
      <3>1. i \in 1..(n - 1)
        BY <1>1, <2>3
      <3> QED BY <1>2, <2>1, <3>1
    <2> QED BY <2>2, <2>3
  <1>6. {e \in E : e.src \notin I /\ e.dst \notin I} = E \ Elements(s)
    BY <1>4, <1>5
  <1> QED BY <1>6 DEF I, n

-----------------------------------------------------------------------------
(***************************************************************************)
(* The inverse line graph is a picture of the order.                       *)
(***************************************************************************)
LineEdge(h, n) == [src |-> SrcForNode(h, n), dst |-> DstForNode(h, n), tree |-> [leaf |-> n]]

\* The edge of a layer stands for that layer.
LEMMA LineEdgeIsPart ==
    ASSUME NEW g, NEW pos, IsRanked(g, pos), NEW h, NEW n \in g.nodes
    PROVE  Part(g, LineEdge(h, n)) /\ Layers(g, LineEdge(h, n)) = {n}
  <1> DEFINE e == LineEdge(h, n)
             N == Cardinality(g.nodes)
             v == [layers |-> {n}, order |-> {}, twice |-> {}]
  <1>1. e = [src |-> e.src, dst |-> e.dst, tree |-> e.tree] /\ e.tree = [leaf |-> n]
    BY DEF LineEdge
  <1>2. n \in Nat /\ N \in Nat
    BY FS_CardinalityType DEF IsRanked, IsGraph
  <1>3. \A d \in Nat : [leaf |-> n] \in DOMAIN Poset[d] /\ Poset[d][[leaf |-> n]] = v
    <2> SUFFICES ASSUME NEW d \in Nat PROVE [leaf |-> n] \in DOMAIN Poset[d] /\ Poset[d][[leaf |-> n]] = v
      OBVIOUS
    <2>1. Poset[d] = Meaning(Below(Poset, d))
      BY PosetUnfolds
    <2> DEFINE B == Below(Poset, d)
    <2> HIDE DEF B
    <2>2. [leaf |-> n] \in DOMAIN Meaning(B) /\ Meaning(B)[[leaf |-> n]] = v
      BY <1>2, MeaningFacts
    <2> QED BY <2>1, <2>2 DEF B
  <1> HIDE DEF e
  <1>4. Value(g, e) = v
    BY <1>1, <1>2, <1>3 DEF Value
  <1>5. Layers(g, e) = {n}
    BY <1>4 DEF Layers
  <1>6. Cardinality({n}) - 1 = 0 /\ 0 \in Nat
    <2>1. Cardinality({n}) = 1
      BY FS_Singleton, Zenon
    <2> QED BY <2>1
  <1>7. e.tree \in DOMAIN Poset[Cardinality(Layers(g, e)) - 1]
    BY <1>1, <1>3, <1>5, <1>6
  <1>8. Closure(g) \cap ({n} \X {n}) = {}
    <2>1. <<n, n>> \notin Closure(g)
      BY ClosureIsRanked
    <2> QED BY <2>1
  <1>9. Value(g, e).twice = {} /\ Value(g, e).order = {}
    BY <1>4
  <1>10. Part(g, e)
    BY <1>1, <1>5, <1>7, <1>8, <1>9 DEF Part
  <1> QED BY <1>5, <1>10 DEF e

\* The multigraph get_inverse_line_graph returns shows the order of the graph.
LEMMA LineGraphIsNet ==
    ASSUME NEW g, NEW pos, IsRanked(g, pos), HasCbcDecomposition(transitive_reduction(g))
    PROVE  Net(g, InverseLineGraph(transitive_reduction(g)))
  <1> DEFINE h == transitive_reduction(g)
             E == InverseLineGraph(h)
             C == Closure(g)
             K(n) == LineEdge(h, n)
  <1>1. h.nodes = g.nodes /\ h.edges = Covers(g) /\ h.edges \subseteq Pairs(h)
    <2>1. h = [nodes |-> g.nodes, edges |-> Covers(g)]
      BY ReductionFacts
    <2>2. Covers(g) \subseteq Pairs(g)
      BY ClosureFacts DEF Covers, IsRanked
    <2> QED BY <2>1, <2>2 DEF Pairs
  <1>2. E = {K(n) : n \in g.nodes}
    BY <1>1 DEF InverseLineGraph, LineEdge
  <1>3. \A n : K(n).src = SrcForNode(h, n) /\ K(n).dst = DstForNode(h, n)
    BY DEF LineEdge
  <1> HIDE DEF h
  <1>4. ASSUME NEW m \in g.nodes, NEW n \in g.nodes
        PROVE  /\ K(m).dst = K(n).src <=> <<m, n>> \in Covers(g)
               /\ Preds(h, n) = {} => K(n).src = Alpha(h)
               /\ Succs(h, n) = {} => K(n).dst = Omega(h)
    BY <1>1, <1>3, LineGraphFacts DEF h
  <1>5. \A n \in g.nodes : Part(g, K(n)) /\ Layers(g, K(n)) = {n}
    BY LineEdgeIsPart
  <1>6. \A e \in E : \E n \in g.nodes : e = K(n)
    BY <1>2
  <1>7. \A n \in g.nodes : K(n) \in E
    BY <1>2
  <1> HIDE DEF E, K
  <1>8. IsFiniteSet(E)
    <2> DEFINE f == [n \in g.nodes |-> K(n)]
    <2>1. f \in [g.nodes -> E] /\ \A e \in E : \E n \in g.nodes : f[n] = e
      BY <1>6, <1>7
    <2>2. IsFiniteSet(g.nodes)
      BY DEF IsRanked, IsGraph
    <2> HIDE DEF f
    <2>3. f \in Surjection(g.nodes, E)
      BY <2>1 DEF Surjection
    <2> QED BY <2>2, <2>3, FS_Surjection
  <1>9. \A m, n \in g.nodes : /\ Follows(g, K(m), K(n)) <=> <<m, n>> \in C
                              /\ Touches(g, K(m), K(n)) <=> <<m, n>> \in C
    BY <1>5 DEF Follows, Touches
  <1>10. Covers(g) \subseteq C
    BY DEF Covers
  <1>11. Parted(g, E)
    <2>1. \A e \in E : Part(g, e)
      BY <1>5, <1>6
    <2>2. ASSUME NEW e \in E, NEW f \in E, e # f PROVE Layers(g, e) \cap Layers(g, f) = {}
      <3>1. PICK m \in g.nodes : e = K(m)
        BY <1>6
      <3>2. PICK n \in g.nodes : f = K(n)
        BY <1>6
      <3>3. m # n /\ Layers(g, e) = {m} /\ Layers(g, f) = {n}
        BY <1>5, <2>2, <3>1, <3>2
      <3> QED BY <3>3
    <2>3. \A x \in g.nodes : x \in Layers(g, K(x))
      BY <1>5
    <2> QED BY <1>7, <2>1, <2>2, <2>3 DEF Parted
  <1>12. Joined(g, E)
    <2> SUFFICES ASSUME NEW e \in E, NEW f \in E, e.dst = f.src PROVE Follows(g, e, f)
      BY DEF Joined
    <2>1. PICK m \in g.nodes : e = K(m)
      BY <1>6
    <2>2. PICK n \in g.nodes : f = K(n)
      BY <1>6
    <2>3. <<m, n>> \in Covers(g)
      BY <1>4, <2>1, <2>2
    <2> QED BY <1>9, <1>10, <2>1, <2>2, <2>3
  <1>13. Led(g, E)
    <2> SUFFICES ASSUME NEW e \in E, NEW f \in E, e # f, Touches(g, e, f) PROVE Leads(g, E, e, f)
      BY DEF Led
    <2>1. PICK m \in g.nodes : e = K(m)
      BY <1>6
    <2>2. PICK n \in g.nodes : f = K(n)
      BY <1>6
    <2>3. <<m, n>> \in C /\ Follows(g, e, f)
      BY <1>9, <2>1, <2>2
    <2>4. CASE <<m, n>> \in Covers(g)
      BY <1>4, <2>1, <2>2, <2>3, <2>4 DEF Leads
    <2>5. CASE <<m, n>> \notin Covers(g)
      <3>1. PICK x : <<m, x>> \in Covers(g) /\ (x = n \/ <<x, n>> \in C)
        BY <2>3, FirstAndLastStep
      <3>2. PICK y : <<y, n>> \in Covers(g) /\ (y = m \/ <<m, y>> \in C)
        BY <2>3, FirstAndLastStep
      <3>3. x \in g.nodes /\ y \in g.nodes
        BY <1>10, <3>1, <3>2, ClosureFacts DEF IsRanked, Pairs
      <3>4. <<x, n>> \in C /\ <<m, y>> \in C
        BY <2>5, <3>1, <3>2
      <3>5. /\ K(x) \in E /\ e.dst = K(x).src /\ Follows(g, K(x), f)
            /\ K(y) \in E /\ K(y).dst = f.src /\ Follows(g, e, K(y))
        BY <1>4, <1>7, <1>9, <2>1, <2>2, <3>1, <3>2, <3>3, <3>4
      <3> QED BY <2>3, <3>5 DEF Leads
    <2> QED BY <2>4, <2>5
  <1>14. OneSource(E)
    <2>1. ASSUME NEW e \in E, \A d \in E : d.dst # e.src PROVE e.src = Alpha(h)
      <3>1. PICK n \in g.nodes : e = K(n)
        BY <1>6
      <3>2. ASSUME NEW m \in Preds(h, n) PROVE FALSE
        <4>1. m \in g.nodes /\ <<m, n>> \in Covers(g)
          BY <1>1 DEF Preds
        <4>2. K(m).dst = e.src /\ K(m) \in E
          BY <1>4, <1>7, <3>1, <4>1
        <4> QED BY <2>1, <4>2
      <3>3. Preds(h, n) = {}
        BY <3>2
      <3> QED BY <1>4, <3>1, <3>3
    <2> QED BY <2>1 DEF OneSource
  <1>15. OneSink(E)
    <2>1. ASSUME NEW e \in E, \A d \in E : d.src # e.dst PROVE e.dst = Omega(h)
      <3>1. PICK n \in g.nodes : e = K(n)
        BY <1>6
      <3>2. ASSUME NEW m \in Succs(h, n) PROVE FALSE
        <4>1. m \in g.nodes /\ <<n, m>> \in Covers(g)
          BY <1>1 DEF Succs
        <4>2. K(m).src = e.dst /\ K(m) \in E
          BY <1>4, <1>7, <3>1, <4>1
        <4> QED BY <2>1, <4>2
      <3>3. Succs(h, n) = {}
        BY <3>2
      <3> QED BY <1>4, <3>1, <3>3
    <2> QED BY <2>1 DEF OneSink
  <1> QED BY <1>8, <1>11, <1>12, <1>13, <1>14, <1>15 DEF Net, E, h

-----------------------------------------------------------------------------
(***************************************************************************)
(* A picture that no reduction applies to holds an N.                      *)
(***************************************************************************)
Depth(g, E, e) == Cardinality({h \in E : Follows(g, h, e)})
Height(g, E, e) == Cardinality({h \in E : Follows(g, e, h)})

\* A finite set has an element where a measure is greatest.
LEMMA Topmost ==
    ASSUME NEW X, IsFiniteSet(X), X # {}, NEW f \in [X -> Nat]
    PROVE  \E x \in X : \A y \in X : f[y] <= f[x]
  <1> DEFINE S == {f[x] : x \in X}
  <1>1. f \in Surjection(X, S)
    BY DEF Surjection
  <1>2. IsFiniteSet(S)
    BY <1>1, FS_Surjection
  <1>3. S \subseteq Nat /\ S # {}
    OBVIOUS
  <1>4. \A y \in X : f[y] \in S
    OBVIOUS
  <1>5. \A s \in S : \E x \in X : s = f[x]
    OBVIOUS
  <1> HIDE DEF S
  <1>6. PICK m \in S : \A k \in S : k <= m
    BY <1>2, <1>3, GreatestOf
  <1>7. PICK x \in X : m = f[x]
    BY <1>5
  <1> QED BY <1>4, <1>6, <1>7

\* Depth and height grow along the order, and edges with an end in common agree.
LEMMA Measured ==
    ASSUME NEW g, NEW pos, IsRanked(g, pos), NEW E, Net(g, E)
    PROVE  /\ \A e \in E : Depth(g, E, e) \in Nat /\ Height(g, E, e) \in Nat
           /\ \A e, f \in E : Follows(g, e, f) => /\ Depth(g, E, e) < Depth(g, E, f)
                                                  /\ Height(g, E, f) < Height(g, E, e)
           /\ \A e, f \in E : e.src = f.src => Depth(g, E, e) = Depth(g, E, f)
           /\ \A e, f \in E : e.dst = f.dst => Height(g, E, e) = Height(g, E, f)
  <1> DEFINE B(e) == {h \in E : Follows(g, h, e)}
             A(e) == {h \in E : Follows(g, e, h)}
  <1>1. /\ \A e \in E : B(e) \subseteq E /\ A(e) \subseteq E
        /\ \A e, h : h \in B(e) <=> h \in E /\ Follows(g, h, e)
        /\ \A e, h : h \in A(e) <=> h \in E /\ Follows(g, e, h)
    OBVIOUS
  <1>2. \A e : Depth(g, E, e) = Cardinality(B(e)) /\ Height(g, E, e) = Cardinality(A(e))
    BY DEF Depth, Height
  <1>3. IsFiniteSet(E) /\ Parted(g, E)
    BY DEF Net
  <1> HIDE DEF A, B
  <1>4. \A e \in E : IsFiniteSet(B(e)) /\ IsFiniteSet(A(e))
    BY <1>1, <1>3, FS_Subset
  <1>5. \A e \in E : Cardinality(B(e)) \in Nat /\ Cardinality(A(e)) \in Nat
    BY <1>4, FS_CardinalityType
  <1>6. ASSUME NEW e \in E, NEW f \in E, Follows(g, e, f)
        PROVE  /\ Cardinality(B(e)) < Cardinality(B(f))
               /\ Cardinality(A(f)) < Cardinality(A(e))
    <2>1. /\ \A h \in E : Follows(g, h, e) => Follows(g, h, f)
          /\ \A h \in E : Follows(g, f, h) => Follows(g, e, h)
          /\ ~Follows(g, e, e) /\ ~Follows(g, f, f)
      BY <1>3, <1>6, FollowsFacts
    <2>2. /\ B(e) \subseteq B(f) /\ e \in B(f) /\ e \notin B(e)
          /\ A(f) \subseteq A(e) /\ f \in A(e) /\ f \notin A(f)
      BY <1>1, <1>6, <2>1
    <2>3. Cardinality(B(e)) <= Cardinality(B(f)) /\ Cardinality(B(e)) # Cardinality(B(f))
      BY <1>4, <2>2, FS_Subset
    <2>4. Cardinality(A(f)) <= Cardinality(A(e)) /\ Cardinality(A(f)) # Cardinality(A(e))
      BY <1>4, <2>2, FS_Subset
    <2> QED BY <1>5, <2>3, <2>4
  <1>7. ASSUME NEW e \in E, NEW f \in E, e.src = f.src PROVE B(e) = B(f)
    <2>1. \A h \in E : Follows(g, h, e) <=> Follows(g, h, f)
      BY <1>7, SameEnds
    <2> QED BY <1>1, <2>1
  <1>8. ASSUME NEW e \in E, NEW f \in E, e.dst = f.dst PROVE A(e) = A(f)
    <2>1. \A h \in E : Follows(g, e, h) <=> Follows(g, f, h)
      BY <1>8, SameEnds
    <2> QED BY <1>1, <2>1
  <1> QED BY <1>2, <1>5, <1>6, <1>7, <1>8

\* Neither parallel edges nor the beginning of a strand.
Stuck(g, E) ==
    /\ Net(g, E)
    /\ \A p, q \in E : p.src = q.src /\ p.dst = q.dst => p = q
    /\ \A e \in E : Inner(E, e.dst) => Inner(E, e.src)

\* Then no node is inside a strand: one that is has another before it.
LEMMA Forks ==
    ASSUME NEW g, NEW pos, IsRanked(g, pos), NEW E, Stuck(g, E),
           NEW e \in E, NEW f \in E, e.dst = f.src
    PROVE  \/ \E d \in E : d # e /\ d.dst = e.dst
           \/ \E d \in E : d # f /\ d.src = f.src
  <1> DEFINE X == {d \in E : Inner(E, d.dst)}
             m == [d \in X |-> Height(g, E, d)]
  <1>0. Net(g, E) /\ IsFiniteSet(E)
    BY DEF Stuck, Net
  <1>1. X = {}
    <2> SUFFICES ASSUME X # {} PROVE FALSE
      OBVIOUS
    <2>0. \A d : d \in X <=> d \in E /\ Inner(E, d.dst)
      OBVIOUS
    <2>1. m \in [X -> Nat]
      BY <1>0, Measured
    <2>2. IsFiniteSet(X)
      BY <1>0, FS_Subset
    <2>3. \A d \in X : m[d] = Height(g, E, d)
      OBVIOUS
    <2> HIDE DEF X, m
    <2>4. PICK x \in X : \A y \in X : m[y] <= m[x]
      BY <2>1, <2>2, Topmost
    <2>5. x \in E /\ Inner(E, x.src)
      BY <2>0 DEF Stuck
    <2>6. PICK y \in E : y.dst = x.src
      BY <1>0, <2>5, InnerFacts
    <2>7. y \in X
      BY <2>0, <2>5, <2>6
    <2>8. Follows(g, y, x)
      BY <1>0, <2>5, <2>6 DEF Net, Joined
    <2>9. Height(g, E, x) < Height(g, E, y) /\ Height(g, E, x) \in Nat /\ Height(g, E, y) \in Nat
      BY <1>0, <2>5, <2>8, Measured
    <2> QED BY <2>3, <2>4, <2>7, <2>9
  <1>2. SUFFICES ASSUME \A d \in E : d.dst = e.dst => d = e,
                        \A d \in E : d.src = f.src => d = f
                 PROVE  FALSE
    OBVIOUS
  <1>3. {d \in E : d.dst = e.dst} = {e} /\ {d \in E : d.src = e.dst} = {f}
    BY <1>2
  <1>4. Cardinality({e}) = 1 /\ Cardinality({f}) = 1
    BY FS_Singleton, Zenon
  <1>5. Inner(E, e.dst)
    BY <1>3, <1>4 DEF Inner
  <1> QED BY <1>1, <1>5

-----------------------------------------------------------------------------
(***************************************************************************)
(* The zigzag in such a picture.                                           *)
(***************************************************************************)
\* Of a set of edges, one that is deepest.
LEMMA Deepest ==
    ASSUME NEW g, NEW pos, IsRanked(g, pos), NEW E, Net(g, E), NEW X, X \subseteq E, X # {}
    PROVE  /\ \E x \in X : \A y \in X : Depth(g, E, y) <= Depth(g, E, x)
           /\ \E x \in X : \A y \in X : Height(g, E, y) <= Height(g, E, x)
  <1> DEFINE m == [d \in X |-> Depth(g, E, d)]
             k == [d \in X |-> Height(g, E, d)]
  <1>1. m \in [X -> Nat] /\ k \in [X -> Nat]
    BY Measured
  <1>2. IsFiniteSet(X)
    BY FS_Subset DEF Net
  <1>3. \A d \in X : m[d] = Depth(g, E, d) /\ k[d] = Height(g, E, d)
    OBVIOUS
  <1> HIDE DEF m, k
  <1>4. PICK x \in X : \A y \in X : m[y] <= m[x]
    BY <1>1, <1>2, Topmost
  <1>5. PICK z \in X : \A y \in X : k[y] <= k[z]
    BY <1>1, <1>2, Topmost
  <1> QED BY <1>3, <1>4, <1>5

\* Some two edges of it end at the same node.
LEMMA Merges ==
    ASSUME NEW g, NEW pos, IsRanked(g, pos), NEW E, Stuck(g, E),
           NEW p \in E, NEW q \in E, p # q
    PROVE  \E e, f \in E : e # f /\ e.dst = f.dst
  <1> SUFFICES ASSUME \A e, f \in E : e.dst = f.dst => e = f PROVE FALSE
    OBVIOUS
  <1> DEFINE F(e, f) == Follows(g, e, f)
             D(e) == Depth(g, E, e)
  <1>0. Net(g, E)
    BY DEF Stuck
  <1>1. /\ \A e, f \in E : e.dst = f.src => F(e, f)
        /\ \A e, f, h \in E : F(e, f) /\ F(f, h) => F(e, h)
        /\ \A e, f \in E : F(e, f) => D(e) < D(f)
        /\ \A e \in E : D(e) \in Nat
        /\ \A e, f \in E : e.src = f.src => D(e) = D(f)
        /\ \A e, f \in E : (\A h \in E : h.src # e.dst /\ h.src # f.dst) => e.dst = f.dst
    BY <1>0, FollowsFacts, Measured DEF Net, Joined, OneSink
  <1>2. \A e, f \in E : F(e, f) => \E h \in E : h.dst = f.src
    BY <1>0, FollowsFacts DEF Net, Led, Leads
  <1>3. PICK e \in E : \A y \in E : D(y) <= D(e)
    BY <1>0, Deepest
  <1> HIDE DEF F, D
  <1>4. \A h \in E : h.src # e.dst
    <2>1. ASSUME NEW h \in E, h.src = e.dst PROVE FALSE
      <3>1. D(e) < D(h) /\ D(h) <= D(e) /\ D(h) \in Nat /\ D(e) \in Nat
        BY <1>1, <1>3, <2>1
      <3> QED BY <3>1
    <2> QED BY <2>1
  <1>5. ASSUME NEW o \in E, o # e PROVE F(o, e)
    <2> DEFINE X == {f \in E : f # e /\ ~F(f, e)}
    <2> SUFFICES ASSUME X # {} PROVE FALSE
      BY <1>5
    <2>0. X \subseteq E /\ \A f : f \in X <=> f \in E /\ f # e /\ ~F(f, e)
      OBVIOUS
    <2> HIDE DEF X
    <2>1. PICK f \in X : \A y \in X : D(y) <= D(f)
      BY <1>0, <2>0, Deepest DEF D
    <2>2. ASSUME NEW h \in E, h.src = f.dst PROVE FALSE
      <3>1. F(f, h) /\ D(f) < D(h) /\ D(h) \in Nat /\ D(f) \in Nat
        BY <1>1, <2>0, <2>1, <2>2
      <3>2. h \notin X
        BY <2>1, <3>1
      <3>3. h = e \/ F(h, e)
        BY <2>0, <3>2
      <3>4. F(f, e)
        BY <1>1, <2>0, <2>1, <3>1, <3>3
      <3> QED BY <2>0, <2>1, <3>4
    <2>3. f.dst = e.dst
      BY <1>1, <1>4, <2>0, <2>1, <2>2
    <2> QED BY <2>0, <2>1, <2>3
  <1>6. PICK b \in E : b.dst = e.src
    BY <1>2, <1>5
  <1>7. \E d \in E : d # e /\ d.src = e.src
    BY <1>6, Forks
  <1>8. PICK d \in E : d # e /\ d.src = e.src
    BY <1>7
  <1>9. D(d) < D(e) /\ D(d) = D(e) /\ D(e) \in Nat
    BY <1>1, <1>5, <1>8
  <1> QED BY <1>9

\* a before c, b before c and d, nothing else.
Zigzag(g, a, b, c, d) ==
    /\ Follows(g, a, c) /\ Follows(g, b, c) /\ Follows(g, b, d)
    /\ ~Follows(g, a, b) /\ ~Follows(g, b, a) /\ a # b
    /\ ~Follows(g, c, d) /\ ~Follows(g, d, c) /\ c # d
    /\ ~Follows(g, a, d) /\ ~Follows(g, d, a) /\ a # d

\* Where two edges meet there is then a zigzag: take the last such node, its
\* deepest edge e1, another edge a into it, an edge b before e1, and d beside e1.
LEMMA StuckZigzags ==
    ASSUME NEW g, NEW pos, IsRanked(g, pos), NEW E, Stuck(g, E),
           NEW p \in E, NEW q \in E, p # q, p.dst = q.dst
    PROVE  \E a, b, c, d \in E : Zigzag(g, a, b, c, d)
  <1> DEFINE F(e, f) == Follows(g, e, f)
             D(e) == Depth(g, E, e)
             H(e) == Height(g, E, e)
             M == {e \in E : \E f \in E : f # e /\ f.dst = e.dst}
  <1>0. Net(g, E)
    BY DEF Stuck
  <1>1. /\ \A e, f \in E : e.dst = f.src => F(e, f)
        /\ \A e, f, h \in E : F(e, f) /\ F(f, h) => F(e, h)
        /\ \A e \in E : ~F(e, e)
    BY <1>0, FollowsFacts DEF Net, Joined
  <1>2. /\ \A e, f \in E : F(e, f) => D(e) < D(f) /\ H(f) < H(e)
        /\ \A e \in E : D(e) \in Nat /\ H(e) \in Nat
        /\ \A e, f \in E : e.src = f.src => D(e) = D(f)
        /\ \A e, f \in E : e.dst = f.dst => H(e) = H(f)
    BY <1>0, Measured
  <1>3. /\ \A e, f \in E : (\A h \in E : h.src # e.dst /\ h.src # f.dst) => e.dst = f.dst
        /\ \A e, f \in E : (\A h \in E : h.dst # e.src /\ h.dst # f.src) => e.src = f.src
        /\ \A e, f \in E : e.src = f.src /\ e.dst = f.dst => e = f
    BY <1>0 DEF Net, OneSink, OneSource, Stuck
  <1>4. \A e, f \in E : F(e, f) => \/ e.dst = f.src
                                   \/ /\ \E h \in E : e.dst = h.src /\ F(h, f)
                                      /\ \E h \in E : h.dst = f.src /\ F(e, h)
    BY <1>0, FollowsFacts DEF Net, Led, Leads
  <1>5. /\ \A e, f, h \in E : e.src = f.src /\ F(h, e) => F(h, f)
        /\ \A e, f, h \in E : e.dst = f.dst /\ F(e, h) => F(f, h)
    BY <1>0, SameEnds
  <1>6. M \subseteq E /\ \A e : e \in M <=> e \in E /\ \E f \in E : f # e /\ f.dst = e.dst
    OBVIOUS
  <1>7. p \in M
    OBVIOUS
  <1> HIDE DEF M
  <1>8. PICK top \in M : \A y \in M : H(y) <= H(top)
    BY <1>0, <1>6, <1>7, Deepest
  <1> DEFINE X == {e \in E : e.dst = top.dst}
  <1>9. X \subseteq E /\ top \in X /\ \A e : e \in X <=> e \in E /\ e.dst = top.dst
    BY <1>6, <1>8
  <1> HIDE DEF X
  <1>10. PICK e1 \in X : \A y \in X : D(y) <= D(e1)
    BY <1>0, <1>9, Deepest
  <1> HIDE DEF F, D, H
  <1>11. \E f \in E : f # e1 /\ f.dst = e1.dst
    <2>1. PICK f \in E : f # top /\ f.dst = top.dst
      BY <1>6, <1>8
    <2>2. e1.dst = top.dst /\ top \in E
      BY <1>6, <1>8, <1>9, <1>10
    <2> QED BY <2>1, <2>2
  <1>12. PICK e2 \in E : e2 # e1 /\ e2.dst = e1.dst
    BY <1>11
  <1>13. /\ e1 \in E /\ e1.src # e2.src
         /\ \A y \in E : y.dst = e1.dst => D(y) <= D(e1)
         /\ \A y \in M : H(y) <= H(e1)
         /\ e1 \in M
    BY <1>2, <1>3, <1>6, <1>8, <1>9, <1>10, <1>12
  <1>14. \E b \in E : b.dst = e1.src
    <2> SUFFICES ASSUME \A b \in E : b.dst # e1.src PROVE FALSE
      OBVIOUS
    <2>1. \A h \in E : ~F(h, e1)
      BY <1>4, <1>13
    <2>2. D(e1) = 0
      <3>1. {h \in E : F(h, e1)} = {}
        BY <2>1
      <3>2. Cardinality({}) = 0
        BY FS_EmptySet
      <3> QED BY <3>1, <3>2 DEF D, Depth, F
    <2>3. PICK h \in E : h.dst = e2.src
      BY <1>3, <1>12, <1>13
    <2>4. D(h) < D(e2) /\ D(h) \in Nat /\ D(e2) \in Nat /\ D(e2) <= D(e1)
      BY <1>1, <1>2, <1>12, <1>13, <2>3
    <2> QED BY <2>2, <2>4
  <1>15. PICK b \in E : b.dst = e1.src
    BY <1>14
  <1>16. F(b, e1)
    BY <1>1, <1>13, <1>15
  <1>17. \E d \in E : d # e1 /\ d.src = e1.src
    <2>1. H(e1) < H(b) /\ H(b) \in Nat /\ H(e1) \in Nat
      BY <1>2, <1>13, <1>16
    <2>2. b \notin M
      BY <1>13, <2>1
    <2>3. \A f \in E : f.dst = b.dst => f = b
      BY <1>6, <2>2
    <2> QED BY <1>13, <1>15, <2>3, Forks
  <1>18. PICK d \in E : d # e1 /\ d.src = e1.src
    BY <1>17
  <1>19. d.dst # e1.dst /\ D(d) = D(e1)
    BY <1>2, <1>3, <1>13, <1>18
  \* What ends where e1 does is not behind d, which is as deep as e1 is.
  <1>20. ASSUME NEW h \in E, h.dst = e1.dst PROVE ~F(d, h)
    <2>1. D(h) <= D(e1) /\ D(h) \in Nat /\ D(e1) \in Nat /\ (F(d, h) => D(d) < D(h))
      BY <1>2, <1>13, <1>20
    <2> QED BY <1>19, <2>1
  <1>21. \E c \in E : c.src = e1.dst
    <2> SUFFICES ASSUME \A c \in E : c.src # e1.dst PROVE FALSE
      OBVIOUS
    <2> DEFINE Y == {f \in E : f = d \/ F(d, f)}
    <2>1. Y \subseteq E /\ d \in Y /\ \A f : f \in Y <=> f \in E /\ (f = d \/ F(d, f))
      OBVIOUS
    <2> HIDE DEF Y
    <2>2. PICK f \in Y : \A y \in Y : D(y) <= D(f)
      BY <1>0, <2>1, Deepest DEF D
    <2>3. ASSUME NEW h \in E, h.src = f.dst PROVE FALSE
      <3>1. F(f, h) /\ D(f) < D(h) /\ D(h) \in Nat /\ D(f) \in Nat
        BY <1>1, <1>2, <2>1, <2>2, <2>3
      <3>2. h \in Y
        BY <1>1, <2>1, <2>2, <3>1
      <3> QED BY <2>2, <3>1, <3>2
    <2>4. f.dst = e1.dst
      BY <1>3, <1>13, <2>1, <2>2, <2>3
    <2> QED BY <1>19, <1>20, <2>1, <2>2, <2>4
  <1>22. PICK c \in E : c.src = e1.dst
    BY <1>21
  <1>23. F(e2, c) /\ F(b, c) /\ F(b, d) /\ F(e1, c)
    BY <1>1, <1>12, <1>13, <1>15, <1>16, <1>18, <1>22
  <1>24. ~F(e2, e1)
    BY <1>1, <1>5, <1>12, <1>13
  <1>25. ~F(e2, b) /\ ~F(e2, d)
    BY <1>1, <1>5, <1>13, <1>16, <1>18, <1>24
  <1>26. ~F(b, e2)
    <2>1. ASSUME NEW h \in E, b.dst = h.src, F(h, e2) PROVE FALSE
      <3>1. D(h) = D(e1) /\ D(h) < D(e2) /\ D(e2) <= D(e1) /\ D(e1) \in Nat /\ D(e2) \in Nat
        BY <1>2, <1>12, <1>13, <1>15, <2>1
      <3> QED BY <3>1
    <2> QED BY <1>4, <1>13, <1>15, <2>1
  <1>27. ~F(d, e2)
    BY <1>12, <1>20
  <1>28. ~F(c, d)
    <2>1. F(c, d) => F(c, e1)
      BY <1>5, <1>13, <1>18
    <2> QED BY <1>1, <1>13, <1>23, <2>1
  <1>29. ~F(d, c)
    BY <1>4, <1>19, <1>20, <1>22
  <1>30. e1.src # e1.dst
    BY <1>1, <1>13
  <1>31. e2 # b /\ e2 # d /\ c # d
    BY <1>12, <1>13, <1>15, <1>18, <1>22, <1>30
  <1>32. Zigzag(g, e2, b, c, d)
    BY <1>23, <1>25, <1>26, <1>27, <1>28, <1>29, <1>31 DEF Zigzag, F
  <1> QED BY <1>32

\* A picture of the order that no reduction applies to and that has two edges
\* holds an N.
LEMMA StuckHasN ==
    ASSUME NEW pos, IsRanked(graph, pos), NEW E, Stuck(graph, E),
           NEW p \in E, NEW q \in E, p # q
    PROVE  HasN
  <1>1. PICK e \in E, f \in E : e # f /\ e.dst = f.dst
    BY Merges
  <1>2. PICK a \in E, b \in E, c \in E, d \in E : Zigzag(graph, a, b, c, d)
    BY <1>1, StuckZigzags
  <1>3. Net(graph, E)
    BY DEF Stuck
  <1>4. \A x, y \in E : x # y /\ ~Follows(graph, x, y) => ~Touches(graph, x, y)
    BY <1>3 DEF Net, Led, Leads
  <1>5. \A x \in E : \E l : l \in Layers(graph, x)
    BY <1>3 DEF Net, Parted, Part
  <1>6. PICK i : i \in Layers(graph, a)
    BY <1>5
  <1>7. PICK j : j \in Layers(graph, b)
    BY <1>5
  <1>8. PICK k : k \in Layers(graph, c)
    BY <1>5
  <1>9. PICK l : l \in Layers(graph, d)
    BY <1>5
  <1>10. /\ Follows(graph, a, c) /\ Follows(graph, b, c) /\ Follows(graph, b, d)
         /\ ~Touches(graph, a, b) /\ ~Touches(graph, b, a)
         /\ ~Touches(graph, c, d) /\ ~Touches(graph, d, c)
         /\ ~Touches(graph, a, d) /\ ~Touches(graph, d, a)
    BY <1>2, <1>4 DEF Zigzag
  <1>11. <<i, k>> \in Closure(graph) /\ <<j, k>> \in Closure(graph) /\ <<j, l>> \in Closure(graph)
    BY <1>6, <1>7, <1>8, <1>9, <1>10 DEF Follows
  <1>12. /\ <<i, j>> \notin Closure(graph) /\ <<j, i>> \notin Closure(graph)
         /\ <<k, l>> \notin Closure(graph) /\ <<l, k>> \notin Closure(graph)
         /\ <<i, l>> \notin Closure(graph) /\ <<l, i>> \notin Closure(graph)
    BY <1>6, <1>7, <1>8, <1>9, <1>10 DEF Touches
  <1> QED BY <1>11, <1>12, MakesN

-----------------------------------------------------------------------------
(***************************************************************************)
(* The decomposition, step by step.                                        *)
(***************************************************************************)
\* What each half of a round may count on.
RoundInv ==
    /\ spPc \in {"parallel", "series", "decomposed"} => Net(graph, ttsp)
    /\ spPc = "parallel" => /\ ParallelPending(ttsp, reductions)
                            /\ ~reduced => reductions = ParallelReductions(ttsp)
    /\ spPc = "series" => /\ SeriesPending(ttsp, reductions)
                          /\ ~reduced => ParallelReductions(ttsp) = {}
                          /\ ~reduced /\ reductions = {} =>
                                \A e \in ttsp : Inner(ttsp, e.dst) => Inner(ttsp, e.src)
    /\ spPc = "decomposed" => Cardinality(ttsp) = 1
    /\ spPc = "not_sp" => HasN \/ graph.nodes = {}

DecompositionInv ==
    /\ IInv
    /\ spPc \in {"waiting", "parallel", "series", "decomposed", "not_sp"}
    /\ reduced \in BOOLEAN
    /\ spPc # "waiting" => pc = "ordered"
    /\ spPc = "waiting" => ~reduced
    /\ RoundInv

\* The order that was found ranks the graph.
LEMMA OrderedIsRanked ==
    ASSUME IInv, pc = "ordered"
    PROVE  \E pos : IsRanked(graph, pos)
  <1> DEFINE pos == [n \in graph.nodes |-> CHOOSE i \in 1..Len(order) : order[i] = n]
  <1>1. OrderIsTopological
    BY OrderedRight
  <1>2. \A n \in graph.nodes : \E i \in 1..Len(order) : order[i] = n
    BY <1>1 DEF OrderIsTopological, Elements
  <1>3. \A n \in graph.nodes : pos[n] \in 1..Len(order) /\ order[pos[n]] = n
    BY <1>2
  <1>4. pos = [n \in graph.nodes |-> pos[n]]
    OBVIOUS
  <1>5. order \in Seq(graph.nodes) /\ Len(order) \in Nat /\ graph \in Graphs
    BY DEF IInv, TypeOK, GraphOK
  <1> HIDE DEF pos
  <1>6. pos \in [graph.nodes -> Nat]
    <2>1. \A n \in graph.nodes : pos[n] \in Nat
      BY <1>3, <1>5
    <2> QED BY <1>4, <2>1
  <1>7. IsGraph(graph)
    BY <1>5, GraphsAssumption, NodesAssumption DEF GraphsAssumption, NodesAssumption, IsGraph, Pairs
  <1>8. ASSUME NEW e \in graph.edges PROVE pos[e[1]] < pos[e[2]]
    <2>1. e = <<e[1], e[2]>> /\ e[1] \in graph.nodes /\ e[2] \in graph.nodes
      BY <1>7 DEF IsGraph, Pairs
    <2>2. \A i, j \in 1..Len(order) : <<order[i], order[j]>> \in graph.edges => i < j
      BY <1>1 DEF OrderIsTopological
    <2> QED BY <1>3, <2>1, <2>2
  <1> QED BY <1>6, <1>7, <1>8 DEF IsRanked

\* Steps leave the graph, and with it the N, alone.
LEMMA StillHasN ==
    ASSUME graph' = graph, HasN
    PROVE  HasN'
  <1> DEFINE P(g) == \E a, b, c, d \in g.nodes :
                        /\ Cardinality({a, b, c, d}) = 4
                        /\ {p \in {a, b, c, d} \X {a, b, c, d} : p \in Closure(g)}
                              = {<<a, c>>, <<b, c>>, <<b, d>>}
  <1>1. (HasN <=> P(graph)) /\ (HasN' <=> P(graph'))
    BY DEF HasN
  <1> HIDE DEF P
  <1> QED BY <1>1

\* Steps of the decomposition leave the topological order alone.
LEMMA OrderKept ==
    ASSUME DecompositionInv, vars' = vars
    PROVE  IInv' /\ graph' = graph /\ pc' = pc
  <1>1. [Next]_vars
    OBVIOUS
  <1>2. IInv'
    BY <1>1, InductiveStep DEF DecompositionInv
  <1> QED BY <1>2 DEF vars

\* The inverse line graph is a picture; without one there is an N.
LEMMA StartStep ==
    ASSUME DecompositionInv, StartDecomposition
    PROVE  DecompositionInv'
  <1> DEFINE g == transitive_reduction(graph)
  <1>1. PICK pos : IsRanked(graph, pos)
    BY OrderedIsRanked DEF DecompositionInv, StartDecomposition
  <1>2. /\ IF HasCbcDecomposition(g) THEN spPc' = "parallel" /\ ttsp' = InverseLineGraph(g)
                                    ELSE spPc' = "not_sp" /\ ttsp' = {}
        /\ reductions' = ParallelReductions(ttsp')
        /\ pc = "ordered" /\ spPc = "waiting" /\ reduced' = reduced /\ vars' = vars
    BY DEF StartDecomposition
  <1> HIDE DEF g
  <1>3. graph' = graph /\ pc' = pc /\ IInv'
    BY <1>2, OrderKept
  <1>4. CASE HasCbcDecomposition(g)
    <2>1. Net(graph, ttsp')
      BY <1>1, <1>2, <1>4, LineGraphIsNet DEF g
    <2>2. ParallelPending(ttsp', reductions')
      BY <1>2, <2>1, ParallelFound DEF Net
    <2>3. RoundInv'
      BY <1>2, <1>3, <1>4, <2>1, <2>2 DEF RoundInv
    <2> QED BY <1>2, <1>3, <1>4, <2>3 DEF DecompositionInv
  <1>5. CASE ~HasCbcDecomposition(g)
    <2>1. HasN
      BY <1>1, <1>5, NoLineGraphOnlyWithN DEF g
    <2>2. HasN'
      BY <1>3, <2>1, StillHasN
    <2>3. RoundInv'
      BY <1>2, <1>5, <2>2 DEF RoundInv
    <2> QED BY <1>2, <1>3, <1>5, <2>3 DEF DecompositionInv
  <1> QED BY <1>4, <1>5

\* perform_extended_parallel_reduction keeps the picture.
LEMMA ReduceParallelStep ==
    ASSUME DecompositionInv, ReduceParallel
    PROVE  DecompositionInv'
  <1>1. PICK pos : IsRanked(graph, pos)
    BY OrderedIsRanked DEF DecompositionInv, ReduceParallel
  <1>2. /\ spPc = "parallel" /\ spPc' = "parallel" /\ reduced' = TRUE /\ vars' = vars
        /\ pc = "ordered"
    BY DEF ReduceParallel, DecompositionInv
  <1>3. graph' = graph /\ pc' = pc /\ IInv'
    BY <1>2, OrderKept
  <1>4. PICK r \in reductions :
            /\ reductions' = reductions \ {r}
            /\ ttsp' = (ttsp \ r)
                   \cup {[(CHOOSE e \in r : TRUE) EXCEPT !.tree = parallel_composition({e.tree : e \in r})]}
    BY DEF ReduceParallel
  <1>5. Net(graph, ttsp) /\ ParallelPending(ttsp, reductions)
    BY <1>2 DEF DecompositionInv, RoundInv
  <1>6. r \subseteq ttsp /\ (\E p, q \in r : p # q) /\ \A p, q \in r : p.src = q.src /\ p.dst = q.dst
    BY <1>5 DEF ParallelPending, SameEnded
  <1> DEFINE kept == CHOOSE e \in r : TRUE
             tree == parallel_composition({e.tree : e \in r})
             m == [kept EXCEPT !.tree = tree]
  <1>7. kept \in r
    BY <1>6
  <1>8. ttsp' = (ttsp \ r) \cup {m}
    BY <1>4
  <1> HIDE DEF kept, tree
  <1>9. kept = [src |-> kept.src, dst |-> kept.dst, tree |-> kept.tree]
    BY <1>5, <1>6, <1>7 DEF Net, Parted, Part
  <1>10. m = [src |-> kept.src, dst |-> kept.dst, tree |-> tree]
    BY <1>9
  <1>11. \A e \in r : e.src = kept.src /\ e.dst = kept.dst
    BY <1>6, <1>7
  <1> HIDE DEF m
  <1>12. Replaces(graph, ttsp, r, m)
    <2>1. PICK p0 \in r, q0 \in r : p0 # q0
      BY <1>6
    <2>2. Replaces(graph, ttsp, r, [src |-> kept.src, dst |-> kept.dst,
                                    tree |-> parallel_composition({e.tree : e \in r})])
      BY <1>1, <1>5, <1>6, <1>11, <2>1, ParallelReplaces
    <2> QED BY <1>10, <2>2 DEF tree
  <1>13. Net(graph, ttsp')
    BY <1>1, <1>5, <1>8, <1>12, Replaced
  <1>14. ParallelPending(ttsp', reductions')
    <2>1. ParallelPending((ttsp \ r) \cup {m}, reductions \ {r})
      BY <1>5, ParallelStillPending
    <2> QED BY <1>4, <1>8, <2>1, Zenon
  <1>15. RoundInv'
    BY <1>2, <1>3, <1>13, <1>14 DEF RoundInv
  <1> QED BY <1>2, <1>3, <1>15 DEF DecompositionInv

\* perform_extended_series_reduction keeps the picture.
LEMMA ReduceSeriesStep ==
    ASSUME DecompositionInv, ReduceSeries
    PROVE  DecompositionInv'
  <1>1. PICK pos : IsRanked(graph, pos)
    BY OrderedIsRanked DEF DecompositionInv, ReduceSeries
  <1>2. /\ spPc = "series" /\ spPc' = "series" /\ reduced' = TRUE /\ vars' = vars
        /\ pc = "ordered"
    BY DEF ReduceSeries, DecompositionInv
  <1>3. graph' = graph /\ pc' = pc /\ IInv'
    BY <1>2, OrderKept
  <1>4. PICK r \in reductions :
            /\ reductions' = reductions \ {r}
            /\ ttsp' = {e \in ttsp : /\ e.src \notin {r[i].dst : i \in 1..(Len(r) - 1)}
                                     /\ e.dst \notin {r[i].dst : i \in 1..(Len(r) - 1)}}
                   \cup {[src |-> Head(r).src, dst |-> Last(r).dst,
                          tree |-> series_composition([i \in 1..Len(r) |-> r[i].tree])]}
    BY DEF ReduceSeries
  <1>5. Net(graph, ttsp) /\ SeriesPending(ttsp, reductions)
    BY <1>2 DEF DecompositionInv, RoundInv
  <1>6. IsStrand(ttsp, r)
    BY <1>5 DEF SeriesPending
  <1> DEFINE m == [src |-> Head(r).src, dst |-> Last(r).dst,
                   tree |-> series_composition([i \in 1..Len(r) |-> r[i].tree])]
  <1>7. ttsp' = (ttsp \ Elements(r)) \cup {m}
    BY <1>4, <1>6, StrandIsCut
  <1>8. Replaces(graph, ttsp, Elements(r), m)
    BY <1>1, <1>5, <1>6, SeriesReplaces
  <1>9. m.src = Head(r).src /\ m.dst = Last(r).dst
    OBVIOUS
  <1> HIDE DEF m
  <1>10. Net(graph, ttsp')
    BY <1>1, <1>5, <1>7, <1>8, Replaced
  <1>11. SeriesPending(ttsp', reductions')
    <2>1. SeriesPending((ttsp \ Elements(r)) \cup {m}, reductions \ {r})
      BY <1>5, <1>9, SeriesStillPending
    <2> QED BY <1>4, <1>7, <2>1, Zenon
  <1>12. RoundInv'
    BY <1>2, <1>3, <1>10, <1>11 DEF RoundInv
  <1> QED BY <1>2, <1>3, <1>12 DEF DecompositionInv

\* The strands of the second half of a round are found in the picture it has.
LEMMA FindSeriesStep ==
    ASSUME DecompositionInv, FindSeriesReductions
    PROVE  DecompositionInv'
  <1>1. /\ spPc = "parallel" /\ reductions = {} /\ spPc' = "series"
        /\ reductions' = SeriesReductions /\ ttsp' = ttsp /\ reduced' = reduced /\ vars' = vars
    BY DEF FindSeriesReductions
  <1>2. graph' = graph /\ pc' = pc /\ IInv'
    BY <1>1, OrderKept
  <1>3. Net(graph, ttsp) /\ (~reduced => ParallelReductions(ttsp) = {}) /\ reduced \in BOOLEAN
    BY <1>1 DEF DecompositionInv, RoundInv
  <1>4. /\ SeriesPending(ttsp, reductions')
        /\ reductions' = {} => \A e \in ttsp : Inner(ttsp, e.dst) => Inner(ttsp, e.src)
    BY <1>1, <1>3, SeriesFound DEF Net
  <1>5. RoundInv'
    BY <1>1, <1>2, <1>3, <1>4 DEF RoundInv
  <1> QED BY <1>1, <1>2, <1>3, <1>5 DEF DecompositionInv

\* The next round starts afresh.
LEMMA NextRoundStep ==
    ASSUME DecompositionInv, NextRound
    PROVE  DecompositionInv'
  <1>1. /\ spPc = "series" /\ spPc' = "parallel" /\ reductions' = ParallelReductions(ttsp)
        /\ ttsp' = ttsp /\ reduced' = FALSE /\ vars' = vars
    BY DEF NextRound
  <1>2. graph' = graph /\ pc' = pc /\ IInv'
    BY <1>1, OrderKept
  <1>3. Net(graph, ttsp)
    BY <1>1 DEF DecompositionInv, RoundInv
  <1>4. ParallelPending(ttsp, reductions')
    BY <1>1, <1>3, ParallelFound DEF Net
  <1>5. RoundInv'
    BY <1>1, <1>2, <1>3, <1>4 DEF RoundInv
  <1> QED BY <1>1, <1>2, <1>5 DEF DecompositionInv

\* A round without a reduction ends with one edge, or an N.
LEMMA FinishStep ==
    ASSUME DecompositionInv, FinishDecomposition
    PROVE  DecompositionInv'
  <1>1. PICK pos : IsRanked(graph, pos)
    BY OrderedIsRanked DEF DecompositionInv, FinishDecomposition
  <1>2. /\ spPc = "series" /\ reductions = {} /\ ~reduced /\ vars' = vars
        /\ ttsp' = ttsp /\ reduced' = reduced
        /\ spPc' = IF Cardinality(TtspNodes) = 2 /\ Cardinality(ttsp) = 1
                   THEN "decomposed" ELSE "not_sp"
    BY DEF FinishDecomposition
  <1>3. graph' = graph /\ pc' = pc /\ IInv'
    BY <1>2, OrderKept
  <1>4. /\ Net(graph, ttsp) /\ ParallelReductions(ttsp) = {}
        /\ \A e \in ttsp : Inner(ttsp, e.dst) => Inner(ttsp, e.src)
    BY <1>2 DEF DecompositionInv, RoundInv
  <1>5. Stuck(graph, ttsp)
    BY <1>4, ParallelFound DEF Stuck, Net
  <1>6. CASE spPc' = "decomposed"
    <2>1. Cardinality(ttsp) = 1
      BY <1>2, <1>6
    <2>2. RoundInv'
      BY <1>2, <1>3, <1>4, <1>6, <2>1 DEF RoundInv
    <2> QED BY <1>2, <1>3, <1>6, <2>2 DEF DecompositionInv
  <1>7. CASE spPc' = "not_sp"
    <2>1. HasN \/ graph.nodes = {}
      <3> SUFFICES ASSUME graph.nodes # {}, ~HasN PROVE FALSE
        OBVIOUS
      <3>1. PICK e \in ttsp : TRUE
        BY <1>4 DEF Net, Parted
      <3>2. \A f \in ttsp : f = e
        BY <1>1, <1>5, StuckHasN
      <3>3. ttsp = {e}
        BY <3>2
      <3>4. e.src # e.dst
        BY <1>1, <1>4, FollowsFacts DEF Net, Joined
      <3>5. TtspNodes = {e.src} \cup {e.dst}
        BY <3>3 DEF TtspNodes
      <3> DEFINE a == e.src
                 b == e.dst
      <3>6. Cardinality({a} \cup {b}) = 2
        <4> HIDE DEF a, b
        <4>1. a # b
          BY <3>4 DEF a, b
        <4>2. IsFiniteSet({a}) /\ Cardinality({a}) = 1
          BY FS_Singleton, Zenon
        <4>3. Cardinality({a} \cup {b}) = Cardinality({a}) + 1
          BY <4>1, <4>2, FS_AddElement
        <4> QED BY <4>2, <4>3
      <3>7. Cardinality(ttsp) = 1
        BY <3>3, FS_Singleton
      <3> QED BY <1>2, <1>7, <3>5, <3>6, <3>7
    <2>2. HasN' \/ graph'.nodes = {}
      BY <1>3, <2>1, StillHasN
    <2>3. RoundInv'
      BY <1>2, <1>7, <2>2 DEF RoundInv
    <2> QED BY <1>2, <1>3, <1>7, <2>3 DEF DecompositionInv
  <1> QED BY <1>2, <1>6, <1>7

\* The graph is ordered before its decomposition starts.
LEMMA OrderStepUnderneath ==
    ASSUME DecompositionInv, Next, UNCHANGED spVars
    PROVE  DecompositionInv'
  <1>1. pc # "ordered"
    BY DEF Next, Check, Order, VisitRoot, ExploreSuccessor, FindCycle, FinishNode, StartOrdering,
       PushSuccessor, VisitNode, SkipNode, ReturnOrder
  <1>2. spPc = "waiting" /\ spPc' = "waiting" /\ reduced' = reduced
    BY <1>1 DEF DecompositionInv, spVars
  <1>3. IInv'
    BY InductiveStep DEF DecompositionInv
  <1> QED BY <1>2, <1>3 DEF DecompositionInv, RoundInv

\* Nothing changes when nothing is done.
LEMMA DecompositionStutters ==
    ASSUME DecompositionInv, UNCHANGED allVars
    PROVE  DecompositionInv'
  <1>1. /\ vars' = vars /\ spPc' = spPc /\ ttsp' = ttsp
        /\ reductions' = reductions /\ reduced' = reduced
    BY DEF allVars, spVars
  <1>2. IInv' /\ graph' = graph /\ pc' = pc
    BY <1>1, OrderKept
  <1>3. HasN => HasN'
    BY <1>2, StillHasN
  <1>4. RoundInv'
    BY <1>1, <1>2, <1>3 DEF DecompositionInv, RoundInv
  <1> QED BY <1>1, <1>2, <1>4 DEF DecompositionInv

\* The invariant of the decomposition, for every set of graphs.
THEOREM DecompositionInductive == SpSpec => []DecompositionInv
  <1>1. SpInit => DecompositionInv
    <2> SUFFICES ASSUME SpInit PROVE DecompositionInv
      OBVIOUS
    <2>1. IInv /\ spPc = "waiting" /\ reduced = FALSE
      BY InductiveInit DEF SpInit
    <2> QED BY <2>1 DEF DecompositionInv, RoundInv
  <1>2. DecompositionInv /\ [SpNext]_allVars => DecompositionInv'
    BY StartStep, ReduceParallelStep, FindSeriesStep, ReduceSeriesStep, NextRoundStep,
       FinishStep, OrderStepUnderneath, DecompositionStutters DEF SpNext
  <1> QED BY <1>1, <1>2, PTL DEF SpSpec

\* A picture's trees denote the graph.
LEMMA InvariantDenotes == DecompositionInv => TreesDenoteTheGraph
  <1> SUFFICES ASSUME DecompositionInv, spPc \in {"parallel", "series", "decomposed"}
               PROVE  /\ UNION {Denoted(e).layers : e \in ttsp} = graph.nodes
                      /\ \A e, f \in ttsp : e # f => Denoted(e).layers \cap Denoted(f).layers = {}
                      /\ \A e \in ttsp :
                            /\ Denoted(e).twice = {}
                            /\ Denoted(e).order =
                                  Closure(graph) \cap (Denoted(e).layers \X Denoted(e).layers)
                      /\ spPc = "decomposed" =>
                            \E e \in ttsp : /\ Denoted(e).layers = graph.nodes
                                            /\ Denoted(e).order = Closure(graph)
    BY DEF TreesDenoteTheGraph
  <1>1. PICK pos : IsRanked(graph, pos)
    BY OrderedIsRanked DEF DecompositionInv
  <1>2. Parted(graph, ttsp) /\ Net(graph, ttsp)
    BY DEF DecompositionInv, RoundInv, Net
  <1>3. \A e : Denoted(e) = Value(graph, e) /\ Denoted(e).layers = Layers(graph, e)
    BY DEF Denoted, Value, Layers
  <1>4. UNION {Denoted(e).layers : e \in ttsp} = graph.nodes
    <2>1. \A e \in ttsp : Denoted(e).layers \subseteq graph.nodes
      BY <1>2, <1>3 DEF Parted, Part
    <2>2. \A x \in graph.nodes : \E e \in ttsp : x \in Denoted(e).layers
      BY <1>2, <1>3 DEF Parted
    <2> QED BY <2>1, <2>2
  <1>5. \A e, f \in ttsp : e # f => Denoted(e).layers \cap Denoted(f).layers = {}
    BY <1>2, <1>3 DEF Parted
  <1>6. \A e \in ttsp :
            /\ Denoted(e).twice = {}
            /\ Denoted(e).order = Closure(graph) \cap (Denoted(e).layers \X Denoted(e).layers)
    BY <1>2, <1>3 DEF Parted, Part
  <1>7. ASSUME spPc = "decomposed"
        PROVE  \E e \in ttsp : /\ Denoted(e).layers = graph.nodes
                               /\ Denoted(e).order = Closure(graph)
    <2>1. Cardinality(ttsp) = 1 /\ IsFiniteSet(ttsp)
      BY <1>2, <1>7 DEF DecompositionInv, RoundInv, Net
    <2>2. PICK e : ttsp = {e}
      BY <2>1, FS_Singleton
    <2>3. Denoted(e).layers = graph.nodes
      BY <1>4, <2>2
    <2>4. Closure(graph) \subseteq graph.nodes \X graph.nodes
      BY <1>1, ClosureFacts DEF IsRanked, Pairs
    <2>5. Denoted(e).order = Closure(graph)
      BY <1>6, <2>2, <2>3, <2>4
    <2> QED BY <2>2, <2>3, <2>5
  <1> QED BY <1>4, <1>5, <1>6, <1>7

\* At every moment of the reduction the trees hold each layer of the graph once
\* and order their layers as the graph does; the tree of a finished
\* decomposition is the graph.
THEOREM TreesDenote == SpSpec => []TreesDenoteTheGraph
  BY DecompositionInductive, InvariantDenotes, PTL

\* get_series_parallel_decomposition answers nullopt only for an order with an N,
\* which has no decomposition, and for the empty graph, and a tree for no order with one.
THEOREM GivesUp == SpSpec => []GivesUpOnlyWithoutDecomposition
  <1>1. ASSUME DecompositionInv PROVE GivesUpOnlyWithoutDecomposition
    <2>1. spPc = "not_sp" => HasN \/ graph.nodes = {}
      BY <1>1 DEF DecompositionInv, RoundInv
    <2>2. ASSUME spPc = "decomposed" PROVE ~HasN
      <3>1. TreesDenoteTheGraph
        BY <1>1, InvariantDenotes
      <3>2. PICK e \in ttsp : Denoted(e).layers = graph.nodes /\ Denoted(e).order = Closure(graph)
        BY <2>2, <3>1 DEF TreesDenoteTheGraph
      <3>3. PICK pos : IsRanked(graph, pos)
        BY <1>1, <2>2, OrderedIsRanked DEF DecompositionInv
      <3>4. Net(graph, ttsp) /\ IsFiniteSet(graph.nodes)
        BY <1>1, <2>2, <3>3 DEF DecompositionInv, RoundInv, IsRanked, IsGraph
      <3>5. Part(graph, e) /\ Layers(graph, e) = graph.nodes
        BY <3>2, <3>4 DEF Net, Parted, Denoted, Value, Layers
      <3> DEFINE d == Cardinality(graph.nodes)
      <3>6. d \in Nat /\ d - 1 <= d /\ d <= d
        BY <3>4, FS_CardinalityType
      <3>7. e.tree \in DOMAIN Poset[d]
        BY <3>4, <3>5, <3>6, PartDepth
      <3>8. Denoted(e) = Poset[d][e.tree] /\ Denoted(e).twice = {}
        BY <2>2, <3>1 DEF Denoted, TreesDenoteTheGraph
      <3> HIDE DEF d
      <3> QED BY <3>2, <3>6, <3>7, <3>8, DenotedHasNoN
    <2> QED BY <2>1, <2>2 DEF GivesUpOnlyWithoutDecomposition
  <1> QED BY <1>1, DecompositionInductive, PTL
=============================================================================
