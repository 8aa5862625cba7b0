---------------------- MODULE DependencyTracking_proofs ----------------------
(***************************************************************************)
(* The safety of dependency tracking for any set of operations, any set of *)
(* values and any sequence of invocations.                                 *)
(***************************************************************************)
EXTENDS DependencyTracking, DependencySet_proofs

(***************************************************************************)
(* Recording keeps a dependency set well formed.                           *)
(***************************************************************************)
LEMMA RecordType ==
  ASSUME NEW d \in DependencySets, NEW R \in SUBSET Value, NEW W \in SUBSET Value,
         NEW e \in Event
  PROVE  RecordInvocation(d, R, W, e) \in DependencySets
<1> DEFINE A == [writer : Event, readers : Event]
           S == DOMAIN d.atomic \cup R \cup W
<1>1. /\ d.precondition \in Event
      /\ DOMAIN d.atomic \in SUBSET Value
      /\ \A v \in DOMAIN d.atomic : d.atomic[v] \in A
  BY DEF DependencySets
<1>2. \A v : AtomicOf(d, v) \in A
  BY <1>1 DEF AtomicOf, NewAtomicDependencySet, NoEvent, Event
<1>3. \A a \in A : AddReader(a, e) \in A /\ AddWriter(a, e) \in A
  BY DEF AddReader, AddWriter, AtomicDependencyForWriter, MergeEvents, NoEvent, Event
<1> DEFINE rec(v) == LET read == IF v \in R THEN AddReader(AtomicOf(d, v), e)
                                           ELSE AtomicOf(d, v)
                     IN  IF v \in W THEN AddWriter(read, e) ELSE read
<1>4. \A v : rec(v) \in A
  BY <1>2, <1>3
<1>5. RecordInvocation(d, R, W, e) =
        [precondition |-> d.precondition, atomic |-> [v \in S |-> rec(v)]]
  BY Zenon DEF RecordInvocation
<1> HIDE DEF rec
<1>6. [v \in S |-> rec(v)] \in [S -> A]
  BY <1>4
<1>7. S \in SUBSET Value
  BY <1>1
<1>8. [v \in S |-> rec(v)] \in UNION {[T -> A] : T \in SUBSET Value}
  BY Zenon, <1>6, <1>7
<1> HIDE DEF S, A
<1>9. RecordInvocation(d, R, W, e)
        \in [precondition : Event, atomic : UNION {[T -> A] : T \in SUBSET Value}]
  BY <1>1, <1>5, <1>8
<1> QED BY Zenon, <1>9 DEF DependencySets, A

(***************************************************************************)
(* The inductive invariant.  What a later reader or writer of a value must *)
(* wait for has been recorded in the dependency set, across phases; and    *)
(* the events in circulation speak of issued operations only.              *)
(***************************************************************************)
AccessesRecorded ==
  \A o \in Issued, v \in Value :
    /\ v \in access[o].writes => o \in DependencyForReader(deps, v)
    /\ v \in Touches(o) => o \in DependencyForWriter(deps, v)

EventsAreIssued ==
  /\ outstanding = Issued
  /\ deps.precondition \subseteq Issued
  /\ \A v \in Value : /\ DependencyForReader(deps, v) \subseteq Issued
                      /\ DependencyForWriter(deps, v) \subseteq Issued
  /\ \A o \in Issued : pre[o] \subseteq Issued

PeersAreIssued ==
  \A o \in Issued : o \in peers[o] /\ peers[o] \subseteq Issued

StartedAfterPrecondition ==
  \A o \in Running \cup Done : pre[o] \subseteq Done

IInv ==
  /\ TypeOK
  /\ AccessesRecorded
  /\ EventsAreIssued
  /\ PeersAreIssued
  /\ ConflictsAreOrdered
  /\ StartedAfterPrecondition
  /\ NoCyclicWait

(***************************************************************************)
(* Initially nothing has been issued.                                      *)
(***************************************************************************)
LEMMA InitIInv == Init => IInv
<1> SUFFICES ASSUME Init PROVE IInv
  OBVIOUS
<1>1. Fresh = Op /\ Issued = {} /\ Running = {} /\ Done = {}
  BY DEF Init, Fresh, Issued, Running, Done
<1>2. deps = [precondition |-> {}, atomic |-> [v \in {} |-> {}]]
  BY DEF Init, NewDependencySet, NoEvent
<1>3. deps \in DependencySets
  <2>1. [v \in {} |-> {}] \in [{} -> [writer : Event, readers : Event]]
    OBVIOUS
  <2> QED BY <1>2, <2>1 DEF DependencySets, Event
<1>4. \A v : DependencyForReader(deps, v) = {} /\ DependencyForWriter(deps, v) = {}
  BY <1>2 DEF DependencyForReader, DependencyForWriter
<1>5. TypeOK
  BY <1>3 DEF Init, TypeOK, Access, Event, NoEvent
<1>6. EventsAreIssued
  BY <1>1, <1>2, <1>4 DEF EventsAreIssued, Init, NoEvent
<1> QED BY <1>1, <1>5, <1>6
  DEF IInv, AccessesRecorded, PeersAreIssued, ConflictsAreOrdered,
      StartedAfterPrecondition, NoCyclicWait

(***************************************************************************)
(* Issuing an invocation keeps the invariant, whatever it reads and writes.*)
(***************************************************************************)
LEMMA IssueIInv ==
  ASSUME IInv, NEW acc \in Invocation, Issue(acc)
  PROVE  IInv'
<1> DEFINE G == DOMAIN acc
           R == Reads(acc)
           W == Writes(acc)
           need == InvocationPrecondition(deps, R, W)
<1>g. /\ \A o \in G : acc[o] \in Access
      /\ \A o \in G : acc[o].reads \subseteq R /\ acc[o].writes \subseteq W
      /\ R \in SUBSET Value /\ W \in SUBSET Value
  BY InvocationAssumption DEF Reads, Writes, Access
<1>d. deps' = RecordInvocation(deps, R, W, G)
  BY DEF Issue
<1> HIDE DEF R, W
<1>0. /\ G \subseteq Op /\ G \cap Issued = {}
      /\ Issued' = Issued \cup G /\ Running' = Running /\ Done' = Done
      /\ Running \cup Done \subseteq Issued
  BY DEF Issue, Fresh, Issued, Running, Done, IInv, TypeOK
<1>1. /\ \A v \in R : DependencyForReader(deps, v) \subseteq need
      /\ \A v \in W : DependencyForWriter(deps, v) \subseteq need
      /\ need \subseteq Issued
  <2>1. \A x \in need : \/ \E v \in R : x \in DependencyForReader(deps, v)
                        \/ \E v \in W : x \in DependencyForWriter(deps, v)
    BY Zenon DEF InvocationPrecondition, MergeEvents
  <2>2. /\ \A v \in R : DependencyForReader(deps, v) \subseteq need
        /\ \A v \in W : DependencyForWriter(deps, v) \subseteq need
    BY DEF InvocationPrecondition, MergeEvents
  <2> HIDE DEF need
  <2> QED BY <1>g, <2>1, <2>2 DEF IInv, EventsAreIssued
<1>2. /\ \A o \in Op : access'[o] = IF o \in G THEN acc[o] ELSE access[o]
      /\ \A o \in Op : peers'[o] = IF o \in G THEN G ELSE peers[o]
      /\ \A o \in Op : pre'[o] = IF o \in G THEN need ELSE pre[o]
  BY DEF Issue, R, W
<1>3. Recorded(deps', deps, R, W, G)
  BY <1>d, AfterRecord
<1>4. /\ deps'.precondition = deps.precondition
      /\ outstanding' = outstanding \cup G
  BY <1>d DEF Issue, RecordInvocation, MergeEvents
<1>5. \A o \in G : acc[o].reads \subseteq R /\ acc[o].writes \subseteq W
  BY <1>g
<1>6. \A o \in Issued, v \in Value :
        /\ v \in access[o].writes => o \in DependencyForReader(deps, v)
        /\ v \in Touches(o) => o \in DependencyForWriter(deps, v)
  BY DEF IInv, AccessesRecorded
<1>t. TypeOK'
  <2>1. deps' \in DependencySets
    <3>1. G \in Event
      BY <1>0 DEF Event
    <3> QED BY <1>d, <1>g, <3>1, RecordType DEF IInv, TypeOK
  <2>2. need \in Event
    BY <1>0, <1>1 DEF Event, Issued
  <2> HIDE DEF need
  <2>3. /\ status' \in [Op -> {"fresh", "issued", "running", "done"}]
        /\ access' \in [Op -> Access]
        /\ peers' \in [Op -> SUBSET Op]
    BY <1>0, <1>g DEF IInv, TypeOK, Issue
  <2>4. pre' \in [Op -> Event]
    <3>1. pre' = [o \in Op |-> IF o \in G THEN need ELSE pre[o]]
      BY DEF Issue, need, R, W
    <3> QED BY <2>2, <3>1 DEF IInv, TypeOK
  <2>5. outstanding' \in Event
    BY <1>0, <1>4 DEF IInv, TypeOK, Event
  <2> QED BY <2>1, <2>3, <2>4, <2>5 DEF TypeOK
<1> HIDE DEF need
<1>a. AccessesRecorded'
  <2> SUFFICES ASSUME NEW o \in Issued', NEW v \in Value
               PROVE  /\ v \in access'[o].writes => o \in DependencyForReader(deps', v)
                      /\ v \in access'[o].reads \cup access'[o].writes
                           => o \in DependencyForWriter(deps', v)
    BY DEF AccessesRecorded, Touches
  <2>1. CASE o \in G
    BY <1>0, <1>2, <1>3, <1>5, <2>1 DEF Recorded
  <2>2. CASE o \in Issued
    <3>1. o \in Op /\ access'[o] = access[o]
      BY <1>0, <1>2, <2>2 DEF Issued
    <3>2. /\ v \in access[o].writes => o \in DependencyForReader(deps, v)
          /\ v \in access[o].reads \cup access[o].writes
               => o \in DependencyForWriter(deps, v)
      BY <1>6, <2>2 DEF Touches
    <3> QED BY <1>3, <3>1, <3>2 DEF Recorded
  <2> QED BY <1>0, <2>1, <2>2
<1>e. EventsAreIssued'
  <2>1. \A v \in Value : /\ DependencyForReader(deps', v) \subseteq Issued'
                         /\ DependencyForWriter(deps', v) \subseteq Issued'
    BY <1>0, <1>3 DEF Recorded, IInv, EventsAreIssued
  <2>2. \A o \in Issued' : pre'[o] \subseteq Issued'
    BY <1>0, <1>1, <1>2 DEF IInv, EventsAreIssued, Issued
  <2>3. outstanding' = Issued' /\ deps'.precondition \subseteq Issued'
    BY <1>0, <1>4 DEF IInv, EventsAreIssued
  <2> QED BY <2>1, <2>2, <2>3 DEF EventsAreIssued
<1>p. PeersAreIssued'
  <2> SUFFICES ASSUME NEW o \in Issued' PROVE o \in peers'[o] /\ peers'[o] \subseteq Issued'
    BY DEF PeersAreIssued
  <2>1. CASE o \in G
    BY <1>0, <1>2, <2>1
  <2>2. CASE o \in Issued
    <3>1. peers'[o] = peers[o]
      BY <1>0, <1>2, <2>2 DEF Issued
    <3> QED BY <1>0, <2>2, <3>1 DEF IInv, PeersAreIssued
  <2> QED BY <1>0, <2>1, <2>2
<1>c. ConflictsAreOrdered'
  <2>1. ASSUME NEW o \in Issued, NEW q \in G, NEW v \in Value,
               \/ v \in acc[q].writes /\ v \in Touches(o)
               \/ v \in access[o].writes /\ v \in acc[q].reads \cup acc[q].writes
        PROVE  o \in need
    <3>1. access[o].writes \subseteq Touches(o)
      BY DEF Touches
    <3> QED BY <1>1, <1>5, <1>6, <2>1, <3>1
  <2> SUFFICES ASSUME NEW o \in Issued', NEW q \in Issued', Conflict(o, q)'
               PROVE  o \in pre'[q] \/ q \in pre'[o]
    BY DEF ConflictsAreOrdered
  <2>2. PICK v : \/ v \in access'[o].writes /\ v \in access'[q].reads \cup access'[q].writes
                 \/ v \in access'[q].writes /\ v \in access'[o].reads \cup access'[o].writes
    BY DEF Conflict, Touches
  <2>3. o \in Op /\ q \in Op /\ v \in Value
    BY <1>t, <2>2 DEF Issued, TypeOK, Access
  <2>4. q \notin peers'[o]
    BY DEF Conflict
  <2>5. CASE o \in Issued /\ q \in Issued
    <3>1. /\ access'[o] = access[o] /\ access'[q] = access[q]
          /\ peers'[o] = peers[o] /\ pre'[o] = pre[o] /\ pre'[q] = pre[q]
      BY <1>0, <1>2, <2>3, <2>5
    <3>2. Conflict(o, q)
      BY <2>2, <2>4, <3>1 DEF Conflict, Touches
    <3> QED BY <2>5, <3>1, <3>2 DEF IInv, ConflictsAreOrdered
  <2>6. CASE o \in Issued /\ q \in G
    BY <1>0, <1>2, <2>1, <2>2, <2>3, <2>6 DEF Touches
  <2>7. CASE o \in G /\ q \in Issued
    BY <1>0, <1>2, <2>1, <2>2, <2>3, <2>7 DEF Touches
  <2>8. CASE o \in G /\ q \in G
    BY <1>2, <2>3, <2>4, <2>8
  <2> QED BY <1>0, <2>5, <2>6, <2>7, <2>8
<1>s. StartedAfterPrecondition'
  <2> SUFFICES ASSUME NEW o \in Running \cup Done PROVE pre'[o] \subseteq Done
    BY <1>0 DEF StartedAfterPrecondition
  <2>1. pre'[o] = pre[o]
    BY <1>0, <1>2 DEF Issued
  <2> QED BY <2>1 DEF IInv, StartedAfterPrecondition
<1>n. NoCyclicWait'
  <2> SUFFICES ASSUME NEW S \in SUBSET (Issued' \ Done'), S # {}
               PROVE  \E o \in S : pre'[o] \cap S = {}
    BY DEF NoCyclicWait
  <2>1. CASE S \subseteq G
    <3>1. PICK o : o \in S
      OBVIOUS
    <3> QED BY <1>0, <1>1, <1>2, <2>1, <3>1
  <2>2. CASE ~(S \subseteq G)
    <3>1. S \ G # {} /\ S \ G \in SUBSET (Issued \ Done)
      BY <1>0, <2>2
    <3>2. PICK o \in S \ G : pre[o] \cap (S \ G) = {}
      BY <3>1 DEF IInv, NoCyclicWait
    <3>3. o \in Issued /\ o \in Op
      BY <3>1, <3>2 DEF Issued
    <3>4. pre'[o] = pre[o] /\ pre[o] \cap G = {}
      BY <1>0, <1>2, <3>2, <3>3 DEF IInv, EventsAreIssued
    <3> QED BY <3>2, <3>4
  <2> QED BY <2>1, <2>2
<1> QED BY <1>t, <1>a, <1>e, <1>p, <1>c, <1>s, <1>n DEF IInv

(***************************************************************************)
(* A new pass drops the recorded accesses and waits for everything instead.*)
(***************************************************************************)
LEMMA BeginPhaseIInv == IInv /\ BeginPhase => IInv'
<1> SUFFICES ASSUME IInv, BeginPhase PROVE IInv'
  OBVIOUS
<1>1. /\ UNCHANGED <<status, access, peers, pre, outstanding>>
      /\ deps' = [precondition |-> outstanding, atomic |-> [v \in {} |-> {}]]
  BY DEF BeginPhase, NewDependencySet
<1>2. /\ Issued' = Issued /\ Running' = Running /\ Done' = Done /\ Fresh' = Fresh
  BY <1>1 DEF Issued, Fresh, Running, Done
<1>3. deps' \in DependencySets
  <2>1. [v \in {} |-> {}] \in [{} -> [writer : Event, readers : Event]]
    OBVIOUS
  <2>2. [v \in {} |-> {}] \in UNION {[S -> [writer : Event, readers : Event]] :
                                    S \in SUBSET Value}
    BY <2>1
  <2> QED BY <1>1, <2>2 DEF DependencySets, IInv, TypeOK
<1>4. \A v : /\ DependencyForReader(deps', v) = outstanding
            /\ DependencyForWriter(deps', v) = outstanding
  BY <1>1 DEF DependencyForReader, DependencyForWriter
<1>5. TypeOK'
  BY <1>1, <1>3 DEF IInv, TypeOK
<1>6. AccessesRecorded'
  BY <1>2, <1>4 DEF AccessesRecorded, IInv, EventsAreIssued
<1>7. EventsAreIssued'
  BY <1>1, <1>2, <1>4 DEF EventsAreIssued, IInv
<1>8. PeersAreIssued' /\ StartedAfterPrecondition' /\ NoCyclicWait'
  BY <1>1, <1>2 DEF PeersAreIssued, StartedAfterPrecondition, NoCyclicWait, IInv
<1>9. ConflictsAreOrdered'
  BY <1>1, <1>2 DEF ConflictsAreOrdered, Conflict, Touches, IInv
<1> QED BY <1>5, <1>6, <1>7, <1>8, <1>9 DEF IInv

(***************************************************************************)
(* Registering NO_EVENT loses nothing: the events already recorded for a   *)
(* value stay merged into what its next reader or writer waits for.        *)
(***************************************************************************)
LEMMA RegisterIInv ==
  ASSUME IInv, NEW acc \in Registered, Register(acc)
  PROVE  IInv'
<1> DEFINE R == acc.reads
           W == acc.writes
<1>0. R \in SUBSET Value /\ W \in SUBSET Value
  BY RegisteredAssumption DEF Access
<1>1. UNCHANGED <<status, access, peers, pre, outstanding>>
  BY DEF Register
<1>2. /\ Issued' = Issued /\ Running' = Running /\ Done' = Done /\ Fresh' = Fresh
  BY <1>1 DEF Issued, Fresh, Running, Done
<1>d. deps' = RecordInvocation(deps, R, W, NoEvent)
  BY DEF Register
<1> HIDE DEF R, W
<1>3. Recorded(deps', deps, R, W, NoEvent)
  BY <1>d, AfterRecord
<1>4. deps'.precondition = deps.precondition
  BY <1>d DEF RecordInvocation
<1>5. TypeOK'
  <2>1. {} \in Event
    BY DEF Event
  <2>2. deps' \in DependencySets
    BY <1>0, <1>d, <2>1, RecordType DEF IInv, TypeOK, NoEvent
  <2> QED BY <1>1, <2>2 DEF IInv, TypeOK
<1>6. AccessesRecorded'
  BY <1>1, <1>2, <1>3 DEF Recorded, IInv, AccessesRecorded, Touches, NoEvent
<1>7. EventsAreIssued'
  BY <1>1, <1>2, <1>3, <1>4 DEF Recorded, IInv, EventsAreIssued, NoEvent
<1>8. PeersAreIssued' /\ StartedAfterPrecondition' /\ NoCyclicWait'
  BY <1>1, <1>2 DEF PeersAreIssued, StartedAfterPrecondition, NoCyclicWait, IInv
<1>9. ConflictsAreOrdered'
  BY <1>1, <1>2 DEF ConflictsAreOrdered, Conflict, Touches, IInv
<1> QED BY <1>5, <1>6, <1>7, <1>8, <1>9 DEF IInv

(***************************************************************************)
(* The runtime's steps: an operation starts once its precondition is done, *)
(* and a finished operation stays finished.                                *)
(***************************************************************************)
LEMMA StartIInv == ASSUME IInv, NEW o \in Op, Start(o) PROVE IInv'
<1>1. UNCHANGED <<access, peers, pre, deps, outstanding>>
  BY DEF Start
<1>2. status' \in [Op -> {"fresh", "issued", "running", "done"}]
  BY DEF IInv, TypeOK, Start
<1>3. /\ Issued' = Issued /\ Done' = Done /\ Running' = Running \cup {o}
      /\ pre[o] \subseteq Done
  BY DEF IInv, TypeOK, Start, Issued, Fresh, Done, Running
<1>4. TypeOK'
  BY <1>1, <1>2 DEF IInv, TypeOK
<1>5. AccessesRecorded' /\ EventsAreIssued' /\ PeersAreIssued' /\ NoCyclicWait'
  BY <1>1, <1>3
  DEF IInv, AccessesRecorded, Touches, EventsAreIssued, PeersAreIssued, NoCyclicWait
<1>6. ConflictsAreOrdered'
  BY <1>1, <1>3 DEF IInv, ConflictsAreOrdered, Conflict, Touches
<1>7. StartedAfterPrecondition'
  BY <1>1, <1>3 DEF IInv, StartedAfterPrecondition
<1> QED BY <1>4, <1>5, <1>6, <1>7 DEF IInv

LEMMA FinishIInv == ASSUME IInv, NEW o \in Op, Finish(o) PROVE IInv'
<1>1. UNCHANGED <<access, peers, pre, deps, outstanding>>
  BY DEF Finish
<1>2. status' \in [Op -> {"fresh", "issued", "running", "done"}]
  BY DEF IInv, TypeOK, Finish
<1>3. /\ Issued' = Issued /\ Done' = Done \cup {o}
      /\ Running' \cup Done' = Running \cup Done
  BY DEF IInv, TypeOK, Finish, Issued, Fresh, Done, Running
<1>4. TypeOK'
  BY <1>1, <1>2 DEF IInv, TypeOK
<1>5. AccessesRecorded' /\ EventsAreIssued' /\ PeersAreIssued'
  BY <1>1, <1>3 DEF IInv, AccessesRecorded, Touches, EventsAreIssued, PeersAreIssued
<1>6. ConflictsAreOrdered'
  BY <1>1, <1>3 DEF IInv, ConflictsAreOrdered, Conflict, Touches
<1>7. StartedAfterPrecondition' /\ NoCyclicWait'
  BY <1>1, <1>3 DEF IInv, StartedAfterPrecondition, NoCyclicWait
<1> QED BY <1>4, <1>5, <1>6, <1>7 DEF IInv

LEMMA NextIInv == IInv /\ [Next]_vars => IInv'
<1> SUFFICES ASSUME IInv, [Next]_vars PROVE IInv'
  OBVIOUS
<1>1. CASE BeginPhase
  BY <1>1, BeginPhaseIInv
<1>2. ASSUME NEW acc \in Invocation, Issue(acc) PROVE IInv'
  BY <1>2, IssueIInv
<1>3. ASSUME NEW acc \in Registered, Register(acc) PROVE IInv'
  BY <1>3, RegisterIInv
<1>4. ASSUME NEW o \in Op, Start(o) PROVE IInv'
  BY <1>4, StartIInv
<1>5. ASSUME NEW o \in Op, Finish(o) PROVE IInv'
  BY <1>5, FinishIInv
<1>6. CASE UNCHANGED vars
  BY <1>6
  DEF vars, IInv, TypeOK, AccessesRecorded, EventsAreIssued, PeersAreIssued,
      ConflictsAreOrdered, StartedAfterPrecondition, NoCyclicWait, Conflict,
      Touches, Issued, Fresh, Running, Done
<1> QED BY <1>1, <1>2, <1>3, <1>4, <1>5, <1>6 DEF Next

-----------------------------------------------------------------------------

(***************************************************************************)
(* The invariant holds in every reachable state.                           *)
(***************************************************************************)
THEOREM InductiveInvariant == Spec => []IInv
BY InitIInv, NextIInv, PTL DEF Spec

(***************************************************************************)
(* Every variable keeps its type: the events handed to Realm are sets of   *)
(* operations, and the dependency set maps values to writer/readers pairs. *)
(***************************************************************************)
THEOREM TypeCorrect == Spec => []TypeOK
<1>1. IInv => TypeOK
  BY DEF IInv
<1> QED BY <1>1, InductiveInvariant, PTL

(***************************************************************************)
(* Of two conflicting operations one waits for the other, whatever passes  *)
(* and collectives they come from.                                         *)
(***************************************************************************)
THEOREM ConflictsOrdered == Spec => []ConflictsAreOrdered
<1>1. IInv => ConflictsAreOrdered
  BY DEF IInv
<1> QED BY <1>1, InductiveInvariant, PTL

(***************************************************************************)
(* A shard never has a writer next to another writer or a reader.          *)
(***************************************************************************)
THEOREM SWMR == Spec => []SingleWriterMultipleReaders
<1>1. IInv => SingleWriterMultipleReaders
  <2> SUFFICES ASSUME IInv, NEW o \in Running, NEW q \in Running, Conflict(o, q)
               PROVE  FALSE
    BY DEF SingleWriterMultipleReaders
  <2>1. o \in Issued /\ q \in Issued
    BY DEF Issued, Fresh, Running
  <2>2. o \in pre[q] \/ q \in pre[o]
    BY <2>1 DEF IInv, ConflictsAreOrdered
  <2>3. pre[o] \subseteq Done /\ pre[q] \subseteq Done
    BY DEF IInv, StartedAfterPrecondition
  <2> QED BY <2>2, <2>3 DEF Running, Done
<1> QED BY <1>1, InductiveInvariant, PTL

(***************************************************************************)
(* The events issued so far never wait for each other in a circle.         *)
(***************************************************************************)
THEOREM Acyclic == Spec => []NoCyclicWait
<1>1. IInv => NoCyclicWait
  BY DEF IInv
<1> QED BY <1>1, InductiveInvariant, PTL

-----------------------------------------------------------------------------
(***************************************************************************)
(* The tracking does not serialise what it need not.  What a later reader  *)
(* or writer of v would wait for, beyond the precondition of the phase,    *)
(* belongs to an invocation that writes or touches v, or is waited for by  *)
(* something else the later one waits for.                                 *)
(***************************************************************************)
ReaderReason(o, v) ==
  \/ \E p \in peers[o] : v \in access[p].writes
  \/ \E w \in DependencyForReader(deps, v) : o \in pre[w]

WriterReason(o, v) ==
  \/ \E p \in peers[o] : v \in Touches(p)
  \/ \E w \in DependencyForWriter(deps, v) : o \in pre[w]

DependenciesHaveReasons ==
  \A v \in Value :
    /\ \A o \in DependencyForReader(deps, v) \ deps.precondition : ReaderReason(o, v)
    /\ \A o \in DependencyForWriter(deps, v) \ deps.precondition : WriterReason(o, v)

SInv == IInv /\ DependenciesHaveReasons /\ NoSpuriousDependency

\* An invocation records itself under what it reads and writes, and nothing else.
LEMMA IssueReasons ==
  ASSUME SInv, NEW acc \in Invocation, Issue(acc)
  PROVE  DependenciesHaveReasons' /\ NoSpuriousDependency'
<1> DEFINE G == DOMAIN acc
           R == Reads(acc)
           W == Writes(acc)
           need == InvocationPrecondition(deps, R, W)
<1>0. /\ G \subseteq Op /\ G # {} /\ G \cap Issued = {} /\ Issued' = Issued \cup G
      /\ R \in SUBSET Value /\ W \in SUBSET Value
      /\ \A o \in G : acc[o] \in Access
  <2>1. G \subseteq Op /\ G # {} /\ \A o \in G : acc[o] \in Access
    BY InvocationAssumption
  <2>2. R \in SUBSET Value /\ W \in SUBSET Value
    BY InvocationAssumption DEF Reads, Writes, Access
  <2> HIDE DEF R, W
  <2>3. G \cap Issued = {} /\ Issued' = Issued \cup G
    BY <2>1 DEF Issue, Fresh, Issued, SInv, IInv, TypeOK
  <2> QED BY <2>1, <2>2, <2>3
<1>1. /\ \A v \in R : \E p \in G : v \in acc[p].reads
      /\ \A v \in W : \E p \in G : v \in acc[p].writes
  BY DEF Reads, Writes
<1>2. deps' = RecordInvocation(deps, R, W, G)
  BY DEF Issue
<1> HIDE DEF R, W
<1>3. /\ \A o \in Op : access'[o] = IF o \in G THEN acc[o] ELSE access[o]
      /\ \A o \in Op : peers'[o] = IF o \in G THEN G ELSE peers[o]
      /\ \A o \in Op : pre'[o] = IF o \in G THEN need ELSE pre[o]
  BY DEF Issue, R, W
<1>4. /\ \A x \in need : \/ \E v \in R : x \in DependencyForReader(deps, v)
                         \/ \E v \in W : x \in DependencyForWriter(deps, v)
      /\ \A v \in R : DependencyForReader(deps, v) \subseteq need
      /\ \A v \in W : DependencyForWriter(deps, v) \subseteq need
  <2>1. \A x \in need : \/ \E v \in R : x \in DependencyForReader(deps, v)
                        \/ \E v \in W : x \in DependencyForWriter(deps, v)
    BY Zenon DEF InvocationPrecondition, MergeEvents
  <2>2. /\ \A v \in R : DependencyForReader(deps, v) \subseteq need
        /\ \A v \in W : DependencyForWriter(deps, v) \subseteq need
    BY DEF InvocationPrecondition, MergeEvents
  <2> QED BY <2>1, <2>2
<1> HIDE DEF need, G
<1>5. Recorded(deps', deps, R, W, G) /\ deps'.precondition = deps.precondition
  BY <1>2, AfterRecord DEF RecordInvocation
<1>6. \A v \in Value : /\ DependencyForReader(deps, v) \subseteq Issued
                       /\ DependencyForWriter(deps, v) \subseteq Issued
  BY DEF SInv, IInv, EventsAreIssued
<1>7. need \subseteq Issued
  BY <1>0, <1>4, <1>6
<1>8. \A o \in Issued : /\ o \in Op /\ o \notin G
                        /\ pre'[o] = pre[o] /\ peers'[o] = peers[o] /\ access'[o] = access[o]
                        /\ peers[o] \subseteq Issued
  BY <1>0, <1>3 DEF Issued, SInv, IInv, PeersAreIssued
<1>9. \A o \in G : /\ o \in Op
                   /\ pre'[o] = need /\ peers'[o] = G /\ access'[o] = acc[o]
  BY <1>0, <1>3
<1>10. \A v \in Value :
         /\ \A o \in DependencyForReader(deps, v) \ deps.precondition :
              \/ \E p \in peers[o] : v \in access[p].writes
              \/ \E w \in DependencyForReader(deps, v) : o \in pre[w]
         /\ \A o \in DependencyForWriter(deps, v) \ deps.precondition :
              \/ \E p \in peers[o] : v \in Touches(p)
              \/ \E w \in DependencyForWriter(deps, v) : o \in pre[w]
  BY DEF SInv, DependenciesHaveReasons, ReaderReason, WriterReason
<1>11. ASSUME NEW v \in Value, NEW o \in DependencyForReader(deps', v) \ deps'.precondition
       PROVE  ReaderReason(o, v)'
  <2>1. CASE o \in G
    <3>1. v \in W
      BY <1>0, <1>5, <1>6, <2>1, <1>11 DEF Recorded
    <3>2. PICK p \in G : v \in acc[p].writes
      BY <1>1, <3>1
    <3> QED BY <1>9, <2>1, <3>2 DEF ReaderReason
  <2>2. CASE o \notin G /\ v \in W
    <3>1. o \in DependencyForWriter(deps, v)
      BY <1>5, <1>11, <2>2 DEF Recorded
    <3>2. o \in need
      BY <1>4, <2>2, <3>1
    <3>3. PICK w \in G : TRUE
      BY <1>0
    <3>4. w \in DependencyForReader(deps', v)
      BY <1>5, <2>2 DEF Recorded
    <3> QED BY <1>9, <3>2, <3>4 DEF ReaderReason
  <2>3. CASE o \notin G /\ v \notin W
    <3>1. DependencyForReader(deps', v) = DependencyForReader(deps, v)
      BY <1>5, <2>3 DEF Recorded
    <3>2. \/ \E p \in peers[o] : v \in access[p].writes
          \/ \E w \in DependencyForReader(deps, v) : o \in pre[w]
      BY <1>5, <1>10, <1>11, <3>1
    <3>3. o \in Issued
      BY <1>6, <1>11, <3>1
    <3> QED BY <1>6, <1>8, <3>1, <3>2, <3>3 DEF ReaderReason
  <2> QED BY <2>1, <2>2, <2>3
<1>12. ASSUME NEW v \in Value, NEW o \in DependencyForWriter(deps', v) \ deps'.precondition
       PROVE  WriterReason(o, v)'
  <2>1. CASE o \in G
    <3>1. v \in R \cup W
      BY <1>0, <1>5, <1>6, <2>1, <1>12 DEF Recorded
    <3>2. PICK p \in G : v \in acc[p].reads \cup acc[p].writes
      BY <1>1, <3>1
    <3>3. p \in peers'[o] /\ v \in access'[p].reads \cup access'[p].writes
      BY <1>9, <2>1, <3>2
    <3> QED BY <3>3 DEF WriterReason, Touches
  <2>2. CASE o \notin G
    <3>1. o \in DependencyForWriter(deps, v) /\ o \in Issued
      BY <1>5, <1>6, <1>12, <2>2 DEF Recorded
    <3>2. DependencyForWriter(deps, v) \subseteq DependencyForWriter(deps', v)
      BY <1>5 DEF Recorded
    <3>3. CASE \E p \in peers[o] : v \in Touches(p)
      <4>1. PICK p \in peers[o] : v \in access[p].reads \cup access[p].writes
        BY <3>3 DEF Touches
      <4>2. p \in peers'[o] /\ v \in access'[p].reads \cup access'[p].writes
        BY <1>8, <3>1, <4>1
      <4> QED BY <4>2 DEF WriterReason, Touches
    <3>4. CASE \E w \in DependencyForWriter(deps, v) : o \in pre[w]
      BY <1>6, <1>8, <3>2, <3>4 DEF WriterReason
    <3> QED BY <1>5, <1>10, <1>12, <3>1, <3>3, <3>4
  <2> QED BY <2>1, <2>2
<1>13. ASSUME NEW o \in Issued', NEW q \in Issued', SamePhase(o, q)', o \in pre'[q]
       PROVE  \/ InvocationsConflict(o, q)'
              \/ \E w \in Issued' : o \in pre'[w] /\ w \in pre'[q]
  <2>1. o \notin deps.precondition /\ q \notin deps.precondition
    BY <1>5, <1>13 DEF SamePhase
  <2>2. o \in Issued
    BY <1>0, <1>7, <1>8, <1>9, <1>13 DEF SInv, IInv, EventsAreIssued
  <2>3. CASE q \in Issued
    <3>1. \/ InvocationsConflict(o, q)
          \/ \E w \in Issued : o \in pre[w] /\ w \in pre[q]
      BY <1>8, <1>13, <2>1, <2>2, <2>3 DEF SInv, NoSpuriousDependency, SamePhase
    <3>2. CASE InvocationsConflict(o, q)
      <4>1. PICK p \in peers[o], r \in peers[q] :
              \/ access[p].writes \cap (access[r].reads \cup access[r].writes) # {}
              \/ access[r].writes \cap (access[p].reads \cup access[p].writes) # {}
        BY <3>2 DEF InvocationsConflict, Touches
      <4>2. /\ p \in peers'[o] /\ r \in peers'[q]
            /\ access'[p] = access[p] /\ access'[r] = access[r]
        BY <1>8, <2>2, <2>3, <4>1
      <4> QED BY <4>1, <4>2 DEF InvocationsConflict, Touches
    <3>3. CASE \E w \in Issued : o \in pre[w] /\ w \in pre[q]
      BY <1>0, <1>8, <2>3, <3>3
    <3> QED BY <3>1, <3>2, <3>3
  <2>4. CASE q \in G
    <3>1. o \in need
      BY <1>9, <1>13, <2>4
    <3>2. ASSUME NEW v \in R, o \in DependencyForReader(deps, v)
          PROVE  \/ InvocationsConflict(o, q)'
                 \/ \E w \in Issued' : o \in pre'[w] /\ w \in pre'[q]
      <4>1. CASE \E p \in peers[o] : v \in access[p].writes
        <5>1. PICK p \in peers[o] : v \in access[p].writes
          BY <4>1
        <5>2. PICK r \in G : v \in acc[r].reads
          BY <1>1
        <5>3. /\ p \in peers'[o] /\ access'[p] = access[p]
              /\ r \in peers'[q] /\ access'[r] = acc[r]
          BY <1>8, <1>9, <2>2, <2>4, <5>1, <5>2
        <5> QED BY <5>1, <5>2, <5>3 DEF InvocationsConflict, Touches
      <4>2. CASE \E w \in DependencyForReader(deps, v) : o \in pre[w]
        BY <1>0, <1>4, <1>6, <1>8, <1>9, <2>4, <4>2
      <4> QED BY <1>0, <1>10, <2>1, <3>2, <4>1, <4>2
    <3>3. ASSUME NEW v \in W, o \in DependencyForWriter(deps, v)
          PROVE  \/ InvocationsConflict(o, q)'
                 \/ \E w \in Issued' : o \in pre'[w] /\ w \in pre'[q]
      <4>1. CASE \E p \in peers[o] : v \in Touches(p)
        <5>1. PICK p \in peers[o] : v \in access[p].reads \cup access[p].writes
          BY <4>1 DEF Touches
        <5>2. PICK r \in G : v \in acc[r].writes
          BY <1>1
        <5>3. /\ p \in peers'[o] /\ access'[p] = access[p]
              /\ r \in peers'[q] /\ access'[r] = acc[r]
          BY <1>8, <1>9, <2>2, <2>4, <5>1, <5>2
        <5> QED BY <5>1, <5>2, <5>3 DEF InvocationsConflict, Touches
      <4>2. CASE \E w \in DependencyForWriter(deps, v) : o \in pre[w]
        BY <1>0, <1>4, <1>6, <1>8, <1>9, <2>4, <4>2
      <4> QED BY <1>0, <1>10, <2>1, <3>3, <4>1, <4>2
    <3> QED BY <1>4, <3>1, <3>2, <3>3
  <2> QED BY <1>0, <2>3, <2>4
<1>14. DependenciesHaveReasons'
  BY <1>11, <1>12 DEF DependenciesHaveReasons
<1>15. NoSpuriousDependency'
  BY <1>13 DEF NoSpuriousDependency
<1> QED BY <1>14, <1>15

LEMMA NextReasons ==
  SInv /\ [Next]_vars => DependenciesHaveReasons' /\ NoSpuriousDependency'
<1> SUFFICES ASSUME SInv, [Next]_vars
             PROVE  DependenciesHaveReasons' /\ NoSpuriousDependency'
  OBVIOUS
<1>1. CASE BeginPhase
  <2>1. /\ UNCHANGED <<status, access, peers, pre, outstanding>>
        /\ deps'.precondition = outstanding
        /\ \A v : /\ DependencyForReader(deps', v) = outstanding
                  /\ DependencyForWriter(deps', v) = outstanding
    BY <1>1 DEF BeginPhase, NewDependencySet, DependencyForReader, DependencyForWriter
  <2>2. Issued' = outstanding
    BY <2>1 DEF Issued, Fresh, SInv, IInv, EventsAreIssued
  <2>3. NoSpuriousDependency'
    BY <2>1, <2>2 DEF NoSpuriousDependency, SamePhase
  <2>4. DependenciesHaveReasons'
    BY <2>1 DEF DependenciesHaveReasons
  <2> QED BY <2>3, <2>4
<1>2. ASSUME NEW acc \in Invocation, Issue(acc)
      PROVE  DependenciesHaveReasons' /\ NoSpuriousDependency'
  BY <1>2, IssueReasons
<1>3. ASSUME NEW acc \in Registered, Register(acc)
      PROVE  DependenciesHaveReasons' /\ NoSpuriousDependency'
  <2> DEFINE R == acc.reads
             W == acc.writes
  <2>1. UNCHANGED <<status, access, peers, pre, outstanding>>
    BY <1>3 DEF Register
  <2>2. deps' = RecordInvocation(deps, R, W, NoEvent)
    BY <1>3 DEF Register
  <2>3. \A v \in W : DependencyForWriter(deps, v) = deps.precondition
    BY <1>3 DEF Register, DependencyForWriter
  <2>4. deps'.precondition = deps.precondition
    BY <2>2 DEF RecordInvocation
  <2> HIDE DEF R, W
  <2>5. Recorded(deps', deps, R, W, NoEvent)
    BY <2>2, AfterRecord
  <2>6. \A v : /\ \/ v \in W /\ DependencyForReader(deps', v) = deps.precondition
                  \/ DependencyForReader(deps', v) = DependencyForReader(deps, v)
               /\ DependencyForWriter(deps', v) = DependencyForWriter(deps, v)
    BY <2>3, <2>5 DEF Recorded, NoEvent
  <2>7. DependenciesHaveReasons'
    BY <2>1, <2>4, <2>6
    DEF SInv, DependenciesHaveReasons, ReaderReason, WriterReason, Touches
  <2>8. NoSpuriousDependency'
    BY <2>1, <2>4
    DEF SInv, NoSpuriousDependency, SamePhase, InvocationsConflict, Touches, Issued, Fresh
  <2> QED BY <2>7, <2>8
<1>4. CASE UNCHANGED <<access, peers, pre, deps>> /\ Issued' = Issued
  BY <1>4
  DEF SInv, DependenciesHaveReasons, ReaderReason, WriterReason, NoSpuriousDependency,
      SamePhase, InvocationsConflict, Touches
<1>5. ASSUME NEW o \in Op, Start(o) \/ Finish(o)
      PROVE  UNCHANGED <<access, peers, pre, deps>> /\ Issued' = Issued
  BY <1>5 DEF SInv, IInv, TypeOK, Start, Finish, Issued, Fresh
<1>6. UNCHANGED vars => UNCHANGED <<access, peers, pre, deps>> /\ Issued' = Issued
  BY DEF vars, Issued, Fresh
<1> QED BY <1>1, <1>2, <1>3, <1>4, <1>5, <1>6 DEF Next

(***************************************************************************)
(* An operation waits for another one of its phase only if they conflict   *)
(* or something between them does, whatever the invocations.               *)
(***************************************************************************)
THEOREM NothingSpurious == Spec => []NoSpuriousDependency
<1>1. Init => SInv
  <2> SUFFICES ASSUME Init PROVE SInv
    OBVIOUS
  <2>1. Issued = {}
    BY DEF Init, Issued, Fresh
  <2>2. \A v : DependencyForReader(deps, v) = {} /\ DependencyForWriter(deps, v) = {}
    BY DEF Init, NewDependencySet, NoEvent, DependencyForReader, DependencyForWriter
  <2> QED BY <2>1, <2>2, InitIInv DEF SInv, DependenciesHaveReasons, NoSpuriousDependency
<1>2. SInv /\ [Next]_vars => SInv'
  BY NextIInv, NextReasons DEF SInv
<1>3. SInv => NoSpuriousDependency
  BY DEF SInv
<1> QED BY <1>1, <1>2, <1>3, PTL DEF Spec
=============================================================================
