------------------------- MODULE DependencySet_proofs -------------------------
(***************************************************************************)
(* What the operations on dependency sets guarantee, for any events and    *)
(* values: the facts the proofs about their clients rest on.               *)
(***************************************************************************)
EXTENDS DependencySet, TLAPS

(***************************************************************************)
(* What recording an invocation does to the dependencies of a later one: a *)
(* later reader of an output waits for the invocation and for everything a *)
(* writer had to wait for; other readers wait for what they waited for.    *)
(***************************************************************************)
LEMMA ReaderAfterRecord ==
  ASSUME NEW d, NEW R, NEW W, NEW e, NEW v
  PROVE  DependencyForReader(RecordInvocation(d, R, W, e), v) =
           IF v \in W THEN e \cup DependencyForWriter(d, v)
                      ELSE DependencyForReader(d, v)
<1> DEFINE r == RecordInvocation(d, R, W, e)
           read == IF v \in R THEN AddReader(AtomicOf(d, v), e) ELSE AtomicOf(d, v)
<1>1. /\ r.precondition = d.precondition
      /\ DOMAIN r.atomic = DOMAIN d.atomic \cup R \cup W
      /\ v \in DOMAIN r.atomic =>
           r.atomic[v] = IF v \in W THEN AddWriter(read, e) ELSE read
  BY Zenon DEF RecordInvocation
<1>2. read.writer = DependencyForReader(d, v)
  BY DEF AddReader, AtomicOf, NewAtomicDependencySet, DependencyForReader,
         AtomicDependencyForReader
<1>3. e \cup (read.writer \cup read.readers) = e \cup DependencyForWriter(d, v)
  BY DEF AddReader, AtomicOf, NewAtomicDependencySet, DependencyForWriter,
         AtomicDependencyForWriter, MergeEvents, NoEvent
<1>4. AddWriter(read, e).writer = e \cup (read.writer \cup read.readers)
  BY DEF AddWriter, AtomicDependencyForWriter, MergeEvents
<1> HIDE DEF r, read
<1>5. CASE v \in DOMAIN r.atomic
  BY <1>1, <1>2, <1>3, <1>4, <1>5
  DEF r, DependencyForReader, AtomicDependencyForReader
<1>6. CASE v \notin DOMAIN r.atomic
  BY <1>1, <1>6 DEF r, DependencyForReader
<1> QED BY <1>5, <1>6

(***************************************************************************)
(* A later writer of anything the invocation touched waits for it too.     *)
(***************************************************************************)
LEMMA WriterAfterRecord ==
  ASSUME NEW d, NEW R, NEW W, NEW e, NEW v
  PROVE  DependencyForWriter(RecordInvocation(d, R, W, e), v) =
           IF v \in R \cup W THEN e \cup DependencyForWriter(d, v)
                             ELSE DependencyForWriter(d, v)
<1> DEFINE r == RecordInvocation(d, R, W, e)
           read == IF v \in R THEN AddReader(AtomicOf(d, v), e) ELSE AtomicOf(d, v)
<1>1. /\ r.precondition = d.precondition
      /\ DOMAIN r.atomic = DOMAIN d.atomic \cup R \cup W
      /\ v \in DOMAIN r.atomic =>
           r.atomic[v] = IF v \in W THEN AddWriter(read, e) ELSE read
  BY Zenon DEF RecordInvocation
<1>2. AtomicOf(d, v).writer \cup AtomicOf(d, v).readers = DependencyForWriter(d, v)
  BY DEF AtomicOf, NewAtomicDependencySet, DependencyForWriter,
         AtomicDependencyForWriter, MergeEvents, NoEvent
<1>3. read.writer \cup read.readers =
        IF v \in R THEN e \cup DependencyForWriter(d, v) ELSE DependencyForWriter(d, v)
  BY <1>2 DEF AddReader, MergeEvents
<1>4. /\ AddWriter(read, e).writer = e \cup (read.writer \cup read.readers)
      /\ AddWriter(read, e).readers = {}
  BY DEF AddWriter, AtomicDependencyForWriter, MergeEvents, NoEvent
<1>5. v \notin DOMAIN d.atomic => DependencyForWriter(d, v) = d.precondition
  BY DEF DependencyForWriter
<1> HIDE DEF r, read
<1>6. DependencyForWriter(r, v) =
        IF v \in DOMAIN r.atomic THEN r.atomic[v].writer \cup r.atomic[v].readers
                                 ELSE r.precondition
  BY DEF DependencyForWriter, AtomicDependencyForWriter, MergeEvents
<1>7. CASE v \in W
  BY <1>1, <1>3, <1>4, <1>6, <1>7 DEF r
<1>8. CASE v \notin W /\ v \in DOMAIN r.atomic
  BY <1>1, <1>3, <1>6, <1>8 DEF r
<1>9. CASE v \notin DOMAIN r.atomic
  BY <1>1, <1>5, <1>6, <1>9 DEF r
<1> QED BY <1>1, <1>7, <1>8, <1>9

(***************************************************************************)
(* Both facts at once: r is what is left of d after an invocation.         *)
(***************************************************************************)
Recorded(r, d, R, W, e) ==
  \A v : /\ DependencyForReader(r, v) =
              IF v \in W THEN e \cup DependencyForWriter(d, v)
                        ELSE DependencyForReader(d, v)
         /\ DependencyForWriter(r, v) =
              IF v \in R \cup W THEN e \cup DependencyForWriter(d, v)
                               ELSE DependencyForWriter(d, v)

LEMMA AfterRecord ==
  ASSUME NEW d, NEW R, NEW W, NEW e
  PROVE  Recorded(RecordInvocation(d, R, W, e), d, R, W, e)
BY ReaderAfterRecord, WriterAfterRecord DEF Recorded

(***************************************************************************)
(* Whatever is recorded, a later reader or writer of any value still waits *)
(* for the precondition the set started from, and so does every invocation *)
(* that reads or writes anything.                                          *)
(***************************************************************************)
KeepsPrecondition(d) ==
  \A v : /\ d.precondition \subseteq DependencyForReader(d, v)
         /\ d.precondition \subseteq DependencyForWriter(d, v)

LEMMA NewKeepsPrecondition ==
  ASSUME NEW e
  PROVE  /\ NewDependencySet(e).precondition = e
         /\ KeepsPrecondition(NewDependencySet(e))
BY DEF KeepsPrecondition, NewDependencySet, DependencyForReader, DependencyForWriter

LEMMA RecordKeepsPrecondition ==
  ASSUME NEW d, NEW R, NEW W, NEW e, KeepsPrecondition(d)
  PROVE  /\ RecordInvocation(d, R, W, e).precondition = d.precondition
         /\ KeepsPrecondition(RecordInvocation(d, R, W, e))
<1> DEFINE r == RecordInvocation(d, R, W, e)
<1>1. r.precondition = d.precondition
  BY DEF RecordInvocation
<1>2. Recorded(r, d, R, W, e)
  BY AfterRecord
<1> HIDE DEF r
<1>3. ASSUME NEW v
      PROVE  /\ d.precondition \subseteq DependencyForReader(r, v)
             /\ d.precondition \subseteq DependencyForWriter(r, v)
  BY <1>2 DEF Recorded, KeepsPrecondition
<1> QED BY <1>1, <1>3 DEF KeepsPrecondition, r

LEMMA InvocationKeepsPrecondition ==
  ASSUME NEW d, NEW R, NEW W, KeepsPrecondition(d), R \cup W # {}
  PROVE  d.precondition \subseteq InvocationPrecondition(d, R, W)
<1>1. \A v \in R : DependencyForReader(d, v) \subseteq InvocationPrecondition(d, R, W)
  BY DEF InvocationPrecondition, MergeEvents
<1>2. \A v \in W : DependencyForWriter(d, v) \subseteq InvocationPrecondition(d, R, W)
  BY DEF InvocationPrecondition, MergeEvents
<1> QED BY <1>1, <1>2 DEF KeepsPrecondition
=============================================================================
