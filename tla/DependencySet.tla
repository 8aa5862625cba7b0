---------------------------- MODULE DependencySet ----------------------------
(***************************************************************************)
(* The dependency sets the Realm backend consults before it spawns an      *)
(* operation: AtomicDependencySet (one value) and DependencySet (a map     *)
(* from values to atomic sets, filled lazily).                             *)
(*                                                                         *)
(* A Realm event is modelled by the set of operations whose completion it  *)
(* stands for: it has triggered once they are all done.  Merging events is *)
(* then union, and NO_EVENT, which has always triggered, is the empty set. *)
(* `readers` is a vector of events in the code and only ever merged, so    *)
(* the merged event stands for it.                                         *)
(***************************************************************************)

NoEvent == {}

MergeEvents(events) == UNION events

-----------------------------------------------------------------------------
(* AtomicDependencySet *)

NewAtomicDependencySet(precondition) ==
  [writer |-> precondition, readers |-> NoEvent]

AtomicDependencyForReader(a) == a.writer

AtomicDependencyForWriter(a) == MergeEvents({a.writer, a.readers})

\* A reader that the next reader, too, must wait for.
AddReaderAsWriter(a, event) ==
  [writer  |-> MergeEvents({event, AtomicDependencyForWriter(a)}),
   readers |-> NoEvent]

\* The vector of events itself where the merged event belongs.
AddReaderUnmerged(a, event) == [a EXCEPT !.readers = @ \cup {event}]

AddReader(a, event) ==
  [writer |-> a.writer, readers |-> MergeEvents({a.readers, event})]

\* The event of the new writer alone, as if it implied everything before it.
AddWriterUnmerged(a, event) == [writer |-> event, readers |-> NoEvent]

AddWriter(a, event) ==
  [writer  |-> MergeEvents({event, AtomicDependencyForWriter(a)}),
   readers |-> NoEvent]

-----------------------------------------------------------------------------
(* DependencySet *)

NewDependencySet(precondition) ==
  [precondition |-> precondition, atomic |-> [v \in {} |-> {}]]

\* get_atomic_dependency_set: a value seen for the first time starts from the
\* precondition of the whole set.
AtomicOf(d, v) ==
  IF v \in DOMAIN d.atomic THEN d.atomic[v]
                           ELSE NewAtomicDependencySet(d.precondition)

DependencyForReader(d, v) ==
  IF v \in DOMAIN d.atomic THEN AtomicDependencyForReader(d.atomic[v])
                           ELSE d.precondition

\* A writer that waits for the last writer only.
DependencyForWriterIgnoringReaders(d, v) == DependencyForReader(d, v)

DependencyForWriter(d, v) ==
  IF v \in DOMAIN d.atomic THEN AtomicDependencyForWriter(d.atomic[v])
                           ELSE d.precondition

\* The output dependencies alone.
OutputPrecondition(d, R, W) == MergeEvents({DependencyForWriter(d, v) : v \in W})

\* The merged precondition of an invocation that reads R and writes W.
InvocationPrecondition(d, R, W) ==
  MergeEvents({DependencyForReader(d, v) : v \in R}
                \cup {DependencyForWriter(d, v) : v \in W})

\* add_reader for every input, then add_writer for every output.
RecordInvocation(d, R, W, event) ==
  [precondition |-> d.precondition,
   atomic |->
     [v \in DOMAIN d.atomic \cup R \cup W |->
        LET read == IF v \in R THEN AddReader(AtomicOf(d, v), event)
                               ELSE AtomicOf(d, v)
        IN  IF v \in W THEN AddWriter(read, event) ELSE read]]
=============================================================================
