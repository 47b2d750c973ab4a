------------------------ MODULE DurableRegistryProofs ------------------------
(***************************************************************************)
(* The inductive invariant of the durable registry, and what follows from  *)
(* it for every number of uploads, files, clock readings, crashes and      *)
(* queued questions: an upload answered with a receipt is durable, and the *)
(* store never goes back.                                                  *)
(*                                                                         *)
(* CommittedIsDurable says nothing of the writes still queued, so a step   *)
(* that commits an upload needs more: that each of its parts was stored,   *)
(* was still queued before its flush, or had failed with no other flush in *)
(* between to collect the failure (WaitingIsAccountedFor).  That a stored  *)
(* receipt is not overwritten needs the documents on the queue to be in    *)
(* the order memory grew (SnapshotsGrow).                                  *)
(*                                                                         *)
(* First the lemmas on writes and queues and type correctness.  After the  *)
(* invariant come its further consequences.  The system implements         *)
(* UploadCommit, and what the seed rebuilds from code on every start never *)
(* reaches the store: both need to know where a receipt and a write can    *)
(* have come from.  What was committed is served by every later process,   *)
(* and nothing is held more often than it was sent.                        *)
(***************************************************************************)
EXTENDS DurableRegistry, FiniteSetTheorems, TLAPS

USE ConstantsAssumption
-----------------------------------------------------------------------------
(* Writes and sequences of them.                                           *)

\* Some file stands where none is carried.
LEMMA BlankType == Blank \in Files
BY DEF Blank

\* Every write the registry queues is a write.
LEMMA WriteTypes ==
    ASSUME NEW s \in Sources, NEW rs \in SUBSET Writers, NEW f \in Files,
           NEW u \in Writers, NEW p \in ContentParts
    PROVE  /\ PutSource(s, rs, u) \in Writes
           /\ PutItem(p, s, f, u) \in Writes
           /\ PutUse(s) \in Writes
           /\ Flush(u) \in Writes
<1>1. SeedSource \in Sources /\ Asker \in Writers
  BY DEF Sources, SeedSource, Writers
<1>2. QED
  BY <1>1, BlankType DEF PutSource, PutItem, PutUse, Flush, Writes, Parts

\* The parts of an upload's content.
LEMMA PartTypes ==
    ASSUME NEW u \in Uploads
    PROVE  /\ \A i \in 1..3 : PartsOf(u)[i] \in PartSet(u)
           /\ PartSet(u) \subseteq ContentParts
           /\ \A p \in PartSet(u) : \E i \in 1..3 : PartsOf(u)[i] = p
<1>1. CASE u \in Workbooks
  BY <1>1 DEF PartsOf, PartSet, ContentParts
<1>2. CASE u \notin Workbooks
  BY <1>2 DEF PartsOf, PartSet, ContentParts
<1>3. QED
  BY <1>1, <1>2

\* A batch is its five writes, in order.
LEMMA BatchIs ==
    ASSUME NEW u \in Uploads, NEW s \in Sources,
           NEW rs \in SUBSET Writers, NEW f \in Files
    PROVE  /\ Batch(u, s, rs, f) \in Seq(Writes)
           /\ Len(Batch(u, s, rs, f)) = 5
           /\ Batch(u, s, rs, f)[1] = PutSource(s, rs, u)
           /\ \A i \in 1..3 : Batch(u, s, rs, f)[i + 1]
                                = PutItem(PartsOf(u)[i], s, f, u)
           /\ Batch(u, s, rs, f)[5] = Flush(u)
<1>1. u \in Writers
  BY DEF Writers
<1>2. \A i \in 1..3 : PutItem(PartsOf(u)[i], s, f, u) \in Writes
  BY <1>1, PartTypes, WriteTypes
<1>3. PutSource(s, rs, u) \in Writes /\ Flush(u) \in Writes
  BY <1>1, WriteTypes DEF ContentParts
<1>4. QED
  BY <1>2, <1>3 DEF Batch

\* The clock names sources other than the seed's.
LEMMA ClockSource ==
    ASSUME NEW u \in Uploads, NEW c \in 1..LastMs
    PROVE  /\ <<KindOf(u), c>> \in Sources
           /\ <<KindOf(u), c>> # SeedSource
BY DEF Sources, KindOf, Kinds, SeedSource
-----------------------------------------------------------------------------
(* Type correctness.                                                       *)

\* A store step changes the disk within its types.
LEMMA StoreTypes ==
    ASSUME TypeOK, NEW w \in Writes, Store(w)
    PROVE  /\ dSources' \subseteq Sources
           /\ dReceipts' \in [Sources -> SUBSET Writers]
           /\ dItems' \subseteq Items
           /\ dUses' \subseteq Sources
<1>1. w.source \in Sources /\ w.file \in Files /\ w.receipts \in SUBSET Writers
  BY DEF Writes
<1>2. w.part \in ContentParts => ItemOf(w.part, w.source, w.file) \in Items
  BY <1>1 DEF ItemOf, Items
<1>3. QED
  BY <1>1, <1>2 DEF TypeOK, Store

\* Adding content keeps the copies held countable.
LEMMA AddedType ==
    ASSUME NEW h \in [Held -> Nat], NEW u, NEW s, NEW f
    PROVE  Added(h, u, s, f) \in [Held -> Nat]
BY DEF Added

LEMMA InitTypes == Init => TypeOK
<1> SUFFICES ASSUME Init PROVE TypeOK
  OBVIOUS
<1>1. SeedSource \in Sources /\ Blank \in Files /\ 1 \in 1..LastMs
  BY BlankType DEF Sources
<1>2. /\ mode \in Modes /\ stores \in {"memory", "durable"}
      /\ clock \in 1..LastMs /\ crashes \in 0..MaxCrashes
  BY <1>1 DEF Init, Modes
<1>3. /\ receipts \in [Sources -> SUBSET Writers] /\ held \in [Held -> Nat]
      /\ dReceipts \in [Sources -> SUBSET Writers] /\ queue \in Seq(Writes)
  BY DEF Init
<1>4. /\ phase \in [Uploads -> Phases] /\ sourceOf \in [Uploads -> Sources]
      /\ fileOf \in [Uploads -> Files] /\ told \in [Uploads -> Answers]
  BY <1>1 DEF Init, Phases, Answers
<1>5. QED
  BY <1>2, <1>3, <1>4 DEF Init, TypeOK

\* The seed's write.
LEMMA SeedTypes ==
    /\ SeedWrites \in Seq(Writes)
    /\ Len(SeedWrites) = 1
    /\ SeedWrites[1].part # "flush"
    /\ SeedSource \in Sources
    /\ Seed \in Writers
    /\ Flush(Seed) \in Writes
<1>1. SeedSource \in Sources /\ Seed \in Writers
  BY DEF Sources, Writers
<1>2. PutSource(SeedSource, {}, Seed) \in Writes /\ Flush(Seed) \in Writes
  BY <1>1, WriteTypes DEF ContentParts
<1>3. SeedWrites \in Seq(Writes) /\ Len(SeedWrites) = 1
  BY <1>2 DEF SeedWrites
<1>4. SeedWrites[1].part = "source"
  BY DEF SeedWrites, PutSource
<1>5. QED
  BY <1>1, <1>2, <1>3, <1>4

\* Taking the head off a queue shifts the rest by one.
LEMMA TailIs ==
    ASSUME NEW q \in Seq(Writes), q # <<>>
    PROVE  /\ Len(q) \in Nat \ {0}
           /\ Head(q) = q[1] /\ Head(q) \in Writes
           /\ Tail(q) \in Seq(Writes)
           /\ Len(Tail(q)) = Len(q) - 1
           /\ \A i \in 1..(Len(q) - 1) : Tail(q)[i] = q[i + 1]
OBVIOUS

\* What a queue is once a write, or a run of them, has joined it.
LEMMA AppendIs ==
    ASSUME NEW q \in Seq(Writes), NEW w \in Writes
    PROVE  /\ Append(q, w) \in Seq(Writes)
           /\ Len(q) \in Nat /\ Len(Append(q, w)) = Len(q) + 1
           /\ \A i \in 1..Len(q) : Append(q, w)[i] = q[i]
           /\ Append(q, w)[Len(q) + 1] = w
           /\ Append(q, w) # <<>>
OBVIOUS

LEMMA ConcatIs ==
    ASSUME NEW q \in Seq(Writes), NEW b \in Seq(Writes)
    PROVE  /\ q \o b \in Seq(Writes)
           /\ Len(q) \in Nat /\ Len(b) \in Nat /\ Len(q \o b) = Len(q) + Len(b)
           /\ \A i \in 1..Len(q) : (q \o b)[i] = q[i]
           /\ \A i \in 1..Len(b) : (q \o b)[Len(q) + i] = b[i]
OBVIOUS

\* A process's step keeps the types.
LEMMA ProcessTypes == TypeOK /\ Process => TypeOK'
<1> SUFFICES ASSUME TypeOK, Process PROVE TypeOK'
  OBVIOUS
<1> USE DEF memory, disk, requests
<1>1. CASE Boot \/ BootWithoutStore
  <2>1. sources' \subseteq Sources /\ receipts' \in [Sources -> SUBSET Writers]
        /\ held' \in [Held -> Nat]
    BY <1>1, SeedTypes DEF Boot, BootWithoutStore, SeedMemory, TypeOK
  <2>2. queue' \in Seq(Writes)
    <3>1. Append(SeedWrites, Flush(Seed)) \in Seq(Writes)
      BY SeedTypes, AppendIs
    <3>2. QED
      BY <1>1, <3>1, SeedTypes DEF Boot, BootWithoutStore
  <2>3. QED
    BY <1>1, <2>1, <2>2 DEF Boot, BootWithoutStore, TypeOK, Modes
<1>2. CASE AttachStore
  <2>1. queue' \in Seq(Writes)
    BY <1>2, TailIs DEF AttachStore, TypeOK
  <2>2. QED
    BY <1>2, <2>1 DEF AttachStore, TypeOK, Modes
<1>3. ASSUME NEW k \in 0..HydrateSteps, Hydrate(k) PROVE TypeOK'
  <2>1. receipts' \in [Sources -> SUBSET Writers] /\ sources' \subseteq Sources
        /\ uses' \subseteq Sources
    BY <1>3 DEF Hydrate, ReadBack, TypeOK
  <2>2. held' \in [Held -> Nat]
    BY <1>3 DEF Hydrate, ReadBack, TypeOK
  <2>3. QED
    BY <1>3, <2>1, <2>2 DEF Hydrate, TypeOK, Modes
<1>4. CASE Crash
  <2>1. /\ receipts' \in [Sources -> SUBSET Writers] /\ held' \in [Held -> Nat]
        /\ phase' \in [Uploads -> Phases] /\ told' \in [Uploads -> Answers]
    BY <1>4 DEF Crash, TypeOK, Phases, Answers
  <2>2. crashes' \in 0..MaxCrashes
    BY <1>4 DEF Crash, TypeOK
  <2>3. QED
    BY <1>4, <2>1, <2>2 DEF Crash, TypeOK, Modes
<1>5. CASE Tick
  BY <1>5 DEF Tick, TypeOK
<1>6. QED
  BY <1>1, <1>2, <1>3, <1>4, <1>5 DEF Process

\* So does a write that settles.
LEMMA QueueTypes == TypeOK /\ Queue => TypeOK'
<1> SUFFICES ASSUME TypeOK, Queue PROVE TypeOK'
  OBVIOUS
<1> USE DEF memory, disk, requests
<1>1. queue # <<>> /\ queue' = Tail(queue)
  BY DEF Queue, ExecuteWrite, RejectWrite, LoseAcknowledgement, NextIsWrite
<1>2. queue' \in Seq(Writes) /\ Head(queue) \in Writes
  BY <1>1, TailIs DEF TypeOK
<1>3. Head(queue).by \in Writers
  BY <1>2 DEF Writes
<1>4. CASE ExecuteWrite /\ stores = "durable"
  BY <1>2, <1>4, StoreTypes DEF ExecuteWrite, TypeOK
<1>5. CASE ExecuteWrite /\ stores # "durable"
  BY <1>2, <1>5 DEF ExecuteWrite, TypeOK
<1>6. CASE RejectWrite
  BY <1>2, <1>3, <1>6 DEF RejectWrite, TypeOK
<1>7. CASE LoseAcknowledgement
  <2>1. Store(Head(queue))
    BY <1>7 DEF LoseAcknowledgement
  <2>2. QED
    BY <1>2, <1>3, <1>7, <2>1, StoreTypes DEF LoseAcknowledgement, TypeOK
<1>8. QED
  BY <1>4, <1>5, <1>6, <1>7 DEF Queue

\* So does a step of a route.
LEMMA RequestTypes ==
    ASSUME TypeOK, NEW u \in Uploads, Request(u)
    PROVE  TypeOK'
<1> USE DEF memory, disk, requests
<1> DEFINE s == <<KindOf(u), clock>>
<1>1. u \in Writers /\ s \in Sources /\ clock \in 1..LastMs
  BY ClockSource DEF Writers, TypeOK
<1>2. ASSUME NEW a \in Answers PROVE Tell(u, a) \in [Uploads -> Answers]
  BY DEF Tell, TypeOK
<1>3. CASE RefuseClosed(u)
  <2>1. told' \in [Uploads -> Answers] /\ phase' \in [Uploads -> Phases]
    BY <1>2, <1>3 DEF RefuseClosed, TypeOK, Phases, Answers
  <2>2. QED
    BY <1>3, <2>1 DEF RefuseClosed, TypeOK
<1>4. CASE TimeOut(u)
  <2>1. told' \in [Uploads -> Answers]
    BY <1>4 DEF TimeOut, TypeOK, Answers
  <2>2. QED
    BY <1>4, <2>1 DEF TimeOut, TypeOK
<1>5. CASE IngestWorkbook(u)
  <2>1. sourceOf[u] \in Sources /\ fileOf[u] \in Files
        /\ receipts[sourceOf[u]] \cup {u} \in SUBSET Writers
    BY <1>1 DEF TypeOK
  <2>2. queue' \in Seq(Writes)
    <3> DEFINE b == Batch(u, sourceOf[u], receipts[sourceOf[u]] \cup {u}, fileOf[u])
    <3>1. b \in Seq(Writes) /\ queue \in Seq(Writes)
      BY <2>1, BatchIs DEF TypeOK
    <3>2. queue' = queue \o b
      BY <1>5 DEF IngestWorkbook
    <3> HIDE DEF b
    <3>3. QED
      BY <3>1, <3>2, ConcatIs
  <2>3. held' \in [Held -> Nat]
    BY <1>5, AddedType DEF IngestWorkbook, TypeOK
  <2>4. phase' \in [Uploads -> Phases] /\ receipts' \in [Sources -> SUBSET Writers]
    BY <1>5, <2>1 DEF IngestWorkbook, TypeOK, Phases
  <2>5. QED
    BY <1>5, <2>2, <2>3, <2>4 DEF IngestWorkbook, TypeOK
<1>6. CASE RejectWorkbook(u)
  <2>1. told' \in [Uploads -> Answers] /\ phase' \in [Uploads -> Phases]
    BY <1>2, <1>6 DEF RejectWorkbook, TypeOK, Phases, Answers
  <2>2. QED
    BY <1>6, <2>1 DEF RejectWorkbook, TypeOK
<1>7. CASE Answer(u)
  <2>1. told' \in [Uploads -> Answers] /\ phase' \in [Uploads -> Phases]
    BY <1>2, <1>7 DEF Answer, TypeOK, Phases, Answers
  <2>2. queue' \in Seq(Writes)
    BY <1>7, TailIs DEF Answer, TypeOK
  <2>3. QED
    BY <1>7, <2>1, <2>2 DEF Answer, TypeOK
<1>8. ASSUME Accept(u)
      PROVE  /\ sources' \subseteq Sources
             /\ sourceOf' \in [Uploads -> Sources]
             /\ PutSource(s, receipts[s], u) \in Writes
             /\ Append(queue, PutSource(s, receipts[s], u)) \in Seq(Writes)
  <2>1. PutSource(s, receipts[s], u) \in Writes
    <3>1. receipts[s] \in SUBSET Writers
      BY <1>1 DEF TypeOK
    <3>2. QED
      BY <1>1, <3>1, WriteTypes DEF ContentParts
  <2>2. Append(queue, PutSource(s, receipts[s], u)) \in Seq(Writes)
    BY <2>1, AppendIs DEF TypeOK
  <2>3. QED
    BY <1>1, <1>8, <2>1, <2>2 DEF Accept, TypeOK
<1>9. CASE RegisterWorkbook(u)
  <2>1. phase' \in [Uploads -> Phases]
    BY <1>9 DEF RegisterWorkbook, TypeOK, Phases
  <2>2. Accept(u) /\ queue' = Append(queue, PutSource(s, receipts[s], u))
    BY <1>9 DEF RegisterWorkbook
  <2>3. QED
    BY <1>8, <1>9, <2>1, <2>2 DEF RegisterWorkbook, TypeOK
<1>10. CASE RejectDocument(u)
  <2>1. phase' \in [Uploads -> Phases] /\ told' \in [Uploads -> Answers]
    BY <1>2, <1>10 DEF RejectDocument, TypeOK, Phases, Answers
  <2>2. Accept(u) /\ queue' = Append(queue, PutSource(s, receipts[s], u))
    BY <1>10 DEF RejectDocument
  <2>3. QED
    BY <1>8, <1>10, <2>1, <2>2 DEF RejectDocument, TypeOK
<1>11. CASE IngestDocument(u)
  <2> DEFINE rs == receipts[s] \cup {u}
  <2>1. rs \in SUBSET Writers /\ fileOf[u] \in Files
    BY <1>1 DEF TypeOK
  <2>2. Accept(u)
    BY <1>11 DEF IngestDocument
  <2>3. Batch(u, s, rs, fileOf[u]) \in Seq(Writes)
    BY <1>1, <2>1, BatchIs
  <2>4. queue' = Append(queue, PutSource(s, receipts[s], u)) \o Batch(u, s, rs, fileOf[u])
    BY <1>11 DEF IngestDocument
  <2>5. queue' \in Seq(Writes)
    BY <1>8, <2>2, <2>3, <2>4, ConcatIs
  <2>6. held' \in [Held -> Nat]
    BY <1>11, AddedType DEF IngestDocument, TypeOK
  <2>7. phase' \in [Uploads -> Phases] /\ receipts' \in [Sources -> SUBSET Writers]
    BY <1>1, <1>11, <2>1 DEF IngestDocument, TypeOK, Phases
  <2>8. QED
    BY <1>8, <1>11, <2>2, <2>5, <2>6, <2>7 DEF IngestDocument, TypeOK
<1>12. ASSUME NEW f \in Files, Arrive(u, f) PROVE TypeOK'
  <2>1. phase' \in [Uploads -> Phases] /\ fileOf' \in [Uploads -> Files]
    BY <1>12 DEF Arrive, TypeOK, Phases
  <2>2. QED
    BY <1>12, <2>1 DEF Arrive, TypeOK
<1>13. QED
  BY <1>3, <1>4, <1>5, <1>6, <1>7, <1>9, <1>10, <1>11, <1>12 DEF Request, Handler

\* So does a question that records a use.
LEMMA UseTypes ==
    ASSUME TypeOK, NEW s \in Sources, RecordUse(s)
    PROVE  TypeOK'
<1> USE DEF memory, disk, requests
<1>1. PutUse(s) \in Writes
  <2>1. Seed \in Writers /\ Blank \in Files /\ "version" \in ContentParts
    BY BlankType DEF Writers, ContentParts
  <2>2. QED
    BY <2>1, WriteTypes
<1>2. queue' \in Seq(Writes)
  BY <1>1, AppendIs DEF RecordUse, TypeOK
<1>3. QED
  BY <1>2 DEF RecordUse, TypeOK

LEMMA StepTypes == TypeOK /\ [Next]_vars => TypeOK'
<1> SUFFICES ASSUME TypeOK, [Next]_vars PROVE TypeOK'
  OBVIOUS
<1>1. CASE UNCHANGED vars
  BY <1>1 DEF vars, memory, disk, requests, TypeOK
<1>2. CASE Next
  BY <1>2, ProcessTypes, QueueTypes, RequestTypes, UseTypes DEF Next
<1>3. QED
  BY <1>1, <1>2

\* Every behaviour of process, queue and routes keeps its types: the registry's
\* memory, the promise chain and the durable store never hold what they should not.
THEOREM TypeCorrect == Spec => []TypeOK
<1>1. QED
  BY InitTypes, StepTypes, PTL DEF Spec
-----------------------------------------------------------------------------
(* Parts and flushes.                                                      *)

\* An upload needs its source document and parts of content, never a flush.
LEMMA NeedsAreParts ==
    ASSUME NEW u \in Uploads
    PROVE  /\ Needs(u) = {"source"} \cup PartSet(u)
           /\ "source" \notin PartSet(u)
           /\ PartSet(u) \subseteq ContentParts
           /\ "flush" \notin Needs(u)
<1>1. PartSet(u) \subseteq ContentParts
  BY PartTypes
<1>2. "source" \notin ContentParts /\ "flush" \notin ContentParts
  BY DEF ContentParts
<1>3. QED
  BY <1>1, <1>2 DEF Needs

\* An upload is durable when everything it needs is done.
LEMMA DurableIsDone ==
    ASSUME NEW u \in Uploads
    PROVE  IsDurable(u) <=> \A p \in Needs(u) : Done(u, p)
BY NeedsAreParts DEF IsDurable, UploadItems, Done

\* A flush names the one who waits for it.
LEMMA FlushIs ==
    ASSUME NEW u, NEW v
    PROVE  /\ Flush(u).part = "flush"
           /\ Flush(u) = Flush(v) => u = v
<1>1. Flush(u).by = u /\ Flush(v).by = v
  BY DEF Flush
<1>2. QED
  BY <1>1 DEF Flush

\* No part of a batch but its last is a flush.
LEMMA BatchFlush ==
    ASSUME NEW u \in Uploads, NEW s \in Sources,
           NEW rs \in SUBSET Writers, NEW f \in Files
    PROVE  /\ \A i \in 1..4 : Batch(u, s, rs, f)[i].part # "flush"
           /\ \A i \in 2..5 : Batch(u, s, rs, f)[i].part # "source"
<1> DEFINE b == Batch(u, s, rs, f)
<1>1. /\ b[1] = PutSource(s, rs, u) /\ b[5] = Flush(u)
      /\ \A i \in 1..3 : b[i + 1] = PutItem(PartsOf(u)[i], s, f, u)
  <2>1. b[1] = PutSource(s, rs, u)
    BY BatchIs
  <2>2. b[5] = Flush(u)
    BY BatchIs
  <2>3. \A i \in 1..3 : b[i + 1] = PutItem(PartsOf(u)[i], s, f, u)
    BY BatchIs, ZenonT(40)
  <2>4. QED
    BY <2>1, <2>2, <2>3
<1>2. \A i \in 1..3 : PartsOf(u)[i] \in ContentParts
  BY PartTypes
<1> HIDE DEF b
<1>3. b[1].part = "source" /\ b[5].part = "flush"
  BY <1>1 DEF PutSource, Flush
<1>4. \A i \in 1..3 : b[i + 1].part \in ContentParts
  BY <1>1, <1>2 DEF PutItem
<1>5. b[2].part \in ContentParts /\ b[3].part \in ContentParts
      /\ b[4].part \in ContentParts
  BY <1>4
<1>6. \A i \in 2..4 : b[i].part # "flush" /\ b[i].part # "source"
  BY <1>5 DEF ContentParts
<1>7. QED
  BY <1>3, <1>6 DEF b
-----------------------------------------------------------------------------
(* A step that leaves the queue, the disk and the failures alone.          *)

\* What was done stays done while the disk grows.
LEMMA DoneStays ==
    ASSUME NEW u \in Uploads, NEW p, Done(u, p), sourceOf[u] \in Sources,
           sourceOf'[u] = sourceOf[u], fileOf'[u] = fileOf[u],
           dSources \subseteq dSources', dItems \subseteq dItems',
           \A s \in Sources : dReceipts[s] \subseteq dReceipts'[s]
    PROVE  Done(u, p)'
BY DEF Done

LEMMA CommittedStays ==
    ASSUME TypeOK, CommittedIsDurable,
           \A u \in Uploads : phase'[u] = "committed" =>
              /\ phase[u] = "committed"
              /\ sourceOf'[u] = sourceOf[u] /\ fileOf'[u] = fileOf[u],
           dSources \subseteq dSources', dItems \subseteq dItems',
           \A s \in Sources : dReceipts[s] \subseteq dReceipts'[s]
    PROVE  CommittedIsDurable'
<1> SUFFICES ASSUME NEW u \in Uploads, phase'[u] = "committed"
             PROVE  IsDurable(u)'
  BY DEF CommittedIsDurable
<1>1. phase[u] = "committed" /\ sourceOf'[u] = sourceOf[u] /\ fileOf'[u] = fileOf[u]
  OBVIOUS
<1>2. \A p \in Needs(u) : Done(u, p)
  BY <1>1, DurableIsDone DEF CommittedIsDurable
<1>3. sourceOf[u] \in Sources
  BY DEF TypeOK
<1>4. \A p \in Needs(u) : Done(u, p)'
  BY <1>1, <1>2, <1>3, DoneStays
<1>5. IsDurable(u)' <=> \A p \in Needs(u) : Done(u, p)'
  BY NeedsAreParts DEF IsDurable, UploadItems, Done
<1>6. QED
  BY <1>4, <1>5

\* A step of a handler that queues nothing and waits for nothing.
LEMMA Still ==
    ASSUME IInv, TypeOK',
           UNCHANGED <<mode, stores, queue, failures, receipts, disk>>,
           \A u \in Uploads :
              /\ phase'[u] \in {"registered", "flushing", "committed"}
                    => phase'[u] = phase[u]
              /\ phase[u] = "flushing" => phase'[u] = "flushing"
              /\ phase'[u] \in {"flushing", "committed"} =>
                    sourceOf'[u] = sourceOf[u] /\ fileOf'[u] = fileOf[u]
    PROVE  IInv'
<1> USE DEF disk
<1>1. QueueByMode'
  BY DEF IInv, QueueByMode, IsFlush
<1>2. FlushesAreWaitedFor'
  BY DEF IInv, FlushesAreWaitedFor, IsFlush
<1>3. SnapshotsGrow' /\ ReceiptsNeedSource'
  BY DEF IInv, SnapshotsGrow, ReceiptsNeedSource
<1>4. WaitingIsAccountedFor'
  <2> SUFFICES ASSUME NEW u \in Uploads, phase'[u] = "flushing"
               PROVE  \E k \in 1..Len(queue') :
                         /\ queue'[k] = Flush(u)
                         /\ \A p \in Needs(u) : Accounted(u, p, k)'
    BY DEF WaitingIsAccountedFor
  <2>1. PICK k \in 1..Len(queue) :
           queue[k] = Flush(u) /\ \A p \in Needs(u) : Accounted(u, p, k)
    BY DEF IInv, WaitingIsAccountedFor
  <2>2. ASSUME NEW p \in Needs(u) PROVE Accounted(u, p, k)'
    <3>1. Accounted(u, p, k)
      BY <2>1
    <3>2. QED
      BY <3>1 DEF Accounted, Done, Carries, Clear, IsFlush
  <2>3. QED
    BY <2>1, <2>2
<1>5. CommittedIsDurable'
  BY CommittedStays DEF IInv
<1>6. QED
  BY <1>1, <1>2, <1>3, <1>4, <1>5 DEF IInv
-----------------------------------------------------------------------------
(* A write that settles.                                                   *)

\* Only an open process has a source document queued before the durable store,
\* so a write that reaches the store leaves it with no less than it had.
LEMMA DiskGrows ==
    ASSUME IInv, Queue
    PROVE  /\ dSources \subseteq dSources' /\ dItems \subseteq dItems'
           /\ \A s \in Sources : dReceipts[s] \subseteq dReceipts'[s]
           /\ ReceiptsNeedSource'
<1> DEFINE w == Head(queue)
<1>1. queue # <<>> /\ w = queue[1] /\ Len(queue) \in Nat \ {0} /\ w \in Writes
  BY TailIs DEF Queue, ExecuteWrite, RejectWrite, LoseAcknowledgement,
                NextIsWrite, IInv, TypeOK
<1> HIDE DEF w
<1>2. CASE UNCHANGED disk
  BY <1>2 DEF disk, IInv, ReceiptsNeedSource
<1>3. CASE stores = "durable" /\ Store(w)
  <2>1. w.source \in Sources
    BY <1>1 DEF Writes
  <2>2. w.part = "source" => dReceipts[w.source] \subseteq w.receipts
    <3> SUFFICES ASSUME w.part = "source" PROVE dReceipts[w.source] \subseteq w.receipts
      OBVIOUS
    <3>1. mode \notin {"down", "draining", "hydrating", "closed"}
      BY <1>1, <1>3 DEF IInv, QueueByMode
    <3>2. mode = "open"
      BY <3>1 DEF IInv, TypeOK, Modes
    <3>3. QED
      BY <1>1, <3>2 DEF IInv, SnapshotsGrow
  <2>3. /\ dSources \subseteq dSources' /\ dItems \subseteq dItems'
        /\ \A s \in Sources : dReceipts[s] \subseteq dReceipts'[s]
    BY <1>3, <2>1, <2>2 DEF Store, IInv, TypeOK
  <2>4. ReceiptsNeedSource'
    BY <1>3, <2>1 DEF Store, IInv, TypeOK, ReceiptsNeedSource
  <2>5. QED
    BY <2>3, <2>4
<1>4. QED
  BY <1>2, <1>3 DEF Queue, ExecuteWrite, RejectWrite, LoseAcknowledgement, w

\* What the head of the queue was, a settled write leaves done or failed.
LEMMA HeadSettles ==
    ASSUME IInv, Queue, stores = "durable", NEW u \in Uploads, NEW p \in Needs(u),
           Carries(queue[1], u, p), UNCHANGED requests
    PROVE  Done(u, p)' \/ failures' # {}
<1>1. queue # <<>> /\ Head(queue) = queue[1] /\ Head(queue) \in Writes
  BY TailIs DEF Queue, ExecuteWrite, RejectWrite, LoseAcknowledgement,
                NextIsWrite, IInv, TypeOK
<1>2. CASE RejectWrite
  BY <1>2 DEF RejectWrite
<1>3. CASE Store(Head(queue))
  <2>1. p = "source" \/ p \in ContentParts
    BY NeedsAreParts
  <2>2. sourceOf[u] \in Sources
    BY DEF IInv, TypeOK
  <2>3. CASE p = "source"
    BY <1>1, <1>3, <2>2, <2>3 DEF Store, Carries, Done, IInv, TypeOK, requests
  <2>4. CASE p # "source"
    BY <1>1, <1>3, <2>1, <2>4 DEF Store, Carries, Done, ItemOf, requests
  <2>5. QED
    BY <2>3, <2>4
<1>4. QED
  BY <1>2, <1>3 DEF Queue, ExecuteWrite, LoseAcknowledgement

\* The queue keeps its shape in each mode as it gets shorter.
LEMMA QueueModeStep == IInv /\ Queue => QueueByMode'
<1> SUFFICES ASSUME IInv, Queue PROVE QueueByMode'
  OBVIOUS
<1>1. /\ queue # <<>> /\ Head(queue) = queue[1] /\ ~ IsFlush(1)
      /\ queue' = Tail(queue) /\ queue' \in Seq(Writes)
      /\ Len(queue) \in Nat \ {0} /\ Len(queue') = Len(queue) - 1
      /\ \A i \in 1..Len(queue') : queue'[i] = queue[i + 1]
  BY TailIs DEF Queue, ExecuteWrite, RejectWrite, LoseAcknowledgement,
                NextIsWrite, IInv, TypeOK, IsFlush
<1>2. UNCHANGED <<mode, stores, phase>>
  BY DEF Queue, ExecuteWrite, RejectWrite, LoseAcknowledgement, requests
<1>3. mode # "down" /\ mode # "hydrating"
  BY <1>1 DEF IInv, QueueByMode
<1>4. CASE mode = "draining"
  <2>1. /\ stores = "memory" /\ queue[Len(queue)] = Flush(Seed)
        /\ \A k \in 1..Len(queue) : IsFlush(k) <=> k = Len(queue)
    BY <1>4 DEF IInv, QueueByMode
  <2> DEFINE n == Len(queue)
  <2>2. n \in Nat /\ n >= 2
    <3>1. 1 \in 1..n /\ ~ IsFlush(1) /\ n \in Nat \ {0}
      BY <1>1
    <3>2. 1 # n
      <4>1. IsFlush(n)
        BY <2>1, FlushIs DEF IsFlush
      <4>2. QED
        BY <3>1, <4>1
    <3>3. n \in Nat /\ n # 0 /\ n # 1
      BY <3>1, <3>2
    <3> HIDE DEF n
    <3>4. QED
      BY <3>3
  <2>3. queue' # <<>> /\ queue'[n - 1] = queue[n] /\ Len(queue') = n - 1
    <3>1. Len(queue') = n - 1 /\ n - 1 \in 1..Len(queue')
      BY <1>1, <2>2
    <3>2. queue'[n - 1] = queue[(n - 1) + 1] /\ (n - 1) + 1 = n
      BY <1>1, <2>2, <3>1
    <3>3. queue' # <<>>
      BY <2>2, <3>1
    <3>4. QED
      BY <3>1, <3>2, <3>3
  <2>4. ASSUME NEW k \in 1..Len(queue') PROVE IsFlush(k)' <=> k = Len(queue')
    <3>1. k + 1 \in 1..n /\ queue'[k] = queue[k + 1]
      BY <1>1
    <3>2. IsFlush(k)' <=> IsFlush(k + 1)
      BY <3>1 DEF IsFlush
    <3>3. IsFlush(k + 1) <=> k + 1 = n
      BY <2>1, <3>1
    <3>4. QED
      BY <2>2, <2>3, <3>2, <3>3
  <2>5. QED
    BY <1>2, <1>4, <2>1, <2>3, <2>4 DEF IInv, QueueByMode
<1>5. CASE mode = "closed"
  <2>1. ASSUME \A k \in 1..Len(queue) : ~ IsFlush(k)
        PROVE  \A k \in 1..Len(queue') : ~ IsFlush(k)'
    BY <1>1, <2>1 DEF IsFlush
  <2>2. ASSUME \A k \in 1..Len(queue) : queue[k].part = "use"
        PROVE  \A k \in 1..Len(queue') : queue'[k].part = "use"
    BY <1>1, <2>2
  <2>3. QED
    BY <1>2, <1>5, <2>1, <2>2 DEF IInv, QueueByMode
<1>6. CASE mode = "open"
  BY <1>2, <1>6 DEF IInv, QueueByMode
<1>7. QED
  BY <1>3, <1>4, <1>5, <1>6 DEF IInv, TypeOK, Modes

\* A shorter queue has no flush it did not have.
LEMMA FlushesShift ==
    ASSUME IInv, mode = "open", queue' \in Seq(Writes),
           Len(queue) \in Nat \ {0}, Len(queue') = Len(queue) - 1,
           \A i \in 1..Len(queue') : queue'[i] = queue[i + 1],
           \A u \in Uploads : phase[u] = "flushing" =>
                phase'[u] = "flushing" \/ queue[1] = Flush(u)
    PROVE  FlushesAreWaitedFor'
<1>1. /\ \A k \in 1..Len(queue) : IsFlush(k) =>
              \E u \in Uploads : queue[k] = Flush(u) /\ phase[u] = "flushing"
      /\ \A j, k \in 1..Len(queue) : IsFlush(j) /\ queue[j] = queue[k] => j = k
  BY DEF IInv, FlushesAreWaitedFor
<1>2. ASSUME NEW k \in 1..Len(queue'), IsFlush(k)'
      PROVE  \E u \in Uploads : queue'[k] = Flush(u) /\ phase'[u] = "flushing"
  <2>1. k + 1 \in 1..Len(queue) /\ queue'[k] = queue[k + 1] /\ 1 \in 1..Len(queue)
        /\ k + 1 # 1
    OBVIOUS
  <2>2. PICK u \in Uploads : queue[k + 1] = Flush(u) /\ phase[u] = "flushing"
    BY <1>1, <1>2, <2>1 DEF IsFlush
  <2>3. queue[1] # Flush(u)
    <3>1. SUFFICES ASSUME queue[1] = Flush(u) PROVE FALSE
      OBVIOUS
    <3>2. IsFlush(1)
      BY <3>1, FlushIs DEF IsFlush
    <3>3. QED
      BY <1>1, <2>1, <2>2, <3>1, <3>2
  <2>4. QED
    BY <2>1, <2>2, <2>3
<1>3. ASSUME NEW j \in 1..Len(queue'), NEW k \in 1..Len(queue'),
             IsFlush(j)', queue'[j] = queue'[k]
      PROVE  j = k
  <2>1. j + 1 \in 1..Len(queue) /\ k + 1 \in 1..Len(queue)
        /\ queue'[j] = queue[j + 1] /\ queue'[k] = queue[k + 1]
    OBVIOUS
  <2>2. IsFlush(j + 1) /\ queue[j + 1] = queue[k + 1]
    BY <1>3, <2>1 DEF IsFlush
  <2>3. j + 1 = k + 1
    BY <1>1, <2>1, <2>2
  <2>4. QED
    BY <2>3
<1>4. QED
  BY <1>2, <1>3 DEF FlushesAreWaitedFor

\* A shorter queue, its head perhaps stored, still grows towards memory.
LEMMA SnapshotsShift ==
    ASSUME IInv, mode = "open", queue' \in Seq(Writes),
           Len(queue) \in Nat \ {0}, Len(queue') = Len(queue) - 1,
           \A i \in 1..Len(queue') : queue'[i] = queue[i + 1],
           receipts' = receipts,
           \/ dReceipts' = dReceipts
           \/ /\ queue[1].part = "source"
              /\ dReceipts' = [dReceipts EXCEPT ![queue[1].source] = queue[1].receipts]
    PROVE  SnapshotsGrow'
<1>1. /\ \A s \in Sources : dReceipts[s] \subseteq receipts[s]
      /\ \A i \in 1..Len(queue) : queue[i].part = "source" =>
            /\ dReceipts[queue[i].source] \subseteq queue[i].receipts
            /\ queue[i].receipts \subseteq receipts[queue[i].source]
      /\ \A i, j \in 1..Len(queue) :
            /\ i < j
            /\ queue[i].part = "source" /\ queue[j].part = "source"
            /\ queue[i].source = queue[j].source
            => queue[i].receipts \subseteq queue[j].receipts
  BY DEF IInv, SnapshotsGrow
<1>2. 1 \in 1..Len(queue)
      /\ \A i \in 1..Len(queue') : i + 1 \in 1..Len(queue) /\ 1 < i + 1
  OBVIOUS
<1>3. dReceipts \in [Sources -> SUBSET Writers]
  BY DEF IInv, TypeOK
<1>4. ASSUME NEW s \in Sources PROVE dReceipts'[s] \subseteq receipts'[s]
  <2>1. CASE dReceipts' = dReceipts
    BY <1>1, <2>1
  <2>2. CASE /\ queue[1].part = "source"
             /\ dReceipts' = [dReceipts EXCEPT ![queue[1].source] = queue[1].receipts]
    <3>1. queue[1].receipts \subseteq receipts[queue[1].source]
      BY <1>1, <1>2, <2>2
    <3>2. dReceipts'[s] = IF s = queue[1].source THEN queue[1].receipts
                                                 ELSE dReceipts[s]
      BY <1>3, <2>2
    <3>3. QED
      BY <1>1, <3>1, <3>2
  <2>3. QED
    BY <2>1, <2>2
<1>5. ASSUME NEW i \in 1..Len(queue'), queue'[i].part = "source"
      PROVE  /\ dReceipts'[queue'[i].source] \subseteq queue'[i].receipts
             /\ queue'[i].receipts \subseteq receipts'[queue'[i].source]
  <2>1. queue'[i] = queue[i + 1] /\ queue[i + 1].part = "source"
    BY <1>5
  <2>2. queue[i + 1].source \in Sources
    <3>1. queue \in Seq(Writes) /\ i + 1 \in 1..Len(queue)
      BY <1>2 DEF IInv, TypeOK
    <3>2. queue[i + 1] \in Writes
      BY <3>1
    <3>3. QED
      BY <3>2 DEF Writes
  <2>3. /\ dReceipts[queue[i + 1].source] \subseteq queue[i + 1].receipts
        /\ queue[i + 1].receipts \subseteq receipts[queue[i + 1].source]
    BY <1>1, <1>2, <2>1
  <2>4. CASE dReceipts' = dReceipts
    BY <2>1, <2>3, <2>4
  <2>5. CASE /\ queue[1].part = "source"
             /\ dReceipts' = [dReceipts EXCEPT ![queue[1].source] = queue[1].receipts]
    <3>1. queue[1].source = queue[i + 1].source
             => queue[1].receipts \subseteq queue[i + 1].receipts
      BY <1>1, <1>2, <2>1, <2>5
    <3>2. dReceipts'[queue[i + 1].source] =
             IF queue[i + 1].source = queue[1].source THEN queue[1].receipts
             ELSE dReceipts[queue[i + 1].source]
      BY <1>3, <2>2, <2>5
    <3>3. QED
      BY <2>1, <2>3, <3>1, <3>2
  <2>6. QED
    BY <2>4, <2>5
<1>6. ASSUME NEW i \in 1..Len(queue'), NEW j \in 1..Len(queue'), i < j,
             queue'[i].part = "source", queue'[j].part = "source",
             queue'[i].source = queue'[j].source
      PROVE  queue'[i].receipts \subseteq queue'[j].receipts
  <2>1. i + 1 < j + 1 /\ queue'[i] = queue[i + 1] /\ queue'[j] = queue[j + 1]
    BY <1>6
  <2>2. QED
    BY <1>1, <1>2, <1>6, <2>1
<1>7. QED
  BY <1>4, <1>5, <1>6 DEF SnapshotsGrow

\* What a waiting upload needs is accounted for still when the head of the
\* queue, not its own flush, is gone.
LEMMA WaitingShift ==
    ASSUME IInv, Len(queue) \in Nat \ {0}, Len(queue') = Len(queue) - 1,
           \A i \in 1..Len(queue') : queue'[i] = queue[i + 1],
           dSources \subseteq dSources', dItems \subseteq dItems',
           \A s \in Sources : dReceipts[s] \subseteq dReceipts'[s],
           NEW u \in Uploads, phase[u] = "flushing", queue[1] # Flush(u),
           sourceOf'[u] = sourceOf[u], fileOf'[u] = fileOf[u],
           \A p \in Needs(u) :
              Carries(queue[1], u, p) => Done(u, p)' \/ failures' # {},
           IsFlush(1) \/ (failures # {} => failures' # {})
    PROVE  \E k \in 1..Len(queue') :
              /\ queue'[k] = Flush(u)
              /\ \A p \in Needs(u) : Accounted(u, p, k)'
<1>1. PICK k \in 1..Len(queue) :
         queue[k] = Flush(u) /\ \A p \in Needs(u) : Accounted(u, p, k)
  BY DEF IInv, WaitingIsAccountedFor
<1>2. k # 1 /\ k - 1 \in 1..Len(queue') /\ queue'[k - 1] = queue[k]
  <2>1. k # 1
    BY <1>1
  <2>2. k - 1 \in 1..Len(queue') /\ (k - 1) + 1 = k
    BY <2>1
  <2>3. QED
    BY <2>1, <2>2
<1>3. ASSUME NEW j \in 1..(k - 1), Clear(j, k), j # 1
      PROVE  j - 1 \in 1..(k - 2) /\ queue'[j - 1] = queue[j] /\ Clear(j - 1, k - 1)'
  <2>1. j - 1 \in 1..(k - 2) /\ j - 1 \in 1..Len(queue') /\ (j - 1) + 1 = j
    BY <1>2, <1>3
  <2>2. ASSUME NEW i \in (j - 1)..((k - 1) - 1) PROVE ~ IsFlush(i)'
    <3>1. i \in 1..Len(queue') /\ i + 1 \in j..(k - 1)
      BY <1>2, <2>1
    <3>2. ~ IsFlush(i + 1) /\ queue'[i] = queue[i + 1]
      BY <1>3, <3>1 DEF Clear
    <3>3. QED
      BY <3>2 DEF IsFlush
  <2>3. Clear(j - 1, k - 1)'
    BY <2>2 DEF Clear
  <2>4. QED
    BY <2>1, <2>3
<1>4. Clear(1, k) => Clear(1, k - 1)' /\ ~ IsFlush(1)
  <2> SUFFICES ASSUME Clear(1, k) PROVE Clear(1, k - 1)' /\ ~ IsFlush(1)
    OBVIOUS
  <2>1. 1 \in 1..(k - 1)
    BY <1>2
  <2>2. ASSUME NEW i \in 1..((k - 1) - 1) PROVE ~ IsFlush(i)'
    <3>1. i \in 1..Len(queue') /\ i + 1 \in 1..(k - 1)
      BY <1>2
    <3>2. ~ IsFlush(i + 1) /\ queue'[i] = queue[i + 1]
      BY <3>1 DEF Clear
    <3>3. QED
      BY <3>2 DEF IsFlush
  <2>3. Clear(1, k - 1)'
    BY <2>2 DEF Clear
  <2>4. QED
    BY <2>1, <2>3 DEF Clear
<1>5. ASSUME NEW p \in Needs(u) PROVE Accounted(u, p, k - 1)'
  <2>1. CASE Done(u, p)
    <3>1. Done(u, p)'
      BY <2>1, DoneStays DEF IInv, TypeOK
    <3>2. QED
      BY <3>1 DEF Accounted
  <2>2. ASSUME NEW j \in 1..(k - 1), Carries(queue[j], u, p), Clear(j, k)
        PROVE  Accounted(u, p, k - 1)'
    <3>1. CASE j = 1
      <4>1. Done(u, p)' \/ failures' # {}
        BY <2>2, <3>1
      <4>2. Clear(1, k - 1)'
        BY <1>4, <2>2, <3>1
      <4>3. QED
        BY <4>1, <4>2 DEF Accounted
    <3>2. CASE j # 1
      <4>1. /\ j - 1 \in 1..((k - 1) - 1) /\ queue'[j - 1] = queue[j]
            /\ Clear(j - 1, k - 1)'
        BY <1>2, <1>3, <2>2, <3>2
      <4>2. Carries(queue[j - 1], u, p)'
        BY <2>2, <4>1 DEF Carries
      <4>3. QED
        BY <4>1, <4>2 DEF Accounted
    <3>3. QED
      BY <3>1, <3>2
  <2>3. CASE failures # {} /\ Clear(1, k)
    <3>1. failures' # {} /\ Clear(1, k - 1)'
      BY <1>4, <2>3
    <3>2. QED
      BY <3>1 DEF Accounted
  <2>4. QED
    BY <1>1, <2>1, <2>2, <2>3 DEF Accounted
<1>6. QED
  BY <1>1, <1>2, <1>5

\* A write that settles keeps the invariant: head stored, refused, or both.
LEMMA QueueInv == IInv /\ Queue => IInv'
<1> SUFFICES ASSUME IInv, Queue PROVE IInv'
  OBVIOUS
<1>1. /\ queue # <<>> /\ Head(queue) = queue[1] /\ ~ IsFlush(1)
      /\ queue' = Tail(queue) /\ queue' \in Seq(Writes)
      /\ Len(queue) \in Nat \ {0} /\ Len(queue') = Len(queue) - 1
      /\ \A i \in 1..Len(queue') : queue'[i] = queue[i + 1]
  BY TailIs DEF Queue, ExecuteWrite, RejectWrite, LoseAcknowledgement,
                NextIsWrite, IInv, TypeOK, IsFlush
<1>2. /\ UNCHANGED <<mode, stores, receipts, requests>>
      /\ failures \subseteq failures'
  BY DEF Queue, ExecuteWrite, RejectWrite, LoseAcknowledgement, memory
<1>3. UNCHANGED <<phase, sourceOf, fileOf>>
  BY <1>2 DEF requests
<1>4. TypeOK'
  BY QueueTypes DEF IInv
<1>5. QueueByMode'
  BY QueueModeStep
<1>6. /\ dSources \subseteq dSources' /\ dItems \subseteq dItems'
      /\ \A s \in Sources : dReceipts[s] \subseteq dReceipts'[s]
      /\ ReceiptsNeedSource'
  BY DiskGrows
<1>7. FlushesAreWaitedFor'
  <2>1. CASE mode = "open"
    BY <1>1, <1>3, <2>1, FlushesShift
  <2>2. CASE mode # "open"
    BY <1>2, <2>2 DEF FlushesAreWaitedFor
  <2>3. QED
    BY <2>1, <2>2
<1>8. SnapshotsGrow'
  <2>1. CASE mode = "open"
    <3>1. \/ dReceipts' = dReceipts
          \/ /\ queue[1].part = "source"
             /\ dReceipts' = [dReceipts EXCEPT ![queue[1].source] = queue[1].receipts]
      BY <1>1 DEF Queue, ExecuteWrite, RejectWrite, LoseAcknowledgement, Store, disk
    <3>2. QED
      BY <1>1, <1>2, <2>1, <3>1, SnapshotsShift
  <2>2. CASE mode # "open"
    BY <1>2, <2>2 DEF SnapshotsGrow
  <2>3. QED
    BY <2>1, <2>2
<1>9. WaitingIsAccountedFor'
  <2> SUFFICES ASSUME NEW u \in Uploads, phase'[u] = "flushing"
               PROVE  \E k \in 1..Len(queue') :
                         /\ queue'[k] = Flush(u)
                         /\ \A p \in Needs(u) : Accounted(u, p, k)'
    BY DEF WaitingIsAccountedFor
  <2>1. phase[u] = "flushing" /\ stores = "durable"
    BY <1>3 DEF IInv, QueueByMode
  <2>2. queue[1] # Flush(u)
    BY <1>1, FlushIs DEF IsFlush
  <2>3. \A p \in Needs(u) :
           Carries(queue[1], u, p) => Done(u, p)' \/ failures' # {}
    BY <1>2, <2>1, HeadSettles
  <2>4. QED
    BY <1>1, <1>2, <1>3, <1>6, <2>1, <2>2, <2>3, WaitingShift
<1>10. CommittedIsDurable'
  BY <1>3, <1>6, CommittedStays DEF IInv
<1>11. QED
  BY <1>4, <1>5, <1>6, <1>7, <1>8, <1>9, <1>10 DEF IInv

-----------------------------------------------------------------------------
(* A flush that resumes, and the process's own steps.                      *)

\* An upload answers from an open process, at its own flush.
LEMMA AnswerInv == ASSUME IInv, NEW u \in Uploads, Answer(u) PROVE IInv'
<1>1. /\ queue # <<>> /\ queue[1] = Flush(u) /\ queue' = Tail(queue)
      /\ queue' \in Seq(Writes)
      /\ Len(queue) \in Nat \ {0} /\ Len(queue') = Len(queue) - 1
      /\ \A i \in 1..Len(queue') : queue'[i] = queue[i + 1]
  BY TailIs DEF Answer, IInv, TypeOK
<1>2. UNCHANGED <<mode, stores, receipts, dSources, dReceipts, dItems,
                  sourceOf, fileOf>>
  BY DEF Answer, memory, disk
<1>3. phase' = [phase EXCEPT ![u] =
                   IF failures = {} THEN "committed" ELSE "not_committed"]
  BY DEF Answer
<1>4. phase \in [Uploads -> Phases]
  BY DEF IInv, TypeOK
<1>5. /\ 1 \in 1..Len(queue) /\ IsFlush(1) /\ Seed # u
      /\ queue[1].part # "use" /\ queue[1].by # Seed /\ Flush(u) # Flush(Seed)
  <2>1. 1 \in 1..Len(queue) /\ Seed # u
    BY <1>1
  <2>2. Flush(u).part = "flush" /\ Flush(u).by = u
    BY DEF Flush
  <2>3. QED
    BY <1>1, <2>1, <2>2, FlushIs DEF IsFlush
<1>6. mode = "open"
  <2>1. mode # "draining"
    <3> SUFFICES ASSUME mode = "draining" PROVE FALSE
      OBVIOUS
    <3>1. queue[Len(queue)] = Flush(Seed) /\ (IsFlush(1) <=> 1 = Len(queue))
      BY <1>5 DEF IInv, QueueByMode
    <3>2. QED
      BY <1>1, <1>5, <3>1
  <2>2. mode \notin {"down", "hydrating", "closed"}
    BY <1>1, <1>5 DEF IInv, QueueByMode
  <2>3. QED
    BY <2>1, <2>2 DEF IInv, TypeOK, Modes
<1>7. TypeOK'
  BY RequestTypes DEF IInv, Request, Handler
<1>8. QueueByMode'
  BY <1>2, <1>6 DEF IInv, QueueByMode
<1>9. FlushesAreWaitedFor'
  <2>1. \A v \in Uploads : phase[v] = "flushing" =>
           phase'[v] = "flushing" \/ queue[1] = Flush(v)
    BY <1>1, <1>3, <1>4
  <2>2. QED
    BY <1>1, <1>6, <2>1, FlushesShift
<1>10. SnapshotsGrow' /\ ReceiptsNeedSource'
  <2>1. SnapshotsGrow'
    BY <1>1, <1>2, <1>6, SnapshotsShift
  <2>2. QED
    BY <1>2, <2>1 DEF IInv, ReceiptsNeedSource
<1>11. WaitingIsAccountedFor'
  <2> SUFFICES ASSUME NEW v \in Uploads, phase'[v] = "flushing"
               PROVE  \E k \in 1..Len(queue') :
                         /\ queue'[k] = Flush(v)
                         /\ \A p \in Needs(v) : Accounted(v, p, k)'
    BY DEF WaitingIsAccountedFor
  <2>1. v # u /\ phase[v] = "flushing"
    BY <1>3, <1>4
  <2>2. queue[1] # Flush(v)
    BY <1>1, <2>1, FlushIs
  <2>3. \A p \in Needs(v) : ~ Carries(queue[1], v, p)
    BY <1>1, FlushIs, NeedsAreParts DEF Carries
  <2>4. QED
    BY <1>1, <1>2, <1>5, <2>1, <2>2, <2>3, WaitingShift
<1>12. CommittedIsDurable'
  <2> SUFFICES ASSUME NEW v \in Uploads, phase'[v] = "committed"
               PROVE  IsDurable(v)'
    BY DEF CommittedIsDurable
  <2>1. IsDurable(v)
    <3>1. CASE v # u
      BY <1>3, <1>4, <3>1 DEF IInv, CommittedIsDurable
    <3>2. CASE v = u
      <4>1. failures = {}
        BY <1>3, <1>4, <3>2
      <4>2. phase[u] = "flushing"
        <5>1. PICK w \in Uploads : queue[1] = Flush(w) /\ phase[w] = "flushing"
          BY <1>5, <1>6 DEF IInv, FlushesAreWaitedFor
        <5>2. QED
          BY <1>1, <5>1, FlushIs
      <4>3. PICK k \in 1..Len(queue) :
               queue[k] = Flush(u) /\ \A p \in Needs(u) : Accounted(u, p, k)
        BY <4>2 DEF IInv, WaitingIsAccountedFor
      <4>4. k = 1
        BY <1>1, <1>5, <1>6, <4>3 DEF IInv, FlushesAreWaitedFor
      <4>5. \A p \in Needs(u) : Done(u, p)
        BY <4>1, <4>3, <4>4 DEF Accounted
      <4>6. QED
        BY <3>2, <4>5, DurableIsDone
    <3>3. QED
      BY <3>1, <3>2
  <2>2. QED
    BY <1>2, <2>1 DEF IsDurable, UploadItems
<1>13. QED
  BY <1>7, <1>8, <1>9, <1>10, <1>11, <1>12 DEF IInv

\* Where no upload is under way and the queue is no open process's, most of the
\* invariant asks nothing; the disk is not touched, and what was committed stays.
LEMMA NobodyWaits ==
    ASSUME IInv, TypeOK', QueueByMode', FlushesAreWaitedFor', SnapshotsGrow',
           \A u \in Uploads : phase'[u] # "flushing",
           \A u \in Uploads : phase'[u] = "committed" => phase[u] = "committed",
           UNCHANGED <<disk, sourceOf, fileOf>>
    PROVE  IInv'
<1> USE DEF disk
<1>1. WaitingIsAccountedFor'
  BY DEF WaitingIsAccountedFor
<1>2. CommittedIsDurable'
  BY CommittedStays DEF IInv
<1>3. ReceiptsNeedSource'
  BY DEF IInv, ReceiptsNeedSource
<1>4. QED
  BY <1>1, <1>2, <1>3 DEF IInv

\* Seeding, attaching the store, reading it back, dying, and the clock.
LEMMA ProcessInv == IInv /\ Process => IInv'
<1> SUFFICES ASSUME IInv, Process PROVE IInv'
  OBVIOUS
<1>1. TypeOK'
  BY ProcessTypes DEF IInv
<1>2. ASSUME mode # "open", mode' # "open"
      PROVE  FlushesAreWaitedFor' /\ SnapshotsGrow'
  BY <1>2 DEF FlushesAreWaitedFor, SnapshotsGrow
<1>3. ASSUME mode # "open", UNCHANGED requests
      PROVE  /\ \A u \in Uploads : phase'[u] \notin {"registered", "flushing"}
             /\ \A u \in Uploads : phase'[u] = "committed" => phase[u] = "committed"
             /\ UNCHANGED <<sourceOf, fileOf>>
  BY <1>3 DEF IInv, QueueByMode, requests
<1>4. CASE Boot
  <2> DEFINE q == Append(SeedWrites, Flush(Seed))
  <2>1. Len(q) = 2 /\ q[1] = SeedWrites[1] /\ q[2] = Flush(Seed) /\ q # <<>>
    <3>1. /\ Len(q) = Len(SeedWrites) + 1 /\ q # <<>>
          /\ \A i \in 1..Len(SeedWrites) : q[i] = SeedWrites[i]
          /\ q[Len(SeedWrites) + 1] = Flush(Seed)
      BY SeedTypes, AppendIs
    <3>2. Len(SeedWrites) = 1 /\ 1 \in 1..1 /\ 1 + 1 = 2
      BY SeedTypes
    <3> HIDE DEF q
    <3>3. QED
      BY <3>1, <3>2
  <2>2. q[1].part # "flush" /\ q[2].part = "flush"
    BY <2>1, SeedTypes, FlushIs
  <2>3. queue' = q
    BY <1>4 DEF Boot
  <2> HIDE DEF q
  <2>4. mode = "down" /\ mode' = "draining" /\ UNCHANGED <<disk, requests, stores>>
    BY <1>4 DEF Boot
  <2>5. stores = "memory"
    BY <2>4 DEF IInv, QueueByMode
  <2>6. \A k \in 1..Len(queue') : IsFlush(k)' <=> k = Len(queue')
    <3>1. 1..2 = {1, 2}
      OBVIOUS
    <3>2. IsFlush(2)' /\ ~ IsFlush(1)'
      BY <2>2, <2>3 DEF IsFlush
    <3>3. QED
      BY <2>1, <2>3, <3>1, <3>2
  <2>7. QueueByMode'
    BY <1>3, <2>1, <2>3, <2>4, <2>5, <2>6 DEF QueueByMode
  <2>8. QED
    BY <1>1, <1>2, <1>3, <2>4, <2>7, NobodyWaits
<1>5. CASE BootWithoutStore
  <2>1. /\ mode = "down" /\ mode' = "closed" /\ UNCHANGED <<disk, requests, stores>>
        /\ queue' = SeedWrites
    BY <1>5 DEF BootWithoutStore
  <2>2. stores = "memory"
    BY <2>1 DEF IInv, QueueByMode
  <2>3. QueueByMode'
    BY <1>3, <2>1, <2>2, SeedTypes DEF QueueByMode, IsFlush
  <2>4. QED
    BY <1>1, <1>2, <1>3, <2>1, <2>3, NobodyWaits
<1>6. CASE AttachStore
  <2>1. /\ mode = "draining" /\ mode' = "hydrating" /\ stores' = "durable"
        /\ UNCHANGED <<disk, requests>>
        /\ queue # <<>> /\ Head(queue) = Flush(Seed) /\ queue' = Tail(queue)
    BY <1>6 DEF AttachStore
  <2>2. Len(queue) \in Nat \ {0} /\ Head(queue) = queue[1]
        /\ Len(queue') = Len(queue) - 1 /\ queue' \in Seq(Writes)
    BY <2>1, TailIs DEF IInv, TypeOK
  <2>3. 1 \in 1..Len(queue) /\ IsFlush(1)
    BY <2>1, <2>2, FlushIs DEF IsFlush
  <2>4. Len(queue) = 1
    BY <2>1, <2>3 DEF IInv, QueueByMode
  <2>5. queue' = <<>>
    BY <2>2, <2>4
  <2>6. QueueByMode'
    BY <1>3, <2>1, <2>5 DEF QueueByMode
  <2>7. QED
    BY <1>1, <1>2, <1>3, <2>1, <2>6, NobodyWaits
<1>7. ASSUME NEW k \in 0..HydrateSteps, Hydrate(k) PROVE IInv'
  <2>1. /\ mode = "hydrating" /\ UNCHANGED <<disk, requests, stores, queue>>
        /\ mode' = IF k = HydrateSteps THEN "open" ELSE "closed"
    BY <1>7 DEF Hydrate
  <2>2. stores = "durable" /\ queue = <<>>
    BY <2>1 DEF IInv, QueueByMode
  <2>3. QueueByMode'
    BY <1>3, <2>1, <2>2 DEF QueueByMode
  <2>4. FlushesAreWaitedFor'
    BY <2>1, <2>2 DEF FlushesAreWaitedFor
  <2>5. SnapshotsGrow'
    <3>1. ASSUME k = HydrateSteps, NEW s \in Sources
          PROVE  dReceipts'[s] \subseteq receipts'[s]
      <4>1. k >= 1
        BY <3>1 DEF HydrateSteps
      <4>2. receipts'[s] = IF s \in dSources THEN dReceipts[s] ELSE receipts[s]
        BY <1>7, <4>1 DEF Hydrate, ReadBack
      <4>3. s \notin dSources => dReceipts[s] = {}
        BY DEF IInv, ReceiptsNeedSource
      <4>4. QED
        BY <2>1, <4>2, <4>3 DEF disk
    <3>2. QED
      BY <2>1, <2>2, <3>1 DEF SnapshotsGrow
  <2>6. QED
    BY <1>1, <1>3, <2>1, <2>3, <2>4, <2>5, NobodyWaits
<1>8. CASE Crash
  <2>1. /\ mode' = "down" /\ stores' = "memory" /\ queue' = <<>>
        /\ UNCHANGED <<disk, sourceOf, fileOf>>
        /\ \A u \in Uploads :
              phase'[u] = IF phase[u] \in Running THEN "lost" ELSE phase[u]
    BY <1>8 DEF Crash
  <2>2. \A u \in Uploads : phase'[u] \notin {"registered", "flushing"}
    BY <2>1 DEF Running
  <2>3. \A u \in Uploads : phase'[u] = "committed" => phase[u] = "committed"
    BY <2>1
  <2>4. QueueByMode' /\ FlushesAreWaitedFor' /\ SnapshotsGrow'
    BY <2>1, <2>2 DEF QueueByMode, FlushesAreWaitedFor, SnapshotsGrow
  <2>5. QED
    BY <1>1, <2>1, <2>2, <2>3, <2>4, NobodyWaits
<1>9. CASE Tick
  BY <1>1, <1>9, Still DEF Tick, memory, requests
<1>10. QED
  BY <1>4, <1>5, <1>6, <1>7, <1>8, <1>9 DEF Process

-----------------------------------------------------------------------------
(* Writes that join the queue.                                             *)

Joining(first) ==
    /\ Len(queue) \in Nat /\ Len(queue') \in Nat
    /\ first = Len(queue) + 1 /\ Len(queue') >= Len(queue)
    /\ \A i \in 1..Len(queue) : queue'[i] = queue[i]

\* What joins the queue of an open process carries snapshots no older than
\* memory, in order, and ends in a flush if an upload begins to wait for it.
LEMMA Joined ==
    ASSUME IInv, TypeOK', mode = "open", NEW first, Joining(first),
           UNCHANGED <<mode, stores, failures, disk>>,
           \A s \in Sources : receipts[s] \subseteq receipts'[s],
           \A i \in first..Len(queue') : queue'[i].part = "source" =>
              /\ receipts[queue'[i].source] \subseteq queue'[i].receipts
              /\ queue'[i].receipts \subseteq receipts'[queue'[i].source],
           \A i, j \in first..Len(queue') :
              /\ i < j
              /\ queue'[i].part = "source" /\ queue'[j].part = "source"
              /\ queue'[i].source = queue'[j].source
              => queue'[i].receipts \subseteq queue'[j].receipts,
           \A u \in Uploads : phase[u] = "flushing" =>
              /\ phase'[u] = "flushing"
              /\ sourceOf'[u] = sourceOf[u] /\ fileOf'[u] = fileOf[u],
           \A u \in Uploads : phase'[u] = "committed" =>
              /\ phase[u] = "committed"
              /\ sourceOf'[u] = sourceOf[u] /\ fileOf'[u] = fileOf[u],
           \A k \in first..Len(queue') : IsFlush(k)' =>
              /\ k = Len(queue')
              /\ \E u \in Uploads : /\ queue'[k] = Flush(u)
                                    /\ phase[u] # "flushing"
                                    /\ phase'[u] = "flushing",
           \A u \in Uploads : phase[u] # "flushing" /\ phase'[u] = "flushing" =>
              /\ Len(queue') >= first
              /\ queue'[Len(queue')] = Flush(u)
              /\ \A p \in Needs(u) :
                    \E j \in first..(Len(queue') - 1) : Carries(queue[j], u, p)'
    PROVE  IInv'
<1> USE DEF disk, Joining
<1>1. QueueByMode'
  BY DEF IInv, QueueByMode
<1>2. FlushesAreWaitedFor'
  <2>1. /\ \A k \in 1..Len(queue) : IsFlush(k) =>
                \E u \in Uploads : queue[k] = Flush(u) /\ phase[u] = "flushing"
        /\ \A j, k \in 1..Len(queue) : IsFlush(j) /\ queue[j] = queue[k] => j = k
    BY DEF IInv, FlushesAreWaitedFor
  <2>2. ASSUME NEW k \in 1..Len(queue'), k <= Len(queue)
        PROVE  k \in 1..Len(queue) /\ queue'[k] = queue[k] /\ (IsFlush(k)' <=> IsFlush(k))
    BY <2>2 DEF IsFlush
  <2>3. ASSUME NEW k \in 1..Len(queue'), IsFlush(k)'
        PROVE  \E u \in Uploads :
                  /\ queue'[k] = Flush(u) /\ phase'[u] = "flushing"
                  /\ phase[u] = "flushing" <=> k <= Len(queue)
    <3>1. CASE k <= Len(queue)
      BY <2>1, <2>2, <2>3, <3>1
    <3>2. CASE ~ (k <= Len(queue))
      <4>1. k \in first..Len(queue')
        BY <3>2
      <4>2. QED
        BY <2>3, <3>2, <4>1
    <3>3. QED
      BY <3>1, <3>2
  <2>4. ASSUME NEW j \in 1..Len(queue'), NEW k \in 1..Len(queue'),
               IsFlush(j)', queue'[j] = queue'[k]
        PROVE  j = k
    <3>1. IsFlush(k)'
      BY <2>4 DEF IsFlush
    <3>2. j <= Len(queue) <=> k <= Len(queue)
      BY <2>3, <2>4, <3>1, FlushIs
    <3>3. CASE j <= Len(queue)
      BY <2>1, <2>2, <2>4, <3>2, <3>3
    <3>4. CASE ~ (j <= Len(queue))
      <4>1. j \in first..Len(queue') /\ k \in first..Len(queue')
        BY <3>2, <3>4
      <4>2. QED
        BY <2>4, <3>1, <4>1
    <3>5. QED
      BY <3>3, <3>4
  <2>5. QED
    BY <2>3, <2>4 DEF FlushesAreWaitedFor
<1>3. SnapshotsGrow'
  <2>1. /\ \A s \in Sources : dReceipts[s] \subseteq receipts[s]
        /\ \A i \in 1..Len(queue) : queue[i].part = "source" =>
              /\ dReceipts[queue[i].source] \subseteq queue[i].receipts
              /\ queue[i].receipts \subseteq receipts[queue[i].source]
        /\ \A i, j \in 1..Len(queue) :
              /\ i < j
              /\ queue[i].part = "source" /\ queue[j].part = "source"
              /\ queue[i].source = queue[j].source
              => queue[i].receipts \subseteq queue[j].receipts
    BY DEF IInv, SnapshotsGrow
  <2>2. queue' \in Seq(Writes)
    BY DEF TypeOK
  <2>3. \A i \in 1..Len(queue') : queue'[i].source \in Sources
    <3>1. \A i \in 1..Len(queue') : queue'[i] \in Writes
      BY <2>2
    <3>2. QED
      BY <3>1 DEF Writes
  <2>4. \A i \in 1..Len(queue') : i \in 1..Len(queue) \/ i \in first..Len(queue')
    OBVIOUS
  <2>5. ASSUME NEW i \in 1..Len(queue'), queue'[i].part = "source"
        PROVE  /\ dReceipts'[queue'[i].source] \subseteq queue'[i].receipts
               /\ queue'[i].receipts \subseteq receipts'[queue'[i].source]
    <3>1. CASE i \in 1..Len(queue)
      BY <2>1, <2>3, <2>5, <3>1
    <3>2. CASE i \in first..Len(queue')
      BY <2>1, <2>3, <2>5, <3>2
    <3>3. QED
      BY <2>4, <3>1, <3>2
  <2>6. ASSUME NEW i \in 1..Len(queue'), NEW j \in 1..Len(queue'), i < j,
               queue'[i].part = "source", queue'[j].part = "source",
               queue'[i].source = queue'[j].source
        PROVE  queue'[i].receipts \subseteq queue'[j].receipts
    <3>1. CASE j \in 1..Len(queue)
      <4>1. i \in 1..Len(queue)
        BY <2>6, <3>1
      <4>2. QED
        BY <2>1, <2>6, <3>1, <4>1
    <3>2. CASE i \in 1..Len(queue) /\ j \in first..Len(queue')
      <4>1. queue'[i].receipts \subseteq receipts[queue'[i].source]
        BY <2>1, <2>6, <3>2
      <4>2. receipts[queue'[j].source] \subseteq queue'[j].receipts
        BY <2>6, <3>2
      <4>3. QED
        BY <2>6, <4>1, <4>2
    <3>3. CASE i \in first..Len(queue')
      <4>1. j \in first..Len(queue')
        BY <2>6, <3>3
      <4>2. QED
        BY <2>6, <3>3, <4>1
    <3>4. QED
      BY <2>4, <3>1, <3>2, <3>3
  <2>7. \A s \in Sources : dReceipts'[s] \subseteq receipts'[s]
    BY <2>1
  <2>8. QED
    BY <2>5, <2>6, <2>7 DEF SnapshotsGrow
<1>4. WaitingIsAccountedFor'
  <2> SUFFICES ASSUME NEW u \in Uploads, phase'[u] = "flushing"
               PROVE  \E k \in 1..Len(queue') :
                         /\ queue'[k] = Flush(u)
                         /\ \A p \in Needs(u) : Accounted(u, p, k)'
    BY DEF WaitingIsAccountedFor
  <2>1. CASE phase[u] = "flushing"
    <3>1. PICK k \in 1..Len(queue) :
             queue[k] = Flush(u) /\ \A p \in Needs(u) : Accounted(u, p, k)
      BY <2>1 DEF IInv, WaitingIsAccountedFor
    <3>2. \A i \in 1..(k - 1) : IsFlush(i)' <=> IsFlush(i)
      BY DEF IsFlush
    <3>3. \A j \in 1..(k - 1) : Clear(j, k) => Clear(j, k)'
      BY <3>2 DEF Clear
    <3>4. Clear(1, k) => Clear(1, k)'
      BY <3>2 DEF Clear
    <3>5. sourceOf'[u] = sourceOf[u] /\ fileOf'[u] = fileOf[u]
      BY <2>1
    <3>6. ASSUME NEW p \in Needs(u) PROVE Accounted(u, p, k)'
      <4>1. CASE Done(u, p)
        BY <3>5, <4>1 DEF Done, Accounted
      <4>2. ASSUME NEW j \in 1..(k - 1), Carries(queue[j], u, p), Clear(j, k)
            PROVE  Accounted(u, p, k)'
        <5>1. queue'[j] = queue[j] /\ Clear(j, k)'
          BY <3>3, <4>2
        <5>2. Carries(queue[j], u, p)'
          BY <3>5, <4>2, <5>1 DEF Carries
        <5>3. QED
          BY <5>1, <5>2 DEF Accounted
      <4>3. CASE failures # {} /\ Clear(1, k)
        BY <3>4, <4>3 DEF Accounted
      <4>4. QED
        BY <3>1, <4>1, <4>2, <4>3 DEF Accounted
    <3>7. k \in 1..Len(queue') /\ queue'[k] = Flush(u)
      BY <3>1
    <3>8. QED
      BY <3>6, <3>7
  <2>2. CASE phase[u] # "flushing"
    <3>1. PICK k \in 1..Len(queue') : k = Len(queue') /\ queue'[k] = Flush(u)
      BY <2>2
    <3>2. ASSUME NEW p \in Needs(u) PROVE Accounted(u, p, k)'
      <4>1. PICK j \in first..(k - 1) : Carries(queue[j], u, p)'
        BY <2>2, <3>1
      <4>2. \A i \in j..(k - 1) : i \in first..Len(queue') /\ i # Len(queue')
        BY <3>1
      <4>3. \A i \in j..(k - 1) : ~ IsFlush(i)'
        BY <4>2
      <4>4. Clear(j, k)'
        BY <4>3 DEF Clear
      <4>5. j \in 1..(k - 1)
        BY <3>1
      <4>6. QED
        BY <4>1, <4>4, <4>5 DEF Accounted
    <3>3. QED
      BY <3>1, <3>2
  <2>3. QED
    BY <2>1, <2>2
<1>5. CommittedIsDurable'
  BY CommittedStays DEF IInv
<1>6. ReceiptsNeedSource'
  BY DEF IInv, ReceiptsNeedSource
<1>7. QED
  BY <1>1, <1>2, <1>3, <1>4, <1>5, <1>6 DEF IInv

\* A route that registers its source and stops there queues the source as it is.
LEMMA RegisterInv ==
    ASSUME IInv, NEW u \in Uploads, RegisterWorkbook(u) \/ RejectDocument(u)
    PROVE  IInv'
<1> DEFINE s == <<KindOf(u), clock>>
           w == PutSource(s, receipts[s], u)
<1>1. TypeOK'
  BY RequestTypes DEF IInv, Request, Handler
<1>2. /\ mode = "open" /\ phase[u] = "waiting" /\ queue' = Append(queue, w)
      /\ UNCHANGED <<mode, stores, failures, receipts, disk, fileOf>>
      /\ sourceOf' = [sourceOf EXCEPT ![u] = s]
      /\ \/ phase' = [phase EXCEPT ![u] = "registered"]
         \/ phase' = [phase EXCEPT ![u] = "unreadable"]
  BY DEF RegisterWorkbook, RejectDocument, Accept
<1>3. s \in Sources /\ u \in Writers /\ receipts[s] \in SUBSET Writers
  BY ClockSource DEF IInv, TypeOK, Writers
<1>4. w \in Writes /\ w.part = "source" /\ w.source = s /\ w.receipts = receipts[s]
  <2>1. w \in Writes
    BY <1>3, WriteTypes DEF ContentParts
  <2>2. QED
    BY <2>1 DEF PutSource
<1> HIDE DEF w, s
<1>5. /\ Len(queue) \in Nat /\ Len(queue') = Len(queue) + 1
      /\ \A i \in 1..Len(queue) : queue'[i] = queue[i]
      /\ queue'[Len(queue) + 1] = w
  BY <1>2, <1>4, AppendIs DEF IInv, TypeOK
<1>6. PICK first : first = Len(queue) + 1
  OBVIOUS
<1>7. Joining(first) /\ \A i \in first..Len(queue') : queue'[i] = w /\ i = first
  BY <1>5, <1>6 DEF Joining
<1>8. \A i \in first..Len(queue') : ~ IsFlush(i)'
  BY <1>4, <1>7 DEF IsFlush
<1>9. /\ phase \in [Uploads -> Phases] /\ sourceOf \in [Uploads -> Sources]
  BY DEF IInv, TypeOK
<1>10. \A v \in Uploads :
          /\ phase[v] = "flushing" <=> phase'[v] = "flushing"
          /\ phase'[v] = "committed" => phase[v] = "committed"
          /\ phase[v] \in {"flushing", "committed"} => sourceOf'[v] = sourceOf[v]
  BY <1>2, <1>9
<1>11. \A i \in first..Len(queue') : queue'[i].part = "source" =>
              /\ receipts[queue'[i].source] \subseteq queue'[i].receipts
              /\ queue'[i].receipts \subseteq receipts'[queue'[i].source]
  BY <1>2, <1>4, <1>7
<1>12. \A i, j \in first..Len(queue') : ~ (i < j)
  BY <1>5, <1>6
<1>13. QED
  BY <1>1, <1>2, <1>7, <1>8, <1>10, <1>11, <1>12, Joined

\* A batch after the first n writes of the queue.
BatchedAfter(n, u, s, rs, f) ==
    /\ Len(queue') = n + 5
    /\ queue'[n + 1] = PutSource(s, rs, u)
    /\ \A i \in 1..3 : queue'[n + 1 + i] = PutItem(PartsOf(u)[i], s, f, u)
    /\ queue'[n + 5] = Flush(u)
    /\ \A i \in (n + 1)..(n + 4) : queue'[i].part # "flush"
    /\ \A i \in (n + 2)..(n + 5) : queue'[i].part # "source"

LEMMA BatchJoins ==
    ASSUME NEW u \in Uploads, NEW s \in Sources, NEW rs \in SUBSET Writers,
           NEW f \in Files, NEW q \in Seq(Writes),
           queue' = q \o Batch(u, s, rs, f)
    PROVE  \E n \in Nat : /\ n = Len(q)
                          /\ \A i \in 1..n : queue'[i] = q[i]
                          /\ BatchedAfter(n, u, s, rs, f)
<1> DEFINE b == Batch(u, s, rs, f)
<1>1. /\ b \in Seq(Writes) /\ Len(b) = 5
      /\ b[1] = PutSource(s, rs, u) /\ b[5] = Flush(u)
      /\ \A i \in 1..3 : b[i + 1] = PutItem(PartsOf(u)[i], s, f, u)
  BY BatchIs
<1>2. /\ \A i \in 1..4 : b[i].part # "flush"
      /\ \A i \in 2..5 : b[i].part # "source"
  BY BatchFlush
<1>3. queue' = q \o b
  OBVIOUS
<1> HIDE DEF b
<1>4. PICK n \in Nat :
         /\ n = Len(q) /\ Len(queue') = n + 5
         /\ \A i \in 1..n : queue'[i] = q[i]
         /\ \A i \in 1..5 : queue'[n + i] = b[i]
  <2>1. /\ Len(q) \in Nat /\ Len(q \o b) = Len(q) + Len(b)
        /\ \A i \in 1..Len(q) : (q \o b)[i] = q[i]
        /\ \A i \in 1..Len(b) : (q \o b)[Len(q) + i] = b[i]
    BY <1>1, ConcatIs
  <2>2. PICK n \in Nat : n = Len(q)
    BY <2>1
  <2>3. Len(b) = 5
    BY <1>1
  <2>4. /\ Len(queue') = n + 5
        /\ \A i \in 1..n : queue'[i] = q[i]
        /\ \A i \in 1..5 : queue'[n + i] = b[i]
    BY <1>3, <2>1, <2>2, <2>3
  <2>5. QED
    BY <2>2, <2>4
<1>5. queue'[n + 1] = PutSource(s, rs, u) /\ queue'[n + 5] = Flush(u)
  BY <1>1, <1>4
<1>6. \A i \in 1..3 : queue'[n + 1 + i] = PutItem(PartsOf(u)[i], s, f, u)
  <2> SUFFICES ASSUME NEW i \in 1..3
               PROVE  queue'[n + 1 + i] = PutItem(PartsOf(u)[i], s, f, u)
    OBVIOUS
  <2>1. i + 1 \in 1..5 /\ n + (i + 1) = n + 1 + i
    OBVIOUS
  <2>2. QED
    BY <1>1, <1>4, <2>1
<1>7. ASSUME NEW i \in (n + 1)..(n + 4) PROVE queue'[i].part # "flush"
  <2>1. PICK m \in 1..4 : i = n + m
    OBVIOUS
  <2>2. queue'[n + m] = b[m]
    <3>1. m \in 1..5
      OBVIOUS
    <3>2. QED
      BY <1>4, <3>1
  <2>3. QED
    BY <1>2, <2>1, <2>2
<1>8. ASSUME NEW i \in (n + 2)..(n + 5) PROVE queue'[i].part # "source"
  <2>1. PICK m \in 2..5 : i = n + m
    OBVIOUS
  <2>2. queue'[n + m] = b[m]
    <3>1. m \in 1..5
      OBVIOUS
    <3>2. QED
      BY <1>4, <3>1
  <2>3. QED
    BY <1>2, <2>1, <2>2
<1>9. QED
  BY <1>4, <1>5, <1>6, <1>7, <1>8 DEF BatchedAfter

\* An ingestion queues its receipt, its content and its flush, in that order,
\* n - m registrations of its source behind what was queued.
LEMMA IngestInv ==
    ASSUME IInv, TypeOK', mode = "open", NEW u \in Uploads,
           phase[u] \in {"waiting", "registered"},
           phase' = [phase EXCEPT ![u] = "flushing"],
           NEW s \in Sources, sourceOf' = [sourceOf EXCEPT ![u] = s],
           NEW rs \in SUBSET Writers, rs = receipts[s] \cup {u},
           receipts' = [receipts EXCEPT ![s] = rs],
           NEW m \in Nat, m = Len(queue), NEW n \in Nat, m <= n,
           \A i \in 1..m : queue'[i] = queue[i],
           \A i \in (m + 1)..n : queue'[i] = PutSource(s, receipts[s], u),
           BatchedAfter(n, u, s, rs, fileOf[u]),
           UNCHANGED <<mode, stores, failures, disk, fileOf>>
    PROVE  IInv'
<1>1. /\ phase \in [Uploads -> Phases] /\ sourceOf \in [Uploads -> Sources]
      /\ receipts \in [Sources -> SUBSET Writers]
  BY DEF IInv, TypeOK
<1>2. /\ Len(queue') = n + 5
      /\ queue'[n + 1] = PutSource(s, rs, u)
      /\ \A i \in 1..3 :
            queue'[n + 1 + i] = PutItem(PartsOf(u)[i], s, fileOf[u], u)
      /\ queue'[n + 5] = Flush(u)
      /\ \A i \in (n + 1)..(n + 4) : queue'[i].part # "flush"
      /\ \A i \in (n + 2)..(n + 5) : queue'[i].part # "source"
  BY DEF BatchedAfter
<1>3. PICK first \in Nat : first = m + 1
  OBVIOUS
<1>4. PICK last \in Nat : last = n + 5 /\ last = Len(queue')
  BY <1>2
<1>5. Joining(first)
  BY <1>3, <1>4 DEF Joining
<1>6. ASSUME NEW i \in first..last
      PROVE  \/ i <= n /\ queue'[i] = PutSource(s, receipts[s], u)
             \/ i = n + 1 /\ queue'[i] = PutSource(s, rs, u)
             \/ i > n + 1 /\ queue'[i].part # "source"
  <2>1. \/ i \in (m + 1)..n /\ i <= n
        \/ i = n + 1
        \/ i \in (n + 2)..(n + 5) /\ i > n + 1
    BY <1>3, <1>4
  <2>2. QED
    BY <1>2, <2>1
<1>7. \A r \in SUBSET Writers :
         /\ PutSource(s, r, u).part = "source"
         /\ PutSource(s, r, u).source = s
         /\ PutSource(s, r, u).receipts = r
  BY DEF PutSource
<1>8. /\ receipts'[s] = rs /\ receipts[s] \subseteq rs
      /\ receipts[s] \in SUBSET Writers
      /\ \A x \in Sources : receipts[x] \subseteq receipts'[x]
  BY <1>1
<1>9. ASSUME NEW i \in first..last, queue'[i].part = "source"
      PROVE  /\ receipts[queue'[i].source] \subseteq queue'[i].receipts
             /\ queue'[i].receipts \subseteq receipts'[queue'[i].source]
  <2>1. \/ queue'[i] = PutSource(s, receipts[s], u)
        \/ queue'[i] = PutSource(s, rs, u)
    BY <1>6, <1>9
  <2>2. QED
    BY <1>7, <1>8, <2>1
<1>10. ASSUME NEW i \in first..last, NEW j \in first..last, i < j,
              queue'[i].part = "source", queue'[j].part = "source"
       PROVE  queue'[i].receipts \subseteq queue'[j].receipts
  <2>1. i <= n \/ i = n + 1
    BY <1>6, <1>10
  <2>2. j <= n \/ j = n + 1
    BY <1>6, <1>10
  <2>3. i <= n
    BY <1>10, <2>1, <2>2, <1>3
  <2>4. queue'[i] = PutSource(s, receipts[s], u)
    BY <1>6, <2>3
  <2>5. queue'[j] = PutSource(s, receipts[s], u) \/ queue'[j] = PutSource(s, rs, u)
    BY <1>6, <1>10
  <2>6. QED
    BY <1>7, <1>8, <2>4, <2>5
<1>11. ASSUME NEW v \in Uploads
       PROVE  /\ phase'[v] = IF v = u THEN "flushing" ELSE phase[v]
              /\ sourceOf'[v] = IF v = u THEN s ELSE sourceOf[v]
  BY <1>1
<1>12. ASSUME NEW k \in first..last, IsFlush(k)'
       PROVE  k = last /\ queue'[k] = Flush(u)
  <2>1. \/ k \in (m + 1)..n \/ k \in (n + 1)..(n + 4) \/ k = n + 5
    BY <1>3, <1>4
  <2>2. queue'[k].part = "flush"
    BY <1>12 DEF IsFlush
  <2>3. k \notin (m + 1)..n
    BY <1>7, <1>8, <2>2
  <2>4. k = n + 5
    BY <1>2, <2>1, <2>2, <2>3
  <2>5. QED
    BY <1>2, <1>4, <2>4
<1>13. ASSUME NEW p \in Needs(u)
       PROVE  \E j \in first..(last - 1) : Carries(queue[j], u, p)'
  <2>1. CASE p = "source"
    <3>1. n + 1 \in first..(last - 1)
      BY <1>3, <1>4
    <3>2. Carries(queue[n + 1], u, p)'
      BY <1>2, <1>7, <1>11, <2>1 DEF Carries
    <3>3. QED
      BY <3>1, <3>2
  <2>2. CASE p # "source"
    <3>1. PICK i \in 1..3 : PartsOf(u)[i] = p
      BY <2>2, NeedsAreParts, PartTypes
    <3>2. PICK j \in first..(last - 1) : j = n + 1 + i
      BY <1>3, <1>4
    <3>3. queue'[j] = PutItem(p, s, fileOf[u], u)
      BY <1>2, <3>1, <3>2
    <3>4. Carries(queue[j], u, p)'
      BY <1>11, <2>2, <3>3 DEF Carries, PutItem
    <3>5. QED
      BY <3>4
  <2>3. QED
    BY <2>1, <2>2
<1>14. last >= first /\ queue'[last] = Flush(u)
  BY <1>2, <1>3, <1>4
<1>15. \A v \in Uploads :
          /\ phase[v] = "flushing" =>
                /\ phase'[v] = "flushing"
                /\ sourceOf'[v] = sourceOf[v] /\ fileOf'[v] = fileOf[v]
          /\ phase'[v] = "committed" =>
                /\ phase[v] = "committed"
                /\ sourceOf'[v] = sourceOf[v] /\ fileOf'[v] = fileOf[v]
          /\ phase[v] # "flushing" /\ phase'[v] = "flushing" => v = u
  BY <1>11
<1>16. phase[u] # "flushing" /\ phase'[u] = "flushing"
  BY <1>11
<1>17. \A k \in first..Len(queue') : IsFlush(k)' =>
              /\ k = Len(queue')
              /\ \E v \in Uploads : /\ queue'[k] = Flush(v)
                                    /\ phase[v] # "flushing"
                                    /\ phase'[v] = "flushing"
  BY <1>4, <1>12, <1>16
<1>18. \A v \in Uploads : phase[v] # "flushing" /\ phase'[v] = "flushing" =>
              /\ Len(queue') >= first
              /\ queue'[Len(queue')] = Flush(v)
              /\ \A p \in Needs(v) :
                    \E j \in first..(Len(queue') - 1) : Carries(queue[j], v, p)'
  BY <1>4, <1>13, <1>14, <1>15
<1>19. /\ \A i \in first..Len(queue') : queue'[i].part = "source" =>
              /\ receipts[queue'[i].source] \subseteq queue'[i].receipts
              /\ queue'[i].receipts \subseteq receipts'[queue'[i].source]
       /\ \A i, j \in first..Len(queue') :
              /\ i < j
              /\ queue'[i].part = "source" /\ queue'[j].part = "source"
              /\ queue'[i].source = queue'[j].source
              => queue'[i].receipts \subseteq queue'[j].receipts
  BY <1>4, <1>9, <1>10
<1>20. QED
  BY <1>5, <1>8, <1>15, <1>17, <1>18, <1>19, Joined

\* The two ingestions: a workbook's source was registered earlier, a document's
\* is registered in the same step.
LEMMA IngestWorkbookInv ==
    ASSUME IInv, NEW u \in Uploads, IngestWorkbook(u)
    PROVE  IInv'
<1>1. TypeOK'
  BY RequestTypes DEF IInv, Request, Handler
<1>2. /\ sourceOf \in [Uploads -> Sources] /\ fileOf[u] \in Files
      /\ receipts \in [Sources -> SUBSET Writers]
      /\ queue \in Seq(Writes) /\ u \in Writers
  BY DEF IInv, TypeOK, Writers
<1>3. PICK s \in Sources : s = sourceOf[u]
  BY <1>2
<1>4. PICK rs \in SUBSET Writers : rs = receipts[s] \cup {u}
  BY <1>2
<1>5. PICK f \in Files : f = fileOf[u]
  BY <1>2
<1>6. PICK q \in Seq(Writes) : q = queue
  BY <1>2
<1>7. /\ phase[u] = "registered" /\ queue' = q \o Batch(u, s, rs, f)
      /\ phase' = [phase EXCEPT ![u] = "flushing"]
      /\ receipts' = [receipts EXCEPT ![s] = rs]
      /\ UNCHANGED <<mode, stores, failures, disk, sourceOf, fileOf>>
  BY <1>3, <1>4, <1>5, <1>6 DEF IngestWorkbook
<1>8. mode = "open"
  BY <1>7 DEF IInv, QueueByMode
<1>9. sourceOf' = [sourceOf EXCEPT ![u] = s]
  BY <1>2, <1>3, <1>7
<1>10. PICK n \in Nat : /\ n = Len(q)
                        /\ \A i \in 1..n : queue'[i] = q[i]
                        /\ BatchedAfter(n, u, s, rs, f)
  BY <1>7, BatchJoins
<1>11. /\ n = Len(queue) /\ n <= n
       /\ \A i \in 1..n : queue'[i] = queue[i]
       /\ \A i \in (n + 1)..n : queue'[i] = PutSource(s, receipts[s], u)
       /\ BatchedAfter(n, u, s, rs, fileOf[u])
  <2>1. n <= n /\ \A i \in (n + 1)..n : FALSE
    OBVIOUS
  <2>2. n = Len(queue) /\ \A i \in 1..n : queue'[i] = queue[i]
    BY <1>6, <1>10
  <2>3. BatchedAfter(n, u, s, rs, fileOf[u])
    BY <1>5, <1>10 DEF BatchedAfter
  <2>4. QED
    BY <2>1, <2>2, <2>3
<1>12. phase[u] \in {"waiting", "registered"}
       /\ UNCHANGED <<mode, stores, failures, disk, fileOf>>
  BY <1>7
<1>13. QED
  BY <1>1, <1>4, <1>7, <1>8, <1>9, <1>11, <1>12, IngestInv

LEMMA IngestDocumentInv ==
    ASSUME IInv, NEW u \in Uploads, IngestDocument(u)
    PROVE  IInv'
<1>1. TypeOK'
  BY RequestTypes DEF IInv, Request, Handler
<1>2. /\ <<KindOf(u), clock>> \in Sources /\ fileOf[u] \in Files
      /\ receipts \in [Sources -> SUBSET Writers]
      /\ queue \in Seq(Writes) /\ u \in Writers
  BY ClockSource DEF IInv, TypeOK, Writers
<1>3. PICK s \in Sources : s = <<KindOf(u), clock>>
  BY <1>2
<1>4. PICK rs \in SUBSET Writers : rs = receipts[s] \cup {u}
  BY <1>2
<1>5. PICK f \in Files : f = fileOf[u]
  BY <1>2
<1>6. PICK w \in Writes : w = PutSource(s, receipts[s], u)
  BY <1>2, WriteTypes DEF ContentParts
<1>7. PICK q \in Seq(Writes) : q = Append(queue, w)
  BY <1>2, AppendIs
<1>8. /\ mode = "open" /\ phase[u] = "waiting"
      /\ queue' = q \o Batch(u, s, rs, f)
      /\ phase' = [phase EXCEPT ![u] = "flushing"]
      /\ sourceOf' = [sourceOf EXCEPT ![u] = s]
      /\ receipts' = [receipts EXCEPT ![s] = rs]
      /\ UNCHANGED <<mode, stores, failures, disk, fileOf>>
  BY <1>3, <1>4, <1>5, <1>6, <1>7 DEF IngestDocument, Accept
<1>9. PICK n \in Nat : /\ n = Len(q)
                       /\ \A i \in 1..n : queue'[i] = q[i]
                       /\ BatchedAfter(n, u, s, rs, f)
  BY <1>8, BatchJoins
<1>10. PICK m \in Nat : /\ m = Len(queue) /\ n = m + 1
                        /\ \A i \in 1..m : q[i] = queue[i]
                        /\ q[m + 1] = w
  BY <1>2, <1>7, <1>9, AppendIs
<1>11. ASSUME NEW i \in 1..m PROVE queue'[i] = queue[i]
  BY <1>9, <1>10
<1>12. ASSUME NEW i \in (m + 1)..n PROVE queue'[i] = w
  <2>1. n = m + 1
    BY <1>10
  <2>2. i = m + 1 /\ i \in 1..n
    BY <2>1
  <2>3. queue'[i] = q[i]
    BY <1>9, <2>2
  <2>4. q[i] = w
    BY <1>10, <2>2
  <2>5. QED
    BY <2>3, <2>4
<1>13. /\ m = Len(queue) /\ m <= n
       /\ \A i \in 1..m : queue'[i] = queue[i]
       /\ \A i \in (m + 1)..n : queue'[i] = PutSource(s, receipts[s], u)
       /\ BatchedAfter(n, u, s, rs, fileOf[u])
  BY <1>5, <1>6, <1>9, <1>10, <1>11, <1>12
<1>14. QED
  BY <1>1, <1>4, <1>8, <1>13, IngestInv

\* Any step of a request.
LEMMA RequestInv ==
    ASSUME IInv, NEW u \in Uploads, Request(u)
    PROVE  IInv'
<1>1. TypeOK' /\ phase \in [Uploads -> Phases]
  BY RequestTypes DEF IInv, TypeOK
<1>2. CASE RefuseClosed(u) \/ RejectWorkbook(u) \/ TimeOut(u)
  <2>1. /\ UNCHANGED <<mode, stores, queue, failures, receipts, disk, sourceOf, fileOf>>
        /\ \/ phase' = phase
           \/ phase[u] = "waiting" /\ phase' = [phase EXCEPT ![u] = "closed"]
           \/ phase[u] = "registered" /\ phase' = [phase EXCEPT ![u] = "unreadable"]
    BY <1>2 DEF RefuseClosed, RejectWorkbook, TimeOut, memory
  <2>2. \A v \in Uploads :
           /\ phase'[v] \in {"registered", "flushing", "committed"}
                 => phase'[v] = phase[v]
           /\ phase[v] = "flushing" => phase'[v] = "flushing"
    BY <1>1, <2>1
  <2>3. QED
    BY <1>1, <2>1, <2>2, Still
<1>3. ASSUME NEW f \in Files, Arrive(u, f) PROVE IInv'
  <2>1. /\ UNCHANGED <<mode, stores, queue, failures, receipts, disk, sourceOf>>
        /\ phase[u] = "idle" /\ phase' = [phase EXCEPT ![u] = "waiting"]
        /\ fileOf' = [fileOf EXCEPT ![u] = f]
    BY <1>3 DEF Arrive, memory
  <2>2. \A v \in Uploads :
           /\ phase'[v] \in {"registered", "flushing", "committed"}
                 => phase'[v] = phase[v] /\ v # u
           /\ phase[v] = "flushing" => phase'[v] = "flushing"
    BY <1>1, <2>1
  <2>3. \A v \in Uploads : v # u => fileOf'[v] = fileOf[v]
    BY <2>1 DEF IInv, TypeOK
  <2>4. QED
    BY <1>1, <2>1, <2>2, <2>3, Still
<1>4. QED
  BY <1>2, <1>3, RegisterInv, IngestWorkbookInv, IngestDocumentInv, AnswerInv
     DEF Request, Handler

\* A use that is recorded while the process serves, open or closed.
LEMMA UseInv ==
    ASSUME IInv, NEW s \in Sources, RecordUse(s)
    PROVE  IInv'
<1>1. TypeOK'
  BY UseTypes DEF IInv
<1>2. /\ mode \in {"open", "closed"} /\ queue' = Append(queue, PutUse(s))
      /\ UNCHANGED <<mode, stores, failures, receipts, disk, phase, sourceOf, fileOf>>
  BY DEF RecordUse, requests
<1> DEFINE w == PutUse(s)
<1>3. w \in Writes /\ w.part = "use"
  <2>1. w \in Writes
    BY BlankType, WriteTypes DEF Writers, ContentParts
  <2>2. QED
    BY <2>1 DEF PutUse
<1>4. queue' = Append(queue, w)
  BY <1>2
<1> HIDE DEF w
<1>5. /\ Len(queue) \in Nat /\ Len(queue') = Len(queue) + 1
      /\ \A i \in 1..Len(queue) : queue'[i] = queue[i]
      /\ queue'[Len(queue) + 1] = w
  BY <1>3, <1>4, AppendIs DEF IInv, TypeOK
<1>6. PICK first : first = Len(queue) + 1
  OBVIOUS
<1>7. Joining(first) /\ \A i \in first..Len(queue') : queue'[i] = w /\ i = first
  BY <1>5, <1>6 DEF Joining
<1>8. CASE mode = "open"
  <2>1. \A i \in first..Len(queue') : ~ IsFlush(i)' /\ queue'[i].part # "source"
    BY <1>3, <1>7 DEF IsFlush
  <2>2. QED
    BY <1>1, <1>2, <1>7, <1>8, <2>1, Joined
<1>9. CASE mode = "closed"
  <2>1. \A i \in 1..Len(queue') :
           \/ i \in 1..Len(queue) /\ queue'[i] = queue[i]
           \/ queue'[i] = w
    BY <1>5, <1>6, <1>7
  <2>2. ASSUME \A k \in 1..Len(queue) : ~ IsFlush(k)
        PROVE  \A k \in 1..Len(queue') : ~ IsFlush(k)'
    BY <1>3, <2>1, <2>2 DEF IsFlush
  <2>3. ASSUME \A k \in 1..Len(queue) : queue[k].part = "use"
        PROVE  \A k \in 1..Len(queue') : queue'[k].part = "use"
    BY <1>3, <2>1, <2>3
  <2>4. QueueByMode'
    BY <1>2, <1>9, <2>2, <2>3 DEF IInv, QueueByMode
  <2>5. FlushesAreWaitedFor' /\ SnapshotsGrow'
    BY <1>2, <1>9 DEF FlushesAreWaitedFor, SnapshotsGrow
  <2>6. \A u \in Uploads : phase'[u] # "flushing"
    BY <1>2, <1>9 DEF IInv, QueueByMode
  <2>7. QED
    BY <1>1, <1>2, <2>4, <2>5, <2>6, NobodyWaits
<1>10. QED
  BY <1>2, <1>8, <1>9
-----------------------------------------------------------------------------
(* The invariant, and what it is for.                                      *)

LEMMA InitInv == Init => IInv
<1> SUFFICES ASSUME Init PROVE IInv
  OBVIOUS
<1>1. /\ mode = "down" /\ stores = "memory" /\ queue = <<>> /\ dReceipts = [s \in Sources |-> {}]
      /\ \A u \in Uploads : phase[u] = "idle"
  BY DEF Init
<1>2. QueueByMode /\ FlushesAreWaitedFor /\ SnapshotsGrow
  BY <1>1 DEF QueueByMode, FlushesAreWaitedFor, SnapshotsGrow
<1>3. ReceiptsNeedSource /\ WaitingIsAccountedFor /\ CommittedIsDurable
  BY <1>1 DEF ReceiptsNeedSource, WaitingIsAccountedFor, CommittedIsDurable
<1>4. QED
  BY <1>2, <1>3, InitTypes DEF IInv

LEMMA StepInv == IInv /\ [Next]_vars => IInv'
<1> SUFFICES ASSUME IInv, [Next]_vars PROVE IInv'
  OBVIOUS
<1>1. CASE UNCHANGED vars
  <2>1. TypeOK'
    BY <1>1, StepTypes DEF IInv
  <2>2. QED
    BY <1>1, <2>1, Still DEF vars, memory, requests
<1>2. CASE Next
  BY <1>2, ProcessInv, QueueInv, RequestInv, UseInv DEF Next
<1>3. QED
  BY <1>1, <1>2

\* The queue, the memory and the store stay in step: what a waiting upload needs
\* is stored, queued before its flush, or failed for its flush to see.
THEOREM Inductive == Spec => []IInv
<1>1. QED
  BY InitInv, StepInv, PTL DEF Spec

\* An upload answered with a receipt is in the store, whatever was queued beside
\* it, failed, or died, for any number of uploads, files, crashes and questions.
THEOREM Durability == Spec => []CommittedIsDurable
<1>1. IInv => CommittedIsDurable
  BY DEF IInv
<1>2. QED
  BY <1>1, Inductive, PTL

\* No step takes a receipt or content back out of the store: the documents on the
\* queue are in the order memory grew, and a crash leaves the store alone.
THEOREM NothingIsTakenBack == Spec => DurableOnlyGrows
<1> DEFINE Grows == /\ \A s \in Sources : dReceipts[s] \subseteq dReceipts'[s]
                    /\ dItems \subseteq dItems'
<1>1. IInv /\ [Next]_vars => [Grows]_vars
  <2> SUFFICES ASSUME IInv, Next PROVE Grows
    OBVIOUS
  <2>1. CASE Queue
    BY <2>1, DiskGrows
  <2>2. CASE UNCHANGED disk
    BY <2>2 DEF disk
  <2>3. ASSUME NEW u \in Uploads, Request(u) PROVE UNCHANGED disk
    BY <2>3 DEF Request, Handler, RefuseClosed, RegisterWorkbook, IngestWorkbook,
                RejectWorkbook, IngestDocument, RejectDocument, Answer, TimeOut, Arrive
  <2>4. ASSUME Process PROVE UNCHANGED disk
    BY <2>4 DEF Process, Boot, BootWithoutStore, AttachStore, Hydrate, Crash, Tick
  <2>5. ASSUME NEW s \in Sources, RecordUse(s) PROVE UNCHANGED disk
    BY <2>5 DEF RecordUse
  <2>6. QED
    BY <2>1, <2>2, <2>3, <2>4, <2>5 DEF Next
<1>2. QED
  BY <1>1, Inductive, PTL DEF Spec, DurableOnlyGrows

-----------------------------------------------------------------------------
(* Where a receipt and a write can have come from.                         *)

\* The receipt of a request no route has begun to handle is nowhere yet.
Unsent ==
    \A u \in Uploads : phase[u] \in {"idle", "waiting"} =>
        /\ \A s \in Sources : u \notin receipts[s] /\ u \notin dReceipts[s]
        /\ \A k \in 1..Len(queue) : u \notin queue[k].receipts

\* What could carry the seed into the store: a write queued once the store is
\* attached, or a route that has taken the seed's id.
SeedContained ==
    /\ SeedNeverDurable
    /\ stores = "durable" =>
          \A k \in 1..Len(queue) :
             queue[k].part \in {"source"} \cup ContentParts
             => queue[k].source # SeedSource
    /\ \A u \in Uploads : phase[u] = "registered" => sourceOf[u] # SeedSource

PInv == IInv /\ Unsent /\ SeedContained
-----------------------------------------------------------------------------
(* Where writes and receipts come from.                                    *)

\* A write that joins the queue: it carries no receipt and is no content, or the
\* store is not attached, or it is an upload's, with its own receipt and those
\* its source holds.
Fresh(w) ==
    \/ w.receipts = {} /\ (w.part \in {"flush", "use"} \/ stores' = "memory")
    \/ \E u \in Uploads : /\ phase'[u] \notin {"idle", "waiting"}
                          /\ w.receipts \subseteq receipts[w.source] \cup {u}
                          /\ w.source # SeedSource

Kept(w) == \E i \in 1..Len(queue) : w = queue[i]

\* A write of an upload to its own source is fresh.
LEMMA BatchFresh ==
    ASSUME NEW u \in Uploads, phase'[u] \notin {"idle", "waiting"},
           NEW s \in Sources, s # SeedSource, NEW f \in Files,
           NEW rs \in SUBSET Writers, rs \subseteq receipts[s] \cup {u},
           NEW k \in 1..5
    PROVE  Fresh(Batch(u, s, rs, f)[k])
<1> DEFINE b == Batch(u, s, rs, f)
<1>1. /\ b[1] = PutSource(s, rs, u) /\ b[5] = Flush(u)
      /\ b[2] = PutItem(PartsOf(u)[1], s, f, u)
      /\ b[3] = PutItem(PartsOf(u)[2], s, f, u)
      /\ b[4] = PutItem(PartsOf(u)[3], s, f, u)
  BY DEF Batch
<1>2. Fresh(PutSource(s, rs, u))
  BY DEF Fresh, PutSource
<1>3. \A p : Fresh(PutItem(p, s, f, u))
  BY DEF Fresh, PutItem
<1>4. Fresh(Flush(u))
  BY DEF Fresh, Flush
<1> HIDE DEF b
<1>5. k = 1 \/ k = 2 \/ k = 3 \/ k = 4 \/ k = 5
  OBVIOUS
<1>6. Fresh(b[k])
  BY <1>1, <1>2, <1>3, <1>4, <1>5
<1>7. QED
  BY <1>6 DEF b

\* Nothing joins the queue when its head leaves it.
LEMMA TailKept ==
    ASSUME TypeOK, queue # <<>>, queue' = Tail(queue), NEW k \in 1..Len(queue')
    PROVE  Kept(queue'[k])
<1>1. /\ Len(queue) \in Nat \ {0} /\ Len(queue') = Len(queue) - 1
      /\ \A i \in 1..(Len(queue) - 1) : queue'[i] = queue[i + 1]
  BY TailIs DEF TypeOK
<1>2. k \in 1..(Len(queue) - 1) /\ k + 1 \in 1..Len(queue)
  BY <1>1
<1>3. QED
  BY <1>1, <1>2 DEF Kept

\* One write joins.
LEMMA AppendFresh ==
    ASSUME TypeOK, NEW w \in Writes, Fresh(w), queue' = Append(queue, w),
           NEW k \in 1..Len(queue')
    PROVE  Kept(queue'[k]) \/ Fresh(queue'[k])
<1>1. /\ Len(queue) \in Nat /\ Len(queue') = Len(queue) + 1
      /\ \A i \in 1..Len(queue) : queue'[i] = queue[i]
      /\ queue'[Len(queue) + 1] = w
  BY AppendIs DEF TypeOK
<1>2. k \in 1..Len(queue) \/ k = Len(queue) + 1
  BY <1>1
<1>3. QED
  BY <1>1, <1>2 DEF Kept

\* A run of writes joins.
LEMMA ConcatFresh ==
    ASSUME NEW q \in Seq(Writes), NEW b \in Seq(Writes),
           \A i \in 1..Len(q) : Kept(q[i]) \/ Fresh(q[i]),
           \A i \in 1..Len(b) : Fresh(b[i]),
           queue' = q \o b, NEW k \in 1..Len(queue')
    PROVE  Kept(queue'[k]) \/ Fresh(queue'[k])
<1>1. /\ Len(q) \in Nat /\ Len(b) \in Nat /\ Len(queue') = Len(q) + Len(b)
      /\ \A i \in 1..Len(q) : queue'[i] = q[i]
      /\ \A i \in 1..Len(b) : queue'[Len(q) + i] = b[i]
  BY ConcatIs
<1>2. CASE k \in 1..Len(q)
  BY <1>1, <1>2
<1>3. CASE k \notin 1..Len(q)
  <2>1. PICK m \in 1..Len(b) : k = Len(q) + m
    <3>1. k - Len(q) \in 1..Len(b) /\ k = Len(q) + (k - Len(q))
      BY <1>1, <1>3
    <3>2. QED
      BY <3>1
  <2>2. queue'[k] = b[m]
    BY <1>1, <2>1
  <2>3. QED
    BY <2>2
<1>4. QED
  BY <1>2, <1>3

\* Every write queued after a step was queued before it, or is fresh.
LEMMA ProcessQueue ==
    ASSUME IInv, Process, NEW k \in 1..Len(queue')
    PROVE  Kept(queue'[k]) \/ Fresh(queue'[k])
<1>1. CASE Boot \/ BootWithoutStore
  <2>1. stores' = "memory"
    BY <1>1 DEF Boot, BootWithoutStore, IInv, QueueByMode
  <2>2. queue'[k].receipts = {}
    <3>1. SeedWrites = << PutSource(SeedSource, {}, Seed) >>
      BY DEF SeedWrites
    <3>2. queue' = << PutSource(SeedSource, {}, Seed) >>
          \/ queue' = << PutSource(SeedSource, {}, Seed), Flush(Seed) >>
      BY <1>1, <3>1 DEF Boot, BootWithoutStore
    <3>3. queue'[k] = PutSource(SeedSource, {}, Seed) \/ queue'[k] = Flush(Seed)
      BY <3>2
    <3>4. QED
      BY <3>3 DEF PutSource, Flush
  <2>3. QED
    BY <2>1, <2>2 DEF Fresh
<1>2. CASE AttachStore
  BY <1>2, TailKept DEF AttachStore, IInv
<1>3. CASE Crash
  BY <1>3 DEF Crash
<1>4. CASE UNCHANGED queue
  BY <1>4 DEF Kept
<1>5. QED
  BY <1>1, <1>2, <1>3, <1>4 DEF Process, Hydrate, Tick

LEMMA RequestQueue ==
    ASSUME IInv, SeedContained, NEW u \in Uploads, Request(u),
           NEW k \in 1..Len(queue')
    PROVE  Kept(queue'[k]) \/ Fresh(queue'[k])
<1> DEFINE c == <<KindOf(u), clock>>
<1>1. TypeOK /\ queue \in Seq(Writes) /\ u \in Writers
  BY DEF IInv, TypeOK, Writers
<1>2. c \in Sources /\ c # SeedSource
  BY ClockSource DEF IInv, TypeOK
<1> HIDE DEF c
<1>3. ASSUME NEW s \in Sources
      PROVE  receipts[s] \in SUBSET Writers /\ receipts[s] \cup {u} \in SUBSET Writers
  BY <1>1, <1>3 DEF TypeOK
<1>4. ASSUME phase'[u] \notin {"idle", "waiting"}
      PROVE  /\ PutSource(c, receipts[c], u) \in Writes
             /\ Fresh(PutSource(c, receipts[c], u))
  <2>1. PutSource(c, receipts[c], u) \in Writes
    BY <1>1, <1>2, <1>3, BlankType, WriteTypes DEF ContentParts
  <2>2. QED
    BY <1>2, <1>4, <2>1 DEF Fresh, PutSource
<1>5. CASE RegisterWorkbook(u) \/ RejectDocument(u)
  <2>1. queue' = Append(queue, PutSource(c, receipts[c], u))
    BY <1>5 DEF RegisterWorkbook, RejectDocument, c
  <2>2. phase'[u] \notin {"idle", "waiting"}
    BY <1>1, <1>5 DEF RegisterWorkbook, RejectDocument, TypeOK
  <2>3. QED
    BY <1>1, <1>4, <2>1, <2>2, AppendFresh
<1>6. ASSUME NEW s \in Sources, s # SeedSource, phase'[u] \notin {"idle", "waiting"},
             NEW q \in Seq(Writes),
             \A i \in 1..Len(q) : Kept(q[i]) \/ Fresh(q[i]),
             queue' = q \o Batch(u, s, receipts[s] \cup {u}, fileOf[u])
      PROVE  Kept(queue'[k]) \/ Fresh(queue'[k])
  <2> DEFINE rs == receipts[s] \cup {u}
             f == fileOf[u]
             b == Batch(u, s, rs, f)
  <2>1. f \in Files /\ rs \in SUBSET Writers
    BY <1>1, <1>3, <1>6 DEF TypeOK
  <2>2. b \in Seq(Writes) /\ Len(b) = 5
    <3> HIDE DEF rs, f
    <3>1. QED
      BY <2>1, BatchIs
  <2>3. \A i \in 1..5 : Fresh(b[i])
    BY <1>6, <2>1, BatchFresh
  <2>4. queue' = q \o b
    BY <1>6
  <2> HIDE DEF b
  <2>5. QED
    BY <1>6, <2>2, <2>3, <2>4, ConcatFresh
<1>7. CASE IngestWorkbook(u)
  <2>1. /\ sourceOf[u] \in Sources /\ sourceOf[u] # SeedSource
        /\ phase'[u] \notin {"idle", "waiting"}
    BY <1>1, <1>7 DEF IngestWorkbook, SeedContained, TypeOK
  <2>2. queue' = queue \o Batch(u, sourceOf[u], receipts[sourceOf[u]] \cup {u}, fileOf[u])
    BY <1>7 DEF IngestWorkbook
  <2>3. \A i \in 1..Len(queue) : Kept(queue[i])
    BY DEF Kept
  <2>4. QED
    BY <1>1, <1>6, <2>1, <2>2, <2>3
<1>8. CASE IngestDocument(u)
  <2>1. phase'[u] \notin {"idle", "waiting"}
    BY <1>1, <1>8 DEF IngestDocument, TypeOK
  <2>2. PICK q : q = Append(queue, PutSource(c, receipts[c], u))
    OBVIOUS
  <2>3. queue' = q \o Batch(u, c, receipts[c] \cup {u}, fileOf[u])
    BY <1>8, <2>2 DEF IngestDocument, c
  <2>4. /\ q \in Seq(Writes)
        /\ \A i \in 1..Len(q) : Kept(q[i]) \/ Fresh(q[i])
    <3> DEFINE w == PutSource(c, receipts[c], u)
    <3>1. w \in Writes /\ Fresh(w) /\ q = Append(queue, w)
      BY <1>4, <2>1, <2>2
    <3> HIDE DEF w
    <3>2. /\ q \in Seq(Writes)
          /\ Len(queue) \in Nat /\ Len(q) = Len(queue) + 1
          /\ \A i \in 1..Len(queue) : q[i] = queue[i]
          /\ q[Len(queue) + 1] = w
      BY <1>1, <3>1, AppendIs
    <3>3. ASSUME NEW i \in 1..Len(q) PROVE Kept(q[i]) \/ Fresh(q[i])
      <4>1. i \in 1..Len(queue) \/ i = Len(queue) + 1
        BY <3>2
      <4>2. QED
        BY <3>1, <3>2, <4>1 DEF Kept
    <3>4. QED
      BY <3>2, <3>3
  <2>5. QED
    BY <1>2, <1>6, <2>1, <2>3, <2>4
<1>9. CASE UNCHANGED queue
  BY <1>9 DEF Kept
<1>10. CASE Answer(u)
  BY <1>1, <1>10, TailKept DEF Answer
<1>11. QED
  BY <1>5, <1>7, <1>8, <1>9, <1>10
     DEF Request, Handler, RefuseClosed, RejectWorkbook, TimeOut, Arrive

LEMMA StepQueue ==
    ASSUME IInv, SeedContained, Next, NEW k \in 1..Len(queue')
    PROVE  Kept(queue'[k]) \/ Fresh(queue'[k])
<1>1. CASE Queue
  BY <1>1, TailKept DEF Queue, ExecuteWrite, RejectWrite, LoseAcknowledgement,
                        NextIsWrite, IInv
<1>2. ASSUME NEW s \in Sources, RecordUse(s) PROVE Kept(queue'[k]) \/ Fresh(queue'[k])
  <2>1. PutUse(s) \in Writes
    BY <1>2, BlankType, WriteTypes DEF Writers, ContentParts
  <2>2. Fresh(PutUse(s))
    BY DEF Fresh, PutUse
  <2>3. QED
    BY <1>2, <2>1, <2>2, AppendFresh DEF RecordUse, IInv
<1>3. QED
  BY <1>1, <1>2, ProcessQueue, RequestQueue DEF Next

\* No request goes back to where its route had not begun.
LEMMA RequestsGoOn ==
    ASSUME IInv, Next, NEW v \in Uploads, phase'[v] \in {"idle", "waiting"}
    PROVE  phase[v] \in {"idle", "waiting"}
<1>1. phase \in [Uploads -> Phases]
  BY DEF IInv, TypeOK
<1>2. ASSUME NEW u \in Uploads, Request(u) PROVE phase[v] \in {"idle", "waiting"}
  <2>1. \/ UNCHANGED phase
        \/ \E p \in Phases : p # "idle" /\ phase' = [phase EXCEPT ![u] = p]
                             /\ (p = "waiting" => phase[u] = "idle")
    BY <1>2 DEF Request, Handler, RefuseClosed, RegisterWorkbook, IngestWorkbook,
                RejectWorkbook, IngestDocument, RejectDocument, Answer, TimeOut,
                Arrive, Phases
  <2>2. QED
    BY <1>1, <2>1
<1>3. ASSUME Process PROVE phase[v] \in {"idle", "waiting"}
  BY <1>1, <1>3 DEF Process, Boot, BootWithoutStore, AttachStore, Hydrate, Crash,
                    Tick, requests
<1>4. ASSUME Queue PROVE UNCHANGED phase
  BY <1>4 DEF Queue, ExecuteWrite, RejectWrite, LoseAcknowledgement, requests
<1>5. ASSUME NEW s \in Sources, RecordUse(s) PROVE UNCHANGED phase
  BY <1>5 DEF RecordUse, requests
<1>6. QED
  BY <1>2, <1>3, <1>4, <1>5 DEF Next

\* A receipt in memory was there, or is read back, or its route has just ingested.
LEMMA ReceiptsFrom ==
    ASSUME IInv, Next, NEW s \in Sources, NEW v \in Uploads, v \in receipts'[s]
    PROVE  \/ v \in receipts[s] \/ v \in dReceipts[s]
           \/ phase'[v] \notin {"idle", "waiting"}
<1>1. receipts \in [Sources -> SUBSET Writers] /\ phase \in [Uploads -> Phases]
  BY DEF IInv, TypeOK
<1>2. ASSUME NEW u \in Uploads, Request(u)
      PROVE  v \in receipts[s] \/ phase'[v] \notin {"idle", "waiting"}
  <2>1. CASE IngestWorkbook(u) \/ IngestDocument(u)
    <3>1. /\ phase'[u] = "flushing"
          /\ receipts'[s] \subseteq receipts[s] \cup {u}
      BY <1>1, <2>1 DEF IngestWorkbook, IngestDocument
    <3>2. QED
      BY <3>1
  <2>2. CASE UNCHANGED receipts
    BY <2>2
  <2>3. QED
    BY <1>2, <2>1, <2>2
       DEF Request, Handler, RefuseClosed, RegisterWorkbook, RejectWorkbook,
           RejectDocument, Answer, TimeOut, Arrive, memory
<1>3. ASSUME Process PROVE v \in receipts[s] \/ v \in dReceipts[s]
  <2>1. CASE Crash
    BY <2>1 DEF Crash
  <2>2. ASSUME NEW k \in 0..HydrateSteps, Hydrate(k)
        PROVE  v \in receipts[s] \/ v \in dReceipts[s]
    BY <2>2 DEF Hydrate, ReadBack
  <2>3. CASE UNCHANGED receipts
    BY <2>3
  <2>4. QED
    BY <1>3, <2>1, <2>2, <2>3
       DEF Process, Boot, BootWithoutStore, SeedMemory, AttachStore, Tick, memory
<1>4. ASSUME Queue PROVE UNCHANGED receipts
  BY <1>4 DEF Queue, ExecuteWrite, RejectWrite, LoseAcknowledgement, memory
<1>5. ASSUME NEW t \in Sources, RecordUse(t) PROVE UNCHANGED receipts
  BY <1>5 DEF RecordUse
<1>6. QED
  BY <1>2, <1>3, <1>4, <1>5 DEF Next

\* Only a settling write touches the store.
LEMMA OnlyWritesStore ==
    ASSUME Next, ~ Queue
    PROVE  UNCHANGED disk
<1>1. ASSUME NEW u \in Uploads, Request(u) PROVE UNCHANGED disk
  BY <1>1 DEF Request, Handler, RefuseClosed, RegisterWorkbook, IngestWorkbook,
              RejectWorkbook, IngestDocument, RejectDocument, Answer, TimeOut, Arrive
<1>2. ASSUME Process PROVE UNCHANGED disk
  BY <1>2 DEF Process, Boot, BootWithoutStore, AttachStore, Hydrate, Crash, Tick
<1>3. ASSUME NEW s \in Sources, RecordUse(s) PROVE UNCHANGED disk
  BY <1>3 DEF RecordUse
<1>4. QED
  BY <1>1, <1>2, <1>3 DEF Next

\* The store changes only by the write at the head of the queue.
LEMMA StoreFrom ==
    ASSUME IInv, Next
    PROVE  \/ UNCHANGED disk
           \/ /\ stores = "durable" /\ Store(queue[1])
              /\ Len(queue) >= 1 /\ queue[1] \in Writes
<1>1. CASE Queue
  <2>1. queue # <<>>
    BY <1>1 DEF Queue, ExecuteWrite, RejectWrite, LoseAcknowledgement, NextIsWrite
  <2>2. Head(queue) = queue[1] /\ Head(queue) \in Writes /\ Len(queue) >= 1
    BY <2>1, TailIs DEF IInv, TypeOK
  <2>3. UNCHANGED disk \/ (stores = "durable" /\ Store(Head(queue)))
    BY <1>1 DEF Queue, ExecuteWrite, RejectWrite, LoseAcknowledgement
  <2>4. QED
    BY <2>2, <2>3
<1>2. QED
  BY <1>1, OnlyWritesStore
-----------------------------------------------------------------------------
(* The invariant.                                                          *)

LEMMA UnsentStep ==
    ASSUME PInv, Next
    PROVE  Unsent'
<1> SUFFICES ASSUME NEW v \in Uploads, phase'[v] \in {"idle", "waiting"}
             PROVE  /\ \A s \in Sources : v \notin receipts'[s] /\ v \notin dReceipts'[s]
                    /\ \A k \in 1..Len(queue') : v \notin queue'[k].receipts
  BY DEF Unsent
<1>1. /\ \A s \in Sources : v \notin receipts[s] /\ v \notin dReceipts[s]
      /\ \A k \in 1..Len(queue) : v \notin queue[k].receipts
  BY RequestsGoOn DEF PInv, Unsent
<1>2. ASSUME NEW s \in Sources PROVE v \notin receipts'[s]
  BY <1>1, ReceiptsFrom DEF PInv
<1>3. ASSUME NEW s \in Sources PROVE v \notin dReceipts'[s]
  <2>1. CASE UNCHANGED disk
    BY <1>1, <2>1 DEF disk
  <2>2. CASE Store(queue[1]) /\ Len(queue) >= 1
    <3>1. v \notin queue[1].receipts
      <4>1. Len(queue) \in Nat
        BY DEF PInv, IInv, TypeOK
      <4>2. QED
        BY <1>1, <2>2, <4>1
    <3>2. dReceipts \in [Sources -> SUBSET Writers]
      BY DEF PInv, IInv, TypeOK
    <3>3. dReceipts'[s] = dReceipts[s] \/ dReceipts'[s] = queue[1].receipts
      BY <2>2, <3>2 DEF Store
    <3>4. QED
      BY <1>1, <3>1, <3>3
  <2>3. QED
    BY <2>1, <2>2, StoreFrom DEF PInv
<1>4. ASSUME NEW k \in 1..Len(queue') PROVE v \notin queue'[k].receipts
  <2>1. CASE Kept(queue'[k])
    BY <1>1, <2>1 DEF Kept
  <2>2. CASE Fresh(queue'[k])
    <3>1. queue'[k].source \in Sources
      <4>1. queue' \in Seq(Writes)
        BY StepTypes DEF PInv, IInv, TypeOK
      <4>2. queue'[k] \in Writes
        BY <4>1
      <4>3. QED
        BY <4>2 DEF Writes
    <3>2. v \notin receipts[queue'[k].source]
      BY <1>1, <3>1
    <3>3. QED
      BY <2>2, <3>2 DEF Fresh
  <2>3. QED
    BY <2>1, <2>2, StepQueue DEF PInv
<1>5. QED
  BY <1>2, <1>3, <1>4

LEMMA SeedStep ==
    ASSUME PInv, Next
    PROVE  SeedContained'
<1>1. SeedContained /\ IInv
  BY DEF PInv
<1>2. SeedNeverDurable'
  <2>1. CASE UNCHANGED disk
    BY <1>1, <2>1 DEF disk, SeedContained, SeedNeverDurable
  <2>2. CASE /\ stores = "durable" /\ Store(queue[1])
             /\ Len(queue) >= 1 /\ queue[1] \in Writes
    <3>1. queue[1].part \in {"source"} \cup ContentParts => queue[1].source # SeedSource
      <4>1. Len(queue) \in Nat
        BY <1>1 DEF IInv, TypeOK
      <4>2. QED
        BY <1>1, <2>2, <4>1 DEF SeedContained
    <3>2. SeedSource \notin dSources'
      BY <1>1, <2>2, <3>1 DEF Store, SeedContained, SeedNeverDurable
    <3>3. ASSUME NEW x \in dItems' PROVE x.source # SeedSource
      BY <1>1, <2>2, <3>1, <3>3 DEF Store, SeedContained, SeedNeverDurable, ItemOf
    <3>4. QED
      BY <3>2, <3>3 DEF SeedNeverDurable
  <2>3. QED
    BY <1>1, <2>1, <2>2, StoreFrom
<1>3. ASSUME stores' = "durable", NEW k \in 1..Len(queue'),
             queue'[k].part \in {"source"} \cup ContentParts
      PROVE  queue'[k].source # SeedSource
  <2>1. CASE stores = "durable"
    <3>1. CASE Kept(queue'[k])
      BY <1>1, <1>3, <2>1, <3>1 DEF Kept, SeedContained
    <3>2. CASE Fresh(queue'[k])
      BY <1>3, <3>2 DEF Fresh, ContentParts
    <3>3. QED
      BY <1>1, <3>1, <3>2, StepQueue
  <2>2. CASE stores # "durable"
    <3>1. AttachStore
      <4>1. Process => AttachStore
        BY <1>3, <2>2 DEF Process, Boot, BootWithoutStore, Hydrate, Crash, Tick
      <4>2. ~ Queue
        BY <1>3, <2>2 DEF Queue, ExecuteWrite, RejectWrite, LoseAcknowledgement
      <4>3. ASSUME NEW u \in Uploads PROVE ~ Request(u)
        BY <1>3, <2>2 DEF Request, Handler, RefuseClosed, RegisterWorkbook,
              IngestWorkbook, RejectWorkbook, IngestDocument, RejectDocument, Answer,
              TimeOut, Arrive
      <4>4. ASSUME NEW s \in Sources PROVE ~ RecordUse(s)
        BY <1>3, <2>2 DEF RecordUse
      <4>5. QED
        BY <4>1, <4>2, <4>3, <4>4 DEF Next
    <3>2. /\ mode = "draining" /\ queue # <<>> /\ queue' = Tail(queue)
          /\ Head(queue).part = "flush"
      <4>1. Flush(Seed).part = "flush"
        BY DEF Flush
      <4>2. QED
        BY <3>1, <4>1 DEF AttachStore
    <3>3. /\ Len(queue) \in Nat \ {0} /\ Head(queue) = queue[1]
          /\ Len(queue') = Len(queue) - 1
      BY <1>1, <3>2, TailIs DEF IInv, TypeOK
    <3>4. \A i \in 1..Len(queue) : queue[i].part = "flush" <=> i = Len(queue)
      BY <1>1, <3>2 DEF IInv, QueueByMode, IsFlush
    <3>5. 1 \in 1..Len(queue)
      BY <3>3
    <3>6. 1 = Len(queue)
      BY <3>2, <3>3, <3>4, <3>5
    <3>7. Len(queue') = 0
      <4>1. PICK n \in Nat : n = Len(queue) /\ Len(queue') = n - 1
        BY <3>3
      <4>2. n = 1
        BY <3>6, <4>1
      <4>3. QED
        BY <4>1, <4>2
    <3>8. k \in 1..0
      BY <1>3, <3>7
    <3>9. QED
      BY <3>8
  <2>3. QED
    BY <2>1, <2>2
<1>4. ASSUME NEW v \in Uploads, phase'[v] = "registered"
      PROVE  sourceOf'[v] # SeedSource
  <2>1. /\ phase \in [Uploads -> Phases] /\ sourceOf \in [Uploads -> Sources]
        /\ clock \in 1..LastMs
    BY <1>1 DEF IInv, TypeOK
  <2>2. ASSUME NEW u \in Uploads, Request(u) PROVE sourceOf'[v] # SeedSource
    <3>1. CASE RegisterWorkbook(u)
      <4>1. sourceOf' = [sourceOf EXCEPT ![u] = <<KindOf(u), clock>>]
            /\ phase' = [phase EXCEPT ![u] = "registered"]
        BY <3>1 DEF RegisterWorkbook, Accept
      <4>2. <<KindOf(u), clock>> # SeedSource
        BY <2>1, ClockSource
      <4>3. QED
        BY <1>1, <1>4, <2>1, <4>1, <4>2 DEF SeedContained
    <3>2. CASE IngestDocument(u) \/ RejectDocument(u)
      <4>1. /\ sourceOf' = [sourceOf EXCEPT ![u] = <<KindOf(u), clock>>]
            /\ \E p \in {"flushing", "unreadable"} : phase' = [phase EXCEPT ![u] = p]
        BY <3>2 DEF IngestDocument, RejectDocument, Accept
      <4>2. v # u /\ phase[v] = "registered"
        BY <1>4, <2>1, <4>1
      <4>3. QED
        BY <1>1, <2>1, <4>1, <4>2 DEF SeedContained
    <3>3. CASE UNCHANGED sourceOf /\ ~ RegisterWorkbook(u)
      <4>1. \/ UNCHANGED phase
            \/ \E p \in Phases \ {"registered"} : phase' = [phase EXCEPT ![u] = p]
        BY <2>2, <3>3, <2>1 DEF Request, Handler, RefuseClosed, IngestWorkbook,
              RejectWorkbook, IngestDocument, RejectDocument, Answer, TimeOut, Arrive,
              Phases
      <4>2. phase[v] = "registered"
        BY <1>4, <2>1, <4>1
      <4>3. QED
        BY <1>1, <3>3, <4>2 DEF SeedContained
    <3>4. QED
      BY <2>2, <3>1, <3>2, <3>3 DEF Request, Handler, RefuseClosed, IngestWorkbook,
              RejectWorkbook, Answer, TimeOut, Arrive
  <2>3. ASSUME UNCHANGED sourceOf, phase[v] = "registered" PROVE sourceOf'[v] # SeedSource
    BY <1>1, <2>3 DEF SeedContained
  <2>4. ASSUME Process PROVE UNCHANGED sourceOf /\ phase[v] = "registered"
    BY <1>4, <2>1, <2>4 DEF Process, Boot, BootWithoutStore, AttachStore, Hydrate, Crash,
                       Tick, requests
  <2>5. ASSUME Queue PROVE UNCHANGED <<sourceOf, phase>>
    BY <2>5 DEF Queue, ExecuteWrite, RejectWrite, LoseAcknowledgement, requests
  <2>6. ASSUME NEW s \in Sources, RecordUse(s) PROVE UNCHANGED <<sourceOf, phase>>
    BY <2>6 DEF RecordUse, requests
  <2>7. QED
    BY <1>4, <2>2, <2>3, <2>4, <2>5, <2>6 DEF Next
<1>5. QED
  BY <1>2, <1>3, <1>4 DEF SeedContained

LEMMA PInvInit == Init => PInv
<1> SUFFICES ASSUME Init PROVE PInv
  OBVIOUS
<1>1. Unsent
  BY DEF Init, Unsent
<1>2. SeedContained
  BY DEF Init, SeedContained, SeedNeverDurable
<1>3. QED
  BY <1>1, <1>2, InitInv DEF PInv

LEMMA PInvStep == PInv /\ [Next]_vars => PInv'
<1> SUFFICES ASSUME PInv, [Next]_vars PROVE PInv'
  OBVIOUS
<1>1. IInv'
  BY StepInv DEF PInv
<1>2. CASE Next
  BY <1>1, <1>2, UnsentStep, SeedStep DEF PInv
<1>3. CASE UNCHANGED vars
  BY <1>1, <1>3 DEF PInv, Unsent, SeedContained, SeedNeverDurable, vars, memory,
                    disk, requests
<1>4. QED
  BY <1>2, <1>3

\* What the seed rebuilds on every start is never written to the store: its writes
\* have drained before the store is attached, and no upload takes its id.
THEOREM SeedStaysOut == Spec => []SeedNeverDurable
<1>1. PInv => SeedNeverDurable
  BY DEF PInv, SeedContained
<1>2. QED
  BY <1>1, PInvInit, PInvStep, PTL DEF Spec
-----------------------------------------------------------------------------
(* The refinement.                                                         *)

\* What a request whose route has not begun was sent is not in the store.
LEMMA UnsentIsNotDurable ==
    ASSUME TypeOK, Unsent, NEW u \in Uploads, phase[u] \in {"idle", "waiting"}
    PROVE  ~ IsDurable(u)
BY DEF TypeOK, Unsent, IsDurable

\* A request whose route has begun keeps its source and file.
LEMMA RouteKeeps ==
    ASSUME TypeOK, Next, NEW v \in Uploads, phase[v] \notin {"idle", "waiting"}
    PROVE  sourceOf'[v] = sourceOf[v] /\ fileOf'[v] = fileOf[v]
<1>1. ASSUME NEW u \in Uploads, Request(u)
      PROVE  \/ UNCHANGED <<sourceOf, fileOf>>
             \/ /\ phase[u] \in {"idle", "waiting"}
                /\ \A x \in Uploads \ {u} : sourceOf'[x] = sourceOf[x]
                                            /\ fileOf'[x] = fileOf[x]
  BY <1>1 DEF Request, Handler, RefuseClosed, RegisterWorkbook, IngestWorkbook,
        RejectWorkbook, IngestDocument, RejectDocument, Answer, TimeOut, Arrive,
        Accept, TypeOK
<1>2. ASSUME Process PROVE UNCHANGED <<sourceOf, fileOf>>
  BY <1>2 DEF Process, Boot, BootWithoutStore, AttachStore, Hydrate, Crash, Tick,
              requests
<1>3. ASSUME Queue PROVE UNCHANGED <<sourceOf, fileOf>>
  BY <1>3 DEF Queue, ExecuteWrite, RejectWrite, LoseAcknowledgement, requests
<1>4. ASSUME NEW s \in Sources, RecordUse(s) PROVE UNCHANGED <<sourceOf, fileOf>>
  BY <1>4 DEF RecordUse, requests
<1>5. QED
  BY <1>1, <1>2, <1>3, <1>4 DEF Next

\* What is durable stays so.
LEMMA SavedGrows ==
    ASSUME PInv, Next
    PROVE  Saved \subseteq Saved'
<1> SUFFICES ASSUME NEW v \in Uploads, IsDurable(v) PROVE IsDurable(v)'
  BY DEF Saved
<1>1. TypeOK /\ Unsent
  BY DEF PInv, IInv
<1>2. phase[v] \notin {"idle", "waiting"}
  BY <1>1, UnsentIsNotDurable
<1>3. sourceOf'[v] = sourceOf[v] /\ fileOf'[v] = fileOf[v]
  BY <1>1, <1>2, RouteKeeps
<1>4. /\ dSources \subseteq dSources' /\ dItems \subseteq dItems'
      /\ \A s \in Sources : dReceipts[s] \subseteq dReceipts'[s]
  BY DiskGrows, OnlyWritesStore DEF PInv, disk
<1>5. UploadItems(v)' = UploadItems(v)
  BY <1>3 DEF UploadItems
<1>6. sourceOf[v] \in Sources
  BY <1>1 DEF TypeOK
<1>7. QED
  BY <1>3, <1>4, <1>5, <1>6 DEF IsDurable

\* A write may make an upload durable; nothing else does.
LEMMA OnlyWritesSave ==
    ASSUME PInv, Next, ~ Queue
    PROVE  Saved' = Saved
<1>1. PInv' /\ TypeOK /\ TypeOK' /\ Unsent /\ Unsent'
  BY PInvStep DEF PInv, IInv
<1>2. Saved \subseteq Saved'
  BY SavedGrows
<1>3. ASSUME NEW v \in Uploads, IsDurable(v)' PROVE IsDurable(v)
  <2>1. UNCHANGED disk
    BY OnlyWritesStore
  <2>2. CASE phase[v] \in {"idle", "waiting"}
    <3>1. \A s \in Sources : v \notin dReceipts'[s]
      BY <1>1, <2>1, <2>2 DEF Unsent, disk
    <3>2. sourceOf'[v] \in Sources
      BY <1>1 DEF TypeOK
    <3>3. QED
      BY <1>3, <3>1, <3>2 DEF IsDurable
  <2>3. CASE phase[v] \notin {"idle", "waiting"}
    <3>1. sourceOf'[v] = sourceOf[v] /\ fileOf'[v] = fileOf[v]
      BY <1>1, <2>3, RouteKeeps
    <3>2. UploadItems(v)' = UploadItems(v)
      BY <3>1 DEF UploadItems
    <3>3. QED
      BY <1>3, <2>1, <3>1, <3>2 DEF IsDurable, disk
  <2>4. QED
    BY <2>2, <2>3
<1>4. QED
  BY <1>2, <1>3 DEF Saved

\* The word an upload's request has come to, in UploadCommit's terms.
LEMMA OutcomeIs ==
    ASSUME NEW v \in Uploads
    PROVE  /\ phase[v] = "committed" => Outcome[v] = "committed"
           /\ phase[v] \in {"not_committed", "unreadable", "closed", "lost"}
                 => Outcome[v] = "abandoned"
           /\ phase[v] \in {"idle", "waiting", "registered", "flushing"}
                 => Outcome[v] = "pending"
BY DEF Outcome

\* A request that ends without a receipt.
LEMMA OneAbandons ==
    ASSUME PInv, Next, ~ Queue, NEW u \in Uploads,
           phase[u] \in {"idle", "waiting", "registered", "flushing"},
           NEW p \in {"not_committed", "unreadable", "closed", "lost"},
           phase' = [phase EXCEPT ![u] = p]
    PROVE  Promise!CommitNext
<1>1. Saved' = Saved
  BY OnlyWritesSave
<1>2. phase \in [Uploads -> Phases]
  BY DEF PInv, IInv, TypeOK
<1>3. Outcome[u] = "pending"
  BY OutcomeIs
<1>4. Outcome' = [v \in Uploads |-> IF v \in {u} THEN "abandoned" ELSE Outcome[v]]
  BY <1>2 DEF Outcome
<1>5. Promise!Abandon({u})
  BY <1>1, <1>3, <1>4 DEF Promise!Abandon
<1>6. QED
  BY <1>5 DEF Promise!CommitNext

\* flush() has resumed: its upload's request was waiting for it.
LEMMA AnswersOneWaiting ==
    ASSUME IInv, NEW u \in Uploads, Answer(u)
    PROVE  phase[u] = "flushing"
<1>1. /\ queue # <<>> /\ Head(queue) = queue[1] /\ queue[1] = Flush(u)
      /\ Len(queue) \in Nat \ {0}
  BY TailIs DEF Answer, IInv, TypeOK
<1>2. 1 \in 1..Len(queue) /\ IsFlush(1)
  BY <1>1, FlushIs DEF IsFlush
<1>3. mode # "down" /\ mode # "hydrating"
  BY <1>1 DEF IInv, QueueByMode
<1>4. mode # "closed"
  <2>1. queue[1].part # "use"
    BY <1>2 DEF IsFlush
  <2>2. QED
    BY <1>2, <2>1 DEF IInv, QueueByMode
<1>5. mode # "draining"
  <2> SUFFICES ASSUME mode = "draining" PROVE FALSE
    OBVIOUS
  <2>1. 1 = Len(queue) /\ queue[Len(queue)] = Flush(Seed)
    BY <1>2 DEF IInv, QueueByMode
  <2>2. u = Seed
    BY <1>1, <2>1, FlushIs
  <2>3. QED
    BY <2>2, ConstantsAssumption
<1>6. mode = "open"
  BY <1>3, <1>4, <1>5 DEF IInv, TypeOK, Modes
<1>7. PICK v \in Uploads : queue[1] = Flush(v) /\ phase[v] = "flushing"
  BY <1>2, <1>6 DEF IInv, FlushesAreWaitedFor
<1>8. QED
  BY <1>1, <1>7, FlushIs

LEMMA AnswerKeeps ==
    ASSUME PInv, Next, ~ Queue, NEW u \in Uploads, Answer(u)
    PROVE  Promise!CommitNext
<1>1. phase[u] = "flushing"
  BY AnswersOneWaiting DEF PInv
<1>2. phase \in [Uploads -> Phases]
  BY DEF PInv, IInv, TypeOK
<1>3. CASE failures # {}
  <2>1. phase' = [phase EXCEPT ![u] = "not_committed"]
    BY <1>3 DEF Answer
  <2>2. QED
    BY <1>1, <2>1, OneAbandons
<1>4. CASE failures = {}
  <2>1. phase' = [phase EXCEPT ![u] = "committed"]
    BY <1>4 DEF Answer
  <2>2. Outcome' = [Outcome EXCEPT ![u] = "committed"]
    BY <1>2, <2>1 DEF Outcome
  <2>3. Outcome[u] = "pending"
    BY <1>1, OutcomeIs
  <2>4. Saved' = Saved
    BY OnlyWritesSave
  <2>5. u \in Saved
    <3>1. CommittedIsDurable'
      BY PInvStep DEF PInv, IInv
    <3>2. phase'[u] = "committed"
      BY <1>2, <2>1
    <3>3. IsDurable(u)'
      BY <3>1, <3>2 DEF CommittedIsDurable
    <3>4. u \in Saved'
      BY <3>3 DEF Saved
    <3>5. QED
      BY <2>4, <3>4
  <2>6. Promise!Commit(u)
    BY <2>2, <2>3, <2>4, <2>5 DEF Promise!Commit
  <2>7. QED
    BY <2>6 DEF Promise!CommitNext
<1>5. QED
  BY <1>3, <1>4

LEMMA CrashKeeps ==
    ASSUME PInv, Next, ~ Queue, Crash
    PROVE  Promise!CommitNext
<1> DEFINE S == {v \in Uploads : phase[v] \in Running}
<1>1. \A v \in S : Outcome[v] = "pending"
  BY OutcomeIs DEF Running
<1>2. Outcome' = [v \in Uploads |-> IF v \in S THEN "abandoned" ELSE Outcome[v]]
  <2>1. phase' = [v \in Uploads |-> IF phase[v] \in Running THEN "lost" ELSE phase[v]]
    BY DEF Crash
  <2>2. QED
    BY <2>1 DEF Outcome
<1>3. Promise!Abandon(S)
  BY <1>1, <1>2, OnlyWritesSave DEF Promise!Abandon
<1>4. QED
  BY <1>3 DEF Promise!CommitNext

\* A step that ends no request.
LEMMA OthersStutter ==
    ASSUME PInv, Next, ~ Queue,
           \A v \in Uploads : \/ phase'[v] = phase[v]
                              \/ /\ phase[v] \in {"idle", "waiting", "registered"}
                                 /\ phase'[v] \in {"waiting", "registered", "flushing"}
    PROVE  UNCHANGED Promise!commitVars
<1>1. Outcome' = Outcome
  BY DEF Outcome
<1>2. QED
  BY <1>1, OnlyWritesSave DEF Promise!commitVars

\* Every step of process, queue and routes is one of UploadCommit's or none.
LEMMA StepKeeps == PInv /\ [Next]_vars => [Promise!CommitNext]_(Promise!commitVars)
<1> SUFFICES ASSUME PInv, [Next]_vars
             PROVE  Promise!CommitNext \/ UNCHANGED Promise!commitVars
  OBVIOUS
<1>1. CASE UNCHANGED vars
  <2>1. UNCHANGED <<phase, sourceOf, fileOf, dSources, dReceipts, dItems>>
    BY <1>1 DEF vars, disk, requests
  <2>2. Outcome' = Outcome
    BY <2>1 DEF Outcome
  <2>3. Saved' = Saved
    BY <2>1 DEF Saved, IsDurable, UploadItems
  <2>4. QED
    BY <2>2, <2>3 DEF Promise!commitVars
<1>2. CASE Queue /\ Next
  <2>1. UNCHANGED phase
    BY <1>2 DEF Queue, ExecuteWrite, RejectWrite, LoseAcknowledgement, requests
  <2>2. Outcome' = Outcome
    BY <2>1 DEF Outcome
  <2>3. Saved \subseteq Saved'
    BY <1>2, SavedGrows
  <2>4. Saved' \in SUBSET Uploads
    BY DEF Saved
  <2>5. Promise!Save(Saved')
    BY <2>2, <2>3 DEF Promise!Save
  <2>6. QED
    BY <2>4, <2>5 DEF Promise!CommitNext
<1>3. CASE Next /\ ~ Queue
  <2>1. phase \in [Uploads -> Phases]
    BY DEF PInv, IInv, TypeOK
  <2>2. ASSUME NEW u \in Uploads, Request(u)
        PROVE  Promise!CommitNext \/ UNCHANGED Promise!commitVars
    <3>1. CASE Answer(u)
      BY <1>3, <3>1, AnswerKeeps
    <3>2. CASE RefuseClosed(u)
      BY <1>3, <3>2, OneAbandons DEF RefuseClosed
    <3>3. CASE RejectWorkbook(u)
      BY <1>3, <3>3, OneAbandons DEF RejectWorkbook
    <3>4. CASE RejectDocument(u)
      BY <1>3, <3>4, OneAbandons DEF RejectDocument, Accept
    <3>5. CASE \/ RegisterWorkbook(u) \/ IngestWorkbook(u) \/ IngestDocument(u)
               \/ TimeOut(u) \/ (\E f \in Files : Arrive(u, f))
      <4>1. \A v \in Uploads :
               \/ phase'[v] = phase[v]
               \/ /\ phase[v] \in {"idle", "waiting", "registered"}
                  /\ phase'[v] \in {"waiting", "registered", "flushing"}
        BY <2>1, <3>5 DEF RegisterWorkbook, IngestWorkbook, IngestDocument, TimeOut,
                          Arrive, Accept
      <4>2. QED
        BY <1>3, <4>1, OthersStutter
    <3>6. QED
      BY <2>2, <3>1, <3>2, <3>3, <3>4, <3>5 DEF Request, Handler
  <2>3. ASSUME UNCHANGED phase PROVE UNCHANGED Promise!commitVars
    BY <1>3, <2>3, OthersStutter
  <2>4. ASSUME Process PROVE Crash \/ UNCHANGED phase
    BY <2>4 DEF Process, Boot, BootWithoutStore, AttachStore, Hydrate, Tick, requests
  <2>5. ASSUME NEW s \in Sources, RecordUse(s) PROVE UNCHANGED phase
    BY <2>5 DEF RecordUse, requests
  <2>6. QED
    BY <1>3, <2>2, <2>3, <2>4, <2>5, CrashKeeps DEF Next
<1>4. QED
  BY <1>1, <1>2, <1>3

LEMMA InitKeeps == Init => Promise!CommitInit
<1> SUFFICES ASSUME Init PROVE Promise!CommitInit
  OBVIOUS
<1>1. Saved = {}
  BY DEF Init, Saved, IsDurable
<1>2. Outcome = [u \in Uploads |-> "pending"]
  BY DEF Init, Outcome
<1>3. QED
  BY <1>1, <1>2 DEF Promise!CommitInit

\* The registry, its queue, its store and the two routes, over any failures and
\* crashes, implement UploadCommit: "committed" is only said of what is saved, and
\* what is saved stays.
THEOREM Refinement == Spec => KeepsPromise
<1>1. QED
  BY PInvInit, PInvStep, InitKeeps, StepKeeps, PTL DEF Spec, KeepsPromise,
     Promise!CommitSpec
-----------------------------------------------------------------------------
(***************************************************************************)
(* What a serving process says of what earlier ones committed, and that it *)
(* says it once.                                                           *)
(*                                                                         *)
(* Both need to know how memory stands to the store between a start and    *)
(* the next.  An open process holds whatever the store holds or the queue  *)
(* will put there (MemoryIsAhead): hydration reads all of it back before   *)
(* the process opens, and a route adds to memory before it queues.  And a  *)
(* process adds an item only to nothing, or for a request that had not yet *)
(* sent it (ContentWasSent): the number of copies never passes the number  *)
(* of those who sent it.                                                   *)
(***************************************************************************)
Sent == {"flushing", "committed", "not_committed", "lost"}
-----------------------------------------------------------------------------
(* Who sent what.                                                          *)

\* The content of a write is an item, and one that memory holds when it is of a
\* part memory keeps.
LEMMA ContentIs ==
    ASSUME NEW w \in Writes
    PROVE  /\ w.part \in ContentParts => Content(w) \in Items
           /\ w.part \in MemoryParts => Content(w) \in Held
           /\ Content(w).part = w.part
           /\ Content(w) = ItemOf(w.part, w.source, w.file)
BY DEF Content, ItemOf, Items, Held, Writes

LEMMA HeldIs == Held \subseteq Items /\ MemoryParts \subseteq ContentParts
BY DEF Held, Items, MemoryParts, ContentParts

\* What a request does to the progress of the others: nothing; and to its own,
\* it never takes back that it has sent its content.
LEMMA RequestGoesOn ==
    ASSUME TypeOK, NEW u \in Uploads, Request(u), NEW v \in Uploads, phase[v] \in Sent
    PROVE  phase'[v] \in Sent /\ sourceOf'[v] = sourceOf[v] /\ fileOf'[v] = fileOf[v]
<1>1. /\ phase \in [Uploads -> Phases] /\ sourceOf \in [Uploads -> Sources]
      /\ fileOf \in [Uploads -> Files]
  BY DEF TypeOK
<1>2. CASE u # v
  BY <1>1, <1>2 DEF Request, Handler, RefuseClosed, RegisterWorkbook, IngestWorkbook,
                    RejectWorkbook, IngestDocument, RejectDocument, Answer, TimeOut,
                    Arrive, Accept
<1>3. CASE u = v /\ phase[v] \notin {"idle", "waiting", "registered"}
  <2>1. Answer(u) \/ TimeOut(u)
    BY <1>3 DEF Request, Handler, RefuseClosed, RegisterWorkbook, IngestWorkbook,
                RejectWorkbook, IngestDocument, RejectDocument, Arrive, Accept
  <2>2. QED
    BY <1>1, <1>3, <2>1 DEF Answer, TimeOut, Sent
<1>4. QED
  BY <1>2, <1>3 DEF Sent

\* Whoever sent an item has sent it for good.
LEMMA SendersStay ==
    ASSUME IInv, Next, NEW x
    PROVE  Senders(x) \subseteq Senders(x)'
<1>1. phase \in [Uploads -> Phases]
  BY DEF IInv, TypeOK
<1>2. SUFFICES ASSUME NEW v \in Uploads, phase[v] \in Sent
               PROVE  /\ phase'[v] \in Sent
                      /\ sourceOf'[v] = sourceOf[v] /\ fileOf'[v] = fileOf[v]
  BY DEF Senders, UploadItems, Sent
<1>3. ASSUME NEW u \in Uploads, Request(u)
      PROVE  phase'[v] \in Sent /\ sourceOf'[v] = sourceOf[v] /\ fileOf'[v] = fileOf[v]
  BY <1>2, <1>3, RequestGoesOn DEF IInv
<1>4. CASE Crash
  BY <1>1, <1>2, <1>4 DEF Crash, Sent, Running
<1>5. CASE UNCHANGED requests
  BY <1>2, <1>5 DEF requests
<1>6. Next => \/ \E u \in Uploads : Request(u)
              \/ Crash
              \/ UNCHANGED requests
  BY DEF Next, Process, Boot, BootWithoutStore, AttachStore, Hydrate, Tick,
         Queue, ExecuteWrite, RejectWrite, LoseAcknowledgement, RecordUse
<1>7. QED
  BY <1>3, <1>4, <1>5, <1>6

\* Only finitely many requests ever arrived, so an item has a number of senders.
LEMMA SendersAreCounted ==
    ASSUME IsFiniteSet({u \in Uploads : phase[u] # "idle"}), NEW x
    PROVE  IsFiniteSet(Senders(x)) /\ Cardinality(Senders(x)) \in Nat
<1>1. Senders(x) \subseteq {u \in Uploads : phase[u] # "idle"}
  BY DEF Senders
<1>2. QED
  BY <1>1, FS_Subset, FS_CardinalityType

\* One more request at most has arrived after a step.
LEMMA ArrivalsAreFinite ==
    ASSUME IInv, Next, IsFiniteSet({u \in Uploads : phase[u] # "idle"})
    PROVE  IsFiniteSet({u \in Uploads : phase'[u] # "idle"})
<1> DEFINE Arrived == {u \in Uploads : phase[u] # "idle"}
<1>1. phase \in [Uploads -> Phases]
  BY DEF IInv, TypeOK
<1>2. ASSUME NEW v \in Uploads, Request(v)
      PROVE  {u \in Uploads : phase'[u] # "idle"} \subseteq Arrived \cup {v}
  <2>1. \A u \in Uploads : u # v => phase'[u] = phase[u]
    BY <1>1, <1>2 DEF Request, Handler, RefuseClosed, RegisterWorkbook, IngestWorkbook,
                      RejectWorkbook, IngestDocument, RejectDocument, Answer, TimeOut, Arrive
  <2>2. QED
    BY <2>1
<1>3. CASE Crash
  <2>1. \A u \in Uploads : phase[u] = "idle" => phase'[u] = "idle"
    BY <1>1, <1>3 DEF Crash, Running
  <2>2. {u \in Uploads : phase'[u] # "idle"} \subseteq Arrived
    BY <2>1
  <2>3. QED
    BY <2>2, FS_Subset
<1>4. CASE UNCHANGED requests
  BY <1>4 DEF requests
<1>5. ASSUME NEW v \in Uploads, Request(v)
      PROVE  IsFiniteSet({u \in Uploads : phase'[u] # "idle"})
  <2>1. IsFiniteSet(Arrived \cup {v})
    BY FS_AddElement
  <2>2. QED
    BY <1>2, <1>5, <2>1, FS_Subset
<1>6. Next => \/ \E u \in Uploads : Request(u)
              \/ Crash
              \/ UNCHANGED requests
  BY DEF Next, Process, Boot, BootWithoutStore, AttachStore, Hydrate, Tick,
         Queue, ExecuteWrite, RejectWrite, LoseAcknowledgement, RecordUse
<1>7. QED
  BY <1>3, <1>4, <1>5, <1>6
-----------------------------------------------------------------------------
(* What a step adds to memory and to the queue.                            *)

\* A write that is not content, or is of a request that waits for it and has it in
\* memory.
Backed(w) ==
    w.part \in ContentParts =>
        /\ \E u \in Uploads : /\ phase'[u] = "flushing" /\ w.part \in PartSet(u)
                              /\ w.source = sourceOf'[u] /\ w.file = fileOf'[u]
        /\ w.part \in MemoryParts => held'[Content(w)] > 0

\* An ingesting route is one request that had sent nothing, in an open process.
LEMMA IngestIs ==
    ASSUME IInv, NEW u \in Uploads, IngestWorkbook(u) \/ IngestDocument(u)
    PROVE  /\ mode = "open" /\ mode' = "open"
           /\ phase[u] \notin Sent /\ phase' = [phase EXCEPT ![u] = "flushing"]
           /\ sourceOf'[u] \in Sources /\ fileOf[u] \in Files
           /\ fileOf' = fileOf
           /\ held' = Added(held, u, sourceOf'[u], fileOf[u])
<1>1. TypeOK
  BY DEF IInv
<1>2. CASE IngestWorkbook(u)
  BY <1>1, <1>2 DEF IngestWorkbook, IInv, QueueByMode, TypeOK, Sent
<1>3. CASE IngestDocument(u)
  <2>1. <<KindOf(u), clock>> \in Sources
    BY <1>1, ClockSource DEF TypeOK
  <2>2. QED
    BY <1>1, <1>3, <2>1 DEF IngestDocument, Accept, TypeOK, Sent
<1>4. QED
  BY <1>2, <1>3

\* The request's content is in memory, once its route has ingested.
LEMMA IngestedIsBacked ==
    ASSUME IInv, NEW u \in Uploads, IngestWorkbook(u) \/ IngestDocument(u),
           NEW p \in PartSet(u)
    PROVE  /\ phase'[u] = "flushing"
           /\ p \in MemoryParts => held'[ItemOf(p, sourceOf'[u], fileOf[u])] > 0
<1> DEFINE x == ItemOf(p, sourceOf'[u], fileOf[u])
<1>1. /\ phase \in [Uploads -> Phases] /\ held \in [Held -> Nat]
  BY DEF IInv, TypeOK
<1>2. phase'[u] = "flushing"
  BY <1>1, IngestIs
<1>4. ASSUME p \in MemoryParts PROVE held'[x] > 0
  <2>1. x \in Held /\ x.part = p /\ x.source = sourceOf'[u] /\ x.file = fileOf[u]
    BY <1>4, IngestIs DEF Held, ItemOf
  <2>2. held'[x] = IF x.part = "version" THEN 1 ELSE held[x] + 1
    BY <2>1, IngestIs DEF Added
  <2>3. held[x] \in Nat
    BY <1>1, <2>1
  <2> HIDE DEF x
  <2>4. QED
    BY <2>2, <2>3
<1>5. QED
  BY <1>2, <1>4

\* One write joins the queue.
LEMMA AppendKept ==
    ASSUME TypeOK, NEW w \in Writes, Backed(w), queue' = Append(queue, w),
           NEW k \in 1..Len(queue')
    PROVE  Kept(queue'[k]) \/ Backed(queue'[k])
<1>1. /\ Len(queue) \in Nat /\ Len(queue') = Len(queue) + 1
      /\ \A i \in 1..Len(queue) : queue'[i] = queue[i]
      /\ queue'[Len(queue) + 1] = w
  BY AppendIs DEF TypeOK
<1>2. k \in 1..Len(queue) \/ k = Len(queue) + 1
  BY <1>1
<1>3. QED
  BY <1>1, <1>2 DEF Kept

\* A run of writes joins the queue.
LEMMA ConcatKept ==
    ASSUME NEW q \in Seq(Writes), NEW b \in Seq(Writes),
           \A i \in 1..Len(q) : Kept(q[i]) \/ Backed(q[i]),
           \A i \in 1..Len(b) : Backed(b[i]),
           queue' = q \o b, NEW k \in 1..Len(queue')
    PROVE  Kept(queue'[k]) \/ Backed(queue'[k])
<1>1. /\ Len(q) \in Nat /\ Len(b) \in Nat /\ Len(queue') = Len(q) + Len(b)
      /\ \A i \in 1..Len(q) : queue'[i] = q[i]
      /\ \A i \in 1..Len(b) : queue'[Len(q) + i] = b[i]
  BY ConcatIs
<1>2. CASE k \in 1..Len(q)
  BY <1>1, <1>2
<1>3. CASE k \notin 1..Len(q)
  <2>1. k - Len(q) \in 1..Len(b) /\ k = Len(q) + (k - Len(q))
    BY <1>1, <1>3
  <2>2. queue'[k] = b[k - Len(q)]
    BY <1>1, <2>1
  <2>3. QED
    BY <2>1, <2>2
<1>4. QED
  BY <1>2, <1>3

\* A batch is its request's own content.
LEMMA BatchIsBacked ==
    ASSUME IInv, NEW u \in Uploads, IngestWorkbook(u) \/ IngestDocument(u),
           NEW rs \in SUBSET Writers, 
           NEW s \in Sources, s = sourceOf'[u], NEW f \in Files, f = fileOf[u]
    PROVE  /\ Batch(u, s, rs, f) \in Seq(Writes)
           /\ \A i \in 1..Len(Batch(u, s, rs, f)) : Backed(Batch(u, s, rs, f)[i])
<1> DEFINE b == Batch(u, s, rs, f)
<1> HIDE DEF b
<1>1. /\ b \in Seq(Writes) /\ Len(b) = 5
      /\ b[1] = PutSource(s, rs, u) /\ b[5] = Flush(u)
      /\ \A i \in 1..3 : b[i + 1] = PutItem(PartsOf(u)[i], s, f, u)
  <2>1. b \in Seq(Writes) /\ Len(b) = 5
    <3>1. u \in Writers
      BY DEF Writers
    <3>2. \A i \in 1..3 : PutItem(PartsOf(u)[i], s, f, u) \in Writes
      BY <3>1, PartTypes, WriteTypes
    <3>3. PutSource(s, rs, u) \in Writes /\ Flush(u) \in Writes
      BY <3>1, WriteTypes DEF ContentParts
    <3>4. QED
      BY <3>2, <3>3 DEF b, Batch
  <2>2. b[1] = PutSource(s, rs, u) /\ b[5] = Flush(u)
    BY DEF b, Batch
  <2>3. \A i \in 1..3 : b[i + 1] = PutItem(PartsOf(u)[i], s, f, u)
    BY DEF b, Batch
  <2>4. QED
    BY <2>1, <2>2, <2>3
<1>2. Backed(PutSource(s, rs, u)) /\ Backed(Flush(u))
  BY DEF Backed, PutSource, Flush, ContentParts
<1>3. ASSUME NEW i \in 1..3 PROVE Backed(PutItem(PartsOf(u)[i], s, f, u))
  <2> DEFINE p == PartsOf(u)[i]
             w == PutItem(p, s, f, u)
  <2>1. p \in PartSet(u)
    BY PartTypes
  <2>2. /\ w.part = p /\ w.source = s /\ w.file = f
        /\ Content(w) = ItemOf(p, s, f)
    BY DEF PutItem, Content
  <2>3. /\ phase'[u] = "flushing" /\ f = fileOf'[u]
        /\ p \in MemoryParts => held'[ItemOf(p, s, f)] > 0
    BY <2>1, IngestedIsBacked, IngestIs
  <2> HIDE DEF p, w
  <2>4. Backed(w)
    BY <2>1, <2>2, <2>3 DEF Backed
  <2>5. QED
    BY <2>4 DEF p, w
<1>4. ASSUME NEW i \in 1..5 PROVE Backed(b[i])
  <2>1. i = 1 \/ i = 5 \/ \E j \in 1..3 : i = j + 1
    <3>1. i = 1 \/ i = 5 \/ (i - 1 \in 1..3 /\ i = (i - 1) + 1)
      OBVIOUS
    <3>2. QED
      BY <3>1
  <2>2. QED
    BY <1>1, <1>2, <1>3, <2>1
<1>5. QED
  BY <1>1, <1>4 DEF b

\* Every write on the queue was there before the step or is backed after it.
LEMMA QueueIsBacked ==
    ASSUME IInv, Next, NEW k \in 1..Len(queue')
    PROVE  Kept(queue'[k]) \/ Backed(queue'[k])
<1>1. TypeOK /\ queue \in Seq(Writes) /\ receipts \in [Sources -> SUBSET Writers]
  BY DEF IInv, TypeOK
<1>2. CASE UNCHANGED queue
  BY <1>2 DEF Kept
<1>3. CASE queue # <<>> /\ queue' = Tail(queue)
  BY <1>1, <1>3, TailKept
<1>4. CASE Crash
  BY <1>4 DEF Crash
<1>5. CASE Boot \/ BootWithoutStore
  <2>1. SeedWrites = << PutSource(SeedSource, {}, Seed) >>
    BY DEF SeedWrites
  <2>2. queue' = << PutSource(SeedSource, {}, Seed) >>
        \/ queue' = << PutSource(SeedSource, {}, Seed), Flush(Seed) >>
    BY <1>5, <2>1 DEF Boot, BootWithoutStore
  <2>3. queue'[k] = PutSource(SeedSource, {}, Seed) \/ queue'[k] = Flush(Seed)
    BY <2>2
  <2>4. QED
    BY <2>3 DEF Backed, PutSource, Flush, ContentParts
<1>6. ASSUME NEW s \in Sources, RecordUse(s) PROVE Kept(queue'[k]) \/ Backed(queue'[k])
  <2>1. PutUse(s) \in Writes
    BY <1>6, BlankType, WriteTypes DEF Writers, ContentParts
  <2>2. Backed(PutUse(s))
    BY DEF Backed, PutUse, ContentParts
  <2>3. QED
    BY <1>1, <1>6, <2>1, <2>2, AppendKept DEF RecordUse
<1>7. ASSUME NEW u \in Uploads
      PROVE  LET w == PutSource(<<KindOf(u), clock>>, receipts[<<KindOf(u), clock>>], u)
             IN  w \in Writes /\ Backed(w)
  <2>1. <<KindOf(u), clock>> \in Sources /\ u \in Writers
    BY <1>1, ClockSource DEF TypeOK, Writers
  <2>2. QED
    BY <1>1, <2>1, BlankType, WriteTypes DEF ContentParts, Backed, PutSource
<1>8. ASSUME NEW u \in Uploads, RegisterWorkbook(u) \/ RejectDocument(u)
      PROVE  Kept(queue'[k]) \/ Backed(queue'[k])
  <2>1. queue' = Append(queue, PutSource(<<KindOf(u), clock>>, receipts[<<KindOf(u), clock>>], u))
    BY <1>8 DEF RegisterWorkbook, RejectDocument
  <2>2. QED
    BY <1>1, <1>7, <2>1, AppendKept
<1>9. ASSUME NEW u \in Uploads, IngestWorkbook(u) \/ IngestDocument(u)
      PROVE  Kept(queue'[k]) \/ Backed(queue'[k])
  <2>0. PICK s \in Sources, f \in Files : s = sourceOf'[u] /\ f = fileOf[u]
    BY <1>9, IngestIs
  <2> DEFINE rs == receipts[s] \cup {u}
             b == Batch(u, s, rs, f)
             w == PutSource(s, receipts[s], u)
  <2>1. rs \in SUBSET Writers
    BY <1>1, <1>9, <2>0, IngestIs DEF Writers
  <2>2. b \in Seq(Writes) /\ \A i \in 1..Len(b) : Backed(b[i])
    BY <1>9, <2>0, <2>1, BatchIsBacked
  <2>3. CASE IngestWorkbook(u)
    <3>1. queue' = queue \o b
      BY <1>1, <2>0, <2>3 DEF IngestWorkbook
    <3>2. \A i \in 1..Len(queue) : Kept(queue[i])
      BY DEF Kept
    <3> HIDE DEF b
    <3>3. QED
      BY <1>1, <2>2, <3>1, <3>2, ConcatKept
  <2>4. CASE IngestDocument(u)
    <3>1. s = <<KindOf(u), clock>>
      BY <1>1, <2>0, <2>4 DEF IngestDocument, Accept, TypeOK
    <3>2. queue' = Append(queue, w) \o b
      BY <2>0, <2>4, <3>1 DEF IngestDocument
    <3>3. w \in Writes /\ Backed(w)
      BY <1>7, <3>1
    <3> HIDE DEF b, w
    <3>4. /\ Append(queue, w) \in Seq(Writes)
          /\ Len(queue) \in Nat /\ Len(Append(queue, w)) = Len(queue) + 1
          /\ \A i \in 1..Len(queue) : Append(queue, w)[i] = queue[i]
          /\ Append(queue, w)[Len(queue) + 1] = w
      BY <1>1, <3>3, AppendIs
    <3>5. ASSUME NEW i \in 1..Len(Append(queue, w))
          PROVE  Kept(Append(queue, w)[i]) \/ Backed(Append(queue, w)[i])
      <4>1. i \in 1..Len(queue) \/ i = Len(queue) + 1
        BY <3>4
      <4>2. QED
        BY <3>3, <3>4, <4>1 DEF Kept
    <3>6. QED
      BY <2>2, <3>2, <3>4, <3>5, ConcatKept
  <2>5. QED
    BY <1>9, <2>3, <2>4
<1>10. ASSUME NEW u \in Uploads, Request(u) PROVE Kept(queue'[k]) \/ Backed(queue'[k])
  <2>1. CASE RegisterWorkbook(u) \/ RejectDocument(u) \/ IngestWorkbook(u) \/ IngestDocument(u)
    BY <1>8, <1>9, <2>1
  <2>2. CASE Answer(u)
    BY <1>3, <2>2 DEF Answer
  <2>3. QED
    BY <1>2, <1>10, <2>1, <2>2
       DEF Request, Handler, RefuseClosed, RejectWorkbook, TimeOut, Arrive
<1>11. QED
  BY <1>2, <1>3, <1>4, <1>5, <1>6, <1>10
     DEF Next, Process, AttachStore, Hydrate, Tick,
         Queue, ExecuteWrite, RejectWrite, LoseAcknowledgement, NextIsWrite
-----------------------------------------------------------------------------
(* What a step does to memory.                                             *)

\* Memory stands, or is a new process's, or is read back, or takes in a request.
LEMMA MemoryStep ==
    ASSUME IInv, Next
    PROVE  \/ UNCHANGED held
           \/ Crash
           \/ \E k \in 0..HydrateSteps : Hydrate(k)
           \/ \E u \in Uploads : IngestWorkbook(u) \/ IngestDocument(u)
BY DEF Next, Process, Boot, BootWithoutStore, SeedMemory, AttachStore, Tick, memory,
       Queue, ExecuteWrite, RejectWrite, LoseAcknowledgement, RecordUse,
       Request, Handler, RefuseClosed, RegisterWorkbook, RejectWorkbook,
       RejectDocument, Answer, TimeOut, Arrive

\* A process opens only when it has read everything, and then with nothing queued.
LEMMA OpensHydrated ==
    ASSUME IInv, Next, mode' = "open", mode # "open"
    PROVE  Hydrate(HydrateSteps) /\ queue = <<>> /\ queue' = <<>> /\ UNCHANGED disk
<1>1. PICK k \in 0..HydrateSteps : Hydrate(k)
  BY DEF Next, Process, Boot, BootWithoutStore, AttachStore, Crash, Tick,
         Queue, ExecuteWrite, RejectWrite, LoseAcknowledgement, RecordUse,
         Request, Handler, RefuseClosed, RegisterWorkbook, IngestWorkbook, RejectWorkbook,
         IngestDocument, RejectDocument, Answer, TimeOut, Arrive
<1>2. k = HydrateSteps
  BY <1>1 DEF Hydrate
<1>3. QED
  BY <1>1, <1>2 DEF Hydrate, IInv, QueueByMode

\* What an open process holds it goes on holding while it is open.
LEMMA HeldStays ==
    ASSUME IInv, Next, mode = "open", mode' = "open", NEW x \in Held, held[x] > 0
    PROVE  held'[x] > 0
<1>1. held \in [Held -> Nat]
  BY DEF IInv, TypeOK
<1>2. CASE UNCHANGED held
  BY <1>2
<1>3. CASE Crash \/ \E k \in 0..HydrateSteps : Hydrate(k)
  BY <1>3 DEF Crash, Hydrate
<1>4. ASSUME NEW u \in Uploads, IngestWorkbook(u) \/ IngestDocument(u)
      PROVE  held'[x] > 0
  <2>1. held'[x] = 1 \/ held'[x] = held[x] + 1 \/ held'[x] = held[x]
    BY <1>4, IngestIs DEF Added
  <2>2. QED
    BY <1>1, <2>1
<1>5. QED
  BY <1>2, <1>3, <1>4, MemoryStep

\* Content that reaches the store in a step was in it or at the head of the queue.
LEMMA ItemsFrom ==
    ASSUME IInv, Next, NEW x \in dItems', x \notin dItems
    PROVE  /\ 1 \in 1..Len(queue) /\ queue[1] \in Writes
           /\ queue[1].part \in ContentParts /\ x = Content(queue[1])
<1>1. ~ UNCHANGED disk
  BY DEF disk
<1>2. Len(queue) >= 1 /\ queue[1] \in Writes /\ Store(queue[1])
  BY <1>1, StoreFrom
<1>3. Len(queue) \in Nat
  BY DEF IInv, TypeOK
<1>4. queue[1].part \in ContentParts /\ x = Content(queue[1])
  BY <1>2 DEF Store, Content
<1>5. QED
  BY <1>2, <1>3, <1>4

LEMMA MemoryIsAheadStep ==
    ASSUME SInv, Next
    PROVE  MemoryIsAhead'
<1> SUFFICES ASSUME mode' = "open"
             PROVE  /\ \A x \in Held : x \in dItems' => held'[x] > 0
                    /\ \A k \in 1..Len(queue') :
                          queue'[k].part \in MemoryParts => held'[Content(queue'[k])] > 0
  BY DEF MemoryIsAhead
<1>1. IInv /\ TypeOK /\ TypeOK' /\ queue \in Seq(Writes) /\ held \in [Held -> Nat]
  BY StepTypes DEF SInv, IInv, TypeOK
<1>2. CASE mode # "open"
  <2>1. /\ Hydrate(HydrateSteps) /\ queue' = <<>> /\ dItems' = dItems
    BY <1>1, <1>2, OpensHydrated DEF disk
  <2>2. ASSUME NEW x \in Held, x \in dItems' PROVE held'[x] > 0
    <3>1. x.part \in MemoryParts /\ held[x] \in Nat
      BY <1>1, <2>2 DEF Held
    <3>2. held'[x] = IF x.part = "version" THEN 1 ELSE held[x] + 1
      BY <2>1, <2>2, <3>1 DEF Hydrate, ReadBack, HydrateSteps, MemoryParts
    <3>3. QED
      BY <3>1, <3>2
  <2>3. QED
    BY <2>1, <2>2
<1>3. CASE mode = "open"
  <2>1. /\ \A x \in Held : x \in dItems => held[x] > 0
        /\ \A k \in 1..Len(queue) :
              queue[k].part \in MemoryParts => held[Content(queue[k])] > 0
    BY <1>3 DEF SInv, MemoryIsAhead
  <2>2. \A x \in Held : held[x] > 0 => held'[x] > 0
    BY <1>1, <1>3, HeldStays
  <2>3. ASSUME NEW x \in Held, x \in dItems' PROVE held[x] > 0
    <3>1. CASE x \in dItems
      BY <2>1, <3>1
    <3>2. CASE x \notin dItems
      <4>1. /\ 1 \in 1..Len(queue) /\ queue[1] \in Writes /\ x = Content(queue[1])
        BY <1>1, <2>3, <3>2, ItemsFrom
      <4>2. queue[1].part \in MemoryParts
        BY <4>1, ContentIs DEF Held
      <4>3. QED
        BY <2>1, <4>1, <4>2
    <3>3. QED
      BY <3>1, <3>2
  <2>4. ASSUME NEW k \in 1..Len(queue'), queue'[k].part \in MemoryParts
        PROVE  held'[Content(queue'[k])] > 0
    <3>1. CASE Backed(queue'[k])
      BY <2>4, <3>1, HeldIs DEF Backed
    <3>2. CASE Kept(queue'[k])
      <4>1. PICK i \in 1..Len(queue) : queue'[k] = queue[i]
        BY <3>2 DEF Kept
      <4>2. queue[i] \in Writes
        BY <1>1
      <4>3. Content(queue[i]) \in Held /\ held[Content(queue[i])] > 0
        BY <2>1, <2>4, <4>1, <4>2, ContentIs
      <4>4. QED
        BY <2>2, <4>1, <4>3
    <3>3. QED
      BY <1>1, <3>1, <3>2, QueueIsBacked
  <2>5. QED
    BY <2>2, <2>3, <2>4
<1>4. QED
  BY <1>2, <1>3

LEMMA ContentWasSentStep ==
    ASSUME SInv, Next
    PROVE  ContentWasSent'
<1>1. IInv /\ TypeOK /\ queue \in Seq(Writes) /\ held \in [Held -> Nat]
  BY DEF SInv, IInv, TypeOK
<1>2. /\ \A x \in dItems : Senders(x) # {}
      /\ \A k \in 1..Len(queue) :
            queue[k].part \in ContentParts => Senders(Content(queue[k])) # {}
      /\ mode \in {"down", "draining", "hydrating"} => held = [x \in Held |-> 0]
      /\ IsFiniteSet({u \in Uploads : phase[u] # "idle"})
  BY DEF SInv, ContentWasSent
<1>3. ASSUME NEW x, Senders(x) # {} PROVE Senders(x)' # {}
  BY <1>1, <1>3, SendersStay
<1>4. ASSUME NEW x \in dItems' PROVE Senders(x)' # {}
  <2>1. Senders(x) # {}
    <3>1. CASE x \in dItems
      BY <1>2, <3>1
    <3>2. CASE x \notin dItems
      BY <1>1, <1>2, <1>4, <3>2, ItemsFrom
    <3>3. QED
      BY <3>1, <3>2
  <2>2. QED
    BY <1>3, <2>1
<1>5. ASSUME NEW k \in 1..Len(queue'), queue'[k].part \in ContentParts
      PROVE  Senders(Content(queue[k]))' # {}
  <2>1. CASE Kept(queue'[k])
    <3>1. PICK i \in 1..Len(queue) : queue'[k] = queue[i]
      BY <2>1 DEF Kept
    <3>2. PICK x : x = Content(queue[i])
      OBVIOUS
    <3>3. Senders(x) # {}
      BY <1>2, <1>5, <3>1, <3>2
    <3>4. Senders(x)' # {}
      BY <1>3, <3>3
    <3>5. QED
      BY <3>1, <3>2, <3>4 DEF Content, Senders
  <2>2. CASE Backed(queue'[k])
    <3>1. PICK u \in Uploads : /\ phase'[u] = "flushing" /\ queue'[k].part \in PartSet(u)
                               /\ queue'[k].source = sourceOf'[u] /\ queue'[k].file = fileOf'[u]
      BY <1>5, <2>2 DEF Backed
    <3>2. u \in Senders(Content(queue[k]))'
      BY <3>1 DEF Senders, Content, UploadItems
    <3>3. QED
      BY <3>2
  <2>3. QED
    BY <1>1, <2>1, <2>2, QueueIsBacked
<1>6. ASSUME mode' \in {"down", "draining", "hydrating"} PROVE held' = [x \in Held |-> 0]
  <2>1. CASE Crash
    BY <2>1 DEF Crash
  <2>2. ASSUME NEW k \in 0..HydrateSteps, Hydrate(k) PROVE FALSE
    BY <1>6, <2>2 DEF Hydrate
  <2>3. ASSUME NEW u \in Uploads, IngestWorkbook(u) \/ IngestDocument(u) PROVE FALSE
    BY <1>1, <1>6, <2>3, IngestIs
  <2>4. CASE UNCHANGED held /\ ~ Crash
    <3>1. mode \in {"down", "draining", "hydrating"}
      BY <1>1, <1>6, <2>2, <2>4
         DEF Next, Process, Boot, BootWithoutStore, AttachStore, Tick,
             Queue, ExecuteWrite, RejectWrite, LoseAcknowledgement, RecordUse,
             Request, Handler, RefuseClosed, RegisterWorkbook, IngestWorkbook, RejectWorkbook,
             IngestDocument, RejectDocument, Answer, TimeOut, Arrive
    <3>2. QED
      BY <1>2, <2>4, <3>1
  <2>5. QED
    BY <1>1, <2>1, <2>2, <2>3, <2>4, MemoryStep
<1>7. IsFiniteSet({u \in Uploads : phase'[u] # "idle"})
  BY <1>1, <1>2, ArrivalsAreFinite
<1>8. QED
  BY <1>4, <1>5, <1>6, <1>7 DEF ContentWasSent

\* No step makes more copies of an item than there are senders of it.
LEMMA NoDoubledStep ==
    ASSUME SInv, Next
    PROVE  NoDoubledContent'
<1>1. IInv /\ TypeOK /\ held \in [Held -> Nat]
  BY DEF SInv, IInv, TypeOK
<1>2. SUFFICES ASSUME NEW x \in Held PROVE held'[x] <= Cardinality(Senders(x)')
  BY DEF NoDoubledContent
<1>3. /\ IsFiniteSet(Senders(x)) /\ Cardinality(Senders(x)) \in Nat
      /\ IsFiniteSet(Senders(x)') /\ Cardinality(Senders(x)') \in Nat
  <2>1. IsFiniteSet({u \in Uploads : phase'[u] # "idle"})
    BY ContentWasSentStep DEF ContentWasSent
  <2>2. Senders(x)' \subseteq {u \in Uploads : phase'[u] # "idle"}
    BY DEF Senders
  <2>3. IsFiniteSet(Senders(x)') /\ Cardinality(Senders(x)') \in Nat
    BY <2>1, <2>2, FS_Subset, FS_CardinalityType
  <2>4. QED
    BY <2>3, SendersAreCounted DEF SInv, ContentWasSent
<1>4. Senders(x) \subseteq Senders(x)' /\ Cardinality(Senders(x)) <= Cardinality(Senders(x)')
  <2>1. Senders(x) \subseteq Senders(x)'
    BY <1>1, SendersStay
  <2>2. QED
    BY <1>3, <2>1, FS_Subset
<1>5. held[x] \in Nat /\ held[x] <= Cardinality(Senders(x))
  BY <1>1 DEF SInv, NoDoubledContent
<1>6. CASE UNCHANGED held
  BY <1>3, <1>4, <1>5, <1>6
<1>7. CASE Crash
  BY <1>3, <1>7 DEF Crash
<1>8. ASSUME NEW k \in 0..HydrateSteps, Hydrate(k)
      PROVE  held'[x] <= Cardinality(Senders(x)')
  <2>1. held[x] = 0
    BY <1>8 DEF Hydrate, SInv, ContentWasSent
  <2>2. CASE x \notin dItems
    <3>1. held'[x] = 0
      BY <1>8, <2>1, <2>2 DEF Hydrate, ReadBack
    <3>2. QED
      BY <1>3, <3>1
  <2>3. CASE x \in dItems
    <3>1. held'[x] = 0 \/ held'[x] = 1
      BY <1>8, <2>1 DEF Hydrate, ReadBack
    <3>2. Senders(x) # {}
      BY <2>3 DEF SInv, ContentWasSent
    <3>3. Cardinality(Senders(x)) # 0
      BY <1>3, <3>2, FS_EmptySet
    <3>4. QED
      BY <1>3, <1>4, <3>1, <3>3
  <2>4. QED
    BY <2>2, <2>3
<1>9. ASSUME NEW u \in Uploads, IngestWorkbook(u) \/ IngestDocument(u)
      PROVE  held'[x] <= Cardinality(Senders(x)')
  <2>1. /\ phase[u] \notin Sent /\ phase'[u] = "flushing"
        /\ held' = Added(held, u, sourceOf'[u], fileOf[u]) /\ fileOf' = fileOf
    BY <1>1, <1>9, IngestIs DEF TypeOK
  <2>2. CASE x.part \in PartSet(u) /\ x.source = sourceOf'[u] /\ x.file = fileOf[u]
    <3>1. held'[x] <= held[x] + 1
      <4>1. held'[x] = IF x.part = "version" THEN 1 ELSE held[x] + 1
        BY <2>1, <2>2 DEF Added
      <4>2. QED
        BY <1>5, <4>1
    <3>2. u \notin Senders(x)
      BY <2>1 DEF Senders, Sent
    <3>3. u \in Senders(x)'
      <4>1. x = ItemOf(x.part, sourceOf'[u], fileOf'[u])
        BY <2>1, <2>2 DEF Held, ItemOf
      <4>2. QED
        BY <2>1, <2>2, <4>1 DEF Senders, UploadItems
    <3>4. Cardinality(Senders(x) \cup {u}) = Cardinality(Senders(x)) + 1
      BY <1>3, <3>2, FS_AddElement
    <3>5. Cardinality(Senders(x) \cup {u}) <= Cardinality(Senders(x)')
      BY <1>3, <1>4, <3>3, FS_Subset
    <3>6. held'[x] \in Nat
      BY <1>5, <2>1 DEF Added
    <3>7. QED
      BY <1>3, <1>5, <3>1, <3>4, <3>5, <3>6
  <2>3. CASE ~(x.part \in PartSet(u) /\ x.source = sourceOf'[u] /\ x.file = fileOf[u])
    <3>1. held'[x] = held[x]
      BY <2>1, <2>3 DEF Added
    <3>2. QED
      BY <1>3, <1>4, <1>5, <3>1
  <2>4. QED
    BY <2>2, <2>3
<1>10. QED
  BY <1>1, <1>6, <1>7, <1>8, <1>9, MemoryStep
-----------------------------------------------------------------------------
(* The invariant, and what it is for.                                      *)

LEMMA SInvInit == Init => SInv
<1> SUFFICES ASSUME Init PROVE SInv
  OBVIOUS
<1>1. IInv
  BY InitInv
<1>2. /\ mode = "down" /\ queue = <<>> /\ dItems = {} /\ held = [x \in Held |-> 0]
      /\ phase = [u \in Uploads |-> "idle"]
  BY DEF Init
<1>3. {u \in Uploads : phase[u] # "idle"} = {}
  BY <1>2
<1>4. IsFiniteSet({u \in Uploads : phase[u] # "idle"})
  BY <1>3, FS_EmptySet
<1>5. MemoryIsAhead /\ ContentWasSent
  BY <1>2, <1>4 DEF MemoryIsAhead, ContentWasSent
<1>6. NoDoubledContent
  BY <1>2, <1>4, SendersAreCounted DEF NoDoubledContent
<1>7. QED
  BY <1>1, <1>5, <1>6 DEF SInv

LEMMA SInvStep == SInv /\ [Next]_vars => SInv'
<1> SUFFICES ASSUME SInv, [Next]_vars PROVE SInv'
  OBVIOUS
<1>1. IInv'
  BY StepInv DEF SInv
<1>2. CASE Next
  BY <1>1, <1>2, MemoryIsAheadStep, ContentWasSentStep, NoDoubledStep DEF SInv
<1>3. CASE UNCHANGED vars
  <2>1. UNCHANGED <<mode, held, queue, dItems, phase, sourceOf, fileOf>>
    BY <1>3 DEF vars, memory, disk, requests
  <2>2. \A x : Senders(x)' = Senders(x)
    BY <2>1 DEF Senders, UploadItems
  <2>3. MemoryIsAhead'
    BY <2>1 DEF SInv, MemoryIsAhead, Content
  <2>4. ContentWasSent'
    BY <2>1 DEF SInv, ContentWasSent, Content, Senders, UploadItems
  <2>5. NoDoubledContent'
    BY <2>1, <2>2 DEF SInv, NoDoubledContent
  <2>6. QED
    BY <1>1, <2>3, <2>4, <2>5 DEF SInv
<1>4. QED
  BY <1>2, <1>3

\* Between memory, queue and store: an open process holds what is stored or queued,
\* and whatever is held, queued or stored was sent by a request that arrived.
THEOREM InductiveServed == Spec => []SInv
<1>1. QED
  BY SInvInit, SInvStep, PTL DEF Spec

\* Whatever some process committed, a process that serves accounts for: receipt,
\* content and verdict, after any number of crashes and restarts.
THEOREM Served == Spec => []CommittedIsServed
<1>1. SInv => CommittedIsServed
  <2> SUFFICES ASSUME SInv, NEW u \in Uploads, phase[u] = "committed", mode = "open"
               PROVE  /\ u \in receipts[sourceOf[u]]
                      /\ \A x \in UploadItems(u) : x.part \in MemoryParts => held[x] > 0
                      /\ Verdict(sourceOf[u]) \in {"INGESTED_NOT_USED", "GROUNDED"}
    BY DEF CommittedIsServed
  <2>1. IsDurable(u) /\ sourceOf[u] \in Sources /\ fileOf[u] \in Files
    BY DEF SInv, IInv, CommittedIsDurable, TypeOK
  <2>2. u \in receipts[sourceOf[u]]
    BY <2>1 DEF SInv, IInv, SnapshotsGrow, IsDurable
  <2>3. ASSUME NEW x \in UploadItems(u), x.part \in MemoryParts PROVE held[x] > 0
    <3>1. x \in Held /\ x \in dItems
      BY <2>1, <2>3 DEF IsDurable, UploadItems, ItemOf, Held
    <3>2. QED
      BY <3>1 DEF SInv, MemoryIsAhead
  <2>4. receipts[sourceOf[u]] # {}
    BY <2>2
  <2>5. Verdict(sourceOf[u]) \in {"INGESTED_NOT_USED", "GROUNDED"}
    BY <2>4 DEF Verdict, LegacyIncomplete
  <2>6. QED
    BY <2>2, <2>3, <2>5
<1>2. QED
  BY <1>1, InductiveServed, PTL

\* However often processes die and read back, memory holds no item more often than
\* requests sent it.
THEOREM NothingIsDoubled == Spec => []NoDoubledContent
<1>1. SInv => NoDoubledContent
  BY DEF SInv
<1>2. QED
  BY <1>1, InductiveServed, PTL
=============================================================================
