--------------------------- MODULE DurableRegistry ---------------------------
(***************************************************************************)
(* One runtime process, the source registry it keeps in memory, the serial *)
(* queue of durable writes behind it, and the store those writes reach.    *)
(*                                                                         *)
(* The registry's methods are synchronous: each changes memory at once and *)
(* queues what must become durable.  A write runs only when the one before *)
(* it has settled, and a failed write is remembered, not thrown.  An       *)
(* upload route queues its writes, waits for the queue (`flush`) and       *)
(* answers with a receipt only when no failure was remembered.  A process  *)
(* may die at any step; the next one rebuilds the deterministic seed,      *)
(* attaches the store and reads back what the store holds.                 *)
(*                                                                         *)
(* A file is a model value.  What an upload leaves in the store is its     *)
(* receipt, inside the source's one document, and one item per part: the   *)
(* observations and staged rows of a workbook, the version and the current *)
(* pointer of a document, the original bytes of both.                      *)
(*                                                                         *)
(* Assumed of the files: two different files sent to one source have no    *)
(* record key in common (a workbook's keys name project, concept, period   *)
(* and mapping, a document's its title), so neither overwrites the other's *)
(* items, and one document's current pointer is not the other's.           *)
(***************************************************************************)
EXTENDS Integers, Sequences, FiniteSets

CONSTANTS
    Uploads,      \* the upload requests clients send
    Workbooks,    \* those sent to /api/ingest/structured; the others are documents
    Files,        \* file contents; a retry is an upload of the same file
    Seed,         \* the writer of the seed
    Asker,        \* the writer of `recordUse`, behind any question answered
    LastMs,       \* bound: readings of the wall clock
    MaxCrashes,   \* bound: how many processes die
    MaxQueued     \* bound: questions stop recording uses above this queue length

ASSUME ConstantsAssumption ==
    /\ Workbooks \subseteq Uploads
    /\ Files # {}
    /\ Seed \notin Uploads
    /\ Asker \notin Uploads \cup {Seed}
    /\ LastMs \in Nat \ {0}
    /\ MaxCrashes \in Nat
    /\ MaxQueued \in Nat

Kinds == {"FILE_UPLOAD", "DOCUMENT"}

\* `src-upload-<ms>` and `src-doc-<ms>`: the routes name a source by the clock.
\* The seed registers the canonical portfolio and the connectors, as one source.
SeedSource == <<"CANONICAL", 0>>
Sources == {SeedSource} \cup (Kinds \X (1..LastMs))

Writers == Uploads \cup {Seed, Asker}

\* What stands where no file is carried.
Blank == CHOOSE f \in Files : TRUE

\* What a write puts: the source document, one part of an upload's content, a
\* use, or nothing: "flush" is where a caller of flush() waits in the queue.
ContentParts == {"observations", "staged", "version", "current", "original"}
MemoryParts == {"observations", "staged", "version"}
Parts == ContentParts \cup {"source", "use", "flush"}

Items == [part: ContentParts, source: Sources, file: Files]
Held == [part: MemoryParts, source: Sources, file: Files]
Writes == [part: Parts, source: Sources, file: Files,
           receipts: SUBSET Writers, by: Writers]

PartsOf(u) == IF u \in Workbooks THEN <<"observations", "staged", "original">>
                                 ELSE <<"version", "current", "original">>
PartSet(u) == IF u \in Workbooks THEN {"observations", "staged", "original"}
                                 ELSE {"version", "current", "original"}
KindOf(u) == IF u \in Workbooks THEN "FILE_UPLOAD" ELSE "DOCUMENT"

VARIABLES
    mode,        \* where the process is: down, draining, hydrating, open, closed
    stores,      \* `#stores`: the in-memory store, or the durable one
    clock,       \* what Date.now() reads
    crashes,
    sources,     \* memory: the sources registered
    receipts,    \* memory: the receipts each source holds
    held,        \* memory: how many copies of an item the registry holds
    uses,        \* memory: the sources some retrieval informed
    queue,       \* the promise chain `#tail`, as the writes not yet settled
    failures,    \* `#failures`, as the writers whose writes failed
    dSources, dReceipts, dItems, dUses,   \* the durable store
    phase,       \* where each upload's handler is
    sourceOf,    \* the source id it took
    fileOf,      \* the file it carries
    told         \* what its client was answered

memory == <<sources, receipts, held, uses>>
disk == <<dSources, dReceipts, dItems, dUses>>
requests == <<phase, sourceOf, fileOf, told>>
vars == <<mode, stores, clock, crashes, memory, queue, failures, disk, requests>>

Modes == {"down", "draining", "hydrating", "open", "closed"}
Phases == {"idle", "waiting", "registered", "flushing",
           "committed", "not_committed", "unreadable", "closed", "lost"}
Running == {"waiting", "registered", "flushing"}
Finished == {"committed", "not_committed", "unreadable", "closed", "lost"}
Answers == {"none", "receipt", "not_committed", "unreadable", "internal_error",
            "ingestion_unavailable", "timeout", "dropped"}

\* Every variable stays within its kind of value.
TypeOK ==
    /\ mode \in Modes
    /\ stores \in {"memory", "durable"}
    /\ clock \in 1..LastMs
    /\ crashes \in 0..MaxCrashes
    /\ sources \subseteq Sources
    /\ receipts \in [Sources -> SUBSET Writers]
    /\ held \in [Held -> Nat]
    /\ uses \subseteq Sources
    /\ queue \in Seq(Writes)
    /\ failures \subseteq Writers
    /\ dSources \subseteq Sources
    /\ dReceipts \in [Sources -> SUBSET Writers]
    /\ dItems \subseteq Items
    /\ dUses \subseteq Sources
    /\ phase \in [Uploads -> Phases]
    /\ sourceOf \in [Uploads -> Sources]
    /\ fileOf \in [Uploads -> Files]
    /\ told \in [Uploads -> Answers]
-----------------------------------------------------------------------------
(* Writes and the queue.                                                   *)

ItemOf(p, s, f) == [part |-> p, source |-> s, file |-> f]
PutSource(s, rs, u) == [part |-> "source", source |-> s, file |-> Blank,
                        receipts |-> rs, by |-> u]
PutItem(p, s, f, u) == [part |-> p, source |-> s, file |-> f,
                        receipts |-> {}, by |-> u]
PutUse(s) == [part |-> "use", source |-> s, file |-> Blank,
              receipts |-> {}, by |-> Asker]
Flush(u) == [part |-> "flush", source |-> SeedSource, file |-> Blank,
             receipts |-> {}, by |-> u]

\* Mutant: the route waits before it has queued the original bytes.
BatchFlushedEarly(u, s, rs, f) ==
    << PutSource(s, rs, u),
       PutItem(PartsOf(u)[1], s, f, u),
       PutItem(PartsOf(u)[2], s, f, u),
       Flush(u),
       PutItem(PartsOf(u)[3], s, f, u) >>

\* The writes of addReceipt, addObservations and addStaged (or indexDocument),
\* and retainOriginal, which a route queues in one synchronous stretch, and
\* the flush() it then awaits.
Batch(u, s, rs, f) ==
    << PutSource(s, rs, u),
       PutItem(PartsOf(u)[1], s, f, u),
       PutItem(PartsOf(u)[2], s, f, u),
       PutItem(PartsOf(u)[3], s, f, u),
       Flush(u) >>

\* The effect of a write on the durable store: a document is replaced whole.
Store(w) ==
    /\ dSources' = IF w.part = "source" THEN dSources \cup {w.source} ELSE dSources
    /\ dReceipts' = IF w.part = "source"
                    THEN [dReceipts EXCEPT ![w.source] = w.receipts] ELSE dReceipts
    /\ dItems' = IF w.part \in ContentParts
                 THEN dItems \cup {ItemOf(w.part, w.source, w.file)} ELSE dItems
    /\ dUses' = IF w.part = "use" THEN dUses \cup {w.source} ELSE dUses

\* The in-memory content an ingestion adds: rows are appended, a version is
\* indexed once however often it is added.
Added(h, u, s, f) ==
    [x \in Held |->
        IF x.part \in PartSet(u) /\ x.source = s /\ x.file = f
        THEN IF x.part = "version" THEN 1 ELSE h[x] + 1
        ELSE h[x]]

\* Mutant: the handler's own progress is sent as the answer.
TellProgress(u, answer) == IF told[u] = "none" THEN [told EXCEPT ![u] = phase[u]] ELSE told

\* Promise.race has already answered a client whose request timed out.
Tell(u, answer) == IF told[u] = "none" THEN [told EXCEPT ![u] = answer] ELSE told
-----------------------------------------------------------------------------
(* The process: seed, drain, attach, hydrate, serve, die.                  *)

Init ==
    /\ mode = "down" /\ stores = "memory"
    /\ clock = 1 /\ crashes = 0
    /\ sources = {} /\ receipts = [s \in Sources |-> {}]
    /\ held = [x \in Held |-> 0] /\ uses = {}
    /\ queue = <<>> /\ failures = {}
    /\ dSources = {} /\ dReceipts = [s \in Sources |-> {}]
    /\ dItems = {} /\ dUses = {}
    /\ phase = [u \in Uploads |-> "idle"]
    /\ sourceOf = [u \in Uploads |-> SeedSource]
    /\ fileOf = [u \in Uploads |-> Blank]
    /\ told = [u \in Uploads |-> "none"]

SeedWrites == << PutSource(SeedSource, {}, Seed) >>

\* The canonical source and the connectors, registered again on every start.
SeedMemory ==
    /\ sources' = {SeedSource}
    /\ UNCHANGED <<receipts, held>>

\* The first request that needs the registry builds it, once: the seed, then
\* useDurableStores, which waits for the seed's writes before it swaps.
Boot ==
    /\ mode = "down"
    /\ mode' = "draining"
    /\ SeedMemory
    /\ queue' = Append(SeedWrites, Flush(Seed))
    /\ UNCHANGED <<stores, clock, crashes, uses, failures, disk, requests>>

\* A deployment with no durable store configured serves and accepts no upload.
BootWithoutStore ==
    /\ mode = "down"
    /\ mode' = "closed"
    /\ SeedMemory
    /\ queue' = SeedWrites
    /\ UNCHANGED <<stores, clock, crashes, uses, failures, disk, requests>>

\* Mutant: the store is swapped in without waiting for the seed's writes.
AttachUndrained ==
    /\ mode = "draining"
    /\ queue' = SelectSeq(queue, LAMBDA w : w.part # "flush")
    /\ failures' = {}
    /\ stores' = "durable"
    /\ mode' = "hydrating"
    /\ UNCHANGED <<clock, crashes, memory, disk, requests>>

\* useDurableStores, past its flush.
AttachStore ==
    /\ mode = "draining"
    /\ queue # <<>> /\ Head(queue) = Flush(Seed)
    /\ queue' = Tail(queue)
    /\ failures' = {}
    /\ stores' = "durable"
    /\ mode' = "hydrating"
    /\ UNCHANGED <<clock, crashes, memory, disk, requests>>

HydrateSteps == 5

\* What memory holds once the first k of five reads have been laid over it.
ReadBack(k) ==
    /\ sources' = IF k >= 1 THEN sources \cup dSources ELSE sources
    /\ receipts' = IF k >= 1
                   THEN [s \in Sources |-> IF s \in dSources THEN dReceipts[s]
                                                             ELSE receipts[s]]
                   ELSE receipts
    /\ held' = [x \in Held |->
                  IF /\ x \in dItems
                     /\ \/ x.part = "observations" /\ k >= 2
                        \/ x.part = "staged" /\ k >= 3
                        \/ x.part = "version" /\ k >= 5
                  THEN IF x.part = "version" THEN 1 ELSE held[x] + 1
                  ELSE held[x]]
    /\ uses' = IF k >= 4 THEN uses \cup dUses ELSE uses

\* Mutant: a process that could not read everything opens all the same.
HydrateOpensAnyway(k) ==
    /\ mode = "hydrating"
    /\ ReadBack(k)
    /\ mode' = "open"
    /\ UNCHANGED <<stores, clock, crashes, queue, failures, disk, requests>>

\* Mutant: a hydration that failed is tried again over what it had read.
HydrateAgain(k) ==
    /\ mode = "hydrating"
    /\ ReadBack(k)
    /\ mode' = IF k = HydrateSteps THEN "open" ELSE "hydrating"
    /\ UNCHANGED <<stores, clock, crashes, queue, failures, disk, requests>>

\* hydrate() reads sources, observations, staged rows, uses, and versions with
\* their current pointers, in that order.  When read k + 1 throws, what was read
\* stays and the process serves with ingestion closed.
Hydrate(k) ==
    /\ mode = "hydrating"
    /\ ReadBack(k)
    /\ mode' = IF k = HydrateSteps THEN "open" ELSE "closed"
    /\ UNCHANGED <<stores, clock, crashes, queue, failures, disk, requests>>

\* The process dies: memory and queue are gone, clients lose their connection.
Crash ==
    /\ mode # "down"
    /\ crashes < MaxCrashes
    /\ crashes' = crashes + 1
    /\ mode' = "down" /\ stores' = "memory"
    /\ sources' = {} /\ receipts' = [s \in Sources |-> {}]
    /\ held' = [x \in Held |-> 0] /\ uses' = {}
    /\ queue' = <<>> /\ failures' = {}
    /\ phase' = [u \in Uploads |->
                    IF phase[u] \in Running THEN "lost" ELSE phase[u]]
    /\ told' = [u \in Uploads |->
                   IF phase[u] \in Running /\ told[u] = "none"
                   THEN "dropped" ELSE told[u]]
    /\ UNCHANGED <<clock, disk, sourceOf, fileOf>>

Tick ==
    /\ clock < LastMs
    /\ clock' = clock + 1
    /\ UNCHANGED <<mode, stores, crashes, memory, queue, failures, disk, requests>>
-----------------------------------------------------------------------------
(* The queue: one write at a time, in the order queued.                    *)

NextIsWrite == queue # <<>> /\ Head(queue).part # "flush"

\* Mutant: writes are started together and settle in any order up to the flush.
ExecuteAny ==
    /\ \E i \in 1..Len(queue) :
          /\ \A j \in 1..i : queue[j].part # "flush"
          /\ IF stores = "durable" THEN Store(queue[i]) ELSE UNCHANGED disk
          /\ queue' = SubSeq(queue, 1, i - 1) \o SubSeq(queue, i + 1, Len(queue))
    /\ UNCHANGED <<mode, stores, clock, crashes, memory, failures, requests>>

\* The write settles: it reached whichever store `#stores` is now.
ExecuteWrite ==
    /\ NextIsWrite
    /\ IF stores = "durable" THEN Store(Head(queue)) ELSE UNCHANGED disk
    /\ queue' = Tail(queue)
    /\ UNCHANGED <<mode, stores, clock, crashes, memory, failures, requests>>

\* Mutant: the chain goes on past a rejection nobody recorded.
RejectForgotten ==
    /\ NextIsWrite /\ stores = "durable"
    /\ queue' = Tail(queue)
    /\ UNCHANGED <<mode, stores, clock, crashes, memory, failures, disk, requests>>

\* Mutant: a rejection ends the chain, and what was queued behind it never runs.
RejectEndsChain ==
    /\ NextIsWrite /\ stores = "durable"
    /\ queue' = <<>>
    /\ failures' = failures \cup {Head(queue).by}
    /\ UNCHANGED <<mode, stores, clock, crashes, memory, disk, requests>>

\* The durable store refused the write, or never received it.
RejectWrite ==
    /\ NextIsWrite /\ stores = "durable"
    /\ queue' = Tail(queue)
    /\ failures' = failures \cup {Head(queue).by}
    /\ UNCHANGED <<mode, stores, clock, crashes, memory, disk, requests>>

\* The store applied the write and its answer was lost.
LoseAcknowledgement ==
    /\ NextIsWrite /\ stores = "durable"
    /\ Store(Head(queue))
    /\ queue' = Tail(queue)
    /\ failures' = failures \cup {Head(queue).by}
    /\ UNCHANGED <<mode, stores, clock, crashes, memory, requests>>
-----------------------------------------------------------------------------
(* The ingest routes.                                                      *)

\* A request waits for the registry to be built, whichever request builds it.
Arrive(u, f) ==
    /\ phase[u] = "idle"
    /\ phase' = [phase EXCEPT ![u] = "waiting"]
    /\ fileOf' = [fileOf EXCEPT ![u] = f]
    /\ UNCHANGED <<mode, stores, clock, crashes, memory, queue, failures, disk,
                   sourceOf, told>>

RefuseClosed(u) ==
    /\ mode = "closed" /\ phase[u] = "waiting"
    /\ phase' = [phase EXCEPT ![u] = "closed"]
    /\ told' = Tell(u, "ingestion_unavailable")
    /\ UNCHANGED <<mode, stores, clock, crashes, memory, queue, failures, disk,
                   sourceOf, fileOf>>

\* register(): a source already known keeps the receipts it holds.
Accept(u) ==
    /\ mode = "open" /\ phase[u] = "waiting"
    /\ sourceOf' = [sourceOf EXCEPT ![u] = <<KindOf(u), clock>>]
    /\ sources' = sources \cup {<<KindOf(u), clock>>}

\* Mutant: registering a known source forgets the receipts it held.
RegisterAfresh(u) ==
    /\ u \in Workbooks
    /\ Accept(u)
    /\ LET s == <<KindOf(u), clock>>
       IN  /\ receipts' = [receipts EXCEPT ![s] = {}]
           /\ queue' = Append(queue, PutSource(s, {}, u))
    /\ phase' = [phase EXCEPT ![u] = "registered"]
    /\ UNCHANGED <<mode, stores, clock, crashes, held, uses, failures,
                   disk, fileOf, told>>

\* The structured route registers, then awaits the identity hub.
RegisterWorkbook(u) ==
    /\ u \in Workbooks
    /\ Accept(u)
    /\ LET s == <<KindOf(u), clock>>
       IN  queue' = Append(queue, PutSource(s, receipts[s], u))
    /\ phase' = [phase EXCEPT ![u] = "registered"]
    /\ UNCHANGED <<mode, stores, clock, crashes, receipts, held, uses, failures,
                   disk, fileOf, told>>

\* ...and, resumed, ingests, queues the batch and waits in flush().
IngestWorkbook(u) ==
    LET s == sourceOf[u]
        rs == receipts[s] \cup {u}
    IN  /\ phase[u] = "registered"
        /\ receipts' = [receipts EXCEPT ![s] = rs]
        /\ held' = Added(held, u, s, fileOf[u])
        /\ queue' = queue \o Batch(u, s, rs, fileOf[u])
        /\ phase' = [phase EXCEPT ![u] = "flushing"]
        /\ UNCHANGED <<mode, stores, clock, crashes, sources, uses, failures,
                       disk, sourceOf, fileOf, told>>

\* ...or finds the file unreadable and answers 422: the source stays registered.
RejectWorkbook(u) ==
    /\ phase[u] = "registered"
    /\ phase' = [phase EXCEPT ![u] = "unreadable"]
    /\ told' = Tell(u, "unreadable")
    /\ UNCHANGED <<mode, stores, clock, crashes, memory, queue, failures, disk,
                   sourceOf, fileOf>>

\* The document route does all of it without yielding before flush().
IngestDocument(u) ==
    LET s == <<KindOf(u), clock>>
        rs == receipts[s] \cup {u}
    IN  /\ u \notin Workbooks
        /\ Accept(u)
        /\ receipts' = [receipts EXCEPT ![s] = rs]
        /\ held' = Added(held, u, s, fileOf[u])
        /\ queue' = Append(queue, PutSource(s, receipts[s], u))
                       \o Batch(u, s, rs, fileOf[u])
        /\ phase' = [phase EXCEPT ![u] = "flushing"]
        /\ UNCHANGED <<mode, stores, clock, crashes, uses, failures, disk,
                       fileOf, told>>

\* ingestDocument throws on a file it cannot read, and nothing on this route
\* catches it: the runtime answers 500, and the source stays registered.
RejectDocument(u) ==
    /\ u \notin Workbooks
    /\ Accept(u)
    /\ LET s == <<KindOf(u), clock>>
       IN  queue' = Append(queue, PutSource(s, receipts[s], u))
    /\ phase' = [phase EXCEPT ![u] = "unreadable"]
    /\ told' = Tell(u, "internal_error")
    /\ UNCHANGED <<mode, stores, clock, crashes, receipts, held, uses, failures,
                   disk, fileOf>>

\* Mutant: the receipt is returned whatever flush() reports.
AnswerRegardless(u) ==
    /\ queue # <<>> /\ Head(queue) = Flush(u)
    /\ queue' = Tail(queue)
    /\ failures' = {}
    /\ phase' = [phase EXCEPT ![u] = "committed"]
    /\ told' = Tell(u, "receipt")
    /\ UNCHANGED <<mode, stores, clock, crashes, memory, disk, sourceOf, fileOf>>

\* flush() resumes when everything queued before it has settled, takes every
\* failure remembered so far, whoever's it is, and forgets them.
Answer(u) ==
    /\ queue # <<>> /\ Head(queue) = Flush(u)
    /\ queue' = Tail(queue)
    /\ failures' = {}
    /\ phase' = [phase EXCEPT ![u] =
                    IF failures = {} THEN "committed" ELSE "not_committed"]
    /\ told' = Tell(u, IF failures = {} THEN "receipt" ELSE "not_committed")
    /\ UNCHANGED <<mode, stores, clock, crashes, memory, disk, sourceOf, fileOf>>

\* The runtime answers 504; the handler is not cancelled.
TimeOut(u) ==
    /\ phase[u] \in Running
    /\ told[u] = "none"
    /\ told' = [told EXCEPT ![u] = "timeout"]
    /\ UNCHANGED <<mode, stores, clock, crashes, memory, queue, failures, disk,
                   phase, sourceOf, fileOf>>
-----------------------------------------------------------------------------
(* What the registry says of its sources.                                  *)

HasContent(s) == \E x \in Held : x.source = s /\ held[x] > 0
HasVersion(s) == \E x \in Held : x.source = s /\ x.part = "version" /\ held[x] > 0

\* Content without a receipt: excluded from retrieval and from conflicts.
LegacyIncomplete(s) == s \in sources /\ receipts[s] = {} /\ HasContent(s)

\* The sources whose observations conflict detection compares.
ConflictParticipants ==
    {s \in Sources : /\ \E x \in Held : /\ x.source = s /\ x.part = "observations"
                                        /\ held[x] > 0
                     /\ ~ LegacyIncomplete(s)}

\* Reachability is a matter of a document's association, which is not modelled
\* here: every version and every accepted row counts as reachable.
Verdict(s) ==
    IF LegacyIncomplete(s) THEN "LEGACY_INCOMPLETE"
    ELSE IF receipts[s] = {} /\ ~ HasVersion(s) THEN "NOT_INGESTED"
    ELSE IF s \in uses THEN "GROUNDED" ELSE "INGESTED_NOT_USED"

\* A question is answered from a retrieved document.  The two uses recorded,
\* under the version and under its source, are one write here; nobody flushes it.
RecordUse(s) ==
    /\ mode \in {"open", "closed"}
    /\ HasVersion(s) /\ ~ LegacyIncomplete(s)
    /\ Len(queue) < MaxQueued
    /\ uses' = uses \cup {s}
    /\ queue' = Append(queue, PutUse(s))
    /\ UNCHANGED <<mode, stores, clock, crashes, sources, receipts, held,
                   failures, disk, requests>>
-----------------------------------------------------------------------------
Process == Boot \/ BootWithoutStore \/ AttachStore
           \/ (\E k \in 0..HydrateSteps : Hydrate(k))
           \/ Crash \/ Tick
Queue == ExecuteWrite \/ RejectWrite \/ LoseAcknowledgement
Handler(u) == \/ RefuseClosed(u)
              \/ RegisterWorkbook(u) \/ IngestWorkbook(u) \/ RejectWorkbook(u)
              \/ IngestDocument(u) \/ RejectDocument(u)
              \/ Answer(u)
Request(u) == Handler(u) \/ TimeOut(u) \/ (\E f \in Files : Arrive(u, f))
Next == \/ Process \/ Queue
        \/ (\E u \in Uploads : Request(u))
        \/ (\E s \in Sources : RecordUse(s))

Spec == Init /\ [][Next]_vars

\* A store call settles within its budget, a handler that can run runs, a request
\* that waits gets the registry built, and a build once begun goes on.  Nothing
\* obliges a client to upload or ask, the clock to advance, or a process to die.
FairSpec ==
    /\ Spec
    /\ WF_vars(Queue)
    /\ WF_vars(/\ \E u \in Uploads : phase[u] = "waiting"
               /\ Boot \/ BootWithoutStore)
    /\ WF_vars(AttachStore)
    /\ WF_vars(\E k \in 0..HydrateSteps : Hydrate(k))
    /\ \A u \in Uploads : WF_vars(Handler(u))
-----------------------------------------------------------------------------
(* Properties.                                                             *)

UploadItems(u) == {ItemOf(p, sourceOf[u], fileOf[u]) : p \in PartSet(u)}

\* All an upload must leave behind: its receipt and every part of its content.
IsDurable(u) ==
    /\ sourceOf[u] \in dSources
    /\ u \in dReceipts[sourceOf[u]]
    /\ UploadItems(u) \subseteq dItems

\* An upload answered with a receipt is in the store, receipt and content, and
\* stays there: whatever else was queued between its own writes, whichever of
\* them failed, whoever collected the failures, and whatever died since.
CommittedIsDurable ==
    \A u \in Uploads : phase[u] = "committed" => IsDurable(u)

\* Once the process serves, an upload some process committed is ingested as far
\* as the registry can tell: its receipt is listed, every part a question needs
\* is held, and it is neither NOT_INGESTED nor LEGACY_INCOMPLETE.
CommittedIsServed ==
    \A u \in Uploads : phase[u] = "committed" /\ mode = "open" =>
        /\ u \in receipts[sourceOf[u]]
        /\ \A x \in UploadItems(u) : x.part \in MemoryParts => held[x] > 0
        /\ Verdict(sourceOf[u]) \in {"INGESTED_NOT_USED", "GROUNDED"}

\* What the seed rebuilds from code on every start never reaches the store, from
\* where every later start would read it back beside the one rebuilt.
SeedNeverDurable ==
    /\ SeedSource \notin dSources
    /\ \A x \in dItems : x.source # SeedSource

\* The uploads whose content some process took in: their file was read.
Senders(x) ==
    {u \in Uploads : /\ phase[u] \in {"flushing", "committed", "not_committed", "lost"}
                     /\ x \in UploadItems(u)}

\* No item is in memory more often than it was supplied: hydration reads back
\* what earlier processes were sent and doubles nothing.
NoDoubledContent == \A x \in Held : held[x] <= Cardinality(Senders(x))

\* A receipt once in a durable source document is never overwritten by an
\* earlier state of the same document, and content is never removed.
DurableOnlyGrows ==
    [][ /\ \A s \in Sources : dReceipts[s] \subseteq dReceipts'[s]
        /\ dItems \subseteq dItems' ]_vars

\* A request that arrived is finished with in the end, whether its registry had
\* to be built first, its writes failed, its client gave up or its process died.
EveryUploadFinishes ==
    \A u \in Uploads : phase[u] \in Running ~> phase[u] \in Finished
-----------------------------------------------------------------------------
(* The promise this keeps.                                                 *)

Saved == {u \in Uploads : IsDurable(u)}
Outcome == [u \in Uploads |->
              CASE phase[u] = "committed" -> "committed"
                [] phase[u] \in {"not_committed", "unreadable", "closed", "lost"}
                     -> "abandoned"
                [] OTHER -> "pending"]

Promise == INSTANCE UploadCommit WITH saved <- Saved, outcome <- Outcome

\* Every step of process, queue and routes is one of UploadCommit's or none.
KeepsPromise == Promise!CommitSpec
-----------------------------------------------------------------------------
(* Why it keeps it: the inductive invariant.                               *)

IsFlush(k) == queue[k].part = "flush"
Clear(j, k) == \A i \in j..(k - 1) : ~ IsFlush(i)

\* What the queue can hold in each mode of the process.
QueueByMode ==
    /\ mode = "down" => queue = <<>> /\ stores = "memory"
    /\ mode = "draining" =>
          /\ stores = "memory"
          /\ queue # <<>>
          /\ \A k \in 1..Len(queue) : IsFlush(k) <=> k = Len(queue)
          /\ queue[Len(queue)] = Flush(Seed)
    /\ mode = "hydrating" => stores = "durable" /\ queue = <<>>
    /\ mode = "closed" =>
          \/ stores = "memory" /\ \A k \in 1..Len(queue) : ~ IsFlush(k)
          \/ \A k \in 1..Len(queue) : queue[k].part = "use"
    /\ mode = "open" => stores = "durable"
    /\ \A u \in Uploads : phase[u] \in {"registered", "flushing"} => mode = "open"

\* A flush in an open process is some waiting upload's, and its only one.
FlushesAreWaitedFor ==
    mode = "open" =>
        /\ \A k \in 1..Len(queue) : IsFlush(k) =>
              \E u \in Uploads : queue[k] = Flush(u) /\ phase[u] = "flushing"
        /\ \A j, k \in 1..Len(queue) :
              IsFlush(j) /\ queue[j] = queue[k] => j = k

\* A source's document only gains receipts along the way from the store through
\* the queue, in its order, to memory.
SnapshotsGrow ==
    mode = "open" =>
        /\ \A s \in Sources : dReceipts[s] \subseteq receipts[s]
        /\ \A i \in 1..Len(queue) : queue[i].part = "source" =>
              /\ dReceipts[queue[i].source] \subseteq queue[i].receipts
              /\ queue[i].receipts \subseteq receipts[queue[i].source]
        /\ \A i, j \in 1..Len(queue) :
              /\ i < j
              /\ queue[i].part = "source" /\ queue[j].part = "source"
              /\ queue[i].source = queue[j].source
              => queue[i].receipts \subseteq queue[j].receipts

ReceiptsNeedSource == \A s \in Sources : s \notin dSources => dReceipts[s] = {}

Needs(u) == {"source"} \cup PartSet(u)
Done(u, p) ==
    IF p = "source" THEN sourceOf[u] \in dSources /\ u \in dReceipts[sourceOf[u]]
                    ELSE ItemOf(p, sourceOf[u], fileOf[u]) \in dItems
Carries(w, u, p) ==
    /\ w.part = p
    /\ w.source = sourceOf[u]
    /\ IF p = "source" THEN u \in w.receipts ELSE w.file = fileOf[u]

\* Each part a waiting upload needs is stored, or is queued before its flush with
\* no other flush between, or failed and no other flush comes before its own.
Accounted(u, p, k) ==
    \/ Done(u, p)
    \/ \E j \in 1..(k - 1) : Carries(queue[j], u, p) /\ Clear(j, k)
    \/ failures # {} /\ Clear(1, k)

WaitingIsAccountedFor ==
    \A u \in Uploads : phase[u] = "flushing" =>
        \E k \in 1..Len(queue) :
            /\ queue[k] = Flush(u)
            /\ \A p \in Needs(u) : Accounted(u, p, k)

IInv ==
    /\ TypeOK
    /\ QueueByMode
    /\ FlushesAreWaitedFor
    /\ SnapshotsGrow
    /\ ReceiptsNeedSource
    /\ WaitingIsAccountedFor
    /\ CommittedIsDurable

\* An open process holds every item the store holds or the queue will put there.
Content(w) == ItemOf(w.part, w.source, w.file)
MemoryIsAhead ==
    mode = "open" =>
        /\ \A x \in Held : x \in dItems => held[x] > 0
        /\ \A k \in 1..Len(queue) :
              queue[k].part \in MemoryParts => held[Content(queue[k])] > 0

\* What a process has in memory, in its queue or in its store was sent by somebody,
\* and a process that has not hydrated holds nothing.
ContentWasSent ==
    /\ \A x \in dItems : Senders(x) # {}
    /\ \A k \in 1..Len(queue) :
          queue[k].part \in ContentParts => Senders(Content(queue[k])) # {}
    /\ mode \in {"down", "draining", "hydrating"} => held = [x \in Held |-> 0]
    /\ IsFiniteSet({u \in Uploads : phase[u] # "idle"})

SInv ==
    /\ IInv
    /\ MemoryIsAhead
    /\ ContentWasSent
    /\ NoDoubledContent
=============================================================================
