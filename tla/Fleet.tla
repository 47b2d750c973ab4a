-------------------------------- MODULE Fleet --------------------------------
(***************************************************************************)
(* Several instances of the runtime over one durable store.  Each reads    *)
(* the store when it starts and never again, keeps its own registry, names *)
(* a new source by the millisecond, and writes a source's whole document   *)
(* each time the source changes.  A source document is its receipts, one   *)
(* per upload; DurableRegistry has the rest of what an upload writes.      *)
(***************************************************************************)
EXTENDS Integers, Sequences, FiniteSets

CONSTANTS
    Instances,
    Uploads,
    LastMs,     \* bound: the clocks, which agree
    MaxStarts   \* bound: instances started

FleetAssumption == {LastMs, MaxStarts} \subseteq Nat /\ "nowhere" \notin Instances

Ids == 0..LastMs    \* `src-upload-<ms>`
Nothing == [id \in {} |-> {}]

VARIABLES
    now, starts,
    running,   \* the instances that are up
    memory,    \* per instance, `#sources`: id -> receipts
    queue,     \* per instance, document writes not yet applied
    store,     \* the durable documents: id -> receipts
    uploads    \* per upload: where it was sent, its source and what was answered

vars == <<now, starts, running, memory, queue, store, uploads>>

Waiting == [at |-> "nowhere", id |-> 0, answer |-> "none"]

Init ==
    /\ now = 0 /\ starts = 0
    /\ running = {}
    /\ memory = [i \in Instances |-> Nothing]
    /\ queue = [i \in Instances |-> <<>>]
    /\ store = Nothing
    /\ uploads = [u \in Uploads |-> Waiting]

With(docs, id, receipts) ==
    [d \in DOMAIN docs \cup {id} |-> IF d = id THEN receipts ELSE docs[d]]
Of(docs, id) == IF id \in DOMAIN docs THEN docs[id] ELSE {}

Tick == now < LastMs /\ now' = now + 1 /\ UNCHANGED <<starts, running, memory, queue, store, uploads>>

\* `hydrate`.
Start(i) ==
    /\ i \notin running /\ starts < MaxStarts
    /\ running' = running \cup {i} /\ starts' = starts + 1
    /\ memory' = [memory EXCEPT ![i] = store]
    /\ UNCHANGED <<now, queue, store, uploads>>

\* An instance is replaced; what it had not written is lost.
Stop(i) ==
    /\ i \in running
    /\ running' = running \ {i}
    /\ memory' = [memory EXCEPT ![i] = Nothing] /\ queue' = [queue EXCEPT ![i] = <<>>]
    /\ uploads' = [u \in Uploads |->
           IF uploads[u].at = i /\ uploads[u].answer = "none" THEN [uploads[u] EXCEPT !.answer = "lost"]
           ELSE uploads[u]]
    /\ UNCHANGED <<now, starts, store>>

\* Mutation: a source taken anew forgets the receipts it had.
ReceiveAnew(u, i) ==
    /\ uploads[u] = Waiting /\ i \in running
    /\ uploads' = [uploads EXCEPT ![u] = [at |-> i, id |-> now, answer |-> "none"]]
    /\ memory' = [memory EXCEPT ![i] = With(@, now, {u})]
    /\ queue' = [queue EXCEPT ![i] = @ \o << <<now, {}, u>>, <<now, {u}, u>> >>]
    /\ UNCHANGED <<now, starts, running, store>>

\* `register`, which keeps the receipts of a source it knows, then `addReceipt`:
\* two writes of the document.
Receive(u, i) ==
    LET before == Of(memory[i], now)
        after == before \cup {u}
    IN  /\ uploads[u] = Waiting /\ i \in running
        /\ uploads' = [uploads EXCEPT ![u] = [at |-> i, id |-> now, answer |-> "none"]]
        /\ memory' = [memory EXCEPT ![i] = With(@, now, after)]
        /\ queue' = [queue EXCEPT ![i] = @ \o << <<now, before, u>>, <<now, after, u>> >>]
        /\ UNCHANGED <<now, starts, running, store>>

\* The first write of an instance's queue replaces the document.
Write(i) ==
    /\ queue[i] # <<>>
    /\ store' = With(store, Head(queue[i])[1], Head(queue[i])[2])
    /\ queue' = [queue EXCEPT ![i] = Tail(@)]
    /\ UNCHANGED <<now, starts, running, memory, uploads>>

\* `flush`: the upload's own writes have run, and its receipt is returned.
Commit(u) ==
    /\ uploads[u].at \in running /\ uploads[u].answer = "none"
    /\ \A n \in DOMAIN queue[uploads[u].at] : queue[uploads[u].at][n][3] # u
    /\ uploads' = [uploads EXCEPT ![u].answer = "receipt"]
    /\ UNCHANGED <<now, starts, running, memory, queue, store>>

Next == \/ Tick \/ \E i \in Instances : Start(i) \/ Stop(i) \/ Write(i)
        \/ \E u \in Uploads : Commit(u) \/ \E i \in Instances : Receive(u, i)

Spec == Init /\ [][Next]_vars

-----------------------------------------------------------------------------
(* Properties *)

Docs == UNION {[S -> SUBSET Uploads] : S \in SUBSET Ids}
Entries == Ids \X (SUBSET Uploads) \X Uploads

\* Every variable stays within its kind of value.
TypeOK ==
    /\ now \in Ids /\ starts \in 0..MaxStarts /\ running \subseteq Instances
    /\ memory \in [Instances -> Docs] /\ store \in Docs
    /\ \A i \in Instances : \A n \in DOMAIN queue[i] : queue[i][n] \in Entries

Committed == {u \in Uploads : uploads[u].answer = "receipt"}

\* `u`'s millisecond was taken by no upload of another instance.
Alone(u) == \A v \in Uploads : uploads[v].at # "nowhere" /\ uploads[v].id = uploads[u].id
                                  => uploads[v].at = uploads[u].at

\* Uploads of one instance never undo each other, in memory or in the store, however
\* many arrive in a millisecond and whatever restarts come between: what was
\* committed is in the store, unless another instance named a source alike.
CommittedAloneIsKept == \A u \in Committed : Alone(u) => u \in Of(store, uploads[u].id)

\* An instance that took an upload and committed it serves it for as long as it is up.
AcceptedIsServed ==
    \A u \in Uploads : LET i == uploads[u].at IN
      i \in running \cap running' /\ u \in Of(memory[i], uploads[u].id)
        => u \in Of(memory'[i], uploads[u].id)

\* What an instance that starts will serve is everything committed and kept.
StartsWithTheStore ==
    \A i \in running' \ running : \A d \in DOMAIN store : Of(memory'[i], d) = store[d]

\* Why: nobody holds what was not sent; a write is its upload's own; and an upload alone
\* in its millisecond, unless it was lost, is in its instance's memory while that is up,
\* and in the store or on its way there, with nothing behind it that leaves it out.
Answers == {"none", "receipt", "lost"}
Sent(u) == uploads[u].at # "nowhere"
UnsentIsNowhere ==
    \A u \in Uploads : ~Sent(u) =>
       /\ uploads[u].answer = "none"
       /\ \A id \in Ids : u \notin Of(store, id)
       /\ \A i \in Instances : /\ \A id \in Ids : u \notin Of(memory[i], id)
                               /\ \A n \in DOMAIN queue[i] : u \notin queue[i][n][2]
WritesAreOwn ==
    \A i \in Instances : \A n \in DOMAIN queue[i] :
       uploads[queue[i][n][3]].at = i /\ uploads[queue[i][n][3]].id = queue[i][n][1]
WriteAwaits(u, id, q) == \E n \in DOMAIN q : q[n][3] = u /\ q[n][1] = id /\ u \in q[n][2]
NoneForgets(u, id, q, kept) ==
    \A n \in DOMAIN q :
       q[n][1] = id /\ (u \in kept \/ \E m \in 1..n : q[m][1] = id /\ u \in q[m][2]) => u \in q[n][2]
IsKept(u) ==
    LET i == uploads[u].at
        id == uploads[u].id
        kept == Of(store, id)
    IN  /\ i \in running => u \in Of(memory[i], id)
        /\ uploads[u].answer = "none" => i \in running
        /\ u \in kept \/ (uploads[u].answer = "none" /\ WriteAwaits(u, id, queue[i]))
        /\ NoneForgets(u, id, queue[i], kept)
FleetInv ==
    /\ now \in Ids /\ running \subseteq Instances
    /\ memory \in [Instances -> Docs] /\ store \in Docs
    /\ queue \in [Instances -> Seq(Entries)]
    /\ uploads \in [Uploads -> [at : Instances \cup {"nowhere"}, id : Ids, answer : Answers]]
    /\ UnsentIsNowhere /\ WritesAreOwn
    /\ \A u \in Uploads : Sent(u) /\ uploads[u].answer # "lost" /\ Alone(u) => IsKept(u)
=============================================================================
