-------------------------- MODULE DocumentVersions --------------------------
(***************************************************************************)
(* The retrieval index over document versions: a map of every version      *)
(* admitted, a map from each document to the version answers are grounded  *)
(* in, a flat table of chunks, and for each word the positions in that     *)
(* table where it occurs.  And what the document route makes of files sent *)
(* again and again: the index in memory, the two durable writes behind     *)
(* each admission (the version and the document's current pointer, through *)
(* the serial queue), and the index a new process builds from the store,   *)
(* one version after another.                                              *)
(*                                                                         *)
(* A version is named by its document and its content, so the same content *)
(* sent again is the same version.  A content is a sequence of chunks, a   *)
(* chunk a function that counts its words.  Scores are left out: what is   *)
(* modelled of a retrieval is which chunks it may return.  The route names *)
(* a source by the clock, and a document by its source and its title.  One *)
(* title is modelled, so a document is a reading of the clock.  Nothing in *)
(* the program removes a document, and `remove` is left out.               *)
(***************************************************************************)
EXTENDS Filtering, Functions

CONSTANTS
    Contents,     \* what a version may contain
    Words,
    Projects,
    ChunksOf,     \* the chunks of each content, in page order
    Unnamed,      \* the empty value of the maps
    LastMs,       \* bound: readings of the clock
    MaxUploads,   \* bound: files sent
    MaxCrashes    \* bound: processes that die

Documents == 1..LastMs
VersionIds == Documents \X Contents
Metadata == [project: Projects \cup {Unnamed}, ordinal: Nat \ {0}]

\* A file has a size limit: it holds one of finitely many contents.
VersionsAssumption ==
    /\ IsFiniteSet(Contents)
    /\ ChunksOf \in [Contents -> Seq([Words -> Nat])]
    /\ Unnamed \notin Contents \cup Projects
    /\ Unnamed \notin VersionIds
    /\ Unnamed \notin Metadata
    /\ LastMs \in Nat \ {0}
    /\ MaxUploads \in Nat
    /\ MaxCrashes \in Nat

VARIABLES
    versions,     \* `#versions`: the project and the ordinal each version was admitted with
    current,      \* `#currentVersion`
    chunks,       \* `#chunks`: the version and the chunk number at each position
    postings,     \* `#postings`
    clock,        \* Date.now()
    queue,        \* the durable writes not settled yet
    dVersions,    \* the store: the documentVersions collection
    dCurrent,     \* the store: the documentCurrent collection
    failed,       \* `#failures` is not empty
    last,         \* the version this process was last sent
    hydrating,    \* the stored versions `hydrate` has still to add
    uploads,      \* files sent
    crashes

index == <<versions, current, chunks, postings>>
store == <<dVersions, dCurrent>>
vars == <<index, clock, queue, store, failed, last, hydrating, uploads, crashes>>

Admitted == {v \in VersionIds : versions[v] # Unnamed}
VersionsOf(d) == {v \in Admitted : v[1] = d}
Stored == {v \in VersionIds : dVersions[v] # Unnamed}

Posting == [chunk: Nat \ {0}, times: Nat]
Write == [part: {"version", "current"}, id: VersionIds, metadata: Metadata]

IndexTypeOK ==
    /\ versions \in [VersionIds -> Metadata \cup {Unnamed}]
    /\ current \in [Documents -> Contents \cup {Unnamed}]
    /\ chunks \in Seq(VersionIds \X (Nat \ {0}))
    /\ postings \in [Words -> Seq(Posting)]

\* Every variable stays within its kind of value.
TypeOK ==
    /\ IndexTypeOK
    /\ clock \in Documents
    /\ queue \in Seq(Write)
    /\ dVersions \in [VersionIds -> Metadata \cup {Unnamed}]
    /\ dCurrent \in [Documents -> Contents \cup {Unnamed}]
    /\ failed \in BOOLEAN
    /\ last \in VersionIds \cup {Unnamed}
    /\ hydrating \in SUBSET VersionIds
    /\ uploads \in 0..MaxUploads
    /\ crashes \in 0..MaxCrashes

-----------------------------------------------------------------------------
(* The index *)

NoIndex ==
    /\ versions' = [v \in VersionIds |-> Unnamed]
    /\ current' = [d \in Documents |-> Unnamed]
    /\ chunks' = <<>>
    /\ postings' = [w \in Words |-> <<>>]

WordsAt(entry) == ChunksOf[entry[1][2]][entry[2]]

Table(v) == [n \in 1..Len(ChunksOf[v[2]]) |-> <<v, n>>]

\* The positions a word gains when chunks are pushed after the first `base`.
Occurrences(w, table, base) ==
    Kept([n \in 1..Len(table) |-> [chunk |-> base + n, times |-> WordsAt(table[n])[w]]],
         {n \in 1..Len(table) : WordsAt(table[n])[w] > 0})

\* Mutation: positions are counted within the version.
PushAtZero(table) ==
    /\ chunks' = chunks \o table
    /\ postings' = [w \in Words |-> postings[w] \o Occurrences(w, table, 0)]

Push(table) ==
    /\ chunks' = chunks \o table
    /\ postings' = [w \in Words |-> postings[w] \o Occurrences(w, table, Len(chunks))]

\* `add`: DUPLICATE, or INDEXED, or SUPERSEDES where the document had a version.
Add(v, metadata) ==
    IF versions[v] # Unnamed
      THEN UNCHANGED index
      ELSE /\ versions' = [versions EXCEPT ![v] = metadata]
           /\ current' = [current EXCEPT ![v[1]] = v[2]]
           /\ Push(Table(v))

\* `#admissibleChunkIndexes`; an empty set of projects restricts nothing.
Admissible(projects) ==
    {i \in DOMAIN chunks :
        LET v == chunks[i][1]
        IN  /\ current[v[1]] = v[2]
            /\ versions[v] # Unnamed
            /\ projects # {} => versions[v].project \in projects}

\* `retrieve`: the entries of the table a question may be answered from.
Retrieved(words, projects) ==
    {chunks[p.chunk] :
        p \in {q \in UNION {Range(postings[w]) : w \in words} : q.chunk \in Admissible(projects)}}

-----------------------------------------------------------------------------
(* Ingestion, and the store *)

Init ==
    /\ versions = [v \in VersionIds |-> Unnamed]
    /\ current = [d \in Documents |-> Unnamed]
    /\ chunks = <<>>
    /\ postings = [w \in Words |-> <<>>]
    /\ clock = 1 /\ queue = <<>> /\ failed = FALSE /\ crashes = 0
    /\ last = Unnamed /\ uploads = 0 /\ hydrating = {}
    /\ dVersions = [v \in VersionIds |-> Unnamed]
    /\ dCurrent = [d \in Documents |-> Unnamed]

Tick ==
    /\ clock < LastMs
    /\ clock' = clock + 1
    /\ UNCHANGED <<index, queue, store, failed, last, hydrating, uploads, crashes>>

\* Mutation: what the index already holds is not written.
WritesOfNew(v, metadata) ==
    IF versions[v] # Unnamed THEN <<>>
    ELSE << [part |-> "version", id |-> v, metadata |-> metadata],
            [part |-> "current", id |-> v, metadata |-> metadata] >>

\* `indexDocument` writes what was sent, be it admitted as new or not.
WritesOf(v, metadata) ==
    << [part |-> "version", id |-> v, metadata |-> metadata],
       [part |-> "current", id |-> v, metadata |-> metadata] >>

\* `ingestDocument`: a version keeps its ordinal when it is sent again.
OrdinalOf(v) ==
    IF versions[v] # Unnamed THEN versions[v].ordinal ELSE Cardinality(VersionsOf(v[1])) + 1

\* POST /api/ingest/document up to its flush; a process is sent files once it has
\* hydrated.  The flush before it took the failures of the writes that had settled by
\* then.
Upload(c, project) ==
    LET v == <<clock, c>>
        metadata == [project |-> project, ordinal |-> OrdinalOf(v)]
    IN  /\ uploads < MaxUploads
        /\ hydrating = {}
        /\ Add(v, metadata)
        /\ queue' = queue \o WritesOf(v, metadata)
        /\ failed' = (failed /\ queue # <<>>)
        /\ last' = v
        /\ uploads' = uploads + 1
        /\ UNCHANGED <<clock, store, hydrating, crashes>>

Settle ==
    /\ queue # <<>>
    /\ queue' = Tail(queue)
    /\ UNCHANGED <<index, clock, last, hydrating, uploads, crashes>>

WriteSucceeds ==
    /\ Settle
    /\ LET w == Head(queue)
       IN  IF w.part = "version"
             THEN dVersions' = [dVersions EXCEPT ![w.id] = w.metadata] /\ UNCHANGED dCurrent
             ELSE dCurrent' = [dCurrent EXCEPT ![w.id[1]] = w.id[2]] /\ UNCHANGED dVersions
    /\ UNCHANGED failed

WriteFails ==
    /\ Settle
    /\ failed' = TRUE
    /\ UNCHANGED store

\* The process dies; the next one has the store to begin from.
Restart ==
    /\ crashes < MaxCrashes
    /\ crashes' = crashes + 1
    /\ queue' = <<>> /\ failed' = FALSE /\ last' = Unnamed
    /\ NoIndex
    /\ hydrating' = Stored
    /\ UNCHANGED <<clock, store, uploads>>

IsCurrent(v) == dCurrent[v[1]] = v[2]

\* Mutation: versions are added in the order the store lists them.
DueAsListed == hydrating

\* The order `hydrate` adds versions in: those that are their document's current
\* version come last.  Otherwise it is the store's, by ids that are hashes.
Due == {v \in hydrating : IsCurrent(v) => \A w \in hydrating : IsCurrent(w)}

Hydrate(v) ==
    /\ v \in Due
    /\ Add(v, dVersions[v])
    /\ hydrating' = hydrating \ {v}
    /\ UNCHANGED <<clock, queue, store, failed, last, uploads, crashes>>

Next ==
    \/ Tick
    \/ \E c \in Contents, p \in Projects \cup {Unnamed} : Upload(c, p)
    \/ WriteSucceeds \/ WriteFails
    \/ Restart
    \/ \E v \in VersionIds : Hydrate(v)

Spec == Init /\ [][Next]_vars

-----------------------------------------------------------------------------
(* What the index keeps to *)

ChunksOfAll(vs) == UNION {Range(Table(v)) : v \in vs}

\* A question is answered from exactly the chunks of current versions that hold
\* one of its words and are associated with one of its projects: whatever was
\* added before, a posting never leads to a neighbour's text.
RetrievedIsExact ==
    \A words \in SUBSET Words : \A projects \in SUBSET Projects :
        Retrieved(words, projects) =
            {entry \in ChunksOfAll(Admitted) :
                /\ current[entry[1][1]] = entry[1][2]
                /\ projects # {} => versions[entry[1]].project \in projects
                /\ \E w \in words : WordsAt(entry)[w] > 0}

\* Each chunk is in the table once, so a word is not counted twice.
ChunkedOnce ==
    /\ IsInjective(chunks)
    /\ Range(chunks) = ChunksOfAll(Admitted)

\* A document with versions has one of them as its current version.
CurrentIsAdmitted ==
    \A d \in Documents : IF VersionsOf(d) = {} THEN current[d] = Unnamed
                                             ELSE <<d, current[d]>> \in Admitted

-----------------------------------------------------------------------------
(* What holds across processes *)

\* An upload whose flush found no failure is stored, however often it was sent
\* before and whatever became of those writes.
AnsweredIsStored == queue = <<>> /\ ~failed /\ last # Unnamed => last \in Stored

\* A new process, once hydrated, answers from the version the store calls current,
\* wherever the store holds it, and from some version of every document it holds one of.
RestartServesCurrent ==
    hydrating # {} /\ hydrating' = {} =>
      \A v \in Stored : /\ dCurrent[v[1]] = v[2] => current'[v[1]] = v[2]
                        /\ current'[v[1]] # Unnamed

-----------------------------------------------------------------------------
(* Why: every posting is a position of its word, what was sent and has not failed is *)
(* stored or about to be, and what is still to be added supersedes nothing current.  *)

PostingsAreTheTable ==
    \A w \in Words :
        {p.chunk : p \in Range(postings[w])} = {i \in DOMAIN chunks : WordsAt(chunks[i])[w] > 0}

IndexInv == IndexTypeOK /\ ChunkedOnce /\ PostingsAreTheTable /\ CurrentIsAdmitted

SentIsOnItsWay ==
    ~failed /\ last # Unnamed =>
        \/ last \in Stored
        \/ \E n \in DOMAIN queue : queue[n].part = "version" /\ queue[n].id = last

CurrentComesLast ==
    hydrating # {} =>
        /\ queue = <<>>
        /\ hydrating = Stored \ Admitted /\ Admitted \subseteq Stored
        /\ \A v \in Admitted : IsCurrent(v) =>
              current[v[1]] = v[2] /\ \A w \in hydrating : IsCurrent(w)

DocumentsInv == TypeOK /\ IndexInv /\ SentIsOnItsWay /\ CurrentComesLast
=============================================================================
