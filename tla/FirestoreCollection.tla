------------------------ MODULE FirestoreCollection ------------------------
(***************************************************************************)
(* One collection of the durable store, as the adapter writes and reads it. *)
(*                                                                         *)
(* A put first creates the document; told that the id exists, it replaces  *)
(* the document by a commit.  putMany puts its records one after another   *)
(* and stops at the first failure.  Calls come one at a time, from the     *)
(* registry's serial queue.  A request has a time budget: its sender gives *)
(* up on it, and whether and when the store applies it is then open.       *)
(* list() reads a bounded number of pages while puts go on.                *)
(***************************************************************************)
EXTENDS Integers, Sequences, FiniteSets

CONSTANTS
    LastId,       \* document ids are 1..LastId, in the order pages list them
    MaxCalls,     \* bound: how many calls of putMany
    MaxBatch,     \* bound: how many records a call carries
    PageSize,     \* documents on a page (300)
    MaxPages      \* pages read (20)

CollectionAssumption ==
    /\ LastId \in Nat \ {0}
    /\ MaxCalls \in Nat \ {0}
    /\ MaxBatch \in Nat \ {0}
    /\ PageSize \in Nat \ {0}
    /\ MaxPages \in Nat \ {0}

Ids == 1..LastId
Calls == 1..MaxCalls

\* A record is named by the call that carries it and its place there.
Records == Calls \X (1..MaxBatch)
Absent == <<0, 0>>
Requests == [kind: {"create", "replace"}, id: Ids, record: Records]

VARIABLES
    late,         \* whether a request given up on may be applied later
    docs,         \* what each document id holds
    batch,        \* the ids of the records of the current call, in order
    calls,        \* calls made
    at,           \* the record putMany has reached
    step,         \* which request of put is out
    outcome,      \* what each call returned
    abandoned,    \* requests given up on and not applied
    applied,      \* history: the records the store ever held
    page,         \* list(): the page being read, 0 when no list runs
    token,        \* list(): pageToken, the last id a page showed
    listed,       \* list(): the ids read
    expected      \* history: the ids that existed when list() began

writing == <<batch, calls, at, step, outcome>>
reading == <<page, token, listed, expected>>
vars == <<late, docs, writing, abandoned, applied, reading>>

Existing == {i \in Ids : docs[i] # Absent}
Record == <<calls, at>>

\* Every variable stays within its kind of value.
TypeOK ==
    /\ late \in BOOLEAN
    /\ docs \in [Ids -> Records \cup {Absent}]
    /\ batch \in Seq(Ids) /\ Len(batch) <= MaxBatch
    /\ calls \in 0..MaxCalls
    /\ at \in 0..MaxBatch
    /\ step \in {"idle", "creating", "replacing"}
    /\ outcome \in [Calls -> {"none", "running", "acked", "failed"}]
    /\ abandoned \subseteq Requests
    /\ applied \subseteq Records
    /\ page \in 0..(MaxPages + 1)
    /\ token \in 0..LastId
    /\ listed \subseteq Ids
    /\ expected \subseteq Ids

Init ==
    /\ late \in BOOLEAN
    /\ docs = [i \in Ids |-> Absent]
    /\ batch = <<>> /\ calls = 0 /\ at = 0 /\ step = "idle"
    /\ outcome = [c \in Calls |-> "none"]
    /\ abandoned = {} /\ applied = {}
    /\ page = 0 /\ token = 0 /\ listed = {} /\ expected = {}

-----------------------------------------------------------------------------
(* Writing *)

PutMany(ids) ==
    /\ step = "idle" /\ calls < MaxCalls
    /\ calls' = calls + 1
    /\ batch' = ids /\ at' = 1 /\ step' = "creating"
    /\ outcome' = [outcome EXCEPT ![calls + 1] = "running"]
    /\ UNCHANGED <<late, docs, abandoned, applied, reading>>

\* The put of the current record returned: the next one starts, or the call
\* returns.
Settle ==
    IF at < Len(batch)
      THEN at' = at + 1 /\ step' = "creating" /\ UNCHANGED outcome
      ELSE at' = 0 /\ step' = "idle" /\ outcome' = [outcome EXCEPT ![calls] = "acked"]

\* Mutation: putMany goes on to the next record after a failure, and fails at the end.
FailGoesOn ==
    IF at < Len(batch)
      THEN at' = at + 1 /\ step' = "creating" /\ UNCHANGED outcome
      ELSE at' = 0 /\ step' = "idle" /\ outcome' = [outcome EXCEPT ![calls] = "failed"]

\* The put of the current record threw, and putMany with it.
Fail ==
    /\ at' = 0 /\ step' = "idle"
    /\ outcome' = [outcome EXCEPT ![calls] = "failed"]

Hold(record, id) ==
    /\ docs' = [docs EXCEPT ![id] = record]
    /\ applied' = applied \cup {record}

Create ==
    /\ step = "creating" /\ docs[batch[at]] = Absent
    /\ Hold(Record, batch[at])
    /\ Settle
    /\ UNCHANGED <<late, batch, calls, abandoned, reading>>

\* 409: the id exists.
Conflict ==
    /\ step = "creating" /\ docs[batch[at]] # Absent
    /\ step' = "replacing"
    /\ UNCHANGED <<late, docs, batch, calls, at, outcome, abandoned, applied, reading>>

Replace ==
    /\ step = "replacing"
    /\ Hold(Record, batch[at])
    /\ Settle
    /\ UNCHANGED <<late, batch, calls, abandoned, reading>>

\* The record is above the document ceiling, no token could be had, or the
\* store answered with an error.
Refuse ==
    /\ step # "idle"
    /\ Fail
    /\ UNCHANGED <<late, docs, batch, calls, abandoned, applied, reading>>

\* No answer within the time budget.  The request may still be on its way;
\* where nothing arrives late it was applied before, or never will be.
GiveUp ==
    /\ step # "idle"
    /\ Fail
    /\ LET request == [kind |-> IF step = "creating" THEN "create" ELSE "replace",
                       id |-> batch[at], record |-> Record]
       IN  IF late
             THEN abandoned' = abandoned \cup {request} /\ UNCHANGED <<docs, applied>>
             ELSE /\ step = "creating" => docs[batch[at]] = Absent
                  /\ Hold(Record, batch[at])
                  /\ UNCHANGED abandoned
    /\ UNCHANGED <<late, batch, calls, reading>>

\* The store applies a request nobody waits for any more.
Land(request) ==
    /\ request \in abandoned
    /\ abandoned' = abandoned \ {request}
    /\ IF request.kind = "create" /\ docs[request.id] # Absent
         THEN UNCHANGED <<docs, applied>>
         ELSE Hold(request.record, request.id)
    /\ UNCHANGED <<late, writing, reading>>

-----------------------------------------------------------------------------
(* Reading *)

StartList ==
    /\ page = 0
    /\ page' = 1 /\ token' = 0 /\ listed' = {} /\ expected' = Existing
    /\ UNCHANGED <<late, docs, writing, abandoned, applied>>

OnPage == {i \in Existing : i > token /\ Cardinality({j \in Existing : token < j /\ j <= i}) <= PageSize}
NextPageToken == IF \E i \in Existing : \A j \in OnPage \cup {token} : j < i
                   THEN CHOOSE i \in OnPage : \A j \in OnPage : j <= i
                   ELSE 0

\* Mutation: the reader follows every pageToken.
ListingUnbounded == page # 0
Listing == page \in 1..MaxPages
Listed == page = MaxPages + 1

ReadPage ==
    /\ Listing
    /\ listed' = listed \cup OnPage
    /\ token' = NextPageToken
    /\ page' = IF NextPageToken = 0 THEN MaxPages + 1 ELSE page + 1
    /\ UNCHANGED <<late, docs, writing, abandoned, applied, expected>>

\* The caller has used the list; or a page could not be read, and it throws.
EndList ==
    /\ page # 0
    /\ page' = 0 /\ token' = 0 /\ listed' = {} /\ expected' = {}
    /\ UNCHANGED <<late, docs, writing, abandoned, applied>>

-----------------------------------------------------------------------------
Batches == UNION {[1..n -> Ids] : n \in 1..MaxBatch}

Next ==
    \/ \E ids \in Batches : PutMany(ids)
    \/ Create \/ Conflict \/ Replace \/ Refuse \/ GiveUp
    \/ \E request \in abandoned : Land(request)
    \/ StartList \/ ReadPage \/ EndList

Spec == Init /\ [][Next]_vars

-----------------------------------------------------------------------------
(* What the adapter keeps to *)

\* A putMany that stops leaves a prefix: a record reached the store, or is on
\* its way there, only if every record before it in its call was acknowledged.
\* A later record of a failed workbook is never there without the earlier ones.
Sent == applied \cup {r.record : r \in abandoned}
StoredIsPrefix ==
    \A r \in Sent : \A n \in 1..(r[2] - 1) : <<r[1], n>> \in applied

\* A call that returned put every one of its records.
AckedIsWhole ==
    calls > 0 /\ outcome[calls] = "acked" =>
        \A n \in DOMAIN batch : <<calls, n>> \in applied

\* list() returns every document that existed when it began, puts going on
\* meanwhile, as long as the collection fits in the pages it may read.
ListIsComplete ==
    Listed /\ Cardinality(Existing) <= PageSize * MaxPages => expected \subseteq listed

\* What an id holds never goes back to an earlier record: the registry's queue
\* starts a write only once the one before it has settled, so that an earlier
\* state of a document cannot land last (registry.ts #persist).  Where requests
\* arrive late, only a replacement its sender gave up on takes a document back; a
\* late create finds the id taken and changes nothing.
Older(r, s) == r[1] < s[1] \/ (r[1] = s[1] /\ r[2] < s[2])
NothingOlder ==
    \A i \in Ids : docs[i] # docs'[i] =>
        \/ Older(docs[i], docs'[i])
        \/ late /\ [kind |-> "replace", id |-> i, record |-> docs'[i]] \in abandoned

\* Why: whatever is stored or given up on is of an earlier call, or comes before the
\* record at hand, and what comes before that is stored; no document disappears; and
\* what a list has passed it has read, a full page at a time.
Settled(r) == r[1] < calls \/ (r[1] = calls /\ (step # "idle" => r[2] < at))
WriterIs ==
    /\ step # "idle" => /\ at \in DOMAIN batch /\ calls \in Calls /\ outcome[calls] = "running"
                        /\ \A n \in 1..at - 1 : <<calls, n>> \in applied
    /\ \A i \in Existing : Settled(docs[i])
    /\ \A r \in abandoned : Settled(r.record)
    /\ ~late => abandoned = {}
Passed == {i \in Existing : i <= token}
ListerIs ==
    /\ expected \subseteq Existing
    /\ \A i \in expected : i <= token => i \in listed
    /\ token # 0 => \E i \in Existing : token < i
    /\ Listed /\ token = 0 => expected \subseteq listed
    /\ page # 0 /\ ~(Listed /\ token = 0) => Cardinality(Passed) >= PageSize * (page - 1)
CollectionInv == TypeOK /\ WriterIs /\ ListerIs /\ StoredIsPrefix /\ AckedIsWhole
=============================================================================
