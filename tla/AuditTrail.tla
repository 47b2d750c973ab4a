----------------------------- MODULE AuditTrail -----------------------------
(***************************************************************************)
(* The lineage of answered questions: appended to the durable collection   *)
(* or to the process's own list, and read back by the audit route.         *)
(*                                                                         *)
(* The collection is addressed by correlation id and millisecond and lists *)
(* its documents by address; the correlation id is the actor's.  `now` is  *)
(* the wall clock, in milliseconds since the model began.                  *)
(***************************************************************************)
EXTENDS Integers, Sequences, FiniteSets, Filtering

CONSTANTS
    Callers,     \* sittings
    Actors,      \* the personas' actors, numbered in the order of their ids
    ActorOf,     \* the actor a sitting is signed for
    Digests,     \* what can be asked
    LastMs,      \* bound: the wall clock
    MaxAsked,    \* bound: questions answered
    ReadLimit,   \* how many records the route reads: `recent(200)`
    Shown,       \* how many it answers with: 25
    ListCap      \* the documents a listing reads at most: twenty pages of three hundred

AuditAssumption ==
    /\ Actors \subseteq Nat /\ ActorOf \in [Callers -> Actors]
    /\ {LastMs, MaxAsked, ReadLimit, Shown, ListCap} \subseteq Nat \ {0}
    /\ Shown <= ReadLimit /\ ReadLimit <= ListCap

VARIABLES
    now,      \* what the wall clock reads
    durable,  \* whether a durable store is configured
    rows,     \* the store: records in the order they are listed
    asked,    \* history: every record appended, in order
    view      \* the last reading: whose, and what it answered

vars == <<now, durable, rows, asked, view>>

Init ==
    /\ now = 0 /\ durable \in BOOLEAN
    /\ rows = <<>> /\ asked = <<>>
    /\ view \in [by : Callers, page : {<<>>}]

-----------------------------------------------------------------------------
(* The store *)

\* The durable address.
Address(r) == <<r.actor, r.at>>

Before(a, b) == a[1] < b[1] \/ (a[1] = b[1] /\ a[2] < b[2])

\* A record replaces the one at its address, or takes the address's place in the
\* listing.
Ahead(s, r) == {i \in DOMAIN s : Before(Address(s[i]), Address(r))}
Behind(s, r) == {i \in DOMAIN s : Before(Address(r), Address(s[i]))}
Put(s, r) == Kept(s, Ahead(s, r)) \o <<r>> \o Kept(s, Behind(s, r))

Newest(s, n) == SubSeq(s, (IF Len(s) > n THEN Len(s) - n ELSE 0) + 1, Len(s))

\* What `list` reads of the collection, or all of the process's list.
Listed == IF durable /\ Len(rows) > ListCap THEN SubSeq(rows, 1, ListCap) ELSE rows

-----------------------------------------------------------------------------
Tick == now < LastMs /\ now' = now + 1 /\ UNCHANGED <<durable, rows, asked, view>>

\* A question is answered, and its lineage kept.
Ask(c, d) ==
    LET r == [actor |-> ActorOf[c], by |-> c, digest |-> d, at |-> now]
    IN  /\ Len(asked) < MaxAsked
        /\ asked' = Append(asked, r)
        /\ rows' = IF durable THEN Put(rows, r) ELSE Append(rows, r)
        /\ UNCHANGED <<now, durable, view>>

\* Mutation: the route answers with all it read.
MineAll(c, recent) == recent

\* The caller's actor's records only.
TheirsIn(recent, c) == {i \in DOMAIN recent : recent[i].actor = ActorOf[c]}
Mine(c, recent) == Kept(recent, TheirsIn(recent, c))

\* GET /api/audit: the newest of them, newest first.
Backwards(s) == [i \in DOMAIN s |-> s[Len(s) + 1 - i]]
Page(c) == Backwards(Newest(Mine(c, Newest(Listed, ReadLimit)), Shown))

Read(c) ==
    /\ view' = [by |-> c, page |-> Page(c)]
    /\ UNCHANGED <<now, durable, rows, asked>>

Next == Tick \/ \E c \in Callers : Read(c) \/ \E d \in Digests : Ask(c, d)

Spec == Init /\ [][Next]_vars

-----------------------------------------------------------------------------
(* Properties *)

In(s) == {s[i] : i \in DOMAIN s}
Record == [actor : Actors, by : Callers, digest : Digests, at : 0..LastMs]

\* Every variable stays within its kind of value, and the store holds nothing
\* that was not appended.
TypeOK ==
    /\ now \in 0..LastMs /\ durable \in BOOLEAN
    /\ asked \in Seq(Record) /\ Len(asked) <= MaxAsked
    /\ In(rows) \subseteq In(asked)
    /\ view.by \in Callers /\ Len(view.page) <= Shown /\ In(view.page) \subseteq In(asked)

\* A reading is narrowed to the caller before a row is returned (main.ts:610),
\* and nobody is shown another actor's questions.
NarrowedToTheActor == \A i \in DOMAIN view.page : view.page[i].actor = ActorOf[view.by]

\* The trail keeps an order of its own: what is shown is newest first, from a
\* listing that is not in the order of time.
NewestFirst ==
    \A i, j \in DOMAIN view.page : i < j => view.page[i].at >= view.page[j].at

\* As long as the store holds no more than a reading takes, a reading shows the
\* last answer of every millisecond the actor asked in, the newest `Shown` of them
\* and without a gap.
ShortTrailIsWhole ==
    \A c \in Callers :
      Read(c) /\ Len(rows) <= ReadLimit =>
        LET times == {asked[i].at : i \in {k \in DOMAIN asked : asked[k].actor = ActorOf[c]}}
            seen == {view'.page[i].at : i \in DOMAIN view'.page}
        IN  \/ seen = times
            \/ Len(view'.page) = Shown /\ \A t \in times \ seen : \A s \in seen : t <= s

\* Under an address of its own a record stays: an answer given at another
\* millisecond, or to another actor, never displaces it.
OnlyItsOwnAddressIsReplaced ==
    \A i \in DOMAIN rows :
      \/ rows[i] \in In(rows')
      \/ \E k \in DOMAIN asked' \ DOMAIN asked :
           asked'[k].actor = rows[i].actor /\ asked'[k].at = rows[i].at

\* Why: the store is in the order of its addresses, or of time in the process's own
\* list; either way one actor's records are in the order of time, and none is dated
\* later than now.  What is stored was asked, and the address of everything asked is
\* taken.
InOrder(a, b) == IF durable THEN Before(Address(a), Address(b)) ELSE a.at <= b.at
AskedIsStored ==
    /\ asked \in Seq(Record)
    /\ \A i \in DOMAIN rows : \E k \in DOMAIN asked : rows[i] = asked[k]
    /\ \A k \in DOMAIN asked : \E i \in DOMAIN rows : Address(rows[i]) = Address(asked[k])
TrailInv ==
    /\ now \in 0..LastMs /\ durable \in BOOLEAN /\ AskedIsStored
    /\ rows \in Seq(Record) /\ \A i \in DOMAIN rows : rows[i].at <= now
    /\ \A i, j \in DOMAIN rows : i < j => InOrder(rows[i], rows[j])
    /\ view \in [by : Callers, page : Seq(Record)]
    /\ NarrowedToTheActor /\ NewestFirst
=============================================================================
