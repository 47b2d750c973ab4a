-------------------------- MODULE SourceAuthority --------------------------
(***************************************************************************)
(* Which source is believed for which concept, and what is said when two   *)
(* sources disagree: the authority registry, the observations uploads and  *)
(* connectors bring with the authority they had on arrival, the conflicts  *)
(* detected among them, and a restart that derives the grants again.       *)
(*                                                                         *)
(* One project and one period: conflicts never cross either.  A smaller    *)
(* class number outranks a larger one.                                     *)
(***************************************************************************)
EXTENDS Integers, Sequences, FiniteSets, Functions

CONSTANTS
    Systems,       \* sources whose grants are configuration
    Uploads,       \* sources somebody uploads
    Concepts,
    Values,        \* amounts, in the unit the absolute floor is one of
    SourceOrder,   \* every source, in the order of its name
    MaxGrants,     \* bound: grants held while configuring
    MaxObservations \* bound

Authoritative == 1
Supplemental == 3
Unverified == 4
Classes == {Authoritative, 2, Supplemental}
Priorities == {1, 2}
Sources == Systems \cup Uploads

AuthorityAssumption ==
    /\ Systems \cap Uploads = {}
    /\ Values \subseteq Nat /\ IsFiniteSet(Concepts)
    /\ SourceOrder \in Seq(Sources)
    /\ Range(SourceOrder) = Sources /\ IsInjective(SourceOrder)
    /\ MaxGrants \in Nat /\ MaxObservations \in Nat

Grants == [source: Sources, concept: Concepts, class: Classes, priority: Priorities \cup {9}]
Observations == [source: Sources, concept: Concepts, value: Values, class: Classes \cup {Unverified}]

VARIABLES
    grants,       \* `#grants`, whose order nothing depends on
    configured,   \* the grants the program's own code leaves when it has started
    observations, \* `#observations`, in the order they arrived
    receipts,     \* the concepts each upload's receipts record
    running       \* seeding, running once something is uploaded, restarted

vars == <<grants, configured, observations, receipts, running>>

Init ==
    /\ grants = {} /\ configured = {} /\ observations = <<>>
    /\ receipts = [u \in Uploads |-> {}]
    /\ running = "seeding"

-----------------------------------------------------------------------------
(* The registry *)

Position(s) == CHOOSE n \in DOMAIN SourceOrder : SourceOrder[n] = s

\* `register` refuses a second authoritative source of the same priority.
Clashes(gs, g) ==
    g.class = Authoritative /\
    \E h \in gs : /\ h.concept = g.concept /\ h.class = Authoritative
                  /\ h.priority = g.priority /\ h.source # g.source

\* A grant takes the place of its source's for its concept.
Put(gs, new) == {h \in gs : \A g \in new : h.source # g.source \/ h.concept # g.concept} \cup new

\* Mutation: a source already granted is not checked for a clash.
RegisterUnchecked(gs, g) ==
    IF Clashes(gs, g) /\ gs \subseteq Put(gs, {g}) THEN gs ELSE Put(gs, {g})

\* `register`; a refusal leaves the grants as they were.
Register(gs, g) == IF Clashes(gs, g) THEN gs ELSE Put(gs, {g})

\* Most authoritative first, then by priority, then by name.
Precedes(g, h) ==
    \/ g.class < h.class
    \/ g.class = h.class /\ g.priority < h.priority
    \/ g.class = h.class /\ g.priority = h.priority /\ Position(g.source) < Position(h.source)

\* `governingSource`: the first of `for(concept)`.
GoverningSource(concept) ==
    LET of == {g \in grants : g.concept = concept}
    IN  IF of = {} THEN {} ELSE {(CHOOSE g \in of : \A h \in of \ {g} : Precedes(g, h)).source}

\* `authorityOf`: what was never granted is unverified.
AuthorityOf(source, concept) ==
    LET held == {g \in grants : g.source = source /\ g.concept = concept}
    IN  IF held = {} THEN Unverified ELSE (CHOOSE g \in held : TRUE).class

-----------------------------------------------------------------------------
(* Conflicts *)

Abs(n) == IF n < 0 THEN -n ELSE n

\* `isMaterial` for amounts: more than the floor of one, and more than half a
\* point of the first.
IsMaterial(a, b) ==
    /\ Abs(a.value - b.value) > 1
    /\ a.value = 0 \/ Abs(a.value - b.value) * 200 > a.value

Outranks(a, b) == a.class < b.class

\* The first of some positions, strongest first; equals stay in the order they arrived.
First(seen, at) ==
    CHOOSE n \in at : \A m \in at \ {n} :
        \/ Outranks(seen[n], seen[m])
        \/ ~Outranks(seen[m], seen[n]) /\ n < m

Disagreeing(governing, others) ==
    {o \in others : o.source # governing.source /\ IsMaterial(governing, o)}

\* `detectConflicts` for one concept: no conflict, or one.
Conflicts(seen, concept) ==
    LET group == {n \in DOMAIN seen : seen[n].concept = concept}
        first == First(seen, group)
        second == seen[First(seen, group \ {first})]
        disagreeing == Disagreeing(seen[first], {seen[n] : n \in group})
    IN  IF (\A n, m \in group : n = m) \/ disagreeing = {} THEN {}
        ELSE {[governed |-> seen[first],
               entries |-> {seen[first]} \cup disagreeing,
               unresolved |-> ~Outranks(seen[first], second) /\ IsMaterial(seen[first], second)]}

-----------------------------------------------------------------------------
(* The page of sources *)

\* `summariseAuthority`: how many concepts a source is trusted for, by class.
SummariseAuthority(s) ==
    [k \in Classes |-> Cardinality({g \in grants : g.source = s /\ g.class = k})]

\* `sources()`: the row of one.
SourceRow(s) ==
    [authority |-> SummariseAuthority(s),
     conflicts |-> Cardinality({c \in Concepts : \E x \in Conflicts(observations, c) :
                                     \E o \in x.entries : o.source = s})]

\* GET /api/sources: the rows, the conflicts and the grants side by side.
SourcesPage ==
    [sources |-> [s \in Sources |-> SourceRow(s)],
     conflicts |-> UNION {Conflicts(observations, c) : c \in Concepts},
     authority |-> grants]

-----------------------------------------------------------------------------
(* Steps *)

Configure(g) ==
    /\ running = "seeding" /\ observations = <<>> /\ Cardinality(grants) < MaxGrants
    /\ grants' = Register(grants, g)
    /\ configured' = grants'
    /\ UNCHANGED <<observations, receipts, running>>

Observe(source, concept, value, class) ==
    [source |-> source, concept |-> concept, value |-> value, class |-> class]

\* A connector's record, with the authority its source has now.  Seeding is over
\* when requests are served.
Sync(source, concept, value) ==
    /\ running = "seeding" /\ Len(observations) < MaxObservations
    /\ observations' = Append(observations, Observe(source, concept, value, AuthorityOf(source, concept)))
    /\ UNCHANGED <<grants, configured, receipts, running>>

Supplementary(u, concept) == [source |-> u, concept |-> concept, class |-> Supplemental, priority |-> 9]
Granted(u, concepts) == {Supplementary(u, c) : c \in concepts}

\* An upload maps some concepts, and is registered for each: a supplemental grant clashes
\* with none.  The file has a column for some of them, in any order, and the receipt
\* records those.
Upload(u, mapped, present, value) ==
    /\ running # "restarted" /\ present \subseteq mapped
    /\ Len(observations) + Cardinality(present) <= MaxObservations
    /\ grants' = Put(grants, Granted(u, mapped))
    /\ \E columns \in [1..Cardinality(present) -> present] :
          /\ present \subseteq Range(columns)
          /\ observations' = observations \o
                [n \in 1..Cardinality(present) |-> Observe(u, columns[n], value, Supplemental)]
    /\ receipts' = [receipts EXCEPT ![u] = @ \cup present]
    /\ running' = "running"
    /\ UNCHANGED configured

\* The order in which the next process lists them: its own seed, then what the store has,
\* in the order of the keys, which begin with the source.
ListingRank(o) == IF o.source \in Systems THEN 0 ELSE Position(o.source)
IsListing(order) ==
    \A n, m \in DOMAIN order : n < m =>
        LET a == observations[order[n]]
            b == observations[order[m]]
        IN  \/ ListingRank(a) < ListingRank(b)
            \/ ListingRank(a) = ListingRank(b) /\ order[n] < order[m]

\* The configuration again, and for every upload what its receipts record.
GrantsRestored == Put(configured, UNION {Granted(u, receipts[u]) : u \in Uploads})

\* `hydrate`, in a process that has seeded itself again.
Restart ==
    /\ running = "running" /\ running' = "restarted"
    /\ grants' = GrantsRestored
    /\ \E order \in [DOMAIN observations -> DOMAIN observations] :
          /\ IsListing(order)
          /\ observations' = [n \in DOMAIN observations |-> observations[order[n]]]
    /\ UNCHANGED <<configured, receipts>>

Next ==
    \/ \E s \in Systems, c \in Concepts, k \in Classes, p \in Priorities :
          Configure([source |-> s, concept |-> c, class |-> k, priority |-> p])
    \/ \E s \in Systems, c \in Concepts, v \in Values : Sync(s, c, v)
    \/ \E u \in Uploads, mapped, present \in SUBSET Concepts, v \in Values : Upload(u, mapped, present, v)
    \/ Restart

Spec == Init /\ [][Next]_vars

-----------------------------------------------------------------------------
(* What they keep to *)

\* Every variable stays within its kind of value, and a source holds one grant
\* for a concept.
TypeOK ==
    /\ grants \subseteq Grants
    /\ \A g, h \in grants : g.source = h.source /\ g.concept = h.concept => g = h
    /\ observations \in Seq(Observations) /\ receipts \in [Uploads -> SUBSET Concepts]
    /\ running \in {"seeding", "running", "restarted"}

\* Authority is unambiguous before anything is ingested: whatever order grants
\* are declared, replaced and restored in, no two sources are authoritative for
\* one concept at one priority.
Unambiguous(gs) ==
    \A g, h \in gs :
        g.class = Authoritative /\ h.class = Authoritative
          /\ g.concept = h.concept /\ g.priority = h.priority => g.source = h.source
OneAuthority == Unambiguous(grants)

\* Why: what a restart begins with is as unambiguous, and what was observed has a class.
AuthorityInv ==
    /\ grants \subseteq Grants /\ OneAuthority
    /\ configured \subseteq Grants /\ Unambiguous(configured)
    /\ observations \in Seq(Observations) /\ receipts \in [Uploads -> SUBSET Concepts]

\* Why: the grants are the configuration's and the uploads', of which the receipts
\* record some; the configuration's are of a smaller priority number than any upload's.
GrantsInv ==
    /\ \A g, h \in grants : g.source = h.source /\ g.concept = h.concept => g = h
    /\ configured = {g \in grants : g.source \in Systems}
    /\ running = "seeding" => grants = configured
    /\ \A g \in grants : IF g.source \in Systems THEN g.priority \in Priorities
                         ELSE g = Supplementary(g.source, g.concept)
    /\ \A u \in Uploads : Granted(u, receipts[u]) \subseteq grants

\* The value a conflict stands behind is never a lower source's: none of the
\* observations of the same figure outranks it.
GovernedIsStrongest ==
    \A c \in Concepts : \A x \in Conflicts(observations, c) :
        \A o \in Range(observations) : o.concept = c => ~Outranks(o, x.governed)

\* Where one source outranks the others, every one of them that materially
\* disagrees with it is named, however many agree, and both rows count it.
EveryDisagreementIsNamed ==
    LET page == SourcesPage
    IN  \A c \in Concepts : \A top, o \in Range(observations) :
          /\ top.concept = c /\ o.concept = c /\ o.source # top.source /\ IsMaterial(top, o)
          /\ \A p \in Range(observations) : p # top /\ p.concept = c => Outranks(top, p)
          => /\ \E x \in page.conflicts : {top, o} \subseteq x.entries
             /\ page.sources[top.source].conflicts > 0 /\ page.sources[o.source].conflicts > 0

\* A restart takes no system's authority and gives none: the source that governs
\* a concept governs it in the next process, unless an upload did; and no source is
\* trusted for more after it.
GovernanceSurvives ==
    running' = "restarted" =>
      /\ \A c \in Concepts : GoverningSource(c) \cap Systems = GoverningSource(c)' \cap Systems
      /\ \A s \in Sources, k \in Classes : SummariseAuthority(s)'[k] <= SummariseAuthority(s)[k]
=============================================================================
