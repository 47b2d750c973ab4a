---------------------------- MODULE Conversation ----------------------------
(***************************************************************************)
(* A conversation with the assistant: the page keeps it, sends it with     *)
(* every question, and replaces it by what comes back.  The server reads a *)
(* question as a plan, refines the conversation's last plan with it,       *)
(* validates the result against the caller's scope, runs it, and answers   *)
(* with the conversation that follows.  A suggested question can be asked  *)
(* while another is being answered.                                        *)
(*                                                                         *)
(* A filter has two dimensions here, one that `narrowBy` knows (`region`)  *)
(* and one that it leaves out (`band`, the assessed RAG).                  *)
(***************************************************************************)
EXTENDS Integers, Sequences, FiniteSets, FiniteSetsExt

CONSTANTS
    Projects,      \* in the order of the governed ranking: 1, 2, ...
    Region, Band,  \* of each project
    Questions,     \* what `planQuestion` makes of the questions asked
    Scopes,        \* the projects each persona may see
    NoProject,
    Many,          \* the limit of a list
    MaxValues,     \* MAX_FILTER_VALUES
    MaxAsks,       \* bound: questions asked
    MaxOpen        \* bound: questions being answered at once

Regions == {Region[p] : p \in Projects}
Bands == {Band[p] : p \in Projects}
Shapes == {"list", "rank", "health"}

ConversationAssumption ==
    /\ Projects \subseteq Nat /\ NoProject \notin Projects
    /\ Scopes \subseteq SUBSET Projects
    /\ Questions \subseteq [shape: Shapes \cup {"declined"}, region: SUBSET Regions,
                            band: SUBSET Bands, project: Projects \cup {NoProject},
                            limit: 1..Many, refinement: BOOLEAN]
    /\ {MaxValues, Many, MaxAsks, MaxOpen} \subseteq Nat

Filters == [region : SUBSET Regions, band : SUBSET Bands, ids : SUBSET Projects]
Plans == [shape: Shapes, filters: Filters, project: Projects \cup {NoProject}, limit: 1..Many]
NoPlan == [shape |-> "none"]

\* `ConversationState`, with the accepted questions its last plan stands on.
NewConversation == [lastPlan |-> NoPlan, population |-> {}, active |-> NoProject, chain |-> <<>>]

VARIABLES
    state,    \* the page's conversation
    open,     \* questions sent, and the answers on their way back
    asked,    \* history: how many were sent
    scope,    \* the projects the caller may see
    shown     \* the answer at the top of the page that was not a refusal

vars == <<state, open, asked, scope, shown>>

NothingShown == [question |-> [shape |-> "none"], plan |-> NoPlan, population |-> {},
                 from |-> NewConversation, scope |-> {}]

Init ==
    /\ state = NewConversation /\ open = {} /\ asked = 0 /\ shown = NothingShown
    /\ scope \in Scopes

\* Every variable stays within its kind of value; a plan that was accepted has
\* the project it needs and no more values than a filter may name.
TypeOK ==
    /\ state.lastPlan \in Plans \cup {NoPlan}
    /\ state.lastPlan # NoPlan =>
          /\ Cardinality(state.lastPlan.filters.ids) <= MaxValues
          /\ state.lastPlan.shape = "health" => state.lastPlan.project # NoProject
    /\ state.population \subseteq UNION Scopes /\ state.active \in Projects \cup {NoProject}
    /\ Cardinality(open) <= MaxOpen /\ asked \in 0..MaxAsks /\ scope \in Scopes

-----------------------------------------------------------------------------
(* Reading a question *)

HasOwnShape(q) == ~(q.refinement /\ q.shape = "list")

Or(these, those) == IF these # {} THEN these ELSE those

\* Mutation: a refinement stays within what the last plan carried.
StaleFilters(s, q) ==
    [region |-> Or(q.region, s.lastPlan.filters.region),
     band |-> Or(q.band, s.lastPlan.filters.band), ids |-> s.lastPlan.filters.ids]

\* `replaceNamedDimensions`, then the carried population.
RefinedFilters(s, q) ==
    [region |-> Or(q.region, s.lastPlan.filters.region),
     band |-> Or(q.band, s.lastPlan.filters.band), ids |-> s.population]

\* `refine`
Refine(s, q) ==
    IF s.lastPlan = NoPlan \/ ~q.refinement
    THEN [shape |-> q.shape, project |-> q.project, limit |-> q.limit,
          filters |-> [region |-> q.region, band |-> q.band, ids |-> {}]]
    ELSE LET shape == IF HasOwnShape(q) THEN q.shape ELSE s.lastPlan.shape
         IN  [shape |-> shape, limit |-> q.limit, filters |-> RefinedFilters(s, q),
              project |-> IF q.project # NoProject THEN q.project
                          ELSE IF shape = "health" THEN s.active ELSE NoProject]

\* `validatePlan`, of what a plan from this planner can get wrong
Valid(plan, authorised) ==
    /\ plan.shape = "health" => plan.project # NoProject
    /\ plan.project # NoProject => plan.project \in authorised
    /\ plan.filters.ids \subseteq authorised
    /\ Cardinality(plan.filters.ids) <= MaxValues

-----------------------------------------------------------------------------
(* Running a plan *)

\* `applyFilters`
Matches(p, f) ==
    /\ f.ids # {} => p \in f.ids
    /\ f.region # {} => Region[p] \in f.region
    /\ f.band # {} => Band[p] \in f.band

\* `narrowBy`: the dimensions that make the ranking filter at all
Narrows(f) == f.region # {} \/ f.ids # {}

FirstOf(ps, n) == {p \in ps : Cardinality({r \in ps : r < p}) < n}

\* `executePlan`: the projects the answer speaks of.
Rows(plan, authorised) ==
    CASE plan.shape = "health" -> {plan.project}
      [] plan.shape = "list" -> FirstOf({p \in authorised : Matches(p, plan.filters)}, plan.limit)
      [] plan.shape = "rank" ->
            FirstOf({p \in authorised : Narrows(plan.filters) => Matches(p, plan.filters)}, plan.limit)

\* An answer without a claim is withheld; a list always has its count.
Answerable(plan, authorised) ==
    Valid(plan, authorised) /\ (plan.shape = "rank" => Rows(plan, authorised) # {})

\* `advance`
Advance(s, q, plan, population) ==
    [lastPlan |-> plan, population |-> population,
     active |-> IF plan.project # NoProject THEN plan.project
                ELSE IF Cardinality(population) = 1 THEN CHOOSE p \in population : TRUE
                ELSE s.active,
     chain |-> IF q.refinement /\ s.lastPlan # NoPlan THEN Append(s.chain, q) ELSE <<q>>]

\* `decline`: the conversation stays what it was.
Decline(e) == [e EXCEPT !.reply = "declined", !.next = e.from]

\* `resolveAsk`, for the question e; a tool may deny what it is asked.
Resolve(e, denied) ==
    IF e.question.shape = "declined" THEN Decline(e)
    ELSE LET plan == Refine(e.from, e.question)
         IN  IF denied \/ ~Answerable(plan, scope) THEN Decline(e)
             ELSE [e EXCEPT !.reply = "answered", !.plan = plan, !.scope = scope,
                            !.next = Advance(e.from, e.question, plan, Rows(plan, scope))]

-----------------------------------------------------------------------------
(* The page and the server *)

\* `ask` on the page: the button is disabled meanwhile, the suggestions are not.
Ask(q) ==
    /\ asked < MaxAsks /\ Cardinality(open) < MaxOpen
    /\ asked' = asked + 1
    /\ open' = open \cup {[id |-> asked, question |-> q, from |-> state, reply |-> "none",
                           plan |-> NoPlan, next |-> state, scope |-> {}]}
    /\ UNCHANGED <<state, scope, shown>>

\* POST /api/ask: each request is resolved against its own conversation and the
\* caller's scope of the moment.
Serve(e) ==
    /\ e.reply = "none"
    /\ \E denied \in BOOLEAN : open' = (open \ {e}) \cup {Resolve(e, denied)}
    /\ UNCHANGED <<state, asked, scope, shown>>

\* The page takes the answer's conversation for its own and shows the answer.
Arrive(e) ==
    /\ e.reply # "none"
    /\ open' = open \ {e} /\ state' = e.next
    /\ shown' = IF e.reply = "declined" THEN shown
                ELSE [question |-> e.question, plan |-> e.plan, population |-> e.next.population,
                      from |-> e.from, scope |-> e.scope]
    /\ UNCHANGED <<asked, scope>>

\* A refused, failed or lost request leaves the page as it was.
Lose(e) == open' = open \ {e} /\ UNCHANGED <<state, asked, scope, shown>>

\* The caller signs in as another persona.
SignIn ==
    /\ scope' \in Scopes \ {scope}
    /\ UNCHANGED <<state, open, asked, shown>>

Next ==
    \/ \E q \in Questions : Ask(q)
    \/ \E e \in open : Serve(e) \/ Arrive(e) \/ Lose(e)
    \/ SignIn

Spec == Init /\ [][Next]_vars

-----------------------------------------------------------------------------
(* What a conversation keeps to *)

IsFollowUp(e) == e.question.shape # "none" /\ e.question.refinement /\ e.from.lastPlan # NoPlan

OnlyNarrows(e, population) ==
    IsFollowUp(e) /\ e.plan.shape # "health" /\ e.from.population # {} =>
        population \subseteq e.from.population \cap e.scope

\* A follow-up about a population only ever narrows what the answer it follows
\* spoke of, and within the scope of whoever asks (ADR-0034: "it can only ever
\* narrow an already-authorised set").
FollowUpsNarrow == OnlyNarrows(shown, shown.population)

Named(chain, dim) == {n \in DOMAIN chain : chain[n][dim] # {}}
LastNamed(chain, dim) ==
    IF Named(chain, dim) = {} THEN {} ELSE chain[Max(Named(chain, dim))][dim]
FiltersAreStated(s) ==
    s.lastPlan # NoPlan => /\ s.lastPlan.filters.region = LastNamed(s.chain, "region")
                           /\ s.lastPlan.filters.band = LastNamed(s.chain, "band")

\* An accepted plan's filters are, dimension by dimension, the last that were
\* named since the last question that started afresh: "Only Automotive", then
\* "Only North America", is both, and a fresh question forgets both.
StatedFiltersHold == FiltersAreStated(state)

\* "Those" are the projects of the last answer the page shows that was not a
\* refusal: "a declined turn does not become the conversation's new state"
\* (orchestrator.ts).
ThoseAreOnTheScreen == state.population = shown.population

IsOfItsFilters(plan, population) ==
    plan # NoPlan /\ plan.shape # "health" /\ plan.filters.region # {} =>
        \A p \in population : Matches(p, plan.filters)

\* What a narrowed answer speaks of is within the scope line above it.
NarrowedAnswersKeepScope == IsOfItsFilters(shown.plan, shown.population)

\* Why: it is so of every answer on its way, and of every conversation a request carries
\* there or back.
Conversations == [lastPlan : Plans \cup {NoPlan}, population : SUBSET Projects,
                  active : Projects \cup {NoProject}, chain : Seq(Questions)]
Told == {s \in Conversations : FiltersAreStated(s)}
Turns == [id : Nat, question : Questions, from : Told, reply : {"none", "declined", "answered"},
          plan : Plans \cup {NoPlan}, next : Told, scope : SUBSET Projects]
Keeps(e) ==
    e.reply = "answered" =>
        OnlyNarrows(e, e.next.population) /\ IsOfItsFilters(e.plan, e.next.population)
TalkInv ==
    /\ state \in Told /\ open \subseteq Turns /\ asked \in Nat /\ scope \in Scopes
    /\ \A e \in open : Keeps(e)
    /\ FollowUpsNarrow /\ NarrowedAnswersKeepScope

\* And where questions wait for each other, the one open was sent with the page's
\* conversation, which nothing else replaces.
AloneInv ==
    /\ ThoseAreOnTheScreen
    /\ \A e, f \in open : e = f
    /\ \A e \in open :
          /\ DOMAIN e = {"id", "question", "from", "reply", "plan", "next", "scope"}
          /\ e.from = state /\ (e.reply # "answered" => e.next = state)
=============================================================================
