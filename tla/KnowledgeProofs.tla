-------------------------- MODULE KnowledgeProofs --------------------------
(***************************************************************************)
(* The parts of the service that hold what is known, proved about the same *)
(* way: the conversation and the filters it carries, the sources and who   *)
(* governs a concept, the documents and their index, the sheets and their  *)
(* rows; and what the next process has of all of these.                    *)
(***************************************************************************)
EXTENDS ServiceProofs

-----------------------------------------------------------------------------
(* The conversation                                                        *)

LEMMA ChatNumbers ==
    /\ Null \notin ChatProjects /\ ChatScopes \subseteq SUBSET ChatProjects
    /\ ChatQuestions \subseteq
          [shape : Chat!Shapes \cup {"declined"}, region : SUBSET Chat!Regions,
           band : SUBSET Chat!Bands, project : ChatProjects \cup {Null},
           limit : 1..ChatMany, refinement : BOOLEAN]
    /\ ChatMaxOpen \in Nat
  BY ConstantsAreTheirs DEF Chat!ConversationAssumption

LEMMA QuestionsAre ==
    ASSUME NEW q \in ChatQuestions
    PROVE  /\ q.shape \in Chat!Shapes \cup {"declined"} /\ q.region \in SUBSET Chat!Regions
           /\ q.band \in SUBSET Chat!Bands /\ q.project \in ChatProjects \cup {Null}
           /\ q.limit \in 1..ChatMany /\ q.refinement \in BOOLEAN
<1>1. q \in [shape : Chat!Shapes \cup {"declined"}, region : SUBSET Chat!Regions,
             band : SUBSET Chat!Bands, project : ChatProjects \cup {Null},
             limit : 1..ChatMany, refinement : BOOLEAN]
  BY ChatNumbers
<1>2. QED
  BY <1>1

\* No plan is a plan of no shape.
LEMMA PlansAre ==
    /\ Chat!NoPlan \notin Chat!Plans
    /\ \A p \in Chat!Plans : p.shape \in Chat!Shapes /\ p.filters \in Chat!Filters
          /\ p.project \in ChatProjects \cup {Null}
<1>1. \A p \in Chat!Plans : p.shape \in Chat!Shapes /\ p.filters \in Chat!Filters
          /\ p.project \in ChatProjects \cup {Null}
  BY DEF Chat!Plans
<1>2. Chat!NoPlan.shape = "none" /\ "none" \notin Chat!Shapes
  BY DEF Chat!NoPlan, Chat!Shapes
<1>3. QED
  BY <1>1, <1>2

\* The largest of a list's positions is one of them.
LEMMA LargestIs ==
    ASSUME NEW n \in Nat, NEW S \in SUBSET (1..n), S # {}
    PROVE  /\ Chat!Max(S) \in S /\ \A k \in S : k <= Chat!Max(S)
           /\ \A m \in S : (\A k \in S : k <= m) => m = Chat!Max(S)
<1>1. \E m \in S : \A k \in S : k <= m
  <2> DEFINE T == {t \in Nat : n - t \in S}
  <2>1. T \subseteq Nat /\ T # {}
    <3>1. PICK k \in S : TRUE
      OBVIOUS
    <3>2. n - k \in T
      BY <3>1
    <3>3. QED
      BY <3>2
  <2>2. PICK t \in T : \A u \in T : t <= u
    BY <2>1, Least
  <2>3. PICK m \in S : t = n - m
    BY <2>2
  <2>4. ASSUME NEW k \in S PROVE k <= m
    <3>1. n - k \in T
      OBVIOUS
    <3>2. t <= n - k
      BY <2>2, <3>1
    <3>3. QED
      BY <2>3, <3>2
  <2>5. QED
    BY <2>4
<1>2. Chat!Max(S) \in S /\ \A k \in S : Chat!Max(S) >= k
  <2>1. \E m \in S : \A k \in S : m >= k
    <3>1. S \subseteq Int
      OBVIOUS
    <3>2. QED
      BY <1>1, <3>1
  <2>2. QED
    BY <2>1 DEF Chat!Max
<1>3. ASSUME NEW m \in S, \A k \in S : k <= m PROVE m = Chat!Max(S)
  <2>0. \A k \in S : k \in Int
    OBVIOUS
  <2>1. m \in Int /\ Chat!Max(S) \in Int
    BY <1>2, <2>0
  <2>2. Chat!Max(S) <= m /\ Chat!Max(S) >= m
    BY <1>2, <1>3
  <2>3. QED
    BY <2>1, <2>2
<1>4. QED
  <2>1. \A k \in S : k \in Int
    OBVIOUS
  <2>2. \A k \in S : k <= Chat!Max(S)
    BY <1>2, <2>1
  <2>3. QED
    BY <1>2, <1>3, <2>2

\* A question asked in a chain: what it names is the last named, and what it does not name
\* stays what it was; a chain begun anew has only what its question names.
LEMMA ChainGrows ==
    ASSUME NEW chain \in Seq(ChatQuestions), NEW q \in ChatQuestions,
           NEW dim \in {"region", "band"}
    PROVE  Chat!LastNamed(Append(chain, q), dim)
              = Chat!Or(q[dim], Chat!LastNamed(chain, dim))
<1> DEFINE longer == Append(chain, q)
           was == Chat!Named(chain, dim)
           is == Chat!Named(longer, dim)
<1>1. /\ Len(chain) \in Nat /\ Len(longer) = Len(chain) + 1 /\ longer[Len(chain) + 1] = q
      /\ \A n \in 1..Len(chain) : longer[n] = chain[n]
      /\ DOMAIN chain = 1..Len(chain) /\ DOMAIN longer = 1..(Len(chain) + 1)
  OBVIOUS
<1>2. was \subseteq 1..Len(chain)
  BY <1>1 DEF Chat!Named
<1> HIDE DEF longer
<1>3. is = was \cup (IF q[dim] # {} THEN {Len(chain) + 1} ELSE {})
  <2>1. is = {n \in 1..(Len(chain) + 1) : longer[n][dim] # {}}
    BY <1>1 DEF Chat!Named
  <2>2. was = {n \in 1..Len(chain) : chain[n][dim] # {}}
    BY <1>1 DEF Chat!Named
  <2>3. \A n : n \in 1..(Len(chain) + 1) <=> n \in 1..Len(chain) \/ n = Len(chain) + 1
    BY <1>1
  <2> HIDE DEF was, is
  <2>4. QED
    BY <1>1, <2>1, <2>2, <2>3
<1>4. CASE q[dim] # {}
  <2>1. is \in SUBSET (1..(Len(chain) + 1)) /\ is # {} /\ Len(chain) + 1 \in is
        /\ \A k \in is : k <= Len(chain) + 1
    BY <1>1, <1>2, <1>3, <1>4
  <2>2. Chat!Max(is) = Len(chain) + 1
    <3> HIDE DEF is
    <3>1. Len(chain) + 1 \in Nat
      BY <1>1
    <3>2. QED
      BY <2>1, <3>1, LargestIs
  <2>3. Chat!LastNamed(longer, dim) = q[dim]
    BY <1>1, <2>1, <2>2 DEF Chat!LastNamed
  <2>4. QED
    BY <1>4, <2>3 DEF Chat!Or, longer
<1>5. CASE q[dim] = {}
  <2>1. is = was
    BY <1>3, <1>5
  <2>2. CASE was = {}
    BY <1>5, <2>1, <2>2 DEF Chat!LastNamed, Chat!Or, longer
  <2>3. CASE was # {}
    <3>1. Chat!Max(was) \in 1..Len(chain)
      <4> HIDE DEF was
      <4>1. QED
        BY <1>1, <1>2, <2>3, LargestIs
    <3>2. longer[Chat!Max(was)] = chain[Chat!Max(was)]
      BY <1>1, <3>1
    <3>3. Chat!LastNamed(longer, dim) = longer[Chat!Max(is)][dim]
      BY <2>1, <2>3 DEF Chat!LastNamed
    <3>4. Chat!LastNamed(chain, dim) = chain[Chat!Max(was)][dim]
      BY <2>3 DEF Chat!LastNamed
    <3>5. QED
      BY <1>5, <2>1, <3>2, <3>3, <3>4 DEF Chat!Or, longer
  <2>4. QED
    BY <2>2, <2>3
<1>6. QED
  BY <1>4, <1>5

LEMMA ChainBegins ==
    ASSUME NEW q \in ChatQuestions, NEW dim \in {"region", "band"}
    PROVE  Chat!LastNamed(<<q>>, dim) = q[dim]
<1>1. /\ <<>> \in Seq(ChatQuestions) /\ Append(<<>>, q) = <<q>>
  OBVIOUS
<1>2. Chat!LastNamed(<<>>, dim) = {}
  BY DEF Chat!LastNamed, Chat!Named
<1>3. Chat!LastNamed(<<q>>, dim) = Chat!Or(q[dim], {})
  BY <1>1, <1>2, ChainGrows
<1>4. QED
  BY <1>3 DEF Chat!Or

\* What a conversation is made of, and an entry on its way.
LEMMA ToldIs ==
    ASSUME NEW s \in Chat!Told
    PROVE  /\ s.lastPlan \in Chat!Plans \cup {Chat!NoPlan} /\ s.population \in SUBSET ChatProjects
           /\ s.active \in ChatProjects \cup {Null} /\ s.chain \in Seq(ChatQuestions)
           /\ Chat!FiltersAreStated(s)
  BY DEF Chat!Told, Chat!Conversations

LEMMA TurnIs ==
    ASSUME NEW e \in Chat!Turns
    PROVE  /\ e.question \in ChatQuestions /\ e.from \in Chat!Told /\ e.next \in Chat!Told
           /\ e.plan \in Chat!Plans \cup {Chat!NoPlan} /\ e.scope \in SUBSET ChatProjects
           /\ e.reply \in {"none", "declined", "answered"} /\ e.id \in Nat
  BY DEF Chat!Turns

\* A follow-up's plan names what its question names, else what the last plan named, and is
\* about the population it follows.
LEMMA RefinedIs ==
    ASSUME NEW s \in Chat!Told, NEW q \in ChatQuestions, q.shape # "declined"
    PROVE  LET plan == Chat!Refine(s, q)
               anew == s.lastPlan = Chat!NoPlan \/ ~q.refinement
           IN  /\ plan \in Chat!Plans
               /\ ~anew => /\ plan.filters.ids = s.population
                           /\ plan.filters.region = Chat!Or(q.region, s.lastPlan.filters.region)
                           /\ plan.filters.band = Chat!Or(q.band, s.lastPlan.filters.band)
               /\ anew => plan.filters.region = q.region /\ plan.filters.band = q.band
<1>1. /\ q.shape \in Chat!Shapes /\ q.region \in SUBSET Chat!Regions /\ q.band \in SUBSET Chat!Bands
      /\ q.project \in ChatProjects \cup {Null} /\ q.limit \in 1..ChatMany
  BY QuestionsAre
<1>2. CASE s.lastPlan = Chat!NoPlan \/ ~q.refinement
  <2> DEFINE f == [region |-> q.region, band |-> q.band, ids |-> {}]
             p == [shape |-> q.shape, project |-> q.project, limit |-> q.limit, filters |-> f]
  <2>1. Chat!Refine(s, q) = p
    BY <1>2 DEF Chat!Refine
  <2>2. f \in Chat!Filters
    BY <1>1 DEF Chat!Filters
  <2>3. p \in Chat!Plans
    BY <1>1, <2>2 DEF Chat!Plans
  <2>4. QED
    BY <1>2, <2>1, <2>3
<1>3. CASE s.lastPlan # Chat!NoPlan /\ q.refinement
  <2> DEFINE f == Chat!RefinedFilters(s, q)
             shape == IF Chat!HasOwnShape(q) THEN q.shape ELSE s.lastPlan.shape
             project == IF q.project # Null THEN q.project
                        ELSE IF shape = "health" THEN s.active ELSE Null
             p == [shape |-> shape, limit |-> q.limit, filters |-> f, project |-> project]
  <2>1. Chat!Refine(s, q) = p
    BY <1>3 DEF Chat!Refine
  <2>2. s.lastPlan \in Chat!Plans /\ s.active \in ChatProjects \cup {Null}
        /\ s.population \in SUBSET ChatProjects
    BY <1>3, ToldIs
  <2>3. s.lastPlan.shape \in Chat!Shapes /\ s.lastPlan.filters \in Chat!Filters
    BY <2>2, PlansAre
  <2>4. f \in Chat!Filters
    BY <1>1, <2>2, <2>3 DEF Chat!Filters, Chat!RefinedFilters, Chat!Or
  <2>5. shape \in Chat!Shapes /\ project \in ChatProjects \cup {Null}
    BY <1>1, <2>2, <2>3
  <2>6. /\ f.ids = s.population /\ f.region = Chat!Or(q.region, s.lastPlan.filters.region)
        /\ f.band = Chat!Or(q.band, s.lastPlan.filters.band)
    BY DEF Chat!RefinedFilters
  <2>7. p \in Chat!Plans /\ p.filters = f
    <3> HIDE DEF f, shape, project
    <3>1. QED
      BY <1>1, <2>4, <2>5 DEF Chat!Plans
  <2> HIDE DEF f, p
  <2>8. QED
    BY <1>3, <2>1, <2>6, <2>7
<1>4. QED
  BY <1>2, <1>3 DEF Chat!Shapes

\* The answer's projects are the caller's; those of a narrowed list or ranking match.
LEMMA RowsAre ==
    ASSUME NEW plan \in Chat!Plans, NEW authorised \in SUBSET ChatProjects,
           Chat!Valid(plan, authorised)
    PROVE  /\ Chat!Rows(plan, authorised) \in SUBSET authorised
           /\ plan.shape # "health" /\ Chat!Narrows(plan.filters) =>
                 \A p \in Chat!Rows(plan, authorised) : Chat!Matches(p, plan.filters)
<1>1. \A ps, n : Chat!FirstOf(ps, n) \subseteq ps
  BY DEF Chat!FirstOf
<1>2. plan.shape \in {"list", "rank", "health"}
  BY PlansAre DEF Chat!Shapes
<1>3. CASE plan.shape = "health"
  <2>1. Chat!Rows(plan, authorised) = {plan.project}
    BY <1>3 DEF Chat!Rows
  <2>2. plan.project \in authorised
    BY <1>3 DEF Chat!Valid
  <2>3. QED
    BY <1>3, <2>1, <2>2
<1>4. CASE plan.shape = "list"
  <2> DEFINE ps == {p \in authorised : Chat!Matches(p, plan.filters)}
  <2>1. Chat!Rows(plan, authorised) = Chat!FirstOf(ps, plan.limit)
    BY <1>4 DEF Chat!Rows
  <2>2. Chat!Rows(plan, authorised) \subseteq ps
    BY <1>1, <2>1
  <2>3. QED
    BY <2>2
<1>5. CASE plan.shape = "rank"
  <2> DEFINE ps == {p \in authorised :
                       Chat!Narrows(plan.filters) => Chat!Matches(p, plan.filters)}
  <2>1. Chat!Rows(plan, authorised) = Chat!FirstOf(ps, plan.limit)
    BY <1>5 DEF Chat!Rows
  <2>2. Chat!Rows(plan, authorised) \subseteq ps
    BY <1>1, <2>1
  <2>3. QED
    BY <2>2
<1>6. QED
  BY <1>2, <1>3, <1>4, <1>5

\* The conversation that follows an answer.
LEMMA AdvancedIs ==
    ASSUME NEW s \in Chat!Told, NEW q \in ChatQuestions, q.shape # "declined",
           NEW population \in SUBSET ChatProjects
    PROVE  LET next == Chat!Advance(s, q, Chat!Refine(s, q), population)
           IN  next \in Chat!Told /\ next.population = population
<1> DEFINE plan == Chat!Refine(s, q)
           anew == s.lastPlan = Chat!NoPlan \/ ~q.refinement
           active == IF plan.project # Null THEN plan.project
                     ELSE IF Chat!Cardinality(population) = 1 THEN CHOOSE p \in population : TRUE
                     ELSE s.active
           chain == IF q.refinement /\ s.lastPlan # Chat!NoPlan THEN Append(s.chain, q) ELSE <<q>>
           next == [lastPlan |-> plan, population |-> population, active |-> active, chain |-> chain]
<1>1. /\ plan \in Chat!Plans
      /\ ~anew => /\ plan.filters.region = Chat!Or(q.region, s.lastPlan.filters.region)
                  /\ plan.filters.band = Chat!Or(q.band, s.lastPlan.filters.band)
      /\ anew => plan.filters.region = q.region /\ plan.filters.band = q.band
  BY RefinedIs
<1>2. s.chain \in Seq(ChatQuestions) /\ s.active \in ChatProjects \cup {Null}
      /\ Chat!FiltersAreStated(s)
  BY ToldIs
<1>3. Chat!Advance(s, q, plan, population) = next
  BY DEF Chat!Advance
<1> HIDE DEF plan
<1>4. active \in ChatProjects \cup {Null}
  <2>1. Chat!Cardinality({}) # 1
    <3>1. Chat!Cardinality({}) = Cardinality({})
      BY DEF Chat!Cardinality, Cardinality
    <3>2. QED
      BY <3>1, FS_EmptySet
  <2>2. plan.project \in ChatProjects \cup {Null}
    BY <1>1, PlansAre
  <2>3. Chat!Cardinality(population) = 1 => (CHOOSE p \in population : TRUE) \in ChatProjects
    BY <2>1
  <2>4. QED
    BY <1>2, <2>2, <2>3
<1>5. chain \in Seq(ChatQuestions)
  BY <1>2
<1>6. plan.filters.region = Chat!LastNamed(chain, "region")
      /\ plan.filters.band = Chat!LastNamed(chain, "band")
  <2>1. CASE anew
    <3>1. chain = <<q>>
      BY <2>1
    <3>2. Chat!LastNamed(chain, "region") = q["region"] /\ Chat!LastNamed(chain, "band") = q["band"]
      BY <3>1, ChainBegins
    <3>3. QED
      BY <1>1, <2>1, <3>2
  <2>2. CASE ~anew
    <3>1. chain = Append(s.chain, q)
      BY <2>2
    <3>2. /\ Chat!LastNamed(chain, "region")
                = Chat!Or(q["region"], Chat!LastNamed(s.chain, "region"))
          /\ Chat!LastNamed(chain, "band") = Chat!Or(q["band"], Chat!LastNamed(s.chain, "band"))
      BY <1>2, <3>1, ChainGrows
    <3>3. s.lastPlan.filters.region = Chat!LastNamed(s.chain, "region")
          /\ s.lastPlan.filters.band = Chat!LastNamed(s.chain, "band")
      BY <1>2, <2>2 DEF Chat!FiltersAreStated
    <3>4. QED
      BY <1>1, <2>2, <3>2, <3>3
  <2>3. QED
    BY <2>1, <2>2
<1> HIDE DEF active, chain
<1>7. next \in Chat!Conversations
  BY <1>1, <1>4, <1>5 DEF Chat!Conversations
<1>8. Chat!FiltersAreStated(next)
  BY <1>6 DEF Chat!FiltersAreStated
<1>9. QED
  BY <1>3, <1>7, <1>8 DEF Chat!Told, plan

\* A request is resolved: refused with the conversation it came with, or answered within
\* its filters, the population it follows, and the caller's scope.
LEMMA ResolvedIs ==
    ASSUME NEW e \in Chat!Turns, e.reply = "none", NEW denied \in BOOLEAN,
           conversation_scope \in ChatScopes
    PROVE  Chat!Resolve(e, denied) \in Chat!Turns /\ Chat!Keeps(Chat!Resolve(e, denied))
<1> DEFINE q == e.question
           plan == Chat!Refine(e.from, q)
           rows == Chat!Rows(plan, conversation_scope)
           next == Chat!Advance(e.from, q, plan, rows)
           answered == [e EXCEPT !.reply = "answered", !.plan = plan, !.scope = conversation_scope,
                                 !.next = next]
<1>1. q \in ChatQuestions /\ e.from \in Chat!Told
  BY TurnIs
<1>2. conversation_scope \in SUBSET ChatProjects
  BY ChatNumbers
<1>3. CASE Chat!Resolve(e, denied) = Chat!Decline(e)
  <2>1. Chat!Decline(e) \in Chat!Turns /\ Chat!Decline(e).reply = "declined"
    BY DEF Chat!Decline, Chat!Turns
  <2>2. QED
    BY <1>3, <2>1 DEF Chat!Keeps
<1>4. CASE Chat!Resolve(e, denied) # Chat!Decline(e)
  <2>1. /\ Chat!Resolve(e, denied) = answered
        /\ q.shape # "declined" /\ Chat!Valid(plan, conversation_scope)
    BY <1>4 DEF Chat!Resolve, Chat!Answerable
  <2>2. plan \in Chat!Plans
    BY <1>1, <2>1, RefinedIs
  <2>3. /\ rows \in SUBSET conversation_scope
        /\ plan.shape # "health" /\ Chat!Narrows(plan.filters) =>
              \A p \in rows : Chat!Matches(p, plan.filters)
    <3> HIDE DEF plan
    <3>1. QED
      BY <1>2, <2>1, <2>2, RowsAre
  <2>4. next \in Chat!Told /\ next.population = rows
    <3>1. rows \in SUBSET ChatProjects
      BY <1>2, <2>3
    <3> HIDE DEF rows
    <3>2. QED
      BY <1>1, <2>1, <3>1, AdvancedIs
  <2>5. q.refinement /\ e.from.lastPlan # Chat!NoPlan => plan.filters.ids = e.from.population
    BY <1>1, <2>1, RefinedIs
  <2>6. e.from = [e EXCEPT !.reply = "answered", !.plan = plan, !.scope = conversation_scope,
                           !.next = next].from
    BY DEF Chat!Turns
  <2> HIDE DEF plan, rows, next
  <2>7. /\ answered \in Chat!Turns /\ answered.question = q /\ answered.from = e.from
        /\ answered.plan = plan /\ answered.scope = conversation_scope /\ answered.next = next
    BY <1>2, <2>2, <2>4 DEF Chat!Turns
  <2> HIDE DEF answered
  <2>8. Chat!OnlyNarrows(answered, answered.next.population)
    <3> SUFFICES ASSUME Chat!IsFollowUp(answered), plan.shape # "health",
                        e.from.population # {}
                 PROVE  rows \subseteq e.from.population \cap conversation_scope
      BY <2>4, <2>7 DEF Chat!OnlyNarrows
    <3>1. plan.filters.ids = e.from.population
      BY <2>5, <2>7 DEF Chat!IsFollowUp
    <3>2. Chat!Narrows(plan.filters)
      BY <3>1 DEF Chat!Narrows
    <3>3. \A p \in rows : p \in plan.filters.ids
      BY <2>3, <3>1, <3>2 DEF Chat!Matches
    <3>4. QED
      BY <2>3, <3>1, <3>3
  <2>9. Chat!IsOfItsFilters(answered.plan, answered.next.population)
    BY <2>3, <2>4, <2>7 DEF Chat!IsOfItsFilters, Chat!Narrows
  <2>10. QED
    BY <2>1, <2>7, <2>8, <2>9 DEF Chat!Keeps
<1>5. QED
  BY <1>3, <1>4

LEMMA TalkBegins == Chat!Init => Chat!TalkInv
<1> SUFFICES ASSUME Chat!Init PROVE Chat!TalkInv
  OBVIOUS
<1>1. Chat!NewConversation \in Chat!Told
  <2>1. <<>> \in Seq(ChatQuestions)
    OBVIOUS
  <2>2. Chat!NewConversation \in Chat!Conversations
    BY <2>1 DEF Chat!NewConversation, Chat!Conversations
  <2>3. Chat!NewConversation.lastPlan = Chat!NoPlan
    BY DEF Chat!NewConversation
  <2>4. QED
    BY <2>2, <2>3 DEF Chat!Told, Chat!FiltersAreStated
<1>2. /\ conversation_state \in Chat!Told /\ conversation_open = {} /\ conversation_asked = 0
      /\ conversation_scope \in ChatScopes /\ conversation_shown = Chat!NothingShown
  BY <1>1 DEF Chat!Init
<1>3. Chat!NothingShown.question.shape = "none" /\ Chat!NothingShown.plan = Chat!NoPlan
  BY DEF Chat!NothingShown
<1>4. QED
  BY <1>2, <1>3 DEF Chat!TalkInv, Chat!FollowUpsNarrow, Chat!NarrowedAnswersKeepScope,
     Chat!OnlyNarrows, Chat!IsFollowUp, Chat!IsOfItsFilters

LEMMA TalkMoves ==
    Chat!TalkInv /\ (Chat!Next \/ UNCHANGED conversationVars) => Chat!TalkInv'
<1> SUFFICES ASSUME Chat!TalkInv, Chat!Next \/ UNCHANGED conversationVars PROVE Chat!TalkInv'
  OBVIOUS
<1>0. /\ conversation_state \in Chat!Told /\ conversation_open \subseteq Chat!Turns
      /\ conversation_asked \in Nat /\ conversation_scope \in ChatScopes
      /\ \A e \in conversation_open : Chat!Keeps(e)
      /\ Chat!FollowUpsNarrow /\ Chat!NarrowedAnswersKeepScope
  BY DEF Chat!TalkInv
<1>a. ASSUME conversation_shown' = conversation_shown
      PROVE  (Chat!FollowUpsNarrow /\ Chat!NarrowedAnswersKeepScope)'
  BY <1>0, <1>a DEF Chat!FollowUpsNarrow, Chat!NarrowedAnswersKeepScope
<1>1. ASSUME NEW q \in ChatQuestions, Chat!Ask(q) PROVE Chat!TalkInv'
  <2> DEFINE e == [id |-> conversation_asked, question |-> q, from |-> conversation_state,
                   reply |-> "none", plan |-> Chat!NoPlan, next |-> conversation_state,
                   scope |-> {}]
  <2>1. /\ conversation_open' = conversation_open \cup {e}
        /\ conversation_asked' = conversation_asked + 1
        /\ conversation_state' = conversation_state /\ conversation_scope' = conversation_scope
        /\ conversation_shown' = conversation_shown
    BY <1>1 DEF Chat!Ask
  <2>2. e \in Chat!Turns /\ e.reply = "none"
    BY <1>0 DEF Chat!Turns
  <2> HIDE DEF e
  <2>3. Chat!Keeps(e)
    BY <2>2 DEF Chat!Keeps
  <2>4. QED
    BY <1>0, <1>a, <2>1, <2>2, <2>3 DEF Chat!TalkInv
<1>2. ASSUME NEW e \in conversation_open, Chat!Serve(e) PROVE Chat!TalkInv'
  <2>1. PICK denied \in BOOLEAN :
           conversation_open' = (conversation_open \ {e}) \cup {Chat!Resolve(e, denied)}
    BY <1>2 DEF Chat!Serve
  <2>2. /\ e.reply = "none" /\ conversation_asked' = conversation_asked
        /\ conversation_state' = conversation_state /\ conversation_scope' = conversation_scope
        /\ conversation_shown' = conversation_shown
    BY <1>2 DEF Chat!Serve
  <2>3. Chat!Resolve(e, denied) \in Chat!Turns /\ Chat!Keeps(Chat!Resolve(e, denied))
    BY <1>0, <2>2, ResolvedIs
  <2>4. QED
    BY <1>0, <1>a, <2>1, <2>2, <2>3 DEF Chat!TalkInv
<1>3. ASSUME NEW e \in conversation_open, Chat!Arrive(e) PROVE Chat!TalkInv'
  <2>1. /\ e.reply # "none" /\ conversation_open' = conversation_open \ {e}
        /\ conversation_state' = e.next
        /\ conversation_asked' = conversation_asked /\ conversation_scope' = conversation_scope
    BY <1>3 DEF Chat!Arrive
  <2>2. e.next \in Chat!Told /\ e.reply \in {"none", "declined", "answered"}
    BY <1>0, TurnIs
  <2>3. (Chat!FollowUpsNarrow /\ Chat!NarrowedAnswersKeepScope)'
    <3>1. CASE e.reply = "declined"
      BY <1>3, <1>a, <3>1 DEF Chat!Arrive
    <3>2. CASE e.reply # "declined"
      <4>1. conversation_shown' = [question |-> e.question, plan |-> e.plan,
                population |-> e.next.population, from |-> e.from, scope |-> e.scope]
        BY <1>3, <3>2 DEF Chat!Arrive
      <4>2. Chat!OnlyNarrows(e, e.next.population)
            /\ Chat!IsOfItsFilters(e.plan, e.next.population)
        BY <1>0, <2>1, <2>2, <3>2 DEF Chat!Keeps
      <4>3. /\ conversation_shown'.question = e.question /\ conversation_shown'.plan = e.plan
            /\ conversation_shown'.population = e.next.population
            /\ conversation_shown'.from = e.from /\ conversation_shown'.scope = e.scope
        BY <4>1
      <4>4. QED
        BY <4>2, <4>3 DEF Chat!FollowUpsNarrow, Chat!NarrowedAnswersKeepScope,
           Chat!OnlyNarrows, Chat!IsFollowUp, Chat!IsOfItsFilters
    <3>3. QED
      BY <3>1, <3>2
  <2>4. QED
    BY <1>0, <2>1, <2>2, <2>3 DEF Chat!TalkInv
<1>4. ASSUME NEW e \in conversation_open, Chat!Lose(e) PROVE Chat!TalkInv'
  <2>1. /\ conversation_open' = conversation_open \ {e} /\ conversation_asked' = conversation_asked
        /\ conversation_state' = conversation_state /\ conversation_scope' = conversation_scope
        /\ conversation_shown' = conversation_shown
    BY <1>4 DEF Chat!Lose
  <2>2. QED
    BY <1>0, <1>a, <2>1 DEF Chat!TalkInv
<1>5. CASE Chat!SignIn
  <2>1. /\ conversation_open' = conversation_open /\ conversation_asked' = conversation_asked
        /\ conversation_state' = conversation_state /\ conversation_scope' \in ChatScopes
        /\ conversation_shown' = conversation_shown
    BY <1>5 DEF Chat!SignIn
  <2>2. QED
    BY <1>0, <1>a, <2>1 DEF Chat!TalkInv
<1>6. CASE UNCHANGED conversationVars
  <2>1. /\ conversation_open' = conversation_open /\ conversation_asked' = conversation_asked
        /\ conversation_state' = conversation_state /\ conversation_scope' = conversation_scope
        /\ conversation_shown' = conversation_shown
    BY <1>6 DEF conversationVars
  <2>2. QED
    BY <1>0, <1>a, <2>1 DEF Chat!TalkInv
<1>7. QED
  BY <1>1, <1>2, <1>3, <1>4, <1>5, <1>6 DEF Chat!Next

LEMMA AloneBegins == ChatAlone!Init => ChatAlone!AloneInv
  BY DEF ChatAlone!Init, ChatAlone!AloneInv, ChatAlone!ThoseAreOnTheScreen,
         ChatAlone!NewConversation, ChatAlone!NothingShown

LEMMA AloneMoves ==
    ChatAlone!AloneInv /\ (ChatAlone!Next \/ UNCHANGED conversationVars) => ChatAlone!AloneInv'
<1> DEFINE Fields == {"id", "question", "from", "reply", "plan", "next", "scope"}
<1> SUFFICES ASSUME ChatAlone!AloneInv, ChatAlone!Next \/ UNCHANGED conversationVars
             PROVE  ChatAlone!AloneInv'
  OBVIOUS
<1>0. /\ conversation_state.population = conversation_shown.population
      /\ \A e, f \in conversation_open : e = f
      /\ \A e \in conversation_open :
            /\ DOMAIN e = Fields /\ e.from = conversation_state
            /\ e.reply # "answered" => e.next = conversation_state
  BY DEF ChatAlone!AloneInv, ChatAlone!ThoseAreOnTheScreen
<1>1. ASSUME NEW q \in ChatQuestions, ChatAlone!Ask(q) PROVE ChatAlone!AloneInv'
  <2> DEFINE e == [id |-> conversation_asked, question |-> q, from |-> conversation_state,
                   reply |-> "none", plan |-> ChatAlone!NoPlan, next |-> conversation_state,
                   scope |-> {}]
  <2>1. /\ ChatAlone!Cardinality(conversation_open) < 1
        /\ conversation_open' = conversation_open \cup {e}
        /\ conversation_state' = conversation_state /\ conversation_shown' = conversation_shown
    BY <1>1 DEF ChatAlone!Ask
  <2>2. conversation_open = {}
    <3>1. \A S : ChatAlone!Cardinality(S) = Cardinality(S)
      BY DEF ChatAlone!Cardinality, Cardinality
    <3>2. ASSUME NEW f \in conversation_open PROVE FALSE
      <4>1. conversation_open = {f}
        BY <1>0
      <4>2. Cardinality(conversation_open) = 1
        BY <4>1, FS_Singleton
      <4>3. QED
        BY <2>1, <3>1, <4>2
    <3>3. QED
      BY <3>2
  <2>3. /\ DOMAIN e = Fields /\ e.from = conversation_state /\ e.next = conversation_state
    OBVIOUS
  <2> HIDE DEF e
  <2>4. QED
    BY <1>0, <2>1, <2>2, <2>3 DEF ChatAlone!AloneInv, ChatAlone!ThoseAreOnTheScreen
<1>2. ASSUME NEW e \in conversation_open, ChatAlone!Serve(e) PROVE ChatAlone!AloneInv'
  <2>1. PICK denied \in BOOLEAN :
           conversation_open' = (conversation_open \ {e}) \cup {ChatAlone!Resolve(e, denied)}
    BY <1>2 DEF ChatAlone!Serve
  <2>2. /\ conversation_state' = conversation_state /\ conversation_shown' = conversation_shown
        /\ conversation_open' = {ChatAlone!Resolve(e, denied)}
    BY <1>0, <1>2, <2>1 DEF ChatAlone!Serve
  <2> DEFINE r == ChatAlone!Resolve(e, denied)
  <2>3. /\ DOMAIN r = Fields /\ r.from = conversation_state
        /\ r.reply # "answered" => r.next = conversation_state
    <3>0. DOMAIN e = Fields /\ e.from = conversation_state
      BY <1>0
    <3>1. CASE r = ChatAlone!Decline(e)
      BY <3>0, <3>1 DEF ChatAlone!Decline
    <3>2. CASE r # ChatAlone!Decline(e)
      <4>1. PICK plan, rows, next :
               r = [e EXCEPT !.reply = "answered", !.plan = plan, !.scope = rows, !.next = next]
        BY <3>2 DEF ChatAlone!Resolve
      <4>2. QED
        BY <3>0, <4>1
    <3>3. QED
      BY <3>1, <3>2
  <2> HIDE DEF r
  <2>4. QED
    BY <1>0, <2>2, <2>3 DEF ChatAlone!AloneInv, ChatAlone!ThoseAreOnTheScreen, r
<1>3. ASSUME NEW e \in conversation_open, ChatAlone!Arrive(e) PROVE ChatAlone!AloneInv'
  <2>1. /\ conversation_open' = {} /\ conversation_state' = e.next
    BY <1>0, <1>3 DEF ChatAlone!Arrive
  <2>2. conversation_state'.population = conversation_shown'.population
    <3>1. CASE e.reply = "declined"
      <4>1. conversation_shown' = conversation_shown /\ e.next = conversation_state
        BY <1>0, <1>3, <3>1 DEF ChatAlone!Arrive
      <4>2. QED
        BY <1>0, <2>1, <4>1
    <3>2. CASE e.reply # "declined"
      <4>1. conversation_shown' = [question |-> e.question, plan |-> e.plan,
                population |-> e.next.population, from |-> e.from, scope |-> e.scope]
        BY <1>3, <3>2 DEF ChatAlone!Arrive
      <4>2. QED
        BY <2>1, <4>1
    <3>3. QED
      BY <3>1, <3>2
  <2>3. QED
    BY <2>1, <2>2 DEF ChatAlone!AloneInv, ChatAlone!ThoseAreOnTheScreen
<1>4. ASSUME NEW e \in conversation_open, ChatAlone!Lose(e) PROVE ChatAlone!AloneInv'
  <2>1. /\ conversation_open' = conversation_open \ {e}
        /\ conversation_state' = conversation_state /\ conversation_shown' = conversation_shown
    BY <1>4 DEF ChatAlone!Lose
  <2>2. QED
    BY <1>0, <2>1 DEF ChatAlone!AloneInv, ChatAlone!ThoseAreOnTheScreen
<1>5. CASE ChatAlone!SignIn \/ UNCHANGED conversationVars
  <2>1. /\ conversation_open' = conversation_open
        /\ conversation_state' = conversation_state /\ conversation_shown' = conversation_shown
    BY <1>5 DEF ChatAlone!SignIn, conversationVars
  <2>2. QED
    BY <1>0, <2>1 DEF ChatAlone!AloneInv, ChatAlone!ThoseAreOnTheScreen
<1>6. QED
  BY <1>1, <1>2, <1>3, <1>4, <1>5 DEF ChatAlone!Next

\* A follow-up narrows what was asked and answers within the caller's scope, whatever was
\* asked beside it; asked one at a time, "those" are the projects on the screen
\* (conversation.ts, gl-assistant.ts).
THEOREM FollowUpsAlwaysKeepScope == ServiceSpec => []FollowUpsKeepScope
<1> DEFINE Inv == /\ part = "conversation" => Chat!TalkInv
                  /\ part = "alone" => ChatAlone!AloneInv
<1>1. ServiceInit => Inv
  BY Starts, TalkBegins, AloneBegins
<1>2. Inv /\ [ServiceNext]_serviceVars => Inv'
  BY Moves, TalkMoves, AloneMoves
<1>3. Inv => FollowUpsKeepScope
  BY DEF FollowUpsKeepScope, Chat!TalkInv, Chat!StatedFiltersHold, Chat!Told, ChatAlone!AloneInv
<1>4. QED
  BY <1>1, <1>2, <1>3, PTL DEF ServiceSpec
(* Authority: who is believed                                              *)

\* Every source is a system's or an upload's, and a class is a number.
LEMMA ClassesAre ==
    /\ Authority!Classes \cup {Authority!Unverified} \subseteq Nat
    /\ Authority!Supplemental \in Authority!Classes
    /\ Authority!Supplemental # Authority!Authoritative
BY DEF Authority!Classes, Authority!Unverified, Authority!Supplemental, Authority!Authoritative

LEMMA ConceptsAreFinite == IsFiniteSet(AuthorityConcepts)
BY ConstantsAreTheirs DEF Authority!AuthorityAssumption, Authority!IsFiniteSet, IsFiniteSet

\* What replaces the grants of its source and concept adds no second authority, unless it
\* clashes with one that stays.
LEMMA PutStaysUnambiguous ==
    ASSUME NEW gs, gs \subseteq Authority!Grants, Authority!Unambiguous(gs),
           NEW new, new \subseteq Authority!Grants, Authority!Unambiguous(new),
           \A g \in new : ~Authority!Clashes(gs, g)
    PROVE  /\ Authority!Put(gs, new) \subseteq Authority!Grants
           /\ Authority!Unambiguous(Authority!Put(gs, new))
BY DEF Authority!Put, Authority!Unambiguous, Authority!Clashes

LEMMA RegisterStaysUnambiguous ==
    ASSUME NEW gs, gs \subseteq Authority!Grants, Authority!Unambiguous(gs),
           NEW g \in Authority!Grants
    PROVE  /\ Authority!Register(gs, g) \subseteq Authority!Grants
           /\ Authority!Unambiguous(Authority!Register(gs, g))
<1>1. Authority!Unambiguous({g}) /\ {g} \subseteq Authority!Grants
  BY DEF Authority!Unambiguous
<1>2. QED
  BY <1>1, PutStaysUnambiguous DEF Authority!Register

\* What uploads are granted is never authoritative, so it clashes with nothing.
LEMMA GrantedIsSupplemental ==
    ASSUME NEW new, \A g \in new : \E u \in AuthorityUploads, c \in AuthorityConcepts :
                                       g = Authority!Supplementary(u, c)
    PROVE  /\ new \subseteq Authority!Grants /\ Authority!Unambiguous(new)
           /\ \A gs : \A g \in new : ~Authority!Clashes(gs, g)
<1>1. \A u \in AuthorityUploads, c \in AuthorityConcepts :
        /\ Authority!Supplementary(u, c) \in Authority!Grants
        /\ Authority!Supplementary(u, c).class # Authority!Authoritative
  BY DEF Authority!Supplementary, Authority!Grants, Authority!Sources, Authority!Classes,
         Authority!Supplemental, Authority!Authoritative
<1>2. QED
  BY <1>1 DEF Authority!Unambiguous, Authority!Clashes

LEMMA AuthorityBegins == Authority!Init => Authority!AuthorityInv
BY DEF Authority!Init, Authority!AuthorityInv, Authority!OneAuthority, Authority!Unambiguous

LEMMA ConfigureMoves ==
    ASSUME Authority!AuthorityInv, NEW g \in Authority!Grants, Authority!Configure(g)
    PROVE  Authority!AuthorityInv'
<1>1. /\ authority_grants' \subseteq Authority!Grants
      /\ Authority!Unambiguous(authority_grants')
  BY RegisterStaysUnambiguous
     DEF Authority!Configure, Authority!AuthorityInv, Authority!OneAuthority
<1>2. QED
  BY <1>1 DEF Authority!Configure, Authority!AuthorityInv, Authority!OneAuthority,
              Authority!Unambiguous

LEMMA SyncMoves ==
    ASSUME Authority!AuthorityInv, NEW s \in AuthoritySystems, NEW c \in AuthorityConcepts,
           NEW v \in AuthorityValues, Authority!Sync(s, c, v)
    PROVE  Authority!AuthorityInv'
<1>1. Authority!AuthorityOf(s, c) \in Authority!Classes \cup {Authority!Unverified}
  BY DEF Authority!AuthorityOf, Authority!AuthorityInv, Authority!Grants
<1>2. Authority!Observe(s, c, v, Authority!AuthorityOf(s, c)) \in Authority!Observations
  BY <1>1 DEF Authority!Observe, Authority!Observations, Authority!Sources
<1>3. authority_observations' \in Seq(Authority!Observations)
  BY <1>2 DEF Authority!Sync, Authority!AuthorityInv
<1>4. QED
  BY <1>3 DEF Authority!Sync, Authority!AuthorityInv, Authority!OneAuthority,
              Authority!Unambiguous

LEMMA UploadMoves ==
    ASSUME Authority!AuthorityInv, NEW u \in AuthorityUploads,
           NEW mapped \in SUBSET AuthorityConcepts, NEW present \in SUBSET AuthorityConcepts,
           NEW v \in AuthorityValues, Authority!Upload(u, mapped, present, v)
    PROVE  Authority!AuthorityInv'
<1> DEFINE new == Authority!Granted(u, mapped)
<1>1. \A g \in new : \E x \in AuthorityUploads, c \in AuthorityConcepts :
                        g = Authority!Supplementary(x, c)
  BY DEF Authority!Granted
<1> HIDE DEF new
<1>2. /\ authority_grants' \subseteq Authority!Grants
      /\ Authority!Unambiguous(authority_grants')
  <2>1. authority_grants' = Authority!Put(authority_grants, new)
    BY DEF Authority!Upload, new
  <2>2. QED
    BY <1>1, <2>1, GrantedIsSupplemental, PutStaysUnambiguous
       DEF Authority!AuthorityInv, Authority!OneAuthority
<1>3. authority_observations' \in Seq(Authority!Observations)
  <2> DEFINE size == Authority!Cardinality(present)
  <2>1. PICK columns \in [1..size -> present] :
          authority_observations' = authority_observations \o
             [n \in 1..size |-> Authority!Observe(u, columns[n], v, Authority!Supplemental)]
    BY DEF Authority!Upload
  <2>2. \A n \in 1..size :
          Authority!Observe(u, columns[n], v, Authority!Supplemental) \in Authority!Observations
    BY ClassesAre DEF Authority!Observe, Authority!Observations, Authority!Sources
  <2>3. size \in Nat
    <3>1. IsFiniteSet(present)
      BY FS_Subset, ConceptsAreFinite
    <3>2. QED
      BY <3>1, FS_CardinalityType DEF Authority!Cardinality, Cardinality
  <2> HIDE DEF size
  <2> DEFINE more == [n \in 1..size |->
                        Authority!Observe(u, columns[n], v, Authority!Supplemental)]
  <2>4. more \in Seq(Authority!Observations)
    BY <2>2, <2>3
  <2>5. authority_observations' = authority_observations \o more
    BY <2>1
  <2>6. authority_observations \in Seq(Authority!Observations)
    BY DEF Authority!AuthorityInv
  <2> HIDE DEF more
  <2>7. QED
    BY <2>4, <2>5, <2>6
<1>4. authority_receipts' \in [AuthorityUploads -> SUBSET AuthorityConcepts]
  BY DEF Authority!Upload, Authority!AuthorityInv
<1>5. QED
  BY <1>2, <1>3, <1>4 DEF Authority!Upload, Authority!AuthorityInv, Authority!OneAuthority,
                          Authority!Unambiguous

LEMMA RestartMoves ==
    ASSUME Authority!AuthorityInv, Authority!Restart
    PROVE  Authority!AuthorityInv'
<1> DEFINE new == UNION {Authority!Granted(u, authority_receipts[u]) : u \in AuthorityUploads}
<1>1. \A g \in new : \E x \in AuthorityUploads, c \in AuthorityConcepts :
                        g = Authority!Supplementary(x, c)
  BY DEF Authority!Granted, Authority!AuthorityInv
<1>a. authority_grants' = Authority!Put(authority_configured, new)
  BY DEF Authority!Restart, Authority!GrantsRestored
<1> HIDE DEF new
<1>2. /\ authority_grants' \subseteq Authority!Grants
      /\ Authority!Unambiguous(authority_grants')
  BY <1>1, <1>a, GrantedIsSupplemental, PutStaysUnambiguous DEF Authority!AuthorityInv
<1>3. authority_observations' \in Seq(Authority!Observations)
  <2> DEFINE at == DOMAIN authority_observations
  <2>1. PICK order \in [at -> at] :
          authority_observations' = [n \in at |-> authority_observations[order[n]]]
    BY DEF Authority!Restart
  <2>2. PICK len \in Nat : at = 1..len
    BY DEF Authority!AuthorityInv
  <2>3. \A n \in at : authority_observations[order[n]] \in Authority!Observations
    BY DEF Authority!AuthorityInv
  <2> HIDE DEF at
  <2>4. QED
    BY <2>1, <2>2, <2>3
<1>4. QED
  BY <1>2, <1>3 DEF Authority!Restart, Authority!AuthorityInv, Authority!OneAuthority,
                    Authority!Unambiguous

LEMMA AuthorityMoves ==
    ASSUME Authority!AuthorityInv, Authority!Next \/ UNCHANGED authorityVars
    PROVE  Authority!AuthorityInv'
<1>1. CASE UNCHANGED authorityVars
  BY <1>1 DEF authorityVars, Authority!AuthorityInv, Authority!OneAuthority,
              Authority!Unambiguous
<1>2. ASSUME NEW s \in AuthoritySystems, NEW c \in AuthorityConcepts,
             NEW k \in Authority!Classes, NEW p \in Authority!Priorities,
             Authority!Configure([source |-> s, concept |-> c, class |-> k, priority |-> p])
      PROVE  Authority!AuthorityInv'
  <2>1. [source |-> s, concept |-> c, class |-> k, priority |-> p] \in Authority!Grants
    BY DEF Authority!Grants, Authority!Sources
  <2>2. QED
    BY <1>2, <2>1, ConfigureMoves
<1>3. QED
  BY <1>1, <1>2, SyncMoves, UploadMoves, RestartMoves DEF Authority!Next

\* The first of some observations is one of them, and none of them outranks it.
LEMMA FirstIs ==
    ASSUME NEW seen \in Seq(Authority!Observations), NEW at \in SUBSET (DOMAIN seen), at # {}
    PROVE  /\ Authority!First(seen, at) \in at
           /\ \A m \in at : ~Authority!Outranks(seen[m], seen[Authority!First(seen, at)])
<1> DEFINE classes == {seen[n].class : n \in at}
           Comes(n, m) == \/ Authority!Outranks(seen[n], seen[m])
                          \/ ~Authority!Outranks(seen[m], seen[n]) /\ n < m
<1>1. at \subseteq Nat /\ \A n \in at : seen[n].class \in Nat
  <2>1. DOMAIN seen \subseteq Nat /\ \A n \in DOMAIN seen : seen[n] \in Authority!Observations
    OBVIOUS
  <2>2. \A o \in Authority!Observations : o.class \in Authority!Classes \cup {Authority!Unverified}
    BY DEF Authority!Observations
  <2>3. QED
    BY <2>1, <2>2, ClassesAre
<1>2. PICK k \in classes : \A j \in classes : k <= j
  <2>1. classes \subseteq Nat /\ classes # {}
    BY <1>1
  <2> HIDE DEF classes
  <2>2. QED
    BY <2>1, Least
<1>3. PICK n \in at : seen[n].class = k /\ \A m \in at : seen[m].class = k => n <= m
  <2> DEFINE strongest == {n \in at : seen[n].class = k}
  <2>1. strongest \subseteq Nat /\ strongest # {}
    BY <1>1, <1>2
  <2>2. PICK n \in strongest : \A m \in strongest : n <= m
    <3> HIDE DEF strongest
    <3>1. QED
      BY <2>1, Least
  <2>3. QED
    BY <2>2
<1>4. \A m \in at : k <= seen[m].class
  BY <1>2
<1>5. \A m \in at \ {n} : Comes(n, m)
  BY <1>1, <1>3, <1>4 DEF Authority!Outranks
<1>6. Authority!First(seen, at) \in at /\ \A m \in at \ {Authority!First(seen, at)} :
                                              Comes(Authority!First(seen, at), m)
  BY <1>5 DEF Authority!First
<1> DEFINE first == Authority!First(seen, at)
<1> HIDE DEF first
<1>7. first \in at /\ \A m \in at \ {first} : Comes(first, m)
  BY <1>6 DEF first
<1>8. \A m \in at : ~Authority!Outranks(seen[m], seen[first])
  BY <1>1, <1>7 DEF Authority!Outranks
<1>9. QED
  BY <1>7, <1>8 DEF first

\* What a conflict stands behind is no lower source's.
LEMMA StrongestGoverns == Authority!AuthorityInv => Authority!GovernedIsStrongest
<1> SUFFICES ASSUME Authority!AuthorityInv, NEW c \in AuthorityConcepts,
                    NEW x \in Authority!Conflicts(authority_observations, c),
                    NEW o \in Authority!Range(authority_observations), o.concept = c
             PROVE  ~Authority!Outranks(o, x.governed)
  BY DEF Authority!GovernedIsStrongest
<1> DEFINE group == {n \in DOMAIN authority_observations : authority_observations[n].concept = c}
<1>1. group # {} /\ x.governed = authority_observations[Authority!First(authority_observations, group)]
  <2>1. group # {}
    BY DEF Authority!Conflicts, Authority!Disagreeing
  <2>2. x.governed = authority_observations[Authority!First(authority_observations, group)]
    BY DEF Authority!Conflicts
  <2>3. QED
    BY <2>1, <2>2
<1>2. PICK n \in group : o = authority_observations[n]
  BY DEF Authority!Range
<1>3. group \in SUBSET (DOMAIN authority_observations)
  OBVIOUS
<1>4. authority_observations \in Seq(Authority!Observations)
  BY DEF Authority!AuthorityInv
<1> HIDE DEF group
<1>5. QED
  BY <1>1, <1>2, <1>3, <1>4, FirstIs

\* A source some conflict names is counted on its row.
LEMMA NamedIsCounted ==
    ASSUME NEW c \in AuthorityConcepts, NEW x \in Authority!Conflicts(authority_observations, c),
           NEW o \in x.entries, o.source \in Authority!Sources
    PROVE  Authority!SourcesPage.sources[o.source].conflicts > 0
<1> DEFINE counted == {d \in AuthorityConcepts :
                          \E y \in Authority!Conflicts(authority_observations, d) :
                              \E e \in y.entries : e.source = o.source}
<1>1. Authority!SourcesPage.sources[o.source].conflicts = Authority!Cardinality(counted)
  BY DEF Authority!SourcesPage, Authority!SourceRow
<1>2. c \in counted
  OBVIOUS
<1>3. IsFiniteSet(counted)
  BY FS_Subset, ConceptsAreFinite
<1> HIDE DEF counted
<1>4. Cardinality(counted) \in Nat /\ Cardinality(counted) # 0
  BY <1>2, <1>3, FS_CardinalityType, FS_EmptySet
<1>5. Authority!Cardinality(counted) = Cardinality(counted)
  BY DEF Authority!Cardinality, Cardinality
<1>6. QED
  BY <1>1, <1>4, <1>5

LEMMA DisagreementsAreNamed == Authority!AuthorityInv => Authority!EveryDisagreementIsNamed
<1> SUFFICES ASSUME Authority!AuthorityInv, NEW c \in AuthorityConcepts,
                    NEW top \in Authority!Range(authority_observations),
                    NEW o \in Authority!Range(authority_observations),
                    top.concept = c, o.concept = c, o.source # top.source,
                    Authority!IsMaterial(top, o),
                    \A p \in Authority!Range(authority_observations) :
                        p # top /\ p.concept = c => Authority!Outranks(top, p)
             PROVE  /\ \E x \in Authority!SourcesPage.conflicts : {top, o} \subseteq x.entries
                    /\ Authority!SourcesPage.sources[top.source].conflicts > 0
                    /\ Authority!SourcesPage.sources[o.source].conflicts > 0
  BY DEF Authority!EveryDisagreementIsNamed
<1> DEFINE seen == authority_observations
           group == {n \in DOMAIN seen : seen[n].concept = c}
           first == Authority!First(seen, group)
           others == {seen[n] : n \in group}
<1>1. seen \in Seq(Authority!Observations)
  BY DEF Authority!AuthorityInv
<1>2. PICK i \in group, j \in group : top = seen[i] /\ o = seen[j]
  BY DEF Authority!Range
<1>3. first \in group /\ \A m \in group : ~Authority!Outranks(seen[m], seen[first])
  <2>1. group \in SUBSET (DOMAIN seen) /\ group # {}
    BY <1>2
  <2> HIDE DEF group, seen
  <2>2. QED
    BY <1>1, <2>1, FirstIs
<1>4. seen[first] = top
  <2>1. seen[first] # top => Authority!Outranks(top, seen[first])
    BY <1>3 DEF Authority!Range
  <2>2. QED
    BY <1>2, <1>3, <2>1
<1>5. o \in Authority!Disagreeing(top, others)
  BY <1>2 DEF Authority!Disagreeing
<1>6. i # j
  BY <1>2
<1>7. \E x \in Authority!Conflicts(seen, c) : {top, o} \subseteq x.entries
  <2> DEFINE second == seen[Authority!First(seen, group \ {first})]
             conflict == [governed |-> seen[first],
                          entries |-> {seen[first]} \cup Authority!Disagreeing(seen[first], others),
                          unresolved |-> /\ ~Authority!Outranks(seen[first], second)
                                         /\ Authority!IsMaterial(seen[first], second)]
             alone == (\A n, m \in group : n = m) \/ Authority!Disagreeing(seen[first], others) = {}
  <2>a. Authority!Conflicts(seen, c) = IF alone THEN {} ELSE {conflict}
    BY DEF Authority!Conflicts
  <2>b. conflict.entries = {seen[first]} \cup Authority!Disagreeing(seen[first], others)
    OBVIOUS
  <2> HIDE DEF first, others, conflict
  <2>1. ~((\A n, m \in group : n = m) \/ Authority!Disagreeing(seen[first], others) = {})
    BY <1>2, <1>4, <1>5, <1>6
  <2>2. Authority!Conflicts(seen, c) = {conflict}
    BY <2>a, <2>1
  <2>3. QED
    BY <1>4, <1>5, <2>b, <2>2
<1>8. PICK x \in Authority!Conflicts(seen, c) : {top, o} \subseteq x.entries
  BY <1>7
<1>9. top.source \in Authority!Sources /\ o.source \in Authority!Sources
  <2>1. \A n \in DOMAIN seen : seen[n] \in Authority!Observations
    BY <1>1
  <2>2. top \in Authority!Observations /\ o \in Authority!Observations
    BY <1>2, <2>1
  <2>3. QED
    BY <2>2 DEF Authority!Observations
<1>10. x \in Authority!SourcesPage.conflicts
  BY <1>8 DEF Authority!SourcesPage
<1>11. QED
  BY <1>8, <1>9, <1>10, NamedIsCounted

\* However systems are configured, records arrive and uploads are restored: one source at
\* most is authoritative for a concept at a priority, the value a conflict stands behind is
\* no lower source's, and whoever materially disagrees with the strongest is named
\* (authority.ts register, conflict.ts detectConflicts, registry.ts hydrate).
THEOREM OneSourceAlwaysGoverns == ServiceSpec => []OneSourceGoverns
<1> DEFINE Inv == part = "authority" => Authority!AuthorityInv
<1>1. ServiceInit => Inv
  BY Starts, AuthorityBegins
<1>2. Inv /\ [ServiceNext]_serviceVars => Inv'
  BY Moves, AuthorityMoves
<1>3. Inv => OneSourceGoverns
  BY StrongestGoverns, DisagreementsAreNamed DEF OneSourceGoverns, Authority!AuthorityInv
<1>4. QED
  BY <1>1, <1>2, <1>3, PTL DEF ServiceSpec

-----------------------------------------------------------------------------
(* Documents: the index, and what the store gives it back                  *)

LEMMA DocumentsNumbers ==
    /\ DocumentsLastMs \in Nat \ {0} /\ DocumentsMaxUploads \in Nat /\ DocumentsMaxCrashes \in Nat
    /\ DocumentsChunksOf \in [DocumentsContents -> Seq([DocumentsWords -> Nat])]
    /\ Null \notin DocumentsContents /\ Null \notin DocumentsProjects
    /\ Null \notin Documents!VersionIds /\ Null \notin Documents!Metadata
  BY ConstantsAreTheirs DEF Documents!VersionsAssumption

LEMMA DocumentsKept == ASSUME NEW s, NEW at PROVE Documents!Kept(s, at) = Kept(s, at)
<1>0. \A S : Documents!Cardinality(S) = Cardinality(S)
  BY DEF Documents!Cardinality, Cardinality
<1>1. \A i : Documents!Nth(at, i) = Nth(at, i)
  BY <1>0 DEF Documents!Nth, Nth
<1>2. QED
  BY <1>0, <1>1 DEF Documents!Kept, Kept

\* A version is its document's and its content's, and its table has its chunks in order.
LEMMA TableIs ==
    ASSUME NEW v \in Documents!VersionIds
    PROVE  /\ v[1] \in Documents!Documents /\ v[2] \in DocumentsContents /\ v = <<v[1], v[2]>>
           /\ Documents!Table(v) \in Seq(Documents!VersionIds \X (Nat \ {0}))
           /\ Len(Documents!Table(v)) \in Nat
           /\ DOMAIN Documents!Table(v) = 1..Len(Documents!Table(v))
           /\ \A n \in 1..Len(Documents!Table(v)) :
                 /\ Documents!Table(v)[n] = <<v, n>>
                 /\ Documents!WordsAt(Documents!Table(v)[n]) \in [DocumentsWords -> Nat]
<1>1. v[1] \in Documents!Documents /\ v[2] \in DocumentsContents /\ v = <<v[1], v[2]>>
  BY DEF Documents!VersionIds
<1> DEFINE said == DocumentsChunksOf[v[2]]
<1>2. said \in Seq([DocumentsWords -> Nat])
  BY <1>1, DocumentsNumbers
<1>3. Documents!Table(v) = [n \in 1..Len(said) |-> <<v, n>>]
  BY DEF Documents!Table
<1>4. \A n \in 1..Len(said) : Documents!WordsAt(<<v, n>>) = said[n]
  BY DEF Documents!WordsAt
<1> HIDE DEF said
<1>5. Len(said) \in Nat /\ \A n \in 1..Len(said) : said[n] \in [DocumentsWords -> Nat] /\ n \in Nat \ {0}
  BY <1>2
<1>6. /\ Documents!Table(v) \in Seq(Documents!VersionIds \X (Nat \ {0}))
      /\ Len(Documents!Table(v)) = Len(said)
  BY <1>3, <1>5
<1>7. QED
  BY <1>1, <1>3, <1>4, <1>5, <1>6

\* The positions a word gains are those of the chunks that hold it.
LEMMA OccurrencesAre ==
    ASSUME NEW v \in Documents!VersionIds, NEW w \in DocumentsWords, NEW base \in Nat
    PROVE  LET table == Documents!Table(v)
               new == Documents!Occurrences(w, table, base)
           IN  /\ new \in Seq(Documents!Posting)
               /\ \A i \in DOMAIN new : \E n \in 1..Len(table) :
                     new[i].chunk = base + n /\ Documents!WordsAt(table[n])[w] > 0
               /\ \A n \in 1..Len(table) : Documents!WordsAt(table[n])[w] > 0 =>
                     \E i \in DOMAIN new : new[i].chunk = base + n
<1> DEFINE table == Documents!Table(v)
           new == Documents!Occurrences(w, table, base)
           all == [n \in 1..Len(table) |->
                      [chunk |-> base + n, times |-> Documents!WordsAt(table[n])[w]]]
           held == {n \in 1..Len(table) : Documents!WordsAt(table[n])[w] > 0}
<1>1. new = Kept(all, held)
  BY DocumentsKept DEF Documents!Occurrences
<1>2. Len(table) \in Nat /\ \A n \in 1..Len(table) : Documents!WordsAt(table[n])[w] \in Nat
  BY TableIs
<1>3. held \subseteq 1..Len(table)
  OBVIOUS
<1>4. \A n \in held : Documents!WordsAt(table[n])[w] > 0
  OBVIOUS
<1>5. \A n \in 1..Len(table) : Documents!WordsAt(table[n])[w] > 0 => n \in held
  OBVIOUS
<1> HIDE DEF table, held
<1>6. /\ all \in Seq(Documents!Posting) /\ DOMAIN all = 1..Len(table)
      /\ \A n \in 1..Len(table) : all[n].chunk = base + n
  BY <1>2 DEF Documents!Posting
<1> HIDE DEF all, new
<1>7. held \subseteq DOMAIN all
  BY <1>3, <1>6
<1>a. all \in Seq(Documents!Posting)
  BY <1>6
<1>b. /\ Kept(all, held) \in Seq(Documents!Posting)
      /\ \A i \in DOMAIN Kept(all, held) : \E n \in held : Kept(all, held)[i] = all[n]
      /\ \A n \in held : \E i \in DOMAIN Kept(all, held) : Kept(all, held)[i] = all[n]
  BY <1>7, <1>a, KeptIs
<1>8. /\ new \in Seq(Documents!Posting)
      /\ \A i \in DOMAIN new : \E n \in 1..Len(table) :
            new[i].chunk = base + n /\ Documents!WordsAt(table[n])[w] > 0
      /\ \A n \in 1..Len(table) : Documents!WordsAt(table[n])[w] > 0 =>
            \E i \in DOMAIN new : new[i].chunk = base + n
  <2>1. new \in Seq(Documents!Posting)
    BY <1>1, <1>b
  <2>2. ASSUME NEW i \in DOMAIN new
        PROVE  \E n \in 1..Len(table) :
                  new[i].chunk = base + n /\ Documents!WordsAt(table[n])[w] > 0
    <3>1. PICK n \in held : new[i] = all[n]
      BY <1>1, <1>b
    <3>2. QED
      BY <3>1, <1>3, <1>4, <1>6
  <2>3. ASSUME NEW n \in 1..Len(table), Documents!WordsAt(table[n])[w] > 0
        PROVE  \E i \in DOMAIN new : new[i].chunk = base + n
    <3>1. PICK i \in DOMAIN new : new[i] = all[n]
      BY <1>1, <1>5, <1>b, <2>3
    <3>2. QED
      BY <3>1, <1>6
  <2>4. QED
    BY <2>1, <2>2, <2>3
<1>9. QED
  BY <1>8 DEF table, new

\* What is added is admitted, and its document's current version; the table and the
\* postings stay those of what is admitted.
LEMMA AddMoves ==
    ASSUME Documents!IndexInv, NEW v \in Documents!VersionIds, NEW m \in Documents!Metadata,
           Documents!Add(v, m)
    PROVE  /\ Documents!IndexInv'
           /\ Documents!Admitted' = Documents!Admitted \cup {v}
           /\ documents_versions[v] = Null =>
                 documents_current' = [documents_current EXCEPT ![v[1]] = v[2]]
           /\ documents_versions[v] # Null => UNCHANGED Documents!index
<1> DEFINE table == Documents!Table(v)
           base == Len(documents_chunks)
<1>0. /\ documents_versions \in [Documents!VersionIds -> Documents!Metadata \cup {Null}]
      /\ documents_current \in [Documents!Documents -> DocumentsContents \cup {Null}]
      /\ documents_chunks \in Seq(Documents!VersionIds \X (Nat \ {0}))
      /\ documents_postings \in [DocumentsWords -> Seq(Documents!Posting)]
  BY DEF Documents!IndexInv, Documents!IndexTypeOK
<1>1. CASE documents_versions[v] # Null
  <2>1. UNCHANGED Documents!index
    BY <1>1 DEF Documents!Add
  <2>2. v \in Documents!Admitted
    BY <1>1 DEF Documents!Admitted
  <2>3. Documents!Admitted' = Documents!Admitted
    BY <2>1 DEF Documents!Admitted, Documents!index
  <2>4. Documents!IndexTypeOK' /\ Documents!ChunkedOnce' /\ Documents!PostingsAreTheTable'
    BY <2>1, <2>3 DEF Documents!index, Documents!IndexInv, Documents!IndexTypeOK, Documents!ChunkedOnce,
                      Documents!PostingsAreTheTable
  <2>5. Documents!CurrentIsAdmitted'
    BY <2>1, <2>3 DEF Documents!index, Documents!IndexInv, Documents!CurrentIsAdmitted, Documents!VersionsOf
  <2>6. QED
    BY <1>1, <2>1, <2>2, <2>3, <2>4, <2>5 DEF Documents!IndexInv
<1>2. CASE documents_versions[v] = Null
  <2>1. /\ documents_versions' = [documents_versions EXCEPT ![v] = m]
        /\ documents_current' = [documents_current EXCEPT ![v[1]] = v[2]]
        /\ documents_chunks' = documents_chunks \o table
        /\ documents_postings' =
              [w \in DocumentsWords |-> documents_postings[w] \o Documents!Occurrences(w, table, base)]
    BY <1>2 DEF Documents!Add, Documents!Push
  <2>2. /\ v[1] \in Documents!Documents /\ v[2] \in DocumentsContents /\ v = <<v[1], v[2]>>
        /\ table \in Seq(Documents!VersionIds \X (Nat \ {0})) /\ Len(table) \in Nat
        /\ DOMAIN table = 1..Len(table)
        /\ \A n \in 1..Len(table) : table[n] = <<v, n>>
    BY TableIs
  <2>3. m # Null
    BY DocumentsNumbers
  <2>4. Documents!Admitted' = Documents!Admitted \cup {v}
    BY <2>1, <2>3, <1>0 DEF Documents!Admitted
  <2>5. v \notin Documents!Admitted
    BY <1>2 DEF Documents!Admitted
  <2>6. \A w \in DocumentsWords : Documents!Occurrences(w, table, base) \in Seq(Documents!Posting)
    BY <1>0, OccurrencesAre
  <2>7. Documents!IndexTypeOK'
    <3>1. documents_chunks' \in Seq(Documents!VersionIds \X (Nat \ {0}))
      <4> HIDE DEF table
      <4>1. QED
        BY <1>0, <2>1, <2>2
    <3>2. documents_postings' \in [DocumentsWords -> Seq(Documents!Posting)]
      <4>1. ASSUME NEW w \in DocumentsWords
            PROVE  documents_postings[w] \o Documents!Occurrences(w, table, base) \in Seq(Documents!Posting)
        <5> DEFINE old == documents_postings[w]
                   new == Documents!Occurrences(w, table, base)
        <5>1. old \in Seq(Documents!Posting) /\ new \in Seq(Documents!Posting)
          BY <1>0, <2>6
        <5> HIDE DEF old, new
        <5>2. old \o new \in Seq(Documents!Posting)
          BY <5>1
        <5>3. QED
          BY <5>2 DEF old, new
      <4>2. QED
        BY <2>1, <4>1
    <3>3. /\ documents_versions' \in [Documents!VersionIds -> Documents!Metadata \cup {Null}]
          /\ documents_current' \in [Documents!Documents -> DocumentsContents \cup {Null}]
      BY <1>0, <2>1, <2>2
    <3>4. QED
      BY <3>1, <3>2, <3>3 DEF Documents!IndexTypeOK
  <2>8. /\ DOMAIN documents_chunks' = 1..(base + Len(table)) /\ base \in Nat
        /\ DOMAIN documents_chunks = 1..base
        /\ \A i \in 1..base : documents_chunks'[i] = documents_chunks[i]
        /\ \A n \in 1..Len(table) : base + n \in 1..(base + Len(table)) /\ documents_chunks'[base + n] = <<v, n>>
        /\ \A i \in 1..(base + Len(table)) : i \notin 1..base =>
              i - base \in 1..Len(table) /\ documents_chunks'[i] = <<v, i - base>>
    <3> HIDE DEF table, base
    <3>1. base = Len(documents_chunks)
      BY DEF base
    <3>2. documents_chunks' = documents_chunks \o table
      BY <2>1
    <3>3. documents_chunks \in Seq(Documents!VersionIds \X (Nat \ {0}))
      BY <1>0
    <3>4. table \in Seq(Documents!VersionIds \X (Nat \ {0}))
      BY <2>2
    <3>5. LET s == documents_chunks
              t == table
          IN  /\ Len(s) \in Nat /\ DOMAIN s = 1..Len(s)
              /\ DOMAIN (s \o t) = 1..(Len(s) + Len(t))
              /\ \A i \in 1..Len(s) : i \in 1..(Len(s) + Len(t)) /\ (s \o t)[i] = s[i]
              /\ \A n \in 1..Len(t) :
                    Len(s) + n \in 1..(Len(s) + Len(t)) /\ (s \o t)[Len(s) + n] = t[n]
              /\ \A i \in 1..(Len(s) + Len(t)) : i \notin 1..Len(s) =>
                    i - Len(s) \in 1..Len(t) /\ (s \o t)[i] = t[i - Len(s)]
      BY <3>3, <3>4, Joined
    <3>6. /\ DOMAIN documents_chunks' = 1..(base + Len(table)) /\ base \in Nat
          /\ DOMAIN documents_chunks = 1..base
          /\ \A i \in 1..base : documents_chunks'[i] = documents_chunks[i]
      BY <3>1, <3>2, <3>5
    <3>7. \A n \in 1..Len(table) :
             base + n \in 1..(base + Len(table)) /\ documents_chunks'[base + n] = <<v, n>>
      BY <2>2, <3>1, <3>2, <3>5
    <3>8. \A i \in 1..(base + Len(table)) : i \notin 1..base =>
             i - base \in 1..Len(table) /\ documents_chunks'[i] = <<v, i - base>>
      BY <2>2, <3>1, <3>2, <3>5
    <3>9. QED
      BY <3>6, <3>7, <3>8
  <2> HIDE DEF base, table
  <2>9. Documents!ChunkedOnce'
    <3>1. \A i \in 1..base : \E u \in Documents!Admitted : \E n \in Nat : documents_chunks[i] = <<u, n>> /\ u # v
      <4>1. ASSUME NEW i \in 1..base
            PROVE  \E u \in Documents!Admitted : documents_chunks[i] \in Documents!Range(Documents!Table(u))
        <5>1. documents_chunks[i] \in Documents!Range(documents_chunks)
          BY <2>8 DEF Documents!Range
        <5>2. QED
          BY <5>1 DEF Documents!IndexInv, Documents!ChunkedOnce, Documents!ChunksOfAll
      <4>2. ASSUME NEW u \in Documents!Admitted, NEW e \in Documents!Range(Documents!Table(u))
            PROVE  \E n \in Nat : e = <<u, n>>
        <5>1. u \in Documents!VersionIds
          BY DEF Documents!Admitted
        <5>2. PICK n \in DOMAIN Documents!Table(u) : e = Documents!Table(u)[n]
          BY DEF Documents!Range
        <5>3. /\ DOMAIN Documents!Table(u) = 1..Len(Documents!Table(u))
              /\ \A k \in 1..Len(Documents!Table(u)) : Documents!Table(u)[k] = <<u, k>>
          BY <5>1, TableIs
        <5>4. QED
          BY <5>2, <5>3
      <4>3. QED
        BY <4>1, <4>2, <2>5
    <3>2. ASSUME NEW i \in 1..(base + Len(table)), NEW j \in 1..(base + Len(table)),
                 documents_chunks'[i] = documents_chunks'[j]
          PROVE  i = j
      <4>1. CASE i \in 1..base /\ j \in 1..base
        BY <4>1, <3>2, <2>8 DEF Documents!IndexInv, Documents!ChunkedOnce, Documents!IsInjective
      <4>2. CASE i \notin 1..base /\ j \notin 1..base
        BY <4>2, <3>2, <2>8
      <4>3. CASE i \in 1..base /\ j \notin 1..base
        BY <4>3, <3>2, <2>8, <3>1
      <4>4. CASE i \notin 1..base /\ j \in 1..base
        BY <4>4, <3>2, <2>8, <3>1
      <4>5. QED
        BY <4>1, <4>2, <4>3, <4>4
    <3>3. Documents!IsInjective(documents_chunks')
      BY <3>2, <2>8 DEF Documents!IsInjective
    <3>4. Documents!Range(table) = {<<v, n>> : n \in 1..Len(table)}
      BY <2>2 DEF Documents!Range
    <3>5. Documents!Range(documents_chunks') = Documents!Range(documents_chunks) \cup Documents!Range(table)
      <4>1. Documents!Range(documents_chunks') = {documents_chunks'[i] : i \in 1..(base + Len(table))}
        BY <2>8 DEF Documents!Range
      <4>2. Documents!Range(documents_chunks) = {documents_chunks[i] : i \in 1..base}
        BY <2>8 DEF Documents!Range
      <4>3. \A i \in 1..base : i \in 1..(base + Len(table))
        BY <2>2, <2>8
      <4>4. QED
        BY <4>1, <4>2, <4>3, <3>4, <2>8
    <3>6. Documents!ChunksOfAll(Documents!Admitted') =
             Documents!ChunksOfAll(Documents!Admitted) \cup Documents!Range(table)
      BY <2>4 DEF Documents!ChunksOfAll, table
    <3>7. QED
      BY <3>3, <3>5, <3>6 DEF Documents!ChunkedOnce, Documents!IndexInv
  <2>10. Documents!PostingsAreTheTable'
    <3> SUFFICES ASSUME NEW w \in DocumentsWords
                 PROVE  {p.chunk : p \in Documents!Range(documents_postings'[w])} =
                          {i \in DOMAIN documents_chunks' : Documents!WordsAt(documents_chunks'[i])[w] > 0}
      BY DEF Documents!PostingsAreTheTable, Documents!WordsAt
    <3> DEFINE old == documents_postings[w]
               new == Documents!Occurrences(w, table, base)
               holds(i) == Documents!WordsAt(documents_chunks'[i])[w] > 0
    <3>1. old \in Seq(Documents!Posting) /\ new \in Seq(Documents!Posting)
      BY <1>0, <2>6 DEF base, table
    <3>2. documents_postings'[w] = old \o new
      BY <2>1 DEF base, table
    <3>3. /\ \A i \in DOMAIN new : \E n \in 1..Len(table) :
                new[i].chunk = base + n /\ Documents!WordsAt(table[n])[w] > 0
          /\ \A n \in 1..Len(table) : Documents!WordsAt(table[n])[w] > 0 =>
                \E i \in DOMAIN new : new[i].chunk = base + n
      BY <2>8, OccurrencesAre DEF table
    <3>4. \A n \in 1..Len(table) : Documents!WordsAt(table[n])[w] > 0 <=> holds(base + n)
      BY <2>2, <2>8
    <3>5. {p.chunk : p \in Documents!Range(old)} =
             {i \in 1..base : Documents!WordsAt(documents_chunks[i])[w] > 0}
      BY <2>8 DEF Documents!IndexInv, Documents!PostingsAreTheTable
    <3>6. \A i \in 1..base : Documents!WordsAt(documents_chunks[i])[w] > 0 <=> holds(i)
      BY <2>8
    <3> HIDE DEF holds, old, new
    <3>7. Documents!Range(old \o new) = Documents!Range(old) \cup Documents!Range(new)
      <4>a. old \in Seq(Documents!Posting)
        BY <3>1
      <4>b. new \in Seq(Documents!Posting)
        BY <3>1
      <4> DEFINE both == old \o new
      <4>c. ASSUME NEW i \in DOMAIN both
            PROVE  (\E n \in DOMAIN old : both[i] = old[n]) \/ \E k \in DOMAIN new : both[i] = new[k]
        <5>1. /\ DOMAIN both = 1..(Len(old) + Len(new))
              /\ \A n \in 1..Len(old) : both[n] = old[n]
              /\ \A n \in 1..(Len(old) + Len(new)) : n \notin 1..Len(old) =>
                    n - Len(old) \in 1..Len(new) /\ both[n] = new[n - Len(old)]
              /\ DOMAIN old = 1..Len(old) /\ DOMAIN new = 1..Len(new)
          BY <4>a, <4>b, Joined
        <5>2. QED
          BY <5>1
      <4>d. ASSUME NEW n \in DOMAIN old
            PROVE  \E i \in DOMAIN both : both[i] = old[n]
        BY <4>a, <4>b, JoinedHolds
      <4>e. ASSUME NEW n \in DOMAIN new
            PROVE  \E i \in DOMAIN both : both[i] = new[n]
        BY <4>a, <4>b, JoinedHolds
      <4>1. /\ \A i \in DOMAIN both : (\E n \in DOMAIN old : both[i] = old[n])
                                     \/ \E k \in DOMAIN new : both[i] = new[k]
            /\ \A n \in DOMAIN old : \E i \in DOMAIN both : both[i] = old[n]
            /\ \A n \in DOMAIN new : \E i \in DOMAIN both : both[i] = new[n]
        BY <4>c, <4>d, <4>e
      <4> HIDE DEF both
      <4>2. Documents!Range(both) = Documents!Range(old) \cup Documents!Range(new)
        BY <4>1 DEF Documents!Range
      <4>3. QED
        BY <4>2 DEF both
    <3>8. ASSUME NEW p \in Documents!Range(old \o new)
          PROVE  p.chunk \in DOMAIN documents_chunks' /\ holds(p.chunk)
      <4>1. CASE p \in Documents!Range(old)
        <5>1. p.chunk \in 1..base /\ Documents!WordsAt(documents_chunks[p.chunk])[w] > 0
          BY <4>1, <3>5
        <5>2. QED
          BY <5>1, <3>6, <2>2, <2>8
      <4>2. CASE p \in Documents!Range(new)
        BY <4>2, <3>3, <3>4, <2>8 DEF Documents!Range
      <4>3. QED
        BY <3>7, <4>1, <4>2
    <3>9. ASSUME NEW i \in DOMAIN documents_chunks', holds(i)
          PROVE  \E p \in Documents!Range(old \o new) : p.chunk = i
      <4>1. CASE i \in 1..base
        <5>1. i \in {p.chunk : p \in Documents!Range(old)}
          BY <4>1, <3>5, <3>6, <3>9
        <5>2. QED
          BY <5>1, <3>7
      <4>2. CASE i \notin 1..base
        <5>1. i - base \in 1..Len(table) /\ base + (i - base) = i
          BY <4>2, <2>8
        <5>2. \E k \in DOMAIN new : new[k].chunk = i
          BY <5>1, <3>3, <3>4, <3>9
        <5>3. QED
          BY <5>2, <3>7 DEF Documents!Range
      <4>3. QED
        BY <4>1, <4>2
    <3>10. QED
      BY <3>2, <3>8, <3>9 DEF holds
  <2>11. Documents!CurrentIsAdmitted'
    <3> SUFFICES ASSUME NEW d \in Documents!Documents
                 PROVE  IF Documents!VersionsOf(d)' = {} THEN documents_current'[d] = Null
                        ELSE <<d, documents_current'[d]>> \in Documents!Admitted'
      BY DEF Documents!CurrentIsAdmitted
    <3>1. Documents!VersionsOf(d)' = {u \in Documents!Admitted \cup {v} : u[1] = d}
      BY <2>4 DEF Documents!VersionsOf
    <3>2. CASE d = v[1]
      BY <3>1, <3>2, <2>1, <2>2, <2>4, <1>0
    <3>3. CASE d # v[1]
      <4>1. documents_current'[d] = documents_current[d]
        BY <3>3, <2>1, <1>0
      <4>2. Documents!VersionsOf(d)' = Documents!VersionsOf(d)
        BY <3>1, <3>3 DEF Documents!VersionsOf
      <4>3. QED
        BY <4>1, <4>2, <2>4 DEF Documents!IndexInv, Documents!CurrentIsAdmitted
    <3>4. QED
      BY <3>2, <3>3
  <2>12. QED
    BY <1>2, <2>1, <2>4, <2>7, <2>9, <2>10, <2>11 DEF Documents!IndexInv
<1>3. QED
  BY <1>1, <1>2

\* Every chunk in the table is a chunk of one admitted version.
LEMMA TableEntryIs ==
    ASSUME NEW e \in Documents!ChunksOfAll(Documents!Admitted)
    PROVE  e[1] \in Documents!Admitted /\ documents_versions[e[1]] # Null
<1>1. PICK u \in Documents!Admitted : e \in Documents!Range(Documents!Table(u))
  BY DEF Documents!ChunksOfAll
<1>2. u \in Documents!VersionIds /\ documents_versions[u] # Null
  BY DEF Documents!Admitted
<1>3. PICK n \in DOMAIN Documents!Table(u) : e = Documents!Table(u)[n]
  BY <1>1 DEF Documents!Range
<1>4. /\ DOMAIN Documents!Table(u) = 1..Len(Documents!Table(u))
      /\ \A k \in 1..Len(Documents!Table(u)) : Documents!Table(u)[k] = <<u, k>>
  BY <1>2, TableIs
<1>5. e[1] = u
  BY <1>3, <1>4
<1>6. QED
  BY <1>2, <1>5

\* The postings lead to the chunks that hold the words, and to no neighbour.
LEMMA RetrievalIsExact == Documents!IndexInv => Documents!RetrievedIsExact
<1> SUFFICES ASSUME Documents!IndexInv, NEW words \in SUBSET DocumentsWords,
                    NEW projects \in SUBSET DocumentsProjects
             PROVE  Documents!Retrieved(words, projects) =
                      {entry \in Documents!ChunksOfAll(Documents!Admitted) :
                          /\ documents_current[entry[1][1]] = entry[1][2]
                          /\ projects # {} => documents_versions[entry[1]].project \in projects
                          /\ \E w \in words : Documents!WordsAt(entry)[w] > 0}
  BY DEF Documents!RetrievedIsExact
<1> DEFINE exact(entry) ==
              /\ documents_current[entry[1][1]] = entry[1][2]
              /\ projects # {} => documents_versions[entry[1]].project \in projects
              /\ \E w \in words : Documents!WordsAt(entry)[w] > 0
<1>1. /\ Documents!Range(documents_chunks) = Documents!ChunksOfAll(Documents!Admitted)
      /\ \A w \in DocumentsWords :
            {p.chunk : p \in Documents!Range(documents_postings[w])} =
               {i \in DOMAIN documents_chunks : Documents!WordsAt(documents_chunks[i])[w] > 0}
  BY DEF Documents!IndexInv, Documents!ChunkedOnce, Documents!PostingsAreTheTable
<1>2. ASSUME NEW e \in Documents!Retrieved(words, projects)
      PROVE  e \in Documents!ChunksOfAll(Documents!Admitted) /\ exact(e)
  <2>a. PICK w \in words : \E p \in Documents!Range(documents_postings[w]) :
           p.chunk \in Documents!Admissible(projects) /\ e = documents_chunks[p.chunk]
    BY <1>2 DEF Documents!Retrieved
  <2>1. PICK p \in Documents!Range(documents_postings[w]) :
           p.chunk \in Documents!Admissible(projects) /\ e = documents_chunks[p.chunk]
    BY <2>a
  <2>2. p.chunk \in {i \in DOMAIN documents_chunks : Documents!WordsAt(documents_chunks[i])[w] > 0}
    BY <1>1, <2>1
  <2>3. e \in Documents!Range(documents_chunks)
    BY <2>1, <2>2 DEF Documents!Range
  <2>4. /\ documents_current[e[1][1]] = e[1][2]
        /\ projects # {} => documents_versions[e[1]].project \in projects
    BY <2>1 DEF Documents!Admissible
  <2>5. QED
    BY <1>1, <2>1, <2>2, <2>3, <2>4
<1>3. ASSUME NEW e \in Documents!ChunksOfAll(Documents!Admitted), exact(e)
      PROVE  e \in Documents!Retrieved(words, projects)
  <2>1. PICK i \in DOMAIN documents_chunks : e = documents_chunks[i]
    BY <1>1 DEF Documents!Range
  <2>2. PICK w \in words : Documents!WordsAt(e)[w] > 0
    BY <1>3
  <2>3. i \in {p.chunk : p \in Documents!Range(documents_postings[w])}
    BY <1>1, <2>1, <2>2
  <2>4. PICK p \in Documents!Range(documents_postings[w]) : p.chunk = i
    BY <2>3
  <2>5. documents_versions[e[1]] # Null
    BY TableEntryIs
  <2>6. i \in Documents!Admissible(projects)
    BY <1>3, <2>1, <2>5 DEF Documents!Admissible
  <2>7. QED
    BY <2>1, <2>4, <2>6 DEF Documents!Retrieved
<1>4. QED
  BY <1>2, <1>3

\* A version sent again keeps its ordinal; a new one is counted after its document's.
LEMMA OrdinalIsPositive ==
    ASSUME Documents!IndexTypeOK, NEW v \in Documents!VersionIds
    PROVE  Documents!OrdinalOf(v) \in Nat \ {0}
<1>1. CASE documents_versions[v] # Null
  <2>1. documents_versions[v] \in Documents!Metadata
    BY <1>1 DEF Documents!IndexTypeOK
  <2>2. QED
    BY <1>1, <2>1 DEF Documents!OrdinalOf, Documents!Metadata
<1>2. CASE documents_versions[v] = Null
  <2> DEFINE others == Documents!VersionsOf(v[1])
             days == 1..DocumentsLastMs
             all == days \X DocumentsContents
  <2>1. \A S : Documents!Cardinality(S) = Cardinality(S)
    BY DEF Documents!Cardinality, Cardinality
  <2>2. IsFiniteSet(DocumentsContents)
    <3>1. Documents!IsFiniteSet(DocumentsContents)
      BY ConstantsAreTheirs DEF Documents!VersionsAssumption
    <3>2. QED
      BY <3>1 DEF Documents!IsFiniteSet, IsFiniteSet
  <2>3. IsFiniteSet(days)
    BY DocumentsNumbers, FS_Interval
  <2>4. others \subseteq all
    BY DEF Documents!VersionsOf, Documents!Admitted, Documents!VersionIds, Documents!Documents
  <2> HIDE DEF days, others
  <2>5. IsFiniteSet(all)
    BY <2>2, <2>3, FS_Product
  <2> HIDE DEF all
  <2>6. others \in SUBSET all
    BY <2>4
  <2>7. IsFiniteSet(others)
    BY <2>5, <2>6, FS_Subset
  <2>8. Cardinality(others) \in Nat
    BY <2>7, FS_CardinalityType
  <2>9. Documents!OrdinalOf(v) = Cardinality(others) + 1
    BY <1>2, <2>1 DEF Documents!OrdinalOf, others
  <2>10. QED
    BY <2>8, <2>9
<1>3. QED
  BY <1>1, <1>2

\* What a step leaves of the index leaves what is said of it.
LEMMA IndexStays ==
    Documents!IndexInv /\ UNCHANGED Documents!index =>
        Documents!IndexInv' /\ Documents!Admitted' = Documents!Admitted
<1> SUFFICES ASSUME Documents!IndexInv, UNCHANGED Documents!index
             PROVE  Documents!IndexInv' /\ Documents!Admitted' = Documents!Admitted
  OBVIOUS
<1>1. Documents!Admitted' = Documents!Admitted
  BY DEF Documents!Admitted, Documents!index
<1>2. Documents!IndexTypeOK' /\ Documents!ChunkedOnce' /\ Documents!PostingsAreTheTable'
  BY <1>1 DEF Documents!index, Documents!IndexInv, Documents!IndexTypeOK, Documents!ChunkedOnce,
              Documents!PostingsAreTheTable
<1>3. Documents!CurrentIsAdmitted'
  BY <1>1 DEF Documents!index, Documents!IndexInv, Documents!CurrentIsAdmitted, Documents!VersionsOf
<1>4. QED
  BY <1>1, <1>2, <1>3 DEF Documents!IndexInv

\* An index that holds nothing.
LEMMA NothingIsIndexed ==
    /\ documents_versions = [v \in Documents!VersionIds |-> Null]
    /\ documents_current = [d \in Documents!Documents |-> Null]
    /\ documents_chunks = <<>> /\ documents_postings = [w \in DocumentsWords |-> <<>>]
    => Documents!IndexInv /\ Documents!Admitted = {}
<1> SUFFICES ASSUME documents_versions = [v \in Documents!VersionIds |-> Null],
                    documents_current = [d \in Documents!Documents |-> Null],
                    documents_chunks = <<>>, documents_postings = [w \in DocumentsWords |-> <<>>]
             PROVE  Documents!IndexInv /\ Documents!Admitted = {}
  OBVIOUS
<1>1. Documents!Admitted = {}
  BY DEF Documents!Admitted
<1>2. Documents!IndexTypeOK
  BY DEF Documents!IndexTypeOK
<1>3. Documents!ChunkedOnce
  <2>1. Documents!IsInjective(documents_chunks) /\ Documents!Range(documents_chunks) = {}
    BY DEF Documents!IsInjective, Documents!Range
  <2>2. Documents!ChunksOfAll({}) = {}
    BY DEF Documents!ChunksOfAll
  <2>3. QED
    BY <1>1, <2>1, <2>2 DEF Documents!ChunkedOnce
<1>4. Documents!PostingsAreTheTable
  <2>1. ASSUME NEW w \in DocumentsWords
        PROVE  /\ {p.chunk : p \in Documents!Range(documents_postings[w])} = {}
               /\ {i \in DOMAIN documents_chunks : Documents!WordsAt(documents_chunks[i])[w] > 0} = {}
    <3>1. documents_postings[w] = <<>> /\ DOMAIN documents_chunks = {}
      OBVIOUS
    <3>2. Documents!Range(<<>>) = {}
      BY DEF Documents!Range
    <3>3. QED
      BY <3>1, <3>2
  <2>2. QED
    BY <2>1 DEF Documents!PostingsAreTheTable
<1>5. Documents!CurrentIsAdmitted
  BY <1>1 DEF Documents!CurrentIsAdmitted, Documents!VersionsOf
<1>6. QED
  BY <1>1, <1>2, <1>3, <1>4, <1>5 DEF Documents!IndexInv

LEMMA DocumentsBegins == Documents!Init => Documents!DocumentsInv
<1> SUFFICES ASSUME Documents!Init PROVE Documents!DocumentsInv
  OBVIOUS
<1>1. /\ documents_versions = [v \in Documents!VersionIds |-> Null]
      /\ documents_current = [d \in Documents!Documents |-> Null]
      /\ documents_chunks = <<>> /\ documents_postings = [w \in DocumentsWords |-> <<>>]
  BY DEF Documents!Init
<1>2. Documents!IndexInv
  BY <1>1, NothingIsIndexed
<1>3. /\ documents_clock = 1 /\ documents_queue = <<>> /\ documents_failed = FALSE
      /\ documents_crashes = 0 /\ documents_last = Null /\ documents_uploads = 0
      /\ documents_hydrating = {}
      /\ documents_dVersions = [v \in Documents!VersionIds |-> Null]
      /\ documents_dCurrent = [d \in Documents!Documents |-> Null]
  BY DEF Documents!Init
<1>4. Documents!TypeOK
  <2>1. Documents!IndexTypeOK
    BY <1>2 DEF Documents!IndexInv
  <2>2. documents_queue \in Seq(Documents!Write)
    BY <1>3
  <2>3. /\ documents_clock \in Documents!Documents /\ documents_uploads \in 0..DocumentsMaxUploads
        /\ documents_crashes \in 0..DocumentsMaxCrashes
    BY <1>3, DocumentsNumbers DEF Documents!Documents
  <2>4. /\ documents_dVersions \in [Documents!VersionIds -> Documents!Metadata \cup {Null}]
        /\ documents_dCurrent \in [Documents!Documents -> DocumentsContents \cup {Null}]
        /\ documents_failed \in BOOLEAN /\ documents_last \in Documents!VersionIds \cup {Null}
        /\ documents_hydrating \in SUBSET Documents!VersionIds
    BY <1>3
  <2>5. QED
    BY <2>1, <2>2, <2>3, <2>4 DEF Documents!TypeOK
<1>5. Documents!SentIsOnItsWay /\ Documents!CurrentComesLast
  BY <1>3 DEF Documents!SentIsOnItsWay, Documents!CurrentComesLast
<1>6. QED
  BY <1>2, <1>4, <1>5 DEF Documents!DocumentsInv

LEMMA UploadedMoves ==
    ASSUME Documents!DocumentsInv, NEW c \in DocumentsContents,
           NEW project \in DocumentsProjects \cup {Null}, Documents!Upload(c, project)
    PROVE  Documents!DocumentsInv'
<1> DEFINE v == <<documents_clock, c>>
           metadata == [project |-> project, ordinal |-> Documents!OrdinalOf(v)]
<1>1. v \in Documents!VersionIds
  BY DEF Documents!DocumentsInv, Documents!TypeOK, Documents!VersionIds
<1>2. metadata \in Documents!Metadata
  BY <1>1, OrdinalIsPositive DEF Documents!DocumentsInv, Documents!TypeOK, Documents!Metadata
<1>3. /\ documents_uploads < DocumentsMaxUploads /\ documents_hydrating = {}
      /\ Documents!Add(v, metadata)
      /\ documents_queue' = documents_queue \o Documents!WritesOf(v, metadata)
      /\ documents_failed' = (documents_failed /\ documents_queue # <<>>)
      /\ documents_last' = v
      /\ documents_uploads' = documents_uploads + 1
      /\ UNCHANGED <<documents_clock, documents_dVersions, documents_dCurrent,
                     documents_hydrating, documents_crashes>>
  BY DEF Documents!Upload, Documents!store
<1> HIDE DEF v, metadata
<1>4. Documents!IndexInv'
  BY <1>1, <1>2, <1>3, AddMoves DEF Documents!DocumentsInv
<1>5. /\ Documents!WritesOf(v, metadata) \in Seq(Documents!Write)
      /\ Len(Documents!WritesOf(v, metadata)) = 2
      /\ Documents!WritesOf(v, metadata)[1].part = "version"
      /\ Documents!WritesOf(v, metadata)[1].id = v
  BY <1>1, <1>2 DEF Documents!WritesOf, Documents!Write
<1>6. documents_queue \in Seq(Documents!Write)
  BY DEF Documents!DocumentsInv, Documents!TypeOK
<1>7. /\ documents_queue' \in Seq(Documents!Write)
      /\ \E n \in DOMAIN documents_queue' :
            documents_queue'[n].part = "version" /\ documents_queue'[n].id = v
  <2> DEFINE writes == Documents!WritesOf(v, metadata)
  <2>1. writes \in Seq(Documents!Write) /\ Len(writes) = 2 /\ writes[1].part = "version" /\ writes[1].id = v
    BY <1>5
  <2>2. documents_queue' = documents_queue \o writes
    BY <1>3
  <2> HIDE DEF writes
  <2>3. /\ documents_queue \o writes \in Seq(Documents!Write)
        /\ Len(documents_queue) + 1 \in DOMAIN (documents_queue \o writes)
        /\ (documents_queue \o writes)[Len(documents_queue) + 1] = writes[1]
    <3>1. writes \in Seq(Documents!Write)
      BY <2>1
    <3>2. 1 \in 1..Len(writes)
      BY <2>1
    <3>3. /\ documents_queue \o writes \in Seq(Documents!Write)
          /\ DOMAIN (documents_queue \o writes) = 1..(Len(documents_queue) + Len(writes))
          /\ \A n \in 1..Len(writes) :
                /\ Len(documents_queue) + n \in 1..(Len(documents_queue) + Len(writes))
                /\ (documents_queue \o writes)[Len(documents_queue) + n] = writes[n]
      BY <1>6, <3>1, Joined
    <3>4. QED
      BY <3>2, <3>3
  <2>4. QED
    BY <2>1, <2>2, <2>3
<1>8. Documents!TypeOK'
  BY <1>1, <1>3, <1>4, <1>7, DocumentsNumbers
  DEF Documents!DocumentsInv, Documents!TypeOK, Documents!IndexInv
<1>9. Documents!SentIsOnItsWay' /\ Documents!CurrentComesLast'
  BY <1>3, <1>7 DEF Documents!SentIsOnItsWay, Documents!CurrentComesLast
<1>10. QED
  BY <1>4, <1>8, <1>9 DEF Documents!DocumentsInv

LEMMA SettledMoves ==
    ASSUME Documents!DocumentsInv, Documents!WriteSucceeds \/ Documents!WriteFails
    PROVE  Documents!DocumentsInv'
<1>1. /\ documents_queue # <<>> /\ documents_queue' = Tail(documents_queue)
      /\ UNCHANGED Documents!index
      /\ UNCHANGED <<documents_clock, documents_last, documents_hydrating, documents_uploads,
                     documents_crashes>>
  BY DEF Documents!WriteSucceeds, Documents!WriteFails, Documents!Settle
<1>2. Documents!IndexInv'
  BY <1>1, IndexStays DEF Documents!DocumentsInv
<1>3. documents_queue \in Seq(Documents!Write)
  BY DEF Documents!DocumentsInv, Documents!TypeOK
<1>4. /\ Tail(documents_queue) \in Seq(Documents!Write)
      /\ Head(documents_queue) \in Documents!Write /\ Head(documents_queue) = documents_queue[1]
      /\ \A n \in DOMAIN documents_queue : n # 1 =>
            n - 1 \in DOMAIN Tail(documents_queue) /\ Tail(documents_queue)[n - 1] = documents_queue[n]
  BY <1>1, <1>3
<1>5. documents_hydrating = {}
  BY <1>1 DEF Documents!DocumentsInv, Documents!CurrentComesLast
<1>6. Documents!CurrentComesLast'
  BY <1>1, <1>5 DEF Documents!CurrentComesLast
<1>7. /\ documents_dVersions' \in [Documents!VersionIds -> Documents!Metadata \cup {Null}]
      /\ documents_dCurrent' \in [Documents!Documents -> DocumentsContents \cup {Null}]
      /\ documents_failed' \in BOOLEAN
  <2>1. CASE Documents!WriteSucceeds
    <3> DEFINE w == Head(documents_queue)
    <3>1. /\ w.id \in Documents!VersionIds /\ w.metadata \in Documents!Metadata
          /\ w.id[1] \in Documents!Documents /\ w.id[2] \in DocumentsContents
      BY <1>4 DEF Documents!Write, Documents!VersionIds
    <3>2. /\ IF w.part = "version"
               THEN /\ documents_dVersions' = [documents_dVersions EXCEPT ![w.id] = w.metadata]
                    /\ UNCHANGED documents_dCurrent
               ELSE /\ documents_dCurrent' = [documents_dCurrent EXCEPT ![w.id[1]] = w.id[2]]
                    /\ UNCHANGED documents_dVersions
          /\ UNCHANGED documents_failed
      BY <2>1 DEF Documents!WriteSucceeds
    <3> HIDE DEF w
    <3>3. QED
      BY <3>1, <3>2 DEF Documents!DocumentsInv, Documents!TypeOK
  <2>2. CASE Documents!WriteFails
    BY <2>2 DEF Documents!WriteFails, Documents!store, Documents!DocumentsInv, Documents!TypeOK
  <2>3. QED
    BY <2>1, <2>2
<1>8. Documents!TypeOK'
  BY <1>1, <1>2, <1>4, <1>7 DEF Documents!DocumentsInv, Documents!TypeOK, Documents!IndexInv
<1>9. Documents!SentIsOnItsWay'
  <2>1. CASE Documents!WriteFails
    BY <2>1 DEF Documents!WriteFails, Documents!SentIsOnItsWay
  <2>2. CASE Documents!WriteSucceeds
    <3> DEFINE w == Head(documents_queue)
    <3>1. w.metadata # Null /\ w.id \in Documents!VersionIds
      BY <1>4, DocumentsNumbers DEF Documents!Write
    <3>2. /\ w.part = "version" =>
                documents_dVersions' = [documents_dVersions EXCEPT ![w.id] = w.metadata]
          /\ w.part # "version" => UNCHANGED documents_dVersions
          /\ documents_failed' = documents_failed
      BY <2>2 DEF Documents!WriteSucceeds
    <3>3. documents_dVersions \in [Documents!VersionIds -> Documents!Metadata \cup {Null}]
      BY DEF Documents!DocumentsInv, Documents!TypeOK
    <3>4. w = documents_queue[1]
      BY <1>4
    <3> HIDE DEF w
    <3>5. /\ Documents!Stored \subseteq Documents!Stored'
          /\ w.part = "version" => w.id \in Documents!Stored'
      BY <3>1, <3>2, <3>3 DEF Documents!Stored
    <3> SUFFICES ASSUME ~documents_failed, documents_last # Null
                 PROVE  \/ documents_last \in Documents!Stored'
                        \/ \E n \in DOMAIN documents_queue' :
                              /\ documents_queue'[n].part = "version"
                              /\ documents_queue'[n].id = documents_last
      BY <1>1, <3>2 DEF Documents!SentIsOnItsWay
    <3>6. CASE documents_last \in Documents!Stored
      BY <3>5, <3>6
    <3>7. CASE \E n \in DOMAIN documents_queue :
                  documents_queue[n].part = "version" /\ documents_queue[n].id = documents_last
      <4>1. PICK n \in DOMAIN documents_queue :
               documents_queue[n].part = "version" /\ documents_queue[n].id = documents_last
        BY <3>7
      <4>2. CASE n = 1
        BY <4>1, <4>2, <3>4, <3>5
      <4>3. CASE n # 1
        BY <4>1, <4>3, <1>1, <1>4
      <4>4. QED
        BY <4>2, <4>3
    <3>8. QED
      BY <3>6, <3>7 DEF Documents!DocumentsInv, Documents!SentIsOnItsWay
  <2>3. QED
    BY <2>1, <2>2
<1>10. QED
  BY <1>2, <1>6, <1>8, <1>9 DEF Documents!DocumentsInv

LEMMA RestartedMoves ==
    Documents!DocumentsInv /\ Documents!Restart => Documents!DocumentsInv'
<1> SUFFICES ASSUME Documents!DocumentsInv, Documents!Restart PROVE Documents!DocumentsInv'
  OBVIOUS
<1>1. /\ documents_versions' = [v \in Documents!VersionIds |-> Null]
      /\ documents_current' = [d \in Documents!Documents |-> Null]
      /\ documents_chunks' = <<>> /\ documents_postings' = [w \in DocumentsWords |-> <<>>]
  BY DEF Documents!Restart, Documents!NoIndex
<1>2. Documents!IndexInv' /\ Documents!Admitted' = {}
  <2>1. (/\ documents_versions = [v \in Documents!VersionIds |-> Null]
         /\ documents_current = [d \in Documents!Documents |-> Null]
         /\ documents_chunks = <<>> /\ documents_postings = [w \in DocumentsWords |-> <<>>]
         => Documents!IndexInv /\ Documents!Admitted = {})'
    BY NothingIsIndexed, PTL
  <2>2. QED
    BY <1>1, <2>1
<1>3. /\ documents_crashes < DocumentsMaxCrashes /\ documents_crashes' = documents_crashes + 1
      /\ documents_queue' = <<>> /\ documents_failed' = FALSE /\ documents_last' = Null
      /\ documents_hydrating' = Documents!Stored
      /\ UNCHANGED <<documents_clock, documents_dVersions, documents_dCurrent, documents_uploads>>
  BY DEF Documents!Restart, Documents!store
<1>4. Documents!TypeOK'
  <2>1. Documents!IndexTypeOK'
    BY <1>2 DEF Documents!IndexInv
  <2>2. documents_queue' \in Seq(Documents!Write)
    BY <1>3
  <2>3. documents_crashes' \in 0..DocumentsMaxCrashes
    BY <1>3, DocumentsNumbers DEF Documents!DocumentsInv, Documents!TypeOK
  <2>4. documents_hydrating' \in SUBSET Documents!VersionIds
    BY <1>3 DEF Documents!Stored
  <2>5. /\ documents_clock' \in Documents!Documents
        /\ documents_dVersions' \in [Documents!VersionIds -> Documents!Metadata \cup {Null}]
        /\ documents_dCurrent' \in [Documents!Documents -> DocumentsContents \cup {Null}]
        /\ documents_failed' \in BOOLEAN /\ documents_last' \in Documents!VersionIds \cup {Null}
        /\ documents_uploads' \in 0..DocumentsMaxUploads
    BY <1>3 DEF Documents!DocumentsInv, Documents!TypeOK
  <2>6. QED
    BY <2>1, <2>2, <2>3, <2>4, <2>5 DEF Documents!TypeOK
<1>5. Documents!Stored' = Documents!Stored
  BY <1>3 DEF Documents!Stored
<1>6. Documents!SentIsOnItsWay' /\ Documents!CurrentComesLast'
  BY <1>2, <1>3, <1>5 DEF Documents!SentIsOnItsWay, Documents!CurrentComesLast
<1>7. QED
  BY <1>2, <1>4, <1>6 DEF Documents!DocumentsInv

\* What is left to add supersedes nothing that is current.
LEMMA HydratedMoves ==
    ASSUME Documents!DocumentsInv, NEW v \in Documents!VersionIds, Documents!Hydrate(v)
    PROVE  /\ Documents!DocumentsInv'
           /\ documents_hydrating' = Documents!Stored \ Documents!Admitted'
           /\ Documents!Stored' = Documents!Stored
           /\ UNCHANGED documents_dCurrent
           /\ \A u \in Documents!Admitted' :
                 documents_dCurrent[u[1]] = u[2] => documents_current'[u[1]] = u[2]
<1>1. /\ v \in Documents!Due /\ Documents!Add(v, documents_dVersions[v])
      /\ documents_hydrating' = documents_hydrating \ {v}
      /\ UNCHANGED <<documents_clock, documents_queue, documents_dVersions, documents_dCurrent,
                     documents_failed, documents_last, documents_uploads, documents_crashes>>
  BY DEF Documents!Hydrate, Documents!store
<1>2. /\ v \in documents_hydrating
      /\ Documents!IsCurrent(v) => \A w \in documents_hydrating : Documents!IsCurrent(w)
  BY <1>1 DEF Documents!Due
<1>3. /\ documents_queue = <<>> /\ documents_hydrating = Documents!Stored \ Documents!Admitted
      /\ Documents!Admitted \subseteq Documents!Stored
      /\ \A u \in Documents!Admitted : Documents!IsCurrent(u) =>
            /\ documents_current[u[1]] = u[2]
            /\ \A w \in documents_hydrating : Documents!IsCurrent(w)
  BY <1>2 DEF Documents!DocumentsInv, Documents!CurrentComesLast
<1>4. documents_dVersions[v] \in Documents!Metadata
  BY <1>2, <1>3 DEF Documents!Stored, Documents!DocumentsInv, Documents!TypeOK
<1>5. documents_versions[v] = Null
  BY <1>2, <1>3 DEF Documents!Admitted
<1>6. /\ Documents!IndexInv'
      /\ Documents!Admitted' = Documents!Admitted \cup {v}
      /\ documents_current' = [documents_current EXCEPT ![v[1]] = v[2]]
  BY <1>1, <1>4, <1>5, AddMoves DEF Documents!DocumentsInv
<1>7. Documents!Stored' = Documents!Stored
  BY <1>1 DEF Documents!Stored
<1>8. documents_hydrating' = Documents!Stored \ Documents!Admitted'
  BY <1>1, <1>3, <1>6
<1>9. ASSUME NEW u \in Documents!Admitted', documents_dCurrent[u[1]] = u[2]
      PROVE  /\ documents_current'[u[1]] = u[2]
             /\ \A w \in documents_hydrating' : documents_dCurrent[w[1]] = w[2]
  <2>0. /\ v[1] \in Documents!Documents /\ v[2] \in DocumentsContents /\ v = <<v[1], v[2]>>
        /\ documents_current \in [Documents!Documents -> DocumentsContents \cup {Null}]
    BY TableIs DEF Documents!DocumentsInv, Documents!TypeOK, Documents!IndexTypeOK
  <2>1. CASE u = v
    BY <1>1, <1>2, <1>6, <1>9, <2>0, <2>1 DEF Documents!IsCurrent
  <2>2. CASE u # v
    <3>1. u \in Documents!Admitted /\ u \in Documents!VersionIds /\ Documents!IsCurrent(u)
      BY <1>6, <1>9, <2>2 DEF Documents!Admitted, Documents!IsCurrent
    <3>2. /\ documents_current[u[1]] = u[2]
          /\ \A w \in documents_hydrating : documents_dCurrent[w[1]] = w[2]
      BY <1>3, <3>1 DEF Documents!IsCurrent
    <3>3. u = <<u[1], u[2]>>
      BY <3>1, TableIs
    <3>4. u[1] # v[1]
      BY <1>2, <1>9, <2>0, <2>2, <3>2, <3>3
    <3>5. QED
      BY <1>1, <1>6, <2>0, <3>2, <3>4
  <2>3. QED
    BY <2>1, <2>2
<1>10. Documents!CurrentComesLast'
  <2>1. Documents!Admitted' \subseteq Documents!Stored'
    BY <1>2, <1>3, <1>6, <1>7
  <2>2. \A u \in Documents!Admitted' : Documents!IsCurrent(u)' =>
           /\ documents_current'[u[1]] = u[2]
           /\ \A w \in documents_hydrating' : Documents!IsCurrent(w)'
    BY <1>1, <1>9 DEF Documents!IsCurrent
  <2>3. QED
    BY <1>1, <1>3, <1>7, <1>8, <2>1, <2>2 DEF Documents!CurrentComesLast, Documents!IsCurrent
<1>11. Documents!SentIsOnItsWay'
  BY <1>1, <1>7 DEF Documents!DocumentsInv, Documents!SentIsOnItsWay
<1>12. Documents!TypeOK'
  BY <1>1, <1>6 DEF Documents!DocumentsInv, Documents!TypeOK, Documents!IndexInv
<1>13. QED
  BY <1>1, <1>6, <1>7, <1>8, <1>9, <1>10, <1>11, <1>12 DEF Documents!DocumentsInv

LEMMA DocumentsMoves ==
    Documents!DocumentsInv /\ (Documents!Next \/ UNCHANGED documentsVars) => Documents!DocumentsInv'
<1> SUFFICES ASSUME Documents!DocumentsInv, Documents!Next \/ UNCHANGED documentsVars
             PROVE  Documents!DocumentsInv'
  OBVIOUS
<1>1. ASSUME UNCHANGED Documents!index,
             UNCHANGED <<documents_queue, documents_dVersions, documents_dCurrent, documents_failed,
                         documents_last, documents_hydrating, documents_uploads, documents_crashes>>,
             documents_clock' \in Documents!Documents
      PROVE  Documents!DocumentsInv'
  <2>1. Documents!IndexInv' /\ Documents!Admitted' = Documents!Admitted
    BY <1>1, IndexStays DEF Documents!DocumentsInv
  <2>2. Documents!Stored' = Documents!Stored
    BY <1>1 DEF Documents!Stored
  <2>3. Documents!TypeOK'
    BY <1>1, <2>1 DEF Documents!DocumentsInv, Documents!TypeOK, Documents!IndexInv
  <2>4. Documents!SentIsOnItsWay'
    BY <1>1, <2>2 DEF Documents!DocumentsInv, Documents!SentIsOnItsWay
  <2>5. Documents!CurrentComesLast'
    BY <1>1, <2>1, <2>2
    DEF Documents!DocumentsInv, Documents!CurrentComesLast, Documents!IsCurrent, Documents!index
  <2>6. QED
    BY <2>1, <2>3, <2>4, <2>5 DEF Documents!DocumentsInv
<1>2. CASE UNCHANGED documentsVars
  BY <1>1, <1>2 DEF documentsVars, Documents!index, Documents!DocumentsInv, Documents!TypeOK
<1>3. CASE Documents!Tick
  <2>1. documents_clock' \in Documents!Documents
    BY <1>3, DocumentsNumbers
    DEF Documents!Tick, Documents!DocumentsInv, Documents!TypeOK, Documents!Documents
  <2>2. QED
    BY <1>1, <1>3, <2>1 DEF Documents!Tick, Documents!store
<1>4. QED
  BY <1>2, <1>3, UploadedMoves, SettledMoves, RestartedMoves, HydratedMoves DEF Documents!Next

\* Once hydrated, a process answers from what the store calls current.
LEMMA CurrentIsServed ==
    Documents!DocumentsInv /\ (Documents!Next \/ UNCHANGED documentsVars) =>
        Documents!RestartServesCurrent
<1> SUFFICES ASSUME Documents!DocumentsInv, Documents!Next \/ UNCHANGED documentsVars,
                    documents_hydrating # {}, documents_hydrating' = {},
                    NEW v \in Documents!Stored
             PROVE  /\ documents_dCurrent[v[1]] = v[2] => documents_current'[v[1]] = v[2]
                    /\ documents_current'[v[1]] # Null
  BY DEF Documents!RestartServesCurrent
<1>1. PICK u \in Documents!VersionIds : Documents!Hydrate(u)
  <2>1. ~UNCHANGED documents_hydrating
    OBVIOUS
  <2>2. ~Documents!Restart
    BY DEF Documents!Restart
  <2>3. QED
    BY <2>1, <2>2 DEF Documents!Next, documentsVars, Documents!Tick, Documents!Upload,
       Documents!WriteSucceeds, Documents!WriteFails, Documents!Settle
<1>2. /\ v \in Documents!Admitted'
      /\ documents_dCurrent[v[1]] = v[2] => documents_current'[v[1]] = v[2]
  BY <1>1, HydratedMoves
<1>3. v \in Documents!VersionIds
  BY DEF Documents!Stored
<1>4. v[1] \in Documents!Documents /\ Documents!VersionsOf(v[1])' # {}
  BY <1>2, <1>3, TableIs DEF Documents!VersionsOf
<1>5. Documents!CurrentIsAdmitted'
  BY <1>1, HydratedMoves DEF Documents!DocumentsInv, Documents!IndexInv
<1>6. <<v[1], documents_current'[v[1]]>> \in Documents!Admitted'
  BY <1>4, <1>5 DEF Documents!CurrentIsAdmitted
<1>7. documents_current'[v[1]] \in DocumentsContents
  BY <1>6 DEF Documents!Admitted, Documents!VersionIds
<1>8. QED
  BY <1>2, <1>7, DocumentsNumbers

\* What was sent last and did not fail is stored once nothing is left to write.
LEMMA AnsweredAreStored == Documents!SentIsOnItsWay => Documents!AnsweredIsStored
  BY DEF Documents!SentIsOnItsWay, Documents!AnsweredIsStored

\* A question is answered from exactly the chunks of current versions that hold its words,
\* each counted once, and what was answered as stored is (lexical-index.ts, registry.ts).
THEOREM DocumentsAreAlwaysExact == ServiceSpec => []DocumentsAreExact
<1> DEFINE Inv == part = "documents" => Documents!DocumentsInv
<1>1. ServiceInit => Inv
  BY Starts, DocumentsBegins
<1>2. Inv /\ [ServiceNext]_serviceVars => Inv'
  BY Moves, DocumentsMoves
<1>3. Inv => DocumentsAreExact
  BY RetrievalIsExact, AnsweredAreStored
  DEF DocumentsAreExact, Documents!DocumentsInv, Documents!IndexInv
<1>4. QED
  BY <1>1, <1>2, <1>3, PTL DEF ServiceSpec

-----------------------------------------------------------------------------
(* A sheet: its rows, their verdicts, and what they contribute             *)

LEMMA SheetNumbers ==
    /\ SheetColumns \in Seq(Sheet!Fields) /\ SheetMaxRows \in Nat \ {0}
    /\ SheetBlank \notin SheetIdentities \cup SheetPeriods
    /\ "none" \notin SheetProjects /\ SheetEffective \in SheetPeriods
  BY ConstantsAreTheirs DEF Sheet!SheetAssumption, Sheet!NoProject

LEMMA SheetCounts ==
    /\ \A S : Sheet!Cardinality(S) = Cardinality(S)
    /\ \A S : Sheet!IsFiniteSet(S) <=> IsFiniteSet(S)
<1>1. \A S : Sheet!Cardinality(S) = Cardinality(S)
  BY DEF Sheet!Cardinality, Cardinality
<1>2. \A S : Sheet!IsFiniteSet(S) <=> IsFiniteSet(S)
  BY DEF Sheet!IsFiniteSet, IsFiniteSet
<1>3. QED
  BY <1>1, <1>2

LEMMA SheetKept == ASSUME NEW s, NEW at PROVE Sheet!Kept(s, at) = Kept(s, at)
<1>1. \A i : Sheet!Nth(at, i) = Nth(at, i)
  BY SheetCounts DEF Sheet!Nth, Nth
<1>2. QED
  BY <1>1, SheetCounts DEF Sheet!Kept, Kept

\* A row resolves to one of the uploader's projects or to none, and has a date or none.
LEMMA RowIs ==
    ASSUME NEW row \in Sheet!Rows
    PROVE  /\ Sheet!ProjectOf(row) \in SheetProjects \cup {"none"}
           /\ Sheet!PeriodOf(row) \in SheetPeriods \cup {SheetBlank}
           /\ Sheet!Disposition(row) \in {"ACCEPTED", "QUARANTINED"}
<1>1. Sheet!ProjectOf(row) \in SheetProjects \cup {"none"}
  BY DEF Sheet!ProjectOf, Sheet!NoProject
<1>2. row.period \in SheetPeriods \cup {SheetBlank, SheetNotADate}
  BY DEF Sheet!Rows
<1>3. Sheet!PeriodOf(row) \in SheetPeriods \cup {SheetBlank}
  BY <1>2, SheetNumbers DEF Sheet!PeriodOf
<1>4. QED
  BY <1>1, <1>3 DEF Sheet!Disposition

\* A row is accepted for a project and a period no row was seen with, and only whole.
LEMMA AcceptedRowIs ==
    ASSUME NEW row \in Sheet!Rows, Sheet!Disposition(row) = "ACCEPTED"
    PROVE  /\ Sheet!ProjectOf(row) \in SheetProjects /\ Sheet!ProjectOf(row) # "none"
           /\ Sheet!PeriodOf(row) \in SheetPeriods
           /\ ~sheet_periodField => Sheet!ProjectOf(row) \notin sheet_seenIdentities
           /\ Sheet!PeriodKey(row) \notin sheet_seenPeriodKeys
           /\ \A f \in Sheet!Fields : row.cells[f] # "unusable"
           /\ \A f \in sheet_required : row.cells[f] # "blank"
<1>1. /\ Sheet!IdentityFindings(row) = {} /\ Sheet!PeriodFindings(row) = {}
      /\ Sheet!DuplicateFindings(row) = {} /\ Sheet!CellFindings(row) = {}
      /\ Sheet!ProjectOf(row) # "none"
  BY DEF Sheet!Disposition, Sheet!Findings, Sheet!NoProject
<1>2. Sheet!ProjectOf(row) \in SheetProjects
  BY <1>1, RowIs
<1>3. Sheet!PeriodOf(row) \in SheetPeriods
  <2>1. row.period \in SheetPeriods \cup {SheetBlank, SheetNotADate}
    BY DEF Sheet!Rows
  <2>2. ~(sheet_periodField /\ row.period = SheetNotADate)
    BY <1>1 DEF Sheet!PeriodFindings
  <2>3. QED
    BY <2>1, <2>2, SheetNumbers DEF Sheet!PeriodOf
<1>4. /\ ~sheet_periodField => Sheet!ProjectOf(row) \notin sheet_seenIdentities
      /\ Sheet!PeriodKey(row) \notin sheet_seenPeriodKeys
  BY <1>1 DEF Sheet!DuplicateFindings, Sheet!NoProject
<1>5. /\ \A f \in Sheet!Fields : row.cells[f] # "unusable"
      /\ \A f \in sheet_required : row.cells[f] # "blank"
  BY <1>1 DEF Sheet!CellFindings
<1>6. QED
  BY <1>1, <1>2, <1>3, <1>4, <1>5

\* What a row contributes is its usable cells, one observation each.
LEMMA ObservedAre ==
    ASSUME NEW row \in Sheet!Rows, sheet_conceptOf \in [Sheet!Fields -> SheetConcepts]
    PROVE  LET new == Sheet!Observed(row)
           IN  /\ \A i \in DOMAIN new : \E f \in Sheet!Fields :
                     row.cells[f] = "usable" /\ new[i] = Sheet!Observation(row, f)
               /\ \A f \in Sheet!Fields : row.cells[f] = "usable" =>
                     \E i \in DOMAIN new : new[i] = Sheet!Observation(row, f)
               /\ (\A f \in Sheet!Fields : Sheet!Observation(row, f) \in Sheet!Observations)
                     => new \in Seq(Sheet!Observations)
<1> DEFINE held == {n \in DOMAIN SheetColumns : row.cells[SheetColumns[n]] = "usable"}
           usable == Kept(SheetColumns, held)
           new == Sheet!Observed(row)
<1>1. new = [i \in DOMAIN usable |-> Sheet!Observation(row, usable[i])]
  BY SheetKept DEF Sheet!Observed
<1>2. held \subseteq DOMAIN SheetColumns
  OBVIOUS
<1>3. \A n \in held : row.cells[SheetColumns[n]] = "usable"
  OBVIOUS
<1>4. \A f \in Sheet!Fields : row.cells[f] = "usable" => \E n \in held : SheetColumns[n] = f
  BY DEF Sheet!Fields, Sheet!Range
<1> HIDE DEF held
<1>5. SheetColumns \in Seq(Sheet!Fields)
  BY SheetNumbers
<1>6. /\ Kept(SheetColumns, held) \in Seq(Sheet!Fields)
      /\ \A i \in DOMAIN Kept(SheetColumns, held) : \E n \in held : Kept(SheetColumns, held)[i] = SheetColumns[n]
      /\ \A n \in held : \E i \in DOMAIN Kept(SheetColumns, held) : Kept(SheetColumns, held)[i] = SheetColumns[n]
  BY <1>2, <1>5, KeptIs
<1>7. /\ usable \in Seq(Sheet!Fields)
      /\ \A i \in DOMAIN usable : \E n \in held : usable[i] = SheetColumns[n]
      /\ \A n \in held : \E i \in DOMAIN usable : usable[i] = SheetColumns[n]
  BY <1>6
<1> HIDE DEF usable, new
<1>8. DOMAIN usable = 1..Len(usable) /\ Len(usable) \in Nat /\ \A i \in DOMAIN usable : usable[i] \in Sheet!Fields
  BY <1>7
<1>9. ASSUME NEW i \in DOMAIN new
      PROVE  \E f \in Sheet!Fields : row.cells[f] = "usable" /\ new[i] = Sheet!Observation(row, f)
  <2>1. i \in DOMAIN usable /\ new[i] = Sheet!Observation(row, usable[i])
    BY <1>1, <1>9
  <2>2. QED
    BY <2>1, <1>3, <1>7, <1>8
<1>10. ASSUME NEW f \in Sheet!Fields, row.cells[f] = "usable"
       PROVE  \E i \in DOMAIN new : new[i] = Sheet!Observation(row, f)
  <2>1. PICK n \in held : SheetColumns[n] = f
    BY <1>4, <1>10
  <2>2. PICK i \in DOMAIN usable : usable[i] = f
    BY <1>7, <2>1
  <2>3. QED
    BY <1>1, <2>2
<1>11. ASSUME \A f \in Sheet!Fields : Sheet!Observation(row, f) \in Sheet!Observations
       PROVE  new \in Seq(Sheet!Observations)
  BY <1>1, <1>8, <1>11
<1>12. QED
  BY <1>9, <1>10, <1>11 DEF new

\* A row is read: one verdict more, and the observations of an accepted row.
LEMMA RowIsRead ==
    ASSUME Sheet!SheetInv, NEW row \in Sheet!Rows, Sheet!IngestRow(row)
    PROVE  Sheet!SheetInv'
<1>1. /\ sheet_phase = "reading" /\ Len(sheet_sheet) < SheetMaxRows
      /\ sheet_sheet' = Append(sheet_sheet, row)
      /\ sheet_staged' = Append(sheet_staged, Sheet!Staged(row))
      /\ UNCHANGED <<sheet_periodField, sheet_conceptOf, sheet_required, sheet_receipt, sheet_phase>>
  BY DEF Sheet!IngestRow, Sheet!mapping
<1>2. /\ sheet_conceptOf \in [Sheet!Fields -> SheetConcepts] /\ sheet_required \subseteq Sheet!Fields
      /\ sheet_sheet \in Seq(Sheet!Rows) /\ sheet_staged \in Seq(Sheet!Verdicts)
      /\ sheet_observations \in Seq(Sheet!Observations)
      /\ Len(sheet_sheet) = Len(sheet_staged)
  BY <1>1 DEF Sheet!SheetInv, Sheet!TypeOK, Sheet!VerdictsAreTheRows
<1>3. PICK n \in Nat : n = Len(sheet_sheet) + 1
  BY <1>2
<1>4. n \in 1..SheetMaxRows
  BY <1>1, <1>2, <1>3, SheetNumbers
<1>5. PICK new \in Sheet!Verdicts : new = Sheet!Staged(row)
  <2>1. <<SheetSafeId[row.identity], IF row.identity = SheetBlank THEN n ELSE 0>> \in
           {SheetSafeId[i] : i \in SheetIdentities \cup {SheetBlank}} \X Nat
    BY DEF Sheet!Rows
  <2>2. Sheet!NaturalKey(row, n) \in {SheetSafeId[i] : i \in SheetIdentities \cup {SheetBlank}} \X Nat
    BY <2>1 DEF Sheet!NaturalKey
  <2>3. Sheet!Staged(row) \in Sheet!Verdicts
    BY <1>3, <1>4, <2>2, RowIs DEF Sheet!Staged, Sheet!Verdicts, Sheet!NoProject
  <2>4. QED
    BY <2>3
<1>6. /\ new.row = n /\ new.key = Sheet!NaturalKey(row, n)
      /\ new.project = Sheet!ProjectOf(row) /\ new.disposition = Sheet!Disposition(row)
  BY <1>3, <1>5 DEF Sheet!Staged
<1>7. /\ sheet_sheet' \in Seq(Sheet!Rows) /\ Len(sheet_sheet') = n
      /\ DOMAIN sheet_sheet = 1..(n - 1) /\ DOMAIN sheet_sheet' = 1..n
      /\ sheet_sheet'[n] = row
      /\ \A k \in 1..(n - 1) : sheet_sheet'[k] = sheet_sheet[k]
  <2>1. /\ Append(sheet_sheet, row) \in Seq(Sheet!Rows) /\ Len(sheet_sheet) \in Nat
        /\ Len(Append(sheet_sheet, row)) = Len(sheet_sheet) + 1
        /\ DOMAIN sheet_sheet = 1..Len(sheet_sheet)
        /\ DOMAIN Append(sheet_sheet, row) = 1..(Len(sheet_sheet) + 1)
        /\ Append(sheet_sheet, row)[Len(sheet_sheet) + 1] = row
        /\ \A k \in 1..Len(sheet_sheet) : Append(sheet_sheet, row)[k] = sheet_sheet[k]
    BY <1>2, Longer
  <2>2. Len(sheet_sheet) = n - 1
    BY <1>3, <2>1
  <2>3. QED
    BY <1>1, <1>3, <2>1, <2>2
<1>8. /\ sheet_staged' \in Seq(Sheet!Verdicts) /\ Len(sheet_staged') = n
      /\ DOMAIN sheet_staged = 1..(n - 1) /\ DOMAIN sheet_staged' = 1..n
      /\ sheet_staged'[n] = new
      /\ \A k \in 1..(n - 1) : sheet_staged'[k] = sheet_staged[k]
  <2>1. /\ Append(sheet_staged, new) \in Seq(Sheet!Verdicts) /\ Len(sheet_staged) \in Nat
        /\ Len(Append(sheet_staged, new)) = Len(sheet_staged) + 1
        /\ DOMAIN sheet_staged = 1..Len(sheet_staged)
        /\ DOMAIN Append(sheet_staged, new) = 1..(Len(sheet_staged) + 1)
        /\ Append(sheet_staged, new)[Len(sheet_staged) + 1] = new
        /\ \A k \in 1..Len(sheet_staged) : Append(sheet_staged, new)[k] = sheet_staged[k]
    BY <1>2, Longer
  <2>2. Len(sheet_staged) = n - 1
    BY <1>2, <1>3, <2>1
  <2>3. QED
    BY <1>1, <1>5, <2>1, <2>2
<1>9. /\ Sheet!Range(sheet_staged') = Sheet!Range(sheet_staged) \cup {new}
      /\ Sheet!Accepted' = Sheet!Accepted \cup {s \in {new} : s.disposition = "ACCEPTED"}
      /\ Sheet!Quarantined' = Sheet!Quarantined \cup {s \in {new} : s.disposition = "QUARANTINED"}
  <2>1. ASSUME NEW s \in Sheet!Range(sheet_staged') PROVE s \in Sheet!Range(sheet_staged) \cup {new}
    <3>1. PICK k \in 1..n : s = sheet_staged'[k]
      BY <1>8 DEF Sheet!Range
    <3>2. CASE k = n
      BY <1>8, <3>1, <3>2
    <3>3. CASE k # n
      <4>1. k \in 1..(n - 1)
        BY <3>3
      <4>2. QED
        BY <1>8, <3>1, <4>1 DEF Sheet!Range
    <3>4. QED
      BY <3>2, <3>3
  <2>2. ASSUME NEW k \in 1..(n - 1) PROVE k \in 1..n
    OBVIOUS
  <2>3. Sheet!Range(sheet_staged) \subseteq Sheet!Range(sheet_staged')
    BY <1>8, <2>2 DEF Sheet!Range
  <2>4. new \in Sheet!Range(sheet_staged')
    BY <1>4, <1>8 DEF Sheet!Range
  <2>5. Sheet!Range(sheet_staged') = Sheet!Range(sheet_staged) \cup {new}
    BY <2>1, <2>3, <2>4
  <2>6. QED
    BY <2>5 DEF Sheet!Accepted, Sheet!Quarantined
<1>10. \A s \in Sheet!Range(sheet_staged) :
          /\ s \in Sheet!Verdicts /\ s.row \in 1..(n - 1) /\ s.row # n
          /\ s.key = Sheet!NaturalKey(sheet_sheet[s.row], s.row)
          /\ s.project = Sheet!ProjectOf(sheet_sheet[s.row])
          /\ sheet_sheet'[s.row] = sheet_sheet[s.row]
  <2>1. ASSUME NEW s \in Sheet!Range(sheet_staged)
        PROVE  /\ s \in Sheet!Verdicts /\ s.row \in 1..(n - 1)
               /\ s.key = Sheet!NaturalKey(sheet_sheet[s.row], s.row)
               /\ s.project = Sheet!ProjectOf(sheet_sheet[s.row])
    <3>1. s \in Sheet!Verdicts
      BY <1>2 DEF Sheet!Range
    <3>2. QED
      BY <3>1, <1>7 DEF Sheet!SheetInv, Sheet!VerdictsAreTheRows
  <2>2. QED
    BY <2>1, <1>7
<1>11. /\ Sheet!Accepted \subseteq Sheet!Range(sheet_staged)
       /\ Sheet!Quarantined \subseteq Sheet!Range(sheet_staged)
  BY DEF Sheet!Accepted, Sheet!Quarantined
<1>12. Sheet!Disposition(row) = "ACCEPTED" =>
          /\ Sheet!ProjectOf(row) \in SheetProjects /\ Sheet!ProjectOf(row) # "none"
          /\ Sheet!PeriodOf(row) \in SheetPeriods
          /\ ~sheet_periodField => Sheet!ProjectOf(row) \notin sheet_seenIdentities
          /\ Sheet!PeriodKey(row) \notin sheet_seenPeriodKeys
          /\ \A f \in Sheet!Fields : row.cells[f] # "unusable"
          /\ \A f \in sheet_required : row.cells[f] # "blank"
  BY AcceptedRowIs
<1>13. /\ sheet_seenIdentities \subseteq sheet_seenIdentities'
       /\ sheet_seenPeriodKeys \subseteq sheet_seenPeriodKeys'
       /\ sheet_seenIdentities' \subseteq SheetProjects
       /\ sheet_seenPeriodKeys' \subseteq SheetProjects \X (SheetPeriods \cup {SheetBlank})
       /\ Sheet!Disposition(row) = "ACCEPTED" =>
             /\ Sheet!ProjectOf(row) \in sheet_seenIdentities'
             /\ Sheet!PeriodKey(row) \in sheet_seenPeriodKeys'
  <2>1. IF Sheet!ProjectOf(row) = "none"
          THEN UNCHANGED <<sheet_seenIdentities, sheet_seenPeriodKeys>>
          ELSE /\ sheet_seenIdentities' = sheet_seenIdentities \cup {Sheet!ProjectOf(row)}
               /\ sheet_seenPeriodKeys' = sheet_seenPeriodKeys \cup {Sheet!PeriodKey(row)}
    BY DEF Sheet!IngestRow, Sheet!NoProject
  <2>2. Sheet!ProjectOf(row) # "none" =>
           /\ Sheet!ProjectOf(row) \in SheetProjects
           /\ Sheet!PeriodKey(row) \in SheetProjects \X (SheetPeriods \cup {SheetBlank})
    BY RowIs DEF Sheet!PeriodKey
  <2>3. /\ sheet_seenIdentities \subseteq SheetProjects
        /\ sheet_seenPeriodKeys \subseteq SheetProjects \X (SheetPeriods \cup {SheetBlank})
    BY DEF Sheet!SheetInv, Sheet!TypeOK
  <2>4. QED
    BY <2>1, <2>2, <2>3, <1>12
<1>14. \A f \in Sheet!Fields :
          /\ Sheet!Observation(row, f).project = Sheet!ProjectOf(row)
          /\ Sheet!Observation(row, f).concept = sheet_conceptOf[f]
          /\ Sheet!Observation(row, f).period = Sheet!PeriodOf(row)
          /\ Sheet!Observation(row, f).value = <<n, f>>
          /\ Sheet!Disposition(row) = "ACCEPTED" => Sheet!Observation(row, f) \in Sheet!Observations
  BY <1>2, <1>3, <1>4, <1>12 DEF Sheet!Observation, Sheet!Observations
<1>15. /\ sheet_observations' \in Seq(Sheet!Observations)
       /\ Sheet!Range(sheet_observations) \subseteq Sheet!Range(sheet_observations')
       /\ \A o \in Sheet!Range(sheet_observations') :
             \/ o \in Sheet!Range(sheet_observations)
             \/ /\ Sheet!Disposition(row) = "ACCEPTED"
                /\ \E f \in Sheet!Fields : row.cells[f] = "usable" /\ o = Sheet!Observation(row, f)
       /\ Sheet!Disposition(row) = "ACCEPTED" =>
             \A f \in Sheet!Fields : row.cells[f] = "usable" =>
                Sheet!Observation(row, f) \in Sheet!Range(sheet_observations')
  <2>1. CASE Sheet!Disposition(row) # "ACCEPTED"
    <3>1. sheet_observations' = sheet_observations
      BY <2>1 DEF Sheet!IngestRow
    <3>2. QED
      BY <2>1, <3>1, <1>2
  <2>2. CASE Sheet!Disposition(row) = "ACCEPTED"
    <3> DEFINE old == sheet_observations
               new1 == Sheet!Observed(row)
    <3>1. sheet_observations' = old \o new1
      BY <2>2 DEF Sheet!IngestRow
    <3>2. /\ \A i \in DOMAIN new1 : \E f \in Sheet!Fields :
                row.cells[f] = "usable" /\ new1[i] = Sheet!Observation(row, f)
          /\ \A f \in Sheet!Fields : row.cells[f] = "usable" =>
                \E i \in DOMAIN new1 : new1[i] = Sheet!Observation(row, f)
          /\ (\A f \in Sheet!Fields : Sheet!Observation(row, f) \in Sheet!Observations)
                => new1 \in Seq(Sheet!Observations)
      BY <1>2, ObservedAre
    <3>3. new1 \in Seq(Sheet!Observations)
      BY <1>14, <2>2, <3>2
    <3>4. old \in Seq(Sheet!Observations)
      BY <1>2
    <3> HIDE DEF new1, old
    <3> DEFINE both == old \o new1
    <3>5. /\ both \in Seq(Sheet!Observations)
          /\ DOMAIN both = 1..(Len(old) + Len(new1)) /\ DOMAIN old = 1..Len(old) /\ DOMAIN new1 = 1..Len(new1)
          /\ \A i \in 1..Len(old) : i \in 1..(Len(old) + Len(new1)) /\ both[i] = old[i]
          /\ \A i \in 1..Len(new1) :
                Len(old) + i \in 1..(Len(old) + Len(new1)) /\ both[Len(old) + i] = new1[i]
          /\ \A i \in 1..(Len(old) + Len(new1)) : i \notin 1..Len(old) =>
                i - Len(old) \in 1..Len(new1) /\ both[i] = new1[i - Len(old)]
      BY <3>3, <3>4, Joined
    <3> HIDE DEF both
    <3>6. Sheet!Range(old) \subseteq Sheet!Range(both)
      BY <3>5 DEF Sheet!Range
    <3>7. ASSUME NEW o \in Sheet!Range(both)
          PROVE  \/ o \in Sheet!Range(old)
                 \/ \E f \in Sheet!Fields : row.cells[f] = "usable" /\ o = Sheet!Observation(row, f)
      <4>1. PICK i \in 1..(Len(old) + Len(new1)) : o = both[i]
        BY <3>5 DEF Sheet!Range
      <4>2. CASE i \in 1..Len(old)
        BY <3>5, <4>1, <4>2 DEF Sheet!Range
      <4>3. CASE i \notin 1..Len(old)
        BY <3>2, <3>5, <4>1, <4>3
      <4>4. QED
        BY <4>2, <4>3
    <3>8. ASSUME NEW f \in Sheet!Fields, row.cells[f] = "usable"
          PROVE  Sheet!Observation(row, f) \in Sheet!Range(both)
      <4>1. PICK i \in DOMAIN new1 : new1[i] = Sheet!Observation(row, f)
        BY <3>2, <3>8
      <4>2. Len(old) + i \in DOMAIN both /\ both[Len(old) + i] = Sheet!Observation(row, f)
        BY <3>5, <4>1
      <4>3. QED
        BY <4>2 DEF Sheet!Range
    <3>9. sheet_observations' = both
      BY <3>1 DEF both
    <3>10. sheet_observations = old
      BY DEF old
    <3>11. QED
      BY <2>2, <3>5, <3>6, <3>7, <3>8, <3>9, <3>10
  <2>3. QED
    BY <2>1, <2>2
<1>16. Sheet!TypeOK'
  <2>1. /\ sheet_periodField' \in BOOLEAN /\ sheet_conceptOf' \in [Sheet!Fields -> SheetConcepts]
        /\ sheet_required' \subseteq Sheet!Fields
        /\ sheet_receipt'.detected \in 0..SheetMaxRows /\ sheet_receipt'.projectsMatched \in Nat
        /\ sheet_receipt'.conceptsMapped \subseteq SheetConcepts
        /\ sheet_phase' \in {"reading", "stored", "unreconciled", "restarted"}
    BY <1>1 DEF Sheet!SheetInv, Sheet!TypeOK
  <2>2. Len(sheet_sheet') <= SheetMaxRows
    BY <1>4, <1>7
  <2>3. QED
    BY <2>1, <2>2, <1>7, <1>8, <1>13, <1>15 DEF Sheet!TypeOK
<1>17. Sheet!VerdictsAreTheRows'
  <2>1. ASSUME NEW s \in Sheet!Range(sheet_staged')
        PROVE  /\ s.row \in 1..n
               /\ s.key = Sheet!NaturalKey(sheet_sheet[s.row], s.row)'
               /\ s.project = Sheet!ProjectOf(sheet_sheet[s.row])'
    <3>1. CASE s \in Sheet!Range(sheet_staged)
      BY <1>10, <3>1 DEF Sheet!NaturalKey, Sheet!ProjectOf
    <3>2. CASE s = new
      BY <1>4, <1>6, <1>7, <3>2 DEF Sheet!NaturalKey, Sheet!ProjectOf
    <3>3. QED
      BY <1>9, <3>1, <3>2
  <2>2. \A k \in 1..n : sheet_staged'[k].row = k
    <3>1. \A k \in 1..(n - 1) : sheet_staged[k].row = k
      BY <1>1, <1>8 DEF Sheet!SheetInv, Sheet!VerdictsAreTheRows
    <3>2. ASSUME NEW k \in 1..n PROVE sheet_staged'[k].row = k
      <4>1. CASE k = n
        BY <1>6, <1>8, <4>1
      <4>2. CASE k # n
        <5>1. k \in 1..(n - 1)
          BY <4>2
        <5>2. QED
          BY <1>8, <3>1, <5>1
      <4>3. QED
        BY <4>1, <4>2
    <3>3. QED
      BY <3>2
  <2>3. QED
    BY <1>7, <1>8, <2>1, <2>2 DEF Sheet!VerdictsAreTheRows
<1>18. \A s \in Sheet!Range(sheet_staged) :
          /\ Sheet!PeriodOf(sheet_sheet[s.row])' = Sheet!PeriodOf(sheet_sheet[s.row])
          /\ Sheet!PeriodKey(sheet_sheet[s.row])' = <<s.project, Sheet!PeriodOf(sheet_sheet[s.row])>>
          /\ Sheet!PeriodKey(sheet_sheet[s.row]) = <<s.project, Sheet!PeriodOf(sheet_sheet[s.row])>>
  BY <1>1, <1>10 DEF Sheet!PeriodOf, Sheet!PeriodKey, Sheet!ProjectOf
<1>19. /\ Sheet!PeriodOf(sheet_sheet[new.row])' = Sheet!PeriodOf(row)
       /\ Sheet!PeriodKey(sheet_sheet[new.row])' = Sheet!PeriodKey(row)
       /\ Sheet!PeriodKey(row) = <<new.project, Sheet!PeriodOf(row)>>
       /\ sheet_sheet'[new.row] = row
  BY <1>1, <1>6, <1>7 DEF Sheet!PeriodOf, Sheet!PeriodKey, Sheet!ProjectOf
<1>20. \A s \in Sheet!Accepted' :
          \/ s \in Sheet!Accepted /\ s \in Sheet!Range(sheet_staged)
          \/ s = new /\ Sheet!Disposition(row) = "ACCEPTED"
  BY <1>6, <1>9, <1>11
<1>21. \A s \in Sheet!Accepted :
          /\ s.project \in sheet_seenIdentities
          /\ <<s.project, Sheet!PeriodOf(sheet_sheet[s.row])>> \in sheet_seenPeriodKeys
          /\ Sheet!PeriodOf(sheet_sheet[s.row]) \in SheetPeriods
          /\ \A f \in Sheet!Fields : sheet_sheet[s.row].cells[f] # "unusable"
          /\ \A f \in sheet_required : sheet_sheet[s.row].cells[f] # "blank"
  BY <1>11, <1>18 DEF Sheet!SheetInv, Sheet!AcceptedIsClean
<1>22. Sheet!AcceptedIsClean'
  <2>1. ASSUME NEW s \in Sheet!Accepted'
        PROVE  /\ s.project \in sheet_seenIdentities'
               /\ Sheet!PeriodKey(sheet_sheet[s.row])' \in sheet_seenPeriodKeys'
               /\ Sheet!PeriodOf(sheet_sheet[s.row])' \in SheetPeriods
               /\ \A f \in Sheet!Fields : sheet_sheet'[s.row].cells[f] # "unusable"
               /\ \A f \in sheet_required' : sheet_sheet'[s.row].cells[f] # "blank"
    <3>1. CASE s \in Sheet!Accepted /\ s \in Sheet!Range(sheet_staged)
      BY <1>1, <1>10, <1>13, <1>18, <1>21, <3>1
    <3>2. CASE s = new /\ Sheet!Disposition(row) = "ACCEPTED"
      BY <1>1, <1>6, <1>12, <1>13, <1>19, <3>2
    <3>3. QED
      BY <1>20, <3>1, <3>2
  <2>2. QED
    BY <2>1 DEF Sheet!AcceptedIsClean
<1>23. Sheet!OneRowPerFigure'
  <2>1. ASSUME NEW s \in Sheet!Accepted, s \in Sheet!Range(sheet_staged),
               Sheet!Disposition(row) = "ACCEPTED", s.project = new.project
        PROVE  sheet_periodField /\ Sheet!PeriodOf(sheet_sheet[s.row]) # Sheet!PeriodOf(row)
    BY <1>6, <1>12, <1>19, <1>21, <2>1
  <2>2. ASSUME NEW s \in Sheet!Accepted', NEW t \in Sheet!Accepted', s # t, s.project = t.project
        PROVE  /\ sheet_periodField'
               /\ Sheet!PeriodOf(sheet_sheet[s.row])' # Sheet!PeriodOf(sheet_sheet[t.row])'
    <3>1. CASE /\ s \in Sheet!Accepted /\ s \in Sheet!Range(sheet_staged)
               /\ t \in Sheet!Accepted /\ t \in Sheet!Range(sheet_staged)
      BY <1>1, <1>18, <2>2, <3>1 DEF Sheet!SheetInv, Sheet!OneRowPerFigure
    <3>2. CASE /\ s \in Sheet!Accepted /\ s \in Sheet!Range(sheet_staged)
               /\ t = new /\ Sheet!Disposition(row) = "ACCEPTED"
      <4>1. sheet_periodField /\ Sheet!PeriodOf(sheet_sheet[s.row]) # Sheet!PeriodOf(row)
        BY <2>1, <2>2, <3>2
      <4>2. QED
        BY <1>1, <1>18, <1>19, <3>2, <4>1
    <3>3. CASE /\ t \in Sheet!Accepted /\ t \in Sheet!Range(sheet_staged)
               /\ s = new /\ Sheet!Disposition(row) = "ACCEPTED"
      <4>1. sheet_periodField /\ Sheet!PeriodOf(sheet_sheet[t.row]) # Sheet!PeriodOf(row)
        BY <2>1, <2>2, <3>3
      <4>2. QED
        BY <1>1, <1>18, <1>19, <3>3, <4>1
    <3>4. QED
      BY <1>20, <2>2, <3>1, <3>2, <3>3
  <2>3. QED
    BY <2>2 DEF Sheet!OneRowPerFigure
<1>24. \A o \in Sheet!Range(sheet_observations) :
          /\ o.value[1] \in 1..(n - 1) /\ o.value[1] # n
          /\ sheet_sheet'[o.value[1]] = sheet_sheet[o.value[1]]
          /\ Sheet!PeriodOf(sheet_sheet[o.value[1]])' = Sheet!PeriodOf(sheet_sheet[o.value[1]])
          /\ Sheet!ProjectOf(sheet_sheet[o.value[1]])' = Sheet!ProjectOf(sheet_sheet[o.value[1]])
  <2>1. \A o \in Sheet!Range(sheet_observations) : o.value[1] \in 1..(n - 1)
    BY <1>7 DEF Sheet!SheetInv, Sheet!ObservationsAreCells
  <2>2. QED
    BY <1>1, <1>7, <2>1 DEF Sheet!PeriodOf, Sheet!ProjectOf
<1>25. Sheet!GoodHalvesStayOut'
  <2>1. ASSUME NEW o \in Sheet!Range(sheet_observations')
        PROVE  /\ \A f \in Sheet!Fields : sheet_sheet'[o.value[1]].cells[f] # "unusable"
               /\ \A f \in sheet_required' : sheet_sheet'[o.value[1]].cells[f] # "blank"
    <3>1. CASE o \in Sheet!Range(sheet_observations)
      BY <1>1, <1>24, <3>1 DEF Sheet!SheetInv, Sheet!GoodHalvesStayOut
    <3>2. ASSUME Sheet!Disposition(row) = "ACCEPTED", NEW g \in Sheet!Fields,
                 o = Sheet!Observation(row, g)
          PROVE  /\ \A f \in Sheet!Fields : sheet_sheet'[o.value[1]].cells[f] # "unusable"
                 /\ \A f \in sheet_required' : sheet_sheet'[o.value[1]].cells[f] # "blank"
      <4>1. o.value = <<n, g>>
        BY <1>14, <3>2
      <4>2. o.value[1] = n
        BY <4>1
      <4>3. QED
        BY <1>1, <1>7, <1>12, <3>2, <4>2
    <3>3. QED
      BY <1>15, <3>1, <3>2
  <2>2. QED
    BY <2>1 DEF Sheet!GoodHalvesStayOut
<1>26. Sheet!ObservationsAreCells'
  <2>1. ASSUME NEW o \in Sheet!Range(sheet_observations')
        PROVE  /\ o.value[1] \in 1..n
               /\ o.project = Sheet!ProjectOf(sheet_sheet[o.value[1]])'
               /\ o.period = Sheet!PeriodOf(sheet_sheet[o.value[1]])'
               /\ o.concept = sheet_conceptOf'[o.value[2]]
               /\ \E s \in Sheet!Accepted' : s.row = o.value[1]
    <3>1. CASE o \in Sheet!Range(sheet_observations)
      <4>1. /\ o.project = Sheet!ProjectOf(sheet_sheet[o.value[1]])
            /\ o.period = Sheet!PeriodOf(sheet_sheet[o.value[1]])
            /\ o.concept = sheet_conceptOf[o.value[2]]
            /\ \E s \in Sheet!Accepted : s.row = o.value[1]
        BY <1>1, <3>1 DEF Sheet!SheetInv, Sheet!ObservationsAreCells
      <4>2. /\ o.value[1] \in 1..(n - 1)
            /\ Sheet!PeriodOf(sheet_sheet[o.value[1]])' = Sheet!PeriodOf(sheet_sheet[o.value[1]])
            /\ Sheet!ProjectOf(sheet_sheet[o.value[1]])' = Sheet!ProjectOf(sheet_sheet[o.value[1]])
        BY <1>24, <3>1
      <4>3. o.value[1] \in 1..n
        BY <4>2
      <4>4. QED
        BY <1>1, <1>9, <4>1, <4>2, <4>3
    <3>2. ASSUME Sheet!Disposition(row) = "ACCEPTED", NEW g \in Sheet!Fields,
                 o = Sheet!Observation(row, g)
          PROVE  /\ o.value[1] \in 1..n
                 /\ o.project = Sheet!ProjectOf(sheet_sheet[o.value[1]])'
                 /\ o.period = Sheet!PeriodOf(sheet_sheet[o.value[1]])'
                 /\ o.concept = sheet_conceptOf'[o.value[2]]
                 /\ \E s \in Sheet!Accepted' : s.row = o.value[1]
      <4>1. /\ o.value = <<n, g>> /\ o.project = Sheet!ProjectOf(row)
            /\ o.period = Sheet!PeriodOf(row) /\ o.concept = sheet_conceptOf[g]
        BY <1>14, <3>2
      <4>2. o.value[1] = n /\ o.value[2] = g
        BY <4>1
      <4>3. /\ Sheet!ProjectOf(sheet_sheet[o.value[1]])' = Sheet!ProjectOf(row)
            /\ Sheet!PeriodOf(sheet_sheet[o.value[1]])' = Sheet!PeriodOf(row)
        BY <1>1, <1>7, <4>2 DEF Sheet!ProjectOf, Sheet!PeriodOf
      <4>4. new \in Sheet!Accepted' /\ new.row = o.value[1]
        BY <1>6, <1>9, <3>2, <4>2
      <4>5. o.value[1] \in 1..n
        BY <1>4, <4>2
      <4>6. QED
        BY <1>1, <4>1, <4>2, <4>3, <4>4, <4>5
    <3>3. QED
      BY <1>15, <3>1, <3>2
  <2>2. QED
    BY <1>7, <2>1 DEF Sheet!ObservationsAreCells
<1>27. Sheet!CellsAreObserved'
  <2>1. ASSUME NEW s \in Sheet!Accepted', NEW f \in Sheet!Fields,
               sheet_sheet'[s.row].cells[f] = "usable"
        PROVE  \E o \in Sheet!Range(sheet_observations') : o.value = <<s.row, f>>
    <3>1. CASE s \in Sheet!Accepted /\ s \in Sheet!Range(sheet_staged)
      <4>1. sheet_sheet[s.row].cells[f] = "usable"
        BY <1>10, <2>1, <3>1
      <4>2. \E o \in Sheet!Range(sheet_observations) : o.value = <<s.row, f>>
        BY <1>1, <3>1, <4>1 DEF Sheet!SheetInv, Sheet!CellsAreObserved
      <4>3. QED
        BY <1>15, <4>2
    <3>2. CASE s = new /\ Sheet!Disposition(row) = "ACCEPTED"
      <4>1. row.cells[f] = "usable" /\ s.row = n
        BY <1>6, <1>19, <2>1, <3>2
      <4>2. Sheet!Observation(row, f) \in Sheet!Range(sheet_observations')
        BY <1>15, <3>2, <4>1
      <4>3. QED
        BY <1>14, <4>1, <4>2
    <3>3. QED
      BY <1>20, <3>1, <3>2
  <2>2. QED
    BY <2>1 DEF Sheet!CellsAreObserved
<1>28. Sheet!EveryRowIsCounted'
  <2>1. /\ IsFiniteSet(Sheet!Accepted) /\ IsFiniteSet(Sheet!Quarantined)
        /\ Cardinality(Sheet!Accepted) + Cardinality(Sheet!Quarantined) = n - 1
    <3>1. Len(sheet_sheet) = n - 1
      BY <1>2, <1>3
    <3>2. QED
      BY <1>1, <3>1, SheetCounts DEF Sheet!SheetInv, Sheet!EveryRowIsCounted
  <2>2. new \notin Sheet!Accepted /\ new \notin Sheet!Quarantined
    BY <1>6, <1>10, <1>11
  <2>3. Cardinality(Sheet!Accepted) \in Nat /\ Cardinality(Sheet!Quarantined) \in Nat
    BY <2>1, FS_CardinalityType
  <2>4. CASE new.disposition = "ACCEPTED"
    <3>1. Sheet!Accepted' = Sheet!Accepted \cup {new} /\ Sheet!Quarantined' = Sheet!Quarantined
      BY <1>9, <2>4
    <3>2. /\ IsFiniteSet(Sheet!Accepted \cup {new})
          /\ Cardinality(Sheet!Accepted \cup {new}) = Cardinality(Sheet!Accepted) + 1
      BY <2>1, <2>2, FS_AddElement
    <3>3. /\ IsFiniteSet(Sheet!Accepted') /\ IsFiniteSet(Sheet!Quarantined')
          /\ Cardinality(Sheet!Accepted') + Cardinality(Sheet!Quarantined') = n
      BY <2>1, <2>3, <3>1, <3>2
    <3>4. QED
      BY <1>7, <3>3, SheetCounts DEF Sheet!EveryRowIsCounted
  <2>5. CASE new.disposition = "QUARANTINED"
    <3>1. Sheet!Quarantined' = Sheet!Quarantined \cup {new} /\ Sheet!Accepted' = Sheet!Accepted
      BY <1>9, <2>5
    <3>2. /\ IsFiniteSet(Sheet!Quarantined \cup {new})
          /\ Cardinality(Sheet!Quarantined \cup {new}) = Cardinality(Sheet!Quarantined) + 1
      BY <2>1, <2>2, FS_AddElement
    <3>3. /\ IsFiniteSet(Sheet!Accepted') /\ IsFiniteSet(Sheet!Quarantined')
          /\ Cardinality(Sheet!Accepted') + Cardinality(Sheet!Quarantined') = n
      BY <2>1, <2>3, <3>1, <3>2
    <3>4. QED
      BY <1>7, <3>3, SheetCounts DEF Sheet!EveryRowIsCounted
  <2>6. QED
    BY <1>5, <2>4, <2>5 DEF Sheet!Verdicts
<1>29. Sheet!BatchIsWhole' /\ Sheet!ReceiptIsTheBatch'
  BY <1>1 DEF Sheet!BatchIsWhole, Sheet!ReceiptIsTheBatch
<1>30. QED
  BY <1>16, <1>17, <1>22, <1>23, <1>25, <1>26, <1>27, <1>28, <1>29 DEF Sheet!SheetInv

\* A list that holds nothing is empty.
LEMMA NoneIsEmpty ==
    ASSUME NEW S, NEW s \in Seq(S), Sheet!Range(s) = {}
    PROVE  s = <<>>
<1>1. DOMAIN s = 1..Len(s) /\ Len(s) \in Nat
  OBVIOUS
<1>2. \A i \in DOMAIN s : s[i] \in Sheet!Range(s)
  BY DEF Sheet!Range
<1>3. Len(s) = 0
  <2>1. CASE Len(s) # 0
    <3>1. 1 \in DOMAIN s
      BY <1>1, <2>1
    <3>2. QED
      BY <1>2, <3>1
  <2>2. QED
    BY <2>1
<1>4. QED
  BY <1>3

\* What a collection keeps is some of what was put, and something under every key.
LEMMA LastPerKeyIs ==
    ASSUME NEW S, NEW records \in Seq(S), NEW keys
    PROVE  LET kept == Sheet!LastPerKey(records, keys)
           IN  /\ kept \in Seq(S)
               /\ Sheet!Range(kept) \subseteq Sheet!Range(records)
               /\ \A n \in 1..Len(records) : \E m \in 1..Len(records) :
                     keys[m] = keys[n] /\ records[m] \in Sheet!Range(kept)
               /\ \A n \in 1..Len(records) :
                     (\A m \in 1..Len(records) : keys[m] = keys[n] => m <= n)
                        => records[n] \in Sheet!Range(kept)
<1> DEFINE at == {n \in DOMAIN records : \A m \in DOMAIN records : keys[m] = keys[n] => m <= n}
           kept == Sheet!LastPerKey(records, keys)
<1>1. kept = Kept(records, at)
  BY SheetKept DEF Sheet!LastPerKey
<1>2. DOMAIN records = 1..Len(records) /\ Len(records) \in Nat
  OBVIOUS
<1>3. at \subseteq DOMAIN records
  OBVIOUS
<1>4. \A n \in 1..Len(records) :
         (\A m \in 1..Len(records) : keys[m] = keys[n] => m <= n) => n \in at
  BY <1>2
<1> HIDE DEF at, kept
<1>5. /\ Kept(records, at) \in Seq(S)
      /\ \A i \in DOMAIN Kept(records, at) : \E n \in at : Kept(records, at)[i] = records[n]
      /\ \A n \in at : \E i \in DOMAIN Kept(records, at) : Kept(records, at)[i] = records[n]
  BY <1>3, KeptIs
<1>6. \A n \in at : records[n] \in Sheet!Range(kept)
  BY <1>1, <1>5 DEF Sheet!Range
<1>7. Sheet!Range(kept) \subseteq Sheet!Range(records)
  BY <1>1, <1>3, <1>5 DEF Sheet!Range
<1>8. ASSUME NEW n \in 1..Len(records)
      PROVE  \E m \in 1..Len(records) : keys[m] = keys[n] /\ records[m] \in Sheet!Range(kept)
  <2> DEFINE same == {k \in 1..Len(records) : keys[k] = keys[n]}
  <2>a. same \subseteq 1..Len(records)
    OBVIOUS
  <2>b. same # {}
    OBVIOUS
  <2>c. Len(records) \in Nat
    BY <1>2
  <2>d. PICK m \in same : \A k \in same : k <= m
    <3> HIDE DEF same
    <3>1. QED
      BY <2>a, <2>b, <2>c, Greatest
  <2>1. /\ m \in 1..Len(records) /\ keys[m] = keys[n]
        /\ \A k \in 1..Len(records) : keys[k] = keys[n] => k <= m
    BY <2>d
  <2>2. m \in at
    BY <1>4, <2>1
  <2>3. QED
    BY <1>6, <2>1, <2>2
<1>9. QED
  BY <1>1, <1>4, <1>5, <1>6, <1>7, <1>8 DEF kept

\* The projects of a list of observations are finitely many.
LEMMA ProjectsAreFinite ==
    ASSUME NEW list \in Seq(Sheet!Observations)
    PROVE  LET projects == {o.project : o \in Sheet!Range(list)}
           IN  IsFiniteSet(projects) /\ Cardinality(projects) \in Nat
<1> DEFINE projects == {o.project : o \in Sheet!Range(list)}
           at == 1..Len(list)
           f == [k \in at |-> list[k].project]
<1>1. Len(list) \in Nat /\ DOMAIN list = at
  OBVIOUS
<1>2. IsFiniteSet(at)
  BY <1>1, FS_Interval
<1>3. projects = {f[k] : k \in at}
  BY <1>1 DEF Sheet!Range
<1>4. f \in [at -> projects]
  BY <1>1 DEF Sheet!Range
<1> HIDE DEF projects, at, f
<1>5. /\ IsFiniteSet({f[k] : k \in at}) /\ Cardinality({f[k] : k \in at}) \in Nat
  BY <1>2, <1>4, GivenIsFinite
<1>6. QED
  BY <1>3, <1>5 DEF projects

\* The sheet is read to its end: its receipt is written, and its figures with it or none.
LEMMA SheetIsFinished ==
    ASSUME Sheet!SheetInv, NEW declared \in 0..SheetMaxRows, Sheet!Finish(declared)
    PROVE  Sheet!SheetInv'
<1> DEFINE believed == Sheet!Reconciles(declared)
           matched == {s.project : s \in Sheet!Accepted}
<1>1. /\ sheet_phase = "reading"
      /\ sheet_phase' = IF believed THEN "stored" ELSE "unreconciled"
      /\ sheet_observations' = IF believed THEN sheet_observations ELSE <<>>
      /\ sheet_receipt' = Sheet!Receipt(declared)
      /\ UNCHANGED <<sheet_periodField, sheet_conceptOf, sheet_required, sheet_sheet,
                     sheet_seenIdentities, sheet_seenPeriodKeys, sheet_staged>>
  BY DEF Sheet!Finish, Sheet!mapping
<1>2. /\ sheet_conceptOf \in [Sheet!Fields -> SheetConcepts]
      /\ sheet_sheet \in Seq(Sheet!Rows) /\ sheet_staged \in Seq(Sheet!Verdicts)
      /\ sheet_observations \in Seq(Sheet!Observations)
      /\ Len(sheet_sheet) = Len(sheet_staged) /\ Len(sheet_sheet) <= SheetMaxRows
      /\ Len(sheet_sheet) \in Nat
  BY <1>1 DEF Sheet!SheetInv, Sheet!TypeOK, Sheet!VerdictsAreTheRows
<1>3. /\ IsFiniteSet(Sheet!Accepted) /\ IsFiniteSet(Sheet!Quarantined)
      /\ Cardinality(Sheet!Accepted) + Cardinality(Sheet!Quarantined) = Len(sheet_sheet)
  BY <1>1, SheetCounts DEF Sheet!SheetInv, Sheet!EveryRowIsCounted
<1>4. /\ Cardinality(Sheet!Accepted) \in Nat /\ Cardinality(Sheet!Quarantined) \in Nat
      /\ Cardinality(Sheet!Accepted) = 0 <=> Sheet!Accepted = {}
      /\ Cardinality(Sheet!Quarantined) = 0 <=> Sheet!Quarantined = {}
  BY <1>3, FS_CardinalityType, FS_EmptySet
<1>5. /\ sheet_receipt'.detected = Len(sheet_sheet)
      /\ sheet_receipt'.accepted = IF believed THEN Cardinality(Sheet!Accepted) ELSE 0
      /\ sheet_receipt'.quarantined = IF believed THEN Cardinality(Sheet!Quarantined) ELSE Len(sheet_staged)
      /\ sheet_receipt'.projectsMatched = Cardinality(matched)
      /\ sheet_receipt'.conceptsMapped = {sheet_conceptOf[f] : f \in Sheet!Fields}
  BY <1>1, SheetCounts DEF Sheet!Receipt, Sheet!ReceiptAsRead
<1>6. Sheet!Accepted' = Sheet!Accepted /\ Sheet!Quarantined' = Sheet!Quarantined
  BY <1>1 DEF Sheet!Accepted, Sheet!Quarantined
<1>7. IsFiniteSet(matched) /\ Cardinality(matched) \in Nat
  <2> DEFINE all == Sheet!Accepted
             f == [s \in all |-> s.project]
  <2>1. matched = {f[s] : s \in all}
    OBVIOUS
  <2>2. f \in [all -> matched]
    OBVIOUS
  <2>3. IsFiniteSet(all)
    BY <1>3
  <2> HIDE DEF all, f, matched
  <2>4. /\ IsFiniteSet({f[s] : s \in all}) /\ Cardinality({f[s] : s \in all}) \in Nat
    BY <2>2, <2>3, GivenIsFinite
  <2>5. QED
    BY <2>1, <2>4
<1> HIDE DEF believed, matched
<1>8. /\ sheet_observations' \in Seq(Sheet!Observations)
      /\ Sheet!Range(sheet_observations') \subseteq Sheet!Range(sheet_observations)
      /\ ~believed => Sheet!Range(sheet_observations') = {} /\ sheet_observations' = <<>>
      /\ believed => sheet_observations' = sheet_observations
  <2>1. <<>> \in Seq(Sheet!Observations) /\ Sheet!Range(<<>>) = {}
    BY DEF Sheet!Range
  <2>2. QED
    BY <1>1, <1>2, <2>1
<1>9. Sheet!TypeOK'
  <2>1. /\ sheet_receipt'.detected \in 0..SheetMaxRows /\ sheet_receipt'.projectsMatched \in Nat
        /\ sheet_receipt'.conceptsMapped \subseteq SheetConcepts
    BY <1>2, <1>5, <1>7, SheetNumbers
  <2>2. QED
    BY <1>1, <1>8, <2>1 DEF Sheet!SheetInv, Sheet!TypeOK
<1>10. Sheet!VerdictsAreTheRows'
  BY <1>1 DEF Sheet!SheetInv, Sheet!VerdictsAreTheRows, Sheet!NaturalKey, Sheet!ProjectOf
<1>11. Sheet!AcceptedIsClean'
  BY <1>1, <1>6 DEF Sheet!SheetInv, Sheet!AcceptedIsClean, Sheet!PeriodKey, Sheet!PeriodOf, Sheet!ProjectOf
<1>12. Sheet!OneRowPerFigure'
  BY <1>1, <1>6 DEF Sheet!SheetInv, Sheet!OneRowPerFigure, Sheet!PeriodOf
<1>13. Sheet!GoodHalvesStayOut'
  BY <1>1, <1>8 DEF Sheet!SheetInv, Sheet!GoodHalvesStayOut
<1>14. Sheet!ObservationsAreCells'
  BY <1>1, <1>6, <1>8 DEF Sheet!SheetInv, Sheet!ObservationsAreCells, Sheet!PeriodOf, Sheet!ProjectOf
<1>15. Sheet!CellsAreObserved'
  BY <1>1, <1>6, <1>8 DEF Sheet!SheetInv, Sheet!CellsAreObserved
<1>16. Sheet!EveryRowIsCounted'
  BY <1>1 DEF Sheet!EveryRowIsCounted
<1>17. Sheet!BatchIsWhole'
  BY <1>1, <1>6, <1>8, <1>15 DEF Sheet!CellsAreObserved, Sheet!BatchIsWhole
<1>18. Sheet!ReceiptIsTheBatch'
  <2>1. sheet_receipt'.accepted + sheet_receipt'.quarantined = sheet_receipt'.detected
    BY <1>2, <1>3, <1>4, <1>5
  <2>2. /\ Sheet!Verify.verdict' = IF sheet_receipt'.accepted = 0 THEN "INGESTED_NOT_REACHABLE"
                                                                   ELSE "INGESTED_NOT_USED"
        /\ Sheet!Verify.validationState' = (sheet_receipt'.quarantined = 0)
    BY <1>1 DEF Sheet!Verify
  <2>3. \A o \in Sheet!Range(sheet_observations) :
           /\ \E s \in Sheet!Accepted : s.project = o.project
           /\ o.concept \in {sheet_conceptOf[f] : f \in Sheet!Fields}
    <3>1. ASSUME NEW o \in Sheet!Range(sheet_observations)
          PROVE  /\ \E s \in Sheet!Accepted : s.project = o.project
                 /\ o.concept \in {sheet_conceptOf[f] : f \in Sheet!Fields}
      <4>1. /\ o.project = Sheet!ProjectOf(sheet_sheet[o.value[1]])
            /\ o.concept = sheet_conceptOf[o.value[2]]
            /\ \E s \in Sheet!Accepted : s.row = o.value[1]
        BY <1>1 DEF Sheet!SheetInv, Sheet!ObservationsAreCells
      <4>a. o \in Sheet!Observations
        BY <1>2 DEF Sheet!Range
      <4>2. o.value[2] \in Sheet!Fields
        BY <4>a DEF Sheet!Observations
      <4>3. \A s \in Sheet!Accepted : s.project = Sheet!ProjectOf(sheet_sheet[s.row])
        BY DEF Sheet!SheetInv, Sheet!VerdictsAreTheRows, Sheet!Accepted
      <4>4. QED
        BY <4>1, <4>2, <4>3
    <3>2. QED
      BY <3>1
  <2>4. sheet_receipt'.accepted = 0 => sheet_observations' = <<>>
    <3>1. CASE believed /\ Sheet!Accepted = {}
      <4>1. Sheet!Range(sheet_observations) = {}
        BY <2>3, <3>1
      <4>2. sheet_observations = <<>>
        BY <1>2, <4>1, NoneIsEmpty
      <4>3. QED
        BY <1>8, <3>1, <4>2
    <3>2. QED
      BY <1>4, <1>5, <1>8, <3>1
  <2>5. sheet_receipt'.accepted # 0 /\ sheet_observations' = <<>> =>
           \A s \in Sheet!Accepted', f \in Sheet!Fields : sheet_sheet'[s.row].cells[f] # "usable"
    <3>1. Sheet!Range(<<>>) = {}
      BY DEF Sheet!Range
    <3>2. QED
      BY <1>1, <1>5, <1>15, <3>1 DEF Sheet!CellsAreObserved
  <2>6. {o.concept : o \in Sheet!Range(sheet_observations')} \subseteq sheet_receipt'.conceptsMapped
    BY <1>5, <1>8, <2>3
  <2>7. Cardinality({o.project : o \in Sheet!Range(sheet_observations')}) <= sheet_receipt'.projectsMatched
    <3> DEFINE projects == {o.project : o \in Sheet!Range(sheet_observations')}
    <3>1. projects \in SUBSET matched
      BY <1>8, <2>3 DEF matched
    <3> HIDE DEF projects
    <3>2. Cardinality(projects) <= Cardinality(matched)
      BY <1>7, <3>1, FS_Subset
    <3>3. QED
      BY <1>5, <3>2 DEF projects
  <2>8. believed => (sheet_receipt'.quarantined = 0 <=> Sheet!ValidationStatus' = "NONE_FAILED")
    BY <1>4, <1>5, <1>6 DEF Sheet!ValidationStatus
  <2>9. QED
    BY <1>1, <2>1, <2>2, <2>4, <2>5, <2>6, <2>7, <2>8, SheetCounts DEF Sheet!ReceiptIsTheBatch
<1>19. QED
  BY <1>9, <1>10, <1>11, <1>12, <1>13, <1>14, <1>15, <1>16, <1>17, <1>18 DEF Sheet!SheetInv

\* The next process has some of the verdicts and of the observations, and nothing else.
LEMMA SheetIsGivenBack ==
    Sheet!SheetInv /\ Sheet!Restart => Sheet!SheetInv'
<1> SUFFICES ASSUME Sheet!SheetInv, Sheet!Restart PROVE Sheet!SheetInv'
  OBVIOUS
<1>1. /\ sheet_phase \in {"stored", "unreconciled"} /\ sheet_phase' = "restarted"
      /\ sheet_staged' = Sheet!LastPerKey(sheet_staged, Sheet!StagedKeys(sheet_staged))
      /\ sheet_observations' =
            Sheet!LastPerKey(sheet_observations, Sheet!ObservationKeys(sheet_observations))
      /\ UNCHANGED <<sheet_periodField, sheet_conceptOf, sheet_required, sheet_sheet,
                     sheet_seenIdentities, sheet_seenPeriodKeys, sheet_receipt>>
  BY DEF Sheet!Restart, Sheet!mapping
<1>2. sheet_staged \in Seq(Sheet!Verdicts)
  BY DEF Sheet!SheetInv, Sheet!TypeOK
<1>3. sheet_observations \in Seq(Sheet!Observations)
  BY DEF Sheet!SheetInv, Sheet!TypeOK
<1>4. /\ sheet_staged' \in Seq(Sheet!Verdicts)
      /\ Sheet!Range(sheet_staged') \subseteq Sheet!Range(sheet_staged)
  BY <1>1, <1>2, LastPerKeyIs
<1>5. /\ sheet_observations' \in Seq(Sheet!Observations)
      /\ Sheet!Range(sheet_observations') \subseteq Sheet!Range(sheet_observations)
      /\ \A n \in 1..Len(sheet_observations) : \E m \in 1..Len(sheet_observations) :
            sheet_observations[m] \in Sheet!Range(sheet_observations')
  <2> DEFINE records == sheet_observations
             keys == Sheet!ObservationKeys(sheet_observations)
             kept == Sheet!LastPerKey(records, keys)
  <2>1. records \in Seq(Sheet!Observations)
    BY <1>3
  <2> HIDE DEF records, keys
  <2>2. /\ kept \in Seq(Sheet!Observations)
        /\ Sheet!Range(kept) \subseteq Sheet!Range(records)
        /\ \A n \in 1..Len(records) : \E m \in 1..Len(records) :
              keys[m] = keys[n] /\ records[m] \in Sheet!Range(kept)
    BY <2>1, LastPerKeyIs
  <2>3. sheet_observations' = kept /\ records = sheet_observations
    BY <1>1 DEF records, keys
  <2>4. QED
    BY <2>2, <2>3
<1>6. sheet_observations' = <<>> => sheet_observations = <<>>
  <2>1. Sheet!Range(<<>>) = {}
    BY DEF Sheet!Range
  <2>2. ASSUME sheet_observations' = <<>> PROVE Sheet!Range(sheet_observations) = {}
    <3>1. DOMAIN sheet_observations = 1..Len(sheet_observations)
      BY <1>3
    <3>2. QED
      BY <1>5, <2>1, <2>2, <3>1 DEF Sheet!Range
  <2>3. QED
    BY <1>3, <2>2, NoneIsEmpty
<1>7. sheet_observations = <<>> => sheet_observations' = <<>>
  <2>1. Sheet!Range(<<>>) = {}
    BY DEF Sheet!Range
  <2>2. ASSUME sheet_observations = <<>> PROVE sheet_observations' = <<>>
    <3>1. Sheet!Range(sheet_observations') = {}
      BY <1>5, <2>1, <2>2
    <3>2. QED
      BY <1>5, <3>1, NoneIsEmpty
  <2>3. QED
    BY <2>2
<1>8. Sheet!Accepted' \subseteq Sheet!Accepted
  BY <1>4 DEF Sheet!Accepted
<1>9. Sheet!TypeOK'
  BY <1>1, <1>4, <1>5 DEF Sheet!SheetInv, Sheet!TypeOK
<1>10. Sheet!VerdictsAreTheRows'
  BY <1>1, <1>4 DEF Sheet!SheetInv, Sheet!VerdictsAreTheRows, Sheet!NaturalKey, Sheet!ProjectOf
<1>11. Sheet!AcceptedIsClean'
  BY <1>1, <1>8 DEF Sheet!SheetInv, Sheet!AcceptedIsClean, Sheet!PeriodKey, Sheet!PeriodOf, Sheet!ProjectOf
<1>12. Sheet!OneRowPerFigure'
  BY <1>1, <1>8 DEF Sheet!SheetInv, Sheet!OneRowPerFigure, Sheet!PeriodOf
<1>13. Sheet!GoodHalvesStayOut'
  BY <1>1, <1>5 DEF Sheet!SheetInv, Sheet!GoodHalvesStayOut
<1>14. Sheet!ObservationsAreCells'
  BY <1>1, <1>5 DEF Sheet!SheetInv, Sheet!ObservationsAreCells, Sheet!PeriodOf, Sheet!ProjectOf
<1>15. /\ Sheet!CellsAreObserved' /\ Sheet!EveryRowIsCounted' /\ Sheet!BatchIsWhole'
  BY <1>1 DEF Sheet!CellsAreObserved, Sheet!EveryRowIsCounted, Sheet!BatchIsWhole
<1>16. Sheet!ReceiptIsTheBatch'
  <2>1. /\ sheet_receipt.accepted + sheet_receipt.quarantined = sheet_receipt.detected
        /\ Sheet!Verify.verdict = "INGESTED_NOT_REACHABLE" => sheet_observations = <<>>
        /\ Sheet!Verify.verdict = "INGESTED_NOT_USED" /\ sheet_observations = <<>> =>
              \A s \in Sheet!Accepted, f \in Sheet!Fields : sheet_sheet[s.row].cells[f] # "usable"
        /\ {o.concept : o \in Sheet!Range(sheet_observations)} \subseteq sheet_receipt.conceptsMapped
        /\ Cardinality({o.project : o \in Sheet!Range(sheet_observations)}) <= sheet_receipt.projectsMatched
    BY <1>1, SheetCounts DEF Sheet!SheetInv, Sheet!ReceiptIsTheBatch
  <2>2. Sheet!Verify.verdict' = Sheet!Verify.verdict
    BY <1>1 DEF Sheet!Verify
  <2>3. Cardinality({o.project : o \in Sheet!Range(sheet_observations')}) <= sheet_receipt.projectsMatched
    <3> DEFINE old == {o.project : o \in Sheet!Range(sheet_observations)}
               new == {o.project : o \in Sheet!Range(sheet_observations')}
    <3>1. new \in SUBSET old
      BY <1>5
    <3>2. IsFiniteSet(old) /\ Cardinality(old) \in Nat
      BY <1>3, ProjectsAreFinite
    <3>3. IsFiniteSet(new) /\ Cardinality(new) \in Nat
      BY <1>5, ProjectsAreFinite
    <3>4. Cardinality(old) <= sheet_receipt.projectsMatched /\ sheet_receipt.projectsMatched \in Nat
      BY <2>1 DEF Sheet!SheetInv, Sheet!TypeOK
    <3> HIDE DEF old, new
    <3>5. Cardinality(new) <= Cardinality(old)
      BY <3>1, <3>2, FS_Subset
    <3>6. QED
      BY <3>2, <3>3, <3>4, <3>5 DEF new
  <2>4. {o.concept : o \in Sheet!Range(sheet_observations')} \subseteq sheet_receipt.conceptsMapped
    BY <1>5, <2>1
  <2>5. Sheet!Verify.verdict = "INGESTED_NOT_USED" /\ sheet_observations' = <<>> =>
           \A s \in Sheet!Accepted', f \in Sheet!Fields : sheet_sheet'[s.row].cells[f] # "usable"
    BY <1>1, <1>6, <1>8, <2>1
  <2>6. QED
    BY <1>1, <1>7, <2>1, <2>2, <2>3, <2>4, <2>5, SheetCounts DEF Sheet!ReceiptIsTheBatch
<1>17. QED
  BY <1>9, <1>10, <1>11, <1>12, <1>13, <1>14, <1>15, <1>16 DEF Sheet!SheetInv

LEMMA SheetBegins == Sheet!Init => Sheet!SheetInv
<1> SUFFICES ASSUME Sheet!Init PROVE Sheet!SheetInv
  OBVIOUS
<1>1. /\ sheet_periodField \in BOOLEAN /\ sheet_conceptOf \in [Sheet!Fields -> SheetConcepts]
      /\ sheet_required \in SUBSET Sheet!Fields
      /\ sheet_sheet = <<>> /\ sheet_staged = <<>> /\ sheet_observations = <<>>
      /\ sheet_seenIdentities = {} /\ sheet_seenPeriodKeys = {}
      /\ sheet_receipt = Sheet!NoReceipt /\ sheet_phase = "reading"
  BY DEF Sheet!Init
<1>2. /\ Sheet!Range(sheet_staged) = {} /\ Sheet!Range(sheet_observations) = {}
      /\ Sheet!Accepted = {} /\ Sheet!Quarantined = {}
  BY <1>1 DEF Sheet!Range, Sheet!Accepted, Sheet!Quarantined
<1>3. Sheet!TypeOK
  <2>1. /\ sheet_sheet \in Seq(Sheet!Rows) /\ Len(sheet_sheet) = 0
        /\ sheet_staged \in Seq(Sheet!Verdicts) /\ sheet_observations \in Seq(Sheet!Observations)
    BY <1>1
  <2>2. /\ sheet_receipt.detected = 0 /\ sheet_receipt.projectsMatched = 0
        /\ sheet_receipt.conceptsMapped = {}
    BY <1>1 DEF Sheet!NoReceipt
  <2>3. QED
    BY <1>1, <2>1, <2>2, SheetNumbers DEF Sheet!TypeOK
<1>4. Sheet!VerdictsAreTheRows
  BY <1>1, <1>2 DEF Sheet!VerdictsAreTheRows
<1>5. Sheet!EveryRowIsCounted
  <2>1. IsFiniteSet({}) /\ Cardinality({}) = 0
    BY FS_EmptySet
  <2>2. Len(sheet_sheet) = 0
    BY <1>1
  <2>3. QED
    BY <1>2, <2>1, <2>2, SheetCounts DEF Sheet!EveryRowIsCounted
<1>6. /\ Sheet!AcceptedIsClean /\ Sheet!ObservationsAreCells /\ Sheet!CellsAreObserved
      /\ Sheet!OneRowPerFigure /\ Sheet!GoodHalvesStayOut
      /\ Sheet!BatchIsWhole /\ Sheet!ReceiptIsTheBatch
  BY <1>1, <1>2 DEF Sheet!AcceptedIsClean, Sheet!ObservationsAreCells, Sheet!CellsAreObserved,
     Sheet!OneRowPerFigure, Sheet!GoodHalvesStayOut, Sheet!BatchIsWhole, Sheet!ReceiptIsTheBatch
<1>7. QED
  BY <1>3, <1>4, <1>5, <1>6 DEF Sheet!SheetInv

LEMMA SheetMoves ==
    Sheet!SheetInv /\ (Sheet!Next \/ UNCHANGED sheetVars) => Sheet!SheetInv'
<1>1. ASSUME Sheet!SheetInv, UNCHANGED sheetVars PROVE Sheet!SheetInv'
  <2>1. /\ Sheet!TypeOK' /\ Sheet!VerdictsAreTheRows' /\ Sheet!ObservationsAreCells'
    BY <1>1 DEF sheetVars, Sheet!SheetInv, Sheet!TypeOK, Sheet!VerdictsAreTheRows, Sheet!Accepted,
       Sheet!ObservationsAreCells, Sheet!PeriodOf, Sheet!ProjectOf, Sheet!NaturalKey
  <2>2. Sheet!AcceptedIsClean' /\ Sheet!OneRowPerFigure' /\ Sheet!GoodHalvesStayOut'
    BY <1>1 DEF sheetVars, Sheet!SheetInv, Sheet!AcceptedIsClean, Sheet!OneRowPerFigure, Sheet!Accepted,
       Sheet!GoodHalvesStayOut, Sheet!PeriodOf, Sheet!PeriodKey, Sheet!ProjectOf
  <2>3. Sheet!CellsAreObserved' /\ Sheet!EveryRowIsCounted' /\ Sheet!BatchIsWhole'
    BY <1>1 DEF sheetVars, Sheet!SheetInv, Sheet!CellsAreObserved, Sheet!EveryRowIsCounted,
       Sheet!BatchIsWhole, Sheet!Accepted, Sheet!Quarantined
  <2>4. Sheet!ReceiptIsTheBatch'
    BY <1>1 DEF sheetVars, Sheet!SheetInv, Sheet!ReceiptIsTheBatch, Sheet!Verify, Sheet!ValidationStatus,
       Sheet!Accepted, Sheet!Quarantined
  <2>5. QED
    BY <2>1, <2>2, <2>3, <2>4 DEF Sheet!SheetInv
<1>2. QED
  BY <1>1, RowIsRead, SheetIsFinished, SheetIsGivenBack DEF Sheet!Next

\* A project has one figure per concept and period, a row is taken in whole or not at all,
\* and the batch is its receipt and what is verified of it (structured.ts ingestSheet,
\* staging.ts reconcile, registry.ts verify).
THEOREM FiguresAreAlwaysWhole == ServiceSpec => []FiguresAreWhole
<1> DEFINE Inv == part = "sheet" => Sheet!SheetInv
<1>1. ServiceInit => Inv
  BY Starts, SheetBegins
<1>2. Inv /\ [ServiceNext]_serviceVars => Inv'
  BY Moves, SheetMoves
<1>3. Inv => FiguresAreWhole
  BY DEF FiguresAreWhole, Sheet!SheetInv
<1>4. QED
  BY <1>1, <1>2, <1>3, PTL DEF ServiceSpec

\* Where each column has a concept of its own, no two observations share a key.
LEMMA ObservationsAreGivenBack ==
    Sheet!SheetInv /\ (Sheet!Next \/ UNCHANGED sheetVars) => Sheet!ObservationsSurvive
<1> SUFFICES ASSUME Sheet!SheetInv, Sheet!Next \/ UNCHANGED sheetVars,
                    sheet_phase' = "restarted", Sheet!IsInjective(sheet_conceptOf)
             PROVE  Sheet!Range(sheet_observations') = Sheet!Range(sheet_observations)
  BY DEF Sheet!ObservationsSurvive
<1>1. CASE UNCHANGED sheetVars
  BY <1>1 DEF sheetVars
<1>2. CASE ~UNCHANGED sheetVars
  <2> DEFINE records == sheet_observations
             keys == Sheet!ObservationKeys(sheet_observations)
             kept == Sheet!LastPerKey(records, keys)
  <2>1. Sheet!Restart
    BY <1>2 DEF Sheet!Next, Sheet!IngestRow, Sheet!Finish
  <2>2. sheet_phase \in {"stored", "unreconciled"} /\ sheet_observations' = kept
    BY <2>1 DEF Sheet!Restart
  <2>3. records \in Seq(Sheet!Observations)
    BY DEF Sheet!SheetInv, Sheet!TypeOK
  <2>4. \A n \in 1..Len(records) :
           keys[n] = <<records[n].project, records[n].concept, records[n].period>>
    BY <2>3 DEF Sheet!ObservationKeys
  <2>5. sheet_conceptOf \in [Sheet!Fields -> SheetConcepts]
    BY DEF Sheet!SheetInv, Sheet!TypeOK
  <2>6. ASSUME NEW n \in 1..Len(records), NEW m \in 1..Len(records), keys[m] = keys[n]
        PROVE  records[m] = records[n]
    <3>1. PICK o \in Sheet!Observations : o = records[n] /\ o \in Sheet!Range(records)
      BY <2>3 DEF Sheet!Range
    <3>2. PICK p \in Sheet!Observations : p = records[m] /\ p \in Sheet!Range(records)
      BY <2>3 DEF Sheet!Range
    <3>3. o.project = p.project /\ o.concept = p.concept /\ o.period = p.period
      BY <2>4, <2>6, <3>1, <3>2
    <3>4. /\ o.project = Sheet!ProjectOf(sheet_sheet[o.value[1]])
          /\ o.period = Sheet!PeriodOf(sheet_sheet[o.value[1]])
          /\ o.concept = sheet_conceptOf[o.value[2]]
          /\ \E s \in Sheet!Accepted : s.row = o.value[1]
      BY <2>2, <3>1 DEF Sheet!SheetInv, Sheet!ObservationsAreCells
    <3>5. /\ p.project = Sheet!ProjectOf(sheet_sheet[p.value[1]])
          /\ p.period = Sheet!PeriodOf(sheet_sheet[p.value[1]])
          /\ p.concept = sheet_conceptOf[p.value[2]]
          /\ \E s \in Sheet!Accepted : s.row = p.value[1]
      BY <2>2, <3>2 DEF Sheet!SheetInv, Sheet!ObservationsAreCells
    <3>6. PICK s \in Sheet!Accepted : s.row = o.value[1]
      BY <3>4
    <3>7. PICK t \in Sheet!Accepted : t.row = p.value[1]
      BY <3>5
    <3>8. \A q \in Sheet!Accepted : q.project = Sheet!ProjectOf(sheet_sheet[q.row])
      BY DEF Sheet!SheetInv, Sheet!VerdictsAreTheRows, Sheet!Accepted
    <3>9. s.project = t.project /\ Sheet!PeriodOf(sheet_sheet[s.row]) = Sheet!PeriodOf(sheet_sheet[t.row])
      BY <3>3, <3>4, <3>5, <3>6, <3>7, <3>8
    <3>10. s = t
      BY <3>9 DEF Sheet!SheetInv, Sheet!OneRowPerFigure
    <3>11. o.value[1] = p.value[1]
      BY <3>6, <3>7, <3>10
    <3>12. /\ o.value \in (1..SheetMaxRows) \X Sheet!Fields
           /\ p.value \in (1..SheetMaxRows) \X Sheet!Fields
      BY DEF Sheet!Observations
    <3>13. o.value[2] = p.value[2]
      BY <2>5, <3>3, <3>4, <3>5, <3>12 DEF Sheet!IsInjective
    <3>14. o.value = p.value
      BY <3>11, <3>12, <3>13
    <3>15. o = p
      BY <3>3, <3>14 DEF Sheet!Observations
    <3>16. QED
      BY <3>1, <3>2, <3>15
  <2> HIDE DEF records, keys
  <2>7. /\ Sheet!Range(kept) \subseteq Sheet!Range(records)
        /\ \A n \in 1..Len(records) : \E m \in 1..Len(records) :
              keys[m] = keys[n] /\ records[m] \in Sheet!Range(kept)
    BY <2>3, LastPerKeyIs
  <2>8. \A n \in 1..Len(records) : records[n] \in Sheet!Range(kept)
    BY <2>6, <2>7
  <2>9. Sheet!Range(records) \subseteq Sheet!Range(kept)
    BY <2>3, <2>8 DEF Sheet!Range
  <2>10. QED
    BY <2>2, <2>7, <2>9 DEF records
<1>3. QED
  BY <1>1, <1>2

\* A row that has its key to itself keeps its verdict.
LEMMA VerdictsAreGivenBack ==
    Sheet!SheetInv /\ (Sheet!Next \/ UNCHANGED sheetVars) => Sheet!LoneRowsSurvive
<1> SUFFICES ASSUME Sheet!SheetInv, Sheet!Next \/ UNCHANGED sheetVars, sheet_phase' = "restarted",
                    NEW s \in Sheet!Range(sheet_staged),
                    \/ sheet_sheet[s.row].identity = SheetBlank
                    \/ \A n \in DOMAIN sheet_sheet \ {s.row} :
                          SheetSafeId[sheet_sheet[n].identity] # SheetSafeId[sheet_sheet[s.row].identity]
             PROVE  s \in Sheet!Range(sheet_staged')
  BY DEF Sheet!LoneRowsSurvive
<1>1. CASE UNCHANGED sheetVars
  BY <1>1 DEF sheetVars
<1>2. CASE ~UNCHANGED sheetVars
  <2> DEFINE records == sheet_staged
             keys == Sheet!StagedKeys(sheet_staged)
             kept == Sheet!LastPerKey(records, keys)
  <2>1. Sheet!Restart
    BY <1>2 DEF Sheet!Next, Sheet!IngestRow, Sheet!Finish
  <2>2. sheet_phase \in {"stored", "unreconciled"} /\ sheet_staged' = kept
    BY <2>1 DEF Sheet!Restart
  <2>3. records \in Seq(Sheet!Verdicts) /\ DOMAIN records = 1..Len(records) /\ Len(records) \in Nat
    BY DEF Sheet!SheetInv, Sheet!TypeOK
  <2>4. /\ \A n \in 1..Len(records) :
              /\ records[n].row = n /\ n \in DOMAIN sheet_sheet
              /\ records[n].key = Sheet!NaturalKey(sheet_sheet[n], n)
    <3>1. \A n \in 1..Len(records) : records[n] \in Sheet!Range(sheet_staged)
      BY <2>3 DEF Sheet!Range
    <3>2. \A n \in 1..Len(records) : records[n].row = n
      BY <2>2, <2>3 DEF Sheet!SheetInv, Sheet!VerdictsAreTheRows
    <3>3. \A v \in Sheet!Range(sheet_staged) :
             v.row \in DOMAIN sheet_sheet /\ v.key = Sheet!NaturalKey(sheet_sheet[v.row], v.row)
      BY DEF Sheet!SheetInv, Sheet!VerdictsAreTheRows
    <3> HIDE DEF records
    <3>4. QED
      BY <3>1, <3>2, <3>3
  <2>5. \A n \in 1..Len(records) :
           keys[n] = <<SheetSafeId[sheet_sheet[n].identity],
                       IF sheet_sheet[n].identity = SheetBlank THEN n ELSE 0>>
    BY <2>3, <2>4 DEF Sheet!StagedKeys, Sheet!NaturalKey
  <2>6. PICK n \in 1..Len(records) : s = records[n]
    BY <2>3 DEF Sheet!Range
  <2> HIDE DEF records, keys
  <2>7. s.row = n
    BY <2>4, <2>6
  <2>8. ASSUME NEW m \in 1..Len(records), keys[m] = keys[n]
        PROVE  m = n
    <3>1. /\ SheetSafeId[sheet_sheet[m].identity] = SheetSafeId[sheet_sheet[n].identity]
          /\ (IF sheet_sheet[m].identity = SheetBlank THEN m ELSE 0)
               = (IF sheet_sheet[n].identity = SheetBlank THEN n ELSE 0)
      BY <2>5, <2>8
    <3>2. CASE sheet_sheet[n].identity = SheetBlank
      BY <2>3, <3>1, <3>2
    <3>3. CASE \A k \in DOMAIN sheet_sheet \ {s.row} :
                  SheetSafeId[sheet_sheet[k].identity] # SheetSafeId[sheet_sheet[s.row].identity]
      BY <2>4, <2>7, <3>1, <3>3
    <3>4. QED
      BY <2>7, <3>2, <3>3
  <2>9. records \in Seq(Sheet!Verdicts)
    BY <2>3
  <2>10. (\A m \in 1..Len(records) : keys[m] = keys[n] => m <= n) => records[n] \in Sheet!Range(kept)
    BY <2>9, LastPerKeyIs
  <2>11. \A m \in 1..Len(records) : keys[m] = keys[n] => m <= n
    BY <2>3, <2>8
  <2>12. QED
    BY <2>2, <2>6, <2>10, <2>11
<1>3. QED
  BY <1>1, <1>2

-----------------------------------------------------------------------------
(* Authority: what a restart gives back                                    *)

LEMMA GrantsBegin == Authority!Init => Authority!GrantsInv
  BY DEF Authority!Init, Authority!GrantsInv, Authority!Granted

\* A configured grant takes the place of its system's for the concept.
LEMMA ConfiguredGrants ==
    ASSUME Authority!GrantsInv, NEW s \in AuthoritySystems, NEW c \in AuthorityConcepts,
           NEW k \in Authority!Classes, NEW p \in Authority!Priorities,
           Authority!Configure([source |-> s, concept |-> c, class |-> k, priority |-> p])
    PROVE  Authority!GrantsInv'
<1> DEFINE g == [source |-> s, concept |-> c, class |-> k, priority |-> p]
<1>1. /\ g.source = s /\ g.concept = c /\ g.priority = p
  OBVIOUS
<1>2. /\ authority_running = "seeding" /\ authority_grants' = Authority!Register(authority_grants, g)
      /\ authority_configured' = authority_grants'
      /\ UNCHANGED <<authority_receipts, authority_running>>
  BY DEF Authority!Configure
<1> HIDE DEF g
<1>3. authority_grants = authority_configured
  BY <1>2 DEF Authority!GrantsInv
<1>4. \A h \in authority_grants : h.source \in AuthoritySystems
  BY <1>3 DEF Authority!GrantsInv
<1>5. \/ authority_grants' = authority_grants
      \/ authority_grants' = {h \in authority_grants : h.source # s \/ h.concept # c} \cup {g}
  BY <1>1, <1>2 DEF Authority!Register, Authority!Put
<1>6. \A h \in authority_grants' : h.source \in AuthoritySystems /\ h.priority \in Authority!Priorities
  BY <1>1, <1>4, <1>5 DEF Authority!GrantsInv
<1>7. \A h, i \in authority_grants' : h.source = i.source /\ h.concept = i.concept => h = i
  BY <1>1, <1>5 DEF Authority!GrantsInv
<1>8. \A u \in AuthorityUploads : u \notin AuthoritySystems
  BY ConstantsAreTheirs DEF Authority!AuthorityAssumption
<1>9. \A u \in AuthorityUploads : Authority!Granted(u, authority_receipts[u]) = {}
  <2>1. ASSUME NEW u \in AuthorityUploads, NEW h \in Authority!Granted(u, authority_receipts[u])
        PROVE  FALSE
    <3>1. h.source = u
      BY <2>1 DEF Authority!Granted, Authority!Supplementary
    <3>2. h \in authority_grants
      BY <2>1 DEF Authority!GrantsInv
    <3>3. QED
      BY <3>1, <3>2, <1>4, <1>8
  <2>2. QED
    BY <2>1
<1>10. \A u \in AuthorityUploads : Authority!Granted(u, authority_receipts[u])' = {}
  BY <1>2, <1>9 DEF Authority!Granted, Authority!Supplementary
<1>11. QED
  BY <1>2, <1>6, <1>7, <1>10 DEF Authority!GrantsInv

\* What is granted to an upload takes the place of nothing but its own.
LEMMA PutIs ==
    ASSUME NEW held, NEW new,
           \A g, h \in held : g.source = h.source /\ g.concept = h.concept => g = h,
           \A g \in held : IF g.source \in AuthoritySystems THEN g.priority \in Authority!Priorities
                           ELSE g = Authority!Supplementary(g.source, g.concept),
           \A g \in new : /\ g.source \notin AuthoritySystems
                          /\ g = Authority!Supplementary(g.source, g.concept)
    PROVE  Authority!Put(held, new) = held \cup new
<1>1. ASSUME NEW h \in held, NEW g \in new, h.source = g.source, h.concept = g.concept
      PROVE  h = g
  BY <1>1
<1>2. QED
  BY <1>1 DEF Authority!Put

LEMMA UploadedGrants ==
    ASSUME Authority!GrantsInv, NEW u \in AuthorityUploads, NEW mapped \in SUBSET AuthorityConcepts,
           NEW present \in SUBSET AuthorityConcepts, NEW v \in AuthorityValues,
           authority_receipts \in [AuthorityUploads -> SUBSET AuthorityConcepts],
           Authority!Upload(u, mapped, present, v)
    PROVE  Authority!GrantsInv'
<1> DEFINE new == Authority!Granted(u, mapped)
<1>1. /\ present \subseteq mapped
      /\ authority_grants' = Authority!Put(authority_grants, new)
      /\ authority_receipts' = [authority_receipts EXCEPT ![u] = @ \cup present]
      /\ authority_running' = "running" /\ UNCHANGED authority_configured
  BY DEF Authority!Upload
<1>2. u \notin AuthoritySystems
  BY ConstantsAreTheirs DEF Authority!AuthorityAssumption
<1>3. \A g \in new : g.source = u /\ g = Authority!Supplementary(u, g.concept)
  BY DEF Authority!Granted, Authority!Supplementary
<1>4. Authority!Granted(u, present) \subseteq new
  BY <1>1 DEF Authority!Granted
<1> HIDE DEF new
<1>5. authority_grants' = authority_grants \cup new
  <2>1. \A g, h \in authority_grants : g.source = h.source /\ g.concept = h.concept => g = h
    BY DEF Authority!GrantsInv
  <2>2. \A g \in authority_grants :
           IF g.source \in AuthoritySystems THEN g.priority \in Authority!Priorities
           ELSE g = Authority!Supplementary(g.source, g.concept)
    BY DEF Authority!GrantsInv
  <2>3. \A g \in new : /\ g.source \notin AuthoritySystems
                       /\ g = Authority!Supplementary(g.source, g.concept)
    BY <1>2, <1>3
  <2>4. Authority!Put(authority_grants, new) = authority_grants \cup new
    BY <2>1, <2>2, <2>3, PutIs
  <2>5. QED
    BY <1>1, <2>4
<1>6. \A g \in authority_grants' :
         IF g.source \in AuthoritySystems THEN g.priority \in Authority!Priorities
         ELSE g = Authority!Supplementary(g.source, g.concept)
  BY <1>2, <1>3, <1>5 DEF Authority!GrantsInv
<1>7. \A g, h \in authority_grants' : g.source = h.source /\ g.concept = h.concept => g = h
  <2>1. ASSUME NEW g \in authority_grants', NEW h \in authority_grants', g.source = h.source,
               g.concept = h.concept
        PROVE  g = h
    <3>1. CASE g.source \in AuthoritySystems
      BY <1>2, <1>3, <1>5, <2>1, <3>1 DEF Authority!GrantsInv
    <3>2. CASE g.source \notin AuthoritySystems
      BY <1>6, <2>1, <3>2
    <3>3. QED
      BY <3>1, <3>2
  <2>2. QED
    BY <2>1
<1>8. authority_configured' = {g \in authority_grants' : g.source \in AuthoritySystems}
  BY <1>1, <1>2, <1>3, <1>5 DEF Authority!GrantsInv
<1>9. ASSUME NEW w \in AuthorityUploads
      PROVE  Authority!Granted(w, authority_receipts[w])' \subseteq authority_grants'
  <2>1. Authority!Granted(w, authority_receipts[w]) \subseteq authority_grants
    BY DEF Authority!GrantsInv
  <2>2. CASE w # u
    <3>1. authority_receipts'[w] = authority_receipts[w]
      BY <1>1, <2>2
    <3>2. Authority!Granted(w, authority_receipts[w])' = Authority!Granted(w, authority_receipts[w])
      BY <3>1 DEF Authority!Granted, Authority!Supplementary
    <3>3. QED
      BY <1>5, <2>1, <3>2
  <2>3. CASE w = u
    <3>1. authority_receipts'[u] = authority_receipts[u] \cup present
      BY <1>1
    <3>2. Authority!Granted(w, authority_receipts[w])' =
             Authority!Granted(w, authority_receipts[w]) \cup Authority!Granted(u, present)
      BY <2>3, <3>1 DEF Authority!Granted, Authority!Supplementary
    <3>3. QED
      BY <1>4, <1>5, <2>1, <3>2
  <2>4. QED
    BY <2>2, <2>3
<1>10. QED
  BY <1>1, <1>6, <1>7, <1>8, <1>9 DEF Authority!GrantsInv

\* A restart gives back the configuration, and of the uploads' what the receipts record.
LEMMA RestoredGrants ==
    ASSUME Authority!GrantsInv, Authority!Restart
    PROVE  /\ Authority!GrantsInv'
           /\ authority_grants' \subseteq authority_grants
           /\ {g \in authority_grants' : g.source \in AuthoritySystems} =
                 {g \in authority_grants : g.source \in AuthoritySystems}
<1> DEFINE new == UNION {Authority!Granted(u, authority_receipts[u]) : u \in AuthorityUploads}
<1>1. /\ authority_grants' = Authority!Put(authority_configured, new)
      /\ authority_running' = "restarted" /\ UNCHANGED <<authority_configured, authority_receipts>>
  BY DEF Authority!Restart, Authority!GrantsRestored
<1>2. \A u \in AuthorityUploads : u \notin AuthoritySystems
  BY ConstantsAreTheirs DEF Authority!AuthorityAssumption
<1>3. \A g \in new : /\ g.source \notin AuthoritySystems
                     /\ g = Authority!Supplementary(g.source, g.concept)
  BY <1>2 DEF Authority!Granted, Authority!Supplementary
<1>4. new \subseteq authority_grants
  BY DEF Authority!GrantsInv
<1>5. \A u \in AuthorityUploads : Authority!Granted(u, authority_receipts[u]) \subseteq new
  OBVIOUS
<1> HIDE DEF new
<1>6. authority_configured = {g \in authority_grants : g.source \in AuthoritySystems}
  BY DEF Authority!GrantsInv
<1>7. authority_grants' = authority_configured \cup new
  <2>1. \A g, h \in authority_configured : g.source = h.source /\ g.concept = h.concept => g = h
    BY <1>6 DEF Authority!GrantsInv
  <2>2. \A g \in authority_configured :
           IF g.source \in AuthoritySystems THEN g.priority \in Authority!Priorities
           ELSE g = Authority!Supplementary(g.source, g.concept)
    BY <1>6 DEF Authority!GrantsInv
  <2>3. Authority!Put(authority_configured, new) = authority_configured \cup new
    BY <2>1, <2>2, <1>3, PutIs
  <2>4. QED
    BY <1>1, <2>3
<1>8. authority_grants' \subseteq authority_grants
  BY <1>4, <1>6, <1>7
<1>9. authority_configured' = {g \in authority_grants' : g.source \in AuthoritySystems}
  BY <1>1, <1>3, <1>6, <1>7
<1>10. \A u \in AuthorityUploads : Authority!Granted(u, authority_receipts[u])' \subseteq authority_grants'
  <2>1. \A u \in AuthorityUploads :
           Authority!Granted(u, authority_receipts[u])' = Authority!Granted(u, authority_receipts[u])
    BY <1>1 DEF Authority!Granted, Authority!Supplementary
  <2>2. QED
    BY <1>5, <1>7, <2>1
<1>11. Authority!GrantsInv'
  BY <1>1, <1>8, <1>9, <1>10 DEF Authority!GrantsInv
<1>12. QED
  BY <1>1, <1>6, <1>8, <1>9, <1>11

LEMMA GrantsMove ==
    Authority!AuthorityInv /\ Authority!GrantsInv /\ (Authority!Next \/ UNCHANGED authorityVars)
        => Authority!GrantsInv'
<1>1. ASSUME Authority!GrantsInv,
             UNCHANGED <<authority_grants, authority_configured, authority_receipts, authority_running>>
      PROVE  Authority!GrantsInv'
  BY <1>1 DEF Authority!GrantsInv, Authority!Granted, Authority!Supplementary
<1>2. ASSUME Authority!GrantsInv, UNCHANGED authorityVars PROVE Authority!GrantsInv'
  BY <1>1, <1>2 DEF authorityVars
<1>3. ASSUME Authority!GrantsInv, NEW s \in AuthoritySystems, NEW c \in AuthorityConcepts,
             NEW v \in AuthorityValues, Authority!Sync(s, c, v)
      PROVE  Authority!GrantsInv'
  BY <1>1, <1>3 DEF Authority!Sync
<1>4. QED
  BY <1>2, <1>3, ConfiguredGrants, UploadedGrants, RestoredGrants
  DEF Authority!Next, Authority!AuthorityInv

\* The sources are in one order, without ties.
LEMMA PositionIs ==
    ASSUME NEW s \in Authority!Sources
    PROVE  /\ Authority!Position(s) \in Nat
           /\ AuthoritySourceOrder[Authority!Position(s)] = s
<1>1. /\ AuthoritySourceOrder \in Seq(Authority!Sources)
      /\ Authority!Range(AuthoritySourceOrder) = Authority!Sources
  BY ConstantsAreTheirs DEF Authority!AuthorityAssumption
<1>2. /\ DOMAIN AuthoritySourceOrder = 1..Len(AuthoritySourceOrder)
      /\ Len(AuthoritySourceOrder) \in Nat
  BY <1>1
<1>3. \E n \in DOMAIN AuthoritySourceOrder : AuthoritySourceOrder[n] = s
  BY <1>1 DEF Authority!Range
<1>4. /\ Authority!Position(s) \in DOMAIN AuthoritySourceOrder
      /\ AuthoritySourceOrder[Authority!Position(s)] = s
  BY <1>3 DEF Authority!Position
<1>5. QED
  BY <1>2, <1>4

\* No grant precedes one that precedes it.
LEMMA PrecedesIsStrict ==
    ASSUME NEW g \in Authority!Grants, NEW h \in Authority!Grants,
           Authority!Precedes(g, h), Authority!Precedes(h, g)
    PROVE  FALSE
<1>1. /\ g.class \in Nat /\ h.class \in Nat /\ g.priority \in Nat /\ h.priority \in Nat
      /\ g.source \in Authority!Sources /\ h.source \in Authority!Sources
  BY DEF Authority!Grants, Authority!Classes, Authority!Authoritative, Authority!Supplemental,
         Authority!Priorities
<1>2. Authority!Position(g.source) \in Nat /\ Authority!Position(h.source) \in Nat
  BY <1>1, PositionIs
<1>3. QED
  BY <1>1, <1>2 DEF Authority!Precedes

\* Of the grants for a concept one precedes all others.
LEMMA OneIsFirst ==
    ASSUME NEW of, of \subseteq Authority!Grants, of # {},
           \A g, h \in of : g.source = h.source => g = h
    PROVE  \E g \in of : \A h \in of \ {g} : Authority!Precedes(g, h)
<1>1. \A g \in of : /\ g.class \in Nat /\ g.priority \in Nat /\ g.source \in Authority!Sources
                    /\ Authority!Position(g.source) \in Nat
  <2>1. \A g \in of : g.class \in Nat /\ g.priority \in Nat /\ g.source \in Authority!Sources
    BY DEF Authority!Grants, Authority!Classes, Authority!Authoritative, Authority!Supplemental,
           Authority!Priorities
  <2>2. QED
    BY <2>1, PositionIs
<1> DEFINE classes == {g.class : g \in of}
<1>2. PICK k \in classes : \A m \in classes : k <= m
  <2>1. classes \subseteq Nat
    BY <1>1
  <2>2. classes # {}
    OBVIOUS
  <2> HIDE DEF classes
  <2>3. QED
    BY <2>1, <2>2, Least
<1> DEFINE highest == {g \in of : g.class = k}
           priorities == {g.priority : g \in highest}
<1>3. PICK p \in priorities : \A m \in priorities : p <= m
  <2>1. priorities \subseteq Nat
    BY <1>1
  <2>2. priorities # {}
    BY <1>2
  <2> HIDE DEF priorities
  <2>3. QED
    BY <2>1, <2>2, Least
<1> DEFINE soonest == {g \in highest : g.priority = p}
           positions == {Authority!Position(g.source) : g \in soonest}
<1>4. PICK n \in positions : \A m \in positions : n <= m
  <2>1. positions \subseteq Nat
    BY <1>1
  <2>2. positions # {}
    BY <1>3
  <2> HIDE DEF positions
  <2>3. QED
    BY <2>1, <2>2, Least
<1>5. PICK g \in soonest : n = Authority!Position(g.source)
  BY <1>4
<1>6. ASSUME NEW h \in of, h # g
      PROVE  Authority!Precedes(g, h)
  <2>1. g \in of /\ g.class = k /\ g.priority = p /\ k <= h.class
    BY <1>2, <1>5
  <2>2. CASE h.class # k
    BY <1>1, <2>1, <2>2 DEF Authority!Precedes
  <2>3. CASE h.class = k /\ h.priority # p
    <3>1. p <= h.priority
      BY <1>3, <2>3
    <3>2. QED
      BY <1>1, <2>1, <2>3, <3>1 DEF Authority!Precedes
  <2>4. CASE h.class = k /\ h.priority = p
    <3>1. n <= Authority!Position(h.source)
      BY <1>4, <2>4
    <3>2. Authority!Position(h.source) # n
      <4>1. h.source # g.source
        BY <1>6, <2>1
      <4>2. QED
        BY <1>1, <1>5, <2>1, <4>1, PositionIs
    <3>3. QED
      BY <1>1, <1>5, <2>1, <2>4, <3>1, <3>2 DEF Authority!Precedes
  <2>5. QED
    BY <2>2, <2>3, <2>4
<1>7. QED
  BY <1>5, <1>6

\* The source that governs is the first grant's.
LEMMA FirstGoverns ==
    ASSUME NEW of, of \subseteq Authority!Grants, NEW g \in of,
           \A h \in of \ {g} : Authority!Precedes(g, h)
    PROVE  (CHOOSE x \in of : \A h \in of \ {x} : Authority!Precedes(x, h)) = g
<1> DEFINE first == CHOOSE x \in of : \A h \in of \ {x} : Authority!Precedes(x, h)
<1>1. first \in of /\ \A h \in of \ {first} : Authority!Precedes(first, h)
  OBVIOUS
<1> HIDE DEF first
<1>2. CASE first # g
  <2>1. Authority!Precedes(first, g) /\ Authority!Precedes(g, first)
    BY <1>1, <1>2
  <2>2. QED
    BY <1>1, <2>1, PrecedesIsStrict
<1>3. QED
  BY <1>2 DEF first

\* A system's grant precedes every upload's.
LEMMA SystemsGovern ==
    ASSUME NEW of, of \subseteq Authority!Grants, NEW g \in of, NEW s \in of,
           \A h \in of \ {g} : Authority!Precedes(g, h),
           s.source \in AuthoritySystems, s.priority \in Authority!Priorities,
           g.source \notin AuthoritySystems, g = Authority!Supplementary(g.source, g.concept)
    PROVE  FALSE
<1>1. Authority!Precedes(g, s)
  OBVIOUS
<1>2. g.class = 3 /\ g.priority = 9
  BY DEF Authority!Supplementary, Authority!Supplemental
<1>3. s.class \in 1..3 /\ s.priority \in 1..2
  BY DEF Authority!Grants, Authority!Classes, Authority!Authoritative, Authority!Supplemental,
         Authority!Priorities
<1>4. QED
  BY <1>1, <1>2, <1>3 DEF Authority!Precedes

\* One source is granted finitely much.
LEMMA GrantsAreFinite ==
    ASSUME Authority!AuthorityInv, Authority!GrantsInv, NEW s, NEW k
    PROVE  LET held == {g \in authority_grants : g.source = s /\ g.class = k}
           IN  IsFiniteSet(held) /\ Cardinality(held) \in Nat
<1> DEFINE held == {g \in authority_grants : g.source = s /\ g.class = k}
           of == {c \in AuthorityConcepts : \E g \in held : g.concept = c}
           f == [c \in of |-> CHOOSE g \in held : g.concept = c]
<1>1. \A g \in held : g.concept \in AuthorityConcepts
  BY DEF Authority!AuthorityInv, Authority!Grants
<1>2. \A g, h \in held : g.concept = h.concept => g = h
  BY DEF Authority!GrantsInv
<1> HIDE DEF held
<1>3. f \in [of -> held] /\ held = {f[c] : c \in of}
  <2>1. \A c \in of : f[c] \in held /\ f[c].concept = c
    OBVIOUS
  <2>2. \A g \in held : g.concept \in of
    BY <1>1
  <2> HIDE DEF of
  <2>3. f \in [of -> held]
    BY <2>1
  <2>4. ASSUME NEW g \in held PROVE \E c \in of : f[c] = g
    <3>1. f[g.concept] \in held /\ f[g.concept].concept = g.concept /\ g.concept \in of
      BY <2>1, <2>2
    <3> HIDE DEF f
    <3>2. QED
      BY <3>1, <1>2
  <2>5. QED
    BY <2>1, <2>3, <2>4
<1>4. IsFiniteSet(of)
  <2>1. IsFiniteSet(AuthorityConcepts)
    <3>1. Authority!IsFiniteSet(AuthorityConcepts)
      BY ConstantsAreTheirs DEF Authority!AuthorityAssumption
    <3>2. QED
      BY <3>1 DEF Authority!IsFiniteSet, IsFiniteSet
  <2>2. of \in SUBSET AuthorityConcepts
    OBVIOUS
  <2> HIDE DEF of
  <2>3. QED
    BY <2>1, <2>2, FS_Subset
<1> HIDE DEF of, f
<1>5. f \in [of -> held]
  BY <1>3
<1>6. /\ IsFiniteSet({f[c] : c \in of}) /\ Cardinality({f[c] : c \in of}) \in Nat
  BY <1>4, <1>5, GivenIsFinite
<1>7. QED
  BY <1>3, <1>6 DEF held

\* What governed a concept governs it in the next process, and nothing is trusted more.
LEMMA GovernanceHolds ==
    Authority!AuthorityInv /\ Authority!GrantsInv /\ (Authority!Next \/ UNCHANGED authorityVars)
        => Authority!GovernanceSurvives
<1> SUFFICES ASSUME Authority!AuthorityInv, Authority!GrantsInv,
                    Authority!Next \/ UNCHANGED authorityVars, authority_running' = "restarted"
             PROVE  /\ \A c \in AuthorityConcepts :
                          Authority!GoverningSource(c) \cap AuthoritySystems =
                             Authority!GoverningSource(c)' \cap AuthoritySystems
                    /\ \A s \in Authority!Sources, k \in Authority!Classes :
                          Authority!SummariseAuthority(s)'[k] <= Authority!SummariseAuthority(s)[k]
  BY DEF Authority!GovernanceSurvives
<1>1. /\ authority_grants' \subseteq authority_grants
      /\ {g \in authority_grants' : g.source \in AuthoritySystems} =
            {g \in authority_grants : g.source \in AuthoritySystems}
  <2>1. CASE UNCHANGED authorityVars
    BY <2>1 DEF authorityVars
  <2>2. CASE ~UNCHANGED authorityVars
    <3>1. Authority!Restart
      BY <2>2 DEF Authority!Next, Authority!Configure, Authority!Sync, Authority!Upload
    <3>2. QED
      BY <3>1, RestoredGrants
  <2>3. QED
    BY <2>1, <2>2
<1>2. /\ authority_grants \subseteq Authority!Grants
      /\ \A g, h \in authority_grants : g.source = h.source /\ g.concept = h.concept => g = h
      /\ \A g \in authority_grants :
            IF g.source \in AuthoritySystems THEN g.priority \in Authority!Priorities
            ELSE g = Authority!Supplementary(g.source, g.concept)
  BY DEF Authority!AuthorityInv, Authority!GrantsInv
<1>3. ASSUME NEW c \in AuthorityConcepts
      PROVE  Authority!GoverningSource(c) \cap AuthoritySystems =
                Authority!GoverningSource(c)' \cap AuthoritySystems
  <2> DEFINE of == {g \in authority_grants : g.concept = c}
             later == {g \in authority_grants' : g.concept = c}
             first(gs) == CHOOSE x \in gs : \A h \in gs \ {x} : Authority!Precedes(x, h)
  <2>1. /\ Authority!GoverningSource(c) = IF of = {} THEN {} ELSE {first(of).source}
        /\ Authority!GoverningSource(c)' = IF later = {} THEN {} ELSE {first(later).source}
    BY DEF Authority!GoverningSource
  <2>2. /\ of \subseteq Authority!Grants /\ later \subseteq of
        /\ \A g, h \in of : g.source = h.source => g = h
        /\ \A g \in of : IF g.source \in AuthoritySystems
                           THEN g.priority \in Authority!Priorities /\ g \in later
                           ELSE g = Authority!Supplementary(g.source, g.concept)
    BY <1>1, <1>2
  <2> HIDE DEF of, later
  <2>3. ASSUME NEW gs, gs \subseteq of, gs # {}
        PROVE  \E g \in gs : /\ \A h \in gs \ {g} : Authority!Precedes(g, h)
                             /\ first(gs) = g
    <3>1. gs \subseteq Authority!Grants /\ \A g, h \in gs : g.source = h.source => g = h
      BY <2>2, <2>3
    <3>2. PICK g \in gs : \A h \in gs \ {g} : Authority!Precedes(g, h)
      BY <2>3, <3>1, OneIsFirst
    <3>3. first(gs) = g
      BY <3>1, <3>2, FirstGoverns
    <3>4. QED
      BY <3>2, <3>3
  <2>4. CASE \E s \in of : s.source \in AuthoritySystems
    <3>1. PICK s \in of : s.source \in AuthoritySystems
      BY <2>4
    <3>2. PICK g \in of : (\A h \in of \ {g} : Authority!Precedes(g, h)) /\ first(of) = g
      BY <2>3, <3>1
    <3>3. g.source \in AuthoritySystems
      <4>1. CASE g.source \notin AuthoritySystems
        <5>1. s.priority \in Authority!Priorities /\ g = Authority!Supplementary(g.source, g.concept)
          BY <2>2, <3>1, <4>1
        <5>2. QED
          BY <2>2, <3>1, <3>2, <4>1, <5>1, SystemsGovern
      <4>2. QED
        BY <4>1
    <3>4. g \in later /\ later \subseteq Authority!Grants
      BY <2>2, <3>3
    <3>5. \A h \in later \ {g} : Authority!Precedes(g, h)
      BY <2>2, <3>2
    <3>6. first(later) = g
      BY <3>4, <3>5, FirstGoverns
    <3>7. QED
      BY <2>1, <3>2, <3>4, <3>6
  <2>5. CASE \A s \in of : s.source \notin AuthoritySystems
    <3>1. Authority!GoverningSource(c) \cap AuthoritySystems = {}
      BY <2>1, <2>3, <2>5
    <3>2. Authority!GoverningSource(c)' \cap AuthoritySystems = {}
      <4>1. CASE later = {}
        BY <2>1, <4>1
      <4>2. CASE later # {}
        <5>1. later \subseteq of
          BY <2>2
        <5>2. PICK g \in later : first(later) = g
          BY <2>3, <4>2, <5>1
        <5>3. g.source \notin AuthoritySystems
          BY <2>5, <5>1
        <5>4. QED
          BY <2>1, <4>2, <5>2, <5>3
      <4>3. QED
        BY <4>1, <4>2
    <3>3. QED
      BY <3>1, <3>2
  <2>6. QED
    BY <2>4, <2>5
<1>4. ASSUME NEW s \in Authority!Sources, NEW k \in Authority!Classes
      PROVE  Authority!SummariseAuthority(s)'[k] <= Authority!SummariseAuthority(s)[k]
  <2> DEFINE held == {g \in authority_grants : g.source = s /\ g.class = k}
             later == {g \in authority_grants' : g.source = s /\ g.class = k}
  <2>1. \A S : Authority!Cardinality(S) = Cardinality(S)
    BY DEF Authority!Cardinality, Cardinality
  <2>2. /\ Authority!SummariseAuthority(s)[k] = Cardinality(held)
        /\ Authority!SummariseAuthority(s)'[k] = Cardinality(later)
    BY <2>1 DEF Authority!SummariseAuthority
  <2>3. later \in SUBSET held
    BY <1>1
  <2>4. IsFiniteSet(held)
    BY GrantsAreFinite
  <2> HIDE DEF held, later
  <2>5. Cardinality(later) <= Cardinality(held)
    BY <2>3, <2>4, FS_Subset
  <2>6. QED
    BY <2>2, <2>5
<1>5. QED
  BY <1>3, <1>4

-----------------------------------------------------------------------------
(* What a restart gives back, and a step back                              *)

\* A step leaves the position it was taken from where it was, under the filter that was
\* shown (gl-runtime.ts syncUrl): the history before a step is a prefix of the one after.
LEMMA SteppedFrom ==
    ASSUME NEW S, NEW h \in Seq(S), NEW a \in DOMAIN h, NEW e \in S
    PROVE  Append(SubSeq(h, 1, a), e)[a] = h[a]
<1> DEFINE front == SubSeq(h, 1, a)
<1>1. front \in Seq(S) /\ Len(front) = a /\ front[a] = h[a] /\ a \in Nat /\ a >= 1
  OBVIOUS
<1> HIDE DEF front
<1>2. Append(front, e)[a] = front[a]
  BY <1>1
<1>3. QED
  BY <1>1, <1>2 DEF front

LEMMA DrawnIsUndone ==
    ASSUME Filter!FilterInv, NEW s \in Filter!Filters, NEW push \in BOOLEAN, Filter!Draw(s, push),
           filter_at' = filter_at + 1
    PROVE  filter_entries'[filter_at].search = filter_state
<1> DEFINE e == [page |-> filter_page, search |-> s, document |-> filter_document]
<1>1. /\ filter_entries \in Seq(Filter!Positions) /\ filter_at \in DOMAIN filter_entries
      /\ filter_entries[filter_at].search = filter_state /\ e \in Filter!Positions
  BY DEF Filter!FilterInv, Filter!Search, Filter!Positions
<1>2. filter_at' # filter_at
  BY <1>1
<1>3. filter_entries' = Append(SubSeq(filter_entries, 1, filter_at), e)
  BY <1>2 DEF Filter!Draw
<1> HIDE DEF e
<1>4. filter_entries'[filter_at] = filter_entries[filter_at]
  BY <1>1, <1>3, SteppedFrom
<1>5. QED
  BY <1>1, <1>4

LEMMA FollowedIsUndone ==
    ASSUME Filter!FilterInv, NEW p \in FilterPages, NEW s \in Filter!Filters, Filter!Follow(p, s)
    PROVE  filter_entries'[filter_at].search = filter_state
<1> DEFINE e == [page |-> p, search |-> s, document |-> filter_document + 1]
<1>1. /\ filter_entries \in Seq(Filter!Positions) /\ filter_at \in DOMAIN filter_entries
      /\ filter_entries[filter_at].search = filter_state /\ e \in Filter!Positions
  BY DEF Filter!FilterInv, Filter!Search, Filter!Positions
<1>2. filter_entries' = Append(SubSeq(filter_entries, 1, filter_at), e)
  BY DEF Filter!Follow
<1> HIDE DEF e
<1>3. filter_entries'[filter_at] = filter_entries[filter_at]
  BY <1>1, <1>2, SteppedFrom
<1>4. QED
  BY <1>1, <1>3

LEMMA StepsAreUndone ==
    Filter!FilterInv /\ (Filter!Next \/ UNCHANGED filterVars) => Filter!StepsCanBeUndone
<1> SUFFICES ASSUME Filter!FilterInv, Filter!Next \/ UNCHANGED filterVars,
                    filter_at' = filter_at + 1, filter_entries' # filter_entries
             PROVE  filter_entries'[filter_at].search = filter_state
  BY DEF Filter!StepsCanBeUndone
<1>0. /\ filter_state \in Filter!Filters /\ filter_nav = filter_state
      /\ Filter!Search = filter_state
      /\ filter_arrow \in Filter!Filters /\ filter_bound \in [Filter!Bands -> SUBSET FilterProjects]
  BY DEF Filter!FilterInv
<1> DEFINE Undone == filter_entries'[filter_at].search = filter_state
<1>1. ASSUME NEW r \in Filter!Regions \cup {Filter!All}, Filter!SetRegion(r) PROVE Undone
  <2>1. [filter_state EXCEPT !.region = r] \in Filter!Filters
    BY <1>0, FiltersAre
  <2>2. QED
    BY <1>1, <2>1, DrawnIsUndone DEF Filter!SetRegion
<1>2. ASSUME NEW q \in Filter!Views, Filter!SetQuick(q) PROVE Undone
  <2>1. [filter_state EXCEPT !.quick = Filter!Toggled(@, q)] \in Filter!Filters
    BY <1>0, FiltersAre
  <2>2. QED
    BY <1>2, <2>1, DrawnIsUndone DEF Filter!SetQuick
<1>3. ASSUME NEW d \in Filter!Drivers, Filter!SetDriver(d) PROVE Undone
  <2>1. [filter_state EXCEPT !.driver = Filter!Toggled(@, d)] \in Filter!Filters
    BY <1>0, FiltersAre
  <2>2. QED
    BY <1>3, <2>1, DrawnIsUndone DEF Filter!SetDriver
<1>4. CASE Filter!Reset
  BY <1>4, FiltersAre, DrawnIsUndone DEF Filter!Reset
<1>5. CASE Filter!SeeTheseProjects
  BY <1>0, <1>5, FilterNumbers, FollowedIsUndone DEF Filter!SeeTheseProjects
<1>6. ASSUME NEW n \in 1..FilterMaxHistory, Filter!Travel(n) PROVE Undone
  BY <1>6 DEF Filter!Travel
<1>7. ASSUME NEW b \in Filter!Bands, Filter!Investigate(b) PROVE Undone
  <2>1. [Filter!Search EXCEPT !.pop = filter_bound[b]] \in Filter!Filters
    BY <1>0, FiltersAre
  <2>2. QED
    BY <1>7, <2>1, FilterNumbers, FollowedIsUndone DEF Filter!Investigate
<1>8. ASSUME NEW p \in FilterPages, Filter!Navigate(p) PROVE Undone
  BY <1>0, <1>8, FollowedIsUndone DEF Filter!Navigate
<1>9. CASE UNCHANGED filterVars
  BY <1>9 DEF filterVars
<1>10. QED
  BY <1>1, <1>2, <1>3, <1>4, <1>5, <1>6, <1>7, <1>8, <1>9 DEF Filter!Next

\* A restart serves the current version of every document, gives back the observations of
\* the sheets and the verdicts of rows whose identifier is their own, and leaves what
\* governed governing (registry.ts hydrate, #restoreUploadAuthority); and a step back
\* restores the view it was taken from (gl-runtime.ts syncUrl): MCService's RestartKeeps,
\* for every number of versions, rows, grants and positions.
THEOREM RestartsAlwaysKeep == ServiceSpec => RestartKeeps
<1> DEFINE Inv == /\ part = "documents" => Documents!DocumentsInv
                  /\ part = "sheet" => Sheet!SheetInv
                  /\ part = "authority" => Authority!AuthorityInv /\ Authority!GrantsInv
                  /\ part = "filter" => Filter!FilterInv
           Step == /\ part = "documents" => Documents!RestartServesCurrent
                   /\ part = "sheet" => Sheet!ObservationsSurvive /\ Sheet!LoneRowsSurvive
                   /\ part = "authority" => Authority!GovernanceSurvives
                   /\ part = "filter" => Filter!StepsCanBeUndone
<1>1. ServiceInit => Inv
  BY Starts, DocumentsBegins, SheetBegins, AuthorityBegins, GrantsBegin, FilterBegins
<1>2. Inv /\ [ServiceNext]_serviceVars => Inv'
  <2> SUFFICES ASSUME Inv, [ServiceNext]_serviceVars PROVE Inv'
    OBVIOUS
  <2>1. part' = part
    BY Moves
  <2>2. part = "documents" => Documents!DocumentsInv'
    BY Moves, DocumentsMoves
  <2>3. part = "sheet" => Sheet!SheetInv'
    BY Moves, SheetMoves
  <2>4. part = "authority" => Authority!AuthorityInv' /\ Authority!GrantsInv'
    BY Moves, AuthorityMoves, GrantsMove
  <2>5. part = "filter" => Filter!FilterInv'
    BY Moves, FilterMoves
  <2>6. QED
    BY <2>1, <2>2, <2>3, <2>4, <2>5
<1>3. Inv /\ [ServiceNext]_serviceVars => [Step]_serviceVars
  <2> SUFFICES ASSUME Inv, [ServiceNext]_serviceVars PROVE Step
    OBVIOUS
  <2>1. part = "documents" => Documents!RestartServesCurrent
    BY Moves, CurrentIsServed
  <2>2. part = "sheet" => Sheet!ObservationsSurvive /\ Sheet!LoneRowsSurvive
    BY Moves, ObservationsAreGivenBack, VerdictsAreGivenBack
  <2>3. part = "authority" => Authority!GovernanceSurvives
    BY Moves, GovernanceHolds
  <2>4. part = "filter" => Filter!StepsCanBeUndone
    BY Moves, StepsAreUndone
  <2>5. QED
    BY <2>1, <2>2, <2>3, <2>4
<1>4. QED
  BY <1>1, <1>2, <1>3, PTL DEF ServiceSpec, RestartKeeps
=============================================================================
