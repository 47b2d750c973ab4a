---------------------------- MODULE FilterState ----------------------------
(***************************************************************************)
(* The executive pages' filter: one analytical position kept in the page,  *)
(* in its controls, in the address, in the browser's history and in every  *)
(* link that leaves the page, and the populations the health bands open.   *)
(*                                                                         *)
(* One dimension stands for the nine, which the code treats alike.         *)
(***************************************************************************)
EXTENDS Naturals, Sequences, FiniteSets

CONSTANTS
    Projects,
    Region,        \* the dimension's value of each project
    Band,          \* each project's assessed band
    Carries,       \* the drivers each project carries
    Lens,          \* the quick views: which projects each selects
    Pages,
    MaxHistory     \* bound: entries the session history holds

FilterAssumption ==
    /\ MaxHistory \in Nat \ {0} /\ "projects" \in Pages
    /\ \A p \in Projects : p \in DOMAIN Region

VARIABLES
    page,      \* the page loaded
    state,     \* `state`: the filter the page applies
    controls,  \* what the select and the lens buttons show
    entries,   \* the session history: address and document of each entry
    at,        \* the entry the browser is on
    document,  \* which load of a page this is, as a number
    nav,       \* the query the navigation links carry
    arrow,     \* the query of the selected driver's "see these projects"
    bound      \* what each band's segment opens, as it was when first drawn

vars == <<page, state, controls, entries, at, document, nav, arrow, bound>>

All == "all"
Regions == {Region[p] : p \in Projects}
Bands == {Band[p] : p \in Projects}
Drivers == UNION {Carries[p] : p \in Projects}
Views == DOMAIN Lens
NoFilter == [region |-> All, quick |-> All, driver |-> All, pop |-> Projects]

\* `matches`, `selected`
Selected(s) ==
    {p \in s.pop : /\ s.region \in {All, Region[p]}
                   /\ s.quick = All \/ p \in Lens[s.quick]
                   /\ s.driver = All \/ s.driver \in Carries[p]}

InBand(s, b) == {p \in Selected(s) : Band[p] = b}

Search == entries[at].search

\* `render` of a filter: the drivers read the address as it is before `syncUrl`
\* rewrites it, and `carryContext` reads it after.  The bars were bound when
\* they were first drawn (`data-bound`), and are not bound again.
Draw(s, push) ==
    /\ state' = s
    /\ arrow' = IF s.driver = All THEN arrow ELSE Search
    /\ nav' = s
    /\ IF push /\ s # Search
       THEN /\ at' = at + 1
            /\ entries' = Append(SubSeq(entries, 1, at), [page |-> page, search |-> s, document |-> document])
       ELSE /\ entries' = [entries EXCEPT ![at].search = s]
            /\ UNCHANGED at

Shown(s) == [region |-> s.region, quick |-> s.quick]

\* A page loaded with a query: `readUrl`, then the first `render`.
Loaded(p, search) ==
    /\ page' = p /\ state' = search /\ controls' = Shown(search)
    /\ nav' = search
    /\ arrow' = search
    /\ bound' = [b \in Bands |-> InBand(search, b)]

Init ==
    /\ page \in Pages
    /\ \E r \in Regions \cup {All} : state = [NoFilter EXCEPT !.region = r]
    /\ controls = Shown(state)
    /\ entries = <<[page |-> page, search |-> state, document |-> 1]>> /\ at = 1 /\ document = 1
    /\ nav = state /\ arrow = state
    /\ bound = [b \in Bands |-> InBand(state, b)]

\* A link followed: the entries ahead are gone and a new document begins.
Follow(p, search) ==
    /\ at < MaxHistory
    /\ entries' = Append(SubSeq(entries, 1, at), [page |-> p, search |-> search, document |-> document + 1])
    /\ at' = at + 1 /\ document' = document + 1
    /\ Loaded(p, search)

\* A select changes: a filter edit replaces the address.
SetRegion(r) ==
    /\ controls.region # r
    /\ Draw([state EXCEPT !.region = r], FALSE)
    /\ controls' = [controls EXCEPT !.region = r]
    /\ UNCHANGED <<page, document, bound>>

Toggled(old, new) == IF old = new THEN All ELSE new

\* A lens is a step: the address is pushed.
SetQuick(q) ==
    /\ at < MaxHistory
    /\ Draw([state EXCEPT !.quick = Toggled(@, q)], TRUE)
    /\ controls' = [controls EXCEPT !.quick = Toggled(state.quick, q)]
    /\ UNCHANGED <<page, document, bound>>

\* A driver present in the selection is clicked.
SetDriver(d) ==
    /\ at < MaxHistory
    /\ \E p \in Selected(state) : d \in Carries[p]
    /\ Draw([state EXCEPT !.driver = Toggled(@, d)], TRUE)
    /\ UNCHANGED <<page, document, controls, bound>>

Reset ==
    /\ at < MaxHistory
    /\ Draw(NoFilter, TRUE)
    /\ controls' = Shown(NoFilter)
    /\ UNCHANGED <<page, document, bound>>

\* `popstate`: the filter and the controls are those of the entry's address.
PopState(entry) ==
    /\ state' = entry.search /\ controls' = Shown(entry.search)
    /\ nav' = entry.search
    /\ arrow' = IF entry.search.driver = All THEN arrow ELSE entry.search
    /\ UNCHANGED <<page, document, bound>>

\* Back or Forward: within a document it is told, across documents it is loaded.
Travel(n) ==
    /\ n \in DOMAIN entries \ {at}
    /\ at' = n
    /\ UNCHANGED entries
    /\ IF entries[n].document = document THEN PopState(entries[n])
       ELSE Loaded(entries[n].page, entries[n].search) /\ document' = entries[n].document

\* `investigate`: the band's population travels with the address's filters;
\* one project opens its own page, which has no filter.
Investigate(b) ==
    /\ Cardinality(bound[b]) > 1
    /\ Follow("projects", [Search EXCEPT !.pop = bound[b]])

Navigate(p) == Follow(p, nav)

SeeTheseProjects == state.driver # All /\ Follow("projects", arrow)

Next ==
    \/ \E r \in Regions \cup {All} : SetRegion(r)
    \/ \E q \in Views : SetQuick(q)
    \/ \E d \in Drivers : SetDriver(d)
    \/ Reset \/ SeeTheseProjects
    \/ \E n \in 1..MaxHistory : Travel(n)
    \/ \E b \in Bands : Investigate(b)
    \/ \E p \in Pages : Navigate(p)

Spec == Init /\ [][Next]_vars

-----------------------------------------------------------------------------
Filters == [region : Regions \cup {All}, quick : Views \cup {All},
            driver : Drivers \cup {All}, pop : SUBSET Projects]

TypeOK ==
    /\ page \in Pages /\ state \in Filters /\ nav \in Filters /\ arrow \in Filters
    /\ controls \in [region : Regions \cup {All}, quick : Views \cup {All}]
    /\ Len(entries) \in 1..MaxHistory /\ at \in DOMAIN entries
    /\ \A n \in DOMAIN entries : entries[n] \in [page : Pages, search : Filters, document : 1..MaxHistory]
    /\ bound \in [Bands -> SUBSET Projects]

\* Whatever was filtered, stepped back over and followed, the page applies the
\* filter its address states: the address is a shareable statement of it
\* (gl-runtime.ts: `syncUrl`, the `popstate` handler's comment).
AddressSaysWhatIsShown == Search = state

\* The select and the lens buttons show the filter that is applied.
ControlsShowTheFilter == controls = Shown(state)

\* Leaving by the navigation keeps the selection: the next page is not
\* silently widened (gl-runtime.ts: `carryContext`).
NavigationCarriesTheFilter == nav = state

\* Back after a step restores the position the step was taken from
\* (gl-runtime.ts: `syncUrl`, "undo the step").
StepsCanBeUndone ==
    at' = at + 1 /\ Len(entries') = at' /\ entries' # entries => entries'[at].search = state

\* Why: every way to a filter writes all four, and what links and bands carry are
\* filters too.
Positions == [page : Pages, search : Filters, document : Nat]
FilterInv ==
    /\ state \in Filters /\ nav = state /\ controls = Shown(state)
    /\ entries \in Seq(Positions) /\ at \in DOMAIN entries /\ Search = state
    /\ page \in Pages /\ document \in Nat
    /\ arrow \in Filters /\ bound \in [Bands -> SUBSET Projects]
=============================================================================
