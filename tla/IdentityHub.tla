---------------------------- MODULE IdentityHub ----------------------------
(***************************************************************************)
(* The declared mappings from the identifiers other systems use to         *)
(* projects.  An identifier is compared after case folding only.           *)
(***************************************************************************)
EXTENDS Integers, Sequences

CONSTANTS
    Systems,
    Spellings,        \* identifiers as systems write them
    Key,              \* `normalise`: what each spelling is compared by
    NoKey,            \* the key of an empty identifier
    Projects,
    MaxDeclarations   \* bound

HubAssumption ==
    /\ Key \in [Spellings -> Spellings \cup {NoKey}]
    /\ \A s \in Spellings : Key[s] # NoKey => Key[Key[s]] = Key[s]
    /\ Projects \cap {"BLANK", "NOT_MAPPED", "AMBIGUOUS"} = {}
    /\ MaxDeclarations \in Nat

Mappings == [project: Projects, system: Systems, id: Spellings]

VARIABLES
    mappings,    \* `#mappings`
    declared     \* history: every declaration made, in order

vars == <<mappings, declared>>

Init == mappings = <<>> /\ declared = <<>>

Same(m, n) == m.system = n.system /\ Key[m.id] = Key[n.id]

\* Every variable stays within its kind of value; no identifier is mapped twice,
\* and none is empty.
TypeOK ==
    /\ mappings \in Seq(Mappings) /\ declared \in Seq(Mappings)
    /\ \A i, j \in DOMAIN mappings : i # j => ~Same(mappings[i], mappings[j])
    /\ \A i \in DOMAIN mappings : Key[mappings[i].id] # NoKey

FirstOf(at) == CHOOSE n \in at : \A k \in at : n <= k

\* Mutation: the identifier alone is looked for, whichever system's it is.
DeclareForAnySystem(m) ==
    LET at == {n \in DOMAIN mappings : Key[mappings[n].id] = Key[m.id]}
    IN  mappings' = IF at = {} THEN Append(mappings, m)
                    ELSE [mappings EXCEPT ![FirstOf(at)] = m]

\* `declare`: the first mapping of this identifier is replaced, or one is added.
Declare(m) ==
    LET at == {n \in DOMAIN mappings : Same(mappings[n], m)}
    IN  mappings' = IF at = {} THEN Append(mappings, m)
                    ELSE [mappings EXCEPT ![FirstOf(at)] = m]

DeclareOne ==
    \E m \in Mappings :
        /\ Len(declared) < MaxDeclarations
        /\ declared' = Append(declared, m)
        /\ IF Key[m.id] = NoKey THEN UNCHANGED mappings ELSE Declare(m)

Spec == Init /\ [][DeclareOne]_vars

-----------------------------------------------------------------------------
\* Where a list speaks of an identifier, in whatever spelling.
Matching(list, system, spelling) ==
    {n \in DOMAIN list : list[n].system = system /\ Key[list[n].id] = Key[spelling]}

\* `resolve`: a project, or the reason there is none.
Resolve(system, spelling) ==
    LET at == Matching(mappings, system, spelling)
    IN  IF Key[spelling] = NoKey THEN "BLANK"
        ELSE IF at = {} THEN "NOT_MAPPED"
        ELSE IF \E m, n \in at : mappings[m].project # mappings[n].project THEN "AMBIGUOUS"
        ELSE mappings[FirstOf(at)].project

\* `identitiesOf`, as a set.
IdentitiesOf(project) == {mappings[n] : n \in {k \in DOMAIN mappings : mappings[k].project = project}}

-----------------------------------------------------------------------------
(* What the hub keeps to *)

\* The projects an identifier has been declared for by its own system, in whatever spelling, and
\* those whose panel shows it.
DeclaredFor(y, s) == {declared[n].project : n \in Matching(declared, y, s)}
ShownFor(y, s) == {p \in Projects : \E m \in IdentitiesOf(p) : m.system = y /\ Key[m.id] = Key[s]}

\* However other identifiers are declared and declared again, one whose declarations agree resolves
\* to their project, and one nobody declared to none; one whose declarations disagree resolves to
\* one of theirs or is ambiguous, and never to what another system meant by it.  (Which of the two
\* a disagreement should be is left open here.)
IdentifiersKeepTheirProject ==
    \A y \in Systems, s \in Spellings :
        LET projects == DeclaredFor(y, s)
        IN  Key[s] # NoKey =>
              /\ Resolve(y, s) = "NOT_MAPPED" <=> projects = {}
              /\ Resolve(y, s) \in projects \cup {"NOT_MAPPED", "AMBIGUOUS"}
              /\ Resolve(y, s) = "AMBIGUOUS" => \E p, q \in projects : p # q

\* Why, of this code: what is held for an identifier is one mapping, to the project of the last
\* declaration of it.
LastIsHeld ==
    \A y \in Systems, s \in Spellings :
        LET at == Matching(declared, y, s)
            held == Matching(mappings, y, s)
        IN  Key[s] # NoKey =>
              IF at = {} THEN held = {}
              ELSE \E last \in at : /\ \A n \in at : n <= last
                                    /\ \E n \in held : mappings[n].project = declared[last].project
HubInv == TypeOK /\ LastIsHeld

\* An identifier resolves to a project exactly where that project's panel shows it and no other
\* project's does.
PanelAgreesWithResolution ==
    \A p \in Projects, y \in Systems, s \in Spellings :
        Key[s] # NoKey => (Resolve(y, s) = p <=> ShownFor(y, s) = {p})
=============================================================================
