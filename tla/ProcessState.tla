---------------------------- MODULE ProcessState ----------------------------
(***************************************************************************)
(* What one process of the runtime keeps between requests: the state of    *)
(* each persona, built at its first request and cached, and the registry,  *)
(* built once behind a promise that everyone waits for.  Every await is a  *)
(* step, and requests arrive at a cold process together.                   *)
(***************************************************************************)
EXTENDS Integers, FiniteSets

CONSTANTS
    Requests,
    Personas,
    Exec,       \* the persona the registry's seed is built for
    Denied      \* personas that may not read the Command Center

ProcessAssumption == Exec \in Personas \ Denied /\ Denied \subseteq Personas

Kinds == {"session", "ask", "upload"}
NotYet == "not initialised"
Cold == [cached |-> FALSE, vocabulary |-> FALSE]

VARIABLES
    personas,    \* `personaStates`: what is cached of each, and whether it has names to filter by
    logins,      \* sessions opened with the identity provider, per persona
    build,       \* `knowledgeBuild`: none, seeding, hydrating, done
    registries,  \* registries built so far; `knowledge` is the last of them
    durability,  \* [durable, detail]
    requests     \* [kind, persona, stage, registry, answer]

vars == <<personas, logins, build, registries, durability, requests>>

Idle == [kind |-> "ask", persona |-> Exec, stage |-> "idle", registry |-> 0, answer |-> "none"]

Init ==
    /\ personas = [p \in Personas |-> Cold]
    /\ logins = [p \in Personas |-> 0]
    /\ build = "none" /\ registries = 0
    /\ durability = [durable |-> FALSE, detail |-> NotYet]
    /\ requests = [r \in Requests |-> Idle]

At(r, stage) == requests[r].stage = stage
Goes(r, stage) == requests' = [requests EXCEPT ![r].stage = stage]
Answered(r, answer) == requests' = [requests EXCEPT ![r].stage = "answered", ![r].answer = answer]

-----------------------------------------------------------------------------
(* `callerFor` and `personaState` *)

\* A request arrives; a persona that is cached is not logged in again.
Arrive(r, k, p) ==
    /\ At(r, "idle")
    /\ requests' = [requests EXCEPT ![r] =
           [kind |-> k, persona |-> p, registry |-> 0, answer |-> "none",
            stage |-> IF personas[p].cached THEN "known" ELSE "entering"]]
    /\ UNCHANGED <<personas, logins, build, registries, durability>>

Login(r) ==
    /\ At(r, "entering")
    /\ logins' = [logins EXCEPT ![requests[r].persona] = @ + 1]
    /\ Goes(r, "discovering")
    /\ UNCHANGED <<personas, build, registries, durability>>

\* The names it may filter by, none for a persona the view is denied to; cached,
\* over what another first request cached meanwhile.
Discover(r) ==
    /\ At(r, "discovering")
    /\ personas' = [personas EXCEPT ![requests[r].persona] =
           [cached |-> TRUE, vocabulary |-> requests[r].persona \notin Denied]]
    /\ Goes(r, "known")
    /\ UNCHANGED <<logins, build, registries, durability>>

\* POST /api/session answers from the flag as it is.
Issue(r) ==
    /\ At(r, "known") /\ requests[r].kind = "session"
    /\ Answered(r, IF durability.durable THEN "durable" ELSE "not durable")
    /\ UNCHANGED <<personas, logins, build, registries, durability>>

-----------------------------------------------------------------------------
(* `knowledgeRegistry` *)

\* Mutation: only a finished registry is shared, each request builds until then.
ReachAlone(r) ==
    /\ At(r, "known") /\ requests[r].kind # "session"
    /\ IF build = "done"
       THEN /\ requests' = [requests EXCEPT ![r].stage = "served", ![r].registry = registries]
            /\ UNCHANGED <<build, registries, logins>>
       ELSE /\ build' = "seeding" /\ registries' = registries + 1
            /\ logins' = [logins EXCEPT ![Exec] = @ + 1]
            /\ requests' = [requests EXCEPT ![r].stage = "waiting", ![r].registry = registries + 1]
    /\ UNCHANGED <<personas, durability>>

\* The registry as it is, or the promise of it; the first to ask begins it, logging
\* the executive in for its seed.
Reach(r) ==
    /\ At(r, "known") /\ requests[r].kind # "session"
    /\ IF build = "done"
       THEN /\ requests' = [requests EXCEPT ![r].stage = "served", ![r].registry = registries]
            /\ UNCHANGED <<build, registries, logins>>
       ELSE /\ IF build = "none"
               THEN /\ build' = "seeding" /\ registries' = registries + 1
                    /\ logins' = [logins EXCEPT ![Exec] = @ + 1]
               ELSE UNCHANGED <<build, registries, logins>>
            /\ requests' = [requests EXCEPT ![r].stage = "waiting", ![r].registry = registries']
    /\ UNCHANGED <<personas, durability>>

Finished(d) == build' = "done" /\ durability' = d

\* The fixtures are built; then the store is read, if one is configured.
Seed ==
    /\ build = "seeding"
    /\ \/ build' = "hydrating" /\ UNCHANGED durability
       \/ Finished([durable |-> FALSE, detail |-> "not configured"])
    /\ UNCHANGED <<personas, logins, registries, requests>>

\* Mutation: a store that does not answer leaves the promise pending.
HydrateOrNothing ==
    /\ build = "hydrating"
    /\ \/ Finished([durable |-> TRUE, detail |-> "written through"])
       \/ build' = "failed" /\ UNCHANGED durability
    /\ UNCHANGED <<personas, logins, registries, requests>>

\* The store answers, or it does not and the process serves without it.
Hydrate ==
    /\ build = "hydrating"
    /\ \/ Finished([durable |-> TRUE, detail |-> "written through"])
       \/ Finished([durable |-> FALSE, detail |-> "did not answer"])
    /\ UNCHANGED <<personas, logins, registries, requests>>

Serve(r) ==
    /\ At(r, "waiting") /\ build = "done"
    /\ Goes(r, "served")
    /\ UNCHANGED <<personas, logins, build, registries, durability>>

\* `refuseWhenNotDurable` for an upload; a question is answered either way.
Respond(r) ==
    /\ At(r, "served")
    /\ Answered(r, IF requests[r].kind = "ask" THEN "answer"
                   ELSE IF durability.durable THEN "accepted" ELSE durability.detail)
    /\ UNCHANGED <<personas, logins, build, registries, durability>>

-----------------------------------------------------------------------------
Step(r) == Login(r) \/ Discover(r) \/ Issue(r) \/ Reach(r) \/ Serve(r) \/ Respond(r)

Next == \/ \E r \in Requests : Step(r) \/ \E k \in Kinds, p \in Personas : Arrive(r, k, p)
        \/ Seed \/ Hydrate

Spec == Init /\ [][Next]_vars

-----------------------------------------------------------------------------
(* Properties *)

\* Every variable stays within its kind of value; a persona is logged in at most
\* once for every request that found it missing, the executive once more for the seed.
TypeOK ==
    /\ personas \in [Personas -> [cached : BOOLEAN, vocabulary : BOOLEAN]]
    /\ logins \in [Personas -> 0..Cardinality(Requests) + 1]
    /\ build \in {"none", "seeding", "hydrating", "done"}
    /\ registries \in 0..1
    /\ \A p \in Denied : ~personas[p].vocabulary

\* Requests that reach a cold process together are all answered from one registry,
\* and it is the finished one ("one of them would answer from a registry the other
\* had already replaced").
OneFinishedRegistry ==
    \A r \in Requests : requests[r].stage = "served" =>
        build = "done" /\ requests[r].registry = registries

\* An upload is refused for what was found out about the store, never because
\* nobody had looked yet, and is accepted only when the store had been read.
RefusalsAreFoundOut ==
    \A r \in Requests : requests[r].kind = "upload" /\ requests[r].stage = "answered" =>
        requests[r].answer # NotYet /\ (requests[r].answer = "accepted" <=> durability.durable)

\* Why: the registry begun is the only one, who waits or is served waits for it, and
\* what is known of the store is found out once, when it is finished.
FoundOut == {[durable |-> TRUE, detail |-> "written through"],
             [durable |-> FALSE, detail |-> "did not answer"],
             [durable |-> FALSE, detail |-> "not configured"]}
Stages == {"idle", "entering", "discovering", "known", "waiting", "served", "answered"}
Answers == {"none", "answer", "accepted", "durable", "not durable", NotYet,
            "written through", "did not answer", "not configured"}
OneBuild ==
    /\ requests \in [Requests -> [kind : Kinds, persona : Personas, stage : Stages,
                                  registry : 0..1, answer : Answers]]
    /\ build \in {"none", "seeding", "hydrating", "done"}
    /\ registries = IF build = "none" THEN 0 ELSE 1
    /\ IF build = "done" THEN durability \in FoundOut
       ELSE durability = [durable |-> FALSE, detail |-> NotYet]
    /\ \A r \in Requests :
          /\ At(r, "waiting") => build # "none" /\ requests[r].registry = registries
          /\ At(r, "served") => build = "done" /\ requests[r].registry = registries
          /\ At(r, "answered") /\ requests[r].kind = "upload" =>
                /\ build = "done"
                /\ requests[r].answer = IF durability.durable THEN "accepted" ELSE durability.detail

\* What a request under way comes to, handlers running on and a reading of the
\* store having a time budget: a denial of the view, a store that fails and a wait
\* for another's build all still end in an answer.
UnderWay(r) == At(r, "entering") \/ At(r, "known")

\* The narrowest persona obtains its session and its answers.
NobodyIsTurnedAway == \A r \in Requests : requests[r].answer # "fault"
=============================================================================
