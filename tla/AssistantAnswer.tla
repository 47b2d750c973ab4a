--------------------------- MODULE AssistantAnswer ---------------------------
(***************************************************************************)
(* One question to the assistant, from the request to the audited answer:  *)
(* the grammar, a model's proposal where the grammar has run out, the      *)
(* tools, the narration by a model, the grounding validator, the audit,    *)
(* and the router that decides which model, if any, is called.  A call to  *)
(* a model may fail before or after what it carries has left.              *)
(***************************************************************************)
EXTENDS Integers, FiniteSets

CONSTANTS
    Classes,        \* the classes of material a claim can carry
    Permitted,      \* those the policy lets out
    Declared        \* the inventory the route declares for a narration

MaterialAssumption == Permitted \subseteq Classes /\ Declared \subseteq Classes

Providers == {"none", "local", "claude"}
Question == "the question"
Tasks == {"PLAN", "NARRATE"}

\* `loadAiConfig`: a selected provider is configured, and a fallback is not
\* enabled where external processing is not.
Configs == {c \in [provider: Providers, key: BOOLEAN, allowed: BOOLEAN, fallback: BOOLEAN] :
              /\ c.provider = "claude" => c.key
              /\ c.fallback => c.allowed}

VARIABLES
    config,     \* AiConfig
    stage,      \* how far the request is
    task,       \* what the router is called for
    claims,     \* the classes of material in the answer's claims
    planner,    \* who made the plan
    decision,   \* the narration's last routing decision
    composer,   \* who wrote what ships
    grounded,   \* whether what ships passed the validator
    audit,      \* what the audit trail holds of the request
    sent        \* history: what reached which model

vars == <<config, stage, task, claims, planner, decision, composer, grounded, audit, sent>>

Stages == {"received", "grammar", "primary", "fallback", "plan", "claims", "compose",
           "narrated", "declined", "composed", "recorded", "answered", "failed"}
NoDecision == [outcome |-> "none", provider |-> "none", nothingElse |-> FALSE]

Init ==
    /\ config \in Configs
    /\ stage = "received" /\ task = "none" /\ claims = {} /\ planner = "none"
    /\ decision = NoDecision /\ composer = "none" /\ grounded = FALSE
    /\ audit = {} /\ sent = {}

\* Every variable stays within its kind of value; an answer is audited as what
\* it is: composed by whom, or refused.
TypeOK ==
    /\ config \in Configs /\ stage \in Stages /\ task \in Tasks \cup {"none"}
    /\ claims \subseteq Classes /\ grounded \in BOOLEAN
    /\ sent \subseteq Providers \X (Classes \cup {Question})
    /\ stage = "answered" => \E a \in audit : a.composer = composer /\ a.refused = (composer = "none")

-----------------------------------------------------------------------------
(* The router *)

External(provider) == provider = "claude"

\* `buildRouter`
HasFallback == config.provider = "local" /\ config.fallback /\ config.allowed /\ config.key

\* `evaluateExternalTransmission`
Permits(inventory) == config.allowed /\ inventory \subseteq Permitted

Inventory(t) == IF t = "PLAN" THEN {} ELSE Declared
Carried(t) == IF t = "PLAN" THEN {Question} ELSE claims

\* Where a task goes on when the router has no text for it.
Without(t) == IF t = "PLAN" THEN "declined" ELSE "narrated"

\* Mutation: the decision names the configured provider, whichever answered.
DecidedAsConfigured(outcome, provider, nothingElse) ==
    decision' = IF task = "PLAN" THEN decision
                ELSE [outcome |-> outcome, provider |-> config.provider, nothingElse |-> nothingElse]

\* The decision the route reads; the planner's is kept apart and not read.
Decided(outcome, provider, nothingElse) ==
    decision' = IF task = "PLAN" THEN decision
                ELSE [outcome |-> outcome, provider |-> provider, nothingElse |-> nothingElse]

\* A call: it fails with nothing sent, fails after it was sent, or gives text.
Call(provider, texted, failed) ==
    \/ UNCHANGED sent /\ failed
    \/ sent' = sent \cup ({provider} \X Carried(task)) /\ (texted \/ failed)

Texted(provider, outcome) ==
    /\ Decided(outcome, provider, FALSE)
    /\ IF task = "PLAN"
       THEN \E usable \in BOOLEAN :
              /\ stage' = IF usable THEN "plan" ELSE "declined"
              /\ planner' = IF usable THEN "model" ELSE planner
              /\ UNCHANGED <<composer, grounded>>
       ELSE \E licensed \in BOOLEAN :      \* validate(prose, claims)
              /\ stage' = "narrated"
              /\ composer' = IF licensed THEN provider ELSE "deterministic"
              /\ UNCHANGED <<planner, grounded>>

Refused(outcome, nothingElse) ==
    /\ Decided(outcome, config.provider, nothingElse)
    /\ stage' = Without(task)
    /\ UNCHANGED <<composer, planner, grounded>>

\* Mutation: a failed fallback tries the primary again.
FallbackRetrying ==
    /\ stage = "fallback"
    /\ Call("claude", Texted("claude", "EXTERNAL_FALLBACK_USED"),
            stage' = "primary" /\ UNCHANGED <<decision, composer, planner, grounded>>)
    /\ UNCHANGED <<config, task, claims, audit>>

\* `generate`
Primary ==
    /\ stage = "primary"
    /\ IF config.provider = "none" THEN UNCHANGED sent /\ Refused("NO_PROVIDER_CONFIGURED", FALSE)
       ELSE IF External(config.provider) /\ ~Permits(Inventory(task))
       THEN UNCHANGED sent /\ Refused("POLICY_PROHIBITED", FALSE)
       ELSE Call(config.provider, Texted(config.provider, "PROVIDER_USED"),
                 IF HasFallback /\ Permits(Inventory(task))
                 THEN stage' = "fallback" /\ UNCHANGED <<decision, composer, planner, grounded>>
                 ELSE Refused("PROVIDER_UNAVAILABLE", TRUE))
    /\ UNCHANGED <<config, task, claims, audit>>

\* `#afterPrimaryFailure`, once the three gates are passed
Fallback ==
    /\ stage = "fallback"
    /\ Call("claude", Texted("claude", "EXTERNAL_FALLBACK_USED"), Refused("PROVIDER_UNAVAILABLE", TRUE))
    /\ UNCHANGED <<config, task, claims, audit>>

-----------------------------------------------------------------------------
(* The pipeline *)

\* Steps 1-3: the session and the capability.
Authorise ==
    /\ stage = "received" /\ stage' \in {"grammar", "declined"}
    /\ UNCHANGED <<config, task, claims, planner, decision, composer, grounded, audit, sent>>

\* Step 4: a plan, a decline that stands, or out of the grammar's domain.
Grammar ==
    /\ stage = "grammar"
    /\ \/ stage' = "plan" /\ planner' = "grammar" /\ UNCHANGED task
       \/ stage' = "declined" /\ planner' = "refusal" /\ UNCHANGED task
       \/ /\ UNCHANGED planner
          /\ IF External(config.provider)       \* a port exists only where output is structured
             THEN stage' = "primary" /\ task' = "PLAN"
             ELSE stage' = "declined" /\ UNCHANGED task
    /\ UNCHANGED <<config, claims, decision, composer, grounded, audit, sent>>

\* Steps 5-10: validation, the tools, and the claims that are left of what they
\* gave once the ones that read as instructions are taken out.
Execute ==
    /\ stage = "plan"
    /\ \/ stage' = "declined" /\ UNCHANGED claims
       \/ stage' = "claims" /\ claims' \in SUBSET Classes \ {{}}
       \/ stage' = "failed" /\ UNCHANGED claims     \* a defect in a tool is not a denial
    /\ UNCHANGED <<config, task, planner, decision, composer, grounded, audit, sent>>

\* Step 11: the deterministic composer is the floor; narration if it was asked for.
Compose ==
    /\ stage = "claims" /\ composer' = "deterministic"
    /\ \/ stage' = "narrated" /\ UNCHANGED task
       \/ stage' = "primary" /\ task' = "NARRATE"
    /\ UNCHANGED <<config, claims, planner, decision, grounded, audit, sent>>

\* Step 12: the validator runs on whatever is about to ship.  A model's prose has
\* passed it; the template may not.
Validate ==
    /\ stage = "narrated"
    /\ \E licensed \in BOOLEAN :
          /\ composer \in Providers => licensed
          /\ grounded' = licensed
          /\ stage' = IF licensed THEN "composed" ELSE "declined"
    /\ UNCHANGED <<config, task, claims, planner, decision, composer, audit, sent>>

\* Every refusal leaves through here: the deterministic composer's, and no claims.
Withhold ==
    /\ stage = "declined" /\ stage' = "composed"
    /\ composer' = "none" /\ claims' = {} /\ grounded' = TRUE
    /\ UNCHANGED <<config, task, planner, decision, audit, sent>>

\* Step 14: the record, then its durable lineage; if either fails, so does the request.
Audit ==
    /\ stage = "composed"
    /\ \E kept \in BOOLEAN :
          /\ stage' = IF kept THEN "answered" ELSE "failed"
          /\ audit' = IF kept
                      THEN audit \cup {[refused |-> composer = "none", composer |-> composer,
                                        provider |-> decision.provider]}
                      ELSE audit
    /\ UNCHANGED <<config, task, claims, planner, decision, composer, grounded, sent>>

Next ==
    \/ Authorise \/ Grammar \/ Execute \/ Compose \/ Validate \/ Withhold \/ Audit
    \/ Primary \/ Fallback

Spec == Init /\ [][Next]_vars

-----------------------------------------------------------------------------
(* What the pipeline keeps to *)

\* What leaves for the hosted model left because external processing is allowed,
\* and from a deployment with a model of its own, because a fallback was asked for.
NothingLeavesUnasked ==
    (\E m \in sent : External(m[1])) =>
        config.allowed /\ (config.provider = "local" => config.fallback)

\* An answer a model wrote is one the validator licensed, from the provider the
\* decision and the audit trail name.
ModelProseIsAccountedFor ==
    stage = "answered" /\ composer \in Providers \ {"none"} =>
        /\ grounded /\ decision.provider = composer
        /\ decision.outcome \in {"PROVIDER_USED", "EXTERNAL_FALLBACK_USED"}
        /\ \E a \in audit : a.provider = composer

\* A governed refusal is final: nothing of the question reaches a model.
RefusalsReachNoModel == planner = "refusal" => sent = {}

\* Why: the fallback is only reached past its gates, a refusal goes straight to the
\* answer, and a model's prose keeps the decision it came with until it is recorded.
Models == Providers \ {"none"}
AnswerInv ==
    /\ config \in Configs /\ stage \in Stages
    /\ stage = "fallback" => HasFallback
    /\ stage \in {"received", "grammar"} => sent = {} /\ planner = "none"
    /\ planner = "refusal" => sent = {} /\ stage \in {"declined", "composed", "answered", "failed"}
    /\ composer \in Models =>
          /\ stage \in {"narrated", "composed", "answered", "failed"}
          /\ decision.provider = composer
          /\ decision.outcome \in {"PROVIDER_USED", "EXTERNAL_FALLBACK_USED"}
          /\ stage \in {"composed", "answered"} => grounded
          /\ stage = "answered" => \E a \in audit : a.provider = composer
    /\ NothingLeavesUnasked

\* What a question comes to, the handler running on by itself and every call to a
\* model having a time budget: it is never left hanging between providers.
Ended == stage \in {"answered", "failed"}
=============================================================================
