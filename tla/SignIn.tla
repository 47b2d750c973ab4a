------------------------------- MODULE SignIn -------------------------------
(***************************************************************************)
(* How a browser tab comes by a session: the pages look for the runtime,   *)
(* take the token the tab still holds, ask what the deployment gives       *)
(* without a code, and only then ask the person.  Two pages share the      *)
(* tab's storage and need different things of a session.                   *)
(*                                                                         *)
(* A token is its capability and whether the server would still accept it: *)
(* eight hours pass, or the instance that signed it is replaced.           *)
(***************************************************************************)
EXTENDS Naturals

CONSTANTS
    Pages,         \* of "assistant" (asks) and "sources" (writes)
    BaseCount,     \* addresses a page tries: one, two when it is itself local
    MaxExpiries    \* bound: times the sessions issued so far stop being accepted

SignInAssumption ==
    /\ Pages \subseteq {"assistant", "sources"}
    /\ BaseCount \in Nat \ {0} /\ MaxExpiries \in Nat

VARIABLES
    deployment,   \* "closed": no code configured; else GLDI_OPEN_ACCESS
    runtime,      \* the base a runtime answers at; 0: a static preview
    stored,       \* what sessionStorage holds for that base
    page,         \* the page loaded: its name, where it is in connecting, base and token
    gate,         \* the sign-in request under way: "none", "right" or "wrong" code
    said,         \* why the page says it cannot answer
    last,         \* the last question or upload's outcome
    codeGiven,    \* history: the code was typed in this tab
    expiries

vars == <<deployment, runtime, stored, page, gate, said, last, codeGiven, expiries>>

NoToken == [capability |-> "none", live |-> FALSE]
Tokens == [capability : {"ask", "full"}, live : BOOLEAN] \cup {NoToken}
Need(name) == IF name = "sources" THEN "full" ELSE "ask"

Fresh(name) == [name |-> name, phase |-> "looking", base |-> 1, token |-> NoToken, found |-> FALSE]

Init ==
    /\ deployment \in {"closed", "off", "ask", "full"}
    /\ runtime \in 0..BaseCount
    /\ stored = NoToken
    /\ page \in {Fresh(name) : name \in Pages}
    /\ gate = "none" /\ said = "nothing" /\ last = "none"
    /\ codeGiven = FALSE /\ expiries = 0

SignedIn(token) == page' = [page EXCEPT !.phase = "connected", !.token = token, !.found = TRUE]

\* The page is opened, or left for the other, or reloaded: what was under way is dropped.
Load(name) ==
    /\ page' = Fresh(name)
    /\ gate' = "none" /\ said' = "nothing" /\ last' = "none"
    /\ UNCHANGED <<deployment, runtime, stored, codeGiven, expiries>>

\* `connect`: the base answers, and the tab's token is taken as it is if there is one.
Found ==
    /\ page.phase = "looking" /\ page.base = runtime
    /\ IF stored # NoToken THEN SignedIn(stored)
       ELSE page' = [page EXCEPT !.phase = "asking", !.found = TRUE]
    /\ UNCHANGED <<deployment, runtime, stored, gate, said, last, codeGiven, expiries>>

\* `connect`: nothing healthy there; the next base, or the recorded run.
NotFound ==
    /\ page.phase = "looking"
    /\ IF page.base < BaseCount THEN page' = [page EXCEPT !.base = @ + 1] /\ UNCHANGED said
       ELSE page' = [page EXCEPT !.phase = "offline"] /\ said' = "NO_RUNTIME"
    /\ UNCHANGED <<deployment, runtime, stored, gate, last, codeGiven, expiries>>

Issued(capability) == [capability |-> capability, live |-> TRUE]

\* POST /api/session without a code: what the deployment gives, if anything.
OpenAnswers ==
    IF deployment \in {"ask", "full"} THEN Issued(deployment) ELSE NoToken

\* `session`: the open session if it covers the need, else the gate; a lost
\* call opens the gate too.
Offered ==
    /\ page.phase = "asking"
    /\ \E token \in {OpenAnswers, NoToken} :
         IF token # NoToken /\ (Need(page.name) = "full" => token.capability = "full")
         THEN stored' = token /\ SignedIn(token)
         ELSE page' = [page EXCEPT !.phase = "gate"] /\ UNCHANGED stored
    /\ UNCHANGED <<deployment, runtime, gate, said, last, codeGiven, expiries>>

Submit(code) ==
    /\ page.phase = "gate" /\ gate = "none"
    /\ gate' = code
    /\ codeGiven' = (codeGiven \/ code = "right")
    /\ UNCHANGED <<deployment, runtime, stored, page, said, last, expiries>>

\* The gate closed by hand, even over a request under way.
Decline ==
    /\ page.phase = "gate"
    /\ page' = [page EXCEPT !.phase = "declined"]
    /\ said' = "NOT_SIGNED_IN"
    /\ UNCHANGED <<deployment, runtime, stored, gate, last, codeGiven, expiries>>

\* The sign-in is answered, or lost.  A token that comes after the gate was
\* closed is remembered for the next load.
GateAnswers ==
    /\ gate # "none"
    /\ gate' = "none"
    /\ \/ /\ gate = "right" /\ deployment # "closed"
          /\ stored' = Issued("full")
          /\ IF page.phase = "gate" THEN SignedIn(Issued("full")) ELSE UNCHANGED page
       \/ UNCHANGED <<stored, page>>
    /\ UNCHANGED <<deployment, runtime, said, last, codeGiven, expiries>>

\* A question or an upload: 401 once the token is dead, and the tab forgets
\* it; 403 for a write under a session that may only ask.
Use ==
    /\ page.phase = "connected" /\ page.token # NoToken
    /\ IF ~page.token.live
       THEN /\ last' = "expired" /\ said' = "EXPIRED" /\ stored' = NoToken
            /\ page' = IF page.name = "assistant" THEN [page EXCEPT !.token = NoToken] ELSE page
       ELSE /\ last' = IF page.name = "sources" /\ page.token.capability # "full" THEN "forbidden" ELSE "served"
            /\ UNCHANGED <<stored, page, said>>
    /\ UNCHANGED <<deployment, runtime, gate, codeGiven, expiries>>

\* A suggested question clicked on the Assistant while it holds no token.
Suggest ==
    /\ page.name = "assistant" /\ page.token = NoToken
    /\ said' = "NOT_SIGNED_IN"    \* `base` has been set since the first base was tried
    /\ UNCHANGED <<deployment, runtime, stored, page, gate, last, codeGiven, expiries>>

\* Eight hours, or a new instance with a key of its own.
Expire ==
    /\ expiries < MaxExpiries
    /\ expiries' = expiries + 1
    /\ stored' = [stored EXCEPT !.live = FALSE]
    /\ page' = [page EXCEPT !.token.live = FALSE]
    /\ UNCHANGED <<deployment, runtime, gate, said, last, codeGiven>>

Next ==
    \/ \E name \in Pages : Load(name)
    \/ Found \/ NotFound \/ Offered
    \/ \E code \in {"right", "wrong"} : Submit(code)
    \/ Decline \/ GateAnswers \/ Use \/ Suggest \/ Expire

Spec == Init /\ [][Next]_vars

-----------------------------------------------------------------------------
(* Somebody who holds the code and does what the page says: reloads when   *)
(* nothing answers or the session has ended, types the code when asked,    *)
(* asks again.                                                             *)

Persist ==
    /\ \E name \in Pages : page.name = name /\ Load(name)
    /\ page.phase = "offline" \/ last = "expired"

Follow == Persist \/ Found \/ NotFound \/ Offered \/ Submit("right") \/ GateAnswers \/ Use

Insisting == Follow \/ Suggest \/ Expire

Reachable == deployment # "closed" /\ runtime # 0

-----------------------------------------------------------------------------
PageStates ==
    [name : Pages, base : 1..BaseCount, token : Tokens, found : BOOLEAN,
     phase : {"looking", "asking", "gate", "connected", "declined", "offline"}]

TypeOK ==
    /\ deployment \in {"closed", "off", "ask", "full"} /\ runtime \in 0..BaseCount
    /\ stored \in Tokens
    /\ page \in PageStates
    /\ gate \in {"none", "right", "wrong"}
    /\ said \in {"nothing", "NO_RUNTIME", "NOT_SIGNED_IN", "EXPIRED"}
    /\ last \in {"none", "served", "expired", "forbidden"}
    /\ codeGiven \in BOOLEAN /\ expiries \in 0..MaxExpiries

\* Whatever the order of pages, reloads and expiries, a tab holds a session
\* that may write only if the deployment gives it to everybody or the code was
\* typed in it (main.ts:398-401, access.ts:issue).
WritingIsPaidFor ==
    \A token \in {stored, page.token} :
        token.capability = "full" => deployment = "full" \/ codeGiven

\* Why: no request under way carries the code without its having been typed.
SignInInv == TypeOK /\ WritingIsPaidFor /\ (gate = "right" => codeGiven)

\* A token the server stopped accepting does not lock anybody out: who holds
\* the code and follows the page's instruction goes from the first of these to the
\* second (gl-upload.ts and gl-assistant.ts `post`, the 401 branch).
TurnedAway == last = "expired"
Served == last = "served"
=============================================================================
