--------------------------- MODULE RequestLimits ---------------------------
(***************************************************************************)
(* The limits a call passes.  A question: a fixed window per caller,       *)
(* measured on the wall clock, and behind it one per persona's actor       *)
(* inside the application, measured on the clock the application is built  *)
(* with, which stands still.  An upload: a window of its own, and only for *)
(* a caller who signed in with the access code.                            *)
(*                                                                         *)
(* Time is kept as ages: how long ago a window began, and how long ago     *)
(* calls were let through, up to the window's length.                      *)
(***************************************************************************)
EXTENDS Integers, Sequences

CONSTANTS
    Callers,      \* sittings: one signed session each
    Personas,
    PersonaOf,    \* the persona a caller's session was signed for
    Window,       \* ticks a window lasts
    WithCode,     \* the callers whose session may add data
    MaxCalls,     \* questions per caller and window
    MaxUploads,   \* calls to the ingestion routes per caller and window
    MaxReads      \* reads per actor and window

LimitsAssumption ==
    /\ PersonaOf \in [Callers -> Personas]
    /\ WithCode \subseteq Callers
    /\ {Window, MaxCalls, MaxUploads, MaxReads} \subseteq Nat \ {0}

VARIABLES
    hits,     \* `#hits` of `askLimit`: each caller's window, its age and count; never asked:
              \* age is Window
    uploads,  \* `#hits` of `ingestLimit`
    recent,   \* history: ages of the questions let through within the last Window ticks
    admitted, \* history: the same of the uploads
    reads,    \* the inner limiter's count for each persona's actor
    outcome   \* what each caller was last answered

vars == <<hits, uploads, recent, admitted, reads, outcome>>

Unused == [age |-> Window, count |-> 0]

Init ==
    /\ hits = [c \in Callers |-> Unused] /\ uploads = [c \in Callers |-> Unused]
    /\ recent = [c \in Callers |-> <<>>] /\ admitted = [c \in Callers |-> <<>>]
    /\ reads = [p \in Personas |-> 0]
    /\ outcome = [c \in Callers |-> "none"]

Ages == 0..Window - 1
Older(age) == IF age < Window THEN age + 1 ELSE Window

Aged(windows) == [c \in Callers |-> [windows[c] EXCEPT !.age = Older(@)]]

\* The ages of a list, oldest first, a tick later: the first of them come of age and leave.
Leaving(ages) ==
    CHOOSE d \in 0..Len(ages) : \A n \in DOMAIN ages : n <= d <=> Older(ages[n]) = Window
Lately(ages) == LET d == Leaving(ages) IN [n \in 1..Len(ages) - d |-> Older(ages[n + d])]

\* The wall clock moves; the application's does not, and `reads` stays.
Tick ==
    /\ hits' = Aged(hits) /\ uploads' = Aged(uploads)
    /\ recent' = [c \in Callers |-> Lately(recent[c])]
    /\ admitted' = [c \in Callers |-> Lately(admitted[c])]
    /\ UNCHANGED <<reads, outcome>>

\* Mutation: the call that opens a window is not counted in it.
AllowFromZero(window, max) ==
    IF window.age >= Window THEN [verdict |-> TRUE, entry |-> [age |-> 0, count |-> 0]]
    ELSE IF window.count >= max THEN [verdict |-> FALSE, entry |-> window]
    ELSE [verdict |-> TRUE, entry |-> [window EXCEPT !.count = @ + 1]]

\* `allow`: the verdict and the window after it.
Allow(window, max) ==
    IF window.age >= Window THEN [verdict |-> TRUE, entry |-> [age |-> 0, count |-> 1]]
    ELSE IF window.count >= max THEN [verdict |-> FALSE, entry |-> window]
    ELSE [verdict |-> TRUE, entry |-> [window EXCEPT !.count = @ + 1]]

\* One question: refused by the first limit, or answered with as many of its
\* reads as the second allows; a refused read is a denied tool.
Ask(c) ==
    LET a == Allow(hits[c], MaxCalls)
    IN  /\ hits' = [hits EXCEPT ![c] = a.entry]
        /\ IF ~a.verdict
           THEN outcome' = [outcome EXCEPT ![c] = "limited"] /\ UNCHANGED <<recent, reads>>
           ELSE /\ recent' = [recent EXCEPT ![c] = Append(@, 0)]
                /\ IF reads[PersonaOf[c]] < MaxReads
                   THEN /\ reads' = [reads EXCEPT ![PersonaOf[c]] = @ + 1]
                        /\ outcome' = [outcome EXCEPT ![c] = "served"]
                   ELSE outcome' = [outcome EXCEPT ![c] = "denied"] /\ UNCHANGED reads
        /\ UNCHANGED <<uploads, admitted>>

\* Without the code: refused before anything is counted.
Refuse(c) ==
    /\ c \notin WithCode
    /\ outcome' = [outcome EXCEPT ![c] = "needs code"]
    /\ UNCHANGED <<hits, uploads, recent, admitted, reads>>

\* A file is sent to be profiled: what cannot be read has been counted by then.
Profile(c, readable) ==
    LET a == Allow(uploads[c], MaxUploads)
    IN  /\ c \in WithCode
        /\ uploads' = [uploads EXCEPT ![c] = a.entry]
        /\ admitted' = IF a.verdict THEN [admitted EXCEPT ![c] = Append(@, 0)] ELSE admitted
        /\ outcome' = [outcome EXCEPT ![c] =
              IF ~a.verdict THEN "limited" ELSE IF readable THEN "profiled" ELSE "unreadable"]
        /\ UNCHANGED <<hits, recent, reads>>

Next == Tick \/ \E c \in Callers : Ask(c) \/ Refuse(c) \/ \E readable \in BOOLEAN : Profile(c, readable)

Spec == Init /\ [][Next]_vars

-----------------------------------------------------------------------------
(* What the limits keep to *)

Outcomes == {"none", "served", "limited", "denied", "needs code", "profiled", "unreadable"}

\* Every variable stays within its kind of value; no window counts past its limit.
TypeOK ==
    /\ hits \in [Callers -> [age : 0..Window, count : 0..MaxCalls]]
    /\ uploads \in [Callers -> [age : 0..Window, count : 0..MaxUploads]]
    /\ recent \in [Callers -> Seq(Ages)] /\ admitted \in [Callers -> Seq(Ages)]
    /\ reads \in [Personas -> 0..MaxReads]
    /\ outcome \in [Callers -> Outcomes]

\* In any stretch of a window's length, wherever it begins, a caller gets through
\* at most twice the limit: a window's end and the beginning of the next.  Without
\* the code no upload gets through at all.
BurstIsBounded ==
    \A c \in Callers :
       /\ Len(recent[c]) <= 2 * MaxCalls /\ Len(admitted[c]) <= 2 * MaxUploads
       /\ c \notin WithCode => admitted[c] = <<>>

\* A caller is refused for calls of its own and of that kind: it has had its whole
\* allowance within the last window, whatever the others did, and whatever else it did.
RefusalIsEarned ==
    \A c \in Callers : outcome'[c] = "limited" =>
       /\ Ask(c) => Len(recent[c]) >= MaxCalls
       /\ \A readable \in BOOLEAN : Profile(c, readable) => Len(admitted[c]) >= MaxUploads

\* Why: a list is in order, what its present window let through comes last in it, as
\* many as were counted, and before that comes at most the allowance of one window more.
Follows(ages, window, max) ==
    /\ ages \in Seq(Ages)
    /\ \A i, j \in DOMAIN ages : i <= j => ages[i] >= ages[j]
    /\ \E k \in 0..Len(ages) :
          /\ k <= max /\ Len(ages) - k <= window.count
          /\ window.age < Window => Len(ages) - k = window.count
          /\ \A n \in DOMAIN ages :
                IF n <= k THEN ages[n] >= window.age ELSE ages[n] <= window.age
ListsFollow ==
    \A c \in Callers :
       /\ Follows(recent[c], hits[c], MaxCalls)
       /\ Follows(admitted[c], uploads[c], MaxUploads)
       /\ c \notin WithCode => admitted[c] = <<>>
LimitsInv == TypeOK /\ ListsFollow

\* What does not last for a caller that keeps asking while time passes: refused
\* calls do not keep the window closed.
ShutOut(c) == outcome[c] = "limited"
=============================================================================
