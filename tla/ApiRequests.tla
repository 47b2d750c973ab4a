---------------------------- MODULE ApiRequests ----------------------------
(***************************************************************************)
(* Requests through the application's dispatcher: sessions and their       *)
(* expiries, the enforcement point, field shaping and the audit log, with  *)
(* several requests in flight.  Every await is a point where another       *)
(* request, a revocation or the clock may come in between.                 *)
(***************************************************************************)
EXTENDS Integers, Sequences

CONSTANTS
    Actors,
    Role,          \* the role of each actor
    Scope,         \* the projects an actor's scope resolves to
    Requests,      \* requests in flight
    Routes,        \* [write, audited: BOOLEAN, roles: who has its capability, fields]
    Readers,       \* the roles that may read a field
    Sensitive,     \* the fields whose reading is audited
    Projects,
    Idle,          \* `sessionIdleLifetimeMs`, in ticks
    Absolute,      \* `sessionAbsoluteLifetimeMs`
    MaxTime,       \* bound: the clock
    MaxSessions    \* bound: sessions issued

None == "none"

PipelineAssumption ==
    /\ Idle \in Nat \ {0} /\ Absolute \in Nat \ {0} /\ Idle <= Absolute
    /\ MaxTime \in Nat /\ MaxSessions \in Nat
    /\ None \notin Projects

Ids == 1..MaxSessions
Idling == [actor |-> None, session |-> 0, route |-> None, project |-> None, stage |-> "idle",
           began |-> 0, fields |-> {}]

VARIABLES
    now,       \* the clock
    sessions,  \* `#sessions`, by id: [actor, absolute, idle, revoked]
    requests,  \* each request, as far as it has come
    audit,     \* the log
    sealed     \* whether the log refuses records

vars == <<now, sessions, requests, audit, sealed>>

Init ==
    /\ now = 0 /\ sessions = <<>>
    /\ requests = [r \in Requests |-> Idling]
    /\ audit = {} /\ sealed = FALSE

-----------------------------------------------------------------------------
(* Sessions *)

Never == -1

Session(a) == [actor |-> a, issued |-> now, absolute |-> now + Absolute, idle |-> now + Idle,
               revoked |-> Never]

\* `login`: a session, and its record in the log; the session stays when the
\* record is refused.
Login(a) ==
    /\ Len(sessions) < MaxSessions
    /\ sessions' = Append(sessions, Session(a))
    /\ audit' = IF sealed THEN audit ELSE audit \cup {[what |-> "LOGIN", actor |-> a, fields |-> {}]}
    /\ UNCHANGED <<now, requests, sealed>>

\* Mutation: an instant at an expiry is still within it.
ValidAtExpiry(s) == s.revoked = Never /\ now <= s.absolute /\ now <= s.idle

\* Mutation: a revocation is not looked at.
ValidUnrevoked(s) == now < s.absolute /\ now < s.idle

\* `validate` accepts: not revoked, and before both expiries.
Valid(s) == s.revoked = Never /\ now < s.absolute /\ now < s.idle

\* Idle slides, never past the absolute expiry.
Slide(s) == [s EXCEPT !.idle = IF now + Idle <= s.absolute THEN now + Idle ELSE s.absolute]

Tick == now < MaxTime /\ now' = now + 1 /\ UNCHANGED <<sessions, requests, audit, sealed>>

\* `revokeAllFor`: a role or scope change.
RevokeAllFor(a) ==
    /\ sessions' = [i \in DOMAIN sessions |->
          IF sessions[i].actor = a /\ sessions[i].revoked = Never
          THEN [sessions[i] EXCEPT !.revoked = now] ELSE sessions[i]]
    /\ UNCHANGED <<now, requests, audit, sealed>>

Seal == ~sealed /\ sealed' = TRUE /\ UNCHANGED <<now, sessions, requests, audit>>

-----------------------------------------------------------------------------
(* A request *)

EntryOf(r, q, what, fields) ==
    [what |-> what, actor |-> q.actor, request |-> r, route |-> q.route, project |-> q.project,
     fields |-> fields]
Entry(r, what, fields) == EntryOf(r, requests[r], what, fields)

\* A request ends with an answer; `error` is an exception of the log.
Ended(r, stage) == [requests EXCEPT ![r].stage = stage]

\* Writes a record and goes on, or fails the request when the log refuses it.
Recorded(r, record, stage) ==
    IF sealed THEN requests' = Ended(r, "error") /\ UNCHANGED audit
    ELSE requests' = Ended(r, stage) /\ audit' = audit \cup {record}

Capable(a, route) == Role[a] \in Routes[route].roles

Authentic(s, a) == Valid(s) /\ s.actor = a

\* A request for an actor with a session, up to the first await: a session that is
\* valid slides, even when it is another actor's.
Dispatch(r, a, i, route, p) ==
    LET goesOn == Authentic(sessions[i], a) /\ Capable(a, route)
        stage == IF goesOn THEN "scoping" ELSE IF sealed THEN "error" ELSE "404"
        q == [actor |-> a, session |-> i, route |-> route, project |-> p, stage |-> stage,
              began |-> now, fields |-> {}]
    IN  /\ requests[r].stage = "idle" /\ i \in DOMAIN sessions
        /\ sessions' = IF Valid(sessions[i]) THEN [sessions EXCEPT ![i] = Slide(@)] ELSE sessions
        /\ requests' = [requests EXCEPT ![r] = q]
        /\ audit' = IF stage = "404" THEN audit \cup {EntryOf(r, q, "DENY", {})} ELSE audit
        /\ UNCHANGED <<now, sealed>>

InScope(r) == requests[r].project \in Scope[requests[r].actor] \cup {None}
Audited(r) == Routes[requests[r].route].audited \/ Routes[requests[r].route].write

\* The scope is resolved; the object is checked and the decision recorded.
Authorise(r) ==
    /\ requests[r].stage = "scoping"
    /\ IF ~InScope(r) THEN Recorded(r, Entry(r, "DENY", {}), "404")
       ELSE IF Audited(r) THEN Recorded(r, Entry(r, "GRANT", {}), "handling")
       ELSE requests' = Ended(r, "handling") /\ UNCHANGED audit
    /\ UNCHANGED <<now, sessions, sealed>>

\* `shape`: the fields of the rows this role may read.
Shaped(r) == {f \in Routes[requests[r].route].fields : Role[requests[r].actor] \in Readers[f]}

RecordedFields(r) == Shaped(r) \cap Sensitive

\* The handler answers, its rows are shaped, and what leaves is recorded: every
\* write, and on audited routes every sensitive field.
Handle(r) ==
    /\ requests[r].stage = "handling"
    /\ IF Routes[requests[r].route].write THEN Recorded(r, Entry(r, "WRITE", {}), "shaped")
       ELSE IF Routes[requests[r].route].audited /\ RecordedFields(r) # {}
            THEN Recorded(r, Entry(r, "READ", RecordedFields(r)), "shaped")
       ELSE requests' = Ended(r, "shaped") /\ UNCHANGED audit
    /\ UNCHANGED <<now, sessions, sealed>>

Answer(r) ==
    /\ requests[r].stage = "shaped"
    /\ requests' = [requests EXCEPT ![r].stage = "200", ![r].fields = Shaped(r)]
    /\ UNCHANGED <<now, sessions, audit, sealed>>

Next ==
    \/ Tick \/ Seal
    \/ \E a \in Actors : Login(a) \/ RevokeAllFor(a)
    \/ \E r \in Requests :
          \/ Authorise(r) \/ Handle(r) \/ Answer(r)
          \/ \E a \in Actors, i \in Ids, route \in DOMAIN Routes, p \in Projects \cup {None} :
                Dispatch(r, a, i, route, p)

Spec == Init /\ [][Next]_vars

-----------------------------------------------------------------------------
(* What requests keep to *)

Stages == {"idle", "scoping", "handling", "shaped", "200", "404", "error"}
Granted == {r \in Requests : requests[r].stage = "200"}
Refused(s) == s.revoked # Never \/ now >= s.absolute \/ now >= s.idle

\* Every variable stays within its kind of value; the idle window ends by the
\* absolute expiry however often it slides.
TypeOK ==
    /\ now \in 0..MaxTime /\ Len(sessions) <= MaxSessions
    /\ \A i \in DOMAIN sessions : sessions[i].idle <= sessions[i].absolute
    /\ \A r \in Requests : requests[r].stage \in Stages
    /\ sealed \in BOOLEAN

\* A session that was refused is refused for ever: no use brings it back.
RefusedForEver ==
    \A i \in DOMAIN sessions : Refused(sessions[i]) => Refused(sessions[i])'

\* What is answered began before the session was revoked: a revocation stops
\* everything that has not passed validation by then.
RevokedStartsNothing ==
    \A r \in Granted :
        LET s == sessions[requests[r].session] IN s.revoked # Never => requests[r].began <= s.revoked

\* No session answers a request beyond its absolute lifetime, nor for an actor or
\* a project that is not its own.
AnswersAreAuthorised ==
    \A r \in Granted :
        LET q == requests[r] s == sessions[q.session]
        IN  /\ s.actor = q.actor /\ q.project \in Scope[q.actor] \cup {None}
            /\ q.began < s.issued + Absolute /\ Capable(q.actor, q.route)

\* Every answer of an audited route has its grant in the log, every write its
\* record, and what the log says was read is what was returned: the sensitive
\* fields and no other.  Every refusal is in the log too; a log that refuses
\* records lets nothing of this be answered.
AnswersAreAudited ==
    /\ \A r \in Granted : Audited(r) =>
          /\ Entry(r, "GRANT", {}) \in audit
          /\ Routes[requests[r].route].write => Entry(r, "WRITE", {}) \in audit
          /\ ~Routes[requests[r].route].write =>
                requests[r].fields \cap Sensitive =
                    UNION {e.fields : e \in {e \in audit : e.what = "READ" /\ e.request = r}}
    /\ \A r \in Requests : requests[r].stage = "404" => Entry(r, "DENY", {}) \in audit

\* Why: sessions are dated within their lifetimes, and a request is, at each stage, as
\* far as its checks and its records have come.
SessionRecords ==
    [actor : Actors, issued : Nat, absolute : Nat, idle : Nat, revoked : Nat \cup {Never}]
SessionsAre ==
    /\ sessions \in Seq(SessionRecords)
    /\ \A i \in DOMAIN sessions :
          /\ sessions[i].absolute = sessions[i].issued + Absolute
          /\ sessions[i].idle <= sessions[i].absolute
          /\ sessions[i].issued <= now /\ sessions[i].revoked <= now

RequestRecords ==
    [actor : Actors \cup {None}, session : Nat, route : DOMAIN Routes \cup {None},
     project : Projects \cup {None}, stage : Stages, began : Nat,
     fields : SUBSET UNION {Routes[route].fields : route \in DOMAIN Routes}]
Passed == {"scoping", "handling", "shaped", "200"}   \* stages after validation
Reads(r) == {e \in audit : e.what = "READ" /\ e.request = r}
RequestIs(r) ==
    LET q == requests[r]
        s == sessions[q.session]
    IN  /\ q.stage # "idle" => q.actor \in Actors /\ q.route \in DOMAIN Routes
        /\ q.stage \in Passed =>
              /\ q.session \in DOMAIN sessions /\ s.actor = q.actor
              /\ Capable(q.actor, q.route)
              /\ q.began <= now /\ q.began < s.issued + Absolute
              /\ s.revoked # Never => q.began <= s.revoked
        /\ q.stage \in {"handling", "shaped", "200"} =>
              InScope(r) /\ (Audited(r) => Entry(r, "GRANT", {}) \in audit)
        /\ q.stage \in {"shaped", "200"} /\ Routes[q.route].write => Entry(r, "WRITE", {}) \in audit
        /\ q.stage \in {"shaped", "200"} /\ ~Routes[q.route].write /\ Audited(r) =>
              /\ \A e \in Reads(r) : e.fields = RecordedFields(r)
              /\ RecordedFields(r) # {} => Reads(r) # {}
        /\ q.stage \in {"idle", "scoping", "handling"} => Reads(r) = {}
        /\ q.stage = "200" => q.fields = Shaped(r)
        /\ q.stage = "404" => Entry(r, "DENY", {}) \in audit
ApiInv ==
    /\ now \in Nat /\ sealed \in BOOLEAN /\ requests \in [Requests -> RequestRecords]
    /\ SessionsAre /\ \A r \in Requests : RequestIs(r)
=============================================================================
