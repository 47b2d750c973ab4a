----------------------------- MODULE UploadCommit -----------------------------
(***************************************************************************)
(* What an ingestion route promises, without memory, queue or failures.    *)
(* The store takes uploads, each all or nothing as far as the promise is   *)
(* concerned, and never gives one back.  A client is told "committed" only *)
(* of an upload the store has.  A client told anything else is told        *)
(* nothing about the store: it may have the upload, take it later, or not. *)
(***************************************************************************)
CONSTANT Uploads

VARIABLES
    saved,     \* the uploads the store holds in full
    outcome    \* what each request came to

commitVars == <<saved, outcome>>

CommitInit ==
    /\ saved = {}
    /\ outcome = [u \in Uploads |-> "pending"]

Save(S) ==
    /\ saved' = saved \cup S
    /\ UNCHANGED outcome

Commit(u) ==
    /\ outcome[u] = "pending"
    /\ u \in saved
    /\ outcome' = [outcome EXCEPT ![u] = "committed"]
    /\ UNCHANGED saved

\* One request is refused, or a process dies with several of them.
Abandon(S) ==
    /\ \A u \in S : outcome[u] = "pending"
    /\ outcome' = [u \in Uploads |-> IF u \in S THEN "abandoned" ELSE outcome[u]]
    /\ UNCHANGED saved

CommitNext ==
    \/ \E S \in SUBSET Uploads : Save(S) \/ Abandon(S)
    \/ \E u \in Uploads : Commit(u)

CommitSpec == CommitInit /\ [][CommitNext]_commitVars
=============================================================================
