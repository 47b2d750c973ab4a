-------------------------- MODULE MCDurableRegistry --------------------------
(***************************************************************************)
(* Instances of the durable registry for TLC, and what comments in the     *)
(* repository say of the registry and the ingest routes and the code does  *)
(* not do: each of those is checked by a run of its own that ends in a     *)
(* behaviour of the code contradicting it.                                 *)
(***************************************************************************)
EXTENDS DurableRegistry, TLC

UploadSymmetry == Permutations(Uploads)
-----------------------------------------------------------------------------
\* "That combination [content, no receipt] ... cannot be produced by any current
\* code path."  A receipt write that fails before content writes that succeed
\* produces it at the next start.
NoLegacyIncomplete == \A s \in Sources : ~ LegacyIncomplete(s)

\* A conflict names one source as governing, "a claim this product should not
\* make on behalf of a source whose ingestion it cannot account for": whoever
\* takes part in conflict detection holds a receipt.
ConflictsAreAccountedFor ==
    \A s \in ConflictParticipants : receipts[s] # {}

\* "Nothing has been reported as ingested, because it is not": a refused upload's
\* source does not list its receipt.
RefusedIsNotIngested ==
    \A u \in Uploads :
        phase[u] = "not_committed" => u \notin receipts[sourceOf[u]]

\* "Durable storage did not accept it": an upload is refused only when one of
\* its own writes failed, even when no other upload shares its source.
RefusalIsEarned ==
    [][\A u \in Uploads :
          /\ phase[u] = "flushing" /\ phase'[u] = "not_committed"
          /\ \A v \in Uploads \ {u} : sourceOf[v] # sourceOf[u]
          => u \in failures]_vars

\* "A retried request rewrites the same record rather than adding one": when a
\* client that got no answer sends the file again and both reach the store,
\* they are the same observations.
RetryRewrites ==
    \A u, v \in Workbooks :
        /\ u # v /\ fileOf[u] = fileOf[v]
        /\ told[u] \in {"timeout", "dropped"}
        /\ ItemOf("observations", sourceOf[u], fileOf[u]) \in dItems
        /\ ItemOf("observations", sourceOf[v], fileOf[v]) \in dItems
        => sourceOf[u] = sourceOf[v]

\* "Ingestion is closed until storage answers": a process that could not hydrate
\* opens, or dies, in the end.
IngestionReopens == (mode = "closed" /\ stores = "durable") ~> (mode # "closed")
=============================================================================
