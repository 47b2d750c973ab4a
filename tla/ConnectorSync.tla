--------------------------- MODULE ConnectorSync ---------------------------
(***************************************************************************)
(* A connector's synchronisation: which of a source's records each sync    *)
(* hands over, the watermark and delivered keys it keeps, and what a       *)
(* change of the source's schema does to both.                             *)
(***************************************************************************)
EXTENDS Filtering, FiniteSetsExt

CONSTANTS
    Names,       \* natural keys
    Versions,
    Dates,       \* when a record was observed
    Undated,     \* a record that does not say
    MaxRecords,  \* bound: records of the source
    MaxSyncs     \* bound: syncs

None == 0

SyncAssumption ==
    /\ Dates \subseteq Nat \ {None} /\ None \notin Dates
    /\ MaxRecords \in Nat /\ MaxSyncs \in Nat

Records == [name: Names, version: Versions, date: Dates \cup {Undated}]
Key(r) == <<r.name, r.version>>

VARIABLES
    records,   \* what the source holds, in its own order
    delivered, \* `#delivered`
    watermark, \* `#state.watermark`
    drifted,   \* whether the source's schema is not the mapping's
    handed,    \* history: what syncs handed over, in order
    syncs      \* how many syncs there were

vars == <<records, delivered, watermark, drifted, handed, syncs>>

Init ==
    /\ records \in UNION {[1..n -> Records] : n \in 0..MaxRecords}
    /\ delivered = {} /\ watermark = None /\ drifted = FALSE
    /\ handed = <<>> /\ syncs = 0

-----------------------------------------------------------------------------
Newer(since) ==
    Kept(records, {n \in DOMAIN records : records[n].date # Undated /\ records[n].date > since})
Candidates(since) == IF since = None THEN records ELSE Newer(since)
Bounded(since, limit) ==
    LET all == Candidates(since) IN SubSeq(all, 1, IF limit < Len(all) THEN limit ELSE Len(all))

\* Mutation: a key already handed over is recognised by its name and date.
FreshByDate(read) ==
    SelectSeq(read, LAMBDA r : ~\E h \in Range(handed) : h.name = r.name /\ h.date = r.date)

\* The records whose keys are new, each key once.
Fresh(read) ==
    Kept(read, {n \in DOMAIN read : /\ Key(read[n]) \notin delivered
                                    /\ \A m \in 1..n - 1 : Key(read[m]) # Key(read[n])})

\* The latest date read, in whatever order; none leaves it where it was.
WatermarkAfter(read) ==
    LET dates == {r.date : r \in Range(read)} \ {Undated}
    IN  IF dates = {} THEN watermark ELSE Max(dates)

\* `sync`: an initial one, or an incremental one without a date, reads
\* everything; drift hands over nothing.
Sync(since, limit) ==
    LET read == Bounded(since, limit)
        fresh == Fresh(read)
    IN  /\ syncs < MaxSyncs /\ syncs' = syncs + 1
        /\ delivered' = delivered \cup {Key(r) : r \in Range(fresh)}
        /\ watermark' = WatermarkAfter(read)
        /\ handed' = IF drifted THEN handed ELSE handed \o fresh
        /\ UNCHANGED <<records, drifted>>

\* `simulateSchemaChange`, to another schema or back to the mapping's.
SchemaChange ==
    /\ syncs < MaxSyncs
    /\ drifted' = ~drifted
    /\ UNCHANGED <<records, delivered, watermark, handed, syncs>>

\* Callers sync from the start or from the watermark of the last sync.
Next ==
    \/ \E since \in {None, watermark}, limit \in 0..MaxRecords : Sync(since, limit)
    \/ SchemaChange

Spec == Init /\ [][Next]_vars

-----------------------------------------------------------------------------
(* What a sync keeps to *)

\* Every variable stays within its kind of value.
TypeOK ==
    /\ delivered \subseteq Names \X Versions
    /\ watermark \in Dates \cup {None}
    /\ Range(handed) \subseteq Range(records)
    /\ syncs \in 0..MaxSyncs

\* No record is handed over twice, whatever order full and incremental syncs and
\* schema changes come in: re-delivery is a no-op, not a double count.
HandedOnce == \A i, j \in DOMAIN handed : i # j => Key(handed[i]) # Key(handed[j])

\* Why: what has been handed over has been marked as delivered, and is the source's.
HandedIsDelivered ==
    /\ records \in Seq(Records) /\ Len(records) <= MaxRecords /\ handed \in Seq(Records)
    /\ \A i \in DOMAIN handed :
          Key(handed[i]) \in delivered /\ \E n \in DOMAIN records : handed[i] = records[n]
SyncInv == HandedIsDelivered /\ HandedOnce

\* As long as no sync met a drifted schema, a full one leaves nothing behind:
\* every key of the source has been handed over, in that sync or before it.
FullSyncCompletes ==
    Sync(None, MaxRecords) /\ ~drifted /\ delivered = {Key(h) : h \in Range(handed)} =>
      {Key(r) : r \in Range(records)} = {Key(h) : h \in Range(handed')}
=============================================================================
