--------------------------- MODULE ServiceProofs ---------------------------
(***************************************************************************)
(* What the parts of the service keep to, for every number of callers,     *)
(* requests, records and sessions.  Each part has an inductive invariant   *)
(* in its component's module; a behaviour is about one part, which never   *)
(* changes, so an invariant of the part is one of the behaviour (Starts,   *)
(* Moves).  First the facts about lists that several of them need.         *)
(***************************************************************************)
EXTENDS MCService, FiniteSetTheorems, TLAPS, Filtering

-----------------------------------------------------------------------------
(* Facts about numbers and lists.                                          *)

\* A set of naturals that is not empty has a least member: what induction over the
\* naturals rests on here.
LEMMA Least ==
    ASSUME NEW S, S \subseteq Nat, S # {}
    PROVE  \E n \in S : \A m \in S : n <= m
<1> DEFINE T == {0..n : n \in S}
           R == StrictSubsetOrdering(Nat)
<1>1. T \subseteq FiniteSubsetsOf(Nat)
  <2> SUFFICES ASSUME NEW n \in S PROVE 0..n \in FiniteSubsetsOf(Nat)
    OBVIOUS
  <2>1. n \in Int /\ 0 \in Int /\ 0..n \subseteq Nat
    OBVIOUS
  <2>2. IsFiniteSet(0..n)
    BY <2>1, FS_Interval
  <2>3. QED
    BY <2>1, <2>2 DEF FiniteSubsetsOf
<1>2. T # {}
  OBVIOUS
<1>3. IsWellFoundedOn(R, FiniteSubsetsOf(Nat))
  BY FS_StrictSubsetOrderingWellFounded
<1>4. PICK x \in T : \A y \in T : ~(<<y, x>> \in R)
  <2> HIDE DEF T, R
  <2>1. QED
    BY <1>1, <1>2, <1>3, WFMin
<1>5. PICK n \in S : x = 0..n
  OBVIOUS
<1>6. ASSUME NEW m \in S, m < n
      PROVE  FALSE
  <2>1. 0..m \in T
    OBVIOUS
  <2>2. n \in 0..n /\ n \notin 0..m
    BY <1>6
  <2>3. 0..m \subseteq 0..n /\ 0..m # 0..n
    BY <1>6, <2>2
  <2>4. 0..m \in SUBSET Nat /\ 0..n \in SUBSET Nat
    OBVIOUS
  <2>5. QED
    BY <2>1, <2>3, <2>4, <1>4, <1>5 DEF StrictSubsetOrdering
<1>7. QED
  BY <1>6

\* The positions up to one of them, counted.
LEMMA CountedUpTo ==
    ASSUME NEW at, NEW len \in Nat, at \subseteq 1..len
    PROVE  /\ IsFiniteSet(at) /\ Cardinality(at) \in Nat
           /\ \A b \in Nat : /\ IsFiniteSet({m \in at : m <= b})
                             /\ Cardinality({m \in at : m <= b}) \in 0..Cardinality(at)
           /\ Cardinality({m \in at : m <= 0}) = 0
           /\ Cardinality({m \in at : m <= len}) = Cardinality(at)
           /\ \A b \in Nat : Cardinality({m \in at : m <= b + 1}) =
                 IF b + 1 \in at THEN Cardinality({m \in at : m <= b}) + 1
                                 ELSE Cardinality({m \in at : m <= b})
<1>0. \A m \in at : m \in Nat /\ 1 <= m /\ m <= len
  OBVIOUS
<1>1. IsFiniteSet(at) /\ Cardinality(at) \in Nat
  <2>1. IsFiniteSet(1..len)
    BY FS_Interval
  <2>2. QED
    BY <2>1, FS_Subset, FS_CardinalityType
<1>2. ASSUME NEW b \in Nat
      PROVE  /\ IsFiniteSet({m \in at : m <= b})
             /\ Cardinality({m \in at : m <= b}) \in 0..Cardinality(at)
  <2>1. {m \in at : m <= b} \in SUBSET at
    OBVIOUS
  <2>2. QED
    BY <2>1, <1>1, FS_Subset, FS_CardinalityType
<1>3. Cardinality({m \in at : m <= 0}) = 0
  <2>1. ~\E m \in at : m <= 0
    BY <1>0
  <2>2. {m \in at : m <= 0} = {}
    BY <2>1
  <2>3. QED
    BY <2>2, FS_EmptySet
<1>4. {m \in at : m <= len} = at
  BY <1>0
<1>5. ASSUME NEW b \in Nat
      PROVE  Cardinality({m \in at : m <= b + 1}) =
                 IF b + 1 \in at THEN Cardinality({m \in at : m <= b}) + 1
                                 ELSE Cardinality({m \in at : m <= b})
  <2>1. CASE b + 1 \in at
    <3>1. \A m \in at : m <= b + 1 <=> m <= b \/ m = b + 1
      BY <1>0
    <3>2. {m \in at : m <= b + 1} = {m \in at : m <= b} \cup {b + 1}
      BY <3>1, <2>1
    <3>3. b + 1 \notin {m \in at : m <= b}
      OBVIOUS
    <3>4. QED
      BY <3>2, <3>3, <2>1, <1>2, FS_AddElement
  <2>2. CASE b + 1 \notin at
    <3>1. \A m \in at : m <= b + 1 <=> m <= b
      BY <1>0, <2>2
    <3>2. {m \in at : m <= b + 1} = {m \in at : m <= b}
      BY <3>1
    <3>3. QED
      BY <3>2, <2>2
  <2>3. QED
    BY <2>1, <2>2
<1>6. QED
  BY <1>1, <1>2, <1>3, <1>4, <1>5

\* Nothing is counted twice: of two positions the later has the higher rank.
LEMMA RankGrows ==
    ASSUME NEW at, NEW len \in Nat, at \subseteq 1..len, NEW m \in at, NEW n \in at, m < n
    PROVE  Cardinality({k \in at : k <= m}) < Cardinality({k \in at : k <= n})
<1>0. \A k \in at : k \in Nat
  OBVIOUS
<1>1. {k \in at : k <= m} \in SUBSET {k \in at : k <= n}
  <2>1. \A k \in at : k <= m => k <= n
    BY <1>0
  <2>2. QED
    BY <2>1
<1>2. n \in {k \in at : k <= n} /\ n \notin {k \in at : k <= m}
  BY <1>0
<1>3. IsFiniteSet({k \in at : k <= n}) /\ Cardinality({k \in at : k <= n}) \in Nat
  BY CountedUpTo, <1>0
<1>4. Cardinality({k \in at : k <= m}) \in Nat
  BY CountedUpTo, <1>0
<1>5. QED
  BY <1>1, <1>2, <1>3, <1>4, FS_Subset

\* Every rank up to how many there are is some position's, and only one's.
LEMMA NthIs ==
    ASSUME NEW at, NEW len \in Nat, at \subseteq 1..len
    PROVE  /\ \A i \in 1..Cardinality(at) :
                 Nth(at, i) \in at /\ Cardinality({m \in at : m <= Nth(at, i)}) = i
           /\ \A n \in at : \E i \in 1..Cardinality(at) : Nth(at, i) = n
           /\ \A i, j \in 1..Cardinality(at) : i < j => Nth(at, i) < Nth(at, j)
<1> DEFINE upTo(b) == Cardinality({m \in at : m <= b})
<1>a. \A n \in at : n \in Nat
  OBVIOUS
<1>b. Cardinality(at) \in Nat /\ upTo(len) = Cardinality(at) /\ upTo(0) = 0
  BY CountedUpTo
<1>c. \A b \in Nat : upTo(b) \in 0..Cardinality(at)
  BY CountedUpTo
<1>d. \A b \in Nat : upTo(b + 1) = IF b + 1 \in at THEN upTo(b) + 1 ELSE upTo(b)
  BY CountedUpTo
<1>e. \A m, n \in at : m < n => upTo(m) < upTo(n)
  BY RankGrows
<1>f. \A i : Nth(at, i) = CHOOSE n \in at : upTo(n) = i
  BY DEF Nth
<1> HIDE DEF upTo
<1>1. ASSUME NEW i \in 1..Cardinality(at)
      PROVE  \E n \in at : upTo(n) = i
  <2>1. {b \in Nat : upTo(b) >= i} \subseteq Nat /\ len \in {b \in Nat : upTo(b) >= i}
    BY <1>b
  <2>2. PICK b \in {c \in Nat : upTo(c) >= i} : \A c \in {d \in Nat : upTo(d) >= i} : b <= c
    BY <2>1, Least
  <2>3. b # 0
    BY <1>b, <2>2
  <2>4. b - 1 \in Nat /\ (b - 1) + 1 = b
    BY <2>2, <2>3
  <2>5. ~(upTo(b - 1) >= i)
    BY <2>2, <2>4
  <2>6. upTo(b - 1) \in Nat /\ upTo(b) \in Nat
    BY <2>4, <2>2, <1>c
  <2>7. upTo(b) = IF b \in at THEN upTo(b - 1) + 1 ELSE upTo(b - 1)
    BY <2>4, <1>d
  <2>8. QED
    BY <2>2, <2>5, <2>6, <2>7
<1>2. \A i \in 1..Cardinality(at) : Nth(at, i) \in at /\ upTo(Nth(at, i)) = i
  BY <1>1, <1>f
<1>3. \A m, n \in at : upTo(m) = upTo(n) => m = n
  BY <1>a, <1>c, <1>e
<1>4. ASSUME NEW n \in at
      PROVE  \E i \in 1..Cardinality(at) : Nth(at, i) = n
  <2>1. n \in Nat /\ upTo(n) \in 0..Cardinality(at)
    BY <1>a, <1>c
  <2>2. upTo(n) # 0
    <3>1. IsFiniteSet({m \in at : m <= n})
      BY <2>1, CountedUpTo
    <3>2. n <= n
      BY <2>1
    <3>3. n \in {m \in at : m <= n}
      BY <3>2
    <3>4. QED
      BY <3>1, <3>3, FS_EmptySet DEF upTo
  <2>3. upTo(n) \in 1..Cardinality(at)
    BY <2>1, <2>2, <1>b
  <2>4. QED
    BY <2>3, <1>2, <1>3
<1>5. ASSUME NEW i \in 1..Cardinality(at), NEW j \in 1..Cardinality(at), i < j
      PROVE  Nth(at, i) < Nth(at, j)
  <2>1. /\ Nth(at, i) \in at /\ Nth(at, j) \in at /\ Nth(at, i) \in Nat /\ Nth(at, j) \in Nat
        /\ upTo(Nth(at, i)) = i /\ upTo(Nth(at, j)) = j
    BY <1>2, <1>a
  <2>2. QED
    BY <2>1, <1>5, <1>e, <1>b
<1>6. QED
  BY <1>2, <1>4, <1>5 DEF upTo

\* Filtering a list: a list of its entries at the positions kept, in their order, and
\* all of them.
LEMMA KeptIs ==
    ASSUME NEW S, NEW s \in Seq(S), NEW at, at \subseteq DOMAIN s
    PROVE  /\ Kept(s, at) \in Seq(S)
           /\ Len(Kept(s, at)) = Cardinality(at) /\ Cardinality(at) \in Nat
           /\ \A i \in DOMAIN Kept(s, at) : \E n \in at : Kept(s, at)[i] = s[n]
           /\ \A n \in at : \E i \in DOMAIN Kept(s, at) : Kept(s, at)[i] = s[n]
           /\ \A i, j \in DOMAIN Kept(s, at) : i < j =>
                 \E m, n \in at : m < n /\ Kept(s, at)[i] = s[m] /\ Kept(s, at)[j] = s[n]
<1>1. at \subseteq 1..Len(s) /\ Len(s) \in Nat
  OBVIOUS
<1>2. Cardinality(at) \in Nat
  BY <1>1, CountedUpTo
<1>3. /\ \A i \in 1..Cardinality(at) : Nth(at, i) \in at
      /\ \A n \in at : \E i \in 1..Cardinality(at) : Nth(at, i) = n
      /\ \A i, j \in 1..Cardinality(at) : i < j => Nth(at, i) < Nth(at, j)
  BY <1>1, NthIs
<1>4. Kept(s, at) = [i \in 1..Cardinality(at) |-> s[Nth(at, i)]]
  BY DEF Kept
<1>5. Kept(s, at) \in Seq(S) /\ Len(Kept(s, at)) = Cardinality(at)
  BY <1>1, <1>2, <1>3, <1>4
<1>6. /\ DOMAIN Kept(s, at) = 1..Cardinality(at)
      /\ \A i \in 1..Cardinality(at) : Kept(s, at)[i] = s[Nth(at, i)]
  BY <1>4
<1>7. \A i \in DOMAIN Kept(s, at) : \E n \in at : Kept(s, at)[i] = s[n]
  BY <1>3, <1>6
<1>8. \A n \in at : \E i \in DOMAIN Kept(s, at) : Kept(s, at)[i] = s[n]
  BY <1>3, <1>6
<1>9. \A i, j \in DOMAIN Kept(s, at) : i < j =>
         \E m, n \in at : m < n /\ Kept(s, at)[i] = s[m] /\ Kept(s, at)[j] = s[n]
  <2>1. ASSUME NEW i \in DOMAIN Kept(s, at), NEW j \in DOMAIN Kept(s, at), i < j
        PROVE  \E m, n \in at : m < n /\ Kept(s, at)[i] = s[m] /\ Kept(s, at)[j] = s[n]
    <3>1. Nth(at, i) \in at /\ Nth(at, j) \in at /\ Nth(at, i) < Nth(at, j)
      BY <1>3, <1>6, <2>1
    <3>2. QED
      BY <1>6, <3>1
  <2>2. QED
    BY <2>1
<1>10. QED
  BY <1>2, <1>5, <1>7, <1>8, <1>9

\* A list, and another after it.
LEMMA Joined ==
    ASSUME NEW S, NEW s \in Seq(S), NEW t \in Seq(S)
    PROVE  /\ s \o t \in Seq(S) /\ Len(s) \in Nat /\ Len(t) \in Nat
           /\ DOMAIN s = 1..Len(s) /\ DOMAIN t = 1..Len(t) /\ DOMAIN (s \o t) = 1..(Len(s) + Len(t))
           /\ Len(s \o t) = Len(s) + Len(t)
           /\ \A i \in 1..Len(s) : i \in 1..(Len(s) + Len(t)) /\ (s \o t)[i] = s[i]
           /\ \A n \in 1..Len(t) :
                 Len(s) + n \in 1..(Len(s) + Len(t)) /\ (s \o t)[Len(s) + n] = t[n]
           /\ \A i \in 1..(Len(s) + Len(t)) : i \notin 1..Len(s) =>
                 i - Len(s) \in 1..Len(t) /\ (s \o t)[i] = t[i - Len(s)]
<1>1. /\ s \o t \in Seq(S) /\ Len(s) \in Nat /\ Len(t) \in Nat
      /\ DOMAIN s = 1..Len(s) /\ DOMAIN t = 1..Len(t) /\ DOMAIN (s \o t) = 1..(Len(s) + Len(t))
      /\ Len(s \o t) = Len(s) + Len(t)
  OBVIOUS
<1>2. ASSUME NEW i \in 1..Len(s)
      PROVE  i \in 1..(Len(s) + Len(t)) /\ (s \o t)[i] = s[i]
  BY <1>1
<1>3. ASSUME NEW i \in 1..(Len(s) + Len(t)), i \notin 1..Len(s)
      PROVE  i - Len(s) \in 1..Len(t) /\ (s \o t)[i] = t[i - Len(s)]
  BY <1>1, <1>3
<1>4. ASSUME NEW n \in 1..Len(t)
      PROVE  Len(s) + n \in 1..(Len(s) + Len(t)) /\ (s \o t)[Len(s) + n] = t[n]
  BY <1>1
<1>5. QED
  BY <1>1, <1>2, <1>3, <1>4

\* It holds what both do.
LEMMA JoinedHolds ==
    ASSUME NEW S, NEW s \in Seq(S), NEW t \in Seq(S)
    PROVE  /\ \A i \in DOMAIN (s \o t) : \/ \E n \in DOMAIN s : (s \o t)[i] = s[n]
                                         \/ \E k \in DOMAIN t : (s \o t)[i] = t[k]
           /\ \A n \in DOMAIN s : \E i \in DOMAIN (s \o t) : (s \o t)[i] = s[n]
           /\ \A n \in DOMAIN t : \E i \in DOMAIN (s \o t) : (s \o t)[i] = t[n]
<1>1. /\ DOMAIN s = 1..Len(s) /\ DOMAIN t = 1..Len(t) /\ DOMAIN (s \o t) = 1..(Len(s) + Len(t))
      /\ \A i \in 1..Len(s) : i \in 1..(Len(s) + Len(t)) /\ (s \o t)[i] = s[i]
      /\ \A n \in 1..Len(t) :
            Len(s) + n \in 1..(Len(s) + Len(t)) /\ (s \o t)[Len(s) + n] = t[n]
      /\ \A i \in 1..(Len(s) + Len(t)) : i \notin 1..Len(s) =>
            i - Len(s) \in 1..Len(t) /\ (s \o t)[i] = t[i - Len(s)]
  BY Joined
<1>2. QED
  BY <1>1

\* A list, and one more after it.
LEMMA Longer ==
    ASSUME NEW S, NEW s \in Seq(S), NEW x \in S
    PROVE  /\ Append(s, x) \in Seq(S) /\ Len(s) \in Nat /\ Len(Append(s, x)) = Len(s) + 1
           /\ DOMAIN s = 1..Len(s) /\ DOMAIN Append(s, x) = 1..(Len(s) + 1)
           /\ Append(s, x)[Len(s) + 1] = x
           /\ \A n \in 1..Len(s) : Append(s, x)[n] = s[n]
  OBVIOUS

\* Some positions have a last one.
LEMMA Greatest ==
    ASSUME NEW len \in Nat, NEW at, at \subseteq 1..len, at # {}
    PROVE  \E m \in at : \A k \in at : k <= m
<1> DEFINE S == {len - m : m \in at}
<1>1. S \subseteq Nat
  OBVIOUS
<1>2. S # {}
  OBVIOUS
<1>3. \A i \in S : \E m \in at : i = len - m
  OBVIOUS
<1>4. \A k \in at : len - k \in S
  OBVIOUS
<1> HIDE DEF S
<1>5. PICK i \in S : \A j \in S : i <= j
  BY <1>1, <1>2, Least
<1>6. PICK m \in at : i = len - m
  BY <1>3
<1>7. ASSUME NEW k \in at PROVE k <= m
  <2>1. i <= len - k
    BY <1>4, <1>5
  <2>2. QED
    BY <2>1, <1>6
<1>8. QED
  BY <1>7

\* What each member of a finite set is given, is finite.
LEMMA GivenIsFinite ==
    ASSUME NEW S, IsFiniteSet(S), NEW T, NEW f \in [S -> T]
    PROVE  LET given == {f[x] : x \in S}
           IN  IsFiniteSet(given) /\ Cardinality(given) \in Nat /\ Cardinality(given) <= Cardinality(S)
<1> DEFINE given == {f[x] : x \in S}
<1>1. f \in Surjection(S, given)
  BY DEF Surjection
<1> HIDE DEF given
<1>2. IsFiniteSet(given) /\ Cardinality(given) <= Cardinality(S)
  BY <1>1, FS_Surjection
<1>3. Cardinality(given) \in Nat
  BY <1>2, FS_CardinalityType
<1>4. QED
  BY <1>2, <1>3 DEF given

-----------------------------------------------------------------------------
(* A behaviour is about one part.                                          *)

\* It starts as that part does.
LEMMA Starts ==
    ServiceInit =>
        /\ part = "collection" => Collection!Init
        /\ part = "process" => Process!Init
        /\ part = "fleet" => FleetOf!Init
        /\ part = "limits" => Limits!Init
        /\ part = "api" => Api!Init
        /\ part = "signin" => Tab!Init
        /\ part = "audit" => Trail!Init
        /\ part = "upload" => Upload!Init
        /\ part = "filter" => Filter!Init
        /\ part = "documents" => Documents!Init
        /\ part = "sheet" => Sheet!Init
        /\ part = "identity" => Hub!Init
        /\ part = "authority" => Authority!Init
        /\ part = "connector" => Connector!Init
        /\ part = "conversation" => Chat!Init
        /\ part = "alone" => ChatAlone!Init
        /\ part = "answer" => Answer!Init
  BY DEF ServiceInit, ServiceStarts, ServiceParts

\* And it moves as that part does, or not at all.
LEMMA Moves ==
    [ServiceNext]_serviceVars =>
        /\ part' = part
        /\ part = "collection" => Collection!Next \/ UNCHANGED collectionVars
        /\ part = "process" => Process!Next \/ UNCHANGED processVars
        /\ part = "fleet" => FleetOf!Next \/ UNCHANGED fleetVars
        /\ part = "limits" => Limits!Next \/ UNCHANGED limitsVars
        /\ part = "api" => Api!Next \/ UNCHANGED apiVars
        /\ part = "signin" => Tab!Next \/ UNCHANGED signinVars
        /\ part = "audit" => Trail!Next \/ UNCHANGED auditVars
        /\ part = "upload" => Upload!Next \/ UNCHANGED uploadVars
        /\ part = "filter" => Filter!Next \/ UNCHANGED filterVars
        /\ part = "documents" => Documents!Next \/ UNCHANGED documentsVars
        /\ part = "sheet" => Sheet!Next \/ UNCHANGED sheetVars
        /\ part = "identity" => Hub!DeclareOne \/ UNCHANGED identityVars
        /\ part = "authority" => Authority!Next \/ UNCHANGED authorityVars
        /\ part = "connector" => Connector!Next \/ UNCHANGED connectorVars
        /\ part = "conversation" => Chat!Next \/ UNCHANGED conversationVars
        /\ part = "alone" => ChatAlone!Next \/ UNCHANGED conversationVars
        /\ part = "answer" => Answer!Next \/ UNCHANGED answerVars
  BY DEF ServiceNext, serviceVars, ServiceRests, CollectionStep, ProcessStep,
         FleetOfStep, LimitsStep, ApiStep, TabStep, InsistingTabStep, TrailStep, UploadStep,
         ImpatientUploadStep, FilterStep, DocumentsStep, SheetStep, HubStep, AuthorityStep, ConnectorStep, ChatStep,
         ChatAloneStep, AnswerStep

-----------------------------------------------------------------------------
(* Connectors                                                              *)

LEMMA ConnectorKept == ASSUME NEW s, NEW at PROVE Connector!Kept(s, at) = Kept(s, at)
<1>0. \A S : Connector!Cardinality(S) = Cardinality(S)
  BY DEF Connector!Cardinality, Cardinality
<1>1. \A i : Connector!Nth(at, i) = Nth(at, i)
  BY <1>0 DEF Connector!Nth, Nth
<1>2. QED
  BY <1>0, <1>1 DEF Connector!Kept, Kept

\* What a sync reads is some of the source's records.
LEMMA SyncReads ==
    ASSUME Connector!HandedIsDelivered, NEW since, NEW limit \in Nat
    PROVE  /\ Connector!Bounded(since, limit) \in Seq(Connector!Records)
           /\ \A i \in DOMAIN Connector!Bounded(since, limit) :
                 \E n \in DOMAIN connector_records :
                    Connector!Bounded(since, limit)[i] = connector_records[n]
<1> DEFINE all == Connector!Candidates(since)
           upTo == IF limit < Len(all) THEN limit ELSE Len(all)
           newer == {n \in DOMAIN connector_records :
                        connector_records[n].date # Null /\ connector_records[n].date > since}
<1>1. connector_records \in Seq(Connector!Records)
  BY DEF Connector!HandedIsDelivered
<1>2. /\ all \in Seq(Connector!Records)
      /\ \A i \in DOMAIN all : \E n \in DOMAIN connector_records : all[i] = connector_records[n]
  <2>1. CASE since = Connector!None
    BY <2>1, <1>1 DEF Connector!Candidates
  <2>2. CASE since # Connector!None
    <3>1. all = Kept(connector_records, newer)
      BY <2>2, ConnectorKept DEF Connector!Candidates, Connector!Newer
    <3>2. newer \subseteq DOMAIN connector_records
      OBVIOUS
    <3> HIDE DEF newer, all
    <3>3. QED
      BY <3>1, <3>2, <1>1, KeptIs
  <2>3. QED
    BY <2>1, <2>2
<1>3. Connector!Bounded(since, limit) = SubSeq(all, 1, upTo)
  BY DEF Connector!Bounded
<1> HIDE DEF all
<1>4. upTo \in 0..Len(all)
  BY <1>2
<1> HIDE DEF upTo
<1>5. /\ SubSeq(all, 1, upTo) \in Seq(Connector!Records)
      /\ DOMAIN SubSeq(all, 1, upTo) = 1..upTo
      /\ \A i \in 1..upTo : SubSeq(all, 1, upTo)[i] = all[i]
  BY <1>2, <1>4
<1>6. QED
  BY <1>2, <1>3, <1>4, <1>5

\* What is fresh of it are keys not delivered before, each once.
LEMMA FreshIsNew ==
    ASSUME NEW read \in Seq(Connector!Records)
    PROVE  /\ Connector!Fresh(read) \in Seq(Connector!Records)
           /\ \A i \in DOMAIN Connector!Fresh(read) :
                 /\ Connector!Key(Connector!Fresh(read)[i]) \notin connector_delivered
                 /\ \E n \in DOMAIN read : Connector!Fresh(read)[i] = read[n]
           /\ \A i, j \in DOMAIN Connector!Fresh(read) : i # j =>
                 Connector!Key(Connector!Fresh(read)[i]) # Connector!Key(Connector!Fresh(read)[j])
<1> DEFINE at == {n \in DOMAIN read :
                     /\ Connector!Key(read[n]) \notin connector_delivered
                     /\ \A m \in 1..n - 1 : Connector!Key(read[m]) # Connector!Key(read[n])}
<1>1. Connector!Fresh(read) = Kept(read, at)
  BY ConnectorKept DEF Connector!Fresh
<1>2. at \subseteq DOMAIN read
  OBVIOUS
<1>3. \A n \in at : Connector!Key(read[n]) \notin connector_delivered
  OBVIOUS
<1>4. \A m, n \in at : m < n => Connector!Key(read[m]) # Connector!Key(read[n])
  <2>1. DOMAIN read = 1..Len(read) /\ Len(read) \in Nat
    OBVIOUS
  <2>2. \A m, n \in DOMAIN read : m < n => m \in 1..n - 1
    BY <2>1
  <2>3. QED
    BY <2>2
<1> HIDE DEF at
<1>5. /\ Kept(read, at) \in Seq(Connector!Records)
      /\ \A i \in DOMAIN Kept(read, at) : \E n \in at : Kept(read, at)[i] = read[n]
      /\ \A i, j \in DOMAIN Kept(read, at) : i < j =>
            \E m, n \in at : m < n /\ Kept(read, at)[i] = read[m] /\ Kept(read, at)[j] = read[n]
  BY <1>2, KeptIs
<1>6. \A i, j \in DOMAIN Kept(read, at) : i < j \/ j < i \/ i = j
  <2>1. DOMAIN Kept(read, at) \subseteq Nat
    BY <1>5
  <2>2. QED
    BY <2>1
<1>7. \A i, j \in DOMAIN Kept(read, at) : i < j =>
        Connector!Key(Kept(read, at)[i]) # Connector!Key(Kept(read, at)[j])
  BY <1>4, <1>5
<1>8. QED
  BY <1>1, <1>2, <1>3, <1>5, <1>6, <1>7

LEMMA ConnectorMoves ==
    ASSUME Connector!SyncInv, Connector!Next \/ UNCHANGED connectorVars
    PROVE  Connector!SyncInv'
<1> USE DEF Connector!SyncInv
<1>1. CASE UNCHANGED connectorVars
  BY <1>1 DEF connectorVars, Connector!HandedIsDelivered, Connector!HandedOnce
<1>2. CASE Connector!SchemaChange
  BY <1>2 DEF Connector!SchemaChange, Connector!HandedIsDelivered, Connector!HandedOnce
<1>3. ASSUME NEW since \in {Connector!None, connector_watermark},
             NEW limit \in 0..ConnectorMaxRecords, Connector!Sync(since, limit)
      PROVE  Connector!SyncInv'
  <2> DEFINE read == Connector!Bounded(since, limit)
             fresh == Connector!Fresh(read)
  <2>1. limit \in Nat
    BY ConstantsAreTheirs DEF Connector!SyncAssumption
  <2>2. /\ read \in Seq(Connector!Records)
        /\ \A i \in DOMAIN read : \E n \in DOMAIN connector_records :
              read[i] = connector_records[n]
    BY <2>1, SyncReads
  <2>3. /\ connector_records' = connector_records
        /\ connector_delivered' = connector_delivered \cup {Connector!Key(r) : r \in Connector!Range(fresh)}
        /\ connector_handed' = IF connector_drifted THEN connector_handed
                                ELSE connector_handed \o fresh
    BY <1>3 DEF Connector!Sync
  <2> HIDE DEF read
  <2>4. /\ fresh \in Seq(Connector!Records)
        /\ \A i \in DOMAIN fresh :
              /\ Connector!Key(fresh[i]) \notin connector_delivered
              /\ \E n \in DOMAIN read : fresh[i] = read[n]
        /\ \A i, j \in DOMAIN fresh : i # j => Connector!Key(fresh[i]) # Connector!Key(fresh[j])
    BY <2>2, FreshIsNew
  <2> HIDE DEF fresh
  <2>5. \A i \in DOMAIN fresh : Connector!Key(fresh[i]) \in connector_delivered'
    BY <2>3 DEF Connector!Range
  <2>6. CASE connector_drifted
    BY <2>6, <2>3 DEF Connector!HandedIsDelivered, Connector!HandedOnce
  <2>7. CASE ~connector_drifted
    <3>1. connector_handed \in Seq(Connector!Records)
      BY DEF Connector!HandedIsDelivered
    <3>2. connector_handed' = connector_handed \o fresh
      BY <2>7, <2>3
    <3>3. /\ connector_handed' \in Seq(Connector!Records)
          /\ \A i \in DOMAIN connector_handed' :
                \/ i \in DOMAIN connector_handed /\ connector_handed'[i] = connector_handed[i]
                \/ /\ i - Len(connector_handed) \in DOMAIN fresh
                   /\ i \notin DOMAIN connector_handed
                   /\ connector_handed'[i] = fresh[i - Len(connector_handed)]
      BY <3>1, <3>2, <2>4
    <3>4. /\ connector_records' \in Seq(Connector!Records)
          /\ Len(connector_records') <= ConnectorMaxRecords
      BY <2>3 DEF Connector!HandedIsDelivered
    <3>5. \A i \in DOMAIN connector_handed :
            /\ Connector!Key(connector_handed[i]) \in connector_delivered
            /\ \E n \in DOMAIN connector_records : connector_handed[i] = connector_records[n]
      BY DEF Connector!HandedIsDelivered
    <3>6. ASSUME NEW i \in DOMAIN connector_handed'
          PROVE  /\ Connector!Key(connector_handed'[i]) \in connector_delivered'
                 /\ \E n \in DOMAIN connector_records' :
                       connector_handed'[i] = connector_records'[n]
      BY <3>3, <3>5, <2>2, <2>3, <2>4, <2>5
    <3>7. Connector!HandedIsDelivered'
      BY <3>3, <3>4, <3>6 DEF Connector!HandedIsDelivered
    <3>8. ASSUME NEW i \in DOMAIN connector_handed', NEW j \in DOMAIN connector_handed', i # j
          PROVE  Connector!Key(connector_handed'[i]) # Connector!Key(connector_handed'[j])
      <4>1. i \in Int /\ j \in Int /\ Len(connector_handed) \in Int
        BY <3>1, <3>3
      <4>2. i - Len(connector_handed) # j - Len(connector_handed)
        BY <4>1, <3>8
      <4>3. CASE i \in DOMAIN connector_handed /\ j \in DOMAIN connector_handed
        BY <4>3, <3>3, <3>8 DEF Connector!HandedOnce
      <4>4. CASE i \notin DOMAIN connector_handed /\ j \notin DOMAIN connector_handed
        BY <4>4, <4>2, <3>3, <2>4
      <4>5. QED
        BY <4>3, <4>4, <3>3, <3>5, <2>4
    <3>9. QED
      BY <3>7, <3>8 DEF Connector!HandedOnce
  <2>8. QED
    BY <2>6, <2>7
<1>4. QED
  BY <1>1, <1>2, <1>3 DEF Connector!Next

LEMMA ConnectorBegins == Connector!Init => Connector!SyncInv
<1>1. ASSUME Connector!Init
      PROVE  connector_records \in Seq(Connector!Records)
             /\ Len(connector_records) <= ConnectorMaxRecords
  <2>1. PICK n \in 0..ConnectorMaxRecords : connector_records \in [1..n -> Connector!Records]
    BY <1>1 DEF Connector!Init
  <2>2. n \in Nat /\ n <= ConnectorMaxRecords
    BY ConstantsAreTheirs DEF Connector!SyncAssumption
  <2>3. QED
    BY <2>1, <2>2
<1>2. QED
  BY <1>1 DEF Connector!Init, Connector!SyncInv, Connector!HandedIsDelivered, Connector!HandedOnce

\* However full and incremental syncs and schema changes follow each other, no record
\* is handed over twice (fixture-connector.ts).
THEOREM NothingIsHandedTwice == ServiceSpec => []HandedOnce
<1> DEFINE Inv == part = "connector" => Connector!SyncInv
<1>1. ServiceInit => Inv
  BY Starts, ConnectorBegins
<1>2. Inv /\ [ServiceNext]_serviceVars => Inv'
  BY Moves, ConnectorMoves
<1>3. Inv => HandedOnce
  BY DEF HandedOnce, Connector!SyncInv
<1>4. QED
  BY <1>1, <1>2, <1>3, PTL DEF ServiceSpec
-----------------------------------------------------------------------------
(* Limits                                                                  *)

\* The numbers the limits are given, and that there is one window at least.
LEMMA LimitsNumbers ==
    /\ LimitsWindow \in Nat /\ LimitsWindow > 0 /\ LimitsMaxCalls \in Nat /\ LimitsMaxCalls > 0
    /\ LimitsMaxUploads \in Nat /\ LimitsMaxUploads > 0
    /\ LimitsMaxReads \in Nat /\ LimitsMaxReads > 0
    /\ LimitsPersonaOf \in [LimitsCallers -> LimitsPersonas]
  BY ConstantsAreTheirs DEF Limits!LimitsAssumption

\* In a list that is in order, those that come of age are its first.
LEMMA FirstLeave ==
    ASSUME NEW ages \in Seq(Limits!Ages),
           \A i, j \in DOMAIN ages : i <= j => ages[i] >= ages[j]
    PROVE  /\ Limits!Leaving(ages) \in 0..Len(ages)
           /\ \A n \in DOMAIN ages :
                 n <= Limits!Leaving(ages) <=> Limits!Older(ages[n]) = LimitsWindow
<1> DEFINE young(n) == Limits!Older(ages[n]) # LimitsWindow
           S == {d \in 0..Len(ages) : \A n \in DOMAIN ages : n > d => young(n)}
<1>1. Len(ages) \in Nat /\ DOMAIN ages = 1..Len(ages)
  OBVIOUS
<1>2. \A n \in DOMAIN ages : ages[n] \in 0..LimitsWindow - 1 /\ ages[n] \in Nat
  <2>1. \A n \in DOMAIN ages : ages[n] \in Limits!Ages
    OBVIOUS
  <2>2. QED
    BY <2>1, LimitsNumbers DEF Limits!Ages
<1>3. \A i, j \in DOMAIN ages : i <= j /\ young(i) => young(j)
  BY <1>2, LimitsNumbers DEF Limits!Older
<1> HIDE DEF young
<1>4. S \subseteq Nat /\ Len(ages) \in S
  BY <1>1
<1>5. PICK d \in S : \A e \in S : d <= e
  BY <1>4, Least
<1>6. ASSUME NEW n \in DOMAIN ages, n <= d
      PROVE  ~young(n)
  <2>1. d \in Nat /\ n \in Nat /\ d - 1 \in 0..Len(ages)
    BY <1>1, <1>6
  <2>2. d - 1 \notin S
    BY <1>5, <2>1
  <2>3. PICK m \in DOMAIN ages : m > d - 1 /\ ~young(m)
    BY <2>1, <2>2
  <2>4. ~(m > d)
    BY <2>3, <1>5
  <2>5. n <= m
    BY <2>1, <2>3, <2>4, <1>1, <1>6
  <2>6. QED
    BY <2>3, <2>5, <1>3
<1>7. \A n \in DOMAIN ages : n <= d <=> Limits!Older(ages[n]) = LimitsWindow
  <2>1. \A n \in DOMAIN ages : n <= d \/ n > d
    BY <1>1, <1>4
  <2>2. QED
    BY <2>1, <1>5, <1>6 DEF young
<1>8. d \in 0..Len(ages)
  BY <1>5
<1>9. QED
  BY <1>7, <1>8 DEF Limits!Leaving

\* A tick later a list still follows its window.
LEMMA AgingFollows ==
    ASSUME NEW ages, NEW max \in Nat,
           NEW window \in [age : 0..LimitsWindow, count : 0..max],
           Limits!Follows(ages, window, max)
    PROVE  Limits!Follows(Limits!Lately(ages), [window EXCEPT !.age = Limits!Older(@)], max)
<1> DEFINE d == Limits!Leaving(ages)
           later == Limits!Lately(ages)
           older == [window EXCEPT !.age = Limits!Older(@)]
<1>1. /\ ages \in Seq(Limits!Ages)
      /\ \A i, j \in DOMAIN ages : i <= j => ages[i] >= ages[j]
  BY DEF Limits!Follows
<1>2. PICK k \in 0..Len(ages) :
        /\ k <= max /\ Len(ages) - k <= window.count
        /\ window.age < LimitsWindow => Len(ages) - k = window.count
        /\ \A n \in DOMAIN ages : IF n <= k THEN ages[n] >= window.age ELSE ages[n] <= window.age
  BY DEF Limits!Follows
<1>3. d \in 0..Len(ages) /\ \A n \in DOMAIN ages : n <= d <=> Limits!Older(ages[n]) = LimitsWindow
  BY <1>1, FirstLeave
<1>4. later = [n \in 1..Len(ages) - d |-> Limits!Older(ages[n + d])]
  BY DEF Limits!Lately
<1>5. older.count = window.count /\ older.age = Limits!Older(window.age)
  OBVIOUS
<1> HIDE DEF d, later, older
<1>6. /\ Len(ages) \in Nat /\ DOMAIN ages = 1..Len(ages) /\ d \in Nat /\ k \in Nat
      /\ window.age \in 0..LimitsWindow /\ window.count \in 0..max
      /\ \A n \in DOMAIN ages : ages[n] \in 0..LimitsWindow - 1
  <2>1. window.age \in 0..LimitsWindow /\ window.count \in 0..max
    OBVIOUS
  <2>2. Len(ages) \in Nat /\ DOMAIN ages = 1..Len(ages)
    BY <1>1
  <2>3. \A n \in DOMAIN ages : ages[n] \in Limits!Ages
    BY <1>1
  <2>4. QED
    BY <2>1, <2>2, <2>3, <1>3 DEF Limits!Ages
<1>7. \A n \in 1..Len(ages) - d : n + d \in DOMAIN ages /\ n + d > d
  BY <1>6, <1>3
<1>8. \A n \in 1..Len(ages) - d : later[n] = ages[n + d] + 1 /\ later[n] \in 0..LimitsWindow - 1
  <2> SUFFICES ASSUME NEW n \in 1..Len(ages) - d
               PROVE  later[n] = ages[n + d] + 1 /\ later[n] \in 0..LimitsWindow - 1
    OBVIOUS
  <2>1. n + d \in DOMAIN ages /\ ~(n + d <= d)
    BY <1>7, <1>6
  <2>2. Limits!Older(ages[n + d]) # LimitsWindow /\ later[n] = Limits!Older(ages[n + d])
    BY <2>1, <1>3, <1>4
  <2>3. QED
    BY <2>1, <2>2, <1>6, LimitsNumbers DEF Limits!Older
<1>9. later \in Seq(Limits!Ages) /\ Len(later) = Len(ages) - d /\ DOMAIN later = 1..Len(ages) - d
  <2>1. Len(ages) - d \in Nat
    BY <1>3, <1>6
  <2>2. later \in [1..Len(ages) - d -> Limits!Ages]
    BY <1>4, <1>8 DEF Limits!Ages
  <2>3. QED
    BY <2>1, <2>2
<1>10. ASSUME NEW i \in DOMAIN later, NEW j \in DOMAIN later, i <= j
       PROVE  later[i] >= later[j]
  <2>1. i + d \in DOMAIN ages /\ j + d \in DOMAIN ages /\ i + d <= j + d
    BY <1>7, <1>9, <1>10, <1>6
  <2>2. ages[i + d] >= ages[j + d]
    BY <2>1, <1>1
  <2>3. QED
    <3>1. later[i] = ages[i + d] + 1 /\ later[j] = ages[j + d] + 1
      BY <1>8, <1>9
    <3>2. ages[i + d] \in 0..LimitsWindow - 1 /\ ages[j + d] \in 0..LimitsWindow - 1
      BY <2>1, <1>6
    <3>3. QED
      BY <3>1, <3>2, <2>2, LimitsNumbers
<1>11. ASSUME d <= k
       PROVE  Limits!Follows(later, older, max)
  <2>1. k - d \in 0..Len(later) /\ k - d <= max /\ Len(later) - (k - d) = Len(ages) - k
    BY <1>11, <1>9, <1>6, <1>2
  <2>2. older.age < LimitsWindow => window.age < LimitsWindow /\ older.age = window.age + 1
    BY <1>5, <1>6, LimitsNumbers DEF Limits!Older
  <2>3. ASSUME NEW n \in DOMAIN later
        PROVE  IF n <= k - d THEN later[n] >= older.age ELSE later[n] <= older.age
    <3>1. n + d \in DOMAIN ages /\ n \in Nat /\ (n <= k - d <=> n + d <= k)
      BY <1>7, <1>9, <1>6
    <3>2. later[n] = ages[n + d] + 1 /\ later[n] \in 0..LimitsWindow - 1
      BY <1>8, <1>9
    <3>3. IF n + d <= k THEN ages[n + d] >= window.age ELSE ages[n + d] <= window.age
      BY <3>1, <1>2
    <3>4. QED
      BY <3>1, <3>2, <3>3, <1>5, <1>6, LimitsNumbers DEF Limits!Older
  <2>4. QED
    BY <2>1, <2>2, <2>3, <1>2, <1>5, <1>9, <1>10 DEF Limits!Follows
<1>12. ASSUME ~(d <= k)
       PROVE  Limits!Follows(later, older, max)
  <2>1. k + 1 \in DOMAIN ages /\ k + 1 <= d /\ ~(k + 1 <= k)
    BY <1>12, <1>6, <1>3
  <2>2. ages[k + 1] <= window.age /\ Limits!Older(ages[k + 1]) = LimitsWindow
    BY <2>1, <1>2, <1>3
  <2>3. ~(older.age < LimitsWindow) /\ older.age = LimitsWindow
    BY <2>1, <2>2, <1>5, <1>6, LimitsNumbers DEF Limits!Older
  <2>4. 0 \in 0..Len(later) /\ 0 <= max /\ Len(later) - 0 <= older.count
    BY <1>12, <1>2, <1>3, <1>5, <1>6, <1>9
  <2>5. \A n \in DOMAIN later : ~(n <= 0) /\ later[n] <= older.age
    BY <1>8, <1>9, <2>3, LimitsNumbers
  <2>6. QED
    BY <2>3, <2>4, <2>5, <1>9, <1>10 DEF Limits!Follows
<1>13. QED
  BY <1>11, <1>12 DEF older, later

\* A call that is let through is counted and listed, in its window.
LEMMA AllowedFollows ==
    ASSUME NEW ages, NEW max \in Nat, max > 0,
           NEW window \in [age : 0..LimitsWindow, count : 0..max],
           Limits!Follows(ages, window, max)
    PROVE  /\ Limits!Allow(window, max).entry \in [age : 0..LimitsWindow, count : 0..max]
           /\ Limits!Allow(window, max).verdict =>
                 Limits!Follows(Append(ages, 0), Limits!Allow(window, max).entry, max)
           /\ ~Limits!Allow(window, max).verdict =>
                 /\ Limits!Allow(window, max).entry = window
                 /\ Len(ages) >= max
<1> DEFINE entry == Limits!Allow(window, max).entry
           longer == Append(ages, 0)
<1>1. /\ ages \in Seq(Limits!Ages)
      /\ \A i, j \in DOMAIN ages : i <= j => ages[i] >= ages[j]
  BY DEF Limits!Follows
<1>2. PICK k \in 0..Len(ages) :
        /\ k <= max /\ Len(ages) - k <= window.count
        /\ window.age < LimitsWindow => Len(ages) - k = window.count
        /\ \A n \in DOMAIN ages : IF n <= k THEN ages[n] >= window.age ELSE ages[n] <= window.age
  BY DEF Limits!Follows
<1>3. /\ Len(ages) \in Nat /\ DOMAIN ages = 1..Len(ages) /\ k \in Nat
      /\ window.age \in 0..LimitsWindow /\ window.count \in 0..max
      /\ \A n \in DOMAIN ages : ages[n] \in 0..LimitsWindow - 1
  <2>1. window.age \in 0..LimitsWindow /\ window.count \in 0..max
    OBVIOUS
  <2>2. Len(ages) \in Nat /\ DOMAIN ages = 1..Len(ages)
    BY <1>1
  <2>3. \A n \in DOMAIN ages : ages[n] \in Limits!Ages
    BY <1>1
  <2>4. QED
    BY <2>1, <2>2, <2>3 DEF Limits!Ages
<1>4. /\ longer \in Seq(Limits!Ages) /\ Len(longer) = Len(ages) + 1
      /\ DOMAIN longer = 1..Len(ages) + 1 /\ longer[Len(ages) + 1] = 0
      /\ \A n \in DOMAIN ages : longer[n] = ages[n]
  <2>1. 0 \in Limits!Ages
    BY LimitsNumbers DEF Limits!Ages
  <2>2. QED
    BY <2>1, <1>1
<1> HIDE DEF longer
<1>5. \A n \in DOMAIN longer : (n \in DOMAIN ages \/ n = Len(ages) + 1) /\ longer[n] >= 0
  BY <1>3, <1>4, LimitsNumbers
<1>6. \A i, j \in DOMAIN longer : i <= j => longer[i] >= longer[j]
  <2> SUFFICES ASSUME NEW i \in DOMAIN longer, NEW j \in DOMAIN longer, i <= j
               PROVE  longer[i] >= longer[j]
    OBVIOUS
  <2>1. CASE j = Len(ages) + 1
    BY <2>1, <1>4, <1>5
  <2>2. CASE j \in DOMAIN ages
    <3>1. i \in DOMAIN ages
      BY <2>2, <1>3, <1>4
    <3>2. QED
      BY <3>1, <2>2, <1>1, <1>4
  <2>3. QED
    BY <2>1, <2>2, <1>5
<1>7. CASE window.age >= LimitsWindow
  <2>1. Limits!Allow(window, max) = [verdict |-> TRUE, entry |-> [age |-> 0, count |-> 1]]
    BY <1>7 DEF Limits!Allow
  <2>2. ASSUME NEW n \in DOMAIN ages, n <= k
        PROVE  FALSE
    BY <2>2, <1>2, <1>3, <1>7, LimitsNumbers
  <2>3. k = 0
    <3>1. 1 \notin DOMAIN ages \/ ~(1 <= k)
      BY <2>2
    <3>2. QED
      BY <3>1, <1>3, <1>2
  <2>4. Len(ages) \in 0..Len(longer) /\ Len(ages) <= max /\ Len(longer) - Len(ages) = 1
    BY <2>3, <1>2, <1>3, <1>4
  <2>5. \A n \in DOMAIN longer : IF n <= Len(ages) THEN longer[n] >= 0 ELSE longer[n] <= 0
    BY <1>3, <1>4, <1>5
  <2>6. Limits!Follows(longer, [age |-> 0, count |-> 1], max)
    BY <2>4, <2>5, <1>4, <1>6 DEF Limits!Follows
  <2>7. [age |-> 0, count |-> 1] \in [age : 0..LimitsWindow, count : 0..max]
    BY LimitsNumbers
  <2>8. QED
    BY <2>1, <2>6, <2>7 DEF longer
<1>8. CASE window.age < LimitsWindow /\ window.count >= max
  <2>1. Limits!Allow(window, max) = [verdict |-> FALSE, entry |-> window]
    BY <1>8, <1>3, LimitsNumbers DEF Limits!Allow
  <2>2. Len(ages) >= max
    BY <1>8, <1>2, <1>3
  <2>3. QED
    BY <2>1, <2>2
<1>9. CASE window.age < LimitsWindow /\ window.count < max
  <2> DEFINE more == [window EXCEPT !.count = @ + 1]
  <2>1. Limits!Allow(window, max) = [verdict |-> TRUE, entry |-> more]
    BY <1>9, <1>3, LimitsNumbers DEF Limits!Allow
  <2>2. /\ more \in [age : 0..LimitsWindow, count : 0..max]
        /\ more.age = window.age /\ more.count = window.count + 1
    BY <1>9, <1>3
  <2> HIDE DEF more
  <2>3. k \in 0..Len(longer) /\ Len(longer) - k = more.count
    BY <2>2, <1>2, <1>3, <1>4, <1>9
  <2>4. \A n \in DOMAIN longer :
          IF n <= k THEN longer[n] >= more.age ELSE longer[n] <= more.age
    BY <2>2, <1>2, <1>3, <1>4, <1>5
  <2>5. Len(longer) - k <= more.count /\ k <= max
    BY <2>3, <2>2, <1>2, <1>3
  <2>6. Limits!Follows(longer, more, max)
    BY <2>3, <2>4, <2>5, <1>4, <1>6 DEF Limits!Follows
  <2>7. QED
    BY <2>1, <2>2, <2>6 DEF longer
<1>10. QED
  BY <1>7, <1>8, <1>9, <1>3, LimitsNumbers
LEMMA LimitsMoves ==
    ASSUME Limits!LimitsInv, Limits!Next \/ UNCHANGED limitsVars
    PROVE  Limits!LimitsInv'
<1> USE DEF Limits!LimitsInv
<1>1. /\ limits_hits \in [LimitsCallers -> [age : 0..LimitsWindow, count : 0..LimitsMaxCalls]]
      /\ limits_uploads \in [LimitsCallers -> [age : 0..LimitsWindow, count : 0..LimitsMaxUploads]]
      /\ limits_recent \in [LimitsCallers -> Seq(Limits!Ages)]
      /\ limits_admitted \in [LimitsCallers -> Seq(Limits!Ages)]
      /\ limits_reads \in [LimitsPersonas -> 0..LimitsMaxReads]
      /\ limits_outcome \in [LimitsCallers -> Limits!Outcomes]
  BY DEF Limits!TypeOK
<1>2. \A c \in LimitsCallers :
        /\ Limits!Follows(limits_recent[c], limits_hits[c], LimitsMaxCalls)
        /\ Limits!Follows(limits_admitted[c], limits_uploads[c], LimitsMaxUploads)
        /\ c \notin LimitsWithCode => limits_admitted[c] = <<>>
  BY DEF Limits!ListsFollow
<1>3. /\ LimitsMaxCalls \in Nat /\ LimitsMaxCalls > 0
      /\ LimitsMaxUploads \in Nat /\ LimitsMaxUploads > 0
  BY LimitsNumbers
<1>q. ASSUME /\ limits_hits' \in [LimitsCallers -> [age : 0..LimitsWindow, count : 0..LimitsMaxCalls]]
             /\ limits_uploads' \in [LimitsCallers -> [age : 0..LimitsWindow, count : 0..LimitsMaxUploads]]
             /\ limits_recent' \in [LimitsCallers -> Seq(Limits!Ages)]
             /\ limits_admitted' \in [LimitsCallers -> Seq(Limits!Ages)]
             /\ limits_reads' \in [LimitsPersonas -> 0..LimitsMaxReads]
             /\ limits_outcome' \in [LimitsCallers -> Limits!Outcomes],
             \A c \in LimitsCallers :
                /\ Limits!Follows(limits_recent'[c], limits_hits'[c], LimitsMaxCalls)
                /\ Limits!Follows(limits_admitted'[c], limits_uploads'[c], LimitsMaxUploads)
                /\ c \notin LimitsWithCode => limits_admitted'[c] = <<>>
      PROVE  Limits!LimitsInv'
  <2>2. Limits!TypeOK'
    BY <1>q DEF Limits!TypeOK
  <2>3. Limits!ListsFollow'
    BY <1>q DEF Limits!ListsFollow
  <2>4. QED
    BY <2>2, <2>3
<1>4. CASE UNCHANGED limitsVars
  BY <1>4, <1>1, <1>2, <1>q DEF limitsVars
<1>5. CASE Limits!Tick
  <2>1. /\ limits_hits' = [c \in LimitsCallers |->
                             [limits_hits[c] EXCEPT !.age = Limits!Older(@)]]
        /\ limits_uploads' = [c \in LimitsCallers |->
                                [limits_uploads[c] EXCEPT !.age = Limits!Older(@)]]
        /\ limits_recent' = [c \in LimitsCallers |-> Limits!Lately(limits_recent[c])]
        /\ limits_admitted' = [c \in LimitsCallers |-> Limits!Lately(limits_admitted[c])]
        /\ limits_reads' = limits_reads /\ limits_outcome' = limits_outcome
    BY <1>5 DEF Limits!Tick, Limits!Aged
  <2>2. \A age \in 0..LimitsWindow : Limits!Older(age) \in 0..LimitsWindow
    BY LimitsNumbers DEF Limits!Older
  <2>3. /\ limits_hits' \in [LimitsCallers -> [age : 0..LimitsWindow, count : 0..LimitsMaxCalls]]
        /\ limits_uploads' \in [LimitsCallers -> [age : 0..LimitsWindow, count : 0..LimitsMaxUploads]]
    BY <2>1, <2>2, <1>1
  <2>4. Limits!Lately(<<>>) = <<>>
    <3>1. Limits!Leaving(<<>>) = 0
      <4>1. \A i, j \in DOMAIN <<>> : i <= j => <<>>[i] >= <<>>[j]
        OBVIOUS
      <4>2. <<>> \in Seq(Limits!Ages) /\ Len(<<>>) = 0
        OBVIOUS
      <4>3. Limits!Leaving(<<>>) \in 0..0
        BY <4>1, <4>2, FirstLeave
      <4>4. QED
        BY <4>3
    <3>2. QED
      BY <3>1 DEF Limits!Lately
  <2>5. ASSUME NEW c \in LimitsCallers
        PROVE  /\ Limits!Follows(limits_recent'[c], limits_hits'[c], LimitsMaxCalls)
               /\ Limits!Follows(limits_admitted'[c], limits_uploads'[c], LimitsMaxUploads)
               /\ c \notin LimitsWithCode => limits_admitted'[c] = <<>>
    <3>1. Limits!Follows(Limits!Lately(limits_recent[c]),
                         [limits_hits[c] EXCEPT !.age = Limits!Older(@)], LimitsMaxCalls)
      <4>1. limits_hits[c] \in [age : 0..LimitsWindow, count : 0..LimitsMaxCalls]
        BY <1>1
      <4>2. QED
        BY <4>1, <1>2, <1>3, AgingFollows
    <3>2. Limits!Follows(Limits!Lately(limits_admitted[c]),
                         [limits_uploads[c] EXCEPT !.age = Limits!Older(@)], LimitsMaxUploads)
      <4>1. limits_uploads[c] \in [age : 0..LimitsWindow, count : 0..LimitsMaxUploads]
        BY <1>1
      <4>2. QED
        BY <4>1, <1>2, <1>3, AgingFollows
    <3>3. QED
      BY <3>1, <3>2, <2>1, <2>4, <1>2
  <2>6. /\ limits_recent' \in [LimitsCallers -> Seq(Limits!Ages)]
        /\ limits_admitted' \in [LimitsCallers -> Seq(Limits!Ages)]
    BY <2>1, <2>5 DEF Limits!Follows
  <2>7. QED
    BY <2>1, <2>3, <2>5, <2>6, <1>1, <1>q
<1>6. ASSUME NEW c \in LimitsCallers, Limits!Ask(c)
      PROVE  Limits!LimitsInv'
  <2> DEFINE a == Limits!Allow(limits_hits[c], LimitsMaxCalls)
  <2>1. /\ limits_hits' = [limits_hits EXCEPT ![c] = a.entry]
        /\ limits_uploads' = limits_uploads /\ limits_admitted' = limits_admitted
        /\ ~a.verdict => limits_recent' = limits_recent
        /\ a.verdict => limits_recent' = [limits_recent EXCEPT ![c] = Append(@, 0)]
    BY <1>6 DEF Limits!Ask
  <2>2. LimitsPersonaOf[c] \in LimitsPersonas /\ LimitsMaxReads \in Nat
    BY LimitsNumbers
  <2>3. /\ limits_reads' \in [LimitsPersonas -> 0..LimitsMaxReads]
        /\ limits_outcome' \in [LimitsCallers -> Limits!Outcomes]
    <3>1. CASE ~a.verdict
      BY <3>1, <1>6, <1>1 DEF Limits!Ask, Limits!Outcomes
    <3>2. CASE a.verdict /\ limits_reads[LimitsPersonaOf[c]] < LimitsMaxReads
      <4>1. /\ limits_reads' = [limits_reads EXCEPT ![LimitsPersonaOf[c]] = @ + 1]
            /\ limits_outcome' = [limits_outcome EXCEPT ![c] = "served"]
        BY <3>2, <1>6 DEF Limits!Ask
      <4>2. limits_reads[LimitsPersonaOf[c]] + 1 \in 0..LimitsMaxReads
        BY <3>2, <2>2, <1>1
      <4>3. QED
        BY <4>1, <4>2, <2>2, <1>1 DEF Limits!Outcomes
    <3>3. CASE a.verdict /\ ~(limits_reads[LimitsPersonaOf[c]] < LimitsMaxReads)
      BY <3>3, <1>6, <1>1 DEF Limits!Ask, Limits!Outcomes
    <3>4. QED
      BY <3>1, <3>2, <3>3
  <2>4. limits_hits[c] \in [age : 0..LimitsWindow, count : 0..LimitsMaxCalls]
    BY <1>1
  <2>5. /\ a.entry \in [age : 0..LimitsWindow, count : 0..LimitsMaxCalls]
        /\ a.verdict => Limits!Follows(Append(limits_recent[c], 0), a.entry, LimitsMaxCalls)
        /\ ~a.verdict => a.entry = limits_hits[c]
    BY <2>4, <1>2, <1>3, AllowedFollows
  <2> HIDE DEF a
  <2>6. limits_hits' \in [LimitsCallers -> [age : 0..LimitsWindow, count : 0..LimitsMaxCalls]]
    BY <2>1, <2>5, <1>1
  <2>7. ASSUME NEW b \in LimitsCallers
        PROVE  Limits!Follows(limits_recent'[b], limits_hits'[b], LimitsMaxCalls)
    <3>1. CASE b # c
      BY <3>1, <2>1, <1>1, <1>2
    <3>2. CASE b = c /\ ~a.verdict
      BY <3>2, <2>1, <2>5, <1>1, <1>2
    <3>3. CASE b = c /\ a.verdict
      <4>1. limits_hits'[c] = a.entry
        BY <2>1, <1>1
      <4>2. limits_recent'[c] = Append(limits_recent[c], 0)
        BY <3>3, <2>1, <1>1
      <4>3. QED
        BY <4>1, <4>2, <3>3, <2>5
    <3>4. QED
      BY <3>1, <3>2, <3>3
  <2>8. limits_recent' \in [LimitsCallers -> Seq(Limits!Ages)]
    <3>1. 0 \in Limits!Ages
      BY LimitsNumbers DEF Limits!Ages
    <3>2. limits_recent[c] \in Seq(Limits!Ages)
      BY <1>1
    <3>3. Append(limits_recent[c], 0) \in Seq(Limits!Ages)
      BY <3>1, <3>2
    <3>4. CASE a.verdict
      BY <3>3, <3>4, <2>1, <1>1
    <3>5. CASE ~a.verdict
      BY <3>5, <2>1, <1>1
    <3>6. QED
      BY <3>4, <3>5
  <2>9. QED
    BY <2>1, <2>3, <2>6, <2>7, <2>8, <1>1, <1>2, <1>q
<1>7. ASSUME NEW c \in LimitsCallers, Limits!Refuse(c)
      PROVE  Limits!LimitsInv'
  <2>1. /\ limits_hits' = limits_hits /\ limits_uploads' = limits_uploads
        /\ limits_recent' = limits_recent /\ limits_admitted' = limits_admitted
        /\ limits_reads' = limits_reads
        /\ limits_outcome' \in [LimitsCallers -> Limits!Outcomes]
    BY <1>7, <1>1 DEF Limits!Refuse, Limits!Outcomes
  <2>2. QED
    BY <2>1, <1>1, <1>2, <1>q
<1>8. ASSUME NEW c \in LimitsCallers, NEW readable \in BOOLEAN, Limits!Profile(c, readable)
      PROVE  Limits!LimitsInv'
  <2> DEFINE a == Limits!Allow(limits_uploads[c], LimitsMaxUploads)
  <2>1. /\ limits_uploads' = [limits_uploads EXCEPT ![c] = a.entry]
        /\ limits_hits' = limits_hits /\ limits_recent' = limits_recent
        /\ limits_reads' = limits_reads /\ c \in LimitsWithCode
        /\ ~a.verdict => limits_admitted' = limits_admitted
        /\ a.verdict => limits_admitted' = [limits_admitted EXCEPT ![c] = Append(@, 0)]
    BY <1>8 DEF Limits!Profile
  <2>2. limits_outcome' \in [LimitsCallers -> Limits!Outcomes]
    BY <1>8, <1>1 DEF Limits!Profile, Limits!Outcomes
  <2>4. limits_uploads[c] \in [age : 0..LimitsWindow, count : 0..LimitsMaxUploads]
    BY <1>1
  <2>5. /\ a.entry \in [age : 0..LimitsWindow, count : 0..LimitsMaxUploads]
        /\ a.verdict => Limits!Follows(Append(limits_admitted[c], 0), a.entry, LimitsMaxUploads)
        /\ ~a.verdict => a.entry = limits_uploads[c]
    BY <2>4, <1>2, <1>3, AllowedFollows
  <2> HIDE DEF a
  <2>6. limits_uploads' \in [LimitsCallers -> [age : 0..LimitsWindow, count : 0..LimitsMaxUploads]]
    BY <2>1, <2>5, <1>1
  <2>7. ASSUME NEW b \in LimitsCallers
        PROVE  /\ Limits!Follows(limits_admitted'[b], limits_uploads'[b], LimitsMaxUploads)
               /\ b \notin LimitsWithCode => limits_admitted'[b] = <<>>
    <3>1. CASE b # c
      BY <3>1, <2>1, <1>1, <1>2
    <3>2. CASE b = c /\ ~a.verdict
      BY <3>2, <2>1, <2>5, <1>1, <1>2
    <3>3. CASE b = c /\ a.verdict
      <4>1. limits_uploads'[c] = a.entry
        BY <2>1, <1>1
      <4>2. limits_admitted'[c] = Append(limits_admitted[c], 0)
        BY <3>3, <2>1, <1>1
      <4>3. QED
        BY <4>1, <4>2, <3>3, <2>1, <2>5
    <3>4. QED
      BY <3>1, <3>2, <3>3
  <2>8. limits_admitted' \in [LimitsCallers -> Seq(Limits!Ages)]
    <3>1. 0 \in Limits!Ages
      BY LimitsNumbers DEF Limits!Ages
    <3>2. limits_admitted[c] \in Seq(Limits!Ages)
      BY <1>1
    <3>3. Append(limits_admitted[c], 0) \in Seq(Limits!Ages)
      BY <3>1, <3>2
    <3>4. CASE a.verdict
      BY <3>3, <3>4, <2>1, <1>1
    <3>5. CASE ~a.verdict
      BY <3>5, <2>1, <1>1
    <3>6. QED
      BY <3>4, <3>5
  <2>9. QED
    BY <2>1, <2>2, <2>6, <2>7, <2>8, <1>1, <1>2, <1>q
<1>9. QED
  BY <1>4, <1>5, <1>6, <1>7, <1>8 DEF Limits!Next

\* In any window's length a caller gets through at most twice the limit.
LEMMA BurstsFollow == Limits!LimitsInv => Limits!BurstIsBounded
<1> SUFFICES ASSUME Limits!LimitsInv, NEW c \in LimitsCallers
             PROVE  /\ Len(limits_recent[c]) <= 2 * LimitsMaxCalls
                    /\ Len(limits_admitted[c]) <= 2 * LimitsMaxUploads
                    /\ c \notin LimitsWithCode => limits_admitted[c] = <<>>
  BY DEF Limits!BurstIsBounded
<1>1. ASSUME NEW ages, NEW max \in Nat, NEW window \in [age : 0..LimitsWindow, count : 0..max],
             Limits!Follows(ages, window, max)
      PROVE  Len(ages) <= 2 * max
  <2>1. /\ window.count \in 0..max /\ Len(ages) \in Nat
        /\ \E k \in 0..Len(ages) : k <= max /\ Len(ages) - k <= window.count
    BY <1>1 DEF Limits!Follows
  <2>2. QED
    BY <2>1
<1>2. /\ limits_hits[c] \in [age : 0..LimitsWindow, count : 0..LimitsMaxCalls]
      /\ limits_uploads[c] \in [age : 0..LimitsWindow, count : 0..LimitsMaxUploads]
      /\ Limits!Follows(limits_recent[c], limits_hits[c], LimitsMaxCalls)
      /\ Limits!Follows(limits_admitted[c], limits_uploads[c], LimitsMaxUploads)
      /\ c \notin LimitsWithCode => limits_admitted[c] = <<>>
  BY DEF Limits!LimitsInv, Limits!TypeOK, Limits!ListsFollow
<1>3. QED
  BY <1>1, <1>2, LimitsNumbers

LEMMA LimitsBegin == Limits!Init => Limits!LimitsInv
<1> SUFFICES ASSUME Limits!Init
             PROVE  Limits!LimitsInv
  OBVIOUS
<1>1. ASSUME NEW max \in Nat
      PROVE  /\ Limits!Unused \in [age : 0..LimitsWindow, count : 0..max]
             /\ Limits!Follows(<<>>, Limits!Unused, max)
  <2>1. Limits!Unused.age = LimitsWindow /\ Limits!Unused.count = 0
    BY DEF Limits!Unused
  <2>2. <<>> \in Seq(Limits!Ages) /\ Len(<<>>) = 0 /\ DOMAIN <<>> = 1..0
    OBVIOUS
  <2>3. 0 \in 0..Len(<<>>) /\ 0 <= max /\ Len(<<>>) - 0 <= 0
    BY <2>2
  <2>4. \A n \in DOMAIN <<>> : FALSE
    BY <2>2
  <2>5. Limits!Follows(<<>>, Limits!Unused, max)
    BY <2>1, <2>2, <2>3, <2>4, LimitsNumbers DEF Limits!Follows
  <2>6. QED
    BY <2>5, LimitsNumbers DEF Limits!Unused
<1>2. <<>> \in Seq(Limits!Ages)
  OBVIOUS
<1>3. Limits!TypeOK
  BY <1>1, <1>2, LimitsNumbers DEF Limits!Init, Limits!TypeOK, Limits!Outcomes
<1>4. Limits!ListsFollow
  BY <1>1, LimitsNumbers DEF Limits!Init, Limits!ListsFollow
<1>5. QED
  BY <1>3, <1>4 DEF Limits!LimitsInv

-----------------------------------------------------------------------------
(* Sign-in                                                                 *)

\* A tab that signs in holds a token, and is otherwise the page it was.
LEMMA TabSigns ==
    ASSUME signin_page \in Tab!PageStates, NEW token \in Tab!Tokens, Tab!SignedIn(token)
    PROVE  signin_page' \in Tab!PageStates /\ signin_page'.token = token
  BY DEF Tab!SignedIn, Tab!PageStates

\* Tokens that are issued, or no longer accepted, are tokens still.
LEMMA TabTokens ==
    /\ Tab!NoToken \in Tab!Tokens /\ Tab!NoToken.capability = "none"
    /\ \A capability \in {"ask", "full"} :
          /\ Tab!Issued(capability) \in Tab!Tokens
          /\ Tab!Issued(capability).capability = capability
    /\ \A token \in Tab!Tokens :
          /\ [token EXCEPT !.live = FALSE] \in Tab!Tokens
          /\ [token EXCEPT !.live = FALSE].capability = token.capability
<1>1. Tab!NoToken \in Tab!Tokens /\ Tab!NoToken.capability = "none"
  BY DEF Tab!Tokens, Tab!NoToken
<1>2. ASSUME NEW capability \in {"ask", "full"}
      PROVE  /\ Tab!Issued(capability) \in Tab!Tokens
             /\ Tab!Issued(capability).capability = capability
  BY DEF Tab!Tokens, Tab!Issued
<1>3. ASSUME NEW token \in Tab!Tokens
      PROVE  /\ [token EXCEPT !.live = FALSE] \in Tab!Tokens
             /\ [token EXCEPT !.live = FALSE].capability = token.capability
  <2>1. CASE token = Tab!NoToken
    <3>1. token = [capability |-> "none", live |-> FALSE]
      BY <2>1 DEF Tab!NoToken
    <3>2. \A b : [[capability |-> "none", live |-> b] EXCEPT !.live = b]
                = [capability |-> "none", live |-> b]
      OBVIOUS
    <3>3. [token EXCEPT !.live = FALSE] = token
      BY <3>1, <3>2, Zenon
    <3>4. QED
      BY <3>3
  <2>2. CASE token \in [capability : {"ask", "full"}, live : BOOLEAN]
    <3>1. [token EXCEPT !.live = FALSE] \in [capability : {"ask", "full"}, live : BOOLEAN]
      BY <2>2
    <3>2. [token EXCEPT !.live = FALSE].capability = token.capability
      BY <2>2
    <3>3. QED
      BY <3>1, <3>2 DEF Tab!Tokens
  <2>3. QED
    BY <2>1, <2>2 DEF Tab!Tokens
<1>4. QED
  BY <1>1, <1>2, <1>3

LEMMA TabMoves ==
    ASSUME Tab!SignInInv, Tab!Next \/ UNCHANGED signinVars
    PROVE  Tab!SignInInv'
<1> USE DEF Tab!SignInInv, Tab!TypeOK, Tab!WritingIsPaidFor
<1>0. TabBaseCount \in Nat \ {0} /\ TabMaxExpiries \in Nat
  BY ConstantsAreTheirs DEF Tab!SignInAssumption
<1>1. CASE UNCHANGED signinVars
  BY <1>1 DEF signinVars
<1>2. ASSUME NEW name \in TabPages, Tab!Load(name)
      PROVE  Tab!SignInInv'
  <2>1. /\ signin_page' = Tab!Fresh(name)
        /\ UNCHANGED <<signin_deployment, signin_runtime, signin_stored, signin_codeGiven,
                       signin_expiries>>
        /\ signin_gate' = "none" /\ signin_said' = "nothing" /\ signin_last' = "none"
    BY <1>2 DEF Tab!Load
  <2>2. /\ Tab!Fresh(name) \in Tab!PageStates /\ Tab!Fresh(name).token = Tab!NoToken
        /\ Tab!Fresh(name).phase = "looking"
    BY <1>0, TabTokens DEF Tab!Fresh, Tab!PageStates
  <2>3. QED
    BY <2>1, <2>2, TabTokens
<1>3. CASE Tab!Found
  <2>1. CASE signin_stored # Tab!NoToken
    BY <2>1, <1>3, TabSigns DEF Tab!Found
  <2>2. CASE signin_stored = Tab!NoToken
    <3>1. /\ signin_page' = [signin_page EXCEPT !.phase = "asking", !.found = TRUE]
          /\ UNCHANGED <<signin_deployment, signin_runtime, signin_stored, signin_gate,
                         signin_said, signin_last, signin_codeGiven, signin_expiries>>
      BY <1>3, <2>2 DEF Tab!Found
    <3>2. signin_page' \in Tab!PageStates /\ signin_page'.token = signin_page.token
      BY <3>1 DEF Tab!PageStates
    <3>3. QED
      BY <3>1, <3>2
  <2>3. QED
    BY <2>1, <2>2
<1>4. CASE Tab!NotFound
  BY <1>0, <1>4 DEF Tab!NotFound, Tab!PageStates
<1>5. CASE Tab!Offered
  <2>1. PICK token \in {Tab!OpenAnswers, Tab!NoToken} :
          IF token # Tab!NoToken /\ (Tab!Need(signin_page.name) = "full" => token.capability = "full")
          THEN signin_stored' = token /\ Tab!SignedIn(token)
          ELSE signin_page' = [signin_page EXCEPT !.phase = "gate"] /\ UNCHANGED signin_stored
    BY <1>5 DEF Tab!Offered
  <2>2. /\ UNCHANGED <<signin_deployment, signin_runtime, signin_gate, signin_said, signin_last,
                       signin_codeGiven, signin_expiries>>
        /\ token \in Tab!Tokens
        /\ token.capability = "full" => signin_deployment = "full"
    BY <1>5, TabTokens DEF Tab!Offered, Tab!OpenAnswers
  <2>3. CASE signin_stored' = token /\ Tab!SignedIn(token)
    BY <2>2, <2>3, TabSigns
  <2>4. CASE signin_page' = [signin_page EXCEPT !.phase = "gate"] /\ UNCHANGED signin_stored
    BY <2>2, <2>4 DEF Tab!PageStates
  <2>5. QED
    BY <2>1, <2>3, <2>4
<1>6. ASSUME NEW code \in {"right", "wrong"}, Tab!Submit(code)
      PROVE  Tab!SignInInv'
  BY <1>6 DEF Tab!Submit
<1>7. CASE Tab!Decline
  BY <1>7 DEF Tab!Decline, Tab!PageStates
<1>8. CASE Tab!GateAnswers
  <2>1. /\ UNCHANGED <<signin_deployment, signin_runtime, signin_said, signin_last,
                       signin_codeGiven, signin_expiries>>
        /\ signin_gate' = "none"
    BY <1>8 DEF Tab!GateAnswers
  <2>2. CASE UNCHANGED <<signin_stored, signin_page>>
    BY <2>1, <2>2
  <2>3. CASE /\ signin_gate = "right" /\ signin_stored' = Tab!Issued("full")
             /\ IF signin_page.phase = "gate" THEN Tab!SignedIn(Tab!Issued("full"))
                ELSE UNCHANGED signin_page
    BY <2>1, <2>3, TabTokens, TabSigns
  <2>4. QED
    BY <1>8, <2>2, <2>3 DEF Tab!GateAnswers
<1>9. CASE Tab!Use
  BY <1>9, TabTokens DEF Tab!Use, Tab!PageStates
<1>10. CASE Tab!Suggest
  BY <1>10 DEF Tab!Suggest
<1>11. CASE Tab!Expire
  <2>1. /\ signin_page.token \in Tab!Tokens
        /\ signin_stored' = [signin_stored EXCEPT !.live = FALSE]
        /\ signin_page' = [signin_page EXCEPT !.token = [signin_page.token EXCEPT !.live = FALSE]]
    BY <1>11 DEF Tab!Expire, Tab!PageStates
  <2>2. signin_page' \in Tab!PageStates
        /\ signin_page'.token = [signin_page.token EXCEPT !.live = FALSE]
    BY <2>1, TabTokens DEF Tab!PageStates
  <2>3. /\ UNCHANGED <<signin_deployment, signin_runtime, signin_gate, signin_said, signin_last,
                       signin_codeGiven>>
        /\ signin_expiries' \in 0..TabMaxExpiries
    BY <1>0, <1>11 DEF Tab!Expire
  <2>4. QED
    BY <2>1, <2>2, <2>3, TabTokens
<1>12. QED
  BY <1>1, <1>2, <1>3, <1>4, <1>5, <1>6, <1>7, <1>8, <1>9, <1>10, <1>11 DEF Tab!Next

LEMMA TabBegins == Tab!Init => Tab!SignInInv
<1> SUFFICES ASSUME Tab!Init
             PROVE  Tab!SignInInv
  OBVIOUS
<1>0. TabBaseCount \in Nat \ {0} /\ TabMaxExpiries \in Nat
  BY ConstantsAreTheirs DEF Tab!SignInAssumption
<1>1. signin_page \in Tab!PageStates /\ signin_page.token = Tab!NoToken
  <2>1. PICK name \in TabPages : signin_page = Tab!Fresh(name)
    BY DEF Tab!Init
  <2>2. QED
    BY <1>0, <2>1, TabTokens DEF Tab!Fresh, Tab!PageStates
<1>2. /\ signin_deployment \in {"closed", "off", "ask", "full"} /\ signin_runtime \in 0..TabBaseCount
      /\ signin_stored = Tab!NoToken /\ signin_gate = "none" /\ signin_said = "nothing"
      /\ signin_last = "none" /\ signin_codeGiven = FALSE /\ signin_expiries = 0
  BY DEF Tab!Init
<1>3. Tab!TypeOK
  <2>1. signin_codeGiven \in BOOLEAN
    BY <1>2, Zenon
  <2>2. signin_expiries \in 0..TabMaxExpiries
    BY <1>0, <1>2
  <2>3. QED
    BY <2>1, <2>2, <1>1, <1>2, TabTokens DEF Tab!TypeOK
<1>4. QED
  BY <1>1, <1>2, <1>3, TabTokens DEF Tab!SignInInv, Tab!WritingIsPaidFor

\* However a caller times its questions and its uploads, it gets through at most twice
\* the limit in any window's length, without the code no upload gets through, and a tab
\* may write only if the deployment lets everybody or the code was typed in it
\* (access.ts, main.ts, gl-access.ts).
THEOREM EverybodyIsLimited == ServiceSpec => []NobodyGetsMore
<1> DEFINE Inv == /\ part = "limits" => Limits!LimitsInv
                  /\ part = "signin" => Tab!SignInInv
<1>1. ServiceInit => Inv
  BY LimitsBegin, TabBegins, Starts
<1>2. Inv /\ [ServiceNext]_serviceVars => Inv'
  BY Moves, LimitsMoves, TabMoves
<1>3. Inv => NobodyGetsMore
  BY BurstsFollow DEF NobodyGetsMore, Tab!SignInInv
<1>4. QED
  BY <1>1, <1>2, <1>3, PTL DEF ServiceSpec
-----------------------------------------------------------------------------
(* A cold process                                                          *)

\* What may be found out about the store.
LEMMA StoreFound ==
    ASSUME NEW d \in Process!FoundOut
    PROVE  /\ d.detail \in {"written through", "did not answer", "not configured"}
           /\ d.durable <=> d.detail = "written through"
<1>1. CASE d = [durable |-> TRUE, detail |-> "written through"]
  BY <1>1
<1>2. CASE d = [durable |-> FALSE, detail |-> "did not answer"]
  BY <1>2
<1>3. CASE d = [durable |-> FALSE, detail |-> "not configured"]
  BY <1>3
<1>4. QED
  BY <1>1, <1>2, <1>3 DEF Process!FoundOut

LEMMA ProcessMoves ==
    ASSUME Process!OneBuild, Process!Next \/ UNCHANGED processVars
    PROVE  Process!OneBuild'
<1> DEFINE rs == process_requests
<1> USE DEF Process!OneBuild, Process!At, Process!Stages
<1>a. /\ Process!NotYet \in Process!Answers /\ "none" \in Process!Answers
      /\ "answer" \in Process!Answers /\ "accepted" \in Process!Answers
      /\ "durable" \in Process!Answers /\ "not durable" \in Process!Answers
      /\ \A d \in Process!FoundOut : d.detail \in Process!Answers
  BY StoreFound DEF Process!Answers
<1>1. CASE UNCHANGED processVars
  BY <1>1 DEF processVars
<1>2. ASSUME NEW r \in ProcessRequests, NEW k \in Process!Kinds, NEW p \in ProcessPersonas,
             Process!Arrive(r, k, p)
      PROVE  Process!OneBuild'
  <2> DEFINE goes == IF process_personas[p].cached THEN "known" ELSE "entering"
             new == [kind |-> k, persona |-> p, registry |-> 0, answer |-> "none", stage |-> goes]
  <2>1. /\ process_requests' = [process_requests EXCEPT ![r] = new]
        /\ UNCHANGED <<process_personas, process_logins, process_build, process_registries,
                       process_durability>>
    BY <1>2 DEF Process!Arrive
  <2>2. goes \in Process!Stages /\ goes \notin {"waiting", "served", "answered"}
    OBVIOUS
  <2> HIDE DEF goes
  <2>3. /\ new \in [kind : Process!Kinds, persona : ProcessPersonas, stage : Process!Stages,
                    registry : 0..1, answer : Process!Answers]
        /\ new.stage = goes
    <3> HIDE DEF Process!Stages, Process!OneBuild, Process!At
    <3>1. k \in Process!Kinds /\ p \in ProcessPersonas
      OBVIOUS
    <3>2. 0 \in 0..1
      OBVIOUS
    <3>3. "none" \in Process!Answers
      BY <1>a
    <3>4. goes \in Process!Stages
      BY <2>2
    <3>5. QED
      BY <3>1, <3>2, <3>3, <3>4
  <2> HIDE DEF new
  <2>4. QED
    BY <2>1, <2>2, <2>3
<1>3. ASSUME NEW r \in ProcessRequests, Process!Login(r)
      PROVE  Process!OneBuild'
  BY <1>3 DEF Process!Login, Process!Goes
<1>4. ASSUME NEW r \in ProcessRequests, Process!Discover(r)
      PROVE  Process!OneBuild'
  BY <1>4 DEF Process!Discover, Process!Goes
<1>5. ASSUME NEW r \in ProcessRequests, Process!Issue(r)
      PROVE  Process!OneBuild'
  <2> DEFINE a == IF process_durability.durable THEN "durable" ELSE "not durable"
  <2>1. /\ rs' = [rs EXCEPT ![r].stage = "answered", ![r].answer = a]
        /\ rs[r].kind = "session"
        /\ UNCHANGED <<process_personas, process_logins, process_build, process_registries,
                       process_durability>>
    BY <1>5 DEF Process!Issue, Process!Answered
  <2>2. a \in Process!Answers
    BY <1>a
  <2> HIDE DEF a
  <2>3. /\ rs' \in [ProcessRequests -> [kind : Process!Kinds, persona : ProcessPersonas,
                        stage : Process!Stages, registry : 0..1, answer : Process!Answers]]
        /\ rs'[r].stage = "answered" /\ rs'[r].kind = "session"
        /\ \A q \in ProcessRequests \ {r} : rs'[q] = rs[q]
    <3>1. rs \in [ProcessRequests -> [kind : Process!Kinds, persona : ProcessPersonas,
                     stage : Process!Stages, registry : 0..1, answer : Process!Answers]]
      OBVIOUS
    <3>2. "answered" \in Process!Stages
      OBVIOUS
    <3> HIDE DEF Process!OneBuild, Process!At, Process!Stages
    <3>3. QED
      BY <2>1, <2>2, <3>1, <3>2
  <2>4. ASSUME NEW q \in ProcessRequests
        PROVE  /\ rs'[q].stage = "waiting" =>
                    process_build # "none" /\ rs'[q].registry = process_registries
               /\ rs'[q].stage = "served" =>
                    process_build = "done" /\ rs'[q].registry = process_registries
               /\ rs'[q].stage = "answered" /\ rs'[q].kind = "upload" =>
                    /\ process_build = "done"
                    /\ rs'[q].answer = IF process_durability.durable THEN "accepted"
                                       ELSE process_durability.detail
    <3>1. CASE q = r
      BY <2>3, <3>1
    <3>2. CASE q # r
      BY <2>3, <3>2
    <3>3. QED
      BY <3>1, <3>2
  <2>5. QED
    BY <2>1, <2>3, <2>4
<1>6. ASSUME NEW r \in ProcessRequests, Process!Reach(r)
      PROVE  Process!OneBuild'
  <2>1. CASE process_build = "done"
    BY <1>6, <2>1 DEF Process!Reach
  <2>2. CASE process_build = "none"
    BY <1>6, <2>2 DEF Process!Reach
  <2>3. CASE process_build \in {"seeding", "hydrating"}
    BY <1>6, <2>3 DEF Process!Reach
  <2>4. QED
    BY <2>1, <2>2, <2>3
<1>7. ASSUME NEW r \in ProcessRequests, Process!Serve(r)
      PROVE  Process!OneBuild'
  BY <1>7 DEF Process!Serve, Process!Goes
<1>8. ASSUME NEW r \in ProcessRequests, Process!Respond(r)
      PROVE  Process!OneBuild'
  <2> DEFINE a == IF rs[r].kind = "ask" THEN "answer"
                  ELSE IF process_durability.durable THEN "accepted" ELSE process_durability.detail
  <2>1. /\ rs' = [rs EXCEPT ![r].stage = "answered", ![r].answer = a]
        /\ rs[r].stage = "served"
        /\ UNCHANGED <<process_personas, process_logins, process_build, process_registries,
                       process_durability>>
    BY <1>8 DEF Process!Respond, Process!Answered
  <2>2. process_build = "done" /\ process_durability \in Process!FoundOut
    BY <2>1
  <2>3. a \in Process!Answers
    BY <2>2, <1>a
  <2>4. rs[r].kind = "upload" =>
          a = IF process_durability.durable THEN "accepted" ELSE process_durability.detail
    OBVIOUS
  <2> HIDE DEF a
  <2>5. /\ rs' \in [ProcessRequests -> [kind : Process!Kinds, persona : ProcessPersonas,
                        stage : Process!Stages, registry : 0..1, answer : Process!Answers]]
        /\ rs'[r].stage = "answered" /\ rs'[r].answer = a /\ rs'[r].kind = rs[r].kind
        /\ \A q \in ProcessRequests \ {r} : rs'[q] = rs[q]
    <3>1. rs \in [ProcessRequests -> [kind : Process!Kinds, persona : ProcessPersonas,
                     stage : Process!Stages, registry : 0..1, answer : Process!Answers]]
      OBVIOUS
    <3>2. "answered" \in Process!Stages
      OBVIOUS
    <3> HIDE DEF Process!OneBuild, Process!At, Process!Stages
    <3>3. QED
      BY <2>1, <2>3, <3>1, <3>2
  <2>6. ASSUME NEW q \in ProcessRequests
        PROVE  /\ rs'[q].stage = "waiting" =>
                    process_build # "none" /\ rs'[q].registry = process_registries
               /\ rs'[q].stage = "served" =>
                    process_build = "done" /\ rs'[q].registry = process_registries
               /\ rs'[q].stage = "answered" /\ rs'[q].kind = "upload" =>
                    /\ process_build = "done"
                    /\ rs'[q].answer = IF process_durability.durable THEN "accepted"
                                       ELSE process_durability.detail
    <3>1. CASE q = r
      BY <2>2, <2>4, <2>5, <3>1
    <3>2. CASE q # r
      BY <2>5, <3>2
    <3>3. QED
      BY <3>1, <3>2
  <2>7. QED
    BY <2>1, <2>5, <2>6
<1>9. CASE Process!Seed
  BY <1>9 DEF Process!Seed, Process!Finished, Process!FoundOut
<1>10. CASE Process!Hydrate
  BY <1>10 DEF Process!Hydrate, Process!Finished, Process!FoundOut
<1>11. QED
  BY <1>1, <1>2, <1>3, <1>4, <1>5, <1>6, <1>7, <1>8, <1>9, <1>10 DEF Process!Next, Process!Step

\* Requests that reach a cold process together are answered from one finished registry,
\* and an upload is refused only for what was found out about the store (main.ts).
THEOREM ColdProcessesBuildOnce == ServiceSpec => []ColdStartIsWhole
<1> DEFINE Inv == part = "process" => Process!OneBuild
<1>1. ServiceInit => Inv
  <2>1. Process!Init => Process!OneBuild
    <3>1. "none" \in Process!Answers /\ "ask" \in Process!Kinds
      BY DEF Process!Answers, Process!Kinds
    <3>2. ProcessExec \in ProcessPersonas
      BY ConstantsAreTheirs DEF Process!ProcessAssumption
    <3>3. QED
      BY <3>1, <3>2 DEF Process!Init, Process!OneBuild, Process!Idle, Process!Stages, Process!At
  <2>2. QED
    BY <2>1, Starts
<1>2. Inv /\ [ServiceNext]_serviceVars => Inv'
  BY Moves, ProcessMoves
<1>3. Inv => ColdStartIsWhole
  <2>1. Process!OneBuild => Process!OneFinishedRegistry
    BY DEF Process!OneBuild, Process!OneFinishedRegistry, Process!At
  <2>2. Process!OneBuild => Process!RefusalsAreFoundOut
    <3>1. \A d \in Process!FoundOut :
            LET a == IF d.durable THEN "accepted" ELSE d.detail
            IN  a # Process!NotYet /\ (a = "accepted" <=> d.durable)
      BY StoreFound DEF Process!NotYet
    <3>2. QED
      BY <3>1 DEF Process!OneBuild, Process!RefusalsAreFoundOut, Process!At
  <2>3. Process!OneBuild => Process!NobodyIsTurnedAway
    BY DEF Process!OneBuild, Process!NobodyIsTurnedAway, Process!Answers, Process!NotYet
  <2>4. QED
    BY <2>1, <2>2, <2>3 DEF ColdStartIsWhole
<1>4. QED
  BY <1>1, <1>2, <1>3, PTL DEF ServiceSpec
-----------------------------------------------------------------------------
(* Identities                                                              *)

\* What is said of an identifier does not depend on its spelling.
LEMMA MatchingIs ==
    ASSUME NEW list, NEW y, NEW s
    PROVE  \A n : n \in Hub!Matching(list, y, s) <=>
              /\ n \in DOMAIN list
              /\ list[n].system = y /\ HubKey[list[n].id] = HubKey[s]
  BY DEF Hub!Matching

\* One mapping more is the last one said of its identifier, and says nothing of others.
LEMMA OneLonger ==
    ASSUME NEW list \in Seq(Hub!Mappings), NEW m \in Hub!Mappings
    PROVE  /\ Len(Append(list, m)) = Len(list) + 1 /\ Len(list) \in Nat
           /\ DOMAIN Append(list, m) = 1..Len(list) + 1 /\ DOMAIN list = 1..Len(list)
           /\ Append(list, m)[Len(list) + 1] = m
           /\ \A n \in 1..Len(list) : Append(list, m)[n] = list[n]
  OBVIOUS

\* What is held of an identifier is one mapping.
LEMMA OneIsHeld ==
    ASSUME Hub!TypeOK, NEW y, NEW s,
           NEW i \in Hub!Matching(identity_mappings, y, s),
           NEW j \in Hub!Matching(identity_mappings, y, s)
    PROVE  i = j
  BY MatchingIs DEF Hub!TypeOK, Hub!Same

\* A declaration, taken in: the mapping of the identifier it is of, and of no other.
LEMMA DeclaredIsHeld ==
    ASSUME Hub!HubInv, NEW m \in Hub!Mappings, HubKey[m.id] # Null, Hub!Declare(m)
    PROVE  /\ identity_mappings' \in Seq(Hub!Mappings)
           /\ \E place \in DOMAIN identity_mappings' :
                 /\ identity_mappings'[place] = m
                 /\ \A n \in DOMAIN identity_mappings' : n # place =>
                       /\ n \in DOMAIN identity_mappings
                       /\ identity_mappings'[n] = identity_mappings[n]
                       /\ ~Hub!Same(identity_mappings[n], m)
                 /\ \A n \in DOMAIN identity_mappings : ~Hub!Same(identity_mappings[n], m) =>
                       /\ n \in DOMAIN identity_mappings' /\ n # place
<1> DEFINE at == {n \in DOMAIN identity_mappings : Hub!Same(identity_mappings[n], m)}
<1>1. /\ identity_mappings \in Seq(Hub!Mappings)
      /\ \A i, j \in DOMAIN identity_mappings : i # j =>
            ~Hub!Same(identity_mappings[i], identity_mappings[j])
  BY DEF Hub!HubInv, Hub!TypeOK
<1>2. /\ Len(identity_mappings) \in Nat
      /\ DOMAIN identity_mappings = 1..Len(identity_mappings)
  BY <1>1
<1>3. CASE at = {}
  <2>1. identity_mappings' = Append(identity_mappings, m)
    BY <1>3 DEF Hub!Declare
  <2>2. /\ identity_mappings' \in Seq(Hub!Mappings)
        /\ DOMAIN identity_mappings' = 1..Len(identity_mappings) + 1
        /\ identity_mappings'[Len(identity_mappings) + 1] = m
        /\ \A n \in 1..Len(identity_mappings) : identity_mappings'[n] = identity_mappings[n]
    BY <2>1, <1>1
  <2>3. \A n \in DOMAIN identity_mappings : ~Hub!Same(identity_mappings[n], m)
    BY <1>3
  <2> HIDE DEF at
  <2>4. Len(identity_mappings) + 1 \in DOMAIN identity_mappings'
    BY <2>2, <1>2
  <2>5. \A n \in DOMAIN identity_mappings' : n # Len(identity_mappings) + 1 =>
           n \in DOMAIN identity_mappings
    BY <2>2, <1>2
  <2>6. \A n \in DOMAIN identity_mappings :
           n \in DOMAIN identity_mappings' /\ n # Len(identity_mappings) + 1
    BY <2>2, <1>2
  <2>7. QED
    BY <2>2, <2>3, <2>4, <2>5, <2>6, <1>2
<1>4. ASSUME NEW first \in at
      PROVE  /\ identity_mappings' = [identity_mappings EXCEPT ![first] = m]
             /\ \A n \in DOMAIN identity_mappings :
                   n # first => ~Hub!Same(identity_mappings[n], m)
  <2>1. \A n \in at : n = first
    BY <1>1 DEF Hub!Same
  <2>2. first \in Nat
    BY <1>2
  <2>3. Hub!FirstOf(at) = first
    <3>1. \A k \in at : first <= k
      BY <2>1, <2>2
    <3> HIDE DEF at
    <3>2. QED
      BY <2>1, <3>1 DEF Hub!FirstOf
  <2>4. QED
    BY <2>1, <2>3 DEF Hub!Declare
<1>5. CASE at # {}
  <2>1. PICK first \in at : TRUE
    BY <1>5
  <2>2. /\ identity_mappings' = [identity_mappings EXCEPT ![first] = m]
        /\ \A n \in DOMAIN identity_mappings : n # first => ~Hub!Same(identity_mappings[n], m)
    BY <1>4
  <2>3. first \in DOMAIN identity_mappings /\ Hub!Same(identity_mappings[first], m)
    OBVIOUS
  <2> HIDE DEF at
  <2>4. identity_mappings' \in Seq(Hub!Mappings)
    BY <2>2, <2>3, <1>1
  <2>5. /\ DOMAIN identity_mappings' = DOMAIN identity_mappings
        /\ identity_mappings'[first] = m
        /\ \A n \in DOMAIN identity_mappings : n # first =>
              identity_mappings'[n] = identity_mappings[n]
    BY <2>2, <2>3
  <2>6. QED
    BY <2>2, <2>3, <2>4, <2>5
<1>6. QED
  BY <1>3, <1>5

LEMMA HubMoves ==
    ASSUME Hub!HubInv, Hub!DeclareOne \/ UNCHANGED identityVars
    PROVE  Hub!HubInv'
<1>1. CASE UNCHANGED identityVars
  BY <1>1 DEF identityVars, Hub!HubInv, Hub!TypeOK, Hub!LastIsHeld
<1>2. CASE Hub!DeclareOne
  <2>1. PICK m \in Hub!Mappings :
          /\ identity_declared' = Append(identity_declared, m)
          /\ IF HubKey[m.id] = Null THEN UNCHANGED identity_mappings ELSE Hub!Declare(m)
    BY <1>2 DEF Hub!DeclareOne
  <2>2. /\ identity_mappings \in Seq(Hub!Mappings) /\ identity_declared \in Seq(Hub!Mappings)
        /\ \A i, j \in DOMAIN identity_mappings : i # j =>
              ~Hub!Same(identity_mappings[i], identity_mappings[j])
        /\ \A i \in DOMAIN identity_mappings : HubKey[identity_mappings[i].id] # Null
    BY DEF Hub!HubInv, Hub!TypeOK
  <2>3. identity_declared' \in Seq(Hub!Mappings)
    BY <2>1, <2>2
  <2>a. PICK len \in Nat : /\ DOMAIN identity_declared = 1..len
                           /\ DOMAIN identity_declared' = 1..len + 1
                           /\ identity_declared'[len + 1] = m
                           /\ \A n \in 1..len : identity_declared'[n] = identity_declared[n]
    BY <2>1, <2>2, OneLonger
  <2>b. /\ len + 1 \in 1..len + 1
        /\ \A n \in 1..len + 1 : n <= len + 1 /\ (n \in 1..len \/ n = len + 1)
        /\ \A n \in 1..len : n \in 1..len + 1 /\ n # len + 1
    OBVIOUS
  <2>4. CASE HubKey[m.id] = Null
    <3>1. identity_mappings' = identity_mappings
      BY <2>1, <2>4
    <3>2. Hub!TypeOK'
      BY <2>2, <2>3, <3>1 DEF Hub!TypeOK
    <3>3. ASSUME NEW y \in HubSystems, NEW s \in HubSpellings, HubKey[s] # Null
          PROVE  /\ Hub!Matching(identity_declared', y, s) = Hub!Matching(identity_declared, y, s)
                 /\ \A n \in Hub!Matching(identity_declared, y, s) :
                       identity_declared'[n] = identity_declared[n]
      <4>1. ~(m.system = y /\ HubKey[m.id] = HubKey[s])
        BY <2>4, <3>3
      <4>2. /\ \A n : n \in Hub!Matching(identity_declared', y, s) <=>
                       n \in Hub!Matching(identity_declared, y, s)
            /\ \A n \in Hub!Matching(identity_declared, y, s) :
                  identity_declared'[n] = identity_declared[n]
        BY <4>1, <2>a, <2>b, MatchingIs
      <4>3. QED
        BY <4>2 DEF Hub!Matching
    <3>4. Hub!LastIsHeld'
      BY <3>1, <3>3 DEF Hub!LastIsHeld, Hub!HubInv
    <3>5. QED
      BY <3>2, <3>4 DEF Hub!HubInv
  <2>5. CASE HubKey[m.id] # Null
    <3>1. Hub!Declare(m)
      BY <2>1, <2>5
    <3>2. PICK place \in DOMAIN identity_mappings' :
                 /\ identity_mappings'[place] = m
                 /\ \A n \in DOMAIN identity_mappings' : n # place =>
                       /\ n \in DOMAIN identity_mappings
                       /\ identity_mappings'[n] = identity_mappings[n]
                       /\ ~Hub!Same(identity_mappings[n], m)
                 /\ \A n \in DOMAIN identity_mappings : ~Hub!Same(identity_mappings[n], m) =>
                       /\ n \in DOMAIN identity_mappings' /\ n # place
      BY <3>1, <2>5, DeclaredIsHeld
    <3>3. identity_mappings' \in Seq(Hub!Mappings)
      BY <3>1, <2>5, DeclaredIsHeld
    <3>4. \A i, j \in DOMAIN identity_mappings' : i # j =>
             ~Hub!Same(identity_mappings'[i], identity_mappings'[j])
      BY <3>2, <2>2 DEF Hub!Same
    <3>5. \A i \in DOMAIN identity_mappings' : HubKey[identity_mappings'[i].id] # Null
      BY <3>2, <2>2, <2>5
    <3>6. Hub!TypeOK'
      BY <2>3, <3>3, <3>4, <3>5 DEF Hub!TypeOK
    <3>7. ASSUME NEW y \in HubSystems, NEW s \in HubSpellings, HubKey[s] # Null
          PROVE  LET at == Hub!Matching(identity_declared', y, s)
                     held == Hub!Matching(identity_mappings', y, s)
                 IN  IF at = {} THEN held = {}
                     ELSE \E last \in at :
                            /\ \A n \in at : n <= last
                            /\ \E n \in held :
                                 identity_mappings'[n].project = identity_declared'[last].project
      <4>1. CASE m.system = y /\ HubKey[m.id] = HubKey[s]
        <5>1. /\ len + 1 \in Hub!Matching(identity_declared', y, s)
              /\ identity_declared'[len + 1] = m
              /\ \A n \in Hub!Matching(identity_declared', y, s) : n <= len + 1
          BY <4>1, <2>a, <2>b, MatchingIs
        <5>2. place \in Hub!Matching(identity_mappings', y, s)
          BY <4>1, <3>2, MatchingIs
        <5>3. QED
          BY <5>1, <5>2, <3>2
      <4>2. CASE ~(m.system = y /\ HubKey[m.id] = HubKey[s])
        <5>1. /\ Hub!Matching(identity_declared', y, s) = Hub!Matching(identity_declared, y, s)
              /\ \A n \in Hub!Matching(identity_declared, y, s) :
                    identity_declared'[n] = identity_declared[n]
          <6>1. /\ \A n : n \in Hub!Matching(identity_declared', y, s) <=>
                           n \in Hub!Matching(identity_declared, y, s)
                /\ \A n \in Hub!Matching(identity_declared, y, s) :
                      identity_declared'[n] = identity_declared[n]
            BY <4>2, <2>a, <2>b, MatchingIs
          <6>2. QED
            BY <6>1 DEF Hub!Matching
        <5>2. \A n : n \in Hub!Matching(identity_mappings', y, s) <=>
                     n \in Hub!Matching(identity_mappings, y, s)
          <6>1. ASSUME NEW n \in Hub!Matching(identity_mappings', y, s)
                PROVE  n \in Hub!Matching(identity_mappings, y, s)
            <7>1. n # place
              BY <4>2, <3>2, MatchingIs
            <7>2. QED
              BY <7>1, <3>2, MatchingIs
          <6>2. ASSUME NEW n \in Hub!Matching(identity_mappings, y, s)
                PROVE  n \in Hub!Matching(identity_mappings', y, s)
            <7>1. ~Hub!Same(identity_mappings[n], m) /\ n \in DOMAIN identity_mappings
              BY <4>2, MatchingIs DEF Hub!Same
            <7>2. n \in DOMAIN identity_mappings' /\ n # place
              BY <7>1, <3>2
            <7>3. identity_mappings'[n] = identity_mappings[n]
              BY <7>2, <3>2
            <7>4. QED
              BY <7>1, <7>2, <7>3, MatchingIs
          <6>3. QED
            BY <6>1, <6>2
        <5>3. \A n \in Hub!Matching(identity_mappings, y, s) :
                 identity_mappings'[n] = identity_mappings[n]
          <6>1. ASSUME NEW n \in Hub!Matching(identity_mappings, y, s)
                PROVE  identity_mappings'[n] = identity_mappings[n]
            <7>1. n \in Hub!Matching(identity_mappings', y, s)
              BY <5>2
            <7>2. n # place /\ n \in DOMAIN identity_mappings'
              BY <7>1, <4>2, <3>2, MatchingIs
            <7>3. QED
              BY <7>2, <3>2
          <6>2. QED
            BY <6>1
        <5>4. LET at == Hub!Matching(identity_declared, y, s)
                  held == Hub!Matching(identity_mappings, y, s)
              IN  IF at = {} THEN held = {}
                  ELSE \E last \in at :
                         /\ \A n \in at : n <= last
                         /\ \E n \in held :
                              identity_mappings[n].project = identity_declared[last].project
          BY <3>7 DEF Hub!HubInv, Hub!LastIsHeld
        <5>5. QED
          BY <5>1, <5>2, <5>3, <5>4
      <4>3. QED
        BY <4>1, <4>2
    <3>8. Hub!LastIsHeld'
      BY <3>7 DEF Hub!LastIsHeld
    <3>9. QED
      BY <3>6, <3>8 DEF Hub!HubInv
  <2>6. QED
    BY <2>4, <2>5
<1>3. QED
  BY <1>1, <1>2
\* What is held of an identifier answers for it.
LEMMA HeldAnswers ==
    ASSUME Hub!HubInv, NEW y \in HubSystems, NEW s \in HubSpellings, HubKey[s] # Null
    PROVE  IF Hub!Matching(identity_mappings, y, s) = {}
           THEN Hub!Resolve(y, s) = "NOT_MAPPED"
           ELSE \E n \in Hub!Matching(identity_mappings, y, s) :
                   /\ \A k \in Hub!Matching(identity_mappings, y, s) : k = n
                   /\ Hub!Resolve(y, s) = identity_mappings[n].project
<1> DEFINE held == Hub!Matching(identity_mappings, y, s)
<1>1. CASE held = {}
  BY <1>1 DEF Hub!Resolve
<1>2. CASE held # {}
  <2>1. PICK n \in held : TRUE
    BY <1>2
  <2>2. \A k \in held : k = n
    BY OneIsHeld DEF Hub!HubInv
  <2>3. n \in Nat
    BY MatchingIs DEF Hub!HubInv, Hub!TypeOK
  <2> HIDE DEF held
  <2>4. Hub!FirstOf(held) = n
    <3>1. \A k \in held : n <= k
      BY <2>2, <2>3
    <3>2. Hub!FirstOf(held) \in held
      BY <2>1, <3>1 DEF Hub!FirstOf
    <3>3. QED
      BY <2>2, <3>2
  <2>5. ~\E k, l \in held : identity_mappings[k].project # identity_mappings[l].project
    BY <2>2
  <2>6. Hub!Resolve(y, s) = identity_mappings[n].project
    BY <2>4, <2>5, <1>2 DEF Hub!Resolve, held
  <2>7. QED
    BY <2>1, <2>2, <2>6, <1>2 DEF held
<1>3. QED
  BY <1>1, <1>2

\* However names are spelled, declared and declared again, one whose declarations agree resolves to
\* their project and is on its panel alone, and no system's names answer for another's (identity.ts).
THEOREM IdentifiersAlwaysKeepTheirProject == ServiceSpec => []IdentifiersKeepTheirProject
<1> DEFINE Inv == part = "identity" => Hub!HubInv
<1>1. ServiceInit => Inv
  <2>1. Hub!Init => Hub!HubInv
    BY MatchingIs DEF Hub!Init, Hub!HubInv, Hub!TypeOK, Hub!LastIsHeld
  <2>2. QED
    BY <2>1, Starts
<1>2. Inv /\ [ServiceNext]_serviceVars => Inv'
  BY Moves, HubMoves
<1>3. Inv => IdentifiersKeepTheirProject
  <2> SUFFICES ASSUME Hub!HubInv
               PROVE  Hub!IdentifiersKeepTheirProject /\ Hub!PanelAgreesWithResolution
    BY DEF IdentifiersKeepTheirProject
  <2>0. /\ identity_mappings \in Seq(Hub!Mappings) /\ identity_declared \in Seq(Hub!Mappings)
        /\ HubProjects \cap {"BLANK", "NOT_MAPPED", "AMBIGUOUS"} = {}
    BY ConstantsAreTheirs DEF Hub!HubAssumption, Hub!HubInv, Hub!TypeOK
  <2>1. ASSUME NEW y \in HubSystems, NEW s \in HubSpellings, HubKey[s] # Null
        PROVE  /\ Hub!Resolve(y, s) = "NOT_MAPPED" <=> Hub!DeclaredFor(y, s) = {}
               /\ Hub!Resolve(y, s) # "NOT_MAPPED" =>
                     /\ Hub!Resolve(y, s) \in Hub!DeclaredFor(y, s)
                     /\ Hub!Resolve(y, s) \in HubProjects
    <3> DEFINE at == Hub!Matching(identity_declared, y, s)
               held == Hub!Matching(identity_mappings, y, s)
    <3>1. IF at = {} THEN held = {}
          ELSE \E last \in at :
                 /\ \A n \in at : n <= last
                 /\ \E n \in held : identity_mappings[n].project = identity_declared[last].project
      BY <2>1 DEF Hub!HubInv, Hub!LastIsHeld
    <3>2. Hub!DeclaredFor(y, s) = {identity_declared[n].project : n \in at}
      BY DEF Hub!DeclaredFor
    <3>3. CASE at = {}
      <4>1. Hub!Resolve(y, s) = "NOT_MAPPED"
        BY <3>1, <3>3, <2>1, HeldAnswers
      <4>2. QED
        BY <4>1, <3>2, <3>3
    <3>4. CASE at # {}
      <4>1. PICK last \in at :
              \E n \in held : identity_mappings[n].project = identity_declared[last].project
        BY <3>1, <3>4
      <4>2. Hub!Resolve(y, s) = identity_declared[last].project
        BY <4>1, <2>1, HeldAnswers
      <4>3. identity_declared[last].project \in HubProjects
        <5>1. identity_declared[last] \in Hub!Mappings
          BY <4>1, <2>0, MatchingIs
        <5>2. QED
          BY <5>1 DEF Hub!Mappings
      <4>4. QED
        BY <4>1, <4>2, <4>3, <3>2, <2>0
    <3>5. QED
      BY <3>3, <3>4
  <2>2. ASSUME NEW p \in HubProjects, NEW y \in HubSystems, NEW s \in HubSpellings,
               HubKey[s] # Null
        PROVE  Hub!Resolve(y, s) = p <=> Hub!ShownFor(y, s) = {p}
    <3> DEFINE held == Hub!Matching(identity_mappings, y, s)
    <3>1. \A q : q \in Hub!ShownFor(y, s) <=>
             q \in HubProjects /\ \E n \in held : identity_mappings[n].project = q
      BY MatchingIs DEF Hub!ShownFor, Hub!IdentitiesOf
    <3>2. CASE held = {}
      <4>1. Hub!Resolve(y, s) = "NOT_MAPPED"
        BY <3>2, <2>2, HeldAnswers
      <4>2. QED
        BY <4>1, <3>1, <3>2, <2>0
    <3>3. CASE held # {}
      <4>1. PICK n \in held : /\ \A k \in held : k = n
                              /\ Hub!Resolve(y, s) = identity_mappings[n].project
        BY <3>3, <2>2, HeldAnswers
      <4>2. identity_mappings[n].project \in HubProjects
        <5>1. identity_mappings[n] \in Hub!Mappings
          BY <4>1, <2>0, MatchingIs
        <5>2. QED
          BY <5>1 DEF Hub!Mappings
      <4>3. Hub!ShownFor(y, s) = {identity_mappings[n].project}
        BY <4>1, <4>2, <3>1
      <4>4. QED
        BY <4>1, <4>3
    <3>4. QED
      BY <3>2, <3>3
  <2>3. QED
    BY <2>0, <2>1, <2>2 DEF Hub!IdentifiersKeepTheirProject, Hub!PanelAgreesWithResolution
<1>4. QED
  BY <1>1, <1>2, <1>3, PTL DEF ServiceSpec
-----------------------------------------------------------------------------
(* Requests                                                                *)

\* What is said of a request depends on who asks for what.
LEMMA SameRequest ==
    ASSUME NEW r \in ApiRequests,
           api_requests'[r].actor = api_requests[r].actor,
           api_requests'[r].route = api_requests[r].route,
           api_requests'[r].project = api_requests[r].project
    PROVE  /\ \A what, fields : Api!Entry(r, what, fields)' = Api!Entry(r, what, fields)
           /\ Api!InScope(r)' <=> Api!InScope(r)
           /\ Api!Audited(r)' <=> Api!Audited(r)
           /\ Api!Shaped(r)' = Api!Shaped(r)
           /\ Api!RecordedFields(r)' = Api!RecordedFields(r)
  BY DEF Api!Entry, Api!EntryOf, Api!InScope, Api!Audited, Api!Shaped, Api!RecordedFields

\* A request that does not move is what it was, sessions ending and the log growing
\* beside it.
LEMMA RequestStays ==
    ASSUME NEW r \in ApiRequests, Api!RequestIs(r), api_requests'[r] = api_requests[r],
           api_requests \in [ApiRequests -> Api!RequestRecords],
           api_now \in Nat, api_now' \in Nat, api_now <= api_now',
           api_audit \subseteq api_audit',
           \A e \in api_audit' : e.what = "READ" /\ e.request = r => e \in api_audit,
           \A i \in DOMAIN api_sessions :
              /\ i \in DOMAIN api_sessions'
              /\ api_sessions'[i].actor = api_sessions[i].actor
              /\ api_sessions'[i].issued = api_sessions[i].issued
              /\ \/ api_sessions'[i].revoked = api_sessions[i].revoked
                 \/ api_sessions'[i].revoked = api_now
    PROVE  Api!RequestIs(r)'
<1>1. /\ \A what, fields : Api!Entry(r, what, fields)' = Api!Entry(r, what, fields)
      /\ Api!InScope(r)' <=> Api!InScope(r)
      /\ Api!Audited(r)' <=> Api!Audited(r)
      /\ Api!Shaped(r)' = Api!Shaped(r)
      /\ Api!RecordedFields(r)' = Api!RecordedFields(r)
  BY SameRequest
<1>2. \A e : e \in Api!Reads(r)' <=> e \in Api!Reads(r)
  BY DEF Api!Reads
<1>3. api_requests[r].began \in Nat
  BY DEF Api!RequestRecords
<1>4. api_requests[r].stage \in Api!Passed =>
        /\ api_requests[r].session \in DOMAIN api_sessions'
        /\ api_sessions'[api_requests[r].session].actor = api_requests[r].actor
        /\ Api!Capable(api_requests[r].actor, api_requests[r].route)
        /\ api_requests[r].began <= api_now'
        /\ api_requests[r].began < api_sessions'[api_requests[r].session].issued + ApiAbsolute
        /\ api_sessions'[api_requests[r].session].revoked # Api!Never =>
              api_requests[r].began <= api_sessions'[api_requests[r].session].revoked
  BY <1>3 DEF Api!RequestIs
<1>5. QED
  BY <1>1, <1>2, <1>4 DEF Api!RequestIs
LEMMA ApiNumbers == ApiIdle \in Nat /\ ApiIdle > 0 /\ ApiAbsolute \in Nat /\ ApiAbsolute > 0 /\ ApiIdle <= ApiAbsolute
  BY ConstantsAreTheirs DEF Api!PipelineAssumption

\* A session, taken apart.
LEMMA SessionIs ==
    ASSUME NEW s \in Api!SessionRecords
    PROVE  /\ s.actor \in ApiActors /\ s.issued \in Nat /\ s.absolute \in Nat /\ s.idle \in Nat
           /\ s.revoked \in Int
           /\ \A n \in Nat : [s EXCEPT !.revoked = n] \in Api!SessionRecords
           /\ \A n \in Nat : [s EXCEPT !.idle = n] \in Api!SessionRecords
           /\ \A n : /\ [s EXCEPT !.revoked = n].actor = s.actor
                     /\ [s EXCEPT !.revoked = n].issued = s.issued
                     /\ [s EXCEPT !.revoked = n].absolute = s.absolute
                     /\ [s EXCEPT !.revoked = n].idle = s.idle
                     /\ [s EXCEPT !.revoked = n].revoked = n
           /\ \A n : /\ [s EXCEPT !.idle = n].actor = s.actor
                     /\ [s EXCEPT !.idle = n].issued = s.issued
                     /\ [s EXCEPT !.idle = n].absolute = s.absolute
                     /\ [s EXCEPT !.idle = n].revoked = s.revoked
                     /\ [s EXCEPT !.idle = n].idle = n
  BY DEF Api!SessionRecords, Api!Never

\* What no request moves by: time, the log being sealed, a session begun or revoked.
LEMMA SessionsMove ==
    ASSUME Api!ApiInv,
           \/ Api!Tick \/ Api!Seal
           \/ \E a \in ApiActors : Api!Login(a) \/ Api!RevokeAllFor(a)
    PROVE  Api!ApiInv'
<1> DEFINE keeps ==
             /\ api_requests' = api_requests
             /\ api_now' \in Nat /\ api_now <= api_now' /\ api_sealed' \in BOOLEAN
             /\ api_audit \subseteq api_audit'
             /\ \A e \in api_audit' : e \in api_audit \/ e.what # "READ"
             /\ \A i \in DOMAIN api_sessions :
                   /\ i \in DOMAIN api_sessions'
                   /\ api_sessions'[i].actor = api_sessions[i].actor
                   /\ api_sessions'[i].issued = api_sessions[i].issued
                   /\ \/ api_sessions'[i].revoked = api_sessions[i].revoked
                      \/ api_sessions'[i].revoked = api_now
<1>0. /\ api_now \in Nat /\ api_sealed \in BOOLEAN
      /\ api_requests \in [ApiRequests -> Api!RequestRecords]
      /\ Api!SessionsAre /\ \A r \in ApiRequests : Api!RequestIs(r)
  BY DEF Api!ApiInv
<1>1. ASSUME keeps, Api!SessionsAre'
      PROVE  Api!ApiInv'
  <2>1. \A r \in ApiRequests : Api!RequestIs(r)'
    BY <1>0, <1>1, RequestStays
  <2>2. QED
    BY <1>0, <1>1, <2>1 DEF Api!ApiInv
<1>2. CASE Api!Tick
  <2>1. keeps
    BY <1>0, <1>2 DEF Api!Tick
  <2>2. Api!SessionsAre'
    <3>1. api_now' = api_now + 1 /\ api_sessions' = api_sessions
      BY <1>2 DEF Api!Tick
    <3>2. \A i \in DOMAIN api_sessions : /\ api_sessions[i].issued \in Nat
                                          /\ api_sessions[i].revoked \in Int
      BY <1>0, SessionIs DEF Api!SessionsAre
    <3>3. QED
      BY <1>0, <3>1, <3>2 DEF Api!SessionsAre
  <2>3. QED
    BY <2>1, <2>2, <1>1
<1>3. CASE Api!Seal
  <2>1. keeps
    BY <1>0, <1>3 DEF Api!Seal
  <2>2. Api!SessionsAre'
    BY <1>0, <1>3 DEF Api!Seal, Api!SessionsAre
  <2>3. QED
    BY <2>1, <2>2, <1>1
<1>4. ASSUME NEW a \in ApiActors, Api!Login(a)
      PROVE  Api!ApiInv'
  <2> DEFINE s == Api!Session(a)
  <2>1. /\ api_sessions' = Append(api_sessions, s)
        /\ api_now' = api_now /\ api_requests' = api_requests /\ api_sealed' = api_sealed
        /\ api_audit' = IF api_sealed THEN api_audit
                        ELSE api_audit \cup {[what |-> "LOGIN", actor |-> a, fields |-> {}]}
    BY <1>4 DEF Api!Login
  <2>2. /\ s \in Api!SessionRecords
        /\ s.absolute = s.issued + ApiAbsolute /\ s.idle <= s.absolute
        /\ s.issued <= api_now /\ s.revoked <= api_now
    BY <1>0, ApiNumbers DEF Api!Session, Api!SessionRecords, Api!Never
  <2> HIDE DEF s
  <2>3. /\ Len(api_sessions) \in Nat /\ DOMAIN api_sessions = 1..Len(api_sessions)
        /\ DOMAIN api_sessions' = 1..Len(api_sessions) + 1
        /\ api_sessions'[Len(api_sessions) + 1] = s
        /\ \A i \in DOMAIN api_sessions : api_sessions'[i] = api_sessions[i]
        /\ api_sessions' \in Seq(Api!SessionRecords)
    BY <1>0, <2>1, <2>2 DEF Api!SessionsAre
  <2>4. \A i \in DOMAIN api_sessions' : i \in DOMAIN api_sessions \/ i = Len(api_sessions) + 1
    BY <2>3
  <2>5. Api!SessionsAre'
    BY <1>0, <2>1, <2>2, <2>3, <2>4 DEF Api!SessionsAre
  <2>6. \A i \in DOMAIN api_sessions : i \in DOMAIN api_sessions'
    BY <2>3
  <2>7. api_audit \subseteq api_audit' /\ \A e \in api_audit' : e \in api_audit \/ e.what # "READ"
    BY <2>1
  <2>8. keeps
    BY <1>0, <2>1, <2>3, <2>6, <2>7
  <2>9. QED
    BY <2>5, <2>8, <1>1
<1>5. ASSUME NEW a \in ApiActors, Api!RevokeAllFor(a)
      PROVE  Api!ApiInv'
  <2>1. /\ api_sessions' = [i \in DOMAIN api_sessions |->
              IF api_sessions[i].actor = a /\ api_sessions[i].revoked = Api!Never
              THEN [api_sessions[i] EXCEPT !.revoked = api_now] ELSE api_sessions[i]]
        /\ api_now' = api_now /\ api_requests' = api_requests /\ api_sealed' = api_sealed
        /\ api_audit' = api_audit
    BY <1>5 DEF Api!RevokeAllFor
  <2>2. ASSUME NEW i \in DOMAIN api_sessions
        PROVE  /\ api_sessions'[i] \in Api!SessionRecords
               /\ api_sessions'[i].actor = api_sessions[i].actor
               /\ api_sessions'[i].issued = api_sessions[i].issued
               /\ api_sessions'[i].absolute = api_sessions[i].absolute
               /\ api_sessions'[i].idle = api_sessions[i].idle
               /\ \/ api_sessions'[i].revoked = api_sessions[i].revoked
                  \/ api_sessions'[i].revoked = api_now
    <3>1. api_sessions[i] \in Api!SessionRecords
      BY <1>0 DEF Api!SessionsAre
    <3>2. \/ api_sessions'[i] = [api_sessions[i] EXCEPT !.revoked = api_now]
          \/ api_sessions'[i] = api_sessions[i]
      BY <2>1
    <3>3. \A n \in Nat :
            /\ [api_sessions[i] EXCEPT !.revoked = n] \in Api!SessionRecords
            /\ [api_sessions[i] EXCEPT !.revoked = n].actor = api_sessions[i].actor
            /\ [api_sessions[i] EXCEPT !.revoked = n].issued = api_sessions[i].issued
            /\ [api_sessions[i] EXCEPT !.revoked = n].absolute = api_sessions[i].absolute
            /\ [api_sessions[i] EXCEPT !.revoked = n].idle = api_sessions[i].idle
            /\ [api_sessions[i] EXCEPT !.revoked = n].revoked = n
      BY <3>1, SessionIs
    <3>4. CASE api_sessions'[i] = [api_sessions[i] EXCEPT !.revoked = api_now]
      <4> DEFINE ended == [api_sessions[i] EXCEPT !.revoked = api_now]
      <4>1. /\ ended \in Api!SessionRecords /\ ended.actor = api_sessions[i].actor
            /\ ended.issued = api_sessions[i].issued /\ ended.absolute = api_sessions[i].absolute
            /\ ended.idle = api_sessions[i].idle /\ ended.revoked = api_now
        BY <1>0, <3>3
      <4>2. api_sessions'[i] = ended
        BY <3>4
      <4> HIDE DEF ended
      <4>3. QED
        BY <4>1, <4>2
    <3>5. QED
      BY <3>1, <3>2, <3>4
  <2>3. /\ DOMAIN api_sessions' = DOMAIN api_sessions
        /\ api_sessions' \in Seq(Api!SessionRecords)
    <3>1. DOMAIN api_sessions = 1..Len(api_sessions) /\ Len(api_sessions) \in Nat
      BY <1>0 DEF Api!SessionsAre
    <3>2. DOMAIN api_sessions' = DOMAIN api_sessions
      BY <2>1
    <3>3. QED
      BY <3>1, <3>2, <2>1, <2>2
  <2>4. Api!SessionsAre'
    BY <1>0, <2>1, <2>2, <2>3 DEF Api!SessionsAre
  <2>5. keeps
    BY <1>0, <2>1, <2>2, <2>3
  <2>6. QED
    BY <2>4, <2>5, <1>1
<1>6. QED
  BY <1>2, <1>3, <1>4, <1>5

\* A request that moves moves alone: the others are as they were.
LEMMA OthersStay ==
    ASSUME Api!ApiInv, NEW r \in ApiRequests,
           api_now' = api_now, api_sealed' = api_sealed,
           api_requests' \in [ApiRequests -> Api!RequestRecords],
           \A o \in ApiRequests \ {r} : api_requests'[o] = api_requests[o],
           api_audit \subseteq api_audit',
           \A e \in api_audit' : e \in api_audit \/ (e.what = "READ" => e.request = r),
           \A i \in DOMAIN api_sessions :
              /\ i \in DOMAIN api_sessions'
              /\ api_sessions'[i].actor = api_sessions[i].actor
              /\ api_sessions'[i].issued = api_sessions[i].issued
              /\ api_sessions'[i].revoked = api_sessions[i].revoked,
           Api!SessionsAre', Api!RequestIs(r)'
    PROVE  Api!ApiInv'
<1>0. /\ api_now \in Nat /\ api_sealed \in BOOLEAN
      /\ api_requests \in [ApiRequests -> Api!RequestRecords]
      /\ Api!SessionsAre /\ \A o \in ApiRequests : Api!RequestIs(o)
  BY DEF Api!ApiInv
<1>1. ASSUME NEW o \in ApiRequests, o # r
      PROVE  Api!RequestIs(o)'
  BY <1>0, <1>1, RequestStays
<1>2. \A o \in ApiRequests : Api!RequestIs(o)'
  BY <1>1
<1>3. QED
  BY <1>0, <1>2 DEF Api!ApiInv

\* A request that is let on to another stage keeps who it is for; the record written on
\* the way is in the log.
LEMMA RequestEnds ==
    ASSUME NEW r \in ApiRequests, api_requests \in [ApiRequests -> Api!RequestRecords],
           NEW stage \in Api!Stages, api_requests' = Api!Ended(r, stage)
    PROVE  /\ api_requests' \in [ApiRequests -> Api!RequestRecords]
           /\ \A o \in ApiRequests \ {r} : api_requests'[o] = api_requests[o]
           /\ api_requests'[r].stage = stage
           /\ api_requests'[r].actor = api_requests[r].actor
           /\ api_requests'[r].route = api_requests[r].route
           /\ api_requests'[r].project = api_requests[r].project
           /\ api_requests'[r].session = api_requests[r].session
           /\ api_requests'[r].began = api_requests[r].began
           /\ api_requests'[r].fields = api_requests[r].fields
  BY DEF Api!Ended, Api!RequestRecords

LEMMA EntryIs ==
    ASSUME NEW r, NEW q, NEW what, NEW fields
    PROVE  LET e == Api!EntryOf(r, q, what, fields)
           IN  e.what = what /\ e.request = r /\ e.fields = fields
  BY DEF Api!EntryOf

LEMMA AuthoriseMoves ==
    ASSUME Api!ApiInv, NEW r \in ApiRequests, Api!Authorise(r)
    PROVE  Api!ApiInv'
<1>0. /\ api_now \in Nat /\ api_sealed \in BOOLEAN
      /\ api_requests \in [ApiRequests -> Api!RequestRecords]
      /\ Api!SessionsAre /\ \A o \in ApiRequests : Api!RequestIs(o)
  BY DEF Api!ApiInv
<1>1. /\ api_requests[r].stage = "scoping"
      /\ api_now' = api_now /\ api_sessions' = api_sessions /\ api_sealed' = api_sealed
  BY DEF Api!Authorise
<1>2. PICK stage \in {"404", "error", "handling"} :
        /\ api_requests' = Api!Ended(r, stage)
        /\ stage = "404" => api_audit' = api_audit \cup {Api!Entry(r, "DENY", {})}
        /\ stage = "error" => api_audit' = api_audit
        /\ stage = "handling" => Api!InScope(r)
        /\ stage = "handling" /\ Api!Audited(r) =>
              api_audit' = api_audit \cup {Api!Entry(r, "GRANT", {})}
        /\ stage = "handling" /\ ~Api!Audited(r) => api_audit' = api_audit
  BY DEF Api!Authorise, Api!Recorded
<1>3. /\ api_audit \subseteq api_audit'
      /\ \A e \in api_audit' : e \in api_audit \/ e.what # "READ"
  BY <1>2, EntryIs DEF Api!Entry
<1>4. /\ api_requests' \in [ApiRequests -> Api!RequestRecords]
      /\ \A o \in ApiRequests \ {r} : api_requests'[o] = api_requests[o]
      /\ api_requests'[r].stage = stage
      /\ api_requests'[r].actor = api_requests[r].actor
      /\ api_requests'[r].route = api_requests[r].route
      /\ api_requests'[r].project = api_requests[r].project
      /\ api_requests'[r].session = api_requests[r].session
      /\ api_requests'[r].began = api_requests[r].began
      /\ api_requests'[r].fields = api_requests[r].fields
  <2>1. stage \in Api!Stages
    BY DEF Api!Stages
  <2>2. QED
    BY <2>1, <1>0, <1>2, RequestEnds
<1>5. /\ \A what, fields : Api!Entry(r, what, fields)' = Api!Entry(r, what, fields)
      /\ Api!InScope(r)' <=> Api!InScope(r)
      /\ Api!Audited(r)' <=> Api!Audited(r)
  BY <1>4, SameRequest
<1>6. \A e : e \in Api!Reads(r)' <=> e \in Api!Reads(r)
  BY <1>3 DEF Api!Reads
<1>7. Api!RequestIs(r)
  BY <1>0
<1>8. Api!RequestIs(r)'
  <2>1. api_requests[r].actor \in ApiActors /\ api_requests[r].route \in DOMAIN ApiRoutes
    BY <1>1, <1>7 DEF Api!RequestIs
  <2>2. /\ api_requests[r].session \in DOMAIN api_sessions
        /\ api_sessions[api_requests[r].session].actor = api_requests[r].actor
        /\ Api!Capable(api_requests[r].actor, api_requests[r].route)
        /\ api_requests[r].began <= api_now
        /\ api_requests[r].began < api_sessions[api_requests[r].session].issued + ApiAbsolute
        /\ api_sessions[api_requests[r].session].revoked # Api!Never =>
              api_requests[r].began <= api_sessions[api_requests[r].session].revoked
    BY <1>1, <1>7 DEF Api!RequestIs, Api!Passed
  <2>3. Api!Reads(r)' = {}
    BY <1>1, <1>6, <1>7 DEF Api!RequestIs
  <2>4. stage = "handling" => Api!InScope(r)' /\ (Api!Audited(r)' => Api!Entry(r, "GRANT", {})' \in api_audit')
    BY <1>2, <1>5
  <2>5. stage = "404" => Api!Entry(r, "DENY", {})' \in api_audit'
    BY <1>2, <1>5
  <2>6. QED
    BY <1>1, <1>4, <2>1, <2>2, <2>3, <2>4, <2>5 DEF Api!RequestIs
<1>9. Api!SessionsAre'
  BY <1>0, <1>1 DEF Api!SessionsAre
<1>10. QED
  BY <1>0, <1>1, <1>3, <1>4, <1>8, <1>9, OthersStay

LEMMA HandleMoves ==
    ASSUME Api!ApiInv, NEW r \in ApiRequests, Api!Handle(r)
    PROVE  Api!ApiInv'
<1>0. /\ api_now \in Nat /\ api_sealed \in BOOLEAN
      /\ api_requests \in [ApiRequests -> Api!RequestRecords]
      /\ Api!SessionsAre /\ \A o \in ApiRequests : Api!RequestIs(o)
  BY DEF Api!ApiInv
<1>1. /\ api_requests[r].stage = "handling"
      /\ api_now' = api_now /\ api_sessions' = api_sessions /\ api_sealed' = api_sealed
  BY DEF Api!Handle
<1> DEFINE write == ApiRoutes[api_requests[r].route].write
           reads == ~write /\ ApiRoutes[api_requests[r].route].audited /\ Api!RecordedFields(r) # {}
<1>2. PICK stage \in {"error", "shaped"} :
        /\ api_requests' = Api!Ended(r, stage)
        /\ stage = "error" => api_audit' = api_audit
        /\ stage = "shaped" /\ write => api_audit' = api_audit \cup {Api!Entry(r, "WRITE", {})}
        /\ stage = "shaped" /\ reads =>
              api_audit' = api_audit \cup {Api!Entry(r, "READ", Api!RecordedFields(r))}
        /\ stage = "shaped" /\ ~write /\ ~reads => api_audit' = api_audit
  BY DEF Api!Handle, Api!Recorded
<1>3. /\ api_audit \subseteq api_audit'
      /\ \A e \in api_audit' : e \in api_audit \/ (e.what = "READ" => e.request = r)
  BY <1>2, EntryIs DEF Api!Entry
<1>4. /\ api_requests' \in [ApiRequests -> Api!RequestRecords]
      /\ \A o \in ApiRequests \ {r} : api_requests'[o] = api_requests[o]
      /\ api_requests'[r].stage = stage
      /\ api_requests'[r].actor = api_requests[r].actor
      /\ api_requests'[r].route = api_requests[r].route
      /\ api_requests'[r].project = api_requests[r].project
      /\ api_requests'[r].session = api_requests[r].session
      /\ api_requests'[r].began = api_requests[r].began
      /\ api_requests'[r].fields = api_requests[r].fields
  <2>1. stage \in Api!Stages
    BY DEF Api!Stages
  <2>2. QED
    BY <2>1, <1>0, <1>2, RequestEnds
<1>5. /\ \A what, fields : Api!Entry(r, what, fields)' = Api!Entry(r, what, fields)
      /\ Api!InScope(r)' <=> Api!InScope(r)
      /\ Api!Audited(r)' <=> Api!Audited(r)
      /\ Api!RecordedFields(r)' = Api!RecordedFields(r)
  BY <1>4, SameRequest
<1>7. Api!RequestIs(r)
  BY <1>0
<1>8. Api!RequestIs(r)'
  <2>1. api_requests[r].actor \in ApiActors /\ api_requests[r].route \in DOMAIN ApiRoutes
    BY <1>1, <1>7 DEF Api!RequestIs
  <2>2. /\ api_requests[r].session \in DOMAIN api_sessions
        /\ api_sessions[api_requests[r].session].actor = api_requests[r].actor
        /\ Api!Capable(api_requests[r].actor, api_requests[r].route)
        /\ api_requests[r].began <= api_now
        /\ api_requests[r].began < api_sessions[api_requests[r].session].issued + ApiAbsolute
        /\ api_sessions[api_requests[r].session].revoked # Api!Never =>
              api_requests[r].began <= api_sessions[api_requests[r].session].revoked
    BY <1>1, <1>7 DEF Api!RequestIs, Api!Passed
  <2>3. Api!InScope(r)' /\ (Api!Audited(r)' => Api!Entry(r, "GRANT", {})' \in api_audit')
    BY <1>1, <1>3, <1>5, <1>7 DEF Api!RequestIs
  <2>4. stage = "shaped" /\ write => Api!Entry(r, "WRITE", {})' \in api_audit'
    BY <1>2, <1>5
  <2>5. stage = "shaped" /\ ~write /\ Api!Audited(r)' =>
           /\ \A e \in Api!Reads(r)' : e.fields = Api!RecordedFields(r)'
           /\ Api!RecordedFields(r)' # {} => Api!Reads(r)' # {}
    <3>1. Api!Reads(r) = {}
      BY <1>1, <1>7 DEF Api!RequestIs
    <3>2. SUFFICES ASSUME stage = "shaped", ~write, Api!Audited(r)
                   PROVE  /\ \A e \in Api!Reads(r)' : e.fields = Api!RecordedFields(r)
                          /\ Api!RecordedFields(r) # {} => Api!Reads(r)' # {}
      BY <1>5
    <3>3. ApiRoutes[api_requests[r].route].audited
      BY <3>2 DEF Api!Audited
    <3>4. CASE reads
      <4> DEFINE entry == Api!Entry(r, "READ", Api!RecordedFields(r))
      <4>1. api_audit' = api_audit \cup {entry}
        BY <1>2, <3>2, <3>4
      <4>2. entry.what = "READ" /\ entry.request = r /\ entry.fields = Api!RecordedFields(r)
        BY EntryIs DEF Api!Entry
      <4> HIDE DEF entry
      <4>3. \A e \in Api!Reads(r)' : e = entry
        BY <3>1, <4>1 DEF Api!Reads
      <4>4. entry \in Api!Reads(r)'
        BY <4>1, <4>2 DEF Api!Reads
      <4>5. QED
        BY <4>2, <4>3, <4>4
    <3>5. CASE ~reads
      <4>1. Api!RecordedFields(r) = {}
        BY <3>2, <3>3, <3>5
      <4>2. Api!Reads(r)' = {}
        BY <1>2, <3>1, <3>2, <3>5 DEF Api!Reads
      <4>3. QED
        BY <4>1, <4>2
    <3>6. QED
      BY <3>4, <3>5
  <2>6. QED
    BY <1>1, <1>4, <2>1, <2>2, <2>3, <2>4, <2>5 DEF Api!RequestIs
<1>9. Api!SessionsAre'
  BY <1>0, <1>1 DEF Api!SessionsAre
<1>10. QED
  BY <1>0, <1>1, <1>3, <1>4, <1>8, <1>9, OthersStay

LEMMA AnswerMoves ==
    ASSUME Api!ApiInv, NEW r \in ApiRequests, Api!Answer(r)
    PROVE  Api!ApiInv'
<1>0. /\ api_now \in Nat /\ api_sealed \in BOOLEAN
      /\ api_requests \in [ApiRequests -> Api!RequestRecords]
      /\ Api!SessionsAre /\ \A o \in ApiRequests : Api!RequestIs(o)
  BY DEF Api!ApiInv
<1>1. /\ api_requests[r].stage = "shaped"
      /\ api_requests' = [api_requests EXCEPT ![r].stage = "200", ![r].fields = Api!Shaped(r)]
      /\ api_now' = api_now /\ api_sessions' = api_sessions /\ api_sealed' = api_sealed
      /\ api_audit' = api_audit
  BY DEF Api!Answer
<1>2. Api!RequestIs(r)
  BY <1>0
<1>3. api_requests[r].route \in DOMAIN ApiRoutes
  BY <1>1, <1>2 DEF Api!RequestIs
<1>4. Api!Shaped(r) \in SUBSET UNION {ApiRoutes[route].fields : route \in DOMAIN ApiRoutes}
  BY <1>3 DEF Api!Shaped
<1>5. /\ api_requests' \in [ApiRequests -> Api!RequestRecords]
      /\ \A o \in ApiRequests \ {r} : api_requests'[o] = api_requests[o]
      /\ api_requests'[r].stage = "200"
      /\ api_requests'[r].actor = api_requests[r].actor
      /\ api_requests'[r].route = api_requests[r].route
      /\ api_requests'[r].project = api_requests[r].project
      /\ api_requests'[r].session = api_requests[r].session
      /\ api_requests'[r].began = api_requests[r].began
      /\ api_requests'[r].fields = Api!Shaped(r)
  BY <1>0, <1>1, <1>4 DEF Api!RequestRecords, Api!Stages
<1>6. /\ \A what, fields : Api!Entry(r, what, fields)' = Api!Entry(r, what, fields)
      /\ Api!InScope(r)' <=> Api!InScope(r)
      /\ Api!Audited(r)' <=> Api!Audited(r)
      /\ Api!Shaped(r)' = Api!Shaped(r)
      /\ Api!RecordedFields(r)' = Api!RecordedFields(r)
  BY <1>5, SameRequest
<1>7. \A e : e \in Api!Reads(r)' <=> e \in Api!Reads(r)
  BY <1>1 DEF Api!Reads
<1>8. Api!RequestIs(r)'
  <2>1. /\ api_requests[r].actor \in ApiActors
        /\ api_requests[r].session \in DOMAIN api_sessions
        /\ api_sessions[api_requests[r].session].actor = api_requests[r].actor
        /\ Api!Capable(api_requests[r].actor, api_requests[r].route)
        /\ api_requests[r].began <= api_now
        /\ api_requests[r].began < api_sessions[api_requests[r].session].issued + ApiAbsolute
        /\ api_sessions[api_requests[r].session].revoked # Api!Never =>
              api_requests[r].began <= api_sessions[api_requests[r].session].revoked
    BY <1>1, <1>2 DEF Api!RequestIs, Api!Passed
  <2>2. /\ Api!InScope(r) /\ (Api!Audited(r) => Api!Entry(r, "GRANT", {}) \in api_audit)
        /\ ApiRoutes[api_requests[r].route].write => Api!Entry(r, "WRITE", {}) \in api_audit
        /\ ~ApiRoutes[api_requests[r].route].write /\ Api!Audited(r) =>
              /\ \A e \in Api!Reads(r) : e.fields = Api!RecordedFields(r)
              /\ Api!RecordedFields(r) # {} => Api!Reads(r) # {}
    BY <1>1, <1>2 DEF Api!RequestIs
  <2>3. QED
    BY <1>1, <1>3, <1>5, <1>6, <1>7, <2>1, <2>2 DEF Api!RequestIs
<1>9. Api!SessionsAre'
  BY <1>0, <1>1 DEF Api!SessionsAre
<1>10. QED
  BY <1>0, <1>1, <1>5, <1>8, <1>9, OthersStay

\* A session that is used keeps its actor and its lifetime; only its idle window moves.
LEMMA SessionSlides ==
    ASSUME api_now \in Nat, Api!SessionsAre, NEW i \in DOMAIN api_sessions, api_now' = api_now,
           api_sessions' = IF Api!Valid(api_sessions[i])
                           THEN [api_sessions EXCEPT ![i] = Api!Slide(@)] ELSE api_sessions
    PROVE  /\ Api!SessionsAre'
           /\ DOMAIN api_sessions' = DOMAIN api_sessions
           /\ \A j \in DOMAIN api_sessions :
                 /\ api_sessions'[j].actor = api_sessions[j].actor
                 /\ api_sessions'[j].issued = api_sessions[j].issued
                 /\ api_sessions'[j].revoked = api_sessions[j].revoked
<1> DEFINE slid == Api!Slide(api_sessions[i])
<1>1. api_sessions[i] \in Api!SessionRecords /\ api_sessions \in Seq(Api!SessionRecords)
  BY DEF Api!SessionsAre
<1>2. /\ slid \in Api!SessionRecords
      /\ slid.actor = api_sessions[i].actor /\ slid.issued = api_sessions[i].issued
      /\ slid.revoked = api_sessions[i].revoked /\ slid.absolute = api_sessions[i].absolute
      /\ slid.idle <= slid.absolute
  <2>1. PICK n \in Nat : n <= api_sessions[i].absolute /\ slid = [api_sessions[i] EXCEPT !.idle = n]
    <3>1. api_sessions[i].absolute \in Nat /\ api_now + ApiIdle \in Nat
      BY <1>1, SessionIs, ApiNumbers
    <3>2. slid = [api_sessions[i] EXCEPT !.idle =
                    IF api_now + ApiIdle <= api_sessions[i].absolute THEN api_now + ApiIdle
                    ELSE api_sessions[i].absolute]
      BY DEF Api!Slide
    <3> HIDE DEF slid
    <3>3. CASE api_now + ApiIdle <= api_sessions[i].absolute
      BY <3>1, <3>2, <3>3
    <3>4. CASE ~(api_now + ApiIdle <= api_sessions[i].absolute)
      BY <3>1, <3>2, <3>4
    <3>5. QED
      BY <3>3, <3>4
  <2> HIDE DEF slid
  <2>2. QED
    BY <1>1, <2>1, SessionIs
<1>3. api_sessions' = [api_sessions EXCEPT ![i] = slid] \/ api_sessions' = api_sessions
  OBVIOUS
<1> HIDE DEF slid
<1>4. /\ api_sessions' \in Seq(Api!SessionRecords) /\ DOMAIN api_sessions' = DOMAIN api_sessions
      /\ \A j \in DOMAIN api_sessions :
            api_sessions'[j] = api_sessions[j] \/ (j = i /\ api_sessions'[j] = slid)
  BY <1>1, <1>2, <1>3
<1>5. \A j \in DOMAIN api_sessions :
         /\ api_sessions'[j].actor = api_sessions[j].actor
         /\ api_sessions'[j].issued = api_sessions[j].issued
         /\ api_sessions'[j].revoked = api_sessions[j].revoked
         /\ api_sessions'[j].absolute = api_sessions[j].absolute
         /\ api_sessions'[j].idle <= api_sessions'[j].absolute
  BY <1>2, <1>4 DEF Api!SessionsAre
<1>6. Api!SessionsAre'
  BY <1>4, <1>5 DEF Api!SessionsAre
<1>7. QED
  BY <1>4, <1>5, <1>6

LEMMA DispatchMoves ==
    ASSUME Api!ApiInv, NEW r \in ApiRequests, NEW a \in ApiActors, NEW i \in Api!Ids,
           NEW route \in DOMAIN ApiRoutes, NEW p \in ApiProjects \cup {Api!None},
           Api!Dispatch(r, a, i, route, p)
    PROVE  Api!ApiInv'
<1>0. /\ api_now \in Nat /\ api_sealed \in BOOLEAN
      /\ api_requests \in [ApiRequests -> Api!RequestRecords]
      /\ Api!SessionsAre /\ \A o \in ApiRequests : Api!RequestIs(o)
  BY DEF Api!ApiInv
<1> DEFINE goesOn == Api!Authentic(api_sessions[i], a) /\ Api!Capable(a, route)
           stage == IF goesOn THEN "scoping" ELSE IF api_sealed THEN "error" ELSE "404"
           q == [actor |-> a, session |-> i, route |-> route, project |-> p, stage |-> stage,
                 began |-> api_now, fields |-> {}]
<1>1. /\ api_requests[r].stage = "idle" /\ i \in DOMAIN api_sessions
      /\ api_now' = api_now /\ api_sealed' = api_sealed
      /\ api_sessions' = IF Api!Valid(api_sessions[i])
                         THEN [api_sessions EXCEPT ![i] = Api!Slide(@)] ELSE api_sessions
      /\ api_requests' = [api_requests EXCEPT ![r] = q]
      /\ api_audit' = IF stage = "404" THEN api_audit \cup {Api!EntryOf(r, q, "DENY", {})}
                      ELSE api_audit
  BY DEF Api!Dispatch
<1>2. /\ Api!SessionsAre'
      /\ DOMAIN api_sessions' = DOMAIN api_sessions
      /\ \A j \in DOMAIN api_sessions :
            /\ api_sessions'[j].actor = api_sessions[j].actor
            /\ api_sessions'[j].issued = api_sessions[j].issued
            /\ api_sessions'[j].revoked = api_sessions[j].revoked
  BY <1>0, <1>1, SessionSlides
<1>3. q \in Api!RequestRecords
  <2>1. i \in Nat /\ stage \in Api!Stages
    BY DEF Api!Ids, Api!Stages
  <2>2. {} \in SUBSET UNION {ApiRoutes[t].fields : t \in DOMAIN ApiRoutes}
    OBVIOUS
  <2> HIDE DEF stage
  <2>3. QED
    BY <1>0, <2>1, <2>2 DEF Api!RequestRecords
<1>4. /\ q.actor = a /\ q.session = i /\ q.route = route /\ q.project = p /\ q.stage = stage
      /\ q.began = api_now
  OBVIOUS
<1>5. goesOn =>
        /\ api_sessions[i].actor = a /\ Api!Capable(a, route)
        /\ api_sessions[i].revoked = Api!Never /\ api_now < api_sessions[i].absolute
  BY DEF Api!Authentic, Api!Valid
<1>6. stage \in {"scoping", "error", "404"} /\ (stage = "scoping" => goesOn)
  OBVIOUS
<1> HIDE DEF goesOn, stage, q
<1>7. /\ api_audit \subseteq api_audit'
      /\ \A e \in api_audit' : e \in api_audit \/ e.what # "READ"
  BY <1>1, EntryIs
<1>8. /\ api_requests' \in [ApiRequests -> Api!RequestRecords]
      /\ \A o \in ApiRequests \ {r} : api_requests'[o] = api_requests[o]
      /\ api_requests'[r] = q
  BY <1>0, <1>1, <1>3
<1>9. Api!RequestIs(r)
  BY <1>0
<1>10. Api!RequestIs(r)'
  <2>1. Api!Reads(r)' = {}
    <3>1. Api!Reads(r) = {}
      BY <1>1, <1>9 DEF Api!RequestIs
    <3>2. QED
      BY <3>1, <1>7 DEF Api!Reads
  <2>2. stage = "404" => Api!Entry(r, "DENY", {})' \in api_audit'
    BY <1>1, <1>8 DEF Api!Entry, Api!EntryOf
  <2>3. stage = "scoping" =>
          /\ i \in DOMAIN api_sessions' /\ api_sessions'[i].actor = a
          /\ Api!Capable(a, route)
          /\ api_now <= api_now' /\ api_now < api_sessions'[i].issued + ApiAbsolute
          /\ api_sessions'[i].revoked # Api!Never => api_now <= api_sessions'[i].revoked
    <3>1. api_sessions[i].absolute = api_sessions[i].issued + ApiAbsolute
      BY <1>0, <1>1 DEF Api!SessionsAre
    <3>2. stage = "scoping" =>
            /\ api_sessions[i].actor = a /\ Api!Capable(a, route)
            /\ api_sessions[i].revoked = Api!Never /\ api_now < api_sessions[i].absolute
      BY <1>5, <1>6
    <3>3. api_now <= api_now'
      BY <1>0, <1>1
    <3>4. QED
      BY <1>1, <1>2, <3>1, <3>2, <3>3
  <2>4. QED
    BY <1>4, <1>6, <1>8, <2>1, <2>2, <2>3 DEF Api!RequestIs, Api!Passed
<1>11. QED
  BY <1>0, <1>1, <1>2, <1>7, <1>8, <1>10, OthersStay

LEMMA ApiBegins == Api!Init => Api!ApiInv
<1> SUFFICES ASSUME Api!Init PROVE Api!ApiInv
  OBVIOUS
<1>1. /\ api_now = 0 /\ api_sessions = <<>> /\ api_sealed = FALSE /\ api_audit = {}
      /\ api_requests = [r \in ApiRequests |-> Api!Idling]
  BY DEF Api!Init
<1>2. Api!Idling \in Api!RequestRecords
  BY DEF Api!Idling, Api!RequestRecords, Api!Stages
<1>3. Api!SessionsAre
  BY <1>1 DEF Api!SessionsAre
<1>4. ASSUME NEW r \in ApiRequests
      PROVE  Api!RequestIs(r)
  <2>1. api_requests[r].stage = "idle" /\ Api!Reads(r) = {}
    BY <1>1 DEF Api!Idling, Api!Reads
  <2>2. QED
    BY <2>1 DEF Api!RequestIs, Api!Passed
<1>5. QED
  BY <1>1, <1>2, <1>3, <1>4 DEF Api!ApiInv

LEMMA ApiMoves ==
    ASSUME Api!ApiInv, Api!Next \/ UNCHANGED apiVars
    PROVE  Api!ApiInv'
<1>1. CASE UNCHANGED apiVars
  <2>1. /\ api_now' = api_now /\ api_sessions' = api_sessions /\ api_sealed' = api_sealed
        /\ api_requests' = api_requests /\ api_audit' = api_audit
    BY <1>1 DEF apiVars
  <2>2. Api!ApiInv' <=> Api!ApiInv
    BY <2>1 DEF Api!ApiInv, Api!SessionsAre, Api!RequestIs, Api!Reads, Api!Entry, Api!InScope,
                Api!Audited, Api!Shaped, Api!RecordedFields
  <2>3. QED
    BY <2>2
<1>2. CASE Api!Next
  BY <1>2, SessionsMove, AuthoriseMoves, HandleMoves, AnswerMoves, DispatchMoves
  DEF Api!Next
<1>3. QED
  BY <1>1, <1>2

\* No request is answered beyond its session, its scope or its role, none begins with a
\* session that was revoked, and what is answered is on the log (dispatcher.ts,
\* identity-provider.ts, enforcement.ts): Service's AnswersAreAuthorised, with ApiInv.
THEOREM AnswersAreAlwaysAuthorised == ServiceSpec => []AnswersAreAuthorised
<1> DEFINE Inv == part = "api" => Api!ApiInv
<1>1. ServiceInit => Inv
  BY Starts, ApiBegins
<1>2. Inv /\ [ServiceNext]_serviceVars => Inv'
  BY Moves, ApiMoves
<1>3. Inv => AnswersAreAuthorised
  <2>1. ASSUME Api!ApiInv, part = "api"
        PROVE  AnswersAreAuthorised
    <3>1. ASSUME NEW r \in Api!Granted
          PROVE  /\ r \in ApiRequests /\ Api!RequestIs(r) /\ api_requests[r].stage = "200"
                 /\ api_requests[r].stage \in Api!Passed
      BY <2>1 DEF Api!Granted, Api!ApiInv, Api!Passed
    <3>2. Api!RevokedStartsNothing
      BY <3>1 DEF Api!RevokedStartsNothing, Api!RequestIs
    <3>3. Api!AnswersAreAuthorised
      BY <3>1 DEF Api!AnswersAreAuthorised, Api!RequestIs, Api!InScope
    <3>4. ASSUME NEW r \in Api!Granted, Api!Audited(r)
          PROVE  /\ Api!Entry(r, "GRANT", {}) \in api_audit
                 /\ ApiRoutes[api_requests[r].route].write => Api!Entry(r, "WRITE", {}) \in api_audit
                 /\ ~ApiRoutes[api_requests[r].route].write =>
                       api_requests[r].fields \cap ApiSensitive =
                         UNION {e.fields : e \in {e \in api_audit : e.what = "READ" /\ e.request = r}}
      <4>1. /\ Api!Entry(r, "GRANT", {}) \in api_audit
            /\ ApiRoutes[api_requests[r].route].write => Api!Entry(r, "WRITE", {}) \in api_audit
        BY <3>1, <3>4 DEF Api!RequestIs
      <4>2. ASSUME ~ApiRoutes[api_requests[r].route].write
            PROVE  api_requests[r].fields \cap ApiSensitive = UNION {e.fields : e \in Api!Reads(r)}
        <5>1. api_requests[r].fields \cap ApiSensitive = Api!RecordedFields(r)
          BY <3>1 DEF Api!RequestIs, Api!RecordedFields
        <5>2. /\ \A e \in Api!Reads(r) : e.fields = Api!RecordedFields(r)
              /\ Api!RecordedFields(r) # {} => Api!Reads(r) # {}
          BY <3>1, <3>4, <4>2 DEF Api!RequestIs
        <5>3. \A f : f \in UNION {e.fields : e \in Api!Reads(r)} <=>
                        \E e \in Api!Reads(r) : f \in e.fields
          OBVIOUS
        <5>4. QED
          BY <5>1, <5>2, <5>3
      <4>3. QED
        BY <4>1, <4>2 DEF Api!Reads
    <3>5. \A r \in ApiRequests : api_requests[r].stage = "404" => Api!Entry(r, "DENY", {}) \in api_audit
      BY <2>1 DEF Api!ApiInv, Api!RequestIs
    <3>6. Api!AnswersAreAudited
      BY <3>4, <3>5 DEF Api!AnswersAreAudited
    <3>7. QED
      BY <3>2, <3>3, <3>6 DEF AnswersAreAuthorised
  <2>2. QED
    BY <2>1 DEF AnswersAreAuthorised
<1>4. QED
  BY <1>1, <1>2, <1>3, PTL DEF ServiceSpec
-----------------------------------------------------------------------------
(* The audit trail                                                         *)

LEMMA TrailKept == ASSUME NEW s, NEW at PROVE Trail!Kept(s, at) = Kept(s, at)
<1>0. \A S : Trail!Cardinality(S) = Cardinality(S)
  BY DEF Trail!Cardinality, Cardinality
<1>1. \A i : Trail!Nth(at, i) = Nth(at, i)
  BY <1>0 DEF Trail!Nth, Nth
<1>2. QED
  BY <1>0, <1>1 DEF Trail!Kept, Kept

LEMMA TrailNumbers ==
    /\ TrailActors \subseteq Nat /\ TrailActorOf \in [TrailCallers -> TrailActors]
    /\ TrailLastMs \in Nat /\ TrailLastMs > 0 /\ TrailReadLimit \in Nat /\ TrailReadLimit > 0
    /\ TrailShown \in Nat /\ TrailShown > 0 /\ TrailListCap \in Nat /\ TrailListCap > 0
    /\ TrailShown <= TrailReadLimit /\ TrailReadLimit <= TrailListCap
  BY ConstantsAreTheirs DEF Trail!AuditAssumption

\* Addresses are ordered: of two different ones, one comes before the other.
LEMMA Addresses ==
    ASSUME NEW a \in Trail!Record, NEW b \in Trail!Record
    PROVE  /\ Trail!Before(Trail!Address(a), Trail!Address(b)) <=>
                 a.actor < b.actor \/ (a.actor = b.actor /\ a.at < b.at)
           /\ a.actor \in Nat /\ b.actor \in Nat /\ a.at \in Nat /\ b.at \in Nat
           /\ a.at <= TrailLastMs /\ b.at <= TrailLastMs
<1>1. /\ a.actor \in TrailActors /\ b.actor \in TrailActors
      /\ a.at \in 0..TrailLastMs /\ b.at \in 0..TrailLastMs
  BY DEF Trail!Record
<1>2. /\ a.actor \in Nat /\ b.actor \in Nat /\ a.at \in Nat /\ b.at \in Nat
      /\ a.at <= TrailLastMs /\ b.at <= TrailLastMs
  <2>1. TrailActors \subseteq Nat /\ TrailLastMs \in Nat
    BY TrailNumbers
  <2>2. a.actor \in Nat /\ b.actor \in Nat
    BY <1>1, <2>1
  <2>3. \A n \in 0..TrailLastMs : n \in Nat /\ n <= TrailLastMs
    BY <2>1
  <2>4. QED
    BY <1>1, <2>2, <2>3
<1>3. Trail!Before(Trail!Address(a), Trail!Address(b)) <=>
         a.actor < b.actor \/ (a.actor = b.actor /\ a.at < b.at)
  BY DEF Trail!Before, Trail!Address
<1>4. QED
  BY <1>2, <1>3

\* The records of a list in order, filtered: a list in order.
LEMMA InOrderStays ==
    ASSUME NEW s \in Seq(Trail!Record), NEW at, at \subseteq DOMAIN s,
           \A i, j \in DOMAIN s : i < j => Trail!InOrder(s[i], s[j])
    PROVE  /\ Kept(s, at) \in Seq(Trail!Record)
           /\ \A i \in DOMAIN Kept(s, at) : \E n \in at : Kept(s, at)[i] = s[n]
           /\ \A i, j \in DOMAIN Kept(s, at) : i < j => Trail!InOrder(Kept(s, at)[i], Kept(s, at)[j])
<1>1. /\ Kept(s, at) \in Seq(Trail!Record)
      /\ \A i \in DOMAIN Kept(s, at) : \E n \in at : Kept(s, at)[i] = s[n]
      /\ \A i, j \in DOMAIN Kept(s, at) : i < j =>
            \E m, n \in at : m < n /\ Kept(s, at)[i] = s[m] /\ Kept(s, at)[j] = s[n]
  BY KeptIs
<1>2. QED
  BY <1>1

\* What replaces the record at its address, or takes its place, keeps the store in the
\* order of its addresses.
LEMMA PutKeepsOrder ==
    ASSUME NEW s \in Seq(Trail!Record), NEW r \in Trail!Record,
           \A i, j \in DOMAIN s : i < j => Trail!Before(Trail!Address(s[i]), Trail!Address(s[j]))
    PROVE  /\ Trail!Put(s, r) \in Seq(Trail!Record)
           /\ \A i \in DOMAIN Trail!Put(s, r) :
                 Trail!Put(s, r)[i] = r \/ \E n \in DOMAIN s : Trail!Put(s, r)[i] = s[n]
           /\ \A i, j \in DOMAIN Trail!Put(s, r) : i < j =>
                 Trail!Before(Trail!Address(Trail!Put(s, r)[i]), Trail!Address(Trail!Put(s, r)[j]))
           /\ \E i \in DOMAIN Trail!Put(s, r) : Trail!Put(s, r)[i] = r
           /\ \A n \in DOMAIN s : \/ Trail!Address(s[n]) = Trail!Address(r)
                                  \/ \E i \in DOMAIN Trail!Put(s, r) : Trail!Put(s, r)[i] = s[n]
<1> DEFINE B(a, b) == Trail!Before(Trail!Address(a), Trail!Address(b))
           x == Kept(s, Trail!Ahead(s, r))
           y == Kept(s, Trail!Behind(s, r))
           t == Trail!Put(s, r)
<1>0. \A a, b, c \in Trail!Record : B(a, b) /\ B(b, c) => B(a, c)
  BY Addresses
<1>a. ASSUME NEW a \in Trail!Record, NEW b \in Trail!Record
      PROVE  B(a, b) \/ B(b, a) \/ Trail!Address(a) = Trail!Address(b)
  <2>1. /\ B(a, b) <=> a.actor < b.actor \/ (a.actor = b.actor /\ a.at < b.at)
        /\ B(b, a) <=> b.actor < a.actor \/ (b.actor = a.actor /\ b.at < a.at)
        /\ a.actor \in Nat /\ b.actor \in Nat /\ a.at \in Nat /\ b.at \in Nat
    BY Addresses
  <2>2. a.actor = b.actor /\ a.at = b.at => Trail!Address(a) = Trail!Address(b)
    BY DEF Trail!Address
  <2> HIDE DEF B
  <2>3. QED
    BY <2>1, <2>2
<1>1. t = x \o <<r>> \o y
  BY TrailKept DEF Trail!Put
<1>2. /\ x \in Seq(Trail!Record) /\ Len(x) \in Nat
      /\ \A i \in DOMAIN x : \E n \in DOMAIN s : x[i] = s[n] /\ B(s[n], r)
      /\ \A n \in DOMAIN s : B(s[n], r) => \E i \in DOMAIN x : x[i] = s[n]
      /\ \A i, j \in DOMAIN x : i < j => B(x[i], x[j])
  <2>1. Trail!Ahead(s, r) \subseteq DOMAIN s
    BY DEF Trail!Ahead
  <2>2. \A n : n \in Trail!Ahead(s, r) <=> n \in DOMAIN s /\ B(s[n], r)
    BY DEF Trail!Ahead
  <2> HIDE DEF B
  <2>3. /\ x \in Seq(Trail!Record)
        /\ \A i \in DOMAIN x : \E n \in Trail!Ahead(s, r) : x[i] = s[n]
        /\ \A n \in Trail!Ahead(s, r) : \E i \in DOMAIN x : x[i] = s[n]
        /\ \A i, j \in DOMAIN x : i < j =>
              \E m, n \in Trail!Ahead(s, r) : m < n /\ x[i] = s[m] /\ x[j] = s[n]
    BY <2>1, KeptIs
  <2>4. \A i, j \in DOMAIN s : i < j => B(s[i], s[j])
    BY DEF B
  <2> HIDE DEF x
  <2>5. \A i, j \in DOMAIN x : i < j => B(x[i], x[j])
    <3>1. \A n \in Trail!Ahead(s, r) : n \in DOMAIN s
      BY <2>1
    <3>2. QED
      BY <2>3, <2>4, <3>1
  <2>6. Len(x) \in Nat
    BY <2>3
  <2>7. QED
    BY <2>2, <2>3, <2>5, <2>6
<1>3. /\ y \in Seq(Trail!Record) /\ Len(y) \in Nat
      /\ \A i \in DOMAIN y : \E n \in DOMAIN s : y[i] = s[n] /\ B(r, s[n])
      /\ \A n \in DOMAIN s : B(r, s[n]) => \E i \in DOMAIN y : y[i] = s[n]
      /\ \A i, j \in DOMAIN y : i < j => B(y[i], y[j])
  <2>1. Trail!Behind(s, r) \subseteq DOMAIN s
    BY DEF Trail!Behind
  <2>2. \A n : n \in Trail!Behind(s, r) <=> n \in DOMAIN s /\ B(r, s[n])
    BY DEF Trail!Behind
  <2> HIDE DEF B
  <2>3. /\ y \in Seq(Trail!Record)
        /\ \A i \in DOMAIN y : \E n \in Trail!Behind(s, r) : y[i] = s[n]
        /\ \A n \in Trail!Behind(s, r) : \E i \in DOMAIN y : y[i] = s[n]
        /\ \A i, j \in DOMAIN y : i < j =>
              \E m, n \in Trail!Behind(s, r) : m < n /\ y[i] = s[m] /\ y[j] = s[n]
    BY <2>1, KeptIs
  <2>4. \A i, j \in DOMAIN s : i < j => B(s[i], s[j])
    BY DEF B
  <2> HIDE DEF y
  <2>5. \A i, j \in DOMAIN y : i < j => B(y[i], y[j])
    <3>1. \A n \in Trail!Behind(s, r) : n \in DOMAIN s
      BY <2>1
    <3>2. QED
      BY <2>3, <2>4, <3>1
  <2>6. Len(y) \in Nat
    BY <2>3
  <2>7. QED
    BY <2>2, <2>3, <2>5, <2>6
<1> HIDE DEF B, x, y, t
<1>4. /\ t \in Seq(Trail!Record) /\ DOMAIN t = 1..(Len(x) + 1 + Len(y))
      /\ \A i \in 1..Len(x) : t[i] = x[i]
      /\ t[Len(x) + 1] = r
      /\ \A i \in 1..Len(y) : t[Len(x) + 1 + i] = y[i]
  BY <1>1, <1>2, <1>3
<1>5. \A i \in DOMAIN t : \/ i \in DOMAIN x /\ t[i] = x[i]
                          \/ i = Len(x) + 1 /\ t[i] = r
                          \/ i - Len(x) - 1 \in DOMAIN y /\ t[i] = y[i - Len(x) - 1]
  <2>1. \A i \in DOMAIN t : i > Len(x) + 1 => i - Len(x) - 1 \in 1..Len(y)
    BY <1>2, <1>3, <1>4
  <2>2. \A i \in DOMAIN t : i > Len(x) + 1 => t[i] = y[i - Len(x) - 1]
    BY <1>2, <1>3, <1>4, <2>1
  <2>3. \A i \in DOMAIN t : i <= Len(x) => t[i] = x[i]
    BY <1>2, <1>4
  <2>4. DOMAIN x = 1..Len(x) /\ DOMAIN y = 1..Len(y) /\ Len(x) \in Nat
    BY <1>2, <1>3
  <2>5. ASSUME NEW i \in DOMAIN t
        PROVE  \/ i \in DOMAIN x /\ t[i] = x[i]
               \/ i = Len(x) + 1 /\ t[i] = r
               \/ i - Len(x) - 1 \in DOMAIN y /\ t[i] = y[i - Len(x) - 1]
    <3>1. i \in Nat /\ i >= 1
      BY <1>3, <1>4, <2>4
    <3>2. CASE i <= Len(x)
      BY <2>3, <2>4, <3>1, <3>2
    <3>3. CASE i = Len(x) + 1
      BY <1>4, <3>3
    <3>4. CASE i > Len(x) + 1
      BY <2>1, <2>2, <2>4, <3>4
    <3>5. QED
      BY <2>4, <3>1, <3>2, <3>3, <3>4
  <2>6. QED
    BY <2>5
<1>6. ASSUME NEW i \in DOMAIN t
      PROVE  t[i] = r \/ \E n \in DOMAIN s : t[i] = s[n]
  <2>1. CASE i \in DOMAIN x /\ t[i] = x[i]
    BY <1>2, <2>1
  <2>2. CASE i - Len(x) - 1 \in DOMAIN y /\ t[i] = y[i - Len(x) - 1]
    BY <1>3, <2>2
  <2>3. QED
    BY <1>5, <2>1, <2>2
<1>7. ASSUME NEW i \in DOMAIN t, NEW j \in DOMAIN t, i < j
      PROVE  B(t[i], t[j])
  <2>0. i \in Nat /\ j \in Nat /\ Len(x) \in Nat
    BY <1>2, <1>4
  <2>1. \A k \in DOMAIN x : B(x[k], r) /\ x[k] \in Trail!Record
    BY <1>2
  <2>2. \A k \in DOMAIN y : B(r, y[k]) /\ y[k] \in Trail!Record
    BY <1>3
  <2>3. CASE i \in DOMAIN x /\ t[i] = x[i]
    <3>1. CASE j \in DOMAIN x /\ t[j] = x[j]
      BY <1>2, <1>7, <2>3, <3>1
    <3>2. CASE j = Len(x) + 1 /\ t[j] = r
      BY <2>1, <2>3, <3>2
    <3>3. CASE j - Len(x) - 1 \in DOMAIN y /\ t[j] = y[j - Len(x) - 1]
      BY <1>0, <2>1, <2>2, <2>3, <3>3
    <3>4. QED
      BY <1>5, <3>1, <3>2, <3>3
  <2>4. CASE i = Len(x) + 1 /\ t[i] = r
    <3>1. ~(j \in DOMAIN x) /\ j # Len(x) + 1
      BY <1>2, <1>7, <2>0, <2>4
    <3>2. QED
      BY <1>5, <2>2, <2>4, <3>1
  <2>5. CASE i - Len(x) - 1 \in DOMAIN y /\ t[i] = y[i - Len(x) - 1]
    <3>1. i > Len(x) + 1
      BY <1>3, <2>0, <2>5
    <3>2. ~(j \in DOMAIN x) /\ j # Len(x) + 1 /\ i - Len(x) - 1 < j - Len(x) - 1
      BY <1>2, <1>7, <2>0, <3>1
    <3>3. QED
      BY <1>3, <1>5, <2>5, <3>2
  <2>6. QED
    BY <1>5, <2>3, <2>4, <2>5
<1>8. Len(x) + 1 \in DOMAIN t /\ t[Len(x) + 1] = r
  BY <1>2, <1>3, <1>4
<1>9. ASSUME NEW n \in DOMAIN s
      PROVE  Trail!Address(s[n]) = Trail!Address(r) \/ \E i \in DOMAIN t : t[i] = s[n]
  <2>1. s[n] \in Trail!Record
    OBVIOUS
  <2>0. /\ DOMAIN x = 1..Len(x) /\ DOMAIN y = 1..Len(y)
        /\ Len(x) \in Nat /\ Len(y) \in Nat
    BY <1>2, <1>3
  <2>2. \A k \in DOMAIN x : k \in DOMAIN t /\ t[k] = x[k]
    BY <1>4, <2>0
  <2>3. \A k \in DOMAIN y : Len(x) + 1 + k \in DOMAIN t /\ t[Len(x) + 1 + k] = y[k]
    <3>1. \A k \in 1..Len(y) : Len(x) + 1 + k \in 1..(Len(x) + 1 + Len(y))
      BY <2>0
    <3>2. QED
      BY <1>4, <2>0, <3>1
  <2>4. B(s[n], r) \/ B(r, s[n]) \/ Trail!Address(s[n]) = Trail!Address(r)
    BY <1>a, <2>1
  <2>5. QED
    BY <1>2, <1>3, <2>2, <2>3, <2>4
<1>10. QED
  BY <1>4, <1>6, <1>7, <1>8, <1>9 DEF B, t

\* What a reading takes of the store: the newest of what a listing reads, all of it in
\* the order it is stored in.
LEMMA ReadingIs ==
    ASSUME NEW s \in Seq(Trail!Record), NEW n \in Nat, n > 0
    PROVE  /\ Trail!Newest(s, n) \in Seq(Trail!Record) /\ Len(Trail!Newest(s, n)) <= n
           /\ Len(s) <= n => Trail!Newest(s, n) = s
           /\ \E d \in Nat : /\ Len(s) = d + Len(Trail!Newest(s, n))
                             /\ d > 0 => Len(Trail!Newest(s, n)) = n
                             /\ \A i \in DOMAIN Trail!Newest(s, n) :
                                   d + i \in DOMAIN s /\ Trail!Newest(s, n)[i] = s[d + i]
<1> DEFINE d == IF Len(s) > n THEN Len(s) - n ELSE 0
           t == SubSeq(s, d + 1, Len(s))
<1>1. Trail!Newest(s, n) = t
  BY DEF Trail!Newest
<1>2. d \in Nat /\ d <= Len(s) /\ Len(s) \in Nat /\ Len(s) - d <= n
      /\ (Len(s) <= n => d = 0) /\ (d > 0 => Len(s) - d = n)
  OBVIOUS
<1> HIDE DEF d
<1>3. /\ t \in Seq(Trail!Record) /\ Len(t) = Len(s) - d
      /\ \A i \in 1..(Len(s) - d) : d + i \in DOMAIN s /\ t[i] = s[d + i]
  BY <1>2
<1>4. d = 0 => t = s
  BY <1>2, <1>3
<1> HIDE DEF t
<1>5. DOMAIN t = 1..Len(t) /\ Len(t) <= n
  BY <1>2, <1>3
<1>6. /\ Len(s) = d + Len(t) /\ (d > 0 => Len(t) = n)
      /\ \A i \in DOMAIN t : d + i \in DOMAIN s /\ t[i] = s[d + i]
  BY <1>2, <1>3, <1>5
<1>7. Len(s) <= n => t = s
  BY <1>2, <1>4
<1>8. QED
  BY <1>1, <1>2, <1>3, <1>5, <1>6, <1>7

\* A list read from its end: the same entries, in the opposite order.
LEMMA BackwardsIs ==
    ASSUME NEW S, NEW s \in Seq(S)
    PROVE  /\ Trail!Backwards(s) \in Seq(S) /\ Len(Trail!Backwards(s)) = Len(s)
           /\ DOMAIN Trail!Backwards(s) = DOMAIN s
           /\ \A i \in DOMAIN s : /\ Len(s) + 1 - i \in DOMAIN s
                                  /\ Trail!Backwards(s)[i] = s[Len(s) + 1 - i]
<1>1. DOMAIN s = 1..Len(s) /\ Len(s) \in Nat
  OBVIOUS
<1>2. \A i \in 1..Len(s) : Len(s) + 1 - i \in 1..Len(s)
  BY <1>1
<1>3. Trail!Backwards(s) = [i \in 1..Len(s) |-> s[Len(s) + 1 - i]]
  BY <1>1 DEF Trail!Backwards
<1>4. QED
  BY <1>1, <1>2, <1>3

\* A page: records of the caller's actor, each later one no newer.
LEMMA PageIs ==
    ASSUME NEW c \in TrailCallers, audit_rows \in Seq(Trail!Record), audit_durable \in BOOLEAN,
           \A i, j \in DOMAIN audit_rows : i < j => Trail!InOrder(audit_rows[i], audit_rows[j])
    PROVE  /\ Trail!Page(c) \in Seq(Trail!Record) /\ Len(Trail!Page(c)) <= TrailShown
           /\ \A i \in DOMAIN Trail!Page(c) : Trail!Page(c)[i].actor = TrailActorOf[c]
           /\ \A i, j \in DOMAIN Trail!Page(c) : i < j => Trail!Page(c)[i].at >= Trail!Page(c)[j].at
<1> DEFINE listed == Trail!Listed
           recent == Trail!Newest(listed, TrailReadLimit)
           mine == Trail!Mine(c, recent)
           shown == Trail!Newest(mine, TrailShown)
           In(s) == \A i, j \in DOMAIN s : i < j => Trail!InOrder(s[i], s[j])
<1>0. Trail!Page(c) = Trail!Backwards(shown)
  BY DEF Trail!Page
<1>1. listed \in Seq(Trail!Record) /\ In(listed)
  <2>1. listed = audit_rows \/ (Len(audit_rows) > TrailListCap /\ listed = SubSeq(audit_rows, 1, TrailListCap))
    BY DEF Trail!Listed
  <2>2. CASE Len(audit_rows) > TrailListCap /\ listed = SubSeq(audit_rows, 1, TrailListCap)
    <3> HIDE DEF listed
    <3>1. /\ listed \in Seq(Trail!Record) /\ Len(listed) = TrailListCap
          /\ \A i \in DOMAIN listed : i \in DOMAIN audit_rows /\ listed[i] = audit_rows[i]
      BY <2>2, TrailNumbers
    <3>2. QED
      BY <3>1
  <2>3. QED
    BY <2>1, <2>2
<1> HIDE DEF listed
<1>2. recent \in Seq(Trail!Record) /\ In(recent)
  <2>0. TrailReadLimit \in Nat /\ TrailReadLimit > 0
    BY TrailNumbers
  <2>a. listed \in Seq(Trail!Record)
    BY <1>1
  <2>b. ASSUME NEW t, t = Trail!Newest(listed, TrailReadLimit)
        PROVE  /\ t \in Seq(Trail!Record) /\ Len(t) <= TrailReadLimit
               /\ \E d \in Nat : \A i \in DOMAIN t : d + i \in DOMAIN listed /\ t[i] = listed[d + i]
    <3>1. /\ t \in Seq(Trail!Record) /\ Len(t) <= TrailReadLimit
          /\ \E d \in Nat : /\ Len(listed) = d + Len(t) /\ (d > 0 => Len(t) = TrailReadLimit)
                            /\ \A i \in DOMAIN t : d + i \in DOMAIN listed /\ t[i] = listed[d + i]
      <4>1. /\ Trail!Newest(listed, TrailReadLimit) \in Seq(Trail!Record) /\ Len(Trail!Newest(listed, TrailReadLimit)) <= TrailReadLimit
            /\ \E d \in Nat : /\ Len(listed) = d + Len(Trail!Newest(listed, TrailReadLimit))
                              /\ d > 0 => Len(Trail!Newest(listed, TrailReadLimit)) = TrailReadLimit
                              /\ \A i \in DOMAIN Trail!Newest(listed, TrailReadLimit) :
                                    d + i \in DOMAIN listed /\ Trail!Newest(listed, TrailReadLimit)[i] = listed[d + i]
        BY <2>0, <2>a, ReadingIs
      <4>2. QED
        BY <4>1, <2>b
    <3>2. QED
      BY <3>1
  <2>1. /\ recent \in Seq(Trail!Record)
        /\ \E d \in Nat : \A i \in DOMAIN recent : d + i \in DOMAIN listed /\ recent[i] = listed[d + i]
    <3>1. recent = Trail!Newest(listed, TrailReadLimit)
      OBVIOUS
    <3> HIDE DEF recent
    <3>2. QED
      BY <2>b, <3>1
  <2>2. PICK d \in Nat : \A i \in DOMAIN recent : d + i \in DOMAIN listed /\ recent[i] = listed[d + i]
    BY <2>1
  <2> HIDE DEF recent
  <2>3. \A i, j \in DOMAIN recent : i < j => d + i < d + j
    BY <2>1
  <2>4. QED
    BY <1>1, <2>1, <2>2, <2>3
<1> HIDE DEF recent
<1>3. mine \in Seq(Trail!Record) /\ In(mine) /\ \A i \in DOMAIN mine : mine[i].actor = TrailActorOf[c]
  <2>1. mine = Kept(recent, Trail!TheirsIn(recent, c))
    BY TrailKept DEF Trail!Mine
  <2>2. Trail!TheirsIn(recent, c) \subseteq DOMAIN recent
    BY DEF Trail!TheirsIn
  <2>3. \A n \in Trail!TheirsIn(recent, c) : recent[n].actor = TrailActorOf[c]
    BY DEF Trail!TheirsIn
  <2> HIDE DEF mine
  <2>4. mine \in Seq(Trail!Record) /\ In(mine)
        /\ \A i \in DOMAIN mine : \E n \in Trail!TheirsIn(recent, c) : mine[i] = recent[n]
    BY <1>2, <2>1, <2>2, InOrderStays
  <2>5. QED
    BY <2>3, <2>4
<1>4. \A i, j \in DOMAIN mine : i < j => mine[i].at <= mine[j].at
  <2>1. \A i, j \in DOMAIN mine : i < j => Trail!InOrder(mine[i], mine[j])
    BY <1>3
  <2>2. \A i \in DOMAIN mine : mine[i] \in Trail!Record /\ mine[i].actor = TrailActorOf[c]
    BY <1>3
  <2>3. QED
    BY <2>1, <2>2, Addresses DEF Trail!InOrder
<1> HIDE DEF mine
<1>5. /\ shown \in Seq(Trail!Record) /\ Len(shown) <= TrailShown
      /\ \A i \in DOMAIN shown : shown[i].actor = TrailActorOf[c]
      /\ \A i, j \in DOMAIN shown : i < j => shown[i].at <= shown[j].at
  <2>0. TrailShown \in Nat /\ TrailShown > 0
    BY TrailNumbers
  <2>a. mine \in Seq(Trail!Record)
    BY <1>3
  <2>b. ASSUME NEW t, t = Trail!Newest(mine, TrailShown)
        PROVE  /\ t \in Seq(Trail!Record) /\ Len(t) <= TrailShown
               /\ \E d \in Nat : \A i \in DOMAIN t : d + i \in DOMAIN mine /\ t[i] = mine[d + i]
    <3>1. /\ t \in Seq(Trail!Record) /\ Len(t) <= TrailShown
          /\ \E d \in Nat : /\ Len(mine) = d + Len(t) /\ (d > 0 => Len(t) = TrailShown)
                            /\ \A i \in DOMAIN t : d + i \in DOMAIN mine /\ t[i] = mine[d + i]
      <4>1. /\ Trail!Newest(mine, TrailShown) \in Seq(Trail!Record) /\ Len(Trail!Newest(mine, TrailShown)) <= TrailShown
            /\ \E d \in Nat : /\ Len(mine) = d + Len(Trail!Newest(mine, TrailShown))
                              /\ d > 0 => Len(Trail!Newest(mine, TrailShown)) = TrailShown
                              /\ \A i \in DOMAIN Trail!Newest(mine, TrailShown) :
                                    d + i \in DOMAIN mine /\ Trail!Newest(mine, TrailShown)[i] = mine[d + i]
        BY <2>0, <2>a, ReadingIs
      <4>2. QED
        BY <4>1, <2>b
    <3>2. QED
      BY <3>1
  <2>1. /\ shown \in Seq(Trail!Record) /\ Len(shown) <= TrailShown
        /\ \E d \in Nat : \A i \in DOMAIN shown : d + i \in DOMAIN mine /\ shown[i] = mine[d + i]
    <3>1. shown = Trail!Newest(mine, TrailShown)
      OBVIOUS
    <3> HIDE DEF shown
    <3>2. QED
      BY <2>b, <3>1
  <2>2. PICK d \in Nat : \A i \in DOMAIN shown : d + i \in DOMAIN mine /\ shown[i] = mine[d + i]
    BY <2>1
  <2> HIDE DEF shown
  <2>3. \A i, j \in DOMAIN shown : i < j => d + i < d + j
    BY <2>1
  <2>4. QED
    BY <1>3, <1>4, <2>1, <2>2, <2>3
<1> HIDE DEF shown
<1>6. /\ Trail!Page(c) \in Seq(Trail!Record) /\ Len(Trail!Page(c)) = Len(shown)
      /\ DOMAIN Trail!Page(c) = DOMAIN shown
      /\ \A i \in DOMAIN shown : /\ Len(shown) + 1 - i \in DOMAIN shown
                                 /\ Trail!Page(c)[i] = shown[Len(shown) + 1 - i]
  BY <1>0, <1>5, BackwardsIs
<1>7. \A i, j \in DOMAIN shown : i < j => Len(shown) + 1 - j < Len(shown) + 1 - i
  BY <1>5
<1>8. \A i \in DOMAIN shown : shown[i].at \in Nat
  <2>1. \A i \in DOMAIN shown : shown[i] \in Trail!Record
    BY <1>5
  <2>2. QED
    BY <2>1, Addresses
<1>9. \A i, j \in DOMAIN shown : i < j =>
         shown[Len(shown) + 1 - j].at <= shown[Len(shown) + 1 - i].at
  BY <1>5, <1>6, <1>7
<1>10. \A i, j \in DOMAIN shown : i < j => Trail!Page(c)[i].at >= Trail!Page(c)[j].at
  <2>1. ASSUME NEW i \in DOMAIN shown, NEW j \in DOMAIN shown, i < j
        PROVE  Trail!Page(c)[i].at >= Trail!Page(c)[j].at
    <3>1. /\ Trail!Page(c)[i] = shown[Len(shown) + 1 - i]
          /\ Trail!Page(c)[j] = shown[Len(shown) + 1 - j]
          /\ shown[Len(shown) + 1 - i].at \in Nat /\ shown[Len(shown) + 1 - j].at \in Nat
      BY <1>6, <1>8
    <3>2. shown[Len(shown) + 1 - j].at <= shown[Len(shown) + 1 - i].at
      BY <1>9, <2>1
    <3>3. QED
      BY <3>1, <3>2
  <2>2. QED
    BY <2>1
<1>11. \A i \in DOMAIN shown : Trail!Page(c)[i].actor = TrailActorOf[c]
  BY <1>5, <1>6
<1>12. QED
  BY <1>5, <1>6, <1>10, <1>11

LEMMA TrailBegins == Trail!Init => Trail!TrailInv
<1> SUFFICES ASSUME Trail!Init PROVE Trail!TrailInv
  OBVIOUS
<1>1. /\ audit_now = 0 /\ audit_durable \in BOOLEAN /\ audit_rows = <<>> /\ audit_asked = <<>>
      /\ audit_view \in [by : TrailCallers, page : {<<>>}]
  BY DEF Trail!Init
<1>2. audit_view \in [by : TrailCallers, page : Seq(Trail!Record)] /\ audit_view.page = <<>>
  <2>1. PICK c \in TrailCallers : audit_view = [by |-> c, page |-> <<>>]
    BY <1>1
  <2>2. <<>> \in Seq(Trail!Record)
    OBVIOUS
  <2>3. QED
    BY <2>1, <2>2
<1>3. Trail!AskedIsStored
  BY <1>1 DEF Trail!AskedIsStored
<1>4. QED
  BY <1>1, <1>2, <1>3, TrailNumbers DEF Trail!TrailInv, Trail!NarrowedToTheActor, Trail!NewestFirst

\* What is asked is stored, at its own address; what was stored at another one stays.
LEMMA AskedMoves ==
    ASSUME Trail!TrailInv, Trail!Next
    PROVE  Trail!AskedIsStored' /\ Trail!OnlyItsOwnAddressIsReplaced
<1>0. /\ audit_now \in 0..TrailLastMs /\ audit_durable \in BOOLEAN
      /\ audit_rows \in Seq(Trail!Record) /\ audit_asked \in Seq(Trail!Record)
      /\ \A i, j \in DOMAIN audit_rows : i < j => Trail!InOrder(audit_rows[i], audit_rows[j])
      /\ \A i \in DOMAIN audit_rows : \E k \in DOMAIN audit_asked : audit_rows[i] = audit_asked[k]
      /\ \A k \in DOMAIN audit_asked : \E i \in DOMAIN audit_rows :
            Trail!Address(audit_rows[i]) = Trail!Address(audit_asked[k])
  BY DEF Trail!TrailInv, Trail!AskedIsStored
<1>1. CASE audit_rows' = audit_rows /\ audit_asked' = audit_asked
  BY <1>0, <1>1 DEF Trail!AskedIsStored, Trail!OnlyItsOwnAddressIsReplaced, Trail!In
<1>2. ASSUME NEW c \in TrailCallers, NEW d \in TrailDigests, Trail!Ask(c, d)
      PROVE  Trail!AskedIsStored' /\ Trail!OnlyItsOwnAddressIsReplaced
  <2> DEFINE r == [actor |-> TrailActorOf[c], by |-> c, digest |-> d, at |-> audit_now]
             n == Len(audit_asked) + 1
  <2>1. /\ audit_rows' = IF audit_durable THEN Trail!Put(audit_rows, r) ELSE Append(audit_rows, r)
        /\ audit_asked' = Append(audit_asked, r)
    BY <1>2 DEF Trail!Ask
  <2>2. r \in Trail!Record
    BY <1>0, TrailNumbers DEF Trail!Record
  <2> HIDE DEF r
  <2>3. /\ audit_asked' \in Seq(Trail!Record) /\ DOMAIN audit_asked' = DOMAIN audit_asked \cup {n}
        /\ n \notin DOMAIN audit_asked /\ audit_asked'[n] = r
        /\ \A k \in DOMAIN audit_asked : audit_asked'[k] = audit_asked[k]
    BY <1>0, <2>1, <2>2
  <2>4. /\ \A i \in DOMAIN audit_rows' :
              audit_rows'[i] = r \/ \E m \in DOMAIN audit_rows : audit_rows'[i] = audit_rows[m]
        /\ \E i \in DOMAIN audit_rows' : audit_rows'[i] = r
        /\ \A m \in DOMAIN audit_rows :
              \/ Trail!Address(audit_rows[m]) = Trail!Address(r)
              \/ \E i \in DOMAIN audit_rows' : audit_rows'[i] = audit_rows[m]
    <3>1. CASE audit_durable
      <4>1. \A i, j \in DOMAIN audit_rows : i < j =>
               Trail!Before(Trail!Address(audit_rows[i]), Trail!Address(audit_rows[j]))
        BY <1>0, <3>1 DEF Trail!InOrder
      <4>2. audit_rows' = Trail!Put(audit_rows, r)
        BY <2>1, <3>1
      <4>3. QED
        <5>1. \A i \in DOMAIN Trail!Put(audit_rows, r) :
                 \/ Trail!Put(audit_rows, r)[i] = r
                 \/ \E m \in DOMAIN audit_rows : Trail!Put(audit_rows, r)[i] = audit_rows[m]
          BY <1>0, <2>2, <4>1, PutKeepsOrder
        <5>2. \E i \in DOMAIN Trail!Put(audit_rows, r) : Trail!Put(audit_rows, r)[i] = r
          BY <1>0, <2>2, <4>1, PutKeepsOrder
        <5>3. \A m \in DOMAIN audit_rows :
                 \/ Trail!Address(audit_rows[m]) = Trail!Address(r)
                 \/ \E i \in DOMAIN Trail!Put(audit_rows, r) :
                       Trail!Put(audit_rows, r)[i] = audit_rows[m]
          BY <1>0, <2>2, <4>1, PutKeepsOrder
        <5>4. QED
          BY <4>2, <5>1, <5>2, <5>3
    <3>2. CASE ~audit_durable
      <4>1. audit_rows' = Append(audit_rows, r)
        BY <2>1, <3>2
      <4>2. /\ DOMAIN audit_rows' = 1..Len(audit_rows) + 1
            /\ Len(audit_rows) \in Nat /\ DOMAIN audit_rows = 1..Len(audit_rows)
            /\ \A i \in DOMAIN audit_rows : audit_rows'[i] = audit_rows[i]
            /\ audit_rows'[Len(audit_rows) + 1] = r
        BY <1>0, <2>2, <4>1
      <4>3. \A i \in DOMAIN audit_rows' : i \in DOMAIN audit_rows \/ i = Len(audit_rows) + 1
        BY <4>2
      <4>4. \A i \in DOMAIN audit_rows : i \in DOMAIN audit_rows'
        BY <4>2
      <4>5. Len(audit_rows) + 1 \in DOMAIN audit_rows'
        BY <4>2
      <4>6. QED
        BY <4>2, <4>3, <4>4, <4>5
    <3>3. QED
      BY <1>0, <3>1, <3>2
  <2> HIDE DEF n
  <2>5. \A i \in DOMAIN audit_rows' : \E k \in DOMAIN audit_asked' : audit_rows'[i] = audit_asked'[k]
    BY <1>0, <2>3, <2>4
  <2>6. \A k \in DOMAIN audit_asked' : \E i \in DOMAIN audit_rows' :
           Trail!Address(audit_rows'[i]) = Trail!Address(audit_asked'[k])
    BY <1>0, <2>3, <2>4
  <2>7. Trail!AskedIsStored'
    BY <2>3, <2>5, <2>6 DEF Trail!AskedIsStored, Trail!Address
  <2>8. ASSUME NEW m \in DOMAIN audit_rows
        PROVE  \/ audit_rows[m] \in {audit_rows'[i] : i \in DOMAIN audit_rows'}
               \/ \E k \in DOMAIN audit_asked' \ DOMAIN audit_asked :
                     /\ audit_asked'[k].actor = audit_rows[m].actor
                     /\ audit_asked'[k].at = audit_rows[m].at
    <3>1. CASE \E i \in DOMAIN audit_rows' : audit_rows'[i] = audit_rows[m]
      BY <3>1
    <3>2. CASE Trail!Address(audit_rows[m]) = Trail!Address(r)
      BY <3>2, <2>3 DEF Trail!Address
    <3>3. QED
      BY <2>4, <3>1, <3>2
  <2>9. QED
    BY <2>7, <2>8 DEF Trail!OnlyItsOwnAddressIsReplaced, Trail!In
<1>3. QED
  BY <1>1, <1>2 DEF Trail!Next, Trail!Tick, Trail!Read

LEMMA TrailMoves ==
    ASSUME Trail!TrailInv, Trail!Next \/ UNCHANGED auditVars
    PROVE  Trail!TrailInv'
<1>0. /\ audit_now \in 0..TrailLastMs /\ audit_durable \in BOOLEAN
      /\ audit_rows \in Seq(Trail!Record)
      /\ \A i \in DOMAIN audit_rows : audit_rows[i].at <= audit_now
      /\ \A i, j \in DOMAIN audit_rows : i < j => Trail!InOrder(audit_rows[i], audit_rows[j])
      /\ audit_view \in [by : TrailCallers, page : Seq(Trail!Record)]
      /\ Trail!NarrowedToTheActor /\ Trail!NewestFirst
  BY DEF Trail!TrailInv
<1>a. Trail!AskedIsStored'
  <2>1. CASE UNCHANGED auditVars
    BY <2>1 DEF auditVars, Trail!TrailInv, Trail!AskedIsStored
  <2>2. QED
    BY <2>1, AskedMoves
<1>b. CASE UNCHANGED auditVars
  BY <1>b
  DEF auditVars, Trail!TrailInv, Trail!AskedIsStored, Trail!InOrder, Trail!NarrowedToTheActor,
      Trail!NewestFirst
<1>1. CASE Trail!Tick
  <2>1. /\ audit_now' = audit_now + 1 /\ audit_now < TrailLastMs /\ audit_durable' = audit_durable
        /\ audit_rows' = audit_rows /\ audit_view' = audit_view
    BY <1>1 DEF Trail!Tick
  <2>2. audit_now' \in 0..TrailLastMs /\ audit_now <= audit_now'
    BY <1>0, <2>1, TrailNumbers
  <2>3. \A i \in DOMAIN audit_rows : audit_rows[i].at <= audit_now'
    <3>1. \A i \in DOMAIN audit_rows : audit_rows[i].at \in Nat
      BY <1>0, Addresses
    <3>2. QED
      BY <1>0, <2>2, <3>1
  <2>4. QED
    BY <1>0, <1>a, <2>1, <2>2, <2>3
    DEF Trail!TrailInv, Trail!InOrder, Trail!NarrowedToTheActor, Trail!NewestFirst
<1>2. ASSUME NEW c \in TrailCallers, Trail!Read(c)
      PROVE  Trail!TrailInv'
  <2>1. /\ audit_view' = [by |-> c, page |-> Trail!Page(c)]
        /\ audit_now' = audit_now /\ audit_durable' = audit_durable /\ audit_rows' = audit_rows
    BY <1>2 DEF Trail!Read
  <2>2. /\ Trail!Page(c) \in Seq(Trail!Record)
        /\ \A i \in DOMAIN Trail!Page(c) : Trail!Page(c)[i].actor = TrailActorOf[c]
        /\ \A i, j \in DOMAIN Trail!Page(c) : i < j => Trail!Page(c)[i].at >= Trail!Page(c)[j].at
    BY <1>0, PageIs
  <2>3. /\ audit_view' \in [by : TrailCallers, page : Seq(Trail!Record)]
        /\ audit_view'.by = c /\ audit_view'.page = Trail!Page(c)
    BY <2>1, <2>2
  <2>4. Trail!NarrowedToTheActor' /\ Trail!NewestFirst'
    BY <2>2, <2>3 DEF Trail!NarrowedToTheActor, Trail!NewestFirst
  <2>5. QED
    BY <1>0, <1>a, <2>1, <2>3, <2>4 DEF Trail!TrailInv, Trail!InOrder
<1>3. ASSUME NEW c \in TrailCallers, NEW d \in TrailDigests, Trail!Ask(c, d)
      PROVE  Trail!TrailInv'
  <2> DEFINE r == [actor |-> TrailActorOf[c], by |-> c, digest |-> d, at |-> audit_now]
  <2>1. /\ audit_rows' = IF audit_durable THEN Trail!Put(audit_rows, r) ELSE Append(audit_rows, r)
        /\ audit_now' = audit_now /\ audit_durable' = audit_durable /\ audit_view' = audit_view
    BY <1>3 DEF Trail!Ask
  <2>2. r \in Trail!Record /\ r.at = audit_now
    BY <1>0, TrailNumbers DEF Trail!Record
  <2> HIDE DEF r
  <2>3. /\ audit_rows' \in Seq(Trail!Record)
        /\ \A i \in DOMAIN audit_rows' :
              audit_rows'[i] = r \/ \E n \in DOMAIN audit_rows : audit_rows'[i] = audit_rows[n]
        /\ \A i, j \in DOMAIN audit_rows' : i < j => Trail!InOrder(audit_rows'[i], audit_rows'[j])
    <3>1. CASE audit_durable
      <4>1. \A i, j \in DOMAIN audit_rows : i < j =>
               Trail!Before(Trail!Address(audit_rows[i]), Trail!Address(audit_rows[j]))
        BY <1>0, <3>1 DEF Trail!InOrder
      <4>2. audit_rows' = Trail!Put(audit_rows, r)
        BY <2>1, <3>1
      <4>3. QED
        BY <1>0, <2>2, <3>1, <4>1, <4>2, PutKeepsOrder DEF Trail!InOrder
    <3>2. CASE ~audit_durable
      <4>1. audit_rows' = Append(audit_rows, r)
        BY <2>1, <3>2
      <4>2. /\ audit_rows' \in Seq(Trail!Record) /\ DOMAIN audit_rows' = 1..Len(audit_rows) + 1
            /\ Len(audit_rows) \in Nat /\ DOMAIN audit_rows = 1..Len(audit_rows)
            /\ \A i \in DOMAIN audit_rows : audit_rows'[i] = audit_rows[i]
            /\ audit_rows'[Len(audit_rows) + 1] = r
        BY <1>0, <2>2, <4>1
      <4>3. \A i \in DOMAIN audit_rows' : i \in DOMAIN audit_rows \/ i = Len(audit_rows) + 1
        BY <4>2
      <4>4. \A i, j \in DOMAIN audit_rows' : i < j => i \in DOMAIN audit_rows
        BY <4>2
      <4>5. \A i, j \in DOMAIN audit_rows : i < j => audit_rows[i].at <= audit_rows[j].at
        BY <1>0, <3>2 DEF Trail!InOrder
      <4>6. \A i, j \in DOMAIN audit_rows' : i < j => audit_rows'[i].at <= audit_rows'[j].at
        BY <1>0, <2>2, <4>2, <4>3, <4>4, <4>5
      <4>7. QED
        BY <3>2, <4>2, <4>3, <4>6 DEF Trail!InOrder
    <3>3. QED
      BY <1>0, <3>1, <3>2
  <2>4. \A i \in DOMAIN audit_rows' : audit_rows'[i].at <= audit_now
    BY <1>0, <2>2, <2>3
  <2>5. QED
    BY <1>0, <1>a, <2>1, <2>3, <2>4
    DEF Trail!TrailInv, Trail!InOrder, Trail!NarrowedToTheActor, Trail!NewestFirst
<1>4. QED
  BY <1>b, <1>1, <1>2, <1>3 DEF Trail!Next

\* A reader of the trail is shown its own actor's records, newest first, though the store
\* lists them by address (main.ts /api/audit, gcp.ts auditC): Service's TrailIsTheActors,
\* with TrailInv.
THEOREM TrailStaysTheActors == ServiceSpec => []TrailIsTheActors
<1> DEFINE Inv == part = "audit" => Trail!TrailInv
<1>1. ServiceInit => Inv
  BY Starts, TrailBegins
<1>2. Inv /\ [ServiceNext]_serviceVars => Inv'
  BY Moves, TrailMoves
<1>3. Inv => TrailIsTheActors
  BY DEF TrailIsTheActors, Trail!TrailInv
<1>4. QED
  BY <1>1, <1>2, <1>3, PTL DEF ServiceSpec

-----------------------------------------------------------------------------
(* The way to an answer                                                    *)

\* What a call to a model sends, and what comes of it.
LEMMA CallsAre ==
    ASSUME NEW provider, NEW outcome, NEW Failed \in BOOLEAN,
           Answer!Call(provider, Answer!Texted(provider, outcome), Failed)
    PROVE  /\ answer_sent \subseteq answer_sent'
           /\ \A m \in answer_sent' : m \in answer_sent \/ m[1] = provider
           /\ Answer!Texted(provider, outcome) \/ Failed
  BY DEF Answer!Call

\* What is written by the model that was called is licensed, under the decision it came with.
LEMMA TextedIs ==
    ASSUME NEW provider \in Answer!Models, NEW outcome \in {"PROVIDER_USED", "EXTERNAL_FALLBACK_USED"},
           Answer!Texted(provider, outcome), answer_composer \notin Answer!Models,
           answer_planner # "refusal"
    PROVE  /\ answer_stage' \in {"plan", "declined", "narrated"}
           /\ answer_planner' # "refusal"
           /\ answer_composer' \in Answer!Models =>
                 /\ answer_stage' = "narrated" /\ answer_composer' = provider
                 /\ answer_decision'.provider = provider /\ answer_decision'.outcome = outcome
<1>1. CASE answer_task = "PLAN"
  BY <1>1 DEF Answer!Texted
<1>2. CASE answer_task # "PLAN"
  <2>1. PICK licensed \in BOOLEAN :
          /\ answer_stage' = "narrated" /\ answer_planner' = answer_planner
          /\ answer_composer' = IF licensed THEN provider ELSE "deterministic"
    BY <1>2 DEF Answer!Texted
  <2>2. answer_decision' = [outcome |-> outcome, provider |-> provider, nothingElse |-> FALSE]
    BY <1>2 DEF Answer!Texted, Answer!Decided
  <2>3. QED
    BY <2>1, <2>2 DEF Answer!Models, Answer!Providers
<1>3. QED
  BY <1>1, <1>2

LEMMA RefusedIs ==
    ASSUME NEW outcome, NEW nothingElse, Answer!Refused(outcome, nothingElse),
           answer_composer \notin Answer!Models, answer_planner # "refusal"
    PROVE  /\ answer_stage' \in {"declined", "narrated"} /\ answer_planner' # "refusal"
           /\ answer_composer' \notin Answer!Models
  BY DEF Answer!Refused, Answer!Without

\* A step of the router: what it sends, and where it leaves the question.
LEMMA RouterMoves ==
    ASSUME Answer!AnswerInv, Answer!Primary \/ Answer!Fallback
    PROVE  Answer!AnswerInv'
<1>0. /\ answer_config \in Answer!Configs
      /\ answer_stage \in {"primary", "fallback"}
      /\ answer_composer \notin Answer!Models /\ answer_planner # "refusal"
      /\ answer_stage = "fallback" => Answer!HasFallback
      /\ Answer!NothingLeavesUnasked
      /\ answer_config' = answer_config
  BY DEF Answer!AnswerInv, Answer!Primary, Answer!Fallback
<1>1. PICK provider \in Answer!Models \cup {"none"} :
        /\ \A m \in answer_sent' : m \in answer_sent \/ m[1] = provider
        /\ Answer!External(provider) =>
              /\ answer_config.allowed
              /\ answer_config.provider = "local" => answer_config.fallback
        /\ \/ \E outcome \in {"PROVIDER_USED", "EXTERNAL_FALLBACK_USED"} :
                 provider \in Answer!Models /\ Answer!Texted(provider, outcome)
           \/ \E outcome, nothingElse : Answer!Refused(outcome, nothingElse)
           \/ /\ answer_stage' = "fallback" /\ Answer!HasFallback
              /\ UNCHANGED <<answer_decision, answer_composer, answer_planner, answer_grounded>>
  <2> DEFINE Found(provider) ==
        /\ \A m \in answer_sent' : m \in answer_sent \/ m[1] = provider
        /\ Answer!External(provider) =>
              /\ answer_config.allowed
              /\ answer_config.provider = "local" => answer_config.fallback
        /\ \/ \E outcome \in {"PROVIDER_USED", "EXTERNAL_FALLBACK_USED"} :
                 provider \in Answer!Models /\ Answer!Texted(provider, outcome)
           \/ \E outcome, nothingElse : Answer!Refused(outcome, nothingElse)
           \/ /\ answer_stage' = "fallback" /\ Answer!HasFallback
              /\ UNCHANGED <<answer_decision, answer_composer, answer_planner, answer_grounded>>
  <2>1. CASE Answer!Fallback
    <3>1. /\ answer_stage = "fallback"
          /\ Answer!Call("claude", Answer!Texted("claude", "EXTERNAL_FALLBACK_USED"),
                         Answer!Refused("PROVIDER_UNAVAILABLE", TRUE))
      BY <2>1 DEF Answer!Fallback
    <3>2. /\ \A m \in answer_sent' : m \in answer_sent \/ m[1] = "claude"
          /\ \/ Answer!Texted("claude", "EXTERNAL_FALLBACK_USED")
             \/ Answer!Refused("PROVIDER_UNAVAILABLE", TRUE)
      BY <3>1 DEF Answer!Call
    <3>3. answer_config.allowed /\ answer_config.fallback
      BY <1>0, <3>1 DEF Answer!HasFallback
    <3>4. "claude" \in Answer!Models
      BY DEF Answer!Models, Answer!Providers
    <3>5. Found("claude")
      BY <3>2, <3>3, <3>4
    <3>6. QED
      BY <3>4, <3>5
  <2>2. CASE Answer!Primary
    <3>0. answer_config.provider \in {"none", "local", "claude"}
      BY <1>0 DEF Answer!Configs, Answer!Providers
    <3>1. CASE answer_config.provider = "none"
      <4>1. answer_sent' = answer_sent /\ Answer!Refused("NO_PROVIDER_CONFIGURED", FALSE)
        BY <2>2, <3>1 DEF Answer!Primary
      <4>2. Found("none")
        BY <4>1 DEF Answer!External
      <4>3. QED
        BY <4>2
    <3>2. CASE answer_config.provider # "none" /\ Answer!External(answer_config.provider)
                 /\ ~Answer!Permits(Answer!Inventory(answer_task))
      <4>1. answer_sent' = answer_sent /\ Answer!Refused("POLICY_PROHIBITED", FALSE)
        BY <2>2, <3>2 DEF Answer!Primary
      <4>2. Found("none")
        BY <4>1 DEF Answer!External
      <4>3. QED
        BY <4>2
    <3>3. CASE answer_config.provider # "none"
                 /\ ~(Answer!External(answer_config.provider)
                        /\ ~Answer!Permits(Answer!Inventory(answer_task)))
      <4> DEFINE provider == answer_config.provider
      <4>1. \/ Answer!Texted(provider, "PROVIDER_USED")
            \/ /\ Answer!HasFallback /\ answer_stage' = "fallback"
               /\ UNCHANGED <<answer_decision, answer_composer, answer_planner, answer_grounded>>
            \/ Answer!Refused("PROVIDER_UNAVAILABLE", TRUE)
        BY <2>2, <3>3 DEF Answer!Primary, Answer!Call
      <4>2. \A m \in answer_sent' : m \in answer_sent \/ m[1] = provider
        <5>1. \/ answer_sent' = answer_sent
              \/ answer_sent' = answer_sent \cup ({provider} \X Answer!Carried(answer_task))
          BY <2>2, <3>3 DEF Answer!Primary, Answer!Call
        <5>2. QED
          BY <5>1
      <4>3. provider \in Answer!Models
        BY <3>0, <3>3 DEF Answer!Models, Answer!Providers
      <4>4. Answer!External(provider) => answer_config.allowed /\ provider # "local"
        BY <3>3 DEF Answer!External, Answer!Permits
      <4>5. Found(provider)
        BY <4>1, <4>2, <4>3, <4>4
      <4>6. QED
        BY <4>3, <4>5
    <3>4. QED
      BY <3>1, <3>2, <3>3
  <2>3. QED
    BY <2>1, <2>2
<1>2. Answer!NothingLeavesUnasked'
  <2>1. ASSUME NEW m \in answer_sent', Answer!External(m[1])
        PROVE  /\ answer_config.allowed
               /\ answer_config.provider = "local" => answer_config.fallback
    BY <1>0, <1>1, <2>1 DEF Answer!NothingLeavesUnasked
  <2>2. QED
    BY <1>0, <2>1 DEF Answer!NothingLeavesUnasked, Answer!External
<1>3. /\ answer_stage' \in {"plan", "declined", "narrated", "fallback"}
      /\ answer_planner' # "refusal"
      /\ answer_stage' = "fallback" => Answer!HasFallback
      /\ answer_composer' \in Answer!Models =>
            /\ answer_stage' = "narrated" /\ answer_decision'.provider = answer_composer'
            /\ answer_decision'.outcome \in {"PROVIDER_USED", "EXTERNAL_FALLBACK_USED"}
  <2>1. CASE \E outcome \in {"PROVIDER_USED", "EXTERNAL_FALLBACK_USED"} :
               provider \in Answer!Models /\ Answer!Texted(provider, outcome)
    BY <1>0, <2>1, TextedIs
  <2>2. CASE \E outcome, nothingElse : Answer!Refused(outcome, nothingElse)
    BY <1>0, <2>2, RefusedIs
  <2>3. CASE /\ answer_stage' = "fallback" /\ Answer!HasFallback
             /\ UNCHANGED <<answer_decision, answer_composer, answer_planner, answer_grounded>>
    BY <1>0, <2>3
  <2>4. QED
    BY <1>1, <2>1, <2>2, <2>3
<1>4. Answer!HasFallback' <=> Answer!HasFallback
  BY <1>0 DEF Answer!HasFallback
<1>5. QED
  BY <1>0, <1>2, <1>3, <1>4 DEF Answer!AnswerInv, Answer!Stages

LEMMA PipelineMoves ==
    ASSUME Answer!AnswerInv,
           \/ Answer!Authorise \/ Answer!Grammar \/ Answer!Execute \/ Answer!Compose
           \/ Answer!Validate \/ Answer!Withhold \/ Answer!Audit
    PROVE  Answer!AnswerInv'
<1>0. /\ answer_config \in Answer!Configs /\ answer_stage \in Answer!Stages
      /\ answer_stage \in {"received", "grammar"} => answer_sent = {} /\ answer_planner = "none"
      /\ answer_planner = "refusal" =>
            answer_sent = {} /\ answer_stage \in {"declined", "composed", "answered", "failed"}
      /\ answer_composer \in Answer!Models =>
            /\ answer_stage \in {"narrated", "composed", "answered", "failed"}
            /\ answer_decision.provider = answer_composer
            /\ answer_decision.outcome \in {"PROVIDER_USED", "EXTERNAL_FALLBACK_USED"}
            /\ answer_stage \in {"composed", "answered"} => answer_grounded
            /\ answer_stage = "answered" => \E a \in answer_audit : a.provider = answer_composer
      /\ Answer!NothingLeavesUnasked
  BY DEF Answer!AnswerInv
<1>1. answer_config' = answer_config /\ answer_sent' = answer_sent
  BY DEF Answer!Authorise, Answer!Grammar, Answer!Execute, Answer!Compose, Answer!Validate,
         Answer!Withhold, Answer!Audit
<1>2. Answer!NothingLeavesUnasked'
  BY <1>0, <1>1 DEF Answer!NothingLeavesUnasked, Answer!External
<1> DEFINE AuditKeeps ==
      /\ answer_stage' \in Answer!Stages \ {"fallback"}
      /\ answer_stage' \in {"received", "grammar"} => answer_sent = {} /\ answer_planner' = "none"
      /\ answer_planner' = "refusal" =>
            answer_sent = {} /\ answer_stage' \in {"declined", "composed", "answered", "failed"}
      /\ answer_composer' \in Answer!Models =>
            /\ answer_stage' \in {"narrated", "composed", "answered", "failed"}
            /\ answer_decision'.provider = answer_composer'
            /\ answer_decision'.outcome \in {"PROVIDER_USED", "EXTERNAL_FALLBACK_USED"}
            /\ answer_stage' \in {"composed", "answered"} => answer_grounded'
            /\ answer_stage' = "answered" => \E a \in answer_audit' : a.provider = answer_composer'
<1>3. CASE Answer!Authorise
  <2>1. AuditKeeps
    BY <1>0, <1>3 DEF Answer!Authorise, Answer!Stages
  <2>2. QED
    BY <1>0, <1>1, <1>2, <2>1 DEF Answer!AnswerInv
<1>4. CASE Answer!Grammar
  <2>1. AuditKeeps
    BY <1>0, <1>4 DEF Answer!Grammar, Answer!Stages
  <2>2. QED
    BY <1>0, <1>1, <1>2, <2>1 DEF Answer!AnswerInv
<1>5. CASE Answer!Execute
  <2>1. AuditKeeps
    BY <1>0, <1>5 DEF Answer!Execute, Answer!Stages
  <2>2. QED
    BY <1>0, <1>1, <1>2, <2>1 DEF Answer!AnswerInv
<1>6. CASE Answer!Compose
  <2>1. AuditKeeps
    BY <1>0, <1>6 DEF Answer!Compose, Answer!Stages, Answer!Models, Answer!Providers
  <2>2. QED
    BY <1>0, <1>1, <1>2, <2>1 DEF Answer!AnswerInv
<1>7. CASE Answer!Validate
  <2>1. PICK licensed \in BOOLEAN :
          /\ answer_composer \in Answer!Providers => licensed
          /\ answer_grounded' = licensed
          /\ answer_stage' = IF licensed THEN "composed" ELSE "declined"
          /\ answer_stage = "narrated" /\ answer_composer' = answer_composer
          /\ answer_decision' = answer_decision /\ answer_planner' = answer_planner
    BY <1>7 DEF Answer!Validate
  <2>2. answer_composer \in Answer!Models => licensed
    BY <2>1 DEF Answer!Models
  <2>3. AuditKeeps
    BY <1>0, <2>1, <2>2 DEF Answer!Stages
  <2>4. QED
    BY <1>0, <1>1, <1>2, <2>3 DEF Answer!AnswerInv
<1>8. CASE Answer!Withhold
  <2>1. AuditKeeps
    BY <1>0, <1>8 DEF Answer!Withhold, Answer!Stages, Answer!Models
  <2>2. QED
    BY <1>0, <1>1, <1>2, <2>1 DEF Answer!AnswerInv
<1>9. CASE Answer!Audit
  <2>1. PICK kept \in BOOLEAN :
          /\ answer_stage = "composed" /\ answer_stage' = IF kept THEN "answered" ELSE "failed"
          /\ answer_audit' = IF kept
                             THEN answer_audit \cup {[refused |-> answer_composer = "none",
                                                      composer |-> answer_composer,
                                                      provider |-> answer_decision.provider]}
                             ELSE answer_audit
          /\ answer_composer' = answer_composer /\ answer_decision' = answer_decision
          /\ answer_planner' = answer_planner /\ answer_grounded' = answer_grounded
    BY <1>9 DEF Answer!Audit
  <2>2. kept => \E a \in answer_audit' : a.provider = answer_decision.provider
    <3> DEFINE a == [refused |-> answer_composer = "none", composer |-> answer_composer,
                     provider |-> answer_decision.provider]
    <3>1. a.provider = answer_decision.provider
      OBVIOUS
    <3>2. kept => answer_audit' = answer_audit \cup {a}
      BY <2>1
    <3> HIDE DEF a
    <3>3. QED
      BY <3>1, <3>2
  <2>3. AuditKeeps
    BY <1>0, <2>1, <2>2 DEF Answer!Stages
  <2>4. QED
    BY <1>0, <1>1, <1>2, <2>3 DEF Answer!AnswerInv
<1>10. QED
  BY <1>3, <1>4, <1>5, <1>6, <1>7, <1>8, <1>9

\* Nothing reaches the hosted model unless it may, a refusal reaches none, and what a model
\* wrote is accounted for (routing.ts, policy.ts, main.ts answerQuestion): Service's
\* ModelsAreAccountedFor, with AnswerInv.
THEOREM ModelsAreAlwaysAccountedFor == ServiceSpec => []ModelsAreAccountedFor
<1> DEFINE Inv == part = "answer" => Answer!AnswerInv
<1>1. ServiceInit => Inv
  <2>1. Answer!Init => Answer!AnswerInv
    BY DEF Answer!Init, Answer!AnswerInv, Answer!Stages, Answer!Models, Answer!NothingLeavesUnasked
  <2>2. QED
    BY <2>1, Starts
<1>2. Inv /\ [ServiceNext]_serviceVars => Inv'
  <2>1. ASSUME Inv, [ServiceNext]_serviceVars, part' = "answer"
        PROVE  Answer!AnswerInv'
    <3>1. part = "answer" /\ Answer!AnswerInv /\ (Answer!Next \/ UNCHANGED answerVars)
      BY <2>1, Moves
    <3>2. CASE UNCHANGED answerVars
      BY <3>1, <3>2 DEF answerVars, Answer!AnswerInv, Answer!HasFallback, Answer!NothingLeavesUnasked,
                        Answer!External
    <3>3. QED
      BY <3>1, <3>2, RouterMoves, PipelineMoves DEF Answer!Next
  <2>2. QED
    BY <2>1
<1>3. Inv => ModelsAreAccountedFor
  <2>1. Answer!AnswerInv =>
          /\ Answer!NothingLeavesUnasked /\ Answer!ModelProseIsAccountedFor
          /\ Answer!RefusalsReachNoModel
    BY DEF Answer!AnswerInv, Answer!ModelProseIsAccountedFor, Answer!RefusalsReachNoModel, Answer!Models
  <2>2. QED
    BY <2>1 DEF ModelsAreAccountedFor
<1>4. QED
  BY <1>1, <1>2, <1>3, PTL DEF ServiceSpec

-----------------------------------------------------------------------------
(* What no step takes back                                                 *)

\* A call refused by a limit finds its window full of calls that were let through.
LEMMA RefusalsAreEarned == Limits!LimitsInv => Limits!RefusalIsEarned
<1> SUFFICES ASSUME Limits!LimitsInv, NEW c \in LimitsCallers, limits_outcome'[c] = "limited"
             PROVE  /\ Limits!Ask(c) => Len(limits_recent[c]) >= LimitsMaxCalls
                    /\ \A readable \in BOOLEAN :
                          Limits!Profile(c, readable) => Len(limits_admitted[c]) >= LimitsMaxUploads
  BY DEF Limits!RefusalIsEarned
<1>1. /\ limits_hits[c] \in [age : 0..LimitsWindow, count : 0..LimitsMaxCalls]
      /\ limits_uploads[c] \in [age : 0..LimitsWindow, count : 0..LimitsMaxUploads]
      /\ DOMAIN limits_outcome = LimitsCallers
      /\ Limits!Follows(limits_recent[c], limits_hits[c], LimitsMaxCalls)
      /\ Limits!Follows(limits_admitted[c], limits_uploads[c], LimitsMaxUploads)
  BY DEF Limits!LimitsInv, Limits!TypeOK, Limits!ListsFollow
<1>2. /\ LimitsMaxCalls \in Nat /\ LimitsMaxCalls > 0
      /\ LimitsMaxUploads \in Nat /\ LimitsMaxUploads > 0
  BY LimitsNumbers
<1>3. /\ ~Limits!Allow(limits_hits[c], LimitsMaxCalls).verdict =>
            Len(limits_recent[c]) >= LimitsMaxCalls
      /\ ~Limits!Allow(limits_uploads[c], LimitsMaxUploads).verdict =>
            Len(limits_admitted[c]) >= LimitsMaxUploads
  BY <1>1, <1>2, AllowedFollows
<1>4. ASSUME Limits!Ask(c)
      PROVE  ~Limits!Allow(limits_hits[c], LimitsMaxCalls).verdict
  <2> DEFINE ok == Limits!Allow(limits_hits[c], LimitsMaxCalls).verdict
  <2>1. ok => \/ limits_outcome' = [limits_outcome EXCEPT ![c] = "served"]
              \/ limits_outcome' = [limits_outcome EXCEPT ![c] = "denied"]
    BY <1>4 DEF Limits!Ask
  <2> HIDE DEF ok
  <2>2. ok => limits_outcome'[c] = "served" \/ limits_outcome'[c] = "denied"
    BY <2>1, <1>1
  <2>3. ~ok
    BY <2>2
  <2>4. QED
    BY <2>3 DEF ok
<1>5. ASSUME NEW readable \in BOOLEAN, Limits!Profile(c, readable)
      PROVE  ~Limits!Allow(limits_uploads[c], LimitsMaxUploads).verdict
  <2> DEFINE ok == Limits!Allow(limits_uploads[c], LimitsMaxUploads).verdict
  <2>1. limits_outcome' = [limits_outcome EXCEPT ![c] =
           IF ~ok THEN "limited" ELSE IF readable THEN "profiled" ELSE "unreadable"]
    BY <1>5 DEF Limits!Profile
  <2> HIDE DEF ok
  <2>2. limits_outcome'[c] =
           IF ~ok THEN "limited" ELSE IF readable THEN "profiled" ELSE "unreadable"
    BY <2>1, <1>1
  <2>3. ~ok
    BY <2>2
  <2>4. QED
    BY <2>3 DEF ok
<1>6. QED
  BY <1>3, <1>4, <1>5

\* A session that is refused stays refused: time only goes on, a revocation is never
\* undone, and only a session that is valid slides.
LEMMA SessionStaysRefused ==
    ASSUME NEW s \in Api!SessionRecords, NEW t \in Api!SessionRecords,
           api_now \in Nat, api_now' \in Nat, api_now <= api_now',
           t.absolute = s.absolute, t.idle = s.idle,
           t.revoked = s.revoked \/ t.revoked = api_now,
           Api!Refused(s)
    PROVE  t.revoked # Api!Never \/ api_now' >= t.absolute \/ api_now' >= t.idle
<1>1. /\ s.absolute \in Nat /\ s.idle \in Nat /\ s.revoked \in Int
      /\ t.absolute \in Nat /\ t.idle \in Nat /\ t.revoked \in Int
  BY SessionIs
<1>2. s.revoked # Api!Never \/ api_now >= s.absolute \/ api_now >= s.idle
  BY DEF Api!Refused
<1>3. QED
  BY <1>1, <1>2 DEF Api!Never

LEMMA RefusalsStay ==
    ASSUME Api!ApiInv, Api!Next \/ UNCHANGED apiVars
    PROVE  Api!RefusedForEver
<1> SUFFICES ASSUME NEW i \in DOMAIN api_sessions, Api!Refused(api_sessions[i])
             PROVE  \/ api_sessions'[i].revoked # Api!Never
                    \/ api_now' >= api_sessions'[i].absolute \/ api_now' >= api_sessions'[i].idle
  BY DEF Api!RefusedForEver, Api!Refused
<1>1. /\ api_now \in Nat /\ Api!SessionsAre /\ api_sessions[i] \in Api!SessionRecords
      /\ api_sessions \in Seq(Api!SessionRecords)
  BY DEF Api!ApiInv, Api!SessionsAre
<1> DEFINE s == api_sessions[i]
           t == api_sessions'[i]
           refused == t.revoked # Api!Never \/ api_now' >= t.absolute \/ api_now' >= t.idle
<1>2. ASSUME api_now' \in Nat, api_now <= api_now', t = s
      PROVE  refused
  BY <1>1, <1>2, SessionStaysRefused
<1>3. CASE UNCHANGED apiVars
  BY <1>1, <1>2, <1>3 DEF apiVars
<1>4. CASE Api!Tick
  BY <1>1, <1>2, <1>4 DEF Api!Tick
<1>5. CASE Api!Seal
  BY <1>1, <1>2, <1>5 DEF Api!Seal
<1>6. ASSUME NEW a \in ApiActors, Api!Login(a)
      PROVE  refused
  <2> DEFINE new == Api!Session(a)
  <2>1. api_sessions' = Append(api_sessions, new) /\ api_now' = api_now
    BY <1>6 DEF Api!Login
  <2> HIDE DEF new
  <2>2. t = s
    BY <1>1, <2>1
  <2>3. QED
    BY <1>1, <1>2, <2>1, <2>2
<1>7. ASSUME NEW a \in ApiActors, Api!RevokeAllFor(a)
      PROVE  refused
  <2>1. /\ t = s \/ t = [s EXCEPT !.revoked = api_now]
        /\ api_now' = api_now
    BY <1>7 DEF Api!RevokeAllFor
  <2>2. CASE t = [s EXCEPT !.revoked = api_now]
    <3> DEFINE ended == [s EXCEPT !.revoked = api_now]
    <3>1. /\ ended \in Api!SessionRecords /\ ended.absolute = s.absolute
          /\ ended.idle = s.idle /\ ended.revoked = api_now
      BY <1>1, SessionIs
    <3>2. t = ended
      BY <2>2
    <3> HIDE DEF ended
    <3>3. /\ t \in Api!SessionRecords /\ t.absolute = s.absolute /\ t.idle = s.idle
          /\ t.revoked = api_now /\ Api!Refused(s) /\ s \in Api!SessionRecords
      BY <1>1, <3>1, <3>2
    <3>4. api_now' \in Nat /\ api_now <= api_now'
      BY <1>1, <2>1
    <3> HIDE DEF s, t
    <3>5. QED
      BY <1>1, <3>3, <3>4, SessionStaysRefused
  <2>3. QED
    BY <1>1, <1>2, <2>1, <2>2
<1>8. ASSUME NEW r \in ApiRequests, Api!Authorise(r) \/ Api!Handle(r) \/ Api!Answer(r)
      PROVE  refused
  <2>1. api_now' = api_now /\ api_sessions' = api_sessions
    BY <1>8 DEF Api!Authorise, Api!Handle, Api!Answer
  <2>2. QED
    BY <1>1, <1>2, <2>1
<1>9. ASSUME NEW r \in ApiRequests, NEW a \in ApiActors, NEW n \in Api!Ids,
             NEW route \in DOMAIN ApiRoutes, NEW p \in ApiProjects \cup {Api!None},
             Api!Dispatch(r, a, n, route, p)
      PROVE  refused
  <2>1. /\ api_now' = api_now
        /\ api_sessions' = IF Api!Valid(api_sessions[n])
                           THEN [api_sessions EXCEPT ![n] = Api!Slide(@)] ELSE api_sessions
    BY <1>9 DEF Api!Dispatch
  <2>2. i = n => ~Api!Valid(api_sessions[n])
    <3>1. s.absolute \in Nat /\ s.idle \in Nat
      BY <1>1, SessionIs
    <3>2. ~Api!Valid(s)
      BY <1>1, <3>1 DEF Api!Refused, Api!Valid
    <3>3. QED
      BY <3>2
  <2>3. t = s
    BY <2>1, <2>2
  <2>4. QED
    BY <1>1, <1>2, <2>1, <2>3
<1>10. QED
  BY <1>3, <1>4, <1>5, <1>6, <1>7, <1>8, <1>9 DEF Api!Next

\* What is fresh of a list lacks no key that was not delivered before.
LEMMA FreshIsComplete ==
    ASSUME NEW read \in Seq(Connector!Records), NEW n \in DOMAIN read,
           Connector!Key(read[n]) \notin connector_delivered
    PROVE  \E i \in DOMAIN Connector!Fresh(read) :
              Connector!Key(Connector!Fresh(read)[i]) = Connector!Key(read[n])
<1> DEFINE at == {k \in DOMAIN read :
                     /\ Connector!Key(read[k]) \notin connector_delivered
                     /\ \A m \in 1..k - 1 : Connector!Key(read[m]) # Connector!Key(read[k])}
           same == {k \in DOMAIN read : Connector!Key(read[k]) = Connector!Key(read[n])}
<1>1. DOMAIN read = 1..Len(read) /\ Len(read) \in Nat
  OBVIOUS
<1>2. same \subseteq Nat /\ n \in same
  BY <1>1
<1>3. PICK k \in same : \A m \in same : k <= m
  <2> HIDE DEF same
  <2>1. QED
    BY <1>2, Least
<1>4. k \in DOMAIN read /\ k \in Nat /\ Connector!Key(read[k]) = Connector!Key(read[n])
  BY <1>1, <1>3
<1>5. ASSUME NEW m \in 1..k - 1
      PROVE  Connector!Key(read[m]) # Connector!Key(read[k])
  <2>1. m \in DOMAIN read /\ ~(k <= m)
    BY <1>1, <1>4
  <2>2. m \notin same
    BY <2>1, <1>3
  <2>3. QED
    BY <2>1, <2>2, <1>4
<1>6. k \in at
  BY <1>4, <1>5
<1>7. Connector!Fresh(read) = Kept(read, at)
  BY ConnectorKept DEF Connector!Fresh
<1>8. at \subseteq DOMAIN read
  OBVIOUS
<1> HIDE DEF at, same
<1>9. \E i \in DOMAIN Kept(read, at) : Kept(read, at)[i] = read[k]
  BY <1>6, <1>8, KeptIs
<1>10. QED
  BY <1>4, <1>7, <1>9

\* A full sync that no drift came before leaves no key of the source behind.
LEMMA FullSyncsComplete == Connector!SyncInv => Connector!FullSyncCompletes
<1> SUFFICES ASSUME Connector!SyncInv,
                    Connector!Sync(Connector!None, ConnectorMaxRecords), ~connector_drifted,
                    connector_delivered = {Connector!Key(h) : h \in Connector!Range(connector_handed)}
             PROVE  {Connector!Key(r) : r \in Connector!Range(connector_records)} =
                    {Connector!Key(h) : h \in Connector!Range(connector_handed')}
  BY DEF Connector!FullSyncCompletes
<1> DEFINE read == Connector!Bounded(Connector!None, ConnectorMaxRecords)
           fresh == Connector!Fresh(read)
<1>1. /\ connector_records \in Seq(Connector!Records) /\ Len(connector_records) \in Nat
      /\ Len(connector_records) <= ConnectorMaxRecords
      /\ connector_handed \in Seq(Connector!Records) /\ ConnectorMaxRecords \in Nat
  BY ConstantsAreTheirs DEF Connector!SyncInv, Connector!HandedIsDelivered, Connector!SyncAssumption
<1>2. read = connector_records
  <2>1. read = SubSeq(connector_records, 1,
                  IF ConnectorMaxRecords < Len(connector_records) THEN ConnectorMaxRecords
                  ELSE Len(connector_records))
    BY DEF Connector!Bounded, Connector!Candidates
  <2>2. ~(ConnectorMaxRecords < Len(connector_records))
    BY <1>1
  <2>3. QED
    BY <1>1, <2>1, <2>2
<1>3. connector_handed' = connector_handed \o fresh /\ connector_records' = connector_records
  BY DEF Connector!Sync
<1>4. Connector!HandedIsDelivered'
  <2>1. \E since \in {Connector!None, connector_watermark}, limit \in 0..ConnectorMaxRecords :
           Connector!Sync(since, limit)
    BY <1>1
  <2>2. QED
    BY <2>1, ConnectorMoves DEF Connector!Next, Connector!SyncInv
<1> HIDE DEF read
<1>5. fresh \in Seq(Connector!Records)
  BY <1>1, <1>2, FreshIsNew
<1>6. \A n \in DOMAIN connector_records :
         \/ Connector!Key(connector_records[n]) \in connector_delivered
         \/ \E i \in DOMAIN fresh : Connector!Key(fresh[i]) = Connector!Key(connector_records[n])
  BY <1>1, <1>2, FreshIsComplete
<1> HIDE DEF fresh
<1>7. /\ \A i \in DOMAIN connector_handed : /\ i \in DOMAIN connector_handed'
                                            /\ connector_handed'[i] = connector_handed[i]
      /\ \A i \in DOMAIN fresh : /\ Len(connector_handed) + i \in DOMAIN connector_handed'
                                 /\ connector_handed'[Len(connector_handed) + i] = fresh[i]
  BY <1>1, <1>3, <1>5
<1>8. \A i \in DOMAIN connector_handed' : \E n \in DOMAIN connector_records :
         connector_handed'[i] = connector_records[n]
  BY <1>3, <1>4 DEF Connector!HandedIsDelivered
<1>9. /\ \A k : k \in connector_delivered <=>
            \E i \in DOMAIN connector_handed : k = Connector!Key(connector_handed[i])
      /\ \A k : k \in {Connector!Key(r) : r \in Connector!Range(connector_records)} <=>
            \E n \in DOMAIN connector_records : k = Connector!Key(connector_records[n])
      /\ \A k : k \in {Connector!Key(h) : h \in Connector!Range(connector_handed')} <=>
            \E i \in DOMAIN connector_handed' : k = Connector!Key(connector_handed'[i])
  BY DEF Connector!Range
<1>10. \A n \in DOMAIN connector_records : \E i \in DOMAIN connector_handed' :
          Connector!Key(connector_records[n]) = Connector!Key(connector_handed'[i])
  BY <1>6, <1>7, <1>9
<1>11. QED
  BY <1>8, <1>9, <1>10

\* A page of a store that a reading takes whole: what it leaves out is no newer than what
\* it shows.
LEMMA ShortTrailsAreWhole == Trail!TrailInv => Trail!ShortTrailIsWhole
<1> SUFFICES ASSUME Trail!TrailInv, NEW c \in TrailCallers, Trail!Read(c),
                    Len(audit_rows) <= TrailReadLimit
             PROVE  LET times == {audit_asked[i].at :
                                    i \in {k \in DOMAIN audit_asked :
                                             audit_asked[k].actor = TrailActorOf[c]}}
                        seen == {audit_view'.page[i].at : i \in DOMAIN audit_view'.page}
                    IN  \/ seen = times
                        \/ /\ Len(audit_view'.page) = TrailShown
                           /\ \A t \in times \ seen : \A s \in seen : t <= s
  BY DEF Trail!ShortTrailIsWhole
<1> DEFINE mine == Trail!Mine(c, audit_rows)
           shown == Trail!Newest(mine, TrailShown)
           page == audit_view'.page
           times == {audit_asked[i].at : i \in {k \in DOMAIN audit_asked :
                                                  audit_asked[k].actor = TrailActorOf[c]}}
           seen == {page[i].at : i \in DOMAIN page}
<1>0. /\ audit_durable \in BOOLEAN
      /\ audit_rows \in Seq(Trail!Record) /\ audit_asked \in Seq(Trail!Record)
      /\ \A i, j \in DOMAIN audit_rows : i < j => Trail!InOrder(audit_rows[i], audit_rows[j])
      /\ \A i \in DOMAIN audit_rows : \E k \in DOMAIN audit_asked : audit_rows[i] = audit_asked[k]
      /\ \A k \in DOMAIN audit_asked : \E i \in DOMAIN audit_rows :
            Trail!Address(audit_rows[i]) = Trail!Address(audit_asked[k])
  BY DEF Trail!TrailInv, Trail!AskedIsStored
<1>1. page = Trail!Backwards(shown)
  <2>1. Trail!Listed = audit_rows
    <3>1. ~(Len(audit_rows) > TrailListCap)
      BY <1>0, TrailNumbers
    <3>2. QED
      BY <3>1 DEF Trail!Listed
  <2>2. Trail!Newest(audit_rows, TrailReadLimit) = audit_rows
    BY <1>0, TrailNumbers, ReadingIs
  <2>3. audit_view' = [by |-> c, page |-> Trail!Page(c)]
    BY DEF Trail!Read
  <2>4. QED
    BY <2>1, <2>2, <2>3 DEF Trail!Page
<1>2. /\ mine \in Seq(Trail!Record)
      /\ \A i \in DOMAIN mine : \E n \in DOMAIN audit_rows :
            mine[i] = audit_rows[n] /\ audit_rows[n].actor = TrailActorOf[c]
      /\ \A n \in DOMAIN audit_rows : audit_rows[n].actor = TrailActorOf[c] =>
            \E i \in DOMAIN mine : mine[i] = audit_rows[n]
      /\ \A i, j \in DOMAIN mine : i < j => Trail!InOrder(mine[i], mine[j])
  <2> DEFINE at == Trail!TheirsIn(audit_rows, c)
  <2>1. mine = Kept(audit_rows, at)
    BY TrailKept DEF Trail!Mine
  <2>2. /\ at \subseteq DOMAIN audit_rows
        /\ \A n : n \in at <=> n \in DOMAIN audit_rows /\ audit_rows[n].actor = TrailActorOf[c]
    BY DEF Trail!TheirsIn
  <2> HIDE DEF at, mine
  <2>3. \A n \in at : \E i \in DOMAIN Kept(audit_rows, at) :
           Kept(audit_rows, at)[i] = audit_rows[n]
    <3>1. audit_rows \in Seq(Trail!Record)
      BY <1>0
    <3>2. at \subseteq DOMAIN audit_rows
      BY <2>2
    <3>3. QED
      BY <3>1, <3>2, KeptIs
  <2>4. /\ Kept(audit_rows, at) \in Seq(Trail!Record)
        /\ \A i \in DOMAIN Kept(audit_rows, at) : \E n \in at :
              Kept(audit_rows, at)[i] = audit_rows[n]
        /\ \A i, j \in DOMAIN Kept(audit_rows, at) : i < j =>
              Trail!InOrder(Kept(audit_rows, at)[i], Kept(audit_rows, at)[j])
    BY <1>0, <2>2, InOrderStays
  <2>5. QED
    BY <2>1, <2>2, <2>3, <2>4
<1> HIDE DEF mine
<1>3. \A i, j \in DOMAIN mine : /\ mine[i].at \in Nat
                                /\ i < j => mine[i].at <= mine[j].at
  <2>1. \A i \in DOMAIN mine : mine[i] \in Trail!Record /\ mine[i].actor = TrailActorOf[c]
    BY <1>2
  <2>2. \A i, j \in DOMAIN mine : i < j => Trail!InOrder(mine[i], mine[j])
    BY <1>2
  <2>3. QED
    BY <1>0, <2>1, <2>2, Addresses DEF Trail!InOrder
<1>4. \A t : t \in times <=> \E i \in DOMAIN mine : t = mine[i].at
  <2>1. \A t : t \in times <=> \E k \in DOMAIN audit_asked :
                 audit_asked[k].actor = TrailActorOf[c] /\ t = audit_asked[k].at
    OBVIOUS
  <2> HIDE DEF times
  <2>2. ASSUME NEW t \in times
        PROVE  \E i \in DOMAIN mine : t = mine[i].at
    <3>1. PICK k \in DOMAIN audit_asked :
            audit_asked[k].actor = TrailActorOf[c] /\ t = audit_asked[k].at
      BY <2>1
    <3>2. PICK n \in DOMAIN audit_rows :
            Trail!Address(audit_rows[n]) = Trail!Address(audit_asked[k])
      BY <1>0
    <3>3. audit_rows[n].actor = TrailActorOf[c] /\ audit_rows[n].at = t
      BY <3>1, <3>2 DEF Trail!Address
    <3>4. QED
      BY <1>2, <3>3
  <2>3. ASSUME NEW i \in DOMAIN mine
        PROVE  mine[i].at \in times
    <3>1. PICK n \in DOMAIN audit_rows :
            mine[i] = audit_rows[n] /\ audit_rows[n].actor = TrailActorOf[c]
      BY <1>2
    <3>2. PICK k \in DOMAIN audit_asked : audit_rows[n] = audit_asked[k]
      BY <1>0
    <3>3. QED
      BY <2>1, <3>1, <3>2
  <2>4. QED
    BY <2>2, <2>3
<1>5. PICK d \in Nat :
        /\ shown \in Seq(Trail!Record) /\ Len(mine) = d + Len(shown)
        /\ d > 0 => Len(shown) = TrailShown
        /\ \A i \in DOMAIN shown : d + i \in DOMAIN mine /\ shown[i] = mine[d + i]
  <2>1. TrailShown \in Nat /\ TrailShown > 0
    BY TrailNumbers
  <2>2. mine \in Seq(Trail!Record)
    BY <1>2
  <2>3. /\ Trail!Newest(mine, TrailShown) \in Seq(Trail!Record)
        /\ \E d \in Nat : /\ Len(mine) = d + Len(Trail!Newest(mine, TrailShown))
                          /\ d > 0 => Len(Trail!Newest(mine, TrailShown)) = TrailShown
                          /\ \A i \in DOMAIN Trail!Newest(mine, TrailShown) :
                                /\ d + i \in DOMAIN mine
                                /\ Trail!Newest(mine, TrailShown)[i] = mine[d + i]
    BY <2>1, <2>2, ReadingIs
  <2>4. shown = Trail!Newest(mine, TrailShown)
    OBVIOUS
  <2> HIDE DEF shown
  <2>5. QED
    BY <2>3, <2>4
<1> HIDE DEF shown, page
<1>6. /\ Len(page) = Len(shown) /\ DOMAIN page = DOMAIN shown
      /\ \A i \in DOMAIN shown : /\ Len(shown) + 1 - i \in DOMAIN shown
                                 /\ page[i] = shown[Len(shown) + 1 - i]
  BY <1>1, <1>5, BackwardsIs
<1>7. \A t : t \in seen <=> \E i \in DOMAIN shown : t = shown[i].at
  <2>1. \A i \in DOMAIN shown : Len(shown) + 1 - (Len(shown) + 1 - i) = i
    BY <1>5
  <2>2. \A i \in DOMAIN shown : page[Len(shown) + 1 - i] = shown[i]
    BY <1>6, <2>1
  <2>3. QED
    BY <1>6, <2>2
<1> HIDE DEF seen, times
<1>8. /\ DOMAIN mine = 1..Len(mine) /\ DOMAIN shown = 1..Len(shown)
      /\ Len(mine) \in Nat /\ Len(shown) \in Nat
  BY <1>2, <1>5
<1>9. \A i \in DOMAIN mine : i > d => i - d \in DOMAIN shown /\ d + (i - d) = i
  BY <1>5, <1>8
<1>10. CASE d = 0
  <2>1. \A i \in DOMAIN mine : i > d
    BY <1>8, <1>10
  <2>2. \A t : t \in times <=> t \in seen
    BY <1>4, <1>5, <1>7, <1>9, <2>1
  <2>3. seen = times
    BY <2>2
  <2>4. QED
    BY <2>3 DEF seen, times, page
<1>11. CASE d > 0
  <2>1. ASSUME NEW t \in times, t \notin seen, NEW s \in seen
        PROVE  t <= s
    <3>1. PICK i \in DOMAIN mine : t = mine[i].at
      BY <1>4
    <3>2. PICK j \in DOMAIN shown : s = shown[j].at
      BY <1>7
    <3>3. d + j \in DOMAIN mine /\ s = mine[d + j].at
      BY <1>5, <3>2
    <3>4. ~(i > d)
      BY <1>5, <1>7, <1>9, <2>1, <3>1
    <3>5. i < d + j
      BY <1>8, <3>4
    <3>6. QED
      BY <1>3, <3>1, <3>3, <3>5
  <2>2. Len(page) = TrailShown
    BY <1>5, <1>6, <1>11
  <2>3. \A t \in times \ seen : \A s \in seen : t <= s
    BY <2>1
  <2>4. QED
    BY <2>2, <2>3 DEF seen, times, page
<1>12. d = 0 \/ d > 0
  BY <1>5
<1>13. QED
  BY <1>10, <1>11, <1>12

\* What a step may never take back: a session refused is not accepted again, nobody is
\* refused for the calls of others, what was asked stays on a trail that shows it, and a
\* full sync leaves nothing of the source behind (identity-provider.ts, access.ts, gcp.ts
\* auditC, fixture-connector.ts): Service's NothingIsTakenBack, for every step of every
\* behaviour, from the same invariants.
THEOREM NothingGivenIsTakenBack == ServiceSpec => NothingIsTakenBack
<1> DEFINE Inv == /\ part = "api" => Api!ApiInv
                  /\ part = "limits" => Limits!LimitsInv
                  /\ part = "audit" => Trail!TrailInv
                  /\ part = "connector" => Connector!SyncInv
           Step == /\ part = "api" => Api!RefusedForEver
                   /\ part = "limits" => Limits!RefusalIsEarned
                   /\ part = "audit" => /\ Trail!ShortTrailIsWhole
                                        /\ Trail!OnlyItsOwnAddressIsReplaced
                   /\ part = "connector" => Connector!FullSyncCompletes
<1>1. ServiceInit => Inv
  BY Starts, ApiBegins, LimitsBegin, TrailBegins, ConnectorBegins
<1>2. Inv /\ [ServiceNext]_serviceVars => Inv'
  BY Moves, ApiMoves, LimitsMoves, TrailMoves, ConnectorMoves
<1>3. Inv /\ [ServiceNext]_serviceVars => [Step]_serviceVars
  <2> SUFFICES ASSUME Inv, [ServiceNext]_serviceVars, serviceVars' # serviceVars
               PROVE  Step
    OBVIOUS
  <2>1. part = "api" => Api!RefusedForEver
    BY Moves, RefusalsStay
  <2>2. part = "limits" => Limits!RefusalIsEarned
    BY RefusalsAreEarned
  <2>3. part = "audit" => Trail!ShortTrailIsWhole /\ Trail!OnlyItsOwnAddressIsReplaced
    <3>1. CASE part = "audit" /\ Trail!Next
      BY <3>1, ShortTrailsAreWhole, AskedMoves
    <3>2. ASSUME part = "audit", UNCHANGED auditVars
          PROVE  Trail!OnlyItsOwnAddressIsReplaced
      BY <3>2 DEF auditVars, Trail!OnlyItsOwnAddressIsReplaced, Trail!In
    <3>3. QED
      BY <3>1, <3>2, Moves, ShortTrailsAreWhole
  <2>4. part = "connector" => Connector!FullSyncCompletes
    BY FullSyncsComplete
  <2>5. QED
    BY <2>1, <2>2, <2>3, <2>4
<1>4. QED
  BY <1>1, <1>2, <1>3, PTL DEF ServiceSpec, NothingIsTakenBack

-----------------------------------------------------------------------------
(* The store's adapter                                                     *)

LEMMA CollectionNumbers ==
    /\ CollectionLastId \in Nat /\ CollectionMaxCalls \in Nat /\ CollectionMaxBatch \in Nat
    /\ CollectionPageSize \in Nat /\ CollectionMaxPages \in Nat
    /\ CollectionPageSize > 0 /\ CollectionMaxPages > 0
  BY ConstantsAreTheirs DEF Collection!CollectionAssumption

\* The record at hand is one, everything before it in its call is stored, and its call is
\* not answered.
LEMMA AtHand ==
    ASSUME Collection!CollectionInv, collection_step # "idle"
    PROVE  /\ Collection!Record \in Collection!Records
           /\ Collection!Record # Collection!Absent
           /\ Collection!Record[1] = collection_calls /\ Collection!Record[2] = collection_at
           /\ collection_at \in 1..Len(collection_batch)
           /\ collection_batch[collection_at] \in Collection!Ids
           /\ collection_outcome[collection_calls] = "running"
           /\ \A n \in 1..collection_at - 1 : <<collection_calls, n>> \in collection_applied
<1>1. /\ collection_at \in DOMAIN collection_batch /\ collection_calls \in Collection!Calls
      /\ collection_outcome[collection_calls] = "running"
      /\ \A n \in 1..collection_at - 1 : <<collection_calls, n>> \in collection_applied
      /\ collection_batch \in Seq(Collection!Ids)
      /\ Len(collection_batch) <= CollectionMaxBatch
  BY DEF Collection!CollectionInv, Collection!WriterIs, Collection!TypeOK
<1>2. /\ collection_at \in 1..Len(collection_batch) /\ Len(collection_batch) \in Nat
      /\ collection_batch[collection_at] \in Collection!Ids
  BY <1>1
<1>3. collection_at \in 1..CollectionMaxBatch
  BY <1>1, <1>2, CollectionNumbers
<1>4. collection_calls \in Nat /\ collection_calls > 0
  BY <1>1, CollectionNumbers DEF Collection!Calls
<1>5. QED
  BY <1>1, <1>2, <1>3, <1>4 DEF Collection!Record, Collection!Records, Collection!Absent

\* What every write of the current record does to the books, be it acknowledged or not.
LEMMA WriterMoves ==
    ASSUME Collection!CollectionInv, collection_step # "idle",
           UNCHANGED <<collection_late, collection_batch, collection_calls, collection_abandoned,
                       collection_page, collection_token, collection_listed,
                       collection_expected>>,
           Collection!Hold(Collection!Record, collection_batch[collection_at]),
           Collection!Settle \/ Collection!Fail
    PROVE  /\ Collection!TypeOK' /\ Collection!WriterIs' /\ Collection!StoredIsPrefix'
           /\ Collection!AckedIsWhole' /\ Collection!Existing \subseteq Collection!Existing'
<1> DEFINE record == Collection!Record
           id == collection_batch[collection_at]
<1>0. /\ record \in Collection!Records /\ record # Collection!Absent
      /\ record[1] = collection_calls /\ record[2] = collection_at
      /\ record = <<collection_calls, collection_at>>
      /\ collection_at \in 1..Len(collection_batch) /\ id \in Collection!Ids
      /\ collection_outcome[collection_calls] = "running"
      /\ \A n \in 1..collection_at - 1 : <<collection_calls, n>> \in collection_applied
  BY AtHand DEF Collection!Record
<1>a. /\ collection_late \in BOOLEAN
      /\ collection_docs \in [Collection!Ids -> Collection!Records \cup {Collection!Absent}]
      /\ collection_batch \in Seq(Collection!Ids) /\ Len(collection_batch) <= CollectionMaxBatch
      /\ collection_calls \in 0..CollectionMaxCalls
      /\ collection_at \in 0..CollectionMaxBatch
      /\ collection_outcome \in [Collection!Calls -> {"none", "running", "acked", "failed"}]
      /\ collection_abandoned \subseteq Collection!Requests
      /\ collection_applied \subseteq Collection!Records
  BY DEF Collection!CollectionInv, Collection!TypeOK
<1>b. /\ collection_docs' = [collection_docs EXCEPT ![id] = record]
      /\ collection_applied' = collection_applied \cup {record}
  BY DEF Collection!Hold
<1> HIDE DEF record, id
<1>c. collection_calls \in Collection!Calls
  BY DEF Collection!CollectionInv, Collection!WriterIs
<1>1. \/ /\ collection_at < Len(collection_batch)
         /\ collection_at' = collection_at + 1 /\ collection_step' = "creating"
         /\ collection_outcome' = collection_outcome
      \/ /\ collection_at = Len(collection_batch)
         /\ collection_at' = 0 /\ collection_step' = "idle"
         /\ collection_outcome' = [collection_outcome EXCEPT ![collection_calls] = "acked"]
      \/ /\ collection_at' = 0 /\ collection_step' = "idle"
         /\ collection_outcome' = [collection_outcome EXCEPT ![collection_calls] = "failed"]
  BY <1>0 DEF Collection!Settle, Collection!Fail
<1>2. Collection!TypeOK'
  <2>1. collection_docs' \in [Collection!Ids -> Collection!Records \cup {Collection!Absent}]
    BY <1>a, <1>b, <1>0
  <2>2. collection_applied' \subseteq Collection!Records
    BY <1>a, <1>b, <1>0
  <2>3. /\ collection_at' \in 0..CollectionMaxBatch
        /\ collection_step' \in {"idle", "creating", "replacing"}
        /\ collection_outcome' \in [Collection!Calls -> {"none", "running", "acked", "failed"}]
    BY <1>0, <1>a, <1>c, <1>1, CollectionNumbers
  <2>4. /\ collection_page \in 0..(CollectionMaxPages + 1)
        /\ collection_token \in 0..CollectionLastId
        /\ collection_listed \subseteq Collection!Ids
        /\ collection_expected \subseteq Collection!Ids
    BY DEF Collection!CollectionInv, Collection!TypeOK
  <2>5. QED
    BY <1>a, <2>1, <2>2, <2>3, <2>4 DEF Collection!TypeOK
<1>3. Collection!Existing \subseteq Collection!Existing'
  BY <1>0, <1>a, <1>b DEF Collection!Existing
<1>4. collection_outcome'[collection_calls'] = "acked" =>
        \A n \in DOMAIN collection_batch : <<collection_calls, n>> \in collection_applied'
  BY <1>0, <1>a, <1>b, <1>c, <1>1
<1>5. Collection!AckedIsWhole'
  BY <1>4 DEF Collection!AckedIsWhole
<1>6. Collection!StoredIsPrefix'
  <2>1. \A r \in Collection!Sent : \A n \in 1..(r[2] - 1) : <<r[1], n>> \in collection_applied
    BY DEF Collection!CollectionInv, Collection!StoredIsPrefix
  <2>2. Collection!Sent' = Collection!Sent \cup {record}
    BY <1>b DEF Collection!Sent
  <2>3. \A r \in Collection!Sent' : \A n \in 1..(r[2] - 1) : <<r[1], n>> \in collection_applied'
    BY <2>1, <2>2, <1>0, <1>b
  <2>4. QED
    BY <2>3 DEF Collection!StoredIsPrefix
<1>7. Collection!WriterIs'
  <2>1. /\ \A i \in Collection!Existing : Collection!Settled(collection_docs[i])
        /\ \A r \in collection_abandoned : Collection!Settled(r.record)
        /\ ~collection_late => collection_abandoned = {}
    BY DEF Collection!CollectionInv, Collection!WriterIs
  <2>2. ASSUME NEW r, r[1] \in Nat, r[2] \in Nat, Collection!Settled(r) \/ r = record
        PROVE  /\ r[1] < collection_calls' \/ (r[1] = collection_calls' /\ (collection_step' # "idle" => r[2] < collection_at'))
    BY <2>2, <1>0, <1>1, <1>a DEF Collection!Settled
  <2>3. \A r \in Collection!Records : r[1] \in Nat /\ r[2] \in Nat
    BY CollectionNumbers DEF Collection!Records, Collection!Calls
  <2>4. ASSUME NEW i \in Collection!Existing'
        PROVE  LET r == collection_docs'[i] IN
                 r[1] < collection_calls' \/ (r[1] = collection_calls' /\ (collection_step' # "idle" => r[2] < collection_at'))
    <3>1. i \in Collection!Ids /\ collection_docs'[i] # Collection!Absent
      BY DEF Collection!Existing
    <3>2. collection_docs'[i] = IF i = id THEN record ELSE collection_docs[i]
      BY <1>a, <1>b, <3>1
    <3>3. i # id => i \in Collection!Existing
      BY <3>1, <3>2 DEF Collection!Existing
    <3>4. collection_docs'[i] \in Collection!Records
      BY <3>1, <3>2, <1>0, <1>a
    <3>5. QED
      BY <3>2, <3>3, <3>4, <2>1, <2>2, <2>3
  <2>5. ASSUME NEW q \in collection_abandoned
        PROVE  LET r == q.record IN
                 r[1] < collection_calls' \/ (r[1] = collection_calls' /\ (collection_step' # "idle" => r[2] < collection_at'))
    <3>1. q.record \in Collection!Records
      BY <1>a DEF Collection!Requests
    <3>2. QED
      BY <3>1, <2>1, <2>2, <2>3
  <2>6. collection_step' # "idle" =>
          /\ collection_at' \in DOMAIN collection_batch /\ collection_calls \in Collection!Calls
          /\ collection_outcome'[collection_calls] = "running"
          /\ \A n \in 1..collection_at' - 1 : <<collection_calls, n>> \in collection_applied'
    BY <1>0, <1>1, <1>a, <1>b, <1>c
  <2>7. QED
    BY <2>1, <2>4, <2>5, <2>6 DEF Collection!WriterIs, Collection!Settled
<1>8. QED
  BY <1>2, <1>3, <1>5, <1>6, <1>7

\* What is stored or given up on is settled.
LEMMA BooksAre ==
    ASSUME Collection!CollectionInv
    PROVE  /\ collection_late \in BOOLEAN
           /\ collection_docs \in [Collection!Ids -> Collection!Records \cup {Collection!Absent}]
           /\ collection_batch \in Seq(Collection!Ids)
           /\ Len(collection_batch) <= CollectionMaxBatch
           /\ collection_calls \in 0..CollectionMaxCalls
           /\ collection_at \in 0..CollectionMaxBatch
           /\ collection_step \in {"idle", "creating", "replacing"}
           /\ collection_outcome \in
                 [Collection!Calls -> {"none", "running", "acked", "failed"}]
           /\ collection_abandoned \subseteq Collection!Requests
           /\ collection_applied \subseteq Collection!Records
           /\ \A i \in Collection!Existing :
                 /\ i \in Collection!Ids /\ collection_docs[i] \in Collection!Records
                 /\ Collection!Settled(collection_docs[i])
           /\ \A q \in collection_abandoned :
                 /\ q.kind \in {"create", "replace"} /\ q.id \in Collection!Ids
                 /\ q.record \in Collection!Records /\ Collection!Settled(q.record)
                 /\ q = [kind |-> q.kind, id |-> q.id, record |-> q.record]
           /\ ~collection_late => collection_abandoned = {}
           /\ \A r \in Collection!Records : r[1] \in Nat /\ r[2] \in Nat /\ r[1] > 0
           /\ \A r \in Collection!Sent : \A n \in 1..(r[2] - 1) :
                 <<r[1], n>> \in collection_applied
           /\ Collection!Absent \notin Collection!Records
<1>1. Collection!TypeOK /\ Collection!WriterIs /\ Collection!StoredIsPrefix
  BY DEF Collection!CollectionInv
<1>2. \A r \in Collection!Records : r[1] \in Nat /\ r[2] \in Nat /\ r[1] > 0
  BY CollectionNumbers DEF Collection!Records, Collection!Calls
<1>3. Collection!Absent \notin Collection!Records
  BY <1>2 DEF Collection!Absent
<1>4. \A i \in Collection!Existing :
        /\ i \in Collection!Ids /\ collection_docs[i] \in Collection!Records
        /\ Collection!Settled(collection_docs[i])
  BY <1>1 DEF Collection!TypeOK, Collection!WriterIs, Collection!Existing
<1>5. \A q \in collection_abandoned :
        /\ q.kind \in {"create", "replace"} /\ q.id \in Collection!Ids
        /\ q.record \in Collection!Records /\ Collection!Settled(q.record)
        /\ q = [kind |-> q.kind, id |-> q.id, record |-> q.record]
  BY <1>1 DEF Collection!TypeOK, Collection!WriterIs, Collection!Requests
<1>6. QED
  BY <1>1, <1>2, <1>3, <1>4, <1>5
     DEF Collection!TypeOK, Collection!WriterIs, Collection!StoredIsPrefix

LEMMA PutManyMoves ==
    ASSUME Collection!CollectionInv, NEW ids \in Collection!Batches, Collection!PutMany(ids)
    PROVE  /\ Collection!TypeOK' /\ Collection!WriterIs' /\ Collection!StoredIsPrefix'
           /\ Collection!AckedIsWhole' /\ Collection!Existing' = Collection!Existing
<1>1. /\ collection_step = "idle" /\ collection_calls < CollectionMaxCalls
      /\ collection_calls' = collection_calls + 1 /\ collection_batch' = ids
      /\ collection_at' = 1 /\ collection_step' = "creating"
      /\ collection_outcome' = [collection_outcome EXCEPT ![collection_calls + 1] = "running"]
      /\ UNCHANGED <<collection_late, collection_docs, collection_abandoned, collection_applied,
                     collection_page, collection_token, collection_listed, collection_expected>>
  BY DEF Collection!PutMany, Collection!reading
<1>2. /\ ids \in Seq(Collection!Ids) /\ Len(ids) \in 1..CollectionMaxBatch
      /\ DOMAIN ids = 1..Len(ids)
  <2>1. PICK n \in 1..CollectionMaxBatch : ids \in [1..n -> Collection!Ids]
    BY DEF Collection!Batches
  <2>2. n \in Nat
    BY CollectionNumbers
  <2>3. QED
    BY <2>1, <2>2
<1>3. collection_calls' \in Collection!Calls /\ collection_outcome'[collection_calls'] = "running"
  BY <1>1, BooksAre, CollectionNumbers DEF Collection!Calls
<1>4. Collection!TypeOK'
  <2>1. /\ collection_page \in 0..(CollectionMaxPages + 1)
        /\ collection_token \in 0..CollectionLastId
        /\ collection_listed \subseteq Collection!Ids
        /\ collection_expected \subseteq Collection!Ids
    BY DEF Collection!CollectionInv, Collection!TypeOK
  <2>2. /\ collection_batch' \in Seq(Collection!Ids) /\ Len(collection_batch') <= CollectionMaxBatch
        /\ collection_calls' \in 0..CollectionMaxCalls
        /\ collection_at' \in 0..CollectionMaxBatch
    BY <1>1, <1>2, BooksAre, CollectionNumbers
  <2>3. collection_outcome' \in [Collection!Calls -> {"none", "running", "acked", "failed"}]
    BY <1>1, BooksAre
  <2>4. QED
    BY <2>1, <2>2, <2>3, <1>1, BooksAre DEF Collection!TypeOK
<1>5. Collection!AckedIsWhole'
  BY <1>3 DEF Collection!AckedIsWhole
<1>6. Collection!StoredIsPrefix'
  <2>1. Collection!Sent' = Collection!Sent
    BY <1>1 DEF Collection!Sent
  <2>2. QED
    BY <2>1, <1>1, BooksAre DEF Collection!StoredIsPrefix
<1>7. Collection!Existing' = Collection!Existing
  BY <1>1 DEF Collection!Existing
<1>8. Collection!WriterIs'
  <2>1. \A r \in Collection!Records : Collection!Settled(r) => r[1] < collection_calls'
    BY <1>1, BooksAre DEF Collection!Settled
  <2>2. \A i \in Collection!Existing' : collection_docs'[i][1] < collection_calls'
    BY <2>1, <1>1, <1>7, BooksAre
  <2>3. \A q \in collection_abandoned' : q.record[1] < collection_calls'
    BY <2>1, <1>1, BooksAre
  <2>4. collection_at' \in DOMAIN collection_batch' /\ 1..collection_at' - 1 = {}
    BY <1>1, <1>2
  <2>5. QED
    BY <2>2, <2>3, <2>4, <1>1, <1>3, BooksAre DEF Collection!WriterIs, Collection!Settled
<1>9. QED
  BY <1>4, <1>5, <1>6, <1>7, <1>8

\* A put that is told the id exists, refused, or given up on while requests arrive late
\* leaves the documents alone.
LEMMA LeftAlone ==
    ASSUME Collection!CollectionInv, Collection!Conflict \/ Collection!Refuse
                                     \/ (Collection!GiveUp /\ collection_late)
    PROVE  /\ Collection!TypeOK' /\ Collection!WriterIs' /\ Collection!StoredIsPrefix'
           /\ Collection!AckedIsWhole' /\ Collection!Existing' = Collection!Existing
<1>1. /\ collection_step # "idle"
      /\ UNCHANGED <<collection_late, collection_docs, collection_batch, collection_calls,
                     collection_applied, collection_page, collection_token, collection_listed,
                     collection_expected>>
  BY DEF Collection!Conflict, Collection!Refuse, Collection!GiveUp, Collection!reading
<1>2. \/ /\ collection_step' = "replacing"
         /\ UNCHANGED <<collection_at, collection_outcome, collection_abandoned>>
      \/ /\ Collection!Fail /\ collection_abandoned' = collection_abandoned
      \/ /\ Collection!Fail /\ collection_late
         /\ \E q \in Collection!Requests : /\ q.record = Collection!Record
                                           /\ collection_abandoned' = collection_abandoned \cup {q}
  <2>1. CASE Collection!Conflict
    BY <2>1 DEF Collection!Conflict
  <2>2. CASE Collection!Refuse
    BY <2>2 DEF Collection!Refuse
  <2>3. CASE Collection!GiveUp /\ collection_late
    <3> DEFINE q == [kind |-> IF collection_step = "creating" THEN "create" ELSE "replace",
                     id |-> collection_batch[collection_at], record |-> Collection!Record]
    <3>1. q \in Collection!Requests /\ q.record = Collection!Record
      BY <1>1, AtHand DEF Collection!Requests
    <3>2. collection_abandoned' = collection_abandoned \cup {q} /\ Collection!Fail
      BY <2>3 DEF Collection!GiveUp
    <3> HIDE DEF q
    <3>3. QED
      BY <3>1, <3>2, <2>3
  <2>4. QED
    BY <2>1, <2>2, <2>3
<1>a. /\ Collection!Record[1] = collection_calls /\ Collection!Record[2] = collection_at
      /\ collection_outcome[collection_calls] = "running"
      /\ \A n \in 1..collection_at - 1 : <<collection_calls, n>> \in collection_applied
  BY <1>1, AtHand
<1>b. collection_calls \in Collection!Calls /\ collection_calls \in Nat
  BY <1>1, CollectionNumbers DEF Collection!CollectionInv, Collection!WriterIs, Collection!Calls
<1>3. \/ /\ collection_step' = "replacing" /\ collection_at' = collection_at
         /\ collection_outcome' = collection_outcome
         /\ collection_abandoned' = collection_abandoned
      \/ /\ collection_step' = "idle" /\ collection_at' = 0
         /\ collection_outcome' = [collection_outcome EXCEPT ![collection_calls] = "failed"]
  BY <1>2 DEF Collection!Fail
<1>4. /\ collection_abandoned' \subseteq Collection!Requests
      /\ \A q \in collection_abandoned' :
            \/ q \in collection_abandoned
            \/ q.record = Collection!Record /\ collection_step' = "idle"
      /\ ~collection_late => collection_abandoned' = collection_abandoned
  BY <1>2, BooksAre DEF Collection!Fail
<1>5. Collection!TypeOK'
  <2>1. /\ collection_page \in 0..(CollectionMaxPages + 1)
        /\ collection_token \in 0..CollectionLastId
        /\ collection_listed \subseteq Collection!Ids
        /\ collection_expected \subseteq Collection!Ids
    BY DEF Collection!CollectionInv, Collection!TypeOK
  <2>2. /\ collection_at' \in 0..CollectionMaxBatch
        /\ collection_step' \in {"idle", "creating", "replacing"}
        /\ collection_outcome' \in [Collection!Calls -> {"none", "running", "acked", "failed"}]
    BY <1>3, BooksAre, CollectionNumbers
  <2>3. QED
    BY <2>1, <2>2, <1>1, <1>4, BooksAre DEF Collection!TypeOK
<1>6. Collection!AckedIsWhole'
  BY <1>1, <1>3, <1>a, <1>b, BooksAre DEF Collection!AckedIsWhole
<1>7. Collection!StoredIsPrefix'
  <2>1. \A r \in Collection!Sent' : r \in Collection!Sent \/ r = Collection!Record
    BY <1>1, <1>4 DEF Collection!Sent
  <2>2. \A r \in Collection!Sent : \A n \in 1..(r[2] - 1) : <<r[1], n>> \in collection_applied
    BY BooksAre
  <2>3. QED
    BY <2>1, <2>2, <1>1, <1>a DEF Collection!StoredIsPrefix
<1>8. Collection!Existing' = Collection!Existing
  BY <1>1 DEF Collection!Existing
<1>9. Collection!WriterIs'
  <2>1. ASSUME NEW r, Collection!Settled(r) \/ (r = Collection!Record /\ collection_step' = "idle")
        PROVE  /\ r[1] < collection_calls' \/ (r[1] = collection_calls' /\ (collection_step' # "idle" => r[2] < collection_at'))
    BY <2>1, <1>1, <1>3, <1>a DEF Collection!Settled
  <2>2. \A i \in Collection!Existing' :
          LET r == collection_docs'[i] IN
            r[1] < collection_calls' \/ (r[1] = collection_calls' /\ (collection_step' # "idle" => r[2] < collection_at'))
    BY <2>1, <1>1, <1>8, BooksAre
  <2>3. \A q \in collection_abandoned' :
          LET r == q.record IN
            r[1] < collection_calls' \/ (r[1] = collection_calls' /\ (collection_step' # "idle" => r[2] < collection_at'))
    BY <2>1, <1>4, BooksAre
  <2>4. collection_step' # "idle" =>
          /\ collection_at' \in DOMAIN collection_batch' /\ collection_calls' \in Collection!Calls
          /\ collection_outcome'[collection_calls'] = "running"
          /\ \A n \in 1..collection_at' - 1 : <<collection_calls', n>> \in collection_applied'
    <3>1. collection_at \in DOMAIN collection_batch
      BY <1>1 DEF Collection!CollectionInv, Collection!WriterIs
    <3>2. QED
      BY <3>1, <1>1, <1>3, <1>a, <1>b
  <2>5. ~collection_late' => collection_abandoned' = {}
    BY <1>1, <1>4, BooksAre
  <2>6. QED
    BY <2>2, <2>3, <2>4, <2>5 DEF Collection!WriterIs, Collection!Settled
<1>10. QED
  BY <1>5, <1>6, <1>7, <1>8, <1>9

\* A late request brings what was already counted as sent, or nothing.
LEMMA LandMoves ==
    ASSUME Collection!CollectionInv, NEW q \in collection_abandoned, Collection!Land(q)
    PROVE  /\ Collection!TypeOK' /\ Collection!WriterIs' /\ Collection!StoredIsPrefix'
           /\ Collection!AckedIsWhole' /\ Collection!Existing \subseteq Collection!Existing'
<1>1. /\ collection_abandoned' = collection_abandoned \ {q}
      /\ UNCHANGED <<collection_late, collection_batch, collection_calls, collection_at,
                     collection_step, collection_outcome, collection_page, collection_token,
                     collection_listed, collection_expected>>
  BY DEF Collection!Land, Collection!writing, Collection!reading
<1>2. \/ UNCHANGED <<collection_docs, collection_applied>>
      \/ /\ collection_docs' = [collection_docs EXCEPT ![q.id] = q.record]
         /\ collection_applied' = collection_applied \cup {q.record}
  BY DEF Collection!Land, Collection!Hold
<1>3. /\ q.id \in Collection!Ids /\ q.record \in Collection!Records
      /\ Collection!Settled(q.record) /\ q.record # Collection!Absent
      /\ q.record \in Collection!Sent
  BY BooksAre DEF Collection!Sent
<1>4. /\ collection_docs' \in [Collection!Ids -> Collection!Records \cup {Collection!Absent}]
      /\ collection_applied' \subseteq Collection!Records
      /\ collection_applied \subseteq collection_applied'
      /\ \A i \in Collection!Ids : \/ collection_docs'[i] = collection_docs[i]
                                   \/ collection_docs'[i] = q.record
  BY <1>2, <1>3, BooksAre
<1>5. Collection!TypeOK'
  <2>1. /\ collection_page \in 0..(CollectionMaxPages + 1)
        /\ collection_token \in 0..CollectionLastId
        /\ collection_listed \subseteq Collection!Ids
        /\ collection_expected \subseteq Collection!Ids
    BY DEF Collection!CollectionInv, Collection!TypeOK
  <2>2. collection_abandoned' \subseteq Collection!Requests
    BY <1>1, BooksAre
  <2>3. QED
    BY <2>1, <2>2, <1>1, <1>4, BooksAre DEF Collection!TypeOK
<1>6. Collection!Existing \subseteq Collection!Existing'
  BY <1>3, <1>4, BooksAre DEF Collection!Existing
<1>7. Collection!AckedIsWhole'
  <2>1. Collection!AckedIsWhole
    BY DEF Collection!CollectionInv
  <2>2. QED
    BY <2>1, <1>1, <1>4 DEF Collection!AckedIsWhole
<1>8. Collection!StoredIsPrefix'
  <2>1. \A r \in Collection!Sent' : r \in Collection!Sent
    BY <1>1, <1>2, <1>3 DEF Collection!Sent
  <2>2. \A r \in Collection!Sent : \A n \in 1..(r[2] - 1) : <<r[1], n>> \in collection_applied
    BY BooksAre
  <2>3. QED
    BY <2>1, <2>2, <1>4 DEF Collection!StoredIsPrefix
<1>9. Collection!WriterIs'
  <2>1. \A r : Collection!Settled(r)' = Collection!Settled(r)
    BY <1>1 DEF Collection!Settled
  <2>2. \A i \in Collection!Existing' :
           Collection!Settled(collection_docs'[i])
    <3>1. ASSUME NEW i \in Collection!Existing'
          PROVE  Collection!Settled(collection_docs'[i])
      <4>1. i \in Collection!Ids /\ collection_docs'[i] # Collection!Absent
        BY DEF Collection!Existing
      <4>2. collection_docs'[i] = collection_docs[i] => i \in Collection!Existing
        BY <4>1 DEF Collection!Existing
      <4>3. QED
        BY <4>1, <4>2, <1>3, <1>4, BooksAre
    <3>2. QED
      BY <3>1
  <2>3. \A p \in collection_abandoned' : Collection!Settled(p.record)
    BY <1>1, BooksAre
  <2>4. ~collection_late' => collection_abandoned' = {}
    BY <1>1, BooksAre
  <2>5. collection_step' # "idle" =>
          /\ collection_at' \in DOMAIN collection_batch' /\ collection_calls' \in Collection!Calls
          /\ collection_outcome'[collection_calls'] = "running"
          /\ \A n \in 1..collection_at' - 1 : <<collection_calls', n>> \in collection_applied'
    BY <1>1, <1>4 DEF Collection!CollectionInv, Collection!WriterIs
  <2>6. QED
    BY <2>1, <2>2, <2>3, <2>4, <2>5, <1>1 DEF Collection!WriterIs, Collection!Settled
<1>10. QED
  BY <1>5, <1>6, <1>7, <1>8, <1>9

\* A list goes on undisturbed while documents are put: none disappears.
LEMMA ListerStays ==
    ASSUME Collection!CollectionInv, Collection!Existing \subseteq Collection!Existing',
           UNCHANGED <<collection_page, collection_token, collection_listed, collection_expected>>
    PROVE  Collection!ListerIs'
<1>1. Collection!ListerIs
  BY DEF Collection!CollectionInv
<1>2. Collection!Passed \subseteq Collection!Passed'
  BY DEF Collection!Passed
<1>3. IsFiniteSet(Collection!Passed')
  <2>1. Collection!Passed' \subseteq 1..CollectionLastId
    BY DEF Collection!Passed, Collection!Existing, Collection!Ids
  <2>2. QED
    BY <2>1, CollectionNumbers, CountedUpTo
<1>4. /\ Cardinality(Collection!Passed) \in Nat /\ Cardinality(Collection!Passed') \in Nat
      /\ Cardinality(Collection!Passed) <= Cardinality(Collection!Passed')
  BY <1>2, <1>3, FS_Subset, FS_CardinalityType
<1>5. /\ Collection!Cardinality(Collection!Passed) = Cardinality(Collection!Passed)
      /\ Collection!Cardinality(Collection!Passed)' = Cardinality(Collection!Passed')
  BY DEF Collection!Cardinality, Cardinality
<1>6. CollectionPageSize * (collection_page - 1) \in Int
  BY CollectionNumbers DEF Collection!CollectionInv, Collection!TypeOK
<1>7. collection_page # 0 /\ ~(Collection!Listed /\ collection_token = 0) =>
        Cardinality(Collection!Passed') >= CollectionPageSize * (collection_page - 1)
  BY <1>1, <1>4, <1>5, <1>6 DEF Collection!ListerIs
<1>8. /\ collection_expected' \subseteq Collection!Existing'
      /\ \A i \in collection_expected' : i <= collection_token' => i \in collection_listed'
      /\ collection_token' # 0 => \E i \in Collection!Existing' : collection_token' < i
      /\ Collection!Listed' /\ collection_token' = 0 => collection_expected' \subseteq collection_listed'
  BY <1>1 DEF Collection!ListerIs, Collection!Listed
<1>9. QED
  BY <1>5, <1>7, <1>8 DEF Collection!ListerIs, Collection!Listed

LEMMA ListMoves ==
    ASSUME Collection!CollectionInv, Collection!StartList \/ Collection!ReadPage \/ Collection!EndList
    PROVE  /\ Collection!WriterIs' /\ Collection!StoredIsPrefix' /\ Collection!AckedIsWhole'
           /\ Collection!Existing' = Collection!Existing
<1>1. /\ UNCHANGED <<collection_late, collection_docs, collection_batch, collection_calls,
                     collection_at, collection_step, collection_outcome, collection_abandoned,
                     collection_applied>>
  BY DEF Collection!StartList, Collection!ReadPage, Collection!EndList, Collection!writing
<1>2. /\ Collection!Existing' = Collection!Existing /\ Collection!Sent' = Collection!Sent
      /\ \A r : Collection!Settled(r)' = Collection!Settled(r)
  BY <1>1 DEF Collection!Existing, Collection!Sent, Collection!Settled
<1>3. QED
  BY <1>1, <1>2 DEF Collection!CollectionInv, Collection!WriterIs, Collection!StoredIsPrefix,
                    Collection!AckedIsWhole, Collection!Settled

LEMMA ListBegins ==
    ASSUME Collection!CollectionInv, Collection!StartList \/ Collection!EndList
    PROVE  Collection!TypeOK' /\ Collection!ListerIs'
<1>1. Collection!TypeOK
  BY DEF Collection!CollectionInv
<1>2. Collection!Existing' = Collection!Existing /\ Collection!Existing \subseteq Collection!Ids
  BY ListMoves DEF Collection!Existing
<1>3. \/ collection_page' = 1 /\ collection_expected' = Collection!Existing
      \/ collection_page' = 0 /\ collection_expected' = {}
  BY DEF Collection!StartList, Collection!EndList
<1>4. /\ collection_token' = 0 /\ collection_listed' = {}
      /\ UNCHANGED <<collection_late, collection_docs, collection_batch, collection_calls,
                     collection_at, collection_step, collection_outcome, collection_abandoned,
                     collection_applied>>
  BY DEF Collection!StartList, Collection!EndList, Collection!writing
<1>5. Collection!TypeOK'
  <2>1. collection_page' \in 0..(CollectionMaxPages + 1) /\ 0 \in 0..CollectionLastId
    BY <1>3, CollectionNumbers
  <2>2. collection_expected' \subseteq Collection!Ids
    BY <1>2, <1>3
  <2>3. QED
    BY <2>1, <2>2, <1>1, <1>4 DEF Collection!TypeOK
<1>6. Cardinality(Collection!Passed') \in Nat
  <2>1. Collection!Passed' \subseteq 1..CollectionLastId
    BY DEF Collection!Passed, Collection!Existing, Collection!Ids
  <2>2. QED
    BY <2>1, CollectionNumbers, CountedUpTo
<1>7. Collection!Cardinality(Collection!Passed)' = Cardinality(Collection!Passed')
  BY DEF Collection!Cardinality, Cardinality
<1>8. collection_page' # 0 =>
        Cardinality(Collection!Passed') >= CollectionPageSize * (collection_page' - 1)
  <2>1. CollectionPageSize * (1 - 1) = 0
    BY CollectionNumbers
  <2>2. QED
    BY <2>1, <1>3, <1>6
<1>9. /\ collection_expected' \subseteq Collection!Existing'
      /\ \A i \in collection_expected' : ~(i <= 0)
      /\ ~(collection_page' = CollectionMaxPages + 1)
  <2>1. \A i \in Collection!Existing : ~(i <= 0)
    BY <1>2, CollectionNumbers DEF Collection!Ids
  <2>2. QED
    BY <2>1, <1>2, <1>3, CollectionNumbers
<1>10. QED
  BY <1>4, <1>5, <1>7, <1>8, <1>9 DEF Collection!ListerIs, Collection!Listed

\* What a page shows: everything not passed yet, or PageSize documents of it, the first.
LEMMA PageShows ==
    ASSUME Collection!CollectionInv
    PROVE  LET rest == {i \in Collection!Existing : collection_token < i}
               next == Collection!NextPageToken
           IN  /\ next \in 0..CollectionLastId /\ Collection!OnPage \subseteq rest
               /\ next = 0 => Collection!OnPage = rest
               /\ next # 0 => /\ next \in rest
                              /\ \E i \in rest : next < i
                              /\ \A i \in rest : i <= next => i \in Collection!OnPage
                              /\ Cardinality({i \in rest : i <= next}) = CollectionPageSize
<1> DEFINE rest == {i \in Collection!Existing : collection_token < i}
           next == Collection!NextPageToken
           upTo(b) == Cardinality({m \in rest : m <= b})
<1>1. /\ rest \subseteq 1..CollectionLastId /\ CollectionLastId \in Nat
      /\ CollectionPageSize \in Nat /\ CollectionPageSize > 0
      /\ collection_token \in 0..CollectionLastId
  BY CollectionNumbers
     DEF Collection!Existing, Collection!Ids, Collection!CollectionInv, Collection!TypeOK
<1>2. \A i \in rest : i \in Nat /\ i > 0 /\ i <= CollectionLastId /\ collection_token < i
  BY <1>1
<1>3. Collection!OnPage = {i \in rest : upTo(i) <= CollectionPageSize}
  <2>1. \A S : Collection!Cardinality(S) = Cardinality(S)
    BY DEF Collection!Cardinality, Cardinality
  <2>2. \A i : {j \in Collection!Existing : collection_token < j /\ j <= i} = {m \in rest : m <= i}
    OBVIOUS
  <2>3. Collection!OnPage = {i \in Collection!Existing : i > collection_token
           /\ Cardinality({j \in Collection!Existing : collection_token < j /\ j <= i}) <= CollectionPageSize}
    BY <2>1 DEF Collection!OnPage
  <2>4. \A i \in Collection!Existing : i > collection_token <=> collection_token < i
    BY <1>1 DEF Collection!Existing, Collection!Ids
  <2>5. QED
    BY <2>2, <2>3, <2>4
<1>4. \A i, j \in rest : i < j => upTo(i) < upTo(j)
  BY <1>1, RankGrows
<1>5. \A b \in Nat : upTo(b) \in Nat
  BY <1>1, CountedUpTo
<1>6. /\ Cardinality(rest) \in Nat
      /\ \A i \in 1..Cardinality(rest) : Nth(rest, i) \in rest /\ upTo(Nth(rest, i)) = i
      /\ \A n \in rest : \E i \in 1..Cardinality(rest) : Nth(rest, i) = n
  BY <1>1, CountedUpTo, NthIs
<1>7. Collection!NextPageToken =
        IF \E i \in Collection!Existing : \A j \in Collection!OnPage \cup {collection_token} : j < i
          THEN CHOOSE i \in Collection!OnPage : \A j \in Collection!OnPage : j <= i
          ELSE 0
  BY DEF Collection!NextPageToken
<1> HIDE DEF upTo
<1>8. CASE \E i \in rest : \A j \in Collection!OnPage : j < i
  <2>1. PICK far \in rest : \A j \in Collection!OnPage : j < far
    BY <1>8
  <2>2. far \notin Collection!OnPage
    BY <2>1, <1>2
  <2>3. upTo(far) > CollectionPageSize
    BY <2>2, <1>1, <1>2, <1>3, <1>5
  <2>4. PICK k \in 1..Cardinality(rest) : Nth(rest, k) = far
    BY <1>6
  <2>5. CollectionPageSize \in 1..Cardinality(rest)
    BY <2>3, <2>4, <1>1, <1>6
  <2> DEFINE t == Nth(rest, CollectionPageSize)
  <2>6. t \in rest /\ upTo(t) = CollectionPageSize
    BY <2>5, <1>6
  <2> HIDE DEF t
  <2>7. t \in Collection!OnPage
    BY <2>6, <1>1, <1>3
  <2>8. \A j \in Collection!OnPage : j \in rest /\ j <= t
    BY <2>6, <1>1, <1>2, <1>3, <1>4, <1>5
  <2>9. \E i \in Collection!Existing : \A j \in Collection!OnPage \cup {collection_token} : j < i
    BY <2>1
  <2>10. next = t
    <3>1. next = CHOOSE i \in Collection!OnPage : \A j \in Collection!OnPage : j <= i
      BY <2>9, <1>7
    <3>2. next \in Collection!OnPage /\ \A j \in Collection!OnPage : j <= next
      BY <3>1, <2>7, <2>8
    <3>3. QED
      BY <3>2, <2>7, <2>8, <1>2
  <2>11. \A i \in rest : i <= t => i \in Collection!OnPage
    BY <2>6, <1>1, <1>2, <1>3, <1>4, <1>5
  <2>12. t < far
    BY <2>1, <2>7
  <2>13. t \in 0..CollectionLastId /\ t # 0
    BY <2>6, <1>2, <1>1
  <2>14. Collection!OnPage \subseteq rest
    BY <1>3
  <2>15. QED
    BY <2>6, <2>10, <2>11, <2>12, <2>13, <2>14 DEF upTo
<1>9. CASE ~\E i \in rest : \A j \in Collection!OnPage : j < i
  <2>1. next = 0
    <3>1. ASSUME NEW i \in Collection!Existing,
                 \A j \in Collection!OnPage \cup {collection_token} : j < i
          PROVE  FALSE
      BY <3>1, <1>9
    <3>2. QED
      BY <3>1, <1>7
  <2>2. ASSUME NEW i \in rest
        PROVE  i \in Collection!OnPage
    <3>1. PICK j \in Collection!OnPage : ~(j < i)
      BY <1>9
    <3>2. j \in rest /\ upTo(j) <= CollectionPageSize
      BY <1>3
    <3>3. upTo(i) <= upTo(j)
      BY <3>1, <3>2, <1>2, <1>4, <1>5
    <3>4. QED
      BY <3>2, <3>3, <1>1, <1>2, <1>3, <1>5
  <2>3. Collection!OnPage = rest
    BY <2>2, <1>3
  <2>4. 0 \in 0..CollectionLastId
    BY <1>1
  <2>5. QED
    BY <2>1, <2>3, <2>4
<1>10. QED
  BY <1>8, <1>9

\* What a list has passed it has read, a page at a time.
LEMMA ReadMoves ==
    ASSUME Collection!CollectionInv, Collection!ReadPage
    PROVE  Collection!TypeOK' /\ Collection!ListerIs'
<1> DEFINE rest == {i \in Collection!Existing : collection_token < i}
           next == Collection!NextPageToken
           shown == Collection!OnPage
           passed == {i \in Collection!Existing : i <= collection_token}
           ahead == {i \in rest : i <= next}
<1>1. Collection!TypeOK /\ Collection!ListerIs
  BY DEF Collection!CollectionInv
<1>2. /\ Collection!Existing' = Collection!Existing /\ Collection!Existing \subseteq Collection!Ids
      /\ Collection!Existing \subseteq 1..CollectionLastId
  BY ListMoves DEF Collection!Existing, Collection!Ids
<1>3. /\ collection_page \in 1..CollectionMaxPages
      /\ collection_listed' = collection_listed \cup shown /\ collection_token' = next
      /\ collection_page' = IF next = 0 THEN CollectionMaxPages + 1 ELSE collection_page + 1
      /\ collection_expected' = collection_expected
      /\ UNCHANGED <<collection_late, collection_docs, collection_batch, collection_calls,
                     collection_at, collection_step, collection_outcome, collection_abandoned,
                     collection_applied>>
  BY DEF Collection!ReadPage, Collection!Listing, Collection!writing
<1>4. /\ next \in 0..CollectionLastId /\ shown \subseteq rest
      /\ next = 0 => shown = rest
      /\ next # 0 => /\ next \in rest
                     /\ \E i \in rest : next < i
                     /\ \A i \in rest : i <= next => i \in shown
                     /\ Cardinality(ahead) = CollectionPageSize
  BY PageShows
<1>5. /\ \A S : Collection!Cardinality(S) = Cardinality(S)
      /\ Collection!Passed = passed
      /\ Collection!Cardinality(Collection!Passed)' = Cardinality(Collection!Passed')
      /\ Collection!Passed' = {i \in Collection!Existing : i <= next}
  BY <1>2, <1>3 DEF Collection!Cardinality, Cardinality, Collection!Passed
<1>6. /\ CollectionLastId \in Nat /\ CollectionPageSize \in Nat /\ CollectionMaxPages \in Nat
      /\ collection_token \in 0..CollectionLastId /\ collection_page \in Nat
      /\ collection_page # 0 /\ collection_page # CollectionMaxPages + 1
  BY <1>1, <1>3, CollectionNumbers DEF Collection!TypeOK
<1>7. /\ Cardinality(passed) >= CollectionPageSize * (collection_page - 1)
      /\ collection_expected \subseteq Collection!Existing
      /\ \A i \in collection_expected : i <= collection_token => i \in collection_listed
  BY <1>1, <1>5, <1>6 DEF Collection!ListerIs, Collection!Listed
<1> HIDE DEF next, shown
<1>8. \A i \in Collection!Existing : i \in Nat /\ i > 0
  BY <1>2, <1>6
<1>9. Collection!TypeOK'
  <2>1. /\ collection_page' \in 0..(CollectionMaxPages + 1)
        /\ collection_token' \in 0..CollectionLastId
    BY <1>3, <1>4, <1>6
  <2>2. /\ collection_listed' \subseteq Collection!Ids
        /\ collection_expected' \subseteq Collection!Ids
    BY <1>1, <1>2, <1>3, <1>4 DEF Collection!TypeOK
  <2>3. QED
    BY <2>1, <2>2, <1>1, <1>3 DEF Collection!TypeOK
<1>10. CASE next = 0
  <2>1. collection_expected \subseteq collection_listed \cup shown
    BY <1>4, <1>6, <1>7, <1>8, <1>10
  <2>2. \A i \in collection_expected : ~(i <= 0)
    BY <1>7, <1>8
  <2>3. QED
    BY <2>1, <2>2, <1>2, <1>3, <1>6, <1>7, <1>9, <1>10 DEF Collection!ListerIs, Collection!Listed
<1>11. CASE next # 0
  <2>1. Cardinality(Collection!Passed') = Cardinality(passed) + CollectionPageSize
    <3>1. collection_token < next
      BY <1>4, <1>11
    <3>2. next \in Nat /\ collection_token \in Nat
      BY <1>4, <1>6
    <3>3. passed \cup ahead = {i \in Collection!Existing : i <= next}
      BY <3>1, <3>2, <1>8
    <3>4. passed \cap ahead = {}
      BY <1>8, <3>2
    <3>5. /\ passed \subseteq 1..CollectionLastId /\ ahead \subseteq 1..CollectionLastId
      BY <1>2
    <3>6. IsFiniteSet(passed) /\ IsFiniteSet(ahead)
      BY <3>5, <1>6, CountedUpTo
    <3> HIDE DEF passed, ahead
    <3>7. Cardinality(passed \cup ahead) = Cardinality(passed) + Cardinality(ahead)
      <4>1. Cardinality(passed \cup ahead)
              = Cardinality(passed) + Cardinality(ahead) - Cardinality(passed \cap ahead)
        BY <3>6, FS_Union
      <4>2. Cardinality({}) = 0
        BY FS_EmptySet
      <4>3. Cardinality(passed) \in Nat /\ Cardinality(ahead) \in Nat
        BY <3>6, FS_CardinalityType
      <4>4. passed \cap ahead = {}
        BY <3>4
      <4>5. Cardinality(passed \cap ahead) = 0
        BY <4>2, <4>4
      <4>6. QED
        BY <4>1, <4>3, <4>5
    <3>8. QED
      BY <3>3, <3>7, <1>4, <1>5, <1>11
  <2>2. collection_page' = collection_page + 1
    BY <1>3, <1>11
  <2>3. Cardinality(passed) \in Nat
    <3>1. passed \subseteq 1..CollectionLastId
      BY <1>2
    <3>2. QED
      BY <3>1, <1>6, CountedUpTo
  <2>4. /\ CollectionPageSize * (collection_page' - 1)
             = CollectionPageSize * (collection_page - 1) + CollectionPageSize
        /\ CollectionPageSize * (collection_page - 1) \in Int
    BY <2>2, <1>6
  <2>5. Cardinality(Collection!Passed') >= CollectionPageSize * (collection_page' - 1)
    BY <2>1, <2>3, <2>4, <1>6, <1>7
  <2>6. \A i \in collection_expected' : i <= collection_token' => i \in collection_listed'
    <3>1. ASSUME NEW i \in collection_expected, i <= next
          PROVE  i \in collection_listed \cup shown
      <4>1. i \in Collection!Existing /\ i \in Nat
        BY <1>7, <1>8
      <4>2. i <= collection_token \/ collection_token < i
        BY <4>1, <1>6
      <4>3. QED
        BY <4>1, <4>2, <3>1, <1>4, <1>7, <1>11
    <3>2. QED
      BY <3>1, <1>3
  <2>7. \E i \in Collection!Existing' : collection_token' < i
    BY <1>2, <1>3, <1>4, <1>11
  <2>8. collection_expected' \subseteq Collection!Existing' /\ collection_token' # 0
    BY <1>2, <1>3, <1>7, <1>11
  <2>9. QED
    BY <2>5, <2>6, <2>7, <2>8, <1>5, <1>9 DEF Collection!ListerIs
<1>12. QED
  BY <1>10, <1>11

LEMMA CollectionBegins == Collection!Init => Collection!CollectionInv
<1> SUFFICES ASSUME Collection!Init PROVE Collection!CollectionInv
  OBVIOUS
<1> USE DEF Collection!Init
<1>1. Collection!TypeOK
  <2>1. /\ 0 \in 0..CollectionMaxCalls /\ 0 \in 0..CollectionMaxBatch
        /\ 0 \in 0..(CollectionMaxPages + 1) /\ 0 \in 0..CollectionLastId
    BY CollectionNumbers
  <2>2. /\ collection_batch \in Seq(Collection!Ids) /\ Len(collection_batch) = 0
        /\ 0 <= CollectionMaxBatch
    BY CollectionNumbers
  <2>3. QED
    BY <2>1, <2>2 DEF Collection!TypeOK
<1>2. Collection!Existing = {} /\ Collection!Sent = {}
  BY DEF Collection!Existing, Collection!Sent
<1>3. QED
  BY <1>1, <1>2 DEF Collection!CollectionInv, Collection!WriterIs, Collection!ListerIs,
        Collection!StoredIsPrefix, Collection!AckedIsWhole, Collection!Listed

LEMMA CollectionMoves ==
    ASSUME Collection!CollectionInv, Collection!Next \/ UNCHANGED collectionVars
    PROVE  Collection!CollectionInv'
<1>1. ASSUME NEW ids \in Collection!Batches, Collection!PutMany(ids)
      PROVE  Collection!CollectionInv'
  <2>1. UNCHANGED <<collection_page, collection_token, collection_listed, collection_expected>>
    BY <1>1 DEF Collection!PutMany, Collection!reading
  <2>2. QED
    BY <1>1, <2>1, PutManyMoves, ListerStays DEF Collection!CollectionInv
<1>2. CASE Collection!Create \/ Collection!Replace \/ (Collection!GiveUp /\ ~collection_late)
  <2>1. /\ collection_step # "idle" /\ (Collection!Settle \/ Collection!Fail)
        /\ Collection!Hold(Collection!Record, collection_batch[collection_at])
        /\ UNCHANGED <<collection_late, collection_batch, collection_calls, collection_abandoned,
                       collection_page, collection_token, collection_listed,
                       collection_expected>>
    BY <1>2 DEF Collection!Create, Collection!Replace, Collection!GiveUp, Collection!reading
  <2>2. QED
    BY <2>1, WriterMoves, ListerStays DEF Collection!CollectionInv
<1>3. CASE Collection!Conflict \/ Collection!Refuse \/ (Collection!GiveUp /\ collection_late)
  <2>1. UNCHANGED <<collection_page, collection_token, collection_listed, collection_expected>>
    BY <1>3 DEF Collection!Conflict, Collection!Refuse, Collection!GiveUp, Collection!reading
  <2>2. QED
    BY <1>3, <2>1, LeftAlone, ListerStays DEF Collection!CollectionInv
<1>4. ASSUME NEW q \in collection_abandoned, Collection!Land(q)
      PROVE  Collection!CollectionInv'
  <2>1. UNCHANGED <<collection_page, collection_token, collection_listed, collection_expected>>
    BY <1>4 DEF Collection!Land, Collection!reading
  <2>2. QED
    BY <1>4, <2>1, LandMoves, ListerStays DEF Collection!CollectionInv
<1>5. CASE Collection!StartList \/ Collection!EndList
  BY <1>5, ListMoves, ListBegins DEF Collection!CollectionInv
<1>6. CASE Collection!ReadPage
  BY <1>6, ListMoves, ReadMoves DEF Collection!CollectionInv
<1>7. CASE UNCHANGED collectionVars
  <2>1. UNCHANGED <<collection_late, collection_docs, collection_batch, collection_calls,
                    collection_at, collection_step, collection_outcome, collection_abandoned,
                    collection_applied, collection_page, collection_token, collection_listed,
                    collection_expected>>
    BY <1>7 DEF collectionVars
  <2>2. /\ Collection!TypeOK' /\ Collection!WriterIs' /\ Collection!StoredIsPrefix'
        /\ Collection!AckedIsWhole' /\ Collection!Existing' = Collection!Existing
    BY <2>1 DEF Collection!CollectionInv, Collection!TypeOK, Collection!WriterIs,
          Collection!StoredIsPrefix, Collection!AckedIsWhole, Collection!Existing,
          Collection!Settled, Collection!Sent
  <2>3. QED
    BY <2>1, <2>2, ListerStays DEF Collection!CollectionInv
<1>8. QED
  BY <1>1, <1>2, <1>3, <1>4, <1>5, <1>6, <1>7 DEF Collection!Next

\* A list that stopped short read all the pages it may, and there was more.
LEMMA ListsAreComplete == Collection!CollectionInv => Collection!ListIsComplete
<1> SUFFICES ASSUME Collection!CollectionInv, Collection!Listed,
                    Cardinality(Collection!Existing) <= CollectionPageSize * CollectionMaxPages
             PROVE  collection_expected \subseteq collection_listed
  BY DEF Collection!ListIsComplete, Collection!Cardinality, Cardinality
<1>1. Collection!ListerIs
  BY DEF Collection!CollectionInv
<1>2. collection_page = CollectionMaxPages + 1 /\ collection_page # 0
  BY CollectionNumbers DEF Collection!Listed
<1>3. CASE collection_token # 0
  <2>1. PICK far \in Collection!Existing : collection_token < far
    BY <1>1, <1>3 DEF Collection!ListerIs
  <2>2. collection_token \in 0..CollectionLastId /\ far \in 1..CollectionLastId
    BY DEF Collection!CollectionInv, Collection!TypeOK, Collection!Existing, Collection!Ids
  <2>3. far \notin Collection!Passed /\ Collection!Passed \subseteq Collection!Existing
    BY <2>1, <2>2, CollectionNumbers DEF Collection!Passed
  <2>4. IsFiniteSet(Collection!Existing)
    <3>1. Collection!Existing \subseteq 1..CollectionLastId
      BY DEF Collection!Existing, Collection!Ids
    <3>2. QED
      BY <3>1, CollectionNumbers, CountedUpTo
  <2>5. /\ Cardinality(Collection!Passed) < Cardinality(Collection!Existing)
        /\ Cardinality(Collection!Passed) \in Nat /\ Cardinality(Collection!Existing) \in Nat
    BY <2>1, <2>3, <2>4, FS_Subset, FS_CardinalityType
  <2>6. Cardinality(Collection!Passed) >= CollectionPageSize * (collection_page - 1)
    BY <1>1, <1>2, <1>3 DEF Collection!ListerIs, Collection!Cardinality, Cardinality
  <2>7. collection_page - 1 = CollectionMaxPages /\ CollectionPageSize * CollectionMaxPages \in Int
    BY <1>2, CollectionNumbers
  <2>8. QED
    BY <2>5, <2>6, <2>7
<1>4. QED
  BY <1>1, <1>3 DEF Collection!ListerIs

\* A document is written over by the record at hand, and what it held was settled; a late
\* create finds a document there and changes nothing.
LEMMA NothingGoesBack ==
    ASSUME Collection!CollectionInv, Collection!Next \/ UNCHANGED collectionVars
    PROVE  Collection!NothingOlder
<1>1. CASE collection_docs' = collection_docs
  BY <1>1 DEF Collection!NothingOlder
<1>2. ASSUME collection_step # "idle",
             Collection!Hold(Collection!Record, collection_batch[collection_at])
      PROVE  Collection!NothingOlder
  <2>1. ASSUME NEW i \in Collection!Ids, collection_docs[i] # collection_docs'[i]
        PROVE  Collection!Older(collection_docs[i], collection_docs'[i])
    <3>1. collection_docs'[i] = Collection!Record
      BY <1>2, <2>1, BooksAre DEF Collection!Hold
    <3>2. /\ Collection!Record[1] = collection_calls /\ Collection!Record[2] = collection_at
          /\ Collection!Record \in Collection!Records
      BY <1>2, AtHand
    <3>3. CASE collection_docs[i] = Collection!Absent
      <4>1. collection_docs[i][1] = 0
        BY <3>3 DEF Collection!Absent
      <4>2. QED
        BY <3>1, <3>2, <4>1, BooksAre DEF Collection!Older
    <3>4. CASE collection_docs[i] # Collection!Absent
      <4>1. Collection!Settled(collection_docs[i])
        BY <3>4, BooksAre DEF Collection!Existing
      <4>2. QED
        BY <4>1, <3>1, <3>2, <1>2 DEF Collection!Older, Collection!Settled
    <3>5. QED
      BY <3>3, <3>4
  <2>2. QED
    BY <2>1 DEF Collection!NothingOlder
<1>3. CASE Collection!Create \/ Collection!Replace \/ (Collection!GiveUp /\ ~collection_late)
  BY <1>2, <1>3 DEF Collection!Create, Collection!Replace, Collection!GiveUp
<1>4. ASSUME NEW q \in collection_abandoned, Collection!Land(q)
      PROVE  Collection!NothingOlder
  <2>1. ASSUME NEW i \in Collection!Ids, collection_docs[i] # collection_docs'[i]
        PROVE  \/ Collection!Older(collection_docs[i], collection_docs'[i])
               \/ /\ collection_late
                  /\ [kind |-> "replace", id |-> i, record |-> collection_docs'[i]] \in collection_abandoned
    <3>1. /\ i = q.id /\ collection_docs'[i] = q.record
          /\ ~(q.kind = "create" /\ collection_docs[q.id] # Collection!Absent)
      BY <1>4, <2>1, BooksAre DEF Collection!Land, Collection!Hold
    <3>2. collection_late
      BY BooksAre
    <3>3. CASE q.kind = "replace"
      <4>1. q = [kind |-> "replace", id |-> i, record |-> collection_docs'[i]]
        BY <3>1, <3>3, BooksAre
      <4>2. QED
        BY <4>1, <3>2
    <3>4. CASE q.kind = "create"
      <4>1. collection_docs[i] = Collection!Absent
        BY <3>1, <3>4
      <4>2. collection_docs[i][1] = 0
        BY <4>1 DEF Collection!Absent
      <4>3. q.record \in Collection!Records
        BY BooksAre
      <4>4. q.record[1] \in Nat /\ q.record[1] > 0
        BY <4>3, BooksAre
      <4>5. QED
        BY <4>2, <4>4, <3>1 DEF Collection!Older
    <3>5. q.kind \in {"create", "replace"}
      BY BooksAre
    <3>6. QED
      BY <3>3, <3>4, <3>5
  <2>2. QED
    BY <2>1 DEF Collection!NothingOlder
<1>5. QED
  <2>1. UNCHANGED collectionVars => collection_docs' = collection_docs
    BY DEF collectionVars
  <2>2. Collection!Next =>
          \/ collection_docs' = collection_docs
          \/ Collection!Create \/ Collection!Replace \/ (Collection!GiveUp /\ ~collection_late)
          \/ \E q \in collection_abandoned : Collection!Land(q)
    BY DEF Collection!Next, Collection!PutMany, Collection!Conflict, Collection!Refuse,
           Collection!GiveUp, Collection!StartList, Collection!ReadPage, Collection!EndList
  <2>3. QED
    BY <2>1, <2>2, <1>1, <1>3, <1>4

-----------------------------------------------------------------------------
(* Several instances over one store                                        *)

\* Documents by id: who holds a receipt, and what writing one of them changes.
LEMMA DocumentsAre ==
    /\ \A docs \in FleetOf!Docs : \A x : FleetOf!Of(docs, x) \subseteq FleetUploads
    /\ \A docs \in FleetOf!Docs, id \in FleetOf!Ids, receipts \in SUBSET FleetUploads :
          /\ FleetOf!With(docs, id, receipts) \in FleetOf!Docs
          /\ \A x : FleetOf!Of(FleetOf!With(docs, id, receipts), x) =
                       IF x = id THEN receipts ELSE FleetOf!Of(docs, x)
    /\ FleetOf!Nothing \in FleetOf!Docs /\ \A x : FleetOf!Of(FleetOf!Nothing, x) = {}
<1>1. ASSUME NEW docs \in FleetOf!Docs
      PROVE  /\ DOMAIN docs \in SUBSET FleetOf!Ids
             /\ docs \in [DOMAIN docs -> SUBSET FleetUploads]
  <2>1. PICK S \in SUBSET FleetOf!Ids : docs \in [S -> SUBSET FleetUploads]
    BY DEF FleetOf!Docs
  <2>2. DOMAIN docs = S
    BY <2>1
  <2>3. QED
    BY <2>1, <2>2
<1>2. ASSUME NEW docs \in FleetOf!Docs, NEW x
      PROVE  FleetOf!Of(docs, x) \subseteq FleetUploads
  BY <1>1 DEF FleetOf!Of
<1>3. ASSUME NEW docs \in FleetOf!Docs, NEW id \in FleetOf!Ids,
             NEW receipts \in SUBSET FleetUploads
      PROVE  /\ FleetOf!With(docs, id, receipts) \in FleetOf!Docs
             /\ \A x : FleetOf!Of(FleetOf!With(docs, id, receipts), x) =
                          IF x = id THEN receipts ELSE FleetOf!Of(docs, x)
  <2> DEFINE S == DOMAIN docs \cup {id}
             new == FleetOf!With(docs, id, receipts)
  <2>1. new = [d \in S |-> IF d = id THEN receipts ELSE docs[d]]
    BY DEF FleetOf!With
  <2>2. S \in SUBSET FleetOf!Ids
    BY <1>1
  <2>3. new \in [S -> SUBSET FleetUploads]
    BY <1>1, <2>1
  <2>4. new \in FleetOf!Docs
    BY <2>2, <2>3 DEF FleetOf!Docs
  <2> HIDE DEF new
  <2>5. ASSUME NEW x
        PROVE  FleetOf!Of(new, x) = IF x = id THEN receipts ELSE FleetOf!Of(docs, x)
    BY <2>1 DEF FleetOf!Of
  <2>6. QED
    BY <2>4, <2>5 DEF new
<1>4. FleetOf!Nothing \in FleetOf!Docs
  <2>1. {} \in SUBSET FleetOf!Ids
    OBVIOUS
  <2>2. FleetOf!Nothing \in [{} -> SUBSET FleetUploads]
    BY DEF FleetOf!Nothing
  <2>3. QED
    BY <2>1, <2>2 DEF FleetOf!Docs
<1>5. \A x : FleetOf!Of(FleetOf!Nothing, x) = {}
  BY DEF FleetOf!Of, FleetOf!Nothing
<1>6. QED
  BY <1>2, <1>3, <1>4, <1>5

\* What the books of the fleet are.
LEMMA FleetBooks ==
    ASSUME FleetOf!FleetInv
    PROVE  /\ fleet_now \in FleetOf!Ids /\ fleet_running \subseteq FleetInstances
           /\ fleet_memory \in [FleetInstances -> FleetOf!Docs] /\ fleet_store \in FleetOf!Docs
           /\ fleet_queue \in [FleetInstances -> Seq(FleetOf!Entries)]
           /\ fleet_uploads \in [FleetUploads ->
                 [at : FleetInstances \cup {"nowhere"}, id : FleetOf!Ids, answer : FleetOf!Answers]]
           /\ "nowhere" \notin FleetInstances
           /\ \A i \in FleetInstances : \A n \in DOMAIN fleet_queue[i] :
                 /\ fleet_queue[i][n][1] \in FleetOf!Ids
                 /\ fleet_queue[i][n][2] \in SUBSET FleetUploads
                 /\ fleet_queue[i][n][3] \in FleetUploads
                 /\ fleet_uploads[fleet_queue[i][n][3]].at = i
                 /\ fleet_uploads[fleet_queue[i][n][3]].id = fleet_queue[i][n][1]
           /\ \A u \in FleetUploads : fleet_uploads[u].at = "nowhere" =>
                 /\ fleet_uploads[u].answer = "none"
                 /\ \A id \in FleetOf!Ids : u \notin FleetOf!Of(fleet_store, id)
                 /\ \A i \in FleetInstances :
                       /\ \A id \in FleetOf!Ids : u \notin FleetOf!Of(fleet_memory[i], id)
                       /\ \A n \in DOMAIN fleet_queue[i] : u \notin fleet_queue[i][n][2]
           /\ \A u \in FleetUploads :
                 fleet_uploads[u].at # "nowhere" /\ fleet_uploads[u].answer # "lost"
                   /\ FleetOf!Alone(u) => FleetOf!IsKept(u)
<1>1. "nowhere" \notin FleetInstances
  BY ConstantsAreTheirs DEF FleetOf!FleetAssumption
<1>2. /\ fleet_now \in FleetOf!Ids /\ fleet_running \subseteq FleetInstances
      /\ fleet_memory \in [FleetInstances -> FleetOf!Docs] /\ fleet_store \in FleetOf!Docs
      /\ fleet_queue \in [FleetInstances -> Seq(FleetOf!Entries)]
      /\ fleet_uploads \in [FleetUploads ->
            [at : FleetInstances \cup {"nowhere"}, id : FleetOf!Ids, answer : FleetOf!Answers]]
  BY DEF FleetOf!FleetInv
<1>3. ASSUME NEW i \in FleetInstances, NEW n \in DOMAIN fleet_queue[i]
      PROVE  /\ fleet_queue[i][n][1] \in FleetOf!Ids
             /\ fleet_queue[i][n][2] \in SUBSET FleetUploads
             /\ fleet_queue[i][n][3] \in FleetUploads
             /\ fleet_uploads[fleet_queue[i][n][3]].at = i
             /\ fleet_uploads[fleet_queue[i][n][3]].id = fleet_queue[i][n][1]
  <2>1. fleet_queue[i][n] \in FleetOf!Entries
    BY <1>2
  <2>2. QED
    BY <2>1 DEF FleetOf!Entries, FleetOf!FleetInv, FleetOf!WritesAreOwn
<1>4. \A u \in FleetUploads : fleet_uploads[u].at = "nowhere" =>
        /\ fleet_uploads[u].answer = "none"
        /\ \A id \in FleetOf!Ids : u \notin FleetOf!Of(fleet_store, id)
        /\ \A i \in FleetInstances :
              /\ \A id \in FleetOf!Ids : u \notin FleetOf!Of(fleet_memory[i], id)
              /\ \A n \in DOMAIN fleet_queue[i] : u \notin fleet_queue[i][n][2]
  BY DEF FleetOf!FleetInv, FleetOf!UnsentIsNowhere, FleetOf!Sent
<1>5. \A u \in FleetUploads :
        fleet_uploads[u].at # "nowhere" /\ fleet_uploads[u].answer # "lost"
          /\ FleetOf!Alone(u) => FleetOf!IsKept(u)
  BY DEF FleetOf!FleetInv, FleetOf!Sent
<1>6. QED
  BY <1>1, <1>2, <1>3, <1>4, <1>5

\* A step that sends nothing anew: who is alone stays so, or was so before.
LEMMA SentStays ==
    ASSUME FleetOf!FleetInv,
           \A u \in FleetUploads : /\ fleet_uploads'[u].at = fleet_uploads[u].at
                                   /\ fleet_uploads'[u].id = fleet_uploads[u].id
    PROVE  \A u \in FleetUploads : FleetOf!Alone(u)' => FleetOf!Alone(u)
  BY DEF FleetOf!Alone

LEMMA FleetBegins == FleetOf!Init => FleetOf!FleetInv
<1> SUFFICES ASSUME FleetOf!Init PROVE FleetOf!FleetInv
  OBVIOUS
<1>1. /\ fleet_now = 0 /\ fleet_running = {}
      /\ fleet_memory = [i \in FleetInstances |-> FleetOf!Nothing]
      /\ fleet_queue = [i \in FleetInstances |-> <<>>] /\ fleet_store = FleetOf!Nothing
      /\ fleet_uploads = [u \in FleetUploads |-> FleetOf!Waiting]
  BY DEF FleetOf!Init
<1>2. 0 \in FleetOf!Ids
  BY ConstantsAreTheirs DEF FleetOf!FleetAssumption, FleetOf!Ids
<1>3. FleetOf!Waiting \in [at : FleetInstances \cup {"nowhere"}, id : FleetOf!Ids,
                           answer : FleetOf!Answers]
  BY <1>2 DEF FleetOf!Waiting, FleetOf!Answers
<1>4. \A u \in FleetUploads :
        fleet_uploads[u].at = "nowhere" /\ fleet_uploads[u].answer = "none"
  BY <1>1 DEF FleetOf!Waiting
<1>5. fleet_queue \in [FleetInstances -> Seq(FleetOf!Entries)]
  BY <1>1
<1>6. \A i \in FleetInstances : DOMAIN fleet_queue[i] = {}
  BY <1>1
<1>7. FleetOf!UnsentIsNowhere /\ FleetOf!WritesAreOwn
  <2>1. /\ \A id : FleetOf!Of(fleet_store, id) = {}
        /\ \A i \in FleetInstances : \A id : FleetOf!Of(fleet_memory[i], id) = {}
    BY <1>1, DocumentsAre
  <2>2. FleetOf!UnsentIsNowhere
    BY <1>4, <1>6, <2>1 DEF FleetOf!UnsentIsNowhere
  <2>3. FleetOf!WritesAreOwn
    BY <1>6 DEF FleetOf!WritesAreOwn
  <2>4. QED
    BY <2>2, <2>3
<1>8. /\ fleet_now \in FleetOf!Ids /\ fleet_running \subseteq FleetInstances
      /\ fleet_memory \in [FleetInstances -> FleetOf!Docs] /\ fleet_store \in FleetOf!Docs
  BY <1>1, <1>2, DocumentsAre
<1>9. fleet_uploads \in [FleetUploads ->
         [at : FleetInstances \cup {"nowhere"}, id : FleetOf!Ids, answer : FleetOf!Answers]]
  BY <1>1, <1>3
<1>10. QED
  BY <1>4, <1>5, <1>7, <1>8, <1>9 DEF FleetOf!FleetInv, FleetOf!Sent

\* An instance that starts has what the store has.
LEMMA StartMoves ==
    ASSUME FleetOf!FleetInv, NEW i \in FleetInstances, FleetOf!Start(i)
    PROVE  FleetOf!FleetInv'
<1>1. /\ i \notin fleet_running /\ fleet_running' = fleet_running \cup {i}
      /\ fleet_memory' = [fleet_memory EXCEPT ![i] = fleet_store]
      /\ UNCHANGED <<fleet_now, fleet_queue, fleet_store, fleet_uploads>>
  BY DEF FleetOf!Start
<1>2. /\ fleet_memory' \in [FleetInstances -> FleetOf!Docs]
      /\ \A j \in FleetInstances :
            fleet_memory'[j] = IF j = i THEN fleet_store ELSE fleet_memory[j]
  BY <1>1, FleetBooks
<1>3. FleetOf!UnsentIsNowhere' /\ FleetOf!WritesAreOwn'
  <2>1. FleetOf!UnsentIsNowhere /\ FleetOf!WritesAreOwn
    BY DEF FleetOf!FleetInv
  <2>2. FleetOf!WritesAreOwn'
    BY <2>1, <1>1 DEF FleetOf!WritesAreOwn
  <2>3. FleetOf!UnsentIsNowhere'
    BY <2>1, <1>1, <1>2 DEF FleetOf!UnsentIsNowhere, FleetOf!Sent
  <2>4. QED
    BY <2>2, <2>3
<1>4. ASSUME NEW u \in FleetUploads, fleet_uploads[u].at # "nowhere",
             fleet_uploads[u].answer # "lost", FleetOf!Alone(u)'
      PROVE  FleetOf!IsKept(u)'
  <2>1. FleetOf!Alone(u)
    BY <1>1, <1>4, SentStays
  <2>2. FleetOf!IsKept(u)
    BY <2>1, <1>4, FleetBooks
  <2>3. fleet_uploads[u].at \in FleetInstances
    BY <1>4, FleetBooks
  <2>4. QED
    BY <2>2, <2>3, <1>1, <1>2 DEF FleetOf!IsKept, FleetOf!WriteAwaits, FleetOf!NoneForgets
<1>5. QED
  BY <1>1, <1>2, <1>3, <1>4, FleetBooks DEF FleetOf!FleetInv, FleetOf!Sent

\* An instance that stops loses what it had not written, and says so of its uploads.
LEMMA StopMoves ==
    ASSUME FleetOf!FleetInv, NEW i \in FleetInstances, FleetOf!Stop(i)
    PROVE  FleetOf!FleetInv'
<1>1. /\ fleet_running' = fleet_running \ {i}
      /\ fleet_memory' = [fleet_memory EXCEPT ![i] = FleetOf!Nothing]
      /\ fleet_queue' = [fleet_queue EXCEPT ![i] = <<>>]
      /\ fleet_uploads' = [u \in FleetUploads |->
            IF fleet_uploads[u].at = i /\ fleet_uploads[u].answer = "none"
              THEN [fleet_uploads[u] EXCEPT !.answer = "lost"] ELSE fleet_uploads[u]]
      /\ UNCHANGED <<fleet_now, fleet_store>>
  BY DEF FleetOf!Stop
<1>2. /\ fleet_memory' \in [FleetInstances -> FleetOf!Docs]
      /\ \A j \in FleetInstances :
            fleet_memory'[j] = IF j = i THEN FleetOf!Nothing ELSE fleet_memory[j]
  BY <1>1, FleetBooks, DocumentsAre
<1>3. /\ fleet_queue' \in [FleetInstances -> Seq(FleetOf!Entries)]
      /\ \A j \in FleetInstances : fleet_queue'[j] = IF j = i THEN <<>> ELSE fleet_queue[j]
  BY <1>1, FleetBooks
<1>4. /\ fleet_uploads' \in [FleetUploads ->
            [at : FleetInstances \cup {"nowhere"}, id : FleetOf!Ids, answer : FleetOf!Answers]]
      /\ \A u \in FleetUploads :
            /\ fleet_uploads'[u].at = fleet_uploads[u].at
            /\ fleet_uploads'[u].id = fleet_uploads[u].id
            /\ fleet_uploads'[u].answer =
                  IF fleet_uploads[u].at = i /\ fleet_uploads[u].answer = "none" THEN "lost"
                  ELSE fleet_uploads[u].answer
  <2> DEFINE Record == [at : FleetInstances \cup {"nowhere"}, id : FleetOf!Ids,
                        answer : FleetOf!Answers]
  <2>1. fleet_uploads \in [FleetUploads -> Record]
    BY FleetBooks
  <2>2. ASSUME NEW x \in Record
        PROVE  LET y == [x EXCEPT !.answer = "lost"]
               IN  y \in Record /\ y.at = x.at /\ y.id = x.id /\ y.answer = "lost"
    BY DEF FleetOf!Answers
  <2> HIDE DEF Record
  <2>3. ASSUME NEW u \in FleetUploads
        PROVE  /\ fleet_uploads'[u] \in Record
               /\ fleet_uploads'[u].at = fleet_uploads[u].at
               /\ fleet_uploads'[u].id = fleet_uploads[u].id
               /\ fleet_uploads'[u].answer =
                     IF fleet_uploads[u].at = i /\ fleet_uploads[u].answer = "none" THEN "lost"
                     ELSE fleet_uploads[u].answer
    <3>1. fleet_uploads[u] \in Record
      BY <2>1
    <3>2. CASE fleet_uploads[u].at = i /\ fleet_uploads[u].answer = "none"
      <4>1. fleet_uploads'[u] = [fleet_uploads[u] EXCEPT !.answer = "lost"]
        BY <3>2, <1>1
      <4>2. QED
        BY <3>1, <3>2, <4>1, <2>2
    <3>3. CASE ~(fleet_uploads[u].at = i /\ fleet_uploads[u].answer = "none")
      <4>1. fleet_uploads'[u] = fleet_uploads[u]
        BY <3>3, <1>1
      <4>2. QED
        BY <3>1, <3>3, <4>1
    <3>4. QED
      BY <3>2, <3>3
  <2>4. fleet_uploads' = [u \in FleetUploads |-> fleet_uploads'[u]]
    BY <1>1
  <2>5. fleet_uploads' \in [FleetUploads -> Record]
    BY <2>3, <2>4
  <2>6. QED
    BY <2>3, <2>5 DEF Record
<1>5. FleetOf!UnsentIsNowhere' /\ FleetOf!WritesAreOwn'
  <2>1. FleetOf!UnsentIsNowhere /\ FleetOf!WritesAreOwn
    BY DEF FleetOf!FleetInv
  <2>2. FleetOf!WritesAreOwn'
    <3>1. ASSUME NEW j \in FleetInstances, NEW n \in DOMAIN fleet_queue'[j]
          PROVE  /\ fleet_uploads'[fleet_queue'[j][n][3]].at = j
                 /\ fleet_uploads'[fleet_queue'[j][n][3]].id = fleet_queue'[j][n][1]
      <4>1. j # i /\ fleet_queue'[j] = fleet_queue[j] /\ n \in DOMAIN fleet_queue[j]
        BY <1>3
      <4>2. /\ fleet_queue[j][n][3] \in FleetUploads
            /\ fleet_uploads[fleet_queue[j][n][3]].at = j
            /\ fleet_uploads[fleet_queue[j][n][3]].id = fleet_queue[j][n][1]
        BY <4>1, FleetBooks
      <4>3. QED
        BY <4>1, <4>2, <1>4
    <3>2. QED
      BY <3>1 DEF FleetOf!WritesAreOwn
  <2>3. FleetOf!UnsentIsNowhere'
    BY <2>1, <1>1, <1>2, <1>3, <1>4, FleetBooks, DocumentsAre DEF FleetOf!UnsentIsNowhere, FleetOf!Sent
  <2>4. QED
    BY <2>2, <2>3
<1>6. ASSUME NEW u \in FleetUploads, fleet_uploads'[u].at # "nowhere",
             fleet_uploads'[u].answer # "lost", FleetOf!Alone(u)'
      PROVE  FleetOf!IsKept(u)'
  <2>1. FleetOf!IsKept(u)
    BY <1>4, <1>6, SentStays, FleetBooks
  <2>2. fleet_uploads[u].at \in FleetInstances
    BY <1>4, <1>6, FleetBooks
  <2>3. CASE fleet_uploads[u].at = i
    <3>1. fleet_uploads[u].answer # "none" /\ fleet_uploads'[u].answer # "none"
      BY <2>3, <1>4, <1>6
    <3>2. u \in FleetOf!Of(fleet_store, fleet_uploads[u].id)
      BY <2>1, <3>1 DEF FleetOf!IsKept
    <3>3. \A id, kept : FleetOf!NoneForgets(u, id, fleet_queue'[i], kept)
      BY <1>3 DEF FleetOf!NoneForgets
    <3>4. /\ fleet_uploads'[u].at = i /\ fleet_uploads'[u].id = fleet_uploads[u].id
          /\ i \notin fleet_running' /\ fleet_store' = fleet_store
      BY <2>3, <1>1, <1>4
    <3>5. QED
      BY <3>1, <3>2, <3>3, <3>4 DEF FleetOf!IsKept
  <2>4. CASE fleet_uploads[u].at # i
    <3>1. /\ fleet_uploads'[u] = fleet_uploads[u]
          /\ fleet_uploads[u].at \in fleet_running' <=> fleet_uploads[u].at \in fleet_running
          /\ fleet_memory'[fleet_uploads[u].at] = fleet_memory[fleet_uploads[u].at]
          /\ fleet_queue'[fleet_uploads[u].at] = fleet_queue[fleet_uploads[u].at]
          /\ fleet_store' = fleet_store
      BY <2>2, <2>4, <1>1, <1>2, <1>3, <1>4
    <3>2. QED
      BY <2>1, <3>1 DEF FleetOf!IsKept
  <2>5. QED
    BY <2>3, <2>4
<1>7. QED
  BY <1>1, <1>2, <1>3, <1>4, <1>5, <1>6, FleetBooks DEF FleetOf!FleetInv, FleetOf!Sent

\* An upload is taken: two writes of its document go to the end of its instance's queue.
LEMMA ReceiveMoves ==
    ASSUME FleetOf!FleetInv, NEW v \in FleetUploads, NEW i \in FleetInstances,
           FleetOf!Receive(v, i)
    PROVE  FleetOf!FleetInv'
<1> DEFINE before == FleetOf!Of(fleet_memory[i], fleet_now)
           after == before \cup {v}
           q == fleet_queue[i]
           e1 == <<fleet_now, before, v>>
           e2 == <<fleet_now, after, v>>
<1>1. /\ fleet_uploads[v] = FleetOf!Waiting /\ i \in fleet_running
      /\ fleet_uploads' = [fleet_uploads EXCEPT ![v] = [at |-> i, id |-> fleet_now, answer |-> "none"]]
      /\ fleet_memory' = [fleet_memory EXCEPT ![i] = FleetOf!With(fleet_memory[i], fleet_now, after)]
      /\ fleet_queue' = [fleet_queue EXCEPT ![i] = q \o <<e1, e2>>]
      /\ UNCHANGED <<fleet_now, fleet_running, fleet_store>>
  BY FleetBooks DEF FleetOf!Receive
<1>2. /\ fleet_now \in FleetOf!Ids /\ before \subseteq FleetUploads /\ after \subseteq FleetUploads
      /\ before \subseteq after /\ v \in after
      /\ fleet_uploads[v].at = "nowhere" /\ i # "nowhere"
  BY <1>1, FleetBooks, DocumentsAre DEF FleetOf!Waiting
<1> HIDE DEF before, after, q
<1>3. /\ fleet_memory' \in [FleetInstances -> FleetOf!Docs]
      /\ \A j \in FleetInstances : \A x :
            FleetOf!Of(fleet_memory'[j], x) =
               IF j = i /\ x = fleet_now THEN after ELSE FleetOf!Of(fleet_memory[j], x)
  <2>1. /\ FleetOf!With(fleet_memory[i], fleet_now, after) \in FleetOf!Docs
        /\ \A x : FleetOf!Of(FleetOf!With(fleet_memory[i], fleet_now, after), x) =
                     IF x = fleet_now THEN after ELSE FleetOf!Of(fleet_memory[i], x)
    BY <1>2, FleetBooks, DocumentsAre
  <2>2. \A j \in FleetInstances :
           fleet_memory'[j] = IF j = i THEN FleetOf!With(fleet_memory[i], fleet_now, after)
                              ELSE fleet_memory[j]
    BY <1>1, FleetBooks
  <2>3. fleet_memory' \in [FleetInstances -> FleetOf!Docs]
    BY <2>1, <1>1, FleetBooks
  <2>4. QED
    BY <2>1, <2>2, <2>3
<1>4. /\ q \in Seq(FleetOf!Entries) /\ e1 \in FleetOf!Entries /\ e2 \in FleetOf!Entries
      /\ q = fleet_queue[i] /\ Len(q) \in Nat /\ DOMAIN q = 1..Len(q)
  <2>1. q \in Seq(FleetOf!Entries) /\ q = fleet_queue[i]
    BY FleetBooks DEF q
  <2>2. e1 \in FleetOf!Entries /\ e2 \in FleetOf!Entries
    BY <1>2 DEF FleetOf!Entries
  <2>3. QED
    BY <2>1, <2>2
<1>5. /\ e1[1] = fleet_now /\ e1[2] = before /\ e1[3] = v
      /\ e2[1] = fleet_now /\ e2[2] = after /\ e2[3] = v
  OBVIOUS
<1> HIDE DEF e1, e2
<1>6. /\ q \o <<e1, e2>> \in Seq(FleetOf!Entries)
      /\ DOMAIN (q \o <<e1, e2>>) = 1..Len(q) + 2
      /\ \A n \in 1..Len(q) : (q \o <<e1, e2>>)[n] = q[n]
      /\ (q \o <<e1, e2>>)[Len(q) + 1] = e1 /\ (q \o <<e1, e2>>)[Len(q) + 2] = e2
  BY <1>4
<1>7. /\ fleet_queue' \in [FleetInstances -> Seq(FleetOf!Entries)]
      /\ fleet_queue'[i] = q \o <<e1, e2>>
      /\ \A j \in FleetInstances : j # i => fleet_queue'[j] = fleet_queue[j]
  BY <1>1, <1>6, FleetBooks
<1>8. /\ DOMAIN fleet_queue'[i] = 1..Len(q) + 2
      /\ \A n \in 1..Len(q) + 2 :
            \/ n \in DOMAIN q /\ fleet_queue'[i][n] = q[n]
            \/ n = Len(q) + 1 /\ fleet_queue'[i][n] = e1
            \/ n = Len(q) + 2 /\ fleet_queue'[i][n] = e2
  BY <1>4, <1>6, <1>7
<1>9. /\ fleet_uploads' \in [FleetUploads ->
            [at : FleetInstances \cup {"nowhere"}, id : FleetOf!Ids, answer : FleetOf!Answers]]
      /\ fleet_uploads'[v].at = i /\ fleet_uploads'[v].id = fleet_now
      /\ fleet_uploads'[v].answer = "none"
      /\ \A u \in FleetUploads : u # v => fleet_uploads'[u] = fleet_uploads[u]
  <2>1. [at |-> i, id |-> fleet_now, answer |-> "none"] \in
            [at : FleetInstances \cup {"nowhere"}, id : FleetOf!Ids, answer : FleetOf!Answers]
    BY <1>2 DEF FleetOf!Answers
  <2>2. QED
    BY <2>1, <1>1, FleetBooks
<1>10. FleetOf!WritesAreOwn'
  <2>1. ASSUME NEW j \in FleetInstances, NEW n \in DOMAIN fleet_queue[j]
        PROVE  /\ fleet_uploads'[fleet_queue[j][n][3]].at = j
               /\ fleet_uploads'[fleet_queue[j][n][3]].id = fleet_queue[j][n][1]
    <3>1. /\ fleet_queue[j][n][3] \in FleetUploads
          /\ fleet_uploads[fleet_queue[j][n][3]].at = j
          /\ fleet_uploads[fleet_queue[j][n][3]].id = fleet_queue[j][n][1]
          /\ j # "nowhere"
      BY FleetBooks
    <3>2. fleet_queue[j][n][3] # v
      BY <3>1, <1>2
    <3>3. QED
      BY <3>1, <3>2, <1>9
  <2>2. ASSUME NEW j \in FleetInstances, NEW n \in DOMAIN fleet_queue'[j]
        PROVE  /\ fleet_uploads'[fleet_queue'[j][n][3]].at = j
               /\ fleet_uploads'[fleet_queue'[j][n][3]].id = fleet_queue'[j][n][1]
    <3>1. CASE j # i
      BY <3>1, <2>1, <1>7
    <3>2. CASE j = i
      BY <3>2, <2>1, <1>4, <1>5, <1>8, <1>9
    <3>3. QED
      BY <3>1, <3>2
  <2>3. QED
    BY <2>2 DEF FleetOf!WritesAreOwn
<1>11. FleetOf!UnsentIsNowhere'
  <2>1. ASSUME NEW u \in FleetUploads, fleet_uploads'[u].at = "nowhere"
        PROVE  /\ u # v /\ fleet_uploads[u].at = "nowhere" /\ u \notin after /\ u \notin before
    <3>1. u # v /\ fleet_uploads[u].at = "nowhere"
      BY <2>1, <1>2, <1>9
    <3>2. u \notin before
      BY <3>1, <1>2, FleetBooks DEF before
    <3>3. QED
      BY <3>1, <3>2 DEF after
  <2>2. ASSUME NEW u \in FleetUploads, fleet_uploads'[u].at = "nowhere",
               NEW j \in FleetInstances, NEW n \in DOMAIN fleet_queue'[j]
        PROVE  u \notin fleet_queue'[j][n][2]
    <3>1. CASE j # i
      BY <3>1, <2>1, <2>2, <1>7, FleetBooks
    <3>2. CASE j = i
      <4>1. \A m \in DOMAIN q : u \notin q[m][2]
        BY <2>1, <2>2, <1>4, FleetBooks
      <4>2. QED
        BY <3>2, <4>1, <2>1, <2>2, <1>5, <1>8
    <3>3. QED
      BY <3>1, <3>2
  <2>3. ASSUME NEW u \in FleetUploads, fleet_uploads'[u].at = "nowhere",
               NEW j \in FleetInstances, NEW id \in FleetOf!Ids
        PROVE  u \notin FleetOf!Of(fleet_memory'[j], id)
    BY <2>1, <2>3, <1>3, FleetBooks
  <2>4. \A u \in FleetUploads : fleet_uploads'[u].at = "nowhere" =>
           /\ fleet_uploads'[u].answer = "none"
           /\ \A id \in FleetOf!Ids : u \notin FleetOf!Of(fleet_store', id)
    BY <2>1, <1>1, <1>9, FleetBooks
  <2>5. QED
    BY <2>2, <2>3, <2>4 DEF FleetOf!UnsentIsNowhere, FleetOf!Sent
<1>12. ASSUME NEW u \in FleetUploads, u # v, fleet_uploads[u].at # "nowhere",
              fleet_uploads[u].answer # "lost", FleetOf!Alone(u)'
       PROVE  FleetOf!IsKept(u)'
  <2>1. FleetOf!Alone(u)
    <3>1. ASSUME NEW w \in FleetUploads, fleet_uploads[w].at # "nowhere",
                 fleet_uploads[w].id = fleet_uploads[u].id
          PROVE  fleet_uploads[w].at = fleet_uploads[u].at
      <4>1. w # v
        BY <3>1, <1>2
      <4>2. fleet_uploads'[w] = fleet_uploads[w] /\ fleet_uploads'[u] = fleet_uploads[u]
        BY <4>1, <1>9, <1>12
      <4>3. QED
        BY <4>2, <3>1, <1>12 DEF FleetOf!Alone
    <3>2. QED
      BY <3>1 DEF FleetOf!Alone
  <2>2. FleetOf!IsKept(u)
    BY <2>1, <1>12, FleetBooks
  <2>3. fleet_uploads[u].at \in FleetInstances /\ fleet_uploads'[u] = fleet_uploads[u]
    BY <1>9, <1>12, FleetBooks
  <2>4. CASE fleet_uploads[u].at # i
    <3>1. /\ fleet_queue'[fleet_uploads[u].at] = fleet_queue[fleet_uploads[u].at]
          /\ \A x : FleetOf!Of(fleet_memory'[fleet_uploads[u].at], x)
                      = FleetOf!Of(fleet_memory[fleet_uploads[u].at], x)
      BY <2>3, <2>4, <1>3, <1>7
    <3>2. QED
      BY <2>2, <2>3, <3>1, <1>1 DEF FleetOf!IsKept
  <2>5. CASE fleet_uploads[u].at = i
    <3> DEFINE id == fleet_uploads[u].id
               Its(n) == q[n][1] = id
               Holds(n) == u \in q[n][2]
               stored == u \in FleetOf!Of(fleet_store, id)
    <3>1. /\ u \in FleetOf!Of(fleet_memory[i], id)
          /\ stored \/ /\ fleet_uploads[u].answer = "none"
                       /\ \E n \in DOMAIN q : q[n][3] = u /\ Its(n) /\ Holds(n)
          /\ \A n \in DOMAIN q : Its(n) /\ (stored \/ \E m \in 1..n : Its(m) /\ Holds(m)) => Holds(n)
      BY <2>2, <2>5, <1>1, <1>4 DEF FleetOf!IsKept, FleetOf!WriteAwaits, FleetOf!NoneForgets
    <3>2. id = fleet_now => u \in before /\ u \in after
      BY <3>1, <1>2 DEF before
    <3> HIDE DEF id
    <3>3. u \in FleetOf!Of(fleet_memory'[i], id)
      BY <3>1, <3>2, <1>3
    <3>4. stored \/ /\ fleet_uploads[u].answer = "none"
                    /\ \E n \in DOMAIN fleet_queue'[i] :
                          /\ fleet_queue'[i][n][3] = u /\ fleet_queue'[i][n][1] = id
                          /\ u \in fleet_queue'[i][n][2]
      <4>1. \A n \in DOMAIN q : n \in DOMAIN fleet_queue'[i] /\ fleet_queue'[i][n] = q[n]
        BY <1>4, <1>6, <1>7
      <4>2. QED
        BY <3>1, <4>1
    <3>5. ASSUME NEW n \in DOMAIN fleet_queue'[i], fleet_queue'[i][n][1] = id,
                 \/ stored
                 \/ \E m \in 1..n : fleet_queue'[i][m][1] = id /\ u \in fleet_queue'[i][m][2]
          PROVE  u \in fleet_queue'[i][n][2]
      <4>1. CASE n \in DOMAIN q
        <5>1. \A m \in 1..n : m \in DOMAIN q /\ fleet_queue'[i][m] = q[m]
          BY <4>1, <1>4, <1>6, <1>7
        <5>2. n \in 1..n
          BY <4>1, <1>4
        <5>3. QED
          BY <4>1, <5>1, <5>2, <3>1, <3>5
      <4>2. CASE n \notin DOMAIN q
        BY <4>2, <3>2, <3>5, <1>5, <1>8
      <4>3. QED
        BY <4>1, <4>2
    <3>6. /\ u \in FleetOf!Of(fleet_memory'[i], fleet_uploads[u].id)
          /\ fleet_store' = fleet_store
          /\ stored \/ /\ fleet_uploads[u].answer = "none"
                       /\ \E n \in DOMAIN fleet_queue'[i] :
                             /\ fleet_queue'[i][n][3] = u
                             /\ fleet_queue'[i][n][1] = fleet_uploads[u].id
                             /\ u \in fleet_queue'[i][n][2]
          /\ \A n \in DOMAIN fleet_queue'[i] :
                /\ fleet_queue'[i][n][1] = fleet_uploads[u].id
                /\ \/ stored
                   \/ \E m \in 1..n : /\ fleet_queue'[i][m][1] = fleet_uploads[u].id
                                       /\ u \in fleet_queue'[i][m][2]
                => u \in fleet_queue'[i][n][2]
      BY <3>3, <3>4, <3>5, <1>1 DEF id
    <3>7. i \in fleet_running' /\ fleet_uploads'[u] = fleet_uploads[u] /\ fleet_uploads'[u].at = i
      BY <2>3, <2>5, <1>1
    <3>8. QED
      BY <3>6, <3>7 DEF FleetOf!IsKept, FleetOf!WriteAwaits, FleetOf!NoneForgets, id
  <2>6. QED
    BY <2>4, <2>5
<1>13. FleetOf!IsKept(v)'
  <2>1. v \in FleetOf!Of(fleet_memory'[i], fleet_now)
    BY <1>2, <1>3
  <2>2. /\ Len(q) + 2 \in DOMAIN fleet_queue'[i]
        /\ fleet_queue'[i][Len(q) + 2] = e2
    BY <1>4, <1>6, <1>7
  <2>3. v \notin FleetOf!Of(fleet_store, fleet_now) /\ v \notin before
    BY <1>2, FleetBooks DEF before
  <2>4. \A n \in DOMAIN q : v \notin q[n][2]
    BY <1>2, <1>4, FleetBooks
  <2>5. ASSUME NEW n \in DOMAIN fleet_queue'[i], NEW m \in 1..n, v \in fleet_queue'[i][m][2]
        PROVE  v \in fleet_queue'[i][n][2]
    <3>1. m \in DOMAIN fleet_queue'[i] /\ m <= n /\ n <= Len(q) + 2
      BY <1>4, <1>8
    <3>2. m = Len(q) + 2
      BY <3>1, <2>3, <2>4, <2>5, <1>5, <1>8
    <3>3. n = m
      BY <3>1, <3>2, <1>4, <1>8
    <3>4. QED
      BY <3>3, <2>5
  <2>6. \E n \in DOMAIN fleet_queue'[i] : /\ fleet_queue'[i][n][3] = v
                                          /\ fleet_queue'[i][n][1] = fleet_now
                                          /\ v \in fleet_queue'[i][n][2]
    BY <2>2, <1>2, <1>5
  <2>7. QED
    BY <2>1, <2>3, <2>5, <2>6, <1>1, <1>9 DEF FleetOf!IsKept, FleetOf!WriteAwaits, FleetOf!NoneForgets
<1>14. ASSUME NEW u \in FleetUploads, fleet_uploads'[u].at # "nowhere",
              fleet_uploads'[u].answer # "lost", FleetOf!Alone(u)'
       PROVE  FleetOf!IsKept(u)'
  BY <1>9, <1>12, <1>13, <1>14
<1>15. QED
  BY <1>1, <1>3, <1>7, <1>9, <1>10, <1>11, <1>14, FleetBooks DEF FleetOf!FleetInv, FleetOf!Sent

\* The write at the head of an instance's queue reaches the store.
LEMMA WriteMoves ==
    ASSUME FleetOf!FleetInv, NEW i \in FleetInstances, FleetOf!Write(i)
    PROVE  FleetOf!FleetInv'
<1> DEFINE q == fleet_queue[i]
           rest == Tail(q)
           e == q[1]
<1>1. /\ q # <<>>
      /\ fleet_store' = FleetOf!With(fleet_store, e[1], e[2])
      /\ fleet_queue' = [fleet_queue EXCEPT ![i] = rest]
      /\ UNCHANGED <<fleet_now, fleet_running, fleet_memory, fleet_uploads>>
  BY FleetBooks DEF FleetOf!Write
<1>2. q \in Seq(FleetOf!Entries)
  BY FleetBooks
<1>3. /\ Len(q) \in Nat /\ Len(q) > 0 /\ DOMAIN q = 1..Len(q)
      /\ rest \in Seq(FleetOf!Entries) /\ DOMAIN rest = 1..Len(q) - 1
      /\ \A n \in 1..Len(q) - 1 : rest[n] = q[n + 1]
  BY <1>1, <1>2
<1>4. /\ 1 \in DOMAIN q
      /\ e[1] \in FleetOf!Ids /\ e[2] \in SUBSET FleetUploads /\ e[3] \in FleetUploads
      /\ fleet_uploads[e[3]].at = i /\ fleet_uploads[e[3]].id = e[1]
  BY <1>3, FleetBooks
<1>q. q = fleet_queue[i] /\ e = q[1]
  OBVIOUS
<1> HIDE DEF q, rest, e
<1>5. /\ fleet_store' \in FleetOf!Docs
      /\ \A x : FleetOf!Of(fleet_store', x) = IF x = e[1] THEN e[2] ELSE FleetOf!Of(fleet_store, x)
  BY <1>1, <1>4, FleetBooks, DocumentsAre
<1>6. /\ fleet_queue' \in [FleetInstances -> Seq(FleetOf!Entries)]
      /\ fleet_queue'[i] = rest
      /\ \A j \in FleetInstances : j # i => fleet_queue'[j] = fleet_queue[j]
  BY <1>1, <1>3, FleetBooks
<1>7. \A n \in DOMAIN fleet_queue'[i] : n + 1 \in DOMAIN q /\ fleet_queue'[i][n] = q[n + 1]
  BY <1>3, <1>6
<1>8. FleetOf!WritesAreOwn'
  <2>1. ASSUME NEW j \in FleetInstances, NEW n \in DOMAIN fleet_queue'[j]
        PROVE  /\ fleet_uploads[fleet_queue'[j][n][3]].at = j
               /\ fleet_uploads[fleet_queue'[j][n][3]].id = fleet_queue'[j][n][1]
    <3>1. \E m \in DOMAIN fleet_queue[j] : fleet_queue'[j][n] = fleet_queue[j][m]
      BY <1>6, <1>7, <1>q
    <3>2. QED
      BY <3>1, FleetBooks
  <2>2. QED
    BY <2>1, <1>1 DEF FleetOf!WritesAreOwn
<1>9. FleetOf!UnsentIsNowhere'
  <2>1. ASSUME NEW u \in FleetUploads, fleet_uploads[u].at = "nowhere"
        PROVE  /\ fleet_uploads[u].answer = "none"
               /\ \A id \in FleetOf!Ids : u \notin FleetOf!Of(fleet_store', id)
               /\ \A j \in FleetInstances :
                     /\ \A id \in FleetOf!Ids : u \notin FleetOf!Of(fleet_memory[j], id)
                     /\ \A n \in DOMAIN fleet_queue'[j] : u \notin fleet_queue'[j][n][2]
    <3>1. \A j \in FleetInstances : \A n \in DOMAIN fleet_queue[j] : u \notin fleet_queue[j][n][2]
      BY <2>1, FleetBooks
    <3>2. \A id \in FleetOf!Ids : u \notin FleetOf!Of(fleet_store, id)
      BY <2>1, FleetBooks
    <3>3. \A j \in FleetInstances : \A id \in FleetOf!Ids : u \notin FleetOf!Of(fleet_memory[j], id)
      BY <2>1, FleetBooks
    <3>4. u \notin e[2]
      BY <3>1, <1>4, <1>q
    <3>5. \A j \in FleetInstances : \A n \in DOMAIN fleet_queue'[j] : u \notin fleet_queue'[j][n][2]
      BY <3>1, <1>6, <1>7, <1>q
    <3>6. fleet_uploads[u].answer = "none"
      BY <2>1, FleetBooks
    <3>7. QED
      BY <3>2, <3>3, <3>4, <3>5, <3>6, <1>5
  <2>2. QED
    BY <2>1, <1>1 DEF FleetOf!UnsentIsNowhere, FleetOf!Sent
<1>10. ASSUME NEW u \in FleetUploads, fleet_uploads[u].at # "nowhere",
              fleet_uploads[u].answer # "lost", FleetOf!Alone(u)'
       PROVE  FleetOf!IsKept(u)'
  <2>1. FleetOf!Alone(u)
    BY <1>1, <1>10, SentStays
  <2>2. FleetOf!IsKept(u)
    BY <2>1, <1>10, FleetBooks
  <2>3. fleet_uploads[u].at \in FleetInstances /\ i # "nowhere"
    BY <1>10, FleetBooks
  <2>4. CASE fleet_uploads[u].at # i
    <3>1. fleet_queue'[fleet_uploads[u].at] = fleet_queue[fleet_uploads[u].at]
      BY <2>3, <2>4, <1>6
    <3>2. e[1] # fleet_uploads[u].id
      BY <2>1, <2>3, <2>4, <1>4 DEF FleetOf!Alone
    <3>3. FleetOf!Of(fleet_store', fleet_uploads[u].id) = FleetOf!Of(fleet_store, fleet_uploads[u].id)
      BY <3>2, <1>5
    <3>4. QED
      BY <2>2, <3>1, <3>3, <1>1 DEF FleetOf!IsKept
  <2>5. CASE fleet_uploads[u].at = i
    <3> DEFINE id == fleet_uploads[u].id
               Its(n) == q[n][1] = id
               Holds(n) == u \in q[n][2]
               stored == u \in FleetOf!Of(fleet_store, id)
               storedNow == u \in FleetOf!Of(fleet_store', id)
    <3>1. /\ i \in fleet_running => u \in FleetOf!Of(fleet_memory[i], id)
          /\ fleet_uploads[u].answer = "none" => i \in fleet_running
          /\ stored \/ /\ fleet_uploads[u].answer = "none"
                       /\ \E n \in DOMAIN q : q[n][3] = u /\ Its(n) /\ Holds(n)
          /\ \A n \in DOMAIN q : Its(n) /\ (stored \/ \E m \in 1..n : Its(m) /\ Holds(m)) => Holds(n)
      BY <2>2, <2>5, <1>q DEF FleetOf!IsKept, FleetOf!WriteAwaits, FleetOf!NoneForgets
    <3>2. storedNow = IF Its(1) THEN Holds(1) ELSE stored
      <4>1. CASE id = e[1]
        BY <4>1, <1>5, <1>q
      <4>2. CASE id # e[1]
        BY <4>2, <1>5, <1>q
      <4>3. QED
        BY <4>1, <4>2
    <3>3. DOMAIN q = 1..Len(q) /\ Len(q) \in Nat /\ 1 \in DOMAIN q
      BY <1>3, <1>4
    <3> HIDE DEF id
    <3>4. ASSUME NEW n \in DOMAIN fleet_queue'[i], fleet_queue'[i][n][1] = id,
                 \/ storedNow
                 \/ \E m \in 1..n : fleet_queue'[i][m][1] = id /\ u \in fleet_queue'[i][m][2]
          PROVE  u \in fleet_queue'[i][n][2]
      <4>1. n + 1 \in DOMAIN q /\ fleet_queue'[i][n] = q[n + 1] /\ n \in Nat /\ n > 0
        BY <1>3, <1>6, <1>7
      <4>2. CASE storedNow
        <5>1. stored \/ (Its(1) /\ Holds(1))
          BY <3>2, <4>2
        <5>2. 1 \in 1..n + 1
          BY <4>1
        <5>3. QED
          BY <5>1, <5>2, <4>1, <3>1, <3>4
      <4>3. CASE \E m \in 1..n : fleet_queue'[i][m][1] = id /\ u \in fleet_queue'[i][m][2]
        <5>1. PICK m \in 1..n : fleet_queue'[i][m][1] = id /\ u \in fleet_queue'[i][m][2]
          BY <4>3
        <5>2. m \in DOMAIN fleet_queue'[i] /\ m + 1 \in 1..n + 1
          BY <4>1, <1>3, <1>6
        <5>3. Its(m + 1) /\ Holds(m + 1)
          BY <5>1, <5>2, <1>7
        <5>4. QED
          BY <5>2, <5>3, <4>1, <3>1, <3>4
      <4>4. QED
        BY <4>2, <4>3, <3>4
    <3>5. \/ storedNow
          \/ /\ fleet_uploads[u].answer = "none"
             /\ \E n \in DOMAIN fleet_queue'[i] :
                   /\ fleet_queue'[i][n][3] = u /\ fleet_queue'[i][n][1] = id
                   /\ u \in fleet_queue'[i][n][2]
      <4>1. CASE ~storedNow
        <5>1. 1 \in 1..1 /\ 1 \in DOMAIN q
          BY <3>3
        <5>2. ~stored
          BY <3>1, <3>2, <3>3, <4>1
        <5>3. PICK n \in DOMAIN q : q[n][3] = u /\ Its(n) /\ Holds(n)
          BY <3>1, <5>2
        <5>4. fleet_uploads[u].answer = "none"
          BY <3>1, <5>2
        <5>5. n # 1
          BY <3>2, <4>1, <5>3
        <5>6. n - 1 \in 1..Len(q) - 1 /\ (n - 1) + 1 = n
          BY <5>5, <3>3
        <5>7. n - 1 \in DOMAIN fleet_queue'[i] /\ fleet_queue'[i][n - 1] = q[n]
          BY <5>6, <1>3, <1>6
        <5>8. QED
          BY <5>3, <5>4, <5>7
      <4>2. QED
        BY <4>1
    <3>6. /\ storedNow \/ /\ fleet_uploads[u].answer = "none"
                          /\ \E n \in DOMAIN fleet_queue'[i] :
                                /\ fleet_queue'[i][n][3] = u
                                /\ fleet_queue'[i][n][1] = fleet_uploads[u].id
                                /\ u \in fleet_queue'[i][n][2]
          /\ \A n \in DOMAIN fleet_queue'[i] :
                /\ fleet_queue'[i][n][1] = fleet_uploads[u].id
                /\ \/ storedNow
                   \/ \E m \in 1..n : /\ fleet_queue'[i][m][1] = fleet_uploads[u].id
                                      /\ u \in fleet_queue'[i][m][2]
                => u \in fleet_queue'[i][n][2]
      BY <3>4, <3>5 DEF id
    <3>7. /\ i \in fleet_running => u \in FleetOf!Of(fleet_memory[i], fleet_uploads[u].id)
          /\ fleet_uploads[u].answer = "none" => i \in fleet_running
          /\ fleet_uploads' = fleet_uploads /\ fleet_uploads[u].at = i
          /\ fleet_running' = fleet_running /\ fleet_memory' = fleet_memory
      BY <3>1, <2>5, <1>1 DEF id
    <3>8. QED
      BY <3>6, <3>7 DEF FleetOf!IsKept, FleetOf!WriteAwaits, FleetOf!NoneForgets, id
  <2>6. QED
    BY <2>4, <2>5
<1>11. QED
  BY <1>1, <1>5, <1>6, <1>8, <1>9, <1>10, FleetBooks DEF FleetOf!FleetInv, FleetOf!Sent

\* A receipt is returned once nothing of the upload is left to write: it is stored.
LEMMA CommitMoves ==
    ASSUME FleetOf!FleetInv, NEW v \in FleetUploads, FleetOf!Commit(v)
    PROVE  FleetOf!FleetInv'
<1>1. /\ fleet_uploads[v].answer = "none"
      /\ fleet_uploads[v].at \in fleet_running
      /\ \A n \in DOMAIN fleet_queue[fleet_uploads[v].at] : fleet_queue[fleet_uploads[v].at][n][3] # v
      /\ fleet_uploads' = [fleet_uploads EXCEPT ![v].answer = "receipt"]
      /\ UNCHANGED <<fleet_now, fleet_running, fleet_memory, fleet_queue, fleet_store>>
  BY DEF FleetOf!Commit
<1>2. /\ fleet_uploads' \in [FleetUploads ->
            [at : FleetInstances \cup {"nowhere"}, id : FleetOf!Ids, answer : FleetOf!Answers]]
      /\ \A u \in FleetUploads :
            /\ fleet_uploads'[u].at = fleet_uploads[u].at
            /\ fleet_uploads'[u].id = fleet_uploads[u].id
            /\ fleet_uploads'[u].answer = IF u = v THEN "receipt" ELSE fleet_uploads[u].answer
  <2>1. fleet_uploads \in [FleetUploads ->
            [at : FleetInstances \cup {"nowhere"}, id : FleetOf!Ids, answer : FleetOf!Answers]]
    BY FleetBooks
  <2>2. QED
    BY <2>1, <1>1 DEF FleetOf!Answers
<1>3. FleetOf!WritesAreOwn'
  BY <1>1, <1>2, FleetBooks DEF FleetOf!WritesAreOwn
<1>4. FleetOf!UnsentIsNowhere'
  BY <1>1, <1>2, FleetBooks DEF FleetOf!UnsentIsNowhere, FleetOf!Sent
<1>5. ASSUME NEW u \in FleetUploads, fleet_uploads'[u].at # "nowhere",
             fleet_uploads'[u].answer # "lost", FleetOf!Alone(u)'
      PROVE  FleetOf!IsKept(u)'
  <2>1. FleetOf!IsKept(u)
    BY <1>1, <1>2, <1>5, SentStays, FleetBooks
  <2>2. CASE u = v
    <3>1. ~FleetOf!WriteAwaits(u, fleet_uploads[u].id, fleet_queue[fleet_uploads[u].at])
      BY <2>2, <1>1 DEF FleetOf!WriteAwaits
    <3>2. u \in FleetOf!Of(fleet_store, fleet_uploads[u].id)
      BY <2>1, <3>1 DEF FleetOf!IsKept
    <3>3. /\ fleet_uploads'[u].at = fleet_uploads[u].at
          /\ fleet_uploads'[u].id = fleet_uploads[u].id /\ fleet_uploads'[u].answer = "receipt"
      BY <2>2, <1>2
    <3>4. QED
      BY <2>1, <3>2, <3>3, <1>1 DEF FleetOf!IsKept
  <2>3. CASE u # v
    BY <2>1, <2>3, <1>1, <1>2 DEF FleetOf!IsKept
  <2>4. QED
    BY <2>2, <2>3
<1>6. QED
  BY <1>1, <1>2, <1>3, <1>4, <1>5, FleetBooks DEF FleetOf!FleetInv, FleetOf!Sent

LEMMA FleetMoves ==
    ASSUME FleetOf!FleetInv, FleetOf!Next \/ UNCHANGED fleetVars
    PROVE  FleetOf!FleetInv'
<1>1. ASSUME UNCHANGED <<fleet_running, fleet_memory, fleet_queue, fleet_store, fleet_uploads>>,
             fleet_now' \in FleetOf!Ids
      PROVE  FleetOf!FleetInv'
  <2>1. \A u \in FleetUploads : FleetOf!Alone(u)' = FleetOf!Alone(u)
    BY <1>1 DEF FleetOf!Alone
  <2>2. \A u \in FleetUploads : FleetOf!IsKept(u)' = FleetOf!IsKept(u)
    BY <1>1 DEF FleetOf!IsKept
  <2>3. QED
    BY <2>1, <2>2, <1>1 DEF FleetOf!FleetInv, FleetOf!WritesAreOwn, FleetOf!UnsentIsNowhere, FleetOf!Sent
<1>2. CASE FleetOf!Tick
  <2>1. fleet_now' \in FleetOf!Ids
    BY <1>2, FleetBooks, ConstantsAreTheirs DEF FleetOf!Tick, FleetOf!Ids, FleetOf!FleetAssumption
  <2>2. QED
    BY <2>1, <1>1, <1>2 DEF FleetOf!Tick
<1>3. CASE UNCHANGED fleetVars
  BY <1>1, <1>3, FleetBooks DEF fleetVars
<1>4. QED
  BY <1>2, <1>3, StartMoves, StopMoves, ReceiveMoves, WriteMoves, CommitMoves DEF FleetOf!Next

LEMMA CommittedIsKept == FleetOf!FleetInv => FleetOf!CommittedAloneIsKept
<1> SUFFICES ASSUME FleetOf!FleetInv, NEW u \in FleetUploads,
                    fleet_uploads[u].answer = "receipt", FleetOf!Alone(u)
             PROVE  u \in FleetOf!Of(fleet_store, fleet_uploads[u].id)
  BY DEF FleetOf!CommittedAloneIsKept, FleetOf!Committed
<1>1. fleet_uploads[u].at # "nowhere"
  BY FleetBooks
<1>2. QED
  BY <1>1, FleetBooks DEF FleetOf!IsKept, FleetOf!WriteAwaits, FleetOf!NoneForgets

\* An upload held in memory stays there while its instance is up, and an instance that
\* starts has the store's documents.
LEMMA MemoryGoesForward ==
    ASSUME FleetOf!FleetInv, FleetOf!Next \/ UNCHANGED fleetVars
    PROVE  FleetOf!AcceptedIsServed /\ FleetOf!StartsWithTheStore
<1>1. ASSUME fleet_memory' = fleet_memory, fleet_running' = fleet_running
      PROVE  FleetOf!AcceptedIsServed /\ FleetOf!StartsWithTheStore
  BY <1>1 DEF FleetOf!AcceptedIsServed, FleetOf!StartsWithTheStore
<1>2. ASSUME NEW i \in FleetInstances, FleetOf!Start(i)
      PROVE  FleetOf!AcceptedIsServed /\ FleetOf!StartsWithTheStore
  <2>1. /\ i \notin fleet_running /\ fleet_running' = fleet_running \cup {i}
        /\ \A j \in FleetInstances :
              fleet_memory'[j] = IF j = i THEN fleet_store ELSE fleet_memory[j]
        /\ fleet_running \subseteq FleetInstances
    BY <1>2, FleetBooks DEF FleetOf!Start
  <2>2. QED
    BY <2>1 DEF FleetOf!AcceptedIsServed, FleetOf!StartsWithTheStore, FleetOf!Of
<1>3. ASSUME NEW i \in FleetInstances, FleetOf!Stop(i)
      PROVE  FleetOf!AcceptedIsServed /\ FleetOf!StartsWithTheStore
  <2>1. /\ fleet_running' = fleet_running \ {i} /\ fleet_running \subseteq FleetInstances
        /\ \A j \in FleetInstances : j # i => fleet_memory'[j] = fleet_memory[j]
    BY <1>3, FleetBooks DEF FleetOf!Stop
  <2>2. QED
    BY <2>1 DEF FleetOf!AcceptedIsServed, FleetOf!StartsWithTheStore
<1>4. ASSUME NEW v \in FleetUploads, NEW i \in FleetInstances, FleetOf!Receive(v, i)
      PROVE  FleetOf!AcceptedIsServed /\ FleetOf!StartsWithTheStore
  <2> DEFINE before == FleetOf!Of(fleet_memory[i], fleet_now)
             after == before \cup {v}
  <2>1. /\ fleet_memory' = [fleet_memory EXCEPT ![i] = FleetOf!With(fleet_memory[i], fleet_now, after)]
        /\ fleet_running' = fleet_running /\ fleet_running \subseteq FleetInstances
    BY <1>4, FleetBooks DEF FleetOf!Receive
  <2>2. \A x : FleetOf!Of(FleetOf!With(fleet_memory[i], fleet_now, after), x) =
                 IF x = fleet_now THEN after ELSE FleetOf!Of(fleet_memory[i], x)
    <3>1. after \in SUBSET FleetUploads /\ fleet_memory[i] \in FleetOf!Docs
      BY FleetBooks, DocumentsAre
    <3>2. QED
      BY <3>1, FleetBooks, DocumentsAre
  <2>3. \A j \in FleetInstances :
          fleet_memory'[j] = IF j = i THEN FleetOf!With(fleet_memory[i], fleet_now, after)
                             ELSE fleet_memory[j]
    BY <2>1, FleetBooks
  <2>4. \A j \in FleetInstances : \A x :
          FleetOf!Of(fleet_memory[j], x) \subseteq FleetOf!Of(fleet_memory'[j], x)
    <3> HIDE DEF after
    <3>1. before \subseteq after
      BY DEF after
    <3>2. QED
      BY <3>1, <2>2, <2>3
  <2>5. QED
    BY <2>1, <2>4 DEF FleetOf!AcceptedIsServed, FleetOf!StartsWithTheStore
<1>5. QED
  <2>1. FleetOf!Next \/ UNCHANGED fleetVars =>
          \/ fleet_memory' = fleet_memory /\ fleet_running' = fleet_running
          \/ \E i \in FleetInstances : FleetOf!Start(i) \/ FleetOf!Stop(i)
          \/ \E v \in FleetUploads : \E i \in FleetInstances : FleetOf!Receive(v, i)
    BY DEF FleetOf!Next, FleetOf!Tick, FleetOf!Write, FleetOf!Commit, fleetVars
  <2>2. QED
    BY <2>1, <1>1, <1>2, <1>3, <1>4

\* What was acknowledged is stored: a batch in order, a call whole, a list complete, and
\* what an instance committed under a name of its own kept, through restarts, refusals,
\* requests given up on and writes of other instances (gcp.ts, registry.ts, main.ts):
\* Service's StoredAsAcknowledged, at every moment of every behaviour.
THEOREM StoredStaysAsAcknowledged == ServiceSpec => []StoredAsAcknowledged
<1> DEFINE Inv == /\ part = "collection" => Collection!CollectionInv
                  /\ part = "fleet" => FleetOf!FleetInv
<1>1. ServiceInit => Inv
  BY Starts, CollectionBegins, FleetBegins
<1>2. Inv /\ [ServiceNext]_serviceVars => Inv'
  BY Moves, CollectionMoves, FleetMoves
<1>3. Inv => StoredAsAcknowledged
  BY ListsAreComplete, CommittedIsKept DEF StoredAsAcknowledged, Collection!CollectionInv
<1>4. QED
  BY <1>1, <1>2, <1>3, PTL DEF ServiceSpec

\* What a step may never do to the store: put an earlier record over a later one unless a
\* request given up on arrives, take an upload from an instance that served it, or start
\* an instance on anything but the store (gcp.ts put, registry.ts hydrate): Service's
\* StoreGoesForward, for every step of every behaviour, from the same invariants.
THEOREM TheStoreGoesForward == ServiceSpec => StoreGoesForward
<1> DEFINE Inv == /\ part = "collection" => Collection!CollectionInv
                  /\ part = "fleet" => FleetOf!FleetInv
           Step == /\ part = "collection" => Collection!NothingOlder
                   /\ part = "fleet" => FleetOf!AcceptedIsServed /\ FleetOf!StartsWithTheStore
<1>1. ServiceInit => Inv
  BY Starts, CollectionBegins, FleetBegins
<1>2. Inv /\ [ServiceNext]_serviceVars => Inv'
  BY Moves, CollectionMoves, FleetMoves
<1>3. Inv /\ [ServiceNext]_serviceVars => [Step]_serviceVars
  BY Moves, NothingGoesBack, MemoryGoesForward
<1>4. QED
  BY <1>1, <1>2, <1>3, PTL DEF ServiceSpec, StoreGoesForward

-----------------------------------------------------------------------------
(* The pages: one filter, and one file                                     *)

LEMMA FilterNumbers == FilterMaxHistory \in Nat \ {0} /\ "projects" \in FilterPages
  BY ConstantsAreTheirs DEF Filter!FilterAssumption

\* What a position's filter becomes is a filter.
LEMMA FiltersAre ==
    /\ Filter!NoFilter \in Filter!Filters
    /\ \A r \in Filter!Regions \cup {Filter!All} :
          [Filter!NoFilter EXCEPT !.region = r] \in Filter!Filters
    /\ \A s \in Filter!Filters :
          /\ \A r \in Filter!Regions \cup {Filter!All} : [s EXCEPT !.region = r] \in Filter!Filters
          /\ \A q \in Filter!Views :
                [s EXCEPT !.quick = Filter!Toggled(@, q)] \in Filter!Filters
          /\ \A d \in Filter!Drivers :
                [s EXCEPT !.driver = Filter!Toggled(@, d)] \in Filter!Filters
          /\ \A P \in SUBSET FilterProjects : [s EXCEPT !.pop = P] \in Filter!Filters
          /\ [b \in Filter!Bands |-> Filter!InBand(s, b)] \in [Filter!Bands -> SUBSET FilterProjects]
  BY DEF Filter!Filters, Filter!NoFilter, Filter!Toggled, Filter!InBand, Filter!Selected

\* A history that is stepped from loses what was ahead, and its new end is the step.
LEMMA Stepped ==
    ASSUME NEW S, NEW h \in Seq(S), NEW a \in DOMAIN h, NEW e \in S
    PROVE  LET next == Append(SubSeq(h, 1, a), e)
           IN  next \in Seq(S) /\ a + 1 \in DOMAIN next /\ next[a + 1] = e
<1> DEFINE front == SubSeq(h, 1, a)
<1>1. front \in Seq(S) /\ Len(front) = a
  OBVIOUS
<1> HIDE DEF front
<1>2. /\ Append(front, e) \in Seq(S) /\ a + 1 \in DOMAIN Append(front, e)
      /\ Append(front, e)[a + 1] = e
  BY <1>1
<1>3. QED
  BY <1>2 DEF front

\* An edited address is the entry's, and the entry stays where it is.
LEMMA Readdressed ==
    ASSUME NEW h \in Seq(Filter!Positions), NEW a \in DOMAIN h, NEW s \in Filter!Filters
    PROVE  LET next == [h EXCEPT ![a].search = s]
           IN  next \in Seq(Filter!Positions) /\ a \in DOMAIN next /\ next[a].search = s
<1>0. h[a] \in Filter!Positions
  OBVIOUS
<1>1. ASSUME NEW e \in Filter!Positions
      PROVE  [e EXCEPT !.search = s] \in Filter!Positions /\ [e EXCEPT !.search = s].search = s
  BY DEF Filter!Positions
<1>2. [h[a] EXCEPT !.search = s].search = s
  BY <1>0, <1>1
<1> DEFINE edited == [h[a] EXCEPT !.search = s]
<1> HIDE DEF edited
<1>3. [h EXCEPT ![a] = edited] \in Seq(Filter!Positions) /\ a \in DOMAIN [h EXCEPT ![a] = edited]
      /\ [h EXCEPT ![a] = edited][a] = edited
  <2>1. edited \in Filter!Positions
    BY <1>0, <1>1 DEF edited
  <2>2. QED
    BY <2>1
<1>4. QED
  BY <1>2, <1>3 DEF edited

LEMMA FilterBegins == Filter!Init => Filter!FilterInv
<1> SUFFICES ASSUME Filter!Init PROVE Filter!FilterInv
  OBVIOUS
<1>1. filter_state \in Filter!Filters /\ filter_page \in FilterPages
  BY FiltersAre DEF Filter!Init
<1>2. filter_bound \in [Filter!Bands -> SUBSET FilterProjects]
  BY <1>1, FiltersAre DEF Filter!Init
<1> DEFINE e == [page |-> filter_page, search |-> filter_state, document |-> 1]
<1>3. e \in Filter!Positions /\ e.search = filter_state
  BY <1>1 DEF Filter!Positions
<1> HIDE DEF e
<1>4. filter_entries = <<e>> /\ filter_at = 1
  BY DEF Filter!Init, e
<1>5. filter_entries \in Seq(Filter!Positions) /\ filter_at \in DOMAIN filter_entries
      /\ filter_entries[filter_at] = e
  BY <1>3, <1>4
<1>6. QED
  BY <1>1, <1>2, <1>3, <1>5 DEF Filter!Init, Filter!FilterInv, Filter!Search

\* A drawn filter is the page's, its links' and its address's; the controls follow.
LEMMA Drawn ==
    ASSUME Filter!FilterInv, NEW s \in Filter!Filters, NEW push \in BOOLEAN, Filter!Draw(s, push),
           UNCHANGED <<filter_page, filter_document, filter_bound>>, filter_controls' = Filter!Shown(s)
    PROVE  Filter!FilterInv'
<1> USE DEF Filter!FilterInv
<1>1. filter_state' = s /\ filter_nav' = s
  BY DEF Filter!Draw
<1>2. filter_arrow' \in Filter!Filters
  <2>1. Filter!Search \in Filter!Filters
    OBVIOUS
  <2>2. QED
    BY <2>1 DEF Filter!Draw
<1>3. /\ filter_entries' \in Seq(Filter!Positions) /\ filter_at' \in DOMAIN filter_entries'
      /\ filter_entries'[filter_at'].search = s
  <2>1. CASE push /\ s # Filter!Search
    <3> DEFINE e == [page |-> filter_page, search |-> s, document |-> filter_document]
    <3>1. e \in Filter!Positions /\ e.search = s
      BY DEF Filter!Positions
    <3>2. /\ filter_at' = filter_at + 1
          /\ filter_entries' = Append(SubSeq(filter_entries, 1, filter_at), e)
      BY <2>1 DEF Filter!Draw
    <3> HIDE DEF e
    <3>3. QED
      BY <3>1, <3>2, Stepped
  <2>2. CASE ~(push /\ s # Filter!Search)
    <3>1. /\ filter_at' = filter_at
          /\ filter_entries' = [filter_entries EXCEPT ![filter_at].search = s]
      BY <2>2 DEF Filter!Draw
    <3>2. QED
      BY <3>1, Readdressed
  <2>3. QED
    BY <2>1, <2>2
<1>4. QED
  BY <1>1, <1>2, <1>3 DEF Filter!Search, Filter!Shown

\* So is the one a page is loaded with.
LEMMA LoadedIs ==
    ASSUME NEW p \in FilterPages, NEW s \in Filter!Filters, Filter!Loaded(p, s),
           filter_entries' \in Seq(Filter!Positions), filter_at' \in DOMAIN filter_entries',
           filter_entries'[filter_at'].search = s, filter_document' \in Nat
    PROVE  Filter!FilterInv'
<1>1. [b \in Filter!Bands |-> Filter!InBand(s, b)] \in [Filter!Bands -> SUBSET FilterProjects]
  BY FiltersAre
<1>2. QED
  BY <1>1 DEF Filter!Loaded, Filter!FilterInv, Filter!Search, Filter!Shown

LEMMA FollowedIs ==
    ASSUME Filter!FilterInv, NEW p \in FilterPages, NEW s \in Filter!Filters, Filter!Follow(p, s)
    PROVE  Filter!FilterInv'
<1> DEFINE e == [page |-> p, search |-> s, document |-> filter_document + 1]
<1>1. e \in Filter!Positions /\ e.search = s
  BY DEF Filter!Positions, Filter!FilterInv
<1>2. /\ filter_at' = filter_at + 1 /\ filter_document' = filter_document + 1
      /\ filter_entries' = Append(SubSeq(filter_entries, 1, filter_at), e)
      /\ Filter!Loaded(p, s)
  BY DEF Filter!Follow
<1>3. /\ filter_entries \in Seq(Filter!Positions) /\ filter_at \in DOMAIN filter_entries
      /\ filter_document \in Nat
  BY DEF Filter!FilterInv
<1> HIDE DEF e
<1>4. /\ filter_entries' \in Seq(Filter!Positions) /\ filter_at' \in DOMAIN filter_entries'
      /\ filter_entries'[filter_at'] = e
  BY <1>1, <1>2, <1>3, Stepped
<1>5. filter_document' \in Nat
  BY <1>2, <1>3
<1>6. QED
  BY <1>1, <1>2, <1>4, <1>5, LoadedIs

LEMMA FilterMoves ==
    Filter!FilterInv /\ (Filter!Next \/ UNCHANGED filterVars) => Filter!FilterInv'
<1> SUFFICES ASSUME Filter!FilterInv, Filter!Next \/ UNCHANGED filterVars PROVE Filter!FilterInv'
  OBVIOUS
<1>0. /\ filter_state \in Filter!Filters /\ filter_nav = filter_state
      /\ filter_controls = Filter!Shown(filter_state) /\ Filter!Search = filter_state
      /\ filter_arrow \in Filter!Filters /\ filter_bound \in [Filter!Bands -> SUBSET FilterProjects]
  BY DEF Filter!FilterInv
<1>1. ASSUME NEW r \in Filter!Regions \cup {Filter!All}, Filter!SetRegion(r) PROVE Filter!FilterInv'
  <2> DEFINE s == [filter_state EXCEPT !.region = r]
  <2>1. s \in Filter!Filters
    BY <1>0, FiltersAre
  <2>2. filter_controls' = Filter!Shown(s)
    BY <1>0, <1>1 DEF Filter!SetRegion, Filter!Shown, Filter!Filters
  <2>3. QED
    BY <1>1, <2>1, <2>2, Drawn DEF Filter!SetRegion
<1>2. ASSUME NEW q \in Filter!Views, Filter!SetQuick(q) PROVE Filter!FilterInv'
  <2> DEFINE s == [filter_state EXCEPT !.quick = Filter!Toggled(@, q)]
  <2>1. s \in Filter!Filters
    BY <1>0, FiltersAre
  <2>2. filter_controls' = Filter!Shown(s)
    BY <1>0, <1>2 DEF Filter!SetQuick, Filter!Shown, Filter!Filters
  <2>3. QED
    BY <1>2, <2>1, <2>2, Drawn DEF Filter!SetQuick
<1>3. ASSUME NEW d \in Filter!Drivers, Filter!SetDriver(d) PROVE Filter!FilterInv'
  <2> DEFINE s == [filter_state EXCEPT !.driver = Filter!Toggled(@, d)]
  <2>1. s \in Filter!Filters
    BY <1>0, FiltersAre
  <2>2. filter_controls' = Filter!Shown(s)
    BY <1>0, <1>3 DEF Filter!SetDriver, Filter!Shown, Filter!Filters
  <2>3. QED
    BY <1>3, <2>1, <2>2, Drawn DEF Filter!SetDriver
<1>4. CASE Filter!Reset
  BY <1>4, FiltersAre, Drawn DEF Filter!Reset
<1>5. CASE Filter!SeeTheseProjects
  BY <1>0, <1>5, FilterNumbers, FollowedIs DEF Filter!SeeTheseProjects
<1>6. ASSUME NEW n \in 1..FilterMaxHistory, Filter!Travel(n) PROVE Filter!FilterInv'
  <2>1. /\ filter_entries' = filter_entries /\ filter_at' = n /\ n \in DOMAIN filter_entries
        /\ filter_entries \in Seq(Filter!Positions) /\ filter_entries[n] \in Filter!Positions
    BY <1>6 DEF Filter!Travel, Filter!FilterInv
  <2>2. /\ filter_entries[n].page \in FilterPages /\ filter_entries[n].search \in Filter!Filters
        /\ filter_entries[n].document \in Nat
    BY <2>1 DEF Filter!Positions
  <2>3. CASE filter_entries[n].document = filter_document
    <3>1. Filter!PopState(filter_entries[n])
      BY <1>6, <2>3 DEF Filter!Travel
    <3>2. QED
      BY <2>1, <2>2, <3>1 DEF Filter!PopState, Filter!FilterInv, Filter!Search, Filter!Shown
  <2>4. CASE filter_entries[n].document # filter_document
    <3>1. /\ Filter!Loaded(filter_entries[n].page, filter_entries[n].search)
          /\ filter_document' = filter_entries[n].document
      BY <1>6, <2>4 DEF Filter!Travel
    <3>2. QED
      BY <2>1, <2>2, <3>1, LoadedIs
  <2>5. QED
    BY <2>3, <2>4
<1>7. ASSUME NEW b \in Filter!Bands, Filter!Investigate(b) PROVE Filter!FilterInv'
  <2> DEFINE s == [Filter!Search EXCEPT !.pop = filter_bound[b]]
  <2>1. s \in Filter!Filters
    BY <1>0, FiltersAre
  <2>2. QED
    BY <1>7, <2>1, FilterNumbers, FollowedIs DEF Filter!Investigate
<1>8. ASSUME NEW p \in FilterPages, Filter!Navigate(p) PROVE Filter!FilterInv'
  BY <1>0, <1>8, FollowedIs DEF Filter!Navigate
<1>9. CASE UNCHANGED filterVars
  BY <1>9 DEF filterVars, Filter!FilterInv, Filter!Search, Filter!Shown
<1>10. QED
  BY <1>1, <1>2, <1>3, <1>4, <1>5, <1>6, <1>7, <1>8, <1>9 DEF Filter!Next

\* What the page draws: a mapping's columns hold what matched exactly.
LEMMA Drawings ==
    /\ \A f : LET drawn == Upload!Mapping(f) IN
          /\ DOMAIN drawn = DOMAIN Upload!Blank /\ drawn.shows = "mapping" /\ drawn.file = f
          /\ \A c \in DOMAIN drawn.fields :
                drawn.fields[c] # Upload!None => Upload!ExactOrTouched(f, c, drawn.touched)
    /\ \A what, f : LET drawn == Upload!Showing(what, f) IN
          DOMAIN drawn = DOMAIN Upload!Blank /\ drawn.shows = what
    /\ Upload!Blank.shows = "blank"
<1>1. ASSUME NEW f
      PROVE  LET drawn == Upload!Mapping(f) IN
                /\ DOMAIN drawn = DOMAIN Upload!Blank /\ drawn.shows = "mapping" /\ drawn.file = f
                /\ \A c \in DOMAIN drawn.fields :
                      drawn.fields[c] # Upload!None => Upload!ExactOrTouched(f, c, drawn.touched)
  <2>1. DOMAIN Upload!Mapping(f) = DOMAIN Upload!Blank
    BY DEF Upload!Mapping, Upload!Blank
  <2>2. Upload!Mapping(f).shows = "mapping" /\ Upload!Mapping(f).file = f
    BY DEF Upload!Mapping
  <2>3. ASSUME NEW c \in DOMAIN Upload!Mapping(f).fields,
               Upload!Mapping(f).fields[c] # Upload!None
        PROVE  Upload!ExactOrTouched(f, c, Upload!Mapping(f).touched)
    <3>1. Upload!Mapping(f).fields[c] = Upload!Selected(f, c)
      BY <2>3 DEF Upload!Mapping
    <3>2. QED
      BY <2>3, <3>1 DEF Upload!Selected, Upload!ExactOrTouched
  <2>4. QED
    BY <2>1, <2>2, <2>3
<1>2. ASSUME NEW what, NEW f
      PROVE  LET drawn == Upload!Showing(what, f) IN
                DOMAIN drawn = DOMAIN Upload!Blank /\ drawn.shows = what
  BY DEF Upload!Showing, Upload!Blank
<1>3. Upload!Blank.shows = "blank"
  BY DEF Upload!Blank
<1>4. QED
  BY <1>1, <1>2, <1>3

\* The page at rest between requests: nothing was sent, or what was sent is one file's.
LEMMA SurfaceBegins == Upload!Init => Upload!SurfaceInv
<1> SUFFICES ASSUME Upload!Init PROVE Upload!SurfaceInv
  OBVIOUS
<1>1. /\ upload_calls = [c \in UploadCalls |-> Upload!Idle] /\ upload_stage = Upload!Blank
      /\ upload_current = [file |-> Upload!None, bytes |-> Upload!None] /\ upload_sent = {}
  BY DEF Upload!Init
<1>2. Upload!Idle \in Upload!Requests /\ Upload!Idle.at = "idle"
  BY DEF Upload!Idle, Upload!Requests
<1>3. upload_calls \in [UploadCalls -> Upload!Requests]
      /\ \A c \in UploadCalls : upload_calls[c] = Upload!Idle
  BY <1>1, <1>2
<1>4. upload_stage.shows = "blank"
  BY <1>1, Drawings
<1>5. upload_current \in [file : UploadFiles \cup {Upload!None}, bytes : UploadFiles \cup {Upload!None}]
  BY <1>1
<1>6. QED
  BY <1>1, <1>2, <1>3, <1>4, <1>5
  DEF Upload!SurfaceInv, Upload!SentIsOneFile, Upload!UnmatchedIsChosen

\* A step that shows no mapping, opens no other request and sends nothing keeps the page
\* in order, once its own request is.
LEMMA OutOfMapping ==
    ASSUME Upload!SurfaceInv, NEW c \in UploadCalls, NEW r \in Upload!Requests,
           upload_calls' = [upload_calls EXCEPT ![c] = r],
           \A d \in UploadCalls : d # c => upload_calls[d] = Upload!Idle,
           DOMAIN upload_stage' = DOMAIN Upload!Blank, upload_stage'.shows # "mapping",
           r.at \in {"profile", "rereading"} => upload_stage'.shows = "parsing",
           r.at = "rereading" => upload_current'.file = r.file,
           upload_current' \in [file : UploadFiles \cup {Upload!None},
                                bytes : UploadFiles \cup {Upload!None}],
           upload_sent' = upload_sent
    PROVE  Upload!SurfaceInv'
<1>1. /\ upload_calls' \in [UploadCalls -> Upload!Requests] /\ upload_calls'[c] = r
      /\ \A d \in UploadCalls : d # c => upload_calls'[d] = Upload!Idle
  BY DEF Upload!SurfaceInv
<1>2. Upload!Idle.at = "idle"
  BY DEF Upload!Idle
<1>3. (Upload!SentIsOneFile /\ Upload!UnmatchedIsChosen)'
  BY DEF Upload!SurfaceInv, Upload!SentIsOneFile, Upload!UnmatchedIsChosen
<1>4. QED
  BY <1>1, <1>2, <1>3 DEF Upload!SurfaceInv

\* The answer to a request: somebody else's cannot be open beside it.
LEMMA ReplyMoves ==
    ASSUME Upload!SurfaceInv, NEW c \in UploadCalls, Upload!Answer(c)
    PROVE  Upload!SurfaceInv'
<1>1. Upload!Idle \in Upload!Requests /\ Upload!Idle.at = "idle"
  BY DEF Upload!Idle, Upload!Requests
<1>2. /\ upload_calls \in [UploadCalls -> Upload!Requests] /\ upload_calls[c] \in Upload!Requests
      /\ upload_current \in [file : UploadFiles \cup {Upload!None},
                             bytes : UploadFiles \cup {Upload!None}]
      /\ DOMAIN upload_stage = DOMAIN Upload!Blank
  BY DEF Upload!SurfaceInv
<1>3. upload_calls[c].at \in {"profile", "rereading", "ingest", "malformed"} /\ upload_sent' = upload_sent
  BY DEF Upload!Answer, Upload!ProfileAnswers, Upload!Reread, Upload!IngestAnswers
<1>4. \A d \in UploadCalls : d # c => upload_calls[d] = Upload!Idle
  <2>1. upload_calls[c] # Upload!Idle
    BY <1>1, <1>3
  <2>2. QED
    BY <2>1 DEF Upload!SurfaceInv
<1>5. CASE Upload!Fail(c)
  <2>1. /\ upload_calls' = [upload_calls EXCEPT ![c] = Upload!Idle]
        /\ upload_stage' = Upload!Showing("failure", upload_calls[c].file)
        /\ upload_current' = upload_current
    BY <1>5 DEF Upload!Fail
  <2>2. DOMAIN upload_stage' = DOMAIN Upload!Blank /\ upload_stage'.shows = "failure"
    BY <2>1, Drawings
  <2>3. QED
    BY <1>1, <1>2, <1>3, <1>4, <2>1, <2>2, OutOfMapping
<1>6. CASE Upload!ProfileAnswers(c) /\ ~Upload!Fail(c)
  <2> DEFINE r == [upload_calls[c] EXCEPT !.at = "rereading"]
  <2>1. /\ upload_calls[c].at = "profile"
        /\ upload_current' = [file |-> upload_calls[c].file, bytes |-> Upload!None]
        /\ upload_calls' = [upload_calls EXCEPT ![c] = r] /\ upload_stage' = upload_stage
    BY <1>6 DEF Upload!ProfileAnswers
  <2>2. r \in Upload!Requests /\ r.at = "rereading" /\ r.file = upload_calls[c].file
        /\ upload_calls[c].file \in UploadFiles \cup {Upload!None}
    BY <1>2 DEF Upload!Requests
  <2>3. upload_stage.shows = "parsing"
    BY <2>1 DEF Upload!SurfaceInv
  <2>4. /\ upload_current'.file = r.file
        /\ upload_current' \in [file : UploadFiles \cup {Upload!None},
                                bytes : UploadFiles \cup {Upload!None}]
    BY <2>1, <2>2
  <2> HIDE DEF r
  <2>5. DOMAIN upload_stage' = DOMAIN Upload!Blank /\ upload_stage'.shows = "parsing"
    BY <1>2, <2>1, <2>3
  <2>6. QED
    BY <1>3, <1>4, <2>1, <2>2, <2>4, <2>5, OutOfMapping
<1>7. CASE Upload!Reread(c) /\ ~Upload!Fail(c)
  <2>1. /\ upload_calls[c].at = "rereading"
        /\ upload_current' = [upload_current EXCEPT !.bytes = upload_calls[c].file]
        /\ upload_calls' = [upload_calls EXCEPT ![c] = Upload!Idle]
        /\ upload_stage' = Upload!Mapping(upload_current.file)
    BY <1>7 DEF Upload!Reread
  <2>2. upload_current.file = upload_calls[c].file
    BY <2>1 DEF Upload!SurfaceInv
  <2>3. /\ upload_current' \in [file : UploadFiles \cup {Upload!None},
                                bytes : UploadFiles \cup {Upload!None}]
        /\ upload_current'.file = upload_current.file /\ upload_current'.bytes = upload_current.file
    BY <1>2, <2>1, <2>2 DEF Upload!Requests
  <2>4. /\ upload_calls' \in [UploadCalls -> Upload!Requests]
        /\ \A d \in UploadCalls : upload_calls'[d] = Upload!Idle
    BY <1>1, <1>2, <1>4, <2>1
  <2>5. /\ DOMAIN upload_stage' = DOMAIN Upload!Blank /\ upload_stage'.file = upload_current.file
        /\ \A k \in DOMAIN upload_stage'.fields : upload_stage'.fields[k] # Upload!None
              => Upload!ExactOrTouched(upload_current.file, k, upload_stage'.touched)
    BY <2>1, Drawings
  <2>6. (Upload!SentIsOneFile /\ Upload!UnmatchedIsChosen)'
    BY <1>3 DEF Upload!SurfaceInv, Upload!SentIsOneFile, Upload!UnmatchedIsChosen
  <2>7. QED
    BY <1>1, <2>3, <2>4, <2>5, <2>6 DEF Upload!SurfaceInv, Upload!Quiet
<1>8. CASE Upload!IngestAnswers(c) /\ ~Upload!Fail(c)
  <2>1. /\ upload_calls' = [upload_calls EXCEPT ![c] = Upload!Idle]
        /\ upload_stage' = Upload!Showing("receipt", upload_calls[c].file)
        /\ upload_current' = upload_current
    BY <1>8 DEF Upload!IngestAnswers
  <2>2. DOMAIN upload_stage' = DOMAIN Upload!Blank /\ upload_stage'.shows = "receipt"
    BY <2>1, Drawings
  <2>3. QED
    BY <1>1, <1>2, <1>3, <1>4, <2>1, <2>2, OutOfMapping
<1>9. QED
  BY <1>5, <1>6, <1>7, <1>8 DEF Upload!Answer

LEMMA ChooseMoves ==
    ASSUME Upload!SurfaceInv, NEW f \in UploadFiles, NEW c \in UploadCalls, Upload!Choose(f, c)
    PROVE  Upload!SurfaceInv'
<1> DEFINE r == [file |-> f, at |-> "profile"]
<1>1. r \in Upload!Requests /\ r.at = "profile"
  BY DEF Upload!Requests
<1>2. /\ upload_calls' = [upload_calls EXCEPT ![c] = r]
      /\ \A d \in UploadCalls : upload_calls[d] = Upload!Idle
      /\ upload_stage' = Upload!Showing("parsing", f)
      /\ upload_current' = upload_current /\ upload_sent' = upload_sent
  BY DEF Upload!Choose, Upload!Quiet
<1>3. DOMAIN upload_stage' = DOMAIN Upload!Blank /\ upload_stage'.shows = "parsing"
  BY <1>2, Drawings
<1>4. upload_current' \in [file : UploadFiles \cup {Upload!None}, bytes : UploadFiles \cup {Upload!None}]
  BY <1>2 DEF Upload!SurfaceInv
<1> HIDE DEF r
<1>5. QED
  BY <1>1, <1>2, <1>3, <1>4, OutOfMapping

\* A changed select is touched, and nothing else changes.
LEMMA AlterMoves ==
    ASSUME Upload!SurfaceInv, Upload!Alter
    PROVE  Upload!SurfaceInv'
<1>1. /\ upload_calls' = upload_calls /\ upload_current' = upload_current
      /\ upload_sent' = upload_sent /\ upload_stage.shows = "mapping"
  BY DEF Upload!Alter
<1>2. /\ DOMAIN upload_stage' = DOMAIN Upload!Blank /\ upload_stage'.shows = "mapping"
      /\ upload_stage'.file = upload_stage.file /\ upload_stage'.enabled = upload_stage.enabled
      /\ \A k \in DOMAIN upload_stage'.fields :
            \/ k \in DOMAIN upload_stage.fields /\ upload_stage'.fields[k] = upload_stage.fields[k]
               /\ upload_stage.touched \subseteq upload_stage'.touched
            \/ k \in upload_stage'.touched
  <2>1. DOMAIN upload_stage =
           {"shows", "file", "identity", "period", "fields", "touched", "enabled"}
    BY DEF Upload!SurfaceInv, Upload!Blank
  <2>2. CASE \E k : upload_stage' = [upload_stage EXCEPT !.identity = k, !.touched = @ \cup {k}]
    BY <1>1, <2>1, <2>2 DEF Upload!Blank
  <2>3. CASE \E k : upload_stage' = [upload_stage EXCEPT !.period = k, !.touched = @ \cup {k}]
    BY <1>1, <2>1, <2>3 DEF Upload!Blank
  <2>4. CASE \E k \in DOMAIN upload_stage.fields : \E v :
               upload_stage' = [upload_stage EXCEPT !.fields[k] = v, !.touched = @ \cup {k}]
    BY <1>1, <2>1, <2>4 DEF Upload!Blank
  <2>5. QED
    BY <2>2, <2>3, <2>4 DEF Upload!Alter
<1>3. \A k \in DOMAIN upload_stage'.fields : upload_stage'.fields[k] # Upload!None
          => Upload!ExactOrTouched(upload_stage'.file, k, upload_stage'.touched)
  <2>1. \A k \in DOMAIN upload_stage.fields : upload_stage.fields[k] # Upload!None
           => Upload!ExactOrTouched(upload_stage.file, k, upload_stage.touched)
    BY <1>1 DEF Upload!SurfaceInv
  <2>2. QED
    BY <1>2, <2>1 DEF Upload!ExactOrTouched
<1>4. (Upload!SentIsOneFile /\ Upload!UnmatchedIsChosen)'
  BY <1>1 DEF Upload!SurfaceInv, Upload!SentIsOneFile, Upload!UnmatchedIsChosen
<1>5. QED
  BY <1>1, <1>2, <1>3, <1>4 DEF Upload!SurfaceInv, Upload!Quiet

LEMMA CancelMoves ==
    ASSUME Upload!SurfaceInv, Upload!Cancel
    PROVE  Upload!SurfaceInv'
<1>1. /\ upload_stage.shows \in {"mapping", "receipt"}
      /\ upload_current' = [file |-> Upload!None, bytes |-> Upload!None]
      /\ upload_stage' = Upload!Blank
      /\ upload_calls' = upload_calls /\ upload_sent' = upload_sent
  BY DEF Upload!Cancel
<1>2. \A c \in UploadCalls : upload_calls[c].at \notin {"profile", "rereading"}
  BY <1>1 DEF Upload!SurfaceInv
<1>3. upload_stage'.shows = "blank" /\ DOMAIN upload_stage' = DOMAIN Upload!Blank
  BY <1>1, Drawings
<1>4. (Upload!SentIsOneFile /\ Upload!UnmatchedIsChosen)'
  BY <1>1 DEF Upload!SurfaceInv, Upload!SentIsOneFile, Upload!UnmatchedIsChosen
<1>5. upload_current' \in [file : UploadFiles \cup {Upload!None}, bytes : UploadFiles \cup {Upload!None}]
  BY <1>1
<1>6. QED
  BY <1>1, <1>2, <1>3, <1>4, <1>5 DEF Upload!SurfaceInv

\* What is posted is the current file's name and bytes with the mapping shown for it.
LEMMA ConfirmMoves ==
    ASSUME Upload!SurfaceInv, NEW c \in UploadCalls, Upload!Confirm(c)
    PROVE  Upload!SurfaceInv'
<1>1. /\ upload_stage.shows = "mapping" /\ upload_stage.enabled
      /\ upload_stage' = [upload_stage EXCEPT !.enabled = FALSE]
      /\ upload_calls' = [upload_calls EXCEPT ![c] = [file |-> upload_current.file, at |-> Upload!Asked]]
      /\ upload_sent' = {Upload!Posted} /\ upload_current' = upload_current
  BY DEF Upload!Confirm
<1>2. /\ upload_stage.file = upload_current.file /\ upload_current.bytes = upload_current.file
      /\ \A d \in UploadCalls : upload_calls[d] = Upload!Idle
      /\ \A k \in DOMAIN upload_stage.fields : upload_stage.fields[k] # Upload!None
            => Upload!ExactOrTouched(upload_stage.file, k, upload_stage.touched)
  BY <1>1 DEF Upload!SurfaceInv, Upload!Quiet
<1>3. /\ upload_stage'.shows = "mapping" /\ ~upload_stage'.enabled
      /\ upload_stage'.file = upload_stage.file /\ upload_stage'.fields = upload_stage.fields
      /\ upload_stage'.touched = upload_stage.touched
      /\ DOMAIN upload_stage' = DOMAIN Upload!Blank
  BY <1>1 DEF Upload!SurfaceInv, Upload!Blank
<1> DEFINE r == [file |-> upload_current.file, at |-> Upload!Asked]
<1>4. r \in Upload!Requests /\ r.at \in {"ingest", "malformed"}
  BY DEF Upload!SurfaceInv, Upload!Requests, Upload!Asked
<1>5. upload_calls' = [upload_calls EXCEPT ![c] = r]
  BY <1>1
<1> HIDE DEF r
<1>6. /\ upload_calls' \in [UploadCalls -> Upload!Requests] /\ upload_calls'[c] = r
      /\ \A d \in UploadCalls : d # c => upload_calls'[d] = Upload!Idle
  BY <1>2, <1>4, <1>5 DEF Upload!SurfaceInv
<1>7. Upload!Idle.at = "idle"
  BY DEF Upload!Idle
<1>8. upload_current' \in [file : UploadFiles \cup {Upload!None}, bytes : UploadFiles \cup {Upload!None}]
  BY <1>1 DEF Upload!SurfaceInv
<1>9. Upload!SentIsOneFile'
  BY <1>1, <1>2 DEF Upload!SentIsOneFile, Upload!Posted
<1>10. Upload!UnmatchedIsChosen'
  BY <1>1, <1>2 DEF Upload!UnmatchedIsChosen, Upload!Posted
<1>11. QED
  BY <1>2, <1>3, <1>4, <1>6, <1>7, <1>8, <1>9, <1>10 DEF Upload!SurfaceInv

LEMMA SurfaceMoves ==
    Upload!SurfaceInv /\ (Upload!Next \/ UNCHANGED uploadVars) => Upload!SurfaceInv'
<1>1. ASSUME Upload!SurfaceInv, UNCHANGED uploadVars PROVE Upload!SurfaceInv'
  BY <1>1 DEF uploadVars, Upload!SurfaceInv, Upload!SentIsOneFile, Upload!UnmatchedIsChosen,
              Upload!Quiet
<1>2. QED
  BY <1>1, ReplyMoves, ChooseMoves, AlterMoves, CancelMoves, ConfirmMoves DEF Upload!Next

\* One open request is at most one ingestion.
LEMMA OneIngestion == Upload!SurfaceInv => Upload!OneIngestAtATime
<1> SUFFICES ASSUME Upload!SurfaceInv PROVE Upload!OneIngestAtATime
  OBVIOUS
<1> DEFINE S == {c \in UploadCalls : upload_calls[c].at \in {"ingest", "malformed"}}
<1>1. \A S1 : Upload!Cardinality(S1) = Cardinality(S1)
  BY DEF Upload!Cardinality, Cardinality
<1>2. \A c, d \in S : c = d
  BY DEF Upload!SurfaceInv, Upload!Idle
<1>3. S = {} \/ \E c \in S : S = {c}
  BY <1>2
<1> HIDE DEF S
<1>4. Cardinality(S) <= 1
  <2>1. CASE S = {}
    <3>1. Cardinality({}) = 0
      BY FS_EmptySet
    <3>2. QED
      BY <2>1, <3>1
  <2>2. ASSUME NEW c, S = {c} PROVE Cardinality(S) <= 1
    BY <2>2, FS_Singleton
  <2>3. QED
    BY <1>3, <2>1, <2>2
<1>5. QED
  BY <1>1, <1>4 DEF Upload!OneIngestAtATime, S

\* What is sent for ingestion is one file's name, bytes and mapping, with concepts that
\* matched exactly or were chosen, once a confirmation; and the address, the controls and
\* the links of a page all say the filter it shows (gl-upload.ts, gl-runtime.ts).
THEOREM PagesAlwaysSayWhatTheyHold == ServiceSpec => []PagesSayWhatTheyHold
<1> DEFINE Inv == /\ part = "upload" => Upload!SurfaceInv
                  /\ part = "filter" => Filter!FilterInv
<1>1. ServiceInit => Inv
  BY Starts, SurfaceBegins, FilterBegins
<1>2. Inv /\ [ServiceNext]_serviceVars => Inv'
  BY Moves, SurfaceMoves, FilterMoves
<1>3. Inv => PagesSayWhatTheyHold
  BY OneIngestion DEF PagesSayWhatTheyHold, Upload!SurfaceInv, Filter!FilterInv,
     Filter!AddressSaysWhatIsShown, Filter!ControlsShowTheFilter, Filter!NavigationCarriesTheFilter
<1>4. QED
  BY <1>1, <1>2, <1>3, PTL DEF ServiceSpec
=============================================================================
