----------------------- MODULE ProcurementClientProofs -----------------------
(***************************************************************************)
(* Proofs about ProcurementClient, for any number of callers, regions and  *)
(* notices, any page size and any allowance: the shared request of a       *)
(* region, the daily allowance, and what a successful listing holds.       *)
(***************************************************************************)
EXTENDS ProcurementClient, FiniteSetTheorems, SequenceTheorems, TLAPS

USE ConstantsAssumption

\* regionCalls names exactly the callers that ask, each under its key; whoever
\* waits for a region waits while somebody asks; a cache with a region has its key
\* in regionKeys.
LeadOK ==
    /\ \A c \in Caller : Asking(c) => key[c] \in Key /\ regionCalls[key[c]] = c
    /\ \A k \in Key : regionCalls[k] # None =>
           \E b \in Caller : b = regionCalls[k] /\ Asking(b) /\ key[b] = k
    /\ \A c \in Caller : pc[c] = "waiting" => key[c] \in Key /\ regionCalls[key[c]] # None

CacheOK == regions # {} => regionKeys # <<>>

\* The types in four parts, by what the actions change together.
WorldTypes ==
    /\ day \in Day
    /\ calls \in [Day -> 0 .. Limit]
    /\ sent \in Nat
    /\ list \in Seq(Item)

ClientTypes ==
    /\ regions \subseteq Key
    /\ regionKeys \in Seq(Key)
    /\ regionCalls \in [Key -> Caller \cup {None}]
    /\ lookups \in 0 .. LookupBudget

CallerTypes ==
    /\ pc \in [Caller -> {"idle", "take", "send", "reply", "waiting", "woken", "done"}]
    /\ op \in [Caller -> {"none", "region", "wait", "list"}]
    /\ key \in [Caller -> Key \cup {None}]
    /\ attempt \in [Caller -> 0 .. RetryAttempts - 1]
    /\ result \in [Caller -> {"none", "ok", "failed"}]

ListingTypes ==
    /\ page \in [Caller -> 0 .. MaxPages]
    /\ total \in [Caller -> Nat]
    /\ out \in [Caller -> [Item -> Nat]]
    /\ seen \in [Caller -> SUBSET Seq(Item)]
    /\ first \in [Caller -> Seq(Item)]
    /\ moved \in [Caller -> BOOLEAN]

LEMMA TypeParts == TypeOK <=> WorldTypes /\ ClientTypes /\ CallerTypes /\ ListingTypes
BY Zenon DEF TypeOK, WorldTypes, ClientTypes, CallerTypes, ListingTypes

\* A function over S keeps its type when one value is replaced.
LEMMA UpdateType ==
    ASSUME NEW S, NEW T, NEW f \in [S -> T], NEW x, NEW v \in T
    PROVE  [f EXCEPT ![x] = v] \in [S -> T]
OBVIOUS

\* What Append returns.
LEMMA AppendKeeps ==
    ASSUME NEW S, NEW s \in Seq(S), NEW x \in S
    PROVE  Append(s, x) \in Seq(S) /\ Append(s, x) # <<>>
<1>1. Append(s, x) \in Seq(S) /\ Len(Append(s, x)) = Len(s) + 1
    OBVIOUS
<1>2. Len(<<>>) = 0 /\ Len(s) \in Nat
    OBVIOUS
<1>3. QED
    BY <1>1, <1>2

LEMMA Zeros == /\ 0 \in 0 .. RetryAttempts - 1 /\ 0 \in 0 .. MaxPages /\ 1 \in 0 .. MaxPages
               /\ 0 \in 0 .. LookupBudget /\ 0 \in Nat /\ 1 \in Day /\ <<>> \in Seq(Item)
               /\ <<>> \in Seq(Key) /\ Nothing \in [Item -> Nat]
BY DEF Day, Nothing

\* The first states satisfy the invariants.
LEMMA InitTypes == Init => TypeOK /\ LeadOK /\ CacheOK
<1> SUFFICES ASSUME Init PROVE TypeOK /\ LeadOK /\ CacheOK
    OBVIOUS
<1>1. WorldTypes
    BY Zeros DEF Init, WorldTypes
<1>2. ClientTypes
    BY Zeros DEF Init, ClientTypes
<1>3. CallerTypes
    BY Zeros DEF Init, CallerTypes
<1>4. ListingTypes
    BY Zeros, Zenon DEF Init, ListingTypes
<1>5. LeadOK /\ CacheOK
    BY DEF Init, LeadOK, Asking, CacheOK
<1>6. QED
    BY <1>1, <1>2, <1>3, <1>4, <1>5, TypeParts

-----------------------------------------------------------------------------
\* The allowance and the service's list.
LEMMA WorldStep == TypeOK /\ Next => WorldTypes'
<1> SUFFICES ASSUME TypeOK, WorldTypes, CallerTypes, Next PROVE WorldTypes'
    BY TypeParts
<1>1. CASE UNCHANGED shared
    BY <1>1 DEF shared, WorldTypes
<1>2. ASSUME NEW c \in Caller, Take(c) PROVE WorldTypes'
    BY <1>2, SMTT(30) DEF Take, Allowed, WorldTypes
<1>3. ASSUME NEW c \in Caller, Send(c) PROVE WorldTypes'
    BY <1>3 DEF Send, WorldTypes
<1>4. CASE Midnight
    BY <1>4 DEF Midnight, WorldTypes, Day
<1>5. ASSUME NEW atFront \in BOOLEAN, Publish(atFront) PROVE WorldTypes'
  <2>1. Len(list) + 1 \in Item
    BY <1>5 DEF Publish, WorldTypes, Item
  <2>2. list' \in Seq(Item)
    BY <1>5, <2>1 DEF Publish, WorldTypes
  <2>3. QED
    BY <1>5, <2>2 DEF Publish, WorldTypes
<1>6. ASSUME NEW c \in Caller, Start(c) \/ Step(c) \/ WaiterGivesUp(c) PROVE WorldTypes'
  <2>1. UNCHANGED shared \/ Take(c) \/ Send(c)
    BY <1>6, Zenon DEF Start, LookupHit, LookupJoins, LookupRefused, LookupLeads, StartList, Step, TakeFails,
            Retry, RequestFails, RegionArrives, Failed, EndLookup, EndList, PageArrives, WaiterReturns,
            Return, WaiterGivesUp
  <2>2. QED
    BY <1>1, <1>2, <1>3, <1>6, <2>1
<1>7. QED
    BY <1>1, <1>4, <1>5, <1>6 DEF Next, Crash

\* The end of a lookup, of a caller that asks.
LEMMA EndLookupType ==
    ASSUME ClientTypes, CallerTypes, LeadOK, CacheOK, NEW c \in Caller, Asking(c), NEW ok \in BOOLEAN,
           EndLookup(c, ok)
    PROVE  ClientTypes' /\ CallerTypes' /\ CacheOK'
<1>1. key[c] \in Key
    BY DEF LeadOK
<1>2. CASE Cardinality(regions) >= CacheLimit /\ CacheRegion(key[c])
  <2>1. regions # {}
    BY <1>2, FS_EmptySet
  <2>2. regionKeys # <<>>
    BY <2>1 DEF CacheOK
  <2>0. regions' = (regions \ {Head(regionKeys)}) \cup {key[c]} /\ regionKeys' = Append(Tail(regionKeys), key[c])
    BY <1>2, Zenon DEF CacheRegion
  <2>5. Tail(regionKeys) \in Seq(Key)
    BY <2>2 DEF ClientTypes
  <2>3. regions' \subseteq Key /\ regionKeys' \in Seq(Key) /\ regionKeys' # <<>>
    BY <1>1, <2>0, <2>5, AppendKeeps DEF ClientTypes
  <2>4. QED
    BY <1>1, <2>3 DEF EndLookup, ClientTypes, CallerTypes, CacheOK
<1>3. CASE ~(Cardinality(regions) >= CacheLimit) /\ CacheRegion(key[c])
  <2>0. regions' = regions \cup {key[c]} /\ regionKeys' = Append(regionKeys, key[c])
    BY <1>3, Zenon DEF CacheRegion
  <2>1. regions' \subseteq Key /\ regionKeys' \in Seq(Key) /\ regionKeys' # <<>>
    BY <1>1, <2>0, AppendKeeps DEF ClientTypes
  <2>2. QED
    BY <1>1, <2>1 DEF EndLookup, ClientTypes, CallerTypes, CacheOK
<1>4. CASE UNCHANGED <<regions, regionKeys>>
    BY <1>1, <1>4 DEF EndLookup, ClientTypes, CallerTypes, CacheOK
<1>5. QED
    BY <1>2, <1>3, <1>4 DEF EndLookup

\* The Client.
LEMMA ClientStep == TypeOK /\ LeadOK /\ CacheOK /\ Next => ClientTypes' /\ CallerTypes' /\ CacheOK'
<1> DEFINE Goal == ClientTypes' /\ CallerTypes' /\ CacheOK'
<1> SUFFICES ASSUME TypeOK, ClientTypes, CallerTypes, ListingTypes, LeadOK, CacheOK, Next PROVE Goal
    BY TypeParts
<1>1. ASSUME CallerTypes', UNCHANGED <<regions, regionKeys, regionCalls, lookups>> PROVE Goal
    BY <1>1 DEF ClientTypes, CacheOK
<1>2. ASSUME NEW c \in Caller, Start(c) PROVE Goal
  <2>1. ASSUME NEW k \in Key, LookupHit(c, k) \/ LookupJoins(c, k) \/ LookupRefused(c, k) PROVE Goal
    <3>1. CallerTypes'
        BY <2>1 DEF LookupHit, LookupJoins, LookupRefused, Enter, CallerTypes
    <3>2. QED
        BY <1>1, <2>1, <3>1 DEF LookupHit, LookupJoins, LookupRefused, client
  <2>2. ASSUME NEW k \in Key, LookupLeads(c, k) PROVE Goal
    <3>1. CallerTypes'
        BY <2>2, Zeros DEF LookupLeads, Enter, CallerTypes
    <3>2. ClientTypes' /\ CacheOK'
        BY <2>2 DEF LookupLeads, ClientTypes, CacheOK
    <3>3. QED
        BY <3>1, <3>2
  <2>3. CASE StartList(c)
    <3>1. CallerTypes'
        BY <2>3, Zeros DEF StartList, Enter, CallerTypes
    <3>2. QED
        BY <1>1, <2>3, <3>1 DEF StartList, client
  <2>4. QED
    BY <1>2, <2>1, <2>2, <2>3, Zenon DEF Start
<1>3. ASSUME NEW c \in Caller, Asking(c), NEW ok \in BOOLEAN, EndLookup(c, ok) PROVE Goal
    BY <1>3, EndLookupType
<1>4. ASSUME NEW c \in Caller, EndList(c, "failed") PROVE Goal
  <2>1. CallerTypes'
    BY <1>4 DEF EndList, CallerTypes
  <2>2. QED
    BY <1>1, <1>4, <2>1 DEF EndList, client
<1>5. ASSUME NEW c \in Caller, TakeFails(c) \/ RequestFails(c) \/ RegionArrives(c) PROVE Goal
    BY <1>3, <1>4, <1>5 DEF TakeFails, RequestFails, RegionArrives, Failed, Asking
<1>6. ASSUME NEW c \in Caller, Take(c) \/ Send(c) \/ Retry(c) PROVE Goal
  <2>1. CallerTypes'
    BY <1>6 DEF Take, Send, Retry, CallerTypes
  <2>2. QED
    BY <1>1, <1>6, <2>1 DEF Take, Send, Retry, client
<1>7. ASSUME NEW c \in Caller, NEW items, PageArrives(c, items) PROVE Goal
  <2>1. /\ \/ pc' = [pc EXCEPT ![c] = "done"]
           \/ pc' = [pc EXCEPT ![c] = "take"]
        /\ \/ result' = result
           \/ result' = [result EXCEPT ![c] = "failed"]
           \/ result' = [result EXCEPT ![c] = "ok"]
        /\ attempt' = attempt \/ attempt' = [attempt EXCEPT ![c] = 0]
        /\ op' = op /\ key' = key
    BY <1>7 DEF PageArrives
  <2>3. CallerTypes'
    BY <2>1, Zeros, UpdateType DEF CallerTypes
  <2>2. QED
    BY <1>1, <1>7, <2>3 DEF PageArrives, client
<1>8. ASSUME NEW c \in Caller, WaiterReturns(c) \/ WaiterGivesUp(c) \/ Return(c) PROVE Goal
  <2>1. /\ pc' = [pc EXCEPT ![c] = "done"] \/ pc' = [pc EXCEPT ![c] = "idle"]
        /\ \/ result' = result
           \/ result' = [result EXCEPT ![c] = "failed"]
           \/ result' = [result EXCEPT ![c] = "none"]
        /\ attempt' = attempt \/ attempt' = [attempt EXCEPT ![c] = 0]
        /\ op' = op \/ op' = [op EXCEPT ![c] = "none"]
        /\ key' = key \/ key' = [key EXCEPT ![c] = None]
    BY <1>8, Zenon DEF WaiterReturns, WaiterGivesUp, Return
  <2>3. CallerTypes'
    BY <2>1, Zeros, UpdateType DEF CallerTypes
  <2>2. QED
    BY <1>1, <1>8, <2>3 DEF WaiterReturns, WaiterGivesUp, Return, client
<1>9. CASE Midnight \/ \E atFront \in BOOLEAN : Publish(atFront)
  <2>1. CallerTypes'
    BY <1>9 DEF Midnight, Publish, CallerTypes
  <2>2. QED
    BY <1>1, <1>9, <2>1 DEF Midnight, Publish, client
<1>10. CASE Crash
  <2>1. CallerTypes'
    BY <1>10, Zeros DEF Crash, CallerTypes
  <2>2. ClientTypes' /\ CacheOK'
    BY <1>10, Zeros DEF Crash, ClientTypes, CacheOK
  <2>3. QED
    BY <2>1, <2>2
<1> HIDE DEF Goal
<1>11. ASSUME NEW c \in Caller, Start(c) \/ Step(c) \/ WaiterGivesUp(c) PROVE Goal
    BY <1>2, <1>5, <1>6, <1>7, <1>8, <1>11, Zenon DEF Step
<1>12. QED
    BY <1>9, <1>10, <1>11 DEF Next

-----------------------------------------------------------------------------
(***************************************************************************)
(* One request per region.                                                 *)
(***************************************************************************)

\* A step in which nobody begins or ends a lookup or starts to wait keeps it.
LEMMA QuietKeepsLead ==
    ASSUME LeadOK, regionCalls' = regionCalls,
           \A c \in Caller : /\ Asking(c)' <=> Asking(c)
                             /\ Asking(c) => key'[c] = key[c]
                             /\ pc'[c] = "waiting" => pc[c] = "waiting" /\ key'[c] = key[c]
    PROVE  LeadOK'
<1>1. \A c \in Caller : Asking(c)' => key'[c] \in Key /\ regionCalls'[key'[c]] = c
    BY DEF LeadOK
<1>2. ASSUME NEW k \in Key, regionCalls'[k] # None
      PROVE  \E b \in Caller : b = regionCalls'[k] /\ Asking(b)' /\ key'[b] = k
    <2>1. PICK b \in Caller : b = regionCalls[k] /\ Asking(b) /\ key[b] = k
        BY <1>2 DEF LeadOK
    <2>2. Asking(b)' /\ key'[b] = k /\ regionCalls'[k] = b
        BY <2>1
    <2>3. QED
        BY <2>1, <2>2
<1>3. \A c \in Caller : pc'[c] = "waiting" => key'[c] \in Key /\ regionCalls'[key'[c]] # None
    BY DEF LeadOK
<1>4. QED
    BY <1>1, <1>2, <1>3, Zenon DEF LeadOK

\* Nobody else asks for the region of the lookup that ends, and its waiters are
\* woken with it.
LEMMA EndLookupKeepsLead ==
    ASSUME ClientTypes, CallerTypes, LeadOK, NEW c \in Caller, Asking(c), NEW ok, EndLookup(c, ok)
    PROVE  LeadOK'
<1> DEFINE k == key[c]
<1>1. k \in Key /\ regionCalls[k] = c
    BY DEF LeadOK
<1>2. /\ key' = key /\ op' = op
      /\ regionCalls' = [regionCalls EXCEPT ![k] = None]
      /\ pc' = [w \in Caller |-> IF w = c THEN "done" ELSE IF w \in Woken(k) THEN "woken" ELSE pc[w]]
    BY Zenon DEF EndLookup
<1>3. \A b \in Caller : Asking(b)' <=> Asking(b) /\ b # c
    BY <1>2 DEF Asking, CallerTypes, Woken
<1>4. ASSUME NEW b \in Caller, Asking(b)' PROVE key'[b] \in Key /\ regionCalls'[key'[b]] = b
    BY <1>1, <1>2, <1>3, <1>4 DEF LeadOK, ClientTypes
<1>5. ASSUME NEW j \in Key, regionCalls'[j] # None
      PROVE  \E b \in Caller : b = regionCalls'[j] /\ Asking(b)' /\ key'[b] = j
    <2>1. j # k /\ regionCalls'[j] = regionCalls[j]
        BY <1>1, <1>2, <1>5 DEF ClientTypes
    <2>2. PICK b \in Caller : b = regionCalls[j] /\ Asking(b) /\ key[b] = j
        BY <1>5, <2>1 DEF LeadOK
    <2>3. Asking(b)' /\ regionCalls'[j] = b /\ key'[b] = j
        BY <1>2, <1>3, <2>1, <2>2
    <2>4. QED
        BY <2>2, <2>3
<1>6. ASSUME NEW w \in Caller, pc'[w] = "waiting" PROVE key'[w] \in Key /\ regionCalls'[key'[w]] # None
    <2>1. pc[w] = "waiting" /\ key[w] # k
        BY <1>2, <1>6 DEF Woken, CallerTypes
    <2>2. QED
        BY <1>1, <1>2, <2>1 DEF LeadOK, ClientTypes
<1>7. QED
    BY <1>4, <1>5, <1>6, Zenon DEF LeadOK

LEMMA JoinKeepsLead ==
    ASSUME ClientTypes, CallerTypes, LeadOK, NEW c \in Caller, NEW k \in Key, LookupJoins(c, k)
    PROVE  LeadOK'
<1>1. /\ pc[c] = "idle" /\ regionCalls[k] # None
      /\ key' = [key EXCEPT ![c] = k] /\ op' = [op EXCEPT ![c] = "wait"]
      /\ pc' = [pc EXCEPT ![c] = "waiting"] /\ regionCalls' = regionCalls
    BY Zenon DEF LookupJoins, Enter, Pending, client
<1>2. \A b \in Caller : /\ Asking(b)' <=> Asking(b)
                        /\ Asking(b) => b # c /\ key'[b] = key[b]
    BY <1>1 DEF Asking, CallerTypes
<1>3. \A b \in Caller : Asking(b)' => key'[b] \in Key /\ regionCalls'[key'[b]] = b
    BY <1>1, <1>2 DEF LeadOK
<1>4. ASSUME NEW j \in Key, regionCalls'[j] # None
      PROVE  \E b \in Caller : b = regionCalls'[j] /\ Asking(b)' /\ key'[b] = j
    <2>1. PICK b \in Caller : b = regionCalls[j] /\ Asking(b) /\ key[b] = j
        BY <1>1, <1>4 DEF LeadOK
    <2>2. Asking(b)' /\ regionCalls'[j] = b /\ key'[b] = j
        BY <1>1, <1>2, <2>1
    <2>3. QED
        BY <2>1, <2>2
<1>5. ASSUME NEW w \in Caller, pc'[w] = "waiting" PROVE key'[w] \in Key /\ regionCalls'[key'[w]] # None
    <2>1. CASE w = c
        BY <1>1, <2>1 DEF CallerTypes
    <2>2. CASE w # c
        BY <1>1, <1>5, <2>2 DEF CallerTypes, LeadOK
    <2>3. QED
        BY <2>1, <2>2
<1>6. QED
    BY <1>3, <1>4, <1>5, Zenon DEF LeadOK

LEMMA LeadKeepsLead ==
    ASSUME ClientTypes, CallerTypes, LeadOK, NEW c \in Caller, NEW k \in Key, LookupLeads(c, k)
    PROVE  LeadOK'
<1>1. /\ pc[c] = "idle" /\ regionCalls[k] = None
      /\ key' = [key EXCEPT ![c] = k] /\ op' = [op EXCEPT ![c] = "region"]
      /\ pc' = [pc EXCEPT ![c] = "take"] /\ regionCalls' = [regionCalls EXCEPT ![k] = c]
    BY Zenon DEF LookupLeads, Enter, Pending
<1>2. \A b \in Caller : Asking(b) => b # c
    BY <1>1 DEF Asking
<1>3. \A b \in Caller : b # c => (Asking(b)' <=> Asking(b)) /\ key'[b] = key[b] /\ pc'[b] = pc[b]
    BY <1>1 DEF Asking, CallerTypes
<1>4. Asking(c)' /\ key'[c] = k /\ regionCalls'[k] = c /\ pc'[c] # "waiting"
    BY <1>1 DEF Asking, CallerTypes, ClientTypes
<1>5. ASSUME NEW b \in Caller, Asking(b)' PROVE key'[b] \in Key /\ regionCalls'[key'[b]] = b
    <2>1. CASE b = c
        BY <1>4, <2>1
    <2>2. CASE b # c
      <3>1. key[b] \in Key /\ regionCalls[key[b]] = b /\ key'[b] = key[b]
        BY <1>3, <1>5, <2>2 DEF LeadOK
      <3>2. key[b] # k
        BY <1>1, <3>1
      <3>3. QED
        BY <1>1, <3>1, <3>2 DEF ClientTypes
    <2>3. QED
        BY <2>1, <2>2
<1>6. ASSUME NEW j \in Key, regionCalls'[j] # None
      PROVE  \E b \in Caller : b = regionCalls'[j] /\ Asking(b)' /\ key'[b] = j
    <2>1. CASE j = k
        BY <1>4, <2>1
    <2>2. CASE j # k
      <3>1. regionCalls'[j] = regionCalls[j]
        BY <1>1, <2>2 DEF ClientTypes
      <3>2. PICK b \in Caller : b = regionCalls[j] /\ Asking(b) /\ key[b] = j
        BY <1>6, <3>1 DEF LeadOK
      <3>3. Asking(b)' /\ regionCalls'[j] = b /\ key'[b] = j
        BY <1>2, <1>3, <3>1, <3>2
      <3>4. QED
        BY <3>2, <3>3
    <2>3. QED
        BY <2>1, <2>2
<1>7. ASSUME NEW w \in Caller, pc'[w] = "waiting" PROVE key'[w] \in Key /\ regionCalls'[key'[w]] # None
    <2>1. key'[w] \in Key /\ regionCalls[key'[w]] # None
        BY <1>3, <1>4, <1>7 DEF LeadOK
    <2>2. QED
        BY <1>1, <2>1 DEF ClientTypes
<1>8. QED
    BY <1>5, <1>6, <1>7, Zenon DEF LeadOK

LEMMA LeadStep == TypeOK /\ LeadOK /\ Next => LeadOK'
<1> SUFFICES ASSUME ClientTypes, CallerTypes, LeadOK, Next PROVE LeadOK'
    BY TypeParts
<1>1. ASSUME NEW c \in Caller, NEW l, NEW o, pc' = [pc EXCEPT ![c] = l], op' = [op EXCEPT ![c] = o],
             \A b \in Caller : b # c => key'[b] = key[b],
             ~Asking(c), o # "region" \/ l \notin {"take", "send", "reply"}, l # "waiting",
             regionCalls' = regionCalls
      PROVE  LeadOK'
  <2>1. \A b \in Caller : /\ Asking(b)' <=> Asking(b)
                          /\ Asking(b) => key'[b] = key[b]
                          /\ pc'[b] = "waiting" => pc[b] = "waiting" /\ key'[b] = key[b]
    BY <1>1 DEF Asking, CallerTypes
  <2>2. QED
    BY <1>1, <2>1, QuietKeepsLead
<1>2. ASSUME NEW c \in Caller, NEW k \in Key, LookupHit(c, k) \/ LookupRefused(c, k) PROVE LeadOK'
    BY <1>1, <1>2 DEF LookupHit, LookupRefused, Enter, client, Asking, CallerTypes
<1>3. ASSUME NEW c \in Caller, StartList(c) PROVE LeadOK'
    BY <1>1, <1>3 DEF StartList, Enter, client, Asking, CallerTypes
<1>4. ASSUME NEW c \in Caller, Start(c) PROVE LeadOK'
    BY <1>2, <1>3, <1>4, JoinKeepsLead, LeadKeepsLead, Zenon DEF Start
<1>5. ASSUME NEW c \in Caller, Take(c) \/ Send(c) \/ Retry(c) PROVE LeadOK'
  <2>1. /\ \E l \in {"take", "send", "reply"} : pc' = [pc EXCEPT ![c] = l]
        /\ pc[c] \in {"take", "send", "reply"}
        /\ op' = op /\ key' = key /\ regionCalls' = regionCalls
    BY <1>5 DEF Take, Send, Retry, client
  <2>2. \A b \in Caller : /\ Asking(b)' <=> Asking(b)
                          /\ Asking(b) => key'[b] = key[b]
                          /\ pc'[b] = "waiting" => pc[b] = "waiting" /\ key'[b] = key[b]
    BY <2>1 DEF Asking, CallerTypes
  <2>3. QED
    BY <2>1, <2>2, QuietKeepsLead
<1>6. ASSUME NEW c \in Caller, op[c] = "list", NEW l \in {"take", "done"}, pc' = [pc EXCEPT ![c] = l],
             UNCHANGED <<op, key, regionCalls>>
      PROVE  LeadOK'
  <2>1. op' = [op EXCEPT ![c] = "list"]
    BY <1>6 DEF CallerTypes
  <2>2. QED
    BY <1>1, <1>6, <2>1 DEF Asking
<1>7. ASSUME NEW c \in Caller, op[c] = "list", \E items \in Answers(c) : PageArrives(c, items) PROVE LeadOK'
  <2>1. \E l \in {"take", "done"} : pc' = [pc EXCEPT ![c] = l]
    BY <1>7 DEF PageArrives
  <2>2. UNCHANGED <<op, key, regionCalls>>
    BY <1>7 DEF PageArrives, client
  <2>3. QED
    BY <1>6, <1>7, <2>1, <2>2
<1>8. ASSUME NEW c \in Caller, TakeFails(c) \/ RequestFails(c) \/ RegionArrives(c) PROVE LeadOK'
  <2>1. CASE op[c] = "list" /\ EndList(c, "failed")
    BY <1>6, <2>1 DEF EndList, client
  <2>2. CASE Asking(c) /\ \E ok \in BOOLEAN : EndLookup(c, ok)
    BY <2>2, EndLookupKeepsLead
  <2>3. QED
    BY <1>8, <2>1, <2>2 DEF TakeFails, RequestFails, RegionArrives, Failed, Asking
<1>9. ASSUME NEW c \in Caller, WaiterReturns(c) \/ WaiterGivesUp(c) PROVE LeadOK'
  <2>1. op' = [op EXCEPT ![c] = op[c]] /\ key' = key /\ pc' = [pc EXCEPT ![c] = "done"]
        /\ regionCalls' = regionCalls /\ ~Asking(c)
    BY <1>9 DEF WaiterReturns, WaiterGivesUp, client, CallerTypes, Asking
  <2>2. QED
    BY <1>1, <2>1
<1>10. ASSUME NEW c \in Caller, Return(c) PROVE LeadOK'
    BY <1>1, <1>10 DEF Return, client, Asking, CallerTypes
<1>11. CASE Midnight \/ \E atFront \in BOOLEAN : Publish(atFront)
  <2>1. UNCHANGED <<pc, op, key, regionCalls>>
    BY <1>11 DEF Midnight, Publish, client
  <2>2. QED
    BY <2>1, QuietKeepsLead DEF Asking
<1>12. CASE Crash
    BY <1>12 DEF Crash, LeadOK, Asking
<1>13. ASSUME NEW c \in Caller, Start(c) \/ Step(c) \/ WaiterGivesUp(c) PROVE LeadOK'
    BY <1>4, <1>5, <1>7, <1>8, <1>9, <1>10, <1>13, Zenon DEF Step
<1>14. QED
    BY <1>11, <1>12, <1>13 DEF Next

-----------------------------------------------------------------------------
(***************************************************************************)
(* Listings.  While a listing runs, the list still begins with the notices *)
(* of its first page (unless something was published in front of it), and  *)
(* the result has every well-formed one of the pages before this one, once.*)
(***************************************************************************)

InFlight(c) == pc[c] \in {"take", "send", "reply"}

\* No notice is on the service's list twice.
ListOK ==
    /\ \A i \in 1 .. Len(list) : list[i] \in 1 .. Len(list)
    /\ \A i, j \in 1 .. Len(list) : list[i] = list[j] => i = j

Before(c) == (page[c] - 1) * PageSize

\* Of the notices of f, o has the first m, once each.
Collects(o, f, m) ==
    \A i \in 1 .. Len(f) : o[f[i]] = IF f[i] \in Malformed \/ i > m THEN 0 ELSE 1

StartsWith(s, f) == Len(f) <= Len(s) /\ \A i \in 1 .. Len(f) : f[i] = s[i]

PagesOK(c) ==
    /\ pc[c] = "idle" => out[c] = Nothing
    /\ pc[c] \in {"waiting", "woken"} => op[c] # "list"
    /\ op[c] = "list" /\ InFlight(c) =>
           /\ page[c] >= 1
           /\ page[c] = 1 => out[c] = Nothing
           /\ page[c] > 1 /\ ~moved[c] =>
                  /\ StartsWith(list, first[c])
                  /\ total[c] = Len(first[c])
                  /\ Before(c) < total[c]
                  /\ Collects(out[c], first[c], Before(c))
    /\ pc[c] = "done" /\ op[c] = "list" /\ result[c] = "ok" /\ ~moved[c] =>
           Collects(out[c], first[c], Len(first[c]))

ListingInv == ListOK /\ \A c \in Caller : PagesOK(c)

\* The items before a page.
LEMMA PageBounds ==
    ASSUME NEW p \in Nat, p >= 1
    PROVE  /\ (p - 1) * PageSize \in Nat
           /\ p * PageSize = (p - 1) * PageSize + PageSize
           /\ p = 1 => (p - 1) * PageSize = 0
<1>1. PageSize \in Nat /\ p - 1 \in Nat
    OBVIOUS
<1>2. \A a, b \in Nat : a * b \in Nat /\ (a + 1) * b = a * b + b /\ 0 * b = 0
    OBVIOUS
<1>3. (p - 1) + 1 = p
    OBVIOUS
<1>4. QED
    BY <1>1, <1>2, <1>3

\* What a fresh answer is: a run of the list that begins behind the first m.
PageFrom(m, items) ==
    /\ items \in Seq(Item)
    /\ Len(items) <= PageSize
    /\ m <= Len(list) => m + Len(items) <= Len(list)
    /\ \A i \in 1 .. Len(items) : items[i] = list[m + i] /\ m + i <= Len(list)

LEMMA AnswerIsPage ==
    ASSUME list \in Seq(Item), NEW c \in Caller, page[c] \in Nat, page[c] >= 1,
           NEW items \in Answers(c), items \notin seen[c]
    PROVE  PageFrom(Before(c), items)
<1> DEFINE m == Before(c)
           e == Clamp(m + PageSize, 0, Len(list))
           a == m + 1
           full == SubSeq(list, a, e)
<1>1. m \in Nat
    BY PageBounds DEF Before
<1>2. e \in Nat /\ e <= Len(list) /\ e <= m + PageSize /\ (m <= Len(list) => m <= e)
    BY <1>1 DEF Clamp
<1>3. PICK n \in 0 .. Len(full) : items = SubSeq(full, 1, n)
    BY Zenon DEF Answers, Before
<1> HIDE DEF m, e
<1>4. \A i \in a .. e : list[i] \in Item
    BY <1>1, <1>2
<1>5. /\ full \in Seq(Item)
      /\ Len(full) = IF m + 1 <= e THEN e - m ELSE 0
      /\ \A i \in 1 .. e - m : full[i] = list[m + i]
  <2>1. a \in Int /\ e \in Int
    BY <1>1, <1>2
  <2>0. a = m + 1
    OBVIOUS
  <2> HIDE DEF a
  <2>2. /\ full \in Seq(Item)
        /\ Len(full) = IF a <= e THEN e - a + 1 ELSE 0
        /\ \A i \in 1 .. e - a + 1 : full[i] = list[a + i - 1]
    BY <1>4, <2>1, SubSeqProperties
  <2>3. e - a + 1 = e - m /\ (a <= e <=> m + 1 <= e)
    BY <1>1, <1>2, <2>0
  <2>4. \A i \in 1 .. e - m : full[i] = list[m + i]
    <3> SUFFICES ASSUME NEW i \in 1 .. e - m PROVE full[i] = list[m + i]
        OBVIOUS
    <3>1. a + i - 1 = m + i
        BY <1>1, <2>0
    <3>2. QED
        BY <2>2, <2>3, <3>1
  <2>5. QED
    BY <2>2, <2>3, <2>4
<1> HIDE DEF full
<1>6. Len(full) \in Nat
    BY <1>5
<1>7. \A i \in 1 .. n : full[i] \in Item
    BY <1>3, <1>5, <1>6
<1>8. /\ items \in Seq(Item)
      /\ Len(items) = n
      /\ \A i \in 1 .. n : items[i] = full[i]
  <2>1. /\ items \in Seq(Item)
        /\ Len(items) = IF 1 <= n THEN n - 1 + 1 ELSE 0
        /\ \A i \in 1 .. n - 1 + 1 : items[i] = full[1 + i - 1]
    BY <1>3, <1>6, <1>7, SubSeqProperties
  <2>2. n \in Nat /\ n - 1 + 1 = n
    BY <1>3, <1>6
  <2>3. \A i \in 1 .. n : 1 + i - 1 = i
    BY <2>2
  <2>4. QED
    BY <2>1, <2>2, <2>3
<1>9. n \in Nat /\ n <= Len(full)
    BY <1>3, <1>6
<1>10. Len(items) <= PageSize /\ (m <= Len(list) => m + Len(items) <= Len(list))
  <2>1. Len(full) = IF m + 1 <= e THEN e - m ELSE 0
    BY <1>5
  <2>2. PageSize \in Nat /\ Len(list) \in Nat
    OBVIOUS
  <2>3. n <= PageSize /\ (m <= Len(list) => m + n <= Len(list))
    BY <1>1, <1>2, <1>9, <2>1, <2>2
  <2>4. QED
    BY <1>8, <2>3
<1>11. \A i \in 1 .. n : items[i] = list[m + i] /\ m + i <= Len(list)
  <2> SUFFICES ASSUME NEW i \in 1 .. n PROVE items[i] = list[m + i] /\ m + i <= Len(list)
    OBVIOUS
  <2>1. i \in 1 .. e - m
    BY <1>1, <1>2, <1>5, <1>9
  <2>2. items[i] = full[i] /\ full[i] = list[m + i]
    BY <1>5, <1>8, <2>1
  <2>3. Len(list) \in Nat
    OBVIOUS
  <2>4. m + i <= Len(list)
    BY <1>1, <1>2, <2>1, <2>3
  <2>5. QED
    BY <2>2, <2>4
<1>12. QED
    BY <1>8, <1>10, <1>11 DEF PageFrom, m

\* A notice is on a page once, if it is on that page at all.
LEMMA CountOnPage ==
    ASSUME list \in Seq(Item), ListOK, NEW m \in Nat, m <= Len(list), NEW items, PageFrom(m, items),
           NEW j \in 1 .. Len(list)
    PROVE  Times(items, list[j]) = IF m < j /\ j <= m + Len(items) THEN 1 ELSE 0
<1> DEFINE P == {i \in 1 .. Len(items) : items[i] = list[j]}
<1>1. Len(items) \in Nat
    BY DEF PageFrom
<1>2. \A i \in 1 .. Len(items) : items[i] = list[j] <=> m + i = j
  <2> SUFFICES ASSUME NEW i \in 1 .. Len(items) PROVE items[i] = list[j] <=> m + i = j
    OBVIOUS
  <2>1. items[i] = list[m + i] /\ m + i \in 1 .. Len(list)
    BY <1>1, SMTT(30) DEF PageFrom
  <2>2. QED
    BY <2>1 DEF ListOK
<1>3. CASE m < j /\ j <= m + Len(items)
  <2>1. j - m \in 1 .. Len(items)
    BY <1>1, <1>3
  <2>2. \A i \in 1 .. Len(items) : m + i = j <=> i = j - m
    BY <1>1, SMTT(30)
  <2>3. P = {j - m}
    BY <1>2, <2>1, <2>2
  <2>4. Cardinality(P) = 1
    BY <2>3, FS_Singleton
  <2>5. QED
    BY <1>3, <2>4 DEF Times
<1>4. CASE ~(m < j /\ j <= m + Len(items))
  <2>1. \A i \in 1 .. Len(items) : m + i # j
    BY <1>1, <1>4
  <2>2. P = {}
    BY <1>2, <2>1
  <2>3. Cardinality(P) = 0
    BY <2>2, FS_EmptySet
  <2>4. QED
    BY <1>4, <2>3 DEF Times
<1>5. QED
    BY <1>3, <1>4

\* Adding the next page.
LEMMA NextPageCollects ==
    ASSUME list \in Seq(Item), ListOK, NEW m \in Nat, m <= Len(list), NEW items, PageFrom(m, items),
           NEW f \in Seq(Item), StartsWith(list, f), NEW o \in [Item -> Nat], Collects(o, f, m)
    PROVE  Collects(WithItems(o, items), f, m + Len(items))
<1> SUFFICES ASSUME NEW j \in 1 .. Len(f)
             PROVE  WithItems(o, items)[f[j]] = IF f[j] \in Malformed \/ j > m + Len(items) THEN 0 ELSE 1
    BY DEF Collects
<1> DEFINE n == Times(items, f[j])
<1>1. f[j] \in Item /\ f[j] = list[j] /\ j \in 1 .. Len(list)
  <2>1. f[j] \in Item
    OBVIOUS
  <2>2. f[j] = list[j] /\ Len(f) <= Len(list)
    BY Zenon DEF StartsWith
  <2>3. Len(f) \in Nat /\ Len(list) \in Nat
    BY SMTT(30)
  <2>4. QED
    BY <2>1, <2>2, <2>3
<1>2. n = IF m < j /\ j <= m + Len(items) THEN 1 ELSE 0
    BY <1>1, CountOnPage
<1>3. WithItems(o, items)[f[j]] = IF f[j] \in Malformed THEN o[f[j]] ELSE o[f[j]] + n
    BY <1>1, Zenon DEF WithItems
<1>4. o[f[j]] = IF f[j] \in Malformed \/ j > m THEN 0 ELSE 1
    BY DEF Collects
<1>5. Len(items) \in Nat
    BY DEF PageFrom
<1>6. j \in Nat /\ m \in Nat
    BY <1>1
<1> DEFINE r == WithItems(o, items)[f[j]]
           k == o[f[j]]
<1> HIDE DEF n, r, k
<1>7. ASSUME r = k + n, k = IF j > m THEN 0 ELSE 1
      PROVE  r = IF j > m + Len(items) THEN 0 ELSE 1
    BY <1>2, <1>5, <1>6, <1>7, SMTT(30)
<1>8. QED
    BY <1>3, <1>4, <1>7 DEF r, k

\* The list grows at either end by a notice that is not on it.
LEMMA ListStep == TypeOK /\ ListOK /\ Next => ListOK'
<1> SUFFICES ASSUME list \in Seq(Item), ListOK, Next PROVE ListOK'
    BY DEF TypeOK
<1>1. CASE UNCHANGED list
    BY <1>1 DEF ListOK
<1>2. ASSUME NEW atFront \in BOOLEAN, Publish(atFront) PROVE ListOK'
  <2> DEFINE n == Len(list)
  <2>1. n \in Nat /\ n + 1 \in Item
    BY <1>2 DEF Publish, Item
  <2>2. CASE list' = <<n + 1>> \o list
    <3>1. Len(list') = n + 1 /\ list'[1] = n + 1
        BY <2>1, <2>2
    <3>2. \A i \in 1 .. n + 1 : i > 1 => i - 1 \in 1 .. n /\ list'[i] = list[i - 1]
        BY <2>1, <2>2
    <3> HIDE DEF n
    <3>3. \A i \in 1 .. n : list[i] \in 1 .. n
        BY DEF ListOK, n
    <3>4. \A i, j \in 1 .. n : list[i] = list[j] => i = j
        BY DEF ListOK, n
    <3>5. \A i \in 1 .. n + 1 : list'[i] \in 1 .. n + 1 /\ (list'[i] = n + 1 => i = 1)
      <4> SUFFICES ASSUME NEW i \in 1 .. n + 1 PROVE list'[i] \in 1 .. n + 1 /\ (list'[i] = n + 1 => i = 1)
        OBVIOUS
      <4>1. CASE i = 1
        BY <2>1, <3>1, <4>1
      <4>2. CASE i > 1
        <5>1. list'[i] = list[i - 1] /\ list[i - 1] \in 1 .. n
            BY <3>2, <3>3, <4>2
        <5>2. QED
            BY <2>1, <5>1, SMTT(30)
      <4>3. QED
        BY <2>1, <4>1, <4>2
    <3>6. ASSUME NEW i \in 1 .. n + 1, NEW j \in 1 .. n + 1, list'[i] = list'[j] PROVE i = j
      <4>1. CASE i = 1 \/ j = 1
        BY <2>1, <3>1, <3>5, <3>6, <4>1
      <4>2. CASE i # 1 /\ j # 1
        <5>1. i - 1 \in 1 .. n /\ j - 1 \in 1 .. n /\ list[i - 1] = list[j - 1]
            BY <2>1, <3>2, <3>6, <4>2
        <5>2. i - 1 = j - 1
            BY <3>4, <5>1
        <5>3. QED
            BY <2>1, <5>2
      <4>3. QED
        BY <4>1, <4>2
    <3>7. QED
        BY <3>1, <3>5, <3>6 DEF ListOK
  <2>3. CASE list' = Append(list, n + 1)
    <3>1. Len(list') = n + 1 /\ list'[n + 1] = n + 1
        BY <2>1, <2>3
    <3>2. \A i \in 1 .. n : list'[i] = list[i]
        BY <2>1, <2>3
    <3> HIDE DEF n
    <3>3. \A i \in 1 .. n : list[i] \in 1 .. n
        BY DEF ListOK, n
    <3>4. \A i, j \in 1 .. n : list[i] = list[j] => i = j
        BY DEF ListOK, n
    <3>5. \A i \in 1 .. n + 1 : i = n + 1 \/ i \in 1 .. n
        BY <2>1
    <3>6. \A i \in 1 .. n + 1 : list'[i] \in 1 .. n + 1 /\ (list'[i] = n + 1 => i = n + 1)
      <4> SUFFICES ASSUME NEW i \in 1 .. n + 1 PROVE list'[i] \in 1 .. n + 1 /\ (list'[i] = n + 1 => i = n + 1)
        OBVIOUS
      <4>1. CASE i = n + 1
        BY <2>1, <3>1, <4>1
      <4>2. CASE i \in 1 .. n
        <5>1. list'[i] = list[i] /\ list[i] \in 1 .. n
            BY <3>2, <3>3, <4>2
        <5>2. QED
            BY <2>1, <5>1, SMTT(30)
      <4>3. QED
        BY <3>5, <4>1, <4>2
    <3>7. \A i, j \in 1 .. n + 1 : list'[i] = list'[j] => i = j
        BY <2>1, <3>1, <3>2, <3>4, <3>5, <3>6
    <3>8. QED
        BY <3>1, <3>6, <3>7 DEF ListOK
  <2>4. QED
    BY <1>2, <2>2, <2>3 DEF Publish
<1>3. ASSUME NEW c \in Caller, Start(c) \/ Step(c) \/ WaiterGivesUp(c) PROVE UNCHANGED list
    BY <1>3, Zenon DEF Start, LookupHit, LookupJoins, LookupRefused, LookupLeads, StartList, Step, TakeFails,
            Take, Send, Retry, RequestFails, RegionArrives, Failed, EndLookup, EndList, PageArrives,
            WaiterReturns, Return, WaiterGivesUp, shared
<1>4. QED
    BY <1>1, <1>2, <1>3 DEF Next, Midnight, Crash, shared

\* An accepted page adds a number to every notice.
LEMMA WithItemsType ==
    ASSUME NEW o \in [Item -> Nat], NEW items \in Seq(Item)
    PROVE  WithItems(o, items) \in [Item -> Nat]
<1>1. \A x \in Item : Times(items, x) \in Nat
  <2> SUFFICES ASSUME NEW x \in Item PROVE Times(items, x) \in Nat
    OBVIOUS
  <2> DEFINE P == {i \in 1 .. Len(items) : items[i] = x}
  <2>1. IsFiniteSet(1 .. Len(items))
    BY FS_Interval
  <2>2. P \in SUBSET (1 .. Len(items))
    OBVIOUS
  <2> HIDE DEF P
  <2>3. IsFiniteSet(P)
    BY <2>1, <2>2, FS_Subset
  <2>4. Cardinality(P) \in Nat
    BY <2>3, FS_CardinalityType
  <2>5. QED
    BY <2>4 DEF Times, P
<1>2. QED
    BY <1>1 DEF WithItems

LEMMA AnswerType ==
    ASSUME TypeOK, NEW c \in Caller, PagesOK(c), op[c] = "list", pc[c] = "reply", NEW items \in Answers(c)
    PROVE  items \in Seq(Item) /\ page[c] \in Nat /\ page[c] >= 1
<1>1. page[c] \in Nat /\ page[c] >= 1
    BY DEF TypeOK, PagesOK, InFlight
<1>2. CASE items \in seen[c]
    BY <1>1, <1>2 DEF TypeOK
<1>3. CASE items \notin seen[c]
    BY <1>1, <1>3, AnswerIsPage DEF TypeOK, PageFrom
<1>4. QED
    BY <1>1, <1>2, <1>3

LEMMA ListingTypeStep == TypeOK /\ ListingInv /\ Next => ListingTypes'
<1> SUFFICES ASSUME TypeOK, WorldTypes, CallerTypes, ListingTypes, ListingInv, Next PROVE ListingTypes'
    BY TypeParts
<1>1. CASE UNCHANGED listing
    BY <1>1, Zenon DEF listing, ListingTypes
<1>2. ASSUME NEW c \in Caller, StartList(c) PROVE ListingTypes'
    BY <1>2, Zeros, UpdateType, Zenon DEF StartList, ListingTypes
<1>3. ASSUME NEW c \in Caller, Return(c) PROVE ListingTypes'
  <2>1. {} \in SUBSET Seq(Item) /\ FALSE \in BOOLEAN
    OBVIOUS
  <2>2. QED
    BY <1>3, <2>1, Zeros, UpdateType, Zenon DEF Return, ListingTypes
<1>4. ASSUME NEW c \in Caller, op[c] = "list", NEW items \in Answers(c), PageArrives(c, items)
      PROVE  ListingTypes'
  <2> DEFINE n == IF page[c] = 1 THEN Len(list) ELSE total[c]
  <2>1. items \in Seq(Item) /\ page[c] \in Nat
    BY <1>4, AnswerType DEF PageArrives, ListingInv
  <2>2. n \in Nat
    BY DEF WorldTypes, ListingTypes
  <2>3. total' = [total EXCEPT ![c] = n]
    BY <1>4, Zenon DEF PageArrives
  <2>4. total' \in [Caller -> Nat]
    BY <2>2, <2>3, UpdateType DEF ListingTypes
  <2>5. first' \in [Caller -> Seq(Item)]
    BY <1>4, UpdateType DEF PageArrives, WorldTypes, ListingTypes
  <2>6. moved' = moved
    BY <1>4, Zenon DEF PageArrives
  <2>7. out' = out \/ out' = [out EXCEPT ![c] = WithItems(out[c], items)]
    BY <1>4, Zenon DEF PageArrives
  <2>8. out' \in [Caller -> [Item -> Nat]]
    <3>1. out[c] \in [Item -> Nat]
        BY DEF ListingTypes
    <3>2. WithItems(out[c], items) \in [Item -> Nat]
        BY <2>1, <3>1, WithItemsType
    <3>3. out \in [Caller -> [Item -> Nat]]
        BY Zenon DEF ListingTypes
    <3>4. QED
        BY <2>7, <3>2, <3>3
  <2>9. seen' = seen \/ seen' = [seen EXCEPT ![c] = seen[c] \cup {items}]
    BY <1>4, Zenon DEF PageArrives
  <2>10. seen' \in [Caller -> SUBSET Seq(Item)]
    <3>1. seen[c] \cup {items} \in SUBSET Seq(Item)
        BY <2>1 DEF ListingTypes
    <3>2. seen \in [Caller -> SUBSET Seq(Item)]
        BY Zenon DEF ListingTypes
    <3>3. QED
        BY <2>9, <3>1, <3>2
  <2>11. \/ page' = page
         \/ ~(page[c] + 1 > MaxPages) /\ page' = [page EXCEPT ![c] = page[c] + 1]
    BY <1>4, Zenon DEF PageArrives
  <2>12. page' \in [Caller -> 0 .. MaxPages]
    BY <2>1, <2>11, UpdateType DEF ListingTypes
  <2>13. QED
    BY <2>4, <2>5, <2>6, <2>8, <2>10, <2>12, Zenon DEF ListingTypes
<1>5. ASSUME NEW atFront \in BOOLEAN, Publish(atFront) PROVE ListingTypes'
  <2>1. moved' \in [Caller -> BOOLEAN]
    BY <1>5, Zenon DEF Publish
  <2>2. QED
    BY <1>5, <2>1, Zenon DEF Publish, ListingTypes
<1>6. CASE Crash
  <2>1. {} \in SUBSET Seq(Item) /\ FALSE \in BOOLEAN
    OBVIOUS
  <2>2. QED
    BY <1>6, <2>1, Zeros, Zenon DEF Crash, ListingTypes
<1>7. ASSUME NEW c \in Caller, Start(c) \/ Step(c) \/ WaiterGivesUp(c) PROVE ListingTypes'
  <2>1. \/ UNCHANGED listing
        \/ StartList(c) \/ Return(c)
        \/ op[c] = "list" /\ \E items \in Answers(c) : PageArrives(c, items)
    BY <1>7, Zenon DEF Start, LookupHit, LookupJoins, LookupRefused, LookupLeads, Step, TakeFails,
            Take, Send, Retry, RequestFails, RegionArrives, Failed, EndLookup, EndList,
            WaiterReturns, WaiterGivesUp, listing
  <2>2. QED
    BY <1>1, <1>2, <1>3, <1>4, <2>1
<1>8. QED
    BY <1>1, <1>5, <1>6, <1>7 DEF Next, Midnight

\* A step that leaves a caller's listing alone, or goes on with its request.
LEMMA ListingStands ==
    ASSUME NEW c \in Caller, PagesOK(c), list' = list,
           pc'[c] = pc[c] \/ (InFlight(c) /\ InFlight(c)'), op'[c] = op[c], result'[c] = result[c],
           page'[c] = page[c], total'[c] = total[c], out'[c] = out[c],
           first'[c] = first[c], moved'[c] = moved[c]
    PROVE  PagesOK(c)'
<1>1. InFlight(c)' <=> InFlight(c)
    BY DEF InFlight
<1>2. Before(c)' = Before(c)
    BY DEF Before
<1>3. /\ pc'[c] = "idle" <=> pc[c] = "idle"
      /\ pc'[c] \in {"waiting", "woken"} <=> pc[c] \in {"waiting", "woken"}
      /\ pc'[c] = "done" <=> pc[c] = "done"
    BY DEF InFlight
<1> DEFINE Run(pg, mv, l, f, t, b, o) ==
        /\ pg >= 1
        /\ pg = 1 => o = Nothing
        /\ pg > 1 /\ ~mv => StartsWith(l, f) /\ t = Len(f) /\ b < t /\ Collects(o, f, b)
<1>4. ASSUME Run(page[c], moved[c], list, first[c], total[c], Before(c), out[c])
      PROVE  Run(page'[c], moved'[c], list', first'[c], total'[c], Before(c)', out'[c])
  <2> HIDE DEF Run
  <2>1. QED
    BY <1>2, <1>4
<1>5. Collects(out'[c], first'[c], Len(first'[c])) <=> Collects(out[c], first[c], Len(first[c]))
    OBVIOUS
<1>6. QED
    BY <1>1, <1>3, <1>4, <1>5, Zenon DEF PagesOK

\* A step after which the caller has no listing under way and none that succeeded.
LEMMA ListingOff ==
    ASSUME NEW c \in Caller, pc'[c] = "idle" => out'[c] = Nothing,
           pc'[c] \in {"waiting", "woken"} => op'[c] # "list",
           op'[c] = "list" => ~InFlight(c)' /\ (pc'[c] = "done" => result'[c] # "ok")
    PROVE  PagesOK(c)'
BY Zenon DEF PagesOK

\* The next page of a listing: refused, or the last one, or one more to come.
LEMMA PageKeepsPages ==
    ASSUME TypeOK, ListOK, NEW c \in Caller, PagesOK(c), op[c] = "list",
           NEW items \in Answers(c), PageArrives(c, items)
    PROVE  PagesOK(c)'
<1> DEFINE n == IF page[c] = 1 THEN Len(list) ELSE total[c]
           f == IF page[c] = 1 THEN list ELSE first[c]
           m == Before(c)
           expected == Clamp(n - m, 0, PageSize)
           o == WithItems(out[c], items)
<1>1. pc[c] = "reply" /\ InFlight(c) /\ op' = op /\ list' = list /\ moved' = moved
    BY Zenon DEF PageArrives, InFlight, shared
<1>2. page[c] \in Nat /\ page[c] >= 1 /\ (page[c] = 1 => out[c] = Nothing)
    BY <1>1, Zenon, AnswerType DEF PagesOK
<1>3. total'[c] = n /\ first'[c] = f
  <2>1. total' = [total EXCEPT ![c] = n] /\ first' = IF page[c] = 1 THEN [first EXCEPT ![c] = list] ELSE first
    BY Zenon DEF PageArrives
  <2>2. total \in [Caller -> Nat] /\ first \in [Caller -> Seq(Item)]
    BY Zenon DEF TypeOK
  <2> HIDE DEF n
  <2>3. QED
    BY <2>1, <2>2
<1>4. list \in Seq(Item) /\ Len(list) \in Nat /\ total[c] \in Nat /\ n \in Nat /\ f \in Seq(Item)
    BY DEF TypeOK
<1>5. /\ m \in Nat
      /\ page[c] * PageSize = m + PageSize
      /\ page[c] = 1 => m = 0
    BY <1>2, PageBounds DEF Before
<1>6. CASE Incomplete(items, expected) \/ items \in seen[c]
  <2>1. pc' = [pc EXCEPT ![c] = "done"] /\ result' = [result EXCEPT ![c] = "failed"]
    BY <1>6, Zenon DEF PageArrives, Before
  <2>2. pc'[c] = "done" /\ result'[c] = "failed"
    BY <2>1 DEF TypeOK
  <2>3. QED
    BY <2>2, ListingOff DEF InFlight
<1>7. CASE ~Incomplete(items, expected) /\ items \notin seen[c]
  <2>1. out'[c] = o
    <3>1. out' = [out EXCEPT ![c] = o]
        BY <1>7, Zenon DEF PageArrives, Before
    <3>2. out \in [Caller -> [Item -> Nat]]
        BY Zenon DEF TypeOK
    <3> HIDE DEF o
    <3>3. QED
        BY <3>1, <3>2
  <2>2. PageFrom(m, items)
    BY <1>2, <1>4, <1>7, AnswerIsPage
  <2>3. Len(items) \in Nat /\ Len(items) <= PageSize
    BY <2>2 DEF PageFrom
  <2>4. ~(Len(items) < expected)
    BY <1>7 DEF Incomplete
  <2>5. ASSUME ~moved[c]
        PROVE  /\ StartsWith(list, f) /\ n = Len(f) /\ m <= Len(list)
               /\ page[c] # 1 => m < n
               /\ Collects(o, f, m + Len(items))
    <3>1. out[c] \in [Item -> Nat]
        BY DEF TypeOK
    <3>2. CASE page[c] = 1
      <4>1. StartsWith(list, list)
        BY <1>4 DEF StartsWith
      <4>2. \A i \in 1 .. Len(list) : list[i] \in Item
        BY <1>4
      <4>3. Collects(Nothing, list, 0)
        BY <1>4, <4>2 DEF Collects, Nothing
      <4>4. m = 0 /\ f = list /\ n = Len(list) /\ out[c] = Nothing
        BY <1>2, <1>5, <3>2
      <4> HIDE DEF m, f, n, o
      <4>5. Collects(WithItems(out[c], items), f, m + Len(items))
        BY <1>4, <2>2, <3>1, <4>1, <4>3, <4>4, NextPageCollects
      <4>6. QED
        BY <1>4, <3>2, <4>1, <4>4, <4>5 DEF o
    <3>3. CASE page[c] # 1
      <4>1. f = first[c] /\ n = total[c] /\ page[c] > 1
        BY <1>2, <3>3
      <4>2. StartsWith(list, f) /\ n = Len(f) /\ m < n /\ Collects(out[c], f, m)
        BY <1>1, <2>5, <4>1, Zenon DEF PagesOK
      <4> HIDE DEF m, f, n, o
      <4>3. m <= Len(list)
        BY <1>4, <1>5, <4>2 DEF StartsWith
      <4>4. Collects(WithItems(out[c], items), f, m + Len(items))
        BY <1>4, <1>5, <2>2, <3>1, <4>2, <4>3, NextPageCollects
      <4>5. QED
        BY <4>2, <4>3, <4>4 DEF o
    <3>4. QED
        BY <3>2, <3>3
  <2>6. CASE LastPage(page[c], n) \/ page[c] + 1 > MaxPages
    <3>1. /\ pc' = [pc EXCEPT ![c] = "done"]
          /\ result' = [result EXCEPT ![c] = IF LastPage(page[c], n) THEN "ok" ELSE "failed"]
        BY <1>7, <2>6, Zenon DEF PageArrives, Before
    <3>2. pc'[c] = "done" /\ (result'[c] = "ok" => LastPage(page[c], n))
        BY <3>1 DEF TypeOK
    <3>3. ASSUME ~moved[c], LastPage(page[c], n) PROVE Collects(o, f, Len(f))
      <4>1. PageSize \in Nat /\ n - m \in Int
        BY <1>4, <1>5, SMTT(30)
      <4> HIDE DEF m, f, n, o
      <4>2. n = 0 \/ m + PageSize >= n
        BY <1>5, <3>3 DEF LastPage
      <4>3. m + Len(items) >= n
        BY <1>4, <1>5, <2>3, <2>4, <4>1, <4>2, SMTT(30) DEF Clamp
      <4>4. Collects(o, f, m + Len(items)) /\ n = Len(f)
        BY <2>5, <3>3
      <4>5. ASSUME NEW i \in 1 .. Len(f) PROVE ~(i > m + Len(items)) /\ ~(i > Len(f))
        BY <1>4, <1>5, <2>3, <4>3, <4>4, SMTT(30)
      <4>6. QED
        BY <4>4, <4>5 DEF Collects
    <3> HIDE DEF f, o
    <3>4. QED
        BY <1>1, <1>3, <2>1, <3>2, <3>3 DEF PagesOK, InFlight
  <2>7. CASE ~(LastPage(page[c], n) \/ page[c] + 1 > MaxPages)
    <3>1. pc' = [pc EXCEPT ![c] = "take"] /\ page' = [page EXCEPT ![c] = page[c] + 1]
        BY <1>7, <2>7, Zenon DEF PageArrives, Before
    <3>2. pc'[c] = "take" /\ page'[c] = page[c] + 1
        BY <3>1 DEF TypeOK
    <3> HIDE DEF m, f, n, o
    <3>3. m + PageSize < n
        BY <1>4, <1>5, <2>7 DEF LastPage
    <3>4. Len(items) = PageSize
        BY <1>4, <1>5, <2>3, <2>4, <3>3, SMTT(30) DEF Clamp
    <3>5. Before(c)' = m + Len(items)
      <4>1. (page[c] + 1) - 1 = page[c]
        BY <1>2
      <4>2. Before(c)' = page[c] * PageSize
        BY <3>2, <4>1 DEF Before
      <4>3. QED
        BY <1>5, <3>4, <4>2
    <3>6. page'[c] >= 1 /\ page'[c] # 1
        BY <1>2, <3>2
    <3>7. ASSUME ~moved'[c]
          PROVE  /\ StartsWith(list', first'[c]) /\ total'[c] = Len(first'[c])
                 /\ Before(c)' < total'[c] /\ Collects(out'[c], first'[c], Before(c)')
        BY <1>1, <1>3, <2>1, <2>5, <3>3, <3>4, <3>5, <3>7
    <3>8. pc'[c] \notin {"idle", "waiting", "woken", "done"}
        BY <3>2
    <3>9. QED
        BY <3>6, <3>7, <3>8, Zenon DEF PagesOK
  <2>8. QED
    BY <2>6, <2>7
<1>8. QED
    BY <1>6, <1>7

\* Something published in front of a listing marks it; at the end it changes
\* nothing of what the listing has begun with.
LEMMA PublishKeepsPages ==
    ASSUME TypeOK, NEW c \in Caller, PagesOK(c), NEW atFront \in BOOLEAN, Publish(atFront)
    PROVE  PagesOK(c)'
<1>1. UNCHANGED <<pc, op, result, page, total, out, first>>
    BY Zenon DEF Publish
<1>2. moved'[c] <=> moved[c] \/ (atFront /\ op[c] = "list" /\ page[c] > 1)
    BY Zenon DEF Publish
<1>3. ASSUME ~atFront, StartsWith(list, first[c]) PROVE StartsWith(list', first[c])
  <2>1. list \in Seq(Item) /\ first[c] \in Seq(Item) /\ Len(list) + 1 \in Item
    <3>1. list \in Seq(Item) /\ first \in [Caller -> Seq(Item)] /\ Len(list) < MaxItems
        BY Zenon DEF TypeOK, Publish
    <3>2. MaxItems \in Nat
        OBVIOUS
    <3>3. QED
        BY <3>1, <3>2 DEF Item
  <2>2. list' = Append(list, Len(list) + 1)
    BY <1>3, Zenon DEF Publish
  <2>3. Len(list') = Len(list) + 1 /\ \A i \in 1 .. Len(list) : list'[i] = list[i]
    BY <2>1, <2>2
  <2>4. Len(first[c]) \in Nat /\ Len(list) \in Nat /\ Len(first[c]) <= Len(list)
    BY <1>3, <2>1 DEF StartsWith
  <2>5. Len(first[c]) <= Len(list') /\ \A i \in 1 .. Len(first[c]) : i \in 1 .. Len(list)
    BY <2>3, <2>4
  <2>6. QED
    BY <1>3, <2>3, <2>5, Zenon DEF StartsWith
<1>4. Before(c)' = Before(c) /\ (InFlight(c)' <=> InFlight(c))
    BY <1>1 DEF Before, InFlight
<1>5. ASSUME op[c] = "list", InFlight(c), page[c] > 1, ~moved'[c]
      PROVE  /\ StartsWith(list', first'[c]) /\ total'[c] = Len(first'[c])
             /\ Before(c)' < total'[c] /\ Collects(out'[c], first'[c], Before(c)')
  <2>1. ~moved[c] /\ ~atFront
    BY <1>2, <1>5, Zenon
  <2>2. /\ StartsWith(list, first[c]) /\ total[c] = Len(first[c])
        /\ Before(c) < total[c] /\ Collects(out[c], first[c], Before(c))
    BY <1>5, <2>1, Zenon DEF PagesOK
  <2>3. QED
    BY <1>1, <1>3, <1>4, <2>1, <2>2
<1>6. ~moved'[c] => ~moved[c]
    BY <1>2, Zenon
<1>7. QED
    BY <1>1, <1>4, <1>5, <1>6 DEF PagesOK

LEMMA PagesStep == TypeOK /\ ListingInv /\ Next => \A c \in Caller : PagesOK(c)'
<1> SUFFICES ASSUME TypeOK, CallerTypes, ListingTypes, ListOK, \A c \in Caller : PagesOK(c), Next,
                    NEW b \in Caller
             PROVE  PagesOK(b)'
    BY TypeParts DEF ListingInv
<1>1. ASSUME UNCHANGED <<list, op, page, total, out, first, moved>>, result'[b] = result[b],
             pc'[b] = pc[b] \/ (InFlight(b) /\ InFlight(b)')
      PROVE  PagesOK(b)'
    BY <1>1, ListingStands
<1>2. ASSUME NEW c \in Caller, Start(c) PROVE PagesOK(b)'
  <2>1. ASSUME NEW k, NEW o, NEW l, NEW r, Enter(c, k, o, l, r), o # "list", l # "idle",
               UNCHANGED <<list, page, total, out, first, moved>>
        PROVE  PagesOK(b)'
    <3>1. /\ pc' = [pc EXCEPT ![c] = l] /\ op' = [op EXCEPT ![c] = o]
          /\ result' = [result EXCEPT ![c] = r]
        BY <2>1, Zenon DEF Enter
    <3>2. CASE b # c
      <4>1. pc'[b] = pc[b] /\ op'[b] = op[b] /\ result'[b] = result[b]
        BY <3>1, <3>2 DEF CallerTypes
      <4>2. QED
        BY <2>1, <4>1, ListingStands
    <3>3. CASE b = c
      <4>1. pc'[b] = l /\ op'[b] = o
        BY <3>1, <3>3 DEF CallerTypes
      <4>2. QED
        BY <2>1, <4>1, ListingOff
    <3>4. QED
        BY <3>2, <3>3
  <2>2. CASE StartList(c)
    <3>1. /\ pc[c] = "idle" /\ pc' = [pc EXCEPT ![c] = "take"] /\ op' = [op EXCEPT ![c] = "list"]
          /\ result' = [result EXCEPT ![c] = "none"] /\ page' = [page EXCEPT ![c] = 1]
          /\ UNCHANGED <<list, total, out, first, moved>>
        BY <2>2, Zenon DEF StartList, Enter, shared
    <3>2. CASE b # c
      <4>1. pc'[b] = pc[b] /\ op'[b] = op[b] /\ result'[b] = result[b] /\ page'[b] = page[b]
        BY <3>1, <3>2 DEF CallerTypes, ListingTypes
      <4>2. QED
        BY <3>1, <4>1, ListingStands
    <3>3. CASE b = c
      <4>1. pc'[b] = "take" /\ op'[b] = "list" /\ page'[b] = 1
        BY <3>1, <3>3 DEF CallerTypes, ListingTypes
      <4>2. out'[b] = Nothing
        BY <3>1, <3>3, Zenon DEF PagesOK
      <4>3. QED
        BY <4>1, <4>2 DEF PagesOK
    <3>4. QED
        BY <3>2, <3>3
  <2>3. ASSUME NEW k \in Key, LookupHit(c, k) \/ LookupJoins(c, k) \/ LookupRefused(c, k) \/ LookupLeads(c, k)
        PROVE  PagesOK(b)'
    <3>1. UNCHANGED <<list, page, total, out, first, moved>>
        BY <2>3, Zenon DEF LookupHit, LookupJoins, LookupRefused, LookupLeads, shared, listing
    <3>2. \/ Enter(c, k, "region", "done", "ok") \/ Enter(c, k, "region", "done", "failed")
          \/ Enter(c, k, "wait", "waiting", "none") \/ Enter(c, k, "region", "take", "none")
        BY <2>3, Zenon DEF LookupHit, LookupJoins, LookupRefused, LookupLeads
    <3>3. QED
        BY <2>1, <3>1, <3>2
  <2>4. QED
    BY <1>2, <2>2, <2>3, Zenon DEF Start
<1>3. ASSUME NEW c \in Caller, Take(c) \/ Send(c) \/ Retry(c) PROVE PagesOK(b)'
  <2>1. /\ \E l \in {"take", "send", "reply"} : pc' = [pc EXCEPT ![c] = l]
        /\ pc[c] \in {"take", "send", "reply"}
        /\ UNCHANGED <<list, op, page, total, out, first, moved>> /\ result' = result
    BY <1>3 DEF Take, Send, Retry, shared, listing
  <2>2. pc'[b] = pc[b] \/ (InFlight(b) /\ InFlight(b)')
    BY <2>1 DEF CallerTypes, InFlight
  <2>3. QED
    BY <1>1, <2>1, <2>2
<1>4. ASSUME NEW c \in Caller, op[c] = "list", EndList(c, "failed") PROVE PagesOK(b)'
  <2>1. /\ pc' = [pc EXCEPT ![c] = "done"] /\ result' = [result EXCEPT ![c] = "failed"]
        /\ UNCHANGED <<list, op, page, total, out, first, moved>>
    BY <1>4, Zenon DEF EndList, shared
  <2>2. CASE b = c
    <3>1. pc'[b] = "done" /\ result'[b] = "failed"
        BY <2>1, <2>2 DEF CallerTypes
    <3>2. QED
        BY <3>1, ListingOff DEF InFlight
  <2>3. CASE b # c
    <3>1. pc'[b] = pc[b] /\ result'[b] = result[b]
        BY <2>1, <2>3 DEF CallerTypes
    <3>2. QED
        BY <1>1, <2>1, <3>1
  <2>4. QED
    BY <2>2, <2>3
<1>5. ASSUME NEW c \in Caller, op[c] = "region", NEW ok \in BOOLEAN, EndLookup(c, ok) PROVE PagesOK(b)'
  <2> DEFINE k == key[c]
  <2>1. /\ pc' = [w \in Caller |-> IF w = c THEN "done" ELSE IF w \in Woken(k) THEN "woken" ELSE pc[w]]
        /\ result' = [w \in Caller |-> IF w = c \/ w \in Woken(k)
                                       THEN IF ok THEN "ok" ELSE "failed" ELSE result[w]]
        /\ UNCHANGED <<list, op, page, total, out, first, moved>>
    BY <1>5, Zenon DEF EndLookup, shared, listing
  <2>2. CASE b = c
    <3>1. pc'[b] = "done" /\ op'[b] # "list"
        BY <1>5, <2>1, <2>2
    <3>2. QED
        BY <3>1, ListingOff
  <2>3. CASE b # c /\ b \in Woken(k)
    <3>1. pc'[b] = "woken" /\ op'[b] # "list"
        BY <2>1, <2>3 DEF Woken, PagesOK
    <3>2. QED
        BY <3>1, ListingOff
  <2>4. CASE b # c /\ b \notin Woken(k)
    <3>1. pc'[b] = pc[b] /\ result'[b] = result[b]
        BY <2>1, <2>4
    <3>2. QED
        BY <1>1, <2>1, <3>1
  <2>5. QED
    BY <2>2, <2>3, <2>4
<1>6. ASSUME NEW c \in Caller, TakeFails(c) \/ RequestFails(c) \/ RegionArrives(c) PROVE PagesOK(b)'
    BY <1>4, <1>5, <1>6 DEF TakeFails, RequestFails, RegionArrives, Failed
<1>7. ASSUME NEW c \in Caller, op[c] = "list", NEW items \in Answers(c), PageArrives(c, items) PROVE PagesOK(b)'
  <2>1. CASE b = c
    BY <1>7, <2>1, PageKeepsPages
  <2>2. CASE b # c
    <3>1. /\ list' = list /\ op' = op /\ moved' = moved
          /\ \E t : total' = [total EXCEPT ![c] = t]
          /\ first' = first \/ first' = [first EXCEPT ![c] = list]
          /\ \E l : pc' = [pc EXCEPT ![c] = l]
          /\ result' = result \/ \E r : result' = [result EXCEPT ![c] = r]
          /\ page' = page \/ \E p : page' = [page EXCEPT ![c] = p]
          /\ out' = out \/ \E o : out' = [out EXCEPT ![c] = o]
        BY <1>7, Zenon DEF PageArrives, shared
    <3>2. pc'[b] = pc[b] /\ op'[b] = op[b] /\ result'[b] = result[b]
        BY <2>2, <3>1 DEF CallerTypes
    <3>3. /\ page'[b] = page[b] /\ total'[b] = total[b] /\ out'[b] = out[b]
          /\ first'[b] = first[b] /\ moved'[b] = moved[b]
        BY <2>2, <3>1 DEF ListingTypes
    <3>4. QED
        BY <3>1, <3>2, <3>3, ListingStands
  <2>3. QED
    BY <2>1, <2>2
<1>8. ASSUME NEW c \in Caller, WaiterReturns(c) \/ WaiterGivesUp(c) PROVE PagesOK(b)'
  <2>1. /\ pc' = [pc EXCEPT ![c] = "done"] /\ pc[c] \in {"waiting", "woken"}
        /\ result' = result \/ result' = [result EXCEPT ![c] = "failed"]
        /\ UNCHANGED <<list, op, page, total, out, first, moved>>
    BY <1>8 DEF WaiterReturns, WaiterGivesUp, shared, listing
  <2>2. CASE b = c
    <3>1. pc'[b] = "done" /\ op'[b] # "list"
        BY <2>1, <2>2 DEF CallerTypes, PagesOK
    <3>2. QED
        BY <3>1, ListingOff
  <2>3. CASE b # c
    <3>1. pc'[b] = pc[b] /\ result'[b] = result[b]
        BY <2>1, <2>3 DEF CallerTypes
    <3>2. QED
        BY <1>1, <2>1, <3>1
  <2>4. QED
    BY <2>2, <2>3
<1>9. ASSUME NEW c \in Caller, Return(c) PROVE PagesOK(b)'
  <2>1. CASE b = c
    <3>1. pc'[b] = "idle" /\ op'[b] = "none"
        BY <1>9, <2>1 DEF Return, CallerTypes
    <3>2. out'[b] = Nothing
        BY <1>9, <2>1 DEF Return, ListingTypes
    <3>3. QED
        BY <3>1, <3>2, ListingOff
  <2>2. CASE b # c
    <3>1. pc'[b] = pc[b] /\ op'[b] = op[b] /\ result'[b] = result[b]
        BY <1>9, <2>2 DEF Return, CallerTypes
    <3>2. page'[b] = page[b] /\ total'[b] = total[b] /\ out'[b] = out[b] /\ first'[b] = first[b]
        BY <1>9, <2>2 DEF Return, ListingTypes
    <3>3. moved'[b] = moved[b] /\ list' = list
      <4>1. moved' = [moved EXCEPT ![c] = FALSE] /\ list' = list
        BY <1>9, Zenon DEF Return, shared
      <4>2. QED
        BY <2>2, <4>1 DEF ListingTypes
    <3>4. QED
        BY <3>1, <3>2, <3>3, ListingStands
  <2>3. QED
    BY <2>1, <2>2
<1>10. CASE Midnight
    BY <1>1, <1>10 DEF Midnight, listing
<1>11. ASSUME NEW atFront \in BOOLEAN, Publish(atFront) PROVE PagesOK(b)'
    BY <1>11, PublishKeepsPages
<1>12. CASE Crash
  <2>1. pc'[b] = "idle" /\ op'[b] = "none" /\ out'[b] = Nothing
    BY <1>12, Zenon DEF Crash
  <2>2. QED
    BY <2>1, ListingOff
<1>13. ASSUME NEW c \in Caller, Start(c) \/ Step(c) \/ WaiterGivesUp(c) PROVE PagesOK(b)'
    BY <1>2, <1>3, <1>6, <1>7, <1>8, <1>9, <1>13, Zenon DEF Step
<1>14. QED
    BY <1>10, <1>11, <1>12, <1>13, Zenon DEF Next

-----------------------------------------------------------------------------
(***************************************************************************)
(* The theorems.                                                           *)
(***************************************************************************)

ClientInv == TypeOK /\ LeadOK /\ CacheOK /\ ListingInv

LEMMA InvThroughout == Spec => []ClientInv
<1>1. Init => ClientInv
  <2>1. Init => ListOK
    BY DEF Init, ListOK
  <2>2. ASSUME Init, NEW c \in Caller PROVE PagesOK(c)
    <3>1. pc[c] = "idle" /\ op[c] = "none" /\ out[c] = Nothing
        BY <2>2, Zenon DEF Init
    <3>2. QED
        BY <3>1 DEF PagesOK
  <2>3. QED
    BY <2>1, <2>2, InitTypes DEF ClientInv, ListingInv
<1>2. ClientInv /\ [Next]_vars => ClientInv'
  <2> SUFFICES ASSUME ClientInv, [Next]_vars PROVE ClientInv'
    OBVIOUS
  <2>1. CASE Next
    <3>1. WorldTypes'
        BY <2>1, WorldStep DEF ClientInv
    <3>2. ClientTypes' /\ CallerTypes' /\ CacheOK'
        BY <2>1, ClientStep DEF ClientInv
    <3>3. ListingTypes'
        BY <2>1, ListingTypeStep DEF ClientInv
    <3>4. TypeOK'
        BY <3>1, <3>2, <3>3, TypeParts, PTL
    <3>5. LeadOK'
        BY <2>1, LeadStep DEF ClientInv
    <3>6. ListingInv'
        BY <2>1, ListStep, PagesStep DEF ClientInv, ListingInv
    <3>7. QED
        BY <3>2, <3>4, <3>5, <3>6 DEF ClientInv
  <2>2. CASE UNCHANGED vars
    <3>1. TypeOK'
        BY <2>2, Zenon DEF vars, ClientInv, TypeOK
    <3>2. LeadOK'
        BY <2>2, QuietKeepsLead DEF vars, ClientInv, Asking
    <3>3. CacheOK' /\ ListOK'
        BY <2>2 DEF vars, ClientInv, CacheOK, ListingInv, ListOK
    <3>4. ASSUME NEW c \in Caller PROVE PagesOK(c)'
        BY <2>2, ListingStands DEF vars, ClientInv, ListingInv
    <3>5. QED
        BY <3>1, <3>2, <3>3, <3>4 DEF ClientInv, ListingInv
  <2>3. QED
    BY <2>1, <2>2
<1>3. QED
    BY <1>1, <1>2, PTL DEF Spec

\* The types hold throughout; the bounds in them are the ones request, List and
\* LookupRegion put on attempts, pages and lookups, and Take on a day's calls.
THEOREM ClientTypeCorrect == Spec => []TypeOK
<1>1. ClientInv => TypeOK
    BY DEF ClientInv
<1>2. QED
    BY <1>1, InvThroughout, PTL

\* One caller at a time asks for a region, and whoever waits for it waits for a
\* caller that does (LookupRegion and regionCalls).
THEOREM OneRequestPerRegion == Spec => []SingleFlight
<1>1. ClientInv => SingleFlight
  <2> SUFFICES ASSUME LeadOK PROVE SingleFlight
    BY DEF ClientInv
  <2>1. ASSUME NEW b \in Caller, NEW c \in Caller, Asking(b), Asking(c), key[b] = key[c] PROVE b = c
    BY <2>1 DEF LeadOK
  <2>2. ASSUME NEW c \in Caller, pc[c] = "waiting" PROVE \E b \in Caller : Asking(b) /\ key[b] = key[c]
    BY <2>2 DEF LeadOK
  <2>3. QED
    BY <2>1, <2>2 DEF SingleFlight
<1>2. QED
    BY <1>1, InvThroughout, PTL

\* A listing that succeeds has every well-formed notice of the list of its first
\* page, once (List), unless one was published in front of it meanwhile.
THEOREM ListingsAreComplete == Spec => []ListingComplete
<1>1. ClientInv => ListingComplete
  <2> SUFFICES ASSUME ClientInv, NEW c \in Caller,
                      pc[c] = "done" /\ op[c] = "list" /\ result[c] = "ok" /\ ~moved[c],
                      NEW i \in 1 .. Len(first[c])
               PROVE  first[c][i] \in Malformed \/ out[c][first[c][i]] = 1
    BY Zenon DEF ListingComplete
  <2>1. Collects(out[c], first[c], Len(first[c]))
    BY Zenon DEF ClientInv, ListingInv, PagesOK
  <2>2. first[c] \in Seq(Item)
    BY DEF ClientInv, TypeOK
  <2>3. i <= Len(first[c]) /\ ~(i > Len(first[c]))
    BY <2>2
  <2>4. QED
    BY <2>1, <2>3 DEF Collects
<1>2. QED
    BY <1>1, InvThroughout, PTL

-----------------------------------------------------------------------------
(***************************************************************************)
(* The allowance: what has gone out and what is charged and has not gone   *)
(* out yet is paid for by the earlier days and the calls of this one.      *)
(***************************************************************************)

Charged == {c \in Caller : pc[c] = "send"}

AllowanceInv ==
    /\ sent + Cardinality(Charged) <= (day - 1) * Limit + calls[day]
    /\ \A d \in Day : d > day => calls[d] = 0

LEMMA ChargedFinite == IsFiniteSet(Charged) /\ Cardinality(Charged) \in Nat
<1>1. Charged \in SUBSET Caller
    BY DEF Charged
<1>2. IsFiniteSet(Charged)
    BY <1>1, FS_Subset
<1>3. QED
    BY <1>2, FS_CardinalityType

LEMMA DayNumbers ==
    ASSUME TypeOK
    PROVE  /\ day \in Nat /\ (day - 1) * Limit \in Nat /\ calls[day] \in 0 .. Limit /\ Limit \in Nat
           /\ day * Limit = (day - 1) * Limit + Limit /\ sent \in Nat
<1>1. day \in Nat /\ day - 1 \in Nat /\ Limit \in Nat /\ calls[day] \in 0 .. Limit /\ sent \in Nat
    BY DEF TypeOK, Day
<1>2. \A a, b \in Nat : a * b \in Nat /\ (a + 1) * b = a * b + b
    OBVIOUS
<1>3. (day - 1) + 1 = day
    BY <1>1
<1>4. QED
    BY <1>1, <1>2, <1>3

LEMMA AllowanceStep == TypeOK /\ AllowanceInv /\ Next => AllowanceInv'
<1> SUFFICES ASSUME TypeOK, CallerTypes, AllowanceInv, Next PROVE AllowanceInv'
    BY TypeParts
<1> DEFINE n == Cardinality(Charged)
           base == (day - 1) * Limit
<1>1. n \in Nat /\ base \in Nat /\ sent \in Nat /\ calls[day] \in 0 .. Limit /\ day \in Nat
    BY ChargedFinite, DayNumbers
<1>2. sent + n <= base + calls[day] /\ \A d \in Day : d > day => calls[d] = 0
    BY Zenon DEF AllowanceInv
<1>3. ASSUME UNCHANGED <<day, calls, sent>>, \A c \in Caller : pc'[c] = "send" <=> pc[c] = "send"
      PROVE  AllowanceInv'
  <2>1. Charged' = Charged
    BY <1>3 DEF Charged
  <2>2. QED
    BY <1>3, <2>1 DEF AllowanceInv
<1> HIDE DEF n, base
<1>4. ASSUME NEW c \in Caller, Take(c) PROVE AllowanceInv'
  <2>1. /\ pc[c] = "take" /\ calls' = [calls EXCEPT ![day] = calls[day] + 1]
        /\ pc' = [pc EXCEPT ![c] = "send"] /\ day' = day /\ sent' = sent
    BY <1>4, Zenon DEF Take
  <2>2. Charged' = Charged \cup {c} /\ c \notin Charged
    BY <2>1 DEF Charged, CallerTypes
  <2>3. Cardinality(Charged') = n + 1
    BY <2>2, ChargedFinite, FS_AddElement DEF n
  <2>4. calls'[day] = calls[day] + 1 /\ \A d \in Day : d # day => calls'[d] = calls[d]
    BY <2>1 DEF TypeOK
  <2>5. sent' + Cardinality(Charged') <= base + calls'[day]
    BY <1>1, <1>2, <2>1, <2>3, <2>4
  <2>6. (day' - 1) * Limit = base
    BY <2>1 DEF base
  <2>7. \A d \in Day : d > day => calls'[d] = 0
    <3> SUFFICES ASSUME NEW d \in Day, d > day PROVE calls'[d] = 0
        OBVIOUS
    <3>1. d # day
        BY <1>1 DEF Day
    <3>2. QED
        BY <1>2, <2>4, <3>1
  <2>8. QED
    BY <2>1, <2>5, <2>6, <2>7 DEF AllowanceInv
<1>5. ASSUME NEW c \in Caller, Send(c) PROVE AllowanceInv'
  <2>1. /\ pc[c] = "send" /\ pc' = [pc EXCEPT ![c] = "reply"] /\ sent' = sent + 1
        /\ day' = day /\ calls' = calls
    BY <1>5, Zenon DEF Send
  <2>2. Charged' = Charged \ {c} /\ c \in Charged
    BY <2>1 DEF Charged, CallerTypes
  <2>3. Cardinality(Charged') = n - 1
    BY <2>2, ChargedFinite, FS_RemoveElement DEF n
  <2>4. sent' + Cardinality(Charged') <= base + calls[day]
    BY <1>1, <1>2, <2>1, <2>3
  <2>5. QED
    BY <1>2, <2>1, <2>4 DEF AllowanceInv, base
<1>6. CASE Midnight
  <2>1. day' = day + 1 /\ calls' = calls /\ sent' = sent /\ pc' = pc /\ day < MaxDay
    BY <1>6, Zenon DEF Midnight
  <2>2. Cardinality(Charged') = n
    BY <2>1 DEF Charged, n
  <2>3. day' \in Day /\ MaxDay \in Nat
    BY <1>1, <2>1 DEF Day
  <2>4. calls[day'] = 0
    BY <1>1, <1>2, <2>1, <2>3
  <2>5. (day' - 1) * Limit = base + Limit
    <3>1. day' - 1 = day
        BY <1>1, <2>1
    <3>2. QED
        BY <3>1, DayNumbers DEF base
  <2>6. Limit \in Nat
    OBVIOUS
  <2>7. sent' + Cardinality(Charged') <= (day' - 1) * Limit + calls'[day']
    BY <1>1, <1>2, <2>1, <2>2, <2>4, <2>5, <2>6
  <2>8. \A d \in Day : d > day' => calls'[d] = 0
    BY <1>1, <1>2, <2>1 DEF Day
  <2>9. QED
    BY <2>7, <2>8, Zenon DEF AllowanceInv
<1>7. CASE Crash
  <2>1. (\A c \in Caller : pc'[c] = "idle") /\ day' = day /\ calls' = calls /\ sent' = sent
    BY <1>7, Zenon DEF Crash, shared
  <2>2. Charged' = {}
    BY <2>1 DEF Charged
  <2>3. Cardinality(Charged') = 0
    BY <2>2, FS_EmptySet
  <2>4. sent' + Cardinality(Charged') <= base + calls[day]
    BY <1>1, <1>2, <2>1, <2>3
  <2>5. QED
    BY <1>2, <2>1, <2>4 DEF AllowanceInv, base
<1>8. ASSUME NEW atFront \in BOOLEAN, Publish(atFront) PROVE AllowanceInv'
    BY <1>3, <1>8 DEF Publish
<1>9. ASSUME NEW c \in Caller, NEW l, pc' = [pc EXCEPT ![c] = l], l # "send", pc[c] # "send",
             UNCHANGED <<day, calls, sent>>
      PROVE  AllowanceInv'
  <2>1. \A b \in Caller : pc'[b] = "send" <=> pc[b] = "send"
    BY <1>9 DEF CallerTypes
  <2>2. QED
    BY <1>3, <1>9, <2>1
<1>10. ASSUME NEW c \in Caller, NEW ok, EndLookup(c, ok), pc[c] # "send" PROVE AllowanceInv'
  <2>1. UNCHANGED <<day, calls, sent>> /\ \A b \in Caller : pc'[b] = "send" <=> pc[b] = "send"
    BY <1>10 DEF EndLookup, Woken, shared
  <2>2. QED
    BY <1>3, <2>1
<1>11. ASSUME NEW c \in Caller, Start(c) PROVE AllowanceInv'
  <2>1. UNCHANGED <<day, calls, sent>> /\ pc[c] = "idle"
    BY <1>11, Zenon DEF Start, LookupHit, LookupJoins, LookupRefused, LookupLeads, StartList, shared, Enter
  <2>2. \E l \in {"done", "waiting", "take"} : pc' = [pc EXCEPT ![c] = l]
    BY <1>11 DEF Start, LookupHit, LookupJoins, LookupRefused, LookupLeads, StartList, Enter
  <2>3. QED
    BY <1>9, <2>1, <2>2
<1>12. ASSUME NEW c \in Caller, TakeFails(c) \/ RequestFails(c) \/ RegionArrives(c) PROVE AllowanceInv'
  <2>1. CASE EndList(c, "failed") /\ pc[c] # "send"
    BY <1>9, <2>1 DEF EndList, shared
  <2>2. QED
    BY <1>10, <1>12, <2>1 DEF TakeFails, RequestFails, RegionArrives, Failed
<1>13. ASSUME NEW c \in Caller, Retry(c) \/ WaiterReturns(c) \/ WaiterGivesUp(c) \/ Return(c)
       PROVE  AllowanceInv'
    BY <1>9, <1>13 DEF Retry, WaiterReturns, WaiterGivesUp, Return, shared
<1>14. ASSUME NEW c \in Caller, NEW items, PageArrives(c, items) PROVE AllowanceInv'
  <2>1. pc[c] # "send" /\ UNCHANGED <<day, calls, sent>>
    BY <1>14 DEF PageArrives, shared
  <2>2. pc' = [pc EXCEPT ![c] = "done"] \/ pc' = [pc EXCEPT ![c] = "take"]
    BY <1>14, Zenon DEF PageArrives
  <2>3. QED
    BY <1>9, <2>1, <2>2
<1>15. ASSUME NEW c \in Caller, Start(c) \/ Step(c) \/ WaiterGivesUp(c) PROVE AllowanceInv'
    BY <1>4, <1>5, <1>11, <1>12, <1>13, <1>14, <1>15, Zenon DEF Step
<1>16. QED
    BY <1>6, <1>7, <1>8, <1>15, Zenon DEF Next

\* The attempts that have gone out never exceed the allowance of the days so far
\* (PostgresDailyCallBudget.Take before every attempt of request), for any number
\* of callers, retries, restarts and midnights.
THEOREM AllowanceIsKept == Spec => []AllowanceHolds
<1>1. Init => AllowanceInv
  <2> SUFFICES ASSUME Init PROVE AllowanceInv
    OBVIOUS
  <2>1. day = 1 /\ sent = 0 /\ \A d \in Day : calls[d] = 0
    BY DEF Init
  <2>2. Charged = {}
    BY DEF Init, Charged
  <2>3. Cardinality(Charged) = 0
    BY <2>2, FS_EmptySet
  <2>4. calls[day] = 0
    BY <2>1, Zeros
  <2>5. (day - 1) * Limit = 0
    BY <2>1
  <2>6. QED
    BY <2>1, <2>3, <2>4, <2>5 DEF AllowanceInv
<1>2. TypeOK /\ AllowanceInv /\ [Next]_vars => AllowanceInv'
  <2>1. UNCHANGED vars /\ AllowanceInv => AllowanceInv'
    BY DEF vars, AllowanceInv, Charged
  <2>2. QED
    BY <2>1, AllowanceStep
<1>3. TypeOK /\ AllowanceInv => AllowanceHolds
  <2> SUFFICES ASSUME TypeOK, AllowanceInv PROVE AllowanceHolds
    OBVIOUS
  <2>1. sent + Cardinality(Charged) <= (day - 1) * Limit + calls[day]
    BY DEF AllowanceInv
  <2>2. QED
    BY <2>1, ChargedFinite, DayNumbers DEF AllowanceHolds
<1>4. QED
    BY <1>1, <1>2, <1>3, ClientTypeCorrect, PTL DEF Spec
=============================================================================
