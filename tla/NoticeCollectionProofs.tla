------------------------ MODULE NoticeCollectionProofs ------------------------
(***************************************************************************)
(* For every number of collectors, notices, filters and rules:             *)
(*   - a match belongs to an enabled filter and was made with its rules;   *)
(*   - a stored region is not older than the rest of its notice;           *)
(*   - after a collection that no other ran beside, the matches are exactly *)
(*     what the matcher says, through every edit of a filter;              *)
(*   - as long as no collection loses its lock, nothing falls between two  *)
(*     collections.                                                        *)
(* The steps of a collection are first brought into kinds, by what they    *)
(* make of its variables; the invariants are shown kind by kind.           *)
(***************************************************************************)
EXTENDS NoticeCollection, TLAPS

\* What was loaded of a filter is its rules, as long as its revision is the same.
Loaded(s) ==
    /\ s[1] \in Filter
    /\ s[3] \in Nat /\ s[3] > 0 /\ s[3] < nextRev
    /\ rev[s[1]] = s[3] => rule[s[1]] = s[2]

\* Revisions come from the counter; an enabled filter has one.
RevisionsOK ==
    /\ nextRev \in Nat
    /\ nextRev > 0
    /\ DOMAIN rev = Filter
    /\ DOMAIN rule = Filter
    /\ \A f \in Filter : rev[f] \in Nat /\ rev[f] < nextRev
    /\ enabled \subseteq Filter
    /\ \A f \in enabled : rev[f] > 0

\* So do those in the hands of collectors.
SnapsOK ==
    /\ DOMAIN snap = Collector /\ DOMAIN judge = Collector
    /\ \A c \in Collector : \A s \in snap[c] \cup judge[c] : Loaded(s)

BelongInv == RevisionsOK /\ SnapsOK /\ MatchesBelong

-----------------------------------------------------------------------------
\* The rows of an edit are rows that were there, of other filters or with the same
\* rules, and rows of the edited filter with its rules.
LEMMA RefreshedRows ==
    ASSUME MatchesBelong, NEW f, NEW r, NEW m \in Refreshed(f, r)
    PROVE  \/ m \in match /\ (m.filter # f \/ (rule[f] = r /\ f \in enabled))
           \/ m.filter = f /\ m.rule = r
  <1>1. \/ m \in IF rule[f] = r THEN match \ MatchesOf(f, ActiveAt(now)) ELSE WithoutFilter(f)
        \/ \E n \in Notice : m = Match(f, n, r, stored[n].ver, stored[n].region)
    BY DEF Refreshed, ActiveAt
  <1>2. CASE \E n \in Notice : m = Match(f, n, r, stored[n].ver, stored[n].region)
    BY <1>2 DEF Match
  <1>3. CASE m \in IF rule[f] = r THEN match \ MatchesOf(f, ActiveAt(now)) ELSE WithoutFilter(f)
    <2>1. m \in match /\ (m.filter # f \/ rule[f] = r)
      BY <1>3 DEF WithoutFilter
    <2> QED
      BY <2>1 DEF MatchesBelong
  <1> QED
    BY <1>1, <1>2, <1>3

\* A new revision is none that anybody has loaded.
LEMMA NewRevisionKeeps ==
    ASSUME RevisionsOK, SnapsOK, NEW f \in Filter, NewRevision(f), UNCHANGED <<snap, judge>>,
           enabled' \subseteq enabled \cup {f},
           DOMAIN rule' = Filter, \A g \in Filter : g # f => rule'[g] = rule[g]
    PROVE  RevisionsOK' /\ SnapsOK'
  <1>1. /\ nextRev' \in Nat /\ nextRev' > 0 /\ nextRev' = nextRev + 1
        /\ DOMAIN rev' = Filter
        /\ rev'[f] = nextRev
        /\ \A g \in Filter : g # f => rev'[g] = rev[g]
    BY DEF NewRevision, RevisionsOK
  <1>2. RevisionsOK'
    BY <1>1 DEF RevisionsOK
  <1>3. ASSUME NEW s, Loaded(s) PROVE Loaded(s)'
    <2>1. s[1] \in Filter /\ s[3] \in Nat /\ s[3] > 0 /\ s[3] < nextRev'
      BY <1>1, <1>3 DEF Loaded, RevisionsOK
    <2>2. CASE s[1] = f
      BY <1>1, <1>3, <2>1, <2>2 DEF Loaded, RevisionsOK
    <2>3. CASE s[1] # f
      BY <1>1, <1>3, <2>1, <2>3 DEF Loaded
    <2> QED
      BY <2>2, <2>3
  <1>4. SnapsOK'
    BY <1>3 DEF SnapsOK
  <1> QED
    BY <1>2, <1>4

\* Every edit of a filter keeps the invariant.
LEMMA EditKeeps ==
    ASSUME BelongInv, NEW f \in Filter, Edit(f)
    PROVE  BelongInv'
  <1>1. ASSUME NEW r \in Rule, SaveFilter(f, r) PROVE BelongInv'
    <2>0. UNCHANGED <<snap, judge>> /\ match' = Refreshed(f, r)
      BY <1>1 DEF SaveFilter, runVars
    <2>1. CASE f \in enabled /\ rule[f] = r
      <3>1. UNCHANGED <<rule, rev, enabled, nextRev>>
        BY <1>1, <2>1 DEF SaveFilter, filterVars
      <3>2. RevisionsOK' /\ SnapsOK'
        BY <2>0, <3>1 DEF BelongInv, RevisionsOK, SnapsOK, Loaded
      <3>3. MatchesBelong'
        BY <2>0, <2>1, <3>1, RefreshedRows DEF BelongInv, MatchesBelong
      <3> QED
        BY <3>2, <3>3 DEF BelongInv
    <2>2. CASE ~(f \in enabled /\ rule[f] = r)
      <3>1. NewRevision(f) /\ rule' = [rule EXCEPT ![f] = r] /\ enabled' = enabled \cup {f}
        BY <1>1, <2>2 DEF SaveFilter
      <3>2. rule'[f] = r /\ DOMAIN rule' = Filter /\ \A g \in Filter : g # f => rule'[g] = rule[g]
        BY <3>1 DEF BelongInv, RevisionsOK
      <3>3. RevisionsOK' /\ SnapsOK'
        BY <2>0, <3>1, <3>2, NewRevisionKeeps DEF BelongInv
      <3>4. MatchesBelong'
        BY <2>0, <3>1, <3>2, RefreshedRows DEF BelongInv, MatchesBelong, RevisionsOK
      <3> QED
        BY <3>3, <3>4 DEF BelongInv
    <2> QED
      BY <2>1, <2>2
  <1>2. CASE EnableFilter(f)
    <2>1. /\ NewRevision(f) /\ enabled' = enabled \cup {f} /\ UNCHANGED <<rule, snap, judge>>
          /\ match' = Refreshed(f, rule[f])
      BY <1>2 DEF EnableFilter, runVars
    <2>2. RevisionsOK' /\ SnapsOK'
      BY <2>1, NewRevisionKeeps DEF BelongInv, RevisionsOK
    <2>3. MatchesBelong'
      BY <2>1, RefreshedRows DEF BelongInv, MatchesBelong
    <2> QED
      BY <2>2, <2>3 DEF BelongInv
  <1>3. CASE DisableFilter(f)
    <2>1. /\ NewRevision(f) /\ enabled' = enabled \ {f} /\ UNCHANGED <<rule, snap, judge>>
          /\ match' = WithoutFilter(f)
      BY <1>3 DEF DisableFilter, runVars
    <2>2. RevisionsOK' /\ SnapsOK'
      BY <2>1, NewRevisionKeeps DEF BelongInv, RevisionsOK
    <2>3. MatchesBelong'
      BY <2>1 DEF BelongInv, MatchesBelong, WithoutFilter
    <2> QED
      BY <2>2, <2>3 DEF BelongInv
  <1>4. CASE DeleteFilter(f)
    <2>1. /\ rev' = [rev EXCEPT ![f] = 0] /\ enabled' = enabled \ {f}
          /\ UNCHANGED <<rule, nextRev, snap, judge>>
          /\ match' = WithoutFilter(f)
      BY <1>4 DEF DeleteFilter, runVars
    <2>2. RevisionsOK'
      BY <2>1 DEF BelongInv, RevisionsOK
    <2>3. ASSUME NEW s, Loaded(s) PROVE Loaded(s)'
      BY <2>1, <2>3 DEF Loaded, BelongInv, RevisionsOK
    <2>4. SnapsOK'
      BY <2>1, <2>3 DEF BelongInv, SnapsOK
    <2>5. MatchesBelong'
      BY <2>1 DEF BelongInv, MatchesBelong, WithoutFilter
    <2> QED
      BY <2>2, <2>4, <2>5 DEF BelongInv
  <1> QED
    BY <1>1, <1>2, <1>3, <1>4 DEF Edit

-----------------------------------------------------------------------------
\* The row of a judgement carries the rules it was judged by.
LEMMA JudgedRows ==
    ASSUME NEW f, NEW n, NEW r, NEW v, NEW g, NEW m \in Judged(f, n, r, v, g)
    PROVE  m \in match \/ (m.filter = f /\ m.rule = r)
  <1>1. m \in match \/ m = Match(f, n, r, v, g)
    BY DEF Judged
  <1> QED
    BY <1>1 DEF Match

\* A judgement by a filter that is still the one loaded keeps the invariant.
LEMMA JudgeKeeps ==
    ASSUME BelongInv, NEW c \in Collector, JudgeMatch(c)
    PROVE  BelongInv'
  <1>1. PICK s \in judge[c] :
          /\ judge' = [judge EXCEPT ![c] = @ \ {s}]
          /\ match' = IF Eligible(s)
                        THEN Judged(s[1], mem[c].cur[1], s[2], mem[c].cur[2].ver, mem[c].cur[2].region)
                        ELSE match
    BY DEF JudgeMatch
  <1>2. UNCHANGED <<rule, rev, enabled, nextRev, snap>>
    BY DEF JudgeMatch, filterVars
  <1>3. RevisionsOK'
    BY <1>2 DEF BelongInv, RevisionsOK
  <1>4. SnapsOK'
    BY <1>1, <1>2 DEF BelongInv, SnapsOK, Loaded
  <1>5. MatchesBelong'
    <2>1. CASE Eligible(s)
      <3>1. s[1] \in enabled /\ rule[s[1]] = s[2]
        BY <2>1 DEF Eligible, BelongInv, SnapsOK, Loaded
      <3>2. \A m \in match' : m \in match \/ (m.filter = s[1] /\ m.rule = s[2])
        BY <1>1, <2>1, JudgedRows
      <3> QED
        BY <1>2, <3>1, <3>2 DEF BelongInv, MatchesBelong
    <2>2. CASE ~Eligible(s)
      BY <1>1, <1>2, <2>2 DEF BelongInv, MatchesBelong
    <2> QED
      BY <2>1, <2>2
  <1> QED
    BY <1>3, <1>4, <1>5 DEF BelongInv

\* The other steps leave filters and matches alone and load nothing but what the
\* filters are or what was loaded before.
Reads ==
    /\ UNCHANGED <<rule, rev, enabled, nextRev, match>>
    /\ DOMAIN snap' = Collector /\ DOMAIN judge' = Collector
    /\ \A c \in Collector : \A s \in snap'[c] \cup judge'[c] :
         \/ s \in snap[c] \cup judge[c]
         \/ \E f \in enabled : s = <<f, rule[f], rev[f]>>

\* Such a step keeps the invariant.
LEMMA ReadsKeeps ==
    ASSUME BelongInv, Reads
    PROVE  BelongInv'
  <1>1. RevisionsOK' /\ MatchesBelong'
    BY DEF BelongInv, RevisionsOK, MatchesBelong, Reads
  <1>2. \A f \in enabled : Loaded(<<f, rule[f], rev[f]>>)
    BY DEF Loaded, BelongInv, RevisionsOK
  <1>3. \A s : Loaded(s) => Loaded(s)'
    BY DEF Loaded, Reads
  <1>4. SnapsOK'
    BY <1>2, <1>3 DEF BelongInv, SnapsOK, Reads
  <1> QED
    BY <1>1, <1>4 DEF BelongInv

\* Every other step of a collection is of this kind.
LEMMA CollectReads ==
    ASSUME BelongInv, NEW c \in Collector, Collect(c) \/ RunFails(c) \/ LoseSession(c), ~JudgeMatch(c)
    PROVE  Reads
  <1> USE DEF Reads, BelongInv, SnapsOK, filterVars, loadedVars, runVars
  <1>1. CASE BeginRun(c)
    BY <1>1 DEF BeginRun
  <1>2. CASE EnabledFilters(c)
    BY <1>2 DEF EnabledFilters
  <1>3. CASE Fetch(c) \/ StoreNotice(c) \/ ActiveNotices(c)
    BY <1>3 DEF Fetch, StoreNotice, ActiveNotices
  <1>4. CASE NextNotice(c)
    BY <1>4, SMTT(30) DEF NextNotice
  <1>5. CASE LookupFound(c) \/ StoreEnriched(c) \/ LookupEmpty(c) \/ LookupFails(c)
    BY <1>5 DEF LookupFound, StoreEnriched, LookupEmpty, LookupFails
  <1>6. CASE FinishCollection(c)
    BY <1>6 DEF FinishCollection, Over
  <1>7. CASE RunFails(c)
    BY <1>7 DEF RunFails, Over
  <1>8. CASE LoseSession(c)
    BY <1>8 DEF LoseSession
  <1> QED
    BY <1>1, <1>2, <1>3, <1>4, <1>5, <1>6, <1>7, <1>8 DEF Collect

\* The procurement system and the clock touch none of this.
LEMMA OutsideReads ==
    ASSUME BelongInv, (\E n \in Notice : Publish(n) \/ List(n)) \/ Tick \/ UNCHANGED vars
    PROVE  Reads
  BY DEF Publish, List, Tick, vars, filterVars, runVars, Reads, BelongInv, SnapsOK

\* So every step keeps the invariant.
LEMMA BelongStep ==
    ASSUME BelongInv, [Next]_vars
    PROVE  BelongInv'
  <1>1. ASSUME NEW f \in Filter, Edit(f) PROVE BelongInv'
    BY <1>1, EditKeeps
  <1>2. ASSUME NEW c \in Collector, Collect(c) \/ RunFails(c) \/ LoseSession(c) PROVE BelongInv'
    BY <1>2, JudgeKeeps, CollectReads, ReadsKeeps
  <1>3. CASE (\E n \in Notice : Publish(n) \/ List(n)) \/ Tick \/ UNCHANGED vars
    BY <1>3, OutsideReads, ReadsKeeps
  <1> QED
    BY <1>1, <1>2, <1>3 DEF Next

\* A match belongs to an enabled filter and was made with the rules the filter has,
\* for any number of collectors, also after one of them lost its lock
\* (eligible_filter, saveFilter, toggleFilter, deleteFilter).
THEOREM MatchesOfTheirFilters == Spec => []MatchesBelong
  <1>1. Init => BelongInv
    BY DEF Init, BelongInv, RevisionsOK, SnapsOK, MatchesBelong
  <1>2. BelongInv /\ [Next]_vars => BelongInv'
    BY BelongStep
  <1>3. BelongInv => MatchesBelong
    BY DEF BelongInv
  <1> QED
    BY <1>1, <1>2, <1>3, PTL DEF Spec

-----------------------------------------------------------------------------
(***************************************************************************)
(* Types, with those of a collection's variables.                          *)
(***************************************************************************)

\* The constants that are numbers.
LEMMA Bounds ==
    /\ Overlap \in Nat /\ Lookback \in Nat /\ Delay \in Nat /\ MaxVersion \in Nat /\ MaxRev \in Nat
    /\ Grain \in Nat /\ Grain > 0 /\ MaxTime \in Nat /\ MaxTime > 0 /\ Delay <= Overlap
BY CollectionAssumption

Doc  == [ver : Version, region : Region, looked : BOOLEAN]
Item == [notice : Notice, ver : Version, region : Region]
Cur  == {<<>>} \cup (Notice \X Doc)
Mem  == [now : 0..MaxTime, start : Int, cat : Nat, batch : SUBSET Item, active : SUBSET (Notice \X Doc),
         look : BOOLEAN, lookups : Nat, cur : Cur]
Row  == Filter \X Rule \X (1..MaxRev)

\* A collection has a notice in its hands.
AtHand(c) == pc[c] \in {"lookup", "enrich"} \/ (pc[c] = "judge" /\ judge[c] # {})

SourceTypes ==
    /\ now \in 1..MaxTime
    /\ source \in [Notice -> [ver : 0..MaxVersion, at : 0..MaxTime, listed : BOOLEAN, region : BOOLEAN]]
    /\ \A n \in Notice : source[n].listed => source[n].ver > 0

StoredTypes == stored \in [Notice -> StoredNotice]

FilterTypes ==
    /\ rule \in [Filter -> Rule]
    /\ rev \in [Filter -> 0..MaxRev]
    /\ enabled \subseteq Filter
    /\ nextRev \in 1..(MaxRev + 1)

MatchTypes == match \subseteq [filter : Filter, notice : Notice, rule : Rule, ver : Version, region : Region]

RunTypes ==
    /\ pc \in [Collector -> Places]
    /\ snap \in [Collector -> SUBSET Row]
    /\ judge \in [Collector -> SUBSET Row]
    /\ mem \in [Collector -> Mem]

\* Where a collection is and what it has in its hands.
PlaceOK(c) ==
    /\ judge[c] \subseteq snap[c]
    /\ pc[c] \in {"idle", "filters", "fetch"} => judge[c] = {}
    /\ AtHand(c) => mem[c].cur \in Notice \X Doc
    /\ mem[c].start <= MaxTime

OtherTypes ==
    /\ lastSuccess \in 0..MaxTime /\ since \in 0..MaxTime
    /\ lock \in Collector \cup {NoProc}
    /\ settled \in {"no", "alone", "yes"}

TypeInv == /\ SourceTypes /\ StoredTypes /\ FilterTypes /\ MatchTypes /\ RunTypes /\ OtherTypes
           /\ \A c \in Collector : PlaceOK(c)

LEMMA TypeInvTypes ==
    ASSUME TypeInv
    PROVE  TypeOK
BY Zenon DEF TypeInv, TypeOK, SourceTypes, StoredTypes, FilterTypes, MatchTypes, RunTypes, OtherTypes, PlaceOK, Row

\* What a step of one collection leaves to the others.
OthersKept(c) ==
    \A d \in Collector : d # c =>
        pc'[d] = pc[d] /\ snap'[d] = snap[d] /\ judge'[d] = judge[d] /\ mem'[d] = mem[d]

\* The fields of a collection's memory that no step but its beginning and its end touches.
TimesKept(c) == mem'[c].now = mem[c].now /\ mem'[c].start = mem[c].start

\* The steps of a collection, with what they make of its variables.
BeginsRun(c) ==
    /\ pc[c] = "idle" /\ pc'[c] = "filters" /\ snap' = snap /\ judge' = judge
    /\ mem'[c] = [NoMem EXCEPT !.now = now, !.start = StartOf(lastSuccess, now)]
    /\ lock = NoProc /\ lock' = c
    /\ settled' = IF \A d \in Collector \ {c} : pc[d] = "idle" THEN "alone" ELSE "no"
    /\ UNCHANGED <<stored, match, lastSuccess, since>>

LoadsFilters(c) ==
    /\ pc[c] = "filters" /\ pc'[c] = "fetch" /\ judge' = judge
    /\ snap'[c] = {<<f, rule[f], rev[f]>> : f \in enabled}
    /\ TimesKept(c) /\ mem'[c].cat = mem[c].cat /\ mem'[c].batch = mem[c].batch
    /\ mem'[c].active = mem[c].active /\ mem'[c].cur = mem[c].cur
    /\ UNCHANGED <<stored, match, lastSuccess, lock, settled, since>>

Fetches(c) ==
    /\ pc[c] = "fetch" /\ mem[c].batch = {} /\ mem[c].cat <= Len(Category)
    /\ pc' = pc /\ snap' = snap /\ judge' = judge
    /\ TimesKept(c) /\ mem'[c].cat = mem[c].cat + 1
    /\ mem'[c].batch = Listing(Category[mem[c].cat], mem[c].start, mem[c].now)
    /\ mem'[c].active = mem[c].active /\ mem'[c].cur = mem[c].cur
    /\ UNCHANGED <<stored, match, lastSuccess, lock, settled, since>>

Stores(c, b) ==
    /\ pc[c] = "fetch" /\ pc' = pc /\ snap' = snap /\ judge' = judge
    /\ stored' = [stored EXCEPT ![b.notice] = Merged(stored[b.notice], b.ver, b.region)]
    /\ TimesKept(c) /\ mem'[c].cat = mem[c].cat /\ mem'[c].batch = mem[c].batch \ {b}
    /\ mem'[c].active = mem[c].active /\ mem'[c].cur = mem[c].cur
    /\ UNCHANGED <<match, lastSuccess, lock, settled, since>>

TakesActive(c) ==
    /\ pc[c] = "fetch" /\ pc'[c] = "judge" /\ mem[c].batch = {} /\ mem[c].cat > Len(Category)
    /\ snap' = snap /\ judge' = judge
    /\ TimesKept(c) /\ mem'[c].cat = mem[c].cat /\ mem'[c].batch = mem[c].batch
    /\ mem'[c].active = {<<n, stored[n]>> : n \in ActiveAt(mem[c].now)} /\ mem'[c].cur = mem[c].cur
    /\ UNCHANGED <<stored, match, lastSuccess, lock, settled, since>>

TakesNotice(c, a) ==
    /\ pc[c] = "judge" /\ judge[c] = {} /\ judge'[c] = snap[c] /\ snap' = snap
    /\ pc'[c] \in {"lookup", "judge"} /\ (pc'[c] = "lookup" => a[2].region = 0)
    /\ TimesKept(c) /\ mem'[c].cat = mem[c].cat /\ mem'[c].batch = mem[c].batch
    /\ mem'[c].active = mem[c].active \ {a} /\ mem'[c].cur = a
    /\ UNCHANGED <<stored, match, lastSuccess, lock, settled, since>>

FindsRegion(c) ==
    /\ pc[c] = "lookup" /\ pc'[c] = "enrich" /\ snap' = snap /\ judge' = judge
    /\ TimesKept(c) /\ mem'[c].cat = mem[c].cat /\ mem'[c].batch = mem[c].batch
    /\ mem'[c].active = mem[c].active
    /\ mem'[c].cur \in Notice \X Doc
    /\ mem'[c].cur[1] = mem[c].cur[1] /\ mem'[c].cur[2].ver = mem[c].cur[2].ver
    /\ mem'[c].cur[2].region = source[mem[c].cur[1]].ver
    /\ UNCHANGED <<stored, match, lastSuccess, lock, settled, since>>

Enriches(c) ==
    /\ pc[c] = "enrich" /\ pc'[c] = "judge" /\ snap' = snap /\ judge' = judge /\ mem' = mem
    /\ stored' = [stored EXCEPT ![mem[c].cur[1]] =
                    Merged(stored[mem[c].cur[1]], mem[c].cur[2].ver, mem[c].cur[2].region)]
    /\ UNCHANGED <<match, lastSuccess, lock, settled, since>>

FindsNone(c) ==
    /\ pc[c] = "lookup" /\ pc'[c] = "judge" /\ snap' = snap /\ judge' = judge
    /\ TimesKept(c) /\ mem'[c].cat = mem[c].cat /\ mem'[c].batch = mem[c].batch
    /\ mem'[c].active = mem[c].active /\ mem'[c].cur = mem[c].cur
    /\ stored' = [stored EXCEPT ![mem[c].cur[1]].looked = TRUE] \/ stored' = stored
    /\ UNCHANGED <<match, lastSuccess, lock, settled, since>>

Judges(c, s) ==
    /\ pc[c] = "judge" /\ pc' = pc /\ snap' = snap /\ mem' = mem /\ judge'[c] = judge[c] \ {s}
    /\ match' = IF Eligible(s)
                  THEN Judged(s[1], mem[c].cur[1], s[2], mem[c].cur[2].ver, mem[c].cur[2].region) ELSE match
    /\ UNCHANGED <<stored, lastSuccess, lock, settled, since>>

Ends(c) ==
    /\ pc[c] # "idle" /\ pc'[c] = "idle" /\ snap'[c] = {} /\ judge'[c] = {} /\ mem'[c] = NoMem
    /\ lock' = IF lock = c THEN NoProc ELSE lock
    /\ UNCHANGED <<stored, match>>

Succeeds(c) ==
    /\ Ends(c)
    /\ pc[c] = "judge" /\ judge[c] = {} /\ mem[c].active = {}
    /\ lastSuccess' = mem[c].now
    /\ settled' = IF lock = c /\ settled = "alone" THEN "yes" ELSE settled
    /\ since' = IF lastSuccess = 0 /\ mem[c].start > 0 THEN mem[c].start ELSE since

Fails(c) == Ends(c) /\ settled' = "no" /\ UNCHANGED <<lastSuccess, since>>

Loses(c) == /\ SessionLoss /\ lock = c /\ lock' = NoProc /\ UNCHANGED runVars
            /\ UNCHANGED <<stored, match, lastSuccess, settled, since>>

Acts(c) ==
    \/ BeginsRun(c) \/ LoadsFilters(c) \/ Fetches(c) \/ (\E b \in mem[c].batch : Stores(c, b)) \/ TakesActive(c)
    \/ (\E a \in mem[c].active : TakesNotice(c, a)) \/ FindsRegion(c) \/ Enriches(c) \/ FindsNone(c)
    \/ (\E s \in judge[c] : Judges(c, s)) \/ Succeeds(c) \/ Fails(c) \/ Loses(c)

LEMMA EnrichedCur ==
    ASSUME NEW a \in Notice \X Doc, NEW v \in Region
    PROVE  /\ [a EXCEPT ![2].region = v] \in Notice \X Doc
           /\ [a EXCEPT ![2].region = v][1] = a[1]
           /\ [a EXCEPT ![2].region = v][2].ver = a[2].ver
           /\ [a EXCEPT ![2].region = v][2].region = v
<1>1. PICK x \in Notice, d \in Doc : a = <<x, d>>
    OBVIOUS
<1>2. [d EXCEPT !.region = v] \in Doc /\ [d EXCEPT !.region = v].ver = d.ver /\ [d EXCEPT !.region = v].region = v
    BY DEF Doc
<1>3. PICK e \in Doc : e = [d EXCEPT !.region = v]
    BY <1>2
<1>4. [a EXCEPT ![2].region = v] = <<x, e>>
  <2>1. a[2] = d
    BY <1>1
  <2>2. [a EXCEPT ![2] = e] = <<x, e>>
    BY <1>1
  <2>3. QED
    BY <1>3, <2>1, <2>2
<1>5. e.ver = d.ver /\ e.region = v /\ a[1] = x /\ a[2] = d
    BY <1>1, <1>2, <1>3
<1>6. <<x, e>> \in Notice \X Doc /\ <<x, e>>[1] = a[1] /\ <<x, e>>[2].ver = a[2].ver /\ <<x, e>>[2].region = v
    BY <1>5
<1>7. QED
    BY <1>4, <1>6, Zenon

LEMMA Kinds ==
    ASSUME SourceTypes, RunTypes, NEW c \in Collector, PlaceOK(c), Collect(c) \/ RunFails(c) \/ LoseSession(c)
    PROVE  Acts(c) /\ OthersKept(c) /\ UNCHANGED <<now, source, rule, rev, enabled, nextRev>>
<1> USE DEF OthersKept, filterVars, loadedVars, runVars, Goto
<1> DEFINE Fixed == UNCHANGED <<now, source, rule, rev, enabled, nextRev>>
<1>1. ASSUME BeginRun(c) PROVE BeginsRun(c) /\ OthersKept(c) /\ Fixed
    BY <1>1 DEF BeginRun, BeginsRun, RunTypes
<1>2. ASSUME EnabledFilters(c) PROVE LoadsFilters(c) /\ OthersKept(c) /\ Fixed
    BY <1>2 DEF EnabledFilters, LoadsFilters, RunTypes, Mem, TimesKept
<1>3. ASSUME Fetch(c) PROVE Fetches(c) /\ OthersKept(c) /\ Fixed
    BY <1>3 DEF Fetch, Fetches, RunTypes, Mem, TimesKept
<1>4. ASSUME StoreNotice(c) PROVE (\E b \in mem[c].batch : Stores(c, b)) /\ OthersKept(c) /\ Fixed
  <2>1. PICK b \in mem[c].batch :
          /\ stored' = [stored EXCEPT ![b.notice] = Merged(stored[b.notice], b.ver, b.region)]
          /\ mem' = [mem EXCEPT ![c].batch = @ \ {b}]
    BY <1>4, Zenon DEF StoreNotice
  <2>2. /\ TimesKept(c) /\ mem'[c].cat = mem[c].cat /\ mem'[c].batch = mem[c].batch \ {b}
        /\ mem'[c].active = mem[c].active /\ mem'[c].cur = mem[c].cur
        /\ \A d \in Collector : d # c => mem'[d] = mem[d]
    BY <2>1 DEF RunTypes, Mem, TimesKept
  <2>3. /\ pc[c] = "fetch" /\ UNCHANGED <<now, source, lastSuccess, rule, rev, enabled, nextRev>>
        /\ UNCHANGED <<match, lock, pc, snap, judge, settled, since>>
    BY <1>4, Zenon DEF StoreNotice
  <2>4. Stores(c, b)
    BY <2>1, <2>2, <2>3, Zenon DEF Stores
  <2>5. QED
    BY <2>2, <2>3, <2>4, Zenon
<1>5. ASSUME ActiveNotices(c) PROVE TakesActive(c) /\ OthersKept(c) /\ Fixed
    BY <1>5 DEF ActiveNotices, TakesActive, RunTypes, Mem, TimesKept
<1>6. ASSUME NextNotice(c) PROVE (\E a \in mem[c].active : TakesNotice(c, a)) /\ OthersKept(c) /\ Fixed
  <2>1. PICK a \in mem[c].active :
          /\ mem' = [mem EXCEPT ![c].active = @ \ {a}, ![c].cur = a]
          /\ pc' = [pc EXCEPT ![c] = IF a[2].region = 0 /\ ~a[2].looked /\ mem[c].look THEN "lookup" ELSE "judge"]
    BY <1>6, Zenon DEF NextNotice
  <2>2. TakesNotice(c, a)
    BY <1>6, <2>1 DEF NextNotice, NoticeDone, TakesNotice, RunTypes, Mem, TimesKept
  <2>3. QED
    BY <1>6, <2>1, <2>2 DEF NextNotice, RunTypes
<1>7. ASSUME LookupFound(c) PROVE FindsRegion(c) /\ OthersKept(c) /\ Fixed
  <2>1. mem[c].cur \in Notice \X Doc
    BY <1>7 DEF LookupFound, PlaceOK, AtHand
  <2>2. /\ pc[c] = "lookup" /\ pc' = [pc EXCEPT ![c] = "enrich"]
        /\ mem' = [mem EXCEPT ![c].cur[2].region = source[mem[c].cur[1]].ver, ![c].lookups = @ + 1]
        /\ UNCHANGED <<now, source, lastSuccess, rule, rev, enabled, nextRev>>
        /\ UNCHANGED <<stored, match, lock, snap, judge, settled, since>>
    BY <1>7, Zenon DEF LookupFound
  <2>3. /\ TimesKept(c) /\ mem'[c].cat = mem[c].cat /\ mem'[c].batch = mem[c].batch
        /\ mem'[c].active = mem[c].active
    BY <2>2 DEF RunTypes, Mem, TimesKept
  <2>4. /\ mem'[c].cur \in Notice \X Doc
        /\ mem'[c].cur[1] = mem[c].cur[1] /\ mem'[c].cur[2].ver = mem[c].cur[2].ver
        /\ mem'[c].cur[2].region = source[mem[c].cur[1]].ver
    <3>1. PICK v \in Region : v = source[mem[c].cur[1]].ver
      BY <2>1 DEF SourceTypes, Region
    <3>2. mem'[c].cur = [mem[c].cur EXCEPT ![2].region = v]
      BY <2>2, <3>1 DEF RunTypes, Mem
    <3>3. QED
      BY <2>1, <3>1, <3>2, EnrichedCur
  <2>5. pc'[c] = "enrich" /\ \A d \in Collector : d # c => pc'[d] = pc[d] /\ mem'[d] = mem[d]
    BY <2>2 DEF RunTypes
  <2>6. FindsRegion(c)
    BY <2>2, <2>3, <2>4, <2>5, Zenon DEF FindsRegion
  <2>7. QED
    BY <2>2, <2>5, <2>6, Zenon
<1>8. ASSUME StoreEnriched(c) PROVE Enriches(c) /\ OthersKept(c) /\ Fixed
    BY <1>8 DEF StoreEnriched, Enriches, RunTypes
<1>9. ASSUME LookupEmpty(c) \/ LookupFails(c) PROVE FindsNone(c) /\ OthersKept(c) /\ Fixed
  <2>1. CASE LookupEmpty(c)
    BY <2>1 DEF LookupEmpty, FindsNone, RunTypes, Mem, TimesKept
  <2>2. CASE LookupFails(c)
    BY <2>2 DEF LookupFails, FindsNone, RunTypes, Mem, TimesKept
  <2>3. QED
    BY <1>9, <2>1, <2>2
<1>10. ASSUME JudgeMatch(c) PROVE (\E s \in judge[c] : Judges(c, s)) /\ OthersKept(c) /\ Fixed
  <2>1. PICK s \in judge[c] :
          /\ judge' = [judge EXCEPT ![c] = @ \ {s}]
          /\ match' = IF Eligible(s)
                        THEN Judged(s[1], mem[c].cur[1], s[2], mem[c].cur[2].ver, mem[c].cur[2].region)
                        ELSE match
    BY <1>10, Zenon DEF JudgeMatch
  <2>2. judge'[c] = judge[c] \ {s}
    BY <2>1 DEF RunTypes
  <2>3. Judges(c, s)
    BY <1>10, <2>1, <2>2, Zenon DEF JudgeMatch, Judges
  <2>4. QED
    BY <1>10, <2>1, <2>3 DEF JudgeMatch, RunTypes
<1>11. ASSUME Over(c), pc[c] # "idle", UNCHANGED <<now, source, stored, filterVars, match>>
       PROVE  Ends(c) /\ OthersKept(c) /\ Fixed
    BY <1>11 DEF Over, Ends, RunTypes
<1>12. ASSUME FinishCollection(c) PROVE Succeeds(c) /\ OthersKept(c) /\ Fixed
  <2>1. /\ Over(c) /\ pc[c] = "judge" /\ judge[c] = {} /\ mem[c].active = {} /\ lastSuccess' = mem[c].now
        /\ Settle(c) /\ UNCHANGED <<now, source, stored, filterVars, match>>
    BY <1>12, Zenon DEF FinishCollection, NoticeDone
  <2>2. QED
    BY <1>11, <2>1 DEF Succeeds, Settle
<1>13. ASSUME RunFails(c) PROVE Fails(c) /\ OthersKept(c) /\ Fixed
    BY <1>11, <1>13 DEF RunFails, Fails
<1>14. ASSUME LoseSession(c) PROVE Loses(c) /\ OthersKept(c) /\ Fixed
    BY <1>14 DEF LoseSession, Loses
<1> HIDE DEF Fixed
<1>15. OthersKept(c) /\ Fixed
    BY <1>1, <1>2, <1>3, <1>4, <1>5, <1>6, <1>7, <1>8, <1>9, <1>10, <1>12, <1>13, <1>14 DEF Collect
<1>16. Acts(c)
    BY <1>1, <1>2, <1>3, <1>4, <1>5, <1>6, <1>7, <1>8, <1>9, <1>10, <1>12, <1>13, <1>14 DEF Collect, Acts
<1>17. QED
    BY <1>15, <1>16 DEF Fixed

-----------------------------------------------------------------------------
\* What a collection begins with, what it is answered and what it loads have their types.
LEMMA RunData ==
    ASSUME TypeInv, RevisionsOK
    PROVE  /\ NoMem \in Mem /\ StartOf(lastSuccess, now) \in Int /\ StartOf(lastSuccess, now) <= MaxTime
           /\ \A cat, from, to : Listing(cat, from, to) \subseteq Item
           /\ \A t : {<<n, stored[n]>> : n \in ActiveAt(t)} \subseteq Notice \X Doc
           /\ {<<f, rule[f], rev[f]>> : f \in enabled} \subseteq Row
<1>1. NoMem \in Mem
    BY Bounds DEF NoMem, Mem, Cur
<1>2. StartOf(lastSuccess, now) \in Int /\ StartOf(lastSuccess, now) <= MaxTime
    BY Bounds DEF StartOf, TypeInv, OtherTypes, SourceTypes
<1>3. ASSUME NEW cat, NEW from, NEW to PROVE Listing(cat, from, to) \subseteq Item
    BY Bounds DEF Listing, Item, TypeInv, SourceTypes, Version, Region
<1>4. ASSUME NEW t PROVE {<<n, stored[n]>> : n \in ActiveAt(t)} \subseteq Notice \X Doc
    BY DEF ActiveAt, Doc, TypeInv, StoredTypes, StoredNotice, Version, Region
<1>5. {<<f, rule[f], rev[f]>> : f \in enabled} \subseteq Row
    BY DEF Row, TypeInv, FilterTypes, RevisionsOK
<1>6. QED
    BY <1>1, <1>2, <1>3, <1>4, <1>5

\* So has a collection's memory as its steps change it.
LEMMA MemUpdate ==
    ASSUME NEW m \in Mem
    PROVE  /\ \A t \in 0..MaxTime : [m EXCEPT !.now = t] \in Mem
           /\ \A s \in Int : [m EXCEPT !.start = s] \in Mem
           /\ [m EXCEPT !.look = TRUE] \in Mem /\ [m EXCEPT !.look = FALSE] \in Mem
           /\ \A L \in SUBSET Item : [m EXCEPT !.batch = L] \in Mem
           /\ [m EXCEPT !.cat = @ + 1] \in Mem
           /\ \A A \in SUBSET (Notice \X Doc) : [m EXCEPT !.active = A] \in Mem
           /\ \A x \in Cur : [m EXCEPT !.cur = x] \in Mem
           /\ [m EXCEPT !.lookups = @ + 1] \in Mem
<1>1. \A t \in 0..MaxTime : [m EXCEPT !.now = t] \in Mem
    BY DEF Mem
<1>2. \A s \in Int : [m EXCEPT !.start = s] \in Mem
    BY DEF Mem
<1>3. [m EXCEPT !.look = TRUE] \in Mem /\ [m EXCEPT !.look = FALSE] \in Mem
    BY DEF Mem
<1>4. \A L \in SUBSET Item : [m EXCEPT !.batch = L] \in Mem
    BY DEF Mem
<1>5. [m EXCEPT !.cat = @ + 1] \in Mem
    BY DEF Mem
<1>6. \A A \in SUBSET (Notice \X Doc) : [m EXCEPT !.active = A] \in Mem
    BY DEF Mem
<1>7. \A x \in Cur : [m EXCEPT !.cur = x] \in Mem
    BY DEF Mem
<1>8. [m EXCEPT !.lookups = @ + 1] \in Mem
    BY DEF Mem
<1>9. QED
    BY <1>1, <1>2, <1>3, <1>4, <1>5, <1>6, <1>7, <1>8

\* Two fields at once.
LEMMA MemUpdates ==
    ASSUME NEW m \in Mem
    PROVE  /\ \A t \in 0..MaxTime, s \in Int : [m EXCEPT !.now = t, !.start = s] \in Mem
           /\ \A L \in SUBSET Item : [m EXCEPT !.batch = L, !.cat = @ + 1] \in Mem
           /\ \A A \in SUBSET (Notice \X Doc), x \in Cur : [m EXCEPT !.active = A, !.cur = x] \in Mem
           /\ \A x \in Cur : [m EXCEPT !.cur = x, !.lookups = @ + 1] \in Mem
<1>1. ASSUME NEW t \in 0..MaxTime, NEW s \in Int PROVE [m EXCEPT !.now = t, !.start = s] \in Mem
  <2>1. [m EXCEPT !.now = t] \in Mem
    BY MemUpdate
  <2>2. QED
    BY <2>1, MemUpdate, Zenon
<1>2. ASSUME NEW L \in SUBSET Item PROVE [m EXCEPT !.batch = L, !.cat = @ + 1] \in Mem
  <2>1. [m EXCEPT !.batch = L] \in Mem
    BY MemUpdate
  <2>2. QED
    BY <2>1, MemUpdate, Zenon
<1>3. ASSUME NEW A \in SUBSET (Notice \X Doc), NEW x \in Cur PROVE [m EXCEPT !.active = A, !.cur = x] \in Mem
  <2>1. [m EXCEPT !.active = A] \in Mem
    BY MemUpdate
  <2>2. QED
    BY <2>1, MemUpdate, Zenon
<1>4. ASSUME NEW x \in Cur PROVE [m EXCEPT !.cur = x, !.lookups = @ + 1] \in Mem
  <2>1. [m EXCEPT !.cur = x] \in Mem
    BY MemUpdate
  <2>2. QED
    BY <2>1, MemUpdate, Zenon
<1>5. QED
    BY <1>1, <1>2, <1>3, <1>4

LEMMA RunTypesKept ==
    ASSUME TypeInv, RevisionsOK, NEW c \in Collector, Collect(c) \/ RunFails(c) \/ LoseSession(c)
    PROVE  RunTypes'
<1> USE DEF filterVars, loadedVars, runVars, Goto
<1>0. /\ NoMem \in Mem /\ mem[c] \in Mem /\ mem \in [Collector -> Mem] /\ pc \in [Collector -> Places]
      /\ snap \in [Collector -> SUBSET Row] /\ judge \in [Collector -> SUBSET Row]
    BY RunData DEF TypeInv, RunTypes
<1>a. ASSUME NEW m \in Mem, mem' = [mem EXCEPT ![c] = m] PROVE mem' \in [Collector -> Mem]
    BY <1>0, <1>a
<1>b. ASSUME NEW p \in Places, pc' = [pc EXCEPT ![c] = p] PROVE pc' \in [Collector -> Places]
    BY <1>0, <1>b
<1>c. "idle" \in Places /\ "filters" \in Places /\ "fetch" \in Places /\ "judge" \in Places
      /\ "lookup" \in Places /\ "enrich" \in Places
    BY DEF Places
<1>1. CASE BeginRun(c)
  <2>1. [NoMem EXCEPT !.now = now, !.start = StartOf(lastSuccess, now)] \in Mem
    <3>1. now \in 0..MaxTime
      BY DEF TypeInv, SourceTypes
    <3>2. QED
      BY <1>0, <3>1, MemUpdate, MemUpdates, RunData
  <2>2. QED
    BY <1>0, <1>1, <1>a, <1>b, <1>c, <2>1, Zenon DEF BeginRun, RunTypes
<1>2. CASE EnabledFilters(c)
  <2>1. [mem[c] EXCEPT !.look = (enabled # {})] \in Mem
    BY <1>0 DEF Mem
  <2>2. mem' \in [Collector -> Mem] /\ pc' \in [Collector -> Places]
    BY <1>2, <1>a, <1>b, <1>c, <2>1, Zenon DEF EnabledFilters
  <2>3. snap' = [snap EXCEPT ![c] = {<<f, rule[f], rev[f]>> : f \in enabled}] /\ judge' = judge
    BY <1>2, Zenon DEF EnabledFilters
  <2>4. snap' \in [Collector -> SUBSET Row]
    BY <1>0, <2>3, RunData
  <2>5. QED
    BY <1>0, <2>2, <2>3, <2>4 DEF RunTypes
<1>3. CASE Fetch(c)
  <2>1. PICK L \in SUBSET Item : L = Listing(Category[mem[c].cat], mem[c].start, mem[c].now)
    BY RunData
  <2>2. mem' = [mem EXCEPT ![c].batch = L, ![c].cat = @ + 1] /\ UNCHANGED <<pc, snap, judge>>
    BY <1>3, <2>1, Zenon DEF Fetch
  <2>3. mem' = [mem EXCEPT ![c] = [mem[c] EXCEPT !.batch = L, !.cat = @ + 1]]
    BY <1>0, <2>2
  <2>4. QED
    BY <1>0, <1>a, <2>2, <2>3, MemUpdate, MemUpdates DEF RunTypes
<1>4. CASE StoreNotice(c)
  <2>1. PICK b \in mem[c].batch : mem' = [mem EXCEPT ![c].batch = @ \ {b}]
    BY <1>4, Zenon DEF StoreNotice
  <2>2. mem[c].batch \ {b} \in SUBSET Item
    BY <1>0 DEF Mem
  <2>3. mem' \in [Collector -> Mem]
    BY <1>0, <1>a, <2>1, <2>2, MemUpdate, MemUpdates
  <2>4. QED
    BY <1>0, <1>4, <2>3, Zenon DEF StoreNotice, RunTypes
<1>5. CASE ActiveNotices(c)
  <2>1. PICK A \in SUBSET (Notice \X Doc) : A = {<<n, stored[n]>> : n \in ActiveAt(mem[c].now)}
    BY RunData
  <2>2. mem' = [mem EXCEPT ![c].active = A] /\ pc' = [pc EXCEPT ![c] = "judge"] /\ UNCHANGED <<snap, judge>>
    BY <1>5, <2>1, Zenon DEF ActiveNotices
  <2>3. QED
    BY <1>0, <1>a, <1>b, <1>c, <2>2, MemUpdate, MemUpdates DEF RunTypes
<1>6. CASE NextNotice(c)
  <2>1. PICK a \in mem[c].active :
          /\ mem' = [mem EXCEPT ![c].active = @ \ {a}, ![c].cur = a]
          /\ pc' = [pc EXCEPT ![c] = IF a[2].region = 0 /\ ~a[2].looked /\ mem[c].look THEN "lookup" ELSE "judge"]
    BY <1>6, Zenon DEF NextNotice
  <2>2. judge' = [judge EXCEPT ![c] = snap[c]] /\ snap' = snap
    BY <1>6, Zenon DEF NextNotice
  <2>3. mem[c].active \ {a} \in SUBSET (Notice \X Doc) /\ a \in Cur
    BY <1>0 DEF Mem, Cur
  <2>4. mem' = [mem EXCEPT ![c] = [mem[c] EXCEPT !.active = mem[c].active \ {a}, !.cur = a]]
    BY <1>0, <2>1 DEF Mem
  <2>5. mem' \in [Collector -> Mem]
    BY <1>0, <1>a, <2>3, <2>4, MemUpdate, MemUpdates
  <2>6. pc' \in [Collector -> Places]
    BY <1>b, <1>c, <2>1, Zenon
  <2>7. QED
    BY <1>0, <2>2, <2>5, <2>6 DEF RunTypes
<1>7. CASE LookupFound(c)
  <2>1. mem[c].cur \in Notice \X Doc
    BY <1>7 DEF LookupFound, PlaceOK, AtHand, TypeInv
  <2>2. PICK v \in Region : v = source[mem[c].cur[1]].ver
    BY <2>1 DEF TypeInv, SourceTypes, Region
  <2>3. [mem[c].cur EXCEPT ![2].region = v] \in Cur
    BY <2>1, EnrichedCur DEF Cur
  <2>4. /\ mem' = [mem EXCEPT ![c].cur[2].region = v, ![c].lookups = @ + 1]
        /\ pc' = [pc EXCEPT ![c] = "enrich"] /\ UNCHANGED <<snap, judge>>
    BY <1>7, <2>2, Zenon DEF LookupFound
  <2>5. mem' = [mem EXCEPT ![c] = [mem[c] EXCEPT !.cur = [mem[c].cur EXCEPT ![2].region = v], !.lookups = @ + 1]]
    BY <1>0, <2>4 DEF Mem
  <2>6. QED
    BY <1>0, <1>a, <1>b, <1>c, <2>3, <2>4, <2>5, MemUpdate, MemUpdates DEF RunTypes
<1>8. CASE StoreEnriched(c)
    BY <1>0, <1>8, <1>b, <1>c, Zenon DEF StoreEnriched, RunTypes
<1>9. ASSUME LookupEmpty(c) \/ LookupFails(c) PROVE RunTypes'
  <2>1. /\ \/ mem' = [mem EXCEPT ![c].lookups = @ + 1]
           \/ mem' = [mem EXCEPT ![c].look = FALSE]
        /\ pc' = [pc EXCEPT ![c] = "judge"] /\ UNCHANGED <<snap, judge>>
    BY <1>9, Zenon DEF LookupEmpty, LookupFails
  <2>2. mem' \in [Collector -> Mem]
    BY <1>0, <1>a, <2>1, MemUpdate, MemUpdates
  <2>3. QED
    BY <1>0, <1>b, <1>c, <2>1, <2>2 DEF RunTypes
<1>11. CASE JudgeMatch(c)
    BY <1>0, <1>11 DEF JudgeMatch, RunTypes
<1>12. CASE Over(c)
    BY <1>0, <1>b, <1>c, <1>12 DEF Over, RunTypes
<1>13. CASE LoseSession(c)
    BY <1>0, <1>13, Zenon DEF LoseSession, RunTypes
<1>14. QED
    BY <1>1, <1>2, <1>3, <1>4, <1>5, <1>6, <1>7, <1>8, <1>9, <1>11, <1>12, <1>13, Zenon
       DEF Collect, FinishCollection, RunFails

LEMMA MergedType ==
    ASSUME NEW old \in StoredNotice, NEW v \in Version, NEW g \in Region
    PROVE  Merged(old, v, g) \in StoredNotice
BY DEF Merged, StoredNotice, Version, Region

\* So does a row of a judgement.
LEMMA JudgedTypes ==
    ASSUME MatchTypes, NEW f \in Filter, NEW n \in Notice, NEW r \in Rule, NEW v \in Version, NEW g \in Region
    PROVE  Judged(f, n, r, v, g) \subseteq
             [filter : Filter, notice : Notice, rule : Rule, ver : Version, region : Region]
BY DEF Judged, Match, MatchTypes

LEMMA RefreshedTypes ==
    ASSUME MatchTypes, StoredTypes, NEW f \in Filter, NEW r \in Rule
    PROVE  Refreshed(f, r) \subseteq
             [filter : Filter, notice : Notice, rule : Rule, ver : Version, region : Region]
<1>1. ASSUME NEW n \in ActiveAt(now)
      PROVE  Match(f, n, r, stored[n].ver, stored[n].region) \in
               [filter : Filter, notice : Notice, rule : Rule, ver : Version, region : Region]
    BY DEF ActiveAt, Match, StoredTypes, StoredNotice, Version
<1>2. QED
    BY <1>1, Zenon DEF Refreshed, MatchTypes, WithoutFilter

\* Every step of a collection keeps the types.
LEMMA CollectTypes ==
    ASSUME TypeInv, RevisionsOK, NEW c \in Collector, Collect(c) \/ RunFails(c) \/ LoseSession(c)
    PROVE  TypeInv'
<1>1. /\ Acts(c) /\ OthersKept(c) /\ UNCHANGED <<now, source, rule, rev, enabled, nextRev>>
      /\ RunTypes' /\ PlaceOK(c) /\ mem[c] \in Mem
    BY Kinds, RunTypesKept DEF TypeInv, RunTypes
<1>2. SourceTypes' /\ FilterTypes'
    BY <1>1, Zenon DEF TypeInv, SourceTypes, FilterTypes
<1>3. AtHand(c) => mem[c].cur[1] \in Notice /\ mem[c].cur[2].ver \in Version /\ mem[c].cur[2].region \in Region
    BY <1>1 DEF PlaceOK, Doc
<1>4. StoredTypes'
  <2> USE DEF TypeInv, StoredTypes
  <2>1. ASSUME NEW b \in mem[c].batch, Stores(c, b) PROVE StoredTypes'
    <3>1. b.notice \in Notice /\ b.ver \in Version /\ b.region \in Region
      BY <1>1 DEF Mem, Item
    <3>2. Merged(stored[b.notice], b.ver, b.region) \in StoredNotice
      BY <3>1, MergedType
    <3>3. QED
      BY <2>1, <3>1, <3>2 DEF Stores
  <2>2. CASE Enriches(c)
    <3>1. AtHand(c)
      BY <2>2 DEF Enriches, AtHand
    <3>2. Merged(stored[mem[c].cur[1]], mem[c].cur[2].ver, mem[c].cur[2].region) \in StoredNotice
      BY <1>3, <3>1, MergedType
    <3>3. QED
      BY <1>3, <2>2, <3>1, <3>2 DEF Enriches
  <2>3. CASE FindsNone(c)
    <3>1. AtHand(c)
      BY <2>3 DEF FindsNone, AtHand
    <3>2. QED
      BY <1>3, <2>3, <3>1 DEF FindsNone, StoredNotice
  <2>4. CASE stored' = stored
    BY <2>4
  <2>5. QED
    BY <1>1, <2>1, <2>2, <2>3, <2>4, Zenon
       DEF Acts, BeginsRun, LoadsFilters, Fetches, TakesActive, TakesNotice, FindsRegion, Judges,
           Succeeds, Fails, Ends, Loses
<1>5. MatchTypes'
  <2>1. ASSUME NEW s \in judge[c], Judges(c, s) PROVE MatchTypes'
    <3>1. s[1] \in Filter /\ s[2] \in Rule /\ AtHand(c)
      BY <2>1 DEF TypeInv, RunTypes, Row, AtHand, Judges
    <3>2. Judged(s[1], mem[c].cur[1], s[2], mem[c].cur[2].ver, mem[c].cur[2].region) \subseteq
            [filter : Filter, notice : Notice, rule : Rule, ver : Version, region : Region]
      BY <1>3, <3>1, JudgedTypes DEF TypeInv
    <3>3. QED
      BY <2>1, <3>2, Zenon DEF Judges, TypeInv, MatchTypes
  <2>2. CASE match' = match
    BY <2>2 DEF TypeInv, MatchTypes
  <2>3. QED
    BY <1>1, <2>1, <2>2, Zenon
       DEF Acts, BeginsRun, LoadsFilters, Fetches, Stores, TakesActive, TakesNotice, FindsRegion, Enriches,
           FindsNone, Succeeds, Fails, Ends, Loses
<1>6. OtherTypes'
  <2>0. OtherTypes /\ mem[c].now \in 0..MaxTime /\ mem[c].start \in Int /\ mem[c].start <= MaxTime
    BY <1>1 DEF TypeInv, Mem, PlaceOK
  <2>1. CASE BeginsRun(c)
    BY <2>0, <2>1 DEF BeginsRun, OtherTypes
  <2>2. CASE Succeeds(c)
    BY <2>0, <2>2 DEF Succeeds, Ends, OtherTypes
  <2>3. CASE Fails(c) \/ Loses(c)
    BY <2>0, <2>3 DEF Fails, Ends, Loses, OtherTypes
  <2>4. CASE UNCHANGED <<lastSuccess, lock, settled, since>>
    BY <2>0, <2>4 DEF OtherTypes
  <2>5. QED
    BY <1>1, <2>1, <2>2, <2>3, <2>4, Zenon
       DEF Acts, LoadsFilters, Fetches, Stores, TakesActive, TakesNotice, FindsRegion, Enriches, FindsNone, Judges
<1>7. PlaceOK(c)'
  <2>1. CASE BeginsRun(c)
    BY <1>1, <2>1, RunData DEF BeginsRun, PlaceOK, AtHand, Mem, NoMem
  <2>2. ASSUME NEW a \in mem[c].active, TakesNotice(c, a) PROVE PlaceOK(c)'
    <3>1. a \in Notice \X Doc
      BY <1>1 DEF Mem
    <3>2. QED
      BY <1>1, <2>2, <3>1 DEF TakesNotice, PlaceOK, AtHand, TimesKept
  <2>3. CASE FindsRegion(c)
    BY <1>1, <2>3 DEF FindsRegion, PlaceOK, AtHand, TimesKept
  <2>4. CASE Ends(c)
    BY <2>4, Bounds, SMTT(30) DEF Ends, PlaceOK, AtHand, NoMem
  <2>5. CASE LoadsFilters(c) \/ Fetches(c) \/ TakesActive(c) \/ Enriches(c) \/ FindsNone(c) \/ Loses(c)
             \/ (\E b \in mem[c].batch : Stores(c, b)) \/ (\E s \in judge[c] : Judges(c, s))
    BY <1>1, <2>5 DEF LoadsFilters, Fetches, TakesActive, Enriches, FindsNone, Loses, Stores, Judges,
           PlaceOK, AtHand, TimesKept, runVars
  <2>6. QED
    BY <1>1, <2>1, <2>2, <2>3, <2>4, <2>5, Zenon DEF Acts, Succeeds, Fails
<1>8. ASSUME NEW d \in Collector PROVE PlaceOK(d)'
  <2>1. CASE d = c
    BY <1>7, <2>1
  <2>2. CASE d # c
    BY <1>1, <2>2, Zenon DEF OthersKept, PlaceOK, AtHand, TypeInv
  <2>3. QED
    BY <2>1, <2>2
<1>9. QED
    BY <1>1, <1>2, <1>4, <1>5, <1>6, <1>8 DEF TypeInv

-----------------------------------------------------------------------------
\* What an edit of one filter makes of filters and matches: it judges the filter anew
\* under the collection lock, or it takes the filter away.
Refreshes(f) == /\ lock = NoProc /\ f \in enabled'
                /\ \E r \in Rule : rule'[f] = r /\ match' = Refreshed(f, r)
Drops(f)     == f \notin enabled' /\ match' = WithoutFilter(f)

LEMMA EditKinds ==
    ASSUME FilterTypes, NEW f \in Filter, Edit(f)
    PROVE  /\ UNCHANGED <<now, source, stored, lastSuccess, lock, pc, snap, judge, mem, settled, since>>
           /\ \A g \in Filter : g # f =>
                rule'[g] = rule[g] /\ rev'[g] = rev[g] /\ (g \in enabled' <=> g \in enabled)
           /\ FilterTypes'
           /\ Refreshes(f) \/ Drops(f)
<1> USE DEF FilterTypes, filterVars, runVars, NewRevision
<1>1. ASSUME NEW r \in Rule, SaveFilter(f, r)
      PROVE  /\ UNCHANGED <<now, source, stored, lastSuccess, lock, pc, snap, judge, mem, settled, since>>
             /\ \A g \in Filter : g # f =>
                  rule'[g] = rule[g] /\ rev'[g] = rev[g] /\ (g \in enabled' <=> g \in enabled)
             /\ FilterTypes'
             /\ Refreshes(f)
  <2>1. /\ UNCHANGED <<now, source, stored, lastSuccess, lock, pc, snap, judge, mem, settled, since>>
        /\ lock = NoProc /\ match' = Refreshed(f, r)
    BY <1>1, Zenon DEF SaveFilter
  <2>2. CASE f \in enabled /\ rule[f] = r
    <3>1. UNCHANGED <<rule, rev, enabled, nextRev>>
      BY <1>1, <2>2, Zenon DEF SaveFilter
    <3>2. QED
      BY <2>1, <2>2, <3>1, Zenon DEF Refreshes
  <2>3. CASE ~(f \in enabled /\ rule[f] = r)
    <3>1. NewRevision(f) /\ rule' = [rule EXCEPT ![f] = r] /\ enabled' = enabled \cup {f}
      BY <1>1, <2>3, Zenon DEF SaveFilter
    <3>2. FilterTypes' /\ rule'[f] = r /\ f \in enabled'
      BY <3>1, Bounds
    <3>3. \A g \in Filter : g # f =>
            rule'[g] = rule[g] /\ rev'[g] = rev[g] /\ (g \in enabled' <=> g \in enabled)
      BY <3>1
    <3>4. QED
      BY <2>1, <3>2, <3>3, Zenon DEF Refreshes
  <2>4. QED
    BY <2>2, <2>3, Zenon
<1>2. CASE EnableFilter(f)
  <2>1. /\ UNCHANGED <<now, source, stored, lastSuccess, rule, lock, pc, snap, judge, mem, settled, since>>
        /\ lock = NoProc /\ NewRevision(f) /\ enabled' = enabled \cup {f} /\ match' = Refreshed(f, rule[f])
    BY <1>2, Zenon DEF EnableFilter
  <2>2. FilterTypes' /\ f \in enabled' /\ rule[f] \in Rule
    BY <2>1, Bounds
  <2>3. \A g \in Filter : g # f => rev'[g] = rev[g] /\ (g \in enabled' <=> g \in enabled)
    BY <2>1
  <2>4. QED
    BY <2>1, <2>2, <2>3, Zenon DEF Refreshes
<1>3. CASE DisableFilter(f) \/ DeleteFilter(f)
  <2>1. /\ UNCHANGED <<now, source, stored, lastSuccess, rule, lock, pc, snap, judge, mem, settled, since>>
        /\ NewRevision(f) \/ (rev' = [rev EXCEPT ![f] = 0] /\ nextRev' = nextRev)
        /\ enabled' = enabled \ {f} /\ match' = WithoutFilter(f)
    BY <1>3, Zenon DEF DisableFilter, DeleteFilter
  <2>2. FilterTypes' /\ f \notin enabled'
    BY <2>1, Bounds
  <2>3. \A g \in Filter : g # f => rev'[g] = rev[g] /\ (g \in enabled' <=> g \in enabled)
    BY <2>1
  <2>4. QED
    BY <2>1, <2>2, <2>3, Zenon DEF Drops
<1>4. QED
    BY <1>1, <1>2, <1>3, Zenon DEF Edit

\* The procurement system and the clock leave the database and the collections alone.
\* Only a notice that is posted anew changes its version and its time.
Posts(n)  == /\ source'[n].ver = source[n].ver + 1 /\ source'[n].at = now /\ ~source'[n].listed
             /\ now < MaxTime
             /\ \A k \in Notice : k # n => source'[k] = source[k]
Lists(n)  == /\ n \in Unlisted
             /\ source'[n].ver = source[n].ver /\ source'[n].at = source[n].at /\ source'[n].listed
             /\ \A k \in Notice : k # n => source'[k] = source[k]
Ticks     == now' = now + 1 /\ source' = source /\ \A n \in Unlisted : now < source[n].at + Delay

LEMMA OutsideKinds ==
    ASSUME SourceTypes, (\E n \in Notice : Publish(n) \/ List(n)) \/ Tick \/ UNCHANGED vars
    PROVE  /\ UNCHANGED <<stored, lastSuccess, rule, rev, enabled, match, nextRev, lock, pc, snap, judge, mem,
                          settled, since>>
           /\ SourceTypes'
           /\ \/ now' = now /\ \E n \in Notice : Posts(n) \/ Lists(n)
              \/ Ticks
              \/ now' = now /\ source' = source
<1> USE DEF filterVars, runVars
<1>1. ASSUME NEW n \in Notice, Publish(n)
      PROVE  /\ UNCHANGED <<stored, lastSuccess, rule, rev, enabled, match, nextRev, lock, pc, snap, judge, mem,
                            settled, since>>
             /\ SourceTypes' /\ now' = now /\ Posts(n)
  <2>1. PICK b \in BOOLEAN :
          source' = [source EXCEPT ![n] = [ver |-> @.ver + 1, at |-> now, listed |-> FALSE, region |-> b]]
    BY <1>1, Zenon DEF Publish
  <2>2. UNCHANGED <<now, stored, lastSuccess, rule, rev, enabled, match, nextRev, lock, pc, snap, judge, mem,
                    settled, since>>
    BY <1>1, Zenon DEF Publish
  <2>3. source[n].ver < MaxVersion /\ now < MaxTime
    BY <1>1, Bounds DEF Publish, Minute, SourceTypes
  <2>4. SourceTypes'
    BY <2>1, <2>2, <2>3, Bounds DEF SourceTypes
  <2>5. Posts(n)
    BY <2>1, <2>3 DEF Posts, SourceTypes
  <2>6. QED
    BY <2>2, <2>4, <2>5, Zenon
<1>2. ASSUME NEW n \in Notice, List(n)
      PROVE  /\ UNCHANGED <<stored, lastSuccess, rule, rev, enabled, match, nextRev, lock, pc, snap, judge, mem,
                            settled, since>>
             /\ SourceTypes' /\ now' = now /\ Lists(n)
  <2>1. source' = [source EXCEPT ![n].listed = TRUE] /\ n \in Unlisted
    BY <1>2, Zenon DEF List
  <2>2. UNCHANGED <<now, stored, lastSuccess, rule, rev, enabled, match, nextRev, lock, pc, snap, judge, mem,
                    settled, since>>
    BY <1>2, Zenon DEF List
  <2>3. SourceTypes'
    BY <2>1, <2>2 DEF SourceTypes, Unlisted, Posted
  <2>4. Lists(n)
    BY <2>1 DEF Lists, SourceTypes
  <2>5. QED
    BY <2>2, <2>3, <2>4, Zenon
<1>3. ASSUME Tick
      PROVE  /\ UNCHANGED <<stored, lastSuccess, rule, rev, enabled, match, nextRev, lock, pc, snap, judge, mem,
                            settled, since>>
             /\ SourceTypes' /\ Ticks
    BY <1>3, Bounds DEF Tick, Ticks, SourceTypes
<1>4. CASE UNCHANGED vars
    BY <1>4, Zenon DEF vars, SourceTypes
<1>5. QED
    BY <1>1, <1>2, <1>3, <1>4, Zenon

\* Types hold throughout.
LEMMA TypeStep ==
    ASSUME TypeInv, BelongInv, [Next]_vars
    PROVE  TypeInv'
<1>1. ASSUME NEW c \in Collector, Collect(c) \/ RunFails(c) \/ LoseSession(c) PROVE TypeInv'
    BY <1>1, CollectTypes DEF BelongInv
<1>2. ASSUME NEW f \in Filter, Edit(f) PROVE TypeInv'
  <2>1. /\ UNCHANGED <<now, source, stored, lastSuccess, lock, pc, snap, judge, mem, settled, since>>
        /\ FilterTypes' /\ (Refreshes(f) \/ Drops(f))
    BY <1>2, EditKinds DEF TypeInv
  <2>2. MatchTypes'
    BY <2>1, RefreshedTypes DEF MatchTypes, TypeInv, Refreshes, Drops, WithoutFilter
  <2>3. QED
    BY <2>1, <2>2, Zenon DEF TypeInv, SourceTypes, StoredTypes, RunTypes, OtherTypes, PlaceOK, AtHand
<1>3. CASE (\E n \in Notice : Publish(n) \/ List(n)) \/ Tick \/ UNCHANGED vars
  <2>1. /\ UNCHANGED <<stored, lastSuccess, rule, rev, enabled, match, nextRev, lock, pc, snap, judge, mem,
                       settled, since>>
        /\ SourceTypes'
    BY <1>3, OutsideKinds DEF TypeInv
  <2>2. QED
    BY <2>1, Zenon DEF TypeInv, FilterTypes, MatchTypes, StoredTypes, RunTypes, OtherTypes, PlaceOK, AtHand
<1>4. QED
    BY <1>1, <1>2, <1>3, Zenon DEF Next

LEMMA TypeInit ==
    ASSUME Init
    PROVE  TypeInv /\ BelongInv
<1>1. NoMem \in Mem /\ NoMem.start <= MaxTime
    BY Bounds DEF NoMem, Mem, Cur
<1>2. SourceTypes /\ StoredTypes /\ OtherTypes /\ MatchTypes
    BY Bounds DEF Init, SourceTypes, StoredTypes, StoredNotice, OtherTypes, MatchTypes, Region
<1>3. FilterTypes
    BY Bounds, CollectionAssumption DEF Init, FilterTypes
<1>4. RunTypes /\ \A c \in Collector : PlaceOK(c)
    BY <1>1 DEF Init, RunTypes, Places, PlaceOK, AtHand
<1>5. BelongInv
    BY DEF Init, BelongInv, RevisionsOK, SnapsOK, MatchesBelong
<1>6. QED
    BY <1>2, <1>3, <1>4, <1>5 DEF TypeInv

\* Every variable of a collection has its type throughout; what a collection has in its
\* hands while it looks a region up or judges is a notice (Collector.Run).
THEOREM CollectionTypeCorrect == Spec => []TypeOK
<1>1. Init => TypeInv /\ BelongInv
    BY TypeInit
<1>2. TypeInv /\ BelongInv /\ [Next]_vars => (TypeInv /\ BelongInv)'
    BY TypeStep, BelongStep
<1>3. TypeInv /\ BelongInv => TypeOK
    BY TypeInvTypes
<1>4. QED
    BY <1>1, <1>2, <1>3, PTL DEF Spec

-----------------------------------------------------------------------------
(***************************************************************************)
(* Regions.  The version of a notice, wherever a collection has it, is not *)
(* newer than the procurement system's, so that a region looked up now is  *)
(* as new as the notice it is stored with.                                 *)
(***************************************************************************)

StoredOld == \A n \in Notice : stored[n].ver <= source[n].ver

BatchOld(c) ==
    \A b \in mem[c].batch : b.ver <= source[b.notice].ver /\ (b.region # 0 => b.region >= b.ver)

ActiveOld(c) == \A a \in mem[c].active : a[2].ver <= source[a[1]].ver

CurOld(c) ==
    /\ AtHand(c) => mem[c].cur[2].ver <= source[mem[c].cur[1]].ver
    /\ pc[c] = "enrich" => mem[c].cur[2].region >= mem[c].cur[2].ver

RegionInv ==
    /\ RegionNotStale /\ StoredOld
    /\ \A c \in Collector : BatchOld(c) /\ ActiveOld(c) /\ CurOld(c)

\* What is stored has the version that came, and a region of it or a newer one.
LEMMA MergedRegion ==
    ASSUME NEW old \in StoredNotice, NEW v \in Version, NEW g \in Region,
           old.region # 0 => old.region >= old.ver, g # 0 => g >= v
    PROVE  /\ Merged(old, v, g).ver = v
           /\ Merged(old, v, g).region # 0 => Merged(old, v, g).region >= v
BY Bounds DEF Merged, StoredNotice, Version, Region

LEMMA OutsideRegion ==
    ASSUME TypeInv, RegionInv,
           UNCHANGED <<stored, pc, judge, mem>>, SourceTypes',
           \A n \in Notice : source[n].ver <= source'[n].ver
    PROVE  RegionInv'
<1>1. RegionNotStale' /\ StoredOld'
    BY DEF RegionInv, RegionNotStale, StoredOld, TypeInv, SourceTypes, StoredTypes, StoredNotice
<1>2. ASSUME NEW c \in Collector PROVE BatchOld(c)' /\ ActiveOld(c)' /\ CurOld(c)'
  <2>1. mem[c] \in Mem /\ PlaceOK(c) /\ BatchOld(c) /\ ActiveOld(c) /\ CurOld(c)
    BY DEF TypeInv, RunTypes, RegionInv
  <2>2. ASSUME NEW n \in Notice, NEW v \in Version, v <= source[n].ver PROVE v <= source'[n].ver
    BY <2>2, Bounds DEF TypeInv, SourceTypes, Version
  <2>3. BatchOld(c)'
    <3>1. \A b \in mem[c].batch : b.notice \in Notice /\ b.ver \in Version
      BY <2>1 DEF Mem, Item
    <3>2. QED
      BY <2>1, <2>2, <3>1 DEF BatchOld
  <2>4. ActiveOld(c)'
    <3>1. \A a \in mem[c].active : a[1] \in Notice /\ a[2].ver \in Version
      BY <2>1 DEF Mem, Doc
    <3>2. QED
      BY <2>1, <2>2, <3>1 DEF ActiveOld
  <2>5. CurOld(c)'
    <3>1. AtHand(c) => mem[c].cur[1] \in Notice /\ mem[c].cur[2].ver \in Version
      BY <2>1 DEF PlaceOK, Doc
    <3>2. AtHand(c)' => AtHand(c)
      BY DEF AtHand
    <3>3. QED
      BY <2>1, <2>2, <3>1, <3>2 DEF CurOld
  <2>6. QED
    BY <2>3, <2>4, <2>5
<1>3. QED
    BY <1>1, <1>2 DEF RegionInv

\* What a step of a collection stores.
LEMMA StoredRegion ==
    ASSUME TypeInv, RegionInv, NEW c \in Collector, Acts(c), source' = source
    PROVE  RegionNotStale' /\ StoredOld'
<1>0. /\ mem[c] \in Mem /\ PlaceOK(c) /\ BatchOld(c) /\ CurOld(c)
      /\ RegionNotStale /\ StoredOld /\ stored \in [Notice -> StoredNotice]
    BY DEF TypeInv, RunTypes, RegionInv, StoredTypes
<1>1. ASSUME NEW k \in Notice, NEW v \in Version, NEW g \in Region, g # 0 => g >= v, v <= source[k].ver,
             stored' = [stored EXCEPT ![k] = Merged(stored[k], v, g)]
      PROVE  RegionNotStale' /\ StoredOld'
  <2>1. /\ Merged(stored[k], v, g).ver = v
        /\ Merged(stored[k], v, g).region # 0 => Merged(stored[k], v, g).region >= v
    BY <1>0, <1>1, MergedRegion DEF RegionNotStale
  <2>2. stored'[k].ver = v /\ (stored'[k].region # 0 => stored'[k].region >= v)
    BY <1>0, <1>1, <2>1
  <2>3. \A n \in Notice : n # k => stored'[n] = stored[n]
    BY <1>0, <1>1
  <2>4. QED
    BY <1>0, <1>1, <2>2, <2>3 DEF RegionNotStale, StoredOld
<1>2. ASSUME NEW b \in mem[c].batch, Stores(c, b) PROVE RegionNotStale' /\ StoredOld'
  <2>1. b.notice \in Notice /\ b.ver \in Version /\ b.region \in Region
    BY <1>0 DEF Mem, Item
  <2>2. QED
    BY <1>0, <1>1, <1>2, <2>1 DEF Stores, BatchOld
<1>3. CASE Enriches(c)
  <2>1. pc[c] = "enrich" /\ AtHand(c)
    BY <1>3 DEF Enriches, AtHand
  <2>2. mem[c].cur[1] \in Notice /\ mem[c].cur[2].ver \in Version /\ mem[c].cur[2].region \in Region
    BY <1>0, <2>1 DEF PlaceOK, Doc
  <2>3. QED
    BY <1>0, <1>1, <1>3, <2>1, <2>2 DEF Enriches, CurOld
<1>4. CASE FindsNone(c)
  <2>1. AtHand(c)
    BY <1>4 DEF FindsNone, AtHand
  <2>2. mem[c].cur[1] \in Notice
    BY <1>0, <2>1 DEF PlaceOK
  <2>3. \A n \in Notice : stored'[n].ver = stored[n].ver /\ stored'[n].region = stored[n].region
    BY <1>0, <1>4, <2>2 DEF FindsNone, StoredNotice
  <2>4. QED
    BY <1>0, <2>3 DEF RegionNotStale, StoredOld
<1>5. CASE stored' = stored
    BY <1>0, <1>5 DEF RegionNotStale, StoredOld
<1>6. QED
    BY <1>2, <1>3, <1>4, <1>5, Zenon
       DEF Acts, BeginsRun, LoadsFilters, Fetches, TakesActive, TakesNotice, FindsRegion, Judges,
           Succeeds, Fails, Ends, Loses

\* A collection begins with empty hands.
LEMMA FreshMem ==
    ASSUME NEW c, BeginsRun(c)
    PROVE  /\ mem'[c].now = now /\ mem'[c].start = StartOf(lastSuccess, now) /\ mem'[c].cat = 1
           /\ mem'[c].batch = {} /\ mem'[c].active = {}
<1>1. mem'[c] = [[NoMem EXCEPT !.now = now] EXCEPT !.start = StartOf(lastSuccess, now)]
    BY Zenon DEF BeginsRun
<1>2. QED
    BY <1>1 DEF NoMem

LEMMA NoMemFields ==
    ASSUME NEW m, m = NoMem
    PROVE  m.now = 0 /\ m.start = 0 /\ m.batch = {} /\ m.active = {}
BY DEF NoMem

\* What it has in its hands.
LEMMA HandsRegion ==
    ASSUME TypeInv, RegionInv, NEW c \in Collector, Acts(c), source' = source
    PROVE  BatchOld(c)' /\ ActiveOld(c)' /\ CurOld(c)'
<1>0. mem[c] \in Mem /\ PlaceOK(c) /\ BatchOld(c) /\ ActiveOld(c) /\ CurOld(c) /\ StoredOld
    BY DEF TypeInv, RunTypes, RegionInv
<1>1. BatchOld(c)'
  <2>1. CASE Fetches(c)
    <3>1. \A b \in mem'[c].batch : \E n \in Notice :
            b = [notice |-> n, ver |-> source[n].ver, region |-> IF source[n].region THEN source[n].ver ELSE 0]
      BY <2>1 DEF Fetches, Listing
    <3>2. QED
      BY <3>1 DEF BatchOld, TypeInv, SourceTypes
  <2>2. CASE mem'[c].batch \subseteq mem[c].batch
    BY <1>0, <2>2 DEF BatchOld
  <2>3. CASE mem'[c].batch = {}
    BY <2>3 DEF BatchOld
  <2>4. CASE BeginsRun(c) \/ Ends(c)
    <3>1. BeginsRun(c) => mem'[c].batch = {}
      BY FreshMem, Zenon DEF BeginsRun
    <3>2. Ends(c) => mem'[c].batch = {}
      BY NoMemFields DEF Ends
    <3>3. QED
      BY <2>3, <2>4, <3>1, <3>2
  <2>5. QED
    BY <2>1, <2>2, <2>3, <2>4, Zenon
       DEF Acts, LoadsFilters, Stores, TakesActive, TakesNotice, FindsRegion, Enriches, FindsNone,
           Judges, Succeeds, Fails, Loses, runVars
<1>2. ActiveOld(c)'
  <2>1. CASE TakesActive(c)
    <3>1. \A a \in mem'[c].active : \E n \in Notice : a = <<n, stored[n]>>
      BY <2>1 DEF TakesActive, ActiveAt
    <3>2. QED
      BY <1>0, <3>1 DEF ActiveOld, StoredOld
  <2>2. CASE mem'[c].active \subseteq mem[c].active
    BY <1>0, <2>2 DEF ActiveOld
  <2>3. CASE mem'[c].active = {}
    BY <2>3 DEF ActiveOld
  <2>4. CASE BeginsRun(c) \/ Ends(c)
    <3>1. BeginsRun(c) => mem'[c].active = {}
      BY FreshMem, Zenon DEF BeginsRun
    <3>2. Ends(c) => mem'[c].active = {}
      BY NoMemFields DEF Ends
    <3>3. QED
      BY <2>3, <2>4, <3>1, <3>2
  <2>5. QED
    BY <2>1, <2>2, <2>3, <2>4, Zenon
       DEF Acts, LoadsFilters, Fetches, Stores, TakesNotice, FindsRegion, Enriches, FindsNone,
           Judges, Succeeds, Fails, Loses, runVars
<1>3. CurOld(c)'
  <2>1. ASSUME NEW a \in mem[c].active, TakesNotice(c, a) PROVE CurOld(c)'
    BY <1>0, <2>1 DEF TakesNotice, CurOld, ActiveOld
  <2>2. CASE FindsRegion(c)
    <3>1. AtHand(c) /\ mem[c].cur[2].ver <= source[mem[c].cur[1]].ver
      BY <1>0, <2>2 DEF FindsRegion, AtHand, CurOld
    <3>2. QED
      BY <2>2, <3>1 DEF FindsRegion, CurOld
  <2>3. CASE BeginsRun(c) \/ Ends(c)
    BY <1>0, <2>3 DEF BeginsRun, Ends, CurOld, AtHand, PlaceOK
  <2>4. CASE LoadsFilters(c) \/ Fetches(c) \/ (\E b \in mem[c].batch : Stores(c, b)) \/ TakesActive(c)
    BY <1>0, <2>4 DEF LoadsFilters, Fetches, Stores, TakesActive, CurOld, AtHand, PlaceOK
  <2>5. CASE Enriches(c) \/ FindsNone(c) \/ (\E s \in judge[c] : Judges(c, s)) \/ Loses(c)
    BY <1>0, <2>5 DEF Enriches, FindsNone, Judges, Loses, runVars, CurOld, AtHand
  <2>6. QED
    BY <2>1, <2>2, <2>3, <2>4, <2>5, Zenon DEF Acts, Succeeds, Fails
<1>4. QED
    BY <1>1, <1>2, <1>3

LEMMA RegionStep ==
    ASSUME TypeInv, RegionInv, [Next]_vars
    PROVE  RegionInv'
<1>1. ASSUME NEW c \in Collector, Collect(c) \/ RunFails(c) \/ LoseSession(c) PROVE RegionInv'
  <2>1. Acts(c) /\ OthersKept(c) /\ source' = source
    BY <1>1, Kinds DEF TypeInv
  <2>2. RegionNotStale' /\ StoredOld' /\ BatchOld(c)' /\ ActiveOld(c)' /\ CurOld(c)'
    BY <2>1, StoredRegion, HandsRegion
  <2>3. ASSUME NEW d \in Collector, d # c PROVE BatchOld(d)' /\ ActiveOld(d)' /\ CurOld(d)'
    BY <2>1, <2>3, Zenon DEF OthersKept, RegionInv, BatchOld, ActiveOld, CurOld, AtHand
  <2>4. QED
    BY <2>2, <2>3, Zenon DEF RegionInv
<1>2. ASSUME NEW f \in Filter, Edit(f) PROVE RegionInv'
  <2>1. UNCHANGED <<source, stored, pc, judge, mem>>
    BY <1>2, EditKinds DEF TypeInv
  <2>2. QED
    BY <2>1, Zenon DEF RegionInv, RegionNotStale, StoredOld, BatchOld, ActiveOld, CurOld, AtHand
<1>3. CASE (\E n \in Notice : Publish(n) \/ List(n)) \/ Tick \/ UNCHANGED vars
  <2>1. /\ UNCHANGED <<stored, pc, judge, mem>> /\ SourceTypes'
        /\ \/ \E n \in Notice : Posts(n) \/ Lists(n)
           \/ source' = source
    BY <1>3, OutsideKinds DEF TypeInv, Ticks
  <2>2. \A n \in Notice : source[n].ver <= source'[n].ver
    BY <2>1 DEF Posts, Lists, TypeInv, SourceTypes
  <2>3. QED
    BY <2>1, <2>2, OutsideRegion
<1>4. QED
    BY <1>1, <1>2, <1>3, Zenon DEF Next

\* The region that is stored with a notice is never older than the rest of it, however
\* lists, lookups and revisions of the notice interleave, with any number of collectors
\* and after lost locks (mergeStoredRegion, LookupRegion).
THEOREM RegionsAreFresh == Spec => []RegionNotStale
<1>1. Init => TypeInv /\ BelongInv /\ RegionInv
  <2>1. Init => RegionInv
    BY DEF Init, RegionInv, RegionNotStale, StoredOld, BatchOld, ActiveOld, CurOld, AtHand, NoMem
  <2>2. QED
    BY <2>1, TypeInit
<1>2. TypeInv /\ BelongInv /\ RegionInv /\ [Next]_vars => (TypeInv /\ BelongInv /\ RegionInv)'
    BY TypeStep, BelongStep, RegionStep
<1>3. RegionInv => RegionNotStale
    BY DEF RegionInv
<1>4. QED
    BY <1>1, <1>2, <1>3, PTL DEF Spec

-----------------------------------------------------------------------------
(***************************************************************************)
(* Matches.  A collection that no other runs beside has, until it is over, *)
(* everything it has not judged yet in its hands as it is stored, and every *)
(* enabled filter among those it has loaded.                               *)
(***************************************************************************)

\* The collection that has had the lock since it began while no other was at work.
Sole(c) == lock = c /\ settled = "alone"

Entry(f) == <<f, rule[f], rev[f]>>

\* The matches of one filter on one notice are what the matcher says.
ExactFor(f, n) ==
    MatchesOf(f, {n}) = IF <<rule[f], stored[n].ver, stored[n].region>> \in Hits
                          THEN {Match(f, n, rule[f], stored[n].ver, stored[n].region)} ELSE {}

Working == {"judge", "lookup", "enrich"}

\* The collection will judge the notice by the filter.
InHand(c, f, n) ==
    \/ <<n, stored[n]>> \in mem[c].active
    \/ Entry(f) \in judge[c] /\ mem[c].cur[1] = n

Alone(c) == pc[c] # "idle" /\ \A d \in Collector : d # c => pc[d] = "idle"

KnowsFilters(c) ==
    /\ mem[c].now <= now
    /\ pc[c] # "filters" => \A f \in enabled : Entry(f) \in snap[c]

ActiveFresh(c) ==
    /\ pc[c] \in {"filters", "fetch"} => mem[c].active = {}
    /\ \A a \in mem[c].active : a[2] = stored[a[1]]

CurFresh(c) ==
    /\ AtHand(c) =>
         /\ mem[c].cur[2].ver = stored[mem[c].cur[1]].ver
         /\ pc[c] # "enrich" => mem[c].cur[2].region = stored[mem[c].cur[1]].region
         /\ \A a \in mem[c].active : a[1] # mem[c].cur[1]
    /\ pc[c] \in {"lookup", "enrich"} => judge[c] = snap[c] /\ stored[mem[c].cur[1]].region = 0

ToJudge(c) ==
    pc[c] \in Working => \A f \in enabled, n \in ActiveAt(mem[c].now) : InHand(c, f, n) \/ ExactFor(f, n)

Current(c) == Alone(c) /\ KnowsFilters(c) /\ ActiveFresh(c) /\ CurFresh(c) /\ ToJudge(c)

Rested == settled = "yes" => \A c \in Collector : pc[c] = "idle"

ExactInv == /\ MatchesExact /\ Rested
            /\ \A c \in Collector : Sole(c) => Current(c)

\* A step leaves the rows of a filter and a notice alone.
SameRows(f, n) == \A m : m.filter = f /\ m.notice = n => (m \in match' <=> m \in match)

LEMMA ExactKept ==
    ASSUME NEW f, NEW n, ExactFor(f, n), SameRows(f, n), rule'[f] = rule[f],
           stored'[n].ver = stored[n].ver, stored'[n].region = stored[n].region
    PROVE  ExactFor(f, n)'
<1>1. MatchesOf(f, {n})' = MatchesOf(f, {n})
    BY DEF MatchesOf, SameRows
<1>2. QED
    BY <1>1 DEF ExactFor, Match

\* A judgement leaves one row or none of its filter and notice, and touches no other.
LEMMA JudgedOne ==
    ASSUME NEW f, NEW n, NEW r, NEW v, NEW g, match' = Judged(f, n, r, v, g)
    PROVE  {m \in match' : m.filter = f /\ m.notice \in {n}} =
             IF <<r, v, g>> \in Hits THEN {Match(f, n, r, v, g)} ELSE {}
<1>1. Match(f, n, r, v, g).filter = f /\ Match(f, n, r, v, g).notice = n
    BY DEF Match
<1>2. PICK x : x = Match(f, n, r, v, g)
    OBVIOUS
<1>3. match' = (match \ MatchesOf(f, {n})) \cup (IF <<r, v, g>> \in Hits THEN {x} ELSE {})
    BY <1>2 DEF Judged
<1>4. {m \in match' : m.filter = f /\ m.notice \in {n}} = IF <<r, v, g>> \in Hits THEN {x} ELSE {}
    BY <1>1, <1>2, <1>3 DEF MatchesOf
<1>5. QED
    BY <1>2, <1>4

LEMMA JudgedOthers ==
    ASSUME NEW f, NEW n, NEW r, NEW v, NEW g, match' = Judged(f, n, r, v, g), NEW f2, NEW n2, f2 # f \/ n2 # n
    PROVE  SameRows(f2, n2)
<1>0. Match(f, n, r, v, g).filter = f /\ Match(f, n, r, v, g).notice = n
    BY DEF Match
<1>1. PICK x : x = Match(f, n, r, v, g) /\ x.filter = f /\ x.notice = n
    BY <1>0
<1>2. match' = (match \ MatchesOf(f, {n})) \cup (IF <<r, v, g>> \in Hits THEN {x} ELSE {})
    BY <1>1 DEF Judged
<1>3. QED
    BY <1>1, <1>2 DEF MatchesOf, SameRows

\* So does an edit, for every active notice.
LEMMA RefreshedOnes ==
    ASSUME NEW f, NEW r, match' = Refreshed(f, r)
    PROVE  /\ \A n \in ActiveAt(now) :
                {m \in match' : m.filter = f /\ m.notice \in {n}} =
                  IF <<r, stored[n].ver, stored[n].region>> \in Hits
                    THEN {Match(f, n, r, stored[n].ver, stored[n].region)} ELSE {}
           /\ \A f2, n2 : f2 # f => SameRows(f2, n2)
<1> DEFINE New(n) == Match(f, n, r, stored[n].ver, stored[n].region)
           Hit(n) == <<r, stored[n].ver, stored[n].region>> \in Hits
           Kept   == IF rule[f] = r THEN match \ MatchesOf(f, ActiveAt(now)) ELSE WithoutFilter(f)
<1>1. \A n : New(n).filter = f /\ New(n).notice = n
    BY DEF Match
<1>2. match' = Kept \cup {New(n) : n \in {k \in ActiveAt(now) : Hit(k)}}
    BY Zenon DEF Refreshed
<1>3. /\ \A m \in Kept : m \in match /\ (m.filter # f \/ m.notice \notin ActiveAt(now))
      /\ \A m \in match : m.filter # f => m \in Kept
    BY DEF MatchesOf, WithoutFilter
<1> HIDE DEF New, Hit, Kept
<1>4. ASSUME NEW n \in ActiveAt(now)
      PROVE  {m \in match' : m.filter = f /\ m.notice \in {n}} = IF Hit(n) THEN {New(n)} ELSE {}
    BY <1>1, <1>2, <1>3
<1>5. ASSUME NEW f2, NEW n2, f2 # f PROVE SameRows(f2, n2)
    BY <1>1, <1>2, <1>3, <1>5 DEF SameRows
<1>6. QED
    BY <1>4, <1>5, Zenon DEF New, Hit

LEMMA DropOnes ==
    ASSUME NEW f, match' = WithoutFilter(f)
    PROVE  \A f2, n2 : f2 # f => SameRows(f2, n2)
BY DEF WithoutFilter, SameRows

\* The steps of a collection between its beginning and its end.
Works(c) ==
    \/ LoadsFilters(c) \/ Fetches(c) \/ (\E b \in mem[c].batch : Stores(c, b)) \/ TakesActive(c)
    \/ (\E a \in mem[c].active : TakesNotice(c, a)) \/ FindsRegion(c) \/ Enriches(c) \/ FindsNone(c)
    \/ (\E s \in judge[c] : Judges(c, s))

\* A collection becomes the only one by beginning; while it is, no other takes a step, and
\* it is no more when it is over or has lost its lock.
LEMMA SoleBefore ==
    ASSUME NEW c \in Collector, NEW d \in Collector, Acts(d), Sole(c)'
    PROVE  Sole(c) \/ (d = c /\ BeginsRun(c))
<1>0. c # NoProc
    BY CollectionAssumption
<1>1. CASE BeginsRun(d)
    BY <1>1 DEF BeginsRun, Sole
<1>2. CASE Succeeds(d)
    BY <1>0, <1>2 DEF Succeeds, Ends, Sole
<1>3. CASE Fails(d) \/ Loses(d)
    BY <1>0, <1>3 DEF Fails, Loses, Sole
<1>4. CASE UNCHANGED <<lock, settled>>
    BY <1>4 DEF Sole
<1>5. QED
    BY <1>1, <1>2, <1>3, <1>4, Zenon
       DEF Acts, LoadsFilters, Fetches, Stores, TakesActive, TakesNotice, FindsRegion, Enriches, FindsNone, Judges

LEMMA SoleActs ==
    ASSUME NEW c \in Collector, NEW d \in Collector, Acts(d), Sole(c), Alone(c)
    PROVE  d = c
<1> SUFFICES ASSUME d # c PROVE FALSE
    OBVIOUS
<1>0. pc[d] = "idle" /\ lock = c /\ c # NoProc
    BY CollectionAssumption DEF Alone, Sole
<1>1. ~BeginsRun(d) /\ ~Loses(d)
    BY <1>0 DEF BeginsRun, Loses
<1>2. ~LoadsFilters(d) /\ ~Fetches(d) /\ ~TakesActive(d) /\ ~FindsRegion(d) /\ ~Enriches(d) /\ ~FindsNone(d)
    BY <1>0 DEF LoadsFilters, Fetches, TakesActive, FindsRegion, Enriches, FindsNone
<1>3. /\ \A b \in mem[d].batch : ~Stores(d, b)
      /\ \A a \in mem[d].active : ~TakesNotice(d, a)
      /\ \A s \in judge[d] : ~Judges(d, s)
    BY <1>0 DEF Stores, TakesNotice, Judges
<1>4. ~Succeeds(d) /\ ~Fails(d)
    BY <1>0 DEF Succeeds, Fails, Ends
<1>5. QED
    BY <1>1, <1>2, <1>3, <1>4, Zenon DEF Acts

LEMMA SoleWorks ==
    ASSUME NEW c \in Collector, Acts(c), Sole(c), Sole(c)'
    PROVE  Works(c)
<1>0. lock = c /\ lock' = c /\ c # NoProc
    BY CollectionAssumption DEF Sole
<1>1. ~BeginsRun(c) /\ ~Loses(c) /\ ~Ends(c)
    BY <1>0 DEF BeginsRun, Loses, Ends
<1>2. QED
    BY <1>1, Zenon DEF Acts, Works, Succeeds, Fails

LEMMA BeginCurrent ==
    ASSUME TypeInv, NEW c \in Collector, BeginsRun(c), OthersKept(c), Sole(c)', now' = now
    PROVE  Current(c)'
<1>0. now \in Nat
    BY Bounds DEF TypeInv, SourceTypes
<1>1. mem'[c].now = now /\ mem'[c].active = {} /\ pc'[c] = "filters"
    BY FreshMem, Zenon DEF BeginsRun
<1>2. \A d \in Collector : d # c => pc'[d] = "idle"
    BY DEF BeginsRun, OthersKept, Sole
<1>3. Alone(c)' /\ KnowsFilters(c)'
    BY <1>0, <1>1, <1>2 DEF Alone, KnowsFilters
<1>4. ActiveFresh(c)' /\ CurFresh(c)' /\ ToJudge(c)'
    BY <1>1 DEF ActiveFresh, CurFresh, ToJudge, AtHand, Working
<1>5. QED
    BY <1>3, <1>4 DEF Current

\* What the only collection has of notices stays as it is stored.
LEMMA WorksFresh ==
    ASSUME TypeInv, NEW c \in Collector, Current(c), Works(c)
    PROVE  ActiveFresh(c)' /\ CurFresh(c)'
<1>0. /\ mem[c] \in Mem /\ PlaceOK(c) /\ ActiveFresh(c) /\ CurFresh(c) /\ stored \in [Notice -> StoredNotice]
      /\ \A a \in mem[c].active : a \in Notice \X Doc
    BY DEF TypeInv, RunTypes, StoredTypes, Current, Mem
<1>1. CASE LoadsFilters(c) \/ Fetches(c)
    BY <1>0, <1>1 DEF LoadsFilters, Fetches, ActiveFresh, CurFresh, AtHand, PlaceOK
<1>2. ASSUME NEW b \in mem[c].batch, Stores(c, b) PROVE ActiveFresh(c)' /\ CurFresh(c)'
    BY <1>0, <1>2 DEF Stores, ActiveFresh, CurFresh, AtHand, PlaceOK
<1>3. CASE TakesActive(c)
  <2>1. \A a \in mem'[c].active : \E n \in Notice : a = <<n, stored[n]>>
    BY <1>3 DEF TakesActive, ActiveAt
  <2>2. QED
    BY <1>0, <1>3, <2>1 DEF TakesActive, ActiveFresh, CurFresh, AtHand, PlaceOK
<1>4. ASSUME NEW a \in mem[c].active, TakesNotice(c, a) PROVE ActiveFresh(c)' /\ CurFresh(c)'
  <2>1. /\ stored' = stored /\ mem'[c].active = mem[c].active \ {a} /\ mem'[c].cur = a
        /\ judge'[c] = snap[c] /\ snap' = snap /\ pc'[c] \in {"lookup", "judge"}
        /\ pc'[c] = "lookup" => a[2].region = 0
    BY <1>4, Zenon DEF TakesNotice
  <2>2. \A x \in mem[c].active \ {a} : x[1] # a[1]
    <3>1. \A x \in mem[c].active : x = <<x[1], x[2]>> /\ x[2] = stored[x[1]]
      BY <1>0 DEF ActiveFresh
    <3>2. QED
      BY <3>1, Zenon
  <2>3. a[2] = stored[a[1]]
    BY <1>0 DEF ActiveFresh
  <2>4. ActiveFresh(c)'
    BY <1>0, <2>1 DEF ActiveFresh
  <2>5. CurFresh(c)'
    BY <2>1, <2>2, <2>3 DEF CurFresh
  <2>6. QED
    BY <2>4, <2>5
<1>5. CASE FindsRegion(c)
    BY <1>0, <1>5 DEF FindsRegion, ActiveFresh, CurFresh, AtHand
<1>6. CASE Enriches(c) \/ FindsNone(c)
  <2>0. /\ AtHand(c) /\ pc[c] \in {"lookup", "enrich"} /\ pc'[c] = "judge" /\ mem'[c].active = mem[c].active
        /\ mem'[c].cur = mem[c].cur
    BY <1>6 DEF Enriches, FindsNone, AtHand
  <2>1. PICK k \in Notice : k = mem[c].cur[1]
    BY <1>0, <2>0 DEF PlaceOK
  <2>2. mem[c].cur[2].ver \in Version /\ mem[c].cur[2].region \in Region
    BY <1>0, <2>0 DEF PlaceOK, Doc
  <2>3. \A n \in Notice : n # k => stored'[n] = stored[n]
    BY <1>0, <1>6, <2>1 DEF Enriches, FindsNone
  <2>4. stored'[k].ver = mem[c].cur[2].ver /\ stored'[k].region = mem[c].cur[2].region
    <3>1. CASE Enriches(c)
      <4>1. stored[k].ver = mem[c].cur[2].ver /\ stored[k].region = 0
        BY <1>0, <2>0, <2>1 DEF CurFresh
      <4>2. stored'[k] = Merged(stored[k], mem[c].cur[2].ver, mem[c].cur[2].region)
        BY <1>0, <2>1, <3>1, SMTT(30) DEF Enriches
      <4>3. QED
        BY <2>2, <4>1, <4>2 DEF Merged
    <3>2. CASE FindsNone(c)
      <4>1. stored'[k].ver = stored[k].ver /\ stored'[k].region = stored[k].region
        BY <1>0, <2>1, <3>2 DEF FindsNone, StoredNotice
      <4>2. QED
        BY <1>0, <2>0, <2>1, <3>2, <4>1 DEF CurFresh, FindsNone
    <3>3. QED
      BY <1>6, <3>1, <3>2
  <2>5. \A a \in mem[c].active : a[1] \in Notice /\ a[1] # k /\ a[2] = stored[a[1]]
    BY <1>0, <2>0, <2>1 DEF CurFresh, ActiveFresh
  <2>6. ActiveFresh(c)'
    BY <2>0, <2>3, <2>5 DEF ActiveFresh
  <2>7. CurFresh(c)'
    BY <2>0, <2>1, <2>4, <2>5 DEF CurFresh
  <2>8. QED
    BY <2>6, <2>7
<1>7. ASSUME NEW s \in judge[c], Judges(c, s) PROVE ActiveFresh(c)' /\ CurFresh(c)'
    BY <1>0, <1>7 DEF Judges, ActiveFresh, CurFresh, AtHand
<1>8. QED
    BY <1>1, <1>2, <1>3, <1>4, <1>5, <1>6, <1>7, Zenon DEF Works

\* It keeps every enabled filter among those it has loaded.
LEMMA WorksKnows ==
    ASSUME NEW c \in Collector, Current(c), Works(c), OthersKept(c),
           UNCHANGED <<now, rule, rev, enabled>>
    PROVE  Alone(c)' /\ KnowsFilters(c)'
<1>0. Alone(c) /\ KnowsFilters(c)
    BY DEF Current
<1>1. Alone(c)'
  <2>1. pc'[c] # "idle"
    BY <1>0 DEF Works, LoadsFilters, Fetches, Stores, TakesActive, TakesNotice, FindsRegion, Enriches,
           FindsNone, Judges, Alone
  <2>2. QED
    BY <1>0, <2>1, SMTT(30) DEF Alone, OthersKept
<1>2. KnowsFilters(c)'
  <2>1. mem'[c].now = mem[c].now
    BY Zenon DEF Works, LoadsFilters, Fetches, Stores, TakesActive, TakesNotice, FindsRegion, Enriches,
           FindsNone, Judges, TimesKept
  <2>2. CASE LoadsFilters(c)
    BY <1>0, <2>1, <2>2 DEF LoadsFilters, KnowsFilters, Entry
  <2>3. CASE pc[c] # "filters" /\ snap' = snap
    BY <1>0, <2>1, <2>3, SMTT(30) DEF KnowsFilters, Entry
  <2>4. LoadsFilters(c) \/ (pc[c] # "filters" /\ snap' = snap)
    BY DEF Works, Fetches, Stores, TakesActive, TakesNotice, FindsRegion, Enriches, FindsNone, Judges
  <2>5. QED
    BY <2>2, <2>3, <2>4
<1>3. QED
    BY <1>1, <1>2

\* What it judged is right, and what is not right yet it still has to judge.
LEMMA WorksJudge ==
    ASSUME TypeInv, BelongInv, NEW c \in Collector, Current(c), Works(c),
           UNCHANGED <<now, rule, rev, enabled>>
    PROVE  ToJudge(c)'
<1>0. /\ mem[c] \in Mem /\ PlaceOK(c) /\ ActiveFresh(c) /\ CurFresh(c) /\ ToJudge(c) /\ KnowsFilters(c)
      /\ stored \in [Notice -> StoredNotice] /\ mem'[c].now = mem[c].now
  <2>1. mem'[c].now = mem[c].now
    BY Zenon DEF Works, LoadsFilters, Fetches, Stores, TakesActive, TakesNotice, FindsRegion, Enriches,
           FindsNone, Judges, TimesKept
  <2>2. QED
    BY <2>1 DEF TypeInv, RunTypes, StoredTypes, Current
<1>1. CASE pc'[c] = "fetch"
    BY <1>1 DEF ToJudge, Working
<1>2. CASE TakesActive(c)
  <2>1. \A n \in ActiveAt(mem[c].now) : <<n, stored[n]>> \in mem'[c].active
    BY <1>2 DEF TakesActive
  <2>2. \A n \in ActiveAt(mem[c].now)' : n \in ActiveAt(mem[c].now)
    BY <1>0, <1>2 DEF TakesActive, ActiveAt
  <2>3. stored' = stored
    BY <1>2 DEF TakesActive
  <2>4. QED
    BY <2>1, <2>2, <2>3 DEF ToJudge, InHand
<1>3. ASSUME NEW a \in mem[c].active, TakesNotice(c, a) PROVE ToJudge(c)'
  <2>1. /\ stored' = stored /\ match' = match /\ mem'[c].active = mem[c].active \ {a} /\ mem'[c].cur = a
        /\ judge[c] = {} /\ judge'[c] = snap[c] /\ pc[c] = "judge"
    BY <1>3, Zenon DEF TakesNotice
  <2>2. ASSUME NEW f \in enabled, NEW n \in ActiveAt(mem[c].now) PROVE InHand(c, f, n)' \/ ExactFor(f, n)'
    <3>1. InHand(c, f, n) \/ ExactFor(f, n)
      BY <1>0, <2>1, <2>2 DEF ToJudge, Working
    <3>2. CASE <<n, stored[n]>> \in mem[c].active
      <4>1. CASE a = <<n, stored[n]>>
        BY <1>0, <2>1, <4>1 DEF InHand, KnowsFilters, Entry
      <4>2. CASE a # <<n, stored[n]>>
        BY <2>1, <3>2, <4>2 DEF InHand
      <4>3. QED
        BY <4>1, <4>2
    <3>3. CASE ExactFor(f, n)
      BY <2>1, <3>3, ExactKept DEF SameRows
    <3>4. QED
      BY <2>1, <3>1, <3>2, <3>3 DEF InHand
  <2>3. \A n \in ActiveAt(mem[c].now)' : n \in ActiveAt(mem[c].now)
    BY <1>0, <2>1 DEF ActiveAt
  <2>4. QED
    BY <2>2, <2>3 DEF ToJudge
<1>4. CASE FindsRegion(c)
  <2>1. /\ stored' = stored /\ match' = match /\ mem'[c].active = mem[c].active /\ mem'[c].cur[1] = mem[c].cur[1]
        /\ judge' = judge /\ pc[c] = "lookup"
    BY <1>4, Zenon DEF FindsRegion
  <2>2. ASSUME NEW f \in enabled, NEW n \in ActiveAt(mem[c].now) PROVE InHand(c, f, n)' \/ ExactFor(f, n)'
    <3>1. InHand(c, f, n) \/ ExactFor(f, n)
      BY <1>0, <2>1, <2>2 DEF ToJudge, Working
    <3>2. CASE InHand(c, f, n)
      BY <2>1, <3>2 DEF InHand, Entry
    <3>3. CASE ExactFor(f, n)
      BY <2>1, <3>3, ExactKept DEF SameRows
    <3>4. QED
      BY <3>1, <3>2, <3>3
  <2>3. \A n \in ActiveAt(mem[c].now)' : n \in ActiveAt(mem[c].now)
    BY <1>0, <2>1 DEF ActiveAt
  <2>4. QED
    BY <2>2, <2>3 DEF ToJudge
<1>5. CASE Enriches(c) \/ FindsNone(c)
  <2>0. /\ AtHand(c) /\ pc[c] \in {"lookup", "enrich"} /\ mem'[c].active = mem[c].active /\ match' = match
        /\ mem'[c].cur = mem[c].cur /\ judge' = judge
    BY <1>5 DEF Enriches, FindsNone, AtHand
  <2>1. PICK k \in Notice : k = mem[c].cur[1]
    BY <1>0, <2>0 DEF PlaceOK
  <2>2. \A n \in Notice : n # k => stored'[n] = stored[n]
    BY <1>0, <1>5, <2>1 DEF Enriches, FindsNone
  <2>3. \A f \in enabled : Entry(f) \in judge[c]
    BY <1>0, <2>0 DEF CurFresh, KnowsFilters
  <2>4. ASSUME NEW f \in enabled, NEW n \in Notice, n \in ActiveAt(mem[c].now) \/ n = k
        PROVE  InHand(c, f, n)' \/ ExactFor(f, n)'
    <3>1. CASE n = k
      BY <2>0, <2>1, <2>3, <3>1 DEF InHand, Entry
    <3>2. CASE n # k
      <4>1. InHand(c, f, n) \/ ExactFor(f, n)
        BY <1>0, <2>0, <2>4, <3>2 DEF ToJudge, Working
      <4>2. CASE InHand(c, f, n)
        BY <2>0, <2>1, <2>2, <3>2, <4>2 DEF InHand
      <4>3. CASE ExactFor(f, n)
        BY <2>0, <2>2, <3>2, <4>3, ExactKept DEF SameRows
      <4>4. QED
        BY <4>1, <4>2, <4>3
    <3>3. QED
      BY <3>1, <3>2
  <2>5. \A n \in ActiveAt(mem[c].now)' : n \in Notice /\ (n \in ActiveAt(mem[c].now) \/ n = k)
    BY <1>0, <2>2 DEF ActiveAt
  <2>6. QED
    BY <2>4, <2>5 DEF ToJudge
<1>6. ASSUME NEW s \in judge[c], Judges(c, s) PROVE ToJudge(c)'
  <2>0. /\ pc[c] = "judge" /\ mem' = mem /\ stored' = stored /\ judge'[c] = judge[c] \ {s} /\ AtHand(c)
        /\ match' = IF Eligible(s)
                      THEN Judged(s[1], mem[c].cur[1], s[2], mem[c].cur[2].ver, mem[c].cur[2].region) ELSE match
    BY <1>6 DEF Judges, AtHand
  <2>1. PICK k \in Notice : k = mem[c].cur[1]
    BY <1>0, <2>0 DEF PlaceOK
  <2>2. mem[c].cur[2].ver = stored[k].ver /\ mem[c].cur[2].region = stored[k].region
    BY <1>0, <2>0, <2>1 DEF CurFresh
  <2>3. s = <<s[1], s[2], s[3]>> /\ Loaded(s)
    BY DEF TypeInv, RunTypes, Row, BelongInv, SnapsOK
  <2>4. ASSUME NEW f \in enabled, NEW n \in ActiveAt(mem[c].now) PROVE InHand(c, f, n)' \/ ExactFor(f, n)'
    <3>1. InHand(c, f, n) \/ ExactFor(f, n)
      BY <1>0, <2>0, <2>4 DEF ToJudge, Working
    <3>2. CASE <<n, stored[n]>> \in mem[c].active
      BY <2>0, <3>2 DEF InHand
    <3>3. CASE Eligible(s) /\ f = s[1] /\ n = k
      <4>1. rule[f] = s[2] /\ rule'[f] = rule[f]
        BY <2>3, <3>3 DEF Eligible, Loaded
      <4>2. match' = Judged(f, n, rule[f], stored[n].ver, stored[n].region)
        BY <2>0, <2>1, <2>2, <3>3, <4>1
      <4>3. MatchesOf(f, {n})' = IF <<rule[f], stored[n].ver, stored[n].region>> \in Hits
                                   THEN {Match(f, n, rule[f], stored[n].ver, stored[n].region)} ELSE {}
        BY <4>2, JudgedOne DEF MatchesOf
      <4>4. QED
        BY <2>0, <4>1, <4>3 DEF ExactFor, Match
    <3>4. CASE ~(Eligible(s) /\ f = s[1] /\ n = k)
      <4>1. SameRows(f, n)
        <5>1. CASE Eligible(s)
          <6>1. match' = Judged(s[1], k, s[2], mem[c].cur[2].ver, mem[c].cur[2].region)
            BY <2>0, <2>1, <5>1
          <6>2. f # s[1] \/ n # k
            BY <3>4, <5>1
          <6>3. QED
            BY <6>1, <6>2, JudgedOthers
        <5>2. CASE ~Eligible(s)
          BY <2>0, <5>2 DEF SameRows
        <5>3. QED
          BY <5>1, <5>2
      <4>2. CASE ExactFor(f, n)
        BY <2>0, <4>1, <4>2, ExactKept
      <4>3. CASE Entry(f) \in judge[c] /\ n = k
        <5>1. Entry(f) # s
          <6>1. SUFFICES ASSUME Entry(f) = s PROVE FALSE
            OBVIOUS
          <6>2. s[1] = f /\ s[3] = rev[f]
            BY <6>1 DEF Entry
          <6>3. QED
            BY <3>4, <4>3, <6>2 DEF Eligible
        <5>2. QED
          BY <2>0, <2>1, <4>3, <5>1 DEF InHand, Entry
      <4>4. QED
        BY <2>1, <3>1, <3>2, <4>2, <4>3 DEF InHand
    <3>5. QED
      BY <3>3, <3>4
  <2>5. \A n \in ActiveAt(mem[c].now)' : n \in ActiveAt(mem[c].now)
    BY <1>0, <2>0 DEF ActiveAt
  <2>6. QED
    BY <2>4, <2>5 DEF ToJudge
<1>7. LoadsFilters(c) \/ Fetches(c) \/ (\E b \in mem[c].batch : Stores(c, b)) => pc'[c] = "fetch"
    BY DEF LoadsFilters, Fetches, Stores
<1>8. QED
    BY <1>1, <1>2, <1>3, <1>4, <1>5, <1>6, <1>7, Zenon DEF Works

\* Steps that leave the collections, what is stored and the filters that stay enabled alone.
LEMMA AsideCurrent ==
    ASSUME TypeInv, NEW c \in Collector, Current(c),
           UNCHANGED <<stored, pc, snap, judge, mem>>, now' \in Nat, now <= now',
           enabled' \subseteq enabled,
           \A f \in enabled' : rule'[f] = rule[f] /\ rev'[f] = rev[f] /\ \A n : SameRows(f, n)
    PROVE  Current(c)'
<1>1. Alone(c)' /\ ActiveFresh(c)' /\ CurFresh(c)'
    BY Zenon DEF Current, Alone, ActiveFresh, CurFresh, AtHand
<1>2. KnowsFilters(c)'
  <2>1. mem[c].now \in Int /\ now \in Int
    BY Bounds DEF TypeInv, SourceTypes, RunTypes, Mem
  <2>2. mem[c].now <= now'
    BY <2>1 DEF Current, KnowsFilters
  <2>3. \A f \in enabled' : Entry(f)' = Entry(f)
    BY DEF Entry
  <2>4. QED
    BY <2>2, <2>3 DEF Current, KnowsFilters
<1>3. ToJudge(c)'
  <2>1. ASSUME pc[c] \in Working, NEW f \in enabled', NEW n \in ActiveAt(mem[c].now)
        PROVE  InHand(c, f, n)' \/ ExactFor(f, n)'
    <3>1. InHand(c, f, n) \/ ExactFor(f, n)
      BY <2>1 DEF Current, ToJudge
    <3>2. CASE InHand(c, f, n)
      BY <3>2 DEF InHand, Entry
    <3>3. CASE ExactFor(f, n)
      BY <3>3, ExactKept
    <3>4. QED
      BY <3>1, <3>2, <3>3
  <2>2. \A n \in ActiveAt(mem[c].now)' : n \in ActiveAt(mem[c].now)
    BY DEF ActiveAt
  <2>3. QED
    BY <2>1, <2>2 DEF ToJudge
<1>4. QED
    BY <1>1, <1>2, <1>3 DEF Current

\* A step of a collection.
LEMMA CollectExact ==
    ASSUME TypeInv, BelongInv, ExactInv, NEW d \in Collector, Acts(d), OthersKept(d),
           UNCHANGED <<now, source, rule, rev, enabled, nextRev>>
    PROVE  ExactInv'
<1>1. ASSUME NEW c \in Collector, Sole(c)' PROVE Current(c)'
  <2>1. CASE Sole(c)
    <3>1. Current(c) /\ d = c
      BY <2>1, SoleActs DEF ExactInv, Current
    <3>2. Works(c)
      BY <1>1, <2>1, <3>1, SoleWorks
    <3>3. ActiveFresh(c)' /\ CurFresh(c)'
      BY <3>1, <3>2, WorksFresh
    <3>4. Alone(c)' /\ KnowsFilters(c)'
      BY <3>1, <3>2, WorksKnows
    <3>5. ToJudge(c)'
      BY <3>1, <3>2, WorksJudge
    <3>6. QED
      BY <3>3, <3>4, <3>5 DEF Current
  <2>2. CASE d = c /\ BeginsRun(c)
    BY <1>1, <2>2, BeginCurrent
  <2>3. QED
    BY <1>1, <2>1, <2>2, SoleBefore
<1>2. CASE settled' # "yes"
    BY <1>1, <1>2 DEF ExactInv, MatchesExact, Rested
<1>3. CASE settled' = "yes" /\ Sole(d) /\ Succeeds(d)
  <2>0. /\ Alone(d) /\ KnowsFilters(d) /\ ToJudge(d) /\ pc[d] = "judge" /\ judge[d] = {} /\ mem[d].active = {}
        /\ UNCHANGED <<stored, match, rule, enabled, now>> /\ pc'[d] = "idle"
    BY <1>3 DEF ExactInv, Current, Succeeds, Ends
  <2>1. Rested'
    BY <2>0 DEF Rested, Alone, OthersKept
  <2>2. ASSUME NEW f \in enabled, NEW n \in ActiveAt(now) PROVE ExactFor(f, n)'
    <3>1. n \in ActiveAt(mem[d].now)
      <4>1. mem[d].now \in Int /\ now \in Int /\ Deadline[n] \in Int /\ mem[d].now <= now
        BY <2>0, Bounds, CollectionAssumption DEF KnowsFilters, TypeInv, SourceTypes, RunTypes, Mem, ActiveAt
      <4>2. QED
        BY <4>1 DEF ActiveAt
    <3>2. ExactFor(f, n)
      BY <2>0, <3>1 DEF ToJudge, Working, InHand
    <3>3. QED
      BY <2>0, <3>2, ExactKept DEF SameRows
  <2>3. \A n \in ActiveAt(now)' : n \in ActiveAt(now)
    BY <2>0 DEF ActiveAt
  <2>4. MatchesExact'
    BY <2>0, <2>2, <2>3 DEF MatchesExact, ExactFor
  <2>5. QED
    BY <1>1, <2>1, <2>4 DEF ExactInv
<1>4. CASE settled' = "yes" /\ settled = "yes"
  <2>1. pc[d] = "idle" /\ Rested
    BY <1>4 DEF ExactInv, Rested
  <2>2. Loses(d)
    <3>1. ~BeginsRun(d)
      BY <1>4 DEF BeginsRun
    <3>2. ~LoadsFilters(d) /\ ~Fetches(d) /\ ~TakesActive(d) /\ ~FindsRegion(d) /\ ~Enriches(d) /\ ~FindsNone(d)
      BY <2>1 DEF LoadsFilters, Fetches, TakesActive, FindsRegion, Enriches, FindsNone
    <3>3. /\ \A b \in mem[d].batch : ~Stores(d, b)
          /\ \A a \in mem[d].active : ~TakesNotice(d, a)
          /\ \A s \in judge[d] : ~Judges(d, s)
      BY <2>1 DEF Stores, TakesNotice, Judges
    <3>4. ~Succeeds(d) /\ ~Fails(d)
      BY <2>1 DEF Succeeds, Fails, Ends
    <3>5. QED
      BY <3>1, <3>2, <3>3, <3>4, Zenon DEF Acts
  <2>3. UNCHANGED <<stored, match, rule, enabled, now, pc, settled>>
    BY <2>2, Zenon DEF Loses, runVars
  <2>4. MatchesExact' /\ Rested'
    BY <2>1, <2>3, Zenon DEF ExactInv, MatchesExact, MatchesOf, Match, ActiveAt, Rested
  <2>5. QED
    BY <1>1, <2>4 DEF ExactInv
<1>5. settled' = "yes" => settled = "yes" \/ (Sole(d) /\ Succeeds(d))
  <2>1. BeginsRun(d) \/ Fails(d) => settled' # "yes"
    BY DEF BeginsRun, Fails
  <2>2. Succeeds(d) => settled' # "yes" \/ settled = "yes" \/ Sole(d)
    BY DEF Succeeds, Sole
  <2>3. QED
    BY <2>1, <2>2, Zenon
       DEF Acts, LoadsFilters, Fetches, Stores, TakesActive, TakesNotice, FindsRegion, Enriches, FindsNone,
           Judges, Loses
<1>6. QED
    BY <1>2, <1>3, <1>4, <1>5

\* An edit: while a collection has the lock it can only take a filter away, and otherwise it
\* judges every active notice anew.
LEMMA EditExact ==
    ASSUME TypeInv, ExactInv, NEW f \in Filter,
           UNCHANGED <<now, source, stored, lastSuccess, lock, pc, snap, judge, mem, settled, since>>,
           \A g \in Filter : g # f =>
             rule'[g] = rule[g] /\ rev'[g] = rev[g] /\ (g \in enabled' <=> g \in enabled),
           FilterTypes', Refreshes(f) \/ Drops(f)
    PROVE  ExactInv'
<1>0. enabled \subseteq Filter /\ enabled' \subseteq Filter /\ now \in Nat
    BY Bounds DEF TypeInv, FilterTypes, SourceTypes
<1>1. \A g \in Filter : \A n : g # f => SameRows(g, n)
    BY RefreshedOnes, DropOnes, Zenon DEF Refreshes, Drops
<1>2. ASSUME NEW c \in Collector, Sole(c)' PROVE Current(c)'
  <2>1. Sole(c) /\ lock # NoProc
    BY <1>2, CollectionAssumption DEF Sole
  <2>2. Drops(f)
    BY <2>1 DEF Refreshes
  <2>3. \A g \in enabled' : g \in Filter /\ g # f /\ g \in enabled
    BY <1>0, <2>2 DEF Drops
  <2>4. Current(c)
    BY <2>1 DEF ExactInv
  <2>5. QED
    BY <1>0, <1>1, <2>3, <2>4, AsideCurrent
<1>3. Rested'
    BY DEF ExactInv, Rested
<1>4. MatchesExact'
  <2>1. \A n \in ActiveAt(now)' : n \in ActiveAt(now)
    BY DEF ActiveAt
  <2>2. ASSUME settled = "yes", NEW g \in enabled', NEW n \in ActiveAt(now) PROVE ExactFor(g, n)'
    <3>1. CASE g # f
      <4>1. g \in enabled /\ rule'[g] = rule[g] /\ SameRows(g, n)
        BY <1>0, <1>1, <2>2, <3>1
      <4>2. ExactFor(g, n)
        BY <2>2, <4>1 DEF ExactInv, MatchesExact, ExactFor
      <4>3. QED
        BY <4>1, <4>2, ExactKept
    <3>2. CASE g = f
      <4>1. PICK r \in Rule : rule'[f] = r /\ match' = Refreshed(f, r)
        BY <2>2, <3>2 DEF Refreshes, Drops
      <4>2. {m \in match' : m.filter = f /\ m.notice \in {n}} =
              IF <<r, stored[n].ver, stored[n].region>> \in Hits
                THEN {Match(f, n, r, stored[n].ver, stored[n].region)} ELSE {}
        BY <2>2, <4>1, RefreshedOnes
      <4>3. QED
        BY <3>2, <4>1, <4>2 DEF ExactFor, MatchesOf, Match
    <3>3. QED
      BY <3>1, <3>2
  <2>3. QED
    BY <2>1, <2>2 DEF MatchesExact, ExactFor
<1>5. QED
    BY <1>2, <1>3, <1>4 DEF ExactInv

LEMMA OutsideExact ==
    ASSUME TypeInv, ExactInv, SourceTypes',
           UNCHANGED <<stored, lastSuccess, rule, rev, enabled, match, nextRev, lock, pc, snap, judge, mem,
                       settled, since>>,
           now' = now \/ Ticks
    PROVE  ExactInv'
<1>0. now \in Nat /\ now' \in Nat /\ now <= now'
    BY Bounds DEF TypeInv, SourceTypes, Ticks
<1>1. \A f, n : SameRows(f, n)
    BY DEF SameRows
<1>2. ASSUME NEW c \in Collector, Sole(c)' PROVE Current(c)'
  <2>1. Current(c)
    BY <1>2 DEF Sole, ExactInv
  <2>2. QED
    BY <1>0, <1>1, <2>1, AsideCurrent
<1>3. Rested'
    BY DEF ExactInv, Rested
<1>4. MatchesExact'
  <2>1. ASSUME NEW n \in ActiveAt(now)' PROVE n \in ActiveAt(now)
    <3>1. n \in Notice /\ Deadline[n] \in Nat /\ Deadline[n] >= now' /\ stored[n].ver > 0
      BY CollectionAssumption DEF ActiveAt
    <3>2. QED
      BY <1>0, <3>1 DEF ActiveAt
  <2>2. ASSUME settled = "yes", NEW f \in enabled, NEW n \in ActiveAt(now) PROVE ExactFor(f, n)'
    <3>1. ExactFor(f, n)
      BY <2>2 DEF ExactInv, MatchesExact, ExactFor
    <3>2. QED
      BY <1>1, <3>1, ExactKept
  <2>3. QED
    BY <2>1, <2>2 DEF MatchesExact, ExactFor
<1>5. QED
    BY <1>2, <1>3, <1>4 DEF ExactInv

LEMMA ExactStep ==
    ASSUME TypeInv, BelongInv, ExactInv, [Next]_vars
    PROVE  ExactInv'
<1>1. ASSUME NEW c \in Collector, Collect(c) \/ RunFails(c) \/ LoseSession(c) PROVE ExactInv'
  <2>1. Acts(c) /\ OthersKept(c) /\ UNCHANGED <<now, source, rule, rev, enabled, nextRev>>
    BY <1>1, Kinds DEF TypeInv
  <2>2. QED
    BY <2>1, CollectExact
<1>2. ASSUME NEW f \in Filter, Edit(f) PROVE ExactInv'
  <2>1. /\ UNCHANGED <<now, source, stored, lastSuccess, lock, pc, snap, judge, mem, settled, since>>
        /\ \A g \in Filter : g # f =>
             rule'[g] = rule[g] /\ rev'[g] = rev[g] /\ (g \in enabled' <=> g \in enabled)
        /\ FilterTypes' /\ (Refreshes(f) \/ Drops(f))
    BY <1>2, EditKinds DEF TypeInv
  <2>2. QED
    BY <2>1, EditExact
<1>3. CASE (\E n \in Notice : Publish(n) \/ List(n)) \/ Tick \/ UNCHANGED vars
  <2>1. /\ UNCHANGED <<stored, lastSuccess, rule, rev, enabled, match, nextRev, lock, pc, snap, judge, mem,
                       settled, since>>
        /\ SourceTypes' /\ (now' = now \/ Ticks)
    BY <1>3, OutsideKinds DEF TypeInv
  <2>2. QED
    BY <2>1, OutsideExact
<1>4. QED
    BY <1>1, <1>2, <1>3, Zenon DEF Next

\* Since a collection succeeded that no other ran beside, and until the next one begins, the
\* matches of the enabled filters on active notices are what the matcher says of what is
\* stored, whatever filters were saved, enabled, disabled or deleted while it ran and after
\* (Collector.Run, eligible_filter, refreshFilterMatches).
THEOREM MatchesAreExact == Spec => []MatchesExact
<1>1. Init => TypeInv /\ BelongInv /\ ExactInv
  <2>1. Init => ExactInv
    BY DEF Init, ExactInv, MatchesExact, Rested, Sole
  <2>2. QED
    BY <2>1, TypeInit
<1>2. TypeInv /\ BelongInv /\ ExactInv /\ [Next]_vars => (TypeInv /\ BelongInv /\ ExactInv)'
    BY TypeStep, BelongStep, ExactStep
<1>3. ExactInv => MatchesExact
    BY DEF ExactInv
<1>4. QED
    BY <1>1, <1>2, <1>3, PTL DEF Spec

-----------------------------------------------------------------------------
(***************************************************************************)
(* Reach.  As long as no collection loses its lock, the one that is at     *)
(* work is the only one; what it has to ask for, it has stored, has in its *)
(* hands or will ask for with one of the categories that are left.         *)
(***************************************************************************)

\* A collection has to store what was posted after its start and a safe time before its
\* beginning: everything of it is listed by then.
Due(c, n) ==
    /\ Posted(n)
    /\ Minute(mem[c].start) <= source[n].at /\ source[n].at < Minute(mem[c].now - Overlap)

Ahead(c, n) ==
    pc[c] \in {"filters", "fetch"} /\ \E i \in DOMAIN Category : i >= mem[c].cat /\ Category[i] = CategoryOf[n]

Coming(c, n) ==
    \/ stored[n].ver = source[n].ver
    \/ \E b \in mem[c].batch : b.notice = n
    \/ Ahead(c, n)

DuesComing(c) == \A n \in Notice : Due(c, n) => source[n].listed /\ Coming(c, n)

BatchNew(c) ==
    \A b \in mem[c].batch :
        /\ Minute(mem[c].start) <= source[b.notice].at
        /\ Due(c, b.notice) => b.ver = source[b.notice].ver

Asks(c) ==
    /\ Sole(c)
    /\ mem[c].now <= now
    /\ mem[c].start = StartOf(lastSuccess, mem[c].now)
    /\ DuesComing(c) /\ BatchNew(c)
    /\ pc[c] \in Working => mem[c].batch = {}

\* What the next collection would not ask for any more.
Reached(n) ==
    /\ Posted(n) /\ lastSuccess # 0
    /\ Minute(since) <= source[n].at /\ source[n].at < Minute(lastSuccess - Overlap)
    => stored[n].ver = source[n].ver

ClockOK == lastSuccess <= now /\ \A n \in Unlisted : now <= source[n].at + Delay

ReachInv ==
    /\ \A n \in Notice : Reached(n)
    /\ ClockOK
    /\ \A c \in Collector : pc[c] # "idle" => Asks(c)

LEMMA ReachMeans ==
    ASSUME \A n \in Notice : Reached(n)
    PROVE  NothingOutOfReach
BY DEF NothingOutOfReach, Reached, StartOf

LEMMA MinuteBounds ==
    ASSUME NEW x \in Int
    PROVE  Minute(x) \in Int /\ Minute(x) <= x /\ x < Minute(x) + Grain
BY Bounds DEF Minute

\* A later time is in the same minute or in a later one.
LEMMA MinuteGrows ==
    ASSUME NEW x \in Int, NEW y \in Int, x <= y
    PROVE  Minute(x) <= Minute(y)
<1>1. ASSUME NEW z \in Int PROVE Minute(z) = Grain * (z \div Grain) /\ (z \div Grain) \in Int
    BY Bounds DEF Minute
<1>2. PICK p \in Int : Minute(x) = Grain * p
    BY <1>1
<1>3. PICK q \in Int : Minute(y) = Grain * q
    BY <1>1
<1>4. SUFFICES ASSUME Grain * p > Grain * q PROVE FALSE
    BY <1>2, <1>3, Bounds
<1>5. p > q
    BY <1>4, Bounds
<1>6. Grain * p >= Grain * q + Grain
    BY <1>5, Bounds
<1>7. Minute(x) <= x /\ y < Minute(y) + Grain /\ Minute(x) \in Int /\ Minute(y) \in Int
    BY MinuteBounds
<1>8. QED
    BY <1>2, <1>3, <1>6, <1>7, Bounds

\* The numbers of a collection.
LEMMA Numbers ==
    ASSUME TypeInv
    PROVE  /\ now \in Nat /\ lastSuccess \in Nat /\ since \in Nat
           /\ \A n \in Notice : source[n].at \in Nat /\ source[n].ver \in Nat /\ stored[n].ver \in Nat
           /\ \A c \in Collector : mem[c].now \in Nat /\ mem[c].start \in Int /\ mem[c].cat \in Nat
BY Bounds DEF TypeInv, SourceTypes, StoredTypes, StoredNotice, OtherTypes, RunTypes, Mem

\* The categories are numbered from one.
LEMMA CategoryNumbers ==
    /\ Len(Category) \in Nat /\ DOMAIN Category = 1 .. Len(Category)
    /\ \A i \in DOMAIN Category : i \in Nat /\ i >= 1 /\ i <= Len(Category)
<1>1. Category \in Seq({Category[i] : i \in DOMAIN Category})
  BY CollectionAssumption, Zenon
<1>2. Len(Category) \in Nat /\ DOMAIN Category = 1 .. Len(Category)
  BY <1>1
<1>3. QED
  BY <1>2

\* A notice posted now is not due, nor out of reach.
LEMMA OutsideReach ==
    ASSUME TypeInv, ReachInv, SourceTypes',
           UNCHANGED <<stored, lastSuccess, rule, rev, enabled, match, nextRev, lock, pc, snap, judge, mem,
                       settled, since>>,
           \/ now' = now /\ \E n \in Notice : Posts(n) \/ Lists(n)
           \/ Ticks
           \/ now' = now /\ source' = source
    PROVE  ReachInv'
<1>0. now' \in Nat /\ now <= now' /\ now \in Nat
    BY Numbers, Bounds DEF SourceTypes, Ticks
<1>1. ASSUME NEW n \in Notice
      PROVE  \/ source'[n].at = now /\ now' = now
             \/ /\ source'[n].at = source[n].at /\ source'[n].ver = source[n].ver
                /\ source[n].listed => source'[n].listed
    BY DEF Posts, Lists, Ticks
<1>2. ASSUME NEW n \in Notice PROVE Reached(n)'
  <2>1. CASE source'[n].at = now /\ now' = now
    <3>1. Minute(lastSuccess - Overlap) <= now
      BY MinuteBounds, Numbers, Bounds DEF ReachInv, ClockOK
    <3>2. Minute(lastSuccess - Overlap) \in Int
      BY MinuteBounds, Numbers, Bounds
    <3>3. QED
      BY <1>0, <2>1, <3>1, <3>2 DEF Reached, Minute
  <2>2. CASE source'[n].at = source[n].at /\ source'[n].ver = source[n].ver
    BY <2>2 DEF ReachInv, Reached, Posted, Minute
  <2>3. QED
    BY <1>1, <2>1, <2>2
<1>3. ClockOK'
  <2>1. lastSuccess' <= now'
    BY <1>0, Numbers DEF ReachInv, ClockOK
  <2>2. ASSUME NEW n \in Notice, Posted(n)', ~source'[n].listed PROVE now' <= source'[n].at + Delay
    <3>1. CASE source'[n].at = now /\ now' = now
      BY <1>0, <3>1, Bounds
    <3>2. CASE source'[n].at = source[n].at /\ source'[n].ver = source[n].ver /\ ~source[n].listed
      <4>1. n \in Unlisted
        BY <2>2, <3>2 DEF Unlisted, Posted
      <4>2. now <= source[n].at + Delay
        BY <4>1 DEF ReachInv, ClockOK
      <4>3. now' = now \/ (now' = now + 1 /\ now < source[n].at + Delay)
        BY <4>1 DEF Ticks
      <4>4. QED
        BY <1>0, <3>2, <4>2, <4>3, Numbers, Bounds
    <3>3. QED
      BY <1>1, <2>2, <3>1, <3>2
  <2>3. QED
    BY <2>1, <2>2 DEF ClockOK, Unlisted
<1>4. ASSUME NEW c \in Collector, pc[c] # "idle" PROVE Asks(c)'
  <2>0. Asks(c)
    BY <1>4 DEF ReachInv
  <2>1. ASSUME NEW n \in Notice, source'[n].at = now /\ now' = now PROVE ~Due(c, n)'
    <3>1. Minute(mem[c].now - Overlap) \in Int /\ Minute(mem[c].now - Overlap) <= now
      BY <2>0, MinuteBounds, Numbers, Bounds DEF Asks
    <3>2. QED
      BY <1>0, <2>1, <3>1 DEF Due, Minute
  <2>2. ASSUME NEW n \in Notice, source'[n].at = source[n].at, source'[n].ver = source[n].ver
        PROVE  Due(c, n)' <=> Due(c, n)
    BY <2>2 DEF Due, Posted, Minute
  <2>3. DuesComing(c)'
    <3>1. ASSUME NEW n \in Notice, Due(c, n)' PROVE source'[n].listed /\ Coming(c, n)'
      <4>1. /\ source'[n].at = source[n].at /\ source'[n].ver = source[n].ver
            /\ source[n].listed => source'[n].listed
        BY <1>1, <2>1, <3>1
      <4>2. source[n].listed /\ Coming(c, n)
        BY <2>0, <2>2, <3>1, <4>1 DEF Asks, DuesComing
      <4>3. QED
        BY <4>1, <4>2 DEF Coming, Ahead
    <3>2. QED
      BY <3>1 DEF DuesComing
  <2>4. BatchNew(c)'
    <3>1. ASSUME NEW b \in mem[c].batch
          PROVE  /\ Minute(mem[c].start) <= source'[b.notice].at
                 /\ Due(c, b.notice)' => b.ver = source'[b.notice].ver
      <4>1. PICK n \in Notice : n = b.notice
        BY DEF TypeInv, RunTypes, Mem, Item
      <4>2. CASE source'[n].at = now /\ now' = now
        <5>1. mem[c].start <= now
          BY <2>0, Numbers, Bounds DEF Asks, StartOf, ReachInv, ClockOK
        <5>2. Minute(mem[c].start) <= now
          BY <5>1, MinuteBounds, Numbers
        <5>3. QED
          BY <2>1, <4>1, <4>2, <5>2 DEF Due
      <4>3. CASE source'[n].at = source[n].at /\ source'[n].ver = source[n].ver
        <5>1. Minute(mem[c].start) <= source[n].at /\ (Due(c, n) => b.ver = source[n].ver)
          BY <2>0, <4>1 DEF Asks, BatchNew
        <5>2. QED
          BY <2>2, <4>1, <4>3, <5>1 DEF Due
      <4>4. QED
        BY <1>1, <4>1, <4>2, <4>3
    <3>2. QED
      BY <3>1 DEF BatchNew, Minute
  <2>5. Sole(c)' /\ (mem[c].now <= now)' /\ (mem[c].start = StartOf(lastSuccess, mem[c].now))'
    BY <1>0, <2>0, Numbers DEF Asks, Sole, StartOf
  <2>6. QED
    BY <2>0, <2>3, <2>4, <2>5 DEF Asks
<1>5. QED
    BY <1>2, <1>3, <1>4 DEF ReachInv

\* A collection begins with all it has to ask for before it.
LEMMA BeginAsks ==
    ASSUME TypeInv, ReachInv, NEW c \in Collector, BeginsRun(c), OthersKept(c),
           UNCHANGED <<now, source, rule, rev, enabled, nextRev>>
    PROVE  ReachInv'
<1>0. /\ mem'[c].now = now /\ mem'[c].start = StartOf(lastSuccess, now) /\ mem'[c].cat = 1 /\ mem'[c].batch = {}
      /\ pc'[c] = "filters" /\ lock = NoProc /\ lock' = c
      /\ UNCHANGED <<stored, lastSuccess, since>>
    BY FreshMem DEF BeginsRun
<1>1. \A d \in Collector : pc[d] = "idle"
    BY <1>0, CollectionAssumption DEF ReachInv, Asks, Sole
<1>2. (\A n \in Notice : Reached(n)') /\ ClockOK'
    BY <1>0, Zenon DEF ReachInv, Reached, Posted, Minute, ClockOK, Unlisted
<1>3. \A d \in Collector : d # c => pc'[d] = "idle"
    BY <1>1 DEF OthersKept
<1>4. Asks(c)'
  <2>1. Sole(c)'
    BY <1>0, <1>1 DEF BeginsRun, Sole
  <2>2. ASSUME NEW n \in Notice, Due(c, n)' PROVE source'[n].listed /\ Coming(c, n)'
    <3>1. Posted(n) /\ source[n].at < Minute(now - Overlap)
      BY <1>0, <2>2 DEF Due, Posted, Minute
    <3>2. source[n].at + Delay < now
      BY <3>1, MinuteBounds, Numbers, Bounds
    <3>3. source[n].listed
      BY <3>1, <3>2, Numbers, Bounds DEF ReachInv, ClockOK, Unlisted
    <3>4. \E i \in DOMAIN Category : Category[i] = CategoryOf[n]
      BY CollectionAssumption
    <3>5. \A i \in DOMAIN Category : i >= 1
      BY CategoryNumbers, Zenon
    <3>6. QED
      BY <1>0, <3>3, <3>4, <3>5 DEF Coming, Ahead
  <2>3. (mem[c].now <= now)' /\ (mem[c].start = StartOf(lastSuccess, mem[c].now))'
    BY <1>0, Numbers DEF StartOf
  <2>4. (pc[c] \in Working => mem[c].batch = {})' /\ BatchNew(c)'
    BY <1>0 DEF BatchNew
  <2>5. QED
    BY <2>1, <2>2, <2>3, <2>4 DEF Asks, DuesComing
<1>5. QED
    BY <1>2, <1>3, <1>4 DEF ReachInv

\* What a collection does between its beginning and its end.
LEMMA WorksReach ==
    ASSUME TypeInv, ReachInv, NEW c \in Collector, Current(c), Asks(c), Works(c), Sole(c)', source' = source,
           now' = now
    PROVE  Asks(c)' /\ \A n \in Notice : Reached(n)'
<1>0. /\ DuesComing(c) /\ BatchNew(c) /\ (pc[c] \in Working => mem[c].batch = {}) /\ mem[c] \in Mem /\ PlaceOK(c)
      /\ mem[c].now <= now /\ mem[c].start = StartOf(lastSuccess, mem[c].now) /\ \A n \in Notice : Reached(n)
      /\ stored \in [Notice -> StoredNotice]
    BY DEF Asks, ReachInv, TypeInv, RunTypes, StoredTypes
<1>1. TimesKept(c) /\ UNCHANGED <<lastSuccess, since>>
    BY Zenon DEF Works, LoadsFilters, Fetches, Stores, TakesActive, TakesNotice, FindsRegion, Enriches,
           FindsNone, Judges, TimesKept
<1>2. \A n \in Notice : Due(c, n)' <=> Due(c, n)
    BY <1>1 DEF Due, Posted, Minute, TimesKept
<1>3. ASSUME DuesComing(c)', BatchNew(c)', (pc[c] \in Working => mem[c].batch = {})', \A n \in Notice : Reached(n)'
      PROVE  Asks(c)' /\ \A n \in Notice : Reached(n)'
    BY <1>0, <1>1, <1>3 DEF Asks, TimesKept, StartOf
<1>4. ASSUME \A n \in Notice : stored'[n].ver = stored[n].ver
      PROVE  \A n \in Notice : Reached(n)'
    BY <1>0, <1>1, <1>4 DEF Reached, Posted, Minute
<1>5. ASSUME mem'[c].batch = mem[c].batch PROVE BatchNew(c)'
  <2>1. ASSUME NEW b \in mem[c].batch
        PROVE  Minute(mem'[c].start) <= source'[b.notice].at /\ (Due(c, b.notice)' => b.ver = source'[b.notice].ver)
    <3>1. b.notice \in Notice
      BY <1>0 DEF Mem, Item
    <3>2. QED
      BY <1>0, <1>1, <1>2, <3>1 DEF BatchNew, TimesKept
  <2>2. QED
    BY <1>5, <2>1 DEF BatchNew, Minute
<1>6. CASE LoadsFilters(c)
  <2>1. /\ pc[c] = "filters" /\ pc'[c] = "fetch" /\ mem'[c].cat = mem[c].cat /\ mem'[c].batch = mem[c].batch
        /\ stored' = stored
    BY <1>6 DEF LoadsFilters
  <2>2. DuesComing(c)'
    BY <1>0, <1>2, <2>1 DEF DuesComing, Coming, Ahead
  <2>3. QED
    BY <1>3, <1>4, <1>5, <2>1, <2>2 DEF Working
<1>7. CASE Fetches(c)
  <2>1. /\ pc[c] = "fetch" /\ pc'[c] = "fetch" /\ mem[c].batch = {} /\ mem'[c].cat = mem[c].cat + 1 /\ stored' = stored
        /\ mem'[c].batch = Listing(Category[mem[c].cat], mem[c].start, mem[c].now)
    BY <1>7 DEF Fetches
  <2>2. \A b \in mem'[c].batch : \E n \in Notice :
          /\ b = [notice |-> n, ver |-> source[n].ver, region |-> IF source[n].region THEN source[n].ver ELSE 0]
          /\ Minute(mem[c].start) <= source[n].at
    BY <2>1 DEF Listing
  <2>3. BatchNew(c)'
    BY <1>1, <2>2 DEF BatchNew, TimesKept, Minute
  <2>4. ASSUME NEW n \in Notice, Due(c, n)' PROVE source'[n].listed /\ Coming(c, n)'
    <3>1. source[n].listed /\ Coming(c, n) /\ Due(c, n)
      BY <1>0, <1>2, <2>4 DEF DuesComing
    <3>2. CASE stored[n].ver = source[n].ver
      BY <2>1, <3>1, <3>2 DEF Coming
    <3>3. ASSUME NEW i \in DOMAIN Category, i >= mem[c].cat, Category[i] = CategoryOf[n] PROVE Coming(c, n)'
      <4>0. i \in Nat /\ mem[c].cat \in Nat
        <5>1. i \in Nat
          BY CategoryNumbers, <3>3, Zenon
        <5>2. mem[c].cat \in Nat
          BY Numbers, Zenon
        <5>3. QED
          BY <5>1, <5>2
      <4>1. CASE i = mem[c].cat
        <5>1. Minute(mem[c].start) <= source[n].at /\ source[n].at <= Minute(mem[c].now)
          <6>1. source[n].at < Minute(mem[c].now - Overlap) /\ Minute(mem[c].start) <= source[n].at
            BY <3>1 DEF Due
          <6>2. /\ Minute(mem[c].now - Overlap) <= Minute(mem[c].now)
                /\ Minute(mem[c].now - Overlap) \in Int /\ Minute(mem[c].now) \in Int
            BY MinuteGrows, MinuteBounds, Numbers, Bounds
          <6>3. QED
            BY <6>1, <6>2, Numbers
        <5>2. \E b \in Listing(Category[mem[c].cat], mem[c].start, mem[c].now) : b.notice = n
          <6>1. n \in {k \in Notice : /\ source[k].listed
                                     /\ CategoryOf[k] = Category[mem[c].cat]
                                     /\ Minute(mem[c].start) <= source[k].at
                                     /\ source[k].at <= Minute(mem[c].now)}
            BY <3>1, <3>3, <4>1, <5>1
          <6>2. [notice |-> n, ver |-> source[n].ver, region |-> IF source[n].region THEN source[n].ver ELSE 0]
                  \in Listing(Category[mem[c].cat], mem[c].start, mem[c].now)
            BY <6>1, Zenon DEF Listing
          <6>3. QED
            BY <6>2
        <5>3. QED
          BY <2>1, <5>2 DEF Coming
      <4>2. CASE i # mem[c].cat
        <5>1. i >= mem'[c].cat
          BY <2>1, <3>3, <4>0, <4>2
        <5>2. QED
          BY <2>1, <3>3, <5>1 DEF Coming, Ahead
      <4>3. QED
        BY <4>1, <4>2
    <3>4. QED
      BY <2>1, <3>1, <3>2, <3>3 DEF Coming, Ahead
  <2>5. QED
    BY <1>3, <1>4, <2>1, <2>3, <2>4 DEF Working, DuesComing
<1>8. ASSUME NEW b \in mem[c].batch, Stores(c, b) PROVE Asks(c)' /\ \A n \in Notice : Reached(n)'
  <2>1. /\ pc[c] = "fetch" /\ pc'[c] = "fetch" /\ mem'[c].cat = mem[c].cat /\ mem'[c].batch = mem[c].batch \ {b}
        /\ stored' = [stored EXCEPT ![b.notice] = Merged(stored[b.notice], b.ver, b.region)]
    BY <1>8 DEF Stores
  <2>2. PICK k \in Notice : k = b.notice /\ b.ver \in Version /\ b.region \in Region
    BY <1>0 DEF Mem, Item
  <2>3. stored'[k].ver = b.ver /\ \A n \in Notice : n # k => stored'[n] = stored[n]
    <3>1. Merged(stored[k], b.ver, b.region).ver = b.ver
      BY <1>0, <2>2 DEF Merged
    <3>2. QED
      BY <1>0, <2>1, <2>2, <3>1
  <2>4. Minute(mem[c].start) <= source[k].at /\ (Due(c, k) => b.ver = source[k].ver)
    BY <1>0, <2>2 DEF BatchNew
  <2>5. BatchNew(c)'
    <3>1. ASSUME NEW x \in mem[c].batch
          PROVE  Minute(mem'[c].start) <= source'[x.notice].at /\ (Due(c, x.notice)' => x.ver = source'[x.notice].ver)
      <4>1. x.notice \in Notice
        BY <1>0 DEF Mem, Item
      <4>2. QED
        BY <1>0, <1>1, <1>2, <4>1 DEF BatchNew, TimesKept
    <3>2. QED
      BY <2>1, <3>1 DEF BatchNew, Minute
  <2>6. ASSUME NEW n \in Notice, Due(c, n)' PROVE source'[n].listed /\ Coming(c, n)'
    <3>1. source[n].listed /\ Coming(c, n) /\ Due(c, n)
      BY <1>0, <1>2, <2>6 DEF DuesComing
    <3>2. CASE n = k
      BY <2>3, <2>4, <3>1, <3>2 DEF Coming
    <3>3. CASE n # k
      BY <2>1, <2>2, <2>3, <3>1, <3>3 DEF Coming, Ahead
    <3>4. QED
      BY <3>2, <3>3
  <2>7. ASSUME NEW n \in Notice PROVE Reached(n)'
    <3>1. CASE n = k
      <4>1. lastSuccess # 0 => Minute(mem[c].start) = Minute(lastSuccess - Overlap)
        BY <1>0 DEF StartOf
      <4>2. Minute(mem[c].start) \in Int
        BY MinuteBounds, Numbers
      <4>3. lastSuccess # 0 => ~(source[n].at < Minute(lastSuccess - Overlap))
        BY <2>4, <3>1, <4>1, <4>2, Numbers
      <4>4. QED
        BY <1>1, <4>3 DEF Reached, Minute
    <3>2. CASE n # k
      BY <1>0, <1>1, <2>3, <3>2 DEF Reached, Posted, Minute
    <3>3. QED
      BY <3>1, <3>2
  <2>8. QED
    BY <1>3, <2>1, <2>5, <2>6, <2>7 DEF Working, DuesComing
<1>9. CASE TakesActive(c)
  <2>1. /\ pc'[c] = "judge" /\ mem[c].batch = {} /\ mem'[c].batch = {} /\ mem[c].cat > Len(Category) /\ stored' = stored
    BY <1>9 DEF TakesActive
  <2>2. \A n \in Notice : ~Ahead(c, n)
    <3>1. \A i \in DOMAIN Category : i \in Nat /\ i <= Len(Category) /\ Len(Category) \in Nat
      BY CategoryNumbers, Zenon
    <3>2. QED
      BY <2>1, <3>1, Numbers DEF Ahead
  <2>3. DuesComing(c)'
    BY <1>0, <1>2, <2>1, <2>2 DEF DuesComing, Coming
  <2>4. QED
    BY <1>3, <1>4, <1>5, <2>1, <2>3
<1>10. ASSUME pc[c] \in Working, pc'[c] \in Working, mem'[c].batch = mem[c].batch,
              \A n \in Notice : stored'[n].ver = stored[n].ver
       PROVE  Asks(c)' /\ \A n \in Notice : Reached(n)'
  <2>1. \A n \in Notice : Coming(c, n) => Coming(c, n)'
    BY <1>10 DEF Coming, Ahead, Working
  <2>2. DuesComing(c)'
    BY <1>0, <1>2, <2>1 DEF DuesComing
  <2>3. QED
    BY <1>0, <1>3, <1>4, <1>5, <1>10, <2>2
<1>11. ASSUME NEW a \in mem[c].active, TakesNotice(c, a) PROVE Asks(c)' /\ \A n \in Notice : Reached(n)'
    BY <1>10, <1>11 DEF TakesNotice, Working
<1>12. ASSUME FindsRegion(c) \/ \E s \in judge[c] : Judges(c, s) PROVE Asks(c)' /\ \A n \in Notice : Reached(n)'
    BY <1>10, <1>12 DEF FindsRegion, Judges, Working
<1>13. ASSUME Enriches(c) \/ FindsNone(c) PROVE Asks(c)' /\ \A n \in Notice : Reached(n)'
  <2>0. AtHand(c) /\ pc[c] \in Working /\ pc'[c] \in Working /\ mem'[c].batch = mem[c].batch
    BY <1>13 DEF Enriches, FindsNone, AtHand, Working
  <2>1. PICK k \in Notice : k = mem[c].cur[1]
    BY <1>0, <2>0 DEF PlaceOK
  <2>2. \A n \in Notice : stored'[n].ver = stored[n].ver
    <3>1. CASE Enriches(c)
      <4>1. stored[k].ver = mem[c].cur[2].ver
        BY <2>0, <2>1 DEF Current, CurFresh
      <4>2. stored' = [stored EXCEPT ![k] = Merged(stored[k], mem[c].cur[2].ver, mem[c].cur[2].region)]
        BY <2>1, <3>1 DEF Enriches
      <4>3. Merged(stored[k], mem[c].cur[2].ver, mem[c].cur[2].region).ver = stored[k].ver
        BY <4>1 DEF Merged
      <4>4. QED
        BY <1>0, <4>2, <4>3
    <3>2. CASE FindsNone(c)
      BY <1>0, <2>1, <3>2 DEF FindsNone, StoredNotice
    <3>3. QED
      BY <1>13, <3>1, <3>2
  <2>3. QED
    BY <1>10, <2>0, <2>2
<1>14. QED
    BY <1>6, <1>7, <1>8, <1>9, <1>11, <1>12, <1>13, Zenon DEF Works

\* A collection that succeeds has stored everything the next one will not ask for.
LEMMA SucceedsReach ==
    ASSUME TypeInv, ReachInv, NEW c \in Collector, Asks(c), Succeeds(c), source' = source, now' = now
    PROVE  (\A n \in Notice : Reached(n)') /\ ClockOK'
<1>0. /\ pc[c] = "judge" /\ lastSuccess' = mem[c].now /\ stored' = stored
      /\ since' = IF lastSuccess = 0 /\ mem[c].start > 0 THEN mem[c].start ELSE since
    BY DEF Succeeds, Ends
<1>1. /\ mem[c].batch = {} /\ mem[c].now <= now /\ mem[c].start = StartOf(lastSuccess, mem[c].now) /\ DuesComing(c)
    BY <1>0 DEF Asks, Working
<1>2. ClockOK'
    BY <1>0, <1>1 DEF ReachInv, ClockOK, Unlisted, Posted
<1>3. ASSUME NEW n \in Notice, Posted(n), Minute(since') <= source[n].at,
             source[n].at < Minute(mem[c].now - Overlap)
      PROVE  stored[n].ver = source[n].ver
  <2>1. Minute(mem[c].start) \in Int /\ Minute(mem[c].start) <= mem[c].start
    BY MinuteBounds, Numbers
  <2>2. CASE Minute(mem[c].start) <= source[n].at
    <3>1. Due(c, n)
      BY <1>3, <2>2 DEF Due
    <3>2. Coming(c, n)
      BY <1>1, <3>1 DEF DuesComing
    <3>3. QED
      BY <1>0, <1>1, <3>2 DEF Coming, Ahead
  <2>3. CASE source[n].at < Minute(mem[c].start)
    <3>1. lastSuccess # 0
      <4>1. SUFFICES ASSUME lastSuccess = 0 PROVE FALSE
        OBVIOUS
      <4>2. CASE mem[c].start > 0
        <5>1. Minute(since') = Minute(mem[c].start)
          BY <1>0, <4>1, <4>2
        <5>2. QED
          BY <1>3, <2>1, <2>3, <5>1, Numbers
      <4>3. CASE ~(mem[c].start > 0)
        BY <2>1, <2>3, <4>3, Numbers
      <4>4. QED
        BY <4>2, <4>3
    <3>2. since' = since /\ mem[c].start = lastSuccess - Overlap
      BY <1>0, <1>1, <3>1 DEF StartOf
    <3>3. QED
      BY <1>3, <2>3, <3>1, <3>2 DEF ReachInv, Reached
  <2>4. QED
    BY <2>1, <2>2, <2>3, Numbers
<1>4. ASSUME NEW n \in Notice PROVE Reached(n)'
    BY <1>0, <1>3 DEF Reached, Posted, Minute
<1>5. QED
    BY <1>2, <1>4

LEMMA CollectReach ==
    ASSUME SessionLoss = FALSE, TypeInv, ExactInv, ReachInv, NEW d \in Collector, Acts(d), OthersKept(d),
           UNCHANGED <<now, source, rule, rev, enabled, nextRev>>
    PROVE  ReachInv'
<1>1. CASE BeginsRun(d)
    BY <1>1, BeginAsks
<1>2. ASSUME pc[d] # "idle" PROVE ReachInv'
  <2>1. Asks(d) /\ Sole(d) /\ Current(d)
    BY <1>2 DEF ReachInv, Asks, ExactInv
  <2>2. \A c \in Collector : c # d => pc[c] = "idle" /\ pc'[c] = "idle"
    BY <2>1 DEF Current, Alone, OthersKept
  <2>3. CASE Works(d)
    <3>1. UNCHANGED <<lock, settled, lastSuccess>>
      BY <2>3, Zenon DEF Works, LoadsFilters, Fetches, Stores, TakesActive, TakesNotice, FindsRegion, Enriches,
             FindsNone, Judges
    <3>2. Sole(d)'
      BY <2>1, <3>1 DEF Sole
    <3>3. Asks(d)' /\ \A n \in Notice : Reached(n)'
      BY <2>1, <2>3, <3>2, WorksReach
    <3>4. ClockOK'
      BY <3>1 DEF ReachInv, ClockOK, Unlisted, Posted
    <3>5. QED
      BY <2>2, <3>3, <3>4 DEF ReachInv
  <2>4. CASE Succeeds(d)
    <3>1. pc'[d] = "idle"
      BY <2>4 DEF Succeeds, Ends
    <3>2. QED
      BY <2>1, <2>2, <2>4, <3>1, SucceedsReach DEF ReachInv
  <2>5. CASE Fails(d)
    <3>1. pc'[d] = "idle" /\ UNCHANGED <<stored, lastSuccess, since>>
      BY <2>5 DEF Fails, Ends
    <3>2. (\A n \in Notice : Reached(n)') /\ ClockOK'
      BY <3>1, Zenon DEF ReachInv, Reached, Posted, Minute, ClockOK, Unlisted
    <3>3. QED
      BY <2>2, <3>1, <3>2 DEF ReachInv
  <2>6. ~Loses(d)
    BY SMTT(30) DEF Loses
  <2>7. QED
    BY <1>1, <2>3, <2>4, <2>5, <2>6, Zenon DEF Acts, Works
<1>3. BeginsRun(d) \/ pc[d] # "idle"
    BY DEF Acts, LoadsFilters, Fetches, Stores, TakesActive, TakesNotice, FindsRegion, Enriches, FindsNone,
           Judges, Succeeds, Fails, Ends, Loses
<1>4. QED
    BY <1>1, <1>2, <1>3

LEMMA ReachStep ==
    ASSUME SessionLoss = FALSE, TypeInv, ExactInv, ReachInv, [Next]_vars
    PROVE  ReachInv'
<1>1. ASSUME NEW c \in Collector, Collect(c) \/ RunFails(c) \/ LoseSession(c) PROVE ReachInv'
  <2>1. Acts(c) /\ OthersKept(c) /\ UNCHANGED <<now, source, rule, rev, enabled, nextRev>>
    BY <1>1, Kinds DEF TypeInv
  <2>2. QED
    BY <2>1, CollectReach
<1>2. ASSUME NEW f \in Filter, Edit(f) PROVE ReachInv'
  <2>1. UNCHANGED <<now, source, stored, lastSuccess, lock, pc, snap, judge, mem, settled, since>>
    BY <1>2, EditKinds DEF TypeInv
  <2>2. (\A n \in Notice : Reached(n)') /\ ClockOK'
    BY <2>1, Zenon DEF ReachInv, Reached, Posted, Minute, ClockOK, Unlisted
  <2>3. ASSUME NEW c \in Collector, pc[c] # "idle" PROVE Asks(c)'
    BY <2>1, <2>3, ZenonT(60) DEF ReachInv, Asks, Sole, StartOf, DuesComing, BatchNew, Due, Coming, Ahead, Posted, Minute
  <2>4. QED
    BY <2>1, <2>2, <2>3 DEF ReachInv
<1>3. CASE (\E n \in Notice : Publish(n) \/ List(n)) \/ Tick \/ UNCHANGED vars
  <2>1. /\ UNCHANGED <<stored, lastSuccess, rule, rev, enabled, match, nextRev, lock, pc, snap, judge, mem,
                       settled, since>>
        /\ SourceTypes'
        /\ \/ now' = now /\ \E n \in Notice : Posts(n) \/ Lists(n)
           \/ Ticks
           \/ now' = now /\ source' = source
    BY <1>3, OutsideKinds DEF TypeInv
  <2>2. QED
    BY <2>1, OutsideReach
<1>4. QED
    BY <1>1, <1>2, <1>3, Zenon DEF Next

\* What the next collection would not ask for any more is stored, for every lookback, overlap
\* and delay of the listing that is not longer than the overlap: no failed run, crash, late
\* listing or revision makes a notice fall between two collections (Collector.Run,
\* FinishCollection).  A collection keeps its lock here: after a lost one, an overtaken
\* collection may store an older revision over a newer one.
THEOREM NothingFallsBetween ==
    ASSUME SessionLoss = FALSE
    PROVE  Spec => []NothingOutOfReach
<1>1. Init => TypeInv /\ BelongInv /\ ExactInv /\ ReachInv
  <2>1. Init => ExactInv
    BY DEF Init, ExactInv, MatchesExact, Rested, Sole
  <2>2. Init => ReachInv
    BY DEF Init, ReachInv, Reached, ClockOK, Unlisted, Posted
  <2>3. QED
    BY <2>1, <2>2, TypeInit
<1>2. TypeInv /\ BelongInv /\ ExactInv /\ ReachInv /\ [Next]_vars
        => (TypeInv /\ BelongInv /\ ExactInv /\ ReachInv)'
    BY TypeStep, BelongStep, ExactStep, ReachStep
<1>3. ReachInv => NothingOutOfReach
    BY ReachMeans DEF ReachInv
<1>4. QED
    BY <1>1, <1>2, <1>3, PTL DEF Spec
=============================================================================
