--------------------------- MODULE NoticeCollection ---------------------------
(***************************************************************************)
(* What a collection reads and writes, and the edits of filters around it. *)
(*                                                                         *)
(*   internal/app/collector.go           Collector.Run                     *)
(*   internal/app/postgres_collector.go  the collector's repository        *)
(*   internal/app/postgres_web.go        SaveFilter, ToggleFilter,         *)
(*                                       DeleteFilter                      *)
(*                                                                         *)
(* A collection asks the procurement system for what was posted since its  *)
(* checkpoint, stores it, and judges every active notice by the filters it *)
(* loaded at its beginning.  Saving and enabling a filter take the         *)
(* collection lock; disabling and deleting one do not.                     *)
(***************************************************************************)
EXTENDS Integers, Sequences, FiniteSets

CONSTANTS
    Collector,     \* processes that collect
    Notice, Filter, Rule,
    Category,      \* the list collectionCategories
    CategoryOf,    \* the category of a notice
    Deadline,      \* its deadline
    Hits,          \* <<rule, version, region>>: the rule matches that content
    Overlap,       \* the ten minutes a collection goes back behind its checkpoint
    Lookback,      \* the seven days of a first collection
    Grain,         \* the procurement system is asked in whole minutes
    Delay,         \* a posted notice is listed at the latest after this time
    LookupBudget,  \* region lookups of one collection (10 in the code)
    SessionLoss,   \* the connection with the lock may be lost during a run
    MaxTime, MaxVersion, MaxRev,   \* bounds: time, revisions of notices, of filters
    NoProc

ASSUME CollectionAssumption ==
    /\ NoProc \notin Collector
    /\ Category \in Seq({Category[i] : i \in DOMAIN Category})
    /\ CategoryOf \in [Notice -> {Category[i] : i \in DOMAIN Category}]
    /\ Deadline \in [Notice -> Nat]
    /\ {Overlap, Lookback, Delay, LookupBudget, MaxVersion, MaxRev} \subseteq Nat
    /\ {Grain, MaxTime} \subseteq Nat \ {0}
    /\ Rule # {}
    /\ Delay <= Overlap
    /\ SessionLoss \in BOOLEAN

VARIABLES
    now,          \* the clock
    source,       \* the procurement system: version, posting time, whether it
                  \* is listed by now, whether the list says its region
    stored,       \* notices: version, region, region_lookup_complete
    lastSuccess,  \* collection_state.last_success_at, 0 for NULL
    rule, rev, enabled,  \* filters: rules, updated_at (0: no row), enabled
    match,        \* matches, with what their reasons were made of
    nextRev,      \* the next value of updated_at
    lock,         \* who has the collection lock
    pc, snap, judge, mem,  \* a collection: place, filters loaded, those still to
                           \* judge the current notice by, its other variables
    settled,      \* history: "alone" since a collection began while no other was at
                  \* work, "yes" since it succeeded with its lock, otherwise "no"
    since         \* history: where the first collection that succeeded began to ask

filterVars == <<rule, rev, enabled, nextRev>>
loadedVars == <<snap, judge>>
runVars    == <<pc, snap, judge, mem>>
vars == <<now, source, stored, lastSuccess, rule, rev, enabled, match, nextRev, lock, pc, snap, judge, mem, settled, since>>

Version == 1..MaxVersion
Region  == 0..MaxVersion    \* 0: blank; otherwise the version it was read with

NoMem == [now |-> 0, start |-> 0, cat |-> 1, batch |-> {}, active |-> {}, look |-> FALSE,
          lookups |-> 0, cur |-> <<>>]

Init ==
    /\ now = 1
    /\ source = [n \in Notice |-> [ver |-> 0, at |-> 0, listed |-> FALSE, region |-> FALSE]]
    /\ stored = [n \in Notice |-> [ver |-> 0, region |-> 0, looked |-> FALSE]]
    /\ lastSuccess = 0
    /\ rule = [f \in Filter |-> CHOOSE r \in Rule : TRUE]
    /\ rev = [f \in Filter |-> 0]
    /\ enabled = {}
    /\ match = {}
    /\ nextRev = 1
    /\ lock = NoProc
    /\ pc = [c \in Collector |-> "idle"]
    /\ snap = [c \in Collector |-> {}]
    /\ judge = [c \in Collector |-> {}]
    /\ mem = [c \in Collector |-> NoMem]
    /\ settled = "no"
    /\ since = 0

-----------------------------------------------------------------------------
(***************************************************************************)
(* The procurement system and time.                                        *)
(***************************************************************************)

Posted(n)  == source[n].ver > 0
Unlisted   == {n \in Notice : Posted(n) /\ ~source[n].listed}
Minute(t)  == t - (t % Grain)

\* Bound: nothing is posted in the last minute of the model's time, which no
\* request of a collection would cover.
Publish(n) ==
    /\ source[n].ver < MaxVersion
    /\ now < Minute(MaxTime)
    /\ \E b \in BOOLEAN :
         source' = [source EXCEPT ![n] = [ver |-> @.ver + 1, at |-> now, listed |-> FALSE, region |-> b]]
    /\ UNCHANGED <<now, stored, lastSuccess, filterVars, match, lock, runVars, settled, since>>

List(n) ==
    /\ n \in Unlisted
    /\ source' = [source EXCEPT ![n].listed = TRUE]
    /\ UNCHANGED <<now, stored, lastSuccess, filterVars, match, lock, runVars, settled, since>>

Tick ==
    /\ now < MaxTime
    /\ \A n \in Unlisted : now < source[n].at + Delay
    /\ now' = now + 1
    /\ UNCHANGED <<source, stored, lastSuccess, filterVars, match, lock, runVars, settled, since>>

-----------------------------------------------------------------------------
(***************************************************************************)
(* Matches.                                                                *)
(***************************************************************************)

Match(f, n, r, v, g) == [filter |-> f, notice |-> n, rule |-> r, ver |-> v, region |-> g]

WithoutFilter(f) == {m \in match : m.filter # f}

\* The rows of a filter and some notices.
MatchesOf(f, ns) == {m \in match : m.filter = f /\ m.notice \in ns}

\* Fault: the row of a notice that no longer matches stays.
JudgedKeeps(f, n, r, v, g) ==
    IF <<r, v, g>> \in Hits THEN (match \ MatchesOf(f, {n})) \cup {Match(f, n, r, v, g)} ELSE match

\* upsertMatchRevision and deleteMatchRevision: one row, judged anew.
Judged(f, n, r, v, g) ==
    (match \ MatchesOf(f, {n})) \cup (IF <<r, v, g>> \in Hits THEN {Match(f, n, r, v, g)} ELSE {})

\* loadActiveNotices.
ActiveAt(t) == {n \in Notice : stored[n].ver > 0 /\ Deadline[n] >= t}

\* What the editing transaction makes of the matches: those of changed rules are
\* deleted, and refreshFilterMatches judges every active notice anew.
Refreshed(f, r) ==
    (IF rule[f] = r THEN match \ MatchesOf(f, ActiveAt(now)) ELSE WithoutFilter(f)) \cup
        {Match(f, n, r, stored[n].ver, stored[n].region) :
            n \in {k \in ActiveAt(now) : <<r, stored[k].ver, stored[k].region>> \in Hits}}

-----------------------------------------------------------------------------
(***************************************************************************)
(* Edits of filters.                                                       *)
(***************************************************************************)

NewRevision(f) ==
    /\ nextRev <= MaxRev
    /\ rev' = [rev EXCEPT ![f] = nextRev]
    /\ nextRev' = nextRev + 1

\* A filter saved again as it is keeps its revision and is judged anew.
SaveFilter(f, r) ==
    /\ lock = NoProc
    /\ IF f \in enabled /\ rule[f] = r
         THEN UNCHANGED filterVars
         ELSE /\ NewRevision(f)
              /\ rule' = [rule EXCEPT ![f] = r]
              /\ enabled' = enabled \cup {f}
    /\ match' = Refreshed(f, r)
    /\ UNCHANGED <<now, source, stored, lastSuccess, lock, runVars, settled, since>>

EnableFilter(f) ==
    /\ lock = NoProc
    /\ rev[f] > 0
    /\ NewRevision(f)
    /\ enabled' = enabled \cup {f}
    /\ match' = Refreshed(f, rule[f])
    /\ UNCHANGED <<now, source, stored, lastSuccess, rule, lock, runVars, settled, since>>

\* Disabling does not wait for a collection.
DisableFilter(f) ==
    /\ rev[f] > 0
    /\ NewRevision(f)
    /\ enabled' = enabled \ {f}
    /\ match' = WithoutFilter(f)
    /\ UNCHANGED <<now, source, stored, lastSuccess, rule, lock, runVars, settled, since>>

\* Nor does deleting; the rows of matches go with their filter.
DeleteFilter(f) ==
    /\ rev[f] > 0
    /\ rev' = [rev EXCEPT ![f] = 0]
    /\ enabled' = enabled \ {f}
    /\ match' = WithoutFilter(f)
    /\ UNCHANGED <<now, source, stored, lastSuccess, rule, nextRev, lock, runVars, settled, since>>

-----------------------------------------------------------------------------
(***************************************************************************)
(* Collector.Run under the lock.                                           *)
(***************************************************************************)

Goto(c, from, to) ==
    /\ pc[c] = from
    /\ pc' = [pc EXCEPT ![c] = to]

\* The first request of a run covers Lookback, later ones go back behind the
\* checkpoint.
StartOf(last, t) == IF last = 0 THEN t - Lookback ELSE last - Overlap

BeginRun(c) ==
    /\ Goto(c, "idle", "filters")
    /\ lock = NoProc
    /\ lock' = c
    /\ mem' = [mem EXCEPT ![c] = [NoMem EXCEPT !.now = now, !.start = StartOf(lastSuccess, now)]]
    /\ settled' = IF \A d \in Collector \ {c} : pc[d] = "idle" THEN "alone" ELSE "no"
    /\ UNCHANGED <<now, source, stored, lastSuccess, filterVars, match, loadedVars, since>>

EnabledFilters(c) ==
    /\ Goto(c, "filters", "fetch")
    /\ snap' = [snap EXCEPT ![c] = {<<f, rule[f], rev[f]>> : f \in enabled}]
    /\ mem' = [mem EXCEPT ![c].look = (enabled # {})]
    /\ UNCHANGED <<now, source, stored, lastSuccess, filterVars, match, lock, judge, settled, since>>

\* What the procurement system lists of a category between two minutes.
Listing(cat, from, to) ==
    {[notice |-> n, ver |-> source[n].ver, region |-> IF source[n].region THEN source[n].ver ELSE 0] :
        n \in {k \in Notice : /\ source[k].listed
                              /\ CategoryOf[k] = cat
                              /\ Minute(from) <= source[k].at
                              /\ source[k].at <= Minute(to)}}

Fetch(c) ==
    /\ pc[c] = "fetch"
    /\ mem[c].batch = {}
    /\ mem[c].cat <= Len(Category)
    /\ mem' = [mem EXCEPT ![c].batch = Listing(Category[mem[c].cat], mem[c].start, mem[c].now),
                          ![c].cat = @ + 1]
    /\ UNCHANGED <<now, source, stored, lastSuccess, filterVars, match, lock, pc, loadedVars, settled, since>>

\* Fault: the known region is kept when other fields have changed.
MergedStale(old, v, g) ==
    [ver |-> v, region |-> IF g # 0 THEN g ELSE old.region, looked |-> g # 0 \/ old.looked]

\* mergeStoredRegion: a list without region keeps the known one as long as nothing
\* else changed; otherwise the region is blank and has to be looked up again.
Merged(old, v, g) ==
    IF g # 0 THEN [ver |-> v, region |-> g, looked |-> TRUE]
    ELSE IF old.ver = v THEN old
    ELSE [ver |-> v, region |-> 0, looked |-> FALSE]

StoreNotice(c) ==
    /\ pc[c] = "fetch"
    /\ \E b \in mem[c].batch :
         /\ stored' = [stored EXCEPT ![b.notice] = Merged(@, b.ver, b.region)]
         /\ mem' = [mem EXCEPT ![c].batch = @ \ {b}]
    /\ UNCHANGED <<now, source, lastSuccess, filterVars, match, lock, pc, loadedVars, settled, since>>

ActiveNotices(c) ==
    /\ Goto(c, "fetch", "judge")
    /\ mem[c].batch = {}
    /\ mem[c].cat > Len(Category)
    /\ mem' = [mem EXCEPT ![c].active = {<<n, stored[n]>> : n \in ActiveAt(mem[c].now)}]
    /\ UNCHANGED <<now, source, stored, lastSuccess, filterVars, match, lock, loadedVars, settled, since>>

NoticeDone(c) == pc[c] = "judge" /\ judge[c] = {}

NextNotice(c) ==
    /\ NoticeDone(c)
    /\ \E a \in mem[c].active :
         /\ mem' = [mem EXCEPT ![c].active = @ \ {a}, ![c].cur = a]
         /\ pc' = [pc EXCEPT ![c] = IF a[2].region = 0 /\ ~a[2].looked /\ mem[c].look
                                      THEN "lookup" ELSE "judge"]
    /\ judge' = [judge EXCEPT ![c] = snap[c]]
    /\ UNCHANGED <<now, source, stored, lastSuccess, filterVars, match, lock, snap, settled, since>>

\* LookupRegion answers with the region the system has at that moment ...
LookupFound(c) ==
    /\ Goto(c, "lookup", "enrich")
    /\ mem[c].lookups < LookupBudget
    /\ mem' = [mem EXCEPT ![c].cur[2].region = source[mem[c].cur[1]].ver,
                          ![c].lookups = @ + 1]
    /\ UNCHANGED <<now, source, stored, lastSuccess, filterVars, match, lock, loadedVars, settled, since>>

\* ... and the notice is stored with it.
StoreEnriched(c) ==
    /\ Goto(c, "enrich", "judge")
    /\ stored' = [stored EXCEPT ![mem[c].cur[1]] = Merged(@, mem[c].cur[2].ver, mem[c].cur[2].region)]
    /\ UNCHANGED <<now, source, lastSuccess, filterVars, match, lock, loadedVars, mem, settled, since>>

\* It knows no region: MarkRegionLookupComplete.
LookupEmpty(c) ==
    /\ Goto(c, "lookup", "judge")
    /\ mem[c].lookups < LookupBudget
    /\ stored' = [stored EXCEPT ![mem[c].cur[1]].looked = TRUE]
    /\ mem' = [mem EXCEPT ![c].lookups = @ + 1]
    /\ UNCHANGED <<now, source, lastSuccess, filterVars, match, lock, loadedVars, settled, since>>

\* Fault: a notice whose lookup failed is not judged.
LookupFailsSkips(c) ==
    /\ Goto(c, "lookup", "judge")
    /\ judge' = [judge EXCEPT ![c] = {}]
    /\ UNCHANGED <<now, source, stored, lastSuccess, filterVars, match, lock, snap, mem, settled, since>>

\* It fails, which costs a lookup, or the budget is used up, which ends the
\* lookups of this run; the notice is judged as it is.
LookupFails(c) ==
    /\ Goto(c, "lookup", "judge")
    /\ mem' = IF mem[c].lookups < LookupBudget
                THEN [mem EXCEPT ![c].lookups = @ + 1]
                ELSE [mem EXCEPT ![c].look = FALSE]
    /\ UNCHANGED <<now, source, stored, lastSuccess, filterVars, match, lock, loadedVars, settled, since>>

\* Fault: the revision of the filter is not compared.
EligibleAnyRevision(s) == s[1] \in enabled

\* The statement's condition: the filter is still the one that was loaded.
Eligible(s) == s[1] \in enabled /\ rev[s[1]] = s[3]

JudgeMatch(c) ==
    /\ pc[c] = "judge"
    /\ \E s \in judge[c] :
         /\ judge' = [judge EXCEPT ![c] = @ \ {s}]
         /\ match' = IF Eligible(s)
                       THEN Judged(s[1], mem[c].cur[1], s[2], mem[c].cur[2].ver, mem[c].cur[2].region)
                       ELSE match
    /\ UNCHANGED <<now, source, stored, lastSuccess, filterVars, lock, pc, snap, mem, settled, since>>

\* The collection is over; its lock, unless it was lost, goes with its session.
Over(c) ==
    /\ pc' = [pc EXCEPT ![c] = "idle"]
    /\ snap' = [snap EXCEPT ![c] = {}]
    /\ judge' = [judge EXCEPT ![c] = {}]
    /\ mem' = [mem EXCEPT ![c] = NoMem]
    /\ lock' = IF lock = c THEN NoProc ELSE lock

\* What is known of the collection that succeeds.
Settle(c) ==
    /\ settled' = IF lock = c /\ settled = "alone" THEN "yes" ELSE settled
    /\ since' = IF lastSuccess = 0 /\ mem[c].start > 0 THEN mem[c].start ELSE since

\* Fault: the checkpoint is the end of the run instead of its beginning.
FinishAtEnd(c) ==
    /\ NoticeDone(c)
    /\ mem[c].active = {}
    /\ lastSuccess' = now
    /\ Settle(c)
    /\ Over(c)
    /\ UNCHANGED <<now, source, stored, filterVars, match>>

FinishCollection(c) ==
    /\ NoticeDone(c)
    /\ mem[c].active = {}
    /\ lastSuccess' = mem[c].now
    /\ Settle(c)
    /\ Over(c)
    /\ UNCHANGED <<now, source, stored, filterVars, match>>

\* An error at any point (finishFailure leaves the checkpoint alone), or the end
\* of the process.
RunFails(c) ==
    /\ pc[c] # "idle"
    /\ Over(c)
    /\ settled' = "no"
    /\ UNCHANGED <<now, source, stored, lastSuccess, filterVars, match, since>>

\* The connection with the lock breaks; Run does not notice.
LoseSession(c) ==
    /\ SessionLoss
    /\ lock = c
    /\ lock' = NoProc
    /\ UNCHANGED <<now, source, stored, lastSuccess, filterVars, match, runVars, settled, since>>

-----------------------------------------------------------------------------
Collect(c) ==
    \/ BeginRun(c) \/ EnabledFilters(c) \/ Fetch(c) \/ StoreNotice(c) \/ ActiveNotices(c)
    \/ NextNotice(c) \/ LookupFound(c) \/ StoreEnriched(c) \/ LookupEmpty(c) \/ LookupFails(c)
    \/ JudgeMatch(c) \/ FinishCollection(c)

Edit(f) ==
    (\E r \in Rule : SaveFilter(f, r)) \/ EnableFilter(f) \/ DisableFilter(f) \/ DeleteFilter(f)

Next ==
    \/ \E n \in Notice : Publish(n) \/ List(n)
    \/ Tick
    \/ \E f \in Filter : Edit(f)
    \/ \E c \in Collector : Collect(c) \/ RunFails(c) \/ LoseSession(c)

Spec == Init /\ [][Next]_vars

\* A collection is started again and again (Scheduler.Tick) and goes on; neither
\* the procurement system nor the database fails every time it is asked.
Fairness ==
    /\ \A n \in Notice : WF_vars(List(n))
    /\ WF_vars(Tick)
    /\ \A c \in Collector :
         /\ WF_vars(BeginRun(c))
         /\ SF_vars(EnabledFilters(c))
         /\ \A i \in DOMAIN Category : SF_vars(mem[c].cat = i /\ Fetch(c))
         /\ SF_vars(StoreNotice(c))
         /\ SF_vars(ActiveNotices(c))
         /\ SF_vars(NextNotice(c))
         /\ SF_vars(LookupFound(c) \/ LookupEmpty(c) \/ LookupFails(c))
         /\ SF_vars(StoreEnriched(c))
         /\ SF_vars(JudgeMatch(c))
         /\ SF_vars(FinishCollection(c))

FairSpec == Spec /\ Fairness

-----------------------------------------------------------------------------
Places == {"idle", "filters", "fetch", "judge", "lookup", "enrich"}

\* A notice with a region needs no lookup (region_lookup_complete).
StoredNotice ==
    {d \in [ver : 0..MaxVersion, region : Region, looked : BOOLEAN] : d.region # 0 => d.looked}

TypeOK ==
    /\ now \in 1..MaxTime
    /\ source \in [Notice -> [ver : 0..MaxVersion, at : 0..MaxTime, listed : BOOLEAN, region : BOOLEAN]]
    /\ stored \in [Notice -> StoredNotice]
    /\ lastSuccess \in 0..MaxTime
    /\ rule \in [Filter -> Rule]
    /\ rev \in [Filter -> 0..MaxRev]
    /\ enabled \subseteq Filter
    /\ match \subseteq [filter : Filter, notice : Notice, rule : Rule, ver : Version, region : Region]
    /\ nextRev \in 1..(MaxRev + 1)
    /\ lock \in Collector \cup {NoProc}
    /\ pc \in [Collector -> Places]
    /\ snap \in [Collector -> SUBSET (Filter \X Rule \X (1..MaxRev))]
    /\ \A c \in Collector : judge[c] \subseteq snap[c]
    /\ settled \in {"no", "alone", "yes"}
    /\ since \in 0..MaxTime

\* A match belongs to an enabled filter and was made with the rules that the
\* filter has, whatever was edited while a collection ran and even if the
\* collection's lock was lost (eligible_filter of upsertMatchRevision).
MatchesBelong ==
    \A m \in match : m.filter \in enabled /\ m.rule = rule[m.filter]

\* What the next collection would not ask for any more is stored, from the lookback
\* of the first one on: no failure, crash or late listing makes a notice or a
\* revision of one fall between two collections (Collector.Run, FinishCollection).
NothingOutOfReach ==
    \A n \in Notice :
        /\ Posted(n) /\ lastSuccess # 0
        /\ Minute(since) <= source[n].at /\ source[n].at < Minute(StartOf(lastSuccess, now))
        => stored[n].ver = source[n].ver

\* A stored region is never older than the rest of its notice (the comment in
\* mergeStoredRegion).
RegionNotStale ==
    \A n \in Notice : stored[n].region # 0 => stored[n].region >= stored[n].ver

\* Since a collection succeeded that no other ran beside, and until the next begins,
\* the matches of the enabled filters on active notices are exactly what the matcher
\* says of them, through every edit of a filter.
MatchesExact ==
    settled = "yes" =>
        \A f \in enabled, n \in ActiveAt(now) :
            MatchesOf(f, {n}) =
                IF <<rule[f], stored[n].ver, stored[n].region>> \in Hits
                  THEN {Match(f, n, rule[f], stored[n].ver, stored[n].region)} ELSE {}

\* A notice that an enabled filter asks for, whatever its region turns out to be,
\* is matched in the end, unless filter or notice change or its deadline passes.
Wanted(f, n, r, v) ==
    /\ f \in enabled /\ rule[f] = r
    /\ source[n].ver = v
    /\ Deadline[n] >= now

MatchedInTheEnd ==
    \A f \in Filter, n \in Notice, r \in Rule, v \in Version :
        (\A g \in Region : <<r, v, g>> \in Hits) =>
            (Wanted(f, n, r, v) ~>
                (~Wanted(f, n, r, v) \/ \E m \in match : m.filter = f /\ m.notice = n /\ m.ver = v))
=============================================================================
