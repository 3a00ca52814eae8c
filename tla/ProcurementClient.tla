------------------------- MODULE ProcurementClient -------------------------
(***************************************************************************)
(* The client of the procurement service: paged listings, region lookups   *)
(* that share one request per notice, retries, and the daily allowance of  *)
(* calls.                                                                  *)
(*                                                                         *)
(*   internal/procurement/client.go        List, request, LookupRegion     *)
(*   internal/app/postgres_collector.go    PostgresDailyCallBudget         *)
(*                                                                         *)
(* Callers are goroutines of one process.  Fetch makes a Client for every  *)
(* listing; the region lookups of a source share one Client, whose cache   *)
(* and pending requests are the variables of this module.  The allowance   *)
(* is a row of the database and outlives the process.  A                   *)
(* cancelled context is an answer that is not retried, or a wait that ends *)
(* early.  The service may answer a page with a part of it or with an      *)
(* earlier page, and its list may grow between two pages.                  *)
(***************************************************************************)
EXTENDS Integers, Sequences, FiniteSets

CONSTANTS
    Caller,         \* goroutines of the process
    Lister,         \* the callers that also fetch listings
    Key,            \* notices whose region is looked up
    MaxDay,         \* bound: days of the model
    Limit,          \* calls allowed per day
    RetryAttempts,  \* attempts of one request
    LookupBudget,   \* lookups one Client may start
    CacheLimit,     \* regionCacheLimit
    PageSize,       \* items per page
    MaxPages,       \* pages of a listing
    MaxItems,       \* bound: items of the service's list
    Malformed,      \* items that do not parse
    None

ASSUME ConstantsAssumption ==
    /\ {MaxDay, Limit, RetryAttempts, LookupBudget, CacheLimit, PageSize, MaxPages, MaxItems}
          \subseteq Nat \ {0}
    /\ IsFiniteSet(Caller) /\ Lister \subseteq Caller
    /\ None \notin Caller \cup Key

Day  == 1 .. MaxDay
Item == 1 .. MaxItems

VARIABLES
    day,          \* the current day
    calls,        \* api_daily_usage, per day
    sent,         \* history: attempts that have gone out so far
    list,         \* the service's list of notices
    regions,      \* keys of the cache
    regionKeys,   \* the same keys in the order they came
    regionCalls,  \* per key: the caller that is asking, or None
    lookups,      \* lookups the Client has started
    pc, op, key, attempt, result,          \* per caller
    page, total, seen, first, moved,       \* per caller: its listing
    out           \* per caller: how often each notice is in its result

shared  == <<day, calls, sent, list>>
client  == <<regions, regionKeys, regionCalls, lookups>>
listing == <<page, total, out, seen, first, moved>>
vars == <<day, calls, sent, list, regions, regionKeys, regionCalls, lookups,
          pc, op, key, attempt, result, page, total, out, seen, first, moved>>

Nothing == [x \in Item |-> 0]

Init ==
    /\ day = 1
    /\ calls = [d \in Day |-> 0]
    /\ sent = 0
    /\ list = <<>>
    /\ regions = {} /\ regionKeys = <<>>
    /\ regionCalls = [k \in Key |-> None]
    /\ lookups = 0
    /\ pc = [c \in Caller |-> "idle"]
    /\ op = [c \in Caller |-> "none"]
    /\ key = [c \in Caller |-> None]
    /\ attempt = [c \in Caller |-> 0]
    /\ result = [c \in Caller |-> "none"]
    /\ page = [c \in Caller |-> 0]
    /\ total = [c \in Caller |-> 0]
    /\ out = [c \in Caller |-> Nothing]
    /\ seen = [c \in Caller |-> {}]
    /\ first = [c \in Caller |-> <<>>]
    /\ moved = [c \in Caller |-> FALSE]

-----------------------------------------------------------------------------
(***************************************************************************)
(* The world: midnight, new notices at either end of the list, a restart.  *)
(***************************************************************************)

Midnight ==
    /\ day < MaxDay
    /\ day' = day + 1
    /\ UNCHANGED <<calls, sent, list, client, pc, op, key, attempt, result, listing>>

Publish(atFront) ==
    /\ Len(list) < MaxItems
    /\ list' = IF atFront THEN <<Len(list) + 1>> \o list ELSE Append(list, Len(list) + 1)
    /\ moved' = [c \in Caller |-> moved[c] \/ (atFront /\ op[c] = "list" /\ page[c] > 1)]
    /\ UNCHANGED <<day, calls, sent, client, pc, op, key, attempt, result,
                   page, total, out, seen, first>>

\* The process dies; a new one has an empty Client.
Crash ==
    /\ \E c \in Caller : pc[c] # "idle"
    /\ regions' = {} /\ regionKeys' = <<>>
    /\ regionCalls' = [k \in Key |-> None]
    /\ lookups' = 0
    /\ pc' = [c \in Caller |-> "idle"]
    /\ op' = [c \in Caller |-> "none"]
    /\ key' = [c \in Caller |-> None]
    /\ attempt' = [c \in Caller |-> 0]
    /\ result' = [c \in Caller |-> "none"]
    /\ page' = [c \in Caller |-> 0]
    /\ total' = [c \in Caller |-> 0]
    /\ out' = [c \in Caller |-> Nothing]
    /\ seen' = [c \in Caller |-> {}]
    /\ first' = [c \in Caller |-> <<>>]
    /\ moved' = [c \in Caller |-> FALSE]
    /\ UNCHANGED shared

-----------------------------------------------------------------------------
(***************************************************************************)
(* LookupRegion: what it decides under the mutex.                          *)
(***************************************************************************)

Enter(c, k, o, l, r) ==
    /\ pc[c] = "idle"
    /\ key' = [key EXCEPT ![c] = k]
    /\ op' = [op EXCEPT ![c] = o]
    /\ pc' = [pc EXCEPT ![c] = l]
    /\ result' = [result EXCEPT ![c] = r]

LookupHit(c, k) ==
    /\ k \in regions
    /\ Enter(c, k, "region", "done", "ok")
    /\ UNCHANGED <<shared, client, attempt, listing>>

\* Fault: a request under way is not noticed.
PendingNever(k) == FALSE

Pending(k) == regionCalls[k] # None

LookupJoins(c, k) ==
    /\ k \notin regions
    /\ Pending(k)
    /\ Enter(c, k, "wait", "waiting", "none")
    /\ UNCHANGED <<shared, client, attempt, listing>>

LookupRefused(c, k) ==
    /\ k \notin regions /\ ~Pending(k)
    /\ lookups >= LookupBudget
    /\ Enter(c, k, "region", "done", "failed")
    /\ UNCHANGED <<shared, client, attempt, listing>>

LookupLeads(c, k) ==
    /\ k \notin regions /\ ~Pending(k)
    /\ lookups < LookupBudget
    /\ lookups' = lookups + 1
    /\ regionCalls' = [regionCalls EXCEPT ![k] = c]
    /\ attempt' = [attempt EXCEPT ![c] = 0]
    /\ Enter(c, k, "region", "take", "none")
    /\ UNCHANGED <<shared, regions, regionKeys, listing>>

\* close(call.done)
Woken(k) == {w \in Caller : pc[w] = "waiting" /\ key[w] = k}

CacheRegion(k) ==
    IF Cardinality(regions) >= CacheLimit
    THEN /\ regions' = (regions \ {Head(regionKeys)}) \cup {k}
         /\ regionKeys' = Append(Tail(regionKeys), k)
    ELSE /\ regions' = regions \cup {k}
         /\ regionKeys' = Append(regionKeys, k)

\* The end of a lookup under the mutex.
EndLookup(c, ok) ==
    LET k == key[c] IN
    /\ IF ok THEN CacheRegion(k) ELSE UNCHANGED <<regions, regionKeys>>
    /\ regionCalls' = [regionCalls EXCEPT ![k] = None]
    /\ pc' = [w \in Caller |-> IF w = c THEN "done" ELSE IF w \in Woken(k) THEN "woken" ELSE pc[w]]
    /\ result' = [w \in Caller |-> IF w = c \/ w \in Woken(k)
                                   THEN IF ok THEN "ok" ELSE "failed" ELSE result[w]]
    /\ UNCHANGED <<shared, lookups, op, key, attempt, listing>>

\* Fault: the waiter only takes a region, and waits on after a failure.
WaiterReturnsRegion(c) ==
    /\ pc[c] = "woken" /\ result[c] = "ok"
    /\ pc' = [pc EXCEPT ![c] = "done"]
    /\ UNCHANGED <<shared, client, op, key, attempt, result, listing>>

\* The waiter sees the channel closed.
WaiterReturns(c) ==
    /\ pc[c] = "woken"
    /\ pc' = [pc EXCEPT ![c] = "done"]
    /\ UNCHANGED <<shared, client, op, key, attempt, result, listing>>

\* The waiter's context ends first.
WaiterGivesUp(c) ==
    /\ pc[c] \in {"waiting", "woken"}
    /\ pc' = [pc EXCEPT ![c] = "done"]
    /\ result' = [result EXCEPT ![c] = "failed"]
    /\ UNCHANGED <<shared, client, op, key, attempt, listing>>

-----------------------------------------------------------------------------
(***************************************************************************)
(* request and doRequest: an allowance is taken before every attempt.      *)
(***************************************************************************)

EndList(c, r) ==
    /\ pc' = [pc EXCEPT ![c] = "done"]
    /\ result' = [result EXCEPT ![c] = r]
    /\ UNCHANGED <<shared, client, op, key, attempt, total, out, seen, page, first, moved>>

Failed(c) ==
    \/ op[c] = "region" /\ EndLookup(c, FALSE)
    \/ op[c] = "list" /\ EndList(c, "failed")

Allowed == calls[day] < Limit

\* Fault: a retry is not charged.
TakeOncePerRequest(c) ==
    /\ pc[c] = "take"
    /\ Allowed
    /\ calls' = IF attempt[c] = 0 THEN [calls EXCEPT ![day] = @ + 1] ELSE calls
    /\ pc' = [pc EXCEPT ![c] = "send"]
    /\ UNCHANGED <<day, sent, list, client, op, key, attempt, result, listing>>

\* PostgresDailyCallBudget.Take: one statement that charges the day.  The day comes
\* from the clock a moment before; a midnight in between may as well come after the
\* charge, since it changes nothing of the old day's row.
Take(c) ==
    /\ pc[c] = "take"
    /\ Allowed
    /\ calls' = [calls EXCEPT ![day] = @ + 1]
    /\ pc' = [pc EXCEPT ![c] = "send"]
    /\ UNCHANGED <<day, sent, list, client, op, key, attempt, result, listing>>

\* The allowance is used up, the database fails or the context has ended; none
\* of these is retried.
TakeFails(c) == pc[c] = "take" /\ Failed(c)

Send(c) ==
    /\ pc[c] = "send"
    /\ sent' = sent + 1
    /\ pc' = [pc EXCEPT ![c] = "reply"]
    /\ UNCHANGED <<day, calls, list, client, op, key, attempt, result, listing>>

\* A failure that may pass, and attempts left: after the wait comes the next one.
Retry(c) ==
    /\ pc[c] = "reply"
    /\ attempt[c] + 1 < RetryAttempts
    /\ attempt' = [attempt EXCEPT ![c] = @ + 1]
    /\ pc' = [pc EXCEPT ![c] = "take"]
    /\ UNCHANGED <<shared, client, op, key, result, listing>>

\* A final failure, the last attempt, or the context has ended.
RequestFails(c) == pc[c] = "reply" /\ Failed(c)

\* fetchRegion has its page.
RegionArrives(c) == pc[c] = "reply" /\ op[c] = "region" /\ EndLookup(c, TRUE)

-----------------------------------------------------------------------------
(***************************************************************************)
(* List.                                                                   *)
(***************************************************************************)

StartList(c) ==
    /\ Enter(c, None, "list", "take", "none")
    /\ attempt' = [attempt EXCEPT ![c] = 0]
    /\ page' = [page EXCEPT ![c] = 1]
    /\ UNCHANGED <<shared, client, total, out, seen, first, moved>>

Clamp(n, low, high) == IF n < low THEN low ELSE IF n > high THEN high ELSE n

\* What the service may answer: the page, a part of it, or a page it has already
\* answered.
Answers(c) ==
    LET from == (page[c] - 1) * PageSize
        full == SubSeq(list, from + 1, Clamp(from + PageSize, 0, Len(list)))
    IN {SubSeq(full, 1, n) : n \in 0 .. Len(full)} \cup seen[c]

\* Fault: a short page passes for the last one.
IncompleteNever(items, expected) == FALSE

Incomplete(items, expected) == Len(items) < expected

LastPage(p, n) == n = 0 \/ p * PageSize >= n

\* How often a page has a notice.
Times(items, x) == Cardinality({i \in 1 .. Len(items) : items[i] = x})

\* The items of a page that parse are added to the result.
WithItems(o, items) ==
    [x \in Item |-> IF x \in Malformed THEN o[x] ELSE o[x] + Times(items, x)]

PageArrives(c, items) ==
    LET n == IF page[c] = 1 THEN Len(list) ELSE total[c]
        expected == Clamp(n - (page[c] - 1) * PageSize, 0, PageSize)
    IN
    /\ pc[c] = "reply"
    /\ total' = [total EXCEPT ![c] = n]
    /\ first' = IF page[c] = 1 THEN [first EXCEPT ![c] = list] ELSE first
    /\ IF Incomplete(items, expected) \/ items \in seen[c]
       THEN /\ pc' = [pc EXCEPT ![c] = "done"]
            /\ result' = [result EXCEPT ![c] = "failed"]
            /\ UNCHANGED <<attempt, page, out, seen>>
       ELSE /\ out' = [out EXCEPT ![c] = WithItems(@, items)]
            /\ seen' = IF items = <<>> THEN seen ELSE [seen EXCEPT ![c] = @ \cup {items}]
            /\ IF LastPage(page[c], n) \/ page[c] + 1 > MaxPages
               THEN /\ pc' = [pc EXCEPT ![c] = "done"]
                    /\ result' = [result EXCEPT ![c] = IF LastPage(page[c], n) THEN "ok" ELSE "failed"]
                    /\ UNCHANGED <<attempt, page>>
               ELSE /\ pc' = [pc EXCEPT ![c] = "take"]
                    /\ attempt' = [attempt EXCEPT ![c] = 0]
                    /\ page' = [page EXCEPT ![c] = @ + 1]
                    /\ UNCHANGED result
    /\ UNCHANGED <<shared, client, op, key, moved>>

-----------------------------------------------------------------------------
\* The caller has its answer.
Return(c) ==
    /\ pc[c] = "done"
    /\ pc' = [pc EXCEPT ![c] = "idle"]
    /\ op' = [op EXCEPT ![c] = "none"]
    /\ key' = [key EXCEPT ![c] = None]
    /\ attempt' = [attempt EXCEPT ![c] = 0]
    /\ result' = [result EXCEPT ![c] = "none"]
    /\ page' = [page EXCEPT ![c] = 0]
    /\ total' = [total EXCEPT ![c] = 0]
    /\ out' = [out EXCEPT ![c] = Nothing]
    /\ seen' = [seen EXCEPT ![c] = {}]
    /\ first' = [first EXCEPT ![c] = <<>>]
    /\ moved' = [moved EXCEPT ![c] = FALSE]
    /\ UNCHANGED <<shared, client>>

Start(c) ==
    \/ \E k \in Key : LookupHit(c, k) \/ LookupJoins(c, k) \/ LookupRefused(c, k) \/ LookupLeads(c, k)
    \/ c \in Lister /\ StartList(c)

Step(c) ==
    \/ Take(c) \/ TakeFails(c) \/ Send(c) \/ Retry(c) \/ RequestFails(c)
    \/ RegionArrives(c) \/ (op[c] = "list" /\ \E items \in Answers(c) : PageArrives(c, items))
    \/ WaiterReturns(c) \/ Return(c)

Next ==
    \/ \E c \in Caller : Start(c) \/ Step(c) \/ WaiterGivesUp(c)
    \/ \E atFront \in BOOLEAN : Publish(atFront)
    \/ Midnight \/ Crash

\* The HTTP client's timeout and the timer of the wait end every step of a
\* caller; nothing makes a caller, a publisher or a crash act.
Fairness == \A c \in Caller : WF_vars(Step(c))

Spec == Init /\ [][Next]_vars
FairSpec == Spec /\ Fairness

-----------------------------------------------------------------------------
Asking(c) == op[c] = "region" /\ pc[c] \in {"take", "send", "reply"}

\* The types, with the bounds request and LookupRegion put on their attempts and
\* lookups.
TypeOK ==
    /\ day \in Day
    /\ calls \in [Day -> 0 .. Limit]
    /\ sent \in Nat
    /\ list \in Seq(Item)
    /\ regions \subseteq Key
    /\ regionKeys \in Seq(Key)
    /\ regionCalls \in [Key -> Caller \cup {None}]
    /\ lookups \in 0 .. LookupBudget
    /\ pc \in [Caller -> {"idle", "take", "send", "reply", "waiting", "woken", "done"}]
    /\ op \in [Caller -> {"none", "region", "wait", "list"}]
    /\ key \in [Caller -> Key \cup {None}]
    /\ attempt \in [Caller -> 0 .. RetryAttempts - 1]
    /\ result \in [Caller -> {"none", "ok", "failed"}]
    /\ page \in [Caller -> 0 .. MaxPages]
    /\ total \in [Caller -> Nat]
    /\ out \in [Caller -> [Item -> Nat]]
    /\ seen \in [Caller -> SUBSET Seq(Item)]
    /\ first \in [Caller -> Seq(Item)]
    /\ moved \in [Caller -> BOOLEAN]

\* The attempts that have gone out never exceed the allowance of the days so far,
\* whatever retries, restarts and midnights come in between (Take runs before
\* every attempt; an attempt that was allowed before midnight may go out after
\* it).
AllowanceHolds == sent <= day * Limit

\* One region is asked for by one caller at a time, and everyone else who waits
\* for it waits for that caller (regionCalls).
SingleFlight ==
    /\ \A b, c \in Caller : Asking(b) /\ Asking(c) /\ key[b] = key[c] => b = c
    /\ \A c \in Caller : pc[c] = "waiting" => \E b \in Caller : Asking(b) /\ key[b] = key[c]

\* A listing that succeeds has every well-formed notice of the list as it was at
\* the first page, once, although pages may come short or come again and the
\* list may grow; only notices published in front of it in the meantime may
\* push others out of reach (List).
ListingComplete ==
    \A c \in Caller :
        pc[c] = "done" /\ op[c] = "list" /\ result[c] = "ok" /\ ~moved[c] =>
            \A i \in 1 .. Len(first[c]) : first[c][i] \in Malformed \/ out[c][first[c][i]] = 1

\* Every call returns, the one that waits for another's request included.
CallsReturn == \A c \in Caller : pc[c] # "idle" ~> pc[c] = "idle"
=============================================================================
