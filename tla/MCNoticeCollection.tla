-------------------------- MODULE MCNoticeCollection --------------------------
\* Small instances of NoticeCollection for TLC.
EXTENDS NoticeCollection, TLC

CONSTANTS n1, n2, any, regional

\* One notice in each of two categories.
TwoCategories == <<"construction", "goods">>
OneEach == n1 :> "construction" @@ n2 :> "goods"

\* One notice, in the category that is fetched last.
Only == n1 :> "goods"

\* The second notice expires while the clock runs.
Expiring == n1 :> MaxTime @@ n2 :> 1
NeverExpires == n1 :> MaxTime

\* One rule asks for nothing in particular, the other for a region.
MCHits ==
    {<<any, v, g>> : v \in Version, g \in Region}
        \cup {<<regional, v, g>> : v \in Version, g \in Region \ {0}}
=============================================================================
