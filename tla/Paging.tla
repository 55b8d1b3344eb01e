------------------------------- MODULE Paging -------------------------------
(***************************************************************************)
(* One incremental load of one table, record by record: the Bullhorn       *)
(* source pages through the records of its change window by offset         *)
(* (paginateAndSend), and the destination merges what it sent.             *)
(*                                                                         *)
(* The window is a query that the server evaluates afresh for every page.  *)
(* Between two pages a record may leave it, because it is modified again   *)
(* and its stamp passes the end of the window, or enter it, because the    *)
(* search index catches up with a change made before that end.  The source *)
(* sends no sort order; the server is taken to answer in record id order.  *)
(***************************************************************************)
EXTENDS Integers, FiniteSets

CONSTANTS
    MaxId,     \* record ids are 1..MaxId
    PageSize   \* defaultMaxPageSize

Records == 1..MaxId

ASSUME PagingAssumption == MaxId \in Nat /\ PageSize \in Nat \ {0}

VARIABLES
    match,      \* the records the window's query matches now
    start,      \* paginateAndSend's offset
    reads,      \* per record: how often it was sent to the destination
    bronze,     \* per record: its rows in the Bronze table, seeded with one each
    retried401, \* doRequest has already authenticated again for this page
    pc,         \* "paging", "sent", "merged" or "failed"
    left,       \* history: records that left the window while paging
    entered     \* history: records that entered it while paging

sourceVars == <<match, left, entered>>
pagingVars == <<sourceVars, start, reads, bronze, retried401, pc>>

(* The records that matched from the first page to now. *)
Stayed == match \ entered

(* The position of record r in the answer to the query. *)
Rank(r) == Cardinality({q \in match : q <= r})

(* Mutants of fetchPage: the offset is one too far; pages overlap by one.  *)
fetchPageAhead == {r \in match : start + 1 < Rank(r) /\ Rank(r) <= start + 1 + PageSize}
fetchPageBehind == {r \in match : start <= Rank(r) /\ Rank(r) <= start + PageSize}

(* fetchSearchPage and fetchQueryPage: PageSize records after the offset. *)
fetchPage == {r \in match : start < Rank(r) /\ Rank(r) <= start + PageSize}

Init ==
    /\ match \in SUBSET Records
    /\ start = 0
    /\ reads = [r \in Records |-> 0]
    /\ bronze = [r \in Records |-> 1]
    /\ retried401 = FALSE
    /\ pc = "paging"
    /\ left = {} /\ entered = {}

----------------------------------------------------------------------------
(* Bullhorn, while the source is paging. *)
Leave(r) ==
    /\ pc = "paging" /\ r \in match
    /\ match' = match \ {r}
    /\ left' = left \cup {r}
    /\ UNCHANGED <<entered, start, reads, bronze, retried401, pc>>

Enter(r) ==
    /\ pc = "paging" /\ r \notin match \cup left
    /\ match' = match \cup {r}
    /\ entered' = entered \cup {r}
    /\ UNCHANGED <<left, start, reads, bronze, retried401, pc>>

----------------------------------------------------------------------------
(* Mutant of SendPage: a short page moves the offset back. *)
SendPageBack ==
    /\ pc = "paging"
    /\ reads' = [r \in Records |-> IF r \in fetchPage THEN reads[r] + 1 ELSE reads[r]]
    /\ retried401' = FALSE
    /\ IF Cardinality(fetchPage) < PageSize
       THEN pc' = "sent" /\ start' = start - PageSize
       ELSE start' = start + PageSize /\ UNCHANGED pc
    /\ UNCHANGED <<sourceVars, bronze>>

(* paginateAndSend: the rows of a page are all sent, in one or more        *)
(* batches; a full page is followed by the next one, a short or empty one  *)
(* is the last.  Being throttled (429) just delays the page.               *)
SendPage ==
    /\ pc = "paging"
    /\ reads' = [r \in Records |-> IF r \in fetchPage THEN reads[r] + 1 ELSE reads[r]]
    /\ retried401' = FALSE
    /\ IF Cardinality(fetchPage) < PageSize
       THEN pc' = "sent" /\ UNCHANGED start
       ELSE start' = start + PageSize /\ UNCHANGED pc
    /\ UNCHANGED <<sourceVars, bronze>>

(* A 401 makes doRequest authenticate again and repeat the page, once. *)
Unauthorized ==
    /\ pc = "paging" /\ ~retried401
    /\ retried401' = TRUE
    /\ UNCHANGED <<sourceVars, start, reads, bronze, pc>>

(* A second 401, any other status or a cancelled context ends the read;    *)
(* the strategy returns the error without merging.                         *)
FetchFails ==
    /\ pc = "paging"
    /\ pc' = "failed"
    /\ UNCHANGED <<sourceVars, start, reads, bronze, retried401>>

(* Mutant of MergeTable: it waits for a row to merge. *)
MergeTableNonEmpty ==
    /\ pc = "sent" /\ \E r \in Records : reads[r] > 0
    /\ bronze' = [r \in Records |-> IF reads[r] > 0 THEN reads[r] ELSE bronze[r]]
    /\ pc' = "merged"
    /\ UNCHANGED <<sourceVars, start, reads, retried401>>

(* mergeBatches: a staged key replaces its rows in the table by all of its *)
(* staged rows.                                                            *)
MergeTable ==
    /\ pc = "sent"
    /\ bronze' = [r \in Records |-> IF reads[r] > 0 THEN reads[r] ELSE bronze[r]]
    /\ pc' = "merged"
    /\ UNCHANGED <<sourceVars, start, reads, retried401>>

Next ==
    \/ \E r \in Records : Leave(r) \/ Enter(r)
    \/ SendPage \/ Unauthorized \/ FetchFails \/ MergeTable

Spec == Init /\ [][Next]_pagingVars

(* The server answers each page in the end and the process keeps running. *)
FairSpec == Spec /\ WF_pagingVars(SendPage) /\ WF_pagingVars(MergeTable)

----------------------------------------------------------------------------
(* The shape of the variables. *)
TypeOK ==
    /\ match \in SUBSET Records /\ left \in SUBSET Records /\ entered \in SUBSET Records
    /\ start \in Nat
    /\ reads \in [Records -> Nat] /\ bronze \in [Records -> Nat]
    /\ retried401 \in BOOLEAN
    /\ pc \in {"paging", "sent", "merged", "failed"}

(* Offset paging skips a record that stayed in the window only if a record *)
(* before it left: late arrivals, 401s and short last pages never cost a   *)
(* record.                                                                 *)
SkippedOnlyBehindLeaver ==
    pc \in {"sent", "merged"} =>
        \A r \in Stayed : reads[r] = 0 => \E q \in left : q < r

(* A load leaves two rows of one id in Bronze only if a record with a      *)
(* smaller id entered the window while it paged: a repeated page or record *)
(* has no other cause.                                                     *)
DuplicateOnlyBehindEntrant ==
    \A r \in Records : bronze[r] > 1 => \E q \in entered : q < r

(* Paging ends: the offset outruns the window however it shrinks or grows. *)
PagingEnds == <>(pc \in {"merged", "failed"})
=============================================================================
