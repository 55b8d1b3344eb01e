---------------------------- MODULE PagingProofs ----------------------------
(***************************************************************************)
(* Theorems about Paging, for every number of records and page size.       *)
(***************************************************************************)
EXTENDS Paging, FiniteSetTheorems, FunctionTheorems, TLAPS

----------------------------------------------------------------------------
(* Positions in the answer to a query that matches the records S. *)
RankIn(S, r) == Cardinality({q \in S : q <= r})

(* Sets of records are finite, and so is what precedes a record. *)
LEMMA RecordsFinite ==
    ASSUME NEW S \in SUBSET Records
    PROVE  /\ IsFiniteSet(S) /\ Cardinality(S) \in Nat
           /\ \A r : IsFiniteSet({q \in S : q <= r}) /\ RankIn(S, r) \in Nat
<1>1. ASSUME NEW T \in SUBSET Records PROVE IsFiniteSet(T) /\ Cardinality(T) \in Nat
  <2>1. IsFiniteSet(Records)
    BY FS_Interval, PagingAssumption DEF Records
  <2>2. IsFiniteSet(T)
    BY <2>1, FS_Subset
  <2> QED
    BY <2>2, FS_CardinalityType
<1>2. \A r : {q \in S : q <= r} \in SUBSET Records
  OBVIOUS
<1> QED
  BY <1>1, <1>2 DEF RankIn

(* A larger set has larger positions. *)
LEMMA RankGrows ==
    ASSUME NEW S \in SUBSET Records, NEW T \in SUBSET S, NEW r \in Records
    PROVE  RankIn(T, r) <= RankIn(S, r)
<1>1. {q \in T : q <= r} \in SUBSET {q \in S : q <= r}
  OBVIOUS
<1> QED
  BY <1>1, RecordsFinite, FS_Subset DEF RankIn

(* Positions are in the order of the ids, from 1 to the number of records. *)
LEMMA RankOrdered ==
    ASSUME NEW S \in SUBSET Records
    PROVE  /\ \A q, r \in S : q < r => RankIn(S, q) < RankIn(S, r)
           /\ \A r \in S : RankIn(S, r) \in 1..Cardinality(S)
<1>1. ASSUME NEW q \in S, NEW r \in S, q < r PROVE RankIn(S, q) < RankIn(S, r)
  <2> DEFINE A == {x \in S : x <= q}
             B == {x \in S : x <= r}
  <2>1. q \in Int /\ r \in Int /\ S \subseteq Int
    BY DEF Records
  <2>2. A \in SUBSET B
    <3>1. \A x \in S : x <= q => x <= r
      BY <1>1, <2>1
    <3> QED
      BY <3>1
  <2>n. r \in B /\ r \notin A
    BY <1>1, <2>1
  <2>3. Cardinality(A) <= Cardinality(B) /\ Cardinality(A) # Cardinality(B)
    <3>1. IsFiniteSet(B)
      BY RecordsFinite
    <3> QED
      BY <2>2, <2>n, <3>1, FS_Subset
  <2>4. Cardinality(A) \in Nat /\ Cardinality(B) \in Nat
    BY RecordsFinite DEF RankIn
  <2> QED
    BY <2>3, <2>4 DEF RankIn
<1>2. ASSUME NEW r \in S PROVE RankIn(S, r) \in 1..Cardinality(S)
  <2> DEFINE B == {x \in S : x <= r}
  <2>1. r \in B /\ B \in SUBSET S
    BY DEF Records
  <2>2. IsFiniteSet(B) /\ Cardinality(B) \in Nat /\ Cardinality(S) \in Nat
    BY RecordsFinite DEF RankIn
  <2>3. Cardinality(B) # 0
    BY <2>1, <2>2, FS_EmptySet
  <2>4. Cardinality(B) <= Cardinality(S)
    BY <2>1, RecordsFinite, FS_Subset
  <2> QED
    BY <2>2, <2>3, <2>4 DEF RankIn
<1> QED
  BY <1>1, <1>2

(* Every position up to the number of records is taken. *)
LEMMA RankTaken ==
    ASSUME NEW S \in SUBSET Records, NEW n \in 1..Cardinality(S)
    PROVE  \E r \in S : RankIn(S, r) = n
<1> DEFINE f == [r \in S |-> RankIn(S, r)]
           T == 1..Cardinality(S)
<1>1. Cardinality(S) \in Nat /\ IsFiniteSet(S) /\ \A r : RankIn(S, r) \in Nat
  BY RecordsFinite
<1>2. f \in [S -> T]
  BY RankOrdered
<1>3. ASSUME NEW q \in S, NEW r \in S, f[q] = f[r] PROVE q = r
  <2>1. q \in Int /\ r \in Int /\ RankIn(S, q) = RankIn(S, r) /\ RankIn(S, q) \in Nat
    BY <1>1, <1>3 DEF Records
  <2>2. ~(q < r) /\ ~(r < q)
    BY <2>1, RankOrdered
  <2> QED
    BY <2>1, <2>2
<1>4. f \in Injection(S, T)
  BY <1>2, <1>3, Fun_IsInj
<1>5. IsFiniteSet(T) /\ Cardinality(T) = Cardinality(S)
  BY <1>1, FS_Interval
<1>6. f \in Surjection(S, T)
  BY <1>4, <1>5, FS_Injection
<1>7. n \in T /\ \A r \in S : f[r] = RankIn(S, r)
  OBVIOUS
<1> HIDE DEF f, T
<1>8. \A t \in T : \E r \in S : f[r] = t
  BY <1>6, Fun_SurjectionProperties
<1> QED
  BY <1>7, <1>8

(* A page that does not reach beyond the last record is full. *)
LEMMA PageFull ==
    ASSUME NEW S \in SUBSET Records, NEW k \in Nat, NEW p \in Nat, k + p <= Cardinality(S)
    PROVE  Cardinality({r \in S : k < RankIn(S, r) /\ RankIn(S, r) <= k + p}) = p
<1> DEFINE P == {r \in S : k < RankIn(S, r) /\ RankIn(S, r) <= k + p}
           T == (k + 1)..(k + p)
           f == [r \in P |-> RankIn(S, r)]
<1>1. Cardinality(S) \in Nat /\ IsFiniteSet(S) /\ \A r : RankIn(S, r) \in Nat
  BY RecordsFinite
<1>2. f \in [P -> T]
  BY <1>1
<1>3. ASSUME NEW q \in P, NEW r \in P, f[q] = f[r] PROVE q = r
  <2>1. q \in Int /\ r \in Int /\ RankIn(S, q) = RankIn(S, r) /\ RankIn(S, q) \in Nat
    BY <1>1, <1>3 DEF Records
  <2>2. ~(q < r) /\ ~(r < q)
    BY <2>1, RankOrdered
  <2> QED
    BY <2>1, <2>2
<1>4. ASSUME NEW t \in T PROVE \E r \in P : f[r] = t
  <2>1. t \in 1..Cardinality(S)
    BY <1>1
  <2>2. PICK r \in S : RankIn(S, r) = t
    BY <2>1, RankTaken
  <2> QED
    BY <2>2
<1>5. f \in Bijection(P, T)
  BY <1>2, <1>3, <1>4, Fun_IsBij
<1>6. ExistsBijection(P, T)
  BY <1>5 DEF ExistsBijection
<1>7. IsFiniteSet(P)
  BY <1>1, FS_Subset
<1>8. Cardinality(P) = Cardinality(T)
  BY <1>6, <1>7, FS_Bijection
<1>9. Cardinality(T) = p
  BY FS_Interval
<1> QED
  BY <1>8, <1>9

----------------------------------------------------------------------------
(* The inductive invariant. *)

(* What was sent matched, and a record that left does not come back. *)
SentMatched == \A r \in Records : reads[r] > 0 => r \in match \cup left

(* While it pages, what was sent is behind the offset unless an entrant    *)
(* pushed it on, and so nothing else is sent twice.                        *)
SentBehind ==
    \A r \in Records :
        /\ pc = "paging" /\ r \in match /\ reads[r] > 0 =>
             Rank(r) <= start \/ \E q \in entered : q < r
        /\ reads[r] > 1 => \E q \in entered : q < r

(* While it pages, what was not sent is ahead of the offset unless a       *)
(* leaver moved it up.                                                     *)
UnsentAhead ==
    pc = "paging" =>
        \A r \in Stayed : reads[r] = 0 => Rank(r) > start \/ \E q \in left : q < r

PagingInv ==
    /\ TypeOK
    /\ SentMatched /\ SentBehind /\ UnsentAhead
    /\ SkippedOnlyBehindLeaver /\ DuplicateOnlyBehindEntrant

(* PagingInv holds initially. *)
LEMMA PagingInit == Init => PagingInv
<1> SUFFICES ASSUME Init PROVE PagingInv
  OBVIOUS
<1>1. TypeOK
  BY DEF Init, TypeOK
<1>2. SentMatched /\ SentBehind /\ SkippedOnlyBehindLeaver /\ DuplicateOnlyBehindEntrant
  BY DEF Init, SentMatched, SentBehind, SkippedOnlyBehindLeaver, DuplicateOnlyBehindEntrant
<1>3. UnsentAhead
  <2>1. \A r \in match : RankIn(match, r) > 0
    BY RankOrdered, RecordsFinite DEF Init
  <2> QED
    BY <2>1 DEF Init, UnsentAhead, Stayed, Rank, RankIn
<1> QED
  BY <1>1, <1>2, <1>3 DEF PagingInv

(* A record that leaves moves those behind it up, and no other. *)
LEMMA LeaveStep == ASSUME PagingInv, NEW x \in Records, Leave(x) PROVE PagingInv'
<1> USE DEF PagingInv
<1>1. TypeOK'
  BY DEF Leave, TypeOK
<1>t. match \in SUBSET Records /\ match' = match \ {x} /\ left' = left \cup {x} /\ pc = "paging"
  BY DEF Leave, TypeOK
<1>u. UNCHANGED <<entered, start, reads, bronze, pc>>
  BY DEF Leave
<1>s. start \in Nat /\ reads \in [Records -> Nat]
  BY DEF TypeOK
<1>2. \A r \in Records : Rank(r)' <= Rank(r) /\ Rank(r)' \in Nat /\ Rank(r) \in Nat
  <2>1. match' \in SUBSET match
    BY <1>t
  <2>2. \A r \in Records : RankIn(match', r) <= RankIn(match, r)
    BY <1>t, <2>1, RankGrows
  <2>3. \A r \in Records : RankIn(match', r) \in Nat /\ RankIn(match, r) \in Nat
    BY <1>t, RecordsFinite
  <2> QED
    BY <2>2, <2>3 DEF Rank, RankIn
<1>3. \A r \in Records : r < x => Rank(r)' = Rank(r)
  <2>1. \A r \in Records : r < x => {q \in match' : q <= r} = {q \in match : q <= r}
    BY <1>t DEF Records
  <2> QED
    BY <2>1 DEF Rank
<1>4. SentMatched'
  BY <1>t, <1>u DEF SentMatched
<1>5. SentBehind'
  BY <1>s, <1>t, <1>u, <1>2 DEF SentBehind
<1>6. UnsentAhead'
  <2> SUFFICES ASSUME NEW r \in Stayed', reads[r] = 0
               PROVE  Rank(r)' > start \/ \E q \in left' : q < r
    BY <1>u DEF UnsentAhead
  <2>1. r \in Stayed /\ r \in Records /\ r # x
    BY <1>t, <1>u DEF Stayed
  <2>2. r < x \/ x < r
    BY <2>1 DEF Records
  <2>3. Rank(r) > start \/ \E q \in left : q < r
    BY <1>t, <2>1 DEF UnsentAhead
  <2> QED
    BY <1>t, <1>3, <2>1, <2>2, <2>3
<1>7. SkippedOnlyBehindLeaver' /\ DuplicateOnlyBehindEntrant'
  BY <1>t, <1>u DEF SkippedOnlyBehindLeaver, DuplicateOnlyBehindEntrant
<1> QED
  BY <1>1, <1>4, <1>5, <1>6, <1>7

(* A record that enters moves those behind it on, and no other. *)
LEMMA EnterStep == ASSUME PagingInv, NEW x \in Records, Enter(x) PROVE PagingInv'
<1> USE DEF PagingInv
<1>1. TypeOK'
  BY DEF Enter, TypeOK
<1>t. /\ match \in SUBSET Records /\ match' = match \cup {x} /\ entered' = entered \cup {x}
      /\ x \notin match \cup left /\ pc = "paging"
  BY DEF Enter, TypeOK
<1>u. UNCHANGED <<left, start, reads, bronze, pc>>
  BY DEF Enter
<1>s. start \in Nat /\ reads \in [Records -> Nat]
  BY DEF TypeOK
<1>2. \A r \in Records : Rank(r) <= Rank(r)' /\ Rank(r)' \in Nat /\ Rank(r) \in Nat
  <2>1. match \in SUBSET match' /\ match' \in SUBSET Records
    BY <1>t
  <2>2. \A r \in Records : RankIn(match, r) <= RankIn(match', r)
    BY <2>1, RankGrows
  <2>3. \A r \in Records : RankIn(match', r) \in Nat /\ RankIn(match, r) \in Nat
    BY <1>t, <2>1, RecordsFinite
  <2> QED
    BY <2>2, <2>3 DEF Rank, RankIn
<1>3. \A r \in Records : r < x => Rank(r)' = Rank(r)
  <2>1. \A r \in Records : r < x => {q \in match' : q <= r} = {q \in match : q <= r}
    BY <1>t DEF Records
  <2> QED
    BY <2>1 DEF Rank
<1>4. SentMatched'
  BY <1>t, <1>u DEF SentMatched
<1>x. ~(reads[x] > 0)
  BY <1>t DEF SentMatched
<1>5. SentBehind'
  <2> SUFFICES ASSUME NEW r \in Records
               PROVE  /\ r \in match' /\ reads[r] > 0 =>
                           Rank(r)' <= start \/ \E q \in entered' : q < r
                      /\ reads[r] > 1 => \E q \in entered' : q < r
    BY <1>u DEF SentBehind
  <2>1. ASSUME r \in match', reads[r] > 0
        PROVE  Rank(r)' <= start \/ \E q \in entered' : q < r
    <3>1. r # x /\ r \in match
      BY <1>t, <1>x, <2>1
    <3>2. Rank(r) <= start \/ \E q \in entered : q < r
      BY <1>t, <2>1, <3>1 DEF SentBehind
    <3>3. r < x \/ x < r
      BY <3>1 DEF Records
    <3> QED
      BY <1>t, <1>3, <3>2, <3>3
  <2> QED
    BY <1>t, <2>1 DEF SentBehind
<1>6. UnsentAhead'
  <2> SUFFICES ASSUME NEW r \in Stayed', reads[r] = 0
               PROVE  Rank(r)' > start \/ \E q \in left : q < r
    BY <1>u DEF UnsentAhead
  <2>1. r \in Stayed /\ r \in Records
    BY <1>t DEF Stayed
  <2>2. Rank(r) > start \/ \E q \in left : q < r
    BY <1>t, <2>1 DEF UnsentAhead
  <2> QED
    BY <1>s, <1>2, <2>1, <2>2
<1>7. SkippedOnlyBehindLeaver' /\ DuplicateOnlyBehindEntrant'
  BY <1>t, <1>u DEF SkippedOnlyBehindLeaver, DuplicateOnlyBehindEntrant
<1> QED
  BY <1>1, <1>4, <1>5, <1>6, <1>7

(* A page sends what is between the old offset and the new one; if it is   *)
(* short there is nothing behind it.                                       *)
LEMMA SendStep == ASSUME PagingInv, SendPage PROVE PagingInv'
<1> USE DEF PagingInv
<1>t. /\ match \in SUBSET Records /\ start \in Nat /\ reads \in [Records -> Nat]
      /\ pc = "paging" /\ PageSize \in Nat \ {0}
  BY PagingAssumption DEF SendPage, TypeOK
<1>u. /\ UNCHANGED <<match, left, entered, bronze>>
      /\ \A r \in Records : reads'[r] = IF r \in fetchPage THEN reads[r] + 1 ELSE reads[r]
      /\ pc' \in {"paging", "sent"} /\ (pc' = "paging" => start' = start + PageSize)
  BY <1>t DEF SendPage, sourceVars
<1>r. \A r \in Records : Rank(r) \in Nat /\ Rank(r)' = Rank(r)
  <2>1. \A r \in Records : RankIn(match, r) \in Nat
    BY <1>t, RecordsFinite
  <2> QED
    BY <1>u, <2>1 DEF Rank, RankIn
<1>p. fetchPage = {r \in match : start < Rank(r) /\ Rank(r) <= start + PageSize}
  BY DEF fetchPage
<1>1. TypeOK'
  <2>1. reads' \in [Records -> Nat]
    <3>1. \A r \in Records : reads[r] \in Nat /\ reads[r] + 1 \in Nat
      BY <1>t
    <3> QED
      BY <3>1 DEF SendPage
  <2>2. start' \in Nat /\ retried401' \in BOOLEAN
    <3>1. start + PageSize \in Nat /\ (start' = start \/ start' = start + PageSize)
      BY <1>t DEF SendPage
    <3> QED
      BY <1>t, <3>1 DEF SendPage
  <2> QED
    BY <1>u, <2>1, <2>2 DEF TypeOK
<1>4. SentMatched'
  BY <1>t, <1>u, <1>p DEF SentMatched
<1>5. SentBehind'
  <2> SUFFICES ASSUME NEW r \in Records
               PROVE  /\ pc' = "paging" /\ r \in match /\ reads'[r] > 0 =>
                           Rank(r) <= start' \/ \E q \in entered : q < r
                      /\ reads'[r] > 1 => \E q \in entered : q < r
    BY <1>u, <1>r DEF SentBehind
  <2>1. /\ r \in match /\ reads[r] > 0 => Rank(r) <= start \/ \E q \in entered : q < r
        /\ reads[r] > 1 => \E q \in entered : q < r
    BY <1>t DEF SentBehind
  <2>2. CASE r \in fetchPage
    BY <1>t, <1>u, <1>r, <1>p, <2>1, <2>2
  <2>3. CASE r \notin fetchPage
    BY <1>t, <1>u, <1>r, <2>1, <2>3
  <2> QED
    BY <2>2, <2>3
<1>a. ASSUME NEW r \in Stayed, reads'[r] = 0, ~\E q \in left : q < r
      PROVE  Rank(r) > start + PageSize
  <2>1. r \in Records /\ r \in match
    BY <1>t DEF Stayed
  <2>2. r \notin fetchPage /\ reads[r] = 0
    BY <1>a, <1>t, <1>u, <2>1
  <2>3. Rank(r) > start
    BY <1>a, <1>t, <2>2 DEF UnsentAhead
  <2> QED
    BY <1>t, <1>p, <1>r, <2>1, <2>2, <2>3
<1>6. UnsentAhead'
  <2> SUFFICES ASSUME pc' = "paging", NEW r \in Stayed', reads'[r] = 0
               PROVE  Rank(r)' > start' \/ \E q \in left' : q < r
    BY DEF UnsentAhead
  <2>1. r \in Stayed /\ r \in Records
    BY <1>t, <1>u DEF Stayed
  <2>2. Rank(r) > start + PageSize \/ \E q \in left : q < r
    BY <1>a, <2>1
  <2> QED
    BY <1>u, <1>r, <2>1, <2>2
<1>7. SkippedOnlyBehindLeaver'
  <2> SUFFICES ASSUME pc' = "sent", NEW r \in Stayed, reads'[r] = 0, ~\E q \in left : q < r
               PROVE  FALSE
    BY <1>u DEF SkippedOnlyBehindLeaver, Stayed
  <2>1. Rank(r) > start + PageSize /\ r \in match
    BY <1>a DEF Stayed
  <2>2. RankIn(match, r) \in 1..Cardinality(match) /\ Cardinality(match) \in Nat
    BY <1>t, <2>1, RankOrdered, RecordsFinite
  <2>3. start + PageSize <= Cardinality(match)
    BY <1>t, <2>1, <2>2 DEF Rank, RankIn
  <2>4. Cardinality(fetchPage) = PageSize
    BY <1>t, <2>3, PageFull DEF fetchPage, Rank, RankIn
  <2> QED
    BY <1>t, <2>4 DEF SendPage
<1>8. DuplicateOnlyBehindEntrant'
  BY <1>u DEF DuplicateOnlyBehindEntrant
<1> QED
  BY <1>1, <1>4, <1>5, <1>6, <1>7, <1>8

(* The other steps send nothing. *)
LEMMA QuietStep ==
    ASSUME PagingInv, Unauthorized \/ FetchFails \/ MergeTable \/ UNCHANGED pagingVars
    PROVE  PagingInv'
<1> USE DEF PagingInv
<1>1. CASE MergeTable
  <2>1. TypeOK'
    BY <1>1 DEF MergeTable, TypeOK, sourceVars
  <2>2. pc = "sent" /\ pc' = "merged" /\ UNCHANGED <<match, left, entered, start, reads>>
    BY <1>1 DEF MergeTable, sourceVars
  <2>3. \A r \in Records : bronze'[r] = IF reads[r] > 0 THEN reads[r] ELSE bronze[r]
    BY <1>1 DEF MergeTable
  <2>4. SentMatched' /\ SentBehind' /\ UnsentAhead'
    BY <2>2 DEF SentMatched, SentBehind, UnsentAhead
  <2>5. SkippedOnlyBehindLeaver'
    BY <2>2 DEF SkippedOnlyBehindLeaver, Stayed
  <2>6. DuplicateOnlyBehindEntrant'
    BY <2>2, <2>3 DEF DuplicateOnlyBehindEntrant, SentBehind
  <2> QED
    BY <2>1, <2>4, <2>5, <2>6
<1>2. CASE Unauthorized \/ FetchFails \/ UNCHANGED pagingVars
  <2>1. /\ UNCHANGED <<match, left, entered, start, reads, bronze>>
        /\ pc' = pc \/ pc' = "failed"
        /\ retried401' = retried401 \/ retried401' = TRUE
    BY <1>2 DEF Unauthorized, FetchFails, pagingVars, sourceVars
  <2>2. \A r \in Records : Rank(r)' = Rank(r)
    BY <2>1 DEF Rank
  <2>3. TypeOK'
    BY <2>1 DEF TypeOK
  <2>4. SentMatched'
    BY <2>1 DEF SentMatched
  <2>5. SentBehind'
    BY <2>1, <2>2 DEF SentBehind
  <2>6. UnsentAhead' /\ SkippedOnlyBehindLeaver'
    <3>1. Stayed' = Stayed /\ Stayed \subseteq Records
      BY <2>1 DEF Stayed, TypeOK
    <3> QED
      BY <2>1, <2>2, <3>1 DEF UnsentAhead, SkippedOnlyBehindLeaver
  <2>7. DuplicateOnlyBehindEntrant'
    BY <2>1 DEF DuplicateOnlyBehindEntrant
  <2> QED
    BY <2>3, <2>4, <2>5, <2>6, <2>7
<1> QED
  BY <1>1, <1>2

(* PagingInv is an invariant. *)
LEMMA PagingInvariance == Spec => []PagingInv
<1>1. PagingInv /\ [Next]_pagingVars => PagingInv'
  BY LeaveStep, EnterStep, SendStep, QuietStep DEF Next
<1> QED
  BY <1>1, PagingInit, PTL DEF Spec

----------------------------------------------------------------------------
(* The variables keep their types, however the window changes.             *)
THEOREM PagingTypeCorrect == Spec => []TypeOK
<1>1. PagingInv => TypeOK
  BY DEF PagingInv
<1> QED
  BY <1>1, PagingInvariance, PTL

(* For any page size, window and interleaving of pages, leavers, late      *)
(* arrivals and repeated authentications, a record that stayed in the      *)
(* window is skipped by paginateAndSend only behind one that left.         *)
THEOREM SkipsHaveLeavers == Spec => []SkippedOnlyBehindLeaver
<1>1. PagingInv => SkippedOnlyBehindLeaver
  BY DEF PagingInv
<1> QED
  BY <1>1, PagingInvariance, PTL

(* Nor does a load leave a second row of an id in Bronze unless a record   *)
(* with a smaller id entered the window while it paged.                    *)
THEOREM DuplicatesHaveEntrants == Spec => []DuplicateOnlyBehindEntrant
<1>1. PagingInv => DuplicateOnlyBehindEntrant
  BY DEF PagingInv
<1> QED
  BY <1>1, PagingInvariance, PTL
=============================================================================
