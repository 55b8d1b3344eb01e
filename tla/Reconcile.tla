------------------------------ MODULE Reconcile ------------------------------
(***************************************************************************)
(* The reconciliation job (fabric/reconcile) in keys mode beside the       *)
(* runner and the source of module Handoff: it logs in with a refresh      *)
(* token of its own, reads the keys of a Bronze table, lists the ids that  *)
(* Bullhorn has, page by page, and records the difference.                 *)
(*                                                                         *)
(* The table has a record per number, created in that order; event k of    *)
(* Handoff is the deletion of record k.  No lock keeps the job from the    *)
(* runner.                                                                 *)
(***************************************************************************)
EXTENDS Handoff, FiniteSets

CONSTANTS
    PageSize,     \* ids of a page
    MaxRecords    \* bound on records

ASSUME ReconcileAssumption ==
    PageSize \in Nat \ {0} /\ MaxRecords \in Nat /\ MaxEvents <= MaxRecords

VARIABLES
    created,     \* records so far
    bronze,      \* the records in the Bronze table
    rpc,         \* the step of the job
    bronzeKeys,  \* the keys it read from Bronze
    ids, start,  \* the ids it listed, the offset of the next page
    recorded,    \* the records it put into deleted_records
    since        \* history: records and deletions when it began to list

recordVars == <<created, bronze>>
jobVars == <<rpc, bronzeKeys, ids, start, recorded, since>>
reconcileVars == <<handoffVars, recordVars, jobVars>>

(* The records that Bullhorn has. *)
Live == (events + 1)..created

ReconcileInit ==
    /\ Init
    /\ created = MaxEvents /\ bronze = 1..MaxEvents
    /\ rpc = "off" /\ bronzeKeys = {} /\ ids = {} /\ start = 0
    /\ recorded = {} /\ since = <<0, 0>>

(* A step of the runner or the source: a table that is loaded gets the     *)
(* records that Bullhorn has, and keeps those it had.                      *)
RunnerStep ==
    /\ Next
    /\ bronze' = IF pc = "work" /\ pc' = "ok" THEN bronze \cup Live ELSE bronze
    /\ UNCHANGED <<created, jobVars>>

Create ==
    /\ created < MaxRecords
    /\ created' = created + 1
    /\ UNCHANGED <<handoffVars, bronze, jobVars>>

----------------------------------------------------------------------------
(* exchangeRefreshToken with the token it was given, from one of the       *)
(* stores: the server rotates it, and the new one is not kept.             *)
Login ==
    /\ rpc = "off"
    /\ \E k \in StoreKinds : store[k] = valid
    /\ valid < MaxTokens
    /\ valid' = valid + 1
    /\ rpc' = "keys"
    /\ UNCHANGED <<store, tokenFile, tok, cursorVars, pc, i, faults, loadFaults, recordVars,
                   bronzeKeys, ids, start, recorded, since>>

(* ListKeys of the Bronze table ... *)
ListKeys ==
    /\ rpc = "keys"
    /\ bronzeKeys' = bronze
    /\ since' = <<created, events>>
    /\ ids' = {} /\ start' = 0
    /\ rpc' = "list"
    /\ UNCHANGED <<handoffVars, recordVars, recorded>>

(* ... then ListIDs: the page at an offset, until one is not full. *)
Page(s) == (events + s + 1)..Min2(events + s + PageSize, created)

(* Mutant of FetchPage: the offset moves on by a page and one. *)
FetchPageFurther ==
    /\ rpc = "list"
    /\ ids' = ids \cup Page(start)
    /\ start' = start + PageSize + 1
    /\ rpc' = IF Cardinality(Page(start)) < PageSize THEN "record" ELSE "list"
    /\ UNCHANGED <<handoffVars, recordVars, bronzeKeys, recorded, since>>

FetchPage ==
    /\ rpc = "list"
    /\ ids' = ids \cup Page(start)
    /\ start' = start + PageSize
    /\ rpc' = IF Cardinality(Page(start)) < PageSize THEN "record" ELSE "list"
    /\ UNCHANGED <<handoffVars, recordVars, bronzeKeys, recorded, since>>

(* diffKeys: what Bullhorn has and Bronze has not. *)
diffKeys == ids \ bronzeKeys

(* reconciliationDeletedRecords, written through ingestr. *)
Record ==
    /\ rpc = "record"
    /\ recorded' = recorded \cup diffKeys
    /\ rpc' = "done"
    /\ UNCHANGED <<handoffVars, recordVars, bronzeKeys, ids, start, since>>

(* A read or a write fails, or the pass is over. *)
EndPass ==
    /\ rpc # "off" /\ rpc' = "off"
    /\ bronzeKeys' = {} /\ ids' = {} /\ start' = 0 /\ since' = <<0, 0>>
    /\ UNCHANGED <<handoffVars, recordVars, recorded>>

ReconcileNext ==
    \/ RunnerStep \/ Create
    \/ Login \/ ListKeys \/ FetchPage \/ Record \/ EndPass

ReconcileSpec == ReconcileInit /\ [][ReconcileNext]_reconcileVars

----------------------------------------------------------------------------
(* The shape of the variables, those of Handoff too. *)
ReconcileTypeOK ==
    /\ TypeOK
    /\ created \in 0..MaxRecords /\ bronze \subseteq 1..created
    /\ rpc \in {"off", "keys", "list", "record", "done"}
    /\ bronzeKeys \subseteq bronze /\ ids \subseteq 1..created /\ recorded \subseteq 1..created

(* A pass that saw no deletion finds every gap: each record that was in    *)
(* Bullhorn when it began and that Bronze had not is recorded, whatever    *)
(* was created or loaded meanwhile.                                        *)
GapsAreFound ==
    rpc = "done" /\ events = since[2] =>
        \A r \in Live : r <= since[1] /\ r \notin bronzeKeys => r \in recorded

(* "Missed or historical deletes: Scheduled key reconciliation": a pass    *)
(* records every deletion that the events missed before it began, of a     *)
(* record that Bronze has.                                                 *)
MissedDeletesRecorded ==
    rpc = "done" =>
        \A r \in bronzeKeys : r <= since[2] /\ r <= saved => r \in deleted \cup recorded
=============================================================================
