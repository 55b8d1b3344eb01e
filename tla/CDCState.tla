------------------------------ MODULE CDCState ------------------------------
(***************************************************************************)
(* The state of a change-data-capture connector in the destination: the    *)
(* lease of a run, the events that say how far a table is complete, the    *)
(* generations and run ids that keep runs apart, and the incarnation of    *)
(* the destination table that they speak of.                               *)
(*                                                                         *)
(* One source table, written by processes that run one after another, or   *)
(* at once when the lease was lost: the server frees it when the session   *)
(* that holds it dies, and the process notices later.  It looks for that   *)
(* before and after every step, so a process may die between any two.  The *)
(* source is a log of positions with a row at each; a snapshot at position *)
(* s holds the rows up to s.  Module Streaming has the flush loop.         *)
(***************************************************************************)
EXTENDS Integers, FiniteSets

CONSTANTS
    Procs,            \* processes that run the connector again and again
    Kinds,            \* whether the table is keyless, the cases to consider
    MaxPos,           \* the last position of the source
    PruneThreshold,   \* how many events are worth a deletion
    MaxAttempts,      \* cdcStateInvalidationMax
    MaxFaults,        \* bound on sessions that are lost and deletions that fail
    MaxReplacements   \* bound on drops and re-creations of the table

ASSUME StateAssumption ==
    /\ Kinds \subseteq BOOLEAN
    /\ MaxPos \in Nat \ {0} /\ PruneThreshold \in Nat
    /\ MaxAttempts \in Nat \ {0} /\ MaxFaults \in Nat /\ MaxReplacements \in Nat

Nobody == "nobody"

VARIABLES
    keyless,      \* rows are appended, without a check of the incarnation
    events,       \* the state table
    inc, rows,    \* the destination table: its incarnation and its rows
    holder,       \* who holds the lease
    m,            \* per process: its step and its state manager
    ids,          \* run ids given out
    faults,
    late, unpinned  \* history: truncated when overtaken; replaced while not pinned

vars == <<keyless, events, inc, rows, holder, m, ids, faults, late, unpinned>>

Positions == 1..MaxPos
Max(S) == CHOOSE x \in S : \A y \in S : y <= x
Max0(S) == Max(S \cup {0})

(* An event; of a checkpoint and a snapshot inc is 0, pos 0: in progress. *)
Event(g, r, k, p, ep, i) ==
    [gen |-> g, run |-> r, kind |-> k, pos |-> p, epoch |-> ep, inc |-> i]

----------------------------------------------------------------------------
(* What a set of events says. *)

(* reduceCDCStateEntry: s stands when nothing of its kind, in the latest   *)
(* generation, is of a later epoch, or of its epoch and further on.        *)
Stands(es, s) ==
    /\ s.pos # 0
    /\ \A x \in es :
          /\ x.gen <= s.gen
          /\ x.gen = s.gen /\ x.kind = s.kind => x.epoch < s.epoch \/ (x.epoch = s.epoch /\ x.pos <= s.pos)

(* Mutant of Certifies: the incarnation of the table is not compared. *)
CertifiesAnyTable(es, s, i) ==
    /\ s.kind = "snapshot" /\ Stands(es, s)
    /\ \A x \in es : x.gen = s.gen => x.run = s.run

(* Mutant of Certifies: two runs may have written in a generation. *)
CertifiesAnyRun(es, s, i) ==
    /\ s.kind = "snapshot" /\ Stands(es, s)
    /\ Event(s.gen, s.run, "destination", s.pos, s.epoch, i) \in es
    /\ Stands(es, Event(s.gen, s.run, "destination", s.pos, s.epoch, i))

(* ResumePosition: the snapshot that a run may resume from, if it finds    *)
(* the table in incarnation i: it stands, so does the destination event of *)
(* i at its position, and no other run wrote in its generation.            *)
Certifies(es, s, i) ==
    /\ s.kind = "snapshot" /\ Stands(es, s)
    /\ \A x \in es : x.gen = s.gen => x.run = s.run
    /\ Event(s.gen, s.run, "destination", s.pos, s.epoch, i) \in es
    /\ Stands(es, Event(s.gen, s.run, "destination", s.pos, s.epoch, i))

SnapshotOf(es, i) == Max0({s.pos : s \in {x \in es : Certifies(es, x, i)}})

(* Its answer is the checkpoint, when that is further on. *)
ResumePosition(es, i) ==
    Max0({s.pos : s \in {x \in es : Certifies(es, x, i)}}
         \cup {c.pos : c \in {x \in es : x.kind = "checkpoint" /\ \E s \in es : s.gen = x.gen /\ Certifies(es, s, i)}})

Answer == ResumePosition(events, inc)

(* LoadCDCStateFence: the latest generation that a run began, its runs. *)
LatestRuns == {e \in events : e.kind = "run" /\ \A x \in events : x.kind = "run" => x.gen <= e.gen}
FenceGen == Max0({e.gen : e \in LatestRuns})
FenceRuns == {e.run : e \in LatestRuns}

(* The fence: this run alone began the latest generation. *)
Owns(p) ==
    /\ Event(m[p].gen, m[p].run, "run", 0, 0, 0) \in events
    /\ \A x \in events : x.kind = "run" => x.gen < m[p].gen \/ (x.gen = m[p].gen /\ x.run = m[p].run)

----------------------------------------------------------------------------
Off == [pc |-> "off", gen |-> 0, run |-> 0, epoch |-> 0, entries |-> {},
        known |-> 0, knownInc |-> 0, bound |-> 0,
        from |-> 0, to |-> 0, snap |-> FALSE, floor |-> 0, due |-> FALSE, attempt |-> 0]

Init ==
    /\ keyless \in Kinds
    /\ events = {} /\ inc = 1 /\ rows = {}
    /\ holder = Nobody /\ m = [p \in Procs |-> Off] /\ ids = 0
    /\ faults = 0 /\ late = FALSE /\ unpinned = FALSE

At(p, step) == m[p].pc = step
Becomes(p, x) == m' = [m EXCEPT ![p] = x]
Goes(p, step) == Becomes(p, [m[p] EXCEPT !.pc = step])

(* A process ends: the lease it holds is released. *)
Ends(p) == Becomes(p, Off) /\ holder' = IF holder = p THEN Nobody ELSE holder

(* An error ends it, and the table is left as it is. *)
Refuses(p) == Ends(p) /\ UNCHANGED <<keyless, events, inc, rows, ids, faults, late, unpinned>>

Store(p, es, step) ==
    /\ events' = events \cup es
    /\ Becomes(p, [m[p] EXCEPT !.pc = step, !.entries = @ \cup es])

(* AcquireManagedCDCRunLease: pg_try_advisory_lock.  A new process takes  *)
(* any name that is free.                                                 *)
Acquire(p) ==
    /\ holder = Nobody /\ At(p, "off") /\ p = CHOOSE q \in Procs : At(q, "off")
    /\ holder' = p /\ Goes(p, "load")
    /\ UNCHANGED <<keyless, events, inc, rows, ids, faults, late, unpinned>>

(* load and ResumePosition: the state is read once. *)
Load(p) ==
    /\ At(p, "load")
    /\ LET pos == ResumePosition(events, inc)
       IN  Becomes(p, [m[p] EXCEPT !.pc = "begin", !.entries = events,
                          !.gen = Max0({e.gen : e \in events}),
                          !.from = pos, !.snap = (pos = 0),
                          !.known = SnapshotOf(events, inc),
                          !.knownInc = IF pos = 0 THEN 0 ELSE inc])
    /\ UNCHANGED <<keyless, events, inc, rows, holder, ids, faults, late, unpinned>>

(* BeginRun: the event of a new run, in the next generation, ... *)
BeginRun(p) ==
    /\ At(p, "begin")
    /\ ids' = ids + 1
    /\ LET e == Event(m[p].gen + 1, ids', "run", 0, 0, 0)
       IN  /\ events' = events \cup {e}
           /\ Becomes(p, [m[p] EXCEPT !.pc = "mark", !.gen = @ + 1, !.run = ids',
                             !.entries = @ \cup {e}])
    /\ UNCHANGED <<keyless, inc, rows, holder, faults, late, unpinned>>

(* Mutant of MarkInProgress: the marker opens an epoch that nothing completes. *)
MarkInProgressAnew(p) ==
    /\ At(p, "mark")
    /\ Store(p, {Event(m[p].gen, m[p].run, "snapshot", 0, 1, 0)}, "prune")
    /\ UNCHANGED <<keyless, inc, rows, holder, ids, faults, late, unpinned>>

(* ... then one that the snapshot is in progress. *)
MarkInProgress(p) ==
    /\ At(p, "mark")
    /\ Store(p, {Event(m[p].gen, m[p].run, "snapshot", 0, 0, 0)}, "prune")
    /\ UNCHANGED <<keyless, inc, rows, holder, ids, faults, late, unpinned>>

(* preferCDCStateEntry, of two events of a run that have the same kind. *)
Prefers(c, e) ==
    \/ c.kind \in {"snapshot", "destination"} /\ c.epoch > e.epoch
    \/ (c.kind \in {"snapshot", "destination"} => c.epoch = e.epoch) /\ c.pos > e.pos

(* Mutant of superseded: the entries of older runs may be preferred too. *)
supersededByAny(p) == {e \in m[p].entries : \E c \in m[p].entries : c.kind = e.kind /\ Prefers(c, e)}

(* supersededEventIDs: all that was read or written but, of each kind, the *)
(* entry of this run that preferCDCStateEntry prefers.                     *)
superseded(p) ==
    LET own == {e \in m[p].entries : e.gen = m[p].gen /\ e.run = m[p].run}
        kept == {e \in own : ~\E c \in own : c.kind = e.kind /\ Prefers(c, e)}
    IN  m[p].entries \ kept

(* pruneSuperseded: once they are many, in batches, those that were read  *)
(* at the start first.                                                     *)
NextBatch(p) ==
    LET all == superseded(p)
        old == {e \in all : e.gen < m[p].gen}
    IN  CASE ~m[p].due /\ Cardinality(all) < PruneThreshold -> {}
          [] old # {} -> old
          [] OTHER -> all

(* The process may end between two batches.  A deletion that fails ends    *)
(* the loop: the run streams on, and what is left is due the next time.    *)
Prune(p) ==
    /\ At(p, "prune")
    /\ LET del == NextBatch(p)
           more == del # {} /\ del # superseded(p)
       IN  \/ /\ events' = events \ del
              /\ Becomes(p, [m[p] EXCEPT !.entries = @ \ del, !.due = more,
                                !.pc = IF more THEN "prune" ELSE "stream"])
              /\ UNCHANGED faults
           \/ /\ del # {} /\ faults < MaxFaults
              /\ faults' = faults + 1
              /\ Becomes(p, [m[p] EXCEPT !.due = TRUE, !.pc = "stream"])
              /\ UNCHANGED events
    /\ UNCHANGED <<keyless, inc, rows, holder, ids, late, unpinned>>

----------------------------------------------------------------------------
(* The flush loop: a snapshot first if there is none, then changes. *)

(* BindDestinationIncarnation: the table must be the one that was known or *)
(* bound before.                                                           *)
Replaced(p) ==
    \/ m[p].knownInc # 0 /\ m[p].knownInc # inc
    \/ m[p].bound # 0 /\ m[p].bound # inc

Bind(p) ==
    /\ At(p, "stream") /\ ~Replaced(p)
    /\ \E to \in Positions :
          /\ \A e \in m[p].entries : e.pos <= to
          /\ to <= Max0({m[p].from} \cup {e.pos : e \in events \cup m[p].entries}) + 1
          /\ m[p].snap \/ to > m[p].from
          /\ Becomes(p, [m[p] EXCEPT !.bound = inc, !.to = to,
                !.pc = CASE m[p].snap -> "truncate"
                         [] ~m[p].snap /\ keyless -> "invalidate"
                         [] OTHER -> "write"])
    /\ UNCHANGED <<keyless, events, inc, rows, holder, ids, faults, late, unpinned>>

(* Nothing new for the table: the token of the source is persisted alone,  *)
(* which is left out when it would change nothing.                         *)
Idle(p) ==
    /\ At(p, "stream") /\ m[p].from = MaxPos
    /\ m[p].known # 0 \/ Replaced(p) \/ ~Owns(p)
    /\ Becomes(p, [m[p] EXCEPT !.to = MaxPos, !.pc = "fence"])
    /\ UNCHANGED <<keyless, events, inc, rows, holder, ids, faults, late, unpinned>>

BindRefused(p) == At(p, "stream") /\ m[p].from < MaxPos /\ Replaced(p) /\ Refuses(p)

(* Another run has begun, in this generation or a later one. *)
Overtaken(p) == \E e \in events : e.kind = "run" /\ e.run # m[p].run /\ e.gen >= m[p].gen

(* TruncateCDCTableIfIncarnation, before the rows of a snapshot. *)
Truncate(p) ==
    /\ At(p, "truncate") /\ inc = m[p].bound
    /\ rows' = {} /\ Goes(p, "write")
    /\ late' = (late \/ Overtaken(p))
    /\ UNCHANGED <<keyless, events, inc, holder, ids, faults, unpinned>>

(* InvalidateSnapshot: before an append to a keyless table.  The known and *)
(* the bound incarnation are forgotten.                                    *)
InvalidateSnapshot(p) ==
    /\ At(p, "invalidate")
    /\ LET e == Event(m[p].gen, m[p].run, "snapshot", 0, m[p].epoch + 1, 0)
       IN  /\ events' = events \cup {e}
           /\ Becomes(p, [m[p] EXCEPT !.pc = "write", !.epoch = @ + 1, !.entries = @ \cup {e},
                             !.known = 0, !.knownInc = 0, !.bound = 0])
    /\ UNCHANGED <<keyless, inc, rows, holder, ids, faults, late, unpinned>>

(* MergeTable checks the incarnation in its transaction; an append does not. *)
Write(p) ==
    /\ At(p, "write") /\ (keyless \/ inc = m[p].bound)
    /\ rows' = rows \cup (m[p].from + 1)..m[p].to
    /\ Goes(p, "fence")
    /\ UNCHANGED <<keyless, events, inc, holder, ids, faults, late, unpinned>>

(* Truncate or merge of a table that was replaced fails. *)
WriteRefused(p) ==
    /\ At(p, "truncate") \/ (At(p, "write") /\ ~keyless)
    /\ inc # m[p].bound
    /\ Refuses(p)

----------------------------------------------------------------------------
(* Persist. *)

FenceLost(p) ==
    /\ At(p, "fence") /\ ~Owns(p)
    /\ Becomes(p, [Off EXCEPT !.pc = "supersede", !.gen = m[p].gen, !.run = m[p].run,
                      !.floor = Max({m[p].gen, FenceGen})])
    /\ UNCHANGED <<keyless, events, inc, rows, holder, ids, faults, late, unpinned>>

(* What is completed: a fresh snapshot, a keyless table that was appended  *)
(* to, the table known complete.  Its incarnation is that of now, if it is *)
(* still what was bound or known.                                          *)
Completes(p) ==
    IF m[p].snap \/ (keyless /\ m[p].from < m[p].to) \/ m[p].known # 0 THEN m[p].to ELSE 0

Capture(p) ==
    /\ At(p, "fence") /\ Owns(p) /\ ~Replaced(p)
    /\ Becomes(p, [m[p] EXCEPT !.pc = "save", !.bound = inc])
    /\ UNCHANGED <<keyless, events, inc, rows, holder, ids, faults, late, unpinned>>

CaptureRefused(p) == At(p, "fence") /\ Owns(p) /\ Replaced(p) /\ Refuses(p)

(* The checkpoint, the snapshot and the destination events, in one write; *)
(* a table is known complete until it is completed by this run.           *)
WriteEvents(p) ==
    /\ At(p, "save")
    /\ LET x == m[p]
           cp == {Event(x.gen, x.run, "checkpoint", x.to, 0, 0)}
           done == {Event(x.gen, x.run, "snapshot", Completes(p), x.epoch, 0),
                    Event(x.gen, x.run, "destination", Completes(p), x.epoch, x.bound)}
           es == cp \cup IF Completes(p) = 0 THEN {} ELSE done
       IN  /\ events' = events \cup es
           /\ Becomes(p, [x EXCEPT !.pc = "recheck", !.entries = @ \cup es, !.known = 0])
    /\ UNCHANGED <<keyless, inc, rows, holder, ids, faults, late, unpinned>>

(* Mutant of Recheck: the run goes on one position further. *)
RecheckFurther(p) ==
    /\ At(p, "recheck") /\ inc = m[p].bound
    /\ Becomes(p, [m[p] EXCEPT !.pc = "prune", !.knownInc = inc, !.bound = 0,
                      !.from = m[p].to + 1, !.to = 0, !.snap = FALSE])
    /\ UNCHANGED <<keyless, events, inc, rows, holder, ids, faults, late, unpinned>>

(* The table is still the one captured: go on, from here. *)
Recheck(p) ==
    /\ At(p, "recheck") /\ inc = m[p].bound
    /\ Becomes(p, [m[p] EXCEPT !.pc = "prune", !.knownInc = inc, !.bound = 0,
                      !.from = m[p].to, !.to = 0, !.snap = FALSE])
    /\ UNCHANGED <<keyless, events, inc, rows, holder, ids, faults, late, unpinned>>

RecheckRefused(p) == At(p, "recheck") /\ inc # m[p].bound /\ Refuses(p)

(* invalidateAfterFenceLoss: a run event of nobody, in a generation of its *)
(* own, leaves no run to resume; again, a few times, if it is overtaken.   *)
Supersede(p) ==
    /\ At(p, "supersede")
    /\ ids' = ids + 1
    /\ events' = events \cup {Event(m[p].floor + 1, ids', "run", 0, 0, 0)}
    /\ Becomes(p, [m[p] EXCEPT !.pc = "verify", !.run = ids',
                      !.floor = @ + 1, !.attempt = @ + 1])
    /\ UNCHANGED <<keyless, inc, rows, holder, faults, late, unpinned>>

Verify(p) ==
    /\ At(p, "verify")
    /\ LET stands == FenceGen = m[p].floor /\ (Cardinality(FenceRuns) > 1 \/ FenceRuns = {m[p].run})
       IN  IF stands \/ m[p].attempt = MaxAttempts
           THEN Ends(p)
           ELSE /\ Becomes(p, [m[p] EXCEPT !.pc = "supersede", !.floor = Max({m[p].floor, FenceGen})])
                /\ UNCHANGED holder
    /\ UNCHANGED <<keyless, events, inc, rows, ids, faults, late, unpinned>>

----------------------------------------------------------------------------
(* Faults. *)

(* The session of the lease dies, alone or with its process, ... *)
LoseSession(p) ==
    /\ holder = p /\ faults < MaxFaults /\ faults' = faults + 1
    /\ holder' = Nobody
    /\ UNCHANGED <<keyless, events, inc, rows, m, ids, late, unpinned>>

(* ... and the process is gone, or stops as soon as the monitor notices. *)
NoticeLoss(p) ==
    /\ ~At(p, "off") /\ holder # p
    /\ Refuses(p)

(* Somebody drops the destination table and makes it anew, empty: once it  *)
(* has rows or is bound, before that it makes no difference.               *)
Replace ==
    /\ inc <= MaxReplacements
    /\ rows # {} \/ \E p \in Procs : m[p].bound = inc
    /\ inc' = inc + 1 /\ rows' = {}
    /\ unpinned' = (unpinned \/ \E p \in Procs :
          /\ keyless /\ ~m[p].snap
          /\ m[p].pc \in {"invalidate", "write", "fence"})
    /\ UNCHANGED <<keyless, events, holder, m, ids, faults, late>>

Step(p) ==
    \/ Load(p) \/ BeginRun(p) \/ MarkInProgress(p) \/ Prune(p)
    \/ Bind(p) \/ Idle(p) \/ BindRefused(p) \/ Truncate(p) \/ InvalidateSnapshot(p) \/ Write(p) \/ WriteRefused(p)
    \/ FenceLost(p) \/ Capture(p) \/ CaptureRefused(p) \/ WriteEvents(p)
    \/ Recheck(p) \/ RecheckRefused(p) \/ Supersede(p) \/ Verify(p) \/ NoticeLoss(p)

Next ==
    \/ \E p \in Procs : Acquire(p) \/ Step(p) \/ LoseSession(p)
    \/ Replace

Spec == Init /\ [][Next]_vars

(* Some process goes on or is started again, as long as one can. *)
FairSpec == Spec /\ WF_vars(\E p \in Procs : Acquire(p) \/ Step(p))

----------------------------------------------------------------------------
(* The shape of the variables. *)
TypeOK ==
    /\ holder \in Procs \cup {Nobody}
    /\ rows \subseteq Positions /\ inc \in 1..(MaxReplacements + 1)
    /\ \A e \in events : e.pos \in 0..MaxPos /\ e.run \in 1..ids
    /\ \A p \in Procs : m[p].from \in 0..MaxPos /\ m[p].to \in 0..MaxPos

(* "Persist revalidates the pin before certifying the snapshot": whatever  *)
(* run resumes gets a position up to which the table holds every row.      *)
CertifiedRowsPresent == 1..Answer \subseteq rows

(* The same, whatever crashed, lost its lease, was pruned or replaced at   *)
(* whatever moment, but for the two windows that the code leaves open to   *)
(* a process that lost the lease: the truncate of a run that another one   *)
(* has overtaken, before it notices, and a replacement of a keyless table  *)
(* between Bind and Capture of a flush.                                    *)
ResumeSafe == late \/ unpinned \/ CertifiedRowsPresent

(* Run ids "prevent concurrent processes from completing each other's      *)
(* generation": what a run writes or prunes when another one has begun     *)
(* never makes the table resumable, nor moves its position.                *)
OvertakenRunIsInert ==
    [][\A p \in Procs : events' # events /\ m[p].run # 0 /\ m'[p] # m[p] /\ Overtaken(p)
                       => Answer' \in {0, Answer}]_vars

(* Pruning never changes what a run would resume from, wherever it stops. *)
PruneKeepsAnswer ==
    [][(\E e \in events : e \notin events') => Answer' = Answer]_vars

(* When faults stop, some run completes the table up to the end of the log. *)
Converges == <>[](Answer = MaxPos)
=============================================================================
