--------------------------- MODULE CDCStateProofs ---------------------------
(***************************************************************************)
(* Theorems about CDCState, for every set of processes, length of the log, *)
(* threshold and number of faults: what a run that was overtaken writes,   *)
(* and what any run prunes, never lets another run resume elsewhere; and   *)
(* whatever run resumes finds in the table what it is told is there.       *)
(***************************************************************************)
EXTENDS CDCState, WellFoundedInduction, TLAPS

EventKinds == {"run", "snapshot", "destination", "checkpoint"}
EventSet == [gen : Nat, run : Nat, kind : EventKinds, pos : 0..MaxPos, epoch : Nat, inc : Nat]

----------------------------------------------------------------------------
(* Numbers. *)

(* A bounded set of numbers has a largest. *)
LEMMA MaxInSet ==
    ASSUME NEW n \in Nat, NEW S \in SUBSET (0..n), S # {}
    PROVE  Max(S) \in S /\ \A y \in S : y <= Max(S)
<1> DEFINE Less == OpToRel(<, Nat)
           T == {n - x : x \in S}
<1>1. IsWellFoundedOn(Less, Nat)
  BY NatLessThanWellFounded
<1> HIDE DEF Less
<1>2. T \subseteq Nat /\ T # {}
  <2>1. \A x \in S : n - x \in Nat
    OBVIOUS
  <2> QED
    BY <2>1
<1>3. PICK z \in T : \A y \in T : ~(<<y, z>> \in Less)
  <2> HIDE DEF T
  <2> QED
    BY <1>1, <1>2, WFMin
<1>4. \A y \in T : z <= y
  <2>1. \A y \in T : <<y, z>> \in Nat \X Nat
    BY <1>2, <1>3
  <2>2. \A y \in T : ~(y < z)
    BY <1>3, <2>1 DEF Less, OpToRel
  <2> QED
    BY <1>2, <1>3, <2>2
<1>5. PICK x \in S : z = n - x
  BY <1>3
<1>6. \A y \in S : y <= x
  <2> TAKE y \in S
  <2>1. n - y \in T
    OBVIOUS
  <2>2. n - x <= n - y
    BY <1>4, <1>5, <2>1
  <2> QED
    BY <2>2
<1> QED
  BY <1>6 DEF Max

(* The largest of a set of numbers and 0 bounds the set. *)
LEMMA MaxBounded ==
    ASSUME NEW n \in Nat, NEW S \in SUBSET (0..n)
    PROVE  /\ Max0(S) \in 0..n /\ Max0(S) \in S \cup {0}
           /\ \A y \in S : y <= Max0(S)
<1>1. S \cup {0} \in SUBSET (0..n) /\ S \cup {0} # {}
  OBVIOUS
<1>2. Max(S \cup {0}) \in S \cup {0} /\ \A y \in S \cup {0} : y <= Max(S \cup {0})
  BY <1>1, MaxInSet
<1> QED
  BY <1>1, <1>2 DEF Max0

(* Two sets with the same bounds have the same largest number. *)
LEMMA SameMax ==
    ASSUME NEW n \in Nat, NEW S \in SUBSET (0..n), NEW T \in SUBSET (0..n),
           \A x \in S : \E y \in T : x <= y, \A y \in T : \E x \in S : y <= x
    PROVE  Max0(S) = Max0(T)
<1>1. Max0(S) \in 0..n /\ Max0(T) \in 0..n
  BY MaxBounded
<1>2. Max0(S) <= Max0(T)
  <2>1. Max0(S) \in S \cup {0} /\ \A y \in T : y <= Max0(T)
    BY MaxBounded
  <2> QED
    BY <1>1, <2>1
<1>3. Max0(T) <= Max0(S)
  <2>1. Max0(T) \in T \cup {0} /\ \A y \in S : y <= Max0(S)
    BY MaxBounded
  <2> QED
    BY <1>1, <2>1
<1> QED
  BY <1>1, <1>2, <1>3

----------------------------------------------------------------------------
(* What a set of events says. *)
Certified(A, i) == {s \in A : Certifies(A, s, i)}
Checkpoints(A, i) ==
    {x \in A : x.kind = "checkpoint" /\ \E s \in A : s.gen = x.gen /\ Certifies(A, s, i)}
PositionsOf(E) == {e.pos : e \in E}

(* The answer is one of the positions of certified snapshots and their     *)
(* checkpoints, the largest.                                               *)
LEMMA AnswerMax ==
    ASSUME NEW A \in SUBSET EventSet, NEW i
    PROVE  /\ ResumePosition(A, i) = Max0(PositionsOf(Certified(A, i)) \cup PositionsOf(Checkpoints(A, i)))
           /\ PositionsOf(Certified(A, i)) \in SUBSET (0..MaxPos)
           /\ PositionsOf(Checkpoints(A, i)) \in SUBSET (0..MaxPos)
<1>1. \A E \in SUBSET EventSet : PositionsOf(E) \in SUBSET (0..MaxPos)
  BY DEF PositionsOf, EventSet
<1>2. Certified(A, i) \in SUBSET EventSet /\ Checkpoints(A, i) \in SUBSET EventSet
  BY DEF Certified, Checkpoints
<1> QED
  BY <1>1, <1>2 DEF ResumePosition, PositionsOf, Certified, Checkpoints

(* A run resumes from a position of the source. *)
LEMMA AnswerType ==
    ASSUME NEW A \in SUBSET EventSet, NEW i
    PROVE  ResumePosition(A, i) \in 0..MaxPos
<1>1. PositionsOf(Certified(A, i)) \cup PositionsOf(Checkpoints(A, i)) \in SUBSET (0..MaxPos)
  BY AnswerMax
<1> QED
  BY <1>1, AnswerMax, MaxBounded, StateAssumption

(* Without a certified snapshot the answer is 0. *)
LEMMA NothingCertified ==
    ASSUME NEW A \in SUBSET EventSet, NEW i, \A s \in A : ~Certifies(A, s, i)
    PROVE  ResumePosition(A, i) = 0
<1>1. PositionsOf(Certified(A, i)) \cup PositionsOf(Checkpoints(A, i)) = {}
  BY DEF PositionsOf, Certified, Checkpoints
<1>2. Max0({}) = 0
  BY MaxBounded, StateAssumption
<1> QED
  BY <1>1, <1>2, AnswerMax

(* Only a snapshot of the latest generation is certified. *)
LEMMA CertifiedIsLatest ==
    ASSUME NEW A \in SUBSET EventSet, NEW i, NEW s \in A, Certifies(A, s, i), NEW t \in A
    PROVE  t.gen <= s.gen
BY DEF Certifies, Stands

(* In a generation that two runs wrote in nothing is certified. *)
LEMMA Contested ==
    ASSUME NEW A \in SUBSET EventSet, NEW i, NEW a \in A, NEW b \in A,
           a.gen = b.gen, a.run # b.run, \A x \in A : x.gen <= a.gen
    PROVE  ResumePosition(A, i) = 0
<1>1. ASSUME NEW s \in A, Certifies(A, s, i) PROVE FALSE
  <2>1. s.gen = a.gen
    <3>1. a.gen <= s.gen /\ s.gen <= a.gen
      BY <1>1, CertifiedIsLatest
    <3>2. a.gen \in Nat /\ s.gen \in Nat
      BY DEF EventSet
    <3> QED
      BY <3>1, <3>2
  <2>2. a.run = s.run /\ b.run = s.run
    BY <1>1, <2>1 DEF Certifies
  <2> QED
    BY <2>2
<1> QED
  BY <1>1, NothingCertified

(* The answer depends on the events from any generation on that is there.  *)
LEMMA SameFrom ==
    ASSUME NEW A \in SUBSET EventSet, NEW B \in SUBSET EventSet, NEW i,
           NEW t \in A \cap B,
           \A x \in A : x.gen >= t.gen => x \in B,
           \A x \in B : x.gen >= t.gen => x \in A
    PROVE  ResumePosition(A, i) = ResumePosition(B, i)
<1>1. ASSUME NEW X \in SUBSET EventSet, NEW Y \in SUBSET EventSet, t \in X, t \in Y,
             \A x \in X : x.gen >= t.gen => x \in Y,
             \A x \in Y : x.gen >= t.gen => x \in X,
             NEW s \in X, Certifies(X, s, i)
      PROVE  s \in Y /\ s.gen >= t.gen /\ Certifies(Y, s, i)
  <2>1. \A e \in X \cup Y : e.gen \in Nat
    BY <1>1 DEF EventSet
  <2>2. t.gen <= s.gen
    BY <1>1, CertifiedIsLatest
  <2>3. s \in Y
    BY <1>1, <2>1, <2>2
  <2>4. \A x \in Y : x \in X \/ x.gen < t.gen
    BY <1>1, <2>1
  <2>5. \A x \in Y : x.gen <= s.gen /\ (x.gen = s.gen => x \in X)
    <3>1. \A x \in X : x.gen <= s.gen
      BY <1>1, CertifiedIsLatest
    <3> QED
      BY <3>1, <2>1, <2>2, <2>4, <1>1
  <2>6. ASSUME NEW z, Stands(X, z), z.gen = s.gen PROVE Stands(Y, z)
    BY <2>5, <2>6 DEF Stands
  <2> DEFINE dest == Event(s.gen, s.run, "destination", s.pos, s.epoch, i)
  <2>7. dest \in X /\ Stands(X, dest) /\ Stands(X, s) /\ s.kind = "snapshot"
    BY <1>1 DEF Certifies
  <2>8. dest.gen = s.gen
    BY DEF Event
  <2> HIDE DEF dest
  <2>9. dest \in Y /\ Stands(Y, dest) /\ Stands(Y, s)
    BY <1>1, <2>1, <2>2, <2>6, <2>7, <2>8
  <2>10. \A x \in Y : x.gen = s.gen => x.run = s.run
    BY <1>1, <2>5 DEF Certifies
  <2> QED
    BY <2>1, <2>2, <2>3, <2>7, <2>9, <2>10 DEF Certifies, dest
<1>2. Certified(A, i) = Certified(B, i)
  BY <1>1 DEF Certified
<1>3. Checkpoints(A, i) = Checkpoints(B, i)
  <2>1. \A s \in A : Certifies(A, s, i) => s \in B /\ s.gen >= t.gen /\ Certifies(B, s, i)
    BY <1>1
  <2>2. \A s \in B : Certifies(B, s, i) => s \in A /\ s.gen >= t.gen /\ Certifies(A, s, i)
    BY <1>1
  <2> QED
    BY <2>1, <2>2 DEF Checkpoints
<1> QED
  BY <1>2, <1>3, AnswerMax

(* Events of the latest generation may go if one of their kind that is     *)
(* preferred to them stays.                                                *)
LEMMA Preferred ==
    ASSUME NEW A \in SUBSET EventSet, NEW B \in SUBSET A, NEW i, NEW t \in B,
           \A x \in A : x.gen <= t.gen,
           \A x \in A : x.gen = t.gen => x.run = t.run,
           \A x \in A : x.gen = t.gen /\ x \notin B =>
               \E c \in B : c.gen = t.gen /\ c.kind = x.kind /\ Prefers(c, x)
    PROVE  ResumePosition(A, i) = ResumePosition(B, i)
<1>n. \A e \in A : e.gen \in Nat /\ e.pos \in Nat /\ e.epoch \in Nat
  BY DEF EventSet
<1> DEFINE Kind(s) == s.kind \in {"snapshot", "destination"}
<1>1. ASSUME NEW s \in A, s.gen = t.gen, Kind(s), Stands(A, s) PROVE s \in B
  <2> SUFFICES ASSUME s \notin B PROVE FALSE
    OBVIOUS
  <2>1. PICK c \in B : c.gen = t.gen /\ c.kind = s.kind /\ Prefers(c, s)
    BY <1>1
  <2>2. c \in A /\ (c.epoch < s.epoch \/ (c.epoch = s.epoch /\ c.pos <= s.pos))
    BY <1>1, <2>1 DEF Stands
  <2> QED
    BY <1>1, <2>1, <2>2, <1>n DEF Prefers
<1>2. ASSUME NEW s, Stands(A, s) PROVE Stands(B, s)
  BY <1>2 DEF Stands
<1>3. ASSUME NEW s \in B, s.gen = t.gen, Kind(s), Stands(B, s) PROVE Stands(A, s)
  <2> SUFFICES ASSUME NEW x \in A, x \notin B, x.gen = s.gen, x.kind = s.kind
               PROVE  x.epoch < s.epoch \/ (x.epoch = s.epoch /\ x.pos <= s.pos)
    BY <1>3 DEF Stands
  <2>1. PICK c \in B : c.gen = t.gen /\ c.kind = x.kind /\ Prefers(c, x)
    BY <1>3
  <2>2. c.epoch < s.epoch \/ (c.epoch = s.epoch /\ c.pos <= s.pos)
    BY <1>3, <2>1 DEF Stands
  <2>3. c \in A /\ s \in A
    OBVIOUS
  <2> QED
    BY <1>3, <2>1, <2>2, <2>3, <1>n DEF Prefers
<1>4. ASSUME NEW X \in SUBSET A, t \in X, NEW s \in X, Certifies(X, s, i) PROVE s.gen = t.gen
  <2>1. t.gen <= s.gen /\ s.gen <= t.gen
    BY <1>4, CertifiedIsLatest
  <2> QED
    BY <2>1, <1>n
<1> DEFINE dest(s) == Event(s.gen, s.run, "destination", s.pos, s.epoch, i)
<1>d. \A s : dest(s).gen = s.gen /\ Kind(dest(s))
  BY DEF Event
<1>5. ASSUME NEW s \in A, Certifies(A, s, i) PROVE s \in B /\ Certifies(B, s, i)
  <2>1. s.gen = t.gen
    BY <1>5, <1>4
  <2>2. s.kind = "snapshot" /\ Stands(A, s) /\ dest(s) \in A /\ Stands(A, dest(s))
    BY <1>5 DEF Certifies
  <2>3. s \in B
    BY <2>1, <2>2, <1>1
  <2>4. dest(s) \in B
    BY <2>1, <2>2, <1>1, <1>d
  <2>5. Stands(B, s) /\ Stands(B, dest(s))
    BY <2>2, <1>2
  <2> QED
    BY <1>5, <2>2, <2>3, <2>4, <2>5 DEF Certifies
<1>6. ASSUME NEW s \in B, Certifies(B, s, i) PROVE Certifies(A, s, i)
  <2>1. s.gen = t.gen
    BY <1>6, <1>4
  <2>2. s.kind = "snapshot" /\ Stands(B, s) /\ dest(s) \in B /\ Stands(B, dest(s))
    BY <1>6 DEF Certifies
  <2>3. Stands(A, s)
    BY <2>1, <2>2, <1>3
  <2>4. Stands(A, dest(s))
    BY <2>1, <2>2, <1>3, <1>d
  <2>5. \A x \in A : x.gen = s.gen => x.run = s.run
    BY <2>1
  <2> QED
    BY <2>2, <2>3, <2>4, <2>5 DEF Certifies
<1>7. Certified(A, i) = Certified(B, i)
  BY <1>5, <1>6 DEF Certified
<1>8. Checkpoints(B, i) \in SUBSET Checkpoints(A, i)
  BY <1>6 DEF Checkpoints
<1>9. \A x \in Checkpoints(A, i) : \E y \in Checkpoints(B, i) : x.pos <= y.pos
  <2> SUFFICES ASSUME NEW x \in Checkpoints(A, i)
               PROVE  \E y \in Checkpoints(B, i) : x.pos <= y.pos
    OBVIOUS
  <2>1. PICK s \in A : s.gen = x.gen /\ Certifies(A, s, i)
    BY DEF Checkpoints
  <2>2. s \in B /\ Certifies(B, s, i) /\ x.gen = t.gen /\ x \in A /\ x.kind = "checkpoint"
    BY <2>1, <1>4, <1>5 DEF Checkpoints
  <2>3. CASE x \in B
    BY <2>1, <2>2, <2>3, <1>n DEF Checkpoints
  <2>4. CASE x \notin B
    <3>1. PICK c \in B : c.gen = t.gen /\ c.kind = x.kind /\ Prefers(c, x)
      BY <2>2, <2>4
    <3>2. c \in Checkpoints(B, i)
      BY <2>1, <2>2, <3>1 DEF Checkpoints
    <3>3. x.pos <= c.pos
      BY <2>2, <3>1, <1>n DEF Prefers
    <3> QED
      BY <3>2, <3>3
  <2> QED
    BY <2>3, <2>4
<1> DEFINE SA == PositionsOf(Certified(A, i)) \cup PositionsOf(Checkpoints(A, i))
           SB == PositionsOf(Certified(B, i)) \cup PositionsOf(Checkpoints(B, i))
<1>10. SA \in SUBSET (0..MaxPos) /\ SB \in SUBSET (0..MaxPos)
  BY AnswerMax
<1>11. SB \subseteq SA
  BY <1>7, <1>8 DEF PositionsOf
<1>12. \A x \in SA : \E y \in SB : x <= y
  <2> SUFFICES ASSUME NEW x \in SA PROVE \E y \in SB : x <= y
    OBVIOUS
  <2>1. CASE x \in PositionsOf(Certified(A, i))
    <3>1. x \in SB /\ x <= x
      BY <2>1, <1>7, <1>10
    <3> QED
      BY <3>1
  <2>2. CASE x \in PositionsOf(Checkpoints(A, i))
    <3>1. PICK e \in Checkpoints(A, i) : x = e.pos
      BY <2>2 DEF PositionsOf
    <3>2. PICK y \in Checkpoints(B, i) : x <= y.pos
      BY <3>1, <1>9
    <3>3. y.pos \in SB
      BY DEF PositionsOf
    <3> QED
      BY <3>2, <3>3
  <2> QED
    BY <2>1, <2>2
<1>13. \A y \in SB : \E x \in SA : y <= x
  <2>1. \A y \in SB : y \in SA /\ y <= y
    BY <1>10, <1>11
  <2> QED
    BY <2>1
<1>14. ResumePosition(A, i) = Max0(SA) /\ ResumePosition(B, i) = Max0(SB)
  BY AnswerMax
<1> HIDE DEF SA, SB
<1> QED
  BY <1>10, <1>12, <1>13, <1>14, SameMax, StateAssumption

----------------------------------------------------------------------------
(* What every step keeps. *)

ActiveSteps == {"mark", "prune", "stream", "truncate", "invalidate", "write", "fence", "save", "recheck"}
ManagerSteps == ActiveSteps \cup {"off", "load", "begin", "supersede", "verify"}
Managers ==
    [pc : ManagerSteps, gen : Nat, run : Nat, epoch : Nat, entries : SUBSET EventSet,
     known : Nat, knownInc : Nat, bound : Nat, from : 0..MaxPos, to : 0..MaxPos,
     snap : BOOLEAN, floor : Nat, due : BOOLEAN, attempt : Nat]

(* Generations and run ids are counted, and a run event has no position.   *)
Counted(es) == \A e \in es : e.run \in 1..ids /\ e.gen <= ids /\ (e.kind = "run" => e.pos = 0)

StateTypes ==
    /\ events \in SUBSET EventSet /\ Counted(events)
    /\ ids \in Nat /\ inc \in 1..(MaxReplacements + 1) /\ rows \in SUBSET Positions
    /\ holder \in Procs \cup {Nobody}
    /\ m \in [Procs -> Managers]
    /\ \A p \in Procs : /\ m[p].run <= ids /\ m[p].gen <= ids /\ m[p].floor <= ids
                        /\ Counted(m[p].entries)

Higher(g) == \E x \in events : x.gen > g
RunEvent(p) == Event(m[p].gen, m[p].run, "run", 0, 0, 0)
Own(p) == {e \in m[p].entries : e.gen = m[p].gen /\ e.run = m[p].run}

(* A run knows the events of older generations that it read and its own,   *)
(* and its own are there unless a later generation has begun.              *)
Knows(p) ==
    /\ m[p].pc \in {"off", "load", "begin"} => m[p].run = 0
    /\ m[p].pc = "begin" => \A e \in m[p].entries : e.gen <= m[p].gen
    /\ m[p].pc \in ActiveSteps =>
          /\ m[p].run # 0
          /\ RunEvent(p) \in m[p].entries
          /\ \A e \in m[p].entries :
                e.gen < m[p].gen \/ (e.gen = m[p].gen /\ e.run = m[p].run /\ e.epoch <= m[p].epoch)
          /\ \A e \in Own(p) : e \in events \/ Higher(m[p].gen)

(* No two processes have one run id. *)
RunIdsDiffer == \A p, q \in Procs : p # q /\ m[p].run # 0 => m[p].run # m[q].run

StateInv == StateTypes /\ (\A p \in Procs : Knows(p)) /\ RunIdsDiffer

(* The initial state satisfies the invariant. *)
LEMMA StateInit == ASSUME Init PROVE StateInv
<1> USE StateAssumption DEF Init
<1>1. Off \in Managers
  BY DEF Off, Managers, ManagerSteps
<1>2. StateTypes
  BY <1>1 DEF StateTypes, Counted, Off
<1>3. (\A p \in Procs : Knows(p)) /\ RunIdsDiffer
  BY DEF Knows, RunIdsDiffer, Off, ActiveSteps
<1> QED
  BY <1>2, <1>3 DEF StateInv

(* What a process does that adds events leaves what the others know.       *)
LEMMA ManagerStep ==
    ASSUME StateInv, NEW p \in Procs, NEW x \in Managers, Becomes(p, x),
           ids' \in {ids, ids + 1},
           x.run \in {0, m[p].run} \/ (x.run = ids + 1 /\ ids' = ids + 1),
           x.gen <= ids', x.floor <= ids',
           events' \in SUBSET EventSet, events \subseteq events', Counted(events)',
           x.entries \subseteq m[p].entries \cup events',
           inc' \in 1..(MaxReplacements + 1), rows' \in SUBSET Positions,
           holder' \in Procs \cup {Nobody},
           Knows(p)'
    PROVE  StateInv'
<1>1. m' \in [Procs -> Managers] /\ m'[p] = x /\ \A q \in Procs : q # p => m'[q] = m[q]
  BY DEF StateInv, StateTypes, Becomes
<1>2. ids \in Nat /\ ids' \in Nat /\ ids <= ids'
  BY DEF StateInv, StateTypes
<1>m. \A q \in Procs : m[q].run \in Nat /\ m[q].gen \in Nat /\ m[q].floor \in Nat
  BY DEF StateInv, StateTypes, Managers
<1>3. \A q \in Procs : m'[q].run <= ids' /\ m'[q].gen <= ids' /\ m'[q].floor <= ids'
  <2> TAKE q \in Procs
  <2>1. m[q].run <= ids /\ m[q].gen <= ids /\ m[q].floor <= ids
    BY DEF StateInv, StateTypes
  <2>2. CASE q = p
    BY <2>1, <2>2, <1>1, <1>2, <1>m
  <2>3. CASE q # p
    BY <2>1, <2>3, <1>1, <1>2, <1>m
  <2> QED
    BY <2>2, <2>3
<1>4. \A q \in Procs : Counted(m[q].entries)'
  <2> TAKE q \in Procs
  <2>1. \A e \in m[q].entries : e.run \in 1..ids' /\ e.gen <= ids' /\ (e.kind = "run" => e.pos = 0)
    <3>1. m[q].entries \in SUBSET EventSet
      BY DEF StateInv, StateTypes, Managers
    <3> QED
      BY <3>1, <1>2 DEF StateInv, StateTypes, Counted, EventSet
  <2>2. \A e \in events' : e.run \in 1..ids' /\ e.gen <= ids' /\ (e.kind = "run" => e.pos = 0)
    BY DEF Counted
  <2>3. m'[q].entries \subseteq m[q].entries \cup events'
    BY <1>1
  <2> QED
    BY <2>1, <2>2, <2>3 DEF Counted
<1>5. StateTypes'
  BY <1>1, <1>2, <1>3, <1>4 DEF StateTypes
<1>6. \A q \in Procs : Knows(q)'
  <2> TAKE q \in Procs
  <2>1. CASE q = p
    BY <2>1
  <2>2. CASE q # p
    <3>1. m'[q] = m[q] /\ Knows(q)
      BY <2>2, <1>1 DEF StateInv
    <3>2. \A g : Higher(g) => Higher(g)'
      BY DEF Higher
    <3> QED
      BY <3>1, <3>2 DEF Knows, RunEvent, Own
  <2> QED
    BY <2>1, <2>2
<1>7. RunIdsDiffer'
  <2> SUFFICES ASSUME NEW a \in Procs, NEW b \in Procs, a # b, m'[a].run # 0
               PROVE  m'[a].run # m'[b].run
    BY DEF RunIdsDiffer
  <2>1. \A q \in Procs : m'[q].run \in {0, m[q].run} \/ (m'[q].run = ids + 1 /\ q = p)
    BY <1>1
  <2>2. \A q \in Procs : m[q].run <= ids
    BY DEF StateInv, StateTypes
  <2>3. m[a].run # 0 => m[a].run # m[b].run
    BY DEF StateInv, RunIdsDiffer
  <2> QED
    BY <2>1, <2>2, <2>3, <1>2, <1>m
<1> QED
  BY <1>5, <1>6, <1>7 DEF StateInv

(* A run goes on and leaves the events alone. *)
LEMMA GoesOn ==
    ASSUME StateInv, NEW p \in Procs, NEW x \in Managers, Becomes(p, x), UNCHANGED <<events, ids>>,
           m[p].pc \in ActiveSteps, x.pc \in ActiveSteps,
           x.run = m[p].run, x.gen = m[p].gen, x.epoch = m[p].epoch, x.entries = m[p].entries,
           x.floor = m[p].floor,
           inc' \in 1..(MaxReplacements + 1), rows' \in SUBSET Positions,
           holder' \in Procs \cup {Nobody}
    PROVE  StateInv'
<1>1. m'[p] = x
  BY DEF StateInv, StateTypes, Becomes
<1>2. Knows(p)'
  <2>1. Knows(p) /\ x.pc \notin {"off", "load", "begin"}
    BY DEF StateInv, ActiveSteps
  <2>2. \A g : Higher(g)' <=> Higher(g)
    BY DEF Higher
  <2>3. RunEvent(p)' = RunEvent(p) /\ Own(p)' = Own(p)
    BY <1>1 DEF RunEvent, Own
  <2> QED
    BY <1>1, <2>1, <2>2, <2>3 DEF Knows
<1>3. m[p].run <= ids /\ m[p].gen <= ids /\ m[p].floor <= ids /\ Counted(events)'
      /\ events \in SUBSET EventSet
  BY DEF StateInv, StateTypes, Counted
<1> QED
  BY <1>2, <1>3, ManagerStep

(* A run writes events of its own. *)
LEMMA Adds ==
    ASSUME StateInv, NEW p \in Procs, NEW x \in Managers, Becomes(p, x), UNCHANGED ids,
           NEW es \in SUBSET EventSet,
           events' = events \cup es, x.entries = m[p].entries \cup es,
           \A e \in es : e.gen = m[p].gen /\ e.run = m[p].run /\ e.kind # "run" /\ e.epoch <= x.epoch,
           m[p].pc \in ActiveSteps, x.pc \in ActiveSteps,
           x.run = m[p].run, x.gen = m[p].gen, m[p].epoch <= x.epoch, x.floor = m[p].floor,
           inc' \in 1..(MaxReplacements + 1), rows' \in SUBSET Positions,
           holder' \in Procs \cup {Nobody}
    PROVE  StateInv'
<1>1. m'[p] = x
  BY DEF StateInv, StateTypes, Becomes
<1>t. /\ m[p] \in Managers /\ m[p].run <= ids /\ m[p].gen <= ids /\ m[p].floor <= ids
      /\ ids \in Nat /\ events \in SUBSET EventSet /\ Counted(events) /\ Knows(p)
  BY DEF StateInv, StateTypes
<1>2. Knows(p)'
  <2>1. x.pc \notin {"off", "load", "begin"}
    BY DEF ActiveSteps
  <2>2. \A g : Higher(g) => Higher(g)'
    BY DEF Higher
  <2>3. RunEvent(p)' = RunEvent(p) /\ RunEvent(p) \in x.entries
    BY <1>1, <1>t DEF RunEvent, Knows
  <2>4. \A e \in x.entries :
            e.gen < x.gen \/ (e.gen = x.gen /\ e.run = x.run /\ e.epoch <= x.epoch)
    <3>1. \A e \in m[p].entries : e.epoch \in Nat /\ m[p].epoch \in Nat /\ x.epoch \in Nat
      BY <1>t DEF Managers, EventSet
    <3> QED
      BY <3>1, <1>t DEF Knows
  <2>5. \A e \in Own(p)' : e \in events' \/ Higher(x.gen)'
    BY <1>1, <1>t, <2>2 DEF Own, Knows
  <2> QED
    BY <1>1, <1>t, <2>1, <2>3, <2>4, <2>5 DEF Knows
<1>3. Counted(events)'
  <2>1. m[p].run \in 1..ids
    BY <1>t DEF Knows, Managers
  <2> QED
    BY <1>t, <2>1 DEF Counted
<1> QED
  BY <1>t, <1>2, <1>3, ManagerStep

(* A process ends. *)
LEMMA Leaves ==
    ASSUME StateInv, NEW p \in Procs, Ends(p), UNCHANGED <<events, ids, inc, rows>>
    PROVE  StateInv'
<1>1. Off \in Managers /\ Becomes(p, Off)
  BY StateAssumption DEF Off, Managers, ManagerSteps, Ends
<1>t. StateTypes
  BY DEF StateInv
<1>2. m'[p] = Off
  BY <1>t, <1>1 DEF StateTypes, Becomes
<1>3. Knows(p)'
  BY <1>2 DEF Knows, Off, ActiveSteps
<1>4. holder' \in Procs \cup {Nobody} /\ Counted(events)' /\ ids \in Nat
  BY <1>t DEF StateTypes, Ends, Counted
<1> QED
  BY <1>1, <1>3, <1>4, <1>t, ManagerStep DEF Off, StateTypes

(* A run begins: it reads the state, and takes the next generation.        *)
LEMMA AcquireStep == ASSUME StateInv, NEW p \in Procs, Acquire(p) PROVE StateInv'
<1> DEFINE x == [m[p] EXCEPT !.pc = "load"]
<1>t. /\ StateTypes /\ m[p] \in Managers /\ m[p].pc = "off" /\ Knows(p)
      /\ UNCHANGED <<events, inc, rows, ids>> /\ holder' = p /\ Becomes(p, x)
  BY DEF StateInv, StateTypes, Acquire, At, Goes
<1>1. x \in Managers /\ x.pc = "load" /\ x.run = 0 /\ x.gen = m[p].gen /\ x.floor = m[p].floor
      /\ x.entries = m[p].entries
  BY <1>t DEF Managers, ManagerSteps, Knows
<1> HIDE DEF x
<1>2. m'[p] = x
  BY <1>t DEF StateTypes, Becomes
<1>3. Knows(p)'
  BY <1>1, <1>2 DEF Knows, ActiveSteps
<1>4. Counted(events)'
  BY <1>t DEF StateTypes, Counted
<1> QED
  BY <1>t, <1>1, <1>3, <1>4, ManagerStep DEF StateTypes

(* Generations are numbers up to the count of run ids. *)
LEMMA Generations ==
    ASSUME StateTypes, NEW E \in SUBSET events
    PROVE  LET G == {e.gen : e \in E}
           IN  Max0(G) \in 0..ids /\ \A e \in E : e.gen <= Max0(G)
<1> DEFINE G == {e.gen : e \in E}
<1>1. G \in SUBSET (0..ids) /\ ids \in Nat
  BY DEF StateTypes, Counted, EventSet
<1>2. \A e \in E : e.gen \in G
  OBVIOUS
<1> HIDE DEF G
<1>3. Max0(G) \in 0..ids /\ \A g \in G : g <= Max0(G)
  BY <1>1, MaxBounded
<1> QED
  BY <1>2, <1>3 DEF G

(* What a run reads is of generations up to the largest it finds. *)
LEMMA LoadStep == ASSUME StateInv, NEW p \in Procs, Load(p) PROVE StateInv'
<1> DEFINE g == Max0({e.gen : e \in events})
           pos == ResumePosition(events, inc)
           x == [m[p] EXCEPT !.pc = "begin", !.entries = events, !.gen = g,
                             !.from = pos, !.snap = (pos = 0),
                             !.known = SnapshotOf(events, inc),
                             !.knownInc = IF pos = 0 THEN 0 ELSE inc]
<1>t. /\ StateTypes /\ m[p] \in Managers /\ m[p].pc = "load" /\ m[p].run = 0
      /\ UNCHANGED <<events, inc, rows, ids, holder>> /\ Becomes(p, x)
  BY DEF StateInv, StateTypes, Load, At, Knows
<1>1. g \in 0..ids /\ \A e \in events : e.gen <= g
  BY <1>t, Generations
<1>2. pos \in 0..MaxPos /\ SnapshotOf(events, inc) \in Nat /\ inc \in Nat
  <2>1. events \in SUBSET EventSet /\ inc \in Nat
    BY <1>t DEF StateTypes
  <2>2. SnapshotOf(events, inc) \in 0..MaxPos
    BY <2>1, AnswerMax, MaxBounded, StateAssumption DEF SnapshotOf, PositionsOf, Certified
  <2> QED
    BY <2>1, <2>2, AnswerType
<1> HIDE DEF g, pos
<1>3. x \in Managers /\ x.pc = "begin" /\ x.run = 0 /\ x.gen = g /\ x.floor = m[p].floor
      /\ x.entries = events
  <2>1. m[p] \in Managers /\ m[p].run = 0 /\ "begin" \in ManagerSteps
        /\ g \in Nat /\ pos \in 0..MaxPos /\ SnapshotOf(events, inc) \in Nat
        /\ events \in SUBSET EventSet /\ (IF pos = 0 THEN 0 ELSE inc) \in Nat
    BY <1>t, <1>1, <1>2 DEF ManagerSteps, StateTypes
  <2> QED
    BY <2>1 DEF Managers
<1> HIDE DEF x
<1>4. m'[p] = x
  BY <1>t DEF StateTypes, Becomes
<1>5. Knows(p)'
  BY <1>1, <1>3, <1>4 DEF Knows, ActiveSteps
<1>6. Counted(events)'
  BY <1>t DEF StateTypes, Counted
<1> QED
  BY <1>t, <1>1, <1>3, <1>5, <1>6, ManagerStep DEF StateTypes

(* The generation and the id of a run that begins are new to it. *)
LEMMA BeginRunStep == ASSUME StateInv, NEW p \in Procs, BeginRun(p) PROVE StateInv'
<1> DEFINE e == Event(m[p].gen + 1, ids', "run", 0, 0, 0)
           x == [m[p] EXCEPT !.pc = "mark", !.gen = @ + 1, !.run = ids', !.entries = @ \cup {e}]
<1>t. /\ StateTypes /\ m[p] \in Managers /\ m[p].pc = "begin" /\ Knows(p) /\ ids' = ids + 1
      /\ UNCHANGED <<inc, rows, holder>> /\ Becomes(p, x) /\ events' = events \cup {e}
  BY DEF StateInv, StateTypes, BeginRun, At
<1>1. ids \in Nat /\ m[p].gen \in Nat /\ m[p].gen <= ids /\ m[p].floor \in Nat /\ m[p].floor <= ids
  BY <1>t DEF StateTypes, Managers
<1>2. e \in EventSet /\ e.gen = m[p].gen + 1 /\ e.run = ids + 1 /\ e.kind = "run" /\ e.pos = 0
      /\ e.epoch = 0
  BY <1>t, <1>1, StateAssumption DEF Event, EventSet, EventKinds
<1>3. x \in Managers /\ x.pc = "mark" /\ x.run = ids + 1 /\ x.gen = m[p].gen + 1
      /\ x.floor = m[p].floor /\ x.entries = m[p].entries \cup {e} /\ x.epoch = m[p].epoch
      /\ x.epoch \in Nat
  <2>1. m[p] \in Managers /\ "mark" \in ManagerSteps /\ ids' \in Nat /\ ids' = ids + 1
        /\ m[p].gen + 1 \in Nat /\ e \in EventSet
    BY <1>t, <1>1, <1>2 DEF ManagerSteps, ActiveSteps
  <2> HIDE DEF e
  <2> QED
    BY <2>1 DEF Managers
<1>4. m'[p] = x
  BY <1>t DEF StateTypes, Becomes
<1>5. Knows(p)'
  <2>1. RunEvent(p)' = e
    BY <1>t, <1>3, <1>4 DEF RunEvent
  <2>2. \A z \in m[p].entries : z.gen < x.gen
    <3>1. \A z \in m[p].entries : z.gen \in Nat /\ z.gen <= m[p].gen
      BY <1>t DEF Managers, EventSet, Knows
    <3> QED
      BY <3>1, <1>1, <1>3
  <2>3. \A z \in m'[p].entries :
            \/ z.gen < m'[p].gen
            \/ z = e /\ z.gen = m'[p].gen /\ z.run = m'[p].run /\ z.epoch <= m'[p].epoch
    BY <1>2, <1>3, <1>4, <2>2
  <2>4. \A z \in Own(p)' : z = e
    <3>1. \A z \in m[p].entries : z.gen # x.gen
      BY <2>2, <1>t, <1>1, <1>3 DEF Managers, EventSet
    <3> QED
      BY <3>1, <1>3, <1>4 DEF Own
  <2>5. e \in events' /\ e \in m'[p].entries
    BY <1>t, <1>3, <1>4
  <2> QED
    BY <1>1, <1>3, <1>4, <2>1, <2>3, <2>4, <2>5 DEF Knows, ActiveSteps
<1>6. Counted(events)'
  BY <1>t, <1>1, <1>2 DEF StateTypes, Counted, EventSet
<1> HIDE DEF e, x
<1>7. x.gen <= ids' /\ x.floor <= ids' /\ x.run = ids + 1 /\ x.entries \subseteq m[p].entries \cup events'
  BY <1>t, <1>1, <1>3
<1> QED
  BY <1>t, <1>2, <1>3, <1>5, <1>6, <1>7, ManagerStep DEF StateTypes

(* The steps of a run between its events. *)
LEMMA WorkStep ==
    ASSUME StateInv, NEW p \in Procs,
           Bind(p) \/ Idle(p) \/ Truncate(p) \/ Write(p) \/ Capture(p) \/ Recheck(p)
    PROVE  StateInv'
<1>t. /\ StateTypes /\ m[p] \in Managers /\ inc \in Nat /\ MaxPos \in Nat
  BY StateAssumption DEF StateInv, StateTypes
<1>u. UNCHANGED <<events, ids, inc, holder>>
  BY DEF Bind, Idle, Truncate, Write, Capture, Recheck
<1>h. inc' \in 1..(MaxReplacements + 1) /\ holder' \in Procs \cup {Nobody}
  BY <1>t, <1>u DEF StateTypes
<1>r. rows' \in SUBSET Positions
  <2>1. CASE Write(p)
    <3>1. (m[p].from + 1)..m[p].to \subseteq Positions
      BY <1>t DEF Managers, Positions
    <3> QED
      BY <2>1, <3>1, <1>t DEF Write, StateTypes
  <2>2. CASE ~Write(p)
    BY <2>2, <1>t DEF Bind, Idle, Truncate, Capture, Recheck, StateTypes
  <2> QED
    BY <2>1, <2>2
<1>1. CASE Bind(p)
  <2>1. PICK to \in Positions :
            Becomes(p, [m[p] EXCEPT !.bound = inc, !.to = to,
                          !.pc = CASE m[p].snap -> "truncate"
                                   [] ~m[p].snap /\ keyless -> "invalidate"
                                   [] OTHER -> "write"])
    BY <1>1 DEF Bind
  <2> DEFINE next == CASE m[p].snap -> "truncate"
                       [] ~m[p].snap /\ keyless -> "invalidate"
                       [] OTHER -> "write"
             x == [m[p] EXCEPT !.bound = inc, !.to = to, !.pc = next]
  <2>2. next \in {"truncate", "invalidate", "write"}
    OBVIOUS
  <2>3. m[p].pc = "stream" /\ Becomes(p, x)
    BY <1>1, <2>1 DEF Bind, At
  <2> HIDE DEF next
  <2>4. /\ x \in Managers /\ x.pc \in ActiveSteps /\ m[p].pc \in ActiveSteps
        /\ x.run = m[p].run /\ x.gen = m[p].gen /\ x.epoch = m[p].epoch
        /\ x.entries = m[p].entries /\ x.floor = m[p].floor
    <3>1. m[p] \in Managers /\ inc \in Nat /\ to \in 0..MaxPos /\ next \in ManagerSteps
          /\ next \in ActiveSteps /\ m[p].pc \in ActiveSteps
      BY <1>t, <2>2, <2>3 DEF ManagerSteps, ActiveSteps, Positions
    <3> QED
      BY <3>1 DEF Managers
  <2> HIDE DEF x
  <2> QED
    BY <2>3, <2>4, <1>u, <1>h, <1>r, GoesOn
<1>2. CASE Idle(p)
  <2> DEFINE x == [m[p] EXCEPT !.to = MaxPos, !.pc = "fence"]
  <2>1. m[p].pc = "stream" /\ Becomes(p, x)
    BY <1>2 DEF Idle, At
  <2>2. /\ x \in Managers /\ x.pc \in ActiveSteps /\ m[p].pc \in ActiveSteps
        /\ x.run = m[p].run /\ x.gen = m[p].gen /\ x.epoch = m[p].epoch
        /\ x.entries = m[p].entries /\ x.floor = m[p].floor
    <3>1. m[p] \in Managers /\ MaxPos \in 0..MaxPos /\ "fence" \in ManagerSteps
          /\ "fence" \in ActiveSteps /\ m[p].pc \in ActiveSteps
      BY <1>t, <2>1 DEF ManagerSteps, ActiveSteps
    <3> QED
      BY <3>1 DEF Managers
  <2> HIDE DEF x
  <2> QED
    BY <2>1, <2>2, <1>u, <1>h, <1>r, GoesOn
<1>3. CASE Truncate(p) \/ Write(p)
  <2> DEFINE next == IF m[p].pc = "truncate" THEN "write" ELSE "fence"
             x == [m[p] EXCEPT !.pc = next]
  <2>1. m[p].pc \in {"truncate", "write"} /\ Becomes(p, x)
    BY <1>3 DEF Truncate, Write, At, Goes
  <2>2. /\ x \in Managers /\ x.pc \in ActiveSteps /\ m[p].pc \in ActiveSteps
        /\ x.run = m[p].run /\ x.gen = m[p].gen /\ x.epoch = m[p].epoch
        /\ x.entries = m[p].entries /\ x.floor = m[p].floor
    BY <1>t, <2>1 DEF Managers, ManagerSteps, ActiveSteps
  <2> HIDE DEF x
  <2> QED
    BY <2>1, <2>2, <1>u, <1>h, <1>r, GoesOn
<1>4. CASE Capture(p)
  <2> DEFINE x == [m[p] EXCEPT !.pc = "save", !.bound = inc]
  <2>1. m[p].pc = "fence" /\ Becomes(p, x)
    BY <1>4 DEF Capture, At
  <2>2. /\ x \in Managers /\ x.pc \in ActiveSteps /\ m[p].pc \in ActiveSteps
        /\ x.run = m[p].run /\ x.gen = m[p].gen /\ x.epoch = m[p].epoch
        /\ x.entries = m[p].entries /\ x.floor = m[p].floor
    BY <1>t, <2>1 DEF Managers, ManagerSteps, ActiveSteps
  <2> HIDE DEF x
  <2> QED
    BY <2>1, <2>2, <1>u, <1>h, <1>r, GoesOn
<1>5. CASE Recheck(p)
  <2> DEFINE x == [m[p] EXCEPT !.pc = "prune", !.knownInc = inc, !.bound = 0,
                               !.from = m[p].to, !.to = 0, !.snap = FALSE]
  <2>1. m[p].pc = "recheck" /\ Becomes(p, x)
    BY <1>5 DEF Recheck, At
  <2>2. /\ x \in Managers /\ x.pc \in ActiveSteps /\ m[p].pc \in ActiveSteps
        /\ x.run = m[p].run /\ x.gen = m[p].gen /\ x.epoch = m[p].epoch
        /\ x.entries = m[p].entries /\ x.floor = m[p].floor
    <3>1. m[p] \in Managers /\ inc \in Nat /\ 0 \in 0..MaxPos /\ "prune" \in ManagerSteps
          /\ "prune" \in ActiveSteps /\ m[p].pc \in ActiveSteps
      BY <1>t, <2>1 DEF ManagerSteps, ActiveSteps
    <3>2. m[p].to \in 0..MaxPos
      BY <3>1 DEF Managers
    <3> QED
      BY <3>1, <3>2 DEF Managers
  <2> HIDE DEF x
  <2> QED
    BY <2>1, <2>2, <1>u, <1>h, <1>r, GoesOn
<1> QED
  BY <1>1, <1>2, <1>3, <1>4, <1>5

(* The events of a run: the marker, an invalidation, a completion.         *)
LEMMA OwnEventsStep ==
    ASSUME StateInv, NEW p \in Procs, MarkInProgress(p) \/ InvalidateSnapshot(p) \/ WriteEvents(p)
    PROVE  /\ StateInv' /\ m[p].pc \in ActiveSteps
           /\ \E es \in SUBSET EventSet :
                 /\ events' = events \cup es
                 /\ \A e \in es : e.gen = m[p].gen
<1>t. /\ StateTypes /\ m[p] \in Managers /\ inc \in Nat /\ MaxPos \in Nat
  BY StateAssumption DEF StateInv, StateTypes
<1>f. m[p].epoch \in Nat /\ m[p].bound \in Nat /\ m[p].to \in 0..MaxPos
      /\ m[p].gen \in Nat /\ m[p].run \in Nat
  BY <1>t DEF Managers
<1>u. UNCHANGED <<ids, inc, rows, holder>>
  BY DEF MarkInProgress, InvalidateSnapshot, WriteEvents
<1>h. /\ inc' \in 1..(MaxReplacements + 1) /\ rows' \in SUBSET Positions
      /\ holder' \in Procs \cup {Nobody}
  BY <1>t, <1>u DEF StateTypes
<1>e. \A k \in {"snapshot", "destination", "checkpoint"}, q \in 0..MaxPos, ep \in Nat, j \in Nat :
          /\ Event(m[p].gen, m[p].run, k, q, ep, j) \in EventSet
          /\ Event(m[p].gen, m[p].run, k, q, ep, j).gen = m[p].gen
          /\ Event(m[p].gen, m[p].run, k, q, ep, j).run = m[p].run
          /\ Event(m[p].gen, m[p].run, k, q, ep, j).kind # "run"
          /\ Event(m[p].gen, m[p].run, k, q, ep, j).epoch = ep
  BY <1>f DEF Event, EventSet, EventKinds
<1>1. CASE MarkInProgress(p)
  <2> DEFINE es == {Event(m[p].gen, m[p].run, "snapshot", 0, 0, 0)}
             x == [m[p] EXCEPT !.pc = "prune", !.entries = @ \cup es]
  <2>1. m[p].pc = "mark" /\ Becomes(p, x) /\ events' = events \cup es
    BY <1>1 DEF MarkInProgress, At, Store
  <2>2. es \in SUBSET EventSet /\ \A e \in es :
            e.gen = m[p].gen /\ e.run = m[p].run /\ e.kind # "run" /\ e.epoch <= m[p].epoch
    <3> DEFINE e0 == Event(m[p].gen, m[p].run, "snapshot", 0, 0, 0)
    <3>1. "snapshot" \in {"snapshot", "destination", "checkpoint"} /\ 0 \in 0..MaxPos
          /\ 0 \in Nat /\ 0 <= m[p].epoch
      BY <1>f, <1>t
    <3>2. e0 \in EventSet /\ e0.gen = m[p].gen /\ e0.run = m[p].run /\ e0.kind # "run"
          /\ e0.epoch = 0
      BY <1>e, <3>1
    <3>3. es = {e0}
      OBVIOUS
    <3> HIDE DEF e0, es
    <3> QED
      BY <3>1, <3>2, <3>3
  <2> HIDE DEF es
  <2>3. /\ x \in Managers /\ x.pc \in ActiveSteps /\ m[p].pc \in ActiveSteps
        /\ x.run = m[p].run /\ x.gen = m[p].gen /\ x.epoch = m[p].epoch
        /\ x.entries = m[p].entries \cup es /\ x.floor = m[p].floor
    <3>1. m[p] \in Managers /\ "prune" \in ManagerSteps /\ "prune" \in ActiveSteps
          /\ m[p].pc \in ActiveSteps
      BY <1>t, <2>1 DEF ManagerSteps, ActiveSteps
    <3> QED
      BY <3>1, <2>2 DEF Managers
  <2> HIDE DEF x
  <2>4. StateInv'
    BY <2>1, <2>2, <2>3, <1>f, <1>u, <1>h, Adds
  <2> QED
    BY <2>1, <2>2, <2>3, <2>4
<1>2. CASE InvalidateSnapshot(p)
  <2> DEFINE e1 == Event(m[p].gen, m[p].run, "snapshot", 0, m[p].epoch + 1, 0)
             x == [m[p] EXCEPT !.pc = "write", !.epoch = @ + 1, !.entries = @ \cup {e1},
                               !.known = 0, !.knownInc = 0, !.bound = 0]
  <2>1. m[p].pc = "invalidate" /\ Becomes(p, x) /\ events' = events \cup {e1}
    BY <1>2 DEF InvalidateSnapshot, At
  <2>2. e1 \in EventSet /\ e1.gen = m[p].gen /\ e1.run = m[p].run /\ e1.kind # "run"
        /\ e1.epoch = m[p].epoch + 1
    <3>1. "snapshot" \in {"snapshot", "destination", "checkpoint"} /\ 0 \in 0..MaxPos
          /\ m[p].epoch + 1 \in Nat /\ 0 \in Nat
      BY <1>f, <1>t
    <3> QED
      BY <3>1, <1>e
  <2> HIDE DEF e1
  <2>3. /\ x \in Managers /\ x.pc \in ActiveSteps /\ m[p].pc \in ActiveSteps
        /\ x.run = m[p].run /\ x.gen = m[p].gen /\ x.epoch = m[p].epoch + 1
        /\ x.entries = m[p].entries \cup {e1} /\ x.floor = m[p].floor
    <3>1. m[p] \in Managers /\ "write" \in ManagerSteps /\ "write" \in ActiveSteps
          /\ m[p].pc \in ActiveSteps /\ m[p].epoch + 1 \in Nat
      BY <1>t, <1>f, <2>1 DEF ManagerSteps, ActiveSteps
    <3> QED
      BY <3>1, <2>2 DEF Managers
  <2> HIDE DEF x
  <2>4. {e1} \in SUBSET EventSet /\ m[p].epoch <= x.epoch /\ \A e \in {e1} :
            e.gen = m[p].gen /\ e.run = m[p].run /\ e.kind # "run" /\ e.epoch <= x.epoch
    BY <2>2, <2>3, <1>f
  <2>5. StateInv'
    BY <2>1, <2>3, <2>4, <1>u, <1>h, Adds
  <2> QED
    BY <2>1, <2>3, <2>4, <2>5
<1>3. CASE WriteEvents(p)
  <2> DEFINE cp == {Event(m[p].gen, m[p].run, "checkpoint", m[p].to, 0, 0)}
             done == {Event(m[p].gen, m[p].run, "snapshot", Completes(p), m[p].epoch, 0),
                      Event(m[p].gen, m[p].run, "destination", Completes(p), m[p].epoch, m[p].bound)}
             es == cp \cup IF Completes(p) = 0 THEN {} ELSE done
             x == [m[p] EXCEPT !.pc = "recheck", !.entries = @ \cup es, !.known = 0]
  <2>1. m[p].pc = "save" /\ Becomes(p, x) /\ events' = events \cup es
    BY <1>3 DEF WriteEvents, At
  <2>c. Completes(p) \in 0..MaxPos
    BY <1>t, <1>f DEF Completes
  <2>2. \A e \in cp \cup done : /\ e \in EventSet
            /\ e.gen = m[p].gen /\ e.run = m[p].run /\ e.kind # "run" /\ e.epoch <= m[p].epoch
    <3>1. \A e \in cp : /\ e \in EventSet
              /\ e.gen = m[p].gen /\ e.run = m[p].run /\ e.kind # "run" /\ e.epoch <= m[p].epoch
      BY <1>e, <1>f
    <3>2. \A e \in done : /\ e \in EventSet
              /\ e.gen = m[p].gen /\ e.run = m[p].run /\ e.kind # "run" /\ e.epoch <= m[p].epoch
      <4> DEFINE sn == Event(m[p].gen, m[p].run, "snapshot", Completes(p), m[p].epoch, 0)
                 ds == Event(m[p].gen, m[p].run, "destination", Completes(p), m[p].epoch, m[p].bound)
      <4>0. m[p].epoch <= m[p].epoch /\ 0 \in Nat
        BY <1>f
      <4>1. sn \in EventSet /\ sn.gen = m[p].gen /\ sn.run = m[p].run /\ sn.kind # "run"
            /\ sn.epoch = m[p].epoch
        <5>1. "snapshot" \in {"snapshot", "destination", "checkpoint"}
          OBVIOUS
        <5> QED
          BY <5>1, <1>e, <1>f, <2>c, <4>0
      <4>2. ds \in EventSet /\ ds.gen = m[p].gen /\ ds.run = m[p].run /\ ds.kind # "run"
            /\ ds.epoch = m[p].epoch
        BY <1>f, <2>c DEF Event, EventSet, EventKinds
      <4>3. done = {sn, ds}
        OBVIOUS
      <4> HIDE DEF sn, ds, done
      <4> QED
        BY <4>0, <4>1, <4>2, <4>3
    <3> QED
      BY <3>1, <3>2
  <2>3. es \in SUBSET EventSet /\ \A e \in es :
            e.gen = m[p].gen /\ e.run = m[p].run /\ e.kind # "run" /\ e.epoch <= m[p].epoch
    <3> HIDE DEF cp, done
    <3> QED
      BY <2>2
  <2> HIDE DEF es
  <2>4. /\ x \in Managers /\ x.pc \in ActiveSteps /\ m[p].pc \in ActiveSteps
        /\ x.run = m[p].run /\ x.gen = m[p].gen /\ x.epoch = m[p].epoch
        /\ x.entries = m[p].entries \cup es /\ x.floor = m[p].floor
    <3>1. m[p] \in Managers /\ "recheck" \in ManagerSteps /\ "recheck" \in ActiveSteps
          /\ m[p].pc \in ActiveSteps
      BY <1>t, <2>1 DEF ManagerSteps, ActiveSteps
    <3> QED
      BY <3>1, <2>3 DEF Managers
  <2> HIDE DEF x
  <2>5. StateInv'
    BY <2>1, <2>3, <2>4, <1>f, <1>u, <1>h, Adds
  <2> QED
    BY <2>1, <2>3, <2>4, <2>5
<1> QED
  BY <1>1, <1>2, <1>3

(* The latest generation that a run began bounds those that runs began.    *)
LEMMA FenceGenType ==
    ASSUME StateTypes
    PROVE  FenceGen \in 0..ids /\ \A e \in LatestRuns : e.gen <= FenceGen
<1>1. LatestRuns \in SUBSET events
  BY DEF LatestRuns
<1> QED
  BY <1>1, Generations DEF FenceGen

(* A generation above both its own and the latest is within the count. *)
LEMMA LargerGeneration ==
    ASSUME StateTypes, NEW g \in 0..ids
    PROVE  Max({g, FenceGen}) \in 0..ids
<1>1. {g, FenceGen} \in SUBSET (0..ids) /\ {g, FenceGen} # {} /\ ids \in Nat
  BY FenceGenType DEF StateTypes
<1> QED
  BY <1>1, MaxInSet

(* A run that lost its generation forgets what it knows, ... *)
LEMMA FenceLostStep == ASSUME StateInv, NEW p \in Procs, FenceLost(p) PROVE StateInv'
<1> DEFINE f == Max({m[p].gen, FenceGen})
           x == [Off EXCEPT !.pc = "supersede", !.gen = m[p].gen, !.run = m[p].run, !.floor = f]
<1>t. /\ StateTypes /\ m[p] \in Managers /\ UNCHANGED <<events, inc, rows, ids, holder>>
      /\ Becomes(p, x)
  BY DEF StateInv, StateTypes, FenceLost
<1>1. m[p].gen \in 0..ids /\ m[p].run \in Nat /\ f \in 0..ids /\ ids \in Nat
  <2>1. m[p].gen \in 0..ids /\ m[p].run \in Nat /\ ids \in Nat
    BY <1>t DEF Managers, StateTypes
  <2> QED
    BY <1>t, <2>1, LargerGeneration
<1> HIDE DEF f
<1>2. /\ x \in Managers /\ x.pc = "supersede" /\ x.run = m[p].run /\ x.gen = m[p].gen
      /\ x.entries = {} /\ x.floor = f
  <2>1. "supersede" \in ManagerSteps /\ m[p].gen \in Nat /\ m[p].run \in Nat /\ f \in Nat
        /\ MaxPos \in Nat
    BY <1>1, StateAssumption DEF ManagerSteps
  <2>2. Off \in Managers
    BY <2>1 DEF Managers, ManagerSteps, Off
  <2>3. Off.entries = {}
    BY DEF Off
  <2> QED
    BY <2>1, <2>2, <2>3 DEF Managers
<1> HIDE DEF x
<1>3. m'[p] = x
  BY <1>t DEF StateTypes, Becomes
<1>4. Knows(p)'
  BY <1>2, <1>3 DEF Knows, ActiveSteps
<1>5. Counted(events)'
  BY <1>t DEF StateTypes, Counted
<1> QED
  BY <1>t, <1>1, <1>2, <1>4, <1>5, ManagerStep DEF StateTypes

(* ... writes a run event with an id that nobody has, ... *)
LEMMA SupersedeStep == ASSUME StateInv, NEW p \in Procs, Supersede(p) PROVE StateInv'
<1> DEFINE e == Event(m[p].floor + 1, ids', "run", 0, 0, 0)
           x == [m[p] EXCEPT !.pc = "verify", !.run = ids', !.floor = @ + 1, !.attempt = @ + 1]
<1>t. /\ StateTypes /\ m[p] \in Managers /\ ids' = ids + 1
      /\ UNCHANGED <<inc, rows, holder>> /\ Becomes(p, x) /\ events' = events \cup {e}
  BY DEF StateInv, StateTypes, Supersede
<1>1. ids \in Nat /\ m[p].gen <= ids /\ m[p].floor <= ids
      /\ m[p].floor \in Nat /\ m[p].gen \in Nat /\ m[p].attempt \in Nat
  BY <1>t DEF StateTypes, Managers
<1>2. e \in EventSet /\ e.gen = m[p].floor + 1 /\ e.run = ids + 1 /\ e.kind = "run" /\ e.pos = 0
  BY <1>t, <1>1, StateAssumption DEF Event, EventSet, EventKinds
<1>3. x \in Managers /\ x.pc = "verify" /\ x.run = ids + 1 /\ x.gen = m[p].gen
      /\ x.floor = m[p].floor + 1 /\ x.entries = m[p].entries
  <2>1. m[p] \in Managers /\ "verify" \in ManagerSteps /\ ids' \in Nat /\ ids' = ids + 1
        /\ m[p].floor + 1 \in Nat /\ m[p].attempt + 1 \in Nat
    BY <1>t, <1>1 DEF ManagerSteps
  <2> QED
    BY <2>1 DEF Managers
<1>4. m'[p] = x
  BY <1>t DEF StateTypes, Becomes
<1> HIDE DEF x
<1>5. Knows(p)'
  BY <1>3, <1>4 DEF Knows, ActiveSteps
<1>6. Counted(events)'
  BY <1>t, <1>1, <1>2 DEF StateTypes, Counted, EventSet
<1> HIDE DEF e
<1>7. x.gen <= ids' /\ x.floor <= ids' /\ x.run = ids + 1 /\ x.entries \subseteq m[p].entries \cup events'
  BY <1>t, <1>1, <1>3
<1> QED
  BY <1>t, <1>2, <1>3, <1>5, <1>6, <1>7, ManagerStep DEF StateTypes

(* ... and ends or tries again. *)
LEMMA VerifyStep == ASSUME StateInv, NEW p \in Procs, Verify(p) PROVE StateInv'
<1>u. UNCHANGED <<keyless, events, inc, rows, ids>>
  BY DEF Verify
<1>1. CASE Ends(p)
  BY <1>1, <1>u, Leaves
<1>2. CASE ~Ends(p)
  <2> DEFINE f == Max({m[p].floor, FenceGen})
             x == [m[p] EXCEPT !.pc = "supersede", !.floor = f]
  <2>t. StateTypes /\ m[p] \in Managers /\ Becomes(p, x) /\ UNCHANGED holder
    BY <1>2 DEF StateInv, StateTypes, Verify
  <2>1. m[p].floor \in 0..ids /\ ids \in Nat /\ f \in 0..ids /\ m[p].gen <= ids
    <3>1. m[p].floor \in 0..ids /\ ids \in Nat /\ m[p].gen <= ids
      BY <2>t DEF Managers, StateTypes
    <3> QED
      BY <2>t, <3>1, LargerGeneration
  <2> HIDE DEF f
  <2>2. x \in Managers /\ x.pc = "supersede" /\ x.run = m[p].run /\ x.gen = m[p].gen
        /\ x.floor = f /\ x.entries = m[p].entries
    <3>1. m[p] \in Managers /\ "supersede" \in ManagerSteps /\ f \in Nat
      BY <2>t, <2>1 DEF ManagerSteps
    <3> QED
      BY <3>1 DEF Managers
  <2>3. m'[p] = x
    BY <2>t DEF StateTypes, Becomes
  <2> HIDE DEF x
  <2>4. Knows(p)'
    BY <2>2, <2>3 DEF Knows, ActiveSteps
  <2>5. Counted(events)'
    BY <2>t, <1>u DEF StateTypes, Counted
  <2> QED
    BY <2>t, <2>1, <2>2, <2>4, <2>5, <1>u, ManagerStep DEF StateTypes
<1> QED
  BY <1>1, <1>2

(* A run that ends leaves what the others know. *)
LEMMA EndStep ==
    ASSUME StateInv, NEW p \in Procs,
           BindRefused(p) \/ WriteRefused(p) \/ CaptureRefused(p) \/ RecheckRefused(p) \/ NoticeLoss(p)
    PROVE  StateInv'
<1>1. Refuses(p)
  BY DEF BindRefused, WriteRefused, CaptureRefused, RecheckRefused, NoticeLoss
<1> QED
  BY <1>1, Leaves DEF Refuses

(* What befalls the lease and the table. *)
LEMMA OutsideStep ==
    ASSUME StateInv, (\E p \in Procs : LoseSession(p)) \/ Replace \/ UNCHANGED vars
    PROVE  StateInv' /\ UNCHANGED events
<1>u. UNCHANGED <<events, ids, m>>
  BY DEF LoseSession, Replace, vars
<1>1. inc' \in 1..(MaxReplacements + 1) /\ rows' \in SUBSET Positions /\ holder' \in Procs \cup {Nobody}
  BY StateAssumption DEF StateInv, StateTypes, LoseSession, Replace, vars
<1>2. StateTypes'
  BY <1>u, <1>1 DEF StateInv, StateTypes, Counted
<1>3. (\A p \in Procs : Knows(p)') /\ RunIdsDiffer'
  BY <1>u DEF StateInv, Knows, RunIdsDiffer, Own, Higher, RunEvent
<1> QED
  BY <1>u, <1>2, <1>3 DEF StateInv

----------------------------------------------------------------------------
(* Pruning. *)

(* Of a run's own events of a kind, one that is preferred to those that go *)
(* stays.                                                                  *)
LEMMA KeptIsPreferred ==
    ASSUME StateInv, NEW p \in Procs, m[p].pc \in ActiveSteps,
           NEW d \in superseded(p), d.gen = m[p].gen
    PROVE  \E c \in m[p].entries \ superseded(p) :
               c.gen = m[p].gen /\ c.kind = d.kind /\ Prefers(c, d)
<1> DEFINE own == {e \in m[p].entries : e.gen = m[p].gen /\ e.run = m[p].run}
           kept == {e \in own : ~\E c \in own : c.kind = e.kind /\ Prefers(c, e)}
           K == {e \in own : e.kind = d.kind}
<1>1. superseded(p) = m[p].entries \ kept
  BY DEF superseded
<1>t. m[p] \in Managers /\ Knows(p) /\ MaxPos \in Nat
  BY StateAssumption DEF StateInv, StateTypes
<1>2. d \in own /\ d \notin kept /\ d \in K
  <2>1. d \in m[p].entries /\ d \notin kept
    BY <1>1
  <2>2. d.run = m[p].run
    <3>1. d.gen \in Nat
      BY <1>t, <2>1 DEF Managers, EventSet
    <3> QED
      BY <1>t, <2>1, <3>1 DEF Knows
  <2> QED
    BY <2>1, <2>2
<1>3. \A e \in own : e.pos \in 0..MaxPos /\ e.epoch \in 0..m[p].epoch /\ m[p].epoch \in Nat
  <2> TAKE e \in own
  <2>1. e \in EventSet /\ e \in m[p].entries /\ m[p].epoch \in Nat /\ e.gen = m[p].gen
    BY <1>t DEF Managers
  <2>2. e.gen \in Nat /\ e.epoch \in Nat /\ e.pos \in 0..MaxPos
    BY <2>1 DEF EventSet
  <2>3. e.epoch <= m[p].epoch
    BY <1>t, <2>1, <2>2 DEF Knows
  <2> QED
    BY <2>1, <2>2, <2>3
<1>4. SUFFICES ASSUME NEW c \in own, c.kind = d.kind, Prefers(c, d),
                      \A z \in K : ~Prefers(z, c)
               PROVE  \E y \in m[p].entries \ superseded(p) :
                          y.gen = m[p].gen /\ y.kind = d.kind /\ Prefers(y, d)
  <2>1. PICK b \in own : b.kind = d.kind /\ Prefers(b, d)
    BY <1>2
  <2> DEFINE top(F) == {f \in F : \A g \in F : g.pos <= f.pos}
  <2>2. CASE d.kind \in {"snapshot", "destination"}
    <3> DEFINE Es == {e.epoch : e \in K}
               E == Max(Es)
               L == {e \in K : e.epoch = E}
               Ps == {e.pos : e \in L}
    <3>1. Es \in SUBSET (0..m[p].epoch) /\ Es # {} /\ m[p].epoch \in Nat
      BY <1>2, <1>3
    <3>2. E \in Es /\ \A y \in Es : y <= E
      <4> HIDE DEF Es
      <4> QED
        BY <3>1, MaxInSet
    <3> HIDE DEF E
    <3>3. Ps \in SUBSET (0..MaxPos) /\ Ps # {}
      <4>1. PICK e \in K : e.epoch = E
        BY <3>2
      <4>2. e \in L /\ e.pos \in Ps
        BY <4>1
      <4> QED
        BY <4>2, <1>3
    <3>4. Max(Ps) \in Ps /\ \A y \in Ps : y <= Max(Ps)
      <4> HIDE DEF Ps
      <4> QED
        BY <3>3, <1>t, MaxInSet
    <3>5. PICK c \in L : c.pos = Max(Ps)
      BY <3>4
    <3>6. \A z \in K : z.epoch <= c.epoch /\ (z.epoch = c.epoch => z.pos <= c.pos)
      <4> TAKE z \in K
      <4>1. z.epoch \in Es /\ c.epoch = E
        BY <3>5
      <4>2. z.epoch = E => z.pos \in Ps
        OBVIOUS
      <4> HIDE DEF Es, Ps
      <4> QED
        BY <4>1, <4>2, <3>2, <3>4, <3>5
    <3>7. c \in own /\ c.kind = d.kind /\ c \in K
      BY <3>5
    <3>8. \A z \in K : z.epoch \in Nat /\ z.pos \in Nat
      BY <1>3
    <3> HIDE DEF L, Es, Ps
    <3>9. \A z \in K : ~Prefers(z, c)
      BY <3>6, <3>7, <3>8, <2>2 DEF Prefers
    <3>10. Prefers(c, d)
      <4>1. b \in K /\ b.epoch <= c.epoch /\ (b.epoch = c.epoch => b.pos <= c.pos)
        BY <2>1, <3>6
      <4> QED
        BY <4>1, <2>1, <2>2, <3>7, <3>8, <1>2 DEF Prefers
    <3> QED
      BY <3>7, <3>9, <3>10, <1>4
  <2>3. CASE d.kind \notin {"snapshot", "destination"}
    <3> DEFINE Ps == {e.pos : e \in K}
    <3>1. Ps \in SUBSET (0..MaxPos) /\ Ps # {}
      BY <1>2, <1>3
    <3>2. Max(Ps) \in Ps /\ \A y \in Ps : y <= Max(Ps)
      <4> HIDE DEF Ps
      <4> QED
        BY <3>1, <1>t, MaxInSet
    <3>3. PICK c \in K : c.pos = Max(Ps)
      BY <3>2
    <3>4. \A z \in K : z.pos <= c.pos
      <4>1. \A z \in K : z.pos \in Ps
        OBVIOUS
      <4> HIDE DEF Ps
      <4> QED
        BY <4>1, <3>2, <3>3
    <3>5. c \in own /\ c.kind = d.kind
      BY <3>3
    <3>6. \A z \in K : z.pos \in Nat
      BY <1>3
    <3>7. \A z \in K : ~Prefers(z, c)
      BY <3>4, <3>5, <3>6, <3>3, <2>3 DEF Prefers
    <3>8. Prefers(c, d)
      <4>1. b \in K /\ b.pos <= c.pos
        BY <2>1, <3>4
      <4> QED
        BY <4>1, <2>1, <2>3, <3>3, <3>5, <3>6, <1>2 DEF Prefers
    <3> QED
      BY <3>5, <3>7, <3>8, <1>4
  <2> QED
    BY <2>2, <2>3
<1>5. c \in kept
  BY <1>4
<1> QED
  BY <1>1, <1>4, <1>5

(* The event that a run began with stays. *)
LEMMA RunEventStays ==
    ASSUME StateInv, NEW p \in Procs, m[p].pc \in ActiveSteps
    PROVE  /\ RunEvent(p) \in m[p].entries \ superseded(p)
           /\ RunEvent(p).gen = m[p].gen /\ RunEvent(p).run = m[p].run
           /\ RunEvent(p) \in Own(p)
<1> DEFINE own == {e \in m[p].entries : e.gen = m[p].gen /\ e.run = m[p].run}
           kept == {e \in own : ~\E c \in own : c.kind = e.kind /\ Prefers(c, e)}
           r == RunEvent(p)
<1>1. r \in m[p].entries /\ \A e \in m[p].entries : e.kind = "run" => e.pos = 0
  BY DEF StateInv, StateTypes, Knows, Counted
<1>2. r.gen = m[p].gen /\ r.run = m[p].run /\ r.kind = "run" /\ r.pos = 0
  BY DEF RunEvent, Event
<1>3. r \in own
  BY <1>1, <1>2
<1>4. \A c \in own : c.kind = r.kind => ~Prefers(c, r)
  BY <1>1, <1>2 DEF Prefers
<1>5. r \in kept
  BY <1>3, <1>4
<1>6. superseded(p) = m[p].entries \ kept
  BY DEF superseded
<1> QED
  BY <1>1, <1>2, <1>3, <1>5, <1>6 DEF Own

(* What one batch of a deletion takes away. *)
LEMMA PruneEffect ==
    ASSUME StateInv, NEW p \in Procs, Prune(p)
    PROVE  /\ m[p].pc = "prune"
           /\ \E del \in SUBSET superseded(p), b \in BOOLEAN, s \in {"prune", "stream"} :
                 /\ events' = events \ del
                 /\ Becomes(p, [m[p] EXCEPT !.entries = @ \ del, !.due = b, !.pc = s])
           /\ UNCHANGED <<inc, rows, holder, ids>>
<1> DEFINE del == NextBatch(p)
           more == del # {} /\ del # superseded(p)
           s == IF more THEN "prune" ELSE "stream"
<1>1. /\ m[p].pc = "prune" /\ UNCHANGED <<inc, rows, holder, ids>>
      /\ \/ /\ events' = events \ del
            /\ Becomes(p, [m[p] EXCEPT !.entries = @ \ del, !.due = more, !.pc = s])
         \/ /\ events' = events
            /\ Becomes(p, [m[p] EXCEPT !.due = TRUE, !.pc = "stream"])
  BY DEF Prune, At
<1>2. del \in SUBSET superseded(p)
  BY DEF NextBatch
<1>3. more \in BOOLEAN /\ s \in {"prune", "stream"}
  OBVIOUS
<1> HIDE DEF del, more, s
<1>4. CASE /\ events' = events \ del
           /\ Becomes(p, [m[p] EXCEPT !.entries = @ \ del, !.due = more, !.pc = s])
  BY <1>1, <1>2, <1>3, <1>4
<1>5. CASE /\ events' = events
           /\ Becomes(p, [m[p] EXCEPT !.due = TRUE, !.pc = "stream"])
  <2> DEFINE x == [m[p] EXCEPT !.entries = @ \ {}, !.due = TRUE, !.pc = "stream"]
             y == [m[p] EXCEPT !.due = TRUE, !.pc = "stream"]
  <2>1. m[p].entries \ {} = m[p].entries /\ m[p] \in Managers
    BY DEF StateInv, StateTypes
  <2>2. x = y
    BY <2>1 DEF Managers
  <2>3. {} \in SUBSET superseded(p) /\ events' = events \ {}
    BY <1>5
  <2> HIDE DEF x, y
  <2>4. Becomes(p, x)
    BY <1>5, <2>2 DEF y
  <2> QED
    BY <1>1, <2>3, <2>4 DEF x
<1> QED
  BY <1>1, <1>4, <1>5

(* A run prunes nothing that is of a later generation, or of another run   *)
(* of its own.                                                             *)
LEMMA PruneStep ==
    ASSUME StateInv, NEW p \in Procs, Prune(p)
    PROVE  StateInv' /\ Answer' = Answer
<1>0. PICK del \in SUBSET superseded(p), b \in BOOLEAN, s \in {"prune", "stream"} :
          /\ events' = events \ del
          /\ Becomes(p, [m[p] EXCEPT !.entries = @ \ del, !.due = b, !.pc = s])
  BY PruneEffect
<1> DEFINE x == [m[p] EXCEPT !.entries = @ \ del, !.due = b, !.pc = s]
<1>t. /\ StateTypes /\ m[p] \in Managers /\ Knows(p) /\ m[p].pc \in ActiveSteps
      /\ UNCHANGED <<inc, rows, holder, ids>> /\ events \in SUBSET EventSet
  BY PruneEffect DEF StateInv, StateTypes, ActiveSteps
<1>1. /\ x \in Managers /\ x.pc = s /\ x.run = m[p].run /\ x.gen = m[p].gen /\ x.epoch = m[p].epoch
      /\ x.entries = m[p].entries \ del /\ x.floor = m[p].floor
  <2>1. s \in ManagerSteps /\ m[p] \in Managers
    BY <1>t DEF ManagerSteps, ActiveSteps
  <2> QED
    BY <2>1 DEF Managers
<1> HIDE DEF x
<1>2. m'[p] = x /\ \A q \in Procs : q # p => m'[q] = m[q]
  BY <1>0, <1>t DEF StateTypes, Becomes, x
<1>p. PICK g, r : g = m[p].gen /\ r = RunEvent(p)
  OBVIOUS
<1>3. r \in m[p].entries \ del /\ r.gen = g /\ r.run = m[p].run /\ r \in Own(p)
  BY <1>p, <1>t, RunEventStays
<1>4. \A e \in del : e \in m[p].entries /\ (e.gen < g \/ (e.gen = g /\ e.run = m[p].run))
  BY <1>p, <1>t DEF Knows, superseded
<1>g. g \in Nat /\ (\A e \in events : e.gen \in Nat) /\ \A e \in del : e.gen \in Nat
  <2>1. m[p].entries \in SUBSET EventSet
    BY <1>t DEF Managers
  <2> QED
    BY <1>p, <1>t, <1>4, <2>1 DEF Managers, EventSet
<1>5. \A e \in events : e.gen > g => e \in events'
  BY <1>0, <1>4, <1>g
<1>6. r \in events' \/ Higher(g)'
  <2>1. r \in events \/ Higher(g)
    BY <1>p, <1>3, <1>t DEF Knows
  <2>2. Higher(g) => Higher(g)'
    BY <1>5 DEF Higher
  <2> QED
    BY <1>0, <1>3, <2>1, <2>2
<1>7. StateInv'
  <2>1. StateTypes'
    <3>1. m' \in [Procs -> Managers]
      BY <1>1, <1>2, <1>0, <1>t DEF StateTypes, Becomes, x
    <3>2. \A q \in Procs : /\ m'[q].run = m[q].run /\ m'[q].gen = m[q].gen /\ m'[q].floor = m[q].floor
                           /\ m'[q].entries \subseteq m[q].entries
      BY <1>1, <1>2
    <3>3. events' \subseteq events
      BY <1>0
    <3> QED
      BY <3>1, <3>2, <3>3, <1>t DEF StateTypes, Counted
  <2>2. ASSUME NEW q \in Procs PROVE Knows(q)'
    <3>1. CASE q = p
      <4>1. m'[p].pc \notin {"off", "load", "begin"}
        BY <1>1, <1>2
      <4>2. RunEvent(p)' = r /\ r \in m'[p].entries
        BY <1>p, <1>1, <1>2, <1>3 DEF RunEvent
      <4>3. \A e \in Own(p)' : e \in events' \/ Higher(g)'
        <5> TAKE e \in Own(p)'
        <5>1. e \in Own(p) /\ e \notin del
          BY <1>1, <1>2 DEF Own
        <5>2. e \in events \/ Higher(g)
          BY <5>1, <1>p, <1>t DEF Knows
        <5>3. Higher(g) => Higher(g)'
          BY <1>5 DEF Higher
        <5> QED
          BY <5>1, <5>2, <5>3, <1>0
      <4>4. m[p].run # 0 /\ \A e \in m'[p].entries :
                e.gen < m[p].gen \/ (e.gen = m[p].gen /\ e.run = m[p].run /\ e.epoch <= m[p].epoch)
        BY <1>1, <1>2, <1>t DEF Knows
      <4> QED
        BY <3>1, <4>1, <4>2, <4>3, <4>4, <1>p, <1>1, <1>2 DEF Knows
    <3>2. CASE q # p
      <4>1. m'[q] = m[q] /\ Knows(q) /\ m[q] \in Managers
        BY <3>2, <1>2 DEF StateInv, StateTypes
      <4>q. PICK h \in Nat : h = m[q].gen
        BY <4>1 DEF Managers
      <4>2. SUFFICES ASSUME m[q].pc \in ActiveSteps, NEW e \in Own(q)
                     PROVE  e \in events' \/ Higher(h)'
        BY <4>1, <4>q DEF Knows, RunEvent, Own
      <4>3. Higher(h) => Higher(h)' \/ h < g
        <5> SUFFICES ASSUME NEW y \in events, y.gen > h, ~(h < g)
                     PROVE  Higher(h)'
          BY DEF Higher
        <5>1. y.gen > g
          BY <1>g
        <5> QED
          BY <5>1, <1>5 DEF Higher
      <4>4. h < g => Higher(h)'
        <5>1. SUFFICES ASSUME h < g PROVE Higher(h)'
          OBVIOUS
        <5>2. CASE r \in events'
          BY <5>1, <5>2, <1>3 DEF Higher
        <5>3. CASE Higher(g)'
          <6>1. PICK y \in events' : y.gen > g
            BY <5>3 DEF Higher
          <6>2. y.gen \in Nat
            BY <6>1, <1>0, <1>g
          <6> QED
            BY <5>1, <6>1, <6>2, <1>g DEF Higher
        <5> QED
          BY <5>2, <5>3, <1>6
      <4>5. e \in del => h < g
        <5>1. m[q].run # 0 /\ m[q].run # m[p].run
          BY <3>2, <4>1, <4>2 DEF Knows, StateInv, RunIdsDiffer
        <5>2. e.gen = h /\ e.run = m[q].run
          BY <4>q DEF Own
        <5> QED
          BY <5>1, <5>2, <1>4
      <4>6. e \in events \/ Higher(h)
        BY <4>1, <4>2, <4>q DEF Knows
      <4> QED
        BY <4>3, <4>4, <4>5, <4>6, <1>0
    <3> QED
      BY <3>1, <3>2
  <2>3. RunIdsDiffer'
    <3>1. \A q \in Procs : m'[q].run = m[q].run
      BY <1>1, <1>2
    <3> QED
      BY <3>1 DEF StateInv, RunIdsDiffer
  <2> QED
    BY <2>1, <2>2, <2>3 DEF StateInv
<1>8. ResumePosition(events', inc) = ResumePosition(events, inc)
  <2>1. CASE Higher(g)
    <3>1. PICK y \in events : y.gen > g
      BY <2>1 DEF Higher
    <3>2. y \in events'
      BY <3>1, <1>5
    <3>3. \A z \in events : z.gen >= y.gen => z \in events'
      BY <3>1, <1>5, <1>g
    <3>4. events' \in SUBSET EventSet /\ \A z \in events' : z \in events
      BY <1>0, <1>t
    <3>5. y \in events \cap events'
      BY <3>2
    <3> QED
      BY <3>3, <3>4, <3>5, <1>t, SameFrom
  <2>2. CASE ~Higher(g)
    <3>1. r \in events /\ r \in events'
      BY <2>2, <1>p, <1>0, <1>3, <1>t DEF Knows
    <3>2. \A z \in events : z.gen <= g
      BY <2>2, <1>g DEF Higher
    <3>3. events' \in SUBSET events /\ events' \in SUBSET EventSet
      BY <1>0, <1>t
    <3>4. CASE \E z \in events : z.gen = g /\ z.run # m[p].run
      <4>1. PICK z \in events : z.gen = g /\ z.run # m[p].run
        BY <3>4
      <4>2. z \in events'
        BY <4>1, <1>0, <1>4, <1>g
      <4>3. r.gen = z.gen /\ r.run # z.run /\ \A y \in events : y.gen <= r.gen
        BY <4>1, <3>2, <1>3
      <4>4. ResumePosition(events, inc) = 0
        BY <4>3, <3>1, <1>t, Contested
      <4>5. \A y \in events' : y.gen <= r.gen
        BY <4>3, <3>3
      <4>6. ResumePosition(events', inc) = 0
        BY <4>2, <4>3, <4>5, <3>1, <3>3, Contested
      <4> QED
        BY <4>4, <4>6
    <3>5. CASE \A z \in events : z.gen = g => z.run = m[p].run
      <4>1. \A z \in events : z.gen = r.gen /\ z \notin events' =>
                \E c \in events' : c.gen = r.gen /\ c.kind = z.kind /\ Prefers(c, z)
        <5> SUFFICES ASSUME NEW z \in events, z.gen = r.gen, z \notin events'
                     PROVE  \E c \in events' : c.gen = r.gen /\ c.kind = z.kind /\ Prefers(c, z)
          OBVIOUS
        <5>1. z \in superseded(p) /\ z.gen = m[p].gen
          BY <1>p, <1>0, <1>3
        <5>2. PICK c \in m[p].entries \ superseded(p) :
                  c.gen = m[p].gen /\ c.kind = z.kind /\ Prefers(c, z)
          BY <5>1, <1>t, KeptIsPreferred
        <5>3. c \in Own(p)
          BY <5>2, <1>p, <1>t, <1>g DEF Knows, Own
        <5>4. c \in events
          BY <5>3, <2>2, <1>p, <1>t DEF Knows
        <5> QED
          BY <5>2, <5>4, <1>p, <1>0, <1>3
      <4>2. (\A z \in events : z.gen <= r.gen) /\ \A z \in events : z.gen = r.gen => z.run = r.run
        BY <3>2, <3>5, <1>3
      <4> QED
        BY <4>1, <4>2, <3>1, <3>3, <1>t, Preferred
    <3> QED
      BY <3>4, <3>5
  <2> QED
    BY <2>1, <2>2
<1> QED
  BY <1>7, <1>8, <1>t DEF Answer

----------------------------------------------------------------------------
(* Every step keeps the invariant. *)
LEMMA StateNext == ASSUME StateInv, [Next]_vars PROVE StateInv'
<1>1. ASSUME NEW p \in Procs, Acquire(p) \/ Step(p) PROVE StateInv'
  BY <1>1, AcquireStep, LoadStep, BeginRunStep, WorkStep, OwnEventsStep, PruneStep,
     FenceLostStep, SupersedeStep, VerifyStep, EndStep DEF Step
<1>2. CASE (\E p \in Procs : LoseSession(p)) \/ Replace \/ UNCHANGED vars
  BY <1>2, OutsideStep
<1> QED
  BY <1>1, <1>2 DEF Next

(* The invariant holds in every state. *)
LEMMA StateInvariance == Spec => []StateInv
<1>1. Init => StateInv
  BY StateInit
<1>2. StateInv /\ [Next]_vars => StateInv'
  BY StateNext
<1> QED
  BY <1>1, <1>2, PTL DEF Spec

(* The steps that change the state table, and the process that takes them. *)
LEMMA EventSteps ==
    ASSUME StateInv, [Next]_vars, events' # events
    PROVE  \E q \in Procs :
              /\ UNCHANGED inc
              /\ \A p \in Procs : p # q => m'[p] = m[p]
              /\ BeginRun(q) \/ MarkInProgress(q) \/ InvalidateSnapshot(q) \/ WriteEvents(q)
                 \/ Supersede(q) \/ Prune(q)
<1>1. PICK q \in Procs :
          BeginRun(q) \/ MarkInProgress(q) \/ InvalidateSnapshot(q) \/ WriteEvents(q)
          \/ Supersede(q) \/ Prune(q)
  BY ZenonT(60)
     DEF Next, Step, vars, Acquire, Load, Bind, Idle, BindRefused, Truncate, Write, WriteRefused,
         FenceLost, Capture, CaptureRefused, Recheck, RecheckRefused, Verify, NoticeLoss, Refuses,
         LoseSession, Replace
<1>2. UNCHANGED inc
  BY <1>1 DEF BeginRun, MarkInProgress, InvalidateSnapshot, WriteEvents, Supersede, Prune
<1>3. \E x : Becomes(q, x)
  BY <1>1 DEF BeginRun, MarkInProgress, InvalidateSnapshot, WriteEvents, Supersede, Prune, Store
<1>4. \A p \in Procs : p # q => m'[p] = m[p]
  BY <1>3 DEF StateInv, StateTypes, Becomes
<1> QED
  BY <1>1, <1>2, <1>4

(* A run that writes in a generation that is not the latest, or not its    *)
(* own alone, makes nothing resumable.                                     *)
LEMMA OwnEventsInert ==
    ASSUME StateInv, NEW p \in Procs, Overtaken(p), UNCHANGED inc,
           MarkInProgress(p) \/ InvalidateSnapshot(p) \/ WriteEvents(p)
    PROVE  Answer' \in {0, Answer}
<1>1. PICK es \in SUBSET EventSet :
          events' = events \cup es /\ \A e \in es : e.gen = m[p].gen
  BY OwnEventsStep
<1>t. /\ events \in SUBSET EventSet /\ events' \in SUBSET EventSet
      /\ m[p] \in Managers /\ Knows(p) /\ m[p].pc \in ActiveSteps
  BY OwnEventsStep DEF StateInv, StateTypes
<1>g. m[p].gen \in Nat /\ \A e \in events' : e.gen \in Nat
  BY <1>t DEF Managers, EventSet
<1>2. PICK e \in events : e.run # m[p].run /\ e.gen >= m[p].gen
  BY DEF Overtaken
<1>3. CASE Higher(m[p].gen)
  <2>1. PICK y \in events : y.gen > m[p].gen
    BY <1>3 DEF Higher
  <2>2. y \in events \cap events' /\ \A x \in events : x \in events'
    BY <1>1
  <2>3. \A x \in events' : x.gen >= y.gen => x \in events
    BY <1>1, <1>g, <2>1
  <2>4. ResumePosition(events, inc) = ResumePosition(events', inc)
    BY <2>2, <2>3, <1>t, SameFrom
  <2> QED
    BY <2>4 DEF Answer
<1>4. CASE ~Higher(m[p].gen)
  <2>1. \A x \in events' : x.gen <= m[p].gen
    BY <1>1, <1>4, <1>g DEF Higher
  <2>2. e \in events' /\ e.gen = m[p].gen
    BY <1>1, <1>2, <1>g, <2>1
  <2>3. RunEvent(p) \in events' /\ RunEvent(p).gen = m[p].gen /\ RunEvent(p).run = m[p].run
    BY <1>1, <1>4, <1>t, RunEventStays DEF Knows
  <2>4. ResumePosition(events', inc) = 0
    BY <1>2, <1>t, <2>1, <2>2, <2>3, Contested
  <2> QED
    BY <2>4 DEF Answer
<1> QED
  BY <1>3, <1>4

(* The event of nobody leaves nothing to resume, or is of an old           *)
(* generation.                                                             *)
LEMMA SupersedeInert ==
    ASSUME StateInv, NEW p \in Procs, UNCHANGED inc, Supersede(p)
    PROVE  Answer' \in {0, Answer}
<1> DEFINE z == Event(m[p].floor + 1, ids', "run", 0, 0, 0)
<1>1. events' = events \cup {z} /\ ids' = ids + 1
  BY DEF Supersede
<1>2. z.kind = "run" /\ z.run = ids + 1 /\ z.gen = m[p].floor + 1
  BY <1>1 DEF Event
<1> HIDE DEF z
<1>t. /\ events \in SUBSET EventSet /\ events' \in SUBSET EventSet /\ ids \in Nat
      /\ \A e \in events : e.run <= ids
  BY SupersedeStep DEF StateInv, StateTypes, Counted
<1>g. \A e \in events' : e.gen \in Nat /\ e.run \in Nat
  BY <1>t DEF EventSet
<1>3. CASE \E y \in events : y.gen > z.gen
  <2>1. PICK y \in events : y.gen > z.gen
    BY <1>3
  <2>2. y \in events \cap events' /\ \A x \in events : x \in events'
    BY <1>1
  <2>3. \A x \in events' : x.gen >= y.gen => x \in events
    BY <1>1, <1>g, <2>1
  <2>4. ResumePosition(events, inc) = ResumePosition(events', inc)
    BY <2>2, <2>3, <1>t, SameFrom
  <2> QED
    BY <2>4 DEF Answer
<1>4. CASE ~\E y \in events : y.gen > z.gen
  <2>1. ASSUME NEW s \in events', Certifies(events', s, inc) PROVE FALSE
    <3>1. z \in events' /\ z.gen <= s.gen
      BY <1>1, <1>t, <2>1, CertifiedIsLatest
    <3>2. s # z /\ s \in events
      BY <1>1, <1>2, <2>1 DEF Certifies
    <3>3. s.gen = z.gen
      BY <1>4, <1>g, <3>1, <3>2
    <3>4. z.run = s.run
      BY <2>1, <3>1, <3>3 DEF Certifies
    <3> QED
      BY <1>2, <1>t, <1>g, <3>2, <3>4
  <2>2. ResumePosition(events', inc) = 0
    BY <2>1, <1>t, NothingCertified
  <2> QED
    BY <2>2 DEF Answer
<1> QED
  BY <1>3, <1>4

----------------------------------------------------------------------------
(* What runs have written, and what the table holds of it. *)

(* The events that are there, or that some process has read or written. *)
Seen == events \cup UNION {m[p].entries : p \in Procs}
Active(p) == m[p].pc \in ActiveSteps

(* The run that wrote an event has an event of its own, or there is one of *)
(* a later generation.                                                     *)
Begun(x) == \E e \in events : e.kind = "run" /\ (e.gen > x.gen \/ (e.gen = x.gen /\ e.run = x.run))

(* No event speaks of a table that is yet to come. *)
Ledger == \A x \in Seen : x.inc <= inc /\ Begun(x)

(* What a run has written is in its generation and up to where it is, and  *)
(* speaks of no later table than the one it captured.                      *)
OwnEvents(p) == Active(p) => \A x \in Seen : x.run = m[p].run =>
    /\ x.gen = m[p].gen
    /\ x.pos <= IF m[p].pc = "recheck" THEN m[p].to ELSE m[p].from
    /\ m[p].pc \in {"save", "recheck"} => x.inc <= m[p].bound

(* A run resumes because of an event in the latest generation it read. *)
ReadEvents(p) ==
    m[p].pc = "begin" /\ m[p].from # 0 => \E s \in m[p].entries : s.gen = m[p].gen /\ s.pos # 0

(* What a process knows of the incarnation of the table. *)
Pins(p) ==
    /\ m[p].bound <= inc /\ m[p].knownInc <= inc
    /\ Active(p) \/ m[p].pc = "begin" =>
          IF m[p].snap
          THEN /\ m[p].from = 0
               /\ m[p].pc \in {"truncate", "write", "fence", "save", "recheck"} => m[p].bound # 0
          ELSE m[p].knownInc # 0 \/ m[p].bound # 0 \/ (keyless /\ m[p].pc \in {"write", "fence"})
    /\ m[p].pc = "truncate" => m[p].snap
    /\ m[p].pc = "invalidate" => keyless /\ ~m[p].snap
    /\ m[p].pc \in {"save", "recheck"} => m[p].bound # 0 /\ m[p].knownInc \in {0, m[p].bound}
    /\ m[p].pc \in {"truncate", "invalidate", "write", "fence", "save", "recheck"} => m[p].from <= m[p].to

RunsInv == Ledger /\ \A p \in Procs : OwnEvents(p) /\ ReadEvents(p) /\ Pins(p)

(* Another run has begun, in the generation of this one or a later one; or *)
(* in a later one than those that it has read.                             *)
Behind(p) == \E e \in events : e.kind = "run" /\
    IF m[p].pc = "begin" THEN e.gen > m[p].gen ELSE e.run # m[p].run /\ e.gen >= m[p].gen

(* The table holds what a run takes for granted, while no other one has    *)
(* begun and the table is not replaced.                                    *)
Keeps(p) ==
    /\ (Active(p) \/ m[p].pc = "begin") /\ ~Behind(p) /\ ~Replaced(p) =>
          /\ 1..m[p].from \subseteq rows
          /\ m[p].pc \in {"fence", "save", "recheck"} => 1..m[p].to \subseteq rows
    /\ m[p].pc = "invalidate" => ~Replaced(p)

RowsInv == late \/ unpinned \/ (CertifiedRowsPresent /\ \A p \in Procs : Keeps(p))

----------------------------------------------------------------------------
(* What each step makes of the process that takes it. *)
SameRun(p) == m'[p].run = m[p].run /\ m'[p].gen = m[p].gen
SamePin(p) == m'[p].bound = m[p].bound /\ m'[p].knownInc = m[p].knownInc
SameSpan(p) == m'[p].from = m[p].from /\ m'[p].snap = m[p].snap

(* A process changes alone. *)
LEMMA Alone ==
    ASSUME StateInv, NEW p \in Procs, NEW x, Becomes(p, x)
    PROVE  m'[p] = x /\ \A q \in Procs : q # p => m'[q] = m[q]
BY DEF StateInv, StateTypes, Becomes

(* A run begins. *)
LEMMA StartMoves ==
    ASSUME StateInv, NEW p \in Procs
    PROVE  /\ Load(p) =>
                /\ m'[p].pc = "begin" /\ m'[p].entries = events
                /\ m'[p].gen = Max0({e.gen : e \in events})
                /\ m'[p].from = Answer /\ m'[p].snap = (Answer = 0) /\ m'[p].bound = m[p].bound
                /\ m'[p].knownInc = IF Answer = 0 THEN 0 ELSE inc
           /\ BeginRun(p) =>
                /\ m[p].pc = "begin" /\ m'[p].pc = "mark"
                /\ m'[p].gen = m[p].gen + 1 /\ m'[p].run = ids + 1
                /\ m'[p].entries = m[p].entries \cup {Event(m[p].gen + 1, ids + 1, "run", 0, 0, 0)}
                /\ events' = events \cup {Event(m[p].gen + 1, ids + 1, "run", 0, 0, 0)}
                /\ SamePin(p) /\ SameSpan(p)
<1>t. m[p] \in Managers
  BY DEF StateInv, StateTypes
<1>1. ASSUME Load(p)
      PROVE  /\ m'[p].pc = "begin" /\ m'[p].entries = events
             /\ m'[p].gen = Max0({e.gen : e \in events})
             /\ m'[p].from = Answer /\ m'[p].snap = (Answer = 0) /\ m'[p].bound = m[p].bound
             /\ m'[p].knownInc = IF Answer = 0 THEN 0 ELSE inc
  <2> DEFINE g == Max0({e.gen : e \in events})
             n == SnapshotOf(events, inc)
             a == Answer
             x == [m[p] EXCEPT !.pc = "begin", !.entries = events, !.gen = g, !.from = a,
                               !.snap = (a = 0), !.known = n, !.knownInc = IF a = 0 THEN 0 ELSE inc]
  <2>1. Becomes(p, x)
    BY <1>1 DEF Load, Answer
  <2> HIDE DEF g, n, a
  <2>2. m'[p] = x
    BY <2>1, Alone
  <2>3. /\ x.pc = "begin" /\ x.entries = events /\ x.gen = g /\ x.from = a /\ x.snap = (a = 0)
        /\ x.bound = m[p].bound /\ x.knownInc = IF a = 0 THEN 0 ELSE inc
    BY <1>t DEF Managers
  <2> HIDE DEF x
  <2> QED
    BY <2>2, <2>3 DEF g, a
<1>2. ASSUME BeginRun(p)
      PROVE  /\ m[p].pc = "begin" /\ m'[p].pc = "mark"
             /\ m'[p].gen = m[p].gen + 1 /\ m'[p].run = ids + 1
             /\ m'[p].entries = m[p].entries \cup {Event(m[p].gen + 1, ids + 1, "run", 0, 0, 0)}
             /\ events' = events \cup {Event(m[p].gen + 1, ids + 1, "run", 0, 0, 0)}
             /\ SamePin(p) /\ SameSpan(p)
  <2> DEFINE e == Event(m[p].gen + 1, ids + 1, "run", 0, 0, 0)
             x == [m[p] EXCEPT !.pc = "mark", !.gen = @ + 1, !.run = ids', !.entries = @ \cup {e}]
  <2>1. ids' = ids + 1 /\ m[p].pc = "begin" /\ Becomes(p, x) /\ events' = events \cup {e}
    BY <1>2 DEF BeginRun, At
  <2> HIDE DEF e
  <2>2. m'[p] = x
    BY <2>1, Alone
  <2>3. /\ x.pc = "mark" /\ x.gen = m[p].gen + 1 /\ x.run = ids + 1 /\ x.entries = m[p].entries \cup {e}
        /\ x.bound = m[p].bound /\ x.knownInc = m[p].knownInc
        /\ x.from = m[p].from /\ x.snap = m[p].snap
    BY <1>t, <2>1 DEF Managers
  <2> HIDE DEF x
  <2> QED
    BY <2>1, <2>2, <2>3 DEF SamePin, SameSpan, e
<1> QED
  BY <1>1, <1>2

(* A run flushes. *)
LEMMA FlushMoves ==
    ASSUME StateInv, NEW p \in Procs
    PROVE  /\ Bind(p) =>
                /\ m[p].pc = "stream" /\ ~Replaced(p)
                /\ m'[p].entries = m[p].entries /\ SameRun(p) /\ SameSpan(p)
                /\ m'[p].bound = inc /\ m'[p].knownInc = m[p].knownInc /\ (m[p].snap \/ m[p].from < m'[p].to)
                /\ m'[p].pc = IF m[p].snap THEN "truncate" ELSE IF keyless THEN "invalidate" ELSE "write"
           /\ Idle(p) =>
                /\ m[p].pc = "stream" /\ m'[p].pc = "fence" /\ m[p].from = MaxPos /\ m'[p].to = MaxPos
                /\ m'[p].entries = m[p].entries /\ SameRun(p) /\ SameSpan(p) /\ SamePin(p)
           /\ Truncate(p) =>
                /\ m[p].pc = "truncate" /\ m'[p].pc = "write" /\ m'[p].to = m[p].to
                /\ m'[p].entries = m[p].entries /\ SameRun(p) /\ SameSpan(p) /\ SamePin(p)
           /\ Write(p) =>
                /\ m[p].pc = "write" /\ m'[p].pc = "fence" /\ m'[p].to = m[p].to
                /\ m'[p].entries = m[p].entries /\ SameRun(p) /\ SameSpan(p) /\ SamePin(p)
           /\ Capture(p) =>
                /\ m[p].pc = "fence" /\ ~Replaced(p) /\ m'[p].pc = "save" /\ m'[p].to = m[p].to
                /\ m'[p].bound = inc /\ m'[p].knownInc = m[p].knownInc
                /\ m'[p].entries = m[p].entries /\ SameRun(p) /\ SameSpan(p)
           /\ Recheck(p) =>
                /\ m[p].pc = "recheck" /\ inc = m[p].bound /\ m'[p].pc = "prune"
                /\ m'[p].bound = 0 /\ m'[p].knownInc = inc
                /\ m'[p].from = m[p].to /\ m'[p].snap = FALSE
                /\ m'[p].entries = m[p].entries /\ SameRun(p)
<1>t. m[p] \in Managers
  BY DEF StateInv, StateTypes
<1> USE DEF SameRun, SamePin, SameSpan
<1>1. ASSUME Bind(p)
      PROVE  /\ m[p].pc = "stream" /\ ~Replaced(p)
             /\ m'[p].entries = m[p].entries /\ SameRun(p) /\ SameSpan(p)
             /\ m'[p].bound = inc /\ m'[p].knownInc = m[p].knownInc /\ (m[p].snap \/ m[p].from < m'[p].to)
             /\ m'[p].pc = IF m[p].snap THEN "truncate" ELSE IF keyless THEN "invalidate" ELSE "write"
  <2>1. PICK to \in Positions :
            /\ m[p].snap \/ to > m[p].from
            /\ Becomes(p, [m[p] EXCEPT !.bound = inc, !.to = to,
                          !.pc = CASE m[p].snap -> "truncate"
                                   [] ~m[p].snap /\ keyless -> "invalidate"
                                   [] OTHER -> "write"])
    BY <1>1 DEF Bind
  <2> DEFINE next == CASE m[p].snap -> "truncate"
                       [] ~m[p].snap /\ keyless -> "invalidate"
                       [] OTHER -> "write"
             x == [m[p] EXCEPT !.bound = inc, !.to = to, !.pc = next]
  <2>2. next = IF m[p].snap THEN "truncate" ELSE IF keyless THEN "invalidate" ELSE "write"
    OBVIOUS
  <2>3. m[p].pc = "stream" /\ ~Replaced(p) /\ Becomes(p, x)
    BY <1>1, <2>1 DEF Bind, At
  <2> HIDE DEF next
  <2>4. m'[p] = x
    BY <2>3, Alone
  <2>5. /\ x.pc = next /\ x.bound = inc /\ x.to = to /\ x.knownInc = m[p].knownInc
        /\ x.from = m[p].from /\ x.snap = m[p].snap /\ x.entries = m[p].entries
        /\ x.run = m[p].run /\ x.gen = m[p].gen
    BY <1>t DEF Managers
  <2>6. m[p].from \in Nat /\ to \in Nat
    BY <1>t DEF Managers, Positions
  <2> HIDE DEF x
  <2> QED
    BY <2>1, <2>2, <2>3, <2>4, <2>5, <2>6
<1>2. ASSUME Idle(p)
      PROVE  /\ m[p].pc = "stream" /\ m'[p].pc = "fence" /\ m[p].from = MaxPos /\ m'[p].to = MaxPos
             /\ m'[p].entries = m[p].entries /\ SameRun(p) /\ SameSpan(p) /\ SamePin(p)
  <2> DEFINE x == [m[p] EXCEPT !.to = MaxPos, !.pc = "fence"]
  <2>1. Becomes(p, x)
    BY <1>2 DEF Idle
  <2>2. m'[p] = x
    BY <2>1, Alone
  <2>3. /\ x.pc = "fence" /\ x.to = MaxPos
        /\ x.run = m[p].run /\ x.gen = m[p].gen /\ x.entries = m[p].entries
        /\ x.bound = m[p].bound /\ x.knownInc = m[p].knownInc
        /\ x.from = m[p].from /\ x.snap = m[p].snap
    BY <1>t DEF Managers
  <2> HIDE DEF x
  <2> QED
    BY <1>2, <2>2, <2>3 DEF Idle, At
<1>3. ASSUME Truncate(p)
      PROVE  /\ m[p].pc = "truncate" /\ m'[p].pc = "write" /\ m'[p].to = m[p].to
             /\ m'[p].entries = m[p].entries /\ SameRun(p) /\ SameSpan(p) /\ SamePin(p)
  <2> DEFINE x == [m[p] EXCEPT !.pc = "write"]
  <2>1. Becomes(p, x)
    BY <1>3 DEF Truncate, Goes
  <2>2. m'[p] = x
    BY <2>1, Alone
  <2>3. /\ x.pc = "write" /\ x.to = m[p].to
        /\ x.run = m[p].run /\ x.gen = m[p].gen /\ x.entries = m[p].entries
        /\ x.bound = m[p].bound /\ x.knownInc = m[p].knownInc
        /\ x.from = m[p].from /\ x.snap = m[p].snap
    BY <1>t DEF Managers
  <2> HIDE DEF x
  <2> QED
    BY <1>3, <2>2, <2>3 DEF Truncate, At
<1>4. ASSUME Write(p)
      PROVE  /\ m[p].pc = "write" /\ m'[p].pc = "fence" /\ m'[p].to = m[p].to
             /\ m'[p].entries = m[p].entries /\ SameRun(p) /\ SameSpan(p) /\ SamePin(p)
  <2> DEFINE x == [m[p] EXCEPT !.pc = "fence"]
  <2>1. Becomes(p, x)
    BY <1>4 DEF Write, Goes
  <2>2. m'[p] = x
    BY <2>1, Alone
  <2>3. /\ x.pc = "fence" /\ x.to = m[p].to
        /\ x.run = m[p].run /\ x.gen = m[p].gen /\ x.entries = m[p].entries
        /\ x.bound = m[p].bound /\ x.knownInc = m[p].knownInc
        /\ x.from = m[p].from /\ x.snap = m[p].snap
    BY <1>t DEF Managers
  <2> HIDE DEF x
  <2> QED
    BY <1>4, <2>2, <2>3 DEF Write, At
<1>5. ASSUME Capture(p)
      PROVE  /\ m[p].pc = "fence" /\ ~Replaced(p) /\ m'[p].pc = "save" /\ m'[p].to = m[p].to
             /\ m'[p].bound = inc /\ m'[p].knownInc = m[p].knownInc
             /\ m'[p].entries = m[p].entries /\ SameRun(p) /\ SameSpan(p)
  <2> DEFINE x == [m[p] EXCEPT !.pc = "save", !.bound = inc]
  <2>1. Becomes(p, x)
    BY <1>5 DEF Capture
  <2>2. m'[p] = x
    BY <2>1, Alone
  <2>3. /\ x.pc = "save" /\ x.to = m[p].to
        /\ x.bound = inc /\ x.knownInc = m[p].knownInc
        /\ x.run = m[p].run /\ x.gen = m[p].gen /\ x.entries = m[p].entries
        /\ x.from = m[p].from /\ x.snap = m[p].snap
    BY <1>t DEF Managers
  <2> HIDE DEF x
  <2> QED
    BY <1>5, <2>2, <2>3 DEF Capture, At
<1>6. ASSUME Recheck(p)
      PROVE  /\ m[p].pc = "recheck" /\ inc = m[p].bound /\ m'[p].pc = "prune"
             /\ m'[p].bound = 0 /\ m'[p].knownInc = inc
             /\ m'[p].from = m[p].to /\ m'[p].snap = FALSE
             /\ m'[p].entries = m[p].entries /\ SameRun(p)
  <2> DEFINE x == [m[p] EXCEPT !.pc = "prune", !.knownInc = inc, !.bound = 0,
                               !.from = m[p].to, !.to = 0, !.snap = FALSE]
  <2>1. Becomes(p, x)
    BY <1>6 DEF Recheck
  <2>2. m'[p] = x
    BY <2>1, Alone
  <2>3. /\ x.pc = "prune" /\ x.bound = 0 /\ x.knownInc = inc
        /\ x.from = m[p].to /\ x.snap = FALSE
        /\ x.run = m[p].run /\ x.gen = m[p].gen /\ x.entries = m[p].entries
    BY <1>t DEF Managers
  <2> HIDE DEF x
  <2> QED
    BY <1>6, <2>2, <2>3 DEF Recheck, At
<1> QED
  BY <1>1, <1>2, <1>3, <1>4, <1>5, <1>6

(* What a run adds to the events. *)
Extends(p, es) ==
    /\ events' = events \cup es /\ m'[p].entries = m[p].entries \cup es
    /\ \A e \in es : /\ e.gen = m[p].gen /\ e.run = m[p].run /\ e.kind # "run"
                     /\ (e.pos = 0 /\ e.inc = 0) \/ (m[p].pc = "save" /\ e.pos \in {0, m[p].to} /\ e.inc \in {0, m[p].bound})

(* A run writes events, or deletes some. *)
LEMMA EventMoves ==
    ASSUME StateInv, NEW p \in Procs
    PROVE  /\ MarkInProgress(p) =>
                /\ m[p].pc = "mark" /\ m'[p].pc = "prune" /\ SameRun(p) /\ SameSpan(p) /\ SamePin(p)
                /\ \E es \in SUBSET EventSet : Extends(p, es)
           /\ InvalidateSnapshot(p) =>
                /\ m[p].pc = "invalidate" /\ m'[p].pc = "write" /\ SameRun(p) /\ SameSpan(p)
                /\ m'[p].bound = 0 /\ m'[p].knownInc = 0 /\ m'[p].to = m[p].to
                /\ \E es \in SUBSET EventSet : Extends(p, es)
           /\ WriteEvents(p) =>
                /\ m[p].pc = "save" /\ m'[p].pc = "recheck" /\ m'[p].to = m[p].to
                /\ SameRun(p) /\ SameSpan(p) /\ SamePin(p)
                /\ \E es \in SUBSET EventSet : Extends(p, es)
           /\ Prune(p) =>
                /\ m[p].pc = "prune" /\ m'[p].pc \in {"prune", "stream"}
                /\ SameRun(p) /\ SameSpan(p) /\ SamePin(p)
                /\ \E del \in SUBSET superseded(p) :
                      events' = events \ del /\ m'[p].entries = m[p].entries \ del
<1>t. m[p] \in Managers
  BY DEF StateInv, StateTypes
<1>f. /\ m[p].epoch \in Nat /\ m[p].bound \in Nat /\ m[p].to \in 0..MaxPos /\ MaxPos \in Nat
      /\ m[p].gen \in Nat /\ m[p].run \in Nat
  BY <1>t, StateAssumption DEF Managers
<1> USE DEF SameRun, SamePin, SameSpan
<1>1. ASSUME MarkInProgress(p)
      PROVE  /\ m[p].pc = "mark" /\ m'[p].pc = "prune" /\ SameRun(p) /\ SameSpan(p) /\ SamePin(p)
             /\ \E es \in SUBSET EventSet : Extends(p, es)
  <2> DEFINE e == Event(m[p].gen, m[p].run, "snapshot", 0, 0, 0)
             x == [m[p] EXCEPT !.pc = "prune", !.entries = @ \cup {e}]
  <2>1. m[p].pc = "mark" /\ Becomes(p, x) /\ events' = events \cup {e}
    BY <1>1 DEF MarkInProgress, At, Store
  <2>2. /\ e \in EventSet /\ e.gen = m[p].gen /\ e.run = m[p].run /\ e.kind # "run"
        /\ e.pos = 0 /\ e.inc = 0
    BY <1>f DEF Event, EventSet, EventKinds
  <2> HIDE DEF e
  <2>3. m'[p] = x
    BY <2>1, Alone
  <2>4. /\ x.pc = "prune" /\ x.entries = m[p].entries \cup {e}
        /\ x.run = m[p].run /\ x.gen = m[p].gen
        /\ x.bound = m[p].bound /\ x.knownInc = m[p].knownInc
        /\ x.from = m[p].from /\ x.snap = m[p].snap
    BY <1>t DEF Managers
  <2> HIDE DEF x
  <2>5. {e} \in SUBSET EventSet /\ Extends(p, {e})
    BY <2>1, <2>2, <2>3, <2>4 DEF Extends
  <2> QED
    BY <2>1, <2>3, <2>4, <2>5
<1>2. ASSUME InvalidateSnapshot(p)
      PROVE  /\ m[p].pc = "invalidate" /\ m'[p].pc = "write" /\ SameRun(p) /\ SameSpan(p)
             /\ m'[p].bound = 0 /\ m'[p].knownInc = 0 /\ m'[p].to = m[p].to
             /\ \E es \in SUBSET EventSet : Extends(p, es)
  <2> DEFINE e == Event(m[p].gen, m[p].run, "snapshot", 0, m[p].epoch + 1, 0)
             x == [m[p] EXCEPT !.pc = "write", !.epoch = @ + 1, !.entries = @ \cup {e},
                               !.known = 0, !.knownInc = 0, !.bound = 0]
  <2>1. m[p].pc = "invalidate" /\ Becomes(p, x) /\ events' = events \cup {e}
    BY <1>2 DEF InvalidateSnapshot, At
  <2>2. /\ e \in EventSet /\ e.gen = m[p].gen /\ e.run = m[p].run /\ e.kind # "run"
        /\ e.pos = 0 /\ e.inc = 0
    BY <1>f DEF Event, EventSet, EventKinds
  <2> HIDE DEF e
  <2>3. m'[p] = x
    BY <2>1, Alone
  <2>4. /\ x.pc = "write" /\ x.entries = m[p].entries \cup {e}
        /\ x.run = m[p].run /\ x.gen = m[p].gen /\ x.to = m[p].to
        /\ x.bound = 0 /\ x.knownInc = 0
        /\ x.from = m[p].from /\ x.snap = m[p].snap
    BY <1>t DEF Managers
  <2> HIDE DEF x
  <2>5. {e} \in SUBSET EventSet /\ Extends(p, {e})
    BY <2>1, <2>2, <2>3, <2>4 DEF Extends
  <2> QED
    BY <2>1, <2>3, <2>4, <2>5
<1>3. ASSUME WriteEvents(p)
      PROVE  /\ m[p].pc = "save" /\ m'[p].pc = "recheck" /\ m'[p].to = m[p].to
             /\ SameRun(p) /\ SameSpan(p) /\ SamePin(p)
             /\ \E es \in SUBSET EventSet : Extends(p, es)
  <2> DEFINE c == Event(m[p].gen, m[p].run, "checkpoint", m[p].to, 0, 0)
             s == Event(m[p].gen, m[p].run, "snapshot", Completes(p), m[p].epoch, 0)
             d == Event(m[p].gen, m[p].run, "destination", Completes(p), m[p].epoch, m[p].bound)
             es == {c} \cup IF Completes(p) = 0 THEN {} ELSE {s, d}
             x == [m[p] EXCEPT !.pc = "recheck", !.entries = @ \cup es, !.known = 0]
  <2>1. m[p].pc = "save" /\ Becomes(p, x) /\ events' = events \cup es
    BY <1>3 DEF WriteEvents, At
  <2>c. Completes(p) \in {0, m[p].to} /\ Completes(p) \in 0..MaxPos
    BY <1>f DEF Completes
  <2>2. /\ c \in EventSet /\ c.gen = m[p].gen /\ c.run = m[p].run /\ c.kind # "run"
        /\ c.pos = m[p].to /\ c.inc = 0
    BY <1>f DEF Event, EventSet, EventKinds
  <2>3. /\ s \in EventSet /\ s.gen = m[p].gen /\ s.run = m[p].run /\ s.kind # "run"
        /\ s.pos = Completes(p) /\ s.inc = 0
    BY <1>f, <2>c DEF Event, EventSet, EventKinds
  <2>4. /\ d \in EventSet /\ d.gen = m[p].gen /\ d.run = m[p].run /\ d.kind # "run"
        /\ d.pos = Completes(p) /\ d.inc = m[p].bound
    BY <1>f, <2>c DEF Event, EventSet, EventKinds
  <2>5. \A e \in es : e = c \/ e = s \/ e = d
    OBVIOUS
  <2> HIDE DEF c, s, d, es
  <2>6. es \in SUBSET EventSet /\ \A e \in es :
            /\ e.gen = m[p].gen /\ e.run = m[p].run /\ e.kind # "run"
            /\ e.pos \in {0, m[p].to} /\ e.inc \in {0, m[p].bound}
    BY <2>c, <2>2, <2>3, <2>4, <2>5
  <2>7. m'[p] = x
    BY <2>1, Alone
  <2>8. /\ x.pc = "recheck" /\ x.entries = m[p].entries \cup es
        /\ x.run = m[p].run /\ x.gen = m[p].gen /\ x.to = m[p].to
        /\ x.bound = m[p].bound /\ x.knownInc = m[p].knownInc
        /\ x.from = m[p].from /\ x.snap = m[p].snap
    BY <1>t DEF Managers
  <2> HIDE DEF x
  <2>9. Extends(p, es)
    BY <2>1, <2>6, <2>7, <2>8 DEF Extends
  <2> QED
    BY <2>1, <2>6, <2>7, <2>8, <2>9
<1>4. ASSUME Prune(p)
      PROVE  /\ m[p].pc = "prune" /\ m'[p].pc \in {"prune", "stream"}
             /\ SameRun(p) /\ SameSpan(p) /\ SamePin(p)
             /\ \E del \in SUBSET superseded(p) :
                   events' = events \ del /\ m'[p].entries = m[p].entries \ del
  <2>1. PICK del \in SUBSET superseded(p), b \in BOOLEAN, s \in {"prune", "stream"} :
            /\ events' = events \ del
            /\ Becomes(p, [m[p] EXCEPT !.entries = @ \ del, !.due = b, !.pc = s])
    BY <1>4, PruneEffect
  <2> DEFINE x == [m[p] EXCEPT !.entries = @ \ del, !.due = b, !.pc = s]
  <2>2. m'[p] = x
    BY <2>1, Alone
  <2>3. /\ x.pc = s /\ x.entries = m[p].entries \ del
        /\ x.run = m[p].run /\ x.gen = m[p].gen
        /\ x.bound = m[p].bound /\ x.knownInc = m[p].knownInc
        /\ x.from = m[p].from /\ x.snap = m[p].snap
    BY <1>t DEF Managers
  <2> HIDE DEF x
  <2> QED
    BY <1>4, <2>1, <2>2, <2>3 DEF Prune, At
<1> QED
  BY <1>1, <1>2, <1>3, <1>4

(* A process that is about to begin a run, or that has lost one, has       *)
(* nothing to say of the table.                                            *)
LEMMA OtherMoves ==
    ASSUME StateInv, NEW p \in Procs,
           Acquire(p) \/ FenceLost(p) \/ Supersede(p) \/ Verify(p) \/ Refuses(p)
    PROVE  /\ m'[p].pc \in {"off", "load", "supersede", "verify"}
           /\ m'[p].entries \in {{}, m[p].entries}
           /\ m'[p].bound \in {0, m[p].bound} /\ m'[p].knownInc \in {0, m[p].knownInc}
<1>t. m[p] \in Managers
  BY DEF StateInv, StateTypes
<1>1. CASE Acquire(p)
  <2> DEFINE x == [m[p] EXCEPT !.pc = "load"]
  <2>1. m'[p] = x
    BY <1>1, Alone DEF Acquire, Goes
  <2>2. x.pc = "load" /\ x.entries = m[p].entries /\ x.bound = m[p].bound /\ x.knownInc = m[p].knownInc
    BY <1>t DEF Managers
  <2> HIDE DEF x
  <2> QED
    BY <2>1, <2>2
<1>2. CASE FenceLost(p)
  <2> DEFINE f == Max({m[p].gen, FenceGen})
             x == [Off EXCEPT !.pc = "supersede", !.gen = m[p].gen, !.run = m[p].run, !.floor = f]
  <2>1. Becomes(p, x)
    BY <1>2 DEF FenceLost
  <2> HIDE DEF f
  <2>2. m'[p] = x
    BY <2>1, Alone
  <2>3. x.pc = "supersede" /\ x.entries = {} /\ x.bound = 0 /\ x.knownInc = 0
    BY DEF Off
  <2> HIDE DEF x
  <2> QED
    BY <2>2, <2>3
<1>3. CASE Supersede(p)
  <2> DEFINE x == [m[p] EXCEPT !.pc = "verify", !.run = ids', !.floor = @ + 1, !.attempt = @ + 1]
  <2>1. Becomes(p, x)
    BY <1>3 DEF Supersede
  <2>2. m'[p] = x
    BY <2>1, Alone
  <2>3. x.pc = "verify" /\ x.entries = m[p].entries /\ x.bound = m[p].bound /\ x.knownInc = m[p].knownInc
    BY <1>t DEF Managers
  <2> HIDE DEF x
  <2> QED
    BY <2>2, <2>3
<1>4. ASSUME Ends(p)
      PROVE  m'[p].pc = "off" /\ m'[p].entries = {} /\ m'[p].bound = 0 /\ m'[p].knownInc = 0
  <2>1. m'[p] = Off
    BY <1>4, Alone DEF Ends
  <2> QED
    BY <2>1 DEF Off
<1>5. CASE Verify(p)
  <2> DEFINE f == Max({m[p].floor, FenceGen})
             x == [m[p] EXCEPT !.pc = "supersede", !.floor = f]
  <2>1. Ends(p) \/ Becomes(p, x)
    BY <1>5 DEF Verify
  <2> HIDE DEF f
  <2>2. Ends(p) \/ m'[p] = x
    BY <2>1, Alone
  <2>3. x.pc = "supersede" /\ x.entries = m[p].entries /\ x.bound = m[p].bound /\ x.knownInc = m[p].knownInc
    BY <1>t DEF Managers
  <2> HIDE DEF x
  <2> QED
    BY <1>4, <2>2, <2>3
<1>6. CASE Refuses(p)
  BY <1>4, <1>6 DEF Refuses
<1> QED
  BY <1>1, <1>2, <1>3, <1>5, <1>6

----------------------------------------------------------------------------
(* The events that anybody knows, and those of the runs that have begun. *)

(* What is seen has the types of events. *)
LEMMA SeenTypes ==
    ASSUME StateInv
    PROVE  /\ Seen \in SUBSET EventSet /\ events \subseteq Seen
           /\ \A x \in Seen : /\ x.run \in 1..ids /\ x.gen \in Nat /\ x.pos \in 0..MaxPos /\ x.inc \in Nat
                              /\ x.kind = "run" => x.pos = 0
           /\ ids \in Nat /\ inc \in Nat /\ MaxPos \in Nat
           /\ \A p \in Procs : /\ m[p] \in Managers /\ m[p].entries \subseteq Seen
                               /\ m[p].run <= ids /\ Knows(p)
<1>t. StateTypes /\ inc \in Nat /\ MaxPos \in Nat
  BY StateAssumption DEF StateInv, StateTypes
<1>1. \A p \in Procs : m[p] \in Managers /\ m[p].entries \in SUBSET EventSet /\ Counted(m[p].entries)
  BY <1>t DEF StateTypes, Managers
<1>2. Seen \in SUBSET EventSet /\ Counted(Seen)
  BY <1>1, <1>t DEF StateTypes, Seen, Counted
<1>3. \A x \in Seen : /\ x.run \in 1..ids /\ x.gen \in Nat /\ x.pos \in 0..MaxPos /\ x.inc \in Nat
                      /\ x.kind = "run" => x.pos = 0
  BY <1>2 DEF Counted, EventSet
<1> QED
  BY <1>t, <1>1, <1>2, <1>3 DEF StateTypes, Seen, StateInv

(* The event of a run in progress is seen. *)
LEMMA OwnRunEvent ==
    ASSUME StateInv, NEW p \in Procs, Active(p)
    PROVE  /\ RunEvent(p) \in m[p].entries /\ RunEvent(p) \in Seen
           /\ RunEvent(p).gen = m[p].gen /\ RunEvent(p).run = m[p].run
           /\ m[p].run # 0 /\ m[p].gen \in Nat
BY SeenTypes, RunEventStays DEF Active, Knows, Managers

(* A step shows what its process adds. *)
LEMMA SeenGrows ==
    ASSUME NEW p \in Procs, NEW es, \A q \in Procs : q # p => m'[q] = m[q],
           events' \subseteq events \cup es, m'[p].entries \subseteq Seen \cup es
    PROVE  Seen' \subseteq Seen \cup es
<1> SUFFICES ASSUME NEW x \in Seen', x \notin es PROVE x \in Seen
  OBVIOUS
<1>1. CASE x \in events'
  BY <1>1 DEF Seen
<1>2. CASE x \notin events'
  <2>1. PICK q \in Procs : x \in m'[q].entries
    BY <1>2 DEF Seen
  <2> QED
    BY <2>1 DEF Seen
<1> QED
  BY <1>1, <1>2

(* While no other run has begun, all events are the run's own or of older  *)
(* generations, and the event it began with is there.                      *)
LEMMA NobodyElse ==
    ASSUME StateInv, RunsInv, NEW p \in Procs, Active(p), ~Overtaken(p)
    PROVE  /\ \A x \in Seen : x.gen < m[p].gen \/ (x.gen = m[p].gen /\ x.run = m[p].run)
           /\ \E e \in events : e.kind = "run" /\ e.gen = m[p].gen /\ e.run = m[p].run
<1>t. m[p].gen \in Nat /\ events \subseteq Seen /\ \A x \in Seen : x.gen \in Nat
  BY SeenTypes, OwnRunEvent
<1>1. \A x \in Seen : x.run = m[p].run => x.gen = m[p].gen
  BY DEF RunsInv, OwnEvents
<1>2. \A e \in events : e.kind = "run" => e.run = m[p].run \/ e.gen < m[p].gen
  BY <1>t DEF Overtaken
<1>3. ASSUME NEW x \in Seen
      PROVE  x.gen < m[p].gen \/ (x.gen = m[p].gen /\ x.run = m[p].run)
  <2>1. PICK e \in events : e.kind = "run" /\ (e.gen > x.gen \/ (e.gen = x.gen /\ e.run = x.run))
    BY DEF RunsInv, Ledger, Begun
  <2>2. x.gen \in Nat /\ e.gen \in Nat
    BY <1>t
  <2>3. CASE e.run = m[p].run
    <3>1. e.gen = m[p].gen
      BY <1>1, <1>t, <2>3
    <3> QED
      BY <2>1, <2>2, <2>3, <3>1, <1>t
  <2>4. CASE e.gen < m[p].gen
    BY <2>1, <2>2, <2>4, <1>t
  <2> QED
    BY <2>1, <2>3, <2>4, <1>2
<1>4. \E e \in events : e.kind = "run" /\ e.gen = m[p].gen /\ e.run = m[p].run
  <2> DEFINE r == RunEvent(p)
  <2>1. r \in Seen /\ r.gen = m[p].gen /\ r.run = m[p].run
    BY OwnRunEvent
  <2> HIDE DEF r
  <2>2. PICK e \in events : e.kind = "run" /\ (e.gen > r.gen \/ (e.gen = r.gen /\ e.run = r.run))
    BY <2>1 DEF RunsInv, Ledger, Begun
  <2>3. e.gen < m[p].gen \/ (e.gen = m[p].gen /\ e.run = m[p].run)
    BY <1>3, <1>t
  <2> QED
    BY <2>1, <2>2, <2>3, <1>t
<1> QED
  BY <1>3, <1>4

(* The event of a run goes only when one of a later generation stays. *)
RunEventsStay ==
    \A e \in events : e.kind = "run" =>
        e \in events' \/ \E z \in events \cap events' : z.kind = "run" /\ z.gen > e.gen

(* A deletion is of older generations, as far as such events go. *)
LEMMA PrunedRunEvents ==
    ASSUME StateInv, RunsInv, NEW p \in Procs, Prune(p)
    PROVE  RunEventsStay
<1>1. PICK del \in SUBSET superseded(p) : events' = events \ del
  BY EventMoves
<1>2. Active(p) /\ m[p].pc \in ActiveSteps
  BY EventMoves DEF Active, ActiveSteps
<1>t. /\ m[p].gen \in Nat /\ events \subseteq Seen /\ m[p].entries \subseteq Seen
      /\ \A x \in Seen : x.gen \in Nat /\ (x.kind = "run" => x.pos = 0)
  BY <1>2, SeenTypes, OwnRunEvent
<1>3. \A d \in del : d.kind = "run" => d.gen < m[p].gen
  <2> SUFFICES ASSUME NEW d \in del, d.kind = "run", ~(d.gen < m[p].gen) PROVE FALSE
    OBVIOUS
  <2>1. d \in superseded(p) /\ d \in m[p].entries
    BY DEF superseded
  <2>2. d.gen = m[p].gen
    BY <1>2, <2>1, SeenTypes DEF Knows
  <2>3. PICK c \in m[p].entries : c.kind = d.kind /\ Prefers(c, d)
    BY <1>2, <2>1, <2>2, KeptIsPreferred
  <2>4. c.pos = 0 /\ d.pos = 0
    BY <1>t, <2>1, <2>3
  <2> QED
    BY <2>3, <2>4 DEF Prefers
<1>4. PICK z \in events : z.kind = "run" /\ z.gen >= m[p].gen
  <2> DEFINE r == RunEvent(p)
  <2>1. r \in Seen /\ r.gen = m[p].gen
    BY <1>2, OwnRunEvent
  <2> HIDE DEF r
  <2>2. PICK e \in events : e.kind = "run" /\ (e.gen > r.gen \/ e.gen = r.gen)
    BY <2>1 DEF RunsInv, Ledger, Begun
  <2> QED
    BY <2>1, <2>2, <1>t
<1>5. z \in events' /\ z.gen \in Nat
  BY <1>1, <1>3, <1>4, <1>t
<1>6. ASSUME NEW e \in events, e.kind = "run", e \notin events'
      PROVE  z.gen > e.gen
  <2>1. e.gen < m[p].gen /\ e.gen \in Nat
    BY <1>1, <1>3, <1>6, <1>t
  <2> QED
    BY <2>1, <1>4, <1>5, <1>t
<1> QED
  BY <1>4, <1>5, <1>6 DEF RunEventsStay

(* Every step but a deletion keeps all events. *)
LEMMA RunEventsStep ==
    ASSUME StateInv, RunsInv, [Next]_vars
    PROVE  RunEventsStay
<1>1. CASE events' = events
  BY <1>1 DEF RunEventsStay
<1>2. CASE events' # events
  <2>1. PICK q \in Procs :
            BeginRun(q) \/ MarkInProgress(q) \/ InvalidateSnapshot(q) \/ WriteEvents(q)
            \/ Supersede(q) \/ Prune(q)
    BY <1>2, EventSteps
  <2>2. CASE ~Prune(q)
    <3>1. events \subseteq events'
      BY <2>1, <2>2 DEF BeginRun, MarkInProgress, InvalidateSnapshot, WriteEvents, Supersede, Store
    <3> QED
      BY <3>1 DEF RunEventsStay
  <2> QED
    BY <2>2, PrunedRunEvents
<1> QED
  BY <1>1, <1>2

(* So what has begun stays begun, ... *)
LEMMA BegunStays ==
    ASSUME StateInv, RunEventsStay, NEW x \in Seen, Begun(x)
    PROVE  Begun(x)'
<1>1. PICK e \in events : e.kind = "run" /\ (e.gen > x.gen \/ (e.gen = x.gen /\ e.run = x.run))
  BY DEF Begun
<1>2. CASE e \in events'
  BY <1>1, <1>2 DEF Begun
<1>3. CASE e \notin events'
  <2>1. PICK z \in events \cap events' : z.kind = "run" /\ z.gen > e.gen
    BY <1>1, <1>3 DEF RunEventsStay
  <2>2. z.gen \in Nat /\ e.gen \in Nat /\ x.gen \in Nat
    BY SeenTypes
  <2> QED
    BY <1>1, <2>1, <2>2 DEF Begun
<1> QED
  BY <1>2, <1>3

(* ... and who is behind stays behind. *)
LEMMA BehindStays ==
    ASSUME StateInv, RunsInv, RunEventsStay, NEW p \in Procs, Behind(p), SameRun(p),
           (m[p].pc = "begin" /\ m'[p].pc = "begin")
           \/ (Active(p) /\ m[p].pc # "begin" /\ m'[p].pc # "begin")
    PROVE  Behind(p)'
<1>1. PICK e \in events : e.kind = "run" /\
          IF m[p].pc = "begin" THEN e.gen > m[p].gen ELSE e.run # m[p].run /\ e.gen >= m[p].gen
  BY DEF Behind
<1>2. CASE e \in events'
  BY <1>1, <1>2 DEF Behind, SameRun
<1>3. CASE e \notin events'
  <2>1. PICK z \in events \cap events' : z.kind = "run" /\ z.gen > e.gen
    BY <1>1, <1>3 DEF RunEventsStay
  <2>2. z.gen \in Nat /\ e.gen \in Nat /\ m[p].gen \in Nat /\ z \in Seen
    BY SeenTypes DEF Managers
  <2>3. m[p].pc # "begin" => z.run # m[p].run
    <3>1. m[p].pc # "begin" /\ z.run = m[p].run => z.gen = m[p].gen
      BY <2>2 DEF RunsInv, OwnEvents
    <3> QED
      BY <1>1, <2>1, <2>2, <3>1
  <2> QED
    BY <1>1, <2>1, <2>2, <2>3 DEF Behind, SameRun
<1> QED
  BY <1>2, <1>3

----------------------------------------------------------------------------
(* What runs know of their events and of the table, step by step. *)

(* The steps that add events. *)
Adding(p) == MarkInProgress(p) \/ InvalidateSnapshot(p) \/ WriteEvents(p)

(* A step of a process shows events of its own, or the one of a new run. *)
NewEvent(p, x) ==
    \/ x.kind = "run" /\ x.run = ids + 1 /\ x.pos = 0 /\ x.inc = 0 /\ x \in events'
       /\ ((BeginRun(p) /\ x.gen = m[p].gen + 1) \/ Supersede(p))
    \/ /\ Adding(p) /\ Active(p) /\ x.gen = m[p].gen /\ x.run = m[p].run
       /\ (x.pos = 0 /\ x.inc = 0) \/ (WriteEvents(p) /\ x.pos \in {0, m[p].to} /\ x.inc \in {0, m[p].bound})

(* Nothing else comes to be seen, and nobody else moves. *)
LEMMA EventsOfStep ==
    ASSUME StateInv, NEW p \in Procs, Acquire(p) \/ Step(p)
    PROVE  /\ \A q \in Procs : q # p => m'[q] = m[q]
           /\ UNCHANGED <<inc, keyless>>
           /\ \A x \in Seen' : x \in Seen \/ NewEvent(p, x)
<1>s. m[p].entries \subseteq Seen /\ events \subseteq Seen
  BY DEF Seen
<1>u. UNCHANGED <<inc, keyless>>
  BY DEF Step, Acquire, Load, BeginRun, MarkInProgress, Prune, Bind, Idle, BindRefused, Truncate,
         InvalidateSnapshot, Write, WriteRefused, FenceLost, Capture, CaptureRefused, WriteEvents,
         Recheck, RecheckRefused, Supersede, Verify, NoticeLoss, Refuses
<1>1. CASE Adding(p)
  <2>1. Active(p) /\ (m[p].pc = "save" => WriteEvents(p))
    BY <1>1, EventMoves DEF Adding, Active, ActiveSteps
  <2>2. PICK es \in SUBSET EventSet : Extends(p, es)
    BY <1>1, EventMoves DEF Adding
  <2>3. \A q \in Procs : q # p => m'[q] = m[q]
    <3>1. \E x : Becomes(p, x)
      BY <1>1 DEF Adding, MarkInProgress, InvalidateSnapshot, WriteEvents, Store
    <3> QED
      BY <3>1, Alone
  <2>4. Seen' \subseteq Seen \cup es
    BY <2>2, <2>3, <1>s, SeenGrows DEF Extends
  <2>5. \A x \in es : NewEvent(p, x)
    BY <1>1, <2>1, <2>2 DEF Extends, NewEvent
  <2> QED
    BY <2>3, <2>4, <2>5, <1>u
<1>2. CASE BeginRun(p)
  <2> DEFINE e == Event(m[p].gen + 1, ids + 1, "run", 0, 0, 0)
  <2>1. \A q \in Procs : q # p => m'[q] = m[q]
    <3>1. \E x : Becomes(p, x)
      BY <1>2 DEF BeginRun
    <3> QED
      BY <3>1, Alone
  <2>2. events' = events \cup {e} /\ m'[p].entries = m[p].entries \cup {e}
    BY <1>2, StartMoves
  <2>3. e.gen = m[p].gen + 1 /\ e.run = ids + 1 /\ e.kind = "run" /\ e.pos = 0 /\ e.inc = 0
    BY DEF Event
  <2> HIDE DEF e
  <2>4. Seen' \subseteq Seen \cup {e}
    BY <2>1, <2>2, <1>s, SeenGrows
  <2> QED
    BY <2>1, <2>2, <2>3, <2>4, <1>2, <1>u DEF NewEvent
<1>3. CASE Supersede(p)
  <2> DEFINE e == Event(m[p].floor + 1, ids + 1, "run", 0, 0, 0)
  <2>1. \A q \in Procs : q # p => m'[q] = m[q]
    <3>1. \E x : Becomes(p, x)
      BY <1>3 DEF Supersede
    <3> QED
      BY <3>1, Alone
  <2>2. events' = events \cup {e} /\ m'[p].entries \in {{}, m[p].entries}
    BY <1>3, OtherMoves DEF Supersede
  <2>3. e.run = ids + 1 /\ e.kind = "run" /\ e.pos = 0 /\ e.inc = 0
    BY DEF Event
  <2> HIDE DEF e
  <2>4. Seen' \subseteq Seen \cup {e}
    BY <2>1, <2>2, <1>s, SeenGrows
  <2> QED
    BY <2>1, <2>2, <2>3, <2>4, <1>3, <1>u DEF NewEvent
<1>4. ASSUME ~Adding(p), ~BeginRun(p), ~Supersede(p)
      PROVE  (\A q \in Procs : q # p => m'[q] = m[q]) /\ Seen' \subseteq Seen
  <2>1. \A q \in Procs : q # p => m'[q] = m[q]
    <3>1. \E x : Becomes(p, x)
      BY <1>4 DEF Adding, Step, Acquire, Load, Prune, Bind, Idle, BindRefused, Truncate,
         Write, WriteRefused, FenceLost, Capture, CaptureRefused,
         Recheck, RecheckRefused, Verify, NoticeLoss, Refuses, Ends, Goes
    <3> QED
      BY <3>1, Alone
  <2>2. events' \subseteq events /\ m'[p].entries \subseteq Seen
    <3>1. CASE Load(p)
      BY <3>1, <1>s, StartMoves DEF Load
    <3>2. CASE Prune(p)
      BY <3>2, <1>s, EventMoves
    <3>3. CASE Bind(p) \/ Idle(p) \/ Truncate(p) \/ Write(p) \/ Capture(p) \/ Recheck(p)
      BY <3>3, <1>s, FlushMoves DEF Bind, Idle, Truncate, Write, Capture, Recheck
    <3>4. CASE Acquire(p) \/ FenceLost(p) \/ Verify(p) \/ Refuses(p)
      BY <3>4, <1>s, OtherMoves DEF Acquire, FenceLost, Verify, Refuses
    <3> QED
      BY <1>4, <3>1, <3>2, <3>3, <3>4
         DEF Adding, Step, BindRefused, WriteRefused, CaptureRefused, RecheckRefused, NoticeLoss
  <2>3. Seen' \subseteq Seen \cup {}
    BY <2>1, <2>2, SeenGrows
  <2> QED
    BY <2>1, <2>3
<1> QED
  BY <1>1, <1>2, <1>3, <1>4, <1>u

(* The events stay within the tables there were, and their runs begun. *)
LEMMA LedgerStep ==
    ASSUME StateInv, RunsInv, [Next]_vars
    PROVE  Ledger'
<1>1. RunEventsStay
  BY RunEventsStep
<1>t. inc \in Nat /\ \A x \in Seen : x.inc \in Nat /\ x.inc <= inc /\ Begun(x)
  BY SeenTypes DEF RunsInv, Ledger
<1>2. CASE \E p \in Procs : Acquire(p) \/ Step(p)
  <2>1. PICK p \in Procs : Acquire(p) \/ Step(p)
    BY <1>2
  <2>2. UNCHANGED inc /\ \A x \in Seen' : x \in Seen \/ NewEvent(p, x)
    BY <2>1, EventsOfStep
  <2>3. ASSUME NEW x \in Seen', NewEvent(p, x) PROVE x.inc <= inc /\ Begun(x)'
    <3>1. CASE x.kind = "run" /\ x.inc = 0 /\ x \in events'
      <4>1. Begun(x)'
        BY <3>1 DEF Begun
      <4> QED
        BY <3>1, <4>1, <1>t
    <3>2. CASE /\ Active(p) /\ x.gen = m[p].gen /\ x.run = m[p].run
               /\ x.inc \in {0, m[p].bound}
      <4>1. PICK r \in Seen : r.gen = x.gen /\ r.run = x.run
        BY <3>2, OwnRunEvent
      <4>2. Begun(r)'
        BY <4>1, <1>1, <1>t, BegunStays
      <4>3. Begun(x)'
        BY <4>1, <4>2 DEF Begun
      <4>4. m[p].bound <= inc
        BY DEF RunsInv, Pins
      <4> QED
        BY <3>2, <4>3, <4>4, <1>t
    <3> QED
      BY <2>3, <3>1, <3>2 DEF NewEvent
  <2> QED
    BY <2>2, <2>3, <1>1, <1>t, BegunStays DEF Ledger
<1>3. CASE (\E p \in Procs : LoseSession(p)) \/ Replace \/ UNCHANGED vars
  <2>1. UNCHANGED <<events, m>> /\ inc' \in {inc, inc + 1}
    BY <1>3 DEF LoseSession, Replace, vars
  <2>2. Seen' = Seen /\ inc <= inc'
    BY <2>1, <1>t DEF Seen
  <2>3. \A x \in Seen : x.inc <= inc'
    BY <2>1, <2>2, <1>t
  <2> QED
    BY <2>2, <2>3, <1>1, <1>t, BegunStays DEF Ledger
<1> QED
  BY <1>2, <1>3 DEF Next

(* A process keeps what it knows while others go on. *)
LEMMA BystanderRuns ==
    ASSUME StateInv, RunsInv, NEW p \in Procs, Acquire(p) \/ Step(p), NEW q \in Procs, q # p
    PROVE  OwnEvents(q)' /\ ReadEvents(q)' /\ Pins(q)'
<1>1. m'[q] = m[q] /\ UNCHANGED <<inc, keyless>>
      /\ \A x \in Seen' : x \in Seen \/ NewEvent(p, x)
  BY EventsOfStep
<1>2. OwnEvents(q) /\ ReadEvents(q) /\ Pins(q)
  BY DEF RunsInv
<1>3. ReadEvents(q)' /\ Pins(q)'
  BY <1>1, <1>2 DEF ReadEvents, Pins, Active
<1>4. ASSUME NEW x, NewEvent(p, x), Active(q) PROVE x.run # m[q].run
  <2>1. m[q].run \in Nat /\ m[q].run <= ids /\ ids \in Nat /\ m[q].run # 0
    BY <1>4, SeenTypes, OwnRunEvent DEF Managers
  <2>2. Active(p) => m[p].run # m[q].run
    BY <2>1 DEF StateInv, RunIdsDiffer
  <2> QED
    BY <1>4, <2>1, <2>2 DEF NewEvent
<1>5. OwnEvents(q)'
  BY <1>1, <1>2, <1>4 DEF OwnEvents, Active
<1> QED
  BY <1>3, <1>5

(* A process that begins a run, ... *)
LEMMA StartRuns ==
    ASSUME StateInv, RunsInv, NEW p \in Procs, Load(p) \/ BeginRun(p)
    PROVE  OwnEvents(p)' /\ ReadEvents(p)' /\ Pins(p)'
<1>i. /\ OwnEvents(p) /\ ReadEvents(p) /\ Pins(p) /\ StateTypes
      /\ UNCHANGED <<inc, keyless>> /\ inc \in Nat /\ inc # 0
  BY EventsOfStep DEF RunsInv, StateInv, StateTypes, Step
<1>1. CASE Load(p)
  <2>1. /\ m'[p].pc = "begin" /\ m'[p].entries = events
        /\ m'[p].gen = Max0({e.gen : e \in events})
        /\ m'[p].from = Answer /\ m'[p].snap = (Answer = 0) /\ m'[p].bound = m[p].bound
        /\ m'[p].knownInc = IF Answer = 0 THEN 0 ELSE inc
    BY <1>1, StartMoves
  <2>2. OwnEvents(p)'
    BY <2>1 DEF OwnEvents, Active, ActiveSteps
  <2>3. ReadEvents(p)'
    <3>1. SUFFICES ASSUME Answer # 0
                   PROVE  \E s \in events : s.gen = Max0({e.gen : e \in events}) /\ s.pos # 0
      BY <2>1 DEF ReadEvents
    <3>t. events \in SUBSET EventSet
      BY <1>i DEF StateTypes
    <3>2. PICK s \in events : Certifies(events, s, inc)
      BY <3>1, <3>t, NothingCertified DEF Answer
    <3> DEFINE G == {e.gen : e \in events}
    <3>3. G \in SUBSET (0..ids) /\ ids \in Nat /\ s.gen \in G
      BY <1>i DEF StateTypes, Counted, EventSet
    <3>4. \A g \in G : g <= s.gen
      BY <3>2, <3>t, CertifiedIsLatest
    <3> HIDE DEF G
    <3>5. Max0(G) \in G \cup {0} /\ Max0(G) \in 0..ids /\ s.gen <= Max0(G)
      BY <3>3, MaxBounded
    <3>6. s.gen = Max0(G)
      <4> DEFINE z == Max0(G)
      <4>z. z \in G \cup {0} /\ z \in 0..ids /\ s.gen <= z
        BY <3>5
      <4> HIDE DEF z
      <4>n. z \in Nat
        BY <3>3, <4>z
      <4>s. s.gen \in Nat
        BY <1>i DEF StateTypes, EventSet
      <4>c. z = 0 \/ z \in G
        BY <4>z
      <4>1. z \in Nat /\ s.gen \in Nat /\ s.gen <= z /\ (z = 0 \/ z \in G)
        BY <4>z, <4>n, <4>s, <4>c
      <4>2. z <= s.gen
        BY <4>1, <3>4
      <4>3. s.gen = z
        BY <4>1, <4>2
      <4> QED
        BY <4>3 DEF z
    <3>7. s.pos # 0
      BY <3>2 DEF Certifies, Stands
    <3> QED
      BY <3>6, <3>7 DEF G
  <2>4. Pins(p)'
    <3>1. m[p].bound <= inc /\ m[p].knownInc <= inc
      BY <1>i DEF Pins
    <3>2. CASE Answer = 0
      <4>1. m'[p].snap = TRUE /\ m'[p].from = 0 /\ m'[p].knownInc = 0
        BY <2>1, <3>2
      <4> QED
        BY <2>1, <4>1, <3>1, <1>i DEF Pins, Active, ActiveSteps
    <3>3. CASE Answer # 0
      <4>1. m'[p].snap = FALSE /\ m'[p].knownInc = inc
        BY <2>1, <3>3
      <4> QED
        BY <2>1, <4>1, <3>1, <1>i DEF Pins, Active, ActiveSteps
    <3> QED
      BY <3>2, <3>3
  <2> QED
    BY <2>2, <2>3, <2>4
<1>2. CASE BeginRun(p)
  <2>1. /\ m[p].pc = "begin" /\ m'[p].pc = "mark" /\ m'[p].run = ids + 1 /\ m'[p].gen = m[p].gen + 1
        /\ SamePin(p) /\ SameSpan(p)
    BY <1>2, StartMoves
  <2>2. OwnEvents(p)'
    <3>1. \A x \in Seen' : x \in Seen \/ (x.run = ids + 1 /\ x.gen = m[p].gen + 1 /\ x.pos = 0)
      <4>1. ~Adding(p) /\ ~Supersede(p)
        BY <2>1 DEF Adding, MarkInProgress, InvalidateSnapshot, WriteEvents, Supersede, BeginRun, At,
                    Store, Becomes, StateInv, StateTypes
      <4> QED
        BY <1>2, <4>1, EventsOfStep DEF NewEvent, Step
    <3>2. \A x \in Seen : x.run # ids + 1
      BY SeenTypes
    <3>3. m[p].from >= 0
      BY SeenTypes DEF Managers
    <3> QED
      BY <2>1, <3>1, <3>2, <3>3 DEF OwnEvents, SameSpan
  <2>3. ReadEvents(p)'
    BY <2>1 DEF ReadEvents
  <2>4. Pins(p)'
    BY <2>1, <1>i DEF Pins, Active, ActiveSteps, SamePin, SameSpan
  <2> QED
    BY <2>2, <2>3, <2>4
<1> QED
  BY <1>1, <1>2

(* ... flushes, ... *)
LEMMA FlushRuns ==
    ASSUME StateInv, RunsInv, NEW p \in Procs,
           Bind(p) \/ Idle(p) \/ Truncate(p) \/ Write(p) \/ Capture(p) \/ Recheck(p)
    PROVE  OwnEvents(p)' /\ ReadEvents(p)' /\ Pins(p)'
<1>i. /\ OwnEvents(p) /\ Pins(p) /\ StateTypes /\ UNCHANGED <<inc, keyless>> /\ inc \in Nat /\ inc # 0
      /\ m[p].from \in Nat /\ m[p].to \in Nat /\ m'[p].to \in Nat /\ MaxPos \in Nat /\ m[p].bound \in Nat
      /\ \A x \in Seen : x.pos \in Nat /\ x.inc \in Nat /\ x.inc <= inc
  <2>1. StateTypes' /\ StateTypes
    BY WorkStep DEF StateInv
  <2>2. m[p] \in Managers /\ m'[p] \in Managers
    BY <2>1 DEF StateTypes
  <2> QED
    BY <2>1, <2>2, EventsOfStep, SeenTypes DEF RunsInv, Ledger, Step, StateTypes, Managers
<1>s. Seen' \subseteq Seen
  <2>1. m'[p].entries = m[p].entries
    BY FlushMoves
  <2>2. \A q \in Procs : m'[q].entries = m[q].entries
    BY <2>1, EventsOfStep DEF Step
  <2> QED
    BY <2>2 DEF Seen, Bind, Idle, Truncate, Write, Capture, Recheck
<1>1. ReadEvents(p)' /\ (Active(p) /\ m'[p].pc \in ActiveSteps)
  BY FlushMoves DEF ReadEvents, Active, ActiveSteps
<1>r. SameRun(p)
  BY FlushMoves
<1>2. CASE Bind(p)
  <2>1. /\ m[p].pc = "stream" /\ ~Replaced(p) /\ SameSpan(p)
        /\ m'[p].bound = inc /\ m'[p].knownInc = m[p].knownInc /\ (m[p].snap \/ m[p].from < m'[p].to)
        /\ m'[p].pc = IF m[p].snap THEN "truncate" ELSE IF keyless THEN "invalidate" ELSE "write"
    BY <1>2, FlushMoves
  <2>2. OwnEvents(p)'
    BY <2>1, <1>i, <1>s, <1>1, <1>r DEF OwnEvents, SameRun, SameSpan
  <2>3. Pins(p)'
    BY <2>1, <1>i, <1>1 DEF Pins, Active, SameSpan
  <2> QED
    BY <2>2, <2>3, <1>1
<1>3. CASE Idle(p)
  <2>1. /\ m[p].pc = "stream" /\ m'[p].pc = "fence" /\ m[p].from = MaxPos /\ m'[p].to = MaxPos
        /\ SameSpan(p) /\ SamePin(p) /\ MaxPos # 0
    BY <1>3, FlushMoves, StateAssumption
  <2>2. OwnEvents(p)'
    BY <2>1, <1>i, <1>s, <1>1, <1>r DEF OwnEvents, SameRun, SameSpan
  <2>3. Pins(p)'
    BY <2>1, <1>i, <1>1 DEF Pins, Active, SameSpan, SamePin
  <2> QED
    BY <2>2, <2>3, <1>1
<1>4. CASE Truncate(p) \/ Write(p)
  <2>1. /\ (m[p].pc = "truncate" /\ m'[p].pc = "write") \/ (m[p].pc = "write" /\ m'[p].pc = "fence")
        /\ m'[p].to = m[p].to /\ SameSpan(p) /\ SamePin(p)
    BY <1>4, FlushMoves
  <2>2. OwnEvents(p)'
    BY <2>1, <1>i, <1>s, <1>1, <1>r DEF OwnEvents, SameRun, SameSpan
  <2>3. Pins(p)'
    BY <2>1, <1>i, <1>1 DEF Pins, Active, SameSpan, SamePin
  <2> QED
    BY <2>2, <2>3, <1>1
<1>5. CASE Capture(p)
  <2>1. /\ m[p].pc = "fence" /\ ~Replaced(p) /\ m'[p].pc = "save" /\ m'[p].to = m[p].to
        /\ m'[p].bound = inc /\ m'[p].knownInc = m[p].knownInc /\ SameSpan(p)
    BY <1>5, FlushMoves
  <2>2. OwnEvents(p)'
    BY <2>1, <1>i, <1>s, <1>1, <1>r DEF OwnEvents, SameRun, SameSpan
  <2>3. Pins(p)'
    BY <2>1, <1>i, <1>1 DEF Pins, Active, SameSpan, Replaced
  <2> QED
    BY <2>2, <2>3, <1>1
<1>6. CASE Recheck(p)
  <2>1. /\ m[p].pc = "recheck" /\ inc = m[p].bound /\ m'[p].pc = "prune"
        /\ m'[p].bound = 0 /\ m'[p].knownInc = inc /\ m'[p].from = m[p].to /\ m'[p].snap = FALSE
    BY <1>6, FlushMoves
  <2>2. OwnEvents(p)'
    BY <2>1, <1>i, <1>s, <1>1, <1>r DEF OwnEvents, SameRun
  <2>3. Pins(p)'
    BY <2>1, <1>i, <1>1 DEF Pins, Active
  <2> QED
    BY <2>2, <2>3, <1>1
<1> QED
  BY <1>2, <1>3, <1>4, <1>5, <1>6

(* ... writes events or deletes some, ... *)
LEMMA EventRuns ==
    ASSUME StateInv, RunsInv, NEW p \in Procs, Adding(p) \/ Prune(p)
    PROVE  OwnEvents(p)' /\ ReadEvents(p)' /\ Pins(p)'
<1>a. Acquire(p) \/ Step(p)
  BY DEF Adding, Step
<1>i. /\ OwnEvents(p) /\ Pins(p) /\ UNCHANGED <<inc, keyless>>
      /\ inc \in Nat /\ m[p].from \in Nat /\ m[p].to \in Nat /\ m[p].bound \in Nat
      /\ \A x \in Seen : x.pos \in Nat /\ x.inc \in Nat
  <2>1. m[p] \in Managers
    BY SeenTypes
  <2> QED
    BY <2>1, <1>a, EventsOfStep, SeenTypes DEF RunsInv, Managers
<1>1. /\ Active(p) /\ m'[p].pc \in ActiveSteps /\ m'[p].pc # "begin" /\ SameRun(p) /\ SameSpan(p)
  BY EventMoves DEF Adding, Active, ActiveSteps
<1>2. /\ \/ m[p].pc = "mark" /\ m'[p].pc = "prune" /\ SamePin(p)
         \/ m[p].pc = "invalidate" /\ m'[p].pc = "write" /\ m'[p].bound = 0 /\ m'[p].knownInc = 0
            /\ m'[p].to = m[p].to
         \/ m[p].pc = "save" /\ m'[p].pc = "recheck" /\ SamePin(p) /\ m'[p].to = m[p].to
         \/ m[p].pc = "prune" /\ m'[p].pc \in {"prune", "stream"} /\ SamePin(p)
      /\ WriteEvents(p) => m[p].pc = "save"
  BY EventMoves DEF Adding
<1>3. \A x \in Seen' :
          \/ x \in Seen
          \/ /\ x.gen = m[p].gen /\ x.run = m[p].run
             /\ \/ x.pos = 0 /\ x.inc = 0
                \/ m[p].pc = "save" /\ x.pos \in {0, m[p].to} /\ x.inc \in {0, m[p].bound}
  <2>1. ~BeginRun(p) /\ ~Supersede(p)
    BY <1>1, <1>2, OtherMoves DEF BeginRun, At, ActiveSteps
  <2> QED
    BY <1>a, <1>2, <2>1, EventsOfStep DEF NewEvent
<1>4. OwnEvents(p)'
  <2>1. ASSUME NEW x \in Seen', x.run = m[p].run
        PROVE  /\ x.gen = m[p].gen
               /\ x.pos <= IF m'[p].pc = "recheck" THEN m[p].to ELSE m[p].from
               /\ m'[p].pc \in {"save", "recheck"} => x.inc <= m[p].bound
    <3>1. CASE x \in Seen
      <4>1. /\ x.gen = m[p].gen /\ x.pos <= m[p].from
            /\ m[p].pc = "save" => x.inc <= m[p].bound
        BY <2>1, <3>1, <1>i, <1>1, <1>2 DEF OwnEvents
      <4>2. m[p].pc = "save" => m[p].from <= m[p].to
        BY <1>i DEF Pins
      <4> QED
        BY <3>1, <4>1, <4>2, <1>2, <1>i
    <3>2. CASE x \notin Seen
      BY <3>2, <1>3, <1>2, <1>i
    <3> QED
      BY <3>1, <3>2
  <2>2. m'[p].pc \in {"save", "recheck"} => m'[p].to = m[p].to /\ SamePin(p)
    BY <1>2
  <2> QED
    BY <2>1, <2>2, <1>1 DEF OwnEvents, SameRun, SameSpan, SamePin
<1>5. ReadEvents(p)'
  BY <1>1 DEF ReadEvents
<1>6. Pins(p)'
  BY <1>1, <1>2, <1>i DEF Pins, Active, SamePin, SameSpan
<1> QED
  BY <1>4, <1>5, <1>6

(* ... or does something else. *)
LEMMA OtherRuns ==
    ASSUME StateInv, RunsInv, NEW p \in Procs, UNCHANGED <<inc, keyless>>,
           Acquire(p) \/ FenceLost(p) \/ Supersede(p) \/ Verify(p) \/ Refuses(p)
    PROVE  OwnEvents(p)' /\ ReadEvents(p)' /\ Pins(p)'
<1>1. /\ m'[p].pc \in {"off", "load", "supersede", "verify"}
      /\ m'[p].bound \in {0, m[p].bound} /\ m'[p].knownInc \in {0, m[p].knownInc}
  BY OtherMoves
<1>2. m[p].bound <= inc /\ m[p].knownInc <= inc /\ inc \in Nat
  BY SeenTypes DEF RunsInv, Pins
<1> QED
  BY <1>1, <1>2 DEF OwnEvents, ReadEvents, Pins, Active, ActiveSteps

(* Every step keeps this. *)
LEMMA RunsNext == ASSUME StateInv, RunsInv, [Next]_vars PROVE RunsInv'
<1>1. Ledger'
  BY LedgerStep
<1>2. ASSUME NEW p \in Procs, Acquire(p) \/ Step(p), NEW q \in Procs
      PROVE  OwnEvents(q)' /\ ReadEvents(q)' /\ Pins(q)'
  <2>1. CASE q # p
    BY <1>2, <2>1, BystanderRuns
  <2>2. CASE q = p
    <3>1. UNCHANGED <<inc, keyless>>
      BY <1>2, EventsOfStep
    <3> QED
      BY <1>2, <2>2, <3>1, StartRuns, FlushRuns, EventRuns, OtherRuns
         DEF Step, Adding, BindRefused, WriteRefused, CaptureRefused, RecheckRefused, NoticeLoss
  <2> QED
    BY <2>1, <2>2
<1>3. ASSUME (\E p \in Procs : LoseSession(p)) \/ Replace \/ UNCHANGED vars, NEW q \in Procs
      PROVE  OwnEvents(q)' /\ ReadEvents(q)' /\ Pins(q)'
  <2>1. UNCHANGED <<events, m, keyless>> /\ inc' \in {inc, inc + 1}
    BY <1>3 DEF LoseSession, Replace, vars
  <2>2. Seen' = Seen
    BY <2>1 DEF Seen
  <2>3. OwnEvents(q) /\ ReadEvents(q) /\ Pins(q)
    BY DEF RunsInv
  <2>4. m[q].bound <= inc' /\ m[q].knownInc <= inc'
    <3>1. m[q].bound \in Nat /\ m[q].knownInc \in Nat /\ inc \in Nat
      BY SeenTypes DEF Managers
    <3> QED
      BY <2>1, <2>3, <3>1 DEF Pins
  <2> QED
    BY <2>1, <2>2, <2>3, <2>4 DEF OwnEvents, ReadEvents, Pins, Active
<1> QED
  BY <1>1, <1>2, <1>3 DEF RunsInv, Next

----------------------------------------------------------------------------
(* What the answer may become. *)

(* The answer is no further than all events of the generations that have a *)
(* certified snapshot.                                                     *)
LEMMA AnswerAtMost ==
    ASSUME NEW A \in SUBSET EventSet, NEW i, NEW n \in Nat,
           \A s \in A : Certifies(A, s, i) => \A x \in A : x.gen = s.gen => x.pos <= n
    PROVE  ResumePosition(A, i) <= n
<1> DEFINE S == PositionsOf(Certified(A, i)) \cup PositionsOf(Checkpoints(A, i))
<1>1. \A z \in S : z <= n
  BY DEF PositionsOf, Certified, Checkpoints
<1>2. ResumePosition(A, i) = Max0(S) /\ S \in SUBSET (0..MaxPos) /\ MaxPos \in Nat
  BY AnswerMax, StateAssumption
<1> HIDE DEF S
<1>3. Max0(S) \in S \cup {0}
  BY <1>2, MaxBounded
<1>4. Max0(S) <= n
  <2>1. CASE Max0(S) \in S
    BY <2>1, <1>1
  <2>2. CASE Max0(S) = 0
    BY <2>2
  <2> QED
    BY <2>1, <2>2, <1>3
<1> QED
  BY <1>2, <1>4

(* Events without a position take it no further. *)
LEMMA AnswerShrinks ==
    ASSUME NEW A \in SUBSET EventSet, NEW N \in SUBSET EventSet, \A x \in N : x.pos = 0, NEW i
    PROVE  ResumePosition(A \cup N, i) <= ResumePosition(A, i)
<1> DEFINE B == A \cup N
           S == PositionsOf(Certified(A, i)) \cup PositionsOf(Checkpoints(A, i))
           T == PositionsOf(Certified(B, i)) \cup PositionsOf(Checkpoints(B, i))
<1>1. ASSUME NEW s \in B, Certifies(B, s, i)
      PROVE  s \in A /\ Certifies(A, s, i)
  <2> DEFINE d == Event(s.gen, s.run, "destination", s.pos, s.epoch, i)
  <2>1. /\ s.kind = "snapshot" /\ Stands(B, s) /\ Stands(B, d) /\ d \in B /\ d.pos = s.pos
        /\ \A x \in B : x.gen = s.gen => x.run = s.run
    BY <1>1 DEF Certifies, Event
  <2> HIDE DEF d
  <2>2. s \in A /\ d \in A
    BY <2>1 DEF Stands
  <2>3. Stands(A, s) /\ Stands(A, d)
    BY <2>1 DEF Stands
  <2> QED
    BY <2>1, <2>2, <2>3 DEF Certifies, d
<1>2. \A z \in T : z \in S \cup {0}
  <2> SUFFICES ASSUME NEW x \in Certified(B, i) \cup Checkpoints(B, i), x.pos # 0
               PROVE  x \in Certified(A, i) \cup Checkpoints(A, i)
    BY DEF PositionsOf
  <2>1. x \in A
    BY DEF Certified, Checkpoints
  <2> QED
    BY <2>1, <1>1 DEF Certified, Checkpoints
<1>3. /\ ResumePosition(A, i) = Max0(S) /\ S \in SUBSET (0..MaxPos)
      /\ ResumePosition(B, i) = Max0(T) /\ T \in SUBSET (0..MaxPos) /\ MaxPos \in Nat
  <2>1. B \in SUBSET EventSet
    OBVIOUS
  <2> HIDE DEF B
  <2> QED
    BY <2>1, AnswerMax, StateAssumption
<1> HIDE DEF S, T
<1>4. Max0(T) \in T \cup {0} /\ Max0(S) \in 0..MaxPos /\ \A z \in S : z <= Max0(S)
  BY <1>3, MaxBounded
<1>5. Max0(T) <= Max0(S)
  <2>1. Max0(T) = 0 \/ Max0(T) \in S
    BY <1>2, <1>4
  <2>2. 0 <= Max0(S)
    BY <1>3, <1>4
  <2> QED
    BY <2>1, <2>2, <1>4
<1> QED
  BY <1>3, <1>5

(* What the table holds up to a position it holds up to one before. *)
LEMMA Prefix ==
    ASSUME NEW a \in Nat, NEW b \in Nat, a <= b, NEW R, 1..b \subseteq R
    PROVE  1..a \subseteq R
OBVIOUS

(* While no other run has begun, a run that has only the marker of its     *)
(* snapshot has nothing to resume from.                                    *)
LEMMA SnapshotInProgress ==
    ASSUME StateInv, RunsInv, NEW p \in Procs, m[p].pc = "truncate", ~Overtaken(p)
    PROVE  Answer = 0
<1>1. Active(p) /\ m[p].from = 0
  BY DEF Active, ActiveSteps, RunsInv, Pins
<1>2. PICK e \in events : e.gen = m[p].gen /\ e.run = m[p].run
  BY <1>1, NobodyElse
<1>t. events \in SUBSET EventSet /\ events \subseteq Seen /\ \A x \in Seen : x.gen \in Nat /\ x.pos \in Nat
  BY SeenTypes DEF StateInv, StateTypes
<1>3. ASSUME NEW s \in events, Certifies(events, s, inc) PROVE FALSE
  <2>1. e.gen <= s.gen
    BY <1>3, <1>t, CertifiedIsLatest
  <2>2. s.gen = m[p].gen /\ s.run = m[p].run
    BY <2>1, <1>1, <1>2, <1>t, NobodyElse
  <2>3. s.pos <= 0
    BY <2>2, <1>1, <1>t DEF RunsInv, OwnEvents
  <2>4. s.pos # 0
    BY <1>3 DEF Certifies, Stands
  <2> QED
    BY <2>3, <2>4, <1>t
<1> QED
  BY <1>3, <1>t, NothingCertified DEF Answer

(* A run that alone has begun completes what the table holds.              *)
LEMMA CompletionHolds ==
    ASSUME StateInv, RunsInv, NEW p \in Procs, WriteEvents(p), ~Overtaken(p), Keeps(p)
    PROVE  1..Answer' \subseteq rows
<1>1. /\ m[p].pc = "save" /\ m'[p].pc = "recheck" /\ m'[p].to = m[p].to /\ SameRun(p) /\ SamePin(p)
      /\ \E es \in SUBSET EventSet : Extends(p, es)
  BY EventMoves
<1>2. Active(p) /\ UNCHANGED inc
  BY <1>1 DEF Active, ActiveSteps, WriteEvents
<1>3. PICK es \in SUBSET EventSet : Extends(p, es)
  BY <1>1
<1>t. /\ events' \in SUBSET EventSet /\ m[p].to \in Nat /\ m[p].gen \in Nat /\ inc \in Nat
      /\ m[p].bound \in Nat /\ events \subseteq Seen /\ \A x \in events' : x.gen \in Nat /\ x.inc \in Nat
  <2>1. events' \in SUBSET EventSet
    BY OwnEventsStep DEF StateInv, StateTypes
  <2>2. m[p] \in Managers
    BY SeenTypes
  <2> QED
    BY <2>1, <2>2, SeenTypes DEF Managers, EventSet
<1>r. OwnEvents(p)'
  BY EventRuns DEF Adding
<1>4. PICK e \in events : e.gen = m[p].gen /\ e.run = m[p].run
  BY <1>2, NobodyElse
<1>5. \A x \in events' : x.gen < m[p].gen \/ (x.gen = m[p].gen /\ x.run = m[p].run)
  BY <1>2, <1>3, <1>t, NobodyElse DEF Extends
<1>6. \A x \in events' : x.run = m[p].run => x.pos <= m[p].to /\ x.inc <= m[p].bound
  <2>1. events' \subseteq Seen'
    BY DEF Seen
  <2> QED
    BY <2>1, <1>r, <1>1 DEF OwnEvents, Active, ActiveSteps, SameRun, SamePin
<1>7. ASSUME NEW s \in events', Certifies(events', s, inc)
      PROVE  s.gen = m[p].gen /\ s.run = m[p].run
  <2>1. e \in events'
    BY <1>3 DEF Extends
  <2>2. e.gen <= s.gen
    BY <1>7, <2>1, <1>t, CertifiedIsLatest
  <2> QED
    BY <2>2, <1>4, <1>5, <1>t
<1>8. ResumePosition(events', inc) <= m[p].to
  <2>1. \A s \in events' : Certifies(events', s, inc) =>
            \A x \in events' : x.gen = s.gen => x.pos <= m[p].to
    BY <1>5, <1>6, <1>7, <1>t
  <2> QED
    BY <2>1, <1>t, AnswerAtMost
<1>9. ResumePosition(events', inc) \in 0..MaxPos
  BY <1>t, AnswerType
<1>10. CASE Replaced(p)
  <2>1. m[p].bound < inc
    <3>1. m[p].bound # inc /\ m[p].bound <= inc
      BY <1>1, <1>10 DEF Replaced, RunsInv, Pins
    <3> QED
      BY <3>1, <1>t
  <2>2. \A s \in events' : ~Certifies(events', s, inc)
    <3> SUFFICES ASSUME NEW s \in events', Certifies(events', s, inc) PROVE FALSE
      OBVIOUS
    <3>1. s.run = m[p].run
      BY <1>7
    <3>2. PICK d \in events' : d.run = m[p].run /\ d.inc = inc
      BY <3>1 DEF Certifies, Event
    <3>3. d.inc <= m[p].bound
      BY <3>2, <1>6
    <3> QED
      BY <2>1, <3>2, <3>3, <1>t
  <2>3. ResumePosition(events', inc) = 0
    BY <2>2, <1>t, NothingCertified
  <2> QED
    BY <2>3, <1>2 DEF Answer
<1>11. CASE ~Replaced(p)
  <2>1. ~Behind(p)
    BY <1>1 DEF Behind, Overtaken
  <2>2. 1..m[p].to \subseteq rows
    BY <1>1, <1>2, <1>11, <2>1 DEF Keeps
  <2>3. Answer' = ResumePosition(events', inc)
    BY <1>2 DEF Answer
  <2> QED
    BY <2>2, <2>3, <1>8, <1>9, <1>t, Prefix
<1> QED
  BY <1>10, <1>11

----------------------------------------------------------------------------
(* What the table holds, step by step. *)

(* What a process takes for granted stays while others go on, but for a    *)
(* truncate.                                                               *)
LEMMA BystanderKeeps ==
    ASSUME StateInv, RunsInv, NEW p \in Procs, Acquire(p) \/ Step(p), rows \subseteq rows',
           NEW q \in Procs, q # p, Keeps(q)
    PROVE  Keeps(q)'
<1>1. m'[q] = m[q] /\ UNCHANGED inc
  BY EventsOfStep
<1>2. RunEventsStay
  BY RunEventsStep DEF Next
<1>3. Replaced(q)' = Replaced(q) /\ Active(q)' = Active(q) /\ SameRun(q)
  BY <1>1 DEF Replaced, Active, SameRun
<1>4. (Active(q) \/ m[q].pc = "begin") /\ ~Behind(q)' => ~Behind(q)
  BY <1>1, <1>2, <1>3, BehindStays DEF Active, ActiveSteps
<1> QED
  BY <1>1, <1>3, <1>4 DEF Keeps

(* A run that alone has begun truncates a table that nobody speaks of. *)
LEMMA TruncateKeeps ==
    ASSUME StateInv, RunsInv, NEW p \in Procs, Truncate(p), ~Overtaken(p), NEW q \in Procs, Keeps(q)
    PROVE  Keeps(q)'
<1>a. /\ \A r \in Procs : r # p => m'[r] = m[r]
      /\ UNCHANGED <<inc, events>>
  BY EventsOfStep DEF Step, Truncate
<1>1. /\ m[p].pc = "truncate" /\ m'[p].pc = "write" /\ SameRun(p) /\ SameSpan(p)
  BY FlushMoves
<1>2. Active(p) /\ m[p].from = 0
  BY <1>1 DEF Active, ActiveSteps, RunsInv, Pins
<1>3. CASE q = p
  <2>1. m'[p].from = 0
    BY <1>1, <1>2 DEF SameSpan
  <2> QED
    BY <1>1, <1>3, <2>1 DEF Keeps
<1>4. CASE q # p
  <2>m. m'[q] = m[q]
    BY <1>4, <1>a
  <2>b. Behind(q)' = Behind(q) /\ Replaced(q)' = Replaced(q)
    BY <2>m, <1>a DEF Behind, Replaced
  <2>1. CASE Active(q)
    <3>1. m[q].pc # "begin" /\ m[q].run # m[p].run
      BY <1>4, <2>1, OwnRunEvent DEF Active, ActiveSteps, StateInv, RunIdsDiffer
    <3>2. Behind(q)
      <4>1. PICK e \in events : e.kind = "run" /\ e.gen = m[p].gen /\ e.run = m[p].run
        BY <1>2, NobodyElse
      <4>2. m[q].gen < m[p].gen
        <5> DEFINE r == RunEvent(q)
        <5>1. r \in Seen /\ r.gen = m[q].gen /\ r.run = m[q].run
          BY <2>1, OwnRunEvent
        <5> HIDE DEF r
        <5> QED
          BY <5>1, <3>1, <1>2, NobodyElse
      <4>3. m[q].gen \in Nat /\ m[p].gen \in Nat
        BY <1>2, <2>1, OwnRunEvent
      <4> QED
        BY <3>1, <4>1, <4>2, <4>3 DEF Behind
    <3> QED
      BY <2>m, <2>b, <2>1, <3>1, <3>2 DEF Keeps, Active
  <2>2. CASE m[q].pc = "begin" /\ m[q].from # 0
    <3>1. PICK s \in m[q].entries : s.gen = m[q].gen /\ s.pos # 0
      BY <2>2 DEF RunsInv, ReadEvents
    <3>2. s \in Seen /\ s.pos \in Nat /\ m[q].gen \in Nat /\ m[p].gen \in Nat
      BY <3>1, SeenTypes DEF Managers
    <3>3. ~(s.run = m[p].run)
      <4>1. s.run = m[p].run => s.pos <= 0
        BY <1>1, <1>2, <3>2 DEF RunsInv, OwnEvents
      <4> QED
        BY <3>1, <3>2, <4>1
    <3>4. m[q].gen < m[p].gen
      BY <1>2, <3>1, <3>2, <3>3, NobodyElse
    <3>5. PICK e \in events : e.kind = "run" /\ e.gen = m[p].gen
      BY <1>2, NobodyElse
    <3>6. Behind(q)
      BY <2>2, <3>2, <3>4, <3>5 DEF Behind
    <3> QED
      BY <2>m, <2>b, <2>2, <3>6 DEF Keeps, Active, ActiveSteps
  <2>3. CASE ~Active(q) /\ ~(m[q].pc = "begin" /\ m[q].from # 0)
    BY <2>m, <2>3 DEF Keeps, Active, ActiveSteps
  <2> QED
    BY <2>1, <2>2, <2>3
<1> QED
  BY <1>3, <1>4

(* A process that begins a run takes for granted what it read. *)
LEMMA StartKeeps ==
    ASSUME StateInv, RunsInv, NEW p \in Procs, Load(p) \/ BeginRun(p),
           Keeps(p), CertifiedRowsPresent
    PROVE  Keeps(p)'
<1>1. CASE Load(p)
  <2>1. m'[p].pc = "begin" /\ m'[p].from = Answer /\ rows' = rows
    BY <1>1, StartMoves DEF Load
  <2> QED
    BY <2>1 DEF Keeps, CertifiedRowsPresent
<1>2. CASE BeginRun(p)
  <2> DEFINE e == Event(m[p].gen + 1, ids + 1, "run", 0, 0, 0)
  <2>1. /\ m[p].pc = "begin" /\ m'[p].pc = "mark" /\ m'[p].run = ids + 1 /\ m'[p].gen = m[p].gen + 1
        /\ SamePin(p) /\ SameSpan(p) /\ events' = events \cup {e}
        /\ UNCHANGED <<rows, inc>>
    BY <1>2, StartMoves DEF BeginRun
  <2> HIDE DEF e
  <2>2. Replaced(p)' = Replaced(p)
    BY <2>1 DEF Replaced, SamePin
  <2>3. Behind(p) => Behind(p)'
    <3> SUFFICES ASSUME Behind(p) PROVE Behind(p)'
      OBVIOUS
    <3>1. PICK z \in events : z.kind = "run" /\ z.gen > m[p].gen
      BY <2>1 DEF Behind
    <3>2. z.gen \in Nat /\ m[p].gen \in Nat /\ z.run # ids + 1
      BY SeenTypes DEF Managers
    <3>3. z.gen >= m[p].gen + 1
      BY <3>1, <3>2
    <3> QED
      BY <2>1, <3>1, <3>2, <3>3 DEF Behind
  <2> QED
    BY <2>1, <2>2, <2>3 DEF Keeps, SameSpan
<1> QED
  BY <1>1, <1>2

(* A run that goes on is as far behind as before. *)
LEMMA NotBehind ==
    ASSUME StateInv, RunsInv, [Next]_vars, NEW p \in Procs,
           Active(p), m'[p].pc \in ActiveSteps, SameRun(p), ~Behind(p)'
    PROVE  ~Behind(p)
BY RunEventsStep, BehindStays DEF Active, ActiveSteps

(* What a run writes is there when it says so. *)
LEMMA FlushKeeps ==
    ASSUME StateInv, RunsInv, NEW p \in Procs,
           Bind(p) \/ Idle(p) \/ Write(p) \/ Capture(p) \/ Recheck(p), Keeps(p)
    PROVE  Keeps(p)'
<1>1. Active(p) /\ m'[p].pc \in ActiveSteps /\ SameRun(p)
  BY FlushMoves DEF Active, ActiveSteps
<1>2. ~Behind(p)' => ~Behind(p)
  BY <1>1, NotBehind DEF Next, Step
<1>i. UNCHANGED inc /\ Pins(p) /\ inc # 0
  BY EventsOfStep DEF RunsInv, Step, StateInv, StateTypes
<1>3. CASE Bind(p)
  <2>1. /\ m[p].pc = "stream" /\ ~Replaced(p) /\ SameSpan(p) /\ UNCHANGED rows
        /\ m'[p].bound = inc /\ m'[p].knownInc = m[p].knownInc
        /\ m'[p].pc = IF m[p].snap THEN "truncate" ELSE IF keyless THEN "invalidate" ELSE "write"
    BY <1>3, FlushMoves DEF Bind
  <2>2. ~Replaced(p)'
    BY <2>1, <1>i DEF Replaced
  <2> QED
    BY <1>1, <1>2, <2>1, <2>2 DEF Keeps, SameSpan
<1>4. CASE Idle(p)
  <2>1. /\ m[p].pc = "stream" /\ m'[p].pc = "fence" /\ m[p].from = MaxPos /\ m'[p].to = MaxPos
        /\ SameSpan(p) /\ SamePin(p) /\ UNCHANGED rows
    BY <1>4, FlushMoves DEF Idle
  <2>2. Replaced(p)' = Replaced(p)
    BY <2>1, <1>i DEF Replaced, SamePin
  <2> QED
    BY <1>1, <1>2, <2>1, <2>2 DEF Keeps, SameSpan
<1>5. CASE Write(p)
  <2>1. /\ m[p].pc = "write" /\ m'[p].pc = "fence" /\ m'[p].to = m[p].to
        /\ SameSpan(p) /\ SamePin(p) /\ rows' = rows \cup (m[p].from + 1)..m[p].to
    BY <1>5, FlushMoves DEF Write
  <2>2. Replaced(p)' = Replaced(p)
    BY <2>1, <1>i DEF Replaced, SamePin
  <2>3. m[p].from \in Nat /\ m[p].to \in Nat
    BY SeenTypes DEF Managers
  <2>4. 1..m[p].from \subseteq rows => 1..m[p].to \subseteq rows'
    <3> SUFFICES ASSUME 1..m[p].from \subseteq rows, NEW i \in 1..m[p].to PROVE i \in rows'
      OBVIOUS
    <3>1. i \in 1..m[p].from \/ i \in (m[p].from + 1)..m[p].to
      BY <2>3
    <3> QED
      BY <2>1, <3>1
  <2> QED
    BY <1>1, <1>2, <2>1, <2>2, <2>4 DEF Keeps, SameSpan
<1>6. CASE Capture(p)
  <2>1. /\ m[p].pc = "fence" /\ ~Replaced(p) /\ m'[p].pc = "save" /\ m'[p].to = m[p].to
        /\ SameSpan(p) /\ UNCHANGED rows
    BY <1>6, FlushMoves DEF Capture
  <2> QED
    BY <1>1, <1>2, <2>1 DEF Keeps, SameSpan
<1>7. CASE Recheck(p)
  <2>1. /\ m[p].pc = "recheck" /\ inc = m[p].bound /\ m'[p].pc = "prune"
        /\ m'[p].from = m[p].to /\ UNCHANGED rows
    BY <1>7, FlushMoves DEF Recheck
  <2>2. ~Replaced(p)
    BY <2>1, <1>i DEF Pins, Replaced
  <2> QED
    BY <1>1, <1>2, <2>1, <2>2 DEF Keeps
<1> QED
  BY <1>3, <1>4, <1>5, <1>6, <1>7

(* The events of a run leave the table alone. *)
LEMMA EventKeeps ==
    ASSUME StateInv, RunsInv, NEW p \in Procs, Adding(p) \/ Prune(p), Keeps(p)
    PROVE  Keeps(p)'
<1>1. /\ Active(p) /\ m'[p].pc \in ActiveSteps /\ SameRun(p) /\ SameSpan(p)
      /\ \/ m'[p].pc \in {"prune", "stream"} /\ SamePin(p)
         \/ m[p].pc = "invalidate" /\ m'[p].pc = "write"
         \/ m[p].pc = "save" /\ m'[p].pc = "recheck" /\ SamePin(p) /\ m'[p].to = m[p].to
  BY EventMoves DEF Adding, Active, ActiveSteps
<1>2. ~Behind(p)' => ~Behind(p)
  BY <1>1, NotBehind DEF Next, Step, Adding
<1>3. UNCHANGED <<inc, rows>>
  BY DEF Adding, MarkInProgress, InvalidateSnapshot, WriteEvents, Prune
<1>4. SamePin(p) => Replaced(p)' = Replaced(p)
  BY <1>3 DEF Replaced, SamePin
<1> QED
  BY <1>1, <1>2, <1>3, <1>4 DEF Keeps, SameSpan

(* Whatever a process does, what it takes for granted is there. *)
LEMMA ActorKeeps ==
    ASSUME StateInv, RunsInv, NEW p \in Procs, Acquire(p) \/ Step(p), ~Truncate(p),
           Keeps(p), CertifiedRowsPresent
    PROVE  Keeps(p)'
<1>1. CASE Acquire(p) \/ FenceLost(p) \/ Supersede(p) \/ Verify(p) \/ Refuses(p)
  <2>1. m'[p].pc \in {"off", "load", "supersede", "verify"}
    BY <1>1, OtherMoves
  <2> QED
    BY <2>1 DEF Keeps, Active, ActiveSteps
<1> QED
  BY <1>1, StartKeeps, FlushKeeps, EventKeeps
     DEF Step, Adding, BindRefused, WriteRefused, CaptureRefused, RecheckRefused, NoticeLoss

(* A position that is certified has its rows, whatever a process does, but *)
(* for a truncate.                                                         *)
LEMMA CertifiedStep ==
    ASSUME StateInv, RunsInv, NEW p \in Procs, Acquire(p) \/ Step(p), ~Truncate(p),
           Keeps(p), CertifiedRowsPresent
    PROVE  CertifiedRowsPresent' /\ rows \subseteq rows'
<1>u. UNCHANGED inc /\ [Next]_vars
  BY EventsOfStep DEF Next
<1>r. rows \subseteq rows'
  BY DEF Acquire, Step, Load, BeginRun, MarkInProgress, Prune, Bind, Idle, BindRefused,
         InvalidateSnapshot, Write, WriteRefused, FenceLost, Capture, CaptureRefused, WriteEvents,
         Recheck, RecheckRefused, Supersede, Verify, NoticeLoss, Refuses
<1> SUFFICES CertifiedRowsPresent'
  BY <1>r
<1>t. /\ events \in SUBSET EventSet /\ events' \in SUBSET EventSet
      /\ Answer \in Nat /\ Answer' \in Nat
  <2>1. events \in SUBSET EventSet /\ events' \in SUBSET EventSet
    BY <1>u, StateNext DEF StateInv, StateTypes
  <2>2. ResumePosition(events, inc) \in 0..MaxPos /\ ResumePosition(events', inc) \in 0..MaxPos
        /\ MaxPos \in Nat
    BY <2>1, AnswerType, StateAssumption
  <2> QED
    BY <2>1, <2>2, <1>u DEF Answer
<1>1. ASSUME Answer' <= Answer PROVE CertifiedRowsPresent'
  BY <1>1, <1>r, <1>t, Prefix DEF CertifiedRowsPresent
<1>2. CASE events' = events \/ Prune(p)
  <2>1. Answer' = Answer
    BY <1>2, <1>u, PruneStep DEF Answer
  <2>2. Answer' <= Answer
    BY <2>1, <1>t
  <2> QED
    BY <2>2, <1>1
<1>3. ASSUME NEW N \in SUBSET EventSet, events' = events \cup N, \A x \in N : x.pos = 0
      PROVE  CertifiedRowsPresent'
  <2>1. ResumePosition(events \cup N, inc) <= ResumePosition(events, inc)
    BY <1>3, <1>t, AnswerShrinks
  <2> QED
    BY <2>1, <1>1, <1>3, <1>u DEF Answer
<1>4. CASE MarkInProgress(p) \/ InvalidateSnapshot(p)
  <2>1. PICK es \in SUBSET EventSet : Extends(p, es)
    BY <1>4, EventMoves
  <2>2. m[p].pc # "save"
    BY <1>4, EventMoves
  <2>3. events' = events \cup es /\ \A x \in es : x.pos = 0
    BY <2>1, <2>2 DEF Extends
  <2> QED
    BY <2>3, <1>3
<1>5. CASE BeginRun(p) \/ Supersede(p)
  <2> DEFINE e == Event(m[p].gen + 1, ids + 1, "run", 0, 0, 0)
             z == Event(m[p].floor + 1, ids + 1, "run", 0, 0, 0)
  <2>1. e.pos = 0 /\ z.pos = 0
    BY DEF Event
  <2>2. events' = events \cup {e} \/ events' = events \cup {z}
    BY <1>5, StartMoves DEF Supersede
  <2> HIDE DEF e, z
  <2>3. PICK y \in {e, z} : events' = events \cup {y}
    BY <2>2
  <2>4. {y} \in SUBSET EventSet /\ \A x \in {y} : x.pos = 0
    BY <2>1, <2>3, <1>t
  <2> QED
    BY <2>3, <2>4, <1>3
<1>6. CASE WriteEvents(p)
  <2>1. CASE Overtaken(p)
    <3>1. Answer' \in {0, Answer}
      BY <1>6, <2>1, <1>u, OwnEventsInert
    <3>2. Answer' <= Answer
      BY <3>1, <1>t
    <3> QED
      BY <3>2, <1>1
  <2>2. CASE ~Overtaken(p)
    BY <1>6, <2>2, <1>r, CompletionHolds DEF CertifiedRowsPresent
  <2> QED
    BY <2>1, <2>2
<1>7. CASE events' # events
  <2>1. BeginRun(p) \/ MarkInProgress(p) \/ InvalidateSnapshot(p) \/ WriteEvents(p)
        \/ Supersede(p) \/ Prune(p)
    BY <1>7, ZenonT(60)
       DEF Step, Acquire, Load, Bind, Idle, BindRefused, Truncate, Write, WriteRefused,
           FenceLost, Capture, CaptureRefused, Recheck, RecheckRefused, Verify, NoticeLoss, Refuses
  <2> QED
    BY <2>1, <1>2, <1>4, <1>5, <1>6
<1> QED
  BY <1>2, <1>7, <1>r

(* A new table has nothing that a run would resume, and no run takes       *)
(* anything for granted, but one that forgot which table it wrote to.      *)
LEMMA ReplaceKeeps ==
    ASSUME StateInv, RunsInv, Replace, ~unpinned'
    PROVE  CertifiedRowsPresent' /\ \A q \in Procs : Keeps(q)'
<1>u. UNCHANGED <<events, m, keyless>> /\ inc' = inc + 1 /\ rows' = {} /\ inc \in Nat
  BY SeenTypes DEF Replace
<1>1. Answer' = 0
  <2>1. \A s \in events : ~Certifies(events, s, inc')
    <3>1. \A x \in events : x.inc \in Nat /\ x.inc <= inc
      BY SeenTypes DEF RunsInv, Ledger
    <3>2. \A x \in events : x.inc # inc'
      BY <3>1, <1>u
    <3> QED
      BY <3>2 DEF Certifies, Event
  <2>2. events \in SUBSET EventSet
    BY DEF StateInv, StateTypes
  <2> QED
    BY <2>1, <2>2, <1>u, NothingCertified DEF Answer
<1>2. CertifiedRowsPresent'
  BY <1>1 DEF CertifiedRowsPresent
<1>3. ASSUME NEW q \in Procs PROVE Keeps(q)'
  <2>1. ~(keyless /\ ~m[q].snap /\ m[q].pc \in {"invalidate", "write", "fence"})
    BY DEF Replace
  <2>2. /\ m[q].bound \in Nat /\ m[q].knownInc \in Nat
        /\ m[q].bound <= inc /\ m[q].knownInc <= inc /\ Pins(q)
    BY SeenTypes DEF RunsInv, Pins, Managers
  <2>3. m[q].pc # "invalidate"
    BY <2>1, <2>2 DEF Pins
  <2>4. ASSUME Active(q) \/ m[q].pc = "begin", ~Replaced(q)'
        PROVE  m[q].from = 0 /\ m[q].pc \notin {"fence", "save", "recheck"}
    <3>1. m[q].bound = 0 /\ m[q].knownInc = 0
      BY <2>2, <2>4, <1>u DEF Replaced
    <3>2. m[q].snap
      BY <2>1, <2>2, <2>4, <3>1 DEF Pins
    <3> QED
      BY <2>2, <2>4, <3>1, <3>2 DEF Pins
  <2> QED
    BY <2>3, <2>4, <1>u DEF Keeps, Active
<1> QED
  BY <1>2, <1>3

(* Every step keeps what the table holds. *)
LEMMA RowsNext == ASSUME StateInv, RunsInv, RowsInv, [Next]_vars PROVE RowsInv'
<1>1. (late => late') /\ (unpinned => unpinned')
  <2>1. ASSUME NEW p \in Procs, Acquire(p) \/ Step(p)
        PROVE  UNCHANGED unpinned /\ (late => late')
    <3>1. CASE Truncate(p)
      BY <3>1 DEF Truncate
    <3>2. CASE ~Truncate(p)
      <4>1. UNCHANGED <<late, unpinned>>
        BY <2>1, <3>2
           DEF Step, Acquire, Load, BeginRun, MarkInProgress, Prune, Bind, Idle, BindRefused,
             InvalidateSnapshot, Write, WriteRefused, FenceLost, Capture, CaptureRefused,
             WriteEvents, Recheck, RecheckRefused, Supersede, Verify, NoticeLoss, Refuses
      <4> QED
        BY <4>1
    <3> QED
      BY <3>1, <3>2
  <2>2. CASE (\E p \in Procs : LoseSession(p)) \/ UNCHANGED vars
    BY <2>2 DEF LoseSession, vars
  <2>3. CASE Replace
    BY <2>3 DEF Replace
  <2> QED
    BY <2>1, <2>2, <2>3 DEF Next
<1> SUFFICES ASSUME ~late', ~unpinned', CertifiedRowsPresent, \A q \in Procs : Keeps(q)
             PROVE  CertifiedRowsPresent' /\ \A q \in Procs : Keeps(q)'
  BY <1>1 DEF RowsInv
<1>2. ASSUME NEW p \in Procs, Truncate(p)
      PROVE  CertifiedRowsPresent' /\ \A q \in Procs : Keeps(q)'
  <2>1. ~Overtaken(p) /\ m[p].pc = "truncate" /\ UNCHANGED <<events, inc>>
    BY <1>2 DEF Truncate, At
  <2>2. Answer' = 0
    BY <2>1, SnapshotInProgress DEF Answer
  <2> QED
    BY <1>2, <2>1, <2>2, TruncateKeeps DEF CertifiedRowsPresent
<1>3. ASSUME NEW p \in Procs, Acquire(p) \/ Step(p), ~Truncate(p)
      PROVE  CertifiedRowsPresent' /\ \A q \in Procs : Keeps(q)'
  <2>1. CertifiedRowsPresent' /\ rows \subseteq rows'
    BY <1>3, CertifiedStep
  <2>2. ASSUME NEW q \in Procs PROVE Keeps(q)'
    BY <1>3, <2>1, ActorKeeps, BystanderKeeps
  <2> QED
    BY <2>1, <2>2
<1>4. CASE (\E p \in Procs : LoseSession(p)) \/ UNCHANGED vars
  <2>1. UNCHANGED <<events, inc, rows, m>>
    BY <1>4 DEF LoseSession, vars
  <2> QED
    BY <2>1 DEF CertifiedRowsPresent, Answer, Keeps, Active, Behind, Replaced
<1> QED
  BY <1>2, <1>3, <1>4, ReplaceKeeps DEF Next

(* The invariants hold in every state. *)
LEMMA RunsInit == ASSUME Init PROVE RunsInv /\ RowsInv
<1>1. \A p \in Procs : m[p] = Off
  BY DEF Init
<1>2. Off.pc = "off" /\ Off.entries = {} /\ Off.bound = 0 /\ Off.knownInc = 0
  BY DEF Off
<1>3. Seen = {} /\ events = {} /\ inc = 1
  BY <1>1, <1>2 DEF Seen, Init
<1>4. RunsInv
  BY <1>1, <1>2, <1>3 DEF RunsInv, Ledger, OwnEvents, ReadEvents, Pins, Active, ActiveSteps
<1>5. Answer = 0
  <2>1. events \in SUBSET EventSet /\ \A s \in events : ~Certifies(events, s, inc)
    BY <1>3
  <2> QED
    BY <2>1, NothingCertified DEF Answer
<1>6. RowsInv
  BY <1>1, <1>2, <1>5 DEF RowsInv, CertifiedRowsPresent, Keeps, Active, ActiveSteps
<1> QED
  BY <1>4, <1>6

(* The invariants together. *)
LEMMA RowsInvariance == Spec => [](StateInv /\ RunsInv /\ RowsInv)
<1>1. Init => StateInv /\ RunsInv /\ RowsInv
  BY StateInit, RunsInit
<1>2. StateInv /\ RunsInv /\ RowsInv /\ [Next]_vars => StateInv' /\ RunsInv' /\ RowsInv'
  BY StateNext, RunsNext, RowsNext
<1> QED
  BY <1>1, <1>2, PTL DEF Spec

----------------------------------------------------------------------------
(* The variables keep their types: generations, run ids and positions stay *)
(* within their counts.  About load, BeginRun and Persist.                 *)
THEOREM StateTypeCorrect == Spec => []TypeOK
<1>1. StateInv => TypeOK
  BY DEF StateInv, StateTypes, Managers, Counted, EventSet, TypeOK
<1> QED
  BY <1>1, StateInvariance, PTL

(* Whatever run prunes, at whatever moment and however far it gets, every  *)
(* run that reads the state before or after resumes from the same          *)
(* position.  About pruneSuperseded and supersededEventIDs.                *)
THEOREM PruneHarmless == Spec => PruneKeepsAnswer
<1>1. StateInv /\ [Next]_vars => ((\E e \in events : e \notin events') => Answer' = Answer)
  <2> SUFFICES ASSUME StateInv, [Next]_vars, NEW e \in events, e \notin events'
               PROVE  Answer' = Answer
    OBVIOUS
  <2>1. PICK q \in Procs :
            BeginRun(q) \/ MarkInProgress(q) \/ InvalidateSnapshot(q) \/ WriteEvents(q)
            \/ Supersede(q) \/ Prune(q)
    BY EventSteps
  <2>2. Prune(q)
    BY <2>1 DEF BeginRun, MarkInProgress, InvalidateSnapshot, WriteEvents, Supersede, Store
  <2> QED
    BY <2>2, PruneStep
<1>2. StateInv /\ [Next]_vars => [(\E e \in events : e \notin events') => Answer' = Answer]_vars
  BY <1>1
<1> QED
  BY <1>2, StateInvariance, PTL DEF Spec, PruneKeepsAnswer

(* A run that another one has overtaken writes and prunes in vain: the     *)
(* table becomes unresumable or its position stays.  About the generation  *)
(* and run id of every state event, and invalidateAfterFenceLoss.          *)
THEOREM OvertakenHarmless == Spec => OvertakenRunIsInert
<1> DEFINE Inert == \A p \in Procs :
               events' # events /\ m[p].run # 0 /\ m'[p] # m[p] /\ Overtaken(p)
               => Answer' \in {0, Answer}
<1>1. StateInv /\ [Next]_vars => Inert
  <2> SUFFICES ASSUME StateInv, [Next]_vars, NEW p \in Procs, events' # events,
                      m[p].run # 0, m'[p] # m[p], Overtaken(p)
               PROVE  Answer' \in {0, Answer}
    OBVIOUS
  <2>1. /\ UNCHANGED inc
        /\ BeginRun(p) \/ MarkInProgress(p) \/ InvalidateSnapshot(p) \/ WriteEvents(p)
           \/ Supersede(p) \/ Prune(p)
    BY EventSteps
  <2>2. ~BeginRun(p)
    BY DEF BeginRun, At, StateInv, Knows
  <2> QED
    BY <2>1, <2>2, OwnEventsInert, SupersedeInert, PruneStep
<1>2. StateInv /\ [Next]_vars => [Inert]_vars
  BY <1>1
<1> QED
  BY <1>2, StateInvariance, PTL DEF Spec, OvertakenRunIsInert

(* Whatever run resumes, at whatever moment and whoever else runs, gets a  *)
(* position up to which the destination has every row, unless a run that   *)
(* was overtaken truncated, or a keyless table was replaced in the middle  *)
(* of a flush.  About the pin of Persist, the fence and the lease.         *)
THEOREM ResumesWhatIsThere == Spec => []ResumeSafe
<1>1. RowsInv => ResumeSafe
  BY DEF RowsInv, ResumeSafe
<1> QED
  BY <1>1, RowsInvariance, PTL
=============================================================================
