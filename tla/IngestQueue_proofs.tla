------------------------- MODULE IngestQueue_proofs -------------------------
(***************************************************************************)
(* Proofs that the ingest queue keeps the projects apart, never comes to   *)
(* rest with work left, and saves every change of the open project to its  *)
(* file: for every number of projects, tasks, calls and user actions, any  *)
(* order of the writes and any failures of reads and writes.  The first    *)
(* two need the user to let a project open and not to close it twice.      *)
(***************************************************************************)
EXTENDS IngestQueue, FiniteSetTheorems, TLAPS

Shaped(r) == r = [at |-> r.at, project |-> r.project, id |-> r.id, holds |-> r.holds,
                  content |-> r.content]

\* The tasks in memory are those of the open project.
QueueOwned == /\ issued \in 0..MaxTasks /\ active \in Projects \cup {None}
              /\ queue \subseteq Tasks /\ \A t \in queue : t.project = active

FilesOwned == file \in [Projects -> SUBSET Tasks] /\ OwnFile

\* What a fiber writes are tasks of the project it writes to.
Owned(r) == Shaped(r) /\ r.content \subseteq Tasks /\ \A t \in r.content : t.project = r.project
FibersOwned == fiber = [f \in Fibers |-> fiber[f]] /\ \A f \in Fibers : Owned(fiber[f])

\* The project that a fiber opens or pauses is the open one, and no project is
\* opened while one is paused.
Handshake ==
    /\ \A f \in Fibers : fiber[f].at \in {"loading", "pausing"}
                          => fiber[f].project = active /\ active # None
    /\ \A f, g \in Fibers : fiber[f].at \in {"loading", "pausing"} /\ fiber[g].at = "pausing" => f = g

OInv == QueueOwned /\ FilesOwned /\ FibersOwned /\ Handshake

----------------------------------------------------------------------------
(* Updates of the queue keep its tasks in their project.                   *)

LEMMA AsKeeps ==
    ASSUME NEW t \in Tasks, NEW status \in Statuses, NEW n \in 0..MaxRetries
    PROVE  As(t, status, n) \in Tasks /\ As(t, status, n).project = t.project
  BY DEF As, Tasks

LEMMA MarkKeeps ==
    ASSUME QueueOwned, NEW ids, NEW status \in Statuses, Mark(ids, status)
    PROVE  queue' \subseteq Tasks /\ \A t \in queue' : t.project = active
<1>1. \A t \in queue : t.retries \in 0..MaxRetries
  BY DEF QueueOwned, Tasks
<1> QED
  BY <1>1, AsKeeps DEF QueueOwned, Mark

LEMMA RequeueKeeps ==
    ASSUME QueueOwned, NEW ids, Requeue(ids)
    PROVE  queue' \subseteq Tasks /\ \A t \in queue' : t.project = active
<1>1. 0 \in 0..MaxRetries /\ "pending" \in Statuses
  BY IngestAssumption DEF Statuses
<1> QED
  BY <1>1, AsKeeps DEF QueueOwned, Requeue

LEMMA FailedKeeps ==
    ASSUME NEW t \in Tasks
    PROVE  Failed(t) \in Tasks /\ Failed(t).project = t.project
<1>1. t.retries \in 0..MaxRetries /\ MaxRetries \in Nat /\ MaxRetries \in 0..MaxRetries
  BY IngestAssumption DEF Tasks
<1>2. "pending" \in Statuses /\ "failed" \in Statuses
  BY DEF Statuses
<1>3. CASE t.retries + 1 >= MaxRetries
  <2>1. Failed(t) = As(t, "failed", MaxRetries)
    BY <1>3 DEF Failed
  <2>2. As(t, "failed", MaxRetries) \in Tasks /\ As(t, "failed", MaxRetries).project = t.project
    BY <1>1, <1>2, AsKeeps
  <2> QED
    BY <2>1, <2>2
<1>4. CASE ~(t.retries + 1 >= MaxRetries)
  <2>1. Failed(t) = As(t, "pending", t.retries + 1)
    BY <1>4 DEF Failed
  <2>2. t.retries + 1 \in 0..MaxRetries
    BY <1>1, <1>4
  <2> QED
    BY <2>1, <2>2, <1>2, AsKeeps
<1> QED
  BY <1>3, <1>4

(* What a fiber becomes.                                                   *)

LEMMA IdleOwned == Owned(Idle) /\ Idle.at = "idle"
  BY DEF Owned, Idle, Shaped

LEMMA IssueOwned ==
    ASSUME NEW at, NEW p, queue' \subseteq Tasks, \A t \in queue' : t.project = p,
           NEW n, NEW h
    PROVE  /\ Owned(IssueFor(at, p, n, h))
           /\ IssueFor(at, p, n, h).at = at /\ IssueFor(at, p, n, h).project = p
  BY DEF Owned, Shaped, IssueFor

LEMMA CallOwned ==
    ASSUME NEW at, NEW p, queue' \subseteq Tasks, \A t \in queue' : t.project = p
    PROVE  Owned(Issue(at, p)) /\ Issue(at, p).at = at /\ Issue(at, p).project = p
  BY DEF Owned, Shaped, IssueFor, Issue

\* One fiber moves, to something that neither opens nor pauses a project.
LEMMA OneMoves ==
    ASSUME FibersOwned, NEW f \in Fibers, NEW r, Owned(r),
           fiber' = [fiber EXCEPT ![f] = r]
    PROVE  /\ FibersOwned'
           /\ Handshake /\ r.at \notin {"loading", "pausing"} /\ active' = active => Handshake'
<1>1. \A g \in Fibers : fiber'[g] = IF g = f THEN r ELSE fiber[g]
  BY DEF FibersOwned
<1>2. FibersOwned'
  BY <1>1 DEF FibersOwned, Owned, Shaped
<1>3. ASSUME Handshake, r.at \notin {"loading", "pausing"}, active' = active PROVE Handshake'
  BY <1>1, <1>3 DEF Handshake
<1> QED
  BY <1>2, <1>3

LEMMA LandsKeeps ==
    ASSUME OInv, NEW f \in Fibers, Lands(f) \/ Writes(f)
    PROVE  FilesOwned'
<1>1. \/ file' = file
      \/ \E tasks \in {{}, fiber[f].content} : file' = [file EXCEPT ![fiber[f].project] = tasks]
  BY DEF Lands, Writes
<1> QED
  BY <1>1 DEF OInv, FilesOwned, FibersOwned, Owned, OwnFile

LEMMA NextOwned ==
    ASSUME OInv, NEW f \in Fibers, NEW p, ProcessNext(f, p), active' = active
    PROVE  FibersOwned' /\ Handshake'
<1> DEFINE n == Min(IdsIn({t \in queue' : t.project = p /\ t.status = "pending"}))
           r == [at |-> "lookup", project |-> p, id |-> n, holds |-> TRUE,
                 content |-> {}]
<1>1. fiber' = [fiber EXCEPT ![f] = Idle] \/ fiber' = [fiber EXCEPT ![f] = r]
  BY DEF ProcessNext, Idle
<1>2. Owned(r) /\ r.at = "lookup"
  BY DEF Owned, Shaped
<1> HIDE DEF r
<1> QED
  BY <1>1, <1>2, IdleOwned, OneMoves DEF OInv

\* A call or a fiber issues a write of the tasks of the open project.
LEMMA SaveStep ==
    ASSUME OInv, NEW f \in Fibers, NEW at, at \notin {"loading", "pausing"}, NEW n, NEW h,
           fiber' = [fiber EXCEPT ![f] = IssueFor(at, active, n, h)],
           active' = active, queue' \subseteq Tasks, \A t \in queue' : t.project = active
    PROVE  FibersOwned' /\ Handshake'
<1> DEFINE r == IssueFor(at, active, n, h)
<1>1. Owned(r) /\ r.at = at
  BY IssueOwned
<1>2. fiber' = [fiber EXCEPT ![f] = r]
  OBVIOUS
<1> HIDE DEF r
<1> QED
  BY <1>1, <1>2, OneMoves DEF OInv

\* The queue was replaced, and fiber f goes on as r.
LEMMA DetachKeeps ==
    ASSUME FibersOwned, NEW f \in Fibers, NEW r, Owned(r), fiber' = Detach(f, r)
    PROVE  /\ FibersOwned'
           /\ \A g \in Fibers : g # f =>
                 fiber'[g].at = fiber[g].at /\ fiber'[g].project = fiber[g].project
           /\ fiber'[f] = r
<1>1. fiber' = [g \in Fibers |-> IF g = f THEN r ELSE Loose(fiber[g])]
  BY DEF Detach
<1>2. ASSUME NEW g \in Fibers
      PROVE  /\ Owned(Loose(fiber[g])) /\ Loose(fiber[g]).at = fiber[g].at
             /\ Loose(fiber[g]).project = fiber[g].project
  BY DEF FibersOwned, Owned, Shaped, Loose
<1>3. \A g \in Fibers : Owned(fiber'[g])
  BY <1>1, <1>2
<1>4. fiber' = [g \in Fibers |-> fiber'[g]]
  BY <1>1
<1>5. FibersOwned'
  BY <1>3, <1>4 DEF FibersOwned, Owned, Shaped
<1> QED
  BY <1>1, <1>2, <1>5

----------------------------------------------------------------------------
(* The inductive invariant.                                                *)

LEMMA InitOwned == Init => OInv
<1> SUFFICES ASSUME Init PROVE OInv
  OBVIOUS
<1>1. PICK saved \in [1..issued -> Tasks] :
        file = [p \in Projects |-> {saved[i] : i \in {j \in 1..issued : saved[j].project = p}}]
  BY DEF Init
<1>2. FilesOwned
  BY <1>1 DEF FilesOwned, OwnFile
<1>3. QueueOwned
  BY IngestAssumption DEF Init, QueueOwned
<1>4. FibersOwned
  BY IdleOwned DEF Init, FibersOwned
<1>5. Handshake
  BY IdleOwned DEF Init, Handshake
<1> QED
  BY <1>2, <1>3, <1>4, <1>5 DEF OInv

LEMMA UserOwned ==
    ASSUME Patient, OInv, NEW f \in Fibers, UserActs(f)
    PROVE  OInv'
<1> USE DEF OInv
<1>1. ASSUME NEW s \in Sources, Enqueue(f, s) PROVE OInv'
  <2>1. queue' \subseteq Tasks /\ \A t \in queue' : t.project = active
    BY <1>1, RequeueKeeps DEF Enqueue
  <2>2. FibersOwned' /\ Handshake'
    BY <1>1, <2>1, SaveStep DEF Enqueue, Save, Issue
  <2>3. QueueOwned' /\ FilesOwned'
    BY <1>1, <2>1 DEF Enqueue, QueueOwned, FilesOwned, OwnFile
  <2> QED
    BY <2>2, <2>3
<1>2. ASSUME NEW s \in Sources, EnqueueNew(f, s) PROVE OInv'
  <2> DEFINE new == [id |-> issued + 1, project |-> active, source |-> s,
                     status |-> "pending", retries |-> 0]
  <2>1. issued' \in 0..MaxTasks /\ issued + 1 \in Ids /\ 0 \in 0..MaxRetries
    BY <1>2, IngestAssumption DEF EnqueueNew, QueueOwned, Ids
  <2>2. active \in Projects
    BY <1>2 DEF EnqueueNew, QueueOwned
  <2>3. new \in Tasks /\ new.project = active
    BY <2>1, <2>2 DEF Tasks, Statuses
  <2>4. queue' \subseteq Tasks /\ \A t \in queue' : t.project = active
    BY <1>2, <2>3 DEF EnqueueNew, QueueOwned
  <2>5. FibersOwned' /\ Handshake'
    BY <1>2, <2>4, SaveStep DEF EnqueueNew, Save, Issue
  <2>6. QueueOwned' /\ FilesOwned'
    BY <1>2, <2>1, <2>4 DEF EnqueueNew, QueueOwned, FilesOwned, OwnFile
  <2> QED
    BY <2>5, <2>6
<1>3. ASSUME NEW ids \in SUBSET Ids, Retry(f, ids) PROVE OInv'
  <2>1. queue' \subseteq Tasks /\ \A t \in queue' : t.project = active
    BY <1>3, RequeueKeeps DEF Retry
  <2>2. FibersOwned' /\ Handshake'
    BY <1>3, <2>1, SaveStep DEF Retry, Save, Issue
  <2>3. QueueOwned' /\ FilesOwned'
    BY <1>3, <2>1 DEF Retry, QueueOwned, FilesOwned, OwnFile
  <2> QED
    BY <2>2, <2>3
<1>4. ASSUME NEW task \in queue, Cancel(f, task) PROVE OInv'
  <2>1. queue' \subseteq Tasks /\ \A t \in queue' : t.project = active
    BY <1>4 DEF Cancel, QueueOwned
  <2>2. FibersOwned' /\ Handshake'
    BY <1>4, <2>1, SaveStep DEF Cancel, Save, Issue
  <2>3. QueueOwned' /\ FilesOwned'
    BY <1>4, <2>1 DEF Cancel, QueueOwned, FilesOwned, OwnFile
  <2> QED
    BY <2>2, <2>3
<1>5. ASSUME CancelAll(f) PROVE OInv'
  <2>1. queue' \subseteq Tasks /\ \A t \in queue' : t.project = active
    BY <1>5 DEF CancelAll, With, QueueOwned
  <2>2. FibersOwned' /\ Handshake'
    BY <1>5, <2>1, SaveStep DEF CancelAll, Save, Issue
  <2>3. QueueOwned' /\ FilesOwned'
    BY <1>5, <2>1 DEF CancelAll, QueueOwned, FilesOwned, OwnFile
  <2> QED
    BY <2>2, <2>3
<1>6. ASSUME ClearCompleted(f) PROVE OInv'
  <2>1. queue' \subseteq Tasks /\ \A t \in queue' : t.project = active
    BY <1>6 DEF ClearCompleted, With, QueueOwned
  <2>2. FibersOwned' /\ Handshake'
    BY <1>6, <2>1, SaveStep DEF ClearCompleted, Save, Issue
  <2>3. QueueOwned' /\ FilesOwned'
    BY <1>6, <2>1 DEF ClearCompleted, QueueOwned, FilesOwned, OwnFile
  <2> QED
    BY <2>2, <2>3
<1>7. ASSUME Pause(f) PROVE OInv'
  <2>1. queue' \subseteq Tasks /\ \A t \in queue' : t.project = active
    <3>1. "pending" \in Statuses
      BY DEF Statuses
    <3> QED
      BY <1>7, <3>1, MarkKeeps DEF Pause
  <2> DEFINE r == Issue("pausing", active)
  <2>2. Owned(r) /\ r.at = "pausing" /\ r.project = active
    BY <2>1, CallOwned
  <2>3. fiber' = [fiber EXCEPT ![f] = r] /\ active' = active
    BY <1>7 DEF Pause, Save
  <2> HIDE DEF r
  <2>4. FibersOwned'
    BY <2>2, <2>3, OneMoves
  <2>8. \A g \in Fibers : fiber'[g] = IF g = f THEN r ELSE fiber[g]
    BY <2>3 DEF FibersOwned
  <2>5. \A g \in Fibers : fiber[g].at \notin {"loading", "pausing"}
    BY <1>7 DEF Pause, User, Opening, Awaiting
  <2>6. Handshake'
    <3>1. active # None
      BY <1>7 DEF Pause
    <3> QED
      BY <2>2, <2>3, <2>8, <2>5, <3>1 DEF Handshake
  <2>7. QueueOwned' /\ FilesOwned'
    BY <1>7, <2>1 DEF Pause, QueueOwned, FilesOwned, OwnFile
  <2> QED
    BY <2>4, <2>6, <2>7
<1>8. ASSUME NEW p \in Projects, Restore(f, p) PROVE OInv'
  <2> DEFINE r == Issue("loading", p)
  <2>1. queue' = {} /\ active' = p /\ fiber' = Detach(f, r)
    BY <1>8 DEF Restore
  <2>9. queue' \subseteq Tasks /\ \A t \in queue' : t.project = p
    BY <2>1
  <2>2. Owned(r) /\ r.at = "loading" /\ r.project = p
    BY <2>9, CallOwned
  <2> HIDE DEF r
  <2>3. /\ FibersOwned'
        /\ \A g \in Fibers : g # f =>
              fiber'[g].at = fiber[g].at /\ fiber'[g].project = fiber[g].project
        /\ fiber'[f] = r
    BY <2>1, <2>2, DetachKeeps
  <2>4. \A g \in Fibers : fiber[g].at # "loading" /\ ~Opening
    BY <1>8 DEF Restore, User, Opening, Awaiting
  <2>5. \A g \in Fibers : fiber[g].at # "pausing"
    <3> SUFFICES ASSUME NEW g \in Fibers, fiber[g].at = "pausing" PROVE FALSE
      OBVIOUS
    <3> QED
      BY <1>8 DEF Restore, Handshake
  <2>6. Handshake'
    <3>1. p # None
      BY IngestAssumption
    <3> QED
      BY <2>1, <2>2, <2>3, <2>4, <2>5, <3>1 DEF Handshake
  <2>7. QueueOwned' /\ FilesOwned'
    BY <1>8, <2>1 DEF Restore, QueueOwned, FilesOwned, OwnFile
  <2> QED
    BY <2>3, <2>6, <2>7
<1> QED
  BY <1>1, <1>2, <1>3, <1>4, <1>5, <1>6, <1>7, <1>8 DEF UserActs

\* A project is opened: its file is read, and nobody has left it meanwhile.
LEMMA RestoredOwned ==
    ASSUME OInv, NEW f \in Fibers, Restored(f)
    PROVE  OInv'
<1> USE DEF OInv
<1> DEFINE p    == fiber[f].project
           mine == {IF t.status = "processing" THEN As(t, "pending", t.retries) ELSE t :
                      t \in {u \in file[p] : u.project = p}}
<1>1. p = active /\ active \in Projects /\ active' = active
  BY DEF Restored, Handshake, QueueOwned
<1>2. file' = file /\ issued' = issued
  BY DEF Restored
<1>3. FilesOwned'
  BY <1>2 DEF FilesOwned, OwnFile
<1>4. queue' = mine /\ fiber' = Detach(f, Issue("again", p))
  BY DEF Restored
<1>5. ASSUME NEW t \in file[p], t.project = p
      PROVE  LET x == IF t.status = "processing" THEN As(t, "pending", t.retries) ELSE t
             IN  x \in Tasks /\ x.project = p
  <2>1. t \in Tasks /\ t.retries \in 0..MaxRetries /\ "pending" \in Statuses
    BY <1>1 DEF FilesOwned, Tasks, Statuses
  <2> QED
    BY <1>5, <2>1, AsKeeps
<1>6. queue' \subseteq Tasks /\ \A t \in queue' : t.project = p
  BY <1>4, <1>5
<1> DEFINE r == Issue("again", p)
<1>7. Owned(r) /\ r.at = "again"
  BY <1>6, CallOwned
<1>8. fiber' = Detach(f, r)
  BY <1>4
<1> HIDE DEF r, mine
<1>9. /\ FibersOwned'
      /\ \A g \in Fibers : g # f =>
            fiber'[g].at = fiber[g].at /\ fiber'[g].project = fiber[g].project
      /\ fiber'[f] = r
  BY <1>7, <1>8, DetachKeeps
<1>10. Handshake'
  BY <1>1, <1>7, <1>9 DEF Handshake
<1>11. QueueOwned'
  BY <1>1, <1>2, <1>6 DEF QueueOwned
<1> QED
  BY <1>3, <1>9, <1>10, <1>11

\* A project is left: the other fibers find no project open.
LEMMA PausedOwned ==
    ASSUME OInv, NEW f \in Fibers, Paused(f)
    PROVE  OInv'
<1> USE DEF OInv
<1>1. fiber[f].at = "pausing" /\ fiber' = Detach(f, Idle) /\ queue' = {} /\ active' = None
  BY DEF Paused
<1>2. /\ FibersOwned'
      /\ \A g \in Fibers : g # f =>
            fiber'[g].at = fiber[g].at /\ fiber'[g].project = fiber[g].project
      /\ fiber'[f] = Idle
  BY <1>1, IdleOwned, DetachKeeps
<1>3. \A g \in Fibers : g # f => fiber[g].at \notin {"loading", "pausing"}
  BY <1>1 DEF Handshake
<1>4. Handshake'
  BY <1>2, <1>3, IdleOwned DEF Handshake
<1>5. QueueOwned'
  BY <1>1 DEF Paused, QueueOwned
<1> QED
  BY <1>2, <1>4, <1>5, LandsKeeps DEF Paused

LEMMA ContinuesOwned ==
    ASSUME OInv, NEW f \in Fibers, Continues(f)
    PROVE  OInv'
<1> USE DEF OInv
<1>1. ASSUME Saved(f) PROVE OInv'
  BY <1>1, LandsKeeps, IdleOwned, OneMoves DEF Saved, QueueOwned
<1>2. ASSUME Kick(f) PROVE OInv'
  <2>1. PICK p : ProcessNext(f, p)
    BY <1>2 DEF Kick
  <2> QED
    BY <1>2, <2>1, LandsKeeps, NextOwned DEF Kick, QueueOwned
<1>3. ASSUME LookupLate(f) PROVE OInv'
  BY <1>3, IdleOwned, OneMoves DEF LookupLate, QueueOwned, FilesOwned, OwnFile
<1>4. ASSUME LookupFails(f) PROVE OInv'
  <2>1. queue' \subseteq Tasks /\ \A t \in queue' : t.project = active
    <3>1. "failed" \in Statuses
      BY DEF Statuses
    <3> QED
      BY <1>4, <3>1, MarkKeeps DEF LookupFails
  <2>2. FibersOwned' /\ Handshake'
    BY <1>4, <2>1, SaveStep DEF LookupFails, Save, Issue
  <2> QED
    BY <1>4, <2>1, <2>2 DEF LookupFails, QueueOwned, FilesOwned, OwnFile
<1>5. ASSUME Take(f) PROVE OInv'
  <2>1. queue' \subseteq Tasks /\ \A t \in queue' : t.project = active
    <3>1. "processing" \in Statuses
      BY DEF Statuses
    <3> QED
      BY <1>5, <3>1, MarkKeeps DEF Take
  <2>2. FibersOwned' /\ Handshake'
    BY <1>5, <2>1, SaveStep DEF Take
  <2> QED
    BY <1>5, <2>1, <2>2 DEF Take, QueueOwned, FilesOwned, OwnFile
<1>6. ASSUME StartLate(f) PROVE OInv'
  BY <1>6, LandsKeeps, IdleOwned, OneMoves DEF StartLate, QueueOwned
<1>7. ASSUME StartFails(f) PROVE OInv'
  <2>1. queue' \subseteq Tasks /\ \A t \in queue' : t.project = active
    <3>1. "failed" \in Statuses
      BY DEF Statuses
    <3> QED
      BY <1>7, <3>1, MarkKeeps DEF StartFails
  <2>2. FibersOwned' /\ Handshake'
    BY <1>7, <2>1, SaveStep DEF StartFails, Save, Issue
  <2> QED
    BY <1>7, <2>1, <2>2, LandsKeeps DEF StartFails, QueueOwned
<1>8. ASSUME Start(f) PROVE OInv'
  <2> DEFINE r == [at |-> "ingesting", project |-> fiber[f].project, id |-> fiber[f].id,
                   holds |-> fiber[f].holds, content |-> {}]
  <2>1. Owned(r) /\ r.at = "ingesting"
    BY DEF Owned, Shaped
  <2>2. fiber' = [fiber EXCEPT ![f] = r] /\ active' = active
    BY <1>8 DEF Start
  <2> HIDE DEF r
  <2>3. FibersOwned' /\ Handshake'
    BY <2>1, <2>2, OneMoves
  <2> QED
    BY <1>8, <2>3, LandsKeeps DEF Start, QueueOwned
<1>9. ASSUME IngestedLate(f) PROVE OInv'
  BY <1>9, IdleOwned, OneMoves DEF IngestedLate, QueueOwned, FilesOwned, OwnFile
<1>10. ASSUME Ingested(f) PROVE OInv'
  <2>1. queue' \subseteq Tasks /\ \A t \in queue' : t.project = active
    BY <1>10 DEF Ingested, QueueOwned
  <2>2. FibersOwned' /\ Handshake'
    BY <1>10, <2>1, SaveStep DEF Ingested, Save, Issue
  <2> QED
    BY <1>10, <2>1, <2>2 DEF Ingested, QueueOwned, FilesOwned, OwnFile
<1>11. ASSUME IngestFails(f) PROVE OInv'
  <2>1. queue' \subseteq Tasks /\ \A t \in queue' : t.project = active
    BY <1>11, FailedKeeps DEF IngestFails, QueueOwned
  <2>2. FibersOwned' /\ Handshake'
    BY <1>11, <2>1, SaveStep DEF IngestFails, Save, Issue
  <2> QED
    BY <1>11, <2>1, <2>2 DEF IngestFails, QueueOwned, FilesOwned, OwnFile
<1>12. ASSUME End(f) PROVE OInv'
  BY <1>12, LandsKeeps, NextOwned DEF End, QueueOwned
<1>13. ASSUME RestoredNothing(f) PROVE OInv'
  BY <1>13, IdleOwned, OneMoves DEF RestoredNothing, QueueOwned, FilesOwned, OwnFile
<1> QED
  BY <1>1, <1>2, <1>3, <1>4, <1>5, <1>6, <1>7, <1>8, <1>9, <1>10, <1>11, <1>12,
     <1>13, PausedOwned, RestoredOwned DEF Continues

LEMMA StepOwned ==
    ASSUME Patient, OInv, [Next]_vars
    PROVE  OInv'
<1>1. CASE Exit
  <2>1. QueueOwned'
    BY <1>1 DEF Exit, OInv, QueueOwned
  <2>2. FilesOwned'
    <3>1. file' = file \/ \E p : file' = [file EXCEPT ![p] = {}]
      BY <1>1 DEF Exit
    <3> QED
      BY <3>1 DEF OInv, FilesOwned, OwnFile
  <2>3. FibersOwned' /\ Handshake'
    BY <1>1, IdleOwned DEF Exit, FibersOwned, Handshake, Owned, Shaped
  <2> QED
    BY <2>1, <2>2, <2>3 DEF OInv
<1>2. CASE UNCHANGED vars
  BY <1>2 DEF vars, OInv, QueueOwned, FilesOwned, OwnFile, FibersOwned, Owned, Shaped, Handshake
<1> QED
  BY <1>1, <1>2, UserOwned, ContinuesOwned DEF Next

\* The files of the projects are kept apart: no run that was interrupted, no
\* late answer and no write on its way puts a task of one project into the
\* file of another, if the user waits for a project to open.
THEOREM ProjectsApart == ASSUME Patient PROVE Spec => []OwnFile
<1>1. OInv => OwnFile
  BY DEF OInv, FilesOwned
<1> QED
  BY InitOwned, StepOwned, <1>1, PTL DEF Spec

----------------------------------------------------------------------------
(* The first task.                                                         *)

LEMMA MinOfFinite ==
    ASSUME NEW S \in SUBSET Nat, IsFiniteSet(S), S # {}
    PROVE  Min(S) \in S
<1> DEFINE Down(x) == {y \in S : y <= x}
           T == {Down(x) : x \in S}
<1>1. T \subseteq FiniteSubsetsOf(S) /\ T # {}
  <2>1. \A x \in S : Down(x) \subseteq S /\ IsFiniteSet(Down(x))
    BY FS_Subset
  <2>2. QED
    BY <2>1 DEF FiniteSubsetsOf
<1>2. \E t \in T : \A u \in T : ~ (<<u, t>> \in StrictSubsetOrdering(S))
  <2>1. IsWellFoundedOn(StrictSubsetOrdering(S), FiniteSubsetsOf(S))
    BY FS_StrictSubsetOrderingWellFounded
  <2> HIDE DEF T
  <2>2. QED
    BY <1>1, <2>1, WFMin
<1>3. PICK x \in S : \A y \in S : ~ (<<Down(y), Down(x)>> \in StrictSubsetOrdering(S))
  BY <1>2
<1>4. ASSUME NEW y \in S, ~ (x <= y) PROVE FALSE
  <2>1. x \in Nat /\ y \in Nat /\ y < x /\ \A z \in S : z \in Nat
    BY <1>4
  <2>2. Down(y) \subseteq Down(x) /\ x \in Down(x) /\ x \notin Down(y) /\ Down(x) \subseteq S
    <3>1. \A z \in S : z <= y => z <= x
      BY <2>1
    <3>2. ~ (x <= y) /\ x <= x
      BY <2>1
    <3>3. QED
      BY <3>1, <3>2
  <2>3. <<Down(y), Down(x)>> \in StrictSubsetOrdering(S)
    BY <2>2 DEF StrictSubsetOrdering
  <2>4. QED
    BY <1>3, <2>3
<1>5. QED
  BY <1>4 DEF Min

----------------------------------------------------------------------------
(* Types.  They need no patience: whatever the user does meanwhile.        *)

FiberTypes == [at : Writing \cup {"idle", "loading", "lookup", "ingesting"},
               project : Projects \cup {None}, id : Ids \cup {0},
               holds : BOOLEAN, content : SUBSET Tasks]

\* A fiber that awaits something does so for a project.
Placed(r) == r \in FiberTypes /\ (r.at # "idle" => r.project \in Projects)

FibersPlaced == fiber \in [Fibers -> FiberTypes] /\ \A f \in Fibers : Placed(fiber[f])

TInv == TypeOK /\ FibersPlaced

LEMMA MarkTyped ==
    ASSUME queue \subseteq Tasks, NEW ids, NEW status \in Statuses, Mark(ids, status)
    PROVE  queue' \subseteq Tasks
<1>1. \A t \in queue : t.retries \in 0..MaxRetries
  BY DEF Tasks
<1>2. QED
  BY <1>1, AsKeeps DEF Mark

LEMMA RequeueTyped ==
    ASSUME queue \subseteq Tasks, NEW ids, Requeue(ids)
    PROVE  queue' \subseteq Tasks
<1>1. 0 \in 0..MaxRetries /\ "pending" \in Statuses
  BY IngestAssumption DEF Statuses
<1>2. QED
  BY <1>1, AsKeeps DEF Requeue

LEMMA IdlePlaced == Placed(Idle)
BY DEF Placed, FiberTypes, Idle

LEMMA IssuePlaced ==
    ASSUME TInv, NEW at \in Writing \cup {"loading"}, NEW p \in Projects,
           NEW n \in Ids \cup {0}, NEW h \in BOOLEAN, queue' \subseteq Tasks
    PROVE  Placed(IssueFor(at, p, n, h))
BY DEF Placed, FiberTypes, IssueFor

LEMMA CallPlaced ==
    ASSUME TInv, NEW at \in Writing \cup {"loading"}, NEW p \in Projects, queue' \subseteq Tasks
    PROVE  Placed(Issue(at, p))
BY IssuePlaced DEF Issue

LEMMA OnePlaced ==
    ASSUME FibersPlaced, NEW f \in Fibers, NEW r, Placed(r), fiber' = [fiber EXCEPT ![f] = r]
    PROVE  FibersPlaced'
<1>1. fiber' \in [Fibers -> FiberTypes] /\ \A g \in Fibers : fiber'[g] = IF g = f THEN r ELSE fiber[g]
  BY DEF FibersPlaced, Placed
<1>2. \A g \in Fibers : Placed(fiber'[g])
  BY <1>1 DEF FibersPlaced
<1>3. QED
  BY <1>1, <1>2 DEF FibersPlaced, Placed

LEMMA DetachPlaced ==
    ASSUME FibersPlaced, NEW f \in Fibers, NEW r, Placed(r), fiber' = Detach(f, r)
    PROVE  FibersPlaced'
<1>1. \A g \in Fibers : Placed(Loose(fiber[g]))
  BY DEF FibersPlaced, Placed, FiberTypes, Loose
<1>2. fiber' = [g \in Fibers |-> IF g = f THEN r ELSE Loose(fiber[g])]
  BY DEF Detach
<1>3. fiber' \in [Fibers -> FiberTypes] /\ \A g \in Fibers : Placed(fiber'[g])
  BY <1>1, <1>2 DEF Placed
<1>4. QED
  BY <1>3 DEF FibersPlaced, Placed

LEMMA NextPlaced ==
    ASSUME FibersPlaced, NEW f \in Fibers, NEW p, queue' \subseteq Tasks, ProcessNext(f, p)
    PROVE  FibersPlaced'
<1> DEFINE waiting == {t \in queue' : t.project = p /\ t.status = "pending"}
           n == Min(IdsIn(waiting))
           r == [at |-> "lookup", project |-> p, id |-> n, holds |-> TRUE,
                 content |-> {}]
<1>1. \/ fiber' = [fiber EXCEPT ![f] = Idle]
      \/ waiting # {} /\ fiber' = [fiber EXCEPT ![f] = r]
  BY DEF ProcessNext
<1>2. ASSUME waiting # {} PROVE Placed(r)
  <2>1. IdsIn(waiting) \subseteq Ids /\ IdsIn(waiting) # {} /\ p \in Projects
    BY <1>2 DEF IdsIn, Tasks
  <2>2. Ids \subseteq Nat /\ IsFiniteSet(Ids)
    <3>1. MaxTasks \in Int /\ 1 \in Int
      BY IngestAssumption
    <3>2. QED
      BY <3>1, FS_Interval DEF Ids
  <2>3. IsFiniteSet(IdsIn(waiting))
    BY <2>1, <2>2, FS_Subset
  <2>4. n \in IdsIn(waiting)
    <3> HIDE DEF waiting
    <3>1. QED
      BY <2>1, <2>2, <2>3, MinOfFinite
  <2> HIDE DEF n
  <2>5. QED
    BY <2>1, <2>4 DEF Placed, FiberTypes
<1> HIDE DEF r, waiting
<1>3. QED
  BY <1>1, <1>2, IdlePlaced, OnePlaced

LEMMA LandsTyped ==
    ASSUME TInv, NEW f \in Fibers, fiber[f].at \in Writing, Lands(f) \/ Writes(f)
    PROVE  file' \in [Projects -> SUBSET Tasks]
<1>1. \/ file' = file
      \/ \E tasks \in {{}, fiber[f].content} : file' = [file EXCEPT ![fiber[f].project] = tasks]
  BY DEF Lands, Writes
<1>2. QED
  BY <1>1 DEF TInv, TypeOK, FibersPlaced, Placed, FiberTypes, Writing

\* What is counted and remembered of the saves.
SavesTyped == faults \in 0..MaxFaults /\ newest \in Fibers \cup {0} /\ kept \in BOOLEAN

LEMMA FaultTyped ==
    ASSUME SavesTyped, Fault \/ faults' = faults
    PROVE  faults' \in 0..MaxFaults
BY IngestAssumption DEF SavesTyped, Fault

LEMMA LandsSavesTyped ==
    ASSUME SavesTyped, NEW f \in Fibers, Lands(f)
    PROVE  SavesTyped'
<1>1. faults' \in 0..MaxFaults
  BY FaultTyped DEF Lands, Writes
<1>2. newest' \in Fibers \cup {0}
  BY DEF SavesTyped, Lands
<1>3. kept' \in BOOLEAN
  <2>1. kept' = (newest = f /\ faults' = faults) \/ kept' = kept
    BY DEF Lands
  <2>2. QED
    BY <2>1 DEF SavesTyped
<1>4. QED
  BY <1>1, <1>2, <1>3 DEF SavesTyped

LEMMA StepSavesTyped == ASSUME SavesTyped, Next PROVE SavesTyped'
<1>1. ASSUME Fault \/ faults' = faults, newest' = 0 \/ newest' \in Fibers \/ newest' = newest,
             kept' = FALSE \/ kept' = kept
      PROVE  SavesTyped'
  BY <1>1, FaultTyped DEF SavesTyped
<1>2. ASSUME NEW f \in Fibers, UserActs(f) PROVE SavesTyped'
  <2>1. ASSUME NEW g \in Projects, Restore(f, g) PROVE SavesTyped'
    BY <1>1, <2>1 DEF Restore, User
  <2>2. CASE ~ \E g \in Projects : Restore(f, g)
    <3>1. faults' = faults /\ newest' \in {f, 0} /\ kept' = FALSE
      BY <1>2, <2>2 DEF UserActs, Enqueue, EnqueueNew, Retry, Cancel, CancelAll, ClearCompleted,
         Pause, User, Save, Newest
    <3>2. QED
      BY <1>1, <3>1
  <2>3. QED
    BY <2>1, <2>2
<1>3. ASSUME NEW f \in Fibers, Continues(f) PROVE SavesTyped'
  <2>1. CASE Saved(f) \/ Kick(f) \/ StartLate(f) \/ Start(f) \/ End(f)
    BY <2>1, LandsSavesTyped DEF Saved, Kick, StartLate, Start, End
  <2>2. CASE RestoredNothing(f) \/ LookupLate(f) \/ IngestedLate(f)
    BY <1>1, <2>2 DEF RestoredNothing, LookupLate, IngestedLate, saves
  <2>3. CASE Restored(f) \/ LookupFails(f) \/ Take(f) \/ Ingested(f) \/ IngestFails(f)
    <3>1. faults' = faults /\ newest' \in {f, 0} /\ kept' = FALSE
      BY <2>3 DEF Restored, LookupFails, Take, Ingested, IngestFails, Save, Newest
    <3>2. QED
      BY <1>1, <3>1
  <2>4. CASE Paused(f) \/ StartFails(f)
    <3>1. (Fault \/ faults' = faults) /\ newest' \in {f, 0} /\ kept' = FALSE
      BY <2>4 DEF Paused, StartFails, Writes, Save, Newest
    <3>2. QED
      BY <1>1, <3>1
  <2>5. QED
    BY <1>3, <2>1, <2>2, <2>3, <2>4 DEF Continues
<1>4. ASSUME Exit PROVE SavesTyped'
  BY <1>1, <1>4 DEF Exit
<1>5. QED
  BY <1>2, <1>3, <1>4 DEF Next

LEMMA InitTyped == Init => TInv
<1> SUFFICES ASSUME Init PROVE TInv
  OBVIOUS
<1>1. PICK saved \in [1..issued -> Tasks] :
        file = [p \in Projects |-> {saved[i] : i \in {j \in 1..issued : saved[j].project = p}}]
  BY DEF Init
<1>2. file \in [Projects -> SUBSET Tasks]
  BY <1>1
<1>3. FibersPlaced
  BY IdlePlaced DEF Init, FibersPlaced, Placed
<1>4. queue \subseteq Tasks /\ issued \in 0..MaxTasks /\ ops \in 0..MaxOps
      /\ processing \in BOOLEAN /\ active \in Projects \cup {None}
  <2>1. queue = {} /\ processing = FALSE /\ active = None /\ issued \in 0..MaxTasks /\ ops = 0
    BY DEF Init
  <2>2. 0 \in 0..MaxOps
    BY IngestAssumption
  <2>3. QED
    BY <2>1, <2>2
<1>5. SavesTyped
  <2>1. faults = 0 /\ newest = 0 /\ kept = FALSE
    BY DEF Init
  <2>2. 0 \in 0..MaxFaults
    BY IngestAssumption
  <2>3. QED
    BY <2>1, <2>2 DEF SavesTyped
<1>6. QED
  BY <1>2, <1>3, <1>4, <1>5 DEF TInv, TypeOK, FibersPlaced, FiberTypes, SavesTyped

\* Where the new queue and the new fibers are typed, the user's call is.
LEMMA UserTyped ==
    ASSUME TInv, NEW f \in Fibers, UserActs(f), SavesTyped'
    PROVE  TInv'
<1> DEFINE Rest == /\ processing' \in BOOLEAN /\ active' \in Projects \cup {None}
                   /\ file' = file /\ issued' \in 0..MaxTasks
<1>1. queue \subseteq Tasks /\ processing \in BOOLEAN /\ active \in Projects \cup {None}
      /\ file \in [Projects -> SUBSET Tasks] /\ issued \in 0..MaxTasks /\ FibersPlaced
  BY DEF TInv, TypeOK
<1>2. ops' \in 0..MaxOps
  <2>1. ops \in 0..MaxOps /\ ops < MaxOps /\ ops' = ops + 1
    BY DEF UserActs, Enqueue, EnqueueNew, Retry, Cancel, CancelAll, ClearCompleted, Pause, Restore,
       User, TInv, TypeOK
  <2>2. QED
    BY <2>1, IngestAssumption
<1>3. ASSUME queue' \subseteq Tasks, Rest, FibersPlaced' PROVE TInv'
  BY <1>1, <1>2, <1>3 DEF TInv, TypeOK, FibersPlaced, FiberTypes, SavesTyped
<1>4. ASSUME queue' \subseteq Tasks, Rest, NEW at \in Writing, Save(f, at, active), active # None
      PROVE  TInv'
  <2>1. active \in Projects
    BY <1>1, <1>4
  <2>2. Placed(Issue(at, active))
    BY <1>4, <2>1, CallPlaced
  <2>3. FibersPlaced'
    BY <1>1, <1>4, <2>2, OnePlaced DEF Save
  <2>4. QED
    BY <1>3, <1>4, <2>3
<1> HIDE DEF Rest
<1>5. {"kick", "saving", "pausing"} \subseteq Writing /\ "pending" \in Statuses
  BY DEF Writing, Statuses
<1>6. ASSUME NEW s \in Sources, Enqueue(f, s) PROVE TInv'
  <2>1. queue' \subseteq Tasks
    BY <1>1, <1>6, RequeueTyped DEF Enqueue
  <2>2. Rest /\ Save(f, "kick", active) /\ active # None
    BY <1>1, <1>6 DEF Enqueue, Rest
  <2>3. QED
    BY <1>4, <1>5, <2>1, <2>2
<1>7. ASSUME NEW s \in Sources, EnqueueNew(f, s) PROVE TInv'
  <2>1. /\ issued + 1 \in Ids /\ issued' \in 0..MaxTasks /\ active \in Projects
        /\ 0 \in 0..MaxRetries
    BY <1>1, <1>7, IngestAssumption DEF EnqueueNew, Ids
  <2>2. [id |-> issued + 1, project |-> active, source |-> s,
         status |-> "pending", retries |-> 0] \in Tasks
    BY <1>5, <2>1 DEF Tasks
  <2>3. queue' \subseteq Tasks
    BY <1>1, <1>7, <2>2 DEF EnqueueNew
  <2>4. Rest /\ Save(f, "kick", active) /\ active # None
    BY <1>1, <1>7, <2>1 DEF EnqueueNew, Rest
  <2>5. QED
    BY <1>4, <1>5, <2>3, <2>4
<1>8. ASSUME NEW ids \in SUBSET Ids, Retry(f, ids) PROVE TInv'
  <2>1. queue' \subseteq Tasks
    BY <1>1, <1>8, RequeueTyped DEF Retry
  <2>2. Rest /\ Save(f, "kick", active) /\ active # None
    BY <1>1, <1>8 DEF Retry, Rest
  <2>3. QED
    BY <1>4, <1>5, <2>1, <2>2
<1>9. ASSUME NEW task \in queue, Cancel(f, task) PROVE TInv'
  <2>1. queue' \subseteq Tasks
    BY <1>1, <1>9 DEF Cancel
  <2>2. active # None
    BY <1>1, <1>9, IngestAssumption DEF Cancel, Tasks
  <2>3. Rest /\ Save(f, "kick", active)
    BY <1>1, <1>9 DEF Cancel, Rest
  <2>4. QED
    BY <1>4, <1>5, <2>1, <2>2, <2>3
<1>10. ASSUME CancelAll(f) \/ ClearCompleted(f) PROVE TInv'
  <2>1. queue' \subseteq Tasks
    BY <1>1, <1>10 DEF CancelAll, ClearCompleted, With
  <2>2. Rest /\ Save(f, "saving", active) /\ active # None
    BY <1>1, <1>10 DEF CancelAll, ClearCompleted, Rest
  <2>3. QED
    BY <1>4, <1>5, <2>1, <2>2
<1>11. ASSUME Pause(f) PROVE TInv'
  <2>1. queue' \subseteq Tasks
    BY <1>1, <1>5, <1>11, MarkTyped DEF Pause
  <2>2. Rest /\ Save(f, "pausing", active) /\ active # None
    BY <1>1, <1>11 DEF Pause, Rest
  <2>3. QED
    BY <1>4, <1>5, <2>1, <2>2
<1>12. ASSUME NEW p \in Projects, Restore(f, p) PROVE TInv'
  <2>1. queue' = {} /\ fiber' = Detach(f, Issue("loading", p))
    BY <1>12 DEF Restore
  <2>2. Placed(Issue("loading", p))
    BY <2>1, CallPlaced
  <2>3. FibersPlaced'
    BY <1>1, <2>1, <2>2, DetachPlaced
  <2>4. Rest
    BY <1>1, <1>12 DEF Restore, Rest
  <2>5. QED
    BY <1>3, <2>1, <2>3, <2>4
<1>13. QED
  BY <1>6, <1>7, <1>8, <1>9, <1>10, <1>11, <1>12 DEF UserActs

LEMMA ContinuesTyped ==
    ASSUME TInv, NEW f \in Fibers, Continues(f), SavesTyped'
    PROVE  TInv'
<1> DEFINE Rest == /\ queue' \subseteq Tasks
                   /\ processing' \in BOOLEAN /\ active' \in Projects \cup {None}
                   /\ file' \in [Projects -> SUBSET Tasks] /\ UNCHANGED <<issued, ops>>
           p == fiber[f].project
<1>1. /\ queue \subseteq Tasks /\ processing \in BOOLEAN /\ active \in Projects \cup {None}
      /\ file \in [Projects -> SUBSET Tasks] /\ FibersPlaced /\ Placed(fiber[f])
  BY DEF TInv, TypeOK, FibersPlaced
<1>2. ASSUME Rest, FibersPlaced' PROVE TInv'
  BY <1>1, <1>2 DEF TInv, TypeOK, FibersPlaced, FiberTypes, SavesTyped
<1>3. fiber[f].at \in Writing => (Lands(f) \/ Writes(f) => file' \in [Projects -> SUBSET Tasks])
  BY LandsTyped
<1>4. ASSUME Rest, NEW r, Placed(r), fiber' = [fiber EXCEPT ![f] = r] PROVE TInv'
  BY <1>1, <1>2, <1>4, OnePlaced
<1>5. ASSUME Rest, NEW at \in Writing, NEW n \in Ids \cup {0}, NEW h \in BOOLEAN, p \in Projects,
             fiber' = [fiber EXCEPT ![f] = IssueFor(at, p, n, h)]
      PROVE  TInv'
  BY <1>4, <1>5, IssuePlaced
<1>6. ASSUME Rest, NEW q, ProcessNext(f, q) PROVE TInv'
  BY <1>1, <1>2, <1>6, NextPlaced
<1>7. {"saving", "kick", "again", "pausing", "starting", "ending"} \subseteq Writing
      /\ {"pending", "processing", "failed"} \subseteq Statuses
  BY DEF Writing, Statuses
<1>8. /\ fiber[f].at # "idle" => p \in Projects
      /\ fiber[f].id \in Ids \cup {0} /\ fiber[f].holds \in BOOLEAN
  BY <1>1 DEF Placed, FiberTypes
<1> HIDE DEF Rest, p
<1>9. CASE Saved(f)
  <2>1. Rest /\ fiber' = [fiber EXCEPT ![f] = Idle]
    BY <1>1, <1>3, <1>7, <1>9 DEF Saved, Rest
  <2>2. QED
    BY <1>4, <2>1, IdlePlaced
<1>10. CASE Kick(f)
  <2>1. Rest /\ \E q : ProcessNext(f, q)
    BY <1>1, <1>3, <1>7, <1>10 DEF Kick, Rest
  <2>2. QED
    BY <1>6, <2>1
<1>11. CASE Paused(f)
  <2>1. Rest /\ fiber' = Detach(f, Idle)
    BY <1>1, <1>3, <1>7, <1>11 DEF Paused, Rest
  <2>2. QED
    BY <1>1, <1>2, <2>1, IdlePlaced, DetachPlaced
<1>12. CASE Restored(f)
  <2>1. p \in Projects
    BY <1>8, <1>12 DEF Restored
  <2> DEFINE mine == {IF t.status = "processing" THEN As(t, "pending", t.retries) ELSE t :
                        t \in {u \in file[p] : u.project = p}}
  <2>2. mine \subseteq Tasks
    <3>1. ASSUME NEW t \in file[p]
          PROVE  t \in Tasks /\ As(t, "pending", t.retries) \in Tasks
      <4>1. t \in Tasks /\ t.retries \in 0..MaxRetries
        BY <1>1, <2>1 DEF Tasks
      <4>2. QED
        BY <1>7, <4>1, AsKeeps
    <3>2. QED
      BY <3>1
  <2>3. queue' = mine /\ fiber' = Detach(f, Issue("again", p))
    BY <1>12 DEF Restored, p
  <2> HIDE DEF mine
  <2>4. Placed(Issue("again", p))
    BY <1>7, <2>1, <2>2, <2>3, CallPlaced
  <2>5. FibersPlaced'
    BY <1>1, <2>3, <2>4, DetachPlaced
  <2>6. Rest
    BY <1>1, <1>12, <2>2, <2>3 DEF Restored, Rest
  <2>7. QED
    BY <1>2, <2>5, <2>6
<1>13. CASE LookupLate(f) \/ StartLate(f) \/ IngestedLate(f) \/ RestoredNothing(f)
  <2>1. Rest /\ fiber' = [fiber EXCEPT ![f] = Idle]
    BY <1>1, <1>3, <1>7, <1>13 DEF RestoredNothing, LookupLate, StartLate, IngestedLate, Rest
  <2>2. QED
    BY <1>4, <2>1, IdlePlaced
<1>14. CASE LookupFails(f) \/ StartFails(f)
  <2>1. queue' \subseteq Tasks
    BY <1>1, <1>7, <1>14, MarkTyped DEF LookupFails, StartFails
  <2>2. Rest /\ p \in Projects /\ 0 \in Ids \cup {0}
        /\ fiber' = [fiber EXCEPT ![f] = IssueFor("again", p, 0, FALSE)]
    BY <1>1, <1>3, <1>7, <1>8, <1>14, <2>1 DEF LookupFails, StartFails, Rest, Save, Issue, p
  <2>3. QED
    BY <1>5, <1>7, <2>2
<1>15. CASE Take(f)
  <2>1. queue' \subseteq Tasks
    BY <1>1, <1>7, <1>15, MarkTyped DEF Take
  <2>2. Rest /\ p \in Projects
        /\ fiber' = [fiber EXCEPT ![f] = IssueFor("starting", p, fiber[f].id, fiber[f].holds)]
    BY <1>1, <1>8, <1>15, <2>1 DEF Take, Rest, p
  <2>3. QED
    BY <1>5, <1>7, <1>8, <2>2
<1>16. CASE Start(f)
  <2> DEFINE r == [at |-> "ingesting", project |-> fiber[f].project, id |-> fiber[f].id,
                   holds |-> fiber[f].holds, content |-> {}]
  <2>1. Rest /\ p \in Projects /\ fiber' = [fiber EXCEPT ![f] = r]
    BY <1>1, <1>3, <1>7, <1>8, <1>16 DEF Start, Rest
  <2>2. Placed(r)
    BY <1>8, <2>1 DEF Placed, FiberTypes, p
  <2> HIDE DEF r
  <2>3. QED
    BY <1>4, <2>1, <2>2
<1>17. CASE Ingested(f) \/ IngestFails(f)
  <2>1. queue' \subseteq Tasks
    BY <1>1, <1>17, FailedKeeps DEF Ingested, IngestFails
  <2>2. Rest /\ p \in Projects /\ 0 \in Ids \cup {0}
        /\ fiber' = [fiber EXCEPT ![f] = IssueFor("ending", p, 0, FALSE)]
    BY <1>1, <1>8, <1>17, <2>1 DEF Ingested, IngestFails, Rest, Save, Issue, p
  <2>3. QED
    BY <1>5, <1>7, <2>2
<1>18. CASE End(f)
  <2>1. Rest /\ \E q : ProcessNext(f, q)
    BY <1>1, <1>3, <1>7, <1>18 DEF End, Rest
  <2>2. QED
    BY <1>6, <2>1
<1>19. QED
  BY <1>9, <1>10, <1>11, <1>12, <1>13, <1>14, <1>15, <1>16, <1>17, <1>18 DEF Continues

LEMMA StepTyped == ASSUME TInv, [Next]_vars PROVE TInv'
<1>1. SavesTyped
  BY DEF TInv, TypeOK, SavesTyped
<1>2. CASE Exit
  <2>1. FibersPlaced'
    BY <1>2, IdlePlaced DEF Exit, FibersPlaced, Placed
  <2>2. ops' \in 0..MaxOps
    BY <1>2, IngestAssumption DEF Exit, TInv, TypeOK
  <2>3. file' \in [Projects -> SUBSET Tasks]
    <3>1. file' = file \/ \E p : file' = [file EXCEPT ![p] = {}]
      BY <1>2 DEF Exit
    <3>2. QED
      BY <3>1 DEF TInv, TypeOK
  <2>4. SavesTyped'
    BY <1>1, <1>2, StepSavesTyped DEF Next
  <2>5. QED
    BY <1>2, <2>1, <2>2, <2>3, <2>4 DEF Exit, TInv, TypeOK, FibersPlaced, FiberTypes, SavesTyped
<1>3. CASE UNCHANGED vars
  BY <1>3 DEF vars, TInv, TypeOK, FibersPlaced, Placed
<1>4. QED
  BY <1>1, <1>2, <1>3, UserTyped, ContinuesTyped, StepSavesTyped DEF Next

LEMMA SpecTyped == Spec => []TInv
BY InitTyped, StepTyped, PTL DEF Spec

\* The queue, the files and the calls keep their types, whatever the user does
\* in whatever order the writes land, and whichever of them fail.
THEOREM IngestTypes == Spec => []TypeOK
<1>1. TInv => TypeOK
  BY DEF TInv
<1>2. QED
  BY <1>1, SpecTyped, PTL

----------------------------------------------------------------------------
(* The queue never comes to rest with work left.                           *)

Runs == {"starting", "ingesting", "ending"}

\* A fiber that is as r says looks at the open project again.
GoesOn(r) ==
    \/ r.at = "kick"
    \/ r.at \in Runs \cup {"lookup", "again", "pausing"} /\ r.project = active

\* It will release the queue, and it has task t in hand.
RunsOn(r)     == r.at \in Runs /\ r.project = active
Carries(r, t) == /\ r.at \in {"starting", "ingesting"} /\ r.project = active
                 /\ r.holds /\ r.id = t.id

WorkInv ==
    active # None =>
      /\ (\E t \in queue : t.status = "pending") => \E f \in Fibers : GoesOn(fiber[f])
      /\ processing => \E f \in Fibers : RunsOn(fiber[f])
      /\ \A t \in queue : t.status = "processing" => \E f \in Fibers : Carries(fiber[f], t)

\* What one fiber has to leave behind when it becomes r.
LEMMA OneWorks ==
    ASSUME FibersPlaced, NEW f \in Fibers, NEW r, fiber' = [fiber EXCEPT ![f] = r],
           active' = active,
           (\E t \in queue' : t.status = "pending")
             => GoesOn(r) \/ \E g \in Fibers \ {f} : GoesOn(fiber[g]),
           processing' => RunsOn(r) \/ \E g \in Fibers \ {f} : RunsOn(fiber[g]),
           \A t \in queue' : t.status = "processing"
             => Carries(r, t) \/ \E g \in Fibers \ {f} : Carries(fiber[g], t)
    PROVE  WorkInv'
<1>1. fiber'[f] = r /\ \A g \in Fibers \ {f} : fiber'[g] = fiber[g]
  BY DEF FibersPlaced
<1>2. (\E t \in queue' : t.status = "pending") => \E g \in Fibers : GoesOn(fiber[g])'
  BY <1>1 DEF GoesOn
<1>3. processing' => \E g \in Fibers : RunsOn(fiber[g])'
  BY <1>1 DEF RunsOn
<1>4. ASSUME NEW t \in queue', t.status = "processing"
      PROVE  \E g \in Fibers : fiber'[g].at \in {"starting", "ingesting"}
                /\ fiber'[g].project = active' /\ fiber'[g].holds /\ fiber'[g].id = t.id
  BY <1>1, <1>4 DEF Carries
<1>5. QED
  BY <1>2, <1>3, <1>4 DEF WorkInv, Carries

\* A fiber that nothing depends on becomes r.
LEMMA AsideWorks ==
    ASSUME FibersPlaced, WorkInv, NEW f \in Fibers, ~ GoesOn(fiber[f]), active # None,
           NEW r, fiber' = [fiber EXCEPT ![f] = r], active' = active, processing' => processing,
           \A t \in queue' : t.status = "processing"
             => \E u \in queue : u.id = t.id /\ u.status = "processing",
           (\E t \in queue' : t.status = "pending")
             => GoesOn(r) \/ \E t \in queue : t.status = "pending"
    PROVE  WorkInv'
<1>1. ~ RunsOn(fiber[f]) /\ \A t : ~ Carries(fiber[f], t)
  BY DEF GoesOn, RunsOn, Carries, Runs
<1>2. (\E t \in queue' : t.status = "pending")
        => GoesOn(r) \/ \E g \in Fibers \ {f} : GoesOn(fiber[g])
  BY DEF WorkInv
<1>3. processing' => \E g \in Fibers \ {f} : RunsOn(fiber[g])
  BY <1>1 DEF WorkInv
<1>4. ASSUME NEW t \in queue', t.status = "processing"
      PROVE  \E g \in Fibers \ {f} : Carries(fiber[g], t)
  <2>1. PICK u \in queue : u.id = t.id /\ u.status = "processing"
    BY <1>4
  <2>2. \E g \in Fibers : Carries(fiber[g], u)
    BY <2>1 DEF WorkInv
  <2>3. QED
    BY <1>1, <2>1, <2>2 DEF Carries
<1>5. QED
  BY <1>2, <1>3, <1>4, OneWorks

LEMMA RequeueWorks ==
    ASSUME NEW ids, Requeue(ids) \/ (\E status \in {"pending", "failed"} : Mark(ids, status))
    PROVE  \A t \in queue' : t.status = "processing"
             => t \in queue /\ t.id \notin ids
<1>1. ASSUME NEW t \in queue', t.status = "processing" PROVE t \in queue /\ t.id \notin ids
  <2>1. PICK u \in queue : \/ u.id \in ids /\ t.status \in {"pending", "failed"}
                           \/ u.id \notin ids /\ t = u
    BY DEF Requeue, Mark, As
  <2>2. QED
    BY <1>1, <2>1
<1>2. QED
  BY <1>1

LEMMA UserWorks ==
    ASSUME TInv, WorkInv, NEW f \in Fibers, UserActs(f)
    PROVE  WorkInv'
<1>1. FibersPlaced /\ fiber[f].at = "idle"
  BY DEF TInv, UserActs, Enqueue, EnqueueNew, Retry, Cancel, CancelAll, ClearCompleted, Pause,
     Restore, User
<1>2. ~ GoesOn(fiber[f])
  BY <1>1 DEF GoesOn, Runs
<1>3. ASSUME NEW at, NEW p, p = active, at \in {"kick", "pausing"} PROVE GoesOn(Issue(at, p))
  BY <1>3 DEF GoesOn, Issue, IssueFor
<1>4. ASSUME NEW at, NEW p, p = active, active # None, Save(f, at, p), active' = active,
             processing' => processing,
             \A t \in queue' : t.status = "processing"
               => \E u \in queue : u.id = t.id /\ u.status = "processing",
             at \notin {"kick", "pausing"} /\ (\E t \in queue' : t.status = "pending")
               => \E t \in queue : t.status = "pending"
      PROVE  WorkInv'
  <2> DEFINE r == Issue(at, p)
  <2>1. fiber' = [fiber EXCEPT ![f] = r]
    BY <1>4 DEF Save
  <2>2. at \in {"kick", "pausing"} => GoesOn(r)
    BY <1>3, <1>4
  <2> HIDE DEF r
  <2>3. QED
    BY <1>1, <1>2, <1>4, <2>1, <2>2, AsideWorks
<1>5. ASSUME NEW s \in Sources, Enqueue(f, s) PROVE WorkInv'
  <2>1. /\ active # None /\ Save(f, "kick", active) /\ UNCHANGED <<active, processing>>
        /\ \E ids : Requeue(ids)
    BY <1>5 DEF Enqueue
  <2>2. QED
    BY <1>4, <2>1, RequeueWorks
<1>6. ASSUME NEW s \in Sources, EnqueueNew(f, s) PROVE WorkInv'
  <2>1. /\ active # None /\ Save(f, "kick", active) /\ UNCHANGED <<active, processing>>
    BY <1>6 DEF EnqueueNew
  <2>2. \A t \in queue' : t.status = "processing" => t \in queue
    BY <1>6 DEF EnqueueNew
  <2>3. QED
    BY <1>4, <2>1, <2>2
<1>7. ASSUME NEW ids \in SUBSET Ids, Retry(f, ids) PROVE WorkInv'
  <2>1. /\ active # None /\ Save(f, "kick", active) /\ UNCHANGED <<active, processing>>
        /\ Requeue(ids)
    BY <1>7 DEF Retry
  <2>2. QED
    BY <1>4, <2>1, RequeueWorks
<1>8. ASSUME NEW task \in queue, Cancel(f, task) PROVE WorkInv'
  <2>1. /\ Save(f, "kick", active) /\ active' = active
        /\ processing' => processing
        /\ queue' \subseteq queue
    BY <1>8 DEF Cancel
  <2>2. active # None
    BY <1>8, IngestAssumption DEF Cancel, TInv, TypeOK, Tasks
  <2>3. \A t \in queue' : t.status = "processing"
          => \E u \in queue : u.id = t.id /\ u.status = "processing"
    BY <2>1
  <2>4. QED
    BY <1>4, <2>1, <2>2, <2>3
<1>9. ASSUME CancelAll(f) \/ ClearCompleted(f) PROVE WorkInv'
  <2>1. /\ active # None /\ Save(f, "saving", active) /\ active' = active
        /\ processing' => processing
        /\ queue' \subseteq queue
    BY <1>9 DEF CancelAll, ClearCompleted, With
  <2>2. \A t \in queue' : t.status = "processing"
          => \E u \in queue : u.id = t.id /\ u.status = "processing"
    BY <2>1
  <2>3. (\E t \in queue' : t.status = "pending") => \E t \in queue : t.status = "pending"
    BY <2>1
  <2>4. QED
    BY <1>4, <2>1, <2>2, <2>3
<1>10. ASSUME Pause(f) PROVE WorkInv'
  <2>1. /\ active # None /\ Save(f, "pausing", active) /\ active' = active /\ ~ processing'
        /\ \E ids : Mark(ids, "pending")
    BY <1>10 DEF Pause
  <2>2. QED
    BY <1>4, <2>1, RequeueWorks
<1>11. ASSUME NEW p \in Projects, Restore(f, p) PROVE WorkInv'
  BY <1>11 DEF Restore, WorkInv
<1>12. QED
  BY <1>5, <1>6, <1>7, <1>8, <1>9, <1>10, <1>11 DEF UserActs

\* processNext by fiber f, which neither holds the queue nor a task.
LEMMA NextWorks ==
    ASSUME OInv, FibersPlaced, WorkInv, NEW f \in Fibers, NEW p, ProcessNext(f, p),
           ~ RunsOn(fiber[f]) \/ ~ processing',
           \A t : ~ Carries(fiber[f], t),
           GoesOn(fiber[f]) => p = active, UNCHANGED <<queue, active>>, processing' => processing
    PROVE  WorkInv'
<1> DEFINE waiting == {t \in queue' : t.project = p /\ t.status = "pending"}
           r == [at |-> "lookup", project |-> p, id |-> Min(IdsIn(waiting)), holds |-> TRUE,
                 content |-> {}]
           next == IF processing' \/ active' # p \/ waiting = {} THEN Idle ELSE r
<1>1. fiber' = [fiber EXCEPT ![f] = next]
  BY DEF ProcessNext
<1>2. CASE active = None
  BY <1>2 DEF WorkInv
<1>3. CASE active # None
  <2>1. processing' => \E g \in Fibers \ {f} : RunsOn(fiber[g])
    BY <1>3 DEF WorkInv
  <2>2. ASSUME NEW t \in queue', t.status = "processing"
        PROVE  \E g \in Fibers \ {f} : Carries(fiber[g], t)
    BY <1>3, <2>2 DEF WorkInv
  <2>3. ASSUME \E t \in queue' : t.status = "pending"
        PROVE  GoesOn(next) \/ \E g \in Fibers \ {f} : GoesOn(fiber[g])
    <3>1. CASE processing'
      BY <2>1, <3>1 DEF RunsOn, GoesOn
    <3>2. CASE ~ GoesOn(fiber[f])
      BY <1>3, <2>3, <3>2 DEF WorkInv
    <3>3. CASE ~ processing' /\ GoesOn(fiber[f])
      <4>1. p = active /\ waiting # {}
        BY <2>3, <3>3 DEF OInv, QueueOwned
      <4>2. next = r
        BY <3>3, <4>1
      <4> HIDE DEF waiting
      <4>3. GoesOn(r)
        BY <4>1 DEF GoesOn
      <4>4. QED
        BY <4>2, <4>3
    <3>4. QED
      BY <3>1, <3>2, <3>3
  <2> HIDE DEF next
  <2>4. QED
    BY <1>1, <2>1, <2>2, <2>3, OneWorks
<1>4. QED
  BY <1>2, <1>3

LEMMA RestoredWorks ==
    ASSUME TInv, OInv, WorkInv, NEW f \in Fibers, Restored(f)
    PROVE  WorkInv'
<1> DEFINE p    == fiber[f].project
           mine == {IF t.status = "processing" THEN As(t, "pending", t.retries) ELSE t :
                      t \in {u \in file[p] : u.project = p}}
           r    == Issue("again", p)
<1>1. /\ p = active /\ active # None /\ UNCHANGED <<active, processing>>
      /\ fiber[f].at = "loading"
  BY DEF Restored, OInv, Handshake
<1>2. queue' = mine /\ fiber' = Detach(f, r)
  BY DEF Restored
<1>3. r.at = "again" /\ r.project = active
  BY <1>1 DEF Issue, IssueFor
<1>4. \A t \in mine : t.status # "processing"
  BY DEF As
<1> HIDE DEF r, mine
<1>5. /\ \A g \in Fibers : g # f =>
            fiber'[g].at = fiber[g].at /\ fiber'[g].project = fiber[g].project
      /\ fiber'[f] = r
  BY <1>2 DEF Detach, Loose
<1>6. GoesOn(fiber[f])'
  BY <1>1, <1>3, <1>5 DEF GoesOn
<1>7. ASSUME processing' PROVE \E g \in Fibers : RunsOn(fiber[g])'
  <2>1. PICK g \in Fibers : RunsOn(fiber[g])
    BY <1>1, <1>7 DEF WorkInv
  <2>2. g # f
    BY <1>1, <2>1 DEF RunsOn, Runs
  <2>3. QED
    BY <1>1, <1>5, <2>1, <2>2 DEF RunsOn
<1>8. QED
  BY <1>2, <1>4, <1>6, <1>7 DEF WorkInv

LEMMA ContinuesWorks ==
    ASSUME TInv, OInv, WorkInv, NEW f \in Fibers, Continues(f)
    PROVE  WorkInv'
<1>1. FibersPlaced
  BY DEF TInv
<1>2. ASSUME active # None, active' = active, processing' = processing, queue' = queue,
             fiber' = [fiber EXCEPT ![f] = Idle], ~ GoesOn(fiber[f])
      PROVE  WorkInv'
  BY <1>1, <1>2, AsideWorks
<1>3. ASSUME active = None, active' = active PROVE WorkInv'
  BY <1>3 DEF WorkInv
<1>4. CASE Saved(f)
  BY <1>2, <1>3, <1>4 DEF Saved, GoesOn, Runs
<1>5. CASE LookupLate(f) \/ StartLate(f) \/ IngestedLate(f) \/ RestoredNothing(f)
  BY <1>2, <1>3, <1>5 DEF RestoredNothing, LookupLate, StartLate, IngestedLate, GoesOn, Runs
<1>6. CASE Kick(f)
  <2> DEFINE p == IF fiber[f].at = "kick" THEN active ELSE fiber[f].project
  <2>1. /\ ProcessNext(f, p) /\ UNCHANGED <<queue, active, processing>>
        /\ fiber[f].at \in {"kick", "again"}
    BY <1>6 DEF Kick
  <2>2. /\ ~ RunsOn(fiber[f]) /\ \A t : ~ Carries(fiber[f], t)
        /\ GoesOn(fiber[f]) => p = active
    BY <2>1 DEF RunsOn, Carries, GoesOn, Runs
  <2> HIDE DEF p
  <2>3. QED
    BY <1>1, <2>1, <2>2, NextWorks
<1>7. CASE End(f)
  <2>1. /\ ProcessNext(f, fiber[f].project) /\ UNCHANGED <<queue, active>> /\ ~ processing'
        /\ fiber[f].at = "ending"
    BY <1>7 DEF End
  <2>2. /\ \A t : ~ Carries(fiber[f], t)
        /\ GoesOn(fiber[f]) => fiber[f].project = active
    BY <2>1 DEF Carries, GoesOn, Runs
  <2>3. QED
    BY <1>1, <2>1, <2>2, NextWorks
<1>8. CASE Paused(f)
  BY <1>8 DEF Paused, WorkInv
<1>9. CASE LookupFails(f) \/ StartFails(f)
  <2> DEFINE r == Issue("again", fiber[f].project)
  <2>1. /\ fiber' = [fiber EXCEPT ![f] = r] /\ active' = active /\ Mark(Held(f), "failed")
        /\ fiber[f].project = active
        /\ (fiber[f].at = "lookup" /\ processing' = processing) \/ ~ processing'
    BY <1>9 DEF LookupFails, StartFails, Save
  <2>2. GoesOn(r)
    BY <2>1 DEF GoesOn, Issue, IssueFor
  <2>3. active # None
    BY <1>9, <2>1, IngestAssumption
    DEF LookupFails, StartFails, TInv, FibersPlaced, Placed
  <2>4. processing' => \E g \in Fibers \ {f} : RunsOn(fiber[g])
    BY <2>1, <2>3 DEF WorkInv, RunsOn, Runs
  <2>5. ASSUME NEW t \in queue', t.status = "processing"
        PROVE  \E g \in Fibers \ {f} : Carries(fiber[g], t)
    <3>1. t \in queue /\ t.id \notin Held(f)
      BY <2>1, <2>5, RequeueWorks
    <3>2. ~ Carries(fiber[f], t)
      BY <3>1 DEF Held, Carries
    <3>3. QED
      BY <2>3, <2>5, <3>1, <3>2 DEF WorkInv
  <2> HIDE DEF r
  <2>6. QED
    BY <1>1, <2>1, <2>2, <2>4, <2>5, OneWorks
<1>10. CASE Take(f)
  <2> DEFINE r == IssueFor("starting", fiber[f].project, fiber[f].id, fiber[f].holds)
  <2>1. /\ fiber' = [fiber EXCEPT ![f] = r] /\ active' = active /\ Mark(Held(f), "processing")
        /\ fiber[f].project = active /\ fiber[f].at = "lookup"
    BY <1>10 DEF Take
  <2>2. GoesOn(r) /\ RunsOn(r)
    BY <2>1 DEF GoesOn, RunsOn, Runs, IssueFor
  <2>3. active # None
    BY <2>1, <1>1, IngestAssumption DEF FibersPlaced, Placed
  <2>4. ASSUME NEW t \in queue', t.status = "processing"
        PROVE  Carries(r, t) \/ \E g \in Fibers \ {f} : Carries(fiber[g], t)
    <3>1. PICK u \in queue : /\ t.id = u.id
                             /\ u.id \in Held(f) \/ u = t
      BY <2>1 DEF Mark, As
    <3>2. CASE t.id \in Held(f)
      BY <2>1, <3>2 DEF Held, Carries, IssueFor
    <3>3. CASE u = t /\ t.id \notin Held(f)
      <4>1. ~ Carries(fiber[f], t)
        BY <2>1 DEF Carries
      <4>2. QED
        BY <2>3, <2>4, <3>3, <4>1 DEF WorkInv
    <3>4. QED
      BY <3>1, <3>2, <3>3
  <2> HIDE DEF r
  <2>5. QED
    BY <1>1, <2>1, <2>2, <2>4, OneWorks
<1>11. CASE Start(f)
  <2> DEFINE r == [at |-> "ingesting", project |-> fiber[f].project, id |-> fiber[f].id,
                   holds |-> fiber[f].holds, content |-> {}]
  <2>1. /\ fiber' = [fiber EXCEPT ![f] = r] /\ UNCHANGED <<queue, active, processing>>
        /\ fiber[f].project = active /\ fiber[f].at = "starting"
    BY <1>11 DEF Start
  <2>2. GoesOn(r) /\ RunsOn(r)
    BY <2>1 DEF GoesOn, RunsOn, Runs
  <2>3. active # None
    BY <2>1, <1>1, IngestAssumption DEF FibersPlaced, Placed
  <2>4. \A t : Carries(fiber[f], t) => Carries(r, t)
    BY DEF Carries
  <2>5. \A t \in queue' : t.status = "processing"
           => Carries(r, t) \/ \E g \in Fibers \ {f} : Carries(fiber[g], t)
    <3> HIDE DEF r
    <3>1. QED
      BY <2>1, <2>3, <2>4 DEF WorkInv
  <2> HIDE DEF r
  <2>6. QED
    BY <1>1, <2>1, <2>2, <2>5, OneWorks
<1>12. CASE Ingested(f) \/ IngestFails(f)
  <2> DEFINE r == Issue("ending", fiber[f].project)
  <2>1. /\ fiber' = [fiber EXCEPT ![f] = r] /\ UNCHANGED <<active, processing>>
        /\ fiber[f].project = active /\ fiber[f].at = "ingesting"
    BY <1>12 DEF Ingested, IngestFails, Save
  <2>2. GoesOn(r) /\ RunsOn(r)
    BY <2>1 DEF GoesOn, RunsOn, Runs, Issue, IssueFor
  <2>3. active # None
    BY <2>1, <1>1, IngestAssumption DEF FibersPlaced, Placed
  <2>4. ASSUME NEW t \in queue', t.status = "processing"
        PROVE  t \in queue /\ t.id \notin Held(f)
    <3>1. CASE Ingested(f)
      BY <3>1, <2>4 DEF Ingested, Held
    <3>2. CASE IngestFails(f)
      <4>1. PICK u \in queue : t = IF u.id \in Held(f) THEN Failed(u) ELSE u
        BY <3>2 DEF IngestFails
      <4>2. Failed(u).status # "processing"
        BY DEF Failed, As
      <4>3. QED
        BY <2>4, <4>1, <4>2
    <3>3. QED
      BY <1>12, <3>1, <3>2
  <2>5. \A t \in queue' : t.status = "processing"
           => \E g \in Fibers \ {f} : Carries(fiber[g], t)
    BY <2>3, <2>4 DEF WorkInv, Held, Carries
  <2> HIDE DEF r
  <2>6. QED
    BY <1>1, <2>1, <2>2, <2>5, OneWorks
<1>13. QED
  BY <1>4, <1>5, <1>6, <1>7, <1>8, <1>9, <1>10, <1>11, <1>12, RestoredWorks DEF Continues

LEMMA StepWorks == ASSUME TInv, OInv, WorkInv, [Next]_vars PROVE WorkInv'
<1>1. CASE Exit
  BY <1>1 DEF Exit, WorkInv
<1>2. CASE UNCHANGED vars
  BY <1>2 DEF vars, WorkInv, GoesOn, RunsOn, Carries
<1>3. QED
  BY <1>1, <1>2, UserWorks, ContinuesWorks DEF Next

\* However calls, failures and switches of the project interleave, the queue of
\* the open project does not come to rest with a task that waits or counts as
\* running, nor does it stay busy.
THEOREM NeverStranded == ASSUME Patient PROVE Spec => []NothingStranded
<1>1. Init => WorkInv
  BY DEF Init, WorkInv
<1>2. TInv /\ OInv /\ WorkInv /\ [Next]_vars => WorkInv'
  BY StepWorks
<1>3. TInv /\ WorkInv => NothingStranded
  <2> SUFFICES ASSUME TInv, WorkInv, active # None, \A f \in Fibers : fiber[f].at = "idle"
               PROVE  ~ processing /\ With({"pending", "processing"}) = {}
    BY DEF NothingStranded
  <2>1. \A f \in Fibers : ~ GoesOn(fiber[f]) /\ ~ RunsOn(fiber[f]) /\ \A t : ~ Carries(fiber[f], t)
    BY DEF GoesOn, RunsOn, Carries, Runs
  <2>2. QED
    BY <2>1 DEF WorkInv, With
<1>4. Spec => []OInv
  BY InitOwned, StepOwned, PTL DEF Spec
<1>5. QED
  BY <1>1, <1>2, <1>3, <1>4, SpecTyped, PTL DEF Spec

----------------------------------------------------------------------------
(* The newest save, once it has landed, leaves nothing to be lost.         *)

\* The newest save of the open project writes what the queue holds.
SaveInv ==
    /\ FileHoldsQueue
    /\ newest # 0 => /\ active # None /\ fiber[newest].at \in Writing
                     /\ fiber[newest].project = active /\ fiber[newest].content = queue

\* A change is saved.
LEMMA SaveSaves ==
    ASSUME NEW f \in Fibers, NEW at \in Writing, NEW p \in Projects, NEW n, NEW h,
           fiber'[f] = IssueFor(at, p, n, h), Newest(f, p), active' = active
    PROVE  SaveInv'
<1>1. ~ kept'
  BY DEF Newest
<1>2. newest' = f => p = active
  <2>1. f # 0
    BY DEF Fibers
  <2>2. QED
    BY <2>1 DEF Newest
<1>3. newest' \in {0, f}
  BY DEF Newest
<1>4. /\ fiber'[f].at = at /\ fiber'[f].project = p /\ fiber'[f].content = queue'
  BY DEF IssueFor
<1>5. p # None
  BY IngestAssumption
<1>6. QED
  BY <1>1, <1>2, <1>3, <1>4, <1>5 DEF SaveInv, FileHoldsQueue

\* A save lands, or fails.
LEMMA LandsSaves ==
    ASSUME TInv, SaveInv, NEW f \in Fibers, fiber[f].at \in Writing, Lands(f),
           UNCHANGED <<queue, active>>, \A g \in Fibers \ {f} : fiber'[g] = fiber[g]
    PROVE  SaveInv'
<1> DEFINE p == fiber[f].project
<1>1. p \in Projects /\ active \in Projects \cup {None} /\ DOMAIN file = Projects
      /\ newest \in Fibers \cup {0}
  BY DEF TInv, TypeOK, FibersPlaced, Placed, Writing
<1>2. newest' # 0 => newest' = newest /\ newest # f
  BY DEF Lands
<1>3. newest' # 0 => newest' \in Fibers \ {f}
  BY <1>1, <1>2
<1>4. ASSUME active # None, kept' PROVE file'[active] = queue
  <2>1. CASE p = active
    <3>1. newest = f /\ faults' = faults
      BY <1>4, <2>1 DEF Lands
    <3>2. f # 0
      BY DEF Fibers
    <3>3. fiber[f].content = queue
      BY <3>1, <3>2 DEF SaveInv
    <3>4. faults' = faults => file' = [file EXCEPT ![p] = fiber[f].content]
      <4>1. faults \in Nat
        BY IngestAssumption DEF TInv, TypeOK
      <4>2. Fault => faults' # faults
        BY <4>1 DEF Fault
      <4>3. QED
        BY <4>2 DEF Lands, Writes
    <3>5. QED
      BY <1>1, <2>1, <3>1, <3>3, <3>4
  <2>2. CASE p # active
    <3>1. kept
      BY <1>4, <2>2 DEF Lands
    <3>2. file'[active] = file[active]
      <4>1. file' = file \/ \E tasks : file' = [file EXCEPT ![p] = tasks]
        BY DEF Lands, Writes
      <4>2. QED
        BY <1>1, <1>4, <2>2, <4>1
    <3>3. QED
      BY <1>4, <3>1, <3>2 DEF SaveInv, FileHoldsQueue
  <2>3. QED
    BY <2>1, <2>2
<1>5. QED
  BY <1>2, <1>3, <1>4 DEF SaveInv, FileHoldsQueue

\* A fiber that was not writing moves, and the queue and the files stay.
LEMMA AsideSaves ==
    ASSUME TInv, SaveInv, NEW f \in Fibers, fiber[f].at \notin Writing,
           UNCHANGED <<queue, active, file, newest, kept>>,
           \A g \in Fibers \ {f} : fiber'[g] = fiber[g]
    PROVE  SaveInv'
<1>1. newest \in Fibers \cup {0}
  BY DEF TInv, TypeOK
<1>2. newest # 0 => newest \in Fibers \ {f}
  BY <1>1 DEF SaveInv
<1>3. QED
  BY <1>2 DEF SaveInv, FileHoldsQueue

LEMMA NothingSaves == ASSUME newest' = 0, kept' = FALSE PROVE SaveInv'
BY DEF SaveInv, FileHoldsQueue

LEMMA UserSaves ==
    ASSUME TInv, SaveInv, NEW f \in Fibers, UserActs(f)
    PROVE  SaveInv'
<1>1. CASE \E p \in Projects : Restore(f, p)
  BY <1>1, NothingSaves DEF Restore
<1>2. CASE ~ \E p \in Projects : Restore(f, p)
  <2>1. active' = active /\ \E at \in {"kick", "saving", "pausing"} : Save(f, at, active)
    BY <1>2 DEF UserActs, Enqueue, EnqueueNew, Retry, Cancel, CancelAll, ClearCompleted, Pause
  <2>2. active \in Projects
    BY <1>2, IngestAssumption DEF UserActs, Enqueue, EnqueueNew, Retry, Cancel, CancelAll,
       ClearCompleted, Pause, TInv, TypeOK, Tasks
  <2>3. PICK at \in {"kick", "saving", "pausing"} : Save(f, at, active)
    BY <2>1
  <2>4. at \in Writing
    BY DEF Writing
  <2>5. fiber'[f] = IssueFor(at, active, 0, FALSE) /\ Newest(f, active)
    BY <2>3 DEF Save, Issue, TInv, FibersPlaced
  <2>6. QED
    BY <2>1, <2>2, <2>4, <2>5, SaveSaves
<1>3. QED
  BY <1>1, <1>2

LEMMA ContinuesSaves ==
    ASSUME TInv, SaveInv, NEW f \in Fibers, Continues(f)
    PROVE  SaveInv'
<1>1. /\ {"saving", "kick", "again", "pausing", "starting", "ending"} \subseteq Writing
      /\ {"lookup", "ingesting", "loading"} \cap Writing = {}
  BY DEF Writing
<1>2. /\ DOMAIN fiber = Fibers
      /\ fiber[f].at # "idle" => fiber[f].project \in Projects
  BY DEF TInv, FibersPlaced, Placed
<1>3. ASSUME NEW r, fiber' = [fiber EXCEPT ![f] = r]
      PROVE  \A g \in Fibers \ {f} : fiber'[g] = fiber[g]
  BY <1>2, <1>3
<1>4. CASE Saved(f) \/ Kick(f) \/ StartLate(f) \/ Start(f) \/ End(f)
  <2>1. /\ UNCHANGED <<queue, active>> /\ Lands(f) /\ fiber[f].at \in Writing
        /\ \E r : fiber' = [fiber EXCEPT ![f] = r]
    BY <1>1, <1>4 DEF Saved, Kick, StartLate, Start, End, ProcessNext
  <2>2. QED
    BY <1>3, <2>1, LandsSaves
<1>5. CASE RestoredNothing(f) \/ LookupLate(f) \/ IngestedLate(f)
  <2>1. /\ UNCHANGED <<queue, active, file, newest, kept>> /\ fiber[f].at \notin Writing
        /\ fiber' = [fiber EXCEPT ![f] = Idle]
    BY <1>1, <1>5 DEF RestoredNothing, LookupLate, IngestedLate, saves
  <2>2. QED
    BY <1>3, <2>1, AsideSaves
<1>6. CASE Paused(f)
  BY <1>6, NothingSaves DEF Paused
<1>7. CASE Restored(f) \/ LookupFails(f) \/ StartFails(f) \/ Take(f) \/ Ingested(f) \/ IngestFails(f)
  <2>1. active' = active /\ fiber[f].at # "idle" /\ Newest(f, fiber[f].project)
    BY <1>7 DEF Restored, LookupFails, StartFails, Take, Ingested, IngestFails, Save
  <2>2. \E at \in Writing : \E n, h : fiber'[f] = IssueFor(at, fiber[f].project, n, h)
    <3>1. CASE Restored(f)
      <4>1. fiber'[f] = Issue("again", fiber[f].project)
        BY <3>1 DEF Restored, Detach
      <4>2. QED
        BY <1>1, <4>1 DEF Issue
    <3>2. CASE Take(f)
      BY <1>1, <1>2, <3>2 DEF Take
    <3>3. CASE ~ Restored(f) /\ ~ Take(f)
      <4>1. \E at \in Writing : fiber' = [fiber EXCEPT ![f] = Issue(at, fiber[f].project)]
        BY <1>1, <1>7, <3>3 DEF LookupFails, StartFails, Ingested, IngestFails, Save
      <4>2. QED
        BY <1>2, <4>1 DEF Issue
    <3>4. QED
      BY <3>1, <3>2, <3>3
  <2>3. QED
    BY <1>2, <2>1, <2>2, SaveSaves
<1>8. QED
  BY <1>4, <1>5, <1>6, <1>7 DEF Continues

LEMMA StepSaves == ASSUME TInv, SaveInv, [Next]_vars PROVE SaveInv'
<1>1. CASE Exit
  BY <1>1, NothingSaves DEF Exit
<1>2. CASE UNCHANGED vars
  BY <1>2 DEF vars, SaveInv, FileHoldsQueue
<1>3. QED
  BY <1>1, <1>2, UserSaves, ContinuesSaves DEF Next

\* Once the newest save of the open project has reached its file whole and as
\* the last write, the file holds the queue, and a restart of the application
\* loses nothing: whatever the user does meanwhile, in whatever order the
\* writes land, and whichever reads and earlier writes fail.  So no change of
\* the queue goes unsaved, or is saved to another project.
THEOREM RestartLosesNothing == Spec => []FileHoldsQueue
<1>1. Init => SaveInv
  BY DEF Init, SaveInv, FileHoldsQueue
<1>2. TInv /\ SaveInv /\ [Next]_vars => SaveInv'
  BY StepSaves
<1>3. SaveInv => FileHoldsQueue
  BY DEF SaveInv
<1>4. QED
  BY <1>1, <1>2, <1>3, SpecTyped, PTL DEF Spec
=============================================================================
