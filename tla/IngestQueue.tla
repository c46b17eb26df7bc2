---------------------------- MODULE IngestQueue ----------------------------
(***************************************************************************)
(* The persistent ingest queue of llm_wiki (lib/ingest-queue.ts).          *)
(*                                                                         *)
(* The module state of the code is `queue', `processing' and `active' (the *)
(* current project, its id and its path, set together).                    *)
(* Every call of one of its asynchronous functions is a fiber: it runs to  *)
(* the next await, and in between any other fiber runs.  What a fiber      *)
(* awaits is its `at':                                                     *)
(*   "saving"     writeFile, and nothing after it                          *)
(*   "kick"       writeFile, then processNext for the active project       *)
(*   "again"      writeFile, then processNext for its own project          *)
(*   "pausing"    writeFile, then the second half of pauseQueue            *)
(*   "loading"    readFile in restoreQueue                                 *)
(*   "lookup"     the registry, in processNext                             *)
(*   "starting"   writeFile of the task it has just taken                  *)
(*   "ingesting"  autoIngest, raced with the timeout                       *)
(*   "ending"     writeFile of the outcome, then processing = false        *)
(* A write lands when its fiber resumes, with the content the queue had    *)
(* when it was issued.  Each write is a task of a thread pool: writes land *)
(* in any order.  saveQueue catches the error of a write and goes on, and  *)
(* loadQueue takes a file that it cannot read or parse for an empty one.   *)
(* The file is truncated, then written: a write that fails, is mixed with  *)
(* another, or is cut by the end of the application leaves the file as it  *)
(* was or unreadable, which is an empty set of tasks here.                 *)
(*                                                                         *)
(* A fiber refers to the task object it took.  pauseQueue and restoreQueue *)
(* replace the objects of the queue: the fiber no longer `holds' one of    *)
(* them, though one with the same id may be there.                         *)
(*                                                                         *)
(* The abort controller only makes autoIngest throw sooner; here it may    *)
(* throw at any time.                                                      *)
(*                                                                         *)
(* Tasks are appended with ascending ids and keep their place, so a queue  *)
(* is the set of its tasks, and the first is the one with the least id.    *)
(***************************************************************************)
EXTENDS Naturals, FiniteSetsExt

CONSTANTS
    Projects,   \* project ids
    Sources,    \* source paths
    None,       \* no project, no fiber
    MaxFibers,  \* bound: the calls that await something at once
    MaxTasks,   \* bound: the tasks created
    MaxSaved,   \* bound: those of them that earlier sessions left in one file,
                \* none of which has failed in a run
    MaxOps,     \* bound: what the user does
    MaxRetries, \* MAX_RETRIES
    MaxFaults,  \* bound: the reads and writes that fail
    Patient     \* the user lets a project open before doing anything in it,
                \* and does not close it twice

ASSUME IngestAssumption ==
    /\ None \notin Projects /\ None \notin Nat
    /\ MaxFibers \in Nat \ {0}
    /\ MaxTasks \in Nat /\ MaxSaved \in 0..MaxTasks /\ MaxOps \in Nat /\ MaxRetries \in Nat \ {0}
    /\ MaxFaults \in Nat /\ Patient \in BOOLEAN

VARIABLES
    queue,      \* the tasks in memory
    processing, \* a task is being run
    active,     \* currentProjectId, currentProjectPath
    file,       \* project -> its ingest-queue.json
    fiber,      \* fiber -> what it awaits
    issued,     \* the task ids given out
    ops,        \* what the user did so far
    faults,     \* the reads and writes that failed so far
    newest,     \* history: the fiber that awaits the newest save of the open
                \* project, or 0
    kept        \* history: that save was the last write to reach the file, whole

saves == <<newest, kept>>
vars  == <<queue, processing, active, file, fiber, issued, ops, faults, newest, kept>>

Fibers   == 1..MaxFibers
Ids      == 1..MaxTasks
Statuses == {"pending", "processing", "failed"}
Tasks    == [id : Ids, project : Projects, source : Sources,
             status : Statuses, retries : 0..MaxRetries]

Writing == {"saving", "kick", "again", "pausing", "starting", "ending"}
Idle    == [at |-> "idle", project |-> None, id |-> 0, holds |-> FALSE,
            content |-> {}]

Awaiting(at) == {f \in Fibers : fiber[f].at = at}
Opening      == Awaiting("loading") # {}
With(statuses) == {t \in queue : t.status \in statuses}
IdsIn(tasks) == {t.id : t \in tasks}

Init ==
    /\ queue = {} /\ processing = FALSE /\ active = None
    /\ fiber = [f \in Fibers |-> Idle]
    /\ issued \in 0..MaxTasks /\ ops = 0 /\ faults = 0
    /\ newest = 0 /\ kept = FALSE
    /\ \E saved \in [1..issued -> Tasks] :
         /\ \A i \in 1..issued : saved[i].id = i /\ saved[i].retries = 0
         /\ file = [p \in Projects |-> {saved[i] : i \in {j \in 1..issued : saved[j].project = p}}]
    /\ \A p \in Projects : Cardinality(file[p]) <= MaxSaved

\* What a fiber is after it has issued a read, or a write of the new queue,
\* on behalf of a task.
IssueFor(at, p, id, holds) ==
    [at |-> at, project |-> p, id |-> id, holds |-> holds, content |-> queue']

Issue(at, p) == IssueFor(at, p, 0, FALSE)

Newest(f, p) == newest' = (IF p = active THEN f ELSE 0) /\ kept' = FALSE

Save(f, at, p) == fiber' = [fiber EXCEPT ![f] = Issue(at, p)] /\ Newest(f, p)

Fault == faults < MaxFaults /\ faults' = faults + 1

\* The write that fiber f awaits reaches the file, or not.
Writes(f) ==
    LET p == fiber[f].project
    IN  \/ file' = [file EXCEPT ![p] = fiber[f].content] /\ UNCHANGED faults
        \/ Fault /\ file' \in {file, [file EXCEPT ![p] = {}]}

Lands(f) ==
    /\ Writes(f)
    /\ newest' = IF newest = f THEN 0 ELSE newest
    /\ kept' = IF fiber[f].project = active THEN newest = f /\ faults' = faults ELSE kept

\* A call of processNext(p) by fiber f, up to its await.
ProcessNext(f, p) ==
    LET waiting == {t \in queue' : t.project = p /\ t.status = "pending"}
    IN  fiber' = [fiber EXCEPT ![f] =
                    IF processing' \/ active' # p \/ waiting = {} THEN Idle
                    ELSE [at |-> "lookup", project |-> p, id |-> Min(IdsIn(waiting)),
                          holds |-> TRUE, content |-> {}]]

As(task, status, retries) ==
    [id |-> task.id, project |-> task.project, source |-> task.source,
     status |-> status, retries |-> retries]

\* Assignments to the task object that fiber f took, and to those in ids.
Held(f) == IF fiber[f].holds THEN {fiber[f].id} ELSE {}

Mark(ids, status) ==
    queue' = {IF t.id \in ids THEN As(t, status, t.retries) ELSE t : t \in queue}

Requeue(ids) ==
    queue' = {IF t.id \in ids THEN As(t, "pending", 0) ELSE t : t \in queue}

----------------------------------------------------------------------------
(* What the user does.  Each call starts a fiber.                          *)

User(f) == /\ fiber[f].at = "idle" /\ \A g \in Fibers : g < f => fiber[g].at # "idle"
           /\ ops < MaxOps
           /\ Patient => ~Opening
           /\ ops' = ops + 1 /\ UNCHANGED faults

\* upsertQueuedIngestTask: the first waiting or failed task of the source
\* starts afresh, else a new task is appended.  enqueueIngest, enqueueBatch.
Enqueue(f, s) ==
    LET same == {t \in With({"pending", "failed"}) : t.source = s /\ t.project = active}
    IN  /\ User(f) /\ active # None
        /\ same # {}
        /\ Requeue({Min(IdsIn(same))})
        /\ Save(f, "kick", active)
        /\ UNCHANGED <<processing, active, file, issued>>

EnqueueNew(f, s) ==
    /\ User(f) /\ active # None
    /\ \A t \in With({"pending", "failed"}) : t.source # s \/ t.project # active
    /\ issued < MaxTasks /\ issued' = issued + 1
    /\ queue' = queue \cup {[id |-> issued + 1, project |-> active, source |-> s,
                             status |-> "pending", retries |-> 0]}
    /\ Save(f, "kick", active)
    /\ UNCHANGED <<processing, active, file>>

\* retryTask, retryAllFailedTasks: the failed tasks with these ids.
Retry(f, ids) ==
    /\ User(f) /\ active # None
    /\ ids # {} /\ ids \subseteq IdsIn(With({"failed"}))
    /\ Requeue(ids)
    /\ Save(f, "kick", active)
    /\ UNCHANGED <<processing, active, file, issued>>

\* cancelTask
Cancel(f, task) ==
    /\ User(f) /\ task.project = active
    /\ queue' = {t \in queue : t.id # task.id}
    /\ IF task.status = "processing"
         THEN processing' = FALSE ELSE UNCHANGED processing
    /\ Save(f, "kick", active)
    /\ UNCHANGED <<active, file, issued>>

\* cancelAllTasks
CancelAll(f) ==
    /\ User(f) /\ active # None
    /\ queue' = With({"failed"})
    /\ processing' = FALSE
    /\ Save(f, "saving", active)
    /\ UNCHANGED <<active, file, issued>>

\* Mutant: what is cleared is not saved.
ClearCompletedUnsaved(f) ==
    /\ User(f) /\ active # None
    /\ queue' = With({"pending", "processing"})
    /\ UNCHANGED <<processing, active, file, fiber, issued, saves>>

\* clearCompletedTasks
ClearCompleted(f) ==
    /\ User(f) /\ active # None
    /\ queue' = With({"pending", "processing"})
    /\ Save(f, "saving", active)
    /\ UNCHANGED <<processing, active, file, issued>>

\* pauseQueue, up to its await.
Pause(f) ==
    /\ User(f) /\ active # None
    /\ Patient => Awaiting("pausing") = {}
    /\ processing' = FALSE
    /\ Mark(IdsIn(With({"processing"})), "pending")
    /\ Save(f, "pausing", active)
    /\ UNCHANGED <<active, file, issued>>

\* The other fibers keep their task objects, the queue does not.
Loose(r) == [at |-> r.at, project |-> r.project, id |-> r.id, holds |-> FALSE,
             content |-> r.content]
Detach(f, own) == [g \in Fibers |-> IF g = f THEN own ELSE Loose(fiber[g])]

Paused(f) ==
    /\ fiber[f].at = "pausing" /\ Writes(f)
    /\ queue' = {} /\ active' = None
    /\ fiber' = Detach(f, Idle)
    /\ newest' = 0 /\ kept' = FALSE
    /\ UNCHANGED <<processing, issued, ops>>

\* restoreQueue, up to its await.  The welcome screen offers it when no
\* project is open.
Restore(f, p) ==
    /\ User(f) /\ active = None
    /\ queue' = {} /\ processing' = FALSE /\ active' = p
    /\ fiber' = Detach(f, Issue("loading", p))
    /\ newest' = 0 /\ kept' = FALSE
    /\ UNCHANGED <<file, issued>>

\* Nothing was saved, or it cannot be read.
RestoredNothing(f) ==
    /\ fiber[f].at = "loading"
    /\ (file[fiber[f].project] = {} /\ UNCHANGED faults) \/ Fault
    /\ fiber' = [fiber EXCEPT ![f] = Idle]
    /\ UNCHANGED <<queue, processing, active, file, issued, ops, saves>>

Restored(f) ==
    LET p == fiber[f].project
    IN  /\ fiber[f].at = "loading" /\ file[p] # {}
        /\ queue' = {IF t.status = "processing" THEN As(t, "pending", t.retries) ELSE t :
                        t \in {u \in file[p] : u.project = p}}
        /\ fiber' = Detach(f, Issue("again", p)) /\ Newest(f, p)
        /\ UNCHANGED <<processing, active, file, issued, ops, faults>>

\* The application is closed or killed: what is not in a file is gone, and a
\* write may be cut.
Exit ==
    /\ ops < MaxOps /\ ops' = ops + 1
    /\ queue' = {} /\ processing' = FALSE /\ active' = None
    /\ fiber' = [f \in Fibers |-> Idle]
    /\ newest' = 0 /\ kept' = FALSE /\ UNCHANGED issued
    /\ \/ UNCHANGED <<file, faults>>
       \/ Fault /\ \E f \in Fibers : /\ fiber[f].at \in Writing
                                    /\ file' = [file EXCEPT ![fiber[f].project] = {}]

----------------------------------------------------------------------------
(* What fibers do when the call they await returns.                        *)

Saved(f) ==
    /\ fiber[f].at = "saving" /\ Lands(f)
    /\ fiber' = [fiber EXCEPT ![f] = Idle]
    /\ UNCHANGED <<queue, processing, active, issued, ops>>

\* enqueueIngest returns, or another call whose write precedes processNext.
Kick(f) ==
    /\ fiber[f].at \in {"kick", "again"} /\ Lands(f)
    /\ UNCHANGED <<queue, processing, active, issued, ops>>
    /\ ProcessNext(f, IF fiber[f].at = "kick" THEN active ELSE fiber[f].project)

\* The registry answers: the project was closed meanwhile.
LookupLate(f) ==
    /\ fiber[f].at = "lookup" /\ active # fiber[f].project
    /\ fiber' = [fiber EXCEPT ![f] = Idle]
    /\ UNCHANGED <<queue, processing, active, file, issued, ops, faults, saves>>

\* The registry does not know the project.
LookupFails(f) ==
    /\ fiber[f].at = "lookup" /\ active = fiber[f].project
    /\ Mark(Held(f), "failed")
    /\ Save(f, "again", fiber[f].project)
    /\ UNCHANGED <<processing, active, file, issued, ops, faults>>

\* Mutant: the project is not looked at again after the await.
TakeUnchecked(f) ==
    /\ fiber[f].at = "lookup"
    /\ processing' = TRUE
    /\ Mark(Held(f), "processing")
    /\ fiber' = [fiber EXCEPT ![f] = IssueFor("starting", fiber[f].project,
                                               fiber[f].id, fiber[f].holds)]
    /\ Newest(f, fiber[f].project)
    /\ UNCHANGED <<active, file, issued, ops, faults>>

Take(f) ==
    /\ fiber[f].at = "lookup" /\ active = fiber[f].project
    /\ processing' = TRUE
    /\ Mark(Held(f), "processing")
    /\ fiber' = [fiber EXCEPT ![f] = IssueFor("starting", fiber[f].project,
                                               fiber[f].id, fiber[f].holds)]
    /\ Newest(f, fiber[f].project)
    /\ UNCHANGED <<active, file, issued, ops, faults>>

StartLate(f) ==
    /\ fiber[f].at = "starting" /\ active # fiber[f].project /\ Lands(f)
    /\ fiber' = [fiber EXCEPT ![f] = Idle]
    /\ UNCHANGED <<queue, processing, active, issued, ops>>

\* No model is configured.
StartFails(f) ==
    /\ fiber[f].at = "starting" /\ active = fiber[f].project /\ Writes(f)
    /\ processing' = FALSE
    /\ Mark(Held(f), "failed")
    /\ Save(f, "again", fiber[f].project)
    /\ UNCHANGED <<active, issued, ops>>

Start(f) ==
    /\ fiber[f].at = "starting" /\ active = fiber[f].project /\ Lands(f)
    /\ fiber' = [fiber EXCEPT ![f] =
                    [at |-> "ingesting", project |-> fiber[f].project, id |-> fiber[f].id,
                     holds |-> fiber[f].holds, content |-> {}]]
    /\ UNCHANGED <<queue, processing, active, issued, ops>>

\* autoIngest returns or throws for a project that is no longer active.
IngestedLate(f) ==
    /\ fiber[f].at = "ingesting" /\ active # fiber[f].project
    /\ fiber' = [fiber EXCEPT ![f] = Idle]
    /\ UNCHANGED <<queue, processing, active, file, issued, ops, faults, saves>>

\* autoIngest wrote files.
Ingested(f) ==
    /\ fiber[f].at = "ingesting" /\ active = fiber[f].project
    /\ queue' = {t \in queue : t.id # fiber[f].id}
    /\ Save(f, "ending", fiber[f].project)
    /\ UNCHANGED <<processing, active, file, issued, ops, faults>>

\* Mutant: a failed run is always tried again.
FailedNever(task) == As(task, "pending", task.retries + 1)

\* The task after one more failed run.  Runs past the last are not counted.
Failed(task) ==
    IF task.retries + 1 >= MaxRetries
      THEN As(task, "failed", MaxRetries)
      ELSE As(task, "pending", task.retries + 1)

\* autoIngest threw, wrote nothing, was aborted or took too long.
IngestFails(f) ==
    /\ fiber[f].at = "ingesting" /\ active = fiber[f].project
    /\ queue' = {IF t.id \in Held(f) THEN Failed(t) ELSE t : t \in queue}
    /\ Save(f, "ending", fiber[f].project)
    /\ UNCHANGED <<processing, active, file, issued, ops, faults>>

\* Mutant: the queue stays busy after a run.
EndBusy(f) ==
    /\ fiber[f].at = "ending" /\ Lands(f)
    /\ UNCHANGED <<queue, processing, active, issued, ops>>
    /\ ProcessNext(f, fiber[f].project)

End(f) ==
    /\ fiber[f].at = "ending" /\ Lands(f)
    /\ processing' = FALSE
    /\ UNCHANGED <<queue, active, issued, ops>>
    /\ ProcessNext(f, fiber[f].project)

UserActs(f) ==
    \/ \E s \in Sources : Enqueue(f, s) \/ EnqueueNew(f, s)
    \/ \E ids \in SUBSET Ids : Retry(f, ids)
    \/ \E task \in queue : Cancel(f, task)
    \/ CancelAll(f) \/ ClearCompleted(f) \/ Pause(f)
    \/ \E p \in Projects : Restore(f, p)

Continues(f) ==
    \/ Saved(f) \/ Kick(f) \/ Paused(f) \/ RestoredNothing(f) \/ Restored(f)
    \/ LookupLate(f) \/ LookupFails(f) \/ Take(f)
    \/ StartLate(f) \/ StartFails(f) \/ Start(f)
    \/ IngestedLate(f) \/ Ingested(f) \/ IngestFails(f) \/ End(f)

Next == (\E f \in Fibers : UserActs(f) \/ Continues(f)) \/ Exit

\* A call that is awaited returns: disk and registry answer, and autoIngest
\* is raced with a timeout.
Fairness == \A f \in Fibers : WF_vars(Continues(f))

Spec == Init /\ [][Next]_vars /\ Fairness

----------------------------------------------------------------------------
(* Properties.                                                             *)

TypeOK ==
    /\ queue \subseteq Tasks /\ processing \in BOOLEAN
    /\ active \in Projects \cup {None}
    /\ file \in [Projects -> SUBSET Tasks]
    /\ issued \in 0..MaxTasks /\ ops \in 0..MaxOps
    /\ fiber \in [Fibers -> [at : Writing \cup {"idle", "loading", "lookup", "ingesting"},
                             project : Projects \cup {None}, id : Ids \cup {0},
                             holds : BOOLEAN, content : SUBSET Tasks]]
    /\ faults \in 0..MaxFaults /\ newest \in Fibers \cup {0} /\ kept \in BOOLEAN

\* Whatever is interrupted, cancelled or switched, the file of a project
\* holds only tasks of that project.
OwnFile == \A p \in Projects : \A t \in file[p] : t.project = p

\* The queue never comes to rest with work left: when nothing is awaited, no
\* task of the open project waits or counts as running, and the next one to
\* be enqueued would start.
NothingStranded ==
    (active # None /\ \A f \in Fibers : fiber[f].at = "idle")
      => ~processing /\ With({"pending", "processing"}) = {}

\* A task that waits is eventually run to an end, unless its project is
\* closed or the user removes it.
TasksSettle ==
    \A t \in Ids : (t \in IdsIn(With({"pending"})))
                     ~> (t \notin IdsIn(With({"pending", "processing"})))

\* The file of the open project holds the queue once the newest save has
\* reached it whole and as the last write, whatever happened to earlier saves:
\* every change is saved, with all changes before it, to the right file.  A
\* restart of the application then loses nothing.
FileHoldsQueue == (active # None /\ kept) => file[active] = queue

=============================================================================
