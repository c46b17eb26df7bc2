-------------------------------- MODULE Flock --------------------------------
(***************************************************************************)
(* The lock that processes take with a directory (opencode:                *)
(* core/src/util/flock.ts; effect-flock.ts repeats the protocol).          *)
(*                                                                         *)
(* The lock of a key is a directory: who makes it has the lock.  It holds  *)
(* a heartbeat, which the owner touches while it has the lock, and         *)
(* meta.json with the owner's token.  A lock whose heartbeat (or meta.json *)
(* or, without both, whose directory) is older than staleMs is stale: a    *)
(* process that has lost its owner is cleaned up by the contender that     *)
(* makes the `.breaker' directory next to it.                              *)
(*                                                                         *)
(* at[p] is what process p does next: mkdir, a write, a readdir, an unlink *)
(* and a rmdir are each one step.  A staleness test is one step although   *)
(* it makes up to three stats: the time it compares with is taken before   *)
(* them, so what it calls stale was stale at its first stat, and what it   *)
(* calls fresh was fresh or gone at its last.  The breaker is always empty *)
(* and is removed in one step.                                             *)
(*                                                                         *)
(* `rm' lists the directory, unlinks what it saw by name, in any order and *)
(* whoever wrote it, and removes the directory if nothing is left in it.   *)
(*                                                                         *)
(* Time is the set `old' of the files of the lock that were not touched    *)
(* for staleMs.  What nobody keeps becomes old.  An owner touches its      *)
(* heartbeat, never its meta.json: that becomes old while the lock is held *)
(* for long.  All else becomes old under a living owner only when that is  *)
(* `Late': when it takes longer than staleMs from mkdir to the heartbeat,  *)
(* between heartbeats, or from the last one to the end of the release.     *)
(***************************************************************************)
EXTENDS Naturals

CONSTANTS
    Processes,
    None,        \* no process
    MaxCrashes,  \* bound: processes that crash
    Slowness,    \* how processes are slow: "late", or "long" in holding the lock
    MaxSlow      \* bound: times that a process is slow

ASSUME FlockAssumption ==
    None \notin Processes /\ MaxCrashes \in Nat
    /\ Slowness \subseteq {"late", "long"} /\ MaxSlow \in Nat

VARIABLES
    at,       \* process -> what it does next
    todo,     \* process -> what its rm has yet to unlink
    lock,     \* the lock directory: who made it, its files, which are old, its token
    breaker,  \* the .breaker directory
    crashes, slow,
    intact    \* history: no process was late, no breaker became old, and no
              \* lock was held longer than staleMs when its release was done

vars == <<at, todo, lock, breaker, crashes, slow, intact>>
counts == <<crashes, slow, intact>>

Files  == {"heartbeat", "meta"}
Unread == {"unread"}   \* the directory is not listed yet

Owns    == {"beating", "signing", "held", "leaving"}
Removes == {"removing", "leaving", "undoing"}
Breaks  == {"retesting", "removing", "remaking", "won", "lost", "failed"}
Waits   == {"making", "testing", "claiming", "inspecting", "clearing", "waiting"} \cup Breaks

NoLock    == [by |-> None, files |-> {}, old |-> {}, token |-> None]
NoBreaker == [by |-> None, old |-> FALSE]
Made(p)   == [by |-> p, files |-> {}, old |-> {}, token |-> None]

Free == lock.by = None

\* The age that counts is the heartbeat's, else that of meta.json, else the
\* directory's.
Dated == IF "heartbeat" \in lock.files THEN "heartbeat"
         ELSE IF "meta" \in lock.files THEN "meta" ELSE "dir"
Stale == ~Free /\ Dated \in lock.old

Init ==
    /\ at = [p \in Processes |-> "idle"]
    /\ todo = [p \in Processes |-> Unread]
    /\ lock = NoLock /\ breaker = NoBreaker
    /\ crashes = 0 /\ slow = 0 /\ intact = TRUE

Goes(p, to)     == at' = [at EXCEPT ![p] = to]
Lists(p, files) == todo' = [todo EXCEPT ![p] = files]

\* A file comes or goes, and the directory is as new as that.
With(f, by) == [lock EXCEPT !.files = @ \cup {f}, !.old = @ \ {f, "dir"},
                            !.token = IF f = "meta" THEN by ELSE @]
Without(f)  == [lock EXCEPT !.files = @ \ {f}, !.old = @ \ {f, "dir"},
                            !.token = IF f = "meta" THEN None ELSE @]

----------------------------------------------------------------------------
(* One attempt: tryAcquireLockDir.                                         *)

Begin(p) ==
    /\ at[p] = "idle" /\ Goes(p, "making")
    /\ UNCHANGED <<todo, lock, breaker, counts>>

Make(p) ==
    /\ at[p] = "making"
    /\ \/ Free /\ lock' = Made(p) /\ Goes(p, "beating")
       \/ ~Free /\ Goes(p, "testing") /\ UNCHANGED lock
    /\ UNCHANGED <<todo, breaker, counts>>

Test(p) ==
    /\ at[p] = "testing" /\ Goes(p, IF Stale THEN "claiming" ELSE "waiting")
    /\ UNCHANGED <<todo, lock, breaker, counts>>

ClaimBreaker(p) ==
    /\ at[p] = "claiming"
    /\ \/ breaker.by = None /\ breaker' = [by |-> p, old |-> FALSE] /\ Goes(p, "retesting")
       \/ breaker.by # None /\ Goes(p, "inspecting") /\ UNCHANGED breaker
    /\ UNCHANGED <<todo, lock, counts>>

\* A breaker that was left behind is removed, by anyone who finds it old.
Inspect(p) ==
    /\ at[p] = "inspecting" /\ Goes(p, IF breaker.old THEN "clearing" ELSE "waiting")
    /\ UNCHANGED <<todo, lock, breaker, counts>>

\* Mutant: a breaker that was left behind stays.
ClearNothing(p) ==
    /\ at[p] = "clearing" /\ Goes(p, "waiting")
    /\ UNCHANGED <<todo, lock, breaker, counts>>

Clear(p) ==
    /\ at[p] = "clearing" /\ Goes(p, "waiting")
    /\ breaker' = NoBreaker
    /\ UNCHANGED <<todo, lock, counts>>

\* Mutant: the lock is not tested again under the breaker.
RetestNothing(p) ==
    /\ at[p] = "retesting" /\ Goes(p, "removing")
    /\ UNCHANGED <<todo, lock, breaker, counts>>

Retest(p) ==
    /\ at[p] = "retesting" /\ Goes(p, IF Stale THEN "removing" ELSE "lost")
    /\ UNCHANGED <<todo, lock, breaker, counts>>

\* Mutant: the directory may exist (mkdir with `recursive').
RemakeOver(p) ==
    /\ at[p] = "remaking" /\ Goes(p, "won") /\ lock' = Made(p)
    /\ UNCHANGED <<todo, breaker, counts>>

Remake(p) ==
    /\ at[p] = "remaking"
    /\ \/ Free /\ lock' = Made(p) /\ Goes(p, "won")
       \/ ~Free /\ Goes(p, "lost") /\ UNCHANGED lock
    /\ UNCHANGED <<todo, breaker, counts>>

Unclaim(p) ==
    /\ at[p] \in {"won", "lost", "failed"}
    /\ Goes(p, IF at[p] = "won" THEN "beating" ELSE IF at[p] = "lost" THEN "waiting" ELSE "idle")
    /\ breaker' = NoBreaker
    /\ UNCHANGED <<todo, lock, counts>>

\* Mutant: the heartbeat is written without asking for a new file.
BeatAnyway(p) ==
    /\ at[p] = "beating" /\ Goes(p, "signing")
    /\ lock' = With("heartbeat", p)
    /\ UNCHANGED <<todo, breaker, counts>>

\* The heartbeat and meta.json are new files, or the lock is given up.
Beat(p) ==
    /\ at[p] = "beating"
    /\ \/ ~Free /\ "heartbeat" \notin lock.files
          /\ Goes(p, "signing") /\ lock' = With("heartbeat", p)
       \/ (Free \/ "heartbeat" \in lock.files) /\ Goes(p, "undoing") /\ UNCHANGED lock
    /\ UNCHANGED <<todo, breaker, counts>>

Sign(p) ==
    /\ at[p] = "signing"
    /\ \/ ~Free /\ "meta" \notin lock.files
          /\ Goes(p, "held") /\ lock' = With("meta", p)
       \/ (Free \/ "meta" \in lock.files) /\ Goes(p, "undoing") /\ UNCHANGED lock
    /\ UNCHANGED <<todo, breaker, counts>>

\* Between two attempts (acquireLockDir).
Retry(p) ==
    /\ at[p] = "waiting" /\ Goes(p, "making")
    /\ UNCHANGED <<todo, lock, breaker, counts>>

\* The time is up, or the caller has aborted.
GiveUp(p) ==
    /\ at[p] = "waiting" /\ Goes(p, "idle")
    /\ UNCHANGED <<todo, lock, breaker, counts>>

----------------------------------------------------------------------------
(* rm(lockDir, recursive, force), in the cleanup of a stale lock, in the   *)
(* release and after a refused write.                                      *)

Removed(p) == Goes(p, IF at[p] = "removing" THEN "remaking" ELSE "idle")
Refused(p) == Goes(p, IF at[p] = "removing" THEN "failed" ELSE "idle")

List(p) ==
    /\ at[p] \in Removes /\ todo[p] = Unread
    /\ \/ Free /\ Removed(p) /\ UNCHANGED todo
       \/ ~Free /\ Lists(p, lock.files) /\ UNCHANGED at
    /\ UNCHANGED <<lock, breaker, counts>>

Unlink(p) ==
    /\ at[p] \in Removes
    /\ \E f \in todo[p] \ Unread :
          /\ Lists(p, todo[p] \ {f})
          /\ lock' = IF f \in lock.files THEN Without(f) ELSE lock
    /\ UNCHANGED <<at, breaker, counts>>

\* Where something was added in the meantime, rm starts again or fails,
\* depending on the runtime.
Rmdir(p) ==
    /\ at[p] \in Removes /\ todo[p] = {} /\ Lists(p, Unread)
    /\ \/ lock.files = {} /\ lock' = NoLock /\ Removed(p)
       \/ lock.files # {} /\ UNCHANGED lock /\ (Refused(p) \/ UNCHANGED at)
    /\ UNCHANGED <<breaker, counts>>

----------------------------------------------------------------------------
(* The owner.                                                              *)

\* The timer touches the heartbeat, whoever made it, and nothing else.
Refresh(p) ==
    /\ at[p] = "held" /\ "heartbeat" \in lock.files \cap lock.old
    /\ lock' = [lock EXCEPT !.old = @ \ {"heartbeat"}]
    /\ UNCHANGED <<at, todo, breaker, counts>>

\* The release is refused when the token is not the owner's.
Release(p) ==
    /\ at[p] = "held"
    /\ Goes(p, IF lock.token = p THEN "leaving" ELSE "idle")
    /\ intact' = (intact /\ "meta" \notin lock.old)
    /\ UNCHANGED <<todo, lock, breaker, crashes, slow>>

----------------------------------------------------------------------------
(* Crashes and time.                                                       *)

Crash(p) ==
    /\ at[p] \notin {"idle", "dead"} /\ crashes < MaxCrashes
    /\ crashes' = crashes + 1 /\ Goes(p, "dead") /\ Lists(p, Unread)
    /\ UNCHANGED <<lock, breaker, slow, intact>>

KeepsLock    == ~Free /\ at[lock.by] \in Owns \cup {"won"}
KeepsBreaker == breaker.by # None /\ at[breaker.by] \in Breaks
Dates        == IF lock.files = {} THEN {"dir"} ELSE lock.files

LockExpires ==
    /\ ~Free /\ ~KeepsLock
    /\ \E f \in Dates \ lock.old :
          /\ f = "heartbeat" => \A p \in Processes : at[p] # "held"
          /\ lock' = [lock EXCEPT !.old = @ \cup {f}]
    /\ UNCHANGED <<at, todo, breaker, counts>>

Slow(how) == how \in Slowness /\ slow < MaxSlow /\ slow' = slow + 1

\* Nothing touches meta.json while the lock is held.
HeldLong ==
    /\ Slow("long") /\ KeepsLock /\ "meta" \in lock.files \ lock.old
    /\ lock' = [lock EXCEPT !.old = @ \cup {"meta"}]
    /\ intact' = (intact /\ at[lock.by] # "leaving")
    /\ UNCHANGED <<at, todo, breaker, crashes>>

BreakerExpires ==
    /\ breaker.by # None /\ ~breaker.old /\ ~KeepsBreaker
    /\ breaker' = [by |-> breaker.by, old |-> TRUE] /\ intact' = FALSE
    /\ UNCHANGED <<at, todo, lock, crashes, slow>>

Late ==
    /\ Slow("late") /\ intact' = FALSE
    /\ \/ KeepsLock /\ lock' = [lock EXCEPT !.old = Dates] /\ UNCHANGED breaker
       \/ /\ KeepsBreaker /\ UNCHANGED lock
          /\ breaker' = [by |-> breaker.by, old |-> TRUE]
    /\ UNCHANGED <<at, todo, crashes>>

----------------------------------------------------------------------------
Attempts(p) ==
    \/ Make(p) \/ Test(p) \/ ClaimBreaker(p) \/ Inspect(p) \/ Clear(p) \/ Retest(p)
    \/ Remake(p) \/ Unclaim(p) \/ Beat(p) \/ Sign(p) \/ List(p) \/ Unlink(p) \/ Rmdir(p)

Next ==
    \/ \E p \in Processes :
          Begin(p) \/ Attempts(p) \/ Retry(p) \/ GiveUp(p) \/ Refresh(p) \/ Release(p) \/ Crash(p)
    \/ LockExpires \/ HeldLong \/ BreakerExpires \/ Late

\* A process that runs goes on, and time passes.  Nobody has to begin or to
\* give the lock back.
Fairness ==
    /\ \A p \in Processes : WF_vars(Attempts(p) \/ Retry(p))
    /\ WF_vars(LockExpires) /\ WF_vars(BreakerExpires)

Spec == Init /\ [][Next]_vars /\ Fairness

----------------------------------------------------------------------------
(* Properties.                                                             *)

TypeOK ==
    /\ at \in [Processes -> {"idle", "dead"} \cup Owns \cup Removes \cup Waits]
    /\ todo \in [Processes -> SUBSET (Files \cup Unread)]
    /\ lock \in [by : Processes \cup {None}, files : SUBSET Files,
                 old : SUBSET (Files \cup {"dir"}), token : Processes \cup {None}]
    /\ Free => lock = NoLock
    /\ breaker \in [by : Processes \cup {None}, old : BOOLEAN]
    /\ crashes \in 0..MaxCrashes /\ slow \in 0..MaxSlow
    /\ intact \in BOOLEAN

\* Two processes never have the lock at once, however many have crashed with
\* it and however long it is held, as long as no process was late, no breaker
\* was left behind, and no lock was given back that had been held for longer
\* than staleMs.
MutualExclusion ==
    intact => \A p, q \in Processes : (at[p] \in Owns /\ at[q] \in Owns) => p = q

\* "Enforces mutual exclusion under process contention"
\* (test/util/flock.test.ts), crashed processes or not.
OneHolds == \A p, q \in Processes : (at[p] = "held" /\ at[q] = "held") => p = q

\* A lock whose owner has crashed is taken over: it is not so that processes
\* wait for ever and none gets the lock, whatever was left behind.
TakenOver ==
    []<>(\/ \E p \in Processes : at[p] \in {"held", "undoing"}
         \/ \A p \in Processes : at[p] \notin Waits)

Lease == INSTANCE LeaseLock WITH holder <- lock.by,
                                 gone <- {p \in Processes : at[p] = "dead"}

\* The directory behaves as LeaseLock says, as long as no process was late, no
\* breaker was left behind, and no lock was given back that had been held for
\* longer than staleMs.
LeaseSteps ==
    Lease!Init /\ [][intact' => Lease!Next]_<<lock.by, {p \in Processes : at[p] = "dead"}>>

=============================================================================
