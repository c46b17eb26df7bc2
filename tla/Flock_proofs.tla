---------------------------- MODULE Flock_proofs ----------------------------
(***************************************************************************)
(* Theorems about the directory lock, for any processes and any number of  *)
(* crashes.  The inductive invariant LInv says whose directories the lock  *)
(* and the breaker are: a process that owns made the lock, a process that  *)
(* breaks made the breaker, what it removes is the lock of a process that  *)
(* is dead, and no rm overlooks a file.                                    *)
(***************************************************************************)
EXTENDS Flock, TLAPS

----------------------------------------------------------------------------
(* The inductive invariant, in parts.                                      *)

\* An owner's directory is its own, and only its meta.json may be old, before
\* the release.
OwnersLock ==
    \A p \in Processes : at[p] \in Owns \cup {"won"} =>
        /\ lock.by = p /\ "heartbeat" \notin lock.old /\ "dir" \notin lock.old
        /\ at[p] = "leaving" => "meta" \notin lock.old

\* Until its release an owner's files are those that it has written.
OwnersFiles ==
    /\ \A p \in Processes : at[p] \in {"beating", "won"} => lock.files = {}
    /\ \A p \in Processes : at[p] = "signing" => lock.files = {"heartbeat"}
    /\ \A p \in Processes : at[p] = "held" => lock.files = Files /\ lock.token = p

\* A directory is that of an owner or of a dead process.
LockKept == ~ Free => at[lock.by] \in Owns \cup {"won", "dead"}

BreakersBreaker ==
    /\ \A p \in Processes : at[p] \in Breaks => breaker.by = p
    /\ ~ breaker.old /\ \A p \in Processes : at[p] # "clearing"

\* What is removed for being stale is the lock of a dead process.
RemovesDead == \A p \in Processes : at[p] = "removing" => ~ Free /\ at[lock.by] = "dead"

\* A removal has listed all that is in the directory, and so none fails.
RemovesAll ==
    /\ \A p \in Processes : at[p] \in {"removing", "leaving"} =>
         todo[p] = Unread \/ lock.files \subseteq todo[p]
    /\ \A p \in Processes : at[p] \notin Removes => todo[p] = Unread
    /\ \A p \in Processes : at[p] \notin {"undoing", "failed"}

Parts == /\ OwnersLock /\ OwnersFiles /\ LockKept
         /\ BreakersBreaker /\ RemovesDead /\ RemovesAll

LInv == TypeOK /\ (intact => Parts)

----------------------------------------------------------------------------
(* Type correctness.                                                       *)

States == {"idle", "dead"} \cup Owns \cup Removes \cup Waits
Locks == [by : Processes \cup {None}, files : SUBSET Files,
          old : SUBSET (Files \cup {"dir"}), token : Processes \cup {None}]
Breakers == [by : Processes \cup {None}, old : BOOLEAN]

\* The steps of process p, but for a crash.
Steps(p) == Begin(p) \/ Attempts(p) \/ Retry(p) \/ GiveUp(p) \/ Refresh(p) \/ Release(p)

Clock == LockExpires \/ HeldLong \/ BreakerExpires \/ Late

LEMMA NextSteps ==
    ASSUME [Next]_vars
    PROVE  (\E p \in Processes : Steps(p) \/ Crash(p)) \/ Clock \/ UNCHANGED vars
BY DEF Next, Steps, Clock

LEMMA AtType ==
    ASSUME at \in [Processes -> States], [Next]_vars
    PROVE  at' \in [Processes -> States]
<1>1. ASSUME NEW p \in Processes, NEW to \in States, Goes(p, to)
      PROVE  at' \in [Processes -> States]
  BY <1>1 DEF Goes
<1>2. \A t \in {"idle", "dead", "beating", "signing", "held", "leaving", "making", "testing",
                "claiming", "inspecting", "clearing", "waiting", "retesting", "removing",
                "remaking", "won", "lost", "failed", "undoing"} : t \in States
  BY DEF States, Owns, Removes, Waits, Breaks
<1>3. ASSUME NEW p \in Processes, Begin(p) \/ Retry(p) \/ GiveUp(p) \/ Crash(p) \/ Clear(p)
      PROVE  at' \in [Processes -> States]
  BY <1>1, <1>2, <1>3, Zenon DEF Begin, Retry, GiveUp, Crash, Clear
<1>4. ASSUME NEW p \in Processes, Make(p) \/ ClaimBreaker(p) \/ Remake(p)
      PROVE  at' \in [Processes -> States]
  BY <1>1, <1>2, <1>4, Zenon DEF Make, ClaimBreaker, Remake
<1>5. ASSUME NEW p \in Processes, Beat(p) \/ Sign(p)
      PROVE  at' \in [Processes -> States]
  BY <1>1, <1>2, <1>5, Zenon DEF Beat, Sign
<1>6. ASSUME NEW p \in Processes, Test(p) \/ Inspect(p) \/ Retest(p) \/ Release(p)
      PROVE  at' \in [Processes -> States]
  <2>1. \/ Goes(p, IF Stale THEN "claiming" ELSE "waiting")
        \/ Goes(p, IF breaker.old THEN "clearing" ELSE "waiting")
        \/ Goes(p, IF Stale THEN "removing" ELSE "lost")
        \/ Goes(p, IF lock.token = p THEN "leaving" ELSE "idle")
    BY <1>6, Zenon DEF Test, Inspect, Retest, Release
  <2>2. \E to \in {"claiming", "waiting", "clearing", "removing", "lost", "leaving",
                   "idle"} : Goes(p, to)
    BY <2>1
  <2>3. QED
    BY <1>1, <1>2, <2>2
<1>7. ASSUME NEW p \in Processes, Unclaim(p) \/ List(p) \/ Unlink(p) \/ Rmdir(p)
      PROVE  at' \in [Processes -> States]
  <2>1. \/ Goes(p, IF at[p] = "won" THEN "beating" ELSE IF at[p] = "lost" THEN "waiting" ELSE "idle")
        \/ Goes(p, IF at[p] = "removing" THEN "remaking" ELSE "idle")
        \/ Goes(p, IF at[p] = "removing" THEN "failed" ELSE "idle")
        \/ at' = at
    BY <1>7, Zenon DEF Unclaim, List, Unlink, Rmdir, Removed, Refused
  <2>2. at' = at \/ \E to \in {"beating", "waiting", "idle", "remaking", "failed"} : Goes(p, to)
    BY <2>1
  <2>3. QED
    BY <1>1, <1>2, <2>2
<1>8. CASE Clock \/ UNCHANGED vars \/ \E p \in Processes : Refresh(p)
  BY <1>8 DEF Clock, LockExpires, HeldLong, BreakerExpires, Late, vars, Refresh
<1>9. QED
  BY <1>3, <1>4, <1>5, <1>6, <1>7, <1>8, NextSteps DEF Steps, Attempts

Listings == SUBSET (Files \cup Unread)

LEMMA TodoType ==
    ASSUME todo \in [Processes -> Listings], lock \in Locks, [Next]_vars
    PROVE  todo' \in [Processes -> Listings]
<1>1. ASSUME NEW p \in Processes, NEW l \in Listings, Lists(p, l)
      PROVE  todo' \in [Processes -> Listings]
  BY <1>1 DEF Lists
<1>2. Unread \in Listings /\ lock.files \in Listings
  BY DEF Listings, Locks
<1>3. ASSUME NEW p \in Processes, List(p) \/ Rmdir(p) \/ Crash(p)
      PROVE  todo' \in [Processes -> Listings]
  BY <1>1, <1>2, <1>3 DEF List, Rmdir, Crash
<1>4. ASSUME NEW p \in Processes, Unlink(p) PROVE todo' \in [Processes -> Listings]
  <2>1. PICK f \in todo[p] \ Unread : Lists(p, todo[p] \ {f})
    BY <1>4 DEF Unlink
  <2>2. todo[p] \ {f} \in Listings
    BY DEF Listings
  <2>3. QED
    BY <1>1, <2>1, <2>2
<1>5. ASSUME NEW p \in Processes,
             \/ Begin(p) \/ Make(p) \/ Test(p) \/ ClaimBreaker(p) \/ Inspect(p) \/ Clear(p)
             \/ Retest(p) \/ Remake(p) \/ Unclaim(p) \/ Beat(p) \/ Sign(p) \/ Retry(p)
             \/ GiveUp(p) \/ Release(p) \/ Refresh(p)
      PROVE  todo' = todo
  BY <1>5 DEF Begin, Make, Test, ClaimBreaker, Inspect, Clear, Retest, Remake, Unclaim, Beat,
     Sign, Retry, GiveUp, Release, Refresh
<1>6. CASE Clock \/ UNCHANGED vars
  BY <1>6 DEF Clock, LockExpires, HeldLong, BreakerExpires, Late, vars
<1>7. QED
  BY <1>3, <1>4, <1>5, <1>6, NextSteps DEF Steps, Attempts

LEMMA LockTypes ==
    /\ NoLock \in Locks /\ NoLock.by = None /\ NoLock.files = {}
    /\ \A p \in Processes : Made(p) \in Locks /\ Made(p).by = p
BY DEF NoLock, Made, Locks

\* What a write, an unlink and the passing of time change of the lock.
LEMMA LockChanges ==
    ASSUME lock \in Locks, NEW f \in Files
    PROVE  /\ \A p \in Processes :
                /\ With(f, p) \in Locks /\ With(f, p).by = lock.by
                /\ With(f, p).files = lock.files \cup {f}
                /\ With(f, p).old = lock.old \ {f, "dir"}
                /\ With(f, p).token = IF f = "meta" THEN p ELSE lock.token
           /\ Without(f) \in Locks /\ Without(f).by = lock.by
           /\ Without(f).files = lock.files \ {f} /\ Without(f).old = lock.old \ {f, "dir"}
BY DEF With, Without, Locks, Files

LEMMA LockAges ==
    ASSUME lock \in Locks, NEW o \in SUBSET (Files \cup {"dir"}),
           lock' = [lock EXCEPT !.old = o]
    PROVE  /\ lock' \in Locks /\ lock'.by = lock.by /\ lock'.files = lock.files
           /\ lock'.token = lock.token /\ lock'.old = o
BY DEF Locks

Good(l) == l \in Locks /\ (l.by = None => l = NoLock)

LEMMA LockType ==
    ASSUME lock \in Locks, Free => lock = NoLock, [Next]_vars
    PROVE  lock' \in Locks /\ (lock'.by = None => lock' = NoLock)
<1> USE LockTypes, FlockAssumption
<1>1. Good(NoLock) /\ (\A p \in Processes : Good(Made(p))) /\ Good(lock)
  BY DEF Free, Good
<1>2. ASSUME ~ Free, NEW f \in Files
      PROVE  (\A p \in Processes : Good(With(f, p))) /\ Good(Without(f))
  BY <1>2, LockChanges DEF Free, Good
<1>3. ASSUME ~ Free, NEW o \in SUBSET (Files \cup {"dir"}), lock' = [lock EXCEPT !.old = o]
      PROVE  Good(lock')
  BY <1>3, LockAges DEF Free, Good
<1>4. "heartbeat" \in Files /\ "meta" \in Files /\ lock.old \in SUBSET (Files \cup {"dir"})
      /\ lock.files \in SUBSET Files
  BY DEF Files, Locks
<1>5. ASSUME NEW p \in Processes, Make(p) \/ Remake(p) PROVE Good(lock')
  BY <1>1, <1>5 DEF Make, Remake
<1>6. ASSUME NEW p \in Processes, Beat(p) \/ Sign(p) PROVE Good(lock')
  <2>1. lock' = lock \/ (~ Free /\ lock' \in {With("heartbeat", p), With("meta", p)})
    BY <1>6 DEF Beat, Sign
  <2>2. QED
    BY <1>1, <1>2, <1>4, <2>1
<1>7. ASSUME NEW p \in Processes, List(p) \/ Rmdir(p) PROVE Good(lock')
  BY <1>1, <1>7 DEF List, Rmdir
<1>8. ASSUME NEW p \in Processes, Unlink(p) PROVE Good(lock')
  <2>1. PICK f \in todo[p] \ Unread : lock' = IF f \in lock.files THEN Without(f) ELSE lock
    BY <1>8 DEF Unlink
  <2>2. CASE f \in lock.files
    <3>1. f \in Files /\ ~ Free
      BY <1>4, <2>2 DEF Free
    <3>2. QED
      BY <1>2, <2>1, <2>2, <3>1
  <2>3. CASE f \notin lock.files
    BY <1>1, <2>1, <2>3
  <2>4. QED
    BY <2>2, <2>3
<1>9. ASSUME NEW p \in Processes, Refresh(p) PROVE Good(lock')
  <2>1. ~ Free
    BY <1>9 DEF Refresh, Free
  <2>2. lock' = [lock EXCEPT !.old = lock.old \ {"heartbeat"}]
    BY <1>9 DEF Refresh, Locks
  <2>3. lock.old \ {"heartbeat"} \in SUBSET (Files \cup {"dir"})
    BY <1>4
  <2>4. QED
    BY <1>3, <2>1, <2>2, <2>3
<1>10. ASSUME Clock PROVE Good(lock')
  <2>1. Dates \in SUBSET (Files \cup {"dir"})
    BY <1>4 DEF Dates
  <2>2. \/ lock' = lock
        \/ ~ Free /\ lock' = [lock EXCEPT !.old = Dates]
        \/ ~ Free /\ \E f \in Files \cup {"dir"} : lock' = [lock EXCEPT !.old = @ \cup {f}]
    <3>1. CASE LockExpires
      BY <2>1, <3>1 DEF LockExpires
    <3>2. CASE HeldLong
      BY <1>4, <3>2 DEF HeldLong, KeepsLock
    <3>3. CASE BreakerExpires \/ Late
      BY <3>3 DEF BreakerExpires, Late, KeepsLock
    <3>4. QED
      BY <1>10, <3>1, <3>2, <3>3 DEF Clock
  <2>3. ASSUME NEW f \in Files \cup {"dir"}, lock' = [lock EXCEPT !.old = @ \cup {f}], ~ Free
        PROVE  Good(lock')
    <3>1. lock' = [lock EXCEPT !.old = lock.old \cup {f}]
      BY <2>3 DEF Locks
    <3>2. lock.old \cup {f} \in SUBSET (Files \cup {"dir"})
      BY <1>4
    <3>3. QED
      BY <1>3, <2>3, <3>1, <3>2
  <2>4. QED
    BY <1>1, <1>3, <2>1, <2>2, <2>3
<1>11. ASSUME UNCHANGED vars PROVE Good(lock')
  BY <1>1, <1>11 DEF vars
<1>12. ASSUME NEW p \in Processes,
              \/ Begin(p) \/ Test(p) \/ ClaimBreaker(p) \/ Inspect(p) \/ Clear(p) \/ Retest(p)
              \/ Unclaim(p) \/ Retry(p) \/ GiveUp(p) \/ Release(p) \/ Crash(p)
       PROVE  Good(lock')
  BY <1>1, <1>12 DEF Begin, Test, ClaimBreaker, Inspect, Clear, Retest, Unclaim, Retry,
     GiveUp, Release, Crash
<1>13. Good(lock')
  BY <1>5, <1>6, <1>7, <1>8, <1>9, <1>10, <1>11, <1>12, NextSteps DEF Steps, Attempts
<1>14. QED
  BY <1>13 DEF Good

Counted == crashes \in 0 .. MaxCrashes /\ slow \in 0 .. MaxSlow /\ intact \in BOOLEAN

LEMMA RestType ==
    ASSUME breaker \in Breakers, Counted, [Next]_vars
    PROVE  breaker' \in Breakers /\ Counted'
<1> USE FlockAssumption
<1>1. NoBreaker \in Breakers
      /\ \A q \in Processes \cup {None} : \A o \in BOOLEAN : [by |-> q, old |-> o] \in Breakers
  BY DEF Breakers, NoBreaker
<1>2. breaker.by \in Processes \cup {None}
  BY DEF Breakers
<1>3. ASSUME NEW p \in Processes, Steps(p) PROVE
          breaker' \in {breaker, NoBreaker, [by |-> p, old |-> FALSE]}
          /\ UNCHANGED <<crashes, slow>> /\ intact' \in {intact, FALSE}
  <2>1. CASE Release(p)
    BY <2>1 DEF Release, Counted
  <2>2. CASE ~ Release(p)
    BY <1>3, <2>2 DEF Steps, Attempts, Begin, Retry, GiveUp, Make, Test, Inspect, Retest,
       ClaimBreaker, Clear, Unclaim, List, Unlink, Rmdir, Remake, Beat, Sign, Refresh, counts
  <2>3. QED
    BY <2>1, <2>2
<1>4. ASSUME NEW p \in Processes, Steps(p) PROVE breaker' \in Breakers /\ Counted'
  BY <1>1, <1>3, <1>4 DEF Counted
<1>5. ASSUME NEW p \in Processes, Crash(p) PROVE breaker' \in Breakers /\ Counted'
  BY <1>5 DEF Crash, Counted
<1>6. CASE Clock
  <2>1. breaker' \in {breaker, [by |-> breaker.by, old |-> TRUE]} /\ intact' \in {intact, FALSE}
    BY <1>6 DEF Clock, LockExpires, HeldLong, BreakerExpires, Late, counts, Counted
  <2>2. /\ crashes' = crashes
        /\ slow' = slow \/ (slow < MaxSlow /\ slow' = slow + 1)
    BY <1>6 DEF Clock, LockExpires, HeldLong, BreakerExpires, Late, Slow, counts
  <2>3. breaker' \in Breakers
    <3>1. [by |-> breaker.by, old |-> TRUE] \in Breakers
      BY <1>1, <1>2
    <3>2. QED
      BY <2>1, <3>1
  <2>4. Counted'
    <3>1. slow' \in 0 .. MaxSlow
      BY <2>2 DEF Counted
    <3>2. crashes' \in 0 .. MaxCrashes /\ intact' \in BOOLEAN
      BY <2>1, <2>2 DEF Counted
    <3>3. QED
      BY <3>1, <3>2 DEF Counted
  <2>5. QED
    BY <2>3, <2>4
<1>7. CASE UNCHANGED vars
  BY <1>7 DEF vars, counts, Counted
<1>8. QED
  BY <1>4, <1>5, <1>6, <1>7, NextSteps

LEMMA Typed == TypeOK <=> /\ at \in [Processes -> States]
                          /\ todo \in [Processes -> Listings]
                          /\ lock \in Locks /\ (Free => lock = NoLock)
                          /\ breaker \in Breakers /\ Counted
BY DEF TypeOK, States, Locks, Breakers, Listings, Counted

LEMMA TypeInit == Init => TypeOK
<1> USE FlockAssumption
<1>1. "idle" \in States /\ NoBreaker \in Breakers /\ Unread \in Listings
  BY DEF States, NoBreaker, Breakers, Listings
<1>2. QED
  BY <1>1, Typed, LockTypes DEF Init, Counted

LEMMA TypeStep == TypeOK /\ [Next]_vars => TypeOK'
<1> SUFFICES ASSUME TypeOK, [Next]_vars PROVE TypeOK'
  OBVIOUS
<1>1. /\ at \in [Processes -> States] /\ todo \in [Processes -> Listings]
      /\ lock \in Locks /\ (Free => lock = NoLock)
      /\ breaker \in Breakers /\ Counted
  BY Typed
<1>2. at' \in [Processes -> States] /\ todo' \in [Processes -> Listings]
  BY <1>1, AtType, TodoType
<1>3. lock' \in Locks /\ (lock'.by = None => lock' = NoLock)
  BY <1>1, LockType
<1>4. breaker' \in Breakers /\ Counted'
  BY <1>1, RestType
<1>5. QED
  BY <1>2, <1>3, <1>4 DEF TypeOK, States, Locks, Breakers, Listings, Counted, Free, NoLock

\* Locks, breakers and processes keep their types, and no file lies in a
\* directory that was removed.
THEOREM FlockTypes == Spec => []TypeOK
BY TypeInit, TypeStep, PTL DEF Spec

----------------------------------------------------------------------------
(* Mutual exclusion.                                                       *)

LEMMA LInvInit == Init => LInv
<1>1. Init => TypeOK
  BY TypeInit
<1>2. Init => Parts
  BY DEF Init, Parts, OwnersLock, OwnersFiles, LockKept, BreakersBreaker, RemovesDead,
         RemovesAll, Owns, Breaks, Removes, NoLock, NoBreaker, Free
<1>3. QED
  BY <1>1, <1>2 DEF LInv

\* Once the lock is not intact it never is again.
LEMMA StaysBroken == ASSUME Counted, [Next]_vars, intact' PROVE intact
BY DEF Counted, Next, Attempts, vars, counts, Begin, Retry, GiveUp, Release, Make, Test,
   Inspect, Retest, ClaimBreaker, Clear, Unclaim, List, Unlink, Rmdir, Remake, Beat, Sign,
   Refresh, Crash, LockExpires, HeldLong, BreakerExpires, Late

\* A contender that only goes from one test to the next.
LEMMA Contends ==
    ASSUME Parts, TypeOK, NEW p \in Processes,
           at[p] \in {"idle", "making", "testing", "inspecting", "waiting"},
           NEW to \in {"idle", "making", "testing", "claiming", "inspecting", "waiting"},
           Goes(p, to), UNCHANGED <<todo, lock, breaker>>
    PROVE  Parts'
<1>1. at'[p] = to /\ \A q \in Processes : q # p => at'[q] = at[q]
  BY DEF Goes, TypeOK
<1>2. /\ to \notin Owns \cup {"won"} /\ to \notin Breaks /\ to # "clearing" /\ to # "removing"
      /\ to \notin {"beating", "won"} /\ to # "signing" /\ to # "held" /\ to # "leaving"
      /\ to \notin Removes /\ to \notin {"undoing", "failed"} /\ at[p] \notin Removes
  BY DEF Owns, Breaks, Removes
<1>3. OwnersLock' /\ BreakersBreaker'
  BY <1>1, <1>2 DEF Parts, OwnersLock, BreakersBreaker
<1>4. OwnersFiles'
  BY <1>1, <1>2 DEF Parts, OwnersFiles
<1>5. ~ Free => lock.by # p /\ lock.by \in Processes
  BY DEF Parts, LockKept, Free, Owns, TypeOK
<1>6. LockKept' /\ RemovesDead'
  BY <1>1, <1>2, <1>5 DEF Parts, LockKept, RemovesDead, Free
<1>7. RemovesAll'
  BY <1>1, <1>2 DEF Parts, RemovesAll
<1>8. QED
  BY <1>3, <1>4, <1>6, <1>7 DEF Parts

\* What is stale is the lock of a dead process.
LEMMA StaleIsDead ==
    ASSUME Parts, TypeOK, Stale PROVE lock.by \in Processes /\ at[lock.by] = "dead"
<1>1. ~ Free /\ Dated \in lock.old /\ lock.by \in Processes
  BY DEF Stale, TypeOK, Free
<1>2. ASSUME at[lock.by] \in Owns \cup {"won"} PROVE FALSE
  BY <1>1, <1>2 DEF Parts, OwnersLock, OwnersFiles, Dated, Owns, Files, TypeOK
<1>3. QED
  BY <1>1, <1>2 DEF Parts, LockKept

LEMMA LInvStep == LInv /\ TypeOK' /\ [Next]_vars => LInv'
<1> USE FlockAssumption
<1>0. SUFFICES ASSUME LInv, TypeOK', [Next]_vars, intact' PROVE
        Parts'
  BY <1>0 DEF LInv
<1>1. intact
  BY <1>0, Typed, StaysBroken DEF LInv
<1>2. TypeOK /\ Parts
  BY <1>0, <1>1 DEF LInv
<1>3. lock \in Locks /\ "heartbeat" \in Files /\ "meta" \in Files
  BY <1>2, Typed DEF Files
<1> USE DEF Parts, TypeOK, OwnersLock, OwnersFiles, LockKept, BreakersBreaker, RemovesDead,
            RemovesAll, Goes, Free, NoLock, NoBreaker, Owns, Waits, Breaks, Removes
<1>4. ASSUME NEW p \in Processes, Begin(p) \/ Retry(p) \/ GiveUp(p) PROVE Parts'
  <2>1. \E to \in {"making", "idle"} : Goes(p, to)
    BY <1>4 DEF Begin, Retry, GiveUp
  <2>2. at[p] \in {"idle", "waiting"} /\ UNCHANGED <<todo, lock, breaker>>
    BY <1>4 DEF Begin, Retry, GiveUp
  <2>3. QED
    BY <1>2, <2>1, <2>2, Contends
<1>5. ASSUME NEW p \in Processes, Make(p) PROVE Parts'
  <2>1. CASE Free /\ lock' = Made(p) /\ Goes(p, "beating")
    BY <1>0, <1>2, <1>5, <2>1 DEF Make, Made
  <2>2. CASE Goes(p, "testing") /\ UNCHANGED lock
    BY <1>2, <1>5, <2>2, Contends DEF Make
  <2>3. QED
    BY <1>5, <2>1, <2>2 DEF Make
<1>6. ASSUME NEW p \in Processes, Test(p) \/ Inspect(p) PROVE Parts'
  <2>1. ~ breaker.old
    BY <1>2
  <2>2. \E to \in {"claiming", "waiting"} : Goes(p, to)
    BY <1>6, <2>1 DEF Test, Inspect
  <2>3. at[p] \in {"testing", "inspecting"} /\ UNCHANGED <<todo, lock, breaker>>
    BY <1>6 DEF Test, Inspect
  <2>4. QED
    BY <1>2, <2>2, <2>3, Contends
<1>7. ASSUME NEW p \in Processes, Retest(p) PROVE Parts'
  <2>1. Stale => ~ Free /\ lock.by \in Processes /\ at[lock.by] = "dead"
    BY <1>2, StaleIsDead DEF Stale
  <2>2. at[p] = "retesting" /\ UNCHANGED <<todo, lock, breaker>>
    BY <1>7 DEF Retest
  <2>3. CASE Stale /\ Goes(p, "removing")
    BY <1>0, <1>2, <2>1, <2>2, <2>3
  <2>4. CASE Goes(p, "lost")
    BY <1>0, <1>2, <2>2, <2>4
  <2>5. QED
    BY <1>7, <2>3, <2>4 DEF Retest
<1>8. ASSUME NEW p \in Processes, ClaimBreaker(p) PROVE Parts'
  BY <1>0, <1>2, <1>8 DEF ClaimBreaker
<1>9. ASSUME NEW p \in Processes, Clear(p) PROVE Parts'
  BY <1>2, <1>9 DEF Clear
<1>10. ASSUME NEW p \in Processes, Unclaim(p) PROVE Parts'
  BY <1>0, <1>2, <1>10 DEF Unclaim
<1>11. ASSUME NEW p \in Processes, Remake(p) PROVE Parts'
  BY <1>0, <1>2, <1>11 DEF Remake, Made
<1>12. ASSUME NEW p \in Processes, Beat(p) PROVE Parts'
  <2>1. ~ Free /\ lock.files = {} /\ lock.by = p /\ at[p] = "beating" /\ todo[p] = Unread
    BY <1>2, <1>12 DEF Beat
  <2>2. Goes(p, "signing") /\ lock' = With("heartbeat", p) /\ UNCHANGED <<todo, breaker>>
    BY <1>12, <2>1 DEF Beat
  <2>3. /\ lock'.by = p /\ lock'.files = {"heartbeat"}
        /\ lock'.old = lock.old \ {"heartbeat", "dir"}
    BY <1>3, <2>1, <2>2, LockChanges
  <2>4. QED
    BY <1>0, <1>2, <2>1, <2>2, <2>3
<1>13. ASSUME NEW p \in Processes, Sign(p) PROVE Parts'
  <2>1. ~ Free /\ lock.files = {"heartbeat"} /\ lock.by = p /\ at[p] = "signing"
        /\ todo[p] = Unread
    BY <1>2, <1>13 DEF Sign
  <2>2. Goes(p, "held") /\ lock' = With("meta", p) /\ UNCHANGED <<todo, breaker>>
    BY <1>13, <2>1 DEF Sign
  <2>3. /\ lock'.by = p /\ lock'.files = Files /\ lock'.token = p
        /\ lock'.old = lock.old \ {"meta", "dir"}
    BY <1>3, <2>1, <2>2, LockChanges DEF Files
  <2>4. QED
    BY <1>0, <1>2, <2>1, <2>2, <2>3
<1>14. ASSUME NEW p \in Processes, Refresh(p) PROVE Parts'
  <2>1. lock' = [lock EXCEPT !.old = lock.old \ {"heartbeat"}] /\ UNCHANGED <<at, todo, breaker>>
    BY <1>3, <1>14 DEF Refresh, Locks
  <2>2. lock.old \ {"heartbeat"} \in SUBSET (Files \cup {"dir"})
    BY <1>3 DEF Locks
  <2>3. /\ lock'.by = lock.by /\ lock'.files = lock.files /\ lock'.token = lock.token
        /\ lock'.old = lock.old \ {"heartbeat"}
    BY <1>3, <2>1, <2>2, LockAges
  <2>4. QED
    BY <1>0, <1>2, <2>1, <2>3
<1>15. ASSUME NEW p \in Processes, Release(p) PROVE Parts'
  <2>1. lock.by = p /\ lock.token = p /\ at[p] = "held"
    BY <1>2, <1>15 DEF Release
  <2>2. Goes(p, "leaving") /\ "meta" \notin lock.old /\ UNCHANGED <<todo, lock, breaker>>
    BY <1>0, <1>15, <2>1, Typed DEF Release, Counted
  <2>3. QED
    BY <1>0, <1>2, <2>1, <2>2
<1>16. ASSUME NEW p \in Processes, at[p] \in {"removing", "leaving"}
       PROVE  /\ ~ Free /\ lock.by \in Processes
              /\ at[p] = "removing" => at[lock.by] = "dead"
              /\ at[p] = "leaving" => lock.by = p
              /\ \A q \in Processes : q # p => at[q] \notin {"removing", "leaving"}
  BY <1>2, <1>16
<1>17. ASSUME NEW p \in Processes, List(p) PROVE Parts'
  <2>1. at[p] \in {"removing", "leaving"}
    BY <1>2, <1>17 DEF List
  <2>2. Lists(p, lock.files) /\ UNCHANGED <<at, lock, breaker>>
    BY <1>16, <1>17, <2>1 DEF List
  <2>3. todo'[p] = lock.files /\ \A q \in Processes : q # p => todo'[q] = todo[q]
    BY <1>2, <2>2 DEF Lists
  <2>4. QED
    BY <1>0, <1>2, <2>1, <2>2, <2>3
<1>18. ASSUME NEW p \in Processes, Unlink(p) PROVE Parts'
  <2>1. at[p] \in {"removing", "leaving"}
    BY <1>2, <1>18 DEF Unlink
  <2>2. PICK f \in todo[p] \ Unread :
           /\ Lists(p, todo[p] \ {f})
           /\ lock' = IF f \in lock.files THEN Without(f) ELSE lock
    BY <1>18 DEF Unlink
  <2>3. f \in Files
    BY <1>2 DEF Unread
  <2>4. /\ lock'.by = lock.by /\ lock'.files = lock.files \ {f}
        /\ lock'.old \subseteq lock.old
    BY <1>3, <2>2, <2>3, LockChanges
  <2>5. todo'[p] = todo[p] \ {f} /\ \A q \in Processes : q # p => todo'[q] = todo[q]
    BY <1>2, <2>2 DEF Lists
  <2>6. todo[p] # Unread
    BY <2>2
  <2>7. UNCHANGED <<at, breaker>>
    BY <1>18 DEF Unlink
  <2>8. \A q \in Processes : at[q] \notin {"beating", "won", "signing", "held"}
    BY <1>2, <1>16, <2>1
  <2>9. QED
    BY <1>0, <1>2, <1>16, <2>1, <2>4, <2>5, <2>6, <2>7, <2>8
<1>19. ASSUME NEW p \in Processes, Rmdir(p) PROVE Parts'
  <2>1. at[p] \in {"removing", "leaving"}
    BY <1>2, <1>19 DEF Rmdir
  <2>2. lock.files = {}
    BY <1>2, <1>19, <2>1 DEF Rmdir, Unread
  <2>3. lock' = NoLock /\ Removed(p) /\ Lists(p, Unread) /\ UNCHANGED breaker
    BY <1>19, <2>2 DEF Rmdir
  <2>4. todo'[p] = Unread /\ \A q \in Processes : q # p => todo'[q] = todo[q]
    BY <1>2, <2>3 DEF Lists
  <2>5. \A q \in Processes : at[q] \notin Owns \cup {"won"} \/ q = p
    BY <1>2, <1>16, <2>1
  <2>6. QED
    BY <1>0, <1>2, <1>16, <2>1, <2>3, <2>4, <2>5 DEF Removed
<1>20. ASSUME NEW p \in Processes, Crash(p) PROVE Parts'
  <2>1. todo'[p] = Unread /\ \A q \in Processes : q # p => todo'[q] = todo[q]
    BY <1>2, <1>20 DEF Crash, Lists
  <2>2. Goes(p, "dead") /\ UNCHANGED <<lock, breaker>>
    BY <1>20 DEF Crash
  <2>3. QED
    BY <1>0, <1>2, <2>1, <2>2
<1>21. CASE LockExpires
  <2>1. PICK f \in Dates \ lock.old : lock' = [lock EXCEPT !.old = @ \cup {f}]
    BY <1>21 DEF LockExpires
  <2>2. f \in Files \cup {"dir"}
    BY <1>3 DEF Dates, Locks
  <2>3. /\ lock'.by = lock.by /\ lock'.files = lock.files /\ lock'.token = lock.token
    BY <1>3, <2>1 DEF Locks
  <2>4. UNCHANGED <<at, todo, breaker>> /\ ~ Free /\ at[lock.by] \notin Owns \cup {"won"}
    BY <1>21 DEF LockExpires, KeepsLock
  <2>5. \A q \in Processes : at[q] \notin Owns \cup {"won"}
    BY <1>2, <2>4
  <2>6. QED
    BY <1>0, <1>2, <2>3, <2>4, <2>5
<1>22. CASE HeldLong
  <2>1. lock' = [lock EXCEPT !.old = lock.old \cup {"meta"}]
    BY <1>3, <1>22 DEF HeldLong, Locks
  <2>2. lock.old \cup {"meta"} \in SUBSET (Files \cup {"dir"})
    BY <1>3 DEF Locks
  <2>3. /\ lock'.by = lock.by /\ lock'.files = lock.files /\ lock'.token = lock.token
        /\ lock'.old = lock.old \cup {"meta"}
    BY <1>3, <2>1, <2>2, LockAges
  <2>4. UNCHANGED <<at, todo, breaker>> /\ ~ Free /\ at[lock.by] # "leaving"
    BY <1>0, <1>22, Typed DEF HeldLong, KeepsLock, Counted
  <2>5. \A q \in Processes : at[q] # "leaving"
    BY <1>2, <2>4
  <2>6. QED
    BY <1>0, <1>2, <2>3, <2>4, <2>5
<1>23. CASE BreakerExpires \/ Late
  BY <1>0, <1>23 DEF BreakerExpires, Late
<1>24. CASE UNCHANGED vars
  BY <1>2, <1>24 DEF vars
<1>25. QED
  BY <1>0, <1>4, <1>5, <1>6, <1>7, <1>8, <1>9, <1>10, <1>11, <1>12, <1>13, <1>14, <1>15, <1>17,
     <1>18, <1>19, <1>20, <1>21, <1>22, <1>23, <1>24 DEF Next, Attempts

\* Two processes never have the lock at once, however many have crashed with
\* it and however long it is held, as long as no process was late, no breaker
\* was left behind, and no lock was given back that had been held for longer
\* than staleMs.
THEOREM OneHolder == Spec => []MutualExclusion
<1>1. LInv /\ [Next]_vars => LInv'
  BY LInvStep, TypeStep DEF LInv
<1>2. LInv => MutualExclusion
  BY DEF LInv, Parts, OwnersLock, MutualExclusion
<1>3. QED
  BY <1>1, <1>2, LInvInit, PTL DEF Spec

----------------------------------------------------------------------------
(* The lock implements LeaseLock.                                          *)

Gone == {p \in Processes : at[p] = "dead"}

\* The directory of a process that lives is removed by its owner alone.
LEMMA LeaseStep ==
    ASSUME LInv, LInv', [Next]_vars, intact' PROVE [Lease!Next]_<<lock.by, Gone>>
<1> USE FlockAssumption
<1> DEFINE Same == lock'.by = lock.by /\ Gone' = Gone
<1>1. intact
  BY Typed, StaysBroken DEF LInv
<1>2. TypeOK /\ Parts /\ lock \in Locks /\ "heartbeat" \in Files /\ "meta" \in Files
  BY <1>1, Typed DEF LInv, Files
<1>3. ASSUME NEW p \in Processes, NEW to, Goes(p, to), to # "dead", at[p] # "dead"
      PROVE  Gone' = Gone
  BY <1>2, <1>3 DEF Gone, Goes, TypeOK
<1>4. ASSUME NEW p \in Processes,
             \/ Begin(p) \/ Test(p) \/ ClaimBreaker(p) \/ Inspect(p) \/ Clear(p) \/ Retest(p)
             \/ Unclaim(p) \/ Retry(p) \/ GiveUp(p) \/ Release(p)
      PROVE  Same
  <2>1. \E to \in {"idle", "making", "testing", "claiming", "inspecting", "waiting", "clearing",
                   "retesting", "removing", "lost", "beating", "leaving"} : Goes(p, to)
    BY <1>4 DEF Begin, Test, ClaimBreaker, Inspect, Clear, Retest, Unclaim, Retry, GiveUp,
       Release
  <2>2. at[p] # "dead" /\ lock' = lock
    BY <1>4 DEF Begin, Test, ClaimBreaker, Inspect, Clear, Retest, Unclaim, Retry, GiveUp,
       Release
  <2>3. QED
    BY <1>3, <2>1, <2>2
<1>5. ASSUME NEW p \in Processes, Make(p) \/ Remake(p)
      PROVE  Same \/ Lease!Take(p)
  <2>1. Gone' = Gone /\ p \notin Gone
    <3>1. \E to \in {"beating", "testing", "won", "lost"} : Goes(p, to)
      BY <1>5 DEF Make, Remake
    <3>2. at[p] # "dead"
      BY <1>5 DEF Make, Remake
    <3>3. QED
      BY <1>3, <3>1, <3>2 DEF Gone
  <2>2. lock' = lock \/ (Free /\ lock' = Made(p))
    BY <1>5 DEF Make, Remake
  <2>3. QED
    BY <2>1, <2>2, LockTypes DEF Lease!Take, Gone, Free
<1>6. ASSUME NEW p \in Processes, Beat(p) \/ Sign(p) PROVE Same
  <2>1. at[p] # "dead" /\ \E to \in {"signing", "held", "undoing"} : Goes(p, to)
    BY <1>6 DEF Beat, Sign
  <2>2. lock' \in {lock, With("heartbeat", p), With("meta", p)}
    BY <1>6 DEF Beat, Sign
  <2>3. QED
    BY <1>2, <1>3, <2>1, <2>2, LockChanges
<1>7. ASSUME NEW p \in Processes, List(p) \/ Unlink(p) PROVE Same
  <2>1. at' = at
    <3>1. at[p] \in {"removing", "leaving"}
      BY <1>2, <1>7 DEF Parts, RemovesAll, List, Unlink, Removes
    <3>2. ~ Free
      BY <1>2, <3>1 DEF Parts, RemovesDead, OwnersLock, Owns, Free, TypeOK
    <3>3. QED
      BY <1>7, <3>2 DEF List, Unlink
  <2>2. lock'.by = lock.by
    <3>1. CASE List(p)
      BY <3>1 DEF List
    <3>2. CASE Unlink(p)
      <4>1. PICK f \in todo[p] \ Unread : lock' = IF f \in lock.files THEN Without(f) ELSE lock
        BY <3>2 DEF Unlink
      <4>2. f \in Files
        BY <1>2 DEF TypeOK, Unread
      <4>3. QED
        BY <1>2, <4>1, <4>2, LockChanges
    <3>3. QED
      BY <1>7, <3>1, <3>2
  <2>3. QED
    BY <2>1, <2>2 DEF Gone
<1>8. ASSUME NEW p \in Processes, Rmdir(p) PROVE Lease!TakeAway \/ Lease!GiveBack
  <2>1. at[p] \in {"removing", "leaving"} /\ lock.files = {}
    BY <1>2, <1>8 DEF Rmdir, Parts, RemovesAll, Removes, Unread
  <2>2. lock' = NoLock /\ Removed(p)
    BY <1>8, <2>1 DEF Rmdir
  <2>3. Gone' = Gone /\ lock'.by = None
    <3>1. Goes(p, "remaking") \/ Goes(p, "idle")
      BY <2>2 DEF Removed
    <3>2. QED
      BY <1>3, <2>1, <2>2, <3>1 DEF NoLock
  <2>4. CASE at[p] = "removing"
    <3>1. lock.by \in Gone
      BY <1>2, <2>4 DEF Parts, RemovesDead, Gone, Free, TypeOK
    <3>2. QED
      BY <2>3, <3>1 DEF Lease!TakeAway, Gone
  <2>5. CASE at[p] = "leaving"
    <3>1. lock.by = p /\ p \notin Gone
      BY <1>2, <2>5 DEF Parts, OwnersLock, Owns, Gone
    <3>2. QED
      BY <2>3, <3>1 DEF Lease!GiveBack, Gone
  <2>6. QED
    BY <2>1, <2>4, <2>5
<1>9. ASSUME NEW p \in Processes, Crash(p) PROVE Lease!Die(p)
  <2>1. lock' = lock /\ Gone' = Gone \cup {p}
    BY <1>2, <1>9 DEF Crash, Goes, Gone, TypeOK
  <2>2. QED
    BY <2>1 DEF Lease!Die, Gone
<1>10. ASSUME Clock \/ UNCHANGED vars \/ \E p \in Processes : Refresh(p) PROVE Same
  <2>1. at' = at
    BY <1>10 DEF Clock, LockExpires, HeldLong, BreakerExpires, Late, vars, Refresh
  <2>2. lock'.by = lock.by
    BY <1>2, <1>10 DEF Clock, LockExpires, HeldLong, BreakerExpires, Late, vars, Refresh, Locks
  <2>3. QED
    BY <2>1, <2>2 DEF Gone
<1>11. \/ Same
       \/ \E p \in Processes : Lease!Take(p) \/ Lease!Die(p)
       \/ Lease!TakeAway \/ Lease!GiveBack
  BY <1>4, <1>5, <1>6, <1>7, <1>8, <1>9, <1>10, NextSteps DEF Steps, Attempts
<1>12. QED
  BY <1>11 DEF Lease!Next

\* As long as no process was late, no breaker was left behind, and no lock was
\* given back that had been held for longer than staleMs, the directory is the
\* lock that LeaseLock specifies: it is taken when it is free, given back by
\* its holder, and taken away from the dead only.
THEOREM FlockImplementsLease == Spec => LeaseSteps
<1>1. Init => Lease!Init
  BY DEF Init, Lease!Init, NoLock
<1>2. LInv /\ [Next]_vars => LInv'
  BY LInvStep, TypeStep DEF LInv
<1>3. LInv /\ LInv' /\ [Next]_vars
        => [intact' => Lease!Next]_<<lock.by, {p \in Processes : at[p] = "dead"}>>
  BY LeaseStep DEF Gone
<1>4. QED
  BY <1>1, <1>2, <1>3, LInvInit, PTL DEF Spec, LeaseSteps

=============================================================================
