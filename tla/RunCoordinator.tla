--------------------------- MODULE RunCoordinator ---------------------------
(***************************************************************************)
(* The run coordinator of one Session of opencode (packages/core/src/      *)
(* session/run-coordinator.ts, make): at most one drain chain per Session, *)
(* with at most one coalesced follow-up.                                   *)
(*                                                                         *)
(* Every transition of the coordinator is synchronous, so one call of      *)
(* wake, run or interrupt, and one settlement, is one step.  The drain     *)
(* itself is a fiber: it begins, and ends with a success or a failure.     *)
(* SessionDrain puts the real drain in its place.                          *)
(*                                                                         *)
(* A sequence number orders the durable events of the Session; 0 stands    *)
(* for `undefined'.  The two slots are the entries that can exist at once: *)
(* one that settles and its successor.  A Deferred has no variable: who    *)
(* awaits it is in `callers', and completing it moves those callers on.    *)
(***************************************************************************)
EXTENDS Integers, FiniteSets

CONSTANTS
    Callers,    \* the fibers that call run
    MaxSeq,     \* bound: the largest sequence number
    InOrder     \* does an interrupt arrive after the wakes that precede it only?

ASSUME SeqAssumption == MaxSeq \in Nat \ {0}
ASSUME OrderAssumption == InOrder \in BOOLEAN

VARIABLES
    entries,    \* slot -> Entry
    active,     \* the slot of active.get(key), 0 if there is none
    boundary,   \* interruptSeq.get(key)
    closed,     \* the scope of the coordinator is closed
    callers,    \* caller -> where its call stands
    unserved    \* history: the accepted wakes that no drain began after

vars == <<entries, active, boundary, closed, callers, unserved>>

Slots == {1, 2}
Seqs  == 1 .. MaxSeq
Exits == {"ok", "failed"}

MaxOf(a, b) == IF a >= b THEN a ELSE b

----------------------------------------------------------------------------
(* Demands and entries.                                                    *)

NoDemand == [tag |-> "none", seq |-> 0]
RunDemand == [tag |-> "run", seq |-> 0]
WakeDemand(s) == [tag |-> "wake", seq |-> s]

Demands == {NoDemand, RunDemand} \cup {WakeDemand(s) : s \in Seqs}

\* Mutant: the demand is for what comes after the newest wake.
CoalescePast(left, right) == WakeDemand(MaxOf(left.seq, right.seq) + 1)

\* coalesce(left, right)
Coalesce(left, right) ==
    IF "run" \in {left.tag, right.tag}
    THEN RunDemand
    ELSE WakeDemand(MaxOf(left.seq, right.seq))

\* phase: "queued" before the fiber calls drain, "draining" from then on.
Entries == [phase : {"free", "queued", "draining"},
            current : Demands, pending : Demands,
            waiter : BOOLEAN,           \* explicitWaiter is set
            stopping : BOOLEAN, iseq : 0 .. MaxSeq]

MakeEntry(phase, demand, waiter) ==
    [phase |-> phase, current |-> demand, pending |-> NoDemand,
     waiter |-> waiter, stopping |-> FALSE, iseq |-> 0]

Free == MakeEntry("free", NoDemand, FALSE)

\* The entry of active.get(key), when there is one.
Current == entries[active]

Spare == CHOOSE k \in Slots : entries[k].phase = "free"

Init == /\ entries = [k \in Slots |-> Free]
        /\ active = 0
        /\ boundary = 0
        /\ closed = FALSE
        /\ callers = [c \in Callers |-> [at |-> "away", slot |-> 0, forced |-> FALSE]]
        /\ unserved = {}

\* makeEntry and start for an idle key: the drain begins at once.
StartIdle(demand) ==
    /\ entries' = [entries EXCEPT ![Spare] = MakeEntry("draining", demand, FALSE)]
    /\ active' = Spare
    /\ unserved' = {}

----------------------------------------------------------------------------
(* wake(key, seq)                                                          *)

\* isAfterInterrupt(key, seq), and acceptsWake(entry, seq) of the entry found.
WakeAccepted(s) ==
    /\ ~ closed
    /\ boundary # 0 => s > boundary
    /\ active # 0 /\ Current.stopping => Current.iseq # 0 /\ s > Current.iseq

WakeIgnored(s) == ~ WakeAccepted(s) /\ UNCHANGED <<entries, active, unserved>>

WakeStarts(s) == active = 0 /\ StartIdle(WakeDemand(s))

WakeFollows(s) ==
    /\ active # 0
    /\ entries' = [entries EXCEPT ![active].pending = Coalesce(@, WakeDemand(s))]
    /\ unserved' = unserved \cup {s}
    /\ UNCHANGED active

Wake(s) ==
    /\ \/ WakeIgnored(s)
       \/ WakeAccepted(s) /\ (WakeStarts(s) \/ WakeFollows(s))
    /\ UNCHANGED <<boundary, closed, callers>>

----------------------------------------------------------------------------
(* run(key), by caller c.  Where the call stands:                          *)
(*   "done", "waiter", "settled"  awaits that deferred of the entry `slot' *)
(*   "again"                      was told of the settlement, runs again   *)
(*   "ok", "failed"               has its answer                           *)

Waits == {"done", "waiter", "settled"}

Place(c, at, slot) ==
    callers' = [callers EXCEPT ![c] = [at |-> at, slot |-> slot, forced |-> FALSE]]

RunClosed(c) == /\ closed
                /\ Place(c, "failed", 0)
                /\ UNCHANGED <<entries, active, unserved>>

RunStarts(c) == /\ ~ closed
                /\ active = 0
                /\ Place(c, "done", Spare)
                /\ StartIdle(RunDemand)

RunRetries(c) == /\ ~ closed
                 /\ active # 0
                 /\ Current.stopping
                 /\ Place(c, "settled", active)
                 /\ UNCHANGED <<entries, active, unserved>>

\* Mutant: the caller joins the running wake instead of the explicit rerun.
RunJoinsWake(c) ==
    /\ ~ closed
    /\ active # 0
    /\ ~ Current.stopping
    /\ Current.current.tag = "wake"
    /\ Place(c, "done", active)
    /\ UNCHANGED <<entries, active, unserved>>

\* The running drain is a wake: the follow-up becomes an explicit run.
RunUpgrades(c) ==
    /\ ~ closed
    /\ active # 0
    /\ ~ Current.stopping
    /\ Current.current.tag = "wake"
    /\ entries' = [entries EXCEPT ![active].pending = Coalesce(@, RunDemand),
                                  ![active].waiter = TRUE]
    /\ Place(c, "waiter", 0)
    /\ UNCHANGED <<active, unserved>>

RunJoins(c) == /\ ~ closed
               /\ active # 0
               /\ ~ Current.stopping
               /\ Current.current.tag = "run"
               /\ Place(c, "done", active)
               /\ UNCHANGED <<entries, active, unserved>>

Run(c) ==
    /\ callers[c].at \in {"away", "again"}
    /\ RunClosed(c) \/ RunStarts(c) \/ RunRetries(c) \/ RunUpgrades(c) \/ RunJoins(c)
    /\ UNCHANGED <<boundary, closed>>

\* The caller takes its answer, or is itself interrupted while it waits.
Leave(c) ==
    /\ callers[c].at \in Waits \cup Exits
    /\ Place(c, "away", 0)
    /\ UNCHANGED <<entries, active, boundary, closed, unserved>>

----------------------------------------------------------------------------
(* The drain of an entry begins, and settle(key, entry, demand, exit).     *)

\* A successor yields once before it calls drain.
Begin(k) ==
    /\ ~ closed
    /\ entries[k].phase = "queued"
    /\ ~ entries[k].stopping
    /\ entries' = [entries EXCEPT ![k].phase = "draining"]
    /\ unserved' = {}
    /\ UNCHANGED <<active, boundary, closed, callers>>

\* A fiber that was interrupted cannot end with a success, and one that has
\* not called drain yet ends only because it was interrupted.
MayExit(k, exit) ==
    /\ entries[k].phase # "free"
    /\ entries[k].stopping \/ closed => exit = "failed"
    /\ entries[k].phase = "queued" => entries[k].stopping \/ closed

\* Mutant: a caller that joined a wake is not told of its interruption.
AnswersForcedWaiter(e) == e.waiter /\ e.current.tag = "run"

AnswersWaiter(e) ==
    e.waiter /\ (e.current.tag = "run" \/ (e.stopping /\ e.current.tag = "wake"))

\* Completing explicitWaiter, and, if the entry is over, done and settled.
Completed(k, exit, over) ==
    [c \in Callers |->
       LET call    == callers[c]
           awaits  == call.at \in {"done", "settled"} /\ call.slot = k
           forced  == call.forced \/ (/\ awaits \/ call.at = "waiter"
                                      /\ entries[k].current.tag = "run"
                                      /\ exit = "ok")
           done    == [at |-> exit, slot |-> 0, forced |-> forced]
       IN  CASE call.at = "waiter" /\ AnswersWaiter(entries[k]) -> done
             [] call.at = "done" /\ awaits /\ over              -> done
             [] call.at = "settled" /\ awaits /\ over           -> [done EXCEPT !.at = "again"]
             [] OTHER                                           -> [call EXCEPT !.forced = forced]]

\* A success with a follow-up: the same entry drains again.
SettleRestart(k, exit) ==
    /\ exit = "ok" /\ ~ entries[k].stopping
    /\ entries[k].pending # NoDemand
    /\ callers' = Completed(k, exit, FALSE)
    /\ entries' = [entries EXCEPT
                     ![k].phase = "queued",
                     ![k].current = entries[k].pending,
                     ![k].pending = NoDemand,
                     ![k].waiter = @ /\ ~ AnswersWaiter(entries[k])]
    /\ UNCHANGED active

\* Mutant: the follow-up is looked for only after a failure.
SettleRegardless(k, exit) ==
    /\ callers' = Completed(k, exit, TRUE)
    /\ entries' = [entries EXCEPT ![k] = Free]
    /\ active' = 0

SettleIdle(k, exit) ==
    /\ entries[k].pending = NoDemand
    /\ callers' = Completed(k, exit, TRUE)
    /\ entries' = [entries EXCEPT ![k] = Free]
    /\ active' = 0

\* A failure with a follow-up: a fresh entry inherits it and its waiter.
SettleSuccessor(k, exit) ==
    /\ ~ (exit = "ok" /\ ~ entries[k].stopping)
    /\ entries[k].pending # NoDemand
    /\ callers' = Completed(k, exit, TRUE)
    /\ active' = 3 - k
    /\ entries' = [entries EXCEPT
                     ![k] = Free,
                     ![3 - k] = MakeEntry("queued", entries[k].pending,
                                          entries[k].waiter /\ ~ AnswersWaiter(entries[k]))]

Settle(k, exit) ==
    /\ ~ closed
    /\ k = active
    /\ MayExit(k, exit)
    /\ SettleRestart(k, exit) \/ SettleIdle(k, exit) \/ SettleSuccessor(k, exit)
    /\ UNCHANGED <<boundary, closed, unserved>>

\* Once closed, or for an entry that is not the active one, a settlement only
\* completes the deferreds of its entry.
SettleDetached(k, exit) ==
    /\ closed \/ k # active
    /\ MayExit(k, exit)
    /\ callers' = Completed(k, exit, TRUE)
    /\ entries' = [entries EXCEPT ![k] = Free]
    /\ UNCHANGED <<active, boundary, closed, unserved>>

----------------------------------------------------------------------------
(* interrupt(key, seq)                                                     *)

\* suppressPendingAtOrBefore(entry, seq)
Suppressed(pending, s) ==
    IF pending.tag = "wake" /\ pending.seq > s THEN pending ELSE NoDemand

InterruptStale(s) == /\ boundary # 0 /\ s <= boundary
                     /\ UNCHANGED <<entries, boundary, unserved>>

\* The active wake is newer than the boundary: nothing to stop.
NewerWakeActive(s) == Current.current.tag = "wake" /\ Current.current.seq > s

InterruptIdle == active = 0 /\ UNCHANGED entries

InterruptSpares(s) == active # 0 /\ NewerWakeActive(s) /\ UNCHANGED entries

InterruptStops(s) ==
    /\ active # 0
    /\ ~ NewerWakeActive(s)
    /\ entries' = [entries EXCEPT
                     ![active].stopping = TRUE,
                     ![active].iseq = MaxOf(@, s),
                     ![active].pending = Suppressed(@, s)]

\* Mutant: the interrupted entry gives up the key at once.
InterruptForgets(s) ==
    /\ InOrder => \A u \in unserved : u < s
    /\ \/ InterruptStale(s) /\ UNCHANGED active
       \/ /\ boundary # 0 => s > boundary
          /\ InterruptIdle \/ InterruptSpares(s) \/ InterruptStops(s)
          /\ boundary' = s
          /\ active' = 0
          /\ unserved' = {u \in unserved : u > s}
    /\ UNCHANGED <<closed, callers>>

Interrupt(s) ==
    /\ InOrder => \A u \in unserved : u < s
    /\ \/ InterruptStale(s)
       \/ /\ boundary # 0 => s > boundary
          /\ InterruptIdle \/ InterruptSpares(s) \/ InterruptStops(s)
          /\ boundary' = s
          /\ unserved' = {u \in unserved : u > s}
    /\ UNCHANGED <<active, closed, callers>>

----------------------------------------------------------------------------
(* The finalizer of the coordinator's scope, and the next process.         *)

\* awaitRun races every awaited deferred with shutdown; the wait of a caller
\* that runs again after a settlement does not.
Close ==
    /\ ~ closed
    /\ closed' = TRUE
    /\ active' = 0
    /\ boundary' = 0
    /\ unserved' = {}
    /\ callers' = [c \in Callers |->
                     IF callers[c].at \in {"done", "waiter"}
                     THEN [at |-> "failed", slot |-> 0, forced |-> FALSE]
                     ELSE callers[c]]
    /\ UNCHANGED <<entries>>

Restart ==
    /\ closed
    /\ \A k \in Slots : entries[k].phase = "free"
    /\ \A c \in Callers : callers[c].at \notin {"settled", "again"}
    /\ closed' = FALSE
    /\ UNCHANGED <<entries, active, boundary, callers, unserved>>

Next ==
    \/ \E s \in Seqs : Wake(s) \/ Interrupt(s)
    \/ \E c \in Callers : Run(c) \/ Leave(c)
    \/ \E k \in Slots : Begin(k)
    \/ \E k \in Slots, exit \in Exits : Settle(k, exit) \/ SettleDetached(k, exit)
    \/ Close \/ Restart

Spec == Init /\ [][Next]_vars

----------------------------------------------------------------------------
(* Properties.                                                             *)

Calls == [at : {"away", "again"} \cup Waits \cup Exits,
          slot : {0} \cup Slots, forced : BOOLEAN]

\* Every variable keeps its type.
TypeOK ==
    /\ entries \in [Slots -> Entries]
    /\ active \in {0} \cup Slots
    /\ boundary \in 0 .. MaxSeq
    /\ closed \in BOOLEAN
    /\ callers \in [Callers -> Calls]
    /\ unserved \subseteq Seqs

\* "Runs at most one drain chain per key" (run-coordinator.ts:14): across
\* interruptions, failures, successors and shutdown, two fibers of one
\* Session never live at the same time.
AtMostOneDrain ==
    \A j, k \in Slots : entries[j].phase # "free" /\ entries[k].phase # "free" => j = k

\* "advisory wakes after the boundary run after cleanup" (run-coordinator.ts
\* :26): while a wake newer than the boundary waits for a drain that begins
\* after it, such a drain is queued or requested.  Losing it would leave a
\* prompt in the inbox that nothing looks at.
DemandKept ==
    unserved # {} =>
      /\ active # 0
      /\ \/ Current.phase = "queued" /\ ~ Current.stopping
         \/ Current.pending # NoDemand

\* A caller of run that was put on the explicit follow-up is answered by the
\* entry that holds it: no settlement, failure or interrupt drops the deferred
\* it waits for.  (explicitWaiter moves from entry to entry, :118-148.)
JoinedNotForgotten ==
    \A c \in Callers :
      /\ callers[c].at = "waiter" => active # 0 /\ Current.waiter
      /\ callers[c].at \in {"done", "settled"} => entries[callers[c].slot].phase # "free"

\* "the caller receives explicit-run semantics" (run-coordinator.ts:21): who is
\* told of a success waited through the success of an explicit drain, one that
\* makes a provider attempt, and never only through that of a wake.
AnswerMeansForced ==
    \A c \in Callers : callers[c].at = "ok" => callers[c].forced

\* What the coordinator promises of its lane.
LaneState ==
    IF \E k \in Slots : entries[k].phase = "draining" THEN "draining"
    ELSE IF \E k \in Slots : entries[k].phase = "queued" THEN "queued"
    ELSE "idle"

Lane == INSTANCE DrainLane WITH lane <- LaneState, owed <- unserved

\* The coordinator implements the lane: it never ends a chain that owes a
\* drain, opens one beside another, or forgets more than an interrupt covers.
LaneSteps == Lane!Init /\ [][Lane!Next]_Lane!vars
============================================================================
