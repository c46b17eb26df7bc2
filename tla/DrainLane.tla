----------------------------- MODULE DrainLane -----------------------------
(***************************************************************************)
(* What the run coordinator of a Session promises, without its entries,    *)
(* deferreds and callers (doc comment of run-coordinator.ts):              *)
(*                                                                         *)
(*     idle --run/wake--> draining --run/wake--> draining + one rerun      *)
(*                                                                         *)
(* A lane is idle, about to drain again, or draining, and it owes a drain  *)
(* to every wake accepted since the last drain began.  It may not go idle  *)
(* while it owes one.  Only an interrupt at or after the wake, or the end  *)
(* of the process, releases it from that debt.                             *)
(***************************************************************************)
EXTENDS Naturals

CONSTANT Seqs   \* the sequence numbers of wakes and interrupts

VARIABLES
    lane,       \* "idle", "queued" or "draining"
    owed,       \* the wakes accepted since the last drain began
    boundary    \* the newest interrupt, 0 if there was none

vars == <<lane, owed, boundary>>

Init == lane = "idle" /\ owed = {} /\ boundary = 0

\* An explicit run, or a wake, that finds the lane idle starts a drain.
Open == /\ lane = "idle"
        /\ lane' = "draining"
        /\ owed' = {}
        /\ UNCHANGED boundary

\* A wake that does not is owed a drain.
Accept(s) == /\ lane # "idle"
             /\ s > boundary
             /\ owed' = owed \cup {s}
             /\ UNCHANGED <<lane, boundary>>

Begin == /\ lane = "queued"
         /\ lane' = "draining"
         /\ owed' = {}
         /\ UNCHANGED boundary

\* A drain ends, or a queued one is stopped before it began.
End == /\ lane # "idle"
       /\ \/ lane' = "queued"
          \/ lane' = "idle" /\ owed = {}
       /\ UNCHANGED <<owed, boundary>>

Interrupt(s) == /\ s > boundary
                /\ boundary' = s
                /\ owed' = {u \in owed : u > s}
                /\ UNCHANGED lane

\* The process stops; its last drain may still be on its way out.
Close == /\ owed' = {}
         /\ boundary' = 0
         /\ UNCHANGED lane

Next == \/ Open \/ Begin \/ End \/ Close
        \/ \E s \in Seqs : Accept(s) \/ Interrupt(s)

Fairness == WF_vars(Begin) /\ WF_vars(End)

Spec == Init /\ [][Next]_vars /\ Fairness
============================================================================
