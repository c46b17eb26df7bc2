------------------------------ MODULE LeaseLock ------------------------------
(***************************************************************************)
(* What a file lock promises (core/src/util/flock.ts): one process at a    *)
(* time, until it gives the lock back; only the lock of a process that is  *)
(* gone is taken away.                                                     *)
(***************************************************************************)
CONSTANTS Processes, None

VARIABLES
    holder,  \* the process that has the lock, or None
    gone     \* the processes that have ended without giving anything back

leaseVars == <<holder, gone>>

Init == holder = None /\ gone = {}

Take(p) == holder = None /\ p \notin gone /\ holder' = p /\ UNCHANGED gone

GiveBack == holder \notin gone /\ holder' = None /\ UNCHANGED gone

TakeAway == holder \in gone /\ holder' = None /\ UNCHANGED gone

Die(p) == gone' = gone \cup {p} /\ UNCHANGED holder

Next == \/ \E p \in Processes : Take(p) \/ Die(p)
        \/ GiveBack \/ TakeAway

Spec == Init /\ [][Next]_leaseVars

=============================================================================
