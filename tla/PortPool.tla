------------------------------ MODULE PortPool ------------------------------
(***************************************************************************)
(* The public TCP port pool of the BearFRP backend (PortPool in            *)
(* backend/port_pool.py).  A pool is the record                            *)
(*                                                                         *)
(*     [start, end, available]                                             *)
(*                                                                         *)
(* The pool is in memory only.  Every operation below is one synchronous   *)
(* call under store.lock, so it is a pure function of the pool and of      *)
(* `busy', the ports on which the operating system would refuse a bind at  *)
(* the time of the call (_is_port_in_use).  A call probes one port several *)
(* times at most microseconds apart; `busy' is the same for all of them.   *)
(***************************************************************************)
EXTENDS Integers, FiniteSets

PortRange(s, e) == s .. e

InRange(pool, p) == pool.start <= p /\ p <= pool.end

\* PortPool(start, end): every port of the closed range is free.
NewPool(s, e) == [start |-> s, end |-> e, available |-> PortRange(s, e)]

----------------------------------------------------------------------------
(* allocate_contiguous(count): first fit over the starts of the range.  A  *)
(* window all of whose ports are free but some of whose ports are busy is  *)
(* skipped, and its busy ports are discarded from the free set for good.   *)

Window(s, count) == s .. (s + count - 1)

\* Discarded(pool, count, busy)[s]: the ports given up by the windows that
\* start below s.
Discarded(pool, count, busy) ==
    LET lost[s \in pool.start .. pool.end + 1] ==
          IF s = pool.start THEN {}
          ELSE LET before == lost[s - 1]
                   w      == Window(s - 1, count)
               IN  IF w \subseteq pool.available \ before
                   THEN before \cup (w \cap busy)
                   ELSE before
    IN  lost

\* The starts of the windows that are entirely free and entirely bindable.
Fits(pool, count, busy) ==
    {s \in pool.start .. pool.end : 
        /\ s + count - 1 <= pool.end
        /\ Window(s, count) \subseteq pool.available \ busy}

\* The first of them.
FirstFit(pool, count, busy) ==
    CHOOSE s \in Fits(pool, count, busy) :
        \A t \in Fits(pool, count, busy) : s <= t

\* The start at which the scan stops: the first fit, or past the last window.
ScanEnd(pool, count, busy) ==
    IF Fits(pool, count, busy) = {}
    THEN IF count > pool.end - pool.start + 1
         THEN pool.start
         ELSE pool.end - count + 2
    ELSE FirstFit(pool, count, busy)

\* The ports the caller gets ({}: None, no window fits).
Allocated(pool, count, busy) ==
    IF Fits(pool, count, busy) = {}
    THEN {}
    ELSE Window(FirstFit(pool, count, busy), count)

AfterAllocate(pool, count, busy) ==
    [pool EXCEPT !.available =
        (@ \ Allocated(pool, count, busy))
           \ Discarded(pool, count, busy)[ScanEnd(pool, count, busy)]]

----------------------------------------------------------------------------
(* unavailable_ports, reserve_many: all or nothing.                        *)

\* Mutant: a port that is already reserved passes.
UnavailablePortsReserved(pool, ports, busy) ==
    {p \in ports : ~InRange(pool, p) \/ p \in busy}

UnavailablePorts(pool, ports, busy) ==
    {p \in ports : ~InRange(pool, p) \/ p \notin pool.available \/ p \in busy}

AfterReserve(pool, ports, busy) ==
    IF UnavailablePorts(pool, ports, busy) = {}
    THEN [pool EXCEPT !.available = @ \ ports]
    ELSE pool

\* is_port_unreserved: a free port of the range, without asking the system.
Unreserved(pool, ports) == {p \in ports : InRange(pool, p) /\ p \in pool.available}

----------------------------------------------------------------------------
\* release_many: ports of the range become free, the others are dropped.
AfterRelease(pool, ports) ==
    [pool EXCEPT !.available = @ \cup {p \in ports : InRange(pool, p)}]

\* update_range: the free set is computed afresh from the allocated ports.
AfterUpdateRange(s, e, allocated) ==
    [start |-> s, end |-> e, available |-> PortRange(s, e) \ allocated]
=============================================================================
