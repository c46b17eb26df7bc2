------------------------------ MODULE PortScan ------------------------------
(***************************************************************************)
(* The loop of PortPool.allocate_contiguous, one iteration per step, from  *)
(* every pool of a small range, every count and every set of busy ports.   *)
(* It shows that the closed forms of module PortPool (Allocated,           *)
(* AfterAllocate), which the other modules use, are what the loop computes,*)
(* and that the loop is a first fit over the ports that can be bound.      *)
(***************************************************************************)
EXTENDS PortPool

CONSTANTS Low, High,   \* every sub-range of Low .. High is a pool range
          MaxCount     \* the largest request

ASSUME BoundsAssumption == Low \in Nat /\ High \in Nat /\ Low <= High /\ MaxCount \in Nat

VARIABLES initial,     \* the pool when allocate_contiguous is called
          wanted,      \* count, its argument
          refused,     \* the ports that cannot be bound
          start,       \* the loop variable
          available,   \* self._available
          result       \* <<>> while running, else <<ports>> or <<{}>> (None)

scanVars == <<initial, wanted, refused, start, available, result>>

Pools == UNION {{[start |-> s, end |-> e, available |-> a] : a \in SUBSET (s .. e)} :
                   s \in Low .. High, e \in Low .. High}

ScanInit ==
    /\ initial \in {p \in Pools : p.start <= p.end}
    /\ wanted \in 1 .. MaxCount
    /\ refused \in SUBSET (Low .. High)
    /\ start = initial.start
    /\ available = initial.available
    /\ result = <<>>

\* for start in range(self.start, self.end - count + 2)
InScan == start <= initial.end - wanted + 1

\* if not all(port in self._available ...): continue
SkipTaken ==
    /\ ~(Window(start, wanted) \subseteq available)
    /\ start' = start + 1
    /\ UNCHANGED <<available, result>>

\* A free window with busy ports: discard them and go on.
SkipBusy ==
    /\ Window(start, wanted) \subseteq available
    /\ Window(start, wanted) \cap refused # {}
    /\ available' = available \ (Window(start, wanted) \cap refused)
    /\ start' = start + 1
    /\ UNCHANGED result

\* Mutant: busy ports are handed out.
TakeBusy ==
    /\ Window(start, wanted) \subseteq available
    /\ available' = available \ Window(start, wanted)
    /\ result' = <<Window(start, wanted)>>
    /\ UNCHANGED start

Take ==
    /\ Window(start, wanted) \subseteq available
    /\ Window(start, wanted) \cap refused = {}
    /\ available' = available \ Window(start, wanted)
    /\ result' = <<Window(start, wanted)>>
    /\ UNCHANGED start

GiveUp ==
    /\ ~InScan
    /\ result' = <<{}>>
    /\ UNCHANGED <<start, available>>

ScanNext ==
    /\ result = <<>>
    /\ \/ InScan /\ SkipTaken
       \/ InScan /\ SkipBusy
       \/ InScan /\ Take
       \/ GiveUp
    /\ UNCHANGED <<initial, wanted, refused>>

ScanSpec == ScanInit /\ [][ScanNext]_scanVars /\ WF_scanVars(ScanNext)

\* The loop returns the ports and leaves the free set that the operators of
\* PortPool say: a skipped window gives up its busy ports, and only those of
\* windows that were free when the scan reached them.
LoopMeetsClosedForm ==
    result # <<>> =>
        /\ result[1] = Allocated(initial, wanted, refused)
        /\ available = AfterAllocate(initial, wanted, refused).available
=============================================================================
