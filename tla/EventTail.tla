------------------------------ MODULE EventTail ------------------------------
(***************************************************************************)
(* A durable tail of one aggregate (core/src/event.ts, aggregateEvents).   *)
(*                                                                         *)
(* `events' is the aggregate's part of the event table: its row with       *)
(* sequence number i - 1 is events[i].  A tail owns a dirty signal, a      *)
(* sliding queue of capacity 1, that every commit of the aggregate sets.   *)
(* It registers the signal, reads the rows after its cursor, and reads     *)
(* again whenever it takes the signal.  What a tail does is its `at':      *)
(*   "closed"   no signal is registered                                    *)
(*   "reading"  the query is on its way                                    *)
(*   "showing"  the rows that the query found                              *)
(*   "waiting"  for the signal                                             *)
(* A client that opens a tail again passes the cursor of the last event it *)
(* was shown.                                                              *)
(***************************************************************************)
EXTENDS Naturals, Sequences

CONSTANTS Event

VARIABLES
    events,  \* the committed events
    tail,    \* the tail: at, dirty, and the row it has read `upto'
    shown    \* the events the client was shown; their number is its cursor

tailVars == <<events, tail, shown>>

Closed == [at |-> "closed", dirty |-> FALSE, upto |-> 0]

\* Mutant: the signal reaches only a tail that is waiting for it.
SignalledIfWaiting(t) == [at |-> t.at, dirty |-> t.dirty \/ t.at = "waiting", upto |-> t.upto]

\* The tail after a commit.  Signals coalesce.
Signalled(t) == [at |-> t.at, dirty |-> t.dirty \/ t.at # "closed", upto |-> t.upto]

Init ==
    /\ events \in Seq(Event)
    /\ tail = Closed /\ shown = <<>>

\* A transaction inserts the next event, then signals.
Commit(e) ==
    /\ events' = Append(events, e)
    /\ tail' = Signalled(tail)
    /\ UNCHANGED shown

\* The signal is registered before the historical read.
Open ==
    /\ tail.at = "closed"
    /\ tail' = [at |-> "reading", dirty |-> FALSE, upto |-> 0]
    /\ UNCHANGED <<events, shown>>

Read ==
    /\ tail.at = "reading"
    /\ tail' = [at |-> "showing", dirty |-> tail.dirty, upto |-> Len(events)]
    /\ UNCHANGED <<events, shown>>

\* The client takes the next row.
Show ==
    /\ tail.at = "showing" /\ Len(shown) < tail.upto
    /\ shown' = Append(shown, events[Len(shown) + 1])
    /\ UNCHANGED <<events, tail>>

AllShown ==
    /\ tail.at = "showing" /\ Len(shown) >= tail.upto
    /\ tail' = [at |-> "waiting", dirty |-> tail.dirty, upto |-> 0]
    /\ UNCHANGED <<events, shown>>

Wake ==
    /\ tail.at = "waiting" /\ tail.dirty
    /\ tail' = [at |-> "reading", dirty |-> FALSE, upto |-> 0]
    /\ UNCHANGED <<events, shown>>

\* The client goes away, or the process ends.
Close ==
    /\ tail' = Closed
    /\ UNCHANGED <<events, shown>>

Follow == Read \/ Show \/ AllShown \/ Wake

Next == (\E e \in Event : Commit(e)) \/ Open \/ Follow \/ Close

\* The query returns, the client takes what it is shown, and the fiber of the
\* stream is scheduled.
Fairness == WF_tailVars(Follow)

Spec == Init /\ [][Next]_tailVars /\ Fairness

----------------------------------------------------------------------------
(* Properties.                                                             *)

TailTypeOK ==
    /\ events \in Seq(Event) /\ shown \in Seq(Event)
    /\ tail \in [at : {"closed", "reading", "showing", "waiting"}, dirty : BOOLEAN, upto : Nat]

\* The client is shown the events of the log in its order, each once, and
\* none that was not committed.
ShownInOrder ==
    /\ Len(shown) <= Len(events)
    /\ shown = SubSeq(events, 1, Len(shown))

\* A tail never rests on a log it has not read to its end: coalesced signals,
\* commits during a read and commits during the handoff lose nothing.
NothingMissed == (tail.at = "waiting" /\ ~tail.dirty) => shown = events

=============================================================================
