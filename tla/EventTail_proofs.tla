-------------------------- MODULE EventTail_proofs --------------------------
(***************************************************************************)
(* Theorems about a durable tail, for any events.  The invariant TInv says *)
(* what a tail that is not dirty knows: that the rows it shows, or has     *)
(* shown, reach the end of the log.                                        *)
(***************************************************************************)
EXTENDS EventTail, SequenceTheorems, TLAPS

\* What is shown reaches as far as the query did; what the query found reaches
\* the end of the log, unless the signal is set.
Reach ==
    /\ tail.at = "showing" => /\ Len(shown) <= tail.upto /\ tail.upto <= Len(events)
                              /\ tail.dirty \/ tail.upto = Len(events)
    /\ tail.at = "waiting" => tail.dirty \/ Len(shown) = Len(events)

Shown == Len(shown) <= Len(events) /\ \A i \in 1 .. Len(shown) : shown[i] = events[i]

TInv == TailTypeOK /\ Shown /\ Reach

Tails == [at : {"closed", "reading", "showing", "waiting"}, dirty : BOOLEAN, upto : Nat]

----------------------------------------------------------------------------
LEMMA ShownPrefix == TailTypeOK /\ Shown => ShownInOrder
<1> SUFFICES ASSUME TailTypeOK, Shown PROVE ShownInOrder
  OBVIOUS
<1>1. Len(shown) \in Nat /\ shown \in Seq(Event) /\ events \in Seq(Event)
  BY DEF TailTypeOK
<1>2. SubSeq(events, 1, Len(shown)) \in Seq(Event) /\ Len(SubSeq(events, 1, Len(shown))) = Len(shown)
  BY <1>1, SubSeqProperties DEF Shown
<1>3. \A i \in 1 .. Len(shown) : SubSeq(events, 1, Len(shown))[i] = events[i]
  BY <1>1, SubSeqProperties DEF Shown
<1>4. shown = SubSeq(events, 1, Len(shown))
  BY <1>1, <1>2, <1>3, SeqEqual DEF Shown
<1>5. QED
  BY <1>4 DEF ShownInOrder, Shown

LEMMA TailInit == Init => TInv
<1>1. Closed \in Tails /\ Closed.at = "closed"
  BY DEF Closed, Tails
<1>2. <<>> \in Seq(Event) /\ Len(<<>>) = 0
  OBVIOUS
<1>3. QED
  BY <1>1, <1>2 DEF Init, TInv, TailTypeOK, Tails, Shown, Reach

LEMMA TailCommit ==
    ASSUME TInv, NEW e \in Event, Commit(e) PROVE TInv'
<1>1. events' \in Seq(Event) /\ Len(events') = Len(events) + 1
      /\ \A i \in 1 .. Len(events) : events'[i] = events[i]
  BY DEF Commit, TInv, TailTypeOK
<1>2. tail' = [at |-> tail.at, dirty |-> tail.dirty \/ tail.at # "closed", upto |-> tail.upto]
      /\ shown' = shown
  BY DEF Commit, Signalled
<1>3. tail.at \in {"closed", "reading", "showing", "waiting"} /\ tail.upto \in Nat
  BY DEF TInv, TailTypeOK
<1>4. tail' \in Tails
  <2>1. (tail.dirty \/ tail.at # "closed") \in BOOLEAN
    BY DEF TInv, TailTypeOK
  <2>2. QED
    BY <1>2, <1>3, <2>1 DEF Tails
<1>5. Shown'
  BY <1>1, <1>2 DEF Shown, TInv, TailTypeOK
<1>6. Reach'
  <2>1. tail'.at = tail.at /\ tail'.upto = tail.upto /\ (tail.at # "closed" => tail'.dirty)
    BY <1>2
  <2>2. Len(events) \in Nat
    BY DEF TInv, TailTypeOK
  <2>3. QED
    BY <1>1, <1>2, <1>3, <2>1, <2>2 DEF Reach, TInv
<1>7. QED
  BY <1>1, <1>2, <1>4, <1>5, <1>6 DEF TInv, TailTypeOK, Tails

LEMMA TailShow ==
    ASSUME TInv, Show PROVE TInv'
<1>1. shown' = Append(shown, events[Len(shown) + 1]) /\ events' = events /\ tail' = tail
      /\ tail.at = "showing" /\ Len(shown) < tail.upto
  BY DEF Show
<1>2. Len(shown) + 1 \in 1 .. Len(events) /\ events \in Seq(Event) /\ shown \in Seq(Event)
      /\ tail.upto \in Nat
  BY <1>1 DEF TInv, TailTypeOK, Reach
<1>3. events[Len(shown) + 1] \in Event
  BY <1>2
<1>4. shown' \in Seq(Event) /\ Len(shown') = Len(shown) + 1
      /\ (\A i \in 1 .. Len(shown) : shown'[i] = shown[i])
      /\ shown'[Len(shown) + 1] = events[Len(shown) + 1]
  BY <1>1, <1>2, <1>3
<1>5. Shown'
  BY <1>1, <1>2, <1>4 DEF TInv, Shown
<1>6. Reach'
  BY <1>1, <1>2, <1>4 DEF TInv, Reach
<1>7. QED
  BY <1>1, <1>4, <1>5, <1>6 DEF TInv, TailTypeOK

LEMMA TailRest ==
    ASSUME TInv, Open \/ Read \/ AllShown \/ Wake \/ Close \/ UNCHANGED tailVars
    PROVE  TInv'
<1>1. events' = events /\ shown' = shown
  BY DEF Open, Read, AllShown, Wake, Close, tailVars
<1>2. Len(events) \in Nat /\ Len(shown) \in Nat
  BY DEF TInv, TailTypeOK
<1>3. Shown'
  BY <1>1 DEF TInv, Shown
<1>4. tail' \in Tails
  <2>1. tail \in Tails /\ tail.dirty \in BOOLEAN
    BY DEF TInv, TailTypeOK, Tails
  <2>2. \A a \in {"closed", "reading", "showing", "waiting"} : \A d \in BOOLEAN : \A u \in Nat :
          [at |-> a, dirty |-> d, upto |-> u] \in Tails
    BY DEF Tails
  <2>3. \/ tail' = tail
        \/ tail' = [at |-> "closed", dirty |-> FALSE, upto |-> 0]
        \/ tail' = [at |-> "reading", dirty |-> FALSE, upto |-> 0]
        \/ tail' = [at |-> "showing", dirty |-> tail.dirty, upto |-> Len(events)]
        \/ tail' = [at |-> "waiting", dirty |-> tail.dirty, upto |-> 0]
    BY Zenon DEF Open, Read, AllShown, Wake, Close, tailVars, Closed
  <2>4. QED
    BY <1>2, <2>1, <2>2, <2>3
<1>5. Reach'
  BY <1>1, <1>2 DEF TInv, TailTypeOK, Reach, Shown, Open, Read, AllShown, Wake, Close,
     tailVars, Closed
<1>6. QED
  BY <1>1, <1>3, <1>4, <1>5 DEF TInv, TailTypeOK, Tails

LEMMA TailStep == TInv /\ [Next]_tailVars => TInv'
BY TailCommit, TailShow, TailRest DEF Next, Follow

LEMMA TailGood == TInv => ShownInOrder /\ NothingMissed
<1> SUFFICES ASSUME TInv PROVE ShownInOrder /\ NothingMissed
  OBVIOUS
<1>1. ShownInOrder
  BY ShownPrefix DEF TInv
<1>2. ASSUME tail.at = "waiting", ~ tail.dirty PROVE shown = events
  <2>1. Len(shown) = Len(events) /\ shown \in Seq(Event) /\ events \in Seq(Event)
    BY <1>2 DEF TInv, Reach, TailTypeOK
  <2>2. QED
    BY <2>1, SeqEqual DEF TInv, Shown
<1>3. QED
  BY <1>1, <1>2 DEF NothingMissed

\* The client of a tail is shown the log in its order, each event once, however
\* often the tail is closed and opened again.
THEOREM TailInOrder == Spec => []ShownInOrder
BY TailGood, TailInit, TailStep, PTL DEF Spec

\* A tail that waits without a signal has shown the whole log: coalesced
\* signals, commits during a read and commits during the handoff lose nothing.
THEOREM TailMissesNothing == Spec => []NothingMissed
BY TailGood, TailInit, TailStep, PTL DEF Spec

=============================================================================
