------------------------- MODULE UsagePoller_proofs -------------------------
(***************************************************************************)
(* However poll rounds, resets of the counters, failing saves and crashes  *)
(* interleave:                                                             *)
(*                                                                         *)
(*   PollerTypes    the state always has its type;                         *)
(*   ChargesSafe    no tunnel is charged for more than it carried;         *)
(*   BooksBalance   usage is what the tunnels were charged, and the        *)
(*                  balance has paid for every full MB of it once.         *)
(***************************************************************************)
EXTENDS UsagePoller, Sums_proofs, TLAPS

(***************************************************************************)
(* No tunnel is charged for more than it carried.                          *)
(***************************************************************************)

\* The bytes a tunnel carried and was not charged for: at least what the
\* counter has moved beyond the baseline, so that charging up to the counter
\* is safe ...
CoveredFrom(base, cnt) ==
    \A t \in Tunnels :
        /\ cnt[t] <= carried[t]
        /\ base[t] # None => cnt[t] + counter[t] - base[t] <= carried[t]

\* ... and so is charging up to the reading of this round, which the counter
\* may have left in either direction since, and then making it the baseline.
ReadingCovered ==
    \A t \in Tunnels :
        reading[t] # None =>
            /\ counted[t] + counter[t] - reading[t] <= carried[t]
            /\ last[t] # None => counted[t] + reading[t] - last[t] <= carried[t]

\* The types of what these speak of.
Readings == [Tunnels -> Nat \cup {None}]

CountersTyped ==
    /\ last \in Readings /\ disk.last \in Readings /\ reading \in Readings
    /\ counted \in [Tunnels -> Nat] /\ disk.counted \in [Tunnels -> Nat]
    /\ counter \in [Tunnels -> Nat]
    /\ carried \in [Tunnels -> Nat]

\* The baselines and charges on disk may be older: they are covered too.
ChargeInvariant ==
    /\ CountersTyped
    /\ CoveredFrom(last, counted)
    /\ CoveredFrom(disk.last, disk.counted)
    /\ ReadingCovered

LEMMA InvariantInit == Init => ChargeInvariant
<1> SUFFICES ASSUME Init PROVE ChargeInvariant
    OBVIOUS
<1> USE DEF Init, Snapshot, NoReading, None
<1>1. CountersTyped
    BY DEF CountersTyped, Readings
<1>2. CoveredFrom(last, counted) /\ CoveredFrom(disk.last, disk.counted)
    BY DEF CoveredFrom
<1>3. ReadingCovered
    BY DEF ReadingCovered
<1> QED
    BY <1>1, <1>2, <1>3 DEF ChargeInvariant

\* What a save leaves on disk is what was there or what is in memory.
LEMMA SavedOrNot ==
    ASSUME Saved \/ SaveFailed
    PROVE  \/ disk' = disk
           \/ disk'.last = last' /\ disk'.counted = counted'
    BY DEF Saved, SaveFailed, Snapshot

\* The invariant follows the traffic.
LEMMA InvariantCarry ==
    ASSUME ChargeInvariant, NEW t \in Tunnels, Carry(t)
    PROVE  ChargeInvariant'
<1> USE DEF None
<1>1. /\ counter' = [counter EXCEPT ![t] = @ + 1]
      /\ carried' = [carried EXCEPT ![t] = @ + 1]
      /\ UNCHANGED <<last, counted, reading, disk>>
    BY DEF Carry, store
<1>2. CountersTyped'
    BY <1>1 DEF ChargeInvariant, CountersTyped, Readings
<1>3. CoveredFrom(last, counted)'
    BY <1>1 DEF ChargeInvariant, CoveredFrom, CountersTyped, Readings
<1>4. CoveredFrom(disk.last, disk.counted)'
    BY <1>1 DEF ChargeInvariant, CoveredFrom, CountersTyped, Readings
<1>5. ReadingCovered'
    BY <1>1 DEF ChargeInvariant, ReadingCovered, CountersTyped, Readings
<1> QED
    BY <1>2, <1>3, <1>4, <1>5 DEF ChargeInvariant

\* A counter that starts again only lowers what it could be charged for.
LEMMA InvariantReset == ASSUME ChargeInvariant, Reset PROVE ChargeInvariant'
<1> USE DEF None
<1>1. /\ counter' = [t \in Tunnels |-> 0]
      /\ UNCHANGED <<last, counted, reading, disk, carried>>
    BY DEF Reset, store
<1>2. CountersTyped'
    BY <1>1 DEF ChargeInvariant, CountersTyped, Readings
<1>3. CoveredFrom(last, counted)'
    BY <1>1 DEF ChargeInvariant, CoveredFrom, CountersTyped, Readings
<1>4. CoveredFrom(disk.last, disk.counted)'
    BY <1>1 DEF ChargeInvariant, CoveredFrom, CountersTyped, Readings
<1>5. ReadingCovered'
    BY <1>1 DEF ChargeInvariant, ReadingCovered, CountersTyped, Readings
<1> QED
    BY <1>2, <1>3, <1>4, <1>5 DEF ChargeInvariant

\* A list read now is covered, for the counters it shows are the present ones.
LEMMA InvariantRead == ASSUME ChargeInvariant, ReadList PROVE ChargeInvariant'
<1> USE DEF None
<1>1. /\ \A t \in Tunnels : reading'[t] \in {counter[t], reading[t]}
      /\ reading' = [t \in Tunnels |-> reading'[t]]
      /\ UNCHANGED <<last, counted, counter, disk, carried>>
    BY DEF ReadList, store, frps
<1>2. CountersTyped'
    BY <1>1 DEF ChargeInvariant, CountersTyped, Readings
<1>3. CoveredFrom(last, counted)' /\ CoveredFrom(disk.last, disk.counted)'
    BY <1>1 DEF ChargeInvariant, CoveredFrom
<1>4. ReadingCovered'
    BY <1>1 DEF ChargeInvariant, ReadingCovered, CoveredFrom, CountersTyped, Readings
<1> QED
    BY <1>2, <1>3, <1>4 DEF ChargeInvariant

\* Charging the readings of the round and making them the baseline.
LEMMA InvariantApply == ASSUME ChargeInvariant, Apply PROVE ChargeInvariant'
<1> USE DEF None
<1> DEFINE delta(t) == IF Remaining(ProxyOf[t]) THEN Delta(t) ELSE 0
           next(t)  == IF Remaining(ProxyOf[t]) THEN reading[t] ELSE last[t]
<1>1. /\ counted' = [t \in Tunnels |-> counted[t] + delta(t)]
      /\ last' = [t \in Tunnels |-> next(t)]
      /\ reading' = NoReading
      /\ UNCHANGED <<counter, carried>>
    BY DEF Apply, frps
<1>2. ASSUME NEW t \in Tunnels
      PROVE  delta(t) \in Nat /\ next(t) \in Nat \cup {None}
    BY DEF ChargeInvariant, CountersTyped, Readings, Delta
<1>3. /\ counted' \in [Tunnels -> Nat]
      /\ last' \in Readings /\ reading' \in Readings
    BY <1>1, <1>2 DEF ChargeInvariant, CountersTyped, Readings, NoReading
<1>4. CoveredFrom(last, counted)'
  <2> SUFFICES ASSUME NEW t \in Tunnels
               PROVE  /\ counted'[t] <= carried[t]
                      /\ last'[t] # None =>
                            counted'[t] + counter[t] - last'[t] <= carried[t]
      BY <1>1 DEF CoveredFrom
  <2>1. /\ counted'[t] = counted[t] + delta(t)
        /\ last'[t] = next(t)
      BY <1>1
  <2>2. /\ counted[t] \in Nat /\ counter[t] \in Nat /\ carried[t] \in Nat
        /\ last[t] \in Nat \cup {None} /\ reading[t] \in Nat \cup {None}
      BY DEF ChargeInvariant, CountersTyped, Readings
  <2>3. /\ counted[t] <= carried[t]
        /\ last[t] # None => counted[t] + counter[t] - last[t] <= carried[t]
      BY DEF ChargeInvariant, CoveredFrom
  <2>4. reading[t] # None =>
            /\ counted[t] + counter[t] - reading[t] <= carried[t]
            /\ last[t] # None => counted[t] + reading[t] - last[t] <= carried[t]
      BY DEF ChargeInvariant, ReadingCovered
  <2>5. CASE delta(t) = 0
    <3>1. next(t) \in {reading[t], last[t]}
        OBVIOUS
    <3> QED
        BY <2>1, <2>2, <2>3, <2>4, <2>5, <3>1
  <2>6. CASE delta(t) # 0
    <3>1. /\ delta(t) = reading[t] - last[t] /\ next(t) = reading[t]
          /\ reading[t] # None /\ last[t] # None
        BY <2>6 DEF Delta
    <3> QED
        BY <2>1, <2>2, <2>3, <2>4, <3>1
  <2> QED
      BY <2>5, <2>6
<1>5. disk' = disk \/ (disk'.last = last' /\ disk'.counted = counted')
  <2>1. UNCHANGED disk \/ Saved \/ SaveFailed
      BY DEF Apply
  <2> QED
      BY <2>1, SavedOrNot
<1>6. CountersTyped'
    BY <1>1, <1>3, <1>5 DEF ChargeInvariant, CountersTyped
<1>7. CoveredFrom(disk.last, disk.counted)'
    BY <1>1, <1>4, <1>5 DEF ChargeInvariant, CoveredFrom
<1>8. ReadingCovered'
    BY <1>1 DEF ReadingCovered, NoReading
<1> QED
    BY <1>4, <1>6, <1>7, <1>8 DEF ChargeInvariant

\* What its user does to a proxy touches neither charges nor baselines.
LEMMA InvariantStatus ==
    ASSUME ChargeInvariant, NEW p \in Proxies, NEW new \in Statuses, SetStatus(p, new)
    PROVE  ChargeInvariant'
<1>1. /\ UNCHANGED <<last, counted, reading, counter, carried>>
      /\ disk' = disk \/ (disk'.last = last' /\ disk'.counted = counted')
    BY SavedOrNot DEF SetStatus, frps
<1> QED
    BY <1>1 DEF ChargeInvariant, CountersTyped, CoveredFrom, ReadingCovered

\* A crash drops the readings and brings back a covered pair.
LEMMA InvariantRestart == ASSUME ChargeInvariant, Restart PROVE ChargeInvariant'
<1>1. /\ last' = disk.last /\ counted' = disk.counted
      /\ reading' = NoReading
      /\ UNCHANGED <<disk, counter, carried>>
    BY DEF Restart, frps
<1>2. CountersTyped'
    BY <1>1 DEF ChargeInvariant, CountersTyped, Readings, NoReading
<1>3. ReadingCovered'
    BY <1>1 DEF ReadingCovered, NoReading
<1> QED
    BY <1>1, <1>2, <1>3 DEF ChargeInvariant, CoveredFrom

LEMMA InvariantStep == ChargeInvariant /\ [Next]_vars => ChargeInvariant'
<1> SUFFICES ASSUME ChargeInvariant, [Next]_vars PROVE ChargeInvariant'
    OBVIOUS
<1>1. ASSUME NEW t \in Tunnels, Connect(t) PROVE ChargeInvariant'
    BY <1>1 DEF Connect, store, ChargeInvariant, CountersTyped, CoveredFrom, ReadingCovered
<1>2. ASSUME NEW t \in Tunnels, Carry(t) PROVE ChargeInvariant'
    BY <1>2, InvariantCarry
<1>3. CASE Reset
    BY <1>3, InvariantReset
<1>4. CASE ReadList
    BY <1>4, InvariantRead
<1>5. CASE ListFails
    BY <1>5 DEF ListFails, store, frps, ChargeInvariant, CountersTyped, CoveredFrom,
                ReadingCovered
<1>6. CASE Apply
    BY <1>6, InvariantApply
<1>7. ASSUME NEW p \in Proxies, NEW new \in Statuses, SetStatus(p, new)
      PROVE  ChargeInvariant'
    BY <1>7, InvariantStatus
<1>8. CASE Restart
    BY <1>8, InvariantRestart
<1>9. CASE UNCHANGED vars
    BY <1>9 DEF vars, store, frps, ChargeInvariant, CountersTyped, CoveredFrom,
                ReadingCovered
<1> QED
    BY <1>1, <1>2, <1>3, <1>4, <1>5, <1>6, <1>7, <1>8, <1>9 DEF Next, Poll

\* No tunnel is charged for more than it carried (UsagePoller.poll_once),
\* whatever the tunnels, the bounds, the failures and the crashes.
THEOREM ChargesSafe == Spec => []NeverOvercharged
<1>1. ChargeInvariant => NeverOvercharged
    BY DEF ChargeInvariant, CoveredFrom, NeverOvercharged
<1> QED
    BY InvariantInit, InvariantStep, <1>1, PTL DEF Spec

----------------------------------------------------------------------------
(* The books: usage and balance as totals.                                 *)

\* The full MBs of each proxy.
Full(usage) == [p \in Proxies |-> usage[p] \div MB]

\* What memory and disk agree on: usage adds up the charges, and the balance is
\* what is left of the initial one once every full MB is paid for.
Balanced(usage, charged, left) ==
    /\ \A p \in Proxies : usage[p] = Total(charged, TunnelsOf(p))
    /\ left = Monus(InitialMB, Total(Full(usage), Proxies))

BooksInvariant ==
    /\ TypeOK
    /\ Balanced(used, counted, balance)
    /\ Balanced(disk.used, disk.counted, disk.balance)

\* What a round charges for a tunnel, and what usage becomes.
RoundDelta(t) == IF Remaining(ProxyOf[t]) THEN Delta(t) ELSE 0
RoundDeltas   == [t \in Tunnels |-> RoundDelta(t)]
UsageAfter(p) == used[p] + MapThenSumSet(RoundDelta, TunnelsOf(p))

LEMMA FullMBs ==
    ASSUME NEW a \in Nat, NEW b \in Nat, a <= b
    PROVE  a \div MB \in Nat /\ b \div MB \in Nat /\ a \div MB <= b \div MB
<1> DEFINE qa == a \div MB
           qb == b \div MB
<1>1. MB \in Nat \ {0}
  BY PollerAssumption
<1>2. /\ qa \in Int /\ MB * qa <= a /\ a < MB * (qa + 1)
      /\ qb \in Int /\ MB * qb <= b /\ b < MB * (qb + 1)
  BY <1>1
<1> HIDE DEF qa, qb
<1>3. qa \in Nat /\ qb \in Nat /\ qa <= qb
  BY <1>1, <1>2
<1>4. QED
  BY <1>3 DEF qa, qb

LEMMA MonusTwice ==
    ASSUME NEW a \in Nat, NEW b \in Nat, NEW c \in Nat
    PROVE  /\ Monus(a, b) \in Nat
           /\ Monus(Monus(a, b), c) = Monus(a, b + c)
  BY DEF Monus

\* The sums of the code are totals.
LEMMA DeltaTotal ==
    ASSUME NEW p
    PROVE  MapThenSumSet(RoundDelta, TunnelsOf(p)) = Total(RoundDeltas, TunnelsOf(p))
<1> DEFINE S == TunnelsOf(p)
           A(g) == g = [s \in SUBSET S |->
                          IF s = {} THEN 0 ELSE RoundDelta(Pick(s)) + g[s \ {Pick(s)}]]
<1>1. MapThenSumSet(RoundDelta, TunnelsOf(p)) = (CHOOSE g : A(g))[S]
  BY DEF MapThenSumSet, MapThenFoldSet, Pick
<1>2. IsFiniteSet(S)
  BY PollerAssumption, FS_Subset DEF TunnelsOf
<1>3. \A s \in SUBSET S : s # {} => RoundDeltas[Pick(s)] = RoundDelta(Pick(s))
  BY PickLess DEF TunnelsOf, RoundDeltas
<1>4. ASSUME NEW g PROVE A(g) <=> SumsOver(RoundDeltas, S, g)
  <2> DEFINE a == [s \in SUBSET S |->
                     IF s = {} THEN 0 ELSE RoundDelta(Pick(s)) + g[s \ {Pick(s)}]]
             b == [s \in SUBSET S |->
                     IF s = {} THEN 0 ELSE RoundDeltas[Pick(s)] + g[s \ {Pick(s)}]]
  <2> HIDE DEF S
  <2>1. a = b
    BY <1>3
  <2>2. QED
    BY <2>1 DEF SumsOver
<1> HIDE DEF A, S
<1>5. \E g : A(g)
  BY <1>2, <1>4, SumsExist
<1>6. A(CHOOSE g : A(g))
  BY <1>5
<1>7. (CHOOSE g : A(g))[S] = Total(RoundDeltas, S)
  BY <1>2, <1>4, <1>6, TotalIs
<1>8. QED
  BY <1>1, <1>7 DEF S

LEMMA FullTotal ==
    MapThenSumSet(LAMBDA p : used[p] \div MB, Proxies) = Total(Full(used), Proxies)
<1> DEFINE A(g) == g = [s \in SUBSET Proxies |->
                          IF s = {} THEN 0
                          ELSE (used[Pick(s)] \div MB) + g[s \ {Pick(s)}]]
<1>1. MapThenSumSet(LAMBDA p : used[p] \div MB, Proxies) = (CHOOSE g : A(g))[Proxies]
  BY DEF MapThenSumSet, MapThenFoldSet, Pick
<1>2. IsFiniteSet(Proxies)
  BY PollerAssumption
<1>3. \A s \in SUBSET Proxies : s # {} => Full(used)[Pick(s)] = used[Pick(s)] \div MB
  BY PickLess DEF Full
<1>4. ASSUME NEW g PROVE A(g) <=> SumsOver(Full(used), Proxies, g)
  <2> DEFINE a == [s \in SUBSET Proxies |->
                     IF s = {} THEN 0
                     ELSE (used[Pick(s)] \div MB) + g[s \ {Pick(s)}]]
             b == [s \in SUBSET Proxies |->
                     IF s = {} THEN 0 ELSE Full(used)[Pick(s)] + g[s \ {Pick(s)}]]
  <2>1. a = b
    BY <1>3
  <2>2. QED
    BY <2>1 DEF SumsOver
<1> HIDE DEF A
<1>5. \E g : A(g)
  BY <1>2, <1>4, SumsExist
<1>6. A(CHOOSE g : A(g))
  BY <1>5
<1>7. (CHOOSE g : A(g))[Proxies] = Total(Full(used), Proxies)
  BY <1>2, <1>4, <1>6, TotalIs
<1>8. QED
  BY <1>1, <1>7

LEMMA ChargedTotal ==
    ASSUME NEW p
    PROVE  MapThenSumSet(LAMBDA t : counted[t], TunnelsOf(p)) = Total(counted, TunnelsOf(p))
  BY DEF MapThenSumSet, MapThenFoldSet, SumsOver, Pick, Sums, Total

\* What a round charges for a proxy.
RoundCost(p) == Charged(p, used[p], UsageAfter(p))
RoundCosts   == [p \in Proxies |-> RoundCost(p)]

LEMMA CostTotal == MapThenSumSet(RoundCost, Proxies) = Total(RoundCosts, Proxies)
<1> DEFINE A(g) == g = [s \in SUBSET Proxies |->
                          IF s = {} THEN 0 ELSE RoundCost(Pick(s)) + g[s \ {Pick(s)}]]
<1>1. MapThenSumSet(RoundCost, Proxies) = (CHOOSE g : A(g))[Proxies]
  BY DEF MapThenSumSet, MapThenFoldSet, Pick
<1>2. IsFiniteSet(Proxies)
  BY PollerAssumption
<1>3. \A s \in SUBSET Proxies : s # {} => RoundCosts[Pick(s)] = RoundCost(Pick(s))
  BY PickLess DEF RoundCosts
<1>4. ASSUME NEW g PROVE A(g) <=> SumsOver(RoundCosts, Proxies, g)
  <2> DEFINE a == [s \in SUBSET Proxies |->
                     IF s = {} THEN 0 ELSE RoundCost(Pick(s)) + g[s \ {Pick(s)}]]
             b == [s \in SUBSET Proxies |->
                     IF s = {} THEN 0 ELSE RoundCosts[Pick(s)] + g[s \ {Pick(s)}]]
  <2>1. a = b
    BY <1>3
  <2>2. QED
    BY <2>1 DEF SumsOver
<1> HIDE DEF A
<1>5. \E g : A(g)
  BY <1>2, <1>4, SumsExist
<1>6. A(CHOOSE g : A(g))
  BY <1>5
<1>7. (CHOOSE g : A(g))[Proxies] = Total(RoundCosts, Proxies)
  BY <1>2, <1>4, <1>6, TotalIs
<1>8. QED
  BY <1>1, <1>7

\* The store after a round, in these terms.
LEMMA ApplyShape ==
    ASSUME Apply
    PROVE  /\ used' = [p \in Proxies |-> UsageAfter(p)]
           /\ counted' = [t \in Tunnels |-> counted[t] + RoundDelta(t)]
           /\ balance' = Monus(balance, MapThenSumSet(RoundCost, Proxies))
           /\ last' = [t \in Tunnels |->
                 IF Remaining(ProxyOf[t]) THEN reading[t] ELSE last[t]]
           /\ status' = [p \in Proxies |->
                 IF Spent(p, UsageAfter(p)) THEN "stopped_by_admin" ELSE status[p]]
<1>1. used' = [p \in Proxies |-> UsageAfter(p)]
  BY DEF Apply, UsageAfter, RoundDelta, MapThenSumSet, MapThenFoldSet
<1>2. counted' = [t \in Tunnels |-> counted[t] + RoundDelta(t)]
  BY DEF Apply, RoundDelta
<1>3. balance' = Monus(balance, MapThenSumSet(RoundCost, Proxies))
  BY DEF Apply, UsageAfter, RoundCost, RoundDelta, MapThenSumSet, MapThenFoldSet
<1>4. /\ last' = [t \in Tunnels |->
            IF Remaining(ProxyOf[t]) THEN reading[t] ELSE last[t]]
      /\ status' = [p \in Proxies |->
            IF Spent(p, UsageAfter(p)) THEN "stopped_by_admin" ELSE status[p]]
  BY DEF Apply, UsageAfter, RoundDelta, MapThenSumSet, MapThenFoldSet
<1>5. QED
  BY <1>1, <1>2, <1>3, <1>4

\* The records a store may hold: the mirror is always such a record.
Mirrors ==
    [status : [Proxies -> Statuses], used : [Proxies -> Nat],
     last : [Tunnels -> Nat \cup {None}], balance : Nat, counted : [Tunnels -> Nat]]

LEMMA BooksParts ==
    BooksInvariant => /\ Snapshot \in Mirrors /\ disk \in Mirrors
                      /\ reading \in Readings
                      /\ Balanced(used, counted, balance)
                      /\ Balanced(disk.used, disk.counted, disk.balance)
  BY DEF BooksInvariant, TypeOK, Snapshot, Mirrors, Readings

\* A store in order stays in order on disk, whether or not it could be saved.
LEMMA BooksStep ==
    ASSUME BooksInvariant,
           status' \in [Proxies -> Statuses], used' \in [Proxies -> Nat],
           last' \in Readings, balance' \in Nat, counted' \in [Tunnels -> Nat],
           Balanced(used', counted', balance'),
           disk' \in {disk, Snapshot'},
           stage' \in 0 .. 4, reading' \in Readings,
           counter' \in [Tunnels -> Nat], listed' \subseteq Tunnels,
           carried' \in [Tunnels -> Nat],
           resets' \in 0 .. MaxResets, restarts' \in 0 .. MaxRestarts
    PROVE  BooksInvariant'
<1>1. Snapshot' \in Mirrors
  BY DEF Snapshot, Mirrors, Readings
<1>2. disk' \in Mirrors
  BY <1>1, BooksParts
<1>3. Balanced(disk'.used, disk'.counted, disk'.balance)
  BY BooksParts DEF Snapshot
<1>4. TypeOK'
  BY <1>2 DEF TypeOK, Mirrors, Readings
<1>5. QED
  BY <1>3, <1>4 DEF BooksInvariant

LEMMA SavedInOrder == ASSUME Saved \/ SaveFailed PROVE disk' \in {disk, Snapshot'}
  BY DEF Saved, SaveFailed

\* What one proxy is charged for in a round.
LEMMA RoundType ==
    ASSUME BooksInvariant
    PROVE  /\ \A t \in Tunnels : RoundDelta(t) \in Nat
           /\ \A p \in Proxies : /\ UsageAfter(p) \in Nat /\ used[p] <= UsageAfter(p)
                                 /\ RoundCost(p) \in Nat
<1>1. ASSUME NEW t \in Tunnels PROVE RoundDelta(t) \in Nat
  <2>1. reading[t] \in Nat \cup {None} /\ last[t] \in Nat \cup {None}
    BY DEF BooksInvariant, TypeOK
  <2>2. QED
    BY <2>1 DEF RoundDelta, Delta, None
<1>2. ASSUME NEW p \in Proxies
      PROVE  /\ UsageAfter(p) \in Nat /\ used[p] <= UsageAfter(p)
             /\ RoundCost(p) \in Nat
  <2>1. IsFiniteSet(TunnelsOf(p)) /\ \A t \in TunnelsOf(p) : RoundDeltas[t] \in Nat
    BY <1>1, PollerAssumption, FS_Subset DEF TunnelsOf, RoundDeltas
  <2>2. Total(RoundDeltas, TunnelsOf(p)) \in Nat
    BY <2>1, TotalType
  <2>3. used[p] \in Nat
    BY DEF BooksInvariant, TypeOK
  <2>4. UsageAfter(p) \in Nat /\ used[p] <= UsageAfter(p)
    BY <2>2, <2>3, DeltaTotal DEF UsageAfter
  <2>5. QED
    BY <2>3, <2>4, FullMBs DEF RoundCost, Charged
<1>3. QED
  BY <1>1, <1>2

\* A round adds to the usage of a proxy what it adds to the charges of its
\* tunnels, and takes from the balance the full MBs that it completes.
LEMMA RoundBalances ==
    ASSUME BooksInvariant, Apply
    PROVE  /\ used' \in [Proxies -> Nat] /\ counted' \in [Tunnels -> Nat]
           /\ balance' \in Nat
           /\ Balanced(used', counted', balance')
<1>0. /\ used \in [Proxies -> Nat] /\ counted \in [Tunnels -> Nat] /\ balance \in Nat
      /\ Balanced(used, counted, balance)
  BY DEF BooksInvariant, TypeOK
<1>1. used' \in [Proxies -> Nat] /\ counted' \in [Tunnels -> Nat]
  BY <1>0, ApplyShape, RoundType
<1>2. ASSUME NEW p \in Proxies PROVE used'[p] = Total(counted', TunnelsOf(p))
  <2>1. IsFiniteSet(TunnelsOf(p)) /\ TunnelsOf(p) \subseteq Tunnels
    BY PollerAssumption, FS_Subset DEF TunnelsOf
  <2>2. \A t \in TunnelsOf(p) : /\ counted[t] \in Int /\ RoundDeltas[t] \in Int
                                /\ counted'[t] = counted[t] + RoundDeltas[t]
    BY <1>0, <2>1, ApplyShape, RoundType DEF RoundDeltas
  <2>3. Total(counted', TunnelsOf(p))
           = Total(counted, TunnelsOf(p)) + Total(RoundDeltas, TunnelsOf(p))
    BY <2>1, <2>2, TotalPlus
  <2>4. QED
    BY <1>0, <2>3, ApplyShape, DeltaTotal DEF UsageAfter, Balanced
<1>3. ASSUME NEW p \in Proxies
      PROVE  /\ Full(used)[p] \in Nat /\ RoundCosts[p] \in Nat
             /\ Full(used')[p] = Full(used)[p] + RoundCosts[p]
  <2>1. used'[p] = UsageAfter(p)
    BY ApplyShape
  <2>2. used[p] \in Nat /\ UsageAfter(p) \in Nat /\ used[p] <= UsageAfter(p)
    BY <1>0, RoundType
  <2>3. used[p] \div MB \in Nat /\ UsageAfter(p) \div MB \in Nat
    BY <2>2, FullMBs
  <2>4. RoundCosts[p] = (UsageAfter(p) \div MB) - (used[p] \div MB)
    BY DEF RoundCosts, RoundCost, Charged
  <2>5. Full(used)[p] = used[p] \div MB /\ Full(used')[p] = UsageAfter(p) \div MB
    BY <2>1 DEF Full
  <2>6. RoundCosts[p] \in Nat
    BY RoundType DEF RoundCosts
  <2> HIDE DEF Full, RoundCosts
  <2>7. QED
    BY <2>3, <2>4, <2>5, <2>6
<1>4. /\ Total(Full(used'), Proxies) = Total(Full(used), Proxies) + Total(RoundCosts, Proxies)
      /\ Total(Full(used), Proxies) \in Nat /\ Total(RoundCosts, Proxies) \in Nat
  BY <1>3, PollerAssumption, TotalPlus, TotalType
<1>5. balance' = Monus(balance, Total(RoundCosts, Proxies))
  BY ApplyShape, CostTotal
<1>6. balance = Monus(InitialMB, Total(Full(used), Proxies)) /\ InitialMB \in Nat
  BY <1>0, PollerAssumption DEF Balanced
<1>7. balance' \in Nat /\ balance' = Monus(InitialMB, Total(Full(used'), Proxies))
  BY <1>0, <1>4, <1>5, <1>6, MonusTwice
<1>8. QED
  BY <1>1, <1>2, <1>7 DEF Balanced

LEMMA BooksApply == ASSUME BooksInvariant, Apply PROVE BooksInvariant'
<1>1. /\ status' \in [Proxies -> Statuses] /\ last' \in Readings
      /\ reading' \in Readings
  <2>1. /\ status \in [Proxies -> Statuses] /\ last \in Readings
        /\ reading \in Readings
    BY DEF BooksInvariant, TypeOK, Readings
  <2>2. status' \in [Proxies -> Statuses]
    BY <2>1, ApplyShape DEF Statuses
  <2>3. last' \in Readings
    BY <2>1, ApplyShape DEF Readings
  <2>4. reading' = NoReading
    BY DEF Apply
  <2>5. QED
    BY <2>2, <2>3, <2>4 DEF Readings, NoReading
<1>2. disk' \in {disk, Snapshot'} /\ stage' \in 0 .. 4
  <2>1. /\ stage' \in {0, 1}
        /\ UNCHANGED disk \/ Saved \/ SaveFailed
    BY DEF Apply
  <2>2. QED
    BY <2>1, SavedInOrder
<1>3. UNCHANGED <<counter, listed, carried, resets, restarts>>
  BY DEF Apply, frps
<1>4. /\ counter \in [Tunnels -> Nat] /\ listed \subseteq Tunnels
      /\ carried \in [Tunnels -> Nat]
      /\ resets \in 0 .. MaxResets /\ restarts \in 0 .. MaxRestarts
  BY DEF BooksInvariant, TypeOK
<1>5. QED
  BY <1>1, <1>2, <1>3, <1>4, RoundBalances, BooksStep

\* The counters of frps and the other steps leave the books alone.
LEMMA BooksOthers ==
    ASSUME BooksInvariant,
           \/ \E t \in Tunnels : Connect(t) \/ Carry(t)
           \/ Reset \/ ReadList \/ ListFails
           \/ \E p \in Proxies, new \in Statuses : SetStatus(p, new)
           \/ UNCHANGED vars
    PROVE  BooksInvariant'
<1>0. /\ status \in [Proxies -> Statuses] /\ used \in [Proxies -> Nat]
      /\ last \in Readings /\ balance \in Nat /\ counted \in [Tunnels -> Nat]
      /\ Balanced(used, counted, balance)
      /\ stage \in 0 .. 4 /\ reading \in Readings
      /\ counter \in [Tunnels -> Nat] /\ listed \subseteq Tunnels
      /\ carried \in [Tunnels -> Nat]
      /\ resets \in 0 .. MaxResets /\ restarts \in 0 .. MaxRestarts
  BY DEF BooksInvariant, TypeOK, Readings
<1>1. UNCHANGED <<used, last, balance, counted>>
  BY DEF Connect, Carry, Reset, ReadList, ListFails, SetStatus, vars, store
<1>2. status' \in [Proxies -> Statuses]
  BY <1>0 DEF Connect, Carry, Reset, ReadList, ListFails, SetStatus, vars, store
<1>3. disk' \in {disk, Snapshot'}
  <2>1. UNCHANGED disk \/ Saved \/ SaveFailed
    BY DEF Connect, Carry, Reset, ReadList, ListFails, SetStatus, vars
  <2>2. QED
    BY <2>1, SavedInOrder
<1>4. stage' \in 0 .. 4 /\ restarts' = restarts
  <2>1. CASE ReadList \/ ListFails
    BY <1>0, <2>1 DEF ReadList, ListFails
  <2>2. CASE ~(ReadList \/ ListFails)
    BY <1>0, <2>2 DEF Connect, Carry, Reset, SetStatus, vars
  <2>3. QED
    BY <2>1, <2>2
<1>5. reading' \in Readings
  <2>1. CASE ReadList
    BY <1>0, <2>1 DEF ReadList, Readings
  <2>2. CASE ~ReadList
    BY <1>0, <2>2 DEF Connect, Carry, Reset, ListFails, SetStatus, vars
  <2>3. QED
    BY <2>1, <2>2
<1>6. counter' \in [Tunnels -> Nat] /\ carried' \in [Tunnels -> Nat]
  <2>1. ASSUME NEW t \in Tunnels, Carry(t)
        PROVE  counter' \in [Tunnels -> Nat] /\ carried' \in [Tunnels -> Nat]
    <3>1. counter' = [counter EXCEPT ![t] = @ + 1] /\ carried' = [carried EXCEPT ![t] = @ + 1]
      BY <2>1 DEF Carry
    <3>2. QED
      BY <1>0, <3>1
  <2>2. CASE ~\E t \in Tunnels : Carry(t)
    BY <1>0, <2>2 DEF Connect, Reset, ReadList, ListFails, SetStatus, vars, frps
  <2>3. QED
    BY <2>1, <2>2
<1>7. listed' \subseteq Tunnels /\ resets' \in 0 .. MaxResets
  <2>1. CASE Reset
    BY <1>0, <2>1, PollerAssumption DEF Reset
  <2>2. CASE ~Reset
    BY <1>0, <2>2 DEF Connect, Carry, ReadList, ListFails, SetStatus, vars, frps
  <2>3. QED
    BY <2>1, <2>2
<1>8. Balanced(used', counted', balance')
  BY <1>0, <1>1
<1>9. QED
  BY <1>0, <1>1, <1>2, <1>3, <1>4, <1>5, <1>6, <1>7, <1>8, BooksStep

\* A crash brings back books that agree with each other, older or not.
LEMMA BooksRestart == ASSUME BooksInvariant, Restart PROVE BooksInvariant'
<1>1. disk \in Mirrors /\ Balanced(disk.used, disk.counted, disk.balance)
  BY BooksParts
<1>2. /\ status' \in [Proxies -> Statuses] /\ used' \in [Proxies -> Nat]
      /\ last' \in Readings /\ balance' \in Nat /\ counted' \in [Tunnels -> Nat]
  BY <1>1 DEF Restart, Mirrors, Readings
<1>3. Balanced(used', counted', balance')
  BY <1>1 DEF Restart
<1>4. /\ counter \in [Tunnels -> Nat] /\ listed \subseteq Tunnels
      /\ carried \in [Tunnels -> Nat]
      /\ resets \in 0 .. MaxResets /\ restarts \in 0 .. MaxRestarts
  BY DEF BooksInvariant, TypeOK
<1>5. /\ disk' = disk /\ stage' = 1 /\ reading' = NoReading
      /\ restarts < MaxRestarts /\ restarts' = restarts + 1
      /\ UNCHANGED <<counter, listed, carried, resets>>
  BY DEF Restart, frps
<1>6. reading' \in Readings /\ restarts' \in 0 .. MaxRestarts
  BY <1>4, <1>5, PollerAssumption DEF Readings, NoReading
<1>7. QED
  BY <1>2, <1>3, <1>4, <1>5, <1>6, BooksStep

LEMMA BooksInit == Init => BooksInvariant
<1> SUFFICES ASSUME Init PROVE BooksInvariant
  OBVIOUS
<1>1. TypeOK
  BY PollerAssumption DEF Init, TypeOK, Snapshot, NoReading, None, Statuses
<1>2. used = [p \in Proxies |-> 0] /\ counted = [t \in Tunnels |-> 0] /\ balance = InitialMB
  BY DEF Init
<1>3. ASSUME NEW p \in Proxies PROVE used[p] = Total(counted, TunnelsOf(p))
  <2>1. IsFiniteSet(TunnelsOf(p)) /\ \A t \in TunnelsOf(p) : counted[t] = 0
    BY <1>2, PollerAssumption, FS_Subset DEF TunnelsOf
  <2>2. QED
    BY <1>2, <2>1, TotalZero
<1>4. balance = Monus(InitialMB, Total(Full(used), Proxies))
  <2>1. \A p \in Proxies : Full(used)[p] = 0
    BY <1>2, PollerAssumption DEF Full
  <2>2. Total(Full(used), Proxies) = 0
    BY <2>1, PollerAssumption, TotalZero
  <2>3. QED
    BY <1>2, <2>2, PollerAssumption DEF Monus
<1>5. Balanced(used, counted, balance)
  BY <1>3, <1>4 DEF Balanced
<1>6. disk.used = used /\ disk.counted = counted /\ disk.balance = balance
  BY DEF Init, Snapshot
<1>7. QED
  BY <1>1, <1>5, <1>6 DEF BooksInvariant

LEMMA BooksNext == BooksInvariant /\ [Next]_vars => BooksInvariant'
  BY BooksApply, BooksOthers, BooksRestart DEF Next, Poll

\* The poller's state always has its type.
THEOREM PollerTypes == Spec => []TypeOK
<1>1. BooksInvariant => TypeOK
  BY DEF BooksInvariant
<1>2. QED
  BY BooksInit, BooksNext, <1>1, PTL DEF Spec

\* For any number of proxies and tunnels: what a proxy has used is what its
\* tunnels were charged, and the balance has paid once for every full MB of
\* every proxy (poll_once, _charge_usage), however rounds, failing saves and
\* crashes interleave.
THEOREM BooksBalance == Spec => []BalanceTracksUsage
<1>1. BooksInvariant => BalanceTracksUsage
  BY ChargedTotal, FullTotal DEF BooksInvariant, Balanced, BalanceTracksUsage
<1>2. QED
  BY BooksInit, BooksNext, <1>1, PTL DEF Spec
=============================================================================
