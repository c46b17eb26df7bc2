------------------------- MODULE SessionDrain_proofs -------------------------
(***************************************************************************)
(* Theorems about the run coordinator and about a Session at work, for any *)
(* callers, any number of sequence numbers, calls on their way and prompts *)
(* sent again.                                                             *)
(*                                                                         *)
(* First the coordinator alone (RunCoordinator).  The inductive invariant  *)
(* is IInv below: the entry of a live fiber is the active one, a waiter is *)
(* always owned by an entry that will run or is stopping, and a joined     *)
(* caller that has not seen a forced success waits for a forced drain.     *)
(*                                                                         *)
(* Then the Session (SessionDrain).  A step of the Session is a step of    *)
(* the coordinator or leaves it alone (CoordinatorStep), so what is proved *)
(* of the coordinator holds of the Session too.  The drain's own promises  *)
(* rest on two facts: what each statement of the drain may assume of the   *)
(* inbox (Promising), which only the one live drain can make untrue        *)
(* (AtMostOneDrain), and that no row is newer than the last event          *)
(* (RowsAdmitted).                                                         *)
(***************************************************************************)
EXTENDS SessionDrain, SequenceTheorems, FiniteSetTheorems, TLAPS

(***************************************************************************)
(* The coordinator.                                                        *)
(***************************************************************************)


----------------------------------------------------------------------------
(* The inductive invariant, in parts.                                      *)

Live(k) == entries[k].phase # "free"

\* While the coordinator is open its active entry is the one with a fiber.
OneOwner ==
    /\ ~ closed => \A k \in Slots : Live(k) <=> k = active
    /\ closed => active = 0
    /\ AtMostOneDrain

Demanded == \A k \in Slots : Live(k) => entries[k].current.tag \in {"run", "wake"}

\* An explicit waiter belongs to a run that is pending or running, or to a wake
\* that is being stopped.
WaiterHeld ==
    \A k \in Slots : Live(k) /\ entries[k].waiter =>
        entries[k].pending.tag = "run" \/ entries[k].current.tag = "run" \/ entries[k].stopping

\* A caller that joined a chain saw a forced success or waits for a forced drain.
JoinedForced ==
    \A c \in Callers : callers[c].at = "done" /\ ~ callers[c].forced
                         => entries[callers[c].slot].current.tag = "run"

WaitsOnSlot == \A c \in Callers : callers[c].at \in {"done", "settled"} => callers[c].slot \in Slots

IInv == TypeOK /\ OneOwner /\ Demanded

JInv == WaiterHeld /\ WaitsOnSlot /\ JoinedNotForgotten

FInv == JoinedForced /\ AnswerMeansForced

\* Without explicit runs: what is owed is covered by a newer or equal wake.
NoRun == \A k \in Slots : entries[k].current.tag # "run" /\ entries[k].pending.tag # "run"

Covered ==
    \A u \in unserved :
      /\ active # 0
      /\ \/ Current.phase = "queued" /\ ~ Current.stopping /\ Current.current.seq >= u
         \/ Current.pending.tag = "wake" /\ Current.pending.seq >= u

DInv == /\ DemandKept
        /\ ~ InOrder => NoRun /\ Covered

----------------------------------------------------------------------------
(* Facts about demands and entries.                                        *)

LEMMA DemandTypes ==
    /\ NoDemand \in Demands /\ RunDemand \in Demands
    /\ \A s \in Seqs : WakeDemand(s) \in Demands
    /\ \A d \in Demands : d.tag \in {"none", "run", "wake"} /\ d.seq \in 0 .. MaxSeq
    /\ \A d \in Demands : d.tag = "wake" => d.seq \in Seqs
    /\ \A d \in Demands : d # NoDemand <=> d.tag # "none"
<1>1. /\ NoDemand \in Demands /\ RunDemand \in Demands
      /\ \A s \in Seqs : WakeDemand(s) \in Demands
  BY DEF Demands
<1>2. /\ NoDemand.tag = "none" /\ NoDemand.seq = 0
      /\ RunDemand.tag = "run" /\ RunDemand.seq = 0
      /\ \A s : WakeDemand(s).tag = "wake" /\ WakeDemand(s).seq = s
  BY DEF NoDemand, RunDemand, WakeDemand
<1>3. \A d \in Demands : \/ d = NoDemand \/ d = RunDemand
                          \/ \E s \in Seqs : d = WakeDemand(s)
  BY DEF Demands
<1>4. Seqs \subseteq 0 .. MaxSeq /\ 0 \in 0 .. MaxSeq
  BY SeqAssumption DEF Seqs
<1>5. QED
  BY <1>1, <1>2, <1>3, <1>4

LEMMA CoalesceType ==
    ASSUME NEW l \in Demands, NEW r \in Demands, r # NoDemand
    PROVE  /\ Coalesce(l, r) \in Demands
           /\ Coalesce(l, r) # NoDemand
           /\ r = RunDemand => Coalesce(l, r) = RunDemand
           /\ l.tag = "run" => Coalesce(l, r) = RunDemand
<1>1. CASE "run" \in {l.tag, r.tag}
  BY <1>1, DemandTypes DEF Coalesce, RunDemand, NoDemand
<1>2. CASE "run" \notin {l.tag, r.tag}
  <2>1. r.tag = "wake" /\ r.seq \in Seqs
    BY <1>2, DemandTypes
  <2>2. MaxOf(l.seq, r.seq) \in Seqs
    BY <2>1, DemandTypes, SeqAssumption DEF MaxOf, Seqs
  <2>3. QED
    BY <1>2, <2>1, <2>2, DemandTypes DEF Coalesce, WakeDemand, RunDemand, NoDemand
<1>3. QED
  BY <1>1, <1>2

LEMMA MakeEntryType ==
    ASSUME NEW phase \in {"free", "queued", "draining"}, NEW d \in Demands, NEW w \in BOOLEAN
    PROVE  MakeEntry(phase, d, w) \in Entries
BY SeqAssumption, DemandTypes DEF MakeEntry, Entries

LEMMA FreeType == Free \in Entries
BY MakeEntryType, DemandTypes DEF Free

LEMMA SuppressedType ==
    ASSUME NEW d \in Demands, NEW s \in Seqs
    PROVE  Suppressed(d, s) \in Demands
BY DemandTypes DEF Suppressed

----------------------------------------------------------------------------
(* The entries after a step.                                               *)

LEMMA SpareFree ==
    ASSUME IInv, active = 0, ~ closed
    PROVE  Spare \in Slots /\ ~ Live(Spare) /\ \A k \in Slots : ~ Live(k)
<1>1. \A k \in Slots : ~ Live(k)
  BY DEF IInv, OneOwner, Slots
<1>2. \E k \in Slots : entries[k].phase = "free"
  BY <1>1 DEF Slots, Live
<1>3. QED
  BY <1>1, <1>2 DEF Spare, Live

LEMMA CallersType ==
    ASSUME TypeOK, NEW k \in Slots, NEW exit \in Exits, NEW over \in BOOLEAN
    PROVE  Completed(k, exit, over) \in [Callers -> Calls]
<1>1. SUFFICES ASSUME NEW c \in Callers
               PROVE  Completed(k, exit, over)[c] \in Calls
  BY <1>1, Zenon DEF Completed
<1>2. callers[c] \in Calls
  BY DEF TypeOK
<1>3. QED
  BY <1>2 DEF Completed, Calls, Exits, Slots, Waits

LEMMA PlaceType ==
    ASSUME TypeOK, NEW c \in Callers,
           NEW at \in {"away", "again"} \cup Waits \cup Exits, NEW slot \in {0} \cup Slots,
           Place(c, at, slot)
    PROVE  callers' \in [Callers -> Calls]
BY DEF TypeOK, Place, Calls

LEMMA StartIdleStep ==
    ASSUME IInv, active = 0, ~ closed, NEW d \in Demands, StartIdle(d),
           d.tag \in {"run", "wake"}, UNCHANGED closed
    PROVE  /\ entries' \in [Slots -> Entries] /\ active' \in {0} \cup Slots
           /\ unserved' \subseteq Seqs
           /\ OneOwner' /\ Demanded'
<1>1. Spare \in Slots /\ \A k \in Slots : ~ Live(k)
  BY SpareFree
<1>2. MakeEntry("draining", d, FALSE) \in Entries
  BY MakeEntryType
<1>3. /\ entries' \in [Slots -> Entries]
      /\ \A k \in Slots : entries'[k] = IF k = Spare THEN MakeEntry("draining", d, FALSE)
                                        ELSE entries[k]
  BY <1>1, <1>2 DEF StartIdle, IInv, TypeOK
<1>4. \A k \in Slots : Live(k)' <=> k = Spare
  BY <1>1, <1>3 DEF Live, MakeEntry
<1>5. entries'[Spare].current = d
  BY <1>1, <1>3 DEF MakeEntry
<1>6. active' = Spare /\ unserved' = {}
  BY DEF StartIdle
<1>7. OneOwner'
  BY <1>4, <1>6 DEF OneOwner, AtMostOneDrain, Live
<1>8. Demanded'
  BY <1>4, <1>5 DEF Demanded
<1>9. QED
  BY <1>1, <1>3, <1>6, <1>7, <1>8

\* Only the pending demand, the waiter and the stop of the active entry change.
LEMMA EditStep ==
    ASSUME IInv, active # 0, NEW e \in Entries,
           entries' = [entries EXCEPT ![active] = e],
           (e.phase # "free") <=> Live(active), e.current = entries[active].current,
           UNCHANGED <<active, closed>>
    PROVE  entries' \in [Slots -> Entries] /\ OneOwner' /\ Demanded'
<1>1. active \in Slots /\ ~ closed /\ Live(active)
  BY DEF IInv, TypeOK, OneOwner
<1>2. /\ entries' \in [Slots -> Entries]
      /\ \A k \in Slots : entries'[k] = IF k = active THEN e ELSE entries[k]
  BY <1>1 DEF IInv, TypeOK
<1>3. \A k \in Slots : (Live(k)' <=> Live(k)) /\ entries'[k].current = entries[k].current
  BY <1>1, <1>2 DEF Live
<1>4. QED
  BY <1>2, <1>3 DEF IInv, OneOwner, Demanded, AtMostOneDrain, Live

\* Without a change to the entries the first three parts are kept.
LEMMA SameEntries ==
    ASSUME IInv, UNCHANGED <<entries, active, closed>>
    PROVE  OneOwner' /\ Demanded'
BY DEF IInv, OneOwner, Demanded, AtMostOneDrain, Live

\* A settlement frees the entry, and may leave a successor in the other slot.
LEMMA FreedStep ==
    ASSUME IInv, NEW k \in Slots, k = active \/ closed, Live(k), UNCHANGED closed,
           entries' = [entries EXCEPT ![k] = Free], active' = 0
    PROVE  entries' \in [Slots -> Entries] /\ OneOwner' /\ Demanded'
           /\ \A j \in Slots : Live(j)' => FALSE
<1>1. /\ entries' \in [Slots -> Entries]
      /\ \A j \in Slots : entries'[j] = IF j = k THEN Free ELSE entries[j]
  BY FreeType DEF IInv, TypeOK
<1>2. Free.phase = "free"
  BY DEF Free, MakeEntry
<1>3. \A j \in Slots : ~ Live(j)'
  BY <1>1, <1>2 DEF IInv, OneOwner, AtMostOneDrain, Live
<1>4. QED
  BY <1>1, <1>3 DEF OneOwner, Demanded, AtMostOneDrain, Live, Slots

LEMMA SuccessorStep ==
    ASSUME IInv, NEW k \in Slots, NEW exit \in Exits, k = active, ~ closed, UNCHANGED closed,
           SettleSuccessor(k, exit)
    PROVE  /\ entries' \in [Slots -> Entries] /\ OneOwner' /\ Demanded'
           /\ active' = 3 - k /\ 3 - k \in Slots /\ 3 - k # k
           /\ entries'[k] = Free
           /\ entries'[3 - k] = MakeEntry("queued", entries[k].pending,
                                          entries[k].waiter /\ ~ AnswersWaiter(entries[k]))
<1> DEFINE next == MakeEntry("queued", entries[k].pending,
                             entries[k].waiter /\ ~ AnswersWaiter(entries[k]))
<1>1. 3 - k \in Slots /\ 3 - k # k /\ \A j \in Slots : j = k \/ j = 3 - k
  BY DEF Slots
<1>2. entries[k] \in Entries
  BY DEF IInv, TypeOK
<1>3. entries[k].pending \in Demands /\ entries[k].waiter \in BOOLEAN
  BY <1>2 DEF Entries
<1>4. next \in Entries
  BY <1>3, MakeEntryType
<1>5. /\ entries' \in [Slots -> Entries]
      /\ entries'[k] = Free /\ entries'[3 - k] = next
  BY <1>1, <1>4, FreeType DEF IInv, TypeOK, SettleSuccessor
<1>6. next.phase = "queued" /\ next.current = entries[k].pending /\ Free.phase = "free"
  BY DEF MakeEntry, Free
<1>7. entries[k].pending.tag \in {"run", "wake"}
  BY <1>3, DemandTypes DEF SettleSuccessor
<1>8. \A j \in Slots : Live(j)' <=> j = 3 - k
  BY <1>1, <1>5, <1>6 DEF Live
<1>9. active' = 3 - k
  BY DEF SettleSuccessor
<1>10. OneOwner' /\ Demanded'
  BY <1>1, <1>5, <1>6, <1>7, <1>8, <1>9 DEF OneOwner, Demanded, AtMostOneDrain, Live
<1>11. QED
  BY <1>1, <1>5, <1>9, <1>10

LEMMA RestartStep ==
    ASSUME IInv, NEW k \in Slots, NEW exit \in Exits, k = active, ~ closed, UNCHANGED closed,
           SettleRestart(k, exit)
    PROVE  /\ entries' \in [Slots -> Entries] /\ OneOwner' /\ Demanded'
           /\ entries' = [entries EXCEPT ![k] = entries'[k]]
           /\ entries'[k].phase = "queued"
           /\ entries'[k].current = entries[k].pending
           /\ entries'[k].pending = NoDemand
           /\ entries'[k].waiter = (entries[k].waiter /\ ~ AnswersWaiter(entries[k]))
           /\ entries'[k].stopping = entries[k].stopping
           /\ active' = active
<1> DEFINE next == [entries[k] EXCEPT !.phase = "queued", !.current = entries[k].pending,
                                      !.pending = NoDemand,
                                      !.waiter = entries[k].waiter /\ ~ AnswersWaiter(entries[k])]
<1>1. entries[k] \in Entries /\ entries \in [Slots -> Entries]
  BY DEF IInv, TypeOK
<1>2. entries[k].pending \in Demands /\ entries[k].pending # NoDemand
  BY <1>1 DEF Entries, SettleRestart
<1>3. next \in Entries
  BY <1>1, <1>2, DemandTypes DEF Entries
<1>4. entries' = [entries EXCEPT ![k] = next]
  BY <1>1 DEF SettleRestart
<1>5. /\ entries' \in [Slots -> Entries]
      /\ \A j \in Slots : entries'[j] = IF j = k THEN next ELSE entries[j]
  BY <1>1, <1>3, <1>4
<1>6. /\ next.phase = "queued" /\ next.current = entries[k].pending /\ next.pending = NoDemand
      /\ next.waiter = (entries[k].waiter /\ ~ AnswersWaiter(entries[k]))
      /\ next.stopping = entries[k].stopping
  BY <1>1 DEF Entries
<1>7. active' = active
  BY DEF SettleRestart
<1>8. \A j \in Slots : Live(j)' <=> j = k
  BY <1>5, <1>6 DEF IInv, OneOwner, Live
<1>9. OneOwner' /\ Demanded'
  <2>1. entries[k].pending.tag \in {"run", "wake"}
    BY <1>2, DemandTypes
  <2>2. entries'[k].current.tag \in {"run", "wake"}
    BY <1>5, <1>6, <2>1
  <2>3. Demanded'
    BY <1>8, <2>2 DEF Demanded
  <2>4. OneOwner'
    BY <1>7, <1>8 DEF OneOwner, AtMostOneDrain, Live
  <2>5. QED
    BY <2>3, <2>4
<1>10. QED
  BY <1>4, <1>5, <1>6, <1>7, <1>9

----------------------------------------------------------------------------
(* Types, one owner and demands are kept by every step.                    *)

LEMMA InitInv == ASSUME Init PROVE IInv
<1>2. entries \in [Slots -> Entries] /\ \A k \in Slots : entries[k] = Free
  BY FreeType DEF Init
<1>3. \A k \in Slots : ~ Live(k)
  BY <1>2 DEF Live, Free, MakeEntry
<1>4. callers \in [Callers -> Calls]
  BY DEF Init, Calls
<1>5. TypeOK
  <2>1. closed \in BOOLEAN /\ active \in {0} \cup Slots /\ unserved \subseteq Seqs
    BY DEF Init
  <2>2. boundary \in 0 .. MaxSeq
    BY SeqAssumption DEF Init
  <2>3. QED
    BY <1>2, <1>4, <2>1, <2>2, Zenon DEF TypeOK
<1>6. OneOwner /\ Demanded
  BY <1>3 DEF Init, OneOwner, Demanded, AtMostOneDrain, Live, Slots
<1>7. QED
  BY <1>5, <1>6 DEF IInv

LEMMA WakeInv == ASSUME IInv, NEW s \in Seqs, Wake(s) PROVE IInv'
<1> USE DEF IInv
<1>1. boundary' \in 0 .. MaxSeq /\ closed' \in BOOLEAN /\ callers' \in [Callers -> Calls]
      /\ UNCHANGED closed
  BY DEF Wake, TypeOK
<1>2. CASE WakeIgnored(s)
  BY <1>1, <1>2, SameEntries DEF WakeIgnored, TypeOK
<1>3. CASE WakeAccepted(s) /\ WakeStarts(s)
  <2>1. WakeDemand(s) \in Demands /\ WakeDemand(s).tag = "wake"
    BY DemandTypes DEF WakeDemand
  <2>2. QED
    BY <1>1, <1>3, <2>1, StartIdleStep DEF WakeStarts, WakeAccepted, TypeOK
<1>4. CASE WakeAccepted(s) /\ WakeFollows(s)
  <2>1. active \in Slots /\ entries[active] \in Entries
    BY <1>4 DEF WakeFollows, TypeOK
  <2>2. WakeDemand(s) \in Demands /\ WakeDemand(s) # NoDemand
    BY DemandTypes DEF WakeDemand, NoDemand
  <2>3. Coalesce(Current.pending, WakeDemand(s)) \in Demands
    BY <2>1, <2>2, CoalesceType DEF Current, Entries
  <2> DEFINE e == [entries[active] EXCEPT !.pending = Coalesce(Current.pending, WakeDemand(s))]
  <2>4. e \in Entries /\ e.phase = entries[active].phase /\ e.current = entries[active].current
    BY <2>1, <2>3 DEF Entries
  <2>5. entries' = [entries EXCEPT ![active] = e]
    BY <1>4, <2>1 DEF WakeFollows, Current, TypeOK
  <2>6. unserved' \subseteq Seqs /\ UNCHANGED active /\ active # 0
    BY <1>4 DEF WakeFollows, TypeOK
  <2>7. entries' \in [Slots -> Entries] /\ OneOwner' /\ Demanded'
    BY <1>1, <2>4, <2>5, <2>6, EditStep DEF Live
  <2>8. QED
    BY <1>1, <2>6, <2>7 DEF TypeOK
<1>5. QED
  BY <1>2, <1>3, <1>4 DEF Wake

LEMMA RunInv == ASSUME IInv, NEW c \in Callers, Run(c) PROVE IInv'
<1> USE DEF IInv
<1>1. boundary' \in 0 .. MaxSeq /\ closed' \in BOOLEAN /\ UNCHANGED closed
  BY DEF Run, TypeOK
<1>2. CASE RunClosed(c)
  BY <1>1, <1>2, SameEntries, PlaceType DEF RunClosed, TypeOK, Exits
<1>3. CASE RunStarts(c)
  <2>1. RunDemand \in Demands /\ RunDemand.tag = "run"
    BY DemandTypes DEF RunDemand
  <2>2. callers' \in [Callers -> Calls]
    BY <1>3, SpareFree, PlaceType DEF RunStarts, Waits
  <2>3. QED
    BY <1>1, <1>3, <2>1, <2>2, StartIdleStep DEF RunStarts, TypeOK
<1>4. CASE RunRetries(c)
  BY <1>1, <1>4, SameEntries, PlaceType DEF RunRetries, TypeOK, Waits
<1>5. CASE RunUpgrades(c)
  <2>1. active \in Slots /\ entries[active] \in Entries
    BY <1>5 DEF RunUpgrades, TypeOK
  <2>2. RunDemand \in Demands /\ RunDemand # NoDemand
    BY DemandTypes DEF RunDemand, NoDemand
  <2>3. Coalesce(Current.pending, RunDemand) \in Demands
    BY <2>1, <2>2, CoalesceType DEF Current, Entries
  <2> DEFINE e == [entries[active] EXCEPT !.pending = Coalesce(Current.pending, RunDemand),
                                          !.waiter = TRUE]
  <2>4. e \in Entries /\ e.phase = entries[active].phase /\ e.current = entries[active].current
    BY <2>1, <2>3 DEF Entries
  <2>5. entries' = [entries EXCEPT ![active] = e]
    BY <1>5, <2>1 DEF RunUpgrades, Current, TypeOK
  <2>6. UNCHANGED <<active, unserved>> /\ active # 0 /\ callers' \in [Callers -> Calls]
    BY <1>5, PlaceType DEF RunUpgrades, Waits
  <2>7. entries' \in [Slots -> Entries] /\ OneOwner' /\ Demanded'
    BY <1>1, <2>4, <2>5, <2>6, EditStep DEF Live
  <2>8. QED
    BY <1>1, <2>6, <2>7 DEF TypeOK
<1>6. CASE RunJoins(c)
  BY <1>1, <1>6, SameEntries, PlaceType DEF RunJoins, TypeOK, Waits
<1>7. QED
  BY <1>2, <1>3, <1>4, <1>5, <1>6 DEF Run

LEMMA SettleInv ==
    ASSUME IInv, NEW k \in Slots, NEW exit \in Exits, Settle(k, exit) \/ SettleDetached(k, exit)
    PROVE  IInv'
<1> USE DEF IInv
<1>1. /\ boundary' \in 0 .. MaxSeq /\ closed' \in BOOLEAN /\ UNCHANGED closed
      /\ unserved' \subseteq Seqs /\ Live(k)
  BY DEF Settle, SettleDetached, MayExit, TypeOK, Live
<1>2. CASE Settle(k, exit)
  <2>1. k = active /\ ~ closed
    BY <1>2 DEF Settle
  <2>2. CASE SettleRestart(k, exit)
    <3>1. callers' \in [Callers -> Calls]
      BY <2>2, CallersType DEF SettleRestart
    <3>2. entries' \in [Slots -> Entries] /\ OneOwner' /\ Demanded' /\ active' = active
      BY <1>1, <2>1, <2>2, RestartStep
    <3>3. QED
      BY <1>1, <3>1, <3>2 DEF TypeOK
  <2>3. CASE SettleIdle(k, exit)
    <3>1. callers' \in [Callers -> Calls] /\ active' = 0
      BY <2>3, CallersType DEF SettleIdle
    <3>2. entries' \in [Slots -> Entries] /\ OneOwner' /\ Demanded'
      BY <1>1, <2>1, <2>3, FreedStep DEF SettleIdle
    <3>3. QED
      BY <1>1, <3>1, <3>2 DEF TypeOK
  <2>4. CASE SettleSuccessor(k, exit)
    <3>1. callers' \in [Callers -> Calls]
      BY <2>4, CallersType DEF SettleSuccessor
    <3>2. entries' \in [Slots -> Entries] /\ OneOwner' /\ Demanded' /\ active' \in Slots
      BY <1>1, <2>1, <2>4, SuccessorStep
    <3>3. QED
      BY <1>1, <3>1, <3>2 DEF TypeOK
  <2>5. QED
    BY <1>2, <2>2, <2>3, <2>4 DEF Settle
<1>3. CASE SettleDetached(k, exit)
  <2>1. closed /\ active = 0
    BY <1>1, <1>3 DEF SettleDetached, OneOwner
  <2>2. callers' \in [Callers -> Calls] /\ active' = 0
    BY <1>3, <2>1, CallersType DEF SettleDetached
  <2>3. entries' \in [Slots -> Entries] /\ OneOwner' /\ Demanded'
    BY <1>1, <1>3, <2>1, <2>2, FreedStep DEF SettleDetached
  <2>4. QED
    BY <1>1, <2>2, <2>3 DEF TypeOK
<1>4. QED
  BY <1>2, <1>3

LEMMA BeginInv == ASSUME IInv, NEW k \in Slots, Begin(k) PROVE IInv'
<1> USE DEF IInv
<1> DEFINE e == [entries[k] EXCEPT !.phase = "draining"]
<1>1. entries[k] \in Entries /\ Live(k) /\ ~ closed /\ k = active /\ active # 0
  BY DEF Begin, TypeOK, OneOwner, Live, Slots
<1>2. e \in Entries /\ e.phase # "free" /\ e.current = entries[k].current
  BY <1>1 DEF Entries
<1>3. entries' = [entries EXCEPT ![active] = e] /\ UNCHANGED <<active, closed>>
  BY <1>1 DEF Begin, TypeOK
<1>4. entries' \in [Slots -> Entries] /\ OneOwner' /\ Demanded'
  BY <1>1, <1>2, <1>3, EditStep
<1>5. QED
  BY <1>3, <1>4 DEF Begin, TypeOK

LEMMA InterruptEntry ==
    ASSUME IInv, NEW s \in Seqs, InterruptStops(s), UNCHANGED <<active, closed>>
    PROVE  /\ entries' \in [Slots -> Entries] /\ OneOwner' /\ Demanded'
           /\ active \in Slots
           /\ \A j \in Slots : j # active => entries'[j] = entries[j]
           /\ entries'[active].phase = entries[active].phase
           /\ entries'[active].current = entries[active].current
           /\ entries'[active].waiter = entries[active].waiter
           /\ entries'[active].stopping
           /\ entries'[active].pending = Suppressed(entries[active].pending, s)
<1> USE DEF IInv
<1>1. active \in Slots /\ entries[active] \in Entries /\ active # 0
  BY DEF InterruptStops, TypeOK
<1> DEFINE e == [entries[active] EXCEPT !.stopping = TRUE,
                                        !.iseq = MaxOf(entries[active].iseq, s),
                                        !.pending = Suppressed(entries[active].pending, s)]
<1>2. Suppressed(entries[active].pending, s) \in Demands
  BY <1>1, SuppressedType DEF Entries
<1>3. MaxOf(entries[active].iseq, s) \in 0 .. MaxSeq
  BY <1>1, SeqAssumption DEF MaxOf, Seqs, Entries
<1>4. e \in Entries /\ e.phase = entries[active].phase /\ e.current = entries[active].current
      /\ e.waiter = entries[active].waiter /\ e.stopping
      /\ e.pending = Suppressed(entries[active].pending, s)
  BY <1>1, <1>2, <1>3 DEF Entries
<1>5. entries' = [entries EXCEPT ![active] = e]
  BY <1>1 DEF InterruptStops, TypeOK
<1>6. entries' \in [Slots -> Entries] /\ OneOwner' /\ Demanded'
  BY <1>1, <1>4, <1>5, EditStep DEF Live
<1>7. \A j \in Slots : entries'[j] = IF j = active THEN e ELSE entries[j]
  BY <1>5 DEF TypeOK
<1>8. QED
  BY <1>1, <1>4, <1>6, <1>7

LEMMA InterruptInv == ASSUME IInv, NEW s \in Seqs, Interrupt(s) PROVE IInv'
<1> USE DEF IInv
<1>1. UNCHANGED <<active, closed, callers>> /\ boundary' \in 0 .. MaxSeq /\ unserved' \subseteq Seqs
  <2>1. CASE InterruptStale(s)
    BY <2>1 DEF InterruptStale, Interrupt, TypeOK
  <2>2. CASE boundary' = s /\ unserved' = {u \in unserved : u > s}
    <3>1. UNCHANGED <<active, closed, callers>>
      BY DEF Interrupt
    <3>2. boundary' \in 0 .. MaxSeq
      BY <2>2, SeqAssumption DEF Seqs
    <3>3. unserved' \subseteq Seqs
      BY <2>2 DEF TypeOK
    <3>4. QED
      BY <3>1, <3>2, <3>3
  <2>3. QED
    BY <2>1, <2>2 DEF Interrupt
<1>2. CASE UNCHANGED entries
  BY <1>1, <1>2, SameEntries DEF TypeOK
<1>3. CASE InterruptStops(s)
  BY <1>1, <1>3, InterruptEntry DEF TypeOK
<1>4. QED
  BY <1>2, <1>3 DEF Interrupt, InterruptStale, InterruptIdle, InterruptSpares

LEMMA CloseInv == ASSUME IInv, Close PROVE IInv'
<1> USE DEF IInv
<1>1. callers' \in [Callers -> Calls]
  <2>1. \A c \in Callers : callers[c] \in Calls
    BY DEF TypeOK
  <2>2. [at |-> "failed", slot |-> 0, forced |-> FALSE] \in Calls
    BY DEF Calls, Exits
  <2>3. QED
    BY <2>1, <2>2 DEF Close
<1>2. OneOwner' /\ Demanded'
  BY DEF Close, OneOwner, Demanded, AtMostOneDrain, Live
<1>3. boundary' \in 0 .. MaxSeq
  BY SeqAssumption DEF Close
<1>4. closed' \in BOOLEAN /\ active' \in {0} \cup Slots /\ unserved' \subseteq Seqs /\ UNCHANGED entries
  BY DEF Close
<1>5. QED
  BY <1>1, <1>2, <1>3, <1>4, Zenon DEF TypeOK

LEMMA RestartInv == ASSUME IInv, Restart PROVE IInv'
<1> USE DEF IInv
<1>1. OneOwner' /\ Demanded'
  BY DEF Restart, OneOwner, Demanded, AtMostOneDrain, Live, Slots
<1>2. closed' \in BOOLEAN /\ UNCHANGED <<entries, active, boundary, callers, unserved>>
  BY DEF Restart
<1>3. QED
  BY <1>1, <1>2, Zenon DEF TypeOK

LEMMA LeaveInv == ASSUME IInv, NEW c \in Callers, Leave(c) PROVE IInv'
<1> USE DEF IInv
<1>1. callers' \in [Callers -> Calls]
  BY PlaceType DEF Leave
<1>2. UNCHANGED <<entries, active, boundary, closed, unserved>>
  BY DEF Leave
<1>3. QED
  BY <1>1, <1>2, SameEntries DEF TypeOK

LEMMA StepInv == ASSUME IInv, [Next]_vars PROVE IInv'
<1>1. CASE UNCHANGED vars
  BY <1>1 DEF vars, IInv, TypeOK, OneOwner, Demanded, AtMostOneDrain, Live
<1>2. CASE Next
  BY <1>2, WakeInv, InterruptInv, RunInv, LeaveInv, BeginInv, SettleInv, CloseInv, RestartInv
  DEF Next
<1>3. QED
  BY <1>1, <1>2

LEMMA SpecInv == Spec => []IInv
<1>1. Init => IInv
  BY InitInv
<1>2. IInv /\ [Next]_vars => IInv'
  BY StepInv
<1>3. QED
  BY <1>1, <1>2, PTL DEF Spec

\* The state of the coordinator keeps its types.
THEOREM CoordinatorTypes == Spec => []TypeOK
BY SpecInv, PTL DEF IInv

\* Two drains of one Session never live at the same time: the successor of a
\* stopped or failed chain starts when the chain has settled.
THEOREM OneDrainAtATime == Spec => []AtMostOneDrain
BY SpecInv, PTL DEF IInv, OneOwner

----------------------------------------------------------------------------
(* No waiter is forgotten.                                                 *)

\* The callers of an entry after it has completed its deferreds.
LEMMA CompletedCalls ==
    ASSUME IInv, JInv, NEW k \in Slots, Live(k), NEW exit \in Exits, NEW over \in BOOLEAN,
           callers' = Completed(k, exit, over), NEW c \in Callers
    PROVE  /\ callers'[c].at = "waiter" =>
                 callers[c].at = "waiter" /\ ~ AnswersWaiter(entries[k])
           /\ callers'[c].at \in {"done", "settled"} =>
                 /\ callers[c].at = callers'[c].at
                 /\ callers'[c].slot = callers[c].slot
                 /\ over => callers[c].slot # k
BY DEF Completed, Exits

\* Wherever only the active entry may change, and keeps its waiter.
LEMMA JoinedKept ==
    ASSUME IInv, JInv, UNCHANGED <<active, callers>>,
           \A k \in Slots : /\ Live(k)' <=> Live(k)
                            /\ entries'[k].waiter = entries[k].waiter,
           WaiterHeld'
    PROVE  JInv'
BY DEF JInv, WaitsOnSlot, JoinedNotForgotten, Current, Live, IInv, TypeOK

LEMMA WakeJoined == ASSUME IInv, JInv, NEW s \in Seqs, Wake(s) PROVE JInv'
<1> USE DEF IInv
<1>1. UNCHANGED <<callers, closed>>
  BY DEF Wake
<1>2. CASE WakeIgnored(s)
  BY <1>1, <1>2 DEF WakeIgnored, JInv, WaiterHeld, WaitsOnSlot, JoinedNotForgotten, Live, Current
<1>3. CASE WakeAccepted(s) /\ WakeStarts(s)
  <2>1. active = 0 /\ ~ closed
    BY <1>3 DEF WakeStarts, WakeAccepted
  <2>2. Spare \in Slots /\ \A k \in Slots : ~ Live(k)
    BY <2>1, SpareFree
  <2>3. \A c \in Callers : callers[c].at \notin Waits
    BY <2>1, <2>2 DEF JInv, WaitsOnSlot, JoinedNotForgotten, Live, Waits
  <2>4. \A k \in Slots : entries'[k] = IF k = Spare THEN MakeEntry("draining", WakeDemand(s), FALSE)
                                       ELSE entries[k]
    BY <1>3, <2>2 DEF WakeStarts, StartIdle, TypeOK
  <2>5. \A k \in Slots : Live(k)' => ~ entries'[k].waiter
    BY <2>2, <2>4 DEF MakeEntry, Live
  <2>6. QED
    BY <1>1, <2>3, <2>5 DEF JInv, WaiterHeld, WaitsOnSlot, JoinedNotForgotten, Waits
<1>4. CASE WakeAccepted(s) /\ WakeFollows(s)
  <2>1. active \in Slots /\ entries[active] \in Entries /\ active' = active
    BY <1>4 DEF WakeFollows, TypeOK
  <2>2. WakeDemand(s) \in Demands /\ WakeDemand(s) # NoDemand
    BY DemandTypes DEF WakeDemand, NoDemand
  <2>3. entries[active].pending.tag = "run" =>
          Coalesce(entries[active].pending, WakeDemand(s)).tag = "run"
    BY <2>1, <2>2, CoalesceType DEF Entries, RunDemand
  <2>4. /\ \A k \in Slots : k # active => entries'[k] = entries[k]
        /\ entries'[active] = [entries[active] EXCEPT
                                 !.pending = Coalesce(entries[active].pending, WakeDemand(s))]
    BY <1>4, <2>1 DEF WakeFollows, TypeOK
  <2>5. /\ entries'[active].phase = entries[active].phase
        /\ entries'[active].waiter = entries[active].waiter
        /\ entries'[active].stopping = entries[active].stopping
        /\ entries'[active].current = entries[active].current
        /\ entries'[active].pending = Coalesce(entries[active].pending, WakeDemand(s))
    BY <2>1, <2>4 DEF Entries
  <2>6. WaiterHeld'
    BY <2>3, <2>4, <2>5 DEF JInv, WaiterHeld, Live
  <2>7. \A k \in Slots : (Live(k)' <=> Live(k)) /\ entries'[k].waiter = entries[k].waiter
    BY <2>4, <2>5 DEF Live
  <2>8. QED
    BY <1>1, <2>1, <2>6, <2>7, JoinedKept
<1>5. QED
  BY <1>2, <1>3, <1>4 DEF Wake

LEMMA RunJoined == ASSUME IInv, JInv, NEW c \in Callers, Run(c) PROVE JInv'
<1> USE DEF IInv
<1>1. closed' = closed /\ callers \in [Callers -> Calls]
  BY DEF Run, TypeOK
<1>2. ASSUME NEW at, NEW slot, Place(c, at, slot)
      PROVE  /\ callers'[c].at = at /\ callers'[c].slot = slot
             /\ \A d \in Callers : d # c => callers'[d] = callers[d]
  BY <1>1, <1>2 DEF Place
<1>3. CASE RunClosed(c)
  BY <1>2, <1>3 DEF RunClosed, JInv, WaiterHeld, WaitsOnSlot, JoinedNotForgotten, Live, Current
<1>4. CASE RunStarts(c)
  <2>1. active = 0 /\ ~ closed /\ active' = Spare
    BY <1>4 DEF RunStarts, StartIdle
  <2>2. Spare \in Slots /\ \A k \in Slots : ~ Live(k)
    BY <2>1, SpareFree
  <2>3. \A d \in Callers : callers[d].at \notin Waits
    BY <2>1, <2>2 DEF JInv, WaitsOnSlot, JoinedNotForgotten, Live, Waits
  <2>4. \A k \in Slots : entries'[k] = IF k = Spare THEN MakeEntry("draining", RunDemand, FALSE)
                                       ELSE entries[k]
    BY <1>4, <2>2 DEF RunStarts, StartIdle, TypeOK
  <2>5. \A k \in Slots : Live(k)' => ~ entries'[k].waiter
    BY <2>2, <2>4 DEF MakeEntry, Live
  <2>6. callers'[c].at = "done" /\ callers'[c].slot = Spare
        /\ \A d \in Callers : d # c => callers'[d] = callers[d]
    BY <1>2, <1>4 DEF RunStarts
  <2>7. entries'[Spare].phase # "free"
    BY <2>2, <2>4 DEF MakeEntry
  <2>8. QED
    BY <2>2, <2>3, <2>5, <2>6, <2>7 DEF JInv, WaiterHeld, WaitsOnSlot, JoinedNotForgotten, Waits
<1>5. CASE RunRetries(c) \/ RunJoins(c)
  <2>1. active \in Slots /\ Live(active) /\ UNCHANGED <<entries, active>>
    BY <1>5 DEF RunRetries, RunJoins, TypeOK, OneOwner
  <2>2. callers'[c].at \in {"settled", "done"} /\ callers'[c].slot = active
        /\ \A d \in Callers : d # c => callers'[d] = callers[d]
    BY <1>2, <1>5 DEF RunRetries, RunJoins
  <2>3. QED
    BY <2>1, <2>2 DEF JInv, WaiterHeld, WaitsOnSlot, JoinedNotForgotten, Live, Current
<1>6. CASE RunUpgrades(c)
  <2>1. active \in Slots /\ entries[active] \in Entries /\ active' = active
    BY <1>6 DEF RunUpgrades, TypeOK
  <2>2. RunDemand \in Demands /\ RunDemand # NoDemand /\ RunDemand.tag = "run"
    BY DemandTypes DEF RunDemand, NoDemand
  <2>3. Coalesce(entries[active].pending, RunDemand).tag = "run"
    BY <2>1, <2>2, CoalesceType DEF Entries
  <2>4. /\ \A k \in Slots : k # active => entries'[k] = entries[k]
        /\ entries'[active] = [entries[active] EXCEPT
                                 !.pending = Coalesce(entries[active].pending, RunDemand),
                                 !.waiter = TRUE]
    BY <1>6, <2>1 DEF RunUpgrades, TypeOK
  <2>5. /\ entries'[active].phase = entries[active].phase
        /\ entries'[active].waiter
        /\ entries'[active].pending = Coalesce(entries[active].pending, RunDemand)
    BY <2>1, <2>4 DEF Entries
  <2>6. WaiterHeld'
    BY <2>3, <2>4, <2>5 DEF JInv, WaiterHeld, Live
  <2>7. callers'[c].at = "waiter" /\ \A d \in Callers : d # c => callers'[d] = callers[d]
    BY <1>2, <1>6 DEF RunUpgrades
  <2>8. active # 0
    BY <1>6 DEF RunUpgrades
  <2>9. \A k \in Slots : entries'[k].phase = entries[k].phase
    BY <2>4, <2>5
  <2>10. active' # 0 /\ entries'[active'].waiter
    BY <2>1, <2>5, <2>8
  <2>11. WaitsOnSlot'
    BY <2>7 DEF JInv, WaitsOnSlot
  <2>12. JoinedNotForgotten'
    BY <2>7, <2>9, <2>10 DEF JInv, WaitsOnSlot, JoinedNotForgotten, Current
  <2>13. QED
    BY <2>6, <2>11, <2>12 DEF JInv
<1>7. QED
  BY <1>3, <1>4, <1>5, <1>6 DEF Run

LEMMA SettleJoined ==
    ASSUME IInv, JInv, NEW k \in Slots, NEW exit \in Exits, Settle(k, exit) \/ SettleDetached(k, exit)
    PROVE  JInv'
<1> USE DEF IInv
<1>1. UNCHANGED closed /\ Live(k)
  BY DEF Settle, SettleDetached, MayExit, Live
<1>2. entries[k].current.tag \in {"run", "wake"}
  BY <1>1 DEF Demanded
<1>3. ASSUME Live(k), ~ closed
      PROVE  k = active /\ \A j \in Slots : j # k => ~ Live(j)
  BY <1>3 DEF OneOwner
\* An entry without a follow-up answers its waiter.
<1>4. entries[k].waiter /\ ~ AnswersWaiter(entries[k]) =>
        /\ entries[k].pending.tag = "run" /\ ~ entries[k].stopping
        /\ entries[k].pending # NoDemand
  BY <1>1, <1>2 DEF AnswersWaiter, JInv, WaiterHeld, NoDemand
<1>5. CASE Settle(k, exit) /\ SettleRestart(k, exit)
  <2>1. ~ closed /\ callers' = Completed(k, exit, FALSE) /\ k = active
    BY <1>5 DEF Settle, SettleRestart
  <2>2. /\ active' = active /\ active # 0
        /\ entries' = [entries EXCEPT ![k] = entries'[k]]
        /\ entries'[k].phase = "queued"
        /\ entries'[k].current = entries[k].pending
        /\ entries'[k].waiter = (entries[k].waiter /\ ~ AnswersWaiter(entries[k]))
    BY <1>1, <1>5, <2>1, RestartStep DEF Slots
  <2>3. \A j \in Slots : j # k => entries'[j] = entries[j]
    BY <2>2 DEF TypeOK
  <2>4. WaiterHeld'
    BY <1>3, <1>1, <1>4, <2>1, <2>2, <2>3 DEF WaiterHeld, Live
  <2>5. \A c \in Callers :
          /\ callers'[c].at = "waiter" =>
                callers[c].at = "waiter" /\ ~ AnswersWaiter(entries[k])
          /\ callers'[c].at \in {"done", "settled"} =>
                callers[c].at = callers'[c].at /\ callers'[c].slot = callers[c].slot
    BY <1>1, <2>1, CompletedCalls
  <2>6. WaitsOnSlot'
    BY <2>5 DEF JInv, WaitsOnSlot
  <2>7. ASSUME NEW c \in Callers, callers'[c].at = "waiter"
        PROVE  active' # 0 /\ entries'[active'].waiter
    BY <2>1, <2>2, <2>5, <2>7 DEF JInv, JoinedNotForgotten, Current
  <2>8. ASSUME NEW c \in Callers, callers'[c].at \in {"done", "settled"}
        PROVE  entries'[callers'[c].slot].phase # "free"
    <3>1. callers'[c].slot \in Slots /\ entries[callers'[c].slot].phase # "free"
      BY <2>5, <2>8 DEF JInv, WaitsOnSlot, JoinedNotForgotten
    <3>2. QED
      BY <2>2, <2>3, <3>1
  <2>9. JoinedNotForgotten'
    BY <2>7, <2>8 DEF JoinedNotForgotten, Current
  <2>10. QED
    BY <2>4, <2>6, <2>9 DEF JInv
<1>6. CASE Settle(k, exit) /\ SettleSuccessor(k, exit)
  <2>1. ~ closed /\ callers' = Completed(k, exit, TRUE) /\ k = active
    BY <1>6 DEF Settle, SettleSuccessor
  <2>2. /\ active' = 3 - k /\ 3 - k \in Slots /\ 3 - k # k
        /\ entries'[k] = Free
        /\ entries'[3 - k] = MakeEntry("queued", entries[k].pending,
                                       entries[k].waiter /\ ~ AnswersWaiter(entries[k]))
    BY <1>1, <1>6, <2>1, SuccessorStep
  <2>3. /\ Free.phase = "free" /\ \A j \in Slots : j = k \/ j = 3 - k
        /\ entries'[3 - k].phase = "queued"
        /\ entries'[3 - k].current = entries[k].pending
        /\ entries'[3 - k].waiter = (entries[k].waiter /\ ~ AnswersWaiter(entries[k]))
    BY <2>2 DEF Free, MakeEntry, Slots
  <2>4. WaiterHeld'
    BY <1>4, <2>2, <2>3 DEF WaiterHeld, Live
  <2>5. \A c \in Callers :
          /\ callers'[c].at = "waiter" =>
                callers[c].at = "waiter" /\ ~ AnswersWaiter(entries[k])
          /\ callers'[c].at \in {"done", "settled"} =>
                /\ callers[c].at = callers'[c].at /\ callers'[c].slot = callers[c].slot
                /\ callers[c].slot # k
    BY <1>1, <2>1, CompletedCalls
  <2>6. \A c \in Callers : callers'[c].at \notin {"done", "settled"}
    BY <1>1, <1>3, <2>1, <2>5 DEF JInv, WaitsOnSlot, JoinedNotForgotten, Live
  <2>7. WaitsOnSlot'
    BY <2>6 DEF WaitsOnSlot
  <2>8. active' # 0
    BY <2>2 DEF Slots
  <2>9. JoinedNotForgotten'
    BY <2>1, <2>2, <2>3, <2>5, <2>6, <2>8 DEF JInv, JoinedNotForgotten, Current
  <2>10. QED
    BY <2>4, <2>7, <2>9 DEF JInv
<1>7. CASE (Settle(k, exit) /\ SettleIdle(k, exit)) \/ SettleDetached(k, exit)
  <2>1. callers' = Completed(k, exit, TRUE) /\ entries' = [entries EXCEPT ![k] = Free] /\ active' = 0
        /\ (k = active \/ closed)
    BY <1>1, <1>3, <1>7 DEF Settle, SettleIdle, SettleDetached, OneOwner
  <2>2. \A j \in Slots : ~ Live(j)'
    BY <1>1, <2>1, FreedStep
  <2>3. \A c \in Callers :
          /\ callers'[c].at = "waiter" =>
                callers[c].at = "waiter" /\ ~ AnswersWaiter(entries[k])
          /\ callers'[c].at \in {"done", "settled"} =>
                /\ callers[c].at = callers'[c].at /\ callers'[c].slot = callers[c].slot
                /\ callers[c].slot # k
    BY <1>1, <2>1, CompletedCalls
  <2>4. \A c \in Callers : callers'[c].at \notin {"done", "settled"}
    BY <1>1, <2>3 DEF JInv, WaitsOnSlot, JoinedNotForgotten, OneOwner, AtMostOneDrain, Live
  <2>5. \A c \in Callers : callers'[c].at # "waiter"
    <3>1. CASE Settle(k, exit) /\ SettleIdle(k, exit)
      BY <1>4, <2>1, <2>3, <3>1 DEF Settle, SettleIdle, JInv, JoinedNotForgotten, Current
    <3>2. CASE SettleDetached(k, exit)
      BY <1>1, <1>3, <2>3, <3>2 DEF SettleDetached, OneOwner, JInv, JoinedNotForgotten
    <3>3. QED
      BY <1>7, <3>1, <3>2
  <2>6. QED
    BY <2>2, <2>4, <2>5 DEF JInv, WaiterHeld, WaitsOnSlot, JoinedNotForgotten
<1>8. QED
  BY <1>5, <1>6, <1>7 DEF Settle

LEMMA BeginJoined == ASSUME IInv, JInv, NEW k \in Slots, Begin(k) PROVE JInv'
<1>1. entries[k] \in Entries /\ UNCHANGED <<active, callers>>
  BY DEF Begin, IInv, TypeOK
<1>2. /\ \A j \in Slots : j # k => entries'[j] = entries[j]
      /\ entries'[k] = [entries[k] EXCEPT !.phase = "draining"]
  BY DEF Begin, IInv, TypeOK
<1>3. /\ entries'[k].phase = "draining" /\ entries[k].phase = "queued"
      /\ entries'[k].waiter = entries[k].waiter /\ entries'[k].pending = entries[k].pending
      /\ entries'[k].current = entries[k].current /\ entries'[k].stopping = entries[k].stopping
  BY <1>1, <1>2 DEF Begin, Entries
<1>4. WaiterHeld'
  <2>1. ASSUME NEW j \in Slots
        PROVE  /\ entries'[j].waiter = entries[j].waiter
               /\ entries'[j].pending = entries[j].pending
               /\ entries'[j].current = entries[j].current
               /\ entries'[j].stopping = entries[j].stopping
               /\ Live(j)' => Live(j)
    BY <1>2, <1>3 DEF Live
  <2>2. QED
    BY <2>1, Zenon DEF JInv, WaiterHeld
<1>5. \A j \in Slots : (Live(j)' <=> Live(j)) /\ entries'[j].waiter = entries[j].waiter
  BY <1>2, <1>3 DEF Live
<1>6. QED
  BY <1>1, <1>4, <1>5, JoinedKept

LEMMA InterruptJoined == ASSUME IInv, JInv, NEW s \in Seqs, Interrupt(s) PROVE JInv'
<1>1. UNCHANGED <<active, closed, callers>>
  BY DEF Interrupt
<1>2. CASE UNCHANGED entries
  BY <1>1, <1>2 DEF JInv, WaiterHeld, WaitsOnSlot, JoinedNotForgotten, Live, Current
<1>3. CASE InterruptStops(s)
  <2>1. /\ active \in Slots
        /\ \A j \in Slots : j # active => entries'[j] = entries[j]
        /\ entries'[active].phase = entries[active].phase
        /\ entries'[active].waiter = entries[active].waiter
        /\ entries'[active].stopping
    BY <1>1, <1>3, InterruptEntry
  <2>2. WaiterHeld'
    BY <2>1 DEF JInv, WaiterHeld, Live
  <2>3. \A j \in Slots : (Live(j)' <=> Live(j)) /\ entries'[j].waiter = entries[j].waiter
    BY <2>1 DEF Live
  <2>4. QED
    BY <1>1, <2>2, <2>3, JoinedKept
<1>4. QED
  BY <1>2, <1>3 DEF Interrupt, InterruptStale, InterruptIdle, InterruptSpares

LEMMA OthersJoined ==
    ASSUME IInv, JInv, Close \/ Restart \/ \E c \in Callers : Leave(c) PROVE JInv'
<1>1. UNCHANGED entries
  BY DEF Close, Restart, Leave
<1>2. CASE Close
  <2>1. \A c \in Callers : callers'[c].at # "waiter" /\ callers'[c].at # "done"
    BY <1>2 DEF Close
  <2>2. \A c \in Callers : callers'[c].at = "settled" => callers'[c] = callers[c]
    BY <1>2 DEF Close
  <2>3. QED
    BY <1>1, <2>1, <2>2 DEF JInv, WaiterHeld, WaitsOnSlot, JoinedNotForgotten, Live
<1>3. CASE Restart
  BY <1>1, <1>3 DEF Restart, JInv, WaiterHeld, WaitsOnSlot, JoinedNotForgotten, Live, Current
<1>4. CASE \E c \in Callers : Leave(c)
  <2>1. PICK c \in Callers : Leave(c)
    BY <1>4
  <2>2. UNCHANGED active /\ callers'[c].at = "away"
        /\ \A d \in Callers : d # c => callers'[d] = callers[d]
    BY <2>1 DEF Leave, Place, IInv, TypeOK
  <2>3. QED
    BY <1>1, <2>2 DEF JInv, WaiterHeld, WaitsOnSlot, JoinedNotForgotten, Live, Current
<1>5. QED
  BY <1>2, <1>3, <1>4

LEMMA InitJoined == ASSUME Init PROVE JInv
<1>1. \A k \in Slots : entries[k].phase = "free"
  BY DEF Init, Free, MakeEntry
<1>2. \A c \in Callers : callers[c].at = "away"
  BY DEF Init
<1>3. QED
  BY <1>1, <1>2 DEF JInv, WaiterHeld, WaitsOnSlot, JoinedNotForgotten, Live

LEMMA StepJoined == ASSUME IInv, JInv, [Next]_vars PROVE JInv'
<1>1. CASE UNCHANGED vars
  BY <1>1 DEF vars, JInv, WaiterHeld, WaitsOnSlot, JoinedNotForgotten, Live, Current
<1>2. CASE Next
  BY <1>2, WakeJoined, InterruptJoined, RunJoined, OthersJoined, BeginJoined, SettleJoined DEF Next
<1>3. QED
  BY <1>1, <1>2

LEMMA SpecJoined == Spec => []JInv
<1>1. Init => JInv
  BY InitJoined
<1>2. IInv /\ JInv /\ [Next]_vars => JInv'
  BY StepJoined
<1>3. QED
  BY <1>1, <1>2, SpecInv, PTL DEF Spec

\* A caller that joined a chain is held by a live entry until it is answered:
\* settlements, failures, interrupts and the end of the process forget no one.
THEOREM NoCallerForgotten == Spec => []JoinedNotForgotten
BY SpecJoined, PTL DEF JInv

----------------------------------------------------------------------------
(* An answer of success means an explicit drain succeeded.                 *)

\* Nobody waits while no fiber lives.
LEMMA NobodyWaits ==
    ASSUME IInv, JInv, active = 0, ~ closed, NEW c \in Callers
    PROVE  callers[c].at \notin {"done", "settled", "waiter"}
BY DEF IInv, OneOwner, Live, JInv, WaitsOnSlot, JoinedNotForgotten, Slots

\* The call of c alone is placed anew.
LEMMA Placed ==
    ASSUME TypeOK, NEW c \in Callers, NEW at, NEW slot, Place(c, at, slot)
    PROVE  /\ callers'[c].at = at /\ callers'[c].slot = slot
           /\ \A d \in Callers : d # c => callers'[d] = callers[d]
BY DEF Place, TypeOK

LEMMA ForcedKept ==
    ASSUME IInv, JInv, FInv, UNCHANGED callers,
           \A k \in Slots : Live(k) => entries'[k].current = entries[k].current
    PROVE  FInv'
BY DEF FInv, JoinedForced, AnswerMeansForced, JInv, WaitsOnSlot, JoinedNotForgotten, Live

LEMMA WakeForced == ASSUME IInv, JInv, FInv, NEW s \in Seqs, Wake(s) PROVE FInv'
<1>1. UNCHANGED callers
  BY DEF Wake
<1>2. CASE WakeIgnored(s)
  BY <1>1, <1>2, ForcedKept DEF WakeIgnored
<1>3. CASE WakeAccepted(s) /\ WakeStarts(s)
  <2>1. \A k \in Slots : ~ Live(k)
    BY <1>3, SpareFree DEF WakeAccepted, WakeStarts
  <2>2. QED
    BY <1>1, <2>1, ForcedKept
<1>4. CASE WakeAccepted(s) /\ WakeFollows(s)
  <2>1. \A k \in Slots : entries[k] \in Entries /\ active \in Slots
    BY <1>4 DEF WakeFollows, IInv, TypeOK
  <2>2. \A k \in Slots : entries'[k].current = entries[k].current
    BY <1>4, <2>1 DEF WakeFollows, IInv, TypeOK, Entries
  <2>3. QED
    BY <1>1, <2>2, ForcedKept
<1>5. QED
  BY <1>2, <1>3, <1>4 DEF Wake

LEMMA RunForced == ASSUME IInv, JInv, FInv, NEW c \in Callers, Run(c) PROVE FInv'
<1>1. TypeOK
  BY DEF IInv
<1>2. CASE RunStarts(c)
  <2>1. Spare \in Slots /\ active = 0 /\ ~ closed
    BY <1>2, SpareFree DEF RunStarts
  <2>2. callers'[c].at = "done" /\ callers'[c].slot = Spare
        /\ \A d \in Callers : d # c => callers'[d] = callers[d]
    BY <1>1, <1>2, Placed DEF RunStarts
  <2>3. entries'[Spare].current = RunDemand
    BY <1>1, <1>2, <2>1 DEF RunStarts, StartIdle, TypeOK, MakeEntry
  <2>4. \A d \in Callers : callers[d].at # "done"
    BY <2>1, NobodyWaits
  <2>5. QED
    BY <2>2, <2>3, <2>4 DEF FInv, JoinedForced, AnswerMeansForced, RunDemand
<1>3. CASE RunUpgrades(c)
  <2>1. callers'[c].at = "waiter" /\ \A d \in Callers : d # c => callers'[d] = callers[d]
    BY <1>1, <1>3, Placed DEF RunUpgrades
  <2>2. \A k \in Slots : entries[k] \in Entries /\ active \in Slots
    BY <1>1, <1>3 DEF RunUpgrades, TypeOK
  <2>3. \A k \in Slots : entries'[k].current = entries[k].current
    BY <1>1, <1>3, <2>2 DEF RunUpgrades, TypeOK, Entries
  <2>4. QED
    BY <2>1, <2>3 DEF FInv, JoinedForced, AnswerMeansForced, JInv, WaitsOnSlot
<1>4. CASE RunClosed(c) \/ RunRetries(c)
  <2>1. UNCHANGED entries /\ callers'[c].at \in {"failed", "settled"}
        /\ \A d \in Callers : d # c => callers'[d] = callers[d]
    BY <1>1, <1>4, Placed DEF RunClosed, RunRetries
  <2>2. QED
    BY <2>1 DEF FInv, JoinedForced, AnswerMeansForced
<1>5. CASE RunJoins(c)
  <2>1. UNCHANGED entries /\ callers'[c].at = "done" /\ callers'[c].slot = active
        /\ \A d \in Callers : d # c => callers'[d] = callers[d]
    BY <1>1, <1>5, Placed DEF RunJoins
  <2>2. entries[active].current.tag = "run"
    BY <1>5 DEF RunJoins, Current
  <2>3. QED
    BY <2>1, <2>2 DEF FInv, JoinedForced, AnswerMeansForced
<1>6. QED
  BY <1>2, <1>3, <1>4, <1>5 DEF Run

LEMMA SettleForced ==
    ASSUME IInv, JInv, FInv, NEW k \in Slots, NEW exit \in Exits,
           Settle(k, exit) \/ SettleDetached(k, exit)
    PROVE  FInv'
<1>1. Live(k) /\ (entries[k].stopping => exit = "failed") /\ (closed => exit = "failed")
  BY DEF Settle, SettleDetached, MayExit, Live
<1>2. PICK over \in BOOLEAN : /\ callers' = Completed(k, exit, over)
                              /\ ~ over => exit = "ok"
  BY DEF Settle, SettleDetached, SettleRestart, SettleIdle, SettleSuccessor
\* Whoever joined a chain joined the entry that settles.
<1>3. \A c \in Callers : callers[c].at = "done" => callers[c].slot = k
  BY <1>1 DEF IInv, OneOwner, AtMostOneDrain, JInv, WaitsOnSlot, JoinedNotForgotten, Live
<1>4. ASSUME NEW c \in Callers PROVE /\ callers'[c].at = "ok" => callers'[c].forced
                                     /\ callers'[c].at = "done" => callers'[c].forced
  <2> DEFINE forced == callers[c].forced \/ (/\ \/ callers[c].at \in {"done", "settled"} /\ callers[c].slot = k
                                                \/ callers[c].at = "waiter"
                                             /\ entries[k].current.tag = "run"
                                             /\ exit = "ok")
  <2>1. CASE callers[c].at = "waiter" /\ AnswersWaiter(entries[k])
    <3>1. callers'[c].at = exit /\ callers'[c].forced = forced
      BY <1>2, <2>1 DEF Completed
    <3>2. exit = "ok" => forced
      BY <1>1, <2>1 DEF AnswersWaiter
    <3>3. QED
      BY <3>1, <3>2 DEF Exits
  <2>2. CASE callers[c].at = "done"
    <3>1. callers[c].slot = k /\ (callers[c].forced \/ entries[k].current.tag = "run")
      BY <1>3, <2>2 DEF FInv, JoinedForced
    <3>2. exit = "ok" => forced
      BY <2>2, <3>1
    <3>3. over => callers'[c].at = exit /\ callers'[c].forced = forced
      BY <1>2, <2>2, <3>1 DEF Completed
    <3>4. ~ over => callers'[c].forced = forced
      BY <1>2, <2>2, <3>1 DEF Completed, IInv, TypeOK, Calls
    <3>5. QED
      BY <1>2, <3>2, <3>3, <3>4 DEF Exits
  <2>3. CASE callers[c].at \notin {"waiter", "done"} \/ (callers[c].at = "waiter" /\ ~ AnswersWaiter(entries[k]))
    <3>1. callers[c] \in Calls
      BY DEF IInv, TypeOK
    <3>2. callers'[c].at = callers[c].at \/ callers'[c].at = "again"
      BY <1>2, <2>3, <3>1 DEF Completed, Calls
    <3>3. callers[c].at = "ok" => callers'[c] = [callers[c] EXCEPT !.forced = forced]
      BY <1>2, <2>3 DEF Completed
    <3>4. callers[c].at = "ok" => callers[c].forced
      BY DEF FInv, AnswerMeansForced
    <3>5. callers[c].at = "ok" => callers'[c].forced
      BY <3>1, <3>3, <3>4 DEF Calls
    <3>6. callers'[c].at # "done"
      BY <2>3, <3>2
    <3>7. QED
      BY <3>2, <3>5, <3>6
  <2>4. QED
    BY <2>1, <2>2, <2>3
<1>5. QED
  BY <1>4 DEF FInv, JoinedForced, AnswerMeansForced

LEMMA OthersForced ==
    ASSUME IInv, JInv, FInv,
           \/ \E k \in Slots : Begin(k)
           \/ \E s \in Seqs : Interrupt(s)
           \/ Close \/ Restart \/ \E c \in Callers : Leave(c)
    PROVE  FInv'
<1>1. CASE \E k \in Slots : Begin(k)
  <2>1. PICK k \in Slots : Begin(k)
    BY <1>1
  <2>2. \A j \in Slots : entries[j] \in Entries
    BY DEF IInv, TypeOK
  <2>3. \A j \in Slots : entries'[j].current = entries[j].current
    BY <2>1, <2>2 DEF Begin, IInv, TypeOK, Entries
  <2>4. QED
    BY <2>1, <2>3, ForcedKept DEF Begin
<1>2. CASE \E s \in Seqs : Interrupt(s)
  <2>1. PICK s \in Seqs : Interrupt(s)
    BY <1>2
  <2>2. UNCHANGED <<active, closed, callers>>
    BY <2>1 DEF Interrupt
  <2>3. CASE UNCHANGED entries
    BY <2>2, <2>3, ForcedKept
  <2>4. CASE InterruptStops(s)
    <3>1. \A j \in Slots : entries'[j].current = entries[j].current
      BY <2>2, <2>4, InterruptEntry
    <3>2. QED
      BY <2>2, <3>1, ForcedKept
  <2>5. QED
    BY <2>1, <2>3, <2>4 DEF Interrupt, InterruptStale, InterruptIdle, InterruptSpares
<1>3. CASE Close
  <2>1. \A c \in Callers : /\ callers'[c].at # "done"
                           /\ callers'[c].at = "ok" => callers'[c] = callers[c]
    BY <1>3 DEF Close
  <2>2. QED
    BY <2>1 DEF FInv, JoinedForced, AnswerMeansForced
<1>4. CASE Restart
  BY <1>4, ForcedKept DEF Restart
<1>5. CASE \E c \in Callers : Leave(c)
  <2>1. PICK c \in Callers : Leave(c)
    BY <1>5
  <2>2. UNCHANGED entries /\ callers'[c].at = "away"
        /\ \A d \in Callers : d # c => callers'[d] = callers[d]
    BY <2>1, Placed DEF Leave, IInv
  <2>3. QED
    BY <2>2 DEF FInv, JoinedForced, AnswerMeansForced
<1>6. QED
  BY <1>1, <1>2, <1>3, <1>4, <1>5

LEMMA StepForced == ASSUME IInv, JInv, FInv, [Next]_vars PROVE FInv'
<1>1. CASE UNCHANGED vars
  BY <1>1 DEF vars, FInv, JoinedForced, AnswerMeansForced
<1>2. CASE Next
  BY <1>2, WakeForced, RunForced, SettleForced, OthersForced DEF Next
<1>3. QED
  BY <1>1, <1>2

\* Who is told of a success waited through the success of an explicit drain.
THEOREM SuccessMeansForced == Spec => []AnswerMeansForced
<1>1. Init => FInv
  BY DEF Init, FInv, JoinedForced, AnswerMeansForced
<1>2. IInv /\ JInv /\ FInv /\ [Next]_vars => FInv'
  BY StepForced
<1>3. FInv => AnswerMeansForced
  BY DEF FInv
<1>4. QED
  BY <1>1, <1>2, <1>3, SpecInv, SpecJoined, PTL DEF Spec

----------------------------------------------------------------------------
(* A wake that was accepted is followed by a drain.                        *)

Orderly == InOrder \/ Callers = {}

LEMMA WakeDemandKept == ASSUME IInv, DInv, Orderly, NEW s \in Seqs, Wake(s) PROVE DInv'
<1>1. WakeDemand(s) \in Demands /\ WakeDemand(s) # NoDemand
      /\ WakeDemand(s).tag = "wake" /\ WakeDemand(s).seq = s
  BY DemandTypes DEF WakeDemand, NoDemand
<1>2. CASE WakeIgnored(s)
  BY <1>2 DEF WakeIgnored, DInv, DemandKept, NoRun, Covered, Current
<1>3. CASE WakeAccepted(s) /\ WakeStarts(s)
  <2>1. unserved' = {} /\ active = 0 /\ ~ closed
    BY <1>3 DEF WakeStarts, StartIdle, WakeAccepted
  <2>2. Spare \in Slots
    BY <2>1, SpareFree
  <2>3. \A k \in Slots : entries'[k] = IF k = Spare THEN MakeEntry("draining", WakeDemand(s), FALSE)
                                       ELSE entries[k]
    BY <1>3, <2>2 DEF WakeStarts, StartIdle, IInv, TypeOK
  <2>4. ~ InOrder => NoRun'
    BY <1>1, <2>3 DEF DInv, NoRun, MakeEntry, NoDemand
  <2>5. QED
    BY <2>1, <2>4 DEF DInv, DemandKept, Covered
<1>4. CASE WakeAccepted(s) /\ WakeFollows(s)
  <2>1. active \in Slots /\ entries[active] \in Entries /\ active' = active /\ active # 0
        /\ unserved' = unserved \cup {s}
    BY <1>4 DEF WakeFollows, IInv, TypeOK
  <2> DEFINE next == Coalesce(entries[active].pending, WakeDemand(s))
  <2>2. /\ \A k \in Slots : k # active => entries'[k] = entries[k]
        /\ entries'[active] = [entries[active] EXCEPT !.pending = next]
    BY <1>4, <2>1 DEF WakeFollows, IInv, TypeOK
  <2>3. /\ entries'[active].phase = entries[active].phase
        /\ entries'[active].stopping = entries[active].stopping
        /\ entries'[active].current = entries[active].current
        /\ entries'[active].pending = next
    BY <2>1, <2>2 DEF Entries
  <2>4. next # NoDemand /\ entries[active].pending \in Demands
    BY <1>1, <2>1, CoalesceType DEF Entries
  <2>5. DemandKept'
    BY <2>1, <2>3, <2>4 DEF DemandKept, Current
  <2>6. ASSUME ~ InOrder PROVE NoRun' /\ Covered'
    <3>1. entries[active].pending.tag # "run" /\ NoRun /\ Covered
      BY <2>1, <2>6 DEF DInv, NoRun
    <3>2. next = WakeDemand(MaxOf(entries[active].pending.seq, s))
      BY <1>1, <3>1 DEF Coalesce
    <3>3. next.tag = "wake" /\ next.seq = MaxOf(entries[active].pending.seq, s)
      BY <3>2 DEF WakeDemand
    <3>4. entries[active].pending.seq \in 0 .. MaxSeq
      BY <2>4, DemandTypes
    <3>5. next.seq >= s /\ next.seq >= entries[active].pending.seq
          /\ next.seq \in Int /\ entries[active].pending.seq \in Int
      BY <3>3, <3>4, SeqAssumption DEF MaxOf, Seqs
    <3>6. NoRun'
      BY <2>2, <2>3, <3>1, <3>3 DEF NoRun
    <3>7. \A u \in unserved : u \in Seqs
      BY DEF IInv, TypeOK
    <3>8. ASSUME NEW u \in unserved'
          PROVE  \/ /\ entries'[active].phase = "queued" /\ ~ entries'[active].stopping
                    /\ entries'[active].current.seq >= u
                 \/ entries'[active].pending.tag = "wake" /\ entries'[active].pending.seq >= u
      BY <2>1, <2>3, <3>1, <3>3, <3>5, <3>7, <3>8, SeqAssumption DEF Covered, Current, Seqs
    <3>9. QED
      BY <2>1, <3>6, <3>8 DEF Covered, Current
  <2>7. QED
    BY <2>5, <2>6 DEF DInv
<1>5. QED
  BY <1>2, <1>3, <1>4 DEF Wake

LEMMA RunDemandKept == ASSUME IInv, DInv, Orderly, NEW c \in Callers, Run(c) PROVE DInv'
<1>1. InOrder
  BY DEF Orderly
<1>2. CASE RunClosed(c) \/ RunRetries(c) \/ RunJoins(c)
  BY <1>1, <1>2 DEF RunClosed, RunRetries, RunJoins, DInv, DemandKept, Current
<1>3. CASE RunStarts(c)
  BY <1>1, <1>3 DEF RunStarts, StartIdle, DInv, DemandKept
<1>4. CASE RunUpgrades(c)
  <2>1. active \in Slots /\ entries[active] \in Entries /\ active' = active /\ active # 0
    BY <1>4 DEF RunUpgrades, IInv, TypeOK
  <2>2. RunDemand \in Demands /\ RunDemand # NoDemand
    BY DemandTypes DEF RunDemand, NoDemand
  <2>3. entries'[active].pending = Coalesce(entries[active].pending, RunDemand)
    BY <1>4, <2>1 DEF RunUpgrades, IInv, TypeOK, Entries
  <2>4. entries'[active].pending # NoDemand
    BY <2>1, <2>2, <2>3, CoalesceType DEF Entries
  <2>5. QED
    BY <1>1, <2>1, <2>4 DEF DInv, DemandKept, Current
<1>5. QED
  BY <1>2, <1>3, <1>4 DEF Run

\* What a settlement leaves owed is owed to the follow-up of the entry.
LEMMA SettleDemandKept ==
    ASSUME IInv, DInv, NEW k \in Slots, NEW exit \in Exits,
           Settle(k, exit) \/ SettleDetached(k, exit)
    PROVE  DInv'
<1>1. Live(k) /\ unserved' = unserved /\ UNCHANGED closed
      /\ (entries[k].phase = "queued" => entries[k].stopping \/ closed)
  BY DEF Settle, SettleDetached, MayExit, Live
<1>2. \A j \in Slots : entries[j] \in Entries
  BY DEF IInv, TypeOK
<1>3. CASE Settle(k, exit) /\ SettleRestart(k, exit)
  <2>1. k = active /\ ~ closed /\ k # 0
    BY <1>3 DEF Settle, Slots
  <2>2. /\ active' = active
        /\ entries' = [entries EXCEPT ![k] = entries'[k]]
        /\ entries'[k].phase = "queued"
        /\ entries'[k].current = entries[k].pending
        /\ entries'[k].pending = NoDemand
        /\ entries'[k].stopping = entries[k].stopping
    BY <1>1, <1>3, <2>1, RestartStep
  <2>3. ~ entries[k].stopping
    BY <1>3 DEF SettleRestart
  <2>4. DemandKept'
    BY <2>1, <2>2, <2>3 DEF DemandKept, Current
  <2>5. ASSUME ~ InOrder PROVE NoRun' /\ Covered'
    <3>1. \A j \in Slots : j # k => entries'[j] = entries[j]
      BY <2>2 DEF IInv, TypeOK
    <3>2. NoRun /\ Covered
      BY <2>5 DEF DInv
    <3>3. NoRun'
      BY <2>2, <3>1, <3>2 DEF NoRun, NoDemand
    <3>4. Covered'
      BY <1>1, <2>1, <2>2, <2>3, <3>2 DEF Covered, Current
    <3>5. QED
      BY <3>3, <3>4
  <2>6. QED
    BY <2>4, <2>5 DEF DInv
<1>4. CASE Settle(k, exit) /\ SettleSuccessor(k, exit)
  <2>1. k = active /\ ~ closed
    BY <1>4 DEF Settle
  <2>2. /\ active' = 3 - k /\ 3 - k \in Slots /\ 3 - k # k
        /\ entries'[k] = Free
        /\ entries'[3 - k] = MakeEntry("queued", entries[k].pending,
                                       entries[k].waiter /\ ~ AnswersWaiter(entries[k]))
    BY <1>1, <1>4, <2>1, SuccessorStep
  <2>3. /\ entries'[3 - k].phase = "queued" /\ ~ entries'[3 - k].stopping
        /\ entries'[3 - k].current = entries[k].pending
        /\ entries'[3 - k].pending = NoDemand
        /\ Free.current = NoDemand /\ Free.pending = NoDemand
        /\ \A j \in Slots : j = k \/ j = 3 - k
    BY <2>2 DEF MakeEntry, Free, Slots
  <2>4. active' # 0
    BY <2>2 DEF Slots
  <2>5. DemandKept'
    BY <2>2, <2>3, <2>4 DEF DemandKept, Current
  <2>6. ASSUME ~ InOrder PROVE NoRun' /\ Covered'
    <3>1. NoRun /\ Covered
      BY <2>6 DEF DInv
    <3>2. NoRun'
      BY <2>2, <2>3, <3>1 DEF NoRun, NoDemand
    <3>3. Covered'
      BY <1>1, <2>1, <2>2, <2>3, <2>4, <3>1 DEF Covered, Current
    <3>4. QED
      BY <3>2, <3>3
  <2>7. QED
    BY <2>5, <2>6 DEF DInv
<1>5. CASE (Settle(k, exit) /\ SettleIdle(k, exit)) \/ SettleDetached(k, exit)
  <2>1. entries' = [entries EXCEPT ![k] = Free]
    BY <1>5 DEF Settle, SettleIdle, SettleDetached
  <2>2. unserved = {}
    <3>1. CASE Settle(k, exit) /\ SettleIdle(k, exit)
      BY <1>1, <3>1 DEF Settle, SettleIdle, DInv, DemandKept, Current
    <3>2. CASE SettleDetached(k, exit)
      BY <1>1, <3>2 DEF SettleDetached, IInv, OneOwner, DInv, DemandKept
    <3>3. QED
      BY <1>5, <3>1, <3>2
  <2>3. \A j \in Slots : entries'[j] = IF j = k THEN Free ELSE entries[j]
    BY <2>1 DEF IInv, TypeOK
  <2>4. ~ InOrder => NoRun'
    BY <2>3 DEF DInv, NoRun, Free, MakeEntry, NoDemand
  <2>5. QED
    BY <1>1, <2>2, <2>4 DEF DInv, DemandKept, Covered
<1>6. QED
  BY <1>3, <1>4, <1>5 DEF Settle

LEMMA InterruptDemandKept == ASSUME IInv, DInv, NEW s \in Seqs, Interrupt(s) PROVE DInv'
<1>1. UNCHANGED <<active, closed>>
  BY DEF Interrupt
<1>2. \A u \in unserved : u \in Seqs
  BY DEF IInv, TypeOK
<1>3. CASE InterruptStale(s)
  BY <1>1, <1>3 DEF InterruptStale, DInv, DemandKept, NoRun, Covered, Current
<1>4. CASE ~ InterruptStale(s) /\ (InterruptIdle \/ InterruptSpares(s))
  <2>1. UNCHANGED entries /\ unserved' = {u \in unserved : u > s}
    BY <1>4 DEF Interrupt, InterruptIdle, InterruptSpares, InterruptStale
  <2>2. QED
    BY <1>1, <2>1 DEF DInv, DemandKept, NoRun, Covered, Current
<1>5. CASE InterruptStops(s) /\ unserved' = {u \in unserved : u > s}
  <2>1. /\ active \in Slots
        /\ \A j \in Slots : j # active => entries'[j] = entries[j]
        /\ entries'[active].phase = entries[active].phase
        /\ entries'[active].current = entries[active].current
        /\ entries'[active].pending = Suppressed(entries[active].pending, s)
    BY <1>1, <1>5, InterruptEntry
  <2>2. CASE InOrder
    <3>1. unserved' = {}
      BY <1>2, <1>5, <2>2 DEF Interrupt, Seqs
    <3>2. QED
      BY <2>2, <3>1 DEF DInv, DemandKept
  <2>3. CASE ~ InOrder
    <3>1. NoRun /\ Covered
      BY <2>3 DEF DInv
    <3>2. entries[active] \in Entries
      BY <2>1 DEF IInv, TypeOK
    <3>3. entries[active].pending \in Demands /\ entries[active].current \in Demands
      BY <3>2 DEF Entries
    <3>4. ASSUME NEW u \in unserved, u > s
          PROVE  /\ entries[active].pending.tag = "wake" /\ entries[active].pending.seq >= u
                 /\ entries'[active].pending = entries[active].pending
      <4>1. entries[active].pending.seq \in Int /\ entries[active].current.seq \in Int
            /\ u \in Int /\ s \in Int
        BY <1>2, <3>3, DemandTypes, SeqAssumption DEF Seqs
      <4>2. entries[active].current.tag = "wake" \/ entries[active].phase = "free"
        BY <2>1, <3>1, <3>3, DemandTypes DEF NoRun, IInv, Demanded, Live
      <4>3. ~ (entries[active].phase = "queued" /\ entries[active].current.seq >= u)
        BY <1>5, <3>4, <4>1, <4>2 DEF InterruptStops, NewerWakeActive, Current
      <4>4. entries[active].pending.tag = "wake" /\ entries[active].pending.seq >= u
        BY <3>1, <4>3 DEF Covered, Current
      <4>5. QED
        BY <2>1, <3>4, <4>1, <4>4 DEF Suppressed
    <3>5. Covered'
      BY <1>1, <1>5, <2>1, <3>1, <3>4 DEF Covered, Current
    <3>6. NoRun'
      BY <2>1, <3>1 DEF NoRun, Suppressed, NoDemand
    <3>7. DemandKept'
      <4>1. ASSUME NEW u \in unserved, u > s
            PROVE  active # 0 /\ entries'[active].pending # NoDemand
        BY <3>1, <3>4, <4>1 DEF Covered, NoDemand
      <4>2. QED
        BY <1>1, <1>5, <4>1 DEF DemandKept, Current
    <3>8. QED
      BY <2>3, <3>5, <3>6, <3>7 DEF DInv
  <2>4. QED
    BY <2>2, <2>3
<1>6. QED
  BY <1>3, <1>4, <1>5 DEF Interrupt

LEMMA OthersDemandKept ==
    ASSUME IInv, DInv,
           \/ \E k \in Slots : Begin(k)
           \/ Close \/ Restart \/ \E c \in Callers : Leave(c)
    PROVE  DInv'
<1>1. CASE \E k \in Slots : Begin(k)
  <2>1. PICK k \in Slots : Begin(k)
    BY <1>1
  <2>2. \A j \in Slots : entries[j] \in Entries
    BY DEF IInv, TypeOK
  <2>3. \A j \in Slots : entries'[j].current = entries[j].current
                         /\ entries'[j].pending = entries[j].pending
    BY <2>1, <2>2 DEF Begin, IInv, TypeOK, Entries
  <2>4. unserved' = {}
    BY <2>1 DEF Begin
  <2>5. QED
    BY <2>3, <2>4 DEF DInv, DemandKept, NoRun, Covered
<1>2. CASE Close
  BY <1>2 DEF Close, DInv, DemandKept, NoRun, Covered
<1>3. CASE Restart \/ \E c \in Callers : Leave(c)
  BY <1>3 DEF Restart, Leave, DInv, DemandKept, NoRun, Covered, Current
<1>4. QED
  BY <1>1, <1>2, <1>3

LEMMA StepDemandKept == ASSUME IInv, DInv, Orderly, [Next]_vars PROVE DInv'
<1>1. CASE UNCHANGED vars
  BY <1>1 DEF vars, DInv, DemandKept, NoRun, Covered, Current
<1>2. CASE Next
  BY <1>2, WakeDemandKept, RunDemandKept, SettleDemandKept, InterruptDemandKept, OthersDemandKept
  DEF Next
<1>3. QED
  BY <1>1, <1>2

LEMMA InitDemandKept == ASSUME Init PROVE DInv
<1>1. \A k \in Slots : entries[k].current = NoDemand /\ entries[k].pending = NoDemand
  BY DEF Init, Free, MakeEntry
<1>2. QED
  BY <1>1 DEF Init, DInv, DemandKept, NoRun, Covered, NoDemand

LEMMA SpecDemandKept == ASSUME Orderly PROVE Spec => []DInv
<1>1. Init => DInv
  BY InitDemandKept
<1>2. IInv /\ DInv /\ [Next]_vars => DInv'
  BY StepDemandKept
<1>3. QED
  BY <1>1, <1>2, SpecInv, PTL DEF Spec

\* No accepted wake is lost as long as an interrupt does not overtake the wakes
\* that follow it, or nobody asks for an explicit run.
THEOREM NoWakeLost == ASSUME Orderly PROVE Spec => []DemandKept
BY SpecDemandKept, PTL DEF DInv

----------------------------------------------------------------------------
(* The coordinator implements the lane.                                    *)

LEMMA LaneOf ==
    ASSUME IInv, NEW k \in Slots, Live(k)
    PROVE  LaneState = entries[k].phase
<1>1. \A j \in Slots : Live(j) => j = k
  BY DEF IInv, OneOwner, AtMostOneDrain, Live
<1>2. entries[k].phase \in {"queued", "draining"}
  BY DEF IInv, TypeOK, Entries, Live
<1>3. QED
  BY <1>1, <1>2 DEF LaneState, Live

LEMMA IdleLane == ASSUME \A k \in Slots : ~ Live(k) PROVE LaneState = "idle"
BY DEF LaneState, Live

LEMMA OpenStep ==
    ASSUME IInv, active = 0, ~ closed, NEW d \in Demands, StartIdle(d), UNCHANGED boundary
    PROVE  Lane!Open
<1>1. Spare \in Slots /\ \A k \in Slots : ~ Live(k)
  BY SpareFree
<1>2. entries'[Spare].phase = "draining"
  BY <1>1 DEF StartIdle, IInv, TypeOK, MakeEntry
<1>3. LaneState' = "draining"
  BY <1>1, <1>2 DEF LaneState
<1>4. LaneState = "idle"
  BY <1>1, IdleLane
<1>5. QED
  BY <1>3, <1>4 DEF Lane!Open, StartIdle

LEMMA SameLane ==
    ASSUME \A k \in Slots : entries'[k].phase = entries[k].phase
    PROVE  LaneState' = LaneState
BY DEF LaneState

LEMMA WakeLane ==
    ASSUME IInv, NEW s \in Seqs, Wake(s) PROVE [Lane!Next]_Lane!vars
<1>1. UNCHANGED <<boundary, closed>>
  BY DEF Wake
<1>2. CASE WakeIgnored(s)
  BY <1>1, <1>2, SameLane DEF WakeIgnored, Lane!vars
<1>3. CASE WakeAccepted(s) /\ WakeStarts(s)
  <2>1. WakeDemand(s) \in Demands
    BY DemandTypes
  <2>2. Lane!Open
    BY <1>1, <1>3, <2>1, OpenStep DEF WakeStarts, WakeAccepted
  <2>3. QED
    BY <2>2 DEF Lane!Next
<1>4. CASE WakeAccepted(s) /\ WakeFollows(s)
  <2>1. active \in Slots /\ entries[active] \in Entries /\ Live(active)
    BY <1>4 DEF WakeFollows, IInv, TypeOK, OneOwner
  <2>2. \A k \in Slots : entries[k] \in Entries
    BY DEF IInv, TypeOK
  <2>3. \A k \in Slots : entries'[k].phase = entries[k].phase
    BY <1>4, <2>1, <2>2 DEF WakeFollows, IInv, TypeOK, Entries
  <2>4. LaneState' = LaneState /\ LaneState # "idle"
    BY <2>1, <2>2, <2>3, SameLane, LaneOf DEF Entries, Live
  <2>5. s > boundary
    BY <1>4, SeqAssumption DEF WakeAccepted, Seqs
  <2>6. unserved' = unserved \cup {s}
    BY <1>4 DEF WakeFollows
  <2>7. Lane!Accept(s)
    BY <1>1, <2>4, <2>5, <2>6 DEF Lane!Accept
  <2>8. QED
    BY <2>7 DEF Lane!Next
<1>5. QED
  BY <1>2, <1>3, <1>4 DEF Wake

LEMMA RunLane ==
    ASSUME IInv, NEW c \in Callers, Run(c) PROVE [Lane!Next]_Lane!vars
<1>1. UNCHANGED <<boundary, closed>>
  BY DEF Run
<1>2. CASE RunClosed(c) \/ RunRetries(c) \/ RunJoins(c)
  BY <1>1, <1>2, SameLane DEF RunClosed, RunRetries, RunJoins, Lane!vars
<1>3. CASE RunStarts(c)
  <2>1. RunDemand \in Demands
    BY DemandTypes
  <2>2. Lane!Open
    BY <1>1, <1>3, <2>1, OpenStep DEF RunStarts
  <2>3. QED
    BY <2>2 DEF Lane!Next
<1>4. CASE RunUpgrades(c)
  <2>1. \A k \in Slots : entries[k] \in Entries /\ active \in Slots
    BY <1>4 DEF RunUpgrades, IInv, TypeOK
  <2>2. \A k \in Slots : entries'[k].phase = entries[k].phase
    BY <1>4, <2>1 DEF RunUpgrades, IInv, TypeOK, Entries
  <2>3. QED
    BY <1>1, <1>4, <2>2, SameLane DEF RunUpgrades, Lane!vars
<1>5. QED
  BY <1>2, <1>3, <1>4 DEF Run

LEMMA SettleLane ==
    ASSUME IInv, DInv, NEW k \in Slots, NEW exit \in Exits,
           Settle(k, exit) \/ SettleDetached(k, exit)
    PROVE  Lane!End
<1>1. Live(k) /\ UNCHANGED <<boundary, unserved, closed>>
  BY DEF Settle, SettleDetached, MayExit, Live
<1>2. LaneState # "idle"
  <2>1. LaneState = entries[k].phase /\ entries[k] \in Entries
    BY <1>1, LaneOf DEF IInv, TypeOK
  <2>2. QED
    BY <1>1, <2>1 DEF Entries, Live
<1>3. CASE Settle(k, exit) /\ (SettleRestart(k, exit) \/ SettleSuccessor(k, exit))
  <2>1. IInv'
    BY SettleInv
  <2>2. k = active /\ ~ closed
    BY <1>3 DEF Settle
  <2>3. PICK j \in Slots : entries'[j].phase = "queued"
    <3>1. CASE SettleRestart(k, exit)
      BY <1>1, <2>2, <3>1, RestartStep
    <3>2. CASE SettleSuccessor(k, exit)
      <4>1. 3 - k \in Slots
            /\ entries'[3 - k] = MakeEntry("queued", entries[k].pending,
                                           entries[k].waiter /\ ~ AnswersWaiter(entries[k]))
        BY <1>1, <2>2, <3>2, SuccessorStep
      <4>2. entries'[3 - k].phase = "queued"
        BY <4>1 DEF MakeEntry
      <4>3. QED
        BY <4>1, <4>2
    <3>3. QED
      BY <1>3, <3>1, <3>2
  <2>4. \A i \in Slots : entries'[i].phase # "draining"
    BY <2>1, <2>3 DEF IInv, OneOwner, AtMostOneDrain
  <2>5. LaneState' = "queued"
    BY <2>3, <2>4 DEF LaneState
  <2>6. QED
    BY <1>1, <1>2, <2>5 DEF Lane!End
<1>4. CASE (Settle(k, exit) /\ SettleIdle(k, exit)) \/ SettleDetached(k, exit)
  <2>1. entries' = [entries EXCEPT ![k] = Free] /\ Free.phase = "free"
    BY <1>4 DEF Settle, SettleIdle, SettleDetached, Free, MakeEntry
  <2>2. \A j \in Slots : entries'[j].phase = "free"
    BY <1>1, <2>1 DEF IInv, TypeOK, OneOwner, AtMostOneDrain, Live
  <2>3. LaneState' = "idle"
    BY <2>2 DEF LaneState
  <2>4. unserved = {}
    <3>1. CASE Settle(k, exit) /\ SettleIdle(k, exit)
      BY <1>1, <3>1 DEF Settle, SettleIdle, MayExit, DInv, DemandKept, Current
    <3>2. CASE SettleDetached(k, exit)
      BY <1>1, <3>2 DEF SettleDetached, IInv, OneOwner, DInv, DemandKept
    <3>3. QED
      BY <1>4, <3>1, <3>2
  <2>5. QED
    BY <1>1, <1>2, <2>3, <2>4 DEF Lane!End
<1>5. QED
  BY <1>3, <1>4 DEF Settle

LEMMA BeginLane == ASSUME IInv, NEW k \in Slots, Begin(k) PROVE Lane!Begin
<1>1. Live(k) /\ entries[k] \in Entries /\ UNCHANGED boundary /\ unserved' = {}
  BY DEF Begin, Live, IInv, TypeOK
<1>2. LaneState = "queued"
  BY <1>1, LaneOf DEF Begin
<1>3. entries'[k].phase = "draining"
  BY <1>1 DEF Begin, IInv, TypeOK, Entries
<1>4. LaneState' = "draining"
  BY <1>3 DEF LaneState
<1>5. QED
  BY <1>1, <1>2, <1>4 DEF Lane!Begin

LEMMA InterruptLane ==
    ASSUME IInv, NEW s \in Seqs, Interrupt(s) PROVE [Lane!Next]_Lane!vars
<1>1. UNCHANGED <<active, closed>>
  BY DEF Interrupt
<1>2. \A k \in Slots : entries'[k].phase = entries[k].phase
  <2>1. CASE UNCHANGED entries
    BY <2>1
  <2>2. CASE InterruptStops(s)
    BY <1>1, <2>2, InterruptEntry
  <2>3. QED
    BY <2>1, <2>2 DEF Interrupt, InterruptStale, InterruptIdle, InterruptSpares
<1>3. LaneState' = LaneState
  BY <1>2, SameLane
<1>4. CASE InterruptStale(s)
  BY <1>3, <1>4 DEF InterruptStale, Lane!vars
<1>5. CASE ~ InterruptStale(s)
  <2>1. s > boundary /\ boundary' = s /\ unserved' = {u \in unserved : u > s}
    BY <1>5, SeqAssumption DEF Interrupt, Seqs
  <2>2. Lane!Interrupt(s)
    BY <1>3, <2>1 DEF Lane!Interrupt
  <2>3. QED
    BY <2>2 DEF Lane!Next
<1>6. QED
  BY <1>4, <1>5

LEMMA StepLane == ASSUME IInv, DInv, [Next]_vars PROVE [Lane!Next]_Lane!vars
<1>1. CASE UNCHANGED vars
  BY <1>1, SameLane DEF vars, Lane!vars
<1>2. CASE \E c \in Callers : Leave(c)
  BY <1>2, SameLane DEF Leave, Lane!vars
<1>3. CASE Restart
  BY <1>3, SameLane DEF Restart, Lane!vars
<1>4. CASE Close
  <2>1. Lane!Close
    BY <1>4, SameLane DEF Close, Lane!Close
  <2>2. QED
    BY <2>1 DEF Lane!Next
<1>5. CASE \E k \in Slots : Begin(k)
  BY <1>5, BeginLane DEF Lane!Next
<1>6. CASE \E k \in Slots, exit \in Exits : Settle(k, exit) \/ SettleDetached(k, exit)
  BY <1>6, SettleLane DEF Lane!Next
<1>7. QED
  BY <1>1, <1>2, <1>3, <1>4, <1>5, <1>6, WakeLane, InterruptLane, RunLane DEF Next

\* The coordinator takes the steps of the lane, and no others.
THEOREM CoordinatorImplementsLane == ASSUME Orderly PROVE Spec => LaneSteps
<1>1. Init => Lane!Init
  <2>1. SUFFICES ASSUME Init PROVE Lane!Init
    OBVIOUS
  <2>2. \A k \in Slots : ~ Live(k)
    BY <2>1 DEF Init, Live, Free, MakeEntry
  <2>3. QED
    BY <2>1, <2>2, IdleLane DEF Init, Lane!Init
<1>2. IInv /\ DInv /\ [Next]_vars => [Lane!Next]_Lane!vars
  BY StepLane
<1>3. Spec => []DInv
  BY SpecDemandKept
<1>4. QED
  BY <1>1, <1>2, <1>3, SpecInv, PTL DEF Spec, LaneSteps

(***************************************************************************)
(* The Session.                                                            *)
(***************************************************************************)
----------------------------------------------------------------------------
(* The invariants.                                                         *)

Statements == {"none", "steer?", "queue?", "turn", "queued", "steers",
               "provider", "more?", "open?", "end"}

Bodies == [at : Statements, promotion : {"none", "steer", "queue"},
           cutoff : 0 .. MaxSeq, given : SUBSET Seqs]

CallsOnWay == [op : {"wake", "interrupt"}, seq : Seqs]

DrainTypes ==
    /\ latest \in 0 .. MaxSeq
    /\ inbox \in [Seqs -> Rows]
    /\ calls \in Seq(CallsOnWay) /\ Len(calls) <= MaxCalls
    /\ retries \in 0 .. MaxRetries
    /\ body \in [Slots -> Bodies]
    /\ promised \subseteq Seqs

\* A row of the inbox was admitted by an event that is not newer than the last.
RowsAdmitted == \A s \in Seqs : inbox[s].state # "none" => s <= latest

\* The drain at slot k has promoted an input, has not asked yet, or found one
\* that it will promote before it reaches the provider.
Promising(k) ==
    \/ body[k].at \in {"none", "steer?", "queue?", "end"}
    \/ body[k].given # {}
    \/ body[k].at = "turn" /\ body[k].promotion \in Deliveries /\ Pending(body[k].promotion) # {}
    \/ body[k].at = "queued" /\ Pending("queue") # {}
    \/ body[k].at = "steers" /\ \E s \in Pending("steer") : s <= body[k].cutoff

WakesPromising ==
    \A k \in Slots : entries[k].phase = "draining" /\ entries[k].current.tag = "wake"
                       => Promising(k)

BodyInv == IInv /\ DrainTypes /\ RowsAdmitted

----------------------------------------------------------------------------
(* Types.                                                                  *)

\* First(S) is the least element of S.
LEMMA FirstIsLeast ==
    ASSUME NEW S \in SUBSET Seqs, S # {}
    PROVE  First(S) \in S /\ \A t \in S : First(S) <= t
<1> DEFINE T == {1 .. x : x \in S}
<1>1. S \subseteq 1 .. MaxSeq /\ MaxSeq \in Nat /\ IsFiniteSet(1 .. MaxSeq)
  BY SeqAssumption, FS_Interval DEF Seqs
<1>2. T \subseteq FiniteSubsetsOf(1 .. MaxSeq) /\ T # {}
  <2>1. \A x \in S : 1 .. x \subseteq 1 .. MaxSeq
    BY <1>1
  <2>2. \A x \in S : IsFiniteSet(1 .. x)
    BY <1>1, <2>1, FS_Subset
  <2>3. QED
    BY <2>1, <2>2 DEF FiniteSubsetsOf
<1>3. IsWellFoundedOn(StrictSubsetOrdering(1 .. MaxSeq), FiniteSubsetsOf(1 .. MaxSeq))
  BY FS_StrictSubsetOrderingWellFounded
<1>4. \E t \in T : \A u \in T : ~ (<<u, t>> \in StrictSubsetOrdering(1 .. MaxSeq))
  <2> HIDE DEF T
  <2>1. QED
    BY <1>2, <1>3, WFMin
<1>5. PICK x \in S : \A y \in S : ~ (<<1 .. y, 1 .. x>> \in StrictSubsetOrdering(1 .. MaxSeq))
  BY <1>4
<1>6. ASSUME NEW y \in S, ~ (x <= y) PROVE FALSE
  <2>1. x \in 1 .. MaxSeq /\ y \in 1 .. MaxSeq /\ y < x
    BY <1>1, <1>6
  <2>2. /\ 1 .. y \subseteq 1 .. x /\ x \in 1 .. x /\ x \notin 1 .. y
        /\ 1 .. x \subseteq 1 .. MaxSeq /\ 1 .. y \subseteq 1 .. MaxSeq
    <3>1. x \in Int /\ y \in Int /\ MaxSeq \in Int /\ 1 <= x /\ x <= MaxSeq /\ y < x
      BY <1>1, <2>1
    <3>2. QED
      BY <3>1
  <2>3. <<1 .. y, 1 .. x>> \in StrictSubsetOrdering(1 .. MaxSeq)
    BY <2>2 DEF StrictSubsetOrdering
  <2>4. QED
    BY <1>5, <2>3
<1>7. QED
  BY <1>6 DEF First

LEMMA TypesAgree == DrainTypeOK <=> TypeOK /\ DrainTypes
BY DEF DrainTypeOK, DrainTypes, Bodies, Statements, CallsOnWay

\* What Deliver takes out of the calls.
LEMMA CallTaken ==
    ASSUME DrainTypes, NEW i \in 1 .. Len(calls)
    PROVE  /\ calls[i] \in CallsOnWay /\ calls[i].seq \in Seqs
           /\ Without(calls, i) \in Seq(CallsOnWay)
           /\ Len(Without(calls, i)) = Len(calls) - 1
<1>1. calls \in Seq(CallsOnWay) /\ Len(calls) \in Nat
  BY DEF DrainTypes
<1>2. calls[i] \in CallsOnWay
  BY <1>1
<1>3. /\ SubSeq(calls, 1, i - 1) \in Seq(CallsOnWay)
      /\ Len(SubSeq(calls, 1, i - 1)) = i - 1
  BY <1>1, SubSeqProperties
<1>4. /\ SubSeq(calls, i + 1, Len(calls)) \in Seq(CallsOnWay)
      /\ Len(SubSeq(calls, i + 1, Len(calls))) = Len(calls) - i
  BY <1>1, SubSeqProperties
<1>5. /\ Without(calls, i) \in Seq(CallsOnWay)
      /\ Len(Without(calls, i)) = (i - 1) + (Len(calls) - i)
  <2> DEFINE a == SubSeq(calls, 1, i - 1)
             c == SubSeq(calls, i + 1, Len(calls))
  <2>1. a \in Seq(CallsOnWay) /\ Len(a) = i - 1
    BY <1>3
  <2>2. c \in Seq(CallsOnWay) /\ Len(c) = Len(calls) - i
    BY <1>4
  <2>3. Without(calls, i) = a \o c
    BY DEF Without
  <2> HIDE DEF a, c
  <2>4. a \o c \in Seq(CallsOnWay) /\ Len(a \o c) = Len(a) + Len(c)
    BY <2>1, <2>2, ConcatProperties
  <2>5. QED
    BY <2>1, <2>2, <2>3, <2>4
<1>6. QED
  BY <1>1, <1>2, <1>5 DEF CallsOnWay

LEMMA BodyTypes == NoBody \in Bodies /\ NewBody \in Bodies
BY SeqAssumption DEF NoBody, NewBody, Bodies, Statements

LEMMA BodiesFollowType ==
    ASSUME DrainTypes, BodiesFollow
    PROVE  body' \in [Slots -> Bodies]
BY BodyTypes DEF DrainTypes, BodiesFollow

LEMMA Updated ==
    ASSUME NEW S, NEW T, NEW f \in [S -> T], NEW x \in S, NEW e \in T
    PROVE  LET g == [f EXCEPT ![x] = e]
           IN  g \in [S -> T] /\ g[x] = e /\ \A y \in S \ {x} : g[y] = f[y]
OBVIOUS

LEMMA RecordEdited ==
    ASSUME NEW A, NEW P, NEW C, NEW G, NEW b \in [at : A, promotion : P, cutoff : C, given : G],
           NEW at \in A, NEW promotion \in P, NEW cutoff \in C, NEW given \in G
    PROVE  /\ LET e == [b EXCEPT !.at = at, !.promotion = promotion, !.cutoff = cutoff]
              IN  /\ e \in [at : A, promotion : P, cutoff : C, given : G]
                  /\ e.at = at /\ e.promotion = promotion /\ e.cutoff = cutoff
                  /\ e.given = b.given
           /\ LET e == [b EXCEPT !.at = at, !.given = given]
              IN  /\ e \in [at : A, promotion : P, cutoff : C, given : G]
                  /\ e.at = at /\ e.promotion = b.promotion /\ e.cutoff = b.cutoff
                  /\ e.given = given
OBVIOUS

\* Where the drain goes: only its own body changes, and not what it has given.
Moves(k, at, promotion, cutoff) ==
    body' = [body EXCEPT ![k].at = at, ![k].promotion = promotion, ![k].cutoff = cutoff]

LEMMA BodyMoved ==
    ASSUME DrainTypes, NEW k \in Slots, NEW at \in Statements,
           NEW promotion \in {"none", "steer", "queue"}, NEW cutoff \in 0 .. MaxSeq,
           Moves(k, at, promotion, cutoff)
    PROVE  /\ body' \in [Slots -> Bodies]
           /\ \A j \in Slots \ {k} : body'[j] = body[j]
           /\ body'[k].at = at /\ body'[k].promotion = promotion /\ body'[k].cutoff = cutoff
           /\ body'[k].given = body[k].given
<1> DEFINE b == [body[k] EXCEPT !.at = at, !.promotion = promotion, !.cutoff = cutoff]
<1>1. body \in [Slots -> Bodies] /\ body[k] \in Bodies
  BY DEF DrainTypes
<1>2. /\ b \in Bodies /\ b.at = at /\ b.promotion = promotion /\ b.cutoff = cutoff
      /\ b.given = body[k].given
  <2> DEFINE P == {"none", "steer", "queue"}
             G == SUBSET Seqs
  <2>1. /\ body[k] \in [at : Statements, promotion : P, cutoff : 0 .. MaxSeq, given : G]
        /\ promotion \in P /\ {} \in G
    BY <1>1 DEF Bodies
  <2>2. Bodies = [at : Statements, promotion : P, cutoff : 0 .. MaxSeq, given : G]
    BY DEF Bodies
  <2> HIDE DEF P, G
  <2>3. QED
    BY <2>1, <2>2, RecordEdited
<1>3. body' = [body EXCEPT ![k] = b]
  BY <1>1 DEF Moves
<1> HIDE DEF b
<1>4. body' \in [Slots -> Bodies] /\ body'[k] = b /\ \A j \in Slots \ {k} : body'[j] = body[j]
  BY <1>1, <1>2, <1>3, Updated
<1>5. QED
  BY <1>2, <1>4

LEMMA GotoMoves ==
    ASSUME DrainTypes, NEW k \in Slots, NEW at \in Statements,
           NEW promotion \in {"none", "steer", "queue"}, Goto(k, at, promotion)
    PROVE  /\ body' \in [Slots -> Bodies]
           /\ \A j \in Slots \ {k} : body'[j] = body[j]
           /\ body'[k].at = at /\ body'[k].promotion = promotion
           /\ body'[k].given = body[k].given
<1>1. 0 \in 0 .. MaxSeq
  BY SeqAssumption
<1>2. QED
  BY <1>1, BodyMoved DEF Goto, Moves

\* A promotion marks one row and gives its input to the drain.
LEMMA PromotesMoves ==
    ASSUME DrainTypes, NEW k \in Slots, NEW s \in Seqs, NEW at \in Statements, Promotes(k, s, at)
    PROVE  /\ body' \in [Slots -> Bodies]
           /\ \A j \in Slots \ {k} : body'[j] = body[j]
           /\ body'[k].at = at /\ body'[k].given # {}
           /\ inbox' \in [Seqs -> Rows]
           /\ \A t \in Seqs \ {s} : inbox'[t] = inbox[t]
           /\ inbox'[s].state = "promoted" /\ inbox'[s].delivery = inbox[s].delivery
           /\ promised' \subseteq Seqs
<1> DEFINE b == [body[k] EXCEPT !.at = at, !.given = body[k].given \cup {s}]
<1>1. body \in [Slots -> Bodies] /\ body[k] \in Bodies
  BY DEF DrainTypes
<1>2. b \in Bodies /\ b.at = at /\ b.given = body[k].given \cup {s}
  <2> DEFINE P == {"none", "steer", "queue"}
             G == SUBSET Seqs
             C == 0 .. MaxSeq
  <2>1. /\ body[k] \in [at : Statements, promotion : P, cutoff : C, given : G]
        /\ body[k].given \cup {s} \in G /\ "none" \in P /\ 0 \in C
    BY <1>1, SeqAssumption DEF Bodies
  <2>2. Bodies = [at : Statements, promotion : P, cutoff : C, given : G]
    BY DEF Bodies
  <2> HIDE DEF P, G, C
  <2>3. QED
    BY <2>1, <2>2, RecordEdited
<1>3. body' = [body EXCEPT ![k] = b]
  BY <1>1 DEF Promotes
<1> HIDE DEF b
<1>4. /\ body' \in [Slots -> Bodies] /\ body'[k] = b
      /\ \A j \in Slots \ {k} : body'[j] = body[j]
  BY <1>1, <1>2, <1>3, Updated
<1>5. inbox \in [Seqs -> Rows] /\ inbox[s] \in Rows
  BY DEF DrainTypes
<1>6. [inbox[s] EXCEPT !.state = "promoted"] \in Rows
  BY <1>5 DEF Rows
<1>7. /\ inbox' \in [Seqs -> Rows]
      /\ \A t \in Seqs \ {s} : inbox'[t] = inbox[t]
      /\ inbox'[s].state = "promoted" /\ inbox'[s].delivery = inbox[s].delivery
  BY <1>5, <1>6 DEF Promotes, Rows
<1>8. promised' \subseteq Seqs
  BY DEF Promotes, DrainTypes
<1>9. QED
  BY <1>2, <1>4, <1>7, <1>8

----------------------------------------------------------------------------
(* The steps of the coordinator.                                           *)

LEMMA DeliverStep ==
    ASSUME DrainTypes, NEW i \in 1 .. Len(calls), Deliver(i)
    PROVE  Next
<1>1. calls[i].seq \in Seqs
  BY CallTaken
<1>2. CASE DeliverWake(i)
  BY <1>1, <1>2 DEF DeliverWake, Next
<1>3. CASE DeliverInterrupt(i)
  BY <1>1, <1>3 DEF DeliverInterrupt, Next
<1>4. QED
  BY <1>2, <1>3 DEF Deliver

LEMMA CoordinatorStep ==
    ASSUME DrainTypes, [DrainNext]_allVars
    PROVE  [Next]_vars
<1>1. ASSUME NEW i \in 1 .. MaxCalls, Deliver(i) PROVE Next
  BY <1>1, DeliverStep DEF Deliver
<1>2. ASSUME NEW c \in Callers, Resume(c) \/ Abandon(c) PROVE Next
  BY <1>2 DEF Resume, Abandon, Next
<1>3. ASSUME NEW k \in Slots, Starts(k) \/ Ends(k) \/ Fails(k) \/ Stops(k) PROVE Next
  BY <1>3 DEF Starts, Ends, Fails, Stops, Next, Exits
<1>4. ASSUME CloseSession \/ RestartSession PROVE Next
  BY <1>4 DEF CloseSession, RestartSession, Next
<1>5. ASSUME NEW delivery \in Deliveries, NEW resume \in BOOLEAN, Prompt(delivery, resume)
      PROVE  UNCHANGED vars
  BY <1>5 DEF Prompt
<1>6. ASSUME (\E s \in Seqs : RetryPrompt(s)) \/ RequestInterrupt PROVE UNCHANGED vars
  BY <1>6 DEF RetryPrompt, RequestInterrupt
<1>7. ASSUME NEW k \in Slots,
             DrainMoves(k) \/ ProviderContinues(k) \/ ProviderRebuilds(k) \/ ProviderEnds(k)
      PROVE  UNCHANGED vars
  BY <1>7 DEF DrainMoves, AsksSteer, AsksQueue, TurnBegins, PromotesQueued, PromotesSteers,
     AsksMore, AsksOpen, ProviderContinues, ProviderRebuilds, ProviderEnds, Inward
<1>8. CASE UNCHANGED allVars
  BY <1>8 DEF allVars, vars
<1>9. CASE DrainNext
  BY <1>9, <1>1, <1>2, <1>3, <1>4, <1>5, <1>6, <1>7 DEF DrainNext
<1>10. QED
  BY <1>8, <1>9

\* A drain keeps the demand it began with as long as it lives.
DrainKeeps ==
    \A k \in Slots : entries[k].phase = "draining" /\ entries'[k].phase = "draining"
                       => entries'[k].current = entries[k].current

LEMMA StartIdleKeeps ==
    ASSUME IInv, active = 0, ~ closed, NEW d \in Demands, StartIdle(d)
    PROVE  DrainKeeps
<1>1. \A k \in Slots : entries[k].phase # "draining"
  BY SpareFree DEF Live
<1>2. QED
  BY <1>1 DEF DrainKeeps

LEMMA EditKeeps ==
    ASSUME IInv, NEW k \in Slots, NEW e, entries' = [entries EXCEPT ![k] = e],
           e.phase = "draining" /\ entries[k].phase = "draining" => e.current = entries[k].current
    PROVE  DrainKeeps
<1>1. \A j \in Slots : entries'[j] = IF j = k THEN e ELSE entries[j]
  BY DEF IInv, TypeOK
<1>2. QED
  BY <1>1 DEF DrainKeeps

LEMMA WakeKeeps == ASSUME IInv, NEW s \in Seqs, Wake(s) PROVE DrainKeeps
<1>1. CASE WakeIgnored(s)
  BY <1>1 DEF WakeIgnored, DrainKeeps
<1>2. CASE WakeAccepted(s) /\ WakeStarts(s)
  BY <1>2, StartIdleKeeps, DemandTypes DEF WakeAccepted, WakeStarts
<1>3. CASE WakeAccepted(s) /\ WakeFollows(s)
  <2> DEFINE e == [entries[active] EXCEPT !.pending = Coalesce(Current.pending, WakeDemand(s))]
  <2>1. active \in Slots /\ entries[active] \in Entries
    BY <1>3 DEF WakeFollows, IInv, TypeOK
  <2>2. entries' = [entries EXCEPT ![active] = e]
    BY <1>3, <2>1 DEF WakeFollows, Current, IInv, TypeOK
  <2>3. e.current = entries[active].current
    BY <2>1 DEF Entries
  <2> HIDE DEF e
  <2>4. QED
    BY <2>1, <2>2, <2>3, EditKeeps
<1>4. QED
  BY <1>1, <1>2, <1>3 DEF Wake

LEMMA RunKeeps == ASSUME IInv, NEW c \in Callers, Run(c) PROVE DrainKeeps
<1>1. CASE RunClosed(c) \/ RunRetries(c) \/ RunJoins(c)
  BY <1>1 DEF RunClosed, RunRetries, RunJoins, DrainKeeps
<1>2. CASE RunStarts(c)
  BY <1>2, StartIdleKeeps, DemandTypes DEF RunStarts
<1>3. CASE RunUpgrades(c)
  <2> DEFINE e == [entries[active] EXCEPT !.pending = Coalesce(Current.pending, RunDemand),
                                          !.waiter = TRUE]
  <2>1. active \in Slots /\ entries[active] \in Entries
    BY <1>3 DEF RunUpgrades, IInv, TypeOK
  <2>2. entries' = [entries EXCEPT ![active] = e]
    BY <1>3, <2>1 DEF RunUpgrades, Current, IInv, TypeOK
  <2>3. e.current = entries[active].current
    BY <2>1 DEF Entries
  <2> HIDE DEF e
  <2>4. QED
    BY <2>1, <2>2, <2>3, EditKeeps
<1>4. QED
  BY <1>1, <1>2, <1>3 DEF Run

LEMMA SettleKeeps ==
    ASSUME IInv, NEW k \in Slots, NEW exit \in Exits, Settle(k, exit) \/ SettleDetached(k, exit)
    PROVE  DrainKeeps
<1>1. Free.phase = "free"
  BY DEF Free, MakeEntry
<1>2. CASE SettleIdle(k, exit) \/ SettleDetached(k, exit)
  BY <1>1, <1>2, EditKeeps DEF SettleIdle, SettleDetached
<1>3. CASE Settle(k, exit) /\ SettleRestart(k, exit)
  <2>1. k = active /\ ~ closed /\ UNCHANGED closed
    BY <1>3 DEF Settle
  <2>2. entries' = [entries EXCEPT ![k] = entries'[k]] /\ entries'[k].phase = "queued"
    BY <1>3, <2>1, RestartStep
  <2>3. \A j \in Slots \ {k} : entries'[j] = entries[j]
    BY <2>2 DEF IInv, TypeOK
  <2>4. QED
    BY <2>2, <2>3 DEF DrainKeeps
<1>4. CASE Settle(k, exit) /\ SettleSuccessor(k, exit)
  <2>1. k = active /\ ~ closed /\ UNCHANGED closed
    BY <1>4 DEF Settle
  <2>2. entries'[k] = Free /\ entries'[3 - k].phase = "queued"
    <3>1. \A d, w : MakeEntry("queued", d, w).phase = "queued"
      BY DEF MakeEntry
    <3>2. QED
      BY <1>4, <2>1, <3>1, SuccessorStep
  <2>3. \A j \in Slots : j = k \/ j = 3 - k
    BY DEF Slots
  <2>4. QED
    BY <1>1, <2>2, <2>3 DEF DrainKeeps
<1>5. QED
  BY <1>2, <1>3, <1>4 DEF Settle

LEMMA StepKeeps == ASSUME IInv, [Next]_vars PROVE DrainKeeps
<1>1. ASSUME NEW s \in Seqs, Interrupt(s) PROVE DrainKeeps
  <2>1. CASE InterruptStops(s) /\ UNCHANGED <<active, closed>>
    BY <2>1, InterruptEntry DEF DrainKeeps
  <2>2. CASE UNCHANGED entries
    BY <2>2 DEF DrainKeeps
  <2>3. QED
    BY <1>1, <2>1, <2>2 DEF Interrupt, InterruptStale, InterruptIdle, InterruptSpares
<1>2. ASSUME NEW k \in Slots, Begin(k) PROVE DrainKeeps
  <2>1. /\ entries' = [entries EXCEPT ![k] = [entries[k] EXCEPT !.phase = "draining"]]
        /\ entries[k].phase = "queued"
    BY <1>2 DEF Begin, IInv, TypeOK
  <2>2. QED
    BY <2>1, EditKeeps
<1>3. ASSUME (\E c \in Callers : Leave(c)) \/ Close \/ Restart \/ UNCHANGED vars
      PROVE  DrainKeeps
  BY <1>3 DEF Leave, Close, Restart, vars, DrainKeeps
<1>4. QED
  BY <1>1, <1>2, <1>3, WakeKeeps, RunKeeps, SettleKeeps DEF Next

----------------------------------------------------------------------------
(* The drain and its inbox: the steps that leave the bodies alone, those   *)
(* of the coordinator, and those of the drain itself.                      *)

\* What the inbox and the drains promise besides their types.
InboxInv == RowsAdmitted /\ WakesPromising /\ PromotedInOrder

SameEntry(k) == /\ entries'[k].phase = entries[k].phase
                /\ entries'[k].current = entries[k].current

\* New rows are pending and newer than all others: they disturb no drain.
LEMMA AdmittedKept ==
    ASSUME DrainTypes, InboxInv, NEW s \in Seqs, NEW delivery \in Deliveries,
           inbox[s].state = "none", \A t \in Seqs : inbox[t].state # "none" => t < s, latest' = s,
           inbox' = [inbox EXCEPT ![s] = [state |-> "pending", delivery |-> delivery]],
           UNCHANGED body, \A k \in Slots : SameEntry(k)
    PROVE  InboxInv' /\ inbox' \in [Seqs -> Rows]
<1> DEFINE row == [state |-> "pending", delivery |-> delivery]
<1>1. row \in Rows /\ row.state = "pending" /\ row.delivery = delivery
  BY DEF Rows
<1> HIDE DEF row
<1>2. /\ inbox' \in [Seqs -> Rows] /\ inbox'[s] = row
      /\ \A t \in Seqs \ {s} : inbox'[t] = inbox[t]
  BY <1>1, Updated DEF DrainTypes, row
<1>3. RowsAdmitted'
  BY <1>1, <1>2 DEF RowsAdmitted, Seqs
<1>4. PromotedInOrder'
  <2> SUFFICES ASSUME NEW t \in Seqs, NEW u \in Seqs, t < u,
                      inbox'[t].state = "pending", inbox'[u].state = "promoted"
               PROVE  inbox'[t].delivery # inbox'[u].delivery
    BY DEF PromotedInOrder
  <2>1. u # s /\ inbox[u].state = "promoted"
    BY <1>1, <1>2
  <2>2. t # s
    BY <2>1 DEF Seqs
  <2>3. QED
    BY <1>2, <2>1, <2>2 DEF InboxInv, PromotedInOrder
<1>5. \A d \in Deliveries : Pending(d) \subseteq Pending(d)'
  BY <1>2 DEF Pending
<1>6. ASSUME NEW k \in Slots, Promising(k) PROVE Promising(k)'
  BY <1>5, <1>6 DEF Promising, Deliveries
<1>7. WakesPromising'
  BY <1>6 DEF InboxInv, WakesPromising, SameEntry
<1>8. QED
  BY <1>2, <1>3, <1>4, <1>7 DEF InboxInv

LEMMA SameInbox ==
    ASSUME InboxInv, UNCHANGED <<inbox, body>>, latest' \in Int, latest \in Int, latest' >= latest,
           \A k \in Slots : SameEntry(k)
    PROVE  InboxInv'
<1>1. RowsAdmitted'
  BY DEF InboxInv, RowsAdmitted, Seqs
<1>2. PromotedInOrder'
  BY DEF InboxInv, PromotedInOrder
<1>3. \A k \in Slots : Promising(k)' <=> Promising(k)
  BY DEF Promising, Pending
<1>4. WakesPromising'
  BY <1>3 DEF InboxInv, WakesPromising, SameEntry
<1>5. QED
  BY <1>1, <1>2, <1>4 DEF InboxInv

\* A step of the coordinator: bodies begin and end with their drains.
LEMMA FollowKept ==
    ASSUME BodyInv, InboxInv, [Next]_vars, BodiesFollow, UNCHANGED <<latest, inbox>>
    PROVE  InboxInv'
<1>1. RowsAdmitted' /\ PromotedInOrder'
  BY DEF InboxInv, RowsAdmitted, PromotedInOrder
<1>2. ASSUME NEW k \in Slots, entries'[k].phase = "draining", entries'[k].current.tag = "wake"
      PROVE  Promising(k)'
  <2>1. CASE entries[k].phase = "draining"
    <3>1. body'[k] = body[k] /\ entries[k].current.tag = "wake"
      BY <1>2, <2>1, StepKeeps DEF BodiesFollow, DrainKeeps, BodyInv
    <3>2. Promising(k)
      BY <2>1, <3>1 DEF InboxInv, WakesPromising
    <3>3. QED
      BY <3>1, <3>2 DEF Promising, Pending
  <2>2. CASE entries[k].phase # "draining"
    <3>1. body'[k] = NewBody
      BY <1>2, <2>2 DEF BodiesFollow
    <3>2. QED
      BY <3>1 DEF Promising, NewBody, NoBody
  <2>3. QED
    BY <2>1, <2>2
<1>3. QED
  BY <1>1, <1>2 DEF InboxInv, WakesPromising

\* What a statement of the drain at slot k has to show.
LEMMA MoveKept ==
    ASSUME BodyInv, InboxInv, NEW k \in Slots, entries[k].phase = "draining",
           UNCHANGED <<vars, latest, calls, retries>>,
           entries[k].current.tag = "wake" => Promising(k)', RowsAdmitted', PromotedInOrder'
    PROVE  InboxInv'
<1>1. \A j \in Slots : entries[j].phase = "draining" => j = k
  BY DEF BodyInv, IInv, OneOwner, AtMostOneDrain
<1>2. entries' = entries
  BY DEF vars
<1>3. WakesPromising'
  BY <1>1, <1>2 DEF WakesPromising
<1>4. QED
  BY <1>3 DEF InboxInv

LEMMA GotoKept ==
    ASSUME BodyInv, InboxInv, NEW k \in Slots, entries[k].phase = "draining",
           NEW at \in Statements, NEW promotion \in {"none", "steer", "queue"},
           Goto(k, at, promotion), UNCHANGED <<inbox, promised>>, Inward,
           entries[k].current.tag = "wake" =>
               \/ at = "end" \/ at = "queue?" \/ body[k].given # {}
               \/ at = "turn" /\ promotion \in Deliveries /\ Pending(promotion) # {}
    PROVE  DrainTypes' /\ InboxInv'
<1>1. /\ body' \in [Slots -> Bodies]
      /\ body'[k].at = at /\ body'[k].promotion = promotion /\ body'[k].given = body[k].given
  BY GotoMoves DEF BodyInv
<1>2. RowsAdmitted' /\ PromotedInOrder'
  BY DEF InboxInv, RowsAdmitted, PromotedInOrder, Inward
<1>3. \A d \in Deliveries : Pending(d)' = Pending(d)
  BY DEF Pending
<1>4. entries[k].current.tag = "wake" => Promising(k)'
  BY <1>1, <1>3 DEF Promising
<1>5. DrainTypes'
  BY <1>1 DEF BodyInv, DrainTypes, Inward
<1>6. QED
  BY <1>2, <1>4, <1>5, MoveKept DEF Inward

LEMMA PromotesKept ==
    ASSUME BodyInv, InboxInv, NEW k \in Slots, entries[k].phase = "draining", NEW s \in Seqs,
           Promotes(k, s, "steers"), Inward, inbox[s].state = "pending",
           \A t \in Seqs : t < s /\ inbox[t].state = "pending"
                             => inbox[t].delivery # inbox[s].delivery
    PROVE  DrainTypes' /\ InboxInv'
<1>1. /\ body' \in [Slots -> Bodies] /\ body'[k].given # {}
      /\ inbox' \in [Seqs -> Rows]
      /\ \A t \in Seqs \ {s} : inbox'[t] = inbox[t]
      /\ inbox'[s].state = "promoted" /\ inbox'[s].delivery = inbox[s].delivery
      /\ promised' \subseteq Seqs
  BY PromotesMoves DEF BodyInv, Statements
<1>2. RowsAdmitted'
  BY <1>1 DEF InboxInv, RowsAdmitted, Inward
<1>3. PromotedInOrder'
  <2> SUFFICES ASSUME NEW t \in Seqs, NEW u \in Seqs, t < u,
                      inbox'[t].state = "pending", inbox'[u].state = "promoted"
               PROVE  inbox'[t].delivery # inbox'[u].delivery
    BY DEF PromotedInOrder
  <2>1. t # s /\ inbox'[t] = inbox[t]
    BY <1>1
  <2>2. CASE u = s
    BY <1>1, <2>1, <2>2
  <2>3. CASE u # s
    BY <1>1, <2>1, <2>3 DEF InboxInv, PromotedInOrder
  <2>4. QED
    BY <2>2, <2>3
<1>4. Promising(k)'
  BY <1>1 DEF Promising
<1>5. DrainTypes'
  BY <1>1 DEF BodyInv, DrainTypes, Inward
<1>6. QED
  BY <1>2, <1>3, <1>4, <1>5, MoveKept DEF Inward

LEMMA QueuedKept ==
    ASSUME BodyInv, InboxInv, NEW k \in Slots, PromotesQueued(k)
    PROVE  DrainTypes' /\ InboxInv'
<1>1. entries[k].phase = "draining" /\ body[k].at = "queued" /\ Inward
  BY DEF PromotesQueued, At
<1>2. Pending("queue") \subseteq Seqs
  BY DEF Pending
<1>3. CASE Pending("queue") # {}
  <2> DEFINE s == First(Pending("queue"))
  <2>1. s \in Pending("queue") /\ \A t \in Pending("queue") : s <= t
    BY <1>2, <1>3, FirstIsLeast
  <2>2. s \in Seqs /\ inbox[s].state = "pending" /\ inbox[s].delivery = "queue"
    BY <2>1 DEF Pending
  <2>3. \A t \in Seqs : t < s /\ inbox[t].state = "pending" => inbox[t].delivery # inbox[s].delivery
    BY <2>1, <2>2 DEF Pending, Seqs
  <2>4. Promotes(k, s, "steers")
    BY <1>3 DEF PromotesQueued
  <2> HIDE DEF s
  <2>5. QED
    BY <1>1, <2>2, <2>3, <2>4, PromotesKept
<1>4. CASE Pending("queue") = {}
  <2>1. body' = [body EXCEPT ![k].at = "steers"] /\ UNCHANGED <<inbox, promised>>
    BY <1>4 DEF PromotesQueued
  <2>2. body[k] \in Bodies
    BY DEF BodyInv, DrainTypes
  <2>3. [body[k] EXCEPT !.at = "steers"] \in Bodies
    BY <2>2 DEF Bodies, Statements
  <2>4. /\ body' \in [Slots -> Bodies] /\ body'[k].given = body[k].given
    BY <2>1, <2>2, <2>3 DEF BodyInv, DrainTypes, Bodies
  <2>5. entries[k].current.tag = "wake" => body[k].given # {}
    BY <1>1, <1>4 DEF InboxInv, WakesPromising, Promising
  <2>6. entries[k].current.tag = "wake" => Promising(k)'
    BY <2>4, <2>5 DEF Promising
  <2>7. RowsAdmitted' /\ PromotedInOrder'
    BY <1>1, <2>1 DEF InboxInv, RowsAdmitted, PromotedInOrder, Inward
  <2>8. DrainTypes'
    BY <1>1, <2>1, <2>4 DEF BodyInv, DrainTypes, Inward
  <2>9. QED
    BY <1>1, <2>6, <2>7, <2>8, MoveKept DEF Inward
<1>5. QED
  BY <1>3, <1>4

LEMMA SteersKept ==
    ASSUME BodyInv, InboxInv, NEW k \in Slots, PromotesSteers(k)
    PROVE  DrainTypes' /\ InboxInv'
<1> DEFINE due == {s \in Pending("steer") : s <= body[k].cutoff}
<1>1. entries[k].phase = "draining" /\ body[k].at = "steers" /\ Inward
  BY DEF PromotesSteers, At
<1>2. due \subseteq Seqs
  BY DEF Pending
<1>3. CASE due # {}
  <2> DEFINE s == First(due)
  <2>1. s \in due /\ \A t \in due : s <= t
    <3> HIDE DEF due
    <3>1. QED
      BY <1>2, <1>3, FirstIsLeast
  <2>2. s \in Seqs /\ inbox[s].state = "pending" /\ inbox[s].delivery = "steer"
        /\ s <= body[k].cutoff
    BY <2>1 DEF Pending
  <2>3. ASSUME NEW t \in Seqs, t < s, inbox[t].state = "pending", inbox[t].delivery = "steer"
        PROVE  FALSE
    <3>1. body[k].cutoff \in Int /\ s \in Int /\ t \in Int
      BY <2>2 DEF BodyInv, DrainTypes, Bodies, Seqs
    <3>2. t \in due
      BY <2>2, <2>3, <3>1 DEF Pending
    <3>3. QED
      BY <2>1, <2>3, <3>1, <3>2
  <2>4. Promotes(k, s, "steers")
    BY <1>3 DEF PromotesSteers
  <2> HIDE DEF s
  <2>5. QED
    BY <1>1, <2>2, <2>3, <2>4, PromotesKept
<1>4. CASE due = {}
  <2>1. Goto(k, "provider", "none") /\ UNCHANGED <<inbox, promised>>
    BY <1>4 DEF PromotesSteers
  <2>2. entries[k].current.tag = "wake" => body[k].given # {}
    BY <1>1, <1>4 DEF InboxInv, WakesPromising, Promising
  <2>3. QED
    BY <1>1, <2>1, <2>2, GotoKept DEF Statements
<1>5. QED
  BY <1>3, <1>4

LEMMA TurnKept ==
    ASSUME BodyInv, InboxInv, NEW k \in Slots, TurnBegins(k)
    PROVE  DrainTypes' /\ InboxInv'
<1> DEFINE p == body[k].promotion
           at == CASE p = "steer" -> "steers" [] p = "queue" -> "queued" [] OTHER -> "provider"
           cutoff == IF p = "none" THEN 0 ELSE latest
<1>1. entries[k].phase = "draining" /\ body[k].at = "turn" /\ Inward /\ UNCHANGED <<inbox, promised>>
  BY DEF TurnBegins, At
<1>2. body[k] \in Bodies /\ latest \in 0 .. MaxSeq /\ 0 \in 0 .. MaxSeq
  BY SeqAssumption DEF BodyInv, DrainTypes
<1>3. p \in {"none", "steer", "queue"}
  BY <1>2 DEF Bodies
<1>4. at \in Statements /\ cutoff \in 0 .. MaxSeq
  BY <1>2, <1>3 DEF Statements
<1>5. Moves(k, at, "none", cutoff)
  BY DEF TurnBegins, Moves
<1>6. /\ body' \in [Slots -> Bodies] /\ body'[k].at = at
      /\ body'[k].cutoff = cutoff /\ body'[k].given = body[k].given
  <2> HIDE DEF at, cutoff
  <2>1. QED
    BY <1>4, <1>5, BodyMoved DEF BodyInv
<1>7. \A d \in Deliveries : Pending(d)' = Pending(d)
  BY <1>1 DEF Pending
<1>8. ASSUME entries[k].current.tag = "wake" PROVE Promising(k)'
  <2>1. body[k].given # {} \/ (p \in Deliveries /\ Pending(p) # {})
    BY <1>1, <1>8 DEF InboxInv, WakesPromising, Promising
  <2>2. CASE body[k].given # {}
    BY <1>6, <2>2 DEF Promising
  <2>3. CASE p = "queue" /\ Pending("queue") # {}
    BY <1>6, <1>7, <2>3 DEF Promising, Deliveries
  <2>4. CASE p = "steer" /\ Pending("steer") # {}
    <3>1. PICK s \in Pending("steer") : TRUE
      BY <2>4
    <3>2. s <= latest
      BY <3>1 DEF Pending, InboxInv, RowsAdmitted
    <3>3. cutoff = latest /\ at = "steers"
      BY <2>4
    <3>4. QED
      BY <1>6, <1>7, <3>1, <3>2, <3>3 DEF Promising, Deliveries
  <2>5. QED
    BY <2>1, <2>2, <2>3, <2>4 DEF Deliveries
<1>9. RowsAdmitted' /\ PromotedInOrder'
  BY <1>1 DEF InboxInv, RowsAdmitted, PromotedInOrder, Inward
<1>10. DrainTypes'
  BY <1>1, <1>6 DEF BodyInv, DrainTypes, Inward
<1>11. QED
  BY <1>1, <1>8, <1>9, <1>10, MoveKept DEF Inward

LEMMA AsksKept ==
    ASSUME BodyInv, InboxInv, NEW k \in Slots,
           AsksSteer(k) \/ AsksQueue(k) \/ AsksMore(k) \/ AsksOpen(k)
    PROVE  DrainTypes' /\ InboxInv'
<1> USE DEF Statements, Deliveries
<1>1. /\ entries[k].phase = "draining" /\ Inward /\ UNCHANGED <<inbox, promised>>
      /\ body[k].at \in {"steer?", "queue?", "more?", "open?"}
  BY DEF AsksSteer, AsksQueue, AsksMore, AsksOpen, At
<1>2. entries[k].current.tag = "wake" /\ body[k].at \in {"more?", "open?"} => body[k].given # {}
  BY <1>1 DEF InboxInv, WakesPromising, Promising
<1>3. CASE Goto(k, "turn", "steer") /\ Pending("steer") # {}
  BY <1>1, <1>3, GotoKept
<1>4. CASE Goto(k, "turn", "queue") /\ Pending("queue") # {}
  BY <1>1, <1>4, GotoKept
<1>5. CASE Goto(k, "turn", "none") /\ entries[k].current.tag = "run"
  BY <1>1, <1>5, GotoKept
<1>6. CASE Goto(k, "queue?", "none")
  BY <1>1, <1>6, GotoKept
<1>7. CASE Goto(k, "end", "none")
  BY <1>1, <1>7, GotoKept
<1>8. CASE Goto(k, "open?", "none") /\ body[k].at = "more?"
  BY <1>1, <1>2, <1>8, GotoKept
<1>9. QED
  BY <1>3, <1>4, <1>5, <1>6, <1>7, <1>8 DEF AsksSteer, AsksQueue, AsksMore, AsksOpen, At

LEMMA ProviderKept ==
    ASSUME BodyInv, InboxInv, NEW k \in Slots,
           ProviderContinues(k) \/ ProviderRebuilds(k) \/ ProviderEnds(k)
    PROVE  DrainTypes' /\ InboxInv'
<1> USE DEF Statements
<1>1. /\ entries[k].phase = "draining" /\ Inward /\ UNCHANGED <<inbox, promised>>
      /\ body[k].at = "provider"
  BY DEF ProviderContinues, ProviderRebuilds, ProviderEnds, At
<1>2. entries[k].current.tag = "wake" => body[k].given # {}
  BY <1>1 DEF InboxInv, WakesPromising, Promising
<1>3. CASE Goto(k, "turn", "steer")
  BY <1>1, <1>2, <1>3, GotoKept
<1>4. CASE Goto(k, "turn", "none")
  BY <1>1, <1>2, <1>4, GotoKept
<1>5. CASE Goto(k, "more?", "steer")
  BY <1>1, <1>2, <1>5, GotoKept
<1>6. QED
  BY <1>3, <1>4, <1>5 DEF ProviderContinues, ProviderRebuilds, ProviderEnds

----------------------------------------------------------------------------
(* The API of the Session.                                                 *)

LEMMA Sent ==
    ASSUME DrainTypes, NEW op \in {"wake", "interrupt"}, NEW s \in Seqs, Send(op, s)
    PROVE  calls' \in Seq(CallsOnWay) /\ Len(calls') <= MaxCalls
<1> DEFINE call == [op |-> op, seq |-> s]
<1>1. call \in CallsOnWay
  BY DEF CallsOnWay
<1>2. calls \in Seq(CallsOnWay) /\ Len(calls) < MaxCalls /\ calls' = Append(calls, call)
  BY DEF Send, DrainTypes
<1> HIDE DEF call
<1>3. calls' \in Seq(CallsOnWay) /\ Len(calls') = Len(calls) + 1 /\ Len(calls) \in Nat
  BY <1>1, <1>2
<1>4. QED
  BY <1>2, <1>3, CallsAssumption

LEMMA PromptKept ==
    ASSUME BodyInv, InboxInv, NEW delivery \in Deliveries, NEW resume \in BOOLEAN,
           Prompt(delivery, resume)
    PROVE  DrainTypes' /\ InboxInv'
<1> DEFINE s == latest + 1
<1>1. latest \in 0 .. MaxSeq /\ s \in Seqs /\ latest' = s /\ latest' \in 0 .. MaxSeq
  BY SeqAssumption DEF BodyInv, DrainTypes, Prompt, Seqs
<1>2. /\ inbox' = [inbox EXCEPT ![s] = [state |-> "pending", delivery |-> delivery]]
      /\ UNCHANGED <<vars, retries, body, promised>>
  BY DEF Prompt
<1>3. \A t \in Seqs : inbox[t].state # "none" => t < s
  BY <1>1 DEF InboxInv, RowsAdmitted, Seqs
<1>4. inbox[s].state = "none"
  BY <1>1, <1>3 DEF BodyInv, DrainTypes, Rows, Seqs
<1>5. \A k \in Slots : SameEntry(k)
  BY <1>2 DEF SameEntry, vars
<1>6. calls' \in Seq(CallsOnWay) /\ Len(calls') <= MaxCalls
  BY <1>1, Sent DEF Prompt, BodyInv, DrainTypes
<1> HIDE DEF s
<1>7. InboxInv' /\ inbox' \in [Seqs -> Rows]
  BY <1>1, <1>2, <1>3, <1>4, <1>5, AdmittedKept DEF BodyInv
<1>8. QED
  BY <1>1, <1>2, <1>6, <1>7 DEF BodyInv, DrainTypes

LEMMA OtherCallsKept ==
    ASSUME BodyInv, InboxInv, (\E s \in Seqs : RetryPrompt(s)) \/ RequestInterrupt
    PROVE  DrainTypes' /\ InboxInv'
<1>1. /\ UNCHANGED <<vars, inbox, body, promised>>
      /\ latest \in Int /\ latest' \in 0 .. MaxSeq /\ latest' >= latest
      /\ retries' \in 0 .. MaxRetries
  <2>1. latest \in 0 .. MaxSeq /\ retries \in 0 .. MaxRetries
    BY DEF BodyInv, DrainTypes
  <2>2. QED
    BY <2>1, SeqAssumption, CallsAssumption DEF RetryPrompt, RequestInterrupt
<1>2. calls' \in Seq(CallsOnWay) /\ Len(calls') <= MaxCalls
  <2>1. CASE \E s \in Seqs : RetryPrompt(s)
    BY <2>1, Sent DEF RetryPrompt, BodyInv
  <2>2. CASE RequestInterrupt
    <3>1. latest + 1 \in Seqs
      BY <2>2, SeqAssumption DEF RequestInterrupt, BodyInv, DrainTypes, Seqs
    <3>2. QED
      BY <2>2, <3>1, Sent DEF RequestInterrupt, BodyInv
  <2>3. QED
    BY <2>1, <2>2
<1>3. \A k \in Slots : SameEntry(k)
  BY <1>1 DEF SameEntry, vars
<1>4. InboxInv'
  BY <1>1, <1>3, SameInbox
<1>5. QED
  BY <1>1, <1>2, <1>4 DEF BodyInv, DrainTypes

\* A call arrives, a drain starts or ends.
LEMMA CoordinatorKept ==
    ASSUME BodyInv, InboxInv, [Next]_vars,
           \/ \E i \in 1 .. MaxCalls : Deliver(i)
           \/ \E c \in Callers : Resume(c)
           \/ \E k \in Slots : Starts(k) \/ Ends(k) \/ Fails(k) \/ Stops(k)
    PROVE  DrainTypes' /\ InboxInv'
<1>1. BodiesFollow /\ UNCHANGED <<latest, inbox, retries>>
  BY DEF Deliver, Resume, Starts, Ends, Fails, Stops, Settled
<1>2. /\ calls' \in Seq(CallsOnWay) /\ Len(calls') <= MaxCalls
      /\ promised' \subseteq Seqs
  <2>1. CASE \E i \in 1 .. MaxCalls : Deliver(i)
    <3>1. PICK i \in 1 .. MaxCalls : Deliver(i)
      BY <2>1
    <3>2. i \in 1 .. Len(calls) /\ calls' = Without(calls, i)
      BY <3>1 DEF Deliver
    <3>3. /\ calls[i].seq \in Seqs /\ calls' \in Seq(CallsOnWay)
          /\ Len(calls') = Len(calls) - 1 /\ Len(calls) \in Int /\ Len(calls) <= MaxCalls
      BY <3>2, CallTaken DEF BodyInv, DrainTypes
    <3>4. promised' \subseteq Seqs
      BY <3>1, <3>3 DEF Deliver, DeliverWake, DeliverInterrupt, BodyInv, DrainTypes
    <3>5. QED
      BY <3>3, <3>4, CallsAssumption
  <2>2. CASE /\ UNCHANGED calls
             /\ promised' \subseteq promised
    BY <2>2 DEF BodyInv, DrainTypes
  <2>3. CASE \E c \in Callers : Resume(c)
    BY <2>2, <2>3 DEF Resume
  <2>4. CASE \E k \in Slots : Starts(k) \/ Ends(k) \/ Fails(k) \/ Stops(k)
    BY <2>2, <2>4 DEF Starts, Ends, Fails, Stops, Settled
  <2>5. QED
    BY <2>1, <2>3, <2>4
<1>3. body' \in [Slots -> Bodies]
  BY <1>1, BodiesFollowType DEF BodyInv
<1>4. InboxInv'
  BY <1>1, FollowKept
<1>5. QED
  BY <1>1, <1>2, <1>3, <1>4 DEF BodyInv, DrainTypes

LEMMA StillKept ==
    ASSUME BodyInv, InboxInv,
           \/ \E c \in Callers : Abandon(c)
           \/ CloseSession \/ RestartSession \/ UNCHANGED allVars
    PROVE  DrainTypes' /\ InboxInv'
<1>1. /\ UNCHANGED <<latest, inbox, calls, retries, body, entries>>
      /\ promised' \subseteq promised
  BY DEF Abandon, Leave, CloseSession, Close, RestartSession, Restart, allVars, vars, drainVars
<1>2. latest' \in Int /\ latest \in Int /\ latest' >= latest /\ \A k \in Slots : SameEntry(k)
  BY <1>1 DEF SameEntry, BodyInv, DrainTypes
<1>3. InboxInv'
  BY <1>1, <1>2, SameInbox
<1>4. QED
  BY <1>1, <1>3 DEF BodyInv, DrainTypes

----------------------------------------------------------------------------
(* The invariant of the Session.                                           *)

SessionInv == BodyInv /\ InboxInv

LEMMA DrainInitInv == ASSUME DrainInit PROVE Init /\ SessionInv
<1>1. Init /\ IInv
  BY InitInv DEF DrainInit
<1>2. \A k \in Slots : body[k] = NoBody
  BY DEF DrainInit
<1>3. \A s \in Seqs : inbox[s] = [state |-> "none", delivery |-> "steer"]
  BY DEF DrainInit
<1>4. inbox \in [Seqs -> Rows] /\ body \in [Slots -> Bodies]
  BY BodyTypes DEF DrainInit, Rows, Deliveries
<1>5. calls \in Seq(CallsOnWay) /\ Len(calls) <= MaxCalls
  <2>1. calls = <<>>
    BY DEF DrainInit
  <2>2. calls \in Seq(CallsOnWay) /\ Len(calls) = 0
    BY <2>1, EmptySeq
  <2>3. QED
    BY <2>2, CallsAssumption
<1>6. DrainTypes
  BY <1>4, <1>5, SeqAssumption, CallsAssumption DEF DrainInit, DrainTypes
<1>7. RowsAdmitted /\ PromotedInOrder
  BY <1>3 DEF RowsAdmitted, PromotedInOrder
<1>8. WakesPromising
  BY <1>2 DEF WakesPromising, Promising, NoBody
<1>9. QED
  BY <1>1, <1>6, <1>7, <1>8 DEF SessionInv, BodyInv, InboxInv

LEMMA DrainStepInv == ASSUME SessionInv, [DrainNext]_allVars PROVE [Next]_vars /\ SessionInv'
<1>1. BodyInv /\ InboxInv /\ IInv /\ DrainTypes
  BY DEF SessionInv, BodyInv
<1>2. [Next]_vars
  BY <1>1, CoordinatorStep
<1>3. IInv'
  BY <1>1, <1>2, StepInv
<1>4. ASSUME NEW k \in Slots, DrainMoves(k) PROVE DrainTypes' /\ InboxInv'
  BY <1>1, <1>4, AsksKept, TurnKept, QueuedKept, SteersKept DEF DrainMoves
<1>5. CASE UNCHANGED allVars
  BY <1>1, <1>2, <1>3, <1>5, StillKept DEF SessionInv, BodyInv, InboxInv
<1>6. CASE DrainNext
  <2>1. DrainTypes' /\ InboxInv'
    BY <1>1, <1>2, <1>4, <1>6, ProviderKept, PromptKept, OtherCallsKept, CoordinatorKept, StillKept
    DEF DrainNext
  <2>2. QED
    BY <1>2, <1>3, <2>1 DEF SessionInv, BodyInv, InboxInv
<1>7. QED
  BY <1>5, <1>6

LEMMA DrainSpecInv == DrainSpec => []SessionInv
<1>1. DrainInit => SessionInv
  BY DrainInitInv
<1>2. SessionInv /\ [DrainNext]_allVars => SessionInv'
  BY DrainStepInv
<1>3. QED
  BY <1>1, <1>2, PTL DEF DrainSpec

----------------------------------------------------------------------------
(* Theorems about the Session.                                             *)

\* The Session drives the coordinator as its specification allows, so every
\* theorem about the coordinator holds of the Session.
THEOREM SessionUsesCoordinator == DrainSpec => Spec
<1>1. DrainInit => Init
  BY DrainInitInv
<1>2. SessionInv /\ [DrainNext]_allVars => [Next]_vars
  BY DrainStepInv
<1>3. QED
  BY <1>1, <1>2, DrainSpecInv, PTL DEF DrainSpec, Spec

\* The inbox, the calls on their way and the bodies keep their types.
THEOREM SessionTypes == DrainSpec => []DrainTypeOK
<1>1. SessionInv => DrainTypeOK
  BY TypesAgree DEF SessionInv, BodyInv, IInv
<1>2. QED
  BY <1>1, DrainSpecInv, PTL

\* A drain that was only woken reaches the provider with an input it promoted
\* itself, whatever is admitted or interrupted between its statements.
THEOREM WakesPromote == DrainSpec => []WakePromotes
<1>1. SessionInv => WakePromotes
  BY DEF SessionInv, InboxInv, WakesPromising, WakePromotes, At, Promising
<1>2. QED
  BY <1>1, DrainSpecInv, PTL

\* Inputs of one delivery become visible in the order of their admission.
THEOREM AdmissionOrder == DrainSpec => []PromotedInOrder
<1>1. SessionInv => PromotedInOrder
  BY DEF SessionInv, InboxInv
<1>2. QED
  BY <1>1, DrainSpecInv, PTL

\* The promises of the coordinator, of the Session that the run checks: one
\* drain at a time, no caller forgotten, and a success that was forced.
THEOREM SessionKeepsCoordinator ==
    DrainSpec => [](AtMostOneDrain /\ JoinedNotForgotten /\ AnswerMeansForced)
BY SessionUsesCoordinator, OneDrainAtATime, NoCallerForgotten, SuccessMeansForced, PTL

\* With calls that arrive in the order of their commits, or with no caller of
\* resume, a Session loses no wake and takes only the steps of the lane.
THEOREM SessionKeepsLane == ASSUME Orderly PROVE DrainSpec => []DemandKept /\ LaneSteps
BY SessionUsesCoordinator, NoWakeLost, CoordinatorImplementsLane, PTL
=============================================================================
