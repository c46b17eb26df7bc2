------------------------- MODULE SessionSync_proofs -------------------------
(***************************************************************************)
(* Theorems about a session that several processes keep, for any number of *)
(* workspaces, events, moves and failures.                                 *)
(*                                                                         *)
(* A step changes at most one log, and appends one event to it.  The lemma *)
(* LogSteps says which events there are: new ones, and copies of events of *)
(* another log.  CoreInv, the invariant it rests on, says where the events *)
(* of streams, answers and copies come from.  What the logs have in common *)
(* (HasInv, Written, Unmoved) follows from LogSteps and from the order of  *)
(* the steps of a move (MoveSteps).                                        *)
(***************************************************************************)
EXTENDS SessionSync, SequenceTheorems, FiniteSetTheorems, TLAPS

----------------------------------------------------------------------------
(* The core invariant, in parts.                                           *)

\* An event of a log is the one of its sequence number, and its id is used once.
Indexed == \A n \in Nodes : \A i \in 1..Len(log[n]) : log[n][i].seq = i /\ log[n][i].id <= made
Unique  == \A n \in Nodes : \A i, j \in 1..Len(log[n]) : log[n][i].id = log[n][j].id => i = j

LogsInv == /\ log \in [Nodes -> Seq(Event)] /\ made \in 1..MaxEvents
           /\ Indexed /\ Unique

LoopPhases == {"dead", "down", "asked", "replaying", "up"}
MovePhases == {"idle", "asked", "replaying", "claim", "rows", "copy", "place"}

Places == [from : Nodes \cup {None}, to : Nodes \cup {None}]

RestTypes ==
    /\ owner \in [Nodes -> Nodes \cup {None}]
    /\ phase \in [Nodes -> LoopPhases \cup MovePhases]
    /\ \A w \in Remotes : phase[w] \in LoopPhases
    /\ phase[Home] \in MovePhases
    /\ stream \in [Remotes -> Seq(Event)] /\ batch \in [Nodes -> Seq(Event)]
    /\ known \in [Nodes -> 0..MaxEvents]
    /\ warp \in Places
    /\ moves \in 0..MaxMoves /\ cuts \in 0..MaxCuts

\* Where a move leads.  Home catches up with remote workspaces and copies to
\* them only.
WarpInv ==
    /\ phase[Home] \in {"asked", "replaying"} => warp.from \in Remotes
    /\ phase[Home] \in {"rows", "copy"} => warp.to \in Remotes
    /\ phase[Home] # "idle" => warp.to \in Nodes

\* A stream carries what its workspace has published, an answer what the
\* workspace has in its log, a copy what Home has.
Sent == \A w \in Remotes : \A i \in 1..Len(stream[w]) :
            stream[w][i].by = w /\ Same(w, stream[w][i])

Fetched ==
    /\ \A w \in Remotes : \A i \in 1..Len(batch[w]) : Same(w, batch[w][i])
    /\ phase[Home] = "replaying" => \A i \in 1..Len(batch[Home]) : Same(warp.from, batch[Home][i])
    /\ phase[Home] = "copy" => \A i \in 1..Len(batch[Home]) : Same(Home, batch[Home][i])

CoreInv == LogsInv /\ RestTypes /\ WarpInv /\ Sent /\ Fetched

----------------------------------------------------------------------------
(* What a step does to the logs.                                           *)

\* A new event e of node n: one that moves nothing, or an end of the move.
Fresh(n, e) ==
    /\ made < MaxEvents /\ made' = made + 1
    /\ e.id = made + 1 /\ e.by = n
    /\ \/ Lived(n) /\ e.to = None
       \/ phase[Home] = "copy" /\ batch[Home] = <<>> /\ n = warp.to /\ e.to = n
       \/ phase[Home] = "place" /\ n = Home /\ e.to = warp.to

\* The copy of event e of a workspace that Home follows, or of Home itself.
Pulled(n, e) ==
    /\ n = Home
    /\ \E w \in Remotes : Same(w, e) /\ owner[Home] \in {None, w}
Pushed(n, e) ==
    /\ phase[Home] = "copy" /\ n = warp.to
    /\ Same(Home, e)
Copied(n, e) == ~Reused(n, e) /\ made' = made /\ (Pulled(n, e) \/ Pushed(n, e))

Grows(n, e) == /\ Stores(n, e) /\ UNCHANGED shown
               /\ e.seq = Len(log[n]) + 1
               /\ Fresh(n, e) \/ Copied(n, e)

LogsRest == log' = log /\ made' = made /\ (UNCHANGED <<tail, shown>> \/ LogTail!Open \/ LogTail!Follow \/ LogTail!Close)

LEMMA NodesDef == Home \in Nodes /\ Remotes \subseteq Nodes /\ None \notin Nodes /\ Home \notin Remotes
BY SyncAssumption DEF Nodes

\* A log has no more events than were published.
LEMMA Short == ASSUME LogsInv, NEW n \in Nodes PROVE Len(log[n]) \in Nat /\ Len(log[n]) <= made
<1> DEFINE L == Len(log[n])
<1> DEFINE ids == [i \in 1..L |-> log[n][i].id]
<1>1. L \in Nat /\ log[n] \in Seq(Event) /\ made \in Nat
  BY SyncAssumption DEF LogsInv
<1>2. \A i \in 1..L : log[n][i] \in Event /\ log[n][i].id \in 1..made
  <2>1. \A i \in 1..L : log[n][i] \in Event
    BY <1>1
  <2>2. \A i \in 1..L : log[n][i].id \in Nat /\ log[n][i].id >= 1 /\ log[n][i].id <= made
    BY <1>1, <2>1, SyncAssumption DEF LogsInv, Indexed, Event
  <2>3. QED
    BY <1>1, <2>1, <2>2
<1>3. ids \in Injection(1..L, 1..made)
  BY <1>2 DEF Injection, IsInjective, LogsInv, Unique
<1>4. IsFiniteSet(1..made) /\ Cardinality(1..made) = made
  BY <1>1, FS_Interval
<1>5. Cardinality(1..L) = L
  BY <1>1, FS_Interval
<1>6. Cardinality(1..L) <= Cardinality(1..made)
  BY <1>3, <1>4, FS_Injection
<1>7. QED
  BY <1>1, <1>4, <1>5, <1>6

LEMMA EventOf ==
    ASSUME LogsInv, NEW n \in Nodes, NEW e, Same(n, e), e \in Event
    PROVE  e.seq \in 1..Len(log[n]) /\ log[n][e.seq] = e /\ e.id <= made
BY DEF LogsInv, Indexed, Same, Event

\* A new event has its type.
LEMMA PublishSteps ==
    ASSUME CoreInv, NEW n \in Nodes, NEW to \in Nodes \cup {None}, Publish(n, to),
           NEW e, e = [seq |-> Len(log[n]) + 1, id |-> made + 1, by |-> n, to |-> to]
    PROVE  /\ e \in Event /\ Stores(n, e) /\ e.seq = Len(log[n]) + 1
           /\ made < MaxEvents /\ made' = made + 1
           /\ e.id = made + 1 /\ e.by = n /\ e.to = to
           /\ stream' = [w \in Remotes |-> IF w = n /\ phase[w] \notin {"dead", "down"}
                                             THEN Append(stream[w], e) ELSE stream[w]]
<1>1. made < MaxEvents /\ made' = made + 1 /\ Stores(n, e)
      /\ stream' = [w \in Remotes |-> IF w = n /\ phase[w] \notin {"dead", "down"}
                                        THEN Append(stream[w], e) ELSE stream[w]]
  BY DEF Publish
<1>2. Len(log[n]) \in Nat /\ Len(log[n]) <= made /\ made \in 1..MaxEvents
  BY Short DEF CoreInv, LogsInv
<1>3. Len(log[n]) + 1 \in 1..MaxEvents /\ made + 1 \in 1..MaxEvents
  BY <1>1, <1>2, SyncAssumption
<1>4. e \in Event
  BY <1>3 DEF Event
<1>5. QED
  BY <1>1, <1>4

\* A replayed event that is stored follows the log.
LEMMA ReplaySteps ==
    ASSUME CoreInv, NEW n \in Nodes, NEW m \in Nodes, NEW e \in Event, Same(m, e),
           NEW by \in Nodes, NEW strict \in BOOLEAN,
           Replay(n, e, by, strict) \/ Refuse(n, e, by, strict)
    PROVE  /\ \/ log' = log /\ tail' = tail
              \/ Stores(n, e) /\ Fits(n, e, by)
           /\ owner' \in [Nodes -> Nodes \cup {None}]
<1>1. owner \in [Nodes -> Nodes \cup {None}]
  BY DEF CoreInv, RestTypes
<1>2. CASE Refuse(n, e, by, strict)
  BY <1>1, <1>2 DEF Refuse
<1>3. CASE Replay(n, e, by, strict)
  <2>1. owner' = owner \/ owner' = [owner EXCEPT ![n] = by]
    BY <1>3 DEF Replay
  <2>2. Fits(n, e, by) => Stores(n, e)
    BY <1>3 DEF Replay
  <2>3. ~Fits(n, e, by) => log' = log /\ tail' = tail
    BY <1>3 DEF Replay
  <2>4. QED
    BY <1>1, <2>1, <2>2, <2>3
<1>4. QED
  BY <1>2, <1>3

LEMMA HeadOf == ASSUME NEW S, NEW s \in Seq(S), s # <<>>
                PROVE  Head(s) \in S /\ Len(s) \in Nat \ {0} /\ Head(s) = s[1]
BY EmptySeq

\* Home pulls the first event of its answer, or of a stream.
LEMMA PullSteps ==
    ASSUME CoreInv, NEW w \in Remotes, NEW e \in Event, Same(w, e),
           Replay(Home, e, w, FALSE) \/ Refuse(Home, e, w, FALSE),
           UNCHANGED <<made, shown>>
    PROVE  /\ LogsRest \/ Grows(Home, e)
           /\ owner' \in [Nodes -> Nodes \cup {None}]
<1>1. w \in Nodes /\ Home \in Nodes
  BY NodesDef
<1>2. /\ \/ log' = log /\ tail' = tail
         \/ Stores(Home, e) /\ Fits(Home, e, w)
      /\ owner' \in [Nodes -> Nodes \cup {None}]
  BY <1>1, ReplaySteps
<1>3. Fits(Home, e, w) => e.seq = Len(log[Home]) + 1 /\ Copied(Home, e)
  BY DEF Fits, Fenced, Copied, Pulled
<1>4. QED
  BY <1>2, <1>3 DEF LogsRest, Grows

LEMMA LoopSteps ==
    ASSUME CoreInv, NEW k \in Nodes, CatchesUp(k) \/ CatchUpDies(k)
    PROVE  /\ LogsRest \/ (Grows(Home, Head(batch[k])) /\ Head(batch[k]) \in Event)
           /\ owner' \in [Nodes -> Nodes \cup {None}]
<1>1. batch[k] # <<>> /\ phase[k] = "replaying" /\ UNCHANGED <<made, shown>>
      /\ (Replay(Home, Head(batch[k]), Space(k), FALSE) \/ Refuse(Home, Head(batch[k]), Space(k), FALSE))
  BY DEF CatchesUp, CatchUpDies
<1>2. Head(batch[k]) \in Event /\ Len(batch[k]) \in Nat \ {0} /\ Head(batch[k]) = batch[k][1]
  BY <1>1, HeadOf DEF CoreInv, RestTypes
<1>3. Space(k) \in Remotes /\ Same(Space(k), Head(batch[k]))
  <2>1. CASE k = Home
    BY <1>1, <1>2, <2>1 DEF CoreInv, WarpInv, Fetched, Space
  <2>2. CASE k # Home
    BY <1>1, <1>2, <2>2 DEF CoreInv, Fetched, Space, Nodes
  <2>3. QED
    BY <2>1, <2>2
<1>4. QED
  BY <1>1, <1>2, <1>3, PullSteps

LEMMA ReceiveSteps ==
    ASSUME CoreInv, NEW w \in Remotes, Receive(w)
    PROVE  /\ LogsRest \/ (Grows(Home, Head(stream[w])) /\ Head(stream[w]) \in Event)
           /\ owner' \in [Nodes -> Nodes \cup {None}]
<1>1. stream[w] # <<>> /\ UNCHANGED <<made, shown>>
      /\ (Replay(Home, Head(stream[w]), w, FALSE) \/ Refuse(Home, Head(stream[w]), w, FALSE))
  BY DEF Receive
<1>2. Head(stream[w]) \in Event /\ Len(stream[w]) \in Nat \ {0} /\ Head(stream[w]) = stream[w][1]
  BY <1>1, HeadOf DEF CoreInv, RestTypes
<1>3. Same(w, Head(stream[w]))
  BY <1>2 DEF CoreInv, Sent
<1>4. QED
  BY <1>1, <1>2, <1>3, PullSteps

LEMMA CopySteps ==
    ASSUME CoreInv, Copy \/ CopyDies
    PROVE  /\ LogsRest \/ (Grows(warp.to, Head(batch[Home])) /\ Head(batch[Home]) \in Event)
           /\ owner' \in [Nodes -> Nodes \cup {None}]
<1> DEFINE e == Head(batch[Home])
<1>1. batch[Home] # <<>> /\ phase[Home] = "copy" /\ UNCHANGED <<made, shown>>
      /\ (Replay(warp.to, e, warp.to, TRUE) \/ Refuse(warp.to, e, warp.to, TRUE))
  BY DEF Copy, CopyDies
<1>2. e \in Event /\ Len(batch[Home]) \in Nat \ {0} /\ e = batch[Home][1]
  BY <1>1, HeadOf, NodesDef DEF CoreInv, RestTypes
<1>3. warp.to \in Nodes /\ Same(Home, e) /\ Home \in Nodes
  BY <1>1, <1>2, NodesDef DEF CoreInv, WarpInv, Fetched
<1> HIDE DEF e
<1>4. /\ \/ log' = log /\ tail' = tail
         \/ Stores(warp.to, e) /\ Fits(warp.to, e, warp.to)
      /\ owner' \in [Nodes -> Nodes \cup {None}]
  BY <1>1, <1>2, <1>3, ReplaySteps
<1>5. Fits(warp.to, e, warp.to) => e.seq = Len(log[warp.to]) + 1 /\ Copied(warp.to, e)
  BY <1>1, <1>3 DEF Fits, Copied, Pushed
<1>6. QED
  BY <1>1, <1>2, <1>4, <1>5 DEF LogsRest, Grows, e

LEMMA FreshSteps ==
    ASSUME CoreInv, NEW n \in Nodes, NEW to \in Nodes \cup {None}, Publish(n, to), shown' = shown,
           \/ Lived(n) /\ to = None
           \/ phase[Home] = "copy" /\ batch[Home] = <<>> /\ n = warp.to /\ to = n
           \/ phase[Home] = "place" /\ n = Home /\ to = warp.to
    PROVE  \E e \in Event : Grows(n, e)
<1> DEFINE e == [seq |-> Len(log[n]) + 1, id |-> made + 1, by |-> n, to |-> to]
<1>1. /\ e \in Event /\ Stores(n, e) /\ e.seq = Len(log[n]) + 1
      /\ made < MaxEvents /\ made' = made + 1
      /\ e.id = made + 1 /\ e.by = n /\ e.to = to
  BY PublishSteps
<1> HIDE DEF e
<1>2. Fresh(n, e)
  BY <1>1 DEF Fresh
<1>3. QED
  BY <1>1, <1>2 DEF Grows

LEMMA LogSteps ==
    ASSUME CoreInv, [Next]_vars
    PROVE  LogsRest \/ \E n \in Nodes, e \in Event : Grows(n, e)
<1> USE NodesDef
<1>1. CASE UNCHANGED vars
  BY <1>1 DEF vars, LogsRest
<1>2. ASSUME NEW k \in Nodes, Pulls(k) \/ AskFails(k) PROVE LogsRest \/ \E e \in Event : Grows(Home, e)
  <2>1. CASE Answer(k) \/ CaughtUp(k) \/ AskFails(k)
    BY <2>1 DEF Answer, CaughtUp, AskFails, LogsRest
  <2>2. QED
    BY <1>2, <2>1, LoopSteps DEF Pulls
<1>3. ASSUME NEW k \in Nodes, Write(k) PROVE \E e \in Event : Grows(k, e)
  BY <1>3, FreshSteps DEF Write
<1>4. ASSUME NEW w \in Remotes, Start(w) \/ Connect(w) \/ Receive(w) \/ Cut(w)
      PROVE  LogsRest \/ \E e \in Event : Grows(Home, e)
  <2>1. CASE Start(w) \/ Connect(w) \/ Cut(w)
    BY <2>1 DEF Start, Connect, Cut, LogsRest
  <2>2. QED
    BY <1>4, <2>1, ReceiveSteps
<1>5. ASSUME Restart \/ TailOpens \/ TailMoves PROVE LogsRest
  <2>1. CASE Restart
    BY <2>1 DEF Restart, LogsRest, LogTail!Close, LogTail!Closed
  <2>2. CASE TailOpens \/ TailMoves
    BY <2>2 DEF TailOpens, TailMoves, others, LogsRest
  <2>3. QED
    BY <1>5, <2>1, <2>2
<1>6. ASSUME Moves PROVE LogsRest \/ \E n \in Nodes, e \in Event : Grows(n, e)
  <2>1. CASE (\E to \in Nodes : Warp(to)) \/ Claim \/ ReadRows
    BY <2>1 DEF Warp, Claim, ReadRows, LogsRest
  <2>2. CASE Copy \/ CopyDies
    BY <2>2, CopySteps DEF Grows, Copied, Pushed, CoreInv, WarpInv, Copy, CopyDies
  <2>3. ASSUME phase[Home] = "copy", batch[Home] = <<>>, shown' = shown, Publish(warp.to, warp.to)
        PROVE  \E e \in Event : Grows(warp.to, e)
    <3>1. warp.to \in Nodes
      BY <2>3 DEF CoreInv, WarpInv
    <3>2. QED
      BY <2>3, <3>1, FreshSteps
  <2>4. CASE Steal \/ Aborts
    BY <2>3, <2>4 DEF Steal, Aborts, LogsRest, CoreInv, WarpInv
  <2>5. CASE Placed
    <3>1. warp.to \in Nodes /\ phase[Home] = "place" /\ Publish(Home, warp.to) /\ shown' = shown
      BY <2>5 DEF Placed, CoreInv, WarpInv
    <3>2. QED
      BY <3>1, FreshSteps
  <2>6. QED
    BY <1>6, <2>1, <2>2, <2>4, <2>5 DEF Moves
<1>7. QED
  BY <1>1, <1>2, <1>3, <1>4, <1>5, <1>6 DEF Next

----------------------------------------------------------------------------
(* The core invariant holds.                                               *)

\* Event e is in the log of n after the step.
SameNext(n, e) == e.seq <= Len(log'[n]) /\ log'[n][e.seq] = e

Kept == \A n \in Nodes, e \in Event : Same(n, e) => SameNext(n, e)

\* The log that grows, and the others.
LEMMA LogGrown ==
    ASSUME LogsInv, NEW n \in Nodes, NEW e \in Event, Grows(n, e)
    PROVE  /\ log' \in [Nodes -> Seq(Event)]
           /\ \A m \in Nodes \ {n} : log'[m] = log[m]
           /\ Len(log[n]) \in Nat /\ Len(log'[n]) = Len(log[n]) + 1
           /\ \A i \in 1..Len(log[n]) : log'[n][i] = log[n][i]
           /\ log'[n][Len(log[n]) + 1] = e
           /\ made' \in 1..MaxEvents /\ made' >= made /\ e.id <= made'
           /\ \A i \in 1..Len(log[n]) : log[n][i].id # e.id
<1>1. log[n] \in Seq(Event) /\ log \in [Nodes -> Seq(Event)] /\ made \in 1..MaxEvents
  BY DEF LogsInv
<1>2. log' = [log EXCEPT ![n] = Append(log[n], e)]
  BY DEF Grows, Stores
<1>3. /\ Append(log[n], e) \in Seq(Event) /\ Len(Append(log[n], e)) = Len(log[n]) + 1
      /\ \A i \in 1..Len(log[n]) : Append(log[n], e)[i] = log[n][i]
      /\ Append(log[n], e)[Len(log[n]) + 1] = e
  BY <1>1, AppendProperties
<1>4. log'[n] = Append(log[n], e) /\ log' \in [Nodes -> Seq(Event)]
      /\ \A m \in Nodes \ {n} : log'[m] = log[m]
  BY <1>1, <1>2, <1>3
<1>5. Len(log[n]) \in Nat
  BY <1>1
<1>6. made' \in 1..MaxEvents /\ made' >= made /\ e.id <= made'
      /\ \A i \in 1..Len(log[n]) : log[n][i].id # e.id
  <2>1. CASE Fresh(n, e)
    <3>1. made' = made + 1 /\ e.id = made + 1 /\ made < MaxEvents
      BY <2>1 DEF Fresh
    <3>2. \A i \in 1..Len(log[n]) : log[n][i].id <= made
      BY DEF LogsInv, Indexed
    <3>3. \A i \in 1..Len(log[n]) : log[n][i].id # made + 1
      <4>1. \A i \in 1..Len(log[n]) : log[n][i] \in Event
        BY <1>1
      <4>2. \A i \in 1..Len(log[n]) : log[n][i].id \in Int
        BY <4>1, SyncAssumption DEF Event
      <4>3. QED
        BY <1>1, <3>2, <4>2, SyncAssumption
    <3>4. QED
      BY <1>1, <3>1, <3>3, SyncAssumption
  <2>2. CASE Copied(n, e)
    <3>1. \E m \in Nodes : Same(m, e)
      BY <2>2, NodesDef DEF Copied, Pulled, Pushed
    <3>2. e.id <= made
      BY <3>1, EventOf
    <3>3. DOMAIN log[n] = 1..Len(log[n])
      BY <1>1, LenProperties
    <3>4. \A i \in 1..Len(log[n]) : log[n][i].id # e.id
      BY <2>2, <3>3 DEF Copied, Reused
    <3>5. QED
      BY <1>1, <2>2, <3>2, <3>4, SyncAssumption DEF Copied
  <2>3. QED
    BY <2>1, <2>2 DEF Grows
<1>7. QED
  BY <1>3, <1>4, <1>5, <1>6

LEMMA LogsGrow ==
    ASSUME LogsInv, NEW n \in Nodes, NEW e \in Event, Grows(n, e)
    PROVE  LogsInv' /\ Kept /\ SameNext(n, e)
<1> DEFINE L == Len(log[n])
<1>1. /\ log' \in [Nodes -> Seq(Event)]
      /\ \A m \in Nodes \ {n} : log'[m] = log[m]
      /\ L \in Nat /\ Len(log'[n]) = L + 1
      /\ \A i \in 1..L : log'[n][i] = log[n][i]
      /\ log'[n][L + 1] = e
      /\ made' \in 1..MaxEvents /\ made' >= made /\ e.id <= made'
      /\ \A i \in 1..L : log[n][i].id # e.id
  BY LogGrown
<1>2. e.seq = L + 1
  BY DEF Grows
<1>3. \A m \in Nodes : log[m] \in Seq(Event) /\ Len(log[m]) \in Nat
  BY DEF LogsInv
<1>4. \A m \in Nodes : \A i \in 1..Len(log[m]) : log[m][i].id \in Int
  <2>1. \A m \in Nodes : \A i \in 1..Len(log[m]) : log[m][i] \in Event
    BY <1>3
  <2>2. QED
    BY <2>1, SyncAssumption DEF Event
<1> HIDE DEF L
<1>5. Indexed'
  <2>1. ASSUME NEW m \in Nodes, NEW i \in 1..Len(log'[m])
        PROVE  log'[m][i].seq = i /\ log'[m][i].id <= made'
    <3>1. CASE m # n \/ i \in 1..L
      <4>1. i \in 1..Len(log[m]) /\ log'[m][i] = log[m][i]
        BY <1>1, <2>1, <3>1 DEF L
      <4>2. log[m][i].id <= made /\ log[m][i].seq = i
        BY <4>1 DEF LogsInv, Indexed
      <4>3. made \in Int /\ made' \in Int /\ log[m][i].id \in Int
        BY <1>1, <1>4, <4>1, SyncAssumption DEF LogsInv
      <4>4. QED
        BY <1>1, <4>1, <4>2, <4>3
    <3>2. CASE m = n /\ i = L + 1
      BY <1>1, <1>2, <3>2
    <3>3. QED
      BY <1>1, <2>1, <3>1, <3>2
  <2>2. QED
    BY <2>1 DEF Indexed
<1>6. Unique'
  <2>1. ASSUME NEW m \in Nodes, NEW i \in 1..Len(log'[m]), NEW j \in 1..Len(log'[m]),
               log'[m][i].id = log'[m][j].id
        PROVE  i = j
    <3>1. CASE m # n
      BY <1>1, <2>1, <3>1 DEF LogsInv, Unique
    <3>2. CASE m = n
      <4>1. i \in 1..L \/ i = L + 1
        BY <1>1, <2>1, <3>2
      <4>2. j \in 1..L \/ j = L + 1
        BY <1>1, <2>1, <3>2
      <4>3. CASE i \in 1..L /\ j \in 1..L
        BY <1>1, <2>1, <3>2, <4>3 DEF LogsInv, Unique, L
      <4>4. QED
        BY <1>1, <2>1, <3>2, <4>1, <4>2, <4>3
    <3>3. QED
      BY <3>1, <3>2
  <2>2. QED
    BY <2>1 DEF Unique
<1>7. Kept
  <2>1. ASSUME NEW m \in Nodes, NEW x \in Event, Same(m, x) PROVE SameNext(m, x)
    <3>1. x.seq \in 1..Len(log[m]) /\ log[m][x.seq] = x
      BY <2>1, EventOf
    <3>2. CASE m # n
      BY <1>1, <2>1, <3>2 DEF Same, SameNext
    <3>3. CASE m = n
      BY <1>1, <3>1, <3>3 DEF SameNext, L
    <3>4. QED
      BY <3>2, <3>3
  <2>2. QED
    BY <2>1 DEF Kept
<1>8. SameNext(n, e)
  BY <1>1, <1>2 DEF SameNext
<1>9. QED
  BY <1>1, <1>5, <1>6, <1>7, <1>8 DEF LogsInv

LEMMA LogsKept == ASSUME CoreInv, [Next]_vars PROVE LogsInv' /\ Kept
<1>1. CASE LogsRest
  BY <1>1 DEF LogsRest, CoreInv, LogsInv, Indexed, Unique, Kept, Same, SameNext
<1>2. ASSUME NEW n \in Nodes, NEW e \in Event, Grows(n, e) PROVE LogsInv' /\ Kept
  BY <1>2, LogsGrow DEF CoreInv
<1>3. QED
  BY <1>1, <1>2, LogSteps

\* The part of the state that is not a log.
PhaseTypes == /\ phase \in [Nodes -> LoopPhases \cup MovePhases]
              /\ \A w \in Remotes : phase[w] \in LoopPhases
              /\ phase[Home] \in MovePhases

Numbers == known \in [Nodes -> 0..MaxEvents] /\ moves \in 0..MaxMoves /\ cuts \in 0..MaxCuts

Owners == owner \in [Nodes -> Nodes \cup {None}]

Streams == stream \in [Remotes -> Seq(Event)] /\ Sent

\* What node k has still to replay is in the log of n.
From(k, n) == \A i \in 1..Len(batch[k]) : Same(n, batch[k][i])

Batches == batch \in [Nodes -> Seq(Event)] /\ \A w \in Remotes : From(w, w)

HomeBatch == /\ phase[Home] = "replaying" => From(Home, warp.from)
             /\ phase[Home] = "copy" => From(Home, Home)

LEMMA CoreParts ==
    /\ CoreInv => PhaseTypes /\ Numbers /\ Owners /\ Streams /\ Batches /\ HomeBatch /\ warp \in Places
    /\ LogsInv' /\ PhaseTypes' /\ Numbers' /\ Owners' /\ Streams' /\ Batches' /\ HomeBatch'
         /\ warp' \in Places /\ WarpInv' => CoreInv'
BY DEF CoreInv, RestTypes, Fetched, PhaseTypes, Numbers, Owners, Streams, Batches, HomeBatch, From

LEMMA GoesLoop ==
    ASSUME CoreInv, NEW w \in Remotes, NEW to \in LoopPhases, Goes(w, to)
    PROVE  PhaseTypes' /\ phase'[Home] = phase[Home]
BY NodesDef DEF CoreInv, RestTypes, PhaseTypes, Goes

LEMMA GoesHome ==
    ASSUME CoreInv, NEW to \in MovePhases, Goes(Home, to)
    PROVE  PhaseTypes' /\ phase'[Home] = to
BY NodesDef DEF CoreInv, RestTypes, PhaseTypes, Goes

\* A sequence after its first element was taken, or after it was dropped.
Shrinks(s, t) == t = s \/ t = <<>> \/ (s # <<>> /\ t = Tail(s))

LEMMA ShrinkElements ==
    ASSUME NEW s \in Seq(Event), NEW t, Shrinks(s, t)
    PROVE  t \in Seq(Event) /\ \A i \in 1..Len(t) : \E j \in 1..Len(s) : t[i] = s[j]
<1>1. CASE t = s
  BY <1>1
<1>2. CASE t = <<>>
  BY <1>2
<1>3. CASE s # <<>> /\ t = Tail(s)
  <2>1. t \in Seq(Event) /\ Len(t) = Len(s) - 1 /\ \A i \in 1..Len(t) : t[i] = s[i + 1]
    BY <1>3, HeadTailProperties
  <2>2. Len(s) \in Nat
    OBVIOUS
  <2>3. \A i \in 1..Len(t) : i + 1 \in 1..Len(s)
    BY <2>1, <2>2
  <2>4. QED
    BY <2>1, <2>3
<1>4. QED
  BY <1>1, <1>2, <1>3 DEF Shrinks

LEMMA StreamsShrink ==
    ASSUME CoreInv, Kept, stream' = [w \in Remotes |-> stream'[w]],
           \A w \in Remotes : Shrinks(stream[w], stream'[w])
    PROVE  Streams'
<1>1. ASSUME NEW w \in Remotes
      PROVE  stream'[w] \in Seq(Event)
             /\ \A i \in 1..Len(stream'[w]) : stream'[w][i].by = w /\ SameNext(w, stream'[w][i])
  <2>1. stream[w] \in Seq(Event) /\ w \in Nodes
    BY NodesDef DEF CoreInv, RestTypes
  <2>2. stream'[w] \in Seq(Event)
        /\ \A i \in 1..Len(stream'[w]) : \E j \in 1..Len(stream[w]) : stream'[w][i] = stream[w][j]
    BY <2>1, ShrinkElements
  <2>3. ASSUME NEW i \in 1..Len(stream'[w]) PROVE stream'[w][i].by = w /\ SameNext(w, stream'[w][i])
    <3>1. PICK j \in 1..Len(stream[w]) : stream'[w][i] = stream[w][j]
      BY <2>2, <2>3
    <3>2. stream[w][j].by = w /\ Same(w, stream[w][j]) /\ stream[w][j] \in Event
      BY <2>1 DEF CoreInv, Sent
    <3> DEFINE x == stream[w][j]
    <3> HIDE DEF x
    <3>3. x.by = w /\ Same(w, x) /\ x \in Event /\ stream'[w][i] = x
      BY <3>1, <3>2 DEF x
    <3>4. SameNext(w, stream'[w][i])
      BY <2>1, <3>3 DEF Kept
    <3>5. QED
      BY <3>3, <3>4
  <2>4. QED
    BY <2>2, <2>3
<1>2. QED
  BY <1>1 DEF Streams, Sent, Same, SameNext

LEMMA FromKept ==
    ASSUME CoreInv, Kept, NEW k \in Nodes, NEW n \in Nodes, Shrinks(batch[k], batch'[k]), From(k, n)
    PROVE  batch'[k] \in Seq(Event) /\ \A i \in 1..Len(batch'[k]) : SameNext(n, batch'[k][i])
<1>1. batch[k] \in Seq(Event)
  BY DEF CoreInv, RestTypes
<1>2. batch'[k] \in Seq(Event)
      /\ \A i \in 1..Len(batch'[k]) : \E j \in 1..Len(batch[k]) : batch'[k][i] = batch[k][j]
  <2>1. \A t : Shrinks(batch[k], t) =>
             t \in Seq(Event) /\ \A i \in 1..Len(t) : \E j \in 1..Len(batch[k]) : t[i] = batch[k][j]
    BY <1>1, ShrinkElements
  <2>2. QED
    BY <2>1
<1>3. ASSUME NEW i \in 1..Len(batch'[k]) PROVE SameNext(n, batch'[k][i])
  <2>1. PICK j \in 1..Len(batch[k]) : batch'[k][i] = batch[k][j]
    BY <1>2, <1>3
  <2>2. Same(n, batch[k][j]) /\ batch[k][j] \in Event
    BY <1>1 DEF From
  <2> DEFINE x == batch[k][j]
  <2> HIDE DEF x
  <2>3. Same(n, x) /\ x \in Event /\ batch'[k][i] = x
    BY <2>1, <2>2 DEF x
  <2>4. QED
    BY <2>3 DEF Kept
<1>4. QED
  BY <1>2, <1>3

\* Batches that shrink, one of which may be new.
LEMMA BatchesKept ==
    ASSUME CoreInv, Kept, batch' = [k \in Nodes |-> batch'[k]],
           \A k \in Nodes : \/ Shrinks(batch[k], batch'[k])
                            \/ /\ batch'[k] \in Seq(Event)
                               /\ k \in Remotes => \A i \in 1..Len(batch'[k]) : SameNext(k, batch'[k][i])
    PROVE  Batches'
<1>1. ASSUME NEW k \in Nodes PROVE batch'[k] \in Seq(Event)
  BY <1>1, ShrinkElements DEF CoreInv, RestTypes
<1>2. ASSUME NEW w \in Remotes PROVE From(w, w)'
  <2>1. w \in Nodes /\ From(w, w)
    BY NodesDef DEF CoreInv, Fetched, From
  <2>2. Shrinks(batch[w], batch'[w]) => From(w, w)'
    BY <2>1, FromKept DEF From, Same, SameNext
  <2>3. QED
    BY <2>1, <2>2 DEF From, Same, SameNext
<1>3. QED
  BY <1>1, <1>2 DEF Batches

LEMMA HomeBatchKept ==
    ASSUME CoreInv, Kept, Shrinks(batch[Home], batch'[Home]), phase'[Home] = phase[Home], warp' = warp
    PROVE  HomeBatch' /\ WarpInv'
<1>1. WarpInv'
  BY DEF CoreInv, WarpInv
<1>2. ASSUME phase[Home] = "replaying" PROVE From(Home, warp.from)'
  <2>1. warp.from \in Nodes /\ Home \in Nodes /\ From(Home, warp.from)
    BY <1>2, NodesDef DEF CoreInv, WarpInv, Fetched, From
  <2>2. QED
    BY <2>1, FromKept DEF From, Same, SameNext
<1>3. ASSUME phase[Home] = "copy" PROVE From(Home, Home)'
  <2>1. Home \in Nodes /\ From(Home, Home)
    BY <1>3, NodesDef DEF CoreInv, Fetched, From
  <2>2. QED
    BY <2>1, FromKept DEF From, Same, SameNext
<1>4. QED
  BY <1>1, <1>2, <1>3 DEF HomeBatch

LEMMA StreamsSame == ASSUME CoreInv, Kept, UNCHANGED stream PROVE Streams'
<1>1. stream \in [Remotes -> Seq(Event)]
  BY DEF CoreInv, RestTypes
<1>2. QED
  BY <1>1, StreamsShrink DEF Shrinks

\* The streams after the one of k was cut, if k is a workspace.
LEMMA StreamsCut ==
    ASSUME CoreInv, Kept, NEW k, stream' = [w \in Remotes |-> IF w = k THEN <<>> ELSE stream[w]]
    PROVE  Streams'
BY StreamsShrink DEF Shrinks

LEMMA StreamsTaken ==
    ASSUME CoreInv, Kept, NEW w \in Remotes,
           \/ stream' = [stream EXCEPT ![w] = <<>>]
           \/ stream[w] # <<>> /\ stream' = [stream EXCEPT ![w] = Tail(@)]
    PROVE  Streams'
<1>1. stream \in [Remotes -> Seq(Event)]
  BY DEF CoreInv, RestTypes
<1>2. stream' = [v \in Remotes |-> stream'[v]]
  BY <1>1
<1>3. \A v \in Remotes : Shrinks(stream[v], stream'[v])
  BY <1>1 DEF Shrinks
<1>4. QED
  BY <1>2, <1>3, StreamsShrink

LEMMA BatchesSame == ASSUME CoreInv, Kept, UNCHANGED batch PROVE Batches'
<1>1. batch \in [Nodes -> Seq(Event)]
  BY DEF CoreInv, RestTypes
<1>2. QED
  BY <1>1, BatchesKept DEF Shrinks

LEMMA BatchTaken ==
    ASSUME CoreInv, Kept, NEW k \in Nodes,
           \/ batch' = [batch EXCEPT ![k] = <<>>]
           \/ batch[k] # <<>> /\ batch' = [batch EXCEPT ![k] = Tail(@)]
    PROVE  Batches' /\ Shrinks(batch[Home], batch'[Home])
<1>1. batch \in [Nodes -> Seq(Event)]
  BY DEF CoreInv, RestTypes
<1>2. batch' = [m \in Nodes |-> batch'[m]]
  BY <1>1
<1>3. \A m \in Nodes : Shrinks(batch[m], batch'[m])
  BY <1>1 DEF Shrinks
<1>4. QED
  BY <1>2, <1>3, BatchesKept, NodesDef

LEMMA HomeSame ==
    ASSUME CoreInv, Kept, UNCHANGED batch, phase'[Home] = phase[Home], UNCHANGED warp
    PROVE  HomeBatch' /\ WarpInv' /\ warp' \in Places
BY HomeBatchKept, CoreParts DEF Shrinks

LEMMA Numbered ==
    ASSUME CoreInv, moves' \in 0..MaxMoves, cuts' \in 0..MaxCuts,
           known' = known \/ \E k \in Nodes, x \in 0..MaxEvents : known' = [known EXCEPT ![k] = x]
    PROVE  Numbers'
BY DEF CoreInv, RestTypes, Numbers

LEMMA Counted ==
    ASSUME CoreInv
    PROVE  /\ moves \in 0..MaxMoves /\ (moves < MaxMoves => moves + 1 \in 0..MaxMoves)
           /\ cuts \in 0..MaxCuts /\ (cuts < MaxCuts => cuts + 1 \in 0..MaxCuts)
           /\ 0 \in 0..MaxEvents
BY SyncAssumption DEF CoreInv, RestTypes

LEMMA AsksNumber ==
    ASSUME CoreInv, NEW k \in Nodes, NEW space, Asks(k, space)
    PROVE  \E x \in 0..MaxEvents : known' = [known EXCEPT ![k] = x]
<1>1. Len(log[Home]) \in Nat /\ Len(log[Home]) <= made /\ made \in 1..MaxEvents
  BY NodesDef, Short DEF CoreInv, LogsInv
<1>2. Len(log[Home]) \in 0..MaxEvents /\ 0 \in 0..MaxEvents
  BY <1>1, SyncAssumption
<1>3. QED
  BY <1>2 DEF Asks

\* The loop of a workspace, but for what it replays.
LEMMA LoopCore ==
    ASSUME CoreInv, LogsInv', Kept, NEW w \in Remotes, Start(w) \/ Connect(w) \/ Cut(w)
    PROVE  CoreInv'
<1>1. w \in Nodes /\ {"dead", "down", "asked"} \subseteq LoopPhases
  BY NodesDef DEF LoopPhases
<1>2. PhaseTypes' /\ phase'[Home] = phase[Home]
  <2>1. \E to \in {"dead", "down", "asked"} : Goes(w, to)
    BY DEF Start, Connect, Cut
  <2>2. QED
    BY <1>1, <2>1, GoesLoop
<1>3. Owners' /\ UNCHANGED <<batch, warp>>
  BY CoreParts DEF Owners, Start, Connect, Cut
<1>4. Numbers'
  BY <1>1, Numbered, Counted, AsksNumber DEF Start, Connect, Cut
<1>5. Streams'
  BY StreamsSame, StreamsTaken DEF Start, Connect, Cut
<1>6. QED
  BY <1>2, <1>3, <1>4, <1>5, BatchesSame, HomeSame, CoreParts

LEMMA RestartCore == ASSUME CoreInv, LogsInv', Kept, Restart PROVE CoreInv'
<1>1. PhaseTypes' /\ phase'[Home] = "idle"
  BY NodesDef DEF Restart, PhaseTypes, LoopPhases, MovePhases
<1>2. Owners' /\ Numbers' /\ warp' \in Places
  BY CoreParts, Counted DEF Restart, Owners, Numbers, Nowhere, Places
<1>3. Streams'
  BY StreamsShrink DEF Restart, Shrinks
<1>4. Batches'
  BY BatchesKept DEF Restart, Shrinks
<1>5. HomeBatch' /\ WarpInv'
  BY <1>1 DEF HomeBatch, WarpInv
<1>6. QED
  BY <1>1, <1>2, <1>3, <1>4, <1>5, CoreParts

LEMMA QuietCore ==
    ASSUME CoreInv, LogsInv', Kept, TailOpens \/ TailMoves \/ UNCHANGED vars PROVE CoreInv'
<1>1. UNCHANGED <<owner, phase, stream, known, batch, warp, moves, cuts>>
  BY DEF TailOpens, TailMoves, others, vars
<1>2. PhaseTypes' /\ Numbers' /\ Owners'
  BY <1>1, CoreParts DEF PhaseTypes, Numbers, Owners
<1>3. QED
  BY <1>1, <1>2, StreamsSame, BatchesSame, HomeSame, CoreParts

\* The answer is what the log of the workspace has after the event asked for.
LEMMA AnswerCore == ASSUME CoreInv, LogsInv', Kept, NEW k \in Nodes, Answer(k) PROVE CoreInv'
<1> DEFINE n == Space(k)
<1> DEFINE rows == SubSeq(log[n], known[k] + 1, Len(log[n]))
<1>1. phase[k] = "asked" /\ log' = log
  BY DEF Answer
<1>2. n \in Remotes /\ n \in Nodes
  BY <1>1, NodesDef DEF CoreInv, WarpInv, Space, Nodes
<1>3. rows \in Seq(Event) /\ \A i \in 1..Len(rows) : SameNext(n, rows[i])
  <2> DEFINE from == known[k] + 1
  <2> DEFINE upto == Len(log[n])
  <2>1. log[n] \in Seq(Event) /\ upto \in Nat /\ from \in Nat \ {0}
    <3>1. log[n] \in Seq(Event)
      BY <1>2 DEF CoreInv, LogsInv
    <3>2. known[k] \in 0..MaxEvents
      BY DEF CoreInv, RestTypes
    <3>3. QED
      BY <3>1, <3>2
  <2>2. \A i \in from .. upto : log[n][i] \in Event
    BY <2>1
  <2>3. /\ rows \in Seq(Event)
        /\ Len(rows) = IF from <= upto THEN upto - from + 1 ELSE 0
        /\ \A i \in 1 .. upto - from + 1 : rows[i] = log[n][from + i - 1]
    BY <2>1, <2>2, SubSeqProperties
  <2>4. ASSUME NEW i \in 1..Len(rows) PROVE SameNext(n, rows[i])
    <3>1. i \in 1 .. upto - from + 1 /\ from + i - 1 \in 1..upto
      BY <2>1, <2>3, <2>4
    <3>2. rows[i] = log[n][from + i - 1] /\ log[n][from + i - 1].seq = from + i - 1
      BY <1>2, <2>3, <3>1 DEF CoreInv, LogsInv, Indexed
    <3>3. QED
      BY <1>1, <2>1, <3>1, <3>2 DEF SameNext
  <2>5. QED
    BY <2>3, <2>4
<1> HIDE DEF rows
<1>4. batch \in [Nodes -> Seq(Event)] /\ batch' = [batch EXCEPT ![k] = rows]
  BY DEF CoreInv, RestTypes, Answer, rows
<1>5. Batches'
  <2>1. batch' = [m \in Nodes |-> batch'[m]]
    BY <1>4
  <2>2. ASSUME NEW m \in Nodes
        PROVE  \/ Shrinks(batch[m], batch'[m])
               \/ /\ batch'[m] \in Seq(Event)
                  /\ m \in Remotes => \A i \in 1..Len(batch'[m]) : SameNext(m, batch'[m][i])
    <3>1. CASE m # k
      BY <1>4, <3>1 DEF Shrinks
    <3>2. CASE m = k
      BY <1>3, <1>4, <3>2, NodesDef DEF Space
    <3>3. QED
      BY <3>1, <3>2
  <2>3. QED
    BY <2>1, <2>2, BatchesKept
<1>6. Owners' /\ Streams' /\ warp' = warp /\ warp' \in Places
  BY CoreParts, StreamsSame DEF Owners, Answer
<1>7. Numbers'
  BY Numbered, Counted DEF Answer
<1>8. PhaseTypes' /\ HomeBatch' /\ WarpInv'
  <2>1. Goes(k, "replaying") /\ "replaying" \in LoopPhases /\ "replaying" \in MovePhases
    BY DEF Answer, LoopPhases, MovePhases
  <2>2. CASE k = Home
    <3>1. PhaseTypes' /\ phase'[Home] = "replaying"
      BY <2>1, <2>2, GoesHome
    <3>2. WarpInv'
      BY <1>1, <1>6, <2>2, <3>1 DEF CoreInv, WarpInv
    <3>3. warp' = warp /\ batch'[Home] = rows /\ n = warp.from
      BY <1>4, <1>6, <2>2 DEF Space
    <3>4. From(Home, warp.from)'
      BY <1>3, <3>3 DEF From, Same, SameNext
    <3>5. QED
      BY <3>1, <3>2, <3>4 DEF HomeBatch
  <2>3. CASE k # Home
    <3>1. k \in Remotes
      BY <2>3 DEF Nodes
    <3>2. PhaseTypes' /\ phase'[Home] = phase[Home]
      BY <2>1, <3>1, GoesLoop
    <3>3. Shrinks(batch[Home], batch'[Home])
      BY <1>4, <2>3, NodesDef DEF Shrinks
    <3>4. QED
      BY <1>6, <3>2, <3>3, HomeBatchKept
  <2>4. QED
    BY <2>2, <2>3
<1>9. QED
  BY <1>5, <1>6, <1>7, <1>8, CoreParts

LEMMA AskFailsCore == ASSUME CoreInv, LogsInv', Kept, NEW k \in Nodes, AskFails(k) PROVE CoreInv'
<1>1. Owners' /\ UNCHANGED <<batch, warp>> /\ phase[k] = "asked"
  BY CoreParts DEF Owners, AskFails
<1>2. Numbers'
  BY Numbered, Counted DEF AskFails
<1>3. Streams'
  BY StreamsCut DEF AskFails
<1>4. PhaseTypes' /\ HomeBatch' /\ WarpInv' /\ warp' \in Places
  <2>1. CASE k = Home
    <3>1. PhaseTypes' /\ phase'[Home] = "claim"
      BY <2>1, GoesHome DEF AskFails, MovePhases
    <3>2. QED
      BY <1>1, <2>1, <3>1, CoreParts DEF HomeBatch, WarpInv, CoreInv
  <2>2. CASE k # Home
    <3>1. k \in Remotes
      BY <2>2 DEF Nodes
    <3>2. PhaseTypes' /\ phase'[Home] = phase[Home]
      BY <2>2, <3>1, GoesLoop DEF AskFails, LoopPhases
    <3>3. QED
      BY <1>1, <3>2, HomeSame
  <2>3. QED
    BY <2>1, <2>2
<1>5. QED
  BY <1>1, <1>2, <1>3, <1>4, BatchesSame, CoreParts

LEMMA CaughtUpCore == ASSUME CoreInv, LogsInv', Kept, NEW k \in Nodes, CaughtUp(k) PROVE CoreInv'
<1>1. Owners' /\ UNCHANGED <<stream, known, batch, warp, moves, cuts>>
  BY CoreParts DEF Owners, CaughtUp
<1>2. Numbers'
  BY <1>1, CoreParts DEF Numbers
<1>3. PhaseTypes' /\ HomeBatch' /\ WarpInv' /\ warp' \in Places
  <2>1. CASE k = Home
    <3>1. PhaseTypes' /\ phase'[Home] = "claim" /\ phase[Home] = "replaying"
      BY <2>1, GoesHome DEF CaughtUp, MovePhases
    <3>2. QED
      BY <1>1, <3>1, CoreParts DEF HomeBatch, WarpInv, CoreInv
  <2>2. CASE k # Home
    <3>1. k \in Remotes
      BY <2>2 DEF Nodes
    <3>2. PhaseTypes' /\ phase'[Home] = phase[Home]
      BY <2>2, <3>1, GoesLoop DEF CaughtUp, LoopPhases
    <3>3. QED
      BY <1>1, <3>2, HomeSame
  <2>3. QED
    BY <2>1, <2>2
<1>4. QED
  BY <1>1, <1>2, <1>3, BatchesSame, StreamsSame, CoreParts

LEMMA CatchesUpCore == ASSUME CoreInv, LogsInv', Kept, NEW k \in Nodes, CatchesUp(k) PROVE CoreInv'
<1>1. Owners' /\ UNCHANGED <<phase, stream, known, warp, moves, cuts>>
  BY LoopSteps DEF Owners, CatchesUp
<1>2. PhaseTypes' /\ Numbers'
  BY <1>1, CoreParts DEF Numbers, PhaseTypes
<1>3. Batches' /\ Shrinks(batch[Home], batch'[Home])
  BY BatchTaken DEF CatchesUp
<1>4. HomeBatch' /\ WarpInv' /\ warp' \in Places
  BY <1>1, <1>3, HomeBatchKept, CoreParts
<1>5. QED
  BY <1>1, <1>2, <1>3, <1>4, StreamsSame, CoreParts

LEMMA CatchUpDiesCore == ASSUME CoreInv, LogsInv', Kept, NEW k \in Nodes, CatchUpDies(k) PROVE CoreInv'
<1>1. Owners' /\ UNCHANGED <<known, moves, cuts>>
  BY LoopSteps DEF Owners, CatchUpDies
<1>2. Numbers' /\ Streams'
  BY <1>1, CoreParts, StreamsCut DEF Numbers, CatchUpDies
<1>3. Batches' /\ Shrinks(batch[Home], batch'[Home])
  BY BatchTaken DEF CatchUpDies
<1>4. PhaseTypes' /\ HomeBatch' /\ WarpInv' /\ warp' \in Places
  <2>1. CASE k = Home
    <3>1. PhaseTypes' /\ phase'[Home] = "idle" /\ warp' = Nowhere
      BY <2>1, GoesHome DEF CatchUpDies, MovePhases
    <3>2. QED
      BY <3>1 DEF HomeBatch, WarpInv, Nowhere, Places
  <2>2. CASE k # Home
    <3>1. k \in Remotes /\ warp' = warp
      BY <2>2 DEF Nodes, CatchUpDies
    <3>2. PhaseTypes' /\ phase'[Home] = phase[Home]
      BY <2>2, <3>1, GoesLoop DEF CatchUpDies, LoopPhases
    <3>3. QED
      BY <1>3, <3>1, <3>2, HomeBatchKept, CoreParts
  <2>3. QED
    BY <2>1, <2>2
<1>5. QED
  BY <1>1, <1>2, <1>3, <1>4, CoreParts

LEMMA ReceiveCore == ASSUME CoreInv, LogsInv', Kept, NEW w \in Remotes, Receive(w) PROVE CoreInv'
<1>1. Owners' /\ UNCHANGED <<phase, known, batch, warp, moves, cuts>>
  BY ReceiveSteps DEF Owners, Receive
<1>2. PhaseTypes' /\ Numbers'
  BY <1>1, CoreParts DEF Numbers, PhaseTypes
<1>3. Streams'
  BY StreamsTaken DEF Receive
<1>4. QED
  BY <1>1, <1>2, <1>3, BatchesSame, HomeSame, CoreParts

LEMMA WarpCore ==
    ASSUME CoreInv, LogsInv', Kept, NEW to \in Nodes, Warp(to) PROVE CoreInv'
<1>1. Owners' /\ UNCHANGED <<batch, stream, cuts>> /\ Place \in Nodes /\ Place # to
      /\ warp' = [from |-> Place, to |-> to]
  BY CoreParts DEF Owners, Warp
<1>2. Numbers'
  BY NodesDef, Numbered, Counted, AsksNumber DEF Warp
<1>3. PhaseTypes' /\ (Place = Home => phase'[Home] = "rows") /\ (Place # Home => phase'[Home] = "asked")
  BY GoesHome DEF Warp, MovePhases
<1>4. HomeBatch' /\ WarpInv' /\ warp' \in Places
  BY <1>1, <1>3 DEF HomeBatch, WarpInv, Places, Nodes
<1>5. QED
  BY <1>1, <1>2, <1>3, <1>4, StreamsSame, BatchesSame, CoreParts

LEMMA ClaimCore == ASSUME CoreInv, LogsInv', Kept, Claim PROVE CoreInv'
<1>1. UNCHANGED <<batch, stream, known, moves, cuts, warp>> /\ warp.to \in Nodes
      /\ Goes(Home, IF warp.to = Home THEN "place" ELSE "rows")
      /\ owner' = [owner EXCEPT ![Home] = warp.to]
  BY DEF Claim, CoreInv, WarpInv
<1>2. Owners' /\ Numbers'
  BY <1>1, CoreParts DEF Owners, Numbers
<1>3. PhaseTypes' /\ phase'[Home] = (IF warp.to = Home THEN "place" ELSE "rows")
  BY <1>1, GoesHome DEF MovePhases
<1>4. HomeBatch' /\ WarpInv' /\ warp' \in Places
  BY <1>1, <1>3, CoreParts DEF HomeBatch, WarpInv, Nodes
<1>5. QED
  BY <1>1, <1>2, <1>3, <1>4, StreamsSame, BatchesSame, CoreParts

LEMMA ReadRowsCore == ASSUME CoreInv, LogsInv', Kept, ReadRows PROVE CoreInv'
<1>1. UNCHANGED <<log, owner, stream, known, moves, cuts, warp>> /\ phase[Home] = "rows"
      /\ batch' = [batch EXCEPT ![Home] = log[Home]] /\ Goes(Home, "copy")
  BY DEF ReadRows
<1>2. Owners' /\ Numbers' /\ batch \in [Nodes -> Seq(Event)] /\ log[Home] \in Seq(Event)
  BY <1>1, CoreParts, NodesDef DEF Owners, Numbers, Batches, CoreInv, LogsInv
<1>3. PhaseTypes' /\ phase'[Home] = "copy"
  BY <1>1, GoesHome DEF MovePhases
<1>4. batch'[Home] = log[Home]
  BY <1>1, <1>2, NodesDef
<1>5. \A i \in 1..Len(log[Home]) : SameNext(Home, log[Home][i])
  BY <1>1, NodesDef DEF CoreInv, LogsInv, Indexed, SameNext
<1>6. HomeBatch' /\ WarpInv' /\ warp' \in Places
  BY <1>1, <1>3, <1>4, <1>5, CoreParts DEF HomeBatch, From, Same, SameNext, WarpInv, CoreInv
<1>7. Batches'
  <2>1. batch' = [m \in Nodes |-> batch'[m]]
    BY <1>1, <1>2
  <2>2. \A m \in Nodes : Shrinks(batch[m], batch'[m])
                         \/ (batch'[m] \in Seq(Event) /\ m \notin Remotes)
    BY <1>1, <1>2, <1>4, NodesDef DEF Shrinks
  <2>3. QED
    BY <2>1, <2>2, BatchesKept
<1>8. QED
  BY <1>1, <1>2, <1>3, <1>6, <1>7, StreamsSame, CoreParts

LEMMA CopyCore == ASSUME CoreInv, LogsInv', Kept, Copy \/ CopyDies PROVE CoreInv'
<1>1. Owners' /\ UNCHANGED <<stream, known, moves, cuts>>
  BY CopySteps DEF Owners, Copy, CopyDies
<1>2. Numbers'
  BY <1>1, CoreParts DEF Numbers
<1>3. Batches' /\ Shrinks(batch[Home], batch'[Home])
  BY BatchTaken, NodesDef DEF Copy, CopyDies
<1>4. PhaseTypes' /\ HomeBatch' /\ WarpInv' /\ warp' \in Places
  <2>1. CASE Copy
    BY <1>3, <2>1, HomeBatchKept, CoreParts DEF Copy, PhaseTypes
  <2>2. CASE CopyDies
    <3>1. PhaseTypes' /\ phase'[Home] = "idle" /\ warp' = Nowhere
      BY <2>2, GoesHome DEF CopyDies, MovePhases
    <3>2. QED
      BY <3>1 DEF HomeBatch, WarpInv, Nowhere, Places
  <2>3. QED
    BY <2>1, <2>2
<1>5. QED
  BY <1>1, <1>2, <1>3, <1>4, StreamsSame, CoreParts

\* A published event is sent to Home if the publisher is followed.
LEMMA PublishStreams ==
    ASSUME CoreInv, LogsInv', Kept, NEW n \in Nodes, NEW to \in Nodes \cup {None}, Publish(n, to)
    PROVE  Streams'
<1> DEFINE e == [seq |-> Len(log[n]) + 1, id |-> made + 1, by |-> n, to |-> to]
<1>1. /\ e \in Event /\ Stores(n, e) /\ e.seq = Len(log[n]) + 1 /\ e.by = n
      /\ stream' = [w \in Remotes |-> IF w = n /\ phase[w] \notin {"dead", "down"}
                                        THEN Append(stream[w], e) ELSE stream[w]]
  BY PublishSteps
<1> HIDE DEF e
<1>2. SameNext(n, e)
  <2>1. log' = [log EXCEPT ![n] = Append(log[n], e)] /\ log \in [Nodes -> Seq(Event)]
    BY <1>1 DEF Stores, CoreInv, LogsInv
  <2>2. log'[n] = Append(log[n], e) /\ log[n] \in Seq(Event)
    BY <2>1
  <2>3. Len(log'[n]) = Len(log[n]) + 1 /\ log'[n][Len(log[n]) + 1] = e /\ Len(log[n]) \in Nat
    BY <1>1, <2>2, AppendProperties
  <2>4. QED
    BY <1>1, <2>3 DEF SameNext
<1>3. ASSUME NEW w \in Remotes
      PROVE  stream'[w] \in Seq(Event)
             /\ \A i \in 1..Len(stream'[w]) : stream'[w][i].by = w /\ SameNext(w, stream'[w][i])
  <2>1. w \in Nodes /\ stream[w] \in Seq(Event) /\ Len(stream[w]) \in Nat
    BY NodesDef DEF CoreInv, RestTypes
  <2>2. \A i \in 1..Len(stream[w]) : stream[w][i].by = w /\ SameNext(w, stream[w][i])
    BY <2>1 DEF CoreInv, Sent, Kept
  <2>3. CASE stream'[w] = stream[w]
    BY <2>1, <2>2, <2>3
  <2>4. CASE w = n /\ stream'[w] = Append(stream[w], e)
    <3>1. stream'[w] \in Seq(Event) /\ Len(stream'[w]) = Len(stream[w]) + 1
          /\ (\A i \in 1..Len(stream[w]) : stream'[w][i] = stream[w][i])
          /\ stream'[w][Len(stream[w]) + 1] = e
      BY <1>1, <2>1, <2>4, AppendProperties
    <3>2. ASSUME NEW i \in 1..Len(stream'[w]) PROVE stream'[w][i].by = w /\ SameNext(w, stream'[w][i])
      <4>1. i \in 1..Len(stream[w]) \/ i = Len(stream[w]) + 1
        BY <2>1, <3>1, <3>2
      <4>2. QED
        BY <1>1, <1>2, <2>2, <2>4, <3>1, <4>1
    <3>3. QED
      BY <3>1, <3>2
  <2>5. QED
    BY <1>1, <2>3, <2>4
<1>4. stream' \in [Remotes -> Seq(Event)]
  <2>1. stream' = [w \in Remotes |-> stream'[w]]
    BY <1>1
  <2>2. QED
    BY <1>3, <2>1
<1>5. QED
  BY <1>3, <1>4 DEF Streams, Sent, Same, SameNext

LEMMA PublishCore ==
    ASSUME CoreInv, LogsInv', Kept, Steal \/ Aborts \/ Placed \/ \E n \in Nodes : Write(n) PROVE CoreInv'
<1> USE NodesDef
<1>1. Owners' /\ Numbers'
  BY CoreParts, Counted DEF Owners, Numbers, Steal, Aborts, Placed, Write
<1>2. Streams'
  <2>1. CASE Steal
    BY <2>1, PublishStreams DEF Steal, CoreInv, WarpInv
  <2>2. CASE Aborts
    BY <2>2, PublishStreams, StreamsSame DEF Aborts, CoreInv, WarpInv
  <2>3. CASE Placed
    BY <2>3, PublishStreams DEF Placed, CoreInv, WarpInv
  <2>4. CASE \E n \in Nodes : Write(n)
    BY <2>4, PublishStreams DEF Write
  <2>5. QED
    BY <2>1, <2>2, <2>3, <2>4
<1>3. Batches' /\ PhaseTypes' /\ HomeBatch' /\ WarpInv' /\ warp' \in Places
  <2>1. CASE Steal
    <3>1. PhaseTypes' /\ phase'[Home] = "place" /\ warp' = warp /\ batch' = batch /\ phase[Home] = "copy"
      BY <2>1, GoesHome DEF Steal, MovePhases
    <3>2. QED
      BY <3>1, BatchesSame, CoreParts DEF HomeBatch, WarpInv, CoreInv
  <2>2. CASE Aborts
    <3>1. PhaseTypes' /\ phase'[Home] = "idle" /\ warp' = Nowhere
      BY <2>2, GoesHome DEF Aborts, MovePhases
    <3>2. Batches'
      BY <2>2, BatchTaken DEF Aborts
    <3>3. QED
      BY <3>1, <3>2 DEF HomeBatch, WarpInv, Nowhere, Places
  <2>3. CASE Placed
    <3>1. PhaseTypes' /\ phase'[Home] = "idle" /\ warp' = Nowhere /\ batch' = batch
      BY <2>3, GoesHome DEF Placed, MovePhases
    <3>2. QED
      BY <3>1, BatchesSame DEF HomeBatch, WarpInv, Nowhere, Places
  <2>4. CASE \E n \in Nodes : Write(n)
    <3>1. phase' = phase /\ warp' = warp /\ batch' = batch
      BY <2>4 DEF Write
    <3>2. QED
      BY <3>1, HomeSame, BatchesSame, CoreParts DEF PhaseTypes
  <2>5. QED
    BY <2>1, <2>2, <2>3, <2>4
<1>4. QED
  BY <1>1, <1>2, <1>3, CoreParts

LEMMA CoreInit == Init => CoreInv
<1> SUFFICES ASSUME Init PROVE CoreInv
  OBVIOUS
<1> USE NodesDef
<1>1. PICK birth \in Births :
        log = [n \in Nodes |-> IF n = birth
                 THEN <<[seq |-> 1, id |-> 1, by |-> birth, to |-> birth]>> ELSE <<>>]
  BY DEF Init
<1> DEFINE e == [seq |-> 1, id |-> 1, by |-> birth, to |-> birth]
<1>2. birth \in Nodes /\ 1 \in 1..MaxEvents /\ 0 \in 0..MaxEvents /\ 0 \in 0..MaxMoves /\ 0 \in 0..MaxCuts
  BY SyncAssumption DEF Nodes
<1>3. e \in Event /\ e.seq = 1 /\ e.id = 1
  BY <1>2 DEF Event
<1> HIDE DEF e
<1>4. <<e>> \in Seq(Event) /\ Len(<<e>>) = 1 /\ <<e>>[1] = e /\ <<>> \in Seq(Event) /\ Len(<<>>) = 0
  BY <1>3
<1>5. log = [n \in Nodes |-> IF n = birth THEN <<e>> ELSE <<>>]
  BY <1>1 DEF e
<1>6. LogsInv
  <2>1. log \in [Nodes -> Seq(Event)] /\ made = 1
    BY <1>4, <1>5 DEF Init
  <2>2. \A n \in Nodes : \A i \in 1..Len(log[n]) : i = 1 /\ log[n][i] = e
    BY <1>4, <1>5
  <2>3. QED
    BY <1>2, <1>3, <2>1, <2>2 DEF LogsInv, Indexed, Unique
<1>7. RestTypes
  <2>1. phase = [n \in Nodes |-> IF n = Home THEN "idle" ELSE "down"]
        /\ stream = [w \in Remotes |-> <<>>] /\ batch = [n \in Nodes |-> <<>>]
        /\ owner = [n \in Nodes |-> None] /\ known = [n \in Nodes |-> 0]
        /\ warp = Nowhere /\ moves = 0 /\ cuts = 0
    BY DEF Init
  <2>2. Nowhere \in Places
    BY DEF Nowhere, Places
  <2>3. QED
    BY <1>2, <1>4, <2>1, <2>2 DEF RestTypes, LoopPhases, MovePhases
<1>8. WarpInv /\ Sent /\ Fetched
  <2>1. phase[Home] = "idle" /\ (\A w \in Remotes : stream[w] = <<>> /\ batch[w] = <<>>)
    BY DEF Init
  <2>2. QED
    BY <1>4, <2>1 DEF WarpInv, Sent, Fetched
<1>9. QED
  BY <1>6, <1>7, <1>8 DEF CoreInv

LEMMA CoreStep == CoreInv /\ [Next]_vars => CoreInv'
<1> SUFFICES ASSUME CoreInv, [Next]_vars PROVE CoreInv'
  OBVIOUS
<1>1. LogsInv' /\ Kept
  BY LogsKept
<1>2. CASE UNCHANGED vars
  BY <1>2 DEF vars, CoreInv, LogsInv, Indexed, Unique, RestTypes, WarpInv, Sent, Fetched, Same
<1>3. ASSUME NEW k \in Nodes, Pulls(k) \/ AskFails(k) \/ Write(k) PROVE CoreInv'
  BY <1>1, <1>3, AnswerCore, CatchesUpCore, CatchUpDiesCore, CaughtUpCore, AskFailsCore, PublishCore
     DEF Pulls
<1>4. ASSUME NEW w \in Remotes, Start(w) \/ Connect(w) \/ Receive(w) \/ Cut(w) PROVE CoreInv'
  BY <1>1, <1>4, LoopCore, ReceiveCore
<1>5. ASSUME Moves PROVE CoreInv'
  BY <1>1, <1>5, WarpCore, ClaimCore, ReadRowsCore, CopyCore, PublishCore DEF Moves
<1>6. CASE Restart \/ TailOpens \/ TailMoves
  BY <1>1, <1>6, RestartCore, QuietCore
<1>7. QED
  BY <1>2, <1>3, <1>4, <1>5, <1>6 DEF Next

----------------------------------------------------------------------------
(* Home's log, and the client that follows it.                             *)

LT == INSTANCE EventTail_proofs WITH events <- log[Home]

SyncInv == CoreInv /\ LT!TInv

LEMMA TailStarts == Init => LogTail!Init
<1>1. Init => log[Home] \in Seq(Event)
  BY CoreInit, NodesDef DEF CoreInv, LogsInv
<1>2. QED
  BY <1>1 DEF LogTail!Init, Init, LogTail!Closed

\* A step of the session is a step of EventTail, or changes nothing of it.
LEMMA TailSteppers ==
    ASSUME CoreInv, [Next]_vars
    PROVE  [LogTail!Next]_<<log[Home], tail, shown>>
<1>1. CASE LogsRest
  <2>1. log'[Home] = log[Home]
    BY <1>1 DEF LogsRest
  <2>2. QED
    BY <1>1, <2>1 DEF LogsRest, LogTail!Next
<1>2. ASSUME NEW n \in Nodes, NEW e \in Event, Grows(n, e)
      PROVE  [LogTail!Next]_<<log[Home], tail, shown>>
  <2>1. log \in [Nodes -> Seq(Event)]
    BY DEF CoreInv, LogsInv
  <2>2. log' = [log EXCEPT ![n] = Append(@, e)] /\ shown' = shown
        /\ tail' = (IF n = Home THEN LogTail!Signalled(tail) ELSE tail)
    BY <1>2 DEF Grows, Stores
  <2>3. CASE n = Home
    <3>1. log'[Home] = Append(log[Home], e) /\ tail' = LogTail!Signalled(tail) /\ shown' = shown
      BY <2>1, <2>2, <2>3
    <3>2. LogTail!Commit(e)
      BY <3>1 DEF LogTail!Commit
    <3>3. QED
      BY <3>2 DEF LogTail!Next
  <2>4. CASE n # Home
    BY <2>1, <2>2, <2>4
  <2>5. QED
    BY <2>3, <2>4
<1>3. QED
  BY <1>1, <1>2, LogSteps

LEMMA SyncInit == Init => SyncInv
<1> SUFFICES ASSUME Init PROVE LT!TInv
  BY CoreInit DEF SyncInv
<1>1. QED
  BY TailStarts, LT!TailInit DEF LogTail!Init, LT!Init, LT!Closed, LogTail!Closed

LEMMA SyncStep == SyncInv /\ [Next]_vars => SyncInv'
<1> SUFFICES ASSUME SyncInv, [Next]_vars PROVE LT!TInv'
  BY CoreStep DEF SyncInv
<1>1. [LogTail!Next]_<<log[Home], tail, shown>>
  BY TailSteppers DEF SyncInv
<1>2. [LT!Next]_LT!tailVars
  BY <1>1 DEF LogTail!Next, LT!Next, LT!tailVars, LogTail!Commit, LT!Commit, LogTail!Open, LT!Open,
     LogTail!Follow, LT!Follow, LogTail!Close, LT!Close, LogTail!Closed, LT!Closed,
     LogTail!Signalled, LT!Signalled, LogTail!Read, LT!Read, LogTail!Show, LT!Show,
     LogTail!AllShown, LT!AllShown, LogTail!Wake, LT!Wake
<1>3. QED
  BY <1>2, LT!TailStep DEF SyncInv

LEMMA SyncInvariant == Spec => []SyncInv
BY SyncInit, SyncStep, PTL DEF Spec

\* The logs, streams, answers and the move have their types, for any number of
\* workspaces, events and moves; the sequence numbers of a log never exceed
\* the number of events that were published.
THEOREM SyncTypes == Spec => []TypeOK
<1>1. SyncInv => TypeOK
  BY DEF SyncInv, CoreInv, LogsInv, RestTypes, TypeOK, Places, LoopPhases, MovePhases,
     LT!TInv, LT!TailTypeOK, LogTail!TailTypeOK
<1>2. QED
  BY <1>1, SyncInvariant, PTL

\* What happens to Home's log, through local writes, streams, histories, moves
\* and restarts, is to the client of a tail a sequence of commits: the session
\* implements EventTail.
THEOREM SyncImplementsTail == Spec => TailSteps
<1>1. SyncInv /\ [Next]_vars => [LogTail!Next]_<<log[Home], tail, shown>>
  BY TailSteppers DEF SyncInv
<1>2. QED
  BY <1>1, TailStarts, SyncInvariant, PTL DEF Spec, TailSteps

\* The client of Home sees Home's log, complete and in order, also of a session
\* that runs in another process.
THEOREM ClientSeesLog == Spec => []TailShowsLog
<1>1. SyncInv => TailShowsLog
  BY LT!TailGood DEF SyncInv, TailShowsLog, LogTail!ShownInOrder, LogTail!NothingMissed,
     LT!ShownInOrder, LT!NothingMissed
<1>2. QED
  BY <1>1, SyncInvariant, PTL

----------------------------------------------------------------------------
(* Home does not add what a former owner goes on publishing.               *)

\* The log of a workspace holds its own events and copies of Home's.
Written == \A w \in Remotes : \A i \in 1..Len(log[w]) : log[w][i].by = w \/ Same(Home, log[w][i])

LEMMA WrittenInit == Init => Written
<1> SUFFICES ASSUME Init, NEW w \in Remotes, NEW i \in 1..Len(log[w])
             PROVE  log[w][i].by = w
  BY DEF Written
<1>1. PICK birth \in Births :
        log = [n \in Nodes |-> IF n = birth
                 THEN <<[seq |-> 1, id |-> 1, by |-> birth, to |-> birth]>> ELSE <<>>]
  BY DEF Init
<1>2. w \in Nodes /\ Len(<<>>) = 0
  BY NodesDef
<1>3. w = birth
  BY <1>1, <1>2
<1>4. log[w] = <<[seq |-> 1, id |-> 1, by |-> w, to |-> w]>>
  BY <1>1, <1>2, <1>3
<1>5. QED
  BY <1>4

LEMMA WrittenStep == ASSUME CoreInv, Written, [Next]_vars PROVE Written'
<1>1. Kept /\ \A n \in Nodes : log[n] \in Seq(Event)
  BY LogsKept DEF CoreInv, LogsInv
<1>2. CASE LogsRest
  BY <1>2 DEF LogsRest, Written, Same
<1>3. ASSUME NEW n \in Nodes, NEW e \in Event, Grows(n, e) PROVE Written'
  <2>1. /\ \A m \in Nodes \ {n} : log'[m] = log[m]
        /\ Len(log[n]) \in Nat /\ Len(log'[n]) = Len(log[n]) + 1
        /\ \A i \in 1..Len(log[n]) : log'[n][i] = log[n][i]
        /\ log'[n][Len(log[n]) + 1] = e
    BY <1>3, LogGrown DEF CoreInv
  <2>2. ASSUME NEW w \in Remotes, NEW i \in 1..Len(log'[w])
        PROVE  log'[w][i].by = w \/ SameNext(Home, log'[w][i])
    <3>1. w \in Nodes /\ w # Home /\ Home \in Nodes
      BY NodesDef
    <3>2. CASE i \in 1..Len(log[w]) /\ log'[w][i] = log[w][i]
      <4>1. log[w][i] \in Event
        BY <1>1, <3>1, <3>2
      <4>2. QED
        BY <1>1, <3>1, <3>2, <4>1 DEF Written, Kept
    <3>3. CASE w = n /\ i = Len(log[w]) + 1
      <4>1. log'[w][i] = e
        BY <2>1, <3>3
      <4>2. CASE Fresh(n, e)
        BY <3>3, <4>1, <4>2 DEF Fresh
      <4>3. CASE Copied(n, e)
        BY <1>1, <3>1, <3>3, <4>1, <4>3 DEF Copied, Pulled, Pushed, Kept
      <4>4. QED
        BY <1>3, <4>2, <4>3 DEF Grows
    <3>4. QED
      BY <2>1, <2>2, <3>1, <3>2, <3>3
  <2>3. QED
    BY <2>2 DEF Written, Same, SameNext
<1>4. QED
  BY <1>2, <1>3, LogSteps

\* A session that was claimed takes events of its owner only, also when the
\* stream of a former owner, or an answer of it, still brings others.
THEOREM FormerOwnersIgnored == Spec => FormerOwnerIgnored
<1> DEFINE OwnersOnly == \A i \in DOMAIN log'[Home] \ DOMAIN log[Home] :
                           owner[Home] # None => log'[Home][i].by \in {Home, owner[Home]}
<1>1. CoreInv /\ Written /\ [Next]_vars => OwnersOnly
  <2> SUFFICES ASSUME CoreInv, Written, [Next]_vars PROVE OwnersOnly
    OBVIOUS
  <2> USE NodesDef
  <2>1. CASE LogsRest
    BY <2>1 DEF LogsRest
  <2>2. ASSUME NEW n \in Nodes, NEW e \in Event, Grows(n, e) PROVE OwnersOnly
    <3>1. /\ \A m \in Nodes \ {n} : log'[m] = log[m]
          /\ Len(log[n]) \in Nat /\ Len(log'[n]) = Len(log[n]) + 1
          /\ log'[n][Len(log[n]) + 1] = e /\ log' \in [Nodes -> Seq(Event)]
      BY <2>2, LogGrown DEF CoreInv
    <3>2. log[Home] \in Seq(Event) /\ e.seq = Len(log[n]) + 1
      BY <2>2 DEF CoreInv, LogsInv, Grows
    <3>3. CASE n # Home
      <4>1. log'[Home] = log[Home]
        BY <3>1, <3>3
      <4>2. QED
        BY <4>1
    <3>4. CASE n = Home
      <4>1. ASSUME NEW i \in DOMAIN log'[Home] \ DOMAIN log[Home] PROVE log'[Home][i] = e
        <5>1. DOMAIN log'[Home] = 1..Len(log'[Home]) /\ DOMAIN log[Home] = 1..Len(log[Home])
          BY <3>1, <3>2
        <5>2. i = Len(log[Home]) + 1
          <6> DEFINE L == Len(log[Home])
          <6>1. L \in Nat /\ Len(log'[Home]) = L + 1
            BY <3>1, <3>4
          <6>2. i \in 1..L + 1 /\ i \notin 1..L
            BY <4>1, <5>1, <6>1
          <6> HIDE DEF L
          <6>3. i = L + 1
            BY <6>1, <6>2
          <6>4. QED
            BY <6>3 DEF L
        <5>3. QED
          BY <3>1, <3>4, <5>2
      <4>2. ASSUME owner[Home] # None PROVE e.by \in {Home, owner[Home]}
        <5>1. CASE Fresh(Home, e)
          BY <5>1 DEF Fresh
        <5>2. ~Same(Home, e)
          BY <3>1, <3>2, <3>4 DEF Same
        <5>3. CASE Pulled(Home, e)
          <6>1. PICK w \in Remotes : Same(w, e) /\ owner[Home] \in {None, w}
            BY <5>3 DEF Pulled
          <6>2. e.seq \in 1..Len(log[w]) /\ log[w][e.seq] = e
            BY <6>1, EventOf DEF CoreInv
          <6>3. e.by = w
            BY <5>2, <6>2 DEF Written
          <6>4. QED
            BY <4>2, <6>1, <6>3
        <5>4. QED
          BY <2>2, <3>4, <5>1, <5>2, <5>3 DEF Grows, Copied, Pushed
      <4>3. QED
        BY <4>1, <4>2
    <3>5. QED
      BY <3>3, <3>4
  <2>3. QED
    BY <2>1, <2>2, LogSteps
<1>2. Spec => []Written
  <2>1. CoreInv /\ Written /\ [Next]_vars => Written'
    BY WrittenStep
  <2>2. SyncInv => CoreInv
    BY DEF SyncInv
  <2>3. QED
    BY <2>1, <2>2, WrittenInit, SyncInvariant, PTL DEF Spec
<1>3. SyncInv => CoreInv
  BY DEF SyncInv
<1>4. QED
  BY <1>1, <1>2, <1>3, SyncInvariant, PTL DEF Spec, FormerOwnerIgnored

----------------------------------------------------------------------------
(* The workspace that a session is in has it.                              *)

\* All logs that have begun begin with the same event.
Begun == \A n, m \in Nodes : (log[n] # <<>> /\ log[m] # <<>>) => log[n][1] = log[m][1]

\* The log of w has an event that gives the session to w.
There(w) == \E i \in 1..Len(log[w]) : log[w][i].to = w

MovedThere == \A n \in Nodes, w \in Remotes : \A i \in 1..Len(log[n]) : log[n][i].to = w => There(w)

\* A move has a session to move.  A copy to a workspace without it starts with
\* the first event, and it is over when the workspace steals the session.
Moving ==
    /\ phase[Home] # "idle" => log[Home] # <<>>
    /\ (phase[Home] = "copy" /\ log[warp.to] = <<>>) => (batch[Home] # <<>> /\ batch[Home][1].seq = 1)
    /\ (phase[Home] = "place" /\ warp.to \in Remotes) => There(warp.to)

HasInv == Begun /\ MovedThere /\ Moving

LEMMA NonEmpty == ASSUME NEW s \in Seq(Event) PROVE Len(s) \in Nat /\ (s # <<>> <=> Len(s) >= 1)
BY EmptySeq

\* Steps of the move, as far as they matter here.
LEMMA MoveSteps ==
    ASSUME CoreInv, [Next]_vars
    PROVE  \/ phase'[Home] = "idle"
           \/ phase'[Home] = phase[Home] /\ warp' = warp /\ batch'[Home] = batch[Home]
           \/ /\ phase'[Home] \in {"asked", "replaying", "claim", "rows"}
              /\ phase[Home] # "idle" \/ (Place \in Nodes /\ moves' = moves + 1)
           \/ ReadRows \/ Copy \/ Steal
           \/ phase[Home] = "claim" /\ phase'[Home] = "place" /\ warp' = warp /\ warp.to = Home
<1> USE NodesDef
<1>0. phase \in [Nodes -> LoopPhases \cup MovePhases] /\ batch \in [Nodes -> Seq(Event)]
  BY DEF CoreInv, RestTypes
<1>1. CASE UNCHANGED vars
  BY <1>1 DEF vars
<1>2. ASSUME NEW k \in Nodes, k # Home, Pulls(k) \/ AskFails(k)
      PROVE  phase'[Home] = phase[Home] /\ warp' = warp /\ batch'[Home] = batch[Home]
  BY <1>0, <1>2 DEF Pulls, Answer, CatchesUp, CatchUpDies, CaughtUp, AskFails, Goes
<1>3. ASSUME Pulls(Home) \/ AskFails(Home)
      PROVE  \/ phase'[Home] = "idle"
             \/ phase'[Home] \in {"asked", "replaying", "claim", "rows"} /\ phase[Home] # "idle"
  BY <1>0, <1>3 DEF Pulls, Answer, CatchesUp, CatchUpDies, CaughtUp, AskFails, Goes
<1>4. ASSUME NEW n \in Nodes, Write(n)
      PROVE  phase'[Home] = phase[Home] /\ warp' = warp /\ batch'[Home] = batch[Home]
  BY <1>4 DEF Write
<1>5. ASSUME NEW w \in Remotes, Start(w) \/ Connect(w) \/ Receive(w) \/ Cut(w)
      PROVE  phase'[Home] = phase[Home] /\ warp' = warp /\ batch'[Home] = batch[Home]
  BY <1>0, <1>5 DEF Start, Connect, Receive, Cut, Goes
<1>6. Restart => phase'[Home] = "idle"
  BY DEF Restart
<1>7. TailOpens \/ TailMoves => phase'[Home] = phase[Home] /\ warp' = warp /\ batch'[Home] = batch[Home]
  BY DEF TailOpens, TailMoves, others
<1>8. ASSUME NEW to \in Nodes, Warp(to)
      PROVE  phase'[Home] \in {"asked", "rows"} /\ Place \in Nodes /\ moves' = moves + 1
  BY <1>0, <1>8 DEF Warp, Goes
<1>9. Claim => /\ phase[Home] = "claim"
               /\ phase'[Home] = "rows" \/ (phase'[Home] = "place" /\ warp' = warp /\ warp.to = Home)
  BY <1>0 DEF Claim, Goes
<1>10. CopyDies \/ Aborts \/ Placed => phase'[Home] = "idle"
  BY <1>0 DEF CopyDies, Aborts, Placed, Goes
<1>11. QED
  BY <1>1, <1>2, <1>3, <1>4, <1>5, <1>6, <1>7, <1>8, <1>9, <1>10 DEF Next, Moves

\* What was there stays there.
LEMMA StaysThere ==
    ASSUME CoreInv, [Next]_vars
    PROVE  /\ \A w \in Nodes : There(w) => There(w)'
           /\ \A n \in Nodes : log[n] # <<>> => log'[n] # <<>> /\ log'[n][1] = log[n][1]
           /\ \A n \in Nodes : log'[n] \in Seq(Event)
<1>1. Kept /\ \A n \in Nodes : log[n] \in Seq(Event) /\ log'[n] \in Seq(Event)
  BY LogsKept DEF CoreInv, LogsInv
<1>2. ASSUME NEW n \in Nodes, NEW i \in 1..Len(log[n])
      PROVE  i \in 1..Len(log'[n]) /\ log'[n][i] = log[n][i]
  <2>1. log[n][i] \in Event /\ log[n][i].seq = i /\ Same(n, log[n][i])
    BY <1>1, <1>2 DEF CoreInv, LogsInv, Indexed, Same
  <2>2. SameNext(n, log[n][i])
    BY <1>1, <2>1 DEF Kept
  <2>3. Len(log[n]) \in Nat /\ Len(log'[n]) \in Nat
    BY <1>1
  <2>4. QED
    BY <1>2, <2>1, <2>2, <2>3 DEF SameNext
<1>3. \A w \in Nodes : There(w) => There(w)'
  BY <1>2 DEF There
<1>4. ASSUME NEW n \in Nodes, log[n] # <<>> PROVE log'[n] # <<>> /\ log'[n][1] = log[n][1]
  <2>1. 1 \in 1..Len(log[n])
    BY <1>1, <1>4, NonEmpty
  <2>2. 1 \in 1..Len(log'[n]) /\ log'[n][1] = log[n][1]
    BY <1>2, <2>1
  <2>3. QED
    BY <1>1, <2>2, NonEmpty
<1>5. QED
  BY <1>1, <1>3, <1>4

\* A session that a prompt is running on is in the log.
LEMMA LivedBegun ==
    ASSUME CoreInv, MovedThere, NEW n \in Nodes, Lived(n)
    PROVE  log[n] # <<>>
<1>1. log[n] \in Seq(Event) /\ log[Home] \in Seq(Event) /\ Home \in Nodes
  BY NodesDef DEF CoreInv, LogsInv
<1>2. CASE log[n] # <<>>
  BY <1>2
<1>3. CASE \E e \in ToSet(log[Home]) : e.to = n
  <2>1. PICK i \in 1..Len(log[Home]) : log[Home][i].to = n
    BY <1>1, <1>3 DEF ToSet
  <2>2. CASE n = Home
    BY <1>1, <2>1, <2>2, NonEmpty
  <2>3. CASE n \in Remotes
    <3>1. There(n)
      BY <1>1, <2>1, <2>3 DEF MovedThere
    <3>2. QED
      BY <1>1, <3>1, NonEmpty DEF There
  <2>4. QED
    BY <2>2, <2>3 DEF Nodes
<1>4. QED
  BY <1>2, <1>3 DEF Lived

LEMMA MaxOf ==
    ASSUME NEW n \in Nat, NEW S \in SUBSET (1..n), S # {}
    PROVE  Max(S) \in S
<1> DEFINE T == {x..n : x \in S}
<1>1. IsFiniteSet(1..n)
  BY FS_Interval
<1>2. T \subseteq FiniteSubsetsOf(1..n) /\ T # {}
  <2>1. \A x \in S : x..n \subseteq 1..n
    OBVIOUS
  <2>2. \A x \in S : IsFiniteSet(x..n)
    BY <1>1, <2>1, FS_Subset
  <2>3. QED
    BY <2>1, <2>2 DEF FiniteSubsetsOf
<1>3. IsWellFoundedOn(StrictSubsetOrdering(1..n), FiniteSubsetsOf(1..n))
  BY FS_StrictSubsetOrderingWellFounded
<1>4. \E t \in T : \A u \in T : ~ (<<u, t>> \in StrictSubsetOrdering(1..n))
  <2> HIDE DEF T
  <2>1. QED
    BY <1>2, <1>3, WFMin
<1>5. PICK x \in S : \A y \in S : ~ (<<y..n, x..n>> \in StrictSubsetOrdering(1..n))
  BY <1>4
<1>6. ASSUME NEW y \in S, ~ (x >= y) PROVE FALSE
  <2>1. x \in 1..n /\ y \in 1..n /\ x < y
    BY <1>6
  <2>2. y..n \subseteq x..n /\ x \in x..n /\ x \notin y..n /\ x..n \subseteq 1..n /\ y..n \subseteq 1..n
    BY <2>1
  <2>3. <<y..n, x..n>> \in StrictSubsetOrdering(1..n)
    BY <2>2 DEF StrictSubsetOrdering
  <2>4. QED
    BY <1>5, <2>3
<1>7. QED
  BY <1>6 DEF Max

\* A session that Home routes to n was given to n by an event of Home's log.
LEMMA PlaceGiven ==
    ASSUME CoreInv, NEW n \in Nodes, Place = n
    PROVE  \E i \in 1..Len(log[Home]) : log[Home][i].to = n
<1>1. log[Home] \in Seq(Event) /\ None \notin Nodes
  BY NodesDef DEF CoreInv, LogsInv
<1>2. Placing(Home) # {} /\ log[Home][Max(Placing(Home))].to = n
  BY <1>1 DEF Place
<1>3. Len(log[Home]) \in Nat /\ Placing(Home) \in SUBSET (1..Len(log[Home]))
  BY <1>1 DEF Placing
<1>4. Max(Placing(Home)) \in Placing(Home)
  BY <1>2, <1>3, MaxOf
<1>5. QED
  BY <1>2, <1>3, <1>4

LEMMA HasInit == Init => HasInv
<1> SUFFICES ASSUME Init PROVE HasInv
  OBVIOUS
<1>1. PICK birth \in Births :
        log = [n \in Nodes |-> IF n = birth
                 THEN <<[seq |-> 1, id |-> 1, by |-> birth, to |-> birth]>> ELSE <<>>]
  BY DEF Init
<1>2. \A n \in Nodes : n # birth => log[n] = <<>> /\ Len(log[n]) = 0
  BY <1>1
<1>3. birth \in Nodes => /\ log[birth] = <<[seq |-> 1, id |-> 1, by |-> birth, to |-> birth]>>
                         /\ Len(log[birth]) = 1 /\ log[birth][1].to = birth
  BY <1>1
<1>4. phase[Home] = "idle"
  BY NodesDef DEF Init
<1>5. Begun
  BY <1>2 DEF Begun
<1>6. MovedThere
  <2> SUFFICES ASSUME NEW n \in Nodes, NEW w \in Remotes, NEW i \in 1..Len(log[n]), log[n][i].to = w
               PROVE  There(w)
    BY DEF MovedThere
  <2>1. n = birth
    BY <1>2
  <2>2. w = birth
    BY <1>3, <2>1
  <2>3. QED
    BY <1>3, <2>1, <2>2 DEF There
<1>7. QED
  BY <1>4, <1>5, <1>6 DEF HasInv, Moving

\* Where event e, which is added to the log of n, comes from.
LEMMA GrowsFrom ==
    ASSUME CoreInv, HasInv, NEW n \in Nodes, NEW e \in Event, Grows(n, e)
    PROVE  \/ log[n] # <<>> /\ Fresh(n, e)
           \/ \E m \in Nodes : e.seq \in 1..Len(log[m]) /\ log[m][e.seq] = e
<1>1. CASE Fresh(n, e)
  <2>1. log[n] # <<>>
    BY <1>1, LivedBegun DEF Fresh, HasInv, Moving
  <2>2. QED
    BY <1>1, <2>1
<1>2. CASE Copied(n, e)
  <2>1. PICK m \in Nodes : Same(m, e)
    BY <1>2, NodesDef DEF Copied, Pulled, Pushed
  <2>2. QED
    BY <2>1, EventOf DEF CoreInv
<1>3. QED
  BY <1>1, <1>2 DEF Grows

LEMMA BegunStep == ASSUME CoreInv, HasInv, [Next]_vars PROVE Begun'
<1> USE NodesDef
<1>1. \A n \in Nodes : log[n] \in Seq(Event)
  BY DEF CoreInv, LogsInv
<1>2. CASE LogsRest
  BY <1>2 DEF LogsRest, HasInv, Begun
<1>3. ASSUME NEW n \in Nodes, NEW e \in Event, Grows(n, e) PROVE Begun'
  <2>1. /\ \A m \in Nodes \ {n} : log'[m] = log[m]
        /\ Len(log[n]) \in Nat /\ Len(log'[n]) = Len(log[n]) + 1
        /\ log'[n][Len(log[n]) + 1] = e /\ e.seq = Len(log[n]) + 1
    BY <1>3, LogGrown DEF CoreInv, Grows
  <2>2. CASE log[n] # <<>>
    <3>1. \A m \in Nodes : log'[m] # <<>> => log[m] # <<>> /\ log'[m][1] = log[m][1]
      BY <2>1, <2>2, StaysThere
    <3>2. QED
      BY <3>1 DEF HasInv, Begun
  <2>3. CASE log[n] = <<>>
    <3>1. e.seq = 1 /\ log'[n][1] = e
      BY <2>1, <2>3
    <3>2. PICK m \in Nodes : e.seq \in 1..Len(log[m]) /\ log[m][e.seq] = e
      BY <1>3, <2>3, GrowsFrom
    <3>3. log[m] # <<>> /\ log[m][1] = e /\ m # n
      BY <1>1, <2>3, <3>1, <3>2, NonEmpty
    <3>4. \A k \in Nodes : log'[k] # <<>> => log'[k][1] = e
      BY <2>1, <3>1, <3>3 DEF HasInv, Begun
    <3>5. QED
      BY <3>4 DEF Begun
  <2>4. QED
    BY <2>2, <2>3
<1>4. QED
  BY <1>2, <1>3, LogSteps

LEMMA MovedStep == ASSUME CoreInv, HasInv, [Next]_vars PROVE MovedThere'
<1> USE NodesDef
<1>1. \A n \in Nodes : log[n] \in Seq(Event)
  BY DEF CoreInv, LogsInv
<1>2. CASE LogsRest
  BY <1>2 DEF LogsRest, HasInv, MovedThere, There
<1>3. ASSUME NEW n \in Nodes, NEW e \in Event, Grows(n, e) PROVE MovedThere'
  <2>1. /\ \A m \in Nodes \ {n} : log'[m] = log[m]
        /\ Len(log[n]) \in Nat /\ Len(log'[n]) = Len(log[n]) + 1
        /\ \A i \in 1..Len(log[n]) : log'[n][i] = log[n][i]
        /\ log'[n][Len(log[n]) + 1] = e
    BY <1>3, LogGrown DEF CoreInv
  <2>2. ASSUME NEW w \in Remotes, e.to = w PROVE There(w)'
    <3>1. CASE \E m \in Nodes : e.seq \in 1..Len(log[m]) /\ log[m][e.seq] = e
      BY <2>2, <3>1, StaysThere DEF HasInv, MovedThere
    <3>2. CASE Fresh(n, e)
      <4>1. CASE phase[Home] = "copy" /\ n = warp.to /\ e.to = n
        <5>1. Len(log[w]) + 1 \in 1..Len(log'[w]) /\ log'[w][Len(log[w]) + 1] = e
          BY <2>1, <2>2, <4>1
        <5>2. QED
          BY <2>2, <5>1 DEF There
      <4>2. CASE phase[Home] = "place" /\ e.to = warp.to
        BY <2>2, <4>2, StaysThere DEF HasInv, Moving
      <4>3. QED
        BY <2>2, <3>2, <4>1, <4>2 DEF Fresh
    <3>3. QED
      BY <1>3, <3>1, <3>2, GrowsFrom
  <2>3. ASSUME NEW m \in Nodes, NEW w \in Remotes, NEW i \in 1..Len(log'[m]), log'[m][i].to = w
        PROVE  There(w)'
    <3>1. \/ i \in 1..Len(log[m]) /\ log'[m][i] = log[m][i]
          \/ log'[m][i] = e
      BY <2>1
    <3>2. QED
      BY <2>2, <2>3, <3>1, StaysThere DEF HasInv, MovedThere
  <2>4. QED
    BY <2>3 DEF MovedThere
<1>4. QED
  BY <1>2, <1>3, LogSteps

LEMMA MovingStep == ASSUME CoreInv, HasInv, [Next]_vars PROVE Moving'
<1> USE NodesDef
<1>1. \A n \in Nodes : log[n] \in Seq(Event) /\ log'[n] \in Seq(Event)
  BY StaysThere DEF CoreInv, LogsInv
<1>2. \A n \in Nodes : log[n] # <<>> => log'[n] # <<>>
  BY StaysThere
<1>3. phase \in [Nodes -> LoopPhases \cup MovePhases] /\ batch \in [Nodes -> Seq(Event)]
  BY DEF CoreInv, RestTypes
<1>4. phase[Home] \in {"rows", "copy"} => warp.to \in Remotes
  BY DEF CoreInv, WarpInv
<1>5. CASE phase'[Home] = "idle"
  BY <1>5 DEF Moving
<1>6. CASE phase'[Home] = phase[Home] /\ warp' = warp /\ batch'[Home] = batch[Home]
  BY <1>2, <1>4, <1>6, StaysThere DEF Moving, HasInv
<1>7. CASE /\ phase'[Home] \in {"asked", "replaying", "claim", "rows"}
           /\ phase[Home] # "idle" \/ Place \in Nodes
  <2>1. log[Home] # <<>>
    BY <1>1, <1>7, PlaceGiven, NonEmpty DEF HasInv, Moving
  <2>2. QED
    BY <1>2, <1>7, <2>1 DEF Moving
<1>8. CASE ReadRows
  <2>1. phase'[Home] = "copy" /\ phase[Home] = "rows" /\ batch'[Home] = log[Home] /\ log[Home] # <<>>
    BY <1>3, <1>8 DEF ReadRows, Goes, HasInv, Moving
  <2>2. log[Home][1].seq = 1
    BY <1>1, <2>1, NonEmpty DEF CoreInv, LogsInv, Indexed
  <2>3. QED
    BY <1>2, <2>1, <2>2 DEF Moving
<1>9. CASE Copy
  <2> DEFINE e == Head(batch[Home])
  <2>1. phase'[Home] = "copy" /\ phase[Home] = "copy" /\ warp' = warp /\ batch[Home] # <<>>
        /\ Replay(warp.to, e, warp.to, TRUE)
    BY <1>9 DEF Copy
  <2>2. ASSUME log[warp.to] = <<>> PROVE log'[warp.to] # <<>>
    <3>1. e = batch[Home][1] /\ e.seq = 1 /\ e \in Event
      BY <1>3, <2>1, <2>2, HeadOf DEF HasInv, Moving
    <3>2. warp.to \in Nodes /\ Len(log[warp.to]) = 0 /\ DOMAIN log[warp.to] = {}
      BY <1>4, <2>1, <2>2
    <3>3. Fits(warp.to, e, warp.to)
      BY <2>1, <3>1, <3>2 DEF Replay, Refused, Fits, Reused
    <3>4. log' = [log EXCEPT ![warp.to] = Append(log[warp.to], e)]
      BY <2>1, <3>3 DEF Replay, Stores
    <3>5. log'[warp.to] = Append(log[warp.to], e) /\ log[warp.to] \in Seq(Event)
      BY <1>1, <3>2, <3>4 DEF CoreInv, LogsInv
    <3>6. QED
      BY <3>1, <3>5, AppendProperties
  <2>3. log'[warp.to] # <<>> /\ log'[Home] # <<>>
    BY <1>2, <1>4, <2>1, <2>2 DEF HasInv, Moving
  <2>4. QED
    BY <2>1, <2>3 DEF Moving
<1>10. CASE Steal
  <2>1. phase'[Home] = "place" /\ phase[Home] = "copy" /\ warp' = warp /\ warp.to \in Remotes
        /\ Publish(warp.to, warp.to)
    BY <1>3, <1>4, <1>10 DEF Steal, Goes
  <2> DEFINE e == [seq |-> Len(log[warp.to]) + 1, id |-> made + 1, by |-> warp.to, to |-> warp.to]
  <2>2. Stores(warp.to, e) /\ e \in Event /\ e.to = warp.to
    BY <2>1, PublishSteps
  <2> HIDE DEF e
  <2>3. log'[warp.to] = Append(log[warp.to], e) /\ log[warp.to] \in Seq(Event)
    BY <2>1, <2>2 DEF Stores, CoreInv, LogsInv
  <2>4. Len(log'[warp.to]) \in 1..Len(log'[warp.to]) /\ log'[warp.to][Len(log'[warp.to])] = e
    BY <2>2, <2>3, AppendProperties
  <2>5. There(warp.to)'
    BY <2>1, <2>2, <2>4 DEF There
  <2>6. QED
    BY <1>2, <2>1, <2>5 DEF HasInv, Moving
<1>11. CASE phase[Home] = "claim" /\ phase'[Home] = "place" /\ warp' = warp /\ warp.to = Home
  BY <1>2, <1>11 DEF HasInv, Moving
<1>12. QED
  BY <1>5, <1>6, <1>7, <1>8, <1>9, <1>10, <1>11, MoveSteps

LEMMA HasInvariant == Spec => [](CoreInv /\ HasInv)
<1>1. CoreInv /\ HasInv /\ [Next]_vars => (CoreInv /\ HasInv)'
  BY CoreStep, BegunStep, MovedStep, MovingStep DEF HasInv
<1>2. QED
  BY <1>1, CoreInit, HasInit, PTL DEF Spec

\* A move can fail at any step, and a workspace can be left and come back to:
\* a session is routed to a workspace only after the workspace got its history
\* and recorded that it owns the session.
THEOREM RoutedWorkspaceHasIt == Spec => []WorkspaceHasSession
<1>1. CoreInv /\ HasInv => WorkspaceHasSession
  <2> SUFFICES ASSUME CoreInv, HasInv, NEW w \in Remotes, Place = w
               PROVE  log[w][1] = log[Home][1] /\ \E e \in ToSet(log[w]) : e.to = w
    BY DEF WorkspaceHasSession
  <2>1. w \in Nodes /\ Home \in Nodes /\ log[w] \in Seq(Event) /\ log[Home] \in Seq(Event)
    BY NodesDef DEF CoreInv, LogsInv
  <2>2. PICK i \in 1..Len(log[Home]) : log[Home][i].to = w
    BY <2>1, PlaceGiven
  <2>3. There(w)
    BY <2>1, <2>2 DEF HasInv, MovedThere
  <2>4. log[w] # <<>> /\ log[Home] # <<>>
    BY <2>1, <2>2, <2>3, NonEmpty DEF There
  <2>5. QED
    BY <2>1, <2>3, <2>4 DEF HasInv, Begun, There, ToSet
<1>2. QED
  BY <1>1, HasInvariant, PTL

----------------------------------------------------------------------------
(* Home follows the workspace of a session that was never moved.           *)

\* No move is under way; only the first event gives the session a place, and
\* every event of Home is one of the workspace.
Followed ==
    /\ phase[Home] = "idle"
    /\ \A n \in Nodes : \A i \in 1..Len(log[n]) : log[n][i].to # None => i = 1
    /\ \A w \in Remotes : log[w] # <<>> =>
          /\ log[w][1].to = w
          /\ \A i \in 1..Len(log[Home]) : Same(w, log[Home][i])

Unmoved == moves = 0 => Followed

LEMMA UnmovedInit == Init => Unmoved
<1> SUFFICES ASSUME Init PROVE Followed
  BY DEF Unmoved
<1> USE NodesDef
<1>1. PICK birth \in Births :
        log = [n \in Nodes |-> IF n = birth
                 THEN <<[seq |-> 1, id |-> 1, by |-> birth, to |-> birth]>> ELSE <<>>]
  BY DEF Init
<1>2. \A n \in Nodes : /\ n # birth => log[n] = <<>> /\ Len(log[n]) = 0
                       /\ n = birth => Len(log[n]) = 1 /\ log[n][1].to = n
  BY <1>1
<1>3. phase[Home] = "idle"
  BY DEF Init
<1>4. QED
  BY <1>2, <1>3 DEF Followed

LEMMA MovesCount == ASSUME [Next]_vars PROVE moves' = moves \/ moves' = moves + 1
BY DEF Next, vars, Pulls, Answer, CatchesUp, CatchUpDies, CaughtUp, AskFails, Write, Start, Connect,
   Receive, Cut, Restart, Moves, Warp, Claim, ReadRows, Copy, CopyDies, Steal, Aborts, Placed,
   TailOpens, TailMoves, others

\* The events that the logs get while the session is not moved.
LEMMA FollowedGrows ==
    ASSUME CoreInv, HasInv, Followed, NEW n \in Nodes, NEW e \in Event, Grows(n, e)
    PROVE  /\ log[n] = <<>> => n = Home /\ e.seq = 1
           /\ e.to # None => e.seq = 1
           /\ n = Home => \A w \in Remotes : log[w] # <<>> => Same(w, e)
<1> USE NodesDef
<1>1. (\A m \in Nodes : log[m] \in Seq(Event)) /\ e.seq = Len(log[n]) + 1 /\ phase[Home] = "idle"
  BY DEF CoreInv, LogsInv, Grows, Followed
<1>2. CASE Fresh(n, e)
  <2>1. Lived(n) /\ e.to = None /\ log[n] # <<>>
    BY <1>1, <1>2, LivedBegun DEF Fresh, HasInv
  <2>2. ASSUME n = Home, NEW w \in Remotes, log[w] # <<>> PROVE FALSE
    <3>1. PICK i \in 1..Len(log[Home]) : log[Home][i].to = Home
      BY <1>1, <2>1, <2>2, NonEmpty DEF Lived, ToSet
    <3>2. log[Home][1].to = Home
      BY <3>1 DEF Followed
    <3>3. log[w][1].to = w /\ log[w][1] = log[Home][1]
      BY <2>1, <2>2 DEF Followed, HasInv, Begun
    <3>4. QED
      BY <3>2, <3>3
  <2>3. QED
    BY <2>1, <2>2
<1>3. CASE Copied(n, e)
  <2>1. n = Home
    BY <1>1, <1>3 DEF Copied, Pulled, Pushed
  <2>2. PICK w \in Remotes : Same(w, e)
    BY <1>1, <1>3 DEF Copied, Pulled, Pushed
  <2>3. e.seq \in 1..Len(log[w]) /\ log[w][e.seq] = e
    BY <2>2, EventOf DEF CoreInv
  <2>4. log[w] # <<>> /\ log[w][1].to = w
    BY <1>1, <2>3, NonEmpty DEF Followed
  <2>5. ASSUME NEW u \in Remotes, log[u] # <<>> PROVE u = w
    BY <2>4, <2>5 DEF Followed, HasInv, Begun
  <2>6. ASSUME e.to # None PROVE e.seq = 1
    BY <2>3, <2>6 DEF Followed
  <2>7. QED
    BY <1>1, <2>1, <2>2, <2>5, <2>6
<1>4. QED
  BY <1>2, <1>3 DEF Grows

LEMMA FollowedStep ==
    ASSUME CoreInv, HasInv, Followed, [Next]_vars, phase'[Home] = "idle" PROVE Followed'
<1> USE NodesDef
<1>1. CASE LogsRest
  BY <1>1 DEF LogsRest, Followed, Same
<1>2. ASSUME NEW n \in Nodes, NEW e \in Event, Grows(n, e) PROVE Followed'
  <2>1. /\ \A m \in Nodes \ {n} : log'[m] = log[m]
        /\ Len(log[n]) \in Nat /\ Len(log'[n]) = Len(log[n]) + 1
        /\ \A i \in 1..Len(log[n]) : log'[n][i] = log[n][i]
        /\ log'[n][Len(log[n]) + 1] = e /\ e.seq = Len(log[n]) + 1
    BY <1>2, LogGrown DEF CoreInv, Grows
  <2>2. /\ log[n] = <<>> => n = Home /\ e.seq = 1
        /\ e.to # None => e.seq = 1
        /\ n = Home => \A w \in Remotes : log[w] # <<>> => Same(w, e)
    BY <1>2, FollowedGrows
  <2>3. \A m \in Nodes : \A i \in 1..Len(log'[m]) : log'[m][i].to # None => i = 1
    <3>1. ASSUME NEW m \in Nodes, NEW i \in 1..Len(log'[m]), log'[m][i].to # None PROVE i = 1
      <4>1. \/ i \in 1..Len(log[m]) /\ log'[m][i] = log[m][i]
            \/ i = e.seq /\ log'[m][i] = e
        BY <2>1
      <4>2. QED
        BY <2>2, <3>1, <4>1 DEF Followed
    <3>2. QED
      BY <3>1
  <2>4. ASSUME NEW w \in Remotes, log'[w] # <<>>
        PROVE  log'[w][1].to = w /\ \A i \in 1..Len(log'[Home]) : SameNext(w, log'[Home][i])
    <3>1. w \in Nodes /\ w # Home
      OBVIOUS
    <3>2. log[w] # <<>>
      BY <2>1, <2>2, <2>4, <3>1
    <3>3. log'[w][1] = log[w][1] /\ log[w][1].to = w
      BY <3>1, <3>2, StaysThere DEF Followed
    <3>4. ASSUME NEW i \in 1..Len(log'[Home]) PROVE Same(w, log'[Home][i]) /\ log'[Home][i] \in Event
      <4>1. \/ i \in 1..Len(log[Home]) /\ log'[Home][i] = log[Home][i]
            \/ n = Home /\ log'[Home][i] = e
        BY <2>1
      <4>2. log'[Home] \in Seq(Event)
        BY StaysThere
      <4>3. QED
        BY <2>2, <3>2, <4>1, <4>2 DEF Followed
    <3>5. QED
      BY <3>1, <3>3, <3>4, LogsKept DEF Kept
  <2>5. QED
    BY <2>3, <2>4 DEF Followed, Same, SameNext
<1>3. QED
  BY <1>1, <1>2, LogSteps

LEMMA UnmovedStep == ASSUME CoreInv, HasInv, Unmoved, [Next]_vars PROVE Unmoved'
<1> SUFFICES ASSUME moves' = 0 PROVE Followed'
  BY DEF Unmoved
<1>1. moves = 0 /\ moves' = moves
  BY MovesCount DEF CoreInv, RestTypes
<1>2. Followed
  BY <1>1 DEF Unmoved
<1>3. phase'[Home] = "idle"
  BY <1>1, <1>2, MoveSteps DEF Followed, ReadRows, Copy, Steal
<1>4. QED
  BY <1>2, <1>3, FollowedStep

\* Until a session is moved, Home's log is a prefix of the one of the workspace
\* that created it: streams that break, answers that overlap with a stream and
\* restarts neither lose, nor repeat, nor reorder an event.
THEOREM HomeFollows == Spec => []FollowsWorkspace
<1>1. CoreInv /\ HasInv /\ Unmoved => FollowsWorkspace
  <2> SUFFICES ASSUME CoreInv, HasInv, Followed, NEW w \in Remotes, Lived(w)
               PROVE  /\ Len(log[Home]) <= Len(log[w])
                      /\ log[Home] = SubSeq(log[w], 1, Len(log[Home]))
    BY DEF FollowsWorkspace, Unmoved
  <2> DEFINE L == Len(log[Home])
  <2>1. w \in Nodes /\ log[w] \in Seq(Event) /\ log[Home] \in Seq(Event) /\ L \in Nat
        /\ Len(log[w]) \in Nat /\ Home \in Nodes
    BY NodesDef DEF CoreInv, LogsInv
  <2>2. log[w] # <<>>
    BY <2>1, LivedBegun DEF HasInv
  <2>3. \A i \in 1..L : i <= Len(log[w]) /\ log[w][i] = log[Home][i]
    BY <2>1, <2>2 DEF Followed, Same, CoreInv, LogsInv, Indexed
  <2>4. L <= Len(log[w])
    BY <2>1, <2>3
  <2>5. /\ SubSeq(log[w], 1, L) \in Seq(Event) /\ Len(SubSeq(log[w], 1, L)) = L
        /\ \A i \in 1..L : SubSeq(log[w], 1, L)[i] = log[w][i]
    BY <2>1, <2>4, SubSeqProperties
  <2>6. log[Home] = SubSeq(log[w], 1, L)
    BY <2>1, <2>3, <2>5, SeqEqual
  <2>7. QED
    BY <2>4, <2>6
<1>2. CoreInv /\ HasInv /\ Unmoved /\ [Next]_vars => Unmoved'
  BY UnmovedStep
<1>3. QED
  BY <1>1, <1>2, UnmovedInit, HasInvariant, PTL DEF Spec
=============================================================================
