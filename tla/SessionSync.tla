----------------------------- MODULE SessionSync -----------------------------
(***************************************************************************)
(* One session whose event log is kept by several processes (opencode:     *)
(* core/src/event.ts, control-plane/workspace.ts, handlers/sync.ts).       *)
(*                                                                         *)
(* `Home' is the control process.  A remote workspace is a process of its  *)
(* own with a log of its own.  Home routes the requests for a session to   *)
(* the workspace the session is in, and follows the workspace's log: it    *)
(* opens an event stream (SSE), asks for the events it misses, replays     *)
(* them, and then replays what the stream brings.                          *)
(* sessionWarp moves the session: Home catches up with the workspace it    *)
(* leaves, claims the log for the new one, copies the log there, lets the  *)
(* new workspace `steal' the session and records the move.                 *)
(*                                                                         *)
(* phase[w], for a workspace, is the state of the loop that follows it:    *)
(*   "dead"       the loop has ended, or was not started                   *)
(*   "down"       it sleeps before the next attempt                        *)
(*   "asked"      the stream is open, the request for the history sent     *)
(*   "replaying"  the events of the answer                                 *)
(*   "up"         the events of the stream                                 *)
(* phase[Home] is the step of the move that is under way:                  *)
(*   "idle", "asked", "replaying" (catching up with the workspace left),   *)
(*   "claim", "rows", "copy", "place"                             *)
(*                                                                         *)
(* Publishing an event commits it and then hands it to the streams that    *)
(* are open; nothing is awaited in between, so it is one step.  Local      *)
(* workspaces share Home's log and are not told apart from it.             *)
(***************************************************************************)
EXTENDS Naturals, Sequences, SequencesExt

CONSTANTS
    Home,       \* the control process; as an owner, the project
    Remotes,    \* the remote workspaces
    Births,     \* where the session may have been created
    None,       \* no owner; an event that does not move the session
    MaxEvents,  \* bound: the events published
    MaxMoves,   \* bound: the moves begun
    MaxCuts     \* bound: connections cut, requests that fail, restarts of Home

ASSUME SyncAssumption ==
    /\ Home \notin Remotes /\ None \notin Remotes \cup {Home}
    /\ Births \subseteq Remotes \cup {Home}
    /\ MaxEvents \in Nat \ {0} /\ MaxMoves \in Nat /\ MaxCuts \in Nat

Nodes == Remotes \cup {Home}

\* An event.  `by' published it; `to' is the place it gives the session.
Event == [seq : 1..MaxEvents, id : 1..MaxEvents, by : Nodes, to : Nodes \cup {None}]

VARIABLES
    log,      \* node -> the events of the session it has committed
    owner,    \* node -> owner_id of the session's event sequence
    phase,    \* node -> what its loop, or the move, is at
    stream,   \* workspace -> the events on their way to Home
    known,    \* node -> the sequence number its request for history carries
    batch,    \* node -> the events it has still to replay
    warp,     \* the move: from, to
    made,     \* events published so far
    moves,    \* moves begun so far
    cuts,     \* failures so far
    tail, shown  \* a client's tail of Home's log, see EventTail

vars == <<log, owner, phase, stream, known, batch, warp, made, moves, cuts, tail, shown>>

Nowhere == [from |-> None, to |-> None]

LogTail == INSTANCE EventTail WITH events <- log[Home]

Init ==
    /\ \E birth \in Births :
         log = [n \in Nodes |-> IF n = birth
                  THEN <<[seq |-> 1, id |-> 1, by |-> birth, to |-> birth]>> ELSE <<>>]
    /\ owner = [n \in Nodes |-> None]
    /\ phase = [n \in Nodes |-> IF n = Home THEN "idle" ELSE "down"]
    /\ stream = [w \in Remotes |-> <<>>]
    /\ known = [n \in Nodes |-> 0] /\ batch = [n \in Nodes |-> <<>>]
    /\ warp = Nowhere
    /\ made = 1 /\ moves = 0 /\ cuts = 0
    /\ tail = LogTail!Closed /\ shown = <<>>

\* workspace_id of the session at Home: the place that the last event to
\* carry one gives it.
Placing(n) == {i \in DOMAIN log[n] : log[n][i].to # None}
Place == IF Placing(Home) = {} THEN None ELSE log[Home][Max(Placing(Home))].to

----------------------------------------------------------------------------
(* The log of a node (commitSyncEvent).                                    *)

\* Mutant: a commit does not signal the tail.
StoresSilently(n, e) ==
    /\ log' = [log EXCEPT ![n] = Append(@, e)]
    /\ tail' = tail

Stores(n, e) ==
    /\ log' = [log EXCEPT ![n] = Append(@, e)]
    /\ tail' = IF n = Home THEN LogTail!Signalled(tail) ELSE tail

\* A new event of node n.
Publish(n, to) ==
    LET e == [seq |-> Len(log[n]) + 1, id |-> made + 1, by |-> n, to |-> to]
    IN  /\ made < MaxEvents /\ made' = made + 1
        /\ Stores(n, e)
        /\ stream' = [w \in Remotes |->
                        IF w = n /\ phase[w] \notin {"dead", "down"}
                          THEN Append(stream[w], e) ELSE stream[w]]

\* The replay of event e at node n on behalf of an owner.
Fenced(n, by)   == owner[n] \notin {None, by}
Same(n, e)      == e.seq <= Len(log[n]) /\ log[n][e.seq] = e
Diverges(n, e)  == e.seq <= Len(log[n]) /\ log[n][e.seq] # e
Reused(n, e)    == \E i \in DOMAIN log[n] : log[n][i].id = e.id
Gap(n, e)       == e.seq > Len(log[n]) + 1

\* Mutant: the owner is not looked at.
FitsAnyOwner(n, e, by) == e.seq = Len(log[n]) + 1 /\ ~Reused(n, e)

\* Mutant: an event that is there already is added again.
FitsAgain(n, e, by) == ~Fenced(n, by)

Fits(n, e, by) == e.seq = Len(log[n]) + 1 /\ ~Fenced(n, by) /\ ~Reused(n, e)

Refused(n, e, by, strict) ==
    \/ strict /\ Fenced(n, by)
    \/ Diverges(n, e)
    \/ e.seq > Len(log[n]) /\ ~Fenced(n, by) /\ (Gap(n, e) \/ Reused(n, e))

Replay(n, e, by, strict) ==
    /\ ~Refused(n, e, by, strict)
    /\ IF Fits(n, e, by) THEN Stores(n, e) ELSE UNCHANGED <<log, tail>>
    /\ owner' = IF owner[n] = None /\ (Same(n, e) \/ Fits(n, e, by))
                  THEN [owner EXCEPT ![n] = by] ELSE owner

Refuse(n, e, by, strict) ==
    /\ Refused(n, e, by, strict)
    /\ UNCHANGED <<log, tail, owner>>

Goes(n, to) == phase' = [phase EXCEPT ![n] = to]

----------------------------------------------------------------------------
(* Home catches up: syncHistory, for the loop of a workspace or for the    *)
(* move of the session out of one.                                         *)

Space(k) == IF k = Home THEN warp.from ELSE k

\* The request names the sessions that are in the workspace, and how far
\* Home knows them.
Asks(k, space) ==
    known' = [known EXCEPT ![k] = IF Place = space THEN Len(log[Home]) ELSE 0]

\* Mutant: the answer starts one event too late.
AnswerLater(k) ==
    /\ phase[k] = "asked" /\ Goes(k, "replaying")
    /\ batch' = [batch EXCEPT ![k] =
                   SubSeq(log[Space(k)], known[k] + 2, Len(log[Space(k)]))]
    /\ known' = [known EXCEPT ![k] = 0]
    /\ UNCHANGED <<log, owner, stream, warp, made, moves, cuts, tail, shown>>

Answer(k) ==
    /\ phase[k] = "asked" /\ Goes(k, "replaying")
    /\ batch' = [batch EXCEPT ![k] =
                   SubSeq(log[Space(k)], known[k] + 1, Len(log[Space(k)]))]
    /\ known' = [known EXCEPT ![k] = 0]
    /\ UNCHANGED <<log, owner, stream, warp, made, moves, cuts, tail, shown>>

\* A move goes on without the history, the loop of a workspace starts again.
AskFails(k) ==
    /\ phase[k] = "asked" /\ cuts < MaxCuts /\ cuts' = cuts + 1
    /\ Goes(k, IF k = Home THEN "claim" ELSE "down")
    /\ stream' = [w \in Remotes |-> IF w = k THEN <<>> ELSE stream[w]]
    /\ known' = [known EXCEPT ![k] = 0]
    /\ UNCHANGED <<log, owner, batch, warp, made, moves, tail, shown>>

CatchesUp(k) ==
    /\ phase[k] = "replaying"
    /\ batch[k] # <<>> /\ Replay(Home, Head(batch[k]), Space(k), FALSE)
    /\ batch' = [batch EXCEPT ![k] = Tail(@)]
    /\ UNCHANGED <<phase, stream, known, warp, made, moves, cuts, shown>>

\* An event that is refused is a defect: it ends the loop, or the move.
CatchUpDies(k) ==
    /\ phase[k] = "replaying"
    /\ batch[k] # <<>> /\ Refuse(Home, Head(batch[k]), Space(k), FALSE)
    /\ Goes(k, IF k = Home THEN "idle" ELSE "dead")
    /\ batch' = [batch EXCEPT ![k] = <<>>]
    /\ stream' = [w \in Remotes |-> IF w = k THEN <<>> ELSE stream[w]]
    /\ warp' = (IF k = Home THEN Nowhere ELSE warp)
    /\ UNCHANGED <<known, made, moves, cuts, shown>>

\* Mutant: a move ends like the start of a loop.
CaughtUpAlways(k) ==
    /\ phase[k] = "replaying" /\ batch[k] = <<>> /\ Goes(k, "up")
    /\ UNCHANGED <<log, owner, stream, known, batch, warp, made, moves, cuts, tail, shown>>

CaughtUp(k) ==
    /\ phase[k] = "replaying" /\ batch[k] = <<>>
    /\ Goes(k, IF k = Home THEN "claim" ELSE "up")
    /\ UNCHANGED <<log, owner, stream, known, batch, warp, made, moves, cuts, tail, shown>>

----------------------------------------------------------------------------
(* The loop that follows a workspace.                                      *)

Start(w) ==
    /\ phase[w] = "dead" /\ Goes(w, "down")
    /\ UNCHANGED <<log, owner, stream, known, batch, warp, made, moves, cuts, tail, shown>>

Connect(w) ==
    /\ phase[w] = "down" /\ Goes(w, "asked") /\ Asks(w, w)
    /\ UNCHANGED <<log, owner, stream, batch, warp, made, moves, cuts, tail, shown>>

\* An event that is refused is logged and dropped.
Receive(w) ==
    /\ phase[w] = "up" /\ stream[w] # <<>>
    /\ LET e == Head(stream[w])
       IN  Replay(Home, e, w, FALSE) \/ Refuse(Home, e, w, FALSE)
    /\ stream' = [stream EXCEPT ![w] = Tail(@)]
    /\ UNCHANGED <<phase, known, batch, warp, made, moves, cuts, shown>>

\* The stream ends, and the loop connects again; or it fails, which ends the
\* loop until a client starts it.  What it carried is lost.
Cut(w) ==
    /\ phase[w] = "up" /\ cuts < MaxCuts /\ cuts' = cuts + 1
    /\ \E to \in {"down", "dead"} : Goes(w, to)
    /\ stream' = [stream EXCEPT ![w] = <<>>]
    /\ UNCHANGED <<log, owner, known, batch, warp, made, moves, tail, shown>>

\* Home ends and starts again; the loops start when a client asks for it.
Restart ==
    /\ cuts < MaxCuts /\ cuts' = cuts + 1
    /\ phase' = [n \in Nodes |-> IF n = Home THEN "idle" ELSE "dead"]
    /\ stream' = [w \in Remotes |-> <<>>] /\ batch' = [n \in Nodes |-> <<>>]
    /\ tail' = LogTail!Closed
    /\ known' = [n \in Nodes |-> 0] /\ warp' = Nowhere
    /\ UNCHANGED <<log, owner, made, moves, shown>>

----------------------------------------------------------------------------
(* The move of the session (sessionWarp).                                  *)

Warp(to) ==
    /\ phase[Home] = "idle" /\ Place \in Nodes \ {to}
    /\ moves < MaxMoves /\ moves' = moves + 1
    /\ warp' = [from |-> Place, to |-> to]
    /\ IF Place = Home THEN Goes(Home, "rows") /\ UNCHANGED known
                       ELSE Goes(Home, "asked") /\ Asks(Home, Place)
    /\ UNCHANGED <<log, owner, stream, batch, made, cuts, tail, shown>>

\* Only a session that leaves a workspace is claimed.
Claim ==
    /\ phase[Home] = "claim" /\ Goes(Home, IF warp.to = Home THEN "place" ELSE "rows")
    /\ owner' = [owner EXCEPT ![Home] = warp.to]
    /\ UNCHANGED <<log, stream, known, batch, warp, made, moves, cuts, tail, shown>>

ReadRows ==
    /\ phase[Home] = "rows" /\ Goes(Home, "copy")
    /\ batch' = [batch EXCEPT ![Home] = log[Home]]
    /\ UNCHANGED <<log, owner, stream, known, warp, made, moves, cuts, tail, shown>>

\* The workspace replays the rows, as their only owner.
Copy ==
    /\ phase[Home] = "copy"
    /\ batch[Home] # <<>> /\ Replay(warp.to, Head(batch[Home]), warp.to, TRUE)
    /\ batch' = [batch EXCEPT ![Home] = Tail(@)]
    /\ UNCHANGED <<phase, stream, known, warp, made, moves, cuts, shown>>

CopyDies ==
    /\ phase[Home] = "copy"
    /\ batch[Home] # <<>> /\ Refuse(warp.to, Head(batch[Home]), warp.to, TRUE)
    /\ Goes(Home, "idle") /\ batch' = [batch EXCEPT ![Home] = <<>>]
    /\ warp' = Nowhere
    /\ UNCHANGED <<stream, known, made, moves, cuts, shown>>

\* Mutant: Home records the move without waiting for the workspace.
StealLater ==
    /\ phase[Home] = "copy" /\ batch[Home] = <<>> /\ Goes(Home, "place")
    /\ UNCHANGED <<log, owner, stream, known, batch, warp, made, moves, cuts, tail, shown>>

Steal ==
    /\ phase[Home] = "copy" /\ batch[Home] = <<>> /\ Goes(Home, "place")
    /\ Publish(warp.to, warp.to)
    /\ UNCHANGED <<owner, known, batch, warp, moves, cuts, shown>>

\* A request of the move fails, or its answer is lost.
Aborts ==
    /\ phase[Home] = "copy" /\ cuts < MaxCuts /\ cuts' = cuts + 1
    /\ Goes(Home, "idle") /\ batch' = [batch EXCEPT ![Home] = <<>>]
    /\ \/ UNCHANGED <<log, stream, made, tail>>
       \/ batch[Home] = <<>> /\ Publish(warp.to, warp.to)
    /\ warp' = Nowhere
    /\ UNCHANGED <<owner, known, moves, shown>>

Placed ==
    /\ phase[Home] = "place" /\ Goes(Home, "idle")
    /\ Publish(Home, warp.to)
    /\ warp' = Nowhere
    /\ UNCHANGED <<owner, known, batch, moves, cuts, shown>>

----------------------------------------------------------------------------
\* A prompt that started at node n while the session was there may run on.
Lived(n) == \/ \E e \in ToSet(log[Home]) : e.to = n
            \/ log[n] # <<>> /\ log[n][1].to = n

Write(n) ==
    /\ Lived(n) /\ Publish(n, None)
    /\ UNCHANGED <<owner, phase, known, batch, warp, moves, cuts, shown>>

others == <<log, owner, phase, stream, known, batch, warp, made, moves, cuts>>

TailOpens == UNCHANGED others /\ LogTail!Open
TailMoves == UNCHANGED others /\ LogTail!Follow

Pulls(k) == Answer(k) \/ CatchesUp(k) \/ CatchUpDies(k) \/ CaughtUp(k)

Moves == \/ \E to \in Nodes : Warp(to)
         \/ Claim \/ ReadRows \/ Copy \/ CopyDies \/ Steal \/ Aborts \/ Placed

Next ==
    \/ \E k \in Nodes : Pulls(k) \/ AskFails(k) \/ Write(k)
    \/ \E w \in Remotes : Start(w) \/ Connect(w) \/ Receive(w) \/ Cut(w)
    \/ Restart \/ Moves \/ TailOpens \/ TailMoves

\* A loop that lives goes on: it connects in the end, and its requests are
\* answered.  Nothing says that a client starts a loop that has ended.
Fairness == \A w \in Remotes : WF_vars(Pulls(w) \/ Connect(w) \/ Receive(w))

Spec == Init /\ [][Next]_vars /\ Fairness

----------------------------------------------------------------------------
(* Properties.                                                             *)

TypeOK ==
    /\ log \in [Nodes -> Seq(Event)] /\ owner \in [Nodes -> Nodes \cup {None}]
    /\ DOMAIN phase = Nodes
    /\ \A w \in Remotes : phase[w] \in {"dead", "down", "asked", "replaying", "up"}
    /\ phase[Home] \in {"idle", "asked", "replaying", "claim", "rows", "copy", "place"}
    /\ stream \in [Remotes -> Seq(Event)] /\ batch \in [Nodes -> Seq(Event)]
    /\ known \in [Nodes -> 0..MaxEvents]
    /\ warp \in [from : Nodes \cup {None}, to : Nodes \cup {None}]
    /\ made \in 1..MaxEvents /\ moves \in 0..MaxMoves /\ cuts \in 0..MaxCuts
    /\ LogTail!TailTypeOK

\* While a session stays in the workspace that created it, Home's log is the
\* beginning of the workspace's, whatever is cut, repeated or restarted: a
\* sequence number that Home has reached stands for the same event there.
\* The fence that holds back the answer of a routed request relies on it.
FollowsWorkspace ==
    (moves = 0) => \A w \in Remotes :
        Lived(w) => /\ Len(log[Home]) <= Len(log[w])
                    /\ log[Home] = SubSeq(log[w], 1, Len(log[Home]))

\* A session that Home routes to a workspace is there, with its history from
\* the start, and the workspace has recorded that the session is its own.
WorkspaceHasSession ==
    \A w \in Remotes : Place = w =>
        /\ log[w][1] = log[Home][1]
        /\ \E e \in ToSet(log[w]) : e.to = w

\* Once Home has claimed a session, events that come from another workspace
\* are not added to its log.
FormerOwnerIgnored ==
    [][\A i \in DOMAIN log'[Home] \ DOMAIN log[Home] :
          owner[Home] # None => log'[Home][i].by \in {Home, owner[Home]}]_vars

\* What the client of a tail is shown is Home's log, in order and complete.
TailShowsLog == LogTail!ShownInOrder /\ LogTail!NothingMissed

\* As long as the session is not moved, Home comes to have every event of the
\* workspace, however often the loop connects again: unless an error has ended
\* it and no client starts it.
CatchesUpAgain ==
    []<>(\A w \in Remotes :
            (moves = 0 /\ Lived(w) /\ phase[w] # "dead") => Len(log[Home]) >= Len(log[w]))

\* Home's log and a tail of it behave as EventTail says.
TailSteps == LogTail!Init /\ [][LogTail!Next]_<<log[Home], tail, shown>>

=============================================================================
