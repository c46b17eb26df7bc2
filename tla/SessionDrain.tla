---------------------------- MODULE SessionDrain ----------------------------
(***************************************************************************)
(* A Session of opencode at work: prompts are admitted to its durable      *)
(* inbox (session/input.ts), each admission wakes the run coordinator      *)
(* (session.ts, prompt), and the drain it runs is the Session runner       *)
(* (session/runner/llm.ts, run), which promotes inputs and calls the       *)
(* provider turn by turn.                                                  *)
(*                                                                         *)
(* Between the commit of an admission or of an interrupt request and the   *)
(* call of the coordinator the caller yields: the calls on their way are   *)
(* in `calls'.  With InOrder they arrive in the order of their commits,    *)
(* without it in any order.  Each database statement of the drain is a     *)
(* step of its own.                                                        *)
(***************************************************************************)
EXTENDS RunCoordinator, Sequences

CONSTANTS
    MaxCalls,   \* bound: the calls on their way at once
    MaxRetries  \* bound: the prompts sent again

ASSUME CallsAssumption == MaxCalls \in Nat \ {0} /\ MaxRetries \in Nat

VARIABLES
    latest,     \* sequence number of the last admission or interrupt request
    inbox,      \* sequence number -> row of session_input
    calls,      \* calls of wake and interrupt that are on their way
    retries,    \* the prompts sent again so far
    body,       \* slot -> where its drain stands
    promised    \* history: woken inputs whose drain neither failed nor was
                \* interrupted since

drainVars == <<latest, inbox, calls, retries, body, promised>>
allVars   == <<vars, drainVars>>

Deliveries == {"steer", "queue"}
Rows == [state : {"none", "pending", "promoted"}, delivery : Deliveries]

NoBody   == [at |-> "none", promotion |-> "none", cutoff |-> 0, given |-> {}]
NewBody  == [NoBody EXCEPT !.at = "steer?"]

Pending(delivery) ==
    {s \in Seqs : inbox[s].state = "pending" /\ inbox[s].delivery = delivery}

First(S) == CHOOSE s \in S : \A t \in S : s <= t

DrainInit ==
    /\ Init
    /\ latest = 0
    /\ inbox = [s \in Seqs |-> [state |-> "none", delivery |-> "steer"]]
    /\ calls = <<>>
    /\ retries = 0
    /\ body = [k \in Slots |-> NoBody]
    /\ promised = {}

\* After a step of the coordinator: a drain that has just begun is at its
\* first statement, one that ended is gone.
BodiesFollow ==
    body' = [k \in Slots |->
               IF entries'[k].phase # "draining" THEN NoBody
               ELSE IF entries[k].phase = "draining" THEN body[k]
               ELSE NewBody]

----------------------------------------------------------------------------
(* The API of a Session.                                                   *)

Send(op, s) == /\ Len(calls) < MaxCalls
               /\ calls' = Append(calls, [op |-> op, seq |-> s])

\* prompt: admit, and wake unless resume is false.
Prompt(delivery, resume) ==
    /\ latest < MaxSeq
    /\ latest' = latest + 1
    /\ inbox' = [inbox EXCEPT ![latest + 1] = [state |-> "pending", delivery |-> delivery]]
    /\ IF resume THEN Send("wake", latest + 1) ELSE UNCHANGED calls
    /\ UNCHANGED <<vars, retries, body, promised>>

\* prompt with the message ID of an earlier one: the stored row is returned
\* and the wake carries its old sequence number.
RetryPrompt(s) ==
    /\ inbox[s].state # "none"
    /\ retries < MaxRetries
    /\ retries' = retries + 1
    /\ Send("wake", s)
    /\ UNCHANGED <<vars, latest, inbox, body, promised>>

\* interrupt: publish InterruptRequested, then call the coordinator.
RequestInterrupt ==
    /\ latest < MaxSeq
    /\ latest' = latest + 1
    /\ Send("interrupt", latest + 1)
    /\ UNCHANGED <<vars, inbox, retries, body, promised>>

\* A call reaches the coordinator.
DeliverWake(i) ==
    /\ calls[i].op = "wake"
    /\ promised' = IF WakeAccepted(calls[i].seq) /\ inbox[calls[i].seq].state = "pending"
                   THEN promised \cup {calls[i].seq} ELSE promised
    /\ Wake(calls[i].seq)

DeliverInterrupt(i) ==
    /\ calls[i].op = "interrupt"
    /\ promised' = {s \in promised : s > calls[i].seq}
    /\ Interrupt(calls[i].seq)

Without(seq, i) == SubSeq(seq, 1, i - 1) \o SubSeq(seq, i + 1, Len(seq))

Deliver(i) ==
    /\ i \in 1 .. Len(calls)
    /\ InOrder => i = 1
    /\ DeliverWake(i) \/ DeliverInterrupt(i)
    /\ calls' = Without(calls, i)
    /\ BodiesFollow
    /\ UNCHANGED <<latest, inbox, retries>>

\* resume
Resume(c) == Run(c) /\ BodiesFollow /\ UNCHANGED <<latest, inbox, calls, retries, promised>>

Abandon(c) == Leave(c) /\ UNCHANGED drainVars

----------------------------------------------------------------------------
(* SessionRunner.run, one database statement at a time.                    *)

\* An interrupt falls between two statements; after it only cleanup runs.
At(k, at) == /\ entries[k].phase = "draining"
             /\ ~ entries[k].stopping /\ ~ closed
             /\ body[k].at = at

Goto(k, at, promotion) ==
    body' = [body EXCEPT ![k].at = at, ![k].promotion = promotion, ![k].cutoff = 0]

Inward == UNCHANGED <<vars, latest, calls, retries>>     \* the drain alone moves

\* hasSteer
AsksSteer(k) ==
    /\ At(k, "steer?")
    /\ IF Pending("steer") # {} THEN Goto(k, "turn", "steer") ELSE Goto(k, "queue?", "none")
    /\ UNCHANGED <<inbox, promised>> /\ Inward

\* Mutant: every drain goes on to the provider.
AsksQueueOfAll(k) ==
    /\ At(k, "queue?")
    /\ IF Pending("queue") # {} THEN Goto(k, "turn", "queue") ELSE Goto(k, "turn", "none")
    /\ UNCHANGED <<inbox, promised>> /\ Inward

\* hasQueue; a drain that is not forced returns when there is neither.
AsksQueue(k) ==
    /\ At(k, "queue?")
    /\ IF Pending("queue") # {} THEN Goto(k, "turn", "queue")
       ELSE IF entries[k].current.tag = "run" THEN Goto(k, "turn", "none")
       ELSE Goto(k, "end", "none")
    /\ UNCHANGED <<inbox, promised>> /\ Inward

\* runTurnAttempt up to latestSeq
TurnBegins(k) ==
    /\ At(k, "turn")
    /\ body' = [body EXCEPT ![k].at = CASE body[k].promotion = "steer" -> "steers"
                                        [] body[k].promotion = "queue" -> "queued"
                                        [] OTHER -> "provider",
                            ![k].promotion = "none",
                            ![k].cutoff = IF body[k].promotion = "none" THEN 0 ELSE latest]
    /\ UNCHANGED <<inbox, promised>> /\ Inward

\* One PromptLifecycle.Promoted event: the row is marked, the input visible.
Promotes(k, s, at) ==
    /\ inbox' = [inbox EXCEPT ![s].state = "promoted"]
    /\ promised' = promised \ {s}
    /\ body' = [body EXCEPT ![k].at = at, ![k].given = @ \cup {s}]

\* promoteNextQueued
PromotesQueued(k) ==
    /\ At(k, "queued")
    /\ IF Pending("queue") = {} 
       THEN body' = [body EXCEPT ![k].at = "steers"] /\ UNCHANGED <<inbox, promised>>
       ELSE Promotes(k, First(Pending("queue")), "steers")
    /\ Inward

\* Mutant: the newest input first.
PromotesNewest(k) ==
    /\ At(k, "steers")
    /\ LET due == {s \in Pending("steer") : s <= body[k].cutoff}
       IN  IF due = {} THEN Goto(k, "provider", "none") /\ UNCHANGED <<inbox, promised>>
           ELSE Promotes(k, CHOOSE s \in due : \A t \in due : s >= t, "steers")
    /\ Inward

\* promoteSteers: the rows up to the cutoff, in admission order.
PromotesSteers(k) ==
    /\ At(k, "steers")
    /\ LET due == {s \in Pending("steer") : s <= body[k].cutoff}
       IN  IF due = {} THEN Goto(k, "provider", "none") /\ UNCHANGED <<inbox, promised>>
           ELSE Promotes(k, First(due), "steers")
    /\ Inward

\* The provider turn: it has to go on (tool calls), is built anew (another
\* agent or model, a compaction), or is the last one of the activity.
ProviderContinues(k) == /\ At(k, "provider")
                        /\ Goto(k, "turn", "steer")
                        /\ UNCHANGED <<inbox, promised>> /\ Inward
ProviderRebuilds(k)  == /\ At(k, "provider")
                        /\ Goto(k, "turn", "none")
                        /\ UNCHANGED <<inbox, promised>> /\ Inward
ProviderEnds(k)      == /\ At(k, "provider")
                        /\ Goto(k, "more?", "steer")
                        /\ UNCHANGED <<inbox, promised>> /\ Inward

\* A steer that arrived meanwhile continues the activity.
AsksMore(k) ==
    /\ At(k, "more?")
    /\ IF Pending("steer") # {} THEN Goto(k, "turn", "steer") ELSE Goto(k, "open?", "none")
    /\ UNCHANGED <<inbox, promised>> /\ Inward

\* A queued input opens the next activity.
AsksOpen(k) ==
    /\ At(k, "open?")
    /\ IF Pending("queue") # {} THEN Goto(k, "turn", "queue") ELSE Goto(k, "end", "none")
    /\ UNCHANGED <<inbox, promised>> /\ Inward

DrainMoves(k) == \/ AsksSteer(k) \/ AsksQueue(k) \/ TurnBegins(k)
                 \/ PromotesQueued(k) \/ PromotesSteers(k)
                 \/ AsksMore(k) \/ AsksOpen(k)

Starts(k) == Begin(k) /\ BodiesFollow /\ UNCHANGED <<latest, inbox, calls, retries, promised>>

Settled == BodiesFollow /\ UNCHANGED <<latest, inbox, calls, retries>>

Ends(k) == At(k, "end") /\ Settle(k, "ok") /\ Settled /\ UNCHANGED promised

\* The Session moved, its model cannot be resolved, or the provider failed.
\* The inputs woken before this drain began are left to the next wake.
Fails(k) ==
    /\ At(k, "turn") \/ At(k, "provider")
    /\ Settle(k, "failed")
    /\ promised' = promised \cap unserved
    /\ Settled

\* The cleanup after an interrupt is over.
Stops(k) ==
    /\ entries[k].stopping \/ closed
    /\ Settle(k, "failed") \/ SettleDetached(k, "failed")
    /\ Settled /\ UNCHANGED promised

CloseSession == Close /\ promised' = {} /\ UNCHANGED <<latest, inbox, calls, retries, body>>

RestartSession == Restart /\ UNCHANGED drainVars

DrainNext ==
    \/ \E delivery \in Deliveries, resume \in BOOLEAN : Prompt(delivery, resume)
    \/ \E s \in Seqs : RetryPrompt(s)
    \/ RequestInterrupt
    \/ \E i \in 1 .. MaxCalls : Deliver(i)
    \/ \E c \in Callers : Resume(c) \/ Abandon(c)
    \/ \E k \in Slots : \/ Starts(k) \/ DrainMoves(k)
                        \/ ProviderContinues(k) \/ ProviderRebuilds(k) \/ ProviderEnds(k)
                        \/ Ends(k) \/ Fails(k) \/ Stops(k)
    \/ CloseSession \/ RestartSession

\* Calls arrive, fibers run, and the provider does not ask for tools, or the
\* turn for another attempt, for ever.
Fairness ==
    /\ WF_allVars(Deliver(1))
    /\ \A c \in Callers : WF_allVars(callers[c].at = "again" /\ Resume(c))
    /\ \A k \in Slots : /\ WF_allVars(Starts(k)) /\ WF_allVars(DrainMoves(k))
                        /\ SF_allVars(ProviderEnds(k))
                        /\ WF_allVars(Ends(k)) /\ WF_allVars(Stops(k))

DrainSpec == DrainInit /\ [][DrainNext]_allVars /\ Fairness

----------------------------------------------------------------------------
(* Properties.                                                             *)

\* Every variable keeps its type.
DrainTypeOK ==
    /\ TypeOK
    /\ latest \in 0 .. MaxSeq
    /\ inbox \in [Seqs -> Rows]
    /\ calls \in Seq([op : {"wake", "interrupt"}, seq : Seqs])
    /\ Len(calls) <= MaxCalls
    /\ retries \in 0 .. MaxRetries
    /\ body \in [Slots -> [at : {"none", "steer?", "queue?", "turn", "queued", "steers",
                                 "provider", "more?", "open?", "end"},
                           promotion : {"none", "steer", "queue"},
                           cutoff : 0 .. MaxSeq, given : SUBSET Seqs]]
    /\ promised \subseteq Seqs

\* "A wake calls the provider only when it can promote eligible input" (specs/
\* v2/session.md:159): whatever is admitted, promoted and interrupted between
\* its statements, a drain that no one asked for explicitly reaches the
\* provider only with an input it promoted itself.
WakePromotes ==
    \A k \in Slots : At(k, "provider") /\ entries[k].current.tag = "wake" => body[k].given # {}

\* "durable admission order ... FIFO order" (specs/v2/session.md:165): inputs of
\* one delivery become visible in the order of their admission, across drains,
\* interruptions and restarts.
PromotedInOrder ==
    \A s, t \in Seqs : /\ s < t
                       /\ inbox[s].state = "pending" /\ inbox[t].state = "promoted"
                       => inbox[s].delivery # inbox[t].delivery

\* A prompt whose wake reached the coordinator becomes visible, unless a newer
\* interrupt, a failed drain that began after the wake, or the end of the
\* process comes between.
PromptServed == \A s \in Seqs : s \in promised ~> s \notin promised

\* Who waits for a run is answered: no caller hangs on a chain that ended.
CallersAnswered == \A c \in Callers : callers[c].at \in Waits \cup {"again"}
                                      ~> callers[c].at \notin Waits \cup {"again"}
============================================================================
