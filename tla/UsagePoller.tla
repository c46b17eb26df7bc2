---------------------------- MODULE UsagePoller ----------------------------
(***************************************************************************)
(* How the BearFRP backend turns the traffic counters of frps into usage   *)
(* (backend/poller.py): poll rounds that read one list of frps after       *)
(* another without the lock, and then charge usage, deduct balances and    *)
(* stop proxies under it.                                                  *)
(*                                                                         *)
(* A tunnel is one name frps lists: a remote port of a TCP proxy, an HTTP  *)
(* proxy, or the STCP fallback of an XTCP proxy (the traffic of the XTCP   *)
(* tunnel itself does not pass through frps).  Online state and speeds are *)
(* left out.  The proxies here belong to one user and exist from the       *)
(* start; module Provisioning creates them, changes their limits and       *)
(* recharges users, with one number per poll round for all this traffic.   *)
(*                                                                         *)
(* frps is external: it counts what each tunnel carries today, starts from *)
(* 0 every day and when it restarts, and lists a tunnel from its first     *)
(* connection, online or not, until frps restarts.                         *)
(***************************************************************************)
EXTENDS Integers, FiniteSets, FiniteSetsExt

CONSTANTS
    Proxies,        \* the proxies of one user
    Tunnels,        \* the names frps lists for them
    ProxyOf,        \* the proxy of each tunnel
    ListOf,         \* the list of frps each tunnel appears in
    Limit,          \* traffic_limit_mb of each proxy
    MB,             \* bytes per MB (1024 * 1024 in the code)
    InitialMB,      \* the user's balance_mb at the start
    \* What the environment may do.
    ListsMayFail,   \* whether reading a list of frps may fail
    SavesMayFail,   \* whether writing SQLite may fail
    \* Bounds.
    MaxCarried,     \* bytes all tunnels carry
    MaxResets,      \* new days and restarts of frps
    MaxRestarts     \* crashes of the backend

Lists    == <<"tcp", "http", "stcp">>   \* the order of _list_all_proxy_infos
Statuses == {"active", "stopped_by_admin", "deleted"}
None     == -1                          \* no reading, no baseline

ASSUME PollerAssumption ==
    /\ IsFiniteSet(Proxies) /\ IsFiniteSet(Tunnels)
    /\ ProxyOf \in [Tunnels -> Proxies]
    /\ ListOf \in [Tunnels -> {"tcp", "http", "stcp"}]
    /\ Limit \in [Proxies -> Nat \ {0}]
    /\ MB \in Nat \ {0}
    /\ InitialMB \in Nat
    /\ ListsMayFail \in BOOLEAN
    /\ SavesMayFail \in BOOLEAN
    /\ MaxCarried \in Nat /\ MaxResets \in Nat /\ MaxRestarts \in Nat

VARIABLES
    status,    \* Proxy.status
    used,      \* Proxy.traffic_used_bytes
    last,      \* last_frps_total_bytes of each tunnel
    balance,   \* User.balance_mb
    stage,     \* the next list to read; 4: the readings are in; 0: the task is dead
    reading,   \* what this round has read for each tunnel, None if nothing
    disk,      \* the SQLite mirror
    counter,   \* frps: bytes of today, in and out
    listed,    \* frps: the tunnels it lists
    carried,   \* history: bytes the tunnel ever carried
    counted,   \* history: bytes of the tunnel that were charged
    resets, restarts

store == <<status, used, last, balance, counted>>
frps  == <<counter, listed, carried>>
vars  == <<store, stage, reading, disk, frps, resets, restarts>>

TunnelsOf(p) == {t \in Tunnels : ProxyOf[t] = p}

Snapshot == [status |-> status, used |-> used, last |-> last,
             balance |-> balance, counted |-> counted]

\* A save succeeds, or raises before or after the commit.
Saved == disk' = Snapshot'
SaveFailed == SavesMayFail /\ disk' \in {Snapshot', disk}

----------------------------------------------------------------------------
(* frps.                                                                   *)

\* NewProxy: the plugin admits the tunnel of an active proxy with traffic left.
Connect(t) ==
    /\ t \notin listed
    /\ status[ProxyOf[t]] = "active"
    /\ used[ProxyOf[t]] < Limit[ProxyOf[t]] * MB
    /\ listed' = listed \cup {t}
    /\ UNCHANGED <<store, stage, reading, disk, counter, carried, resets, restarts>>

\* A tunnel carries a byte.  A stopped or deleted proxy's tunnel
\* stays connected: frps has no way to close one (FrpsClient.kick_proxy).
Carry(t) ==
    /\ t \in listed
    /\ MapThenSumSet(LAMBDA u : carried[u], Tunnels) < MaxCarried
    /\ counter' = [counter EXCEPT ![t] = @ + 1]
    /\ carried' = [carried EXCEPT ![t] = @ + 1]
    /\ UNCHANGED <<store, stage, reading, disk, listed, resets, restarts>>

\* A new day, or (with nothing listed) a restart of frps.
Reset ==
    /\ resets < MaxResets
    /\ counter' = [t \in Tunnels |-> 0]
    /\ listed' \in {listed, {}}
    /\ resets' = resets + 1
    /\ UNCHANGED <<store, stage, reading, disk, carried, restarts>>

----------------------------------------------------------------------------
(* A poll round.                                                           *)

NoReading == [t \in Tunnels |-> None]

ReadList ==
    /\ stage \in 1 .. 3
    /\ reading' = [t \in Tunnels |->
          IF t \in listed /\ ListOf[t] = Lists[stage] THEN counter[t] ELSE reading[t]]
    /\ stage' = stage + 1
    /\ UNCHANGED <<store, disk, frps, resets, restarts>>

\* Without the TCP list the round ends; without another it goes on.
ListFails ==
    /\ ListsMayFail
    /\ stage \in 1 .. 3
    /\ stage' = IF stage = 1 THEN 1 ELSE stage + 1
    /\ UNCHANGED <<store, reading, disk, frps, resets, restarts>>

\* Mutant: a counter that was reset is charged as if it had wrapped.
DeltaWrapped(t) ==
    IF reading[t] = None \/ last[t] = None THEN 0
    ELSE IF reading[t] < last[t] THEN last[t] ELSE reading[t] - last[t]

\* The bytes charged for a tunnel: none without a baseline (not listed in the
\* last round) or when the counter has gone down.
Delta(t) ==
    IF reading[t] = None \/ last[t] = None \/ reading[t] < last[t]
    THEN 0
    ELSE reading[t] - last[t]

\* _charge_usage: the full MBs that the round completed.
Charged(p, before, after) == (after \div MB) - (before \div MB)

\* Mutant: the balance is not floored.
Difference(a, b) == a - b

Monus(a, b) == IF b > a THEN 0 ELSE a - b

Remaining(p) == status[p] # "deleted"

\* _apply_stop_rules.  Mutant: the limit is looked at when usage grows.
SpentNow(p, usage) ==
    status[p] = "active" /\ usage > used[p] /\ usage >= Limit[p] * MB

Spent(p, usage) == status[p] = "active" /\ usage >= Limit[p] * MB

\* poll_once, under the lock: the round's readings are charged, proxies at
\* their limit are stopped, and the store is saved if anything changed.  A
\* save that raises ends the background task.
Apply ==
    LET delta(t) == IF Remaining(ProxyOf[t]) THEN Delta(t) ELSE 0
        usage(p) == used[p] + MapThenSumSet(delta, TunnelsOf(p))
        cost(p)  == Charged(p, used[p], usage(p))
    IN  /\ stage = 4
        /\ used' = [p \in Proxies |-> usage(p)]
        /\ counted' = [t \in Tunnels |-> counted[t] + delta(t)]
        /\ last' = [t \in Tunnels |->
              IF Remaining(ProxyOf[t]) THEN reading[t] ELSE last[t]]
        /\ balance' = Monus(balance, MapThenSumSet(cost, Proxies))
        /\ status' = [p \in Proxies |->
              IF Spent(p, usage(p)) THEN "stopped_by_admin" ELSE status[p]]
        /\ reading' = NoReading
        /\ \/ /\ <<used', status'>> = <<used, status>>
              /\ stage' = 1
              /\ UNCHANGED disk
           \/ /\ <<used', status'>> # <<used, status>>
              /\ \/ Saved /\ stage' = 1
                 \/ SaveFailed /\ stage' = 0
        /\ UNCHANGED <<frps, resets, restarts>>

Poll == ReadList \/ ListFails \/ Apply

----------------------------------------------------------------------------
(* The user and the process.                                               *)

\* stop_proxy, start_proxy, delete_proxy.
SetStatus(p, new) ==
    /\ Remaining(p)
    /\ status' = [status EXCEPT ![p] = new]
    /\ UNCHANGED <<used, last, balance, counted, stage, reading, frps, resets, restarts>>
    /\ Saved \/ SaveFailed

\* Mutant: the balance is loaded from elsewhere than the usage.
RestartKeepsBalance ==
    /\ restarts < MaxRestarts
    /\ status' = disk.status /\ used' = disk.used /\ last' = disk.last
    /\ counted' = disk.counted
    /\ stage' = 1
    /\ reading' = NoReading
    /\ restarts' = restarts + 1
    /\ UNCHANGED <<balance, disk, frps, resets>>

\* The backend dies and loads its mirror; frps goes on.
Restart ==
    /\ restarts < MaxRestarts
    /\ status' = disk.status /\ used' = disk.used /\ last' = disk.last
    /\ balance' = disk.balance /\ counted' = disk.counted
    /\ stage' = 1
    /\ reading' = NoReading
    /\ restarts' = restarts + 1
    /\ UNCHANGED <<disk, frps, resets>>

Init ==
    /\ status = [p \in Proxies |-> "active"]
    /\ used = [p \in Proxies |-> 0]
    /\ last = [t \in Tunnels |-> None]
    /\ balance = InitialMB
    /\ counted = [t \in Tunnels |-> 0]
    /\ stage = 1
    /\ reading = NoReading
    /\ disk = Snapshot
    /\ counter = [t \in Tunnels |-> 0]
    /\ listed = {}
    /\ carried = [t \in Tunnels |-> 0]
    /\ resets = 0
    /\ restarts = 0

Next ==
    \/ \E t \in Tunnels : Connect(t) \/ Carry(t)
    \/ Reset
    \/ Poll
    \/ \E p \in Proxies, new \in Statuses : SetStatus(p, new)
    \/ Restart

\* The task goes on with its round, and frps answers every list now and then.
Fairness == WF_vars(Apply) /\ \A n \in 1 .. 3 : SF_vars(stage = n /\ ReadList)

Spec == Init /\ [][Next]_vars /\ Fairness

----------------------------------------------------------------------------
(* Properties.                                                             *)

\* The values the state ranges over.
TypeOK ==
    /\ status \in [Proxies -> Statuses]
    /\ used \in [Proxies -> Nat]
    /\ last \in [Tunnels -> Nat \cup {None}]
    /\ balance \in Nat
    /\ counted \in [Tunnels -> Nat]
    /\ stage \in 0 .. 4
    /\ reading \in [Tunnels -> Nat \cup {None}]
    /\ disk \in [status : [Proxies -> Statuses], used : [Proxies -> Nat],
                 last : [Tunnels -> Nat \cup {None}], balance : Nat,
                 counted : [Tunnels -> Nat]]
    /\ counter \in [Tunnels -> Nat]
    /\ listed \subseteq Tunnels
    /\ carried \in [Tunnels -> Nat]
    /\ resets \in 0 .. MaxResets
    /\ restarts \in 0 .. MaxRestarts

\* No tunnel is charged for more than it carried: not when frps restarts or a
\* day ends between a reading and its use, not when the tunnel vanishes from
\* the lists and returns, not when a crash brings back an older baseline.
NeverOvercharged == \A t \in Tunnels : counted[t] <= carried[t]

\* A proxy's usage is what its tunnels were charged, all ports of a TCP proxy
\* included, and the balance has paid for every full MB of every proxy once:
\* remainders below 1 MB are kept from round to round, and a crash never rolls
\* back one without the other.
BalanceTracksUsage ==
    /\ \A p \in Proxies : used[p] = MapThenSumSet(LAMBDA t : counted[t], TunnelsOf(p))
    /\ balance = Monus(InitialMB, MapThenSumSet(LAMBDA p : used[p] \div MB, Proxies))

\* A proxy at its limit does not stay active, however often its user starts
\* it again and however often a round fails.
OverLimitStopped ==
    \A p \in Proxies :
        (status[p] = "active" /\ used[p] >= Limit[p] * MB) ~> (status[p] # "active")
=============================================================================
