---------------------------- MODULE Provisioning ----------------------------
(***************************************************************************)
(* The BearFRP store and everything that writes it: proxy records, user    *)
(* balances, the public port pool, and their persistence.                  *)
(*                                                                         *)
(*   backend/models.py             Store, Proxy, User                      *)
(*   backend/port_pool.py          the pool (module PortPool)              *)
(*   backend/routes/user_api.py    recharge, create, delete, stop, start,  *)
(*                                 update                                  *)
(*   backend/routes/admin_api.py   stop, start, delete, update_config      *)
(*   backend/poller.py             what one poll round does to the store   *)
(*   backend/sqlite_persistence.py, persist_config.py, main.py             *)
(*                                 saving, loading and the boot sequence   *)
(*                                                                         *)
(* Every handler runs under store.lock without awaiting inside it, so one  *)
(* handler is one action.  A handler that rejects a request before it has  *)
(* changed anything is not an action.  Connection state (is_online, speed, *)
(* last_seen_at), local addresses and the transport options of a proxy     *)
(* are left out; traffic is counted in whole MB.                           *)
(***************************************************************************)
EXTENDS PortPool, FiniteSetsExt

CONSTANTS
    Users,           \* the registered users
    Names,           \* proxy names a user may choose
    Subdomains,      \* HTTP subdomain prefixes
    NoSubdomain,     \* the subdomain of a proxy that is not HTTP
    Types,           \* the proxy types in use, a subset of ProxyTypes
    Limits,          \* values of traffic_mb in a request
    FreeAmount,      \* settings.free_recharge_amount_mb
    InitialMB,       \* traffic each user has recharged at the start
    MaxConnections,  \* settings.max_connections_per_user
    MaxTcpPorts,     \* settings.max_tcp_ports_per_proxy
    DefaultRange,    \* the allocatable range of the settings, <<start, end>>
    Ranges,          \* the ranges the administrator may configure
    \* What the environment may do.
    BusyPorts,       \* ports other programs may be listening on
    BootBusyPorts,   \* the same while the backend boots
    SavesMayFail,    \* whether writing SQLite or the range file can fail
    TornWrites,      \* whether a crash can truncate the range file
    AdminDeletable,  \* statuses of the records the administrator deletes
    \* Bounds.
    MaxId,           \* proxies created
    MaxRecharged,    \* traffic recharged per user
    MaxDelta,        \* MB one proxy carries between two poll rounds
    MaxUsed,         \* MB one proxy ever carries
    MaxRestarts      \* crashes

ProxyTypes == {"tcp", "http", "xtcp"}
LiveStatuses == {"active", "stopped_by_admin"}
Ids == 1 .. MaxId
NoFile == <<0, 0>>    \* the range file is missing or cannot be parsed
Keep == 0             \* an update request without traffic_mb

ASSUME ConstantsAssumption ==
    /\ MaxId \in Nat
    /\ Types \subseteq ProxyTypes
    /\ Limits \subseteq Nat \ {0}
    /\ FreeAmount \in Nat
    /\ InitialMB \in Nat
    /\ MaxConnections \in Nat
    /\ MaxTcpPorts \in Nat
    /\ DefaultRange \in Ranges
    /\ Ranges \subseteq (Nat \ {0}) \X (Nat \ {0})
    /\ \A r \in Ranges : r[1] <= r[2]
    /\ AdminDeletable \subseteq LiveStatuses \cup {"deleted"}
    /\ {SavesMayFail, TornWrites} \subseteq BOOLEAN
    /\ {MaxDelta, MaxUsed, MaxRecharged, MaxRestarts} \subseteq Nat

VARIABLES
    proxies,    \* store.proxies, by id; status "absent": no such key
    counter,    \* store.proxy_id_counter
    balance,    \* User.balance_mb
    recharged,  \* User.total_recharged_mb
    pool,       \* port_pool
    polling,    \* the poller's background task is alive
    disk,       \* the SQLite mirror: [proxies, balance, recharged]
    rangeFile,  \* config/allocatable_range.json
    restarts,   \* crashes so far
    told        \* history: what the owner of each id was last told of it

store    == <<proxies, counter, balance, recharged>>
files    == <<disk, rangeFile>>
vars     == <<proxies, counter, balance, recharged, pool, polling,
              disk, rangeFile, restarts, told>>

----------------------------------------------------------------------------
(* The records.                                                            *)

Proxy ==
    [status : LiveStatuses \cup {"deleted"}, uid : Users, name : Names,
     type : ProxyTypes, ports : SUBSET Nat, subdomain : Subdomains \cup {NoSubdomain},
     limit : Nat, used : Nat]

Absent == [status |-> "absent"]

LiveIn(ps, i) == ps[i].status \in LiveStatuses
Live(i) == LiveIn(proxies, i)

\* The remote ports of the records that are not deleted.
OwnedIn(ps) == UNION {ps[i].ports : i \in {j \in Ids : LiveIn(ps, j)}}
Owned == OwnedIn(proxies)

\* Mutant: the name of a stopped proxy may be taken.
HasNameActiveOnly(u, name, exclude) ==
    \E i \in Ids \ {exclude} :
        proxies[i].status = "active" /\ proxies[i].uid = u /\ proxies[i].name = name

\* user_has_name_unlocked, with exclude_id.
HasName(u, name, exclude) ==
    \E i \in Ids \ {exclude} :
        Live(i) /\ proxies[i].uid = u /\ proxies[i].name = name

\* find_proxy_by_subdomain_unlocked, with exclude_id.
SubdomainTaken(subdomain, exclude) ==
    \E i \in Ids \ {exclude} :
        /\ Live(i)
        /\ proxies[i].type = "http"
        /\ proxies[i].subdomain = subdomain

\* active_connection_count_unlocked.
ConnectionCount(u) == Cardinality({i \in Ids : Live(i) /\ proxies[i].uid = u})

\* find_proxy_by_remote_port_unlocked: the first record in id order.
OwnerOf(p) ==
    CHOOSE i \in Ids :
        /\ Live(i) /\ p \in proxies[i].ports
        /\ \A j \in Ids : Live(j) /\ p \in proxies[j].ports => i <= j

----------------------------------------------------------------------------
(* Persistence and boot.                                                   *)

Snapshot == [proxies |-> proxies, balance |-> balance, recharged |-> recharged]

\* save_registered_users_unlocked: one transaction replaces the mirror.  The
\* save fails before the commit (nothing written) or after it (users.json).
Saved == disk' = Snapshot'
SaveFailed == SavesMayFail /\ disk' \in {Snapshot', disk}

Tell(i, status) == told' = [told EXCEPT ![i] = status]

\* A handler saves and acknowledges, or the save raises and it answers 500.
SaveAndTell(i, status) ==
    \/ Saved /\ Tell(i, status)
    \/ SaveFailed /\ Tell(i, "unknown")

SaveOnly == (Saved \/ SaveFailed) /\ UNCHANGED told

LoadedRange(file) == IF file = NoFile THEN DefaultRange ELSE file

\* Mutant: tombstones are passed over.
LastLiveId(ps) ==
    LET loaded == {i \in Ids : LiveIn(ps, i)}
    IN  {n \in loaded \cup {0} : \A i \in loaded : i <= n}

\* The largest id of the loaded records, 0 if there is none.
LastId(ps) ==
    LET loaded == {i \in Ids : ps[i].status # "absent"}
    IN  {n \in loaded \cup {0} : \A i \in loaded : i <= n}

\* lifespan: load the mirror, then reserve the ports of all loaded records in
\* one all-or-nothing call whose result is not looked at.
Boot(file) ==
    /\ proxies' = disk.proxies
    /\ balance' = disk.balance
    /\ recharged' = disk.recharged
    /\ counter' \in LastId(disk.proxies)
    /\ \E busy \in SUBSET BootBusyPorts :
          pool' = AfterReserve(NewPool(LoadedRange(file)[1], LoadedRange(file)[2]),
                               OwnedIn(disk.proxies), busy)
    /\ polling' = TRUE

\* The process dies between two handlers and is started again.
Restart ==
    /\ restarts < MaxRestarts
    /\ Boot(rangeFile)
    /\ restarts' = restarts + 1
    /\ UNCHANGED <<files, told>>

\* The process dies while write_text rewrites the range file.
RestartInRangeSave ==
    /\ TornWrites
    /\ restarts < MaxRestarts
    /\ \E r \in Ranges : Owned \subseteq PortRange(r[1], r[2])
    /\ rangeFile' = NoFile
    /\ Boot(NoFile)
    /\ restarts' = restarts + 1
    /\ UNCHANGED <<disk, told>>
----------------------------------------------------------------------------
(* user_api.                                                               *)

Recharge(u) ==
    /\ recharged[u] + FreeAmount <= MaxRecharged
    /\ balance' = [balance EXCEPT ![u] = @ + FreeAmount]
    /\ recharged' = [recharged EXCEPT ![u] = @ + FreeAmount]
    /\ UNCHANGED <<proxies, counter, pool, polling, rangeFile, restarts>>
    /\ SaveOnly

\* Mutant: the balance check dropped.
MayCreateUnpaid(u, name, limit) ==
    /\ counter < MaxId
    /\ ~HasName(u, name, 0)
    /\ ConnectionCount(u) < MaxConnections

\* The checks of create_proxy that come before any allocation.
MayCreate(u, name, limit) ==
    /\ counter < MaxId
    /\ limit <= balance[u]
    /\ ~HasName(u, name, 0)
    /\ ConnectionCount(u) < MaxConnections

NewProxy(u, name, type, ports, subdomain, limit) ==
    [status |-> "active", uid |-> u, name |-> name, type |-> type,
     ports |-> ports, subdomain |-> subdomain, limit |-> limit, used |-> 0]

\* The rest of create_proxy: the next id, the record, the balance, the save.
\* An XTCP proxy is not paid for.
AddProxy(proxy) ==
    /\ counter' = counter + 1
    /\ proxies' = [proxies EXCEPT ![counter + 1] = proxy]
    /\ balance' = [balance EXCEPT ![proxy.uid] =
                      IF proxy.type = "xtcp" THEN @ ELSE @ - proxy.limit]
    /\ UNCHANGED <<recharged, polling, rangeFile, restarts>>
    /\ SaveAndTell(counter + 1, "active")

\* create_proxy, tcp_ports.mode = "auto".
CreateAuto(u, name, limit, count) ==
    /\ "tcp" \in Types
    /\ MayCreate(u, name, limit)
    /\ \E busy \in SUBSET BusyPorts :
          /\ pool' = AfterAllocate(pool, count, busy)
          /\ LET ports == Allocated(pool, count, busy)
             IN  \/ /\ ports # {}
                    /\ AddProxy(NewProxy(u, name, "tcp", ports, NoSubdomain, limit))
                 \/ /\ ports = {}     \* 400, but the pool has given up ports
                    /\ UNCHANGED <<store, polling, files, restarts, told>>

\* create_proxy, tcp_ports.mode = "single" or "range".
CreateAt(u, name, limit, ports) ==
    /\ "tcp" \in Types
    /\ MayCreate(u, name, limit)
    /\ \E busy \in SUBSET BusyPorts :
          /\ UnavailablePorts(pool, ports, busy) = {}
          /\ pool' = AfterReserve(pool, ports, busy)
    /\ AddProxy(NewProxy(u, name, "tcp", ports, NoSubdomain, limit))

CreateHttp(u, name, limit, subdomain) ==
    /\ "http" \in Types
    /\ MayCreate(u, name, limit)
    /\ ~SubdomainTaken(subdomain, 0)
    /\ UNCHANGED pool
    /\ AddProxy(NewProxy(u, name, "http", {}, subdomain, limit))

CreateXtcp(u, name, limit) ==
    /\ "xtcp" \in Types
    /\ MayCreate(u, name, limit)
    /\ UNCHANGED pool
    /\ AddProxy(NewProxy(u, name, "xtcp", {}, NoSubdomain, limit))

\* Mutant: the ports stay reserved.
UserDeleteKeepsPorts(i) ==
    /\ Live(i)
    /\ proxies' = [proxies EXCEPT ![i].status = "deleted"]
    /\ UNCHANGED <<counter, balance, recharged, pool, polling, rangeFile, restarts>>
    /\ SaveAndTell(i, "deleted")

\* delete_proxy of a live record: a tombstone stays, the ports are released.
UserDelete(i) ==
    /\ Live(i)
    /\ proxies' = [proxies EXCEPT ![i].status = "deleted"]
    /\ pool' = AfterRelease(pool, proxies[i].ports)
    /\ UNCHANGED <<counter, balance, recharged, polling, rangeFile, restarts>>
    /\ SaveAndTell(i, "deleted")

\* delete_proxy of a tombstone answers ok and saves nothing.
UserDeleteAgain(i) ==
    /\ proxies[i].status = "deleted"
    /\ Tell(i, "deleted")
    /\ UNCHANGED <<store, pool, polling, files, restarts>>

\* Mutant: the save is forgotten.
UserSetStatusUnsaved(i, status) ==
    /\ Live(i)
    /\ proxies' = [proxies EXCEPT ![i].status = status]
    /\ Tell(i, status)
    /\ UNCHANGED <<counter, balance, recharged, pool, polling, files, restarts>>

\* stop_proxy and start_proxy.
UserSetStatus(i, status) ==
    /\ Live(i)
    /\ proxies' = [proxies EXCEPT ![i].status = status]
    /\ UNCHANGED <<counter, balance, recharged, pool, polling, rangeFile, restarts>>
    /\ SaveAndTell(i, status)

\* update_proxy writes each field as soon as it is validated, so a request
\* that fails later has already changed the record, unsaved.  `bad' is the
\* first field of the request, if any, whose format is refused: a local
\* address (checked after the name) or the advanced options (checked last).
LimitAllowed(i, limit) ==
    /\ limit >= proxies[i].used
    /\ \/ proxies[i].type = "xtcp"
       \/ limit <= proxies[i].limit
       \/ limit - proxies[i].limit <= balance[proxies[i].uid]

\* Mutant: a raised limit is not paid for.
LimitCostFree(i, limit) == 0

LimitCost(i, limit) ==
    IF proxies[i].type # "xtcp" /\ limit > proxies[i].limit
    THEN limit - proxies[i].limit
    ELSE 0

\* A request keeps a name or a subdomain by naming the current one; the
\* limit is checked only when it is given.
UpdateRequests(i) ==
    [name : Names, limit : Limits \cup {Keep},
     subdomain : IF proxies[i].type = "http" THEN Subdomains ELSE {NoSubdomain},
     bad : {"none", "local", "advanced"}]

UserUpdate(i, req) ==
    LET u      == proxies[i].uid
        named  == ~HasName(u, req.name, i)
        rated  == /\ named /\ req.bad # "local"
                  /\ req.limit = Keep \/ LimitAllowed(i, req.limit)
        moved  == rated /\ ~SubdomainTaken(req.subdomain, i)
        limit  == IF req.limit = Keep THEN proxies[i].limit ELSE req.limit
        done   == moved /\ req.bad # "advanced"
    IN  /\ Live(i)
        /\ named
        /\ proxies' = [proxies EXCEPT
              ![i].name      = req.name,
              ![i].limit     = IF rated THEN limit ELSE @,
              ![i].subdomain = IF moved THEN req.subdomain ELSE @]
        /\ balance' = [balance EXCEPT
              ![u] = IF rated THEN @ - LimitCost(i, limit) ELSE @]
        /\ UNCHANGED <<counter, recharged, pool, polling, rangeFile, restarts>>
        /\ \/ done /\ SaveOnly
           \/ ~done /\ UNCHANGED <<disk, told>>

----------------------------------------------------------------------------
(* admin_api.  None of these saves the store.                              *)

\* Mutant: stopping a proxy gives its ports back.
AdminStopReleases(i) ==
    /\ Live(i)
    /\ proxies' = [proxies EXCEPT ![i].status = "stopped_by_admin"]
    /\ pool' = AfterRelease(pool, proxies[i].ports)
    /\ UNCHANGED <<counter, balance, recharged, polling, files, restarts, told>>

AdminStop(i) ==
    /\ Live(i)
    /\ proxies' = [proxies EXCEPT ![i].status = "stopped_by_admin"]
    /\ UNCHANGED <<counter, balance, recharged, pool, polling, files, restarts, told>>

\* start_proxy takes back the ports of the record that the pool holds free.
AdminStart(i) ==
    LET missing == Unreserved(pool, proxies[i].ports)
    IN  /\ Live(i)
        /\ \A p \in proxies[i].ports : OwnerOf(p) = i
        /\ \E busy \in SUBSET BusyPorts :
              /\ UnavailablePorts(pool, missing, busy) = {}
              /\ pool' = AfterReserve(pool, missing, busy)
        /\ proxies' = [proxies EXCEPT ![i].status = "active"]
        /\ Tell(i, IF told[i] = "stopped_by_admin" THEN "active" ELSE told[i])
        /\ UNCHANGED <<counter, balance, recharged, polling, files, restarts>>

\* delete_proxy pops the record, tombstones included, and releases its ports.
AdminDelete(i) ==
    /\ proxies[i].status \in AdminDeletable
    /\ proxies' = [proxies EXCEPT ![i] = Absent]
    /\ pool' = AfterRelease(pool, proxies[i].ports)
    /\ Tell(i, "unknown")
    /\ UNCHANGED <<counter, balance, recharged, polling, files, restarts>>

\* Mutant: the range is not persisted.
UpdateRangeUnsaved(s, e) ==
    /\ Owned \subseteq PortRange(s, e)
    /\ pool' = AfterUpdateRange(s, e, Owned)
    /\ UNCHANGED <<store, polling, files, restarts, told>>

\* update_config, then persist_port_range.
UpdateRange(s, e) ==
    /\ Owned \subseteq PortRange(s, e)
    /\ pool' = AfterUpdateRange(s, e, Owned)
    /\ \/ rangeFile' = <<s, e>>
       \/ SavesMayFail /\ rangeFile' \in {rangeFile, NoFile}
    /\ UNCHANGED <<store, polling, disk, restarts, told>>

----------------------------------------------------------------------------
(* poller: what poll_once does to the store when proxy i has carried       *)
(* delta[i] more MB.  Module UsagePoller has the counters behind delta.    *)

Charged(u, delta) ==
    MapThenSumSet(LAMBDA i : delta[i], {i \in Ids : Live(i) /\ proxies[i].uid = u})

\* _charge_usage takes a user's balance down to 0 and no further.
BalanceLeft(u, delta) ==
    LET left == {b \in 0 .. balance[u] : b + Charged(u, delta) = balance[u]}
    IN  IF left = {} THEN 0 ELSE CHOOSE b \in left : TRUE

Deltas ==
    {d \in [Ids -> 0 .. MaxDelta] :
        \A i \in Ids : d[i] > 0 => Live(i) /\ proxies[i].used + d[i] <= MaxUsed}

\* _charge_usage, then _apply_stop_rules.
Metered(i, delta) ==
    LET used == proxies[i].used + delta
    IN  [proxies[i] EXCEPT !.used = used,
                           !.status = IF used >= proxies[i].limit
                                      THEN "stopped_by_admin" ELSE @]

\* A poll that changes something saves; a save that raises ends the task.
PollRound ==
    /\ polling
    /\ \E delta \in Deltas :
          /\ proxies' = [i \in Ids |->
                IF Live(i) THEN Metered(i, delta[i]) ELSE proxies[i]]
          /\ balance' = [u \in Users |-> BalanceLeft(u, delta)]
    /\ proxies' # proxies
    /\ UNCHANGED <<counter, recharged, pool, rangeFile, restarts, told>>
    /\ \/ Saved /\ UNCHANGED polling
       \/ SaveFailed /\ polling' = FALSE

----------------------------------------------------------------------------
Init ==
    /\ proxies = [i \in Ids |-> Absent]
    /\ counter = 0
    /\ balance = [u \in Users |-> InitialMB]
    /\ recharged = [u \in Users |-> InitialMB]
    /\ pool = NewPool(DefaultRange[1], DefaultRange[2])
    /\ polling = TRUE
    /\ disk = Snapshot
    /\ rangeFile = NoFile
    /\ restarts = 0
    /\ told = [i \in Ids |-> "unknown"]

UserNext ==
    \/ \E u \in Users : Recharge(u)
    \/ \E u \in Users, name \in Names, limit \in Limits :
          \/ \E count \in 1 .. MaxTcpPorts : CreateAuto(u, name, limit, count)
          \/ \E count \in 1 .. MaxTcpPorts, s \in pool.start .. pool.end :
                CreateAt(u, name, limit, Window(s, count))
          \/ \E subdomain \in Subdomains : CreateHttp(u, name, limit, subdomain)
          \/ CreateXtcp(u, name, limit)
    \/ \E i \in Ids :
          \/ UserDelete(i)
          \/ UserDeleteAgain(i)
          \/ \E status \in LiveStatuses : UserSetStatus(i, status)
          \/ Live(i) /\ \E req \in UpdateRequests(i) : UserUpdate(i, req)

AdminNext ==
    \/ \E i \in Ids : AdminStop(i) \/ AdminStart(i) \/ AdminDelete(i)
    \/ \E r \in Ranges : UpdateRange(r[1], r[2])

Next == UserNext \/ AdminNext \/ PollRound \/ Restart \/ RestartInRangeSave

Spec == Init /\ [][Next]_vars

----------------------------------------------------------------------------
(* Properties.                                                             *)

\* The values the state ranges over.
TypeOK ==
    /\ proxies \in [Ids -> Proxy \cup {Absent}]
    /\ counter \in 0 .. MaxId
    /\ balance \in [Users -> Nat]
    /\ recharged \in [Users -> Nat]
    /\ pool \in [start : Nat, end : Nat, available : SUBSET Nat]
    /\ pool.available \subseteq PortRange(pool.start, pool.end)
    /\ polling \in BOOLEAN
    /\ disk \in [proxies : [Ids -> Proxy \cup {Absent}],
                 balance : [Users -> Nat], recharged : [Users -> Nat]]
    /\ rangeFile \in Ranges \cup {NoFile}
    /\ restarts \in 0 .. MaxRestarts
    /\ told \in [Ids -> LiveStatuses \cup {"deleted", "unknown"}]

\* No two live records of ps map a common port.
ExclusiveIn(ps) ==
    \A i, j \in Ids :
        i # j /\ LiveIn(ps, i) /\ LiveIn(ps, j) => ps[i].ports \cap ps[j].ports = {}

\* No public port is mapped by two proxies that are not deleted, whatever
\* order users, the administrator, failed saves and restarts come in: the
\* second tenant's traffic would reach the first one's machine, or nobody's.
PortsExclusive == ExclusiveIn(proxies)

\* A port mapped by a proxy that is not deleted is never free in the pool, so
\* no later create_proxy can hand it out again.
OwnedPortsReserved == Owned \cap pool.available = {}

\* Every mapped port lies in the configured range: update_config refuses a
\* range that leaves one out, so that published scripts keep working.
OwnedPortsInRange == Owned \subseteq PortRange(pool.start, pool.end)

\* No port leaks: a port of the range is free or belongs to a live proxy.
NoPortLost == PortRange(pool.start, pool.end) \subseteq pool.available \cup Owned

\* What a user was last told about a proxy survives failing saves and crashes:
\* a proxy that was acknowledged exists, and one that was acknowledged as
\* stopped is stopped (the poller may have stopped the others).
AckedProxySurvives ==
    \A i \in Ids :
        /\ told[i] \in LiveStatuses => Live(i)
        /\ told[i] = "stopped_by_admin" => proxies[i].status = "stopped_by_admin"

\* A deletion that has reached the mirror is never undone, whichever saves fail
\* afterwards, whatever the administrator deletes or purges, and wherever the
\* process crashes: no later step has the id live again.  A new proxy that took
\* the id of a saved tombstone would inherit its scripts and its port mapping.
DeletionSticks ==
    [][\A i \in Ids : disk.proxies[i].status = "deleted" => ~Live(i)']_vars

\* A proxy that is gone comes back in two ways only: create_proxy makes the
\* record, under an id the counter has not reached, or the process starts
\* again from a mirror its deletion was never saved to.
NoResurrection ==
    [][\A i \in Ids : Live(i)' /\ ~Live(i) =>
          \/ counter < i /\ counter' = i
          \/ restarts' = restarts + 1 /\ LiveIn(disk.proxies, i)]_vars

\* The traffic promised to a user's paid proxies and the balance together
\* never exceed what the user recharged: failed updates, deletions, restarts
\* and poll rounds create no traffic out of nothing.
Committed(u) ==
    MapThenSumSet(LAMBDA i : proxies[i].limit,
                  {i \in Ids : /\ proxies[i].status # "absent"
                               /\ proxies[i].uid = u
                               /\ proxies[i].type # "xtcp"})
QuotaCovered == \A u \in Users : balance[u] + Committed(u) <= recharged[u]

\* A user's live proxies have different names, and live HTTP proxies of all
\* users have different subdomains: renames, failed updates and restarts
\* never bring two of them together.
NamesAndSubdomainsUnique ==
    \A i, j \in Ids :
        i # j /\ Live(i) /\ Live(j) =>
            /\ proxies[i].uid # proxies[j].uid \/ proxies[i].name # proxies[j].name
            /\ proxies[i].type = "http" /\ proxies[j].type = "http" =>
                   proxies[i].subdomain # proxies[j].subdomain
=============================================================================
