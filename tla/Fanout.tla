------------------------------- MODULE Fanout -------------------------------
(* Multi-shard commands: src/src/fanout. The node a client is connected to   *)
(* chooses target nodes from its cached cluster map, sends each a request    *)
(* over the cluster bus, runs its own share on a worker, gathers the answers *)
(* and replies to the blocked client. Every node runs the same code, so a    *)
(* node is a coordinator for its clients and a peer for everyone else's.     *)
(*                                                                           *)
(* The threads of a node interleave: the main thread runs commands, message  *)
(* callbacks, timers and replies (each is one step); the fan-out workers run *)
(* jobs, and are interrupted wherever they do not hold the module lock.      *)
(*                                                                           *)
(* The environment changes the cluster layout node by node, loses and        *)
(* repeats messages, refuses a send, lets a deadline pass, and makes a shard *)
(* fail its share. Changes of layout and failures are bounded by MaxFaults.  *)
EXTENDS ClusterMap, TLC

CONSTANTS
    Nodes,           \* node ids
    Clients,         \* clients, each with one command; also the request ids
    Home,            \* [Clients -> Nodes]: the node a client is connected to
    Command,         \* [Clients -> [op, modes, slots]]: what it may ask for
    Replies,         \* Replies[v][n]: the CLUSTER NODES reply at n in layout v
    Layouts,         \* number of layouts the cluster goes through
    Handlers,        \* [Nodes -> SUBSET operations]: what a node can serve
    Newer,           \* nodes of a later version, which demand new features
    PeerCapacity,    \* jobs of peers a node holds before it is busy
    LocalCapacity,   \* shares of its own clients a node holds
    IntervalFloor,   \* ts-cluster-map-expiration-ms
    IntervalCap,     \* CLUSTER_MAP_BACKOFF_CAP_MS
    MaxFaults,       \* bound on what the environment does
    None

VARIABLES
    view,       \* [Nodes -> layout]: what CLUSTER NODES answers at a node
    map,        \* [Nodes -> published cluster map, with its expired flag]
    stale,      \* [Nodes -> BOOLEAN]: CLUSTER_MAP_STALE
    interval,   \* [Nodes -> ms]: CLUSTER_MAP_REFRESH_INTERVAL_MS
    fan,        \* [Clients -> the FanoutState of its command, or None]
    inflight,   \* [Clients -> the InFlightRequest, or None]
    timers,     \* requests whose timeout timer is pending
    share,      \* [Clients -> state of the coordinator's own share]
    jobs,       \* peer requests queued or running on a worker
    net,        \* messages on the cluster bus
    client,     \* [Clients -> "idle" | "blocked" | "answered"]
    answer,     \* [Clients -> what the client was told, or None]
    late,       \* clients whose fan-out deadline has passed
    deleted,    \* history: where TS.MDEL deleted, and the node's role there
    panicked,   \* history: clients whose local share panicked
    faults      \* environment events so far

vars == <<view, map, stale, interval, fan, inflight, timers, share, jobs, net,
          client, answer, late, deleted, panicked, faults>>

mapVars == <<map, stale, interval>>
rpcVars == <<fan, inflight, timers, share>>
clientVars == <<client, answer>>

Strike(n) == faults + n <= MaxFaults /\ faults' = faults + n

-----------------------------------------------------------------------------
(* The state of one fan-out (FanoutStateInner).                              *)

NewFan(targets, fp) ==
    [life |-> "Pending", outstanding |-> Cardinality(targets),
     timedOut |-> FALSE, errors |-> 0, abort |-> None, result |-> None,
     targets |-> targets, fingerprint |-> fp,
     acc |-> [n \in Nodes |-> 0], seen |-> {}]

(* on_completion: the callback runs once and gets the verdict, with the      *)
(* operation, which the state gives up. With an error its result is unread.  *)
OnCompletion(f) ==
    LET verdict == IF f.abort # None THEN f.abort
                   ELSE IF f.timedOut THEN "Timeout"
                   ELSE IF f.errors > 0 THEN "Internal" ELSE "Ok"
        done == [f EXCEPT !.life = "Completed", !.result = verdict, !.abort = None]
    IN  CASE f.life = "Completed" -> f
          [] verdict = "Ok" -> done
          [] OTHER -> [done EXCEPT !.acc = [n \in Nodes |-> 0], !.seen = {}]

RpcDone(f) ==
    LET left == IF f.outstanding = 0 THEN 0 ELSE f.outstanding - 1
        g == [f EXCEPT !.outstanding = left]
    IN  IF left = 0 THEN OnCompletion(g) ELSE g

(* FanoutStateInner::on_error: a timeout, a topology mismatch, a permission  *)
(* denial and a busy shard end the fan-out; any other error is one shard's.  *)
OnError(f, kind) ==
    LET g == [f EXCEPT !.life = "Active", !.errors = @ + 1]
    IN  CASE f.life = "Completed" -> f
          [] kind = "Timeout" ->
                OnCompletion([g EXCEPT !.timedOut = TRUE, !.outstanding = 0])
          [] kind \in {"ClusterMapMismatch", "KeyPermissions", "Busy"} ->
                OnCompletion([g EXCEPT !.abort = kind])
          [] OTHER -> RpcDone(g)

(* Mutant of OnResponse: a late response is folded into a finished fan-out.  *)
OnResponseLate(f, n, body, fp) ==
    IF body = "refused" THEN OnError(f, "Custom")
    ELSE RpcDone([f EXCEPT !.acc[n] = @ + 1, !.seen = @ \cup {fp},
                           !.life = IF @ = "Completed" THEN @ ELSE "Active"])

(* FanoutStateInner::on_response. The operation folds the response into its  *)
(* result (acc counts how often it took a node's answer) or refuses it,      *)
(* which is that shard's error: no operation asks for fail_fast.             *)
OnResponse(f, n, body, fp) ==
    IF f.life = "Completed" THEN f
    ELSE IF body = "refused" THEN OnError(f, "Custom")
    ELSE RpcDone([f EXCEPT !.life = "Active", !.acc[n] = @ + 1,
                           !.seen = @ \cup {fp}])

(* response_handler of exec_command: a payload that does not decode is an    *)
(* error of its shard.                                                       *)
ResponseHandler(f, n, body, fp) ==
    IF body = "garbled" THEN OnError(f, "Serialization")
    ELSE OnResponse(f, n, body, fp)

(* Drop of FanoutStateInner, when neither a pending request nor the local    *)
(* share holds it any more. A state that never ran a callback drops the      *)
(* completion callback unused, and the client is released without data.      *)
Dropped(f) ==
    CASE f.life = "Active" -> OnCompletion(f)
      [] f.life = "Pending" -> [f EXCEPT !.life = "Completed", !.result = "NoData"]
      [] OTHER -> f

Settle(f, held) == IF held THEN f ELSE Dropped(f)

-----------------------------------------------------------------------------
(* The published cluster map and its refresh (src/src/fanout/mod.rs).        *)

MapAt == [v \in 1 .. Layouts |-> [n \in Nodes |-> FromClusterNodes(Replies[v][n], n)]]

Clamp(x, lo, hi) == IF x < lo THEN lo ELSE IF x > hi THEN hi ELSE x

GrowRefreshInterval(current) ==
    LET cap == IF IntervalCap > IntervalFloor THEN IntervalCap ELSE IntervalFloor
    IN  Clamp(2 * current, IntervalFloor, cap)

(* refresh_cluster_map with the reply of layout v (None: the call failed):   *)
(* an unchanged map is kept and lives longer, a changed one is replaced.     *)
RefreshClusterMap(m, current, n, v) ==
    IF v = None
    THEN [map |-> m, interval |-> IntervalFloor]
    ELSE LET new == MapAt[v][n]
         IN  IF new.consistent /\ m.topo.consistent /\ SameTopology(new, m.topo)
             THEN [map |-> [m EXCEPT !.expired = FALSE],
                   interval |-> GrowRefreshInterval(current)]
             ELSE [map |-> [topo |-> new, expired |-> FALSE],
                   interval |-> IntervalFloor]

NeedsRefresh(n) == ~map[n].topo.consistent \/ map[n].expired \/ stale[n]

(* get_fanout_targets on the main thread of n; v is the reply it gets.       *)
GetFanoutMap(n, v) ==
    IF NeedsRefresh(n) THEN RefreshClusterMap(map[n], interval[n], n, v)
    ELSE [map |-> map[n], interval |-> interval[n]]

Publish(n, r) ==
    /\ map' = [map EXCEPT ![n] = r.map]
    /\ interval' = [interval EXCEPT ![n] = r.interval]

-----------------------------------------------------------------------------
(* Coordinator: accepting a command.                                         *)

Init ==
    /\ view = [n \in Nodes |-> 1]
    /\ map = [n \in Nodes |-> [topo |-> DefaultMap, expired |-> TRUE]]
    /\ stale = [n \in Nodes |-> FALSE]
    /\ interval = [n \in Nodes |-> 0]
    /\ fan = [c \in Clients |-> None]
    /\ inflight = [c \in Clients |-> None]
    /\ timers = {}
    /\ share = [c \in Clients |-> "none"]
    /\ jobs = {} /\ net = {}
    /\ client = [c \in Clients |-> "idle"]
    /\ answer = [c \in Clients |-> None]
    /\ late = {} /\ deleted = {} /\ panicked = {} /\ faults = 0

(* What a client is told: the gathered result, or an error alone.            *)
Told(r, f) ==
    [result |-> r] @@ (IF r # "Ok" THEN <<>>
                       ELSE [acc |-> f.acc, targets |-> f.targets, seen |-> f.seen,
                             fingerprint |-> f.fingerprint])

(* FanoutClientCommand::exec where the client may not block (MULTI, a        *)
(* script): refused before anything runs.                                    *)
ExecDenied(c) ==
    /\ client[c] = "idle"
    /\ client' = [client EXCEPT ![c] = "answered"]
    /\ answer' = [answer EXCEPT ![c] = Told("Denied", None)]
    /\ UNCHANGED <<view, mapVars, rpcVars, jobs, net, late, deleted, panicked, faults>>

LocalLoad(n) == Cardinality({c \in Clients : Home[c] = n /\ share[c] # "none"})

(* spawn_local_request: a full queue refuses the share.                      *)
CanSpawnLocal(n) == LocalLoad(n) < LocalCapacity

(* The features its requests demand: none, unless a later version sends them.*)
RequestBodies(n) == {<<"plain", 0>>} \cup IF n \in Newer THEN {<<"featured", 1>>} ELSE {}

(* dispatch_send_failure for each target the bus refused: the shard's error. *)
SendFailures(f, k) ==
    FoldLeft(LAMBDA g, i : OnError(g, "Custom"), f, [i \in 1 .. k |-> i])

(* Mutant of StartFan: a request without a timeout timer.                    *)
StartFanNoTimer(c, targets, fp, refused, body) ==
    LET n == Home[c]
        sent == targets \ ({n} \cup refused)
        queued == n \in targets /\ CanSpawnLocal(n)
    IN  /\ fan' = [fan EXCEPT ![c] = Settle(SendFailures(NewFan(targets, fp), Cardinality(refused)),
                                            sent # {} \/ queued)]
        /\ share' = [share EXCEPT ![c] = IF queued THEN "queued" ELSE "none"]
        /\ inflight' = [inflight EXCEPT ![c] =
                IF sent = {} THEN None
                ELSE [targets |-> targets, outstanding |-> Cardinality(sent),
                      responded |-> refused]]
        /\ UNCHANGED timers
        /\ net' = net \cup {[kind |-> "request", id |-> c, from |-> n, to |-> m, fp |-> fp,
                             body |-> body] : m \in sent}

(* exec_command: the targets, the requests (refused is the set of nodes the  *)
(* bus would not take a message for) and the local share, which is queued    *)
(* only once the requests are out.                                           *)
StartFan(c, targets, fp, refused, body) ==
    LET n == Home[c]
        remote == targets \ {n}
        sent == remote \ refused
        f0 == SendFailures(NewFan(targets, fp), Cardinality(refused))
        queued == n \in targets /\ CanSpawnLocal(n)
        f1 == IF n \in targets /\ ~queued THEN OnError(f0, "Busy") ELSE f0
        setupError == IF remote # {} THEN None
                      ELSE IF targets = {} THEN "NodeUnreachable"
                      ELSE IF ~queued THEN "Busy" ELSE None
        f2 == IF setupError # None
              THEN [NewFan(targets, fp) EXCEPT !.life = "Completed", !.result = setupError]
              ELSE Settle(f1, sent # {} \/ queued)
    IN  /\ fan' = [fan EXCEPT ![c] = f2]
        /\ share' = [share EXCEPT ![c] = IF queued THEN "queued" ELSE "none"]
        /\ inflight' = [inflight EXCEPT ![c] =
                IF sent = {} THEN None
                ELSE [targets |-> targets, outstanding |-> Cardinality(sent),
                      responded |-> refused]]
        /\ timers' = IF sent = {} THEN timers ELSE timers \cup {c}
        /\ net' = net \cup {[kind |-> "request", id |-> c, from |-> n, to |-> m, fp |-> fp,
                             body |-> body] : m \in sent}

Exec(c) ==
    LET n == Home[c]
    IN  /\ client[c] = "idle"
        /\ \E mode \in Command[c].modes, v \in {view[n], None} :
             LET r == GetFanoutMap(n, v)
             IN  /\ v = None => NeedsRefresh(n)
                 /\ Publish(n, r)
                 /\ \E targets \in GetTargets(r.map.topo, mode, Command[c].slots) :
                      \E refused \in SUBSET (targets \ {n}), b \in RequestBodies(n) :
                        /\ StartFan(c, targets, r.map.topo.fingerprint, refused, b[1])
                        /\ Strike(Cardinality(refused) + b[2] + (IF v = None THEN 1 ELSE 0))
        /\ stale' = [stale EXCEPT ![n] = FALSE]
        /\ client' = [client EXCEPT ![c] = "blocked"]
        /\ UNCHANGED <<view, jobs, answer, late, deleted, panicked>>

-----------------------------------------------------------------------------
(* Peer: serving a request.                                                  *)

Reply(m, kind, body, fp) ==
    [kind |-> kind, id |-> m.id, from |-> m.to, to |-> m.from, fp |-> fp,
     body |-> body]

PeerLoad(n) == Cardinality({j \in jobs : j.to = n})

(* Mutant of Rejection: the queue takes every request.                       *)
RejectionUnbounded(m) ==
    CASE m.body = "featured" -> "UnsupportedFeatures"
      [] Command[m.id].op \notin Handlers[m.to] -> "InvalidMessage"
      [] OTHER -> None

(* on_request_received: what the main thread answers at once, or None.       *)
Rejection(m) ==
    CASE m.body = "featured" -> "UnsupportedFeatures"
      [] Command[m.id].op \notin Handlers[m.to] -> "InvalidMessage"
      [] PeerLoad(m.to) >= PeerCapacity -> "Busy"
      [] OTHER -> None

OnRequestReceived(m) ==
    /\ m \in net /\ m.kind = "request"
    /\ IF Rejection(m) # None
       THEN /\ net' = (net \ {m}) \cup {Reply(m, "error", Rejection(m), NoFingerprint)}
            /\ UNCHANGED jobs
       ELSE /\ net' = net \ {m}
            /\ jobs' = jobs \cup {[id |-> m.id, from |-> m.from, to |-> m.to,
                                   fp |-> m.fp, step |-> "check", text |-> None,
                                   seen |-> NoFingerprint]}
    /\ UNCHANGED <<view, mapVars, rpcVars, clientVars, late, deleted, panicked, faults>>

Step(j, next) == jobs' = (jobs \ {j}) \cup {next}

(* Mutant of CheckFingerprint: an unexpired map is taken to agree.           *)
CheckFingerprintTrusting(j) ==
    /\ j \in jobs /\ j.step = "check"
    /\ Step(j, [j EXCEPT !.seen = map[j.to].topo.fingerprint,
                         !.step = IF NeedsRefresh(j.to) THEN "fetch1" ELSE "run"])
    /\ stale' = [stale EXCEPT ![j.to] = FALSE]
    /\ UNCHANGED <<view, map, interval, rpcVars, net, clientVars, late, deleted,
                   panicked, faults>>

(* cluster_fingerprint_matches up to its first call for CLUSTER NODES:       *)
(* get_or_refresh_cluster_map takes the stale flag, and a map that agrees    *)
(* and needs no refresh accepts the request.                                 *)
CheckFingerprint(j) ==
    /\ j \in jobs /\ j.step = "check"
    /\ Step(j, [j EXCEPT !.seen = map[j.to].topo.fingerprint, !.step =
            CASE j.fp = NoFingerprint -> "run"
              [] NeedsRefresh(j.to) -> "fetch1"
              [] map[j.to].topo.fingerprint = j.fp -> "run"
              [] OTHER -> "fetch2"])
    /\ stale' = IF j.fp = NoFingerprint THEN stale ELSE [stale EXCEPT ![j.to] = FALSE]
    /\ UNCHANGED <<view, map, interval, rpcVars, net, clientVars, late, deleted,
                   panicked, faults>>

(* ClusterNodesSource for DetachedContext: the reply is read under the       *)
(* module lock and parsed after the lock is released.                        *)
FetchNodes(j) ==
    /\ j \in jobs /\ j.step \in {"fetch1", "fetch2"}
    /\ Step(j, [j EXCEPT !.step = IF j.step = "fetch1" THEN "publish1" ELSE "publish2",
                         !.text = view[j.to]])
    /\ UNCHANGED <<view, mapVars, rpcVars, net, clientVars, late, deleted, panicked,
                   faults>>

(* refresh_cluster_map on the worker, and the comparison after it: one more  *)
(* refresh is tried before the request is rejected.                          *)
PublishNodes(j) ==
    /\ j \in jobs /\ j.step \in {"publish1", "publish2"}
    /\ LET r == RefreshClusterMap(map[j.to], interval[j.to], j.to, j.text)
           agrees == r.map.topo.fingerprint = j.fp
       IN  /\ Publish(j.to, r)
           /\ IF agrees \/ j.step = "publish1"
              THEN /\ Step(j, [j EXCEPT !.step = IF agrees THEN "run" ELSE "fetch2",
                                        !.text = None,
                                        !.seen = r.map.topo.fingerprint])
                   /\ UNCHANGED net
              ELSE /\ jobs' = jobs \ {j}
                   /\ net' = net \cup {Reply(j, "error", "ClusterMapMismatch", NoFingerprint)}
    /\ UNCHANGED <<view, stale, rpcVars, clientVars, late, deleted, panicked, faults>>

(* What a node may answer: the operation's response, or, at the price of a   *)
(* fault, an error of the handler (no such user or database, a denied key)   *)
(* or a response that this version cannot use.                               *)
Outcomes(n) ==
    {<<"response", "plain", 0>>, <<"error", "KeyPermissions", 1>>,
     <<"error", "Custom", 1>>, <<"response", "refused", 1>>}
      \cup (IF n \in Newer
            THEN {<<"response", "featured", 1>>, <<"response", "garbled", 1>>,
                  <<"error", "unknown", 1>>}
            ELSE {})

IsReplica(n) == \A s \in DOMAIN MapAt[view[n]][n].shards : s # n

(* Mutant of GetLocalResponse: TS.MDEL trusts the coordinator's map.         *)
GetLocalResponseTrusting(c, n, outcome) ==
    [out |-> outcome,
     del |-> IF Command[c].op = "mdel" /\ outcome[1] = "response"
             THEN {[id |-> c, at |-> n, replica |-> IsReplica(n)]} ELSE {}]

(* get_local_response of the operation on node n: TS.MDEL deletes, and       *)
(* refuses to on a replica; the others read. Its outcome, and what it        *)
(* deletes.                                                                  *)
GetLocalResponse(c, n, outcome) ==
    IF Command[c].op = "mdel" /\ outcome[1] = "response"
    THEN IF IsReplica(n) THEN [out |-> <<"error", "Custom">>, del |-> {}]
         ELSE [out |-> outcome, del |-> {[id |-> c, at |-> n, replica |-> IsReplica(n)]}]
    ELSE [out |-> outcome, del |-> {}]

(* process_request_message once the layouts agree.                           *)
RunJob(j) ==
    /\ j \in jobs /\ j.step = "run"
    /\ \E o \in Outcomes(j.to) :
         LET r == GetLocalResponse(j.id, j.to, o)
         IN  /\ net' = net \cup {Reply(j, r.out[1], r.out[2], j.seen)}
             /\ deleted' = deleted \cup r.del
             /\ Strike(o[3])
    /\ jobs' = jobs \ {j}
    /\ UNCHANGED <<view, mapVars, rpcVars, clientVars, late, panicked>>

-----------------------------------------------------------------------------
(* Coordinator: answers, deadlines and the reply.                            *)

(* Mutant of Counts: a repeated answer counts again.                         *)
CountsRepeats(m) ==
    /\ inflight[m.id] # None
    /\ m.from \in inflight[m.id].targets /\ m.from # Home[m.id]

(* handle_response: a message counts if it is the first from a remote target *)
(* of a request still in flight.                                             *)
Counts(m) ==
    /\ inflight[m.id] # None
    /\ m.from \in inflight[m.id].targets /\ m.from # Home[m.id]
    /\ m.from \notin inflight[m.id].responded

(* on_response_received, on_error_received: what the message is to the       *)
(* fan-out. A message that demands unknown features, or an error that does   *)
(* not decode, is an error of its shard.                                     *)
Verdict(f, m) ==
    CASE m.body = "featured" -> OnError(f, "UnsupportedFeatures")
      [] m.kind = "response" -> ResponseHandler(f, m.from, m.body, m.fp)
      [] m.body = "unknown" -> OnError(f, "InvalidMessage")
      [] OTHER -> OnError(f, m.body)

(* with_inflight_request, finish_inflight_request: the last answer removes   *)
(* the request and stops its timer.                                          *)
Deliver(m, f) ==
    LET q == inflight[m.id]
        done == q.outstanding = 1
    IN  /\ fan' = [fan EXCEPT ![m.id] = Settle(f, ~done \/ share[m.id] # "none")]
        /\ inflight' = [inflight EXCEPT ![m.id] =
                IF done THEN None
                ELSE [q EXCEPT !.outstanding = @ - 1, !.responded = @ \cup {m.from}]]
        /\ timers' = IF done THEN timers \ {m.id} ELSE timers

(* A repeated message stays on the bus for one more delivery.                *)
OnAnswerReceived(m) ==
    /\ m \in net /\ m.kind \in {"response", "error"}
    /\ \/ net' = net \ {m} /\ UNCHANGED faults
       \/ net' = net /\ Counts(m) /\ Strike(1)
    /\ IF Counts(m) THEN Deliver(m, Verdict(fan[m.id], m))
       ELSE UNCHANGED <<fan, inflight, timers>>
    /\ stale' = IF inflight[m.id] # None /\ m.kind = "error" /\ m.body = "ClusterMapMismatch"
                THEN [stale EXCEPT ![m.to] = TRUE] ELSE stale
    /\ UNCHANGED <<view, map, interval, share, jobs, clientVars, late, deleted, panicked>>

(* The deadline of a command that is still waited for passes.                *)
Deadline(c) ==
    /\ fan[c] # None /\ c \notin late
    /\ client[c] = "blocked" \/ inflight[c] # None \/ share[c] # "none"
    /\ late' = late \cup {c}
    /\ UNCHANGED <<view, mapVars, rpcVars, jobs, net, clientVars, deleted, panicked, faults>>

(* on_request_timeout: the timer fires; the fan-out is told and the request  *)
(* forgotten.                                                                *)
OnRequestTimeout(c) ==
    /\ c \in timers /\ c \in late
    /\ timers' = timers \ {c}
    /\ IF inflight[c] = None THEN UNCHANGED <<fan, inflight>>
       ELSE /\ fan' = [fan EXCEPT ![c] = OnError(@, "Timeout")]
            /\ inflight' = [inflight EXCEPT ![c] = None]
    /\ UNCHANGED <<view, mapVars, share, jobs, net, clientVars, late, deleted, panicked,
                   faults>>

(* The job of spawn_local_request starts: a share nobody waits for any more  *)
(* is not run.                                                               *)
StartShare(c) ==
    /\ share[c] = "queued"
    /\ IF fan[c].life = "Completed"
       THEN share' = [share EXCEPT ![c] = "none"] /\ UNCHANGED fan
       ELSE IF c \in late
       THEN /\ share' = [share EXCEPT ![c] = "none"]
            /\ fan' = [fan EXCEPT ![c] = OnError(@, "Timeout")]
       ELSE share' = [share EXCEPT ![c] = "running"] /\ UNCHANGED fan
    /\ UNCHANGED <<view, mapVars, inflight, timers, jobs, net, clientVars, late, deleted,
                   panicked, faults>>

(* The local share ends. It is computed by this version of the code, and is  *)
(* not encoded.                                                              *)
FinishShare(c) ==
    /\ share[c] = "running"
    /\ share' = [share EXCEPT ![c] = "none"]
    /\ \E o \in Outcomes(Home[c]) :
         LET r == GetLocalResponse(c, Home[c], o)
         IN  /\ o[2] \notin {"featured", "garbled", "unknown"}
             /\ fan' = [fan EXCEPT ![c] =
                    Settle(IF r.out[1] = "response"
                           THEN OnResponse(@, Home[c], r.out[2], fan[c].fingerprint)
                           ELSE OnError(@, r.out[2]),
                           inflight[c] # None)]
             /\ deleted' = deleted \cup r.del
             /\ Strike(o[3])
    /\ UNCHANGED <<view, mapVars, inflight, timers, jobs, net, clientVars, late, panicked>>

(* worker_loop catches a share that panics: its hold on the fan-out is       *)
(* released and nothing is reported.                                         *)
PanicShare(c) ==
    /\ share[c] = "running"
    /\ Strike(1)
    /\ share' = [share EXCEPT ![c] = "none"]
    /\ fan' = [fan EXCEPT ![c] = Settle(@, inflight[c] # None)]
    /\ panicked' = panicked \cup {c}
    /\ UNCHANGED <<view, mapVars, inflight, timers, jobs, net, clientVars, late, deleted>>

(* reply_callback: the blocked client gets the verdict.                      *)
ReplyClient(c) ==
    /\ client[c] = "blocked" /\ fan[c].result # None
    /\ client' = [client EXCEPT ![c] = "answered"]
    /\ answer' = [answer EXCEPT ![c] = Told(fan[c].result, fan[c])]
    /\ UNCHANGED <<view, mapVars, rpcVars, jobs, net, late, deleted, panicked, faults>>

(* timeout_callback: the server gives up on the fan-out. What the fan-out    *)
(* still produces is freed unread.                                           *)
TimeoutClient(c) ==
    /\ client[c] = "blocked" /\ c \in late
    /\ client' = [client EXCEPT ![c] = "answered"]
    /\ answer' = [answer EXCEPT ![c] = Told("Timeout", fan[c])]
    /\ UNCHANGED <<view, mapVars, rpcVars, jobs, net, late, deleted, panicked, faults>>

-----------------------------------------------------------------------------
(* Environment.                                                              *)

(* The next layout reaches node n.                                           *)
Gossip(n) ==
    /\ view[n] < Layouts /\ Strike(1)
    /\ view' = [view EXCEPT ![n] = @ + 1]
    /\ UNCHANGED <<mapVars, rpcVars, jobs, net, clientVars, late, deleted, panicked>>

(* The lifetime of the published map runs out (is_expired).                  *)
Expire(n) ==
    /\ ~map[n].expired /\ Strike(1)
    /\ map' = [map EXCEPT ![n].expired = TRUE]
    /\ UNCHANGED <<view, stale, interval, rpcVars, jobs, net, clientVars, late, deleted,
                   panicked>>

(* The bus loses a message (a link that closes, a node that restarts).       *)
Lose(m) ==
    /\ m \in net /\ Strike(1)
    /\ net' = net \ {m}
    /\ UNCHANGED <<view, mapVars, rpcVars, jobs, clientVars, late, deleted, panicked>>

Next ==
    \/ \E c \in Clients : \/ ExecDenied(c) \/ Exec(c) \/ Deadline(c)
                          \/ OnRequestTimeout(c) \/ StartShare(c) \/ FinishShare(c)
                          \/ PanicShare(c) \/ ReplyClient(c) \/ TimeoutClient(c)
    \/ \E m \in net : OnRequestReceived(m) \/ OnAnswerReceived(m) \/ Lose(m)
    \/ \E j \in jobs : CheckFingerprint(j) \/ FetchNodes(j) \/ PublishNodes(j) \/ RunJob(j)
    \/ \E n \in Nodes : Gossip(n) \/ Expire(n)

(* Deadlines pass and the main thread runs the timers that are due; the      *)
(* workers take the next job and end it. Nothing makes a peer answer.        *)
Fairness ==
    \A c \in Clients : /\ WF_vars(Deadline(c) \/ OnRequestTimeout(c))
                       /\ WF_vars(StartShare(c) \/ FinishShare(c) \/ PanicShare(c))

Spec == Init /\ [][Next]_vars /\ Fairness

-----------------------------------------------------------------------------
(* Properties.                                                               *)

Kinds == {"Ok", "Timeout", "ClusterMapMismatch", "KeyPermissions", "Busy", "Internal",
          "NodeUnreachable", "NoData"}

(* The variables have their types; a node holds no more jobs of its peers    *)
(* than its bounded queue admits (BoundedExecutor), and a request in flight  *)
(* still waits for somebody.                                                 *)
TypeOK ==
    /\ view \in [Nodes -> 1 .. Layouts]
    /\ stale \in [Nodes -> BOOLEAN]
    /\ \A n \in Nodes : PeerLoad(n) <= PeerCapacity /\ LocalLoad(n) <= LocalCapacity
    /\ \A n \in Nodes : interval[n] = 0 \/ interval[n] \in IntervalFloor .. IntervalCap
    /\ \A c \in Clients :
         /\ fan[c] # None =>
              /\ fan[c].life \in {"Pending", "Active", "Completed"}
              /\ fan[c].result \in Kinds \cup {None}
         /\ inflight[c] # None => inflight[c].outstanding \in 1 .. Cardinality(Nodes)
    /\ timers \subseteq Clients /\ late \subseteq Clients

(* A shard's data is counted once in a successful reply (TS.CARD adds up the *)
(* counts of the nodes it asked; docs/commands/ts.card.md, "Integer number   *)
(* of unique time series"): no two answers are from nodes of one shard.      *)
EachShardOnce ==
    \A c \in Clients :
        answer[c] # None /\ answer[c].result = "Ok" =>
            \A v \in 1 .. Layouts :
              LET m == MapAt[v][Home[c]]
              IN  m.fingerprint = answer[c].fingerprint =>
                    \A s \in DOMAIN m.shards :
                      Cardinality({n \in PickTarget(m.shards[s]) : answer[c].acc[n] > 0}) <= 1

(* A successful reply is complete: it contains the answer of every node the  *)
(* command was sent to, each exactly once, whatever was lost, repeated,      *)
(* refused, rejected or late. (FanoutStateInner and InFlightRequest count    *)
(* separately; a share that panicked is the one exception, see PanicShare.)  *)
OkIsComplete ==
    /\ \A c \in Clients :
          answer[c] # None /\ answer[c].result = "Ok" /\ c \notin panicked =>
              \A n \in Nodes : answer[c].acc[n] = IF n \in answer[c].targets THEN 1 ELSE 0
    /\ EachShardOnce

(* A successful reply mixes no layouts: every peer whose answer is in it had *)
(* a cluster map with the coordinator's fingerprint when it accepted the     *)
(* request (cluster_fingerprint_matches).                                    *)
OneLayout ==
    \A c \in Clients :
        answer[c] # None /\ answer[c].result = "Ok" =>
            answer[c].seen \subseteq {answer[c].fingerprint}

(* TS.MDEL deletes only where the node is a primary at that moment, although *)
(* the coordinator chose it from a map that a failover may have outdated.    *)
MdelOnPrimaries == \A d \in deleted : ~d.replica

(* Once a fan-out has completed, nothing that still arrives changes what it  *)
(* gathered or its verdict (the operation has been moved out of the state).  *)
CompletedIsFinal ==
    [][\A c \in Clients :
         fan[c] # None /\ fan[c].life = "Completed" => fan'[c] = fan[c]]_fan

(* Every request sent to peers is eventually forgotten, whether or not they  *)
(* answer, and every fan-out reaches a verdict: the timer bounds the peers   *)
(* and the workers' deadline check the local share.                          *)
Ended(c) == inflight[c] = None /\ fan[c] # None /\ fan[c].result # None
RequestsEnd == []<>(\A c \in Clients : fan[c] = None \/ Ended(c))

=============================================================================
