------------------------------ MODULE Registry ------------------------------
(***************************************************************************)
(* The coordinator: a registry of shards of which one is active, the seal   *)
(* loop that seals a full shard and promotes a standby, the administrator's *)
(* requests, the registration of shards, and the forwarding of packages to  *)
(* the active shard.  rotationMu is held while the registry is read and     *)
(* while it is written, and never over a call to a shard, so each critical  *)
(* section and each HTTP call is a step.  The unique index of the registry  *)
(* on state = 'active' is kept by every write.                             *)
(*                                                                         *)
(* A shard is its id: ids are given in the order of registration.  Its      *)
(* size is its number of packages.  last_seen_at, last_error, sealed_at,    *)
(* metrics and URLs steer nothing and are left out.                        *)
(***************************************************************************)
EXTENDS GlobalIds

CONSTANTS
    Shards,      \* shard ids 1 .. n; 0 stands for no shard
    Seed,        \* Seed[s]: its state in the bootstrap file, "none" if it is not there
    Procs,       \* goroutines of the coordinator
    Ops,         \* Ops[p]: the operations p may run
    MaxPackages, \* SHARD_MAX_BYTES; 0 is no limit
    MaxFaults,   \* bound on failed calls and coordinator restarts
    MaxStops     \* bound on shard stops

Operations == {"check", "rotate", "seal", "promote", "register", "post"}
States == {"none", "standby", "active", "sealed"}

ASSUME RegistryAssumption ==
    /\ Shards \subseteq Nat \ {0}
    /\ MaxPackages \in Nat /\ MaxFaults \in Nat /\ MaxStops \in Nat
    /\ Seed \in [Shards -> States] /\ \A s, t \in Shards : Seed[s] = "active" /\ Seed[t] = "active" => s = t
    /\ \A p \in Procs : Ops[p] \subseteq Operations

VARIABLES
    state,     \* state[s]: shard_registry.state
    index,     \* global_package_index: the global ids
    up,        \* the shards whose server listens
    readOnly,  \* ShardGuard.readOnly
    packages,  \* packages[s]: the number of packages of s
    acked,     \* the packages answered with 201: the global id, and where the package is
    proc,      \* proc[p]: where p is and what it has read
    faults, stops

shardVars == <<up, readOnly, packages>>
vars == <<state, index, up, readOnly, packages, acked, proc, faults, stops>>

Least(S) == IF S = {} THEN 0 ELSE CHOOSE s \in S : \A t \in S : s <= t
In(l) == {s \in Shards : state[s] = l}
ActiveShard == Least(In("active"))
StandbyShard == Least(In("standby"))

Idle == [pc |-> "idle", op |-> "check", active |-> 0, target |-> 0, todo |-> {}, flag |-> FALSE, local |-> 0]
Done == [Idle EXCEPT !.pc = "done"]

At(p, l) == proc[p].pc = l
Goto(p, l) == proc' = [proc EXCEPT ![p].pc = l]

\* The seal loop starts over, a request is answered.
Ended(p) == IF proc[p].op = "check" THEN Idle ELSE Done
End(p) == proc' = [proc EXCEPT ![p] = Ended(p)]

\* A registration goes on whatever EnsureActiveShard returns.
NoActive(p) == IF proc[p].op = "register" THEN Goto(p, "respond") ELSE End(p)
HaveActive(p, s) ==
    LET next == CASE proc[p].op = "check" -> "stats"
                  [] proc[p].op = "post" -> "forward"
                  [] proc[p].op = "register" -> "respond"
    IN proc' = [proc EXCEPT ![p].pc = next, ![p].active = s, ![p].todo = {}]

\* A shard that is down may start.  A new one gets the next id.
Starts(s) ==
    /\ s \notin up /\ \A q \in Procs : proc[q].op = "register" => proc[q].target # s
    /\ state[s] = "none" => s = Least(In("none"))

Begin(p) ==
    /\ At(p, "idle")
    /\ \E op \in Ops[p] :
           \/ /\ op \in {"check", "rotate", "post"}
              /\ proc' = [proc EXCEPT ![p].pc = op, ![p].op = op]
           \/ /\ op = "seal"
              /\ \E s \in Shards : proc' = [proc EXCEPT ![p].pc = op, ![p].op = op, ![p].active = s]
           \/ /\ op \in {"promote", "register"}
              /\ \E s \in Shards : /\ op = "register" => Starts(s)
                                   /\ proc' = [proc EXCEPT ![p].pc = op, ![p].op = op, ![p].target = s]
    /\ UNCHANGED <<state, index, shardVars, acked, faults, stops>>

-----------------------------------------------------------------------------
(* The registry's transactions.                                            *)

\* Mutant: the unique index is missing.
NoUniqueIndex(next) == TRUE

SingleActive(next) == \A s, t \in Shards : next[s] = "active" /\ next[t] = "active" => s = t

\* PromoteStandby: t becomes active and s, the active shard it replaces (0:
\* there is none), sealed.
CanPromote(t, s) == state[t] = "standby" /\ Least(In("active") \ {t}) = s

Promoted(t, s) ==
    [u \in Shards |-> IF u = t THEN "active" ELSE IF u = s THEN "sealed" ELSE state[u]]

-----------------------------------------------------------------------------
(* CheckSeal, SealAndRotate, PatchShardState.                              *)

\* Mutant: without an active shard there is nothing to check.
CheckSealGivesUp(p) ==
    /\ At(p, "check")
    /\ IF ActiveShard = 0 THEN End(p) ELSE HaveActive(p, ActiveShard)
    /\ UNCHANGED <<state, index, shardVars, acked, faults, stops>>

CheckSeal(p) ==
    /\ At(p, "check")
    /\ IF ActiveShard = 0 THEN Goto(p, "ensure") ELSE HaveActive(p, ActiveShard)
    /\ UNCHANGED <<state, index, shardVars, acked, faults, stops>>

\* Mutant: a shard is full only beyond the limit.
FullBeyond(p) ==
    /\ At(p, "stats")
    /\ IF proc[p].active \in up
       THEN proc' = [proc EXCEPT ![p].pc = "setActive",
                                 ![p].flag = packages[proc[p].active] > MaxPackages]
       ELSE End(p)
    /\ UNCHANGED <<state, index, shardVars, acked, faults, stops>>

FetchStats(p) ==
    /\ At(p, "stats")
    /\ IF proc[p].active \in up
       THEN proc' = [proc EXCEPT ![p].pc = "setActive",
                                 ![p].flag = MaxPackages > 0 /\ packages[proc[p].active] >= MaxPackages]
       ELSE End(p)
    /\ UNCHANGED <<state, index, shardVars, acked, faults, stops>>

\* SetShardState(active), whatever the state is by now, without rotationMu;
\* what the unique index says is ignored.
SetActive(p) ==
    /\ At(p, "setActive")
    /\ LET next == [state EXCEPT ![proc[p].active] = "active"] IN
       state' = IF SingleActive(next) THEN next ELSE state
    /\ IF proc[p].flag THEN Goto(p, "rotate") ELSE End(p)
    /\ UNCHANGED <<index, shardVars, acked, faults, stops>>

\* SealAndRotate picks the shards.  Without a standby the seal loop seals the
\* shard it has looked at.
Rotate(p) ==
    /\ At(p, "rotate")
    /\ \/ /\ ActiveShard # 0 /\ StandbyShard # 0
          /\ proc' = [proc EXCEPT ![p].pc = "probe", ![p].active = ActiveShard,
                                  ![p].target = StandbyShard]
       \/ /\ ActiveShard # 0 /\ StandbyShard = 0
          /\ IF proc[p].op = "check" THEN Goto(p, "seal") ELSE End(p)
       \/ /\ ActiveShard = 0
          /\ End(p)
    /\ UNCHANGED <<state, index, shardVars, acked, faults, stops>>

\* PatchShardState(active).
PromoteBegin(p) ==
    /\ At(p, "promote")
    /\ IF state[proc[p].target] = "standby"
       THEN proc' = [proc EXCEPT ![p].pc = "probe", ![p].active = ActiveShard]
       ELSE End(p)
    /\ UNCHANGED <<state, index, shardVars, acked, faults, stops>>

\* FetchStats of the standby.
Probe(p) ==
    /\ At(p, "probe")
    /\ IF proc[p].target \notin up THEN End(p)
       ELSE Goto(p, IF proc[p].active = 0 THEN "commit" ELSE "sealOld")
    /\ UNCHANGED <<state, index, shardVars, acked, faults, stops>>

\* PatchShardState(sealed).
SealBegin(p) ==
    /\ At(p, "seal")
    /\ IF state[proc[p].active] = "active" THEN Goto(p, "sealOnly") ELSE End(p)
    /\ UNCHANGED <<state, index, shardVars, acked, faults, stops>>

\* Mutant: the shard is not told.
SealLocally(p) ==
    /\ proc[p].pc \in {"sealOld", "sealOnly"}
    /\ Goto(p, IF At(p, "sealOld") THEN "commit" ELSE "sealCommit")
    /\ UNCHANGED <<state, index, shardVars, acked, faults, stops>>

\* sealShardRemote: the shard turns read-only.
SealRemote(p) ==
    /\ proc[p].pc \in {"sealOld", "sealOnly"}
    /\ IF proc[p].active \in up
       THEN /\ readOnly' = [readOnly EXCEPT ![proc[p].active] = TRUE]
            /\ Goto(p, IF At(p, "sealOld") THEN "commit" ELSE "sealCommit")
       ELSE End(p) /\ UNCHANGED readOnly
    /\ UNCHANGED <<state, index, up, packages, acked, faults, stops>>

\* The registry is written if it still is what it was.
Commit(p) ==
    /\ At(p, "commit")
    /\ state' = IF CanPromote(proc[p].target, proc[p].active)
                THEN Promoted(proc[p].target, proc[p].active) ELSE state
    /\ End(p)
    /\ UNCHANGED <<index, shardVars, acked, faults, stops>>

SealCommit(p) ==
    /\ At(p, "sealCommit")
    /\ state' = IF state[proc[p].active] = "active"
                THEN [state EXCEPT ![proc[p].active] = "sealed"] ELSE state
    /\ End(p)
    /\ UNCHANGED <<index, shardVars, acked, faults, stops>>

-----------------------------------------------------------------------------
(* EnsureActiveShard: the first standby that answers.                      *)

Ensure(p) ==
    /\ At(p, "ensure")
    /\ \/ ActiveShard # 0 /\ HaveActive(p, ActiveShard)
       \/ ActiveShard = 0 /\ In("standby") = {} /\ NoActive(p)
       \/ /\ ActiveShard = 0 /\ In("standby") # {}
          /\ proc' = [proc EXCEPT ![p].pc = "ensureProbe", ![p].todo = In("standby")]
    /\ UNCHANGED <<state, index, shardVars, acked, faults, stops>>

NextStandby(p) ==
    LET rest == proc[p].todo \ {Least(proc[p].todo)} IN
    IF rest = {} THEN NoActive(p)
    ELSE proc' = [proc EXCEPT ![p].pc = "ensureProbe", ![p].todo = rest]

EnsureProbe(p) ==
    /\ At(p, "ensureProbe")
    /\ \/ Least(proc[p].todo) \in up /\ Goto(p, "ensurePromote") /\ UNCHANGED faults
       \/ Least(proc[p].todo) \notin up /\ NextStandby(p) /\ UNCHANGED faults
       \/ /\ Least(proc[p].todo) \in up /\ faults < MaxFaults \* the call fails
          /\ NextStandby(p) /\ faults' = faults + 1
    /\ UNCHANGED <<state, index, shardVars, acked, stops>>

EnsurePromote(p) ==
    /\ At(p, "ensurePromote")
    /\ LET t == Least(proc[p].todo) IN
       \/ /\ CanPromote(t, 0)
          /\ state' = Promoted(t, 0)
          /\ HaveActive(p, t)
       \/ /\ ~CanPromote(t, 0)
          /\ IF ActiveShard # 0 THEN HaveActive(p, ActiveShard) ELSE NextStandby(p)
          /\ UNCHANGED state
    /\ UNCHANGED <<index, shardVars, acked, faults, stops>>

-----------------------------------------------------------------------------
(* RegisterShard, called by a starting shard that does not listen yet.     *)

Register(p) ==
    /\ At(p, "register")
    /\ LET s == proc[p].target IN
       /\ state' = [state EXCEPT ![s] = IF @ = "none" THEN "standby" ELSE @]
       /\ proc' = [proc EXCEPT ![p].pc = "ensure", ![p].flag = state[s] = "sealed"]
    /\ UNCHANGED <<index, shardVars, acked, faults, stops>>

\* The shard listens, read-only if it was told that it is sealed.
Respond(p) ==
    /\ At(p, "respond")
    /\ up' = up \cup {proc[p].target}
    /\ readOnly' = [readOnly EXCEPT ![proc[p].target] = proc[p].flag]
    /\ End(p)
    /\ UNCHANGED <<state, index, packages, acked, faults, stops>>

-----------------------------------------------------------------------------
(* ProxyPost.                                                              *)

Post(p) ==
    /\ At(p, "post")
    /\ IF ActiveShard = 0 THEN Goto(p, "ensure") ELSE HaveActive(p, ActiveShard)
    /\ UNCHANGED <<state, index, shardVars, acked, faults, stops>>

\* Mutant: the guard is not asked.
ForwardUnguarded(p) ==
    /\ At(p, "forward")
    /\ IF proc[p].active \in up THEN Goto(p, "store") ELSE End(p)
    /\ UNCHANGED <<state, index, shardVars, acked, faults, stops>>

\* ShardGuard.middleware lets the request in or answers 403.
Forward(p) ==
    /\ At(p, "forward")
    /\ IF proc[p].active \in up /\ ~readOnly[proc[p].active] THEN Goto(p, "store") ELSE End(p)
    /\ UNCHANGED <<state, index, shardVars, acked, faults, stops>>

\* The shard commits the package.
Store(p) ==
    /\ At(p, "store")
    /\ LET s == proc[p].active IN
       /\ packages' = [packages EXCEPT ![s] = @ + 1]
       /\ proc' = [proc EXCEPT ![p].pc = "index", ![p].local = packages[s] + 1]
    /\ UNCHANGED <<state, index, up, readOnly, acked, faults, stops>>

Package(p) ==
    [id |-> Encode(proc[p].active, proc[p].local), shard |-> proc[p].active, local |-> proc[p].local]

\* Mutant: the answer is given before the index is written.
AnswerFirst(p) ==
    /\ At(p, "index")
    /\ acked' = acked \cup {Package(p)}
    /\ End(p)
    /\ UNCHANGED <<state, index, shardVars, faults, stops>>

InsertGlobalPackage(p) ==
    /\ At(p, "index")
    /\ index' = index \cup {Package(p).id}
    /\ acked' = acked \cup {Package(p)}
    /\ End(p)
    /\ UNCHANGED <<state, shardVars, faults, stops>>

\* ProxyGet: what is asked of which shard for a global id; a shard that is not
\* in the registry is not asked.
ProxyGet(id) == {d \in {Decode(id)} : d.shard \in Shards /\ state[d.shard] # "none"}

-----------------------------------------------------------------------------
(* Faults.                                                                 *)

\* A shard repeats its registration until it is answered
\* (RegisterShardWithRetry).
Failed(p) ==
    IF proc[p].op = "register"
    THEN [Idle EXCEPT !.pc = "register", !.op = "register", !.target = proc[p].target]
    ELSE Ended(p)

\* A query, a transaction or a call fails, or its answer is lost.
OpFails(p) ==
    /\ ~At(p, "idle") /\ ~At(p, "done") /\ faults < MaxFaults
    /\ faults' = faults + 1
    /\ proc' = [proc EXCEPT ![p] = Failed(p)]
    /\ UNCHANGED <<state, index, shardVars, acked, stops>>

CoordinatorRestart ==
    /\ faults < MaxFaults
    /\ faults' = faults + 1
    /\ proc' = [p \in Procs |-> IF At(p, "idle") \/ At(p, "done") THEN proc[p] ELSE Failed(p)]
    /\ UNCHANGED <<state, index, shardVars, acked, stops>>

\* A shard stops, and with it the requests it has let in.
ShardStops(s) ==
    /\ s \in up /\ stops < MaxStops
    /\ stops' = stops + 1
    /\ up' = up \ {s}
    /\ proc' = [p \in Procs |-> IF At(p, "store") /\ proc[p].active = s THEN Done ELSE proc[p]]
    /\ UNCHANGED <<state, index, readOnly, packages, acked, faults>>

Init ==
    /\ state = Seed /\ up = {s \in Shards : Seed[s] # "none"}
    /\ readOnly = [s \in Shards |-> Seed[s] = "sealed"]
    /\ packages = [s \in Shards |-> 0] /\ index = {} /\ acked = {}
    /\ proc = [p \in Procs |-> Idle]
    /\ faults = 0 /\ stops = 0

Step(p) ==
    \/ CheckSeal(p) \/ FetchStats(p) \/ SetActive(p) \/ Rotate(p) \/ PromoteBegin(p) \/ Probe(p)
    \/ SealBegin(p) \/ SealRemote(p) \/ Commit(p) \/ SealCommit(p)
    \/ Ensure(p) \/ EnsureProbe(p) \/ EnsurePromote(p) \/ Register(p) \/ Respond(p)
    \/ Post(p) \/ Forward(p) \/ Store(p) \/ InsertGlobalPackage(p)

Next ==
    \/ \E p \in Procs : Begin(p) \/ Step(p) \/ OpFails(p)
    \/ CoordinatorRestart
    \/ \E s \in Shards : ShardStops(s)

Spec == Init /\ [][Next]_vars

\* Requests that have begun go on, and RunSealLoop keeps ticking.
FairSpec ==
    /\ Spec
    /\ \A p \in Procs : WF_vars(Step(p)) /\ ("check" \in Ops[p] => WF_vars(Begin(p)))

-----------------------------------------------------------------------------
(* Properties.                                                             *)

\* The types of the variables.
TypeOK ==
    /\ state \in [Shards -> States] /\ up \subseteq Shards
    /\ readOnly \in [Shards -> BOOLEAN] /\ packages \in [Shards -> Nat]
    /\ index \subseteq Nat /\ acked \subseteq [id : Nat, shard : Shards, local : Nat]
    /\ \A p \in Procs : /\ proc[p].op \in Operations /\ proc[p].todo \subseteq Shards
                        /\ proc[p].active \in Shards \cup {0} /\ proc[p].target \in Shards \cup {0}

\* At most one shard is active, whatever the seal loop, the administrator and
\* registrations do at the same time (PromoteStandby, CheckSeal).
OneActive == \A s, t \in In("active") : s = t

\* A shard that has never been active holds no package and is not read-only: a
\* promoted shard takes writes (EnsureActiveShard, SealAndRotate, ProxyPost).
StandbyFresh ==
    \A s \in Shards : state[s] \in {"none", "standby"} => packages[s] = 0 /\ ~readOnly[s]

\* A shard that the registry calls sealed refuses writes: it is told before the
\* registry is written (sealShardRemote).  A shard that was stopped in the
\* meantime has forgotten it.
SealedIsReadOnly == stops = 0 => \A s \in Shards : state[s] = "sealed" => readOnly[s]

\* Once a shard is sealed, only the requests that its guard had let in before
\* can still store a package there, whatever the coordinator forwards on an old
\* reading of the registry (ProxyPost, ShardGuard).
LetIn(s) == {p \in Procs : At(p, "store") /\ proc[p].active = s}

SealedDrains ==
    [][\A s \in Shards : state[s] = "sealed" /\ stops = 0 => LetIn(s)' \subseteq LetIn(s)]_vars

\* A package that was answered has its row in the global index and is read back
\* from the shard that stored it, under the id that shard gave it; the index
\* tells only of packages that a shard has (ProxyPost, ProxyGet).
AckedFound ==
    /\ \A a \in acked : a.id \in index /\ ProxyGet(a.id) = {[shard |-> a.shard, local |-> a.local]}
    /\ \A id \in index : /\ ProxyGet(id) # {}
                         /\ \A d \in ProxyGet(id) : d.local \in 1 .. packages[d.shard]

\* A shard never goes back to standby, and is sealed only from active.
Lifecycle ==
    [][\A s \in Shards : /\ state'[s] = "standby" => state[s] \in {"none", "standby"}
                         /\ state'[s] = "sealed" => state[s] \in {"active", "sealed"}]_vars

\* A sealed shard is never active again (CheckSeal, line 495).
SealedForever == [][\A s \in Shards : state[s] = "sealed" => state'[s] = "sealed"]_vars

\* The registry does not stay without an active shard while a standby listens
\* (EnsureActiveShard called by CheckSeal).
ActiveRestored ==
    (ActiveShard = 0 /\ In("standby") \cap up # {})
        ~> (ActiveShard # 0 \/ In("standby") \cap up = {})

\* A full active shard is sealed, with a standby or without, unless it goes down
\* or the first standby does: SealAndRotate does not try another one (CheckSeal).
FullSealed ==
    \A s \in Shards : (state[s] = "active" /\ packages[s] >= MaxPackages)
                      ~> (state[s] = "sealed" \/ ~({s, StandbyShard} \ {0} \subseteq up))
=============================================================================
