--------------------------- MODULE RegistryProofs ---------------------------
(***************************************************************************)
(* The invariants of Registry for any number of shards, goroutines and      *)
(* failures.                                                               *)
(***************************************************************************)
EXTENDS Registry, WellFoundedInduction, TLAPS

\* A leaf that names no prover is left to Zenon; the others, most of them about
\* numbers, sequences or EXCEPT, name the SMT solver.
USE ZenonT(30)

-----------------------------------------------------------------------------
(* Global ids.                                                             *)

\* The division of a word by the size of its low part gives its two parts.
LEMMA Parts ==
    ASSUME NEW k \in Nat \ {0}, NEW h \in Nat, NEW l \in 0 .. k - 1
    PROVE  (h * k + l) \div k = h /\ (h * k + l) % k = l
  BY SMTT(30)

\* A global id leads back to the package it was made of, whatever shard id and
\* package id fit into it, and to no other (Encode, Decode).
THEOREM RoundTrip ==
    \A s \in 0 .. ShardIds - 1, l \in 0 .. LocalIds - 1 :
        Decode(Encode(s, l)) = [shard |-> s, local |-> l]
  <1> SUFFICES ASSUME NEW s \in 0 .. ShardIds - 1, NEW l \in 0 .. LocalIds - 1
               PROVE  Decode(Encode(s, l)) = [shard |-> s, local |-> l]
    OBVIOUS
  <1>1. s % ShardIds = s /\ l % LocalIds = l
    BY GlobalIdsAssumption, SMTT(30)
  <1>2. Encode(s, l) = s * LocalIds + l
    BY <1>1 DEF Encode
  <1>3. (s * LocalIds + l) \div LocalIds = s /\ (s * LocalIds + l) % LocalIds = l
    <2> s \in Nat
      BY GlobalIdsAssumption, SMTT(30)
    <2> QED BY Parts, GlobalIdsAssumption
  <1>4. QED
    BY <1>2, <1>3 DEF Decode

-----------------------------------------------------------------------------
(* The inductive invariant.                                                *)

Pcs == Operations \cup
       {"idle", "done", "stats", "setActive", "probe", "sealOld", "sealOnly", "commit", "sealCommit",
        "ensure", "ensureProbe", "ensurePromote", "respond", "forward", "store", "index"}

Proc ==
    [pc : Pcs, op : Operations, active : Shards \cup {0}, target : Shards \cup {0},
     todo : SUBSET Shards, flag : BOOLEAN, local : Nat]

\* The types that the steps need, those of TypeOK among them.
Typed ==
    /\ state \in [Shards -> States] /\ up \subseteq Shards
    /\ readOnly \in [Shards -> BOOLEAN] /\ packages \in [Shards -> Nat]
    /\ proc \in [Procs -> Proc] /\ stops \in Nat

\* s is active or has been.
Old(s) == state[s] \in {"active", "sealed"}

\* The operation that a goroutine is at a step of.
Follows(q) ==
    /\ q.pc \in {"idle", "done", "check", "stats", "setActive"} => q.op = "check"
    /\ q.pc \in {"post", "forward", "store", "index"} => q.op = "post"
    /\ q.pc \in {"register", "respond"} => q.op = "register"
    /\ q.pc = "rotate" => q.op \in {"check", "rotate"}
    /\ q.pc = "promote" => q.op = "promote"
    /\ q.pc \in {"ensure", "ensureProbe", "ensurePromote"} => q.op \in {"check", "post", "register"}
    /\ q.pc \in {"probe", "sealOld", "commit", "seal", "sealOnly", "sealCommit"} => q.op # "register"

\* What it has read of the registry: the shard it takes for active is or was,
\* the one it promotes is a shard, the package it indexes is on its shard.
Knows(q) ==
    /\ q.pc \in {"stats", "setActive", "forward", "store", "index", "sealOld", "sealOnly", "sealCommit"} =>
           q.active \in Shards /\ Old(q.active)
    /\ q.pc \in {"probe", "commit"} => q.active = 0 \/ (q.active \in Shards /\ Old(q.active))
    /\ q.pc = "seal" \/ (q.pc = "rotate" /\ q.op = "check") => q.active \in Shards
    /\ q.pc \in {"probe", "sealOld", "commit", "promote"} \/ q.op = "register" => q.target \in Shards
    /\ q.pc \in {"ensureProbe", "ensurePromote"} => q.todo # {}
    /\ q.op = "register" /\ q.pc # "register" /\ q.flag => Old(q.target)
    /\ q.pc = "index" => q.local \in 1 .. packages[q.active]

\* One registration of a shard at a time.
Registering == {p \in Procs : proc[p].op = "register"}
Alone == \A p, q \in Registering : proc[p].target = proc[q].target => p = q

\* As long as no shard stops: who is about to write that a shard is sealed has
\* told it, and it listens; who registers does not listen yet, and is sealed
\* only if it was told.
Told ==
    stops = 0 =>
        /\ \A s \in Shards : state[s] = "sealed" => readOnly[s]
        /\ \A p \in Procs :
               \/ proc[p].pc = "sealCommit"
               \/ proc[p].pc = "commit" /\ proc[p].active # 0
               => readOnly[proc[p].active] /\ proc[p].active \in up
        /\ \A p \in Registering :
               /\ proc[p].target \notin up
               /\ proc[p].pc # "register" /\ ~proc[p].flag => state[proc[p].target] # "sealed"

IInv ==
    /\ Typed /\ OneActive /\ StandbyFresh /\ Alone /\ Told
    /\ \A p \in Procs : Follows(proc[p]) /\ Knows(proc[p])

-----------------------------------------------------------------------------
(* Shards and goroutines.                                                  *)

\* Shards are positive numbers.
LEMMA ShardNumbers == Shards \subseteq Nat /\ 0 \notin Shards
  BY RegistryAssumption

\* Least finds a shard if there is one.
LEMMA LeastShard ==
    ASSUME NEW S, S \subseteq Shards
    PROVE  /\ S = {} => Least(S) = 0
           /\ S # {} => Least(S) \in S /\ Least(S) \in Shards /\ Least(S) # 0
  <1>1. ASSUME S # {} PROVE \E x \in S : \A y \in S : x <= y
    <2>1. PICK x \in S : \A y \in S : ~(<<y, x>> \in OpToRel(<, Nat))
      BY <1>1, ShardNumbers, NatLessThanWellFounded, WFMin
    <2>2. \A y \in S : ~(y < x)
      BY <2>1, ShardNumbers DEF OpToRel
    <2> QED BY <2>2, ShardNumbers, SMTT(30)
  <1>2. ASSUME S # {} PROVE Least(S) \in S
    BY <1>1, <1>2 DEF Least
  <1> QED BY <1>2, ShardNumbers DEF Least

\* The active shard and the standby, if there is one.
LEMMA Found ==
    /\ ActiveShard # 0 => ActiveShard \in Shards /\ state[ActiveShard] = "active" /\ Old(ActiveShard)
    /\ ActiveShard = 0 => In("active") = {}
    /\ StandbyShard # 0 => StandbyShard \in Shards /\ state[StandbyShard] = "standby"
    /\ ActiveShard \in Shards \cup {0} /\ StandbyShard \in Shards \cup {0}
  <1>1. In("active") \subseteq Shards /\ In("standby") \subseteq Shards
    BY DEF In
  <1>2. /\ In("active") = {} => ActiveShard = 0
        /\ In("active") # {} => ActiveShard \in In("active") /\ ActiveShard # 0
        /\ In("standby") = {} => StandbyShard = 0
        /\ In("standby") # {} => StandbyShard \in In("standby") /\ StandbyShard # 0
    BY <1>1, LeastShard DEF ActiveShard, StandbyShard
  <1> QED BY <1>2 DEF In, Old

\* p goes on to q.
Goes(p, q) == q \in Proc /\ proc' = [proc EXCEPT ![p] = q]

\* The other goroutines stay where they are.
LEMMA Gone ==
    ASSUME Typed, NEW p \in Procs, NEW q, Goes(p, q)
    PROVE  /\ proc' \in [Procs -> Proc] /\ proc'[p] = q
           /\ \A r \in Procs \ {p} : proc'[r] = proc[r]
  BY DEF Typed, Goes

\* q continues the operation of p.
Continues(p, q) ==
    /\ q.op = proc[p].op /\ q.target = proc[p].target /\ q.flag = proc[p].flag

LEMMA GotoMoves ==
    ASSUME Typed, NEW p \in Procs, NEW l \in Pcs, Goto(p, l)
    PROVE  \E q : /\ Goes(p, q) /\ Continues(p, q) /\ q.pc = l
                  /\ q.active = proc[p].active /\ q.todo = proc[p].todo
  <1> DEFINE q == [proc[p] EXCEPT !.pc = l]
  <1>1. proc[p] \in Proc
    BY DEF Typed
  <1>2. /\ q \in Proc /\ q.pc = l /\ q.active = proc[p].active /\ q.todo = proc[p].todo
        /\ q.op = proc[p].op /\ q.target = proc[p].target /\ q.flag = proc[p].flag
    BY <1>1 DEF Proc
  <1>3. proc' = [proc EXCEPT ![p] = q]
    BY DEF Goto, Typed
  <1> QED BY <1>2, <1>3 DEF Goes, Continues

\* q is at the end.
Over(q) == q.pc \in {"idle", "done"} /\ q.op = "check"

LEMMA EndIsOver ==
    /\ Idle \in Proc /\ Over(Idle) /\ Done \in Proc /\ Over(Done)
    /\ \A p : Ended(p) \in Proc /\ Over(Ended(p))
  <1>1. Idle \in Proc /\ Over(Idle)
    BY DEF Idle, Proc, Pcs, Operations, Over
  <1>2. Done \in Proc /\ Over(Done)
    BY DEF Idle, Done, Proc, Pcs, Operations, Over
  <1> QED BY <1>1, <1>2 DEF Ended

LEMMA EndMoves ==
    ASSUME Typed, NEW p \in Procs, End(p)
    PROVE  \E q : Goes(p, q) /\ Over(q)
  BY EndIsOver DEF End, Goes

\* The step after an active shard was found,
AfterActive(q) ==
    /\ q.op = "check" => q.pc = "stats"
    /\ q.op = "post" => q.pc = "forward"
    /\ q.op = "register" => q.pc = "respond"

LEMMA HaveActiveMoves ==
    ASSUME Typed, NEW p \in Procs, NEW s \in Shards, HaveActive(p, s),
           proc[p].op \in {"check", "post", "register"}
    PROVE  \E q : Goes(p, q) /\ Continues(p, q) /\ AfterActive(q) /\ q.active = s
  <1>1. proc[p] \in Proc
    BY DEF Typed
  <1>2. PICK l \in Pcs : /\ proc' = [proc EXCEPT ![p].pc = l, ![p].active = s, ![p].todo = {}]
                         /\ proc[p].op = "check" => l = "stats"
                         /\ proc[p].op = "post" => l = "forward"
                         /\ proc[p].op = "register" => l = "respond"
    <2>1. CASE proc[p].op = "check"
      BY <2>1 DEF HaveActive, Pcs
    <2>2. CASE proc[p].op = "post"
      BY <2>2 DEF HaveActive, Pcs
    <2>3. CASE proc[p].op = "register"
      BY <2>3 DEF HaveActive, Pcs
    <2> QED BY <2>1, <2>2, <2>3
  <1> DEFINE q == [proc[p] EXCEPT !.pc = l, !.active = s, !.todo = {}]
  <1>3. /\ q \in Proc /\ q.pc = l /\ q.active = s /\ q.op = proc[p].op
        /\ q.target = proc[p].target /\ q.flag = proc[p].flag
    BY <1>1 DEF Proc
  <1>4. proc' = [proc EXCEPT ![p] = q]
    BY <1>2 DEF Typed
  <1> QED BY <1>2, <1>3, <1>4 DEF Goes, Continues, AfterActive

\* and after none was.
LEMMA NoActiveMoves ==
    ASSUME Typed, NEW p \in Procs, NoActive(p)
    PROVE  \E q : /\ Goes(p, q)
                  /\ \/ Over(q)
                     \/ Continues(p, q) /\ q.pc = "respond" /\ q.op = "register"
  <1>1. CASE proc[p].op = "register"
    <2>1. Goto(p, "respond") /\ "respond" \in Pcs
      BY <1>1 DEF NoActive, Pcs
    <2> QED BY <1>1, <2>1, GotoMoves, SMTT(30) DEF Continues
  <1>2. CASE proc[p].op # "register"
    BY <1>2, EndMoves DEF NoActive
  <1> QED BY <1>1, <1>2

LEMMA NextStandbyMoves ==
    ASSUME Typed, NEW p \in Procs, NextStandby(p)
    PROVE  \E q : /\ Goes(p, q)
                  /\ \/ Over(q)
                     \/ Continues(p, q) /\ q.pc = "respond" /\ q.op = "register"
                     \/ Continues(p, q) /\ q.pc = "ensureProbe" /\ q.todo # {}
  <1> DEFINE rest == proc[p].todo \ {Least(proc[p].todo)}
             q == [proc[p] EXCEPT !.pc = "ensureProbe", !.todo = rest]
  <1>1. CASE rest = {}
    BY <1>1, NoActiveMoves DEF NextStandby
  <1>2. CASE rest # {}
    <2>1. proc[p] \in Proc /\ rest \subseteq Shards
      BY DEF Typed, Proc
    <2>2. /\ q \in Proc /\ q.pc = "ensureProbe" /\ q.todo = rest /\ q.op = proc[p].op
          /\ q.target = proc[p].target /\ q.flag = proc[p].flag
      BY <2>1 DEF Proc, Pcs
    <2>3. proc' = [proc EXCEPT ![p] = q]
      BY <1>2 DEF NextStandby, Typed
    <2> QED BY <1>2, <2>2, <2>3 DEF Goes, Continues
  <1> QED BY <1>1, <1>2

-----------------------------------------------------------------------------
(* A step that writes at most the registry.                                *)

\* The ways of a shard through its states.
Evolves ==
    \A s \in Shards :
        \/ state'[s] = state[s]
        \/ state[s] = "none" /\ state'[s] = "standby"
        \/ state[s] = "standby" /\ state'[s] = "active"
        \/ state[s] \in {"active", "sealed"} /\ state'[s] \in {"active", "sealed"}

\* A shard that is called sealed has been told.
Seals ==
    stops = 0 => \A s \in Shards :
        state'[s] = "sealed" => state[s] = "sealed" \/ (readOnly[s] /\ s \in up)

Writes == state' \in [Shards -> States] /\ OneActive' /\ Evolves /\ Seals

LEMMA NoWrite == ASSUME IInv, UNCHANGED state PROVE Writes
  BY DEF IInv, Typed, Writes, Evolves, Seals, OneActive, In

LEMMA OldStays == ASSUME Evolves, NEW s \in Shards, Old(s) PROVE Old(s)'
  BY DEF Evolves, Old

\* q follows from its code, is not about to seal and registers what p does.
Fits(p, q) ==
    /\ Follows(q) /\ Knows(q)'
    /\ q.pc # "sealCommit" /\ (q.pc = "commit" => q.active = 0)
    /\ q.op = "register" =>
           /\ proc[p].op = "register" /\ q.target = proc[p].target
           /\ q.pc # "register" /\ ~q.flag =>
                  \/ state'[q.target] # "sealed"
                  \/ proc[p].pc # "register" /\ ~proc[p].flag

\* What the others know stays true.
LEMMA KnowledgeStays ==
    ASSUME Evolves, UNCHANGED packages, NEW q \in Proc, Follows(q), Knows(q)
    PROVE  Knows(q)'
  <1>1. Old(q.active) /\ q.active \in Shards => Old(q.active)'
    BY OldStays
  <1>2. Old(q.target) /\ q.target \in Shards => Old(q.target)'
    BY OldStays
  <1> QED BY <1>1, <1>2 DEF Knows

LEMMA PlainStep ==
    ASSUME IInv, NEW p \in Procs, NEW q, Goes(p, q), Fits(p, q), Writes,
           UNCHANGED <<readOnly, up, packages, stops>>
    PROVE  IInv'
  <1>0. /\ Typed /\ OneActive /\ StandbyFresh /\ Alone /\ Told /\ Evolves
        /\ \A r \in Procs : Follows(proc[r]) /\ Knows(proc[r])
    BY DEF IInv, Writes
  <1>1. /\ proc' \in [Procs -> Proc] /\ proc'[p] = q
        /\ \A r \in Procs \ {p} : proc'[r] = proc[r]
    BY <1>0, Gone
  <1>2. Typed'
    BY <1>0, <1>1 DEF Typed, Writes
  <1>3. StandbyFresh'
    BY <1>0 DEF StandbyFresh, Evolves, Writes, Typed
  <1>4. \A r \in Procs : (Follows(proc[r]) /\ Knows(proc[r]))'
    <2> SUFFICES ASSUME NEW r \in Procs PROVE Follows(proc'[r]) /\ Knows(proc[r])'
      BY DEF Follows
    <2>1. CASE r = p
      BY <1>1, <2>1 DEF Fits, Knows
    <2>2. CASE r # p
      <3>1. PICK x \in Proc : x = proc[r] /\ x = proc'[r]
        BY <1>0, <1>1, <2>2 DEF Typed
      <3>2. Follows(x) /\ Knows(x)
        BY <1>0, <3>1
      <3>3. Knows(x)'
        BY <1>0, <3>2, KnowledgeStays
      <3> QED BY <3>1, <3>2, <3>3 DEF Knows
    <2> QED BY <2>1, <2>2
  <1>5. Alone'
    <2>1. \A r \in Registering' : r \in Registering /\ proc'[r].target = proc[r].target
      BY <1>1 DEF Registering, Fits
    <2> QED BY <1>0, <2>1 DEF Alone
  <1>6. Told'
    <2> SUFFICES ASSUME stops = 0 PROVE Told'
      BY DEF Told
    <2>1. \A s \in Shards : state'[s] = "sealed" => readOnly'[s]
      BY <1>0 DEF Told, Writes, Seals
    <2>2. ASSUME NEW r \in Procs,
                 \/ proc'[r].pc = "sealCommit"
                 \/ proc'[r].pc = "commit" /\ proc'[r].active # 0
          PROVE  readOnly'[proc'[r].active] /\ proc'[r].active \in up'
      <3>1. r # p
        BY <1>1, <2>2 DEF Fits
      <3> QED BY <1>0, <1>1, <2>2, <3>1 DEF Told
    <2>3. ASSUME NEW r \in Registering'
          PROVE  /\ proc'[r].target \notin up'
                 /\ proc'[r].pc # "register" /\ ~proc'[r].flag => state'[proc'[r].target] # "sealed"
      <3>1. r \in Registering /\ proc'[r].target = proc[r].target
        BY <1>1, <2>3 DEF Registering, Fits
      <3>2. proc[r].target \in Shards
        BY <1>0, <3>1 DEF Registering, Knows
      <3>3. proc[r].target \notin up
        BY <1>0, <3>1 DEF Told
      <3>4. proc[r].pc # "register" /\ ~proc[r].flag => state'[proc[r].target] # "sealed"
        BY <1>0, <3>1, <3>2, <3>3 DEF Told, Writes, Seals
      <3>5. CASE r = p
        <4>1. proc'[r] = q /\ q.op = "register"
          BY <1>1, <2>3, <3>5 DEF Registering
        <4>2. /\ q.target = proc[p].target
              /\ q.pc # "register" /\ ~q.flag =>
                     \/ state'[q.target] # "sealed"
                     \/ proc[p].pc # "register" /\ ~proc[p].flag
          BY <4>1 DEF Fits
        <4> QED BY <3>3, <3>4, <3>5, <4>1, <4>2
      <3>6. CASE r # p
        <4>1. proc'[r] = proc[r]
          BY <1>1, <2>3, <3>6 DEF Registering
        <4> QED BY <3>3, <3>4, <4>1
      <3> QED BY <3>5, <3>6
    <2> QED BY <2>1, <2>2, <2>3 DEF Told
  <1> QED BY <1>2, <1>3, <1>4, <1>5, <1>6 DEF IInv, Writes

LEMMA OverFits == ASSUME NEW p \in Procs, NEW q, Over(q) PROVE Fits(p, q)
  BY DEF Over, Fits, Follows, Knows

\* A goroutine that ends has written what the registry may hold.
LEMMA EndStep ==
    ASSUME IInv, NEW p \in Procs, End(p), Writes, UNCHANGED <<readOnly, up, packages, stops>>
    PROVE  IInv'
  BY EndMoves, OverFits, PlainStep DEF IInv

\* Or it only goes on.
LEMMA GoStep ==
    ASSUME IInv, NEW p \in Procs, NEW q, Goes(p, q), Fits(p, q),
           UNCHANGED <<state, readOnly, up, packages, stops>>
    PROVE  IInv' /\ Evolves
  <1>1. Writes
    BY NoWrite
  <1> QED BY <1>1, PlainStep DEF Writes

LEMMA EndGoes ==
    ASSUME IInv, NEW p \in Procs, End(p), UNCHANGED <<state, readOnly, up, packages, stops>>
    PROVE  IInv' /\ Evolves
  BY EndMoves, OverFits, GoStep DEF IInv

LEMMA NoActiveGoes ==
    ASSUME IInv, NEW p \in Procs, NoActive(p), proc[p].pc # "register",
           UNCHANGED <<state, readOnly, up, packages, stops>>
    PROVE  IInv' /\ Evolves
  <1>1. PICK q : /\ Goes(p, q)
                 /\ \/ Over(q)
                    \/ Continues(p, q) /\ q.pc = "respond" /\ q.op = "register"
    BY NoActiveMoves DEF IInv
  <1>2. Follows(proc[p]) /\ Knows(proc[p])
    BY DEF IInv
  <1>3. Fits(p, q)
    <2>1. CASE Over(q)
      BY <2>1, OverFits
    <2>2. CASE Continues(p, q) /\ q.pc = "respond" /\ q.op = "register"
      BY <1>2, <2>2 DEF Continues, Fits, Follows, Knows, Old
    <2> QED BY <1>1, <2>1, <2>2
  <1> QED BY <1>1, <1>3, GoStep

LEMMA NextStandbyGoes ==
    ASSUME IInv, NEW p \in Procs, NextStandby(p), proc[p].pc \in {"ensureProbe", "ensurePromote"},
           UNCHANGED <<state, readOnly, up, packages, stops>>
    PROVE  IInv' /\ Evolves
  <1>1. PICK q : /\ Goes(p, q)
                 /\ \/ Over(q)
                    \/ Continues(p, q) /\ q.pc = "respond" /\ q.op = "register"
                    \/ Continues(p, q) /\ q.pc = "ensureProbe" /\ q.todo # {}
    BY NextStandbyMoves DEF IInv
  <1>2. Follows(proc[p]) /\ Knows(proc[p])
    BY DEF IInv
  <1>3. Fits(p, q)
    <2>1. CASE Over(q)
      BY <2>1, OverFits
    <2>2. CASE Continues(p, q) /\ q.pc = "respond" /\ q.op = "register"
      BY <1>2, <2>2 DEF Continues, Fits, Follows, Knows, Old
    <2>3. CASE Continues(p, q) /\ q.pc = "ensureProbe" /\ q.todo # {}
      BY <1>2, <2>3 DEF Continues, Fits, Follows, Knows, Old
    <2> QED BY <1>1, <2>1, <2>2, <2>3
  <1> QED BY <1>1, <1>3, GoStep

\* A goroutine that has found the active shard s.
LEMMA HaveActiveFits ==
    ASSUME IInv, Evolves, NEW p \in Procs, NEW s \in Shards, Old(s)', HaveActive(p, s),
           proc[p].op \in {"check", "post", "register"}, proc[p].pc # "register"
    PROVE  \E q : Goes(p, q) /\ Fits(p, q)
  <1>1. PICK q : Goes(p, q) /\ Continues(p, q) /\ AfterActive(q) /\ q.active = s
    BY HaveActiveMoves DEF IInv
  <1>2. Follows(proc[p]) /\ Knows(proc[p])
    BY DEF IInv
  <1>3. Old(q.target) /\ q.target \in Shards => Old(q.target)'
    BY OldStays
  <1>4. q.op \in {"check", "post", "register"} /\ q.pc \in {"stats", "forward", "respond"}
    BY <1>1 DEF Continues, AfterActive
  <1>5. Follows(q)
    BY <1>1, <1>4 DEF AfterActive, Follows
  <1>6. Knows(q)'
    BY <1>1, <1>2, <1>3, <1>4 DEF Continues, AfterActive, Knows
  <1>7. Fits(p, q)
    BY <1>1, <1>4, <1>5, <1>6 DEF Continues, Fits
  <1> QED BY <1>1, <1>7

LEMMA HaveActiveGoes ==
    ASSUME IInv, NEW p \in Procs, ActiveShard # 0, HaveActive(p, ActiveShard),
           proc[p].op \in {"check", "post", "register"}, proc[p].pc # "register",
           UNCHANGED <<state, readOnly, up, packages, stops>>
    PROVE  IInv' /\ Evolves
  <1>1. PICK s \in Shards : s = ActiveShard /\ Old(s)
    BY Found
  <1>2. Evolves /\ Old(s)'
    BY <1>1, NoWrite, OldStays DEF Writes
  <1>3. HaveActive(p, s)
    BY <1>1
  <1> QED BY <1>2, <1>3, HaveActiveFits, GoStep

\* And one that goes to another line with what it has read.
LEMMA GotoGoes ==
    ASSUME IInv, NEW p \in Procs, NEW l \in Pcs, Goto(p, l),
           \A q \in Proc : /\ Continues(p, q) /\ q.pc = l
                           /\ q.active = proc[p].active /\ q.todo = proc[p].todo
                           => Fits(p, q),
           UNCHANGED <<state, readOnly, up, packages, stops>>
    PROVE  IInv' /\ Evolves
  <1>1. PICK q : /\ Goes(p, q) /\ Continues(p, q) /\ q.pc = l
                 /\ q.active = proc[p].active /\ q.todo = proc[p].todo
    BY GotoMoves DEF IInv
  <1> QED BY <1>1, GoStep DEF Goes

-----------------------------------------------------------------------------
(* One lemma for each action.                                              *)

LEMMA CheckSealStep == ASSUME IInv, NEW p \in Procs, CheckSeal(p) PROVE IInv' /\ Evolves
  <1>1. /\ proc[p].pc = "check" /\ proc[p].op = "check" /\ Knows(proc[p])
        /\ UNCHANGED <<state, readOnly, up, packages, stops>>
    BY DEF IInv, Follows, CheckSeal, At, shardVars
  <1>2. CASE ActiveShard = 0
    <2>1. Goto(p, "ensure") /\ "ensure" \in Pcs
      BY <1>2 DEF CheckSeal, Pcs
    <2> QED BY <1>1, <2>1, GotoGoes, SMTT(30) DEF Continues, Fits, Follows, Knows
  <1>3. CASE ActiveShard # 0
    BY <1>1, <1>3, HaveActiveGoes DEF CheckSeal
  <1> QED BY <1>2, <1>3

LEMMA FetchStatsStep == ASSUME IInv, NEW p \in Procs, FetchStats(p) PROVE IInv' /\ Evolves
  <1>1. /\ proc[p].pc = "stats" /\ proc[p].op = "check" /\ Knows(proc[p]) /\ proc[p] \in Proc
        /\ UNCHANGED <<state, readOnly, up, packages, stops>>
    BY DEF IInv, Typed, Follows, FetchStats, At, shardVars
  <1>2. CASE proc[p].active \in up
    <2>1. PICK b \in BOOLEAN : proc' = [proc EXCEPT ![p].pc = "setActive", ![p].flag = b]
      BY <1>2 DEF FetchStats
    <2>2. PICK q : /\ q \in Proc /\ proc' = [proc EXCEPT ![p] = q]
                   /\ q.pc = "setActive" /\ q.active = proc[p].active /\ q.op = "check"
      <3> DEFINE x == [proc[p] EXCEPT !.pc = "setActive", !.flag = b]
      <3>1. /\ x \in Proc
            /\ x.pc = "setActive" /\ x.active = proc[p].active /\ x.op = "check"
        BY <1>1 DEF Proc, Pcs
      <3>2. proc' = [proc EXCEPT ![p] = x]
        BY <2>1 DEF IInv, Typed
      <3> QED BY <3>1, <3>2
    <2>3. Goes(p, q)
      BY <2>2 DEF Goes
    <2>4. q.active \in Shards /\ Old(q.active)
      BY <1>1, <2>2 DEF Knows
    <2>5. Fits(p, q)
      BY <1>1, <2>2, <2>4 DEF Fits, Follows, Knows, Old
    <2> QED BY <1>1, <2>3, <2>5, GoStep
  <1>3. CASE proc[p].active \notin up
    BY <1>1, <1>3, EndGoes DEF FetchStats
  <1> QED BY <1>2, <1>3

LEMMA RotateStep == ASSUME IInv, NEW p \in Procs, Rotate(p) PROVE IInv' /\ Evolves
  <1>1. /\ proc[p].pc = "rotate" /\ proc[p].op \in {"check", "rotate"} /\ Knows(proc[p])
        /\ proc[p] \in Proc /\ UNCHANGED <<state, readOnly, up, packages, stops>>
    BY DEF IInv, Typed, Follows, Rotate, At, shardVars
  <1>2. CASE /\ ActiveShard # 0 /\ StandbyShard # 0
             /\ proc' = [proc EXCEPT ![p].pc = "probe", ![p].active = ActiveShard,
                                     ![p].target = StandbyShard]
    <2>1. PICK s, t \in Shards : s = ActiveShard /\ t = StandbyShard /\ Old(s)
      BY <1>2, Found
    <2>2. PICK q : /\ q \in Proc /\ proc' = [proc EXCEPT ![p] = q]
                   /\ q.pc = "probe" /\ q.active = s /\ q.target = t /\ q.op = proc[p].op
      <3> DEFINE x == [proc[p] EXCEPT !.pc = "probe", !.active = s, !.target = t]
      <3>1. /\ x \in Proc
            /\ x.pc = "probe" /\ x.active = s /\ x.target = t /\ x.op = proc[p].op
        BY <1>1 DEF Proc, Pcs
      <3>2. proc' = [proc EXCEPT ![p] = x]
        BY <1>2, <2>1 DEF IInv, Typed
      <3> QED BY <3>1, <3>2
    <2>3. Goes(p, q)
      BY <2>2 DEF Goes
    <2>4. Old(s)'
      BY <1>1, <2>1 DEF Old
    <2>5. Fits(p, q)
      BY <1>1, <2>2, <2>4 DEF Fits, Follows, Knows
    <2> QED BY <1>1, <2>3, <2>5, GoStep
  <1>3. CASE proc[p].op = "check" /\ Goto(p, "seal")
    <2>1. "seal" \in Pcs
      BY DEF Pcs, Operations
    <2> QED BY <1>1, <1>3, <2>1, GotoGoes, SMTT(30) DEF Continues, Fits, Follows, Knows
  <1>4. CASE End(p)
    BY <1>1, <1>4, EndGoes
  <1> QED BY <1>2, <1>3, <1>4 DEF Rotate

LEMMA PromoteBeginStep == ASSUME IInv, NEW p \in Procs, PromoteBegin(p) PROVE IInv' /\ Evolves
  <1>1. /\ proc[p].pc = "promote" /\ proc[p].op = "promote" /\ Knows(proc[p])
        /\ proc[p] \in Proc /\ UNCHANGED <<state, readOnly, up, packages, stops>>
    BY DEF IInv, Typed, Follows, PromoteBegin, At, shardVars
  <1>2. CASE state[proc[p].target] = "standby"
    <2>1. PICK s \in Shards \cup {0} : s = ActiveShard /\ (s # 0 => Old(s))
      BY Found
    <2>2. PICK q : /\ q \in Proc /\ proc' = [proc EXCEPT ![p] = q]
                   /\ q.pc = "probe" /\ q.active = s /\ q.target = proc[p].target /\ q.op = "promote"
      <3> DEFINE x == [proc[p] EXCEPT !.pc = "probe", !.active = s]
      <3>1. /\ x \in Proc
            /\ x.pc = "probe" /\ x.active = s /\ x.target = proc[p].target /\ x.op = "promote"
        BY <1>1 DEF Proc, Pcs
      <3>2. proc' = [proc EXCEPT ![p] = x]
        BY <1>2, <2>1 DEF IInv, Typed, PromoteBegin
      <3> QED BY <3>1, <3>2
    <2>3. Goes(p, q)
      BY <2>2 DEF Goes
    <2>4. (s # 0 => Old(s)') /\ q.target \in Shards
      BY <1>1, <2>1, <2>2 DEF Old, Knows
    <2>5. Fits(p, q)
      BY <1>1, <2>2, <2>4 DEF Fits, Follows, Knows
    <2> QED BY <1>1, <2>3, <2>5, GoStep
  <1>3. CASE state[proc[p].target] # "standby"
    BY <1>1, <1>3, EndGoes DEF PromoteBegin
  <1> QED BY <1>2, <1>3

LEMMA ProbeStep == ASSUME IInv, NEW p \in Procs, Probe(p) PROVE IInv' /\ Evolves
  <1>1. /\ proc[p].pc = "probe" /\ proc[p].op # "register" /\ Knows(proc[p])
        /\ UNCHANGED <<state, readOnly, up, packages, stops>>
    BY DEF IInv, Follows, Probe, At, shardVars
  <1>2. CASE proc[p].target \notin up
    BY <1>1, <1>2, EndGoes DEF Probe
  <1>3. CASE proc[p].target \in up /\ proc[p].active = 0
    <2>1. Goto(p, "commit") /\ "commit" \in Pcs
      BY <1>3 DEF Probe, Pcs
    <2> QED BY <1>1, <1>3, <2>1, GotoGoes, SMTT(30) DEF Continues, Fits, Follows, Knows
  <1>4. CASE proc[p].target \in up /\ proc[p].active # 0
    <2>1. Goto(p, "sealOld") /\ "sealOld" \in Pcs
      BY <1>4 DEF Probe, Pcs
    <2> QED BY <1>1, <1>4, <2>1, GotoGoes, SMTT(30) DEF Continues, Fits, Follows, Knows, Old
  <1> QED BY <1>2, <1>3, <1>4

LEMMA SealBeginStep == ASSUME IInv, NEW p \in Procs, SealBegin(p) PROVE IInv' /\ Evolves
  <1>1. /\ proc[p].pc = "seal" /\ proc[p].op # "register" /\ Knows(proc[p])
        /\ UNCHANGED <<state, readOnly, up, packages, stops>>
    BY DEF IInv, Follows, SealBegin, At, shardVars
  <1>2. CASE state[proc[p].active] = "active"
    <2>1. Goto(p, "sealOnly") /\ "sealOnly" \in Pcs
      BY <1>2 DEF SealBegin, Pcs
    <2> QED BY <1>1, <1>2, <2>1, GotoGoes, SMTT(30) DEF Continues, Fits, Follows, Knows, Old
  <1>3. CASE state[proc[p].active] # "active"
    BY <1>1, <1>3, EndGoes DEF SealBegin
  <1> QED BY <1>2, <1>3

LEMMA EnsureStep == ASSUME IInv, NEW p \in Procs, Ensure(p) PROVE IInv' /\ Evolves
  <1>1. /\ proc[p].pc = "ensure" /\ proc[p].op \in {"check", "post", "register"} /\ Knows(proc[p])
        /\ proc[p] \in Proc /\ UNCHANGED <<state, readOnly, up, packages, stops>>
    BY DEF IInv, Typed, Follows, Ensure, At, shardVars
  <1>2. CASE ActiveShard # 0 /\ HaveActive(p, ActiveShard)
    BY <1>1, <1>2, HaveActiveGoes
  <1>3. CASE NoActive(p)
    BY <1>1, <1>3, NoActiveGoes
  <1>4. CASE /\ In("standby") # {}
             /\ proc' = [proc EXCEPT ![p].pc = "ensureProbe", ![p].todo = In("standby")]
    <2>1. PICK S \in SUBSET Shards : S # {} /\ S = In("standby")
      BY <1>4 DEF In
    <2>2. PICK q : /\ q \in Proc /\ proc' = [proc EXCEPT ![p] = q]
                   /\ q.pc = "ensureProbe" /\ q.todo = S /\ Continues(p, q)
      <3> DEFINE x == [proc[p] EXCEPT !.pc = "ensureProbe", !.todo = S]
      <3>1. /\ x \in Proc
            /\ x.pc = "ensureProbe" /\ x.todo = S
            /\ x.op = proc[p].op /\ x.target = proc[p].target /\ x.flag = proc[p].flag
        BY <1>1 DEF Proc, Pcs
      <3>2. proc' = [proc EXCEPT ![p] = x]
        BY <1>4, <2>1 DEF IInv, Typed
      <3> QED BY <3>1, <3>2 DEF Continues
    <2>3. Goes(p, q)
      BY <2>2 DEF Goes
    <2>4. Fits(p, q)
      BY <1>1, <2>1, <2>2 DEF Continues, Fits, Follows, Knows, Old
    <2> QED BY <1>1, <2>3, <2>4, GoStep
  <1> QED BY <1>2, <1>3, <1>4 DEF Ensure

LEMMA EnsureProbeStep == ASSUME IInv, NEW p \in Procs, EnsureProbe(p) PROVE IInv' /\ Evolves
  <1>1. /\ proc[p].pc = "ensureProbe" /\ proc[p].op \in {"check", "post", "register"} /\ Knows(proc[p])
        /\ UNCHANGED <<state, readOnly, up, packages, stops>>
    BY DEF IInv, Follows, EnsureProbe, At, shardVars
  <1>2. CASE Goto(p, "ensurePromote")
    <2>1. "ensurePromote" \in Pcs
      BY DEF Pcs
    <2> QED BY <1>1, <1>2, <2>1, GotoGoes, SMTT(30) DEF Continues, Fits, Follows, Knows, Old
  <1>3. CASE NextStandby(p)
    BY <1>1, <1>3, NextStandbyGoes
  <1> QED BY <1>2, <1>3 DEF EnsureProbe

LEMMA PostStep == ASSUME IInv, NEW p \in Procs, Post(p) PROVE IInv' /\ Evolves
  <1>1. /\ proc[p].pc = "post" /\ proc[p].op = "post" /\ Knows(proc[p])
        /\ UNCHANGED <<state, readOnly, up, packages, stops>>
    BY DEF IInv, Follows, Post, At, shardVars
  <1>2. CASE ActiveShard = 0
    <2>1. Goto(p, "ensure") /\ "ensure" \in Pcs
      BY <1>2 DEF Post, Pcs
    <2> QED BY <1>1, <2>1, GotoGoes, SMTT(30) DEF Continues, Fits, Follows, Knows
  <1>3. CASE ActiveShard # 0
    BY <1>1, <1>3, HaveActiveGoes DEF Post
  <1> QED BY <1>2, <1>3

LEMMA ForwardStep == ASSUME IInv, NEW p \in Procs, Forward(p) PROVE IInv' /\ Evolves
  <1>1. /\ proc[p].pc = "forward" /\ proc[p].op = "post" /\ Knows(proc[p])
        /\ UNCHANGED <<state, readOnly, up, packages, stops>>
    BY DEF IInv, Follows, Forward, At, shardVars
  <1>2. CASE Goto(p, "store")
    <2>1. "store" \in Pcs
      BY DEF Pcs
    <2> QED BY <1>1, <1>2, <2>1, GotoGoes, SMTT(30) DEF Continues, Fits, Follows, Knows, Old
  <1>3. CASE End(p)
    BY <1>1, <1>3, EndGoes
  <1> QED BY <1>2, <1>3 DEF Forward

LEMMA InsertGlobalPackageStep ==
    ASSUME IInv, NEW p \in Procs, InsertGlobalPackage(p) PROVE IInv' /\ Evolves
  BY EndGoes DEF InsertGlobalPackage, shardVars

\* A call that failed is over, or registers again.
LEMMA FailedFits ==
    ASSUME IInv, NEW p \in Procs
    PROVE  /\ Failed(p) \in Proc
           /\ \/ Over(Failed(p))
              \/ /\ proc[p].op = "register" /\ Failed(p).op = "register" /\ Failed(p).pc = "register"
                 /\ Failed(p).target = proc[p].target /\ Failed(p).target \in Shards
  <1>1. proc[p] \in Proc /\ Knows(proc[p])
    BY DEF IInv, Typed
  <1>2. CASE proc[p].op = "register"
    <2> DEFINE x == [Idle EXCEPT !.pc = "register", !.op = "register", !.target = proc[p].target]
    <2>1. proc[p].target \in Shards
      BY <1>1, <1>2 DEF Knows
    <2>2. x \in Proc /\ x.op = "register" /\ x.pc = "register" /\ x.target = proc[p].target
      BY <2>1, EndIsOver DEF Proc, Pcs, Operations
    <2> QED BY <1>2, <2>1, <2>2 DEF Failed
  <1>3. CASE proc[p].op # "register"
    BY <1>3, EndIsOver DEF Failed
  <1> QED BY <1>2, <1>3

LEMMA OpFailsStep == ASSUME IInv, NEW p \in Procs, OpFails(p) PROVE IInv' /\ Evolves
  <1>1. PICK q : q = Failed(p)
    OBVIOUS
  <1>2. Goes(p, q)
    BY <1>1, FailedFits DEF OpFails, Goes
  <1>3. Fits(p, q)
    <2>1. CASE Over(q)
      BY <2>1, OverFits
    <2>2. CASE ~Over(q)
      BY <1>1, <2>2, FailedFits DEF Fits, Follows, Knows
    <2> QED BY <2>1, <2>2
  <1> QED BY <1>2, <1>3, GoStep DEF OpFails, shardVars

LEMMA SetActiveStep == ASSUME IInv, NEW p \in Procs, SetActive(p) PROVE IInv' /\ Evolves
  <1>1. /\ proc[p].pc = "setActive" /\ proc[p].op = "check" /\ Knows(proc[p])
        /\ UNCHANGED <<readOnly, up, packages, stops>>
    BY DEF IInv, Follows, SetActive, At, shardVars
  <1>2. PICK a \in Shards : a = proc[p].active /\ Old(a)
    BY <1>1 DEF Knows
  <1> DEFINE next == [state EXCEPT ![a] = "active"]
  <1>3. state' = IF SingleActive(next) THEN next ELSE state
    BY <1>2 DEF SetActive
  <1>4. Writes
    <2>1. CASE ~SingleActive(next)
      BY <1>3, <2>1, NoWrite
    <2>2. CASE SingleActive(next)
      <3>1. state' = next
        BY <1>3, <2>2
      <3>2. state' \in [Shards -> States]
        BY <3>1 DEF IInv, Typed, States
      <3>3. OneActive'
        BY <2>2, <3>1 DEF SingleActive, OneActive, In
      <3>4. Evolves
        BY <1>2, <3>1 DEF Evolves, Old, IInv, Typed
      <3>5. Seals
        BY <1>2, <3>1 DEF Seals, IInv, Typed
      <3> QED BY <3>2, <3>3, <3>4, <3>5 DEF Writes
    <2> QED BY <2>1, <2>2
  <1>5. CASE End(p)
    BY <1>1, <1>4, <1>5, EndStep DEF Writes
  <1>6. CASE Goto(p, "rotate")
    <2>1. "rotate" \in Pcs
      BY DEF Pcs, Operations
    <2>2. PICK q : Goes(p, q) /\ Continues(p, q) /\ q.pc = "rotate" /\ q.active = proc[p].active
      BY <1>6, <2>1, GotoMoves, SMTT(30) DEF IInv
    <2>3. Fits(p, q)
      BY <1>1, <1>2, <2>2 DEF Continues, Fits, Follows, Knows
    <2> QED BY <1>1, <1>4, <2>2, <2>3, PlainStep DEF Writes
  <1> QED BY <1>5, <1>6 DEF SetActive

\* PromoteStandby keeps one active shard.
LEMMA PromotedWrites ==
    ASSUME IInv, NEW t \in Shards, NEW s \in Shards \cup {0}, CanPromote(t, s),
           state' = Promoted(t, s), s # 0 /\ stops = 0 => readOnly[s] /\ s \in up
    PROVE  Writes
  <1>1. /\ state[t] = "standby"
        /\ s # 0 => s \in Shards /\ state[s] = "active" /\ s # t
        /\ s = 0 => In("active") \ {t} = {}
    <2>1. In("active") \ {t} \subseteq Shards /\ Least(In("active") \ {t}) = s
      BY DEF In, CanPromote
    <2>2. s # 0 => s \in In("active") \ {t}
      BY <2>1, LeastShard
    <2>3. s = 0 => In("active") \ {t} = {}
      BY <2>1, LeastShard
    <2> QED BY <2>2, <2>3 DEF In, CanPromote
  <1>2. state' \in [Shards -> States]
    BY DEF Promoted, IInv, Typed, States
  <1>3. OneActive'
    <2> SUFFICES ASSUME NEW u \in Shards, state'[u] = "active" PROVE u = t
      BY DEF OneActive, In
    <2>1. CASE s = 0
      BY <1>1, <2>1, ShardNumbers, SMTT(30) DEF Promoted, In
    <2>2. CASE s # 0
      BY <1>1, <2>2, SMTT(30) DEF Promoted, In, IInv, OneActive
    <2> QED BY <2>1, <2>2
  <1>4. /\ state'[t] = "active"
        /\ \A u \in Shards \ {t} : u = s \/ state'[u] = state[u]
        /\ s # 0 => state'[s] = "sealed"
    BY <1>1 DEF Promoted
  <1>5. Evolves
    BY <1>1, <1>4, ShardNumbers DEF Evolves
  <1>6. Seals
    BY <1>1, <1>4, ShardNumbers DEF Seals
  <1> QED BY <1>2, <1>3, <1>5, <1>6 DEF Writes

LEMMA EnsurePromoteStep == ASSUME IInv, NEW p \in Procs, EnsurePromote(p) PROVE IInv' /\ Evolves
  <1>1. /\ proc[p].pc = "ensurePromote" /\ proc[p].op \in {"check", "post", "register"}
        /\ Knows(proc[p]) /\ proc[p] \in Proc /\ UNCHANGED <<readOnly, up, packages, stops>>
    BY DEF IInv, Typed, Follows, EnsurePromote, At, shardVars
  <1>2. proc[p].todo \subseteq Shards /\ proc[p].todo # {}
    BY <1>1 DEF Proc, Knows
  <1>3. PICK t \in Shards : t = Least(proc[p].todo)
    BY <1>2, LeastShard
  <1>4. CASE CanPromote(t, 0) /\ state' = Promoted(t, 0) /\ HaveActive(p, t)
    <2>1. Writes
      BY <1>4, PromotedWrites
    <2>2. Evolves /\ Old(t)'
      BY <1>4, <2>1 DEF Writes, Promoted, Old
    <2>3. PICK q : Goes(p, q) /\ Fits(p, q)
      BY <1>1, <1>4, <2>2, HaveActiveFits
    <2> QED BY <1>1, <2>1, <2>2, <2>3, PlainStep
  <1>5. CASE ActiveShard # 0 /\ HaveActive(p, ActiveShard) /\ UNCHANGED state
    BY <1>1, <1>5, HaveActiveGoes
  <1>6. CASE NextStandby(p) /\ UNCHANGED state
    BY <1>1, <1>6, NextStandbyGoes
  <1> QED BY <1>3, <1>4, <1>5, <1>6 DEF EnsurePromote

LEMMA CommitStep == ASSUME IInv, NEW p \in Procs, Commit(p) PROVE IInv' /\ Evolves
  <1>1. /\ proc[p].pc = "commit" /\ Knows(proc[p]) /\ proc[p] \in Proc /\ End(p)
        /\ UNCHANGED <<readOnly, up, packages, stops>>
    BY DEF IInv, Typed, Commit, At, shardVars
  <1>2. PICK t \in Shards, s \in Shards \cup {0} : t = proc[p].target /\ s = proc[p].active
    BY <1>1 DEF Knows, Proc
  <1>3. s # 0 /\ stops = 0 => readOnly[s] /\ s \in up
    BY <1>1, <1>2 DEF IInv, Told
  <1>4. Writes
    <2>1. CASE CanPromote(t, s)
      <3>1. state' = Promoted(t, s)
        BY <1>2, <2>1 DEF Commit
      <3> QED BY <1>3, <2>1, <3>1, PromotedWrites
    <2>2. CASE ~CanPromote(t, s)
      <3>1. UNCHANGED state
        BY <1>2, <2>2 DEF Commit
      <3> QED BY <3>1, NoWrite
    <2> QED BY <2>1, <2>2
  <1> QED BY <1>1, <1>4, EndStep DEF Writes

LEMMA SealCommitStep == ASSUME IInv, NEW p \in Procs, SealCommit(p) PROVE IInv' /\ Evolves
  <1>1. /\ proc[p].pc = "sealCommit" /\ Knows(proc[p]) /\ End(p)
        /\ UNCHANGED <<readOnly, up, packages, stops>>
    BY DEF IInv, SealCommit, At, shardVars
  <1>2. PICK s \in Shards : s = proc[p].active
    BY <1>1 DEF Knows
  <1>3. stops = 0 => readOnly[s] /\ s \in up
    BY <1>1, <1>2 DEF IInv, Told
  <1>4. Writes
    <2>1. CASE state[s] = "active"
      <3>1. state' = [state EXCEPT ![s] = "sealed"]
        BY <1>2, <2>1 DEF SealCommit
      <3>2. state' \in [Shards -> States] /\ Evolves /\ Seals
        BY <1>3, <2>1, <3>1 DEF IInv, Typed, States, Evolves, Seals
      <3>3. OneActive'
        BY <3>1 DEF IInv, Typed, OneActive, In
      <3> QED BY <3>2, <3>3 DEF Writes
    <2>2. CASE state[s] # "active"
      <3>1. UNCHANGED state
        BY <1>2, <2>2 DEF SealCommit
      <3> QED BY <3>1, NoWrite
    <2> QED BY <2>1, <2>2
  <1> QED BY <1>1, <1>4, EndStep DEF Writes

LEMMA RegisterStep == ASSUME IInv, NEW p \in Procs, Register(p) PROVE IInv' /\ Evolves
  <1>1. /\ proc[p].pc = "register" /\ proc[p].op = "register" /\ Knows(proc[p])
        /\ proc[p] \in Proc /\ UNCHANGED <<readOnly, up, packages, stops>>
    BY DEF IInv, Typed, Follows, Register, At, shardVars
  <1>2. PICK s \in Shards : s = proc[p].target
    BY <1>1 DEF Knows
  <1>3. /\ state \in [Shards -> States]
        /\ state' = [state EXCEPT ![s] = IF state[s] = "none" THEN "standby" ELSE state[s]]
    BY <1>2 DEF Register, IInv, Typed
  <1>4. Writes
    <2>1. state' \in [Shards -> States]
      BY <1>3 DEF States
    <2>2. \A u \in Shards : state'[u] = state[u] \/ (state[u] = "none" /\ state'[u] = "standby")
      BY <1>3
    <2>3. Evolves /\ Seals
      BY <2>2 DEF Evolves, Seals
    <2>4. OneActive'
      BY <2>2 DEF IInv, OneActive, In
    <2> QED BY <2>1, <2>3, <2>4 DEF Writes
  <1>5. PICK b \in BOOLEAN : /\ b <=> state[s] = "sealed"
                             /\ proc' = [proc EXCEPT ![p].pc = "ensure", ![p].flag = b]
    <2>1. proc' = [proc EXCEPT ![p].pc = "ensure", ![p].flag = (state[s] = "sealed")]
      BY <1>2 DEF Register
    <2> QED BY <2>1
  <1>6. PICK q : /\ q \in Proc /\ proc' = [proc EXCEPT ![p] = q]
                 /\ q.pc = "ensure" /\ q.flag = b /\ q.op = "register" /\ q.target = s
    <2> DEFINE x == [proc[p] EXCEPT !.pc = "ensure", !.flag = b]
    <2>1. x \in Proc /\ x.pc = "ensure" /\ x.flag = b /\ x.op = "register" /\ x.target = s
      BY <1>1, <1>2 DEF Proc, Pcs
    <2>2. proc' = [proc EXCEPT ![p] = x]
      BY <1>5 DEF IInv, Typed
    <2> QED BY <2>1, <2>2
  <1>7. (b => Old(s)') /\ (~b => state'[s] # "sealed")
    BY <1>3, <1>5 DEF Old
  <1>8. Knows(q)'
    BY <1>6, <1>7 DEF Knows
  <1>9. Fits(p, q)
    BY <1>1, <1>2, <1>6, <1>7, <1>8 DEF Fits, Follows
  <1>10. Goes(p, q)
    BY <1>6 DEF Goes
  <1> QED BY <1>1, <1>4, <1>9, <1>10, PlainStep DEF Writes

\* A shard that is told stays told.
LEMMA SealRemoteStep == ASSUME IInv, NEW p \in Procs, SealRemote(p) PROVE IInv' /\ Evolves
  <1>1. /\ proc[p].pc \in {"sealOld", "sealOnly"} /\ Knows(proc[p]) /\ Follows(proc[p])
        /\ UNCHANGED <<state, up, packages, stops>>
    BY DEF IInv, SealRemote
  <1>2. CASE proc[p].active \notin up
    BY <1>1, <1>2, EndGoes DEF SealRemote
  <1>3. CASE proc[p].active \in up
    <2>1. PICK s \in Shards : s = proc[p].active /\ Old(s) /\ s \in up
      BY <1>1, <1>3 DEF Knows
    <2>2. PICK l \in {"commit", "sealCommit"} : /\ Goto(p, l)
                                                /\ l = "commit" => proc[p].pc = "sealOld"
      BY <1>1, <1>3 DEF SealRemote, At
    <2>3. PICK q : Goes(p, q) /\ Continues(p, q) /\ q.pc = l /\ q.active = s
      BY <2>1, <2>2, GotoMoves, SMTT(30) DEF IInv, Pcs
    <2>4. /\ readOnly' \in [Shards -> BOOLEAN] /\ readOnly'[s] = TRUE
          /\ \A u \in Shards \ {s} : readOnly'[u] = readOnly[u]
      <3>1. readOnly' = [readOnly EXCEPT ![s] = TRUE] /\ readOnly \in [Shards -> BOOLEAN]
        BY <1>3, <2>1 DEF SealRemote, IInv, Typed
      <3> QED BY <3>1
    <2>5. /\ Typed /\ OneActive /\ StandbyFresh /\ Alone /\ Told
          /\ \A r \in Procs : Follows(proc[r]) /\ Knows(proc[r])
      BY DEF IInv
    <2>6. /\ proc' \in [Procs -> Proc] /\ proc'[p] = q
          /\ \A r \in Procs \ {p} : proc'[r] = proc[r]
      BY <2>3, <2>5, Gone
    <2>7. q.op # "register" /\ Follows(q) /\ Knows(q)
      BY <1>1, <2>1, <2>2, <2>3 DEF Continues, Follows, Knows
    <2>8. Typed'
      BY <1>1, <2>4, <2>5, <2>6 DEF Typed
    <2>9. OneActive' /\ Evolves
      BY <1>1, <2>5 DEF OneActive, In, Evolves
    <2>10. StandbyFresh'
      BY <1>1, <2>1, <2>4, <2>5 DEF StandbyFresh, Old
    <2>11. \A r \in Procs : Follows(proc'[r]) /\ Knows(proc'[r])
      BY <2>5, <2>6, <2>7
    <2>12. \A r \in Procs : (Follows(proc[r]) /\ Knows(proc[r]))'
      BY <1>1, <2>11, SMTT(30) DEF Follows, Knows, Old
    <2>13. \A r \in Registering' : r \in Registering /\ proc'[r] = proc[r]
      BY <2>6, <2>7 DEF Registering
    <2>14. Alone'
      BY <2>5, <2>13 DEF Alone
    <2>15. Told'
      <3> SUFFICES ASSUME stops = 0 PROVE Told'
        BY <1>1 DEF Told
      <3>1. \A u \in Shards : state'[u] = "sealed" => readOnly'[u]
        BY <1>1, <2>4, <2>5 DEF Told
      <3>2. ASSUME NEW r \in Procs,
                   \/ proc'[r].pc = "sealCommit"
                   \/ proc'[r].pc = "commit" /\ proc'[r].active # 0
            PROVE  readOnly'[proc'[r].active] /\ proc'[r].active \in up'
        <4>1. CASE r = p
          BY <1>1, <2>1, <2>3, <2>4, <2>6, <4>1
        <4>2. CASE r # p
          <5>1. proc'[r] = proc[r]
            BY <2>6, <4>2
          <5>2. readOnly[proc[r].active] /\ proc[r].active \in up /\ proc[r].active \in Shards
            BY <2>5, <3>2, <5>1 DEF Told, Typed
          <5> QED BY <1>1, <2>4, <5>1, <5>2
        <4> QED BY <4>1, <4>2
      <3>3. \A r \in Registering' :
                /\ proc'[r].target \notin up'
                /\ proc'[r].pc # "register" /\ ~proc'[r].flag => state'[proc'[r].target] # "sealed"
        BY <1>1, <2>5, <2>13 DEF Told
      <3> QED BY <3>1, <3>2, <3>3 DEF Told
    <2> QED BY <2>8, <2>9, <2>10, <2>12, <2>14, <2>15 DEF IInv
  <1> QED BY <1>2, <1>3

\* A shard that starts has not been told anything but its state.
LEMMA RespondStep == ASSUME IInv, NEW p \in Procs, Respond(p) PROVE IInv' /\ Evolves
  <1>1. /\ proc[p].pc = "respond" /\ proc[p].op = "register" /\ Knows(proc[p]) /\ proc[p] \in Proc
        /\ End(p) /\ UNCHANGED <<state, packages, stops>>
    BY DEF IInv, Typed, Follows, Respond, At
  <1>2. PICK s \in Shards, b \in BOOLEAN : s = proc[p].target /\ b = proc[p].flag /\ (b => Old(s))
    BY <1>1 DEF Knows, Proc
  <1>3. PICK q : Goes(p, q) /\ Over(q)
    BY <1>1, EndMoves DEF IInv
  <1>4. /\ Typed /\ OneActive /\ StandbyFresh /\ Alone /\ Told
        /\ \A r \in Procs : Follows(proc[r]) /\ Knows(proc[r])
    BY DEF IInv
  <1>5. /\ readOnly' \in [Shards -> BOOLEAN] /\ readOnly'[s] = b
        /\ \A u \in Shards \ {s} : readOnly'[u] = readOnly[u]
        /\ up' = up \cup {s}
    <2>1. /\ readOnly' = [readOnly EXCEPT ![s] = b] /\ readOnly \in [Shards -> BOOLEAN]
          /\ up' = up \cup {s}
      BY <1>2 DEF Respond, IInv, Typed
    <2> QED BY <2>1
  <1>6. /\ proc' \in [Procs -> Proc] /\ proc'[p] = q
        /\ \A r \in Procs \ {p} : proc'[r] = proc[r]
    BY <1>3, <1>4, Gone
  <1>7. q.op = "check" /\ q.pc \in {"idle", "done"} /\ Follows(q) /\ Knows(q)
    BY <1>3 DEF Over, Follows, Knows
  <1>8. Typed'
    BY <1>1, <1>4, <1>5, <1>6 DEF Typed
  <1>9. OneActive' /\ Evolves
    BY <1>1, <1>4 DEF OneActive, In, Evolves
  <1>10. StandbyFresh'
    BY <1>1, <1>2, <1>4, <1>5 DEF StandbyFresh, Old
  <1>11. \A r \in Procs : Follows(proc'[r]) /\ Knows(proc'[r])
    BY <1>4, <1>6, <1>7
  <1>12. \A r \in Procs : (Follows(proc[r]) /\ Knows(proc[r]))'
    BY <1>1, <1>11 DEF Follows, Knows, Old
  <1>13. \A r \in Registering' : r \in Registering /\ proc'[r] = proc[r] /\ proc[r].target # s
    BY <1>1, <1>2, <1>4, <1>6, <1>7, SMTT(30) DEF Registering, Alone
  <1>14. Alone'
    BY <1>4, <1>13 DEF Alone
  <1>15. Told'
    <2> SUFFICES ASSUME stops = 0 PROVE Told'
      BY <1>1 DEF Told
    <2>1. p \in Registering
      BY <1>1 DEF Registering
    <2>2. s \notin up /\ (state[s] = "sealed" => b)
      BY <1>1, <1>2, <1>4, <2>1 DEF Told
    <2>3. \A u \in Shards : state'[u] = "sealed" => readOnly'[u]
      BY <1>1, <1>4, <1>5, <2>2 DEF Told
    <2>4. ASSUME NEW r \in Procs,
                 \/ proc'[r].pc = "sealCommit"
                 \/ proc'[r].pc = "commit" /\ proc'[r].active # 0
          PROVE  readOnly'[proc'[r].active] /\ proc'[r].active \in up'
      <3>1. r # p /\ proc'[r] = proc[r]
        BY <1>6, <1>7, <2>4
      <3>2. readOnly[proc[r].active] /\ proc[r].active \in up /\ proc[r].active \in Shards
        BY <1>4, <2>4, <3>1 DEF Told, Typed
      <3> QED BY <1>5, <2>2, <3>1, <3>2
    <2>5. \A r \in Registering' :
              /\ proc'[r].target \notin up'
              /\ proc'[r].pc # "register" /\ ~proc'[r].flag => state'[proc'[r].target] # "sealed"
      BY <1>1, <1>4, <1>5, <1>13 DEF Told
    <2> QED BY <2>3, <2>4, <2>5 DEF Told
  <1> QED BY <1>8, <1>9, <1>10, <1>12, <1>14, <1>15 DEF IInv

LEMMA StoreStep == ASSUME IInv, NEW p \in Procs, Store(p) PROVE IInv' /\ Evolves
  <1>1. /\ proc[p].pc = "store" /\ proc[p].op = "post" /\ Knows(proc[p]) /\ proc[p] \in Proc
        /\ UNCHANGED <<state, readOnly, up, stops>>
    BY DEF IInv, Typed, Follows, Store, At
  <1>2. PICK s \in Shards : s = proc[p].active /\ Old(s)
    BY <1>1 DEF Knows
  <1>3. /\ Typed /\ OneActive /\ StandbyFresh /\ Alone /\ Told
        /\ \A r \in Procs : Follows(proc[r]) /\ Knows(proc[r])
    BY DEF IInv
  <1>4. PICK n \in Nat : n = packages[s] + 1
    BY <1>3, SMTT(30) DEF Typed
  <1>5. /\ packages' \in [Shards -> Nat] /\ packages'[s] = n /\ n \in 1 .. packages'[s]
        /\ \A u \in Shards \ {s} : packages'[u] = packages[u]
    <2>1. packages' = [packages EXCEPT ![s] = n] /\ packages \in [Shards -> Nat] /\ n >= 1
      BY <1>2, <1>3, <1>4, SMTT(30) DEF Store, Typed
    <2> QED BY <2>1, SMTT(30)
  <1>6. PICK q : Goes(p, q) /\ q.pc = "index" /\ q.op = "post" /\ q.active = s /\ q.local = n
    <2> DEFINE x == [proc[p] EXCEPT !.pc = "index", !.local = n]
    <2>1. x \in Proc /\ x.pc = "index" /\ x.op = "post" /\ x.active = s /\ x.local = n
      BY <1>1, <1>2 DEF Proc, Pcs
    <2>2. proc' = [proc EXCEPT ![p] = x]
      BY <1>2, <1>3, <1>4 DEF Store, Typed
    <2> QED BY <2>1, <2>2 DEF Goes
  <1>7. /\ proc' \in [Procs -> Proc] /\ proc'[p] = q
        /\ \A r \in Procs \ {p} : proc'[r] = proc[r]
    BY <1>3, <1>6, Gone
  <1>8. Typed'
    BY <1>1, <1>3, <1>5, <1>7 DEF Typed
  <1>9. OneActive' /\ Evolves
    BY <1>1, <1>3 DEF OneActive, In, Evolves
  <1>10. StandbyFresh'
    BY <1>1, <1>2, <1>3, <1>5 DEF StandbyFresh, Old
  <1>11. ASSUME NEW r \in Procs PROVE (Follows(proc[r]) /\ Knows(proc[r]))'
    <2>1. CASE r = p
      BY <1>1, <1>2, <1>5, <1>6, <1>7, <2>1 DEF Follows, Knows, Old
    <2>2. CASE r # p
      <3>1. PICK x \in Proc : x = proc[r] /\ x = proc'[r] /\ Follows(x) /\ Knows(x)
        BY <1>3, <1>7, <2>2 DEF Typed
      <3>2. x.pc = "index" => x.local \in 1 .. packages'[x.active]
        <4> SUFFICES ASSUME x.pc = "index" PROVE x.local \in 1 .. packages'[x.active]
          OBVIOUS
        <4>1. x.active \in Shards /\ x.local \in 1 .. packages[x.active]
          BY <3>1 DEF Knows
        <4>2. packages[x.active] \in Nat /\ packages'[x.active] \in Nat
          BY <1>3, <1>5, <4>1 DEF Typed
        <4>3. packages[x.active] <= packages'[x.active]
          BY <1>4, <1>5, <4>1, <4>2, SMTT(30)
        <4> QED BY <4>1, <4>2, <4>3, SMTT(30)
      <3>3. Knows(x)'
        BY <1>1, <3>1, <3>2 DEF Knows, Old
      <3> QED BY <3>1, <3>3 DEF Knows
    <2> QED BY <2>1, <2>2
  <1>12. \A r \in Registering' : r \in Registering /\ proc'[r] = proc[r]
    BY <1>6, <1>7 DEF Registering
  <1>13. Alone'
    BY <1>3, <1>12 DEF Alone
  <1>14. Told'
    BY <1>1, <1>3, <1>6, <1>7, <1>12, SMTT(30) DEF Told
  <1> QED BY <1>8, <1>9, <1>10, <1>11, <1>13, <1>14 DEF IInv

LEMMA BeginStep == ASSUME IInv, NEW p \in Procs, Begin(p) PROVE IInv' /\ Evolves
  <1>1. /\ proc[p].pc = "idle" /\ proc[p] \in Proc
        /\ UNCHANGED <<state, readOnly, up, packages, stops>>
    BY DEF IInv, Typed, Begin, At, shardVars
  <1>2. PICK op \in Ops[p] :
           \/ /\ op \in {"check", "rotate", "post"}
              /\ proc' = [proc EXCEPT ![p].pc = op, ![p].op = op]
           \/ /\ op = "seal"
              /\ \E s \in Shards : proc' = [proc EXCEPT ![p].pc = op, ![p].op = op, ![p].active = s]
           \/ /\ op \in {"promote", "register"}
              /\ \E s \in Shards : /\ op = "register" => Starts(s)
                                   /\ proc' = [proc EXCEPT ![p].pc = op, ![p].op = op, ![p].target = s]
    BY DEF Begin
  <1>3. op \in Operations /\ op \in Pcs
    BY <1>2 DEF Operations, Pcs
  <1>4. CASE op \in {"check", "rotate", "post"} /\ proc' = [proc EXCEPT ![p].pc = op, ![p].op = op]
    <2> DEFINE x == [proc[p] EXCEPT !.pc = op, !.op = op]
    <2>1. x \in Proc /\ x.pc = op /\ x.op = op
      BY <1>1, <1>3 DEF Proc
    <2>2. proc' = [proc EXCEPT ![p] = x]
      BY <1>4 DEF IInv, Typed
    <2>3. PICK q : Goes(p, q) /\ q.pc = op /\ q.op = op
      BY <2>1, <2>2 DEF Goes
    <2>4. Fits(p, q)
      BY <1>4, <2>3 DEF Fits, Follows, Knows
    <2> QED BY <1>1, <2>3, <2>4, GoStep
  <1>5. ASSUME NEW s \in Shards, op = "seal",
               proc' = [proc EXCEPT ![p].pc = op, ![p].op = op, ![p].active = s]
        PROVE  IInv' /\ Evolves
    <2> DEFINE x == [proc[p] EXCEPT !.pc = op, !.op = op, !.active = s]
    <2>1. x \in Proc /\ x.pc = op /\ x.op = op /\ x.active = s
      BY <1>1, <1>3 DEF Proc
    <2>2. proc' = [proc EXCEPT ![p] = x]
      BY <1>5 DEF IInv, Typed
    <2>3. PICK q : Goes(p, q) /\ q.pc = op /\ q.op = op /\ q.active = s
      BY <2>1, <2>2 DEF Goes
    <2>4. Fits(p, q)
      BY <1>5, <2>3 DEF Fits, Follows, Knows
    <2> QED BY <1>1, <2>3, <2>4, GoStep
  <1>6. ASSUME NEW s \in Shards, op \in {"promote", "register"}, op = "register" => Starts(s),
               proc' = [proc EXCEPT ![p].pc = op, ![p].op = op, ![p].target = s]
        PROVE  IInv' /\ Evolves
    <2> DEFINE x == [proc[p] EXCEPT !.pc = op, !.op = op, !.target = s]
    <2>1. x \in Proc /\ x.pc = op /\ x.op = op /\ x.target = s
      BY <1>1, <1>3 DEF Proc
    <2>2. proc' = [proc EXCEPT ![p] = x]
      BY <1>6 DEF IInv, Typed
    <2>3. PICK q : Goes(p, q) /\ q.pc = op /\ q.op = op /\ q.target = s
      BY <2>1, <2>2 DEF Goes
    <2>4. CASE op = "promote"
      <3>1. Fits(p, q)
        BY <2>3, <2>4 DEF Fits, Follows, Knows
      <3> QED BY <1>1, <2>3, <3>1, GoStep
    <2>5. CASE op = "register"
      <3>1. s \notin up /\ \A r \in Registering : proc[r].target # s
        BY <1>6, <2>5 DEF Starts, Registering
      <3>2. /\ Typed /\ OneActive /\ StandbyFresh /\ Alone /\ Told
            /\ \A r \in Procs : Follows(proc[r]) /\ Knows(proc[r])
        BY DEF IInv
      <3>3. /\ proc' \in [Procs -> Proc] /\ proc'[p] = q
            /\ \A r \in Procs \ {p} : proc'[r] = proc[r]
        BY <2>3, <3>2, Gone
      <3>4. Follows(q) /\ Knows(q)
        BY <2>3, <2>5 DEF Follows, Knows
      <3>5. \A r \in Procs : Follows(proc'[r]) /\ Knows(proc'[r])
        BY <3>2, <3>3, <3>4
      <3>6. \A r \in Procs : (Follows(proc[r]) /\ Knows(proc[r]))'
        BY <1>1, <3>5 DEF Follows, Knows, Old
      <3>7. \A r \in Registering' \ {p} : r \in Registering /\ proc'[r] = proc[r]
        BY <3>3 DEF Registering
      <3>8. Alone'
        BY <2>3, <3>1, <3>2, <3>3, <3>7, SMTT(30) DEF Alone
      <3>9. Told'
        <4> SUFFICES ASSUME stops = 0 PROVE Told'
          BY <1>1 DEF Told
        <4>1. \A u \in Shards : state'[u] = "sealed" => readOnly'[u]
          BY <1>1, <3>2 DEF Told
        <4>2. \A r \in Procs :
                  \/ proc'[r].pc = "sealCommit"
                  \/ proc'[r].pc = "commit" /\ proc'[r].active # 0
                  => readOnly'[proc'[r].active] /\ proc'[r].active \in up'
          BY <1>1, <2>3, <2>5, <3>2, <3>3 DEF Told
        <4>3. \A r \in Registering' :
                  /\ proc'[r].target \notin up'
                  /\ proc'[r].pc # "register" /\ ~proc'[r].flag => state'[proc'[r].target] # "sealed"
          <5> SUFFICES ASSUME NEW r \in Registering'
                       PROVE  /\ proc'[r].target \notin up'
                              /\ proc'[r].pc # "register" /\ ~proc'[r].flag =>
                                     state'[proc'[r].target] # "sealed"
            OBVIOUS
          <5>1. CASE r = p
            BY <1>1, <2>3, <2>5, <3>1, <3>3, <5>1
          <5>2. CASE r # p
            <6>1. r \in Registering /\ proc'[r] = proc[r]
              BY <3>7, <5>2
            <6> QED BY <1>1, <3>2, <6>1 DEF Told
          <5> QED BY <5>1, <5>2
        <4> QED BY <4>1, <4>2, <4>3 DEF Told
      <3>10. Typed' /\ OneActive' /\ StandbyFresh' /\ Evolves
        BY <1>1, <3>2, <3>3 DEF Typed, OneActive, In, StandbyFresh, Evolves
      <3> QED BY <3>6, <3>8, <3>9, <3>10 DEF IInv
    <2> QED BY <1>6, <2>4, <2>5
  <1> QED BY <1>2, <1>4, <1>5, <1>6

\* The shards remain, and what the coordinator forgets is done again or over.
LEMMA CoordinatorRestartStep == ASSUME IInv, CoordinatorRestart PROVE IInv' /\ Evolves
  <1>1. /\ Typed /\ OneActive /\ StandbyFresh /\ Alone /\ Told
        /\ \A r \in Procs : Follows(proc[r]) /\ Knows(proc[r])
        /\ UNCHANGED <<state, readOnly, up, packages, stops>>
    BY DEF IInv, CoordinatorRestart, shardVars
  <1>2. \A r \in Procs : proc'[r] = proc[r] \/ proc'[r] = Failed(r)
    BY DEF CoordinatorRestart
  <1>3. \A r \in Procs : proc'[r] \in Proc
    BY <1>1, <1>2, FailedFits DEF Typed
  <1>4. Typed'
    BY <1>1, <1>3 DEF Typed, CoordinatorRestart
  <1>5. ASSUME NEW r \in Procs PROVE Follows(proc'[r]) /\ Knows(proc'[r])
    <2>1. PICK f : f = Failed(r) /\ (f = proc'[r] \/ proc'[r] = proc[r])
      BY <1>2
    <2>2. Follows(f) /\ Knows(f)
      BY <2>1, FailedFits DEF Over, Follows, Knows
    <2> QED BY <1>1, <2>1, <2>2
  <1>6. \A r \in Procs : (Follows(proc[r]) /\ Knows(proc[r]))'
    BY <1>1, <1>5 DEF Follows, Knows, Old
  <1>7. \A r \in Registering' :
            /\ r \in Registering /\ proc'[r].target = proc[r].target
            /\ proc'[r].pc = "register" \/ proc'[r] = proc[r]
    BY <1>2, FailedFits DEF Registering, Over
  <1>8. Alone'
    BY <1>1, <1>7 DEF Alone
  <1>9. \A r \in Procs : proc'[r].pc \in {"commit", "sealCommit"} => proc'[r] = proc[r]
    BY <1>2, FailedFits DEF Over
  <1>10. Told'
    <2> SUFFICES ASSUME stops = 0 PROVE Told'
      BY <1>1 DEF Told
    <2>1. \A u \in Shards : state'[u] = "sealed" => readOnly'[u]
      BY <1>1 DEF Told
    <2>2. \A r \in Procs :
              \/ proc'[r].pc = "sealCommit"
              \/ proc'[r].pc = "commit" /\ proc'[r].active # 0
              => readOnly'[proc'[r].active] /\ proc'[r].active \in up'
      BY <1>1, <1>9 DEF Told
    <2>3. \A r \in Registering' :
              /\ proc'[r].target \notin up'
              /\ proc'[r].pc # "register" /\ ~proc'[r].flag => state'[proc'[r].target] # "sealed"
      BY <1>1, <1>7 DEF Told
    <2> QED BY <2>1, <2>2, <2>3 DEF Told
  <1>11. OneActive' /\ StandbyFresh' /\ Evolves
    BY <1>1 DEF OneActive, In, StandbyFresh, Evolves
  <1> QED BY <1>4, <1>6, <1>8, <1>10, <1>11 DEF IInv

LEMMA ShardStopsStep == ASSUME IInv, NEW s \in Shards, ShardStops(s) PROVE IInv' /\ Evolves
  <1>1. /\ Typed /\ OneActive /\ StandbyFresh /\ Alone
        /\ \A r \in Procs : Follows(proc[r]) /\ Knows(proc[r])
        /\ UNCHANGED <<state, readOnly, packages>>
    BY DEF IInv, ShardStops
  <1>2. \A r \in Procs : proc'[r] = proc[r] \/ proc'[r] = Done
    BY DEF ShardStops
  <1>3. up' \subseteq Shards /\ stops' \in Nat /\ stops' # 0
    BY <1>1, SMTT(30) DEF ShardStops, Typed
  <1>4. \A r \in Procs : proc'[r] \in Proc
    BY <1>1, <1>2, EndIsOver DEF Typed
  <1>5. Typed'
    BY <1>1, <1>3, <1>4 DEF Typed, ShardStops
  <1>6. Follows(Done) /\ Knows(Done) /\ Done.op = "check"
    BY EndIsOver DEF Over, Follows, Knows
  <1>7. \A r \in Procs : Follows(proc'[r]) /\ Knows(proc'[r])
    BY <1>1, <1>2, <1>6
  <1>8. \A r \in Procs : (Follows(proc[r]) /\ Knows(proc[r]))'
    BY <1>1, <1>7 DEF Follows, Knows, Old
  <1>9. \A r \in Registering' : r \in Registering /\ proc'[r] = proc[r]
    BY <1>2, <1>6 DEF Registering
  <1>10. Alone' /\ Told'
    BY <1>1, <1>3, <1>9 DEF Alone, Told
  <1>11. OneActive' /\ StandbyFresh' /\ Evolves
    BY <1>1 DEF OneActive, In, StandbyFresh, Evolves
  <1> QED BY <1>5, <1>8, <1>10, <1>11 DEF IInv

-----------------------------------------------------------------------------
(* The invariant.                                                          *)

LEMMA Start == ASSUME Init PROVE IInv
  <1>1. \A p \in Procs : proc[p] = Idle
    BY DEF Init
  <1>2. Follows(Idle) /\ Knows(Idle) /\ Idle \in Proc /\ Idle.op = "check" /\ Idle.pc = "idle"
    BY EndIsOver DEF Over, Follows, Knows, Idle
  <1>3. readOnly \in [Shards -> BOOLEAN] /\ \A s \in Shards : readOnly[s] <=> Seed[s] = "sealed"
    BY DEF Init
  <1>4. Typed
    BY <1>2, <1>3, RegistryAssumption DEF Init, Typed
  <1>5. OneActive
    BY RegistryAssumption DEF Init, OneActive, In
  <1>6. StandbyFresh
    <2>1. \A s \in Shards : packages[s] = 0 /\ state[s] = Seed[s]
      BY DEF Init
    <2> QED BY <1>3, <2>1 DEF StandbyFresh
  <1>7. Alone
    BY <1>1, <1>2 DEF Alone, Registering
  <1>8. Told
    <2>1. \A s \in Shards : state[s] = "sealed" => readOnly[s]
      BY <1>3 DEF Init
    <2> QED BY <1>1, <1>2, <2>1 DEF Told, Registering
  <1> QED BY <1>1, <1>2, <1>4, <1>5, <1>6, <1>7, <1>8 DEF IInv

LEMMA Inductive == ASSUME IInv, [Next]_vars PROVE IInv' /\ Evolves
  <1>1. CASE UNCHANGED vars
    <2>1. UNCHANGED <<state, readOnly, up, packages, stops, proc>>
      BY <1>1 DEF vars
    <2>2. Typed' /\ OneActive' /\ StandbyFresh' /\ Alone' /\ Evolves
      BY <2>1 DEF IInv, Typed, OneActive, In, StandbyFresh, Alone, Registering, Evolves
    <2>3. Told'
      BY <2>1 DEF IInv, Told, Registering
    <2>4. \A p \in Procs : (Follows(proc[p]) /\ Knows(proc[p]))'
      BY <2>1, SMTT(30) DEF IInv, Follows, Knows, Old
    <2> QED BY <2>2, <2>3, <2>4 DEF IInv
  <1>2. ASSUME NEW p \in Procs, Step(p) PROVE IInv' /\ Evolves
    BY <1>2, CheckSealStep, FetchStatsStep, SetActiveStep, RotateStep, PromoteBeginStep, ProbeStep,
       SealBeginStep, SealRemoteStep, CommitStep, SealCommitStep, EnsureStep, EnsureProbeStep,
       EnsurePromoteStep, RegisterStep, RespondStep, PostStep, ForwardStep, StoreStep,
       InsertGlobalPackageStep DEF Step
  <1>3. ASSUME NEW p \in Procs, Begin(p) PROVE IInv' /\ Evolves
    BY <1>3, BeginStep
  <1>4. ASSUME NEW p \in Procs, OpFails(p) PROVE IInv' /\ Evolves
    BY <1>4, OpFailsStep
  <1>5. CASE CoordinatorRestart
    BY <1>5, CoordinatorRestartStep
  <1>6. ASSUME NEW s \in Shards, ShardStops(s) PROVE IInv' /\ Evolves
    BY <1>6, ShardStopsStep
  <1> QED BY <1>1, <1>2, <1>3, <1>4, <1>5, <1>6 DEF Next

LEMMA Invariant == Spec => []IInv
  <1>1. Init => IInv
    BY Start
  <1>2. IInv /\ [Next]_vars => IInv'
    BY Inductive
  <1> QED BY <1>1, <1>2, PTL DEF Spec

-----------------------------------------------------------------------------
(* What follows.                                                           *)

\* At most one shard is active (PromoteStandby, CheckSeal).
THEOREM Single == Spec => []OneActive
  <1>1. IInv => OneActive
    BY DEF IInv
  <1> QED BY <1>1, Invariant, PTL

\* A shard that has never been active is empty and writable (EnsureActiveShard,
\* SealAndRotate, ProxyPost).
THEOREM Fresh == Spec => []StandbyFresh
  <1>1. IInv => StandbyFresh
    BY DEF IInv
  <1> QED BY <1>1, Invariant, PTL

\* A shard that the registry calls sealed refuses writes as long as no shard
\* stops (sealShardRemote, RegisterShard).
THEOREM ReadOnly == Spec => []SealedIsReadOnly
  <1>1. IInv => SealedIsReadOnly
    BY DEF IInv, Told, SealedIsReadOnly
  <1> QED BY <1>1, Invariant, PTL

\* No shard goes back to standby, and only an active one is sealed
\* (PromoteStandby, PatchShardState, CheckSeal).
THEOREM Stages == Spec => Lifecycle
  <1>1. ASSUME IInv, [Next]_vars
        PROVE  [\A s \in Shards :
                    /\ state'[s] = "standby" => state[s] \in {"none", "standby"}
                    /\ state'[s] = "sealed" => state[s] \in {"active", "sealed"}]_vars
    <2>1. Evolves
      BY <1>1, Inductive
    <2> QED BY <2>1 DEF Evolves
  <1> QED BY <1>1, Invariant, PTL DEF Spec, Lifecycle

\* p leaves or passes a step other than "store", and the others stay.
Away(p) == proc'[p].pc # "store" /\ \A r \in Procs \ {p} : proc'[r] = proc[r]

LEMMA GoesAway ==
    ASSUME IInv, NEW p \in Procs
    PROVE  /\ \A l \in Pcs \ {"store"} : Goto(p, l) => Away(p)
           /\ End(p) => Away(p)
           /\ NoActive(p) => Away(p)
           /\ NextStandby(p) => Away(p)
           /\ proc[p].op \in {"check", "post", "register"} =>
                  \A s \in Shards : HaveActive(p, s) => Away(p)
  <1>1. Typed
    BY DEF IInv
  <1>2. ASSUME NEW q, Goes(p, q), q.pc # "store" PROVE Away(p)
    BY <1>1, <1>2, Gone DEF Away
  <1>3. \A l \in Pcs \ {"store"} : Goto(p, l) => Away(p)
    BY <1>1, <1>2, GotoMoves
  <1>4. End(p) => Away(p)
    BY <1>1, <1>2, EndMoves DEF Over
  <1>5. NoActive(p) => Away(p)
    BY <1>1, <1>2, NoActiveMoves DEF Over
  <1>6. NextStandby(p) => Away(p)
    BY <1>1, <1>2, NextStandbyMoves DEF Over
  <1>7. ASSUME proc[p].op \in {"check", "post", "register"}, NEW s \in Shards, HaveActive(p, s)
        PROVE  Away(p)
    <2>1. PICK q : Goes(p, q) /\ Continues(p, q) /\ AfterActive(q)
      BY <1>1, <1>7, HaveActiveMoves
    <2>2. q.pc # "store"
      BY <1>7, <2>1 DEF Continues, AfterActive
    <2> QED BY <1>2, <2>1, <2>2
  <1> QED BY <1>3, <1>4, <1>5, <1>6, <1>7

\* The guard of a shard is the only way to "store" (Forward).
LEMMA OnlyForward ==
    ASSUME IInv, NEW p \in Procs, Step(p), ~Forward(p)
    PROVE  Away(p)
  <1>1. /\ proc \in [Procs -> Proc] /\ proc[p] \in Proc /\ Follows(proc[p])
        /\ ActiveShard \in Shards \cup {0}
    BY Found DEF IInv, Typed
  <1>2. CASE CheckSeal(p)
    BY <1>1, <1>2, GoesAway DEF CheckSeal, At, Follows, Pcs
  <1>3. CASE FetchStats(p)
    <2>1. End(p) \/ (/\ proc'[p].pc = "setActive"
                     /\ \A r \in Procs \ {p} : proc'[r] = proc[r])
      BY <1>1, <1>3 DEF FetchStats, Proc
    <2> QED BY <2>1, GoesAway DEF Away
  <1>4. CASE SetActive(p)
    BY <1>4, GoesAway DEF SetActive, Pcs, Operations
  <1>5. CASE Rotate(p)
    <2>1. \/ End(p) \/ Goto(p, "seal")
          \/ (/\ proc'[p].pc = "probe" /\ \A r \in Procs \ {p} : proc'[r] = proc[r])
      BY <1>1, <1>5, SMTT(30) DEF Rotate, Proc
    <2> QED BY <2>1, GoesAway DEF Away, Pcs, Operations
  <1>6. CASE PromoteBegin(p)
    <2>1. \/ End(p)
          \/ (/\ proc'[p].pc = "probe" /\ \A r \in Procs \ {p} : proc'[r] = proc[r])
      BY <1>1, <1>6, SMTT(30) DEF PromoteBegin, Proc
    <2> QED BY <2>1, GoesAway DEF Away
  <1>7. CASE Probe(p)
    BY <1>7, GoesAway DEF Probe, Pcs
  <1>8. CASE SealBegin(p)
    BY <1>8, GoesAway DEF SealBegin, Pcs
  <1>9. CASE SealRemote(p)
    BY <1>9, GoesAway DEF SealRemote, Pcs
  <1>10. CASE Commit(p) \/ SealCommit(p) \/ Respond(p) \/ InsertGlobalPackage(p)
    BY <1>10, GoesAway DEF Commit, SealCommit, Respond, InsertGlobalPackage
  <1>11. CASE Ensure(p)
    <2>1. \/ ActiveShard # 0 /\ HaveActive(p, ActiveShard)
          \/ NoActive(p)
          \/ (/\ proc'[p].pc = "ensureProbe" /\ \A r \in Procs \ {p} : proc'[r] = proc[r])
      BY <1>1, <1>11 DEF Ensure, Proc
    <2>2. proc[p].op \in {"check", "post", "register"}
      BY <1>1, <1>11 DEF Ensure, At, Follows
    <2> QED BY <1>1, <2>1, <2>2, GoesAway DEF Away
  <1>12. CASE EnsureProbe(p)
    BY <1>12, GoesAway DEF EnsureProbe, Pcs
  <1>13. CASE EnsurePromote(p)
    <2>1. proc[p].op \in {"check", "post", "register"} /\ Least(proc[p].todo) \in Shards
      <3>1. proc[p].pc = "ensurePromote" /\ Knows(proc[p])
        BY <1>13 DEF EnsurePromote, At, IInv
      <3>2. proc[p].todo \subseteq Shards /\ proc[p].todo # {}
        BY <1>1, <3>1 DEF Proc, Knows
      <3> QED BY <1>1, <3>1, <3>2, LeastShard DEF Follows
    <2>2. \/ HaveActive(p, Least(proc[p].todo))
          \/ ActiveShard # 0 /\ HaveActive(p, ActiveShard)
          \/ NextStandby(p)
      BY <1>13 DEF EnsurePromote
    <2> QED BY <1>1, <2>1, <2>2, GoesAway
  <1>14. CASE Register(p)
    <2>1. proc'[p].pc = "ensure" /\ \A r \in Procs \ {p} : proc'[r] = proc[r]
      BY <1>1, <1>14 DEF Register, Proc
    <2> QED BY <2>1 DEF Away
  <1>15. CASE Post(p)
    BY <1>1, <1>15, GoesAway DEF Post, At, Follows, Pcs
  <1>16. CASE Store(p)
    <2>1. proc'[p].pc = "index" /\ \A r \in Procs \ {p} : proc'[r] = proc[r]
      BY <1>1, <1>16 DEF Store, Proc
    <2> QED BY <2>1 DEF Away
  <1> QED BY <1>2, <1>3, <1>4, <1>5, <1>6, <1>7, <1>8, <1>9, <1>10, <1>11, <1>12, <1>13, <1>14, <1>15,
             <1>16 DEF Step

\* The requests that a shard lets in after a step.
LEMMA Drained ==
    ASSUME IInv, [Next]_vars, NEW s \in Shards, state[s] = "sealed", stops = 0
    PROVE  LetIn(s)' \subseteq LetIn(s)
  <1>1. readOnly[s] /\ proc \in [Procs -> Proc]
    BY DEF IInv, Told, Typed
  <1>2. ASSUME \A r \in Procs : proc'[r] = proc[r] \/ proc'[r].pc # "store"
        PROVE  LetIn(s)' \subseteq LetIn(s)
    BY <1>2 DEF LetIn, At
  <1>3. CASE UNCHANGED vars
    BY <1>2, <1>3 DEF vars
  <1>4. ASSUME NEW p \in Procs, Step(p), ~Forward(p) PROVE LetIn(s)' \subseteq LetIn(s)
    BY <1>2, <1>4, OnlyForward DEF Away
  <1>5. ASSUME NEW p \in Procs, Forward(p) PROVE LetIn(s)' \subseteq LetIn(s)
    <2>1. CASE End(p)
      BY <1>2, <2>1, GoesAway DEF Away
    <2>2. CASE ~readOnly[proc[p].active] /\ Goto(p, "store")
      <3>1. proc[p].active # s
        BY <1>1, <2>2
      <3>2. proc'[p].active = proc[p].active /\ \A r \in Procs \ {p} : proc'[r] = proc[r]
        BY <1>1, <2>2 DEF Goto, Proc
      <3> QED BY <3>1, <3>2 DEF LetIn, At
    <2> QED BY <1>5, <2>1, <2>2 DEF Forward
  <1>6. ASSUME NEW p \in Procs, Begin(p) PROVE LetIn(s)' \subseteq LetIn(s)
    <2>1. proc'[p].pc \in Operations /\ \A r \in Procs \ {p} : proc'[r] = proc[r]
      BY <1>1, <1>6, SMTT(30) DEF Begin, Proc, Operations
    <2> QED BY <1>2, <2>1 DEF Operations
  <1>7. \A r \in Procs : Failed(r).pc # "store" /\ Done.pc # "store"
    BY FailedFits, EndIsOver DEF Over
  <1>8. ASSUME NEW p \in Procs, OpFails(p) PROVE LetIn(s)' \subseteq LetIn(s)
    BY <1>1, <1>2, <1>7, <1>8 DEF OpFails
  <1>9. CASE CoordinatorRestart
    BY <1>2, <1>7, <1>9 DEF CoordinatorRestart
  <1>10. ASSUME NEW t \in Shards, ShardStops(t) PROVE LetIn(s)' \subseteq LetIn(s)
    BY <1>2, <1>7, <1>10 DEF ShardStops
  <1> QED BY <1>3, <1>4, <1>5, <1>6, <1>8, <1>9, <1>10 DEF Next

\* A sealed shard stores nothing but what its guard had let in before
\* (ProxyPost, ShardGuard), as long as no shard stops.
THEOREM Drains == Spec => SealedDrains
  <1>1. ASSUME IInv, [Next]_vars
        PROVE  [\A s \in Shards : state[s] = "sealed" /\ stops = 0 => LetIn(s)' \subseteq LetIn(s)]_vars
    BY <1>1, Drained
  <1> QED BY <1>1, Invariant, PTL DEF Spec, SealedDrains

-----------------------------------------------------------------------------
(* The global index.                                                       *)

\* The package l of s, which its shard has.
Has(s, l) == s \in Shards /\ Old(s) /\ l \in 1 .. packages[s]

Acked == [id : Nat, shard : Shards, local : Nat]

Indexed ==
    /\ \A id \in index : \E s \in Shards, l \in Nat : id = Encode(s, l) /\ Has(s, l)
    /\ \A a \in acked : a \in Acked /\ a.id = Encode(a.shard, a.local) /\ a.id \in index /\ Has(a.shard, a.local)

\* Who writes the index, and who a number of packages.
LEMMA Writers ==
    ASSUME NEW p \in Procs, Step(p)
    PROVE  \/ UNCHANGED <<index, acked, packages>>
           \/ Store(p) /\ UNCHANGED <<index, acked>>
           \/ InsertGlobalPackage(p) /\ UNCHANGED packages
  <1>1. CheckSeal(p) => UNCHANGED <<index, acked, packages>>
    BY DEF CheckSeal, shardVars
  <1>2. FetchStats(p) => UNCHANGED <<index, acked, packages>>
    BY DEF FetchStats, shardVars
  <1>3. SetActive(p) => UNCHANGED <<index, acked, packages>>
    BY DEF SetActive, shardVars
  <1>4. Rotate(p) => UNCHANGED <<index, acked, packages>>
    BY DEF Rotate, shardVars
  <1>5. PromoteBegin(p) => UNCHANGED <<index, acked, packages>>
    BY DEF PromoteBegin, shardVars
  <1>6. Probe(p) => UNCHANGED <<index, acked, packages>>
    BY DEF Probe, shardVars
  <1>7. SealBegin(p) => UNCHANGED <<index, acked, packages>>
    BY DEF SealBegin, shardVars
  <1>8. SealRemote(p) => UNCHANGED <<index, acked, packages>>
    BY DEF SealRemote, shardVars
  <1>9. Commit(p) => UNCHANGED <<index, acked, packages>>
    BY DEF Commit, shardVars
  <1>10. SealCommit(p) => UNCHANGED <<index, acked, packages>>
    BY DEF SealCommit, shardVars
  <1>11. Ensure(p) => UNCHANGED <<index, acked, packages>>
    BY DEF Ensure, shardVars
  <1>12. EnsureProbe(p) => UNCHANGED <<index, acked, packages>>
    BY DEF EnsureProbe, shardVars
  <1>13. EnsurePromote(p) => UNCHANGED <<index, acked, packages>>
    BY DEF EnsurePromote, shardVars
  <1>14. Register(p) => UNCHANGED <<index, acked, packages>>
    BY DEF Register, shardVars
  <1>15. Respond(p) => UNCHANGED <<index, acked, packages>>
    BY DEF Respond, shardVars
  <1>16. Post(p) => UNCHANGED <<index, acked, packages>>
    BY DEF Post, shardVars
  <1>17. Forward(p) => UNCHANGED <<index, acked, packages>>
    BY DEF Forward, shardVars
  <1>18. Store(p) => UNCHANGED <<index, acked>>
    BY DEF Store
  <1>19. InsertGlobalPackage(p) => UNCHANGED packages
    BY DEF InsertGlobalPackage, shardVars
  <1> QED BY <1>1, <1>2, <1>3, <1>4, <1>5, <1>6, <1>7, <1>8, <1>9, <1>10, <1>11, <1>12, <1>13, <1>14, <1>15, <1>16, <1>17, <1>18, <1>19 DEF Step

LEMMA HasStays ==
    ASSUME IInv, Evolves, NEW s, NEW l, Has(s, l),
           UNCHANGED packages \/ (\E p \in Procs : Store(p))
    PROVE  Has(s, l)'
  <1>1. s \in Shards /\ l \in 1 .. packages[s] /\ packages \in [Shards -> Nat]
    BY DEF Has, IInv, Typed
  <1>2. Old(s)'
    BY OldStays DEF Has
  <1>3. CASE UNCHANGED packages
    BY <1>1, <1>2, <1>3 DEF Has
  <1>4. ASSUME NEW p \in Procs, Store(p) PROVE Has(s, l)'
    <2>1. packages'[s] \in {packages[s], packages[s] + 1}
      BY <1>1, <1>4 DEF Store
    <2>2. l \in 1 .. packages'[s]
      BY <1>1, <2>1, SMTT(30)
    <2> QED BY <1>1, <1>2, <2>2 DEF Has
  <1> QED BY <1>3, <1>4

\* The packages of the index stay where they are.
LEMMA IndexStays ==
    ASSUME IInv, Evolves, Indexed, UNCHANGED <<index, acked>>,
           UNCHANGED packages \/ (\E p \in Procs : Store(p))
    PROVE  Indexed'
  <1>1. ASSUME NEW s, NEW l, Has(s, l) PROVE Has(s, l)'
    BY <1>1, HasStays
  <1>2. \A id \in index' : \E s \in Shards, l \in Nat : id = Encode(s, l) /\ Has(s, l)'
    BY <1>1 DEF Indexed
  <1>3. ASSUME NEW a \in acked'
        PROVE  a \in Acked /\ a.id = Encode(a.shard, a.local) /\ a.id \in index' /\ Has(a.shard, a.local)'
    BY <1>1, <1>3 DEF Indexed
  <1> QED BY <1>2, <1>3 DEF Indexed

\* Encode gives a number.
LEMMA EncodeType == ASSUME NEW s \in Nat, NEW l \in Nat PROVE Encode(s, l) \in Nat
  <1>1. s % ShardIds \in Nat /\ l % LocalIds \in Nat /\ LocalIds \in Nat
    BY GlobalIdsAssumption, SMTT(30)
  <1>2. \A x, y, z \in Nat : x * y + z \in Nat
    BY SMTT(30)
  <1> QED BY <1>1, <1>2 DEF Encode

LEMMA InsertIndexes ==
    ASSUME IInv, Indexed, NEW p \in Procs, InsertGlobalPackage(p)
    PROVE  Indexed'
  <1>1. /\ proc[p].pc = "index" /\ Knows(proc[p]) /\ proc[p] \in Proc
        /\ UNCHANGED <<state, packages>> /\ packages \in [Shards -> Nat]
        /\ index' = index \cup {Package(p).id} /\ acked' = acked \cup {Package(p)}
    BY DEF IInv, Typed, InsertGlobalPackage, At, shardVars
  <1>2. PICK s \in Shards, l \in Nat : s = proc[p].active /\ l = proc[p].local /\ Has(s, l)
    BY <1>1 DEF Knows, Has, Proc
  <1>3. PICK a : a = [id |-> Encode(s, l), shard |-> s, local |-> l]
    OBVIOUS
  <1>4. Package(p) = a
    BY <1>2, <1>3 DEF Package
  <1>5. a \in Acked /\ a.id = Encode(s, l) /\ a.shard = s /\ a.local = l
    <2>1. Encode(s, l) \in Nat
      BY ShardNumbers, EncodeType
    <2> QED BY <1>3, <2>1 DEF Acked
  <1>6. \A t, m : Has(t, m) => Has(t, m)'
    BY <1>1 DEF Has, Old
  <1>7. index' = index \cup {a.id} /\ acked' = acked \cup {a}
    BY <1>1, <1>4
  <1>8. \A id \in index' : \E t \in Shards, m \in Nat : id = Encode(t, m) /\ Has(t, m)'
    BY <1>2, <1>5, <1>6, <1>7 DEF Indexed
  <1>9. ASSUME NEW b \in acked'
        PROVE  b \in Acked /\ b.id = Encode(b.shard, b.local) /\ b.id \in index' /\ Has(b.shard, b.local)'
    BY <1>2, <1>5, <1>6, <1>7, <1>9 DEF Indexed
  <1> QED BY <1>8, <1>9 DEF Indexed

LEMMA IndexInvariant == Spec => []Indexed
  <1>1. Init => Indexed
    BY DEF Init, Indexed
  <1>2. ASSUME IInv, Indexed, [Next]_vars PROVE Indexed'
    <2>1. Evolves
      BY <1>2, Inductive
    <2>2. CASE UNCHANGED <<index, acked, packages>>
      BY <1>2, <2>1, <2>2, IndexStays
    <2>3. ASSUME NEW p \in Procs, Step(p) PROVE Indexed'
      BY <1>2, <2>1, <2>3, Writers, IndexStays, InsertIndexes
    <2>4. UNCHANGED vars => UNCHANGED <<index, acked, packages>>
      BY DEF vars
    <2>5. \A p \in Procs : Begin(p) \/ OpFails(p) => UNCHANGED <<index, acked, packages>>
      BY DEF Begin, OpFails, shardVars
    <2>6. CoordinatorRestart => UNCHANGED <<index, acked, packages>>
      BY DEF CoordinatorRestart, shardVars
    <2>7. \A s \in Shards : ShardStops(s) => UNCHANGED <<index, acked, packages>>
      BY DEF ShardStops
    <2> QED BY <1>2, <2>2, <2>3, <2>4, <2>5, <2>6, <2>7 DEF Next
  <1> QED BY <1>1, <1>2, Invariant, PTL DEF Spec

\* The types of the variables.
THEOREM Types == Spec => []TypeOK
  <1>1. ASSUME IInv, Indexed PROVE TypeOK
    <2>1. index \subseteq Nat
      BY <1>1, ShardNumbers, EncodeType DEF Indexed
    <2>2. acked \subseteq [id : Nat, shard : Shards, local : Nat]
      BY <1>1 DEF Indexed, Acked
    <2> QED BY <1>1, <2>1, <2>2 DEF IInv, Typed, TypeOK, Proc
  <1> QED BY <1>1, Invariant, IndexInvariant, PTL

\* The ids that the shards and their packages have so far fit into a global id.
IdsFit == (\A s \in Shards : s < ShardIds) /\ \A s \in Shards : packages[s] < LocalIds

\* As long as the ids fit, a package that was answered is found again through its
\* global id, on the shard that has it (ProxyPost, ProxyGet, Encode, Decode).
THEOREM Routed == Spec => [](IdsFit => AckedFound)
  <1>1. ASSUME IInv, Indexed, IdsFit PROVE AckedFound
    <2>1. ASSUME NEW s \in Shards, NEW l \in Nat, Has(s, l)
          PROVE  ProxyGet(Encode(s, l)) = {[shard |-> s, local |-> l]}
      <3>1. s \in Nat /\ packages[s] \in Nat
        BY <1>1, ShardNumbers DEF IInv, Typed
      <3>2. s \in 0 .. ShardIds - 1 /\ l \in 0 .. LocalIds - 1
        BY <1>1, <2>1, <3>1, GlobalIdsAssumption, SMTT(30) DEF IdsFit, Has
      <3>3. Decode(Encode(s, l)) = [shard |-> s, local |-> l]
        BY <3>2, RoundTrip
      <3>4. state[s] # "none"
        BY <2>1 DEF Has, Old
      <3> QED BY <3>3, <3>4, SMTT(30) DEF ProxyGet
    <2>2. ASSUME NEW a \in acked
          PROVE  a.id \in index /\ ProxyGet(a.id) = {[shard |-> a.shard, local |-> a.local]}
      BY <1>1, <2>1, <2>2 DEF Indexed, Acked
    <2>3. ASSUME NEW id \in index
          PROVE  /\ ProxyGet(id) # {}
                 /\ \A d \in ProxyGet(id) : d.local \in 1 .. packages[d.shard]
      <3>1. PICK s \in Shards, l \in Nat : id = Encode(s, l) /\ Has(s, l)
        BY <1>1 DEF Indexed
      <3>2. ProxyGet(id) = {[shard |-> s, local |-> l]}
        BY <2>1, <3>1
      <3> QED BY <3>1, <3>2, SMTT(30) DEF Has
    <2> QED BY <2>2, <2>3 DEF AckedFound
  <1> QED BY <1>1, Invariant, IndexInvariant, PTL

=============================================================================
