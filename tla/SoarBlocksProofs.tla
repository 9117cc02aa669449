--------------------------- MODULE SoarBlocksProofs ---------------------------
(* Theorems about SoarBlocks, for every set of addresses and tasks, every cap  *)
(* and every bound.                                                            *)
EXTENDS SoarBlocks, FiniteSetTheorems, SequenceTheorems, TLAPS

-----------------------------------------------------------------------------
(* Type correctness *)

LEMMA InitTypeOK == Init => TypeOK
BY ConstantsAssumption
   DEF Init, TypeOK, Idle, IdleSweep, HandlerState, SweepState, UnblockerState,
       AdminState, ReloaderState, Ids

\* What an UNCHANGED of a group of variables says.
LEMMA Groups ==
    /\ UNCHANGED persistent <=> UNCHANGED <<soar_block_rules, acl_rules, pending_unblock, manual>>
    /\ UNCHANGED tasks <=> UNCHANGED <<handler, sweep, unblocker, admin, reloader>>
    /\ UNCHANGED budget <=> UNCHANGED <<dbFaults, dpFaults, crashes>>
BY DEF persistent, tasks, budget

\* Appending an element, and replacing elements one for one, keep a sequence a
\* sequence over its set; appending keeps the ids already given out.
LEMMA AppendSeq ==
    ASSUME NEW S, NEW s \in Seq(S), NEW e \in S
    PROVE  /\ Append(s, e) \in Seq(S)
           /\ DOMAIN Append(s, e) = DOMAIN s \cup {Len(s) + 1}
           /\ Append(s, e)[Len(s) + 1] = e
           /\ \A i \in DOMAIN s : Append(s, e)[i] = s[i]
           /\ Len(s) \in Nat /\ Len(s) + 1 \notin DOMAIN s
OBVIOUS

LEMMA MapSeq ==
    ASSUME NEW S, NEW s \in Seq(S), NEW t, DOMAIN t = DOMAIN s,
           t = [i \in DOMAIN t |-> t[i]], \A i \in DOMAIN s : t[i] \in S
    PROVE  t \in Seq(S)
<1>1. Len(s) \in Nat /\ DOMAIN t = 1 .. Len(s)
  OBVIOUS
<1> QED BY <1>1

\* The two updates of a block row, field by field.
LEMMA EndedRow ==
    ASSUME NEW r \in BlockRow
    PROVE  /\ [r EXCEPT !.unblocked = TRUE] \in BlockRow
           /\ [r EXCEPT !.unblocked = TRUE].unblocked = TRUE
           /\ [r EXCEPT !.unblocked = TRUE].ip = r.ip
           /\ [r EXCEPT !.unblocked = TRUE].expires = r.expires
           /\ [r EXCEPT !.unblocked = TRUE].created_acl_rule = r.created_acl_rule
           /\ [r EXCEPT !.unblocked = TRUE].preserve_acl_on_unblock = r.preserve_acl_on_unblock
BY DEF BlockRow

LEMMA PreservedRow ==
    ASSUME NEW r \in BlockRow
    PROVE  /\ [r EXCEPT !.preserve_acl_on_unblock = TRUE] \in BlockRow
           /\ [r EXCEPT !.preserve_acl_on_unblock = TRUE].unblocked = r.unblocked
           /\ [r EXCEPT !.preserve_acl_on_unblock = TRUE].ip = r.ip
           /\ [r EXCEPT !.preserve_acl_on_unblock = TRUE].expires = r.expires
           /\ [r EXCEPT !.preserve_acl_on_unblock = TRUE].created_acl_rule = r.created_acl_rule
           /\ [r EXCEPT !.preserve_acl_on_unblock = TRUE].preserve_acl_on_unblock = TRUE
BY DEF BlockRow

\* Ending block id (mark_soar_block_unblocked, and the UPDATE of
\* commit_soar_unblock_to_db) changes one flag of one row.
LEMMA EndBlock ==
    ASSUME soar_block_rules \in Seq(BlockRow), NEW id \in Ids,
           soar_block_rules' = [soar_block_rules EXCEPT ![id].unblocked = TRUE]
    PROVE  /\ soar_block_rules' \in Seq(BlockRow)
           /\ Ids' = Ids
           /\ \A i \in Ids \ {id} : soar_block_rules'[i] = soar_block_rules[i]
           /\ soar_block_rules'[id].unblocked = TRUE
           /\ soar_block_rules'[id].ip = soar_block_rules[id].ip
           /\ soar_block_rules'[id].expires = soar_block_rules[id].expires
           /\ soar_block_rules'[id].created_acl_rule = soar_block_rules[id].created_acl_rule
           /\ soar_block_rules'[id].preserve_acl_on_unblock =
                 soar_block_rules[id].preserve_acl_on_unblock
<1>1. soar_block_rules[id] \in BlockRow
  BY DEF Ids
<1> DEFINE q == [soar_block_rules[id] EXCEPT !.unblocked = TRUE]
<1>2. q \in BlockRow
  BY <1>1, EndedRow
<1>3. soar_block_rules' = [soar_block_rules EXCEPT ![id] = q]
  OBVIOUS
<1>4. /\ q.unblocked = TRUE /\ q.ip = soar_block_rules[id].ip
      /\ q.expires = soar_block_rules[id].expires
      /\ q.created_acl_rule = soar_block_rules[id].created_acl_rule
      /\ q.preserve_acl_on_unblock = soar_block_rules[id].preserve_acl_on_unblock
  BY <1>1, EndedRow
<1> HIDE DEF q
<1>5. /\ Ids' = Ids
      /\ soar_block_rules' = [i \in Ids |-> soar_block_rules'[i]]
      /\ soar_block_rules'[id] = q
      /\ \A i \in Ids \ {id} : soar_block_rules'[i] = soar_block_rules[i]
  BY <1>3 DEF Ids
<1>6. ASSUME NEW i \in Ids  PROVE soar_block_rules'[i] \in BlockRow
  <2>1. soar_block_rules[i] \in BlockRow
    BY DEF Ids
  <2> QED BY <2>1, <1>2, <1>5
<1>7. soar_block_rules' \in Seq(BlockRow)
  BY <1>5, <1>6, MapSeq DEF Ids
<1> QED BY <1>4, <1>5, <1>7

\* Only finitely many blocks were ever made.
LEMMA ActiveBlocksFinite ==
    ASSUME soar_block_rules \in Seq(BlockRow)
    PROVE  /\ IsFiniteSet(Ids) /\ IsFiniteSet(OpenBlocks) /\ IsFiniteSet(ActiveBlocks)
<1>1. Len(soar_block_rules) \in Nat /\ Ids = 1 .. Len(soar_block_rules)
  BY DEF Ids
<1>2. IsFiniteSet(Ids)
  BY <1>1, FS_Interval
<1> QED BY <1>2, FS_Subset DEF OpenBlocks, ActiveBlocks

\* The counter never wraps below zero.
LEMMA DecrementNat == \A n \in Nat : Decrement(n) \in Nat
BY DEF Decrement

\* A row appended to pending_unblock.
LEMMA QueueTypeOK ==
    ASSUME pending_unblock \in Seq(PendingRow), NEW ip \in IPs, QueuePendingUnblock(ip)
    PROVE  pending_unblock' \in Seq(PendingRow)
BY AppendSeq DEF QueuePendingUnblock, PendingRow

LEMMA HandleTypeOK ==
    ASSUME TypeOK, NEW h \in Handlers, Handle(h)
    PROVE  TypeOK'
<1> USE ConstantsAssumption DEF TypeOK, HandlerState, Ids, persistent, budget, Idle
<1>1. ASSUME NEW ip \in IPs, NEW ttl \in TTLs, Reserve(h, ip, ttl)  PROVE TypeOK'
  BY <1>1 DEF Reserve
<1>2. CASE BlockOk(h)
  <2>0. handler[h] \in [pc: {"block"}, ip: IPs, ttl: TTLs]
    BY <1>2 DEF BlockOk
  <2>1. handler[h].ip \in IPs /\ handler[h].ttl \in Nat
    BY <2>0
  <2>2. handler' \in [Handlers -> HandlerState]
    BY <1>2, <2>1 DEF BlockOk
  <2> QED BY <1>2, <2>1, <2>2 DEF BlockOk
<1>3. CASE BlockErr(h)
  BY <1>3 DEF BlockErr, DpFails, Decrement
<1>4. CASE CommitOk(h)
  <2>1. handler[h].ip \in IPs /\ handler[h].expires \in Nat
    BY <1>4 DEF CommitOk
  <2>2. CreatesAclRule(handler[h].ip) \in BOOLEAN
    BY DEF CreatesAclRule
  <2>3. /\ soar_block_rules' \in Seq(BlockRow)
        /\ Ids \subseteq Ids'
    BY <1>4, <2>1, <2>2, AppendSeq DEF CommitOk, CommitSoarBlock, BlockRow
  <2>4. handler' \in [Handlers -> HandlerState] /\ acl_rules' \subseteq IPs
    BY <1>4, <2>1 DEF CommitOk, CommitSoarBlock
  <2> QED BY <1>4, <2>3, <2>4 DEF CommitOk
<1>5. CASE CommitErr(h)
  BY <1>5 DEF CommitErr, DbFails
<1>6. CASE RollbackOk(h)
  BY <1>6 DEF RollbackOk, UnblockIpOk, Decrement
<1>7. CASE RollbackErr(h)
  BY <1>7 DEF RollbackErr, UnblockIpErr, DpFails
<1>8. CASE RollbackQueue(h)
  <2>1. handler[h].ip \in IPs
    BY <1>8 DEF RollbackQueue
  <2>2. pending_unblock' \in Seq(PendingRow)
    BY <1>8, <2>1, QueueTypeOK DEF RollbackQueue
  <2>3. dbFaults' \in Nat /\ dpFaults' \in Nat /\ crashes' \in Nat
    BY <1>8 DEF RollbackQueue, DbFails
  <2> QED BY <1>8, <2>2, <2>3 DEF RollbackQueue, Decrement
<1> QED BY <1>1, <1>2, <1>3, <1>4, <1>5, <1>6, <1>7, <1>8 DEF Handle

LEMMA SweepTypeOK ==
    ASSUME TypeOK, Sweep
    PROVE  TypeOK'
<1> USE ConstantsAssumption DEF TypeOK, SweepState, Ids, persistent, budget, IdleSweep
<1>0. ASSUME NEW id \in Ids
      PROVE  soar_block_rules[id] \in BlockRow /\ soar_block_rules[id].ip \in IPs
  <2>1. soar_block_rules[id] \in BlockRow
    OBVIOUS
  <2> QED BY <2>1 DEF BlockRow
<1>1. CASE SweepList
  BY <1>1 DEF SweepList, ExpiredBlocks
<1>2. ASSUME NEW id \in Ids, SweepCheck(id)  PROVE TypeOK'
  BY <1>2 DEF SweepCheck
<1>3. CASE SweepMark
  <2>1. soar_block_rules' \in Seq(BlockRow) /\ Ids' = Ids
    BY <1>3, EndBlock DEF SweepMark
  <2> QED BY <1>3, <2>1 DEF SweepMark
<1>4. CASE SweepCommit
  <2>1. /\ soar_block_rules' \in Seq(BlockRow) /\ Ids' = Ids
        /\ acl_rules' \subseteq IPs
    BY <1>4, EndBlock DEF SweepCommit, CommitSoarUnblock
  <2> QED BY <1>4, <2>1 DEF SweepCommit
<1>5. CASE SweepRelease
  <2>1. /\ sweep'.queue = sweep.queue /\ sweep'.cur = 0
        /\ sweep'.committed = sweep.committed /\ sweep'.failed = sweep.failed
        /\ sweep'.pc \in {"check", "unblock"}
        /\ sweep' \in SweepState
    BY <1>5 DEF SweepRelease
  <2>2. /\ active_block_count' \in Nat
        /\ UNCHANGED <<now, up, soar_block_rules, acl_rules, pending_unblock, manual,
              src_blacklist, handler, unblocker, admin, reloader, dbFaults,
              dpFaults, crashes>>
    BY <1>5, DecrementNat DEF SweepRelease
  <2> QED BY <2>1, <2>2
<1>6. CASE SweepAbort
  BY <1>6 DEF SweepAbort, DbFails
<1>7. ASSUME NEW id \in Ids, SweepUnblockOk(id)  PROVE TypeOK'
  BY <1>7 DEF SweepUnblockOk, UnblockIpOk
<1>8. ASSUME NEW id \in Ids, SweepUnblockErr(id)  PROVE TypeOK'
  <2>1. /\ sweep'.queue = sweep.queue /\ sweep'.cur = sweep.cur
        /\ sweep'.committed \subseteq sweep.committed
        /\ sweep'.failed = sweep.failed \cup {id}
        /\ sweep'.pc = "unblock" /\ sweep' \in SweepState
    BY <1>8 DEF SweepUnblockErr
  <2>2. \/ dpFaults' = dpFaults + 1 /\ UNCHANGED <<dbFaults, crashes>>
        \/ UNCHANGED <<dbFaults, dpFaults, crashes>>
    BY <1>8 DEF SweepUnblockErr, UnblockIpErr, DpFails
  <2>3. dbFaults' \in Nat /\ dpFaults' \in Nat /\ crashes' \in Nat
    BY <2>2
  <2>4. UNCHANGED <<now, up, soar_block_rules, acl_rules, pending_unblock, manual,
              src_blacklist, active_block_count, handler, unblocker, admin, reloader>>
    BY <1>8 DEF SweepUnblockErr, UnblockIpErr
  <2> QED BY <2>1, <2>3, <2>4
<1>9. ASSUME NEW id \in Ids, SweepQueue(id)  PROVE TypeOK'
  <2>1. pending_unblock' \in Seq(PendingRow)
    BY <1>9, <1>0, QueueTypeOK DEF SweepQueue
  <2> QED BY <1>9, <2>1 DEF SweepQueue
<1>10. CASE SweepQueueErr
  BY <1>10 DEF SweepQueueErr, DbFails
<1>11. CASE SweepEnd
  BY <1>11 DEF SweepEnd
<1> QED BY <1>1, <1>2, <1>3, <1>4, <1>5, <1>6, <1>7, <1>8, <1>9, <1>10, <1>11 DEF Sweep

LEMMA ManualUnblockTypeOK ==
    ASSUME TypeOK, NEW u \in Unblockers, ManualUnblock(u)
    PROVE  TypeOK'
<1> USE ConstantsAssumption DEF TypeOK, UnblockerState, Ids, persistent, budget, Idle
<1>0. ASSUME NEW id \in Ids
      PROVE  soar_block_rules[id] \in BlockRow /\ soar_block_rules[id].ip \in IPs
  <2>1. soar_block_rules[id] \in BlockRow
    OBVIOUS
  <2> QED BY <2>1 DEF BlockRow
<1>1. ASSUME NEW id \in Ids, UnblockFind(u, id)  PROVE TypeOK'
  BY <1>1 DEF UnblockFind
<1>2. CASE UnblockCheck(u)
  <2>1. HasManualAclRule(soar_block_rules[unblocker[u].id].ip) \in BOOLEAN
    BY DEF HasManualAclRule
  <2>2. unblocker[u].id \in Ids /\ unblocker[u].id \in Nat
    BY <1>2 DEF UnblockCheck
  <2> QED BY <1>2, <2>1, <2>2 DEF UnblockCheck
<1>3. CASE UnblockCommit(u)
  <2>1. unblocker[u].id \in Ids /\ unblocker[u].has_manual_rule \in BOOLEAN
    BY <1>3 DEF UnblockCommit
  <2>2. /\ soar_block_rules' \in Seq(BlockRow) /\ Ids' = Ids
        /\ acl_rules' \subseteq IPs
    BY <1>3, <2>1, EndBlock DEF UnblockCommit, CommitSoarUnblock
  <2>3. /\ unblocker' \in [Unblockers -> UnblockerState]
        /\ \A v \in Unblockers : unblocker'[v].pc # "idle" => unblocker'[v].id \in Ids
    BY <1>3, <2>1 DEF UnblockCommit
  <2> QED BY <1>3, <2>2, <2>3 DEF UnblockCommit
<1>4. CASE UnblockRelease(u)
  <2>1. unblocker[u].id \in Ids
    BY <1>4 DEF UnblockRelease
  <2>2. /\ unblocker' \in [Unblockers -> UnblockerState]
        /\ \A v \in Unblockers : unblocker'[v].pc # "idle" => unblocker'[v].id \in Ids
    <3>1. CASE unblocker' = [unblocker EXCEPT ![u] = Idle]
      BY <3>1
    <3>2. CASE unblocker' = [unblocker EXCEPT ![u] = [pc |-> "queue", id |-> @.id]]
      BY <3>2, <2>1
    <3> QED BY <1>4, <3>1, <3>2 DEF UnblockRelease
  <2>3. /\ src_blacklist' \subseteq IPs
        /\ dbFaults' \in Nat /\ dpFaults' \in Nat /\ crashes' \in Nat
    BY <1>4 DEF UnblockRelease, UnblockIpOk, UnblockIpErr, DpFails
  <2> QED BY <1>4, <2>2, <2>3, DecrementNat DEF UnblockRelease
<1>5. CASE UnblockQueue(u)
  <2>1. unblocker[u].id \in Ids
    BY <1>5 DEF UnblockQueue
  <2>2. pending_unblock' \in Seq(PendingRow)
    BY <1>5, <1>0, <2>1, QueueTypeOK DEF UnblockQueue
  <2> QED BY <1>5, <2>2 DEF UnblockQueue
<1>6. CASE UnblockErr(u)
  BY <1>6 DEF UnblockErr, DbFails
<1> QED BY <1>1, <1>2, <1>3, <1>4, <1>5, <1>6 DEF ManualUnblock

LEMMA EditAclTypeOK ==
    ASSUME TypeOK, NEW a \in Admins, EditAcl(a)
    PROVE  TypeOK'
<1> USE ConstantsAssumption DEF TypeOK, AdminState, Ids, persistent, budget, Idle
<1>1. ASSUME NEW ip \in IPs, AddToMap(a, ip)  PROVE TypeOK'
  BY <1>1 DEF AddToMap
<1>2. ASSUME NEW ip \in IPs, RemoveFromMap(a, ip)  PROVE TypeOK'
  BY <1>2 DEF RemoveFromMap, UnblockIpOk
<1>3. CASE InsertAclRule(a)
  <2>1. admin[a].ip \in IPs
    BY <1>3 DEF InsertAclRule
  <2>2. \A i \in Ids : [soar_block_rules[i] EXCEPT !.preserve_acl_on_unblock = TRUE] \in BlockRow
    <3>1. \A i \in Ids : soar_block_rules[i] \in BlockRow
      OBVIOUS
    <3> QED BY <3>1, PreservedRow
  <2> DEFINE P(i) == [soar_block_rules[i] EXCEPT !.preserve_acl_on_unblock = TRUE]
             C(i) == soar_block_rules[i].ip = admin[a].ip /\ Open(i)
  <2>a. soar_block_rules' = [i \in Ids |-> IF C(i) THEN P(i) ELSE soar_block_rules[i]]
    BY <1>3 DEF InsertAclRule
  <2>b. \A i \in Ids : P(i) \in BlockRow
    BY <2>2
  <2> HIDE DEF P, C
  <2>3. soar_block_rules' \in Seq(BlockRow) /\ Ids' = Ids
    <3>1. /\ DOMAIN soar_block_rules' = DOMAIN soar_block_rules
          /\ soar_block_rules' = [i \in Ids |-> soar_block_rules'[i]]
          /\ \A i \in Ids : soar_block_rules'[i] \in BlockRow
      BY <2>a, <2>b
    <3> QED BY <3>1, MapSeq
  <2>4. admin' \in [Admins -> AdminState] /\ acl_rules' \subseteq IPs /\ manual' \subseteq IPs
    BY <1>3, <2>1 DEF InsertAclRule
  <2> QED BY <1>3, <2>3, <2>4 DEF InsertAclRule
<1>4. CASE InsertAclErr(a)
  BY <1>4 DEF InsertAclErr, DbFails
<1>5. CASE DeleteAclRule(a)
  BY <1>5 DEF DeleteAclRule
<1>6. CASE DeleteAclErr(a)
  BY <1>6 DEF DeleteAclErr, DbFails
<1> QED BY <1>1, <1>2, <1>3, <1>4, <1>5, <1>6 DEF EditAcl

LEMMA ReloadTypeOK ==
    ASSUME TypeOK, NEW r \in Reloaders, Reload(r)
    PROVE  TypeOK'
<1> USE DEF TypeOK, ReloaderState, Ids, persistent, budget, Idle
<1>1. Cardinality(ActiveBlocks) \in Nat
  BY ActiveBlocksFinite, FS_CardinalityType
<1>2. CASE ReloadCount(r)
  BY <1>1, <1>2 DEF ReloadCount
<1>3. CASE ReloadStore(r)
  BY <1>3 DEF ReloadStore
<1> QED BY <1>2, <1>3 DEF Reload

LEMMA CrashTypeOK ==
    ASSUME TypeOK, Crash
    PROVE  TypeOK'
<1>1. /\ handler' \in [Handlers -> HandlerState]
      /\ unblocker' \in [Unblockers -> UnblockerState]
      /\ admin' \in [Admins -> AdminState]
      /\ reloader' \in [Reloaders -> ReloaderState]
      /\ \A u \in Unblockers : unblocker'[u].pc = "idle"
  BY DEF Crash, Idle, HandlerState, UnblockerState, AdminState, ReloaderState
<1>2. /\ sweep' \in SweepState /\ sweep'.pc = "idle"
      /\ sweep'.queue = {} /\ sweep'.committed = {} /\ sweep'.failed = {}
  BY DEF Crash, IdleSweep, SweepState
<1>3. /\ UNCHANGED <<now, soar_block_rules, acl_rules, pending_unblock, manual,
                     dbFaults, dpFaults>>
  BY DEF Crash, persistent
<1>4. /\ crashes' \in Nat
      /\ src_blacklist' \subseteq IPs /\ active_block_count' \in Nat
  <2>1. crashes \in Nat
    BY DEF TypeOK
  <2> QED BY <2>1 DEF Crash
<1>5. up' \in BOOLEAN
  BY DEF Crash
<1> QED BY <1>1, <1>2, <1>3, <1>4, <1>5 DEF TypeOK, Ids

LEMMA BootTypeOK ==
    ASSUME TypeOK, Boot
    PROVE  TypeOK'
<1> USE DEF TypeOK, Ids, persistent, tasks, budget
<1>1. Cardinality(ActiveBlocks) \in Nat
  BY ActiveBlocksFinite, FS_CardinalityType
<1>2. ActiveIPs \subseteq IPs
  <2>1. \A i \in Ids : soar_block_rules[i] \in BlockRow
    OBVIOUS
  <2> QED BY <2>1 DEF ActiveIPs, ActiveBlocks, BlockRow
<1>3. ASSUME NEW r \in PendingRow
      PROVE  /\ [r EXCEPT !.status = "deleted"] \in PendingRow
             /\ [r EXCEPT !.retry_count = @ + 1] \in PendingRow
             /\ [r EXCEPT !.status = "exhausted"] \in PendingRow
  BY DEF PendingRow
<1>4. pending_unblock' \in Seq(PendingRow)
  <2> DEFINE New(k) == IF k \in Recovered(acl_rules)
                       THEN [pending_unblock[k] EXCEPT !.status = "deleted"]
                       ELSE IF k \in Retryable
                       THEN [pending_unblock[k] EXCEPT !.retry_count = @ + 1]
                       ELSE IF k \in Waiting
                       THEN [pending_unblock[k] EXCEPT !.status = "exhausted"]
                       ELSE pending_unblock[k]
  <2>1. pending_unblock' = [k \in DOMAIN pending_unblock |-> New(k)]
    BY DEF Boot, RecoverActiveBlocks, RetryPendingUnblocks
  <2>2. ASSUME NEW k \in DOMAIN pending_unblock  PROVE New(k) \in PendingRow
    <3>1. pending_unblock[k] \in PendingRow
      OBVIOUS
    <3> QED BY <3>1, <1>3
  <2> HIDE DEF New
  <2>3. /\ DOMAIN pending_unblock' = DOMAIN pending_unblock
        /\ pending_unblock' = [k \in DOMAIN pending_unblock' |-> pending_unblock'[k]]
        /\ \A k \in DOMAIN pending_unblock : pending_unblock'[k] \in PendingRow
    BY <2>1, <2>2
  <2> QED BY <2>3, MapSeq
<1>5. src_blacklist' \subseteq IPs
  BY <1>2 DEF Boot, RecoverActiveBlocks
<1> QED BY <1>1, <1>4, <1>5 DEF Boot

\* Type correctness of the whole block life cycle: the counter stays a natural
\* number and every id a task still holds names a row, for every interleaving.
THEOREM TypeCorrect == Spec => []TypeOK
<1>1. Init => TypeOK
  BY InitTypeOK
<1>2. TypeOK /\ [Next]_vars => TypeOK'
  <2> SUFFICES ASSUME TypeOK, [Next]_vars  PROVE TypeOK'
    OBVIOUS
  <2>1. CASE Tick
    <3>1. now' \in Nat
      BY <2>1 DEF Tick, TypeOK
    <3>2. UNCHANGED <<up, persistent, src_blacklist, active_block_count, tasks, budget>>
      BY <2>1 DEF Tick
    <3> QED BY <3>1, <3>2 DEF TypeOK, Ids, persistent, tasks, budget
  <2>2. CASE UNCHANGED vars
    BY <2>2 DEF vars, TypeOK, Ids, persistent, tasks, budget
  <2> QED BY <2>1, <2>2, HandleTypeOK, SweepTypeOK, ManualUnblockTypeOK, EditAclTypeOK,
             ReloadTypeOK, CrashTypeOK, BootTypeOK DEF Next
<1> QED BY <1>1, <1>2, PTL DEF Spec
=============================================================================
