--------------------------- MODULE SoarSafetyProofs ---------------------------
(* Safety of the automatic blocks: who owns an ACL row, when one may go, and    *)
(* the cap.                                                                      *)
EXTENDS SoarBlocksProofs

-----------------------------------------------------------------------------
(* Ownership of ACL rows.  Without manual_unblock requests only the sweep ends  *)
(* blocks, so what it holds in hand is still open, and an open block of an       *)
(* address the operator listed never owns the row.                               *)

OwnershipInv ==
    /\ ManualAclKept
    /\ \A i \in OpenBlocks : soar_block_rules[i].ip \in manual =>
          \/ soar_block_rules[i].preserve_acl_on_unblock
          \/ ~soar_block_rules[i].created_acl_rule
    /\ sweep.queue \subseteq OpenBlocks
    /\ sweep.pc \in {"mark", "commit"} => sweep.cur \in OpenBlocks \ sweep.queue

\* A step that touches neither the rows nor the sweep keeps the invariant.
LEMMA OwnershipFrame ==
    ASSUME OwnershipInv, UNCHANGED <<soar_block_rules, acl_rules, manual, sweep>>
    PROVE  OwnershipInv'
BY DEF OwnershipInv, ManualAclKept, OpenBlocks, Open, Ids

\* A new block of a listed address does not own the row: the row exists, and no
\* active block owns it.
LEMMA CommitOwnership ==
    ASSUME TypeOK, OwnershipInv, NEW h \in Handlers, CommitOk(h)
    PROVE  OwnershipInv'
<1> DEFINE ip == handler[h].ip
           row == [ip |-> ip, expires |-> handler[h].expires, unblocked |-> FALSE,
                   created_acl_rule |-> CreatesAclRule(ip),
                   preserve_acl_on_unblock |-> FALSE]
<1>1. ip \in IPs /\ handler[h].expires \in Nat
  BY DEF CommitOk, TypeOK, HandlerState
<1>2. CreatesAclRule(ip) \in BOOLEAN
  BY DEF CreatesAclRule
<1>3. row \in BlockRow
  BY <1>1, <1>2 DEF BlockRow
<1>4. /\ soar_block_rules \in Seq(BlockRow)
      /\ soar_block_rules' = Append(soar_block_rules, row)
      /\ acl_rules' = acl_rules \cup {ip}
      /\ UNCHANGED <<manual, sweep>>
  BY DEF CommitOk, CommitSoarBlock, TypeOK
<1>5. row.ip \in manual => ~row.created_acl_rule
  <2>1. ip \in manual => ~CreatesAclRule(ip)
    BY DEF OwnershipInv, ManualAclKept, CreatesAclRule, ActiveBlocks, Active, OpenBlocks
  <2> QED BY <2>1
<1> HIDE DEF row
<1>6. /\ Ids' = Ids \cup {Len(soar_block_rules) + 1}
      /\ soar_block_rules'[Len(soar_block_rules) + 1] = row
      /\ \A i \in Ids : soar_block_rules'[i] = soar_block_rules[i]
  BY <1>3, <1>4, AppendSeq DEF Ids
<1>7. OpenBlocks \subseteq OpenBlocks'
  BY <1>6 DEF OpenBlocks, Open
<1>8. \A i \in OpenBlocks' : soar_block_rules'[i].ip \in manual' =>
          \/ soar_block_rules'[i].preserve_acl_on_unblock
          \/ ~soar_block_rules'[i].created_acl_rule
  BY <1>4, <1>5, <1>6 DEF OwnershipInv, OpenBlocks, Open
<1> QED BY <1>4, <1>7, <1>8 DEF OwnershipInv, ManualAclKept

\* Ending block id, open until now and no longer in the queue.
LEMMA EndOwnership ==
    ASSUME TypeOK, OwnershipInv, NEW id \in OpenBlocks \ sweep.queue,
           soar_block_rules' = [soar_block_rules EXCEPT ![id].unblocked = TRUE],
           ManualAclKept', UNCHANGED manual,
           sweep'.queue = sweep.queue, sweep'.pc = "release"
    PROVE  OwnershipInv'
<1>1. id \in Ids
  BY DEF OpenBlocks
<1>2. /\ Ids' = Ids
      /\ \A i \in Ids \ {id} : soar_block_rules'[i] = soar_block_rules[i]
      /\ soar_block_rules'[id].unblocked = TRUE
  BY <1>1, EndBlock DEF TypeOK
<1>3. OpenBlocks' = OpenBlocks \ {id}
  BY <1>1, <1>2 DEF OpenBlocks, Open
<1> QED BY <1>2, <1>3 DEF OwnershipInv, OpenBlocks

LEMMA SweepOwnership ==
    ASSUME TypeOK, OwnershipInv, Sweep
    PROVE  OwnershipInv'
<1> USE DEF persistent
<1>1. CASE SweepList
  BY <1>1 DEF SweepList, ExpiredBlocks, OwnershipInv, ManualAclKept, OpenBlocks, Open, Ids
<1>2. ASSUME NEW id \in Ids, SweepCheck(id)  PROVE OwnershipInv'
  <2>1. /\ sweep'.queue = sweep.queue \ {id} /\ sweep'.cur = id
    BY <1>2 DEF SweepCheck, TypeOK, SweepState
  <2>2. /\ id \in sweep.queue
        /\ UNCHANGED <<soar_block_rules, acl_rules, manual>>
    BY <1>2 DEF SweepCheck
  <2> QED BY <2>1, <2>2 DEF OwnershipInv, ManualAclKept, OpenBlocks, Open, Ids
<1>3. CASE SweepMark
  <2>1. sweep'.queue = sweep.queue /\ sweep'.pc = "release"
    BY <1>3 DEF SweepMark, TypeOK, SweepState
  <2>2. sweep.cur \in OpenBlocks \ sweep.queue
    BY <1>3 DEF SweepMark, OwnershipInv
  <2>3. UNCHANGED <<acl_rules, manual>> /\ ManualAclKept'
    BY <1>3 DEF SweepMark, OwnershipInv, ManualAclKept
  <2> QED BY <1>3, <2>1, <2>2, <2>3, EndOwnership DEF SweepMark
<1>4. CASE SweepCommit
  <2>1. sweep'.queue = sweep.queue /\ sweep'.pc = "release"
    BY <1>4 DEF SweepCommit, TypeOK, SweepState
  <2>2. sweep.cur \in OpenBlocks \ sweep.queue
    BY <1>4 DEF SweepCommit, OwnershipInv
  <2>3. UNCHANGED manual /\ ManualAclKept'
    BY <1>4, <2>2 DEF SweepCommit, CommitSoarUnblock, DeletesAclRule, OwnershipInv, ManualAclKept
  <2> QED BY <1>4, <2>1, <2>2, <2>3, EndOwnership DEF SweepCommit, CommitSoarUnblock
<1>5. CASE SweepRelease
  <2>1. sweep'.queue = sweep.queue /\ sweep'.pc \in {"check", "unblock"}
    BY <1>5 DEF SweepRelease, TypeOK, SweepState
  <2>2. UNCHANGED <<soar_block_rules, acl_rules, manual>>
    BY <1>5 DEF SweepRelease
  <2> QED BY <2>1, <2>2 DEF OwnershipInv, ManualAclKept, OpenBlocks, Open, Ids
<1>6. CASE SweepAbort \/ SweepQueueErr \/ SweepEnd
  <2>1. sweep'.queue = {} /\ sweep'.pc = "idle"
    BY <1>6 DEF SweepAbort, SweepQueueErr, SweepEnd, IdleSweep
  <2>2. UNCHANGED <<soar_block_rules, acl_rules, manual>>
    BY <1>6 DEF SweepAbort, SweepQueueErr, SweepEnd
  <2> QED BY <2>1, <2>2 DEF OwnershipInv, ManualAclKept, OpenBlocks, Open, Ids
<1>7. ASSUME NEW id \in Ids, SweepQueue(id) \/ SweepUnblockOk(id) \/ SweepUnblockErr(id)
      PROVE  OwnershipInv'
  <2>1. sweep'.queue = sweep.queue /\ sweep'.pc = "unblock"
    BY <1>7 DEF SweepQueue, SweepUnblockOk, SweepUnblockErr, TypeOK, SweepState
  <2>2. UNCHANGED <<soar_block_rules, acl_rules, manual>>
    BY <1>7 DEF SweepQueue, SweepUnblockOk, SweepUnblockErr
  <2> QED BY <2>1, <2>2 DEF OwnershipInv, ManualAclKept, OpenBlocks, Open, Ids
<1> QED BY <1>1, <1>2, <1>3, <1>4, <1>5, <1>6, <1>7 DEF Sweep

\* The operator's own edits: listing an address marks its open blocks.
LEMMA EditAclOwnership ==
    ASSUME TypeOK, OwnershipInv, NEW a \in Admins, EditAcl(a)
    PROVE  OwnershipInv'
<1> USE DEF persistent
<1>1. ASSUME NEW ip \in IPs, AddToMap(a, ip) \/ RemoveFromMap(a, ip)  PROVE OwnershipInv'
  BY <1>1, OwnershipFrame DEF AddToMap, RemoveFromMap
<1>2. CASE InsertAclErr(a) \/ DeleteAclErr(a)
  BY <1>2, OwnershipFrame DEF InsertAclErr, DeleteAclErr
<1>3. CASE InsertAclRule(a)
  <2> DEFINE P(i) == [soar_block_rules[i] EXCEPT !.preserve_acl_on_unblock = TRUE]
             C(i) == soar_block_rules[i].ip = admin[a].ip /\ Open(i)
  <2>1. soar_block_rules' = [i \in Ids |-> IF C(i) THEN P(i) ELSE soar_block_rules[i]]
    BY <1>3 DEF InsertAclRule
  <2>2. \A i \in Ids : /\ P(i).unblocked = soar_block_rules[i].unblocked
                       /\ P(i).ip = soar_block_rules[i].ip
                       /\ P(i).preserve_acl_on_unblock = TRUE
    BY PreservedRow DEF TypeOK, Ids
  <2>3. \A i \in Ids : C(i) <=> soar_block_rules[i].ip = admin[a].ip /\ Open(i)
    OBVIOUS
  <2> HIDE DEF P, C
  <2>4. Ids' = Ids /\ OpenBlocks' = OpenBlocks
    BY <2>1, <2>2 DEF OpenBlocks, Open, Ids
  <2>5. /\ acl_rules' = acl_rules \cup {admin[a].ip} /\ manual' = manual \cup {admin[a].ip}
        /\ UNCHANGED sweep
    BY <1>3 DEF InsertAclRule
  <2>6. ASSUME NEW i \in OpenBlocks', soar_block_rules'[i].ip \in manual'
        PROVE  \/ soar_block_rules'[i].preserve_acl_on_unblock
               \/ ~soar_block_rules'[i].created_acl_rule
    <3>1. i \in Ids /\ Open(i)
      BY <2>4 DEF OpenBlocks
    <3>2. CASE C(i)
      BY <3>1, <3>2, <2>1, <2>2
    <3>3. CASE ~C(i)
      BY <3>1, <3>3, <2>1, <2>3, <2>4, <2>5, <2>6 DEF OwnershipInv
    <3> QED BY <3>2, <3>3
  <2> QED BY <2>4, <2>5, <2>6 DEF OwnershipInv, ManualAclKept
<1>4. CASE DeleteAclRule(a)
  BY <1>4 DEF DeleteAclRule, OwnershipInv, ManualAclKept, OpenBlocks, Open, Ids
<1> QED BY <1>1, <1>2, <1>3, <1>4 DEF EditAcl

LEMMA OwnershipStep ==
    ASSUME Unblockers = {}, TypeOK, OwnershipInv, [Next]_vars
    PROVE  OwnershipInv'
<1> USE DEF persistent, tasks
<1>1. ASSUME NEW h \in Handlers, Handle(h), ~CommitOk(h)  PROVE OwnershipInv'
  BY <1>1, OwnershipFrame DEF Handle, Reserve, BlockOk, BlockErr, CommitErr, RollbackOk,
     RollbackErr, RollbackQueue
<1>2. ASSUME NEW r \in Reloaders, Reload(r)  PROVE OwnershipInv'
  BY <1>2, OwnershipFrame DEF Reload, ReloadCount, ReloadStore
<1>3. CASE Boot \/ Tick \/ UNCHANGED vars
  BY <1>3, OwnershipFrame DEF Boot, Tick, vars
<1>4. CASE Crash
  BY <1>4 DEF Crash, IdleSweep, OwnershipInv, ManualAclKept, OpenBlocks, Open, Ids
<1> QED BY <1>1, <1>2, <1>3, <1>4, CommitOwnership, SweepOwnership, EditAclOwnership DEF Next

\* A rule the operator listed outlives every automatic block of its address, for
\* any number of addresses, tasks, failures and crashes, as long as blocks end by
\* the TTL sweep (insert_acl_rule, commit_soar_block_to_db and
\* commit_soar_unblock_to_db agree on who owns the row).
THEOREM ManualAclKeptTheorem ==
    ASSUME Unblockers = {}
    PROVE  Spec => []ManualAclKept
<1>1. Init => OwnershipInv
  BY DEF Init, OwnershipInv, ManualAclKept, OpenBlocks, Ids, IdleSweep
<1>2. TypeOK /\ OwnershipInv /\ [Next]_vars => OwnershipInv'
  BY OwnershipStep
<1>3. OwnershipInv => ManualAclKept
  BY DEF OwnershipInv
<1> QED BY <1>1, <1>2, <1>3, TypeCorrect, PTL DEF Spec

-----------------------------------------------------------------------------
(* Rows that go, and the map after a start. *)

\* Committing an unblock deletes the ACL row only when no other active block of
\* the address is left.
LEMMA UnblockOverlap ==
    ASSUME TypeOK, NEW id \in Ids, CommitSoarUnblock(id), UNCHANGED now
    PROVE  \A ip \in acl_rules \ acl_rules' : ip \notin ActiveIPs'
<1>1. /\ Ids' = Ids
      /\ \A i \in Ids \ {id} : soar_block_rules'[i] = soar_block_rules[i]
      /\ soar_block_rules'[id].unblocked = TRUE
  BY EndBlock DEF TypeOK, CommitSoarUnblock
<1>2. ASSUME NEW i \in ActiveBlocks'
      PROVE  i \in ActiveBlocks \ {id} /\ soar_block_rules'[i].ip = soar_block_rules[i].ip
  BY <1>1, <1>2 DEF ActiveBlocks, Active, Open, Expired
<1> QED BY <1>2 DEF CommitSoarUnblock, DeletesAclRule, ActiveIPs

\* commit_soar_unblock_to_db never deletes the ACL row from under an overlapping
\* active block, whichever task ends a block and however the blocks overlap.
THEOREM OverlapTheorem == Spec => OverlapKeepsAcl
<1> DEFINE Keeps == \A ip \in acl_rules \ acl_rules' :
               \/ ip \notin ActiveIPs'
               \/ \E a \in Admins : admin[a].pc = "delete" /\ admin[a].ip = ip
<1>1. TypeOK /\ [Next]_vars => [Keeps]_vars
  <2> SUFFICES ASSUME TypeOK, Next  PROVE Keeps
    OBVIOUS
  <2> USE DEF persistent, tasks
  <2>1. ASSUME NEW h \in Handlers, Handle(h)  PROVE Keeps
    BY <2>1 DEF Handle, Reserve, BlockOk, BlockErr, CommitOk, CommitSoarBlock, CommitErr,
       RollbackOk, RollbackErr, RollbackQueue
  <2>2. CASE SweepCommit
    BY <2>2, UnblockOverlap DEF SweepCommit, TypeOK
  <2>3. CASE Sweep /\ ~SweepCommit
    BY <2>3 DEF Sweep, SweepList, SweepCheck, SweepMark, SweepRelease, SweepAbort,
       SweepUnblockOk, SweepUnblockErr, SweepQueue, SweepQueueErr, SweepEnd
  <2>4. ASSUME NEW u \in Unblockers, UnblockCommit(u)  PROVE Keeps
    BY <2>4, UnblockOverlap DEF UnblockCommit, TypeOK
  <2>5. ASSUME NEW u \in Unblockers, ManualUnblock(u), ~UnblockCommit(u)  PROVE Keeps
    BY <2>5 DEF ManualUnblock, UnblockFind, UnblockCheck, UnblockRelease, UnblockQueue,
       UnblockErr
  <2>6. ASSUME NEW a \in Admins, EditAcl(a)  PROVE Keeps
    BY <2>6 DEF EditAcl, AddToMap, InsertAclRule, InsertAclErr, RemoveFromMap,
       DeleteAclRule, DeleteAclErr
  <2>7. CASE (\E r \in Reloaders : Reload(r)) \/ Crash \/ Boot \/ Tick
    BY <2>7 DEF Reload, ReloadCount, ReloadStore, Crash, Boot, Tick
  <2> QED BY <2>1, <2>2, <2>3, <2>4, <2>5, <2>6, <2>7 DEF Next
<1> QED BY <1>1, TypeCorrect, PTL DEF Spec, OverlapKeepsAcl

-----------------------------------------------------------------------------
(* The cap.  Without manual_unblock requests, reloads and crashes every change   *)
(* of the counter answers to one block.                                          *)

CapInv ==
    /\ up
    /\ CountFollowsBlocks
    /\ active_block_count <= Cap
    /\ sweep.queue \subseteq OpenBlocks
    /\ sweep.pc \in {"mark", "commit"} => sweep.cur \in OpenBlocks \ sweep.queue

\* What the counter is compared with.
LEMMA CapCardinalities ==
    ASSUME IsFiniteSet(Handlers), TypeOK
    PROVE  /\ IsFiniteSet(InFlight) /\ Cardinality(InFlight) \in Nat
           /\ IsFiniteSet(OpenBlocks) /\ Cardinality(OpenBlocks) \in Nat
<1>1. IsFiniteSet(InFlight)
  BY FS_Subset DEF InFlight
<1>2. IsFiniteSet(OpenBlocks)
  BY ActiveBlocksFinite DEF TypeOK
<1> QED BY <1>1, <1>2, FS_CardinalityType

\* Steps that leave blocks, tasks under way and the counter alone.
LEMMA CapFrame ==
    ASSUME CapInv, OpenBlocks' = OpenBlocks, InFlight' = InFlight,
           UNCHANGED <<up, active_block_count>>,
           sweep'.queue \subseteq sweep.queue,
           sweep'.pc = "release" <=> sweep.pc = "release",
           sweep'.pc \in {"mark", "commit"} => sweep'.cur \in OpenBlocks \ sweep'.queue
    PROVE  CapInv'
BY DEF CapInv, CountFollowsBlocks

LEMMA SameBlocks ==
    ASSUME UNCHANGED soar_block_rules
    PROVE  OpenBlocks' = OpenBlocks
BY DEF OpenBlocks, Open, Ids

LEMMA HandleCap ==
    ASSUME IsFiniteSet(Handlers), TypeOK, CapInv, NEW h \in Handlers, Handle(h)
    PROVE  CapInv'
<1> USE DEF persistent
<1> DEFINE n == Cardinality(InFlight)
           m == Cardinality(OpenBlocks)
<1>0. /\ IsFiniteSet(InFlight) /\ n \in Nat
      /\ IsFiniteSet(OpenBlocks) /\ m \in Nat
      /\ active_block_count \in Nat /\ Cap \in Nat
  BY CapCardinalities, ConstantsAssumption DEF TypeOK
<1>1. /\ UNCHANGED <<up, sweep>>
  BY DEF Handle, Reserve, BlockOk, BlockErr, CommitOk, CommitErr, RollbackOk,
     RollbackErr, RollbackQueue
<1>2. ASSUME handler[h].pc # "idle", handler'[h].pc = "idle",
             \A g \in Handlers \ {h} : handler'[g] = handler[g]
      PROVE  Cardinality(InFlight') = n - 1 /\ n >= 1
  <2>1. h \in InFlight /\ InFlight' = InFlight \ {h}
    BY <1>2 DEF InFlight
  <2>2. Cardinality(InFlight \ {h}) = n - 1
    BY <1>0, <2>1, FS_RemoveElement
  <2>3. n # 0
    BY <1>0, <2>1, FS_EmptySet
  <2> QED BY <1>0, <2>1, <2>2, <2>3
<1>3. ASSUME NEW ip \in IPs, NEW ttl \in TTLs, Reserve(h, ip, ttl)  PROVE CapInv'
  <2>1. handler[h].pc = "idle" /\ handler'[h].pc # "idle"
        /\ \A g \in Handlers \ {h} : handler'[g] = handler[g]
    BY <1>3 DEF Reserve, TypeOK
  <2>2. h \notin InFlight /\ InFlight' = InFlight \cup {h}
    BY <2>1 DEF InFlight
  <2>3. Cardinality(InFlight') = n + 1
    BY <1>0, <2>2, FS_AddElement
  <2>4. OpenBlocks' = OpenBlocks
    BY <1>3, SameBlocks DEF Reserve
  <2>5. active_block_count < Cap /\ active_block_count' = active_block_count + 1
    BY <1>3 DEF Reserve
  <2> QED BY <1>0, <1>1, <2>3, <2>4, <2>5 DEF CapInv, CountFollowsBlocks
<1>4. CASE BlockOk(h) \/ CommitErr(h) \/ RollbackErr(h)
  <2>1. handler[h].pc # "idle" /\ handler'[h].pc # "idle"
        /\ \A g \in Handlers \ {h} : handler'[g] = handler[g]
    BY <1>4 DEF BlockOk, CommitErr, RollbackErr, TypeOK
  <2>2. InFlight' = InFlight
    BY <2>1 DEF InFlight
  <2>3. OpenBlocks' = OpenBlocks /\ UNCHANGED active_block_count
    BY <1>4, SameBlocks DEF BlockOk, CommitErr, RollbackErr
  <2> QED BY <1>1, <2>2, <2>3, CapFrame DEF CapInv
<1>5. CASE BlockErr(h) \/ RollbackOk(h) \/ RollbackQueue(h)
  <2>1. handler[h].pc # "idle" /\ handler'[h].pc = "idle"
        /\ \A g \in Handlers \ {h} : handler'[g] = handler[g]
    BY <1>5 DEF BlockErr, RollbackOk, RollbackQueue, TypeOK, Idle
  <2>2. OpenBlocks' = OpenBlocks /\ active_block_count' = Decrement(active_block_count)
    BY <1>5, SameBlocks DEF BlockErr, RollbackOk, RollbackQueue
  <2> QED BY <1>0, <1>1, <1>2, <2>1, <2>2 DEF CapInv, CountFollowsBlocks, Decrement
<1>6. CASE CommitOk(h)
  <2> DEFINE row == [ip |-> handler[h].ip, expires |-> handler[h].expires, unblocked |-> FALSE,
                     created_acl_rule |-> CreatesAclRule(handler[h].ip),
                     preserve_acl_on_unblock |-> FALSE]
             new == Len(soar_block_rules) + 1
  <2>1. handler[h].pc # "idle" /\ handler'[h].pc = "idle"
        /\ \A g \in Handlers \ {h} : handler'[g] = handler[g]
    BY <1>6 DEF CommitOk, TypeOK, Idle
  <2>2. handler[h].ip \in IPs /\ handler[h].expires \in Nat
    BY <1>6 DEF CommitOk, TypeOK, HandlerState
  <2>3. row \in BlockRow
    BY <2>2 DEF BlockRow, CreatesAclRule
  <2>4. /\ soar_block_rules \in Seq(BlockRow) /\ ~row.unblocked
        /\ soar_block_rules' = Append(soar_block_rules, row)
        /\ UNCHANGED active_block_count
    BY <1>6 DEF CommitOk, CommitSoarBlock, TypeOK
  <2> HIDE DEF row
  <2>5. /\ Ids' = Ids \cup {new} /\ new \notin Ids
        /\ soar_block_rules'[new] = row
        /\ \A i \in Ids : soar_block_rules'[i] = soar_block_rules[i]
    BY <2>3, <2>4, AppendSeq DEF Ids
  <2> HIDE DEF new
  <2>6. OpenBlocks' = OpenBlocks \cup {new} /\ new \notin OpenBlocks
    BY <2>4, <2>5 DEF OpenBlocks, Open
  <2>7. Cardinality(OpenBlocks') = m + 1
    BY <1>0, <2>6, FS_AddElement
  <2>8. Cardinality(InFlight') = n - 1
    BY <1>2, <2>1
  <2>9. CountFollowsBlocks'
    BY <1>0, <1>1, <2>4, <2>7, <2>8 DEF CapInv, CountFollowsBlocks
  <2> QED BY <1>1, <2>4, <2>6, <2>9 DEF CapInv
<1> QED BY <1>3, <1>4, <1>5, <1>6 DEF Handle

\* The sweep ends one block and gives its place back in the next step.
LEMMA EndCap ==
    ASSUME IsFiniteSet(Handlers), TypeOK, CapInv, NEW id \in OpenBlocks \ sweep.queue,
           soar_block_rules' = [soar_block_rules EXCEPT ![id].unblocked = TRUE],
           UNCHANGED <<up, active_block_count, handler>>,
           sweep.pc # "release", sweep'.queue = sweep.queue, sweep'.pc = "release"
    PROVE  CapInv'
<1>1. id \in Ids
  BY DEF OpenBlocks
<1>2. /\ Ids' = Ids
      /\ \A i \in Ids \ {id} : soar_block_rules'[i] = soar_block_rules[i]
      /\ soar_block_rules'[id].unblocked = TRUE
  BY <1>1, EndBlock DEF TypeOK
<1>3. OpenBlocks' = OpenBlocks \ {id}
  BY <1>1, <1>2 DEF OpenBlocks, Open
<1>4. Cardinality(OpenBlocks') = Cardinality(OpenBlocks) - 1
  BY <1>3, CapCardinalities, FS_RemoveElement
<1>5. InFlight' = InFlight
  BY DEF InFlight
<1>6. CountFollowsBlocks'
  BY <1>4, <1>5, CapCardinalities DEF CapInv, CountFollowsBlocks, TypeOK
<1> QED BY <1>3, <1>6 DEF CapInv

LEMMA SweepCap ==
    ASSUME IsFiniteSet(Handlers), TypeOK, CapInv, Sweep
    PROVE  CapInv'
<1> USE DEF persistent
<1>0. /\ UNCHANGED <<up, handler>> /\ InFlight' = InFlight
  <2>1. UNCHANGED <<up, handler>>
    BY DEF Sweep, SweepList, SweepCheck, SweepMark, SweepCommit, SweepRelease, SweepAbort,
       SweepUnblockOk, SweepUnblockErr, SweepQueue, SweepQueueErr, SweepEnd
  <2> QED BY <2>1 DEF InFlight
<1>1. CASE SweepList
  <2>1. /\ sweep'.queue \subseteq OpenBlocks /\ sweep'.pc = "check" /\ sweep.pc = "idle"
        /\ UNCHANGED <<soar_block_rules, active_block_count>>
    BY <1>1 DEF SweepList, ExpiredBlocks, OpenBlocks
  <2> QED BY <1>0, <2>1, SameBlocks DEF CapInv, CountFollowsBlocks
<1>2. ASSUME NEW id \in Ids, SweepCheck(id)  PROVE CapInv'
  <2>1. /\ sweep'.queue = sweep.queue \ {id} /\ sweep'.cur = id
        /\ sweep.pc = "check" /\ sweep'.pc # "release"
    BY <1>2 DEF SweepCheck, TypeOK, SweepState
  <2>2. id \in OpenBlocks /\ UNCHANGED <<soar_block_rules, active_block_count>>
    BY <1>2 DEF SweepCheck, CapInv
  <2> QED BY <1>0, <2>1, <2>2, SameBlocks, CapFrame
<1>3. CASE SweepMark \/ SweepCommit
  <2>1. sweep'.queue = sweep.queue /\ sweep'.pc = "release" /\ sweep.pc \in {"mark", "commit"}
    BY <1>3 DEF SweepMark, SweepCommit, TypeOK, SweepState
  <2>2. sweep.cur \in OpenBlocks \ sweep.queue
    BY <2>1 DEF CapInv
  <2> QED BY <1>0, <1>3, <2>1, <2>2, EndCap DEF SweepMark, SweepCommit, CommitSoarUnblock
<1>4. CASE SweepRelease
  <2>1. /\ sweep'.queue = sweep.queue /\ sweep'.pc \in {"check", "unblock"}
        /\ sweep.pc = "release"
    BY <1>4 DEF SweepRelease, TypeOK, SweepState
  <2>2. /\ active_block_count' = Decrement(active_block_count)
        /\ OpenBlocks' = OpenBlocks
    BY <1>4, SameBlocks DEF SweepRelease
  <2>3. active_block_count \in Nat /\ Cap \in Nat
    BY ConstantsAssumption DEF TypeOK
  <2> QED BY <1>0, <2>1, <2>2, <2>3, CapCardinalities
          DEF CapInv, CountFollowsBlocks, Decrement
<1>5. CASE SweepAbort \/ SweepQueueErr \/ SweepEnd
  <2>0. sweep' = IdleSweep
    BY <1>5 DEF SweepAbort, SweepQueueErr, SweepEnd
  <2>1. sweep'.queue = {} /\ sweep'.pc = "idle" /\ sweep.pc # "release"
    <3>1. sweep'.queue = {} /\ sweep'.pc = "idle"
      BY <2>0 DEF IdleSweep
    <3>2. sweep.pc # "release"
      BY <1>5 DEF SweepAbort, SweepQueueErr, SweepEnd
    <3> QED BY <3>1, <3>2
  <2>2. UNCHANGED <<soar_block_rules, active_block_count>>
    BY <1>5 DEF SweepAbort, SweepQueueErr, SweepEnd
  <2> QED BY <1>0, <2>1, <2>2, SameBlocks, CapFrame
<1>6. ASSUME NEW id \in Ids, SweepQueue(id) \/ SweepUnblockOk(id) \/ SweepUnblockErr(id)
      PROVE  CapInv'
  <2>1. sweep'.queue = sweep.queue /\ sweep'.pc = "unblock" /\ sweep.pc = "unblock"
    BY <1>6 DEF SweepQueue, SweepUnblockOk, SweepUnblockErr, TypeOK, SweepState
  <2>2. UNCHANGED <<soar_block_rules, active_block_count>>
    BY <1>6 DEF SweepQueue, SweepUnblockOk, SweepUnblockErr
  <2> QED BY <1>0, <2>1, <2>2, SameBlocks, CapFrame
<1> QED BY <1>1, <1>2, <1>3, <1>4, <1>5, <1>6 DEF Sweep

LEMMA EditAclCap ==
    ASSUME TypeOK, CapInv, NEW a \in Admins, EditAcl(a)
    PROVE  CapInv'
<1> USE DEF persistent
<1>1. /\ UNCHANGED <<up, active_block_count, handler, sweep>> /\ InFlight' = InFlight
  <2>1. UNCHANGED <<up, active_block_count, handler, sweep>>
    BY DEF EditAcl, AddToMap, InsertAclRule, InsertAclErr, RemoveFromMap, DeleteAclRule,
       DeleteAclErr
  <2> QED BY <2>1 DEF InFlight
<1>2. CASE InsertAclRule(a)
  <2> DEFINE P(i) == [soar_block_rules[i] EXCEPT !.preserve_acl_on_unblock = TRUE]
             C(i) == soar_block_rules[i].ip = admin[a].ip /\ Open(i)
  <2>1. soar_block_rules' = [i \in Ids |-> IF C(i) THEN P(i) ELSE soar_block_rules[i]]
    BY <1>2 DEF InsertAclRule
  <2>2. \A i \in Ids : P(i).unblocked = soar_block_rules[i].unblocked
    BY PreservedRow DEF TypeOK, Ids
  <2> HIDE DEF P, C
  <2>3. OpenBlocks' = OpenBlocks
    BY <2>1, <2>2 DEF OpenBlocks, Open, Ids
  <2> QED BY <1>1, <2>3, CapFrame DEF CapInv
<1>3. CASE UNCHANGED soar_block_rules
  BY <1>1, <1>3, SameBlocks, CapFrame DEF CapInv
<1> QED BY <1>2, <1>3 DEF EditAcl, AddToMap, InsertAclErr, RemoveFromMap, DeleteAclRule,
           DeleteAclErr

\* Active automatic blocks never exceed max_auto_block_cap, for any cap, number of
\* tasks, failures of the database and the data plane, and ACL edits, as long as
\* nothing but action_block_ip and the TTL sweep writes the counter: no
\* manual_unblock request, no reload_cache and no restart.
THEOREM CapTheorem ==
    ASSUME Unblockers = {}, Reloaders = {}, MaxCrashes = 0, IsFiniteSet(Handlers)
    PROVE  Spec => []MaxConcurrentBlocks
<1>1. Init => CapInv
  <2> SUFFICES ASSUME Init  PROVE CapInv
    OBVIOUS
  <2>1. OpenBlocks = {} /\ InFlight = {}
    BY DEF Init, OpenBlocks, Ids, InFlight, Idle
  <2>2. Cardinality({}) = 0
    BY FS_EmptySet
  <2> QED BY <2>1, <2>2, ConstantsAssumption
          DEF Init, CapInv, CountFollowsBlocks, IdleSweep
<1>2. TypeOK /\ CapInv /\ [Next]_vars => CapInv'
  <2> SUFFICES ASSUME TypeOK, CapInv, [Next]_vars  PROVE CapInv'
    OBVIOUS
  <2>0. up /\ crashes \in Nat
    BY DEF CapInv, TypeOK
  <2>1. ~Crash /\ ~Boot
    <3>1. ~Crash
      BY <2>0 DEF Crash
    <3>2. ~Boot
      BY <2>0 DEF Boot
    <3> QED BY <3>1, <3>2
  <2>2. CASE Tick \/ UNCHANGED vars
    <3>1. UNCHANGED <<up, soar_block_rules, active_block_count, handler, sweep>>
      BY <2>2 DEF Tick, vars, persistent, tasks
    <3> QED BY <3>1, SameBlocks, CapFrame DEF InFlight, CapInv
  <2> QED BY <2>1, <2>2, HandleCap, SweepCap, EditAclCap DEF Next
<1>3. TypeOK /\ CapInv => MaxConcurrentBlocks
  <2> SUFFICES ASSUME TypeOK, CapInv  PROVE MaxConcurrentBlocks
    OBVIOUS
  <2>1. ActiveBlocks \subseteq OpenBlocks
    BY DEF ActiveBlocks, Active, OpenBlocks
  <2>2. /\ Cardinality(ActiveBlocks) <= Cardinality(OpenBlocks)
        /\ Cardinality(ActiveBlocks) \in Nat
    BY <2>1, CapCardinalities, FS_Subset, FS_CardinalityType
  <2>3. Cardinality(OpenBlocks) \in Nat /\ Cardinality(InFlight) \in Nat
    BY CapCardinalities
  <2>4. active_block_count \in Nat /\ Cap \in Nat
    BY ConstantsAssumption DEF TypeOK
  <2>5. Cardinality(OpenBlocks) <= active_block_count
    BY <2>3, <2>4 DEF CapInv, CountFollowsBlocks
  <2>6. active_block_count <= Cap
    BY DEF CapInv
  <2> QED BY <2>2, <2>3, <2>4, <2>5, <2>6 DEF MaxConcurrentBlocks
<1> QED BY <1>1, <1>2, <1>3, TypeCorrect, PTL DEF Spec
=============================================================================
