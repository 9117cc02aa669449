------------------------------ MODULE SoarBlocks ------------------------------
(***************************************************************************)
(* The life of an automatic (SOAR) IP block, from the threat event that    *)
(* reserves a place under the cap to the TTL sweep or the operator that     *)
(* ends it, next to the operator's own ACL edits on the same addresses.     *)
(*                                                                          *)
(* Four stores must agree and are written one at a time, with awaits (other *)
(* tasks' steps) in between:                                                *)
(*   soar_block_rules, acl_rules, pending_unblock   SQLite, survive a crash *)
(*   src_blacklist        the eBPF map the packet path reads, lost with the *)
(*                        process (the map is not pinned)                   *)
(*   active_block_count   the engine's atomic counter checked against the   *)
(*                        cap, rebuilt by reload_cache                      *)
(*                                                                          *)
(* Every database call runs on one connection, so each is one atomic step.  *)
(* Only port 0 (match-all) rules of the source blacklist are in this module.*)
(***************************************************************************)
EXTENDS Integers, Sequences, FiniteSets

CONSTANTS
    IPs,          \* source addresses events are about
    Handlers,     \* concurrent handle_threat_event tasks (semaphore permits)
    Unblockers,   \* concurrent manual_unblock requests
    Admins,       \* concurrent ACL edit requests
    Reloaders,    \* concurrent reload_cache calls (playbook/whitelist edits)
    Cap,          \* soar.max_auto_block_cap
    TTLs,         \* block lifetimes, in ticks
    MaxRetries,   \* soar.max_pending_unblock_retries
    \* bounds of the instance
    MaxBlocks, MaxTime, MaxPending, MaxDbFaults, MaxDpFaults, MaxCrashes

ASSUME ConstantsAssumption ==
    /\ Cap \in Nat \ {0}
    /\ TTLs \subseteq Nat \ {0}
    /\ MaxRetries \in Nat
    /\ MaxBlocks \in Nat /\ MaxTime \in Nat /\ MaxPending \in Nat
    /\ MaxDbFaults \in Nat /\ MaxDpFaults \in Nat /\ MaxCrashes \in Nat

VARIABLES
    now,                 \* wall clock
    up,                  \* the process is running
    soar_block_rules,    \* sequence of rows; a row's id is its index
    acl_rules,           \* addresses with a (source, blacklist, port 0) row
    pending_unblock,     \* queued data-plane removals; a deleted row stays, so
                         \* that a row's id is its index
    src_blacklist,       \* addresses dropped by the data plane
    active_block_count,
    handler,             \* local state of the block action of each task
    sweep,               \* local state of the TTL sweep (one task)
    unblocker, admin, reloader,
    manual,              \* history: addresses the operator has listed
    dbFaults, dpFaults, crashes     \* how many failures happened so far

persistent == <<soar_block_rules, acl_rules, pending_unblock, manual>>
tasks == <<handler, sweep, unblocker, admin, reloader>>
budget == <<dbFaults, dpFaults, crashes>>
vars == <<now, up, persistent, src_blacklist, active_block_count, tasks, budget>>

-----------------------------------------------------------------------------
(* The rows and the SQL predicates over them. *)

BlockRow == [ip: IPs, expires: Nat, unblocked: BOOLEAN,
             created_acl_rule: BOOLEAN, preserve_acl_on_unblock: BOOLEAN]
PendingRow == [ip: IPs, retry_count: Nat,
               status: {"waiting", "exhausted", "deleted"}]

Ids == DOMAIN soar_block_rules
Expired(i) == soar_block_rules[i].expires <= now
Open(i) == ~soar_block_rules[i].unblocked
Active(i) == Open(i) /\ ~Expired(i)
OpenBlocks == {i \in Ids : Open(i)}
ActiveBlocks == {i \in Ids : Active(i)}
ActiveIPs == {soar_block_rules[i].ip : i \in ActiveBlocks}

\* has_manual_acl_rule: an ACL row exists and some open block of the address
\* did not create it, or must preserve it.
HasManualAclRule(ip) ==
    /\ ip \in acl_rules
    /\ \E i \in OpenBlocks :
          /\ soar_block_rules[i].ip = ip
          /\ \/ soar_block_rules[i].preserve_acl_on_unblock
             \/ ~soar_block_rules[i].created_acl_rule

\* The first SELECTs of commit_soar_block_to_db: the new block owns the ACL row
\* if there is none yet, or if an active block already owns it.
CreatesAclRule(ip) ==
    \/ ip \notin acl_rules
    \/ \E i \in ActiveBlocks :
          /\ soar_block_rules[i].ip = ip
          /\ soar_block_rules[i].created_acl_rule
          /\ ~soar_block_rules[i].preserve_acl_on_unblock

CommitSoarBlock(ip, expires) ==
    /\ soar_block_rules' = Append(soar_block_rules,
          [ip |-> ip, expires |-> expires, unblocked |-> FALSE,
           created_acl_rule |-> CreatesAclRule(ip),
           preserve_acl_on_unblock |-> FALSE])
    /\ acl_rules' = acl_rules \cup {ip}

\* faulty variant: overlapping blocks are not looked for
DeletesAclRuleIgnoringOverlap(id) ==
    /\ soar_block_rules[id].created_acl_rule
    /\ ~soar_block_rules[id].preserve_acl_on_unblock

\* should_delete_acl of commit_soar_unblock_to_db
DeletesAclRule(id) ==
    /\ soar_block_rules[id].created_acl_rule
    /\ ~soar_block_rules[id].preserve_acl_on_unblock
    /\ ~\E i \in ActiveBlocks \ {id} :
          soar_block_rules[i].ip = soar_block_rules[id].ip

CommitSoarUnblock(id) ==
    /\ acl_rules' = IF DeletesAclRule(id)
                    THEN acl_rules \ {soar_block_rules[id].ip}
                    ELSE acl_rules
    /\ soar_block_rules' = [soar_block_rules EXCEPT ![id].unblocked = TRUE]

QueuePendingUnblock(ip) ==
    pending_unblock' = Append(pending_unblock,
        [ip |-> ip, retry_count |-> 0, status |-> "waiting"])

-----------------------------------------------------------------------------
(* Failing calls.  A database call may fail and then changes nothing.  A    *)
(* data-plane removal fails when the address is not in the map, and any     *)
(* data-plane call may fail.                                                *)

DbFails == dbFaults < MaxDbFaults /\ dbFaults' = dbFaults + 1
           /\ UNCHANGED <<dpFaults, crashes>>
DpFails == dpFaults < MaxDpFaults /\ dpFaults' = dpFaults + 1
           /\ UNCHANGED <<dbFaults, crashes>>

\* AccessControlPort::unblock_ip, by outcome
UnblockIpOk(ip) ==
    /\ ip \in src_blacklist
    /\ src_blacklist' = src_blacklist \ {ip}
    /\ UNCHANGED budget
UnblockIpErr(ip) ==
    /\ IF ip \in src_blacklist THEN DpFails ELSE UNCHANGED budget
    /\ UNCHANGED src_blacklist

\* faulty variant: a plain fetch_sub
DecrementUnchecked(n) == n - 1

Decrement(n) == IF n = 0 THEN 0 ELSE n - 1

Idle == [pc |-> "idle"]
IdleSweep == [pc |-> "idle", queue |-> {}, cur |-> 0, committed |-> {}, failed |-> {}]

-----------------------------------------------------------------------------
(* action_block_ip *)

InFlight == {h \in Handlers : handler[h].pc # "idle"}

\* faulty variant: the cap is checked with <=
ReserveOneMore(h, ip, ttl) ==
    /\ up /\ handler[h].pc = "idle"
    /\ Len(soar_block_rules) + Cardinality(InFlight) < MaxBlocks
    /\ active_block_count <= Cap
    /\ active_block_count' = active_block_count + 1
    /\ handler' = [handler EXCEPT ![h] = [pc |-> "block", ip |-> ip, ttl |-> ttl]]
    /\ UNCHANGED <<now, up, persistent, src_blacklist, sweep, unblocker, admin,
                   reloader, budget>>

\* The compare-exchange loop on the counter, up to the data-plane call.
Reserve(h, ip, ttl) ==
    /\ up /\ handler[h].pc = "idle"
    /\ Len(soar_block_rules) + Cardinality(InFlight) < MaxBlocks
    /\ active_block_count < Cap
    /\ active_block_count' = active_block_count + 1
    /\ handler' = [handler EXCEPT ![h] = [pc |-> "block", ip |-> ip, ttl |-> ttl]]
    /\ UNCHANGED <<now, up, persistent, src_blacklist, sweep, unblocker, admin,
                   reloader, budget>>

BlockOk(h) ==
    /\ handler[h].pc = "block"
    /\ src_blacklist' = src_blacklist \cup {handler[h].ip}
    /\ handler' = [handler EXCEPT ![h] =
          [pc |-> "commit", ip |-> @.ip, expires |-> now + @.ttl]]
    /\ UNCHANGED <<now, up, persistent, active_block_count, sweep, unblocker,
                   admin, reloader, budget>>

\* faulty variant: the place is not given back when the block fails
BlockErrKeepsPlace(h) ==
    /\ handler[h].pc = "block"
    /\ DpFails
    /\ handler' = [handler EXCEPT ![h] = Idle]
    /\ UNCHANGED <<now, up, persistent, src_blacklist, active_block_count, sweep,
                   unblocker, admin, reloader>>

BlockErr(h) ==
    /\ handler[h].pc = "block"
    /\ DpFails
    /\ active_block_count' = Decrement(active_block_count)
    /\ handler' = [handler EXCEPT ![h] = Idle]
    /\ UNCHANGED <<now, up, persistent, src_blacklist, sweep, unblocker, admin,
                   reloader>>

CommitOk(h) ==
    /\ handler[h].pc = "commit"
    /\ CommitSoarBlock(handler[h].ip, handler[h].expires)
    /\ handler' = [handler EXCEPT ![h] = Idle]
    /\ UNCHANGED <<now, up, pending_unblock, manual, src_blacklist,
                   active_block_count, sweep, unblocker, admin, reloader, budget>>

CommitErr(h) ==
    /\ handler[h].pc = "commit"
    /\ DbFails
    /\ handler' = [handler EXCEPT ![h] = [pc |-> "rollback", ip |-> @.ip]]
    /\ UNCHANGED <<now, up, persistent, src_blacklist, active_block_count,
                   sweep, unblocker, admin, reloader>>

\* The failed commit takes the address out of the map and gives the place back;
\* when the removal fails it is queued first.
RollbackOk(h) ==
    /\ handler[h].pc = "rollback"
    /\ UnblockIpOk(handler[h].ip)
    /\ active_block_count' = Decrement(active_block_count)
    /\ handler' = [handler EXCEPT ![h] = Idle]
    /\ UNCHANGED <<now, up, persistent, sweep, unblocker, admin, reloader>>


RollbackErr(h) ==
    /\ handler[h].pc = "rollback"
    /\ UnblockIpErr(handler[h].ip)
    /\ handler' = [handler EXCEPT ![h] = [pc |-> "queue", ip |-> @.ip]]
    /\ UNCHANGED <<now, up, persistent, active_block_count, sweep, unblocker,
                   admin, reloader>>

RollbackQueue(h) ==
    /\ handler[h].pc = "queue"
    /\ \/ QueuePendingUnblock(handler[h].ip) /\ UNCHANGED budget
       \/ DbFails /\ UNCHANGED pending_unblock
    /\ active_block_count' = Decrement(active_block_count)
    /\ handler' = [handler EXCEPT ![h] = Idle]
    /\ UNCHANGED <<now, up, soar_block_rules, acl_rules, manual, src_blacklist,
                   sweep, unblocker, admin, reloader>>

Handle(h) ==
    \/ \E ip \in IPs, ttl \in TTLs : Reserve(h, ip, ttl)
    \/ BlockOk(h) \/ BlockErr(h)
    \/ CommitOk(h) \/ CommitErr(h)
    \/ RollbackOk(h) \/ RollbackErr(h) \/ RollbackQueue(h)

-----------------------------------------------------------------------------
(* TtlScheduler::sweep, one expired block after the other.  An error from the *)
(* database ends the sweep and forgets the removals already committed.  The   *)
(* list has no ORDER BY: it is a set here.                                    *)

\* faulty variant: only blocks that own their ACL row are listed
ExpiredOwners == {i \in Ids : Open(i) /\ Expired(i) /\ soar_block_rules[i].created_acl_rule}

ExpiredBlocks == {i \in Ids : Open(i) /\ Expired(i)}

SweepList ==
    /\ up /\ sweep.pc = "idle"
    /\ ExpiredBlocks # {}
    /\ sweep' = [pc |-> "check", queue |-> ExpiredBlocks, cur |-> 0,
                 committed |-> {}, failed |-> {}]
    /\ UNCHANGED <<now, up, persistent, src_blacklist, active_block_count,
                   handler, unblocker, admin, reloader, budget>>

SweepCheck(id) ==
    /\ sweep.pc = "check" /\ id \in sweep.queue
    /\ sweep' = [sweep EXCEPT !.cur = id, !.queue = @ \ {id},
          !.pc = IF HasManualAclRule(soar_block_rules[id].ip) THEN "mark" ELSE "commit"]
    /\ UNCHANGED <<now, up, persistent, src_blacklist, active_block_count,
                   handler, unblocker, admin, reloader, budget>>

\* mark_soar_block_unblocked: the operator owns the ACL row, keep it
SweepMark ==
    /\ sweep.pc = "mark"
    /\ soar_block_rules' = [soar_block_rules EXCEPT ![sweep.cur].unblocked = TRUE]
    /\ sweep' = [sweep EXCEPT !.pc = "release"]
    /\ UNCHANGED <<now, up, acl_rules, pending_unblock, manual, src_blacklist,
                   active_block_count, handler, unblocker, admin, reloader, budget>>

SweepCommit ==
    /\ sweep.pc = "commit"
    /\ CommitSoarUnblock(sweep.cur)
    /\ sweep' = [sweep EXCEPT !.pc = "release", !.committed = @ \cup {sweep.cur}]
    /\ UNCHANGED <<now, up, pending_unblock, manual, src_blacklist,
                   active_block_count, handler, unblocker, admin, reloader, budget>>

SweepRelease ==
    /\ sweep.pc = "release"
    /\ active_block_count' = Decrement(active_block_count)
    /\ sweep' = [sweep EXCEPT !.cur = 0,
                              !.pc = IF sweep.queue # {} THEN "check" ELSE "unblock"]
    /\ UNCHANGED <<now, up, persistent, src_blacklist, handler, unblocker,
                   admin, reloader, budget>>

SweepAbort ==
    /\ sweep.pc \in {"check", "mark", "commit"}
    /\ DbFails
    /\ sweep' = IdleSweep
    /\ UNCHANGED <<now, up, persistent, src_blacklist, active_block_count,
                   handler, unblocker, admin, reloader>>

\* unblock_committed_blocks: the removals run concurrently, in any order, and
\* the failed ones are queued as their results come in.
SweepUnblockOk(id) ==
    /\ sweep.pc = "unblock" /\ id \in sweep.committed
    /\ UnblockIpOk(soar_block_rules[id].ip)
    /\ sweep' = [sweep EXCEPT !.committed = @ \ {id}]
    /\ UNCHANGED <<now, up, persistent, active_block_count, handler, unblocker,
                   admin, reloader>>

\* faulty variant: a failed removal is only logged
SweepUnblockErrForgotten(id) ==
    /\ sweep.pc = "unblock" /\ id \in sweep.committed
    /\ UnblockIpErr(soar_block_rules[id].ip)
    /\ sweep' = [sweep EXCEPT !.committed = @ \ {id}]
    /\ UNCHANGED <<now, up, persistent, active_block_count, handler, unblocker,
                   admin, reloader>>

SweepUnblockErr(id) ==
    /\ sweep.pc = "unblock" /\ id \in sweep.committed
    /\ UnblockIpErr(soar_block_rules[id].ip)
    /\ sweep' = [sweep EXCEPT !.committed = @ \ {id}, !.failed = @ \cup {id}]
    /\ UNCHANGED <<now, up, persistent, active_block_count, handler, unblocker,
                   admin, reloader>>

SweepQueue(id) ==
    /\ sweep.pc = "unblock" /\ id \in sweep.failed
    /\ QueuePendingUnblock(soar_block_rules[id].ip)
    /\ sweep' = [sweep EXCEPT !.failed = @ \ {id}]
    /\ UNCHANGED <<now, up, soar_block_rules, acl_rules, manual, src_blacklist,
                   active_block_count, handler, unblocker, admin, reloader, budget>>

\* A failed insert ends the sweep: of the removals under way any may still take
\* effect, but no failure of theirs is queued any more.
SweepQueueErr ==
    /\ sweep.pc = "unblock" /\ sweep.failed # {}
    /\ DbFails
    /\ \E done \in SUBSET sweep.committed :
          src_blacklist' = src_blacklist \ {soar_block_rules[id].ip : id \in done}
    /\ sweep' = IdleSweep
    /\ UNCHANGED <<now, up, persistent, active_block_count, handler, unblocker,
                   admin, reloader>>

SweepEnd ==
    /\ sweep.pc = "unblock" /\ sweep.committed = {} /\ sweep.failed = {}
    /\ sweep' = IdleSweep
    /\ UNCHANGED <<now, up, persistent, src_blacklist, active_block_count,
                   handler, unblocker, admin, reloader, budget>>

Sweep ==
    \/ SweepList \/ SweepMark \/ SweepCommit \/ SweepRelease \/ SweepAbort
    \/ SweepQueueErr \/ SweepEnd
    \/ \E id \in Ids : \/ SweepCheck(id) \/ SweepQueue(id)
                       \/ SweepUnblockOk(id) \/ SweepUnblockErr(id)

-----------------------------------------------------------------------------
(* PlaybookService::manual_unblock.  The row is found by id alone, ended or not. *)

UnblockFind(u, id) ==
    /\ up /\ unblocker[u].pc = "idle"
    /\ Len(pending_unblock) < MaxPending
    /\ unblocker' = [unblocker EXCEPT ![u] = [pc |-> "check", id |-> id]]
    /\ UNCHANGED <<now, up, persistent, src_blacklist, active_block_count,
                   handler, sweep, admin, reloader, budget>>

UnblockCheck(u) ==
    /\ unblocker[u].pc = "check"
    /\ unblocker' = [unblocker EXCEPT ![u] = [pc |-> "commit", id |-> @.id,
          has_manual_rule |-> HasManualAclRule(soar_block_rules[@.id].ip)]]
    /\ UNCHANGED <<now, up, persistent, src_blacklist, active_block_count,
                   handler, sweep, admin, reloader, budget>>

UnblockCommit(u) ==
    /\ unblocker[u].pc = "commit"
    /\ CommitSoarUnblock(unblocker[u].id)
    /\ unblocker' = [unblocker EXCEPT ![u] = [pc |-> "release", id |-> @.id,
          has_manual_rule |-> @.has_manual_rule]]
    /\ UNCHANGED <<now, up, pending_unblock, manual, src_blacklist,
                   active_block_count, handler, sweep, admin, reloader, budget>>

\* After the commit: the decrement and the data-plane removal, with no await
\* between them.
UnblockRelease(u) ==
    /\ unblocker[u].pc = "release"
    /\ active_block_count' = Decrement(active_block_count)
    /\ LET ip == soar_block_rules[unblocker[u].id].ip
       IN  \/ /\ unblocker[u].has_manual_rule
              /\ unblocker' = [unblocker EXCEPT ![u] = Idle]
              /\ UNCHANGED <<src_blacklist, budget>>
           \/ /\ ~unblocker[u].has_manual_rule
              /\ UnblockIpOk(ip)
              /\ unblocker' = [unblocker EXCEPT ![u] = Idle]
           \/ /\ ~unblocker[u].has_manual_rule
              /\ UnblockIpErr(ip)
              /\ unblocker' = [unblocker EXCEPT ![u] = [pc |-> "queue", id |-> @.id]]
    /\ UNCHANGED <<now, up, persistent, handler, sweep, admin, reloader>>

UnblockQueue(u) ==
    /\ unblocker[u].pc = "queue"
    /\ QueuePendingUnblock(soar_block_rules[unblocker[u].id].ip)
    /\ unblocker' = [unblocker EXCEPT ![u] = Idle]
    /\ UNCHANGED <<now, up, soar_block_rules, acl_rules, manual, src_blacklist,
                   active_block_count, handler, sweep, admin, reloader, budget>>

UnblockErr(u) ==
    /\ unblocker[u].pc \in {"check", "commit", "queue"}
    /\ DbFails
    /\ unblocker' = [unblocker EXCEPT ![u] = Idle]
    /\ UNCHANGED <<now, up, persistent, src_blacklist, active_block_count,
                   handler, sweep, admin, reloader>>

ManualUnblock(u) ==
    \/ \E id \in Ids : UnblockFind(u, id)
    \/ UnblockCheck(u) \/ UnblockCommit(u) \/ UnblockRelease(u)
    \/ UnblockQueue(u) \/ UnblockErr(u)

-----------------------------------------------------------------------------
(* AclService::add_ipv4 and remove_ipv4 for a source-blacklist rule: the map  *)
(* first, then the database, and the map change is undone when that fails.    *)

AddToMap(a, ip) ==
    /\ up /\ admin[a].pc = "idle"
    /\ src_blacklist' = src_blacklist \cup {ip}
    /\ admin' = [admin EXCEPT ![a] = [pc |-> "insert", ip |-> ip]]
    /\ UNCHANGED <<now, up, persistent, active_block_count, handler, sweep,
                   unblocker, reloader, budget>>

\* faulty variant: the INSERT without the UPDATE of soar_block_rules
InsertAclRuleOnly(a) ==
    /\ admin[a].pc = "insert"
    /\ acl_rules' = acl_rules \cup {admin[a].ip}
    /\ manual' = manual \cup {admin[a].ip}
    /\ admin' = [admin EXCEPT ![a] = Idle]
    /\ UNCHANGED <<now, up, soar_block_rules, pending_unblock, src_blacklist,
                   active_block_count, handler, sweep, unblocker, reloader, budget>>

\* insert_acl_rule: open SOAR blocks of the address will preserve the row
InsertAclRule(a) ==
    /\ admin[a].pc = "insert"
    /\ acl_rules' = acl_rules \cup {admin[a].ip}
    /\ soar_block_rules' = [i \in Ids |->
          IF soar_block_rules[i].ip = admin[a].ip /\ Open(i)
          THEN [soar_block_rules[i] EXCEPT !.preserve_acl_on_unblock = TRUE]
          ELSE soar_block_rules[i]]
    /\ manual' = manual \cup {admin[a].ip}
    /\ admin' = [admin EXCEPT ![a] = Idle]
    /\ UNCHANGED <<now, up, pending_unblock, src_blacklist, active_block_count,
                   handler, sweep, unblocker, reloader, budget>>

InsertAclErr(a) ==
    /\ admin[a].pc = "insert"
    /\ DbFails
    /\ src_blacklist' = src_blacklist \ {admin[a].ip}
    /\ admin' = [admin EXCEPT ![a] = Idle]
    /\ UNCHANGED <<now, up, persistent, active_block_count, handler, sweep,
                   unblocker, reloader>>

RemoveFromMap(a, ip) ==
    /\ up /\ admin[a].pc = "idle"
    /\ UnblockIpOk(ip)
    /\ admin' = [admin EXCEPT ![a] = [pc |-> "delete", ip |-> ip]]
    /\ UNCHANGED <<now, up, persistent, active_block_count, handler, sweep,
                   unblocker, reloader>>

DeleteAclRule(a) ==
    /\ admin[a].pc = "delete"
    /\ acl_rules' = acl_rules \ {admin[a].ip}
    /\ manual' = manual \ {admin[a].ip}
    /\ admin' = [admin EXCEPT ![a] = Idle]
    /\ UNCHANGED <<now, up, soar_block_rules, pending_unblock, src_blacklist,
                   active_block_count, handler, sweep, unblocker, reloader, budget>>

DeleteAclErr(a) ==
    /\ admin[a].pc = "delete"
    /\ DbFails
    /\ src_blacklist' = src_blacklist \cup {admin[a].ip}
    /\ admin' = [admin EXCEPT ![a] = Idle]
    /\ UNCHANGED <<now, up, persistent, active_block_count, handler, sweep,
                   unblocker, reloader>>

EditAcl(a) ==
    \/ \E ip \in IPs : AddToMap(a, ip) \/ RemoveFromMap(a, ip)
    \/ InsertAclRule(a) \/ InsertAclErr(a)
    \/ DeleteAclRule(a) \/ DeleteAclErr(a)

-----------------------------------------------------------------------------
(* The tail of reload_cache: the counter is overwritten with a count read by  *)
(* an earlier query.                                                          *)

ReloadCount(r) ==
    /\ up /\ reloader[r].pc = "idle"
    /\ reloader' = [reloader EXCEPT ![r] =
          [pc |-> "store", count |-> Cardinality(ActiveBlocks)]]
    /\ UNCHANGED <<now, up, persistent, src_blacklist, active_block_count,
                   handler, sweep, unblocker, admin, budget>>

ReloadStore(r) ==
    /\ reloader[r].pc = "store"
    /\ active_block_count' = reloader[r].count
    /\ reloader' = [reloader EXCEPT ![r] = Idle]
    /\ UNCHANGED <<now, up, persistent, src_blacklist, handler, sweep,
                   unblocker, admin, budget>>

Reload(r) == ReloadCount(r) \/ ReloadStore(r)

-----------------------------------------------------------------------------
(* A crash loses the map, the counter and every task.  The next start runs    *)
(* alone: SoarEngine::new counts the active blocks, AclService::restore fills *)
(* the map from acl_rules, and recover_active_blocks retries the queued       *)
(* removals and then blocks every active block's address again.               *)

Crash ==
    /\ up /\ crashes < MaxCrashes
    /\ crashes' = crashes + 1
    /\ up' = FALSE
    /\ src_blacklist' = {} /\ active_block_count' = 0
    /\ handler' = [h \in Handlers |-> Idle] /\ sweep' = IdleSweep
    /\ unblocker' = [u \in Unblockers |-> Idle] /\ admin' = [a \in Admins |-> Idle]
    /\ reloader' = [r \in Reloaders |-> Idle]
    /\ UNCHANGED <<now, persistent, dbFaults, dpFaults>>

Waiting == {k \in DOMAIN pending_unblock : pending_unblock[k].status = "waiting"}
Retryable == {k \in Waiting : pending_unblock[k].retry_count < MaxRetries}
\* The removals that find their address in the restored map: of several for one
\* address, only the first.
Recovered(map) ==
    {k \in Retryable :
        /\ pending_unblock[k].ip \in map
        /\ \A j \in Retryable : j < k => pending_unblock[j].ip # pending_unblock[k].ip}

RetryPendingUnblocks(map) ==
    pending_unblock' = [k \in DOMAIN pending_unblock |->
        IF k \in Recovered(map)
        THEN [pending_unblock[k] EXCEPT !.status = "deleted"]
        ELSE IF k \in Retryable
        THEN [pending_unblock[k] EXCEPT !.retry_count = @ + 1]
        ELSE IF k \in Waiting
        THEN [pending_unblock[k] EXCEPT !.status = "exhausted"]
        ELSE pending_unblock[k]]


RecoverActiveBlocks ==
    /\ RetryPendingUnblocks(acl_rules)
    /\ src_blacklist' = (acl_rules \ {pending_unblock[k].ip : k \in Recovered(acl_rules)})
                        \cup ActiveIPs

Boot ==
    /\ ~up
    /\ up' = TRUE
    /\ active_block_count' = Cardinality(ActiveBlocks)
    /\ RecoverActiveBlocks
    /\ UNCHANGED <<now, soar_block_rules, acl_rules, manual, tasks, budget>>

Tick ==
    /\ now < MaxTime
    /\ now' = now + 1
    /\ UNCHANGED <<up, persistent, src_blacklist, active_block_count, tasks, budget>>

-----------------------------------------------------------------------------
Init ==
    /\ now = 0 /\ up = TRUE
    /\ soar_block_rules = <<>> /\ acl_rules = {} /\ pending_unblock = <<>>
    /\ src_blacklist = {} /\ active_block_count = 0
    /\ handler = [h \in Handlers |-> Idle] /\ sweep = IdleSweep
    /\ unblocker = [u \in Unblockers |-> Idle] /\ admin = [a \in Admins |-> Idle]
    /\ reloader = [r \in Reloaders |-> Idle]
    /\ manual = {}
    /\ dbFaults = 0 /\ dpFaults = 0 /\ crashes = 0

Next ==
    \/ \E h \in Handlers : Handle(h)
    \/ Sweep
    \/ \E u \in Unblockers : ManualUnblock(u)
    \/ \E a \in Admins : EditAcl(a)
    \/ \E r \in Reloaders : Reload(r)
    \/ Crash \/ Boot \/ Tick

Spec == Init /\ [][Next]_vars

\* A task that has started finishes its calls: database and map calls return,
\* the sweep's interval timer keeps firing, and a stopped service is restarted.
\* Nothing obliges a new event, request, failure or crash to come.
Fairness ==
    /\ WF_vars(Sweep) /\ WF_vars(Boot)
    /\ \A h \in Handlers : WF_vars(Handle(h) /\ handler[h].pc # "idle")
    /\ \A u \in Unblockers : WF_vars(ManualUnblock(u) /\ unblocker[u].pc # "idle")
    /\ \A a \in Admins : WF_vars(EditAcl(a) /\ admin[a].pc # "idle")
    /\ \A r \in Reloaders : WF_vars(ReloadStore(r))

FairSpec == Spec /\ Fairness

-----------------------------------------------------------------------------
(* Properties *)

HandlerState == [pc: {"idle"}]
    \cup [pc: {"block"}, ip: IPs, ttl: TTLs]
    \cup [pc: {"commit"}, ip: IPs, expires: Nat]
    \cup [pc: {"rollback", "queue"}, ip: IPs]
SweepState == [pc: {"idle", "check", "mark", "commit", "release", "unblock"},
               queue: SUBSET Nat, cur: Nat, committed: SUBSET Nat, failed: SUBSET Nat]
UnblockerState == [pc: {"idle"}]
    \cup [pc: {"check", "queue"}, id: Nat]
    \cup [pc: {"commit", "release"}, id: Nat, has_manual_rule: BOOLEAN]
AdminState == [pc: {"idle"}] \cup [pc: {"insert", "delete"}, ip: IPs]
ReloaderState == [pc: {"idle"}] \cup [pc: {"store"}, count: Nat]

\* Every variable has its type; in particular the u32 counter never goes below
\* zero, whatever the order of decrements (decrement_block_count saturates), and
\* every block id a task holds names a row.
TypeOK ==
    /\ now \in Nat /\ up \in BOOLEAN
    /\ soar_block_rules \in Seq(BlockRow)
    /\ acl_rules \subseteq IPs /\ src_blacklist \subseteq IPs /\ manual \subseteq IPs
    /\ pending_unblock \in Seq(PendingRow)
    /\ active_block_count \in Nat
    /\ handler \in [Handlers -> HandlerState]
    /\ sweep \in SweepState
    /\ sweep.queue \cup sweep.committed \cup sweep.failed \subseteq Ids
    /\ sweep.pc \in {"mark", "commit", "release"} => sweep.cur \in Ids
    /\ unblocker \in [Unblockers -> UnblockerState]
    /\ \A u \in Unblockers : unblocker[u].pc # "idle" => unblocker[u].id \in Ids
    /\ admin \in [Admins -> AdminState]
    /\ reloader \in [Reloaders -> ReloaderState]
    /\ dbFaults \in Nat /\ dpFaults \in Nat /\ crashes \in Nat

\* A rule the operator listed stays in acl_rules until the operator removes it:
\* no SOAR unblock takes it away (the ownership flags created_acl_rule and
\* preserve_acl_on_unblock decide that), whatever blocks come and go.
ManualAclKept == manual \subseteq acl_rules

\* An ACL row disappears only when the operator deletes it or when no active
\* SOAR block of the address is left.
OverlapKeepsAcl ==
    [][\A ip \in acl_rules \ acl_rules' :
          \/ ip \notin ActiveIPs'
          \/ \E a \in Admins : admin[a].pc = "delete" /\ admin[a].ip = ip]_vars


\* The counter is the number of open blocks, plus the places reserved by block
\* actions under way, plus the one the sweep has ended and not yet given back.
CountFollowsBlocks ==
    active_block_count = Cardinality(OpenBlocks) + Cardinality(InFlight)
                         + (IF sweep.pc = "release" THEN 1 ELSE 0)

\* There are never more active automatic blocks than max_auto_block_cap.
MaxConcurrentBlocks == Cardinality(ActiveBlocks) <= Cap

Quiet ==
    /\ up /\ sweep.pc = "idle"
    /\ \A h \in Handlers : handler[h].pc = "idle"
    /\ \A u \in Unblockers : unblocker[u].pc = "idle"
    /\ \A a \in Admins : admin[a].pc = "idle"

\* With no task under way, an address the data plane drops is accounted for: it
\* has an ACL row, an open block the sweep will end, or a queued removal (as long
\* as the database accepts the removals unblock_committed_blocks queues).
NoOrphanBlock ==
    Quiet /\ dbFaults = 0 => \A ip \in src_blacklist :
        \/ ip \in acl_rules
        \/ \E i \in OpenBlocks : soar_block_rules[i].ip = ip
        \/ \E k \in DOMAIN pending_unblock :
              pending_unblock[k].ip = ip /\ pending_unblock[k].status # "deleted"

\* With no task under way, an active block whose ACL row exists is enforced by
\* the data plane.
ActiveBlockEnforced == Quiet => ActiveIPs \cap acl_rules \subseteq src_blacklist

\* Every expired block is eventually ended by the sweep or by the operator,
\* across database failures and restarts.
ExpiredEventuallyUnblocked ==
    \A i \in 1 .. MaxBlocks :
        (i \in Ids /\ Open(i) /\ Expired(i)) ~> (i \in Ids /\ ~Open(i))

=============================================================================
