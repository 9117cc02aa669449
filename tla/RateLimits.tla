----------------------------- MODULE RateLimits -----------------------------
(***************************************************************************)
(* The rate limits of the data plane and their two writers.                *)
(*                                                                         *)
(* The kernel array RATE_LIMIT_CONFIG holds one cell per setting; a cell   *)
(* that is 0 makes the XDP program use its built-in default.  An           *)
(* administrator changes cells through RateLimitService, which also        *)
(* persists them; the SOAR engine lowers the rates for a while through one *)
(* task, RateLimitOwnerRunner, which remembers the originals in memory.    *)
(* Every get and set of a cell is one step (adapter/ebpf/rate_limit.rs     *)
(* takes its mutex for one cell at a time), so the two writers interleave  *)
(* between cells.  The array dies with the process.                        *)
(***************************************************************************)
EXTENDS Integers, Sequences, FiniteSetsExt

CONSTANTS
    NumRates,      \* the rates the owner lowers, RATE_KEYS (4 in the code)
    NumKeys,       \* all settings: the rates and window_ns (5 in the code)
    Values,        \* the values an administrator sets, 0 is refused
    Default,       \* [1..NumKeys -> value the XDP program uses for an empty cell]
    Factors,       \* pairs <<p, q>>: a playbook lowers rates to p/q of their value
    TTLs,          \* the durations playbooks ask for, in ticks
    Admins,        \* concurrent administrator requests
    MaxTime,       \* no adjustment is requested from this time on
    MaxFaults,     \* failing reads and writes of cells and of the database
    MaxUndoFaults, \* failing writes while an earlier failure is undone
    MaxCrashes     \* restarts of the process

ASSUME RatesAssumption == NumRates \in Nat /\ NumKeys \in Nat /\ 1 <= NumRates /\ NumRates <= NumKeys

ASSUME ValuesAssumption == Values \subseteq Nat \ {0} /\ Default \in [1 .. NumKeys -> Nat \ {0}]

ASSUME FactorsAssumption == \A f \in Factors : f[1] \in Nat /\ f[2] \in Nat \ {0} /\ f[1] <= f[2]

ASSUME BoundsAssumption ==
    /\ TTLs \subseteq Nat \ {0}
    /\ {MaxTime, MaxFaults, MaxUndoFaults, MaxCrashes} \subseteq Nat

VARIABLES
    map,      \* RATE_LIMIT_CONFIG
    db,       \* rate_limit_config: the persisted settings, a function on some keys
    adj,      \* the owner's Option<ActiveAdjustment>
    op,       \* the command the owner is executing
    admin,    \* [Admins -> the update request in progress]
    up,       \* the process has booted
    overlap,  \* history: since the boot two writers have been active at the same time
    now, faults, undoFaults, crashes

vars == <<map, db, adj, op, admin, up, overlap, now, faults, undoFaults, crashes>>

Keys == 1 .. NumKeys
Rates == 1 .. NumRates

NoAdjustment == [active |-> FALSE, original |-> <<>>, expires |-> 0]
Idle == [pc |-> "idle", i |-> 0, factor |-> <<0, 1>>, expires |-> 0, orig |-> <<>>, failed |-> FALSE]
AdminIdle == [pc |-> "idle", todo |-> {}, set |-> <<>>, old |-> <<>>]

(* The limit the XDP program applies for a cell: get_config.               *)
Effective(k, v) == IF v > 0 THEN v ELSE Default[k]

Fault == faults < MaxFaults /\ faults' = faults + 1
UndoFault == undoFaults < MaxUndoFaults /\ undoFaults' = undoFaults + 1

\* The settings a request or the database may hold: some of the keys.
Settings == UNION {[S -> Values] : S \in SUBSET Keys}

\* The array after RateLimitService::restore wrote the settings in applied.
Restored(applied) == [k \in Keys |-> IF k \in applied THEN db[k] ELSE 0]

\* The process has just booted on a database of an earlier run.
Init ==
    /\ db \in Settings
    /\ map = Restored(DOMAIN db)
    /\ adj = NoAdjustment
    /\ op = Idle
    /\ admin = [a \in Admins |-> AdminIdle]
    /\ up = TRUE /\ overlap = FALSE
    /\ now = 0 /\ faults = 0 /\ undoFaults = 0 /\ crashes = 0

-----------------------------------------------------------------------------
(* The owner task: RateLimitOwnerRunner::run.                              *)

\* The faulty variant without the lower bound of one.
ReducedToZero(v, f) == (v * f[1]) \div f[2]

\* The reduced rate: ((orig * factor) as u64).max(1).
Reduced(v, f) == Max({(v * f[1]) \div f[2], 1})

\* The command Adjust: the first one starts to lower the rates, a later one only
\* moves the expiry.
Adjust(f, t) ==
    /\ up /\ op.pc = "idle" /\ now < MaxTime
    /\ IF adj.active
       THEN adj' = [adj EXCEPT !.expires = now + t] /\ UNCHANGED op
       ELSE op' = [Idle EXCEPT !.pc = "read", !.i = 1, !.factor = f, !.expires = now + t] /\ UNCHANGED adj
    /\ overlap' = (overlap \/ \E a \in Admins : admin[a].pc # "idle")
    /\ UNCHANGED <<map, db, admin, up, now, faults, undoFaults, crashes>>

\* first_adjust reads the four originals.
ReadRate ==
    /\ op.pc = "read"
    /\ op' = [op EXCEPT !.orig = Append(@, map[op.i]),
                        !.i = IF op.i = NumRates THEN 1 ELSE op.i + 1,
                        !.pc = IF op.i = NumRates THEN "apply" ELSE "read"]
    /\ UNCHANGED <<map, db, adj, admin, up, overlap, now, faults, undoFaults, crashes>>

ReadRateErr ==
    /\ op.pc = "read" /\ Fault
    /\ op' = Idle
    /\ UNCHANGED <<map, db, adj, admin, up, overlap, now, undoFaults, crashes>>

\* apply_adjustment writes them in order; the last write activates the adjustment.
SetRate ==
    /\ op.pc = "apply"
    /\ map' = [map EXCEPT ![op.i] = Reduced(op.orig[op.i], op.factor)]
    /\ IF op.i = NumRates
       THEN /\ adj' = [active |-> TRUE, original |-> op.orig, expires |-> op.expires]
            /\ op' = Idle
       ELSE op' = [op EXCEPT !.i = @ + 1] /\ UNCHANGED adj
    /\ UNCHANGED <<db, admin, up, overlap, now, faults, undoFaults, crashes>>

\* The faulty variant that gives up after a failed write without undoing the others.
SetRateErrAbandons ==
    /\ op.pc = "apply" /\ Fault
    /\ op' = Idle
    /\ UNCHANGED <<map, db, adj, admin, up, overlap, now, undoFaults, crashes>>

\* The faulty variant that counts the failed write among the ones to undo.
SetRateErrOneMore ==
    /\ op.pc = "apply" /\ Fault
    /\ op' = [op EXCEPT !.pc = "rollback", !.i = @ - 1]
    /\ UNCHANGED <<map, db, adj, admin, up, overlap, now, undoFaults, crashes>>

\* A failed write undoes the writes before it: rollback_adjustment.
SetRateErr ==
    /\ op.pc = "apply" /\ Fault
    /\ op' = IF op.i = 1 THEN Idle ELSE [op EXCEPT !.pc = "rollback", !.i = @ - 1]
    /\ UNCHANGED <<map, db, adj, admin, up, overlap, now, undoFaults, crashes>>

\* The faulty variant that never forgets the adjustment.
AfterRestoreKeeps(failed) == adj

\* The owner forgets the adjustment only if every rate was written back.
AfterRestore(failed) == IF failed THEN adj ELSE NoAdjustment

\* restore_prefix writes the originals back from the last one on, and goes on after
\* an error.
StepBack(ok, original) ==
    /\ map' = IF ok THEN [map EXCEPT ![op.i] = original[op.i]] ELSE map
    /\ op' = IF op.i = 1 THEN Idle ELSE [op EXCEPT !.i = @ - 1, !.failed = @ \/ ~ok]

Rollback(ok) ==
    /\ op.pc = "rollback"
    /\ StepBack(ok, op.orig)
    /\ IF ok THEN UNCHANGED undoFaults ELSE UndoFault
    /\ UNCHANGED <<db, adj, admin, up, overlap, now, faults, crashes>>

\* The command RestoreIfExpired of the TTL sweep, when the adjustment has expired.
RestoreIfExpired ==
    /\ up /\ op.pc = "idle" /\ adj.active /\ now >= adj.expires
    /\ op' = [Idle EXCEPT !.pc = "restore", !.i = NumRates]
    /\ UNCHANGED <<map, db, adj, admin, up, overlap, now, faults, undoFaults, crashes>>

Restore(ok) ==
    /\ op.pc = "restore"
    /\ StepBack(ok, adj.original)
    /\ adj' = IF op.i = 1 THEN AfterRestore(op.failed \/ ~ok) ELSE adj
    /\ IF ok THEN UNCHANGED faults ELSE Fault
    /\ UNCHANGED <<db, admin, up, overlap, now, undoFaults, crashes>>

-----------------------------------------------------------------------------
(* An administrator's update: RateLimitService::update.                    *)

Goto(a, pc, todo) == admin' = [admin EXCEPT ![a].pc = pc, ![a].todo = todo]

Update(a, s) ==
    /\ up /\ admin[a].pc = "idle"
    /\ admin' = [admin EXCEPT ![a] = [pc |-> "prepare", todo |-> DOMAIN s, set |-> s, old |-> <<>>]]
    /\ overlap' = (overlap \/ adj.active \/ op.pc # "idle" \/ \E b \in Admins : admin[b].pc # "idle")
    /\ UNCHANGED <<map, db, adj, op, up, now, faults, undoFaults, crashes>>

\* prepare_changes reads the old value of every setting that changes.
Prepare(a) ==
    /\ admin[a].pc = "prepare"
    /\ LET k == Min(admin[a].todo)
           rest == admin[a].todo \ {k}
       IN admin' = [admin EXCEPT
              ![a] = [pc |-> IF rest = {} THEN "apply" ELSE "prepare",
                      todo |-> IF rest = {} THEN DOMAIN @.set ELSE rest,
                      set |-> @.set,
                      old |-> [j \in DOMAIN @.old \cup {k} |-> IF j = k THEN map[k] ELSE @.old[j]]]]
    /\ UNCHANGED <<map, db, adj, op, up, overlap, now, faults, undoFaults, crashes>>

PrepareErr(a) ==
    /\ admin[a].pc = "prepare" /\ Fault
    /\ admin' = [admin EXCEPT ![a] = AdminIdle]
    /\ UNCHANGED <<map, db, adj, op, up, overlap, now, undoFaults, crashes>>

Apply(a) ==
    /\ admin[a].pc = "apply"
    /\ LET k == Min(admin[a].todo)
           rest == admin[a].todo \ {k}
       IN /\ map' = [map EXCEPT ![k] = admin[a].set[k]]
          /\ Goto(a, IF rest = {} THEN "persist" ELSE "apply", rest)
    /\ UNCHANGED <<db, adj, op, up, overlap, now, faults, undoFaults, crashes>>

\* After an error the settings in done are written back.
Undo(a, done) == IF done = {} THEN admin' = [admin EXCEPT ![a] = AdminIdle] ELSE Goto(a, "rollback", done)

ApplyErr(a) ==
    /\ admin[a].pc = "apply" /\ Fault
    /\ Undo(a, DOMAIN admin[a].set \ admin[a].todo)
    /\ UNCHANGED <<map, db, adj, op, up, overlap, now, undoFaults, crashes>>

\* set_rate_limits is one transaction.
Persist(a) ==
    /\ admin[a].pc = "persist"
    /\ db' = [k \in DOMAIN db \cup DOMAIN admin[a].set |->
                 IF k \in DOMAIN admin[a].set THEN admin[a].set[k] ELSE db[k]]
    /\ admin' = [admin EXCEPT ![a] = AdminIdle]
    /\ UNCHANGED <<map, adj, op, up, overlap, now, faults, undoFaults, crashes>>

\* The faulty variant that keeps the live values when the database refuses them.
PersistErrKeepsLive(a) ==
    /\ admin[a].pc = "persist" /\ Fault
    /\ admin' = [admin EXCEPT ![a] = AdminIdle]
    /\ UNCHANGED <<map, db, adj, op, up, overlap, now, undoFaults, crashes>>

PersistErr(a) ==
    /\ admin[a].pc = "persist" /\ Fault
    /\ Undo(a, DOMAIN admin[a].set)
    /\ UNCHANGED <<map, db, adj, op, up, overlap, now, undoFaults, crashes>>

UndoCell(a, ok) ==
    /\ admin[a].pc = "rollback"
    /\ LET k == Max(admin[a].todo)
       IN /\ map' = IF ok THEN [map EXCEPT ![k] = admin[a].old[k]] ELSE map
          /\ Undo(a, admin[a].todo \ {k})
    /\ IF ok THEN UNCHANGED undoFaults ELSE UndoFault
    /\ UNCHANGED <<db, adj, op, up, overlap, now, faults, crashes>>

-----------------------------------------------------------------------------
(* Restart: the array and every task are lost, the database stays; the     *)
(* boot restores the persisted settings before any writer runs.            *)

Crash ==
    /\ up /\ crashes < MaxCrashes
    /\ up' = FALSE /\ overlap' = FALSE
    /\ crashes' = crashes + 1
    /\ map' = [k \in Keys |-> 0]
    /\ adj' = NoAdjustment
    /\ op' = Idle
    /\ admin' = [a \in Admins |-> AdminIdle]
    /\ UNCHANGED <<db, now, faults, undoFaults>>

\* RateLimitService::restore: a failed load restores nothing, a failed write only
\* its own cell.
Boot(applied) ==
    /\ ~up
    /\ up' = TRUE
    /\ map' = Restored(applied)
    /\ IF applied = DOMAIN db THEN UNCHANGED undoFaults ELSE UndoFault
    /\ UNCHANGED <<db, adj, op, admin, overlap, now, faults, crashes>>

\* Time passes; past MaxTime only until the last adjustment has expired.
Tick ==
    /\ now < MaxTime + Max(TTLs \cup {0})
    /\ now' = now + 1
    /\ UNCHANGED <<map, db, adj, op, admin, up, overlap, faults, undoFaults, crashes>>

OwnerStep == ReadRate \/ SetRate \/ Rollback(TRUE) \/ Restore(TRUE)
OwnerErr == ReadRateErr \/ SetRateErr \/ Rollback(FALSE) \/ Restore(FALSE)
AdminStep(a) == Prepare(a) \/ Apply(a) \/ Persist(a) \/ UndoCell(a, TRUE)
AdminErr(a) == PrepareErr(a) \/ ApplyErr(a) \/ PersistErr(a) \/ UndoCell(a, FALSE)

Next ==
    \/ \E f \in Factors, t \in TTLs : Adjust(f, t)
    \/ RestoreIfExpired
    \/ OwnerStep \/ OwnerErr
    \/ \E a \in Admins : (\E s \in Settings : DOMAIN s # {} /\ Update(a, s)) \/ AdminStep(a) \/ AdminErr(a)
    \/ Crash
    \/ \E applied \in SUBSET DOMAIN db : Boot(applied)
    \/ Tick

Spec == Init /\ [][Next]_vars

(* The clock runs, the TTL sweep asks every minute, and a task that has a  *)
(* next step takes it; the number of faults is finite.                     *)
FairSpec == Spec /\ WF_vars(Tick) /\ WF_vars(RestoreIfExpired) /\ WF_vars(OwnerStep)
-----------------------------------------------------------------------------
(* Properties.                                                             *)

Cells == [Keys -> Nat]

(* Type invariant; an owner in the middle of a command stands at one of    *)
(* the rates, and has read as many originals as it needs.                  *)
TypeOK ==
    /\ map \in Cells
    /\ db \in Settings
    /\ adj.active \in BOOLEAN /\ adj.expires \in Nat
    /\ adj.active => adj.original \in [Rates -> Nat]
    /\ op.pc \in {"idle", "read", "apply", "rollback", "restore"}
    /\ op.pc # "idle" => op.i \in Rates
    /\ op.pc = "read" => op.orig \in [1 .. op.i - 1 -> Nat]
    /\ op.pc \in {"apply", "rollback"} => op.orig \in [Rates -> Nat]
    /\ op.pc = "restore" <=> adj.active /\ op.pc # "idle"
    /\ \A a \in Admins :
          /\ admin[a].pc \in {"idle", "prepare", "apply", "persist", "rollback"}
          /\ admin[a].set \in Settings
          /\ admin[a].todo \subseteq DOMAIN admin[a].set
          /\ admin[a].pc \in {"prepare", "apply", "rollback"} => admin[a].todo # {}
          /\ admin[a].pc \in {"apply", "persist", "rollback"} => DOMAIN admin[a].old = DOMAIN admin[a].set
    /\ up \in BOOLEAN /\ overlap \in BOOLEAN
    /\ {now, faults, undoFaults, crashes} \subseteq Nat

Quiet == up /\ op.pc = "idle" /\ ~adj.active /\ \A a \in Admins : admin[a].pc = "idle"

(* When nobody is writing and no adjustment is active, the kernel limits   *)
(* are the persisted ones: failed and successful updates, failed and       *)
(* expired adjustments, one after the other in any order, leave nothing    *)
(* behind (apply_adjustment, RateLimitService::update, restore), unless    *)
(* the undoing itself failed or two writers overlapped.                    *)
AgreesWhenQuiet == Quiet /\ undoFaults = 0 /\ ~overlap => map = Restored(DOMAIN db)

(* An adjustment never makes the data plane more permissive than the rates *)
(* it started from: the kernel reads an empty cell as its default, so a    *)
(* rate that is lowered to nothing would be raised (first_adjust).         *)
NeverRaised ==
    ~overlap =>
        /\ adj.active => \A k \in Rates : Effective(k, map[k]) <= Effective(k, adj.original[k])
        /\ op.pc \in {"apply", "rollback"} => \A k \in Rates : Effective(k, map[k]) <= Effective(k, op.orig[k])

(* Every adjustment ends: its rates are written back after it expires,     *)
(* also when some writes of the restoration fail first (restore).          *)
EventuallyRestored == adj.active ~> ~adj.active
=============================================================================
