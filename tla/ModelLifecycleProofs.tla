------------------------ MODULE ModelLifecycleProofs ------------------------
(***************************************************************************)
(* Proofs about ModelLifecycle, for any number of artifacts, uploads,      *)
(* requests, faults and restarts.                                          *)
(***************************************************************************)
EXTENDS ModelLifecycle, TLAPS

(* The versions that may be on disk or in memory.                          *)
Allowed == {None, 1} \cup audited

PromoPlaces == {"idle", "audit", "backup", "move", "remove", "restore", "clean", "done"}
LoadPlaces == {"idle", "debounce", "manifest", "artifact", "built", "error", "store", "audit", "done"}
Kinds == {"active", "dormant", "error"}
PromoRecord == [pc : PromoPlaces, i : Files, err : BOOLEAN, old : [Files -> {None} \cup Versions]]
LoadRecord == [pc : LoadPlaces, i : Nat, read : [Files -> Allowed], before : [st : Kinds, files : [Files -> Allowed]]]

(* Every copy of a file, also one a reload has read or a request remembers *)
(* for later, is of an audited version; and a promotion that has passed    *)
(* its audit step is audited.                                              *)
AuditInv ==
    /\ models \in [Files -> Allowed]
    /\ backup \in [Files -> Allowed]
    /\ audited \subseteq Uploads
    /\ model \in [st : Kinds, files : [Files -> Allowed]]
    /\ load \in [Loaders -> LoadRecord]
    /\ promo \in [Uploads -> PromoRecord]
    /\ \A u \in Uploads : promo[u].pc \in {"idle", "audit", "done"} \/ u \in audited

LEMMA FilesFacts == 0 \in Files /\ NumArtifacts \in Files /\ 1 \in Files /\ Files \subseteq Nat
  BY LifecycleAssumption DEF Files

LEMMA GotoEffect ==
  ASSUME promo \in [Uploads -> PromoRecord], NEW u \in Uploads, NEW pc \in PromoPlaces, NEW i \in Files, Goto(u, pc, i)
  PROVE  /\ promo' \in [Uploads -> PromoRecord]
         /\ promo'[u].pc = pc
         /\ \A w \in Uploads : w # u => promo'[w] = promo[w]
  BY DEF Goto, PromoRecord

LEMMA AdvanceEffect ==
  ASSUME promo \in [Uploads -> PromoRecord], NEW u \in Uploads,
         NEW last \in PromoPlaces, NEW pc \in PromoPlaces, NEW i \in Files, NEW f \in Files,
         IF f = NumArtifacts THEN Goto(u, last, i) ELSE Goto(u, pc, f + 1)
  PROVE  /\ promo' \in [Uploads -> PromoRecord]
         /\ \A w \in Uploads : w # u => promo'[w] = promo[w]
<1>1. CASE f = NumArtifacts
  BY <1>1, GotoEffect
<1>2. CASE f # NumArtifacts
  <2>1. f + 1 \in Files /\ Goto(u, pc, f + 1)
    BY <1>2, LifecycleAssumption DEF Files
  <2> QED
    BY <2>1, GotoEffect
<1> QED
  BY <1>1, <1>2

LEMMA ReturnEffect ==
  ASSUME promo \in [Uploads -> PromoRecord], NEW u \in Uploads, Return(u)
  PROVE  /\ promo' \in [Uploads -> PromoRecord]
         /\ promo'[u].pc = "done"
         /\ \A w \in Uploads : w # u => promo'[w] = promo[w]
<1> DEFINE p == "done"
<1>1. p \in PromoPlaces /\ promo' = [promo EXCEPT ![u].pc = p]
  BY DEF Return, PromoPlaces
<1> HIDE DEF p
<1>2. promo' \in [Uploads -> PromoRecord] /\ promo'[u].pc = p /\ \A w \in Uploads : w # u => promo'[w] = promo[w]
  BY <1>1 DEF PromoRecord
<1> QED
  BY <1>2 DEF p

LEMMA UpdateType ==
  ASSUME NEW S, NEW T, NEW F \in [S -> T], NEW x, NEW y, x \in S => y \in T
  PROVE  [F EXCEPT ![x] = y] \in [S -> T]
  OBVIOUS

LEMMA LoadGotoEffect ==
  ASSUME load \in [Loaders -> LoadRecord], NEW l \in Loaders, NEW pc \in LoadPlaces, LoadGoto(l, pc)
  PROVE  load' \in [Loaders -> LoadRecord]
  BY DEF LoadGoto, LoadRecord

(* A step that writes no version anywhere and only moves one promotion on. *)
LEMMA PromoMoves ==
  ASSUME AuditInv, NEW u \in Uploads,
         promo' \in [Uploads -> PromoRecord],
         \A w \in Uploads : w # u => promo'[w] = promo[w],
         u \in audited' \/ promo'[u].pc \in {"idle", "audit", "done"},
         audited \subseteq audited', audited' \subseteq Uploads,
         models' \in [Files -> Allowed'], backup' \in [Files -> Allowed'],
         UNCHANGED <<model, load>>
  PROVE  AuditInv'
<1>1. Allowed \subseteq Allowed'
  BY DEF Allowed
<1>2. model' \in [st : Kinds, files : [Files -> Allowed']] /\ load' \in [Loaders -> LoadRecord']
  BY <1>1 DEF AuditInv, LoadRecord
<1>3. \A w \in Uploads : promo'[w].pc \in {"idle", "audit", "done"} \/ w \in audited'
  BY DEF AuditInv
<1> QED
  BY <1>2, <1>3 DEF AuditInv

LEMMA PromoPreserves ==
  ASSUME AuditInv, NEW u \in Uploads, Begin(u) \/ PromoStep(u) \/ PromoErr(u)
  PROVE  AuditInv'
<1> USE FilesFacts
<1>1. CASE Begin(u)
  <2> DEFINE r == [pc |-> "audit", i |-> 0, err |-> FALSE, old |-> models]
  <2>1. r \in PromoRecord
    BY DEF PromoRecord, PromoPlaces, AuditInv, Allowed, Versions
  <2>2. promo' = [promo EXCEPT ![u] = r] /\ r.pc = "audit"
    BY <1>1 DEF Begin
  <2> HIDE DEF r
  <2>3. promo' \in [Uploads -> PromoRecord] /\ promo'[u] = r /\ \A w \in Uploads : w # u => promo'[w] = promo[w]
    BY <2>1, <2>2 DEF AuditInv
  <2> QED
    BY <1>1, <2>2, <2>3, PromoMoves DEF Begin, AuditInv, disk, Allowed
<1>2. CASE Audit(u)
  <2>1. CASE audited' = audited \cup {u} /\ Goto(u, "backup", 0)
    <3>1. promo' \in [Uploads -> PromoRecord] /\ \A w \in Uploads : w # u => promo'[w] = promo[w]
      BY <2>1, GotoEffect DEF AuditInv, PromoPlaces
    <3> QED
      BY <1>2, <2>1, <3>1, PromoMoves DEF Audit, AuditInv, disk, Allowed
  <2>2. CASE Return(u) /\ UNCHANGED audited
    BY <1>2, <2>2, ReturnEffect, PromoMoves DEF Audit, AuditInv, disk, Allowed
  <2> QED
    BY <1>2, <2>1, <2>2 DEF Audit
<1>3. CASE Backup(u)
  <2> DEFINE f == promo[u].i
  <2>1. f \in Files /\ u \in audited
    BY <1>3 DEF AuditInv, Backup, PromoRecord
  <2>2. promo' \in [Uploads -> PromoRecord] /\ \A w \in Uploads : w # u => promo'[w] = promo[w]
    BY <1>3, <2>1, AdvanceEffect DEF Backup, AuditInv, PromoPlaces
  <2>3. models' \in [Files -> Allowed] /\ backup' \in [Files -> Allowed]
    BY <1>3, <2>1 DEF Backup, AuditInv, Allowed
  <2> QED
    BY <1>3, <2>1, <2>2, <2>3, PromoMoves DEF Backup, AuditInv, Allowed
<1>4. CASE BackupErr(u)
  BY <1>4, ReturnEffect, PromoMoves DEF BackupErr, AuditInv, Allowed, Empty
<1>5. CASE Move(u)
  <2> DEFINE f == promo[u].i
  <2>1. f \in Files /\ u \in audited
    BY <1>5 DEF AuditInv, Move, PromoRecord
  <2>2. promo' \in [Uploads -> PromoRecord] /\ \A w \in Uploads : w # u => promo'[w] = promo[w]
    <3>1. CASE f = 0 /\ Goto(u, "clean", 0)
      BY <3>1, GotoEffect DEF AuditInv, PromoPlaces
    <3>2. CASE f # 0 /\ IF f = NumArtifacts THEN Goto(u, "move", 0) ELSE Goto(u, "move", f + 1)
      BY <2>1, <3>2, AdvanceEffect DEF AuditInv, PromoPlaces
    <3> QED
      BY <1>5, <3>1, <3>2 DEF Move
  <2>3. models' \in [Files -> Allowed]
    BY <1>5, <2>1 DEF Move, AuditInv, Allowed
  <2> QED
    BY <1>5, <2>1, <2>2, <2>3, PromoMoves DEF Move, AuditInv, Allowed
<1>6. CASE MoveErr(u)
  <2>1. u \in audited
    BY <1>6 DEF AuditInv, MoveErr
  <2> DEFINE r == [pc |-> "remove", i |-> 0, err |-> TRUE, old |-> promo[u].old]
  <2>2. promo' = [promo EXCEPT ![u] = r]
    BY <1>6 DEF MoveErr
  <2>3. r \in PromoRecord
    BY DEF AuditInv, PromoRecord, PromoPlaces
  <2> HIDE DEF r
  <2>4. promo' \in [Uploads -> PromoRecord] /\ \A w \in Uploads : w # u => promo'[w] = promo[w]
    BY <2>2, <2>3 DEF AuditInv
  <2> QED
    BY <1>6, <2>1, <2>4, PromoMoves DEF MoveErr, AuditInv, Allowed, disk
<1>7. ASSUME NEW ok \in BOOLEAN, Remove(u, ok) PROVE AuditInv'
  <2> DEFINE f == promo[u].i
  <2>1. f \in Files /\ u \in audited
    BY <1>7 DEF AuditInv, Remove, PromoRecord
  <2>2. promo' \in [Uploads -> PromoRecord] /\ \A w \in Uploads : w # u => promo'[w] = promo[w]
    BY <1>7, <2>1, AdvanceEffect DEF Remove, AuditInv, PromoPlaces
  <2>3. models' \in [Files -> Allowed]
    BY <1>7, <2>1 DEF Remove, AuditInv, Allowed
  <2> QED
    BY <1>7, <2>1, <2>2, <2>3, PromoMoves DEF Remove, AuditInv, Allowed
<1>8. ASSUME NEW ok \in BOOLEAN, Restore(u, ok) PROVE AuditInv'
  <2> DEFINE f == promo[u].i
  <2>1. f \in Files /\ u \in audited
    BY <1>8 DEF AuditInv, Restore, PromoRecord
  <2>2. promo' \in [Uploads -> PromoRecord] /\ \A w \in Uploads : w # u => promo'[w] = promo[w]
    BY <1>8, <2>1, AdvanceEffect DEF Restore, AuditInv, PromoPlaces
  <2>3. models' \in [Files -> Allowed] /\ backup' \in [Files -> Allowed]
    BY <1>8, <2>1 DEF Restore, AuditInv, Allowed
  <2> QED
    BY <1>8, <2>1, <2>2, <2>3, PromoMoves DEF Restore, AuditInv, Allowed
<1>9. ASSUME NEW ok \in BOOLEAN, Clean(u, ok) PROVE AuditInv'
  BY <1>9, ReturnEffect, PromoMoves DEF Clean, AuditInv, Allowed, Empty
<1> QED
  BY <1>1, <1>2, <1>3, <1>4, <1>5, <1>6, <1>7, <1>8, <1>9 DEF PromoStep, PromoErr

(* A step that changes only the reloads and the served model.              *)
LEMMA LoadMoves ==
  ASSUME AuditInv, load' \in [Loaders -> LoadRecord],
         model' \in [st : Kinds, files : [Files -> Allowed]],
         UNCHANGED <<models, backup, audited, promo>>
  PROVE  AuditInv'
  BY DEF AuditInv, Allowed, LoadRecord

LEMMA NoLoadFacts == NoLoad \in LoadRecord /\ {Dormant, Error} \subseteq [st : Kinds, files : [Files -> Allowed]]
  BY DEF NoLoad, LoadRecord, LoadPlaces, Dormant, Error, Kinds, Empty, Allowed

LEMMA LoadPreserves ==
  ASSUME AuditInv, NEW l \in Loaders, LoadStep(l) \/ BuildErr(l)
  PROVE  AuditInv'
<1> USE FilesFacts, NoLoadFacts
<1>0. Finished(l, TRUE) \in LoadPlaces /\ Finished(l, FALSE) \in LoadPlaces
  BY DEF Finished, LoadPlaces
<1>1. CASE ReadManifest(l)
  <2>1. CASE models[0] = None
    BY <1>0, <1>1, <2>1, LoadGotoEffect, LoadMoves DEF ReadManifest, AuditInv, disk
  <2>2. CASE models[0] # None
    <3> DEFINE p == "artifact"
               g == 1
               r == [Empty EXCEPT ![0] = models[0]]
    <3>1. load' = [load EXCEPT ![l].pc = p, ![l].i = g, ![l].read = r]
      BY <1>1, <2>2 DEF ReadManifest
    <3>2. p \in LoadPlaces /\ g \in Nat /\ r \in [Files -> Allowed]
      BY DEF LoadPlaces, Empty, AuditInv, Allowed
    <3> HIDE DEF p, g, r
    <3>3. load' \in [Loaders -> LoadRecord]
      BY <3>1, <3>2 DEF AuditInv, LoadRecord
    <3> QED
      BY <1>1, <2>2, <3>3, LoadMoves DEF ReadManifest, AuditInv, disk
  <2> QED
    BY <2>1, <2>2
<1>2. CASE ReadArtifact(l)
  <2> DEFINE f == load[l].i
             p == CASE models[f] = None -> "error"
                    [] f = NumArtifacts -> "built"
                    [] OTHER -> "artifact"
             r == [load[l].read EXCEPT ![f] = models[f]]
             g == load[l].i + 1
  <2>1. load' = [load EXCEPT ![l].read = r, ![l].i = g, ![l].pc = p]
    BY <1>2 DEF ReadArtifact
  <2>2. p \in LoadPlaces /\ g \in Nat
    BY DEF LoadPlaces, AuditInv, LoadRecord
  <2>3. r \in [Files -> Allowed]
    <3>1. load[l].read \in [Files -> Allowed]
      BY DEF AuditInv, LoadRecord
    <3>2. f \in Files => models[f] \in Allowed
      BY DEF AuditInv
    <3> HIDE DEF f
    <3> QED
      BY <3>1, <3>2, UpdateType
  <2> HIDE DEF p, g, r
  <2>4. load' \in [Loaders -> LoadRecord]
    BY <2>1, <2>2, <2>3 DEF AuditInv, LoadRecord
  <2> QED
    BY <1>2, <2>4, LoadMoves DEF ReadArtifact, AuditInv, disk
<1>3. CASE Swap(l)
  <2>1. Active(load[l].read) \in [st : Kinds, files : [Files -> Allowed]]
    BY DEF Active, Kinds, AuditInv, LoadRecord
  <2> QED
    BY <1>0, <1>3, <2>1, LoadGotoEffect, LoadMoves DEF Swap, AuditInv, disk
<1>4. CASE RecordError(l)
  BY <1>0, <1>4, LoadGotoEffect, LoadMoves DEF RecordError, AuditInv, disk, LoadPlaces
<1>5. CASE StoreError(l)
  BY <1>0, <1>5, LoadGotoEffect, LoadMoves DEF StoreError, AuditInv, disk
<1>6. CASE BuildErr(l)
  BY <1>6, LoadGotoEffect, LoadMoves DEF BuildErr, AuditInv, disk, LoadPlaces
<1> QED
  BY <1>1, <1>2, <1>3, <1>4, <1>5, <1>6 DEF LoadStep

LEMMA OtherPreserves ==
  ASSUME AuditInv,
         \/ Notice \/ Drain \/ Crash
         \/ \E e \in Enablers : Enable(e) \/ EnableAudit(e)
         \/ \E d \in Disablers : DisableAudit(d) \/ DisableSwap(d)
  PROVE  AuditInv'
<1> USE FilesFacts, NoLoadFacts
<1>0. Watcher \in Loaders /\ Enablers \subseteq Loaders
  BY DEF Loaders
<1>1. CASE Notice
  BY <1>0, <1>1, LoadGotoEffect, LoadMoves DEF Notice, AuditInv, disk, LoadPlaces
<1>2. CASE Drain
  <2>1. Reload(Dormant) \in LoadRecord
    BY DEF Reload, LoadRecord, LoadPlaces, Dormant, Kinds, Empty, Allowed
  <2> QED
    BY <1>0, <1>2, <2>1, LoadMoves DEF Drain, AuditInv, disk
<1>3. ASSUME NEW e \in Enablers, Enable(e) PROVE AuditInv'
  <2>2. Reload(model) \in LoadRecord
    BY DEF Reload, LoadRecord, LoadPlaces, Empty, Allowed, AuditInv
  <2> QED
    BY <1>0, <1>3, <2>2, LoadMoves DEF Enable, AuditInv, disk
<1>4. ASSUME NEW e \in Enablers, EnableAudit(e) PROVE AuditInv'
  <2>1. load' \in [Loaders -> LoadRecord]
    BY <1>0, <1>4, LoadGotoEffect DEF EnableAudit, AuditInv, LoadPlaces
  <2>2. model' \in [st : Kinds, files : [Files -> Allowed]]
    BY <1>0, <1>4 DEF EnableAudit, AuditInv, LoadRecord
  <2> QED
    BY <1>4, <2>1, <2>2, LoadMoves DEF EnableAudit, disk
<1>5. ASSUME NEW d \in Disablers, DisableAudit(d) \/ DisableSwap(d) PROVE AuditInv'
  BY <1>5, LoadMoves DEF DisableAudit, DisableSwap, AuditInv, disk
<1>6. CASE Crash
  <2>1. promo' \in [Uploads -> PromoRecord] /\ \A u \in Uploads : promo'[u].pc \in {"idle", "done"}
    <3> DEFINE q(u) == IF promo[u].pc = "idle" THEN NoPromo ELSE [promo[u] EXCEPT !.pc = "done"]
    <3> SUFFICES ASSUME NEW u \in Uploads
                 PROVE  q(u) \in PromoRecord /\ q(u).pc \in {"idle", "done"}
      <4>1. promo' = [u \in Uploads |-> q(u)]
        BY <1>6 DEF Crash
      <4> HIDE DEF q
      <4> QED
        BY <4>1
    <3>1. NoPromo \in PromoRecord /\ NoPromo.pc = "idle"
      BY DEF NoPromo, PromoRecord, PromoPlaces, Empty
    <3> DEFINE p == "done"
    <3>2. p \in PromoPlaces
      BY DEF PromoPlaces
    <3> HIDE DEF p
    <3>3. [promo[u] EXCEPT !.pc = p] \in PromoRecord /\ [promo[u] EXCEPT !.pc = p].pc = p
      BY <3>2 DEF AuditInv, PromoRecord
    <3> QED
      BY <3>1, <3>3 DEF p
  <2>2. model' \in [st : Kinds, files : [Files -> Allowed]]
    <3>1. Active(models) \in [st : Kinds, files : [Files -> Allowed]]
      BY DEF Active, Kinds, AuditInv
    <3> QED
      BY <1>6, <3>1 DEF Crash
  <2>3. load' \in [Loaders -> LoadRecord] /\ backup' \in [Files -> Allowed]
    BY <1>6 DEF Crash, Empty, Allowed
  <2> QED
    BY <1>6, <2>1, <2>2, <2>3 DEF Crash, AuditInv, Allowed, LoadRecord
<1> QED
  BY <1>1, <1>2, <1>3, <1>4, <1>5, <1>6

(* Whatever fails, races or crashes, and however many uploads there are:   *)
(* no file of an upload is in models/ or is served by inference without    *)
(* the audit row that validate_and_promote requires first.                 *)
THEOREM AuditTheorem == Spec => []ServedIsAudited
<1>1. Init => AuditInv
  <2> SUFFICES ASSUME Init PROVE AuditInv
    OBVIOUS
  <2>1. Whole(1) \in [Files -> Allowed] /\ Empty \in [Files -> Allowed]
    BY DEF Whole, Empty, Allowed
  <2>2. model \in [st : Kinds, files : [Files -> Allowed]]
    BY <2>1 DEF Init, Active, Kinds
  <2>3. promo \in [Uploads -> PromoRecord] /\ \A u \in Uploads : promo[u].pc = "idle"
    BY FilesFacts DEF Init, NoPromo, PromoRecord, PromoPlaces, Empty
  <2> QED
    BY <2>1, <2>2, <2>3, NoLoadFacts DEF Init, AuditInv
<1>2. AuditInv /\ [Next]_vars => AuditInv'
  <2>1. ASSUME AuditInv, Next PROVE AuditInv'
    BY <2>1, PromoPreserves, LoadPreserves, OtherPreserves DEF Next
  <2>2. ASSUME AuditInv, UNCHANGED vars PROVE AuditInv'
    BY <2>2 DEF vars, AuditInv, Allowed, LoadRecord
  <2> QED
    BY <2>1, <2>2
<1>3. AuditInv => ServedIsAudited
  BY DEF AuditInv, ServedIsAudited, Allowed
<1> QED
  BY <1>1, <1>2, <1>3, PTL DEF Spec
=============================================================================
