------------------------ MODULE CircuitBreakerProofs ------------------------
(***************************************************************************)
(* Proofs about CircuitBreaker, for every number of tasks that swap the    *)
(* model, every threshold, window and cooldown, and any number of steps.   *)
(***************************************************************************)
EXTENDS CircuitBreaker, TLAPS

(* Only the places of the tasks and the phase matter.                      *)
Shape ==
    /\ inf = [pc |-> inf.pc, outcome |-> inf.outcome, time |-> inf.time]
    /\ swap \in [Swappers -> {"idle", "s1", "s2", "s3"}]

(* A half-open breaker has a batch in flight that will settle it, or no    *)
(* model to try, or a swap that has stored its model and is about to close *)
(* the breaker.                                                            *)
TrialPending ==
    phase = "half_open" =>
        \/ inf.pc \in {"load", "run", "failure", "reopen", "s1"}
        \/ model # "active"
        \/ \E s \in Swappers : swap[s] = "s1"

BreakerInv == Shape /\ DisabledWhileOpen /\ TrialPending

LEMMA InitEstablishes == Init => BreakerInv
  BY DEF Init, BreakerInv, Shape, DisabledWhileOpen, TrialPending

LEMMA InfPreserves ==
  ASSUME BreakerInv, InfStep \/ Run("ok") \/ Fail("stage") \/ Fail("panic")
  PROVE  BreakerInv'
<1> USE DEF BreakerInv, Shape, DisabledWhileOpen, TrialPending, At, InfGoto, breaker
<1>1. CASE Check
  BY <1>1 DEF Check
<1>2. CASE Trial
  BY <1>2 DEF Trial
<1>3. CASE LoadModel
  BY <1>3 DEF LoadModel
<1>4. CASE Run("ok") \/ Fail("stage") \/ Fail("panic")
  BY <1>4 DEF Run, Fail
<1>5. CASE LoadPhase
  BY <1>5 DEF LoadPhase, Recorded
<1>6. CASE Reopen
  BY <1>6 DEF Reopen, Recorded
<1>7. CASE ReopenStores
  BY <1>7 DEF ReopenStores, Recorded
<1>8. CASE LoadWindow
  BY <1>8 DEF LoadWindow
<1>9. CASE CountFailure
  BY <1>9 DEF CountFailure
<1>10. CASE LoadCount
  BY <1>10 DEF LoadCount, Recorded
<1>11. CASE Trip
  BY <1>11 DEF Trip, Recorded
<1>12. CASE StoreOpenSince
  BY <1>12 DEF StoreOpenSince, Recorded
<1>13. CASE RecordSuccess
  BY <1>13 DEF RecordSuccess, SuccessStore, NextStore
<1> QED
  BY <1>1, <1>2, <1>3, <1>4, <1>5, <1>6, <1>7, <1>8, <1>9, <1>10, <1>11, <1>12, <1>13 DEF InfStep

LEMMA SwapPreserves ==
  ASSUME BreakerInv, NEW s \in Swappers, (\E m \in ModelStates : SwapState(s, m)) \/ SwapReset(s)
  PROVE  BreakerInv'
<1> USE DEF BreakerInv, Shape, DisabledWhileOpen, TrialPending, breaker
<1>1. CASE \E m \in ModelStates : SwapState(s, m)
  BY <1>1 DEF SwapState, ModelStates
<1>2. CASE SwapReset(s)
  BY <1>2 DEF SwapReset, SuccessStore, NextStore
<1> QED
  BY <1>1, <1>2

(* The breaker never stays half open over a model that could run, and no   *)
(* batch reaches the model while the breaker is open, however the stores   *)
(* of swap_state and record_success interleave with is_circuit_open and    *)
(* record_failure.                                                         *)
THEOREM BreakerTheorem == Spec => [](NoStuckTrial /\ DisabledWhileOpen)
<1>1. Init => BreakerInv
  BY InitEstablishes
<1>2. BreakerInv /\ [Next]_vars => BreakerInv'
  <2> SUFFICES ASSUME BreakerInv, [Next]_vars PROVE BreakerInv'
    OBVIOUS
  <2>1. CASE Tick
    BY <2>1 DEF Tick, BreakerInv, Shape, DisabledWhileOpen, TrialPending, breaker
  <2>2. CASE UNCHANGED vars
    BY <2>2 DEF vars, BreakerInv, Shape, DisabledWhileOpen, TrialPending
  <2> QED
    BY <2>1, <2>2, InfPreserves, SwapPreserves DEF Next
<1>3. BreakerInv => NoStuckTrial /\ DisabledWhileOpen
  BY DEF BreakerInv, TrialPending, NoStuckTrial, Swapping, At
<1> QED
  BY <1>1, <1>2, <1>3, PTL DEF Spec
=============================================================================
