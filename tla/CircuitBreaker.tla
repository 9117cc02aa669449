--------------------------- MODULE CircuitBreaker ---------------------------
(***************************************************************************)
(* The circuit breaker of ML inference (core/inference/runner.rs).         *)
(*                                                                         *)
(* One inference task runs batches one after the other; the model watcher  *)
(* and the HTTP handlers swap the model at any time.  The breaker is four  *)
(* atomics that both sides access one at a time, so every load, store and  *)
(* compare-exchange whose result another task may change is a step.        *)
(***************************************************************************)
EXTENDS Integers, Sequences, FiniteSets

CONSTANTS
    Swappers,   \* tasks that call swap_state: the watcher and HTTP requests
    Threshold,  \* ml.circuit_breaker.threshold, positive
    Window,     \* ml.circuit_breaker.window_secs, positive
    Cooldown,   \* ml.circuit_breaker.cooldown_secs
    MaxTime,    \* the clock stops here
    MaxSwaps    \* number of model swaps

ASSUME ConfigAssumption == Threshold \in Nat \ {0} /\ Window \in Nat \ {0} /\ Cooldown \in Nat

ASSUME BoundsAssumption == MaxTime \in Nat /\ MaxSwaps \in Nat

VARIABLES
    phase,        \* cb_phase
    count,        \* cb_failure_count
    windowStart,  \* cb_window_start_secs, 0 when there is no window
    openSince,    \* cb_open_since_secs
    model,        \* the ArcSwap<ModelSourceState>
    inf,          \* the inference task: its place, how its batch ended, the time it read
    swap,         \* [Swappers -> place in swap_state]
    now, swaps,
    failed        \* history: the times of the last Threshold failed batches

breaker == <<phase, count, windowStart, openSince>>
vars == <<phase, count, windowStart, openSince, model, inf, swap, now, swaps, failed>>

ModelStates == {"active", "dormant", "error"}
InfPlaces == {"idle", "cas", "load", "run", "failure", "reopen", "reopened1", "reopened2", "reopened3",
              "window", "newWindow", "first", "add", "count", "trip", "tripped", "s1", "s2", "s3"}

At(p) == inf.pc = p
InfGoto(p) == inf' = [inf EXCEPT !.pc = p]

Init ==
    /\ phase = "closed" /\ count = 0 /\ windowStart = 0 /\ openSince = 0
    /\ model \in ModelStates
    /\ inf = [pc |-> "idle", outcome |-> "ok", time |-> 0]
    /\ swap = [s \in Swappers |-> "idle"]
    /\ now = 1 /\ swaps = 0 /\ failed = <<>>

-----------------------------------------------------------------------------
(* infer_batch.  A batch the breaker refuses changes nothing.              *)

\* The faulty variant that starts the trial without claiming it.
CheckOnly ==
    /\ At("idle")
    /\ phase = "open" => now - openSince >= Cooldown
    /\ phase # "half_open"
    /\ InfGoto("load")
    /\ UNCHANGED <<breaker, model, swap, now, swaps, failed>>


\* is_circuit_open: the load of the phase; only this task writes openSince.
Check ==
    /\ At("idle")
    /\ \/ phase = "closed" /\ InfGoto("load")
       \/ phase = "open" /\ now - openSince >= Cooldown /\ InfGoto("cas")
    /\ UNCHANGED <<breaker, model, swap, now, swaps, failed>>

\* is_circuit_open: the batch goes ahead even when the exchange fails.
Trial ==
    /\ At("cas")
    /\ phase' = IF phase = "open" THEN "half_open" ELSE phase
    /\ InfGoto("load")
    /\ UNCHANGED <<count, windowStart, openSince, model, swap, now, swaps, failed>>

LoadModel ==
    /\ At("load")
    /\ InfGoto(IF model = "active" THEN "run" ELSE "idle")
    /\ UNCHANGED <<breaker, model, swap, now, swaps, failed>>

\* A batch succeeds, one of its stages reports an error, or it panics.
Run(outcome) ==
    /\ At("run")
    /\ inf' = [inf EXCEPT !.outcome = outcome, !.pc = IF outcome = "ok" THEN "s1" ELSE "failure"]
    /\ UNCHANGED <<breaker, model, swap, now, swaps, failed>>

-----------------------------------------------------------------------------
(* record_failure.                                                         *)

\* Where the task goes on after record_failure: a stage error returns an empty result
\* to infer_batch, which takes it for a success; a panic ends the batch.
Recorded == IF inf.outcome = "stage" THEN "s1" ELSE "idle"

\* The times of the latest failures, as many as it takes to open the breaker.
Latest(seq) == IF Len(seq) > Threshold THEN Tail(seq) ELSE seq

LoadPhase ==
    /\ At("failure")
    /\ inf' = [inf EXCEPT !.time = now,
                          !.pc = CASE phase = "open" -> Recorded
                                   [] phase = "half_open" -> "reopen"
                                   [] OTHER -> "window"]
    /\ failed' = Latest(Append(failed, now))
    /\ UNCHANGED <<breaker, model, swap, now, swaps>>

Reopen ==
    /\ At("reopen")
    /\ phase' = IF phase = "half_open" THEN "open" ELSE phase
    /\ InfGoto(IF phase = "half_open" THEN "reopened1" ELSE Recorded)
    /\ UNCHANGED <<count, windowStart, openSince, model, swap, now, swaps, failed>>

ReopenStores ==
    /\ \/ /\ At("reopened1") /\ InfGoto("reopened2")
          /\ openSince' = inf.time /\ UNCHANGED <<count, windowStart>>
       \/ /\ At("reopened2") /\ InfGoto("reopened3")
          /\ count' = Threshold /\ UNCHANGED <<openSince, windowStart>>
       \/ /\ At("reopened3") /\ InfGoto(Recorded)
          /\ windowStart' = inf.time /\ UNCHANGED <<openSince, count>>
    /\ UNCHANGED <<phase, model, swap, now, swaps, failed>>

\* The faulty variant that never starts a new window.
LoadWindowOnce ==
    /\ At("window")
    /\ InfGoto(IF windowStart = 0 THEN "newWindow" ELSE "add")
    /\ UNCHANGED <<breaker, model, swap, now, swaps, failed>>

LoadWindow ==
    /\ At("window")
    /\ InfGoto(IF windowStart = 0 \/ inf.time - windowStart > Window THEN "newWindow" ELSE "add")
    /\ UNCHANGED <<breaker, model, swap, now, swaps, failed>>

CountFailure ==
    /\ \/ At("newWindow") /\ InfGoto("first") /\ windowStart' = inf.time /\ UNCHANGED count
       \/ At("first") /\ InfGoto("count") /\ count' = 1 /\ UNCHANGED windowStart
       \/ At("add") /\ InfGoto("count") /\ count' = count + 1 /\ UNCHANGED windowStart
    /\ UNCHANGED <<phase, openSince, model, swap, now, swaps, failed>>

\* The faulty variant that opens one failure too late.
LoadCountLate ==
    /\ At("count")
    /\ InfGoto(IF count > Threshold + 1 THEN "trip" ELSE Recorded)
    /\ UNCHANGED <<breaker, model, swap, now, swaps, failed>>

LoadCount ==
    /\ At("count")
    /\ InfGoto(IF count >= Threshold THEN "trip" ELSE Recorded)
    /\ UNCHANGED <<breaker, model, swap, now, swaps, failed>>

Trip ==
    /\ At("trip")
    /\ phase' = IF phase = "closed" THEN "open" ELSE phase
    /\ InfGoto(IF phase = "closed" THEN "tripped" ELSE Recorded)
    /\ UNCHANGED <<count, windowStart, openSince, model, swap, now, swaps, failed>>

StoreOpenSince ==
    /\ At("tripped")
    /\ openSince' = inf.time
    /\ InfGoto(Recorded)
    /\ UNCHANGED <<phase, count, windowStart, model, swap, now, swaps, failed>>

-----------------------------------------------------------------------------
(* record_success: three stores, of the inference task or of a swapper.    *)

NextStore(p) == CASE p = "s1" -> "s2" [] p = "s2" -> "s3" [] p = "s3" -> "idle"

SuccessStore(p) ==
    /\ p \in {"s1", "s2", "s3"}
    /\ phase' = IF p = "s1" THEN "closed" ELSE phase
    /\ count' = IF p = "s2" THEN 0 ELSE count
    /\ windowStart' = IF p = "s3" THEN 0 ELSE windowStart
    /\ UNCHANGED openSince

RecordSuccess ==
    /\ SuccessStore(inf.pc)
    /\ InfGoto(NextStore(inf.pc))
    /\ UNCHANGED <<model, swap, now, swaps, failed>>

\* The faulty variant that resets the breaker for no state.
SwapWithoutReset(s, m) ==
    /\ swap[s] = "idle" /\ swaps < MaxSwaps
    /\ model' = m
    /\ swaps' = swaps + 1
    /\ UNCHANGED <<swap, breaker, inf, now, failed>>

\* swap_state stores the model first and then, for an active one, resets the breaker.
SwapState(s, m) ==
    /\ swap[s] = "idle" /\ swaps < MaxSwaps
    /\ model' = m
    /\ swap' = [swap EXCEPT ![s] = IF m = "active" THEN "s1" ELSE "idle"]
    /\ swaps' = swaps + 1
    /\ UNCHANGED <<breaker, inf, now, failed>>

SwapReset(s) ==
    /\ SuccessStore(swap[s])
    /\ swap' = [swap EXCEPT ![s] = NextStore(swap[s])]
    /\ UNCHANGED <<model, inf, now, swaps, failed>>

\* The inference task is inside record_failure.
Recording == inf.pc \notin {"idle", "cas", "load", "run", "s1", "s2", "s3"}

\* The clock stops at MaxTime, which outlasts the cooldown of the last failure.
Tick ==
    /\ now < MaxTime
    /\ Recording => now + Cooldown < MaxTime
    /\ now' = now + 1
    /\ UNCHANGED <<breaker, model, inf, swap, swaps, failed>>

InfStep ==
    \/ Check \/ Trial \/ LoadModel
    \/ LoadPhase \/ Reopen \/ ReopenStores \/ LoadWindow \/ CountFailure \/ LoadCount \/ Trip \/ StoreOpenSince
    \/ RecordSuccess

Fail(outcome) == now + Cooldown <= MaxTime /\ Run(outcome)

Next ==
    \/ InfStep
    \/ Run("ok") \/ Fail("stage") \/ Fail("panic")
    \/ \E s \in Swappers : (\E m \in ModelStates : SwapState(s, m)) \/ SwapReset(s)
    \/ Tick

Spec == Init /\ [][Next]_vars

(* The engine task wakes up at every tick and runs its batches to the end, *)
(* swaps finish, and the clock runs.                                       *)
FairSpec ==
    /\ Spec
    /\ WF_vars(InfStep \/ Run("ok"))
    /\ WF_vars(Tick)
    /\ \A s \in Swappers : WF_vars(SwapReset(s))

-----------------------------------------------------------------------------
(* Properties.                                                             *)

Swapping == \E s \in Swappers : swap[s] # "idle"

(* Type invariant.  The failure counter exceeds the threshold by at most   *)
(* one for each swap: a breaker that is open counts nothing.               *)
TypeOK ==
    /\ phase \in {"closed", "open", "half_open"}
    /\ count \in 0 .. Threshold + swaps
    /\ {windowStart, openSince} \subseteq 0 .. now
    /\ model \in ModelStates
    /\ inf.pc \in InfPlaces /\ inf.outcome \in {"ok", "stage", "panic"} /\ inf.time \in 0 .. now
    /\ swap \in [Swappers -> {"idle", "s1", "s2", "s3"}]
    /\ now \in 1 .. MaxTime /\ swaps \in 0 .. MaxSwaps
    /\ Len(failed) <= Threshold

(* "Inference disabled until reset": no batch is handed to the model while *)
(* the breaker is open; after the cooldown one batch first takes the       *)
(* breaker to half open (is_circuit_open).                                 *)
DisabledWhileOpen == inf.pc \in {"load", "run"} => phase # "open"

(* The breaker never stays half open over a model that could run: when no  *)
(* trial is in flight, a half-open breaker means that there is no active   *)
(* model, or that the swap that brought it is about to close the breaker   *)
(* (swap_state stores the model before it resets the breaker).             *)
NoStuckTrial == phase = "half_open" /\ At("idle") => model # "active" \/ Swapping

(* "{failures} failures in {window_secs}s": a closed breaker opens only    *)
(* after Threshold failed batches within the window (record_failure), as   *)
(* long as no swap has come between the stores of a failing trial.         *)
OpensOnFailures ==
    [][phase = "closed" /\ phase' = "open" /\ swaps = 0 =>
          Len(failed) = Threshold /\ failed[Threshold] - failed[1] <= Window]_vars


(* A failed batch is seen by the breaker: when the threshold is one, the   *)
(* breaker is open once the batch has ended, unless the model was swapped. *)
FailureOpens == Threshold = 1 /\ At("idle") /\ inf.outcome # "ok" /\ swaps = 0 => phase # "closed"
=============================================================================
