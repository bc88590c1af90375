---------------------- MODULE TransportSelectorProofs -----------------------
(***************************************************************************)
(* What one open_stream call guarantees for every configuration of its     *)
(* three timeouts.                                                         *)
(***************************************************************************)
EXTENDS TransportSelector, TLAPS

(* TypeOK without the Boolean flag, which no argument here needs.          *)
Places ==
  /\ limit \in [{"iroh", "wss", "safety"} -> Duration]
  /\ now \in Nat /\ deadline \in Nat
  /\ at \in Adapter \cup {"check", "returned"}
  /\ running \subseteq Adapter
  /\ cause \in [Adapter -> {"none", "failed", "timeout"}]
  /\ result \in Result
  /\ result = "pending" <=> at # "returned"

(* The first attempt begins at most one Latency after the call, the second *)
(* when the first has ended, and no attempt outlasts its own timer by more *)
(* than that.                                                              *)
Timing ==
  /\ at = "check" => now <= Latency
  /\ at = "iroh"  => deadline <= limit["iroh"] + Latency
  /\ at = "wss"   => deadline <= limit["iroh"] + limit["wss"] + 2 * Latency
  /\ at \in Adapter => now <= deadline + Latency

IInv == Places /\ Timing /\ NeverParallel /\ CausesKept /\ SafetyIsSlack

LEMMA LimitsAreTimes ==
  ASSUME Places
  PROVE  limit["iroh"] \in Nat /\ limit["wss"] \in Nat /\ limit["safety"] \in Nat
BY DurationAssumption DEF Places, DurationAssumption

LEMMA InitInvariant == Init => IInv
BY DurationAssumption, LatencyAssumption
   DEF Init, IInv, Places, Timing, NeverParallel, CausesKept, SafetyIsSlack, Adapter, Result,
       DurationAssumption

(* A fallback from iroh starts the WSS attempt no later than iroh's timer. *)
LEMMA FallbackPreserves ==
  ASSUME IInv, NEW why \in {"failed", "timeout"}, at \in running, Fallback(why),
         UNCHANGED <<limit, now>>
  PROVE  IInv'
<1> USE LimitsAreTimes, LatencyAssumption
        DEF IInv, Places, Timing, NeverParallel, CausesKept, SafetyIsSlack, Adapter, Result,
            Fallback, Return, Timeout
<1>1. at \in Adapter
  OBVIOUS
<1>2. CASE at = "iroh"
  BY <1>2
<1>3. CASE at = "wss"
  BY <1>3
<1> QED BY <1>1, <1>2, <1>3

LEMMA NextPreserves == IInv /\ [Next]_vars => IInv'
<1> SUFFICES ASSUME IInv, [Next]_vars PROVE IInv'
  OBVIOUS
<1> USE LimitsAreTimes, LatencyAssumption
        DEF IInv, Places, Timing, NeverParallel, CausesKept, SafetyIsSlack, Adapter, Result
<1>1. UNCHANGED vars => IInv'
  BY DEF vars
<1>2. CASE Cancel           BY <1>2 DEF Cancel
<1>3. CASE CheckCancelled
  <2>1. CASE cancelled      BY <1>3, <2>1 DEF CheckCancelled, Return
  <2>2. CASE ~cancelled
    <3>1. /\ at = "check" /\ at' = "iroh" /\ deadline' = now + limit["iroh"]
          /\ UNCHANGED <<limit, now, cause, running, result>>
      BY <1>3, <2>2 DEF CheckCancelled, Timeout
    <3>2. running = {} /\ now <= Latency /\ now \in Nat
      BY <3>1
    <3> QED BY <3>1, <3>2
  <2> QED BY <2>1, <2>2
<1>4. CASE EnterAdapter     BY <1>4 DEF EnterAdapter
<1>5. CASE ObserveCancel    BY <1>5 DEF ObserveCancel, Return
<1>6. CASE AdapterResolves
  <2>1. at \in Adapter
    BY <1>6 DEF AdapterResolves
  <2>2. CASE at = "iroh"    BY <1>6, <2>2 DEF AdapterResolves, Return
  <2>3. CASE at = "wss"     BY <1>6, <2>3 DEF AdapterResolves, Return
  <2> QED BY <2>1, <2>2, <2>3
<1>7. CASE AdapterFails
  <2>1. CASE cancelled      BY <1>7, <2>1 DEF AdapterFails, Return
  <2>2. CASE ~cancelled     BY <1>7, <2>2, FallbackPreserves DEF AdapterFails
  <2> QED BY <2>1, <2>2
<1>8. CASE AttemptTimesOut  BY <1>8, FallbackPreserves DEF AttemptTimesOut
<1>9. CASE SafetyExpires    BY <1>9 DEF SafetyExpires, Return
<1>10. CASE CallerDrops     BY <1>10 DEF CallerDrops, Return
<1>11. CASE Tick            BY <1>11 DEF Tick
<1>12. CASE Returned        BY <1>12, <1>1 DEF Returned
<1> QED
  BY <1>1, <1>2, <1>3, <1>4, <1>5, <1>6, <1>7, <1>8, <1>9, <1>10, <1>11, <1>12 DEF Next

THEOREM InductiveInvariant == Spec => []IInv
BY InitInvariant, NextPreserves, PTL DEF Spec

(* The flag is a Boolean: only Cancel writes it.                           *)
LEMMA FlagPreserved == cancelled \in BOOLEAN /\ [Next]_vars => (cancelled \in BOOLEAN)'
<1> SUFFICES ASSUME cancelled \in BOOLEAN, [Next]_vars PROVE cancelled' \in BOOLEAN
  OBVIOUS
<1>1. CASE Cancel
  BY <1>1 DEF Cancel
<1>2. CASE UNCHANGED cancelled
  BY <1>2
<1>3. Next => Cancel \/ UNCHANGED cancelled
  BY DEF Next, CheckCancelled, EnterAdapter, ObserveCancel, AdapterResolves, AdapterFails,
         AttemptTimesOut, SafetyExpires, CallerDrops, Tick, Returned, Return, Fallback, Timeout,
         vars
<1> QED
  BY <1>1, <1>2, <1>3 DEF vars

(* Every variable of a call keeps its shape, and a call has a result       *)
(* exactly when it has returned: no path returns without one.              *)
THEOREM SelectorTypeCorrect == Spec => []TypeOK
<1>1. Init => cancelled \in BOOLEAN
  BY DEF Init
<1>2. Spec => [](cancelled \in BOOLEAN)
  BY <1>1, FlagPreserved, PTL DEF Spec
<1>3. IInv /\ cancelled \in BOOLEAN => TypeOK
  BY DEF IInv, Places, TypeOK
<1> QED
  BY <1>2, <1>3, InductiveInvariant, PTL

(* No timing of failures, cancellations and timers has both adapters at    *)
(* work for one request, and none is left behind by the call.              *)
THEOREM SelectorNeverParallel == Spec => []NeverParallel
<1>1. IInv => NeverParallel
  BY DEF IInv
<1> QED BY InductiveInvariant, <1>1, PTL

(* The combined error names a cause for each adapter, and WSS is never     *)
(* tried before iroh has one.                                              *)
THEOREM SelectorKeepsCauses == Spec => []CausesKept
<1>1. IInv => CausesKept
  BY DEF IInv
<1> QED BY InductiveInvariant, <1>1, PTL

(* Whatever the timeouts and the lateness of the runtime are, a safety     *)
(* timeout above their sum and three times that lateness never turns an    *)
(* answer into ContractViolation.                                          *)
THEOREM SafetyTimeoutIsSlack == Spec => []SafetyIsSlack
<1>1. IInv => SafetyIsSlack
  BY DEF IInv
<1> QED BY InductiveInvariant, <1>1, PTL

(* After a cancellation the only way on to WSS is iroh's own timer.        *)
THEOREM CancelledFailureStops == Spec => FailureAfterCancelStops
<1>1. [Next]_vars => [cancelled /\ at = "iroh" /\ at' = "wss" => now >= deadline]_vars
  <2> SUFFICES ASSUME Next, cancelled, at = "iroh", at' = "wss" PROVE now >= deadline
    BY DEF vars
  <2>1. at' # at
    OBVIOUS
  <2>2. AdapterFails => FALSE
    BY DEF AdapterFails, Return
  <2>3. AttemptTimesOut => now >= deadline
    BY DEF AttemptTimesOut
  <2> QED
    BY <2>1, <2>2, <2>3
       DEF Next, Cancel, CheckCancelled, EnterAdapter, ObserveCancel, AdapterResolves,
           SafetyExpires, CallerDrops, Tick, Returned, Return, vars
<1> QED BY <1>1, PTL DEF Spec, FailureAfterCancelStops

=============================================================================
