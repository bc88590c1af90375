------------------------- MODULE TransportSelector --------------------------
(***************************************************************************)
(* src/session/transport_selector.rs: one `open_stream` call.  The iroh    *)
(* adapter is tried first and WSS after it fails, each under a timeout of  *)
(* its own, both under the safety timeout, and all of it can be cancelled. *)
(*                                                                         *)
(* Time is discrete.  The runtime is late by at most Latency, in polling   *)
(* the call for the first time and in acting on a timer that is due; which *)
(* of several due timers it acts on is open, since the timer driver of     *)
(* another thread may fire them between two looks of the same poll.  The   *)
(* adapters are external: an attempt that is polled may resolve, fail or   *)
(* stay pending for ever.                                                  *)
(***************************************************************************)
EXTENDS Naturals, FiniteSets

CONSTANTS Duration,     \* the values a configured timeout may take
          Latency       \* how late the runtime is at most

ASSUME DurationAssumption == Duration \subseteq Nat
ASSUME LatencyAssumption == Latency \in Nat

Adapter == {"iroh", "wss"}

VARIABLES
  limit,        \* TransportSelectorConfig, fixed for the selector
  now,          \* time since open_stream was called
  cancelled,    \* the caller's token
  at,           \* the attempt under way, before and after them
  deadline,     \* when that attempt times out
  running,      \* adapters whose open_stream future is alive
  cause,        \* cause[a]: why the attempt at a failed
  result        \* what open_stream returned

vars == <<limit, now, cancelled, at, deadline, running, cause, result>>

Timeout_Shared(a) == limit["iroh"]

Timeout(a) == limit[a]

Result == {"pending", "iroh", "wss", "Cancelled", "AllFailed", "ContractViolation", "dropped"}

Return_FallsThrough(r) ==
  /\ result' = r
  /\ running' = {}
  /\ UNCHANGED at

Return(r) ==
  /\ result' = r
  /\ at' = "returned"
  /\ running' = {}

Init ==
  /\ limit \in [{"iroh", "wss", "safety"} -> Duration]
  /\ now = 0
  /\ cancelled = FALSE
  /\ at = "check"
  /\ deadline = 0
  /\ running = {}
  /\ cause = [a \in Adapter |-> "none"]
  /\ result = "pending"

(* The drain token of the caller. *)
Cancel ==
  /\ ~cancelled
  /\ cancelled' = TRUE
  /\ UNCHANGED <<limit, now, at, deadline, running, cause, result>>

(* open_stream_inner looks at the token once before the first attempt. *)
CheckCancelled ==
  /\ at = "check"
  /\ IF cancelled
     THEN Return("Cancelled") /\ UNCHANGED deadline
     ELSE /\ at' = "iroh"
          /\ deadline' = now + Timeout("iroh")
          /\ UNCHANGED <<running, result>>
  /\ UNCHANGED <<limit, now, cancelled, cause>>

(* select! polls its branches in random order: the adapter may be entered  *)
(* first whether or not the token is cancelled by then.                    *)
EnterAdapter ==
  /\ at \in Adapter
  /\ at \notin running
  /\ running' = running \cup {at}
  /\ UNCHANGED <<limit, now, cancelled, at, deadline, cause, result>>

(* The cancellation branch: the attempt's token is cancelled, its future   *)
(* dropped.                                                                *)
ObserveCancel ==
  /\ at \in Adapter
  /\ cancelled
  /\ Return("Cancelled")
  /\ UNCHANGED <<limit, now, cancelled, deadline, cause>>

AdapterResolves ==
  /\ at \in running
  /\ Return(at)
  /\ UNCHANGED <<limit, now, cancelled, deadline, cause>>

(* A failed attempt is over: on to WSS, or to the combined error. *)
Fallback(why) ==
  /\ cause' = [cause EXCEPT ![at] = why]
  /\ IF at = "iroh"
     THEN /\ at' = "wss"
          /\ deadline' = now + Timeout("wss")
          /\ running' = {}
          /\ UNCHANGED result
     ELSE Return("AllFailed") /\ UNCHANGED deadline

AdapterFails_Unchecked ==
  /\ at \in running
  /\ Fallback("failed")
  /\ UNCHANGED <<limit, now, cancelled>>

AdapterFails ==
  /\ at \in running
  /\ IF cancelled
     THEN Return("Cancelled") /\ UNCHANGED <<deadline, cause>>
     ELSE Fallback("failed")
  /\ UNCHANGED <<limit, now, cancelled>>

(* The timer of the attempt: the token is not looked at on this path.      *)
AttemptTimesOut ==
  /\ at \in running
  /\ now >= deadline
  /\ Fallback("timeout")
  /\ UNCHANGED <<limit, now, cancelled>>

(* The outer timeout was armed first.  It polls the selection before it    *)
(* looks at its own timer, and gives up if that is due by then: the timer  *)
(* of the attempt may have become due after the selection looked at it.    *)
SafetyExpires ==
  /\ at \in running
  /\ now >= limit.safety
  /\ Return("ContractViolation")
  /\ UNCHANGED <<limit, now, cancelled, deadline, cause>>

(* total_request_timeout of the caller drops the call as it is. *)
CallerDrops ==
  /\ result = "pending"
  /\ Return("dropped")
  /\ UNCHANGED <<limit, now, cancelled, deadline, cause>>

Tick ==
  /\ result = "pending"
  /\ at = "check" => now < Latency
  /\ at \in Adapter => now < deadline + Latency
  /\ now < limit.safety + Latency
  /\ now' = now + 1
  /\ UNCHANGED <<limit, cancelled, at, deadline, running, cause, result>>

Returned == result # "pending" /\ cancelled /\ UNCHANGED vars

Next ==
  \/ Cancel \/ CheckCancelled \/ EnterAdapter \/ ObserveCancel
  \/ AdapterResolves \/ AdapterFails \/ AttemptTimesOut
  \/ SafetyExpires \/ CallerDrops \/ Tick \/ Returned

Spec == Init /\ [][Next]_vars

-----------------------------------------------------------------------------
(* The shape of the state; a call that has its result makes no attempt.    *)
TypeOK ==
  /\ limit \in [{"iroh", "wss", "safety"} -> Duration]
  /\ now \in Nat /\ deadline \in Nat
  /\ cancelled \in BOOLEAN
  /\ at \in Adapter \cup {"check", "returned"}
  /\ running \subseteq Adapter
  /\ cause \in [Adapter -> {"none", "failed", "timeout"}]
  /\ result \in Result
  /\ result = "pending" <=> at # "returned"

(* "must never run iroh and WSS in parallel for a single request": an      *)
(* attempt that was given up is gone before the next one is entered, and   *)
(* none is left when the call has returned.                                *)
NeverParallel == running \subseteq {at}

(* The combined error keeps both causes, and WSS is tried only after iroh  *)
(* has failed for a recorded cause.                                        *)
CausesKept ==
  /\ at = "wss" \/ result = "wss" => cause["iroh"] # "none"
  /\ result = "AllFailed" => \A a \in Adapter : cause[a] # "none"

(* A safety timeout that covers both attempts never hides their outcome,   *)
(* given room for the runtime's lateness: in arming the first timer, in    *)
(* acting on it and in acting on the second.  Their bare sum is not enough *)
(* even then, as it is due first.  The client runtime configures their sum *)
(* and a second.                                                           *)
SafetyIsSlack ==
  limit["iroh"] + limit["wss"] + 3 * Latency < limit["safety"]
    => result # "ContractViolation"

(* An attempt that fails after the call was cancelled starts no fallback;  *)
(* only one that times out at the same moment can.                         *)
FailureAfterCancelStops ==
  [][ cancelled /\ at = "iroh" /\ at' = "wss" => now >= deadline ]_vars

=============================================================================
