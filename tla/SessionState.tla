---------------------------- MODULE SessionState ----------------------------
(***************************************************************************)
(* The pure per-session state machine of src/session/state.rs: what        *)
(* `SessionState::transition` returns for every state and event, and the   *)
(* typed effects of src/session/effects.rs it emits, in order.             *)
(*                                                                         *)
(* Instants are left out: `since` and `deadline` are stored and never      *)
(* compared by the code; a deadline "is reached" when some caller sends    *)
(* the event.                                                              *)
(***************************************************************************)
EXTENDS Naturals, Sequences

CONSTANT MaxStreams      \* u32::MAX, where the stream count saturates

ASSUME MaxStreamsAssumption == MaxStreams \in Nat \ {0}

CloseReason ==
  {"client_disconnect", "auth_revoked", "drain_shutdown", "idle_timeout",
   "transport_lost"}

(* States are records of one shape; fields that a variant lacks are idle. *)
Active(count) == [phase |-> "active",  streams |-> count, reason |-> "none"]
Closing(why)  == [phase |-> "closing", streams |-> 0,     reason |-> why]
Closed        == [phase |-> "closed",  streams |-> 0,     reason |-> "none"]

State == {Active(n) : n \in 0..MaxStreams}
           \cup {Closing(r) : r \in CloseReason}
           \cup {Closed}

Event == {"StreamOpened", "StreamClosed", "TransportLost", "DrainRequested",
          "DeadlineReached"}

(* Effects: timer commands, registry commands and metric events. *)
CancelIdle          == [target |-> "timer",    op |-> "CancelIdle",      reason |-> "none"]
MarkNoNewStreams    == [target |-> "registry", op |-> "MarkNoNewStreams", reason |-> "none"]
CloseStreamsGently  == [target |-> "registry", op |-> "CloseGently",     reason |-> "none"]
CloseStreamsForced  == [target |-> "registry", op |-> "CloseForced",     reason |-> "none"]
RemoveSession       == [target |-> "registry", op |-> "Remove",          reason |-> "none"]
StreamMetric(op)    == [target |-> "metric",   op |-> op,                reason |-> "none"]
SessionClosing(why) == [target |-> "metric",   op |-> "SessionClosing",  reason |-> why]
SessionClosed(why)  == [target |-> "metric",   op |-> "SessionClosed",   reason |-> why]

Effect ==
  {CancelIdle, MarkNoNewStreams, CloseStreamsGently, CloseStreamsForced, RemoveSession,
   StreamMetric("StreamOpened"), StreamMetric("StreamClosed")}
    \cup {SessionClosing(r) : r \in CloseReason}
    \cup {SessionClosed(r) : r \in CloseReason}

SaturatingInc_Lost(n) == n

SaturatingInc(n) == IF n < MaxStreams THEN n + 1 ELSE MaxStreams
SaturatingDec(n) == IF n > 0 THEN n - 1 ELSE 0

-----------------------------------------------------------------------------
(* The closing of the last stream retires the session at once. *)
LastStream(s) == SaturatingDec(s.streams) = 0

NextState_Reopens(s, event) ==
  CASE s.phase # "closing" /\ event = "StreamOpened"    -> Active(SaturatingInc(s.streams))
    [] s.phase = "active" /\ event = "StreamClosed"    -> IF LastStream(s) THEN Closed
                                                          ELSE Active(SaturatingDec(s.streams))
    [] s.phase = "closing" /\ event = "DeadlineReached" -> Closed
    [] OTHER                                           -> s

NextState_KeepsActive(s, event) ==
  CASE s.phase = "active" /\ event = "StreamOpened"    -> Active(SaturatingInc(s.streams))
    [] s.phase = "active" /\ event = "StreamClosed"    -> Active(SaturatingDec(s.streams))
    [] s.phase = "closing" /\ event = "DeadlineReached" -> Closed
    [] OTHER                                           -> s

NextState(s, event) ==
  CASE s.phase = "active" /\ event = "StreamOpened"    -> Active(SaturatingInc(s.streams))
    [] s.phase = "active" /\ event = "StreamClosed"    -> IF LastStream(s) THEN Closed
                                                          ELSE Active(SaturatingDec(s.streams))
    [] s.phase = "active" /\ event = "TransportLost"   -> Closing("transport_lost")
    [] s.phase = "active" /\ event = "DrainRequested"  -> Closing("drain_shutdown")
    [] s.phase = "closing" /\ event = "DeadlineReached" -> Closed
    [] OTHER                                           -> s

EffectsOf_AnyPhase(s, event) ==
  CASE event = "StreamOpened" -> <<CancelIdle, StreamMetric("StreamOpened")>>
    [] event = "StreamClosed" ->
         <<StreamMetric("StreamClosed")>> \o
         (IF LastStream(s)
          THEN <<CancelIdle, RemoveSession, SessionClosed("client_disconnect")>>
          ELSE <<>>)
    [] OTHER                  -> <<>>

EffectsOf_NoRemove(s, event) ==
  IF s.phase = "active" /\ event = "StreamClosed" /\ LastStream(s)
  THEN <<StreamMetric("StreamClosed"), CancelIdle, SessionClosed("client_disconnect")>>
  ELSE <<>>

EffectsOf(s, event) ==
  CASE s.phase = "active" /\ event = "StreamOpened"    ->
         <<CancelIdle, StreamMetric("StreamOpened")>>
    [] s.phase = "active" /\ event = "StreamClosed"    ->
         IF LastStream(s)
         THEN <<StreamMetric("StreamClosed"), CancelIdle, RemoveSession,
                SessionClosed("client_disconnect")>>
         ELSE <<StreamMetric("StreamClosed")>>
    [] s.phase = "active" /\ event = "TransportLost"   ->
         <<CloseStreamsGently, SessionClosing("transport_lost")>>
    [] s.phase = "active" /\ event = "DrainRequested"  ->
         <<MarkNoNewStreams, CloseStreamsGently, CancelIdle, SessionClosing("drain_shutdown")>>
    [] s.phase = "closing" /\ event = "DeadlineReached" ->
         <<CloseStreamsForced, RemoveSession, CancelIdle, SessionClosed(s.reason)>>
    [] OTHER                                           -> <<>>

=============================================================================
