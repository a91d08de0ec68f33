--------------------------- MODULE OpenAlgoStream ---------------------------
(***************************************************************************)
(* OpenAlgoStreamManager (openalgo_stream.py): the integrity state machine *)
(* in front of the OpenAlgo WebSocket.  Its methods are called by the      *)
(* transport (frames, acknowledgements, disconnects, also late ones of an  *)
(* earlier session), by a watchdog (check_heartbeat) and by the consumer   *)
(* (drain, stop), in any order.  A call that raises leaves the manager as  *)
(* it was and is not a step.                                               *)
(*                                                                         *)
(* A frame is a payload [key, stamp, body]; its SHA-256 is the frame       *)
(* itself, stamp 0 is a payload without a timestamp, body is the rest of   *)
(* the payload.  The duplicate, drop, reorder and stale-session counters   *)
(* only feed the snapshot and are left out.  WAIT_STREAM_INTEGRITY stands  *)
(* for the blocker codes that are never withdrawn (heartbeat, timestamp,   *)
(* unsubscribed event, reorder, backpressure, REST fallback).              *)
(***************************************************************************)
EXTENDS Naturals, Sequences, FiniteSets

CONSTANTS
  Key,            \* (exchange, symbol) pairs the provider may send
  Body,           \* payload contents besides key and timestamp
  Sent,           \* the payloads the provider sends
  Reason,         \* reason codes of disconnect
  MaxStamp,       \* bound: provider timestamps are 1 .. MaxStamp
  MaxSession,     \* bound: begin_connect calls of a behaviour
  MaxQueue,       \* max_queue_size
  MaxInstruments  \* 100 in the code

(* Reason codes are free text; none repeats the two codes that a later     *)
(* acknowledgement withdraws.                                              *)
ASSUME StreamAssumption ==
  /\ MaxStamp \in Nat
  /\ MaxSession \in Nat
  /\ MaxQueue \in Nat \ {0}
  /\ MaxInstruments \in Nat
  /\ "WAIT_STREAM_AUTH" \notin Reason
  /\ "WAIT_STREAM_SUBSCRIPTION" \notin Reason

(* Every payload names its instrument; the timestamp may be missing (0).    *)
ASSUME SentAssumption == Sent \subseteq [key : Key, stamp : 0 .. MaxStamp, body : Body]

StreamState ==
  {"DISABLED", "DISCONNECTED", "AUTHENTICATING", "CONNECTED", "SUBSCRIBING",
   "ACTIVE", "GAP_DETECTED", "RECONNECTING", "STOPPED"}
StreamContinuity == {"STREAM_SEQUENCE_UNAVAILABLE", "GAP_DETECTED"}
Blocker == Reason \cup
  {"WAIT_STREAM_AUTH", "WAIT_STREAM_SUBSCRIPTION", "WAIT_STREAM_INTEGRITY"}
Frame == [key : Key, stamp : 0 .. MaxStamp, body : Body]
Event == [session : Nat, sequence : Nat, frame : Frame,
          role : {"EVIDENCE_SHORTLIST", "DISPLAY_ONLY"}]

VARIABLES
  state, continuity, blockers,
  session_counter,
  session_id,        \* the current session number, 0 for None
  evidence, display, \* subscribed keys by role
  queue,             \* accepted events nobody drained yet
  seen_hashes,       \* frames accepted or refused as reordered
  last_stamp,        \* newest provider timestamp of a key, 0 for none
  local_sequence,
  overdue,           \* heartbeat_timeout_seconds passed since the last heartbeat
  log,               \* history: every event ever accepted
  refused            \* history: a frame of the live session was refused

sessionVars == <<session_counter, session_id>>
subscriptionVars == <<evidence, display>>
eventVars == <<queue, seen_hashes, last_stamp, local_sequence, log, refused>>
gapVars == <<continuity, blockers>>
vars == <<state, gapVars, sessionVars, subscriptionVars, eventVars, overdue>>

TypeOK ==
  /\ state \in StreamState
  /\ continuity \in StreamContinuity
  /\ blockers \subseteq Blocker
  /\ session_counter \in Nat
  /\ session_id \in Nat
  /\ evidence \subseteq Key
  /\ display \subseteq Key \ evidence
  /\ queue \in Seq(Event)
  /\ seen_hashes \subseteq Frame
  /\ last_stamp \in [Key -> 0 .. MaxStamp]
  /\ local_sequence \in Nat
  /\ overdue \in BOOLEAN
  /\ log \subseteq Event
  /\ refused \in BOOLEAN

(* __init__, with enabled true or false.                                   *)
Init ==
  /\ state \in {"DISCONNECTED", "DISABLED"}
  /\ continuity = "STREAM_SEQUENCE_UNAVAILABLE"
  /\ blockers = {}
  /\ session_counter = 0 /\ session_id = 0
  /\ evidence = {} /\ display = {}
  /\ queue = <<>> /\ seen_hashes = {}
  /\ last_stamp = [k \in Key |-> 0]
  /\ local_sequence = 0
  /\ overdue = FALSE
  /\ log = {} /\ refused = FALSE

(* Time passes without a heartbeat.                                        *)
HeartbeatTimeout ==
  /\ ~overdue
  /\ overdue' = TRUE
  /\ UNCHANGED <<state, gapVars, sessionVars, subscriptionVars, eventVars>>

_mark_gap(blocker) ==
  /\ blockers' = blockers \cup {blocker}
  /\ continuity' = "GAP_DETECTED"
  /\ state' = "GAP_DETECTED"
-----------------------------------------------------------------------------
begin_connect ==
  /\ state \in {"DISCONNECTED", "RECONNECTING"}
  /\ session_counter < MaxSession
  /\ session_counter' = session_counter + 1
  /\ session_id' = session_counter + 1
  /\ state' = "AUTHENTICATING"
  /\ overdue' = FALSE
  /\ UNCHANGED <<gapVars, subscriptionVars, eventVars>>

authentication_result(accepted) ==
  /\ state = "AUTHENTICATING"
  /\ \/ /\ ~accepted
        /\ state' = "DISCONNECTED"
        /\ blockers' = blockers \cup {"WAIT_STREAM_AUTH"}
        /\ UNCHANGED overdue
     \/ /\ accepted
        /\ state' = "CONNECTED"
        /\ blockers' = blockers \ {"WAIT_STREAM_AUTH"}
        /\ overdue' = FALSE
  /\ UNCHANGED <<continuity, sessionVars, subscriptionVars, eventVars>>

(* A plausible bug: a key may stay subscribed in both roles.               *)
configure_subscriptions_BothRoles(shortlist, extra) ==
  /\ state = "CONNECTED"
  /\ shortlist # {}
  /\ Cardinality(shortlist \cup extra) <= MaxInstruments
  /\ evidence' = shortlist
  /\ display' = extra
  /\ state' = "SUBSCRIBING"
  /\ UNCHANGED <<gapVars, sessionVars, eventVars, overdue>>

(* A key in both lists is evidence.                                        *)
configure_subscriptions(shortlist, extra) ==
  /\ state = "CONNECTED"
  /\ shortlist # {}
  /\ Cardinality(shortlist \cup extra) <= MaxInstruments
  /\ evidence' = shortlist
  /\ display' = extra \ shortlist
  /\ state' = "SUBSCRIBING"
  /\ UNCHANGED <<gapVars, sessionVars, eventVars, overdue>>

(* A plausible bug: a good acknowledgement clears every blocker.           *)
subscription_result_ClearsBlockers(accepted) ==
  /\ state = "SUBSCRIBING"
  /\ \/ ~accepted /\ _mark_gap("WAIT_STREAM_SUBSCRIPTION") /\ UNCHANGED overdue
     \/ /\ accepted
        /\ state' = "ACTIVE"
        /\ blockers' = {}
        /\ overdue' = FALSE
        /\ UNCHANGED continuity
  /\ UNCHANGED <<sessionVars, subscriptionVars, eventVars>>

subscription_result(accepted) ==
  /\ state = "SUBSCRIBING"
  /\ \/ ~accepted /\ _mark_gap("WAIT_STREAM_SUBSCRIPTION") /\ UNCHANGED overdue
     \/ /\ accepted
        /\ state' = "ACTIVE"
        /\ blockers' = blockers \ {"WAIT_STREAM_SUBSCRIPTION"}
        /\ overdue' = FALSE
        /\ UNCHANGED continuity
  /\ UNCHANGED <<sessionVars, subscriptionVars, eventVars>>
-----------------------------------------------------------------------------
Streaming == state \in {"ACTIVE", "GAP_DETECTED"}

(* A heartbeat of another session is counted and ignored.                  *)
heartbeat(session) ==
  /\ session = session_id
  /\ Streaming
  /\ overdue' = FALSE
  /\ UNCHANGED <<state, gapVars, sessionVars, subscriptionVars, eventVars>>

check_heartbeat ==
  /\ Streaming
  /\ overdue
  /\ _mark_gap("WAIT_STREAM_INTEGRITY")
  /\ UNCHANGED <<sessionVars, subscriptionVars, eventVars, overdue>>
-----------------------------------------------------------------------------
(* A plausible bug: frames are not matched with the live session.          *)
Live_AnySession(session) == Streaming /\ session > 0

(* ingest goes on: the frame carries the live session, the stream is up.   *)
Live(session) == Streaming /\ session = session_id

(* A refused frame: the gap is recorded, nothing is queued.                *)
Refuse(blocker) ==
  /\ _mark_gap(blocker)
  /\ refused' = TRUE
  /\ UNCHANGED <<sessionVars, subscriptionVars, queue, last_stamp, local_sequence, log,
                 overdue>>

Unsubscribed(session, f) ==
  /\ Live(session)
  /\ f.key \notin evidence \cup display
  /\ Refuse("WAIT_STREAM_INTEGRITY")
  /\ UNCHANGED seen_hashes

MissingTimestamp(session, f) ==
  /\ Live(session)
  /\ f.key \in evidence \cup display
  /\ f.stamp = 0
  /\ Refuse("WAIT_STREAM_INTEGRITY")
  /\ UNCHANGED seen_hashes

(* The frame got past the subscription, timestamp and duplicate checks; a  *)
(* duplicate is counted and changes nothing else.                          *)
Fresh(session, f) ==
  /\ Live(session)
  /\ f.key \in evidence \cup display
  /\ f.stamp # 0
  /\ f \notin seen_hashes

(* A plausible bug: equal timestamps pass.                                 *)
OutOfOrder_EqualPasses(f) == f.stamp < last_stamp[f.key]

OutOfOrder(f) == f.stamp <= last_stamp[f.key]

Reordered(session, f) ==
  /\ Fresh(session, f)
  /\ OutOfOrder(f)
  /\ Refuse("WAIT_STREAM_INTEGRITY")
  /\ seen_hashes' = seen_hashes \cup {f}

Backpressure(session, f) ==
  /\ Fresh(session, f)
  /\ ~OutOfOrder(f)
  /\ Len(queue) >= MaxQueue
  /\ Refuse("WAIT_STREAM_INTEGRITY")
  /\ UNCHANGED seen_hashes

RoleOf(k) == IF k \in evidence THEN "EVIDENCE_SHORTLIST" ELSE "DISPLAY_ONLY"

Accept(session, f) ==
  /\ Fresh(session, f)
  /\ ~OutOfOrder(f)
  /\ Len(queue) < MaxQueue
  /\ LET e == [session |-> session, sequence |-> local_sequence + 1, frame |-> f,
               role |-> RoleOf(f.key)]
     IN  queue' = Append(queue, e) /\ log' = log \cup {e}
  /\ local_sequence' = local_sequence + 1
  /\ seen_hashes' = seen_hashes \cup {f}
  /\ last_stamp' = [last_stamp EXCEPT ![f.key] = f.stamp]
  /\ UNCHANGED <<state, gapVars, sessionVars, subscriptionVars, refused, overdue>>

ingest(session, f) ==
  \/ Unsubscribed(session, f) \/ MissingTimestamp(session, f) \/ Reordered(session, f)
  \/ Backpressure(session, f) \/ Accept(session, f)
-----------------------------------------------------------------------------
disconnect(reason) ==
  /\ state \notin {"DISABLED", "STOPPED"}
  /\ blockers' = blockers \cup {reason}
  /\ continuity' = "GAP_DETECTED"
  /\ state' = "RECONNECTING"
  /\ UNCHANGED <<sessionVars, subscriptionVars, eventVars, overdue>>

record_rest_fallback ==
  /\ blockers' = blockers \cup {"WAIT_STREAM_INTEGRITY"}
  /\ UNCHANGED <<state, continuity, sessionVars, subscriptionVars, eventVars, overdue>>

(* The consumer takes the count oldest events.                             *)
drain(count) ==
  /\ count \in 1 .. Len(queue)
  /\ queue' = SubSeq(queue, count + 1, Len(queue))
  /\ UNCHANGED <<state, gapVars, sessionVars, subscriptionVars, seen_hashes, last_stamp,
                 local_sequence, log, refused, overdue>>

stop ==
  /\ state' = "STOPPED"
  /\ session_id' = 0
  /\ queue' = <<>>
  /\ UNCHANGED <<gapVars, session_counter, subscriptionVars, seen_hashes, last_stamp,
                 local_sequence, log, refused, overdue>>
-----------------------------------------------------------------------------
Next ==
  \/ HeartbeatTimeout
  \/ begin_connect
  \/ \E accepted \in BOOLEAN :
       authentication_result(accepted) \/ subscription_result(accepted)
  \/ \E shortlist, extra \in SUBSET Key : configure_subscriptions(shortlist, extra)
  \/ \E session \in 1 .. MaxSession : heartbeat(session)
  \/ check_heartbeat
  \/ \E session \in 1 .. MaxSession, f \in Sent : ingest(session, f)
  \/ \E reason \in Reason : disconnect(reason)
  \/ record_rest_fallback
  \/ \E count \in 1 .. MaxQueue : drain(count)
  \/ stop

Spec == Init /\ [][Next]_vars
-----------------------------------------------------------------------------
(* Whatever is reordered, resent or replayed after a reconnect, the events *)
(* the manager accepts of a key carry strictly increasing provider         *)
(* timestamps in receipt order; so no payload is accepted twice.           *)
ProviderTimeAdvances ==
  \A e, g \in log :
    e.sequence < g.sequence /\ e.frame.key = g.frame.key => e.frame.stamp < g.frame.stamp

(* A late frame of an earlier session is never taken for one of a later    *)
(* session: sessions and receipt numbers grow together, and no two events  *)
(* share a receipt number.                                                 *)
ReceiptsFollowSessions ==
  \A e, g \in log :
    /\ e.sequence < g.sequence => e.session <= g.session
    /\ e.sequence = g.sequence => e = g

(* Continuity is never claimed over a reconnect: once events of two        *)
(* sessions were accepted the gap is on record, and no acknowledgement,    *)
(* heartbeat or REST fallback takes it back.                               *)
ReconnectLeavesGap ==
  (\E e, g \in log : e.session # g.session) => continuity = "GAP_DETECTED"

(* No frame of the live session is dropped silently (backpressure, missing *)
(* timestamp, reordering, unsubscribed key).                               *)
RefusalLeavesGap == refused => continuity = "GAP_DETECTED"

(* A recorded gap always has a blocker code, although good acknowledgements*)
(* withdraw two of the codes.                                              *)
GapIsExplained == continuity = "GAP_DETECTED" => blockers # {}

(* What was lost is never hidden again.  Duplicates, acknowledgements,     *)
(* heartbeats, fallbacks and draining come in any order; the consumer that *)
(* reads continuity and blocker codes still sees every loss.               *)
LossIsNeverHidden ==
  /\ ReconnectLeavesGap
  /\ RefusalLeavesGap
  /\ GapIsExplained
=============================================================================
