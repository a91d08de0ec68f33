------------------------ MODULE OpenAlgoStream_proofs ------------------------
(***************************************************************************)
(* What the stream manager keeps for any number of instruments, sessions,  *)
(* timestamps and any queue size.                                          *)
(***************************************************************************)
EXTENDS OpenAlgoStream, TLAPS

(* What the provider sends are frames as ingest reads them.                *)
LEMMA SentAreFrames == Sent \subseteq Frame
  BY SentAssumption DEF Frame

(* Each method keeps the fields well typed.                                *)
LEMMA TypeStep == TypeOK /\ [Next]_vars => TypeOK'
<1> SUFFICES ASSUME TypeOK, [Next]_vars PROVE TypeOK'
  OBVIOUS
<1> USE StreamAssumption
    DEF TypeOK, StreamState, StreamContinuity, Blocker, gapVars, sessionVars,
        subscriptionVars, eventVars
<1>1. CASE HeartbeatTimeout
  <2>1. overdue' \in BOOLEAN
    BY <1>1, Zenon DEF HeartbeatTimeout
  <2> QED
    BY <1>1, <2>1 DEF HeartbeatTimeout
<1>9. CASE begin_connect
  <2>1. overdue' \in BOOLEAN
    BY <1>9, Zenon DEF begin_connect
  <2>2. state' = "AUTHENTICATING"
    BY <1>9 DEF begin_connect
  <2>3. session_counter' \in Nat /\ session_id' \in Nat
    BY <1>9 DEF begin_connect
  <2> QED
    BY <1>9, <2>1, <2>2, <2>3 DEF begin_connect
<1>10. CASE check_heartbeat \/ record_rest_fallback
  BY <1>10 DEF check_heartbeat, record_rest_fallback, _mark_gap
<1>11. ASSUME NEW session \in 1 .. MaxSession, heartbeat(session)
       PROVE  TypeOK'
  BY <1>11 DEF heartbeat
<1>2. ASSUME NEW accepted \in BOOLEAN,
             authentication_result(accepted) \/ subscription_result(accepted)
      PROVE  TypeOK'
  BY <1>2 DEF authentication_result, subscription_result, _mark_gap
<1>3. ASSUME NEW shortlist \in SUBSET Key, NEW extra \in SUBSET Key,
             configure_subscriptions(shortlist, extra)
      PROVE  TypeOK'
  BY <1>3 DEF configure_subscriptions
<1>4. ASSUME NEW session \in 1 .. MaxSession, NEW f \in Sent, ingest(session, f)
      PROVE  TypeOK'
  <2>1. f \in Frame
    BY SentAreFrames
  <2>2. CASE Accept(session, f)
    <3> DEFINE e == [session |-> session, sequence |-> local_sequence + 1, frame |-> f,
                     role |-> RoleOf(f.key)]
    <3>1. e \in Event
      BY <2>1 DEF Event, RoleOf
    <3>2. f.key \in Key /\ f.stamp \in 0 .. MaxStamp
      BY <2>1 DEF Frame
    <3>3. queue' = Append(queue, e) /\ log' = log \cup {e}
      BY <2>2 DEF Accept
    <3>4. queue' \in Seq(Event) /\ log' \subseteq Event
      BY <3>1, <3>3
    <3> HIDE DEF e
    <3> QED
      BY <2>1, <2>2, <3>2, <3>4 DEF Accept
  <2>3. CASE Unsubscribed(session, f) \/ MissingTimestamp(session, f)
             \/ Reordered(session, f) \/ Backpressure(session, f)
    BY <2>1, <2>3 DEF Unsubscribed, MissingTimestamp, Reordered, Backpressure, Refuse, _mark_gap
  <2> QED
    BY <1>4, <2>2, <2>3 DEF ingest
<1>5. ASSUME NEW reason \in Reason, disconnect(reason)
      PROVE  TypeOK'
  BY <1>5 DEF disconnect
<1>6. ASSUME NEW count \in 1 .. MaxQueue, drain(count)
      PROVE  TypeOK'
  <2>1. SubSeq(queue, count + 1, Len(queue)) \in Seq(Event)
    BY <1>6 DEF drain
  <2> QED
    BY <1>6, <2>1 DEF drain
<1>7. CASE stop
  BY <1>7 DEF stop
<1>8. CASE UNCHANGED vars
  BY <1>8 DEF vars
<1> HIDE StreamAssumption
    DEF TypeOK, StreamState, StreamContinuity, Blocker, gapVars, sessionVars,
        subscriptionVars, eventVars
<1> QED
  BY <1>1, <1>2, <1>3, <1>4, <1>5, <1>6, <1>7, <1>8, <1>9, <1>10, <1>11 DEF Next

LEMMA TypeInit == Init => TypeOK
<1> SUFFICES ASSUME Init PROVE TypeOK
  OBVIOUS
<1>1. overdue \in BOOLEAN /\ refused \in BOOLEAN
  BY Zenon DEF Init
<1> QED
  BY <1>1, StreamAssumption DEF Init, TypeOK, StreamState, StreamContinuity

(* Every method keeps the manager's fields well typed, and no key is ever  *)
(* subscribed in both roles.                                               *)
THEOREM StreamTyping == Spec => []TypeOK
  BY TypeInit, TypeStep, PTL DEF Spec
-----------------------------------------------------------------------------
(* Accepted events lie behind the manager's counters.                      *)
LogBounded ==
  \A e \in log :
    /\ e.sequence <= local_sequence
    /\ e.session <= session_counter
    /\ e.frame.stamp <= last_stamp[e.frame.key]

(* The live session is the newest one, and a degraded stream has a gap.    *)
LiveIsNewest ==
  /\ state \in {"AUTHENTICATING", "CONNECTED", "SUBSCRIBING", "ACTIVE", "GAP_DETECTED"}
       => session_id = session_counter
  /\ state = "GAP_DETECTED" => continuity = "GAP_DETECTED"

(* Until the first gap every accepted event is of the newest session, and  *)
(* that session was neither left nor renewed.                              *)
FirstSession ==
  continuity # "GAP_DETECTED" =>
    \A e \in log : state \in {"ACTIVE", "STOPPED"} /\ e.session = session_counter

StreamInv ==
  /\ LogBounded
  /\ LiveIsNewest
  /\ FirstSession
  /\ ProviderTimeAdvances
  /\ ReceiptsFollowSessions

(* What every method but ingest leaves alone.                              *)
LEMMA CallKeepsInv ==
  ASSUME TypeOK, StreamInv, UNCHANGED <<log, last_stamp, local_sequence>>,
         session_counter' \in Nat, session_counter <= session_counter',
         LiveIsNewest', FirstSession'
  PROVE  StreamInv'
<1>1. LogBounded'
  BY DEF StreamInv, LogBounded, TypeOK, Event
<1>2. ProviderTimeAdvances' /\ ReceiptsFollowSessions'
  BY DEF StreamInv, ProviderTimeAdvances, ReceiptsFollowSessions
<1> QED
  BY <1>1, <1>2 DEF StreamInv

LEMMA AcceptKeepsInv ==
  ASSUME TypeOK, StreamInv, NEW session \in 1 .. MaxSession, NEW f \in Frame,
         Accept(session, f)
  PROVE  StreamInv'
<1> DEFINE e == [session |-> session, sequence |-> local_sequence + 1, frame |-> f,
                 role |-> RoleOf(f.key)]
<1>1. /\ log' = log \cup {e}
      /\ local_sequence' = local_sequence + 1
      /\ last_stamp' = [last_stamp EXCEPT ![f.key] = f.stamp]
      /\ UNCHANGED <<state, continuity, session_counter, session_id>>
      /\ state \in {"ACTIVE", "GAP_DETECTED"}
      /\ session = session_id
      /\ ~(f.stamp <= last_stamp[f.key])
  BY DEF Accept, Fresh, Live, Streaming, OutOfOrder, gapVars, sessionVars
<1>2. /\ f.key \in Key /\ f.stamp \in 0 .. MaxStamp
      /\ e.session = session /\ e.sequence = local_sequence + 1 /\ e.frame = f
  BY DEF Frame
<1>3. session = session_counter
  BY <1>1 DEF StreamInv, LiveIsNewest
<1>4. \A g \in log : /\ g.session \in Nat /\ g.sequence \in Nat
                     /\ g.frame.key \in Key /\ g.frame.stamp \in 0 .. MaxStamp
  BY DEF TypeOK, Event, Frame
<1>5. /\ local_sequence \in Nat /\ session_counter \in Nat /\ MaxStamp \in Nat
      /\ last_stamp \in [Key -> 0 .. MaxStamp]
  BY StreamAssumption DEF TypeOK
<1>6. \A g \in log : g.sequence <= local_sequence /\ g.session <= session_counter
                     /\ g.frame.stamp <= last_stamp[g.frame.key]
  BY DEF StreamInv, LogBounded
<1> HIDE DEF e
<1>7. LogBounded'
  <2> SUFFICES ASSUME NEW g \in log'
               PROVE  /\ g.sequence <= local_sequence'
                      /\ g.session <= session_counter'
                      /\ g.frame.stamp <= last_stamp'[g.frame.key]
    BY DEF LogBounded
  <2>1. CASE g = e
    BY <2>1, <1>1, <1>2, <1>3, <1>5
  <2>2. CASE g \in log
    BY <2>2, <1>1, <1>2, <1>4, <1>5, <1>6
  <2> QED
    BY <2>1, <2>2, <1>1
<1>8. LiveIsNewest'
  BY <1>1 DEF StreamInv, LiveIsNewest
<1>9. FirstSession'
  <2> SUFFICES ASSUME continuity # "GAP_DETECTED", NEW g \in log'
               PROVE  state \in {"ACTIVE", "STOPPED"} /\ g.session = session_counter
    BY <1>1 DEF FirstSession
  <2>1. state = "ACTIVE"
    BY <1>1 DEF StreamInv, LiveIsNewest
  <2>2. g.session = session_counter
    BY <1>1, <1>2, <1>3 DEF StreamInv, FirstSession
  <2> QED
    BY <2>1, <2>2
<1>10. ProviderTimeAdvances'
  <2> SUFFICES ASSUME NEW g \in log', NEW h \in log', g.sequence < h.sequence,
                      g.frame.key = h.frame.key
               PROVE  g.frame.stamp < h.frame.stamp
    BY DEF ProviderTimeAdvances
  <2>1. CASE g \in log /\ h \in log
    BY <2>1 DEF StreamInv, ProviderTimeAdvances
  <2>2. CASE g \in log /\ h = e
    BY <2>2, <1>1, <1>2, <1>4, <1>5, <1>6
  <2>3. CASE g = e /\ h \in log
    BY <2>3, <1>2, <1>4, <1>5, <1>6
  <2>4. CASE g = e /\ h = e
    BY <2>4, <1>2, <1>5
  <2> QED
    BY <2>1, <2>2, <2>3, <2>4, <1>1
<1>11. ReceiptsFollowSessions'
  <2> SUFFICES ASSUME NEW g \in log', NEW h \in log'
               PROVE  /\ g.sequence < h.sequence => g.session <= h.session
                      /\ g.sequence = h.sequence => g = h
    BY DEF ReceiptsFollowSessions
  <2>1. CASE g \in log /\ h \in log
    BY <2>1 DEF StreamInv, ReceiptsFollowSessions
  <2>2. CASE g \in log /\ h = e
    BY <2>2, <1>2, <1>3, <1>4, <1>5, <1>6
  <2>3. CASE g = e /\ h \in log
    BY <2>3, <1>2, <1>4, <1>5, <1>6
  <2>4. CASE g = e /\ h = e
    BY <2>4, <1>2, <1>5
  <2> QED
    BY <2>1, <2>2, <2>3, <2>4, <1>1
<1> QED
  BY <1>7, <1>8, <1>9, <1>10, <1>11 DEF StreamInv

LEMMA StreamInvStep == TypeOK /\ StreamInv /\ [Next]_vars => StreamInv'
<1> SUFFICES ASSUME TypeOK, StreamInv, [Next]_vars PROVE StreamInv'
  OBVIOUS
<1>1. ASSUME NEW session \in 1 .. MaxSession, NEW f \in Frame, Accept(session, f)
      PROVE  StreamInv'
  BY <1>1, AcceptKeepsInv
<1>2. CASE begin_connect
  <2>1. /\ UNCHANGED <<log, last_stamp, local_sequence, continuity>>
        /\ session_counter' = session_counter + 1
        /\ session_id' = session_counter + 1
        /\ state' = "AUTHENTICATING"
        /\ state \notin {"ACTIVE", "STOPPED"}
    BY <1>2 DEF begin_connect, eventVars, gapVars
  <2>2. session_counter' \in Nat /\ session_counter <= session_counter'
    BY <2>1 DEF TypeOK
  <2>3. LiveIsNewest' /\ FirstSession'
    BY <2>1 DEF StreamInv, LiveIsNewest, FirstSession
  <2> QED
    BY <2>1, <2>2, <2>3, CallKeepsInv
<1>3. ASSUME UNCHANGED <<log, last_stamp, local_sequence, session_counter>>,
             LiveIsNewest', FirstSession'
      PROVE  StreamInv'
  BY <1>3, CallKeepsInv DEF TypeOK
<1>4. ASSUME UNCHANGED <<log, last_stamp, local_sequence, sessionVars, state, continuity>>
      PROVE  StreamInv'
  BY <1>3, <1>4 DEF sessionVars, StreamInv, LiveIsNewest, FirstSession
<1>5. ASSUME NEW accepted \in BOOLEAN,
             authentication_result(accepted) \/ subscription_result(accepted)
      PROVE  StreamInv'
  BY <1>5, <1>3 DEF authentication_result, subscription_result, _mark_gap, eventVars,
                    sessionVars, StreamInv, LiveIsNewest, FirstSession
<1>6. ASSUME NEW shortlist \in SUBSET Key, NEW extra \in SUBSET Key,
             configure_subscriptions(shortlist, extra)
      PROVE  StreamInv'
  BY <1>6, <1>3 DEF configure_subscriptions, eventVars, sessionVars, gapVars,
                    StreamInv, LiveIsNewest, FirstSession
<1>7. ASSUME NEW session \in 1 .. MaxSession, NEW f \in Sent, ingest(session, f)
      PROVE  StreamInv'
  <2>1. CASE Unsubscribed(session, f) \/ MissingTimestamp(session, f)
             \/ Reordered(session, f) \/ Backpressure(session, f)
    <3>1. /\ UNCHANGED <<log, last_stamp, local_sequence, sessionVars>>
          /\ continuity' = "GAP_DETECTED"
          /\ state' = "GAP_DETECTED"
          /\ state \in {"ACTIVE", "GAP_DETECTED"}
      BY <2>1 DEF Unsubscribed, MissingTimestamp, Reordered, Backpressure, Fresh, Live,
                  Streaming, Refuse, _mark_gap
    <3> QED
      BY <3>1, <1>3 DEF sessionVars, StreamInv, LiveIsNewest, FirstSession
  <2>2. f \in Frame
    BY SentAreFrames
  <2> QED
    BY <1>1, <1>7, <2>1, <2>2 DEF ingest
<1>8. CASE check_heartbeat
  BY <1>8, <1>3 DEF check_heartbeat, Streaming, _mark_gap, eventVars, sessionVars,
                    StreamInv, LiveIsNewest, FirstSession
<1>9. ASSUME NEW reason \in Reason, disconnect(reason)
      PROVE  StreamInv'
  BY <1>9, <1>3 DEF disconnect, eventVars, sessionVars, StreamInv, LiveIsNewest, FirstSession
<1>10. CASE stop
  BY <1>10, <1>3 DEF stop, gapVars, StreamInv, LiveIsNewest, FirstSession
<1>11. ASSUME \/ HeartbeatTimeout \/ record_rest_fallback \/ UNCHANGED vars
              \/ \E session \in 1 .. MaxSession : heartbeat(session)
              \/ \E count \in 1 .. MaxQueue : drain(count)
       PROVE  StreamInv'
  BY <1>11, <1>4 DEF HeartbeatTimeout, record_rest_fallback, vars, heartbeat, drain,
                     eventVars, gapVars
<1> QED
  BY <1>2, <1>5, <1>6, <1>7, <1>8, <1>9, <1>10, <1>11 DEF Next

LEMMA StreamInvInit == Init => StreamInv
  BY DEF Init, StreamInv, LogBounded, LiveIsNewest, FirstSession, ProviderTimeAdvances,
         ReceiptsFollowSessions

LEMMA StreamInvAlways == Spec => []StreamInv
  BY StreamInvInit, StreamInvStep, StreamTyping, PTL DEF Spec

(* For every instrument the accepted events carry strictly increasing      *)
(* provider timestamps across duplicates, reordering, reconnects and       *)
(* replays.                                                                *)
THEOREM ProviderTimeAlwaysAdvances == Spec => []ProviderTimeAdvances
<1>1. StreamInv => ProviderTimeAdvances
  BY DEF StreamInv
<1> QED
  BY <1>1, StreamInvAlways, PTL

(* Frames of an earlier session never count for a later one.               *)
THEOREM LateFramesStayOut == Spec => []ReceiptsFollowSessions
<1>1. StreamInv => ReceiptsFollowSessions
  BY DEF StreamInv
<1> QED
  BY <1>1, StreamInvAlways, PTL

(* A stream whose accepted events span two sessions has its gap on record, *)
(* whatever acknowledgements, heartbeats and fallbacks came since.         *)
LEMMA ReconnectIsAGap == Spec => []ReconnectLeavesGap
<1>1. StreamInv => ReconnectLeavesGap
  BY DEF StreamInv, FirstSession, ReconnectLeavesGap
<1> QED
  BY <1>1, StreamInvAlways, PTL
-----------------------------------------------------------------------------
(* A gap has a code no acknowledgement withdraws, or the code of a rejected*)
(* subscription, whose acknowledgement cannot come again before a          *)
(* disconnect has left its own code.                                       *)
LastingCodes == blockers \ {"WAIT_STREAM_AUTH", "WAIT_STREAM_SUBSCRIPTION"}

GapInv ==
  /\ refused => continuity = "GAP_DETECTED"
  /\ continuity = "GAP_DETECTED" =>
       \/ LastingCodes # {}
       \/ state \in {"GAP_DETECTED", "STOPPED"} /\ "WAIT_STREAM_SUBSCRIPTION" \in blockers

LEMMA GapInvInit == Init => GapInv
  BY Zenon DEF Init, GapInv

LEMMA GapInvStep == TypeOK /\ GapInv /\ [Next]_vars => GapInv'
<1> SUFFICES ASSUME TypeOK, GapInv, [Next]_vars PROVE GapInv'
  OBVIOUS
<1> USE DEF gapVars, eventVars
<1>1. ASSUME UNCHANGED <<refused, state, continuity, blockers>>
      PROVE  GapInv'
  BY <1>1 DEF GapInv, LastingCodes
<1>2. ASSUME NEW code, code \notin {"WAIT_STREAM_AUTH", "WAIT_STREAM_SUBSCRIPTION"},
             blockers' = blockers \cup {code},
             continuity' = "GAP_DETECTED" \/ UNCHANGED <<refused, continuity>>
      PROVE  GapInv'
  <2>1. code \in LastingCodes'
    BY <1>2 DEF LastingCodes
  <2> QED
    BY <1>2, <2>1 DEF GapInv
<1>3. CASE begin_connect
  BY <1>3 DEF begin_connect, GapInv, LastingCodes
<1>4. ASSUME NEW accepted \in BOOLEAN, authentication_result(accepted)
      PROVE  GapInv'
  BY <1>4 DEF authentication_result, GapInv, LastingCodes
<1>5. ASSUME NEW accepted \in BOOLEAN, subscription_result(accepted)
      PROVE  GapInv'
  BY <1>5 DEF subscription_result, _mark_gap, GapInv, LastingCodes
<1>6. ASSUME NEW shortlist \in SUBSET Key, NEW extra \in SUBSET Key,
             configure_subscriptions(shortlist, extra)
      PROVE  GapInv'
  BY <1>6 DEF configure_subscriptions, GapInv, LastingCodes
<1>7. ASSUME NEW session \in 1 .. MaxSession, NEW f \in Sent, ingest(session, f)
      PROVE  GapInv'
  <2>1. CASE Accept(session, f)
    BY <2>1, <1>1 DEF Accept
  <2>2. CASE Unsubscribed(session, f) \/ MissingTimestamp(session, f)
             \/ Reordered(session, f) \/ Backpressure(session, f)
    BY <2>2, <1>2 DEF Unsubscribed, MissingTimestamp, Reordered, Backpressure, Refuse, _mark_gap
  <2> QED
    BY <1>7, <2>1, <2>2 DEF ingest
<1>8. CASE check_heartbeat \/ record_rest_fallback
  BY <1>8, <1>2 DEF check_heartbeat, record_rest_fallback, _mark_gap
<1>9. ASSUME NEW reason \in Reason, disconnect(reason)
      PROVE  GapInv'
  BY <1>9, <1>2, StreamAssumption DEF disconnect
<1>10. CASE stop
  BY <1>10 DEF stop, GapInv, LastingCodes
<1>11. ASSUME \/ HeartbeatTimeout \/ UNCHANGED vars
              \/ \E session \in 1 .. MaxSession : heartbeat(session)
              \/ \E count \in 1 .. MaxQueue : drain(count)
       PROVE  GapInv'
  BY <1>11, <1>1 DEF HeartbeatTimeout, vars, heartbeat, drain
<1> QED
  BY <1>3, <1>4, <1>5, <1>6, <1>7, <1>8, <1>9, <1>10, <1>11 DEF Next

(* Whatever was dropped, refused, out of order or interrupted, continuity  *)
(* and blocker codes go on telling of it, for any payloads and sessions.   *)
THEOREM LossesStayVisible == Spec => []LossIsNeverHidden
<1>1. GapInv => RefusalLeavesGap /\ GapIsExplained
  BY DEF GapInv, LastingCodes, RefusalLeavesGap, GapIsExplained
<1>2. Spec => []GapInv
  BY GapInvInit, GapInvStep, StreamTyping, PTL DEF Spec
<1>3. RefusalLeavesGap /\ GapIsExplained /\ ReconnectLeavesGap <=> LossIsNeverHidden
  BY DEF LossIsNeverHidden
<1> QED
  BY <1>1, <1>2, <1>3, ReconnectIsAGap, PTL
=============================================================================
