------------------------ MODULE WebSocketRelay_proofs -----------------------
(***************************************************************************)
(* Proofs about WebSocketRelay: the test for an active response and the    *)
(* assignment that makes one active are separated by the whole of          *)
(* prepare_request, and still at most one request is unanswered; and no    *)
(* response id reaches the client before it is bound.                      *)
(***************************************************************************)
EXTENDS WebSocketRelay, FiniteSetTheorems, TLAPS

\* The client pump alone makes a response active, and only after it found none.
ClientInv ==
    /\ clientAt = "prepare" => active = None /\ message # None
    /\ clientAt = "guard" => message = None
    /\ clientAt = "send" /\ message # None => active = message \/ message \in finished

\* An unanswered request belongs to the active response.
UnansweredInv == Unanswered \subseteq {active}

\* What is about to be shown belongs to the response that was read, and is bound.
EmitInv ==
    /\ serverAt = "bind" => current # None
    /\ serverAt = "guard" => current = None
    /\ serverAt \in {"bind", "emit"} /\ current # None => event.ids \subseteq ids[current]
    /\ serverAt = "emit" /\ current # None => ids[current] \subseteq bound_ids[current]
    /\ serverAt = "emit" /\ current = None => outputs \in {<<>>, <<"own">>}

RelayInv ==
    /\ TypeOK
    /\ ClientInv
    /\ UnansweredInv
    /\ EmitInv
    /\ ProcessorStaysActive
    /\ ShownIsBound

-----------------------------------------------------------------------------
LEMMA InitRelayInv == Init => RelayInv
<1> SUFFICES ASSUME Init PROVE RelayInv
  OBVIOUS
<1>1. TypeOK
  BY DEF Init, TypeOK
<1>2. ClientInv /\ UnansweredInv /\ EmitInv /\ ProcessorStaysActive /\ ShownIsBound
  BY DEF Init, ClientInv, UnansweredInv, Unanswered, EmitInv, ProcessorStaysActive,
         ShownIsBound
<1>3. QED
  BY <1>1, <1>2 DEF RelayInv

\* What the processor makes of an event is a sequence of outputs.
LEMMA OutputsTyped ==
    ASSUME NEW e, NEW o \in OutputsOf(e)
    PROVE  o \in Seq({"own", "extra", "refusal"})
<1> DEFINE S == {"own", "extra", "refusal"}
<1>1. /\ <<>> \in Seq(S) /\ <<"own">> \in Seq(S) /\ <<"refusal">> \in Seq(S)
      /\ <<"extra">> \in Seq(S) /\ <<"extra", "own">> \in Seq(S)
      /\ <<"extra", "refusal">> \in Seq(S)
  OBVIOUS
<1>2. \A rest \in Finishing : <<"own">> \o rest \in Seq(S)
  <2>1. \A rest \in Seq(S) : <<"own">> \o rest \in Seq(S)
    BY <1>1
  <2>2. Finishing \subseteq Seq(S)
    BY <1>1 DEF Finishing
  <2>3. QED
    BY <2>1, <2>2
<1>3. QED
  BY <1>1, <1>2 DEF OutputsOf

-----------------------------------------------------------------------------
(* Every step keeps the invariant.                                         *)

\* A step that only ends or moves a pump, and not to where it acts, disturbs nothing.
LEMMA QuietStep ==
    ASSUME RelayInv, TypeOK',
           clientAt' \in {"prepare", "guard", "send"} => clientAt' = clientAt,
           serverAt' \in {"guard", "bind", "emit"} => serverAt' = serverAt,
           serverAt' = "hangUp" => serverAt' = serverAt,
           UNCHANGED <<active, message, forwarded, workVars, responseVars>>
    PROVE  RelayInv'
<1>1. ClientInv' /\ UnansweredInv'
  BY DEF RelayInv, ClientInv, UnansweredInv, Unanswered, responseVars
<1>2. EmitInv'
  BY DEF RelayInv, EmitInv, workVars, responseVars
<1>3. ProcessorStaysActive' /\ ShownIsBound'
  BY DEF RelayInv, ProcessorStaysActive, ShownIsBound, workVars, responseVars
<1>4. QED
  BY <1>1, <1>2, <1>3 DEF RelayInv

\* The steps of that kind.
LEMMA QuietSteps ==
    ASSUME RelayInv,
           \/ ClientDisconnects
           \/ ReceiveUnusable
           \/ RejectRequest
           \/ RejectEvent
           \/ ClientPumpFails
           \/ ExplainToClient
           \/ CloseByClientPump
           \/ UpstreamCloses
           \/ ReceiveJunk
           \/ StrayBlocked
           \/ BindFails
           \/ HangUp
           \/ EmitTooLate
           \/ ServerPumpFails
           \/ ExplainToServerSide
           \/ CloseByServerPump
           \/ CancelClientPump
           \/ CancelServerPump
           \/ RelayEnds
           \/ HandlerExplains
           \/ HandlerCloses
    PROVE  RelayInv'
<1> USE DEF RelayInv
<1>1. CASE ClientDisconnects
  BY <1>1, QuietStep DEF TypeOK, ClientDisconnects, ClientGoes, serverVars,
         workVars, responseVars, endVars, Ends
<1>2. CASE ReceiveUnusable
  BY <1>2, QuietStep DEF TypeOK, ReceiveUnusable, ClientGoes, serverVars, workVars,
         responseVars, endVars, Ends
<1>3. CASE RejectRequest \/ RejectEvent
  BY <1>3, QuietStep DEF TypeOK, RejectRequest, RejectEvent, ClientGoes, serverVars, workVars,
         responseVars, endVars, Ends
<1>4. CASE ClientPumpFails
  BY <1>4, QuietStep DEF TypeOK, ClientPumpFails, ClientGoes, serverVars, workVars,
         responseVars, endVars, Ends
<1>5. CASE ExplainToClient
  BY <1>5, QuietStep DEF TypeOK, ExplainToClient, ClientGoes, serverVars, workVars,
         responseVars, endVars, Ends
<1>6. CASE CloseByClientPump
  BY <1>6, QuietStep DEF TypeOK, CloseByClientPump, ClientGoes, serverVars,
         workVars, responseVars, endVars, Ends
<1>7. CASE UpstreamCloses
  BY <1>7, QuietStep DEF TypeOK, UpstreamCloses, ServerGoes, clientVars, workVars,
         responseVars, endVars, Ends
<1>8. CASE ReceiveJunk
  BY <1>8, QuietStep DEF TypeOK, ReceiveJunk, ServerGoes, clientVars, workVars,
         responseVars, endVars, Ends
<1>9. CASE StrayBlocked
  BY <1>9, QuietStep DEF TypeOK, StrayBlocked, ServerGoes, clientVars, workVars,
         responseVars, endVars, Ends
<1>10. CASE BindFails
  BY <1>10, QuietStep DEF TypeOK, BindFails, ServerGoes, clientVars, workVars,
         responseVars, endVars, Ends
<1>11. CASE HangUp
  BY <1>11, QuietStep DEF TypeOK, HangUp, ServerGoes, clientVars, workVars,
         responseVars, endVars, Ends
<1>12. CASE EmitTooLate
  BY <1>12, QuietStep DEF TypeOK, EmitTooLate, ServerGoes, clientVars, workVars,
         responseVars, endVars, Ends
<1>13. CASE ServerPumpFails
  BY <1>13, QuietStep DEF TypeOK, ServerPumpFails, ServerGoes, clientVars,
         workVars, responseVars, endVars, Ends
<1>14. CASE ExplainToServerSide
  BY <1>14, QuietStep DEF TypeOK, ExplainToServerSide, ServerGoes, clientVars,
         workVars, responseVars, endVars, Ends
<1>15. CASE CloseByServerPump
  BY <1>15, QuietStep DEF TypeOK, CloseByServerPump, ServerGoes, clientVars,
         workVars, responseVars, endVars, Ends
<1>16. CASE CancelClientPump
  BY <1>16, QuietStep DEF TypeOK, CancelClientPump, clientVars, serverVars,
         workVars, responseVars, endVars, Ends
<1>17. CASE CancelServerPump
  BY <1>17, QuietStep DEF TypeOK, CancelServerPump, clientVars, serverVars,
         workVars, responseVars, endVars, Ends
<1>18. CASE RelayEnds
  <2>1. handler' \in {"explain", "done"} /\ UNCHANGED <<active, clientVars, serverVars, open>>
    BY <1>18 DEF RelayEnds
  <2>2. TypeOK'
    BY <2>1 DEF TypeOK, clientVars, serverVars, workVars, responseVars, Ends
  <2>3. QED
    BY <2>1, <2>2, QuietStep DEF clientVars, serverVars
<1>19. CASE HandlerExplains
  <2>1. TypeOK'
    BY <1>19 DEF TypeOK, HandlerExplains, clientVars, serverVars, workVars, responseVars
  <2>2. QED
    BY <1>19, <2>1, QuietStep DEF HandlerExplains, clientVars, serverVars
<1>20. CASE HandlerCloses
  <2>1. TypeOK'
    BY <1>20 DEF TypeOK, HandlerCloses, clientVars, serverVars, workVars, responseVars
  <2>2. QED
    BY <1>20, <2>1, QuietStep DEF HandlerCloses, clientVars, serverVars
<1>21. QED
  BY <1>1, <1>2, <1>3, <1>4, <1>5, <1>6, <1>7, <1>8, <1>9, <1>10,
     <1>11, <1>12, <1>13, <1>14, <1>15, <1>16, <1>17, <1>18, <1>19, <1>20

(* The steps that concern the response or its outputs, one by one.           *)

LEMMA StepReceiveCreate ==
    ASSUME RelayInv, NEW c \in Creates, ReceiveCreate(c)
    PROVE  RelayInv'
<1>1. TypeOK'
  BY RelayAssumption DEF RelayInv, TypeOK, ReceiveCreate, ClientGoes, serverVars,
         workVars, responseVars, endVars
<1>2. ClientInv' /\ UnansweredInv'
  BY RelayAssumption DEF RelayInv, TypeOK, ClientInv, UnansweredInv, Unanswered,
         ProcessorStaysActive, ReceiveCreate, ClientGoes, serverVars, workVars,
         responseVars
<1>3. EmitInv' /\ ProcessorStaysActive' /\ ShownIsBound'
  BY RelayAssumption DEF RelayInv, TypeOK, ClientInv, EmitInv,
         ProcessorStaysActive, ShownIsBound, ReceiveCreate, ClientGoes, serverVars,
         workVars, responseVars
<1>4. QED
  BY <1>1, <1>2, <1>3 DEF RelayInv

LEMMA StepReceiveOther ==
    ASSUME RelayInv, ReceiveOther
    PROVE  RelayInv'
<1>1. TypeOK'
  BY RelayAssumption DEF RelayInv, TypeOK, ReceiveOther, ClientGoes, serverVars,
         workVars, responseVars, endVars
<1>2. ClientInv' /\ UnansweredInv'
  BY RelayAssumption DEF RelayInv, TypeOK, ClientInv, UnansweredInv, Unanswered,
         ProcessorStaysActive, ReceiveOther, ClientGoes, serverVars, workVars,
         responseVars
<1>3. EmitInv' /\ ProcessorStaysActive' /\ ShownIsBound'
  BY RelayAssumption DEF RelayInv, TypeOK, ClientInv, EmitInv,
         ProcessorStaysActive, ShownIsBound, ReceiveOther, ClientGoes, serverVars,
         workVars, responseVars
<1>4. QED
  BY <1>1, <1>2, <1>3 DEF RelayInv

LEMMA StepPrepared ==
    ASSUME RelayInv, Prepared
    PROVE  RelayInv'
<1>1. TypeOK'
  BY RelayAssumption DEF RelayInv, TypeOK, Prepared, ClientGoes, serverVars,
         workVars, responseVars, endVars
<1>2. ClientInv' /\ UnansweredInv'
  BY RelayAssumption DEF RelayInv, TypeOK, ClientInv, UnansweredInv, Unanswered,
         ProcessorStaysActive, Prepared, ClientGoes, serverVars, workVars,
         responseVars
<1>3. EmitInv' /\ ProcessorStaysActive' /\ ShownIsBound'
  BY RelayAssumption DEF RelayInv, TypeOK, ClientInv, EmitInv,
         ProcessorStaysActive, ShownIsBound, Prepared, ClientGoes, serverVars,
         workVars, responseVars
<1>4. QED
  BY <1>1, <1>2, <1>3 DEF RelayInv

LEMMA StepGuardPassed ==
    ASSUME RelayInv, GuardPassed
    PROVE  RelayInv'
<1>1. TypeOK'
  BY RelayAssumption DEF RelayInv, TypeOK, GuardPassed, ClientGoes, serverVars,
         workVars, responseVars, endVars
<1>2. ClientInv' /\ UnansweredInv'
  BY RelayAssumption DEF RelayInv, TypeOK, ClientInv, UnansweredInv, Unanswered,
         ProcessorStaysActive, GuardPassed, ClientGoes, serverVars, workVars,
         responseVars
<1>3. EmitInv' /\ ProcessorStaysActive' /\ ShownIsBound'
  BY RelayAssumption DEF RelayInv, TypeOK, ClientInv, EmitInv,
         ProcessorStaysActive, ShownIsBound, GuardPassed, ClientGoes, serverVars,
         workVars, responseVars
<1>4. QED
  BY <1>1, <1>2, <1>3 DEF RelayInv

LEMMA StepSendUpstream ==
    ASSUME RelayInv, SendUpstream
    PROVE  RelayInv'
<1>1. TypeOK'
  BY RelayAssumption DEF RelayInv, TypeOK, SendUpstream, ClientGoes, serverVars,
         workVars, responseVars, endVars
<1>2. ClientInv' /\ UnansweredInv'
  BY RelayAssumption DEF RelayInv, TypeOK, ClientInv, UnansweredInv, Unanswered,
         ProcessorStaysActive, SendUpstream, ClientGoes, serverVars, workVars,
         responseVars
<1>3. EmitInv' /\ ProcessorStaysActive' /\ ShownIsBound'
  BY RelayAssumption DEF RelayInv, TypeOK, ClientInv, EmitInv,
         ProcessorStaysActive, ShownIsBound, SendUpstream, ClientGoes, serverVars,
         workVars, responseVars
<1>4. QED
  BY <1>1, <1>2, <1>3 DEF RelayInv

LEMMA StepReceiveStray ==
    ASSUME RelayInv, NEW e \in Events, ReceiveStray(e)
    PROVE  RelayInv'
<1>1. TypeOK'
  BY RelayAssumption DEF RelayInv, TypeOK, ReceiveStray, ServerGoes, clientVars,
         workVars, responseVars, endVars
<1>2. ClientInv' /\ UnansweredInv'
  BY RelayAssumption DEF RelayInv, TypeOK, ClientInv, UnansweredInv, Unanswered,
         ProcessorStaysActive, ReceiveStray, ServerGoes, clientVars, workVars,
         responseVars
<1>3. EmitInv' /\ ProcessorStaysActive' /\ ShownIsBound'
  BY RelayAssumption DEF RelayInv, TypeOK, ClientInv, EmitInv,
         ProcessorStaysActive, ShownIsBound, ReceiveStray, ServerGoes, clientVars,
         workVars, responseVars
<1>4. QED
  BY <1>1, <1>2, <1>3 DEF RelayInv

LEMMA StepReceiveForResponse ==
    ASSUME RelayInv, NEW e \in Events, ReceiveForResponse(e)
    PROVE  RelayInv'
<1>1. TypeOK'
  <2>1. outputs' \in Seq({"own", "extra", "refusal"})
    BY OutputsTyped DEF ReceiveForResponse
  <2>2. active \in Creates /\ e.ids \subseteq Ids
    BY DEF RelayInv, TypeOK, ReceiveForResponse, Events
  <2>3. QED
    BY <2>1, <2>2 DEF RelayInv, TypeOK, ReceiveForResponse, ServerGoes, clientVars, endVars
<1>2. ClientInv' /\ UnansweredInv'
  BY RelayAssumption DEF RelayInv, TypeOK, ClientInv, UnansweredInv, Unanswered,
         ProcessorStaysActive, ReceiveForResponse, ServerGoes, clientVars,
         workVars, responseVars
<1>3. EmitInv' /\ ProcessorStaysActive' /\ ShownIsBound'
  BY RelayAssumption DEF RelayInv, TypeOK, ClientInv, EmitInv,
         ProcessorStaysActive, ShownIsBound, ReceiveForResponse, ServerGoes,
         clientVars, workVars, responseVars
<1>4. QED
  BY <1>1, <1>2, <1>3 DEF RelayInv

LEMMA StepBindResponse ==
    ASSUME RelayInv, NEW i \in Ids, BindResponse(i)
    PROVE  RelayInv'
<1>1. TypeOK'
  BY RelayAssumption DEF RelayInv, TypeOK, BindResponse, ServerGoes, clientVars,
         workVars, responseVars, endVars
<1>2. ClientInv' /\ UnansweredInv'
  BY RelayAssumption DEF RelayInv, TypeOK, ClientInv, UnansweredInv, Unanswered,
         ProcessorStaysActive, BindResponse, ServerGoes, clientVars, workVars,
         responseVars
<1>3. EmitInv' /\ ProcessorStaysActive' /\ ShownIsBound'
  BY RelayAssumption DEF RelayInv, TypeOK, ClientInv, EmitInv,
         ProcessorStaysActive, ShownIsBound, BindResponse, ServerGoes, clientVars,
         workVars, responseVars
<1>4. QED
  BY <1>1, <1>2, <1>3 DEF RelayInv

LEMMA StepStrayPasses ==
    ASSUME RelayInv, StrayPasses
    PROVE  RelayInv'
<1>1. TypeOK'
  BY RelayAssumption DEF RelayInv, TypeOK, StrayPasses, ServerGoes, clientVars,
         workVars, responseVars, endVars
<1>2. ClientInv' /\ UnansweredInv'
  BY RelayAssumption DEF RelayInv, TypeOK, ClientInv, UnansweredInv, Unanswered,
         ProcessorStaysActive, StrayPasses, ServerGoes, clientVars, workVars,
         responseVars
<1>3. EmitInv' /\ ProcessorStaysActive' /\ ShownIsBound'
  BY RelayAssumption DEF RelayInv, TypeOK, ClientInv, EmitInv,
         ProcessorStaysActive, ShownIsBound, StrayPasses, ServerGoes, clientVars,
         workVars, responseVars
<1>4. QED
  BY <1>1, <1>2, <1>3 DEF RelayInv

LEMMA StepAllBound ==
    ASSUME RelayInv, AllBound
    PROVE  RelayInv'
<1>1. TypeOK'
  BY RelayAssumption DEF RelayInv, TypeOK, AllBound, ServerGoes, clientVars,
         workVars, responseVars, endVars
<1>2. ClientInv' /\ UnansweredInv'
  BY RelayAssumption DEF RelayInv, TypeOK, ClientInv, UnansweredInv, Unanswered,
         ProcessorStaysActive, AllBound, ServerGoes, clientVars, workVars,
         responseVars
<1>3. EmitInv' /\ ProcessorStaysActive' /\ ShownIsBound'
  BY RelayAssumption DEF RelayInv, TypeOK, ClientInv, EmitInv,
         ProcessorStaysActive, ShownIsBound, AllBound, ServerGoes, clientVars,
         workVars, responseVars
<1>4. QED
  BY <1>1, <1>2, <1>3 DEF RelayInv

LEMMA StepEmit ==
    ASSUME RelayInv, Emit
    PROVE  RelayInv'
<1>1. /\ serverAt = "emit" /\ serverAt' \in {"emit", "hangUp"}
      /\ shown' \in {shown, shown \cup event.ids}
      /\ Head(outputs) # "own" \/ current = None => shown' = shown
      /\ UNCHANGED <<active, clientVars, event, current, ids, bound_ids, finished, endVars>>
  BY DEF Emit, ServerGoes
<1>2. Head(outputs) \in {"own", "extra", "refusal"}
      /\ outputs' \in Seq({"own", "extra", "refusal"})
  BY DEF RelayInv, TypeOK, Emit
<1>3. current = None => outputs = <<"own">> /\ outputs' = <<>>
  BY DEF RelayInv, EmitInv, Emit, ServerGoes
<1>4. shown' \subseteq UNION {bound_ids[r] : r \in Creates}
  <2>1. CASE current = None
    BY <1>1, <1>3, <2>1 DEF RelayInv, ShownIsBound
  <2>2. CASE current # None
    <3>1. current \in Creates /\ event.ids \subseteq bound_ids[current]
      BY <1>1, <2>2 DEF RelayInv, TypeOK, EmitInv
    <3>2. QED
      BY <1>1, <3>1 DEF RelayInv, ShownIsBound
  <2>3. QED
    BY <2>1, <2>2
<1>5. TypeOK'
  <2>1. shown' \in SUBSET Ids
    BY <1>4 DEF RelayInv, TypeOK
  <2>2. QED
    BY <1>1, <1>2, <2>1 DEF RelayInv, TypeOK, clientVars, endVars
<1>6. ClientInv' /\ UnansweredInv'
  BY <1>1 DEF RelayInv, ClientInv, UnansweredInv, Unanswered, clientVars
<1>7. EmitInv' /\ ProcessorStaysActive' /\ ShownIsBound'
  BY <1>1, <1>3, <1>4 DEF RelayInv, EmitInv, ProcessorStaysActive, ShownIsBound
<1>8. QED
  BY <1>5, <1>6, <1>7 DEF RelayInv

LEMMA StepEventDone ==
    ASSUME RelayInv, EventDone
    PROVE  RelayInv'
<1>1. TypeOK'
  BY RelayAssumption DEF RelayInv, TypeOK, EventDone, ServerGoes, clientVars,
         workVars, responseVars, endVars
<1>2. ClientInv' /\ UnansweredInv'
  BY RelayAssumption DEF RelayInv, TypeOK, ClientInv, UnansweredInv, Unanswered,
         ProcessorStaysActive, EventDone, ServerGoes, clientVars, workVars,
         responseVars
<1>3. EmitInv' /\ ProcessorStaysActive' /\ ShownIsBound'
  BY RelayAssumption DEF RelayInv, TypeOK, ClientInv, EmitInv,
         ProcessorStaysActive, ShownIsBound, EventDone, ServerGoes, clientVars,
         workVars, responseVars
<1>4. QED
  BY <1>1, <1>2, <1>3 DEF RelayInv

-----------------------------------------------------------------------------
LEMMA NextRelayInv == RelayInv /\ [Next]_vars => RelayInv'
<1> SUFFICES ASSUME RelayInv, [Next]_vars PROVE RelayInv'
  OBVIOUS
<1>1. CASE UNCHANGED vars
  BY <1>1, QuietStep DEF RelayInv, TypeOK, vars, clientVars, serverVars, workVars,
         responseVars, endVars
<1>2. CASE ClientHears
  BY <1>2, QuietSteps, StepReceiveCreate, StepReceiveOther DEF ClientHears
<1>3. CASE ClientPrepares \/ ClientWorks
  BY <1>3, QuietSteps, StepPrepared, StepGuardPassed, StepSendUpstream
     DEF ClientPrepares, ClientWorks
<1>4. CASE ServerHears
  BY <1>4, QuietSteps, StepReceiveStray, StepReceiveForResponse DEF ServerHears
<1>5. CASE ServerWorks
  BY <1>5, QuietSteps, StepStrayPasses, StepBindResponse, StepAllBound, StepEmit,
     StepEventDone DEF ServerWorks
<1>6. CASE Supervise
  BY <1>6, QuietSteps DEF Supervise
<1>7. CASE ClientPumpFails \/ ServerPumpFails
  BY <1>7, QuietSteps
<1>8. QED
  BY <1>1, <1>2, <1>3, <1>4, <1>5, <1>6, <1>7 DEF Next

\* The inductive invariant of a connection.
THEOREM SpecRelayInv == Spec => []RelayInv
<1>1. QED
  BY InitRelayInv, NextRelayInv, PTL DEF Spec

\* Every variable of the relay keeps its type (websocket.py:173-424).
THEOREM RelayTypeCorrect == Spec => []TypeOK
<1>1. RelayInv => TypeOK
  BY DEF RelayInv
<1>2. QED
  BY <1>1, SpecRelayInv, PTL

\* No response id is shown before it is bound (websocket.py:358-379).
THEOREM NoIdShownUnbound == Spec => []ShownIsBound
<1>1. RelayInv => ShownIsBound
  BY DEF RelayInv
<1>2. QED
  BY <1>1, SpecRelayInv, PTL

\* One request of a connection is unanswered at most, however long prepare_request takes
\* between the test of `active` and its assignment (websocket.py:208-238).
THEOREM OneRequestUnanswered == Spec => []OneResponseInFlight
<1>1. RelayInv => OneResponseInFlight
  <2> SUFFICES ASSUME RelayInv PROVE Cardinality(Unanswered) <= 1
    BY DEF OneResponseInFlight
  <2>2. Unanswered = {} \/ Unanswered = {active}
    <3>1. \A U : U \subseteq {active} => U = {} \/ U = {active}
      OBVIOUS
    <3>2. Unanswered \subseteq {active}
      BY DEF RelayInv, UnansweredInv
    <3>3. QED
      BY <3>1, <3>2, Zenon
  <2>3. Cardinality({}) = 0 /\ Cardinality({active}) = 1
    BY FS_EmptySet, FS_Singleton
  <2>4. QED
    BY <2>2, <2>3
<1>2. QED
  BY <1>1, SpecRelayInv, PTL

\* The response an event was read for stays active until its outputs are out
\* (websocket.py:319-412).
THEOREM ProcessorIsTheActiveOne == Spec => []ProcessorStaysActive
<1>1. RelayInv => ProcessorStaysActive
  BY DEF RelayInv
<1>2. QED
  BY <1>1, SpecRelayInv, PTL
=============================================================================
