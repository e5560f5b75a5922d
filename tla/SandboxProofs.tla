---------------------------- MODULE SandboxProofs ----------------------------
(***************************************************************************)
(* The safety properties of Sandbox, its refinement of SandboxContract, and *)
(* which calls return, for any number of concurrent calls of every kind.    *)
(***************************************************************************)
EXTENDS Sandbox, TLAPS

(* What an answer that is still to be read tells about the sandbox.  A DELETE
   is never answered with success or 404 while the sandbox exists. *)
AnswersHonest ==
  \A c \in Calls : request[c] = "served" /\ pc[c] = "request" =>
    /\ reply[c] = 404 => remote = "gone"
    /\ c \in DestroyCalls /\ reply[c] < 300 => remote = "gone"

OutcomesHonest ==
  \A c \in Calls : pc[c] = "settle" =>
    /\ outcome[c] = ErrSandboxNotFound => remote = "gone"
    /\ c \in DestroyCalls /\ outcome[c] = OK => remote = "gone"

(* A call has a result exactly when it has returned. *)
ReturnedHaveResults ==
  /\ \A c \in Calls : pc[c] = "returned" <=> ret[c] # NotYet
  /\ \A d \in signalled : pc[d] = "returned"
  /\ \A c \in UserCalls : \A b \in earlier[c] : pc[b] = "returned"

UnsentBeforeRequest ==
  \A c \in Calls : pc[c] \in {"idle", "entered", "waiting"} => request[c] = "unsent"

(* The destruction in progress and the ones that ended. *)
ClosedIsIdle == closed => ~destroying

WaitersKnowTheirChannel ==
  \A d \in DestroyCalls : pc[d] = "waiting" =>
    waitOn[d] # NoCall /\ (waitOn[d] \in signalled \/ waitOn[d] = destroyWait)

LateCallsHeldBack ==
  \A c \in UserCalls : (\E d \in earlier[c] \cap DestroyCalls : ret[d] = OK) =>
    pc[c] \in {"entered", "returned"}

RecordInstalled == record # NoCall => ret[record] = OK

NetworkInv == AnswersHonest /\ OutcomesHonest /\ UnsentBeforeRequest /\ NotFoundMeansGone

DestroyInv == 
  /\ ReturnedHaveResults
  /\ OneDeleteAtATime
  /\ ClosedIsIdle
  /\ WaitersKnowTheirChannel
  /\ NilMeansGone
  /\ NoBorrowedFailure

LateInv == LateCallsHeldBack /\ RefusedAfterDestroy

RecordInv == DeleteUsesCurrentRecord /\ RecordInstalled /\ ConnectNilMeansInstalled

(* The inductive invariant: the properties with what they rest on. *)
IInv == TypeOK /\ NetworkInv /\ DestroyInv /\ LateInv /\ RecordInv

-----------------------------------------------------------------------------
(* The names of results are distinct. *)
LEMMA ResultsDistinct ==
  /\ NotYet \notin RequestErrors \cup {ErrSandboxDestroyed, ErrContext}
  /\ ErrSandboxDestroyed \notin RequestErrors \cup {ErrContext}
  /\ ErrContext \notin RequestErrors
  /\ {OK, ErrSandboxNotFound, ErrTransport} \subseteq RequestErrors
  /\ OK # ErrSandboxNotFound /\ OK # ErrTransport /\ ErrSandboxNotFound # ErrTransport
  BY DEF RequestErrors, NotYet, ErrSandboxDestroyed, ErrContext, OK, ErrSandboxNotFound,
         ErrAuthentication, ErrStatus, ErrDecode, ErrTransport

(* What the client makes of the answer to a request: the error is one the
   handle's methods return, "not found" only for status 404, and success of a
   DELETE only for a status below 300 (there is no 409 to a DELETE). *)
LEMMA InterpretAnswer ==
  ASSUME NEW c \in Calls, NEW decodes \in BOOLEAN, reply[c] \in Statuses
  PROVE  /\ Interpret(c, decodes) \in RequestErrors
         /\ Interpret(c, decodes) = ErrSandboxNotFound => reply[c] = 404
         /\ c \in DestroyCalls /\ Interpret(c, decodes) = OK => reply[c] < 300
  BY DEF Statuses, Interpret, destroySandbox, connectSandbox, pauseSandbox, querySandbox,
         doJSONWithResponse, normalizeHTTPError, RequestErrors, OK, ErrSandboxNotFound,
         ErrNoResource, ErrAuthentication, ErrStatus, ErrDecode, ErrTransport

(* The steps of the service, whatever it answers. *)
LEMMA ServiceStep ==
  ASSUME TypeOK, Service
  PROVE  \/ RemoteChanges
         \/ \E c \in Calls, status \in Statuses, state \in {"running", "paused", "gone"} :
              /\ Serve(c, status, state)
              /\ remote = "gone" => state = "gone"
              /\ status = 404 => state = "gone"
              /\ c \in DestroyCalls /\ status < 300 => state = "gone"
<1> DEFINE Served(c, status, state) ==
             /\ Serve(c, status, state)
             /\ remote = "gone" => state = "gone"
             /\ status = 404 => state = "gone"
             /\ c \in DestroyCalls /\ status < 300 => state = "gone"
<1> DEFINE Answered(c) == 
             \E status \in Statuses, state \in {"running", "paused", "gone"} : Served(c, status, state)
<1> USE CallsAssumption DEF Calls, UserCalls, Statuses, TypeOK
<1>1. ASSUME NEW c \in Calls, ServeGone(c) \/ ServeFailure(c) PROVE Answered(c)
  BY <1>1 DEF ServeGone, ServeFailure
<1>2. ASSUME NEW d \in DestroyCalls, ServeDestroy(d) PROVE Answered(d)
  BY <1>2 DEF ServeDestroy
<1>3. ASSUME NEW c \in ConnectCalls, ServeConnect(c) PROVE Answered(c)
  BY <1>3 DEF ServeConnect
<1>4. ASSUME NEW c \in PauseCalls, ServePause(c) PROVE Answered(c)
  BY <1>4 DEF ServePause
<1>5. ASSUME NEW c \in QueryCalls, ServeQuery(c) PROVE Answered(c)
  BY <1>5 DEF ServeQuery
<1> HIDE DEF Answered
<1>6. RemoteChanges \/ \E c \in Calls : Answered(c)
  BY <1>1, <1>2, <1>3, <1>4, <1>5 DEF Service
<1> QED BY <1>6 DEF Answered

(* Init has the types. *)
LEMMA InitTypeCorrect == ASSUME Init PROVE TypeOK
<1>1. outcome \in [Calls -> RequestErrors]
  BY DEF Init, RequestErrors
<1>2. ret \in [Calls -> RequestErrors \cup {ErrSandboxDestroyed, ErrContext, NotYet}]
  BY DEF Init
<1>3. earlier \in [UserCalls -> SUBSET Witnesses]
  BY DEF Init
<1>4. /\ pc \in [Calls -> Labels]
      /\ request \in [Calls -> {"unsent", "sent", "served"}]
      /\ reply \in [Calls -> Statuses]
      /\ transport \in [Calls -> ConnectCalls \cup {NoCall}]
  BY DEF Init, Labels, Statuses
<1>5. /\ waitOn \in [DestroyCalls -> DestroyCalls \cup {NoCall}]
      /\ ctxDone \in [DestroyCalls -> BOOLEAN]
  BY DEF Init
<1>6. /\ closed \in BOOLEAN
      /\ destroying \in BOOLEAN
      /\ destroyWait \in DestroyCalls \cup {NoCall}
      /\ record \in ConnectCalls \cup {NoCall}
      /\ signalled \in SUBSET DestroyCalls
      /\ remote \in {"running", "paused", "gone"}
  BY DEF Init
<1> QED BY <1>1, <1>2, <1>3, <1>4, <1>5, <1>6 DEF TypeOK

(* Every variable has its type, for any number of calls. *)
THEOREM TypeCorrect == Spec => []TypeOK
<1>1. Init => TypeOK
  BY InitTypeCorrect
<1>2. TypeOK /\ [Next]_vars => TypeOK'
  <2> SUFFICES ASSUME TypeOK, [Next]_vars PROVE TypeOK'
    OBVIOUS
  <2> USE CallsAssumption DEF TypeOK, Labels, Calls, UserCalls, Witnesses, Goto, Return, handle, network
  <2>1. ASSUME NEW c \in Calls, Call(c) PROVE TypeOK'
    BY <2>1 DEF Call
  <2>2. ASSUME NEW d \in DestroyCalls, CancelCtx(d) PROVE TypeOK'
    BY <2>2 DEF CancelCtx
  <2>3. ASSUME NEW c \in Calls, RequestStep(c) PROVE TypeOK'
    <3>1. CASE Send(c)
      BY <3>1 DEF Send
    <3>2. CASE Receive(c)
      <4>1. PICK decodes \in BOOLEAN : outcome' = [outcome EXCEPT ![c] = Interpret(c, decodes)]
        BY <3>2 DEF Receive
      <4>2. Interpret(c, decodes) \in RequestErrors
        BY InterpretAnswer
      <4> QED BY <3>2, <4>1, <4>2 DEF Receive, Statuses
    <3>3. CASE RequestFails(c)
      BY <3>3 DEF RequestFails, Statuses, RequestErrors
    <3> QED BY <2>3, <3>1, <3>2, <3>3 DEF RequestStep
  <2>4. ASSUME NEW d \in DestroyCalls, DestroyStep(d) PROVE TypeOK'
    <3> USE DEF RequestErrors, OK
    <3>1. CASE DestroyClosed(d)
      BY <3>1 DEF DestroyClosed
    <3>2. CASE DestroyJoin(d)
      BY <3>2 DEF DestroyJoin
    <3>3. CASE DestroyLead(d)
      BY <3>3 DEF DestroyLead
    <3>4. CASE DestroyWake(d)
      BY <3>4 DEF DestroyWake
    <3>5. CASE DestroyGiveUp(d)
      BY <3>5 DEF DestroyGiveUp
    <3>6. CASE DestroySettle(d)
      BY <3>6 DEF DestroySettle
    <3> QED BY <2>3, <2>4, <3>1, <3>2, <3>3, <3>4, <3>5, <3>6 DEF DestroyStep
  <2>5. ASSUME NEW c \in UserCalls, Admit(c) \/ Refuse(c) PROVE TypeOK'
    BY <2>5 DEF Admit, Refuse, RequestErrors, OK
  <2>6. ASSUME NEW c \in ConnectCalls, ConnectInstall(c) PROVE TypeOK'
    BY <2>6 DEF ConnectInstall, RequestErrors, OK
  <2>7. ASSUME NEW c \in UserCalls, ConnectDiscard(c) \/ ConnectFailed(c) \/ OpReturn(c) PROVE TypeOK'
    BY <2>7 DEF ConnectDiscard, ConnectFailed, OpReturn, RequestErrors, OK
  <2>8. CASE Service
    <3>1. CASE RemoteChanges
      BY <3>1 DEF RemoteChanges
    <3>2. ASSUME NEW c \in Calls, NEW status \in Statuses, 
                 NEW state \in {"running", "paused", "gone"}, Serve(c, status, state)
          PROVE TypeOK'
      BY <3>2 DEF Serve
    <3> HIDE DEF TypeOK
    <3> QED BY <2>8, <3>1, <3>2, ServiceStep
  <2>9. CASE UNCHANGED vars
    BY <2>9 DEF vars
  <2> QED
    BY <2>1, <2>2, <2>3, <2>4, <2>5, <2>6, <2>7, <2>8, <2>9 
    DEF Next, Step, ConnectStep, OpStep, AdmitStep, Terminated
<1>3. QED
  BY <1>1, <1>2, PTL DEF Spec

(* Requests, answers and outcomes keep telling the truth about the sandbox. *)
LEMMA NetworkStep ==
  ASSUME IInv, TypeOK', [Next]_vars
  PROVE  NetworkInv'
<1> USE CallsAssumption, ResultsDistinct
    DEF IInv, TypeOK, Calls, UserCalls, Witnesses, Goto, Return, handle, network, Leading,
        Labels, NetworkInv, AnswersHonest, OutcomesHonest,
        UnsentBeforeRequest, NotFoundMeansGone
<1>1. ASSUME NEW c \in Calls, Call(c) PROVE NetworkInv'
  BY <1>1 DEF Call
<1>2. ASSUME NEW d \in DestroyCalls, CancelCtx(d) PROVE NetworkInv'
  BY <1>2 DEF CancelCtx
<1>3. ASSUME NEW c \in Calls, Send(c) PROVE NetworkInv'
  BY <1>3 DEF Send
<1>4. ASSUME NEW c \in Calls, Receive(c) PROVE NetworkInv'
  <2>1. PICK decodes \in BOOLEAN : outcome' = [outcome EXCEPT ![c] = Interpret(c, decodes)]
    BY <1>4 DEF Receive
  <2> QED BY <1>4, <2>1, InterpretAnswer DEF Receive
<1>5. ASSUME NEW c \in Calls, RequestFails(c) PROVE NetworkInv'
  BY <1>5 DEF RequestFails
<1>6. ASSUME NEW d \in DestroyCalls, DestroyClosed(d) \/ DestroyGiveUp(d) PROVE NetworkInv'
  BY <1>6 DEF DestroyClosed, DestroyGiveUp
<1>7. ASSUME NEW d \in DestroyCalls, DestroyJoin(d) PROVE NetworkInv'
  BY <1>7 DEF DestroyJoin
<1>8. ASSUME NEW d \in DestroyCalls, DestroyLead(d) PROVE NetworkInv'
  BY <1>8 DEF DestroyLead, Active
<1>9. ASSUME NEW d \in DestroyCalls, DestroyWake(d) PROVE NetworkInv'
  BY <1>9 DEF DestroyWake
<1>10. ASSUME NEW d \in DestroyCalls, DestroySettle(d) PROVE NetworkInv'
  BY <1>10 DEF DestroySettle, Destroyed
<1>11. ASSUME NEW c \in UserCalls, Admit(c) PROVE NetworkInv'
  BY <1>11 DEF Admit, Active
<1>12. ASSUME NEW c \in UserCalls, Refuse(c) PROVE NetworkInv'
  BY <1>12 DEF Refuse, Active
<1>13. ASSUME NEW c \in ConnectCalls, ConnectInstall(c) PROVE NetworkInv'
  BY <1>13 DEF ConnectInstall, Active
<1>14. ASSUME NEW c \in ConnectCalls, ConnectDiscard(c) PROVE NetworkInv'
  BY <1>14 DEF ConnectDiscard
<1>15. ASSUME NEW c \in ConnectCalls, ConnectFailed(c) PROVE NetworkInv'
  BY <1>15 DEF ConnectFailed
<1>16. ASSUME NEW c \in PauseCalls \cup QueryCalls, OpReturn(c) PROVE NetworkInv'
  BY <1>16 DEF OpReturn
<1>17. ASSUME NEW c \in Calls, NEW status \in Statuses, NEW state \in {"running", "paused", "gone"},
             Serve(c, status, state), remote = "gone" => state = "gone",
             status = 404 => state = "gone", c \in DestroyCalls /\ status < 300 => state = "gone"
      PROVE  NetworkInv'
  BY <1>17 DEF Serve
<1>18. CASE RemoteChanges
  BY <1>18 DEF RemoteChanges
<1>19. CASE UNCHANGED vars
  BY <1>19 DEF vars
<1> QED
  BY <1>1, <1>2, <1>3, <1>4, <1>5, <1>6, <1>7, <1>8, <1>9, <1>10, <1>11, <1>12, <1>13, <1>14, <1>15, <1>16, <1>17, <1>18, <1>19, ServiceStep
  DEF Next, Step, DestroyStep, ConnectStep, OpStep, AdmitStep, RequestStep, Terminated

(* One destruction at a time, its waiters and its results. *)
LEMMA DestructionStep ==
  ASSUME IInv, TypeOK', [Next]_vars
  PROVE  DestroyInv'
<1> USE CallsAssumption, ResultsDistinct
    DEF IInv, TypeOK, Calls, UserCalls, Witnesses, Goto, Return, handle, network, Leading,
        Labels, DestroyInv, ReturnedHaveResults,
        OneDeleteAtATime, ClosedIsIdle, WaitersKnowTheirChannel, NilMeansGone,
        NoBorrowedFailure, NetworkInv, OutcomesHonest
<1>1. ASSUME NEW c \in Calls, Call(c) PROVE DestroyInv'
  BY <1>1 DEF Call
<1>2. ASSUME NEW d \in DestroyCalls, CancelCtx(d) PROVE DestroyInv'
  BY <1>2 DEF CancelCtx
<1>3. ASSUME NEW c \in Calls, Send(c) PROVE DestroyInv'
  BY <1>3 DEF Send
<1>4. ASSUME NEW c \in Calls, Receive(c) PROVE DestroyInv'
  BY <1>4 DEF Receive
<1>5. ASSUME NEW c \in Calls, RequestFails(c) PROVE DestroyInv'
  BY <1>5 DEF RequestFails
<1>6. ASSUME NEW d \in DestroyCalls, DestroyClosed(d) \/ DestroyGiveUp(d) PROVE DestroyInv'
  BY <1>6 DEF DestroyClosed, DestroyGiveUp
<1>7. ASSUME NEW d \in DestroyCalls, DestroyJoin(d) PROVE DestroyInv'
  BY <1>7 DEF DestroyJoin
<1>8. ASSUME NEW d \in DestroyCalls, DestroyLead(d) PROVE DestroyInv'
  BY <1>8 DEF DestroyLead, Active
<1>9. ASSUME NEW d \in DestroyCalls, DestroyWake(d) PROVE DestroyInv'
  BY <1>9 DEF DestroyWake
<1>10. ASSUME NEW d \in DestroyCalls, DestroySettle(d) PROVE DestroyInv'
  BY <1>10 DEF DestroySettle, Destroyed
<1>11. ASSUME NEW c \in UserCalls, Admit(c) PROVE DestroyInv'
  BY <1>11 DEF Admit, Active
<1>12. ASSUME NEW c \in UserCalls, Refuse(c) PROVE DestroyInv'
  BY <1>12 DEF Refuse, Active
<1>13. ASSUME NEW c \in ConnectCalls, ConnectInstall(c) PROVE DestroyInv'
  BY <1>13 DEF ConnectInstall, Active
<1>14. ASSUME NEW c \in ConnectCalls, ConnectDiscard(c) PROVE DestroyInv'
  BY <1>14 DEF ConnectDiscard
<1>15. ASSUME NEW c \in ConnectCalls, ConnectFailed(c) PROVE DestroyInv'
  BY <1>15 DEF ConnectFailed
<1>16. ASSUME NEW c \in PauseCalls \cup QueryCalls, OpReturn(c) PROVE DestroyInv'
  BY <1>16 DEF OpReturn
<1>17. ASSUME NEW c \in Calls, NEW status \in Statuses, NEW state \in {"running", "paused", "gone"},
             Serve(c, status, state), remote = "gone" => state = "gone",
             status = 404 => state = "gone", c \in DestroyCalls /\ status < 300 => state = "gone"
      PROVE  DestroyInv'
  BY <1>17 DEF Serve
<1>18. CASE RemoteChanges
  BY <1>18 DEF RemoteChanges
<1>19. CASE UNCHANGED vars
  BY <1>19 DEF vars
<1> QED
  BY <1>1, <1>2, <1>3, <1>4, <1>5, <1>6, <1>7, <1>8, <1>9, <1>10, <1>11, <1>12, <1>13, <1>14, <1>15, <1>16, <1>17, <1>18, <1>19, ServiceStep
  DEF Next, Step, DestroyStep, ConnectStep, OpStep, AdmitStep, RequestStep, Terminated

(* A call made after a successful Destroy gets no further than the check. *)
LEMMA LateStep ==
  ASSUME IInv, TypeOK', [Next]_vars
  PROVE  LateInv'
<1> USE CallsAssumption, ResultsDistinct
    DEF IInv, TypeOK, Calls, UserCalls, Witnesses, Goto, Return, handle, network, Leading,
        Labels, LateInv, LateCallsHeldBack, RefusedAfterDestroy,
        DestroyInv, ReturnedHaveResults, NilMeansGone, NetworkInv, UnsentBeforeRequest
<1>1. ASSUME NEW c \in Calls, Call(c) PROVE LateInv'
  BY <1>1 DEF Call
<1>2. ASSUME NEW d \in DestroyCalls, CancelCtx(d) PROVE LateInv'
  BY <1>2 DEF CancelCtx
<1>3. ASSUME NEW c \in Calls, Send(c) PROVE LateInv'
  BY <1>3 DEF Send
<1>4. ASSUME NEW c \in Calls, Receive(c) PROVE LateInv'
  BY <1>4 DEF Receive
<1>5. ASSUME NEW c \in Calls, RequestFails(c) PROVE LateInv'
  BY <1>5 DEF RequestFails
<1>6. ASSUME NEW d \in DestroyCalls, DestroyClosed(d) \/ DestroyGiveUp(d) PROVE LateInv'
  BY <1>6 DEF DestroyClosed, DestroyGiveUp
<1>7. ASSUME NEW d \in DestroyCalls, DestroyJoin(d) PROVE LateInv'
  BY <1>7 DEF DestroyJoin
<1>8. ASSUME NEW d \in DestroyCalls, DestroyLead(d) PROVE LateInv'
  BY <1>8 DEF DestroyLead, Active
<1>9. ASSUME NEW d \in DestroyCalls, DestroyWake(d) PROVE LateInv'
  BY <1>9 DEF DestroyWake
<1>10. ASSUME NEW d \in DestroyCalls, DestroySettle(d) PROVE LateInv'
  BY <1>10 DEF DestroySettle, Destroyed
<1>11. ASSUME NEW c \in UserCalls, Admit(c) PROVE LateInv'
  BY <1>11 DEF Admit, Active
<1>12. ASSUME NEW c \in UserCalls, Refuse(c) PROVE LateInv'
  BY <1>12 DEF Refuse, Active
<1>13. ASSUME NEW c \in ConnectCalls, ConnectInstall(c) PROVE LateInv'
  BY <1>13 DEF ConnectInstall, Active
<1>14. ASSUME NEW c \in ConnectCalls, ConnectDiscard(c) PROVE LateInv'
  BY <1>14 DEF ConnectDiscard
<1>15. ASSUME NEW c \in ConnectCalls, ConnectFailed(c) PROVE LateInv'
  BY <1>15 DEF ConnectFailed
<1>16. ASSUME NEW c \in PauseCalls \cup QueryCalls, OpReturn(c) PROVE LateInv'
  BY <1>16 DEF OpReturn
<1>17. ASSUME NEW c \in Calls, NEW status \in Statuses, NEW state \in {"running", "paused", "gone"},
             Serve(c, status, state), remote = "gone" => state = "gone",
             status = 404 => state = "gone", c \in DestroyCalls /\ status < 300 => state = "gone"
      PROVE  LateInv'
  BY <1>17 DEF Serve
<1>18. CASE RemoteChanges
  BY <1>18 DEF RemoteChanges
<1>19. CASE UNCHANGED vars
  BY <1>19 DEF vars
<1> QED
  BY <1>1, <1>2, <1>3, <1>4, <1>5, <1>6, <1>7, <1>8, <1>9, <1>10, <1>11, <1>12, <1>13, <1>14, <1>15, <1>16, <1>17, <1>18, <1>19, ServiceStep
  DEF Next, Step, DestroyStep, ConnectStep, OpStep, AdmitStep, RequestStep, Terminated

(* The record and the Connect calls that installed one. *)
LEMMA RecordStep ==
  ASSUME IInv, TypeOK', [Next]_vars
  PROVE  RecordInv'
<1> USE CallsAssumption, ResultsDistinct
    DEF IInv, TypeOK, Calls, UserCalls, Witnesses, Goto, Return, handle, network, Leading,
        Labels, RecordInv, DeleteUsesCurrentRecord, RecordInstalled,
        ConnectNilMeansInstalled, DestroyInv, OneDeleteAtATime, ReturnedHaveResults
<1>1. ASSUME NEW c \in Calls, Call(c) PROVE RecordInv'
  BY <1>1 DEF Call
<1>2. ASSUME NEW d \in DestroyCalls, CancelCtx(d) PROVE RecordInv'
  BY <1>2 DEF CancelCtx
<1>3. ASSUME NEW c \in Calls, Send(c) PROVE RecordInv'
  BY <1>3 DEF Send
<1>4. ASSUME NEW c \in Calls, Receive(c) PROVE RecordInv'
  BY <1>4 DEF Receive
<1>5. ASSUME NEW c \in Calls, RequestFails(c) PROVE RecordInv'
  BY <1>5 DEF RequestFails
<1>6. ASSUME NEW d \in DestroyCalls, DestroyClosed(d) \/ DestroyGiveUp(d) PROVE RecordInv'
  BY <1>6 DEF DestroyClosed, DestroyGiveUp
<1>7. ASSUME NEW d \in DestroyCalls, DestroyJoin(d) PROVE RecordInv'
  BY <1>7 DEF DestroyJoin
<1>8. ASSUME NEW d \in DestroyCalls, DestroyLead(d) PROVE RecordInv'
  BY <1>8 DEF DestroyLead, Active
<1>9. ASSUME NEW d \in DestroyCalls, DestroyWake(d) PROVE RecordInv'
  BY <1>9 DEF DestroyWake
<1>10. ASSUME NEW d \in DestroyCalls, DestroySettle(d) PROVE RecordInv'
  BY <1>10 DEF DestroySettle, Destroyed
<1>11. ASSUME NEW c \in UserCalls, Admit(c) PROVE RecordInv'
  BY <1>11 DEF Admit, Active
<1>12. ASSUME NEW c \in UserCalls, Refuse(c) PROVE RecordInv'
  BY <1>12 DEF Refuse, Active
<1>13. ASSUME NEW c \in ConnectCalls, ConnectInstall(c) PROVE RecordInv'
  BY <1>13 DEF ConnectInstall, Active
<1>14. ASSUME NEW c \in ConnectCalls, ConnectDiscard(c) PROVE RecordInv'
  BY <1>14 DEF ConnectDiscard
<1>15. ASSUME NEW c \in ConnectCalls, ConnectFailed(c) PROVE RecordInv'
  BY <1>15 DEF ConnectFailed
<1>16. ASSUME NEW c \in PauseCalls \cup QueryCalls, OpReturn(c) PROVE RecordInv'
  BY <1>16 DEF OpReturn
<1>17. ASSUME NEW c \in Calls, NEW status \in Statuses, NEW state \in {"running", "paused", "gone"},
             Serve(c, status, state), remote = "gone" => state = "gone",
             status = 404 => state = "gone", c \in DestroyCalls /\ status < 300 => state = "gone"
      PROVE  RecordInv'
  BY <1>17 DEF Serve
<1>18. CASE RemoteChanges
  BY <1>18 DEF RemoteChanges
<1>19. CASE UNCHANGED vars
  BY <1>19 DEF vars
<1> QED
  BY <1>1, <1>2, <1>3, <1>4, <1>5, <1>6, <1>7, <1>8, <1>9, <1>10, <1>11, <1>12, <1>13, <1>14, <1>15, <1>16, <1>17, <1>18, <1>19, ServiceStep
  DEF Next, Step, DestroyStep, ConnectStep, OpStep, AdmitStep, RequestStep, Terminated

(* The inductive invariant holds in every reachable state. *)
THEOREM Invariance == Spec => []IInv
<1>1. Init => IInv
  <2> SUFFICES ASSUME Init PROVE IInv
    OBVIOUS
  <2> USE CallsAssumption, ResultsDistinct DEF Init, Calls, UserCalls, Witnesses
  <2>1. TypeOK
    BY InitTypeCorrect
  <2>2. NetworkInv
    BY DEF NetworkInv, AnswersHonest, OutcomesHonest, UnsentBeforeRequest, NotFoundMeansGone
  <2>3. DestroyInv
    BY DEF DestroyInv, ReturnedHaveResults, OneDeleteAtATime, ClosedIsIdle,
           WaitersKnowTheirChannel, NilMeansGone, NoBorrowedFailure, Leading
  <2>4. LateInv
    BY DEF LateInv, LateCallsHeldBack, RefusedAfterDestroy
  <2>5. RecordInv
    BY DEF RecordInv, DeleteUsesCurrentRecord, RecordInstalled, ConnectNilMeansInstalled, Leading
  <2> QED BY <2>1, <2>2, <2>3, <2>4, <2>5 DEF IInv
<1>2. IInv /\ TypeOK' /\ [Next]_vars => IInv'
  BY NetworkStep, DestructionStep, LateStep, RecordStep DEF IInv
<1>3. QED
  BY <1>1, <1>2, TypeCorrect, PTL DEF Spec

-----------------------------------------------------------------------------

(* At most one Destroy call is ever between the two locked sections around its
   DELETE (sandbox.go, Destroy), however many callers race, and the record its
   DELETE was built from is the one the handle still holds. *)
THEOREM DestroyIsExclusive == Spec => []DestructionIsExclusive
<1>1. IInv => DestructionIsExclusive
  BY DEF IInv, DestroyInv, RecordInv, DestructionIsExclusive
<1>2. QED
  BY <1>1, Invariance, PTL

(* Destroy never reports success, to the leader or to those that joined it,
   while the sandbox exists. *)
THEOREM DestroyIsSound == Spec => []NilMeansGone
<1>1. IInv => NilMeansGone
  BY DEF IInv, DestroyInv
<1>2. QED
  BY <1>1, Invariance, PTL

(* A Destroy call that waits holds a channel that is closed or that the call
   at work is going to close. *)
THEOREM WaitersAreNotStranded == Spec => []NoStrandedWaiter
<1>1. IInv => NoStrandedWaiter
  BY DEF IInv, TypeOK, DestroyInv, WaitersKnowTheirChannel, OneDeleteAtATime,
         NoStrandedWaiter
<1>2. QED
  BY <1>1, Invariance, PTL

(* A Destroy call fails only by its own request or its own context. *)
THEOREM FailuresAreOwn == Spec => []NoBorrowedFailure
<1>1. IInv => NoBorrowedFailure
  BY DEF IInv, DestroyInv
<1>2. QED
  BY <1>1, Invariance, PTL

(* A method called after a successful Destroy is refused and sends nothing. *)
THEOREM LateCallsAreRefused == Spec => []RefusedAfterDestroy
<1>1. IInv => RefusedAfterDestroy
  BY DEF IInv, LateInv
<1>2. QED
  BY <1>1, Invariance, PTL

(* A Connect that returned nil has installed its record, and the record in use
   is never that of a Connect that was over when this one was called. *)
THEOREM ConnectIsHonest == Spec => []ConnectNilMeansInstalled
<1>1. IInv => ConnectNilMeansInstalled
  BY DEF IInv, RecordInv
<1>2. QED
  BY <1>1, Invariance, PTL

(* ErrSandboxNotFound is only reported of a sandbox that is gone. *)
THEOREM NotFoundIsTrue == Spec => []NotFoundMeansGone
<1>1. IInv => NotFoundMeansGone
  BY DEF IInv, NetworkInv
<1>2. QED
  BY <1>1, Invariance, PTL

(* No step of any call reopens a closed handle, changes its record, starts a
   destruction or puts another DELETE on the wire. *)
THEOREM ClosedForever == Spec => ClosedIsFinal
<1> DEFINE Final == 
      closed => /\ closed'
                /\ ~destroying'
                /\ record' = record
                /\ \A d \in DestroyCalls : request[d] = "unsent" => request'[d] = "unsent"
<1>1. IInv /\ [Next]_vars => [Final]_vars
  <2> SUFFICES ASSUME IInv, Next, closed PROVE Final
    BY DEF vars
  <2> USE CallsAssumption DEF IInv, TypeOK, DestroyInv, OneDeleteAtATime, ClosedIsIdle,
          Leading, Calls, UserCalls, Witnesses, handle, network
  <2>1. ASSUME NEW c \in Calls, Call(c) \/ Receive(c) \/ RequestFails(c) PROVE Final
    BY <2>1 DEF Call, Receive, RequestFails
  <2>2. ASSUME NEW c \in Calls, Send(c) PROVE Final
    BY <2>2 DEF Send
  <2>3. ASSUME NEW d \in DestroyCalls,
               CancelCtx(d) \/ DestroyClosed(d) \/ DestroyJoin(d) \/ DestroyWake(d) \/ DestroyGiveUp(d)
        PROVE  Final
    BY <2>3 DEF CancelCtx, DestroyClosed, DestroyJoin, DestroyWake, DestroyGiveUp
  <2>4. ASSUME NEW d \in DestroyCalls, DestroyLead(d) \/ DestroySettle(d) PROVE Final
    BY <2>4 DEF DestroyLead, DestroySettle, Active
  <2>5. ASSUME NEW c \in UserCalls,
               Admit(c) \/ Refuse(c) \/ ConnectInstall(c) \/ ConnectDiscard(c)
                 \/ ConnectFailed(c) \/ OpReturn(c)
        PROVE  Final
    BY <2>5 DEF Admit, Refuse, ConnectInstall, ConnectDiscard, ConnectFailed, OpReturn, Active
  <2>6. CASE RemoteChanges
    BY <2>6 DEF RemoteChanges
  <2>7. ASSUME NEW c \in Calls, NEW status \in Statuses, NEW state \in {"running", "paused", "gone"},
               Serve(c, status, state)
        PROVE  Final
    BY <2>7 DEF Serve
  <2>8. CASE UNCHANGED vars
    BY <2>8 DEF vars
  <2> QED
    BY <2>1, <2>2, <2>3, <2>4, <2>5, <2>6, <2>7, <2>8, ServiceStep
    DEF Next, Step, DestroyStep, ConnectStep, OpStep, AdmitStep, RequestStep, Terminated
<1>2. QED
  BY <1>1, Invariance, PTL DEF Spec, ClosedIsFinal

-----------------------------------------------------------------------------
(* The refinement: each action of the handle is one action of the contract, or
   changes nothing the contract sees. *)
(* A call whose result is decided in a step in which the others neither move
   nor return. *)
LEMMA Decides ==
  ASSUME NEW c \in Calls, NEW before, NEW after,
         Verdict(c) = before, Verdict(c)' = after,
         \A e \in Calls \ {c} : ret'[e] = ret[e] /\ pc'[e] = pc[e]
  PROVE  Contract!Decide(c, before, after)
<1>1. \A e \in Calls \ {c} : Verdict(e)' = Verdict(e)
  BY DEF Verdict, Leading
<1> QED BY <1>1 DEF Contract!Decide

(* A step that neither decides a call nor changes what the handle shows. *)
LEMMA Invisible ==
  ASSUME \A c \in Calls : Verdict(c)' = Verdict(c),
         UNCHANGED <<destroyWait, closed, record>>
  PROVE  /\ remote' = remote => UNCHANGED Contract!vars
         /\ remote' = "gone" => Contract!Vanish
  BY DEF Contract!vars, Contract!Vanish

(* The handle implements its contract. *)
THEOREM Refinement == Spec => ImplementsContract
<1>1. Init => Contract!Init
  BY CallsAssumption, ResultsDistinct 
  DEF Init, Contract!Init, Contract!Callers, Calls, UserCalls, Verdict, Leading
<1>2. IInv /\ TypeOK' /\ [Next]_vars => [Contract!Next]_Contract!vars
  <2> SUFFICES ASSUME IInv, TypeOK', [Next]_vars PROVE [Contract!Next]_Contract!vars
    OBVIOUS
  <2> USE CallsAssumption, ResultsDistinct
      DEF IInv, TypeOK, Calls, UserCalls, Witnesses, Goto, Return, handle, network, Verdict, Leading
  <2>1. ASSUME NEW c \in Calls, Call(c) \/ Send(c) PROVE UNCHANGED Contract!vars
    BY <2>1, Invisible DEF Call, Send
  <2>2. ASSUME NEW c \in Calls, Receive(c) \/ RequestFails(c) PROVE UNCHANGED Contract!vars
    BY <2>2, Invisible DEF Receive, RequestFails
  <2>3. ASSUME NEW d \in DestroyCalls, CancelCtx(d) \/ DestroyJoin(d) \/ DestroyWake(d)
        PROVE  UNCHANGED Contract!vars
    BY <2>3, Invisible DEF CancelCtx, DestroyJoin, DestroyWake
  <2>4. ASSUME NEW d \in DestroyCalls, DestroyLead(d) PROVE Contract!Claim(d)
    <3>1. Verdict(d) = "pending" /\ \A c \in Calls : Verdict(c)' = Verdict(c)
      BY <2>4 DEF DestroyLead, DestroyInv, ReturnedHaveResults
    <3> QED BY <2>4, <3>1 DEF DestroyLead, Active, Contract!Claim, Contract!Open, DestroyInv, OneDeleteAtATime
  <2>5. ASSUME NEW d \in DestroyCalls, DestroySettle(d)
        PROVE  Contract!Succeed(d) \/ Contract!Fail(d)
    <3>1. destroyWait = d /\ Verdict(d) = "pending"
      BY <2>5 DEF DestroySettle, DestroyInv, OneDeleteAtATime, ReturnedHaveResults
    <3>2. \A e \in Calls \ {d} : ret'[e] = ret[e] /\ pc'[e] = pc[e]
      BY <2>5 DEF DestroySettle
    <3>3. CASE Destroyed(outcome[d])
      <4>1. Verdict(d)' = "done" /\ closed' /\ remote = "gone"
        BY <2>5, <3>3 DEF DestroySettle, Destroyed, NetworkInv, OutcomesHonest
      <4>2. Contract!Decide(d, "pending", "done")
        BY <3>1, <3>2, <4>1, Decides
      <4> QED BY <2>5, <3>1, <4>1, <4>2 DEF DestroySettle, Contract!Succeed
    <3>4. CASE ~Destroyed(outcome[d])
      <4>1. Verdict(d)' = "failed" /\ closed' = closed
        BY <2>5, <3>4 DEF DestroySettle, Destroyed
      <4>2. Contract!Decide(d, "pending", "failed")
        BY <3>1, <3>2, <4>1, Decides
      <4> QED BY <2>5, <3>1, <4>1, <4>2 DEF DestroySettle, Contract!Fail
    <3> QED BY <3>3, <3>4
  <2>6. ASSUME NEW d \in DestroyCalls, DestroyClosed(d) PROVE Contract!Share(d)
    <3>1. Contract!Decide(d, "pending", "done")
      BY <2>6, Decides DEF DestroyClosed, DestroyInv, ReturnedHaveResults
    <3> QED BY <2>6, <3>1 DEF DestroyClosed, Contract!Share
  <2>7. ASSUME NEW d \in DestroyCalls, DestroyGiveUp(d) PROVE Contract!Withdraw(d)
    <3>1. Contract!Decide(d, "pending", "failed")
      BY <2>7, Decides DEF DestroyGiveUp, DestroyInv, ReturnedHaveResults
    <3> QED BY <2>7, <3>1 DEF DestroyGiveUp, Contract!Withdraw, DestroyInv, OneDeleteAtATime
  <2>8. ASSUME NEW c \in UserCalls, Admit(c) PROVE Contract!Admit(c)
    <3>1. Contract!Decide(c, "pending", "admitted")
      BY <2>8, Decides DEF Admit, DestroyInv, ReturnedHaveResults
    <3> QED BY <2>8, <3>1 DEF Admit, Active, Contract!Admit, Contract!Open, DestroyInv, OneDeleteAtATime
  <2>9. ASSUME NEW c \in UserCalls, Refuse(c) PROVE Contract!Refuse(c)
    <3>1. Contract!Decide(c, "pending", "refused")
      BY <2>9, Decides DEF Refuse, DestroyInv, ReturnedHaveResults
    <3> QED BY <2>9, <3>1 DEF Refuse, Active, Contract!Refuse, Contract!Open, DestroyInv, OneDeleteAtATime
  <2>10. ASSUME NEW c \in ConnectCalls, ConnectInstall(c) PROVE Contract!Install(c)
    <3>1. Contract!Decide(c, "admitted", "done")
      BY <2>10, Decides DEF ConnectInstall, DestroyInv, ReturnedHaveResults
    <3> QED BY <2>10, <3>1 DEF ConnectInstall, Active, Contract!Install, Contract!Open, DestroyInv, OneDeleteAtATime
  <2>11. ASSUME NEW c \in ConnectCalls, ConnectDiscard(c) PROVE Contract!Abandon(c)
    <3>1. Contract!Decide(c, "admitted", "refused")
      BY <2>11, Decides DEF ConnectDiscard, DestroyInv, ReturnedHaveResults
    <3> QED BY <2>11, <3>1 DEF ConnectDiscard, Active, Contract!Abandon, Contract!Open, DestroyInv, OneDeleteAtATime
  <2>12. ASSUME NEW c \in ConnectCalls, ConnectFailed(c) PROVE Contract!Abandon(c)
    <3>1. Contract!Decide(c, "admitted", "failed")
      BY <2>12, Decides DEF ConnectFailed, DestroyInv, ReturnedHaveResults
    <3> QED BY <2>12, <3>1 DEF ConnectFailed, Contract!Abandon
  <2>13. ASSUME NEW c \in PauseCalls \cup QueryCalls, OpReturn(c) PROVE Contract!Finish(c)
    <3>1. Contract!Decide(c, "admitted", "done") \/ Contract!Decide(c, "admitted", "failed")
      BY <2>13, Decides DEF OpReturn, DestroyInv, ReturnedHaveResults
    <3> QED BY <2>13, <3>1 DEF OpReturn, Contract!Finish
  <2>14. CASE RemoteChanges
    <3>1. Contract!Vanish \/ UNCHANGED Contract!vars
      BY <2>14 DEF RemoteChanges, Contract!Vanish, Contract!vars
    <3> QED BY <3>1 DEF Contract!Next
  <2>15. ASSUME NEW c \in Calls, NEW status \in Statuses, NEW state \in {"running", "paused", "gone"},
                Serve(c, status, state), remote = "gone" => state = "gone"
         PROVE  Contract!Vanish \/ UNCHANGED Contract!vars
    BY <2>15 DEF Serve, Contract!Vanish, Contract!vars
  <2>16. CASE UNCHANGED vars
    BY <2>16 DEF vars, Contract!vars
  <2> QED
    BY <2>1, <2>2, <2>3, <2>4, <2>5, <2>6, <2>7, <2>8, <2>9, <2>10, <2>11, <2>12, <2>13,
       <2>14, <2>15, <2>16, ServiceStep
    DEF Next, Step, DestroyStep, ConnectStep, OpStep, AdmitStep, RequestStep, Terminated, Contract!Next
<1>3. QED
  BY <1>1, <1>2, Invariance, TypeCorrect, PTL DEF Spec, ImplementsContract, Contract!Spec
-----------------------------------------------------------------------------
(* Liveness.  What a call does in one step of its own, and that nobody else
   moves it. *)

(* The control location of a call changes by its own steps only, and a request
   once sent stays so. *)
LEMMA OthersKeepOut ==
  ASSUME TypeOK, [Next]_vars, NEW c \in Calls, ~Step(c), pc[c] # "idle"
  PROVE  /\ pc'[c] = pc[c]
         /\ request[c] # "unsent" => request'[c] # "unsent"
         /\ c \in DestroyCalls => waitOn'[c] = waitOn[c]
<1> DEFINE Kept == /\ pc'[c] = pc[c]
                   /\ request[c] # "unsent" => request'[c] # "unsent"
                   /\ c \in DestroyCalls => waitOn'[c] = waitOn[c]
<1> USE CallsAssumption DEF TypeOK, Calls, UserCalls, Goto, Return, handle, network
<1>1. ASSUME NEW b \in Calls, Call(b) PROVE Kept
  BY <1>1 DEF Call
<1>2. ASSUME NEW b \in Calls, RequestStep(b), b # c PROVE Kept
  BY <1>2 DEF RequestStep, Send, Receive, RequestFails
<1>3. ASSUME NEW d \in DestroyCalls, DestroyStep(d), d # c PROVE Kept
  BY <1>2, <1>3 DEF DestroyStep, DestroyClosed, DestroyJoin, DestroyLead, DestroyWake, DestroyGiveUp, DestroySettle
<1>4. ASSUME NEW b \in UserCalls, ConnectStep(b) \/ OpStep(b), b # c PROVE Kept
  BY <1>2, <1>4 DEF ConnectStep, OpStep, AdmitStep, Admit, Refuse, ConnectInstall, ConnectDiscard,
                    ConnectFailed, OpReturn
<1>5. ASSUME NEW b \in Calls, Step(b) PROVE Kept
  BY <1>3, <1>4, <1>5 DEF Step
<1>6. ASSUME NEW d \in DestroyCalls, CancelCtx(d) PROVE Kept
  BY <1>6 DEF CancelCtx
<1>7. ASSUME RemoteChanges \/ UNCHANGED vars PROVE Kept
  BY <1>7 DEF RemoteChanges, vars
<1>8. ASSUME NEW b \in Calls, NEW status \in Statuses, NEW state \in {"running", "paused", "gone"},
             Serve(b, status, state)
      PROVE  Kept
  BY <1>8 DEF Serve
<1> HIDE DEF Kept, TypeOK
<1>9. ASSUME Service PROVE Kept
  BY <1>7, <1>8, <1>9, ServiceStep
<1>10. Kept
  BY <1>1, <1>5, <1>6, <1>7, <1>9 DEF Next, Terminated
<1> QED BY <1>10 DEF Kept

(* A step of a call takes it on: past the check, from a request that is still
   to be sent to one that was, and so on until it returns.  Only a Destroy may
   come to wait, or start over when it is woken. *)
LEMMA OwnStepGoesOn ==
  ASSUME TypeOK, NEW c \in Calls, Step(c)
  PROVE  /\ pc[c] = "entered" => \/ pc'[c] \in {"request", "returned"}
                                 \/ pc'[c] = "waiting" /\ c \in DestroyCalls /\ ~closed
         /\ pc[c] = "waiting" => pc'[c] \in {"entered", "returned"}
         /\ pc[c] = "request" => \/ pc'[c] = "settle"
                                 \/ /\ pc'[c] = "request"
                                    /\ request[c] = "unsent" /\ request'[c] # "unsent"
         /\ pc[c] = "settle" => pc'[c] = "returned" /\ (c \in DestroyCalls => c \in signalled')
         /\ pc[c] \notin {"idle", "returned"}
<1> DEFINE On == 
         /\ pc[c] = "entered" => \/ pc'[c] \in {"request", "returned"}
                                 \/ pc'[c] = "waiting" /\ c \in DestroyCalls /\ ~closed
         /\ pc[c] = "waiting" => pc'[c] \in {"entered", "returned"}
         /\ pc[c] = "request" => \/ pc'[c] = "settle"
                                 \/ /\ pc'[c] = "request"
                                    /\ request[c] = "unsent" /\ request'[c] # "unsent"
         /\ pc[c] = "settle" => pc'[c] = "returned" /\ (c \in DestroyCalls => c \in signalled')
         /\ pc[c] \notin {"idle", "returned"}
<1> USE CallsAssumption DEF TypeOK, Calls, UserCalls, Goto, Return, handle, network
<1>1. CASE RequestStep(c)
  BY <1>1 DEF RequestStep, Send, Receive, RequestFails
<1>2. ASSUME c \in DestroyCalls, DestroyStep(c) PROVE On
  BY <1>1, <1>2 DEF DestroyStep, DestroyClosed, DestroyJoin, DestroyLead, DestroyWake, DestroyGiveUp, DestroySettle
<1>3. ASSUME c \in UserCalls, ConnectStep(c) \/ OpStep(c) PROVE On
  BY <1>1, <1>3 DEF ConnectStep, OpStep, AdmitStep, Admit, Refuse, ConnectInstall, ConnectDiscard,
                    ConnectFailed, OpReturn
<1> HIDE DEF On
<1>4. On
  BY <1>2, <1>3 DEF Step
<1> QED BY <1>4 DEF On

(* A channel that is closed stays closed. *)
LEMMA ChannelsStayClosed ==
  ASSUME TypeOK, [Next]_vars
  PROVE  signalled \subseteq signalled'
<1> USE DEF Calls, UserCalls, Goto, Return, handle, network
<1>1. ASSUME NEW c \in Calls, Call(c) PROVE signalled \subseteq signalled'
  BY <1>1 DEF Call
<1>2. ASSUME NEW c \in Calls, RequestStep(c) PROVE signalled \subseteq signalled'
  BY <1>2 DEF RequestStep, Send, Receive, RequestFails
<1>3. ASSUME NEW c \in Calls, Step(c) PROVE signalled \subseteq signalled'
  BY <1>2, <1>3 DEF Step, DestroyStep, DestroyClosed, DestroyJoin, DestroyLead, DestroyWake, DestroyGiveUp,
       DestroySettle, ConnectStep, OpStep, AdmitStep, Admit, Refuse, ConnectInstall, ConnectDiscard,
       ConnectFailed, OpReturn
<1>4. ASSUME NEW d \in DestroyCalls, CancelCtx(d) PROVE signalled \subseteq signalled'
  BY <1>4 DEF CancelCtx
<1>5. ASSUME RemoteChanges \/ UNCHANGED vars PROVE signalled \subseteq signalled'
  BY <1>5 DEF RemoteChanges, vars
<1>6. ASSUME Service PROVE signalled \subseteq signalled'
  BY <1>5, <1>6, ServiceStep DEF Serve
<1> QED BY <1>1, <1>3, <1>4, <1>5, <1>6 DEF Next, Terminated

(* Where a call may be, and what a call between its two sections comes to: it
   has returned, and its channel, if it made one, is closed. *)
At(c, label) == pc[c] = label
ToSend(c)    == pc[c] = "request" /\ request[c] = "unsent"
IsSent(c)    == pc[c] = "request" /\ request[c] # "unsent"
Through(c)   == pc[c] = "returned" /\ (c \in DestroyCalls => c \in signalled)
ComesBack(c) == Leading(c) ~> Through(c)

(* What can be done by a call that does not wait for another. *)
LEMMA FreeToMove ==
  ASSUME NobodyIsStuck, NEW c \in Calls
  PROVE  /\ At(c, "entered") \/ ToSend(c) \/ IsSent(c) \/ At(c, "settle") => CanStep(c)
         /\ At(c, "waiting") /\ ~(\E d \in DestroyCalls : waitOn[c] = d /\ Leading(d)) 
              => CanStep(c)
  BY DEF NobodyIsStuck, At, ToSend, IsSent

(* A request comes back, and its call returns: a Destroy closes its channel
   by then. *)
THEOREM RequestsComeBack ==
  FairSpec /\ []NobodyIsStuck => 
    \A c \in Calls : ComesBack(c)
<1>1. ASSUME NEW c \in Calls
      PROVE  FairSpec /\ []NobodyIsStuck => ComesBack(c)
  <2>1. /\ TypeOK /\ [Next]_vars => (ToSend(c) => ToSend(c)' \/ IsSent(c)' \/ At(c, "settle")')
        /\ TypeOK /\ <<Step(c)>>_vars => (ToSend(c) => IsSent(c)' \/ At(c, "settle")')
    BY OthersKeepOut, OwnStepGoesOn DEF At, ToSend, IsSent
  <2>2. /\ TypeOK /\ [Next]_vars => (IsSent(c) => IsSent(c)' \/ At(c, "settle")')
        /\ TypeOK /\ <<Step(c)>>_vars => (IsSent(c) => At(c, "settle")')
    BY OthersKeepOut, OwnStepGoesOn DEF At, IsSent
  <2>3. /\ TypeOK /\ [Next]_vars => (At(c, "settle") => At(c, "settle")' \/ Through(c)')
        /\ TypeOK /\ <<Step(c)>>_vars => (At(c, "settle") => Through(c)')
    BY OthersKeepOut, OwnStepGoesOn DEF At, Through
  <2>4. NobodyIsStuck => (ToSend(c) \/ IsSent(c) \/ At(c, "settle") => CanStep(c))
    BY FreeToMove
  <2>5. Leading(c) <=> ToSend(c) \/ IsSent(c) \/ At(c, "settle")
    BY DEF Leading, At, ToSend, IsSent
  <2>6. Fairness => Runs(c)
    BY DEF Fairness
  <2> QED BY <2>1, <2>2, <2>3, <2>4, <2>5, <2>6, TypeCorrect, PTL
          DEF FairSpec, Spec, Runs, CanStep, ComesBack
<1> QED BY <1>1

(* Every method but Destroy returns, whatever becomes of the handle. *)
THEOREM UserCallsReturn ==
  FairSpec /\ []NobodyIsStuck => \A c \in UserCalls : pc[c] = "entered" ~> pc[c] = "returned"
<1>1. ASSUME NEW c \in UserCalls
      PROVE  FairSpec /\ []NobodyIsStuck => (At(c, "entered") ~> At(c, "returned"))
  <2>0. c \in Calls /\ c \notin DestroyCalls
    BY CallsAssumption DEF Calls
  <2>1. /\ TypeOK /\ [Next]_vars => 
             (At(c, "entered") => At(c, "entered")' \/ Leading(c)' \/ At(c, "returned")')
        /\ TypeOK /\ <<Step(c)>>_vars => (At(c, "entered") => Leading(c)' \/ At(c, "returned")')
    BY <2>0, OthersKeepOut, OwnStepGoesOn DEF At, Leading
  <2>2. NobodyIsStuck => (At(c, "entered") => CanStep(c))
    BY <2>0, FreeToMove
  <2>3. FairSpec /\ []NobodyIsStuck => (Leading(c) ~> At(c, "returned"))
    <3>1. FairSpec /\ []NobodyIsStuck => ComesBack(c)
      BY <2>0, RequestsComeBack
    <3>2. Through(c) => At(c, "returned")
      BY DEF At, Through
    <3> QED BY <3>1, <3>2, PTL DEF ComesBack
  <2>4. Fairness => Runs(c)
    BY <2>0 DEF Fairness
  <2> QED BY <2>1, <2>2, <2>3, <2>4, TypeCorrect, PTL DEF FairSpec, Spec, Runs, CanStep
<1> QED BY <1>1 DEF At

(* A Destroy that waits for another one is woken: no wait is for ever, even if
   its context is never done. *)
THEOREM WaitersAreWoken ==
  FairSpec /\ []NobodyIsStuck =>
    \A d, e \in DestroyCalls : pc[d] = "waiting" /\ waitOn[d] = e ~> pc[d] # "waiting"
<1> DEFINE On(d, e)   == pc[d] = "waiting" /\ waitOn[d] = e
           Off(d)     == pc[d] # "waiting"
           Closed(e)  == e \in signalled
<1>1. ASSUME NEW d \in DestroyCalls, NEW e \in DestroyCalls
      PROVE  FairSpec /\ []NobodyIsStuck => (On(d, e) ~> Off(d))
  <2>0. d \in Calls /\ e \in Calls
    BY DEF Calls
  <2>1. /\ TypeOK /\ [Next]_vars => (On(d, e) => On(d, e)' \/ Off(d)')
        /\ TypeOK /\ <<Step(d)>>_vars => (On(d, e) => Off(d)')
    BY <2>0, OthersKeepOut, OwnStepGoesOn
  <2>2. IInv /\ On(d, e) => Closed(e) \/ Leading(e)
    BY DEF IInv, TypeOK, DestroyInv, WaitersKnowTheirChannel, OneDeleteAtATime
  <2>3. FairSpec /\ []NobodyIsStuck => (Leading(e) ~> Closed(e))
    <3>1. FairSpec /\ []NobodyIsStuck => ComesBack(e)
      BY <2>0, RequestsComeBack
    <3>2. Through(e) => Closed(e)
      BY DEF Through
    <3> QED BY <3>1, <3>2, PTL DEF ComesBack
  <2>4. TypeOK /\ [Next]_vars => (Closed(e) => Closed(e)')
    BY ChannelsStayClosed
  <2>5. IInv /\ NobodyIsStuck => (On(d, e) /\ Closed(e) => CanStep(d))
    BY <2>0, FreeToMove DEF IInv, DestroyInv, ReturnedHaveResults, Leading, At
  <2>6. Fairness => Runs(d)
    BY <2>0 DEF Fairness
  <2> HIDE DEF On, Off, Closed
  <2> QED BY <2>1, <2>2, <2>3, <2>4, <2>5, <2>6, TypeCorrect, Invariance, PTL DEF FairSpec, Spec, Runs, CanStep
<1> QED BY <1>1

(* A Destroy comes to return, or to wait for another one. *)
THEOREM DestroysGoOn ==
  FairSpec /\ []NobodyIsStuck =>
    \A d \in DestroyCalls : pc[d] = "entered" ~> pc[d] \in {"returned", "waiting"}
<1> DEFINE There(d) == pc[d] \in {"returned", "waiting"}
<1>1. ASSUME NEW d \in DestroyCalls
      PROVE  FairSpec /\ []NobodyIsStuck => (At(d, "entered") ~> There(d))
  <2>0. d \in Calls
    BY DEF Calls
  <2>1. /\ TypeOK /\ [Next]_vars => (At(d, "entered") => At(d, "entered")' \/ Leading(d)' \/ There(d)')
        /\ TypeOK /\ <<Step(d)>>_vars => (At(d, "entered") => Leading(d)' \/ There(d)')
    BY <2>0, OthersKeepOut, OwnStepGoesOn DEF At, Leading
  <2>2. NobodyIsStuck => (At(d, "entered") => CanStep(d))
    BY <2>0, FreeToMove
  <2>3. FairSpec /\ []NobodyIsStuck => (Leading(d) ~> There(d))
    <3>1. FairSpec /\ []NobodyIsStuck => ComesBack(d)
      BY <2>0, RequestsComeBack
    <3>2. Through(d) => There(d)
      BY DEF Through
    <3> QED BY <3>1, <3>2, PTL DEF ComesBack
  <2>4. Fairness => Runs(d)
    BY <2>0 DEF Fairness
  <2> HIDE DEF There
  <2> QED BY <2>1, <2>2, <2>3, <2>4, TypeCorrect, PTL DEF FairSpec, Spec, Runs, CanStep
<1> QED BY <1>1 DEF At

(* A call that has begun is not undone. *)
LEMMA NeverIdleAgain ==
  ASSUME TypeOK, [Next]_vars, NEW c \in Calls, pc[c] # "idle"
  PROVE  /\ pc'[c] # "idle"
         /\ pc[c] = "returned" => pc'[c] = "returned"
<1>0. pc[c] \in {"entered", "waiting", "request", "settle", "returned"}
  BY DEF TypeOK, Labels
<1>1. CASE Step(c)
  BY <1>0, <1>1, OwnStepGoesOn
<1>2. CASE ~Step(c)
  BY <1>2, OthersKeepOut
<1> QED BY <1>1, <1>2

(* A handle once closed is closed for ever. *)
LEMMA ClosedStays == Spec => [](closed => []closed)
<1> DEFINE Final == 
      closed => /\ closed'
                /\ ~destroying'
                /\ record' = record
                /\ \A d \in DestroyCalls : request[d] = "unsent" => request'[d] = "unsent"
<1>1. [Final]_vars => (closed => closed')
  BY DEF vars, handle
<1> QED BY <1>1, ClosedForever, PTL DEF ClosedIsFinal

(* If some Destroy ever succeeds, every call returns: a Destroy that waits is
   woken and finds the handle closed, and one that is still to begin does not
   wait at all. *)
THEOREM SuccessReleasesAll ==
  FairSpec /\ []NobodyIsStuck /\ <>closed => CallsReturn
<1>1. ASSUME NEW c \in Calls
      PROVE  FairSpec /\ []NobodyIsStuck /\ <>closed => (At(c, "entered") ~> At(c, "returned"))
  <2> DEFINE Begun == pc[c] # "idle"
  <2>1. /\ TypeOK /\ [Next]_vars => (closed /\ At(c, "entered") =>
             At(c, "entered")' \/ Leading(c)' \/ At(c, "returned")')
        /\ TypeOK /\ <<Step(c)>>_vars => (closed /\ At(c, "entered") => Leading(c)' \/ At(c, "returned")')
    BY OthersKeepOut, OwnStepGoesOn DEF At, Leading
  <2>2. /\ TypeOK /\ [Next]_vars => (At(c, "waiting") =>
             At(c, "waiting")' \/ At(c, "entered")' \/ At(c, "returned")')
        /\ TypeOK /\ <<Step(c)>>_vars => (At(c, "waiting") => At(c, "entered")' \/ At(c, "returned")')
    BY OthersKeepOut, OwnStepGoesOn DEF At
  <2>3. NobodyIsStuck => (At(c, "entered") => CanStep(c))
    BY FreeToMove
  <2>4. IInv /\ NobodyIsStuck => (closed /\ At(c, "waiting") => CanStep(c))
    <3> SUFFICES ASSUME IInv, NobodyIsStuck, closed, At(c, "waiting") PROVE CanStep(c)
      OBVIOUS
    <3>1. \A d \in DestroyCalls : ~Leading(d)
      BY CallsAssumption DEF IInv, TypeOK, DestroyInv, ClosedIsIdle, OneDeleteAtATime, Calls
    <3> QED BY <3>1, FreeToMove
  <2>5. TypeOK /\ [Next]_vars => (Begun => Begun')
    BY NeverIdleAgain
  <2>6. TypeOK /\ Begun => At(c, "entered") \/ At(c, "waiting") \/ Leading(c) \/ At(c, "returned")
    BY DEF TypeOK, Labels, At, Leading
  <2>7. At(c, "entered") => Begun
    BY DEF At
  <2>8. Through(c) => At(c, "returned")
    BY DEF Through, At
  <2>9. FairSpec /\ []NobodyIsStuck => ComesBack(c)
    BY RequestsComeBack
  <2>10. Fairness => Runs(c)
    BY DEF Fairness
  <2> HIDE DEF Begun
  <2> QED BY <2>1, <2>2, <2>3, <2>4, <2>5, <2>6, <2>7, <2>8, <2>9, <2>10, ClosedStays, TypeCorrect, Invariance, PTL
          DEF FairSpec, Spec, Runs, CanStep, ComesBack
<1> QED BY <1>1 DEF CallsReturn, At
=============================================================================
