------------------------------- MODULE Sandbox -------------------------------
(***************************************************************************)
(* The handle of one sandbox, shared by concurrent callers (sandbox.go and *)
(* the Sandbox methods of control.go), with the control plane it talks to. *)
(*                                                                         *)
(* A call is one invocation of a method: Destroy (or Kill), Connect, Pause,*)
(* or one of the methods that snapshot the transport and make one control- *)
(* plane request (GetInfo, GetMetrics, SetTimeout, CreateSnapshot).        *)
(* A caller that retries makes another call.  Each section of code that    *)
(* holds Sandbox.mu is one step; the requests, made without the lock, are  *)
(* split into sending, serving and receiving, and may fail at any point.   *)
(***************************************************************************)
EXTENDS ControlPlane, FiniteSets

CONSTANTS DestroyCalls,  \* invocations of Destroy and Kill
          ConnectCalls,  \* invocations of Connect
          PauseCalls,    \* invocations of Pause
          QueryCalls,    \* invocations of the other control-plane methods
          NoCall         \* the nil channel; the record CreateSandbox installed

UserCalls == ConnectCalls \cup PauseCalls \cup QueryCalls
Calls     == DestroyCalls \cup UserCalls
Witnesses == DestroyCalls \cup ConnectCalls

ASSUME CallsAssumption ==
  /\ NoCall \notin Calls
  /\ DestroyCalls \cap UserCalls = {}
  /\ ConnectCalls \cap (PauseCalls \cup QueryCalls) = {}
  /\ PauseCalls \cap QueryCalls = {}

VARIABLES
  closed,       \* Sandbox.closed
  destroying,   \* Sandbox.destroying
  destroyWait,  \* Sandbox.destroyWait: the call that made the channel
  record,       \* Sandbox.client.record: the Connect call that obtained it
  signalled,    \* the channels that are closed, named by the calls that made them
  pc,           \* where each call is
  waitOn,       \* the channel a Destroy call selects on
  ctxDone,      \* whether a Destroy call's context is cancelled or past its deadline
  transport,    \* the record in the call's snapshot of Sandbox.client
  outcome,      \* the error of the call's control-plane request
  ret,          \* the error the call returned
  request,      \* the call's request: "unsent", "sent", "served"
  reply,        \* the status the control plane answered with
  remote,       \* the sandbox itself: "running", "paused", "gone"
  earlier       \* history: the Destroy and Connect calls that had returned when a method was called

handle  == <<closed, destroying, destroyWait, record, signalled>>
network == <<request, reply, remote>>
vars    == <<handle, pc, waitOn, ctxDone, transport, outcome, ret, network, earlier>>

NotYet == "not returned"

Init ==
  /\ closed = FALSE
  /\ destroying = FALSE
  /\ destroyWait = NoCall
  /\ record = NoCall
  /\ signalled = {}
  /\ pc = [c \in Calls |-> "idle"]
  /\ waitOn = [d \in DestroyCalls |-> NoCall]
  /\ ctxDone = [d \in DestroyCalls |-> FALSE]
  /\ transport = [c \in Calls |-> NoCall]
  /\ outcome = [c \in Calls |-> OK]
  /\ ret = [c \in Calls |-> NotYet]
  /\ request = [c \in Calls |-> "unsent"]
  /\ reply = [c \in Calls |-> 200]
  /\ remote = "running"
  /\ earlier = [c \in UserCalls |-> {}]

(* Mutated: the check forgets one of the two flags. *)
Active_IgnoresClosed == ~destroying
Active_IgnoresDestroying == ~closed

(* ensureActive and activeTransport: read under the lock. *)
Active == ~closed /\ ~destroying

Goto(c, label) == pc' = [pc EXCEPT ![c] = label]

(* The locals of a call end with it. *)
Return(c, err) ==
  /\ Goto(c, "returned")
  /\ ret' = [ret EXCEPT ![c] = err]
  /\ outcome' = [outcome EXCEPT ![c] = OK]

(* A caller invokes the method. *)
Call(c) ==
  /\ pc[c] = "idle"
  /\ Goto(c, "entered")
  /\ earlier' = [a \in UserCalls |-> IF a = c THEN {b \in Witnesses : pc[b] = "returned"}
                                             ELSE earlier[a]]
  /\ UNCHANGED <<handle, waitOn, ctxDone, transport, outcome, ret, network>>

(* Only Destroy looks at its context; for the other methods a done context is
   one of the ways a request fails. *)
CancelCtx(d) ==
  /\ pc[d] \notin {"idle", "returned"}
  /\ ~ctxDone[d]
  /\ ctxDone' = [ctxDone EXCEPT ![d] = TRUE]
  /\ UNCHANGED <<handle, pc, waitOn, transport, outcome, ret, network, earlier>>

-----------------------------------------------------------------------------
(* Destroy: the three cases of its switch, the two of its select, and the
   section after the DELETE. *)

DestroyClosed(d) ==
  /\ pc[d] = "entered"
  /\ closed
  /\ Return(d, OK)
  /\ UNCHANGED <<handle, waitOn, ctxDone, transport, network, earlier>>

DestroyJoin(d) ==
  /\ pc[d] = "entered"
  /\ ~closed
  /\ destroying
  /\ waitOn' = [waitOn EXCEPT ![d] = destroyWait]
  /\ Goto(d, "waiting")
  /\ UNCHANGED <<handle, ctxDone, transport, outcome, ret, network, earlier>>

(* Mutated: the switch misses the case that makes callers wait; or the one
   that makes them return. *)
DestroyLead_IgnoresDestroying(d) ==
  /\ pc[d] = "entered"
  /\ ~closed
  /\ destroying' = TRUE
  /\ destroyWait' = d
  /\ transport' = [transport EXCEPT ![d] = record]
  /\ Goto(d, "request")
  /\ UNCHANGED <<closed, record, signalled, waitOn, ctxDone, outcome, ret, network, earlier>>

DestroyLead_IgnoresClosed(d) ==
  /\ pc[d] = "entered"
  /\ ~destroying
  /\ destroying' = TRUE
  /\ destroyWait' = d
  /\ transport' = [transport EXCEPT ![d] = record]
  /\ Goto(d, "request")
  /\ UNCHANGED <<closed, record, signalled, waitOn, ctxDone, outcome, ret, network, earlier>>

DestroyLead(d) ==
  /\ pc[d] = "entered"
  /\ Active
  /\ destroying' = TRUE
  /\ destroyWait' = d
  /\ transport' = [transport EXCEPT ![d] = record]
  /\ Goto(d, "request")
  /\ UNCHANGED <<closed, record, signalled, waitOn, ctxDone, outcome, ret, network, earlier>>

(* Mutated: a waiter returns the leader's failure instead of trying again. *)
DestroyWake_ReturnsFailure(d) ==
  /\ pc[d] = "waiting"
  /\ waitOn[d] \in signalled
  /\ waitOn' = [waitOn EXCEPT ![d] = NoCall]
  /\ Return(d, IF closed THEN OK ELSE ErrTransport)
  /\ UNCHANGED <<handle, ctxDone, transport, network, earlier>>

(* When the channel is closed and the context is done, select may take
   either branch: both actions are enabled. *)
DestroyWake(d) ==
  /\ pc[d] = "waiting"
  /\ waitOn[d] \in signalled
  /\ waitOn' = [waitOn EXCEPT ![d] = NoCall]
  /\ Goto(d, "entered")
  /\ UNCHANGED <<handle, ctxDone, transport, outcome, ret, network, earlier>>

DestroyGiveUp(d) ==
  /\ pc[d] = "waiting"
  /\ ctxDone[d]
  /\ Return(d, ErrContext)
  /\ UNCHANGED <<handle, waitOn, ctxDone, transport, network, earlier>>

(* Mutated: a request without an answer is taken for a success. *)
Destroyed_WithoutAnswer(err) == err \in {OK, ErrSandboxNotFound, ErrTransport}

Destroyed(err) == err \in {OK, ErrSandboxNotFound}

(* Mutated: the channel is never closed; or the flag is never cleared. *)
DestroySettle_KeepsChannelOpen(d) ==
  /\ pc[d] = "settle"
  /\ destroying' = FALSE
  /\ destroyWait' = NoCall
  /\ closed' = (closed \/ Destroyed(outcome[d]))
  /\ Return(d, IF Destroyed(outcome[d]) THEN OK ELSE outcome[d])
  /\ UNCHANGED <<signalled, record, waitOn, ctxDone, transport, network, earlier>>

DestroySettle_KeepsDestroying(d) ==
  /\ pc[d] = "settle"
  /\ closed' = (closed \/ Destroyed(outcome[d]))
  /\ signalled' = signalled \cup {d}
  /\ Return(d, IF Destroyed(outcome[d]) THEN OK ELSE outcome[d])
  /\ UNCHANGED <<destroying, destroyWait, record, waitOn, ctxDone, transport, network, earlier>>

DestroySettle(d) ==
  /\ pc[d] = "settle"
  /\ destroying' = FALSE
  /\ destroyWait' = NoCall
  /\ closed' = (closed \/ Destroyed(outcome[d]))
  /\ signalled' = signalled \cup {d}
  /\ Return(d, IF Destroyed(outcome[d]) THEN OK ELSE outcome[d])
  /\ UNCHANGED <<record, waitOn, ctxDone, transport, network, earlier>>

-----------------------------------------------------------------------------
(* The other methods: activeTransport, one request, and for Connect a second
   section that installs the record. *)

Admit(c) ==
  /\ pc[c] = "entered"
  /\ Active
  /\ transport' = [transport EXCEPT ![c] = record]
  /\ Goto(c, "request")
  /\ UNCHANGED <<handle, waitOn, ctxDone, outcome, ret, network, earlier>>

Refuse(c) ==
  /\ pc[c] = "entered"
  /\ ~Active
  /\ Return(c, ErrSandboxDestroyed)
  /\ UNCHANGED <<handle, waitOn, ctxDone, transport, network, earlier>>

(* Mutated: the second section does not check the flags again; or it installs
   a record only in a handle that has none yet. *)
ConnectInstall_Unchecked(c) ==
  /\ pc[c] = "settle"
  /\ outcome[c] = OK
  /\ record' = c
  /\ Return(c, OK)
  /\ UNCHANGED <<closed, destroying, destroyWait, signalled, waitOn, ctxDone,
                 transport, network, earlier>>

ConnectInstall_FirstWins(c) ==
  /\ pc[c] = "settle"
  /\ outcome[c] = OK
  /\ Active
  /\ record' = IF record = NoCall THEN c ELSE record
  /\ Return(c, OK)
  /\ UNCHANGED <<closed, destroying, destroyWait, signalled, waitOn, ctxDone,
                 transport, network, earlier>>

ConnectInstall(c) ==
  /\ pc[c] = "settle"
  /\ outcome[c] = OK
  /\ Active
  /\ record' = c
  /\ Return(c, OK)
  /\ UNCHANGED <<closed, destroying, destroyWait, signalled, waitOn, ctxDone,
                 transport, network, earlier>>

ConnectDiscard(c) ==
  /\ pc[c] = "settle"
  /\ outcome[c] = OK
  /\ ~Active
  /\ Return(c, ErrSandboxDestroyed)
  /\ UNCHANGED <<handle, waitOn, ctxDone, transport, network, earlier>>

ConnectFailed(c) ==
  /\ pc[c] = "settle"
  /\ outcome[c] # OK
  /\ Return(c, outcome[c])
  /\ UNCHANGED <<handle, waitOn, ctxDone, transport, network, earlier>>

OpReturn(c) ==
  /\ pc[c] = "settle"
  /\ Return(c, outcome[c])
  /\ UNCHANGED <<handle, waitOn, ctxDone, transport, network, earlier>>

-----------------------------------------------------------------------------
(* One control-plane request.  http.Client.Do sends nothing once the context
   is done; the request fails when the context is done, the client times out
   (newAPIClient always sets a timeout), or the connection breaks, before or
   after the service acted on it. *)

Send(c) ==
  /\ pc[c] = "request"
  /\ request[c] = "unsent"
  /\ c \in DestroyCalls => ~ctxDone[c]
  /\ request' = [request EXCEPT ![c] = "sent"]
  /\ UNCHANGED <<handle, pc, waitOn, ctxDone, transport, outcome, ret, reply, remote, earlier>>

Interpret(c, decodes) ==
  IF c \in DestroyCalls THEN destroySandbox(reply[c])
  ELSE IF c \in ConnectCalls THEN connectSandbox(reply[c], decodes)
  ELSE IF c \in PauseCalls THEN pauseSandbox(reply[c])
  ELSE querySandbox(reply[c], decodes)

Receive(c) ==
  /\ pc[c] = "request"
  /\ request[c] = "served"
  /\ \E decodes \in BOOLEAN : outcome' = [outcome EXCEPT ![c] = Interpret(c, decodes)]
  /\ reply' = [reply EXCEPT ![c] = 200]
  /\ Goto(c, "settle")
  /\ UNCHANGED <<handle, waitOn, ctxDone, transport, ret, request, remote, earlier>>

(* Mutated: a client without a timeout. *)
RequestFails_NoTimeout(c) ==
  /\ pc[c] = "request"
  /\ c \in DestroyCalls /\ ctxDone[c]
  /\ outcome' = [outcome EXCEPT ![c] = ErrTransport]
  /\ reply' = [reply EXCEPT ![c] = 200]
  /\ Goto(c, "settle")
  /\ UNCHANGED <<handle, waitOn, ctxDone, transport, ret, request, remote, earlier>>

RequestFails(c) ==
  /\ pc[c] = "request"
  /\ outcome' = [outcome EXCEPT ![c] = ErrTransport]
  /\ reply' = [reply EXCEPT ![c] = 200]
  /\ Goto(c, "settle")
  /\ UNCHANGED <<handle, waitOn, ctxDone, transport, ret, request, remote, earlier>>

-----------------------------------------------------------------------------
(* The control plane and the sandbox, as the code relies on them.  A request
   may be served after its caller stopped waiting for it; that answer is
   dropped. *)

Serve(c, status, state) ==
  /\ request[c] = "sent"
  /\ request' = [request EXCEPT ![c] = "served"]
  /\ reply' = IF pc[c] = "request" THEN [reply EXCEPT ![c] = status] ELSE reply
  /\ remote' = state
  /\ UNCHANGED <<handle, pc, waitOn, ctxDone, transport, outcome, ret, earlier>>

ServeGone(c)    == remote = "gone" /\ Serve(c, 404, remote)
ServeFailure(c) == Serve(c, 500, remote)
ServeDestroy(d) == remote # "gone" /\ Serve(d, 204, "gone")
ServeConnect(c) == remote # "gone" /\ Serve(c, 200, "running")
ServePause(c)   == \/ remote = "running" /\ Serve(c, 204, "paused")
                   \/ remote = "paused" /\ Serve(c, 409, "paused")
ServeQuery(c)   == remote # "gone" /\ Serve(c, 200, remote)

(* The sandbox's own timeout, or another client's request, ends or pauses it. *)
RemoteChanges ==
  /\ \/ remote # "gone"   /\ remote' = "gone"
     \/ remote = "running" /\ remote' = "paused"
  /\ UNCHANGED <<handle, pc, waitOn, ctxDone, transport, outcome, ret, request, reply, earlier>>

-----------------------------------------------------------------------------
RequestStep(c) == Send(c) \/ Receive(c) \/ RequestFails(c)

DestroyStep(d) ==
  \/ DestroyClosed(d) \/ DestroyJoin(d) \/ DestroyLead(d)
  \/ DestroyWake(d) \/ DestroyGiveUp(d)
  \/ RequestStep(d) \/ DestroySettle(d)

AdmitStep(c) == Admit(c) \/ Refuse(c) \/ RequestStep(c)

ConnectStep(c) == AdmitStep(c) \/ ConnectInstall(c) \/ ConnectDiscard(c) \/ ConnectFailed(c)

OpStep(c) == AdmitStep(c) \/ OpReturn(c)

(* A step of the goroutine that runs the call. *)
Step(c) ==
  \/ c \in DestroyCalls /\ DestroyStep(c)
  \/ c \in ConnectCalls /\ ConnectStep(c)
  \/ c \in PauseCalls \cup QueryCalls /\ OpStep(c)

Service ==
  \/ \E c \in Calls : ServeGone(c) \/ ServeFailure(c)
  \/ \E d \in DestroyCalls : ServeDestroy(d)
  \/ \E c \in ConnectCalls : ServeConnect(c)
  \/ \E c \in PauseCalls : ServePause(c)
  \/ \E c \in QueryCalls : ServeQuery(c)
  \/ RemoteChanges

Terminated == (\A c \in Calls : pc[c] = "returned") /\ UNCHANGED vars

Next ==
  \/ \E c \in Calls : Call(c) \/ Step(c)
  \/ \E d \in DestroyCalls : CancelCtx(d)
  \/ Service
  \/ Terminated

Spec == Init /\ [][Next]_vars

(* A goroutine that can take a step takes it; a request always comes back,
   if only because http.Client.Timeout expires.  Nothing is assumed of the
   service, of the callers or of their contexts. *)
Runs(c) == WF_vars(Step(c))

Fairness == \A c \in Calls : Runs(c)

FairSpec == Spec /\ Fairness

-----------------------------------------------------------------------------
RequestErrors == {OK, ErrSandboxNotFound, ErrAuthentication, ErrStatus, ErrDecode, ErrTransport}

Labels == {"idle", "entered", "waiting", "request", "settle", "returned"}

(* Every variable has its type; in particular every error a call returns is
   one of those its callers can branch on. *)
TypeOK ==
  /\ closed \in BOOLEAN
  /\ destroying \in BOOLEAN
  /\ destroyWait \in DestroyCalls \cup {NoCall}
  /\ record \in ConnectCalls \cup {NoCall}
  /\ signalled \in SUBSET DestroyCalls
  /\ pc \in [Calls -> Labels]
  /\ waitOn \in [DestroyCalls -> DestroyCalls \cup {NoCall}]
  /\ ctxDone \in [DestroyCalls -> BOOLEAN]
  /\ transport \in [Calls -> ConnectCalls \cup {NoCall}]
  /\ outcome \in [Calls -> RequestErrors]
  /\ ret \in [Calls -> RequestErrors \cup {ErrSandboxDestroyed, ErrContext, NotYet}]
  /\ request \in [Calls -> {"unsent", "sent", "served"}]
  /\ reply \in [Calls -> Statuses]
  /\ remote \in {"running", "paused", "gone"}
  /\ earlier \in [UserCalls -> SUBSET Witnesses]

Leading(d) == pc[d] \in {"request", "settle"}

(* At any moment at most one Destroy is between the two locked sections that
   enclose its DELETE, and it is the call the handle says is destroying: a
   second caller can neither start its own DELETE meanwhile nor clear the
   first one's flags. *)
OneDeleteAtATime ==
  /\ destroying <=> destroyWait # NoCall
  /\ \A d \in DestroyCalls : Leading(d) <=> destroyWait = d

(* A Destroy that returned nil, the leader or one that joined it, was not
   optimistic: the handle is closed, and a closed handle's sandbox no longer
   exists, whatever failed, timed out or was lost on the way. *)
NilMeansGone ==
  /\ \A d \in DestroyCalls : ret[d] = OK => closed
  /\ closed => remote = "gone"

(* A Destroy that waits will be woken: its channel is closed already, or it
   is the current one and a call that will close it is at work. *)
NoStrandedWaiter ==
  \A d \in DestroyCalls : pc[d] = "waiting" =>
    \/ waitOn[d] \in signalled
    \/ waitOn[d] = destroyWait /\ waitOn[d] \in DestroyCalls /\ Leading(waitOn[d])

CanStep(c) == ENABLED <<Step(c)>>_vars

(* No call is stuck: one that is under way can take a step of its own, whatever
   the service does and even if its context is never done, unless it waits for
   a Destroy that is at work. *)
NobodyIsStuck ==
  \A c \in Calls : pc[c] \notin {"idle", "returned"} =>
    \/ CanStep(c)
    \/ pc[c] = "waiting" /\ \E d \in DestroyCalls : waitOn[c] = d /\ Leading(d)

(* A Destroy reports a failure only if it is its own: a call that joined
   another one's DELETE and saw it fail takes over instead of returning that
   error, and "not found" is never a failure. *)
NoBorrowedFailure ==
  \A d \in DestroyCalls : ret[d] \notin {NotYet, OK} =>
    /\ ret[d] # ErrSandboxNotFound
    /\ d \in signalled \/ (ctxDone[d] /\ ret[d] = ErrContext)

(* Once some Destroy returned nil, a call made later is refused with
   ErrSandboxDestroyed and sends nothing to the control plane. *)
RefusedAfterDestroy ==
  \A c \in UserCalls : (\E d \in earlier[c] \cap DestroyCalls : ret[d] = OK) =>
    /\ request[c] = "unsent"
    /\ ret[c] \in {NotYet, ErrSandboxDestroyed}

(* The DELETE in flight carries the record the handle holds: no Connect that
   was admitted before the destruction swaps the record under it. *)
DeleteUsesCurrentRecord ==
  \A d \in DestroyCalls : Leading(d) => transport[d] = record

(* While a Destroy is between its two sections nobody interferes with it: no
   other one starts, ends or clears its flags, and no Connect changes the handle
   under its DELETE. *)
DestructionIsExclusive == OneDeleteAtATime /\ DeleteUsesCurrentRecord

(* A Connect that succeeds while a destruction is under way, or after it, is
   never reported as a success: nil means its record was installed in a handle
   that was open.  Answers may come in any order, but time is respected: the
   record in use is that of the call itself, or of a Connect that succeeded too
   and was not over already when the call was made. *)
ConnectNilMeansInstalled ==
  \A c \in ConnectCalls : ret[c] = OK =>
    /\ record # NoCall
    /\ record = c \/ (ret[record] = OK /\ record \notin earlier[c])

(* A call that reports ErrSandboxNotFound tells the truth: the sandbox does
   not exist any more, however late the answer is read. *)
NotFoundMeansGone ==
  \A c \in Calls : ret[c] = ErrSandboxNotFound => remote = "gone"

(* A closed handle stays closed: no step reopens it, changes its record,
   starts a destruction or puts another DELETE on the wire. *)
ClosedIsFinal ==
  [][closed => /\ closed'
               /\ ~destroying'
               /\ record' = record
               /\ \A d \in DestroyCalls : request[d] = "unsent" => request'[d] = "unsent"]_vars

(* Every call returns: a Destroy whichever calls fail, give up or take over
   before it, and all of them whatever the service does and even if no context
   is ever cancelled. *)
CallsReturn ==
  \A c \in Calls : pc[c] = "entered" ~> pc[c] = "returned"

(* sandbox.go says of Destroy that only the first call hits the control
   plane. *)
OnlyFirstCallHitsControlPlane ==
  \A c, d \in DestroyCalls : 
    request[c] # "unsent" /\ request[d] # "unsent" => c = d

-----------------------------------------------------------------------------
(* The handle implements its contract: the owner of the destruction is the
   call that made destroyWait. *)
Verdict(c) ==
  IF ret[c] = OK THEN "done"
  ELSE IF ret[c] = NotYet
       THEN IF c \in UserCalls /\ Leading(c) THEN "admitted" ELSE "pending"
       ELSE IF c \in UserCalls /\ ret[c] = ErrSandboxDestroyed THEN "refused" ELSE "failed"

Contract == INSTANCE SandboxContract
  WITH Destroyers <- DestroyCalls, Connectors <- ConnectCalls, 
       Users <- PauseCalls \cup QueryCalls, Nobody <- NoCall,
       owner <- destroyWait, gone <- (remote = "gone"), installed <- record,
       verdict <- [c \in Calls |-> Verdict(c)]

(* Every step of the handle is a step of the contract or invisible to it. *)
ImplementsContract == Contract!Spec
=============================================================================
