------------------------------- MODULE Requests -------------------------------
(***************************************************************************)
(* The operations that are one request: on a volume, a path in a volume, a *)
(* snapshot (volume.go, control.go: HTTP, the control plane), on a path of *)
(* a sandbox, a process (filesystem.go, process.go: RPCs, envd), and the   *)
(* pausing and resuming of a sandbox.  In a behaviour concurrent calls make*)
(* them on one resource of one kind, which is there or not ("paused" is    *)
(* there for a sandbox), and which may lie in a sandbox or a volume that   *)
(* ceases to exist.                                                        *)
(*                                                                         *)
(* A request may be lost, be answered late or not at all, and be served    *)
(* after its call has returned.                                            *)
(***************************************************************************)
EXTENDS ControlPlane, FiniteSets

CONSTANTS Calls,
          RequestTimeouts  \* values of Config.RequestTimeout

ASSUME RequestsAssumption == IsFiniteSet(Calls) /\ RequestTimeouts \subseteq Int

ErrFileNotFound   == "ErrFileNotFound"
ErrVolumeNotFound == "ErrVolumeNotFound"
ErrRPC            == "rpc failed"
ErrRequest        == "ID is required"
ErrInputMode      == "stdin is not enabled, not a PTY session"

ControlKinds == {"volume", "content", "snapshot", "sandbox"}  \* controlHTTPClient
EnvdKinds    == {"directory", "process"}                      \* envdHTTPClient
HandleKinds  == EnvdKinds \cup {"sandbox"}                    \* methods of Sandbox, CommandHandle
Kinds        == ControlKinds \cup EnvdKinds

(* What can be asked of a resource. *)
Ops(k) ==
  CASE k = "volume"    -> {"remove", "stat"}            \* DestroyVolume, Volume.Destroy; GetVolumeInfo
    [] k = "snapshot"  -> {"remove"}                    \* DeleteSnapshot
    [] k = "sandbox"   -> {"make", "remove"}            \* Pause; Connect
    [] k = "process"   -> {"remove", "stat"}            \* KillProcess, Kill; SendStdin, ResizePTY...
    [] OTHER           -> {"make", "remove", "stat", "exists"}

(* The operations with a boolean that says whether something changed. *)
Reports(k) == CASE k \in {"volume", "snapshot", "process"} -> {"remove"}
                [] k \in {"sandbox", "directory"} -> {"make"}
                [] OTHER -> {}

VARIABLES
  kind,     \* of the resource
  timeout,  \* Config.RequestTimeout
  initial,  \* whether it was there at first
  present,  \* whether it is there
  alive,    \* whether the sandbox or volume it is in exists
  active,   \* whether the handle admits operations (SandboxContract's Open)
  op,       \* what a call asks for
  phase,    \* "idle", "waiting", "returned"
  ctxDone,  \* whether the call's context is cancelled or past its deadline
  request,  \* "unsent", "sent", "served"
  code,     \* the status or RPC code of the answer
  result,   \* what the call returned: a boolean and an error
  seen      \* history: whether it was there, at the moments of the call

world == <<kind, timeout, initial>>
state == <<present, alive, active>>
call  == <<op, phase, ctxDone, result>>
wire  == <<request, code>>
vars  == <<world, state, call, wire, seen>>

Answer(ok, err) == [ok |-> ok, err |-> err]

(* The codes of RPC answers the client tells apart, and one of the others. *)
CodeOK            == 0
CodeNotFound      == 5
CodeAlreadyExists == 6
CodeUnavailable   == 14

Codes == Statuses \cup {CodeOK, CodeNotFound, CodeAlreadyExists, CodeUnavailable}

Init ==
  /\ kind \in Kinds
  /\ timeout \in RequestTimeouts
  /\ initial \in BOOLEAN
  /\ present = initial
  /\ alive = TRUE
  /\ active = TRUE
  /\ op = [c \in Calls |-> "stat"]
  /\ phase = [c \in Calls |-> "idle"]
  /\ ctxDone = [c \in Calls |-> FALSE]
  /\ request = [c \in Calls |-> "unsent"]
  /\ code = [c \in Calls |-> CodeOK]
  /\ result = [c \in Calls |-> Answer(FALSE, OK)]
  /\ seen = [c \in Calls |-> {}]

(* Mutated: http.Client gets the configured value, and zero is no timeout. *)
requestTimeout_Raw(value) == value

(* Mutated: only zero stands for the default. *)
requestTimeout_ZeroOnly(value) == IF value = 0 THEN 30 ELSE value

requestTimeout(value) == IF value <= 0 THEN 30 ELSE value

(* newAPIClient: the client for envd is made without a timeout. *)
ClientTimeout == IF kind \in ControlKinds THEN requestTimeout(timeout) ELSE 0

-----------------------------------------------------------------------------
(* The answers, as each method reads them *)

(* Mutated: that there was nothing to delete is not told apart; or the result
   is computed before the error is looked at. *)
Deleted_AnyStatus(status) ==
  LET err == doJSONWithResponse(status, TRUE, {204, 404}, FALSE, OK) IN Answer(err = OK, err)

Deleted_BeforeError(status) ==
  LET err == doJSONWithResponse(status, TRUE, {204, 404}, FALSE, OK) IN Answer(status # 404, err)

(* DestroyVolume, Volume.Destroy, deleteSnapshot *)
Deleted(status) ==
  LET err == doJSONWithResponse(status, TRUE, {204, 404}, FALSE, OK) IN
  Answer(err = OK /\ status = 204, err)

Paused(status) == Answer(pauseSandbox(status) = OK /\ status = 204, pauseSandbox(status))

(* The methods that return no boolean. *)
Plain(err) == Answer(err = OK, err)

getVolumeInfo(status, decodes) == 
  doJSONWithResponse(status, decodes, {}, TRUE, ErrVolumeNotFound)

(* Volume.doJSONWithStatus decides as doJSONWithResponse does. *)
volumeContent(status, decodes) == doJSONWithResponse(status, decodes, {}, TRUE, ErrFileNotFound)
volumeRemove(status) == doJSONWithResponse(status, TRUE, {204}, FALSE, ErrFileNotFound)

normalizeRPCError(rpc) == 
  IF rpc = CodeOK THEN OK ELSE IF rpc = CodeNotFound THEN ErrFileNotFound ELSE ErrRPC

normalizeProcessRPCError(rpc) == IF rpc = CodeOK THEN OK ELSE ErrRPC

MakeDir(rpc) ==
  IF rpc = CodeAlreadyExists THEN Answer(FALSE, OK) ELSE Plain(normalizeRPCError(rpc))

killProcess(rpc) ==
  IF rpc = CodeNotFound THEN Answer(FALSE, OK) ELSE Plain(normalizeProcessRPCError(rpc))

(* Sandbox.Stat: an answer without an entry is an error. *)
Stat(rpc, entry) == IF rpc = CodeOK /\ ~entry THEN ErrDecode ELSE normalizeRPCError(rpc)

(* Mutated: an error is taken for absence. *)
Exists_AnyError(err) == Answer(err = OK, OK)

(* Sandbox.Exists and Volume.Exists, of what Stat returns. *)
Exists(err) == IF err = ErrFileNotFound THEN Answer(FALSE, OK) ELSE Plain(err)

Interpret(k, o, answer, decodes) ==
  CASE k = "volume"    -> IF o = "remove" THEN Deleted(answer) 
                          ELSE Plain(getVolumeInfo(answer, decodes))
    [] k = "snapshot"  -> Deleted(answer)
    [] k = "sandbox"   -> IF o = "make" THEN Paused(answer) 
                          ELSE Plain(connectSandbox(answer, decodes))
    [] k = "process"   -> IF o = "remove" THEN killProcess(answer) 
                          ELSE Plain(normalizeProcessRPCError(answer))
    [] k = "content"   -> IF o = "exists" THEN Exists(volumeContent(answer, decodes))
                          ELSE IF o = "remove" THEN Plain(volumeRemove(answer))
                          ELSE Plain(volumeContent(answer, decodes))
    [] k = "directory" -> IF o = "exists" THEN Exists(Stat(answer, decodes))
                          ELSE IF o = "stat" THEN Plain(Stat(answer, decodes))
                          ELSE IF o = "make" THEN MakeDir(answer)
                          ELSE Plain(normalizeRPCError(answer))

-----------------------------------------------------------------------------
(* A call *)

Return(c, answer) ==
  /\ phase' = [phase EXCEPT ![c] = "returned"]
  /\ result' = [result EXCEPT ![c] = answer]

(* A CommandHandle does not ask its sandbox: it keeps the transport with which
   it was made. *)
Send(c, o) ==
  /\ phase[c] = "idle"
  /\ kind \in HandleKinds \ {"process"} => active
  /\ phase' = [phase EXCEPT ![c] = "waiting"]
  /\ op' = [op EXCEPT ![c] = o]
  /\ request' = [request EXCEPT ![c] = "sent"]
  /\ seen' = [seen EXCEPT ![c] = {present}]
  /\ UNCHANGED <<world, state, ctxDone, result, code>>

(* activeTransport says no; the ID of a snapshot is blank; the process does not
   have the input that a method of its handle is for. *)
Refuse(c, o) ==
  /\ phase[c] = "idle"
  /\ op' = [op EXCEPT ![c] = o]
  /\ \/ kind \in HandleKinds /\ ~active /\ Return(c, Answer(FALSE, ErrSandboxDestroyed))
     \/ kind = "snapshot" /\ Return(c, Answer(FALSE, ErrRequest))
     \/ kind = "process" /\ o = "stat" /\ Return(c, Answer(FALSE, ErrInputMode))
  /\ UNCHANGED <<world, state, ctxDone, wire, seen>>

CancelCtx(c) ==
  /\ phase[c] = "waiting"
  /\ ~ctxDone[c]
  /\ ctxDone' = [ctxDone EXCEPT ![c] = TRUE]
  /\ UNCHANGED <<world, state, op, phase, result, wire, seen>>

(* The answer is read; one with a body may not decode. *)
Receive(c) ==
  /\ phase[c] = "waiting"
  /\ request[c] = "served"
  /\ \E decodes \in BOOLEAN : Return(c, Interpret(kind, op[c], code[c], decodes))
  /\ UNCHANGED <<world, state, op, ctxDone, wire, seen>>

Unanswered(c) ==
  /\ phase[c] = "waiting"
  /\ Return(c, Answer(FALSE, ErrTransport))
  /\ UNCHANGED <<world, state, op, ctxDone, wire, seen>>

(* The client gives up, also while it reads the body; and so it does when the
   context is done. *)
GiveUp(c) == (ctxDone[c] \/ ClientTimeout > 0) /\ Unanswered(c)

-----------------------------------------------------------------------------
(* The services *)

(* The success of an operation, and of finding nothing or something there. *)
HasBody(k, o) == o \in {"stat", "exists"} \/ <<k, o>> \in {<<"content", "make">>, <<"sandbox", "remove">>}
Done(k, o)  == IF k \in EnvdKinds THEN CodeOK ELSE IF HasBody(k, o) THEN 200 ELSE 204
NotFound(k) == IF k \in EnvdKinds THEN CodeNotFound ELSE 404
Already(k)  == IF k \in EnvdKinds THEN CodeAlreadyExists ELSE 409
Failure(k)  == IF k \in EnvdKinds THEN CodeUnavailable ELSE 500

(* The pairs of a next presence and an answer.  A signal kills later; RemoveAll
   and resuming succeed also when there is nothing to do, writing always. *)
Effects(k, o, was) ==
  CASE o \in {"stat", "exists"} -> {<<was, IF was THEN Done(k, o) ELSE NotFound(k)>>}
    [] o = "remove" -> 
         IF was THEN {<<k = "process", Done(k, o)>>}
         ELSE {<<FALSE, Done(k, o)>> : x \in {k} \cap {"directory", "sandbox"}} 
              \cup {<<FALSE, NotFound(k)>> : x \in {k} \ {"sandbox"}}
    [] o = "make" ->
         IF was THEN {<<TRUE, Already(k)>>} \cup {<<TRUE, Done(k, o)>> : x \in {k} \cap {"content"}}
         ELSE {<<TRUE, Done(k, o)>>}

(* A service that fails may have done what it was asked for.  Where there is no
   sandbox or volume any more nothing is found, or nobody answers. *)
Serve(c) ==
  /\ request[c] = "sent"
  /\ request' = [request EXCEPT ![c] = "served"]
  /\ \E effect \in IF alive THEN Effects(kind, op[c], present) ELSE {<<present, NotFound(kind)>>} :
       \/ present' = effect[1] /\ code' = [code EXCEPT ![c] = effect[2]]
       \/ present' \in {present, effect[1]} /\ code' = [code EXCEPT ![c] = Failure(kind)]
  /\ seen' = [d \in Calls |-> IF phase[d] = "waiting" THEN seen[d] \cup {present'} ELSE seen[d]]
  /\ UNCHANGED <<world, alive, active, call>>

(* A process exits, by a signal or not. *)
Exits ==
  /\ kind = "process" /\ present
  /\ present' = FALSE
  /\ seen' = [d \in Calls |-> IF phase[d] = "waiting" THEN seen[d] \cup {FALSE} ELSE seen[d]]
  /\ UNCHANGED <<world, alive, active, call, wire>>

(* The sandbox or the volume around it is destroyed or reaches its end. *)
Ceases ==
  /\ kind \in HandleKinds \cup {"content"} /\ alive
  /\ alive' = FALSE
  /\ UNCHANGED <<world, present, active, call, wire, seen>>

(* Destroy begins, or has failed. *)
Destroys ==
  /\ kind \in HandleKinds
  /\ active' = ~active
  /\ UNCHANGED <<world, present, alive, call, wire, seen>>

-----------------------------------------------------------------------------
Terminated ==
  /\ \A c \in Calls : phase[c] = "returned"
  /\ UNCHANGED vars

Next ==
  \/ \E c \in Calls : \/ \E o \in Ops(kind) : Send(c, o) \/ Refuse(c, o)
                      \/ CancelCtx(c) \/ Receive(c) \/ Unanswered(c) \/ Serve(c)
  \/ Exits \/ Ceases \/ Destroys
  \/ Terminated

Spec == Init /\ [][Next]_vars

(* The deadline of a client, and a done context, end a call; nothing is assumed
   of the network or the services. *)
Expires(c) == WF_vars(GiveUp(c))

Fairness == \A c \in Calls : Expires(c)

FairSpec == Spec /\ Fairness

-----------------------------------------------------------------------------
Returned(c) == phase[c] = "returned"

Sentinels == {ErrFileNotFound, ErrVolumeNotFound, ErrSandboxNotFound}
Refusals  == {ErrSandboxDestroyed, ErrRequest, ErrInputMode}
Errors    == Sentinels \cup Refusals \cup
             {OK, ErrRPC, ErrNoResource, ErrAuthentication, ErrStatus, ErrDecode, ErrTransport}

(* Every variable has its type, and no result is true with an error. *)
TypeOK ==
  /\ kind \in Kinds
  /\ timeout \in RequestTimeouts
  /\ initial \in BOOLEAN /\ present \in BOOLEAN
  /\ alive \in BOOLEAN /\ active \in BOOLEAN
  /\ op \in [Calls -> {"make", "remove", "stat", "exists"}]
  /\ phase \in [Calls -> {"idle", "waiting", "returned"}]
  /\ ctxDone \in [Calls -> BOOLEAN]
  /\ request \in [Calls -> {"unsent", "sent", "served"}]
  /\ code \in [Calls -> Codes]
  /\ result \in [Calls -> {a \in [ok : BOOLEAN, err : Errors] : a.ok => a.err = OK}]
  /\ seen \in [Calls -> SUBSET BOOLEAN]

(* The answers that say the resource is not there, and that it is. *)
SaysAbsent(c) ==
  \/ result[c].err \in Sentinels
  \/ result[c].err = OK /\ ~result[c].ok /\ op[c] \in {"remove", "exists"}

SaysPresent(c) ==
  \/ result[c].ok /\ op[c] \in {"stat", "exists"}
  \/ result[c].err = OK /\ ~result[c].ok /\ op[c] = "make"

(* What a call says was true at some moment of the call, though others change
   the resource meanwhile and the answer may be late; absence may also be that
   of the sandbox or volume the resource was in. *)
AnswersAreTrue ==
  \A c \in Calls : Returned(c) =>
    /\ SaysAbsent(c) => FALSE \in seen[c] \/ ~alive
    /\ SaysPresent(c) => TRUE \in seen[c]

(* The calls of an operation that report a change, and those that may have made
   one: all but the refused and those that say there was nothing to do. *)
Reporting(o) == {c \in Calls : Returned(c) /\ op[c] = o /\ result[c].ok /\ o \in Reports(kind)}

Possible(o) ==
  {c \in Calls : op[c] = o /\ phase[c] # "idle" /\
     ~ (Returned(c) /\ \/ result[c].err \in Sentinels \cup Refusals 
                       \/ result[c].err = OK /\ ~result[c].ok)}

There(b) == IF b THEN 1 ELSE 0

(* The books balance: no change is reported by two calls, and none is reported
   that was not made.  So of the calls that delete a volume at most one returns
   true, and if all were answered and it is gone, exactly one does; a call that
   got no answer is the only explanation for a change nobody reports.  (Not for
   a process: a second signal may reach it before it has died.) *)
ReportsBalance ==
  kind # "process" =>
    /\ Cardinality(Reporting("make")) - Cardinality(Possible("remove"))
         <= There(present) - There(initial)
    /\ There(present) - There(initial)
         <= Cardinality(Possible("make")) - Cardinality(Reporting("remove"))

(* A call whose end is its own affair: the client of the control plane has a
   deadline whatever Config.RequestTimeout is, that of envd has none. *)
Limited(c) == phase[c] = "waiting" /\ (kind \in ControlKinds \/ ctxDone[c])

(* Such a call can give up as long as it waits, whatever the services do. *)
LimitedCanGiveUp == \A c \in Calls : Limited(c) => ENABLED <<GiveUp(c)>>_vars

(* A call to the control plane returns; one to envd when its context is done. *)
CallsReturn == \A c \in Calls : Limited(c) ~> Returned(c)
=============================================================================
