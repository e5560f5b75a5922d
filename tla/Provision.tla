------------------------------ MODULE Provision ------------------------------
(***************************************************************************)
(* One call that makes a handle.  CreateSandbox (e2b.go) creates a sandbox,*)
(* installs the additional packages in it (sandbox.go,                     *)
(* installAdditionalPackages, which is one Exec), and destroys it again if *)
(* that fails; ConnectSandbox (control.go) attaches to one that exists.    *)
(* Until the call has returned nobody else has the handle, so that the     *)
(* cleanup's Destroy is a single DELETE.  The caller's context may be done *)
(* at any point, and the sandbox may reach the end of its life.            *)
(***************************************************************************)
EXTENDS ControlPlane, Config

CONSTANTS Faults,   \* what may go wrong: "network" (lost and late answers), "service"
          Timeouts  \* the lifetimes callers ask for

ASSUME FaultsAssumption == Faults \subseteq {"network", "service"}
ASSUME TimeoutsAssumption == Timeouts \subseteq Durations

VARIABLES
  arguments,  \* which of the two calls, whether its template or ID is not blank,
              \* whether it has packages, the lifetime it asks for
  faults,     \* the faults of this behaviour
  pc,         \* where the call is
  ctxDone,    \* whether the caller's context is cancelled or past its deadline
  create,     \* the POST of either call: "unsent", "sent", "served"
  delete,     \* the cleanup's DELETE
  reply,      \* the status of the answer to the request under way
  remote,     \* the sandbox: "none", "running", "paused", "gone"
  lifetime,   \* the seconds the POST that was served asked for
  apt,        \* the process that installs: "absent", "running", "succeeded", "failed"
  ret         \* what the call returned

call    == <<pc, ret>>
service == <<reply, remote, lifetime, apt>>
vars    == <<arguments, faults, call, ctxDone, create, delete, service>>

NotYet     == "not returned"
Handle     == "sandbox"
ErrRequest == "template or ID required"
ErrInstall == "install failed"
ErrJoined  == "install failed, cleanup failed"

Arguments == [connect : BOOLEAN, named : BOOLEAN, packages : BOOLEAN, timeout : Timeouts]

Init ==
  /\ arguments \in {a \in Arguments : a.connect => ~a.packages}
  /\ faults \in SUBSET Faults
  /\ pc = "entered"
  /\ ctxDone = FALSE
  /\ create = "unsent"
  /\ delete = "unsent"
  /\ reply = 200
  /\ remote \in IF arguments.connect THEN {"running", "paused", "gone"} ELSE {"none"}
  /\ lifetime = 0
  /\ apt = "absent"
  /\ ret = NotYet

Return(value) == pc' = "returned" /\ ret' = value
Goto(label)   == pc' = label /\ ret' = ret

Broken(ctxIsDone) == ctxIsDone \/ "network" \in faults

(* The caller cancels, or the deadline passes. *)
CancelCtx ==
  /\ pc # "returned"
  /\ ~ctxDone
  /\ ctxDone' = TRUE
  /\ UNCHANGED <<arguments, faults, call, create, delete, service>>

-----------------------------------------------------------------------------
(* CreateSandbox and ConnectSandbox: the POST *)

Reject ==
  /\ pc = "entered"
  /\ ~arguments.named
  /\ Return(ErrRequest)
  /\ UNCHANGED <<arguments, faults, ctxDone, create, delete, service>>

SendCreate ==
  /\ pc = "entered"
  /\ arguments.named
  /\ ~ctxDone
  /\ create' = "sent"
  /\ Goto("create")
  /\ UNCHANGED <<arguments, faults, ctxDone, delete, service>>

CreateFails ==
  /\ pc \in {"entered", "create"}
  /\ arguments.named
  /\ Broken(ctxDone)
  /\ Return(ErrTransport)
  /\ UNCHANGED <<arguments, faults, ctxDone, create, delete, service>>

CreateError(decodes) ==
  IF arguments.connect THEN connectSandbox(reply, decodes) ELSE createSandbox(reply, decodes)

CreateAnswered ==
  /\ pc = "create"
  /\ create = "served"
  /\ \E decodes \in BOOLEAN : 
       LET err == CreateError(decodes) IN
       IF err # OK THEN Return(err)
       ELSE IF arguments.packages THEN Goto("install") ELSE Return(Handle)
  /\ UNCHANGED <<arguments, faults, ctxDone, create, delete, service>>

-----------------------------------------------------------------------------
(* installAdditionalPackages: Exec is StartCommand, then Wait *)

Started ==
  /\ pc = "install"
  /\ apt # "absent"
  /\ Goto("wait")
  /\ UNCHANGED <<arguments, faults, ctxDone, create, delete, service>>

(* Mutated: the exit code is not looked at. *)
InstallEnds_AnyExitCode ==
  /\ pc = "wait"
  /\ apt \in {"succeeded", "failed"}
  /\ Return(Handle)
  /\ UNCHANGED <<arguments, faults, ctxDone, create, delete, service>>

InstallEnds ==
  /\ pc = "wait"
  /\ apt \in {"succeeded", "failed"}
  /\ IF apt = "succeeded" THEN Return(Handle) ELSE Goto("cleanup")
  /\ UNCHANGED <<arguments, faults, ctxDone, create, delete, service>>

(* The stream is refused, or it breaks. *)
InstallFails ==
  /\ pc \in {"install", "wait"}
  /\ Broken(ctxDone) \/ remote = "gone"
  /\ Goto("cleanup")
  /\ UNCHANGED <<arguments, faults, ctxDone, create, delete, service>>

(* Mutated: no timeout of its own. *)
InstallTimesOut_Never == FALSE /\ UNCHANGED vars

(* The 120 seconds of the ExecRequest pass before the process has ended. *)
InstallTimesOut ==
  /\ pc \in {"install", "wait"}
  /\ apt \notin {"succeeded", "failed"}
  /\ Goto("cleanup")
  /\ UNCHANGED <<arguments, faults, ctxDone, create, delete, service>>

-----------------------------------------------------------------------------
(* cleanupSandboxAfterCreateFailure *)

(* Mutated: the cleanup uses the caller's context. *)
CleanupCtxDone_Callers == ctxDone

(* It makes a context of its own; its deadline is the client's request
   timeout, one of the network's faults. *)
CleanupCtxDone == FALSE

SendDelete ==
  /\ pc = "cleanup"
  /\ delete = "unsent"
  /\ ~CleanupCtxDone
  /\ delete' = "sent"
  /\ UNCHANGED <<arguments, faults, call, ctxDone, create, service>>

DeleteFails ==
  /\ pc = "cleanup"
  /\ Broken(CleanupCtxDone)
  /\ Return(ErrJoined)
  /\ UNCHANGED <<arguments, faults, ctxDone, create, delete, service>>

(* Mutated: the error of the cleanup is dropped. *)
CleanupError_Dropped(err) == ErrInstall

(* Destroy returns nil for a sandbox that is not found. *)
CleanupError(err) == IF err \in {OK, ErrSandboxNotFound} THEN ErrInstall ELSE ErrJoined

DeleteAnswered ==
  /\ pc = "cleanup"
  /\ delete = "served"
  /\ Return(CleanupError(destroySandbox(reply)))
  /\ UNCHANGED <<arguments, faults, ctxDone, create, delete, service>>

-----------------------------------------------------------------------------
(* The control plane and the sandbox.  Requests may be served after the call
   stopped waiting for the answer; an answer of 300 or more says that nothing
   was done.  A POST is refused for its key (401), its template or its ID
   (404); one that connects resumes a sandbox that is paused. *)

Requested ==
  IF arguments.connect THEN connectTimeoutSeconds(arguments.timeout)
  ELSE durationToWholeSeconds(arguments.timeout)

Unknown == arguments.connect => remote = "gone"

ServeCreate ==
  /\ create = "sent"
  /\ create' = "served"
  /\ \/ remote # "gone" /\ reply' = 200 /\ remote' = "running" /\ lifetime' = Requested
     \/ Unknown /\ reply' = 404 /\ UNCHANGED <<remote, lifetime>>
     \/ reply' = 401 /\ UNCHANGED <<remote, lifetime>>
     \/ "service" \in faults /\ reply' = 500 /\ UNCHANGED <<remote, lifetime>>
  /\ UNCHANGED <<arguments, faults, call, ctxDone, delete, apt>>

ServeStart ==
  /\ pc = "install"
  /\ apt = "absent"
  /\ remote = "running"
  /\ apt' = "running"
  /\ UNCHANGED <<arguments, faults, call, ctxDone, create, delete, reply, remote, lifetime>>

ServeDelete ==
  /\ delete = "sent"
  /\ delete' = "served"
  /\ \/ remote = "running" /\ reply' = 204 /\ remote' = "gone"
     \/ remote = "gone" /\ reply' = 404 /\ remote' = "gone"
     \/ "service" \in faults /\ reply' = 500 /\ remote' = remote
  /\ UNCHANGED <<arguments, faults, call, ctxDone, create, lifetime, apt>>

Answer == ServeCreate \/ ServeStart \/ ServeDelete

AptExits ==
  /\ apt = "running"
  /\ remote = "running"
  /\ apt' \in {"succeeded", "failed"}
  /\ UNCHANGED <<arguments, faults, call, ctxDone, create, delete, reply, remote, lifetime>>

(* Its lifetime ends. *)
SandboxEnds ==
  /\ remote \in {"running", "paused"}
  /\ remote' = "gone"
  /\ UNCHANGED <<arguments, faults, call, ctxDone, create, delete, reply, lifetime, apt>>

-----------------------------------------------------------------------------
Step ==
  \/ Reject \/ SendCreate \/ CreateFails \/ CreateAnswered
  \/ Started \/ InstallEnds \/ InstallFails \/ InstallTimesOut
  \/ SendDelete \/ DeleteFails \/ DeleteAnswered

Terminated == pc = "returned" /\ UNCHANGED vars

Next == Step \/ CancelCtx \/ Answer \/ AptExits \/ SandboxEnds \/ Terminated

Spec == Init /\ [][Next]_vars

(* The goroutine runs, and its timeouts expire.  Without network faults the
   control plane answers; the process that installs need not end, and the
   caller's context need not have a deadline. *)
Serving == ServeCreate \/ ServeDelete

Fairness == WF_vars(Step) /\ (("network" \notin faults) => WF_vars(Serving))

FairSpec == Spec /\ Fairness

-----------------------------------------------------------------------------
Errors == {ErrSandboxNotFound, ErrRequest, ErrTransport, ErrDecode, ErrStatus, ErrAuthentication, ErrNoResource, 
           ErrInstall, ErrJoined}

(* Every variable has its type: the call returns a handle or one of the errors
   its caller can tell apart, and "sandbox not found" only if it connects. *)
TypeOK ==
  /\ arguments \in Arguments
  /\ faults \in SUBSET Faults
  /\ pc \in {"entered", "create", "install", "wait", "cleanup", "returned"}
  /\ ctxDone \in BOOLEAN
  /\ create \in {"unsent", "sent", "served"}
  /\ delete \in {"unsent", "sent", "served"}
  /\ reply \in Statuses
  /\ remote \in {"none", "running", "paused", "gone"}
  /\ lifetime \in Int
  /\ apt \in {"absent", "running", "succeeded", "failed"}
  /\ ret \in Errors \cup {Handle, NotYet}
  /\ ret = ErrSandboxNotFound => arguments.connect

(* A handle is only returned for a sandbox that was created, or resumed, and
   in which the packages that were asked for are installed, whatever timed out,
   broke or was cancelled on the way. *)
HandleMeansReady ==
  ret = Handle => remote \notin {"none", "paused"} /\ (arguments.packages => apt = "succeeded")

(* What a call that fails leaves behind is never a surprise.  A sandbox that
   outlives a failed CreateSandbox: the caller was told that the cleanup failed,
   or that the answer to the POST was lost or unreadable; in particular the
   install error alone means that the sandbox is gone.  A sandbox that
   ConnectSandbox did not find does not exist. *)
OrphansAreExplained ==
  /\ pc = "returned" /\ ret # Handle /\ remote = "running" /\ ~arguments.connect
       => ret \in {ErrTransport, ErrDecode, ErrJoined}
  /\ ret = ErrSandboxNotFound => remote = "gone"

(* A handle comes with the lifetime its caller asked for: never less, and less
   than a second more, although the wire carries whole seconds.  Connecting
   without a timeout never asks for none.  Roundable excludes the durations
   within a second of the largest one, for which the sum in
   durationToWholeSeconds overflows and the request asks for a negative
   lifetime. *)
LifetimeAsAsked ==
  ret = Handle =>
    /\ arguments.timeout \in Roundable =>
         lifetime * Second \in arguments.timeout..(arguments.timeout + Second - 1)
    /\ arguments.timeout <= 0 =>
         IF arguments.connect THEN lifetime * Second >= DefaultConnect ELSE lifetime = 0

(* Unless the network or the service fails, a failed installation destroys the
   sandbox, even when it failed because the caller's context is done. *)
FaultlessCleanup ==
  faults = {} /\ ret \in {ErrInstall, ErrJoined} => remote = "gone"

(* At no point does the call depend on anything that need not come: it has a
   step of its own, or it waits for an answer that is under way. *)
Awaits ==
  \/ pc = "create" /\ create = "sent"
  \/ pc = "cleanup" /\ delete = "sent"

NeverStuck ==
  pc # "returned" =>
    IF Awaits /\ "network" \notin faults THEN ENABLED <<Serving>>_vars ELSE ENABLED <<Step>>_vars

(* CreateSandbox returns, even if the process that installs hangs and the
   caller's context has no deadline. *)
CreateReturns == <>(pc = "returned")

(* e2b.go says that install failures cause the sandbox to be destroyed. *)
InstallFailureDestroys ==
  pc = "returned" /\ ret \in {ErrInstall, ErrJoined} => remote = "gone"
=============================================================================
