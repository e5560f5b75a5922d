--------------------------- MODULE ProvisionProofs ---------------------------
(***************************************************************************)
(* What CreateSandbox and ConnectSandbox return and what CreateSandbox     *)
(* leaves behind when it fails, for any faults, timeouts and widths.       *)
(***************************************************************************)
EXTENDS Provision, ConfigProofs

(* Where the requests are with respect to the call. *)
ProgressInv ==
  /\ ret = NotYet <=> pc # "returned"
  /\ pc = "entered" => create = "unsent"
  /\ pc = "create" => create # "unsent"
  /\ pc \in {"install", "wait", "cleanup"} => 
       create = "served" /\ remote # "none" /\ arguments.packages
  /\ delete # "unsent" => pc \in {"cleanup", "returned"} /\ create = "served"
  /\ remote = "none" => ~arguments.connect /\ apt = "absent"
  /\ ~arguments.connect /\ create # "served" => remote = "none"
  /\ remote = "paused" => arguments.connect
  /\ arguments.packages => ~arguments.connect

(* An answer tells the truth about the sandbox. *)
AnswerInv ==
  /\ pc = "create" /\ create = "served" => 
       \/ reply = 200 /\ remote \in {"running", "gone"} /\ lifetime = Requested
       \/ reply \in {401, 404, 500} /\ (arguments.connect \/ remote = "none")
  /\ pc = "create" /\ create = "served" /\ reply = 404 /\ arguments.connect => remote = "gone"
  /\ pc = "cleanup" /\ delete = "served" =>
       \/ reply \in {204, 404} /\ remote = "gone"
       \/ reply = 500 /\ faults # {}

(* What each result says about the sandbox. *)
ResultInv ==
  /\ HandleMeansReady
  /\ pc \in {"install", "wait"} \/ ret = Handle => create = "served" /\ lifetime = Requested
  /\ ret = ErrSandboxNotFound => remote = "gone"
  /\ ret = ErrInstall => remote = "gone"
  /\ ret = ErrJoined => faults # {}
  /\ ret = ErrRequest => create = "unsent"
  /\ ret \in {ErrStatus, ErrAuthentication, ErrNoResource} => 
       create = "served" /\ (arguments.connect \/ remote = "none")

(* The inductive invariant. *)
IInv == TypeOK /\ ProgressInv /\ AnswerInv /\ ResultInv

-----------------------------------------------------------------------------
(* The names of results are distinct. *)
LEMMA ResultsDistinct ==
  /\ Handle \notin Errors \cup {NotYet}
  /\ NotYet \notin Errors
  /\ ErrSandboxNotFound \notin {ErrInstall, ErrJoined, ErrRequest, ErrTransport, ErrDecode, 
                                ErrStatus, ErrAuthentication, ErrNoResource}
  /\ ErrInstall \notin {ErrRequest, ErrTransport, ErrDecode, ErrStatus, ErrAuthentication, ErrNoResource, ErrJoined}
  /\ ErrJoined \notin {ErrRequest, ErrTransport, ErrDecode, ErrStatus, ErrAuthentication, ErrNoResource}
  /\ ErrRequest \notin {ErrTransport, ErrDecode, ErrStatus, ErrAuthentication, ErrNoResource}
  /\ ErrTransport \notin {ErrStatus, ErrAuthentication, ErrNoResource}
  /\ ErrDecode \notin {ErrStatus, ErrAuthentication, ErrNoResource}
  BY DEF Errors, Handle, NotYet, ErrInstall, ErrRequest, ErrTransport, ErrDecode, ErrStatus, 
         ErrAuthentication, ErrNoResource, ErrJoined, ErrSandboxNotFound

(* How the answer to the POST is read. *)
LEMMA CreateAnswer ==
  ASSUME NEW decodes \in BOOLEAN
  PROVE  /\ reply = 200 => CreateError(decodes) \in {OK, ErrDecode}
         /\ reply \in {401, 404, 500} => CreateError(decodes) \in 
              {ErrSandboxNotFound, ErrStatus, ErrAuthentication, ErrNoResource}
         /\ reply \in {200, 401, 404, 500} /\ CreateError(decodes) = ErrSandboxNotFound 
              => arguments.connect /\ reply = 404
         /\ OK \notin {ErrSandboxNotFound, ErrDecode, ErrStatus, ErrAuthentication, ErrNoResource}
  BY DEF CreateError, createSandbox, connectSandbox, doJSONWithResponse, normalizeHTTPError, OK, 
         ErrDecode, ErrStatus, ErrAuthentication, ErrNoResource, ErrSandboxNotFound

(* What the POST asks for is a number. *)
LEMMA RequestedIsInt == arguments \in Arguments => Requested \in Int
  BY SecondsAreInt, TimeoutsAssumption DEF Arguments, Requested

(* How the answer to the cleanup's DELETE is read. *)
LEMMA CleanupAnswer ==
  /\ \A status \in {204, 404} : CleanupError(destroySandbox(status)) = ErrInstall
  /\ CleanupError(destroySandbox(500)) = ErrJoined
  BY DEF CleanupError, destroySandbox, doJSONWithResponse, normalizeHTTPError, OK, ErrStatus, 
         ErrSandboxNotFound

(* They are an inductive invariant. *)
THEOREM Invariance == Spec => []IInv
<1>1. Init => IInv
  <2> SUFFICES ASSUME Init PROVE IInv
    OBVIOUS
  <2>1. arguments \in Arguments /\ (arguments.connect => ~arguments.packages)
    BY DEF Init
  <2>2. IF arguments.connect THEN remote \in {"running", "paused", "gone"} ELSE remote = "none"
    BY DEF Init
  <2>3. TypeOK
    <3>1. remote \in {"none", "running", "paused", "gone"}
      BY <2>2
    <3>2. faults \in SUBSET Faults
      BY DEF Init
    <3>3. ret = NotYet /\ NotYet # ErrSandboxNotFound
      BY ResultsDistinct DEF Init, Errors
    <3>4. lifetime \in Int /\ reply \in Statuses
      BY DEF Init, Statuses
    <3> QED BY <2>1, <3>1, <3>2, <3>3, <3>4 DEF Init, TypeOK
  <2>4. ProgressInv /\ AnswerInv
    BY <2>1, <2>2 DEF Init, ProgressInv, AnswerInv
  <2>5. ResultInv
    BY ResultsDistinct DEF Init, ResultInv, HandleMeansReady, Errors
  <2> QED BY <2>3, <2>4, <2>5 DEF IInv
<1>2. IInv /\ [Next]_vars => IInv'
  <2> SUFFICES ASSUME IInv, [Next]_vars PROVE IInv'
    OBVIOUS
  <2>0. arguments' = arguments
    BY DEF Next, Step, Answer, Terminated, vars, Reject, SendCreate, CreateFails, CreateAnswered, 
           Started, InstallEnds, InstallFails, InstallTimesOut, SendDelete, DeleteFails, 
           DeleteAnswered, ServeCreate, ServeStart, ServeDelete, AptExits, SandboxEnds, CancelCtx
  <2>00. Requested' = Requested /\ Requested \in Int
    BY <2>0, RequestedIsInt DEF Requested, IInv, TypeOK
  <2> USE <2>00, ResultsDistinct DEF IInv, TypeOK, ProgressInv, AnswerInv, ResultInv, HandleMeansReady, 
          Statuses, Errors, call, service, Goto, Return, Broken
  <2>1. CASE Reject
    BY <2>1 DEF Reject
  <2>2. CASE SendCreate
    BY <2>2 DEF SendCreate
  <2>3. CASE CreateFails
    BY <2>3 DEF CreateFails
  <2>4. CASE CreateAnswered
    <3>1. PICK decodes \in BOOLEAN :
            LET e == CreateError(decodes) IN
            IF e # OK THEN Return(e)
            ELSE IF arguments.packages THEN Goto("install") ELSE Return(Handle)
      BY <2>4 DEF CreateAnswered
    <3> DEFINE e == CreateError(decodes)
    <3>2. \/ reply = 200 /\ e \in {OK, ErrDecode}
          \/ /\ arguments.connect \/ remote = "none"
             /\ e \in {ErrSandboxNotFound, ErrStatus, ErrAuthentication, ErrNoResource}
             /\ e = ErrSandboxNotFound => arguments.connect /\ remote = "gone"
      BY <2>4, CreateAnswer DEF CreateAnswered
    <3>3. OK \notin {ErrSandboxNotFound, ErrDecode, ErrStatus, ErrAuthentication, ErrNoResource}
      BY CreateAnswer
    <3> HIDE DEF e
    <3>4. UNCHANGED <<arguments, faults, ctxDone, create, delete, service>> 
          /\ pc = "create" /\ create = "served"
      BY <2>4 DEF CreateAnswered
    <3>5. CASE e # OK
      BY <3>1, <3>2, <3>3, <3>4, <3>5 DEF e
    <3>6. CASE e = OK
      BY <3>1, <3>2, <3>3, <3>4, <3>6 DEF e
    <3> QED BY <3>5, <3>6
  <2>5. CASE Started
    BY <2>5 DEF Started
  <2>6. CASE InstallEnds
    BY <2>6 DEF InstallEnds
  <2>7. CASE InstallFails
    BY <2>7 DEF InstallFails
  <2>8. CASE InstallTimesOut
    BY <2>8 DEF InstallTimesOut
  <2>9. CASE SendDelete
    BY <2>9 DEF SendDelete
  <2>10. CASE DeleteFails
    BY <2>10 DEF DeleteFails, CleanupCtxDone
  <2>11. CASE DeleteAnswered
    <3>1. \/ remote = "gone" /\ ret' = ErrInstall
          \/ faults # {} /\ ret' = ErrJoined
      BY <2>11, CleanupAnswer DEF DeleteAnswered
    <3> QED BY <2>11, <3>1 DEF DeleteAnswered
  <2>12. CASE ServeCreate
    BY <2>12 DEF ServeCreate, Unknown
  <2>13. CASE ServeStart
    BY <2>13 DEF ServeStart
  <2>14. CASE ServeDelete
    BY <2>14 DEF ServeDelete
  <2>15. CASE AptExits
    BY <2>15 DEF AptExits
  <2>16. CASE SandboxEnds
    BY <2>16 DEF SandboxEnds
  <2>17. CASE CancelCtx
    BY <2>17 DEF CancelCtx
  <2>18. CASE UNCHANGED vars
    BY <2>18 DEF vars
  <2> QED
    BY <2>1, <2>2, <2>3, <2>4, <2>5, <2>6, <2>7, <2>8, <2>9, <2>10, <2>11, <2>12, <2>13, <2>14, 
       <2>15, <2>16, <2>17, <2>18 DEF Next, Step, Answer, Terminated
<1> QED BY <1>1, <1>2, PTL DEF Spec

-----------------------------------------------------------------------------
(* Every variable has its type. *)
THEOREM TypeCorrect == Spec => []TypeOK
<1>1. IInv => TypeOK
  BY DEF IInv
<1> QED BY <1>1, Invariance, PTL

(* A handle comes with the lifetime its caller asked for. *)
THEOREM LifetimeIsAsAsked == Spec => []LifetimeAsAsked
<1>1. ASSUME IInv PROVE LifetimeAsAsked
  <2> SUFFICES ASSUME ret = Handle PROVE LifetimeAsAsked
    BY DEF LifetimeAsAsked
  <2>1. lifetime = Requested /\ arguments.timeout \in Durations /\ arguments.connect \in BOOLEAN
    BY <1>1, TimeoutsAssumption DEF IInv, ResultInv, TypeOK, Arguments
  <2>2. ASSUME arguments.timeout \in Roundable
        PROVE  lifetime * Second \in arguments.timeout..(arguments.timeout + Second - 1)
    <3>1. Requested = durationToWholeSeconds(arguments.timeout)
      BY <2>2, ConfigAssumption DEF Requested, connectTimeoutSeconds, Roundable
    <3> QED BY <2>1, <2>2, <3>1, RoundsUp
  <2>3. ASSUME arguments.timeout <= 0
        PROVE  IF arguments.connect THEN lifetime * Second >= DefaultConnect ELSE lifetime = 0
    BY <2>1, <2>3, ConnectAsksForDefault DEF Requested, durationToWholeSeconds
  <2> QED BY <2>2, <2>3 DEF LifetimeAsAsked
<1> QED BY <1>1, Invariance, PTL

(* CreateSandbox returns a handle only for a sandbox that is ready. *)
THEOREM HandleIsReady == Spec => []HandleMeansReady
<1>1. IInv => HandleMeansReady
  BY DEF IInv, ResultInv
<1> QED BY <1>1, Invariance, PTL

(* A sandbox that outlives a failed call is announced by the error. *)
THEOREM OrphansAreKnown == Spec => []OrphansAreExplained
<1>1. IInv => OrphansAreExplained
  BY DEF IInv, TypeOK, ProgressInv, ResultInv, OrphansAreExplained, Errors
<1> QED BY <1>1, Invariance, PTL

(* Without faults a failed installation destroys the sandbox. *)
THEOREM CleanupIsReliable == Spec => []FaultlessCleanup
<1>1. IInv => FaultlessCleanup
  BY DEF IInv, ResultInv, FaultlessCleanup
<1> QED BY <1>1, Invariance, PTL
-----------------------------------------------------------------------------
(* How far a call has come. *)
Rank ==
  CASE pc = "entered"                          -> 0
    [] pc = "create" /\ create # "served"      -> 1
    [] pc = "create" /\ create = "served"      -> 2
    [] pc = "install"                          -> 3
    [] pc = "wait"                             -> 4
    [] pc = "cleanup" /\ delete = "unsent"     -> 5
    [] pc = "cleanup" /\ delete = "sent"       -> 6
    [] pc = "cleanup" /\ delete = "served"     -> 7
    [] pc = "returned"                         -> 8

RankInv ==
  /\ Rank \in 0..8
  /\ pc = "entered" => Rank = 0
  /\ pc = "create" => Rank = IF create = "served" THEN 2 ELSE 1
  /\ pc = "install" => Rank = 3
  /\ pc = "wait" => Rank = 4
  /\ pc = "cleanup" => Rank = IF delete = "unsent" THEN 5 ELSE IF delete = "sent" THEN 6 ELSE 7
  /\ pc = "returned" => Rank = 8
  /\ Awaits <=> Rank \in {1, 6}

(* The rank of a call is a number, and its place. *)
LEMMA Ranks == IInv => RankInv
<1> SUFFICES ASSUME IInv PROVE RankInv
  OBVIOUS
<1> USE DEF IInv, TypeOK, ProgressInv, Rank, Awaits, RankInv
<1>1. CASE pc = "entered"
  BY <1>1
<1>2. CASE pc = "create"
  BY <1>2
<1>3. CASE pc = "install"
  BY <1>3
<1>4. CASE pc = "wait"
  BY <1>4
<1>5. CASE pc = "cleanup"
  BY <1>5
<1>6. CASE pc = "returned"
  BY <1>6
<1> QED BY <1>1, <1>2, <1>3, <1>4, <1>5, <1>6

(* A call never goes back; its own steps, and the answers it waits for, take
   it further. *)
LEMMA Onward ==
  ASSUME IInv, IInv', [Next]_vars
  PROVE  /\ Rank \in 0..8 /\ Rank' \in 0..8
         /\ Rank' >= Rank
         /\ Step => Rank' > Rank
         /\ Serving /\ Rank \in {1, 6} => Rank' > Rank
         /\ faults' = faults
<1>0. RankInv /\ RankInv'
  <2>1. IInv' => RankInv'
    BY Ranks, PTL
  <2> QED BY <2>1, Ranks
<1> USE <1>0 DEF call, service, Goto, Return, IInv, TypeOK, ProgressInv, RankInv
<1>1. CASE Step
  <2>1. CASE Reject
    BY <2>1 DEF Reject
  <2>2. CASE SendCreate
    BY <2>2 DEF SendCreate
  <2>3. CASE CreateFails
    BY <2>3 DEF CreateFails
  <2>4. CASE CreateAnswered
    BY <2>4 DEF CreateAnswered
  <2>5. CASE Started
    BY <2>5 DEF Started
  <2>6. CASE InstallEnds
    BY <2>6 DEF InstallEnds
  <2>7. CASE InstallFails
    BY <2>7 DEF InstallFails
  <2>8. CASE InstallTimesOut
    BY <2>8 DEF InstallTimesOut
  <2>9. CASE SendDelete
    BY <2>9 DEF SendDelete
  <2>10. CASE DeleteFails
    BY <2>10 DEF DeleteFails
  <2>11. CASE DeleteAnswered
    BY <2>11 DEF DeleteAnswered
  <2> QED BY <1>1, <2>1, <2>2, <2>3, <2>4, <2>5, <2>6, <2>7, <2>8, <2>9, <2>10, <2>11 DEF Step
<1>2. CASE Serving
  <2> DEFINE Later == faults' = faults /\ Rank' >= Rank /\ (Rank \in {1, 6} => Rank' > Rank)
  <2>1. ASSUME ServeCreate PROVE Later
    BY <2>1 DEF ServeCreate
  <2>2. ASSUME ServeDelete PROVE Later
    BY <2>2 DEF ServeDelete
  <2>3. ~Step
    BY <1>2 DEF Serving, ServeCreate, ServeDelete, Step, Reject, SendCreate, CreateFails, CreateAnswered,
            Started, InstallEnds, InstallFails, InstallTimesOut, SendDelete, DeleteFails, DeleteAnswered
  <2> QED BY <1>2, <2>1, <2>2, <2>3 DEF Serving
<1>3. ASSUME UNCHANGED <<faults, pc, create, delete>>
      PROVE  Rank' = Rank /\ faults' = faults /\ ~Step /\ ~Serving
  BY <1>3 DEF Serving, ServeCreate, ServeDelete, Step, Reject, SendCreate, CreateFails, CreateAnswered,
          Started, InstallEnds, InstallFails, InstallTimesOut, SendDelete, DeleteFails, DeleteAnswered
<1>4. CASE CancelCtx \/ ServeStart \/ AptExits \/ SandboxEnds \/ UNCHANGED vars
  BY <1>3, <1>4 DEF CancelCtx, ServeStart, AptExits, SandboxEnds, vars
<1> QED BY <1>1, <1>2, <1>3, <1>4 DEF Next, Answer, Serving, Terminated

(* From each rank but the last a call comes to a later one. *)
Leaves(n) == Rank = n ~> Rank > n

(* A call does not stay at a rank. *)
LEMMA Progress ==
  ASSUME NEW n \in 0..7
  PROVE  FairSpec /\ []NeverStuck => Leaves(n)
<1>1. IInv /\ IInv' /\ [Next]_vars /\ Rank = n => (Rank = n)' \/ (Rank > n)'
  BY Onward
<1>2. IInv /\ IInv' /\ <<Step>>_vars /\ Rank = n => (Rank > n)'
  BY Onward DEF Next
<1>3. IInv /\ IInv' /\ <<Serving>>_vars /\ Rank = n /\ n \in {1, 6} => (Rank > n)'
  BY Onward DEF Next, Answer, Serving
<1>4. IInv /\ NeverStuck /\ Rank = n =>
        IF n \in {1, 6} /\ "network" \notin faults THEN ENABLED <<Serving>>_vars ELSE ENABLED <<Step>>_vars
  BY Ranks DEF NeverStuck, RankInv
<1>5. IInv /\ IInv' /\ [Next]_vars => (("network" \notin faults) <=> ("network" \notin faults)')
  BY Onward
<1>6. CASE n \in {1, 6}
  <2>1. IInv /\ NeverStuck /\ Rank = n /\ "network" \notin faults => ENABLED <<Serving>>_vars
    BY <1>4, <1>6
  <2>2. IInv /\ NeverStuck /\ Rank = n /\ ~("network" \notin faults) => ENABLED <<Step>>_vars
    BY <1>4, <1>6
  <2>3. IInv /\ IInv' /\ <<Serving>>_vars /\ Rank = n => (Rank > n)'
    BY <1>3, <1>6
  <2> QED BY <1>1, <1>2, <1>5, <2>1, <2>2, <2>3, Invariance, PTL DEF FairSpec, Spec, Fairness, Leaves
<1>7. CASE n \notin {1, 6}
  <2>1. IInv /\ NeverStuck /\ Rank = n => ENABLED <<Step>>_vars
    BY <1>4, <1>7
  <2> QED BY <1>1, <1>2, <2>1, Invariance, PTL DEF FairSpec, Spec, Fairness, Leaves
<1> QED BY <1>6, <1>7

(* The call returns, since at no point it is stuck.  Of ENABLED the proof uses
   nothing but that hypothesis. *)
THEOREM CreateComesToAnEnd == FairSpec /\ []NeverStuck => CreateReturns
<1>1. FairSpec /\ []NeverStuck => \A n \in 0..7 : Leaves(n)
  BY Progress
<1>2. FairSpec /\ []NeverStuck => /\ Leaves(0) /\ Leaves(1) /\ Leaves(2) /\ Leaves(3)
                                 /\ Leaves(4) /\ Leaves(5) /\ Leaves(6) /\ Leaves(7)
  BY <1>1
<1>3. IInv =>
        /\ Rank = 0 \/ Rank > 0
        /\ Rank > 0 => Rank = 1 \/ Rank > 1
        /\ Rank > 1 => Rank = 2 \/ Rank > 2
        /\ Rank > 2 => Rank = 3 \/ Rank > 3
        /\ Rank > 3 => Rank = 4 \/ Rank > 4
        /\ Rank > 4 => Rank = 5 \/ Rank > 5
        /\ Rank > 5 => Rank = 6 \/ Rank > 6
        /\ Rank > 6 => Rank = 7 \/ Rank > 7
        /\ Rank > 7 => pc = "returned"
  BY Ranks DEF RankInv, IInv, TypeOK
<1> QED BY <1>2, <1>3, Invariance, PTL DEF FairSpec, CreateReturns, Leaves
=============================================================================
