--------------------------- MODULE RequestsProofs ---------------------------
(***************************************************************************)
(* What the answers of one-request operations are worth, for any number of *)
(* concurrent calls on a resource of each kind.                            *)
(***************************************************************************)
EXTENDS Requests, FiniteSetTheorems, TLAPS

Outcomes(k, o) == {Done(k, o), NotFound(k), Already(k), Failure(k)}

(* A result that says that nothing was done. *)
Negative(r) == \/ r.err \in Sentinels \cup Refusals 
               \/ r.err = OK /\ ~r.ok

(* A call and its request. *)
WireInv(c) ==
  /\ phase[c] = "idle" => request[c] = "unsent"
  /\ phase[c] = "waiting" => request[c] # "unsent" /\ present \in seen[c]
  /\ request[c] # "unsent" => op[c] \in Ops(kind)
  /\ request[c] = "served" => /\ code[c] \in Outcomes(kind, op[c])
                              /\ code[c] = Already(kind) => op[c] = "make"

(* What the service's answer to a call tells. *)
HonestInv(c) ==
  phase[c] = "waiting" /\ request[c] = "served" =>
    /\ code[c] = NotFound(kind) => FALSE \in seen[c] \/ ~alive
    /\ code[c] = Already(kind) => TRUE \in seen[c]
    /\ code[c] = Done(kind, op[c]) /\ op[c] \in {"stat", "exists"} => TRUE \in seen[c]

(* What the call makes of it. *)
TrueInv(c) ==
  Returned(c) => /\ SaysAbsent(c) => FALSE \in seen[c] \/ ~alive
                 /\ SaysPresent(c) => TRUE \in seen[c]

ResultInv(c) ==
  Returned(c) =>
    /\ result[c].ok /\ op[c] \in Reports(kind) => 
         request[c] = "served" /\ code[c] = Done(kind, op[c])
    /\ Negative(result[c]) => 
         \/ request[c] = "unsent" 
         \/ request[c] = "served" /\ code[c] \in {NotFound(kind), Already(kind)}

CallInv(c) == WireInv(c) /\ HonestInv(c) /\ TrueInv(c) /\ ResultInv(c)

(* The requests that certainly, and those that possibly, made a change. *)
Sure(o)  == {c \in Calls : /\ request[c] = "served" /\ op[c] = o /\ o \in Reports(kind)
                           /\ code[c] = Done(kind, o)}
Maybe(o) == {c \in Calls : /\ request[c] = "served" /\ op[c] = o 
                           /\ code[c] \notin {NotFound(kind), Already(kind)}}

(* The books of the service, which only serving a request changes. *)
BooksInv ==
  kind # "process" =>
    /\ Cardinality(Sure("make")) - Cardinality(Maybe("remove")) <= There(present) - There(initial)
    /\ There(present) - There(initial) <= Cardinality(Maybe("make")) - Cardinality(Sure("remove"))

(* The inductive invariant. *)
IInv == TypeOK /\ BooksInv /\ \A c \in Calls : CallInv(c)

-----------------------------------------------------------------------------
(* The answers of a service are told apart. *)
LEMMA CodesDistinct ==
  ASSUME NEW k \in Kinds, NEW o \in Ops(k)
  PROVE  /\ Outcomes(k, o) \subseteq Codes
         /\ Done(k, o) \notin {NotFound(k), Already(k), Failure(k)}
         /\ NotFound(k) \notin {Already(k), Failure(k)}
         /\ Already(k) # Failure(k)
         /\ Ops(k) \subseteq {"make", "remove", "stat", "exists"}
  BY DEF Outcomes, Done, NotFound, Already, Failure, HasBody, Codes, Statuses, Kinds, EnvdKinds,
         ControlKinds, Ops, CodeOK, CodeNotFound, CodeAlreadyExists, CodeUnavailable

(* What a call may conclude from the answer it reads. *)
Faithful(k, o, a, r) ==
  /\ r \in {x \in [ok : BOOLEAN, err : Errors] : x.ok => x.err = OK}
  /\ r.ok /\ o \in Reports(k) => a = Done(k, o)
  /\ r.ok /\ o \in {"stat", "exists"} => a = Done(k, o)
  /\ Negative(r) => a \in {NotFound(k), Already(k)}
  /\ r.err \in Sentinels => a = NotFound(k)
  /\ r.err = OK /\ ~r.ok /\ o \in {"remove", "exists"} => a = NotFound(k)
  /\ r.err = OK /\ ~r.ok /\ o = "make" => a = Already(k)

(* The names of errors are distinct, as far as it matters. *)
LEMMA NamesDistinct ==
  /\ OK \notin Sentinels \cup Refusals
  /\ {ErrRPC, ErrNoResource, ErrAuthentication, ErrStatus, ErrDecode, ErrTransport} 
       \cap (Sentinels \cup Refusals \cup {OK}) = {}
  /\ Sentinels \cap Refusals = {}
  BY DEF Errors, Sentinels, Refusals, OK, ErrSandboxNotFound, ErrSandboxDestroyed, ErrNoResource, 
         ErrAuthentication, ErrStatus, ErrDecode, ErrTransport, ErrFileNotFound, ErrVolumeNotFound, 
         ErrRPC, ErrRequest, ErrInputMode

Others == {ErrRPC, ErrNoResource, ErrAuthentication, ErrStatus, ErrDecode, ErrTransport}

Yes    == Answer(TRUE, OK)
No     == Answer(FALSE, OK)
Err(e) == Answer(FALSE, e)

(* The error of the methods built on Deleted. *)
deleteError(status) == doJSONWithResponse(status, TRUE, {204, 404}, FALSE, OK)

(* The error of each HTTP method for each status it may get. *)
LEMMA HTTPErrors ==
  ASSUME NEW d \in BOOLEAN
  PROVE  /\ deleteError(204) = OK /\ deleteError(404) = OK /\ deleteError(500) = ErrStatus
         /\ pauseSandbox(204) = OK /\ pauseSandbox(409) = OK
         /\ pauseSandbox(404) = ErrSandboxNotFound /\ pauseSandbox(500) = ErrStatus
         /\ connectSandbox(200, d) \in {OK, ErrDecode}
         /\ connectSandbox(404, d) = ErrSandboxNotFound
         /\ connectSandbox(409, d) = ErrStatus /\ connectSandbox(500, d) = ErrStatus
         /\ getVolumeInfo(200, d) \in {OK, ErrDecode}
         /\ getVolumeInfo(404, d) = ErrVolumeNotFound /\ getVolumeInfo(500, d) = ErrStatus
         /\ volumeContent(200, d) \in {OK, ErrDecode}
         /\ volumeContent(404, d) = ErrFileNotFound
         /\ volumeContent(409, d) = ErrStatus /\ volumeContent(500, d) = ErrStatus
         /\ volumeRemove(204) = OK
         /\ volumeRemove(404) = ErrFileNotFound /\ volumeRemove(500) = ErrStatus
<1>1. deleteError(204) = OK /\ deleteError(404) = OK /\ deleteError(500) = ErrStatus
  BY DEF deleteError, doJSONWithResponse, normalizeHTTPError, OK
<1>2. /\ pauseSandbox(204) = OK /\ pauseSandbox(409) = OK
      /\ pauseSandbox(404) = ErrSandboxNotFound /\ pauseSandbox(500) = ErrStatus
  BY DEF pauseSandbox, doJSONWithResponse, normalizeHTTPError, OK, ErrSandboxNotFound
<1>3. /\ connectSandbox(200, d) \in {OK, ErrDecode} /\ connectSandbox(404, d) = ErrSandboxNotFound
      /\ connectSandbox(409, d) = ErrStatus /\ connectSandbox(500, d) = ErrStatus
  BY DEF connectSandbox, doJSONWithResponse, normalizeHTTPError, OK, ErrSandboxNotFound
<1>4. /\ getVolumeInfo(200, d) \in {OK, ErrDecode} /\ getVolumeInfo(404, d) = ErrVolumeNotFound
      /\ getVolumeInfo(500, d) = ErrStatus
  BY DEF getVolumeInfo, doJSONWithResponse, normalizeHTTPError, OK, ErrVolumeNotFound
<1>5. /\ volumeContent(200, d) \in {OK, ErrDecode} /\ volumeContent(404, d) = ErrFileNotFound
      /\ volumeContent(409, d) = ErrStatus /\ volumeContent(500, d) = ErrStatus
  BY DEF volumeContent, doJSONWithResponse, normalizeHTTPError, OK, ErrFileNotFound
<1>6. volumeRemove(204) = OK /\ volumeRemove(404) = ErrFileNotFound /\ volumeRemove(500) = ErrStatus
  BY DEF volumeRemove, doJSONWithResponse, normalizeHTTPError, OK, ErrFileNotFound
<1> QED BY <1>1, <1>2, <1>3, <1>4, <1>5, <1>6

(* The results that are computed from a status and an error. *)
LEMMA Booleans ==
  ASSUME NEW status
  PROVE  /\ deleteError(status) = OK /\ status = 204 => Deleted(status) = Yes
         /\ deleteError(status) = OK /\ status # 204 => Deleted(status) = No
         /\ deleteError(status) # OK => Deleted(status) = Err(deleteError(status))
         /\ pauseSandbox(status) = OK /\ status = 204 => Paused(status) = Yes
         /\ pauseSandbox(status) = OK /\ status # 204 => Paused(status) = No
         /\ pauseSandbox(status) # OK => Paused(status) = Err(pauseSandbox(status))
<1>1. /\ deleteError(status) = OK /\ status = 204 => Deleted(status) = Yes
      /\ deleteError(status) = OK /\ status # 204 => Deleted(status) = No
      /\ deleteError(status) # OK => Deleted(status) = Err(deleteError(status))
  BY DEF Deleted, deleteError, Answer, Yes, No, Err
<1>2. /\ pauseSandbox(status) = OK /\ status = 204 => Paused(status) = Yes
      /\ pauseSandbox(status) = OK /\ status # 204 => Paused(status) = No
      /\ pauseSandbox(status) # OK => Paused(status) = Err(pauseSandbox(status))
  BY DEF Paused, Answer, Yes, No, Err
<1> QED BY <1>1, <1>2

(* What the methods that return no boolean, and Exists, make of an error. *)
LEMMA ErrorResults ==
  /\ Plain(OK) = Yes /\ Exists(OK) = Yes /\ Exists(ErrFileNotFound) = No
  /\ \A e \in Sentinels \cup Others : Plain(e) = Err(e)
  /\ \A e \in Others : Exists(e) = Err(e)
<1>1. Plain(OK) = Yes
  BY DEF Plain, Yes, Answer
<1>2. ASSUME NEW e \in Sentinels \cup Others PROVE Plain(e) = Err(e)
  <2>1. e # OK
    BY NamesDistinct DEF Others
  <2> QED BY <2>1 DEF Plain, Err, Answer
<1>3. OK # ErrFileNotFound /\ ErrFileNotFound \notin Others
  BY NamesDistinct DEF Others, Sentinels
<1>4. Exists(OK) = Yes /\ \A e \in Others : Exists(e) = Err(e)
  BY <1>1, <1>2, <1>3 DEF Exists
<1>5. Exists(ErrFileNotFound) = No
  BY DEF Exists, No
<1> QED BY <1>1, <1>2, <1>4, <1>5

(* What each HTTP method returns for each status it may get. *)
LEMMA HTTPResults ==
  ASSUME NEW d \in BOOLEAN
  PROVE  /\ Deleted(204) = Yes /\ Deleted(404) = No /\ Deleted(500) = Err(ErrStatus)
         /\ Paused(204) = Yes /\ Paused(409) = No
         /\ Paused(404) = Err(ErrSandboxNotFound) /\ Paused(500) = Err(ErrStatus)
         /\ Plain(connectSandbox(200, d)) \in {Yes, Err(ErrDecode)}
         /\ Plain(connectSandbox(404, d)) = Err(ErrSandboxNotFound)
         /\ Plain(connectSandbox(409, d)) = Err(ErrStatus)
         /\ Plain(connectSandbox(500, d)) = Err(ErrStatus)
         /\ Plain(getVolumeInfo(200, d)) \in {Yes, Err(ErrDecode)}
         /\ Plain(getVolumeInfo(404, d)) = Err(ErrVolumeNotFound)
         /\ Plain(getVolumeInfo(500, d)) = Err(ErrStatus)
         /\ Plain(volumeContent(200, d)) \in {Yes, Err(ErrDecode)}
         /\ Plain(volumeContent(404, d)) = Err(ErrFileNotFound)
         /\ Plain(volumeContent(409, d)) = Err(ErrStatus)
         /\ Plain(volumeContent(500, d)) = Err(ErrStatus)
         /\ Exists(volumeContent(200, d)) \in {Yes, Err(ErrDecode)}
         /\ Exists(volumeContent(404, d)) = No
         /\ Exists(volumeContent(409, d)) = Err(ErrStatus)
         /\ Exists(volumeContent(500, d)) = Err(ErrStatus)
         /\ Plain(volumeRemove(204)) = Yes
         /\ Plain(volumeRemove(404)) = Err(ErrFileNotFound)
         /\ Plain(volumeRemove(500)) = Err(ErrStatus)
<1>1. /\ {ErrFileNotFound, ErrVolumeNotFound, ErrSandboxNotFound} = Sentinels
      /\ {ErrStatus, ErrDecode, ErrRPC} \subseteq Others
      /\ ErrStatus # OK /\ ErrSandboxNotFound # OK
  BY NamesDistinct DEF Sentinels, Others
<1>2. Deleted(204) = Yes /\ Deleted(404) = No /\ Deleted(500) = Err(ErrStatus)
  BY <1>1, HTTPErrors, Booleans
<1>3. /\ Paused(204) = Yes /\ Paused(409) = No
      /\ Paused(404) = Err(ErrSandboxNotFound) /\ Paused(500) = Err(ErrStatus)
  BY <1>1, HTTPErrors, Booleans
<1> QED BY <1>1, <1>2, <1>3, HTTPErrors, ErrorResults

(* What each method of envd returns for each code it may get. *)
LEMMA RPCResults ==
  ASSUME NEW d \in BOOLEAN
  PROVE  /\ Plain(normalizeRPCError(CodeOK)) = Yes
         /\ Plain(normalizeRPCError(CodeNotFound)) = Err(ErrFileNotFound)
         /\ \A rpc \in {CodeAlreadyExists, CodeUnavailable} : 
              Plain(normalizeRPCError(rpc)) = Err(ErrRPC)
         /\ Plain(Stat(CodeOK, d)) \in {Yes, Err(ErrDecode)}
         /\ Plain(Stat(CodeNotFound, d)) = Err(ErrFileNotFound)
         /\ \A rpc \in {CodeAlreadyExists, CodeUnavailable} : Plain(Stat(rpc, d)) = Err(ErrRPC)
         /\ Exists(Stat(CodeOK, d)) \in {Yes, Err(ErrDecode)}
         /\ Exists(Stat(CodeNotFound, d)) = No
         /\ \A rpc \in {CodeAlreadyExists, CodeUnavailable} : Exists(Stat(rpc, d)) = Err(ErrRPC)
         /\ Plain(normalizeProcessRPCError(CodeOK)) = Yes
         /\ \A rpc \in {CodeNotFound, CodeUnavailable} : 
              Plain(normalizeProcessRPCError(rpc)) = Err(ErrRPC)
         /\ MakeDir(CodeOK) = Yes /\ MakeDir(CodeAlreadyExists) = No
         /\ MakeDir(CodeNotFound) = Err(ErrFileNotFound) /\ MakeDir(CodeUnavailable) = Err(ErrRPC)
         /\ killProcess(CodeOK) = Yes /\ killProcess(CodeNotFound) = No
         /\ killProcess(CodeUnavailable) = Err(ErrRPC)
<1>1. /\ CodeOK # CodeNotFound /\ CodeOK # CodeAlreadyExists /\ CodeOK # CodeUnavailable 
      /\ CodeNotFound # CodeAlreadyExists /\ CodeNotFound # CodeUnavailable
      /\ CodeAlreadyExists # CodeUnavailable
  BY DEF CodeOK, CodeNotFound, CodeAlreadyExists, CodeUnavailable
<1>2. ErrFileNotFound \in Sentinels /\ ErrRPC \in Others /\ ErrDecode \in Others
  BY DEF Sentinels, Others
<1>3. /\ normalizeRPCError(CodeOK) = OK /\ normalizeRPCError(CodeNotFound) = ErrFileNotFound
      /\ \A rpc \in {CodeAlreadyExists, CodeUnavailable} : normalizeRPCError(rpc) = ErrRPC
  BY <1>1 DEF normalizeRPCError
<1>4. /\ normalizeProcessRPCError(CodeOK) = OK
      /\ \A rpc \in {CodeNotFound, CodeUnavailable} : normalizeProcessRPCError(rpc) = ErrRPC
  BY <1>1 DEF normalizeProcessRPCError
<1>5. /\ MakeDir(CodeOK) = Yes /\ MakeDir(CodeAlreadyExists) = No
      /\ MakeDir(CodeNotFound) = Err(ErrFileNotFound) /\ MakeDir(CodeUnavailable) = Err(ErrRPC)
  BY <1>1, <1>2, <1>3, ErrorResults DEF MakeDir, No
<1>6. /\ killProcess(CodeOK) = Yes /\ killProcess(CodeNotFound) = No
      /\ killProcess(CodeUnavailable) = Err(ErrRPC)
  BY <1>1, <1>2, <1>4, ErrorResults DEF killProcess, No
<1>7. /\ Stat(CodeOK, d) \in {OK, ErrDecode} /\ Stat(CodeNotFound, d) = ErrFileNotFound
      /\ \A rpc \in {CodeAlreadyExists, CodeUnavailable} : Stat(rpc, d) = ErrRPC
  BY <1>1, <1>3 DEF Stat
<1> QED BY <1>2, <1>3, <1>4, <1>5, <1>6, <1>7, ErrorResults

(* The shapes of a result. *)
Shape(k, o, a, r) ==
  \/ r = Yes /\ a = Done(k, o)
  \/ r = No /\ o \in {"remove", "exists"} /\ a = NotFound(k)
  \/ r = No /\ o = "make" /\ a = Already(k)
  \/ r \in {Err(ErrFileNotFound), Err(ErrVolumeNotFound), Err(ErrSandboxNotFound)} /\ a = NotFound(k)
  \/ r \in {Err(ErrStatus), Err(ErrDecode), Err(ErrRPC)}

(* A result of one of the shapes says no more than its answer does. *)
LEMMA Shapes ==
  ASSUME NEW k, NEW o, NEW a, NEW r, Shape(k, o, a, r)
  PROVE  Faithful(k, o, a, r)
<1>1. CASE r = Yes /\ a = Done(k, o)
  BY <1>1, NamesDistinct DEF Faithful, Yes, Answer, Negative, Errors
<1>2. CASE /\ r = No 
           /\ \/ o \in {"remove", "exists"} /\ a = NotFound(k) 
              \/ o = "make" /\ a = Already(k)
  BY <1>2, NamesDistinct DEF Faithful, No, Answer, Negative, Errors
<1>3. ASSUME NEW e \in Sentinels, r = Err(e), a = NotFound(k) PROVE Faithful(k, o, a, r)
  BY <1>3, NamesDistinct DEF Faithful, Err, Answer, Negative, Errors
<1>4. ASSUME NEW e \in Others, r = Err(e) PROVE Faithful(k, o, a, r)
  <2>1. e \in Errors /\ e \notin Sentinels \cup Refusals /\ e # OK
    BY NamesDistinct DEF Others, Errors
  <2>2. r = [ok |-> FALSE, err |-> e]
    BY <1>4 DEF Err, Answer
  <2> QED BY <2>1, <2>2 DEF Faithful, Negative
<1>5. /\ {ErrFileNotFound, ErrVolumeNotFound, ErrSandboxNotFound} = Sentinels
      /\ {ErrStatus, ErrDecode, ErrRPC} \subseteq Others
  BY DEF Sentinels, Others
<1> QED BY <1>1, <1>2, <1>3, <1>4, <1>5 DEF Shape

(* What a method returns says no more than the answer it got. *)
LEMMA Interpretation ==
  ASSUME NEW k \in Kinds, NEW o \in Ops(k), NEW a \in Outcomes(k, o), NEW d \in BOOLEAN,
         a = Already(k) => o = "make"
  PROVE  Faithful(k, o, a, Interpret(k, o, a, d))
<1>0. Kinds = {"volume", "snapshot", "sandbox", "content", "directory", "process"}
  BY DEF Kinds, ControlKinds, EnvdKinds
<1> SUFFICES Shape(k, o, a, Interpret(k, o, a, d))
  BY Shapes
<1>1. CASE k = "volume"
  <2>1. o \in {"remove", "stat"} /\ NotFound(k) = 404 /\ a \in {Done(k, o), 404, 500}
        /\ Done(k, o) = IF o = "remove" THEN 204 ELSE 200
    BY <1>1 DEF Ops, Outcomes, Done, NotFound, Already, Failure, HasBody, EnvdKinds
  <2>2. CASE o = "remove"
    <3>1. Interpret(k, o, a, d) = Deleted(a)
      BY <1>1, <2>2 DEF Interpret
    <3> QED BY <2>1, <2>2, <3>1, HTTPResults DEF Shape
  <2>3. CASE o = "stat"
    <3>1. Interpret(k, o, a, d) = Plain(getVolumeInfo(a, d))
      BY <1>1, <2>3 DEF Interpret
    <3> QED BY <2>1, <2>3, <3>1, HTTPResults DEF Shape
  <2> QED BY <2>1, <2>2, <2>3
<1>2. CASE k = "snapshot"
  <2>1. o = "remove" /\ a \in {204, 404, 500} /\ NotFound(k) = 404 /\ Done(k, o) = 204
    BY <1>2 DEF Ops, Outcomes, Done, NotFound, Already, Failure, HasBody, EnvdKinds
  <2>2. Interpret(k, o, a, d) = Deleted(a)
    BY <1>2 DEF Interpret
  <2> QED BY <2>1, <2>2, HTTPResults DEF Shape
<1>3. CASE k = "sandbox"
  <2>1. o \in {"make", "remove"} /\ a \in {Done(k, o), 404, 409, 500} /\ NotFound(k) = 404 
        /\ Done(k, o) = (IF o = "make" THEN 204 ELSE 200) /\ Already(k) = 409
    BY <1>3 DEF Ops, Outcomes, Done, NotFound, Already, Failure, HasBody, EnvdKinds
  <2>2. CASE o = "make"
    <3>1. Interpret(k, o, a, d) = Paused(a)
      BY <1>3, <2>2 DEF Interpret
    <3> QED BY <2>1, <2>2, <3>1, HTTPResults DEF Shape
  <2>3. CASE o = "remove"
    <3>1. Interpret(k, o, a, d) = Plain(connectSandbox(a, d))
      BY <1>3, <2>3 DEF Interpret
    <3> QED BY <2>1, <2>3, <3>1, HTTPResults DEF Shape
  <2> QED BY <2>1, <2>2, <2>3
<1>4. CASE k = "process"
  <2>1. o \in {"remove", "stat"} /\ NotFound(k) = CodeNotFound /\ Done(k, o) = CodeOK
        /\ a \in {CodeOK, CodeNotFound, CodeUnavailable} 
    BY <1>4 DEF Ops, Outcomes, Done, NotFound, Already, Failure, EnvdKinds
  <2>2. CASE o = "remove"
    <3>1. Interpret(k, o, a, d) = killProcess(a)
      BY <1>4, <2>2 DEF Interpret
    <3> QED BY <2>1, <2>2, <3>1, RPCResults DEF Shape
  <2>3. CASE o = "stat"
    <3>1. Interpret(k, o, a, d) = Plain(normalizeProcessRPCError(a))
      BY <1>4, <2>3 DEF Interpret
    <3> QED BY <2>1, <2>3, <3>1, RPCResults DEF Shape
  <2> QED BY <2>1, <2>2, <2>3
<1>5. CASE k = "content"
  <2>1. o \in {"make", "remove", "stat", "exists"} /\ NotFound(k) = 404 
        /\ a \in {Done(k, o), 404, 409, 500} /\ (o # "make" => a # 409)
        /\ Done(k, o) = IF o = "remove" THEN 204 ELSE 200
    BY <1>5 DEF Ops, Outcomes, Done, NotFound, Already, Failure, HasBody, EnvdKinds
  <2>2. CASE o = "exists"
    <3>1. Interpret(k, o, a, d) = Exists(volumeContent(a, d))
      BY <1>5, <2>2 DEF Interpret
    <3> QED BY <2>1, <2>2, <3>1, HTTPResults DEF Shape
  <2>3. CASE o = "remove"
    <3>1. Interpret(k, o, a, d) = Plain(volumeRemove(a))
      BY <1>5, <2>3 DEF Interpret
    <3> QED BY <2>1, <2>3, <3>1, HTTPResults DEF Shape
  <2>4. CASE o \in {"make", "stat"}
    <3>1. Interpret(k, o, a, d) = Plain(volumeContent(a, d))
      BY <1>5, <2>4 DEF Interpret
    <3> QED BY <2>1, <2>4, <3>1, HTTPResults DEF Shape
  <2> QED BY <2>1, <2>2, <2>3, <2>4
<1>6. CASE k = "directory"
  <2>1. o \in {"make", "remove", "stat", "exists"} /\ NotFound(k) = CodeNotFound 
        /\ a \in {CodeOK, CodeNotFound, CodeAlreadyExists, CodeUnavailable} 
        /\ Done(k, o) = CodeOK /\ Already(k) = CodeAlreadyExists
    BY <1>6 DEF Ops, Outcomes, Done, NotFound, Already, Failure, EnvdKinds
  <2>2. CASE o = "exists"
    <3>1. Interpret(k, o, a, d) = Exists(Stat(a, d))
      BY <1>6, <2>2 DEF Interpret
    <3> QED BY <2>1, <2>2, <3>1, RPCResults DEF Shape
  <2>3. CASE o = "make"
    <3>1. Interpret(k, o, a, d) = MakeDir(a)
      BY <1>6, <2>3 DEF Interpret
    <3> QED BY <2>1, <2>3, <3>1, RPCResults DEF Shape
  <2>4. CASE o = "stat"
    <3>1. Interpret(k, o, a, d) = Plain(Stat(a, d))
      BY <1>6, <2>4 DEF Interpret
    <3> QED BY <2>1, <2>4, <3>1, RPCResults DEF Shape
  <2>5. CASE o = "remove"
    <3>1. Interpret(k, o, a, d) = Plain(normalizeRPCError(a))
      BY <1>6, <2>5 DEF Interpret
    <3> QED BY <2>1, <2>5, <3>1, RPCResults DEF Shape
  <2> QED BY <2>1, <2>2, <2>3, <2>4, <2>5
<1> QED BY <1>0, <1>1, <1>2, <1>3, <1>4, <1>5, <1>6

-----------------------------------------------------------------------------
(* What a service does to the resource of kind k, asked for o, when the
   resource was there or not, and what it answers. *)
LEMMA EffectsAreHonest ==
  ASSUME NEW k \in Kinds, NEW o \in Ops(k), NEW was \in BOOLEAN, NEW e \in Effects(k, o, was)
  PROVE  /\ e[1] \in BOOLEAN /\ e[2] \in Outcomes(k, o)
         /\ e[2] = NotFound(k) => ~was /\ ~e[1]
         /\ e[2] = Already(k) => was /\ e[1] /\ o = "make"
         /\ e[2] = Done(k, o) /\ o \in {"stat", "exists"} => was
         /\ o \in {"stat", "exists"} => e[1] = was
         /\ o = "make" => e[1]
         /\ o = "remove" => ~e[1] \/ k = "process"
         /\ e[2] = Done(k, o) /\ o = "make" /\ o \in Reports(k) => ~was
         /\ e[2] = Done(k, o) /\ o = "remove" /\ o \in Reports(k) => was
<1>0. o \in {"make", "remove", "stat", "exists"}
  BY CodesDistinct
<1>1. CASE o \in {"stat", "exists"}
  <2>1. e = <<was, IF was THEN Done(k, o) ELSE NotFound(k)>>
    BY <1>1 DEF Effects
  <2> QED BY <1>1, <2>1, CodesDistinct DEF Outcomes
<1>2. CASE o = "remove" /\ was
  <2>1. e = <<k = "process", Done(k, o)>>
    BY <1>2 DEF Effects
  <2>2. e[1] = (k = "process") /\ e[2] = Done(k, o)
    BY <2>1
  <2> QED BY <1>2, <2>2, CodesDistinct DEF Outcomes
<1>3. CASE o = "remove" /\ ~was
  <2>1. \/ e = <<FALSE, Done(k, o)>> /\ k \in {"directory", "sandbox"}
        \/ e = <<FALSE, NotFound(k)>>
    BY <1>3 DEF Effects
  <2>2. k \in {"directory", "sandbox"} => "remove" \notin Reports(k)
    BY DEF Reports
  <2>3. CASE e = <<FALSE, Done(k, o)>> /\ k \in {"directory", "sandbox"}
    BY <1>3, <2>2, <2>3, CodesDistinct DEF Outcomes
  <2>4. CASE e = <<FALSE, NotFound(k)>>
    BY <1>3, <2>4, CodesDistinct DEF Outcomes
  <2> QED BY <2>1, <2>3, <2>4
<1>4. CASE o = "make" /\ was
  <2>1. \/ e = <<TRUE, Already(k)>>
        \/ e = <<TRUE, Done(k, o)>> /\ k = "content"
    BY <1>4 DEF Effects
  <2>2. k = "content" => Reports(k) = {}
    BY DEF Reports
  <2>3. CASE e = <<TRUE, Already(k)>>
    BY <1>4, <2>3, CodesDistinct DEF Outcomes
  <2>4. CASE e = <<TRUE, Done(k, o)>> /\ k = "content"
    BY <1>4, <2>2, <2>4, CodesDistinct DEF Outcomes
  <2> QED BY <2>1, <2>3, <2>4
<1>5. CASE o = "make" /\ ~was
  <2>1. e = <<TRUE, Done(k, o)>>
    BY <1>5 DEF Effects
  <2> QED BY <1>5, <2>1, CodesDistinct DEF Outcomes
<1> QED BY <1>0, <1>1, <1>2, <1>3, <1>4, <1>5

(* What serving a call does, whatever it was and however the service failed. *)
Honest(c) ==
  /\ present' \in BOOLEAN 
  /\ code'[c] \in Outcomes(kind, op[c])
  /\ code'[c] = NotFound(kind) => ~present' \/ ~alive
  /\ code'[c] = Already(kind) => present /\ present' /\ op[c] = "make"
  /\ code'[c] = Done(kind, op[c]) /\ op[c] \in {"stat", "exists"} => present
  /\ op[c] \in {"stat", "exists"} => present' = present
  /\ present' # present => code'[c] \notin {NotFound(kind), Already(kind)}
  /\ op[c] = "make" /\ present => present'
  /\ op[c] = "remove" /\ ~present /\ kind # "process" => ~present'
  /\ code'[c] = Done(kind, op[c]) /\ op[c] = "make" /\ op[c] \in Reports(kind) => ~present /\ present'
  /\ code'[c] = Done(kind, op[c]) /\ op[c] = "remove" /\ op[c] \in Reports(kind) /\ kind # "process"
       => present /\ ~present'

(* What a service answers was so when it served the request. *)
LEMMA ServingIsHonest ==
  ASSUME TypeOK, NEW c \in Calls, WireInv(c), Serve(c)
  PROVE  Honest(c)
<1>1. kind \in Kinds /\ op[c] \in Ops(kind) /\ present \in BOOLEAN /\ alive \in BOOLEAN
  BY DEF Serve, TypeOK, WireInv
<1>2. op[c] \in {"make", "remove", "stat", "exists"}
  BY <1>1, CodesDistinct
<1>3. /\ NotFound(kind) \in Outcomes(kind, op[c]) /\ Failure(kind) \in Outcomes(kind, op[c])
      /\ Failure(kind) \notin {NotFound(kind), Already(kind), Done(kind, op[c])}
      /\ NotFound(kind) \notin {Already(kind), Done(kind, op[c])}
      /\ Already(kind) # Done(kind, op[c])
  BY <1>1, CodesDistinct DEF Outcomes
<1>4. PICK e \in IF alive THEN Effects(kind, op[c], present) ELSE {<<present, NotFound(kind)>>} :
        \/ present' = e[1] /\ code' = [code EXCEPT ![c] = e[2]]
        \/ present' \in {present, e[1]} /\ code' = [code EXCEPT ![c] = Failure(kind)]
  BY DEF Serve
<1>5. code \in [Calls -> Codes]
  BY DEF TypeOK
<1>6. \/ present' = e[1] /\ code'[c] = e[2]
      \/ present' \in {present, e[1]} /\ code'[c] = Failure(kind)
  BY <1>4, <1>5
<1>7. CASE ~alive
  <2>1. e[1] = present /\ e[2] = NotFound(kind)
    BY <1>4, <1>7
  <2> QED BY <1>1, <1>3, <1>6, <1>7, <2>1 DEF Honest
<1>8. CASE alive
  <2>1. e \in Effects(kind, op[c], present)
    BY <1>4, <1>8
  <2> HIDE <1>4
  <2>2. /\ e[1] \in BOOLEAN /\ e[2] \in Outcomes(kind, op[c])
        /\ e[2] = NotFound(kind) => ~present /\ ~e[1]
        /\ e[2] = Already(kind) => present /\ e[1] /\ op[c] = "make"
        /\ e[2] = Done(kind, op[c]) /\ op[c] \in {"stat", "exists"} => present
        /\ op[c] \in {"stat", "exists"} => e[1] = present
        /\ op[c] = "make" => e[1]
        /\ op[c] = "remove" => ~e[1] \/ kind = "process"
        /\ e[2] = Done(kind, op[c]) /\ op[c] = "make" /\ op[c] \in Reports(kind) => ~present
        /\ e[2] = Done(kind, op[c]) /\ op[c] = "remove" /\ op[c] \in Reports(kind) => present
    BY <1>1, <2>1, EffectsAreHonest
  <2> QED BY <1>1, <1>2, <1>3, <1>6, <2>2 DEF Honest
<1> QED BY <1>1, <1>7, <1>8

-----------------------------------------------------------------------------
(* The calls' part of the invariant, step by step. *)
LEMMA TypeStep ==
  ASSUME IInv, [Next]_vars
  PROVE  TypeOK'
<1>1. ASSUME NEW c \in Calls, NEW o \in Ops(kind), Send(c, o) PROVE TypeOK'
  <2>1. o \in {"make", "remove", "stat", "exists"}
    BY CodesDistinct DEF IInv, TypeOK
  <2> QED BY <1>1, <2>1 DEF IInv, TypeOK, Send, world, state
<1>2. ASSUME NEW c \in Calls, NEW o \in Ops(kind), Refuse(c, o) PROVE TypeOK'
  <2>1. o \in {"make", "remove", "stat", "exists"}
    BY CodesDistinct DEF IInv, TypeOK
  <2>2. {ErrSandboxDestroyed, ErrRequest, ErrInputMode} \subseteq Errors
    BY DEF Errors, Refusals
  <2>3. PICK e \in {ErrSandboxDestroyed, ErrRequest, ErrInputMode} : Return(c, Answer(FALSE, e))
    BY <1>2 DEF Refuse
  <2>4. Answer(FALSE, e) \in {a \in [ok : BOOLEAN, err : Errors] : a.ok => a.err = OK}
    BY <2>2 DEF Answer
  <2> QED BY <1>2, <2>1, <2>3, <2>4 DEF IInv, TypeOK, Refuse, Return, world, state, wire
<1>3. ASSUME NEW c \in Calls, CancelCtx(c) PROVE TypeOK'
  BY <1>3 DEF IInv, TypeOK, CancelCtx, world, state, wire
<1>4. ASSUME NEW c \in Calls, Receive(c) PROVE TypeOK'
  <2>1. PICK d \in BOOLEAN : Return(c, Interpret(kind, op[c], code[c], d))
    BY <1>4 DEF Receive
  <2>2. /\ kind \in Kinds /\ op[c] \in Ops(kind) /\ code[c] \in Outcomes(kind, op[c])
        /\ code[c] = Already(kind) => op[c] = "make"
    BY <1>4 DEF Receive, IInv, TypeOK, CallInv, WireInv
  <2>3. Interpret(kind, op[c], code[c], d) \in {a \in [ok : BOOLEAN, err : Errors] : a.ok => a.err = OK}
    BY <2>2, Interpretation DEF Faithful
  <2> QED BY <1>4, <2>1, <2>3 DEF IInv, TypeOK, Receive, Return, world, state, wire
<1>5. ASSUME NEW c \in Calls, Unanswered(c) PROVE TypeOK'
  <2>1. ErrTransport \in Errors
    BY DEF Errors
  <2> QED BY <1>5, <2>1 DEF IInv, TypeOK, Unanswered, Return, Answer, world, state, wire
<1>6. ASSUME NEW c \in Calls, Serve(c) PROVE TypeOK'
  <2>1. Honest(c) /\ kind \in Kinds /\ op[c] \in Ops(kind)
    BY <1>6, ServingIsHonest DEF IInv, TypeOK, CallInv, WireInv, Serve
  <2>2. present' \in BOOLEAN /\ Outcomes(kind, op[c]) \subseteq Codes
    BY <2>1, CodesDistinct DEF Honest
  <2>3. \E x : code' = [code EXCEPT ![c] = x]
    BY <1>6 DEF Serve
  <2>4. code' \in [Calls -> Codes]
    BY <2>1, <2>2, <2>3 DEF IInv, TypeOK, Honest
  <2>5. seen' \in [Calls -> SUBSET BOOLEAN]
    BY <1>6, <2>2 DEF IInv, TypeOK, Serve
  <2>6. request' \in [Calls -> {"unsent", "sent", "served"}]
    BY <1>6 DEF IInv, TypeOK, Serve
  <2> QED BY <1>6, <2>2, <2>4, <2>5, <2>6 DEF IInv, TypeOK, Serve, world, call
<1>7. ASSUME Exits PROVE TypeOK'
  BY <1>7 DEF IInv, TypeOK, Exits, world, call, wire
<1>8. ASSUME Ceases \/ Destroys PROVE TypeOK'
  BY <1>8 DEF IInv, TypeOK, Ceases, Destroys, world, call, wire
<1>9. ASSUME UNCHANGED vars PROVE TypeOK'
  BY <1>9 DEF IInv, TypeOK, vars, world, state, call, wire
<1> QED BY <1>1, <1>2, <1>3, <1>4, <1>5, <1>6, <1>7, <1>8, <1>9 DEF Next, Terminated

(* A step that leaves a call alone. *)
LEMMA CallKept ==
  ASSUME TypeOK, NEW c \in Calls, CallInv(c), UNCHANGED world,
         phase'[c] = phase[c], op'[c] = op[c], result'[c] = result[c], request'[c] = request[c],
         code'[c] = code[c], seen'[c] = seen[c] \/ (phase[c] = "waiting" /\ seen[c] \subseteq seen'[c]),
         phase[c] = "waiting" => present' \in seen'[c],
         alive' => alive
  PROVE  CallInv(c)'
<1> USE DEF world, Returned, SaysAbsent, SaysPresent
<1>1. kind' = kind /\ alive \in BOOLEAN
  BY DEF TypeOK
<1>2. WireInv(c)'
  BY <1>1 DEF CallInv, WireInv
<1>3. HonestInv(c)'
  BY <1>1 DEF CallInv, HonestInv
<1>4. TrueInv(c)'
  BY <1>1 DEF CallInv, TrueInv
<1>5. ResultInv(c)'
  BY <1>1 DEF CallInv, ResultInv
<1> QED BY <1>2, <1>3, <1>4, <1>5 DEF CallInv

(* A call with no answer yet concludes nothing, but for what it is refused. *)
LEMMA CallStep ==
  ASSUME IInv, [Next]_vars, NEW d \in Calls
  PROVE  CallInv(d)'
<1>0. TypeOK /\ CallInv(d)
  BY DEF IInv
<1>1. ASSUME NEW c \in Calls, NEW o \in Ops(kind), Send(c, o) PROVE CallInv(d)'
  <2>1. CASE d = c
    <3>1. /\ phase'[c] = "waiting" /\ request'[c] = "sent" /\ op'[c] = o /\ seen'[c] = {present}
          /\ present' = present /\ kind' = kind
      BY <1>0, <1>1 DEF Send, TypeOK, world, state
    <3> QED BY <2>1, <3>1 DEF CallInv, WireInv, HonestInv, TrueInv, ResultInv, Returned
  <2>2. CASE d # c
    <3>1. /\ UNCHANGED world /\ phase'[d] = phase[d] /\ op'[d] = op[d] /\ result'[d] = result[d]
          /\ request'[d] = request[d] /\ code'[d] = code[d] /\ seen'[d] = seen[d]
          /\ present' = present /\ alive' = alive
      BY <1>0, <1>1, <2>2 DEF Send, TypeOK, state
    <3> QED BY <1>0, <3>1, CallKept DEF CallInv, WireInv
  <2> QED BY <2>1, <2>2
<1>2. ASSUME NEW c \in Calls, NEW o \in Ops(kind), Refuse(c, o) PROVE CallInv(d)'
  <2>1. CASE d = c
    <3>1. PICK e \in Refusals : Return(c, Answer(FALSE, e))
      BY <1>2 DEF Refuse, Refusals
    <3>2. /\ phase'[c] = "returned" /\ request'[c] = "unsent" 
          /\ result'[c] = [ok |-> FALSE, err |-> e]
      BY <1>0, <1>2, <2>1, <3>1 DEF Refuse, Return, Answer, TypeOK, CallInv, WireInv, wire
    <3>3. e \notin Sentinels /\ e # OK
      BY NamesDistinct
    <3>4. ~SaysAbsent(c)' /\ ~SaysPresent(c)' /\ ~result'[c].ok
      BY <3>2, <3>3 DEF SaysAbsent, SaysPresent
    <3> QED BY <2>1, <3>2, <3>4 DEF CallInv, WireInv, HonestInv, TrueInv, ResultInv
  <2>2. CASE d # c
    <3>1. /\ UNCHANGED world /\ phase'[d] = phase[d] /\ op'[d] = op[d] /\ result'[d] = result[d]
          /\ request'[d] = request[d] /\ code'[d] = code[d] /\ seen'[d] = seen[d]
          /\ present' = present /\ alive' = alive
      <4>1. \E answer : Return(c, answer)
        BY <1>2 DEF Refuse
      <4> QED BY <1>0, <1>2, <2>2, <4>1 DEF Refuse, Return, TypeOK, state, wire
    <3> QED BY <1>0, <3>1, CallKept DEF CallInv, WireInv
  <2> QED BY <2>1, <2>2
<1>3. ASSUME NEW c \in Calls, CancelCtx(c) PROVE CallInv(d)'
  <2>1. /\ UNCHANGED world /\ phase'[d] = phase[d] /\ op'[d] = op[d] /\ result'[d] = result[d]
        /\ request'[d] = request[d] /\ code'[d] = code[d] /\ seen'[d] = seen[d]
        /\ present' = present /\ alive' = alive
    BY <1>3 DEF CancelCtx, state, wire
  <2> QED BY <1>0, <2>1, CallKept DEF CallInv, WireInv
<1>4. ASSUME NEW c \in Calls, Receive(c) PROVE CallInv(d)'
  <2>1. CASE d = c
    <3>1. PICK x \in BOOLEAN : Return(c, Interpret(kind, op[c], code[c], x))
      BY <1>4 DEF Receive
    <3>2. /\ kind \in Kinds /\ op[c] \in Ops(kind) /\ code[c] \in Outcomes(kind, op[c])
          /\ code[c] = Already(kind) => op[c] = "make"
      BY <1>0, <1>4, <2>1 DEF Receive, TypeOK, CallInv, WireInv
    <3> DEFINE r == Interpret(kind, op[c], code[c], x)
    <3>3. Faithful(kind, op[c], code[c], r)
      BY <3>2, Interpretation
    <3> HIDE DEF r
    <3>4. /\ phase[c] = "waiting" /\ request[c] = "served"
          /\ phase'[c] = "returned" /\ result'[c] = r
          /\ kind' = kind /\ op'[c] = op[c] /\ request'[c] = request[c] /\ code'[c] = code[c]
          /\ seen'[c] = seen[c] /\ alive' = alive
      BY <1>0, <1>4, <3>1 DEF r, Receive, Return, TypeOK, world, state, wire
    <3>5. /\ r.ok \in BOOLEAN
          /\ r.ok /\ op[c] \in Reports(kind) => code[c] = Done(kind, op[c])
          /\ r.ok /\ op[c] \in {"stat", "exists"} => code[c] = Done(kind, op[c])
          /\ Negative(r) => code[c] \in {NotFound(kind), Already(kind)}
          /\ r.err \in Sentinels => code[c] = NotFound(kind)
          /\ r.err = OK /\ ~r.ok /\ op[c] \in {"remove", "exists"} => code[c] = NotFound(kind)
          /\ r.err = OK /\ ~r.ok /\ op[c] = "make" => code[c] = Already(kind)
      BY <3>3 DEF Faithful
    <3>6. WireInv(c)'
      BY <1>0, <2>1, <3>4 DEF CallInv, WireInv
    <3>7. HonestInv(c)' 
      BY <3>4 DEF HonestInv
    <3>8. TrueInv(c)'
      BY <1>0, <2>1, <3>4, <3>5 DEF CallInv, HonestInv, TrueInv, Returned, SaysAbsent, SaysPresent
    <3>9. ResultInv(c)'
      BY <3>4, <3>5 DEF ResultInv, Returned
    <3> QED BY <2>1, <3>6, <3>7, <3>8, <3>9 DEF CallInv
  <2>2. CASE d # c
    <3>1. /\ UNCHANGED world /\ phase'[d] = phase[d] /\ op'[d] = op[d] /\ result'[d] = result[d]
          /\ request'[d] = request[d] /\ code'[d] = code[d] /\ seen'[d] = seen[d]
          /\ present' = present /\ alive' = alive
      BY <1>0, <1>4, <2>2 DEF Receive, Return, TypeOK, state, wire
    <3> QED BY <1>0, <3>1, CallKept DEF CallInv, WireInv
  <2> QED BY <2>1, <2>2
<1>5. ASSUME NEW c \in Calls, Unanswered(c) PROVE CallInv(d)'
  <2>1. CASE d = c
    <3>1. ErrTransport \notin Sentinels \cup Refusals /\ ErrTransport # OK
      BY NamesDistinct
    <3>2. /\ phase[c] = "waiting" /\ phase'[c] = "returned" 
          /\ result'[c] = [ok |-> FALSE, err |-> ErrTransport]
          /\ kind' = kind /\ op'[c] = op[c] /\ request'[c] = request[c] /\ code'[c] = code[c]
      BY <1>0, <1>5 DEF Unanswered, Return, Answer, TypeOK, world, wire
    <3>3. ~Negative(result[c])' /\ ~SaysAbsent(c)' /\ ~SaysPresent(c)' /\ ~result'[c].ok
      BY <3>1, <3>2 DEF Negative, SaysAbsent, SaysPresent
    <3>4. WireInv(c)'
      BY <1>0, <2>1, <3>2 DEF CallInv, WireInv
    <3> QED BY <2>1, <3>2, <3>3, <3>4 DEF CallInv, HonestInv, TrueInv, ResultInv
  <2>2. CASE d # c
    <3>1. /\ UNCHANGED world /\ phase'[d] = phase[d] /\ op'[d] = op[d] /\ result'[d] = result[d]
          /\ request'[d] = request[d] /\ code'[d] = code[d] /\ seen'[d] = seen[d]
          /\ present' = present /\ alive' = alive
      BY <1>0, <1>5, <2>2 DEF Unanswered, Return, TypeOK, state, wire
    <3> QED BY <1>0, <3>1, CallKept DEF CallInv, WireInv
  <2> QED BY <2>1, <2>2
<1>6. ASSUME NEW c \in Calls, Serve(c) PROVE CallInv(d)'
  <2>1. /\ UNCHANGED world /\ phase'[d] = phase[d] /\ op'[d] = op[d] /\ result'[d] = result[d]
        /\ alive' = alive
        /\ phase[d] = "waiting" => seen'[d] = seen[d] \cup {present'}
        /\ phase[d] # "waiting" => seen'[d] = seen[d]
    BY <1>0, <1>6 DEF Serve, TypeOK, call
  <2>2. CASE d = c
    <3>1. /\ request[c] = "sent" /\ request'[c] = "served" /\ Honest(c)
      BY <1>0, <1>6, <2>2, ServingIsHonest DEF Serve, TypeOK, CallInv
    <3>2. kind' = kind /\ op'[c] = op[c] /\ op[c] \in Ops(kind) /\ present \in BOOLEAN
      BY <1>0, <2>1, <2>2, <3>1 DEF CallInv, WireInv, TypeOK, world
    <3>3. WireInv(c)'
      BY <1>0, <2>1, <2>2, <3>1, <3>2 DEF CallInv, WireInv, Honest
    <3>4. HonestInv(c)'
      BY <1>0, <2>1, <2>2, <3>1, <3>2 DEF CallInv, WireInv, HonestInv, Honest
    <3>5. TrueInv(c)' 
      BY <1>0, <2>1, <2>2, <3>2 DEF CallInv, TrueInv, Returned, SaysAbsent, SaysPresent
    <3>6. ResultInv(c)'
      BY <1>0, <2>1, <2>2, <3>1, <3>2 DEF CallInv, ResultInv, Returned
    <3> QED BY <2>2, <3>3, <3>4, <3>5, <3>6 DEF CallInv
  <2>3. CASE d # c
    <3>1. \E x : code' = [code EXCEPT ![c] = x]
      BY <1>6 DEF Serve
    <3>2. request'[d] = request[d] /\ code'[d] = code[d]
      BY <1>0, <1>6, <2>3, <3>1 DEF Serve, TypeOK
    <3> QED BY <1>0, <2>1, <3>2, CallKept
  <2> QED BY <2>2, <2>3
<1>7. ASSUME Exits PROVE CallInv(d)'
  <2>1. /\ UNCHANGED world /\ phase'[d] = phase[d] /\ op'[d] = op[d] /\ result'[d] = result[d]
        /\ request'[d] = request[d] /\ code'[d] = code[d] /\ alive' = alive
        /\ phase[d] = "waiting" => seen'[d] = seen[d] \cup {present'}
        /\ phase[d] # "waiting" => seen'[d] = seen[d]
    BY <1>0, <1>7 DEF Exits, TypeOK, call, wire
  <2> QED BY <1>0, <2>1, CallKept
<1>8. ASSUME Ceases \/ Destroys PROVE CallInv(d)'
  <2>1. /\ UNCHANGED world /\ phase'[d] = phase[d] /\ op'[d] = op[d] /\ result'[d] = result[d]
        /\ request'[d] = request[d] /\ code'[d] = code[d] /\ seen'[d] = seen[d]
        /\ present' = present /\ (alive' => alive)
    BY <1>8 DEF Ceases, Destroys, call, wire
  <2> QED BY <1>0, <2>1, CallKept DEF CallInv, WireInv
<1>9. ASSUME UNCHANGED vars PROVE CallInv(d)'
  <2>1. /\ UNCHANGED world /\ phase'[d] = phase[d] /\ op'[d] = op[d] /\ result'[d] = result[d]
        /\ request'[d] = request[d] /\ code'[d] = code[d] /\ seen'[d] = seen[d]
        /\ present' = present /\ alive' = alive
    BY <1>9 DEF vars, call, wire, state
  <2> QED BY <1>0, <2>1, CallKept DEF CallInv, WireInv
<1> QED BY <1>1, <1>2, <1>3, <1>4, <1>5, <1>6, <1>7, <1>8, <1>9 DEF Next, Terminated

-----------------------------------------------------------------------------
(* The books.  Only an answered request is in them. *)
LEMMA BooksAreFinite ==
  ASSUME NEW o
  PROVE  /\ IsFiniteSet(Sure(o)) /\ Cardinality(Sure(o)) \in Nat
         /\ IsFiniteSet(Maybe(o)) /\ Cardinality(Maybe(o)) \in Nat
<1>1. Sure(o) \subseteq Calls /\ Maybe(o) \subseteq Calls
  BY DEF Sure, Maybe
<1>2. IsFiniteSet(Sure(o)) /\ IsFiniteSet(Maybe(o))
  BY <1>1, RequestsAssumption, FS_Subset
<1> QED BY <1>2, FS_CardinalityType

(* Only serving a request changes the books. *)
LEMMA BooksKept ==
  ASSUME BooksInv, kind' = kind, initial' = initial, present' = present \/ kind = "process",
         \A c \in Calls : request[c] = "served" \/ request'[c] = "served" =>
                         request'[c] = request[c] /\ op'[c] = op[c] /\ code'[c] = code[c]
  PROVE  BooksInv'
<1>1. /\ Sure("make")' = Sure("make") /\ Sure("remove")' = Sure("remove")
      /\ Maybe("make")' = Maybe("make") /\ Maybe("remove")' = Maybe("remove")
  BY DEF Sure, Maybe
<1> QED BY <1>1 DEF BooksInv, There

(* A request enters the books when it is served. *)
LEMMA Entry ==
  ASSUME TypeOK, NEW c \in Calls, Serve(c), NEW o
  PROVE  /\ Cardinality(Sure(o)') = Cardinality(Sure(o)) + 
              (IF op[c] = o /\ o \in Reports(kind) /\ code'[c] = Done(kind, o) THEN 1 ELSE 0)
         /\ Cardinality(Maybe(o)') = Cardinality(Maybe(o)) + 
              (IF op[c] = o /\ code'[c] \notin {NotFound(kind), Already(kind)} THEN 1 ELSE 0)
<1>1. /\ kind' = kind /\ op' = op
      /\ request' = [request EXCEPT ![c] = "served"] /\ request[c] = "sent"
      /\ \E x : code' = [code EXCEPT ![c] = x]
  BY DEF Serve, world, call
<1>2. \A d \in Calls : d # c => request'[d] = request[d] /\ code'[d] = code[d]
  BY <1>1 DEF TypeOK
<1>3. request'[c] = "served"
  BY <1>1 DEF TypeOK
<1>4. c \notin Sure(o) /\ c \notin Maybe(o)
  BY <1>1 DEF Sure, Maybe
<1>5. Cardinality(Sure(o)') = Cardinality(Sure(o)) + 
        (IF op[c] = o /\ o \in Reports(kind) /\ code'[c] = Done(kind, o) THEN 1 ELSE 0)
  <2>1. CASE op[c] = o /\ o \in Reports(kind) /\ code'[c] = Done(kind, o)
    <3>1. Sure(o)' = Sure(o) \cup {c}
      BY <1>1, <1>2, <1>3, <2>1 DEF Sure
    <3>2. Cardinality(Sure(o) \cup {c}) = Cardinality(Sure(o)) + 1
      BY <1>4, BooksAreFinite, FS_AddElement
    <3> QED BY <2>1, <3>1, <3>2
  <2>2. CASE ~(op[c] = o /\ o \in Reports(kind) /\ code'[c] = Done(kind, o))
    <3>1. Sure(o)' = Sure(o)
      BY <1>1, <1>2, <1>4, <2>2 DEF Sure
    <3> QED BY <2>2, <3>1, BooksAreFinite
  <2> QED BY <2>1, <2>2
<1>6. Cardinality(Maybe(o)') = Cardinality(Maybe(o)) + 
        (IF op[c] = o /\ code'[c] \notin {NotFound(kind), Already(kind)} THEN 1 ELSE 0)
  <2>1. CASE op[c] = o /\ code'[c] \notin {NotFound(kind), Already(kind)}
    <3>1. Maybe(o)' = Maybe(o) \cup {c}
      BY <1>1, <1>2, <1>3, <2>1 DEF Maybe
    <3>2. Cardinality(Maybe(o) \cup {c}) = Cardinality(Maybe(o)) + 1
      BY <1>4, BooksAreFinite, FS_AddElement
    <3> QED BY <2>1, <3>1, <3>2
  <2>2. CASE ~(op[c] = o /\ code'[c] \notin {NotFound(kind), Already(kind)})
    <3>1. Maybe(o)' = Maybe(o)
      BY <1>1, <1>2, <1>4, <2>2 DEF Maybe
    <3> QED BY <2>2, <3>1, BooksAreFinite
  <2> QED BY <2>1, <2>2
<1> QED BY <1>5, <1>6

(* Serving a request changes the resource and the books alike. *)
LEMMA ServingIsBooked ==
  ASSUME IInv, NEW c \in Calls, Serve(c)
  PROVE  BooksInv'
<1>1. TypeOK /\ WireInv(c) /\ BooksInv /\ kind' = kind /\ initial' = initial
  BY DEF IInv, CallInv, Serve, world
<1>2. SUFFICES ASSUME kind # "process" PROVE BooksInv'
  BY <1>1 DEF BooksInv
<1>3. Honest(c)
  BY <1>1, ServingIsHonest
<1>4. /\ kind \in Kinds /\ op[c] \in Ops(kind) 
      /\ present \in BOOLEAN /\ present' \in BOOLEAN /\ initial \in BOOLEAN
  BY <1>1, <1>3 DEF Serve, TypeOK, WireInv, Honest
<1>5. /\ op[c] \in {"make", "remove", "stat", "exists"}
      /\ Done(kind, op[c]) \notin {NotFound(kind), Already(kind)}
  BY <1>4, CodesDistinct
<1> DEFINE a == code'[c]
           sm == Cardinality(Sure("make"))   sr == Cardinality(Sure("remove"))
           mm == Cardinality(Maybe("make"))  mr == Cardinality(Maybe("remove"))
           was == There(present)  now == There(present')  first == There(initial)
<1>6. /\ sm \in Nat /\ sr \in Nat /\ mm \in Nat /\ mr \in Nat
  BY BooksAreFinite
<1>7. /\ was \in Int /\ now \in Int /\ first \in Int
      /\ present' = present => now = was
      /\ ~present /\ present' => now = was + 1
      /\ present /\ ~present' => now = was - 1
  BY <1>4 DEF There
<1>8. sm - mr <= was - first /\ was - first <= mm - sr
  BY <1>1, <1>2 DEF BooksInv
<1>9. /\ Cardinality(Sure("make")') = 
           sm + (IF op[c] = "make" /\ "make" \in Reports(kind) /\ a = Done(kind, "make") THEN 1 ELSE 0)
      /\ Cardinality(Sure("remove")') = 
           sr + (IF op[c] = "remove" /\ "remove" \in Reports(kind) /\ a = Done(kind, "remove") THEN 1 ELSE 0)
      /\ Cardinality(Maybe("make")') = 
           mm + (IF op[c] = "make" /\ a \notin {NotFound(kind), Already(kind)} THEN 1 ELSE 0)
      /\ Cardinality(Maybe("remove")') = 
           mr + (IF op[c] = "remove" /\ a \notin {NotFound(kind), Already(kind)} THEN 1 ELSE 0)
  BY <1>1, Entry
<1> HIDE DEF a, sm, sr, mm, mr, was, now, first
<1>10. /\ op[c] \in {"stat", "exists"} => present' = present
       /\ present' # present => a \notin {NotFound(kind), Already(kind)}
       /\ op[c] = "make" /\ present => present'
       /\ op[c] = "remove" /\ ~present => ~present'
       /\ a = Done(kind, op[c]) /\ op[c] = "make" /\ op[c] \in Reports(kind) => ~present /\ present'
       /\ a = Done(kind, op[c]) /\ op[c] = "remove" /\ op[c] \in Reports(kind) => present /\ ~present'
  BY <1>2, <1>3 DEF Honest, a
<1>11. /\ Cardinality(Sure("make")') - Cardinality(Maybe("remove")') <= now - first
       /\ now - first <= Cardinality(Maybe("make")') - Cardinality(Sure("remove")')
  <2>1. CASE op[c] \in {"stat", "exists"}
    BY <1>4, <1>6, <1>7, <1>8, <1>9, <1>10, <2>1
  <2>2. CASE op[c] = "make"
    <3>1. CASE a = Done(kind, "make") /\ "make" \in Reports(kind)
      BY <1>4, <1>5, <1>6, <1>7, <1>8, <1>9, <1>10, <2>2, <3>1
    <3>2. CASE ~(a = Done(kind, "make") /\ "make" \in Reports(kind))
      BY <1>4, <1>5, <1>6, <1>7, <1>8, <1>9, <1>10, <2>2, <3>2
    <3> QED BY <3>1, <3>2
  <2>3. CASE op[c] = "remove"
    <3>1. CASE a = Done(kind, "remove") /\ "remove" \in Reports(kind)
      BY <1>4, <1>5, <1>6, <1>7, <1>8, <1>9, <1>10, <2>3, <3>1
    <3>2. CASE ~(a = Done(kind, "remove") /\ "remove" \in Reports(kind))
      BY <1>4, <1>5, <1>6, <1>7, <1>8, <1>9, <1>10, <2>3, <3>2
    <3> QED BY <3>1, <3>2
  <2> QED BY <1>5, <2>1, <2>2, <2>3
<1> QED BY <1>1, <1>11 DEF BooksInv, now, first, There

(* The books balance after every step. *)
LEMMA BooksStep ==
  ASSUME IInv, [Next]_vars
  PROVE  BooksInv'
<1>0. TypeOK /\ BooksInv /\ \A c \in Calls : WireInv(c)
  BY DEF IInv, CallInv
<1>1. ASSUME NEW c \in Calls, NEW o \in Ops(kind), Send(c, o) \/ Refuse(c, o) PROVE BooksInv'
  <2>1. /\ kind' = kind /\ initial' = initial /\ present' = present /\ code' = code
        /\ request[c] = "unsent" /\ request'[c] # "served"
        /\ \A d \in Calls : d # c => request'[d] = request[d] /\ op'[d] = op[d]
    BY <1>0, <1>1 DEF Send, Refuse, WireInv, TypeOK, world, state, wire
  <2> QED BY <1>0, <2>1, BooksKept
<1>2. ASSUME NEW c \in Calls, CancelCtx(c) \/ Receive(c) \/ Unanswered(c) PROVE BooksInv'
  <2>1. kind' = kind /\ initial' = initial /\ present' = present /\ UNCHANGED <<op, code, request>>
    BY <1>2 DEF CancelCtx, Receive, Unanswered, world, state, wire
  <2> QED BY <1>0, <2>1, BooksKept
<1>3. ASSUME NEW c \in Calls, Serve(c) PROVE BooksInv'
  BY <1>3, ServingIsBooked
<1>4. ASSUME Exits PROVE BooksInv'
  <2>1. kind' = kind /\ initial' = initial /\ kind = "process" /\ UNCHANGED <<op, code, request>>
    BY <1>4 DEF Exits, world, call, wire
  <2> QED BY <1>0, <2>1, BooksKept
<1>5. ASSUME Ceases \/ Destroys PROVE BooksInv'
  <2>1. kind' = kind /\ initial' = initial /\ present' = present /\ UNCHANGED <<op, code, request>>
    BY <1>5 DEF Ceases, Destroys, world, call, wire
  <2> QED BY <1>0, <2>1, BooksKept
<1>6. ASSUME UNCHANGED vars PROVE BooksInv'
  <2>1. kind' = kind /\ initial' = initial /\ present' = present /\ UNCHANGED <<op, code, request>>
    BY <1>6 DEF vars, world, state, call, wire
  <2> QED BY <1>0, <2>1, BooksKept
<1> QED BY <1>1, <1>2, <1>3, <1>4, <1>5, <1>6 DEF Next, Terminated

-----------------------------------------------------------------------------
(* The inductive invariant holds initially. *)
LEMMA InitInv ==
  ASSUME Init
  PROVE  IInv
<1>1. TypeOK
  <2>1. Answer(FALSE, OK) \in {a \in [ok : BOOLEAN, err : Errors] : a.ok => a.err = OK}
    BY DEF Answer, Errors
  <2> QED BY <2>1 DEF Init, TypeOK, Codes
<1>2. ASSUME NEW c \in Calls PROVE CallInv(c)
  BY <1>2 DEF Init, CallInv, WireInv, HonestInv, TrueInv, ResultInv, Returned
<1>3. Sure("make") = {} /\ Sure("remove") = {} /\ Maybe("make") = {} /\ Maybe("remove") = {}
  BY DEF Init, Sure, Maybe
<1>4. There(present) \in Int /\ There(present) = There(initial)
  BY DEF Init, There
<1>5. BooksInv
  BY <1>3, <1>4, FS_EmptySet DEF BooksInv
<1> QED BY <1>1, <1>2, <1>5 DEF IInv

(* The invariant of all these is inductive. *)
THEOREM Invariance == Spec => []IInv
<1>1. IInv /\ [Next]_vars => IInv'
  BY TypeStep, CallStep, BooksStep DEF IInv
<1> QED BY <1>1, InitInv, PTL DEF Spec

(* Every variable has its type: no call returns true with an error. *)
THEOREM TypeCorrect == Spec => []TypeOK
<1>1. IInv => TypeOK
  BY DEF IInv
<1> QED BY <1>1, Invariance, PTL

(* What a call says of a resource (volume.go:189-226, filesystem.go:113-147,
   process.go:627-645, control.go:154-171) was true while it ran, however many 
   calls there are. *)
THEOREM AnswersTellTheTruth == Spec => []AnswersAreTrue
<1>1. IInv => AnswersAreTrue
  BY DEF IInv, CallInv, TrueInv, AnswersAreTrue
<1> QED BY <1>1, Invariance, PTL

(* The booleans of DestroyVolume, DeleteSnapshot, Pause and MakeDir account for
   every change: the calls that report one are among those the service did it
   for, and these among the calls that may have done one. *)
THEOREM BooksBalance == Spec => []ReportsBalance
<1>1. ASSUME IInv PROVE ReportsBalance
  <2>1. ASSUME NEW o PROVE Reporting(o) \subseteq Sure(o) /\ Maybe(o) \subseteq Possible(o)
    <3>1. Reporting(o) \subseteq Sure(o)
      BY <1>1 DEF IInv, CallInv, ResultInv, Reporting, Sure
    <3>2. Maybe(o) \subseteq Possible(o)
      BY <1>1 DEF IInv, CallInv, WireInv, ResultInv, Negative, Maybe, Possible
    <3> QED BY <3>1, <3>2
  <2>2. ASSUME NEW o PROVE /\ Cardinality(Reporting(o)) \in Nat /\ Cardinality(Possible(o)) \in Nat
                           /\ Cardinality(Reporting(o)) <= Cardinality(Sure(o))
                           /\ Cardinality(Maybe(o)) <= Cardinality(Possible(o))
    <3>1. Reporting(o) \subseteq Calls /\ Possible(o) \subseteq Calls
      BY DEF Reporting, Possible
    <3>2. IsFiniteSet(Reporting(o)) /\ IsFiniteSet(Possible(o))
      BY <3>1, RequestsAssumption, FS_Subset
    <3> QED BY <2>1, <3>2, BooksAreFinite, FS_Subset, FS_CardinalityType
  <2>3. There(present) \in Int /\ There(initial) \in Int
    BY DEF There
  <2>4. kind # "process" =>
          /\ Cardinality(Sure("make")) - Cardinality(Maybe("remove")) <= There(present) - There(initial)
          /\ There(present) - There(initial) <= Cardinality(Maybe("make")) - Cardinality(Sure("remove"))
    BY <1>1 DEF IInv, BooksInv
  <2> HIDE DEF There
  <2> QED BY <2>2, <2>3, <2>4, BooksAreFinite DEF ReportsBalance
<1> QED BY <1>1, Invariance, PTL
-----------------------------------------------------------------------------
(* Giving up ends a call, and a call that waits with a limit goes on to do so
   until it has returned: if it can give up, it comes to an end.  Of ENABLED
   the proof uses nothing but the hypothesis. *)
THEOREM CallsComeToAnEnd == FairSpec /\ []LimitedCanGiveUp => CallsReturn
<1>1. ASSUME NEW c \in Calls
      PROVE  FairSpec /\ []LimitedCanGiveUp => (Limited(c) ~> Returned(c))
  <2>1. TypeOK /\ <<GiveUp(c)>>_vars => Returned(c)'
    BY DEF GiveUp, Unanswered, Return, Returned, TypeOK
  <2>2. TypeOK /\ Limited(c) /\ [Next]_vars => Limited(c)' \/ Returned(c)'
    <3> SUFFICES ASSUME TypeOK, Limited(c), [Next]_vars PROVE Limited(c)' \/ Returned(c)'
      OBVIOUS
    <3> USE DEF TypeOK, Limited, Returned, world, state, call, wire
    <3>1. ASSUME NEW d \in Calls, NEW o, Send(d, o) PROVE Limited(c)' \/ Returned(c)'
      BY <3>1 DEF Send
    <3>2. ASSUME NEW d \in Calls, NEW o, Refuse(d, o) PROVE Limited(c)' \/ Returned(c)'
      BY <3>2 DEF Refuse, Return
    <3>3. ASSUME NEW d \in Calls, CancelCtx(d) PROVE Limited(c)' \/ Returned(c)'
      BY <3>3 DEF CancelCtx
    <3>4. ASSUME NEW d \in Calls, Receive(d) \/ Unanswered(d) PROVE Limited(c)' \/ Returned(c)'
      BY <3>4 DEF Receive, Unanswered, Return
    <3>5. ASSUME NEW d \in Calls, Serve(d) PROVE Limited(c)' \/ Returned(c)'
      BY <3>5 DEF Serve
    <3>6. CASE Exits \/ Ceases \/ Destroys
      BY <3>6 DEF Exits, Ceases, Destroys
    <3>7. CASE UNCHANGED vars
      BY <3>7 DEF vars
    <3> QED BY <3>1, <3>2, <3>3, <3>4, <3>5, <3>6, <3>7 DEF Next, Terminated
  <2>3. LimitedCanGiveUp => (Limited(c) => ENABLED <<GiveUp(c)>>_vars)
    BY DEF LimitedCanGiveUp
  <2>4. Fairness => Expires(c)
    BY DEF Fairness
  <2> QED BY <2>1, <2>2, <2>3, <2>4, TypeCorrect, PTL DEF FairSpec, Spec, Expires
<1> QED BY <1>1 DEF CallsReturn
=============================================================================
