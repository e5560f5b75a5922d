-------------------------------- MODULE Files --------------------------------
(***************************************************************************)
(* Sandbox.ReadFile and Sandbox.ListFiles with their shell fallbacks: two  *)
(* attempts on a tree that others change meanwhile, each admitted by the   *)
(* handle on its own.  The handle is the abstract one of SandboxContract,  *)
(* which Sandbox implements; an attempt is one of its users.               *)
(*                                                                         *)
(* A listing is not a snapshot: the directory is read once, then its       *)
(* entries are visited one at a time.  envd, cat and find are external.    *)
(***************************************************************************)
EXTENDS Integers, FiniteSets

CONSTANTS Calls,       \* of ReadFile for File, or of ListFiles for its directory
          Destroyers,  \* calls of Destroy
          Nobody,
          Paths,       \* what may be in the directory
          Deep,        \* the paths more than 32 levels below it
          File,
          Contents,    \* of regular files
          Folder,      \* an entry that is no regular file
          Absent,      \* no entry
          Missing,     \* the tree without the directory itself
          MaxEdits     \* bound: changes of the tree

Ways     == {"rpc", "shell"}
Attempts == Calls \X Ways
Entries  == Contents \cup {Folder, Absent}
Trees    == [Paths -> Entries] \cup {Missing}

ASSUME FilesAssumption ==
  /\ Destroyers \cap Attempts = {}
  /\ Nobody \notin Destroyers \cup Attempts
  /\ File \in Paths /\ Deep \subseteq Paths
  /\ Folder \notin Contents /\ Absent \notin Contents \cup {Folder}
  /\ Missing \notin [Paths -> Entries]
  /\ MaxEdits \in Nat

ErrFileNotFound     == "ErrFileNotFound"
ErrSandboxDestroyed == "ErrSandboxDestroyed"
ErrOther            == "rpc, status or exit code"
ErrTransport        == "not answered"
Errors              == {ErrFileNotFound, ErrSandboxDestroyed, ErrOther, ErrTransport}

VARIABLES
  owner, closed, gone, installed, verdict,  \* of the handle
  allowShellFallback,  \* of the handle, fixed when it was made
  tree,                \* the files
  edits,               \* number of changes so far
  kind,                \* "read" or "list"
  phase,               \* "idle", in an attempt ("rpc", "shell"), "retry", "returned"
  request,             \* of an attempt: "unsent", or sent "in time" or "late",
                       \* when a Destroy had already succeeded
  walking,             \* whether the directory has been read
  todo,                \* the entries still to visit
  found,               \* the files visited, with the size or content seen
  trouble,             \* what went wrong with an entry: "vanished", "denied"
  errors,              \* the error: empty for nil, two members for errors.Join
  value,               \* what a reader returns
  seen                 \* the trees there were during the call

handle == <<owner, closed, gone, installed, verdict>>
walk   == <<walking, todo, found, trouble>>
call   == <<phase, request, errors, value, seen>>
world  == <<allowShellFallback, kind, tree, edits>>
vars   == <<handle, world, call, walk>>

Handle == INSTANCE SandboxContract WITH Connectors <- {}, Users <- Attempts

Init ==
  /\ Handle!Init
  /\ allowShellFallback \in BOOLEAN
  /\ tree \in Trees
  /\ edits = 0
  /\ kind \in [Calls -> {"read", "list"}]
  /\ phase = [c \in Calls |-> "idle"]
  /\ request = [a \in Attempts |-> "unsent"]
  /\ walking = [c \in Calls |-> FALSE]
  /\ todo = [c \in Calls |-> {}]
  /\ found = [c \in Calls |-> {}]
  /\ trouble = [c \in Calls |-> {}]
  /\ errors = [c \in Calls |-> {}]
  /\ value = [c \in Calls |-> Absent]
  /\ seen = [c \in Calls |-> {}]

Readers    == {c \in Calls : kind[c] = "read"}
Listers    == {c \in Calls : kind[c] = "list"}
Running(c) == phase[c] \notin {"idle", "returned"}

At(t, p) == IF t = Missing THEN Absent ELSE t[p]

-----------------------------------------------------------------------------
(* The rest of the world *)

Edit ==
  /\ edits < MaxEdits
  /\ edits' = edits + 1
  /\ \/ tree # Missing /\ \E p \in Paths, e \in Entries : tree' = [tree EXCEPT ![p] = e]
     \/ tree' \in {Missing, [p \in Paths |-> Absent]}
  /\ seen' = [c \in Calls |-> IF Running(c) THEN seen[c] \cup {tree'} ELSE seen[c]]
  /\ UNCHANGED <<handle, allowShellFallback, kind, phase, request, errors, value, walk>>

(* Destroy, or the end of the sandbox's time. *)
Destroy ==
  /\ \/ \E d \in Destroyers : Handle!Claim(d) \/ Handle!Succeed(d) \/ Handle!Fail(d)
                              \/ Handle!Share(d) \/ Handle!Withdraw(d)
     \/ ~gone /\ Handle!Vanish
  /\ UNCHANGED <<world, call, walk>>

-----------------------------------------------------------------------------
(* Mutated: the fallback goes on with the transport of the first attempt. *)
Begin_Unchecked(c, way) ==
  /\ phase[c] = IF way = "rpc" THEN "idle" ELSE "retry"
  /\ way = "rpc" => Handle!Open
  /\ Handle!Decide(<<c, way>>, "pending", "admitted")
  /\ phase' = [phase EXCEPT ![c] = way]
  /\ seen' = [seen EXCEPT ![c] = @ \cup {tree}]
  /\ walking' = [walking EXCEPT ![c] = FALSE]
  /\ todo' = [todo EXCEPT ![c] = {}]
  /\ found' = [found EXCEPT ![c] = {}]
  /\ trouble' = [trouble EXCEPT ![c] = {}]
  /\ UNCHANGED <<owner, closed, gone, installed, world, request, errors, value>>

(* activeTransport lets an attempt pass: the first one of the call itself, the
   second one of StartCommand, which Exec calls for the fallback. *)
Begin(c, way) ==
  /\ phase[c] = IF way = "rpc" THEN "idle" ELSE "retry"
  /\ Handle!Admit(<<c, way>>)
  /\ phase' = [phase EXCEPT ![c] = way]
  /\ seen' = [seen EXCEPT ![c] = @ \cup {tree}]
  /\ walking' = [walking EXCEPT ![c] = FALSE]
  /\ todo' = [todo EXCEPT ![c] = {}]
  /\ found' = [found EXCEPT ![c] = {}]
  /\ trouble' = [trouble EXCEPT ![c] = {}]
  /\ UNCHANGED <<world, request, errors, value>>

Refused(c, way) ==
  /\ phase[c] = IF way = "rpc" THEN "idle" ELSE "retry"
  /\ Handle!Refuse(<<c, way>>)
  /\ phase' = [phase EXCEPT ![c] = "returned"]
  /\ errors' = [errors EXCEPT ![c] = @ \cup {ErrSandboxDestroyed}]
  /\ UNCHANGED <<world, request, value, seen, walk>>

(* The request goes out without the lock and without another look at the
   handle: a Destroy may have begun, or succeeded, since the attempt began. *)
Send(c) ==
  /\ phase[c] \in Ways /\ request[<<c, phase[c]>>] = "unsent"
  /\ request' = [request EXCEPT ![<<c, phase[c]>>] = IF closed THEN "late" ELSE "in time"]
  /\ UNCHANGED <<handle, world, phase, errors, value, seen, walk>>

(* What answers is a sandbox that is there and has got the request. *)
Served(c) == phase[c] \in Ways /\ request[<<c, phase[c]>>] # "unsent" /\ ~gone

(* An attempt ends with an error (empty for nil) and, for a reader, content.
   The error of the first one is joined with that of the fallback, and
   forgotten when the fallback succeeds. *)
Conclude(c, errs, content) ==
  LET again == phase[c] = "rpc" /\ errs # {} /\ allowShellFallback IN
  /\ phase[c] \in Ways
  /\ Handle!Decide(<<c, phase[c]>>, "admitted", IF errs = {} THEN "done" ELSE "failed")
  /\ phase' = [phase EXCEPT ![c] = IF again THEN "retry" ELSE "returned"]
  /\ errors' = [errors EXCEPT ![c] = IF errs = {} THEN {} ELSE @ \cup errs]
  /\ value' = [value EXCEPT ![c] = content]
  /\ UNCHANGED <<owner, closed, gone, installed, world, request, seen, walk>>

(* No answer: the network, the context (perhaps before the request was sent),
   the death of the shell. *)
Lost(c) == Conclude(c, {ErrTransport}, Absent)

(* The URL of a sandbox that is gone answers 404 as well. *)
Gone(c) ==
  /\ gone /\ phase[c] = "rpc" /\ request[<<c, "rpc">>] # "unsent"
  /\ Conclude(c, {ErrFileNotFound}, Absent)

-----------------------------------------------------------------------------
(* ReadFile *)

(* Mutated: whatever cat complains about, the file is not there. *)
ReadError_AnyFailure(entry) == IF entry \in Contents THEN {} ELSE {ErrFileNotFound}

(* Status 404, or cat's "No such file or directory"; any other status, or exit
   code, is an error of its own. *)
ReadError(entry) ==
  IF entry = Absent THEN {ErrFileNotFound} ELSE IF entry = Folder THEN {ErrOther} ELSE {}

Read(c) ==
  /\ Served(c)
  /\ LET entry == At(tree, File) IN
     Conclude(c, ReadError(entry), IF entry \in Contents THEN entry ELSE Absent)

-----------------------------------------------------------------------------
(* ListFiles *)

(* The directory is read.  The RPC asks for 32 levels, find for all. *)
OpenDir(c) ==
  /\ Served(c) /\ ~walking[c]
  /\ tree # Missing
  /\ walking' = [walking EXCEPT ![c] = TRUE]
  /\ todo' = [todo EXCEPT ![c] = {p \in Paths : /\ tree[p] # Absent
                                                /\ phase[c] = "rpc" => p \notin Deep}]
  /\ UNCHANGED <<handle, world, call, found, trouble>>

NoDir(c) == Served(c) /\ ~walking[c] /\ tree = Missing /\ Conclude(c, {ErrFileNotFound}, Absent)

(* Mutated: entries of every type are listed. *)
Visit_AnyType(c, p) ==
  /\ Served(c) /\ walking[c] /\ p \in todo[c]
  /\ todo' = [todo EXCEPT ![c] = @ \ {p}]
  /\ LET entry == At(tree, p) IN
     \/ found' = [found EXCEPT ![c] = IF entry # Absent THEN @ \cup {<<p, entry>>} ELSE @]
        /\ trouble' = [trouble EXCEPT ![c] = IF entry = Absent THEN @ \cup {"vanished"} ELSE @]
     \/ found' = found /\ trouble' = [trouble EXCEPT ![c] = @ \cup {"denied"}]
  /\ UNCHANGED <<handle, world, call, walking>>

(* An entry may have gone since the directory was read, or not be readable.
   Only regular files are listed: by their type, or by -type f. *)
Visit(c, p) ==
  /\ Served(c) /\ walking[c] /\ p \in todo[c]
  /\ todo' = [todo EXCEPT ![c] = @ \ {p}]
  /\ LET entry == At(tree, p) IN
     \/ found' = [found EXCEPT ![c] = IF entry \in Contents THEN @ \cup {<<p, entry>>} ELSE @]
        /\ trouble' = [trouble EXCEPT ![c] = IF entry = Absent THEN @ \cup {"vanished"} ELSE @]
     \/ found' = found /\ trouble' = [trouble EXCEPT ![c] = @ \cup {"denied"}]
  /\ UNCHANGED <<handle, world, call, walking>>

(* Mutated: the exit code is not looked at, only the message. *)
FindError_IgnoresExit(problems) == IF "vanished" \in problems THEN {ErrFileNotFound} ELSE {}

(* find prints what it can and exits with 1; that a name in its complaints is
   not there is taken for the prefix, whatever else it printed. *)
FindError(problems) ==
  IF "vanished" \in problems THEN {ErrFileNotFound}
  ELSE IF problems # {} THEN {ErrOther} ELSE {}

(* envd fails a walk with trouble, or skips an entry that has vanished. *)
Listed(c) ==
  /\ Served(c) /\ walking[c] /\ todo[c] = {}
  /\ IF phase[c] = "shell" THEN Conclude(c, FindError(trouble[c]), Absent)
     ELSE \/ trouble[c] # {} /\ Conclude(c, {ErrOther}, Absent)
          \/ trouble[c] \subseteq {"vanished"} /\ Conclude(c, {}, Absent)

-----------------------------------------------------------------------------
Terminated ==
  /\ \A c \in Calls : phase[c] = "returned"
  /\ UNCHANGED vars

Next ==
  \/ Edit \/ Destroy
  \/ \E c \in Calls : \/ \E way \in Ways : Begin(c, way) \/ Refused(c, way)
                      \/ Send(c) \/ Lost(c) \/ Gone(c)
  \/ \E c \in Readers : Read(c)
  \/ \E c \in Listers : OpenDir(c) \/ NoDir(c) \/ Listed(c) \/ \E p \in Paths : Visit(c, p)
  \/ Terminated

Spec == Init /\ [][Next]_vars

-----------------------------------------------------------------------------
(* Every variable has its type; the handle's are SandboxContract's. *)
TypeOK ==
  /\ owner \in Destroyers \cup {Nobody}
  /\ closed \in BOOLEAN /\ gone \in BOOLEAN /\ installed = Nobody
  /\ verdict \in [Destroyers \cup Attempts -> {"pending", "admitted", "done", "failed", "refused"}]
  /\ allowShellFallback \in BOOLEAN
  /\ kind \in [Calls -> {"read", "list"}]
  /\ tree \in Trees
  /\ edits \in 0..MaxEdits
  /\ phase \in [Calls -> Ways \cup {"idle", "retry", "returned"}]
  /\ request \in [Attempts -> {"unsent", "in time", "late"}]
  /\ walking \in [Calls -> BOOLEAN]
  /\ todo \in [Calls -> SUBSET Paths]
  /\ found \in [Calls -> SUBSET (Paths \X Contents)]
  /\ trouble \in [Calls -> SUBSET {"vanished", "denied"}]
  /\ errors \in [Calls -> SUBSET Errors]
  /\ value \in [Calls -> Contents \cup {Absent}]
  /\ seen \in [Calls -> SUBSET Trees]

Returned(c) == phase[c] = "returned"

(* Whatever happens between the two attempts, and whichever of them answered:
   what ReadFile returns was the content of the file at some moment of the
   call, and an error that errors.Is takes for ErrFileNotFound, joined or not,
   means that at some moment there was no file, or no sandbox any more. *)
ReadsAreTrue ==
  \A c \in Readers : Returned(c) =>
    /\ errors[c] = {} => \E t \in seen[c] : value[c] \in Contents /\ At(t, File) = value[c]
    /\ ErrFileNotFound \in errors[c] => gone \/ \E t \in seen[c] : At(t, File) = Absent

(* ListFiles invents nothing: what it lists was there, with that content, at
   some moment; and it loses nothing: a file that was there during the whole
   call, at most 32 levels deep, is listed, whichever attempt answered and
   whatever else could not be read.  When nothing vanished during the
   call ErrFileNotFound means that the directory, or the sandbox, is not there. *)
ListingsAreTrue ==
  \A c \in Listers : Returned(c) =>
    /\ errors[c] = {} =>
         /\ \A f \in found[c] : \E t \in seen[c] : At(t, f[1]) = f[2]
         /\ \A p \in Paths \ Deep :
              (\A t \in seen[c] : At(t, p) \in Contents) => \E f \in found[c] : f[1] = p
    /\ ErrFileNotFound \in errors[c] =>
         \/ gone \/ Missing \in seen[c]
         \/ \E p \in Paths : \E t, u \in seen[c] : At(t, p) # Absent /\ At(u, p) = Absent

Late(c, way) == request[<<c, way>>] = "late"

(* An attempt that was let in before a Destroy may send its request after that
   Destroy has succeeded.  Then it is in vain: its call fails, sends nothing
   else, since the fallback of such an attempt is refused, and with a fallback
   tells the caller why. *)
LateRequestsFail ==
  \A c \in Calls, way \in Ways : Late(c, way) =>
    /\ way = "rpc" => request[<<c, "shell">>] = "unsent"
    /\ Returned(c) =>
         /\ errors[c] # {}
         /\ way = "rpc" /\ allowShellFallback => ErrSandboxDestroyed \in errors[c]
=============================================================================
