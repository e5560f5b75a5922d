----------------------------- MODULE FilesProofs -----------------------------
(***************************************************************************)
(* ReadFile and ListFiles tell the truth, for any number of calls, paths   *)
(* and changes of the tree.                                                *)
(***************************************************************************)
EXTENDS Files, TLAPS

(* A regular file, with whatever content, at every moment of the call. *)
Stable(c, p) == \A t \in seen[c] : At(t, p) \in Contents

Vanished(c) == \E p \in Paths : \E t, u \in seen[c] : At(t, p) # Absent /\ At(u, p) = Absent

Found(c, p) == \E f \in found[c] : f[1] = p

(* A call knows the tree of the moment. *)
Held(c) == Running(c) => tree \in seen[c]

(* What a walk has done so far. *)
Walked(c) ==
  /\ \A f \in found[c] : \E t \in seen[c] : At(t, f[1]) = f[2]
  /\ \A p \in todo[c] : \E t \in seen[c] : At(t, p) # Absent
  /\ "vanished" \in trouble[c] => Vanished(c)
  /\ walking[c] => \A p \in Paths \ Deep : 
       Stable(c, p) => p \in todo[c] \/ Found(c, p) \/ "denied" \in trouble[c]

(* A reason for ErrFileNotFound. *)
Cause(c) ==
  \/ gone
  \/ kind[c] = "read" /\ \E t \in seen[c] : At(t, File) = Absent
  \/ kind[c] = "list" /\ (Missing \in seen[c] \/ Vanished(c))

Blamed(c) == ErrFileNotFound \in errors[c] => Cause(c)

(* What a call without an error may return. *)
Good(c) ==
  /\ kind[c] = "read" => \E t \in seen[c] : value[c] \in Contents /\ At(t, File) = value[c]
  /\ kind[c] = "list" => \A p \in Paths \ Deep : Stable(c, p) => Found(c, p)

Answered(c) == Returned(c) /\ errors[c] = {} => Good(c)

(* A request is sent by an attempt that was let in, and a late one is the last
   of its call. *)
Sent(c) ==
  /\ phase[c] = "idle" => request[<<c, "rpc">>] = "unsent"
  /\ phase[c] \in {"idle", "rpc", "retry"} => request[<<c, "shell">>] = "unsent"
  /\ \A way \in Ways : Late(c, way) => closed
  /\ Late(c, "rpc") => phase[c] # "shell" /\ request[<<c, "shell">>] = "unsent"

(* What the caller of a late request learns. *)
Told(c) ==
  Returned(c) => \A way \in Ways : Late(c, way) =>
    /\ errors[c] # {}
    /\ way = "rpc" /\ allowShellFallback => ErrSandboxDestroyed \in errors[c]

CallInv(c) == Held(c) /\ Walked(c) /\ Blamed(c) /\ Answered(c) /\ Sent(c) /\ Told(c)

(* The inductive invariant. *)
IInv == TypeOK /\ (closed => gone) /\ \A c \in Calls : CallInv(c)

-----------------------------------------------------------------------------
(* The names of errors are distinct. *)
LEMMA ErrorsDistinct ==
  /\ ErrFileNotFound \notin {ErrSandboxDestroyed, ErrOther, ErrTransport}
  /\ {ErrFileNotFound, ErrSandboxDestroyed, ErrOther, ErrTransport} = Errors
  BY DEF ErrFileNotFound, ErrSandboxDestroyed, ErrOther, ErrTransport, Errors

(* What is there is in the tree. *)
LEMMA Lookup ==
  ASSUME TypeOK, NEW p \in Paths
  PROVE  At(tree, p) \in Entries /\ (tree # Missing => At(tree, p) = tree[p])
  BY DEF TypeOK, Trees, Entries, At

(* A longer memory keeps what is known of a call. *)
LEMMA Kept ==
  ASSUME NEW c \in Calls, CallInv(c), seen[c] \subseteq seen'[c], gone => gone', Held(c)',
         closed => closed', UNCHANGED <<allowShellFallback, request>>,
         kind'[c] = kind[c], phase'[c] = phase[c], walking'[c] = walking[c], 
         todo'[c] = todo[c], found'[c] = found[c], trouble'[c] = trouble[c], 
         errors'[c] = errors[c], value'[c] = value[c]
  PROVE  CallInv(c)'
<1>1. /\ \A p : Stable(c, p)' => Stable(c, p)
      /\ Vanished(c) => Vanished(c)'
      /\ \A p : Found(c, p)' <=> Found(c, p)
  BY DEF Stable, Vanished, Found
<1>2. Walked(c)'
  BY <1>1 DEF CallInv, Walked
<1>3. Blamed(c)'
  BY <1>1 DEF CallInv, Blamed, Cause
<1>4. Answered(c)'
  BY <1>1 DEF CallInv, Answered, Good, Returned
<1>5. Sent(c)' /\ Told(c)'
  BY DEF CallInv, Sent, Told, Late, Returned
<1> QED BY <1>2, <1>3, <1>4, <1>5 DEF CallInv

(* A step that changes nothing of a call. *)
LEMMA Untouched ==
  ASSUME NEW c \in Calls, CallInv(c), UNCHANGED <<kind, tree>>, gone => gone', seen'[c] = seen[c],
         closed => closed', UNCHANGED <<allowShellFallback, request>>,
         phase'[c] = phase[c], walking'[c] = walking[c], 
         todo'[c] = todo[c], found'[c] = found[c], trouble'[c] = trouble[c], 
         errors'[c] = errors[c], value'[c] = value[c]
  PROVE  CallInv(c)'
<1>1. Held(c)'
  BY DEF CallInv, Held, Running
<1> QED BY <1>1, Kept

-----------------------------------------------------------------------------
(* The end of an attempt. *)
LEMMA ConcludeStep ==
  ASSUME IInv, NEW c \in Calls, NEW errs \in SUBSET Errors, 
         NEW content \in Contents \cup {Absent}, Conclude(c, errs, content), 
         errs = {} => ~gone,
         ErrFileNotFound \in errs => Cause(c),
         errs = {} /\ kind[c] = "read" =>
           content \in Contents /\ \E t \in seen[c] : At(t, File) = content,
         errs = {} /\ kind[c] = "list" => 
           \A p \in Paths \ Deep : Stable(c, p) => Found(c, p)
  PROVE  IInv'
<1>1. TypeOK /\ (closed => gone) /\ \A d \in Calls : CallInv(d)
  BY DEF IInv
<1>2. TypeOK'
  BY <1>1 DEF Conclude, TypeOK, Handle!Decide, world, walk, Ways, Attempts
<1>3. /\ UNCHANGED <<closed, gone, allowShellFallback, request>>
      /\ UNCHANGED <<kind, tree, seen, walking, todo, found, trouble>>
      /\ phase[c] \in Ways
      /\ phase'[c] \in {"retry", "returned"}
      /\ phase'[c] = "retry" => phase[c] = "rpc"
      /\ phase[c] = "rpc" /\ errs # {} /\ allowShellFallback => phase'[c] = "retry"
      /\ errors'[c] = IF errs = {} THEN {} ELSE errors[c] \cup errs
      /\ value'[c] = content
      /\ \A d \in Calls \ {c} : /\ phase'[d] = phase[d] /\ errors'[d] = errors[d] 
                                /\ value'[d] = value[d]
  BY <1>1 DEF Conclude, TypeOK, world, walk
<1>4. /\ \A p : Stable(c, p)' <=> Stable(c, p)
      /\ Vanished(c)' <=> Vanished(c)
      /\ \A p : Found(c, p)' <=> Found(c, p)
      /\ Cause(c)' <=> Cause(c)
  BY <1>3 DEF Stable, Vanished, Found, Cause
<1>5. Held(c)'
  BY <1>1, <1>3 DEF CallInv, Held, Running, Ways
<1>6. Walked(c)'
  BY <1>1, <1>3, <1>4 DEF CallInv, Walked
<1>7. Blamed(c)'
  BY <1>1, <1>3, <1>4 DEF CallInv, Blamed
<1>8. Answered(c)'
  <2>1. CASE errs = {}
    BY <1>3, <1>4, <2>1 DEF Answered, Good
  <2>2. CASE errs # {}
    BY <1>3, <2>2 DEF Answered
  <2> QED BY <2>1, <2>2
<1>9. Sent(c)' /\ Told(c)'
  <2>1. Sent(c)
    BY <1>1 DEF CallInv
  <2>2. Sent(c)'
    BY <1>3, <2>1 DEF Sent, Late, Ways
  <2>3. ASSUME NEW way \in Ways, Late(c, way) PROVE errs # {}
    BY <1>1, <2>1, <2>3 DEF Sent
  <2>4. Late(c, "rpc") => phase[c] = "rpc"
    BY <1>3, <2>1 DEF Sent, Ways
  <2> QED BY <1>3, <2>2, <2>3, <2>4 DEF Told, Late, Returned, Ways
<1>10. ASSUME NEW d \in Calls \ {c} PROVE CallInv(d)'
  BY <1>1, <1>3, Untouched
<1> QED BY <1>1, <1>2, <1>3, <1>5, <1>6, <1>7, <1>8, <1>9, <1>10 DEF IInv, CallInv

(* The beginning of an attempt, and its refusal. *)
LEMMA BeginStep ==
  ASSUME IInv, NEW c \in Calls, NEW way \in Ways, Begin(c, way)
  PROVE  IInv'
<1>1. TypeOK /\ (closed => gone) /\ \A d \in Calls : CallInv(d)
  BY DEF IInv
<1>2. TypeOK'
  BY <1>1 DEF Begin, TypeOK, Handle!Admit, Handle!Decide, world, Ways, Attempts
<1>3. /\ UNCHANGED <<closed, gone, allowShellFallback, request, kind, tree, errors, value>>
      /\ ~closed /\ phase[c] = (IF way = "rpc" THEN "idle" ELSE "retry")
      /\ phase'[c] = way /\ seen'[c] = seen[c] \cup {tree}
      /\ ~walking'[c] /\ todo'[c] = {} /\ found'[c] = {} /\ trouble'[c] = {}
      /\ \A d \in Calls \ {c} : 
           /\ phase'[d] = phase[d] /\ seen'[d] = seen[d] /\ walking'[d] = walking[d]
           /\ todo'[d] = todo[d] /\ found'[d] = found[d] /\ trouble'[d] = trouble[d]
  BY <1>1 DEF Begin, TypeOK, Handle!Admit, Handle!Open, world
<1>4. Held(c)' /\ Walked(c)' /\ Answered(c)' /\ Told(c)'
  BY <1>3 DEF Held, Walked, Answered, Told, Returned, Ways
<1>5. Cause(c) => Cause(c)'
  BY <1>3 DEF Cause, Vanished
<1>6. Blamed(c)'
  BY <1>1, <1>3, <1>5 DEF CallInv, Blamed
<1>7. Sent(c)'
  BY <1>1, <1>3 DEF CallInv, Sent, Late, Ways
<1>8. ASSUME NEW d \in Calls \ {c} PROVE CallInv(d)'
  BY <1>1, <1>3, Untouched
<1> QED BY <1>1, <1>2, <1>3, <1>4, <1>6, <1>7, <1>8 DEF IInv, CallInv

(* The request of an attempt goes out. *)
LEMMA SendStep ==
  ASSUME IInv, NEW c \in Calls, Send(c)
  PROVE  IInv'
<1>1. TypeOK /\ (closed => gone) /\ \A d \in Calls : CallInv(d)
  BY DEF IInv
<1>2. /\ UNCHANGED <<closed, gone, allowShellFallback, kind, tree, phase, errors, value, seen>>
      /\ UNCHANGED <<walking, todo, found, trouble>>
      /\ phase[c] \in Ways
      /\ request'[<<c, phase[c]>>] = IF closed THEN "late" ELSE "in time"
      /\ \A a \in Attempts \ {<<c, phase[c]>>} : request'[a] = request[a]
  BY <1>1 DEF Send, TypeOK, handle, world, walk, Attempts
<1>3. TypeOK'
  BY <1>1 DEF Send, TypeOK, handle, world, walk
<1>4. ASSUME NEW d \in Calls PROVE Held(d)' /\ Walked(d)' /\ Blamed(d)' /\ Answered(d)'
  BY <1>1, <1>2 DEF CallInv, Held, Running, Walked, Blamed, Cause, Answered, Good, Returned,
                    Stable, Vanished, Found
<1>5. ASSUME NEW d \in Calls PROVE Sent(d)' /\ Told(d)'
  <2>1. Sent(d) /\ Told(d)
    BY <1>1 DEF CallInv
  <2>2. CASE d = c
    <3>1. \A way \in Ways \ {phase[c]} : request'[<<c, way>>] = request[<<c, way>>]
      BY <1>2 DEF Attempts
    <3> QED BY <1>2, <2>1, <2>2, <3>1 DEF Sent, Told, Late, Returned, Ways
  <2>3. CASE d # c
    <3>1. \A way \in Ways : request'[<<d, way>>] = request[<<d, way>>]
      BY <1>2, <2>3 DEF Attempts
    <3> QED BY <1>2, <2>1, <3>1 DEF Sent, Told, Late, Returned, Ways
  <2> QED BY <2>2, <2>3
<1> QED BY <1>1, <1>2, <1>3, <1>4, <1>5 DEF IInv, CallInv

(* A refused attempt preserves the invariant. *)
LEMMA RefusedStep ==
  ASSUME IInv, NEW c \in Calls, NEW way \in Ways, Refused(c, way)
  PROVE  IInv'
<1>1. TypeOK /\ (closed => gone) /\ \A d \in Calls : CallInv(d)
  BY DEF IInv
<1>2. TypeOK'
  BY <1>1, ErrorsDistinct 
     DEF Refused, TypeOK, Handle!Refuse, Handle!Decide, world, walk, Ways, Attempts
<1>3. /\ UNCHANGED <<closed, gone, allowShellFallback, request>>
      /\ UNCHANGED <<kind, tree, value, seen, walking, todo, found, trouble>>
      /\ phase'[c] = "returned" /\ errors'[c] = errors[c] \cup {ErrSandboxDestroyed}
      /\ \A d \in Calls \ {c} : phase'[d] = phase[d] /\ errors'[d] = errors[d] 
  BY <1>1 DEF Refused, TypeOK, Handle!Refuse, world, walk
<1>4. Held(c)' /\ Answered(c)'
  BY <1>3 DEF Held, Answered, Running
<1>5. Walked(c)'
  BY <1>1, <1>3 DEF CallInv, Walked, Stable, Vanished, Found
<1>6. Blamed(c)'
  BY <1>1, <1>3, ErrorsDistinct DEF CallInv, Blamed, Cause, Vanished
<1>7. Sent(c)' /\ Told(c)'
  BY <1>1, <1>3 DEF CallInv, Sent, Told, Late, Returned
<1>8. ASSUME NEW d \in Calls \ {c} PROVE CallInv(d)'
  BY <1>1, <1>3, Untouched
<1> QED BY <1>1, <1>2, <1>3, <1>4, <1>5, <1>6, <1>7, <1>8 DEF IInv, CallInv

-----------------------------------------------------------------------------
(* The answers to a read. *)
LEMMA ReadStep ==
  ASSUME IInv, NEW c \in Readers, Read(c)
  PROVE  IInv'
<1> DEFINE entry == At(tree, File)
           content == IF entry \in Contents THEN entry ELSE Absent
<1>1. TypeOK /\ CallInv(c) /\ c \in Calls /\ kind[c] = "read"
  BY DEF IInv, Readers
<1>2. Conclude(c, ReadError(entry), content) /\ ~gone
  BY DEF Read, Served
<1>3. entry \in Entries
  BY <1>1, Lookup, FilesAssumption
<1>4. tree \in seen[c]
  BY <1>1, <1>2 DEF CallInv, Held, Running, Conclude, Ways
<1>5. /\ ReadError(entry) \in SUBSET Errors
      /\ ErrFileNotFound \in ReadError(entry) => entry = Absent
      /\ ReadError(entry) = {} => entry \in Contents
  BY <1>3, ErrorsDistinct DEF ReadError, Entries
<1>6. ErrFileNotFound \in ReadError(entry) => Cause(c)
  BY <1>1, <1>4, <1>5 DEF Cause
<1>7. content \in Contents \cup {Absent}
  OBVIOUS
<1>8. ReadError(entry) = {} => content \in Contents /\ \E t \in seen[c] : At(t, File) = content
  BY <1>4, <1>5
<1> HIDE DEF entry, content
<1> QED BY <1>1, <1>2, <1>5, <1>6, <1>7, <1>8, ConcludeStep

(* The answers without one. *)
LEMMA LostStep ==
  ASSUME IInv, NEW c \in Calls, Lost(c) \/ Gone(c)
  PROVE  IInv'
<1>1. CASE Lost(c)
  BY <1>1, ErrorsDistinct, ConcludeStep DEF Lost
<1>2. CASE Gone(c)
  <2>1. gone /\ Cause(c)
    BY <1>2 DEF Gone, Cause
  <2> QED BY <1>2, <2>1, ErrorsDistinct, ConcludeStep DEF Gone
<1> QED BY <1>1, <1>2

(* The steps of a listing. *)
LEMMA OpenDirStep ==
  ASSUME IInv, NEW c \in Listers, OpenDir(c)
  PROVE  IInv'
<1>1. TypeOK /\ (closed => gone) /\ (\A d \in Calls : CallInv(d)) /\ c \in Calls
  BY DEF IInv, Listers
<1>2. TypeOK'
  BY <1>1 DEF OpenDir, TypeOK, handle, world, call
<1>3. /\ UNCHANGED <<closed, gone, allowShellFallback, request>>
      /\ UNCHANGED <<kind, tree, phase, errors, value, seen, found, trouble>>
      /\ todo'[c] = {p \in Paths : tree[p] # Absent /\ (phase[c] = "rpc" => p \notin Deep)}
      /\ \A d \in Calls \ {c} : walking'[d] = walking[d] /\ todo'[d] = todo[d]
  BY <1>1 DEF OpenDir, TypeOK, handle, world, call
<1>4. tree \in seen[c] /\ \A p \in Paths : At(tree, p) = tree[p]
  BY <1>1, Lookup DEF OpenDir, Served, CallInv, Held, Running, Ways
<1>5. Walked(c)'
  <2>1. ASSUME NEW p \in Paths \ Deep, Stable(c, p) PROVE p \in todo'[c]
    BY <1>3, <1>4, <2>1, FilesAssumption DEF Stable
  <2>2. \A p \in todo'[c] : \E t \in seen[c] : At(t, p) # Absent
    BY <1>3, <1>4
  <2>3. /\ \A p : Stable(c, p)' <=> Stable(c, p)
        /\ Vanished(c)' <=> Vanished(c)
    BY <1>3 DEF Stable, Vanished
  <2> QED BY <1>1, <1>3, <2>1, <2>2, <2>3 DEF CallInv, Walked
<1>6. Held(c)' /\ Blamed(c)' /\ Answered(c)'
  BY <1>1, <1>3 
     DEF CallInv, Held, Running, Blamed, Cause, Vanished, Answered, Good, Returned, Stable, Found
<1>7. Sent(c)' /\ Told(c)'
  BY <1>1, <1>3 DEF CallInv, Sent, Told, Late, Returned
<1>8. ASSUME NEW d \in Calls \ {c} PROVE CallInv(d)'
  BY <1>1, <1>3, Untouched
<1> QED BY <1>1, <1>2, <1>3, <1>5, <1>6, <1>7, <1>8 DEF IInv, CallInv

(* Visiting an entry preserves the invariant. *)
LEMMA VisitStep ==
  ASSUME IInv, NEW c \in Listers, NEW p \in Paths, Visit(c, p)
  PROVE  IInv'
<1> DEFINE entry == At(tree, p)
<1>1. TypeOK /\ (closed => gone) /\ (\A d \in Calls : CallInv(d)) /\ c \in Calls
  BY DEF IInv, Listers
<1>2. entry \in Entries
  BY <1>1, Lookup
<1>3. /\ p \in todo[c] /\ walking[c]
      /\ UNCHANGED <<closed, gone, allowShellFallback, request>>
      /\ UNCHANGED <<kind, tree, phase, errors, value, seen, walking>>
      /\ todo' = [todo EXCEPT ![c] = @ \ {p}]
      /\ \/ /\ found' = [found EXCEPT ![c] = IF entry \in Contents THEN @ \cup {<<p, entry>>} ELSE @]
            /\ trouble' = [trouble EXCEPT ![c] = IF entry = Absent THEN @ \cup {"vanished"} ELSE @]
         \/ found' = found /\ trouble' = [trouble EXCEPT ![c] = @ \cup {"denied"}]
  BY DEF Visit, handle, world, call
<1>4. /\ todo \in [Calls -> SUBSET Paths]
       /\ found \in [Calls -> SUBSET (Paths \X Contents)]
       /\ trouble \in [Calls -> SUBSET {"vanished", "denied"}]
  BY <1>1 DEF TypeOK
<1>5. TypeOK'
  <2>1. todo' \in [Calls -> SUBSET Paths]
    BY <1>3, <1>4
  <2>2. found' \in [Calls -> SUBSET (Paths \X Contents)]
    BY <1>2, <1>3, <1>4
  <2>3. trouble' \in [Calls -> SUBSET {"vanished", "denied"}]
    BY <1>3, <1>4
  <2>4. UNCHANGED <<handle, world, call, walking>>
    BY DEF Visit
  <2> QED BY <1>1, <2>1, <2>2, <2>3, <2>4 DEF TypeOK, handle, world, call
<1>6. /\ todo'[c] = todo[c] \ {p}
      /\ found[c] \subseteq found'[c] /\ found'[c] \subseteq found[c] \cup {<<p, entry>>}
      /\ trouble[c] \subseteq trouble'[c]
      /\ "vanished" \in trouble'[c] => "vanished" \in trouble[c] \/ entry = Absent
      /\ entry \in Contents => <<p, entry>> \in found'[c] \/ "denied" \in trouble'[c]
  BY <1>1, <1>3, <1>4
<1>7. \A d \in Calls \ {c} : todo'[d] = todo[d] /\ found'[d] = found[d] /\ trouble'[d] = trouble[d]
  BY <1>1, <1>3, <1>4
<1>8. phase[c] \in Ways /\ tree \in seen[c]
  BY <1>1 DEF Visit, Served, CallInv, Held, Running, Ways
<1>9. Held(c)' /\ Blamed(c)' /\ Answered(c)'
  BY <1>1, <1>3, <1>8 
     DEF CallInv, Held, Running, Blamed, Cause, Vanished, Answered, Returned, Ways
<1>10. Sent(c)' /\ Told(c)'
  BY <1>1, <1>3 DEF CallInv, Sent, Told, Late, Returned
<1> HIDE DEF entry
<1>11. Walked(c)'
  <2>1. Walked(c) /\ seen' = seen
    BY <1>1, <1>3 DEF CallInv
  <2>2. ASSUME NEW f \in found'[c] PROVE \E t \in seen[c] : At(t, f[1]) = f[2]
    <3>1. CASE f \in found[c]
      BY <2>1, <3>1 DEF Walked
    <3>2. CASE f = <<p, entry>>
      BY <1>8, <3>2 DEF entry
    <3> QED BY <1>6, <2>2, <3>1, <3>2
  <2>3. \A q \in todo'[c] : \E t \in seen[c] : At(t, q) # Absent
    BY <1>6, <2>1 DEF Walked
  <2>4. ASSUME "vanished" \in trouble'[c] PROVE Vanished(c)
    <3>1. CASE "vanished" \in trouble[c]
      BY <2>1, <3>1 DEF Walked
    <3>2. CASE entry = Absent
      <4>1. \E t \in seen[c] : At(t, p) # Absent
        BY <1>3, <2>1 DEF Walked
      <4> QED BY <1>8, <3>2, <4>1 DEF Vanished, entry
    <3> QED BY <1>6, <2>4, <3>1, <3>2
  <2>5. ASSUME NEW q \in Paths \ Deep, Stable(c, q)
        PROVE  q \in todo'[c] \/ (\E f \in found'[c] : f[1] = q) \/ "denied" \in trouble'[c]
    <3>1. CASE q = p /\ q \in todo[c]
      <4>1. entry \in Contents
        BY <1>8, <2>5, <3>1 DEF Stable, entry
      <4>2. <<p, entry>>[1] = p
        OBVIOUS
      <4> QED BY <1>6, <3>1, <4>1, <4>2
    <3>2. CASE q # p /\ q \in todo[c]
      BY <1>6, <3>2
    <3>3. CASE q \notin todo[c]
      BY <1>3, <1>6, <2>1, <2>5, <3>3 DEF Walked, Found
    <3> QED BY <3>1, <3>2, <3>3
  <2> QED BY <2>1, <2>2, <2>3, <2>4, <2>5 DEF Walked, Stable, Vanished, Found
<1>12. ASSUME NEW d \in Calls \ {c} PROVE CallInv(d)'
  BY <1>1, <1>3, <1>7, Untouched
<1> QED BY <1>1, <1>3, <1>5, <1>9, <1>11, <1>12, <1>10 DEF IInv, CallInv

(* A missing directory preserves the invariant. *)
LEMMA NoDirStep ==
  ASSUME IInv, NEW c \in Listers, NoDir(c)
  PROVE  IInv'
<1>1. CallInv(c) /\ c \in Calls /\ kind[c] = "list"
  BY DEF IInv, Listers
<1>2. Conclude(c, {ErrFileNotFound}, Absent) /\ tree = Missing
  BY DEF NoDir
<1>3. Cause(c)
  BY <1>1, <1>2 DEF CallInv, Held, Running, Conclude, Ways, Cause
<1> QED BY <1>1, <1>2, <1>3, ErrorsDistinct, ConcludeStep

(* The end of a listing preserves the invariant. *)
LEMMA ListedStep ==
  ASSUME IInv, NEW c \in Listers, Listed(c)
  PROVE  IInv'
<1>1. TypeOK /\ Walked(c) /\ c \in Calls /\ kind[c] = "list"
  BY DEF IInv, Listers, CallInv
<1>2. walking[c] /\ todo[c] = {} /\ ~gone
  BY DEF Listed, Served
<1>3. ASSUME "denied" \notin trouble[c]
      PROVE  \A p \in Paths \ Deep : Stable(c, p) => Found(c, p)
  BY <1>1, <1>2, <1>3 DEF Walked
<1>4. CASE Conclude(c, FindError(trouble[c]), Absent)
  <2>1. /\ FindError(trouble[c]) \in SUBSET Errors
        /\ ErrFileNotFound \in FindError(trouble[c]) => "vanished" \in trouble[c]
        /\ FindError(trouble[c]) = {} => trouble[c] = {}
    BY ErrorsDistinct DEF FindError
  <2>2. ErrFileNotFound \in FindError(trouble[c]) => Cause(c)
    BY <1>1, <2>1 DEF Walked, Cause
  <2>3. FindError(trouble[c]) = {} => \A p \in Paths \ Deep : Stable(c, p) => Found(c, p)
    BY <1>3, <2>1
  <2> QED BY <1>1, <1>2, <1>4, <2>1, <2>2, <2>3, ConcludeStep
<1>5. CASE Conclude(c, {ErrOther}, Absent)
  BY <1>1, <1>5, ErrorsDistinct, ConcludeStep
<1>6. CASE trouble[c] \subseteq {"vanished"} /\ Conclude(c, {}, Absent)
  BY <1>1, <1>2, <1>3, <1>6, ConcludeStep
<1> QED BY <1>4, <1>5, <1>6 DEF Listed

-----------------------------------------------------------------------------
(* The steps of the rest of the world. *)
LEMMA EditStep ==
  ASSUME IInv, Edit
  PROVE  IInv'
<1>1. TypeOK /\ (closed => gone) /\ \A d \in Calls : CallInv(d)
  BY DEF IInv
<1>2. tree' \in Trees
  <2>1. CASE tree # Missing /\ \E p \in Paths, e \in Entries : tree' = [tree EXCEPT ![p] = e]
    <3>1. tree \in [Paths -> Entries]
      BY <1>1, <2>1 DEF TypeOK, Trees
    <3> QED BY <2>1, <3>1 DEF Trees
  <2>2. CASE tree' \in {Missing, [p \in Paths |-> Absent]}
    BY <2>2 DEF Trees, Entries
  <2> QED BY <2>1, <2>2 DEF Edit
<1>3. /\ UNCHANGED <<closed, gone, allowShellFallback, request>>
      /\ UNCHANGED <<kind, phase, errors, value, walking, todo, found, trouble>>
      /\ \A d \in Calls : 
           seen'[d] = IF Running(d) THEN seen[d] \cup {tree'} ELSE seen[d]
  BY DEF Edit, handle, walk
<1>4. TypeOK'
  <2>1. seen' \in [Calls -> SUBSET Trees]
    BY <1>1, <1>2 DEF Edit, TypeOK
  <2>2. edits' \in 0..MaxEdits
    <3>1. edits \in 0..MaxEdits /\ edits < MaxEdits /\ edits' = edits + 1
      BY <1>1 DEF Edit, TypeOK
    <3> QED BY <3>1, FilesAssumption
  <2> QED BY <1>1, <1>2, <2>1, <2>2 DEF Edit, TypeOK, handle, walk
<1>5. ASSUME NEW d \in Calls PROVE CallInv(d)'
  <2>1. Held(d)'
    BY <1>3 DEF Held, Running
  <2> QED BY <1>1, <1>3, <2>1, Kept
<1> QED BY <1>1, <1>3, <1>4, <1>5 DEF IInv

(* A destruction preserves the invariant. *)
LEMMA DestroyStep ==
  ASSUME IInv, Destroy
  PROVE  IInv'
<1>1. TypeOK /\ (closed => gone) /\ \A d \in Calls : CallInv(d)
  BY DEF IInv
<1>2. /\ UNCHANGED <<world, call, walk>>
      /\ installed' = installed
      /\ owner' \in {owner, Nobody} \cup Destroyers
      /\ gone' \in {gone, TRUE}
      /\ closed' = closed \/ (closed' = TRUE /\ gone /\ gone' = gone)
      /\ verdict' = verdict \/ \E d \in Destroyers, v \in {"done", "failed"} : 
                                 verdict' = [verdict EXCEPT ![d] = v]
  BY DEF Destroy, Handle!Claim, Handle!Succeed, Handle!Fail, Handle!Share, 
         Handle!Withdraw, Handle!Vanish, Handle!Decide
<1>3. (gone => gone') /\ (closed => closed') /\ (closed' => gone')
  <2>1. gone' = gone \/ gone' = TRUE
    BY <1>2
  <2>2. CASE closed' = closed
    BY <1>1, <2>1, <2>2
  <2>3. CASE closed' = TRUE /\ gone /\ gone' = gone
    BY <2>3
  <2> QED BY <1>2, <2>2, <2>3
<1>4. TypeOK'
  <2>1. verdict' \in [Destroyers \cup Attempts -> {"pending", "admitted", "done", "failed", "refused"}]
    <3>1. verdict \in [Destroyers \cup Attempts -> {"pending", "admitted", "done", "failed", "refused"}]
      BY <1>1 DEF TypeOK
    <3> QED BY <1>2, <3>1
  <2>2. owner' \in Destroyers \cup {Nobody} /\ closed' \in BOOLEAN /\ gone' \in BOOLEAN
    BY <1>1, <1>2 DEF TypeOK
  <2> QED BY <1>1, <1>2, <2>1, <2>2 DEF TypeOK, world, call, walk
<1>5. ASSUME NEW d \in Calls PROVE CallInv(d)'
  BY <1>1, <1>2, <1>3, Untouched DEF world, call, walk
<1> QED BY <1>3, <1>4, <1>5 DEF IInv

(* The parts together are an inductive invariant. *)
THEOREM Invariance == Spec => []IInv
<1>1. Init => IInv
  <2> SUFFICES ASSUME Init PROVE IInv
    OBVIOUS
  <2>1. TypeOK
    <3>1. /\ owner = Nobody /\ closed = FALSE /\ gone = FALSE /\ installed = Nobody
          /\ verdict = [x \in Destroyers \cup Attempts |-> "pending"]
      BY DEF Init, Handle!Init, Handle!Callers
    <3>2. edits \in 0..MaxEdits
      BY FilesAssumption DEF Init
    <3> QED BY <3>1, <3>2 DEF Init, TypeOK
  <2>2. ASSUME NEW c \in Calls PROVE CallInv(c)
    BY DEF Init, CallInv, Held, Running, Walked, Blamed, Answered, Returned, Sent, Told, Late, 
           Attempts, Ways
  <2> QED BY <2>1, <2>2 DEF IInv, Init, Handle!Init
<1>2. IInv /\ [Next]_vars => IInv'
  <2> SUFFICES ASSUME IInv, [Next]_vars PROVE IInv'
    OBVIOUS
  <2>1. CASE UNCHANGED vars
    <3>1. TypeOK'
      BY <2>1 DEF vars, handle, world, call, walk, IInv, TypeOK
    <3>2. ASSUME NEW c \in Calls PROVE CallInv(c)'
      BY <2>1, Untouched DEF vars, handle, world, call, walk, IInv
    <3> QED BY <2>1, <3>1, <3>2 DEF IInv, vars, handle
  <2>2. ASSUME NEW c \in Calls, NEW way \in Ways, Begin(c, way) \/ Refused(c, way) PROVE IInv'
    BY <2>2, BeginStep, RefusedStep
  <2>3. ASSUME NEW c \in Calls, Send(c) \/ Lost(c) \/ Gone(c) PROVE IInv'
    BY <2>3, SendStep, LostStep
  <2>4. ASSUME NEW c \in Readers, Read(c) PROVE IInv'
    BY <2>4, ReadStep
  <2>5. ASSUME NEW c \in Listers, OpenDir(c) \/ NoDir(c) \/ Listed(c) PROVE IInv'
    BY <2>5, OpenDirStep, NoDirStep, ListedStep
  <2>6. ASSUME NEW c \in Listers, NEW p \in Paths, Visit(c, p) PROVE IInv'
    BY <2>6, VisitStep
  <2>7. CASE Edit \/ Destroy
    BY <2>7, EditStep, DestroyStep
  <2> QED BY <2>1, <2>2, <2>3, <2>4, <2>5, <2>6, <2>7 DEF Next, Terminated
<1> QED BY <1>1, <1>2, PTL DEF Spec

-----------------------------------------------------------------------------
(* Every variable has its type. *)
THEOREM TypeCorrect == Spec => []TypeOK
<1>1. IInv => TypeOK
  BY DEF IInv
<1> QED BY <1>1, Invariance, PTL

(* What ReadFile returns, or says is not there, was so during the call. *)
THEOREM ReadsTellTheTruth == Spec => []ReadsAreTrue
<1>1. ASSUME IInv, NEW c \in Readers, Returned(c)
      PROVE  /\ errors[c] = {} => \E t \in seen[c] : value[c] \in Contents /\ At(t, File) = value[c]
             /\ ErrFileNotFound \in errors[c] => gone \/ \E t \in seen[c] : At(t, File) = Absent
  <2>1. c \in Calls /\ kind[c] = "read" /\ CallInv(c)
    BY <1>1 DEF Readers, IInv
  <2> QED BY <1>1, <2>1 DEF CallInv, Blamed, Cause, Answered, Good
<1>2. IInv => ReadsAreTrue
  BY <1>1 DEF ReadsAreTrue
<1> QED BY <1>2, Invariance, PTL

(* ListFiles lists what was there, and all that stayed there. *)
THEOREM ListingsTellTheTruth == Spec => []ListingsAreTrue
<1>1. IInv => ListingsAreTrue
  <2> SUFFICES ASSUME IInv, NEW c \in Listers, Returned(c)
               PROVE  /\ errors[c] = {} =>
                           /\ \A f \in found[c] : \E t \in seen[c] : At(t, f[1]) = f[2]
                           /\ \A p \in Paths \ Deep : 
                                (\A t \in seen[c] : At(t, p) \in Contents) => 
                                  \E f \in found[c] : f[1] = p
                      /\ ErrFileNotFound \in errors[c] =>
                           \/ gone \/ Missing \in seen[c]
                           \/ \E p \in Paths : \E t, u \in seen[c] : 
                                At(t, p) # Absent /\ At(u, p) = Absent
    BY DEF ListingsAreTrue
  <2>1. c \in Calls /\ kind[c] = "list" /\ CallInv(c)
    BY DEF Listers, IInv
  <2>2. \A f \in found[c] : \E t \in seen[c] : At(t, f[1]) = f[2]
    BY <2>1 DEF CallInv, Walked
  <2>3. errors[c] = {} => \A p \in Paths \ Deep : Stable(c, p) => Found(c, p)
    BY <2>1 DEF CallInv, Answered, Good
  <2>4. ErrFileNotFound \in errors[c] => gone \/ Missing \in seen[c] \/ Vanished(c)
    BY <2>1 DEF CallInv, Blamed, Cause
  <2> QED BY <2>2, <2>3, <2>4 DEF Stable, Found, Vanished
<1> QED BY <1>1, Invariance, PTL

(* What is sent after a Destroy has succeeded yields nothing, is the last
   request of its call, and the caller learns why. *)
THEOREM LateRequestsAreInVain == Spec => []LateRequestsFail
<1>1. ASSUME IInv, NEW c \in Calls, NEW way \in Ways, Late(c, way)
      PROVE  /\ way = "rpc" => request[<<c, "shell">>] = "unsent"
             /\ Returned(c) =>
                  /\ errors[c] # {}
                  /\ way = "rpc" /\ allowShellFallback => ErrSandboxDestroyed \in errors[c]
  BY <1>1 DEF IInv, CallInv, Sent, Told
<1>2. IInv => LateRequestsFail
  BY <1>1 DEF LateRequestsFail
<1> QED BY <1>2, Invariance, PTL

(* The end of an attempt is that of a use of the handle. *)
LEMMA ConcludeIsFinish ==
  ASSUME NEW c \in Calls, NEW errs, NEW content, Conclude(c, errs, content)
  PROVE  \E a \in Attempts : Handle!Finish(a)
<1> DEFINE a == <<c, phase[c]>>
<1>1. a \in Attempts
  BY DEF Conclude, Attempts
<1>2. \E result \in {"done", "failed"} : Handle!Decide(a, "admitted", result)
  BY DEF Conclude
<1>3. Handle!Finish(a)
  BY <1>2 DEF Conclude, Handle!Finish
<1> QED BY <1>1, <1>3

(* The fallbacks use the handle as its contract foresees: each attempt is one
   more caller, and editing or walking the tree does not touch the handle. *)
THEOREM UsesTheHandle == Spec => Handle!Spec
<1>1. Init => Handle!Init
  BY DEF Init
<1>2. [Next]_vars => [Handle!Next]_Handle!vars
  <2> SUFFICES ASSUME [Next]_vars PROVE Handle!Next \/ UNCHANGED handle
    BY DEF handle, Handle!vars
  <2>1. CASE UNCHANGED vars
    BY <2>1 DEF vars
  <2>2. ASSUME NEW c \in Calls, NEW way \in Ways, Begin(c, way) \/ Refused(c, way)
        PROVE  Handle!Next
    <3>1. <<c, way>> \in Attempts
      BY DEF Attempts
    <3> QED BY <2>2, <3>1 DEF Begin, Refused, Handle!Next
  <2>3. ASSUME NEW c \in Calls, \E errs, content : Conclude(c, errs, content) PROVE Handle!Next
    BY <2>3, ConcludeIsFinish DEF Handle!Next
  <2>4. ASSUME NEW c \in Calls, Lost(c) \/ Gone(c) PROVE Handle!Next
    BY <2>3, <2>4 DEF Lost, Gone
  <2>5. ASSUME NEW c \in Readers, Read(c) PROVE Handle!Next
    BY <2>3, <2>5 DEF Read, Readers
  <2>6. ASSUME NEW c \in Listers, NoDir(c) \/ Listed(c) PROVE Handle!Next
    BY <2>3, <2>6 DEF NoDir, Listed, Listers
  <2>7. ASSUME NEW c \in Listers, OpenDir(c) \/ \E p \in Paths : Visit(c, p)
        PROVE  UNCHANGED handle
    BY <2>7 DEF OpenDir, Visit
  <2>10. ASSUME NEW c \in Calls, Send(c) PROVE UNCHANGED handle
    BY <2>10 DEF Send
  <2>8. CASE Edit
    BY <2>8 DEF Edit
  <2>9. CASE Destroy
    BY <2>9 DEF Destroy, Handle!Next
  <2> QED BY <2>1, <2>2, <2>4, <2>5, <2>6, <2>7, <2>8, <2>9, <2>10 DEF Next, Terminated, vars
<1> QED BY <1>1, <1>2, PTL DEF Spec, Handle!Spec
=============================================================================
