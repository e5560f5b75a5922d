--------------------------- MODULE ContractProofs ---------------------------
(***************************************************************************)
(* What the two contracts give to those who rely on them, for any callers, *)
(* streams and verdicts.  With the refinements of SandboxProofs,           *)
(* WatchProofs, CommandProofs and FilesProofs it holds of the handles.     *)
(***************************************************************************)
EXTENDS Integers, TLAPS

CONSTANTS Destroyers, Connectors, Users, Nobody,
          Streams, Waiters, Success, Failures

VARIABLES owner, closed, gone, installed, verdict,
          sent, ended, taken, abandoned, ending, told

Sandbox == INSTANCE SandboxContract

Stream == INSTANCE StreamContract WITH verdict <- ending

-----------------------------------------------------------------------------
(* The sandbox handle *)

Roles ==
  /\ Nobody \notin Sandbox!Callers
  /\ Destroyers \cap (Connectors \cup Users) = {}

Verdicts == {"pending", "admitted", "done", "failed", "refused"}

SandboxInv ==
  /\ closed \in BOOLEAN /\ gone \in BOOLEAN
  /\ verdict \in [Sandbox!Callers -> Verdicts]
  /\ Sandbox!KeepsItsPromise

(* One call decides, the verdicts of the others stay. *)
LEMMA OneDecides ==
  ASSUME verdict \in [Sandbox!Callers -> Verdicts], NEW c \in Sandbox!Callers, 
         NEW before, NEW after \in Verdicts, Sandbox!Decide(c, before, after)
  PROVE  /\ verdict[c] = before /\ verdict'[c] = after
         /\ \A d \in Sandbox!Callers \ {c} : verdict'[d] = verdict[d]
         /\ verdict' \in [Sandbox!Callers -> Verdicts]
  BY DEF Sandbox!Decide

(* Destructions are owned, succeed and are shared as promised. *)
LEMMA DestroyersStep ==
  ASSUME Roles, SandboxInv, NEW d \in Destroyers,
         Sandbox!Claim(d) \/ Sandbox!Succeed(d) \/ Sandbox!Fail(d) \/ Sandbox!Share(d) \/ Sandbox!Withdraw(d)
  PROVE  SandboxInv'
<1> d \in Sandbox!Callers /\ Nobody \notin Destroyers
  BY DEF Sandbox!Callers, Roles
<1> Destroyers \subseteq Sandbox!Callers /\ Connectors \subseteq Sandbox!Callers /\ d \notin Connectors
  BY DEF Sandbox!Callers, Roles
<1> USE DEF SandboxInv, Sandbox!KeepsItsPromise, Verdicts
<1>1. CASE Sandbox!Claim(d)
  BY <1>1 DEF Sandbox!Claim, Sandbox!Open
<1>2. CASE Sandbox!Succeed(d)
  BY <1>2, OneDecides DEF Sandbox!Succeed
<1>3. CASE Sandbox!Fail(d)
  BY <1>3, OneDecides DEF Sandbox!Fail
<1>4. CASE Sandbox!Share(d)
  BY <1>4, OneDecides DEF Sandbox!Share
<1>5. CASE Sandbox!Withdraw(d)
  BY <1>5, OneDecides DEF Sandbox!Withdraw
<1> QED BY <1>1, <1>2, <1>3, <1>4, <1>5

(* The calls that need the sandbox do not disturb its destruction. *)
LEMMA UsersStep ==
  ASSUME Roles, SandboxInv, NEW c \in Connectors \cup Users,
         \/ Sandbox!Admit(c) \/ Sandbox!Refuse(c) \/ Sandbox!Finish(c)
         \/ c \in Connectors /\ (Sandbox!Install(c) \/ Sandbox!Abandon(c))
  PROVE  SandboxInv'
<1> c \in Sandbox!Callers /\ c \notin Destroyers
  BY DEF Sandbox!Callers, Roles
<1> Destroyers \subseteq Sandbox!Callers /\ Connectors \subseteq Sandbox!Callers
  BY DEF Sandbox!Callers
<1> USE DEF SandboxInv, Sandbox!KeepsItsPromise, Verdicts
<1>1. CASE Sandbox!Admit(c)
  BY <1>1, OneDecides DEF Sandbox!Admit
<1>2. CASE Sandbox!Refuse(c)
  BY <1>2, OneDecides DEF Sandbox!Refuse
<1>3. CASE Sandbox!Finish(c)
  BY <1>3, OneDecides DEF Sandbox!Finish
<1>4. CASE c \in Connectors /\ Sandbox!Install(c)
  BY <1>4, OneDecides DEF Sandbox!Install, Sandbox!Open
<1>5. CASE Sandbox!Abandon(c)
  BY <1>5, OneDecides DEF Sandbox!Abandon
<1> QED BY <1>1, <1>2, <1>3, <1>4, <1>5

(* The promise is kept. *)
THEOREM SandboxPromise ==
  ASSUME Roles
  PROVE  Sandbox!Spec => []SandboxInv
<1>1. Sandbox!Init => SandboxInv
  BY DEF Roles, Sandbox!Init, SandboxInv, Sandbox!KeepsItsPromise, Verdicts, Sandbox!Callers
<1>2. SandboxInv /\ [Sandbox!Next]_Sandbox!vars => SandboxInv'
  <2> SUFFICES ASSUME SandboxInv, [Sandbox!Next]_Sandbox!vars PROVE SandboxInv'
    OBVIOUS
  <2>1. CASE Sandbox!Vanish
    BY <2>1 DEF Sandbox!Vanish, SandboxInv, Sandbox!KeepsItsPromise
  <2>2. CASE UNCHANGED Sandbox!vars
    BY <2>2 DEF Sandbox!vars, SandboxInv, Sandbox!KeepsItsPromise
  <2> QED BY <2>1, <2>2, DestroyersStep, UsersStep DEF Sandbox!Next
<1> QED BY <1>1, <1>2, PTL DEF Sandbox!Spec

(* Nothing is let in or installed while a destruction is owned or after it. *)
THEOREM SandboxForever ==
  ASSUME Roles
  PROVE  Sandbox!Spec => Sandbox!ClosedIsForever
<1> DEFINE Act == ~Sandbox!Open =>
             /\ closed => closed' /\ owner' = owner
             /\ installed' = installed
             /\ \A c \in Sandbox!Callers : verdict'[c] = "admitted" => verdict[c] = "admitted"
<1>1. SandboxInv /\ [Sandbox!Next]_Sandbox!vars => [Act]_Sandbox!vars
  <2> SUFFICES ASSUME SandboxInv, Sandbox!Next, ~Sandbox!Open PROVE Act
    OBVIOUS
  <2> USE DEF SandboxInv, Sandbox!KeepsItsPromise, Verdicts, Sandbox!Open
  <2>1. ASSUME NEW d \in Destroyers,
               Sandbox!Claim(d) \/ Sandbox!Succeed(d) \/ Sandbox!Fail(d) \/ Sandbox!Share(d) \/ Sandbox!Withdraw(d)
        PROVE  Act
    <3> d \in Sandbox!Callers /\ Nobody \notin Destroyers
      BY DEF Sandbox!Callers, Roles
    <3> QED BY <2>1, OneDecides DEF Sandbox!Claim, Sandbox!Succeed, Sandbox!Fail, Sandbox!Share, Sandbox!Withdraw
  <2>2. ASSUME NEW c \in Connectors \cup Users,
               \/ Sandbox!Admit(c) \/ Sandbox!Refuse(c) \/ Sandbox!Finish(c)
               \/ Sandbox!Install(c) \/ Sandbox!Abandon(c)
        PROVE  Act
    <3> c \in Sandbox!Callers
      BY DEF Sandbox!Callers
    <3> QED BY <2>2, OneDecides DEF Sandbox!Admit, Sandbox!Refuse, Sandbox!Finish, Sandbox!Install, Sandbox!Abandon
  <2>3. CASE Sandbox!Vanish
    BY <2>3 DEF Sandbox!Vanish
  <2> QED BY <2>1, <2>2, <2>3 DEF Sandbox!Next
<1> QED BY <1>1, SandboxPromise, PTL DEF Sandbox!Spec, Sandbox!ClosedIsForever
-----------------------------------------------------------------------------
(* A stream *)

Names == Stream!Pending \notin Stream!Verdicts /\ Success \notin Failures

StreamInv(s) ==
  /\ sent[s] \subseteq Nat
  /\ ended[s] \in BOOLEAN /\ abandoned[s] \in BOOLEAN
  /\ ending[s] \in Stream!Verdicts \cup {Stream!Pending}
  /\ told[s] \in [Waiters -> Stream!Verdicts \cup {Stream!Pending}]
  /\ Stream!Kept(s)

StreamsInv == \A s \in Streams : StreamInv(s)

(* Each step of a stream keeps its promise. *)
LEMMA StreamStep ==
  ASSUME Names, NEW s \in Streams, StreamInv(s), Stream!Step(s)
  PROVE  StreamInv(s)'
<1> /\ abandoned'[s] \in BOOLEAN /\ (abandoned[s] => abandoned'[s])
  BY DEF Stream!Step
<1> USE DEF StreamInv, Stream!Kept, Names
<1>1. CASE Stream!Send(s)
  <2>1. \A p \in taken[s], q \in sent'[s] \ taken[s] : p < q
    BY <1>1 DEF Stream!Send, Stream!Extends
  <2>2. ending[s] = Success => (ended[s] /\ taken[s] = sent[s]) \/ abandoned[s]
    BY DEF Stream!Complete
  <2> QED BY <1>1, <2>1, <2>2 DEF Stream!Send, Stream!Extends, Stream!Complete
<1>2. CASE Stream!HandOver(s)
  <2>1. PICK p \in sent[s] : Stream!Due(s, p) /\ taken'[s] = taken[s] \cup {p}
    BY <1>2 DEF Stream!HandOver
  <2>2. \A q \in sent[s] \ taken'[s] : p < q
    BY <2>1 DEF Stream!Due
  <2> QED BY <1>2, <2>1, <2>2 DEF Stream!HandOver, Stream!Verdicts
<1>3. CASE Stream!Settle(s)
  BY <1>3 DEF Stream!Settle, Stream!Complete
<1>4. CASE Stream!Tell(s)
  BY <1>4 DEF Stream!Tell, Stream!Complete
<1>5. CASE Stream!Rest(s)
  BY <1>5 DEF Stream!Rest, Stream!Complete
<1> QED BY <1>1, <1>2, <1>3, <1>4, <1>5 DEF Stream!Step

(* The promise is kept. *)
THEOREM StreamPromise ==
  ASSUME Names
  PROVE  Stream!Spec => []StreamsInv
<1>1. Stream!Init => StreamsInv
  <2> SUFFICES ASSUME Stream!Init, NEW s \in Streams PROVE StreamInv(s)
    BY DEF StreamsInv
  <2>1. Stream!Pending # Success
    BY DEF Names, Stream!Verdicts
  <2>2. /\ sent[s] = {} /\ taken[s] = {}
        /\ ended[s] = FALSE /\ abandoned[s] = FALSE
        /\ ending[s] = Stream!Pending
        /\ told[s] = [w \in Waiters |-> Stream!Pending]
    BY DEF Stream!Init
  <2>3. Stream!Kept(s)
    BY <2>1, <2>2 DEF Stream!Kept
  <2> QED BY <2>2, <2>3 DEF StreamInv
<1>2. StreamsInv /\ [Stream!Next]_Stream!vars => StreamsInv'
  <2> SUFFICES ASSUME StreamsInv, [Stream!Next]_Stream!vars PROVE StreamsInv'
    OBVIOUS
  <2>1. CASE Stream!Next
    BY <2>1, StreamStep DEF Stream!Next, StreamsInv
  <2>2. CASE UNCHANGED Stream!vars
    BY <2>2 DEF Stream!vars, StreamsInv, StreamInv, Stream!Kept, Stream!Complete
  <2> QED BY <2>1, <2>2
<1> QED BY <1>1, <1>2, PTL DEF Stream!Spec

(* All who wait are told the same. *)
COROLLARY AnswersAgree ==
  ASSUME Names
  PROVE  Stream!Spec => [](\A s \in Streams : \A v, w \in Waiters :
           told[s][v] # Stream!Pending /\ told[s][w] # Stream!Pending => told[s][v] = told[s][w])
<1>1. StreamsInv => \A s \in Streams : \A v, w \in Waiters :
        told[s][v] # Stream!Pending /\ told[s][w] # Stream!Pending => told[s][v] = told[s][w]
  BY DEF StreamsInv, StreamInv, Stream!Kept
<1> QED BY <1>1, StreamPromise, PTL

(* A verdict is the last thing that happens to a stream. *)
THEOREM StreamFinal == Stream!Spec => Stream!VerdictIsFinal
<1>1. [Stream!Next]_Stream!vars => 
        [\A s \in Streams : ending[s] # Stream!Pending =>
           ending'[s] = ending[s] /\ taken'[s] = taken[s]]_Stream!vars
  BY DEF Stream!Next, Stream!Step, Stream!Send, Stream!HandOver, Stream!Settle, Stream!Tell, Stream!Rest
<1> QED BY <1>1, PTL DEF Stream!Spec, Stream!VerdictIsFinal
=============================================================================
