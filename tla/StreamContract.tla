--------------------------- MODULE StreamContract ---------------------------
(***************************************************************************)
(* What a handle on a stream of events promises to its user, without       *)
(* cursors, locks, contexts or goroutines: the events are handed over in   *)
(* order, each once; then there is one verdict, which does not change and  *)
(* which every caller that waits gets; success means that the stream has   *)
(* ended and all of it was handed over, unless the user abandoned it.      *)
(*                                                                         *)
(* Streams are independent: a step may move several of them.  An event is  *)
(* its position among all that was sent.                                   *)
(***************************************************************************)
EXTENDS Integers

CONSTANTS Streams, Waiters,
          Success,   \* the verdict of a stream without an error
          Failures   \* the other verdicts

Pending  == "pending"
Verdicts == {Success} \cup Failures

VARIABLES sent,       \* the events for the user of a stream
          ended,      \* whether there will be no more
          taken,      \* the events its user was given
          abandoned,  \* whether the user has asked for no more
          verdict,    \* how the stream ended for its user
          told        \* what a waiter was told

vars == <<sent, ended, taken, abandoned, verdict, told>>

Init ==
  /\ sent = [s \in Streams |-> {}]
  /\ ended = [s \in Streams |-> FALSE]
  /\ taken = [s \in Streams |-> {}]
  /\ abandoned = [s \in Streams |-> FALSE]
  /\ verdict = [s \in Streams |-> Pending]
  /\ told = [s \in Streams |-> [w \in Waiters |-> Pending]]

(* More was sent than before, and it came later. *)
Extends(before, after) ==
  before \subseteq after /\ \A p \in before, q \in after \ before : p < q

Send(s) ==
  /\ ~ended[s]
  /\ sent'[s] \subseteq Nat
  /\ Extends(sent[s], sent'[s])
  /\ ended'[s] \in BOOLEAN
  /\ taken'[s] = taken[s] /\ verdict'[s] = verdict[s] /\ told'[s] = told[s]

Due(s, p) ==
  /\ p \in sent[s] \ taken[s]
  /\ \A q \in sent[s] \ taken[s] : p <= q

HandOver(s) ==
  /\ verdict[s] = Pending
  /\ \E p \in sent[s] : Due(s, p) /\ taken'[s] = taken[s] \cup {p}
  /\ sent'[s] = sent[s] /\ ended'[s] = ended[s] /\ verdict'[s] = verdict[s] /\ told'[s] = told[s]

Complete(s) == ended[s] /\ taken[s] = sent[s]

Settle(s) ==
  /\ verdict[s] = Pending
  /\ verdict'[s] \in Verdicts
  /\ verdict'[s] = Success => Complete(s) \/ abandoned[s]
  /\ sent'[s] = sent[s] /\ ended'[s] = ended[s] /\ taken'[s] = taken[s] /\ told'[s] = told[s]

Tell(s) ==
  /\ verdict[s] # Pending
  /\ \E w \in Waiters : told[s][w] = Pending /\ told'[s] = [told[s] EXCEPT ![w] = verdict[s]]
  /\ sent'[s] = sent[s] /\ ended'[s] = ended[s] /\ taken'[s] = taken[s] /\ verdict'[s] = verdict[s]

Rest(s) ==
  /\ sent'[s] = sent[s] /\ ended'[s] = ended[s] /\ taken'[s] = taken[s]
  /\ verdict'[s] = verdict[s] /\ told'[s] = told[s]

(* The user may abandon a stream at any step, from the function that is given
   the events too. *)
Step(s) ==
  /\ Rest(s) \/ Send(s) \/ HandOver(s) \/ Settle(s) \/ Tell(s)
  /\ abandoned'[s] \in BOOLEAN
  /\ abandoned[s] => abandoned'[s]

Next == \A s \in Streams : Step(s)

Spec == Init /\ [][Next]_vars

-----------------------------------------------------------------------------
(* What follows for the user of a stream: he was given the first events that
   were sent, in order; every answer is the verdict; and a success that he did
   not ask for by abandoning the stream means that nothing is missing, then
   and for ever. *)
Kept(s) ==
  /\ taken[s] \subseteq sent[s]
  /\ \A p \in taken[s], q \in sent[s] \ taken[s] : p < q
  /\ \A w \in Waiters : told[s][w] \in {Pending, verdict[s]}
  /\ verdict[s] = Success => Complete(s) \/ abandoned[s]

KeepsItsPromise == \A s \in Streams : Kept(s)

(* A verdict is the last thing: neither it nor what was handed over changes. *)
VerdictIsFinal ==
  [][\A s \in Streams : verdict[s] # Pending =>
       verdict'[s] = verdict[s] /\ taken'[s] = taken[s]]_vars
=============================================================================
