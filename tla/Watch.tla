-------------------------------- MODULE Watch --------------------------------
(***************************************************************************)
(* A directory watch (filesystem.go): WatchDir opens a stream, a goroutine *)
(* hands its filesystem events to the caller's onEvent, and the caller may *)
(* Stop the watch, from anywhere, and Wait for its end.                    *)
(*                                                                         *)
(* The events envd sends are a log; the stream delivers them in order, the *)
(* ones that are buffered also after the watch was stopped.                *)
(***************************************************************************)
EXTENDS Integers, Sequences

CONSTANTS Types,     \* the event types mapFilesystemEventType knows
          Waiters,   \* callers of Wait
          MaxEvents  \* bound: messages envd sends

Other == "other"     \* a message without a filesystem event, or of an unknown type

ASSUME WatchAssumption == Other \notin Types /\ MaxEvents \in Nat

VARIABLES
  phase,     \* where WatchDir, then the goroutine, is
  log,       \* the messages sent after the start event
  open,      \* whether envd still sends
  cursor,    \* position in the log of the last message received
  reported,  \* the events onEvent was given
  stopped,   \* whether the caller called Stop
  context,   \* the error of the stream's context: nil, canceled, deadline
  broken,    \* whether the connection broke, or envd refused to go on
  streamErr, \* stream.Err() once the loop ended
  err,       \* h.err
  done,      \* whether h.done is closed
  answer     \* what Wait returned to a caller, or where it is

remote  == <<log, open, broken>>
control == <<stopped, context>>
future  == <<err, done>>
vars    == <<phase, remote, cursor, reported, control, streamErr, future, answer>>

OK          == "nil"
Canceled    == "context canceled"
Deadline    == "context deadline exceeded"
ErrRPC      == "rpc failed"
ErrDeadline == "rpc failed: deadline"

Init ==
  /\ phase = "opening"
  /\ log = <<>>
  /\ open = TRUE
  /\ broken = FALSE
  /\ cursor = 0
  /\ reported = <<>>
  /\ stopped = FALSE
  /\ context = OK
  /\ streamErr = OK
  /\ err = OK
  /\ done = FALSE
  /\ answer = [w \in Waiters |-> "idle"]

-----------------------------------------------------------------------------
(* envd *)

Send(event) ==
  /\ phase \notin {"opening", "failed"}
  /\ open
  /\ Len(log) < MaxEvents
  /\ log' = Append(log, event)
  /\ UNCHANGED <<phase, open, broken, cursor, reported, control, streamErr, future, answer>>

(* It ends the stream, with or without an error; or the connection breaks. *)
Ends ==
  /\ open
  /\ open' = FALSE
  /\ broken' \in BOOLEAN
  /\ UNCHANGED <<phase, log, cursor, reported, control, streamErr, future, answer>>

-----------------------------------------------------------------------------
(* The caller *)

(* The stream is there and its first message is a start event. *)
Opened ==
  /\ phase = "opening"
  /\ phase' = "receive"
  /\ UNCHANGED <<remote, cursor, reported, control, streamErr, future, answer>>

(* The call fails, or its first message is another: the context is cancelled
   and there is no handle. *)
OpenFails ==
  /\ phase = "opening"
  /\ phase' = "failed"
  /\ context' = IF context = OK THEN Canceled ELSE context
  /\ UNCHANGED <<remote, cursor, reported, stopped, streamErr, future, answer>>

(* Mutated: Stop is taken for the end of the watch. *)
Stop_ClosesDone ==
  /\ phase \notin {"opening", "failed"}
  /\ ~stopped
  /\ stopped' = TRUE
  /\ context' = IF context = OK THEN Canceled ELSE context
  /\ done' = TRUE
  /\ UNCHANGED <<phase, remote, cursor, reported, streamErr, err, answer>>

Stop ==
  /\ phase \notin {"opening", "failed"}
  /\ ~stopped
  /\ stopped' = TRUE
  /\ context' = IF context = OK THEN Canceled ELSE context
  /\ UNCHANGED <<phase, remote, cursor, reported, streamErr, future, answer>>

(* The caller's context is cancelled, or its deadline passes. *)
ParentDone ==
  /\ context = OK
  /\ context' \in {Canceled, Deadline}
  /\ UNCHANGED <<phase, remote, cursor, reported, stopped, streamErr, future, answer>>

Wait(w) ==
  /\ answer[w] = "idle"
  /\ phase \notin {"opening", "failed"}
  /\ answer' = [answer EXCEPT ![w] = "blocked"]
  /\ UNCHANGED <<phase, remote, cursor, reported, control, streamErr, future>>

WaitReturns(w) ==
  /\ answer[w] = "blocked"
  /\ done
  /\ answer' = [answer EXCEPT ![w] = err]
  /\ UNCHANGED <<phase, remote, cursor, reported, control, streamErr, future>>

-----------------------------------------------------------------------------
(* consumeWatchStream *)

(* Mutated: what arrives after Stop is dropped. *)
Receive_DropsWhenStopped ==
  /\ phase = "receive"
  /\ cursor < Len(log)
  /\ cursor' = cursor + 1
  /\ phase' = IF log[cursor + 1] \in Types /\ ~stopped THEN "event" ELSE "receive"
  /\ UNCHANGED <<remote, reported, control, streamErr, future, answer>>

Receive ==
  /\ phase = "receive"
  /\ cursor < Len(log)
  /\ cursor' = cursor + 1
  /\ phase' = IF log[cursor + 1] \in Types THEN "event" ELSE "receive"
  /\ UNCHANGED <<remote, reported, control, streamErr, future, answer>>

(* onEvent, which may Stop the watch. *)
OnEvent ==
  /\ phase = "event"
  /\ reported' = Append(reported, cursor)
  /\ phase' = "receive"
  /\ \E stop \in BOOLEAN :
       /\ stopped' = (stopped \/ stop)
       /\ context' = IF stop /\ context = OK THEN Canceled ELSE context
  /\ UNCHANGED <<remote, cursor, streamErr, future, answer>>

EndLoop(e) ==
  /\ phase = "receive"
  /\ streamErr' = e
  /\ phase' = "seal"
  /\ UNCHANGED <<remote, cursor, reported, control, future, answer>>

(* Mutated: the stream is not made with the context that Stop cancels. *)
StreamCancelled_Detached == FALSE /\ UNCHANGED vars

(* A done context ends the stream where it is. *)
StreamCancelled == context # OK /\ EndLoop(context)

(* A broken connection may lose what was buffered; an orderly end does not. *)
StreamEnds ==
  /\ ~open
  /\ broken \/ cursor = Len(log)
  /\ EndLoop(IF broken THEN ErrRPC ELSE OK)

(* Mutated: a cancelled stream is an error; or errors are left as they are. *)
WatchError_KeepsCanceled(e) == IF e \in {Canceled, Deadline} THEN ErrDeadline ELSE e
WatchError_Raw(e) == e

(* errors.Is(err, context.Canceled) holds of the error of a cancelled stream,
   and not of one whose deadline passed. *)
WatchError(e) == IF e = Canceled THEN OK ELSE IF e = Deadline THEN ErrDeadline ELSE e

Seal ==
  /\ phase = "seal"
  /\ err' = WatchError(streamErr)
  /\ phase' = "close"
  /\ UNCHANGED <<remote, cursor, reported, control, streamErr, done, answer>>

(* The deferred calls: stream.Close, then close(h.done). *)
Close ==
  /\ phase = "close"
  /\ done' = TRUE
  /\ phase' = "stopped"
  /\ UNCHANGED <<remote, cursor, reported, control, streamErr, err, answer>>

-----------------------------------------------------------------------------
Consume == Receive \/ OnEvent \/ StreamCancelled \/ StreamEnds \/ Seal \/ Close

Terminated ==
  /\ phase \in {"failed", "stopped"}
  /\ \A w \in Waiters : answer[w] # "blocked"
  /\ UNCHANGED vars

Next ==
  \/ \E event \in Types \cup {Other} : Send(event)
  \/ Ends \/ Opened \/ OpenFails \/ Stop \/ ParentDone
  \/ \E w \in Waiters : Wait(w) \/ WaitReturns(w)
  \/ Consume
  \/ Terminated

Spec == Init /\ [][Next]_vars

(* The goroutine runs, onEvent returns, and a waiter whose channel is closed
   proceeds. *)
Fairness == WF_vars(Consume) /\ \A w \in Waiters : WF_vars(WaitReturns(w))

FairSpec == Spec /\ Fairness

-----------------------------------------------------------------------------
(* Every variable has its type. *)
TypeOK ==
  /\ phase \in {"opening", "failed", "receive", "event", "seal", "close", "stopped"}
  /\ log \in Seq(Types \cup {Other})
  /\ open \in BOOLEAN
  /\ broken \in BOOLEAN
  /\ cursor \in Nat
  /\ reported \in Seq(Nat)
  /\ stopped \in BOOLEAN
  /\ context \in {OK, Canceled, Deadline}
  /\ streamErr \in {OK, Canceled, Deadline, ErrRPC}
  /\ err \in {OK, ErrRPC, ErrDeadline}
  /\ done \in BOOLEAN
  /\ answer \in [Waiters -> {"idle", "blocked", OK, ErrRPC, ErrDeadline}]

(* onEvent was given exactly the filesystem events received so far, in order,
   each once: a message of another kind between two of them loses nothing. *)
EventsInOrder ==
  LET seen == IF phase = "event" THEN cursor - 1 ELSE cursor IN
  /\ \A i, j \in DOMAIN reported : i < j => reported[i] < reported[j]
  /\ {reported[i] : i \in DOMAIN reported} = {p \in 1..seen : log[p] \in Types}

(* An error of Wait is never the consequence of Stop or of a cancellation: the
   connection broke, or a deadline passed before the watch was stopped. *)
StopIsNoError ==
  \A w \in Waiters : /\ answer[w] = ErrDeadline => context = Deadline
                     /\ answer[w] = ErrRPC => broken

(* The other way round, nil hides nothing: unless the watch was cancelled, all
   filesystem events envd sent have been given to onEvent. *)
NilIsComplete ==
  \A w \in Waiters : answer[w] = OK =>
    \/ context = Canceled
    \/ {reported[i] : i \in DOMAIN reported} = {p \in 1..Len(log) : log[p] \in Types}

(* Once a Wait has returned onEvent is not called any more. *)
NoEventAfterWait ==
  [][(\E w \in Waiters : answer[w] \notin {"idle", "blocked"}) => reported' = reported]_vars

(* A caller that waits for a watch that was stopped returns, also when Stop is
   called by onEvent itself. *)
StopEndsWait ==
  \A w \in Waiters : answer[w] = "blocked" /\ stopped ~> answer[w] \notin {"idle", "blocked"}

-----------------------------------------------------------------------------
(* The watch implements the contract of a stream: its filesystem events are
   handed over in order and before its verdict, which is h.err once done is
   closed, is final and the same for all waiters; nil without a cancellation
   means that all of them were. *)
Sent == {p \in 1..Len(log) : log[p] \in Types}

Told(w) == IF answer[w] \in {"idle", "blocked"} THEN "pending" ELSE answer[w]

Contract == INSTANCE StreamContract
  WITH Streams <- {"watch"}, Success <- OK, Failures <- {ErrRPC, ErrDeadline},
       sent <- [s \in {"watch"} |-> Sent],
       ended <- [s \in {"watch"} |-> ~open],
       taken <- [s \in {"watch"} |-> {reported[i] : i \in DOMAIN reported}],
       abandoned <- [s \in {"watch"} |-> context = Canceled],
       verdict <- [s \in {"watch"} |-> IF done THEN err ELSE "pending"],
       told <- [s \in {"watch"} |-> [w \in Waiters |-> Told(w)]]

ImplementsContract == Contract!Spec
=============================================================================
