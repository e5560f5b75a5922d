------------------------------- MODULE Command -------------------------------
(***************************************************************************)
(* A process of the sandbox and the CommandHandles on it (process.go): the *)
(* one StartCommand or CreatePTY returns, and those ConnectProcess or      *)
(* ConnectPTY attach later.  Each handle has a goroutine that consumes its *)
(* event stream, and callers that Wait, read the output or cancel.         *)
(*                                                                         *)
(* The events of the process are a log; a stream delivers the log in order *)
(* from the place where it was attached, so that a handle's stream is a    *)
(* cursor into the log.  A chunk of output is its position in the log.     *)
(***************************************************************************)
EXTENDS Integers, Sequences

CONSTANTS Starter,     \* the handle of the StartCommand or CreatePTY call
          Connectors,  \* the handles of the ConnectProcess and ConnectPTY calls
          Waiters,     \* callers of Wait (Exec is one of them)
          Kinds,       \* the output streams: stdout, stderr, pty
          MaxEvents    \* bound: data events a process emits

Handles == {Starter} \cup Connectors
NotData == {"other", "end"}

ASSUME CommandAssumption ==
  /\ Starter \notin Connectors
  /\ Kinds \cap NotData = {}
  /\ MaxEvents \in Nat

VARIABLES
  process,    \* "absent", "running", "exited"
  log,        \* the events of the process: kinds of output, "other", "end"
  phase,      \* where the call that makes the handle, then its goroutine, is
  attached,   \* length of the log when the stream was attached
  cursor,     \* position in the log of the last event received
  captured,   \* h.stdout, h.stderr and h.pty
  reported,   \* what the callbacks were given
  mu,         \* whether the goroutine holds h.mu
  finished,   \* whether h.result is set
  result,     \* the output in h.result
  streamErr,  \* stream.Err() once the loop ended
  err,        \* h.err
  done,       \* whether h.done is closed
  cancelled,  \* whether the stream's context is cancelled
  target,     \* the handle a caller waits for
  answer,     \* the error Wait returned to the caller, or where it is
  given       \* the output in the result Wait returned

stream == <<phase, attached, cursor, streamErr>>
output == <<captured, reported>>
future == <<finished, result, err, done>>
wait   == <<target, answer, given>>
vars   == <<process, log, stream, output, mu, future, cancelled, wait>>

OK          == "nil"
ErrStream   == "process rpc failed"
ErrNoEnd    == "stream ended without an end event"
ErrNoResult == "exited without a result"

Nothing == [k \in Kinds |-> <<>>]

Init ==
  /\ process = "absent"
  /\ log = <<>>
  /\ phase = [h \in Handles |-> "none"]
  /\ attached = [h \in Handles |-> 0]
  /\ cursor = [h \in Handles |-> 0]
  /\ captured = [h \in Handles |-> Nothing]
  /\ reported = [h \in Handles |-> Nothing]
  /\ mu = [h \in Handles |-> FALSE]
  /\ finished = [h \in Handles |-> FALSE]
  /\ result = [h \in Handles |-> Nothing]
  /\ streamErr = [h \in Handles |-> OK]
  /\ err = [h \in Handles |-> OK]
  /\ done = [h \in Handles |-> FALSE]
  /\ cancelled = [h \in Handles |-> FALSE]
  /\ target = [w \in Waiters |-> Starter]
  /\ answer = [w \in Waiters |-> "idle"]
  /\ given = [w \in Waiters |-> Nothing]

Goto(h, p) == phase' = [phase EXCEPT ![h] = p]

-----------------------------------------------------------------------------
(* The process, as envd runs it. *)

Emit(event) ==
  /\ process = "running"
  /\ Len(log) < MaxEvents
  /\ log' = Append(log, event)
  /\ UNCHANGED <<process, stream, output, mu, future, cancelled, wait>>

(* It exits, by itself or killed: the last event. *)
Exit ==
  /\ process = "running"
  /\ process' = "exited"
  /\ log' = Append(log, "end")
  /\ UNCHANGED <<stream, output, mu, future, cancelled, wait>>

-----------------------------------------------------------------------------
(* StartCommand, CreatePTY, ConnectProcess, ConnectPTY: open the stream, then
   awaitProcessStart. *)

Open(h) ==
  /\ phase[h] = "none"
  /\ Goto(h, "opening")
  /\ UNCHANGED <<process, log, attached, cursor, streamErr, output, mu, future, cancelled, wait>>

Attach(h) ==
  /\ attached' = [attached EXCEPT ![h] = Len(log)]
  /\ cursor' = [cursor EXCEPT ![h] = Len(log)]
  /\ Goto(h, "awaiting")
  /\ UNCHANGED <<log, streamErr, output, mu, future, cancelled, wait>>

ServeStart ==
  /\ phase[Starter] = "opening"
  /\ process' = "running"
  /\ Attach(Starter)

ServeConnect(h) ==
  /\ phase[h] = "opening"
  /\ process = "running"
  /\ process' = process
  /\ Attach(h)

(* No stream (the process is not known, the connection fails, the context is
   done), or one whose first message is not a start event: the context is
   cancelled and no handle is made, even if the process runs. *)
OpenFails(h) ==
  /\ phase[h] \in {"opening", "awaiting"}
  /\ Goto(h, "failed")
  /\ cancelled' = [cancelled EXCEPT ![h] = TRUE]
  /\ UNCHANGED <<process, log, attached, cursor, streamErr, output, mu, future, wait>>

(* newCommandHandle: the goroutine starts. *)
Started(h) ==
  /\ phase[h] = "awaiting"
  /\ Goto(h, "receive")
  /\ UNCHANGED <<process, log, attached, cursor, streamErr, output, mu, future, cancelled, wait>>

(* Disconnect, or the caller's context is cancelled or times out (Exec). *)
Cancel(h) ==
  /\ phase[h] # "none"
  /\ ~cancelled[h]
  /\ cancelled' = [cancelled EXCEPT ![h] = TRUE]
  /\ UNCHANGED <<process, log, stream, output, mu, future, wait>>

-----------------------------------------------------------------------------
(* consumeProcessStream *)

(* Mutated: the loop drops what arrives after the cancellation. *)
Receive_DropsWhenCancelled(h) ==
  /\ phase[h] = "receive"
  /\ cursor[h] < Len(log)
  /\ cursor' = [cursor EXCEPT ![h] = @ + 1]
  /\ LET event == log[cursor[h] + 1] IN
     Goto(h, IF event \in Kinds /\ ~cancelled[h] THEN "append" 
             ELSE IF event = "end" THEN "finish" ELSE "receive")
  /\ UNCHANGED <<process, log, attached, streamErr, output, mu, future, cancelled, wait>>

Receive(h) ==
  /\ phase[h] = "receive"
  /\ cursor[h] < Len(log)
  /\ cursor' = [cursor EXCEPT ![h] = @ + 1]
  /\ LET event == log[cursor[h] + 1] IN
     Goto(h, IF event \in Kinds THEN "append" ELSE IF event = "end" THEN "finish" ELSE "receive")
  /\ UNCHANGED <<process, log, attached, streamErr, output, mu, future, cancelled, wait>>

EndLoop(h, e) ==
  /\ phase[h] = "receive"
  /\ streamErr' = [streamErr EXCEPT ![h] = e]
  /\ Goto(h, "seal")
  /\ UNCHANGED <<process, log, attached, cursor, output, mu, future, cancelled, wait>>

(* Mutated: the end of the stream is taken for an error of its own. *)
StreamEnds_EOFIsError(h) == process = "exited" /\ cursor[h] = Len(log) /\ EndLoop(h, ErrNoEnd)

StreamEnds(h)      == process = "exited" /\ cursor[h] = Len(log) /\ EndLoop(h, OK)
StreamCancelled(h) == cancelled[h] /\ EndLoop(h, ErrStream)

(* The connection breaks, or envd ends the stream without an end event. *)
StreamBreaks(h)    == \E e \in {OK, ErrStream} : EndLoop(h, e)

(* appendProcessData: write under the lock, call back without it. *)
AppendLocked(h) ==
  /\ phase[h] = "append"
  /\ ~mu[h]
  /\ mu' = [mu EXCEPT ![h] = TRUE]
  /\ captured' = [captured EXCEPT ![h][log[cursor[h]]] = Append(@, cursor[h])]
  /\ Goto(h, "unlock")
  /\ UNCHANGED <<process, log, attached, cursor, streamErr, reported, future, cancelled, wait>>

(* Mutated: the callback runs under the lock; or not at all for a cancelled
   stream. *)
Unlock_AfterCallback(h) ==
  /\ phase[h] = "unlock"
  /\ Goto(h, "callback")
  /\ UNCHANGED <<process, log, attached, cursor, streamErr, mu, output, future, cancelled, wait>>

Unlock_SkipsCallback(h) ==
  /\ phase[h] = "unlock"
  /\ mu' = [mu EXCEPT ![h] = FALSE]
  /\ Goto(h, IF cancelled[h] THEN "receive" ELSE "callback")
  /\ UNCHANGED <<process, log, attached, cursor, streamErr, output, future, cancelled, wait>>

Unlock(h) ==
  /\ phase[h] = "unlock"
  /\ mu' = [mu EXCEPT ![h] = FALSE]
  /\ Goto(h, "callback")
  /\ UNCHANGED <<process, log, attached, cursor, streamErr, output, future, cancelled, wait>>

(* The caller's function: it may read the output, which takes the lock, and
   may Disconnect. *)
Callback(h) ==
  /\ phase[h] = "callback"
  /\ ~mu[h]
  /\ reported' = [reported EXCEPT ![h][log[cursor[h]]] = Append(@, cursor[h])]
  /\ \E disconnect \in BOOLEAN : cancelled' = [cancelled EXCEPT ![h] = @ \/ disconnect]
  /\ Goto(h, "receive")
  /\ UNCHANGED <<process, log, attached, cursor, streamErr, captured, mu, future, wait>>

(* Mutated: the end event closes done. *)
Finish_ClosesDone(h) ==
  /\ phase[h] = "finish"
  /\ ~mu[h]
  /\ finished' = [finished EXCEPT ![h] = TRUE]
  /\ result' = [result EXCEPT ![h] = captured[h]]
  /\ done' = [done EXCEPT ![h] = TRUE]
  /\ Goto(h, "receive")
  /\ UNCHANGED <<process, log, attached, cursor, streamErr, output, mu, err, cancelled, wait>>

(* finishProcess *)
Finish(h) ==
  /\ phase[h] = "finish"
  /\ ~mu[h]
  /\ finished' = [finished EXCEPT ![h] = TRUE]
  /\ result' = [result EXCEPT ![h] = captured[h]]
  /\ Goto(h, "receive")
  /\ UNCHANGED <<process, log, attached, cursor, streamErr, output, mu, err, done, cancelled, wait>>

(* The section after the loop. *)
Seal(h) ==
  /\ phase[h] = "seal"
  /\ ~mu[h]
  /\ err' = [err EXCEPT ![h] = IF streamErr[h] = OK /\ ~finished[h] THEN ErrNoEnd ELSE streamErr[h]]
  /\ Goto(h, "close")
  /\ UNCHANGED <<process, log, attached, cursor, streamErr, output, mu, finished, result, done, cancelled, wait>>

(* The deferred calls: stream.Close, then close(h.done). *)
Close(h) ==
  /\ phase[h] = "close"
  /\ done' = [done EXCEPT ![h] = TRUE]
  /\ Goto(h, "stopped")
  /\ UNCHANGED <<process, log, attached, cursor, streamErr, output, mu, finished, result, err, cancelled, wait>>

-----------------------------------------------------------------------------
(* Wait *)

Made(h) == phase[h] \notin {"none", "opening", "awaiting", "failed"}

Wait(w, h) ==
  /\ answer[w] = "idle"
  /\ Made(h)
  /\ target' = [target EXCEPT ![w] = h]
  /\ answer' = [answer EXCEPT ![w] = "blocked"]
  /\ UNCHANGED <<process, log, stream, output, mu, future, cancelled, given>>

(* Mutated: it does not wait for done; or it returns what there is. *)
WaitReturns_BeforeDone(w) ==
  LET h == target[w] IN
  /\ answer[w] = "blocked"
  /\ done[h] \/ finished[h]
  /\ ~mu[h]
  /\ answer' = [answer EXCEPT ![w] = 
       IF err[h] # OK THEN err[h] ELSE IF finished[h] THEN OK ELSE ErrNoResult]
  /\ given' = [given EXCEPT ![w] = IF err[h] = OK /\ finished[h] THEN result[h] ELSE @]
  /\ UNCHANGED <<process, log, stream, output, mu, future, cancelled, target>>

WaitReturns_WhatThereIs(w) ==
  LET h == target[w] IN
  /\ answer[w] = "blocked"
  /\ done[h]
  /\ ~mu[h]
  /\ answer' = [answer EXCEPT ![w] = IF err[h] # OK /\ ~cancelled[h] THEN err[h] ELSE OK]
  /\ given' = [given EXCEPT ![w] = captured[h]]
  /\ UNCHANGED <<process, log, stream, output, mu, future, cancelled, target>>

WaitReturns(w) ==
  LET h == target[w] IN
  /\ answer[w] = "blocked"
  /\ done[h]
  /\ ~mu[h]
  /\ answer' = [answer EXCEPT ![w] = 
       IF err[h] # OK THEN err[h] ELSE IF finished[h] THEN OK ELSE ErrNoResult]
  /\ given' = [given EXCEPT ![w] = IF err[h] = OK /\ finished[h] THEN result[h] ELSE @]
  /\ UNCHANGED <<process, log, stream, output, mu, future, cancelled, target>>

-----------------------------------------------------------------------------
Consume(h) ==
  \/ Receive(h) \/ StreamEnds(h) \/ StreamCancelled(h)
  \/ AppendLocked(h) \/ Unlock(h) \/ Callback(h) \/ Finish(h) \/ Seal(h) \/ Close(h)

Terminated ==
  /\ \A h \in Handles : phase[h] \in {"stopped", "failed"}
  /\ \A w \in Waiters : answer[w] # "blocked"
  /\ UNCHANGED vars

Next ==
  \/ \E event \in Kinds \cup {"other"} : Emit(event)
  \/ Exit
  \/ ServeStart
  \/ \E h \in Connectors : ServeConnect(h)
  \/ \E h \in Handles : \/ Open(h) \/ OpenFails(h) \/ Started(h) \/ Cancel(h)
                        \/ Consume(h) \/ StreamBreaks(h)
  \/ \E w \in Waiters : WaitReturns(w) \/ \E h \in Handles : Wait(w, h)
  \/ Terminated

Spec == Init /\ [][Next]_vars

(* Goroutines run, a cancelled or finished stream ends, callbacks return, and
   a caller whose channel is closed proceeds.  The process need not exit, and
   the connection need not break. *)
Fairness ==
  /\ \A h \in Handles : WF_vars(Consume(h))
  /\ \A w \in Waiters : WF_vars(WaitReturns(w))

FairSpec == Spec /\ Fairness

-----------------------------------------------------------------------------
Phases == {"none", "opening", "awaiting", "failed", "receive", "append", "unlock", 
           "callback", "finish", "seal", "close", "stopped"}
Chunks == [Kinds -> Seq(Nat)]

(* Every variable has its type. *)
TypeOK ==
  /\ process \in {"absent", "running", "exited"}
  /\ log \in Seq(Kinds \cup NotData)
  /\ phase \in [Handles -> Phases]
  /\ attached \in [Handles -> Nat]
  /\ cursor \in [Handles -> Nat]
  /\ captured \in [Handles -> Chunks]
  /\ reported \in [Handles -> Chunks]
  /\ mu \in [Handles -> BOOLEAN]
  /\ finished \in [Handles -> BOOLEAN]
  /\ result \in [Handles -> Chunks]
  /\ streamErr \in [Handles -> {OK, ErrStream}]
  /\ err \in [Handles -> {OK, ErrStream, ErrNoEnd}]
  /\ done \in [Handles -> BOOLEAN]
  /\ cancelled \in [Handles -> BOOLEAN]
  /\ target \in [Waiters -> Handles]
  /\ answer \in [Waiters -> {"idle", "blocked", OK, ErrStream, ErrNoEnd, ErrNoResult}]
  /\ given \in [Waiters -> Chunks]

(* s is the output of kind k in the log from position a + 1 to b, in order. *)
IsWindow(s, k, a, b) ==
  /\ \A i, j \in DOMAIN s : i < j => s[i] < s[j]
  /\ {s[i] : i \in DOMAIN s} = {p \in (a + 1)..b : log[p] = k}

(* The last event a handle has dealt with. *)
Handled(h) == IF phase[h] = "append" THEN cursor[h] - 1 ELSE cursor[h]

(* What a handle has captured is exactly what the process wrote since the
   stream was attached, up to the last event dealt with: nothing is lost,
   doubled, reordered or put in the wrong stream, whoever reads, waits or
   cancels meanwhile. *)
OutputIsWindow ==
  \A h \in Handles : \A k \in Kinds : IsWindow(captured[h][k], k, attached[h], Handled(h))

(* The callbacks were given exactly what was captured, except for a chunk that
   is being handed over; when Wait returns no callback is outstanding. *)
CallbacksFollowCapture ==
  \A h \in Handles : phase[h] \notin {"unlock", "callback"} => reported[h] = captured[h]

(* A Wait that reports success gives the complete output of the process since
   the stream was attached: a result is never truncated, whatever breaks or is
   cancelled. *)
SuccessIsComplete ==
  \A w \in Waiters : answer[w] = OK =>
    /\ process = "exited"
    /\ \A k \in Kinds : IsWindow(given[w][k], k, attached[target[w]], Len(log))

(* All callers that wait for a handle get the same answer. *)
WaitersAgree ==
  \A v, w \in Waiters :
    answer[v] \notin {"idle", "blocked"} /\ answer[w] \notin {"idle", "blocked"}
      /\ target[v] = target[w] => answer[v] = answer[w] /\ given[v] = given[w]

(* No Wait returns the error for a handle that has neither a result nor an
   error: consumeProcessStream leaves one of them. *)
NeverWithoutResult == \A w \in Waiters : answer[w] # ErrNoResult

(* After done is closed nothing about the handle changes any more: the output,
   the callbacks' calls, the result and the error are final. *)
DoneIsFinal ==
  [][\A h \in Handles : done[h] => 
       /\ done'[h]
       /\ <<captured[h], reported[h], finished[h], result[h], err[h]>>' = 
          <<captured[h], reported[h], finished[h], result[h], err[h]>>]_vars

(* A caller of Wait returns if the process exits or the stream is cancelled,
   even when callbacks read the output or disconnect. *)
WaitEndsWithProcess ==
  \A w \in Waiters : \A h \in Handles :
    answer[w] = "blocked" /\ target[w] = h /\ (process = "exited" \/ cancelled[h]) 
      ~> answer[w] \notin {"idle", "blocked"}

(* process.go says that Wait blocks until the process stream ends and returns
   the final result. *)
WaitReturnsFinalResult ==
  \A w \in Waiters : 
    answer[w] \notin {"idle", "blocked"} /\ finished[target[w]] => answer[w] = OK

-----------------------------------------------------------------------------
(* Every handle implements the contract of a stream, whatever happens to the
   others on the same process: a stream starts where it was attached, its
   verdict is what Wait returns, and cancelling it is no excuse for reporting
   success. *)
Sent(h) == IF Made(h) THEN {p \in (attached[h] + 1)..Len(log) : log[p] \in Kinds} ELSE {}

Taken(h) == UNION {{reported[h][k][i] : i \in DOMAIN reported[h][k]} : k \in Kinds}

Verdict(h) ==
  IF ~done[h] THEN "pending"
  ELSE IF err[h] # OK THEN err[h] ELSE IF finished[h] THEN OK ELSE ErrNoResult

Told(h, w) ==
  IF target[w] = h /\ answer[w] \notin {"idle", "blocked"} THEN answer[w] ELSE "pending"

Contract == INSTANCE StreamContract
  WITH Streams <- Handles, Success <- OK, Failures <- {ErrStream, ErrNoEnd},
       sent <- [h \in Handles |-> Sent(h)],
       ended <- [h \in Handles |-> Made(h) /\ process = "exited"],
       taken <- [h \in Handles |-> Taken(h)],
       abandoned <- [h \in Handles |-> FALSE],
       verdict <- [h \in Handles |-> Verdict(h)],
       told <- [h \in Handles |-> [w \in Waiters |-> Told(h, w)]]

ImplementsContract == Contract!Spec
=============================================================================
