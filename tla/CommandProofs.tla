---------------------------- MODULE CommandProofs ----------------------------
(***************************************************************************)
(* The safety properties of Command, for any number of handles, callers,   *)
(* output streams and events.                                              *)
(***************************************************************************)
EXTENDS Command, TLAPS

(* The log ends with its only end event, and only of a process that exited. *)
LogInv ==
  /\ \A p \in 1..Len(log) : log[p] = "end" => p = Len(log) /\ process = "exited"
  /\ process = "exited" => Len(log) > 0 /\ log[Len(log)] = "end"
  /\ phase[Starter] \in {"none", "opening"} => process = "absent"

(* Where a stream's cursor is, and what the goroutine has in hand. *)
CursorInv ==
  \A h \in Handles :
    /\ attached[h] <= cursor[h] /\ cursor[h] <= Len(log)
    /\ phase[h] \in {"none", "opening"} => attached[h] = cursor[h]
    /\ phase[h] \in {"append", "unlock", "callback"} => 
         attached[h] < cursor[h] /\ log[cursor[h]] \in Kinds
    /\ phase[h] = "finish" => attached[h] < cursor[h] /\ log[cursor[h]] = "end"

(* Nothing is captured before the stream is attached, and the goroutine holds
   the lock only between writing a chunk and calling back. *)
QuietInv ==
  /\ \A h \in Handles : phase[h] \in {"none", "opening", "awaiting"} => captured[h] = Nothing
  /\ \A h \in Handles : mu[h] <=> phase[h] = "unlock"

(* A result is the capture at the end of the log. *)
ResultInv ==
  \A h \in Handles : finished[h] =>
    /\ process = "exited"
    /\ cursor[h] = Len(log)
    /\ result[h] = captured[h]
    /\ phase[h] \in {"receive", "seal", "close", "stopped"}

(* done is the last thing of a goroutine, which leaves an error or a result. *)
DoneInv ==
  \A h \in Handles :
    /\ done[h] <=> phase[h] = "stopped"
    /\ phase[h] \in {"close", "stopped"} /\ err[h] = OK => finished[h]

(* The callbacks lag by the chunk in hand. *)
ReportInv ==
  \A h \in Handles :
    IF phase[h] \in {"unlock", "callback"}
    THEN captured[h] = [reported[h] EXCEPT ![log[cursor[h]]] = Append(@, cursor[h])]
    ELSE captured[h] = reported[h]

(* What a caller was told is what the handle says. *)
WaitInv ==
  \A w \in Waiters : LET h == target[w] IN
    /\ answer[w] # "idle" => Made(h)
    /\ answer[w] \notin {"idle", "blocked"} =>
         /\ done[h]
         /\ answer[w] = IF err[h] # OK THEN err[h] ELSE OK
         /\ given[w] = IF err[h] = OK THEN result[h] ELSE Nothing
    /\ answer[w] \in {"idle", "blocked"} => given[w] = Nothing

(* The inductive invariant. *)
IInv == TypeOK /\ LogInv /\ CursorInv /\ OutputIsWindow /\ QuietInv /\ ResultInv /\ DoneInv /\ ReportInv /\ WaitInv

-----------------------------------------------------------------------------
(* The names of answers are distinct. *)
LEMMA AnswersDistinct ==
  /\ OK \notin {ErrStream, ErrNoEnd, ErrNoResult, "idle", "blocked"}
  /\ {ErrStream, ErrNoEnd, ErrNoResult} \cap {"idle", "blocked"} = {}
  BY DEF OK, ErrStream, ErrNoEnd, ErrNoResult

(* Writing a chunk keeps the type of a capture. *)
LEMMA AppendChunk ==
  ASSUME NEW f \in Chunks, NEW k, NEW i \in Nat
  PROVE  [f EXCEPT ![k] = Append(@, i)] \in Chunks
<1>1. CASE k \in Kinds
  <2>1. Append(f[k], i) \in Seq(Nat)
    BY <1>1 DEF Chunks
  <2> QED BY <1>1, <2>1 DEF Chunks
<1>2. CASE k \notin Kinds
  BY <1>2 DEF Chunks
<1> QED BY <1>1, <1>2

(* An event added to the log leaves the earlier ones where they are. *)
LEMMA LogGrows ==
  ASSUME TypeOK, NEW event \in Kinds \cup NotData, log' = Append(log, event)
  PROVE  /\ Len(log') = Len(log) + 1
         /\ log'[Len(log) + 1] = event
         /\ \A p \in 1..Len(log) : log'[p] = log[p]
  BY DEF TypeOK

(* An event of another kind extends a window by nothing. *)
LEMMA WindowSkips ==
  ASSUME NEW s, NEW k, NEW a \in Nat, NEW b \in Nat, a <= b, log[b + 1] # k,
         IsWindow(s, k, a, b)
  PROVE  IsWindow(s, k, a, b + 1)
<1>1. {p \in (a + 1)..(b + 1) : log[p] = k} = {p \in (a + 1)..b : log[p] = k}
  OBVIOUS
<1> QED BY <1>1 DEF IsWindow

(* A chunk of its kind extends it by that chunk. *)
LEMMA WindowExtends ==
  ASSUME NEW s \in Seq(Nat), NEW k, NEW a \in Nat, NEW b \in Nat, a <= b, log[b + 1] = k,
         IsWindow(s, k, a, b)
  PROVE  IsWindow(Append(s, b + 1), k, a, b + 1)
<1> DEFINE t == Append(s, b + 1)
<1>1. /\ DOMAIN t = 1..(Len(s) + 1) /\ DOMAIN s = 1..Len(s) /\ Len(s) \in Nat
      /\ t[Len(s) + 1] = b + 1
      /\ \A i \in 1..Len(s) : t[i] = s[i] /\ s[i] \in Nat
  OBVIOUS
<1>2. {s[i] : i \in DOMAIN s} = {p \in (a + 1)..b : log[p] = k}
  BY DEF IsWindow
<1>3. \A i \in 1..Len(s) : s[i] < b + 1
  <2> SUFFICES ASSUME NEW i \in 1..Len(s) PROVE s[i] < b + 1
    OBVIOUS
  <2>1. s[i] \in {p \in (a + 1)..b : log[p] = k}
    BY <1>1, <1>2
  <2> QED BY <2>1
<1>4. \A i, j \in DOMAIN s : i < j => s[i] < s[j]
  BY DEF IsWindow
<1>5. ASSUME NEW i \in DOMAIN t, NEW j \in DOMAIN t, i < j PROVE t[i] < t[j]
  <2>1. CASE j = Len(s) + 1
    BY <2>1, <1>1, <1>3, <1>5
  <2>2. CASE j # Len(s) + 1
    <3>1. i \in 1..Len(s) /\ j \in 1..Len(s)
      BY <2>2, <1>1, <1>5
    <3> QED BY <3>1, <1>1, <1>4, <1>5
  <2> QED BY <2>1, <2>2
<1>6. {t[i] : i \in DOMAIN t} = {s[i] : i \in DOMAIN s} \cup {b + 1}
  <2> HIDE DEF t
  <2> QED BY <1>1
<1>7. {p \in (a + 1)..(b + 1) : log[p] = k} = {p \in (a + 1)..b : log[p] = k} \cup {b + 1}
  OBVIOUS
<1> QED BY <1>2, <1>5, <1>6, <1>7 DEF IsWindow

(* A step that writes no output and deals with no event keeps the captures. *)
LEMMA CaptureStays ==
  ASSUME IInv, UNCHANGED <<captured, attached>>,
         \A h \in Handles : Handled(h)' = Handled(h),
         \A p \in 1..Len(log) : log'[p] = log[p]
  PROVE  OutputIsWindow'
<1> SUFFICES ASSUME NEW h \in Handles, NEW k \in Kinds
             PROVE  IsWindow(captured[h][k], k, attached[h], Handled(h))'
  BY DEF OutputIsWindow
<1>1. attached[h] \in Nat /\ Handled(h) \in Nat /\ Handled(h) <= Len(log) /\ Len(log) \in Nat
  BY DEF IInv, TypeOK, CursorInv, Handled
<1>2. IsWindow(captured[h][k], k, attached[h], Handled(h))
  BY DEF IInv, OutputIsWindow
<1>3. \A p \in 1..Handled(h) : log'[p] = log[p]
  BY <1>1
<1>4. {p \in (attached[h] + 1)..Handled(h) : log'[p] = k} = {p \in (attached[h] + 1)..Handled(h) : log[p] = k}
  BY <1>1, <1>3
<1>5. captured'[h][k] = captured[h][k] /\ attached'[h] = attached[h] /\ Handled(h)' = Handled(h)
  OBVIOUS
<1> QED BY <1>2, <1>4, <1>5 DEF IsWindow

(* Every variable has its type, however many handles, callers and events. *)
THEOREM TypeCorrect == Spec => []TypeOK
<1> USE CommandAssumption DEF TypeOK, Handles, NotData, Chunks, Phases
<1>1. Init => TypeOK
  BY DEF Init, Nothing
<1>2. TypeOK /\ [Next]_vars => TypeOK'
  <2> SUFFICES ASSUME TypeOK, [Next]_vars PROVE TypeOK'
    OBVIOUS
  <2> USE DEF Goto, stream, output, future, wait
  <2>1. ASSUME NEW event \in Kinds \cup {"other"}, Emit(event) PROVE TypeOK'
    BY <2>1 DEF Emit
  <2>2. CASE Exit
    BY <2>2 DEF Exit
  <2>3. CASE ServeStart
    BY <2>3 DEF ServeStart, Attach
  <2>4. ASSUME NEW h \in Connectors, ServeConnect(h) PROVE TypeOK'
    BY <2>4 DEF ServeConnect, Attach
  <2>5. ASSUME NEW h \in Handles, Open(h) PROVE TypeOK'
    BY <2>5 DEF Open
  <2>6. ASSUME NEW h \in Handles, OpenFails(h) PROVE TypeOK'
    BY <2>6 DEF OpenFails
  <2>7. ASSUME NEW h \in Handles, Started(h) PROVE TypeOK'
    BY <2>7 DEF Started
  <2>8. ASSUME NEW h \in Handles, Cancel(h) PROVE TypeOK'
    BY <2>8 DEF Cancel
  <2>9. ASSUME NEW h \in Handles, Receive(h) PROVE TypeOK'
    BY <2>9 DEF Receive
  <2>10. ASSUME NEW h \in Handles, StreamEnds(h) \/ StreamCancelled(h) \/ StreamBreaks(h) PROVE TypeOK'
    <3>1. PICK e \in {OK, ErrStream} : EndLoop(h, e)
      BY <2>10 DEF StreamEnds, StreamCancelled, StreamBreaks
    <3> QED BY <3>1 DEF EndLoop
  <2>11. ASSUME NEW h \in Handles, AppendLocked(h) PROVE TypeOK'
    <3>1. [captured[h] EXCEPT ![log[cursor[h]]] = Append(@, cursor[h])] \in Chunks
      BY AppendChunk
    <3> QED BY <2>11, <3>1 DEF AppendLocked
  <2>12. ASSUME NEW h \in Handles, Unlock(h) PROVE TypeOK'
    BY <2>12 DEF Unlock
  <2>13. ASSUME NEW h \in Handles, Callback(h) PROVE TypeOK'
    <3>1. [reported[h] EXCEPT ![log[cursor[h]]] = Append(@, cursor[h])] \in Chunks
      BY AppendChunk
    <3> QED BY <2>13, <3>1 DEF Callback
  <2>14. ASSUME NEW h \in Handles, Finish(h) PROVE TypeOK'
    BY <2>14 DEF Finish
  <2>15. ASSUME NEW h \in Handles, Seal(h) PROVE TypeOK'
    BY <2>15 DEF Seal
  <2>16. ASSUME NEW h \in Handles, Close(h) PROVE TypeOK'
    BY <2>16 DEF Close
  <2>17. ASSUME NEW w \in Waiters, NEW h \in Handles, Wait(w, h) PROVE TypeOK'
    BY <2>17 DEF Wait
  <2>18. ASSUME NEW w \in Waiters, WaitReturns(w) PROVE TypeOK'
    BY <2>18 DEF WaitReturns
  <2>19. CASE UNCHANGED vars
    BY <2>19 DEF vars
  <2> QED
    BY <2>1, <2>2, <2>3, <2>4, <2>5, <2>6, <2>7, <2>8, <2>9, <2>10, <2>11, <2>12, <2>13, <2>14, <2>15, <2>16, <2>17, <2>18, <2>19
    DEF Next, Consume, Terminated
<1>3. QED
  BY <1>1, <1>2, PTL DEF Spec

(* The end event stays the last of the log. *)
LEMMA LogStep ==
  ASSUME IInv, TypeOK', [Next]_vars
  PROVE  LogInv'
<1> USE CommandAssumption DEF IInv, TypeOK, Handles, NotData, Goto, stream, output, future, wait,
        LogInv
<1>1. ASSUME NEW event \in Kinds \cup {"other"}, Emit(event) PROVE LogInv'
  BY <1>1 DEF Emit
<1>2. CASE Exit
  BY <1>2 DEF Exit
<1>3. CASE ServeStart
  BY <1>3 DEF ServeStart, Attach
<1>4. ASSUME NEW h \in Connectors, ServeConnect(h) PROVE LogInv'
  BY <1>4 DEF ServeConnect, Attach
<1>5. ASSUME NEW h \in Handles, Open(h) PROVE LogInv'
  BY <1>5 DEF Open
<1>6. ASSUME NEW h \in Handles, OpenFails(h) PROVE LogInv'
  BY <1>6 DEF OpenFails
<1>7. ASSUME NEW h \in Handles, Started(h) PROVE LogInv'
  BY <1>7 DEF Started
<1>8. ASSUME NEW h \in Handles, Cancel(h) PROVE LogInv'
  BY <1>8 DEF Cancel
<1>9. ASSUME NEW h \in Handles, Receive(h) PROVE LogInv'
  BY <1>9 DEF Receive
<1>10. ASSUME NEW h \in Handles, StreamEnds(h) \/ StreamCancelled(h) \/ StreamBreaks(h) PROVE LogInv'
  BY <1>10 DEF StreamEnds, StreamCancelled, StreamBreaks, EndLoop
<1>11. ASSUME NEW h \in Handles, AppendLocked(h) PROVE LogInv'
  BY <1>11 DEF AppendLocked
<1>12. ASSUME NEW h \in Handles, Unlock(h) PROVE LogInv'
  BY <1>12 DEF Unlock
<1>13. ASSUME NEW h \in Handles, Callback(h) PROVE LogInv'
  BY <1>13 DEF Callback
<1>14. ASSUME NEW h \in Handles, Finish(h) PROVE LogInv'
  BY <1>14 DEF Finish
<1>15. ASSUME NEW h \in Handles, Seal(h) PROVE LogInv'
  BY <1>15 DEF Seal
<1>16. ASSUME NEW h \in Handles, Close(h) PROVE LogInv'
  BY <1>16 DEF Close
<1>17. ASSUME NEW w \in Waiters, NEW h \in Handles, Wait(w, h) PROVE LogInv'
  BY <1>17 DEF Wait
<1>18. ASSUME NEW w \in Waiters, WaitReturns(w) PROVE LogInv'
  BY <1>18 DEF WaitReturns
<1>19. CASE UNCHANGED vars
  BY <1>19 DEF vars
<1> QED
  BY <1>1, <1>2, <1>3, <1>4, <1>5, <1>6, <1>7, <1>8, <1>9, <1>10, <1>11, <1>12, <1>13, <1>14, <1>15, <1>16, <1>17, <1>18, <1>19
  DEF Next, Consume, Terminated

(* A cursor moves through the log, and stands on the event in hand. *)
LEMMA CursorStep ==
  ASSUME IInv, TypeOK', [Next]_vars
  PROVE  CursorInv'
<1> USE CommandAssumption DEF IInv, TypeOK, Handles, NotData, Goto, stream, output, future, wait,
        CursorInv, LogInv
<1>1. ASSUME NEW event \in Kinds \cup {"other"}, Emit(event) PROVE CursorInv'
  BY <1>1 DEF Emit
<1>2. CASE Exit
  BY <1>2 DEF Exit
<1>3. CASE ServeStart
  BY <1>3 DEF ServeStart, Attach
<1>4. ASSUME NEW h \in Connectors, ServeConnect(h) PROVE CursorInv'
  BY <1>4 DEF ServeConnect, Attach
<1>5. ASSUME NEW h \in Handles, Open(h) PROVE CursorInv'
  BY <1>5 DEF Open
<1>6. ASSUME NEW h \in Handles, OpenFails(h) PROVE CursorInv'
  BY <1>6 DEF OpenFails
<1>7. ASSUME NEW h \in Handles, Started(h) PROVE CursorInv'
  BY <1>7 DEF Started
<1>8. ASSUME NEW h \in Handles, Cancel(h) PROVE CursorInv'
  BY <1>8 DEF Cancel
<1>9. ASSUME NEW h \in Handles, Receive(h) PROVE CursorInv'
  BY <1>9 DEF Receive
<1>10. ASSUME NEW h \in Handles, StreamEnds(h) \/ StreamCancelled(h) \/ StreamBreaks(h) PROVE CursorInv'
  BY <1>10 DEF StreamEnds, StreamCancelled, StreamBreaks, EndLoop
<1>11. ASSUME NEW h \in Handles, AppendLocked(h) PROVE CursorInv'
  BY <1>11 DEF AppendLocked
<1>12. ASSUME NEW h \in Handles, Unlock(h) PROVE CursorInv'
  BY <1>12 DEF Unlock
<1>13. ASSUME NEW h \in Handles, Callback(h) PROVE CursorInv'
  BY <1>13 DEF Callback
<1>14. ASSUME NEW h \in Handles, Finish(h) PROVE CursorInv'
  BY <1>14 DEF Finish
<1>15. ASSUME NEW h \in Handles, Seal(h) PROVE CursorInv'
  BY <1>15 DEF Seal
<1>16. ASSUME NEW h \in Handles, Close(h) PROVE CursorInv'
  BY <1>16 DEF Close
<1>17. ASSUME NEW w \in Waiters, NEW h \in Handles, Wait(w, h) PROVE CursorInv'
  BY <1>17 DEF Wait
<1>18. ASSUME NEW w \in Waiters, WaitReturns(w) PROVE CursorInv'
  BY <1>18 DEF WaitReturns
<1>19. CASE UNCHANGED vars
  BY <1>19 DEF vars
<1> QED
  BY <1>1, <1>2, <1>3, <1>4, <1>5, <1>6, <1>7, <1>8, <1>9, <1>10, <1>11, <1>12, <1>13, <1>14, <1>15, <1>16, <1>17, <1>18, <1>19
  DEF Next, Consume, Terminated

(* A handle's capture stays the window between its stream's start and the last
   event dealt with. *)
LEMMA WindowStep ==
  ASSUME IInv, TypeOK', [Next]_vars
  PROVE  OutputIsWindow'
<1> USE CommandAssumption DEF Handles, NotData, Goto, stream, output, future, wait
<1>0. TypeOK
  BY DEF IInv
<1>1. ASSUME NEW event \in Kinds \cup {"other"}, Emit(event) PROVE OutputIsWindow'
  <2>1. \A p \in 1..Len(log) : log'[p] = log[p]
    BY <1>0, <1>1, LogGrows DEF Emit
  <2>2. UNCHANGED <<captured, attached>> /\ \A g \in Handles : Handled(g)' = Handled(g)
    BY <1>0, <1>1 DEF Emit, Handled, TypeOK
  <2> QED BY <2>1, <2>2, CaptureStays
<1>2. CASE Exit
  <2>1. \A p \in 1..Len(log) : log'[p] = log[p]
    BY <1>0, <1>2, LogGrows DEF Exit
  <2>2. UNCHANGED <<captured, attached>> /\ \A g \in Handles : Handled(g)' = Handled(g)
    BY <1>0, <1>2 DEF Exit, Handled, TypeOK
  <2> QED BY <2>1, <2>2, CaptureStays
<1>3. CASE ServeStart
  <2> SUFFICES ASSUME NEW g \in Handles, NEW k \in Kinds
               PROVE  IsWindow(captured[g][k], k, attached[g], Handled(g))'
    BY DEF OutputIsWindow
  <2>1. CASE g = Starter
    <3>1. captured'[g][k] = <<>> /\ attached'[g] = Len(log) /\ Handled(g)' = Len(log) /\ log' = log
      BY <1>0, <1>3, <2>1 DEF ServeStart, Attach, Handled, IInv, QuietInv, Nothing, TypeOK
    <3>2. {p \in (Len(log) + 1)..Len(log) : log[p] = k} = {}
      BY <1>0 DEF TypeOK
    <3> QED BY <3>1, <3>2 DEF IsWindow
  <2>2. CASE g # Starter
    <3>1. /\ captured'[g][k] = captured[g][k] /\ attached'[g] = attached[g]
          /\ Handled(g)' = Handled(g) /\ log' = log
      BY <1>0, <1>3, <2>2 DEF ServeStart, Attach, Handled, TypeOK
    <3> QED BY <3>1 DEF IsWindow, IInv, OutputIsWindow
  <2> QED BY <2>1, <2>2
<1>4. ASSUME NEW h \in Connectors, ServeConnect(h) PROVE OutputIsWindow'
  <2> SUFFICES ASSUME NEW g \in Handles, NEW k \in Kinds
               PROVE  IsWindow(captured[g][k], k, attached[g], Handled(g))'
    BY DEF OutputIsWindow
  <2>1. CASE g = h
    <3>1. captured'[g][k] = <<>> /\ attached'[g] = Len(log) /\ Handled(g)' = Len(log) /\ log' = log
      BY <1>0, <1>4, <2>1 DEF ServeConnect, Attach, Handled, IInv, QuietInv, Nothing, TypeOK
    <3>2. {p \in (Len(log) + 1)..Len(log) : log[p] = k} = {}
      BY <1>0 DEF TypeOK
    <3> QED BY <3>1, <3>2 DEF IsWindow
  <2>2. CASE g # h
    <3>1. /\ captured'[g][k] = captured[g][k] /\ attached'[g] = attached[g]
          /\ Handled(g)' = Handled(g) /\ log' = log
      BY <1>0, <1>4, <2>2 DEF ServeConnect, Attach, Handled, TypeOK
    <3> QED BY <3>1 DEF IsWindow, IInv, OutputIsWindow
  <2> QED BY <2>1, <2>2
<1>5. ASSUME NEW h \in Handles, Open(h) PROVE OutputIsWindow'
  <2>1. \A p \in 1..Len(log) : log'[p] = log[p]
    BY <1>5 DEF Open
  <2>2. UNCHANGED <<captured, attached>> /\ \A g \in Handles : Handled(g)' = Handled(g)
    BY <1>0, <1>5 DEF Open, Handled, TypeOK
  <2> QED BY <2>1, <2>2, CaptureStays
<1>6. ASSUME NEW h \in Handles, OpenFails(h) PROVE OutputIsWindow'
  <2>1. \A p \in 1..Len(log) : log'[p] = log[p]
    BY <1>6 DEF OpenFails
  <2>2. UNCHANGED <<captured, attached>> /\ \A g \in Handles : Handled(g)' = Handled(g)
    BY <1>0, <1>6 DEF OpenFails, Handled, TypeOK
  <2> QED BY <2>1, <2>2, CaptureStays
<1>7. ASSUME NEW h \in Handles, Started(h) PROVE OutputIsWindow'
  <2>1. \A p \in 1..Len(log) : log'[p] = log[p]
    BY <1>7 DEF Started
  <2>2. UNCHANGED <<captured, attached>> /\ \A g \in Handles : Handled(g)' = Handled(g)
    BY <1>0, <1>7 DEF Started, Handled, TypeOK
  <2> QED BY <2>1, <2>2, CaptureStays
<1>8. ASSUME NEW h \in Handles, Cancel(h) PROVE OutputIsWindow'
  <2>1. \A p \in 1..Len(log) : log'[p] = log[p]
    BY <1>8 DEF Cancel
  <2>2. UNCHANGED <<captured, attached>> /\ \A g \in Handles : Handled(g)' = Handled(g)
    BY <1>0, <1>8 DEF Cancel, Handled, TypeOK
  <2> QED BY <2>1, <2>2, CaptureStays
<1>9. ASSUME NEW h \in Handles, Receive(h) PROVE OutputIsWindow'
  <2> SUFFICES ASSUME NEW g \in Handles, NEW k \in Kinds
               PROVE  IsWindow(captured[g][k], k, attached[g], Handled(g))'
    BY DEF OutputIsWindow
  <2>0. IsWindow(captured[g][k], k, attached[g], Handled(g))
    BY DEF IInv, OutputIsWindow
  <2>1. CASE g # h \/ log[cursor[h] + 1] \in Kinds
    <3>1. captured'[g][k] = captured[g][k] /\ attached'[g] = attached[g] /\ log' = log
      BY <1>9 DEF Receive
    <3>2. CASE g # h
      BY <1>0, <1>9, <2>0, <3>1, <3>2 DEF Receive, Handled, TypeOK, IsWindow
    <3>3. CASE g = h
      <4>1. phase[g] = "receive" /\ phase'[g] = "append" /\ cursor'[g] = cursor[g] + 1 /\ cursor[g] \in Nat
        BY <1>0, <1>9, <2>1, <3>3 DEF Receive, TypeOK
      <4>2. Handled(g)' = Handled(g)
        BY <4>1 DEF Handled
      <4> QED BY <2>0, <3>1, <4>2 DEF IsWindow
    <3> QED BY <3>2, <3>3
  <2>2. CASE g = h /\ log[cursor[h] + 1] \notin Kinds
    <3>1. /\ captured'[g][k] = captured[g][k] /\ attached'[g] = attached[g] /\ log' = log
          /\ Handled(g) = cursor[g] /\ Handled(g)' = cursor[g] + 1
      BY <1>0, <1>9, <2>2 DEF Receive, Handled, TypeOK
    <3>2. attached[g] \in Nat /\ cursor[g] \in Nat /\ attached[g] <= cursor[g]
      BY <1>0 DEF IInv, CursorInv, TypeOK
    <3>3. IsWindow(captured[g][k], k, attached[g], cursor[g] + 1)
      BY <2>0, <2>2, <3>1, <3>2, WindowSkips
    <3> QED BY <3>1, <3>3 DEF IsWindow
  <2> QED BY <2>1, <2>2
<1>10. ASSUME NEW h \in Handles, StreamEnds(h) \/ StreamCancelled(h) \/ StreamBreaks(h) PROVE OutputIsWindow'
  <2>1. \A p \in 1..Len(log) : log'[p] = log[p]
    BY <1>10 DEF StreamEnds, StreamCancelled, StreamBreaks, EndLoop
  <2>2. UNCHANGED <<captured, attached>> /\ \A g \in Handles : Handled(g)' = Handled(g)
    BY <1>0, <1>10 DEF StreamEnds, StreamCancelled, StreamBreaks, EndLoop, Handled, TypeOK
  <2> QED BY <2>1, <2>2, CaptureStays
<1>11. ASSUME NEW h \in Handles, AppendLocked(h) PROVE OutputIsWindow'
  <2> SUFFICES ASSUME NEW g \in Handles, NEW k \in Kinds
               PROVE  IsWindow(captured[g][k], k, attached[g], Handled(g))'
    BY DEF OutputIsWindow
  <2>0. IsWindow(captured[g][k], k, attached[g], Handled(g))
    BY DEF IInv, OutputIsWindow
  <2>1. CASE g # h
    <3>1. /\ captured'[g][k] = captured[g][k] /\ attached'[g] = attached[g]
          /\ Handled(g)' = Handled(g) /\ log' = log
      BY <1>0, <1>11, <2>1 DEF AppendLocked, Handled, TypeOK
    <3> QED BY <2>0, <3>1 DEF IsWindow
  <2>2. CASE g = h
    <3>1. PICK b \in Nat : cursor[g] = b + 1 /\ attached[g] <= b
      <4>1. cursor[g] \in Nat /\ attached[g] \in Nat /\ attached[g] < cursor[g]
        BY <1>0, <1>11, <2>2 DEF AppendLocked, IInv, CursorInv, TypeOK
      <4>2. cursor[g] - 1 \in Nat /\ cursor[g] = (cursor[g] - 1) + 1 /\ attached[g] <= cursor[g] - 1
        BY <4>1
      <4> QED BY <4>2
    <3>2. attached[g] \in Nat /\ captured[g] \in Chunks /\ captured[g][k] \in Seq(Nat)
      BY <1>0 DEF TypeOK, Chunks
    <3>3. /\ attached' = attached /\ log' = log
          /\ cursor'[g] = b + 1 /\ phase[g] = "append" /\ phase'[g] = "unlock"
      BY <1>0, <1>11, <2>2, <3>1 DEF AppendLocked, TypeOK
    <3>4. captured'[g] = [captured[g] EXCEPT ![log[b + 1]] = Append(@, b + 1)]
      BY <1>0, <1>11, <2>2, <3>1 DEF AppendLocked, TypeOK
    <3>5. Handled(g) = b /\ Handled(g)' = b + 1
      BY <3>1, <3>3 DEF Handled
    <3>6. IsWindow(captured[g][k], k, attached[g], b)
      BY <2>0, <3>5
    <3>7. IsWindow(captured'[g][k], k, attached[g], b + 1)
      <4>1. CASE log[b + 1] = k
        <5>1. captured'[g][k] = Append(captured[g][k], b + 1)
          BY <3>2, <3>4, <4>1 DEF Chunks
        <5>2. IsWindow(Append(captured[g][k], b + 1), k, attached[g], b + 1)
          BY <3>1, <3>2, <3>6, <4>1, WindowExtends
        <5> QED BY <5>1, <5>2
      <4>2. CASE log[b + 1] # k
        <5>1. captured'[g][k] = captured[g][k]
          BY <3>2, <3>4, <4>2 DEF Chunks
        <5>2. IsWindow(captured[g][k], k, attached[g], b + 1)
          BY <3>1, <3>2, <3>6, <4>2, WindowSkips
        <5> QED BY <5>1, <5>2
      <4> QED BY <4>1, <4>2
    <3> QED BY <3>3, <3>5, <3>7 DEF IsWindow
  <2> QED BY <2>1, <2>2
<1>12. ASSUME NEW h \in Handles, Unlock(h) PROVE OutputIsWindow'
  <2>1. \A p \in 1..Len(log) : log'[p] = log[p]
    BY <1>12 DEF Unlock
  <2>2. UNCHANGED <<captured, attached>> /\ \A g \in Handles : Handled(g)' = Handled(g)
    BY <1>0, <1>12 DEF Unlock, Handled, TypeOK
  <2> QED BY <2>1, <2>2, CaptureStays
<1>13. ASSUME NEW h \in Handles, Callback(h) PROVE OutputIsWindow'
  <2>1. \A p \in 1..Len(log) : log'[p] = log[p]
    BY <1>13 DEF Callback
  <2>2. UNCHANGED <<captured, attached>> /\ \A g \in Handles : Handled(g)' = Handled(g)
    BY <1>0, <1>13 DEF Callback, Handled, TypeOK
  <2> QED BY <2>1, <2>2, CaptureStays
<1>14. ASSUME NEW h \in Handles, Finish(h) PROVE OutputIsWindow'
  <2>1. \A p \in 1..Len(log) : log'[p] = log[p]
    BY <1>14 DEF Finish
  <2>2. UNCHANGED <<captured, attached>> /\ \A g \in Handles : Handled(g)' = Handled(g)
    BY <1>0, <1>14 DEF Finish, Handled, TypeOK
  <2> QED BY <2>1, <2>2, CaptureStays
<1>15. ASSUME NEW h \in Handles, Seal(h) PROVE OutputIsWindow'
  <2>1. \A p \in 1..Len(log) : log'[p] = log[p]
    BY <1>15 DEF Seal
  <2>2. UNCHANGED <<captured, attached>> /\ \A g \in Handles : Handled(g)' = Handled(g)
    BY <1>0, <1>15 DEF Seal, Handled, TypeOK
  <2> QED BY <2>1, <2>2, CaptureStays
<1>16. ASSUME NEW h \in Handles, Close(h) PROVE OutputIsWindow'
  <2>1. \A p \in 1..Len(log) : log'[p] = log[p]
    BY <1>16 DEF Close
  <2>2. UNCHANGED <<captured, attached>> /\ \A g \in Handles : Handled(g)' = Handled(g)
    BY <1>0, <1>16 DEF Close, Handled, TypeOK
  <2> QED BY <2>1, <2>2, CaptureStays
<1>17. ASSUME NEW w \in Waiters, NEW h \in Handles, Wait(w, h) PROVE OutputIsWindow'
  <2>1. \A p \in 1..Len(log) : log'[p] = log[p]
    BY <1>17 DEF Wait
  <2>2. UNCHANGED <<captured, attached>> /\ \A g \in Handles : Handled(g)' = Handled(g)
    BY <1>0, <1>17 DEF Wait, Handled, TypeOK
  <2> QED BY <2>1, <2>2, CaptureStays
<1>18. ASSUME NEW w \in Waiters, WaitReturns(w) PROVE OutputIsWindow'
  <2>1. \A p \in 1..Len(log) : log'[p] = log[p]
    BY <1>18 DEF WaitReturns
  <2>2. UNCHANGED <<captured, attached>> /\ \A g \in Handles : Handled(g)' = Handled(g)
    BY <1>0, <1>18 DEF WaitReturns, Handled, TypeOK
  <2> QED BY <2>1, <2>2, CaptureStays
<1>19. CASE UNCHANGED vars
  <2>1. \A p \in 1..Len(log) : log'[p] = log[p]
    BY <1>19 DEF vars
  <2>2. UNCHANGED <<captured, attached>> /\ \A g \in Handles : Handled(g)' = Handled(g)
    BY <1>0, <1>19 DEF vars, Handled, TypeOK
  <2> QED BY <2>1, <2>2, CaptureStays
<1> QED
  BY <1>1, <1>2, <1>3, <1>4, <1>5, <1>6, <1>7, <1>8, <1>9, <1>10, <1>11, <1>12, <1>13, <1>14, <1>15, <1>16, <1>17, <1>18, <1>19
  DEF Next, Consume, Terminated

(* Captures are empty before the stream is attached, and the goroutine holds the
   lock only between writing a chunk and calling back. *)
LEMMA QuietStep ==
  ASSUME IInv, TypeOK', [Next]_vars
  PROVE  QuietInv'
<1> USE CommandAssumption DEF IInv, TypeOK, Handles, NotData, Goto, stream, output, future, wait,
        QuietInv
<1>1. ASSUME NEW event \in Kinds \cup {"other"}, Emit(event) PROVE QuietInv'
  BY <1>1 DEF Emit
<1>2. CASE Exit
  BY <1>2 DEF Exit
<1>3. CASE ServeStart
  BY <1>3 DEF ServeStart, Attach
<1>4. ASSUME NEW h \in Connectors, ServeConnect(h) PROVE QuietInv'
  BY <1>4 DEF ServeConnect, Attach
<1>5. ASSUME NEW h \in Handles, Open(h) PROVE QuietInv'
  BY <1>5 DEF Open
<1>6. ASSUME NEW h \in Handles, OpenFails(h) PROVE QuietInv'
  BY <1>6 DEF OpenFails
<1>7. ASSUME NEW h \in Handles, Started(h) PROVE QuietInv'
  BY <1>7 DEF Started
<1>8. ASSUME NEW h \in Handles, Cancel(h) PROVE QuietInv'
  BY <1>8 DEF Cancel
<1>9. ASSUME NEW h \in Handles, Receive(h) PROVE QuietInv'
  BY <1>9 DEF Receive
<1>10. ASSUME NEW h \in Handles, StreamEnds(h) \/ StreamCancelled(h) \/ StreamBreaks(h) PROVE QuietInv'
  BY <1>10 DEF StreamEnds, StreamCancelled, StreamBreaks, EndLoop
<1>11. ASSUME NEW h \in Handles, AppendLocked(h) PROVE QuietInv'
  BY <1>11 DEF AppendLocked
<1>12. ASSUME NEW h \in Handles, Unlock(h) PROVE QuietInv'
  BY <1>12 DEF Unlock
<1>13. ASSUME NEW h \in Handles, Callback(h) PROVE QuietInv'
  BY <1>13 DEF Callback
<1>14. ASSUME NEW h \in Handles, Finish(h) PROVE QuietInv'
  BY <1>14 DEF Finish
<1>15. ASSUME NEW h \in Handles, Seal(h) PROVE QuietInv'
  BY <1>15 DEF Seal
<1>16. ASSUME NEW h \in Handles, Close(h) PROVE QuietInv'
  BY <1>16 DEF Close
<1>17. ASSUME NEW w \in Waiters, NEW h \in Handles, Wait(w, h) PROVE QuietInv'
  BY <1>17 DEF Wait
<1>18. ASSUME NEW w \in Waiters, WaitReturns(w) PROVE QuietInv'
  BY <1>18 DEF WaitReturns
<1>19. CASE UNCHANGED vars
  BY <1>19 DEF vars
<1> QED
  BY <1>1, <1>2, <1>3, <1>4, <1>5, <1>6, <1>7, <1>8, <1>9, <1>10, <1>11, <1>12, <1>13, <1>14, <1>15, <1>16, <1>17, <1>18, <1>19
  DEF Next, Consume, Terminated

(* A result is set at the end of the log, after which nothing is captured. *)
LEMMA ResultStep ==
  ASSUME IInv, TypeOK', [Next]_vars
  PROVE  ResultInv'
<1> USE CommandAssumption DEF IInv, TypeOK, Handles, NotData, Goto, stream, output, future, wait,
        ResultInv, LogInv, CursorInv
<1>1. ASSUME NEW event \in Kinds \cup {"other"}, Emit(event) PROVE ResultInv'
  BY <1>1 DEF Emit
<1>2. CASE Exit
  BY <1>2 DEF Exit
<1>3. CASE ServeStart
  BY <1>3 DEF ServeStart, Attach
<1>4. ASSUME NEW h \in Connectors, ServeConnect(h) PROVE ResultInv'
  BY <1>4 DEF ServeConnect, Attach
<1>5. ASSUME NEW h \in Handles, Open(h) PROVE ResultInv'
  BY <1>5 DEF Open
<1>6. ASSUME NEW h \in Handles, OpenFails(h) PROVE ResultInv'
  BY <1>6 DEF OpenFails
<1>7. ASSUME NEW h \in Handles, Started(h) PROVE ResultInv'
  BY <1>7 DEF Started
<1>8. ASSUME NEW h \in Handles, Cancel(h) PROVE ResultInv'
  BY <1>8 DEF Cancel
<1>9. ASSUME NEW h \in Handles, Receive(h) PROVE ResultInv'
  BY <1>9 DEF Receive
<1>10. ASSUME NEW h \in Handles, StreamEnds(h) \/ StreamCancelled(h) \/ StreamBreaks(h) PROVE ResultInv'
  <2>1. PICK e : EndLoop(h, e)
    BY <1>10 DEF StreamEnds, StreamCancelled, StreamBreaks
  <2> QED BY <2>1 DEF EndLoop
<1>11. ASSUME NEW h \in Handles, AppendLocked(h) PROVE ResultInv'
  BY <1>11 DEF AppendLocked
<1>12. ASSUME NEW h \in Handles, Unlock(h) PROVE ResultInv'
  BY <1>12 DEF Unlock
<1>13. ASSUME NEW h \in Handles, Callback(h) PROVE ResultInv'
  BY <1>13 DEF Callback
<1>14. ASSUME NEW h \in Handles, Finish(h) PROVE ResultInv'
  <2>1. cursor[h] \in 1..Len(log) /\ log[cursor[h]] = "end"
    BY <1>14 DEF Finish
  <2>2. process = "exited" /\ cursor[h] = Len(log)
    BY <2>1
  <2> QED BY <1>14, <2>2 DEF Finish
<1>15. ASSUME NEW h \in Handles, Seal(h) PROVE ResultInv'
  BY <1>15 DEF Seal
<1>16. ASSUME NEW h \in Handles, Close(h) PROVE ResultInv'
  BY <1>16 DEF Close
<1>17. ASSUME NEW w \in Waiters, NEW h \in Handles, Wait(w, h) PROVE ResultInv'
  BY <1>17 DEF Wait
<1>18. ASSUME NEW w \in Waiters, WaitReturns(w) PROVE ResultInv'
  BY <1>18 DEF WaitReturns
<1>19. CASE UNCHANGED vars
  BY <1>19 DEF vars
<1> QED
  BY <1>1, <1>2, <1>3, <1>4, <1>5, <1>6, <1>7, <1>8, <1>9, <1>10, <1>11, <1>12, <1>13, <1>14, <1>15, <1>16, <1>17, <1>18, <1>19
  DEF Next, Consume, Terminated

(* done is closed last, and never without a result or an error. *)
LEMMA DoneStep ==
  ASSUME IInv, TypeOK', [Next]_vars
  PROVE  DoneInv'
<1> USE CommandAssumption, AnswersDistinct DEF IInv, TypeOK, Handles, NotData, Goto, stream, output, future, wait,
        DoneInv, ResultInv
<1>1. ASSUME NEW event \in Kinds \cup {"other"}, Emit(event) PROVE DoneInv'
  BY <1>1 DEF Emit
<1>2. CASE Exit
  BY <1>2 DEF Exit
<1>3. CASE ServeStart
  BY <1>3 DEF ServeStart, Attach
<1>4. ASSUME NEW h \in Connectors, ServeConnect(h) PROVE DoneInv'
  BY <1>4 DEF ServeConnect, Attach
<1>5. ASSUME NEW h \in Handles, Open(h) PROVE DoneInv'
  BY <1>5 DEF Open
<1>6. ASSUME NEW h \in Handles, OpenFails(h) PROVE DoneInv'
  BY <1>6 DEF OpenFails
<1>7. ASSUME NEW h \in Handles, Started(h) PROVE DoneInv'
  BY <1>7 DEF Started
<1>8. ASSUME NEW h \in Handles, Cancel(h) PROVE DoneInv'
  BY <1>8 DEF Cancel
<1>9. ASSUME NEW h \in Handles, Receive(h) PROVE DoneInv'
  BY <1>9 DEF Receive
<1>10. ASSUME NEW h \in Handles, StreamEnds(h) \/ StreamCancelled(h) \/ StreamBreaks(h) PROVE DoneInv'
  <2>1. PICK e : EndLoop(h, e)
    BY <1>10 DEF StreamEnds, StreamCancelled, StreamBreaks
  <2> QED BY <2>1 DEF EndLoop
<1>11. ASSUME NEW h \in Handles, AppendLocked(h) PROVE DoneInv'
  BY <1>11 DEF AppendLocked
<1>12. ASSUME NEW h \in Handles, Unlock(h) PROVE DoneInv'
  BY <1>12 DEF Unlock
<1>13. ASSUME NEW h \in Handles, Callback(h) PROVE DoneInv'
  BY <1>13 DEF Callback
<1>14. ASSUME NEW h \in Handles, Finish(h) PROVE DoneInv'
  BY <1>14 DEF Finish
<1>15. ASSUME NEW h \in Handles, Seal(h) PROVE DoneInv'
  BY <1>15 DEF Seal
<1>16. ASSUME NEW h \in Handles, Close(h) PROVE DoneInv'
  BY <1>16 DEF Close
<1>17. ASSUME NEW w \in Waiters, NEW h \in Handles, Wait(w, h) PROVE DoneInv'
  BY <1>17 DEF Wait
<1>18. ASSUME NEW w \in Waiters, WaitReturns(w) PROVE DoneInv'
  BY <1>18 DEF WaitReturns
<1>19. CASE UNCHANGED vars
  BY <1>19 DEF vars
<1> QED
  BY <1>1, <1>2, <1>3, <1>4, <1>5, <1>6, <1>7, <1>8, <1>9, <1>10, <1>11, <1>12, <1>13, <1>14, <1>15, <1>16, <1>17, <1>18, <1>19
  DEF Next, Consume, Terminated

(* The callbacks are at most the chunk in hand behind the capture. *)
LEMMA ReportStep ==
  ASSUME IInv, TypeOK', [Next]_vars
  PROVE  ReportInv'
<1> USE CommandAssumption DEF IInv, TypeOK, Handles, NotData, Goto, stream, output, future, wait,
        ReportInv, CursorInv, Chunks
<1>1. ASSUME NEW event \in Kinds \cup {"other"}, Emit(event) PROVE ReportInv'
  <2>1. \A h \in Handles : phase[h] \in {"unlock", "callback"} => log'[cursor[h]] = log[cursor[h]]
    BY <1>1, LogGrows DEF Emit
  <2> QED BY <1>1, <2>1 DEF Emit
<1>2. CASE Exit
  <2>1. \A h \in Handles : phase[h] \in {"unlock", "callback"} => log'[cursor[h]] = log[cursor[h]]
    BY <1>2, LogGrows DEF Exit
  <2> QED BY <1>2, <2>1 DEF Exit
<1>3. CASE ServeStart
  BY <1>3 DEF ServeStart, Attach
<1>4. ASSUME NEW h \in Connectors, ServeConnect(h) PROVE ReportInv'
  BY <1>4 DEF ServeConnect, Attach
<1>5. ASSUME NEW h \in Handles, Open(h) PROVE ReportInv'
  BY <1>5 DEF Open
<1>6. ASSUME NEW h \in Handles, OpenFails(h) PROVE ReportInv'
  BY <1>6 DEF OpenFails
<1>7. ASSUME NEW h \in Handles, Started(h) PROVE ReportInv'
  BY <1>7 DEF Started
<1>8. ASSUME NEW h \in Handles, Cancel(h) PROVE ReportInv'
  BY <1>8 DEF Cancel
<1>9. ASSUME NEW h \in Handles, Receive(h) PROVE ReportInv'
  BY <1>9 DEF Receive
<1>10. ASSUME NEW h \in Handles, StreamEnds(h) \/ StreamCancelled(h) \/ StreamBreaks(h) PROVE ReportInv'
  BY <1>10 DEF StreamEnds, StreamCancelled, StreamBreaks, EndLoop
<1>11. ASSUME NEW h \in Handles, AppendLocked(h) PROVE ReportInv'
  BY <1>11 DEF AppendLocked
<1>12. ASSUME NEW h \in Handles, Unlock(h) PROVE ReportInv'
  BY <1>12 DEF Unlock
<1>13. ASSUME NEW h \in Handles, Callback(h) PROVE ReportInv'
  BY <1>13 DEF Callback
<1>14. ASSUME NEW h \in Handles, Finish(h) PROVE ReportInv'
  BY <1>14 DEF Finish
<1>15. ASSUME NEW h \in Handles, Seal(h) PROVE ReportInv'
  BY <1>15 DEF Seal
<1>16. ASSUME NEW h \in Handles, Close(h) PROVE ReportInv'
  BY <1>16 DEF Close
<1>17. ASSUME NEW w \in Waiters, NEW h \in Handles, Wait(w, h) PROVE ReportInv'
  BY <1>17 DEF Wait
<1>18. ASSUME NEW w \in Waiters, WaitReturns(w) PROVE ReportInv'
  BY <1>18 DEF WaitReturns
<1>19. CASE UNCHANGED vars
  BY <1>19 DEF vars
<1> QED
  BY <1>1, <1>2, <1>3, <1>4, <1>5, <1>6, <1>7, <1>8, <1>9, <1>10, <1>11, <1>12, <1>13, <1>14, <1>15, <1>16, <1>17, <1>18, <1>19
  DEF Next, Consume, Terminated

(* What a caller was told stays what the handle says. *)
LEMMA WaitStep ==
  ASSUME IInv, TypeOK', [Next]_vars
  PROVE  WaitInv'
<1> USE CommandAssumption, AnswersDistinct DEF IInv, TypeOK, Handles, NotData, Goto, stream, output, future, wait,
        WaitInv, DoneInv, ResultInv, Made
<1>1. ASSUME NEW event \in Kinds \cup {"other"}, Emit(event) PROVE WaitInv'
  BY <1>1 DEF Emit
<1>2. CASE Exit
  BY <1>2 DEF Exit
<1>3. CASE ServeStart
  BY <1>3 DEF ServeStart, Attach
<1>4. ASSUME NEW h \in Connectors, ServeConnect(h) PROVE WaitInv'
  BY <1>4 DEF ServeConnect, Attach
<1>5. ASSUME NEW h \in Handles, Open(h) PROVE WaitInv'
  BY <1>5 DEF Open
<1>6. ASSUME NEW h \in Handles, OpenFails(h) PROVE WaitInv'
  BY <1>6 DEF OpenFails
<1>7. ASSUME NEW h \in Handles, Started(h) PROVE WaitInv'
  BY <1>7 DEF Started
<1>8. ASSUME NEW h \in Handles, Cancel(h) PROVE WaitInv'
  BY <1>8 DEF Cancel
<1>9. ASSUME NEW h \in Handles, Receive(h) PROVE WaitInv'
  BY <1>9 DEF Receive
<1>10. ASSUME NEW h \in Handles, StreamEnds(h) \/ StreamCancelled(h) \/ StreamBreaks(h) PROVE WaitInv'
  <2>1. PICK e : EndLoop(h, e)
    BY <1>10 DEF StreamEnds, StreamCancelled, StreamBreaks
  <2> QED BY <2>1 DEF EndLoop
<1>11. ASSUME NEW h \in Handles, AppendLocked(h) PROVE WaitInv'
  BY <1>11 DEF AppendLocked
<1>12. ASSUME NEW h \in Handles, Unlock(h) PROVE WaitInv'
  BY <1>12 DEF Unlock
<1>13. ASSUME NEW h \in Handles, Callback(h) PROVE WaitInv'
  BY <1>13 DEF Callback
<1>14. ASSUME NEW h \in Handles, Finish(h) PROVE WaitInv'
  BY <1>14 DEF Finish
<1>15. ASSUME NEW h \in Handles, Seal(h) PROVE WaitInv'
  BY <1>15 DEF Seal
<1>16. ASSUME NEW h \in Handles, Close(h) PROVE WaitInv'
  BY <1>16 DEF Close
<1>17. ASSUME NEW w \in Waiters, NEW h \in Handles, Wait(w, h) PROVE WaitInv'
  BY <1>17 DEF Wait
<1>18. ASSUME NEW w \in Waiters, WaitReturns(w) PROVE WaitInv'
  BY <1>18 DEF WaitReturns
<1>19. CASE UNCHANGED vars
  BY <1>19 DEF vars
<1> QED
  BY <1>1, <1>2, <1>3, <1>4, <1>5, <1>6, <1>7, <1>8, <1>9, <1>10, <1>11, <1>12, <1>13, <1>14, <1>15, <1>16, <1>17, <1>18, <1>19
  DEF Next, Consume, Terminated

(* Together they are an inductive invariant. *)
THEOREM Invariance == Spec => []IInv
<1>1. Init => IInv
  <2> USE CommandAssumption DEF Init, Handles, NotData
  <2>1. Init => TypeOK
    BY DEF TypeOK, Chunks, Phases, Nothing
  <2>2. Init => LogInv /\ CursorInv /\ QuietInv
    BY DEF LogInv, CursorInv, QuietInv
  <2>3. Init => OutputIsWindow
    BY DEF OutputIsWindow, IsWindow, Handled, Nothing
  <2>4. Init => ResultInv /\ DoneInv /\ ReportInv /\ WaitInv
    BY DEF ResultInv, DoneInv, ReportInv, WaitInv
  <2> QED BY <2>1, <2>2, <2>3, <2>4 DEF IInv
<1>2. IInv /\ TypeOK' /\ [Next]_vars => IInv'
  BY LogStep, CursorStep, WindowStep, QuietStep, ResultStep, DoneStep, ReportStep, WaitStep DEF IInv
<1> QED
  BY <1>1, <1>2, TypeCorrect, PTL DEF Spec

-----------------------------------------------------------------------------
(* A handle has captured exactly what the process wrote since its stream was
   attached, up to the last event dealt with. *)
THEOREM OutputIsExact == Spec => []OutputIsWindow
<1>1. IInv => OutputIsWindow
  BY DEF IInv
<1> QED BY <1>1, Invariance, PTL

(* The callbacks are given exactly the capture. *)
THEOREM CallbacksAreExact == Spec => []CallbacksFollowCapture
<1>1. IInv => CallbacksFollowCapture
  BY DEF IInv, ReportInv, CallbacksFollowCapture
<1> QED BY <1>1, Invariance, PTL

(* A successful Wait gives the whole output since the stream was attached. *)
THEOREM SuccessIsWhole == Spec => []SuccessIsComplete
<1>1. IInv => SuccessIsComplete
  <2> SUFFICES ASSUME IInv, NEW w \in Waiters, answer[w] = OK
               PROVE  /\ process = "exited"
                      /\ \A k \in Kinds : IsWindow(given[w][k], k, attached[target[w]], Len(log))
    BY DEF SuccessIsComplete
  <2> DEFINE h == target[w]
  <2>1. h \in Handles
    BY DEF IInv, TypeOK
  <2>2. done[h] /\ err[h] = OK /\ given[w] = result[h]
    BY AnswersDistinct, <2>1 DEF IInv, WaitInv, TypeOK
  <2>3. phase[h] = "stopped" /\ finished[h]
    BY <2>1, <2>2 DEF IInv, DoneInv
  <2>4. process = "exited" /\ Handled(h) = Len(log) /\ result[h] = captured[h]
    BY <2>1, <2>3 DEF IInv, ResultInv, Handled
  <2>5. \A k \in Kinds : IsWindow(captured[h][k], k, attached[h], Handled(h))
    BY <2>1 DEF IInv, OutputIsWindow
  <2> QED BY <2>2, <2>4, <2>5
<1> QED BY <1>1, Invariance, PTL

(* All callers that wait for a handle get the same answer. *)
THEOREM AnswersAgree == Spec => []WaitersAgree
<1>1. IInv => WaitersAgree
  BY DEF IInv, WaitInv, WaitersAgree
<1> QED BY <1>1, Invariance, PTL

(* Wait never finds a handle with neither a result nor an error. *)
THEOREM ResultOrError == Spec => []NeverWithoutResult
<1>1. IInv => NeverWithoutResult
  <2> SUFFICES ASSUME IInv, NEW w \in Waiters, answer[w] = ErrNoResult PROVE FALSE
    BY DEF NeverWithoutResult
  <2>1. answer[w] = OK \/ answer[w] = err[target[w]]
    BY AnswersDistinct DEF IInv, WaitInv
  <2>2. err[target[w]] \in {OK, ErrStream, ErrNoEnd}
    BY DEF IInv, TypeOK
  <2> QED BY <2>1, <2>2 DEF OK, ErrStream, ErrNoEnd, ErrNoResult
<1> QED BY <1>1, Invariance, PTL

(* A step leaves a handle whose done is closed as it is. *)
LEMMA FinalStep ==
  ASSUME IInv, [Next]_vars, NEW g \in Handles, done[g]
  PROVE  /\ done'[g]
         /\ <<captured[g], reported[g], finished[g], result[g], err[g]>>' = 
            <<captured[g], reported[g], finished[g], result[g], err[g]>>
<1> DEFINE Final ==
      /\ done'[g]
      /\ captured'[g] = captured[g] /\ reported'[g] = reported[g]
      /\ finished'[g] = finished[g] /\ result'[g] = result[g] /\ err'[g] = err[g]
<1> USE CommandAssumption DEF IInv, TypeOK, Handles, NotData, Goto, stream, output, future, wait,
        DoneInv
<1>1. ASSUME NEW event \in Kinds \cup {"other"}, Emit(event) PROVE Final
  BY <1>1 DEF Emit
<1>2. CASE Exit
  BY <1>2 DEF Exit
<1>3. CASE ServeStart
  BY <1>3 DEF ServeStart, Attach
<1>4. ASSUME NEW h \in Connectors, ServeConnect(h) PROVE Final
  BY <1>4 DEF ServeConnect, Attach
<1>5. ASSUME NEW h \in Handles, Open(h) PROVE Final
  BY <1>5 DEF Open
<1>6. ASSUME NEW h \in Handles, OpenFails(h) PROVE Final
  BY <1>6 DEF OpenFails
<1>7. ASSUME NEW h \in Handles, Started(h) PROVE Final
  BY <1>7 DEF Started
<1>8. ASSUME NEW h \in Handles, Cancel(h) PROVE Final
  BY <1>8 DEF Cancel
<1>9. ASSUME NEW h \in Handles, Receive(h) PROVE Final
  BY <1>9 DEF Receive
<1>10. ASSUME NEW h \in Handles, StreamEnds(h) \/ StreamCancelled(h) \/ StreamBreaks(h) PROVE Final
  BY <1>10 DEF StreamEnds, StreamCancelled, StreamBreaks, EndLoop
<1>11. ASSUME NEW h \in Handles, AppendLocked(h) PROVE Final
  BY <1>11 DEF AppendLocked
<1>12. ASSUME NEW h \in Handles, Unlock(h) PROVE Final
  BY <1>12 DEF Unlock
<1>13. ASSUME NEW h \in Handles, Callback(h) PROVE Final
  BY <1>13 DEF Callback
<1>14. ASSUME NEW h \in Handles, Finish(h) PROVE Final
  BY <1>14 DEF Finish
<1>15. ASSUME NEW h \in Handles, Seal(h) PROVE Final
  BY <1>15 DEF Seal
<1>16. ASSUME NEW h \in Handles, Close(h) PROVE Final
  BY <1>16 DEF Close
<1>17. ASSUME NEW w \in Waiters, NEW h \in Handles, Wait(w, h) PROVE Final
  BY <1>17 DEF Wait
<1>18. ASSUME NEW w \in Waiters, WaitReturns(w) PROVE Final
  BY <1>18 DEF WaitReturns
<1>19. CASE UNCHANGED vars
  BY <1>19 DEF vars
<1> QED
  BY <1>1, <1>2, <1>3, <1>4, <1>5, <1>6, <1>7, <1>8, <1>9, <1>10, <1>11, <1>12, <1>13, <1>14, <1>15, <1>16, <1>17, <1>18, <1>19
  DEF Next, Consume, Terminated

(* After done is closed nothing about the handle changes. *)
THEOREM DoneForever == Spec => DoneIsFinal
<1>1. IInv /\ [Next]_vars => 
        [\A h \in Handles : done[h] => 
           /\ done'[h]
           /\ <<captured[h], reported[h], finished[h], result[h], err[h]>>' = 
              <<captured[h], reported[h], finished[h], result[h], err[h]>>]_vars
  BY FinalStep
<1> QED BY <1>1, Invariance, PTL DEF Spec, DoneIsFinal
-----------------------------------------------------------------------------
(* The refinement: each handle is a stream of the contract, on its own. *)

(* What the contract sees of a handle moves with these variables only. *)
LEMMA Unseen ==
  ASSUME NEW g \in Handles, log' = log, Made(g)' = Made(g), 
         Made(g) => attached'[g] = attached[g] /\ (process' = "exited" <=> process = "exited"),
         reported'[g] = reported[g], done'[g] = done[g],
         done[g] => err'[g] = err[g] /\ finished'[g] = finished[g],
         \A w \in Waiters : Told(g, w)' = Told(g, w)
  PROVE  Contract!Rest(g)
<1>1. Sent(g)' = Sent(g) /\ Taken(g)' = Taken(g) /\ Verdict(g)' = Verdict(g)
  <2>1. Sent(g)' = Sent(g)
    BY DEF Sent
  <2>2. Taken(g)' = Taken(g)
    <3> DEFINE Chunk(r) == UNION {{r[k][i] : i \in DOMAIN r[k]} : k \in Kinds}
    <3>1. Taken(g) = Chunk(reported[g]) /\ Taken(g)' = Chunk(reported'[g])
      BY Zenon DEF Taken
    <3> HIDE DEF Chunk
    <3> QED BY <3>1
  <2>3. Verdict(g)' = Verdict(g)
    BY DEF Verdict
  <2> QED BY <2>1, <2>2, <2>3
<1>2. (Made(g) /\ process = "exited")' = (Made(g) /\ process = "exited")
  OBVIOUS
<1> QED BY <1>1, <1>2 DEF Contract!Rest

(* The callers of Wait are not told anything by a step that leaves them alone. *)
LEMMA NothingTold ==
  ASSUME target' = target, answer' = answer, NEW g \in Handles
  PROVE  \A w \in Waiters : Told(g, w)' = Told(g, w)
  BY DEF Told

(* Between two chunks the user was given all output up to the last event dealt
   with. *)
LEMMA TakenIsWindow ==
  ASSUME IInv, NEW g \in Handles, phase[g] \notin {"unlock", "callback"}
  PROVE  Taken(g) = {p \in (attached[g] + 1)..Handled(g) : log[p] \in Kinds}
<1>1. \A k \in Kinds : {reported[g][k][i] : i \in DOMAIN reported[g][k]} = 
                       {p \in (attached[g] + 1)..Handled(g) : log[p] = k}
  <2>1. reported[g] = captured[g]
    BY DEF IInv, ReportInv
  <2>2. \A k \in Kinds : IsWindow(captured[g][k], k, attached[g], Handled(g))
    BY DEF IInv, OutputIsWindow
  <2> QED BY <2>1, <2>2 DEF IsWindow
<1> QED BY <1>1 DEF Taken

(* Without its last chunk a window is that of the events before. *)
LEMMA WindowShrinks ==
  ASSUME NEW s \in Seq(Nat), NEW k, NEW a \in Nat, NEW c \in Nat, a < c, log[c] = k,
         IsWindow(Append(s, c), k, a, c)
  PROVE  IsWindow(s, k, a, c - 1)
<1> DEFINE t == Append(s, c)
<1>1. /\ DOMAIN t = 1..(Len(s) + 1) /\ DOMAIN s = 1..Len(s) /\ Len(s) \in Nat
      /\ t[Len(s) + 1] = c
      /\ \A i \in 1..Len(s) : t[i] = s[i] /\ s[i] \in Nat
  OBVIOUS
<1>2. {t[i] : i \in DOMAIN t} = {p \in (a + 1)..c : log[p] = k}
  BY DEF IsWindow
<1>3. \A i \in 1..Len(s) : s[i] < c
  <2>1. \A i, j \in DOMAIN t : i < j => t[i] < t[j]
    BY DEF IsWindow
  <2> SUFFICES ASSUME NEW i \in 1..Len(s) PROVE s[i] < c
    OBVIOUS
  <2>2. i \in DOMAIN t /\ Len(s) + 1 \in DOMAIN t /\ i < Len(s) + 1
    BY <1>1
  <2> HIDE DEF t
  <2>3. t[i] < t[Len(s) + 1]
    BY <2>1, <2>2
  <2> QED BY <1>1, <2>3
<1>4. {t[i] : i \in DOMAIN t} = {s[i] : i \in DOMAIN s} \cup {c}
  BY <1>1
<1>5. c \notin {s[i] : i \in DOMAIN s}
  BY <1>1, <1>3
<1>6. {p \in (a + 1)..(c - 1) : log[p] = k} = {p \in (a + 1)..c : log[p] = k} \ {c}
  OBVIOUS
<1>7. \A i, j \in DOMAIN s : i < j => s[i] < s[j]
  BY <1>1 DEF IsWindow
<1>8. {s[i] : i \in DOMAIN s} = {p \in (a + 1)..(c - 1) : log[p] = k}
  <2> HIDE DEF t
  <2> QED BY <1>2, <1>4, <1>5, <1>6
<1> QED BY <1>7, <1>8 DEF IsWindow

(* The chunk in hand is the next one due to the user. *)
LEMMA ChunkInHand ==
  ASSUME IInv, NEW g \in Handles, phase[g] = "callback"
  PROVE  /\ log[cursor[g]] \in Kinds
         /\ cursor[g] \in (attached[g] + 1)..Len(log)
         /\ Taken(g) = {p \in (attached[g] + 1)..(cursor[g] - 1) : log[p] \in Kinds}
<1> DEFINE c == cursor[g]
           k == log[c]
           r == reported[g]
<1>1. c \in Nat /\ attached[g] \in Nat /\ k \in Kinds /\ c \in (attached[g] + 1)..Len(log)
  BY DEF IInv, TypeOK, CursorInv
<1>2. r \in Chunks /\ captured[g] = [r EXCEPT ![k] = Append(@, c)]
  BY DEF IInv, ReportInv, TypeOK
<1>3. \A j \in Kinds : IsWindow(captured[g][j], j, attached[g], c)
  BY DEF IInv, OutputIsWindow, Handled
<1>4. ASSUME NEW j \in Kinds
      PROVE  {r[j][i] : i \in DOMAIN r[j]} = {p \in (attached[g] + 1)..(c - 1) : log[p] = j}
  <2>1. CASE j # k
    <3>1. captured[g][j] = r[j]
      BY <1>2, <2>1, <1>4 DEF Chunks
    <3>2. {r[j][i] : i \in DOMAIN r[j]} = {p \in (attached[g] + 1)..c : log[p] = j}
      BY <1>3, <3>1, <1>4 DEF IsWindow
    <3>3. {p \in (attached[g] + 1)..c : log[p] = j} = {p \in (attached[g] + 1)..(c - 1) : log[p] = j}
      BY <1>1, <2>1
    <3> QED BY <3>2, <3>3
  <2>2. CASE j = k
    <3>1. r[j] \in Seq(Nat) /\ captured[g][j] = Append(r[j], c)
      BY <1>2, <2>2, <1>4 DEF Chunks
    <3>2. IsWindow(Append(r[j], c), j, attached[g], c)
      BY <1>3, <1>4, <3>1
    <3>3. attached[g] < c /\ log[c] = j
      BY <1>1, <2>2
    <3>4. IsWindow(r[j], j, attached[g], c - 1)
      <4> HIDE DEF c, r, k
      <4> QED BY <1>1, <3>1, <3>2, <3>3, WindowShrinks
    <3> QED BY <3>4 DEF IsWindow
  <2> QED BY <2>1, <2>2
<1> QED BY <1>1, <1>4 DEF Taken

(* A step of the contract for every handle that the step leaves alone. *)
LEMMA OthersRest ==
  ASSUME NEW h, log' = log, process' = process,
         UNCHANGED <<target, answer>>,
         \A g \in Handles \ {h} : /\ phase'[g] = phase[g] /\ attached'[g] = attached[g] 
                                 /\ reported'[g] = reported[g] /\ done'[g] = done[g]
                                 /\ err'[g] = err[g] /\ finished'[g] = finished[g]
  PROVE  \A g \in Handles \ {h} : Contract!Rest(g)
  BY Unseen, NothingTold DEF Made
(* A step of the contract for each handle is a step of the contract. *)
LEMMA StepOfEach ==
  ASSUME \A g \in Handles : \/ Contract!Rest(g) \/ Contract!Send(g) \/ Contract!HandOver(g)
                           \/ Contract!Settle(g) \/ Contract!Tell(g)
  PROVE  Contract!Next
<1>1. \A g \in Handles : /\ [h \in Handles |-> FALSE]'[g] \in BOOLEAN
                        /\ ~[h \in Handles |-> FALSE][g]
  OBVIOUS
<1> QED BY <1>1 DEF Contract!Next, Contract!Step

(* The process goes on for all handles at once: an event that is added to the
   log, the last one too, is news for each handle that is attached. *)
LEMMA NewsForAll ==
  ASSUME IInv, IInv', process = "running", NEW event \in Kinds \cup NotData, log' = Append(log, event),
         UNCHANGED <<stream, output, future, wait>>
  PROVE  \A g \in Handles : Contract!Send(g)
<1> SUFFICES ASSUME NEW g \in Handles PROVE Contract!Send(g)
  OBVIOUS
<1>1. /\ Made(g)' = Made(g) /\ attached' = attached /\ reported' = reported
      /\ done' = done /\ err' = err /\ finished' = finished
      /\ \A w \in Waiters : Told(g, w)' = Told(g, w)
  BY NothingTold DEF stream, output, future, wait, Made
<1>2. Taken(g)' = Taken(g) /\ Verdict(g)' = Verdict(g)
  BY <1>1 DEF Taken, Verdict
<1>3. Sent(g)' \subseteq Nat /\ Contract!Extends(Sent(g), Sent(g)')
  <2>1. /\ Len(log') = Len(log) + 1 /\ Len(log) \in Nat /\ \A p \in 1..Len(log) : log'[p] = log[p]
        /\ attached[g] \in Nat
    BY LogGrows DEF IInv, TypeOK
  <2> QED BY <1>1, <2>1 DEF Sent, Contract!Extends
<1>4. (Made(g) /\ process = "exited")' \in BOOLEAN /\ ~(Made(g) /\ process = "exited")
  BY DEF Made
<1> QED BY <1>1, <1>2, <1>3, <1>4 DEF Contract!Send

(* The same window after a step that leaves the goroutine between two chunks. *)
LEMMA TakenIsWindowNext ==
  ASSUME IInv', NEW g \in Handles, phase'[g] = "receive", UNCHANGED <<log, attached, cursor>>
  PROVE  Taken(g)' = {p \in (attached[g] + 1)..cursor[g] : log[p] \in Kinds}
<1>1. \A k \in Kinds : {reported'[g][k][i] : i \in DOMAIN reported'[g][k]} = 
                       {p \in (attached[g] + 1)..cursor[g] : log[p] = k}
  <2>1. reported'[g] = captured'[g]
    BY DEF IInv, ReportInv
  <2>2. \A k \in Kinds : IsWindow(captured[g][k], k, attached[g], Handled(g))'
    BY DEF IInv, OutputIsWindow
  <2> QED BY <2>1, <2>2 DEF IsWindow, Handled
<1> QED BY <1>1 DEF Taken

(* Each handle keeps the contract of a stream, whatever the others do. *)
LEMMA ContractStep ==
  ASSUME IInv, IInv', [Next]_vars
  PROVE  [Contract!Next]_Contract!vars
<1> SUFFICES \A g \in Handles : \/ Contract!Rest(g) \/ Contract!Send(g) \/ Contract!HandOver(g)
                               \/ Contract!Settle(g) \/ Contract!Tell(g)
  BY StepOfEach
<1> DEFINE Same(h) == 
      /\ log' = log /\ process' = process /\ target' = target /\ answer' = answer
      /\ \A g \in Handles \ {h} : /\ phase'[g] = phase[g] /\ attached'[g] = attached[g] 
                                 /\ reported'[g] = reported[g] /\ done'[g] = done[g]
                                 /\ err'[g] = err[g] /\ finished'[g] = finished[g]
<1>0. ASSUME NEW h, Same(h) PROVE \A g \in Handles \ {h} : Contract!Rest(g)
  BY <1>0, OthersRest
<1>00. TypeOK /\ CursorInv /\ ResultInv /\ DoneInv /\ ReportInv /\ WaitInv /\ LogInv
  BY DEF IInv
<1> USE DEF stream, output, future, wait, Goto
<1>1. ASSUME NEW event \in Kinds \cup {"other"}, Emit(event) PROVE \A g \in Handles : Contract!Send(g)
  BY <1>1, NewsForAll DEF Emit, NotData
<1>2. CASE Exit
  BY <1>2, NewsForAll DEF Exit, NotData
<1>3. CASE ServeStart
  <2>1. /\ log' = log /\ process = "absent" /\ process' = "running" /\ UNCHANGED <<output, future, wait>>
        /\ ~Made(Starter) /\ ~Made(Starter)'
        /\ \A g \in Handles \ {Starter} : attached'[g] = attached[g] /\ phase'[g] = phase[g]
    BY <1>00, <1>3 DEF ServeStart, Attach, TypeOK, LogInv, Made, Handles
  <2> QED BY <2>1, Unseen, NothingTold DEF Made
<1>4. ASSUME NEW h \in Connectors, ServeConnect(h) PROVE \A g \in Handles : Contract!Rest(g)
  <2>1. h \in Handles /\ Same(h) /\ ~Made(h) /\ ~Made(h)' /\ UNCHANGED <<output, future, wait>>
    BY <1>00, <1>4 DEF ServeConnect, Attach, TypeOK, Made, Handles
  <2>2. Contract!Rest(h)
    <3>1. \A w \in Waiters : Told(h, w)' = Told(h, w)
      BY <2>1, NothingTold
    <3>2. Made(h)' = Made(h)
      BY <2>1 DEF Made
    <3> QED BY <2>1, <3>1, <3>2, Unseen
  <2> QED BY <1>0, <2>1, <2>2
<1>5. ASSUME NEW h \in Handles, Open(h) \/ OpenFails(h) PROVE \A g \in Handles : Contract!Rest(g)
  <2>1. Same(h) /\ ~Made(h) /\ ~Made(h)' /\ UNCHANGED <<attached, output, future, wait>>
    BY <1>00, <1>5 DEF Open, OpenFails, TypeOK, Made
  <2>2. Contract!Rest(h)
    <3>1. \A w \in Waiters : Told(h, w)' = Told(h, w)
      BY <2>1, NothingTold
    <3>2. Made(h)' = Made(h)
      BY <2>1 DEF Made
    <3> QED BY <2>1, <3>1, <3>2, Unseen
  <2> QED BY <1>0, <2>1, <2>2
<1>6. ASSUME NEW h \in Handles, Started(h) 
      PROVE  Contract!Send(h) /\ \A g \in Handles \ {h} : Contract!Rest(g)
  <2>1. Same(h) /\ ~Made(h) /\ Made(h)' /\ UNCHANGED <<attached, output, future, wait>>
    BY <1>00, <1>6 DEF Started, TypeOK, Made
  <2>2. /\ Sent(h) = {} /\ Sent(h)' \subseteq Nat /\ Taken(h)' = Taken(h) /\ Verdict(h)' = Verdict(h)
        /\ \A w \in Waiters : Told(h, w)' = Told(h, w)
    BY <1>00, <2>1, NothingTold DEF Sent, Taken, Verdict, TypeOK
  <2>3. (Made(h) /\ process = "exited")' \in BOOLEAN /\ ~(Made(h) /\ process = "exited")
    BY <2>1 DEF Made
  <2>4. Contract!Extends(Sent(h), Sent(h)')
    BY <2>2 DEF Contract!Extends
  <2> QED BY <1>0, <2>1, <2>2, <2>3, <2>4 DEF Contract!Send
<1>7. ASSUME NEW h \in Handles, 
             Receive(h) \/ AppendLocked(h) \/ Unlock(h) \/ Finish(h) \/ Seal(h) \/ Cancel(h)
      PROVE  \A g \in Handles : Contract!Rest(g)
  <2>1. Same(h) /\ Made(h)' = Made(h) /\ UNCHANGED <<attached, reported, done, wait>>
    BY <1>00, <1>7 DEF Receive, AppendLocked, Unlock, Finish, Seal, Cancel, TypeOK, Made
  <2>2. done[h] => err'[h] = err[h] /\ finished'[h] = finished[h]
    BY <1>00, <1>7 DEF Receive, AppendLocked, Unlock, Finish, Seal, Cancel, DoneInv
  <2>3. Contract!Rest(h)
    BY <2>1, <2>2, Unseen, NothingTold
  <2> QED BY <1>0, <2>1, <2>3
<1>8. ASSUME NEW h \in Handles, StreamEnds(h) \/ StreamCancelled(h) \/ StreamBreaks(h)
      PROVE  \A g \in Handles : Contract!Rest(g)
  <2>1. PICK e : EndLoop(h, e)
    BY <1>8 DEF StreamEnds, StreamCancelled, StreamBreaks
  <2>2. Same(h) /\ Made(h)' = Made(h) /\ UNCHANGED <<attached, reported, future, wait>>
    BY <1>00, <2>1 DEF EndLoop, TypeOK, Made
  <2>3. Contract!Rest(h)
    BY <2>2, Unseen, NothingTold
  <2> QED BY <1>0, <2>2, <2>3
<1>9. ASSUME NEW h \in Handles, Callback(h)
      PROVE  Contract!HandOver(h) /\ \A g \in Handles \ {h} : Contract!Rest(g)
  <2>1. /\ Same(h) /\ Made(h) /\ Made(h)' /\ phase[h] = "callback" /\ phase'[h] = "receive" /\ ~done[h]
        /\ UNCHANGED <<attached, cursor, future, wait>>
    BY <1>00, <1>9 DEF Callback, TypeOK, Made, DoneInv
  <2>2. /\ log[cursor[h]] \in Kinds
        /\ cursor[h] \in (attached[h] + 1)..Len(log)
        /\ Taken(h) = {p \in (attached[h] + 1)..(cursor[h] - 1) : log[p] \in Kinds}
    BY <2>1, ChunkInHand
  <2>3. Taken(h)' = {p \in (attached[h] + 1)..cursor[h] : log[p] \in Kinds}
    BY <2>1, TakenIsWindowNext
  <2>4. cursor[h] \in Nat /\ attached[h] \in Nat /\ Len(log) \in Nat
    BY <1>00 DEF TypeOK
  <2>5. Taken(h)' = Taken(h) \cup {cursor[h]}
    BY <2>2, <2>3, <2>4
  <2>6. cursor[h] \in Sent(h) \ Taken(h) /\ \A q \in Sent(h) \ Taken(h) : cursor[h] <= q
    BY <2>1, <2>2, <2>4 DEF Sent
  <2>7. /\ Sent(h)' = Sent(h) /\ Verdict(h)' = Verdict(h) /\ Verdict(h) = "pending"
        /\ (Made(h) /\ process = "exited")' = (Made(h) /\ process = "exited")
        /\ \A w \in Waiters : Told(h, w)' = Told(h, w)
    BY <2>1, NothingTold DEF Sent, Verdict
  <2> QED BY <1>0, <2>1, <2>5, <2>6, <2>7 DEF Contract!HandOver, Contract!Due, Contract!Pending
<1>10. ASSUME NEW h \in Handles, Close(h)
       PROVE  Contract!Settle(h) /\ \A g \in Handles \ {h} : Contract!Rest(g)
  <2>1. /\ Same(h) /\ Made(h) /\ Made(h)' /\ phase[h] = "close" /\ ~done[h] /\ done'[h]
        /\ UNCHANGED <<attached, cursor, output, finished, result, err, wait>>
    BY <1>00, <1>10 DEF Close, TypeOK, Made, DoneInv
  <2>2. /\ Sent(h)' = Sent(h) /\ Taken(h)' = Taken(h) /\ Verdict(h) = "pending"
        /\ (Made(h) /\ process = "exited")' = (Made(h) /\ process = "exited")
        /\ \A w \in Waiters : Told(h, w)' = Told(h, w)
    BY <2>1, NothingTold DEF Sent, Taken, Verdict
  <2>3. Verdict(h)' = err[h] /\ err[h] \in {OK, ErrStream, ErrNoEnd} /\ (err[h] = OK => finished[h])
    BY <1>00, <2>1 DEF Verdict, TypeOK, DoneInv
  <2>4. finished[h] => process = "exited" /\ Taken(h) = Sent(h)
    BY <1>00, <2>1, TakenIsWindow DEF ResultInv, Handled, Sent
  <2> QED BY <1>0, <2>1, <2>2, <2>3, <2>4 
          DEF Contract!Settle, Contract!Pending, Contract!Verdicts, Contract!Complete
<1>11. ASSUME NEW w \in Waiters, WaitReturns(w)
       PROVE  LET h == target[w] IN Contract!Tell(h) /\ \A g \in Handles \ {h} : Contract!Rest(g)
  <2> DEFINE h == target[w]
  <2>1. /\ h \in Handles /\ done[h] /\ answer[w] = "blocked"
        /\ answer' = [answer EXCEPT ![w] = Verdict(h)]
        /\ UNCHANGED <<process, log, stream, output, future, target>>
    BY <1>00, <1>11 DEF WaitReturns, TypeOK, Verdict
  <2>2. Verdict(h) \in {OK, ErrStream, ErrNoEnd, ErrNoResult}
    BY <1>00, <2>1 DEF Verdict, TypeOK
  <2>3. Verdict(h) \notin {"idle", "blocked", "pending"}
    BY <2>2 DEF OK, ErrStream, ErrNoEnd, ErrNoResult
  <2>4. \A g \in Handles, v \in Waiters : 
          Told(g, v)' = IF g = h /\ v = w THEN Verdict(h) ELSE Told(g, v)
    BY <1>00, <2>1, <2>3 DEF Told, TypeOK
  <2>5. Told(h, w) = "pending"
    BY <2>1 DEF Told
  <2>6. \A g \in Handles : Made(g)' = Made(g) /\ Sent(g)' = Sent(g) /\ Taken(g)' = Taken(g) /\ Verdict(g)' = Verdict(g)
    BY <2>1 DEF Made, Sent, Taken, Verdict
  <2>7. \A g \in Handles \ {h} : Contract!Rest(g)
    BY <2>1, <2>4, <2>6, Unseen
  <2>8. (Made(h) /\ process = "exited")' = (Made(h) /\ process = "exited")
    BY <2>1, <2>6
  <2>9. Contract!Tell(h)
    BY <2>1, <2>3, <2>4, <2>5, <2>6, <2>8 DEF Contract!Tell, Contract!Pending
  <2> QED BY <2>7, <2>9
<1>12. ASSUME NEW w \in Waiters, NEW h \in Handles, Wait(w, h) PROVE \A g \in Handles : Contract!Rest(g)
  <2>1. \A g \in Handles, v \in Waiters : Told(g, v)' = Told(g, v)
    BY <1>00, <1>12 DEF Wait, Told, TypeOK
  <2> QED BY <1>12, <2>1, Unseen DEF Wait, Made
<1>13. CASE UNCHANGED vars
  BY <1>13, Unseen, NothingTold DEF vars, Made
<1> QED
  <2>1. ASSUME NEW h \in Handles, Consume(h) \/ Cancel(h) \/ StreamBreaks(h) \/ Started(h)
        PROVE  \A g \in Handles : \/ Contract!Rest(g) \/ Contract!Send(g) \/ Contract!HandOver(g)
                                 \/ Contract!Settle(g) \/ Contract!Tell(g)
    BY <2>1, <1>6, <1>7, <1>8, <1>9, <1>10 DEF Consume
  <2>2. ASSUME NEW w \in Waiters, WaitReturns(w)
        PROVE  \A g \in Handles : Contract!Rest(g) \/ Contract!Tell(g)
    BY <2>2, <1>11
  <2> QED BY <2>1, <2>2, <1>1, <1>2, <1>3, <1>4, <1>5, <1>12, <1>13 DEF Next, Terminated

(* A step of the handles is a step of the contract, or none of its business. *)
THEOREM Refinement == Spec => ImplementsContract
<1>1. Init => Contract!Init
  <2> SUFFICES ASSUME Init PROVE Contract!Init
    OBVIOUS
  <2>1. \A h \in Handles : /\ ~Made(h) /\ Sent(h) = {} /\ Taken(h) = {} /\ Verdict(h) = "pending"
                          /\ \A w \in Waiters : Told(h, w) = "pending"
    BY DEF Init, Made, Sent, Taken, Nothing, Verdict, Told
  <2> QED BY <2>1 DEF Contract!Init, Contract!Pending
<1>2. IInv /\ IInv' /\ [Next]_vars => [Contract!Next]_Contract!vars
  BY ContractStep
<1> QED BY <1>1, <1>2, Invariance, PTL DEF Spec, ImplementsContract, Contract!Spec
=============================================================================
