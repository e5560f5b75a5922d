----------------------------- MODULE WatchProofs -----------------------------
(***************************************************************************)
(* What a watch reports, for any number of messages, event types and       *)
(* waiters.                                                                *)
(***************************************************************************)
EXTENDS Watch, TLAPS

Ended == phase \in {"seal", "close", "stopped"}

(* The message in hand is a filesystem event of the log. *)
CursorInv ==
  /\ cursor <= Len(log)
  /\ phase = "event" => cursor > 0 /\ log[cursor] \in Types

(* A reason for the loop to end with e. *)
Justified(e) ==
  /\ e \in {OK, Canceled, Deadline, ErrRPC}
  /\ e \in {Canceled, Deadline} => context = e
  /\ e = ErrRPC => broken
  /\ e = OK => ~open /\ cursor = Len(log)

(* Why the loop ended is still visible in the world. *)
CauseInv ==
  /\ broken => ~open
  /\ Ended => Justified(streamErr)

(* h.err is what the loop's end became, and done is closed last. *)
SealInv ==
  /\ phase \in {"close", "stopped"} => err = WatchError(streamErr)
  /\ done <=> phase = "stopped"

(* A waiter was told h.err, after done was closed. *)
AnswerInv ==
  \A w \in Waiters : answer[w] \notin {"idle", "blocked"} => done /\ answer[w] = err

(* The inductive invariant. *)
Rest == CursorInv /\ EventsInOrder /\ CauseInv /\ SealInv /\ AnswerInv
IInv == TypeOK /\ Rest

-----------------------------------------------------------------------------
(* The names of errors are distinct. *)
LEMMA NamesDistinct ==
  /\ OK \notin {Canceled, Deadline, ErrRPC, ErrDeadline, "idle", "blocked"}
  /\ Canceled \notin {Deadline, ErrRPC, ErrDeadline}
  /\ Deadline \notin {ErrRPC, ErrDeadline}
  /\ ErrRPC # ErrDeadline
  /\ {ErrRPC, ErrDeadline} \cap {"idle", "blocked"} = {}
  BY DEF OK, Canceled, Deadline, ErrRPC, ErrDeadline

(* What consumeWatchStream makes of the stream's error. *)
LEMMA WatchErrorCases ==
  /\ WatchError(OK) = OK
  /\ WatchError(Canceled) = OK
  /\ WatchError(Deadline) = ErrDeadline
  /\ WatchError(ErrRPC) = ErrRPC
  BY NamesDistinct DEF WatchError

(* Every variable keeps its type. *)
LEMMA TypeStep == TypeOK /\ [Next]_vars => TypeOK'
<1> SUFFICES ASSUME TypeOK, [Next]_vars PROVE TypeOK'
  OBVIOUS
<1> USE NamesDistinct DEF TypeOK, remote, control, future
<1>1. ASSUME NEW event \in Types \cup {Other}, Send(event) PROVE TypeOK'
  BY <1>1 DEF Send
<1>2. CASE Ends
  BY <1>2 DEF Ends
<1>3. CASE Opened
  BY <1>3 DEF Opened
<1>4. CASE OpenFails
  BY <1>4 DEF OpenFails
<1>5. CASE Stop
  BY <1>5 DEF Stop
<1>6. CASE ParentDone
  BY <1>6 DEF ParentDone
<1>7. ASSUME NEW w \in Waiters, Wait(w) PROVE TypeOK'
  BY <1>7 DEF Wait
<1>8. ASSUME NEW w \in Waiters, WaitReturns(w) PROVE TypeOK'
  BY <1>8 DEF WaitReturns
<1>9. CASE Receive
  BY <1>9 DEF Receive
<1>10. CASE OnEvent
  BY <1>10 DEF OnEvent
<1>11. CASE StreamCancelled
  BY <1>11 DEF StreamCancelled, EndLoop
<1>12. CASE StreamEnds
  <2>1. PICK e \in {ErrRPC, OK} : EndLoop(e)
    BY <1>12 DEF StreamEnds
  <2> QED BY <2>1 DEF EndLoop
<1>13. CASE Seal
  BY <1>13, WatchErrorCases DEF Seal
<1>14. CASE Close
  BY <1>14 DEF Close
<1>15. CASE UNCHANGED vars
  BY <1>15 DEF vars
<1> QED
  BY <1>1, <1>2, <1>3, <1>4, <1>5, <1>6, <1>7, <1>8, <1>9, <1>10, <1>11, <1>12, <1>13, <1>14, 
     <1>15 DEF Next, Consume, Terminated

(* The events handed over so far, apart from the one in hand. *)
Seen == IF phase = "event" THEN cursor - 1 ELSE cursor

Handed == {reported[i] : i \in DOMAIN reported}

Due(n) == {p \in 1..n : log[p] \in Types}

(* A step that hands nothing over keeps the order: what was due is still due. *)
LEMMA OrderKept ==
  ASSUME TypeOK, CursorInv, EventsInOrder, reported' = reported, Seen' \in Nat,
         \A p \in 1..Seen : log'[p] = log[p],
         \/ Seen' = Seen
         \/ Seen' = Seen + 1 /\ log'[Seen + 1] \notin Types
  PROVE  EventsInOrder'
<1>1. Seen \in Nat
  BY DEF Seen, TypeOK, CursorInv
<1>2. Handed = Due(Seen)
  BY DEF EventsInOrder, Handed, Due, Seen
<1>3. {p \in 1..Seen' : log'[p] \in Types} = Due(Seen)
  BY <1>1 DEF Due
<1>4. /\ \A i, j \in DOMAIN reported' : i < j => reported'[i] < reported'[j]
      /\ {reported'[i] : i \in DOMAIN reported'} = Handed
  BY DEF EventsInOrder, Handed
<1> QED BY <1>2, <1>3, <1>4 DEF EventsInOrder, Seen

(* onEvent gets the event in hand, which comes after all it got before. *)
LEMMA OrderExtended ==
  ASSUME TypeOK, CursorInv, EventsInOrder, OnEvent
  PROVE  EventsInOrder'
<1> DEFINE n == Len(reported)
<1>1. /\ phase = "event" /\ phase' = "receive" /\ cursor' = cursor /\ log' = log
      /\ reported' = Append(reported, cursor)
  BY DEF OnEvent, remote
<1>2. /\ DOMAIN reported = 1..n /\ n \in Nat /\ DOMAIN reported' = 1..(n + 1)
      /\ reported'[n + 1] = cursor
      /\ \A i \in 1..n : reported'[i] = reported[i] /\ reported[i] \in Nat
  BY <1>1 DEF TypeOK
<1>3. cursor \in Nat /\ cursor > 0 /\ log[cursor] \in Types
  BY <1>1 DEF TypeOK, CursorInv
<1>4. Handed = {p \in 1..(cursor - 1) : log[p] \in Types}
  BY <1>1 DEF EventsInOrder, Handed
<1>5. \A i \in 1..n : reported[i] < cursor
  <2> SUFFICES ASSUME NEW i \in 1..n PROVE reported[i] < cursor
    OBVIOUS
  <2>1. reported[i] \in Handed
    BY <1>2 DEF Handed
  <2> QED BY <1>3, <1>4, <2>1
<1>6. ASSUME NEW i \in DOMAIN reported', NEW j \in DOMAIN reported', i < j
      PROVE  reported'[i] < reported'[j]
  <2>1. CASE j = n + 1
    BY <1>2, <1>5, <1>6, <2>1
  <2>2. CASE j # n + 1
    <3>1. i \in DOMAIN reported /\ j \in DOMAIN reported
      BY <1>2, <1>6, <2>2
    <3> QED BY <1>2, <1>6, <3>1 DEF EventsInOrder
  <2> QED BY <2>1, <2>2
<1>7. {reported'[i] : i \in DOMAIN reported'} = Handed \cup {cursor}
  BY <1>2 DEF Handed
<1>8. {p \in 1..cursor : log[p] \in Types} = Handed \cup {cursor}
  BY <1>3, <1>4
<1> QED BY <1>1, <1>6, <1>7, <1>8 DEF EventsInOrder

(* The rest of the invariant, step by step. *)
LEMMA RestStep ==
  ASSUME IInv, [Next]_vars, TypeOK'
  PROVE  Rest'
<1>0. TypeOK /\ CursorInv /\ EventsInOrder /\ CauseInv /\ SealInv /\ AnswerInv
  BY DEF IInv, Rest
<1>00. ASSUME UNCHANGED <<phase, log, cursor, reported>> PROVE CursorInv' /\ EventsInOrder'
  BY <1>0, <1>00 DEF CursorInv, EventsInOrder
<1>1. ASSUME NEW event \in Types \cup {Other}, Send(event) PROVE Rest'
  <2>1. /\ Len(log') = Len(log) + 1 /\ \A p \in 1..Len(log) : log'[p] = log[p]
        /\ UNCHANGED <<phase, cursor, reported>>
    BY <1>0, <1>1 DEF Send, TypeOK
  <2>2. EventsInOrder'
    <3>1. Seen' = Seen /\ Seen \in Nat /\ Seen <= Len(log)
      BY <1>0, <2>1 DEF Seen, TypeOK, CursorInv
    <3> QED BY <1>0, <2>1, <3>1, OrderKept DEF TypeOK
  <2>3. CursorInv'
    BY <1>0, <2>1 DEF CursorInv, TypeOK
  <2> QED
    BY <1>0, <1>1, <2>2, <2>3 DEF Rest, Send, CauseInv, Justified, SealInv, AnswerInv, Ended, control, future
<1>2. CASE Ends
  BY <1>0, <1>00, <1>2 DEF Rest, Ends, CauseInv, Justified, SealInv, AnswerInv, Ended, control, future, TypeOK
<1>3. CASE Opened
  <2>1. CursorInv' /\ EventsInOrder'
    BY <1>0, <1>3 DEF Opened, remote, CursorInv, EventsInOrder
  <2> QED BY <1>0, <1>3, <2>1 
          DEF Rest, Opened, CauseInv, Justified, SealInv, AnswerInv, Ended, control, future, remote
<1>4. CASE OpenFails
  <2>1. CursorInv' /\ EventsInOrder'
    BY <1>0, <1>4 DEF OpenFails, remote, CursorInv, EventsInOrder
  <2> QED BY <1>0, <1>4, <2>1 
          DEF Rest, OpenFails, CauseInv, Justified, SealInv, AnswerInv, Ended, future, remote
<1>5. CASE Stop
  BY <1>0, <1>00, <1>5, NamesDistinct 
     DEF Rest, Stop, CauseInv, Justified, SealInv, AnswerInv, Ended, future, remote
<1>6. CASE ParentDone
  BY <1>0, <1>00, <1>6, NamesDistinct 
     DEF Rest, ParentDone, CauseInv, Justified, SealInv, AnswerInv, Ended, future, remote
<1>7. ASSUME NEW w \in Waiters, Wait(w) PROVE Rest'
  BY <1>0, <1>00, <1>7 
     DEF Rest, Wait, CauseInv, Justified, SealInv, AnswerInv, Ended, future, remote, control, TypeOK
<1>8. ASSUME NEW w \in Waiters, WaitReturns(w) PROVE Rest'
  BY <1>0, <1>00, <1>8 
     DEF Rest, WaitReturns, CauseInv, Justified, SealInv, AnswerInv, Ended, future, remote, control, TypeOK
<1>9. CASE Receive
  <2>1. /\ phase = "receive" /\ cursor' = cursor + 1 /\ cursor + 1 <= Len(log) /\ cursor \in Nat
        /\ log' = log /\ reported' = reported
        /\ phase' = IF log[cursor + 1] \in Types THEN "event" ELSE "receive"
    BY <1>0, <1>9 DEF Receive, TypeOK, remote
  <2>2. CursorInv'
    BY <2>1 DEF CursorInv
  <2>3. EventsInOrder'
    <3>1. Seen = cursor /\ Seen' \in Nat
      BY <2>1 DEF Seen
    <3>2. CASE log[cursor + 1] \in Types
      <4>1. Seen' = Seen
        BY <2>1, <3>1, <3>2 DEF Seen
      <4> QED BY <1>0, <2>1, <3>1, <4>1, OrderKept
    <3>3. CASE log[cursor + 1] \notin Types
      <4>1. Seen' = Seen + 1 /\ log'[Seen + 1] \notin Types
        BY <2>1, <3>1, <3>3 DEF Seen
      <4> QED BY <1>0, <2>1, <3>1, <4>1, OrderKept
    <3> QED BY <3>2, <3>3
  <2>4. /\ UNCHANGED <<log, open, broken, context, streamErr, err, done, answer>>
        /\ ~Ended /\ ~Ended' /\ phase' # "stopped"
    BY <1>9, <2>1 DEF Receive, remote, control, future, Ended
  <2> QED BY <1>0, <2>2, <2>3, <2>4 DEF Rest, CauseInv, SealInv, AnswerInv, Ended
<1>10. CASE OnEvent
  <2>1. EventsInOrder'
    BY <1>0, <1>10, OrderExtended
  <2> QED BY <1>0, <1>10, <2>1 
          DEF Rest, OnEvent, CursorInv, CauseInv, Justified, SealInv, AnswerInv, Ended, future, remote
<1>11. ASSUME \E e : EndLoop(e) /\ Justified(e) PROVE Rest'
  <2>1. PICK e : EndLoop(e) /\ Justified(e)
    BY <1>11
  <2>2. CursorInv' /\ EventsInOrder'
    BY <1>0, <2>1 DEF EndLoop, remote, CursorInv, EventsInOrder
  <2> QED BY <1>0, <2>1, <2>2 
          DEF Rest, EndLoop, CauseInv, Justified, SealInv, AnswerInv, Ended, future, remote, control
<1>12. CASE StreamCancelled
  <2>1. context # OK /\ EndLoop(context)
    BY <1>12 DEF StreamCancelled
  <2>2. Justified(context)
    BY <1>0, <2>1, NamesDistinct DEF TypeOK, Justified
  <2>3. \E e : EndLoop(e) /\ Justified(e)
    BY <2>1, <2>2
  <2> QED BY <1>11, <2>3
<1>13. CASE StreamEnds
  <2>1. \E e : EndLoop(e) /\ Justified(e)
    <3>1. CASE broken
      <4>1. EndLoop(ErrRPC) /\ Justified(ErrRPC)
        BY <1>13, <3>1, NamesDistinct DEF StreamEnds, Justified
      <4> QED BY <4>1
    <3>2. CASE ~broken
      <4>1. EndLoop(OK) /\ Justified(OK)
        BY <1>13, <3>2, NamesDistinct DEF StreamEnds, Justified
      <4> QED BY <4>1
    <3> QED BY <3>1, <3>2
  <2> QED BY <1>11, <2>1
<1>14. CASE Seal
  <2>1. CursorInv' /\ EventsInOrder'
    BY <1>0, <1>14 DEF Seal, remote, CursorInv, EventsInOrder
  <2> QED BY <1>0, <1>14, <2>1 
          DEF Rest, Seal, CauseInv, Justified, SealInv, AnswerInv, Ended, remote, control, WatchError
<1>15. CASE Close
  <2>1. CursorInv' /\ EventsInOrder'
    BY <1>0, <1>15 DEF Close, remote, CursorInv, EventsInOrder
  <2> QED BY <1>0, <1>15, <2>1 
          DEF Rest, Close, CauseInv, Justified, SealInv, AnswerInv, Ended, remote, control, WatchError
<1>16. CASE UNCHANGED vars
  BY <1>0, <1>00, <1>16 
     DEF Rest, vars, CauseInv, Justified, SealInv, AnswerInv, Ended, future, remote, control, WatchError
<1>17. CASE Consume
  BY <1>9, <1>10, <1>12, <1>13, <1>14, <1>15, <1>17 DEF Consume
<1>18. CASE Terminated
  BY <1>16, <1>18 DEF Terminated
<1>19. CASE \E event \in Types \cup {Other} : Send(event)
  BY <1>1, <1>19
<1>20. CASE \E w \in Waiters : Wait(w) \/ WaitReturns(w)
  BY <1>7, <1>8, <1>20
<1>21. Rest'
  BY <1>2, <1>3, <1>4, <1>5, <1>6, <1>16, <1>17, <1>18, <1>19, <1>20 DEF Next
<1> QED BY <1>21

(* The parts together are an inductive invariant of the watch. *)
THEOREM Invariance == Spec => []IInv
<1>1. Init => IInv
  <2> SUFFICES ASSUME Init PROVE IInv
    OBVIOUS
  <2>1. TypeOK
    <3>1. log \in Seq(Types \cup {Other}) /\ reported \in Seq(Nat)
      BY DEF Init
    <3>2. answer \in [Waiters -> {"idle"}]
      BY DEF Init
    <3> QED BY <3>1, <3>2 DEF Init, TypeOK
  <2>2. EventsInOrder
    BY DEF Init, EventsInOrder
  <2>3. CursorInv /\ CauseInv /\ SealInv /\ AnswerInv
    BY DEF Init, CursorInv, CauseInv, Justified, SealInv, AnswerInv, Ended
  <2> QED BY <2>1, <2>2, <2>3 DEF IInv, Rest
<1>2. IInv /\ [Next]_vars => IInv'
  BY TypeStep, RestStep DEF IInv, Rest
<1> QED BY <1>1, <1>2, PTL DEF Spec

-----------------------------------------------------------------------------
(* Every variable has its type. *)
THEOREM TypeCorrect == Spec => []TypeOK
<1>1. IInv => TypeOK
  BY DEF IInv, Rest
<1> QED BY <1>1, Invariance, PTL

(* onEvent gets every filesystem event received, in order and once. *)
THEOREM EventsAreInOrder == Spec => []EventsInOrder
<1>1. IInv => EventsInOrder
  BY DEF IInv, Rest
<1> QED BY <1>1, Invariance, PTL

(* An error of Wait is never the consequence of Stop. *)
THEOREM StopIsHonest == Spec => []StopIsNoError
<1>1. ASSUME IInv, NEW w \in Waiters, answer[w] \in {ErrRPC, ErrDeadline}
      PROVE  (answer[w] = ErrDeadline => context = Deadline) /\ (answer[w] = ErrRPC => broken)
  <2>1. phase = "stopped" /\ answer[w] = WatchError(streamErr)
    BY <1>1, NamesDistinct DEF IInv, Rest, SealInv, AnswerInv
  <2>2. streamErr \in {OK, Canceled, Deadline, ErrRPC} /\ Justified(streamErr)
    BY <1>1, <2>1 DEF IInv, Rest, TypeOK, CauseInv, Ended
  <2> QED BY <2>1, <2>2, NamesDistinct, WatchErrorCases DEF Justified
<1>2. IInv => StopIsNoError
  BY <1>1 DEF StopIsNoError
<1> QED BY <1>2, Invariance, PTL

(* A Wait that returns nil hides no event unless the watch was cancelled. *)
THEOREM NilIsWhole == Spec => []NilIsComplete
<1>1. ASSUME IInv, NEW w \in Waiters, answer[w] = OK, context # Canceled
      PROVE  {reported[i] : i \in DOMAIN reported} = {p \in 1..Len(log) : log[p] \in Types}
  <2>1. phase = "stopped" /\ WatchError(streamErr) = OK
    BY <1>1, NamesDistinct DEF IInv, Rest, SealInv, AnswerInv
  <2>2. streamErr = OK
    BY <1>1, <2>1, NamesDistinct, WatchErrorCases DEF IInv, Rest, TypeOK, CauseInv, Justified, Ended
  <2>3. cursor = Len(log)
    BY <1>1, <2>1, <2>2 DEF IInv, Rest, CauseInv, Justified, Ended
  <2> QED BY <1>1, <2>1, <2>3 DEF IInv, Rest, EventsInOrder
<1>2. IInv => NilIsComplete
  BY <1>1 DEF NilIsComplete
<1> QED BY <1>2, Invariance, PTL

(* Once a Wait has returned no event is handed over. *)
THEOREM QuietAfterWait == Spec => NoEventAfterWait
<1> DEFINE A == (\E w \in Waiters : answer[w] \notin {"idle", "blocked"}) => reported' = reported
<1>1. IInv /\ [Next]_vars => [A]_vars
  <2> SUFFICES ASSUME IInv, Next, NEW w \in Waiters, answer[w] \notin {"idle", "blocked"}
               PROVE  reported' = reported
    OBVIOUS
  <2>1. phase = "stopped"
    BY DEF IInv, Rest, SealInv, AnswerInv
  <2> QED
    BY <2>1 DEF Next, Consume, Terminated, vars, Send, Ends, Opened, OpenFails, Stop, ParentDone, 
                Wait, WaitReturns, Receive, OnEvent, StreamCancelled, StreamEnds, EndLoop, Seal, Close
<1> QED BY <1>1, Invariance, PTL DEF Spec, NoEventAfterWait
-----------------------------------------------------------------------------
(* A cancelled watch stays cancelled: its user cannot ask for it again. *)
LEMMA CancelledForGood == [Next]_vars /\ context = Canceled => context' = Canceled
  BY NamesDistinct 
  DEF Next, Consume, Terminated, vars, remote, control, future, Send, Ends, Opened, OpenFails, Stop, ParentDone, 
      Wait, WaitReturns, Receive, OnEvent, StreamCancelled, StreamEnds, EndLoop, Seal, Close

(* What the contract sees of the watch moves with these variables only. *)
LEMMA Invisible ==
  ASSUME UNCHANGED <<reported, done, err, answer>>
  PROVE  /\ (log' = log /\ open' = open => Contract!Rest("watch"))
         /\ Handed' = Handed
         /\ \A w \in Waiters : Told(w)' = Told(w)
  BY DEF Contract!Rest, Sent, Told, Handed

(* A watch keeps the contract of a stream: every step is one of the contract's
   or none of its business. *)
THEOREM Refinement == Spec => ImplementsContract
<1>1. Init => Contract!Init
  <2> SUFFICES ASSUME Init PROVE Contract!Init
    OBVIOUS
  <2>1. Sent = {} /\ Handed = {}
    BY DEF Init, Sent, Handed
  <2>2. open /\ context # Canceled /\ ~done /\ \A w \in Waiters : Told(w) = "pending"
    BY NamesDistinct DEF Init, Told
  <2> QED BY <2>1, <2>2 DEF Contract!Init, Contract!Pending, Handed
<1>2. ASSUME IInv, IInv', [Next]_vars PROVE Contract!Step("watch")
  <2>0. TypeOK /\ CursorInv /\ EventsInOrder /\ CauseInv /\ SealInv /\ AnswerInv
    BY <1>2 DEF IInv, Rest
  <2>00. /\ [s \in {"watch"} |-> context = Canceled]'["watch"] \in BOOLEAN
         /\ context = Canceled => context' = Canceled
    BY <1>2, CancelledForGood
  <2> SUFFICES \/ Contract!Rest("watch") \/ Contract!Send("watch") \/ Contract!HandOver("watch")
               \/ Contract!Settle("watch") \/ Contract!Tell("watch")
    BY <2>00 DEF Contract!Step
  <2> USE NamesDistinct DEF remote, control, future
  <2>1. ASSUME NEW event \in Types \cup {Other}, Send(event) PROVE Contract!Send("watch")
    <3>1. /\ open /\ open' /\ log' = Append(log, event) /\ UNCHANGED <<reported, done, err, answer>>
      BY <2>0, <2>1 DEF Send, TypeOK
    <3>2. Sent \subseteq Nat /\ Sent' \subseteq Nat /\ Contract!Extends(Sent, Sent')
      BY <2>0, <3>1 DEF Sent, TypeOK, Contract!Extends
    <3> QED BY <3>1, <3>2, Invisible DEF Contract!Send, Handed
  <2>2. CASE Ends
    <3>1. open /\ ~open' /\ log' = log /\ UNCHANGED <<reported, done, err, answer>>
      BY <2>0, <2>2 DEF Ends, TypeOK
    <3>2. Sent \subseteq Nat /\ Sent' = Sent
      BY <3>1 DEF Sent
    <3> QED BY <3>1, <3>2, Invisible DEF Contract!Send, Contract!Extends, Handed
  <2>3. CASE OnEvent
    <3>1. /\ phase = "event" /\ log' = log /\ open' = open /\ reported' = Append(reported, cursor)
          /\ UNCHANGED <<done, err, answer>> /\ ~done
      BY <2>0, <2>3 DEF OnEvent, SealInv
    <3>2. cursor \in Sent /\ Handed = {p \in 1..(cursor - 1) : log[p] \in Types} /\ Sent' = Sent
      BY <2>0, <3>1 DEF CursorInv, EventsInOrder, Handed, Sent, TypeOK
    <3>3. Handed' = Handed \cup {cursor}
      <4>1. /\ DOMAIN reported' = DOMAIN reported \cup {Len(reported) + 1}
            /\ reported'[Len(reported) + 1] = cursor
            /\ \A i \in DOMAIN reported : reported'[i] = reported[i]
        BY <2>0, <3>1 DEF TypeOK
      <4> QED BY <4>1 DEF Handed
    <3>4. cursor \notin Handed /\ \A q \in Sent \ Handed : cursor <= q
      BY <2>0, <3>2 DEF Sent, TypeOK
    <3> QED BY <3>1, <3>2, <3>3, <3>4 
            DEF Contract!HandOver, Contract!Due, Contract!Pending, Handed, Told
  <2>4. CASE Close
    <3>1. /\ phase = "close" /\ ~done /\ done' /\ err' = err /\ err = WatchError(streamErr)
          /\ UNCHANGED <<log, open, reported, answer>>
      BY <2>0, <2>4 DEF Close, SealInv, Ended
    <3>2. Justified(streamErr)
      BY <2>0, <3>1 DEF CauseInv, Ended
    <3>3. err = OK => (~open /\ Handed = Sent) \/ context = Canceled
      <4>1. err = OK => streamErr \in {OK, Canceled}
        BY <3>1, <3>2, WatchErrorCases DEF Justified
      <4>2. streamErr = OK => ~open /\ Handed = Sent
        BY <2>0, <3>1, <3>2 DEF Justified, EventsInOrder, Handed, Sent
      <4> QED BY <3>2, <4>1, <4>2 DEF Justified
    <3>4. err \in {OK, ErrRPC, ErrDeadline}
      BY <2>0 DEF TypeOK
    <3>5. Sent' = Sent /\ Handed' = Handed /\ \A w \in Waiters : Told(w)' = Told(w)
      BY <3>1 DEF Sent, Handed, Told
    <3> QED BY <3>1, <3>3, <3>4, <3>5
            DEF Contract!Settle, Contract!Pending, Contract!Verdicts, Contract!Complete, Handed
  <2>5. ASSUME NEW w \in Waiters, WaitReturns(w) PROVE Contract!Tell("watch")
    <3>1. /\ answer[w] = "blocked" /\ done /\ answer' = [answer EXCEPT ![w] = err]
          /\ UNCHANGED <<log, open, reported, done, err>>
      BY <2>0, <2>5 DEF WaitReturns, SealInv
    <3>2. err \in {OK, ErrRPC, ErrDeadline} /\ err \notin {"idle", "blocked", "pending"}
      BY <2>0 DEF TypeOK, OK, ErrRPC, ErrDeadline
    <3>3. Told(w) = "pending" /\ Told(w)' = err /\ \A v \in Waiters \ {w} : Told(v)' = Told(v)
      BY <2>0, <3>1, <3>2 DEF Told, TypeOK
    <3>4. Sent' = Sent /\ Handed' = Handed
      BY <3>1 DEF Sent, Handed
    <3> QED BY <3>1, <3>2, <3>3, <3>4 DEF Contract!Tell, Contract!Pending, Handed
  <2>6. ASSUME NEW w \in Waiters, Wait(w) PROVE Contract!Rest("watch")
    <3>1. \A v \in Waiters : Told(v)' = Told(v)
      BY <2>0, <2>6 DEF Wait, Told, TypeOK
    <3> QED BY <2>6, <3>1 DEF Wait, Contract!Rest, Sent
  <2>7. CASE Seal
    <3>1. ~done
      BY <2>0, <2>7 DEF Seal, SealInv
    <3> QED BY <2>7, <3>1 DEF Seal, Contract!Rest, Sent, Told
  <2>8. CASE Opened \/ OpenFails \/ Stop \/ ParentDone \/ Receive \/ StreamCancelled \/ StreamEnds
    BY <2>8, Invisible 
    DEF Opened, OpenFails, Stop, ParentDone, Receive, StreamCancelled, StreamEnds, EndLoop
  <2>9. CASE UNCHANGED vars
    BY <2>9, Invisible DEF vars
  <2> QED
    BY <1>2, <2>1, <2>2, <2>3, <2>4, <2>5, <2>6, <2>7, <2>8, <2>9 DEF Next, Consume, Terminated
<1>3. IInv /\ IInv' /\ [Next]_vars => [Contract!Next]_Contract!vars
  BY <1>2 DEF Contract!Next
<1> QED BY <1>1, <1>3, Invariance, PTL DEF Spec, ImplementsContract, Contract!Spec
=============================================================================
