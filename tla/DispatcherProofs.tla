-------------------------- MODULE DispatcherProofs --------------------------
(* Safety of the dispatcher for any number of callers and tasks.           *)
EXTENDS Dispatcher, SequenceTheorems, TLAPS

(* The list is numbered increasingly from head to tail, except for the     *)
(* tasks pushed in front, which all have number 0; no number exceeds the   *)
(* last one given out.                                                     *)
TicketsInOrder ==
  /\ \A t \in Tasks : ticket[t] <= lastTicket
  /\ \A t \in Tasks : status[t] = "new" => ticket[t] = 0
  /\ \A i, j \in DOMAIN taskList :
       i < j => \/ ticket[taskList[i]] = 0
                \/ ticket[taskList[i]] < ticket[taskList[j]]

IInv ==
  TypeOK /\ NoLostWakeup /\ OnePlace /\ TicketsInOrder /\ FirstComeFirstServed

(* What push_front makes of a list.                                        *)
LEMMA PushFront ==
  ASSUME NEW S, NEW q \in Seq(S), NEW e \in S
  PROVE  /\ <<e>> \o q \in Seq(S)
         /\ <<e>> \o q # << >>
         /\ DOMAIN (<<e>> \o q) = 1 .. Len(q) + 1
         /\ (<<e>> \o q)[1] = e
         /\ \A i \in 2 .. Len(q) + 1 : (<<e>> \o q)[i] = q[i - 1]
<1>1. <<e>> \in Seq(S) /\ Len(<<e>>) = 1 /\ <<e>>[1] = e
  OBVIOUS
<1>2. Len(q) \in Nat
  BY LenProperties
<1>3. /\ <<e>> \o q \in Seq(S)
      /\ Len(<<e>> \o q) = 1 + Len(q)
      /\ \A i \in 1 .. 1 + Len(q) :
           (<<e>> \o q)[i] = IF i <= 1 THEN <<e>>[i] ELSE q[i - 1]
  BY <1>1, ConcatProperties
<1>4. DOMAIN (<<e>> \o q) = 1 .. Len(q) + 1
  BY <1>3, <1>2, LenProperties
<1>5. <<e>> \o q # << >>
  BY <1>3, <1>2, EmptySeq
<1> QED
  BY <1>1, <1>2, <1>3, <1>4, <1>5

(***************************************************************************)
(* The inductive step, one lemma per kind of action.                       *)
(***************************************************************************)
LEMMA InitIInv == Init => IInv
BY DispatcherAssumption DEF Init, IInv, TypeOK, NoLostWakeup, OnePlace,
   TicketsInOrder, FirstComeFirstServed, Overtaken, Listed, Threads,
   ThreadStates, WorkerPlaces, Fates

(* A push at the back.                                                     *)
LEMMA NumberedPush ==
  ASSUME IInv, NEW t \in Tasks, status[t] = "new",
         taskList' = Append(taskList, t), Number(t, FALSE), UNCHANGED task
  PROVE  /\ taskList' \in Seq(Tasks) /\ taskList' # << >>
         /\ status' \in [Tasks -> Fates] /\ ticket' \in [Tasks -> Nat]
         /\ lastTicket' \in Nat
         /\ OnePlace' /\ TicketsInOrder' /\ FirstComeFirstServed'
<1>1. TypeOK /\ OnePlace /\ TicketsInOrder /\ FirstComeFirstServed
  BY DEF IInv
<1>2. /\ taskList \in Seq(Tasks) /\ Len(taskList) \in Nat
      /\ DOMAIN taskList = 1 .. Len(taskList)
  BY <1>1, LenProperties DEF TypeOK
<1>3. /\ taskList' \in Seq(Tasks) /\ taskList' # << >>
      /\ DOMAIN taskList' = 1 .. Len(taskList) + 1
      /\ \A i \in 1 .. Len(taskList) : taskList'[i] = taskList[i]
      /\ taskList'[Len(taskList) + 1] = t
  BY <1>2, AppendProperties, LenProperties
<1>4. /\ status' = [status EXCEPT ![t] = "queued"]
      /\ ticket' = [ticket EXCEPT ![t] = lastTicket + 1]
      /\ lastTicket' = lastTicket + 1
  BY DEF Number
<1>5. /\ status' \in [Tasks -> Fates] /\ ticket' \in [Tasks -> Nat]
      /\ lastTicket' \in Nat
  BY <1>1, <1>4 DEF TypeOK, Fates
<1>6. \A i \in DOMAIN taskList : taskList[i] \in Tasks /\ taskList[i] # t
  BY <1>1, <1>2 DEF OnePlace, Listed
<1>7. OnePlace'
  <2>1. \A i, j \in DOMAIN taskList' : taskList'[i] = taskList'[j] => i = j
    BY <1>1, <1>2, <1>3, <1>6 DEF OnePlace
  <2>2. Listed' = Listed \union {t}
    BY <1>2, <1>3 DEF Listed
  <2> QED
    BY <1>1, <1>4, <2>1, <2>2 DEF OnePlace, TypeOK
<1>8. TicketsInOrder'
  <2>1. \A s \in Tasks : ticket'[s] <= lastTicket'
    BY <1>1, <1>4 DEF TicketsInOrder, TypeOK
  <2>2. \A s \in Tasks : status'[s] = "new" => ticket'[s] = 0
    BY <1>1, <1>4 DEF TicketsInOrder, TypeOK
  <2>3. ASSUME NEW i \in DOMAIN taskList', NEW j \in DOMAIN taskList', i < j
        PROVE  \/ ticket'[taskList'[i]] = 0
               \/ ticket'[taskList'[i]] < ticket'[taskList'[j]]
    <3>1. i \in DOMAIN taskList /\ taskList'[i] = taskList[i]
          /\ ticket'[taskList'[i]] = ticket[taskList[i]]
      BY <1>1, <1>2, <1>3, <1>4, <1>6, <2>3 DEF TypeOK
    <3>2. CASE j \in DOMAIN taskList
      <4>1. ticket'[taskList'[j]] = ticket[taskList[j]]
        BY <1>1, <1>2, <1>3, <1>4, <1>6, <3>2 DEF TypeOK
      <4> QED
        BY <1>1, <2>3, <3>1, <3>2, <4>1 DEF TicketsInOrder
    <3>3. CASE j \notin DOMAIN taskList
      <4>1. ticket'[taskList'[j]] = lastTicket + 1
        BY <1>1, <1>2, <1>3, <1>4, <3>3 DEF TypeOK
      <4>2. ticket[taskList[i]] <= lastTicket /\ ticket[taskList[i]] \in Nat
        BY <1>1, <1>6, <3>1 DEF TicketsInOrder, TypeOK
      <4> QED
        BY <1>1, <3>1, <4>1, <4>2 DEF TypeOK
    <3> QED
      BY <3>2, <3>3
  <2> QED
    BY <2>1, <2>2, <2>3 DEF TicketsInOrder
<1>9. FirstComeFirstServed'
  <2> SUFFICES ASSUME NEW s \in Tasks, NEW u \in Tasks, Overtaken(s, u)'
               PROVE  FALSE
    BY DEF FirstComeFirstServed
  <2>1. u # t /\ status[u] = status'[u] /\ ticket[u] = ticket'[u]
    BY <1>1, <1>4 DEF Overtaken, TypeOK
  <2>2. CASE s = t
    BY <1>1, <1>4, <2>1, <2>2 DEF Overtaken, TicketsInOrder, TypeOK
  <2>3. CASE s # t
    BY <1>1, <1>4, <2>1, <2>3 DEF Overtaken, FirstComeFirstServed, TypeOK
  <2> QED
    BY <2>2, <2>3
<1> QED
  BY <1>3, <1>5, <1>7, <1>8, <1>9

(* A push in front: the others move down by one.                           *)
LEMMA UrgentPush ==
  ASSUME IInv, NEW t \in Tasks, status[t] = "new",
         taskList' = <<t>> \o taskList, Number(t, TRUE), UNCHANGED task
  PROVE  /\ taskList' \in Seq(Tasks) /\ taskList' # << >>
         /\ status' \in [Tasks -> Fates] /\ ticket' \in [Tasks -> Nat]
         /\ lastTicket' \in Nat
         /\ OnePlace' /\ TicketsInOrder' /\ FirstComeFirstServed'
<1>1. TypeOK /\ OnePlace /\ TicketsInOrder /\ FirstComeFirstServed
  BY DEF IInv
<1>2. /\ taskList \in Seq(Tasks) /\ Len(taskList) \in Nat
      /\ DOMAIN taskList = 1 .. Len(taskList)
  BY <1>1, LenProperties DEF TypeOK
<1>3. /\ taskList' \in Seq(Tasks) /\ taskList' # << >>
      /\ DOMAIN taskList' = 1 .. Len(taskList) + 1
      /\ taskList'[1] = t
      /\ \A i \in 2 .. Len(taskList) + 1 : taskList'[i] = taskList[i - 1]
  BY <1>2, PushFront
<1>4. /\ status' = [status EXCEPT ![t] = "queued"]
      /\ ticket' = ticket /\ ticket[t] = 0
      /\ lastTicket' = lastTicket
  BY <1>1 DEF Number, TicketsInOrder, TypeOK
<1>5. /\ status' \in [Tasks -> Fates] /\ ticket' \in [Tasks -> Nat]
      /\ lastTicket' \in Nat
  BY <1>1, <1>4 DEF TypeOK, Fates
<1>6. \A i \in DOMAIN taskList : taskList[i] \in Tasks /\ taskList[i] # t
  BY <1>1, <1>2 DEF OnePlace, Listed
<1>7. OnePlace'
  <2>1. \A i, j \in DOMAIN taskList' : taskList'[i] = taskList'[j] => i = j
    BY <1>1, <1>2, <1>3, <1>6 DEF OnePlace
  <2>2. Listed' = Listed \union {t}
    <3>1. \A i \in DOMAIN taskList : i + 1 \in 2 .. Len(taskList) + 1
                                    /\ taskList'[i + 1] = taskList[i]
      BY <1>2, <1>3
    <3>2. ASSUME NEW i \in DOMAIN taskList
          PROVE  taskList[i] \in Listed'
      <4>1. i + 1 \in DOMAIN taskList' /\ taskList'[i + 1] = taskList[i]
        BY <1>2, <1>3, <3>1
      <4> QED
        BY <4>1 DEF Listed
    <3>3. Listed' \subseteq Listed \union {t}
      <4> SUFFICES ASSUME NEW i \in DOMAIN taskList'
                   PROVE  taskList'[i] \in Listed \union {t}
        BY DEF Listed
      <4>1. CASE i = 1
        BY <1>3, <4>1
      <4>2. CASE i # 1
        <5>1. i \in 2 .. Len(taskList) + 1 /\ i - 1 \in DOMAIN taskList
          BY <1>2, <1>3, <4>2
        <5> QED
          BY <1>3, <5>1 DEF Listed
      <4> QED
        BY <4>1, <4>2
    <3>4. t \in Listed'
      BY <1>2, <1>3 DEF Listed
    <3> QED
      BY <3>2, <3>3, <3>4 DEF Listed
  <2> QED
    BY <1>1, <1>4, <2>1, <2>2 DEF OnePlace, TypeOK
<1>8. TicketsInOrder'
  <2>1. ASSUME NEW i \in DOMAIN taskList', NEW j \in DOMAIN taskList', i < j
        PROVE  \/ ticket[taskList'[i]] = 0
               \/ ticket[taskList'[i]] < ticket[taskList'[j]]
    <3>1. j - 1 \in DOMAIN taskList /\ taskList'[j] = taskList[j - 1]
      BY <1>2, <1>3, <2>1
    <3>2. CASE i = 1
      BY <1>3, <1>4, <3>2
    <3>3. CASE i # 1
      <4>1. i - 1 \in DOMAIN taskList /\ taskList'[i] = taskList[i - 1]
            /\ i - 1 < j - 1
        BY <1>2, <1>3, <2>1, <3>3
      <4> QED
        BY <1>1, <3>1, <4>1 DEF TicketsInOrder
    <3> QED
      BY <3>2, <3>3
  <2> QED
    BY <1>1, <1>4, <2>1 DEF TicketsInOrder, TypeOK
<1>9. FirstComeFirstServed'
  BY <1>1, <1>4 DEF FirstComeFirstServed, Overtaken, TypeOK
<1> QED
  BY <1>3, <1>5, <1>7, <1>8, <1>9

(* Taking the first task.                                                  *)
LEMMA Pop ==
  ASSUME IInv, taskList # << >>, task = NoTask, PopFirst,
         UNCHANGED <<dState, signalling, ticket, lastTicket>>
  PROVE  IInv'
<1>1. TypeOK /\ OnePlace /\ TicketsInOrder /\ FirstComeFirstServed
  BY DEF IInv
<1>2. /\ Len(taskList) \in Nat \ {0}
      /\ DOMAIN taskList = 1 .. Len(taskList)
      /\ \A i \in DOMAIN taskList : taskList[i] \in Tasks
  BY <1>1, LenProperties, EmptySeq DEF TypeOK
<1> DEFINE h == taskList[1]
<1>3. /\ task' = h /\ h \in Tasks /\ h \in Listed
      /\ taskList' \in Seq(Tasks)
      /\ DOMAIN taskList' = 1 .. Len(taskList) - 1
      /\ \A i \in DOMAIN taskList' :
           taskList'[i] = taskList[i + 1] /\ i + 1 \in DOMAIN taskList
      /\ status' = [status EXCEPT ![h] = "held"]
      /\ dpc' = "popped"
  <2>1. taskList \in Seq(Tasks) /\ 1 \in DOMAIN taskList
    BY <1>1, <1>2 DEF TypeOK
  <2>2. /\ Tail(taskList) \in Seq(Tasks)
        /\ DOMAIN Tail(taskList) = 1 .. Len(taskList) - 1
        /\ \A i \in 1 .. Len(taskList) - 1 : Tail(taskList)[i] = taskList[i + 1]
    BY <2>1, HeadTailProperties, LenProperties DEF PopFirst
  <2>3. Head(taskList) = h
    BY <2>1
  <2> QED
    BY <1>2, <2>1, <2>2, <2>3 DEF PopFirst, Rest, Listed
<1>4. TypeOK'
  BY <1>1, <1>3, DispatcherAssumption DEF TypeOK, Fates, WorkerPlaces
<1>5. NoLostWakeup'
  BY <1>3 DEF NoLostWakeup
<1>6. Listed' = Listed \ {h}
  <2>1. \A i \in DOMAIN taskList' : taskList'[i] \in Listed \ {h}
    BY <1>1, <1>2, <1>3 DEF OnePlace, Listed
  <2>2. ASSUME NEW i \in DOMAIN taskList, taskList[i] # h
        PROVE  taskList[i] \in Listed'
    <3>1. i - 1 \in DOMAIN taskList' /\ taskList'[i - 1] = taskList[i]
      BY <1>2, <1>3, <2>2
    <3> QED
      BY <3>1 DEF Listed
  <2> QED
    BY <2>1, <2>2 DEF Listed
<1>7. OnePlace'
  <2>1. \A i, j \in DOMAIN taskList' : taskList'[i] = taskList'[j] => i = j
    BY <1>1, <1>2, <1>3 DEF OnePlace
  <2>2. \A t \in Tasks : status'[t] = "queued" <=> t \in Listed'
    BY <1>1, <1>3, <1>6 DEF OnePlace, TypeOK
  <2>3. \A t \in Tasks : status'[t] \in {"held", "running"} <=> t = task'
    BY <1>1, <1>3, DispatcherAssumption DEF OnePlace, TypeOK
  <2> QED
    BY <2>1, <2>2, <2>3 DEF OnePlace
<1>8. TicketsInOrder'
  <2>1. \A i, j \in DOMAIN taskList' :
          i < j => \/ ticket[taskList'[i]] = 0
                   \/ ticket[taskList'[i]] < ticket[taskList'[j]]
    BY <1>1, <1>2, <1>3, SMTT(60) DEF TicketsInOrder
  <2> QED
    BY <1>1, <1>3, <2>1 DEF TicketsInOrder, TypeOK
<1>9. FirstComeFirstServed'
  <2> SUFFICES ASSUME NEW s \in Tasks, NEW t \in Tasks, Overtaken(s, t)'
               PROVE  FALSE
    BY DEF FirstComeFirstServed
  <2>1. s # h /\ status[s] = "queued"
    BY <1>1, <1>3 DEF Overtaken, TypeOK
  <2>2. CASE t # h
    BY <1>1, <1>3, <2>1, <2>2 DEF Overtaken, FirstComeFirstServed, TypeOK
  <2>3. CASE t = h
    <3>1. PICK i \in DOMAIN taskList : taskList[i] = s /\ 1 < i
      BY <1>1, <1>2, <2>1 DEF OnePlace, Listed
    <3>2. ticket[h] = 0 \/ ticket[h] < ticket[s]
      BY <1>1, <1>2, <3>1 DEF TicketsInOrder
    <3> QED
      BY <1>1, <1>3, <2>3, <3>2 DEF Overtaken, TypeOK
  <2> QED
    BY <2>2, <2>3
<1> QED
  BY <1>4, <1>5, <1>7, <1>8, <1>9 DEF IInv

(* addTask and Dispatcher::shutdown.                                       *)
LEMMA CallInv ==
  ASSUME IInv, NEW c \in Threads, NEW t \in Tasks
  PROVE  /\ \A push_front \in BOOLEAN : AddTask(c, t, push_front) => IInv'
         /\ Shutdown(c, t) => IInv'
<1>1. ASSUME NEW push_front \in BOOLEAN, AddTask(c, t, push_front),
             dState = "RUNNING"
      PROVE  IInv'
  <2>1. /\ taskList' \in Seq(Tasks) /\ taskList' # << >>
        /\ status' \in [Tasks -> Fates] /\ ticket' \in [Tasks -> Nat]
        /\ lastTicket' \in Nat
        /\ OnePlace' /\ TicketsInOrder' /\ FirstComeFirstServed'
    <3>1. CASE push_front
      BY <1>1, <3>1, UrgentPush DEF AddTask, Placed
    <3>2. CASE ~push_front
      BY <1>1, <3>2, NumberedPush DEF AddTask, Placed
    <3> QED
      BY <3>1, <3>2
  <2>2. /\ UNCHANGED <<dState, dpc, task>>
        /\ signalling' = IF taskList = << >> THEN signalling \union {c}
                                             ELSE signalling
    BY <1>1 DEF AddTask, DoSignal
  <2>3. TypeOK'
    BY <2>1, <2>2 DEF IInv, TypeOK
  <2>4. NoLostWakeup'
    BY <2>2 DEF IInv, NoLostWakeup, TypeOK
  <2> QED
    BY <2>1, <2>3, <2>4 DEF IInv
<1>2. ASSUME NEW push_front \in BOOLEAN, AddTask(c, t, push_front),
             dState # "RUNNING"
      PROVE  IInv'
  <2>1. /\ status[t] = "new"
        /\ status' = [status EXCEPT ![t] = "refused"]
        /\ UNCHANGED <<dState, dpc, task, taskList, ticket, lastTicket, signalling>>
    BY <1>2 DEF AddTask
  <2>2. TypeOK' /\ NoLostWakeup' /\ TicketsInOrder'
    BY <2>1 DEF IInv, TypeOK, NoLostWakeup, TicketsInOrder, Fates
  <2>3. OnePlace'
    BY <2>1 DEF IInv, OnePlace, Listed, TypeOK
  <2>4. FirstComeFirstServed'
    BY <2>1 DEF IInv, FirstComeFirstServed, Overtaken, TicketsInOrder, TypeOK
  <2> QED
    BY <2>2, <2>3, <2>4 DEF IInv
<1>3. ASSUME Shutdown(c, t)
      PROVE  IInv'
  <2>1. /\ taskList' \in Seq(Tasks) /\ taskList' # << >>
        /\ status' \in [Tasks -> Fates] /\ ticket' \in [Tasks -> Nat]
        /\ lastTicket' \in Nat
        /\ OnePlace' /\ TicketsInOrder' /\ FirstComeFirstServed'
    BY <1>3, NumberedPush DEF Shutdown
  <2>2. /\ UNCHANGED <<dState, task, signalling>>
        /\ dpc' = IF dpc = "wait" THEN "woken" ELSE dpc
    BY <1>3 DEF Shutdown, Notify
  <2>3. TypeOK' /\ NoLostWakeup'
    BY <2>1, <2>2 DEF IInv, TypeOK, NoLostWakeup, WorkerPlaces
  <2> QED
    BY <2>1, <2>3 DEF IInv
<1> QED
  BY <1>1, <1>2, <1>3

(* The steps that leave the list and the numbers alone, and change at most *)
(* the fate of the task in hand.                                           *)
LEMMA QuietInv ==
  ASSUME IInv, TypeOK', NoLostWakeup',
         UNCHANGED <<taskList, ticket, lastTicket>>,
         \/ UNCHANGED <<task, status>>
         \/ /\ task # NoTask /\ task' \in {task, NoTask}
            /\ \E fate \in Fates \ {"new", "queued"} :
                 /\ status' = [status EXCEPT ![task] = fate]
                 /\ fate \in {"held", "running"} <=> task' = task
  PROVE  IInv'
<1>1. CASE UNCHANGED <<task, status>>
  BY <1>1 DEF IInv, OnePlace, Listed, TicketsInOrder, FirstComeFirstServed,
     Overtaken
<1>2. CASE ~UNCHANGED <<task, status>>
  <2>1. PICK fate \in Fates \ {"new", "queued"} :
          /\ status' = [status EXCEPT ![task] = fate]
          /\ fate \in {"held", "running"} <=> task' = task
    BY <1>2
  <2>2. task \in Tasks /\ status[task] \in {"held", "running"}
    BY <1>2 DEF IInv, TypeOK, OnePlace
  <2>3. OnePlace'
    BY <1>2, <2>1, <2>2, DispatcherAssumption DEF IInv, OnePlace, Listed, TypeOK
  <2>4. TicketsInOrder' /\ FirstComeFirstServed'
    BY <2>1, <2>2 DEF IInv, TicketsInOrder, FirstComeFirstServed, Overtaken, TypeOK
  <2> QED
    BY <2>3, <2>4 DEF IInv
<1> QED
  BY <1>1, <1>2

(* Every step of a caller or of the worker keeps the invariant.            *)
LEMMA NextIInv == IInv /\ [Next]_vars => IInv'
<1> SUFFICES ASSUME IInv, [Next]_vars
             PROVE  IInv'
  OBVIOUS
<1> USE DEF IInv
<1>1. CASE Check
  <2>1. TypeOK' /\ NoLostWakeup'
    BY <1>1 DEF Check, TypeOK, NoLostWakeup, WorkerPlaces
  <2> QED
    BY <1>1, <2>1, QuietInv DEF Check
<1>2. CASE LockAndTake
  <2>1. CASE taskList # << >>
    BY <1>2, <2>1, Pop DEF LockAndTake, TypeOK
  <2>2. CASE taskList = << >>
    <3>1. TypeOK' /\ NoLostWakeup'
      BY <1>2, <2>2 DEF LockAndTake, TypeOK, NoLostWakeup, WorkerPlaces
    <3> QED
      BY <1>2, <2>2, <3>1, QuietInv DEF LockAndTake
  <2> QED
    BY <2>1, <2>2
<1>3. CASE Wakened
  <2>1. CASE taskList # << >>
    BY <1>3, <2>1, Pop DEF Wakened, TypeOK
  <2>2. CASE taskList = << >>
    <3>1. TypeOK' /\ NoLostWakeup'
      BY <1>3, <2>2 DEF Wakened, TypeOK, NoLostWakeup, WorkerPlaces
    <3> QED
      BY <1>3, <2>2, <3>1, QuietInv DEF Wakened
  <2> QED
    BY <2>1, <2>2
<1>4. CASE StartTask
  <2>1. TypeOK' /\ NoLostWakeup' /\ task # NoTask
    BY <1>4 DEF StartTask, TypeOK, NoLostWakeup, WorkerPlaces, Fates
  <2>2. "running" \in Fates \ {"new", "queued"}
    BY DEF Fates
  <2> QED
    BY <1>4, <2>1, <2>2, QuietInv DEF StartTask
<1>5. CASE DropExpired
  <2>1. TypeOK' /\ NoLostWakeup' /\ task # NoTask
    BY <1>5 DEF DropExpired, TypeOK, NoLostWakeup, WorkerPlaces, Fates
  <2>2. "expired" \in Fates \ {"new", "queued"}
    BY DEF Fates
  <2> QED
    BY <1>5, <2>1, <2>2, QuietInv DEF DropExpired
<1>6. CASE FinishTask
  <2>1. TypeOK' /\ NoLostWakeup' /\ task # NoTask
    BY <1>6 DEF FinishTask, StateAfterBody, TypeOK, NoLostWakeup, WorkerPlaces,
       Fates, ThreadStates
  <2>2. "done" \in Fates \ {"new", "queued"}
    BY DEF Fates
  <2> QED
    BY <1>6, <2>1, <2>2, QuietInv DEF FinishTask
<1>7. CASE SpuriousWakeup
  <2>1. TypeOK' /\ NoLostWakeup'
    BY <1>7 DEF SpuriousWakeup, TypeOK, NoLostWakeup, WorkerPlaces
  <2> QED
    BY <1>7, <2>1, QuietInv DEF SpuriousWakeup
<1>8. CASE Stop
  <2>1. TypeOK' /\ NoLostWakeup'
    BY <1>8 DEF Stop, TypeOK, NoLostWakeup, ThreadStates
  <2> QED
    BY <1>8, <2>1, QuietInv DEF Stop
<1>9. ASSUME NEW c \in Threads, CallerStep(c)
      PROVE  IInv'
  <2>1. CASE Signal(c)
    <3>1. TypeOK' /\ NoLostWakeup'
      BY <2>1 DEF Signal, Notify, TypeOK, NoLostWakeup, WorkerPlaces
    <3> QED
      BY <2>1, <3>1, QuietInv DEF Signal
  <2> QED
    BY <1>9, <2>1, CallInv DEF CallerStep
<1>10. CASE UNCHANGED vars
  BY <1>10, QuietInv DEF vars, TypeOK, NoLostWakeup
<1> QED
  BY <1>1, <1>2, <1>3, <1>4, <1>5, <1>6, <1>7, <1>8, <1>9, <1>10
     DEF Next, WorkerStep

(***************************************************************************)
(* The theorems.                                                           *)
(***************************************************************************)
(* The inductive invariant holds in every reachable state of tasks.cpp's   *)
(* dispatcher, whatever the callers do.                                    *)
THEOREM Invariance == Spec => []IInv
BY InitIInv, NextIInv, PTL DEF Spec

(* The variables keep their types, and the worker holds a task exactly     *)
(* between taking it from the list and deleting it.                        *)
THEOREM TypeCorrect == Spec => []TypeOK
<1>1. IInv => TypeOK
  BY DEF IInv
<1> QED
  BY <1>1, Invariance, PTL

(* The worker never sleeps on a non-empty list without a notification on   *)
(* its way, although addTask notifies after having released taskLock.      *)
THEOREM NeverLostWakeup == Spec => []NoLostWakeup
<1>1. IInv => NoLostWakeup
  BY DEF IInv
<1> QED
  BY <1>1, Invariance, PTL

(* A task is in one place at a time, so it is run and deleted at most once.*)
THEOREM AtMostOnce == Spec => []OnePlace
<1>1. IInv => OnePlace
  BY DEF IInv
<1> QED
  BY <1>1, Invariance, PTL

(* Tasks appended at the back are served in order of arrival, however many *)
(* the scheduler pushes in front.                                          *)
THEOREM ServedInOrder == Spec => []FirstComeFirstServed
<1>1. IInv => FirstComeFirstServed
  BY DEF IInv
<1> QED
  BY <1>1, Invariance, PTL
=============================================================================
