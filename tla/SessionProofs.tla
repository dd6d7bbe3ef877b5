---------------------------- MODULE SessionProofs ----------------------------
(***************************************************************************)
(* Safety of Session, for any number of connections and of player objects. *)
(*                                                                         *)
(* The argument goes by the life of a connection.  It logs in once, with   *)
(* its first packet; whatever the dispatcher does for it happens after     *)
(* that task has been taken (LoggedInOnce).  It is released exactly once,  *)
(* after it was closed, and its login is in front of its release in the    *)
(* dispatcher's list (ReleasedOnce).  So a connection that is given a      *)
(* player has none, and the counts of BodiesHeld come out even.            *)
(***************************************************************************)
EXTENDS Session, FiniteSetTheorems, SequenceTheorems, TLAPS

Jobs == [op : Ops, conn : Connections]

In(t, q) == \E i \in DOMAIN q : q[i] = t

OneWrite(l) == l.writes = IF l.queue > 0 THEN 1 ELSE 0

(* The login of a connection comes once, and in front of its release.      *)
LoginFirst(q, c) ==
  \A i, j \in DOMAIN q :
    q[i] = Task("login", c) =>
      /\ q[j] = Task("login", c) => j = i
      /\ q[j] = Task("release", c) => i < j

ReleasedOnce ==
  \A c \in Connections :
    /\ link[c].state = "new" => ~link[c].receivedFirst
    /\ In(Task("login", c), tasks) => link[c].receivedFirst /\ ~protocol[c].released
    /\ link[c].state = "closed" <=> protocol[c].released \/ In(Task("release", c), tasks)
    /\ LoginFirst(tasks, c)

LoggedInOnce ==
  \A c \in Connections :
    /\ protocol[c].player # NoBody \/ protocol[c].waits \/ c \in autosend =>
         link[c].receivedFirst /\ ~In(Task("login", c), tasks)
    /\ protocol[c].waits => protocol[c].player = NoBody
    /\ c \in autosend => ~protocol[c].released

BodiesHeld ==
  /\ \A c \in Connections, b \in Bodies : body[b].client = c <=> protocol[c].player = b
  /\ \A b \in Bodies :
       /\ body[b].refs = (IF body[b].client = NoConnection THEN 0 ELSE 1)
                         + (IF body[b].placed \/ b \in leaving THEN 1 ELSE 0)
       /\ ~(body[b].placed /\ b \in leaving)
  /\ \A a, b \in Bodies : body[a].placed /\ body[b].placed => a = b

IInv == TypeOK /\ ReleasedOnce /\ LoggedInOnce /\ BodiesHeld

(* Nobody has connected, and no player object exists.                      *)
LEMMA InitIInv == Init => IInv
  BY SessionAssumption
  DEF Init, IInv, TypeOK, ReleasedOnce, LoggedInOnce, BodiesHeld, LoginFirst, In, Links,
      Protocols, PlayerObjects, Unused, Ops

-----------------------------------------------------------------------------
(* The dispatcher's list.                                                  *)

(* A task is pushed at the back.                                           *)
LEMMA Grown ==
  ASSUME NEW q \in Seq(Jobs), NEW x \in Jobs
  PROVE  /\ Append(q, x) \in Seq(Jobs)
         /\ \A t : In(t, Append(q, x)) <=> In(t, q) \/ t = x
         /\ \A c : /\ LoginFirst(q, c)
                   /\ x = Task("login", c) =>
                        ~In(Task("login", c), q) /\ ~In(Task("release", c), q)
                   => LoginFirst(Append(q, x), c)
<1>1. /\ Append(q, x) \in Seq(Jobs)
      /\ DOMAIN Append(q, x) = 1 .. Len(q) + 1
      /\ \A i \in 1 .. Len(q) : Append(q, x)[i] = q[i]
      /\ Append(q, x)[Len(q) + 1] = x
  BY AppendProperties, LenProperties
<1>2. Len(q) \in Nat /\ DOMAIN q = 1 .. Len(q)
  BY LenProperties
<1>3. ASSUME NEW t
      PROVE  In(t, Append(q, x)) <=> In(t, q) \/ t = x
  BY <1>1, <1>2 DEF In
<1>4. ASSUME NEW c, LoginFirst(q, c),
             x = Task("login", c) =>
               ~In(Task("login", c), q) /\ ~In(Task("release", c), q)
      PROVE  LoginFirst(Append(q, x), c)
  <2> SUFFICES ASSUME NEW i \in 1 .. Len(q) + 1, NEW j \in 1 .. Len(q) + 1,
                      Append(q, x)[i] = Task("login", c)
               PROVE  /\ Append(q, x)[j] = Task("login", c) => j = i
                      /\ Append(q, x)[j] = Task("release", c) => i < j
    BY <1>1 DEF LoginFirst
  <2>1. CASE i \in DOMAIN q /\ j \in DOMAIN q
    BY <1>1, <1>2, <1>4, <2>1 DEF LoginFirst
  <2>2. CASE i = Len(q) + 1 /\ j \in DOMAIN q
    BY <1>1, <1>2, <1>4, <2>2 DEF In
  <2>3. CASE i \in DOMAIN q /\ j = Len(q) + 1
    <3>1. q[i] = Task("login", c)
      BY <1>1, <1>2, <2>3
    <3>2. In(Task("login", c), q) /\ x # Task("login", c)
      BY <1>4, <2>3, <3>1 DEF In
    <3> QED
      BY <1>1, <1>2, <2>3, <3>2
  <2>4. CASE i = Len(q) + 1 /\ j = Len(q) + 1
    BY <1>1, <2>4 DEF Task
  <2> QED
    BY <1>2, <2>1, <2>2, <2>3, <2>4
<1> QED
  BY <1>1, <1>3, <1>4

(* The first task is taken.                                                *)
LEMMA Shrunk ==
  ASSUME NEW q \in Seq(Jobs), q # << >>
  PROVE  /\ Head(q) \in Jobs /\ Tail(q) \in Seq(Jobs)
         /\ Head(q) = Task(Head(q).op, Head(q).conn)
         /\ In(Head(q), q)
         /\ \A t : In(t, Tail(q)) => In(t, q)
         /\ \A t : In(t, q) => In(t, Tail(q)) \/ t = Head(q)
         /\ \A c : LoginFirst(q, c) =>
              /\ LoginFirst(Tail(q), c)
              /\ Head(q) = Task("login", c) => ~In(Task("login", c), Tail(q))
              /\ Head(q) = Task("release", c) => ~In(Task("login", c), Tail(q))
<1>1. /\ Head(q) \in Jobs /\ Head(q) = q[1]
      /\ Tail(q) \in Seq(Jobs)
      /\ 1 \in DOMAIN q
      /\ Len(q) \in Nat \ {0}
      /\ DOMAIN Tail(q) = 1 .. Len(q) - 1
      /\ \A i \in DOMAIN Tail(q) : Tail(q)[i] = q[i + 1] /\ i + 1 \in DOMAIN q
  BY EmptySeq, HeadTailProperties, LenProperties
<1>2. DOMAIN q = 1 .. Len(q)
  BY LenProperties
<1>3. Head(q) = Task(Head(q).op, Head(q).conn)
  BY <1>1 DEF Jobs, Task
<1>4. In(Head(q), q)
  BY <1>1 DEF In
<1>5. ASSUME NEW t, In(t, Tail(q))
      PROVE  In(t, q)
  BY <1>1, <1>5 DEF In
<1>6. ASSUME NEW t, In(t, q)
      PROVE  In(t, Tail(q)) \/ t = Head(q)
  <2>1. PICK i \in 1 .. Len(q) : q[i] = t
    BY <1>2, <1>6 DEF In
  <2>2. CASE i = 1
    BY <1>1, <2>1, <2>2
  <2>3. CASE i # 1
    <3>1. i - 1 \in DOMAIN Tail(q) /\ (i - 1) + 1 = i
      BY <1>1, <2>1, <2>3
    <3>2. Tail(q)[i - 1] = t
      BY <1>1, <2>1, <3>1
    <3> QED
      BY <3>1, <3>2 DEF In
  <2> QED
    BY <2>2, <2>3
<1>7. ASSUME NEW c, LoginFirst(q, c)
      PROVE  /\ LoginFirst(Tail(q), c)
             /\ Head(q) = Task("login", c) => ~In(Task("login", c), Tail(q))
             /\ Head(q) = Task("release", c) => ~In(Task("login", c), Tail(q))
  <2>1. LoginFirst(Tail(q), c)
    <3> SUFFICES ASSUME NEW i \in DOMAIN Tail(q), NEW j \in DOMAIN Tail(q),
                        Tail(q)[i] = Task("login", c)
                 PROVE  /\ Tail(q)[j] = Task("login", c) => j = i
                        /\ Tail(q)[j] = Task("release", c) => i < j
      BY DEF LoginFirst
    <3>1. /\ q[i + 1] = Tail(q)[i] /\ i + 1 \in DOMAIN q
          /\ q[j + 1] = Tail(q)[j] /\ j + 1 \in DOMAIN q
          /\ i \in Nat /\ j \in Nat
      BY <1>1
    <3>2. /\ Tail(q)[j] = Task("login", c) => j + 1 = i + 1
          /\ Tail(q)[j] = Task("release", c) => i + 1 < j + 1
      BY <1>7, <3>1 DEF LoginFirst
    <3> QED
      BY <3>1, <3>2
  <2>2. ASSUME NEW i \in DOMAIN Tail(q), Tail(q)[i] = Task("login", c)
        PROVE  Head(q) # Task("login", c) /\ Head(q) # Task("release", c)
    <3>1. i + 1 \in DOMAIN q /\ q[i + 1] = Task("login", c) /\ i + 1 > 1
      BY <1>1, <2>2
    <3> QED
      BY <1>1, <1>7, <3>1 DEF LoginFirst
  <2> QED
    BY <2>1, <2>2 DEF In
<1> QED
  BY <1>1, <1>3, <1>4, <1>5, <1>6, <1>7

-----------------------------------------------------------------------------
(* A step of anybody but accept, a login packet and release: it may take a *)
(* task, and it may close a connection.                                    *)
QuietStep(c, rest) ==
  /\ \/ rest = tasks
     \/ tasks # << >> /\ Head(tasks).op # "release" /\ rest = Tail(tasks)
  /\ \/ tasks' = rest /\ \A d \in Connections : link'[d].state = link[d].state
     \/ /\ c \in Connections /\ tasks' = Append(rest, Task("release", c))
        /\ link[c].state = "open" /\ link'[c].state = "closed"
        /\ \A d \in Connections : d # c => link'[d].state = link[d].state
  /\ \A d \in Connections :
       /\ link[d].receivedFirst => link'[d].receivedFirst
       /\ link'[d].receivedFirst => link[d].receivedFirst \/ link[d].state # "new"
       /\ protocol'[d].released = protocol[d].released

(* It keeps the order of login and release.                                *)
LEMMA QuietKeeps ==
  ASSUME TypeOK, ReleasedOnce, NEW c, NEW rest, QuietStep(c, rest)
  PROVE  /\ ReleasedOnce' /\ tasks' \in Seq(Jobs)
         /\ \A d \in Connections :
              /\ In(Task("login", d), tasks') => In(Task("login", d), tasks)
              /\ rest # tasks /\ Head(tasks) = Task("login", d) =>
                   ~In(Task("login", d), tasks')
<1>1. tasks \in Seq(Jobs)
  BY DEF TypeOK, Jobs
<1>2. /\ rest \in Seq(Jobs)
      /\ \A d \in Connections :
           /\ In(Task("login", d), rest) => In(Task("login", d), tasks)
           /\ In(Task("release", d), rest) <=> In(Task("release", d), tasks)
           /\ LoginFirst(rest, d)
           /\ rest # tasks /\ Head(tasks) = Task("login", d) =>
                ~In(Task("login", d), rest)
  <2>1. CASE rest = tasks
    BY <1>1, <2>1 DEF ReleasedOnce
  <2>2. CASE tasks # << >> /\ Head(tasks).op # "release" /\ rest = Tail(tasks)
    <3>1. \A d : Head(tasks) # Task("release", d)
      BY <2>2 DEF Task
    <3> QED
      BY <1>1, <2>2, <3>1, Shrunk DEF ReleasedOnce
  <2> QED
    BY <2>1, <2>2 DEF QuietStep
<1>3. CASE tasks' = rest /\ \A d \in Connections : link'[d].state = link[d].state
  BY <1>2, <1>3 DEF ReleasedOnce, QuietStep
<1>4. CASE /\ c \in Connections /\ tasks' = Append(rest, Task("release", c))
           /\ link[c].state = "open" /\ link'[c].state = "closed"
           /\ \A d \in Connections : d # c => link'[d].state = link[d].state
  <2>1. /\ Task("release", c) \in Jobs
        /\ \A d, e : Task("login", d) # Task("release", e)
        /\ \A d, e : Task("release", d) = Task("release", e) <=> d = e
    BY <1>4 DEF Task, Jobs, Ops
  <2>2. /\ tasks' \in Seq(Jobs)
        /\ \A t : In(t, tasks') <=> In(t, rest) \/ t = Task("release", c)
        /\ \A d \in Connections : LoginFirst(tasks', d)
    BY <1>2, <1>4, <2>1, Grown
  <2> QED
    BY <1>2, <1>4, <2>1, <2>2, SMTT(60) DEF ReleasedOnce, QuietStep
<1> QED
  BY <1>3, <1>4 DEF QuietStep

(* A quiet step that gives nobody a player, a wait or a place on the       *)
(* autosend list who has not logged in before.                             *)
LEMMA QuietLogins ==
  ASSUME TypeOK, ReleasedOnce, LoggedInOnce,
         NEW c, NEW rest, QuietStep(c, rest),
         \A d \in Connections :
           /\ protocol'[d].player # NoBody \/ protocol'[d].waits \/ d \in autosend' =>
                \/ protocol[d].player # NoBody \/ protocol[d].waits \/ d \in autosend
                \/ rest # tasks /\ Head(tasks) = Task("login", d)
           /\ protocol'[d].waits => protocol'[d].player = NoBody
           /\ d \in autosend' =>
                \/ d \in autosend
                \/ rest # tasks /\ Head(tasks) = Task("login", d)
  PROVE  LoggedInOnce'
<1>1. \A d \in Connections :
        rest # tasks /\ Head(tasks) = Task("login", d) =>
          /\ link[d].receivedFirst /\ ~protocol[d].released
          /\ ~In(Task("login", d), tasks')
  <2> SUFFICES ASSUME NEW d \in Connections, rest # tasks, Head(tasks) = Task("login", d)
               PROVE  /\ link[d].receivedFirst /\ ~protocol[d].released
                      /\ ~In(Task("login", d), tasks')
    OBVIOUS
  <2>1. In(Task("login", d), tasks)
    BY Shrunk DEF TypeOK, Jobs, QuietStep
  <2> QED
    BY <2>1, QuietKeeps DEF ReleasedOnce
<1>2. \A d \in Connections :
        /\ In(Task("login", d), tasks') => In(Task("login", d), tasks)
        /\ link[d].receivedFirst => link'[d].receivedFirst
        /\ protocol'[d].released = protocol[d].released
  BY QuietKeeps DEF QuietStep
<1> QED
  BY <1>1, <1>2 DEF LoggedInOnce

(* send, close and the end of a write keep a connection what it should be. *)
LEMMA LinkOps ==
  ASSUME NEW l \in Links, OneWrite(l), NEW force \in BOOLEAN
  PROVE  /\ Sent(l) \in Links /\ OneWrite(Sent(l))
         /\ Sent(l).state = l.state /\ Sent(l).receivedFirst = l.receivedFirst
         /\ Closed(l, force) \in Links /\ OneWrite(Closed(l, force))
         /\ Closed(l, force).state = IF l.state = "open" THEN "closed" ELSE l.state
         /\ Closed(l, force).receivedFirst = l.receivedFirst
         /\ l.queue > 0 =>
              /\ Written(l) \in Links /\ OneWrite(Written(l))
              /\ Written(l).state = l.state /\ Written(l).receivedFirst = l.receivedFirst
<1>1. Sent(l) \in Links /\ OneWrite(Sent(l))
  <2>1. CASE l.state # "open"
    BY <2>1 DEF Sent
  <2>2. CASE l.state = "open"
    <3> DEFINE q == l.queue + 1
               w == IF NoPendingWrite(l) THEN l.writes + 1 ELSE l.writes
               k == [l EXCEPT !.queue = q]
    <3>1. q \in Nat /\ w \in Nat /\ q > 0 /\ w = 1
      BY DEF Links, OneWrite, NoPendingWrite
    <3>2. Sent(l) = [k EXCEPT !.writes = w]
      BY <2>2 DEF Sent
    <3> HIDE DEF q, w
    <3>3. k \in Links /\ k.queue = q
      BY <3>1 DEF Links
    <3> HIDE DEF k
    <3>4. [k EXCEPT !.writes = w] \in Links
      BY <3>1, <3>3 DEF Links
    <3>5. [k EXCEPT !.writes = w].queue = q /\ [k EXCEPT !.writes = w].writes = w
      BY <3>3 DEF Links
    <3> QED
      BY <3>1, <3>2, <3>4, <3>5 DEF OneWrite
  <2> QED
    BY <2>1, <2>2
<1>2. Sent(l).state = l.state /\ Sent(l).receivedFirst = l.receivedFirst
  BY DEF Sent, Links
<1>3. Closed(l, force) \in Links /\ OneWrite(Closed(l, force))
  BY DEF Closed, Links, OneWrite
<1>4. /\ Closed(l, force).state = IF l.state = "open" THEN "closed" ELSE l.state
      /\ Closed(l, force).receivedFirst = l.receivedFirst
  BY DEF Closed, Links
<1>5. ASSUME l.queue > 0
      PROVE  /\ Written(l) \in Links /\ OneWrite(Written(l))
             /\ Written(l).state = l.state /\ Written(l).receivedFirst = l.receivedFirst
  <2> DEFINE q == l.queue - 1
             w == IF q = 0 THEN l.writes - 1 ELSE l.writes
             o == l.socket /\ ~(q = 0 /\ l.state = "closed")
             k == [l EXCEPT !.queue = q]
             m == [k EXCEPT !.writes = w]
  <2>1. q \in Nat /\ w \in Nat /\ o \in BOOLEAN /\ w = IF q > 0 THEN 1 ELSE 0
    BY <1>5 DEF Links, OneWrite
  <2>2. Written(l) = [m EXCEPT !.socket = o]
    BY DEF Written
  <2> HIDE DEF q, w, o
  <2>3. k \in Links /\ k.queue = q /\ k.state = l.state /\ k.receivedFirst = l.receivedFirst
    BY <2>1 DEF Links
  <2> HIDE DEF k
  <2>4. /\ m \in Links /\ m.queue = q /\ m.writes = w
        /\ m.state = l.state /\ m.receivedFirst = l.receivedFirst
    BY <2>1, <2>3 DEF Links
  <2> HIDE DEF m
  <2>5. [m EXCEPT !.socket = o] \in Links
    BY <2>1, <2>4 DEF Links
  <2>6. /\ [m EXCEPT !.socket = o].queue = q /\ [m EXCEPT !.socket = o].writes = w
        /\ [m EXCEPT !.socket = o].state = l.state
        /\ [m EXCEPT !.socket = o].receivedFirst = l.receivedFirst
    BY <2>4 DEF Links
  <2> QED
    BY <2>1, <2>2, <2>5, <2>6 DEF OneWrite
<1> QED
  BY <1>1, <1>2, <1>3, <1>4, <1>5

LinksOK == link \in [Connections -> Links] /\ \A c \in Connections : OneWrite(link[c])

(* Closing a connection that has at most received its first packet.        *)
LEMMA CloseByQuiet ==
  ASSUME TypeOK, ReleasedOnce, NEW c \in Connections, NEW l \in Links, OneWrite(l),
         l.state = link[c].state,
         l.receivedFirst = link[c].receivedFirst \/ (l.receivedFirst /\ link[c].state = "open"),
         NEW force \in BOOLEAN, NEW rest,
         \/ rest = tasks
         \/ tasks # << >> /\ Head(tasks).op # "release" /\ rest = Tail(tasks),
         \A d \in Connections : protocol'[d].released = protocol[d].released,
         CloseBy(c, l, force, rest)
  PROVE  QuietStep(c, rest) /\ LinksOK'
<1>1. tasks \in Seq(Jobs) /\ link \in [Connections -> Links]
      /\ \A d \in Connections : OneWrite(link[d])
  BY DEF TypeOK, Jobs, OneWrite
<1>2. rest \in Seq(Jobs)
  BY <1>1, Shrunk
<1>3. /\ link' = [link EXCEPT ![c] = Closed(l, force)]
      /\ tasks' = rest \o (IF link[c].state = "open" THEN <<Task("release", c)>> ELSE << >>)
  BY DEF CloseBy, Releases
<1>4. /\ link[c].state = "open" => tasks' = Append(rest, Task("release", c))
      /\ link[c].state # "open" => tasks' = rest
  BY <1>2, <1>3, ConcatEmptySeq, AppendIsConcat DEF Jobs, Task, Ops
<1>5. /\ link' \in [Connections -> Links]
      /\ link'[c] = Closed(l, force) /\ \A d \in Connections : d # c => link'[d] = link[d]
  BY <1>1, <1>3, LinkOps
<1>6. LinksOK'
  BY <1>1, <1>5, LinkOps DEF LinksOK
<1>7. QuietStep(c, rest)
  BY <1>4, <1>5, LinkOps DEF QuietStep
<1> QED
  BY <1>6, <1>7

-----------------------------------------------------------------------------
(* The I/O thread: it touches connections and the list, nothing else.      *)

(* A quiet step that changes nothing else.                                 *)
LEMMA QuietInv ==
  ASSUME IInv, NEW c, NEW rest, QuietStep(c, rest), LinksOK',
         UNCHANGED <<protocol, body, autosend, leaving>>, sendAlls' \in Nat
  PROVE  IInv'
<1>1. ReleasedOnce' /\ LoggedInOnce' /\ tasks' \in Seq(Jobs)
  <2>1. TypeOK /\ ReleasedOnce /\ LoggedInOnce
    BY DEF IInv
  <2>2. \A d \in Connections : protocol[d].waits => protocol[d].player = NoBody
    BY <2>1 DEF LoggedInOnce
  <2> QED
    BY <2>1, <2>2, QuietKeeps, QuietLogins
<1>2. BodiesHeld'
  BY DEF IInv, BodiesHeld
<1>3. TypeOK'
  BY <1>1 DEF IInv, TypeOK, LinksOK, OneWrite, Jobs
<1> QED
  BY <1>1, <1>2, <1>3 DEF IInv

(* A new connection, and the task that greets it.                          *)
LEMMA AcceptInv ==
  ASSUME IInv, NEW c \in Connections, Accept(c)
  PROVE  IInv'
<1> DEFINE l == [link[c] EXCEPT !.state = "open", !.listed = TRUE, !.socket = TRUE,
                                !.reading = TRUE]
<1>1. /\ link[c].state = "new" /\ link[c] \in Links /\ OneWrite(link[c])
      /\ link \in [Connections -> Links]
      /\ tasks \in Seq(Jobs) /\ tasks' = Append(tasks, Task("onConnect", c))
      /\ UNCHANGED <<protocol, body, autosend, sendAlls, leaving>>
  BY DEF Accept, ioUnchanged, IInv, TypeOK, OneWrite, Jobs
<1>2. link' = [link EXCEPT ![c] = l]
  BY <1>1 DEF Accept
<1>3. l \in Links /\ OneWrite(l) /\ l.state = "open" /\ l.receivedFirst = link[c].receivedFirst
  BY <1>1 DEF Links, OneWrite
<1> HIDE DEF l
<1>4. /\ link' \in [Connections -> Links] /\ link'[c] = l
      /\ \A d \in Connections : d # c => link'[d] = link[d]
  BY <1>1, <1>2, <1>3
<1>5. /\ Task("onConnect", c) \in Jobs
      /\ \A d : Task("login", d) # Task("onConnect", c)
      /\ \A d : Task("release", d) # Task("onConnect", c)
  BY DEF Task, Jobs, Ops
<1>6. /\ tasks' \in Seq(Jobs)
      /\ \A d : /\ In(Task("login", d), tasks') <=> In(Task("login", d), tasks)
                /\ In(Task("release", d), tasks') <=> In(Task("release", d), tasks)
                /\ LoginFirst(tasks, d) => LoginFirst(tasks', d)
  BY <1>1, <1>5, Grown
<1>7. ReleasedOnce'
  BY <1>1, <1>3, <1>4, <1>6 DEF IInv, ReleasedOnce
<1>8. LoggedInOnce'
  BY <1>1, <1>3, <1>4, <1>6 DEF IInv, LoggedInOnce
<1>9. BodiesHeld'
  BY <1>1 DEF IInv, BodiesHeld
<1>10. TypeOK'
  BY <1>1, <1>3, <1>4, <1>6 DEF IInv, TypeOK, OneWrite, Jobs
<1> QED
  BY <1>7, <1>8, <1>9, <1>10 DEF IInv

(* The first packet asks to log in: nothing has been done for it before.   *)
LEMMA LoginQueuedInv ==
  ASSUME IInv, NEW c \in Connections, link[c].state = "open", ~link[c].receivedFirst,
         link' = [link EXCEPT ![c] = [link[c] EXCEPT !.receivedFirst = TRUE]],
         tasks' = Append(tasks, Task("login", c)), UNCHANGED ioUnchanged
  PROVE  IInv'
<1> DEFINE l == [link[c] EXCEPT !.receivedFirst = TRUE]
<1>1. /\ link[c] \in Links /\ OneWrite(link[c])
      /\ link \in [Connections -> Links] /\ tasks \in Seq(Jobs)
      /\ UNCHANGED <<protocol, body, autosend, sendAlls, leaving>>
  BY DEF ioUnchanged, IInv, TypeOK, OneWrite, Jobs
<1>2. l \in Links /\ OneWrite(l) /\ l.state = "open" /\ l.receivedFirst
  BY <1>1 DEF Links, OneWrite
<1>3. link' = [link EXCEPT ![c] = l]
  OBVIOUS
<1> HIDE DEF l
<1>4. /\ link' \in [Connections -> Links] /\ link'[c] = l
      /\ \A d \in Connections : d # c => link'[d] = link[d]
  BY <1>1, <1>2, <1>3
<1>5. /\ Task("login", c) \in Jobs
      /\ \A d : Task("login", d) = Task("login", c) <=> d = c
      /\ \A d : Task("release", d) # Task("login", c)
  BY DEF Task, Jobs, Ops
<1>6. ~In(Task("login", c), tasks) /\ ~In(Task("release", c), tasks) /\ ~protocol[c].released
  BY DEF IInv, ReleasedOnce
<1>7. /\ tasks' \in Seq(Jobs)
      /\ \A d \in Connections :
           /\ In(Task("login", d), tasks') <=> In(Task("login", d), tasks) \/ d = c
           /\ In(Task("release", d), tasks') <=> In(Task("release", d), tasks)
           /\ LoginFirst(tasks', d)
  BY <1>1, <1>5, <1>6, Grown DEF IInv, ReleasedOnce
<1>8. ReleasedOnce'
  BY <1>1, <1>2, <1>4, <1>6, <1>7 DEF IInv, ReleasedOnce
<1>9. LoggedInOnce'
  BY <1>1, <1>2, <1>4, <1>7 DEF IInv, LoggedInOnce
<1>10. BodiesHeld'
  BY <1>1 DEF IInv, BodiesHeld
<1>11. TypeOK'
  BY <1>1, <1>2, <1>4, <1>7 DEF IInv, TypeOK, OneWrite, Jobs
<1> QED
  BY <1>8, <1>9, <1>10, <1>11 DEF IInv

(* Closing from the I/O thread.                                            *)
LEMMA IoCloseInv ==
  ASSUME IInv, NEW c \in Connections, NEW l \in Links, OneWrite(l),
         l.state = link[c].state,
         l.receivedFirst = link[c].receivedFirst \/ (l.receivedFirst /\ link[c].state = "open"),
         NEW force \in BOOLEAN, CloseBy(c, l, force, tasks), UNCHANGED ioUnchanged
  PROVE  IInv'
<1>1. UNCHANGED <<protocol, body, autosend, sendAlls, leaving>>
  BY DEF ioUnchanged
<1>2. QuietStep(c, tasks) /\ LinksOK'
  BY <1>1, CloseByQuiet DEF IInv
<1> QED
  BY <1>1, <1>2, QuietInv DEF IInv, TypeOK

(* A change of a connection that neither closes it nor queues a task.      *)
LEMMA IoLinkInv ==
  ASSUME IInv, NEW c \in Connections, NEW l \in Links, OneWrite(l),
         l.state = link[c].state, l.receivedFirst = link[c].receivedFirst,
         link' = [link EXCEPT ![c] = l], UNCHANGED tasks, UNCHANGED ioUnchanged
  PROVE  IInv'
<1>1. /\ UNCHANGED <<protocol, body, autosend, sendAlls, leaving>>
      /\ link \in [Connections -> Links] /\ \A d \in Connections : OneWrite(link[d])
  BY DEF ioUnchanged, IInv, TypeOK, OneWrite
<1>2. LinksOK' /\ link'[c] = l /\ \A d \in Connections : d # c => link'[d] = link[d]
  BY <1>1 DEF LinksOK
<1>3. QuietStep(c, tasks)
  BY <1>1, <1>2 DEF QuietStep
<1> QED
  BY <1>1, <1>2, <1>3, QuietInv DEF IInv, TypeOK

(* A logout is queued; it is neither a login nor a release.                *)
LEMMA LogoutQueuedInv ==
  ASSUME IInv, NEW c \in Connections, tasks' = Append(tasks, Task("logout", c)),
         UNCHANGED link, UNCHANGED ioUnchanged
  PROVE  IInv'
<1>1. /\ tasks \in Seq(Jobs)
      /\ UNCHANGED <<protocol, body, autosend, sendAlls, leaving>>
  BY DEF ioUnchanged, IInv, TypeOK, Jobs
<1>2. /\ Task("logout", c) \in Jobs
      /\ \A d : Task("login", d) # Task("logout", c)
      /\ \A d : Task("release", d) # Task("logout", c)
  BY DEF Task, Jobs, Ops
<1>3. /\ tasks' \in Seq(Jobs)
      /\ \A d : /\ In(Task("login", d), tasks') <=> In(Task("login", d), tasks)
                /\ In(Task("release", d), tasks') <=> In(Task("release", d), tasks)
                /\ LoginFirst(tasks, d) => LoginFirst(tasks', d)
  BY <1>1, <1>2, Grown
<1>4. ReleasedOnce' /\ LoggedInOnce'
  BY <1>1, <1>3 DEF IInv, ReleasedOnce, LoggedInOnce
<1>5. BodiesHeld' /\ TypeOK'
  BY <1>1, <1>3 DEF IInv, BodiesHeld, TypeOK, Jobs
<1> QED
  BY <1>4, <1>5 DEF IInv

(* Every handler of asio.                                                  *)
LEMMA IoInv ==
  ASSUME IInv, NEW c \in Connections, Io(c)
  PROVE  IInv'
<1>1. link[c] \in Links /\ OneWrite(link[c])
  BY DEF IInv, TypeOK, OneWrite
<1>2. CASE FirstPacket(c)
  <2> DEFINE l == [link[c] EXCEPT !.receivedFirst = TRUE]
  <2>1. l \in Links /\ OneWrite(l) /\ l.state = link[c].state /\ l.receivedFirst
    BY <1>1 DEF Links, OneWrite
  <2>2. /\ link[c].state = "open" /\ ~link[c].receivedFirst /\ UNCHANGED ioUnchanged
        /\ \/ CloseBy(c, l, FALSE, tasks)
           \/ CloseBy(c, Sent(l), FALSE, tasks)
           \/ /\ link' = [link EXCEPT ![c] = l]
              /\ tasks' = Append(tasks, Task("login", c))
    BY <1>2 DEF FirstPacket
  <2>3. CASE CloseBy(c, l, FALSE, tasks)
    BY <2>1, <2>2, <2>3, IoCloseInv
  <2>4. CASE CloseBy(c, Sent(l), FALSE, tasks)
    <3> HIDE DEF l
    <3>1. /\ Sent(l) \in Links /\ OneWrite(Sent(l)) /\ Sent(l).state = link[c].state
          /\ Sent(l).receivedFirst
      BY <2>1, LinkOps
    <3> QED
      BY <2>2, <2>4, <3>1, IoCloseInv
  <2> QED
    BY <2>2, <2>3, <2>4, LoginQueuedInv
<1>3. CASE LaterPacket(c)
  BY <1>1, <1>3, IoCloseInv, LogoutQueuedInv DEF LaterPacket
<1>4. CASE BadHeader(c) \/ ReadError(c)
  <2> DEFINE l == [link[c] EXCEPT !.reading = FALSE]
  <2>1. /\ l \in Links /\ OneWrite(l) /\ l.state = link[c].state
        /\ l.receivedFirst = link[c].receivedFirst
    BY <1>1 DEF Links, OneWrite
  <2>2. /\ UNCHANGED ioUnchanged
        /\ \/ \E force \in BOOLEAN : CloseBy(c, l, force, tasks)
           \/ link' = [link EXCEPT ![c] = l] /\ UNCHANGED tasks
    BY <1>4 DEF BadHeader, ReadError
  <2> HIDE DEF l
  <2> QED
    BY <2>1, <2>2, IoCloseInv, IoLinkInv
<1>5. CASE WriteDone(c)
  BY <1>1, <1>5, LinkOps, IoLinkInv DEF WriteDone
<1>6. CASE WriteError(c)
  <2> DEFINE w == link[c].writes - 1
             k == [link[c] EXCEPT !.queue = 0]
             m == [k EXCEPT !.writes = w]
             l == [m EXCEPT !.socket = FALSE]
  <2>1. w = 0
    BY <1>1, <1>6 DEF WriteError, OneWrite, Links
  <2>2. CloseBy(c, l, TRUE, tasks) /\ UNCHANGED ioUnchanged
    BY <1>6 DEF WriteError
  <2> HIDE DEF w
  <2>3. /\ k \in Links /\ k.queue = 0 /\ k.state = link[c].state
        /\ k.receivedFirst = link[c].receivedFirst
    BY <1>1 DEF Links
  <2> HIDE DEF k
  <2>4. /\ m \in Links /\ m.queue = 0 /\ m.writes = 0 /\ m.state = link[c].state
        /\ m.receivedFirst = link[c].receivedFirst
    BY <2>1, <2>3 DEF Links
  <2> HIDE DEF m
  <2>5. l \in Links
    BY <2>4 DEF Links
  <2>6. /\ l.queue = 0 /\ l.writes = 0 /\ l.state = link[c].state
        /\ l.receivedFirst = link[c].receivedFirst
    BY <2>4 DEF Links
  <2> HIDE DEF l
  <2>7. OneWrite(l)
    BY <2>6 DEF OneWrite
  <2> QED
    BY <2>2, <2>5, <2>6, <2>7, IoCloseInv
<1>7. CASE Timeout(c)
  BY <1>1, <1>7, IoCloseInv DEF Timeout
<1> QED
  BY <1>2, <1>3, <1>4, <1>5, <1>6, <1>7, AcceptInv DEF Io

-----------------------------------------------------------------------------
(* The players' objects.                                                   *)

(* A connection without a player gets one that has no client.              *)
LEMMA BodiesAttached ==
  ASSUME TypeOK, BodiesHeld, NEW c \in Connections, NEW b \in Bodies,
         protocol[c].player = NoBody, body[b].client = NoConnection,
         body' \in [Bodies -> PlayerObjects],
         \A x \in Bodies : x # b => body'[x] = body[x],
         body'[b].client = c,
         \/ body'[b].refs = body[b].refs + 1 /\ body'[b].placed = body[b].placed
         \/ /\ body[b].refs = 0 /\ body'[b].refs = 2
            /\ body'[b].placed /\ Placed(body) = {},
         protocol'[c].player = b,
         \A d \in Connections : d # c => protocol'[d].player = protocol[d].player,
         UNCHANGED leaving
  PROVE  BodiesHeld'
<1>1. /\ body \in [Bodies -> PlayerObjects]
      /\ \A x \in Bodies : body[x].refs \in Nat /\ body[x].placed \in BOOLEAN
  BY DEF TypeOK, PlayerObjects
<1>2. \A d \in Connections, x \in Bodies : body'[x].client = d <=> protocol'[d].player = x
  BY SessionAssumption DEF BodiesHeld
<1>3. \A x \in Bodies :
        /\ body'[x].refs = (IF body'[x].client = NoConnection THEN 0 ELSE 1)
                           + (IF body'[x].placed \/ x \in leaving' THEN 1 ELSE 0)
        /\ ~(body'[x].placed /\ x \in leaving')
  <2>1. \A x \in Bodies \ {b} :
          /\ body'[x].refs = (IF body'[x].client = NoConnection THEN 0 ELSE 1)
                             + (IF body'[x].placed \/ x \in leaving' THEN 1 ELSE 0)
          /\ ~(body'[x].placed /\ x \in leaving')
    BY DEF BodiesHeld
  <2>2. /\ body'[b].refs = (IF body'[b].client = NoConnection THEN 0 ELSE 1)
                           + (IF body'[b].placed \/ b \in leaving' THEN 1 ELSE 0)
        /\ ~(body'[b].placed /\ b \in leaving')
    BY <1>1, SessionAssumption DEF BodiesHeld
  <2> QED
    BY <2>1, <2>2
<1>4. \A x, y \in Bodies : body'[x].placed /\ body'[y].placed => x = y
  BY DEF BodiesHeld, Placed
<1> QED
  BY <1>2, <1>3, <1>4 DEF BodiesHeld

(* removeCreature: the game's reference passes to the list of those to be  *)
(* released.                                                               *)
LEMMA BodyRemoved ==
  ASSUME TypeOK, BodiesHeld, NEW b \in Bodies, body[b].placed, RemoveBody(b)
  PROVE  /\ BodiesHeld'
         /\ protocol' \in [Connections -> Protocols]
         /\ body' \in [Bodies -> PlayerObjects] /\ leaving' \subseteq Bodies
         /\ \A d \in Connections :
              /\ protocol'[d].player = protocol[d].player
              /\ protocol'[d].waits = protocol[d].waits
              /\ protocol'[d].released = protocol[d].released
<1>1. /\ body \in [Bodies -> PlayerObjects] /\ protocol \in [Connections -> Protocols]
      /\ leaving \subseteq Bodies
  BY DEF TypeOK
<1>2. /\ body' = [body EXCEPT ![b].placed = FALSE] /\ leaving' = leaving \union {b}
      /\ protocol' = [c \in Connections |->
                        IF protocol[c].eventConnect = b
                          THEN [protocol[c] EXCEPT !.eventConnect = NoBody]
                          ELSE protocol[c]]
  BY DEF RemoveBody
<1>3. \A d \in Connections :
        /\ [protocol[d] EXCEPT !.eventConnect = NoBody] \in Protocols
        /\ [protocol[d] EXCEPT !.eventConnect = NoBody].player = protocol[d].player
        /\ [protocol[d] EXCEPT !.eventConnect = NoBody].waits = protocol[d].waits
        /\ [protocol[d] EXCEPT !.eventConnect = NoBody].released = protocol[d].released
  BY <1>1 DEF Protocols
<1>4. /\ protocol' \in [Connections -> Protocols]
      /\ \A d \in Connections :
           /\ protocol'[d].player = protocol[d].player
           /\ protocol'[d].waits = protocol[d].waits
           /\ protocol'[d].released = protocol[d].released
  BY <1>1, <1>2, <1>3
<1>5. [body[b] EXCEPT !.placed = FALSE] \in PlayerObjects
  BY <1>1 DEF PlayerObjects
<1>6. /\ body' \in [Bodies -> PlayerObjects]
      /\ \A x \in Bodies :
           /\ body'[x].refs = body[x].refs /\ body'[x].client = body[x].client
           /\ body'[x].placed <=> body[x].placed /\ x # b
  BY <1>1, <1>2, <1>5 DEF PlayerObjects
<1>7. BodiesHeld'
  BY <1>2, <1>4, <1>6 DEF BodiesHeld
<1> QED
  BY <1>1, <1>2, <1>4, <1>6, <1>7

(* decrementReferenceCounter of somebody who is held.                      *)
LEMMA DroppedOne ==
  ASSUME NEW x \in PlayerObjects, x.refs > 0
  PROVE  /\ Dropped(x) \in PlayerObjects /\ Dropped(x).refs = x.refs - 1
         /\ x.refs # 1 => Dropped(x).client = x.client /\ Dropped(x).placed = x.placed
         /\ x.refs = 1 => Dropped(x).client = NoConnection /\ ~Dropped(x).placed
<1>1. CASE x.refs = 1
  BY <1>1 DEF Dropped, Unused, PlayerObjects
<1>2. CASE x.refs # 1
  <2>1. x.refs - 1 \in Nat
    BY DEF PlayerObjects
  <2> QED
    BY <1>2, <2>1 DEF Dropped, PlayerObjects
<1> QED
  BY <1>1, <1>2

-----------------------------------------------------------------------------
(* The dispatcher's tasks.                                                 *)

(* A task has been taken; what it does to connections is to close one, or  *)
(* nothing that tells.                                                     *)
Taken(rest) ==
  \/ rest = tasks
  \/ tasks # << >> /\ Head(tasks).op # "release" /\ rest = Tail(tasks)

(* A connection that is let in, either by its login task or by the connect *)
(* that it waited for.                                                     *)
Entitled(c, rest) ==
  \/ protocol[c].waits
  \/ rest # tasks /\ Head(tasks) = Task("login", c)

(* ... has no player yet.                                                  *)
LEMMA EntitledIsFree ==
  ASSUME IInv, NEW c \in Connections, NEW rest, Taken(rest), Entitled(c, rest)
  PROVE  protocol[c].player = NoBody
<1>1. CASE protocol[c].waits
  BY <1>1 DEF IInv, LoggedInOnce
<1>2. CASE rest # tasks /\ Head(tasks) = Task("login", c)
  <2>1. In(Task("login", c), tasks)
    BY <1>2, Shrunk DEF Taken, IInv, TypeOK, Jobs
  <2> QED
    BY <2>1 DEF IInv, LoggedInOnce
<1> QED
  BY <1>1, <1>2 DEF Entitled

(* What a connection is while nothing is done to it but a send.            *)
LEMMA SentQuiet ==
  ASSUME TypeOK, NEW c, NEW rest, Taken(rest), tasks' = rest,
         link' = [link EXCEPT ![c] = Sent(@)] \/ UNCHANGED link,
         \A d \in Connections : protocol'[d].released = protocol[d].released
  PROVE  QuietStep(c, rest) /\ LinksOK'
<1>1. link \in [Connections -> Links] /\ \A d \in Connections : OneWrite(link[d])
  BY DEF TypeOK, OneWrite
<1>2. \A d \in Connections :
        /\ Sent(link[d]) \in Links /\ OneWrite(Sent(link[d]))
        /\ Sent(link[d]).state = link[d].state
        /\ Sent(link[d]).receivedFirst = link[d].receivedFirst
  BY <1>1, LinkOps
<1>3. LinksOK'
  BY <1>1, <1>2 DEF LinksOK
<1>4. \A d \in Connections :
        /\ link'[d].state = link[d].state /\ link'[d].receivedFirst = link[d].receivedFirst
  BY <1>1, <1>2
<1>5. QuietStep(c, rest)
  BY <1>4 DEF QuietStep, Taken
<1> QED
  BY <1>3, <1>5

(* A close with or without a last message.                                 *)
LEMMA ClosedQuiet ==
  ASSUME TypeOK, ReleasedOnce, NEW c \in Connections, NEW rest, Taken(rest),
         \/ CloseBy(c, link[c], FALSE, rest)
         \/ CloseBy(c, Sent(link[c]), FALSE, rest),
         \A d \in Connections : protocol'[d].released = protocol[d].released
  PROVE  QuietStep(c, rest) /\ LinksOK'
<1>1. link[c] \in Links /\ OneWrite(link[c])
  BY DEF TypeOK, OneWrite
<1>2. /\ Sent(link[c]) \in Links /\ OneWrite(Sent(link[c]))
      /\ Sent(link[c]).state = link[c].state
      /\ Sent(link[c]).receivedFirst = link[c].receivedFirst
  BY <1>1, LinkOps
<1> QED
  BY <1>1, <1>2, CloseByQuiet DEF Taken

(* A step of the dispatcher but release: quiet for the connections, right  *)
(* for the bodies, and whoever is given a player was entitled to it.       *)
LEMMA DispatcherInv ==
  ASSUME IInv, NEW c, NEW rest, QuietStep(c, rest), LinksOK',
         NEW e,
         \A d \in Connections :
           /\ protocol'[d].player # NoBody =>
                protocol[d].player # NoBody \/ (d = e /\ Entitled(e, rest))
           /\ protocol'[d].waits =>
                /\ protocol[d].waits \/ (d = e /\ Entitled(e, rest))
                /\ protocol'[d].player = NoBody
           /\ d \in autosend' =>
                \/ d \in autosend
                \/ d = e /\ rest # tasks /\ Head(tasks) = Task("login", e),
         BodiesHeld', protocol' \in [Connections -> Protocols],
         body' \in [Bodies -> PlayerObjects], leaving' \subseteq Bodies,
         autosend' \subseteq Connections, sendAlls' \in Nat
  PROVE  IInv'
<1>1. TypeOK /\ ReleasedOnce /\ LoggedInOnce
  BY DEF IInv
<1>2. ReleasedOnce' /\ tasks' \in Seq(Jobs)
  BY <1>1, QuietKeeps
<1>3. LoggedInOnce'
  BY <1>1, QuietLogins DEF Entitled
<1>4. TypeOK'
  BY <1>2 DEF TypeOK, LinksOK, OneWrite, Jobs
<1> QED
  BY <1>2, <1>3, <1>4 DEF IInv

(* The list of clients that are written to.                                *)
LEMMA Listed ==
  ASSUME TypeOK, NEW c \in Connections, AddToAutosend(c)
  PROVE  autosend' = autosend \union {c} /\ autosend' \subseteq Connections /\ sendAlls' \in Nat
  BY DEF TypeOK, AddToAutosend

(* The object of a character that is loaded.                               *)
LEMMA NewObjects ==
  ASSUME NEW c \in Connections
  PROVE  /\ LET x == [Unused EXCEPT !.refs = 1, !.client = c]
            IN  x \in PlayerObjects /\ x.refs = 1 /\ x.client = c /\ ~x.placed
         /\ LET x == [Unused EXCEPT !.refs = 2, !.client = c, !.placed = TRUE]
            IN  x \in PlayerObjects /\ x.refs = 2 /\ x.client = c /\ x.placed
<1>1. ASSUME NEW r \in Nat
      PROVE  LET x == [Unused EXCEPT !.refs = r, !.client = c]
             IN  x \in PlayerObjects /\ x.refs = r /\ x.client = c /\ ~x.placed
  <2> DEFINE y == [Unused EXCEPT !.refs = r]
             x == [y EXCEPT !.client = c]
  <2>1. y \in PlayerObjects /\ y.refs = r /\ ~y.placed
    BY DEF Unused, PlayerObjects
  <2> HIDE DEF y
  <2>2. x \in PlayerObjects /\ x.refs = r /\ x.client = c /\ ~x.placed
    BY <2>1 DEF PlayerObjects
  <2> QED
    BY <2>2 DEF y
<1>2. LET x == [Unused EXCEPT !.refs = 2, !.client = c, !.placed = TRUE]
      IN  x \in PlayerObjects /\ x.refs = 2 /\ x.client = c /\ x.placed
  <2> DEFINE y == [Unused EXCEPT !.refs = 2, !.client = c]
             x == [y EXCEPT !.placed = TRUE]
  <2>1. y \in PlayerObjects /\ y.refs = 2 /\ y.client = c
    BY <1>1
  <2> HIDE DEF y
  <2>2. x \in PlayerObjects
    BY <2>1 DEF PlayerObjects
  <2>3. x.refs = 2 /\ x.client = c /\ x.placed
    BY <2>1 DEF PlayerObjects
  <2> QED
    BY <2>2, <2>3 DEF y
<1> QED
  BY <1>1, <1>2

(* A login of somebody who is not in the game.                             *)
LEMMA LoginNewInv ==
  ASSUME IInv, NEW c \in Connections, tasks # << >>, Head(tasks) = Task("login", c),
         LoginNew(c, Tail(tasks))
  PROVE  IInv'
<1> DEFINE rest == Tail(tasks)
<1>1. /\ TypeOK /\ ReleasedOnce /\ BodiesHeld
      /\ body \in [Bodies -> PlayerObjects] /\ protocol \in [Connections -> Protocols]
      /\ tasks \in Seq(Jobs)
  BY DEF IInv, TypeOK, Jobs
<1>2. Taken(rest) /\ Entitled(c, rest) /\ rest # tasks
  <2>1. Len(Tail(tasks)) # Len(tasks)
    BY <1>1, HeadTailProperties, LenProperties
  <2> QED
    BY <2>1 DEF Taken, Entitled, Task
<1>3. protocol[c].player = NoBody /\ ~protocol[c].waits
  <2>1. In(Task("login", c), tasks)
    BY <1>1, Shrunk
  <2> QED
    BY <2>1 DEF IInv, LoggedInOnce
<1>4. PICK b \in Bodies :
        /\ body[b].refs = 0
        /\ \/ /\ body' = [body EXCEPT ![b] = [Unused EXCEPT !.refs = 1, !.client = c]]
              /\ protocol' = [protocol EXCEPT ![c].player = b]
              /\ DisconnectClient(c, rest)
              /\ UNCHANGED <<autosend, sendAlls>>
           \/ /\ body' = [body EXCEPT ![b] =
                            [Unused EXCEPT !.refs = 2, !.client = c, !.placed = TRUE]]
              /\ protocol' = [protocol EXCEPT ![c].player = b, ![c].acceptPackets = TRUE,
                                              ![c].buffered = TRUE]
              /\ tasks' = rest
              /\ AddToAutosend(c)
              /\ UNCHANGED link
  BY DEF LoginNew
<1>5. Placed(body) = {} /\ UNCHANGED leaving
  BY DEF LoginNew
<1>6. body[b].client = NoConnection /\ ~body[b].placed
  BY <1>1, <1>4 DEF BodiesHeld, PlayerObjects
<1>7. /\ protocol' \in [Connections -> Protocols] /\ protocol'[c].player = b
      /\ ~protocol'[c].waits /\ protocol'[c].released = protocol[c].released
      /\ \A d \in Connections : d # c => protocol'[d] = protocol[d]
  <2>1. CASE protocol' = [protocol EXCEPT ![c].player = b]
    <3> DEFINE r == [protocol[c] EXCEPT !.player = b]
    <3>1. /\ r \in Protocols /\ r.player = b /\ ~r.waits
          /\ r.released = protocol[c].released
      BY <1>1, <1>3 DEF Protocols
    <3>2. protocol' = [protocol EXCEPT ![c] = r]
      BY <2>1
    <3> HIDE DEF r
    <3> QED
      BY <1>1, <3>1, <3>2
  <2>2. CASE protocol' = [protocol EXCEPT ![c].player = b, ![c].acceptPackets = TRUE,
                                          ![c].buffered = TRUE]
    <3> DEFINE P == [protocol EXCEPT ![c].player = b]
               Q == [P EXCEPT ![c].acceptPackets = TRUE]
    <3>1. protocol' = [Q EXCEPT ![c].buffered = TRUE]
      BY <2>2
    <3>2. /\ P \in [Connections -> Protocols] /\ P[c].player = b /\ ~P[c].waits
          /\ P[c].released = protocol[c].released
          /\ \A d \in Connections : d # c => P[d] = protocol[d]
      BY <1>1, <1>3 DEF Protocols
    <3> HIDE DEF P
    <3>3. /\ Q \in [Connections -> Protocols] /\ Q[c].player = b /\ ~Q[c].waits
          /\ Q[c].released = protocol[c].released
          /\ \A d \in Connections : d # c => Q[d] = protocol[d]
      BY <3>2 DEF Protocols
    <3> HIDE DEF Q
    <3> QED
      BY <3>1, <3>3, ZenonT(60) DEF Protocols
  <2> QED
    BY <1>4, <2>1, <2>2
<1>8. /\ body' \in [Bodies -> PlayerObjects]
      /\ body'[b].client = c
      /\ \A x \in Bodies : x # b => body'[x] = body[x]
      /\ \/ body'[b].refs = 1 /\ ~body'[b].placed
         \/ body'[b].refs = 2 /\ body'[b].placed
  <2>1. \/ body' = [body EXCEPT ![b] = [Unused EXCEPT !.refs = 1, !.client = c]]
        \/ body' = [body EXCEPT ![b] =
                      [Unused EXCEPT !.refs = 2, !.client = c, !.placed = TRUE]]
    BY <1>4
  <2>2. PICK x \in PlayerObjects :
          /\ body' = [body EXCEPT ![b] = x] /\ x.client = c
          /\ (x.refs = 1 /\ ~x.placed) \/ (x.refs = 2 /\ x.placed)
    <3> DEFINE x == [Unused EXCEPT !.refs = 1, !.client = c]
               y == [Unused EXCEPT !.refs = 2, !.client = c, !.placed = TRUE]
    <3>1. /\ x \in PlayerObjects /\ x.refs = 1 /\ x.client = c /\ ~x.placed
          /\ y \in PlayerObjects /\ y.refs = 2 /\ y.client = c /\ y.placed
      BY NewObjects
    <3>2. body' = [body EXCEPT ![b] = x] \/ body' = [body EXCEPT ![b] = y]
      BY <2>1
    <3> HIDE DEF x, y
    <3> QED
      BY <3>1, <3>2, SMTT(60)
  <2> QED
    BY ONLY <1>1, <2>2, b \in Bodies
<1>9. BodiesHeld'
  <2>1. body'[b].refs = 1 => body'[b].refs = body[b].refs + 1 /\ body'[b].placed = body[b].placed
    BY <1>1, <1>4, <1>6, <1>8 DEF PlayerObjects
  <2>2. \A d \in Connections : d # c => protocol'[d].player = protocol[d].player
    BY <1>7
  <2> QED
    BY <1>1, <1>3, <1>4, <1>5, <1>6, <1>7, <1>8, <2>1, <2>2, BodiesAttached
<1>10. QuietStep(c, rest) /\ LinksOK'
  <2>1. \A d \in Connections : protocol'[d].released = protocol[d].released
    BY <1>7
  <2> QED
    BY <1>1, <1>2, <1>4, <2>1, SentQuiet, ClosedQuiet DEF DisconnectClient
<1>11. /\ autosend' \subseteq autosend \union {c}
       /\ autosend' \subseteq Connections /\ sendAlls' \in Nat
  BY <1>1, <1>4, Listed DEF TypeOK
<1>12. leaving' \subseteq Bodies
  BY <1>1, <1>5 DEF TypeOK
<1>13. \A d \in Connections : d # c /\ protocol'[d].waits => protocol'[d].player = NoBody
  BY <1>7 DEF IInv, LoggedInOnce
<1> HIDE DEF rest
<1> QED
  BY <1>2, <1>7, <1>8, <1>9, <1>10, <1>11, <1>12, <1>13, DispatcherInv

(* connect: it ends the wait, and attaches the connection or does not.     *)
LEMMA ConnectFields ==
  ASSUME TypeOK, NEW c \in Connections, NEW b \in Bodies \union {NoBody}
  PROVE  /\ LET P == [protocol EXCEPT ![c].waits = FALSE, ![c].eventConnect = NoBody]
            IN  /\ P \in [Connections -> Protocols]
                /\ ~P[c].waits /\ P[c].player = protocol[c].player
                /\ P[c].released = protocol[c].released
                /\ \A d \in Connections : d # c => P[d] = protocol[d]
         /\ LET P == [protocol EXCEPT ![c] = [Attached(c, b) EXCEPT !.eventConnect = NoBody]]
            IN  /\ P \in [Connections -> Protocols]
                /\ ~P[c].waits /\ P[c].player = b
                /\ P[c].released = protocol[c].released
                /\ \A d \in Connections : d # c => P[d] = protocol[d]
<1>1. protocol \in [Connections -> Protocols] /\ protocol[c] \in Protocols
  BY DEF TypeOK
<1>2. LET P == [protocol EXCEPT ![c].waits = FALSE, ![c].eventConnect = NoBody]
      IN  /\ P \in [Connections -> Protocols]
          /\ ~P[c].waits /\ P[c].player = protocol[c].player
          /\ P[c].released = protocol[c].released
          /\ \A d \in Connections : d # c => P[d] = protocol[d]
  <2> DEFINE Q == [protocol EXCEPT ![c].waits = FALSE]
             P == [Q EXCEPT ![c].eventConnect = NoBody]
  <2>1. /\ Q \in [Connections -> Protocols]
        /\ ~Q[c].waits /\ Q[c].player = protocol[c].player
        /\ Q[c].released = protocol[c].released
        /\ \A d \in Connections : d # c => Q[d] = protocol[d]
    BY <1>1 DEF Protocols
  <2> HIDE DEF Q
  <2>2. /\ P \in [Connections -> Protocols]
        /\ ~P[c].waits /\ P[c].player = protocol[c].player
        /\ P[c].released = protocol[c].released
        /\ \A d \in Connections : d # c => P[d] = protocol[d]
    BY <2>1 DEF Protocols
  <2> QED
    BY <2>2 DEF Q
<1>3. LET P == [protocol EXCEPT ![c] = [Attached(c, b) EXCEPT !.eventConnect = NoBody]]
      IN  /\ P \in [Connections -> Protocols]
          /\ ~P[c].waits /\ P[c].player = b
          /\ P[c].released = protocol[c].released
          /\ \A d \in Connections : d # c => P[d] = protocol[d]
  <2> DEFINE o == [protocol[c] EXCEPT !.waits = FALSE]
             p == [o EXCEPT !.player = b]
             q == [p EXCEPT !.acceptPackets = TRUE]
             r == [q EXCEPT !.buffered = TRUE]
             t == [r EXCEPT !.eventConnect = NoBody]
  <2>1. [Attached(c, b) EXCEPT !.eventConnect = NoBody] = t
    BY DEF Attached
  <2>2. o \in Protocols /\ ~o.waits /\ o.released = protocol[c].released
    BY <1>1 DEF Protocols
  <2> HIDE DEF o
  <2>3. p \in Protocols /\ ~p.waits /\ p.released = protocol[c].released /\ p.player = b
    BY <2>2 DEF Protocols
  <2> HIDE DEF p
  <2>4. q \in Protocols /\ ~q.waits /\ q.released = protocol[c].released /\ q.player = b
    BY <2>3 DEF Protocols
  <2> HIDE DEF q
  <2>5. r \in Protocols /\ ~r.waits /\ r.released = protocol[c].released /\ r.player = b
    BY <2>4 DEF Protocols
  <2> HIDE DEF r
  <2>6. t \in Protocols /\ ~t.waits /\ t.released = protocol[c].released /\ t.player = b
    BY <2>5 DEF Protocols
  <2> HIDE DEF t
  <2> QED
    BY <1>1, <2>1, <2>6
<1> QED
  BY <1>2, <1>3

(* ProtocolGame::connect, called by a login or by its event, keeps the     *)
(* invariant.                                                              *)
LEMMA ConnectInv ==
  ASSUME IInv, NEW c \in Connections, NEW b \in Bodies \union {NoBody}, NEW rest,
         Taken(rest), Entitled(c, rest), Connect(c, b, rest),
         \/ UNCHANGED <<autosend, sendAlls>>
         \/ rest # tasks /\ Head(tasks) = Task("login", c) /\ AddToAutosend(c),
         UNCHANGED leaving
  PROVE  IInv'
<1>1. /\ TypeOK /\ ReleasedOnce /\ BodiesHeld
      /\ body \in [Bodies -> PlayerObjects] /\ protocol \in [Connections -> Protocols]
      /\ leaving' \subseteq Bodies
  BY DEF IInv, TypeOK
<1>2. protocol[c].player = NoBody
  BY EntitledIsFree
<1>3. /\ autosend' \subseteq Connections /\ sendAlls' \in Nat
      /\ autosend' = autosend
         \/ (autosend' = autosend \union {c} /\ rest # tasks /\ Head(tasks) = Task("login", c))
  BY <1>1, Listed DEF TypeOK
<1>4. CASE /\ protocol' = [protocol EXCEPT ![c].waits = FALSE, ![c].eventConnect = NoBody]
           /\ UNCHANGED body
           /\ \/ DisconnectClient(c, rest)
              \/ tasks' = rest /\ UNCHANGED link
  <2>1. /\ protocol' \in [Connections -> Protocols]
        /\ ~protocol'[c].waits /\ protocol'[c].player = protocol[c].player
        /\ protocol'[c].released = protocol[c].released
        /\ \A d \in Connections : d # c => protocol'[d] = protocol[d]
    <3> DEFINE P == [protocol EXCEPT ![c].waits = FALSE, ![c].eventConnect = NoBody]
    <3>1. /\ P \in [Connections -> Protocols]
          /\ ~P[c].waits /\ P[c].player = protocol[c].player
          /\ P[c].released = protocol[c].released
          /\ \A d \in Connections : d # c => P[d] = protocol[d]
      BY <1>1, ConnectFields
    <3>2. protocol' = P
      BY <1>4
    <3> HIDE DEF P
    <3> QED
      BY <3>1, <3>2
  <2>2. QuietStep(c, rest) /\ LinksOK'
    <3>1. \A d \in Connections : protocol'[d].released = protocol[d].released
      BY <2>1
    <3> QED
      BY <1>1, <1>4, <3>1, SentQuiet, ClosedQuiet DEF DisconnectClient
  <2>3. BodiesHeld'
    BY <1>1, <1>4, <2>1 DEF BodiesHeld
  <2>4. body' \in [Bodies -> PlayerObjects]
    BY <1>1, <1>4
  <2>5. \A d \in Connections : protocol'[d].waits => protocol[d].waits /\ protocol'[d].player = NoBody
    BY <2>1 DEF IInv, LoggedInOnce
  <2> QED
    BY <1>1, <1>2, <1>3, <2>1, <2>2, <2>3, <2>4, <2>5, DispatcherInv
<1>5. CASE /\ ClientFree(b)
           /\ protocol' = [protocol EXCEPT ![c] = [Attached(c, b) EXCEPT !.eventConnect = NoBody]]
           /\ body' = [body EXCEPT ![b].refs = @ + 1, ![b].client = c, ![b].isConnecting = FALSE]
           /\ tasks' = rest
           /\ UNCHANGED link
  <2>1. b \in Bodies /\ body[b].client = NoConnection /\ body[b] \in PlayerObjects
    BY <1>1, <1>5 DEF ClientFree
  <2>2. /\ protocol' \in [Connections -> Protocols]
        /\ ~protocol'[c].waits /\ protocol'[c].player = b
        /\ protocol'[c].released = protocol[c].released
        /\ \A d \in Connections : d # c => protocol'[d] = protocol[d]
    <3> DEFINE P == [protocol EXCEPT ![c] = [Attached(c, b) EXCEPT !.eventConnect = NoBody]]
    <3>1. /\ P \in [Connections -> Protocols]
          /\ ~P[c].waits /\ P[c].player = b
          /\ P[c].released = protocol[c].released
          /\ \A d \in Connections : d # c => P[d] = protocol[d]
      BY <1>1, ConnectFields
    <3>2. protocol' = P
      BY <1>5
    <3> HIDE DEF P
    <3> QED
      BY <3>1, <3>2
  <2>3. /\ body' \in [Bodies -> PlayerObjects] /\ body'[b].client = c
        /\ body'[b].refs = body[b].refs + 1 /\ body'[b].placed = body[b].placed
        /\ \A x \in Bodies : x # b => body'[x] = body[x]
    <3> DEFINE n == body[b].refs + 1
               P == [body EXCEPT ![b].refs = n]
               Q == [P EXCEPT ![b].client = c]
    <3>1. body' = [Q EXCEPT ![b].isConnecting = FALSE]
      BY <1>5
    <3>2. n \in Nat
      BY <2>1 DEF PlayerObjects
    <3> HIDE DEF n
    <3>3. /\ P \in [Bodies -> PlayerObjects] /\ P[b].refs = n /\ P[b].placed = body[b].placed
          /\ \A x \in Bodies : x # b => P[x] = body[x]
      BY <1>1, <2>1, <3>2 DEF PlayerObjects
    <3> HIDE DEF P
    <3>4. /\ Q \in [Bodies -> PlayerObjects] /\ Q[b].refs = n /\ Q[b].placed = body[b].placed
          /\ Q[b].client = c
          /\ \A x \in Bodies : x # b => Q[x] = body[x]
      BY <2>1, <3>3 DEF PlayerObjects
    <3> HIDE DEF Q
    <3> QED
      BY <2>1, <3>1, <3>4 DEF PlayerObjects, n
  <2>4. BodiesHeld'
    <3>1. \A d \in Connections : d # c => protocol'[d].player = protocol[d].player
      BY <2>2
    <3> QED
      BY <1>1, <1>2, <2>1, <2>2, <2>3, <3>1, BodiesAttached
  <2>5. QuietStep(c, rest) /\ LinksOK'
    <3>1. \A d \in Connections : protocol'[d].released = protocol[d].released
      BY <2>2
    <3> QED
      BY <1>1, <1>5, <3>1, SentQuiet
  <2>6. \A d \in Connections : protocol'[d].waits => protocol[d].waits /\ protocol'[d].player = NoBody
    BY <2>2 DEF IInv, LoggedInOnce
  <2> QED
    BY <1>1, <1>3, <2>2, <2>3, <2>4, <2>5, <2>6, DispatcherInv
<1> QED
  BY <1>4, <1>5 DEF Connect

(* A login of somebody who is: refused, put off until his client is gone,  *)
(* or attached at once.                                                    *)
LEMMA LoginAgainInv ==
  ASSUME IInv, NEW c \in Connections, tasks # << >>, Head(tasks) = Task("login", c),
         LoginAgain(c, Tail(tasks))
  PROVE  IInv'
<1> DEFINE rest == Tail(tasks)
<1>1. /\ TypeOK /\ ReleasedOnce /\ BodiesHeld
      /\ body \in [Bodies -> PlayerObjects] /\ protocol \in [Connections -> Protocols]
      /\ tasks \in Seq(Jobs) /\ leaving \subseteq Bodies
      /\ autosend \subseteq Connections /\ sendAlls \in Nat
  BY DEF IInv, TypeOK, Jobs
<1>2. Taken(rest) /\ Entitled(c, rest) /\ rest # tasks
  <2>1. Len(Tail(tasks)) # Len(tasks)
    BY <1>1, HeadTailProperties, LenProperties
  <2> QED
    BY <2>1 DEF Taken, Entitled, Task
<1>3. protocol[c].player = NoBody
  BY <1>2, EntitledIsFree
<1>4. PICK b \in Bodies :
        \/ /\ DisconnectClient(c, rest)
           /\ UNCHANGED <<protocol, body, autosend, sendAlls, leaving>>
        \/ /\ body[b].client # NoConnection
           /\ CloseBy(body[b].client, link[body[b].client], FALSE, rest)
           /\ body' = [body EXCEPT ![b].isConnecting = TRUE]
           /\ protocol' = [protocol EXCEPT ![c].waits = TRUE, ![c].eventConnect = b]
           /\ AddToAutosend(c)
           /\ UNCHANGED leaving
        \/ /\ Connect(c, b, rest)
           /\ AddToAutosend(c)
           /\ UNCHANGED leaving
  BY DEF LoginAgain, Placed
<1> HIDE DEF rest
<1>5. CASE /\ DisconnectClient(c, rest)
           /\ UNCHANGED <<protocol, body, autosend, sendAlls, leaving>>
  <2>1. QuietStep(c, rest) /\ LinksOK'
    BY <1>1, <1>2, <1>5, ClosedQuiet DEF DisconnectClient
  <2> QED
    BY <1>1, <1>5, <2>1, QuietInv
<1>6. CASE /\ body[b].client # NoConnection
           /\ CloseBy(body[b].client, link[body[b].client], FALSE, rest)
           /\ body' = [body EXCEPT ![b].isConnecting = TRUE]
           /\ protocol' = [protocol EXCEPT ![c].waits = TRUE, ![c].eventConnect = b]
           /\ AddToAutosend(c)
           /\ UNCHANGED leaving
  <2>1. body[b].client \in Connections
    BY <1>1, <1>6 DEF PlayerObjects
  <2>2. /\ protocol' \in [Connections -> Protocols]
        /\ protocol'[c].player = protocol[c].player
        /\ protocol'[c].released = protocol[c].released
        /\ \A d \in Connections : d # c => protocol'[d] = protocol[d]
    <3> DEFINE P == [protocol EXCEPT ![c].waits = TRUE]
    <3>1. protocol' = [P EXCEPT ![c].eventConnect = b]
      BY <1>6
    <3>2. /\ P \in [Connections -> Protocols] /\ P[c].player = protocol[c].player
          /\ P[c].released = protocol[c].released
          /\ \A d \in Connections : d # c => P[d] = protocol[d]
      BY <1>1 DEF Protocols
    <3> HIDE DEF P
    <3> QED
      BY <3>1, <3>2 DEF Protocols
  <2>3. /\ body' \in [Bodies -> PlayerObjects]
        /\ \A x \in Bodies : /\ body'[x].refs = body[x].refs
                             /\ body'[x].client = body[x].client
                             /\ body'[x].placed = body[x].placed
    BY <1>1, <1>6 DEF PlayerObjects
  <2>4. BodiesHeld'
    BY <1>1, <1>6, <2>2, <2>3 DEF BodiesHeld
  <2>5. QuietStep(body[b].client, rest) /\ LinksOK'
    <3>1. \A d \in Connections : protocol'[d].released = protocol[d].released
      BY <2>2
    <3> QED
      BY <1>1, <1>2, <1>6, <2>1, <3>1, ClosedQuiet
  <2>6. autosend' = autosend \union {c} /\ autosend' \subseteq Connections /\ sendAlls' \in Nat
    BY <1>1, <1>6, Listed
  <2>7. \A d \in Connections :
          protocol'[d].waits => protocol[d].waits \/ d = c
    BY <2>2
  <2>8. \A d \in Connections : protocol'[d].waits => protocol'[d].player = NoBody
    BY <1>3, <2>2 DEF IInv, LoggedInOnce
  <2>9. Head(tasks) = Task("login", c) /\ leaving' \subseteq Bodies
    BY <1>1, <1>6
  <2>10. \A d \in Connections : protocol'[d].player # NoBody => protocol[d].player # NoBody
    BY <2>2
  <2> QED
    BY <1>2, <2>2, <2>3, <2>4, <2>5, <2>6, <2>7, <2>8, <2>9, <2>10, DispatcherInv
<1>7. CASE Connect(c, b, rest) /\ AddToAutosend(c) /\ UNCHANGED leaving
  BY <1>2, <1>7, ConnectInv
<1> QED
  BY <1>4, <1>5, <1>6, <1>7

(* A player leaves the game: his client is closed, or nobody is there.     *)
LEMMA RemovalInv ==
  ASSUME IInv, NEW c, NEW rest, QuietStep(c, rest), LinksOK',
         NEW b \in Bodies, body[b].placed, RemoveBody(b), UNCHANGED <<autosend, sendAlls>>
  PROVE  IInv'
<1>1. TypeOK /\ BodiesHeld
  BY DEF IInv
<1>2. /\ BodiesHeld' /\ protocol' \in [Connections -> Protocols]
      /\ body' \in [Bodies -> PlayerObjects] /\ leaving' \subseteq Bodies
      /\ \A d \in Connections :
           /\ protocol'[d].player = protocol[d].player
           /\ protocol'[d].waits = protocol[d].waits
  BY <1>1, BodyRemoved
<1>3. \A d \in Connections : protocol'[d].waits => protocol'[d].player = NoBody
  BY <1>2 DEF IInv, LoggedInOnce
<1>4. autosend' \subseteq Connections /\ sendAlls' \in Nat
  BY <1>1 DEF TypeOK
<1> QED
  BY <1>2, <1>3, <1>4, DispatcherInv

(* So does ProtocolGame::logout as a task of the dispatcher,               *)
LEMMA LogoutInv ==
  ASSUME IInv, NEW c \in Connections, tasks # << >>, Head(tasks) = Task("logout", c),
         Logout(c, Tail(tasks)), UNCHANGED <<autosend, sendAlls>>
  PROVE  IInv'
<1> DEFINE rest == Tail(tasks)
           b == protocol[c].player
<1>1. TypeOK /\ ReleasedOnce /\ b \in Bodies \union {NoBody} /\ sendAlls \in Nat
  BY DEF IInv, TypeOK, Protocols
<1>2. Taken(rest)
  BY DEF Taken, Task
<1>3. \/ /\ tasks' = rest
         /\ UNCHANGED <<link, protocol, body, leaving>>
      \/ /\ b # NoBody /\ body[b].placed
         /\ CloseBy(c, link[c], FALSE, rest)
         /\ RemoveBody(b)
      \/ /\ CloseBy(c, link[c], FALSE, rest)
         /\ UNCHANGED <<protocol, body, leaving>>
  BY DEF Logout
<1> HIDE DEF rest, b
<1>4. CASE /\ tasks' = rest
           /\ UNCHANGED <<link, protocol, body, leaving>>
  <2>1. QuietStep(c, rest) /\ LinksOK'
    BY <1>1, <1>2, <1>4, SentQuiet
  <2> QED
    BY <1>1, <1>4, <2>1, QuietInv
<1>5. CASE /\ b # NoBody /\ body[b].placed
           /\ CloseBy(c, link[c], FALSE, rest)
           /\ RemoveBody(b)
  <2>1. \A d \in Connections : protocol'[d].released = protocol[d].released
    BY <1>1, <1>5, BodyRemoved DEF IInv
  <2>2. QuietStep(c, rest) /\ LinksOK'
    BY <1>1, <1>2, <1>5, <2>1, ClosedQuiet
  <2> QED
    BY <1>1, <1>5, <2>2, RemovalInv
<1>6. CASE /\ CloseBy(c, link[c], FALSE, rest)
           /\ UNCHANGED <<protocol, body, leaving>>
  <2>1. QuietStep(c, rest) /\ LinksOK'
    BY <1>1, <1>2, <1>6, ClosedQuiet
  <2> QED
    BY <1>1, <1>6, <2>1, QuietInv
<1> QED
  BY <1>3, <1>4, <1>5, <1>6

(* release: what the connection held is given up, for good.                *)
LEMMA ReleaseInv ==
  ASSUME IInv, NEW c \in Connections, tasks # << >>, Head(tasks) = Task("release", c),
         Release(c, Tail(tasks))
  PROVE  IInv'
<1> DEFINE rest == Tail(tasks)
           b == protocol[c].player
<1>1. /\ TypeOK /\ ReleasedOnce /\ LoggedInOnce /\ BodiesHeld
      /\ body \in [Bodies -> PlayerObjects] /\ protocol \in [Connections -> Protocols]
      /\ tasks \in Seq(Jobs) /\ leaving \subseteq Bodies /\ autosend \subseteq Connections
      /\ b \in Bodies \union {NoBody}
  BY DEF IInv, TypeOK, Jobs, Protocols
<1>2. /\ tasks' = rest /\ UNCHANGED <<link, sendAlls, leaving>>
      /\ autosend' = autosend \ {c}
      /\ b \in Bodies => body[b].client = c
  BY <1>1, SessionAssumption DEF Release, BodiesHeld
<1>3. /\ rest \in Seq(Jobs) /\ In(Task("release", c), tasks) /\ ~In(Task("login", c), rest)
      /\ \A t : In(t, rest) => In(t, tasks)
      /\ \A t : In(t, tasks) => In(t, rest) \/ t = Task("release", c)
      /\ \A d \in Connections : LoginFirst(rest, d)
  <2>1. \A d \in Connections : LoginFirst(tasks, d)
    BY <1>1 DEF ReleasedOnce
  <2> QED
    BY <1>1, <2>1, Shrunk
<1>4. /\ protocol' \in [Connections -> Protocols]
      /\ protocol'[c].player = NoBody /\ protocol'[c].released
      /\ protocol'[c].waits = protocol[c].waits
      /\ \A d \in Connections : d # c => protocol'[d] = protocol[d]
  <2> DEFINE P == [protocol EXCEPT ![c].player = NoBody]
  <2>1. protocol' = [P EXCEPT ![c].released = TRUE]
    <3>1. (IF b # NoBody /\ body[b].client = c THEN NoBody ELSE b) = NoBody
      BY <1>1, <1>2
    <3> QED
      BY <3>1 DEF Release
  <2>2. /\ P \in [Connections -> Protocols] /\ P[c].player = NoBody
        /\ P[c].waits = protocol[c].waits
        /\ \A d \in Connections : d # c => P[d] = protocol[d]
    BY <1>1 DEF Protocols
  <2> HIDE DEF P
  <2> DEFINE r == [P[c] EXCEPT !.released = TRUE]
  <2>3. /\ r \in Protocols /\ r.player = NoBody /\ r.released
        /\ r.waits = protocol[c].waits
    BY <2>2 DEF Protocols
  <2>4. protocol' = [P EXCEPT ![c] = r]
    BY <2>1, <2>2
  <2> HIDE DEF r
  <2> QED
    BY <2>2, <2>3, <2>4
<1>5. body' \in [Bodies -> PlayerObjects] /\ BodiesHeld'
  <2>1. CASE b \notin Bodies
    <3>1. body' = body
      BY <1>1, <2>1 DEF Release
    <3> QED
      BY <1>1, <1>2, <1>4, <2>1, <3>1 DEF BodiesHeld
  <2>2. CASE b \in Bodies
    <3> DEFINE x == [body[b] EXCEPT !.client = NoConnection]
    <3>1. body' = [body EXCEPT ![b] = Dropped(x)]
      BY <1>2, <2>2, SessionAssumption DEF Release
    <3>2. /\ body[b] \in PlayerObjects /\ body[b].refs > 0
          /\ body[b].refs = 1 <=> ~(body[b].placed \/ b \in leaving)
      BY <1>1, <1>2, <2>2, SessionAssumption DEF BodiesHeld, PlayerObjects
    <3>3. /\ x \in PlayerObjects /\ x.refs = body[b].refs /\ x.client = NoConnection
          /\ x.placed = body[b].placed
      BY <3>2 DEF PlayerObjects
    <3> HIDE DEF x
    <3>4. /\ Dropped(x) \in PlayerObjects /\ Dropped(x).refs = body[b].refs - 1
          /\ Dropped(x).client = NoConnection
          /\ Dropped(x).placed = body[b].placed
      BY <3>2, <3>3, DroppedOne DEF PlayerObjects
    <3>5. /\ body' \in [Bodies -> PlayerObjects] /\ body'[b] = Dropped(x)
          /\ \A y \in Bodies : y # b => body'[y] = body[y]
      BY <1>1, <2>2, <3>1, <3>4
    <3>6. \A d \in Connections, y \in Bodies : body'[y].client = d <=> protocol'[d].player = y
      BY <1>1, <1>2, <1>4, <2>2, <3>4, <3>5, SessionAssumption DEF BodiesHeld
    <3>7. \A y \in Bodies \ {b} :
            /\ body'[y].refs = (IF body'[y].client = NoConnection THEN 0 ELSE 1)
                               + (IF body'[y].placed \/ y \in leaving' THEN 1 ELSE 0)
            /\ ~(body'[y].placed /\ y \in leaving')
      BY <1>1, <1>2, <3>5 DEF BodiesHeld
    <3>8. /\ body'[b].refs = (IF body'[b].client = NoConnection THEN 0 ELSE 1)
                             + (IF body'[b].placed \/ b \in leaving' THEN 1 ELSE 0)
          /\ ~(body'[b].placed /\ b \in leaving')
      <4>1. /\ body[b].refs = 1 + (IF body[b].placed \/ b \in leaving THEN 1 ELSE 0)
            /\ ~(body[b].placed /\ b \in leaving)
        BY <1>1, <1>2, <2>2, SessionAssumption DEF BodiesHeld
      <4>2. /\ body'[b].refs = (IF body[b].placed \/ b \in leaving THEN 1 ELSE 0)
            /\ body'[b].client = NoConnection /\ body'[b].placed = body[b].placed
            /\ leaving' = leaving
        BY <1>2, <3>4, <3>5, <4>1
      <4> HIDE DEF b
      <4> QED
        BY <4>1, <4>2
    <3>9. \A y, z \in Bodies : body'[y].placed /\ body'[z].placed => y = z
      BY <1>1, <3>4, <3>5 DEF BodiesHeld
    <3> QED
      BY <3>5, <3>6, <3>7, <3>8, <3>9 DEF BodiesHeld
  <2> QED
    BY <2>1, <2>2
<1>6. ReleasedOnce'
  <2>1. \A d, e : /\ Task("login", d) # Task("release", e)
                  /\ Task("release", d) = Task("release", e) <=> d = e
    BY DEF Task
  <2> QED
    BY <1>1, <1>2, <1>3, <1>4, <2>1 DEF ReleasedOnce
<1>7. LoggedInOnce'
  BY <1>1, <1>2, <1>3, <1>4 DEF LoggedInOnce
<1>8. TypeOK'
  BY <1>1, <1>2, <1>3, <1>4, <1>5 DEF TypeOK, Jobs
<1> QED
  BY <1>5, <1>6, <1>7, <1>8 DEF IInv

(* so does every other task,                                               *)
LEMMA RunInv ==
  ASSUME IInv, Run
  PROVE  IInv'
<1> DEFINE c == Head(tasks).conn
<1>1. tasks # << >> /\ c \in Connections /\ Head(tasks) = Task(Head(tasks).op, c)
  BY Shrunk DEF Run, IInv, TypeOK, Jobs
<1>2. CASE Head(tasks).op = "onConnect" /\ OnConnect(c, Tail(tasks))
  <2>1. Taken(Tail(tasks)) /\ TypeOK /\ sendAlls \in Nat
    BY <1>1, <1>2 DEF Taken, IInv, TypeOK
  <2>2. QuietStep(c, Tail(tasks)) /\ LinksOK'
    BY <1>2, <2>1, SentQuiet DEF OnConnect
  <2> QED
    BY <1>2, <2>1, <2>2, QuietInv DEF OnConnect
<1>3. CASE Head(tasks).op = "login" /\ (LoginNew(c, Tail(tasks)) \/ LoginAgain(c, Tail(tasks)))
  BY <1>1, <1>3, LoginNewInv, LoginAgainInv
<1>4. CASE Head(tasks).op = "logout" /\ Logout(c, Tail(tasks)) /\ UNCHANGED <<autosend, sendAlls>>
  BY <1>1, <1>4, LogoutInv
<1>5. CASE Head(tasks).op = "release" /\ Release(c, Tail(tasks))
  BY <1>1, <1>5, ReleaseInv
<1> QED
  BY <1>2, <1>3, <1>4, <1>5 DEF Run

-----------------------------------------------------------------------------
(* What the scheduler and the game bring about.                            *)

LEMMA ConnectEventInv ==
  ASSUME IInv, NEW c \in Connections, ConnectEvent(c)
  PROVE  IInv'
<1>1. protocol[c].eventConnect \in Bodies \union {NoBody}
  BY DEF IInv, TypeOK, Protocols
<1>2. Taken(tasks) /\ Entitled(c, tasks)
  BY DEF Taken, Entitled, ConnectEvent
<1> QED
  BY <1>1, <1>2, ConnectInv DEF ConnectEvent

(* Buffers are filled and sent: nobody comes or goes.                      *)
LEMMA BufferedInv ==
  ASSUME IInv, QuietStep(NoConnection, tasks), LinksOK',
         protocol' \in [Connections -> Protocols],
         \A d \in Connections :
           /\ protocol'[d].player = protocol[d].player
           /\ protocol'[d].waits = protocol[d].waits,
         UNCHANGED <<body, autosend, leaving>>, sendAlls' \in Nat
  PROVE  IInv'
<1>1. BodiesHeld'
  BY DEF IInv, BodiesHeld
<1>2. \A d \in Connections : protocol'[d].waits => protocol'[d].player = NoBody
  BY DEF IInv, LoggedInOnce
<1>3. /\ body' \in [Bodies -> PlayerObjects] /\ leaving' \subseteq Bodies
      /\ autosend' \subseteq Connections
  BY DEF IInv, TypeOK
<1> QED
  BY <1>1, <1>2, <1>3, DispatcherInv

(* and a message to the client that waits for the autosend.                *)
LEMMA UpdateInv ==
  ASSUME IInv, NEW b \in Bodies, Update(b)
  PROVE  IInv'
<1>1. TypeOK /\ protocol \in [Connections -> Protocols] /\ sendAlls \in Nat
  BY DEF IInv, TypeOK
<1>2. /\ protocol' = [protocol EXCEPT ![body[b].client].buffered = TRUE]
      /\ UNCHANGED <<link, body, tasks, autosend, sendAlls, leaving>>
  BY DEF Update
<1>3. /\ protocol' \in [Connections -> Protocols]
      /\ \A d \in Connections :
           /\ protocol'[d].player = protocol[d].player
           /\ protocol'[d].waits = protocol[d].waits
           /\ protocol'[d].released = protocol[d].released
  BY <1>1, <1>2, ZenonT(60) DEF Protocols
<1>4. QuietStep(NoConnection, tasks) /\ LinksOK'
  BY <1>1, <1>2, <1>3, SentQuiet DEF Taken
<1> QED
  BY <1>1, <1>2, <1>3, <1>4, BufferedInv

(* The autosend empties the buffers of the clients it lists.               *)
LEMMA SendAllInv ==
  ASSUME IInv, SendAll
  PROVE  IInv'
<1>1. /\ protocol \in [Connections -> Protocols] /\ link \in [Connections -> Links]
      /\ \A d \in Connections : OneWrite(link[d])
      /\ sendAlls \in Nat
  BY DEF IInv, TypeOK, OneWrite
<1>2. /\ sendAlls' \in Nat /\ UNCHANGED <<body, tasks, autosend, leaving>>
      /\ link' = [c \in Connections |->
                    IF c \in autosend /\ protocol[c].buffered THEN Sent(link[c]) ELSE link[c]]
      /\ protocol' = [c \in Connections |->
                        IF c \in autosend THEN [protocol[c] EXCEPT !.buffered = FALSE]
                                          ELSE protocol[c]]
  BY <1>1 DEF SendAll
<1>3. \A d \in Connections :
        /\ Sent(link[d]) \in Links /\ OneWrite(Sent(link[d]))
        /\ Sent(link[d]).state = link[d].state
        /\ Sent(link[d]).receivedFirst = link[d].receivedFirst
  BY <1>1, LinkOps
<1>4. \A d \in Connections :
        /\ [protocol[d] EXCEPT !.buffered = FALSE] \in Protocols
        /\ [protocol[d] EXCEPT !.buffered = FALSE].player = protocol[d].player
        /\ [protocol[d] EXCEPT !.buffered = FALSE].waits = protocol[d].waits
        /\ [protocol[d] EXCEPT !.buffered = FALSE].released = protocol[d].released
  BY <1>1 DEF Protocols
<1>5. /\ protocol' \in [Connections -> Protocols]
      /\ \A d \in Connections :
           /\ protocol'[d].player = protocol[d].player
           /\ protocol'[d].waits = protocol[d].waits
           /\ protocol'[d].released = protocol[d].released
  BY <1>1, <1>2, <1>4
<1>6. LinksOK' /\ \A d \in Connections :
                    /\ link'[d].state = link[d].state
                    /\ link'[d].receivedFirst = link[d].receivedFirst
  BY <1>1, <1>2, <1>3 DEF LinksOK
<1>7. QuietStep(NoConnection, tasks)
  BY <1>2, <1>5, <1>6 DEF QuietStep
<1> QED
  BY <1>2, <1>5, <1>6, <1>7, BufferedInv

(* A player whom the game logs out is removed and his connection closed.   *)
LEMMA LoggedOutInv ==
  ASSUME IInv, NEW b \in Bodies, LoggedOut(b)
  PROVE  IInv'
<1> DEFINE c == body[b].client
<1>1. TypeOK /\ ReleasedOnce /\ c \in Connections \union {NoConnection}
  BY DEF IInv, TypeOK, PlayerObjects
<1>2. /\ body[b].placed /\ RemoveBody(b) /\ UNCHANGED <<autosend, sendAlls>>
      /\ (tasks' = tasks /\ UNCHANGED link) \/ (c # NoConnection /\ CloseBy(c, link[c], FALSE, tasks))
  BY DEF LoggedOut, linkVars
<1>3. \A d \in Connections : protocol'[d].released = protocol[d].released
  BY <1>2, BodyRemoved DEF IInv
<1> HIDE DEF c
<1>4. QuietStep(c, tasks) /\ LinksOK'
  BY <1>1, <1>2, <1>3, SentQuiet, ClosedQuiet DEF Taken
<1> QED
  BY <1>2, <1>4, RemovalInv

(* A player who dies is removed; his connection stays.                     *)
LEMMA DieInv ==
  ASSUME IInv, NEW b \in Bodies, Die(b)
  PROVE  IInv'
<1>1. body[b].placed /\ RemoveBody(b) /\ UNCHANGED <<link, tasks, autosend, sendAlls>>
  BY DEF Die
<1>2. \A d \in Connections : protocol'[d].released = protocol[d].released
  BY <1>1, BodyRemoved DEF IInv
<1>3. QuietStep(NoConnection, tasks) /\ LinksOK'
  BY <1>1, <1>2, SentQuiet DEF IInv, Taken
<1> QED
  BY <1>1, <1>3, RemovalInv

(* cleanup gives up the references of those who have left.                 *)
LEMMA CleanupInv ==
  ASSUME IInv, Cleanup
  PROVE  IInv'
<1>1. /\ BodiesHeld /\ body \in [Bodies -> PlayerObjects] /\ leaving \subseteq Bodies
  BY DEF IInv, TypeOK
<1>2. /\ body' = [b \in Bodies |-> IF b \in leaving THEN Dropped(body[b]) ELSE body[b]]
      /\ leaving' = {} /\ UNCHANGED <<link, protocol, tasks, autosend, sendAlls>>
  BY DEF Cleanup
<1>3. ASSUME NEW b \in Bodies
      PROVE  /\ body'[b] \in PlayerObjects /\ body'[b].client = body[b].client
             /\ body'[b].placed = body[b].placed
             /\ body'[b].refs = (IF body'[b].client = NoConnection THEN 0 ELSE 1)
                                + (IF body'[b].placed THEN 1 ELSE 0)
  <2>1. /\ body[b] \in PlayerObjects /\ body[b].refs \in Nat
        /\ body[b].placed \in BOOLEAN
    BY <1>1 DEF PlayerObjects
  <2>2. CASE b \notin leaving
    <3>1. body'[b] = body[b]
      BY <1>2, <2>2
    <3> QED
      BY <1>1, <2>1, <2>2, <3>1 DEF BodiesHeld
  <2>3. CASE b \in leaving
    <3>1. /\ body'[b] = Dropped(body[b]) /\ ~body[b].placed
          /\ body[b].refs = (IF body[b].client = NoConnection THEN 0 ELSE 1) + 1
      BY <1>1, <1>2, <2>3 DEF BodiesHeld
    <3>2. body[b].refs > 0 /\ (body[b].refs = 1 <=> body[b].client = NoConnection)
      BY <3>1
    <3>3. /\ Dropped(body[b]) \in PlayerObjects /\ Dropped(body[b]).refs = body[b].refs - 1
          /\ body[b].refs # 1 => /\ Dropped(body[b]).client = body[b].client
                                 /\ Dropped(body[b]).placed = body[b].placed
          /\ body[b].refs = 1 => /\ Dropped(body[b]).client = NoConnection
                                 /\ ~Dropped(body[b]).placed
      BY <2>1, <3>2, DroppedOne
    <3>4. Dropped(body[b]).client = body[b].client
      BY <3>2, <3>3
    <3>5. Dropped(body[b]).placed = FALSE /\ body[b].placed = FALSE
      BY <2>1, <3>1, <3>3 DEF PlayerObjects
    <3>6. body[b].refs - 1 = (IF body[b].client = NoConnection THEN 0 ELSE 1)
      BY <3>1
    <3>7. body'[b].refs = (IF body'[b].client = NoConnection THEN 0 ELSE 1)
      BY <3>1, <3>3, <3>4, <3>6
    <3>8. ~body'[b].placed /\ body'[b].placed = body[b].placed
      BY <3>1, <3>5
    <3>9. /\ body'[b].refs = (IF body'[b].client = NoConnection THEN 0 ELSE 1) + 0
          /\ (IF body'[b].placed THEN 1 ELSE 0) = 0
      BY <3>7, <3>8
    <3> QED
      BY <3>1, <3>3, <3>4, <3>8, <3>9
  <2> QED
    BY <2>2, <2>3
<1>4. body' \in [Bodies -> PlayerObjects]
  BY <1>2, <1>3
<1>5. BodiesHeld'
  BY <1>1, <1>2, <1>3 DEF BodiesHeld
<1>6. ReleasedOnce' /\ LoggedInOnce'
  BY <1>2 DEF IInv, ReleasedOnce, LoggedInOnce
<1>7. TypeOK'
  BY <1>2, <1>4 DEF IInv, TypeOK
<1> QED
  BY <1>5, <1>6, <1>7 DEF IInv

(* Every step keeps the invariant.                                         *)
LEMMA NextIInv == IInv /\ [Next]_vars => IInv'
<1> SUFFICES ASSUME IInv, [Next]_vars
             PROVE  IInv'
  OBVIOUS
<1>1. CASE UNCHANGED vars
  BY <1>1 DEF vars, IInv, TypeOK, ReleasedOnce, LoggedInOnce, BodiesHeld
<1>2. ASSUME NEW c \in Connections, Io(c) \/ ConnectEvent(c)
      PROVE  IInv'
  BY <1>2, IoInv, ConnectEventInv
<1>3. ASSUME NEW b \in Bodies, Update(b) \/ Kick(b) \/ PingTimeout(b) \/ Die(b)
      PROVE  IInv'
  BY <1>3, UpdateInv, LoggedOutInv, DieInv DEF Kick, PingTimeout
<1> QED
  BY <1>1, <1>2, <1>3, RunInv, SendAllInv, CleanupInv DEF Next

(* The invariant holds in every state that the sessions of a character     *)
(* reach.                                                                  *)
THEOREM Invariance == Spec => []IInv
  BY InitIInv, NextIInv, PTL DEF Spec

(* The variables stay in their types, and a socket has never more than one *)
(* asynchronous write outstanding (Connection::send, onWriteOperation).    *)
THEOREM TypeCorrect == Spec => []TypeOK
<1>1. IInv => TypeOK
  BY DEF IInv
<1> QED
  BY <1>1, Invariance, PTL

(* Counting who holds an object.                                           *)
LEMMA CountAtMostOne ==
  /\ Cardinality({}) = 0
  /\ \A x : Cardinality({x}) = 1
  /\ \A S : (\A x, y \in S : x = y) => Cardinality(S) <= 1
<1>1. Cardinality({}) = 0
  BY FS_EmptySet
<1>2. \A x : Cardinality({x}) = 1
  BY FS_Singleton
<1>3. ASSUME NEW S, \A x, y \in S : x = y
      PROVE  Cardinality(S) <= 1
  <2>1. CASE S = {}
    BY <1>1, <2>1
  <2>2. CASE S # {}
    <3>1. PICK x : S = {x}
      BY <1>3, <2>2
    <3> QED
      BY <1>2, <3>1
  <2> QED
    BY <2>1, <2>2
<1> QED
  BY <1>1, <1>2, <1>3

(* One client for a character and one character in the game, reference     *)
(* counts that say who holds a player, and a release to come for every     *)
(* connection that holds one or is written to: whatever logs in, out, is   *)
(* kicked, replaced, dies or loses its connection meanwhile                *)
(* (ProtocolGame::login, connect, logout, release; Connection::close).     *)
THEOREM ClientsAlwaysConsistent == Spec => []ClientsConsistent
<1>1. ASSUME IInv
      PROVE  ClientsConsistent
  <2>1. OneClient
    <3>1. \A x, y \in Placed(body) : x = y
      BY <1>1 DEF IInv, BodiesHeld, Placed
    <3>2. \A c \in Connections, b \in Bodies : body[b].client = c <=> protocol[c].player = b
      BY <1>1 DEF IInv, BodiesHeld
    <3> QED
      BY <3>1, <3>2, CountAtMostOne DEF OneClient
  <2>2. RefsCounted
    <3> SUFFICES ASSUME NEW b \in Bodies
                 PROVE  Cardinality(HeldBy(b)) = IF body[b].client = NoConnection THEN 0 ELSE 1
      BY <1>1 DEF RefsCounted, IInv, BodiesHeld
    <3>1. body[b].client \in Connections \union {NoConnection}
      BY <1>1 DEF IInv, TypeOK, PlayerObjects
    <3>2. HeldBy(b) = {c \in Connections : body[b].client = c}
      BY <1>1 DEF HeldBy, IInv, BodiesHeld
    <3>3. CASE body[b].client = NoConnection
      <4>1. HeldBy(b) = {}
        BY <3>2, <3>3, SessionAssumption
      <4> QED
        BY <3>3, <4>1, CountAtMostOne
    <3>4. CASE body[b].client \in Connections
      <4>1. HeldBy(b) = {body[b].client}
        BY <3>2, <3>4
      <4> QED
        BY <3>4, <4>1, CountAtMostOne, SessionAssumption
    <3> QED
      BY <3>1, <3>3, <3>4
  <2>3. ReleaseWillCome
    <3> SUFFICES ASSUME NEW c \in Connections,
                        \/ protocol[c].player # NoBody /\ ~protocol[c].released
                        \/ c \in autosend
                 PROVE  IsOpen(c) \/ IsQueued("release", c)
      BY DEF ReleaseWillCome
    <3>1. link[c].receivedFirst /\ ~protocol[c].released
      BY <1>1 DEF IInv, LoggedInOnce
    <3>2. link[c].state \in {"new", "open", "closed"} /\ link[c].state # "new"
      BY <1>1, <3>1 DEF IInv, TypeOK, Links, ReleasedOnce
    <3>3. link[c].state = "closed" => In(Task("release", c), tasks)
      BY <1>1, <3>1 DEF IInv, ReleasedOnce
    <3> QED
      BY <3>2, <3>3 DEF IsOpen, IsQueued, In
  <2> QED
    BY <2>1, <2>2, <2>3 DEF ClientsConsistent
<1> QED
  BY <1>1, Invariance, PTL
=============================================================================
