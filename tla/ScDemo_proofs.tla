---------------------------- MODULE ScDemo_proofs ----------------------------
(***************************************************************************)
(* The demo, for any number of shells, commands and starts.                *)
(*                                                                         *)
(* The life of its task: if only one shell starts the demo, there is one   *)
(* demo task at most, and a pid that is shown is that of a task that runs. *)
(* o is the shell that starts the demo. Between task_create() and the      *)
(* assignment of g_demo_pid a task is known to its command alone.          *)
(*                                                                         *)
(* The face: where each fill lies on the panel, that nothing but such      *)
(* fills is ever queued, and that the panel comes to show the expression   *)
(* last asked for, unless an order to draw it is on its way.               *)
(***************************************************************************)
EXTENDS ScDemo, WellFoundedInduction, SequenceTheorems, TLAPS

\* The pid that the starting shell has still to note, as a set.
Unnoted(o) == IF shell[o].pc = "note" THEN {shell[o].arg} ELSE {}

Types ==
  /\ task \in [Pid -> [pc : TaskPc, talk_open : BOOLEAN]]
  /\ shell \in [Shell -> [pc : ShellPc, arg : Int]]
  /\ g_demo_pid \in Pid \cup {NoPid}
  /\ g_expr \in Int

\* The other shells are never in start.
OthersDoNotStart(o) ==
  \A s \in Shell : shell[s].pc \in {"start", "create", "note"} => s = o

\* start goes past its test of g_demo_pid only when no task is named, and none
\* is named until it notes its own.
StartSeesNone(o) == shell[o].pc \in {"create", "note"} => g_demo_pid = NoPid

Known(o) ==
  /\ \A t \in Live : g_demo_pid = t \/ t \in Unnoted(o)
  /\ \A t \in Unnoted(o) : t \in Pid /\ t \in Live \cup unnamed

IInv(o) ==
  /\ Types
  /\ OthersDoNotStart(o)
  /\ StartSeesNone(o)
  /\ Known(o)
  /\ NamedTaskLives

USE DEF TaskPc, ShellPc

-----------------------------------------------------------------------------

\* -1 is no pid.
LEMMA NoPidIsNone == NoPid \notin Pid
BY DEF NoPid, Pid

\* A step that changes no life of a task and no command that starts one.
Calm(o) ==
  /\ task' \in [Pid -> [pc : TaskPc, talk_open : BOOLEAN]]
  /\ Live' = Live
  /\ \A s \in Shell : shell'[s].pc \in {"create", "note"} => shell'[s] = shell[s]
  /\ \A s \in Shell : shell'[s].pc = "start" => s = o
  /\ shell[o].pc = "note" => shell'[o] = shell[o]
  /\ shell' \in [Shell -> [pc : ShellPc, arg : Int]]
  /\ g_expr' \in Int
  /\ UNCHANGED <<g_demo_pid, unnamed>>

\* Such a step keeps the invariant.
LEMMA CalmInv ==
  ASSUME NEW o \in Shell, IInv(o), Calm(o)
  PROVE  IInv(o)'
<1>1. Types'
  BY DEF IInv, Types, Calm
<1>2. OthersDoNotStart(o)'
  BY DEF IInv, OthersDoNotStart, Calm
<1>3. StartSeesNone(o)'
  BY DEF IInv, StartSeesNone, Calm
<1>4. Unnoted(o)' = Unnoted(o)
  BY DEF Unnoted, Calm
<1>5. Known(o)'
  BY <1>4 DEF IInv, Known, Calm
<1>6. NamedTaskLives'
  BY DEF IInv, NamedTaskLives, Calm
<1> QED BY <1>1, <1>2, <1>3, <1>5, <1>6 DEF IInv

\* A task that goes on stays alive.
LEMMA TaskGoesCalm ==
  ASSUME NEW o \in Shell, IInv(o), NEW t \in Live, NEW pc \in TaskPc, NEW open \in BOOLEAN,
         pc \notin {"none", "ended"},
         \/ Goes(t, pc)
         \/ task' = [task EXCEPT ![t].talk_open = open, ![t].pc = pc],
         UNCHANGED <<g_demo_pid, g_expr, shell, unnamed>>
  PROVE  Calm(o)
<1>1. t \in Pid
  BY DEF Live
<1>2. task' \in [Pid -> [pc : TaskPc, talk_open : BOOLEAN]]
  BY <1>1 DEF IInv, Types, Goes
<1>3. \A u \in Pid : task'[u].pc = IF u = t THEN pc ELSE task[u].pc
  BY <1>1 DEF IInv, Types, Goes
<1>4. Live' = Live
  BY <1>1, <1>3 DEF Live
<1>5. shell \in [Shell -> [pc : ShellPc, arg : Int]]
  BY DEF IInv, Types
<1>6. \A s \in Shell : shell[s].pc = "start" => s = o
  BY DEF IInv, OthersDoNotStart
<1>7. g_expr' \in Int
  BY DEF IInv, Types
<1> QED BY <1>2, <1>4, <1>5, <1>6, <1>7 DEF Calm

\* A command that goes on to a step which starts nothing.
LEMMA ShellGoesCalm ==
  ASSUME NEW o \in Shell, IInv(o), NEW s \in Shell, NEW pc \in ShellPc, NEW arg \in Int,
         pc \notin {"create", "note"}, pc = "start" => s = o,
         shell[s].pc # "note",
         ShellGoes(s, pc, arg),
         UNCHANGED <<g_demo_pid, task, unnamed>>, g_expr' \in Int
  PROVE  Calm(o)
<1> USE DEF ShellGoes
<1>1. shell' \in [Shell -> [pc : ShellPc, arg : Int]]
  BY DEF IInv, Types
<1>2. \A r \in Shell : shell'[r] = IF r = s THEN [pc |-> pc, arg |-> arg] ELSE shell[r]
  BY DEF IInv, Types
<1>3. \A r \in Shell : shell'[r].pc \in {"create", "note"} => shell'[r] = shell[r]
  BY <1>2
<1>4. \A r \in Shell : shell'[r].pc = "start" => r = o
  BY <1>2 DEF IInv, OthersDoNotStart
<1>5. shell[o].pc = "note" => shell'[o] = shell[o]
  BY <1>2
<1>6. Live' = Live /\ task' \in [Pid -> [pc : TaskPc, talk_open : BOOLEAN]]
  BY DEF Live, IInv, Types
<1> QED BY <1>1, <1>3, <1>4, <1>5, <1>6 DEF Calm

\* What changes neither tasks nor commands.
LEMMA NothingCalm ==
  ASSUME NEW o \in Shell, IInv(o), UNCHANGED <<g_demo_pid, g_expr, task, shell, unnamed>>
  PROVE  Calm(o)
BY DEF IInv, Types, OthersDoNotStart, Calm, Live

-----------------------------------------------------------------------------

\* At boot nothing runs and nothing is named.
LEMMA InitInv ==
  ASSUME NEW o \in Shell, Init
  PROVE  IInv(o)
<1> USE DEF Init, Idle, NEUTRAL
<1>1. Types
  BY DEF Types
<1>2. Live = {}
  BY DEF Live
<1> QED
  BY <1>1, <1>2
  DEF IInv, OthersDoNotStart, StartSeesNone, Known, NamedTaskLives, Unnoted

\* A task that ends is the one that is named, or the one that start has still
\* to name.
LEMMA EndsInv ==
  ASSUME NEW o \in Shell, IInv(o), NEW t \in Live, Ends(t)
  PROVE  IInv(o)'
<1> USE DEF Ends
<1>1. t \in Pid
  BY DEF Live
<1>2. \A u \in Pid : task'[u].pc = IF u = t THEN "ended" ELSE task[u].pc
  BY <1>1 DEF IInv, Types
<1>3. Types'
  BY <1>1 DEF IInv, Types
<1>4. Live' = Live \ {t}
  BY <1>1, <1>2 DEF Live
<1>5. Unnoted(o)' = Unnoted(o)
  BY DEF Unnoted
<1>6. \A u \in Live : u = t
  BY NoPidIsNone, <1>1 DEF IInv, Known, StartSeesNone, Unnoted, Live
<1>7. Known(o)'
  <2>1. \A u \in Unnoted(o) : g_demo_pid # u
    BY NoPidIsNone DEF IInv, Known, StartSeesNone, Unnoted
  <2> QED BY <1>4, <1>5, <1>6, <2>1 DEF IInv, Known
<1>8. OthersDoNotStart(o)' /\ StartSeesNone(o)' /\ NamedTaskLives'
  BY DEF IInv, OthersDoNotStart, StartSeesNone, NamedTaskLives
<1> QED BY <1>3, <1>7, <1>8 DEF IInv

\* Every step of the demo task keeps it.
LEMMA TaskInv ==
  ASSUME NEW o \in Shell, IInv(o), NEW t \in Pid, TaskStep(t)
  PROVE  IInv(o)'
<1> USE DEF At, globals
<1>1. CASE TaskBegin(t)
  <2>1. t \in Live
    BY <1>1 DEF TaskBegin, Live
  <2>2. CASE Ends(t)
    BY <2>1, <2>2, EndsInv
  <2>3. CASE Goes(t, "power") /\ UNCHANGED <<globals, screen, shell, commands, unnamed>>
    BY <2>1, <2>3, TaskGoesCalm, CalmInv
  <2> QED BY <1>1, <2>2, <2>3 DEF TaskBegin
<1>2. CASE TaskPower(t)
  <2>1. t \in Live BY <1>2 DEF TaskPower, Live
  <2> QED BY <1>2, <2>1, TaskGoesCalm, CalmInv DEF TaskPower
<1>3. CASE TaskTick(t)
  <2>1. t \in Live BY <1>3 DEF TaskTick, Live
  <2> QED BY <1>3, <2>1, TaskGoesCalm, CalmInv DEF TaskTick
<1>4. CASE TaskTalk(t)
  <2>1. t \in Live BY <1>4 DEF TaskTalk, Live
  <2>2. PICK open \in BOOLEAN :
          task' = [task EXCEPT ![t].talk_open = open, ![t].pc = "redraw"]
    BY <1>4 DEF TaskTalk
  <2>3. UNCHANGED <<g_demo_pid, g_expr, shell, unnamed>>
    BY <1>4 DEF TaskTalk
  <2> QED BY <2>1, <2>2, <2>3, TaskGoesCalm, CalmInv
<1>5. CASE TaskRedraw(t)
  <2>1. t \in Live BY <1>5 DEF TaskRedraw, Live
  <2> QED BY <1>5, <2>1, TaskGoesCalm, CalmInv DEF TaskRedraw
<1>6. CASE TaskExpr(t)
  <2>1. t \in Live BY <1>6 DEF TaskExpr, Live
  <2> QED BY <1>6, <2>1, TaskGoesCalm, CalmInv DEF TaskExpr
<1>7. CASE TaskBlink(t)
  <2>1. t \in Live BY <1>7 DEF TaskBlink, Live
  <2> QED BY <1>7, <2>1, TaskGoesCalm, CalmInv DEF TaskBlink
<1>8. CASE TaskLook(t)
  <2>1. t \in Live BY <1>8 DEF TaskLook, Live
  <2> QED BY <1>8, <2>1, TaskGoesCalm, CalmInv DEF TaskLook
<1>9. CASE TaskRest(t)
  <2>1. t \in Live BY <1>9 DEF TaskRest, Live
  <2> QED BY <1>9, <2>1, EndsInv DEF TaskRest
<1> QED BY <1>1, <1>2, <1>3, <1>4, <1>5, <1>6, <1>7, <1>8, <1>9 DEF TaskStep

\* start tests g_demo_pid, creates the task and notes its pid; every other
\* command leaves the tasks and their names alone.
LEMMA ShellInv ==
  ASSUME NEW o \in Shell, OnlyStarter(o), IInv(o), NEW s \in Shell,
         Enter(s) \/ ShellStep(s) \/ SayEnds(s) \/ SayMoves(s)
  PROVE  IInv(o)'
<1> USE DEF ShellAt, globals
<1>0. shell[s].arg \in Int /\ g_expr \in Int
  BY DEF IInv, Types
<1>e. ShellEnds(s) => ShellGoes(s, "idle", 0)
  BY DEF ShellEnds, ShellGoes, Idle
<1>1. CASE Enter(s)
  <2>1. PICK c \in Commands[s], e \in AskedFaces :
          ShellGoes(s, c, IF c = "face" THEN e ELSE 0)
    BY <1>1 DEF Enter
  <2>2. c \in {"start", "stop", "face", "say", "blink"} /\ (c = "start" => s = o)
    BY DemoAssumption DEF OnlyStarter
  <2>3. e \in Int
    BY <1>0, DemoAssumption DEF AskedFaces, Expressions
  <2>4. (IF c = "face" THEN e ELSE 0) \in Int
    BY <2>3
  <2>5. shell[s].pc # "note" /\ g_expr' \in Int /\ UNCHANGED <<g_demo_pid, task, unnamed>>
    BY <1>0, <1>1 DEF Enter
  <2>6. Calm(o)
    BY <2>1, <2>2, <2>4, <2>5, ShellGoesCalm
  <2> QED BY <2>6, CalmInv
<1>2. CASE Start(s)
  <2>1. s = o
    BY <1>2 DEF Start, IInv, OthersDoNotStart
  <2>2. CASE g_demo_pid >= 0
    BY <1>0, <1>e, <1>2, <2>2, ShellGoesCalm, CalmInv DEF Start
  <2>3. CASE ~(g_demo_pid >= 0)
    <3>1. g_demo_pid = NoPid
      BY <2>3 DEF IInv, Types, Pid, NoPid
    <3>2. shell' = [shell EXCEPT ![s] = [pc |-> "create", arg |-> 0]]
          /\ UNCHANGED <<g_demo_pid, g_expr, task, unnamed>> /\ shell[o].pc = "start"
      BY <1>2, <2>1, <2>3 DEF Start, ShellGoes
    <3>3. \A r \in Shell : shell'[r] = IF r = o THEN [pc |-> "create", arg |-> 0] ELSE shell[r]
      BY <2>1, <3>2 DEF IInv, Types
    <3>4. Types'
      BY <3>2 DEF IInv, Types
    <3>5. OthersDoNotStart(o)' /\ StartSeesNone(o)'
      BY <3>1, <3>2, <3>3 DEF IInv, OthersDoNotStart, StartSeesNone
    <3>6. Known(o)' /\ NamedTaskLives'
      BY <3>2, <3>3 DEF IInv, Known, Unnoted, Live, NamedTaskLives
    <3> QED BY <3>4, <3>5, <3>6 DEF IInv
  <2> QED BY <2>2, <2>3
<1>3. CASE Create(s)
  <2>1. s = o /\ shell[o].pc = "create"
    BY <1>3 DEF Create, IInv, OthersDoNotStart
  <2>2. g_demo_pid = NoPid /\ Live = {}
    BY <2>1, NoPidIsNone DEF IInv, StartSeesNone, Known, Unnoted, Live
  <2>3. CASE ShellEnds(s) /\ UNCHANGED task
    <3>1. UNCHANGED <<g_demo_pid, task, unnamed>> /\ g_expr' \in Int
      BY <1>0, <1>3, <2>3 DEF Create
    <3> QED BY <1>e, <2>1, <2>3, <3>1, ShellGoesCalm, CalmInv
  <2>4. CASE task' = [task EXCEPT ![NextPid].pc = "begin"] /\ ShellGoes(s, "note", NextPid)
    <3>1. NextPid \in Pid
      BY <1>3 DEF Create, NextPid
    <3>2. NextPid \in Int
      BY <3>1, DemoAssumption DEF Pid
    <3> DEFINE n == NextPid
    <3>3. UNCHANGED <<g_demo_pid, g_expr, unnamed>>
      BY <1>3 DEF Create
    <3>4. task' = [task EXCEPT ![n].pc = "begin"]
          /\ shell' = [shell EXCEPT ![o] = [pc |-> "note", arg |-> n]]
      BY <2>1, <2>4 DEF ShellGoes
    <3>5. n \in Pid /\ n \in Int
      BY <3>1, <3>2
    <3> HIDE DEF n
    <3>6. \A r \in Shell : shell'[r] = IF r = o THEN [pc |-> "note", arg |-> n] ELSE shell[r]
      BY <3>4 DEF IInv, Types
    <3>7. \A u \in Pid : task'[u].pc = IF u = n THEN "begin" ELSE task[u].pc
      BY <3>4, <3>5 DEF IInv, Types
    <3>8. Live' = {n}
      BY <2>2, <3>5, <3>7 DEF Live
    <3>9. Types'
      BY <3>3, <3>4, <3>5 DEF IInv, Types
    <3>10. OthersDoNotStart(o)' /\ StartSeesNone(o)'
      BY <2>2, <3>3, <3>6 DEF IInv, OthersDoNotStart, StartSeesNone
    <3>11. Unnoted(o)' = {n}
      BY <3>6 DEF Unnoted
    <3>12. Known(o)'
      BY <3>5, <3>8, <3>11 DEF Known
    <3>13. NamedTaskLives'
      BY <2>2, <3>3 DEF NamedTaskLives, NoPid
    <3> QED BY <3>9, <3>10, <3>12, <3>13 DEF IInv
  <2> QED BY <1>3, <2>3, <2>4 DEF Create
<1>4. CASE NotePid(s)
  <2>1. s = o /\ shell[o].pc = "note"
    BY <1>4 DEF NotePid, IInv, OthersDoNotStart
  <2> DEFINE n == shell[o].arg
  <2>2. n \in Pid /\ n \in Live \cup unnamed /\ (\A t \in Live : t = n)
    BY <2>1, NoPidIsNone DEF IInv, Known, Unnoted, StartSeesNone, Live
  <2>3. g_demo_pid' = n /\ UNCHANGED <<g_expr, task, unnamed>>
        /\ shell' = [shell EXCEPT ![o] = [pc |-> "idle", arg |-> 0]]
    BY <1>4, <2>1 DEF NotePid, ShellEnds, Idle
  <2> HIDE DEF n
  <2>4. \A r \in Shell : shell'[r] = IF r = o THEN [pc |-> "idle", arg |-> 0] ELSE shell[r]
    BY <2>3 DEF IInv, Types
  <2>5. Types'
    BY <2>2, <2>3 DEF IInv, Types
  <2>6. OthersDoNotStart(o)' /\ StartSeesNone(o)'
    BY <2>4 DEF IInv, OthersDoNotStart, StartSeesNone
  <2>7. Unnoted(o)' = {} /\ Live' = Live
    BY <2>3, <2>4 DEF Unnoted, Live
  <2>8. Known(o)' /\ NamedTaskLives'
    BY <2>2, <2>3, <2>7 DEF Known, NamedTaskLives
  <2> QED BY <2>5, <2>6, <2>8 DEF IInv
<1>5. CASE Stop(s)
  BY <1>0, <1>e, <1>5, ShellGoesCalm, CalmInv DEF Stop
<1>6. CASE Face(s)
  <2>1. PICK pc \in {"ask", "draw"} : ShellGoes(s, pc, shell[s].arg)
    BY <1>6 DEF Face
  <2>2. shell[s].pc # "note" /\ UNCHANGED <<g_demo_pid, task, unnamed>> /\ g_expr' \in Int
    BY <1>0, <1>6 DEF Face
  <2> QED BY <1>0, <2>1, <2>2, ShellGoesCalm, CalmInv
<1>7. CASE FaceAsk(s)
  BY <1>0, <1>e, <1>7, ShellGoesCalm, CalmInv DEF FaceAsk
<1>8. CASE FaceFlag(s)
  BY <1>0, <1>e, <1>8, ShellGoesCalm, CalmInv DEF FaceFlag
<1>9. CASE FaceDraw(s)
  BY <1>0, <1>e, <1>9, ShellGoesCalm, CalmInv DEF FaceDraw
<1>10. CASE Say(s)
  <2>1. PICK pc \in {"idle", "playing", "moving"} : ShellGoes(s, pc, 0)
    BY <1>e, <1>10 DEF Say
  <2>2. shell[s].pc # "note" /\ UNCHANGED <<g_demo_pid, task, unnamed>> /\ g_expr' \in Int
    BY <1>0, <1>10 DEF Say
  <2> QED BY <2>1, <2>2, ShellGoesCalm, CalmInv
<1>11. CASE BlinkOnce(s)
  BY <1>0, <1>e, <1>11, ShellGoesCalm, CalmInv DEF BlinkOnce
<1>12. CASE SayEnds(s)
  BY <1>0, <1>e, <1>12, ShellGoesCalm, CalmInv DEF SayEnds
<1>13. CASE SayMoves(s)
  <2>1. UNCHANGED <<g_demo_pid, g_expr, task, unnamed>> /\ shell[s].pc # "note"
    BY <1>13 DEF SayMoves
  <2>2. CASE UNCHANGED shell
    BY <2>1, <2>2, NothingCalm, CalmInv
  <2>3. CASE ShellEnds(s)
    BY <1>0, <1>e, <2>1, <2>3, ShellGoesCalm, CalmInv
  <2> QED BY <1>13, <2>2, <2>3 DEF SayMoves
<1> QED
  BY <1>1, <1>2, <1>3, <1>4, <1>5, <1>6, <1>7, <1>8, <1>9, <1>10, <1>11, <1>12, <1>13
  DEF ShellStep

\* So it holds in every state.
LEMMA Invariant ==
  ASSUME NEW o \in Shell, OnlyStarter(o)
  PROVE  Spec => []IInv(o)
<1>1. Init => IInv(o)
  BY InitInv
<1>2. IInv(o) /\ [Next]_vars => IInv(o)'
  <2> SUFFICES ASSUME IInv(o), [Next]_vars PROVE IInv(o)'
    OBVIOUS
  <2>1. CASE \E a \in Actor : lcd_fill(a)
    BY <2>1, NothingCalm, CalmInv DEF lcd_fill, globals
  <2>2. CASE \E t \in Pid : TaskStep(t)
    BY <2>2, TaskInv
  <2>3. CASE \E s \in Shell : Enter(s) \/ ShellStep(s) \/ SayEnds(s) \/ SayMoves(s)
    BY <2>3, ShellInv
  <2>4. CASE UNCHANGED vars
    BY <2>4, NothingCalm, CalmInv DEF vars, globals
  <2> QED BY <2>1, <2>2, <2>3, <2>4 DEF Next
<1> QED BY <1>1, <1>2, PTL DEF Spec

-----------------------------------------------------------------------------

\* If one shell alone starts the demo, two demo tasks never run at once: start
\* tests the pid that a task gives up with its last step, not the flag that
\* stop clears.
THEOREM OneTask ==
  ASSUME NEW o \in Shell, OnlyStarter(o)
  PROVE  Spec => []AtMostOneTask
<1>1. IInv(o) => AtMostOneTask
  BY NoPidIsNone DEF IInv, Known, StartSeesNone, Unnoted, Live, AtMostOneTask
<1> QED BY <1>1, Invariant, PTL

\* If one shell alone starts the demo, what "status" reports as running runs,
\* or ended before start had noted its pid.
THEOREM StatusIsTrue ==
  ASSUME NEW o \in Shell, OnlyStarter(o)
  PROVE  Spec => []NamedTaskLives
<1>1. IInv(o) => NamedTaskLives
  BY DEF IInv
<1> QED BY <1>1, Invariant, PTL

-----------------------------------------------------------------------------
(* Where the fills of the face lie on the panel.                           *)

\* A set of numbers that is not empty has a least one.
LEMMA LeastNat ==
  ASSUME NEW T \in SUBSET Nat, T # {}
  PROVE  \E n \in T : \A m \in T : n <= m
<1>1. \E n \in T : \A m \in T : <<m, n>> \notin OpToRel(<, Nat)
  BY WFMin, NatLessThanWellFounded, Zenon
<1>2. \E n \in T : \A m \in T : ~(m < n)
  BY <1>1, Zenon DEF OpToRel
<1> QED BY <1>2

\* The first number that is too large for a row of the circle comes after one
\* that is not.
LEMMA HalfWidthTypes ==
  ASSUME NEW r \in Nat, NEW dy \in -r .. r
  PROVE  HalfWidth(r, dy) \in 0 .. r
<1> PICK q \in Int, d \in Int : q = r * r /\ d = dy * dy
  OBVIOUS
<1>1. d <= q /\ 0 <= d
  <2>1. CASE dy >= 0
    <3>1. dy * dy <= dy * r /\ dy * r <= r * r /\ 0 <= dy * dy
      BY <2>1
    <3> QED BY <3>1
  <2>2. CASE dy < 0
    <3>1. PICK m \in 0 .. r : m = -dy
      BY <2>2
    <3>2. m * m <= m * r /\ m * r <= r * r /\ 0 <= m * m /\ m * m = dy * dy
      BY <3>1
    <3> QED BY <3>2
  <2> QED BY <2>1, <2>2
<1> DEFINE T == {n \in Nat : n * n + d > q}
<1>2. r + 1 \in T
  <2>1. (r + 1) * (r + 1) = r * r + 2 * r + 1
    OBVIOUS
  <2> QED BY <1>1, <2>1
<1>3. PICK n \in T : \A m \in T : n <= m
  <2>1. T \in SUBSET Nat /\ T # {}
    BY <1>2
  <2> HIDE DEF T
  <2> QED BY <2>1, LeastNat
<1>4. n # 0
  BY <1>1, <1>3
<1>5. n - 1 \in Nat /\ n - 1 \notin T /\ n <= r + 1
  BY <1>2, <1>3, <1>4
<1>6. PICK dx \in 0 .. r : dx = n - 1 /\ dx + 1 = n
  BY <1>5
<1>7. dx * dx + d <= q /\ (dx + 1) * (dx + 1) + d > q
  BY <1>3, <1>5, <1>6
<1>8. \E x \in 0 .. r : x * x + dy * dy <= r * r /\ (x + 1) * (x + 1) + dy * dy > r * r
  BY <1>7
<1> QED BY <1>8 DEF HalfWidth

Within(r, x1, y1, x2, y2) ==
  /\ r.x \in Int /\ r.y \in Int /\ r.w \in Nat /\ r.h \in Nat
  /\ x1 <= r.x /\ r.x + r.w <= x2
  /\ y1 <= r.y /\ r.y + r.h <= y2

\* A rectangle, if it is not empty, lies where its arguments say.
LEMMA RectWithin ==
  ASSUME NEW x \in Int, NEW y \in Int, NEW w \in Int, NEW h \in Int, NEW r \in Rect(x, y, w, h)
  PROVE  Within(r, x, y, x + w, y + h) /\ w > 0
<1>1. w > 0 /\ h > 0 /\ r = [x |-> x, y |-> y, w |-> w, h |-> h]
  BY DEF Rect
<1>2. r.x = x /\ r.y = y /\ r.w = w /\ r.h = h
  BY <1>1
<1> QED BY <1>1, <1>2 DEF Within

\* The rows of a circle lie in the square around it.
LEMMA CircleWithin ==
  ASSUME NEW cx \in Int, NEW cy \in Int, NEW r \in Nat, NEW c \in lcd_circle(cx, cy, r)
  PROVE  Within(c, cx - r, cy - r, cx + r + 1, cy + r + 1)
<1>1. PICK dy \in -r .. r :
         c \in Rect(cx - HalfWidth(r, dy), cy + dy, 2 * HalfWidth(r, dy) + 1, 1)
  BY DEF lcd_circle
<1>2. PICK dx \in 0 .. r : dx = HalfWidth(r, dy)
  BY HalfWidthTypes
<1>3. c \in Rect(cx - dx, cy + dy, 2 * dx + 1, 1)
  BY <1>1, <1>2
<1>4. Within(c, cx - dx, cy + dy, cx - dx + (2 * dx + 1), cy + dy + 1)
  BY <1>3, RectWithin
<1> QED BY <1>4 DEF Within

Sizes == /\ LCD_W = 320 /\ LCD_H = 240 /\ EYE_R = 16 /\ EYE_LX = 96 /\ EYE_RX = 224 /\ EYE_Y = 100
         /\ MOUTH_W = 90 /\ MOUTH_H = 8 /\ MOUTH_Y = 168 /\ EYE_BOX = 28 /\ LCD_CHUNK = 2048
\* The numbers of stackchan_main.c.
LEMMA SizesAre == Sizes
BY DEF Sizes, LCD_W, LCD_H, EYE_R, EYE_LX, EYE_RX, EYE_Y, MOUTH_W, MOUTH_H, MOUTH_Y, EYE_BOX,
       LCD_CHUNK

InEye(r, cx) == Within(r, cx - 28, 72, cx + 29, 129)

\* The white part of an eye lies in the box of that eye,
LEMMA EyeWhite ==
  ASSUME NEW cx \in Int, NEW l, NEW r \in face_eye_white(cx, l)
  PROVE  InEye(r, cx)
<1> USE SizesAre DEF Sizes
<1>1. CASE r \in Rect(cx - EYE_R, EYE_Y - 3, 2 * EYE_R + 1, 6)
  <2>1. r \in Rect(cx - 16, 97, 33, 6)
    BY <1>1
  <2>2. Within(r, cx - 16, 97, cx - 16 + 33, 97 + 6)
    BY <2>1, RectWithin
  <2> QED BY <2>2 DEF Within, InEye
<1>2. CASE r \in lcd_circle(cx, EYE_Y + 4, EYE_R - 4)
  <2>1. r \in lcd_circle(cx, 104, 12)
    BY <1>2
  <2>2. Within(r, cx - 12, 104 - 12, cx + 12 + 1, 104 + 12 + 1)
    BY <2>1, CircleWithin
  <2> QED BY <2>2 DEF Within, InEye
<1>3. CASE r \in lcd_circle(cx, EYE_Y, EYE_R + 6)
  <2>1. r \in lcd_circle(cx, 100, 22)
    BY <1>3
  <2>2. Within(r, cx - 22, 100 - 22, cx + 22 + 1, 100 + 22 + 1)
    BY <2>1, CircleWithin
  <2> QED BY <2>2 DEF Within, InEye
<1>4. CASE r \in lcd_circle(cx, EYE_Y, EYE_R)
  <2>1. r \in lcd_circle(cx, 100, 16)
    BY <1>4
  <2>2. Within(r, cx - 16, 100 - 16, cx + 16 + 1, 100 + 16 + 1)
    BY <2>1, CircleWithin
  <2> QED BY <2>2 DEF Within, InEye
<1> QED BY <1>1, <1>2, <1>3, <1>4 DEF face_eye_white

\* and so does the black part.
LEMMA EyeBlack ==
  ASSUME NEW cx \in Int, NEW l, NEW r \in face_eye_black(cx, l)
  PROVE  InEye(r, cx)
<1> USE SizesAre DEF Sizes
<1>1. CASE r \in lcd_circle(cx, EYE_Y + 8, EYE_R)
  <2>1. r \in lcd_circle(cx, 108, 16)
    BY <1>1
  <2>2. Within(r, cx - 16, 108 - 16, cx + 16 + 1, 108 + 16 + 1)
    BY <2>1, CircleWithin
  <2> QED BY <2>2 DEF Within, InEye
<1>2. CASE r \in Brow(cx)
  <2>1. PICK y \in EYE_Y - EYE_R .. EYE_Y :
           LET cut == 2 * (y - (EYE_Y - EYE_R - 2))
           IN  r \in Rect(IF cx = EYE_LX THEN cx - EYE_R + cut ELSE cx - EYE_R, y,
                          2 * EYE_R + 1 - cut, 1)
    BY <1>2 DEF Brow
  <2>2. y \in 84 .. 100
    OBVIOUS
  <2>3. PICK cut \in 0 .. 36 : cut = 2 * (y - (EYE_Y - EYE_R - 2))
    BY <2>2
  <2>4. PICK x \in Int : /\ x = (IF cx = EYE_LX THEN cx - EYE_R + cut ELSE cx - EYE_R)
                         /\ cx - 16 <= x /\ x + 33 - cut <= cx + 17
    BY <2>3
  <2>5. r \in Rect(x, y, 33 - cut, 1)
    BY <2>1, <2>3, <2>4
  <2>6. Within(r, x, y, x + (33 - cut), y + 1)
    BY <2>2, <2>3, <2>5, RectWithin
  <2> QED BY <2>2, <2>3, <2>4, <2>6 DEF Within, InEye
<1> QED BY <1>1, <1>2 DEF face_eye_black

\* What the mouth fills white lies in the box of the mouth.
LEMMA MouthWhite ==
  ASSUME NEW e, NEW r \in face_mouth_white(e)
  PROVE  Within(r, 100, 130, 220, 230)
<1> USE SizesAre DEF Sizes
<1>1. CASE r \in lcd_circle(160, 160, 30)
  <2>1. Within(r, 160 - 30, 160 - 30, 160 + 30 + 1, 160 + 30 + 1)
    BY <1>1, CircleWithin
  <2> QED BY <2>1 DEF Within
<1>2. CASE r \in lcd_circle(160, 196, 30)
  <2>1. Within(r, 160 - 30, 196 - 30, 160 + 30 + 1, 196 + 30 + 1)
    BY <1>2, CircleWithin
  <2> QED BY <2>1 DEF Within
<1>3. CASE r \in Rect(130, 172, 60, 6)
  <2>1. Within(r, 130, 172, 130 + 60, 172 + 6)
    BY <1>3, RectWithin
  <2> QED BY <2>1 DEF Within
<1>4. CASE r \in Rect(145, 170, 30, 6)
  <2>1. Within(r, 145, 170, 145 + 30, 170 + 6)
    BY <1>4, RectWithin
  <2> QED BY <2>1 DEF Within
<1>5. CASE r \in lcd_circle(160, 175, 14)
  <2>1. Within(r, 160 - 14, 175 - 14, 160 + 14 + 1, 175 + 14 + 1)
    BY <1>5, CircleWithin
  <2> QED BY <2>1 DEF Within
<1>6. CASE r \in Rect(115, 168, 90, 8)
  <2>1. Within(r, 115, 168, 115 + 90, 168 + 8)
    BY <1>6, RectWithin
  <2> QED BY <2>1 DEF Within
<1>7. LCD_W \div 2 = 160 /\ MOUTH_W \div 2 = 45
  OBVIOUS
<1> QED BY <1>1, <1>2, <1>3, <1>4, <1>5, <1>6, <1>7 DEF face_mouth_white

\* What the mouth fills black may reach beyond its box, but not to the eyes.
LEMMA MouthBlack ==
  ASSUME NEW e, NEW r \in face_mouth_black(e)
  PROVE  Within(r, 130, 118, 191, 239)
<1> USE SizesAre DEF Sizes
<1>1. CASE r \in lcd_circle(160, 148, 30)
  <2>1. Within(r, 160 - 30, 148 - 30, 160 + 30 + 1, 148 + 30 + 1)
    BY <1>1, CircleWithin
  <2> QED BY <2>1 DEF Within
<1>2. CASE r \in lcd_circle(160, 208, 30)
  <2>1. Within(r, 160 - 30, 208 - 30, 160 + 30 + 1, 208 + 30 + 1)
    BY <1>2, CircleWithin
  <2> QED BY <2>1 DEF Within
<1>3. CASE r \in lcd_circle(160, 175, 8)
  <2>1. Within(r, 160 - 8, 175 - 8, 160 + 8 + 1, 175 + 8 + 1)
    BY <1>3, CircleWithin
  <2> QED BY <2>1 DEF Within
<1>4. LCD_W \div 2 = 160
  OBVIOUS
<1> QED BY <1>1, <1>2, <1>3, <1>4 DEF face_mouth_black

\* White and black fills of the eyes lie in their boxes, those of the mouth apart
\* from them.
InEyes(r) == InEye(r, 96) \/ InEye(r, 224)

LEMMA WhiteWithin ==
  ASSUME NEW l \in Looks
  PROVE  /\ \A r \in White["eyes"][l] : InEyes(r)
         /\ \A r \in White["mouth"][l] : Within(r, 100, 130, 220, 230)
<1>1. /\ White["eyes"][l] = face_eye_white(EYE_LX, l) \cup face_eye_white(EYE_RX, l)
      /\ White["mouth"][l] = face_mouth_white(l.expr)
  BY DEF White, Parts
<1>2. \A r \in face_eye_white(96, l) \cup face_eye_white(224, l) : InEyes(r)
  BY EyeWhite DEF InEyes
<1>3. \A r \in face_mouth_white(l.expr) : Within(r, 100, 130, 220, 230)
  BY MouthWhite
<1> QED BY <1>1, <1>2, <1>3, SizesAre DEF Sizes

\* Where the black fills of a look lie.
LEMMA BlackWithin ==
  ASSUME NEW l \in Looks
  PROVE  /\ \A r \in Black["eyes"][l] : InEyes(r)
         /\ \A r \in Black["mouth"][l] : Within(r, 130, 118, 191, 239)
<1>1. /\ Black["eyes"][l] = face_eye_black(EYE_LX, l) \cup face_eye_black(EYE_RX, l)
      /\ Black["mouth"][l] = face_mouth_black(l.expr)
  BY DEF Black, Parts
<1>2. \A r \in face_eye_black(96, l) \cup face_eye_black(224, l) : InEyes(r)
  BY EyeBlack DEF InEyes
<1>3. \A r \in face_mouth_black(l.expr) : Within(r, 130, 118, 191, 239)
  BY MouthBlack
<1> QED BY <1>1, <1>2, <1>3, SizesAre DEF Sizes

\* Where the boxes lie.
LEMMA BoxesWithin ==
  /\ Boxes("eyes") = {EyeBox(96), EyeBox(224)} /\ Boxes("mouth") = {MouthBox}
  /\ Within(MouthBox, 100, 130, 220, 230)
  /\ \A cx \in {96, 224} : InEye(EyeBox(cx), cx)
  /\ \A cx \in {96, 224} : /\ EyeBox(cx).x = cx - 28 /\ EyeBox(cx).y = 72
                           /\ EyeBox(cx).w = 57 /\ EyeBox(cx).h = 57
  /\ MouthBox.x = 100 /\ MouthBox.y = 130 /\ MouthBox.w = 120 /\ MouthBox.h = 100
<1>1. Boxes("eyes") = {EyeBox(96), EyeBox(224)} /\ Boxes("mouth") = {MouthBox}
  BY SizesAre DEF Boxes, Sizes
<1>2. MouthBox.x = 100 /\ MouthBox.y = 130 /\ MouthBox.w = 120 /\ MouthBox.h = 100
  BY DEF MouthBox
<1>3. ASSUME NEW cx \in {96, 224}
      PROVE  EyeBox(cx).x = cx - 28 /\ EyeBox(cx).y = 72 /\ EyeBox(cx).w = 57 /\ EyeBox(cx).h = 57
  BY SizesAre DEF EyeBox, Sizes
<1>4. Within(MouthBox, 100, 130, 220, 230)
  BY <1>2 DEF Within
<1>5. ASSUME NEW cx \in {96, 224} PROVE InEye(EyeBox(cx), cx)
  BY <1>3 DEF Within, InEye
<1> QED BY <1>1, <1>2, <1>3, <1>4, <1>5

\* What a routine fills of a part.
Fills(part, l) == White[part][l] \cup Black[part][l] \cup Boxes(part)

\* Where everything lies that a routine fills.
LEMMA FillsWithin ==
  ASSUME NEW l \in Looks
  PROVE  /\ \A r \in Fills("eyes", l) : InEyes(r)
         /\ \A r \in Fills("mouth", l) :
              Within(r, 100, 130, 220, 230) \/ Within(r, 130, 118, 191, 239)
<1>1. \A r \in Boxes("eyes") : InEyes(r)
  BY BoxesWithin DEF InEyes
<1>2. \A r \in Boxes("mouth") : Within(r, 100, 130, 220, 230)
  BY BoxesWithin
<1> QED BY <1>1, <1>2, WhiteWithin, BlackWithin DEF Fills

\* The boxes of a part cover every white pixel of each of its looks.
LEMMA Cleared ==
  ASSUME NEW part \in Parts, NEW l \in Looks
  PROVE  ClearedByBox[part][l]
<1>1. SUFFICES ASSUME NEW r \in White[part][l] PROVE \E b \in Boxes(part) : Inside(r, b)
  BY DEF ClearedByBox
<1>2. CASE part = "eyes"
  <2>1. PICK cx \in {96, 224} : InEye(r, cx)
    BY <1>1, <1>2, WhiteWithin DEF InEyes
  <2>2. Inside(r, EyeBox(cx))
    BY <2>1, BoxesWithin DEF InEye, Within, Inside
  <2> QED BY <1>2, <2>2, BoxesWithin
<1>3. CASE part = "mouth"
  <2>1. Within(r, 100, 130, 220, 230)
    BY <1>1, <1>3, WhiteWithin
  <2>2. Inside(r, MouthBox)
    BY <2>1, BoxesWithin DEF Within, Inside
  <2> QED BY <1>3, <2>2, BoxesWithin
<1> QED BY <1>2, <1>3 DEF Parts

\* What one part fills meets nothing white of the other.
LEMMA Kept ==
  ASSUME NEW part \in Parts, NEW l \in Looks
  PROVE  KeepsOther[part][l]
<1>1. SUFFICES ASSUME NEW r \in Fills(part, l), NEW q \in Parts \ {part}, NEW k \in Looks,
                      NEW b \in White[q][k]
               PROVE  ~Meet(r, b)
  BY DEF KeepsOther, Fills
<1>2. CASE part = "eyes"
  <2>1. InEyes(r) /\ q = "mouth"
    BY <1>1, <1>2, FillsWithin DEF Parts
  <2>2. Within(b, 100, 130, 220, 230)
    BY <1>1, <2>1, WhiteWithin
  <2> QED BY <2>1, <2>2 DEF InEyes, InEye, Within, Meet
<1>3. CASE part = "mouth"
  <2>1. (Within(r, 100, 130, 220, 230) \/ Within(r, 130, 118, 191, 239)) /\ q = "eyes"
    BY <1>1, <1>3, FillsWithin DEF Parts
  <2>2. InEyes(b)
    BY <1>1, <2>1, WhiteWithin
  <2> QED BY <2>1, <2>2 DEF InEyes, InEye, Within, Meet
<1> QED BY <1>2, <1>3 DEF Parts

\* No fill within the panel needs more transactions than there is room for.
LEMMA TransactionsFit ==
  ASSUME NEW w \in 0 .. 320, NEW h \in 0 .. 240
  PROVE  1 + (w * h * 2 + 2048 - 1) \div 2048 <= 2 + (320 * 240 * 2) \div 2048
<1>1. w * h <= 320 * h
  OBVIOUS
<1>2. PICK a \in Nat : a = w * h * 2
  OBVIOUS
<1>3. a <= 153600
  BY <1>1, <1>2
<1>4. (a + 2048 - 1) \div 2048 <= 75
  BY <1>3
<1>5. (320 * 240 * 2) \div 2048 = 75
  OBVIOUS
<1> QED BY <1>2, <1>4, <1>5

\* The same, of a rectangle.
LEMMA FitsIfWithin ==
  ASSUME NEW r, Within(r, 0, 0, 320, 240)
  PROVE  Inside(r, Panel) /\ Transactions(r) <= MaxTransactions
<1>1. Panel.x = 0 /\ Panel.y = 0 /\ Panel.w = 320 /\ Panel.h = 240
  BY SizesAre DEF Panel, Sizes
<1>2. Inside(r, Panel)
  BY <1>1 DEF Inside, Within
<1>3. r.w \in 0 .. 320 /\ r.h \in 0 .. 240
  BY DEF Within
<1>4. Transactions(r) <= MaxTransactions
  <2>1. PICK w \in 0 .. 320, h \in 0 .. 240 : w = r.w /\ h = r.h
    BY <1>3
  <2>2. Transactions(r) = 1 + (w * h * 2 + 2048 - 1) \div 2048
    BY <2>1, SizesAre DEF Transactions, Sizes
  <2>3. MaxTransactions = 2 + (320 * 240 * 2) \div 2048
    BY SizesAre DEF MaxTransactions, Sizes
  <2> QED BY <2>2, <2>3, TransactionsFit
<1> QED BY <1>2, <1>4

\* Each fill of a part is within the panel and the transfer.
LEMMA Fits ==
  ASSUME NEW part \in Parts, NEW l \in Looks
  PROVE  FitsPanel[part][l]
<1>1. SUFFICES ASSUME NEW r \in Fills(part, l)
               PROVE  Inside(r, Panel) /\ Transactions(r) <= MaxTransactions
  BY DEF FitsPanel, Fills
<1>2. Within(r, 0, 0, 320, 240)
  BY <1>1, FillsWithin DEF Parts, InEyes, InEye, Within
<1> QED BY <1>2, FitsIfWithin

\* So is that of the whole panel.
LEMMA PanelFits == Transactions(Panel) <= MaxTransactions
<1>1. Within(Panel, 0, 0, 320, 240)
  BY SizesAre DEF Within, Panel, Sizes
<1> QED BY <1>1, FitsIfWithin

\* Blank and smeared parts have no look.
LEMMA NoLook == Blank \notin Looks /\ Smeared \notin Looks /\ Blank # Smeared
<1>1. Blank.expr = -1 /\ Smeared.expr = -2
  BY DEF Blank, Smeared, Look
<1>2. \A l \in Looks : l.expr \in Nat
  BY DEF Looks, Look, Expressions
<1> QED BY <1>1, <1>2

\* Drawn over a part that is no mixture, or over nothing, a look is whole and
\* leaves the other part alone.
LEMMA DrawIs ==
  ASSUME NEW shown, shown \in [Parts -> Looks \cup {Blank}], NEW part \in Parts, NEW l \in Looks
  PROVE  Draw(shown, part, l) = [shown EXCEPT ![part] = l]
<1>1. ASSUME NEW q \in Parts PROVE Draw(shown, part, l)[q] = IF q = part THEN l ELSE shown[q]
  <2>1. shown[q] # Smeared /\ (shown[q] = Blank \/ ClearedByBox[q][shown[q]])
    BY NoLook, Cleared
  <2> QED BY <2>1, Kept DEF Draw
<1>2. Draw(shown, part, l) = [q \in Parts |-> Draw(shown, part, l)[q]]
  BY DEF Draw
<1> QED BY <1>1, <1>2

-----------------------------------------------------------------------------
(* What the actors have to draw.                                           *)

Entries == {Clear} \cup {[part |-> q, look |-> l] : q \in Parts, l \in Looks}

\* What the actors have to draw is made of looks, and what they ask for are faces.
FaceTypes ==
  /\ g_expr \in Expressions
  /\ shell \in [Shell -> [pc : ShellPc, arg : Int]]
  /\ \A s \in Shell : shell[s].pc \in {"face", "ask", "draw"} => shell[s].arg \in Expressions
  /\ todo \in [Actor -> Seq(Entries)]
  /\ spoiled \in BOOLEAN

\* The expressions are numbers.
LEMMA ExpressionsAre ==
  Expressions \subseteq Int /\ NEUTRAL \in Expressions /\ SURPRISED \in Expressions
BY DEF Expressions, NEUTRAL, SURPRISED

\* An entry of a list is the panel, or a look of a part.
LEMMA EntriesAre ==
  /\ \A d \in Entries :
       d.part = "panel" \/ (d.part \in Parts /\ d.look \in Looks /\ d.part # "panel")
  /\ \A q \in Parts, e \in Expressions, o \in BOOLEAN :
       [part |-> q, look |-> Look(e, o)] \in Entries
  /\ Clear \in Entries /\ Clear.part = "panel"
<1>1. Clear \in Entries /\ Clear.part = "panel"
  BY DEF Entries, Clear
<1>2. \A q \in Parts, e \in Expressions, o \in BOOLEAN : Look(e, o) \in Looks
  BY DEF Looks
<1>3. \A q \in Parts, e \in Expressions, o \in BOOLEAN :
        [part |-> q, look |-> Look(e, o)] \in Entries
  BY <1>2 DEF Entries
<1>4. ASSUME NEW d \in Entries
      PROVE  d.part = "panel" \/ (d.part \in Parts /\ d.look \in Looks /\ d.part # "panel")
  <2>1. CASE d = Clear
    BY <1>1, <2>1
  <2>2. ASSUME NEW q \in Parts, NEW l \in Looks, d = [part |-> q, look |-> l]
        PROVE  d.part \in Parts /\ d.look \in Looks /\ d.part # "panel"
    BY <2>2 DEF Parts
  <2> QED BY <2>1, <2>2 DEF Entries
<1> QED BY <1>1, <1>3, <1>4

\* The parts of each drawing, in the order they are drawn.
LEMMA DrawingsAre ==
  ASSUME NEW e \in Expressions
  PROVE  /\ face_mouth(e) = <<[part |-> "mouth", look |-> Look(e, TRUE)]>>
         /\ face_expr(e) = <<[part |-> "eyes", look |-> Look(e, TRUE)],
                             [part |-> "mouth", look |-> Look(e, TRUE)]>>
         /\ face_blink(e) = <<[part |-> "eyes", look |-> Look(e, FALSE)],
                              [part |-> "eyes", look |-> Look(e, TRUE)]>>
         /\ face_draw(e) = <<Clear, [part |-> "eyes", look |-> Look(e, TRUE)],
                             [part |-> "mouth", look |-> Look(e, TRUE)]>>
<1>1. ASSUME NEW x, NEW y PROVE <<x>> \o <<y>> = <<x, y>>
  <2>1. PICK S : S = {x, y}
    OBVIOUS
  <2>2. <<x>> \in Seq(S) /\ <<y>> \in Seq(S) /\ <<x, y>> \in Seq(S)
    BY <2>1
  <2>3. PICK s : s = <<x>> \o <<y>>
    OBVIOUS
  <2>4. s \in Seq(S) /\ Len(s) = 2 /\ s[1] = x /\ s[2] = y
    BY <2>2, <2>3, ConcatProperties
  <2>5. Len(s) = Len(<<x, y>>) /\ \A i \in 1 .. Len(s) : s[i] = <<x, y>>[i]
    BY <2>4
  <2> QED BY <2>2, <2>3, <2>4, <2>5, SeqEqual
<1>2. ASSUME NEW x, NEW y, NEW z PROVE <<x>> \o <<y, z>> = <<x, y, z>>
  <2>1. PICK S : S = {x, y, z}
    OBVIOUS
  <2>2. <<x>> \in Seq(S) /\ <<y, z>> \in Seq(S) /\ <<x, y, z>> \in Seq(S)
    BY <2>1
  <2>3. PICK s : s = <<x>> \o <<y, z>>
    OBVIOUS
  <2>4. s \in Seq(S) /\ Len(s) = 3 /\ s[1] = x /\ s[2] = y /\ s[3] = z
    BY <2>2, <2>3, ConcatProperties
  <2>5. Len(s) = Len(<<x, y, z>>) /\ \A i \in 1 .. Len(s) : s[i] = <<x, y, z>>[i]
    BY <2>4
  <2> QED BY <2>2, <2>3, <2>4, <2>5, SeqEqual
<1> QED BY <1>1, <1>2 DEF face_mouth, face_expr, face_eyes, face_blink, face_draw

\* The drawing routines queue entries.
LEMMA DrawingsTypes ==
  ASSUME NEW e \in Expressions
  PROVE  /\ face_mouth(e) \in Seq(Entries) /\ face_expr(e) \in Seq(Entries)
         /\ face_blink(e) \in Seq(Entries) /\ face_draw(e) \in Seq(Entries)
<1>1. /\ [part |-> "eyes", look |-> Look(e, TRUE)] \in Entries
      /\ [part |-> "eyes", look |-> Look(e, FALSE)] \in Entries
      /\ [part |-> "mouth", look |-> Look(e, TRUE)] \in Entries /\ Clear \in Entries
  BY EntriesAre DEF Parts
<1>2. PICK x \in Entries, y \in Entries, z \in Entries :
         /\ x = [part |-> "eyes", look |-> Look(e, TRUE)]
         /\ y = [part |-> "eyes", look |-> Look(e, FALSE)]
         /\ z = [part |-> "mouth", look |-> Look(e, TRUE)]
  BY <1>1
<1>3. PICK c \in Entries : c = Clear
  BY <1>1
<1>4. /\ <<z>> \in Seq(Entries) /\ <<x, z>> \in Seq(Entries)
      /\ <<y, x>> \in Seq(Entries) /\ <<c, x, z>> \in Seq(Entries)
  OBVIOUS
<1> QED BY <1>2, <1>3, <1>4, DrawingsAre

\* The lists keep their type when a routine queues its parts,
LEMMA FaceTodo ==
  ASSUME FaceTypes, NEW a \in Actor, NEW parts \in Seq(Entries), Draws(a, parts)
  PROVE  todo' \in [Actor -> Seq(Entries)] /\ spoiled' \in BOOLEAN
BY DEF FaceTypes, Draws

\* or the whole face.
LEMMA FaceTodoAll ==
  ASSUME FaceTypes, NEW a \in Actor, NEW e \in Expressions, DrawsFace(a, e)
  PROVE  todo' \in [Actor -> Seq(Entries)] /\ spoiled' \in BOOLEAN
BY DrawingsTypes DEF FaceTypes, DrawsFace

\* A command that goes on keeps an argument that is a face, if it needs one.
LEMMA FaceShell ==
  ASSUME FaceTypes, NEW s \in Shell, NEW pc \in ShellPc, NEW arg \in Int,
         pc \in {"face", "ask", "draw"} => arg \in Expressions,
         ShellGoes(s, pc, arg),
         g_expr' \in Expressions, todo' \in [Actor -> Seq(Entries)], spoiled' \in BOOLEAN
  PROVE  FaceTypes'
<1>1. \A r \in Shell : shell'[r] = IF r = s THEN [pc |-> pc, arg |-> arg] ELSE shell[r]
  BY DEF FaceTypes, ShellGoes
<1>2. shell' \in [Shell -> [pc : ShellPc, arg : Int]]
  BY DEF FaceTypes, ShellGoes
<1> QED BY <1>1, <1>2 DEF FaceTypes

\* A step that leaves commands and expression alone.
LEMMA FaceKept ==
  ASSUME FaceTypes, shell' = shell, g_expr' = g_expr,
         todo' \in [Actor -> Seq(Entries)], spoiled' \in BOOLEAN
  PROVE  FaceTypes'
BY DEF FaceTypes

\* Nothing is queued at boot.
LEMMA FaceInit == Init => FaceTypes
<1> SUFFICES ASSUME Init PROVE FaceTypes
  OBVIOUS
<1>1. shell \in [Shell -> [pc : ShellPc, arg : Int]]
      /\ \A s \in Shell : shell[s].pc = "idle"
  BY DEF Init, Idle
<1>2. <<>> \in Seq(Entries)
  OBVIOUS
<1>3. todo \in [Actor -> Seq(Entries)]
  BY <1>2 DEF Init
<1> QED BY <1>1, <1>3, ExpressionsAre DEF Init, FaceTypes

\* A fill shortens a list.
LEMMA FaceFill ==
  ASSUME FaceTypes, NEW a \in Actor, lcd_fill(a)
  PROVE  FaceTypes'
<1>1. todo[a] \in Seq(Entries) /\ todo[a] # <<>>
  BY DEF lcd_fill, FaceTypes
<1>2. Tail(todo[a]) \in Seq(Entries)
  BY <1>1
<1>3. todo' = [todo EXCEPT ![a] = Tail(todo[a])] /\ spoiled' = spoiled
  BY DEF lcd_fill
<1> QED BY <1>2, <1>3, FaceKept DEF lcd_fill, globals, FaceTypes

\* The demo task queues looks of g_expr and the open mouth.
LEMMA FaceTask ==
  ASSUME FaceTypes, NEW t \in Pid, TaskStep(t)
  PROVE  FaceTypes'
<1>0. /\ t \in Actor /\ g_expr \in Expressions
      /\ todo \in [Actor -> Seq(Entries)] /\ spoiled \in BOOLEAN
  BY DEF Actor, FaceTypes
<1>1. shell' = shell /\ g_expr' = g_expr
  BY DEF TaskStep, TaskBegin, TaskPower, TaskTick, TaskTalk, TaskRedraw, TaskExpr, TaskBlink,
         TaskLook, TaskRest, Ends, globals
<1>2. todo' \in [Actor -> Seq(Entries)] /\ spoiled' \in BOOLEAN
  <2>1. CASE UNCHANGED <<todo, spoiled>>
    BY <1>0, <2>1
  <2>2. CASE DrawsFace(t, g_expr)
    BY <1>0, <2>2, FaceTodoAll
  <2>3. CASE \E parts \in Seq(Entries) : Draws(t, parts)
    BY <1>0, <2>3, FaceTodo
  <2>4. CASE TaskTalk(t)
    <3>1. \/ UNCHANGED <<todo, spoiled>>
          \/ \E e \in Expressions : Draws(t, face_mouth(e))
      BY <1>0, <2>4, ExpressionsAre DEF TaskTalk, DrawsNothing
    <3> QED BY <2>1, <2>3, <3>1, DrawingsTypes
  <2>5. CASE TaskExpr(t)
    BY <1>0, <2>3, <2>5, DrawingsTypes DEF TaskExpr
  <2>6. CASE TaskBlink(t)
    BY <1>0, <2>1, <2>3, <2>6, DrawingsTypes DEF TaskBlink, DrawsNothing
  <2>7. CASE TaskBegin(t)
    BY <2>1, <2>2, <2>7 DEF TaskBegin, Ends
  <2> QED BY <2>1, <2>4, <2>5, <2>6, <2>7 DEF TaskStep, TaskPower, TaskTick, TaskRedraw,
         TaskLook, TaskRest, Ends
<1> QED BY <1>1, <1>2, FaceKept

\* So do the commands.
LEMMA FaceCommand ==
  ASSUME FaceTypes, NEW s \in Shell, Enter(s) \/ ShellStep(s) \/ SayEnds(s) \/ SayMoves(s)
  PROVE  FaceTypes'
<1>0. /\ s \in Actor /\ g_expr \in Expressions /\ todo \in [Actor -> Seq(Entries)]
      /\ spoiled \in BOOLEAN /\ shell[s].arg \in Int /\ 0 \in Int
      /\ SURPRISED \in Expressions /\ Expressions \subseteq Int
  BY ExpressionsAre DEF Actor, FaceTypes
<1> USE <1>0
<1>e. ASSUME ShellEnds(s), g_expr' \in Expressions, todo' \in [Actor -> Seq(Entries)],
             spoiled' \in BOOLEAN
      PROVE  FaceTypes'
  <2>1. ShellGoes(s, "idle", 0)
    BY <1>e DEF ShellEnds, ShellGoes, Idle
  <2> QED BY <1>e, <2>1, FaceShell
<1>1. CASE Enter(s)
  <2>1. PICK c \in Commands[s], e \in AskedFaces : ShellGoes(s, c, IF c = "face" THEN e ELSE 0)
    BY <1>1 DEF Enter
  <2>2. c \in ShellPc /\ c \notin {"ask", "draw"} /\ e \in Expressions
    BY <2>1, DemoAssumption DEF AskedFaces
  <2> QED BY <1>1, <2>1, <2>2, FaceShell DEF Enter, globals
<1>2. CASE Start(s)
  BY <1>e, <1>2, FaceShell DEF Start
<1>3. CASE Create(s)
  <2>1. NextPid \in Int
    BY <1>3 DEF Create, NextPid, Pid
  <2>2. UNCHANGED <<g_expr, todo, spoiled>>
    BY <1>3 DEF Create
  <2>3. ShellGoes(s, "note", NextPid) \/ ShellEnds(s)
    BY <1>3 DEF Create
  <2> QED BY <1>e, <2>1, <2>2, <2>3, FaceShell
<1>4. CASE NotePid(s)
  BY <1>e, <1>4 DEF NotePid
<1>5. CASE Stop(s)
  BY <1>e, <1>5 DEF Stop
<1>6. CASE Face(s)
  <2>1. shell[s].arg \in Expressions
    BY <1>6 DEF Face, ShellAt, FaceTypes
  <2>2. PICK pc \in {"ask", "draw"} : ShellGoes(s, pc, shell[s].arg)
    BY <1>6 DEF Face
  <2> QED BY <1>6, <2>1, <2>2, FaceShell DEF Face, globals
<1>7. CASE FaceAsk(s)
  <2>1. shell[s].arg \in Expressions
    BY <1>7 DEF FaceAsk, ShellAt, FaceTypes
  <2> QED BY <1>7, <2>1, FaceShell DEF FaceAsk
<1>8. CASE FaceFlag(s)
  BY <1>e, <1>8 DEF FaceFlag
<1>9. CASE FaceDraw(s)
  <2>1. shell[s].arg \in Expressions
    BY <1>9 DEF FaceDraw, ShellAt, FaceTypes
  <2> QED BY <1>e, <1>9, <2>1, FaceTodoAll DEF FaceDraw
<1>10. CASE Say(s)
  BY <1>e, <1>10, FaceShell DEF Say
<1>11. CASE BlinkOnce(s)
  BY <1>e, <1>11, FaceTodo, DrawingsTypes DEF BlinkOnce, DrawsNothing, globals
<1>12. CASE SayEnds(s)
  BY <1>e, <1>12 DEF SayEnds
<1>13. CASE SayMoves(s)
  <2>1. PICK e \in Expressions : Draws(s, face_mouth(e))
    BY <1>13 DEF SayMoves
  <2>2. todo' \in [Actor -> Seq(Entries)] /\ spoiled' \in BOOLEAN
    BY <2>1, FaceTodo, DrawingsTypes
  <2> QED BY <1>e, <1>13, <2>2, FaceKept DEF SayMoves, globals
<1> QED BY <1>1, <1>2, <1>3, <1>4, <1>5, <1>6, <1>7, <1>8, <1>9, <1>10, <1>11, <1>12, <1>13
        DEF ShellStep

\* Nothing but looks of expressions is ever queued.
LEMMA FaceTypesInv == Spec => []FaceTypes
<1>1. FaceTypes /\ [Next]_vars => FaceTypes'
  <2> SUFFICES ASSUME FaceTypes, [Next]_vars PROVE FaceTypes'
    OBVIOUS
  <2>1. CASE UNCHANGED vars
    BY <2>1 DEF FaceTypes, vars, globals
  <2> QED BY <2>1, FaceFill, FaceTask, FaceCommand DEF Next
<1> QED BY <1>1, FaceInit, PTL DEF Spec

\* Whatever any shell or task has queued to be drawn lies on the panel, needs
\* no more transactions than sc->trans[] has, clears what it replaces and
\* spares the other part: for any number of shells, commands, tasks and faces.
THEOREM DrawsFit == Spec => []DrawsFitThePanel
<1>1. FaceTypes => DrawsFitThePanel
  <2> SUFFICES ASSUME FaceTypes, NEW a \in Actor, NEW i \in DOMAIN todo[a], NEW d, d = todo[a][i]
               PROVE  IF d.part = "panel" THEN Transactions(Panel) <= MaxTransactions
                      ELSE FitsPanel[d.part][d.look] /\ ClearedByBox[d.part][d.look]
                             /\ KeepsOther[d.part][d.look]
    BY DEF DrawsFitThePanel
  <2>1. d \in Entries
    <3>1. todo[a] \in Seq(Entries)
      BY DEF FaceTypes
    <3> QED BY <3>1
  <2> QED BY <2>1, EntriesAre, PanelFits, Fits, Cleared, Kept
<1> QED BY <1>1, FaceTypesInv, PTL

-----------------------------------------------------------------------------
(* What the panel is going to show.                                        *)

\* Once parts has been drawn the part q has the look l.
Leaves(parts, q, l) ==
  \/ \E i \in DOMAIN parts :
       /\ parts[i] = [part |-> q, look |-> l]
       /\ \A j \in DOMAIN parts : j > i => parts[j].part \notin {q, "panel"}
  \/ /\ \A i \in DOMAIN parts : parts[i].part \notin {q, "panel"}
     /\ screen[q] = l

WillShow(q, l) ==
  /\ \A a \in Drawing : Leaves(todo[a], q, l)
  /\ Drawing = {} => screen[q] = l

Alone == \A a, b \in Drawing : a = b

\* No part is a mixture, unless the panel is about to be cleared.
Whole ==
  /\ screen \in [Parts -> Looks \cup {Blank, Smeared}]
  /\ \/ screen \in [Parts -> Looks \cup {Blank}]
     \/ \E a \in Drawing : todo[a][1].part = "panel"

\* The task t has drawn its first face.
Begun == {t \in Pid : task[t].pc \notin {"none", "begin", "ended"}}

\* An order is on its way to t to draw the face again,
Pending(t) == g_redraw \/ task[t].pc = "expr" \/ \E s \in Shell : shell[s].pc = "flag"

\* and someone who moves the mouth will close it.
MouthMoves(t) == task[t].talk_open \/ \E s \in Shell : shell[s].pc = "moving"

Shown(t) ==
  \A l \in {Look(g_expr, TRUE)} :
    /\ Pending(t) \/ WillShow("eyes", l)
    /\ Pending(t) \/ MouthMoves(t) \/ WillShow("mouth", l)

Shows == \A t \in Begun : Shown(t)

ScreenTypes == screen \in [Parts -> Looks \cup {Blank, Smeared}]

ShowInv == ScreenTypes /\ (~spoiled => Alone /\ Whole /\ Shows)

\* The looks of an expression.
LEMMA LooksOf ==
  ASSUME NEW e \in Expressions
  PROVE  Look(e, TRUE) \in Looks /\ Look(e, FALSE) \in Looks
<1>1. \A o \in BOOLEAN : Look(e, o) \in Looks
  BY DEF Looks
<1> QED BY <1>1

\* The last entry for a part decides what it looks like;
LEMMA LeavesAt ==
  ASSUME NEW parts, NEW q, NEW l, NEW i \in DOMAIN parts,
         parts[i] = [part |-> q, look |-> l],
         \A j \in DOMAIN parts : j > i => parts[j].part \notin {q, "panel"}
  PROVE  Leaves(parts, q, l)
BY DEF Leaves

\* a list with no entry for it leaves it as it is.
LEMMA LeavesAlone ==
  ASSUME NEW parts, NEW q, NEW l, screen[q] = l,
         \A i \in DOMAIN parts : parts[i].part \notin {q, "panel"}
  PROVE  Leaves(parts, q, l)
BY DEF Leaves

\* What each drawing leaves.
LEMMA DrawingsLeave ==
  ASSUME NEW e \in Expressions
  PROVE  /\ Leaves(face_mouth(e), "mouth", Look(e, TRUE))
         /\ \A l : screen["eyes"] = l => Leaves(face_mouth(e), "eyes", l)
         /\ Leaves(face_blink(e), "eyes", Look(e, TRUE))
         /\ \A l : screen["mouth"] = l => Leaves(face_blink(e), "mouth", l)
         /\ \A q \in Parts : Leaves(face_expr(e), q, Look(e, TRUE))
         /\ \A q \in Parts : Leaves(face_draw(e), q, Look(e, TRUE))
<1>1. PICK l0 : l0 = Look(e, TRUE)
  OBVIOUS
<1>2. PICK x, y, z, c :
         /\ x = [part |-> "eyes", look |-> l0]
         /\ y = [part |-> "eyes", look |-> Look(e, FALSE)]
         /\ z = [part |-> "mouth", look |-> l0]
         /\ c = Clear
  OBVIOUS
<1>3. x.part = "eyes" /\ y.part = "eyes" /\ z.part = "mouth" /\ c.part = "panel"
  BY <1>2, EntriesAre
<1>4. PICK m, ex, bl, dr :
        /\ m = face_mouth(e) /\ ex = face_expr(e) /\ bl = face_blink(e) /\ dr = face_draw(e)
  OBVIOUS
<1>5. m = <<z>> /\ ex = <<x, z>> /\ bl = <<y, x>> /\ dr = <<c, x, z>>
  BY <1>1, <1>2, <1>4, DrawingsAre
<1>6. DOMAIN m = {1} /\ m[1] = z
  BY <1>5
<1>7. DOMAIN ex = {1, 2} /\ ex[1] = x /\ ex[2] = z
  BY <1>5
<1>8. DOMAIN bl = {1, 2} /\ bl[1] = y /\ bl[2] = x
  BY <1>5
<1>9. DOMAIN dr = {1, 2, 3} /\ dr[1] = c /\ dr[2] = x /\ dr[3] = z
  BY <1>5
<1>10. Leaves(m, "mouth", l0)
  BY <1>2, <1>6, LeavesAt
<1>11. ASSUME NEW l, screen["eyes"] = l PROVE Leaves(m, "eyes", l)
  BY <1>3, <1>6, <1>11, LeavesAlone
<1>12. Leaves(bl, "eyes", l0)
  <2>1. \A j \in DOMAIN bl : j > 2 => bl[j].part \notin {"eyes", "panel"}
    BY <1>8
  <2> QED BY <1>2, <1>8, <2>1, LeavesAt
<1>13. ASSUME NEW l, screen["mouth"] = l PROVE Leaves(bl, "mouth", l)
  BY <1>3, <1>8, <1>13, LeavesAlone
<1>14. ASSUME NEW q \in Parts PROVE Leaves(ex, q, l0) /\ Leaves(dr, q, l0)
  <2>1. CASE q = "eyes"
    <3>1. \A j \in DOMAIN ex : j > 1 => ex[j].part \notin {q, "panel"}
      BY <1>3, <1>7, <2>1
    <3>2. \A j \in DOMAIN dr : j > 2 => dr[j].part \notin {q, "panel"}
      BY <1>3, <1>9, <2>1
    <3>3. Leaves(ex, q, l0)
      BY <1>2, <1>7, <2>1, <3>1, LeavesAt
    <3>4. Leaves(dr, q, l0)
      BY <1>2, <1>9, <2>1, <3>2, LeavesAt
    <3> QED BY <3>3, <3>4
  <2>2. CASE q = "mouth"
    <3>1. \A j \in DOMAIN ex : j > 2 => ex[j].part \notin {q, "panel"}
      BY <1>7
    <3>2. \A j \in DOMAIN dr : j > 3 => dr[j].part \notin {q, "panel"}
      BY <1>9
    <3>3. Leaves(ex, q, l0)
      BY <1>2, <1>7, <2>2, <3>1, LeavesAt
    <3>4. Leaves(dr, q, l0)
      BY <1>2, <1>9, <2>2, <3>2, LeavesAt
    <3> QED BY <3>3, <3>4
  <2> QED BY <2>1, <2>2 DEF Parts
<1> QED BY <1>1, <1>4, <1>10, <1>11, <1>12, <1>13, <1>14

\* The first part of a list, drawn.
LEMMA LeavesFirst ==
  ASSUME NEW parts \in Seq(Entries), parts # <<>>, NEW q \in Parts, NEW l, Leaves(parts, q, l),
         screen' \in [Parts -> Looks \cup {Blank, Smeared}],
         parts[1].part # "panel" => screen' = [screen EXCEPT ![parts[1].part] = parts[1].look],
         ScreenTypes
  PROVE  Leaves(Tail(parts), q, l)'
<1>1. PICK n \in Nat : n = Len(parts)
  BY LenProperties
<1>2. DOMAIN parts = 1 .. n /\ n >= 1 /\ \A i \in 1 .. n : parts[i] \in Entries
  BY <1>1
<1>3. DOMAIN Tail(parts) = 1 .. n - 1 /\ \A i \in 1 .. n - 1 : Tail(parts)[i] = parts[i + 1]
  BY <1>1, HeadTailProperties
<1>4. ASSUME NEW i \in 1 .. n - 1, parts[i + 1] = [part |-> q, look |-> l],
             \A j \in 1 .. n : j > i + 1 => parts[j].part \notin {q, "panel"}
      PROVE  Leaves(Tail(parts), q, l)'
  <2>1. Tail(parts)[i] = [part |-> q, look |-> l]
    BY <1>3, <1>4
  <2>2. \A j \in 1 .. n - 1 : j > i => Tail(parts)[j].part \notin {q, "panel"}
    <3> SUFFICES ASSUME NEW j \in 1 .. n - 1, j > i PROVE parts[j + 1].part \notin {q, "panel"}
      BY <1>3
    <3>1. j + 1 \in 1 .. n /\ j + 1 > i + 1
      OBVIOUS
    <3> QED BY <1>4, <3>1
  <2> QED BY <1>3, <2>1, <2>2 DEF Leaves
<1>5. ASSUME \A i \in 1 .. n - 1 : parts[i + 1].part \notin {q, "panel"}, screen'[q] = l
      PROVE  Leaves(Tail(parts), q, l)'
  BY <1>3, <1>5 DEF Leaves
<1>6. ASSUME NEW i \in 1 .. n, parts[i] = [part |-> q, look |-> l],
             \A j \in 1 .. n : j > i => parts[j].part \notin {q, "panel"}
      PROVE  Leaves(Tail(parts), q, l)'
  <2>1. CASE i > 1
    <3>1. PICK k \in 1 .. n - 1 : i = k + 1
      BY <2>1
    <3> QED BY <1>4, <1>6, <3>1
  <2>2. CASE i = 1
    <3>1. parts[1].part = q /\ parts[1].look = l /\ q # "panel"
      BY <1>6, <2>2 DEF Parts
    <3>2. screen'[q] = l
      BY <3>1 DEF ScreenTypes
    <3>3. \A k \in 1 .. n - 1 : parts[k + 1].part \notin {q, "panel"}
      <4> SUFFICES ASSUME NEW k \in 1 .. n - 1 PROVE parts[k + 1].part \notin {q, "panel"}
        OBVIOUS
      <4>1. k + 1 \in 1 .. n /\ k + 1 > 1
        OBVIOUS
      <4> QED BY <1>6, <2>2, <4>1
    <3> QED BY <1>5, <3>2, <3>3
  <2> QED BY <2>1, <2>2
<1>7. ASSUME \A i \in 1 .. n : parts[i].part \notin {q, "panel"}, screen[q] = l
      PROVE  Leaves(Tail(parts), q, l)'
  <2>1. parts[1].part # q /\ parts[1].part # "panel"
    BY <1>2, <1>7
  <2>2. screen'[q] = l
    BY <1>7, <2>1 DEF ScreenTypes
  <2>3. \A k \in 1 .. n - 1 : parts[k + 1].part \notin {q, "panel"}
    <3> SUFFICES ASSUME NEW k \in 1 .. n - 1 PROVE parts[k + 1].part \notin {q, "panel"}
      OBVIOUS
    <3>1. k + 1 \in 1 .. n
      OBVIOUS
    <3> QED BY <1>7, <3>1
  <2> QED BY <1>5, <2>2, <2>3
<1> QED BY <1>2, <1>6, <1>7 DEF Leaves

\* Drawing makes a look, or a mixture.
LEMMA DrawTypes ==
  ASSUME ScreenTypes, NEW part \in Parts, NEW l \in Looks
  PROVE  Draw(screen, part, l) \in [Parts -> Looks \cup {Blank, Smeared}]
<1>1. ASSUME NEW q \in Parts
      PROVE  /\ Draw(screen, part, l)[q] \in {l, Smeared, screen[q]}
             /\ screen[q] \in Looks \cup {Blank, Smeared}
  BY DEF Draw, ScreenTypes
<1>2. Draw(screen, part, l) = [q \in Parts |-> Draw(screen, part, l)[q]]
  BY DEF Draw
<1> QED BY <1>1, <1>2

\* A part on its way to the panel brings it nearer to what is to be shown.
LEMMA FillShow ==
  ASSUME FaceTypes, ShowInv, NEW a \in Actor, lcd_fill(a)
  PROVE  ShowInv'
<1>1. PICK parts \in Seq(Entries) : parts = todo[a]
  BY DEF FaceTypes
<1>2. parts # <<>> /\ todo' = [todo EXCEPT ![a] = Tail(parts)] /\ spoiled' = spoiled
  BY <1>1 DEF lcd_fill
<1>3. PICK d \in Entries : d = parts[1] /\ d = Head(parts)
  BY <1>2
<1>4. \/ d.part = "panel" /\ screen' = [q \in Parts |-> Blank]
      \/ d.part # "panel" /\ screen' = Draw(screen, d.part, d.look)
      \/ Drawing # {a} /\ screen' = [q \in Parts |-> Smeared]
  BY <1>1, <1>3 DEF lcd_fill
<1>5. d.part = "panel" \/ (d.part \in Parts /\ d.look \in Looks /\ d.part # "panel")
  BY EntriesAre
<1>6. ScreenTypes'
  BY <1>4, <1>5, DrawTypes DEF ShowInv, ScreenTypes
<1>7. SUFFICES ASSUME ~spoiled PROVE Alone' /\ Whole' /\ Shows'
  BY <1>2, <1>6 DEF ShowInv
<1>8. a \in Drawing /\ Drawing = {a}
  BY <1>1, <1>2, <1>7 DEF Drawing, ShowInv, Alone
<1>9. /\ todo'[a] = Tail(parts)
      /\ \A b \in Actor : b # a => todo'[b] = <<>>
  BY <1>2, <1>8 DEF Drawing, FaceTypes
<1>10. Drawing' \subseteq {a} /\ (Drawing' = {} => Tail(parts) = <<>>)
  BY <1>9 DEF Drawing
<1>12. d.part # "panel" =>
         /\ screen \in [Parts -> Looks \cup {Blank}]
         /\ screen' = [screen EXCEPT ![d.part] = d.look]
  BY <1>1, <1>3, <1>4, <1>5, <1>7, <1>8, DrawIs DEF ShowInv, Whole
<1>13. Whole'
  BY <1>4, <1>5, <1>6, <1>8, <1>12 DEF Whole, ScreenTypes
<1>14. ASSUME NEW q \in Parts, NEW l, WillShow(q, l)
       PROVE  WillShow(q, l)'
  <2>1. Leaves(parts, q, l)
    BY <1>1, <1>8, <1>14 DEF WillShow
  <2>2. Leaves(Tail(parts), q, l)'
    <3>1. ScreenTypes /\ screen' \in [Parts -> Looks \cup {Blank, Smeared}]
      BY <1>6 DEF ShowInv, ScreenTypes
    <3> QED BY <1>2, <1>3, <1>12, <2>1, <3>1, LeavesFirst
  <2>3. \A b \in Drawing' : b = a /\ todo'[b] = Tail(parts)
    BY <1>9, <1>10
  <2>4. Tail(parts) = <<>> => screen'[q] = l
    BY <2>2 DEF Leaves
  <2>5. \A b \in Drawing' : Leaves(todo[b], q, l)'
    BY <2>2, <2>3 DEF Leaves
  <2> QED BY <1>10, <2>4, <2>5 DEF WillShow
<1>15. Shows'
  <2>1. "eyes" \in Parts /\ "mouth" \in Parts
    BY DEF Parts
  <2>2. UNCHANGED <<task, shell, g_expr, g_redraw>>
    BY DEF lcd_fill, globals
  <2>3. SUFFICES ASSUME NEW t \in Begun', NEW l \in {Look(g_expr', TRUE)}
                 PROVE  /\ Pending(t)' \/ WillShow("eyes", l)'
                        /\ Pending(t)' \/ MouthMoves(t)' \/ WillShow("mouth", l)'
    BY DEF Shows, Shown
  <2>4. t \in Begun /\ l \in {Look(g_expr, TRUE)}
    BY <2>2 DEF Begun
  <2>5. /\ Pending(t) \/ WillShow("eyes", l)
        /\ Pending(t) \/ MouthMoves(t) \/ WillShow("mouth", l)
    BY <1>7, <2>4 DEF ShowInv, Shows, Shown
  <2>6. Pending(t)' = Pending(t) /\ MouthMoves(t)' = MouthMoves(t)
    BY <2>2 DEF Pending, MouthMoves
  <2> QED BY <1>14, <2>1, <2>5, <2>6
<1>16. Alone'
  BY <1>10 DEF Alone
<1> QED BY <1>13, <1>15, <1>16

\* A step that draws nothing: an order is on its way, or neither the face nor
\* what is to be done changes.
LEMMA QuietShow ==
  ASSUME ShowInv, UNCHANGED <<todo, screen, spoiled>>,
         \A t \in Begun' :
           \/ Pending(t)'
           \/ /\ t \in Begun /\ g_expr' = g_expr
              /\ ~Pending(t)
              /\ MouthMoves(t) => MouthMoves(t)'
  PROVE  ShowInv'
<1>1. Drawing' = Drawing
  BY DEF Drawing
<1>2. ScreenTypes' /\ (Alone => Alone') /\ (Whole => Whole')
  BY <1>1 DEF ShowInv, ScreenTypes, Alone, Whole
<1>3. ASSUME NEW q, NEW l, WillShow(q, l) PROVE WillShow(q, l)'
  BY <1>1, <1>3 DEF WillShow, Leaves
<1>4. ASSUME Shows PROVE Shows'
  <2>1. SUFFICES ASSUME NEW t \in Begun', NEW l \in {Look(g_expr', TRUE)}, ~Pending(t)'
                 PROVE  /\ WillShow("eyes", l)'
                        /\ MouthMoves(t)' \/ WillShow("mouth", l)'
    BY DEF Shows, Shown
  <2>2. /\ t \in Begun /\ l \in {Look(g_expr, TRUE)} /\ ~Pending(t)
        /\ MouthMoves(t) => MouthMoves(t)'
    BY <2>1
  <2>3. WillShow("eyes", l) /\ (MouthMoves(t) \/ WillShow("mouth", l))
    BY <1>4, <2>2 DEF Shows, Shown
  <2> QED BY <1>3, <2>2, <2>3
<1> QED BY <1>2, <1>4 DEF ShowInv

\* One actor alone starts to draw.
LEMMA NewDrawing ==
  ASSUME FaceTypes, NEW a \in Actor, NEW parts \in Seq(Entries), todo[a] = <<>>,
         Drawing \ {a} = {}, todo' = [todo EXCEPT ![a] = parts], screen' = screen, ScreenTypes,
         \/ screen \in [Parts -> Looks \cup {Blank}]
         \/ parts # <<>> /\ parts[1].part = "panel"
  PROVE  /\ Alone' /\ Whole'
         /\ \A q \in Parts : \A l : Leaves(parts, q, l) => WillShow(q, l)'
<1>1. todo'[a] = parts /\ \A b \in Actor : b # a => todo'[b] = <<>>
  BY DEF FaceTypes, Drawing
<1>2. Drawing' \subseteq {a} /\ (parts # <<>> => Drawing' = {a})
  BY <1>1 DEF Drawing
<1>3. Alone'
  BY <1>2 DEF Alone
<1>4. Whole'
  BY <1>1, <1>2 DEF Whole, ScreenTypes
<1>5. ASSUME NEW q \in Parts, NEW l, Leaves(parts, q, l) PROVE WillShow(q, l)'
  <2>1. CASE parts = <<>>
    <3>1. screen[q] = l
      BY <1>5, <2>1 DEF Leaves
    <3>2. Drawing' = {}
      BY <1>1, <1>2, <2>1 DEF Drawing
    <3> QED BY <3>1, <3>2 DEF WillShow
  <2>2. CASE parts # <<>>
    <3>1. \A b \in Drawing' : todo'[b] = parts
      BY <1>1, <1>2
    <3>2. \A b \in Drawing' : Leaves(todo[b], q, l)'
      BY <1>5, <3>1 DEF Leaves
    <3> QED BY <1>2, <2>2, <3>2 DEF WillShow
  <2> QED BY <2>1, <2>2
<1> QED BY <1>3, <1>4, <1>5

\* A routine that draws some of the face: it leaves what is asked for, or an
\* order for the rest is on its way.
LEMMA DrawsShow ==
  ASSUME FaceTypes, ShowInv, NEW a \in Actor, NEW parts \in Seq(Entries), todo[a] = <<>>,
         Draws(a, parts), screen' = screen, g_expr' = g_expr, Begun' \subseteq Begun,
         \A l \in {Look(g_expr, TRUE)} :
           /\ screen["eyes"] = l => Leaves(parts, "eyes", l)
           /\ \A t \in Begun' :
                /\ \/ Pending(t)'
                   \/ ~Pending(t)
                   \/ Leaves(parts, "eyes", l) /\ Leaves(parts, "mouth", l)
                /\ \/ MouthMoves(t)'
                   \/ Leaves(parts, "mouth", l)
                   \/ ~MouthMoves(t) /\ (screen["mouth"] = l => Leaves(parts, "mouth", l))
  PROVE  ShowInv'
<1>1. ScreenTypes'
  BY DEF ShowInv, ScreenTypes
<1>2. SUFFICES ASSUME ~spoiled' PROVE Alone' /\ Whole' /\ Shows'
  BY <1>1 DEF ShowInv
<1>3. ~spoiled /\ Drawing \ {a} = {} /\ todo' = [todo EXCEPT ![a] = parts]
  BY <1>2 DEF Draws
<1>4. Drawing = {}
  BY <1>3 DEF Drawing
<1>5. ScreenTypes /\ Shows /\ screen \in [Parts -> Looks \cup {Blank}]
  BY <1>3, <1>4 DEF ShowInv, Whole
<1>6. /\ Alone' /\ Whole'
      /\ \A q \in Parts : \A l : Leaves(parts, q, l) => WillShow(q, l)'
  BY <1>3, <1>5, NewDrawing
<1>7. SUFFICES ASSUME NEW t \in Begun', NEW l \in {Look(g_expr', TRUE)}, ~Pending(t)'
               PROVE  /\ WillShow("eyes", l)'
                      /\ MouthMoves(t)' \/ WillShow("mouth", l)'
  BY <1>6 DEF Shows, Shown
<1>8. t \in Begun /\ l \in {Look(g_expr, TRUE)} /\ "eyes" \in Parts /\ "mouth" \in Parts
  BY <1>7 DEF Parts
<1>9. /\ Pending(t) \/ WillShow("eyes", l)
      /\ Pending(t) \/ MouthMoves(t) \/ WillShow("mouth", l)
  BY <1>5, <1>8 DEF Shows, Shown
<1>10. /\ Pending(t) \/ screen["eyes"] = l
       /\ Pending(t) \/ MouthMoves(t) \/ screen["mouth"] = l
  BY <1>4, <1>9 DEF WillShow
<1>11. /\ Leaves(parts, "eyes", l)
       /\ MouthMoves(t)' \/ Leaves(parts, "mouth", l)
  BY <1>7, <1>8, <1>10
<1> QED BY <1>6, <1>8, <1>11

\* face_draw() draws everything, after the panel has been set up.
LEMMA DrawsFaceShow ==
  ASSUME FaceTypes, ShowInv, NEW a \in Actor, NEW e \in Expressions, todo[a] = <<>>,
         DrawsFace(a, e), screen' = screen, g_expr' = e
  PROVE  ShowInv'
<1>1. ScreenTypes' /\ ScreenTypes
  BY DEF ShowInv, ScreenTypes
<1>2. SUFFICES ASSUME ~spoiled' PROVE Alone' /\ Whole' /\ Shows'
  BY <1>1 DEF ShowInv
<1>3. PICK parts \in Seq(Entries) : parts = face_draw(e)
  BY DrawingsTypes
<1>4. Drawing \ {a} = {} /\ todo' = [todo EXCEPT ![a] = parts]
  BY <1>2, <1>3 DEF DrawsFace
<1>5. parts # <<>> /\ parts[1].part = "panel"
  <2>1. PICK x, y, z : parts = <<x, y, z>> /\ x = Clear
    BY <1>3, DrawingsAre
  <2> QED BY <2>1, EntriesAre
<1>6. /\ Alone' /\ Whole'
      /\ \A q \in Parts : \A l : Leaves(parts, q, l) => WillShow(q, l)'
  BY <1>1, <1>4, <1>5, NewDrawing
<1>7. PICK l : l = Look(e, TRUE)
  OBVIOUS
<1>8. WillShow("eyes", l)' /\ WillShow("mouth", l)'
  BY <1>3, <1>6, <1>7, DrawingsLeave DEF Parts
<1>9. Shows'
  BY <1>7, <1>8 DEF Shows, Shown
<1> QED BY <1>6, <1>9

\* A task that has begun runs.
LEMMA BegunLive == Begun \subseteq Live
BY DEF Begun, Live

\* Every step of the demo task leaves an order pending, or the face on its way.
LEMMA TaskShow ==
  ASSUME NEW o \in Shell, IInv(o), AtMostOneTask, FaceTypes, ShowInv, OnlyStarter(o),
         NEW t \in Pid, TaskStep(t)
  PROVE  ShowInv'
<1>0. /\ t \in Actor /\ g_expr \in Expressions
      /\ task \in [Pid -> [pc : TaskPc, talk_open : BOOLEAN]]
      /\ todo \in [Actor -> Seq(Entries)]
  BY DEF Actor, FaceTypes, IInv, Types
<1>1. t \in Live
  BY DEF TaskStep, TaskBegin, TaskPower, TaskTick, TaskTalk, TaskRedraw, TaskExpr, TaskBlink,
         TaskLook, TaskRest, At, Live
<1>2. \A u \in Live : u = t
  BY <1>1 DEF AtMostOneTask
<1>3. Begun \subseteq {t}
  BY <1>2, BegunLive
<1>4. ASSUME NEW pc, Goes(t, pc)
      PROVE  /\ task'[t].pc = pc /\ task'[t].talk_open = task[t].talk_open
             /\ \A u \in Pid : u # t => task'[u] = task[u]
  BY <1>0, <1>4 DEF Goes
<1>5. ASSUME \A u \in Pid : u # t => task'[u] = task[u] PROVE Begun' \subseteq {t}
  BY <1>3, <1>5 DEF Begun
<1>6. CASE Ends(t)
  <2>1. task'[t].pc = "ended" /\ \A u \in Pid : u # t => task'[u] = task[u]
    BY <1>0, <1>6 DEF Ends
  <2>2. Begun' = {}
    BY <1>5, <2>1 DEF Begun
  <2>3. UNCHANGED <<todo, screen, spoiled>>
    BY <1>6 DEF Ends
  <2> QED BY <2>2, <2>3, QuietShow
<1>7. CASE TaskBegin(t)
  <2>1. CASE DrawsFace(t, g_expr) /\ UNCHANGED <<globals, screen, shell, commands, unnamed>>
    <3>1. todo[t] = <<>> /\ screen' = screen /\ g_expr' = g_expr
      BY <1>7, <2>1 DEF TaskBegin, At, globals
    <3>2. PICK e \in Expressions : e = g_expr
      BY <1>0
    <3>3. DrawsFace(t, e) /\ g_expr' = e
      BY <2>1, <3>1, <3>2
    <3> QED BY <1>0, <3>1, <3>3, DrawsFaceShow
  <2> QED BY <1>6, <1>7, <2>1 DEF TaskBegin
<1>8. ASSUME NEW pc \in TaskPc, NEW from \in TaskPc, At(t, from), Goes(t, pc),
             from \notin {"none", "begin", "ended", "expr"},
             UNCHANGED <<g_expr, g_redraw, shell, todo, screen, spoiled>>
      PROVE  ShowInv'
  <2>1. /\ task'[t].pc = pc /\ task'[t].talk_open = task[t].talk_open
        /\ \A u \in Pid : u # t => task'[u] = task[u]
    BY <1>4, <1>8
  <2>2. Begun' \subseteq {t} /\ t \in Begun
    BY <1>5, <1>8, <2>1 DEF At, Begun
  <2>3. (Pending(t) => Pending(t)') /\ (MouthMoves(t) => MouthMoves(t)')
    BY <1>8, <2>1 DEF Pending, MouthMoves, At
  <2> QED BY <1>8, <2>2, <2>3, QuietShow
<1>9. CASE TaskPower(t)
  BY <1>8, <1>9 DEF TaskPower, globals
<1>10. CASE TaskTick(t)
  BY <1>8, <1>10 DEF TaskTick, globals
<1>11. CASE TaskLook(t)
  BY <1>8, <1>11 DEF TaskLook, globals
<1>12. CASE TaskRedraw(t)
  <2>1. UNCHANGED <<g_expr, shell, todo, screen, spoiled>> /\ task[t].pc = "redraw"
    BY <1>12 DEF TaskRedraw, At
  <2>2. PICK pc : Goes(t, pc) /\ pc = IF g_redraw THEN "expr" ELSE "blink"
    BY <1>12 DEF TaskRedraw
  <2>3. /\ task'[t].pc = pc /\ task'[t].talk_open = task[t].talk_open
        /\ \A u \in Pid : u # t => task'[u] = task[u]
    BY <1>4, <2>2
  <2>4. Begun' \subseteq {t} /\ t \in Begun
    BY <1>5, <2>1, <2>3 DEF Begun
  <2>5. (Pending(t) => Pending(t)') /\ (MouthMoves(t) => MouthMoves(t)')
    BY <2>1, <2>2, <2>3 DEF Pending, MouthMoves
  <2> QED BY <2>1, <2>4, <2>5, QuietShow
<1>13. CASE TaskTalk(t)
  <2>1. PICK open \in BOOLEAN :
          /\ open = (g_talking /\ ~task[t].talk_open)
          /\ task' = [task EXCEPT ![t].talk_open = open, ![t].pc = "redraw"]
          /\ IF g_talking \/ task[t].talk_open
             THEN Draws(t, face_mouth(IF open THEN SURPRISED ELSE g_expr))
             ELSE DrawsNothing
    BY <1>13 DEF TaskTalk
  <2>2. /\ UNCHANGED <<g_expr, g_redraw, shell, screen>>
        /\ task[t].pc = "talk" /\ todo[t] = <<>>
    BY <1>13 DEF TaskTalk, globals, At
  <2>3. /\ task'[t].pc = "redraw" /\ task'[t].talk_open = open
        /\ \A u \in Pid : u # t => task'[u] = task[u]
    BY <1>0, <2>1
  <2>4. Begun' \subseteq {t} /\ t \in Begun
    BY <1>5, <2>2, <2>3 DEF Begun
  <2>5. Pending(t) => Pending(t)'
    BY <2>2, <2>3 DEF Pending
  <2>6. CASE ~(g_talking \/ task[t].talk_open)
    <3>1. UNCHANGED <<todo, spoiled>>
      BY <2>1, <2>6 DEF DrawsNothing
    <3>2. MouthMoves(t) => MouthMoves(t)'
      BY <2>2, <2>6 DEF MouthMoves
    <3> QED BY <2>2, <2>4, <2>5, <3>1, <3>2, QuietShow
  <2>7. CASE open /\ Draws(t, face_mouth(SURPRISED))
    <3>1. PICK parts \in Seq(Entries) : parts = face_mouth(SURPRISED)
      BY DrawingsTypes, ExpressionsAre
    <3>2. \A l : screen["eyes"] = l => Leaves(parts, "eyes", l)
      BY <3>1, DrawingsLeave, ExpressionsAre
    <3>3. MouthMoves(t)'
      BY <2>3, <2>7 DEF MouthMoves
    <3> QED BY <1>0, <2>2, <2>4, <2>5, <2>7, <3>1, <3>2, <3>3, DrawsShow
  <2>8. CASE ~open /\ Draws(t, face_mouth(g_expr))
    <3>1. PICK parts \in Seq(Entries) : parts = face_mouth(g_expr)
      BY <1>0, DrawingsTypes
    <3>2. /\ \A l : screen["eyes"] = l => Leaves(parts, "eyes", l)
          /\ \A l \in {Look(g_expr, TRUE)} : Leaves(parts, "mouth", l)
      BY <1>0, <3>1, DrawingsLeave
    <3> QED BY <1>0, <2>2, <2>4, <2>5, <2>8, <3>1, <3>2, DrawsShow
  <2> QED BY <1>0, <2>1, <2>6, <2>7, <2>8
<1>14. CASE TaskExpr(t)
  <2>1. PICK parts \in Seq(Entries) : parts = face_expr(g_expr)
    BY <1>0, DrawingsTypes
  <2>2. \A l \in {Look(g_expr, TRUE)} :
          Leaves(parts, "eyes", l) /\ Leaves(parts, "mouth", l)
    BY <1>0, <2>1, DrawingsLeave DEF Parts
  <2>3. /\ Goes(t, "blink") /\ Draws(t, parts) /\ UNCHANGED <<g_expr, screen>>
        /\ task[t].pc = "expr" /\ todo[t] = <<>>
    BY <1>14, <2>1 DEF TaskExpr, globals, At
  <2>4. Begun' \subseteq Begun
    BY <1>4, <1>5, <2>3 DEF Begun
  <2> QED BY <1>0, <2>2, <2>3, <2>4, DrawsShow
<1>15. CASE TaskBlink(t)
  <2>1. /\ Goes(t, "look") /\ UNCHANGED <<g_expr, g_redraw, shell, screen>>
        /\ task[t].pc = "blink" /\ todo[t] = <<>>
        /\ Draws(t, face_blink(g_expr)) \/ UNCHANGED <<todo, spoiled>>
    BY <1>15 DEF TaskBlink, DrawsNothing, globals, At
  <2>2. /\ task'[t].pc = "look" /\ task'[t].talk_open = task[t].talk_open
        /\ \A u \in Pid : u # t => task'[u] = task[u]
    BY <1>4, <2>1
  <2>3. Begun' \subseteq {t} /\ t \in Begun
    BY <1>5, <2>1, <2>2 DEF Begun
  <2>4. (Pending(t) => Pending(t)') /\ (MouthMoves(t) => MouthMoves(t)')
    BY <2>1, <2>2 DEF Pending, MouthMoves
  <2>5. CASE UNCHANGED <<todo, spoiled>>
    BY <2>1, <2>3, <2>4, <2>5, QuietShow
  <2>6. CASE Draws(t, face_blink(g_expr))
    <3>1. PICK parts \in Seq(Entries) : parts = face_blink(g_expr)
      BY <1>0, DrawingsTypes
    <3>2. \A l \in {Look(g_expr, TRUE)} :
            Leaves(parts, "eyes", l) /\ (screen["mouth"] = l => Leaves(parts, "mouth", l))
      BY <1>0, <3>1, DrawingsLeave
    <3> QED BY <1>0, <2>1, <2>3, <2>4, <2>6, <3>1, <3>2, DrawsShow
  <2> QED BY <2>1, <2>5, <2>6
<1>16. CASE TaskRest(t)
  BY <1>6, <1>16 DEF TaskRest
<1> QED BY <1>7, <1>9, <1>10, <1>11, <1>12, <1>13, <1>14, <1>15, <1>16 DEF TaskStep

\* A command that draws nothing.
LEMMA QuietCommand ==
  ASSUME ShowInv, NEW s \in Shell, shell \in [Shell -> [pc : ShellPc, arg : Int]],
         UNCHANGED <<g_expr, g_redraw, todo, screen, spoiled>>,
         \A r \in Shell : r # s => shell'[r] = shell[r],
         shell[s].pc \notin {"flag", "moving"}, Begun' \subseteq Begun,
         \A t \in Begun' : task'[t] = task[t]
  PROVE  ShowInv'
<1>1. ASSUME NEW t \in Begun'
      PROVE  (Pending(t) => Pending(t)') /\ (MouthMoves(t) => MouthMoves(t)')
  BY DEF Pending, MouthMoves
<1> QED BY <1>1, QuietShow

\* So does every step of a command.
LEMMA CommandShow ==
  ASSUME NEW o \in Shell, IInv(o), FaceTypes, ShowInv, NEW s \in Shell,
         Enter(s) \/ ShellStep(s) \/ SayEnds(s) \/ SayMoves(s)
  PROVE  ShowInv'
<1>0. /\ s \in Actor /\ g_expr \in Expressions
      /\ task \in [Pid -> [pc : TaskPc, talk_open : BOOLEAN]]
      /\ todo \in [Actor -> Seq(Entries)]
      /\ shell \in [Shell -> [pc : ShellPc, arg : Int]]
  BY DEF Actor, FaceTypes, IInv, Types
<1>1. ASSUME NEW pc, NEW arg, ShellGoes(s, pc, arg)
      PROVE  shell'[s] = [pc |-> pc, arg |-> arg] /\ \A r \in Shell : r # s => shell'[r] = shell[r]
  BY <1>0, <1>1 DEF ShellGoes
<1>2. ASSUME ShellEnds(s)
      PROVE  shell'[s].pc = "idle" /\ \A r \in Shell : r # s => shell'[r] = shell[r]
  BY <1>0, <1>2 DEF ShellEnds, Idle
<1>3. ASSUME NEW from \in ShellPc, ShellAt(s, from), from \notin {"flag", "moving"},
             \A r \in Shell : r # s => shell'[r] = shell[r],
             UNCHANGED <<g_expr, g_redraw, todo, screen, spoiled, task>>
      PROVE  ShowInv'
  <2>1. Begun' \subseteq Begun
    BY <1>3 DEF Begun
  <2> QED BY <1>0, <1>3, <2>1, QuietCommand DEF ShellAt
<1>4. CASE Enter(s)
  <2>1. PICK pc, arg : ShellGoes(s, pc, arg)
    BY <1>4 DEF Enter
  <2> QED BY <1>1, <1>3, <1>4, <2>1 DEF Enter, globals
<1>5. CASE Start(s)
  <2>1. (\E pc, arg : ShellGoes(s, pc, arg)) \/ ShellEnds(s)
    BY <1>5 DEF Start
  <2> QED BY <1>1, <1>2, <1>3, <1>5, <2>1 DEF Start
<1>6. CASE Create(s)
  <2>1. (\E pc, arg : ShellGoes(s, pc, arg)) \/ ShellEnds(s)
    BY <1>6 DEF Create
  <2>2. \A r \in Shell : r # s => shell'[r] = shell[r]
    BY <1>1, <1>2, <2>1
  <2>3. UNCHANGED <<g_expr, g_redraw, todo, screen, spoiled>> /\ shell[s].pc = "create"
    BY <1>6 DEF Create, ShellAt
  <2>4. Begun' \subseteq Begun /\ \A t \in Begun' : task'[t] = task[t]
    <3>1. CASE UNCHANGED task
      BY <3>1 DEF Begun
    <3>2. CASE task' = [task EXCEPT ![NextPid].pc = "begin"]
      <4>1. PICK n \in Pid : n = NextPid
        BY <1>6 DEF Create, NextPid
      <4>2. task'[n].pc = "begin" /\ \A u \in Pid : u # n => task'[u] = task[u]
        BY <1>0, <3>2, <4>1
      <4> QED BY <4>2 DEF Begun
    <3> QED BY <1>6, <3>1, <3>2 DEF Create
  <2> QED BY <1>0, <2>2, <2>3, <2>4, QuietCommand
<1>7. CASE NotePid(s)
  BY <1>2, <1>3, <1>7 DEF NotePid
<1>8. CASE Stop(s)
  BY <1>2, <1>3, <1>8 DEF Stop
<1>9. CASE Face(s)
  <2>1. PICK pc, arg : ShellGoes(s, pc, arg)
    BY <1>9 DEF Face
  <2> QED BY <1>1, <1>3, <1>9, <2>1 DEF Face, globals
<1>10. CASE FaceAsk(s)
  <2>1. ShellGoes(s, "flag", 0) /\ UNCHANGED <<todo, screen, spoiled>>
    BY <1>10 DEF FaceAsk
  <2>2. shell'[s] = [pc |-> "flag", arg |-> 0]
    BY <1>1, <2>1
  <2>3. \A t \in Begun' : Pending(t)'
    BY <2>2 DEF Pending
  <2> QED BY <2>1, <2>3, QuietShow
<1>11. CASE FaceFlag(s)
  <2>1. g_redraw' /\ UNCHANGED <<todo, screen, spoiled>>
    BY <1>11 DEF FaceFlag
  <2>2. \A t \in Begun' : Pending(t)'
    BY <2>1 DEF Pending
  <2> QED BY <2>1, <2>2, QuietShow
<1>12. CASE FaceDraw(s)
  <2>1. PICK e \in Expressions : e = shell[s].arg
    BY <1>12 DEF FaceDraw, ShellAt, FaceTypes
  <2>2. todo[s] = <<>> /\ DrawsFace(s, e) /\ screen' = screen /\ g_expr' = e
    BY <1>12, <2>1 DEF FaceDraw, ShellAt
  <2> QED BY <1>0, <2>2, DrawsFaceShow
<1>13. CASE Say(s)
  <2>1. (\E pc, arg : ShellGoes(s, pc, arg)) \/ ShellEnds(s)
    BY <1>13 DEF Say
  <2> QED BY <1>1, <1>2, <1>3, <1>13, <2>1 DEF Say
<1>14. CASE SayEnds(s)
  BY <1>2, <1>3, <1>14 DEF SayEnds
<1>15. CASE BlinkOnce(s)
  <2>1. /\ shell[s].pc = "blink" /\ todo[s] = <<>> /\ UNCHANGED <<g_expr, g_redraw, task, screen>>
        /\ \A r \in Shell : r # s => shell'[r] = shell[r]
    BY <1>2, <1>15 DEF BlinkOnce, ShellAt, globals
  <2>2. CASE UNCHANGED <<todo, spoiled>>
    BY <1>3, <2>1, <2>2 DEF ShellAt
  <2>3. CASE Draws(s, face_blink(g_expr))
    <3>1. PICK parts \in Seq(Entries) : parts = face_blink(g_expr)
      BY <1>0, DrawingsTypes
    <3>2. \A l \in {Look(g_expr, TRUE)} :
            Leaves(parts, "eyes", l) /\ (screen["mouth"] = l => Leaves(parts, "mouth", l))
      BY <1>0, <3>1, DrawingsLeave
    <3>3. Begun' \subseteq Begun
      BY <2>1 DEF Begun
    <3>4. \A t \in Begun' : /\ Pending(t) => Pending(t)'
                            /\ MouthMoves(t) => MouthMoves(t)'
      BY <2>1 DEF Pending, MouthMoves
    <3> QED BY <1>0, <2>1, <2>3, <3>1, <3>2, <3>3, <3>4, DrawsShow
  <2> QED BY <1>15, <2>2, <2>3 DEF BlinkOnce, DrawsNothing
<1>16. CASE SayMoves(s)
  <2>1. /\ shell[s].pc = "moving" /\ todo[s] = <<>> /\ UNCHANGED <<g_expr, g_redraw, task, screen>>
        /\ \A r \in Shell : r # s => shell'[r] = shell[r]
    BY <1>2, <1>16 DEF SayMoves, ShellAt, globals
  <2>2. /\ Begun' \subseteq Begun
        /\ \A t \in Begun' : Pending(t) => Pending(t)'
    BY <2>1 DEF Begun, Pending
  <2>3. ASSUME NEW e \in Expressions
        PROVE  /\ face_mouth(e) \in Seq(Entries)
               /\ \A l : screen["eyes"] = l => Leaves(face_mouth(e), "eyes", l)
    BY DrawingsTypes, DrawingsLeave
  <2>4. CASE UNCHANGED shell /\ \E e \in {SURPRISED, g_expr} : Draws(s, face_mouth(e))
    <3>1. PICK e \in Expressions : Draws(s, face_mouth(e))
      BY <1>0, <2>4, ExpressionsAre
    <3>2. \A t \in Begun' : MouthMoves(t)'
      BY <2>1, <2>4 DEF MouthMoves
    <3> QED BY <1>0, <2>1, <2>2, <2>3, <3>1, <3>2, DrawsShow
  <2>5. CASE Draws(s, face_mouth(g_expr))
    <3>1. \A l \in {Look(g_expr, TRUE)} : Leaves(face_mouth(g_expr), "mouth", l)
      BY <1>0, DrawingsLeave
    <3> QED BY <1>0, <2>1, <2>2, <2>3, <2>5, <3>1, DrawsShow
  <2> QED BY <1>16, <2>4, <2>5 DEF SayMoves
<1> QED BY <1>4, <1>5, <1>6, <1>7, <1>8, <1>9, <1>10, <1>11, <1>12, <1>13, <1>14, <1>15, <1>16
        DEF ShellStep

\* No task has begun at boot.
LEMMA ShowInit == Init => ShowInv
<1> SUFFICES ASSUME Init PROVE ShowInv
  OBVIOUS
<1>1. Drawing = {} /\ Begun = {}
  BY DEF Init, Drawing, Begun
<1>2. screen \in [Parts -> Looks \cup {Blank}]
  BY DEF Init
<1> QED BY <1>1, <1>2 DEF ShowInv, ScreenTypes, Alone, Whole, Shows

\* So it holds in every state.
\* The demo task is alone, hence no other clears the order it is waiting for.
LEMMA ShowInvariant ==
  ASSUME NEW o \in Shell, OnlyStarter(o)
  PROVE  Spec => []ShowInv
<1>1. IInv(o) /\ AtMostOneTask /\ FaceTypes /\ ShowInv /\ [Next]_vars => ShowInv'
  <2> SUFFICES ASSUME IInv(o), AtMostOneTask, FaceTypes, ShowInv, [Next]_vars PROVE ShowInv'
    OBVIOUS
  <2>1. CASE \E a \in Actor : lcd_fill(a)
    BY <2>1, FillShow
  <2>2. CASE \E t \in Pid : TaskStep(t)
    BY <2>2, TaskShow
  <2>3. CASE \E s \in Shell : Enter(s) \/ ShellStep(s) \/ SayEnds(s) \/ SayMoves(s)
    BY <2>3, CommandShow
  <2>4. CASE UNCHANGED vars
    <3>1. UNCHANGED <<g_expr, g_redraw, todo, screen, spoiled, task, shell>>
      BY <2>4 DEF vars, globals
    <3>2. Begun' = Begun
      BY <3>1 DEF Begun
    <3>3. \A t \in Begun' : Pending(t)' = Pending(t) /\ MouthMoves(t)' = MouthMoves(t)
      BY <3>1 DEF Pending, MouthMoves
    <3> QED BY <3>1, <3>2, <3>3, QuietShow
  <2> QED BY <2>1, <2>2, <2>3, <2>4 DEF Next
<1> QED BY <1>1, ShowInit, Invariant, OneTask, FaceTypesInv, PTL DEF Spec

\* If one shell alone starts the demo, then whenever its task sleeps with no
\* redraw asked for, the panel shows the expression last asked for, whole,
\* eyes open and mouth closed, unless two actors drew at once or the panel
\* failed: for any number of shells and any order of their commands.
THEOREM FaceIsCurrent ==
  ASSUME NEW o \in Shell, OnlyStarter(o)
  PROVE  Spec => []ShownIsCurrent
<1>1. ShowInv => ShownIsCurrent
  <2> SUFFICES ASSUME ShowInv, NEW t \in Live, At(t, "top"), ~task[t].talk_open, ~g_redraw,
                      ~spoiled, Drawing = {}, \A s \in Shell : Settled(s), NEW q \in Parts
               PROVE  screen[q] = Look(g_expr, TRUE)
    BY DEF ShownIsCurrent
  <2>1. t \in Begun /\ ~Pending(t) /\ ~MouthMoves(t)
    BY DEF At, Live, Begun, Pending, MouthMoves, Settled
  <2>2. PICK l : l = Look(g_expr, TRUE)
    OBVIOUS
  <2>3. WillShow("eyes", l) /\ WillShow("mouth", l)
    BY <2>1, <2>2 DEF ShowInv, Shows, Shown
  <2> QED BY <2>2, <2>3 DEF WillShow, Parts
<1> QED BY <1>1, ShowInvariant, PTL

=============================================================================
