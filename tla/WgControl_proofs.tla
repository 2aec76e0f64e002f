-------------------------- MODULE WgControl_proofs --------------------------
(***************************************************************************)
(* wg0 going up and down by commands that do not overlap: for every number *)
(* of tasks that task_create() may give out, and whatever fails or times   *)
(* out, one receive task at most runs, it has its socket, and nothing is   *)
(* left behind.                                                            *)
(*                                                                         *)
(* s is the one shell. The resources of wg_initialize() are taken and      *)
(* given back in one order, so each is held in an interval of its steps.   *)
(***************************************************************************)
EXTENDS WgControl, TLAPS

\* The receive task may be alive: from task_create() to the wait of wg_down().
MayRun(s) ==
  \/ at[s] \in {"ifup", "set registered", "wait", "give up"}
  \/ at[s] = "shell" /\ registered

HasSocket(s) == MayRun(s) \/ at[s] \in {"netdev_register", "run", "task_create"}

ClosesSocket(s) ==
  at[s] \in {"work_cancel", "ifdown", "netdev_unregister", "psock_close"}

HasNetdev(s) ==
  \/ MayRun(s)
  \/ at[s] \in {"run", "task_create", "work_cancel", "ifdown", "netdev_unregister"}

HasAddress(s) == MayRun(s) \/ at[s] \in {"work_cancel", "ifdown"}

Types ==
  /\ at \in [Shell -> {"shell"} \cup InitSteps \cup DownSteps]
  /\ rx \in [Task -> {"free", "loop", "body", "leaving"}]

\* registered is false throughout wg_initialize() and true while wg_down() can
\* still give up.
Registered(s) ==
  /\ at[s] \in InitSteps => ~registered
  /\ at[s] \in {"wait", "give up"} => registered

Resources(s) ==
  /\ HasSocket(s) => socket
  /\ socket => HasSocket(s) \/ ClosesSocket(s)
  /\ netdev => HasNetdev(s)
  /\ bifup => HasAddress(s)

\* rxtask_done is the word of the task that it is gone: it is never set while a
\* task is alive, and it is cleared before the next one is created.
OneTask(s) ==
  /\ \A t, u \in Task : Alive(t) /\ Alive(u) => t = u
  /\ \A t \in Task : Alive(t) => MayRun(s) /\ ~rxtask_done
  /\ at[s] \in {"psock_socket", "netdev_register", "run", "task_create"}
       => ~rxtask_done

IInv(s) == Types /\ Registered(s) /\ Resources(s) /\ OneTask(s)

USE DEF InitSteps, DownSteps

-----------------------------------------------------------------------------

LEMMA InitInv ==
  ASSUME NEW s, Shell = {s}, Init
  PROVE  IInv(s)
BY DEF Init, IInv, Types, Registered, Resources, OneTask, MayRun, HasSocket,
       ClosesSocket, HasNetdev, HasAddress, Alive

\* Each step of wg_initialize() takes the next resource, or gives back what was
\* taken.
LEMMA InitializingInv ==
  ASSUME NEW s, Shell = {s}, IInv(s), Initializing(s)
  PROVE  IInv(s)'
<1> USE DEF IInv, Types, Registered, Resources, OneTask, MayRun, HasSocket, ClosesSocket,
           HasNetdev, HasAddress, Alive, Goto
<1>1. CASE wg_initialize(s)
  BY <1>1 DEF wg_initialize
<1>2. CASE Memset(s)
  BY <1>2 DEF Memset
<1>3. CASE PsockSocket(s)
  <2>1. CASE socket' = TRUE /\ Goto(s, "netdev_register")
    BY <1>3, <2>1 DEF PsockSocket
  <2>2. CASE socket' = FALSE /\ Goto(s, "shell")
    BY <1>3, <2>2 DEF PsockSocket
  <2> QED BY <1>3, <2>1, <2>2 DEF PsockSocket
<1>4. CASE NetdevRegister(s)
  <2>1. CASE netdev' = TRUE /\ Goto(s, "run") /\ UNCHANGED socket
    BY <1>4, <2>1 DEF NetdevRegister
  <2>2. CASE socket' = FALSE /\ Goto(s, "shell") /\ UNCHANGED netdev
    BY <1>4, <2>2 DEF NetdevRegister
  <2> QED BY <1>4, <2>1, <2>2 DEF NetdevRegister
<1>5. CASE Run(s)
  BY <1>5 DEF Run
<1>6. CASE TaskCreate(s)
  <2>1. CASE Goto(s, "ifup") /\ UNCHANGED <<netdev, socket>>
    <3>1. PICK t \in Task : rx[t] = "free" /\ rx' = [rx EXCEPT ![t] = "loop"]
      BY <1>6, <2>1 DEF TaskCreate
    <3>2. \A u \in Task : rx[u] = "free"
      BY <1>6 DEF TaskCreate
    <3>3. at'[s] = "ifup" /\ Types'
      BY <2>1, <3>1
    <3>4. \A u \in Task : Alive(u)' => u = t
      BY <3>1, <3>2
    <3>5. OneTask(s)'
      BY <1>6, <3>3, <3>4 DEF TaskCreate
    <3>6. Registered(s)' /\ Resources(s)'
      BY <1>6, <2>1, <3>3 DEF TaskCreate
    <3> QED BY <3>3, <3>5, <3>6
  <2>2. CASE netdev' = FALSE /\ socket' = FALSE /\ Goto(s, "shell") /\ UNCHANGED rx
    BY <1>6, <2>2 DEF TaskCreate
  <2> QED BY <1>6, <2>1, <2>2 DEF TaskCreate
<1>7. CASE ConfigureAddress(s)
  BY <1>7 DEF ConfigureAddress
<1>8. CASE SetRegistered(s)
  BY <1>8 DEF SetRegistered
<1> QED BY <1>1, <1>2, <1>3, <1>4, <1>5, <1>6, <1>7, <1>8 DEF Initializing

\* Each step of wg_down() gives back the next resource, once the task is gone.
LEMMA GoingDownInv ==
  ASSUME NEW s, Shell = {s}, IInv(s), GoingDown(s)
  PROVE  IInv(s)'
<1> USE DEF IInv, Types, Registered, Resources, OneTask, MayRun, HasSocket, ClosesSocket,
           HasNetdev, HasAddress, Alive, Goto
<1>1. CASE wg_down(s)
  BY <1>1 DEF wg_down
<1>2. CASE WaitForTask(s)
  <2>1. CASE rxtask_done /\ Goto(s, "work_cancel")
    BY <1>2, <2>1 DEF WaitForTask
  <2>2. CASE Goto(s, "give up")
    BY <1>2, <2>2 DEF WaitForTask
  <2> QED BY <1>2, <2>1, <2>2 DEF WaitForTask
<1>3. CASE GiveUp(s)
  BY <1>3 DEF GiveUp
<1>4. CASE WorkCancel(s)
  BY <1>4 DEF WorkCancel
<1>5. CASE Ifdown(s)
  BY <1>5 DEF Ifdown
<1>6. CASE NetdevUnregister(s)
  BY <1>6 DEF NetdevUnregister
<1>7. CASE PsockClose(s)
  BY <1>7 DEF PsockClose
<1>8. CASE CryptoZero(s)
  BY <1>8 DEF CryptoZero
<1>9. CASE ClearRegistered(s)
  BY <1>9 DEF ClearRegistered
<1> QED BY <1>1, <1>2, <1>3, <1>4, <1>5, <1>6, <1>7, <1>8, <1>9 DEF GoingDown

\* The task runs, or leaves and says so.
LEMMA TaskInv ==
  ASSUME NEW s, Shell = {s}, IInv(s), NEW t \in Task, wg_rx_task(t)
  PROVE  IInv(s)'
<1> USE DEF IInv, Types, Registered, Resources, OneTask, MayRun, HasSocket, ClosesSocket,
           HasNetdev, HasAddress, Alive, RxMove
<1>1. CASE RxCheck(t)
  BY <1>1 DEF RxCheck
<1>2. CASE RxBody(t)
  BY <1>2 DEF RxBody
<1>3. CASE RxDone(t)
  BY <1>3 DEF RxDone
<1> QED BY <1>1, <1>2, <1>3 DEF wg_rx_task

\* The transmit work changes only itself.
LEMMA WorkInv ==
  ASSUME NEW s, IInv(s),
         UNCHANGED <<at, registered, rxtask_done, bifup, netdev, socket, rx>>
  PROVE  IInv(s)'
BY DEF IInv, Types, Registered, Resources, OneTask, MayRun, HasSocket, ClosesSocket,
       HasNetdev, HasAddress, Alive

LEMMA Invariant ==
  ASSUME NEW s, Shell = {s}
  PROVE  Spec => []IInv(s)
<1>1. Init => IInv(s)
  BY InitInv
<1>2. IInv(s) /\ [Next]_vars => IInv(s)'
  <2> SUFFICES ASSUME IInv(s), [Next]_vars PROVE IInv(s)'
    OBVIOUS
  <2>1. CASE \E r \in Shell : Initializing(r) \/ GoingDown(r)
    BY <2>1, InitializingInv, GoingDownInv
  <2>2. CASE \E t \in Task : wg_rx_task(t)
    BY <2>2, TaskInv
  <2>3. CASE wg_txavail \/ wg_txavail_work \/ UNCHANGED vars
    BY <2>3, WorkInv
       DEF wg_txavail, wg_txavail_work, TxWorkStart, TxWorkPoll, TxWorkSent, vars
  <2> QED BY <2>1, <2>2, <2>3 DEF Next
<1> QED BY <1>1, <1>2, PTL DEF Spec

-----------------------------------------------------------------------------

\* With commands that do not overlap, one wg_rx_task() at most is alive, and
\* its socket is open as long as it may use it: whatever wg_initialize() fails
\* to get, and however often wg_down() gives up.
THEOREM OneTaskAtATime ==
  ASSUME NEW s, Shell = {s}
  PROVE  Spec => []OneTaskWithItsSocket
<1>1. IInv(s) => OneTaskWithItsSocket
  BY DEF IInv, OneTask, Resources, HasSocket, OneTaskWithItsSocket, Alive
<1> QED BY <1>1, Invariant, PTL

\* After "wg down", and after a "wg up" that failed, there is no device, no
\* socket, no address and no task.
THEOREM DownIsClean ==
  ASSUME NEW s, Shell = {s}
  PROVE  Spec => []NothingLeftBehind
<1>1. IInv(s) => NothingLeftBehind
  BY DEF IInv, OneTask, Resources, HasSocket, ClosesSocket, HasNetdev, HasAddress,
         MayRun, NothingLeftBehind
<1> QED BY <1>1, Invariant, PTL

=============================================================================
