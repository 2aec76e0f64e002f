----------------------------- MODULE WgControl -----------------------------
(***************************************************************************)
(* wg0 going up and down: wg_initialize() and wg_down() run by the tasks   *)
(* of the "wg" command, against the two contexts that use g_wg meanwhile,  *)
(* the task wg_rx_task() and the work queue running wg_txavail_work().     *)
(* There is no lock around wg_initialize() and wg_down(); net_lock() is    *)
(* held only where a step below says so. A step is what the code does      *)
(* between two points at which another task can see the difference.        *)
(*                                                                         *)
(* "at" is where a command is: the name of the step it takes next.         *)
(***************************************************************************)
EXTENDS Naturals

CONSTANTS
  Shell,           \* tasks that run wg commands; with one, commands never overlap
  MaxTasks,        \* bound: tasks created by task_create()
  SendMayRelease   \* whether psock_sendto() may let go of net_lock() to wait

ASSUME ControlAssumption == MaxTasks \in Nat /\ SendMayRelease \in BOOLEAN

VARIABLES
  at,              \* Shell -> the next step of its command
  registered,      \* priv->registered
  running,         \* priv->running
  rxtask_done,     \* priv->rxtask_done
  bifup,           \* priv->bifup, and IFF_UP of priv->dev
  netdev,          \* priv->dev is in the stack's list of devices
  socket,          \* priv->psock is open
  keys,            \* priv->wg holds a private key or sessions
  rx,              \* task -> where an instance of wg_rx_task() is
  txwork           \* priv->txwork: whether it is queued, and where the worker is

vars == <<at, registered, running, rxtask_done, bifup, netdev, socket, keys, rx, txwork>>

Task == 1 .. MaxTasks

InitSteps == {"memset", "psock_socket", "netdev_register", "run", "task_create",
              "ifup", "set registered"}
DownSteps == {"wait", "give up", "work_cancel", "ifdown", "netdev_unregister",
              "psock_close", "crypto_zero", "clear registered"}

Goto(s, step) == at' = [at EXCEPT ![s] = step]

-----------------------------------------------------------------------------
(* wg_initialize()                                                         *)

\* The private key and the entropy source are checked; a failure leaves no trace.
wg_initialize(s) ==
  /\ at[s] = "shell"
  /\ ~registered
  /\ Goto(s, "memset")
  /\ UNCHANGED <<registered, running, rxtask_done, bifup, netdev, socket, keys, rx, txwork>>

\* Everything in the structure is zeroed. If txwork is still in the work queue
\* its links and its worker go too, and it may or may not be run.
Memset(s) ==
  /\ at[s] = "memset"
  /\ Goto(s, "psock_socket")
  /\ registered' = FALSE /\ running' = FALSE /\ rxtask_done' = FALSE
  /\ bifup' = FALSE
  /\ keys' = TRUE
  /\ txwork' \in {txwork, txwork \ {"queued"}}
  /\ UNCHANGED <<netdev, socket, rx>>

\* psock_socket() and psock_bind(); wireguard_device_init() before them and
\* wg_configure_peer() after have filled priv->wg. A failure returns.
PsockSocket(s) ==
  /\ at[s] = "psock_socket"
  /\ \/ socket' = TRUE /\ Goto(s, "netdev_register")
     \/ socket' = FALSE /\ Goto(s, "shell")
  /\ UNCHANGED <<registered, running, rxtask_done, bifup, netdev, keys, rx, txwork>>

NetdevRegister(s) ==
  /\ at[s] = "netdev_register"
  /\ \/ netdev' = TRUE /\ Goto(s, "run") /\ UNCHANGED socket
     \/ socket' = FALSE /\ Goto(s, "shell") /\ UNCHANGED netdev
  /\ UNCHANGED <<registered, running, rxtask_done, bifup, keys, rx, txwork>>

Run(s) ==
  /\ at[s] = "run"
  /\ running' = TRUE
  /\ Goto(s, "task_create")
  /\ UNCHANGED <<registered, rxtask_done, bifup, netdev, socket, keys, rx, txwork>>

\* Mutant: a failure leaves the device registered.
TaskCreate_LeavesDevice(s) ==
  /\ at[s] = "task_create"
  /\ \/ /\ \E t \in Task :
             /\ rx[t] = "free"
             /\ rx' = [rx EXCEPT ![t] = "loop"]
        /\ Goto(s, "ifup")
        /\ UNCHANGED <<netdev, socket>>
     \/ socket' = FALSE /\ Goto(s, "shell") /\ UNCHANGED <<netdev, rx>>
  /\ UNCHANGED <<registered, running, rxtask_done, bifup, keys, txwork>>

\* A failure takes the device and the socket back, and leaves running set.
TaskCreate(s) ==
  /\ at[s] = "task_create"
  /\ \/ /\ \E t \in Task :
             /\ rx[t] = "free"
             /\ rx' = [rx EXCEPT ![t] = "loop"]
        /\ Goto(s, "ifup")
        /\ UNCHANGED <<netdev, socket>>
     \/ netdev' = FALSE /\ socket' = FALSE /\ Goto(s, "shell") /\ UNCHANGED rx
  /\ UNCHANGED <<registered, running, rxtask_done, bifup, keys, txwork>>

\* wg_configure_address(), under net_lock().
ConfigureAddress(s) ==
  /\ at[s] = "ifup"
  /\ bifup' = TRUE
  /\ Goto(s, "set registered")
  /\ UNCHANGED <<registered, running, rxtask_done, netdev, socket, keys, rx, txwork>>

SetRegistered(s) ==
  /\ at[s] = "set registered"
  /\ registered' = TRUE
  /\ Goto(s, "shell")
  /\ UNCHANGED <<running, rxtask_done, bifup, netdev, socket, keys, rx, txwork>>

-----------------------------------------------------------------------------
(* wg_down()                                                               *)

wg_down(s) ==
  /\ at[s] = "shell"
  /\ registered
  /\ running' = FALSE
  /\ Goto(s, "wait")
  /\ UNCHANGED <<registered, rxtask_done, bifup, netdev, socket, keys, rx, txwork>>

\* Mutant: after the wait wg_down() goes on whether the task is done or not.
WaitForTask_NotChecked(s) ==
  /\ at[s] = "wait"
  /\ Goto(s, "work_cancel")
  /\ UNCHANGED <<registered, running, rxtask_done, bifup, netdev, socket, keys, rx, txwork>>

\* Mutant: wg_down() waits for the task, however long that takes.
WaitForTask_NoLimit(s) ==
  /\ at[s] = "wait"
  /\ rxtask_done
  /\ Goto(s, "work_cancel")
  /\ UNCHANGED <<registered, running, rxtask_done, bifup, netdev, socket, keys, rx, txwork>>

\* The task is done, or WG_DOWN_WAIT_MSECS have passed: nothing bounds how long
\* the task is kept from running or waits in psock_sendto().
WaitForTask(s) ==
  /\ at[s] = "wait"
  /\ IF rxtask_done THEN Goto(s, "work_cancel") ELSE Goto(s, "give up")
  /\ UNCHANGED <<registered, running, rxtask_done, bifup, netdev, socket, keys, rx, txwork>>

\* "leaving wg0 up"
GiveUp(s) ==
  /\ at[s] = "give up"
  /\ running' = TRUE
  /\ Goto(s, "shell")
  /\ UNCHANGED <<registered, rxtask_done, bifup, netdev, socket, keys, rx, txwork>>

\* A worker that has started is not waited for.
WorkCancel(s) ==
  /\ at[s] = "work_cancel"
  /\ txwork' = txwork \ {"queued"}
  /\ Goto(s, "ifdown")
  /\ UNCHANGED <<registered, running, rxtask_done, bifup, netdev, socket, keys, rx>>

\* Under net_lock(), as is the worker while it polls.
Ifdown(s) ==
  /\ at[s] = "ifdown"
  /\ bifup' = FALSE
  /\ Goto(s, "netdev_unregister")
  /\ UNCHANGED <<registered, running, rxtask_done, netdev, socket, keys, rx, txwork>>

NetdevUnregister(s) ==
  /\ at[s] = "netdev_unregister"
  /\ netdev' = FALSE
  /\ Goto(s, "psock_close")
  /\ UNCHANGED <<registered, running, rxtask_done, bifup, socket, keys, rx, txwork>>

PsockClose(s) ==
  /\ at[s] = "psock_close"
  /\ socket' = FALSE
  /\ Goto(s, "crypto_zero")
  /\ UNCHANGED <<registered, running, rxtask_done, bifup, netdev, keys, rx, txwork>>

CryptoZero(s) ==
  /\ at[s] = "crypto_zero"
  /\ keys' = FALSE
  /\ Goto(s, "clear registered")
  /\ UNCHANGED <<registered, running, rxtask_done, bifup, netdev, socket, rx, txwork>>

ClearRegistered(s) ==
  /\ at[s] = "clear registered"
  /\ registered' = FALSE
  /\ Goto(s, "shell")
  /\ UNCHANGED <<running, rxtask_done, bifup, netdev, socket, keys, rx, txwork>>

-----------------------------------------------------------------------------
(* wg_rx_task()                                                            *)

RxMove(t, from, to) == rx[t] = from /\ rx' = [rx EXCEPT ![t] = to]

\* while (priv->running)
RxCheck(t) ==
  /\ RxMove(t, "loop", IF running THEN "body" ELSE "leaving")
  /\ UNCHANGED <<at, registered, running, rxtask_done, bifup, netdev, socket, keys, txwork>>

\* One pass of the loop: it uses the socket and priv->wg throughout. The inner
\* loop drains the socket and does not look at running, so the pass lasts as
\* long as datagrams keep coming, or as psock_sendto() waits.
RxBody(t) ==
  /\ RxMove(t, "body", "loop")
  /\ UNCHANGED <<at, registered, running, rxtask_done, bifup, netdev, socket, keys, txwork>>

RxDone(t) ==
  /\ RxMove(t, "leaving", "free")
  /\ rxtask_done' = TRUE
  /\ UNCHANGED <<at, registered, running, bifup, netdev, socket, keys, txwork>>

-----------------------------------------------------------------------------
(* The transmit work.                                                      *)

Worker == {"started", "sending"}

\* The stack has data for wg0, found by its address in the list of devices. The
\* work is available again as soon as the worker has taken it.
wg_txavail ==
  /\ netdev /\ bifup
  /\ "queued" \notin txwork
  /\ txwork' = txwork \cup {"queued"}
  /\ UNCHANGED <<at, registered, running, rxtask_done, bifup, netdev, socket, keys, rx>>

\* The one thread of the LPWORK queue takes the work, and wg_txavail_work() gets
\* net_lock() and looks at bifup. If psock_sendto() must wait it may release the
\* lock meanwhile.
TxWorkStart ==
  /\ txwork = {"queued"}
  /\ txwork' = {"started"}
  /\ UNCHANGED <<at, registered, running, rxtask_done, bifup, netdev, socket, keys, rx>>

TxWorkPoll ==
  /\ "started" \in txwork
  /\ \/ txwork' = txwork \ {"started"}
     \/ bifup /\ SendMayRelease /\ txwork' = (txwork \ {"started"}) \cup {"sending"}
  /\ UNCHANGED <<at, registered, running, rxtask_done, bifup, netdev, socket, keys, rx>>

TxWorkSent ==
  /\ "sending" \in txwork
  /\ txwork' = txwork \ {"sending"}
  /\ UNCHANGED <<at, registered, running, rxtask_done, bifup, netdev, socket, keys, rx>>

-----------------------------------------------------------------------------

Init ==
  /\ at = [s \in Shell |-> "shell"]
  /\ registered = FALSE /\ running = FALSE /\ rxtask_done = FALSE
  /\ bifup = FALSE /\ netdev = FALSE /\ socket = FALSE /\ keys = FALSE
  /\ rx = [t \in Task |-> "free"]
  /\ txwork = {}

Initializing(s) ==
  \/ wg_initialize(s) \/ Memset(s) \/ PsockSocket(s) \/ NetdevRegister(s)
  \/ Run(s) \/ TaskCreate(s) \/ ConfigureAddress(s) \/ SetRegistered(s)

GoingDown(s) ==
  \/ wg_down(s) \/ WaitForTask(s) \/ GiveUp(s) \/ WorkCancel(s) \/ Ifdown(s)
  \/ NetdevUnregister(s) \/ PsockClose(s) \/ CryptoZero(s) \/ ClearRegistered(s)

wg_rx_task(t) == RxCheck(t) \/ RxBody(t) \/ RxDone(t)

wg_txavail_work == TxWorkStart \/ TxWorkPoll \/ TxWorkSent

Next ==
  \/ \E s \in Shell : Initializing(s) \/ GoingDown(s)
  \/ \E t \in Task : wg_rx_task(t)
  \/ wg_txavail
  \/ wg_txavail_work

\* The scheduler runs a command to its end; a pass of wg_rx_task() need not
\* end, and nobody has to type a command.
Fairness ==
  /\ \A s \in Shell :
       WF_vars(at[s] # "shell" /\ (Initializing(s) \/ GoingDown(s)))
  /\ \A t \in Task : WF_vars(RxCheck(t)) /\ WF_vars(RxDone(t))
  /\ WF_vars(wg_txavail_work)

Spec == Init /\ [][Next]_vars /\ Fairness

-----------------------------------------------------------------------------

TypeOK ==
  /\ at \in [Shell -> {"shell"} \cup InitSteps \cup DownSteps]
  /\ {registered, running, rxtask_done, bifup, netdev, socket, keys} \subseteq BOOLEAN
  /\ rx \in [Task -> {"free", "loop", "body", "leaving"}]
  /\ txwork \subseteq {"queued"} \cup Worker

Alive(t) == rx[t] # "free"

\* However often wg0 goes up and down, fails on the way or does not stop in
\* time, there is one wg_rx_task() at most, and it has its socket: none reads
\* from a socket another one owns, or that wg_down() has closed under it.
OneTaskWithItsSocket ==
  /\ \A t, u \in Task : Alive(t) /\ Alive(u) => t = u
  /\ (\E t \in Task : rx[t] \in {"loop", "body"}) => socket

\* After "wg down", and after a "wg up" that failed, nothing of the interface
\* is left: no device in the stack, no socket, no task (wg_down, and the error
\* returns of wg_initialize).
NothingLeftBehind ==
  (\A s \in Shell : at[s] = "shell") /\ ~registered =>
    ~netdev /\ ~socket /\ ~bifup /\ \A t \in Task : ~Alive(t)

\* "wg up" and "wg down" return to the shell: a receive task that is busy for
\* as long as it likes holds a command up for WG_DOWN_WAIT_MSECS at most.
CommandsReturn == \A s \in Shell : at[s] # "shell" ~> at[s] = "shell"

\* code-review-2026-08.md, of wg_down(): on a timeout it returns -ETIMEDOUT,
\* sets running again and does not leave a half-broken state behind. So an
\* interface that is up has the task that receives for it. This fails: the task
\* may have read running before it is set again, and leave its loop all the same.
UpIsServed ==
  (\A s \in Shell : at[s] = "shell") /\ registered => \E t \in Task : Alive(t)

\* wg_down(), before it wipes the keys: "Nothing references the device any
\* more".
NothingReferencesTheDevice ==
  \A s \in Shell : at[s] = "crypto_zero" =>
    /\ txwork = {}
    /\ \A t \in Task : ~Alive(t)

=============================================================================
