------------------------------- MODULE ScDemo -------------------------------
(***************************************************************************)
(* The Stack-chan demo application (demo/stackchan/stackchan_main.c): the  *)
(* background task that "stackchan start" creates, and the commands other  *)
(* shells (the console, telnet over the tunnel) run at the same time.      *)
(* They share the globals g_running, g_demo_pid, g_expr, g_redraw and      *)
(* g_talking, without a lock, and the panel. A step is one access to a     *)
(* global, or two that follow each other at once: Start, FaceDraw, Say,    *)
(* TaskTalk and TaskRedraw are such pairs, and nobody comes between them.  *)
(* (TaskRedraw tests and clears g_redraw. A face asked for in between is   *)
(* drawn all the same, for g_expr is read in a later step.)                *)
(*                                                                         *)
(* A drawing routine queues what it draws (todo); lcd_fill takes it to the *)
(* panel part by part. If two actors have something queued at once, their  *)
(* window commands and pixels may mix.                                     *)
(***************************************************************************)
EXTENDS ScFace, Sequences

CONSTANTS
  Shell,        \* the shells
  Commands,     \* the commands each of them runs
  Faces,        \* the expressions they ask for
  MaxTasks,     \* bound: starts
  MaxCommands   \* bound: commands in all

ASSUME DemoAssumption ==
  /\ MaxTasks \in Nat
  /\ Faces \subseteq Expressions
  /\ \A s \in Shell : Commands[s] \subseteq {"start", "stop", "face", "say", "blink"}

NoPid == -1
Pid == 1 .. MaxTasks
Actor == Shell \cup Pid

VARIABLES
  g_running, g_demo_pid, g_expr, g_redraw, g_talking,
  todo,      \* per actor, the parts its drawing routine has still to draw
  screen,    \* per part, the look on the panel
  task,      \* per task: where it is, and talk_open
  shell,     \* per shell: where its command is, and its argument
  commands,  \* commands run so far
  spoiled,   \* history: two actors drew at once, or lcd_init() failed
  unnamed    \* history: tasks that ended before start had noted their pid

globals == <<g_running, g_demo_pid, g_expr, g_redraw, g_talking>>
vars == <<globals, todo, screen, task, shell, commands, spoiled, unnamed>>

-----------------------------------------------------------------------------
(* Drawing.                                                                *)

Clear == [part |-> "panel", look |-> Look(NEUTRAL, TRUE)]
face_eyes(e, open) == <<[part |-> "eyes", look |-> Look(e, open)]>>
face_mouth(e) == <<[part |-> "mouth", look |-> Look(e, TRUE)]>>
face_expr(e) == face_eyes(e, TRUE) \o face_mouth(e)
face_draw(e) == <<Clear>> \o face_expr(e)
face_blink(e) == face_eyes(e, FALSE) \o face_eyes(e, TRUE)

Drawing == {a \in Actor : todo[a] # <<>>}

\* The actor a calls a drawing routine.
Draws(a, parts) ==
  /\ todo' = [todo EXCEPT ![a] = parts]
  /\ spoiled' = (spoiled \/ Drawing \ {a} # {})

\* face_draw(): lcd_init() sets the panel up, or fails and nothing is drawn.
DrawsFace(a, e) ==
  \/ /\ todo' = [todo EXCEPT ![a] = face_draw(e)]
     /\ spoiled' = (Drawing \ {a} # {})
  \/ /\ spoiled' = TRUE
     /\ UNCHANGED todo

DrawsNothing == UNCHANGED <<todo, spoiled>>

\* One part reaches the panel; what two actors draw at once may smear.
lcd_fill(a) ==
  /\ todo[a] # <<>>
  /\ todo' = [todo EXCEPT ![a] = Tail(@)]
  /\ \/ screen' = LET d == Head(todo[a])
                  IN  IF d.part = "panel" THEN [q \in Parts |-> Blank]
                      ELSE Draw(screen, d.part, d.look)
     \/ /\ Drawing # {a}
        /\ screen' = [q \in Parts |-> Smeared]
  /\ UNCHANGED <<globals, task, shell, commands, spoiled, unnamed>>

-----------------------------------------------------------------------------
(* The demo task.                                                          *)

Live == {t \in Pid : task[t].pc \notin {"none", "ended"}}

\* The task t is at pc and has drawn what it had to draw.
At(t, pc) == task[t].pc = pc /\ todo[t] = <<>>

Goes(t, pc) == task' = [task EXCEPT ![t].pc = pc]

\* Mutant: the task forgets to give its pid up.
Ends_KeepsPid(t) ==
  /\ task' = [task EXCEPT ![t].pc = "ended"]
  /\ unnamed' = IF g_demo_pid = t THEN unnamed ELSE unnamed \cup {t}
  /\ UNCHANGED <<globals, todo, screen, shell, commands, spoiled>>

\* What follows when task t gives its pid up: it ends.
Ends(t) ==
  /\ g_demo_pid' = NoPid
  /\ task' = [task EXCEPT ![t].pc = "ended"]
  /\ unnamed' = IF g_demo_pid = t THEN unnamed ELSE unnamed \cup {t}
  /\ UNCHANGED <<g_running, g_expr, g_redraw, g_talking, todo, screen, shell, commands, spoiled>>

\* sc_alloc() finds no memory and the task ends, or face_draw() follows.
TaskBegin(t) ==
  /\ At(t, "begin")
  /\ \/ Ends(t)
     \/ /\ DrawsFace(t, g_expr)
        /\ Goes(t, "power")
        /\ UNCHANGED <<globals, screen, shell, commands, unnamed>>

\* py32_wait(), led_set() and servo_power(): whether the PY32 answers or all
\* the tries time out, the task goes on.
TaskPower(t) ==
  /\ At(t, "power")
  /\ Goes(t, "top")
  /\ UNCHANGED <<globals, todo, screen, shell, commands, spoiled, unnamed>>

\* The test of g_running that begins a tick.
TaskTick(t) ==
  /\ At(t, "top")
  /\ Goes(t, IF g_running THEN "talk" ELSE "rest")
  /\ UNCHANGED <<globals, todo, screen, shell, commands, spoiled, unnamed>>

\* Mutant: speaking, the task does nothing but move the mouth.
TaskTalk_UntilQuiet(t) ==
  /\ At(t, "talk")
  /\ LET open == g_talking /\ ~task[t].talk_open
     IN  /\ task' = [task EXCEPT ![t].talk_open = open,
                                 ![t].pc = IF g_talking THEN "talk" ELSE "redraw"]
         /\ IF g_talking \/ task[t].talk_open
            THEN Draws(t, face_mouth(IF open THEN SURPRISED ELSE g_expr))
            ELSE DrawsNothing
  /\ UNCHANGED <<globals, screen, shell, commands, unnamed>>

\* Speaking, the mouth opens and closes; afterwards it is closed.
TaskTalk(t) ==
  /\ At(t, "talk")
  /\ LET open == g_talking /\ ~task[t].talk_open
     IN  /\ task' = [task EXCEPT ![t].talk_open = open, ![t].pc = "redraw"]
         /\ IF g_talking \/ task[t].talk_open
            THEN Draws(t, face_mouth(IF open THEN SURPRISED ELSE g_expr))
            ELSE DrawsNothing
  /\ UNCHANGED <<globals, screen, shell, commands, unnamed>>

\* g_redraw is tested and cleared,
TaskRedraw(t) ==
  /\ At(t, "redraw")
  /\ g_redraw' = FALSE
  /\ Goes(t, IF g_redraw THEN "expr" ELSE "blink")
  /\ UNCHANGED <<g_running, g_demo_pid, g_expr, g_talking, todo, screen, shell, commands,
                 spoiled, unnamed>>

\* and g_expr is read for the drawing after that.
TaskExpr(t) ==
  /\ At(t, "expr")
  /\ Draws(t, face_expr(g_expr))
  /\ Goes(t, "blink")
  /\ UNCHANGED <<globals, screen, shell, commands, unnamed>>

\* Mutant: the redraw flag is cleared (again) once the drawing is done.
TaskBlink_ClearsRedraw(t) ==
  /\ At(t, "blink")
  /\ g_redraw' = FALSE
  /\ DrawsNothing
  /\ Goes(t, "look")
  /\ UNCHANGED <<g_running, g_demo_pid, g_expr, g_talking, screen, shell, commands, unnamed>>

\* Every few seconds the eyes blink.
TaskBlink(t) ==
  /\ At(t, "blink")
  /\ \/ Draws(t, face_blink(g_expr))
     \/ DrawsNothing
  /\ Goes(t, "look")
  /\ UNCHANGED <<globals, screen, shell, commands, unnamed>>

\* Every few seconds the head moves; without servo power, another try to
\* switch it on comes first, and if it fails the head waits for a later
\* tick. Then the tick sleeps.
TaskLook(t) ==
  /\ At(t, "look")
  /\ Goes(t, "top")
  /\ UNCHANGED <<globals, todo, screen, shell, commands, spoiled, unnamed>>

\* The head goes to rest, torque and LEDs go off, the task ends.
TaskRest(t) ==
  /\ At(t, "rest")
  /\ Ends(t)

TaskStep(t) ==
  \/ TaskBegin(t)
  \/ TaskPower(t)
  \/ TaskTick(t)
  \/ TaskTalk(t)
  \/ TaskRedraw(t)
  \/ TaskExpr(t)
  \/ TaskBlink(t)
  \/ TaskLook(t)
  \/ TaskRest(t)

-----------------------------------------------------------------------------
(* The commands. A shell runs one at a time.                               *)

Idle == [pc |-> "idle", arg |-> 0]

\* The command of shell s is at pc and has drawn what it had to draw.
ShellAt(s, pc) == shell[s].pc = pc /\ todo[s] = <<>>

ShellGoes(s, pc, arg) == shell' = [shell EXCEPT ![s] = [pc |-> pc, arg |-> arg]]
ShellEnds(s) == shell' = [shell EXCEPT ![s] = Idle]

\* The argument of face: an expression, or the one shown now if there is none.
AskedFaces == Faces \cup {g_expr}

\* The user enters a command.
Enter(s) ==
  /\ ShellAt(s, "idle")
  /\ commands < MaxCommands
  /\ \E c \in Commands[s], e \in AskedFaces :
       /\ c = "start" => \E t \in Pid : task[t].pc = "none"
       /\ c # "face" => e = g_expr
       /\ ShellGoes(s, c, IF c = "face" THEN e ELSE 0)
  /\ commands' = commands + 1
  /\ UNCHANGED <<globals, todo, screen, task, spoiled, unnamed>>

\* Mutant: start tests the flag that stop clears.
Start_TestsRunning(s) ==
  /\ ShellAt(s, "start")
  /\ IF g_running
     THEN ShellEnds(s) /\ UNCHANGED g_running
     ELSE g_running' = TRUE /\ ShellGoes(s, "create", 0)
  /\ UNCHANGED <<g_demo_pid, g_expr, g_redraw, g_talking, todo, screen, task, commands,
                 spoiled, unnamed>>

\* start: "already running", or g_running is set.
Start(s) ==
  /\ ShellAt(s, "start")
  /\ IF g_demo_pid >= 0
     THEN ShellEnds(s) /\ UNCHANGED g_running
     ELSE g_running' = TRUE /\ ShellGoes(s, "create", 0)
  /\ UNCHANGED <<g_demo_pid, g_expr, g_redraw, g_talking, todo, screen, task, commands,
                 spoiled, unnamed>>

\* A pid that no task has had yet.
NextPid == CHOOSE t \in Pid : task[t].pc = "none"

\* task_create() makes the task, or fails.
Create(s) ==
  /\ ShellAt(s, "create")
  /\ \E t \in Pid : task[t].pc = "none"
  /\ \/ /\ task' = [task EXCEPT ![NextPid].pc = "begin"]
        /\ ShellGoes(s, "note", NextPid)
        /\ UNCHANGED g_running
     \/ /\ g_running' = FALSE
        /\ ShellEnds(s)
        /\ UNCHANGED task
  /\ UNCHANGED <<g_demo_pid, g_expr, g_redraw, g_talking, todo, screen, commands, spoiled,
                 unnamed>>

\* g_demo_pid = ret
NotePid(s) ==
  /\ ShellAt(s, "note")
  /\ g_demo_pid' = shell[s].arg
  /\ ShellEnds(s)
  /\ UNCHANGED <<g_running, g_expr, g_redraw, g_talking, todo, screen, task, commands, spoiled,
                 unnamed>>

Stop(s) ==
  /\ ShellAt(s, "stop")
  /\ g_running' = FALSE
  /\ ShellEnds(s)
  /\ UNCHANGED <<g_demo_pid, g_expr, g_redraw, g_talking, todo, screen, task, commands, spoiled,
                 unnamed>>

\* face: the demo task is to draw it, or the command does.
Face(s) ==
  /\ ShellAt(s, "face")
  /\ ShellGoes(s, IF g_demo_pid >= 0 THEN "ask" ELSE "draw", shell[s].arg)
  /\ UNCHANGED <<globals, todo, screen, task, commands, spoiled, unnamed>>

FaceAsk(s) ==
  /\ ShellAt(s, "ask")
  /\ g_expr' = shell[s].arg
  /\ ShellGoes(s, "flag", 0)
  /\ UNCHANGED <<g_running, g_demo_pid, g_redraw, g_talking, todo, screen, task, commands,
                 spoiled, unnamed>>

FaceFlag(s) ==
  /\ ShellAt(s, "flag")
  /\ g_redraw' = TRUE
  /\ ShellEnds(s)
  /\ UNCHANGED <<g_running, g_demo_pid, g_expr, g_talking, todo, screen, task, commands,
                 spoiled, unnamed>>

FaceDraw(s) ==
  /\ ShellAt(s, "draw")
  /\ g_expr' = shell[s].arg
  /\ DrawsFace(s, shell[s].arg)
  /\ ShellEnds(s)
  /\ UNCHANGED <<g_running, g_demo_pid, g_redraw, g_talking, screen, task, commands, unnamed>>

\* say: the amplifier, the player or the panel fails, or it plays; then either
\* the demo task moves the mouth, or the command does.
Say(s) ==
  /\ ShellAt(s, "say")
  /\ \/ ShellEnds(s) /\ UNCHANGED g_talking
     \/ IF g_demo_pid >= 0
        THEN g_talking' = TRUE /\ ShellGoes(s, "playing", 0)
        ELSE UNCHANGED g_talking /\ ShellGoes(s, "moving", 0)
  /\ UNCHANGED <<g_running, g_demo_pid, g_expr, g_redraw, todo, screen, task, commands,
                 spoiled, unnamed>>

SayEnds(s) ==
  /\ ShellAt(s, "playing")
  /\ g_talking' = FALSE
  /\ ShellEnds(s)
  /\ UNCHANGED <<g_running, g_demo_pid, g_expr, g_redraw, todo, screen, task, commands,
                 spoiled, unnamed>>

\* The command opens or closes the mouth, or closes it for the last time.
SayMoves(s) ==
  /\ ShellAt(s, "moving")
  /\ \/ /\ \E e \in {SURPRISED, g_expr} : Draws(s, face_mouth(e))
        /\ UNCHANGED shell
     \/ Draws(s, face_mouth(g_expr)) /\ ShellEnds(s)
  /\ UNCHANGED <<globals, screen, task, commands, unnamed>>

\* blink draws for itself, whether or not the demo runs, if it can open the
\* panel.
BlinkOnce(s) ==
  /\ ShellAt(s, "blink")
  /\ \/ Draws(s, face_blink(g_expr))
     \/ DrawsNothing
  /\ ShellEnds(s)
  /\ UNCHANGED <<globals, screen, task, commands, unnamed>>

ShellStep(s) ==
  \/ Start(s)
  \/ Create(s)
  \/ NotePid(s)
  \/ Stop(s)
  \/ Face(s)
  \/ FaceAsk(s)
  \/ FaceFlag(s)
  \/ FaceDraw(s)
  \/ Say(s)
  \/ BlinkOnce(s)

-----------------------------------------------------------------------------

Init ==
  /\ g_running = FALSE
  /\ g_demo_pid = NoPid
  /\ g_expr = NEUTRAL
  /\ g_redraw = FALSE
  /\ g_talking = FALSE
  /\ todo = [a \in Actor |-> <<>>]
  /\ screen = [q \in Parts |-> Blank]
  /\ task = [t \in Pid |-> [pc |-> "none", talk_open |-> FALSE]]
  /\ shell = [s \in Shell |-> Idle]
  /\ commands = 0
  /\ spoiled = FALSE
  /\ unnamed = {}

Next ==
  \/ \E a \in Actor : lcd_fill(a)
  \/ \E t \in Pid : TaskStep(t)
  \/ \E s \in Shell : Enter(s) \/ ShellStep(s) \/ SayEnds(s) \/ SayMoves(s)

\* The scheduler runs every task and every command that has work to do;
\* users need not enter commands, and a recording need not end.
Fairness ==
  /\ \A a \in Actor : WF_vars(lcd_fill(a))
  /\ \A t \in Pid : WF_vars(TaskStep(t))
  /\ \A s \in Shell : WF_vars(ShellStep(s))

Spec == Init /\ [][Next]_vars /\ Fairness

-----------------------------------------------------------------------------
(* Properties.                                                             *)

TaskPc == {"none", "begin", "power", "top", "talk", "redraw", "expr", "blink", "look", "rest",
           "ended"}

ShellPc == {"idle", "start", "create", "note", "stop", "face", "ask", "flag", "draw", "say",
            "playing", "moving", "blink"}

\* Only the shell s starts the demo.
OnlyStarter(s) == \A r \in Shell : "start" \in Commands[r] => r = s

\* Where only one shell starts it, the demo runs at most once: neither a
\* stop that is still moving the head to rest nor a second start, at any
\* moment, leaves two tasks at the servos.
AtMostOneTask ==
  (\E s \in Shell : OnlyStarter(s)) => \A t, u \in Live : t = u

\* A pid that status reports is that of a task that runs, unless that task
\* ended before start had noted it.
NamedTaskLives == g_demo_pid # NoPid => g_demo_pid \in Live \cup unnamed

\* No command stands between the expression and the panel.
Settled(s) == shell[s].pc \notin {"flag", "moving"}

\* When the demo task sleeps and no redraw is asked for, the panel shows the
\* expression last asked for, whole, eyes open and mouth closed: no order of
\* face, say, blink, start and stop leaves an old or mixed face behind, but
\* for drawings that two actors made at once.
ShownIsCurrent ==
  \A t \in Live :
    At(t, "top") /\ ~task[t].talk_open /\ ~g_redraw /\ ~spoiled /\ Drawing = {}
      /\ (\A s \in Shell : Settled(s))
    => \A q \in Parts : screen[q] = Look(g_expr, TRUE)

\* Whatever is queued to be drawn lies on the panel, each fill of it fits the
\* transactions that lcd_fill() has room for, and clears what it replaces.
DrawsFitThePanel ==
  \A a \in Actor : \A i \in DOMAIN todo[a] :
    LET d == todo[a][i]
    IN  IF d.part = "panel" THEN Transactions(Panel) <= MaxTransactions
        ELSE FitsPanel[d.part][d.look] /\ ClearedByBox[d.part][d.look]
               /\ KeepsOther[d.part][d.look]

\* A stopped demo ends, whatever it is drawing, saying or waiting for, unless
\* it is started again.
StopIsHeeded == ~g_running ~> (Live = {} \/ g_running)

\* A face that the command left to the demo task is taken up by it, unless
\* the demo is stopped (or has no memory to run).
FaceIsTakenUp == (g_redraw /\ g_running /\ Live # {}) ~> (~g_redraw \/ ~g_running \/ Live = {})

=============================================================================
