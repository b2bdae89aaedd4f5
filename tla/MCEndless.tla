----------------------------- MODULE MCEndless -----------------------------
(***************************************************************************)
(* Three programs whose threads never end: a behaviour runs the printers   *)
(* of H2O.cxx, the server of tcp_server.cxx or the tasks of type-erase.cxx.*)
(***************************************************************************)
EXTENDS Integers

CONSTANTS Clients, MAX_EVENTS, BUFFER_SIZE, Message, listening_socket

VARIABLES program,
          version, pc, mtx, cnt, word, print_cnt, shadow, printed,
          cpc, transit, inbox, answers, backlog, ready, registered, events, failed,
          vec, holder, t_pc, cur, nested, done, order

waterVars == <<version, pc, mtx, cnt, word, print_cnt, shadow, printed>>
serverVars == <<cpc, transit, inbox, answers, backlog, ready, registered, events, failed>>
taskVars == <<vec, holder, t_pc, cur, nested, done, order>>
vars == <<program, waterVars, serverVars, taskVars>>

Water == INSTANCE H2O WITH x <- word
Server == INSTANCE TcpServer
Tasks == INSTANCE TypeErase WITH pc <- t_pc

ASSUME Constants == Server!TcpServerAssumption /\ Tasks!TypeEraseAssumption

\* What a program does not use is at rest.
NoWater ==
  /\ version = "none" /\ pc = [t \in Water!Atoms |-> "none"] /\ mtx = FALSE
  /\ cnt = Water!Nothing /\ word = 0 /\ print_cnt = 0 /\ shadow = cnt /\ printed = cnt
NoServer ==
  /\ cpc = [c \in Clients |-> "answered"] /\ transit = [c \in Clients |-> 0]
  /\ inbox = transit /\ answers = transit /\ backlog = <<>> /\ ready = <<>>
  /\ registered = {} /\ events = <<>> /\ failed = FALSE
NoTasks ==
  /\ t_pc = [t \in Tasks!Threads |-> "end"] /\ vec = <<>> /\ holder = "free"
  /\ cur = <<>> /\ nested = {} /\ done = <<>> /\ order = <<>>

Init ==
  /\ program \in {"H2O", "tcp_server", "type-erase"}
  /\ IF program = "H2O" THEN Water!Init ELSE NoWater
  /\ IF program = "tcp_server" THEN Server!Init ELSE NoServer
  /\ IF program = "type-erase" THEN Tasks!Init ELSE NoTasks

WaterStep == program = "H2O" /\ Water!Next /\ UNCHANGED <<program, serverVars, taskVars>>
ServerStep == program = "tcp_server" /\ Server!Next /\ UNCHANGED <<program, waterVars, taskVars>>
TaskStep == program = "type-erase" /\ Tasks!Next /\ UNCHANGED <<program, waterVars, serverVars>>

Next == WaterStep \/ ServerStep \/ TaskStep

\* Nothing is enabled in the programs that do not run.
Spec ==
  /\ Init /\ [][Next]_vars
  /\ Water!Fairness /\ Server!Fairness /\ Tasks!Fairness

\* H2O: two H and one O a round, and the assertions in the code hold.
WaterRounds == Water!RoundsOfWater /\ Water!AssertionsHold

\* H2O: the rounds go on.
WaterGoesOn == program = "H2O" => Water!RoundsGoOn

\* The server: an event that is handled is still true, and no edge is lost.
ServerEvents == Server!AssertionsHold /\ Server!EventsTrue /\ Server!NoEdgeLost

\* The server: connections are accepted and messages read.
ServerReads == Server!EverythingRead

\* type-erase: tasks run once and in order, under a mutex that excludes the
\* clients, and a task that submits hangs for good.
TasksInOrder ==
  /\ [](Tasks!Guarded /\ Tasks!RunsInOrder /\ Tasks!HangsInNested)
  /\ Tasks!HangsForGood

\* type-erase: no task is slept through.
TasksExecuted == Tasks!TasksRun
=============================================================================
