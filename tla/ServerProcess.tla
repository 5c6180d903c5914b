---------------------------- MODULE ServerProcess ----------------------------
(***************************************************************************)
(* The life of the server program: main creates the logger and the server, *)
(* runs it, waits for a newline and destroys it, while the io threads of   *)
(* asio2 run the server's callbacks, which use its members and log.        *)
(* asio2 is external: it runs the callbacks of a session one at a time,    *)
(* and its stop returns when every session was told of its end.            *)
(***************************************************************************)
EXTENDS Integers, Sequences, SequencesExt

CONSTANTS
    Session,        \* the clients that may connect
    Io              \* the io threads (concurrency)

VARIABLES
    program,        \* what main does, statement by statement
    pc,             \* the statement it is at
    instance,       \* logger::instance_
    wrote,          \* history: the loggers that were given a message
    members,        \* the members of the server that are alive
    binding,        \* is main inside the assignment of on_connect_cb_?
    asio,           \* the state of server_
    session,        \* is a client away or connected?
    thread,         \* what each io thread does
    typed           \* is there a newline on the standard input?

mainvars == << program, pc, members, binding >>
vars == << program, pc, instance, wrote, members, binding, asio, session,
           thread, typed >>

-----------------------------------------------------------------------------
(* main, with the logger created when somebody may have logged already, or *)
(* with the callback bound when the server runs.                           *)
StandaloneLoggerLate ==
    << "create_server", "bind_connect", "run", "create_logger", "wait", "destroy" >>
StandaloneBindLate ==
    << "create_logger", "create_server", "run", "bind_connect", "wait", "destroy" >>

Standalone ==
    << "create_logger", "create_server", "bind_connect", "run", "wait", "destroy" >>

(* A program that leaves the logger to logger::get.                        *)
WithoutLogger == << "create_server", "bind_connect", "run", "wait", "destroy" >>

Idle == [does |-> "nothing"]

Init ==
    /\ program \in {Standalone, WithoutLogger}
    /\ pc = 1 /\ members = << >> /\ binding = FALSE
    /\ instance = "null" /\ wrote = {}
    /\ asio = "stopped"
    /\ session = [s \in Session |-> "away"]
    /\ thread = [t \in Io |-> Idle]
    /\ typed = FALSE

At(statement) == pc <= Len(program) /\ program[pc] = statement
Exited == pc > Len(program)

-----------------------------------------------------------------------------
(* main.                                                                   *)

(* logger::create: without effect if there is a logger already.            *)
CreateLogger ==
    /\ At("create_logger")
    /\ instance' = IF instance = "null" THEN "user" ELSE instance
    /\ pc' = pc + 1
    /\ UNCHANGED << program, wrote, members, binding, asio, session, thread, typed >>

(* The members of the server in the order they are declared in.            *)
AllMembers == << "server_", "data_table_", "on_connect_cb_", "on_disconnect_cb_" >>

CreateServer ==
    /\ At("create_server")
    /\ members' = AllMembers
    /\ pc' = pc + 1
    /\ UNCHANGED << program, instance, wrote, binding, asio, session, thread, typed >>

(* bind_connect moves a std::function, which takes a while.                *)
BindConnect ==
    /\ At("bind_connect")
    /\ binding' = ~binding
    /\ pc' = IF binding THEN pc + 1 ELSE pc
    /\ UNCHANGED << program, instance, wrote, members, asio, session, thread, typed >>

(* run drops the result of start, which fails if the port is taken.        *)
Run ==
    /\ At("run")
    /\ asio' \in {"starting", "stopped"}
    /\ pc' = pc + 1
    /\ UNCHANGED << program, instance, wrote, members, binding, session, thread, typed >>

(* getchar, until it is the end of the input and not of a line.            *)
WaitForEnd ==
    /\ At("wait") /\ FALSE
    /\ UNCHANGED vars

(* getchar, until the end of a line: everything else is skipped, the end   *)
(* of the input as well.                                                   *)
Wait ==
    /\ At("wait") /\ typed
    /\ typed' = FALSE
    /\ pc' = pc + 1
    /\ UNCHANGED << program, instance, wrote, members, binding, asio, session, thread >>

(* ~server: stop.                                                          *)
Stop ==
    /\ At("destroy") /\ asio = "running"
    /\ asio' = "stopping"
    /\ UNCHANGED << mainvars, instance, wrote, session, thread, typed >>

(* A destructor that leaves it to the destructor of server_ to stop.       *)
DestroyUnstopped ==
    /\ At("destroy") /\ Len(members) > 1
    /\ members' = Front(members)
    /\ UNCHANGED << program, pc, binding, instance, wrote, asio, session, thread, typed >>

(* Members that go in the order they were made in.                         *)
DestroyInOrder ==
    /\ At("destroy") /\ asio = "stopped" /\ members # << >>
    /\ members' = Tail(members)
    /\ pc' = IF Len(members) = 1 THEN pc + 1 ELSE pc
    /\ UNCHANGED << program, binding, instance, wrote, asio, session, thread, typed >>

(* stop has returned: the members go, the last one first.                  *)
Destroy ==
    /\ At("destroy") /\ asio = "stopped" /\ members # << >>
    /\ members' = Front(members)
    /\ pc' = IF Len(members) = 1 THEN pc + 1 ELSE pc
    /\ UNCHANGED << program, binding, instance, wrote, asio, session, thread, typed >>

Main ==
    CreateLogger \/ CreateServer \/ BindConnect \/ Run \/ Wait \/ Stop \/ Destroy

-----------------------------------------------------------------------------
(* The io threads.                                                         *)
Doing(t, does, at) == thread[t].does = does /\ thread[t].at = at
Move(t, at) == thread' = [thread EXCEPT ![t].at = at]
Alone(s) == \A t \in Io : thread[t] # Idle => thread[t].ses # s

(* asio2 calls a callback: of a session, or of the server.                 *)
SessionCallback(t, s, does) ==
    /\ thread[t] = Idle /\ Alone(s)
    /\ thread' = [thread EXCEPT ![t] = [does |-> does, ses |-> s, at |-> "use"]]
    /\ UNCHANGED << mainvars, instance, wrote, asio, session, typed >>
ServerCallback(t, does, first) ==
    /\ thread[t] = Idle
    /\ thread' = [thread EXCEPT ![t] = [does |-> does, ses |-> "server", at |-> first]]
    /\ UNCHANGED << mainvars, instance, wrote, asio, session, typed >>

Connect(t, s) ==
    asio = "running" /\ session[s] = "away" /\ SessionCallback(t, s, "connect")
Receive(t, s) ==
    asio = "running" /\ session[s] = "open" /\ SessionCallback(t, s, "receive")
Leave(t, s) ==
    asio = "running" /\ session[s] = "open" /\ SessionCallback(t, s, "disconnect")
Started(t) ==
    asio = "starting" /\ Alone("server") /\ ServerCallback(t, "start", "use")
Closed(t, s) ==
    asio = "stopping" /\ session[s] = "open" /\ SessionCallback(t, s, "disconnect")
Stopped(t) ==
    /\ asio = "stopping"
    /\ \A s \in Session : session[s] = "away"
    /\ \A u \in Io : thread[u] = Idle
    /\ ServerCallback(t, "stop", "get")

(* A callback returns.                                                     *)
Return(t) ==
    LET c == thread[t] IN
    /\ thread' = [thread EXCEPT ![t] = Idle]
    /\ session' = CASE c.does = "connect" -> [session EXCEPT ![c.ses] = "open"]
                    [] c.does = "disconnect" -> [session EXCEPT ![c.ses] = "away"]
                    [] OTHER -> session
    /\ asio' = CASE c.does = "start" -> "running"
                 [] c.does = "stop" -> "stopped"
                 [] OTHER -> asio

(* Where a callback may be.  First it uses members of the server: on_start *)
(* asks server_ for its address, on_connect and on_disconnect call their   *)
(* callback on the table, on_receive takes the pointer out of data_table_; *)
(* on_stop uses none.  Then it logs, and on_receive goes on to handle the  *)
(* packet, on the table it took the pointer to.                            *)
Stages == {"use", "get", "create", "store", "log", "handle"}

Uses(does) ==
    CASE does = "start" -> {"server_"}
      [] does = "connect" -> {"on_connect_cb_", "data_table_"}
      [] does = "disconnect" -> {"on_disconnect_cb_", "data_table_"}
      [] does = "receive" -> {"data_table_"}
      [] OTHER -> {}

UseMembers(t) ==
    /\ thread[t] # Idle /\ thread[t].at = "use"
    /\ Move(t, "get")
    /\ UNCHANGED << mainvars, instance, wrote, asio, session, typed >>

Handle(t) ==
    /\ thread[t] # Idle /\ thread[t].at = "handle"
    /\ Return(t)
    /\ UNCHANGED << mainvars, instance, wrote, typed >>

(* logger::get: is there a logger?  If not, create looks again, makes the  *)
(* default one, the same for all threads, and stores it.                   *)
Get(t) ==
    /\ thread[t] # Idle /\ thread[t].at \in {"get", "create"}
    /\ Move(t, IF instance # "null" THEN "log"
               ELSE IF thread[t].at = "get" THEN "create" ELSE "store")
    /\ UNCHANGED << mainvars, instance, wrote, asio, session, typed >>
Store(t) ==
    /\ thread[t] # Idle /\ thread[t].at = "store"
    /\ instance' = "default"
    /\ Move(t, "log")
    /\ UNCHANGED << mainvars, wrote, asio, session, typed >>

(* get reads instance_ again; its logger writes the message.               *)
Log(t) ==
    /\ thread[t] # Idle /\ thread[t].at = "log"
    /\ wrote' = wrote \cup {instance}
    /\ IF thread[t].does = "receive"
       THEN Move(t, "handle") /\ UNCHANGED << asio, session >>
       ELSE Return(t)
    /\ UNCHANGED << mainvars, instance, typed >>

(* What an io thread does by itself, and what clients make it do.          *)
IoStep(t) ==
    \/ Started(t) \/ Stopped(t) \/ \E s \in Session : Closed(t, s)
    \/ UseMembers(t) \/ Get(t) \/ Store(t) \/ Log(t) \/ Handle(t)
ClientStep(t) == \E s \in Session : Connect(t, s) \/ Receive(t, s) \/ Leave(t, s)

(* The user types a line.                                                  *)
TypeLine ==
    /\ ~typed /\ ~Exited
    /\ typed' = TRUE
    /\ UNCHANGED << mainvars, instance, wrote, asio, session, thread >>

Next ==
    \/ Main
    \/ \E t \in Io : IoStep(t) \/ ClientStep(t)
    \/ TypeLine

Spec == Init /\ [][Next]_vars

(* main and the io threads run; nobody has to connect or to type.          *)
FairSpec == Spec /\ WF_vars(Main) /\ \A t \in Io : WF_vars(IoStep(t))

-----------------------------------------------------------------------------
(* The state is well typed; the members that live are those made first,    *)
(* and all are gone when the program ends.                                 *)
TypeOK ==
    /\ pc \in 1 .. Len(program) + 1
    /\ instance \in {"null", "default", "user"}
    /\ asio \in {"stopped", "starting", "running", "stopping"}
    /\ session \in [Session -> {"away", "open"}]
    /\ \A t \in Io : thread[t] # Idle => thread[t].at \in Stages
    /\ IsPrefix(members, AllMembers)
    /\ Exited => members = << >> /\ \A t \in Io : thread[t] = Idle

(* No callback uses a member of the server that is destroyed already, or   *)
(* not yet made: the destructor stops the server before its members go.    *)
MembersAlive ==
    \A t \in Io :
        thread[t] # Idle /\ thread[t].at \in {"use", "handle"} =>
            Uses(thread[t].does) \subseteq ToSet(members)

(* No thread calls on_connect_cb_ while main assigns it.                   *)
CallbackWhole ==
    \A t \in Io : thread[t] # Idle /\ Doing(t, "connect", "use") => ~binding

(* All messages of a program go to one logger: the one the program made,   *)
(* or the default one, though any number of threads may create it.         *)
OneLogger ==
    wrote \subseteq {IF Contains(program, "create_logger") THEN "user" ELSE "default"}

(* The inductive invariant.  What lives when: the members are those made   *)
(* first, all of them while main is past their construction and before the *)
(* end, and also at the end until the server has stopped.                  *)
MembersOK ==
    /\ members \in {SubSeq(AllMembers, 1, n) : n \in 0 .. Len(AllMembers)}
    /\ At("create_logger") \/ At("create_server") \/ Exited => members = << >>
    /\ At("bind_connect") \/ At("run") \/ At("wait") => members = AllMembers
    /\ At("destroy") =>
         members # << >> /\ (asio # "stopped" => members = AllMembers)

(* The server runs only after run, and before main is done with it; the    *)
(* callbacks of a server that starts or stops have the server to           *)
(* themselves, and there are none once it has stopped.                     *)
CallbackOf(does, sessions) ==
    [does : does, ses : sessions, at : Stages]
CallbacksOK ==
    /\ thread \in [Io -> {Idle} \cup CallbackOf({"start", "stop"}, {"server"})
                       \cup CallbackOf({"connect", "receive", "disconnect"}, Session)]
    /\ session \in [Session -> {"away", "open"}]
    /\ asio \in {"stopped", "starting", "running", "stopping"}
    /\ asio # "stopped" => At("wait") \/ At("destroy")
    /\ asio = "stopped" => \A t \in Io : thread[t] = Idle
    /\ asio = "starting" => \A t \in Io : thread[t].does \in {"nothing", "start"}
    /\ \A t \in Io :
         /\ thread[t].does = "start" => asio = "starting"
         /\ thread[t].does = "stop" =>
              asio = "stopping" /\ \A s \in Session : session[s] = "away"
         /\ thread[t].does \in {"start", "stop"} =>
              \A u \in Io : u # t => thread[u] = Idle

(* A program with a logger of its own creates it before anything logs; in  *)
(* one without, whoever logs has seen to it that there is the default one. *)
LoggerOK ==
    /\ program = Standalone =>
         /\ instance = IF pc = 1 THEN "null" ELSE "user"
         /\ \A t \in Io : thread[t] # Idle => thread[t].at \notin {"create", "store"}
    /\ program = WithoutLogger =>
         /\ instance \in {"null", "default"}
         /\ \A t \in Io : thread[t] # Idle /\ thread[t].at = "log" => instance = "default"

IInv ==
    /\ program \in {Standalone, WithoutLogger} /\ pc \in 1 .. Len(program) + 1
    /\ binding \in BOOLEAN /\ (binding => At("bind_connect"))
    /\ MembersOK /\ CallbacksOK /\ LoggerOK /\ OneLogger

(* A line ends the program, whatever its clients do, and whether or not    *)
(* the server could be started.                                            *)
LineEnds == typed ~> Exited
=============================================================================
