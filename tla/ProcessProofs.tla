---------------------------- MODULE ProcessProofs ----------------------------
(***************************************************************************)
(* Proofs about ServerProcess, for any number of clients and io threads:   *)
(* what callbacks use is alive, a callback is not called while it is       *)
(* bound, and a program has one logger.                                    *)
(***************************************************************************)
EXTENDS ServerProcess, SequenceTheorems, TLAPS

-----------------------------------------------------------------------------
(* The statements of a program, by the place they have in Standalone.      *)
Programs == {Standalone, WithoutLogger}
Place(q, n) == IF q = Standalone THEN n ELSE n + 1
Statement(q, n, st) == n <= Len(q) /\ q[n] = st

LEMMA Statements ==
    ASSUME NEW q \in Programs, NEW n \in 1 .. Len(q) + 1
    PROVE  /\ Place(q, n) \in 1 .. 7
           /\ Place(q, n) = 1 => q = Standalone
           /\ Statement(q, n, "create_logger") <=> Place(q, n) = 1
           /\ Statement(q, n, "create_server") <=> Place(q, n) = 2
           /\ Statement(q, n, "bind_connect") <=> Place(q, n) = 3
           /\ Statement(q, n, "run") <=> Place(q, n) = 4
           /\ Statement(q, n, "wait") <=> Place(q, n) = 5
           /\ Statement(q, n, "destroy") <=> Place(q, n) = 6
           /\ n > Len(q) <=> Place(q, n) = 7
<1>1. Len(Standalone) = 6 /\ Len(WithoutLogger) = 5 /\ Standalone # WithoutLogger
  <2>1. Len(Standalone) = 6 /\ Len(WithoutLogger) = 5
      BY DEF Standalone, WithoutLogger
  <2>. QED  BY <2>1
<1>2. /\ Standalone[1] = "create_logger" /\ Standalone[2] = "create_server"
      /\ Standalone[3] = "bind_connect" /\ Standalone[4] = "run"
      /\ Standalone[5] = "wait" /\ Standalone[6] = "destroy"
    BY DEF Standalone
<1>3. /\ WithoutLogger[1] = "create_server" /\ WithoutLogger[2] = "bind_connect"
      /\ WithoutLogger[3] = "run" /\ WithoutLogger[4] = "wait"
      /\ WithoutLogger[5] = "destroy"
    BY DEF WithoutLogger
<1>4. CASE q = Standalone
  <2>1. Len(q) = 6 /\ Place(q, n) = n
      BY <1>1, <1>4 DEF Place
  <2>2. n \in 1 .. 7
      BY <2>1
  <2>3. /\ q[1] = "create_logger" /\ q[2] = "create_server" /\ q[3] = "bind_connect"
        /\ q[4] = "run" /\ q[5] = "wait" /\ q[6] = "destroy"
      BY <1>2, <1>4
  <2>4. n = 1 \/ n = 2 \/ n = 3 \/ n = 4 \/ n = 5 \/ n = 6 \/ n = 7
      BY <2>2
  <2>. HIDE <1>4
  <2>. QED  BY <1>4, <2>1, <2>3, <2>4 DEF Statement
<1>5. CASE q = WithoutLogger
  <2>1. Len(q) = 5 /\ Place(q, n) = n + 1
      BY <1>1, <1>5 DEF Place
  <2>2. n \in 1 .. 6
      BY <2>1
  <2>3. /\ q[1] = "create_server" /\ q[2] = "bind_connect" /\ q[3] = "run"
        /\ q[4] = "wait" /\ q[5] = "destroy"
      BY <1>3, <1>5
  <2>4. n = 1 \/ n = 2 \/ n = 3 \/ n = 4 \/ n = 5 \/ n = 6
      BY <2>2
  <2>. QED  BY <2>1, <2>3, <2>4 DEF Statement
<1>. QED  BY <1>4, <1>5 DEF Programs

(* The members of a server under construction or destruction.              *)
LEMMA Members ==
    /\ Len(AllMembers) = 4 /\ AllMembers # << >>
    /\ \A n \in 0 .. 4 : Len(SubSeq(AllMembers, 1, n)) = n
    /\ SubSeq(AllMembers, 1, 0) = << >> /\ SubSeq(AllMembers, 1, 4) = AllMembers
    /\ \A n \in 1 .. 4 : Front(SubSeq(AllMembers, 1, n)) = SubSeq(AllMembers, 1, n - 1)
<1>. DEFINE S == {"server_", "data_table_", "on_connect_cb_", "on_disconnect_cb_"}
<1>1. AllMembers \in Seq(S) /\ Len(AllMembers) = 4
    BY DEF AllMembers
<1>. HIDE DEF S
<1>2. \A i \in 1 .. 4 : AllMembers[i] \in S
    BY <1>1, ElementOfSeq
<1>3. ASSUME NEW n \in 0 .. 4
      PROVE  Len(SubSeq(AllMembers, 1, n)) = n
    BY <1>2, SubSeqProperties
<1>4. SubSeq(AllMembers, 1, 0) = << >> /\ SubSeq(AllMembers, 1, 4) = AllMembers
    BY <1>1, SubSeqFull, SubSeqEmpty
<1>5. ASSUME NEW n \in 1 .. 4
      PROVE  Front(SubSeq(AllMembers, 1, n)) = SubSeq(AllMembers, 1, n - 1)
  <2>1. Front(SubSeq(AllMembers, 1, n)) = SubSeq(SubSeq(AllMembers, 1, n), 1, n - 1)
      BY <1>3 DEF Front
  <2>2. CASE n = 1
    <3>1. SubSeq(SubSeq(AllMembers, 1, n), 1, 0) = << >>
        BY SubSeqEmpty
    <3>. QED  BY <1>4, <2>1, <2>2, <3>1
  <2>3. CASE n # 1
    <3>1. SubSeq(SubSeq(AllMembers, 1, n), 1, n - 1) = SubSeq(AllMembers, 1 + 1 - 1, 1 + (n - 1) - 1)
        BY <1>1, <2>3, SubSeqOfSubSeq
    <3>. QED  BY <2>1, <3>1
  <2>. QED  BY <2>2, <2>3
<1>. QED  BY <1>1, <1>3, <1>4, <1>5

(* Where main is, before and after a step.                                 *)
pl == Place(program, pc)
Main1 == program \in Programs /\ pc \in 1 .. Len(program) + 1

LEMMA Places ==
    ASSUME Main1
    PROVE  /\ pl \in 1 .. 7
           /\ pl = 1 => program = Standalone
           /\ At("create_logger") <=> pl = 1
           /\ At("create_server") <=> pl = 2
           /\ At("bind_connect") <=> pl = 3
           /\ At("run") <=> pl = 4
           /\ At("wait") <=> pl = 5
           /\ At("destroy") <=> pl = 6
           /\ Exited <=> pl = 7
    BY Statements DEF Main1, pl, At, Exited, Statement

LEMMA PlacesAfter ==
    ASSUME Main1'
    PROVE  /\ pl' \in 1 .. 7
           /\ pl' = 1 => program' = Standalone
           /\ At("create_logger")' <=> pl' = 1
           /\ At("create_server")' <=> pl' = 2
           /\ At("bind_connect")' <=> pl' = 3
           /\ At("run")' <=> pl' = 4
           /\ At("wait")' <=> pl' = 5
           /\ At("destroy")' <=> pl' = 6
           /\ Exited' <=> pl' = 7
    BY Statements DEF Main1, pl, At, Exited, Statement

(* A statement that is done leaves main at the next one.                   *)
LEMMA Advance ==
    ASSUME Main1, pl # 7, program' = program, pc' = pc + 1
    PROVE  Main1' /\ pl' = pl + 1
<1>1. Len(program) \in Nat /\ ~Exited
    BY Places, LenProperties DEF Main1, Programs, Standalone, WithoutLogger
<1>2. pc <= Len(program)
    BY <1>1 DEF Main1, Exited
<1>. QED  BY <1>1, <1>2 DEF Main1, pl, Place

LEMMA Remain ==
    ASSUME Main1, program' = program, pc' = pc
    PROVE  Main1' /\ pl' = pl
    BY DEF Main1, pl

-----------------------------------------------------------------------------
(* What a thread may be doing.                                             *)
Callback ==
    CallbackOf({"start", "stop"}, {"server"})
        \cup CallbackOf({"connect", "receive", "disconnect"}, Session)

LEMMA Threads ==
    /\ Idle.does = "nothing"
    /\ \A c \in Callback :
         /\ c # Idle /\ c.does # "nothing"
         /\ c.at \in Stages
         /\ c.does \in {"start", "stop"} => c.ses = "server"
         /\ c.does \notin {"start", "stop"} => c.ses \in Session
         /\ c.does \in {"start", "stop", "connect", "receive", "disconnect"}
    BY DEF Idle, Callback, CallbackOf

(* Another place in a callback.                                            *)
LEMMA Moved ==
    ASSUME NEW c \in Callback, NEW at \in Stages
    PROVE  LET d == [c EXCEPT !.at = at] IN
           d \in Callback /\ d.at = at /\ d.does = c.does
    BY DEF Callback, CallbackOf

(* What CallbacksOK says of the threads alone.                             *)
LEMMA ThreadsOK ==
    ASSUME CallbacksOK
    PROVE  /\ thread \in [Io -> {Idle} \cup Callback]
           /\ \A t \in Io : thread[t] = Idle <=> thread[t].does = "nothing"
    BY Threads DEF CallbacksOK, Callback

(* A thread does something else, and nothing else changes.                 *)
LEMMA ThreadStep ==
    ASSUME Main1, CallbacksOK, NEW t \in Io, NEW c \in {Idle} \cup Callback,
           thread' = [thread EXCEPT ![t] = c],
           UNCHANGED << program, pc, asio, session >>,
           c # Idle => asio # "stopped",
           c # Idle => \A u \in Io : u # t => thread[u].does \notin {"start", "stop"},
           asio = "starting" => c.does \in {"nothing", "start"},
           c.does = "start" => asio = "starting",
           c.does = "stop" =>
               asio = "stopping" /\ \A s \in Session : session[s] = "away",
           c.does \in {"start", "stop"} =>
               \A u \in Io : u # t => thread[u] = Idle
    PROVE  CallbacksOK'
<1>1. At("wait")' = At("wait") /\ At("destroy")' = At("destroy")
    BY DEF At
<1>2. thread' \in [Io -> {Idle} \cup Callback]
    BY ThreadsOK
<1>3. thread'[t] = c /\ \A u \in Io : u # t => thread'[u] = thread[u]
    BY ThreadsOK
<1>4. asio' # "stopped" => At("wait")' \/ At("destroy")'
    BY <1>1 DEF CallbacksOK
<1>5. asio' = "stopped" => \A u \in Io : thread'[u] = Idle
    BY <1>3 DEF CallbacksOK
<1>6. asio' = "starting" => \A u \in Io : thread'[u].does \in {"nothing", "start"}
    BY <1>3 DEF CallbacksOK
<1>7. ASSUME NEW u \in Io
      PROVE  /\ thread'[u].does = "start" => asio' = "starting"
             /\ thread'[u].does = "stop" =>
                  asio' = "stopping" /\ \A s \in Session : session'[s] = "away"
             /\ thread'[u].does \in {"start", "stop"} =>
                  \A v \in Io : v # u => thread'[v] = Idle
  <2>1. CASE u = t
      BY <1>3, <2>1
  <2>2. CASE u # t
    <3>1. thread'[u] = thread[u]
        BY <1>3, <2>2
    <3>2. thread'[u].does \in {"start", "stop"} => c = Idle
        BY <2>2, <3>1
    <3>. QED  BY <1>3, <3>1, <3>2 DEF CallbacksOK
  <2>. QED  BY <2>1, <2>2
<1>. QED  BY <1>2, <1>4, <1>5, <1>6, <1>7 DEF CallbacksOK, Callback

(* The other parts of the invariant in a step that leaves main alone.      *)
LEMMA MembersStep ==
    ASSUME MembersOK, UNCHANGED << program, pc, members >>,
           asio' # "stopped" => asio # "stopped"
    PROVE  MembersOK'
<1>1. \A st : At(st)' <=> At(st)
    BY DEF At
<1>2. Exited' <=> Exited
    BY DEF Exited
<1>. QED  BY <1>1, <1>2 DEF MembersOK

LEMMA LoggerStep ==
    ASSUME CallbacksOK, LoggerOK, UNCHANGED << program, pc, instance >>,
           NEW t \in Io, NEW c \in {Idle} \cup Callback,
           thread' = [thread EXCEPT ![t] = c],
           program = Standalone /\ c # Idle => c.at \notin {"create", "store"},
           program = WithoutLogger /\ c # Idle /\ c.at = "log" => instance = "default"
    PROVE  LoggerOK'
<1>1. thread'[t] = c /\ \A u \in Io : u # t => thread'[u] = thread[u]
    BY ThreadsOK
<1>. QED  BY <1>1 DEF LoggerOK

LEMMA Loggers ==
    Contains(Standalone, "create_logger") /\ ~Contains(WithoutLogger, "create_logger")
<1>1. Standalone[1] = "create_logger" /\ Len(Standalone) = 6
    BY DEF Standalone
<1>2. Contains(Standalone, "create_logger")
    BY <1>1 DEF Contains
<1>3. ASSUME NEW i \in 1 .. Len(WithoutLogger)
      PROVE  WithoutLogger[i] # "create_logger"
  <2>1. i = 1 \/ i = 2 \/ i = 3 \/ i = 4 \/ i = 5
      BY DEF WithoutLogger
  <2>2. /\ WithoutLogger[1] # "create_logger" /\ WithoutLogger[2] # "create_logger"
        /\ WithoutLogger[3] # "create_logger" /\ WithoutLogger[4] # "create_logger"
        /\ WithoutLogger[5] # "create_logger"
      BY DEF WithoutLogger
  <2>. QED  BY <2>1, <2>2
<1>. QED  BY <1>2, <1>3 DEF Contains

LEMMA Invariant1 ==
    ASSUME IInv
    PROVE  Main1 /\ MembersOK /\ CallbacksOK /\ LoggerOK /\ OneLogger
    BY DEF IInv, Main1, Programs

-----------------------------------------------------------------------------
(* The statements of main.                                                 *)
LEMMA CallbacksStep ==
    ASSUME CallbacksOK, UNCHANGED << asio, session, thread >>,
           asio # "stopped" => At("wait")' \/ At("destroy")'
    PROVE  CallbacksOK'
    BY DEF CallbacksOK

LEMMA MainLogger ==
    ASSUME LoggerOK, OneLogger, UNCHANGED << program, instance, wrote, thread >>,
           program = Standalone => (pc' = 1 <=> pc = 1)
    PROVE  LoggerOK' /\ OneLogger'
    BY DEF LoggerOK, OneLogger

LEMMA CreateLoggerStep ==
    ASSUME IInv, CreateLogger
    PROVE  IInv'
<1>1. Main1 /\ pl = 1 /\ program = Standalone /\ pc = 1
    BY Invariant1, Places DEF CreateLogger, pl, Place
<1>2. Main1' /\ pl' = 2
    BY <1>1, Advance DEF CreateLogger
<1>3. instance' = "user" /\ UNCHANGED << program, wrote, thread, members, asio, session, binding >>
      /\ pc' = 2
    BY <1>1 DEF CreateLogger, IInv, LoggerOK
<1>4. ~At("bind_connect") /\ ~At("wait") /\ ~At("destroy") /\ members = << >>
    BY <1>1, Places DEF IInv, MembersOK
<1>5. asio = "stopped" /\ ~binding
    BY <1>4 DEF IInv, CallbacksOK
<1>6. MembersOK'
    BY <1>2, <1>3, <1>4, PlacesAfter, Invariant1 DEF MembersOK
<1>7. CallbacksOK'
    BY <1>3, <1>5, CallbacksStep, Invariant1
<1>8. Standalone # WithoutLogger
    BY Loggers
<1>9. LoggerOK' /\ OneLogger'
    BY <1>1, <1>3, <1>8 DEF IInv, LoggerOK, OneLogger
<1>. QED  BY <1>2, <1>3, <1>5, <1>6, <1>7, <1>9 DEF IInv, Main1, Programs

LEMMA CreateServerStep ==
    ASSUME IInv, CreateServer
    PROVE  IInv'
<1>1. Main1 /\ pl = 2
    BY Invariant1, Places DEF CreateServer
<1>2. Main1' /\ pl' = 3
    BY <1>1, Advance DEF CreateServer
<1>3. UNCHANGED << program, instance, wrote, thread, asio, session, binding >>
      /\ members' = AllMembers /\ pc' = pc + 1
    BY DEF CreateServer
<1>4. asio = "stopped" /\ ~binding
    BY <1>1, Places DEF IInv, CallbacksOK
<1>5. MembersOK'
  <2>1. members' = SubSeq(AllMembers, 1, Len(AllMembers)) /\ Len(AllMembers) = 4
      BY <1>3, Members
  <2>. QED  BY <1>2, <1>3, <2>1, PlacesAfter DEF MembersOK
<1>6. CallbacksOK'
    BY <1>3, <1>4, CallbacksStep, Invariant1
<1>7. LoggerOK' /\ OneLogger'
  <2>1. program = Standalone => pc # 1 /\ pc' # 1
      BY <1>1, <1>3 DEF pl, Place, Main1
  <2>. QED  BY <1>3, <2>1, MainLogger, Invariant1
<1>. QED  BY <1>2, <1>3, <1>4, <1>5, <1>6, <1>7 DEF IInv, Main1, Programs

LEMMA BindConnectStep ==
    ASSUME IInv, BindConnect
    PROVE  IInv'
<1>1. Main1 /\ pl = 3 /\ binding \in BOOLEAN
    BY Invariant1, Places DEF BindConnect, IInv
<1>2. UNCHANGED << program, instance, wrote, members, asio, session, thread >>
      /\ binding' = ~binding /\ pc' = IF binding THEN pc + 1 ELSE pc
    BY DEF BindConnect
<1>3. Main1' /\ pl' = IF binding THEN 4 ELSE 3
  <2>1. CASE binding
      BY <1>1, <1>2, <2>1, Advance
  <2>2. CASE ~binding
      BY <1>1, <1>2, <2>2, Remain
  <2>. QED  BY <2>1, <2>2
<1>4. asio = "stopped"
    BY <1>1, Places DEF IInv, CallbacksOK
<1>5. members = AllMembers
    BY <1>1, Places DEF IInv, MembersOK
<1>6. binding' \in BOOLEAN /\ (binding' => At("bind_connect")')
    BY <1>1, <1>2, <1>3, PlacesAfter
<1>7. MembersOK'
    BY <1>2, <1>3, <1>5, PlacesAfter, Invariant1 DEF MembersOK
<1>8. CallbacksOK'
    BY <1>2, <1>4, CallbacksStep, Invariant1
<1>9. LoggerOK' /\ OneLogger'
  <2>1. program = Standalone => pc # 1 /\ pc' # 1
      BY <1>1, <1>2 DEF pl, Place, Main1
  <2>. QED  BY <1>2, <2>1, MainLogger, Invariant1
<1>. QED  BY <1>2, <1>3, <1>6, <1>7, <1>8, <1>9 DEF IInv, Main1, Programs

LEMMA RunStep ==
    ASSUME IInv, Run
    PROVE  IInv'
<1>1. Main1 /\ pl = 4
    BY Invariant1, Places DEF Run
<1>2. Main1' /\ pl' = 5
    BY <1>1, Advance DEF Run
<1>3. UNCHANGED << program, instance, wrote, members, binding, session, thread >>
      /\ asio' \in {"starting", "stopped"} /\ pc' = pc + 1
    BY DEF Run
<1>4. asio = "stopped" /\ ~binding /\ members = AllMembers
    BY <1>1, Places DEF IInv, CallbacksOK, MembersOK
<1>5. MembersOK'
    BY <1>2, <1>3, <1>4, PlacesAfter, Invariant1 DEF MembersOK
<1>6. CallbacksOK'
  <2>1. \A t \in Io : thread'[t] = Idle
      BY <1>3, <1>4 DEF IInv, CallbacksOK
  <2>. QED  BY <1>2, <1>3, <2>1, Threads, PlacesAfter, Invariant1 DEF CallbacksOK
<1>7. LoggerOK' /\ OneLogger'
  <2>1. program = Standalone => pc # 1 /\ pc' # 1
      BY <1>1, <1>3 DEF pl, Place, Main1
  <2>. QED  BY <1>3, <2>1, MainLogger, Invariant1
<1>. QED  BY <1>2, <1>3, <1>4, <1>5, <1>6, <1>7 DEF IInv, Main1, Programs

LEMMA WaitStep ==
    ASSUME IInv, Wait
    PROVE  IInv'
<1>1. Main1 /\ pl = 5
    BY Invariant1, Places DEF Wait
<1>2. Main1' /\ pl' = 6
    BY <1>1, Advance DEF Wait
<1>3. UNCHANGED << program, instance, wrote, members, binding, asio, session, thread >>
      /\ pc' = pc + 1
    BY DEF Wait
<1>4. ~binding /\ members = AllMembers
    BY <1>1, Places DEF IInv, MembersOK
<1>5. MembersOK'
    BY <1>2, <1>3, <1>4, Members, PlacesAfter, Invariant1 DEF MembersOK
<1>6. CallbacksOK'
    BY <1>2, <1>3, PlacesAfter, CallbacksStep, Invariant1
<1>7. LoggerOK' /\ OneLogger'
  <2>1. program = Standalone => pc # 1 /\ pc' # 1
      BY <1>1, <1>3 DEF pl, Place, Main1
  <2>. QED  BY <1>3, <2>1, MainLogger, Invariant1
<1>. QED  BY <1>2, <1>3, <1>4, <1>5, <1>6, <1>7 DEF IInv, Main1, Programs

LEMMA StopStep ==
    ASSUME IInv, Stop
    PROVE  IInv'
<1>1. Main1 /\ pl = 6 /\ asio = "running"
    BY Invariant1, Places DEF Stop
<1>2. UNCHANGED << program, pc, members, binding, instance, wrote, session, thread >>
      /\ asio' = "stopping"
    BY DEF Stop, mainvars
<1>3. Main1' /\ pl' = 6
    BY <1>1, <1>2, Remain
<1>4. ~binding
    BY <1>1, Places DEF IInv
<1>5. MembersOK'
    BY <1>1, <1>2, MembersStep, Invariant1
<1>6. CallbacksOK'
    BY <1>1, <1>2, <1>3, PlacesAfter, Invariant1 DEF CallbacksOK
<1>7. LoggerOK' /\ OneLogger'
    BY <1>2, MainLogger, Invariant1
<1>. QED  BY <1>2, <1>3, <1>4, <1>5, <1>6, <1>7 DEF IInv, Main1, Programs

LEMMA DestroyStep ==
    ASSUME IInv, Destroy
    PROVE  IInv'
<1>1. Main1 /\ pl = 6 /\ asio = "stopped" /\ members # << >>
    BY Invariant1, Places DEF Destroy
<1>2. UNCHANGED << program, binding, instance, wrote, asio, session, thread >>
      /\ members' = Front(members) /\ pc' = IF Len(members) = 1 THEN pc + 1 ELSE pc
    BY DEF Destroy
<1>3. PICK n \in 0 .. 4 : members = SubSeq(AllMembers, 1, n)
    BY Members DEF IInv, MembersOK
<1>4. n \in 1 .. 4 /\ Len(members) = n
    BY <1>1, <1>3, Members
<1>5. members' = SubSeq(AllMembers, 1, n - 1) /\ n - 1 \in 0 .. 4
  <2>1. Front(SubSeq(AllMembers, 1, n)) = SubSeq(AllMembers, 1, n - 1)
      BY <1>4, Members
  <2>. QED  BY <1>2, <1>3, <1>4, <2>1
<1>6. Main1' /\ pl' = IF n = 1 THEN 7 ELSE 6
  <2>1. CASE n = 1
      BY <1>1, <1>2, <1>4, <2>1, Advance
  <2>2. CASE n # 1
      BY <1>1, <1>2, <1>4, <2>2, Remain
  <2>. QED  BY <2>1, <2>2
<1>7. n = 1 => members' = << >>
    BY <1>5, Members
<1>8. n # 1 => members' # << >>
  <2>1. Len(members') = n - 1
      BY <1>5, Members
  <2>. QED  BY <1>4, <2>1
<1>9. ~binding
    BY <1>1, Places DEF IInv
<1>10. MembersOK'
  <2>1. members' \in {SubSeq(AllMembers, 1, m) : m \in 0 .. Len(AllMembers)}
      BY <1>5, Members
  <2>2. /\ ~At("create_logger")' /\ ~At("create_server")' /\ ~At("bind_connect")'
        /\ ~At("run")' /\ ~At("wait")' /\ (Exited' <=> n = 1) /\ (At("destroy")' <=> n # 1)
      BY <1>6, PlacesAfter
  <2>3. asio' = "stopped"
      BY <1>1, <1>2
  <2>. QED  BY <1>7, <1>8, <2>1, <2>2, <2>3 DEF MembersOK
<1>11. CallbacksOK'
    BY <1>1, <1>2, CallbacksStep, Invariant1
<1>12. LoggerOK' /\ OneLogger'
  <2>1. program = Standalone => pc # 1 /\ pc' # 1
      BY <1>1, <1>2 DEF pl, Place, Main1
  <2>. QED  BY <1>2, <2>1, MainLogger, Invariant1
<1>. QED  BY <1>2, <1>6, <1>9, <1>10, <1>11, <1>12 DEF IInv, Main1, Programs

-----------------------------------------------------------------------------
(* What the io threads do.                                                 *)

(* A step that leaves main and the loggers alone.                          *)
LEMMA IoInvariant ==
    ASSUME IInv, UNCHANGED << program, pc, members, binding, instance, wrote >>,
           asio' # "stopped" => asio # "stopped",
           CallbacksOK', LoggerOK'
    PROVE  IInv'
<1>1. \A st : At(st)' <=> At(st)
    BY DEF At
<1>2. MembersOK'
    BY MembersStep, Invariant1
<1>. QED  BY <1>1, <1>2 DEF IInv, OneLogger

(* asio2 calls a callback.                                                 *)
LEMMA CallStep ==
    ASSUME IInv, NEW t \in Io, NEW c \in Callback, c.at \in {"use", "get"},
           thread' = [thread EXCEPT ![t] = c],
           UNCHANGED << mainvars, instance, wrote, asio, session >>,
           asio # "stopped",
           \A u \in Io : u # t => thread[u].does \notin {"start", "stop"},
           asio = "starting" => c.does = "start",
           c.does = "start" => asio = "starting",
           c.does = "stop" =>
               asio = "stopping" /\ \A s \in Session : session[s] = "away",
           c.does \in {"start", "stop"} =>
               \A u \in Io : u # t => thread[u] = Idle
    PROVE  IInv'
<1>1. CallbacksOK'
    BY ThreadStep, Invariant1 DEF mainvars
<1>2. LoggerOK'
    BY LoggerStep, Invariant1 DEF mainvars
<1>. QED  BY <1>1, <1>2, IoInvariant DEF mainvars

LEMMA SessionStep ==
    ASSUME IInv, NEW t \in Io, NEW s \in Session,
           \/ Connect(t, s) \/ Receive(t, s) \/ Leave(t, s) \/ Closed(t, s)
    PROVE  IInv'
<1>1. PICK does \in {"connect", "receive", "disconnect"} :
           SessionCallback(t, s, does)
    BY DEF Connect, Receive, Leave, Closed
<1>2. /\ asio \in {"running", "stopping"}
      /\ asio = "stopping" => session[s] = "open"
    BY DEF Connect, Receive, Leave, Closed
<1>. DEFINE c == [does |-> does, ses |-> s, at |-> "use"]
<1>3. c \in Callback /\ c.at = "use" /\ c.does = does
    BY DEF Callback, CallbackOf, Stages
<1>4. \A u \in Io : thread[u].does \notin {"start", "stop"}
  <2>1. ASSUME NEW u \in Io, thread[u].does = "stop"
        PROVE  FALSE
      BY <1>2, <2>1, Invariant1 DEF CallbacksOK
  <2>2. ASSUME NEW u \in Io, thread[u].does = "start"
        PROVE  FALSE
      BY <1>2, <2>2, Invariant1 DEF CallbacksOK
  <2>. QED  BY <2>1, <2>2
<1>5. thread' = [thread EXCEPT ![t] = c] /\ UNCHANGED << mainvars, instance, wrote, asio, session >>
    BY <1>1 DEF SessionCallback
<1>. HIDE DEF c
<1>. QED  BY <1>2, <1>3, <1>4, <1>5, CallStep

LEMMA ServerStep ==
    ASSUME IInv, NEW t \in Io, Started(t) \/ Stopped(t)
    PROVE  IInv'
<1>1. PICK does \in {"start", "stop"}, first \in {"use", "get"} :
           /\ ServerCallback(t, does, first)
           /\ does = "start" => asio = "starting" /\ Alone("server")
           /\ does = "stop" => /\ asio = "stopping"
                               /\ \A s \in Session : session[s] = "away"
                               /\ \A u \in Io : thread[u] = Idle
    BY DEF Started, Stopped
<1>. DEFINE c == [does |-> does, ses |-> "server", at |-> first]
<1>2. c \in Callback /\ c.at = first /\ c.does = does
    BY DEF Callback, CallbackOf, Stages
<1>3. \A u \in Io : thread[u] = Idle
  <2>1. CASE does = "stop"
      BY <1>1, <2>1
  <2>2. CASE does = "start"
    <3>1. ASSUME NEW u \in Io, thread[u] # Idle
          PROVE  FALSE
      <4>1. thread[u] \in Callback /\ thread[u].does = "start"
          BY <1>1, <2>2, <3>1, Threads, ThreadsOK, Invariant1 DEF CallbacksOK
      <4>2. thread[u].ses = "server"
          BY <4>1, Threads
      <4>. QED  BY <1>1, <2>2, <3>1, <4>2 DEF Alone
    <3>. QED  BY <3>1
  <2>. QED  BY <2>1, <2>2
<1>4. thread' = [thread EXCEPT ![t] = c] /\ UNCHANGED << mainvars, instance, wrote, asio, session >>
    BY <1>1 DEF ServerCallback
<1>. HIDE DEF c
<1>5. \A u \in Io : thread[u].does \notin {"start", "stop"}
    BY <1>3, Threads
<1>. QED  BY <1>1, <1>2, <1>3, <1>4, <1>5, CallStep

(* What holds of a thread that runs a callback.                            *)
LEMMA Busy ==
    ASSUME IInv, NEW t \in Io, thread[t] # Idle
    PROVE  /\ thread[t] \in Callback
           /\ asio # "stopped"
           /\ asio = "starting" => thread[t].does = "start"
           /\ thread[t].does = "start" => asio = "starting"
           /\ thread[t].does = "stop" =>
                asio = "stopping" /\ \A s \in Session : session[s] = "away"
           /\ thread[t].does \in {"start", "stop"} =>
                \A u \in Io : u # t => thread[u] = Idle
           /\ \A u \in Io : u # t => thread[u].does \notin {"start", "stop"}
           /\ At("wait") \/ At("destroy")
           /\ program = Standalone => instance = "user" /\ thread[t].at \notin {"create", "store"}
<1>1. CallbacksOK /\ LoggerOK /\ Main1
    BY Invariant1
<1>2. thread[t] \in Callback
    BY <1>1, ThreadsOK
<1>3. asio # "stopped"
    BY <1>1 DEF CallbacksOK
<1>4. At("wait") \/ At("destroy")
    BY <1>1, <1>3 DEF CallbacksOK
<1>5. program = Standalone => pc # 1
    BY <1>1, <1>4, Places DEF pl, Place
<1>6. asio = "starting" => thread[t].does = "start"
    BY <1>1, <1>2, Threads DEF CallbacksOK
<1>7. \A u \in Io : u # t => thread[u].does \notin {"start", "stop"}
    BY <1>1 DEF CallbacksOK
<1>8. program = Standalone => instance = "user" /\ thread[t].at \notin {"create", "store"}
    BY <1>1, <1>5 DEF LoggerOK
<1>9. /\ thread[t].does = "start" => asio = "starting"
      /\ thread[t].does = "stop" =>
           asio = "stopping" /\ \A s \in Session : session[s] = "away"
      /\ thread[t].does \in {"start", "stop"} =>
           \A u \in Io : u # t => thread[u] = Idle
    BY <1>1 DEF CallbacksOK
<1>. QED  BY <1>2, <1>3, <1>4, <1>6, <1>7, <1>8, <1>9

(* A thread goes on in its callback.                                       *)
LEMMA GoOn ==
    ASSUME IInv, NEW t \in Io, thread[t] # Idle,
           NEW at \in Stages, Move(t, at),
           UNCHANGED << program, pc, asio, session >>
    PROVE  /\ CallbacksOK'
           /\ \E c \in Callback :
                /\ c.at = at /\ c # Idle
                /\ thread' = [thread EXCEPT ![t] = c]
<1>. DEFINE c == [thread[t] EXCEPT !.at = at]
<1>1. c \in Callback /\ c.at = at /\ c.does = thread[t].does
    BY Busy, Moved
<1>2. thread' = [thread EXCEPT ![t] = c]
    BY DEF Move
<1>. HIDE DEF c
<1>3. CallbacksOK'
    BY <1>1, <1>2, Busy, ThreadStep, Invariant1
<1>. QED  BY <1>1, <1>2, <1>3, Threads

(* A callback returns.                                                     *)
LEMMA ReturnStep ==
    ASSUME IInv, NEW t \in Io, thread[t] # Idle, Return(t),
           UNCHANGED << program, pc >>
    PROVE  CallbacksOK' /\ (asio' # "stopped" => asio # "stopped")
<1>1. thread' = [thread EXCEPT ![t] = Idle]
    BY DEF Return
<1>2. CASE thread[t].does \in {"start", "stop"}
  <2>1. \A u \in Io : thread'[u] = Idle
      BY <1>1, <1>2, Busy, ThreadsOK, Invariant1
  <2>2. thread' \in [Io -> {Idle} \cup Callback]
      BY <1>1, ThreadsOK, Invariant1
  <2>3. session' = session /\ asio' \in {"running", "stopped"} /\ asio # "stopped"
      BY <1>2, Busy DEF Return
  <2>4. At("wait")' = At("wait") /\ At("destroy")' = At("destroy")
      BY DEF At
  <2>5. \A u \in Io : thread'[u].does = "nothing"
      BY <2>1, Threads
  <2>6. At("wait")' \/ At("destroy")'
      BY <2>4, Busy
  <2>. QED  BY <2>1, <2>2, <2>3, <2>5, <2>6, Invariant1 DEF CallbacksOK, Callback
<1>3. CASE thread[t].does \notin {"start", "stop"}
  <2>1. /\ asio' = asio /\ session' \in [Session -> {"away", "open"}]
      BY <1>3, Busy, Threads, Invariant1 DEF Return, CallbacksOK
  <2>2. \A u \in Io : u # t => thread[u].does \notin {"start", "stop"}
      BY Busy
  <2>3. /\ thread'[t] = Idle
        /\ \A u \in Io : u # t => thread'[u] = thread[u]
      BY <1>1, ThreadsOK, Invariant1
  <2>4. \A u \in Io : thread'[u].does \notin {"start", "stop"}
      BY <2>2, <2>3, Threads
  <2>5. thread' \in [Io -> {Idle} \cup Callback]
      BY <1>1, ThreadsOK, Invariant1
  <2>6. At("wait")' = At("wait") /\ At("destroy")' = At("destroy")
      BY DEF At
  <2>7. asio \notin {"starting", "stopped"}
      BY <1>3, Busy
  <2>. QED  BY <2>1, <2>4, <2>5, <2>6, <2>7, Invariant1 DEF CallbacksOK, Callback
<1>. QED  BY <1>2, <1>3

LEMMA ReturnLogger ==
    ASSUME IInv, NEW t \in Io, Return(t), UNCHANGED << program, pc, instance >>
    PROVE  LoggerOK'
<1>1. thread' = [thread EXCEPT ![t] = Idle]
    BY DEF Return
<1>. QED  BY <1>1, LoggerStep, Invariant1

LEMMA UseMembersStep ==
    ASSUME IInv, NEW t \in Io, UseMembers(t)
    PROVE  IInv'
<1>1. /\ thread[t] # Idle /\ "get" \in Stages /\ Move(t, "get")
      /\ UNCHANGED << program, pc, members, binding, instance, wrote, asio, session >>
    BY DEF UseMembers, mainvars, Stages
<1>2. CallbacksOK'
    BY <1>1, GoOn
<1>3. PICK c \in Callback : c.at = "get" /\ thread' = [thread EXCEPT ![t] = c]
    BY <1>1, GoOn
<1>4. LoggerOK'
    BY <1>1, <1>3, LoggerStep, Invariant1
<1>. QED  BY <1>1, <1>2, <1>4, IoInvariant

LEMMA HandleStep ==
    ASSUME IInv, NEW t \in Io, Handle(t)
    PROVE  IInv'
<1>1. /\ thread[t] # Idle /\ Return(t)
      /\ UNCHANGED << program, pc, members, binding, instance, wrote >>
    BY DEF Handle, mainvars
<1>. QED  BY <1>1, ReturnStep, ReturnLogger, IoInvariant

LEMMA GetStep ==
    ASSUME IInv, NEW t \in Io, Get(t)
    PROVE  IInv'
<1>. DEFINE at == IF instance # "null" THEN "log"
                  ELSE IF thread[t].at = "get" THEN "create" ELSE "store"
<1>1. /\ thread[t] # Idle /\ at \in {"log", "create", "store"} /\ Move(t, at)
      /\ at \in Stages
      /\ UNCHANGED << program, pc, members, binding, instance, wrote, asio, session >>
    BY DEF Get, mainvars, Stages
<1>2. CallbacksOK'
    BY <1>1, GoOn
<1>3. PICK c \in Callback : c.at = at /\ thread' = [thread EXCEPT ![t] = c]
    BY <1>1, GoOn
<1>4. program = Standalone => at = "log"
    BY <1>1, Busy
<1>5. program = WithoutLogger /\ at = "log" => instance = "default"
    BY Invariant1 DEF LoggerOK
<1>. HIDE DEF at
<1>6. LoggerOK'
    BY <1>1, <1>3, <1>4, <1>5, LoggerStep, Invariant1
<1>. QED  BY <1>1, <1>2, <1>6, IoInvariant

LEMMA StoreStep ==
    ASSUME IInv, NEW t \in Io, Store(t)
    PROVE  IInv'
<1>1. /\ thread[t] # Idle /\ thread[t].at = "store" /\ Move(t, "log")
      /\ "log" \in Stages
      /\ instance' = "default"
      /\ UNCHANGED << program, pc, members, binding, wrote, asio, session >>
    BY DEF Store, mainvars, Stages
<1>2. CallbacksOK'
    BY <1>1, GoOn
<1>3. program = WithoutLogger /\ program # Standalone
    BY <1>1, Busy, Invariant1 DEF Main1, Programs
<1>4. LoggerOK'
    BY <1>1, <1>3, Loggers DEF LoggerOK
<1>5. MembersOK'
    BY <1>1, MembersStep, Invariant1
<1>6. At("bind_connect")' = At("bind_connect")
    BY <1>1 DEF At
<1>. QED  BY <1>1, <1>2, <1>4, <1>5, <1>6 DEF IInv, OneLogger

LEMMA LogStep ==
    ASSUME IInv, NEW t \in Io, Log(t)
    PROVE  IInv'
<1>1. /\ thread[t] # Idle /\ thread[t].at = "log" /\ wrote' = wrote \cup {instance}
      /\ UNCHANGED << program, pc, members, binding, instance >>
    BY DEF Log, mainvars
<1>2. OneLogger'
  <2>1. CASE program = Standalone
      BY <1>1, <2>1, Busy, Loggers DEF IInv, OneLogger
  <2>2. CASE program = WithoutLogger
      BY <1>1, <2>2, Loggers DEF IInv, LoggerOK, OneLogger
  <2>. QED  BY <2>1, <2>2, Invariant1 DEF Main1, Programs
<1>3. CallbacksOK' /\ LoggerOK' /\ (asio' # "stopped" => asio # "stopped")
  <2>1. CASE thread[t].does = "receive"
    <3>1. Move(t, "handle") /\ UNCHANGED << asio, session >> /\ "handle" \in Stages
        BY <2>1 DEF Log, Stages
    <3>2. CallbacksOK'
        BY <1>1, <2>1, <3>1, GoOn
    <3>3. PICK c \in Callback : c.at = "handle" /\ thread' = [thread EXCEPT ![t] = c]
        BY <1>1, <2>1, <3>1, GoOn
    <3>4. LoggerOK'
        BY <1>1, <3>3, LoggerStep, Invariant1
    <3>. QED  BY <3>1, <3>2, <3>4
  <2>2. CASE thread[t].does # "receive"
    <3>1. Return(t)
        BY <2>2 DEF Log
    <3>. QED  BY <1>1, <3>1, ReturnStep, ReturnLogger
  <2>. QED  BY <2>1, <2>2
<1>4. MembersOK'
    BY <1>1, <1>3, MembersStep, Invariant1
<1>5. At("bind_connect")' = At("bind_connect")
    BY <1>1 DEF At
<1>. QED  BY <1>1, <1>2, <1>3, <1>4, <1>5 DEF IInv

LEMMA TypeLineStep ==
    ASSUME IInv, TypeLine
    PROVE  IInv'
<1>1. UNCHANGED << program, pc, members, binding, instance, wrote, asio, session, thread >>
    BY DEF TypeLine, mainvars
<1>. QED  BY <1>1 DEF IInv, MembersOK, CallbacksOK, LoggerOK, OneLogger, At, Exited

-----------------------------------------------------------------------------
LEMMA InitIInv ==
    ASSUME Init
    PROVE  IInv
<1>1. /\ program \in Programs /\ pc = 1 /\ members = << >> /\ binding = FALSE
      /\ instance = "null" /\ wrote = {} /\ asio = "stopped"
      /\ session = [s \in Session |-> "away"] /\ thread = [t \in Io |-> Idle]
    BY DEF Init, Programs
<1>2. Len(program) \in Nat
    BY <1>1 DEF Programs, Standalone, WithoutLogger
<1>3. Main1 /\ pl \in {1, 2}
    BY <1>1, <1>2 DEF Main1, pl, Place
<1>4. MembersOK
  <2>1. members \in {SubSeq(AllMembers, 1, n) : n \in 0 .. Len(AllMembers)}
      BY <1>1, Members
  <2>. QED  BY <1>1, <1>3, <2>1, Places DEF MembersOK
<1>5. CallbacksOK
    BY <1>1, Threads DEF CallbacksOK
<1>6. LoggerOK /\ OneLogger
    BY <1>1 DEF LoggerOK, OneLogger
<1>. QED  BY <1>1, <1>3, <1>4, <1>5, <1>6 DEF IInv, Main1, Programs

LEMMA NextIInv ==
    ASSUME IInv, [Next]_vars
    PROVE  IInv'
<1>1. CASE Main
    BY <1>1, CreateLoggerStep, CreateServerStep, BindConnectStep, RunStep, WaitStep,
       StopStep, DestroyStep DEF Main
<1>2. ASSUME NEW t \in Io, IoStep(t)
      PROVE  IInv'
    BY <1>2, SessionStep, ServerStep, UseMembersStep, GetStep, StoreStep, LogStep,
       HandleStep DEF IoStep
<1>3. ASSUME NEW t \in Io, ClientStep(t)
      PROVE  IInv'
    BY <1>3, SessionStep DEF ClientStep
<1>4. CASE TypeLine
    BY <1>4, TypeLineStep
<1>5. CASE UNCHANGED vars
  <2>1. UNCHANGED << program, pc, members, binding, instance, wrote, asio, session, thread >>
      BY <1>5 DEF vars
  <2>. QED  BY <2>1 DEF IInv, MembersOK, CallbacksOK, LoggerOK, OneLogger, At, Exited
<1>. QED  BY <1>1, <1>2, <1>3, <1>4, <1>5 DEF Next

(* The inductive invariant of the program.                                 *)
THEOREM ProcessInvariant == Spec => []IInv
<1>1. Init => IInv
    BY InitIInv
<1>2. IInv /\ [Next]_vars => IInv'
    BY NextIInv
<1>. QED  BY <1>1, <1>2, PTL DEF Spec

(* The state is well typed; the members that live are those made first,    *)
(* and all are gone when main is over.                                     *)
THEOREM ProcessTypes == Spec => []TypeOK
<1>1. ASSUME IInv
      PROVE  TypeOK
  <2>1. PICK n \in 0 .. 4 : members = SubSeq(AllMembers, 1, n)
      BY <1>1, Members DEF IInv, MembersOK
  <2>2. IsPrefix(members, AllMembers)
      BY <2>1, Members DEF IsPrefix
  <2>3. /\ session \in [Session -> {"away", "open"}]
        /\ asio \in {"stopped", "starting", "running", "stopping"}
      BY <1>1 DEF IInv, CallbacksOK
  <2>4. instance \in {"null", "default", "user"}
      BY <1>1 DEF IInv, LoggerOK
  <2>5. \A t \in Io : thread[t] # Idle =>
            thread[t].at \in Stages
      BY <1>1, Busy, Threads
  <2>6. Exited => members = << >> /\ \A t \in Io : thread[t] = Idle
      BY <1>1, Invariant1, Places DEF MembersOK, CallbacksOK
  <2>. QED  BY <1>1, <2>2, <2>3, <2>4, <2>5, <2>6 DEF TypeOK, IInv
<1>. QED  BY <1>1, ProcessInvariant, PTL

(* No callback of asio2 uses a member of the server that is not yet made,  *)
(* or that the destructor has taken away.                                  *)
THEOREM CallbacksUseMembersThatLive == Spec => []MembersAlive
<1>1. ASSUME IInv, NEW t \in Io, thread[t] # Idle
      PROVE  Uses(thread[t].does) \subseteq ToSet(members)
  <2>1. members = AllMembers
      BY <1>1, Busy, Invariant1 DEF MembersOK
  <2>2. /\ AllMembers[2] = "data_table_" /\ AllMembers[3] = "on_connect_cb_"
        /\ AllMembers[4] = "on_disconnect_cb_" /\ AllMembers[1] = "server_"
        /\ DOMAIN AllMembers = 1 .. 4
      BY DEF AllMembers
  <2>3. {"server_", "data_table_", "on_connect_cb_", "on_disconnect_cb_"}
           \subseteq ToSet(members)
      BY <2>1, <2>2 DEF ToSet
  <2>. QED  BY <2>3 DEF Uses
<1>2. IInv => MembersAlive
    BY <1>1 DEF MembersAlive
<1>. QED  BY <1>2, ProcessInvariant, PTL

(* on_connect_cb_ is never called while main assigns it.                   *)
THEOREM CallbacksCalledWhole == Spec => []CallbackWhole
<1>1. ASSUME IInv, NEW t \in Io, thread[t] # Idle
      PROVE  ~binding
    BY <1>1, Busy, Invariant1, Places DEF IInv
<1>2. IInv => CallbackWhole
    BY <1>1 DEF CallbackWhole
<1>. QED  BY <1>2, ProcessInvariant, PTL

(* All messages of a program go to one logger.                             *)
THEOREM MessagesToOneLogger == Spec => []OneLogger
<1>1. IInv => OneLogger
    BY DEF IInv
<1>. QED  BY <1>1, ProcessInvariant, PTL
=============================================================================
