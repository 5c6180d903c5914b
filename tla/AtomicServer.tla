---------------------------- MODULE AtomicServer ----------------------------
(***************************************************************************)
(* What a client expects of the server: each request is handled at one     *)
(* instant between its arrival and its reply, on the whole table, and the  *)
(* reply tells of that instant.  Effect and Reply give the functions their *)
(* meaning; how they are computed is left open.  The application writes to *)
(* the same table, its stores at one instant too.                          *)
(***************************************************************************)
EXTENDS RequestEffect

CONSTANTS
    Session,
    App,
    AppAccess,
    ToldOf      \* the functions whose reply tells of the instant

VARIABLES
    table,      \* what each block holds
    client      \* what each client waits for, or has been answered

avars == << table, client >>

NoRequest == [stage |-> "idle"]

AInit ==
    /\ table = InitialTable
    /\ client = [s \in Session |-> NoRequest]

(* A reply as the client may rely on it: without the words it read, unless *)
(* they are of the instant.                                                *)
Told(p, r) ==
    IF p.fn \in (ReadFunction \cup {write_single_coil}) \ ToldOf
    THEN [r EXCEPT !.data = << >>] ELSE r

ARequest(s, p) ==
    /\ client[s].stage = "idle"
    /\ p.fn # -1 /\ Verdict(p) = 0
    /\ client' = [client EXCEPT ![s] = [stage |-> "asked", pkt |-> p]]
    /\ UNCHANGED table

AHandle(s) ==
    /\ client[s].stage = "asked"
    /\ LET p == client[s].pkt IN
         /\ table' = Effect(table, p)
         /\ client' = [client EXCEPT ![s] =
               [stage |-> "answered", pkt |-> p, reply |-> Told(p, Reply(table, p))]]

(* A request that is refused leaves the table as it is.                    *)
ARefuse(s, p) ==
    /\ client[s].stage = "idle"
    /\ p.fn # -1 /\ Verdict(p) # 0
    /\ client' = [client EXCEPT ![s] =
                    [stage |-> "answered", pkt |-> p,
                     reply |-> Exception(p, Verdict(p))]]
    /\ UNCHANGED table

ADone(s) ==
    /\ client[s].stage = "answered"
    /\ client' = [client EXCEPT ![s] = NoRequest]
    /\ UNCHANGED table

AAppStore(r) ==
    /\ Writes(r) /\ Valid(r)
    /\ table' = [table EXCEPT ![r.blk] = Written(@, r)]
    /\ UNCHANGED client

ANext ==
    \/ \E s \in Session :
        \/ \E p \in Packet : ARequest(s, p) \/ ARefuse(s, p)
        \/ AHandle(s) \/ ADone(s)
    \/ App # {} /\ \E r \in AppAccess : AAppStore(r)

ASpec == AInit /\ [][ANext]_avars
=============================================================================
