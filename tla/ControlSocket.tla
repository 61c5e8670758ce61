---------------------------- MODULE ControlSocket ----------------------------
(***************************************************************************)
(* One instance at a time: how an application that starts takes the        *)
(* control socket (CaptureControlServer::Listen,                           *)
(* ddd-gui/src/gui/capture_control_server.cpp). The socket is a Unix one:  *)
(* a name in the file system, which a process that was killed leaves       *)
(* behind, and on which a second listen is refused.                        *)
(***************************************************************************)
EXTENDS Naturals, FiniteSets

CONSTANT Instances      \* applications of one user that start

ASSUME SocketAssumption == {"free", "abandoned"} \cap Instances = {}

VARIABLES
    socket,         \* what the name leads to: "free", "abandoned", or an instance
    listening,      \* instances that believe they hold it
    step,           \* where each is in Listen
    killed          \* history: one was killed while it listened

socketVars == <<socket, listening, step, killed>>

SocketInit ==
    /\ socket = "free" /\ listening = {} /\ killed = FALSE
    /\ step = [i \in Instances |-> "knock"]

At(i, here, there) == step[i] = here /\ step' = [step EXCEPT ![i] = there]

\* Somebody accepts a connection on the name
Answering == socket \in listening

Knock(i) ==
    /\ At(i, "knock", IF Answering THEN "refused" ELSE "listen")
    /\ UNCHANGED <<socket, listening, killed>>

Listen(i, here, otherwise) ==
    /\ At(i, here, IF socket = "free" THEN "up" ELSE otherwise)
    /\ IF socket = "free" THEN socket' = i /\ listening' = listening \cup {i}
       ELSE UNCHANGED <<socket, listening>>
    /\ UNCHANGED killed

\* Mutant: what is in the way is taken for abandoned
KnocksOnce(i) ==
    At(i, "knockAgain", "replace") /\ UNCHANGED <<socket, listening, killed>>

KnockAgain(i) ==
    /\ At(i, "knockAgain", IF Answering THEN "refused" ELSE "replace")
    /\ UNCHANGED <<socket, listening, killed>>

RemoveServer(i) ==
    /\ At(i, "replace", "listenAgain") /\ socket' = "free"
    /\ UNCHANGED <<listening, killed>>

Killed(i) ==
    /\ At(i, "up", "gone") /\ listening' = listening \ {i} /\ killed' = TRUE
    /\ socket' = IF socket = i THEN "abandoned" ELSE socket

SocketNext ==
    \E i \in Instances :
        \/ Knock(i) \/ Listen(i, "listen", "knockAgain") \/ KnockAgain(i)
        \/ RemoveServer(i) \/ Listen(i, "listenAgain", "refused") \/ Killed(i)
SocketSpec == SocketInit /\ [][SocketNext]_socketVars

\* One instance listens, whichever start at once: the second knock tells a socket
\* left behind from that of an instance that came in between. Two that both find an
\* abandoned socket can each take it, the later from the earlier
\* (capture_control_server.cpp:274).
OneListens == ~killed => Cardinality(listening) <= 1
=============================================================================
