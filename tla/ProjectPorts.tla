---------------------------- MODULE ProjectPorts ----------------------------
(***************************************************************************)
(* The projects of one user and the TCP ports their daemons are reached    *)
(* by: `hippo init` proposes a port (getNextAvailablePort), `hippo start`  *)
(* listens on the one in config.yml, and `hippo stop`, `pause`, `resume`   *)
(* and `status` talk to whoever listens on it (sendDaemonRequest), all of  *)
(* cmd/hippo/main.go.  What each daemon does is HippoDaemon's matter, how  *)
(* the commands of one project get on with each other DaemonLifecycle's.   *)
(***************************************************************************)
EXTENDS Naturals, FiniteSets

CONSTANTS
    Projects,   \* project names
    FirstPort,  \* the lowest port `hippo init` proposes, 8080
    MaxPort,    \* bound on the ports
    ApiKey,     \* Projects -> server.api_key
    NoKey       \* the key is missing, as in the file `hippo init` writes

Ports == 1 .. MaxPort
None  == 0

ASSUME PortsAssumption == FirstPort \in Nat \ {0} /\ MaxPort \in Nat

VARIABLES
    config,   \* Projects -> server.port in config.yml, None without the file
    wizard,   \* Projects -> the port an open `hippo init` has computed, or None
    pc,       \* Projects -> "none", "loaded" (config read), "serving" or "draining"
    bound,    \* Projects -> the port its daemon took from its configuration
    request,  \* Projects -> the port a command is about to connect to, or None
    rm,       \* the projects whose `hippo rm` waits for its confirmation
    \* history
    careless  \* the user did what the comments below say

vars == <<config, wizard, pc, bound, request, rm, careless>>

Running(p)   == pc[p] # "none"
Listening(p) == pc[p] = "serving"

Goto(p, to) == pc' = [pc EXCEPT ![p] = to]

\* The ports that belong to a project.
Claims(p) == {config[p], wizard[p], bound[p], request[p]} \ {None}

\* Careless is only: to begin one `hippo init` during another; to enter by hand a port
\* that belongs to another project; to edit the port of a project whose daemon runs or
\* that a command of is under way; to start or ask a project whose `hippo rm` waits for
\* its answer, or to begin that `rm` during such a request.
Careless(when) == careless' = (careless \/ when)

Taken(p, port) == \E q \in Projects \ {p} : port \in Claims(q)

----------------------------------------------------------------------------
(* hippo init                                                              *)

\* Mutant: the number of projects instead of the highest port.
CountsProjects(port) == port = FirstPort + Cardinality({q \in Projects : config[q] # None})

\* One above the highest port of any configuration, and above 8079.
NextPort(port) == /\ port >= FirstPort
                  /\ \A q \in Projects : config[q] < port
                  /\ port = FirstPort \/ \E q \in Projects : config[q] + 1 = port

InitBegins(p) == /\ config[p] = None /\ wizard[p] = None
                 /\ Careless(\E q \in Projects : wizard[q] # None)
                 /\ \E port \in Ports : NextPort(port) /\ wizard' = [wizard EXCEPT ![p] = port]
                 /\ UNCHANGED <<config, pc, bound, request, rm>>

\* The dialogue and the authorization may take any time; the port may be typed over, and
\* nothing is looked at again before the file is written.
InitWrites(p) == /\ wizard[p] # None
                 /\ \E port \in Ports :
                       /\ config' = [config EXCEPT ![p] = port]
                       /\ Careless(Taken(p, port))
                 /\ wizard' = [wizard EXCEPT ![p] = None]
                 /\ UNCHANGED <<pc, bound, request, rm>>

InitAborted(p) == /\ wizard[p] # None
                  /\ wizard' = [wizard EXCEPT ![p] = None]
                  /\ UNCHANGED <<config, pc, bound, request, rm, careless>>

\* config.yml is a file to be edited.
EditPort(p) == /\ config[p] # None
               /\ \E port \in Ports :
                     /\ config' = [config EXCEPT ![p] = port]
                     /\ Careless(Running(p) \/ request[p] # None \/ Taken(p, port))
               /\ UNCHANGED <<wizard, pc, bound, request, rm>>

----------------------------------------------------------------------------
(* hippo start, as far as the port is concerned; the PID file admits one.  *)

Start(p) == /\ pc[p] = "none" /\ config[p] # None
            /\ Careless(p \in rm)
            /\ Goto(p, "loaded")
            /\ bound' = [bound EXCEPT ![p] = config[p]]
            /\ UNCHANGED <<config, wizard, request, rm>>

\* Mutant: the port is tried again and again, one higher each time.
ListenAnywhere(p) ==
    /\ pc[p] = "loaded"
    /\ \E port \in Ports : /\ \A q \in Projects : Listening(q) => bound[q] # port
                           /\ bound' = [bound EXCEPT ![p] = port]
    /\ Goto(p, "serving")
    /\ UNCHANGED <<config, wizard, request, rm, careless>>

Listen(p) == /\ pc[p] = "loaded"
             /\ \A q \in Projects : Listening(q) => bound[q] # bound[p]
             /\ Goto(p, "serving")
             /\ UNCHANGED <<config, wizard, bound, request, rm, careless>>

\* The port is taken (log.Fatalf), or the process is killed, or its work is done.
Ends(p) == /\ Running(p)
           /\ Goto(p, "none")
           /\ bound' = [bound EXCEPT ![p] = None]
           /\ UNCHANGED <<config, wizard, request, rm, careless>>

\* The listener is closed first.
Signal(p) == /\ pc[p] \in {"loaded", "serving"}
             /\ Goto(p, "draining")
             /\ UNCHANGED <<config, wizard, bound, request, rm, careless>>

----------------------------------------------------------------------------
(* hippo stop, pause, resume, status                                       *)

Ask(p) == /\ config[p] # None /\ request[p] = None
          /\ Careless(p \in rm)
          /\ request' = [request EXCEPT ![p] = config[p]]
          /\ UNCHANGED <<config, wizard, pc, bound, rm>>

\* withAuth: a daemon with a key wants that key, one without takes any request.
Admits(q, p) == ApiKey[q] \in {NoKey, ApiKey[p]}

\* The daemon q that listens on the port obeys: POST /stop, or a command that does not
\* end it.
Obeys(q, p) == /\ request[p] # None
               /\ Listening(q) /\ bound[q] = request[p] /\ Admits(q, p)
               /\ pc' \in {pc, [pc EXCEPT ![q] = "draining"]}
               /\ request' = [request EXCEPT ![p] = None]
               /\ UNCHANGED <<config, wizard, bound, rm, careless>>

\* Nobody listens, or the answer is 401.
Refused(p) == /\ request[p] # None
              /\ \A q \in Projects : Listening(q) /\ bound[q] = request[p] => ~Admits(q, p)
              /\ request' = [request EXCEPT ![p] = None]
              /\ UNCHANGED <<config, wizard, pc, bound, rm, careless>>

----------------------------------------------------------------------------
(* hippo rm                                                                *)

\* Mutant: the PID file is not asked.
RmUnchecked(p) == /\ config[p] # None /\ p \notin rm
                  /\ Careless(request[p] # None)
                  /\ rm' = rm \cup {p}
                  /\ UNCHANGED <<config, wizard, pc, bound, request>>

RmCheck(p) == /\ config[p] # None /\ p \notin rm /\ ~Running(p)
              /\ Careless(request[p] # None)
              /\ rm' = rm \cup {p}
              /\ UNCHANGED <<config, wizard, pc, bound, request>>

\* os.RemoveAll, without another look, or the user thinks better of it.
RmAnswered(p) == /\ p \in rm
                 /\ rm' = rm \ {p}
                 /\ config' \in {config, [config EXCEPT ![p] = None]}
                 /\ UNCHANGED <<wizard, pc, bound, request, careless>>

----------------------------------------------------------------------------
Init == /\ config = [p \in Projects |-> None]
        /\ wizard = [p \in Projects |-> None] /\ request = [p \in Projects |-> None]
        /\ pc = [p \in Projects |-> "none"] /\ bound = [p \in Projects |-> None]
        /\ rm = {} /\ careless = FALSE

Next == \E p \in Projects :
           \/ InitBegins(p) \/ InitWrites(p) \/ InitAborted(p) \/ EditPort(p)
           \/ Start(p) \/ Listen(p) \/ Ends(p) \/ Signal(p)
           \/ Ask(p) \/ (\E q \in Projects : Obeys(q, p)) \/ Refused(p)
           \/ RmCheck(p) \/ RmAnswered(p)

Spec == Init /\ [][Next]_vars

----------------------------------------------------------------------------
(* Properties.                                                             *)

TypeOK == /\ config \in [Projects -> Ports \cup {None}]
          /\ wizard \in [Projects -> Ports \cup {None}]
          /\ request \in [Projects -> Ports \cup {None}]
          /\ pc \in [Projects -> {"none", "loaded", "serving", "draining"}]
          /\ bound \in [Projects -> Ports \cup {None}]
          /\ \A p \in Projects : bound[p] = None <=> pc[p] = "none"
          /\ rm \subseteq Projects /\ careless \in BOOLEAN

\* The ports of the projects stay apart, through any sequence of inits, removals of the
\* project with the highest port, edits, starts, crashes and stops, as long as the user
\* is not careless: getNextAvailablePort reads the configurations only.
Apart      == \A p, q \in Projects : p # q => Claims(p) \cap Claims(q) = {}
PortsApart == careless \/ Apart

\* ... so that a command reaches its own project's daemon or none: it never stops or
\* pauses another's, although a daemon without a key obeys whoever finds its port.
OwnDaemonObeys == [][\A p, q \in Projects : Obeys(q, p) => careless \/ p = q]_vars

\* The proof carries besides that a daemon listens, and a command asks, where the
\* configuration says, that a wizard has no configuration yet and that a project about
\* to be removed is at rest.
InStep ==
    \A p \in Projects : /\ Running(p) => bound[p] = config[p]
                        /\ request[p] # None => request[p] = config[p]
                        /\ wizard[p] # None => config[p] = None
                        /\ p \in rm => ~Running(p) /\ request[p] = None

\* The inductive invariant.
IInv == TypeOK /\ (careless \/ (Apart /\ InStep))
=============================================================================
