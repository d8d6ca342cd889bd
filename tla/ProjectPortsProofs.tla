------------------------- MODULE ProjectPortsProofs -------------------------
(***************************************************************************)
(* Proofs about ProjectPorts, for any number of projects and ports and     *)
(* whatever API keys they have.                                            *)
(***************************************************************************)
EXTENDS ProjectPorts, TLAPS

USE DEF Ports, None, Running

\* The steps of a project, without the commands that reach a daemon.
Local(p) == \/ InitBegins(p) \/ InitWrites(p) \/ InitAborted(p) \/ EditPort(p)
            \/ Start(p) \/ Listen(p) \/ Ends(p) \/ Signal(p)
            \/ Ask(p) \/ Refused(p) \/ RmCheck(p) \/ RmAnswered(p)

----------------------------------------------------------------------------
LEMMA TypeInit == Init => TypeOK
  BY PortsAssumption DEF Init, TypeOK

LEMMA TypeStep == ASSUME TypeOK, [Next]_vars PROVE TypeOK'
<1>1. CASE UNCHANGED vars
  BY <1>1 DEF vars, TypeOK
<1>2. ASSUME NEW p \in Projects, Local(p) PROVE TypeOK'
  <2> USE DEF TypeOK
  <2>1. CASE InitBegins(p)  BY <2>1 DEF InitBegins, Careless
  <2>2. CASE InitWrites(p)  BY <2>2 DEF InitWrites, Careless, Taken
  <2>3. CASE InitAborted(p) BY <2>3 DEF InitAborted
  <2>4. CASE EditPort(p)    BY <2>4 DEF EditPort, Careless, Taken
  <2>5. CASE Start(p)       BY <2>5 DEF Start, Careless, Goto
  <2>6. CASE Listen(p)      BY <2>6 DEF Listen, Goto
  <2>7. CASE Ends(p)        BY <2>7 DEF Ends, Goto
  <2>8. CASE Signal(p)      BY <2>8 DEF Signal, Goto
  <2>9. CASE Ask(p)         BY <2>9 DEF Ask, Careless
  <2>10. CASE Refused(p)    BY <2>10 DEF Refused
  <2>11. CASE RmCheck(p)    BY <2>11 DEF RmCheck, Careless
  <2>12. CASE RmAnswered(p) BY <2>12 DEF RmAnswered
  <2> QED BY <1>2, <2>1, <2>2, <2>3, <2>4, <2>5, <2>6, <2>7, <2>8, <2>9, <2>10, <2>11, <2>12
             DEF Local
<1>3. ASSUME NEW p \in Projects, NEW q \in Projects, Obeys(q, p) PROVE TypeOK'
  BY <1>3 DEF Obeys, Listening, TypeOK
<1> QED BY <1>1, <1>2, <1>3 DEF Next, Local

----------------------------------------------------------------------------
(* The ports stay apart.                                                   *)

LEMMA InitApart == Init => Apart /\ InStep
  BY DEF Init, Apart, InStep, Claims

\* A step that gives no project a new port keeps the ports apart.
LEMMA NoNewClaim ==
    ASSUME Apart, \A p \in Projects : Claims(p)' \subseteq Claims(p)
    PROVE  Apart'
<1> SUFFICES ASSUME NEW p \in Projects, NEW q \in Projects, p # q
             PROVE  Claims(p)' \cap Claims(q)' = {}
    BY DEF Apart
<1>1. Claims(p) \cap Claims(q) = {}
    BY DEF Apart
<1> QED BY <1>1

\* Neither does one that gives a project a port no other one has.
LEMMA OneNewClaim ==
    ASSUME Apart, NEW p \in Projects, NEW port,
           \A q \in Projects \ {p} : Claims(q)' \subseteq Claims(q) /\ port \notin Claims(q),
           Claims(p)' \subseteq Claims(p) \cup {port}
    PROVE  Apart'
<1> SUFFICES ASSUME NEW r \in Projects, NEW q \in Projects, r # q
             PROVE  Claims(r)' \cap Claims(q)' = {}
    BY DEF Apart
<1>1. Claims(r) \cap Claims(q) = {}
    BY DEF Apart
<1> QED BY <1>1

LEMMA LocalApart ==
    ASSUME TypeOK, Apart, InStep, ~careless', NEW p \in Projects, Local(p)
    PROVE  ~careless /\ Apart' /\ InStep'
<1> USE DEF TypeOK
<1>1. CASE InitBegins(p)
  <2>1. ~careless /\ \A q \in Projects : wizard[q] = None
    BY <1>1 DEF InitBegins, Careless
  <2>2. PICK port \in Ports : NextPort(port) /\ wizard' = [wizard EXCEPT ![p] = port]
    BY <1>1 DEF InitBegins
  <2>3. \A q \in Projects \ {p} : Claims(q)' = Claims(q)
    BY <1>1, <2>2 DEF InitBegins, Claims
  <2>4. \A q \in Projects : port \notin Claims(q)
    <3> TAKE q \in Projects
    <3>1. config[q] # port /\ wizard[q] # port
      BY <2>1, <2>2 DEF NextPort
    <3>2. bound[q] \in {None, config[q]} /\ request[q] \in {None, config[q]}
      BY DEF InStep
    <3> QED BY <3>1, <3>2 DEF Claims
  <2>5. Claims(p)' \subseteq Claims(p) \cup {port}
    BY <1>1, <2>2 DEF InitBegins, Claims
  <2>6. Apart'
    BY <2>3, <2>4, <2>5, OneNewClaim
  <2>7. InStep'
    BY <1>1, <2>2 DEF InitBegins, InStep
  <2> QED BY <2>1, <2>6, <2>7
<1>2. CASE InitWrites(p)
  <2>1. PICK port \in Ports : /\ config' = [config EXCEPT ![p] = port]
                              /\ Careless(Taken(p, port))
    BY <1>2 DEF InitWrites
  <2>2. ~careless /\ \A q \in Projects \ {p} : port \notin Claims(q)
    BY <2>1 DEF Careless, Taken
  <2>3. \A q \in Projects \ {p} : Claims(q)' = Claims(q)
    BY <1>2, <2>1 DEF InitWrites, Claims
  <2>4. Claims(p)' \subseteq Claims(p) \cup {port}
    BY <1>2, <2>1 DEF InitWrites, Claims
  <2>5. Apart'
    BY <2>2, <2>3, <2>4, OneNewClaim
  <2>6. InStep'
    BY <1>2, <2>1 DEF InitWrites, InStep
  <2> QED BY <2>2, <2>5, <2>6
<1>3. CASE InitAborted(p)
  <2>1. \A q \in Projects : Claims(q)' \subseteq Claims(q)
    BY <1>3 DEF InitAborted, Claims
  <2> QED BY <1>3, <2>1, NoNewClaim DEF InitAborted, InStep
<1>4. CASE EditPort(p)
  <2>1. PICK port \in Ports :
            /\ config' = [config EXCEPT ![p] = port]
            /\ Careless(Running(p) \/ request[p] # None \/ Taken(p, port))
    BY <1>4 DEF EditPort
  <2>2. /\ ~careless /\ pc[p] = "none" /\ request[p] = None
        /\ \A q \in Projects \ {p} : port \notin Claims(q)
    BY <2>1 DEF Careless, Taken
  <2>3. \A q \in Projects \ {p} : Claims(q)' = Claims(q)
    BY <1>4, <2>1 DEF EditPort, Claims
  <2>4. Claims(p)' \subseteq Claims(p) \cup {port}
    BY <1>4, <2>1 DEF EditPort, Claims
  <2>5. Apart'
    BY <2>2, <2>3, <2>4, OneNewClaim
  <2>6. InStep'
    BY <1>4, <2>1, <2>2 DEF EditPort, InStep
  <2> QED BY <2>2, <2>5, <2>6
<1>5. CASE Start(p)
  <2>1. \A q \in Projects : Claims(q)' \subseteq Claims(q)
    BY <1>5 DEF Start, Claims
  <2> QED BY <1>5, <2>1, NoNewClaim DEF Start, Careless, Goto, InStep
<1>6. CASE Listen(p)
  <2>1. \A q \in Projects : Claims(q)' \subseteq Claims(q)
    BY <1>6 DEF Listen, Claims
  <2> QED BY <1>6, <2>1, NoNewClaim DEF Listen, Goto, InStep
<1>7. CASE Ends(p)
  <2>1. \A q \in Projects : Claims(q)' \subseteq Claims(q)
    BY <1>7 DEF Ends, Claims
  <2> QED BY <1>7, <2>1, NoNewClaim DEF Ends, Goto, InStep
<1>8. CASE Signal(p)
  <2>1. \A q \in Projects : Claims(q)' \subseteq Claims(q)
    BY <1>8 DEF Signal, Claims
  <2> QED BY <1>8, <2>1, NoNewClaim DEF Signal, Goto, InStep
<1>9. CASE Ask(p)
  <2>1. \A q \in Projects : Claims(q)' \subseteq Claims(q)
    BY <1>9 DEF Ask, Claims
  <2> QED BY <1>9, <2>1, NoNewClaim DEF Ask, Careless, InStep
<1>10. CASE Refused(p)
  <2>1. \A q \in Projects : Claims(q)' \subseteq Claims(q)
    BY <1>10 DEF Refused, Claims
  <2> QED BY <1>10, <2>1, NoNewClaim DEF Refused, InStep
<1>11. CASE RmCheck(p)
  <2>1. \A q \in Projects : Claims(q)' \subseteq Claims(q)
    BY <1>11 DEF RmCheck, Claims
  <2> QED BY <1>11, <2>1, NoNewClaim DEF RmCheck, Careless, InStep
<1>12. CASE RmAnswered(p)
  <2>1. \A q \in Projects : Claims(q)' \subseteq Claims(q)
    BY <1>12 DEF RmAnswered, Claims
  <2> QED BY <1>12, <2>1, NoNewClaim DEF RmAnswered, InStep
<1> QED BY <1>1, <1>2, <1>3, <1>4, <1>5, <1>6, <1>7, <1>8, <1>9, <1>10, <1>11, <1>12 DEF Local

LEMMA ObeysApart ==
    ASSUME TypeOK, Apart, InStep, NEW p \in Projects, NEW q \in Projects, Obeys(q, p)
    PROVE  Apart' /\ InStep'
<1>1. \A r \in Projects : Claims(r)' \subseteq Claims(r)
  BY DEF Obeys, Claims, TypeOK
<1>2. InStep'
  BY DEF Obeys, Listening, InStep, TypeOK
<1> QED BY <1>1, <1>2, NoNewClaim

LEMMA ApartStep == ASSUME IInv, [Next]_vars PROVE IInv'
<1>1. TypeOK'
  BY TypeStep DEF IInv
<1>2. SUFFICES ASSUME ~careless' PROVE Apart' /\ InStep'
  BY <1>1 DEF IInv
<1>3. CASE UNCHANGED vars
  BY <1>2, <1>3 DEF IInv, vars, Apart, Claims, InStep
<1>4. ASSUME NEW p \in Projects, Local(p) PROVE Apart' /\ InStep'
  <2>1. ~careless
    BY <1>2, <1>4 DEF Local, InitBegins, InitWrites, InitAborted, EditPort, Start, Listen, Ends,
                      Signal, Ask, Refused, RmCheck, RmAnswered, Careless
  <2> QED BY <1>2, <1>4, <2>1, LocalApart DEF IInv
<1>5. ASSUME NEW p \in Projects, NEW q \in Projects, Obeys(q, p) PROVE Apart' /\ InStep'
  <2>1. ~careless
    BY <1>2, <1>5 DEF Obeys
  <2> QED BY <1>5, <2>1, ObeysApart DEF IInv
<1> QED BY <1>3, <1>4, <1>5 DEF Next, Local

\* The inductive invariant: outside the hands of a careless user the ports of the projects
\* are apart, and every daemon and every command is where its configuration says.
THEOREM PortsInvariant == Spec => []IInv
<1>1. Init => IInv
  BY TypeInit, InitApart DEF IInv
<1>2. IInv /\ [Next]_vars => IInv'
  BY ApartStep
<1> QED BY <1>1, <1>2, PTL DEF Spec

\* Every variable keeps its type, and a project has a port bound exactly while it runs.
THEOREM PortsTypeCorrect == Spec => []TypeOK
<1>1. IInv => TypeOK
  BY DEF IInv
<1> QED BY <1>1, PortsInvariant, PTL

\* No port belongs to two projects, for any number of projects, although
\* getNextAvailablePort reads the configurations only.
THEOREM PortsStayApart == Spec => []PortsApart
<1>1. IInv => PortsApart
  BY DEF IInv, PortsApart
<1> QED BY <1>1, PortsInvariant, PTL

\* A command reaches its own project's daemon or none, whatever the API keys.
THEOREM CommandsReachTheirOwn == Spec => OwnDaemonObeys
<1>1. IInv => \A p, q \in Projects : Obeys(q, p) => careless \/ p = q
  <2> SUFFICES ASSUME IInv, NEW p \in Projects, NEW q \in Projects, Obeys(q, p),
                      ~careless, p # q
               PROVE  FALSE
    OBVIOUS
  <2>1. request[p] \in Claims(p) /\ request[p] \in Claims(q)
    BY DEF Obeys, Claims
  <2> QED BY <2>1 DEF IInv, Apart
<1> QED BY <1>1, PortsInvariant, PTL DEF OwnDaemonObeys
=============================================================================
