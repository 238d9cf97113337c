--------------------------- MODULE TcpConnectProofs ---------------------------
(***************************************************************************)
(* Theorems about TcpConnect for every set of descriptors and every number *)
(* of addresses, calls and failing system calls.                           *)
(***************************************************************************)
EXTENDS TcpConnect, QueueLemmas

(***************************************************************************)
(* The descriptor socket() returns.                                        *)
(***************************************************************************)

\* socket() returns a descriptor that was closed.
LEMMA FreeHasMin ==
  ASSUME Free # {}
  PROVE  Min(Free) \in Fds /\ sock[Min(Free)] = {}
<1>1. Free \subseteq Nat
  BY ConnectAssumption DEF Free, ConnectAssumption
<1>. QED
  BY <1>1, HasMin DEF Free

(***************************************************************************)
(* The inductive invariant: at each point of connect(), which descriptor   *)
(* is open and what was done to it, and whether the list is still there.   *)
(***************************************************************************)

\* No descriptor but the session's is open, and the session has one exactly
\* where the code uses it.
OnlySession ==
  /\ \A fd \in Fds : fd # m_fd => sock[fd] = {}
  /\ pc = "socket" => m_fd = -1
  /\ pc \in {"connect", "fcntl", "setsockopt"} => m_fd # -1

\* What the calls so far made of the session's descriptor.
MadeSoFar ==
  m_fd # -1 =>
    CASE pc = "connect"           -> sock[m_fd] = {"open"}
      [] pc \in {"free", "fcntl"} -> sock[m_fd] = {"open", "connected"}
      [] pc = "setsockopt"        -> sock[m_fd] = {"open", "connected", "nonblock"}
      [] OTHER                    -> ret = "ok" /\ sock[m_fd] = Features

\* The list of addresses is there while connect() reads it, and not when it is done.
ListInUse ==
  /\ pc \in {"socket", "connect"} => cur \in 1..info
  /\ pc \in {"idle", "fcntl", "setsockopt"} => info = 0

ConnectInv == TypeOK /\ OnlySession /\ MadeSoFar /\ ListInUse

\* The bounds are numbers, and -1 is no descriptor.
LEMMA Bounds ==
  /\ MaxAddrs \in Nat \ {0} /\ MaxCalls \in Nat /\ MaxFaults \in Nat
  /\ -1 \notin Fds /\ \A fd \in Fds : fd \in Nat \ {0}
BY ConnectAssumption DEF ConnectAssumption

\* In the beginning no descriptor is open.
LEMMA InitInv == Init => ConnectInv
<1>. SUFFICES ASSUME Init PROVE ConnectInv
  OBVIOUS
<1>1. TypeOK
  BY Bounds DEF Init, TypeOK
<1>2. OnlySession /\ MadeSoFar /\ ListInUse
  BY DEF Init, OnlySession, MadeSoFar, ListInUse
<1>. QED
  BY <1>1, <1>2 DEF ConnectInv

(***************************************************************************)
(* The steps that touch no descriptor.                                     *)
(***************************************************************************)

LEMMA LookupInv == ConnectInv /\ (Lookup \/ LookupFails) => ConnectInv'
<1>. SUFFICES ASSUME ConnectInv, Lookup \/ LookupFails PROVE ConnectInv'
  OBVIOUS
<1>. USE DEF ConnectInv, world
<1>1. calls' \in 0..MaxCalls
  BY Bounds DEF Lookup, LookupFails, TypeOK
<1>2. info' \in 0..MaxAddrs /\ accepting' \in SUBSET Addrs
  <2>1. CASE Lookup
    <3>1. PICK n \in Addrs, S \in SUBSET Addrs : info' = n /\ accepting' = S
      BY <2>1 DEF Lookup
    <3>. QED
      BY <3>1, Bounds DEF Addrs
  <2>2. CASE LookupFails
    BY <2>2 DEF LookupFails, TypeOK
  <2>. QED
    BY <2>1, <2>2
<1>3. cur' \in Addrs \cup {0} /\ (pc' = "socket" => cur' \in 1..info')
  BY Bounds DEF Lookup, LookupFails, TypeOK, Addrs, Return
<1>4. TypeOK'
  BY <1>1, <1>2, <1>3 DEF Lookup, LookupFails, TypeOK, Return
<1>5. OnlySession' /\ MadeSoFar'
  BY DEF Lookup, LookupFails, Return, OnlySession, MadeSoFar
<1>6. ListInUse'
  BY <1>3 DEF Lookup, LookupFails, Return, ListInUse
<1>. QED
  BY <1>4, <1>5, <1>6

LEMMA FreeInfoInv == ConnectInv /\ FreeInfo => ConnectInv'
<1>. SUFFICES ASSUME ConnectInv, FreeInfo PROVE ConnectInv'
  OBVIOUS
<1>. USE DEF ConnectInv, FreeInfo, Return, history
<1>1. m_fd < 0 <=> m_fd = -1
  BY Bounds DEF TypeOK
<1>2. TypeOK'
  BY Bounds DEF TypeOK
<1>3. OnlySession' /\ MadeSoFar'
  BY <1>1 DEF OnlySession, MadeSoFar
<1>4. ListInUse'
  BY <1>1 DEF ListInUse
<1>. QED
  BY <1>2, <1>3, <1>4

(***************************************************************************)
(* The steps that open a descriptor or change it.                          *)
(***************************************************************************)

\* What an assignment to the state of one descriptor does to the others.
LEMMA SetSock ==
  ASSUME sock \in [Fds -> SUBSET Features], NEW fd \in Fds,
         NEW F \in SUBSET Features, sock' = [sock EXCEPT ![fd] = F]
  PROVE  /\ sock' \in [Fds -> SUBSET Features] /\ sock'[fd] = F
         /\ \A other \in Fds \ {fd} : sock'[other] = sock[other]
OBVIOUS

LEMMA SocketInv == ConnectInv /\ Socket => ConnectInv'
<1>. SUFFICES ASSUME ConnectInv, Socket PROVE ConnectInv'
  OBVIOUS
<1>. USE DEF ConnectInv, Socket, history
<1>1. /\ m_fd = -1 /\ m_fd' \in Fds /\ m_fd' # -1
      /\ sock' = [sock EXCEPT ![m_fd'] = {"open"}]
      /\ {"open"} \in SUBSET Features /\ sock \in [Fds -> SUBSET Features]
  BY FreeHasMin, Bounds DEF OnlySession, TypeOK, Features
<1>2. /\ sock' \in [Fds -> SUBSET Features] /\ sock'[m_fd'] = {"open"}
      /\ \A other \in Fds \ {m_fd'} : sock'[other] = sock[other]
  BY <1>1, SetSock
<1>3. cur \in 1..info /\ cur # 0
  BY DEF ListInUse, TypeOK
<1>4. TypeOK'
  BY <1>1, <1>2, <1>3 DEF TypeOK
<1>5. OnlySession' /\ MadeSoFar'
  <2>1. \A fd \in Fds : fd # m_fd' => sock'[fd] = {}
    BY <1>1, <1>2, Bounds DEF OnlySession
  <2>2. pc' = "connect" /\ m_fd' # -1
    BY <1>1
  <2>. QED
    BY <1>2, <2>1, <2>2 DEF OnlySession, MadeSoFar
<1>6. ListInUse'
  BY <1>3 DEF ListInUse
<1>. QED
  BY <1>4, <1>5, <1>6

LEMMA MakeInv == ConnectInv /\ (Connect \/ SetUp) => ConnectInv'
<1>. SUFFICES ASSUME ConnectInv, Connect \/ SetUp PROVE ConnectInv'
  OBVIOUS
<1>. USE DEF ConnectInv, Connect, SetUp, Return, history
<1>1. m_fd \in Fds /\ m_fd' = m_fd /\ m_fd # -1
  BY DEF OnlySession, TypeOK
<1>2. /\ sock' \in [Fds -> SUBSET Features]
      /\ \A other \in Fds \ {m_fd} : sock'[other] = sock[other]
  BY <1>1 DEF TypeOK, Features
<1>3. TypeOK'
  BY <1>2 DEF TypeOK
<1>4. OnlySession'
  BY <1>1, <1>2 DEF OnlySession
<1>5. MadeSoFar'
  <2>1. CASE Connect
    BY <1>1, <2>1 DEF MadeSoFar, TypeOK
  <2>2. CASE SetUp /\ pc = "fcntl"
    BY <1>1, <2>2 DEF MadeSoFar, TypeOK
  <2>3. CASE SetUp /\ pc = "setsockopt"
    <3>1. sock'[m_fd] = sock[m_fd] \cup {"nodelay"}
      BY <1>1, <2>3 DEF TypeOK
    <3>. QED
      BY <1>1, <2>3, <3>1 DEF MadeSoFar, Features
  <2>. QED
    BY <2>1, <2>2, <2>3
<1>6. ListInUse'
  BY <1>1 DEF ListInUse
<1>. QED
  BY <1>3, <1>4, <1>5, <1>6

(***************************************************************************)
(* The steps that close the descriptor, and where connect() goes on.       *)
(***************************************************************************)

\* Failures are counted up to their bound.
LEMMA FaultType ==
  ASSUME TypeOK, UNCHANGED faults \/ Fault
  PROVE  faults' \in 0..MaxFaults
BY Bounds DEF TypeOK, Fault

\* After close() no descriptor is open.
LEMMA CloseSock ==
  ASSUME TypeOK, OnlySession, Close, m_fd # -1
  PROVE  /\ m_fd' = -1 /\ sock' \in [Fds -> SUBSET Features]
         /\ \A fd \in Fds : sock'[fd] = {}
<1>1. m_fd \in Fds
  BY DEF TypeOK
<1>. QED
  BY <1>1 DEF Close, TypeOK, OnlySession

\* Where the next address is read from a list with one or more.
LEMMA NextAddrInv ==
  ASSUME TypeOK, ListInUse, pc \in {"socket", "connect"}, NextAddr,
         info' = info
  PROVE  /\ pc' \in {"socket", "free"} /\ cur' \in Addrs \cup {0}
         /\ pc' = "socket" => cur' \in 1..info'
<1>1. info \in 1..MaxAddrs /\ cur \in 1..info /\ MaxAddrs \in Nat
  BY Bounds DEF TypeOK, ListInUse
<1>2. CASE info >= 2
  BY <1>1, <1>2 DEF NextAddr, Addrs, TypeOK
<1>3. CASE info = 1
  BY <1>1, <1>3 DEF NextAddr, Addrs, TypeOK
<1>. QED
  BY <1>1, <1>2, <1>3

\* An attempt that fails closes its descriptor before the next one.
LEMMA AttemptFailsInv ==
  ConnectInv /\ (SocketFails \/ ConnectFails) => ConnectInv'
<1>. SUFFICES ASSUME ConnectInv, SocketFails \/ ConnectFails PROVE ConnectInv'
  OBVIOUS
<1>. USE DEF ConnectInv, world
<1>1. /\ NextAddr /\ info' = info
      /\ pc \in {"socket", "connect"} /\ UNCHANGED <<ret, accepting, calls>>
  BY DEF SocketFails, ConnectFails
<1>2. /\ m_fd' = -1 /\ sock' \in [Fds -> SUBSET Features]
      /\ \A fd \in Fds : sock'[fd] = {}
  <2>1. CASE SocketFails
    BY <2>1, Bounds DEF SocketFails, OnlySession, TypeOK
  <2>2. CASE ConnectFails
    BY <2>2, CloseSock DEF ConnectFails, OnlySession
  <2>. QED
    BY <2>1, <2>2
<1>3. faults' \in 0..MaxFaults
  BY FaultType DEF SocketFails, ConnectFails
<1>4. TypeOK'
  BY <1>1, <1>2, <1>3, NextAddrInv DEF TypeOK
<1>5. OnlySession' /\ MadeSoFar'
  BY <1>1, <1>2, NextAddrInv DEF OnlySession, MadeSoFar
<1>6. ListInUse'
  BY <1>1, NextAddrInv DEF ListInUse
<1>. QED
  BY <1>4, <1>5, <1>6

LEMMA CloseInv == ConnectInv /\ (SetUpFails \/ PollEnds) => ConnectInv'
<1>. SUFFICES ASSUME ConnectInv, SetUpFails \/ PollEnds PROVE ConnectInv'
  OBVIOUS
<1>. USE DEF ConnectInv, SetUpFails, PollEnds, Return, history
<1>1. /\ m_fd' = -1 /\ sock' \in [Fds -> SUBSET Features]
      /\ \A fd \in Fds : sock'[fd] = {}
  BY CloseSock DEF OnlySession
<1>2. faults' \in 0..MaxFaults
  BY FaultType
<1>3. TypeOK'
  BY <1>1, <1>2 DEF TypeOK
<1>4. OnlySession' /\ MadeSoFar' /\ ListInUse'
  BY <1>1 DEF OnlySession, MadeSoFar, ListInUse
<1>. QED
  BY <1>3, <1>4

\* Every step keeps the invariant.
LEMMA StepInv == ConnectInv /\ [Next]_vars => ConnectInv'
<1>1. ConnectInv /\ UNCHANGED vars => ConnectInv'
  BY DEF vars, code, world, history, ConnectInv, TypeOK, OnlySession, MadeSoFar,
         ListInUse
<1>. QED
  BY <1>1, LookupInv, FreeInfoInv, SocketInv, MakeInv, AttemptFailsInv, CloseInv,
     Zenon DEF Next, InConnect

\* At each point of connect(), whatever failed before, the session's descriptor
\* is the only open one, it is as far as the calls made on it, and the list of
\* addresses is there while the loop reads it.
THEOREM ConnectInvHolds == Spec => []ConnectInv
BY InitInv, StepInv, PTL DEF Spec

(***************************************************************************)
(* What follows.                                                           *)
(***************************************************************************)

\* Every variable of connect() keeps its type.
THEOREM ConnectTypeCorrect == Spec => []TypeOK
<1>1. ConnectInv => TypeOK
  BY DEF ConnectInv
<1>. QED
  BY <1>1, ConnectInvHolds, PTL

\* Whichever system calls fail, and however often connect() is called again, no
\* descriptor but the session's stays open and no list of addresses is kept.
THEOREM ConnectNeverLeaks == Spec => []NothingLeaks
<1>1. ConnectInv => NothingLeaks
  <2>. SUFFICES ASSUME ConnectInv PROVE NothingLeaks
    OBVIOUS
  <2>1. m_fd # -1 => m_fd \in Fds /\ sock[m_fd] # {}
    BY DEF ConnectInv, TypeOK, MadeSoFar, OnlySession, Features
  <2>2. pc = "idle" => info = 0
    BY DEF ConnectInv, ListInUse
  <2>. QED
    BY <2>1, <2>2, Bounds DEF ConnectInv, OnlySession, NothingLeaks
<1>. QED
  BY <1>1, ConnectInvHolds, PTL

\* When connect() is not running, a session with a descriptor had an ok, and
\* poll() finds it connected, without delay and never blocking.
THEOREM OkIsUsable == Spec => []OkMeansUsable
<1>1. ConnectInv => OkMeansUsable
  BY DEF ConnectInv, OkMeansUsable, MadeSoFar
<1>. QED
  BY <1>1, ConnectInvHolds, PTL
=============================================================================
