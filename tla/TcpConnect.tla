----------------------------- MODULE TcpConnect -----------------------------
(***************************************************************************)
(* connect() of include/tcp_client.h and who calls it: one thread looks    *)
(* up the addresses of the host, tries them, sets the socket up and then   *)
(* polls; when that ends, or when connect() fails, it may call again.      *)
(*                                                                         *)
(* An action is one system call with what the code does about its result.  *)
(***************************************************************************)
EXTENDS Integers, FiniteSets, FiniteSetsExt

CONSTANTS
  Fds,        \* descriptors socket() can return
  MaxAddrs,   \* bound: addresses of a host
  MaxCalls,   \* bound: calls of connect()
  MaxFaults   \* bound: system calls that fail although the address accepts

ASSUME ConnectAssumption ==
  /\ IsFiniteSet(Fds) /\ Fds \subseteq Nat \ {0}
  /\ MaxAddrs \in Nat \ {0} /\ {MaxCalls, MaxFaults} \subseteq Nat

VARIABLES
  pc,         \* where connect() is; "idle" outside of it
  m_fd,       \* the session's descriptor, or -1
  cur,        \* the address being tried, 0 for nullptr
  ret,        \* what the last call returned
  \* the resolver and the kernel:
  info,       \* how many addresses getaddrinfo() returned, 0 when freed
  accepting,  \* those that accept connections
  sock,       \* the state of each descriptor, {} when closed
  \* what happened, for the properties:
  calls, faults

code    == <<pc, m_fd, cur, ret>>
world   == <<info, accepting, sock>>
history == <<calls, faults>>
vars    == <<code, world, history>>

Addrs    == 1..MaxAddrs
Features == {"open", "connected", "nonblock", "nodelay"}

TypeOK ==
  /\ pc \in {"idle", "socket", "connect", "free", "fcntl", "setsockopt"}
  /\ m_fd \in Fds \cup {-1}
  /\ cur \in Addrs \cup {0} /\ (pc = "connect" => cur # 0)
  /\ ret \in {"ok", "getaddrinfo_err", "connect_err", "sock_err"}
  /\ info \in 0..MaxAddrs /\ accepting \in SUBSET Addrs
  /\ sock \in [Fds -> SUBSET Features]
  /\ calls \in 0..MaxCalls /\ faults \in 0..MaxFaults

Init ==
  /\ pc = "idle" /\ m_fd = -1 /\ cur = 0 /\ ret = "connect_err"
  /\ info = 0 /\ accepting = {} /\ sock = [fd \in Fds |-> {}]
  /\ calls = 0 /\ faults = 0

-----------------------------------------------------------------------------

Free == {fd \in Fds : sock[fd] = {}}

Fault == faults < MaxFaults /\ faults' = faults + 1

Close == sock' = [sock EXCEPT ![m_fd] = {}] /\ m_fd' = -1

Return(r) == pc' = "idle" /\ ret' = r

\* Slip: the list is searched from its beginning again.
NextFromStart == cur' = 1 /\ pc' = "socket"

\* Slip: the list is taken to have no end.
NextPastEnd == cur' = cur + 1 /\ pc' = "socket"

\* cur = info->ai_next: after the first address the second, for ever.
NextAddr ==
  /\ cur' = IF info >= 2 THEN 2 ELSE 0
  /\ pc' = IF cur' = 0 THEN "free" ELSE "socket"

Lookup ==
  /\ pc = "idle" /\ m_fd = -1
  /\ calls < MaxCalls /\ calls' = calls + 1
  /\ \E n \in Addrs, S \in SUBSET Addrs :
       /\ S \subseteq 1..n
       /\ info' = n /\ accepting' = S
  /\ cur' = 1
  /\ pc' = "socket"
  /\ UNCHANGED <<m_fd, ret, sock, faults>>

LookupFails ==
  /\ pc = "idle" /\ m_fd = -1
  /\ calls < MaxCalls /\ calls' = calls + 1
  /\ Return("getaddrinfo_err")
  /\ UNCHANGED <<m_fd, cur, world, faults>>

Socket ==
  /\ pc = "socket"
  /\ Free # {}
  /\ m_fd' = Min(Free)
  /\ sock' = [sock EXCEPT ![Min(Free)] = {"open"}]
  /\ pc' = "connect"
  /\ UNCHANGED <<cur, ret, info, accepting, history>>

SocketFails ==
  /\ pc = "socket"
  /\ IF Free = {} THEN UNCHANGED faults ELSE Fault
  /\ m_fd' = -1
  /\ NextAddr
  /\ UNCHANGED <<ret, world, calls>>

Connect ==
  /\ pc = "connect" /\ cur \in accepting
  /\ sock' = [sock EXCEPT ![m_fd] = @ \cup {"connected"}]
  /\ pc' = "free"
  /\ UNCHANGED <<m_fd, cur, ret, info, accepting, history>>

\* Slip: the next address is tried without close().
ConnectFailsOpen ==
  /\ pc = "connect"
  /\ IF cur \notin accepting THEN UNCHANGED faults ELSE Fault
  /\ NextAddr
  /\ UNCHANGED <<m_fd, ret, world, calls>>

ConnectFails ==
  /\ pc = "connect"
  /\ IF cur \notin accepting THEN UNCHANGED faults ELSE Fault
  /\ Close
  /\ NextAddr
  /\ UNCHANGED <<ret, info, accepting, calls>>

\* freeaddrinfo(), and the end of a call that found no address.
FreeInfo ==
  /\ pc = "free"
  /\ info' = 0
  /\ IF m_fd < 0 THEN Return("connect_err") ELSE pc' = "fcntl" /\ UNCHANGED ret
  /\ UNCHANGED <<m_fd, cur, accepting, sock, history>>

\* fcntl(), then setsockopt().
SetUp ==
  /\ pc \in {"fcntl", "setsockopt"}
  /\ IF pc = "fcntl"
     THEN /\ sock' = [sock EXCEPT ![m_fd] = @ \cup {"nonblock"}]
          /\ pc' = "setsockopt" /\ UNCHANGED ret
     ELSE /\ sock' = [sock EXCEPT ![m_fd] = @ \cup {"nodelay"}]
          /\ Return("ok")
  /\ UNCHANGED <<m_fd, cur, info, accepting, history>>

\* Slip: sock_err without close().
SetUpFailsOpen ==
  /\ pc \in {"fcntl", "setsockopt"}
  /\ Fault
  /\ Return("sock_err")
  /\ UNCHANGED <<m_fd, cur, world, calls>>

SetUpFails ==
  /\ pc \in {"fcntl", "setsockopt"}
  /\ Fault
  /\ Close
  /\ Return("sock_err")
  /\ UNCHANGED <<cur, info, accepting, calls>>

\* poll() ends with close().
PollEnds ==
  /\ pc = "idle" /\ m_fd # -1
  /\ Close
  /\ UNCHANGED <<pc, cur, ret, info, accepting, history>>

InConnect ==
  \/ Socket \/ SocketFails \/ Connect \/ ConnectFails \/ FreeInfo
  \/ SetUp \/ SetUpFails

Next == Lookup \/ LookupFails \/ InConnect \/ PollEnds

Spec == Init /\ [][Next]_vars

\* The thread runs, and a connection attempt ends at some time.
FairSpec == Spec /\ WF_vars(InConnect)

-----------------------------------------------------------------------------

\* However often addresses, system calls and whole calls fail, the session's
\* descriptor is the only one that is open, and no list of addresses stays.
NothingLeaks ==
  /\ {fd \in Fds : sock[fd] # {}} = IF m_fd = -1 THEN {} ELSE {m_fd}
  /\ pc = "idle" => info = 0

\* Between two calls the session has a descriptor only after an ok, and it is
\* one that poll() may use: connected and never blocking.
OkMeansUsable ==
  pc = "idle" /\ m_fd # -1 => ret = "ok" /\ sock[m_fd] = Features

\* A call returns if the host has one address, or if the second one accepts:
\* for these hosts every path through connect() ends.  (Any other host
\* whose first one does not accept has its second one tried for ever.)
Returns ==
  (pc = "socket" /\ (info = 1 \/ 2 \in accepting)) ~> pc = "idle"
=============================================================================
