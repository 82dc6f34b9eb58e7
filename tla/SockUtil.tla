------------------------------ MODULE SockUtil ------------------------------
(* SockUtil of src/src/Network/sockutil.cpp: threads that make sockets with *)
(* system calls each of which may fail, the cache of resolved names that    *)
(* they share, and PipeWrap as it is made where there is no pipe().  Socket *)
(* options whose failure nobody looks at are left out.                      *)
EXTENDS Naturals, FiniteSets, Sequences

CONSTANTS
  Makers,        \* threads
  NoAddress,
  LocalIps,      \* local addresses asked for, some of: "::" "0.0.0.0" "v4" "v6"
  MaxFd,         \* descriptors of the process: 0 .. MaxFd - 1
  ExpireSec,     \* of a resolved name
  MaxSeconds, MaxMoves, \* how long, and how often the name's address changes
  MaxCalls

ASSUME SockUtilAssumption == {MaxFd, ExpireSec, MaxSeconds, MaxMoves, MaxCalls} \subseteq Nat
                          /\ "name" \notin LocalIps

VARIABLES
  ipv6,      \* the host supports IPv6
  fds,       \* open descriptors: number -> local address asked for, and bound to
  maker,     \* thread -> what it does, at which step, with which descriptors
  held,      \* descriptors handed to callers
  leaked,    \* the listeners that a PipeWrap which could not be made leaves open
  seconds, address, moved, \* time(), the address of the name, and since when
  cache,     \* _dns_cache of the one name: a sequence of at most one item
  sockCalls

sockVars == <<ipv6, fds, maker, held, leaked, seconds, address, moved, cache, sockCalls>>

FreeFds == (0 .. MaxFd - 1) \ DOMAIN fds
Lowest == CHOOSE n \in FreeFds : \A m \in FreeFds : n <= m
Closed(n) == [m \in DOMAIN fds \ {n} |-> fds[m]]
AtRest == [op |-> "none", step |-> "none", host |-> "none", own |-> {}, fd |-> MaxFd,
           addr |-> NoAddress, asked |-> 0]

SockInit ==
  /\ ipv6 \in BOOLEAN /\ fds = [n \in {} |-> AtRest]
  /\ maker = [t \in Makers |-> AtRest] /\ held = {} /\ leaked = {}
  /\ seconds = 0 /\ address = 0 /\ moved = 0 /\ cache = <<>> /\ sockCalls = 0

netState == <<ipv6, seconds, address, moved>>

-----------------------------------------------------------------------------
(* Mutant: IPv6 is taken where there is IPv6, whatever the address.         *)
FamilyOfHost(ip) == IF ipv6 THEN "inet6" ELSE "inet"

(* The family of a listening or UDP socket, and what bind_sock4 and         *)
(* bind_sock6 make of a local address: one that is not of the family is     *)
(* taken for the wildcard, which in IPv6 takes IPv4 peers too.              *)
FamilyOf(ip) == IF ipv6 /\ ip \notin {"0.0.0.0", "v4"} THEN "inet6" ELSE "inet"
BoundTo(family, ip) ==
  IF family = "inet" THEN IF ip = "v4" THEN "v4" ELSE "any4"
  ELSE IF ip = "v6" THEN "v6" ELSE "any"

GoesOn(t, step) == maker' = [maker EXCEPT ![t].step = step]
Ends(t) == maker' = [maker EXCEPT ![t] = AtRest]

Call(t, op, host) ==
  /\ maker[t].op = "none" /\ sockCalls < MaxCalls /\ sockCalls' = sockCalls + 1
  /\ maker' = [maker EXCEPT ![t] = [AtRest EXCEPT !.op = op, !.host = host,
                !.asked = IF host = "name" THEN seconds ELSE 0,
                !.step = IF op = "connect" /\ host = "name" THEN "cache" ELSE "socket"]]
  /\ UNCHANGED <<netState, fds, held, leaked, cache>>

-----------------------------------------------------------------------------
(* DnsCache                                                                 *)

TooOld(item) == item.created + ExpireSec < seconds

(* Mutant: an item that is used is kept longer.                             *)
GetCacheRenews(t) ==
  /\ maker[t].step = "cache"
  /\ IF cache = <<>> \/ TooOld(cache[1])
     THEN cache' = <<>> /\ GoesOn(t, "resolve")
     ELSE /\ maker' = [maker EXCEPT ![t].step = "socket", ![t].addr = cache[1].addr]
          /\ cache' = << [cache[1] EXCEPT !.created = seconds] >>
  /\ UNCHANGED <<netState, fds, held, leaked, sockCalls>>

GetCacheDomainIP(t) ==
  /\ maker[t].step = "cache"
  /\ IF cache = <<>> \/ TooOld(cache[1])
     THEN cache' = <<>> /\ GoesOn(t, "resolve")
     ELSE /\ maker' = [maker EXCEPT ![t].step = "socket", ![t].addr = cache[1].addr]
          /\ UNCHANGED cache
  /\ UNCHANGED <<netState, fds, held, leaked, sockCalls>>

(* getaddrinfo answers, or fails and so does the call.                      *)
GetSystemDomainIP(t) ==
  /\ maker[t].step = "resolve"
  /\ \/ Ends(t)
     \/ maker' = [maker EXCEPT ![t].step = "store", ![t].addr = address]
  /\ UNCHANGED <<netState, fds, held, leaked, cache, sockCalls>>

SetCacheDomainIP(t) ==
  /\ maker[t].step = "store"
  /\ cache' = << [addr |-> maker[t].addr, created |-> seconds] >> /\ GoesOn(t, "socket")
  /\ UNCHANGED <<netState, fds, held, leaked, sockCalls>>

(* Time passes; a thread between its lookup and the cache is not put off    *)
(* for a second.                                                            *)
Second ==
  /\ seconds < MaxSeconds /\ \A t \in Makers : maker[t].step # "store"
  /\ seconds' = seconds + 1
  /\ UNCHANGED <<ipv6, fds, maker, held, leaked, address, moved, cache, sockCalls>>

Move ==
  /\ address < MaxMoves /\ address' = address + 1 /\ moved' = seconds
  /\ UNCHANGED <<ipv6, fds, maker, held, leaked, seconds, cache, sockCalls>>

-----------------------------------------------------------------------------
(* System calls                                                             *)

Family(t) == IF maker[t].op = "connect" /\ maker[t].host \in {"name", "v4"} THEN "inet"
             ELSE IF maker[t].op = "connect" THEN "inet6"
             ELSE IF maker[t].op = "pipe" THEN "inet" ELSE FamilyOf(maker[t].host)

LocalIp(t) == IF maker[t].op = "connect" THEN "::" ELSE maker[t].host

(* Mutant: what cannot be bound or connected stays open.                    *)
GivesUpOpen(t) == Ends(t) /\ UNCHANGED <<fds, held>>
GivesUp(t) == Ends(t) /\ fds' = Closed(maker[t].fd) /\ UNCHANGED held

HandsOver(t) == Ends(t) /\ held' = held \cup {maker[t].fd} /\ UNCHANGED fds

Socket(t) ==
  /\ maker[t].step = "socket" /\ maker[t].op # "pipe"
  /\ \/ Ends(t) /\ UNCHANGED fds
     \/ /\ FreeFds # {} /\ (Family(t) = "inet6" => ipv6)
        /\ fds' = [n \in DOMAIN fds \cup {Lowest} |->
                     IF n = Lowest THEN [family |-> Family(t), local |-> LocalIp(t), at |-> "none"]
                     ELSE fds[n]]
        /\ maker' = [maker EXCEPT ![t].step = "bind", ![t].fd = Lowest, ![t].own = {Lowest}]
  /\ UNCHANGED <<netState, held, leaked, cache, sockCalls>>

Bind(t) ==
  /\ maker[t].step = "bind"
  /\ \/ GivesUp(t)
     \/ LET n == maker[t].fd
        IN /\ fds' = [fds EXCEPT ![n].at = BoundTo(fds[n].family, fds[n].local)]
           /\ IF maker[t].op = "udp"
              THEN Ends(t) /\ held' = held \cup {n}
              ELSE GoesOn(t, "go") /\ UNCHANGED held
  /\ UNCHANGED <<netState, leaked, cache, sockCalls>>

(* listen; or connect, at once or later: EINPROGRESS is UV_EAGAIN.          *)
ListenOrConnect(t) ==
  /\ maker[t].step = "go"
  /\ GivesUp(t) \/ HandsOver(t)
  /\ UNCHANGED <<netState, leaked, cache, sockCalls>>

CloseKept(n) ==
  /\ n \in held /\ held' = held \ {n} /\ fds' = Closed(n)
  /\ UNCHANGED <<netState, maker, leaked, cache, sockCalls>>

-----------------------------------------------------------------------------
(* PipeWrap::reOpen with sockets: the write end connects to a listener and  *)
(* the read end is accepted; if either fails, clearFD closes the ends that  *)
(* are there, and not the listener.                                         *)
Opened(n) == [m \in DOMAIN fds \cup {n} |->
                IF m = n THEN [family |-> "inet", local |-> "v4", at |-> "v4"] ELSE fds[m]]

PipeOpens(t) ==
  /\ maker[t].op = "pipe" /\ maker[t].step \in {"socket", "write end", "read end"} /\ FreeFds # {}
  /\ fds' = Opened(Lowest)
  /\ maker' = [maker EXCEPT ![t].own = @ \cup {Lowest},
                            ![t].fd = IF maker[t].step = "socket" THEN Lowest ELSE @,
                            ![t].step = CASE @ = "socket" -> "write end" [] @ = "write end" -> "read end"
                                          [] OTHER -> "close listener"]
  /\ UNCHANGED <<netState, held, leaked, cache, sockCalls>>

PipeFails(t) ==
  /\ maker[t].op = "pipe" /\ maker[t].step \in {"socket", "write end", "read end"}
  /\ LET ends == maker[t].own \ {maker[t].fd}
     IN fds' = [m \in DOMAIN fds \ ends |-> fds[m]]
  /\ leaked' = leaked \cup (maker[t].own \cap {maker[t].fd})
  /\ Ends(t)
  /\ UNCHANGED <<netState, held, cache, sockCalls>>

PipeDone(t) ==
  /\ maker[t].step = "close listener"
  /\ fds' = Closed(maker[t].fd) /\ held' = held \cup (maker[t].own \ {maker[t].fd})
  /\ Ends(t)
  /\ UNCHANGED <<netState, leaked, cache, sockCalls>>

Step(t) ==
  \/ \E host \in {"name", "v4", "v6"} : Call(t, "connect", host)
  \/ \E op \in {"listen", "udp"}, ip \in LocalIps : Call(t, op, ip)
  \/ Call(t, "pipe", "v4")
  \/ GetCacheDomainIP(t) \/ GetSystemDomainIP(t) \/ SetCacheDomainIP(t)
  \/ Socket(t) \/ Bind(t) \/ ListenOrConnect(t)
  \/ PipeOpens(t) \/ PipeFails(t) \/ PipeDone(t)

SockNext == Second \/ Move \/ (\E t \in Makers : Step(t)) \/ (\E n \in held : CloseKept(n))
SockSpec == SockInit /\ [][SockNext]_sockVars

-----------------------------------------------------------------------------
(* Each open descriptor is held by one thread or was given to one caller,   *)
(* whatever failed: none is lost, but for the listeners of pipes, and none  *)
(* that is in use is closed by another.                                     *)
DescriptorsOwned ==
  /\ DOMAIN fds = held \cup leaked \cup UNION {maker[t].own : t \in Makers}
  /\ \A t \in Makers : maker[t].own \cap (held \cup leaked) = {}
  /\ \A t, u \in Makers : t # u => maker[t].own \cap maker[u].own = {}

(* A caller's socket is bound where it was asked for: at a wildcard it takes *)
(* IPv4 peers, and at an address of a family that the host supports it      *)
(* takes peers there only.                                                  *)
BoundAsAsked ==
  \A n \in held :
    LET local == fds[n].local
        at == fds[n].at
    IN /\ local \in {"::", "0.0.0.0"} => at \in {"any", "any4"}
       /\ local = "::" /\ ipv6 /\ fds[n].family = "inet6" => at = "any"
       /\ local = "v4" \/ (local = "v6" /\ ipv6) => at = local

(* An address that changed is used for ExpireSec more at most: a call that  *)
(* starts later connects to the new one.                                    *)
NamesKeepUp ==
  \A t \in Makers : maker[t].addr # NoAddress /\ maker[t].step = "socket" /\ maker[t].host = "name"
    => maker[t].asked <= moved + ExpireSec \/ maker[t].addr = address

(* SockUtil and PipeWrap: no descriptor is lost, sockets are bound where it *)
(* was asked for, and names are resolved anew.                              *)
SystemCallsSafe == DescriptorsOwned /\ BoundAsAsked /\ NamesKeepUp
=============================================================================
