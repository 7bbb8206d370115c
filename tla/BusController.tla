--------------------------- MODULE BusController ---------------------------
(***************************************************************************)
(* BusController: the TCP server the simulator connects to.                *)
(*                                                                         *)
(* The accept thread puts the newest connection in m_clientFd and closes   *)
(* the one it replaces.  sendAcyclicFrame, called by the send thread and   *)
(* by the GUI thread under m_apiMutex, loads m_clientFd, writes one packet *)
(* and, for an RT -> BC frame, reads one answer.  shutdown() runs when the *)
(* program ends.                                                           *)
(*                                                                         *)
(* The kernel's descriptor table and the simulator are external.  `file'   *)
(* says which connection a descriptor is, an accepted connection gets the  *)
(* lowest free descriptor, and a peer that closes or crashes makes later   *)
(* writes fail as Linux does: a connection reset by the peer fails one     *)
(* write with ECONNRESET, and a write after that, or the second write      *)
(* after the peer has closed, raises SIGPIPE, which nothing handles.       *)
(***************************************************************************)
EXTENDS Integers, Sequences, FiniteSets

CONSTANTS
    MaxConns,   \* connections the simulator makes
    Callers,    \* threads that call sendAcyclicFrame
    MaxSends,   \* bound on the calls of sendAcyclicFrame
    SendBuffer, \* packets the socket buffers of a connection take
    Prompt      \* the simulator reads and answers within the 100 ms of SO_RCVTIMEO

ASSUME MaxConnsAssumption == MaxConns \in Nat \ {0}
ASSUME MaxSendsAssumption == MaxSends \in Nat
ASSUME SendBufferAssumption == SendBuffer \in Nat \ {0}
ASSUME PromptAssumption == Prompt \in BOOLEAN
ASSUME CallersAssumption == "free" \notin Callers

VARIABLES
    isInitialized,  \* m_isInitialized
    server,         \* m_serverFd: none, listening, shut
    clientFd,       \* m_clientFd
    accepting,      \* where the accept thread is
    newSocket,      \* acceptLoop's locals
    oldClient,
    apiMutex,       \* holder of m_apiMutex, or free
    at,             \* where each caller is in sendAcyclicFrame
    mode,           \* config.mode of the frame it sends
    currentClientFd,
    waitsOn,        \* the connection its read() or write() is waiting on
    request,        \* number of its request
    answer,         \* the request its last successful read answered
    exiting,        \* where shutdown() is
    killed          \* SIGPIPE has ended the process

VARIABLES           \* the kernel and the simulator
    file,           \* connection behind each descriptor, 0 if free
    conn,           \* state of each connection
    backlog,        \* connections not accepted yet
    unread,         \* packets written that the simulator has not read
    inbound,        \* answers not read yet
    sends           \* calls of sendAcyclicFrame so far

acceptVars == <<accepting, newSocket, oldClient>>
callVars == <<at, mode, currentClientFd, waitsOn, request, answer>>
kernelVars == <<file, conn, backlog, unread, inbound>>
vars == <<isInitialized, server, clientFd, acceptVars, apiMutex, callVars, exiting,
          killed, kernelVars, sends>>

Conn == 1..MaxConns
Fd == 1..(MaxConns + 1)
None == -1

\* The steps of sendAcyclicFrame.
Place == {"out", "load", "write", "blocked", "writeFailed", "close", "read", "wait"}

TypeOK ==
    /\ isInitialized \in BOOLEAN
    /\ server \in {"none", "listening", "shut"}
    /\ clientFd \in Fd \cup {None}
    /\ accepting \in {"none", "loop", "accept", "check", "exchange", "closeOld", "exited"}
    /\ newSocket \in Fd \cup {None} /\ oldClient \in Fd \cup {None}
    /\ apiMutex \in Callers \cup {"free"}
    /\ at \in [Callers -> Place]
    /\ mode \in [Callers -> {"BC_TO_RT", "RT_TO_BC"}]
    /\ currentClientFd \in [Callers -> Fd \cup {None}]
    /\ waitsOn \in [Callers -> Conn \cup {0}]
    /\ request \in [Callers -> Nat] /\ answer \in [Callers -> Nat]
    /\ exiting \in {"no", "server", "client", "join", "done"}
    /\ killed \in BOOLEAN
    /\ file \in [Fd -> Conn \cup {0}]
    /\ conn \in [Conn -> {"unused", "up", "fin", "reset", "pipe", "dropped"}]
    /\ backlog \in Seq(Conn)
    /\ unread \in [Conn -> Seq(Nat)] /\ inbound \in [Conn -> Seq(Nat)]
    /\ sends \in Nat

Init ==
    /\ isInitialized = FALSE /\ server = "none"
    /\ clientFd = None
    /\ accepting = "none" /\ newSocket = None /\ oldClient = None
    /\ apiMutex = "free"
    /\ at = [s \in Callers |-> "out"]
    /\ mode = [s \in Callers |-> "BC_TO_RT"]
    /\ currentClientFd = [s \in Callers |-> None]
    /\ waitsOn = [s \in Callers |-> 0]
    /\ request = [s \in Callers |-> 0]
    /\ answer = [s \in Callers |-> 0]
    /\ exiting = "no" /\ killed = FALSE
    /\ file = [fd \in Fd |-> 0]
    /\ conn = [c \in Conn |-> "unused"]
    /\ backlog = <<>>
    /\ unread = [c \in Conn |-> <<>>] /\ inbound = [c \in Conn |-> <<>>]
    /\ sends = 0

----------------------------------------------------------------------------
(* The kernel.                                                             *)

FreeFds == {fd \in Fd : file[fd] = 0}
LowestFree == CHOOSE fd \in FreeFds : \A g \in FreeFds : fd <= g

\* close(fd): the descriptor is free again and the peer sees the end.
Close(fd) ==
    /\ conn' = IF file[fd] = 0 THEN conn
               ELSE [conn EXCEPT ![file[fd]] = IF @ \in {"reset", "pipe"} THEN @ ELSE "dropped"]
    /\ file' = [file EXCEPT ![fd] = 0]

\* A closed connection lives on while a read() or write() waits on it.
Open(c) ==
    \/ conn[c] = "up"
    \/ conn[c] = "dropped" /\ \E s \in Callers : at[s] \in {"wait", "blocked"} /\ waitsOn[s] = c

\* The buffers take a packet of 70 bytes as a whole or not at all.
Room(c) == Len(unread[c]) < SendBuffer

----------------------------------------------------------------------------
(* initialize() and the accept thread.                                     *)

\* A failed socket(), bind() or listen() leaves everything as it was.
Initialize ==
    /\ apiMutex = "free" /\ ~isInitialized /\ exiting = "no"
    /\ server' = "listening"
    /\ isInitialized' = TRUE
    /\ accepting' = "loop"
    /\ UNCHANGED <<clientFd, newSocket, oldClient, apiMutex, callVars, exiting, killed,
                   kernelVars, sends>>

\* newSocket and oldClient are locals of the loop's body.
AcceptLoop ==
    /\ accepting = "loop"
    /\ accepting' = IF isInitialized /\ server = "listening" THEN "accept" ELSE "exited"
    /\ newSocket' = None /\ oldClient' = None
    /\ UNCHANGED <<isInitialized, server, clientFd, apiMutex, callVars, exiting, killed,
                   kernelVars, sends>>

Accept ==
    /\ accepting = "accept" /\ server = "listening"
    /\ backlog # <<>>
    /\ newSocket' = LowestFree
    /\ file' = [file EXCEPT ![newSocket'] = Head(backlog)]
    /\ backlog' = Tail(backlog)
    /\ accepting' = "check"
    /\ UNCHANGED <<isInitialized, server, clientFd, oldClient, apiMutex, callVars,
                   exiting, killed, conn, unread, inbound, sends>>

\* accept() fails by itself, and the loop tries again.
AcceptError ==
    /\ accepting = "accept" /\ server = "listening"
    /\ newSocket' = None
    /\ accepting' = "check"
    /\ UNCHANGED <<isInitialized, server, clientFd, oldClient, apiMutex, callVars,
                   exiting, killed, kernelVars, sends>>

\* shutdown() on the listening socket interrupts accept().
AcceptFails ==
    /\ accepting = "accept" /\ server = "shut"
    /\ newSocket' = None
    /\ accepting' = "check"
    /\ UNCHANGED <<isInitialized, server, clientFd, oldClient, apiMutex, callVars,
                   exiting, killed, kernelVars, sends>>

AcceptCheck ==
    /\ accepting = "check"
    /\ \/ /\ ~isInitialized
          /\ IF newSocket # None THEN Close(newSocket) ELSE UNCHANGED <<conn, file>>
          /\ accepting' = "exited"
       \/ /\ isInitialized
          /\ accepting' = IF newSocket = None THEN "loop" ELSE "exchange"
          /\ UNCHANGED <<conn, file>>
    /\ UNCHANGED <<isInitialized, server, clientFd, newSocket, oldClient, apiMutex,
                   callVars, exiting, killed, backlog, unread, inbound, sends>>

\* Wrong variant: a second client is refused.
RefuseNewClient ==
    /\ accepting = "exchange"
    /\ oldClient' = IF clientFd = None THEN None ELSE newSocket
    /\ clientFd' = IF clientFd = None THEN newSocket ELSE clientFd
    /\ accepting' = "closeOld"
    /\ UNCHANGED <<isInitialized, server, newSocket, apiMutex, callVars, exiting, killed,
                   kernelVars, sends>>

\* m_clientFd.exchange(newSocket)
AcceptExchange ==
    /\ accepting = "exchange"
    /\ oldClient' = clientFd
    /\ clientFd' = newSocket
    /\ accepting' = "closeOld"
    /\ UNCHANGED <<isInitialized, server, newSocket, apiMutex, callVars, exiting, killed,
                   kernelVars, sends>>

AcceptCloseOld ==
    /\ accepting = "closeOld"
    /\ IF oldClient # None THEN Close(oldClient) ELSE UNCHANGED <<conn, file>>
    /\ accepting' = "loop"
    /\ UNCHANGED <<isInitialized, server, clientFd, newSocket, oldClient, apiMutex,
                   callVars, exiting, killed, backlog, unread, inbound, sends>>

AcceptStep ==
    \/ AcceptLoop \/ Accept \/ AcceptFails \/ AcceptCheck
    \/ AcceptExchange \/ AcceptCloseOld

----------------------------------------------------------------------------
(* sendAcyclicFrame.                                                       *)

\* Wrong variant: m_apiMutex is not waited for.
SendUnlocked(s, m) ==
    /\ at[s] = "out" /\ exiting = "no"
    /\ sends < MaxSends
    /\ sends' = sends + 1
    /\ apiMutex' = s
    /\ at' = [at EXCEPT ![s] = "load"]
    /\ mode' = [mode EXCEPT ![s] = m]
    /\ request' = [request EXCEPT ![s] = sends']
    /\ answer' = [answer EXCEPT ![s] = 0]
    /\ UNCHANGED <<isInitialized, server, clientFd, acceptVars, currentClientFd,
                   waitsOn, exiting, killed, kernelVars>>

\* lock_guard on m_apiMutex.
SendCall(s, m) ==
    /\ at[s] = "out" /\ apiMutex = "free" /\ exiting = "no"
    /\ sends < MaxSends
    /\ sends' = sends + 1
    /\ apiMutex' = s
    /\ at' = [at EXCEPT ![s] = "load"]
    /\ mode' = [mode EXCEPT ![s] = m]
    /\ request' = [request EXCEPT ![s] = sends']
    /\ answer' = [answer EXCEPT ![s] = 0]
    /\ UNCHANGED <<isInitialized, server, clientFd, acceptVars, currentClientFd,
                   waitsOn, exiting, killed, kernelVars>>

\* Leave sendAcyclicFrame: the lock_guard releases m_apiMutex.
Return(s) ==
    /\ at' = [at EXCEPT ![s] = "out"]
    /\ apiMutex' = "free"

\* Load m_clientFd; without a client the call fails.
LoadClient(s) ==
    /\ at[s] = "load"
    /\ currentClientFd' = [currentClientFd EXCEPT ![s] = clientFd]
    /\ IF clientFd = None
       THEN Return(s)
       ELSE at' = [at EXCEPT ![s] = "write"] /\ UNCHANGED apiMutex
    /\ UNCHANGED <<isInitialized, server, clientFd, acceptVars, mode, waitsOn, request,
                   answer, exiting, killed, kernelVars, sends>>

\* The connection write() works on; it looks its descriptor up once.
Target(s) == IF at[s] = "blocked" THEN waitsOn[s] ELSE file[currentClientFd[s]]

\* write() succeeds.  A packet counts as its request number if it asks for an
\* answer, as RT -> BC commands do, and as 0 if it does not.
WritePacket(s) ==
    LET c == Target(s)
        packet == IF mode[s] = "RT_TO_BC" THEN request[s] ELSE 0
    IN  /\ at[s] \in {"write", "blocked"}
        /\ c # 0 /\ conn[c] \in {"up", "fin", "dropped"} /\ Room(c)
        /\ conn' = [conn EXCEPT ![c] = IF @ = "fin" THEN "pipe" ELSE @]
        /\ unread' = [unread EXCEPT ![c] = Append(@, packet)]
        /\ IF mode[s] = "RT_TO_BC"
           THEN at' = [at EXCEPT ![s] = "read"] /\ UNCHANGED apiMutex
           ELSE Return(s)
        /\ UNCHANGED <<isInitialized, server, clientFd, acceptVars, mode,
                       currentClientFd, waitsOn, request, answer, exiting, killed, file,
                       backlog, inbound, sends>>

\* The simulator has not read enough: write() waits, without a timeout.
WriteBlocks(s) ==
    LET c == Target(s)
    IN  /\ at[s] = "write"
        /\ c # 0 /\ conn[c] = "up" /\ ~Room(c)
        /\ at' = [at EXCEPT ![s] = "blocked"]
        /\ waitsOn' = [waitsOn EXCEPT ![s] = c]
        /\ UNCHANGED <<isInitialized, server, clientFd, acceptVars, apiMutex, mode,
                       currentClientFd, request, answer, exiting, killed, kernelVars, sends>>

\* write() fails: the descriptor was closed (EBADF) or reset by the peer.
WriteFails(s) ==
    LET c == Target(s)
    IN  /\ at[s] \in {"write", "blocked"}
        /\ \/ c = 0 /\ UNCHANGED conn
           \/ /\ c # 0 /\ conn[c] = "reset"
              /\ conn' = [conn EXCEPT ![c] = "pipe"]
        /\ at' = [at EXCEPT ![s] = "writeFailed"]
        /\ UNCHANGED <<isInitialized, server, clientFd, acceptVars, apiMutex, mode,
                       currentClientFd, waitsOn, request, answer, exiting, killed, file,
                       backlog, unread, inbound, sends>>

\* write() on a connection the peer is gone from: SIGPIPE.
WriteKills(s) ==
    LET c == Target(s)
    IN  /\ at[s] \in {"write", "blocked"}
        /\ c # 0 /\ conn[c] = "pipe"
        /\ killed' = TRUE
        /\ UNCHANGED <<isInitialized, server, clientFd, acceptVars, apiMutex, callVars,
                       exiting, kernelVars, sends>>

\* Wrong variants: the failed client stays in m_clientFd; it is closed even if
\* the accept thread has replaced it.
KeepClient(s) ==
    /\ at[s] = "writeFailed"
    /\ at' = [at EXCEPT ![s] = "close"]
    /\ UNCHANGED <<isInitialized, server, clientFd, acceptVars, apiMutex, mode,
                   currentClientFd, waitsOn, request, answer, exiting, killed,
                   kernelVars, sends>>

CloseAnyway(s) ==
    /\ at[s] = "writeFailed"
    /\ clientFd' = None
    /\ at' = [at EXCEPT ![s] = "close"]
    /\ UNCHANGED <<isInitialized, server, acceptVars, apiMutex, mode, currentClientFd,
                   waitsOn, request, answer, exiting, killed, kernelVars, sends>>

\* m_clientFd.exchange(-1), whatever client is in it by now.
DropClient(s) ==
    /\ at[s] = "writeFailed"
    /\ clientFd' = None
    /\ IF clientFd = currentClientFd[s]
       THEN at' = [at EXCEPT ![s] = "close"] /\ UNCHANGED apiMutex
       ELSE Return(s)
    /\ UNCHANGED <<isInitialized, server, acceptVars, mode, currentClientFd, waitsOn,
                   request, answer, exiting, killed, kernelVars, sends>>

CloseFailed(s) ==
    /\ at[s] = "close"
    /\ Close(currentClientFd[s])
    /\ Return(s)
    /\ UNCHANGED <<isInitialized, server, clientFd, acceptVars, mode, currentClientFd,
                   waitsOn, request, answer, exiting, killed, backlog, unread, inbound, sends>>

\* read() looks its descriptor up once, and then waits on what it found.
ReadEnter(s) ==
    /\ at[s] = "read"
    /\ waitsOn' = [waitsOn EXCEPT ![s] = file[currentClientFd[s]]]
    /\ IF waitsOn'[s] = 0
       THEN Return(s)
       ELSE at' = [at EXCEPT ![s] = "wait"] /\ UNCHANGED apiMutex
    /\ UNCHANGED <<isInitialized, server, clientFd, acceptVars, mode, currentClientFd,
                   request, answer, exiting, killed, kernelVars, sends>>

\* read() returns the oldest answer; the caller takes it for its own.
ReadAnswer(s) ==
    LET c == waitsOn[s]
    IN  /\ at[s] = "wait"
        /\ inbound[c] # <<>>
        /\ answer' = [answer EXCEPT ![s] = Head(inbound[c])]
        /\ inbound' = [inbound EXCEPT ![c] = Tail(@)]
        /\ Return(s)
        /\ UNCHANGED <<isInitialized, server, clientFd, acceptVars, mode,
                       currentClientFd, waitsOn, request, exiting, killed, file, conn,
                       backlog, unread, sends>>


\* read() returns nothing: the connection ended, or the 100 ms are over.
ReadNothing(s) ==
    LET c == waitsOn[s]
    IN  /\ at[s] = "wait"
        /\ inbound[c] = <<>>
        /\ conn[c] = "up" /\ Prompt => unread[c] = <<>>
        /\ conn' = [conn EXCEPT ![c] = IF @ = "reset" THEN "pipe" ELSE @]
        /\ Return(s)
        /\ UNCHANGED <<isInitialized, server, clientFd, acceptVars, mode,
                       currentClientFd, waitsOn, request, answer, exiting, killed, file,
                       backlog, unread, inbound, sends>>

SendStep(s) ==
    \/ LoadClient(s) \/ WritePacket(s) \/ WriteBlocks(s) \/ WriteFails(s) \/ WriteKills(s)
    \/ DropClient(s) \/ CloseFailed(s)
    \/ ReadEnter(s) \/ ReadAnswer(s) \/ ReadNothing(s)

----------------------------------------------------------------------------
(* shutdown(), from the destructor of the singleton: no call is in         *)
(* progress, the accept thread may be anywhere.                            *)

ShutdownCall ==
    /\ exiting = "no" /\ \A s \in Callers : at[s] = "out"
    /\ isInitialized' = FALSE
    /\ exiting' = "server"
    /\ UNCHANGED <<server, clientFd, acceptVars, apiMutex, callVars, killed, kernelVars,
                   sends>>

\* Wrong variant: close() alone, which leaves accept() waiting.
CloseServer ==
    /\ exiting = "server"
    /\ exiting' = "client"
    /\ UNCHANGED <<isInitialized, server, clientFd, acceptVars, apiMutex, callVars,
                   killed, kernelVars, sends>>

\* ::shutdown() and close() of the listening socket.
ShutdownServer ==
    /\ exiting = "server"
    /\ server' = IF server = "listening" THEN "shut" ELSE server
    /\ exiting' = "client"
    /\ UNCHANGED <<isInitialized, clientFd, acceptVars, apiMutex, callVars, killed,
                   kernelVars, sends>>

ShutdownClient ==
    /\ exiting = "client"
    /\ clientFd' = None
    /\ IF clientFd # None THEN Close(clientFd) ELSE UNCHANGED <<conn, file>>
    /\ exiting' = "join"
    /\ UNCHANGED <<isInitialized, server, acceptVars, apiMutex, callVars, killed,
                   backlog, unread, inbound, sends>>

ShutdownJoin ==
    /\ exiting = "join"
    /\ accepting \in {"none", "exited"}
    /\ exiting' = "done"
    /\ UNCHANGED <<isInitialized, server, clientFd, acceptVars, apiMutex, callVars,
                   killed, kernelVars, sends>>

ShutdownStep == ShutdownServer \/ ShutdownClient \/ ShutdownJoin

----------------------------------------------------------------------------
(* The simulator.                                                          *)

Connect(c) ==
    /\ server = "listening"
    /\ conn[c] = "unused" /\ \A d \in Conn : d < c => conn[d] # "unused"
    /\ conn' = [conn EXCEPT ![c] = "up"]
    /\ backlog' = Append(backlog, c)
    /\ UNCHANGED <<isInitialized, server, clientFd, acceptVars, apiMutex, callVars,
                   exiting, killed, file, unread, inbound, sends>>

\* It reads the oldest packet, and answers it if it asks for an answer.
Take(c) ==
    /\ Open(c) /\ unread[c] # <<>>
    /\ unread' = [unread EXCEPT ![c] = Tail(@)]
    /\ \/ /\ Head(unread[c]) # 0
          /\ inbound' = [inbound EXCEPT ![c] = Append(@, Head(unread[c]))]
       \/ /\ Prompt => Head(unread[c]) = 0
          /\ UNCHANGED inbound
    /\ UNCHANGED <<isInitialized, server, clientFd, acceptVars, apiMutex, callVars,
                   exiting, killed, file, conn, backlog, sends>>

\* It closes the connection, or dies: a reset comes at once if it leaves
\* something unread, and after the end if a packet was still on its way.
Disconnect(c) ==
    /\ Open(c)
    /\ \E state \in {"reset", IF unread[c] = <<>> THEN "fin" ELSE "pipe"} :
           conn' = [conn EXCEPT ![c] = state]
    /\ unread' = [unread EXCEPT ![c] = <<>>]
    /\ UNCHANGED <<isInitialized, server, clientFd, acceptVars, apiMutex, callVars,
                   exiting, killed, file, backlog, inbound, sends>>

Alive == ~killed

Next ==
    \/ Alive /\ Initialize
    \/ Alive /\ (AcceptStep \/ AcceptError)
    \/ Alive /\ \E s \in Callers, m \in {"BC_TO_RT", "RT_TO_BC"} : SendCall(s, m)
    \/ Alive /\ \E s \in Callers : SendStep(s)
    \/ Alive /\ ShutdownCall
    \/ Alive /\ ShutdownStep
    \/ Alive /\ \E c \in Conn : Connect(c) \/ Take(c) \/ Disconnect(c)

Spec == Init /\ [][Next]_vars

(***************************************************************************)
(* The threads run, and read() ends after SO_RCVTIMEO at the latest.       *)
(* Nothing makes the simulator connect, read or answer: a write() that     *)
(* waits for it may wait for ever.                                         *)
(***************************************************************************)
FairSpec ==
    /\ Spec
    /\ WF_vars(Alive /\ AcceptStep) /\ WF_vars(Alive /\ ShutdownStep)
    /\ \A s \in Callers : WF_vars(Alive /\ SendStep(s))
----------------------------------------------------------------------------
(* Properties.                                                             *)

(***************************************************************************)
(* m_clientFd is never a closed descriptor: the accept thread and a failed *)
(* send take it out of m_clientFd before they close it, however they race. *)
(***************************************************************************)
ClientFdOpen == clientFd # None => file[clientFd] # 0

(***************************************************************************)
(* Each descriptor is closed by exactly one thread: whoever is about to    *)
(* close one holds it alone, it is still open, and it is not the one being *)
(* served.                                                                 *)
(***************************************************************************)
ClosesOwn ==
    LET held == {fd \in Fd : \/ accepting = "closeOld" /\ fd = oldClient
                             \/ \E s \in Callers : at[s] = "close" /\ fd = currentClientFd[s]}
    IN  /\ \A fd \in held : file[fd] # 0 /\ fd # clientFd
        /\ \A s \in Callers :
               at[s] = "close" /\ accepting = "closeOld" => currentClientFd[s] # oldClient

(***************************************************************************)
(* A connection is never served while a later one is open and set up: the  *)
(* accept thread replaces the old client, as a simulator restart needs.    *)
(***************************************************************************)
NewestServed ==
    clientFd # None =>
        \A fd \in Fd :
            file[fd] > file[clientFd] => accepting \in {"check", "exchange"} /\ fd = newSocket

(***************************************************************************)
(* An answer is given to the call that asked for it.  It rests on          *)
(* m_apiMutex, and on a simulator that answers within 100 ms.              *)
(***************************************************************************)
AnswersMatch == \A s \in Callers : answer[s] \in {0, request[s]}

(***************************************************************************)
(* A new simulator connection that replaced the old one stays the client   *)
(* as long as it is up.                                                    *)
(***************************************************************************)
ReplacementKept ==
    \A fd \in Fd :
        (file[fd] # 0 /\ conn[file[fd]] = "up") =>
            \/ fd = clientFd
            \/ accepting \in {"check", "exchange"} /\ fd = newSocket
            \/ accepting = "closeOld" /\ fd = oldClient
            \/ exiting # "no"

\* The simulator may restart while frames are sent to it.
SurvivesRestart == ~killed

(***************************************************************************)
(* When shutdown() returns no connection is open.  The accept thread may   *)
(* have tested m_isInitialized before, and put a client there after.       *)
(***************************************************************************)
ExitClosesAll == exiting = "done" => \A fd \in Fd : file[fd] = 0

(***************************************************************************)
(* shutdown() ends: closing the sockets gets the accept thread out of      *)
(* accept(), and the join returns.                                         *)
(***************************************************************************)
ShutdownReturns == exiting = "server" ~> exiting = "done"

\* A write() that waits for a simulator that does not read.
Stalled(s) == at[s] = "blocked" /\ ~Room(waitsOn[s])


(***************************************************************************)
(* Every send ends, whatever the simulator does.  The code has a timeout   *)
(* for read() but none for write().                                        *)
(***************************************************************************)
SendsEnd == \A s \in Callers : at[s] # "out" ~> at[s] = "out" \/ killed
============================================================================
