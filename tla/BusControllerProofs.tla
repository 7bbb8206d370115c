------------------------ MODULE BusControllerProofs ------------------------
(***************************************************************************)
(* Who owns which descriptor of the bus controller, for any number of      *)
(* connections, of threads that send, and of calls.                        *)
(*                                                                         *)
(* That m_clientFd is never a closed descriptor and that no descriptor is  *)
(* closed twice is not inductive: a descriptor passes from the accept      *)
(* thread's local to m_clientFd and from there to whoever takes it out.    *)
(* Owned says that each descriptor in one of these places is open, and     *)
(* that no descriptor is in two of them.                                   *)
(*                                                                         *)
(* The newest connection is served because connections are accepted in the *)
(* order they arrive (Order, Started).  Answers go to the caller that asks *)
(* because only the holder of m_apiMutex has a question open (Waiting).    *)
(***************************************************************************)
EXTENDS BusController, FiniteSetTheorems, SequenceTheorems, TLAPS

----------------------------------------------------------------------------
(* The descriptor table.                                                   *)

\* No connection is behind two descriptors, or waiting and accepted.
Table ==
    /\ \A fd, g \in Fd : file[fd] # 0 /\ file[fd] = file[g] => fd = g
    /\ \A fd \in Fd : file[fd] # 0 => conn[file[fd]] # "unused"
    /\ \A i \in DOMAIN backlog :
           conn[backlog[i]] # "unused" /\ \A fd \in Fd : file[fd] # backlog[i]
    /\ \A i, j \in DOMAIN backlog : backlog[i] = backlog[j] => i = j

(***************************************************************************)
(* There is a descriptor for every connection: accept() always finds one.  *)
(***************************************************************************)
LEMMA DescriptorFree ==
    ASSUME file \in [Fd -> Conn \cup {0}],
           \A fd, g \in Fd : file[fd] # 0 /\ file[fd] = file[g] => fd = g
    PROVE  LowestFree \in FreeFds
<1>1. FreeFds # {}
    <2> SUFFICES ASSUME FreeFds = {} PROVE FALSE
        OBVIOUS
    <2>1. file \in [Fd -> Conn]
        BY DEF FreeFds
    <2>2. /\ IsFiniteSet(Fd) /\ IsFiniteSet(Conn)
          /\ Cardinality(Conn) < Cardinality(Fd)
        BY FS_Interval, MaxConnsAssumption DEF Fd, Conn
    <2>3. \E x, y \in Fd : x # y /\ file[x] = file[y]
        BY <2>1, <2>2, FS_PigeonHole
    <2>4. \A fd \in Fd : file[fd] # 0
        BY DEF FreeFds
    <2> QED
        BY <2>3, <2>4
<1>2. FreeFds \subseteq Nat
    BY MaxConnsAssumption DEF FreeFds, Fd
<1>3. \E x \in FreeFds : \A y \in FreeFds : ~(<<y, x>> \in OpToRel(<, Nat))
    BY <1>1, <1>2, NatLessThanWellFounded, WFMin
<1>4. \E x \in FreeFds : \A y \in FreeFds : x <= y
    <2>1. PICK x \in FreeFds : \A y \in FreeFds : ~(<<y, x>> \in OpToRel(<, Nat))
        BY <1>3
    <2>2. \A y \in FreeFds : ~(y < x)
        BY <2>1, <1>2 DEF OpToRel
    <2> QED
        BY <1>2, <2>2
<1> QED
    BY <1>4 DEF LowestFree

----------------------------------------------------------------------------
(* The invariant.                                                          *)

\* What m_clientFd and the accept thread's locals hold is open, and theirs alone.
Owned ==
    /\ clientFd # None => file[clientFd] # 0
    /\ accepting = "exchange" => newSocket # None
    /\ accepting \in {"check", "exchange"} /\ newSocket # None =>
           file[newSocket] # 0 /\ newSocket # clientFd
    /\ accepting = "closeOld" /\ oldClient # None =>
           file[oldClient] # 0 /\ oldClient # clientFd

\* m_apiMutex lets one caller in, and past the load it has a descriptor.
Serial ==
    \A s \in Callers :
        /\ at[s] # "out" => apiMutex = s
        /\ at[s] \notin {"out", "load"} => currentClientFd[s] \in Fd
        /\ at[s] \in {"wait", "blocked"} => waitsOn[s] # 0

\* A caller that closes a descriptor holds it alone.
Closing ==
    \A s \in Callers : at[s] = "close" =>
        /\ file[currentClientFd[s]] # 0
        /\ currentClientFd[s] # clientFd
        /\ accepting \in {"check", "exchange"} => currentClientFd[s] # newSocket
        /\ accepting = "closeOld" => currentClientFd[s] # oldClient

IInv == TypeOK /\ Table /\ Owned /\ Serial /\ Closing

LEMMA InitIInv ==
    ASSUME Init PROVE IInv
<1> USE DEF Init, Place
<1>1. TypeOK
    <2>1. <<>> \in Seq(Conn) /\ <<>> \in Seq(Nat) /\ 0 \in Nat
        OBVIOUS
    <2>2. /\ backlog \in Seq(Conn)
          /\ unread \in [Conn -> Seq(Nat)] /\ inbound \in [Conn -> Seq(Nat)]
        BY <2>1
    <2>3. /\ request \in [Callers -> Nat] /\ answer \in [Callers -> Nat] /\ sends \in Nat
          /\ waitsOn \in [Callers -> Conn \cup {0}]
        BY <2>1
    <2>4. /\ currentClientFd \in [Callers -> Fd \cup {None}]
          /\ mode \in [Callers -> {"BC_TO_RT", "RT_TO_BC"}]
          /\ at \in [Callers -> Place]
        OBVIOUS
    <2>5. /\ file \in [Fd -> Conn \cup {0}]
          /\ conn \in [Conn -> {"unused", "up", "fin", "reset", "pipe", "dropped"}]
        OBVIOUS
    <2> QED
        BY <2>2, <2>3, <2>4, <2>5 DEF TypeOK
<1>2. Table
    BY DEF Table
<1>3. Owned /\ Serial /\ Closing
    BY DEF Owned, Serial, Closing
<1> QED
    BY <1>1, <1>2, <1>3 DEF IInv

----------------------------------------------------------------------------
(* Types.                                                                  *)

LEMMA CloseTypes ==
    ASSUME NEW fd \in Fd, TypeOK, Close(fd)
    PROVE  /\ file' \in [Fd -> Conn \cup {0}]
           /\ conn' \in [Conn -> {"unused", "up", "fin", "reset", "pipe", "dropped"}]
BY DEF Close, TypeOK

LEMMA TargetTypes ==
    ASSUME NEW s \in Callers, TypeOK, Serial, at[s] \in {"write", "blocked"}
    PROVE  /\ Target(s) \in Conn \cup {0}
           /\ at[s] = "blocked" => Target(s) = waitsOn[s] /\ Target(s) # 0
           /\ at[s] = "write" => Target(s) = file[currentClientFd[s]]
BY DEF Target, TypeOK, Serial

LEMMA TypeStep ==
    ASSUME IInv, [Next]_vars PROVE TypeOK'
<1> USE DEF IInv, TypeOK, acceptVars, callVars, kernelVars, Place
<1>1. CASE UNCHANGED vars
    BY <1>1 DEF vars
<1>2. CASE Initialize
    BY <1>2 DEF Initialize
<1>3. CASE AcceptLoop
    BY <1>3 DEF AcceptLoop
<1>4. CASE Accept
    <2>1. LowestFree \in Fd
        BY DescriptorFree DEF Table, FreeFds
    <2>2. Head(backlog) \in Conn /\ Tail(backlog) \in Seq(Conn)
        BY <1>4 DEF Accept
    <2> QED
        BY <1>4, <2>1, <2>2 DEF Accept
<1>5. CASE AcceptFails
    BY <1>5 DEF AcceptFails
<1>6. CASE AcceptCheck
    BY <1>6, CloseTypes DEF AcceptCheck
<1>7. CASE AcceptExchange
    BY <1>7 DEF AcceptExchange
<1>8. CASE AcceptCloseOld
    BY <1>8, CloseTypes DEF AcceptCloseOld
<1>9. ASSUME NEW s \in Callers, NEW m \in {"BC_TO_RT", "RT_TO_BC"}, SendCall(s, m)
      PROVE TypeOK'
    BY <1>9, MaxSendsAssumption DEF SendCall
<1>10. ASSUME NEW s \in Callers, LoadClient(s) PROVE TypeOK'
    <2>1. /\ at' \in [Callers -> Place]
          /\ apiMutex' \in Callers \cup {"free"}
        BY <1>10 DEF LoadClient, Return
    <2>2. currentClientFd' \in [Callers -> Fd \cup {None}]
        BY <1>10 DEF LoadClient
    <2>3. UNCHANGED <<isInitialized, server, clientFd, acceptVars, mode, waitsOn, request,
                     answer, exiting, killed, kernelVars, sends>>
        BY <1>10 DEF LoadClient
    <2> QED
        BY <2>1, <2>2, <2>3
<1>11. ASSUME NEW s \in Callers, WritePacket(s) PROVE TypeOK'
    <2>1. PICK c : c = Target(s)
        OBVIOUS
    <2>2. c \in Conn
        BY <1>11, <2>1, TargetTypes DEF WritePacket
    <2>3. PICK p \in Nat : unread' = [unread EXCEPT ![c] = Append(@, p)]
        <3>1. request[s] \in Nat /\ 0 \in Nat
            OBVIOUS
        <3> QED
            BY <1>11, <2>1, <3>1 DEF WritePacket
    <2>4. unread' \in [Conn -> Seq(Nat)]
        <3>1. Append(unread[c], p) \in Seq(Nat)
            BY <2>2
        <3> QED
            BY <2>2, <2>3, <3>1
    <2>5. conn' \in [Conn -> {"unused", "up", "fin", "reset", "pipe", "dropped"}]
        BY <1>11, <2>1, <2>2 DEF WritePacket
    <2>6. /\ at' \in [Callers -> Place]
          /\ apiMutex' \in Callers \cup {"free"}
        BY <1>11 DEF WritePacket, Return
    <2>7. UNCHANGED <<isInitialized, server, clientFd, acceptVars, mode,
                       currentClientFd, waitsOn, request, answer, exiting, killed, file,
                       backlog, inbound, sends>>
        BY <1>11 DEF WritePacket
    <2> QED
        BY <2>4, <2>5, <2>6, <2>7
<1>26. ASSUME NEW s \in Callers, WriteBlocks(s) PROVE TypeOK'
    <2>1. Target(s) \in Conn
        BY <1>26, TargetTypes DEF WriteBlocks
    <2>2. /\ at' \in [Callers -> Place]
          /\ waitsOn' \in [Callers -> Conn \cup {0}]
        BY <1>26, <2>1 DEF WriteBlocks
    <2>3. UNCHANGED <<isInitialized, server, clientFd, acceptVars, apiMutex, mode,
                       currentClientFd, request, answer, exiting, killed, kernelVars, sends>>
        BY <1>26 DEF WriteBlocks
    <2> QED
        BY <2>2, <2>3
<1>27. CASE AcceptError
    BY <1>27 DEF AcceptError
<1>12. ASSUME NEW s \in Callers, WriteFails(s) PROVE TypeOK'
    <2>1. conn' \in [Conn -> {"unused", "up", "fin", "reset", "pipe", "dropped"}]
        BY <1>12 DEF WriteFails
    <2>2. at' \in [Callers -> Place]
        BY <1>12 DEF WriteFails
    <2>3. UNCHANGED <<isInitialized, server, clientFd, acceptVars, apiMutex, mode,
                     currentClientFd, waitsOn, request, answer, exiting, killed, file,
                     backlog, unread, inbound, sends>>
        BY <1>12 DEF WriteFails
    <2> QED
        BY <2>1, <2>2, <2>3
<1>13. ASSUME NEW s \in Callers, WriteKills(s) PROVE TypeOK'
    BY <1>13 DEF WriteKills
<1>14. ASSUME NEW s \in Callers, DropClient(s) PROVE TypeOK'
    <2>1. /\ at' \in [Callers -> Place]
          /\ apiMutex' \in Callers \cup {"free"}
        BY <1>14 DEF DropClient, Return
    <2>2. clientFd' = None
        BY <1>14 DEF DropClient
    <2>3. UNCHANGED <<isInitialized, server, acceptVars, mode, currentClientFd,
                     waitsOn, request, answer, exiting, killed, kernelVars, sends>>
        BY <1>14 DEF DropClient
    <2> QED
        BY <2>1, <2>2, <2>3
<1>15. ASSUME NEW s \in Callers, CloseFailed(s) PROVE TypeOK'
    <2>1. /\ at' \in [Callers -> Place]
          /\ apiMutex' \in Callers \cup {"free"}
        BY <1>15 DEF CloseFailed, Return
    <2>2. /\ file' \in [Fd -> Conn \cup {0}]
          /\ conn' \in [Conn -> {"unused", "up", "fin", "reset", "pipe", "dropped"}]
        BY <1>15, CloseTypes DEF CloseFailed, Serial
    <2>3. UNCHANGED <<isInitialized, server, clientFd, acceptVars, mode,
                     currentClientFd, waitsOn, request, answer, exiting, killed, backlog,
                     unread, inbound, sends>>
        BY <1>15 DEF CloseFailed
    <2> QED
        BY <2>1, <2>2, <2>3
<1>16. ASSUME NEW s \in Callers, ReadEnter(s) PROVE TypeOK'
    <2>1. /\ at' \in [Callers -> Place]
          /\ apiMutex' \in Callers \cup {"free"}
        BY <1>16 DEF ReadEnter, Return
    <2>2. file[currentClientFd[s]] \in Conn \cup {0}
        BY <1>16 DEF ReadEnter, Serial
    <2>3. waitsOn' \in [Callers -> Conn \cup {0}]
        BY <1>16, <2>2 DEF ReadEnter
    <2>4. UNCHANGED <<isInitialized, server, clientFd, acceptVars, mode,
                     currentClientFd, request, answer, exiting, killed, kernelVars, sends>>
        BY <1>16 DEF ReadEnter
    <2> QED
        BY <2>1, <2>3, <2>4
<1>17. ASSUME NEW s \in Callers, ReadAnswer(s) PROVE TypeOK'
    <2>1. PICK c : c = waitsOn[s]
        OBVIOUS
    <2>2. c \in Conn /\ inbound[c] # <<>>
        BY <1>17, <2>1 DEF ReadAnswer, Serial
    <2>3. Head(inbound[c]) \in Nat /\ Tail(inbound[c]) \in Seq(Nat)
        BY <2>2
    <2>4. inbound' = [inbound EXCEPT ![c] = Tail(@)] /\ answer' = [answer EXCEPT ![s] = Head(inbound[c])]
        BY <1>17, <2>1 DEF ReadAnswer
    <2>5. inbound' \in [Conn -> Seq(Nat)] /\ answer' \in [Callers -> Nat]
        BY <2>2, <2>3, <2>4
    <2>6. /\ at' \in [Callers -> Place]
          /\ apiMutex' \in Callers \cup {"free"}
        BY <1>17 DEF ReadAnswer, Return
    <2>7. UNCHANGED <<isInitialized, server, clientFd, acceptVars, mode,
                       currentClientFd, waitsOn, request, exiting, killed, file, conn,
                       backlog, unread, sends>>
        BY <1>17 DEF ReadAnswer
    <2> QED
        BY <2>5, <2>6, <2>7
<1>18. ASSUME NEW s \in Callers, ReadNothing(s) PROVE TypeOK'
    <2>1. /\ at' \in [Callers -> Place]
          /\ apiMutex' \in Callers \cup {"free"}
        BY <1>18 DEF ReadNothing, Return
    <2>2. conn' \in [Conn -> {"unused", "up", "fin", "reset", "pipe", "dropped"}]
        BY <1>18 DEF ReadNothing, Serial
    <2>3. UNCHANGED <<isInitialized, server, clientFd, acceptVars, mode,
                     currentClientFd, waitsOn, request, answer, exiting, killed, file,
                     backlog, unread, inbound, sends>>
        BY <1>18 DEF ReadNothing
    <2> QED
        BY <2>1, <2>2, <2>3
<1>19. CASE ShutdownCall
    BY <1>19 DEF ShutdownCall
<1>20. CASE ShutdownServer
    BY <1>20 DEF ShutdownServer
<1>21. CASE ShutdownClient
    <2>1. clientFd' = None /\ exiting' = "join"
        BY <1>21 DEF ShutdownClient
    <2>2. /\ file' \in [Fd -> Conn \cup {0}]
          /\ conn' \in [Conn -> {"unused", "up", "fin", "reset", "pipe", "dropped"}]
        BY <1>21, CloseTypes DEF ShutdownClient
    <2>3. UNCHANGED <<isInitialized, server, acceptVars, apiMutex, callVars, killed,
                     backlog, unread, inbound, sends>>
        BY <1>21 DEF ShutdownClient
    <2> QED
        BY <2>1, <2>2, <2>3
<1>22. CASE ShutdownJoin
    BY <1>22 DEF ShutdownJoin
<1>23. ASSUME NEW c \in Conn, Connect(c) PROVE TypeOK'
    <2>1. backlog' \in Seq(Conn)
        BY <1>23 DEF Connect
    <2> QED
        BY <1>23, <2>1 DEF Connect
<1>24. ASSUME NEW c \in Conn, Take(c) PROVE TypeOK'
    <2>1. unread[c] \in Seq(Nat) /\ unread[c] # <<>> /\ inbound[c] \in Seq(Nat)
        BY <1>24 DEF Take
    <2>2. Head(unread[c]) \in Nat /\ Tail(unread[c]) \in Seq(Nat)
        BY <2>1
    <2>3. Append(inbound[c], Head(unread[c])) \in Seq(Nat)
        BY <2>1, <2>2
    <2>4. unread' \in [Conn -> Seq(Nat)] /\ inbound' \in [Conn -> Seq(Nat)]
        BY <1>24, <2>2, <2>3 DEF Take
    <2>5. UNCHANGED <<isInitialized, server, clientFd, acceptVars, apiMutex, callVars,
                     exiting, killed, file, conn, backlog, sends>>
        BY <1>24 DEF Take
    <2> QED
        BY <2>4, <2>5
<1>25. ASSUME NEW c \in Conn, Disconnect(c) PROVE TypeOK'
    <2>1. conn' \in [Conn -> {"unused", "up", "fin", "reset", "pipe", "dropped"}]
        BY <1>25 DEF Disconnect
    <2>2. unread' \in [Conn -> Seq(Nat)]
        <3>1. <<>> \in Seq(Nat)
            OBVIOUS
        <3> QED
            BY <1>25, <3>1 DEF Disconnect
    <2>3. UNCHANGED <<isInitialized, server, clientFd, acceptVars, apiMutex, callVars,
                     exiting, killed, file, backlog, inbound, sends>>
        BY <1>25 DEF Disconnect
    <2> QED
        BY <2>1, <2>2, <2>3
<1> QED
    BY <1>1, <1>2, <1>3, <1>4, <1>5, <1>6, <1>7, <1>8, <1>9, <1>10, <1>11, <1>12, <1>13,
       <1>14, <1>15, <1>16, <1>17, <1>18, <1>19, <1>20, <1>21, <1>22, <1>23, <1>24, <1>25,
       <1>26, <1>27
    DEF Next, AcceptStep, SendStep, ShutdownStep

----------------------------------------------------------------------------
(* The descriptor table.                                                   *)

LEMMA TableQuiet ==
    ASSUME Table, UNCHANGED <<file, backlog>>,
           \A c \in Conn : conn'[c] = "unused" => conn[c] = "unused",
           TypeOK
    PROVE  Table'
BY DEF Table, TypeOK

LEMMA TableClose ==
    ASSUME NEW fd \in Fd, TypeOK, Table, Close(fd), UNCHANGED backlog
    PROVE  Table'
<1>1. \A g \in Fd : file'[g] # 0 => file'[g] = file[g] /\ g # fd
    BY DEF Close, TypeOK
<1>2. \A c \in Conn : conn'[c] = "unused" => conn[c] = "unused"
    BY DEF Close, TypeOK
<1>3. \A g \in Fd : file[g] \in Conn \cup {0}
    BY DEF TypeOK
<1>4. \A i \in DOMAIN backlog : backlog[i] \in Conn
    BY DEF TypeOK
<1>5. \A g, h \in Fd : file'[g] # 0 /\ file'[g] = file'[h] => g = h
    BY <1>1 DEF Table
<1>6. \A g \in Fd : file'[g] # 0 => conn'[file'[g]] # "unused"
    BY <1>1, <1>2, <1>3 DEF Table
<1>7. \A i \in DOMAIN backlog' :
          conn'[backlog'[i]] # "unused" /\ \A g \in Fd : file'[g] # backlog'[i]
    <2> SUFFICES ASSUME NEW i \in DOMAIN backlog
                 PROVE  conn'[backlog[i]] # "unused" /\ \A g \in Fd : file'[g] # backlog[i]
        OBVIOUS
    <2>1. backlog[i] \in Conn /\ conn[backlog[i]] # "unused"
          /\ \A g \in Fd : file[g] # backlog[i]
        BY <1>4 DEF Table
    <2>2. backlog[i] # 0
        BY <2>1 DEF Conn
    <2> QED
        BY <2>1, <2>2, <1>1, <1>2
<1> QED
    BY <1>5, <1>6, <1>7 DEF Table

\* The connection accept() takes from the backlog, and those it leaves.
LEMMA QueueHead ==
    ASSUME NEW q \in Seq(Conn), q # <<>>
    PROVE  /\ Head(q) \in Conn /\ Head(q) = q[1] /\ 1 \in DOMAIN q
           /\ \A i \in DOMAIN Tail(q) : /\ i \in Nat /\ 1 < i + 1 /\ i + 1 \in DOMAIN q
                                       /\ Tail(q)[i] = q[i + 1]
<1>1. Len(q) \in Nat /\ Len(q) # 0 /\ DOMAIN q = 1..Len(q)
    OBVIOUS
<1>2. Head(q) \in Conn /\ Head(q) = q[1]
    BY <1>1
<1>3. /\ Tail(q) \in Seq(Conn) /\ Len(Tail(q)) = Len(q) - 1
      /\ \A i \in 1..Len(Tail(q)) : Tail(q)[i] = q[i + 1]
    BY <1>1
<1>4. DOMAIN Tail(q) = 1..(Len(q) - 1)
    BY <1>3
<1> QED
    BY <1>1, <1>2, <1>3, <1>4

LEMMA TableStep ==
    ASSUME IInv, [Next]_vars PROVE Table'
<1> USE DEF IInv
<1>1. CASE UNCHANGED <<file, backlog, conn>>
    BY <1>1, TableQuiet
<1>2. CASE Accept
    <2>1. LowestFree \in Fd /\ file[LowestFree] = 0
        BY DescriptorFree DEF TypeOK, Table, FreeFds
    <2>2. PICK ns \in Fd : /\ file[ns] = 0
                           /\ file' = [file EXCEPT ![ns] = Head(backlog)]
        BY <1>2, <2>1 DEF Accept
    <2>3. /\ backlog # <<>> /\ backlog' = Tail(backlog) /\ conn' = conn
        BY <1>2 DEF Accept
    <2>0. backlog \in Seq(Conn)
        BY DEF TypeOK
    <2>4. PICK c \in Conn : c = Head(backlog) /\ c = backlog[1]
        BY <2>0, <2>3, QueueHead
    <2>5. /\ 1 \in DOMAIN backlog
          /\ \A i \in DOMAIN backlog' : i + 1 \in DOMAIN backlog /\ backlog'[i] = backlog[i + 1]
                                        /\ i + 1 # 1
          /\ DOMAIN backlog' \subseteq Nat
        <3>1. \A i \in DOMAIN backlog' : /\ i \in Nat /\ 1 < i + 1 /\ i + 1 \in DOMAIN backlog
                                         /\ backlog'[i] = backlog[i + 1]
            BY <2>0, <2>3, QueueHead
        <3>2. \A i \in Nat : 1 < i + 1 => i + 1 # 1
            OBVIOUS
        <3>3. 1 \in DOMAIN backlog
            BY <2>0, <2>3, QueueHead
        <3> QED
            BY ONLY <3>1, <3>2, <3>3
    <2>6. \A g \in Fd : file'[g] = IF g = ns THEN c ELSE file[g]
        BY <2>2, <2>4 DEF TypeOK
    <2>7. \A g \in Fd : file[g] # c
        BY <2>4, <2>5 DEF Table
    <2>8. c # 0 /\ conn[c] # "unused"
        BY <2>4, <2>5 DEF Table, Conn
    <2>9. \A g, h \in Fd : file'[g] # 0 /\ file'[g] = file'[h] => g = h
        BY <2>6, <2>7 DEF Table
    <2>10. \A g \in Fd : file'[g] # 0 => conn'[file'[g]] # "unused"
        BY <2>3, <2>6, <2>8 DEF Table
    <2>11. \A i \in DOMAIN backlog' :
               conn'[backlog'[i]] # "unused" /\ \A g \in Fd : file'[g] # backlog'[i]
        <3> SUFFICES ASSUME NEW i \in DOMAIN backlog'
                     PROVE  conn'[backlog'[i]] # "unused"
                            /\ \A g \in Fd : file'[g] # backlog'[i]
            OBVIOUS
        <3>1. i + 1 \in DOMAIN backlog /\ backlog'[i] = backlog[i + 1] /\ i + 1 # 1
            BY <2>5
        <3>2. backlog[i + 1] # c
            BY <3>1, <2>4, <2>5 DEF Table
        <3>3. conn[backlog[i + 1]] # "unused" /\ \A g \in Fd : file[g] # backlog[i + 1]
            BY <3>1 DEF Table
        <3> QED
            BY <3>1, <3>2, <3>3, <2>3, <2>6
    <2>12. \A i, j \in DOMAIN backlog' : backlog'[i] = backlog'[j] => i = j
        <3> SUFFICES ASSUME NEW i \in DOMAIN backlog', NEW j \in DOMAIN backlog',
                            backlog'[i] = backlog'[j]
                     PROVE  i = j
            OBVIOUS
        <3>1. i + 1 = j + 1
            BY <2>5 DEF Table
        <3> QED
            BY <3>1, <2>5
    <2> QED
        BY <2>9, <2>10, <2>11, <2>12 DEF Table
<1>3. CASE AcceptCheck
    <2>1. UNCHANGED backlog
        BY <1>3 DEF AcceptCheck
    <2>2. UNCHANGED <<file, conn>> \/ \E fd \in Fd : Close(fd)
        BY <1>3 DEF AcceptCheck, TypeOK
    <2> QED
        BY <2>1, <2>2, <1>1, TableClose
<1>4. CASE AcceptCloseOld
    <2>1. UNCHANGED backlog
        BY <1>4 DEF AcceptCloseOld
    <2>2. UNCHANGED <<file, conn>> \/ \E fd \in Fd : Close(fd)
        BY <1>4 DEF AcceptCloseOld, TypeOK
    <2> QED
        BY <2>1, <2>2, <1>1, TableClose
<1>5. ASSUME NEW s \in Callers, CloseFailed(s) PROVE Table'
    <2>1. UNCHANGED backlog /\ Close(currentClientFd[s]) /\ currentClientFd[s] \in Fd
        BY <1>5 DEF CloseFailed, Serial
    <2> QED
        BY <2>1, TableClose
<1>6. CASE ShutdownClient
    <2>1. UNCHANGED backlog
        BY <1>6 DEF ShutdownClient
    <2>2. UNCHANGED <<file, conn>> \/ \E fd \in Fd : Close(fd)
        BY <1>6 DEF ShutdownClient, TypeOK
    <2> QED
        BY <2>1, <2>2, <1>1, TableClose
<1>7. ASSUME NEW s \in Callers, WritePacket(s) \/ WriteFails(s) \/ ReadNothing(s)
      PROVE Table'
    <2>1. UNCHANGED <<file, backlog>>
        BY <1>7 DEF WritePacket, WriteFails, ReadNothing
    <2>2. \A c \in Conn : conn'[c] = "unused" => conn[c] = "unused"
        BY <1>7 DEF WritePacket, WriteFails, ReadNothing, TypeOK
    <2> QED
        BY <2>1, <2>2, TableQuiet
<1>8. ASSUME NEW c \in Conn, Connect(c) PROVE Table'
    <2>1. /\ conn[c] = "unused" /\ conn' = [conn EXCEPT ![c] = "up"]
          /\ backlog' = Append(backlog, c) /\ file' = file
        BY <1>8 DEF Connect
    <2>2. \A d \in Conn : conn'[d] = IF d = c THEN "up" ELSE conn[d]
        BY <2>1 DEF TypeOK
    <2>3. \A g \in Fd : file[g] # c /\ (file[g] # 0 => file[g] \in Conn)
        BY <2>1 DEF TypeOK, Table, Conn
    <2>4. \A i \in DOMAIN backlog : backlog[i] # c /\ backlog[i] \in Conn
        BY <2>1 DEF TypeOK, Table
    <2>5. \A i \in DOMAIN backlog' :
              \/ i \in DOMAIN backlog /\ backlog'[i] = backlog[i]
              \/ i = Len(backlog) + 1 /\ backlog'[i] = c
        BY <2>1 DEF TypeOK
    <2>6. \A g, h \in Fd : file'[g] # 0 /\ file'[g] = file'[h] => g = h
        BY <2>1 DEF Table
    <2>7. \A g \in Fd : file'[g] # 0 => conn'[file'[g]] # "unused"
        BY <2>1, <2>2, <2>3 DEF Table
    <2>8. \A i \in DOMAIN backlog' :
              conn'[backlog'[i]] # "unused" /\ \A g \in Fd : file'[g] # backlog'[i]
        <3> SUFFICES ASSUME NEW i \in DOMAIN backlog'
                     PROVE  conn'[backlog'[i]] # "unused"
                            /\ \A g \in Fd : file'[g] # backlog'[i]
            OBVIOUS
        <3>1. CASE i \in DOMAIN backlog /\ backlog'[i] = backlog[i]
            BY <3>1, <2>1, <2>2, <2>4 DEF Table
        <3>2. CASE backlog'[i] = c
            BY <3>2, <2>1, <2>2, <2>3
        <3> QED
            BY <2>5, <3>1, <3>2
    <2>9. \A i, j \in DOMAIN backlog' : backlog'[i] = backlog'[j] => i = j
        BY <2>4, <2>5 DEF Table
    <2> QED
        BY <2>6, <2>7, <2>8, <2>9 DEF Table
<1>9. ASSUME NEW c \in Conn, Disconnect(c) PROVE Table'
    <2>1. UNCHANGED <<file, backlog>>
        BY <1>9 DEF Disconnect
    <2>2. \A d \in Conn : conn'[d] = "unused" => conn[d] = "unused"
        BY <1>9 DEF Disconnect, Open, TypeOK
    <2> QED
        BY <2>1, <2>2, TableQuiet
<1>10. CASE UNCHANGED vars
    BY <1>1, <1>10 DEF vars, kernelVars
<1>11. CASE \/ Initialize \/ AcceptLoop \/ AcceptFails \/ AcceptError
            \/ AcceptExchange \/ ShutdownCall \/ ShutdownServer \/ ShutdownJoin
    BY <1>1, <1>11 DEF Initialize, AcceptLoop, AcceptFails, AcceptError, AcceptExchange, ShutdownCall,
                       ShutdownServer, ShutdownJoin, kernelVars
<1>12. ASSUME NEW s \in Callers, NEW m \in {"BC_TO_RT", "RT_TO_BC"}, SendCall(s, m)
       PROVE  Table'
    BY <1>1, <1>12 DEF SendCall, kernelVars
<1>13. ASSUME NEW s \in Callers,
              \/ LoadClient(s) \/ WriteBlocks(s) \/ WriteKills(s)
              \/ DropClient(s) \/ ReadEnter(s) \/ ReadAnswer(s)
       PROVE  Table'
    BY <1>1, <1>13 DEF LoadClient, WriteBlocks, WriteKills, DropClient, ReadEnter, ReadAnswer, kernelVars
<1>14. ASSUME NEW c \in Conn, Take(c) PROVE Table'
    BY <1>1, <1>14 DEF Take
<1> QED
    BY <1>2, <1>3, <1>4, <1>5, <1>6, <1>7, <1>8, <1>9, <1>10, <1>11, <1>12, <1>13, <1>14
    DEF Next, AcceptStep, SendStep, ShutdownStep

----------------------------------------------------------------------------
(* Who owns a descriptor.                                                  *)

\* What close() leaves alone.
LEMMA OthersStayOpen ==
    ASSUME NEW fd \in Fd, TypeOK, Close(fd)
    PROVE  \A g \in Fd : g # fd => file'[g] = file[g]
BY DEF Close, TypeOK

LEMMA SerialStep ==
    ASSUME IInv, [Next]_vars PROVE Serial'
<1> USE CallersAssumption DEF IInv, Serial, TypeOK
<1>1. CASE UNCHANGED <<apiMutex, callVars>>
    BY <1>1 DEF callVars
<1>2. ASSUME NEW s \in Callers, NEW m \in {"BC_TO_RT", "RT_TO_BC"}, SendCall(s, m)
      PROVE  Serial'
    BY <1>2 DEF SendCall
<1>3. ASSUME NEW s \in Callers, LoadClient(s) PROVE Serial'
    BY <1>3 DEF LoadClient, Return
<1>4. ASSUME NEW s \in Callers, WritePacket(s) PROVE Serial'
    BY <1>4 DEF WritePacket, Return
<1>5. ASSUME NEW s \in Callers, WriteFails(s) PROVE Serial'
    BY <1>5 DEF WriteFails
<1>12. ASSUME NEW s \in Callers, WriteBlocks(s) PROVE Serial'
    <2>1. /\ at[s] = "write" /\ at' = [at EXCEPT ![s] = "blocked"]
          /\ Target(s) # 0 /\ waitsOn' = [waitsOn EXCEPT ![s] = Target(s)]
          /\ UNCHANGED <<apiMutex, currentClientFd>>
        BY <1>12 DEF WriteBlocks
    <2> QED
        BY <2>1
<1>6. ASSUME NEW s \in Callers, DropClient(s) PROVE Serial'
    BY <1>6 DEF DropClient, Return
<1>7. ASSUME NEW s \in Callers, CloseFailed(s) PROVE Serial'
    BY <1>7 DEF CloseFailed, Return
<1>8. ASSUME NEW s \in Callers, ReadEnter(s) PROVE Serial'
    BY <1>8 DEF ReadEnter, Return
<1>9. ASSUME NEW s \in Callers, ReadAnswer(s) \/ ReadNothing(s) PROVE Serial'
    <2>1. at' = [at EXCEPT ![s] = "out"] /\ UNCHANGED <<waitsOn, currentClientFd>>
        BY <1>9 DEF ReadAnswer, ReadNothing, Return
    <2>2. \A t \in Callers : IF t = s THEN at'[t] = "out" ELSE at'[t] = at[t]
        BY <2>1
    <2>3. apiMutex' = "free" /\ at[s] = "wait"
        BY <1>9 DEF ReadAnswer, ReadNothing, Return
    <2>4. \A t \in Callers : t # s => at[t] = "out"
        BY <2>3
    <2> QED
        BY <2>1, <2>2, <2>4
<1>10. CASE UNCHANGED vars
    BY <1>1, <1>10 DEF vars
<1>11. CASE \/ Initialize \/ AcceptStep \/ AcceptError \/ ShutdownCall \/ ShutdownStep
            \/ \E s \in Callers : WriteKills(s)
            \/ \E c \in Conn : Connect(c) \/ Take(c) \/ Disconnect(c)
    BY <1>1, <1>11 DEF Initialize, AcceptStep, AcceptLoop, Accept, AcceptFails, AcceptError, AcceptCheck,
       AcceptExchange, AcceptCloseOld, ShutdownCall, ShutdownStep, ShutdownServer,
       ShutdownClient, ShutdownJoin, WriteKills, Connect, Take, Disconnect
<1> QED
    BY <1>2, <1>3, <1>4, <1>5, <1>6, <1>7, <1>8, <1>9, <1>10, <1>11, <1>12 DEF Next, SendStep

LEMMA OwnStep ==
    ASSUME IInv, [Next]_vars PROVE Owned' /\ Closing'
<1> USE DEF IInv, Owned, Closing, None
<1> DEFINE ownVars == <<clientFd, acceptVars, file, at, currentClientFd>>
<1>1. CASE UNCHANGED ownVars
    BY <1>1 DEF acceptVars
<1>2. CASE Initialize \/ AcceptLoop \/ AcceptFails \/ AcceptError
    <2>1. CASE Initialize \/ AcceptLoop
        BY <2>1 DEF Initialize, AcceptLoop, callVars, kernelVars
    <2>2. CASE AcceptFails \/ AcceptError
        <3>1. /\ accepting' = "check" /\ newSocket' = None
              /\ UNCHANGED <<clientFd, oldClient, file, at, currentClientFd>>
            BY <2>2 DEF AcceptFails, AcceptError, callVars, kernelVars
        <3>2. \A s \in Callers : at[s] = "close" => currentClientFd[s] # None
            BY MaxConnsAssumption DEF Serial, Fd
        <3> QED
            BY <3>1, <3>2
    <2> QED
        BY <1>2, <2>1, <2>2
<1>3. CASE Accept
    <2>1. LowestFree \in Fd /\ file[LowestFree] = 0
        BY DescriptorFree DEF TypeOK, Table, FreeFds
    <2>2. PICK ns \in Fd : file[ns] = 0 /\ newSocket' = ns
                           /\ file' = [file EXCEPT ![ns] = Head(backlog)]
        BY <1>3, <2>1 DEF Accept
    <2>3. Head(backlog) # 0
        <3>1. backlog # <<>> /\ backlog \in Seq(Conn)
            BY <1>3 DEF Accept, TypeOK
        <3>2. Head(backlog) \in Conn
            BY <3>1
        <3> QED
            BY <3>2 DEF Conn
    <2>4. \A g \in Fd : file[g] # 0 => file'[g] # 0 /\ g # ns
        BY <2>2 DEF TypeOK
    <2>5. UNCHANGED <<clientFd, at, currentClientFd>> /\ accepting' = "check"
        BY <1>3 DEF Accept, callVars
    <2>6. file'[ns] # 0
        BY <2>2, <2>3 DEF TypeOK
    <2>7. Owned'
        BY <2>2, <2>4, <2>5, <2>6 DEF TypeOK
    <2>8. Closing'
        BY <2>2, <2>4, <2>5 DEF TypeOK, Serial
    <2> QED
        BY <2>7, <2>8
<1>4. CASE AcceptCheck
    <2>1. CASE newSocket # None /\ ~isInitialized
        <3>1. newSocket \in Fd /\ Close(newSocket) /\ accepting = "check"
              /\ accepting' = "exited"
              /\ UNCHANGED <<clientFd, newSocket, oldClient, at, currentClientFd>>
            BY <1>4, <2>1 DEF AcceptCheck, TypeOK, callVars
        <3>2. \A g \in Fd : g # newSocket => file'[g] = file[g]
            BY <3>1, OthersStayOpen
        <3> QED
            BY <2>1, <3>1, <3>2 DEF TypeOK, Serial
    <2>2. CASE ~(newSocket # None /\ ~isInitialized)
        BY <1>4, <2>2 DEF AcceptCheck, callVars
    <2> QED
        BY <2>1, <2>2
<1>5. CASE AcceptExchange
    BY <1>5 DEF AcceptExchange, callVars, kernelVars
<1>6. CASE AcceptCloseOld
    <2>1. CASE oldClient # None
        <3>1. oldClient \in Fd /\ Close(oldClient) /\ accepting = "closeOld"
              /\ accepting' = "loop"
              /\ UNCHANGED <<clientFd, newSocket, oldClient, at, currentClientFd>>
            BY <1>6, <2>1 DEF AcceptCloseOld, TypeOK, callVars
        <3>2. \A g \in Fd : g # oldClient => file'[g] = file[g]
            BY <3>1, OthersStayOpen
        <3> QED
            BY <2>1, <3>1, <3>2 DEF TypeOK, Serial
    <2>2. CASE oldClient = None
        BY <1>6, <2>2 DEF AcceptCloseOld, callVars
    <2> QED
        BY <2>1, <2>2
<1>7. ASSUME NEW s \in Callers, NEW m \in {"BC_TO_RT", "RT_TO_BC"}, SendCall(s, m)
      PROVE  Owned' /\ Closing'
    BY <1>7 DEF SendCall, acceptVars, kernelVars, TypeOK
<1>8. ASSUME NEW s \in Callers,
             \/ LoadClient(s) \/ WritePacket(s) \/ WriteBlocks(s) \/ WriteFails(s)
             \/ ReadEnter(s) \/ ReadAnswer(s) \/ ReadNothing(s)
      PROVE  Owned' /\ Closing'
    <2>1. UNCHANGED <<clientFd, acceptVars, file>>
        BY <1>8 DEF LoadClient, WritePacket, WriteBlocks, WriteFails, ReadEnter, ReadAnswer, ReadNothing,
                    kernelVars
    <2>2. \A t \in Callers : at'[t] = "close" =>
              at[t] = "close" /\ currentClientFd'[t] = currentClientFd[t]
        BY <1>8 DEF LoadClient, WritePacket, WriteBlocks, WriteFails, ReadEnter, ReadAnswer, ReadNothing,
                    Return, TypeOK
    <2> QED
        BY <2>1, <2>2 DEF acceptVars
<1>9. ASSUME NEW s \in Callers, DropClient(s) PROVE Owned' /\ Closing'
    <2>1. clientFd' = None /\ UNCHANGED <<acceptVars, file, currentClientFd>>
        BY <1>9 DEF DropClient, kernelVars
    <2>2. \A t \in Callers : at'[t] = "close" =>
              at[t] = "close" \/ currentClientFd[t] = clientFd
        BY <1>9 DEF DropClient, Return, TypeOK
    <2>3. \A t \in Callers : at'[t] = "close" => currentClientFd[t] \in Fd
        BY <1>9 DEF DropClient, Return, TypeOK, Serial
    <2>4. None \notin Fd
        BY MaxConnsAssumption DEF Fd
    <2>5. Owned'
        BY <2>1 DEF acceptVars, TypeOK
    <2>6. Closing'
        BY <2>1, <2>2, <2>3, <2>4 DEF acceptVars, TypeOK
    <2> QED
        BY <2>5, <2>6
<1>10. ASSUME NEW s \in Callers, CloseFailed(s) PROVE Owned' /\ Closing'
    <2>1. /\ currentClientFd[s] \in Fd /\ Close(currentClientFd[s])
          /\ UNCHANGED <<clientFd, acceptVars, currentClientFd>>
          /\ at[s] = "close" /\ at' = [at EXCEPT ![s] = "out"]
        BY <1>10 DEF CloseFailed, Return, Serial
    <2>2. \A g \in Fd : g # currentClientFd[s] => file'[g] = file[g]
        BY <2>1, OthersStayOpen
    <2>3. \A t \in Callers : at'[t] # "close"
        BY <2>1 DEF Serial, TypeOK
    <2> QED
        BY <2>1, <2>2, <2>3 DEF acceptVars, TypeOK
<1>11. CASE ShutdownClient
    <2>1. clientFd' = None /\ UNCHANGED <<acceptVars, at, currentClientFd>>
        BY <1>11 DEF ShutdownClient, callVars
    <2>2. \A g \in Fd : g # clientFd => file'[g] = file[g]
        BY <1>11, OthersStayOpen DEF ShutdownClient, TypeOK
    <2>3. None \notin Fd
        BY MaxConnsAssumption DEF Fd
    <2> QED
        BY <2>1, <2>2, <2>3 DEF acceptVars, TypeOK, Serial
<1>12. CASE UNCHANGED vars
    BY <1>1, <1>12 DEF vars, callVars, kernelVars
<1>13. CASE \/ ShutdownCall \/ ShutdownServer \/ ShutdownJoin
            \/ \E s \in Callers : WriteKills(s)
            \/ \E c \in Conn : Connect(c) \/ Take(c) \/ Disconnect(c)
    BY <1>1, <1>13 DEF ShutdownCall, ShutdownServer, ShutdownJoin, WriteKills, Connect,
       Take, Disconnect, callVars, kernelVars
<1> QED
    BY <1>2, <1>3, <1>4, <1>5, <1>6, <1>7, <1>8, <1>9, <1>10, <1>11, <1>12, <1>13
    DEF Next, AcceptStep, SendStep, ShutdownStep

----------------------------------------------------------------------------
(***************************************************************************)
(* For any number of connections, callers and sends: the invariant holds.  *)
(***************************************************************************)
THEOREM ControllerInvariant == Spec => []IInv
<1>1. Init => IInv
    BY InitIInv
<1>2. IInv /\ [Next]_vars => IInv'
    BY TypeStep, TableStep, SerialStep, OwnStep DEF IInv
<1> QED
    BY <1>1, <1>2, PTL DEF Spec

(***************************************************************************)
(* Each variable of the bus controller has its type; accept() always finds *)
(* a free descriptor.                                                      *)
(***************************************************************************)
THEOREM ControllerTypes == Spec => []TypeOK
<1>1. IInv => TypeOK
    BY DEF IInv
<1> QED
    BY <1>1, ControllerInvariant, PTL

(***************************************************************************)
(* m_clientFd never names a closed descriptor, whatever the accept thread, *)
(* the senders and shutdown() do between each other's steps.               *)
(***************************************************************************)
THEOREM ClientSlotOpen == Spec => []ClientFdOpen
<1>1. IInv => ClientFdOpen
    BY DEF IInv, Owned, ClientFdOpen
<1> QED
    BY <1>1, ControllerInvariant, PTL

(***************************************************************************)
(* A descriptor is closed once, by the one thread that holds it, and never *)
(* while it is the one being served.                                       *)
(***************************************************************************)
THEOREM DescriptorsClosedOnce == Spec => []ClosesOwn
<1>1. IInv => ClosesOwn
    <2> SUFFICES ASSUME IInv PROVE ClosesOwn
        OBVIOUS
    <2>1. None \notin Fd
        BY MaxConnsAssumption DEF Fd, None
    <2>2. \A fd \in Fd : accepting = "closeOld" /\ fd = oldClient =>
              file[fd] # 0 /\ fd # clientFd
        BY <2>1 DEF IInv, Owned
    <2>3. \A fd \in Fd, s \in Callers : at[s] = "close" /\ fd = currentClientFd[s] =>
              file[fd] # 0 /\ fd # clientFd
        BY DEF IInv, Closing
    <2>4. \A s \in Callers :
              at[s] = "close" /\ accepting = "closeOld" => currentClientFd[s] # oldClient
        BY DEF IInv, Closing
    <2> QED
        BY <2>2, <2>3, <2>4 DEF ClosesOwn
<1> QED
    BY <1>1, ControllerInvariant, PTL

----------------------------------------------------------------------------
(* The newest connection is the one served.                                *)

\* Connections are accepted in the order they were made.
Order ==
    /\ \A c, d \in Conn : c < d /\ conn[d] # "unused" => conn[c] # "unused"
    /\ \A i, j \in DOMAIN backlog : i < j => backlog[i] < backlog[j]
    /\ \A i \in DOMAIN backlog, fd \in Fd : file[fd] < backlog[i]
    /\ accepting \in {"check", "exchange"} /\ newSocket # None =>
           \A fd \in Fd : file[fd] <= file[newSocket]

LEMMA ConnNat == Conn \subseteq Nat
BY MaxConnsAssumption DEF Conn

LEMMA FileNat ==
    ASSUME TypeOK PROVE \A fd \in Fd : file[fd] \in Nat
<1>1. file \in [Fd -> Conn \cup {0}]
    BY DEF TypeOK
<1>2. Conn \cup {0} \subseteq Nat
    BY ConnNat
<1> QED
    BY <1>1, <1>2

LEMMA BacklogPositions ==
    ASSUME TypeOK
    PROVE  Len(backlog) \in Nat /\ \A i \in DOMAIN backlog : i <= Len(backlog) /\ i \in Nat
<1>1. backlog \in Seq(Conn)
    BY DEF TypeOK
<1> QED
    BY <1>1

\* The accept thread starts with the controller.
Started == ~isInitialized /\ exiting = "no" => accepting = "none"

OInv == IInv /\ Order /\ Started /\ NewestServed

LEMMA StartedStep ==
    ASSUME Started, [Next]_vars PROVE Started'
<1> USE DEF Started
<1>1. CASE UNCHANGED vars
    BY <1>1 DEF vars, acceptVars
<1>2. CASE Initialize \/ ShutdownCall \/ ShutdownStep
    BY <1>2 DEF Initialize, ShutdownCall, ShutdownStep, ShutdownServer, ShutdownClient,
                ShutdownJoin, acceptVars
<1>3. CASE AcceptStep \/ AcceptError
    BY <1>3 DEF AcceptStep, AcceptLoop, Accept, AcceptFails, AcceptError, AcceptCheck, AcceptExchange,
                AcceptCloseOld
<1>4. ASSUME NEW s \in Callers, NEW m \in {"BC_TO_RT", "RT_TO_BC"}, SendCall(s, m)
      PROVE  Started'
    BY <1>4 DEF SendCall, acceptVars
<1>5. ASSUME NEW s \in Callers, SendStep(s) PROVE Started'
    BY <1>5 DEF SendStep, LoadClient, WritePacket, WriteBlocks, WriteFails, WriteKills, DropClient,
                CloseFailed, ReadEnter, ReadAnswer, ReadNothing, acceptVars
<1>6. ASSUME NEW c \in Conn, Connect(c) \/ Take(c) \/ Disconnect(c) PROVE Started'
    BY <1>6 DEF Connect, Take, Disconnect, acceptVars
<1> QED
    BY <1>1, <1>2, <1>3, <1>4, <1>5, <1>6 DEF Next

\* A step that makes, accepts and installs no connection.
QuietStep ==
    /\ \A fd \in Fd : file'[fd] \in {0, file[fd]}
    /\ backlog' = backlog
    /\ \A c \in Conn : conn'[c] = "unused" <=> conn[c] = "unused"
    /\ clientFd' # None => clientFd' = clientFd /\ file'[clientFd] = file[clientFd]
    /\ accepting \in {"check", "exchange"} /\ newSocket # None =>
           \/ accepting' \in {"check", "exchange"} /\ newSocket' = newSocket
           \/ file'[newSocket] = 0
    /\ accepting' \in {"check", "exchange"} /\ newSocket' # None =>
           /\ accepting \in {"check", "exchange"} /\ newSocket' = newSocket
           /\ file'[newSocket] = file[newSocket]

LEMMA OrderQuiet ==
    ASSUME OInv, TypeOK', QuietStep
    PROVE  Order' /\ NewestServed'
<1> USE DEF QuietStep
<1>1. \A fd \in Fd : file[fd] \in Nat /\ file'[fd] \in Nat
    <2>1. Conn \cup {0} \subseteq Nat
        BY ConnNat
    <2>2. \A fd \in Fd : file[fd] \in Conn \cup {0}
        BY DEF OInv, IInv, TypeOK
    <2> QED
        BY <2>1, <2>2
<1>2. \A c, d \in Conn : c < d /\ conn'[d] # "unused" => conn'[c] # "unused"
    BY DEF OInv, Order
<1>3. \A i, j \in DOMAIN backlog' : i < j => backlog'[i] < backlog'[j]
    BY DEF OInv, Order
<1>4. \A i \in DOMAIN backlog', fd \in Fd : file'[fd] < backlog'[i]
    <2> SUFFICES ASSUME NEW i \in DOMAIN backlog, NEW fd \in Fd
                 PROVE  file'[fd] < backlog[i]
        OBVIOUS
    <2>1. backlog[i] \in Nat /\ 0 < backlog[i]
        <3>1. backlog[i] \in Conn
            BY DEF OInv, IInv, TypeOK
        <3> QED
            BY <3>1, MaxConnsAssumption DEF Conn
    <2>2. file[fd] < backlog[i]
        BY DEF OInv, Order
    <2> QED
        BY <2>1, <2>2
<1>5. accepting' \in {"check", "exchange"} /\ newSocket' # None =>
          \A fd \in Fd : file'[fd] <= file'[newSocket']
    <2> SUFFICES ASSUME accepting' \in {"check", "exchange"}, newSocket' # None,
                        NEW fd \in Fd
                 PROVE  file'[fd] <= file'[newSocket']
        OBVIOUS
    <2>1. newSocket \in Fd /\ newSocket' = newSocket /\ file'[newSocket] = file[newSocket]
        BY DEF OInv, IInv, TypeOK
    <2>2. file[fd] <= file[newSocket]
        BY <2>1 DEF OInv, Order
    <2> QED
        BY <1>1, <2>1, <2>2
<1>6. NewestServed'
    <2> SUFFICES ASSUME clientFd' # None, NEW fd \in Fd, file'[fd] > file'[clientFd']
                 PROVE  accepting' \in {"check", "exchange"} /\ fd = newSocket'
        BY DEF NewestServed
    <2>1. clientFd' = clientFd /\ clientFd \in Fd /\ file'[clientFd] = file[clientFd]
        BY DEF OInv, IInv, TypeOK
    <2>2. file'[fd] # 0
        BY <1>1, <2>1
    <2>3. file[fd] > file[clientFd]
        BY <2>1, <2>2
    <2>4. accepting \in {"check", "exchange"} /\ fd = newSocket
        BY <2>1, <2>3 DEF OInv, NewestServed
    <2>5. newSocket # None
        BY <2>4, MaxConnsAssumption DEF Fd, None
    <2> QED
        BY <2>2, <2>4, <2>5
<1> QED
    BY <1>2, <1>3, <1>4, <1>5, <1>6 DEF Order

LEMMA CloseQuiet ==
    ASSUME NEW fd \in Fd, TypeOK, Table, Close(fd)
    PROVE  /\ \A g \in Fd : file'[g] \in {0, file[g]}
           /\ \A g \in Fd : g # fd => file'[g] = file[g]
           /\ file'[fd] = 0
           /\ \A c \in Conn : conn'[c] = "unused" <=> conn[c] = "unused"
<1>1. file[fd] # 0 => conn[file[fd]] # "unused"
    BY DEF Table
<1> QED
    BY <1>1 DEF Close, TypeOK

LEMMA OrderStep ==
    ASSUME OInv, [Next]_vars PROVE Order' /\ NewestServed'
<1> USE DEF OInv
<1>0. TypeOK' /\ TypeOK /\ Table /\ None \notin Fd
    BY TypeStep, MaxConnsAssumption DEF IInv, Fd, None
<1>1. ASSUME UNCHANGED <<file, backlog, clientFd, accepting, newSocket>>,
             \A c \in Conn : conn'[c] = "unused" <=> conn[c] = "unused"
      PROVE  Order' /\ NewestServed'
    <2>1. \A fd \in Fd : file'[fd] \in {0, file[fd]}
        BY <1>1
    <2> QED
        BY <1>0, <1>1, <2>1, OrderQuiet DEF QuietStep
<1>2. CASE Initialize \/ AcceptLoop \/ AcceptFails \/ AcceptError
    <2>1. /\ UNCHANGED <<file, backlog, conn, clientFd>>
          /\ accepting \notin {"check", "exchange"}
          /\ accepting' \in {"check", "exchange"} => newSocket' = None
        BY <1>2 DEF Initialize, AcceptLoop, AcceptFails, AcceptError, Started, kernelVars
    <2>2. \A fd \in Fd : file'[fd] \in {0, file[fd]}
        BY <2>1
    <2> QED
        BY <1>0, <2>1, <2>2, OrderQuiet DEF QuietStep
<1>3. CASE Accept
    <2>1. LowestFree \in Fd /\ file[LowestFree] = 0
        BY <1>0, DescriptorFree DEF TypeOK, Table, FreeFds
    <2>2. PICK ns \in Fd : /\ file[ns] = 0 /\ newSocket' = ns
                           /\ file' = [file EXCEPT ![ns] = Head(backlog)]
        BY <1>3, <2>1 DEF Accept
    <2>3. /\ backlog # <<>> /\ backlog' = Tail(backlog) /\ conn' = conn
          /\ clientFd' = clientFd /\ accepting = "accept" /\ accepting' = "check"
        BY <1>3 DEF Accept
    <2>0. backlog \in Seq(Conn)
        BY <1>0 DEF TypeOK
    <2>4. PICK c \in Conn : c = Head(backlog) /\ c = backlog[1]
        BY <2>0, <2>3, QueueHead
    <2>5. /\ 1 \in DOMAIN backlog
          /\ \A i \in DOMAIN backlog' : i + 1 \in DOMAIN backlog /\ backlog'[i] = backlog[i + 1]
                                        /\ 1 < i + 1 /\ i \in Nat
        BY <2>0, <2>3, QueueHead
    <2>6. \A g \in Fd : file'[g] = IF g = ns THEN c ELSE file[g]
        BY <1>0, <2>2, <2>4 DEF TypeOK
    <2>7. \A g \in Fd : file[g] < c
        BY <2>4, <2>5 DEF Order
    <2>8. \A i, j \in DOMAIN backlog' : i < j => backlog'[i] < backlog'[j]
        <3> SUFFICES ASSUME NEW i \in DOMAIN backlog', NEW j \in DOMAIN backlog', i < j
                     PROVE  backlog'[i] < backlog'[j]
            OBVIOUS
        <3>1. i + 1 < j + 1 /\ i + 1 \in DOMAIN backlog /\ j + 1 \in DOMAIN backlog
            BY <2>5
        <3>2. backlog[i + 1] < backlog[j + 1]
            BY <3>1 DEF Order
        <3> QED
            BY <3>2, <2>5
    <2>9. \A i \in DOMAIN backlog', fd \in Fd : file'[fd] < backlog'[i]
        <3> SUFFICES ASSUME NEW i \in DOMAIN backlog', NEW fd \in Fd
                     PROVE  file'[fd] < backlog'[i]
            OBVIOUS
        <3>1. file[fd] < backlog[i + 1]
            BY <2>5 DEF Order
        <3>2. backlog[1] < backlog[i + 1]
            BY <2>5 DEF Order
        <3>3. file'[fd] = c \/ file'[fd] = file[fd]
            BY <2>6
        <3> QED
            BY <3>1, <3>2, <3>3, <2>4, <2>5
    <2>10. \A fd \in Fd : file'[fd] <= file'[newSocket']
        <3>1. \A fd \in Fd : file[fd] \in Nat
            BY <1>0, FileNat
        <3>2. c \in Nat
            BY MaxConnsAssumption DEF Conn
        <3> QED
            BY <2>2, <2>6, <2>7, <3>1, <3>2
    <2>11. \A d, e \in Conn : d < e /\ conn'[e] # "unused" => conn'[d] # "unused"
        BY <2>3 DEF Order
    <2>12. NewestServed'
        <3> SUFFICES ASSUME clientFd # None, NEW fd \in Fd, file'[fd] > file'[clientFd]
                     PROVE  fd = ns
            BY <2>2, <2>3 DEF NewestServed
        <3>1. clientFd \in Fd /\ clientFd # ns
            BY <1>0, <2>2 DEF TypeOK, IInv, Owned
        <3>2. file'[clientFd] = file[clientFd]
            BY <3>1, <2>6
        <3>3. fd # ns => file'[fd] = file[fd]
            BY <2>6
        <3> QED
            BY <3>2, <3>3, <2>3 DEF NewestServed
    <2> QED
        BY <2>8, <2>9, <2>10, <2>11, <2>12 DEF Order
<1>4. CASE AcceptCheck
    <2>1. CASE newSocket # None /\ ~isInitialized
        <3>1. newSocket \in Fd /\ Close(newSocket) /\ accepting = "check"
              /\ accepting' = "exited" /\ UNCHANGED <<clientFd, newSocket, backlog>>
            BY <1>0, <1>4, <2>1 DEF AcceptCheck, TypeOK
        <3>2. clientFd # None => clientFd \in Fd /\ clientFd # newSocket
            BY <1>0, <2>1, <3>1 DEF TypeOK, IInv, Owned
        <3> QED
            BY <1>0, <3>1, <3>2, CloseQuiet, OrderQuiet DEF QuietStep
    <2>2. CASE ~(newSocket # None /\ ~isInitialized)
        <3>1. /\ UNCHANGED <<file, conn, clientFd, newSocket, backlog>>
              /\ accepting = "check"
              /\ newSocket # None => accepting' = "exchange"
            BY <1>4, <2>2 DEF AcceptCheck
        <3>2. \A fd \in Fd : file'[fd] \in {0, file[fd]}
            BY <3>1
        <3> QED
            BY <1>0, <3>1, <3>2, OrderQuiet DEF QuietStep
    <2> QED
        BY <2>1, <2>2
<1>5. CASE AcceptExchange
    <2>1. /\ accepting = "exchange" /\ newSocket # None /\ newSocket \in Fd
          /\ clientFd' = newSocket /\ accepting' = "closeOld"
          /\ UNCHANGED <<file, conn, backlog>>
        BY <1>0, <1>5 DEF AcceptExchange, IInv, Owned, TypeOK, kernelVars
    <2>2. \A fd \in Fd : file[fd] <= file[newSocket]
        BY <2>1 DEF Order
    <2>3. \A fd \in Fd : file[fd] \in Nat
        BY <1>0, FileNat
    <2>4. NewestServed'
        BY <2>1, <2>2, <2>3 DEF NewestServed
    <2>5. Order'
        BY <2>1 DEF Order
    <2> QED
        BY <2>4, <2>5
<1>6. CASE AcceptCloseOld
    <2>1. CASE oldClient # None
        <3>1. oldClient \in Fd /\ Close(oldClient) /\ accepting = "closeOld"
              /\ accepting' = "loop" /\ UNCHANGED <<clientFd, newSocket, backlog>>
            BY <1>0, <1>6, <2>1 DEF AcceptCloseOld, TypeOK
        <3>2. clientFd # None => clientFd \in Fd /\ clientFd # oldClient
            BY <1>0, <2>1, <3>1 DEF TypeOK, IInv, Owned
        <3> QED
            BY <1>0, <3>1, <3>2, CloseQuiet, OrderQuiet DEF QuietStep
    <2>2. CASE oldClient = None
        <3>1. /\ UNCHANGED <<file, conn, clientFd, newSocket, backlog>>
              /\ accepting = "closeOld" /\ accepting' = "loop"
            BY <1>6, <2>2 DEF AcceptCloseOld
        <3>2. \A fd \in Fd : file'[fd] \in {0, file[fd]}
            BY <3>1
        <3> QED
            BY <1>0, <3>1, <3>2, OrderQuiet DEF QuietStep
    <2> QED
        BY <2>1, <2>2
<1>7. ASSUME NEW s \in Callers, NEW m \in {"BC_TO_RT", "RT_TO_BC"}, SendCall(s, m)
      PROVE  Order' /\ NewestServed'
    BY <1>1, <1>7 DEF SendCall, acceptVars, kernelVars
<1>8. ASSUME NEW s \in Callers,
             \/ LoadClient(s) \/ WritePacket(s) \/ WriteBlocks(s) \/ WriteFails(s)
             \/ WriteKills(s) \/ ReadEnter(s) \/ ReadAnswer(s) \/ ReadNothing(s)
      PROVE  Order' /\ NewestServed'
    <2>1. UNCHANGED <<file, backlog, clientFd, accepting, newSocket>>
        BY <1>8 DEF LoadClient, WritePacket, WriteBlocks, WriteFails, WriteKills, ReadEnter, ReadAnswer,
                    ReadNothing, acceptVars, kernelVars
    <2>2. \A c \in Conn : conn'[c] = "unused" <=> conn[c] = "unused"
        <3>1. conn' = conn \/ \E c \in Conn : \E v : /\ conn' = [conn EXCEPT ![c] = v]
                                                     /\ conn[c] # "unused" /\ v # "unused"
            <4>1. CASE \/ LoadClient(s) \/ WriteBlocks(s) \/ WriteKills(s)
                       \/ ReadEnter(s) \/ ReadAnswer(s)
                BY <4>1 DEF LoadClient, WriteBlocks, WriteKills, ReadEnter, ReadAnswer, kernelVars
            <4>2. CASE WritePacket(s)
                <5>1. Target(s) \in Conn
                    BY <1>0, <4>2, TargetTypes DEF WritePacket, IInv
                <5> QED
                    BY <4>2, <5>1 DEF WritePacket
            <4>3. CASE WriteFails(s)
                <5>1. Target(s) \in Conn \cup {0}
                    BY <1>0, <4>3, TargetTypes DEF WriteFails, IInv
                <5> QED
                    BY <4>3, <5>1 DEF WriteFails
            <4>4. CASE ReadNothing(s)
                <5>1. waitsOn[s] \in Conn
                    BY <1>0, <4>4 DEF ReadNothing, IInv, Serial, TypeOK
                <5>2. conn' = [conn EXCEPT ![waitsOn[s]] = IF @ = "reset" THEN "pipe" ELSE @]
                    BY <4>4 DEF ReadNothing
                <5> QED
                    BY <1>0, <5>1, <5>2 DEF TypeOK
            <4> QED
                BY <1>8, <4>1, <4>2, <4>3, <4>4
        <3> QED
            BY <1>0, <3>1 DEF TypeOK
    <2> QED
        BY <1>1, <2>1, <2>2
<1>9. ASSUME NEW s \in Callers, DropClient(s) PROVE Order' /\ NewestServed'
    <2>1. clientFd' = None /\ UNCHANGED <<file, conn, backlog, accepting, newSocket>>
        BY <1>9 DEF DropClient, acceptVars, kernelVars
    <2>2. \A fd \in Fd : file'[fd] \in {0, file[fd]}
        BY <2>1
    <2> QED
        BY <1>0, <2>1, <2>2, OrderQuiet DEF QuietStep
<1>10. ASSUME NEW s \in Callers, CloseFailed(s) PROVE Order' /\ NewestServed'
    <2>1. /\ currentClientFd[s] \in Fd /\ Close(currentClientFd[s])
          /\ UNCHANGED <<clientFd, backlog, accepting, newSocket>>
          /\ at[s] = "close"
        BY <1>10 DEF CloseFailed, IInv, Serial, acceptVars
    <2>2. /\ currentClientFd[s] # clientFd
          /\ accepting \in {"check", "exchange"} => currentClientFd[s] # newSocket
        BY <2>1 DEF IInv, Closing
    <2>3. /\ clientFd # None => clientFd \in Fd
          /\ newSocket # None => newSocket \in Fd
        BY <1>0 DEF TypeOK
    <2> QED
        BY <1>0, <2>1, <2>2, <2>3, CloseQuiet, OrderQuiet DEF QuietStep
<1>11. CASE ShutdownClient
    <2>1. clientFd' = None /\ UNCHANGED <<accepting, newSocket, backlog>>
        BY <1>11 DEF ShutdownClient, acceptVars
    <2>2. /\ \A g \in Fd : file'[g] \in {0, file[g]} /\ (g # clientFd => file'[g] = file[g])
          /\ \A c \in Conn : conn'[c] = "unused" <=> conn[c] = "unused"
        <3>1. CASE clientFd # None
            <4>1. clientFd \in Fd /\ Close(clientFd)
                BY <1>0, <1>11, <3>1 DEF ShutdownClient, TypeOK
            <4> QED
                BY <1>0, <4>1, CloseQuiet
        <3>2. CASE clientFd = None
            BY <1>11, <3>2 DEF ShutdownClient
        <3> QED
            BY <3>1, <3>2
    <2>3. accepting \in {"check", "exchange"} /\ newSocket # None =>
              newSocket \in Fd /\ newSocket # clientFd
        BY <1>0 DEF TypeOK, IInv, Owned
    <2>4. accepting \in {"check", "exchange"} /\ newSocket # None =>
              file'[newSocket] = file[newSocket]
        BY <2>2, <2>3
    <2>5. \A g \in Fd : file'[g] \in {0, file[g]}
        BY <2>2
    <2>6. \A c \in Conn : conn'[c] = "unused" <=> conn[c] = "unused"
        BY <2>2
    <2>7. backlog' = backlog /\ accepting' = accepting /\ newSocket' = newSocket
          /\ clientFd' = None /\ TypeOK'
        BY <1>0, <2>1
    <2>8. QuietStep
        BY <2>4, <2>5, <2>6, <2>7 DEF QuietStep
    <2> QED
        BY <1>0, <2>8, OrderQuiet
<1>12. CASE UNCHANGED vars
    BY <1>1, <1>12 DEF vars, acceptVars, kernelVars
<1>13. CASE ShutdownCall \/ ShutdownServer \/ ShutdownJoin
    BY <1>1, <1>13 DEF ShutdownCall, ShutdownServer, ShutdownJoin, acceptVars, kernelVars
<1>14. ASSUME NEW c \in Conn, Take(c) PROVE Order' /\ NewestServed'
    BY <1>1, <1>14 DEF Take, acceptVars
<1>15. ASSUME NEW c \in Conn, Disconnect(c) PROVE Order' /\ NewestServed'
    <2>1. UNCHANGED <<file, backlog, clientFd, accepting, newSocket>>
        BY <1>15 DEF Disconnect, acceptVars
    <2>2. \A d \in Conn : conn'[d] = "unused" <=> conn[d] = "unused"
        BY <1>0, <1>15 DEF Disconnect, Open, TypeOK
    <2> QED
        BY <1>1, <2>1, <2>2
<1>16. ASSUME NEW c \in Conn, Connect(c) PROVE Order' /\ NewestServed'
    <2>1. /\ conn[c] = "unused" /\ conn' = [conn EXCEPT ![c] = "up"]
          /\ \A d \in Conn : d < c => conn[d] # "unused"
          /\ backlog' = Append(backlog, c)
          /\ UNCHANGED <<file, clientFd, accepting, newSocket>>
        BY <1>16 DEF Connect, acceptVars
    <2>2. \A d \in Conn : conn[d] # "unused" => d < c
        <3> SUFFICES ASSUME NEW d \in Conn, conn[d] # "unused" PROVE d < c
            OBVIOUS
        <3>1. c \in Nat /\ d \in Nat /\ d # c /\ ~(c < d)
            BY <2>1, MaxConnsAssumption DEF Order, Conn
        <3> QED
            BY <3>1
    <2>3. \A fd \in Fd : file[fd] < c
        <3> SUFFICES ASSUME NEW fd \in Fd PROVE file[fd] < c
            OBVIOUS
        <3>1. CASE file[fd] = 0
            BY <3>1, MaxConnsAssumption DEF Conn
        <3>2. CASE file[fd] # 0
            BY <1>0, <2>2, <3>2 DEF TypeOK, Table
        <3> QED
            BY <3>1, <3>2
    <2>4. \A i \in DOMAIN backlog : backlog[i] < c
        BY <1>0, <2>2 DEF TypeOK, Table
    <2>5. \A i \in DOMAIN backlog' :
              /\ i \in Nat
              /\ \/ i \in DOMAIN backlog /\ backlog'[i] = backlog[i]
                 \/ i = Len(backlog) + 1 /\ backlog'[i] = c
        <3>1. backlog \in Seq(Conn)
            BY <1>0 DEF TypeOK
        <3>2. /\ Len(backlog) \in Nat
              /\ DOMAIN backlog = 1..Len(backlog)
              /\ DOMAIN backlog' = 1..(Len(backlog) + 1)
              /\ \A i \in 1..(Len(backlog) + 1) :
                     backlog'[i] = IF i = Len(backlog) + 1 THEN c ELSE backlog[i]
            BY <2>1, <3>1
        <3> QED
            BY <3>2
    <2>6. \A i \in DOMAIN backlog : i <= Len(backlog) /\ i \in Nat
        BY <1>0, BacklogPositions
    <2>7. Len(backlog) \in Nat
        BY <1>0, BacklogPositions
    <2>8. \A i, j \in DOMAIN backlog' : i < j => backlog'[i] < backlog'[j]
        <3> SUFFICES ASSUME NEW i \in DOMAIN backlog', NEW j \in DOMAIN backlog', i < j
                     PROVE  backlog'[i] < backlog'[j]
            OBVIOUS
        <3>1. i \in DOMAIN backlog
            BY <2>5, <2>6, <2>7
        <3>2. backlog'[i] = backlog[i]
            BY <3>1, <2>5, <2>6, <2>7
        <3>3. CASE j \in DOMAIN backlog /\ backlog'[j] = backlog[j]
            BY <3>1, <3>2, <3>3 DEF Order
        <3>4. CASE backlog'[j] = c
            BY <3>1, <3>2, <3>4, <2>4
        <3> QED
            BY <2>5, <3>3, <3>4
    <2>9. \A i \in DOMAIN backlog', fd \in Fd : file'[fd] < backlog'[i]
        BY <2>1, <2>3, <2>5 DEF Order
    <2>10. \A d, e \in Conn : d < e /\ conn'[e] # "unused" => conn'[d] # "unused"
        BY <1>0, <2>1 DEF Order, TypeOK
    <2>11. NewestServed' /\ (accepting' \in {"check", "exchange"} /\ newSocket' # None =>
                                 \A fd \in Fd : file'[fd] <= file'[newSocket'])
        BY <2>1 DEF Order, NewestServed
    <2> QED
        BY <2>8, <2>9, <2>10, <2>11 DEF Order
<1> QED
    BY <1>2, <1>3, <1>4, <1>5, <1>6, <1>7, <1>8, <1>9, <1>10, <1>11, <1>12, <1>13, <1>14,
       <1>15, <1>16
    DEF Next, AcceptStep, SendStep, ShutdownStep

(***************************************************************************)
(* While an older connection is served no later one is open and set up:    *)
(* with any number of simulator restarts the newest is the client.         *)
(***************************************************************************)
THEOREM NewestClientServed == Spec => []NewestServed
<1>1. Init => OInv
    <2> SUFFICES ASSUME Init PROVE OInv
        OBVIOUS
    <2> USE DEF Init
    <2>1. Order /\ Started /\ NewestServed
        BY DEF Order, Started, NewestServed
    <2> QED
        BY <2>1, InitIInv DEF OInv
<1>2. OInv /\ [Next]_vars => OInv'
    BY TypeStep, TableStep, SerialStep, OwnStep, OrderStep, StartedStep DEF OInv, IInv
<1>3. OInv => NewestServed
    BY DEF OInv
<1> QED
    BY <1>1, <1>2, <1>3, PTL DEF Spec

----------------------------------------------------------------------------
(* An answer goes to the call that asked.                                  *)

\* The caller whose request to c is not answered yet, or its answer not read.
AtAnswer(s, c) ==
    \/ at[s] = "read" /\ file[currentClientFd[s]] = c
    \/ at[s] = "wait" /\ waitsOn[s] = c

\* c is behind a descriptor, or waits to be.
Attached(c) ==
    \/ \E fd \in Fd : file[fd] = c
    \/ \E i \in DOMAIN backlog : backlog[i] = c

\* inbound[c] can still be read.
Readable(c) == Attached(c) \/ \E s \in Callers : at[s] = "wait" /\ waitsOn[s] = c

\* The i-th packet the simulator has not read asks for an answer.
Asks(c, i) ==
    conn[c] \in {"up", "dropped"} /\ i \in DOMAIN unread[c] /\ unread[c][i] # 0

\* What is closed, over or not begun carries nothing.
Ends ==
    \A c \in Conn :
        /\ conn[c] = "dropped" => ~Attached(c)
        /\ conn[c] \in {"unused", "fin"} => unread[c] = <<>>
        /\ conn[c] = "unused" => inbound[c] = <<>>

\* write() waits on the connection of its descriptor, or on one closed since.
BlockedOn ==
    \A s \in Callers : at[s] = "blocked" =>
        /\ conn[waitsOn[s]] # "unused"
        /\ file[currentClientFd[s]] = waitsOn[s] \/ ~Attached(waitsOn[s])

\* With a prompt simulator a connection carries at most the request or the
\* answer of the one call in progress.
Carried(c) ==
    /\ \A i \in Nat : Asks(c, i) =>
           /\ i = Len(unread[c]) /\ inbound[c] = <<>>
           /\ \E s \in Callers : AtAnswer(s, c) /\ unread[c][i] = request[s]
    /\ inbound[c] # <<>> =>
           \E s \in Callers : AtAnswer(s, c) /\ inbound[c] = <<request[s]>>

Waiting == Ends /\ BlockedOn /\ \A c \in Conn : Readable(c) => Carried(c)

\* What a step that is not about requests leaves alone.
CallersQuiet ==
    /\ UNCHANGED <<unread, inbound, backlog>>
    /\ \A s \in Callers :
           \/ at[s] \in {"read", "wait", "blocked"}
           \/ at'[s] \in {"read", "wait", "blocked"}
           => /\ at'[s] = at[s] /\ waitsOn'[s] = waitsOn[s]
              /\ request'[s] = request[s] /\ currentClientFd'[s] = currentClientFd[s]

LEMMA OneCaller ==
    ASSUME Serial, NEW s \in Callers, NEW t \in Callers, at[s] # "out", at[t] # "out"
    PROVE  s = t
BY DEF Serial

LEMMA WaitingQuiet ==
    ASSUME Waiting, CallersQuiet, UNCHANGED <<file, conn>>
    PROVE  Waiting'
<1>1. \A s \in Callers, c \in Conn : AtAnswer(s, c)' <=> AtAnswer(s, c)
    BY DEF AtAnswer, CallersQuiet
<1>2. \A c : Attached(c)' <=> Attached(c)
    BY DEF Attached, CallersQuiet
<1>3. \A c \in Conn : Readable(c)' <=> Readable(c)
    BY <1>2 DEF Readable, CallersQuiet
<1>4. \A s \in Callers, c \in Conn : AtAnswer(s, c) => request'[s] = request[s]
    BY DEF AtAnswer, CallersQuiet
<1>5. \A c \in Conn : Readable(c)' => Carried(c)'
    BY <1>1, <1>3, <1>4 DEF Waiting, Carried, Asks, CallersQuiet
<1>6. Ends'
    BY <1>2 DEF Waiting, Ends, CallersQuiet
<1>7. BlockedOn'
    BY <1>2 DEF Waiting, BlockedOn, CallersQuiet
<1> QED
    BY <1>5, <1>6, <1>7 DEF Waiting

LEMMA WaitingClose ==
    ASSUME NEW fd \in Fd, IInv, Waiting, CallersQuiet, Close(fd)
    PROVE  Waiting'
<1> USE DEF IInv
<1>0. PICK gone : gone = file[fd]
    OBVIOUS
<1>1. /\ \A g \in Fd : g # fd => file'[g] = file[g]
      /\ file'[fd] = 0
      /\ \A c \in Conn : /\ c # gone => conn'[c] = conn[c]
                         /\ conn[c] \in {"reset", "pipe"} => conn'[c] = conn[c]
                         /\ conn'[c] \in {conn[c], "dropped"}
      /\ 0 \notin Conn
    BY <1>0 DEF Close, TypeOK, Conn
<1>2. ~Attached(gone)' \/ gone = 0
    <2> SUFFICES ASSUME gone # 0, Attached(gone)' PROVE FALSE
        OBVIOUS
    <2>1. CASE \E g \in Fd : file'[g] = gone
        BY <1>0, <1>1, <2>1 DEF Table
    <2>2. CASE \E i \in DOMAIN backlog : backlog[i] = gone
        BY <1>0, <2>2 DEF Table
    <2> QED
        BY <2>1, <2>2 DEF Attached, CallersQuiet
<1>3. \A c \in Conn : Attached(c)' => Attached(c)
    BY <1>1 DEF Attached, CallersQuiet
<1>4. \A s \in Callers, c \in Conn : c # gone => (AtAnswer(s, c) <=> AtAnswer(s, c)')
    BY <1>0, <1>1 DEF AtAnswer, CallersQuiet, Serial
<1>5. \A s \in Callers, c \in Conn : AtAnswer(s, c) => request'[s] = request[s]
    BY DEF AtAnswer, CallersQuiet
<1>6. Ends'
    <2> SUFFICES ASSUME NEW c \in Conn
                 PROVE  /\ conn'[c] = "dropped" => ~Attached(c)'
                        /\ conn'[c] \in {"unused", "fin"} => unread'[c] = <<>>
                        /\ conn'[c] = "unused" => inbound'[c] = <<>>
        BY DEF Ends
    <2>1. conn'[c] = "dropped" => ~Attached(c)'
        <3>1. CASE c = gone
            BY <1>1, <1>2, <3>1
        <3>2. CASE c # gone
            BY <1>1, <1>3, <3>2 DEF Waiting, Ends
        <3> QED
            BY <3>1, <3>2
    <2> QED
        BY <1>1, <2>1 DEF Waiting, Ends, CallersQuiet
<1>7. BlockedOn'
    <2> SUFFICES ASSUME NEW s \in Callers, at'[s] = "blocked", NEW w, w = waitsOn[s]
                 PROVE  /\ conn'[w] # "unused"
                        /\ file'[currentClientFd[s]] = w \/ ~Attached(w)'
        BY DEF BlockedOn, CallersQuiet
    <2>1. at[s] = "blocked"
        BY DEF CallersQuiet
    <2>2. w \in Conn /\ conn[w] # "unused" /\ currentClientFd[s] \in Fd
        BY <2>1 DEF TypeOK, Serial, Waiting, BlockedOn
    <2>3. conn'[w] # "unused"
        BY <1>1, <2>2
    <2>4. CASE file[currentClientFd[s]] = w
        BY <1>0, <1>1, <1>2, <2>2, <2>3, <2>4
    <2>5. CASE ~Attached(w)
        BY <1>3, <2>2, <2>3, <2>5
    <2> QED
        BY <2>1, <2>4, <2>5 DEF Waiting, BlockedOn
<1>8. \A c \in Conn : Readable(c)' => Carried(c)'
    <2> SUFFICES ASSUME NEW c \in Conn, Readable(c)' PROVE Carried(c)'
        OBVIOUS
    <2>1. Readable(c)
        BY <1>3 DEF Readable, CallersQuiet
    <2>2. \A i \in Nat : Asks(c, i)' => Asks(c, i)
        <3>1. conn'[c] \in {"up", "dropped"} /\ unread[c] # <<>> => conn[c] \in {"up", "dropped"}
            BY <1>1 DEF Waiting, Ends, TypeOK
        <3> QED
            BY <3>1 DEF Asks, CallersQuiet
    <2>3. \A s \in Callers : AtAnswer(s, c) => AtAnswer(s, c)'
        <3>1. CASE c # gone
            BY <1>4, <3>1
        <3>2. CASE c = gone
            <4>1. PICK t \in Callers : at'[t] = "wait" /\ waitsOn'[t] = c
                BY <1>1, <1>2, <3>2 DEF Readable
            <4>2. at[t] = "wait" /\ waitsOn[t] = c
                BY <4>1 DEF CallersQuiet
            <4>3. \A s \in Callers : AtAnswer(s, c) => s = t
                BY <4>2, OneCaller DEF AtAnswer
            <4> QED
                BY <4>1, <4>3 DEF AtAnswer
        <3> QED
            BY <3>1, <3>2
    <2>4. Carried(c)
        BY <2>1 DEF Waiting
    <2> QED
        BY <1>5, <2>2, <2>3, <2>4 DEF Carried, CallersQuiet
<1> QED
    BY <1>6, <1>7, <1>8 DEF Waiting

\* Before a call has written, and after it has read, nothing on any connection
\* waits for it.
NoneWaits ==
    \A c \in Conn : Readable(c) => inbound[c] = <<>> /\ \A i \in Nat : ~Asks(c, i)

LEMMA OthersWait ==
    ASSUME IInv, Waiting, NEW s \in Callers, at[s] \notin {"out", "read", "wait"}
    PROVE  NoneWaits
<1>1. \A t \in Callers, c \in Conn : ~AtAnswer(t, c)
    <2> SUFFICES ASSUME NEW t \in Callers, NEW c \in Conn, AtAnswer(t, c) PROVE FALSE
        OBVIOUS
    <2>1. at[t] \in {"read", "wait"}
        BY DEF AtAnswer
    <2>2. s = t
        BY <2>1, OneCaller DEF IInv
    <2> QED
        BY <2>1, <2>2
<1> QED
    BY <1>1 DEF NoneWaits, Waiting, Carried

\* A step of the kernel or of a call that leaves the connections where they are.
LEMMA EndsQuiet ==
    ASSUME TypeOK, Ends, UNCHANGED <<file, backlog>>,
           \A c \in Conn : /\ conn'[c] = "dropped" <=> conn[c] = "dropped"
                           /\ conn'[c] = "unused" => conn[c] = "unused"
                           /\ conn'[c] \in {"unused", "fin"} => unread'[c] = <<>>
                           /\ conn'[c] = "unused" => inbound'[c] = inbound[c]
    PROVE  Ends' /\ \A c : Attached(c)' <=> Attached(c)
<1>1. \A c : Attached(c)' <=> Attached(c)
    BY DEF Attached
<1> QED
    BY <1>1 DEF Ends

LEMMA WaitingWrite ==
    ASSUME IInv, Waiting, NEW s \in Callers, WritePacket(s)
    PROVE  Waiting'
<1> USE DEF IInv
<1>0. PICK c \in Conn : c = Target(s)
    BY TargetTypes DEF WritePacket
<1>1. PICK p \in Nat :
          /\ at[s] \in {"write", "blocked"} /\ conn[c] \in {"up", "fin", "dropped"}
          /\ conn' = [conn EXCEPT ![c] = IF @ = "fin" THEN "pipe" ELSE @]
          /\ unread' = [unread EXCEPT ![c] = Append(@, p)]
          /\ \/ p = request[s] /\ at' = [at EXCEPT ![s] = "read"]
             \/ p = 0 /\ at' = [at EXCEPT ![s] = "out"]
          /\ UNCHANGED <<file, backlog, inbound, request, waitsOn, currentClientFd>>
    <2>1. request[s] \in Nat /\ 0 \in Nat
        BY DEF TypeOK
    <2>2. CASE mode[s] = "RT_TO_BC"
        BY <1>0, <2>1, <2>2 DEF WritePacket
    <2>3. CASE mode[s] # "RT_TO_BC"
        BY <1>0, <2>1, <2>3 DEF WritePacket, Return
    <2> QED
        BY <2>2, <2>3
<1>2. NoneWaits
    BY <1>1, OthersWait
<1>3. \A t \in Callers : at[t] # "wait" /\ at'[t] # "wait" /\ at'[t] # "blocked"
    <2> SUFFICES ASSUME NEW t \in Callers
                 PROVE  at[t] # "wait" /\ at'[t] # "wait" /\ at'[t] # "blocked"
        OBVIOUS
    <2>1. at[t] # "wait" /\ (t # s => at[t] = "out")
        BY <1>1, OneCaller
    <2> QED
        BY <1>1, <2>1 DEF TypeOK
<1>4. \A d \in Conn : /\ conn'[d] = "dropped" <=> conn[d] = "dropped"
                      /\ conn'[d] \in {"unused", "fin"} => conn[d] = conn'[d] /\ d # c
                      /\ conn'[d] \in {"up", "dropped"} => conn[d] = conn'[d]
    BY <1>1 DEF TypeOK
<1>5. \A d \in Conn : unread'[d] = IF d = c THEN Append(unread[c], p) ELSE unread[d]
    BY <1>1 DEF TypeOK
<1>6. Ends' /\ \A d : Attached(d)' <=> Attached(d)
    <2>1. \A d \in Conn : conn'[d] \in {"unused", "fin"} => unread'[d] = <<>>
        BY <1>4, <1>5 DEF Waiting, Ends
    <2> QED
        BY <1>1, <1>4, <2>1, EndsQuiet DEF Waiting
<1>7. BlockedOn'
    BY <1>3 DEF BlockedOn
<1>8. \A d \in Conn : Readable(d)' => Attached(d) /\ Readable(d)
    BY <1>3, <1>6 DEF Readable
<1>9. ASSUME NEW d \in Conn, Readable(d)'
      PROVE  Carried(d)'
    <2>1. Attached(d) /\ inbound'[d] = <<>> /\ \A i \in Nat : ~Asks(d, i)
        BY <1>1, <1>2, <1>8, <1>9 DEF NoneWaits
    <2>2. CASE d # c
        <3>1. \A i \in Nat : ~Asks(d, i)'
            BY <1>4, <1>5, <2>1, <2>2 DEF Asks
        <3> QED
            BY <2>1, <3>1 DEF Carried
    <2>3. CASE d = c
        <3>1. at[s] = "write" => file[currentClientFd[s]] = c
            BY <1>0, TargetTypes
        <3>2. at[s] = "blocked" => file[currentClientFd[s]] = c
            BY <1>0, <2>1, <2>3, TargetTypes DEF Waiting, BlockedOn
        <3>3. p = 0 \/ (AtAnswer(s, c)' /\ p = request'[s])
            BY <1>1, <3>1, <3>2 DEF AtAnswer, TypeOK
        <3>4. \A i \in Nat : Asks(c, i)' => i = Len(unread'[c]) /\ unread'[c][i] = p /\ p # 0
            <4> SUFFICES ASSUME NEW i \in Nat, Asks(c, i)'
                         PROVE  i = Len(unread'[c]) /\ unread'[c][i] = p /\ p # 0
                OBVIOUS
            <4>1. unread[c] \in Seq(Nat) /\ unread'[c] = Append(unread[c], p)
                BY <1>5 DEF TypeOK
            <4>2. \/ i \in DOMAIN unread[c] /\ unread'[c][i] = unread[c][i]
                  \/ i = Len(unread'[c]) /\ unread'[c][i] = p
                BY <4>1 DEF Asks
            <4>3. unread'[c][i] # 0 /\ conn[c] \in {"up", "dropped"}
                BY <1>4 DEF Asks
            <4> QED
                BY <2>1, <2>3, <4>2, <4>3 DEF Asks
        <3> QED
            BY <2>1, <2>3, <3>3, <3>4 DEF Carried
    <2> QED
        BY <2>2, <2>3
<1> QED
    BY <1>6, <1>7, <1>9 DEF Waiting

LEMMA WaitingWriteEnds ==
    ASSUME IInv, Waiting, NEW s \in Callers, WriteFails(s) \/ WriteBlocks(s)
    PROVE  Waiting'
<1> USE DEF IInv
<1>0. Target(s) \in Conn \cup {0}
    BY TargetTypes DEF WriteFails, WriteBlocks
<1>1. /\ at[s] \in {"write", "blocked"}
      /\ UNCHANGED <<file, backlog, unread, inbound, currentClientFd>>
    BY DEF WriteFails, WriteBlocks, kernelVars
<1>2. NoneWaits
    BY <1>1, OthersWait
<1>3. \A t \in Callers : at'[t] # "wait" /\ (at'[t] = "blocked" => t = s /\ WriteBlocks(s))
    <2>1. \A t \in Callers : t # s => at[t] = "out"
        BY <1>1, OneCaller
    <2>2. \/ at' = [at EXCEPT ![s] = "writeFailed"]
          \/ at' = [at EXCEPT ![s] = "blocked"] /\ WriteBlocks(s)
        BY DEF WriteFails, WriteBlocks
    <2> QED
        BY <2>1, <2>2 DEF TypeOK
<1>4. \A d \in Conn : /\ conn'[d] = "dropped" <=> conn[d] = "dropped"
                      /\ conn'[d] \in {"unused", "fin", "up"} => conn[d] = conn'[d]
    <2>1. \/ conn' = conn
          \/ \E c \in Conn : conn[c] = "reset" /\ conn' = [conn EXCEPT ![c] = "pipe"]
        BY <1>0 DEF WriteFails, WriteBlocks, kernelVars
    <2> QED
        BY <2>1 DEF TypeOK
<1>5. Ends' /\ \A d : Attached(d)' <=> Attached(d)
    <2>1. \A d \in Conn : conn'[d] \in {"unused", "fin"} => unread'[d] = <<>>
        BY <1>1, <1>4 DEF Waiting, Ends
    <2> QED
        BY <1>1, <1>4, <2>1, EndsQuiet DEF Waiting
<1>6. BlockedOn'
    <2> SUFFICES ASSUME NEW t \in Callers, at'[t] = "blocked", NEW w, w = waitsOn'[t]
                 PROVE  conn'[w] # "unused" /\ file'[currentClientFd'[t]] = w
        BY DEF BlockedOn
    <2>1. t = s /\ at[s] = "write" /\ w = Target(s) /\ conn[w] = "up" /\ w # 0
        BY <1>3 DEF WriteBlocks, TypeOK
    <2>2. file[currentClientFd[s]] = w /\ w \in Conn
        BY <1>0, <2>1, TargetTypes
    <2> QED
        BY <1>1, <1>4, <2>1, <2>2
<1>7. \A d \in Conn : Readable(d)' => Carried(d)'
    <2> SUFFICES ASSUME NEW d \in Conn, Readable(d)' PROVE Carried(d)'
        OBVIOUS
    <2>1. Readable(d)
        BY <1>3, <1>5 DEF Readable
    <2>2. inbound'[d] = <<>> /\ \A i \in Nat : ~Asks(d, i)'
        BY <1>1, <1>2, <1>4, <2>1 DEF NoneWaits, Asks
    <2> QED
        BY <2>2 DEF Carried
<1> QED
    BY <1>5, <1>6, <1>7 DEF Waiting

\* The call in read() is the only one with something to wait for.
LEMMA OnlyMineWaits ==
    ASSUME IInv, Waiting, NEW s \in Callers, at[s] \in {"read", "wait"},
           NEW c \in Conn, Readable(c)
    PROVE  /\ \A i \in Nat : Asks(c, i) =>
                  /\ AtAnswer(s, c) /\ i = Len(unread[c])
                  /\ inbound[c] = <<>> /\ unread[c][i] = request[s]
           /\ inbound[c] # <<>> => AtAnswer(s, c) /\ inbound[c] = <<request[s]>>
<1>1. \A t \in Callers : AtAnswer(t, c) => t = s
    <2> SUFFICES ASSUME NEW t \in Callers, AtAnswer(t, c) PROVE t = s
        OBVIOUS
    <2>1. at[t] # "out" /\ at[s] # "out"
        BY DEF AtAnswer
    <2> QED
        BY <2>1, OneCaller DEF IInv
<1> QED
    BY <1>1 DEF Waiting, Carried

LEMMA NoneBlocked ==
    ASSUME IInv, NEW s \in Callers, at[s] \in {"read", "wait"},
           at' = [at EXCEPT ![s] = "wait"] \/ at' = [at EXCEPT ![s] = "out"]
    PROVE  BlockedOn'
<1>1. \A t \in Callers : t # s => at[t] = "out"
    BY OneCaller DEF IInv
<1>2. \A t \in Callers : at'[t] # "blocked"
    BY <1>1 DEF IInv, TypeOK
<1> QED
    BY <1>2 DEF BlockedOn

LEMMA WaitingReadEnter ==
    ASSUME IInv, Waiting, NEW s \in Callers, ReadEnter(s)
    PROVE  Waiting'
<1> USE DEF IInv
<1>0. PICK c : c = file[currentClientFd[s]]
    OBVIOUS
<1>1. /\ at[s] = "read" /\ waitsOn' = [waitsOn EXCEPT ![s] = c]
      /\ UNCHANGED <<file, conn, backlog, unread, inbound, request, currentClientFd>>
    BY <1>0 DEF ReadEnter, kernelVars
<1>2. \/ c # 0 /\ at' = [at EXCEPT ![s] = "wait"]
      \/ at' = [at EXCEPT ![s] = "out"]
    <2>1. waitsOn'[s] = c
        BY <1>1 DEF TypeOK
    <2> QED
        BY <2>1 DEF ReadEnter, Return
<1>3. \A t \in Callers : at[t] # "wait" /\ (at'[t] = "wait" => t = s)
    <2>1. \A t \in Callers : t # s => at[t] = "out"
        BY <1>1, OneCaller
    <2> QED
        BY <1>1, <1>2, <2>1 DEF TypeOK
<1>4. currentClientFd[s] \in Fd
    BY <1>1 DEF Serial
<1>5. \A d \in Conn : AtAnswer(s, d) => AtAnswer(s, d)'
    <2> SUFFICES ASSUME NEW d \in Conn, AtAnswer(s, d) PROVE AtAnswer(s, d)'
        OBVIOUS
    <2>1. d = c /\ c # 0
        BY <1>0, <1>1 DEF AtAnswer, Conn
    <2>2. waitsOn'[s] = c
        BY <1>1 DEF TypeOK
    <2>3. at' = [at EXCEPT ![s] = "wait"]
        BY <2>1, <2>2 DEF ReadEnter
    <2> QED
        BY <2>1, <2>2, <2>3 DEF AtAnswer, TypeOK
<1>6. Ends' /\ \A d : Attached(d)' <=> Attached(d)
    BY <1>1, EndsQuiet DEF Waiting, Ends
<1>7. BlockedOn'
    BY <1>1, <1>2, NoneBlocked
<1>8. \A d \in Conn : Readable(d)' => Readable(d)
    <2> SUFFICES ASSUME NEW d \in Conn, Readable(d)' PROVE Readable(d)
        OBVIOUS
    <2>1. CASE Attached(d)'
        BY <1>6, <2>1 DEF Readable
    <2>2. CASE \E t \in Callers : at'[t] = "wait" /\ waitsOn'[t] = d
        <3>1. d = c
            BY <1>1, <1>3, <2>2 DEF TypeOK
        <3> QED
            BY <1>0, <1>4, <3>1 DEF Readable, Attached
    <2> QED
        BY <2>1, <2>2 DEF Readable
<1>9. \A d \in Conn : Readable(d)' => Carried(d)'
    <2> SUFFICES ASSUME NEW d \in Conn, Readable(d)' PROVE Carried(d)'
        OBVIOUS
    <2>1. /\ \A i \in Nat : Asks(d, i) =>
                 /\ AtAnswer(s, d) /\ i = Len(unread[d])
                 /\ inbound[d] = <<>> /\ unread[d][i] = request[s]
          /\ inbound[d] # <<>> => AtAnswer(s, d) /\ inbound[d] = <<request[s]>>
        BY <1>1, <1>8, OnlyMineWaits
    <2> QED
        BY <1>1, <1>5, <2>1 DEF Carried, Asks
<1> QED
    BY <1>6, <1>7, <1>9 DEF Waiting

\* After a call has returned from read() nothing on c waits for it.
LEMMA WaitingReadEnds ==
    ASSUME IInv, Waiting, NEW s \in Callers, at[s] = "wait",
           at' = [at EXCEPT ![s] = "out"],
           UNCHANGED <<file, backlog, unread, request>>,
           \A d \in Conn : /\ conn'[d] = "dropped" <=> conn[d] = "dropped"
                           /\ conn'[d] \in {"unused", "fin", "up"} => conn[d] = conn'[d]
                           /\ d # waitsOn[s] => inbound'[d] = inbound[d],
           inbound'[waitsOn[s]] = <<>>,
           conn[waitsOn[s]] = "up" => \A i \in Nat : ~Asks(waitsOn[s], i)
    PROVE  Waiting'
<1> USE DEF IInv
<1>1. \A t \in Callers : at'[t] # "wait"
    <2>1. \A t \in Callers : t # s => at[t] = "out"
        BY OneCaller
    <2> QED
        BY <2>1 DEF TypeOK
<1>2. Ends' /\ \A d : Attached(d)' <=> Attached(d)
    <2>1. \A d \in Conn : /\ conn'[d] \in {"unused", "fin"} => unread'[d] = <<>>
                          /\ conn'[d] = "unused" => inbound'[d] = inbound[d]
        BY DEF Waiting, Ends
    <2> QED
        BY <2>1, EndsQuiet DEF Waiting
<1>3. BlockedOn'
    BY NoneBlocked
<1>4. \A d \in Conn : Readable(d)' => Carried(d)'
    <2> SUFFICES ASSUME NEW d \in Conn, Readable(d)' PROVE Carried(d)'
        OBVIOUS
    <2>1. Attached(d) /\ Readable(d)
        BY <1>1, <1>2 DEF Readable
    <2>2. AtAnswer(s, d) => d = waitsOn[s]
        BY DEF AtAnswer
    <2>3. conn[d] # "dropped"
        BY <2>1 DEF Waiting, Ends
    <2>4. inbound'[d] = <<>>
        BY <2>1, <2>2, OnlyMineWaits
    <2>5. \A i \in Nat : ~Asks(d, i)
        BY <2>1, <2>2, <2>3, OnlyMineWaits DEF Asks
    <2>6. \A i \in Nat : ~Asks(d, i)'
        BY <2>5 DEF Asks
    <2> QED
        BY <2>4, <2>6 DEF Carried
<1> QED
    BY <1>2, <1>3, <1>4 DEF Waiting

LEMMA WaitingReadAnswer ==
    ASSUME IInv, Waiting, NEW s \in Callers, ReadAnswer(s)
    PROVE  Waiting' /\ answer'[s] = request[s]
<1> USE DEF IInv
<1>0. PICK c : c = waitsOn[s]
    OBVIOUS
<1>1. /\ at[s] = "wait" /\ at' = [at EXCEPT ![s] = "out"] /\ inbound[c] # <<>>
      /\ answer' = [answer EXCEPT ![s] = Head(inbound[c])]
      /\ inbound' = [inbound EXCEPT ![c] = Tail(@)]
      /\ UNCHANGED <<file, conn, backlog, unread, request>>
    BY <1>0 DEF ReadAnswer, Return
<1>2. c \in Conn /\ Readable(c)
    BY <1>0, <1>1 DEF Serial, TypeOK, Readable
<1>3. inbound[c] = <<request[s]>> /\ \A i \in Nat : ~Asks(c, i)
    BY <1>1, <1>2, OnlyMineWaits
<1>4. inbound'[c] = <<>> /\ answer'[s] = request[s]
    BY <1>1, <1>2, <1>3 DEF TypeOK
<1>5. \A d \in Conn : d # c => inbound'[d] = inbound[d]
    BY <1>1 DEF TypeOK
<1>6. Waiting'
    BY <1>0, <1>1, <1>3, <1>4, <1>5, WaitingReadEnds
<1> QED
    BY <1>4, <1>6

LEMMA WaitingReadNothing ==
    ASSUME Prompt, IInv, Waiting, NEW s \in Callers, ReadNothing(s)
    PROVE  Waiting'
<1> USE DEF IInv
<1>0. PICK c : c = waitsOn[s]
    OBVIOUS
<1>1. /\ at[s] = "wait" /\ at' = [at EXCEPT ![s] = "out"] /\ inbound[c] = <<>>
      /\ conn[c] = "up" => unread[c] = <<>>
      /\ conn' = [conn EXCEPT ![c] = IF @ = "reset" THEN "pipe" ELSE @]
      /\ UNCHANGED <<file, backlog, unread, inbound, request>>
    BY <1>0 DEF ReadNothing, Return
<1>2. \A d \in Conn : /\ conn'[d] = "dropped" <=> conn[d] = "dropped"
                      /\ conn'[d] \in {"unused", "fin", "up"} => conn[d] = conn'[d]
    BY <1>1 DEF TypeOK
<1>3. conn[c] = "up" => \A i \in Nat : ~Asks(c, i)
    BY <1>1 DEF Asks
<1> QED
    BY <1>0, <1>1, <1>2, <1>3, WaitingReadEnds

LEMMA WaitingAccept ==
    ASSUME IInv, Waiting, Accept
    PROVE  Waiting'
<1> USE DEF IInv
<1>1. LowestFree \in Fd /\ file[LowestFree] = 0
    BY DescriptorFree DEF TypeOK, Table, FreeFds
<1>2. PICK ns \in Fd : file[ns] = 0 /\ file' = [file EXCEPT ![ns] = Head(backlog)]
    BY <1>1 DEF Accept
<1>3. /\ backlog # <<>> /\ backlog' = Tail(backlog)
      /\ UNCHANGED <<conn, unread, inbound, at, waitsOn, currentClientFd, request>>
    BY DEF Accept, callVars
<1>4. backlog \in Seq(Conn)
    BY DEF TypeOK
<1>5. PICK c \in Conn : c = Head(backlog) /\ 1 \in DOMAIN backlog /\ c = backlog[1]
    BY <1>3, <1>4
<1>6. \A g \in Fd : file'[g] = IF g = ns THEN c ELSE file[g]
    BY <1>2, <1>5 DEF TypeOK
<1>7. \A i \in DOMAIN backlog' : i + 1 \in DOMAIN backlog /\ backlog'[i] = backlog[i + 1]
    BY <1>3, <1>4
<1>8. \A d : Attached(d)' /\ d # 0 => Attached(d)
    <2> SUFFICES ASSUME NEW d, Attached(d)' PROVE Attached(d)
        OBVIOUS
    <2>1. CASE \E g \in Fd : file'[g] = d
        BY <1>5, <1>6, <2>1 DEF Attached
    <2>2. CASE \E i \in DOMAIN backlog' : backlog'[i] = d
        BY <1>7, <2>2 DEF Attached
    <2> QED
        BY <2>1, <2>2 DEF Attached
<1>9. 0 \notin Conn
    BY DEF Conn
<1>10. Ends'
    BY <1>3, <1>8, <1>9 DEF Waiting, Ends
<1>11. BlockedOn'
    <2> SUFFICES ASSUME NEW s \in Callers, at[s] = "blocked", NEW w, w = waitsOn[s]
                 PROVE  conn[w] # "unused" /\ (file'[currentClientFd[s]] = w \/ ~Attached(w)')
        BY <1>3 DEF BlockedOn
    <2>1. w # 0 /\ currentClientFd[s] \in Fd
        BY DEF Serial
    <2> QED
        BY <1>2, <1>6, <1>8, <2>1 DEF Waiting, BlockedOn
<1>12. \A t \in Callers, d \in Conn : AtAnswer(t, d) => AtAnswer(t, d)'
    BY <1>2, <1>3, <1>6, <1>9 DEF AtAnswer, Serial
<1>13. \A d \in Conn : Readable(d)' => Readable(d)
    BY <1>3, <1>8, <1>9 DEF Readable
<1>14. \A d \in Conn : Readable(d)' => Carried(d)'
    BY <1>3, <1>12, <1>13 DEF Waiting, Carried, Asks
<1> QED
    BY <1>10, <1>11, <1>14 DEF Waiting

LEMMA WaitingConnect ==
    ASSUME IInv, Waiting, NEW c \in Conn, Connect(c)
    PROVE  Waiting'
<1> USE DEF IInv
<1>1. /\ conn[c] = "unused" /\ conn' = [conn EXCEPT ![c] = "up"]
      /\ backlog' = Append(backlog, c)
      /\ UNCHANGED <<file, unread, inbound, at, waitsOn, currentClientFd, request>>
    BY DEF Connect, callVars
<1>2. \A d \in Conn : conn'[d] = IF d = c THEN "up" ELSE conn[d]
    BY <1>1 DEF TypeOK
<1>3. \A d : Attached(d)' => d = c \/ Attached(d)
    <2>1. backlog \in Seq(Conn)
        BY DEF TypeOK
    <2>2. \A i \in DOMAIN backlog' :
              backlog'[i] = c \/ (i \in DOMAIN backlog /\ backlog'[i] = backlog[i])
        BY <1>1, <2>1
    <2> QED
        BY <1>1, <2>2 DEF Attached
<1>4. unread[c] = <<>> /\ inbound[c] = <<>>
    BY <1>1 DEF Waiting, Ends
<1>5. Ends'
    BY <1>1, <1>2, <1>3 DEF Waiting, Ends
<1>6. BlockedOn'
    <2> SUFFICES ASSUME NEW s \in Callers, at[s] = "blocked", NEW w, w = waitsOn[s]
                 PROVE  conn'[w] # "unused" /\ (file[currentClientFd[s]] = w \/ ~Attached(w)')
        BY <1>1 DEF BlockedOn
    <2>1. w \in Conn /\ w # c
        BY <1>1 DEF Waiting, BlockedOn, Serial, TypeOK
    <2> QED
        BY <1>2, <1>3, <2>1 DEF Waiting, BlockedOn
<1>7. \A t \in Callers, d \in Conn : AtAnswer(t, d) <=> AtAnswer(t, d)'
    BY <1>1 DEF AtAnswer
<1>8. \A d \in Conn : Readable(d)' => Carried(d)'
    <2> SUFFICES ASSUME NEW d \in Conn, Readable(d)' PROVE Carried(d)'
        OBVIOUS
    <2>1. CASE d = c
        BY <1>1, <1>4, <2>1 DEF Carried, Asks
    <2>2. CASE d # c
        <3>1. Carried(d)
            BY <1>1, <1>3, <2>2 DEF Waiting, Readable
        <3> QED
            BY <1>1, <1>2, <1>7, <2>2, <3>1 DEF Carried, Asks
    <2> QED
        BY <2>1, <2>2
<1> QED
    BY <1>5, <1>6, <1>8 DEF Waiting

LEMMA WaitingTake ==
    ASSUME IInv, Waiting, NEW c \in Conn, Take(c)
    PROVE  Waiting'
<1> USE DEF IInv
<1>1. /\ conn[c] \in {"up", "dropped"} /\ unread[c] # <<>> /\ unread[c] \in Seq(Nat)
      /\ unread' = [unread EXCEPT ![c] = Tail(@)]
      /\ \/ /\ Head(unread[c]) # 0
            /\ inbound' = [inbound EXCEPT ![c] = Append(@, Head(unread[c]))]
         \/ inbound' = inbound
      /\ UNCHANGED <<file, conn, backlog, at, waitsOn, currentClientFd, request>>
    BY DEF Take, Open, callVars, TypeOK
<1>2. \A d \in Conn : d # c => inbound'[d] = inbound[d] /\ unread'[d] = unread[d]
    BY <1>1 DEF TypeOK
<1>3. \A d \in Conn : /\ conn[d] \in {"unused", "fin"} => unread'[d] = <<>>
                      /\ conn[d] = "unused" => inbound'[d] = inbound[d]
    BY <1>1, <1>2 DEF Waiting, Ends
<1>4. Ends' /\ \A d : Attached(d)' <=> Attached(d)
    BY <1>1, <1>3, EndsQuiet DEF Waiting
<1>5. BlockedOn'
    BY <1>1, <1>4 DEF Waiting, BlockedOn
<1>6. \A t \in Callers, d \in Conn : AtAnswer(t, d) <=> AtAnswer(t, d)'
    BY <1>1 DEF AtAnswer
<1>7. \A d \in Conn : Readable(d)' <=> Readable(d)
    BY <1>1, <1>4 DEF Readable
<1>8. ASSUME Readable(c) PROVE Carried(c)'
    <2>1. Carried(c)
        BY <1>8 DEF Waiting
    <2>2. /\ unread'[c] = Tail(unread[c])
          /\ \A i \in Nat : i \in DOMAIN unread'[c] =>
                 /\ i + 1 \in Nat /\ i + 1 \in DOMAIN unread[c]
                 /\ unread'[c][i] = unread[c][i + 1]
          /\ Len(unread'[c]) = Len(unread[c]) - 1
          /\ 1 \in DOMAIN unread[c] /\ Head(unread[c]) = unread[c][1]
          /\ Len(unread[c]) \in Nat
        BY <1>1 DEF TypeOK
    <2>3. CASE Head(unread[c]) # 0
        <3>1. Asks(c, 1)
            BY <1>1, <2>2, <2>3 DEF Asks
        <3>2. PICK t \in Callers : /\ AtAnswer(t, c) /\ unread[c][1] = request[t]
                                   /\ inbound[c] = <<>> /\ 1 = Len(unread[c])
            BY <2>1, <3>1 DEF Carried
        <3>3. \A i \in Nat : i \notin DOMAIN unread'[c]
            <4> SUFFICES ASSUME NEW i \in Nat, i \in DOMAIN unread'[c] PROVE FALSE
                OBVIOUS
            <4>1. Len(unread'[c]) = 0 /\ unread'[c] \in Seq(Nat)
                BY <1>1, <2>2, <3>2
            <4> QED
                BY <4>1
        <3>4. inbound'[c] = <<request[t]>> \/ inbound'[c] = <<>>
            BY <1>1, <2>2, <3>2 DEF TypeOK
        <3> QED
            BY <1>1, <1>6, <3>2, <3>3, <3>4 DEF Carried, Asks
    <2>4. CASE Head(unread[c]) = 0
        <3>1. inbound' = inbound
            BY <1>1, <2>4
        <3>2. \A i \in Nat : Asks(c, i)' => Asks(c, i + 1) /\ unread'[c][i] = unread[c][i + 1]
            BY <1>1, <2>2 DEF Asks
        <3>3. \A i \in Nat : i + 1 = Len(unread[c]) => i = Len(unread'[c])
            BY <2>2
        <3>4. \A i \in Nat : Asks(c, i)' =>
                  /\ i = Len(unread'[c]) /\ inbound'[c] = <<>>
                  /\ \E s \in Callers : AtAnswer(s, c)' /\ unread'[c][i] = request'[s]
            <4> SUFFICES ASSUME NEW i \in Nat, Asks(c, i)'
                         PROVE  /\ i = Len(unread'[c]) /\ inbound'[c] = <<>>
                                /\ \E s \in Callers : AtAnswer(s, c)' /\ unread'[c][i] = request'[s]
                OBVIOUS
            <4>1. i + 1 \in Nat /\ Asks(c, i + 1) /\ unread'[c][i] = unread[c][i + 1]
                BY <3>2
            <4> QED
                BY <1>1, <1>6, <2>1, <3>1, <3>3, <4>1 DEF Carried
        <3> QED
            BY <1>1, <1>6, <2>1, <3>1, <3>4 DEF Carried
    <2> QED
        BY <2>3, <2>4
<1>9. \A d \in Conn : Readable(d)' => Carried(d)'
    <2> SUFFICES ASSUME NEW d \in Conn, Readable(d)', d # c PROVE Carried(d)'
        BY <1>7, <1>8
    <2>1. Carried(d)
        BY <1>7 DEF Waiting
    <2> QED
        BY <1>1, <1>2, <1>6, <2>1 DEF Carried, Asks
<1> QED
    BY <1>4, <1>5, <1>9 DEF Waiting

LEMMA WaitingDisconnect ==
    ASSUME IInv, Waiting, NEW c \in Conn, Disconnect(c)
    PROVE  Waiting'
<1> USE DEF IInv
<1>1. /\ conn[c] \in {"up", "dropped"}
      /\ unread' = [unread EXCEPT ![c] = <<>>]
      /\ UNCHANGED <<file, backlog, inbound, at, waitsOn, currentClientFd, request>>
    BY DEF Disconnect, Open, callVars
<1>2. \A d \in Conn : unread'[d] = <<>> \/ (d # c /\ unread'[d] = unread[d])
    BY <1>1 DEF TypeOK
<1>3. PICK state \in {"fin", "reset", "pipe"} : conn' = [conn EXCEPT ![c] = state]
    BY DEF Disconnect
<1>4. \A d \in Conn : conn'[d] = IF d = c THEN state ELSE conn[d]
    BY <1>3 DEF TypeOK
<1>5. unread'[c] = <<>>
    BY <1>1 DEF TypeOK
<1>6. \A d : Attached(d)' <=> Attached(d)
    BY <1>1 DEF Attached
<1>7. Ends'
    BY <1>1, <1>2, <1>4, <1>5, <1>6 DEF Waiting, Ends
<1>8. BlockedOn'
    <2> SUFFICES ASSUME NEW s \in Callers, at[s] = "blocked", NEW w, w = waitsOn[s]
                 PROVE  conn'[w] # "unused" /\ (file[currentClientFd[s]] = w \/ ~Attached(w)')
        BY <1>1 DEF BlockedOn
    <2>1. w \in Conn
        BY DEF Serial, TypeOK
    <2> QED
        BY <1>4, <1>6, <2>1 DEF Waiting, BlockedOn
<1>9. \A d \in Conn : Readable(d)' => Carried(d)'
    <2> SUFFICES ASSUME NEW d \in Conn, Readable(d)' PROVE Carried(d)'
        OBVIOUS
    <2>1. Carried(d)
        BY <1>1, <1>6 DEF Waiting, Readable
    <2>2. \A t \in Callers : AtAnswer(t, d) <=> AtAnswer(t, d)'
        BY <1>1 DEF AtAnswer
    <2>3. \A i \in Nat : Asks(d, i)' => Asks(d, i) /\ unread'[d] = unread[d]
        BY <1>2, <1>4 DEF Asks
    <2> QED
        BY <1>1, <2>1, <2>2, <2>3 DEF Carried
<1> QED
    BY <1>7, <1>8, <1>9 DEF Waiting

LEMMA WaitingStep ==
    ASSUME Prompt, IInv, Waiting, [Next]_vars
    PROVE  Waiting'
<1> USE DEF IInv
<1>1. CASE UNCHANGED vars
    BY <1>1, WaitingQuiet DEF vars, CallersQuiet, callVars, kernelVars
<1>2. CASE \/ Initialize \/ AcceptLoop \/ AcceptFails \/ AcceptError
           \/ AcceptExchange \/ ShutdownCall \/ ShutdownServer \/ ShutdownJoin
    <2>1. UNCHANGED <<callVars, kernelVars>>
        BY <1>2 DEF Initialize, AcceptLoop, AcceptFails, AcceptError, AcceptExchange, ShutdownCall,
                    ShutdownServer, ShutdownJoin
    <2> QED
        BY <2>1, WaitingQuiet DEF CallersQuiet, callVars, kernelVars
<1>3. CASE AcceptCheck \/ AcceptCloseOld \/ ShutdownClient
    <2>1. UNCHANGED <<callVars, backlog, unread, inbound>>
        BY <1>3 DEF AcceptCheck, AcceptCloseOld, ShutdownClient
    <2>2. CallersQuiet
        BY <2>1 DEF CallersQuiet, callVars
    <2>3. UNCHANGED <<file, conn>> \/ \E fd \in Fd : Close(fd)
        BY <1>3 DEF AcceptCheck, AcceptCloseOld, ShutdownClient, TypeOK
    <2> QED
        BY <2>2, <2>3, WaitingQuiet, WaitingClose
<1>4. ASSUME NEW s \in Callers, NEW m \in {"BC_TO_RT", "RT_TO_BC"}, SendCall(s, m)
      PROVE  Waiting'
    <2>1. /\ at[s] = "out" /\ at' = [at EXCEPT ![s] = "load"]
          /\ request' = [request EXCEPT ![s] = sends']
          /\ UNCHANGED <<currentClientFd, waitsOn, file, conn, backlog, unread, inbound>>
        BY <1>4 DEF SendCall, kernelVars
    <2>2. CallersQuiet
        BY <2>1 DEF CallersQuiet, TypeOK
    <2> QED
        BY <2>1, <2>2, WaitingQuiet
<1>5. ASSUME NEW s \in Callers, LoadClient(s) \/ DropClient(s) PROVE Waiting'
    <2>1. /\ at[s] \in {"load", "writeFailed"}
          /\ \E a \in {"out", "write", "close"} : at' = [at EXCEPT ![s] = a]
          /\ \A t \in Callers : t # s => currentClientFd'[t] = currentClientFd[t]
          /\ UNCHANGED <<request, waitsOn, file, conn, backlog, unread, inbound>>
        BY <1>5 DEF LoadClient, DropClient, Return, kernelVars, TypeOK
    <2>2. CallersQuiet
        BY <2>1 DEF CallersQuiet, TypeOK
    <2> QED
        BY <2>1, <2>2, WaitingQuiet
<1>6. ASSUME NEW s \in Callers, WriteKills(s) PROVE Waiting'
    <2>1. UNCHANGED <<callVars, kernelVars>>
        BY <1>6 DEF WriteKills
    <2> QED
        BY <2>1, WaitingQuiet DEF CallersQuiet, callVars, kernelVars
<1>7. ASSUME NEW s \in Callers, CloseFailed(s) PROVE Waiting'
    <2>1. /\ at[s] = "close" /\ at' = [at EXCEPT ![s] = "out"]
          /\ Close(currentClientFd[s]) /\ currentClientFd[s] \in Fd
          /\ UNCHANGED <<request, waitsOn, currentClientFd, backlog, unread, inbound>>
        BY <1>7 DEF CloseFailed, Return, Serial
    <2>2. CallersQuiet
        BY <2>1 DEF CallersQuiet, TypeOK
    <2> QED
        BY <2>1, <2>2, WaitingClose
<1> QED
    BY <1>1, <1>2, <1>3, <1>4, <1>5, <1>6, <1>7, WaitingAccept, WaitingConnect, WaitingTake,
       WaitingDisconnect, WaitingWrite, WaitingWriteEnds, WaitingReadEnter, WaitingReadAnswer, WaitingReadNothing
    DEF Next, AcceptStep, SendStep, ShutdownStep

LEMMA AnswersStep ==
    ASSUME IInv, Waiting, AnswersMatch, [Next]_vars
    PROVE  AnswersMatch'
<1> USE DEF IInv, AnswersMatch
<1>1. CASE UNCHANGED <<answer, request>>
    BY <1>1
<1>2. ASSUME NEW s \in Callers, NEW m \in {"BC_TO_RT", "RT_TO_BC"}, SendCall(s, m)
      PROVE  AnswersMatch'
    BY <1>2 DEF SendCall, TypeOK
<1>3. ASSUME NEW s \in Callers, ReadAnswer(s) PROVE AnswersMatch'
    <2>1. answer'[s] = request[s]
        BY <1>3, WaitingReadAnswer
    <2>2. /\ \A t \in Callers : t # s => answer'[t] = answer[t]
          /\ request' = request
        BY <1>3 DEF ReadAnswer, TypeOK
    <2> QED
        BY <2>1, <2>2
<1>4. ASSUME NEW s \in Callers,
             \/ LoadClient(s) \/ WritePacket(s) \/ WriteBlocks(s) \/ WriteFails(s)
             \/ WriteKills(s) \/ DropClient(s) \/ CloseFailed(s) \/ ReadEnter(s)
             \/ ReadNothing(s)
      PROVE  AnswersMatch'
    BY <1>1, <1>4 DEF LoadClient, WritePacket, WriteBlocks, WriteFails, WriteKills, DropClient,
       CloseFailed, ReadEnter, ReadNothing, callVars
<1>5. CASE UNCHANGED vars
    BY <1>1, <1>5 DEF vars, callVars
<1>6. CASE \/ Initialize \/ AcceptStep \/ AcceptError \/ ShutdownCall \/ ShutdownStep
           \/ \E c \in Conn : Connect(c) \/ Take(c) \/ Disconnect(c)
    BY <1>1, <1>6 DEF Initialize, AcceptStep, AcceptLoop, Accept, AcceptFails, AcceptError, AcceptCheck,
       AcceptExchange, AcceptCloseOld, ShutdownCall, ShutdownStep, ShutdownServer,
       ShutdownClient, ShutdownJoin, Connect, Take, Disconnect, callVars
<1> QED
    BY <1>2, <1>3, <1>4, <1>5, <1>6 DEF Next, SendStep

(***************************************************************************)
(* If the simulator answers within SO_RCVTIMEO, an answer is given to the  *)
(* call that asked for it, for any number of callers and connections, and  *)
(* however often the simulator goes and comes back.                        *)
(***************************************************************************)
THEOREM AnswersGoToCaller ==
    ASSUME Prompt
    PROVE  Spec => []AnswersMatch
<1>1. Init => IInv /\ Waiting /\ AnswersMatch
    <2> SUFFICES ASSUME Init PROVE IInv /\ Waiting /\ AnswersMatch
        OBVIOUS
    <2>1. Waiting
        BY DEF Init, Waiting, Ends, BlockedOn, Carried, Asks, Attached
    <2>2. AnswersMatch
        BY DEF Init, AnswersMatch
    <2> QED
        BY <2>1, <2>2, InitIInv
<1>2. IInv /\ Waiting /\ AnswersMatch /\ [Next]_vars => (IInv /\ Waiting /\ AnswersMatch)'
    BY TypeStep, TableStep, SerialStep, OwnStep, WaitingStep, AnswersStep DEF IInv
<1> QED
    BY <1>1, <1>2, PTL DEF Spec
=============================================================================
