------------------------- MODULE ServerConnections -------------------------
(***************************************************************************)
(* The connection table of ptrim-server: the accept loop of main() and the *)
(* life of the manageConnection() thread it starts for every connection.   *)
(*                                                                         *)
(* The program shares, without any lock, the array socket_id[MAX_CLIENTS]  *)
(* between main, the connection threads and the notifier.  An entry is a   *)
(* descriptor, FREE (-2) or ENDED (-1: the thread has left, main is to     *)
(* join it).  A thread knows only its slot and reads socket_id[slot] anew  *)
(* at every use.  What a session does to the devices is the subject of     *)
(* ServerDevices; here a session is one stage.                             *)
(***************************************************************************)
EXTENDS Integers, FiniteSets

CONSTANTS
    MAX_CLIENTS,    \* size of the connection table (21 in ptrim-server.h)
    Conns,          \* connections clients open; each has its own thread
    FDs,            \* the descriptors accept() may return
    Disturbances,   \* what the environment does beyond a quiet run
    NoConn          \* "no connection"

(***************************************************************************)
(* accept_error  accept() fails (line 85)                                  *)
(* select_error  select() fails in a connection thread (lines 711, 751)    *)
(* lost_update   two unlocked numberClients++/-- overlap                   *)
(* late_drop     the thread of a turned-away client is still to start when *)
(*               the next connection is accepted                           *)
(***************************************************************************)
AllDisturbances == {"accept_error", "select_error", "lost_update", "late_drop"}

ASSUME ClientsAssumption == MAX_CLIENTS \in Nat \ {0}
ASSUME ConnsAssumption   == IsFiniteSet(Conns) /\ NoConn \notin Conns
ASSUME FDsAssumption     == FDs \subseteq Nat \ {0}
ASSUME DisturbAssumption == Disturbances \subseteq AllDisturbances

FREE  == -2
ENDED == -1
Slots == 0 .. MAX_CLIENTS - 1

VARIABLES
    socket_id,      \* the shared table
    client_thread,  \* the thread handle main keeps per slot
    joined,         \* threads that were joined
    numberClients,  \* clients that gave the right code
    pc,             \* stage of each connection and of its thread
    slot,           \* socket_data->socket: the slot the thread was given
    reg,            \* the value a thread read for its numberClients++/--
    fdTable,        \* kernel: which connection a descriptor belongs to
    mainPc, mainI   \* where main is, and its loop variable i

vars == <<socket_id, client_thread, joined, numberClients, pc, slot, reg,
          fdTable, mainPc, mainI>>
mainVars  == <<mainPc, mainI, client_thread, joined>>
countVars == <<numberClients, reg>>

Stages == {"idle", "backlog", "accepted", "spawned", "code", "incr", "session",
           "decr", "cleanup", "clear", "ended", "lostCode", "lostSession"}
Serving == {"code", "incr", "session", "decr", "cleanup"} \* uses its descriptor
Live    == Serving \cup {"spawned", "clear"}               \* thread exists
Lost    == {"lostCode", "lostSession"}                     \* left by return NULL
Counted == {"session", "decr", "lostSession"}              \* in numberClients

TypeOK ==
    /\ socket_id \in [Slots -> FDs \cup {FREE, ENDED}]
    /\ client_thread \in [Slots -> Conns \cup {NoConn}]
    /\ joined \subseteq Conns
    /\ numberClients \in Int
    /\ pc \in [Conns -> Stages]
    /\ slot \in [Conns -> Slots]
    /\ reg \in [Conns -> Int]
    /\ fdTable \in [FDs -> Conns \cup {NoConn}]
    /\ mainPc \in {"reap", "scan", "accept", "admit", "crashed"}
    /\ mainI \in 0 .. MAX_CLIENTS

Init ==
    /\ socket_id = [i \in Slots |-> FREE]
    /\ client_thread = [i \in Slots |-> NoConn]
    /\ joined = {}
    /\ numberClients = 0
    /\ pc = [c \in Conns |-> "idle"]
    /\ slot = [c \in Conns |-> 0]
    /\ reg = [c \in Conns |-> 0]
    /\ fdTable = [f \in FDs |-> NoConn]
    /\ mainPc = "reap"
    /\ mainI = 0

Goto(c, stage) == pc' = [pc EXCEPT ![c] = stage]
MainAt(where, i) == mainPc' = where /\ mainI' = i

\* close(fd); a descriptor that is no descriptor is EBADF and changes nothing.
Closed(fd) == [f \in FDs |-> IF f = fd THEN NoConn ELSE fdTable[f]]

-----------------------------------------------------------------------------
\* A client connects: the kernel queues the connection for accept().
Connect(c) ==
    /\ pc[c] = "idle"
    /\ Goto(c, "backlog")
    /\ UNCHANGED <<socket_id, slot, fdTable, countVars, mainVars>>

-----------------------------------------------------------------------------
(* main(): one pass joins at most one ended thread, the next accepts into  *)
(* the first free slot; each looks at the slots one by one.                *)

ReapSkip ==
    /\ mainPc = "reap"
    /\ mainI < MAX_CLIENTS
    /\ socket_id[mainI] # ENDED
    /\ MainAt("reap", mainI + 1)
    /\ UNCHANGED <<socket_id, client_thread, joined, pc, slot, fdTable, countVars>>

\* Slip: the loop variable is not set back to 0 for the second loop.
ReapDoneNoReset ==
    /\ mainPc = "reap"
    /\ mainI = MAX_CLIENTS
    /\ MainAt("scan", mainI + 1)
    /\ UNCHANGED <<socket_id, client_thread, joined, pc, slot, fdTable, countVars>>

ReapDone ==
    /\ mainPc = "reap"
    /\ mainI = MAX_CLIENTS
    /\ MainAt("scan", 0)
    /\ UNCHANGED <<socket_id, client_thread, joined, pc, slot, fdTable, countVars>>

\* The slot main finds ended and is about to pthread_join.
Joining == mainPc = "reap" /\ mainI < MAX_CLIENTS /\ socket_id[mainI] = ENDED

\* The slot's thread handle names a thread that exists and was not joined.
Joinable(i) == client_thread[i] # NoConn /\ client_thread[i] \notin joined

\* Slip: the joined slot is not marked free (line 78 left out).
ReapJoinKeepsSlot ==
    /\ Joining
    /\ Joinable(mainI)
    /\ pc[client_thread[mainI]] \in {"ended"} \cup Lost
    /\ joined' = joined \cup {client_thread[mainI]}
    /\ MainAt("reap", MAX_CLIENTS)
    /\ UNCHANGED <<socket_id, client_thread, pc, slot, fdTable, countVars>>

\* pthread_join returns once the thread has ended; the slot becomes free.
ReapJoin ==
    /\ Joining
    /\ Joinable(mainI)
    /\ pc[client_thread[mainI]] \in {"ended"} \cup Lost
    /\ joined' = joined \cup {client_thread[mainI]}
    /\ socket_id' = [socket_id EXCEPT ![mainI] = FREE]
    /\ MainAt("reap", MAX_CLIENTS)
    /\ UNCHANGED <<client_thread, pc, slot, fdTable, countVars>>

(***************************************************************************)
(* pthread_join on a handle never filled in, or joined before, is          *)
(* undefined: it may report an error and return, it may crash the server,  *)
(* and the handle's memory may by now belong to another thread, which main *)
(* then waits for.                                                         *)
(***************************************************************************)
ReapBadReturn ==
    /\ Joining
    /\ ~Joinable(mainI)
    /\ socket_id' = [socket_id EXCEPT ![mainI] = FREE]
    /\ MainAt("reap", MAX_CLIENTS)
    /\ UNCHANGED <<client_thread, joined, pc, slot, fdTable, countVars>>

ReapBadCrash ==
    /\ Joining
    /\ ~Joinable(mainI)
    /\ MainAt("crashed", mainI)
    /\ UNCHANGED <<socket_id, client_thread, joined, pc, slot, fdTable, countVars>>

ReapBadAlias(c) ==
    /\ Joining
    /\ ~Joinable(mainI)
    /\ pc[c] \in Live
    /\ c \notin joined
    /\ client_thread' = [client_thread EXCEPT ![mainI] = c]
    /\ UNCHANGED <<socket_id, joined, pc, slot, fdTable, countVars, mainPc, mainI>>

ScanSkip ==
    /\ mainPc = "scan"
    /\ mainI < MAX_CLIENTS
    /\ socket_id[mainI] # FREE
    /\ MainAt("scan", mainI + 1)
    /\ UNCHANGED <<socket_id, client_thread, joined, pc, slot, fdTable, countVars>>

ScanDone ==
    /\ mainPc = "scan"
    /\ mainI = MAX_CLIENTS
    /\ MainAt("reap", 0)
    /\ UNCHANGED <<socket_id, client_thread, joined, pc, slot, fdTable, countVars>>

\* A free slot: main calls accept() and blocks in it.
ScanFound ==
    /\ mainPc = "scan"
    /\ mainI < MAX_CLIENTS
    /\ socket_id[mainI] = FREE
    /\ MainAt("accept", mainI)
    /\ UNCHANGED <<socket_id, client_thread, joined, pc, slot, fdTable, countVars>>

\* The thread of a turned-away client that has not read socket_id[slot] yet.
DropPending == \E d \in Conns : pc[d] = "spawned" /\ socket_id[slot[d]] < 0

\* accept() returns a descriptor that is not in use.
Accept(c) ==
    /\ mainPc = "accept"
    /\ pc[c] = "backlog"
    /\ "late_drop" \in Disturbances \/ ~DropPending
    /\ \E f \in FDs :
          /\ fdTable[f] = NoConn
          /\ fdTable' = [fdTable EXCEPT ![f] = c]
          /\ socket_id' = [socket_id EXCEPT ![mainI] = f]
    /\ Goto(c, "accepted")
    /\ slot' = [slot EXCEPT ![c] = mainI]
    /\ MainAt("admit", mainI)
    /\ UNCHANGED <<client_thread, joined, countVars>>

\* accept() returns -1, which is stored in the slot and reads as ENDED.
AcceptError ==
    /\ mainPc = "accept"
    /\ "accept_error" \in Disturbances
    /\ socket_id' = [socket_id EXCEPT ![mainI] = ENDED]
    /\ MainAt("reap", 0)
    /\ UNCHANGED <<client_thread, joined, pc, slot, fdTable, countVars>>

\* Slip: the slot of a turned-away client keeps its descriptor (line 92 left out).
AdmitKeepsDropped(c) ==
    /\ mainPc = "admit"
    /\ pc[c] = "accepted"
    /\ IF numberClients >= MAX_CLIENTS - 1
       THEN fdTable' = Closed(socket_id[mainI])
       ELSE UNCHANGED fdTable
    /\ client_thread' = [client_thread EXCEPT ![mainI] = c]
    /\ Goto(c, "spawned")
    /\ MainAt("reap", 0)
    /\ UNCHANGED <<joined, slot, socket_id, countVars>>

\* At the limit the connection is closed and its slot freed; the thread is
\* started for the slot in either case.
Admit(c) ==
    /\ mainPc = "admit"
    /\ pc[c] = "accepted"
    /\ IF numberClients >= MAX_CLIENTS - 1
       THEN /\ fdTable' = Closed(socket_id[mainI])
            /\ socket_id' = [socket_id EXCEPT ![mainI] = FREE]
       ELSE UNCHANGED <<fdTable, socket_id>>
    /\ client_thread' = [client_thread EXCEPT ![mainI] = c]
    /\ Goto(c, "spawned")
    /\ MainAt("reap", 0)
    /\ UNCHANGED <<joined, slot, countVars>>

-----------------------------------------------------------------------------
(* manageConnection(): the thread of connection c.                         *)

\* The thread runs: without a descriptor it marks the slot ended and leaves.
Start(c) ==
    /\ pc[c] = "spawned"
    /\ IF socket_id[slot[c]] < 0
       THEN /\ socket_id' = [socket_id EXCEPT ![slot[c]] = ENDED]
            /\ Goto(c, "ended")
       ELSE /\ UNCHANGED socket_id
            /\ Goto(c, "code")
    /\ UNCHANGED <<slot, fdTable, countVars, mainVars>>

\* select() fails while waiting for the code: return, nothing is cleaned up.
CodeError(c) ==
    /\ pc[c] = "code"
    /\ "select_error" \in Disturbances
    /\ Goto(c, "lostCode")
    /\ UNCHANGED <<socket_id, slot, fdTable, countVars, mainVars>>

\* Slip: numberClients-- after the else, so that a refused client is counted out.
CodeRefusedCounts(c) ==
    /\ pc[c] = "code"
    /\ numberClients' = numberClients - 1
    /\ Goto(c, "cleanup")
    /\ UNCHANGED <<socket_id, slot, fdTable, reg, mainVars>>

\* No code within 5 seconds, or a wrong one.
CodeRefused(c) ==
    /\ pc[c] = "code"
    /\ Goto(c, "cleanup")
    /\ UNCHANGED <<socket_id, slot, fdTable, countVars, mainVars>>

\* A read-modify-write of numberClients by another thread is under way.
CountBusy == \E d \in Conns : pc[d] \in {"incr", "decr"}

\* numberClients is read for its update; the store is a step of its own.
LoadCount(c) ==
    /\ "lost_update" \in Disturbances \/ ~CountBusy
    /\ reg' = [reg EXCEPT ![c] = numberClients]

\* The right code: numberClients++ begins.
CodeAccepted(c) ==
    /\ pc[c] = "code"
    /\ LoadCount(c)
    /\ Goto(c, "incr")
    /\ UNCHANGED <<socket_id, slot, fdTable, numberClients, mainVars>>

\* numberClients++ completes; welcome, device list and the command loop.
Increment(c) ==
    /\ pc[c] = "incr"
    /\ numberClients' = reg[c] + 1
    /\ Goto(c, "session")
    /\ UNCHANGED <<socket_id, slot, fdTable, reg, mainVars>>

\* select() fails in the command loop: return, nothing is cleaned up.
SessionError(c) ==
    /\ pc[c] = "session"
    /\ "select_error" \in Disturbances
    /\ Goto(c, "lostSession")
    /\ UNCHANGED <<socket_id, slot, fdTable, countVars, mainVars>>

\* The client quits, hangs up, or is silent for 300 seconds.
SessionEnd(c) ==
    /\ pc[c] = "session"
    /\ LoadCount(c)
    /\ Goto(c, "decr")
    /\ UNCHANGED <<socket_id, slot, fdTable, numberClients, mainVars>>

Decrement(c) ==
    /\ pc[c] = "decr"
    /\ numberClients' = reg[c] - 1
    /\ Goto(c, "cleanup")
    /\ UNCHANGED <<socket_id, slot, fdTable, reg, mainVars>>

\* Slip: the thread frees its slot itself while it is still closing.
CloseFreesSlot(c) ==
    /\ pc[c] = "cleanup"
    /\ fdTable' = Closed(socket_id[slot[c]])
    /\ socket_id' = [socket_id EXCEPT ![slot[c]] = FREE]
    /\ Goto(c, "clear")
    /\ UNCHANGED <<slot, countVars, mainVars>>

\* Slip: lines 804 and 805 swapped, so that close() is given -1.
CloseAfterClear(c) ==
    /\ pc[c] = "cleanup"
    /\ socket_id' = [socket_id EXCEPT ![slot[c]] = ENDED]
    /\ fdTable' = Closed(ENDED)
    /\ Goto(c, "clear")
    /\ UNCHANGED <<slot, countVars, mainVars>>

\* The devices locked to the descriptor are released (see ServerDevices) and
\* the descriptor is closed: from here on the kernel may hand it out again.
Close(c) ==
    /\ pc[c] = "cleanup"
    /\ fdTable' = Closed(socket_id[slot[c]])
    /\ Goto(c, "clear")
    /\ UNCHANGED <<socket_id, slot, countVars, mainVars>>

\* Slip: the slot is not handed back (line 805 left out).
ClearForgotten(c) ==
    /\ pc[c] = "clear"
    /\ Goto(c, "ended")
    /\ UNCHANGED <<socket_id, slot, fdTable, countVars, mainVars>>

\* The slot is handed back to main.
Clear(c) ==
    /\ pc[c] = "clear"
    /\ socket_id' = [socket_id EXCEPT ![slot[c]] = ENDED]
    /\ Goto(c, "ended")
    /\ UNCHANGED <<slot, fdTable, countVars, mainVars>>

-----------------------------------------------------------------------------
Reap == ReapSkip \/ ReapDone \/ ReapJoin \/ ReapBadReturn \/ ReapBadCrash
        \/ \E c \in Conns : ReapBadAlias(c)
Scan == ScanSkip \/ ScanDone \/ ScanFound
Main == Reap \/ Scan \/ AcceptError \/ \E c \in Conns : Accept(c) \/ Admit(c)

Worker(c) ==
    \/ Start(c)
    \/ CodeError(c) \/ CodeRefused(c) \/ CodeAccepted(c) \/ Increment(c)
    \/ SessionError(c) \/ SessionEnd(c) \/ Decrement(c)
    \/ Close(c) \/ Clear(c)

\* A crash of main ends the process and every thread of it.
Next ==
    /\ mainPc # "crashed"
    /\ \/ Main
       \/ \E c \in Conns : Connect(c) \/ Worker(c)

Spec == Init /\ [][Next]_vars

(***************************************************************************)
(* Threads are scheduled and a queued connection is returned by accept();  *)
(* the 5 s timeout of select() bounds the stage "code".  A session may     *)
(* last forever (a client that keeps sending is never timed out), nobody   *)
(* is obliged to connect, and nothing has to fail.                         *)
(***************************************************************************)
Scheduled(c) ==
    \/ Start(c) \/ CodeRefused(c) \/ CodeAccepted(c) \/ Increment(c)
    \/ Decrement(c) \/ Close(c) \/ Clear(c)

FairSpec ==
    /\ Spec
    /\ WF_vars(Reap \/ Scan)
    /\ \A c \in Conns : WF_vars(Accept(c)) /\ WF_vars(Admit(c))
    /\ \A c \in Conns : WF_vars(Scheduled(c))

-----------------------------------------------------------------------------
(* What the table has to guarantee.                                        *)

\* No slot is worked on by two threads: main reuses a slot (lines 83-95) only
\* after the thread it gave it to has finished with socket_id[slot].
OneServer ==
    \A c, d \in Conns :
        (pc[c] \in Live /\ pc[d] \in Live /\ slot[c] = slot[d]) => c = d

\* Every read, send and close a thread does through socket_id[slot] reaches
\* the connection it was started for, although both the slot and the
\* descriptor number are recycled (lines 710-804).
OwnDescriptor ==
    \A c \in Conns : pc[c] \in Serving =>
        /\ socket_id[slot[c]] \in FDs
        /\ fdTable[socket_id[slot[c]]] = c

\* An open descriptor always has somebody who is going to close it: main
\* before it has started the thread, or the connection's own live thread.
\* The exception is a thread that left by the return of lines 712 and 753.
NoDescriptorLeak ==
    \A f \in FDs : fdTable[f] # NoConn =>
        /\ pc[fdTable[f]] \in {"accepted", "spawned"} \cup Serving \cup Lost
        /\ socket_id[slot[fdTable[f]]] = f

\* numberClients, against which newcomers are tested (line 90), is the number
\* of clients in a session, the sessions abandoned at line 753 included.
CountExact == numberClients = Cardinality({c \in Conns : pc[c] \in Counted})

\* pthread_join (line 77) is called only with the handle of a thread that was
\* started for this slot and has not been joined.
JoinSafe == Joining => Joinable(mainI) /\ slot[client_thread[mainI]] = mainI

\* A waiting connection is eventually accepted, to be served or turned away,
\* unless every slot of the table is held by a session or was abandoned.
Answered ==
    \A c \in Conns :
        pc[c] = "backlog" ~>
            \/ pc[c] # "backlog"
            \/ \A i \in Slots : \E d \in Conns :
                   slot[d] = i /\ pc[d] \in {"session"} \cup Lost

\* At most MAX_CLIENTS - 1 clients are in a session, the number the welcome
\* message announces (line 274), so that one slot is left to turn the next
\* client away with.
ClientLimit ==
    Cardinality({c \in Conns : pc[c] = "session"}) <= MAX_CLIENTS - 1

=============================================================================
