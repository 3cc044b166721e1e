---------------------- MODULE ServerConnectionsProofs ----------------------
(***************************************************************************)
(* Theorems about ServerConnections, for every size of the table, every    *)
(* set of connections and every set of descriptors.                        *)
(***************************************************************************)
EXTENDS ServerConnections, FiniteSetTheorems, TLAPS

\* The connection is the owner of the descriptor in its slot.
Owns(c) == /\ socket_id[slot[c]] \in FDs
           /\ fdTable[socket_id[slot[c]]] = c

\* The connection has a claim on its slot.
Held == {"accepted"} \cup Live \cup Lost

\* Main calls accept() and pthread_create() for a slot of the table.
MainAtSlot == mainPc \in {"accept", "admit"} => mainI \in Slots

\* Where main is says what the slot it looks at holds.
MainInv ==
    /\ mainPc = "accept" => socket_id[mainI] \in {FREE, ENDED}
    /\ \A c \in Conns : pc[c] = "accepted" => mainPc = "admit" /\ slot[c] = mainI

\* What the stage of a thread says of its slot.
StageInv ==
    \A c \in Conns :
        /\ pc[c] \in {"accepted"} \cup Serving \cup Lost => Owns(c)
        /\ pc[c] = "spawned" => Owns(c) \/ socket_id[slot[c]] \in {FREE, ENDED}
        /\ pc[c] = "clear" => socket_id[slot[c]] \in FDs

\* No two claims on one slot.
SlotInv ==
    \A c, d \in Conns :
        (pc[c] \in Held /\ pc[d] \in Held /\ slot[c] = slot[d]) => c = d

TableInv == TypeOK /\ MainAtSlot /\ MainInv /\ StageInv /\ SlotInv /\ NoDescriptorLeak

\* Turned-away clients' threads start before the next accept() returns.
PromptDrop == "late_drop" \notin Disturbances

USE DEF FREE, ENDED

\* The step of an inductive proof for the type of the state.
LEMMA TypeStep ==
    ASSUME TypeOK, MainAtSlot, [Next]_vars PROVE TypeOK' /\ MainAtSlot'
<1> DEFINE T == TypeOK /\ MainAtSlot
<1> USE ClientsAssumption DEF TypeOK, MainAtSlot, Slots, Stages, MainAt, Goto,
                              countVars, mainVars
<1>1. CASE Reap
  <2>1. CASE ReapJoin
    BY <2>1 DEF ReapJoin, Joining, Joinable
  <2>2. CASE ReapBadReturn
    BY <2>2 DEF ReapBadReturn, Joining
  <2>3. ASSUME NEW c \in Conns, ReapBadAlias(c) PROVE T'
    BY <2>3 DEF ReapBadAlias, Joining
  <2>4. CASE ReapSkip \/ ReapDone \/ ReapBadCrash
    BY <2>4 DEF ReapSkip, ReapDone, ReapBadCrash
  <2> QED
    BY <1>1, <2>1, <2>2, <2>3, <2>4 DEF Reap
<1>2. CASE Scan
  BY <1>2 DEF Scan, ScanSkip, ScanDone, ScanFound
<1>3. CASE AcceptError
  BY <1>3 DEF AcceptError
<1>4. ASSUME NEW c \in Conns, Accept(c) PROVE T'
  <2>1. PICK f \in FDs :
            /\ fdTable' = [fdTable EXCEPT ![f] = c]
            /\ socket_id' = [socket_id EXCEPT ![mainI] = f]
    BY <1>4 DEF Accept
  <2>2. mainI \in Slots /\ mainPc' = "admit" /\ mainI' = mainI
    BY <1>4 DEF Accept
  <2>3. fdTable' \in [FDs -> Conns \cup {NoConn}] /\ socket_id' \in [Slots -> FDs \cup {FREE, ENDED}]
    BY <2>1
  <2>4. pc' \in [Conns -> Stages] /\ slot' \in [Conns -> Slots]
    BY <1>4, <2>2 DEF Accept
  <2>5. UNCHANGED <<client_thread, joined, numberClients, reg>>
    BY <1>4 DEF Accept
  <2> QED
    BY <2>2, <2>3, <2>4, <2>5
<1>5. ASSUME NEW c \in Conns, Admit(c) PROVE T'
  BY <1>5 DEF Admit, Closed
<1>6. ASSUME NEW c \in Conns, Connect(c) PROVE T'
  BY <1>6 DEF Connect
<1>7. ASSUME NEW c \in Conns, Worker(c) PROVE T'
  <2>1. CASE Start(c) \/ Clear(c)
    BY <2>1 DEF Start, Clear
  <2>2. CASE CodeError(c) \/ CodeRefused(c) \/ SessionError(c)
    BY <2>2 DEF CodeError, CodeRefused, SessionError
  <2>3. CASE CodeAccepted(c) \/ SessionEnd(c)
    BY <2>3 DEF CodeAccepted, SessionEnd, LoadCount
  <2>4. CASE Increment(c) \/ Decrement(c)
    <3>1. reg[c] + 1 \in Int /\ reg[c] - 1 \in Int
      OBVIOUS
    <3>2. numberClients' \in Int
      BY <2>4, <3>1 DEF Increment, Decrement
    <3>3. /\ pc' \in [Conns -> Stages]
          /\ UNCHANGED <<socket_id, client_thread, joined, slot, reg, fdTable, mainPc, mainI>>
      BY <2>4 DEF Increment, Decrement
    <3> QED
      BY <3>2, <3>3
  <2>5. CASE Close(c)
    BY <2>5 DEF Close, Closed
  <2> QED
    BY <1>7, <2>1, <2>2, <2>3, <2>4, <2>5 DEF Worker
<1>8. CASE UNCHANGED vars
  BY <1>8 DEF vars
<1> QED
  BY <1>1, <1>2, <1>3, <1>4, <1>5, <1>6, <1>7, <1>8 DEF Next, Main

\* Every variable keeps its type: in particular the slot a thread was given
\* and the slots main looks at are inside socket_id (lines 75-99, 684-805).
THEOREM TypeCorrect == Spec => []TypeOK
<1>1. Init => TypeOK /\ MainAtSlot
  BY ClientsAssumption DEF Init, TypeOK, MainAtSlot, Slots, Stages
<1>2. TypeOK /\ MainAtSlot /\ [Next]_vars => TypeOK' /\ MainAtSlot'
  BY TypeStep
<1> QED
  BY <1>1, <1>2, PTL DEF Spec


-----------------------------------------------------------------------------
\* The table invariant but for the types.
Claims == MainInv /\ StageInv /\ SlotInv /\ NoDescriptorLeak

\* A slot that holds no descriptor is rewritten with FREE or ENDED.
LEMMA MarkStep ==
    ASSUME TableInv, TypeOK', NEW i \in Slots, socket_id[i] \in {FREE, ENDED},
           NEW v \in {FREE, ENDED},
           socket_id' = [socket_id EXCEPT ![i] = v],
           UNCHANGED <<pc, slot, fdTable>>,
           mainPc \in {"reap", "accept"}, mainPc' = "reap"
    PROVE  Claims'
<1> USE FDsAssumption DEF TableInv, TypeOK
<1>1. \A f \in FDs : f # -2 /\ f # -1
  OBVIOUS
<1>2. \A j \in Slots : socket_id'[j] = IF j = i THEN v ELSE socket_id[j]
  OBVIOUS
<1>3. \A c \in Conns : pc[c] # "accepted"
  BY DEF MainInv
<1>4. MainInv'
  BY <1>3 DEF MainInv
<1>5. StageInv'
  BY <1>1, <1>2 DEF StageInv, Owns
<1>6. SlotInv'
  BY DEF SlotInv
<1>7. NoDescriptorLeak'
  BY <1>1, <1>2 DEF NoDescriptorLeak
<1> QED
  BY <1>4, <1>5, <1>6, <1>7 DEF Claims

\* A connection moves on without touching the table.
LEMMA MoveStep ==
    ASSUME TableInv, TypeOK', NEW c \in Conns, NEW st \in Stages,
           pc' = [pc EXCEPT ![c] = st],
           \/ pc[c] = "idle" /\ st = "backlog"
           \/ pc[c] \in Serving \cup {"spawned"} /\ Owns(c) /\ st \in Serving \cup Lost,
           UNCHANGED <<socket_id, slot, fdTable, mainPc, mainI>>
    PROVE  Claims'
<1> USE DEF TableInv, TypeOK, Serving, Live, Lost
<1>1. \A d \in Conns : pc'[d] = IF d = c THEN st ELSE pc[d]
  OBVIOUS
<1>4. MainInv'
  BY <1>1 DEF MainInv
<1>5. StageInv'
  BY <1>1 DEF StageInv, Owns
<1>6. SlotInv'
  BY <1>1 DEF SlotInv, Held
<1>7. NoDescriptorLeak'
  <2> SUFFICES ASSUME NEW f \in FDs, fdTable[f] # NoConn
               PROVE  /\ pc'[fdTable[f]] \in {"accepted", "spawned"} \cup Serving \cup Lost
                      /\ socket_id[slot[fdTable[f]]] = f
    BY DEF NoDescriptorLeak
  <2> QED
    BY <1>1 DEF NoDescriptorLeak
<1> QED
  BY <1>4, <1>5, <1>6, <1>7 DEF Claims

\* accept() fills a slot nobody claims with a descriptor nobody uses.
LEMMA AcceptStep ==
    ASSUME TableInv, TypeOK', PromptDrop, NEW c \in Conns, Accept(c)
    PROVE  Claims'
<1> USE FDsAssumption, ConnsAssumption
<1>1. PICK f \in FDs :
          /\ fdTable[f] = NoConn
          /\ fdTable' = [fdTable EXCEPT ![f] = c]
          /\ socket_id' = [socket_id EXCEPT ![mainI] = f]
  BY DEF Accept
<1>2. /\ mainPc = "accept" /\ mainI \in Slots /\ socket_id[mainI] \in {FREE, ENDED}
      /\ mainPc' = "admit" /\ mainI' = mainI /\ pc[c] = "backlog"
  BY DEF Accept, TableInv, MainAtSlot, MainInv, MainAt
<1>3. /\ \A d \in Conns : pc'[d] = IF d = c THEN "accepted" ELSE pc[d]
      /\ \A d \in Conns : slot'[d] = IF d = c THEN mainI ELSE slot[d]
  BY DEF Accept, Goto, TableInv, TypeOK
<1>4. /\ \A i \in Slots : socket_id'[i] = IF i = mainI THEN f ELSE socket_id[i]
      /\ \A g \in FDs : fdTable'[g] = IF g = f THEN c ELSE fdTable[g]
  BY <1>1 DEF TableInv, TypeOK
<1>5. \A d \in Conns : pc[d] \in Held => slot[d] # mainI
  <2> SUFFICES ASSUME NEW d \in Conns, pc[d] \in Held, slot[d] = mainI PROVE FALSE
    OBVIOUS
  <2>1. pc[d] # "spawned"
    BY <1>2 DEF Accept, PromptDrop, DropPending
  <2>2. pc[d] # "accepted"
    BY <1>2 DEF TableInv, MainInv
  <2>3. socket_id[slot[d]] \in FDs
    BY <2>1, <2>2 DEF TableInv, StageInv, Owns, Held, Live, Serving, Lost
  <2> QED
    BY <1>2, <2>3
<1>6. \A g \in FDs : fdTable[g] # NoConn =>
          /\ fdTable[g] \in Conns /\ fdTable[g] # c /\ pc[fdTable[g]] \in Held
          /\ socket_id[slot[fdTable[g]]] = g
  BY <1>2 DEF TableInv, TypeOK, NoDescriptorLeak, Held, Live, Serving, Lost
<1>7. MainInv'
  BY <1>2, <1>3 DEF TableInv, MainInv
<1>8. StageInv'
  <2> SUFFICES ASSUME NEW d \in Conns
               PROVE  /\ pc'[d] \in {"accepted"} \cup Serving \cup Lost => Owns(d)'
                      /\ pc'[d] = "spawned" => Owns(d)' \/ socket_id'[slot'[d]] \in {FREE, ENDED}
                      /\ pc'[d] = "clear" => socket_id'[slot'[d]] \in FDs
    BY DEF StageInv
  <2>1. CASE d = c
    BY <1>1, <1>2, <1>3, <1>4, <2>1 DEF Owns, Serving, Lost
  <2>2. CASE d # c
    <3>1. slot[d] \in Slots
      BY DEF TableInv, TypeOK
    <3>2. CASE pc[d] \in Held
      BY <1>1, <1>3, <1>4, <1>5, <2>2, <3>1, <3>2 DEF TableInv, StageInv, Owns
    <3>3. CASE pc[d] \notin Held
      BY <1>3, <2>2, <3>3 DEF Held, Live, Serving, Lost
    <3> QED
      BY <3>2, <3>3
  <2> QED
    BY <2>1, <2>2
<1>9. SlotInv'
  BY <1>3, <1>5 DEF TableInv, SlotInv
<1>10. NoDescriptorLeak'
  <2> SUFFICES ASSUME NEW g \in FDs, fdTable'[g] # NoConn
               PROVE  /\ pc'[fdTable'[g]] \in {"accepted", "spawned"} \cup Serving \cup Lost
                      /\ socket_id'[slot'[fdTable'[g]]] = g
    BY DEF NoDescriptorLeak
  <2>1. CASE g = f
    BY <1>2, <1>3, <1>4, <2>1
  <2>2. CASE g # f
    <3>1. fdTable'[g] = fdTable[g] /\ fdTable[g] # NoConn
      BY <1>4, <2>2
    <3>2. slot[fdTable[g]] \in Slots /\ slot[fdTable[g]] # mainI
      BY <1>5, <1>6, <3>1 DEF TableInv, TypeOK
    <3> QED
      BY <1>3, <1>4, <1>6, <3>1, <3>2 DEF TableInv, NoDescriptorLeak
  <2> QED
    BY <2>1, <2>2
<1> QED
  BY <1>7, <1>8, <1>9, <1>10 DEF Claims

\* The accepted connection gets its thread, or is closed and its slot freed.
LEMMA AdmitStep ==
    ASSUME TableInv, TypeOK', NEW c \in Conns, Admit(c)
    PROVE  Claims'
<1> USE FDsAssumption, ConnsAssumption
<1>1. /\ mainI \in Slots /\ slot[c] = mainI /\ mainPc' = "reap" /\ slot' = slot
      /\ pc[c] = "accepted" /\ socket_id[mainI] \in FDs /\ fdTable[socket_id[mainI]] = c
  BY DEF Admit, TableInv, MainAtSlot, MainInv, MainAt, StageInv, Owns
<1>2. \A d \in Conns : pc'[d] = IF d = c THEN "spawned" ELSE pc[d]
  BY DEF Admit, Goto, TableInv, TypeOK
<1>3. \A d \in Conns : pc[d] = "accepted" => d = c
  BY <1>1 DEF TableInv, MainInv, SlotInv, Held
<1>4. \A d \in Conns : pc[d] \in Held /\ d # c => slot[d] # mainI
  BY <1>1 DEF TableInv, SlotInv, Held
<1>5. MainInv'
  BY <1>1, <1>2, <1>3 DEF MainInv
<1>6. SlotInv'
  BY <1>1, <1>2 DEF TableInv, SlotInv, Held, Live
<1>7. CASE UNCHANGED <<fdTable, socket_id>>
  <2>1. StageInv'
    BY <1>1, <1>2, <1>7 DEF TableInv, StageInv, Owns, Serving, Lost
  <2>2. NoDescriptorLeak'
    BY <1>1, <1>2, <1>7 DEF TableInv, TypeOK, NoDescriptorLeak
  <2> QED
    BY <1>5, <1>6, <2>1, <2>2 DEF Claims
<1>8. CASE /\ fdTable' = Closed(socket_id[mainI])
           /\ socket_id' = [socket_id EXCEPT ![mainI] = FREE]
  <2>1. /\ \A i \in Slots : socket_id'[i] = IF i = mainI THEN FREE ELSE socket_id[i]
        /\ \A g \in FDs : fdTable'[g] = IF g = socket_id[mainI] THEN NoConn ELSE fdTable[g]
    BY <1>8 DEF TableInv, TypeOK, Closed
  <2>2. StageInv'
    <3> SUFFICES ASSUME NEW d \in Conns
                 PROVE  /\ pc'[d] \in {"accepted"} \cup Serving \cup Lost => Owns(d)'
                        /\ pc'[d] = "spawned" => Owns(d)' \/ socket_id'[slot'[d]] \in {FREE, ENDED}
                        /\ pc'[d] = "clear" => socket_id'[slot'[d]] \in FDs
      BY DEF StageInv
    <3>1. CASE d = c
      BY <1>1, <1>2, <2>1, <3>1 DEF Serving, Lost
    <3>2. CASE d # c
      <4>1. slot[d] \in Slots
        BY DEF TableInv, TypeOK
      <4>2. CASE pc[d] \in Held
        <5>1. /\ slot[d] # mainI /\ socket_id'[slot'[d]] = socket_id[slot[d]] /\ pc'[d] = pc[d]
          BY <1>1, <1>2, <1>4, <2>1, <3>2, <4>1, <4>2
        <5>2. Owns(d) => Owns(d)'
          BY <1>1, <2>1, <3>2, <5>1 DEF Owns
        <5> QED
          BY <5>1, <5>2 DEF TableInv, StageInv
      <4>3. CASE pc[d] \notin Held
        BY <1>2, <3>2, <4>3 DEF Held, Live, Serving, Lost
      <4> QED
        BY <4>2, <4>3
    <3> QED
      BY <3>1, <3>2
  <2>3. NoDescriptorLeak'
    <3> SUFFICES ASSUME NEW g \in FDs, fdTable'[g] # NoConn
                 PROVE  /\ pc'[fdTable'[g]] \in {"accepted", "spawned"} \cup Serving \cup Lost
                        /\ socket_id'[slot'[fdTable'[g]]] = g
      BY DEF NoDescriptorLeak
    <3>1. /\ fdTable'[g] = fdTable[g] /\ g # socket_id[mainI]
          /\ fdTable[g] \in Conns /\ socket_id[slot[fdTable[g]]] = g
          /\ pc[fdTable[g]] \in {"accepted", "spawned"} \cup Serving \cup Lost
      BY <2>1 DEF TableInv, TypeOK, NoDescriptorLeak
    <3>2. slot[fdTable[g]] \in Slots /\ slot[fdTable[g]] # mainI
      BY <3>1 DEF TableInv, TypeOK
    <3> QED
      BY <1>1, <1>2, <2>1, <3>1, <3>2
  <2> QED
    BY <1>5, <1>6, <2>2, <2>3 DEF Claims
<1> QED
  BY <1>7, <1>8 DEF Admit

\* A thread without a descriptor marks its slot and leaves.
LEMMA TurnedAwayStep ==
    ASSUME TableInv, TypeOK', NEW c \in Conns, pc[c] = "spawned",
           socket_id[slot[c]] \in {FREE, ENDED},
           socket_id' = [socket_id EXCEPT ![slot[c]] = ENDED],
           pc' = [pc EXCEPT ![c] = "ended"],
           UNCHANGED <<slot, fdTable, mainPc, mainI>>
    PROVE  Claims'
<1> USE FDsAssumption, ConnsAssumption DEF TableInv, TypeOK
<1>1. /\ \A i \in Slots : socket_id'[i] = IF i = slot[c] THEN ENDED ELSE socket_id[i]
      /\ \A d \in Conns : pc'[d] = IF d = c THEN "ended" ELSE pc[d]
      /\ slot[c] \in Slots
  OBVIOUS
<1>2. \A d \in Conns : pc[d] \in Held /\ d # c => slot[d] # slot[c]
  BY DEF SlotInv, Held, Live
<1>3. MainInv'
  BY <1>1, <1>2 DEF MainInv, MainAtSlot, Held
<1>4. StageInv'
  BY <1>1, <1>2 DEF StageInv, Owns, Held, Live, Serving, Lost
<1>5. SlotInv'
  BY <1>1 DEF SlotInv, Held, Live, Serving, Lost
<1>6. NoDescriptorLeak'
  BY <1>1 DEF NoDescriptorLeak
<1> QED
  BY <1>3, <1>4, <1>5, <1>6 DEF Claims

\* close(): only the thread's own descriptor goes.
LEMMA CloseStep ==
    ASSUME TableInv, TypeOK', NEW c \in Conns, Close(c)
    PROVE  Claims'
<1> USE FDsAssumption, ConnsAssumption DEF TableInv, TypeOK, Close, Goto, mainVars
<1>1. /\ \A g \in FDs : fdTable'[g] = IF g = socket_id[slot[c]] THEN NoConn ELSE fdTable[g]
      /\ \A d \in Conns : pc'[d] = IF d = c THEN "clear" ELSE pc[d]
      /\ slot[c] \in Slots /\ pc[c] = "cleanup"
  BY DEF Closed
<1>2. \A d \in Conns : pc[d] \in Held /\ d # c => slot[d] # slot[c]
  BY DEF SlotInv, Held, Live, Serving
<1>3. Owns(c)
  BY <1>1 DEF StageInv, Serving
<1>4. MainInv'
  BY <1>1 DEF MainInv
<1>5. StageInv'
  <2> SUFFICES ASSUME NEW d \in Conns
               PROVE  /\ pc'[d] \in {"accepted"} \cup Serving \cup Lost => Owns(d)'
                      /\ pc'[d] = "spawned" => Owns(d)' \/ socket_id'[slot'[d]] \in {FREE, ENDED}
                      /\ pc'[d] = "clear" => socket_id'[slot'[d]] \in FDs
    BY DEF StageInv
  <2>1. CASE d = c
    BY <1>1, <1>3, <2>1 DEF Owns, Serving, Lost
  <2>2. CASE d # c
    <3>1. Owns(d) => Owns(d)'
      BY <1>1, <1>3, <2>2 DEF Owns
    <3> QED
      BY <1>1, <2>2, <3>1 DEF StageInv
  <2> QED
    BY <2>1, <2>2
<1>6. SlotInv'
  BY <1>1 DEF SlotInv, Held, Live, Serving, Lost
<1>7. NoDescriptorLeak'
  <2> SUFFICES ASSUME NEW g \in FDs, fdTable'[g] # NoConn
               PROVE  /\ pc'[fdTable'[g]] \in {"accepted", "spawned"} \cup Serving \cup Lost
                      /\ socket_id'[slot'[fdTable'[g]]] = g
    BY DEF NoDescriptorLeak
  <2>1. fdTable'[g] = fdTable[g] /\ g # socket_id[slot[c]] /\ fdTable[g] \in Conns
    BY <1>1
  <2>2. /\ pc[fdTable[g]] \in {"accepted", "spawned"} \cup Serving \cup Lost
        /\ socket_id[slot[fdTable[g]]] = g
    BY <2>1 DEF NoDescriptorLeak
  <2>3. fdTable[g] # c
    BY <2>1, <2>2
  <2> QED
    BY <1>1, <2>1, <2>2, <2>3
<1> QED
  BY <1>4, <1>5, <1>6, <1>7 DEF Claims

\* The slot is handed back: nobody else had a claim on it.
LEMMA ClearStep ==
    ASSUME TableInv, TypeOK', NEW c \in Conns, Clear(c)
    PROVE  Claims'
<1> USE FDsAssumption, ConnsAssumption DEF TableInv, TypeOK, Clear, Goto, mainVars
<1>1. /\ \A i \in Slots : socket_id'[i] = IF i = slot[c] THEN ENDED ELSE socket_id[i]
      /\ \A d \in Conns : pc'[d] = IF d = c THEN "ended" ELSE pc[d]
      /\ slot[c] \in Slots /\ pc[c] = "clear"
  OBVIOUS
<1>2. \A d \in Conns : pc[d] \in Held /\ d # c => slot[d] # slot[c]
  BY DEF SlotInv, Held, Live
<1>3. MainInv'
  BY <1>1 DEF MainInv, MainAtSlot
<1>4. StageInv'
  BY <1>1, <1>2 DEF StageInv, Owns, Held, Live, Serving, Lost
<1>5. SlotInv'
  BY <1>1 DEF SlotInv, Held, Live, Serving, Lost
<1>6. NoDescriptorLeak'
  BY <1>1, <1>2 DEF NoDescriptorLeak, Held, Live, Serving, Lost
<1> QED
  BY <1>3, <1>4, <1>5, <1>6 DEF Claims

\* Every step keeps the claims on the table in order.
LEMMA TableStep ==
    ASSUME TableInv, PromptDrop, [Next]_vars PROVE TableInv'
<1>1. TypeOK' /\ MainAtSlot'
  BY TypeStep DEF TableInv
<1> SUFFICES Claims'
  BY <1>1 DEF Claims, TableInv
<1>2. CASE Reap
  <2>1. CASE ReapJoin \/ ReapBadReturn
    <3>1. mainI \in Slots /\ socket_id[mainI] = ENDED
      BY <2>1, ClientsAssumption DEF ReapJoin, ReapBadReturn, Joining, TableInv, TypeOK, Slots
    <3>2. /\ socket_id' = [socket_id EXCEPT ![mainI] = FREE]
          /\ UNCHANGED <<pc, slot, fdTable>> /\ mainPc = "reap" /\ mainPc' = "reap"
      BY <2>1 DEF ReapJoin, ReapBadReturn, Joining, MainAt
    <3> QED
      BY <1>1, <3>1, <3>2, MarkStep
  <2>2. CASE ReapSkip \/ ReapDone \/ ReapBadCrash \/ \E c \in Conns : ReapBadAlias(c)
    <3>1. /\ UNCHANGED <<socket_id, pc, slot, fdTable>>
          /\ mainPc = "reap" /\ mainPc' \in {"reap", "scan", "crashed"}
      BY <2>2 DEF ReapSkip, ReapDone, ReapBadCrash, ReapBadAlias, Joining, MainAt
    <3> QED
      BY <3>1 DEF TableInv, Claims, MainInv, StageInv, Owns, SlotInv, NoDescriptorLeak
  <2> QED
    BY <1>2, <2>1, <2>2 DEF Reap
<1>3. CASE Scan
  <2>1. /\ UNCHANGED <<socket_id, pc, slot, fdTable>>
        /\ mainPc = "scan" /\ mainPc' \in {"reap", "scan", "accept"}
        /\ mainPc' = "accept" => socket_id[mainI'] = FREE
    BY <1>3 DEF Scan, ScanSkip, ScanDone, ScanFound, MainAt
  <2> QED
    BY <2>1 DEF TableInv, Claims, MainInv, StageInv, Owns, SlotInv, NoDescriptorLeak
<1>4. CASE AcceptError
  <2>1. mainI \in Slots /\ socket_id[mainI] \in {FREE, ENDED}
    BY <1>4 DEF AcceptError, TableInv, MainAtSlot, MainInv
  <2>2. /\ socket_id' = [socket_id EXCEPT ![mainI] = ENDED]
        /\ UNCHANGED <<pc, slot, fdTable>> /\ mainPc = "accept" /\ mainPc' = "reap"
    BY <1>4 DEF AcceptError, MainAt
  <2> QED
    BY <1>1, <2>1, <2>2, MarkStep
<1>5. ASSUME NEW c \in Conns, Accept(c) \/ Admit(c) PROVE Claims'
  BY <1>1, <1>5, AcceptStep, AdmitStep
<1>6. ASSUME NEW c \in Conns, Connect(c) PROVE Claims'
  <2>1. /\ pc[c] = "idle" /\ pc' = [pc EXCEPT ![c] = "backlog"]
        /\ UNCHANGED <<socket_id, slot, fdTable, mainPc, mainI>>
    BY <1>6 DEF Connect, Goto, mainVars
  <2> QED
    BY <1>1, <2>1, MoveStep DEF Stages
<1>7. ASSUME NEW c \in Conns, Worker(c) PROVE Claims'
  <2>1. CASE Start(c)
    <3>1. pc[c] = "spawned" /\ UNCHANGED <<slot, fdTable, mainPc, mainI>>
      BY <2>1 DEF Start, mainVars
    <3>2. Owns(c) \/ socket_id[slot[c]] \in {FREE, ENDED}
      BY <3>1 DEF TableInv, StageInv
    <3>3. CASE socket_id[slot[c]] \in {FREE, ENDED}
      <4> socket_id[slot[c]] < 0
        BY <3>3
      <4>1. /\ socket_id' = [socket_id EXCEPT ![slot[c]] = ENDED]
            /\ pc' = [pc EXCEPT ![c] = "ended"]
        BY <2>1 DEF Start, Goto
      <4> QED
        BY <1>1, <3>1, <3>3, <4>1, TurnedAwayStep
    <3>4. CASE Owns(c)
      <4>a. socket_id[slot[c]] \in Nat
        BY <3>4, FDsAssumption DEF Owns
      <4>b. \A n \in Nat : ~(n < 0)
        OBVIOUS
      <4> ~(socket_id[slot[c]] < 0)
        BY <4>a, <4>b
      <4>1. socket_id' = socket_id /\ pc' = [pc EXCEPT ![c] = "code"]
        BY <2>1 DEF Start, Goto
      <4> QED
        BY <1>1, <3>1, <3>4, <4>1, MoveStep DEF Stages, Serving
    <3> QED
      BY <3>2, <3>3, <3>4
  <2>2. CASE CodeError(c) \/ CodeRefused(c) \/ CodeAccepted(c) \/ Increment(c)
             \/ SessionError(c) \/ SessionEnd(c) \/ Decrement(c)
    <3>1. PICK st \in Serving \cup Lost : pc' = [pc EXCEPT ![c] = st]
      BY <2>2 DEF CodeError, CodeRefused, CodeAccepted, Increment, SessionError,
                  SessionEnd, Decrement, Goto, Serving, Lost
    <3>2. pc[c] \in Serving /\ UNCHANGED <<socket_id, slot, fdTable, mainPc, mainI>>
      BY <2>2 DEF CodeError, CodeRefused, CodeAccepted, Increment, SessionError,
                  SessionEnd, Decrement, Serving, mainVars
    <3>3. Owns(c)
      BY <3>2 DEF TableInv, StageInv
    <3>4. st \in Stages
      BY DEF Stages, Serving, Lost
    <3> QED
      BY <1>1, <3>1, <3>2, <3>3, <3>4, MoveStep
  <2> QED
    BY <1>1, <1>7, <2>1, <2>2, CloseStep, ClearStep DEF Worker
<1>8. CASE UNCHANGED vars
  BY <1>8 DEF vars, TableInv, Claims, MainInv, StageInv, Owns, SlotInv, NoDescriptorLeak
<1> QED
  BY <1>2, <1>3, <1>4, <1>5, <1>6, <1>7, <1>8 DEF Next, Main

LEMMA TableInit == Init => TableInv
<1> SUFFICES ASSUME Init PROVE TableInv
  OBVIOUS
<1> QED
  BY ClientsAssumption, ConnsAssumption
     DEF Init, TableInv, TypeOK, MainAtSlot, MainInv, StageInv, SlotInv,
         NoDescriptorLeak, Slots, Stages, Held, Live, Serving, Lost

\* A slot is never worked on by two threads (lines 83-95 and 684-805), provided
\* a turned-away client's thread starts before the next accept() returns.
THEOREM Isolation == ASSUME PromptDrop PROVE Spec => []OneServer
<1>1. TableInv => OneServer
  BY DEF TableInv, SlotInv, OneServer, Held
<1> QED
  BY <1>1, TableInit, TableStep, PTL DEF Spec

\* Whatever descriptors accept() hands out, a thread's reads, sends and close
\* reach its own connection (lines 710-804), under the same proviso.
THEOREM DescriptorOwnership == ASSUME PromptDrop PROVE Spec => []OwnDescriptor
<1>1. TableInv => OwnDescriptor
  BY DEF TableInv, StageInv, Owns, OwnDescriptor
<1> QED
  BY <1>1, TableInit, TableStep, PTL DEF Spec

\* Every open descriptor is in the slot of a connection that main or a thread
\* is still to close, but for those abandoned at lines 712 and 753.
THEOREM DescriptorsAccounted == ASSUME PromptDrop PROVE Spec => []NoDescriptorLeak
<1>1. TableInv => NoDescriptorLeak
  BY DEF TableInv
<1> QED
  BY <1>1, TableInit, TableStep, PTL DEF Spec

-----------------------------------------------------------------------------
\* numberClients++ and numberClients-- of two threads do not overlap.
AtomicCount == "lost_update" \notin Disturbances

InSession == {c \in Conns : pc[c] \in Counted}

\* While a thread is between its read and its store, numberClients stands still.
CountInv ==
    /\ TypeOK /\ MainAtSlot
    /\ numberClients = Cardinality(InSession)
    /\ \A c \in Conns : pc[c] \in {"incr", "decr"} => reg[c] = numberClients
    /\ \A c, d \in Conns :
           pc[c] \in {"incr", "decr"} /\ pc[d] \in {"incr", "decr"} => c = d

\* A step that changes neither a counted stage nor the counter.
LEMMA CountStutter ==
    ASSUME CountInv, TypeOK', MainAtSlot', UNCHANGED <<numberClients, reg>>,
           \A c \in Conns : \/ pc'[c] = pc[c]
                            \/ /\ pc[c] \in Counted <=> pc'[c] \in Counted
                               /\ pc'[c] \notin {"incr", "decr"}
    PROVE  CountInv'
<1>1. InSession' = InSession
  BY DEF InSession
<1> QED
  BY <1>1 DEF CountInv

\* Every step keeps the count.
LEMMA CountStep ==
    ASSUME CountInv, AtomicCount, [Next]_vars PROVE CountInv'
<1>1. TypeOK' /\ MainAtSlot'
  BY TypeStep DEF CountInv
<1>2. IsFiniteSet(InSession)
  BY ConnsAssumption, FS_Subset DEF InSession
<1>3. CASE Main
  <2>1. /\ UNCHANGED <<numberClients, reg>>
        /\ \/ pc' = pc
           \/ \E d \in Conns : \/ pc[d] = "backlog" /\ pc' = [pc EXCEPT ![d] = "accepted"]
                               \/ pc[d] = "accepted" /\ pc' = [pc EXCEPT ![d] = "spawned"]
    BY <1>3 DEF Main, Reap, ReapSkip, ReapDone, ReapJoin, ReapBadReturn, ReapBadCrash,
                ReapBadAlias, Scan, ScanSkip, ScanDone, ScanFound, AcceptError, Accept,
                Admit, Goto, countVars
  <2> QED
    BY <1>1, <2>1, CountStutter DEF CountInv, TypeOK, Counted
<1>4. ASSUME NEW c \in Conns, Connect(c) PROVE CountInv'
  <2>1. /\ UNCHANGED <<numberClients, reg>>
        /\ pc[c] = "idle" /\ pc' = [pc EXCEPT ![c] = "backlog"]
    BY <1>4 DEF Connect, Goto, countVars
  <2> QED
    BY <1>1, <2>1, CountStutter DEF CountInv, TypeOK, Counted
<1>5. ASSUME NEW c \in Conns, Worker(c) PROVE CountInv'
  <2>1. CASE Start(c) \/ CodeError(c) \/ CodeRefused(c) \/ SessionError(c)
             \/ Close(c) \/ Clear(c)
    <3>1. UNCHANGED <<numberClients, reg>>
      BY <2>1 DEF Start, CodeError, CodeRefused, SessionError, Close, Clear, countVars
    <3>2. \/ pc[c] = "spawned" /\ pc' = [pc EXCEPT ![c] = "ended"]
          \/ pc[c] = "spawned" /\ pc' = [pc EXCEPT ![c] = "code"]
          \/ pc[c] = "code" /\ pc' = [pc EXCEPT ![c] = "lostCode"]
          \/ pc[c] = "code" /\ pc' = [pc EXCEPT ![c] = "cleanup"]
          \/ pc[c] = "session" /\ pc' = [pc EXCEPT ![c] = "lostSession"]
          \/ pc[c] = "cleanup" /\ pc' = [pc EXCEPT ![c] = "clear"]
          \/ pc[c] = "clear" /\ pc' = [pc EXCEPT ![c] = "ended"]
      BY <2>1 DEF Start, CodeError, CodeRefused, SessionError, Close, Clear, Goto
    <3> QED
      BY <1>1, <3>1, <3>2, CountStutter DEF CountInv, TypeOK, Counted
  <2>2. CASE CodeAccepted(c) \/ SessionEnd(c)
    <3>1. /\ \A d \in Conns : pc[d] \notin {"incr", "decr"}
          /\ numberClients' = numberClients /\ reg' = [reg EXCEPT ![c] = numberClients]
      BY <2>2 DEF CodeAccepted, SessionEnd, LoadCount, AtomicCount, CountBusy
    <3>2. \/ pc[c] = "code" /\ pc' = [pc EXCEPT ![c] = "incr"]
          \/ pc[c] = "session" /\ pc' = [pc EXCEPT ![c] = "decr"]
      BY <2>2 DEF CodeAccepted, SessionEnd, Goto
    <3>3. InSession' = InSession
      BY <3>2 DEF InSession, CountInv, TypeOK, Counted
    <3> QED
      BY <1>1, <3>1, <3>2, <3>3 DEF CountInv, TypeOK
  <2>3. CASE Increment(c)
    <3>1. /\ pc[c] = "incr" /\ pc' = [pc EXCEPT ![c] = "session"]
          /\ numberClients' = reg[c] + 1 /\ reg' = reg
      BY <2>3 DEF Increment, Goto
    <3>2. InSession' = InSession \cup {c} /\ c \notin InSession
      BY <3>1 DEF InSession, CountInv, TypeOK, Counted
    <3>3. Cardinality(InSession') = Cardinality(InSession) + 1
      BY <1>2, <3>2, FS_AddElement
    <3>4. \A d \in Conns : pc'[d] \notin {"incr", "decr"}
      BY <3>1 DEF CountInv, TypeOK
    <3>5. reg[c] = Cardinality(InSession)
      BY <3>1 DEF CountInv
    <3> QED
      BY <1>1, <3>1, <3>3, <3>4, <3>5 DEF CountInv
  <2>4. CASE Decrement(c)
    <3>1. /\ pc[c] = "decr" /\ pc' = [pc EXCEPT ![c] = "cleanup"]
          /\ numberClients' = reg[c] - 1 /\ reg' = reg
      BY <2>4 DEF Decrement, Goto
    <3>2. InSession' = InSession \ {c} /\ c \in InSession
      BY <3>1 DEF InSession, CountInv, TypeOK, Counted
    <3>3. Cardinality(InSession') = Cardinality(InSession) - 1
      BY <1>2, <3>2, FS_RemoveElement
    <3>4. \A d \in Conns : pc'[d] \notin {"incr", "decr"}
      BY <3>1 DEF CountInv, TypeOK
    <3>5. reg[c] = Cardinality(InSession)
      BY <3>1 DEF CountInv
    <3> QED
      BY <1>1, <3>1, <3>3, <3>4, <3>5 DEF CountInv
  <2> QED
    BY <1>5, <2>1, <2>2, <2>3, <2>4 DEF Worker
<1>6. CASE UNCHANGED vars
  BY <1>1, <1>6, CountStutter DEF vars
<1> QED
  BY <1>3, <1>4, <1>5, <1>6 DEF Next

\* numberClients is exact (lines 726 and 784), however sessions begin, end and
\* are abandoned, provided its unlocked updates do not overlap.
THEOREM CountCorrect == ASSUME AtomicCount PROVE Spec => []CountExact
<1>1. Init => CountInv
  <2> SUFFICES ASSUME Init PROVE CountInv
    OBVIOUS
  <2>1. InSession = {}
    BY DEF Init, InSession, Counted
  <2> QED
    BY <2>1, FS_EmptySet, ClientsAssumption
       DEF Init, CountInv, TypeOK, MainAtSlot, Slots, Stages
<1>2. CountInv => CountExact
  BY DEF CountInv, CountExact, InSession
<1> QED
  BY <1>1, <1>2, CountStep, PTL DEF Spec

-----------------------------------------------------------------------------
\* accept() does not fail.
NoAcceptError == "accept_error" \notin Disturbances

\* The handle main keeps for a slot is that of the thread using it, or that of
\* the thread that has just marked it ended.
HandleInv ==
    /\ \A i \in Slots : socket_id[i] = ENDED =>
           /\ client_thread[i] \in Conns
           /\ client_thread[i] \notin joined
           /\ slot[client_thread[i]] = i
           /\ pc[client_thread[i]] = "ended"
    /\ \A c \in Conns : pc[c] \in Live => client_thread[slot[c]] = c
    /\ \A c \in joined : pc[c] = "ended"

\* A live thread marks its slot ended and leaves.
LEMMA LeaveStep ==
    ASSUME TableInv, HandleInv, NEW c \in Conns, pc[c] \in Live,
           socket_id' = [socket_id EXCEPT ![slot[c]] = ENDED],
           pc' = [pc EXCEPT ![c] = "ended"],
           UNCHANGED <<slot, client_thread, joined>>
    PROVE  HandleInv'
<1>1. /\ \A i \in Slots : socket_id'[i] = IF i = slot[c] THEN ENDED ELSE socket_id[i]
      /\ \A d \in Conns : pc'[d] = IF d = c THEN "ended" ELSE pc[d]
      /\ slot[c] \in Slots /\ joined \subseteq Conns
  BY DEF TableInv, TypeOK
<1>2. c \notin joined /\ client_thread[slot[c]] = c
  BY DEF HandleInv, Live, Serving
<1>3. ASSUME NEW i \in Slots, socket_id'[i] = ENDED
      PROVE  /\ client_thread[i] \in Conns /\ client_thread[i] \notin joined
             /\ slot[client_thread[i]] = i /\ pc'[client_thread[i]] = "ended"
  BY <1>1, <1>2, <1>3 DEF HandleInv
<1>4. \A d \in Conns : pc'[d] \in Live => client_thread[slot[d]] = d
  BY <1>1 DEF HandleInv, Live, Serving
<1>5. \A d \in joined : pc'[d] = "ended"
  BY <1>1 DEF HandleInv
<1> QED
  BY <1>3, <1>4, <1>5 DEF HandleInv

\* A step of one thread, or none, that leaves the table and the handles alone.
LEMMA HandleStutter ==
    ASSUME TableInv, HandleInv, UNCHANGED <<socket_id, slot, client_thread, joined>>,
           \/ pc' = pc
           \/ \E c \in Conns, st \in Stages :
                  /\ pc' = [pc EXCEPT ![c] = st]
                  /\ pc[c] # "ended"
                  /\ st \in Live => pc[c] \in Live
    PROVE  HandleInv'
<1>1. CASE pc' = pc
  BY <1>1 DEF HandleInv
<1>2. ASSUME NEW c \in Conns, NEW st \in Stages, pc' = [pc EXCEPT ![c] = st],
             pc[c] # "ended", st \in Live => pc[c] \in Live
      PROVE  HandleInv'
  <2>1. /\ \A d \in Conns : pc'[d] = IF d = c THEN st ELSE pc[d]
        /\ joined \subseteq Conns
    BY <1>2 DEF TableInv, TypeOK
  <2> QED
    BY <1>2, <2>1 DEF HandleInv
<1> QED
  BY <1>1, <1>2

\* Every step keeps the handles right, if accept() does not fail.
LEMMA HandleStep ==
    ASSUME TableInv, HandleInv, PromptDrop, NoAcceptError, [Next]_vars
    PROVE  HandleInv'
<1> USE FDsAssumption, ConnsAssumption
<1>1. TypeOK /\ MainAtSlot /\ MainInv /\ StageInv /\ SlotInv
  BY DEF TableInv
<1>2. Joining => mainI \in Slots /\ Joinable(mainI)
  BY <1>1, ClientsAssumption DEF Joining, Joinable, HandleInv, TypeOK, Slots
<1>3. CASE Main
  <2>1. CASE ReapJoin
    <3>1. /\ mainI \in Slots /\ socket_id[mainI] = ENDED
          /\ joined' = joined \cup {client_thread[mainI]}
          /\ socket_id' = [socket_id EXCEPT ![mainI] = FREE]
          /\ UNCHANGED <<client_thread, pc, slot>>
      BY <1>2, <2>1 DEF ReapJoin, Joining
    <3>2. \A i \in Slots : socket_id'[i] = IF i = mainI THEN FREE ELSE socket_id[i]
      BY <1>1, <3>1 DEF TypeOK
    <3> QED
      BY <3>1, <3>2 DEF HandleInv
  <2>2. CASE AcceptError \/ ReapBadReturn \/ ReapBadCrash \/ \E c \in Conns : ReapBadAlias(c)
    BY <1>2, <2>2 DEF AcceptError, NoAcceptError, ReapBadReturn, ReapBadCrash, ReapBadAlias
  <2>3. CASE ReapSkip \/ ReapDone \/ Scan
    <3>1. UNCHANGED <<socket_id, slot, client_thread, joined, pc>>
      BY <2>3 DEF ReapSkip, ReapDone, Scan, ScanSkip, ScanDone, ScanFound
    <3> QED
      BY <3>1, HandleStutter
  <2>4. ASSUME NEW c \in Conns, Accept(c) PROVE HandleInv'
    <3>1. PICK f \in FDs : socket_id' = [socket_id EXCEPT ![mainI] = f]
      BY <2>4 DEF Accept
    <3>2. mainI \in Slots /\ pc[c] = "backlog" /\ UNCHANGED <<client_thread, joined>>
      BY <1>1, <2>4 DEF Accept, MainAtSlot
    <3>3. /\ \A d \in Conns : pc'[d] = IF d = c THEN "accepted" ELSE pc[d]
          /\ \A d \in Conns : slot'[d] = IF d = c THEN mainI ELSE slot[d]
          /\ \A i \in Slots : socket_id'[i] = IF i = mainI THEN f ELSE socket_id[i]
          /\ f # ENDED /\ joined \subseteq Conns
      BY <1>1, <2>4, <3>1 DEF Accept, Goto, TypeOK
    <3> QED
      BY <3>2, <3>3 DEF HandleInv, Live, Serving
  <2>5. ASSUME NEW c \in Conns, Admit(c) PROVE HandleInv'
    <3>1. /\ mainI \in Slots /\ slot[c] = mainI /\ slot' = slot /\ joined' = joined
          /\ pc[c] = "accepted" /\ socket_id[mainI] \in FDs
      BY <1>1, <2>5 DEF Admit, MainAtSlot, MainInv, StageInv, Owns
    <3>2. /\ \A d \in Conns : pc'[d] = IF d = c THEN "spawned" ELSE pc[d]
          /\ \A i \in Slots : client_thread'[i] = IF i = mainI THEN c ELSE client_thread[i]
          /\ joined \subseteq Conns
      BY <1>1, <2>5 DEF Admit, Goto, TypeOK
    <3>3. \A i \in Slots : socket_id'[i] = ENDED => i # mainI /\ socket_id[i] = ENDED
      BY <1>1, <2>5, <3>1 DEF Admit, TypeOK
    <3>4. \A d \in Conns : pc[d] \in Live /\ d # c => slot[d] # mainI
      BY <1>1, <3>1 DEF SlotInv, Held
    <3>5. \A d \in Conns : pc'[d] \in Live => client_thread'[slot[d]] = d
      BY <1>1, <3>1, <3>2, <3>4 DEF HandleInv, TypeOK
    <3>6. \A d \in joined : pc'[d] = "ended"
      BY <3>1, <3>2 DEF HandleInv
    <3>7. ASSUME NEW i \in Slots, socket_id'[i] = ENDED
          PROVE  /\ client_thread'[i] \in Conns /\ client_thread'[i] \notin joined
                 /\ slot[client_thread'[i]] = i /\ pc'[client_thread'[i]] = "ended"
      BY <3>1, <3>2, <3>3, <3>7 DEF HandleInv
    <3> QED
      BY <3>1, <3>5, <3>6, <3>7 DEF HandleInv
  <2> QED
    BY <1>3, <2>1, <2>2, <2>3, <2>4, <2>5 DEF Main, Reap
<1>4. ASSUME NEW c \in Conns, Connect(c) PROVE HandleInv'
  <2>1. /\ UNCHANGED <<socket_id, slot, client_thread, joined>>
        /\ pc[c] = "idle" /\ pc' = [pc EXCEPT ![c] = "backlog"]
    BY <1>4 DEF Connect, Goto, mainVars
  <2> QED
    BY <2>1, HandleStutter DEF Stages, Live, Serving
<1>5. ASSUME NEW c \in Conns, Worker(c) PROVE HandleInv'
  <2>1. CASE Clear(c)
    BY <2>1, LeaveStep DEF Clear, Goto, mainVars, Live
  <2>2. CASE Start(c) /\ socket_id[slot[c]] < 0
    BY <2>2, LeaveStep DEF Start, Goto, mainVars, Live
  <2>3. CASE Worker(c) /\ socket_id' = socket_id /\ ~Clear(c)
    <3>1. UNCHANGED <<slot, client_thread, joined>>
      BY <2>3 DEF Worker, Start, CodeError, CodeRefused, CodeAccepted, Increment,
                  SessionError, SessionEnd, Decrement, Close, mainVars
    <3>2. CASE Start(c) /\ ~(socket_id[slot[c]] < 0)
      BY <2>3, <3>1, <3>2, HandleStutter DEF Start, Goto, Stages, Live
    <3>3. CASE ~Start(c)
      <4>1. pc[c] \in Live /\ \E st \in (Live \cup Lost) \cap Stages : pc' = [pc EXCEPT ![c] = st]
        BY <2>3, <3>3 DEF Worker, CodeError, CodeRefused, CodeAccepted, Increment, SessionError,
                    SessionEnd, Decrement, Close, Goto, Live, Serving, Lost, Stages
      <4>2. pc[c] # "ended"
        BY <4>1 DEF Live, Serving
      <4> QED
        BY <2>3, <3>1, <4>1, <4>2, HandleStutter
    <3> QED
      BY <2>2, <2>3, <3>2, <3>3
  <2> QED
    BY <1>5, <2>1, <2>2, <2>3 DEF Worker, Start, CodeError, CodeRefused, CodeAccepted,
       Increment, SessionError, SessionEnd, Decrement, Close
<1>6. CASE UNCHANGED vars
  BY <1>6, HandleStutter DEF vars
<1> QED
  BY <1>3, <1>4, <1>5, <1>6 DEF Next

\* pthread_join (line 77) only ever meets the handle of the thread that was
\* started for the slot and was not joined before, if accept() does not fail
\* and the threads of turned-away clients start promptly.
THEOREM JoinCorrect == ASSUME PromptDrop, NoAcceptError PROVE Spec => []JoinSafe
<1>1. Init => HandleInv
  BY DEF Init, HandleInv, Live, Serving
<1>2. TableInv /\ HandleInv => JoinSafe
  BY ClientsAssumption, ConnsAssumption
     DEF TableInv, TypeOK, HandleInv, JoinSafe, Joining, Joinable, Slots
<1> QED
  BY <1>1, <1>2, TableInit, TableStep, HandleStep, PTL DEF Spec

=============================================================================
