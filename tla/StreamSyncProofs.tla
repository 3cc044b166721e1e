-------------------------- MODULE StreamSyncProofs --------------------------
(***************************************************************************)
(* Theorems about StreamSync, for any number of devices and any file.      *)
(***************************************************************************)
EXTENDS StreamSync, FiniteSetTheorems, SequenceTheorems, TLAPS

-----------------------------------------------------------------------------
(* The counter.                                                            *)

\* The threads that count once, or once more.
Busy   == {t \in Threads : pc[t] \in {"read", "intro", "loop", "mid"}}
Twice  == {t \in Threads : pc[t] = "loop"}
Gone   == {t \in Threads : pc[t] = "gone"}

\* The counter counts the busy threads, those in the loop twice, and the threads
\* in Lost, which left without counting themselves out.
Counts(Lost) ==
    /\ Lost \subseteq Gone
    /\ activeSlots > 0 => Lost = Gone
    /\ running_threads = Cardinality(Busy \cup Lost) + Cardinality(Twice)
CountInv == \E Lost \in SUBSET Threads : Counts(Lost)

\* A thread delays after a wait, once.
PlaceInv ==
    /\ pc \in [Threads -> Places]
    /\ i \in [Threads -> 0 .. 255]
    /\ lap \in [Threads -> 0 .. Laps - 1]
    /\ settling \in Seq(Threads) /\ IsInjective(settling)
    /\ together \in BOOLEAN
    /\ \A t \in Threads :
          /\ Settling(t) => pc[t] \in {"start", "sync", "mid"}
          /\ pc[t] = "mid" => SyncSlot(i[t])
          /\ pc[t] \in {"loop", "mid"} => loopStart <= i[t]

-----------------------------------------------------------------------------
(* The phases that the threads go through together.                        *)

At(places) == \A t \in Threads : pc[t] \in places

\* A file without slots: nothing is played.
NothingToPlay == activeSlots = 0 /\ At({"new", "read", "start", "gone"})

\* The file is read: nobody is past the first wait.
Gathering ==
    /\ At({"new", "read", "start", "gone"})
    /\ \A t \in Threads : i[t] = 0 /\ lap[t] = 0
    /\ \A t, u \in Threads : pc[t] = "start" => pc[u] # "new"
    /\ \A t, u \in Threads : Settling(t) => pc[u] = "start"

\* From the first wait to the second: the last has left the first before anyone
\* has played a slot, and before anyone leaves the second.
Intro ==
    /\ activeSlots > 0
    /\ At({"start", "intro", "sync"})
    /\ \A t \in Threads : lap[t] = 0 /\ (pc[t] = "start" => Settling(t))
    /\ \A j, k \in DOMAIN settling :
          j < k /\ pc[settling[j]] = "sync" => pc[settling[k]] = "sync"
    /\ \A t, u \in Threads :
          /\ pc[t] = "start" /\ loopStart > 0 => pc[u] # "sync" /\ i[u] = 0
          /\ Settling(t) /\ pc[t] = "sync" /\ pc[u] = "intro" => loopStart = 0

\* A lap without slots: nothing is played.
EmptyLap ==
    /\ activeSlots <= loopStart
    /\ At({"sync", "loop"})
    /\ \A t \in Threads : pc[t] = "loop" => i[t] >= activeSlots

SameLap == \A t, u \in Threads : lap[t] = lap[u]

\* A lap begins: the last leaves the wait before anyone has played a slot.
LapBegins ==
    /\ loopStart < activeSlots
    /\ At({"sync", "loop"})
    /\ SameLap
    /\ \A t \in Threads : /\ pc[t] = "sync" => Settling(t)
                          /\ pc[t] = "loop" => i[t] = loopStart

\* All slots after which the threads wait are still to come, or all are over.
Ahead(t)  == \A m \in loopStart .. activeSlots : SyncSlot(m) => i[t] <= m
Behind(t) == \A m \in loopStart .. activeSlots : SyncSlot(m) => m < i[t]

\* Before the wait in the loop.
FirstStretch ==
    /\ At({"loop", "mid"})
    /\ SameLap
    /\ \A t \in Threads : Ahead(t)
    /\ \A t, u \in Threads : Settling(t) => pc[u] = "mid"

\* The last leaves the wait in the loop before anyone has played the next slot.
GoingOn ==
    /\ At({"loop", "mid"})
    /\ SameLap
    /\ \A t \in Threads : /\ pc[t] = "mid" => Settling(t)
                          /\ pc[t] = "loop" => Behind(t) /\ i[t] < activeSlots

\* After it, up to the end of the lap.
LastStretch ==
    /\ At({"loop", "sync"})
    /\ \A t \in Threads : pc[t] = "loop" => Behind(t)
    /\ \A t, u \in Threads :
          /\ pc[t] = pc[u] => lap[t] = lap[u]
          /\ pc[t] = "loop" /\ pc[u] = "sync" => lap[u] = (lap[t] + 1) % Laps
          /\ Settling(t) => pc[u] = "sync"

Phases ==
    \/ NothingToPlay \/ Gathering \/ Intro \/ EmptyLap \/ LapBegins
    \/ FirstStretch \/ GoingOn \/ LastStretch

PhaseInv == together => Phases

-----------------------------------------------------------------------------
(* The delay after a wait.                                                 *)

\* A thread enters it, behind the others.
LEMMA Entered ==
    ASSUME settling \in Seq(Threads), IsInjective(settling), NEW t \in Threads, ~Settling(t),
           settling' = Append(settling, t)
    PROVE  /\ settling' \in Seq(Threads) /\ IsInjective(settling')
           /\ \A u \in Threads : Settling(u)' <=> Settling(u) \/ u = t
           /\ DOMAIN settling = 1 .. Len(settling) /\ DOMAIN settling' = 1 .. Len(settling) + 1
           /\ Len(settling) \in Nat
           /\ \A k \in 1 .. Len(settling) : settling'[k] = settling[k]
           /\ settling'[Len(settling) + 1] = t
<1>1. /\ Len(settling) \in Nat /\ DOMAIN settling = 1 .. Len(settling)
      /\ settling' \in Seq(Threads) /\ Len(settling') = Len(settling) + 1
      /\ \A k \in 1 .. Len(settling) : settling'[k] = settling[k]
      /\ settling'[Len(settling) + 1] = t
  BY LenProperties, AppendProperties
<1>2. DOMAIN settling' = 1 .. Len(settling) + 1
  BY <1>1, LenProperties
<1>3. \A u \in Threads : Settling(u)' <=> Settling(u) \/ u = t
  BY <1>1 DEF Settling, Contains
<1>4. IsInjective(settling')
  <2>1. \A a, b \in 1 .. Len(settling) : settling[a] = settling[b] => a = b
    BY <1>1 DEF IsInjective
  <2>2. \A a \in 1 .. Len(settling) : settling[a] # t
    BY DEF Settling, Contains
  <2> SUFFICES ASSUME NEW a \in 1 .. Len(settling) + 1, NEW b \in 1 .. Len(settling) + 1,
                      settling'[a] = settling'[b]
               PROVE  a = b
    BY <1>2 DEF IsInjective
  <2> QED
    BY <1>1, <2>1, <2>2
<1> QED
  BY <1>1, <1>2, <1>3, <1>4

\* A sequence without its k-th element.
LEMMA TakenOut ==
    ASSUME NEW S, NEW s \in Seq(S), NEW k \in DOMAIN s
    PROVE  LET d == RemoveAt(s, k) IN
           /\ d \in Seq(S) /\ Len(s) \in Nat \ {0} /\ DOMAIN s = 1 .. Len(s)
           /\ Len(d) = Len(s) - 1 /\ DOMAIN d = 1 .. Len(s) - 1
           /\ \A j \in 1 .. Len(s) - 1 : d[j] = IF j < k THEN s[j] ELSE s[j + 1]
<1> DEFINE a == SubSeq(s, 1, k - 1)
           b == SubSeq(s, k + 1, Len(s))
           d == RemoveAt(s, k)
<1>1. Len(s) \in Nat /\ k \in 1 .. Len(s) /\ DOMAIN s = 1 .. Len(s)
  BY LenProperties
<1>2. /\ \A j \in 1 .. k - 1 : s[j] \in S
      /\ \A j \in k + 1 .. Len(s) : s[j] \in S
  BY <1>1, ElementOfSeq
<1>3. /\ a \in Seq(S)
      /\ Len(a) = IF 1 <= k - 1 THEN (k - 1) - 1 + 1 ELSE 0
      /\ \A j \in 1 .. (k - 1) - 1 + 1 : a[j] = s[1 + j - 1]
  BY <1>1, <1>2, SubSeqProperties
<1>4. /\ b \in Seq(S)
      /\ Len(b) = IF k + 1 <= Len(s) THEN Len(s) - (k + 1) + 1 ELSE 0
      /\ \A j \in 1 .. Len(s) - (k + 1) + 1 : b[j] = s[(k + 1) + j - 1]
  BY <1>1, <1>2, SubSeqProperties
<1>5. d = a \o b
  BY DEF RemoveAt
<1> HIDE DEF a, b, d
<1>6. /\ d \in Seq(S) /\ Len(d) = Len(a) + Len(b)
      /\ \A j \in 1 .. Len(a) + Len(b) : d[j] = IF j <= Len(a) THEN a[j] ELSE b[j - Len(a)]
  BY <1>3, <1>4, <1>5, ConcatProperties
<1>7. Len(a) = k - 1 /\ Len(b) = Len(s) - k
  BY <1>1, <1>3, <1>4
<1>8. Len(d) = Len(s) - 1 /\ DOMAIN d = 1 .. Len(s) - 1
  BY <1>1, <1>6, <1>7, LenProperties
<1>9. \A j \in 1 .. Len(s) - 1 : d[j] = IF j < k THEN s[j] ELSE s[j + 1]
  <2> TAKE j \in 1 .. Len(s) - 1
  <2>1. CASE j < k
    <3>1. j \in 1 .. (k - 1) - 1 + 1 /\ 1 + j - 1 = j /\ j <= Len(a) /\ j \in 1 .. Len(a) + Len(b)
      BY <1>1, <1>7, <2>1
    <3> QED
      BY <1>3, <1>6, <2>1, <3>1
  <2>2. CASE ~(j < k)
    <3>1. j - (k - 1) \in 1 .. Len(s) - (k + 1) + 1 /\ (k + 1) + (j - (k - 1)) - 1 = j + 1
      <4>1. j \in Nat /\ k \in Nat /\ Len(s) \in Nat /\ k <= j /\ j <= Len(s) - 1
        BY <1>1, <2>2
      <4> QED
        BY <4>1
    <3>2. ~(j <= Len(a)) /\ j \in 1 .. Len(a) + Len(b)
      BY <1>1, <1>7, <2>2
    <3> QED
      BY <1>4, <1>6, <1>7, <2>2, <3>1, <3>2
  <2> QED
    BY <2>1, <2>2
<1>10. Len(s) \in Nat \ {0}
  BY <1>1
<1> QED
  BY <1>1, <1>6, <1>8, <1>9, <1>10 DEF d

\* A thread leaves it: the first that entered, when nobody is left to notice.
LEMMA LeftDelay ==
    ASSUME settling \in Seq(Threads), IsInjective(settling), NEW t \in Threads, Settled(t)
    PROVE  /\ Settling(t) /\ settling' \in Seq(Threads) /\ IsInjective(settling')
           /\ \A u \in Threads : Settling(u)' <=> Settling(u) /\ u # t
           /\ "slow_notice" \notin Disturbances =>
                 /\ \A u \in Threads : (Polling(u) => ~Free(u)) /\ ~Passing(u)
                 /\ DOMAIN settling = 1 .. Len(settling) /\ Len(settling) \in Nat \ {0}
                 /\ DOMAIN settling' = 1 .. Len(settling) - 1 /\ settling[1] = t
                 /\ \A j \in 1 .. Len(settling) - 1 : settling'[j] = settling[j + 1]
<1>1. PICK k \in DOMAIN settling :
        /\ settling[k] = t
        /\ \/ "slow_notice" \in Disturbances
           \/ k = 1 /\ \A u \in Threads : (Polling(u) => ~Free(u)) /\ ~Passing(u)
        /\ settling' = RemoveAt(settling, k)
  BY DEF Settled
<1>2. /\ settling' \in Seq(Threads) /\ Len(settling) \in Nat \ {0} /\ DOMAIN settling = 1 .. Len(settling)
      /\ Len(settling') = Len(settling) - 1 /\ DOMAIN settling' = 1 .. Len(settling) - 1
      /\ \A j \in 1 .. Len(settling) - 1 : settling'[j] = IF j < k THEN settling[j] ELSE settling[j + 1]
  BY <1>1, TakenOut
<1>3. \A a, b \in 1 .. Len(settling) : settling[a] = settling[b] => a = b
  BY <1>2 DEF IsInjective
<1>4. Settling(t)
  BY <1>1, <1>2 DEF Settling, Contains
<1>5. IsInjective(settling')
  <2> SUFFICES ASSUME NEW a \in 1 .. Len(settling) - 1, NEW b \in 1 .. Len(settling) - 1,
                      settling'[a] = settling'[b]
               PROVE  a = b
    BY <1>2 DEF IsInjective
  <2>1. a \in 1 .. Len(settling) /\ a + 1 \in 1 .. Len(settling) /\ b \in 1 .. Len(settling) /\ b + 1 \in 1 .. Len(settling)
    BY <1>2
  <2> QED
    BY <1>1, <1>2, <1>3, <2>1
<1>6. ASSUME NEW u \in Threads PROVE Settling(u)' <=> Settling(u) /\ u # t
  <2>1. ASSUME NEW j \in 1 .. Len(settling) - 1, settling'[j] = u PROVE Settling(u) /\ u # t
    <3>1. PICK l \in 1 .. Len(settling) : settling[l] = u /\ l # k
      <4>1. CASE j < k
        BY <1>2, <2>1, <4>1
      <4>2. CASE ~(j < k)
        <5>1. j + 1 \in 1 .. Len(settling) /\ j + 1 # k
          BY <1>2, <4>2
        <5> QED
          BY <1>2, <2>1, <4>2, <5>1
      <4> QED
        BY <4>1, <4>2
    <3> QED
      BY <1>1, <1>2, <1>3, <3>1 DEF Settling, Contains
  <2>2. ASSUME NEW l \in 1 .. Len(settling), settling[l] = u, u # t
        PROVE  \E j \in 1 .. Len(settling) - 1 : settling'[j] = u
    <3>1. CASE l < k
      <4>1. l \in 1 .. Len(settling) - 1
        BY <1>1, <1>2, <3>1
      <4> QED
        BY <1>2, <2>2, <3>1, <4>1
    <3>2. CASE l > k
      <4>1. l - 1 \in 1 .. Len(settling) - 1 /\ ~(l - 1 < k) /\ (l - 1) + 1 = l
        BY <1>1, <1>2, <3>2
      <4> QED
        BY <1>2, <2>2, <4>1
    <3> QED
      BY <1>1, <1>2, <2>2, <3>1, <3>2
  <2> QED
    BY <1>2, <2>1, <2>2 DEF Settling, Contains
<1>7. ASSUME "slow_notice" \notin Disturbances, NEW j \in 1 .. Len(settling) - 1
      PROVE  settling'[j] = settling[j + 1]
  BY <1>1, <1>2, <1>7
<1> QED
  BY <1>1, <1>2, <1>4, <1>5, <1>6, <1>7

-----------------------------------------------------------------------------
(* The counter is what the threads have put there.                         *)

\* What a thread adds to the counter, where it is.
Weight(place) ==
    (IF place \in {"read", "intro", "loop", "mid"} THEN 1 ELSE 0) + (IF place = "loop" THEN 1 ELSE 0)

\* The sets of threads that are counted are small.
LEMMA Counted ==
    ASSUME NEW Lost \in SUBSET Threads
    PROVE  /\ IsFiniteSet(Busy \cup Lost) /\ IsFiniteSet(Twice)
           /\ Cardinality(Busy \cup Lost) \in 0 .. totalDevices
           /\ Cardinality(Twice) \in 0 .. totalDevices
           /\ totalDevices \in 1 .. 127
<1>1. Busy \cup Lost \in SUBSET Threads /\ Twice \in SUBSET Threads
  BY DEF Busy, Twice
<1>2. IsFiniteSet(Threads) /\ Cardinality(Threads) \in 1 .. 127
  BY ThreadsAssumption
<1>3. /\ IsFiniteSet(Busy \cup Lost) /\ Cardinality(Busy \cup Lost) <= Cardinality(Threads)
      /\ IsFiniteSet(Twice) /\ Cardinality(Twice) <= Cardinality(Threads)
  BY <1>1, <1>2, FS_Subset
<1>4. Cardinality(Busy \cup Lost) \in Nat /\ Cardinality(Twice) \in Nat
  BY <1>3, FS_CardinalityType
<1> QED
  BY <1>2, <1>3, <1>4 DEF totalDevices

\* A set with one element put in or taken out.
LEMMA InOrOut ==
    ASSUME NEW S, IsFiniteSet(S), NEW t, NEW T, NEW within \in BOOLEAN,
           T = IF within THEN S \cup {t} ELSE S \ {t}
    PROVE  Cardinality(T) = Cardinality(S) + (IF within THEN 1 ELSE 0) - (IF t \in S THEN 1 ELSE 0)
<1>1. Cardinality(S) \in Nat
  BY FS_CardinalityType
<1>2. CASE within
  <2>1. Cardinality(S \cup {t}) = IF t \in S THEN Cardinality(S) ELSE Cardinality(S) + 1
    BY FS_AddElement
  <2> QED
    BY <1>1, <1>2, <2>1
<1>3. CASE ~within
  <2>1. Cardinality(S \ {t}) = IF t \in S THEN Cardinality(S) - 1 ELSE Cardinality(S)
    BY FS_RemoveElement
  <2> QED
    BY <1>1, <1>3, <2>1
<1> QED
  BY <1>2, <1>3

\* A thread that goes on changes the counter by the difference of the weights:
\* it neither wraps below 0 nor past 255.
LEMMA Recount ==
    ASSUME pc \in [Threads -> Places], CountInv, NEW t \in Threads, NEW place \in Places,
           Goto(t, place), pc[t] # "gone", place # "gone", NEW n \in Int,
           n = Weight(place) - Weight(pc[t]), running_threads' = (running_threads + n) % 256
    PROVE  CountInv'
<1>1. PICK Lost \in SUBSET Threads : Counts(Lost)
  BY DEF CountInv
<1>2. /\ pc' \in [Threads -> Places] /\ pc'[t] = place /\ \A u \in Threads : u # t => pc'[u] = pc[u]
      /\ t \notin Lost
  BY <1>1 DEF Goto, Counts, Gone
<1> DEFINE A == Busy \cup Lost
           B == Twice
<1>3. /\ IsFiniteSet(A) /\ IsFiniteSet(B)
      /\ Cardinality(A) \in 0 .. totalDevices /\ Cardinality(B) \in 0 .. totalDevices
      /\ running_threads = Cardinality(A) + Cardinality(B) /\ totalDevices \in 1 .. 127
  BY <1>1, Counted DEF Counts
<1>4. t \in A <=> pc[t] \in {"read", "intro", "loop", "mid"}
  BY <1>2 DEF Busy
<1>5. t \in B <=> pc[t] = "loop"
  BY DEF Twice
<1>6. /\ Busy' \cup Lost = IF place \in {"read", "intro", "loop", "mid"} THEN A \cup {t} ELSE A \ {t}
      /\ Twice' = IF place = "loop" THEN B \cup {t} ELSE B \ {t}
  BY <1>2 DEF Busy, Twice
<1> HIDE DEF A, B
<1>7. Cardinality(Busy' \cup Lost) = Cardinality(A)
             + (IF place \in {"read", "intro", "loop", "mid"} THEN 1 ELSE 0)
             - (IF t \in A THEN 1 ELSE 0)
  <2> DEFINE T == Busy' \cup Lost
             w == place \in {"read", "intro", "loop", "mid"}
  <2>1. w \in BOOLEAN /\ T = IF w THEN A \cup {t} ELSE A \ {t}
    BY <1>6
  <2> HIDE DEF T, w
  <2>2. Cardinality(T) = Cardinality(A) + (IF w THEN 1 ELSE 0) - (IF t \in A THEN 1 ELSE 0)
    BY <1>3, <2>1, InOrOut
  <2> QED
    BY <2>2 DEF T, w
<1>8. Cardinality(Twice') = Cardinality(B) + (IF place = "loop" THEN 1 ELSE 0)
                                          - (IF t \in B THEN 1 ELSE 0)
  <2> DEFINE T == Twice'
             w == place = "loop"
  <2>1. w \in BOOLEAN /\ T = IF w THEN B \cup {t} ELSE B \ {t}
    BY <1>6
  <2> HIDE DEF T, w
  <2>2. Cardinality(T) = Cardinality(B) + (IF w THEN 1 ELSE 0) - (IF t \in B THEN 1 ELSE 0)
    BY <1>3, <2>1, InOrOut
  <2> QED
    BY <2>2 DEF T, w
<1>9. Cardinality(Busy' \cup Lost) + Cardinality(Twice') = running_threads + n
  BY <1>3, <1>4, <1>5, <1>7, <1>8 DEF Weight
<1>10. running_threads + n \in 0 .. 254
  <2>1. (Busy' \cup Lost) \in SUBSET Threads /\ Twice' \in SUBSET Threads
    BY DEF Busy, Twice
  <2>2. ASSUME NEW T \in SUBSET Threads PROVE Cardinality(T) \in 0 .. totalDevices
    <3>1. IsFiniteSet(T) /\ Cardinality(T) <= Cardinality(Threads)
      BY ThreadsAssumption, FS_Subset
    <3>2. Cardinality(T) \in Nat
      BY <3>1, FS_CardinalityType
    <3> QED
      BY <3>1, <3>2, ThreadsAssumption DEF totalDevices
  <2>3. Cardinality(Busy' \cup Lost) \in 0 .. totalDevices /\ Cardinality(Twice') \in 0 .. totalDevices
    BY <2>1, <2>2
  <2>4. \A x, y \in 0 .. totalDevices : x + y \in 0 .. 254
    BY <1>3
  <2> QED
    BY <1>9, <2>3, <2>4
<1>11. (running_threads + n) % 256 = running_threads + n
  BY <1>10
<1>12. Gone' = Gone
  BY <1>2 DEF Gone
<1>13. Counts(Lost)'
  BY <1>1, <1>9, <1>11, <1>12 DEF Counts
<1> QED
  BY <1>13 DEF CountInv

\* No step makes the counter forget a thread.
LEMMA CountStep ==
    ASSUME "lost_update" \notin Disturbances, PlaceInv, CountInv, [Next]_vars PROVE CountInv'
<1>1. pc \in [Threads -> Places]
  BY DEF PlaceInv
<1>2. ASSUME NEW n \in Int, Count(n) PROVE running_threads' = (running_threads + n) % 256
  BY <1>2 DEF Count
<1>3. ASSUME UNCHANGED <<running_threads, pc>> PROVE CountInv'
  BY <1>3 DEF CountInv, Counts, Busy, Twice, Gone
<1>4. ASSUME NEW t \in Threads, Begin(t) PROVE CountInv'
  BY <1>1, <1>2, <1>4, Recount DEF Begin, Weight, Places
<1>5. ASSUME NEW t \in Threads, OpenError(t) PROVE CountInv'
  <2>1. PICK Lost \in SUBSET Threads : Counts(Lost)
    BY DEF CountInv
  <2>2. /\ pc[t] = "read" /\ pc'[t] = "gone" /\ \A u \in Threads : u # t => pc'[u] = pc[u]
        /\ running_threads' = running_threads
    BY <1>1, <1>5 DEF OpenError, Goto, Places
  <2>3. Busy' \cup (Lost \cup {t}) = Busy \cup Lost /\ Twice' = Twice /\ Gone' = Gone \cup {t}
    BY <2>2 DEF Busy, Twice, Gone
  <2>4. Counts(Lost \cup {t})'
    BY <2>1, <2>2, <2>3 DEF Counts
  <2> QED
    BY <2>1, <2>4 DEF CountInv
<1>6. ASSUME NEW t \in Threads, ReadDone(t) PROVE CountInv'
  BY <1>1, <1>2, <1>6, Recount DEF ReadDone, Weight, Places
<1>7. ASSUME NEW t \in Threads, StartIntro(t) PROVE CountInv'
  <2>1. CASE activeSlots > 0
    BY <1>1, <1>2, <1>7, <2>1, Recount DEF StartIntro, Weight, Places
  <2>2. CASE ~(activeSlots > 0)
    <3>1. PICK Lost \in SUBSET Threads : Counts(Lost)
      BY DEF CountInv
    <3>2. /\ pc[t] = "start" /\ pc'[t] = "gone" /\ \A u \in Threads : u # t => pc'[u] = pc[u]
          /\ running_threads' = running_threads
      BY <1>1, <1>7, <2>2 DEF StartIntro, Goto, Places
    <3>3. Busy' = Busy /\ Twice' = Twice /\ Gone' = Gone \cup {t}
      BY <3>2 DEF Busy, Twice, Gone
    <3>4. Counts(Lost)'
      BY <2>2, <3>1, <3>2, <3>3 DEF Counts
    <3> QED
      BY <3>1, <3>4 DEF CountInv
  <2> QED
    BY <2>1, <2>2
<1>8. ASSUME NEW t \in Threads, StartLap(t) \/ GoOn(t) PROVE CountInv'
  BY <1>1, <1>2, <1>8, Recount DEF StartLap, GoOn, Weight, Places
<1>9. ASSUME NEW t \in Threads, IntroDone(t) \/ LapDone(t) PROVE CountInv'
  BY <1>1, <1>2, <1>9, Recount DEF IntroDone, LapDone, Weight, Places
<1>10. ASSUME NEW t \in Threads, LoopSlot(t) PROVE CountInv'
  <2>1. CASE SyncSlot(i[t])
    BY <1>1, <1>2, <1>10, <2>1, Recount DEF LoopSlot, Weight, Places
  <2>2. CASE ~SyncSlot(i[t])
    BY <1>3, <1>10, <2>2 DEF LoopSlot
  <2> QED
    BY <2>1, <2>2
<1>11. ASSUME NEW t \in Threads, Notice(t) \/ IntroSlot(t) PROVE CountInv'
  BY <1>3, <1>11 DEF Notice, IntroSlot
<1>12. CASE UNCHANGED vars
  BY <1>3, <1>12 DEF vars
<1> QED
  BY <1>4, <1>5, <1>6, <1>7, <1>8, <1>9, <1>10, <1>11, <1>12 DEF Next, streamData

-----------------------------------------------------------------------------
(* Type correctness.                                                       *)

\* A slot counter goes on by one.
LEMMA OneMore ==
    ASSUME i \in [Threads -> 0 .. 255], NEW t \in Threads, i[t] + 1 \in 0 .. 255,
           i' = [i EXCEPT ![t] = @ + 1]
    PROVE  /\ i' \in [Threads -> 0 .. 255] /\ i'[t] = i[t] + 1
           /\ \A u \in Threads : u # t => i'[u] = i[u]
<1>1. PICK n \in 0 .. 255 : n = i[t] + 1
  OBVIOUS
<1>2. i' = [i EXCEPT ![t] = n]
  BY <1>1
<1>3. i' \in [Threads -> 0 .. 255] /\ i'[t] = n /\ \A u \in Threads : u # t => i'[u] = i[u]
  BY <1>2
<1> QED
  BY <1>1, <1>3

\* No step leaves the slots, the places or the delay in disorder.
LEMMA PlaceStep == ASSUME PlaceInv, [Next]_vars PROVE PlaceInv'
<1>1. /\ pc \in [Threads -> Places] /\ i \in [Threads -> 0 .. 255] /\ lap \in [Threads -> 0 .. Laps - 1]
      /\ settling \in Seq(Threads) /\ IsInjective(settling) /\ together \in BOOLEAN
      /\ \A u \in Threads : /\ Settling(u) => pc[u] \in {"start", "sync", "mid"}
                            /\ pc[u] = "mid" => SyncSlot(i[u])
                            /\ pc[u] \in {"loop", "mid"} => loopStart <= i[u]
  BY DEF PlaceInv
<1>2. loopStart \in 0 .. 255 /\ activeSlots \in 0 .. 255 /\ Laps \in Nat \ {0}
  BY SlotsAssumption, LapsAssumption
<1>3. ASSUME UNCHANGED settling PROVE \A u \in Threads : Settling(u)' <=> Settling(u)
  BY <1>3 DEF Settling, Contains
\* It is enough to look at the thread that moves.
<1>4. ASSUME NEW t \in Threads, pc' \in [Threads -> Places], i' \in [Threads -> 0 .. 255],
             lap' \in [Threads -> 0 .. Laps - 1], settling' \in Seq(Threads), IsInjective(settling'),
             together' \in BOOLEAN,
             \A u \in Threads : u # t => /\ pc'[u] = pc[u] /\ i'[u] = i[u]
                                         /\ Settling(u)' <=> Settling(u),
             Settling(t)' => pc'[t] \in {"start", "sync", "mid"},
             pc'[t] = "mid" => SyncSlot(i'[t]),
             pc'[t] \in {"loop", "mid"} => loopStart <= i'[t]
      PROVE  PlaceInv'
  <2>1. ASSUME NEW u \in Threads
        PROVE  /\ Settling(u)' => pc'[u] \in {"start", "sync", "mid"}
               /\ pc'[u] = "mid" => SyncSlot(i'[u])
               /\ pc'[u] \in {"loop", "mid"} => loopStart <= i'[u]
    <3>1. CASE u = t
      BY <1>4, <3>1
    <3>2. CASE u # t
      <4>1. pc'[u] = pc[u] /\ i'[u] = i[u] /\ (Settling(u)' <=> Settling(u))
        BY <1>4, <3>2
      <4> QED
        BY <1>1, <4>1
    <3> QED
      BY <3>1, <3>2
  <2> QED
    BY <1>4, <2>1 DEF PlaceInv
<1>5. ASSUME NEW t \in Threads, Begin(t) PROVE PlaceInv'
  <2>1. /\ pc' \in [Threads -> Places] /\ pc'[t] = "read" /\ ~Settling(t)
        /\ \A u \in Threads : u # t => pc'[u] = pc[u]
        /\ UNCHANGED <<i, lap, settling>> /\ together' \in BOOLEAN
    BY <1>1, <1>5 DEF Begin, Goto, Places
  <2> QED
    BY <1>1, <1>3, <1>4, <2>1
<1>6. ASSUME NEW t \in Threads, OpenError(t) PROVE PlaceInv'
  <2>1. /\ pc' \in [Threads -> Places] /\ pc'[t] = "gone" /\ ~Settling(t)
        /\ \A u \in Threads : u # t => pc'[u] = pc[u]
        /\ UNCHANGED <<i, lap, settling>> /\ together' \in BOOLEAN
    BY <1>1, <1>6 DEF OpenError, Goto, Places
  <2> QED
    BY <1>1, <1>3, <1>4, <2>1
<1>7. ASSUME NEW t \in Threads, ReadDone(t) PROVE PlaceInv'
  <2>1. /\ pc' \in [Threads -> Places] /\ pc'[t] = "start" /\ ~Settling(t)
        /\ \A u \in Threads : u # t => pc'[u] = pc[u]
        /\ UNCHANGED <<i, lap, settling>> /\ together' \in BOOLEAN
    BY <1>1, <1>7 DEF ReadDone, Goto, Places
  <2> QED
    BY <1>1, <1>3, <1>4, <2>1
<1>8. ASSUME NEW t \in Threads, IntroDone(t) PROVE PlaceInv'
  <2>1. /\ pc' \in [Threads -> Places] /\ pc'[t] = "sync" /\ ~Settling(t)
        /\ \A u \in Threads : u # t => pc'[u] = pc[u]
        /\ UNCHANGED <<i, lap, settling>> /\ together' \in BOOLEAN
    BY <1>1, <1>8 DEF IntroDone, Goto, Places
  <2> QED
    BY <1>1, <1>3, <1>4, <2>1
<1>9. ASSUME NEW t \in Threads, Notice(t) PROVE PlaceInv'
  <2>1. /\ settling' \in Seq(Threads) /\ IsInjective(settling')
        /\ \A u \in Threads : Settling(u)' <=> Settling(u) \/ u = t
    BY <1>1, <1>9, Entered DEF Notice, Polling
  <2>2. pc[t] \in {"start", "sync", "mid"} /\ UNCHANGED <<pc, i, lap, together>>
    BY <1>9 DEF Notice, Polling
  <2> QED
    BY <1>1, <1>4, <2>1, <2>2
<1>10. ASSUME NEW t \in Threads, Settled(t)
       PROVE  /\ settling' \in Seq(Threads) /\ IsInjective(settling') /\ ~Settling(t)'
              /\ \A u \in Threads : u # t => (Settling(u)' <=> Settling(u))
  BY <1>1, <1>10, LeftDelay
<1>11. ASSUME NEW t \in Threads, StartIntro(t) PROVE PlaceInv'
  <2>1. /\ pc' \in [Threads -> Places] /\ pc'[t] \in {"intro", "gone"} /\ Settled(t)
        /\ \A u \in Threads : u # t => pc'[u] = pc[u]
        /\ UNCHANGED <<i, lap, together>>
    BY <1>1, <1>11 DEF StartIntro, Goto, Places
  <2> QED
    BY <1>1, <1>4, <1>10, <2>1
<1>12. ASSUME NEW t \in Threads, StartLap(t) PROVE PlaceInv'
  <2>1. /\ pc' \in [Threads -> Places] /\ pc'[t] = "loop" /\ Settled(t)
        /\ i' \in [Threads -> 0 .. 255] /\ i'[t] = loopStart
        /\ \A u \in Threads : u # t => pc'[u] = pc[u] /\ i'[u] = i[u]
        /\ UNCHANGED <<lap, together>>
    BY <1>1, <1>2, <1>12 DEF StartLap, Goto, Places
  <2>2. loopStart <= i'[t]
    BY <1>2, <2>1
  <2> QED
    BY <1>1, <1>4, <1>10, <2>1, <2>2
<1>13. ASSUME NEW t \in Threads, GoOn(t) PROVE PlaceInv'
  <2>1. i[t] + 1 \in 0 .. 255 /\ loopStart <= i[t] + 1
    <3>1. i[t] \in 0 .. 255 /\ pc[t] = "mid"
      BY <1>1, <1>13 DEF GoOn
    <3>2. loopStart <= i[t] /\ i[t] < activeSlots - 3
      BY <1>1, <3>1 DEF SyncSlot
    <3>3. \A n \in 0 .. 255 : loopStart <= n /\ n < activeSlots - 3 => n + 1 \in 0 .. 255 /\ loopStart <= n + 1
      BY SlotsAssumption
    <3> QED
      BY <3>1, <3>2, <3>3
  <2>2. /\ pc' \in [Threads -> Places] /\ pc'[t] = "loop" /\ Settled(t)
        /\ i' \in [Threads -> 0 .. 255] /\ i'[t] = i[t] + 1
        /\ \A u \in Threads : u # t => pc'[u] = pc[u] /\ i'[u] = i[u]
        /\ UNCHANGED <<lap, together>>
    <3>1. i' = [i EXCEPT ![t] = @ + 1]
      BY <1>13 DEF GoOn
    <3>2. i' \in [Threads -> 0 .. 255] /\ i'[t] = i[t] + 1 /\ \A u \in Threads : u # t => i'[u] = i[u]
      BY <1>1, <2>1, <3>1, OneMore
    <3> QED
      BY <1>1, <1>13, <3>2 DEF GoOn, Goto, Places
  <2> QED
    BY <1>1, <1>4, <1>10, <2>1, <2>2
<1>14. ASSUME NEW t \in Threads, IntroSlot(t) PROVE PlaceInv'
  <2>1. i[t] + 1 \in 0 .. 255 /\ pc[t] = "intro"
    <3>1. i[t] \in 0 .. 255 /\ pc[t] = "intro" /\ i[t] < loopStart
      BY <1>1, <1>14 DEF IntroSlot
    <3> QED
      BY <1>2, <3>1
  <2>2. /\ i' \in [Threads -> 0 .. 255] /\ \A u \in Threads : u # t => i'[u] = i[u]
        /\ UNCHANGED <<pc, lap, settling, together>>
    <3>1. i' = [i EXCEPT ![t] = @ + 1] /\ UNCHANGED <<pc, lap, settling, together>>
      BY <1>14 DEF IntroSlot
    <3> QED
      BY <1>1, <2>1, <3>1, OneMore
  <2> QED
    BY <1>1, <1>3, <1>4, <2>1, <2>2
<1>15. ASSUME NEW t \in Threads, LoopSlot(t) PROVE PlaceInv'
  <2>1. pc[t] = "loop" /\ ~Settling(t) /\ UNCHANGED <<lap, settling, together>>
    BY <1>1, <1>15 DEF LoopSlot
  <2>2. CASE SyncSlot(i[t])
    <3>1. /\ pc' \in [Threads -> Places] /\ pc'[t] = "mid" /\ i' = i
          /\ \A u \in Threads : u # t => pc'[u] = pc[u]
      BY <1>1, <1>15, <2>2 DEF LoopSlot, Goto, Places
    <3> QED
      BY <1>1, <1>3, <1>4, <2>1, <2>2, <3>1
  <2>3. CASE ~SyncSlot(i[t])
    <3>1. i[t] + 1 \in 0 .. 255 /\ loopStart <= i[t] + 1
      <4>1. i[t] \in 0 .. 255 /\ i[t] < activeSlots
        BY <1>1, <1>15 DEF LoopSlot
      <4>2. loopStart <= i[t]
        BY <1>1, <2>1
      <4> QED
        BY <1>2, <4>1, <4>2
    <3>2. /\ i' \in [Threads -> 0 .. 255] /\ i'[t] = i[t] + 1 /\ pc' = pc
          /\ \A u \in Threads : u # t => i'[u] = i[u]
      <4>1. i' = [i EXCEPT ![t] = @ + 1] /\ pc' = pc
        BY <1>15, <2>3 DEF LoopSlot
      <4> QED
        BY <1>1, <3>1, <4>1, OneMore
    <3>3. loopStart <= i'[t] /\ pc'[t] = "loop"
      BY <2>1, <3>1, <3>2
    <3> QED
      BY <1>1, <1>3, <1>4, <2>1, <3>2, <3>3
  <2> QED
    BY <2>2, <2>3
<1>16. ASSUME NEW t \in Threads, LapDone(t) PROVE PlaceInv'
  <2>1. (lap[t] + 1) % Laps \in 0 .. Laps - 1
    BY <1>1, <1>2
  <2>2. /\ pc' \in [Threads -> Places] /\ pc'[t] = "sync" /\ ~Settling(t)
        /\ \A u \in Threads : u # t => pc'[u] = pc[u]
        /\ lap' \in [Threads -> 0 .. Laps - 1] /\ UNCHANGED <<i, settling, together>>
    BY <1>1, <1>16, <2>1 DEF LapDone, Goto, Places
  <2> QED
    BY <1>1, <1>3, <1>4, <2>2
<1>17. CASE UNCHANGED vars
  BY <1>1, <1>3, <1>17 DEF vars, PlaceInv
<1> QED
  BY <1>5, <1>6, <1>7, <1>8, <1>9, <1>11, <1>12, <1>13, <1>14, <1>15, <1>16, <1>17 DEF Next, streamData

\* The program starts with all threads before streamData and a counter of 0.
LEMMA AtFirst == Init => PlaceInv /\ CountInv
<1> SUFFICES ASSUME Init PROVE PlaceInv /\ CountInv
  OBVIOUS
<1>1. settling \in Seq(Threads) /\ Len(settling) = 0 /\ DOMAIN settling = 1 .. 0
  BY EmptySeq DEF Init
<1>2. \A u \in Threads : ~Settling(u)
  BY <1>1 DEF Settling, Contains
<1>3. IsInjective(settling)
  BY <1>1 DEF IsInjective
<1>4. PlaceInv
  BY <1>1, <1>2, <1>3, LapsAssumption DEF Init, PlaceInv, Places
<1>5. Busy \cup {} = {} /\ Twice = {} /\ Gone = {}
  BY DEF Init, Busy, Twice, Gone
<1>6. Counts({})
  BY <1>5, FS_EmptySet DEF Counts, Init
<1> QED
  BY <1>4, <1>6 DEF CountInv

\* running_threads is never counted below 0, where an unsigned char wraps to 255, nor
\* above two per device, as long as no unlocked update is lost: whatever the timing, and
\* if threads leave on an error. No slot number passes 255.
THEOREM CounterNeverWraps ==
    ASSUME "lost_update" \notin Disturbances PROVE Spec => []TypeOK
<1>1. PlaceInv /\ CountInv => TypeOK
  <2> SUFFICES ASSUME PlaceInv, CountInv PROVE TypeOK
    OBVIOUS
  <2>1. PICK Lost \in SUBSET Threads : Counts(Lost)
    BY DEF CountInv
  <2>2. /\ Cardinality(Busy \cup Lost) \in 0 .. totalDevices /\ Cardinality(Twice) \in 0 .. totalDevices
        /\ totalDevices \in 1 .. 127
    BY <2>1, Counted
  <2>3. running_threads \in 0 .. 2 * totalDevices
    BY <2>1, <2>2 DEF Counts
  <2> QED
    BY <2>3 DEF TypeOK, PlaceInv
<1>2. PlaceInv /\ CountInv /\ [Next]_vars => PlaceInv' /\ CountInv'
  BY PlaceStep, CountStep
<1> QED
  BY <1>1, <1>2, AtFirst, PTL DEF Spec

-----------------------------------------------------------------------------
(* What the threads learn from the counter, and from the delays.           *)

\* No delay is too short, no slot quicker than a delay, and no update is lost.
Quiet == Disturbances \cap {"slow_notice", "quick_slot", "lost_update"} = {}

\* A counter of 0 means that nobody is busy, and within the loop one per device that
\* everybody has come to the wait.
LEMMA Seen ==
    ASSUME PlaceInv, CountInv
    PROVE  /\ running_threads = 0 =>
                 \A u \in Threads : /\ pc[u] \notin {"read", "intro", "loop", "mid"}
                                    /\ activeSlots > 0 => pc[u] # "gone"
           /\ At({"start", "sync"}) => running_threads = 0
           /\ At({"loop", "mid"}) => (running_threads <= totalDevices <=> At({"mid"}))
<1>1. PICK Lost \in SUBSET Threads : Counts(Lost)
  BY DEF CountInv
<1>2. /\ IsFiniteSet(Busy \cup Lost) /\ IsFiniteSet(Twice)
      /\ Cardinality(Busy \cup Lost) \in Nat /\ Cardinality(Twice) \in Nat /\ totalDevices \in Nat
      /\ running_threads = Cardinality(Busy \cup Lost) + Cardinality(Twice)
      /\ Lost \subseteq Gone /\ (activeSlots > 0 => Lost = Gone)
  <2>1. /\ IsFiniteSet(Busy \cup Lost) /\ IsFiniteSet(Twice)
        /\ Cardinality(Busy \cup Lost) \in 0 .. totalDevices
        /\ Cardinality(Twice) \in 0 .. totalDevices
        /\ totalDevices \in 1 .. 127
    BY <1>1, Counted
  <2>2. Cardinality(Busy \cup Lost) \in Nat /\ Cardinality(Twice) \in Nat /\ totalDevices \in Nat
    BY <2>1
  <2> QED
    BY <1>1, <2>1, <2>2 DEF Counts
<1>3. \A S : IsFiniteSet(S) => (Cardinality(S) = 0 <=> S = {})
  BY FS_EmptySet
<1>4. ASSUME running_threads = 0, NEW u \in Threads
      PROVE  pc[u] \notin {"read", "intro", "loop", "mid"} /\ (activeSlots > 0 => pc[u] # "gone")
  <2>1. Cardinality(Busy \cup Lost) = 0
    BY <1>2, <1>4
  <2>2. Busy \cup Lost = {}
    BY <1>2, <1>3, <2>1
  <2> QED
    BY <1>2, <2>2 DEF Busy, Gone
<1>5. ASSUME At({"start", "sync"}) PROVE running_threads = 0
  <2>1. Busy \cup Lost = {} /\ Twice = {}
    BY <1>2, <1>5 DEF At, Busy, Twice, Gone
  <2> QED
    BY <1>2, <1>3, <2>1
<1>6. ASSUME At({"loop", "mid"}) PROVE running_threads <= totalDevices <=> At({"mid"})
  <2>1. Busy \cup Lost = Threads
    BY <1>1, <1>6 DEF At, Busy
  <2>2. Cardinality(Busy \cup Lost) = totalDevices
    BY <2>1 DEF totalDevices
  <2>3. running_threads <= totalDevices <=> Twice = {}
    <3>1. running_threads <= totalDevices <=> Cardinality(Twice) = 0
      BY <1>2, <2>2
    <3> QED
      BY <1>2, <1>3, <3>1
  <2>4. Twice = {} <=> At({"mid"})
    BY <1>6 DEF At, Twice
  <2> QED
    BY <2>3, <2>4
<1> QED
  BY <1>4, <1>5, <1>6

\* Where a thread goes.
LEMMA Moved ==
    ASSUME PlaceInv, NEW t \in Threads, NEW place, Goto(t, place)
    PROVE  pc'[t] = place /\ \A u \in Threads : u # t => pc'[u] = pc[u]
  BY DEF PlaceInv, Goto

\* Who is in the delay, when nobody enters or leaves it.
LEMMA SameDelay == ASSUME settling' = settling PROVE \A u \in Threads : Settling(u)' <=> Settling(u)
  BY DEF Settling, Contains

\* A slot is over when all delays are.
LEMMA DelaysOver ==
    ASSUME Quiet, PlaceInv, SlotOver PROVE settling = <<>> /\ \A u \in Threads : ~Settling(u)
<1>1. settling = <<>>
  BY DEF Quiet, SlotOver
<1>2. DOMAIN settling = 1 .. 0
  BY <1>1, EmptySeq
<1> QED
  BY <1>1, <1>2 DEF Settling, Contains

\* The first thread that leaves the delay knows that the others have seen what it saw.
LEMMA Leaving ==
    ASSUME Quiet, PlaceInv, NEW t \in Threads, Settled(t)
    PROVE  /\ Settling(t) /\ ~Settling(t)'
           /\ \A u \in Threads : u # t => (Settling(u)' <=> Settling(u))
           /\ \A u \in Threads : (Polling(u) => ~Free(u)) /\ ~Passing(u)
           /\ DOMAIN settling = 1 .. Len(settling) /\ Len(settling) \in Nat \ {0}
           /\ DOMAIN settling' = 1 .. Len(settling) - 1 /\ settling[1] = t
           /\ \A j \in 1 .. Len(settling) - 1 : settling'[j] = settling[j + 1]
<1>1. settling \in Seq(Threads) /\ IsInjective(settling) /\ "slow_notice" \notin Disturbances
  BY DEF PlaceInv, Quiet
<1> QED
  BY <1>1, LeftDelay

\* If everybody is at the wait that t leaves, all others are in the delay.
LEMMA AllNoticed ==
    ASSUME Quiet, PlaceInv, CountInv, NEW t \in Threads, Settled(t), NEW place \in {"start", "sync", "mid"},
           At({place})
    PROVE  \A u \in Threads : Settling(u)
<1>1. \A u \in Threads : pc[u] = place
  BY DEF At
<1>2. \A u \in Threads : Free(u)
  <2>1. CASE place \in {"start", "sync"}
    <3>1. At({"start", "sync"})
      BY <1>1, <2>1 DEF At
    <3> QED
      BY <1>1, <2>1, <3>1, Seen DEF Free
  <2>2. CASE place = "mid"
    <3>1. At({"loop", "mid"})
      BY <1>1, <2>2 DEF At
    <3>2. At({"mid"})
      BY <2>2
    <3> QED
      BY <1>1, <2>2, <3>1, <3>2, Seen DEF Free
  <2> QED
    BY <2>1, <2>2
<1>3. \A u \in Threads : ~Polling(u)
  BY <1>2, Leaving
<1> QED
  BY <1>1, <1>3 DEF Polling

-----------------------------------------------------------------------------
(* From phase to phase.                                                    *)

Step(t) == Begin(t) \/ OpenError(t) \/ streamData(t)

LEMMA NothingToPlayStep ==
    ASSUME PlaceInv, NothingToPlay, NEW t \in Threads, Step(t) PROVE NothingToPlay'
<1>1. activeSlots = 0 /\ \A u \in Threads : pc[u] \in {"new", "read", "start", "gone"}
  BY DEF NothingToPlay, At
<1>2. \/ pc' = pc
      \/ Goto(t, "read") \/ Goto(t, "start") \/ Goto(t, "gone")
  BY <1>1 DEF Step, streamData, Begin, OpenError, ReadDone, Notice, StartIntro, StartLap, GoOn,
              IntroSlot, IntroDone, LoopSlot, LapDone
<1>3. \A u \in Threads : pc'[u] \in {"new", "read", "start", "gone"}
  BY <1>1, <1>2, Moved
<1> QED
  BY <1>1, <1>3 DEF NothingToPlay, At

LEMMA GatheringStep ==
    ASSUME Quiet, PlaceInv, CountInv, Gathering, activeSlots > 0, NEW t \in Threads, Step(t), together'
    PROVE  Gathering' \/ Intro'
<1>1. /\ \A u \in Threads : pc[u] \in {"new", "read", "start", "gone"} /\ i[u] = 0 /\ lap[u] = 0
      /\ \A u, v \in Threads : /\ pc[u] = "start" => pc[v] # "new"
                               /\ Settling(u) => pc[v] = "start"
  BY DEF Gathering, At
<1>2. CASE Begin(t) \/ OpenError(t) \/ ReadDone(t)
  <2>1. /\ pc[t] \in {"new", "read"}
        /\ \/ pc[t] = "new" /\ pc'[t] = "read"
           \/ pc[t] = "read" /\ pc'[t] = "gone"
           \/ pc[t] = "read" /\ pc'[t] = "start" /\ \A u \in Threads : pc[u] # "new"
        /\ \A u \in Threads : u # t => pc'[u] = pc[u]
    BY <1>2, Moved DEF Begin, OpenError, ReadDone
  <2>2. UNCHANGED <<i, lap>> /\ \A u \in Threads : ~Settling(u)'
    <3>1. UNCHANGED <<i, lap, settling>>
      BY <1>2 DEF Begin, OpenError, ReadDone
    <3> QED
      BY <1>1, <2>1, <3>1, SameDelay
  <2>3. \A u \in Threads : pc'[u] \in {"new", "read", "start", "gone"}
    BY <1>1, <2>1
  <2>4. \A u, v \in Threads : pc'[u] = "start" => pc'[v] # "new"
    BY <1>1, <2>1
  <2> QED
    BY <1>1, <2>2, <2>3, <2>4 DEF Gathering, At
<1>3. CASE Notice(t)
  <2>1. UNCHANGED <<pc, i, lap>> /\ pc[t] = "start" /\ running_threads = 0
    BY <1>1, <1>3 DEF Notice, Polling, Free
  <2>2. \A u \in Threads : pc[u] = "start"
    BY <1>1, <2>1, Seen
  <2> QED
    BY <1>1, <2>1, <2>2 DEF Gathering, At
<1>4. CASE StartIntro(t)
  <2>1. Settled(t) /\ UNCHANGED <<i, lap>> /\ pc[t] = "start" /\ Goto(t, "intro")
    BY <1>4 DEF StartIntro
  <2>2. pc'[t] = "intro" /\ \A u \in Threads : u # t => pc'[u] = pc[u]
    BY <2>1, Moved
  <2>3. At({"start"})
    BY <1>1, <2>1, Leaving DEF At
  <2>4. \A u \in Threads : Settling(u)
    BY <2>1, <2>3, AllNoticed
  <2>5. \A u \in Threads : pc'[u] \in {"start", "intro"} /\ (pc'[u] = "start" => Settling(u)')
    BY <2>1, <2>2, <2>3, <2>4, Leaving DEF At
  <2>6. \A u \in Threads : i'[u] = 0 /\ lap'[u] = 0
    BY <1>1, <2>1
  <2>7. \A j \in DOMAIN settling' : pc'[settling'[j]] # "sync"
    <3>1. settling' \in Seq(Threads)
      BY <2>1, LeftDelay DEF PlaceInv
    <3> QED
      BY <2>5, <3>1, ElementOfSeq, LenProperties
  <2> QED
    BY <2>5, <2>6, <2>7 DEF Intro, At
<1> QED
  BY <1>1, <1>2, <1>3, <1>4 DEF Step, streamData, StartLap, GoOn, IntroSlot, IntroDone, LoopSlot, LapDone

LEMMA IntroStep ==
    ASSUME Quiet, PlaceInv, CountInv, Intro, NEW t \in Threads, Step(t)
    PROVE  Intro' \/ LapBegins' \/ EmptyLap'
<1>1. /\ activeSlots > 0
      /\ \A u \in Threads : /\ pc[u] \in {"start", "intro", "sync"} /\ lap[u] = 0
                            /\ pc[u] = "start" => Settling(u)
      /\ \A j, k \in DOMAIN settling :
            j < k /\ pc[settling[j]] = "sync" => pc[settling[k]] = "sync"
      /\ \A u, v \in Threads :
            /\ pc[u] = "start" /\ loopStart > 0 => pc[v] # "sync" /\ i[v] = 0
            /\ Settling(u) /\ pc[u] = "sync" /\ pc[v] = "intro" => loopStart = 0
  BY DEF Intro, At
<1>2. /\ pc \in [Threads -> Places] /\ i \in [Threads -> 0 .. 255] /\ settling \in Seq(Threads)
      /\ IsInjective(settling)
      /\ \A u \in Threads : Settling(u) => pc[u] \in {"start", "sync", "mid"}
  BY DEF PlaceInv
<1>3. Len(settling) \in Nat /\ DOMAIN settling = 1 .. Len(settling)
  BY <1>2, LenProperties
<1>4. loopStart \in 0 .. 255 /\ activeSlots \in 0 .. 255
  BY SlotsAssumption
<1>5. CASE Notice(t)
  <2>1. /\ pc[t] = "sync" /\ running_threads = 0 /\ ~Settling(t) /\ settling' = Append(settling, t)
        /\ UNCHANGED <<pc, i, lap>>
    BY <1>1, <1>5 DEF Notice, Polling, Free
  <2>2. \A u \in Threads : pc[u] # "intro"
    BY <2>1, Seen
  <2>3. /\ \A u \in Threads : Settling(u)' <=> Settling(u) \/ u = t
        /\ DOMAIN settling' = 1 .. Len(settling) + 1
        /\ \A k \in 1 .. Len(settling) : settling'[k] = settling[k]
        /\ settling'[Len(settling) + 1] = t
    BY <1>2, <2>1, Entered
  <2>4. ASSUME NEW j \in DOMAIN settling', NEW k \in DOMAIN settling', j < k, pc[settling'[j]] = "sync"
        PROVE  pc[settling'[k]] = "sync"
    <3>1. j \in 1 .. Len(settling)
      BY <1>3, <2>3, <2>4
    <3>2. CASE k = Len(settling) + 1
      BY <2>1, <2>3, <3>2
    <3>3. CASE k # Len(settling) + 1
      <4>1. k \in 1 .. Len(settling)
        BY <1>3, <2>3, <3>3
      <4> QED
        BY <1>1, <1>3, <2>3, <2>4, <3>1, <4>1
    <3> QED
      BY <3>2, <3>3
  <2>5. \A u \in Threads : pc[u] = "start" => Settling(u)'
    BY <1>1, <2>3
  <2> QED
    BY <1>1, <2>1, <2>2, <2>4, <2>5 DEF Intro, At
<1>6. CASE StartIntro(t)
  <2>1. Settled(t) /\ UNCHANGED <<i, lap>> /\ pc[t] = "start" /\ Goto(t, "intro")
    BY <1>1, <1>6 DEF StartIntro
  <2>2. pc'[t] = "intro" /\ \A u \in Threads : u # t => pc'[u] = pc[u]
    BY <2>1, Moved
  <2>3. /\ \A u \in Threads : u # t => (Settling(u)' <=> Settling(u))
        /\ ~Settling(t)' /\ Len(settling) \in Nat \ {0}
        /\ DOMAIN settling' = 1 .. Len(settling) - 1
        /\ \A j \in 1 .. Len(settling) - 1 : settling'[j] = settling[j + 1]
    BY <2>1, Leaving
  <2>4. \A u \in Threads : /\ pc'[u] \in {"start", "intro", "sync"} /\ lap'[u] = 0
                           /\ pc'[u] = "start" => Settling(u)'
    BY <1>1, <2>1, <2>2, <2>3
  <2>5. ASSUME NEW j \in DOMAIN settling', NEW k \in DOMAIN settling', j < k, pc'[settling'[j]] = "sync"
        PROVE  pc'[settling'[k]] = "sync"
    <3>1. /\ j + 1 \in 1 .. Len(settling) /\ k + 1 \in 1 .. Len(settling) /\ j + 1 < k + 1
          /\ settling'[j] = settling[j + 1] /\ settling'[k] = settling[k + 1]
      BY <2>3, <2>5
    <3>2. settling[j + 1] \in Threads /\ settling[k + 1] \in Threads
      BY <1>2, <3>1, ElementOfSeq
    <3>3. pc[settling[j + 1]] = "sync"
      BY <2>2, <2>5, <3>1, <3>2
    <3>4. pc[settling[k + 1]] = "sync"
      BY <1>1, <1>3, <3>1, <3>3
    <3> QED
      BY <2>1, <2>2, <3>1, <3>2, <3>4
  <2>6. ASSUME NEW u \in Threads, NEW v \in Threads
        PROVE  /\ pc'[u] = "start" /\ loopStart > 0 => pc'[v] # "sync" /\ i'[v] = 0
               /\ Settling(u)' /\ pc'[u] = "sync" /\ pc'[v] = "intro" => loopStart = 0
    <3>1. loopStart > 0 => pc[u] # "sync" /\ pc[v] # "sync" /\ i[v] = 0
      BY <1>1, <2>1
    <3>2. loopStart > 0 => pc'[u] # "sync" /\ pc'[v] # "sync" /\ i'[v] = 0
      BY <2>1, <2>2, <3>1
    <3> QED
      BY <1>4, <3>2
  <2> QED
    BY <1>1, <2>4, <2>5, <2>6 DEF Intro, At
<1>7. CASE StartLap(t)
  <2>1. /\ Settled(t) /\ lap' = lap /\ pc[t] = "sync" /\ Goto(t, "loop")
        /\ i' = [i EXCEPT ![t] = loopStart]
    BY <1>7 DEF StartLap
  <2>2. pc'[t] = "loop" /\ i'[t] = loopStart /\ \A u \in Threads : u # t => pc'[u] = pc[u]
    BY <1>2, <2>1, Moved
  <2>3. settling[1] = t /\ \A u \in Threads : ~Passing(u)
    BY <2>1, Leaving
  <2>4. ASSUME NEW u \in Threads PROVE pc[u] = "sync"
    <3>1. CASE pc[u] = "start"
      <4>1. PICK k \in DOMAIN settling : settling[k] = u
        BY <1>1, <3>1 DEF Settling, Contains
      <4>2. k \in 1 .. Len(settling) /\ k # 1
        BY <1>3, <2>1, <2>3, <3>1, <4>1
      <4>3. 1 \in DOMAIN settling /\ 1 < k
        BY <1>3, <4>2
      <4> QED
        BY <1>1, <2>1, <2>3, <4>1, <4>3
    <3>2. CASE pc[u] = "intro"
      <4>1. loopStart = 0
        BY <1>1, <2>1, <3>2, Leaving
      <4>2. i[u] \in 0 .. 255
        BY <1>2
      <4>3. i[u] >= loopStart
        BY <4>1, <4>2
      <4> QED
        BY <2>3, <3>2, <4>3 DEF Passing
    <3> QED
      BY <1>1, <3>1, <3>2
  <2>5. At({"sync"})
    BY <2>4 DEF At
  <2>6. \A u \in Threads : Settling(u)
    BY <2>1, <2>5, AllNoticed
  <2>7. \A u \in Threads : u # t => Settling(u)' /\ pc'[u] = "sync"
    BY <2>1, <2>2, <2>4, <2>6, Leaving
  <2>8. CASE loopStart < activeSlots
    BY <1>1, <2>1, <2>2, <2>7, <2>8 DEF LapBegins, At, SameLap
  <2>9. CASE ~(loopStart < activeSlots)
    <3>1. activeSlots <= loopStart /\ loopStart >= activeSlots
      BY <1>4, <2>9
    <3>2. \A u \in Threads : pc'[u] \in {"sync", "loop"} /\ (pc'[u] = "loop" => i'[u] >= activeSlots)
      BY <2>2, <2>7, <3>1
    <3> QED
      BY <3>1, <3>2 DEF EmptyLap, At
  <2> QED
    BY <2>8, <2>9
<1>8. CASE IntroSlot(t)
  <2>1. \A u \in Threads : ~Settling(u)
    BY <1>8, DelaysOver DEF IntroSlot
  <2>2. \A u \in Threads : pc[u] # "start" /\ ~Settling(u)'
    BY <1>1, <1>8, <2>1, SameDelay DEF IntroSlot
  <2>3. settling' = <<>> /\ UNCHANGED <<pc, lap>>
    BY <1>8, DelaysOver DEF IntroSlot
  <2>4. DOMAIN settling' = {}
    BY <2>3, EmptySeq
  <2> QED
    BY <1>1, <2>2, <2>3, <2>4 DEF Intro, At
<1>9. CASE IntroDone(t)
  <2>1. pc[t] = "intro" /\ i[t] >= loopStart /\ Goto(t, "sync") /\ UNCHANGED <<i, lap, settling>>
    BY <1>9 DEF IntroDone
  <2>2. pc'[t] = "sync" /\ \A u \in Threads : u # t => pc'[u] = pc[u]
    BY <2>1, Moved
  <2>3. ~Settling(t) /\ \A u \in Threads : Settling(u)' <=> Settling(u)
    BY <1>2, <2>1, SameDelay
  <2>4. \A j \in DOMAIN settling : pc'[settling[j]] = pc[settling[j]]
    <3>1. \A j \in DOMAIN settling : settling[j] \in Threads
      BY <1>2, <1>3, ElementOfSeq
    <3> QED
      BY <1>3, <2>2, <2>3, <3>1 DEF Settling, Contains
  <2>5. \A u \in Threads : pc[u] = "start" => ~(loopStart > 0)
    <3>1. i[t] \in 0 .. 255
      BY <1>2
    <3>2. i[t] = 0 => ~(loopStart > 0)
      BY <1>4, <2>1, <3>1
    <3> QED
      BY <1>1, <3>2
  <2>6. ASSUME NEW u \in Threads, NEW v \in Threads
        PROVE  /\ pc'[u] = "start" /\ loopStart > 0 => pc'[v] # "sync" /\ i'[v] = 0
               /\ Settling(u)' /\ pc'[u] = "sync" /\ pc'[v] = "intro" => loopStart = 0
    <3>1. pc'[u] = "start" => pc[u] = "start"
      BY <2>2
    <3>2. Settling(u)' /\ pc'[u] = "sync" /\ pc'[v] = "intro" => Settling(u) /\ pc[u] = "sync" /\ pc[v] = "intro"
      BY <2>2, <2>3
    <3> QED
      BY <1>1, <2>5, <3>1, <3>2
  <2>7. \A u \in Threads : /\ pc'[u] \in {"start", "intro", "sync"} /\ lap'[u] = 0
                           /\ pc'[u] = "start" => Settling(u)'
    BY <1>1, <2>1, <2>2, <2>3
  <2> QED
    BY <1>1, <2>1, <2>4, <2>6, <2>7 DEF Intro, At
<1> QED
  BY <1>1, <1>5, <1>6, <1>7, <1>8, <1>9
     DEF Step, streamData, Begin, OpenError, ReadDone, GoOn, LoopSlot, LapDone

LEMMA EmptyLapStep ==
    ASSUME PlaceInv, EmptyLap, NEW t \in Threads, Step(t) PROVE EmptyLap'
<1>1. /\ activeSlots <= loopStart /\ loopStart >= activeSlots
      /\ \A u \in Threads : pc[u] \in {"sync", "loop"} /\ (pc[u] = "loop" => i[u] >= activeSlots)
  BY SlotsAssumption DEF EmptyLap, At
<1>2. i \in [Threads -> 0 .. 255] /\ activeSlots \in 0 .. 255
  BY SlotsAssumption DEF PlaceInv
<1>3. CASE Notice(t)
  BY <1>3 DEF Notice, EmptyLap, At
<1>4. CASE StartLap(t)
  <2>1. /\ pc'[t] = "loop" /\ i'[t] = loopStart
        /\ \A u \in Threads : u # t => pc'[u] = pc[u] /\ i'[u] = i[u]
    BY <1>2, <1>4, Moved DEF StartLap
  <2>2. \A u \in Threads : pc'[u] \in {"sync", "loop"} /\ (pc'[u] = "loop" => i'[u] >= activeSlots)
    BY <1>1, <2>1
  <2> QED
    BY <1>1, <2>2 DEF EmptyLap, At
<1>5. CASE LapDone(t)
  <2>1. pc'[t] = "sync" /\ (\A u \in Threads : u # t => pc'[u] = pc[u]) /\ i' = i
    BY <1>5, Moved DEF LapDone
  <2> QED
    BY <1>1, <2>1 DEF EmptyLap, At
<1>6. ~LoopSlot(t)
  <2>1. i[t] \in 0 .. 255
    BY <1>2
  <2>2. i[t] >= activeSlots => ~(i[t] < activeSlots)
    BY <1>2, <2>1
  <2> QED
    BY <1>1, <2>2 DEF LoopSlot
<1> QED
  BY <1>1, <1>3, <1>4, <1>5, <1>6
     DEF Step, streamData, Begin, OpenError, ReadDone, StartIntro, GoOn, IntroSlot, IntroDone

\* What playing a slot of the loop does, when no delay is under way.
LEMMA SlotPlayed ==
    ASSUME Quiet, PlaceInv, NEW t \in Threads, LoopSlot(t)
    PROVE  /\ pc[t] = "loop" /\ i[t] < activeSlots /\ lap' = lap
           /\ \A u \in Threads : ~Settling(u) /\ ~Settling(u)'
           /\ \A u \in Threads : u # t => pc'[u] = pc[u] /\ i'[u] = i[u]
           /\ IF SyncSlot(i[t]) THEN pc'[t] = "mid" /\ i'[t] = i[t]
                                ELSE pc'[t] = "loop" /\ i'[t] = i[t] + 1
<1>1. pc[t] = "loop" /\ i[t] < activeSlots /\ SlotOver /\ UNCHANGED <<lap, settling>>
  BY DEF LoopSlot
<1>2. \A u \in Threads : ~Settling(u) /\ ~Settling(u)'
  BY <1>1, DelaysOver, SameDelay
<1>3. CASE SyncSlot(i[t])
  <2>1. Goto(t, "mid") /\ i' = i
    BY <1>3 DEF LoopSlot
  <2> QED
    BY <1>1, <1>2, <1>3, <2>1, Moved
<1>4. CASE ~SyncSlot(i[t])
  <2>1. i' = [i EXCEPT ![t] = @ + 1] /\ pc' = pc
    BY <1>4 DEF LoopSlot
  <2>2. i[t] \in 0 .. 255 /\ i \in [Threads -> 0 .. 255]
    BY DEF PlaceInv
  <2>3. i[t] + 1 \in 0 .. 255
    BY <1>1, <2>2, SlotsAssumption
  <2> QED
    BY <1>1, <1>2, <1>4, <2>1, <2>2, <2>3, OneMore
<1> QED
  BY <1>3, <1>4

\* A thread comes to the end of the loop.
LEMMA LapPlayed ==
    ASSUME PlaceInv, NEW t \in Threads, LapDone(t)
    PROVE  /\ pc[t] = "loop" /\ i[t] >= activeSlots /\ pc'[t] = "sync" /\ lap'[t] = (lap[t] + 1) % Laps
           /\ \A u \in Threads : u # t => pc'[u] = pc[u] /\ lap'[u] = lap[u]
           /\ i' = i /\ \A u \in Threads : Settling(u)' <=> Settling(u)
<1>1. /\ pc[t] = "loop" /\ i[t] >= activeSlots /\ Goto(t, "sync") /\ UNCHANGED <<i, settling>>
      /\ lap' = [lap EXCEPT ![t] = (@ + 1) % Laps]
  BY DEF LapDone
<1>2. lap \in [Threads -> 0 .. Laps - 1]
  BY DEF PlaceInv
<1>3. lap'[t] = (lap[t] + 1) % Laps /\ \A u \in Threads : u # t => lap'[u] = lap[u]
  BY <1>1, <1>2
<1> QED
  BY <1>1, <1>3, Moved, SameDelay

\* A thread begins a lap, or goes on with it.
LEMMA LapEntered ==
    ASSUME PlaceInv, NEW t \in Threads, StartLap(t) \/ GoOn(t)
    PROVE  /\ Settled(t) /\ pc'[t] = "loop" /\ lap' = lap
           /\ \A u \in Threads : u # t => pc'[u] = pc[u] /\ i'[u] = i[u]
           /\ StartLap(t) => pc[t] = "sync" /\ i'[t] = loopStart
           /\ GoOn(t) => /\ pc[t] = "mid" /\ i'[t] = i[t] + 1 /\ SyncSlot(i[t])
                         /\ i[t] \in loopStart .. activeSlots
<1>1. i \in [Threads -> 0 .. 255] /\ i[t] \in 0 .. 255 /\ loopStart \in 0 .. 255 /\ activeSlots \in 0 .. 255
  BY SlotsAssumption DEF PlaceInv
<1>2. CASE StartLap(t)
  <2>1. Settled(t) /\ Goto(t, "loop") /\ lap' = lap /\ pc[t] = "sync" /\ i' = [i EXCEPT ![t] = loopStart]
    BY <1>2 DEF StartLap
  <2> QED
    BY <1>1, <2>1, Moved DEF GoOn
<1>3. CASE GoOn(t)
  <2>1. Settled(t) /\ Goto(t, "loop") /\ lap' = lap /\ pc[t] = "mid" /\ i' = [i EXCEPT ![t] = @ + 1]
    BY <1>3 DEF GoOn
  <2>2. SyncSlot(i[t]) /\ loopStart <= i[t]
    BY <2>1 DEF PlaceInv
  <2>3. i[t] < activeSlots - 3
    BY <2>2 DEF SyncSlot
  <2>4. i[t] \in loopStart .. activeSlots /\ i[t] + 1 \in 0 .. 255
    BY <1>1, <2>2, <2>3
  <2> QED
    BY <1>1, <2>1, <2>2, <2>4, Moved, OneMore DEF StartLap
<1> QED
  BY <1>2, <1>3

\* There is at most one slot after which the threads wait.
LEMMA OneSyncSlot ==
    ASSUME NEW m \in loopStart .. activeSlots, NEW n \in loopStart .. activeSlots, SyncSlot(m), SyncSlot(n)
    PROVE  m = n
<1>1. loopStart \in 0 .. 255 /\ m \in Int /\ n \in Int /\ m % 5 = 0 /\ n % 5 = 0
      /\ loopStart <= m /\ loopStart <= n /\ m < loopStart + 3 /\ n < loopStart + 3
  BY SlotsAssumption DEF SyncSlot
<1> QED
  BY <1>1

LEMMA LapBeginsStep ==
    ASSUME Quiet, PlaceInv, LapBegins, NEW t \in Threads, Step(t) PROVE LapBegins' \/ FirstStretch'
<1>1. /\ loopStart < activeSlots
      /\ \A u \in Threads : /\ pc[u] \in {"sync", "loop"}
                            /\ pc[u] = "sync" => Settling(u)
                            /\ pc[u] = "loop" => i[u] = loopStart
      /\ \A u, v \in Threads : lap[u] = lap[v]
  BY DEF LapBegins, At, SameLap
<1>2. loopStart \in 0 .. 255 /\ activeSlots \in 0 .. 255
  BY SlotsAssumption
<1>3. CASE StartLap(t)
  <2>1. /\ Settled(t) /\ pc'[t] = "loop" /\ lap' = lap /\ i'[t] = loopStart
        /\ \A u \in Threads : u # t => pc'[u] = pc[u] /\ i'[u] = i[u]
    BY <1>3, LapEntered
  <2>2. \A u \in Threads : u # t => (Settling(u)' <=> Settling(u))
    BY <2>1, Leaving
  <2>3. \A u \in Threads : /\ pc'[u] \in {"sync", "loop"}
                           /\ pc'[u] = "sync" => Settling(u)'
                           /\ pc'[u] = "loop" => i'[u] = loopStart
    BY <1>1, <2>1, <2>2
  <2> QED
    BY <1>1, <2>1, <2>3 DEF LapBegins, At, SameLap
<1>4. CASE LoopSlot(t)
  <2>1. \A u \in Threads : pc[u] = "loop" /\ i[u] = loopStart
    BY <1>1, <1>4, SlotPlayed
  <2>2. /\ lap' = lap /\ \A u \in Threads : ~Settling(u)'
        /\ \A u \in Threads : u # t => pc'[u] = pc[u] /\ i'[u] = i[u]
        /\ IF SyncSlot(loopStart) THEN pc'[t] = "mid" /\ i'[t] = loopStart
                                  ELSE pc'[t] = "loop" /\ i'[t] = loopStart + 1
    BY <1>4, <2>1, SlotPlayed
  <2>3. ASSUME NEW m \in loopStart .. activeSlots, SyncSlot(m) PROVE \A u \in Threads : i'[u] <= m
    <3>1. loopStart <= m /\ (~SyncSlot(loopStart) => loopStart + 1 <= m)
      BY <1>2, <2>3
    <3> QED
      BY <2>1, <2>2, <3>1
  <2>4. At({"loop", "mid"})'
    BY <2>1, <2>2 DEF At
  <2> QED
    BY <1>1, <2>2, <2>3, <2>4 DEF FirstStretch, SameLap, Ahead
<1>5. ~LapDone(t)
  <2>1. loopStart >= activeSlots => FALSE
    BY <1>1, <1>2
  <2> QED
    BY <1>1, <2>1 DEF LapDone
<1>6. ~Notice(t)
  BY <1>1 DEF Notice, Polling
<1> QED
  BY <1>1, <1>3, <1>4, <1>5, <1>6
     DEF Step, streamData, Begin, OpenError, ReadDone, StartIntro, GoOn, IntroSlot, IntroDone

\* Whoever goes on from the wait has its only slot of that kind behind.
LEMMA NowBehind ==
    ASSUME PlaceInv, NEW t \in Threads, GoOn(t) PROVE Behind(t)' /\ i'[t] < activeSlots
<1>1. i'[t] = i[t] + 1 /\ SyncSlot(i[t]) /\ i[t] \in loopStart .. activeSlots
  BY LapEntered
<1>2. \A m \in loopStart .. activeSlots : SyncSlot(m) => m = i[t]
  BY <1>1, OneSyncSlot
<1>3. i[t] + 1 < activeSlots /\ i[t] < i[t] + 1
  BY <1>1, SlotsAssumption DEF SyncSlot
<1> QED
  BY <1>1, <1>2, <1>3 DEF Behind

LEMMA FirstStretchStep ==
    ASSUME Quiet, PlaceInv, CountInv, FirstStretch, NEW t \in Threads, Step(t)
    PROVE  FirstStretch' \/ GoingOn' \/ LastStretch'
<1>1. /\ \A u \in Threads : pc[u] \in {"loop", "mid"}
      /\ \A u, v \in Threads : lap[u] = lap[v] /\ (Settling(u) => pc[v] = "mid")
      /\ \A u \in Threads : \A m \in loopStart .. activeSlots : SyncSlot(m) => i[u] <= m
  BY DEF FirstStretch, At, SameLap, Ahead
<1>2. loopStart \in 0 .. 255 /\ activeSlots \in 0 .. 255
  BY SlotsAssumption
<1>3. CASE Notice(t)
  <2>1. pc[t] = "mid" /\ running_threads <= totalDevices /\ UNCHANGED <<pc, i, lap>>
    BY <1>1, <1>3 DEF Notice, Polling, Free
  <2>2. \A u \in Threads : pc[u] = "mid"
    BY <1>1, <2>1, Seen DEF At
  <2> QED
    BY <1>1, <2>1, <2>2 DEF FirstStretch, At, SameLap, Ahead
<1>4. CASE GoOn(t)
  <2>1. /\ Settled(t) /\ pc'[t] = "loop" /\ lap' = lap
        /\ \A u \in Threads : u # t => pc'[u] = pc[u] /\ i'[u] = i[u]
    BY <1>4, LapEntered
  <2>2. At({"mid"})
    BY <1>1, <2>1, Leaving DEF At
  <2>3. \A u \in Threads : Settling(u)
    BY <2>1, <2>2, AllNoticed
  <2>4. \A u \in Threads : u # t => Settling(u)' /\ pc'[u] = "mid"
    BY <2>1, <2>2, <2>3, Leaving DEF At
  <2>5. Behind(t)' /\ i'[t] < activeSlots
    BY <1>4, NowBehind
  <2>6. \A u \in Threads : /\ pc'[u] = "mid" => Settling(u)'
                           /\ pc'[u] = "loop" => u = t
                           /\ pc'[u] \in {"loop", "mid"}
    BY <2>1, <2>4
  <2> QED
    BY <1>1, <2>1, <2>5, <2>6 DEF GoingOn, At, SameLap
<1>5. CASE LoopSlot(t)
  <2>1. /\ pc[t] = "loop" /\ lap' = lap /\ \A u \in Threads : ~Settling(u)'
        /\ \A u \in Threads : u # t => pc'[u] = pc[u] /\ i'[u] = i[u]
        /\ IF SyncSlot(i[t]) THEN pc'[t] = "mid" /\ i'[t] = i[t]
                             ELSE pc'[t] = "loop" /\ i'[t] = i[t] + 1
    BY <1>5, SlotPlayed
  <2>2. ASSUME NEW m \in loopStart .. activeSlots, SyncSlot(m) PROVE i'[t] <= m
    <3>1. i[t] \in 0 .. 255 /\ i[t] <= m
      BY <1>1, <2>2 DEF PlaceInv
    <3>2. ~SyncSlot(i[t]) => i[t] + 1 <= m
      BY <1>2, <2>2, <3>1
    <3> QED
      BY <2>1, <3>1, <3>2
  <2>3. \A u \in Threads : \A m \in loopStart .. activeSlots : SyncSlot(m) => i'[u] <= m
    BY <1>1, <2>1, <2>2
  <2>4. At({"loop", "mid"})'
    BY <1>1, <2>1 DEF At
  <2> QED
    BY <1>1, <2>1, <2>3, <2>4 DEF FirstStretch, SameLap, Ahead
<1>6. CASE LapDone(t)
  <2>1. /\ pc[t] = "loop" /\ i[t] >= activeSlots /\ pc'[t] = "sync" /\ lap'[t] = (lap[t] + 1) % Laps
        /\ \A u \in Threads : u # t => pc'[u] = pc[u] /\ lap'[u] = lap[u]
        /\ \A u \in Threads : Settling(u)' <=> Settling(u)
    BY <1>6, LapPlayed
  <2>2. ASSUME NEW m \in loopStart .. activeSlots, SyncSlot(m) PROVE FALSE
    <3>1. i[t] \in 0 .. 255 /\ i[t] <= m /\ m < activeSlots - 3
      BY <1>1, <2>2 DEF PlaceInv, SyncSlot
    <3> QED
      BY <1>2, <2>1, <3>1
  <2>3. ASSUME NEW u \in Threads PROVE pc[u] = "loop"
    <3>1. SUFFICES ASSUME pc[u] = "mid" PROVE FALSE
      BY <1>1
    <3>2. SyncSlot(i[u]) /\ loopStart <= i[u] /\ i[u] \in 0 .. 255
      BY <3>1 DEF PlaceInv
    <3>3. i[u] \in loopStart .. activeSlots
      BY <1>2, <3>2 DEF SyncSlot
    <3> QED
      BY <2>2, <3>2, <3>3
  <2>4. \A u \in Threads : ~Settling(u)' /\ Behind(u)'
    BY <1>1, <2>1, <2>2 DEF Behind
  <2>5. \A u \in Threads : u # t => pc'[u] = "loop" /\ lap'[u] = lap[t]
    BY <1>1, <2>1, <2>3
  <2>6. At({"loop", "sync"})'
    BY <2>1, <2>5 DEF At
  <2>7. \A u, v \in Threads : /\ pc'[u] = pc'[v] => lap'[u] = lap'[v]
                              /\ pc'[u] = "loop" /\ pc'[v] = "sync" => lap'[v] = (lap'[u] + 1) % Laps
    BY <2>1, <2>5
  <2> QED
    BY <2>4, <2>6, <2>7 DEF LastStretch
<1> QED
  BY <1>1, <1>3, <1>4, <1>5, <1>6
     DEF Step, streamData, Begin, OpenError, ReadDone, StartIntro, StartLap, IntroSlot, IntroDone

\* A slot after the wait is not followed by another wait.
LEMMA StaysBehind ==
    ASSUME Quiet, PlaceInv, NEW t \in Threads, LoopSlot(t), Behind(t)
    PROVE  /\ pc'[t] = "loop" /\ Behind(t)' /\ lap' = lap
           /\ \A u \in Threads : ~Settling(u) /\ ~Settling(u)'
           /\ \A u \in Threads : u # t => pc'[u] = pc[u] /\ (Behind(u) => Behind(u)')
<1>1. /\ pc[t] = "loop" /\ i[t] < activeSlots /\ lap' = lap
      /\ \A u \in Threads : ~Settling(u) /\ ~Settling(u)'
      /\ \A u \in Threads : u # t => pc'[u] = pc[u] /\ i'[u] = i[u]
      /\ IF SyncSlot(i[t]) THEN pc'[t] = "mid" /\ i'[t] = i[t]
                           ELSE pc'[t] = "loop" /\ i'[t] = i[t] + 1
  BY SlotPlayed
<1>2. i[t] \in 0 .. 255 /\ loopStart <= i[t]
  BY <1>1 DEF PlaceInv
<1>3. i[t] \in loopStart .. activeSlots
  BY <1>1, <1>2, SlotsAssumption
<1>4. ~SyncSlot(i[t])
  <2>1. SyncSlot(i[t]) => i[t] < i[t]
    BY <1>3 DEF Behind
  <2> QED
    BY <1>2, <2>1
<1>5. \A m \in loopStart .. activeSlots : m < i[t] => m < i[t] + 1
  BY <1>2, SlotsAssumption
<1> QED
  BY <1>1, <1>4, <1>5 DEF Behind

LEMMA GoingOnStep ==
    ASSUME Quiet, PlaceInv, GoingOn, NEW t \in Threads, Step(t) PROVE GoingOn' \/ LastStretch'
<1>1. /\ \A u \in Threads : /\ pc[u] \in {"loop", "mid"}
                            /\ pc[u] = "mid" => Settling(u)
                            /\ pc[u] = "loop" => Behind(u) /\ i[u] < activeSlots
      /\ \A u, v \in Threads : lap[u] = lap[v]
  BY DEF GoingOn, At, SameLap
<1>2. CASE GoOn(t)
  <2>1. /\ Settled(t) /\ pc'[t] = "loop" /\ lap' = lap
        /\ \A u \in Threads : u # t => pc'[u] = pc[u] /\ i'[u] = i[u]
    BY <1>2, LapEntered
  <2>2. \A u \in Threads : u # t => (Settling(u)' <=> Settling(u))
    BY <2>1, Leaving
  <2>3. Behind(t)' /\ i'[t] < activeSlots
    BY <1>2, NowBehind
  <2>4. \A u \in Threads : u # t /\ Behind(u) => Behind(u)'
    BY <2>1 DEF Behind
  <2>5. \A u \in Threads : /\ pc'[u] \in {"loop", "mid"}
                           /\ pc'[u] = "mid" => Settling(u)'
                           /\ pc'[u] = "loop" => Behind(u)' /\ i'[u] < activeSlots
    BY <1>1, <2>1, <2>2, <2>3, <2>4
  <2> QED
    BY <1>1, <2>1, <2>5 DEF GoingOn, At, SameLap
<1>3. CASE LoopSlot(t)
  <2>1. pc[t] = "loop"
    BY <1>3 DEF LoopSlot
  <2>2. /\ pc'[t] = "loop" /\ Behind(t)' /\ lap' = lap
        /\ \A u \in Threads : ~Settling(u) /\ ~Settling(u)'
        /\ \A u \in Threads : u # t => pc'[u] = pc[u] /\ (Behind(u) => Behind(u)')
    BY <1>1, <1>3, <2>1, StaysBehind
  <2>3. \A u \in Threads : pc'[u] = "loop" /\ Behind(u)'
    BY <1>1, <2>2
  <2> QED
    BY <1>1, <2>2, <2>3 DEF LastStretch, At
<1>4. ~LapDone(t)
  <2>1. i[t] \in 0 .. 255 /\ activeSlots \in 0 .. 255
    BY SlotsAssumption DEF PlaceInv
  <2>2. i[t] < activeSlots => ~(i[t] >= activeSlots)
    BY <2>1
  <2> QED
    BY <1>1, <2>2 DEF LapDone
<1>5. ~Notice(t)
  BY <1>1 DEF Notice, Polling
<1> QED
  BY <1>1, <1>2, <1>3, <1>4, <1>5
     DEF Step, streamData, Begin, OpenError, ReadDone, StartIntro, StartLap, IntroSlot, IntroDone

LEMMA LastStretchStep ==
    ASSUME Quiet, PlaceInv, CountInv, LastStretch, NEW t \in Threads, Step(t)
    PROVE  LastStretch' \/ LapBegins' \/ EmptyLap'
<1>1. /\ \A u \in Threads : pc[u] \in {"loop", "sync"} /\ (pc[u] = "loop" => Behind(u))
      /\ \A u, v \in Threads :
            /\ pc[u] = pc[v] => lap[u] = lap[v]
            /\ pc[u] = "loop" /\ pc[v] = "sync" => lap[v] = (lap[u] + 1) % Laps
            /\ Settling(u) => pc[v] = "sync"
  BY DEF LastStretch, At
<1>2. CASE Notice(t)
  <2>1. pc[t] = "sync" /\ running_threads = 0 /\ UNCHANGED <<pc, i, lap>>
    BY <1>1, <1>2 DEF Notice, Polling, Free
  <2>2. \A u \in Threads : pc[u] = "sync"
    BY <1>1, <2>1, Seen
  <2> QED
    BY <1>1, <2>1, <2>2 DEF LastStretch, At
<1>3. CASE StartLap(t)
  <2>1. /\ Settled(t) /\ pc'[t] = "loop" /\ lap' = lap /\ i'[t] = loopStart
        /\ \A u \in Threads : u # t => pc'[u] = pc[u] /\ i'[u] = i[u]
    BY <1>3, LapEntered
  <2>2. At({"sync"})
    BY <1>1, <2>1, Leaving DEF At
  <2>3. \A u \in Threads : Settling(u)
    BY <2>1, <2>2, AllNoticed
  <2>4. \A u \in Threads : u # t => Settling(u)' /\ pc'[u] = "sync"
    BY <2>1, <2>2, <2>3, Leaving DEF At
  <2>5. \A u, v \in Threads : lap'[u] = lap'[v]
    BY <1>1, <2>1, <2>2 DEF At
  <2>6. \A u \in Threads : /\ pc'[u] \in {"sync", "loop"}
                           /\ pc'[u] = "sync" => Settling(u)'
                           /\ pc'[u] = "loop" => i'[u] = loopStart
    BY <2>1, <2>4
  <2>7. CASE loopStart < activeSlots
    BY <2>5, <2>6, <2>7 DEF LapBegins, At, SameLap
  <2>8. CASE ~(loopStart < activeSlots)
    <3>1. activeSlots <= loopStart /\ loopStart >= activeSlots
      BY <2>8, SlotsAssumption
    <3> QED
      BY <2>6, <3>1 DEF EmptyLap, At
  <2> QED
    BY <2>7, <2>8
<1>4. CASE LoopSlot(t)
  <2>1. pc[t] = "loop"
    BY <1>4 DEF LoopSlot
  <2>2. /\ pc'[t] = "loop" /\ Behind(t)' /\ lap' = lap
        /\ \A u \in Threads : ~Settling(u) /\ ~Settling(u)'
        /\ \A u \in Threads : u # t => pc'[u] = pc[u] /\ (Behind(u) => Behind(u)')
    BY <1>1, <1>4, <2>1, StaysBehind
  <2>3. \A u \in Threads : pc'[u] = pc[u] /\ (pc'[u] = "loop" => Behind(u)')
    BY <1>1, <2>1, <2>2
  <2> QED
    BY <1>1, <2>2, <2>3 DEF LastStretch, At
<1>5. CASE LapDone(t)
  <2>1. /\ pc[t] = "loop" /\ pc'[t] = "sync" /\ lap'[t] = (lap[t] + 1) % Laps
        /\ \A u \in Threads : u # t => pc'[u] = pc[u] /\ lap'[u] = lap[u]
        /\ i' = i /\ \A u \in Threads : Settling(u)' <=> Settling(u)
    BY <1>5, LapPlayed
  <2>2. \A u \in Threads : ~Settling(u)'
    BY <1>1, <2>1
  <2>3. \A u \in Threads : pc'[u] \in {"loop", "sync"} /\ (pc'[u] = "loop" => Behind(u)')
    BY <1>1, <2>1 DEF Behind
  <2>4. ASSUME NEW u \in Threads
        PROVE  /\ pc'[u] = "loop" => lap'[u] = lap[t]
               /\ pc'[u] = "sync" => lap'[u] = (lap[t] + 1) % Laps
    BY <1>1, <2>1
  <2> QED
    BY <2>2, <2>3, <2>4 DEF LastStretch, At
<1> QED
  BY <1>1, <1>2, <1>3, <1>4, <1>5
     DEF Step, streamData, Begin, OpenError, ReadDone, StartIntro, GoOn, IntroSlot, IntroDone

-----------------------------------------------------------------------------
(* The devices stay in step.                                               *)

\* In each phase, whoever plays is in the same stretch of the same lap.
LEMMA PhasesInStep == ASSUME PlaceInv, Phases PROVE InStep
<1> SUFFICES ASSUME NEW t \in Threads, NEW u \in Threads, Playing(t), Playing(u)
             PROVE  Stretch(t) = Stretch(u) /\ lap[t] = lap[u]
  BY DEF InStep
<1>1. /\ loopStart \in 0 .. 255 /\ activeSlots \in 0 .. 255
      /\ \A v \in Threads : i[v] \in 0 .. 255
  BY SlotsAssumption DEF PlaceInv
<1>2. /\ pc[t] \in {"intro", "loop"} /\ pc[u] \in {"intro", "loop"}
  BY DEF Playing
<1> DEFINE Passed(v) == {m \in loopStart .. i[v] - 1 : SyncSlot(m)}
<1>3. \A v \in Threads : pc[v] = "loop" => Stretch(v) = Cardinality(Passed(v))
  BY DEF Stretch
<1>4. ASSUME NEW v \in Threads, NEW m \in Passed(v) PROVE m \in loopStart .. activeSlots /\ SyncSlot(m) /\ m < i[v]
  <2>1. m \in loopStart .. i[v] - 1 /\ SyncSlot(m) /\ i[v] \in 0 .. 255
    BY <1>1, <1>4
  <2> QED
    BY <1>1, <2>1 DEF SyncSlot
<1>5. CASE NothingToPlay \/ Gathering
  BY <1>2, <1>5 DEF NothingToPlay, Gathering, At
<1>6. CASE Intro
  BY <1>2, <1>6 DEF Intro, At, Stretch
<1>7. CASE EmptyLap
  <2>1. i[t] >= activeSlots => ~(i[t] < activeSlots)
    BY <1>1
  <2> QED
    BY <1>2, <1>7, <2>1 DEF EmptyLap, At, Playing
<1>8. CASE LapBegins
  <2>1. pc[t] = "loop" /\ pc[u] = "loop" /\ i[t] = loopStart /\ i[u] = loopStart /\ lap[t] = lap[u]
    BY <1>2, <1>8 DEF LapBegins, At, SameLap
  <2> QED
    BY <1>3, <2>1
<1>9. CASE FirstStretch
  <2>1. pc[t] = "loop" /\ pc[u] = "loop" /\ Ahead(t) /\ Ahead(u) /\ lap[t] = lap[u]
    BY <1>2, <1>9 DEF FirstStretch, At, SameLap
  <2>2. ASSUME NEW v \in Threads, Ahead(v) PROVE Passed(v) = {}
    <3>1. SUFFICES ASSUME NEW m \in Passed(v) PROVE FALSE
      OBVIOUS
    <3>2. m \in loopStart .. activeSlots /\ m < i[v] /\ i[v] <= m
      BY <1>4, <2>2, <3>1 DEF Ahead
    <3> QED
      BY <1>1, <3>2
  <2> QED
    BY <1>3, <2>1, <2>2
<1>10. ASSUME pc[t] = "loop", pc[u] = "loop", Behind(t), Behind(u) PROVE Stretch(t) = Stretch(u)
  <2>1. ASSUME NEW v \in Threads, Behind(v)
        PROVE  Passed(v) = {m \in loopStart .. activeSlots : SyncSlot(m)}
    <3>1. ASSUME NEW m \in loopStart .. activeSlots, SyncSlot(m) PROVE m \in Passed(v)
      <4>1. m < i[v] /\ i[v] \in 0 .. 255
        BY <1>1, <2>1, <3>1 DEF Behind
      <4>2. m \in loopStart .. i[v] - 1
        BY <1>1, <4>1
      <4> QED
        BY <3>1, <4>2
    <3> QED
      BY <1>4, <3>1
  <2> QED
    BY <1>3, <1>10, <2>1
<1>11. CASE GoingOn
  BY <1>2, <1>10, <1>11 DEF GoingOn, At, SameLap
<1>12. CASE LastStretch
  BY <1>2, <1>10, <1>12 DEF LastStretch, At
<1> QED
  BY <1>5, <1>6, <1>7, <1>8, <1>9, <1>11, <1>12 DEF Phases

\* Every step leads from phase to phase.
LEMMA PhaseStep ==
    ASSUME Quiet, PlaceInv, CountInv, PhaseInv, [Next]_vars PROVE PhaseInv'
<1> SUFFICES ASSUME together' PROVE Phases'
  BY DEF PhaseInv
<1>1. ASSUME NEW t \in Threads, Step(t) PROVE Phases'
  <2>1. Phases
    <3>1. together
      BY <1>1 DEF Step, streamData, Begin, OpenError, ReadDone, Notice, StartIntro, StartLap, GoOn,
                  IntroSlot, IntroDone, LoopSlot, LapDone
    <3> QED
      BY <3>1 DEF PhaseInv
  <2>2. CASE NothingToPlay
    BY <1>1, <2>2, NothingToPlayStep DEF Phases
  <2>3. CASE Gathering /\ activeSlots = 0
    BY <1>1, <2>3, NothingToPlayStep DEF Phases, Gathering, NothingToPlay
  <2>4. CASE Gathering /\ activeSlots # 0
    <3>1. activeSlots > 0
      BY <2>4, SlotsAssumption
    <3> QED
      BY <1>1, <2>4, <3>1, GatheringStep DEF Phases
  <2>5. CASE Intro
    BY <1>1, <2>5, IntroStep DEF Phases
  <2>6. CASE EmptyLap
    BY <1>1, <2>6, EmptyLapStep DEF Phases
  <2>7. CASE LapBegins
    BY <1>1, <2>7, LapBeginsStep DEF Phases
  <2>8. CASE FirstStretch
    BY <1>1, <2>8, FirstStretchStep DEF Phases
  <2>9. CASE GoingOn
    BY <1>1, <2>9, GoingOnStep DEF Phases
  <2>10. CASE LastStretch
    BY <1>1, <2>10, LastStretchStep DEF Phases
  <2> QED
    BY <2>1, <2>2, <2>3, <2>4, <2>5, <2>6, <2>7, <2>8, <2>9, <2>10 DEF Phases
<1>2. CASE UNCHANGED vars
  BY <1>2, SameDelay DEF vars, PhaseInv, Phases, NothingToPlay, Gathering, Intro, EmptyLap, LapBegins,
     FirstStretch, GoingOn, LastStretch, At, SameLap, Ahead, Behind
<1> QED
  BY <1>1, <1>2 DEF Next, Step

\* If every thread has counted itself in before the first is done with its file, all
\* devices that play are in the same stretch of the same lap, for good: for any number
\* of devices and any file, with or without threads that leave on an error, as long as
\* the 5 ms suffice, no slot is quicker than they, and no unlocked update is lost.
THEOREM StaysInStep ==
    ASSUME Disturbances \cap {"slow_notice", "quick_slot", "lost_update"} = {}
    PROVE  Spec => []TogetherInStep
<1>1. Quiet /\ "lost_update" \notin Disturbances
  BY DEF Quiet
<1>2. Init => PlaceInv /\ CountInv /\ PhaseInv
  <2> SUFFICES ASSUME Init PROVE PhaseInv
    BY AtFirst
  <2>1. \A u \in Threads : ~Settling(u)
    BY AtFirst DEF PlaceInv, Init
  <2> QED
    BY <2>1 DEF Init, PhaseInv, Phases, Gathering, At
<1>3. PlaceInv /\ CountInv /\ PhaseInv /\ [Next]_vars => PlaceInv' /\ CountInv' /\ PhaseInv'
  BY <1>1, PlaceStep, CountStep, PhaseStep
<1>4. PlaceInv /\ PhaseInv => TogetherInStep
  BY PhasesInStep DEF PhaseInv, TogetherInStep
<1> QED
  BY <1>2, <1>3, <1>4, PTL DEF Spec

=============================================================================
