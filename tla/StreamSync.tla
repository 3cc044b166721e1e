----------------------------- MODULE StreamSync -----------------------------
(***************************************************************************)
(* "ptrim all stream file": one thread per device plays the same file with *)
(* streamData(), and the threads keep in step through running_threads, an  *)
(* unlocked counter.  A thread adds its weight to the counter while it is  *)
(* busy and takes it away to wait until the counter has come down; it      *)
(* polls every millisecond, and then sleeps 5 ms so that all the others    *)
(* notice as well before it counts itself in again.                        *)
(***************************************************************************)
EXTENDS Integers, Sequences, FiniteSets, SequencesExt

CONSTANTS
    Threads,        \* one for each selected device
    loopStart,      \* first slot of the part that is repeated
    activeSlots,    \* slots of the file
    Laps,           \* laps are counted modulo Laps
    Disturbances    \* what goes wrong beyond a quiet run

(***************************************************************************)
(* open_error   a thread does not get the file open, or not its format     *)
(* slow_notice  5 ms do not suffice for the others to notice               *)
(* quick_slot   a slot is over before the others have counted themselves in*)
(* lost_update  two unlocked updates of running_threads overlap            *)
(***************************************************************************)
ASSUME ThreadsAssumption == IsFiniteSet(Threads) /\ Cardinality(Threads) \in 1 .. 127
ASSUME SlotsAssumption   == loopStart \in 0 .. 255 /\ activeSlots \in 0 .. 255
ASSUME LapsAssumption    == Laps \in Nat \ {0}
ASSUME DisturbAssumption == Disturbances \subseteq 
    {"open_error", "slow_notice", "quick_slot", "lost_update"}

totalDevices == Cardinality(Threads)

VARIABLES
    running_threads,
    pc,         \* where each thread is; "start", "sync" and "mid" are the waits
    i,          \* the slot it shows
    lap,        \* how often it has played the loop
    settling,   \* threads in the delay(5) after a wait, by the time they entered it
    together    \* every thread had counted itself in when the first had read its file

vars == <<running_threads, pc, i, lap, settling, together>>

Places == {"new", "read", "start", "intro", "sync", "loop", "mid", "gone"}

\* Besides the types: the unsigned char running_threads is never counted below 0,
\* which would wrap to 255, and stays within two per device.
TypeOK ==
    /\ running_threads \in 0 .. 2 * totalDevices
    /\ pc \in [Threads -> Places]
    /\ i \in [Threads -> 0 .. 255]
    /\ lap \in [Threads -> 0 .. Laps - 1]
    /\ settling \in Seq(Threads) /\ IsInjective(settling)
    /\ together \in BOOLEAN

Init ==
    /\ running_threads = 0
    /\ pc = [t \in Threads |-> "new"]
    /\ i = [t \in Threads |-> 0]
    /\ lap = [t \in Threads |-> 0]
    /\ settling = <<>>
    /\ together = TRUE

\* running_threads is an unsigned char; an update that another thread's overlapping
\* update overwrites is lost.
Count(n) ==
    running_threads' \in {(running_threads + n) % 256}
                          \cup {m \in {running_threads} : "lost_update" \in Disturbances}
Goto(t, place) == pc' = [pc EXCEPT ![t] = place]
Settling(t) == Contains(settling, t)

-----------------------------------------------------------------------------
\* A thread of main() gets to streamData, each in its own time.
Begin(t) ==
    /\ pc[t] = "new"
    /\ Count(1)
    /\ Goto(t, "read")
    /\ UNCHANGED <<i, lap, settling, together>>

\* The file is not opened, or has another format: the count is not taken back.
OpenError(t) ==
    /\ pc[t] = "read"
    /\ "open_error" \in Disturbances
    /\ Goto(t, "gone")
    /\ UNCHANGED <<running_threads, i, lap, settling, together>>

\* "the file read is done, lets sync the threads"
ReadDone(t) ==
    /\ pc[t] = "read"
    /\ Count(-1)
    /\ Goto(t, "start")
    /\ together' = (together /\ \A u \in Threads : pc[u] # "new")
    /\ UNCHANGED <<i, lap, settling>>

\* Slip: the wait inside the loop compares with all the weights.
FreeEarly(t) ==
    \/ pc[t] \in {"start", "sync"} /\ running_threads = 0
    \/ pc[t] = "mid" /\ running_threads <= 2 * totalDevices

\* The counter has come down to what thread t waits for.
Free(t) ==
    \/ pc[t] \in {"start", "sync"} /\ running_threads = 0
    \/ pc[t] = "mid" /\ running_threads <= totalDevices
Polling(t) == pc[t] \in {"start", "sync", "mid"} /\ ~Settling(t)

Notice(t) ==
    /\ Polling(t)
    /\ Free(t)
    /\ settling' = Append(settling, t)
    /\ UNCHANGED <<running_threads, pc, i, lap, together>>

\* On the way to the next wait, with no slot to play before it.
Passing(t) == \/ pc[t] = "intro" /\ i[t] >= loopStart
              \/ pc[t] = "loop" /\ i[t] >= activeSlots

\* delay(5) is over: those who entered it earlier have left it, and nobody is
\* left, at a wait or on the way to one, who could have noticed.
Settled(t) ==
    \E k \in DOMAIN settling :
        /\ settling[k] = t
        /\ \/ "slow_notice" \in Disturbances
           \/ k = 1 /\ \A u \in Threads : (Polling(u) => ~Free(u)) /\ ~Passing(u)
        /\ settling' = RemoveAt(settling, k)

\* Into the intro, or out, if the file has no slots.
StartIntro(t) ==
    /\ pc[t] = "start"
    /\ Settled(t)
    /\ IF activeSlots > 0 THEN Count(1) /\ Goto(t, "intro")
       ELSE Goto(t, "gone") /\ UNCHANGED running_threads
    /\ UNCHANGED <<i, lap, together>>

\* Slip: the thread counts itself in once for the loop.
StartLapOnce(t) ==
    /\ pc[t] = "sync"
    /\ Settled(t)
    /\ Count(1)
    /\ Goto(t, "loop")
    /\ i' = [i EXCEPT ![t] = loopStart]
    /\ UNCHANGED <<lap, together>>

\* "the sequence began, so mark it as active (but mark it as 2x ...)"
StartLap(t) ==
    /\ pc[t] = "sync"
    /\ Settled(t)
    /\ Count(2)
    /\ Goto(t, "loop")
    /\ i' = [i EXCEPT ![t] = loopStart]
    /\ UNCHANGED <<lap, together>>

GoOn(t) ==
    /\ pc[t] = "mid"
    /\ Settled(t)
    /\ Count(1)
    /\ Goto(t, "loop")
    /\ i' = [i EXCEPT ![t] = @ + 1]
    /\ UNCHANGED <<lap, together>>

\* fade() and hold() of a slot last at least one exchange with the unit, longer
\* than the threads differ in leaving a delay(5).
SlotOver == settling = <<>> \/ "quick_slot" \in Disturbances

IntroSlot(t) ==
    /\ pc[t] = "intro" /\ i[t] < loopStart
    /\ SlotOver
    /\ i' = [i EXCEPT ![t] = @ + 1]
    /\ UNCHANGED <<running_threads, pc, lap, settling, together>>

\* Slip: a thread that is done with the intro does not count itself out.
IntroDoneBusy(t) ==
    /\ pc[t] = "intro" /\ i[t] >= loopStart
    /\ Goto(t, "sync")
    /\ UNCHANGED <<running_threads, i, lap, settling, together>>

\* Slip: it counts itself out as from the loop.
IntroDoneTwice(t) ==
    /\ pc[t] = "intro" /\ i[t] >= loopStart
    /\ Count(-2)
    /\ Goto(t, "sync")
    /\ UNCHANGED <<i, lap, settling, together>>

IntroDone(t) ==
    /\ pc[t] = "intro" /\ i[t] >= loopStart
    /\ Count(-1)
    /\ Goto(t, "sync")
    /\ UNCHANGED <<i, lap, settling, together>>

\* A slot after which the threads wait for each other.
SyncSlot(m) == m < loopStart + 3 /\ m < activeSlots - 3 /\ m % 5 = 0

LoopSlot(t) ==
    /\ pc[t] = "loop" /\ i[t] < activeSlots
    /\ SlotOver
    /\ IF SyncSlot(i[t])
       THEN Count(-1) /\ Goto(t, "mid") /\ UNCHANGED i
       ELSE i' = [i EXCEPT ![t] = @ + 1] /\ UNCHANGED <<running_threads, pc>>
    /\ UNCHANGED <<lap, settling, together>>

LapDone(t) ==
    /\ pc[t] = "loop" /\ i[t] >= activeSlots
    /\ Count(-2)
    /\ Goto(t, "sync")
    /\ lap' = [lap EXCEPT ![t] = (@ + 1) % Laps]
    /\ UNCHANGED <<i, settling, together>>

-----------------------------------------------------------------------------
streamData(t) ==
    \/ ReadDone(t) \/ Notice(t) \/ StartIntro(t) \/ StartLap(t) \/ GoOn(t)
    \/ IntroSlot(t) \/ IntroDone(t) \/ LoopSlot(t) \/ LapDone(t)

Next == \E t \in Threads : Begin(t) \/ OpenError(t) \/ streamData(t)

Spec == Init /\ [][Next]_vars

\* Every thread is scheduled, and main() has started all of them.
FairSpec == Spec /\ \A t \in Threads : WF_vars(Begin(t)) /\ WF_vars(streamData(t))

-----------------------------------------------------------------------------
Playing(t) ==
    \/ pc[t] = "intro" /\ i[t] < loopStart
    \/ pc[t] = "loop" /\ i[t] < activeSlots

\* The stretch of the sequence between two synchronisations a thread is in.
Stretch(t) ==
    IF pc[t] = "intro" THEN -1
    ELSE Cardinality({m \in loopStart .. i[t] - 1 : SyncSlot(m)})

Abreast == \A t, u \in Threads : Playing(t) /\ Playing(u) => Stretch(t) = Stretch(u)

\* All devices are kept synchronised: those that play are in the same stretch of
\* the same lap (manual page ptrim.1, "stream").
InStep ==
    \A t, u \in Threads : Playing(t) /\ Playing(u) =>
        Stretch(t) = Stretch(u) /\ lap[t] = lap[u]

\* If every thread has counted itself in (line 531) before the first is done with
\* its file (line 615), the counter keeps the devices in step from then on.
TogetherInStep == together => InStep

\* Whatever the start was like, the waits of the loop (lines 630, 641) bring the
\* devices abreast for good; one may have played a lap more than another.
Resync == <>[]Abreast

\* Nobody waits forever: each device plays lap after lap, unless a thread has left
\* without counting itself out (lines 544 and 655).
KeepsPlaying ==
    \A t \in Threads : []<>(pc[t] = "loop" \/ \E u \in Threads : pc[u] = "gone")

=============================================================================
