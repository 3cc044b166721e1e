------------------------- MODULE HidTransportProofs -------------------------
(***************************************************************************)
(* Theorems about HidTransport, for every set of users, every number of    *)
(* requests, every limit of the queue and every set of mishaps.            *)
(***************************************************************************)
EXTENDS HidTransport, SequenceTheorems, TLAPS

\* A transfer that is complete holds a report.
Fetched == transfer = "completed" => fetched \in Requests

\* How far the handle is and how far its read thread is go together.
LifeInv ==
    /\ dev = "none" => thread = "none" /\ transfer = "none"
    /\ dev = "opening" => thread \in {"start", "barrier"}
    /\ dev \in {"none", "opening"} => unit = <<>>
    /\ thread \in {"none", "start"} => transfer = "none"
    /\ thread = "none" => dev \in {"none", "freed"}
    /\ thread \in {"start", "barrier"} => dev = "opening"
    /\ transfer = "none" => thread \in {"none", "start"}
    /\ \A u \in Users : pc[u] # "idle" => dev = "open"

\* Once the thread is past its loop libusb has let go of the transfer, or is
\* about to.
DrainInv ==
    Never({"late_event", "foreign_event", "events_error"}) =>
        /\ thread = "drain" => transfer \in {"cancelling", "cancelled"}
        /\ thread \in {"wake", "ended"} => transfer \notin Busy

\* The transfer may still bring what the unit has to send.
CanDeliver == transfer \in {"inflight", "completed", "timedout"}

\* Until it is closed, a handle is shut down only when no transfer will
\* complete any more.
StoppedInv ==
    shutdown_thread /\ dev \in {"none", "opening", "open"} => transfer = "idle"

\* At most one report is on its way to a reader, and it is r.
OnlyReply(r) ==
    /\ input_reports \in {<<>>, <<r>>}
    /\ transfer = "completed" => fetched = r /\ input_reports = <<>>
    /\ CanDeliver => unit \in {<<>>, <<r>>}
    /\ CanDeliver /\ unit # <<>> => input_reports = <<>> /\ transfer # "completed"

NoReply ==
    /\ input_reports = <<>>
    /\ transfer # "completed"
    /\ CanDeliver => unit = <<>>

\* One exchange at a time, and nothing left over from the one before.
ReplyInv ==
    Never({"skip_read", "shared"}) =>
        /\ \A u, v \in InExchange : u = v
        /\ InExchange = {} => NoReply
        /\ \A u \in InExchange : OnlyReply(req[u])
        /\ \A u \in Users : got[u] \in {None, Failed, req[u]}

\* The types, made inductive.
TypeInv == TypeOK /\ Fetched

-----------------------------------------------------------------------------
\* What Queue() does to a queue.
LEMMA QueueType ==
    ASSUME input_reports \in Seq(Requests), NEW r \in Requests
    PROVE  Queue(r) \in Seq(Requests)
<1> DEFINE all == Append(input_reports, r)
<1>1. all \in Seq(Requests) /\ all # <<>>
  BY AppendProperties
<1>2. Tail(all) \in Seq(Requests)
  BY <1>1, HeadTailProperties
<1> QED
  BY <1>1, <1>2 DEF Queue

\* Queue() keeps the bound.
LEMMA QueueLength ==
    ASSUME NEW S, input_reports \in Seq(S), NEW r \in S, QueueBounded
    PROVE  Len(Queue(r)) <= QueueLimit + 2
<1> DEFINE all == Append(input_reports, r)
<1>1. all \in Seq(S) /\ all # <<>> /\ Len(all) = Len(input_reports) + 1
  BY AppendProperties
<1>2. Len(Tail(all)) = Len(all) - 1
  BY <1>1, HeadTailProperties
<1>3. Len(input_reports) \in Nat
  BY LenProperties
<1> QED
  BY <1>1, <1>2, <1>3, QueueAssumption DEF Queue, QueueBounded

\* An empty or short queue takes a report as it is.
LEMMA QueueFirst == ASSUME NEW r, input_reports = <<>> PROVE Queue(r) = <<r>>
  BY QueueAssumption DEF Queue

-----------------------------------------------------------------------------
\* The step of an inductive proof for the type of the state.
LEMMA TypeStep == ASSUME TypeInv, [Next]_vars PROVE TypeInv'
<1> USE RequestsAssumption DEF TypeInv, TypeOK, Fetched, DevStates, ThreadAt, Busy,
        UserAt, Requests, devVars, userVars, worldVars, Goto, Happens, ThreadTo, Submit,
        Cancel, CancelWorks, Complete
<1>1. CASE OpenFail \/ OpenPath \/ Barrier \/ Close \/ Closing
  <2>1. CASE OpenFail \/ OpenPath \/ Barrier
    BY <2>1 DEF OpenFail, OpenPath, Barrier
  <2>2. CASE Close
    BY <2>2 DEF Close, StopThread
  <2>3. CASE CloseCancel
    BY <2>3 DEF CloseCancel
  <2>4. CASE CloseFree
    BY <2>4 DEF CloseFree
  <2> QED
    BY <1>1, <2>1, <2>2, <2>3, <2>4 DEF Closing
<1>2. CASE FirstSubmit \/ Loop
  BY <1>2 DEF FirstSubmit, Loop
<1>3. CASE Callback
  <2>1. CASE CallbackCompleted
    <3>1. input_reports' \in Seq(Requests)
      BY <2>1, QueueType DEF CallbackCompleted
    <3>2. pc' \in [Users -> UserAt]
      BY <2>1 DEF CallbackCompleted, Signal
    <3>3. thread' \in ThreadAt /\ dev' = dev
      BY <2>1 DEF CallbackCompleted, EventHandled
    <3>4. transfer' \in {"inflight", "idle"} /\ happened' \subseteq Mishaps
      BY <2>1 DEF CallbackCompleted
    <3>5. UNCHANGED <<fetched, shutdown_thread, sent, req, got, mutex, worldVars>>
      BY <2>1 DEF CallbackCompleted
    <3> QED
      BY <3>1, <3>2, <3>3, <3>4, <3>5
  <2>2. CASE CallbackTimedOut
    BY <2>2 DEF CallbackTimedOut, AfterTimeOut, EventHandled
  <2>3. CASE CallbackStop
    BY <2>3 DEF CallbackStop, EventHandled
  <2> QED
    BY <1>3, <2>1, <2>2, <2>3 DEF Callback
<1>4. CASE NoEvent \/ EventsError
  BY <1>4 DEF NoEvent, EventsError, EventHandled
<1>5. CASE ThreadCancel \/ ThreadWake
  <2>1. CASE ThreadCancel
    BY <2>1 DEF ThreadCancel, AfterCancel
  <2>2. CASE ThreadWake
    <3>1. pc' \in [Users -> UserAt]
      BY <2>2 DEF ThreadWake
    <3> QED
      BY <2>2, <3>1 DEF ThreadWake
  <2> QED
    BY <1>5, <2>1, <2>2
<1>6. CASE World
  <2>1. CASE Deliver
    <3>1. Head(unit) \in Requests /\ Tail(unit) \in Seq(Requests)
      BY <2>1, HeadTailProperties DEF Deliver
    <3> QED
      BY <2>1, <3>1 DEF Deliver
  <2>2. CASE Unplug
    <3>1. <<>> \in Seq(Requests)
      OBVIOUS
    <3>2. unit' \in Seq(Requests) /\ plugged' \in BOOLEAN
      BY <2>2, <3>1 DEF Unplug
    <3>3. UNCHANGED <<dev, thread, transfer, fetched, shutdown_thread, input_reports, mutex, pc,
                      sent, req, got, happened>>
      BY <2>2 DEF Unplug
    <3> QED
      BY <3>2, <3>3
  <2>3. CASE TimeOut \/ Disconnect \/ Cancelled
    BY <2>3 DEF TimeOut, Disconnect, Cancelled
  <2> QED
    BY <1>6, <2>1, <2>2, <2>3 DEF World
<1>7. ASSUME NEW u \in Users, Exchange(u) \/ ExchangeLost(u) \/ ExchangeUnread(u)
      PROVE TypeInv'
  <2>1. sent' \in Requests
    BY <1>7 DEF Exchange, ExchangeLost, ExchangeUnread, Write
  <2>2. unit' \in Seq(Requests)
    <3>1. Append(unit, sent') \in Seq(Requests)
      BY <2>1, AppendProperties
    <3> QED
      BY <1>7, <3>1 DEF Exchange, ExchangeLost, ExchangeUnread, Answer
  <2>3. req' \in [Users -> 0 .. MaxRequests] /\ got' \in [Users -> Requests \cup {None, Failed}]
    <3>1. sent' \in 0 .. MaxRequests
      BY <2>1
    <3>2. /\ req' = [req EXCEPT ![u] = sent']
          /\ got' = [got EXCEPT ![u] = None]
      BY <1>7 DEF Exchange, ExchangeLost, ExchangeUnread, Write
    <3> QED
      BY <3>1, <3>2
  <2>4. pc' \in [Users -> UserAt] /\ happened' \subseteq Mishaps
    BY <1>7 DEF Exchange, ExchangeLost, ExchangeUnread
  <2>5. UNCHANGED <<devVars, transfer, fetched, shutdown_thread, input_reports, mutex, plugged>>
    BY <1>7 DEF Exchange, ExchangeLost, ExchangeUnread, Write
  <2> QED
    BY <2>1, <2>2, <2>3, <2>4, <2>5
<1>8. ASSUME NEW u \in Users, Reading(u) PROVE TypeInv'
  <2>1. CASE ReadReport(u)
    <3>1. Head(input_reports) \in Requests /\ Tail(input_reports) \in Seq(Requests)
      BY <2>1, HeadTailProperties DEF ReadReport
    <3> QED
      BY <2>1, <3>1 DEF ReadReport, Return, readFrame
  <2>2. CASE ReadLock(u)
    BY <2>2 DEF ReadLock, readFrame
  <2>3. CASE ReadNothing(u)
    BY <2>3 DEF ReadNothing, readFrame
  <2>4. CASE ReadFailed(u)
    BY <2>4 DEF ReadFailed, Return, readFrame
  <2>5. CASE CondWait(u)
    BY <2>5 DEF CondWait, readFrame
  <2> QED
    BY <1>8, <2>1, <2>2, <2>3, <2>4, <2>5 DEF Reading
<1>9. CASE UNCHANGED vars
  BY <1>9 DEF vars
<1> QED
  BY <1>1, <1>2, <1>3, <1>4, <1>5, <1>6, <1>7, <1>8, <1>9 DEF Next, ReadThread

\* The typing invariant holds in every state.
LEMMA TypeInvHolds == Spec => []TypeInv
<1>1. Init => TypeInv
  <2>1. 0 \in 0 .. MaxRequests /\ <<>> \in Seq(Requests)
    BY RequestsAssumption
  <2> QED
    BY <2>1 DEF Init, TypeInv, TypeOK, Fetched, DevStates, ThreadAt, Busy, UserAt
<1> QED
  BY <1>1, TypeStep, PTL DEF Spec

\* Every variable keeps its type: what the read thread queues and hid_read()
\* returns are reports of the unit, never the contents of a buffer nothing was
\* received into (hid.c:618-674, 918-1022).
THEOREM TypeCorrect == Spec => []TypeOK
  BY TypeInvHolds, PTL DEF TypeInv

-----------------------------------------------------------------------------
\* Only the callback, a read and the close change the queue.
LEMMA QueueStep == ASSUME TypeInv, QueueBounded, [Next]_vars PROVE QueueBounded'
<1> USE QueueAssumption DEF TypeInv, TypeOK, QueueBounded
<1>1. CASE CallbackCompleted
  BY <1>1, QueueLength DEF CallbackCompleted, Fetched
<1>2. CASE CloseFree
  BY <1>2 DEF CloseFree
<1>3. ASSUME NEW u \in Users, ReadReport(u) PROVE QueueBounded'
  <2>1. Len(Tail(input_reports)) = Len(input_reports) - 1
    BY <1>3, HeadTailProperties DEF ReadReport
  <2>2. Len(input_reports) \in Nat
    BY LenProperties
  <2> QED
    BY <1>3, <2>1, <2>2 DEF ReadReport
<1>4. CASE UNCHANGED input_reports
  BY <1>4
<1> QED
  <2>1. CASE OpenFail \/ OpenPath \/ Barrier \/ Close \/ CloseCancel
    BY <1>4, <2>1 DEF OpenFail, OpenPath, Barrier, Close, CloseCancel
  <2>2. CASE FirstSubmit \/ Loop \/ CallbackTimedOut \/ CallbackStop
    BY <1>4, <2>2 DEF FirstSubmit, Loop, CallbackTimedOut, AfterTimeOut, CallbackStop
  <2>3. CASE NoEvent \/ EventsError \/ ThreadCancel \/ ThreadWake
    BY <1>4, <2>3 DEF NoEvent, EventsError, ThreadCancel, ThreadWake
  <2>4. CASE World
    BY <1>4, <2>4 DEF World, Unplug, Deliver, TimeOut, Disconnect, Cancelled, Complete
  <2>5. ASSUME NEW u \in Users, Exchange(u) \/ ExchangeLost(u) \/ ExchangeUnread(u)
        PROVE UNCHANGED input_reports
    BY <2>5 DEF Exchange, ExchangeLost, ExchangeUnread, Write
  <2>6. ASSUME NEW u \in Users, ReadLock(u) \/ ReadFailed(u) \/ ReadNothing(u) \/ CondWait(u)
        PROVE UNCHANGED input_reports
    BY <2>6 DEF ReadLock, ReadFailed, ReadNothing, CondWait
  <2>7. CASE UNCHANGED vars
    BY <1>4, <2>7 DEF vars
  <2> QED
    BY <1>1, <1>2, <1>3, <1>4, <2>1, <2>2, <2>3, <2>4, <2>5, <2>6, <2>7
       DEF Next, Closing, ReadThread, Callback, Reading

\* A thread that is never read from costs a bounded amount of memory: whatever
\* the limit is, the queue never holds more than two reports above it
\* (hid.c:632-661).
THEOREM QueueStaysBounded == Spec => []QueueBounded
<1>1. Init => QueueBounded
  BY QueueAssumption DEF Init, QueueBounded
<1>2. TypeInv /\ QueueBounded /\ [Next]_vars => QueueBounded'
  BY QueueStep
<1> QED
  BY <1>1, <1>2, TypeInvHolds, PTL DEF Spec

-----------------------------------------------------------------------------
\* The life of the handle, of its thread and of its transfer.
LEMMA LifeStep ==
    ASSUME TypeInv, LifeInv, DrainInv, StoppedInv, [Next]_vars
    PROVE  LifeInv' /\ DrainInv' /\ StoppedInv'
<1> DEFINE I == LifeInv /\ DrainInv /\ StoppedInv
<1> USE DEF TypeInv, TypeOK, LifeInv, DrainInv, StoppedInv, Never, DevStates, ThreadAt,
            Busy, UserAt, devVars, userVars, worldVars, Goto, Happens, ThreadTo, Submit,
            Cancel, CancelWorks
<1>1. CASE OpenFail \/ OpenPath \/ Barrier
  BY <1>1 DEF OpenFail, OpenPath, Barrier
<1>2. CASE Close
  BY <1>2 DEF Close, StopThread
<1>3. CASE Closing
  BY <1>3 DEF Closing, CloseCancel, CloseFree
<1>4. CASE FirstSubmit \/ Loop
  BY <1>4 DEF FirstSubmit, Loop
<1>5. CASE CallbackCompleted
  <2>1. \A u \in Users : pc'[u] # "idle" => pc[u] # "idle"
    BY <1>5 DEF CallbackCompleted, Signal, Waiting
  <2> QED
    BY <1>5, <2>1 DEF CallbackCompleted, Handling, EventHandled
<1>6. CASE CallbackTimedOut \/ CallbackStop
  BY <1>6 DEF CallbackTimedOut, CallbackStop, Handling, EventHandled
<1>7. CASE NoEvent \/ EventsError
  <2>1. CASE NoEvent
    BY <2>1 DEF NoEvent, Handling, EventHandled
  <2>2. CASE EventsError
    BY <2>2 DEF EventsError, Handling
  <2> QED
    BY <1>7, <2>1, <2>2
<1>8. CASE ThreadCancel
  BY <1>8 DEF ThreadCancel, AfterCancel
<1>9. CASE ThreadWake
  <2>1. \A u \in Users : pc'[u] # "idle" => pc[u] # "idle"
    BY <1>9 DEF ThreadWake, Waiting
  <2> QED
    BY <1>9, <2>1 DEF ThreadWake
<1>10. CASE World
  BY <1>10 DEF World, Unplug, Deliver, TimeOut, Disconnect, Cancelled, Complete
<1>11. ASSUME NEW u \in Users, Exchange(u) \/ ExchangeLost(u) \/ ExchangeUnread(u) PROVE I'
  <2>1. /\ dev = "open"
        /\ UNCHANGED <<dev, thread, transfer, shutdown_thread>>
        /\ happened \subseteq happened'
    BY <1>11 DEF Exchange, ExchangeLost, ExchangeUnread, Write
  <2> QED
    BY <2>1
<1>12. ASSUME NEW u \in Users, Reading(u) PROVE I'
  <2>1. UNCHANGED <<dev, thread, transfer, shutdown_thread, unit, happened>>
    BY <1>12 DEF Reading, ReadLock, ReadReport, ReadFailed, Return, ReadNothing, CondWait,
                 readFrame
  <2>2. pc[u] # "idle"
    BY <1>12 DEF Reading, ReadLock, ReadReport, ReadFailed, ReadNothing, CondWait
  <2>3. \A v \in Users : v # u => pc'[v] = pc[v]
    BY <1>12 DEF Reading, ReadLock, ReadReport, ReadFailed, Return, ReadNothing, CondWait
  <2> QED
    BY <2>1, <2>2, <2>3
<1>13. CASE UNCHANGED vars
  BY <1>13 DEF vars
<1> QED
  BY <1>1, <1>2, <1>3, <1>4, <1>5, <1>6, <1>7, <1>8, <1>9, <1>10, <1>11, <1>12, <1>13
     DEF Next, ReadThread, Callback

\* All but the exchanges.
HandleInv == TypeInv /\ LifeInv /\ DrainInv /\ StoppedInv

\* The invariants of a handle's life hold in every state.
LEMMA HandleInvHolds == Spec => []HandleInv
<1>1. Init => LifeInv /\ DrainInv /\ StoppedInv
  BY DEF Init, LifeInv, DrainInv, StoppedInv, Busy
<1>2. HandleInv /\ [Next]_vars => HandleInv'
  BY TypeStep, LifeStep DEF HandleInv
<1>3. Init /\ TypeInv => HandleInv
  BY <1>1 DEF HandleInv
<1> QED
  BY <1>2, <1>3, TypeInvHolds, PTL DEF Spec

\* hid_close() cancels a transfer that exists, and frees it only when libusb is
\* through with it, unless the read thread left its loop with a callback still
\* to come, another handle shares its events or waiting for them fails
\* (hid.c:700-767, 1097-1128).
THEOREM CloseIsSafe == Spec => []CloseSafe
<1>1. HandleInv => CloseSafe
  BY DEF HandleInv, LifeInv, DrainInv, CloseSafe, Never
<1> QED
  BY <1>1, HandleInvHolds, PTL

-----------------------------------------------------------------------------
\* A step that moves a report along, or loses one, leaves the exchanges alone.
LEMMA ReplyKept ==
    ASSUME ReplyInv, happened \subseteq happened', InExchange' = InExchange,
           UNCHANGED <<req, got>>, NoReply => NoReply',
           \A r \in 0 .. MaxRequests : OnlyReply(r) => OnlyReply(r)',
           TypeOK
    PROVE  ReplyInv'
<1>1. \A u \in InExchange : req[u] \in 0 .. MaxRequests
  BY DEF InExchange, TypeOK
<1>2. Never({"skip_read", "shared"})' => Never({"skip_read", "shared"})
  BY DEF Never
<1>3. ASSUME NEW u \in InExchange, OnlyReply(req[u]) PROVE OnlyReply(req[u])'
  <2>1. OnlyReply(req[u]) => OnlyReply(req[u])'
    BY <1>1, <1>3
  <2> QED
    BY <1>3, <2>1
<1> QED
  BY <1>2, <1>3 DEF ReplyInv

\* One step per action: a report moves along, an exchange begins or one ends.
LEMMA ReplyStep == ASSUME HandleInv, ReplyInv, [Next]_vars PROVE ReplyInv'
<1> USE DEF HandleInv, TypeInv, TypeOK
<1> DEFINE Kept == /\ NoReply => NoReply'
                   /\ \A r \in 0 .. MaxRequests : OnlyReply(r) => OnlyReply(r)'
           Same == /\ happened \subseteq happened'
                   /\ InExchange' = InExchange
                   /\ UNCHANGED <<req, got>>
<1>0. Same /\ Kept => ReplyInv'
  BY ReplyKept
<1>1. CASE OpenFail \/ OpenPath \/ Barrier \/ Close
  <2>1. Same /\ UNCHANGED <<transfer, fetched, input_reports, unit>>
    BY <1>1 DEF OpenFail, OpenPath, Barrier, Close, userVars, worldVars, InExchange
  <2> QED
    BY <1>0, <2>1 DEF NoReply, OnlyReply, CanDeliver
<1>2. CASE CloseCancel \/ ThreadCancel
  <2>1. Same /\ Cancel /\ UNCHANGED <<fetched, input_reports, unit>>
    BY <1>2 DEF CloseCancel, ThreadCancel, userVars, worldVars, InExchange, Happens
  <2> QED
    BY <1>0, <2>1 DEF NoReply, OnlyReply, CanDeliver, Cancel, CancelWorks
<1>3. CASE CloseFree
  <2>1. Same
    BY <1>3 DEF CloseFree, userVars, InExchange
  <2>2. input_reports' = <<>> /\ transfer' = "freed"
    BY <1>3 DEF CloseFree
  <2> QED
    BY <1>0, <2>1, <2>2 DEF NoReply, OnlyReply, CanDeliver
<1>4. CASE FirstSubmit
  <2>1. Same /\ UNCHANGED <<fetched, input_reports, unit>> /\ transfer' \in {"inflight", "idle"}
    BY <1>4 DEF FirstSubmit, Submit, userVars, worldVars, InExchange, Happens
  <2>2. unit = <<>> /\ transfer = "none"
    BY <1>4 DEF FirstSubmit, LifeInv
  <2> QED
    BY <1>0, <2>1, <2>2 DEF NoReply, OnlyReply, CanDeliver
<1>5. CASE Loop \/ NoEvent \/ EventsError
  <2>1. Same /\ UNCHANGED <<transfer, fetched, input_reports, unit>>
    BY <1>5 DEF Loop, NoEvent, EventsError, userVars, worldVars, InExchange, Happens
  <2> QED
    BY <1>0, <2>1 DEF NoReply, OnlyReply, CanDeliver
<1>6. CASE CallbackCompleted
  <2>1. Same
    BY <1>6 DEF CallbackCompleted, Signal, Waiting, Goto, InExchange, Submit, Happens
  <2>2. /\ transfer = "completed" /\ transfer' \in {"inflight", "idle"}
        /\ UNCHANGED <<fetched, unit>>
        /\ input_reports' = Queue(fetched)
    BY <1>6 DEF CallbackCompleted, Submit, worldVars
  <2>3. ASSUME NEW r \in 0 .. MaxRequests, OnlyReply(r) PROVE OnlyReply(r)'
    <3>1. fetched = r /\ input_reports = <<>> /\ unit = <<>>
      BY <2>2, <2>3 DEF OnlyReply, CanDeliver
    <3>2. input_reports' = <<r>>
      BY <2>2, <3>1, QueueFirst
    <3> QED
      BY <2>2, <3>1, <3>2 DEF OnlyReply
  <2> QED
    BY <1>0, <2>1, <2>2, <2>3 DEF NoReply
<1>7. CASE CallbackTimedOut \/ CallbackStop
  <2>1. Same /\ UNCHANGED <<fetched, input_reports, unit>>
    BY <1>7 DEF CallbackTimedOut, AfterTimeOut, CallbackStop, userVars, worldVars, InExchange,
                Submit, Happens
  <2>2. transfer' = "idle" \/ (transfer' = "inflight" /\ transfer = "timedout")
    BY <1>7 DEF CallbackTimedOut, CallbackStop, Submit
  <2> QED
    BY <1>0, <2>1, <2>2 DEF NoReply, OnlyReply, CanDeliver
<1>8. CASE ThreadWake
  <2>1. Same /\ UNCHANGED <<transfer, fetched, input_reports, unit>>
    BY <1>8 DEF ThreadWake, worldVars, InExchange, Waiting
  <2> QED
    BY <1>0, <2>1 DEF NoReply, OnlyReply, CanDeliver
<1>9. CASE World
  <2>1. Same /\ UNCHANGED input_reports
    BY <1>9 DEF World, Unplug, Deliver, TimeOut, Disconnect, Cancelled, Complete, userVars,
                InExchange
  <2>2. CASE Unplug
    BY <1>0, <2>1, <2>2 DEF Unplug, NoReply, OnlyReply, CanDeliver
  <2>3. CASE Deliver
    <3>1. NoReply => FALSE
      BY <2>3 DEF Deliver, NoReply, CanDeliver
    <3>2. ASSUME NEW r \in 0 .. MaxRequests, OnlyReply(r) PROVE OnlyReply(r)'
      <4>1. input_reports = <<>> /\ unit = <<r>>
        BY <2>3, <3>2 DEF Deliver, OnlyReply, CanDeliver
      <4>2. fetched' = r /\ unit' = <<>> /\ transfer' = "completed"
        BY <2>3, <4>1 DEF Deliver, Complete
      <4> QED
        BY <2>1, <4>1, <4>2 DEF OnlyReply
    <3> QED
      BY <1>0, <2>1, <3>1, <3>2
  <2>4. CASE TimeOut \/ Disconnect \/ Cancelled
    BY <1>0, <2>1, <2>4 DEF TimeOut, Disconnect, Cancelled, Complete, NoReply, OnlyReply, CanDeliver
  <2> QED
    BY <1>9, <2>2, <2>3, <2>4 DEF World
<1>10. ASSUME NEW u \in Users, Exchange(u) \/ ExchangeLost(u), Never({"skip_read", "shared"})'
       PROVE ReplyInv'
  <2>1. Never({"skip_read", "shared"}) /\ InExchange = {}
    BY <1>10 DEF Exchange, ExchangeLost, Happens, Never
  <2>2. InExchange' = {u}
    BY <1>10, <2>1 DEF Exchange, ExchangeLost, Goto, InExchange
  <2>3. PICK n \in 0 .. MaxRequests : n = sent'
    <3>1. sent < MaxRequests /\ sent' = sent + 1
      BY <1>10 DEF Exchange, ExchangeLost, Write
    <3>2. sent' \in 0 .. MaxRequests
      BY <3>1, RequestsAssumption
    <3> QED
      BY <3>2
  <2>4. /\ UNCHANGED <<transfer, fetched, input_reports>>
        /\ req' = [req EXCEPT ![u] = n] /\ got' = [got EXCEPT ![u] = None]
        /\ unit' \in {unit, Append(unit, n)}
    BY <1>10, <2>3 DEF Exchange, ExchangeLost, Write, Answer
  <2>5. NoReply
    BY <2>1 DEF ReplyInv
  <2>6. OnlyReply(n)'
    <3>1. CanDeliver => unit' \in {<<>>, <<n>>}
      BY <2>4, <2>5 DEF NoReply
    <3> QED
      BY <2>4, <2>5, <3>1 DEF NoReply, OnlyReply, CanDeliver
  <2>7. req'[u] = n /\ \A v \in Users : got'[v] \in {None, Failed, req'[v]}
    BY <2>1, <2>4 DEF ReplyInv
  <2>8. OnlyReply(req[u])'
    BY <2>6, <2>7 DEF OnlyReply
  <2> QED
    BY <2>2, <2>7, <2>8 DEF ReplyInv
<1>11. ASSUME NEW u \in Users, ExchangeUnread(u) PROVE ReplyInv'
  BY <1>11 DEF ExchangeUnread, Happens, ReplyInv, Never
<1>12. ASSUME NEW u \in Users, Reading(u), Never({"skip_read", "shared"})' PROVE ReplyInv'
  <2>1. /\ Never({"skip_read", "shared"})
        /\ UNCHANGED <<transfer, fetched, unit, req>> /\ happened' = happened
    BY <1>12 DEF Reading, ReadLock, ReadReport, ReadFailed, ReadNothing, CondWait, readFrame,
                 worldVars, Never
  <2>2. pc[u] # "idle" /\ dev = "open" /\ InExchange = {u}
    BY <1>12, <2>1 DEF Reading, ReadLock, ReadReport, ReadFailed, ReadNothing, CondWait,
                       InExchange, ReplyInv, LifeInv
  <2>3. OnlyReply(req[u]) /\ req[u] \in 0 .. MaxRequests
    BY <2>1, <2>2 DEF ReplyInv
  <2>4. CASE ReadLock(u) \/ ReadNothing(u) \/ CondWait(u)
    <3>1. InExchange' = InExchange /\ UNCHANGED <<got, input_reports>>
      BY <2>2, <2>4 DEF ReadLock, ReadNothing, CondWait, Goto, InExchange
    <3> QED
      BY <1>0, <2>1, <3>1 DEF NoReply, OnlyReply, CanDeliver
  <2>5. ASSUME ReadReport(u) \/ ReadFailed(u), got'[u] \in {Failed, req[u]}, NoReply'
        PROVE ReplyInv'
    <3>1. InExchange' = {} /\ \A v \in Users \ {u} : got'[v] = got[v]
      BY <2>2, <2>5 DEF ReadReport, ReadFailed, Return, Goto, InExchange
    <3> QED
      BY <2>1, <2>5, <3>1 DEF ReplyInv
  <2>6. CASE ReadReport(u)
    <3>1. input_reports = <<req[u]>> /\ transfer # "completed" /\ (CanDeliver => unit = <<>>)
      BY <2>3, <2>6 DEF ReadReport, OnlyReply
    <3>2. got'[u] = req[u] /\ input_reports' = <<>>
      BY <2>6, <3>1 DEF ReadReport, Return
    <3> QED
      BY <2>1, <2>5, <2>6, <3>1, <3>2 DEF NoReply, CanDeliver
  <2>7. CASE ReadFailed(u)
    <3>1. input_reports = <<>> /\ UNCHANGED input_reports /\ transfer = "idle"
      BY <2>2, <2>7 DEF ReadFailed, StoppedInv
    <3>2. got'[u] = Failed
      BY <2>7 DEF ReadFailed, Return
    <3> QED
      BY <2>1, <2>5, <2>7, <3>1, <3>2 DEF NoReply, CanDeliver
  <2> QED
    BY <1>12, <2>4, <2>6, <2>7 DEF Reading
<1>13. CASE UNCHANGED vars
  <2>1. Same /\ UNCHANGED <<transfer, fetched, input_reports, unit>>
    BY <1>13 DEF vars, userVars, worldVars, InExchange
  <2> QED
    BY <1>0, <2>1 DEF NoReply, OnlyReply, CanDeliver
<1>14. ~Never({"skip_read", "shared"})' => ReplyInv'
  BY DEF ReplyInv
<1> QED
  BY <1>1, <1>2, <1>3, <1>4, <1>5, <1>6, <1>7, <1>8, <1>9, <1>10, <1>11, <1>12, <1>13, <1>14
     DEF Next, Closing, ReadThread, Callback

\* The result of a read is the reply to the request just written, or -1: never
\* the reply to an earlier request or to somebody else's, as long as every
\* readData() reads (ptrim-lib.cc:810) and one thread at a time uses the handle.
\* Lost writes, time-outs, an unplugged unit and failing events do not break it.
THEOREM RepliesMatch == Spec => []OwnReply
<1>1. Init => ReplyInv
  BY DEF Init, ReplyInv, InExchange, NoReply, CanDeliver
<1>2. HandleInv /\ ReplyInv /\ [Next]_vars => ReplyInv'
  BY ReplyStep
<1>3. ReplyInv => OwnReply
  BY DEF ReplyInv, OwnReply
<1> QED
  BY <1>1, <1>2, <1>3, HandleInvHolds, PTL DEF Spec

-----------------------------------------------------------------------------
(* The abstract channel: lemmas about sequences, then step by step.        *)

\* The front of a sequence is one of its initial segments.
LEMMA KeepFront ==
    ASSUME NEW S, NEW s \in Seq(S), NEW t \in Seq(S)
    PROVE  \E n \in 0 .. Len(s \o t) : s = SubSeq(s \o t, 1, n)
<1>1. Len(s) \in Nat /\ Len(t) \in Nat /\ Len(s \o t) = Len(s) + Len(t)
  BY ConcatProperties, LenProperties
<1>2. CASE s = <<>>
  BY <1>1, <1>2, SubSeqEmpty
<1>3. CASE s # <<>>
  <2>1. Len(s) \in 1 .. Len(s) /\ 1 \in 1 .. Len(s)
    <3>1. Len(s) \in Nat \ {0}
      BY <1>3, EmptySeq
    <3> QED
      BY <3>1
  <2>2. SubSeq(s \o t, 1, Len(s)) = SubSeq(s, 1, Len(s))
    BY <2>1, SubSeqOfConcat1
  <2>3. SubSeq(s, 1, Len(s)) = s
    BY SubSeqFull
  <2>4. Len(s) \in 0 .. Len(s \o t) /\ s = SubSeq(s \o t, 1, Len(s))
    BY <1>1, <2>2, <2>3
  <2> QED
    BY <2>4
<1> QED
  BY <1>2, <1>3

\* The head and the tail of a concatenation are those of its first part.
LEMMA FrontOfConcat ==
    ASSUME NEW S, NEW s \in Seq(S), NEW t \in Seq(S), s # <<>>
    PROVE  s \o t # <<>> /\ Head(s \o t) = Head(s) /\ Tail(s \o t) = Tail(s) \o t
<1> DEFINE st == s \o t
<1>1. /\ st \in Seq(S) /\ Len(st) = Len(s) + Len(t)
      /\ \A i \in 1 .. Len(s) + Len(t) : st[i] = IF i <= Len(s) THEN s[i] ELSE t[i - Len(s)]
  BY ConcatProperties
<1>2. Len(s) \in Nat \ {0} /\ Len(t) \in Nat
  BY EmptySeq, LenProperties
<1>3. st # <<>>
  BY <1>1, <1>2, EmptySeq
<1>4. Head(st) = Head(s)
  BY <1>1, <1>2
<1>5. /\ Tail(s) \in Seq(S) /\ Len(Tail(s)) = Len(s) - 1
      /\ \A i \in 1 .. Len(Tail(s)) : Tail(s)[i] = s[i + 1]
  BY HeadTailProperties
<1>6. /\ Tail(st) \in Seq(S) /\ Len(Tail(st)) = Len(st) - 1
      /\ \A i \in 1 .. Len(Tail(st)) : Tail(st)[i] = st[i + 1]
  BY <1>1, <1>3, HeadTailProperties
<1>7. /\ Tail(s) \o t \in Seq(S) /\ Len(Tail(s) \o t) = Len(Tail(s)) + Len(t)
      /\ \A i \in 1 .. Len(Tail(s)) + Len(t) : (Tail(s) \o t)[i] =
            IF i <= Len(Tail(s)) THEN Tail(s)[i] ELSE t[i - Len(Tail(s))]
  BY <1>5, ConcatProperties
<1>8. Len(Tail(st)) = Len(Tail(s) \o t)
  BY <1>1, <1>2, <1>5, <1>6, <1>7
<1>9. \A i \in 1 .. Len(Tail(st)) : Tail(st)[i] = (Tail(s) \o t)[i]
  BY <1>1, <1>2, <1>5, <1>6, <1>7
<1>10. Tail(st) = Tail(s) \o t
  BY <1>6, <1>7, <1>8, <1>9, SeqEqual
<1> QED
  BY <1>3, <1>4, <1>10

\* Taking the head over to the sequence in front changes nothing.
LEMMA HeadThenTail ==
    ASSUME NEW S, NEW s \in Seq(S), s # <<>>, NEW front \in Seq(S)
    PROVE  (front \o <<Head(s)>>) \o Tail(s) = front \o s
<1>1. Len(s) \in Nat \ {0}
  BY EmptySeq
<1>2. SubSeq(s, 1, Len(s)) = <<s[1]>> \o SubSeq(s, 1 + 1, Len(s))
  BY <1>1, SubSeqRecursiveFirst
<1>3. SubSeq(s, 1, Len(s)) = s /\ Tail(s) = SubSeq(s, 2, Len(s))
  BY SubSeqFull, TailIsSubSeq
<1>4. <<Head(s)>> \in Seq(S) /\ Tail(s) \in Seq(S) /\ s = <<Head(s)>> \o Tail(s)
  BY <1>2, <1>3, HeadTailProperties
<1>5. (front \o <<Head(s)>>) \o Tail(s) = front \o (<<Head(s)>> \o Tail(s))
  BY <1>4, ConcatAssociative
<1> QED
  BY <1>4, <1>5

\* What is in the buffer of a completed transfer.
InTransfer == IF transfer = "completed" THEN <<fetched>> ELSE <<>>

\* What is under way, part by part.
LEMMA UnderwayParts ==
    ASSUME TypeInv
    PROVE  /\ Underway = input_reports \o InTransfer \o unit
           /\ input_reports \in Seq(Requests) /\ InTransfer \in Seq(Requests)
           /\ input_reports \o InTransfer \in Seq(Requests)
           /\ unit \in Seq(Requests) /\ Underway \in Seq(Requests)
<1>1. input_reports \in Seq(Requests) /\ unit \in Seq(Requests) /\ InTransfer \in Seq(Requests)
  BY DEF TypeInv, TypeOK, Fetched, InTransfer
<1>2. input_reports \o InTransfer \in Seq(Requests)
  BY <1>1, ConcatProperties
<1>3. Underway = input_reports \o InTransfer \o unit
  BY DEF Underway, InTransfer
<1> QED
  BY <1>1, <1>2, <1>3, ConcatProperties

\* The report moves from the unit to the transfer.
LEMMA DeliverKeeps == ASSUME TypeInv, Deliver PROVE Underway' = Underway
<1> USE UnderwayParts
<1>1. input_reports' = input_reports /\ InTransfer = <<>> /\ InTransfer' = <<Head(unit)>>
  BY DEF Deliver, Complete, InTransfer
<1>2. /\ unit # <<>> /\ unit' = Tail(unit) /\ unit \in Seq(Requests)
      /\ Tail(unit) \in Seq(Requests) /\ Head(unit) \in Requests
  BY HeadTailProperties DEF Deliver, TypeInv, TypeOK
<1>3. Underway = input_reports \o unit
  BY <1>1, ConcatEmptySeq
<1>4. Underway' = (input_reports \o <<Head(unit)>>) \o Tail(unit)
  BY <1>1, <1>2 DEF Underway, InTransfer
<1> QED
  BY <1>2, <1>3, <1>4, HeadThenTail

\* The callback moves it to the queue, or drops the oldest of a full queue.
LEMMA CallbackSheds ==
    ASSUME TypeInv, CallbackCompleted
    PROVE  \/ Underway' = Underway
           \/ Len(Underway) > QueueLimit + 2 /\ Underway' = Tail(Underway)
<1> DEFINE all == Append(input_reports, fetched)
<1> USE UnderwayParts
<1>1. /\ fetched \in Requests /\ InTransfer = <<fetched>> /\ InTransfer' = <<>>
      /\ unit' = unit /\ input_reports' = Queue(fetched)
  BY DEF CallbackCompleted, Submit, InTransfer, worldVars, TypeInv, Fetched
<1>2. all = input_reports \o InTransfer /\ all \in Seq(Requests)
  BY <1>1, AppendIsConcat, AppendProperties
<1>3. Underway = all \o unit
  BY <1>2
<1>4. Queue(fetched) \in Seq(Requests)
  BY <1>1, QueueType
<1>5. Underway' = Queue(fetched) \o unit
  <2>1. Underway' = (input_reports' \o InTransfer') \o unit'
    BY DEF Underway, InTransfer
  <2> QED
    BY <1>1, <1>4, <2>1, ConcatEmptySeq
<1>6. CASE Len(input_reports) - 1 > QueueLimit
  <2>1. Queue(fetched) = Tail(all)
    BY <1>6 DEF Queue
  <2>2. all # <<>> /\ Len(all) = Len(input_reports) + 1
    <3>1. fetched \in Requests /\ input_reports \in Seq(Requests)
      BY <1>1
    <3> QED
      BY <3>1, AppendProperties
  <2>3. Tail(all \o unit) = Tail(all) \o unit
    BY <1>2, <2>2, FrontOfConcat
  <2>4. Len(all \o unit) = Len(all) + Len(unit) /\ Len(unit) \in Nat /\ Len(input_reports) \in Nat
    BY <1>2, ConcatProperties, LenProperties
  <2>5. Len(Underway) > QueueLimit + 2
    BY <1>3, <1>6, <2>2, <2>4, QueueAssumption
  <2>6. Underway' = Tail(Underway)
    BY <1>3, <1>5, <2>1, <2>3
  <2> QED
    BY <2>5, <2>6
<1>7. CASE ~(Len(input_reports) - 1 > QueueLimit)
  BY <1>3, <1>5, <1>7 DEF Queue
<1> QED
  BY <1>6, <1>7

\* The parts of a sequence may be joined in any order.
LEMMA Regroup ==
    ASSUME NEW S, NEW s \in Seq(S), NEW t \in Seq(S), NEW u \in Seq(S)
    PROVE  s \o (t \o u) = (s \o t) \o u
  BY ConcatAssociative

\* A new report joins the end.
LEMMA AnswerAppends ==
    ASSUME TypeInv, NEW r \in Requests, UNCHANGED <<input_reports, transfer, fetched>>,
           unit' = Append(unit, r)
    PROVE  Underway' = Append(Underway, r)
<1> DEFINE front == input_reports \o InTransfer
<1> USE UnderwayParts
<1>1. Underway' = front \o Append(unit, r)
  BY DEF Underway, InTransfer
<1>2. Append(unit, r) = unit \o <<r>> /\ Append(front \o unit, r) = (front \o unit) \o <<r>>
  BY AppendIsConcat
<1>3. <<r>> \in Seq(Requests)
  OBVIOUS
<1>4. front \o (unit \o <<r>>) = (front \o unit) \o <<r>>
  BY <1>3, Regroup
<1> QED
  BY <1>1, <1>2, <1>4

\* A read takes the oldest.
LEMMA ReadTakes ==
    ASSUME TypeInv, NEW u \in Users, ReadReport(u)
    PROVE  Underway # <<>> /\ Head(Underway) = Head(input_reports) /\ Underway' = Tail(Underway)
<1> USE UnderwayParts
<1>1. /\ input_reports # <<>> /\ input_reports' = Tail(input_reports)
      /\ UNCHANGED <<transfer, fetched, unit>>
  BY DEF ReadReport, readFrame, worldVars
<1>2. Underway' = (Tail(input_reports) \o InTransfer) \o unit
  BY <1>1 DEF Underway, InTransfer
<1>3. /\ input_reports \o InTransfer # <<>>
      /\ Head(input_reports \o InTransfer) = Head(input_reports)
      /\ Tail(input_reports \o InTransfer) = Tail(input_reports) \o InTransfer
  BY <1>1, FrontOfConcat
<1>4. /\ (input_reports \o InTransfer) \o unit # <<>>
      /\ Head((input_reports \o InTransfer) \o unit) = Head(input_reports \o InTransfer)
      /\ Tail((input_reports \o InTransfer) \o unit) = Tail(input_reports \o InTransfer) \o unit
  BY <1>3, FrontOfConcat
<1> QED
  BY <1>2, <1>3, <1>4

\* Every step of the handle is a step of the channel, or leaves it as it is.
LEMMA ChannelStep ==
    ASSUME HandleInv, [Next]_vars PROVE [Channel!Next]_Channel!vars
<1> DEFINE chan  == IF dev = "freed" THEN <<>> ELSE Underway
           phase == IF dev = "freed" THEN "closed" ELSE IF plugged THEN "up" ELSE "unplugged"
<1> SUFFICES ASSUME ~UNCHANGED <<chan, got, phase>> PROVE Channel!Next
  BY DEF Channel!vars
<1>0. TypeInv /\ LifeInv
  BY DEF HandleInv
<1>1. CASE dev' = "freed" /\ dev # "freed" /\ UNCHANGED got
  <2>1. chan' = <<>> /\ phase' = "closed" /\ phase \in {"up", "unplugged"}
    BY <1>1
  <2>2. Len(chan) \in Nat
    <3>1. <<>> \in Seq(Requests) /\ Underway \in Seq(Requests)
      BY <1>0, UnderwayParts
    <3> QED
      BY <3>1, LenProperties
  <2>3. 0 \in 0 .. Len(chan) /\ chan' = SubSeq(chan, 1, 0)
    BY <2>1, <2>2, SubSeqEmpty
  <2>4. Channel!Cut
    BY <1>1, <2>1, <2>3 DEF Channel!Cut
  <2> QED
    BY <2>4 DEF Channel!Next
<1>2. CASE Unplug
  <2>1. dev # "freed" /\ dev' = dev /\ got' = got
    BY <1>2 DEF Unplug, devVars, userVars
  <2>2. phase = "up" /\ phase' = "unplugged"
    BY <1>2, <2>1 DEF Unplug
  <2>3. Underway' = input_reports \o InTransfer
    <3>1. Underway' = (input_reports \o InTransfer) \o <<>>
      BY <1>2 DEF Unplug, Underway, InTransfer
    <3> QED
      BY <1>0, <3>1, UnderwayParts, ConcatEmptySeq
  <2>4. \E n \in 0 .. Len(chan) : chan' = SubSeq(chan, 1, n)
    <3>1. /\ chan = (input_reports \o InTransfer) \o unit
          /\ input_reports \o InTransfer \in Seq(Requests) /\ unit \in Seq(Requests)
      BY <1>0, <2>1, UnderwayParts
    <3>2. chan' = input_reports \o InTransfer
      BY <2>1, <2>3
    <3>3. \E n \in 0 .. Len((input_reports \o InTransfer) \o unit) :
              input_reports \o InTransfer = SubSeq((input_reports \o InTransfer) \o unit, 1, n)
      BY <3>1, KeepFront
    <3> QED
      BY <3>1, <3>2, <3>3
  <2>5. Channel!Cut
    BY <2>1, <2>2, <2>4 DEF Channel!Cut
  <2> QED
    BY <2>5 DEF Channel!Next
<1>3. CASE Deliver
  <2>1. UNCHANGED <<dev, got, plugged>>
    BY <1>3 DEF Deliver, Complete, devVars, userVars
  <2> QED
    BY <1>0, <1>3, <2>1, DeliverKeeps
<1>4. CASE CallbackCompleted
  <2>1. UNCHANGED <<dev, got, plugged>>
    BY <1>4 DEF CallbackCompleted, EventHandled, ThreadTo, worldVars
  <2>2. dev # "freed" /\ Len(Underway) > QueueLimit + 2 /\ Underway' = Tail(Underway)
    BY <1>0, <1>4, <2>1, CallbackSheds
  <2>3. Channel!ShedOldest
    BY <2>1, <2>2 DEF Channel!ShedOldest
  <2> QED
    BY <2>3 DEF Channel!Next
<1>5. ASSUME NEW u \in Users, Exchange(u) \/ ExchangeLost(u) \/ ExchangeUnread(u)
      PROVE Channel!Next
  <2>1. /\ dev = "open" /\ UNCHANGED <<dev, plugged, input_reports, transfer, fetched>>
        /\ sent < MaxRequests /\ sent' = sent + 1
        /\ got' = [got EXCEPT ![u] = None]
    BY <1>5 DEF Exchange, ExchangeLost, ExchangeUnread, Write, devVars
  <2>2. unit' = unit \/ (plugged /\ unit' = Append(unit, sent'))
    BY <1>5 DEF Exchange, ExchangeLost, ExchangeUnread, Answer
  <2>3. sent' \in Requests
    BY <1>0, <2>1, RequestsAssumption DEF TypeInv, TypeOK, Requests
  <2>4. Underway' = Underway \/ (plugged /\ Underway' = Append(Underway, sent'))
    <3>1. CASE unit' = unit
      BY <2>1, <3>1 DEF Underway
    <3>2. CASE plugged /\ unit' = Append(unit, sent')
      BY <1>0, <2>1, <2>3, <3>2, AnswerAppends
    <3> QED
      BY <2>2, <3>1, <3>2
  <2>5. Channel!Ask(u)
    BY <2>1, <2>3, <2>4 DEF Channel!Ask
  <2> QED
    BY <2>5 DEF Channel!Next
<1>6. ASSUME NEW u \in Users, ReadReport(u) PROVE Channel!Next
  <2>1. dev = "open" /\ UNCHANGED <<dev, plugged>> /\ got' = [got EXCEPT ![u] = Head(input_reports)]
    BY <1>0, <1>6 DEF ReadReport, Return, readFrame, devVars, worldVars, LifeInv
  <2>2. Channel!Take(u)
    BY <1>0, <1>6, <2>1, ReadTakes DEF Channel!Take
  <2> QED
    BY <2>2 DEF Channel!Next
<1>7. ASSUME NEW u \in Users, ReadFailed(u) PROVE Channel!Next
  <2>1. /\ UNCHANGED <<dev, plugged, input_reports, transfer, fetched, unit>>
        /\ got' = [got EXCEPT ![u] = Failed]
    BY <1>7 DEF ReadFailed, Return, readFrame, devVars, worldVars
  <2>2. Channel!Fail(u)
    BY <2>1 DEF Channel!Fail, Underway
  <2> QED
    BY <2>2 DEF Channel!Next
<1>8. CASE OpenFail \/ CloseFree
  BY <1>1, <1>8 DEF OpenFail, CloseFree, userVars
<1>9. ASSUME NEW u \in Users, ReadLock(u) \/ ReadNothing(u) \/ CondWait(u) PROVE Channel!Next
  BY <1>9 DEF ReadLock, ReadNothing, CondWait, readFrame, devVars, worldVars, Underway
<1>10. CASE OpenPath \/ Barrier \/ Close \/ CloseCancel
  <2>1. UNCHANGED <<input_reports, fetched, unit, plugged, got>>
    BY <1>10 DEF OpenPath, Barrier, Close, CloseCancel, userVars, worldVars
  <2>2. (transfer' = "completed" <=> transfer = "completed") /\ dev # "freed" /\ dev' # "freed"
    BY <1>10 DEF OpenPath, Barrier, Close, CloseCancel, Cancel, CancelWorks
  <2> QED
    BY <2>1, <2>2 DEF Underway
<1>11. CASE FirstSubmit \/ Loop \/ CallbackTimedOut \/ CallbackStop \/ NoEvent \/ EventsError
            \/ ThreadCancel \/ ThreadWake
  <2>1. UNCHANGED <<dev, input_reports, fetched, unit, plugged, got>>
    BY <1>11 DEF FirstSubmit, Loop, CallbackTimedOut, AfterTimeOut, CallbackStop, NoEvent,
         EventsError, ThreadCancel, ThreadWake, EventHandled, ThreadTo, userVars, worldVars
  <2>2. transfer' = "completed" <=> transfer = "completed"
    BY <1>0, <1>11 DEF FirstSubmit, Loop, CallbackTimedOut, CallbackStop, NoEvent, EventsError,
         ThreadCancel, ThreadWake, Submit, Cancel, CancelWorks, LifeInv
  <2> QED
    BY <2>1, <2>2 DEF Underway
<1>12. CASE TimeOut \/ Disconnect \/ Cancelled
  <2>1. UNCHANGED <<dev, input_reports, fetched, unit, plugged, got>>
    BY <1>12 DEF TimeOut, Disconnect, Cancelled, Complete, devVars, userVars
  <2>2. transfer' # "completed" /\ transfer # "completed"
    BY <1>12 DEF TimeOut, Disconnect, Cancelled, Complete
  <2> QED
    BY <2>1, <2>2 DEF Underway
<1>13. CASE UNCHANGED vars
  BY <1>13 DEF vars, devVars, userVars, worldVars, Underway
<1> QED
  BY <1>2, <1>3, <1>4, <1>5, <1>6, <1>7, <1>8, <1>9, <1>10, <1>11, <1>12, <1>13
     DEF Next, Closing, ReadThread, Callback, World, Reading

\* The path of a report, from the unit through the transfer, the callback and
\* the queue to a user (hid.c:618-674, 918-1022), implements the channel of
\* ReportChannel: every report is read at most once and in the order sent, the
\* oldest is lost only when the queue is full, the newest only with the unit.
THEOREM ImplementsChannel == Spec => InOrder
<1>1. Init => Channel!Init
  <2> SUFFICES ASSUME Init PROVE Channel!Init
    OBVIOUS
  <2>1. Underway = <<>>
    BY DEF Init, Underway
  <2> QED
    BY <2>1 DEF Init, Channel!Init
<1>2. HandleInv /\ [Next]_vars => [Channel!Next]_Channel!vars
  BY ChannelStep
<1> QED
  BY <1>1, <1>2, HandleInvHolds, PTL DEF Spec, InOrder, Channel!Spec

=============================================================================
