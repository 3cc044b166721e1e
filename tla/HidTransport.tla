---------------------------- MODULE HidTransport ----------------------------
(***************************************************************************)
(* One handle of hidapi's Linux (libusb) back end and the threads of       *)
(* ptrim-lib that exchange a request and its reply over it.                *)
(*                                                                         *)
(* A read thread keeps one interrupt transfer submitted; its callback      *)
(* queues the reports that arrive.  hid_read() takes the oldest, or sleeps *)
(* on a condition variable.  hid_close() cancels the transfer, joins the   *)
(* thread and frees everything.  A report stands for the request it        *)
(* answers.  libusb, the kernel and the unit are external: what they may   *)
(* do is what the documentation of libusb 1.0 allows.                      *)
(***************************************************************************)
EXTENDS Naturals, Sequences

CONSTANTS
    Users,          \* threads that use the handle
    MaxRequests,    \* bound: exchanges in the life of the handle
    QueueLimit,     \* 30 at line 651 of hid.c
    Mishaps,        \* what may go wrong beyond a quiet exchange
    None, Failed    \* no result yet; the result -1

(***************************************************************************)
(* skip_read      readData() finds its uninitialised res non-zero          *)
(* shared         two threads exchange over the handle at once             *)
(* write_fail     hid_write() fails, and its result is ignored             *)
(* unplug         the unit is pulled out                                   *)
(* lost_submit    the transfer cannot be submitted, which is not noticed   *)
(* late_event     the read thread leaves its loop when the transfer is     *)
(*                complete or cancelled and its callback is still to come  *)
(* foreign_event  libusb_handle_events() returns for another handle        *)
(* events_error   libusb_handle_events() fails                             *)
(***************************************************************************)
AllMishaps == {"skip_read", "shared", "write_fail", "unplug", "lost_submit",
               "late_event", "foreign_event", "events_error"}

ASSUME RequestsAssumption == MaxRequests \in Nat \ {0}
ASSUME QueueAssumption    == QueueLimit \in Nat
ASSUME MishapsAssumption  == Mishaps \subseteq AllMishaps
ASSUME ResultsAssumption  == None # Failed /\ None \notin Users

Requests == 1 .. MaxRequests    \* numbered in the order they are written

VARIABLES
    dev,             \* life of the hid_device, as its owner sees it
    thread,          \* where read_thread() is
    transfer,        \* state of dev->transfer
    fetched,         \* the report in the transfer's buffer
    shutdown_thread,
    input_reports,   \* the queue, oldest first
    mutex,           \* who holds dev->mutex (None: nobody)
    pc,              \* where each user is in an exchange
    sent,            \* requests written so far
    req,             \* each user's last request
    got,             \* result of each user's last hid_read()
    plugged, unit,   \* the unit: is it there, what has it still to send
    happened         \* history: the mishaps so far

devVars    == <<dev, thread>>
userVars   == <<pc, sent, req, got, mutex>>
worldVars  == <<plugged, unit>>
vars == <<devVars, transfer, fetched, shutdown_thread, input_reports, userVars,
          worldVars, happened>>

DevStates == {"none", "opening", "open", "closing", "joining", "freed"}
ThreadAt  == {"none", "start", "barrier", "loop", "events", "cancel", "drain",
              "wake", "ended"}
\* libusb still owns the transfer: its callback is to come.
Busy      == {"inflight", "completed", "timedout", "cancelling", "cancelled",
              "nodevice"}
UserAt    == {"idle", "read", "test", "sleep", "waiting", "woken"}

TypeOK ==
    /\ dev \in DevStates
    /\ thread \in ThreadAt
    /\ transfer \in Busy \cup {"none", "idle", "freed"}
    /\ fetched \in Requests \cup {None}
    /\ shutdown_thread \in BOOLEAN
    /\ input_reports \in Seq(Requests)
    /\ mutex \in Users \cup {None}
    /\ pc \in [Users -> UserAt]
    /\ sent \in 0 .. MaxRequests
    /\ req \in [Users -> 0 .. MaxRequests]
    /\ got \in [Users -> Requests \cup {None, Failed}]
    /\ plugged \in BOOLEAN
    /\ unit \in Seq(Requests)
    /\ happened \subseteq Mishaps

Init ==
    /\ dev = "none" /\ thread = "none" /\ transfer = "none"
    /\ fetched = None
    /\ shutdown_thread = FALSE
    /\ input_reports = <<>>
    /\ mutex = None
    /\ pc = [u \in Users |-> "idle"]
    /\ sent = 0
    /\ req = [u \in Users |-> 0]
    /\ got = [u \in Users |-> None]
    /\ plugged = TRUE /\ unit = <<>>
    /\ happened = {}

Happens(m) == m \in Mishaps /\ happened' = happened \cup {m}
Goto(u, where) == pc' = [pc EXCEPT ![u] = where]
ThreadTo(where) == thread' = where /\ UNCHANGED dev

\* libusb_submit_transfer(); its result is not looked at (lines 697, 673).
Submit ==
    \/ /\ plugged
       /\ transfer' = "inflight"
       /\ UNCHANGED happened
    \/ /\ ~plugged
       /\ transfer' = "idle"
       /\ Happens("lost_submit")

\* libusb_cancel_transfer(): "not found" unless the transfer is in flight and
\* not cancelled yet.
CancelWorks == transfer = "inflight"
Cancel == transfer' = IF CancelWorks THEN "cancelling" ELSE transfer

-----------------------------------------------------------------------------
(* hid_open_path()                                                         *)

\* No such path, or it cannot be opened, detached or claimed: NULL.
OpenFail ==
    /\ dev = "none"
    /\ dev' = "freed"
    /\ UNCHANGED <<thread, transfer, fetched, shutdown_thread, input_reports,
                   userVars, worldVars, happened>>

OpenPath ==
    /\ dev = "none"
    /\ plugged
    /\ dev' = "opening"
    /\ thread' = "start"
    /\ UNCHANGED <<transfer, fetched, shutdown_thread, input_reports, userVars,
                   worldVars, happened>>

\* The thread makes the first submission before it comes to the barrier.
FirstSubmit ==
    /\ thread = "start"
    /\ Submit
    /\ ThreadTo("barrier")
    /\ UNCHANGED <<fetched, shutdown_thread, input_reports, userVars, worldVars>>

Barrier ==
    /\ dev = "opening"
    /\ thread = "barrier"
    /\ dev' = "open"
    /\ thread' = "loop"
    /\ UNCHANGED <<transfer, fetched, shutdown_thread, input_reports, userVars,
                   worldVars, happened>>

-----------------------------------------------------------------------------
(* The kernel and the unit.                                                *)

Unplug ==
    /\ plugged
    /\ "unplug" \in Mishaps
    /\ plugged' = FALSE
    /\ unit' = <<>>
    /\ UNCHANGED <<devVars, transfer, fetched, shutdown_thread, input_reports,
                   userVars, happened>>

Complete(status) ==
    /\ transfer' = status
    /\ UNCHANGED <<devVars, shutdown_thread, input_reports, userVars, plugged,
                   happened>>

Deliver ==
    /\ transfer = "inflight"
    /\ unit # <<>>
    /\ Complete("completed")
    /\ fetched' = Head(unit)
    /\ unit' = Tail(unit)

TimeOut ==
    /\ transfer = "inflight"
    /\ plugged
    /\ Complete("timedout")
    /\ UNCHANGED <<fetched, unit>>

Disconnect ==
    /\ transfer = "inflight"
    /\ ~plugged
    /\ Complete("nodevice")
    /\ UNCHANGED <<fetched, unit>>

Cancelled ==
    /\ transfer = "cancelling"
    /\ Complete("cancelled")
    /\ UNCHANGED <<fetched, unit>>

-----------------------------------------------------------------------------
(* read_callback(), called from libusb_handle_events().                    *)

Handling == thread \in {"events", "drain"}
EventHandled == ThreadTo(IF thread = "events" THEN "loop" ELSE "wake")

Waiting == {u \in Users : pc[u] = "waiting"}

\* pthread_cond_signal(): one of the sleepers, if there is one, is woken.
Signal ==
    IF Waiting = {} THEN UNCHANGED pc ELSE \E u \in Waiting : Goto(u, "woken")

\* Slip: the newest report is dropped when the queue is full.
QueueDropsNewest(r) ==
    IF Len(input_reports) - 1 > QueueLimit THEN input_reports
    ELSE Append(input_reports, r)

\* Slip: the queue is never cut.
QueueGrows(r) == Append(input_reports, r)

\* The report goes to the end.  num_queued counts one less than were there;
\* if that is above the limit the oldest report is dropped.
Queue(r) ==
    LET all == Append(input_reports, r) IN
    IF Len(input_reports) - 1 > QueueLimit THEN Tail(all) ELSE all

\* The sleepers are signalled only when the queue was empty.
CallbackCompleted ==
    /\ Handling
    /\ transfer = "completed"
    /\ mutex = None
    /\ input_reports' = Queue(fetched)
    /\ IF input_reports = <<>> THEN Signal ELSE UNCHANGED pc
    /\ Submit
    /\ EventHandled
    /\ UNCHANGED <<fetched, shutdown_thread, sent, req, got, mutex, worldVars>>

\* Slip: a time-out is taken for a completion, the buffer is queued as it is.
TimedOutBuffer == Queue(fetched)

\* Slip: the same, if there is something in the buffer.
TimedOutAgain == IF fetched = None THEN input_reports ELSE Queue(fetched)

AfterTimeOut == input_reports

CallbackTimedOut ==
    /\ Handling
    /\ transfer = "timedout"
    /\ input_reports' = AfterTimeOut
    /\ Submit
    /\ EventHandled
    /\ UNCHANGED <<fetched, shutdown_thread, userVars, worldVars>>

CallbackStop ==
    /\ Handling
    /\ transfer \in {"cancelled", "nodevice"}
    /\ transfer' = "idle"
    /\ shutdown_thread' = TRUE
    /\ EventHandled
    /\ UNCHANGED <<fetched, input_reports, userVars, worldVars, happened>>

\* libusb_handle_events() returns without a callback of this handle: after
\* 60 seconds in which nothing was submitted, or for another handle.
NoEvent ==
    /\ Handling
    /\ \/ transfer = "idle" /\ UNCHANGED happened
       \/ transfer # "idle" /\ Happens("foreign_event")
    /\ EventHandled
    /\ UNCHANGED <<transfer, fetched, shutdown_thread, input_reports, userVars,
                   worldVars>>

\* libusb_handle_events() fails: the loop is left with shutdown_thread unset;
\* after the cancel nobody looks at the result.
EventsError ==
    /\ Handling
    /\ Happens("events_error")
    /\ ThreadTo(IF thread = "events" THEN "cancel" ELSE "wake")
    /\ UNCHANGED <<transfer, fetched, shutdown_thread, input_reports, userVars,
                   worldVars>>

-----------------------------------------------------------------------------
(* read_thread()                                                           *)

Loop ==
    /\ thread = "loop"
    /\ ThreadTo(IF shutdown_thread THEN "cancel" ELSE "events")
    /\ UNCHANGED <<transfer, fetched, shutdown_thread, input_reports, userVars,
                   worldVars, happened>>

\* Slip: the thread does not wait for what it has cancelled.
AfterCancelEnds == "wake"

AfterCancel == IF CancelWorks THEN "drain" ELSE "wake"

\* The thread waits for an event only if its own cancel had something to do.
ThreadCancel ==
    /\ thread = "cancel"
    /\ Cancel
    /\ ThreadTo(AfterCancel)
    /\ IF transfer \in Busy /\ ~CancelWorks
       THEN Happens("late_event")
       ELSE UNCHANGED happened
    /\ UNCHANGED <<fetched, shutdown_thread, input_reports, userVars, worldVars>>

\* Slip: the broadcast does not take the mutex.
WakeUnlocked == TRUE

WakeLocked == mutex = None

ThreadWake ==
    /\ thread = "wake"
    /\ WakeLocked
    /\ pc' = [u \in Users |-> IF u \in Waiting THEN "woken" ELSE pc[u]]
    /\ ThreadTo("ended")
    /\ UNCHANGED <<transfer, fetched, shutdown_thread, input_reports, sent, req,
                   got, mutex, worldVars, happened>>

-----------------------------------------------------------------------------
(* hid_close(), called when its owner is through with the handle.          *)

\* Slip: shutdown_thread is left to the callback of the cancelled transfer.
StopByCallback == UNCHANGED shutdown_thread

StopThread == shutdown_thread' = TRUE

Close ==
    /\ dev = "open"
    /\ \A u \in Users : pc[u] = "idle"
    /\ StopThread
    /\ dev' = "closing"
    /\ UNCHANGED <<thread, transfer, fetched, input_reports, userVars, worldVars,
                   happened>>

CloseCancel ==
    /\ dev = "closing"
    /\ Cancel
    /\ dev' = "joining"
    /\ UNCHANGED <<thread, fetched, shutdown_thread, input_reports, userVars,
                   worldVars, happened>>

\* The join returns; transfer, interface, handle, queue and dev are released.
CloseFree ==
    /\ dev = "joining"
    /\ thread = "ended"
    /\ transfer' = "freed"
    /\ input_reports' = <<>>
    /\ fetched' = None
    /\ dev' = "freed"
    /\ UNCHANGED <<thread, shutdown_thread, userVars, worldVars, happened>>

-----------------------------------------------------------------------------
(* An exchange: hid_write() and, for the reply, hid_read().                *)

InExchange == {u \in Users : pc[u] # "idle"}

\* hid_write(): the request reaches the unit, or the result -1 is ignored.
Write(u) ==
    /\ dev = "open"
    /\ pc[u] = "idle"
    /\ sent < MaxRequests
    /\ sent' = sent + 1
    /\ req' = [req EXCEPT ![u] = sent']
    /\ got' = [got EXCEPT ![u] = None]
    /\ UNCHANGED <<devVars, transfer, fetched, shutdown_thread, input_reports,
                   mutex, plugged>>

Answer == unit' = IF plugged THEN Append(unit, sent') ELSE unit

\* getSerial(), getName(), getBrightness(), setName(), start() ...: write and
\* read the reply.
Exchange(u) ==
    /\ Write(u)
    /\ Answer
    /\ Goto(u, "read")
    /\ IF InExchange # {} THEN Happens("shared") ELSE UNCHANGED happened

\* The same when the request does not get through.
ExchangeLost(u) ==
    /\ Write(u)
    /\ UNCHANGED unit
    /\ Goto(u, "read")
    /\ InExchange = {}
    /\ Happens("write_fail")

\* A setter whose readData() returns without reading.
ExchangeUnread(u) ==
    /\ Write(u)
    /\ Answer
    /\ UNCHANGED pc
    /\ InExchange = {}
    /\ Happens("skip_read")

-----------------------------------------------------------------------------
(* hid_read(), which blocks on every handle of this program.               *)

readFrame == <<devVars, transfer, fetched, shutdown_thread, worldVars, sent,
               req, happened>>

ReadLock(u) ==
    /\ pc[u] \in {"read", "woken"}
    /\ mutex = None
    /\ mutex' = u
    /\ Goto(u, "test")
    /\ UNCHANGED <<readFrame, input_reports, got>>

Return(u, result) ==
    /\ got' = [got EXCEPT ![u] = result]
    /\ mutex' = None
    /\ Goto(u, "idle")

ReadReport(u) ==
    /\ pc[u] = "test"
    /\ input_reports # <<>>
    /\ Return(u, Head(input_reports))
    /\ input_reports' = Tail(input_reports)
    /\ UNCHANGED readFrame

ReadFailed(u) ==
    /\ pc[u] = "test"
    /\ input_reports = <<>>
    /\ shutdown_thread
    /\ Return(u, Failed)
    /\ UNCHANGED <<readFrame, input_reports>>

ReadNothing(u) ==
    /\ pc[u] = "test"
    /\ input_reports = <<>>
    /\ ~shutdown_thread
    /\ Goto(u, "sleep")
    /\ UNCHANGED <<readFrame, input_reports, got, mutex>>

\* pthread_cond_wait() lets go of the mutex and sleeps in one step.
CondWait(u) ==
    /\ pc[u] = "sleep"
    /\ mutex' = None
    /\ Goto(u, "waiting")
    /\ UNCHANGED <<readFrame, input_reports, got>>

-----------------------------------------------------------------------------
Callback == CallbackCompleted \/ CallbackTimedOut \/ CallbackStop
ReadThread == FirstSubmit \/ Loop \/ Callback \/ NoEvent \/ EventsError \/ ThreadCancel
              \/ ThreadWake
Closing == CloseCancel \/ CloseFree
World == Unplug \/ Deliver \/ TimeOut \/ Disconnect \/ Cancelled
Reading(u) == ReadLock(u) \/ ReadReport(u) \/ ReadFailed(u) \/ ReadNothing(u)
              \/ CondWait(u)

Next ==
    \/ OpenFail \/ OpenPath \/ Barrier \/ Close \/ Closing
    \/ ReadThread
    \/ World
    \/ \E u \in Users : Exchange(u) \/ ExchangeLost(u) \/ ExchangeUnread(u)
                        \/ Reading(u)

Spec == Init /\ [][Next]_vars

(***************************************************************************)
(* All threads are scheduled, the mutex is handed round, the kernel        *)
(* completes what was cancelled or has lost its unit, and a report that    *)
(* is ready is fetched by one of the submissions that keep being made.     *)
(* Nobody has to ask or to close, and nothing has to fail or to time out.  *)
(***************************************************************************)
FairSpec ==
    /\ Spec
    /\ WF_vars(Barrier \/ Closing)
    /\ WF_vars(FirstSubmit \/ Loop \/ ThreadCancel \/ (NoEvent /\ transfer = "idle"))
    /\ SF_vars(Callback \/ ThreadWake)
    /\ SF_vars(Deliver \/ Disconnect \/ Cancelled)
    /\ \A u \in Users : SF_vars(Reading(u))

-----------------------------------------------------------------------------
Never(ms) == happened \cap ms = {}

\* The result of a read is the reply to the request just written, or -1:
\* never the reply to an earlier request or to somebody else's.  It takes a
\* readData() that does not read (ptrim-lib.cc:810) or two threads on one
\* handle to break it; lost writes, time-outs and unplugging do not.
OwnReply ==
    Never({"skip_read", "shared"}) =>
        \A u \in Users : got[u] \in {None, Failed, req[u]}

\* A thread that is never read from costs a bounded amount of memory: the
\* queue holds two reports more than the 30 the comment at hid.c:648 names.
QueueBounded == Len(input_reports) <= QueueLimit + 2

\* hid_close() (lines 1105-1112) cancels a transfer that exists, and frees it
\* only when libusb is through with it, provided the read thread did not leave
\* its loop with a callback still to come, no other handle shares its events and
\* waiting for them does not fail.
CloseSafe ==
    /\ dev = "closing" => transfer # "none"
    /\ Never({"late_event", "foreign_event", "events_error"}) =>
          ~(dev = "joining" /\ thread = "ended" /\ transfer \in Busy)

\* A thread in hid_read() gets its reply or, when the unit is unplugged, -1.
\* Left out are a request that did not get through, a re-submission that
\* failed unnoticed, a read thread that left its loop on an error, and two
\* sleepers of whom one is signalled for two reports.
Released ==
    \A u \in Users :
        pc[u] # "idle" ~>
            pc[u] = "idle" \/ ~Never({"write_fail", "lost_submit", "shared",
                                        "events_error"})

\* hid_close() comes back, whatever the unit and the read thread are doing.
CloseReturns == dev = "closing" ~> dev = "freed"

Underway ==
    input_reports \o (IF transfer = "completed" THEN <<fetched>> ELSE <<>>) \o unit

Channel == INSTANCE ReportChannel WITH
    chan  <- IF dev = "freed" THEN <<>> ELSE Underway,
    phase <- IF dev = "freed" THEN "closed" ELSE IF plugged THEN "up" ELSE "unplugged",
    Limit <- QueueLimit + 2

\* The path of a report, from the unit through the transfer, the callback and
\* the queue to a user (hid.c:618-674, 918-1022), is a channel: every report
\* is read once and in order, the oldest lost only when the queue is full.
InOrder == Channel!Spec

=============================================================================
