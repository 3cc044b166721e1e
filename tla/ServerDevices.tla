--------------------------- MODULE ServerDevices ---------------------------
(***************************************************************************)
(* The device table of ptrim-server and the threads that work on it:       *)
(* monitorDevices opens and closes units as they come and go, the command  *)
(* threads (runCommand, runThread) serve the clients, the end of           *)
(* manageConnection releases a departing client's locks, and               *)
(* sendNotifications tells every client what has changed.                  *)
(*                                                                         *)
(* All of it is shared memory without a mutex.  What a thread does to one  *)
(* slot of the table is a script: a sequence of operations, each one       *)
(* access to the table or one exchange with the unit, and the scripts of   *)
(* all threads interleave.  A client stands for the descriptor its thread  *)
(* uses, whose number a later client may get.                              *)
(***************************************************************************)
EXTENDS Integers, Sequences, FiniteSets

CONSTANTS
    MAX_DEVICES,    \* size of the device table (32 in ptrim-server.h)
    Clients,        \* descriptors of clients
    Watcher,        \* the client whose picture of the devices is followed
    Units,          \* PlasmaTrims, by serial number
    Handles,        \* addresses hid_open_path() may return
    Levels,         \* brightness values; makeBrightness makes none of them 0
    MaxPlugs,       \* bound on how often a unit is plugged in
    Words,          \* the commands clients send
    Overlaps,       \* threads whose work on a slot overlaps other threads' work
    None            \* no client, no unit, no handle, no slot, no argument

\* "color?" has no argument and asks, "color" stands for fade too; "typo" is any
\* command whose list of serials names a unit that is not there, after one that
\* is; "unknown" and "download" change nothing in the table.
Plain == {"lock", "unlock", "force unlock", "start", "stop", "name",
          "brightness reset", "brightness save", "color?", "color",
          "upload", "bad upload", "download", "unknown", "typo"}
WithLevel == {"brightness temp", "brightness", "color"}

\* The serial getSerial makes of the zeroes read from a unit that is gone.
ZeroSerial == "00000000"

ASSUME DevicesAssumption  == MAX_DEVICES \in Nat \ {0}
ASSUME LevelsAssumption   == 0 \notin Levels
ASSUME WatcherAssumption  == Watcher \in Clients
ASSUME MaxPlugsAssumption == MaxPlugs \in Nat \ {0}
ASSUME WordsAssumption    == Words \subseteq Plain \cup WithLevel
ASSUME OverlapsAssumption == Overlaps \subseteq {"command", "monitor", "notifier"}
ASSUME NoneAssumption     == None \notin Clients \cup Units \cup Handles \cup Nat \cup {ZeroSerial}

Commands == [word : Words \cap Plain, arg : {None}]
            \cup [word : Words \cap WithLevel, arg : Levels]
Slots    == 0 .. MAX_DEVICES - 1
Statuses == {"DISCONNECT", "PLAY", "IDLE", "LOCK"}
Flags    == {"NAME", "BRIGHTNESS", "TEMP_BRIGHTNESS", "STATUS"}

\* A path names one plugging-in of a unit: the bus address in it changes.
NoPath == <<None, 0>>
Paths  == Units \X (1 .. MaxPlugs)

VARIABLES
    \* the table
    openDevices, serial, handle, brightness, tempBrightness, status, notify, lock,
    \* the clients' threads
    conn,           \* "out", "in" a session, "leaving": releasing its locks
    toCheck,        \* slots whose lock a leaving client has yet to look at
    script, inst,   \* per slot: what is left to do, and instance->handle
    \* monitorDevices and sendNotifications
    mPc, mI, mScript,
    currentDevices, \* the paths enumerated and not found open yet
    nAt,            \* the slot whose update was sent and not cleared
    \* the outside world
    plugs, present, saved, running,  \* of a unit
    heap,           \* which path an address is the open handle of
    view,           \* what Watcher was last told of a slot
    fault           \* a closed handle or an unset instance was used

table   == <<openDevices, serial, handle, brightness, tempBrightness, status,
             notify, lock>>
clients == <<conn, toCheck, script, inst>>
monitor == <<mPc, mI, mScript, currentDevices>>
world   == <<plugs, present, saved, running>>
vars    == <<table, clients, monitor, nAt, world, heap, view, fault>>

\* What a device listing or [added] says of a slot.
Unlisted == [status |-> "DISCONNECT", saved |-> 0, temp |-> 0]
deviceInfo(d) == IF status[d] = "DISCONNECT" \/ serial[d] = None THEN Unlisted
                 ELSE [status |-> status[d], saved |-> brightness[d],
                       temp |-> tempBrightness[d]]

Init ==
    /\ openDevices = [d \in Slots |-> NoPath]
    /\ serial = [d \in Slots |-> None]
    /\ handle = [d \in Slots |-> None]
    /\ brightness = [d \in Slots |-> 0]
    /\ tempBrightness = [d \in Slots |-> 0]
    /\ status = [d \in Slots |-> "DISCONNECT"]
    /\ notify = [d \in Slots |-> {}]
    /\ lock = [d \in Slots |-> None]
    /\ conn = [c \in Clients |-> "out"]
    /\ toCheck = [c \in Clients |-> {}]
    /\ script = [c \in Clients |-> [d \in Slots |-> <<>>]]
    /\ inst = [c \in Clients |-> [d \in Slots |-> None]]
    /\ mPc = "enumerate" /\ mI = 0 /\ mScript = <<>> /\ currentDevices = {}
    /\ nAt = None
    /\ plugs = [u \in Units |-> 0]
    /\ present = [u \in Units |-> FALSE]
    /\ saved \in [Units -> Levels]
    /\ running = [u \in Units |-> FALSE]
    /\ heap = [h \in Handles |-> NoPath]
    /\ view = [d \in Slots |-> Unlisted]
    /\ fault = FALSE

-----------------------------------------------------------------------------
(* The scripts.  An operation is a record; "if" goes on with one of two    *)
(* scripts after a look at the table.                                      *)

Do(op)      == [op |-> op]
Set(op, x)  == [op |-> op, to |-> x]
If(q, x, yes, no) == [op |-> "if", q |-> q, arg |-> x, yes |-> yes, no |-> no]
When(q, x, yes)   == If(q, x, yes, <<>>)
Notify(flag) == Set("notify", flag)

Now(status_) == <<Set("status", status_), Notify("STATUS")>>
Release == <<Do("stop")>> \o Now("IDLE") \o <<Set("lock", None)>>

LockScript(c) ==
    <<If("status", "LOCK", <<>>,
         <<Set("status", "LOCK"), Set("lock", c), Notify("STATUS")>>)>>

UnlockScript == <<When("status", "LOCK", Release)>>

ForceUnlockScript == <<If("status", "LOCK", Release, <<Set("lock", None)>>)>>

NameScript == <<Do("touch"), Notify("NAME")>>

ShowIfIdle == When("status", "IDLE", <<Do("show")>>)
NewTemp(v) == <<Set("temp", v), Notify("TEMP_BRIGHTNESS")>>

TempScript(v) == <<If("temp", v, <<>>, Append(NewTemp(v), ShowIfIdle))>>

ResetScript ==
    <<If("same", None, <<>>, <<Do("tempFromSaved"), Notify("TEMP_BRIGHTNESS")>>)>>

\* Slip: the new brightness is not written to the unit (line 529 left out).
SaveScriptNoPut ==
    <<If("same", None, <<>>, <<Do("savedFromTemp"), Notify("BRIGHTNESS")>>)>>

SaveScript ==
    <<If("same", None, <<>>,
         <<Do("savedFromTemp"), Do("putSaved"), Notify("BRIGHTNESS")>>)>>

BrightnessScript(v) ==
    <<If("saved", v, <<>>,
         <<Set("put", v), Do("get"), Notify("BRIGHTNESS"),
           If("same", None, <<>>,
              <<Notify("TEMP_BRIGHTNESS"), Do("tempFromSaved")>>),
           ShowIfIdle>>)>>

\* Slip: the change of status is not announced (line 566 or 576 left out).
BecomeIdleSilently == If("status", "IDLE", <<>>, <<Set("status", "IDLE")>>)

BecomeIdle == If("status", "IDLE", <<>>, Now("IDLE"))

ColorScript(v) ==
    (IF v = None THEN <<>> ELSE <<If("temp", v, <<>>, NewTemp(v))>>)
    \o <<BecomeIdle, Do("show")>>

ColorQueryScript ==
    <<Do("show"), When("status", "PLAY", <<Do("start")>>), BecomeIdle, Do("show")>>

UploadScript(ok) ==
    <<Do("stop"), Do("show")>> \o (IF ok THEN <<Do("touch"), Do("start")>> ELSE <<>>)

\* What runThread does for a command it lets through.
Body(c, cmd) ==
    CASE cmd.word = "lock"             -> LockScript(c)
      [] cmd.word = "unlock"           -> UnlockScript
      [] cmd.word = "start"            -> <<Do("start")>> \o Now("PLAY")
      [] cmd.word = "stop"             -> <<Do("stop")>> \o Now("IDLE")
      [] cmd.word = "name"             -> NameScript
      [] cmd.word = "brightness temp"  -> TempScript(cmd.arg)
      [] cmd.word = "brightness reset" -> ResetScript
      [] cmd.word = "brightness save"  -> SaveScript
      [] cmd.word = "brightness"       -> BrightnessScript(cmd.arg)
      [] cmd.word = "color?"           -> ColorQueryScript
      [] cmd.word = "color"            -> ColorScript(cmd.arg)
      [] cmd.word = "upload"           -> UploadScript(TRUE)
      [] cmd.word = "bad upload"       -> UploadScript(FALSE)
      [] cmd.word = "download"         -> <<Do("touch")>>
      [] OTHER                         -> <<>>

\* "if we are not locked or we own the lock" (line 473), else denied.
Granted(c, d) == status[d] # "LOCK" \/ lock[d] = c
runThread(c, d, cmd) ==
    IF Granted(c, d) THEN Body(c, cmd)
    ELSE IF cmd.word = "force unlock" THEN ForceUnlockScript ELSE <<>>

\* Slip: the released device keeps the status LOCK (line 799 left out).
CleanupScriptKeepsStatus == <<Set("lock", None), Do("stop"), Notify("STATUS")>>

\* Slip: the lock stays on the emptied slot (line 167 left out).
RemoveScriptKeepsLock ==
    <<Set("status", "DISCONNECT"), Do("clear"), Do("removed"), Do("close"), Do("forget")>>

\* Slip: the slot is not emptied (line 177 left out).
RemoveScriptKeepsPath ==
    <<Set("status", "DISCONNECT"), Do("clear"), Set("lock", None),
      Do("removed"), Do("close")>>

\* A departing client's lock, and the slot of a unit that has vanished or come.
CleanupScript == <<Set("lock", None), Do("stop")>> \o Now("IDLE")

RemoveScript ==
    <<Set("status", "DISCONNECT"), Do("clear"), Set("lock", None),
      Do("removed"), Do("close"), Do("forget")>>

AddScript(p) ==
    <<Set("path", p), Do("identify"), Do("start"), Set("status", "PLAY"),
      Do("clear"), Set("lock", None), Do("added")>>

-----------------------------------------------------------------------------
(* One operation.                                                          *)

Alive(p) == p # NoPath /\ present[p[1]] /\ plugs[p[1]] = p[2]

\* What is left of a script once its first operation has been looked at.
Holds(o, d) ==
    CASE o.q = "status" -> status[d] = o.arg
      [] o.q = "temp"   -> tempBrightness[d] = o.arg
      [] o.q = "saved"  -> brightness[d] = o.arg
      [] o.q = "same"   -> tempBrightness[d] = brightness[d]
Rest(s, d) ==
    IF Head(s).op = "if"
    THEN (IF Holds(Head(s), d) THEN Head(s).yes ELSE Head(s).no) \o Tail(s)
    ELSE Tail(s)

TableOps == {"if", "status", "lock", "notify", "clear", "temp", "tempFromSaved",
             "savedFromTemp", "path", "added", "removed", "forget"}

TableOp(o, d) ==
    LET At(f, op, x) == IF o.op = op THEN [f EXCEPT ![d] = x] ELSE f IN
    /\ o.op \in TableOps
    /\ status' = At(status, "status", o.to)
    /\ lock' = At(lock, "lock", o.to)
    /\ notify' = IF o.op = "notify" THEN [notify EXCEPT ![d] = @ \cup {o.to}]
                 ELSE At(notify, "clear", {})
    /\ tempBrightness' =
         IF o.op = "temp" THEN [tempBrightness EXCEPT ![d] = o.to]
         ELSE IF o.op = "tempFromSaved" THEN [tempBrightness EXCEPT ![d] = brightness[d]]
         ELSE At(tempBrightness, "forget", 0)
    /\ brightness' =
         IF o.op = "savedFromTemp" THEN [brightness EXCEPT ![d] = tempBrightness[d]]
         ELSE At(brightness, "forget", 0)
    /\ openDevices' = IF o.op = "path" THEN [openDevices EXCEPT ![d] = o.to]
                      ELSE At(openDevices, "forget", NoPath)
    /\ serial' = At(serial, "forget", None)
    /\ view' = IF conn[Watcher] # "in" THEN view
                ELSE IF o.op = "added" THEN [view EXCEPT ![d] = deviceInfo(d)]
                ELSE At(view, "removed", Unlisted)
    /\ UNCHANGED <<handle, world, heap, fault>>

\* An exchange through handle h.  A unit that is gone ignores it, and what is
\* read from it is 0; on a closed handle anything may happen, and NULL is fatal.
HidOp(o, d, h) ==
    LET p == IF h = None THEN NoPath ELSE heap[h]
        u == p[1]
        Read(v) == IF Alive(p) THEN {v} ELSE IF p = NoPath THEN Levels \cup {0} ELSE {0}
        OnUnit(f, ops, x) == IF Alive(p) /\ o.op \in ops THEN [f EXCEPT ![u] = x] ELSE f
    IN
    /\ o.op \in {"start", "stop", "show", "touch", "put", "putSaved", "get", "identify"}
    /\ fault' \in IF h = None THEN {TRUE} ELSE IF p = NoPath THEN BOOLEAN ELSE {FALSE}
    /\ running' = OnUnit(running, {"start", "stop", "show"}, o.op = "start")
    /\ saved' = IF o.op = "put" THEN OnUnit(saved, {"put"}, o.to)
                ELSE OnUnit(saved, {"putSaved"}, brightness[d])
    /\ \E v \in Read(saved[u]) :
          brightness' = IF o.op \in {"get", "identify"}
                        THEN [brightness EXCEPT ![d] = v] ELSE brightness
    /\ tempBrightness' = IF o.op = "identify"
                         THEN [tempBrightness EXCEPT ![d] = brightness'[d]]
                         ELSE tempBrightness
    /\ serial' = IF o.op = "identify"
                 THEN [serial EXCEPT ![d] = IF Alive(p) THEN u ELSE ZeroSerial]
                 ELSE serial
    /\ UNCHANGED <<openDevices, handle, status, notify, lock, plugs, present, heap, view>>

\* hid_close frees the handle; handle[d] keeps the address.
CloseOp(o, d, h) ==
    /\ o.op = "close"
    /\ heap' = [heap EXCEPT ![h] = NoPath]
    /\ UNCHANGED <<table, world, view, fault>>

Operation(o, d, h) == TableOp(o, d) \/ HidOp(o, d, h) \/ CloseOp(o, d, h)

-----------------------------------------------------------------------------
(* Who is at work on slot d, and whether a thread of a kind may begin      *)
(* there: a kind of thread not in Overlaps waits for its turn.             *)

AtWork(d) == {k \in {"command", "monitor", "notifier"} :
                CASE k = "command"  -> \E c \in Clients : script[c][d] # <<>>
                  [] k = "monitor"  -> mScript # <<>> /\ mI = d
                  [] k = "notifier" -> nAt = d}
MayBegin(kind, d) == kind \in Overlaps \/ AtWork(d) \subseteq Overlaps

-----------------------------------------------------------------------------
(* The outside world: units are plugged in and pulled out.                 *)

Plug(u) ==
    /\ ~present[u] /\ plugs[u] < MaxPlugs
    /\ present' = [present EXCEPT ![u] = TRUE]
    /\ plugs' = [plugs EXCEPT ![u] = @ + 1]
    /\ running' = [running EXCEPT ![u] = TRUE]
    /\ UNCHANGED <<table, clients, monitor, nAt, saved, heap, view, fault>>

Unplug(u) ==
    /\ present[u]
    /\ present' = [present EXCEPT ![u] = FALSE]
    /\ UNCHANGED <<table, clients, monitor, nAt, plugs, saved, running, heap, view, fault>>

-----------------------------------------------------------------------------
(* Clients.                                                                *)

Idle(c) == \A d \in Slots : script[c][d] = <<>>

\* connectedDevices: a client that gave the code is sent the list of devices.
Connect(c) ==
    /\ conn[c] = "out"
    /\ conn' = [conn EXCEPT ![c] = "in"]
    /\ view' = IF c = Watcher THEN [d \in Slots |-> deviceInfo(d)] ELSE view
    /\ UNCHANGED <<table, toCheck, script, inst, monitor, nAt, world, heap, fault>>

\* findDeviceNumber: the first open slot with the serial of slot d is d.
Found(d) ==
    /\ openDevices[d] # NoPath
    /\ serial[d] # None
    /\ \A e \in 0 .. d - 1 : openDevices[e] # NoPath => serial[e] # serial[d]

\* runCommand: one thread for each selected device, with its handle.
runCommand(c, cmd, S) ==
    /\ conn[c] = "in" /\ Idle(c)
    /\ cmd.word # "typo"
    /\ \A d \in S : Found(d) /\ MayBegin("command", d)
    /\ script' = [script EXCEPT ![c] =
                    [d \in Slots |-> IF d \in S THEN <<Set("guard", cmd)>> ELSE <<>>]]
    /\ inst' = [inst EXCEPT ![c] = [d \in Slots |-> IF d \in S THEN handle[d] ELSE None]]
    /\ UNCHANGED <<table, conn, toCheck, monitor, nAt, world, heap, view, fault>>

\* A thread is started for every serial in the list, an instance is filled in
\* for the known ones only: the last threads read unset memory.
runCommandTypo(c) ==
    /\ conn[c] = "in" /\ Idle(c)
    /\ "typo" \in Words
    /\ \E d \in Slots : Found(d)
    /\ fault' = TRUE
    /\ UNCHANGED <<table, clients, monitor, nAt, world, heap, view>>

\* The instance goes away with the thread.
Proceed(c, d, rest) ==
    /\ script' = [script EXCEPT ![c][d] = rest]
    /\ inst' = IF rest = <<>> THEN [inst EXCEPT ![c][d] = None] ELSE inst

\* runThread looks at status and lock.
Guard(c, d) ==
    /\ script[c][d] # <<>>
    /\ Head(script[c][d]).op = "guard"
    /\ Proceed(c, d, runThread(c, d, Head(script[c][d]).to))
    /\ UNCHANGED <<table, conn, toCheck, monitor, nAt, world, heap, view, fault>>

\* The next operation; a clean-up has no instance and takes handle[d] as it is.
ClientStep(c, d) ==
    /\ script[c][d] # <<>>
    /\ Operation(Head(script[c][d]), d, IF inst[c][d] = None THEN handle[d] ELSE inst[c][d])
    /\ Proceed(c, d, Rest(script[c][d], d))
    /\ UNCHANGED <<conn, toCheck, monitor, nAt>>

\* Slip: the clean-up loop starts at slot 1.
LeaveSkipsFirst(c) ==
    /\ conn[c] = "in" /\ Idle(c)
    /\ conn' = [conn EXCEPT ![c] = "leaving"]
    /\ toCheck' = [toCheck EXCEPT ![c] = Slots \ {0}]
    /\ view' = IF c = Watcher THEN [d \in Slots |-> Unlisted] ELSE view
    /\ UNCHANGED <<table, script, inst, monitor, nAt, world, heap, fault>>

\* The session ends, once the command under way is done.
Leave(c) ==
    /\ conn[c] = "in" /\ Idle(c)
    /\ conn' = [conn EXCEPT ![c] = "leaving"]
    /\ toCheck' = [toCheck EXCEPT ![c] = Slots]
    /\ view' = IF c = Watcher THEN [d \in Slots |-> Unlisted] ELSE view
    /\ UNCHANGED <<table, script, inst, monitor, nAt, world, heap, fault>>

\* Slot by slot: the lock is looked at, and released if it is the client's.
CheckLock(c, d) ==
    /\ conn[c] = "leaving" /\ Idle(c)
    /\ d \in toCheck[c] /\ \A e \in toCheck[c] : d <= e
    /\ MayBegin("command", d)
    /\ toCheck' = [toCheck EXCEPT ![c] = @ \ {d}]
    /\ script' = [script EXCEPT ![c][d] = IF lock[d] = c THEN CleanupScript ELSE <<>>]
    /\ UNCHANGED <<table, conn, inst, monitor, nAt, world, heap, view, fault>>

\* The descriptor is closed and its number may be given to another client.
Gone(c) ==
    /\ conn[c] = "leaving" /\ Idle(c) /\ toCheck[c] = {}
    /\ conn' = [conn EXCEPT ![c] = "out"]
    /\ UNCHANGED <<table, toCheck, script, inst, monitor, nAt, world, heap, view, fault>>

-----------------------------------------------------------------------------
(* monitorDevices.                                                         *)

\* The loops over the slots: first the removals, then the additions.
MonitorAt(where, i) == mPc' = where /\ mI' = i

\* Slip: the loops run to i <= MAX_DEVICES.
NextSlotTooFar ==
    IF mI < MAX_DEVICES THEN MonitorAt(mPc, mI + 1)
    ELSE MonitorAt(IF mPc = "remove" THEN "add" ELSE "enumerate", 0)

NextSlot ==
    IF mI + 1 < MAX_DEVICES THEN MonitorAt(mPc, mI + 1)
    ELSE MonitorAt(IF mPc = "remove" THEN "add" ELSE "enumerate", 0)
AtSlot(where) == mPc = where /\ mScript = <<>>

\* hid_enumerate; the list is cut at MAX_DEVICES.
Enumerate ==
    /\ mPc = "enumerate"
    /\ LET all == {<<u, plugs[u]>> : u \in {v \in Units : present[v]}} IN
       \E S \in SUBSET all :
          /\ S = all \/ Cardinality(S) = MAX_DEVICES
          /\ Cardinality(S) <= MAX_DEVICES
          /\ currentDevices' = S
    /\ MonitorAt("remove", 0)
    /\ UNCHANGED <<table, clients, mScript, nAt, world, heap, view, fault>>

\* Slip: a unit that is open stays in the list of new ones (line 160 left out).
KeepListed ==
    /\ AtSlot("remove")
    /\ openDevices[mI] \in {NoPath} \cup currentDevices
    /\ NextSlot
    /\ UNCHANGED <<table, clients, mScript, currentDevices, nAt, world, heap, view, fault>>

\* An empty slot, or a unit that is still there.
Keep ==
    /\ AtSlot("remove")
    /\ openDevices[mI] \in {NoPath} \cup currentDevices
    /\ currentDevices' = currentDevices \ {openDevices[mI]}
    /\ NextSlot
    /\ UNCHANGED <<table, clients, mScript, nAt, world, heap, view, fault>>

Remove ==
    /\ AtSlot("remove")
    /\ openDevices[mI] \notin {NoPath} \cup currentDevices
    /\ MayBegin("monitor", mI)
    /\ mScript' = RemoveScript
    /\ UNCHANGED <<table, clients, mPc, mI, currentDevices, nAt, world, heap, view, fault>>

\* A slot in use, or nothing left that opens; hid_open_path() returned NULL.
Pass ==
    /\ AtSlot("add")
    /\ openDevices[mI] # NoPath \/ \A p \in currentDevices : ~Alive(p)
    /\ handle' = IF openDevices[mI] = NoPath /\ currentDevices # {}
                 THEN [handle EXCEPT ![mI] = None] ELSE handle
    /\ NextSlot
    /\ UNCHANGED <<openDevices, serial, brightness, tempBrightness, status, notify, lock,
                   clients, mScript, currentDevices, nAt, world, heap, view, fault>>

\* hid_open_path() opens a new unit at an address that is free.
Add(p) ==
    /\ AtSlot("add")
    /\ openDevices[mI] = NoPath
    /\ p \in currentDevices /\ Alive(p)
    /\ MayBegin("monitor", mI)
    /\ \E h \in Handles :
          /\ heap[h] = NoPath
          /\ heap' = [heap EXCEPT ![h] = p]
          /\ handle' = [handle EXCEPT ![mI] = h]
    /\ currentDevices' = currentDevices \ {p}
    /\ mScript' = AddScript(p)
    /\ UNCHANGED <<openDevices, serial, brightness, tempBrightness, status, notify, lock,
                   clients, mPc, mI, nAt, world, view, fault>>

MonitorStep ==
    /\ mScript # <<>>
    /\ Operation(Head(mScript), mI, handle[mI])
    /\ mScript' = Rest(mScript, mI)
    /\ IF mScript' = <<>> THEN NextSlot ELSE UNCHANGED <<mPc, mI>>
    /\ UNCHANGED <<clients, currentDevices, nAt>>

Monitor == Enumerate \/ Keep \/ Remove \/ Pass \/ MonitorStep
           \/ \E p \in Paths : Add(p)

-----------------------------------------------------------------------------
(* sendNotifications.                                                      *)

\* Every client is sent the flagged values as they are now.
SendUpdate(d) ==
    /\ nAt = None
    /\ status[d] # "DISCONNECT" /\ notify[d] # {}
    /\ MayBegin("notifier", d)
    /\ view' = IF conn[Watcher] # "in" THEN view ELSE
         [view EXCEPT ![d] =
            [status |-> IF "STATUS" \in notify[d] THEN status[d] ELSE @.status,
             saved |-> IF "BRIGHTNESS" \in notify[d] THEN brightness[d] ELSE @.saved,
             temp |-> IF "TEMP_BRIGHTNESS" \in notify[d] THEN tempBrightness[d] ELSE @.temp]]
    /\ nAt' = d
    /\ UNCHANGED <<table, clients, monitor, world, heap, fault>>

\* "clean the notification"
ClearUpdate ==
    /\ nAt # None
    /\ notify' = [notify EXCEPT ![nAt] = {}]
    /\ nAt' = None
    /\ UNCHANGED <<openDevices, serial, handle, brightness, tempBrightness, status, lock,
                   clients, monitor, world, heap, view, fault>>

-----------------------------------------------------------------------------
Notifier == ClearUpdate \/ \E d \in Slots : SendUpdate(d)

Client(c) ==
    \/ Connect(c) \/ Leave(c) \/ Gone(c) \/ runCommandTypo(c)
    \/ \E cmd \in Commands, S \in SUBSET Slots \ {{}} : runCommand(c, cmd, S)
    \/ \E d \in Slots : Guard(c, d) \/ ClientStep(c, d) \/ CheckLock(c, d)

\* The use of a closed handle may end the process.
Next ==
    /\ ~fault
    /\ \/ Monitor \/ Notifier
       \/ \E c \in Clients : Client(c)
       \/ \E u \in Units : Plug(u) \/ Unplug(u)

Spec == Init /\ [][Next]_vars

\* The threads of the server are scheduled; units and clients come and go as
\* they please.
FairSpec ==
    /\ Spec
    /\ WF_vars(Monitor)
    /\ WF_vars(Notifier)
    /\ \A c \in Clients : WF_vars(\E d \in Slots : Guard(c, d) \/ ClientStep(c, d)
                                                     \/ CheckLock(c, d))

-----------------------------------------------------------------------------
TypeOK ==
    /\ openDevices \in [Slots -> Paths \cup {NoPath}]
    /\ serial \in [Slots -> Units \cup {None, ZeroSerial}]
    /\ handle \in [Slots -> Handles \cup {None}]
    /\ brightness \in [Slots -> Levels \cup {0}]
    /\ tempBrightness \in [Slots -> Levels \cup {0}]
    /\ status \in [Slots -> Statuses]
    /\ notify \in [Slots -> SUBSET Flags]
    /\ lock \in [Slots -> Clients \cup {None}]
    /\ conn \in [Clients -> {"out", "in", "leaving"}]
    /\ toCheck \in [Clients -> SUBSET Slots]
    /\ mPc \in {"enumerate", "remove", "add"}
    /\ mI \in Slots
    /\ currentDevices \subseteq Paths
    /\ nAt \in Slots \cup {None}
    /\ heap \in [Handles -> Paths \cup {NoPath}]

\* A lock never outlives its holder: its client is connected and has not yet
\* passed the slot in its clean-up (lines 795-802).  Otherwise the device would
\* stay locked, or belong to the next client that gets the descriptor.
LockHolderConnected ==
    \A d \in Slots : lock[d] # None =>
        \/ conn[lock[d]] = "in"
        \/ conn[lock[d]] = "leaving" /\ d \in toCheck[lock[d]]
        \/ conn[lock[d]] = "leaving" /\ script[lock[d]][d] = CleanupScript

\* No unit is open in two slots, whenever it is pulled out and put back
\* (lines 152-228).
UniqueOpen ==
    \A d, e \in Slots :
        (openDevices[d] # NoPath /\ openDevices[d] = openDevices[e]) => d = e

\* A status of LOCK names a client that can unlock the device: nobody else is
\* let through by line 473.
LockedToClient ==
    \A d \in Slots : AtWork(d) = {} /\ status[d] = "LOCK" => lock[d] # None

\* A slot without a unit is blank: it has no status to announce, no lock and no
\* update due that the next unit in the slot would inherit (lines 165-181).
NoGhost ==
    \A d \in Slots : AtWork(d) = {} /\ openDevices[d] = NoPath =>
        status[d] = "DISCONNECT" /\ lock[d] = None /\ notify[d] = {}

\* What the table says of a unit is what the unit does: it plays if its status
\* is PLAY, stands still if it is IDLE, and has the saved brightness shown.
DeviceAgrees ==
    \A d \in Slots :
        LET u == openDevices[d][1] IN
        AtWork(d) = {} /\ Alive(openDevices[d]) =>
            /\ status[d] = "PLAY" => running[u]
            /\ status[d] = "IDLE" => ~running[u]
            /\ brightness[d] = saved[u]

\* The slot is quiet: nobody is at work on it and no update is due.
Quiet(d) == AtWork(d) = {} /\ notify[d] = {}

\* A client has accurate information about a slot that is quiet (lines 165-175,
\* 209-220, 312-357 and every notify[..] |= in runThread).
ViewsAccurate ==
    conn[Watcher] = "in" => \A d \in Slots : Quiet(d) => view[d] = deviceInfo(d)

\* A command that line 473 lets through comes from the owner of the lock, if
\* the device has one: "if we are not locked or we own the lock".
LockRespected ==
    \A c \in Clients, d \in Slots :
        /\ script[c][d] # <<>>
        /\ Head(script[c][d]).op = "guard"
        /\ Granted(c, d)
        => lock[d] \in {None, c}

\* monitorDevices keeps up: a unit that stays plugged in gets a slot, and one
\* that was pulled out loses its slot.
Noticed ==
    \A p \in Paths :
        /\ Alive(p) ~> fault \/ ~Alive(p) \/ \E d \in Slots : openDevices[d] = p
        /\ (\E d \in Slots : openDevices[d] = p /\ ~Alive(p))
              ~> fault \/ \A d \in Slots : openDevices[d] # p

=============================================================================
