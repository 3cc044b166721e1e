-------------------- MODULE ServerDevicesAgreementProofs --------------------
(***************************************************************************)
(* Theorems about ServerDevices for threads that take turns on a slot:     *)
(* what the table says of a unit is what the unit does, and a client knows *)
(* what the table says.                                                    *)
(*                                                                         *)
(* In the middle of a turn neither holds: what makes up for it is still to *)
(* come in the script.  So the invariants speak of a slot and of the       *)
(* script that is left to do on it; with nothing left they say what the    *)
(* theorems do.                                                            *)
(***************************************************************************)
EXTENDS ServerDevicesProofs

-----------------------------------------------------------------------------
(* Scripts as sets of operations.                                          *)

Elements(s) == {s[i] : i \in DOMAIN s}

\* What a client follows of a slot, by the flag that announces it, and the operations
\* of a command that change it.
Followed == {"STATUS", "BRIGHTNESS", "TEMP_BRIGHTNESS"}
Changes(f) == CASE f = "STATUS"          -> {"status"}
                [] f = "BRIGHTNESS"      -> {"get", "savedFromTemp"}
                [] f = "TEMP_BRIGHTNESS" -> {"temp", "tempFromSaved"}

\* The script announces f, or has nothing to announce.
Says(s, f)   == Notify(f) \in Elements(s)
Silent(s, f) == \A o \in Elements(s) : o.op \notin Changes(f)
Announced(s) == \A f \in Followed : Says(s, f) \/ Silent(s, f)

\* The operations of a command that announces what it changes, in every branch.
Visible == Simple({"PLAY", "IDLE", "LOCK"}, Clients \cup {None})
Told(S) == {b \in Branch(S) : Announced(b.yes) /\ Announced(b.no)}
Telling == Visible \cup Told(Visible)
Careful == Telling \cup Told(Telling)

Guards == {<<Set("guard", cmd)>> : cmd \in Commands}

-----------------------------------------------------------------------------
(* What a client knows of a slot.                                          *)

Watching == conn[Watcher] = "in"

Shown(d, f) == CASE f = "STATUS"          -> view[d].status = status[d]
                 [] f = "BRIGHTNESS"      -> view[d].saved = brightness[d]
                 [] f = "TEMP_BRIGHTNESS" -> view[d].temp = tempBrightness[d]

\* Slot d is listed, and script s is left to do on it: what the client does not know is
\* flagged, or will be.
Heeds(d, s) ==
    /\ status[d] # "DISCONNECT" /\ serial[d] # None
    /\ s \in Seq(Careful) \cup Guards
    /\ \A f \in Followed : \/ f \in notify[d] \/ Says(s, f)
                           \/ Silent(s, f) /\ (Watching => Shown(d, f))

\* A client does not see the slot.
Unseen(d) == status[d] = "DISCONNECT" /\ (Watching => view[d] = Unlisted)

\* monitorDevices has script s to do on slot d.
MonitorHeeds(d, s) ==
    \/ /\ openDevices[d] # NoPath
       /\ \/ s = RemoveScript
          \/ /\ status[d] = "DISCONNECT"
             /\ s \in {<<Do("clear"), Set("lock", None), Do("removed"), Do("close"), Do("forget")>>,
                       <<Set("lock", None), Do("removed"), Do("close"), Do("forget")>>,
                       <<Do("removed"), Do("close"), Do("forget")>>}
          \/ Unseen(d) /\ s \in {<<Do("close"), Do("forget")>>, <<Do("forget")>>}
          \/ s = <<Do("identify"), Do("start"), Set("status", "PLAY"), Do("clear"),
                   Set("lock", None), Do("added")>>
          \/ /\ serial[d] # None
             /\ s \in {<<Do("start"), Set("status", "PLAY"), Do("clear"), Set("lock", None), Do("added")>>,
                       <<Set("status", "PLAY"), Do("clear"), Set("lock", None), Do("added")>>}
          \/ /\ serial[d] # None /\ status[d] = "PLAY"
             /\ s \in {<<Do("clear"), Set("lock", None), Do("added")>>,
                       <<Set("lock", None), Do("added")>>, <<Do("added")>>}
    \/ \E p \in Paths : s = AddScript(p)

\* Between turns.
Knows(d) == IF openDevices[d] = NoPath THEN Unseen(d) ELSE Heeds(d, <<>>)

Free(d) == ~MonitorBusy(d) /\ \A c \in Clients : script[c][d] = <<>>

ViewSlot(d) ==
    /\ \A c \in Clients : script[c][d] # <<>> => Heeds(d, script[c][d])
    /\ MonitorBusy(d) => MonitorHeeds(d, mScript)
    /\ Free(d) => Knows(d)
    /\ nAt = d => Free(d) /\ openDevices[d] # NoPath /\ (Watching => view[d] = deviceInfo(d))

ViewType == view \in [Slots -> [status : Statuses, saved : Levels \cup {0}, temp : Levels \cup {0}]]

ViewInv  == ViewType /\ \A d \in Slots : ViewSlot(d)

-----------------------------------------------------------------------------
(* What the unit of a slot does.                                           *)

\* After these commands the unit plays or stands still whatever its status is: the
\* server does not write the status (lines 578-602).
Uploads == {"upload", "bad upload"}

\* Operations that touch neither the status nor what the unit does, K of them without
\* an argument; and scripts of operations in S, with branches in them.
Base(K) == [op : K] \cup [op : {"notify"}, to : Flags] \cup [op : {"temp"}, to : Levels]
           \cup [op : {"lock"}, to : Clients \cup {None}]
Level(S) == S \cup Branch(S)
Tree(S)  == Level(Level(S))

\* The operations of scripts that keep the unit's brightness that of the table; that keep
\* a unit that is not at rest as it is; and that leave a unit at rest that is.
KeepBase == Base({"start", "stop", "show", "touch", "get", "putSaved", "tempFromSaved"})
            \cup [op : {"status"}, to : Statuses]
CalmBase == Base({"touch", "get", "putSaved", "tempFromSaved", "savedFromTemp"})
            \cup [op : {"put"}, to : Levels] \cup {ShowIfIdle}
RestBase == Base({"touch", "get", "putSaved", "tempFromSaved", "savedFromTemp", "stop", "show"})
            \cup [op : {"put"}, to : Levels] \cup [op : {"status"}, to : {"IDLE"}]
Keeping  == Tree(KeepBase)
Calm     == Tree(CalmBase)
Restful  == Tree(RestBase)

SavedAgrees(d) == brightness[d] = saved[openDevices[d][1]]
StatusAgrees(d) == /\ status[d] = "PLAY" => running[openDevices[d][1]]
                   /\ status[d] = "IDLE" => ~running[openDevices[d][1]]

\* The rest of a new brightness after it was put to the unit.
GetScript == <<Do("get"), Notify("BRIGHTNESS"),
               If("same", None, <<>>, <<Notify("TEMP_BRIGHTNESS"), Do("tempFromSaved")>>), ShowIfIdle>>
PutScript(v) == <<Set("put", v), Do("get"), Notify("BRIGHTNESS"),
                  If("same", None, <<>>, <<Notify("TEMP_BRIGHTNESS"), Do("tempFromSaved")>>), ShowIfIdle>>

\* Script s leaves the brightness of the unit that of the table.
Saves(d, s) ==
    \/ /\ SavedAgrees(d)
       /\ s \in Seq(Keeping) \cup Guards \cup {SaveScript} \cup {BrightnessScript(v) : v \in Levels}
    \/ s \in {<<Do("savedFromTemp"), Do("putSaved"), Notify("BRIGHTNESS")>>,
              <<Do("putSaved"), Notify("BRIGHTNESS")>>, GetScript}
             \cup {PutScript(v) : v \in Levels}

\* Script s leaves the unit at rest, and the table says so.
Rests(d, s) ==
    /\ s \in Seq(Restful)
    /\ ~running[openDevices[d][1]] \/ Do("stop") \in Elements(s) \/ Do("show") \in Elements(s)
    /\ status[d] = "IDLE" \/ Set("status", "IDLE") \in Elements(s) \/ BecomeIdle \in Elements(s)

\* Script s leaves the unit doing what the table says.
Acts(d, s) ==
    \/ /\ StatusAgrees(d)
       /\ s \in Guards \cup {LockScript(c) : c \in Clients} \cup {UnlockScript, ForceUnlockScript}
    \/ StatusAgrees(d) /\ status[d] # "IDLE" /\ s \in Seq(Calm)
    \/ Rests(d, s)
    \/ s \in {<<Set("status", "LOCK"), Set("lock", c), Notify("STATUS")>> : c \in Clients}
    \/ s \in {<<Do("start"), Set("status", "PLAY"), Notify("STATUS")>>, ColorQueryScript,
              <<When("status", "PLAY", <<Do("start")>>), BecomeIdle, Do("show")>>,
              <<Do("start"), BecomeIdle, Do("show")>>}
    \/ running[openDevices[d][1]] /\ s = <<Set("status", "PLAY"), Notify("STATUS")>>

Serves(d, s) == Alive(openDevices[d]) => Saves(d, s) /\ Acts(d, s)

\* What monitorDevices does to a slot it empties, and to one it has written a path to.
Removals == {RemoveScript, <<Do("clear"), Set("lock", None), Do("removed"), Do("close"), Do("forget")>>,
             <<Set("lock", None), Do("removed"), Do("close"), Do("forget")>>,
             <<Do("removed"), Do("close"), Do("forget")>>, <<Do("close"), Do("forget")>>, <<Do("forget")>>}
Fillings == {<<Do("identify"), Do("start"), Set("status", "PLAY"), Do("clear"), Set("lock", None), Do("added")>>,
             <<Do("start"), Set("status", "PLAY"), Do("clear"), Set("lock", None), Do("added")>>,
             <<Set("status", "PLAY"), Do("clear"), Set("lock", None), Do("added")>>,
             <<Do("clear"), Set("lock", None), Do("added")>>, <<Set("lock", None), Do("added")>>, <<Do("added")>>}

\* Script s of monitorDevices leaves a unit that plays, as the table says.
Fills(d, s) ==
    s \in Fillings /\ Alive(openDevices[d]) =>
        /\ Head(s).op # "identify" => SavedAgrees(d)
        /\ Head(s).op \notin {"identify", "start"} => running[openDevices[d][1]]
        /\ Head(s).op \notin {"identify", "start", "status"} => status[d] = "PLAY"

AgreeSlot(d) ==
    /\ \A c \in Clients : script[c][d] # <<>> => Serves(d, script[c][d])
    /\ MonitorBusy(d) => Fills(d, mScript)
    /\ Free(d) /\ openDevices[d] # NoPath => Serves(d, <<>>)

\* A path that is open, or about to be, is of a plugging-in that has happened.
Happened(p) == p[2] <= plugs[p[1]]

\* The handle of a slot is open on the slot's unit, and a thread has that handle.
HandleSlot(d) ==
    /\ MonitorBusy(d) => \/ mScript \in Removals \cup Fillings /\ openDevices[d] # NoPath
                         \/ mScript \in {AddScript(p) : p \in Paths} /\ openDevices[d] = NoPath
    /\ openDevices[d] # NoPath => Happened(openDevices[d])
    /\ openDevices[d] # NoPath /\ ~(MonitorBusy(d) /\ mScript = <<Do("forget")>>) =>
          handle[d] \in Handles /\ heap[handle[d]] = openDevices[d]
    /\ \A p \in Paths : MonitorBusy(d) /\ mScript = AddScript(p) =>
          Happened(p) /\ handle[d] \in Handles /\ heap[handle[d]] = p
    /\ \A c \in Clients : inst[c][d] # None => inst[c][d] = handle[d] /\ script[c][d] # <<>>

HandleInv == \A d \in Slots : HandleSlot(d)
AgreeInv  == running \in [Units -> BOOLEAN] /\ \A d \in Slots : AgreeSlot(d)

-----------------------------------------------------------------------------
(* Operations and what is left of a script.                                *)

\* What short scripts are made of.
LEMMA FewElements ==
    /\ Elements(<<>>) = {}
    /\ \A a : Elements(<<a>>) = {a}
    /\ \A a, b : Elements(<<a, b>>) = {a, b}
    /\ \A a, b, c : Elements(<<a, b, c>>) = {a, b, c}
    /\ \A a, b, c, d : Elements(<<a, b, c, d>>) = {a, b, c, d}
    /\ \A a, b, c, d, e : Elements(<<a, b, c, d, e>>) = {a, b, c, d, e}
  BY DEF Elements

\* What a script is made of, its first operation and the rest.
LEMMA ElementsTail ==
    ASSUME NEW S, NEW s \in Seq(S), s # <<>>
    PROVE  Elements(s) = {Head(s)} \cup Elements(Tail(s))
<1>1. Len(s) \in Nat /\ Len(s) > 0 /\ DOMAIN s = 1 .. Len(s) /\ Head(s) = s[1]
  BY LenProperties, EmptySeq, HeadTailProperties
<1>2. /\ DOMAIN Tail(s) = 1 .. (Len(s) - 1)
      /\ \A i \in 1 .. (Len(s) - 1) : Tail(s)[i] = s[i + 1]
  BY HeadTailProperties, LenProperties
<1>3. ASSUME NEW i \in 1 .. Len(s) PROVE s[i] \in {Head(s)} \cup Elements(Tail(s))
  <2>1. CASE i = 1
    BY <1>1, <2>1
  <2>2. CASE i # 1
    <3>1. i - 1 \in 1 .. (Len(s) - 1) /\ (i - 1) + 1 = i
      BY <1>1, <2>2
    <3> QED
      BY <1>2, <3>1 DEF Elements
  <2> QED
    BY <2>1, <2>2
<1>4. ASSUME NEW i \in 1 .. (Len(s) - 1) PROVE Tail(s)[i] \in Elements(s)
  <2>1. i + 1 \in 1 .. Len(s)
    BY <1>1
  <2> QED
    BY <1>1, <1>2, <2>1 DEF Elements
<1>5. Head(s) \in Elements(s)
  BY <1>1 DEF Elements
<1> QED
  BY <1>1, <1>2, <1>3, <1>4, <1>5 DEF Elements

\* One script after another.
LEMMA ElementsConcat ==
    ASSUME NEW S, NEW r \in Seq(S), NEW t \in Seq(S)
    PROVE  Elements(r \o t) = Elements(r) \cup Elements(t)
<1>1. /\ Len(r) \in Nat /\ Len(t) \in Nat /\ DOMAIN r = 1 .. Len(r) /\ DOMAIN t = 1 .. Len(t)
      /\ DOMAIN (r \o t) = 1 .. (Len(r) + Len(t))
      /\ \A i \in 1 .. (Len(r) + Len(t)) : (r \o t)[i] = IF i <= Len(r) THEN r[i] ELSE t[i - Len(r)]
  BY ConcatProperties, LenProperties
<1>2. ASSUME NEW i \in 1 .. (Len(r) + Len(t)) PROVE (r \o t)[i] \in Elements(r) \cup Elements(t)
  <2>1. CASE i <= Len(r)
    <3>1. i \in 1 .. Len(r)
      BY <1>1, <2>1
    <3> QED
      BY <1>1, <2>1, <3>1 DEF Elements
  <2>2. CASE ~(i <= Len(r))
    <3>1. i - Len(r) \in 1 .. Len(t)
      BY <1>1, <2>2
    <3> QED
      BY <1>1, <2>2, <3>1 DEF Elements
  <2> QED
    BY <2>1, <2>2
<1>3. ASSUME NEW i \in 1 .. Len(r) PROVE r[i] \in Elements(r \o t)
  <2>1. i \in 1 .. (Len(r) + Len(t)) /\ i <= Len(r)
    BY <1>1
  <2> QED
    BY <1>1, <2>1 DEF Elements
<1>4. ASSUME NEW i \in 1 .. Len(t) PROVE t[i] \in Elements(r \o t)
  <2>1. i + Len(r) \in 1 .. (Len(r) + Len(t)) /\ ~(i + Len(r) <= Len(r)) /\ (i + Len(r)) - Len(r) = i
    BY <1>1
  <2>2. (r \o t)[i + Len(r)] = t[i]
    BY <1>1, <2>1
  <2> QED
    BY <1>1, <2>1, <2>2 DEF Elements
<1> QED
  BY <1>1, <1>2, <1>3, <1>4 DEF Elements

\* What is left of a script: the rest, with the branch taken before it.
LEMMA WhatIsLeft ==
    ASSUME NEW S, NEW s \in Seq(S), s # <<>>, NEW d,
           Head(s).op = "if" => Head(s).yes \in Seq(S) /\ Head(s).no \in Seq(S)
    PROVE  /\ Head(s) \in S /\ Rest(s, d) \in Seq(S)
           /\ Elements(s) = {Head(s)} \cup Elements(Tail(s))
           /\ Head(s).op # "if" => Elements(Rest(s, d)) = Elements(Tail(s))
           /\ Head(s).op = "if" =>
                \E b \in {Head(s).yes, Head(s).no} :
                   /\ b = IF Holds(Head(s), d) THEN Head(s).yes ELSE Head(s).no
                   /\ Elements(Rest(s, d)) = Elements(b) \cup Elements(Tail(s))
<1>1. Head(s) \in S /\ Tail(s) \in Seq(S)
  BY HeadTailProperties
<1>2. Elements(s) = {Head(s)} \cup Elements(Tail(s))
  BY ElementsTail
<1>5. \A r, t \in Seq(S) : r \o t \in Seq(S) /\ Elements(r \o t) = Elements(r) \cup Elements(t)
  BY ConcatProperties, ElementsConcat
<1>3. CASE Head(s).op # "if"
  <2>1. Rest(s, d) = Tail(s)
    BY <1>3 DEF Rest
  <2> QED
    BY <1>1, <1>2, <1>3, <2>1
<1>4. CASE Head(s).op = "if"
  <2>1. PICK b : b = IF Holds(Head(s), d) THEN Head(s).yes ELSE Head(s).no
    OBVIOUS
  <2>2. b \in {Head(s).yes, Head(s).no} /\ b \in Seq(S)
    BY <1>4, <2>1
  <2>3. Rest(s, d) = b \o Tail(s)
    BY <1>4, <2>1 DEF Rest
  <2>4. b \o Tail(s) \in Seq(S) /\ Elements(b \o Tail(s)) = Elements(b) \cup Elements(Tail(s))
    BY <1>1, <1>5, <2>2
  <2> QED
    BY <1>1, <1>2, <1>4, <2>1, <2>2, <2>3, <2>4
<1> QED
  BY <1>3, <1>4

\* The operations of a careful command.
LEMMA CarefulOp ==
    ASSUME NEW o \in Careful
    PROVE  /\ o.op \in {"start", "stop", "show", "touch", "get", "putSaved", "tempFromSaved",
                        "savedFromTemp", "status", "notify", "temp", "put", "lock", "if"}
           /\ o.op = "status" => o.to \in {"PLAY", "IDLE", "LOCK"}
           /\ \A f \in Followed : o = Notify(f) \/ o.op # "notify" \/ o.to # f
           /\ o.op = "if" => /\ o.yes \in Seq(Careful) /\ o.no \in Seq(Careful)
                             /\ Announced(o.yes) /\ Announced(o.no)
<1>1. Visible \subseteq Telling /\ Telling \subseteq Careful
  BY DEF Telling, Careful
<1>2. CASE o \in Visible
  <2>1. o.op = "notify" => o = Notify(o.to)
    BY <1>2 DEF Visible, Simple, Notify, Set
  <2> QED
    BY <1>2, <2>1 DEF Visible, Simple
<1>3. CASE o \in Told(Visible)
  <2>1. o.op = "if" /\ o.yes \in Seq(Visible) /\ o.no \in Seq(Visible) /\ Announced(o.yes) /\ Announced(o.no)
    BY <1>3 DEF Told, Branch
  <2>2. o.yes \in Seq(Careful) /\ o.no \in Seq(Careful)
    BY <1>1, <2>1, Wider
  <2> QED
    BY <2>1, <2>2
<1>4. CASE o \in Told(Telling)
  <2>1. o.op = "if" /\ o.yes \in Seq(Telling) /\ o.no \in Seq(Telling) /\ Announced(o.yes) /\ Announced(o.no)
    BY <1>4 DEF Told, Branch
  <2>2. o.yes \in Seq(Careful) /\ o.no \in Seq(Careful)
    BY <1>1, <2>1, Wider
  <2> QED
    BY <2>1, <2>2
<1> QED
  BY <1>2, <1>3, <1>4 DEF Telling, Careful

-----------------------------------------------------------------------------
(* What an operation does to what a client is told.                        *)

\* At the slot itself.
LEMMA ValuesHere ==
    ASSUME TableTypes, ViewType, NEW o, NEW d \in Slots, NEW h \in Handles \cup {None}, Operation(o, d, h)
    PROVE  /\ o.op \notin {"get", "savedFromTemp", "identify", "forget"} => brightness'[d] = brightness[d]
           /\ o.op \notin {"temp", "tempFromSaved", "identify", "forget"} => tempBrightness'[d] = tempBrightness[d]
           /\ o.op \notin {"identify", "forget"} => serial'[d] = serial[d]
           /\ o.op = "identify" => serial'[d] # None
           /\ o.op = "notify" => notify'[d] = notify[d] \cup {o.to}
           /\ view'[d] = IF ~Watching THEN view[d]
                         ELSE IF o.op = "added" THEN deviceInfo(d)
                         ELSE IF o.op = "removed" THEN Unlisted ELSE view[d]
<1>1. CASE TableOp(o, d)
  <2> USE <1>1 DEF TableOp, TableTypes
  <2>1. o.op \notin {"get", "savedFromTemp", "identify", "forget"} => brightness'[d] = brightness[d]
    OBVIOUS
  <2>2. o.op \notin {"temp", "tempFromSaved", "identify", "forget"} => tempBrightness'[d] = tempBrightness[d]
    OBVIOUS
  <2>3. o.op \notin {"identify", "forget"} => serial'[d] = serial[d]
    OBVIOUS
  <2>4. o.op # "identify"
    BY DEF TableOps
  <2>5. o.op = "notify" => notify'[d] = notify[d] \cup {o.to}
    OBVIOUS
  <2>6. view'[d] = IF ~Watching THEN view[d]
                   ELSE IF o.op = "added" THEN deviceInfo(d)
                   ELSE IF o.op = "removed" THEN Unlisted ELSE view[d]
    BY DEF ViewType, Watching
  <2> QED
    BY <2>1, <2>2, <2>3, <2>4, <2>5, <2>6
<1>2. CASE HidOp(o, d, h)
  <2>1. /\ o.op \in {"start", "stop", "show", "touch", "put", "putSaved", "get", "identify"}
        /\ UNCHANGED <<notify, view>>
    BY <1>2 DEF HidOp
  <2>2. o.op \notin {"get", "identify"} => brightness' = brightness
    BY <1>2 DEF HidOp
  <2>3. o.op # "identify" => serial' = serial /\ tempBrightness' = tempBrightness
    BY <1>2 DEF HidOp
  <2>4. ASSUME o.op = "identify" PROVE serial'[d] # None
    <3>1. PICK p : p = IF h = None THEN NoPath ELSE heap[h]
      OBVIOUS
    <3>2. serial' = [serial EXCEPT ![d] = IF Alive(p) THEN p[1] ELSE ZeroSerial]
      BY <1>2, <2>4, <3>1 DEF HidOp
    <3>3. serial'[d] = IF Alive(p) THEN p[1] ELSE ZeroSerial
      BY <3>2 DEF TableTypes
    <3>4. Alive(p) => p \in Paths
      BY <3>1 DEF TableTypes, Alive
    <3> QED
      BY <3>3, <3>4, NoneAssumption DEF Paths
  <2> QED
    BY <2>1, <2>2, <2>3, <2>4
<1>3. CASE CloseOp(o, d, h)
  BY <1>3 DEF CloseOp, table
<1> QED
  BY <1>1, <1>2, <1>3 DEF Operation

\* At the other slots.
LEMMA ValuesElsewhere ==
    ASSUME TableTypes, ViewType, NEW o, NEW d \in Slots, NEW h, Operation(o, d, h), NEW e \in Slots, e # d
    PROVE  /\ brightness'[e] = brightness[e] /\ tempBrightness'[e] = tempBrightness[e]
           /\ serial'[e] = serial[e] /\ view'[e] = view[e]
<1>1. CASE TableOp(o, d)
  <2> USE <1>1 DEF TableOp, TableTypes
  <2>1. brightness'[e] = brightness[e] /\ tempBrightness'[e] = tempBrightness[e]
    OBVIOUS
  <2>2. serial'[e] = serial[e] /\ view'[e] = view[e]
    BY DEF ViewType
  <2> QED
    BY <2>1, <2>2
<1>2. CASE HidOp(o, d, h)
  BY <1>2 DEF HidOp, TableTypes
<1>3. CASE CloseOp(o, d, h)
  BY <1>3 DEF CloseOp, table
<1> QED
  BY <1>1, <1>2, <1>3 DEF Operation

\* What a client is told is well-formed.
LEMMA InfoTypes ==
    ASSUME TableTypes, NEW d \in Slots
    PROVE  /\ deviceInfo(d) \in [status : Statuses, saved : Levels \cup {0}, temp : Levels \cup {0}]
           /\ Unlisted \in [status : Statuses, saved : Levels \cup {0}, temp : Levels \cup {0}]
  BY DEF TableTypes, deviceInfo, Unlisted, Statuses

LEMMA OperationView ==
    ASSUME TableTypes, ViewType, NEW o, NEW d \in Slots, NEW h, Operation(o, d, h)
    PROVE  ViewType'
<1>1. CASE TableOp(o, d)
  BY <1>1, InfoTypes DEF TableOp, ViewType
<1>2. CASE HidOp(o, d, h) \/ CloseOp(o, d, h)
  BY <1>2 DEF HidOp, CloseOp, ViewType
<1> QED
  BY <1>1, <1>2 DEF Operation

\* A step of a command's thread: what the client does not know is still announced.
LEMMA HeedsStep ==
    ASSUME TableTypes, ViewType, NEW d \in Slots, NEW h \in Handles \cup {None}, NEW s, NEW r,
           Heeds(d, s), s # <<>>, Operation(Head(s), d, h), r = Rest(s, d), UNCHANGED conn
    PROVE  Heeds(d, r)'
<1>1. Head(s).op # "guard"
  BY OperationFrame
<1>2. s \in Seq(Careful)
  <2>1. \A cmd : Head(<<Set("guard", cmd)>>).op = "guard"
    BY DEF Set
  <2> QED
    BY <1>1, <2>1 DEF Heeds, Guards
<1>3. PICK o : o = Head(s)
  OBVIOUS
<1>4. o \in Careful
  BY <1>2, <1>3, HeadTailProperties
<1>5. /\ o.op \in {"start", "stop", "show", "touch", "get", "putSaved", "tempFromSaved",
                   "savedFromTemp", "status", "notify", "temp", "put", "lock", "if"}
      /\ o.op = "status" => o.to \in {"PLAY", "IDLE", "LOCK"}
      /\ \A f \in Followed : o = Notify(f) \/ o.op # "notify" \/ o.to # f
      /\ o.op = "if" => /\ o.yes \in Seq(Careful) /\ o.no \in Seq(Careful)
                        /\ Announced(o.yes) /\ Announced(o.no)
  BY <1>4, CarefulOp
<1>6. /\ r \in Seq(Careful)
      /\ Elements(s) = {o} \cup Elements(Tail(s))
      /\ o.op # "if" => Elements(r) = Elements(Tail(s))
      /\ o.op = "if" => \E b \in {o.yes, o.no} : Elements(r) = Elements(b) \cup Elements(Tail(s))
  BY <1>2, <1>3, <1>5, WhatIsLeft
<1>7. /\ status'[d] = IF o.op = "status" THEN o.to ELSE status[d]
      /\ o.op # "notify" => notify'[d] = notify[d]
      /\ o.op = "notify" => notify'[d] = notify[d] \cup {o.to}
      /\ o.op \notin {"get", "savedFromTemp"} => brightness'[d] = brightness[d]
      /\ o.op \notin {"temp", "tempFromSaved"} => tempBrightness'[d] = tempBrightness[d]
      /\ serial'[d] = serial[d]
      /\ view'[d] = view[d]
      /\ Watching' = Watching
  <2>1. Operation(o, d, h)
    BY <1>3
  <2>2. /\ status'[d] = IF o.op = "status" THEN o.to ELSE status[d]
        /\ o.op # "notify" => notify'[d] = notify[d]
    BY <1>5, <2>1, EffectHere
  <2>3. /\ o.op = "notify" => notify'[d] = notify[d] \cup {o.to}
        /\ o.op \notin {"get", "savedFromTemp"} => brightness'[d] = brightness[d]
        /\ o.op \notin {"temp", "tempFromSaved"} => tempBrightness'[d] = tempBrightness[d]
        /\ serial'[d] = serial[d]
        /\ view'[d] = view[d]
    BY <1>5, <2>1, ValuesHere
  <2> QED
    BY <2>2, <2>3 DEF Watching
<1>8. status'[d] # "DISCONNECT" /\ serial'[d] # None
  BY <1>5, <1>7 DEF Heeds
<1>9. ASSUME NEW f \in Followed
      PROVE  f \in notify'[d] \/ Says(r, f) \/ (Silent(r, f) /\ (Watching' => Shown(d, f)'))
  <2>1. CASE f \in notify[d]
    BY <1>7, <2>1
  <2>2. CASE Says(s, f)
    <3>1. CASE o = Notify(f)
      BY <1>7, <3>1 DEF Notify, Set
    <3>2. CASE o # Notify(f)
      BY <1>6, <2>2, <3>2 DEF Says
    <3> QED
      BY <3>1, <3>2
  <2>3. CASE Silent(s, f) /\ (Watching => Shown(d, f))
    <3>1. o.op \notin Changes(f)
      BY <1>6, <2>3 DEF Silent
    <3>2. Watching' => Shown(d, f)'
      BY <1>7, <2>3, <3>1 DEF Shown, Changes, Followed
    <3>3. Says(r, f) \/ Silent(r, f)
      BY <1>5, <1>6, <2>3 DEF Says, Silent, Announced
    <3> QED
      BY <3>2, <3>3
  <2> QED
    BY <2>1, <2>2, <2>3 DEF Heeds
<1> QED
  BY <1>6, <1>8, <1>9 DEF Heeds

-----------------------------------------------------------------------------
(* The scripts of runThread announce what they change.                     *)

\* Scripts that announce what they change, one by one.
LEMMA Announcements ==
    /\ Announced(<<>>) /\ Announced(<<Do("show")>>)
    /\ \A x : Announced(Now(x)) /\ Announced(<<Set("lock", x)>>)
    /\ \A v : Announced(NewTemp(v))
    /\ \A c : Announced(<<Set("status", "LOCK"), Set("lock", c), Notify("STATUS")>>)
    /\ Announced(<<Do("tempFromSaved"), Notify("TEMP_BRIGHTNESS")>>)
    /\ Announced(<<Notify("TEMP_BRIGHTNESS"), Do("tempFromSaved")>>)
    /\ Announced(<<Do("savedFromTemp"), Do("putSaved"), Notify("BRIGHTNESS")>>)
    /\ Announced(Release) /\ Announced(CleanupScript)
    /\ \A q, x, r, t : Announced(<<If(q, x, r, t)>>)
    /\ \A op \in {"start", "stop", "show", "touch"} : Announced(<<Do(op)>>)
    /\ Announced(NameScript)
<1>1. /\ Changes("STATUS") = {"status"} /\ Changes("BRIGHTNESS") = {"get", "savedFromTemp"}
      /\ Changes("TEMP_BRIGHTNESS") = {"temp", "tempFromSaved"}
      /\ Followed = {"STATUS", "BRIGHTNESS", "TEMP_BRIGHTNESS"}
  BY DEF Changes, Followed
<1>2. /\ \A x : Do(x).op = x
      /\ \A op, x : Set(op, x).op = op
      /\ \A x : Notify(x).op = "notify"
      /\ \A q, x, r, t : If(q, x, r, t).op = "if"
  BY Fields DEF If
<1>3. ASSUME NEW s PROVE Announced(s) <=>
          /\ Notify("STATUS") \in Elements(s) \/ \A o \in Elements(s) : o.op # "status"
          /\ Notify("BRIGHTNESS") \in Elements(s) \/ \A o \in Elements(s) : o.op \notin {"get", "savedFromTemp"}
          /\ Notify("TEMP_BRIGHTNESS") \in Elements(s) \/ \A o \in Elements(s) : o.op \notin {"temp", "tempFromSaved"}
  BY <1>1 DEF Announced, Says, Silent
<1>4. Announced(<<>>) /\ Announced(<<Do("show")>>)
  BY <1>2, <1>3, FewElements
<1>5. ASSUME NEW x PROVE Announced(Now(x)) /\ Announced(<<Set("lock", x)>>)
  BY <1>2, <1>3, FewElements DEF Now
<1>6. ASSUME NEW v PROVE Announced(NewTemp(v))
  BY <1>2, <1>3, FewElements DEF NewTemp
<1>7. ASSUME NEW c PROVE Announced(<<Set("status", "LOCK"), Set("lock", c), Notify("STATUS")>>)
  BY <1>2, <1>3, FewElements
<1>8. /\ Announced(<<Do("tempFromSaved"), Notify("TEMP_BRIGHTNESS")>>)
      /\ Announced(<<Notify("TEMP_BRIGHTNESS"), Do("tempFromSaved")>>)
      /\ Announced(<<Do("savedFromTemp"), Do("putSaved"), Notify("BRIGHTNESS")>>)
  BY <1>2, <1>3, FewElements
<1>9. Announced(Release) /\ Announced(CleanupScript)
  BY <1>2, <1>3, FewElements, Written
<1>10. ASSUME NEW q, NEW x, NEW r, NEW t PROVE Announced(<<If(q, x, r, t)>>)
  BY <1>2, <1>3, FewElements
<1>11. ASSUME NEW op \in {"start", "stop", "show", "touch"} PROVE Announced(<<Do(op)>>)
  BY <1>2, <1>3, FewElements
<1>12. Announced(NameScript)
  BY <1>2, <1>3, FewElements DEF NameScript
<1> QED
  BY <1>4, <1>5, <1>6, <1>7, <1>8, <1>9, <1>10, <1>11, <1>12

\* One script after another.
LEMMA AnnouncedConcat ==
    ASSUME NEW S, NEW r \in Seq(S), NEW t \in Seq(S), Announced(r), Announced(t)
    PROVE  Announced(r \o t)
  BY ElementsConcat DEF Announced, Says, Silent

\* Whatever the command, its thread announces what it changes.
LEMMA CarefulThread ==
    ASSUME NEW c \in Clients, NEW d, NEW cmd \in Commands
    PROVE  runThread(c, d, cmd) \in Seq(Careful) /\ Announced(runThread(c, d, cmd))
<1> DEFINE S == Visible
           N == Telling
           O == Careful
<1>1. S \subseteq N /\ N \subseteq O
  BY DEF Telling, Careful
<1>2. \A s : (s \in Seq(S) => s \in Seq(N) /\ s \in Seq(O)) /\ (s \in Seq(N) => s \in Seq(O))
  BY <1>1, Wider
<1>3. /\ \A x \in {"start", "stop", "show", "touch", "get", "putSaved", "tempFromSaved", "savedFromTemp"} :
             Do(x) \in S /\ Do(x) \in N /\ Do(x) \in O
      /\ \A x \in {"IDLE", "PLAY", "LOCK"} : Set("status", x) \in S
      /\ \A x \in {"NAME", "BRIGHTNESS", "TEMP_BRIGHTNESS", "STATUS"} :
            Notify(x) \in S /\ Notify(x) \in N /\ Notify(x) \in O
      /\ \A v \in Levels : Set("temp", v) \in S /\ Set("put", v) \in S /\ Set("put", v) \in N
      /\ Set("lock", c) \in S /\ Set("lock", None) \in S
  BY <1>1, Building DEF Visible
<1>4. /\ \A v \in Levels : v \in Statuses \cup Levels \cup {None}
      /\ \A x \in {"LOCK", "IDLE", "PLAY", None} : x \in Statuses \cup Levels \cup {None}
  BY DEF Statuses
<1>5. ASSUME NEW q \in {"status", "temp", "saved", "same"}, NEW x \in Statuses \cup Levels \cup {None}
      PROVE  /\ \A r, t \in Seq(S) : Announced(r) /\ Announced(t) => If(q, x, r, t) \in N /\ If(q, x, r, t) \in O
             /\ \A r, t \in Seq(N) : Announced(r) /\ Announced(t) => If(q, x, r, t) \in O
  BY <1>1 DEF If, Branch, Told, Telling, Careful
<1>6. /\ <<>> \in Seq(S) /\ <<>> \in Seq(N) /\ <<>> \in Seq(O) /\ <<Do("show")>> \in Seq(S)
      /\ <<Do("start")>> \in Seq(S) /\ <<Do("stop")>> \in Seq(S)
      /\ \A x \in {"IDLE", "PLAY"} : Now(x) \in Seq(S)
      /\ \A v \in Levels : NewTemp(v) \in Seq(S)
  BY <1>3, Short DEF Now, NewTemp
<1> HIDE DEF S, N, O
<1>7. Release \in Seq(S) /\ CleanupScript \in Seq(S) /\ <<Set("lock", None)>> \in Seq(S)
  <2>1. <<Set("lock", None)>> \in Seq(S) /\ <<Set("lock", None), Do("stop")>> \in Seq(S)
    BY <1>3, Short
  <2> QED
    BY <1>6, <2>1, Short DEF Release, CleanupScript
<1>8. ShowIfIdle \in N
  BY <1>4, <1>5, <1>6, Announcements DEF ShowIfIdle, When
<1>9. BecomeIdle \in O
  BY <1>4, <1>5, <1>6, Announcements DEF BecomeIdle
<1>10. \A q, x, r, t : If(q, x, r, t) \in O => <<If(q, x, r, t)>> \in Seq(O) /\ Announced(<<If(q, x, r, t)>>)
  BY Short, Announcements
<1>11. LockScript(c) \in Seq(O) /\ Announced(LockScript(c))
  <2>1. <<Set("status", "LOCK"), Set("lock", c), Notify("STATUS")>> \in Seq(S)
    BY <1>3, Short
  <2>2. If("status", "LOCK", <<>>, <<Set("status", "LOCK"), Set("lock", c), Notify("STATUS")>>) \in O
    BY <1>4, <1>5, <1>6, <2>1, Announcements
  <2> QED
    BY <1>10, <2>2 DEF LockScript
<1>12. /\ UnlockScript \in Seq(O) /\ Announced(UnlockScript)
       /\ ForceUnlockScript \in Seq(O) /\ Announced(ForceUnlockScript)
  <2>1. If("status", "LOCK", Release, <<>>) \in O /\ If("status", "LOCK", Release, <<Set("lock", None)>>) \in O
    BY <1>4, <1>5, <1>6, <1>7, Announcements
  <2> QED
    BY <1>10, <2>1 DEF UnlockScript, ForceUnlockScript, When
<1>13. NameScript \in Seq(O) /\ Announced(NameScript)
  BY <1>3, Short, Announcements DEF NameScript
<1>14. ASSUME NEW v \in Levels PROVE TempScript(v) \in Seq(O) /\ Announced(TempScript(v))
  <2>1. Append(NewTemp(v), ShowIfIdle) \in Seq(N)
    BY <1>2, <1>6, <1>8, Short
  <2>2. Append(NewTemp(v), ShowIfIdle) = NewTemp(v) \o <<ShowIfIdle>>
    BY <1>2, <1>6, <1>8, AppendIsConcat
  <2>3. Announced(Append(NewTemp(v), ShowIfIdle))
    <3>1. Announced(<<ShowIfIdle>>) /\ Announced(NewTemp(v))
      BY Announcements DEF ShowIfIdle, When
    <3>2. <<ShowIfIdle>> \in Seq(N) /\ NewTemp(v) \in Seq(N)
      BY <1>2, <1>6, <1>8, Short
    <3> QED
      BY <2>2, <3>1, <3>2, AnnouncedConcat
  <2>4. If("temp", v, <<>>, Append(NewTemp(v), ShowIfIdle)) \in O
    BY <1>4, <1>5, <1>6, <2>1, <2>3, Announcements
  <2> QED
    BY <1>10, <2>4 DEF TempScript
<1>15. ResetScript \in Seq(O) /\ Announced(ResetScript) /\ SaveScript \in Seq(O) /\ Announced(SaveScript)
  <2>1. /\ <<Do("tempFromSaved"), Notify("TEMP_BRIGHTNESS")>> \in Seq(S)
        /\ <<Do("savedFromTemp"), Do("putSaved"), Notify("BRIGHTNESS")>> \in Seq(S)
    BY <1>3, Short
  <2>2. /\ If("same", None, <<>>, <<Do("tempFromSaved"), Notify("TEMP_BRIGHTNESS")>>) \in O
        /\ If("same", None, <<>>, <<Do("savedFromTemp"), Do("putSaved"), Notify("BRIGHTNESS")>>) \in O
    BY <1>4, <1>5, <1>6, <2>1, Announcements
  <2> QED
    BY <1>10, <2>2 DEF ResetScript, SaveScript
<1>16. ASSUME NEW v \in Levels PROVE BrightnessScript(v) \in Seq(O) /\ Announced(BrightnessScript(v))
  <2> DEFINE i == If("same", None, <<>>, <<Notify("TEMP_BRIGHTNESS"), Do("tempFromSaved")>>)
             s == <<Set("put", v), Do("get"), Notify("BRIGHTNESS"), i, ShowIfIdle>>
  <2>1. <<Notify("TEMP_BRIGHTNESS"), Do("tempFromSaved")>> \in Seq(S)
    BY <1>3, Short
  <2>2. i \in N
    BY <1>4, <1>5, <1>6, <2>1, Announcements
  <2>3. i.op = "if" /\ ShowIfIdle.op = "if"
    BY DEF If, ShowIfIdle, When
  <2> HIDE DEF i
  <2>4. s \in Seq(N)
    BY <1>3, <1>8, <2>2, Short
  <2>5. Elements(s) = {Set("put", v), Do("get"), Notify("BRIGHTNESS"), i, ShowIfIdle}
    BY FewElements
  <2>6. Announced(s)
    <3>1. Notify("BRIGHTNESS") \in Elements(s)
      BY <2>5
    <3>2. \A o \in Elements(s) : o.op \notin {"status", "temp", "tempFromSaved"}
      BY <2>3, <2>5, Fields
    <3> HIDE DEF s
    <3> QED
      BY <3>1, <3>2 DEF Announced, Says, Silent, Changes, Followed
  <2>7. If("saved", v, <<>>, s) \in O
    BY <1>4, <1>5, <1>6, <2>4, <2>6, Announcements
  <2> QED
    BY <1>10, <2>7 DEF BrightnessScript, i
<1>17. <<BecomeIdle, Do("show")>> \in Seq(O) /\ Announced(<<BecomeIdle, Do("show")>>)
  <2>1. BecomeIdle.op = "if"
    BY DEF BecomeIdle, If
  <2>2. \A o \in {BecomeIdle, Do("show")} : o.op \in {"if", "show"}
    BY <2>1, Fields
  <2>3. Announced(<<BecomeIdle, Do("show")>>)
    BY <2>2, FewElements DEF Announced, Silent, Changes, Followed
  <2> QED
    BY <1>3, <1>9, <2>3, Short
<1>18. ASSUME NEW v \in Levels \cup {None} PROVE ColorScript(v) \in Seq(O) /\ Announced(ColorScript(v))
  <2>1. v # None => If("temp", v, <<>>, NewTemp(v)) \in O
    BY <1>4, <1>5, <1>6, Announcements
  <2>2. v # None => <<If("temp", v, <<>>, NewTemp(v))>> \in Seq(O) /\ Announced(<<If("temp", v, <<>>, NewTemp(v))>>)
    BY <1>10, <2>1
  <2>3. \A r \in Seq(O) : Announced(r) =>
            r \o <<BecomeIdle, Do("show")>> \in Seq(O) /\ Announced(r \o <<BecomeIdle, Do("show")>>)
    BY <1>17, ConcatProperties, AnnouncedConcat
  <2> QED
    BY <1>6, <2>2, <2>3, Announcements DEF ColorScript
<1>19. ColorQueryScript \in Seq(O) /\ Announced(ColorQueryScript)
  <2>1. When("status", "PLAY", <<Do("start")>>) \in O
    BY <1>4, <1>5, <1>6, Announcements DEF When
  <2>2. \A a, b, e, f \in O : <<a, b, e, f>> \in Seq(O)
    OBVIOUS
  <2>3. BecomeIdle.op = "if" /\ When("status", "PLAY", <<Do("start")>>).op = "if" /\ Do("show").op = "show"
    BY Fields DEF BecomeIdle, If, When
  <2>4. \A o \in Elements(ColorQueryScript) : o.op \in {"if", "show"}
    BY <2>3, FewElements DEF ColorQueryScript
  <2>5. Announced(ColorQueryScript)
    BY <2>4 DEF Announced, Silent, Changes, Followed
  <2> QED
    BY <1>3, <1>9, <2>1, <2>2, <2>5 DEF ColorQueryScript
<1>20. \A ok \in BOOLEAN : UploadScript(ok) \in Seq(O) /\ Announced(UploadScript(ok))
  <2>1. <<Do("stop"), Do("show")>> \in Seq(O) /\ <<Do("touch"), Do("start")>> \in Seq(O)
    BY <1>3, Short
  <2>2. /\ \A o \in Elements(<<Do("stop"), Do("show")>>) : o.op \in {"stop", "show"}
        /\ \A o \in Elements(<<Do("touch"), Do("start")>>) : o.op \in {"touch", "start"}
    BY FewElements, Fields
  <2>3. Announced(<<Do("stop"), Do("show")>>) /\ Announced(<<Do("touch"), Do("start")>>)
    BY <2>2 DEF Announced, Silent, Changes, Followed
  <2> QED
    BY <1>6, <2>1, <2>3, ConcatProperties, AnnouncedConcat, Announcements DEF UploadScript
<1>21. <<Do("touch")>> \in Seq(O) /\ Announced(<<Do("touch")>>)
  BY <1>3, Short, Announcements
<1>22. /\ <<Do("start")>> \o Now("PLAY") \in Seq(O) /\ Announced(<<Do("start")>> \o Now("PLAY"))
       /\ <<Do("stop")>> \o Now("IDLE") \in Seq(O) /\ Announced(<<Do("stop")>> \o Now("IDLE"))
  BY <1>2, <1>6, ConcatProperties, AnnouncedConcat, Announcements
<1>23. /\ cmd.word \in {"brightness temp", "brightness"} => cmd.arg \in Levels
       /\ cmd.arg \in Levels \cup {None}
  BY DEF Commands, Plain, WithLevel
<1>24. Body(c, cmd) \in Seq(O) /\ Announced(Body(c, cmd))
  BY <1>6, <1>11, <1>12, <1>13, <1>14, <1>15, <1>16, <1>18, <1>19, <1>20, <1>21, <1>22, <1>23, Announcements
     DEF Body
<1>25. runThread(c, d, cmd) \in Seq(O) /\ Announced(runThread(c, d, cmd))
  BY <1>6, <1>12, <1>24, Announcements DEF runThread
<1> QED
  BY <1>25 DEF O

\* So does a clean-up.
LEMMA CarefulCleanup == CleanupScript \in Seq(Careful) /\ Announced(CleanupScript)
<1>1. /\ Set("lock", None) \in Visible /\ Do("stop") \in Visible
      /\ Set("status", "IDLE") \in Visible /\ Notify("STATUS") \in Visible
  BY Building DEF Visible
<1>2. \A a, b, e, f \in Visible : <<a, b, e, f>> \in Seq(Visible)
  OBVIOUS
<1>3. CleanupScript \in Seq(Visible)
  BY <1>1, <1>2, Written
<1>4. Visible \subseteq Careful
  BY DEF Careful, Telling
<1> QED
  BY <1>3, <1>4, Wider, Announcements

-----------------------------------------------------------------------------
(* The turn of monitorDevices.                                             *)

\* A slot that nobody has anything to do on.
LEMMA AllShown ==
    ASSUME NEW d \in Slots, status'[d] # "DISCONNECT", serial'[d] # None,
           Watching' => view'[d] = deviceInfo(d)'
    PROVE  Heeds(d, <<>>)'
<1>1. <<>> \in Seq(Careful)
  BY Short
<1>2. \A f \in Followed : Silent(<<>>, f)
  BY FewElements DEF Silent
<1>3. /\ deviceInfo(d)'.status = status'[d] /\ deviceInfo(d)'.saved = brightness'[d]
      /\ deviceInfo(d)'.temp = tempBrightness'[d]
  BY DEF deviceInfo
<1>4. ASSUME NEW f \in Followed PROVE Watching' => Shown(d, f)'
  BY <1>3 DEF Shown, Followed
<1> QED
  BY <1>1, <1>2, <1>4 DEF Heeds

\* One step of it: at the end the client has been told.
LEMMA MonitorHeedsStep ==
    ASSUME TableTypes, ViewType, NEW d \in Slots, NEW h \in Handles \cup {None}, NEW s, NEW r,
           MonitorHeeds(d, s), s # <<>>, Operation(Head(s), d, h), r = Rest(s, d), UNCHANGED conn
    PROVE  /\ r # <<>> => MonitorHeeds(d, r)'
           /\ r = <<>> => Knows(d)'
<1>1. ASSUME Head(s).op # "if"
      PROVE  /\ r = Tail(s)
             /\ status'[d] = IF Head(s).op = "status" THEN Head(s).to ELSE status[d]
             /\ openDevices'[d] = IF Head(s).op = "path" THEN Head(s).to
                                  ELSE IF Head(s).op = "forget" THEN NoPath ELSE openDevices[d]
             /\ Head(s).op \notin {"identify", "forget"} => serial'[d] = serial[d]
             /\ Head(s).op = "identify" => serial'[d] # None
             /\ Watching' = Watching
             /\ Head(s).op \notin {"added", "removed"} => view'[d] = view[d]
  <2>1. r = Tail(s)
    BY <1>1 DEF Rest
  <2>2. Watching' = Watching
    BY DEF Watching
  <2>3. /\ Head(s).op \notin {"identify", "forget"} => serial'[d] = serial[d]
        /\ Head(s).op = "identify" => serial'[d] # None
        /\ Head(s).op \notin {"added", "removed"} => view'[d] = view[d]
    BY ValuesHere
  <2>4. /\ status'[d] = IF Head(s).op = "status" THEN Head(s).to ELSE status[d]
        /\ openDevices'[d] = IF Head(s).op = "path" THEN Head(s).to
                             ELSE IF Head(s).op = "forget" THEN NoPath ELSE openDevices[d]
    BY EffectHere
  <2> QED
    BY <2>1, <2>2, <2>3, <2>4
<1>2. CASE openDevices[d] # NoPath /\ s = RemoveScript
  <2>1. /\ Head(s).op = "status" /\ Head(s).to = "DISCONNECT"
        /\ Tail(s) = <<Do("clear"), Set("lock", None), Do("removed"), Do("close"), Do("forget")>>
    BY <1>2, Fields DEF RemoveScript
  <2>2. /\ r = <<Do("clear"), Set("lock", None), Do("removed"), Do("close"), Do("forget")>>
        /\ status'[d] = "DISCONNECT" /\ openDevices'[d] # NoPath
    BY <1>1, <1>2, <2>1
  <2> QED
    BY <2>2 DEF MonitorHeeds
<1>3. CASE /\ openDevices[d] # NoPath /\ status[d] = "DISCONNECT"
           /\ s = <<Do("clear"), Set("lock", None), Do("removed"), Do("close"), Do("forget")>>
  <2>1. Head(s).op = "clear" /\ Tail(s) = <<Set("lock", None), Do("removed"), Do("close"), Do("forget")>>
    BY <1>3, Fields
  <2>2. /\ r = <<Set("lock", None), Do("removed"), Do("close"), Do("forget")>>
        /\ status'[d] = "DISCONNECT" /\ openDevices'[d] # NoPath
    BY <1>1, <1>3, <2>1
  <2> QED
    BY <2>2 DEF MonitorHeeds
<1>4. CASE /\ openDevices[d] # NoPath /\ status[d] = "DISCONNECT"
           /\ s = <<Set("lock", None), Do("removed"), Do("close"), Do("forget")>>
  <2>1. Head(s).op = "lock" /\ Tail(s) = <<Do("removed"), Do("close"), Do("forget")>>
    BY <1>4, Fields
  <2>2. /\ r = <<Do("removed"), Do("close"), Do("forget")>>
        /\ status'[d] = "DISCONNECT" /\ openDevices'[d] # NoPath
    BY <1>1, <1>4, <2>1
  <2> QED
    BY <2>2 DEF MonitorHeeds
<1>5. CASE /\ openDevices[d] # NoPath /\ status[d] = "DISCONNECT"
           /\ s = <<Do("removed"), Do("close"), Do("forget")>>
  <2>1. Head(s).op = "removed" /\ Tail(s) = <<Do("close"), Do("forget")>>
    BY <1>5, Fields
  <2>2. /\ r = <<Do("close"), Do("forget")>>
        /\ status'[d] = "DISCONNECT" /\ openDevices'[d] # NoPath /\ Watching' = Watching
    BY <1>1, <1>5, <2>1
  <2>3. Watching => view'[d] = Unlisted
    BY <2>1, ValuesHere
  <2> QED
    BY <2>2, <2>3 DEF MonitorHeeds, Unseen
<1>6. CASE openDevices[d] # NoPath /\ Unseen(d) /\ s = <<Do("close"), Do("forget")>>
  <2>1. Head(s).op = "close" /\ Tail(s) = <<Do("forget")>>
    BY <1>6, Fields
  <2>2. r = <<Do("forget")>> /\ openDevices'[d] # NoPath /\ Unseen(d)'
    BY <1>1, <1>6, <2>1 DEF Unseen
  <2> QED
    BY <2>2 DEF MonitorHeeds
<1>7. CASE openDevices[d] # NoPath /\ Unseen(d) /\ s = <<Do("forget")>>
  <2>1. Head(s).op = "forget" /\ Tail(s) = <<>>
    BY <1>7, Fields
  <2>2. r = <<>> /\ openDevices'[d] = NoPath /\ Unseen(d)'
    BY <1>1, <1>7, <2>1 DEF Unseen
  <2> QED
    BY <2>2 DEF Knows
<1>8. CASE /\ openDevices[d] # NoPath
           /\ s = <<Do("identify"), Do("start"), Set("status", "PLAY"), Do("clear"),
                    Set("lock", None), Do("added")>>
  <2>1. /\ Head(s).op = "identify"
        /\ Tail(s) = <<Do("start"), Set("status", "PLAY"), Do("clear"), Set("lock", None), Do("added")>>
    BY <1>8, Fields
  <2>2. /\ r = <<Do("start"), Set("status", "PLAY"), Do("clear"), Set("lock", None), Do("added")>>
        /\ openDevices'[d] # NoPath /\ serial'[d] # None
    BY <1>1, <1>8, <2>1
  <2> QED
    BY <2>2 DEF MonitorHeeds
<1>9. CASE /\ openDevices[d] # NoPath /\ serial[d] # None
           /\ s = <<Do("start"), Set("status", "PLAY"), Do("clear"), Set("lock", None), Do("added")>>
  <2>1. /\ Head(s).op = "start"
        /\ Tail(s) = <<Set("status", "PLAY"), Do("clear"), Set("lock", None), Do("added")>>
    BY <1>9, Fields
  <2>2. /\ r = <<Set("status", "PLAY"), Do("clear"), Set("lock", None), Do("added")>>
        /\ openDevices'[d] # NoPath /\ serial'[d] # None
    BY <1>1, <1>9, <2>1
  <2> QED
    BY <2>2 DEF MonitorHeeds
<1>10. CASE /\ openDevices[d] # NoPath /\ serial[d] # None
            /\ s = <<Set("status", "PLAY"), Do("clear"), Set("lock", None), Do("added")>>
  <2>1. /\ Head(s).op = "status" /\ Head(s).to = "PLAY"
        /\ Tail(s) = <<Do("clear"), Set("lock", None), Do("added")>>
    BY <1>10, Fields
  <2>2. /\ r = <<Do("clear"), Set("lock", None), Do("added")>>
        /\ openDevices'[d] # NoPath /\ serial'[d] # None /\ status'[d] = "PLAY"
    BY <1>1, <1>10, <2>1
  <2> QED
    BY <2>2 DEF MonitorHeeds
<1>11. CASE /\ openDevices[d] # NoPath /\ serial[d] # None /\ status[d] = "PLAY"
            /\ s \in {<<Do("clear"), Set("lock", None), Do("added")>>, <<Set("lock", None), Do("added")>>}
  <2>1. CASE s = <<Do("clear"), Set("lock", None), Do("added")>>
    <3>1. Head(s).op = "clear" /\ Tail(s) = <<Set("lock", None), Do("added")>>
      BY <2>1, Fields
    <3>2. /\ r = <<Set("lock", None), Do("added")>>
          /\ openDevices'[d] # NoPath /\ serial'[d] # None /\ status'[d] = "PLAY"
      BY <1>1, <1>11, <3>1
    <3> QED
      BY <3>2 DEF MonitorHeeds
  <2>2. CASE s = <<Set("lock", None), Do("added")>>
    <3>1. Head(s).op = "lock" /\ Tail(s) = <<Do("added")>>
      BY <2>2, Fields
    <3>2. /\ r = <<Do("added")>>
          /\ openDevices'[d] # NoPath /\ serial'[d] # None /\ status'[d] = "PLAY"
      BY <1>1, <1>11, <3>1
    <3> QED
      BY <3>2 DEF MonitorHeeds
  <2> QED
    BY <1>11, <2>1, <2>2
<1>12. CASE /\ openDevices[d] # NoPath /\ serial[d] # None /\ status[d] = "PLAY" /\ s = <<Do("added")>>
  <2>1. Head(s).op = "added" /\ Tail(s) = <<>>
    BY <1>12, Fields
  <2>2. /\ r = <<>> /\ openDevices'[d] # NoPath /\ serial'[d] = serial[d] /\ status'[d] = status[d]
        /\ Watching' = Watching
    BY <1>1, <1>12, <2>1
  <2>3. /\ Watching => view'[d] = deviceInfo(d)
        /\ brightness'[d] = brightness[d] /\ tempBrightness'[d] = tempBrightness[d]
    BY <2>1, ValuesHere
  <2>4. deviceInfo(d)' = deviceInfo(d)
    BY <2>2, <2>3 DEF deviceInfo
  <2>5. /\ status'[d] # "DISCONNECT" /\ serial'[d] # None
        /\ Watching' => view'[d] = deviceInfo(d)'
    BY <1>12, <2>2, <2>3, <2>4
  <2>6. Heeds(d, <<>>)'
    BY <2>5, AllShown
  <2> QED
    BY <2>2, <2>6 DEF Knows
<1>13. ASSUME NEW p \in Paths, s = AddScript(p) PROVE r # <<>> /\ MonitorHeeds(d, r)'
  <2>1. /\ Head(s).op = "path" /\ Head(s).to = p
        /\ Tail(s) = <<Do("identify"), Do("start"), Set("status", "PLAY"), Do("clear"),
                       Set("lock", None), Do("added")>>
    BY <1>13, Fields DEF AddScript
  <2>2. p # NoPath
    BY NoneAssumption DEF Paths, NoPath
  <2>3. /\ r = <<Do("identify"), Do("start"), Set("status", "PLAY"), Do("clear"),
                 Set("lock", None), Do("added")>>
        /\ openDevices'[d] # NoPath
    BY <1>1, <2>1, <2>2
  <2> QED
    BY <2>3 DEF MonitorHeeds
<1> QED
  BY <1>2, <1>3, <1>4, <1>5, <1>6, <1>7, <1>8, <1>9, <1>10, <1>11, <1>12, <1>13 DEF MonitorHeeds

-----------------------------------------------------------------------------
(* Every step keeps clients informed.                                      *)

\* A slot nobody touches: a client knows of it what it knew, or is told all of it.
LEMMA ViewFrame ==
    ASSUME NEW d \in Slots, ViewSlot(d),
           status'[d] = status[d], serial'[d] = serial[d], openDevices'[d] = openDevices[d],
           brightness'[d] = brightness[d], tempBrightness'[d] = tempBrightness[d],
           notify'[d] = notify[d],
           Watching' => (Watching /\ view'[d] = view[d]) \/ view'[d] = deviceInfo(d),
           \A c \in Clients : script'[c][d] = script[c][d],
           MonitorBusy(d)' <=> MonitorBusy(d), MonitorBusy(d) => mScript' = mScript,
           nAt' = d => nAt = d
    PROVE  ViewSlot(d)'
<1>1. deviceInfo(d)' = deviceInfo(d)
  BY DEF deviceInfo
<1>2. ASSUME NEW s, Heeds(d, s) PROVE Heeds(d, s)'
  <2>1. /\ deviceInfo(d).status = status[d] /\ deviceInfo(d).saved = brightness[d]
        /\ deviceInfo(d).temp = tempBrightness[d]
    BY <1>2 DEF deviceInfo, Heeds
  <2>2. ASSUME NEW f \in Followed, Watching => Shown(d, f) PROVE Watching' => Shown(d, f)'
    BY <2>1, <2>2 DEF Shown, Followed
  <2> QED
    BY <1>2, <2>2 DEF Heeds
<1>3. Unseen(d) => Unseen(d)'
  BY DEF Unseen, deviceInfo
<1>4. ASSUME NEW s, MonitorHeeds(d, s) PROVE MonitorHeeds(d, s)'
  BY <1>3, <1>4 DEF MonitorHeeds
<1>5. Knows(d) => Knows(d)'
  BY <1>2, <1>3 DEF Knows
<1>6. Free(d)' <=> Free(d)
  BY DEF Free
<1>7. ASSUME NEW c \in Clients, script'[c][d] # <<>> PROVE Heeds(d, script[c][d])'
  <2>1. PICK s : s = script[c][d]
    OBVIOUS
  <2>2. Heeds(d, s)'
    BY <1>2, <1>7, <2>1 DEF ViewSlot
  <2> QED
    BY <2>1, <2>2
<1>8. MonitorBusy(d)' => MonitorHeeds(d, mScript)'
  <2>1. PICK s : s = mScript
    OBVIOUS
  <2>2. MonitorBusy(d) => MonitorHeeds(d, s)' /\ mScript' = s
    BY <1>4, <2>1 DEF ViewSlot
  <2> QED
    BY <2>2
<1>9. nAt' = d => Free(d)' /\ openDevices'[d] # NoPath /\ (Watching' => view'[d] = deviceInfo(d)')
  BY <1>1, <1>6 DEF ViewSlot
<1> QED
  BY <1>5, <1>6, <1>7, <1>8, <1>9 DEF ViewSlot

\* A slot that one client's thread works on, or has just left.
LEMMA OneThreadHeeds ==
    ASSUME NEW c \in Clients, NEW d \in Slots, NEW r,
           script'[c][d] = r, \A b \in Clients : b # c => script'[b][d] = <<>>,
           ~MonitorBusy(d)', nAt' # d, openDevices'[d] # NoPath, Heeds(d, r)'
    PROVE  ViewSlot(d)'
<1>1. ASSUME NEW b \in Clients, script'[b][d] # <<>> PROVE Heeds(d, script[b][d])'
  BY <1>1
<1>2. Free(d)' => Knows(d)'
  BY DEF Free, Knows
<1> QED
  BY <1>1, <1>2 DEF ViewSlot

\* A slot that monitorDevices works on, or has just left.
LEMMA MonitorAloneHeeds ==
    ASSUME NEW d \in Slots, \A c \in Clients : script'[c][d] = <<>>, nAt' # d,
           MonitorBusy(d)' => MonitorHeeds(d, mScript)', ~MonitorBusy(d)' => Knows(d)'
    PROVE  ViewSlot(d)'
  BY DEF ViewSlot, Free

\* When all threads take turns, a thread begins where nobody is at work.
LEMMA BeginsAlone ==
    ASSUME Overlaps = {}, NEW d \in Slots, NEW kind, MayBegin(kind, d)
    PROVE  Free(d) /\ nAt # d
<1>1. AtWork(d) = {}
  BY DEF MayBegin
<1> QED
  BY <1>1 DEF AtWork, Free, MonitorBusy

\* A client changes nothing in the table and does not begin a thread.
LEMMA ClientQuiet ==
    ASSUME TypeInv, ViewInv, NEW c \in Clients, Connect(c) \/ Leave(c) \/ Gone(c) \/ runCommandTypo(c)
    PROVE  ViewInv'
<1>1. TableTypes /\ conn \in [Clients -> {"out", "in", "leaving"}]
  BY AllTypes DEF TypeInv, TypeOK
<1>2. UNCHANGED <<table, script, monitor, nAt>>
  BY DEF Connect, Leave, Gone, runCommandTypo, clients
<1>3. /\ ViewType'
      /\ \A d \in Slots : Watching' => (Watching /\ view'[d] = view[d]) \/ view'[d] = deviceInfo(d)
  <2>1. CASE Connect(c)
    <3>1. CASE c = Watcher
      <4>1. view' = [d \in Slots |-> deviceInfo(d)]
        BY <2>1, <3>1 DEF Connect
      <4> QED
        BY <1>1, <4>1, InfoTypes DEF ViewType
    <3>2. CASE c # Watcher
      <4>1. view' = view /\ conn'[Watcher] = conn[Watcher]
        BY <1>1, <2>1, <3>2, WatcherAssumption DEF Connect
      <4> QED
        BY <4>1 DEF ViewInv, ViewType, Watching
    <3> QED
      BY <3>1, <3>2
  <2>2. CASE Leave(c)
    <3>1. CASE c = Watcher
      <4>1. view' = [d \in Slots |-> Unlisted] /\ conn'[Watcher] = "leaving"
        BY <1>1, <2>2, <3>1 DEF Leave
      <4>2. ~Watching'
        BY <4>1 DEF Watching
      <4>3. Unlisted \in [status : Statuses, saved : Levels \cup {0}, temp : Levels \cup {0}]
        BY DEF Unlisted, Statuses
      <4> QED
        BY <4>1, <4>2, <4>3 DEF ViewType
    <3>2. CASE c # Watcher
      <4>1. view' = view /\ conn'[Watcher] = conn[Watcher]
        BY <1>1, <2>2, <3>2, WatcherAssumption DEF Leave
      <4> QED
        BY <4>1 DEF ViewInv, ViewType, Watching
    <3> QED
      BY <3>1, <3>2
  <2>3. CASE Gone(c) \/ runCommandTypo(c)
    <3>1. view' = view
      BY <2>3 DEF Gone, runCommandTypo
    <3>2. conn'[Watcher] # "in" \/ conn'[Watcher] = conn[Watcher]
      BY <1>1, <2>3, WatcherAssumption DEF Gone, runCommandTypo, clients
    <3> QED
      BY <3>1, <3>2 DEF ViewInv, ViewType, Watching
  <2> QED
    BY <2>1, <2>2, <2>3
<1>4. ASSUME NEW d \in Slots PROVE ViewSlot(d)'
  <2>1. ViewSlot(d)
    BY DEF ViewInv
  <2>2. MonitorBusy(d)' <=> MonitorBusy(d)
    BY <1>2 DEF MonitorBusy, monitor
  <2>3. Watching' => (Watching /\ view'[d] = view[d]) \/ view'[d] = deviceInfo(d)
    BY <1>3
  <2> QED
    BY <1>2, <2>1, <2>2, <2>3, ViewFrame DEF table, monitor
<1> QED
  BY <1>3, <1>4 DEF ViewInv

\* A step of a client keeps every slot as it should be.
LEMMA ClientHeeds ==
    ASSUME Overlaps = {}, TypeInv, TurnsInv, ViewInv, NEW c \in Clients, Client(c)
    PROVE  ViewInv'
<1>1. TableTypes /\ ScriptInv /\ ViewType
  BY AllTypes DEF TypeInv, ViewInv
<1>2. CASE Connect(c) \/ Leave(c) \/ Gone(c) \/ runCommandTypo(c)
  BY <1>2, ClientQuiet
<1>3. ASSUME NEW e \in Slots, UNCHANGED <<conn, view, monitor, nAt>>,
             status'[e] = status[e], serial'[e] = serial[e], openDevices'[e] = openDevices[e],
             brightness'[e] = brightness[e], tempBrightness'[e] = tempBrightness[e],
             notify'[e] = notify[e], \A b \in Clients : script'[b][e] = script[b][e]
      PROVE  ViewSlot(e)'
  <2>1. ViewSlot(e)
    BY DEF ViewInv
  <2>2. (MonitorBusy(e)' <=> MonitorBusy(e)) /\ mScript' = mScript
    BY <1>3 DEF MonitorBusy, monitor
  <2>3. Watching' => (Watching /\ view'[e] = view[e]) \/ view'[e] = deviceInfo(e)
    BY <1>3 DEF Watching
  <2> QED
    BY <1>3, <2>1, <2>2, <2>3, ViewFrame
<1>4. ASSUME NEW cmd \in Commands, NEW S \in SUBSET Slots, runCommand(c, cmd, S), NEW e \in Slots
      PROVE  ViewSlot(e)'
  <2>1. UNCHANGED <<table, conn, view, monitor, nAt>> /\ \A d \in Slots : script[c][d] = <<>>
    BY <1>4 DEF runCommand, Idle
  <2>2. /\ script'[c][e] = IF e \in S THEN <<Set("guard", cmd)>> ELSE <<>>
        /\ \A b \in Clients : b # c => script'[b][e] = script[b][e]
    BY <1>1, <1>4 DEF runCommand, ScriptInv
  <2>3. CASE e \notin S
    <3>1. \A b \in Clients : script'[b][e] = script[b][e]
      BY <1>4, <2>1, <2>2, <2>3
    <3> QED
      BY <1>3, <1>4, <2>1, <3>1 DEF table
  <2>4. CASE e \in S
    <3>1. openDevices[e] # NoPath /\ MayBegin("command", e)
      BY <1>4, <2>4 DEF runCommand, Found
    <3>2. Free(e) /\ nAt # e
      BY <3>1, <1>4, BeginsAlone
    <3>3. Heeds(e, <<>>)
      BY <1>4, <3>1, <3>2 DEF ViewInv, ViewSlot, Knows
    <3>4. ~MonitorBusy(e)' /\ nAt' # e /\ openDevices'[e] # NoPath
      BY <2>1, <3>1, <3>2 DEF table, monitor, MonitorBusy, Free
    <3>5. Heeds(e, <<Set("guard", cmd)>>)'
      <4>1. \A f \in Followed : ~Says(<<>>, f)
        BY FewElements DEF Says
      <4>2. \A f \in Followed : Silent(<<Set("guard", cmd)>>, f)
        BY FewElements, Fields DEF Silent, Changes, Followed
      <4>3. <<Set("guard", cmd)>> \in Guards
        BY DEF Guards
      <4>4. Watching' = Watching /\ \A f \in Followed : Shown(e, f)' = Shown(e, f)
        BY <2>1 DEF Watching, Shown, Followed, table
      <4> QED
        BY <2>1, <3>3, <4>1, <4>2, <4>3, <4>4 DEF Heeds, table
    <3>6. \A b \in Clients : b # c => script'[b][e] = <<>>
      BY <2>2, <3>2 DEF Free
    <3>7. script'[c][e] = <<Set("guard", cmd)>>
      BY <2>2, <2>4
    <3> QED
      BY <1>4, <3>4, <3>5, <3>6, <3>7, OneThreadHeeds
  <2> QED
    BY <2>3, <2>4
<1>5. ASSUME NEW d \in Slots, script[c][d] # <<>>, NEW r, Proceed(c, d, r), UNCHANGED <<conn, monitor, nAt>>,
             openDevices'[d] # NoPath, Heeds(d, r)',
             \A f \in Slots : f # d =>
                /\ status'[f] = status[f] /\ serial'[f] = serial[f] /\ openDevices'[f] = openDevices[f]
                /\ brightness'[f] = brightness[f] /\ tempBrightness'[f] = tempBrightness[f]
                /\ notify'[f] = notify[f] /\ view'[f] = view[f],
             NEW e \in Slots
      PROVE  ViewSlot(e)'
  <2>1. /\ script'[c][d] = r
        /\ \A b \in Clients, f \in Slots : b # c \/ f # d => script'[b][f] = script[b][f]
    BY <1>1, <1>5, ProceedScripts
  <2>2. CASE e # d
    <3>1. ViewSlot(e)
      BY DEF ViewInv
    <3>2. (MonitorBusy(e)' <=> MonitorBusy(e)) /\ mScript' = mScript
      BY <1>5 DEF MonitorBusy, monitor
    <3>3. Watching' => (Watching /\ view'[e] = view[e]) \/ view'[e] = deviceInfo(e)
      BY <1>5, <2>2 DEF Watching
    <3>4. \A b \in Clients : script'[b][e] = script[b][e]
      BY <2>1, <2>2
    <3>5. /\ status'[e] = status[e] /\ serial'[e] = serial[e] /\ openDevices'[e] = openDevices[e]
          /\ brightness'[e] = brightness[e] /\ tempBrightness'[e] = tempBrightness[e]
          /\ notify'[e] = notify[e]
      BY <1>5, <2>2
    <3>6. nAt' = e => nAt = e
      BY <1>5
    <3> QED
      BY <3>1, <3>2, <3>3, <3>4, <3>5, <3>6, ViewFrame
  <2>3. CASE e = d
    <3>1. ~MonitorBusy(d) /\ (\A b \in Clients : b # c => script[b][d] = <<>>) /\ ~Free(d)
      BY <1>5 DEF TurnsInv, SlotInv, Free
    <3>2. ~MonitorBusy(d)' /\ nAt' # d /\ \A b \in Clients : b # c => script'[b][d] = <<>>
      BY <1>5, <2>1, <3>1 DEF monitor, MonitorBusy, ViewInv, ViewSlot
    <3>3. ViewSlot(d)'
      BY <1>5, <2>1, <3>2, OneThreadHeeds
    <3> QED
      BY <2>3, <3>3
  <2> QED
    BY <2>2, <2>3
<1>6. ASSUME NEW d \in Slots, Guard(c, d), NEW e \in Slots PROVE ViewSlot(e)'
  <2>1. PICK s : s = script[c][d]
    OBVIOUS
  <2>2. /\ s # <<>> /\ Head(s).op = "guard" /\ UNCHANGED <<table, conn, view, monitor, nAt>>
        /\ Proceed(c, d, runThread(c, d, Head(s).to))
    BY <1>6, <2>1 DEF Guard
  <2>3. Heeds(d, s)
    BY <1>6, <2>1, <2>2 DEF ViewInv, ViewSlot
  <2>4. PICK cmd \in Commands : s = <<Set("guard", cmd)>>
    <3>1. s \notin Seq(Careful)
      <4>1. s \in Seq(Careful) => Head(s) \in Careful
        BY <2>2, HeadTailProperties
      <4>2. Head(s) \notin Careful
        BY <2>2, CarefulOp
      <4> QED
        BY <4>1, <4>2
    <3> QED
      BY <2>3, <3>1 DEF Heeds, Guards
  <2>5. Head(s).to = cmd
    BY <2>4, Fields
  <2>6. PICK r : r = runThread(c, d, cmd)
    OBVIOUS
  <2>7. r \in Seq(Careful) /\ Announced(r)
    BY <2>6, CarefulThread
  <2>8. openDevices[d] # NoPath
    BY <2>1, <2>2, <1>6 DEF TurnsInv, SlotInv, ClientTurn
  <2>9. Heeds(d, r)'
    <3>1. \A f \in Followed : ~Says(s, f)
      BY <2>4, FewElements DEF Says, Notify, Set
    <3>2. Watching' = Watching /\ \A f \in Followed : Shown(d, f)' = Shown(d, f)
      BY <2>2 DEF Watching, Shown, Followed, table
    <3>3. \A f \in Followed : f \in notify[d] \/ (Watching => Shown(d, f))
      BY <2>3, <3>1 DEF Heeds
    <3>4. \A f \in Followed : Says(r, f) \/ Silent(r, f)
      BY <2>7 DEF Announced
    <3>5. \A f \in Followed : f \in notify'[d] \/ Says(r, f) \/ (Silent(r, f) /\ (Watching' => Shown(d, f)'))
      BY <2>2, <3>2, <3>3, <3>4 DEF table
    <3> QED
      BY <2>2, <2>3, <2>7, <3>5 DEF Heeds, table
  <2>10. Proceed(c, d, r) /\ script[c][d] # <<>>
    BY <2>1, <2>2, <2>5, <2>6
  <2>11. openDevices'[d] # NoPath
    BY <2>2, <2>8 DEF table
  <2> QED
    BY <1>5, <1>6, <2>2, <2>9, <2>10, <2>11 DEF table
<1>7. ASSUME NEW d \in Slots, ClientStep(c, d) PROVE ViewType' /\ \A e \in Slots : ViewSlot(e)'
  <2>1. PICK s : s = script[c][d]
    OBVIOUS
  <2>2. PICK r : r = Rest(s, d)
    OBVIOUS
  <2>3. PICK h : h = IF inst[c][d] = None THEN handle[d] ELSE inst[c][d]
    OBVIOUS
  <2>4. s # <<>> /\ Operation(Head(s), d, h) /\ Proceed(c, d, r) /\ UNCHANGED <<conn, monitor, nAt>>
    BY <1>7, <2>1, <2>2, <2>3 DEF ClientStep
  <2>5. h \in Handles \cup {None}
    BY <1>1, <2>3, <1>7 DEF TableTypes, TypeInv, WorldInv
  <2>6. Heeds(d, s)
    BY <2>1, <2>4, <1>7 DEF ViewInv, ViewSlot
  <2>7. Heeds(d, r)'
    BY <1>1, <2>2, <2>4, <2>5, <2>6, HeedsStep, <1>7
  <2>8. ClientTurn(c, d, s)
    BY <2>1, <2>4, <1>7 DEF TurnsInv, SlotInv
  <2>9. openDevices'[d] # NoPath
    BY <1>1, <1>7, <2>2, <2>4, <2>8, ClientTurnStep
  <2>10. \A f \in Slots : f # d =>
                /\ status'[f] = status[f] /\ serial'[f] = serial[f] /\ openDevices'[f] = openDevices[f]
                /\ brightness'[f] = brightness[f] /\ tempBrightness'[f] = tempBrightness[f]
                /\ notify'[f] = notify[f] /\ view'[f] = view[f]
    BY <1>1, <1>7, <2>4, EffectElsewhere, ValuesElsewhere
  <2>11. ViewType'
    BY <1>1, <1>7, <2>4, OperationView
  <2>12. script[c][d] # <<>>
    BY <2>1, <2>4
  <2> QED
    BY <1>5, <1>7, <2>4, <2>7, <2>9, <2>10, <2>11, <2>12
<1>8. ASSUME NEW d \in Slots, CheckLock(c, d), NEW e \in Slots PROVE ViewSlot(e)'
  <2>1. /\ UNCHANGED <<table, conn, view, monitor, nAt>> /\ MayBegin("command", d) /\ script[c][d] = <<>>
        /\ script' = [script EXCEPT ![c][d] = IF lock[d] = c THEN CleanupScript ELSE <<>>]
    BY <1>8 DEF CheckLock, Idle
  <2>2. /\ script'[c][d] = IF lock[d] = c THEN CleanupScript ELSE <<>>
        /\ \A b \in Clients, f \in Slots : b # c \/ f # d => script'[b][f] = script[b][f]
    BY <1>1, <1>8, <2>1 DEF ScriptInv
  <2>3. CASE e # d \/ lock[d] # c
    <3>1. \A b \in Clients : script'[b][e] = script[b][e]
      BY <1>8, <2>1, <2>2, <2>3
    <3> QED
      BY <1>3, <1>8, <2>1, <3>1 DEF table
  <2>4. CASE e = d /\ lock[d] = c
    <3>1. Free(d) /\ nAt # d
      BY <1>8, <2>1, BeginsAlone
    <3>2. openDevices[d] # NoPath
      <4>1. Still(d)
        BY <1>8, <3>1 DEF TurnsInv, SlotInv, Free
      <4> QED
        BY <2>4, <4>1, NoneAssumption DEF Still, Blank
    <3>3. Heeds(d, <<>>)
      BY <1>8, <3>1, <3>2 DEF ViewInv, ViewSlot, Knows
    <3>4. ~MonitorBusy(d)' /\ nAt' # d /\ openDevices'[d] # NoPath
      BY <2>1, <3>1, <3>2 DEF table, monitor, MonitorBusy, Free
    <3>5. Heeds(d, CleanupScript)'
      <4>1. \A f \in Followed : ~Says(<<>>, f)
        BY FewElements DEF Says
      <4>2. \A f \in Followed : Says(CleanupScript, f) \/ Silent(CleanupScript, f)
        BY CarefulCleanup DEF Announced
      <4>3. Watching' = Watching /\ \A f \in Followed : Shown(d, f)' = Shown(d, f)
        BY <2>1 DEF Watching, Shown, Followed, table
      <4> QED
        BY <2>1, <3>3, <4>1, <4>2, <4>3, CarefulCleanup DEF Heeds, table
    <3>6. script'[c][d] = CleanupScript /\ \A b \in Clients : b # c => script'[b][d] = <<>>
      BY <1>8, <2>2, <2>4, <3>1 DEF Free
    <3>7. ViewSlot(d)'
      BY <1>8, <3>4, <3>5, <3>6, OneThreadHeeds
    <3> QED
      BY <2>4, <3>7
  <2> QED
    BY <2>3, <2>4
<1>9. ASSUME UNCHANGED view PROVE ViewType'
  BY <1>1, <1>9 DEF ViewType
<1> QED
  BY <1>2, <1>4, <1>6, <1>7, <1>8, <1>9 DEF Client, ViewInv, runCommand, Guard, CheckLock

\* A step of monitorDevices does too.
LEMMA MonitorInforms ==
    ASSUME Overlaps = {}, TypeInv, TurnsInv, ViewInv, Monitor
    PROVE  ViewInv'
<1>1. TableTypes /\ MonitorInv /\ ViewType /\ mI \in Slots
  BY AllTypes DEF TypeInv, ViewInv, OtherTypes
<1>2. ASSUME NEW e \in Slots, UNCHANGED <<conn, view, script, nAt>>,
             UNCHANGED <<openDevices, serial, brightness, tempBrightness, status, notify>>,
             ~MonitorBusy(e), ~MonitorBusy(e)'
      PROVE  ViewSlot(e)'
  <2>1. ViewSlot(e)
    BY DEF ViewInv
  <2>2. Watching' => (Watching /\ view'[e] = view[e]) \/ view'[e] = deviceInfo(e)
    BY <1>2 DEF Watching
  <2> QED
    BY <1>2, <2>1, <2>2, ViewFrame
<1>3. ASSUME Enumerate \/ Keep \/ Pass, NEW e \in Slots PROVE ViewSlot(e)'
  <2>1. UNCHANGED <<openDevices, serial, brightness, tempBrightness, status, notify, conn, view, script, nAt>>
        /\ mScript = <<>> /\ mScript' = <<>>
    BY <1>1, <1>3 DEF Enumerate, Keep, Pass, AtSlot, MonitorInv, table, clients
  <2> QED
    BY <1>2, <1>3, <2>1 DEF MonitorBusy
<1>4. ASSUME Remove, NEW e \in Slots PROVE ViewSlot(e)'
  <2>1. /\ UNCHANGED <<table, conn, view, script, mI, nAt>> /\ mScript = <<>>
        /\ openDevices[mI] # NoPath /\ MayBegin("monitor", mI) /\ mScript' = RemoveScript
    BY <1>4 DEF Remove, AtSlot, clients
  <2>2. CASE e = mI
    <3>1. Free(e) /\ nAt # e
      BY <1>1, <2>1, <2>2, BeginsAlone
    <3>2. MonitorHeeds(e, mScript)'
      BY <2>1, <2>2 DEF MonitorHeeds, table
    <3>3. /\ \A c \in Clients : script'[c][e] = <<>>
          /\ nAt' # e /\ MonitorBusy(e)'
      BY <2>1, <2>2, <3>1, MonitorScripts DEF Free, MonitorBusy
    <3> QED
      BY <1>4, <3>2, <3>3, MonitorAloneHeeds
  <2>3. CASE e # mI
    BY <1>2, <1>4, <2>1, <2>3 DEF MonitorBusy, table
  <2> QED
    BY <2>2, <2>3
<1>5. ASSUME NEW p \in Paths, Add(p), NEW e \in Slots PROVE ViewSlot(e)'
  <2>1. /\ UNCHANGED <<openDevices, serial, brightness, tempBrightness, status, notify, conn, view, script, mI, nAt>>
        /\ mScript = <<>> /\ MayBegin("monitor", mI) /\ mScript' = AddScript(p)
    BY <1>5 DEF Add, AtSlot, clients
  <2>2. CASE e = mI
    <3>1. Free(e) /\ nAt # e
      BY <1>1, <2>1, <2>2, BeginsAlone
    <3>2. MonitorHeeds(e, mScript)'
      BY <1>5, <2>1 DEF MonitorHeeds
    <3>3. /\ \A c \in Clients : script'[c][e] = <<>>
          /\ nAt' # e /\ MonitorBusy(e)'
      BY <2>1, <2>2, <3>1, MonitorScripts DEF Free, MonitorBusy
    <3> QED
      BY <1>5, <3>2, <3>3, MonitorAloneHeeds
  <2>3. CASE e # mI
    BY <1>2, <1>5, <2>1, <2>3 DEF MonitorBusy
  <2> QED
    BY <2>2, <2>3
<1>6. ASSUME MonitorStep PROVE ViewType' /\ \A e \in Slots : ViewSlot(e)'
  <2>1. PICK s : s = mScript
    OBVIOUS
  <2>2. PICK d \in Slots : d = mI
    BY <1>1
  <2>3. PICK r : r = Rest(s, d)
    OBVIOUS
  <2>4. PICK h \in Handles \cup {None} : h = handle[d]
    BY <1>1 DEF TableTypes
  <2>5. /\ s # <<>> /\ Operation(Head(s), d, h) /\ mScript' = r
        /\ r # <<>> => mI' = d
        /\ UNCHANGED <<conn, script, nAt>>
    BY <1>6, <2>1, <2>2, <2>3, <2>4 DEF MonitorStep, clients
  <2>6. MonitorBusy(d)
    BY <2>1, <2>2, <2>5 DEF MonitorBusy
  <2>7. MonitorHeeds(d, s) /\ nAt # d /\ \A c \in Clients : script[c][d] = <<>>
    BY <2>1, <2>6 DEF ViewInv, ViewSlot, Free, TurnsInv, SlotInv
  <2>8. (r # <<>> => MonitorHeeds(d, r)') /\ (r = <<>> => Knows(d)')
    BY <1>1, <2>3, <2>5, <2>7, MonitorHeedsStep
  <2>9. MonitorBusy(d)' <=> r # <<>>
    BY <2>5 DEF MonitorBusy
  <2>10. MonitorBusy(d)' => MonitorHeeds(d, mScript)'
    BY <2>5, <2>8, <2>9
  <2>11. ViewSlot(d)'
    BY <2>5, <2>7, <2>8, <2>9, <2>10, MonitorAloneHeeds
  <2>12. ASSUME NEW e \in Slots, e # d PROVE ViewSlot(e)'
    <3>1. /\ status'[e] = status[e] /\ openDevices'[e] = openDevices[e] /\ notify'[e] = notify[e]
          /\ brightness'[e] = brightness[e] /\ tempBrightness'[e] = tempBrightness[e]
          /\ serial'[e] = serial[e] /\ view'[e] = view[e]
      BY <1>1, <2>5, <2>12, EffectElsewhere, ValuesElsewhere
    <3>2. ~MonitorBusy(e) /\ ~MonitorBusy(e)'
      BY <2>2, <2>5, <2>12 DEF MonitorBusy
    <3>3. ViewSlot(e)
      BY DEF ViewInv
    <3>4. Watching' => (Watching /\ view'[e] = view[e]) \/ view'[e] = deviceInfo(e)
      BY <2>5, <3>1 DEF Watching
    <3> QED
      BY <2>5, <3>1, <3>2, <3>3, <3>4, ViewFrame
  <2>13. ViewType'
    BY <1>1, <2>5, OperationView
  <2> QED
    BY <2>11, <2>12, <2>13
<1>7. ASSUME UNCHANGED view PROVE ViewType'
  BY <1>1, <1>7 DEF ViewType
<1> QED
  BY <1>3, <1>4, <1>5, <1>6, <1>7 DEF Monitor, ViewInv, Enumerate, Keep, Pass, Remove, Add

\* An update tells a client what it does not know of a slot.
LEMMA UpdateInforms ==
    ASSUME Overlaps = {}, TypeInv, ViewInv, Notifier
    PROVE  ViewInv'
<1>1. TableTypes /\ ViewType
  BY AllTypes DEF TypeInv, ViewInv
<1>2. UNCHANGED <<openDevices, serial, brightness, tempBrightness, status, conn, script, mI, mScript>>
  BY DEF Notifier, SendUpdate, ClearUpdate, table, clients, monitor
<1>3. Watching' = Watching /\ \A e \in Slots : (MonitorBusy(e)' <=> MonitorBusy(e)) /\ (Free(e)' <=> Free(e))
  BY <1>2 DEF Watching, MonitorBusy, Free
<1>4. ASSUME NEW e \in Slots, notify'[e] = notify[e], view'[e] = view[e], nAt' = e => nAt = e
      PROVE  ViewSlot(e)'
  <2>1. ViewSlot(e) /\ (Watching' => (Watching /\ view'[e] = view[e]) \/ view'[e] = deviceInfo(e))
    BY <1>3, <1>4 DEF ViewInv
  <2> QED
    BY <1>2, <1>3, <1>4, <2>1, ViewFrame
<1>5. ASSUME NEW e \in Slots, Free(e), openDevices[e] # NoPath, Heeds(e, <<>>),
             Watching => view'[e] = deviceInfo(e)
      PROVE  ViewSlot(e)'
  <2>1. deviceInfo(e)' = deviceInfo(e)
    BY <1>2 DEF deviceInfo
  <2>2. Watching' => view'[e] = deviceInfo(e)'
    BY <1>3, <1>5, <2>1
  <2>3. status'[e] # "DISCONNECT" /\ serial'[e] # None
    BY <1>2, <1>5 DEF Heeds
  <2>4. Heeds(e, <<>>)'
    BY <2>2, <2>3, AllShown
  <2>5. Knows(e)' /\ Free(e)' /\ openDevices'[e] # NoPath
    BY <1>2, <1>3, <1>5, <2>4 DEF Knows
  <2> QED
    BY <2>2, <2>5 DEF ViewSlot, Free
<1>6. ASSUME NEW d \in Slots, SendUpdate(d) PROVE ViewInv'
  <2>1. /\ status[d] # "DISCONNECT" /\ MayBegin("notifier", d) /\ nAt' = d /\ nAt = None
        /\ UNCHANGED <<notify>>
        /\ view' = IF conn[Watcher] # "in" THEN view ELSE
             [view EXCEPT ![d] =
                [status |-> IF "STATUS" \in notify[d] THEN status[d] ELSE view[d].status,
                 saved |-> IF "BRIGHTNESS" \in notify[d] THEN brightness[d] ELSE view[d].saved,
                 temp |-> IF "TEMP_BRIGHTNESS" \in notify[d] THEN tempBrightness[d] ELSE view[d].temp]]
    BY <1>6 DEF SendUpdate, table
  <2>2. Free(d)
    BY <1>6, <2>1, BeginsAlone
  <2>3. openDevices[d] # NoPath /\ Heeds(d, <<>>)
    BY <1>6, <2>1, <2>2 DEF ViewInv, ViewSlot, Knows, Unseen
  <2>4. ASSUME Watching PROVE view'[d] = deviceInfo(d)
    <3>1. view'[d] = [status |-> IF "STATUS" \in notify[d] THEN status[d] ELSE view[d].status,
                      saved |-> IF "BRIGHTNESS" \in notify[d] THEN brightness[d] ELSE view[d].saved,
                      temp |-> IF "TEMP_BRIGHTNESS" \in notify[d] THEN tempBrightness[d] ELSE view[d].temp]
      BY <1>1, <2>1, <2>4 DEF Watching, ViewType
    <3>2. \A f \in Followed : f \in notify[d] \/ Shown(d, f)
      BY <2>3, <2>4, FewElements DEF Heeds, Says
    <3>3. /\ "STATUS" \in notify[d] \/ view[d].status = status[d]
          /\ "BRIGHTNESS" \in notify[d] \/ view[d].saved = brightness[d]
          /\ "TEMP_BRIGHTNESS" \in notify[d] \/ view[d].temp = tempBrightness[d]
      BY <3>2 DEF Followed, Shown
    <3>4. deviceInfo(d) = [status |-> status[d], saved |-> brightness[d], temp |-> tempBrightness[d]]
      BY <2>3 DEF Heeds, deviceInfo
    <3> QED
      BY <3>1, <3>3, <3>4
  <2>5. ViewSlot(d)'
    BY <1>5, <1>6, <2>2, <2>3, <2>4
  <2>6. ASSUME NEW e \in Slots, e # d PROVE ViewSlot(e)'
    <3>1. view'[e] = view[e]
      BY <1>1, <2>1, <2>6 DEF ViewType
    <3> QED
      BY <1>4, <2>1, <2>6, <3>1
  <2>7. ViewType'
    BY <1>1, <2>1 DEF ViewType, TableTypes
  <2> QED
    BY <2>5, <2>6, <2>7 DEF ViewInv
<1>7. CASE ClearUpdate
  <2>1. nAt \in Slots /\ nAt' = None /\ nAt' \notin Slots
    BY <1>7, NoneAssumption, DevicesAssumption DEF ClearUpdate, TypeInv, TypeOK, Slots
  <2>2. notify' = [notify EXCEPT ![nAt] = {}] /\ UNCHANGED view
    BY <1>7 DEF ClearUpdate
  <2>3. PICK d \in Slots : d = nAt
    BY <2>1
  <2>4. Free(d) /\ openDevices[d] # NoPath /\ Heeds(d, <<>>) /\ (Watching => view'[d] = deviceInfo(d))
    BY <2>2, <2>3 DEF ViewInv, ViewSlot, Knows
  <2>5. ViewSlot(d)'
    BY <1>5, <2>4
  <2>6. ASSUME NEW e \in Slots, e # d PROVE ViewSlot(e)'
    <3>1. notify'[e] = notify[e]
      BY <1>1, <2>2, <2>3, <2>6 DEF TableTypes
    <3> QED
      BY <1>4, <2>1, <2>2, <3>1
  <2>7. ViewType'
    BY <1>1, <2>2 DEF ViewType
  <2> QED
    BY <2>5, <2>6, <2>7 DEF ViewInv
<1> QED
  BY <1>6, <1>7 DEF Notifier

\* Every step.
LEMMA ViewStep ==
    ASSUME Overlaps = {}, TypeInv, TurnsInv, ViewInv, [Next]_vars PROVE ViewInv'
<1>1. ASSUME UNCHANGED <<table, clients, monitor, nAt, view>> PROVE ViewInv'
  <2>1. ViewType'
    BY <1>1 DEF ViewInv, ViewType
  <2>2. ASSUME NEW e \in Slots PROVE ViewSlot(e)'
    <3>1. ViewSlot(e) /\ (MonitorBusy(e)' <=> MonitorBusy(e)) /\ mScript' = mScript
      BY <1>1 DEF ViewInv, MonitorBusy, monitor
    <3>2. Watching' => (Watching /\ view'[e] = view[e]) \/ view'[e] = deviceInfo(e)
      BY <1>1 DEF Watching, clients
    <3> QED
      BY <1>1, <3>1, <3>2, ViewFrame DEF table, clients
  <2> QED
    BY <2>1, <2>2 DEF ViewInv
<1>2. CASE UNCHANGED vars
  BY <1>1, <1>2 DEF vars
<1>3. ASSUME NEW u \in Units, Plug(u) \/ Unplug(u) PROVE ViewInv'
  BY <1>1, <1>3 DEF Plug, Unplug
<1> QED
  BY <1>2, <1>3, ClientHeeds, MonitorInforms, UpdateInforms DEF Next

\* At first there is nothing to know.
LEMMA ViewInit == ASSUME Init PROVE ViewInv
<1>1. ViewType
  BY DEF Init, ViewType, Unlisted, Statuses
<1>2. ASSUME NEW d \in Slots PROVE ViewSlot(d)
  <2>1. /\ \A c \in Clients : script[c][d] = <<>>
        /\ mScript = <<>> /\ status[d] = "DISCONNECT" /\ view[d] = Unlisted /\ openDevices[d] = NoPath
    BY DEF Init
  <2>2. nAt # d
    BY NoneAssumption, DevicesAssumption DEF Init, Slots
  <2>3. Knows(d) /\ ~MonitorBusy(d)
    BY <2>1 DEF Knows, Unseen, MonitorBusy
  <2> QED
    BY <2>1, <2>2, <2>3 DEF ViewSlot
<1> QED
  BY <1>1, <1>2 DEF ViewInv

\* A slot that is quiet.
LEMMA QuietKnown ==
    ASSUME ViewInv, NEW d \in Slots, Watching, Quiet(d), ViewType PROVE view[d] = deviceInfo(d)
<1>1. Free(d)
  BY DEF Quiet, AtWork, Free, MonitorBusy
<1>2. Knows(d) /\ notify[d] = {}
  BY <1>1 DEF ViewInv, ViewSlot, Quiet
<1>3. CASE openDevices[d] = NoPath
  BY <1>2, <1>3 DEF Knows, Unseen, deviceInfo
<1>4. CASE openDevices[d] # NoPath
  <2>1. Heeds(d, <<>>)
    BY <1>2, <1>4 DEF Knows
  <2>2. \A f \in Followed : Shown(d, f)
    BY <1>2, <2>1, FewElements DEF Heeds, Says
  <2>3. view[d].status = status[d] /\ view[d].saved = brightness[d] /\ view[d].temp = tempBrightness[d]
    BY <2>2 DEF Followed, Shown
  <2>4. view[d] = [status |-> status[d], saved |-> brightness[d], temp |-> tempBrightness[d]]
    BY <2>3 DEF ViewType
  <2> QED
    BY <2>1, <2>4 DEF Heeds, deviceInfo
<1> QED
  BY <1>3, <1>4

-----------------------------------------------------------------------------
(* The theorem about what a client knows.                                  *)

\* A client has accurate information about every slot that is quiet, if all threads take
\* turns on a slot: whatever a command, a clean-up, monitorDevices or the end of a session
\* changes is announced or flagged, and no flag is cleared that was not sent.
THEOREM ViewsCorrect == ASSUME Overlaps = {} PROVE Spec => []ViewsAccurate
<1>1. Init => IndInv /\ TurnsInv /\ ViewInv
  BY Starts, TurnsInit, ViewInit
<1>2. IndInv /\ TurnsInv /\ ViewInv /\ [Next]_vars => (IndInv /\ TurnsInv /\ ViewInv)'
  BY Preserved, TurnsStep, ViewStep DEF IndInv
<1>3. ViewInv => ViewsAccurate
  BY QuietKnown DEF ViewInv, Watching, ViewsAccurate
<1> QED
  BY <1>1, <1>2, <1>3, PTL DEF Spec

-----------------------------------------------------------------------------
(* The handle of a slot is open on its unit.                               *)

\* The places of a removal, of a filling, and of an addition.
LEMMA Removing ==
    ASSUME NEW s \in Removals
    PROVE  /\ s # <<>> /\ Head(s).op \in {"status", "clear", "lock", "removed", "close", "forget"}
           /\ Head(s).op = "forget" <=> s = <<Do("forget")>>
           /\ Head(s).op = "forget" => Tail(s) = <<>>
           /\ Head(s).op # "forget" => Tail(s) \in Removals
           /\ Head(s).op \notin {"forget", "close"} => Head(Tail(s)).op # "forget"
           /\ Head(s).op = "close" => Tail(s) = <<Do("forget")>>
<1>1. CASE s = RemoveScript
  <2>1. /\ Head(s).op = "status"
        /\ Tail(s) = <<Do("clear"), Set("lock", None), Do("removed"), Do("close"), Do("forget")>>
    BY <1>1, Fields DEF RemoveScript
  <2>2. Tail(s) \in Removals /\ Head(Tail(s)).op = "clear" /\ s # <<>>
    BY <1>1, <2>1, Fields DEF Removals, RemoveScript
  <2>3. s # <<Do("forget")>>
    BY <2>1, Fields
  <2> QED
    BY <2>1, <2>2, <2>3
<1>2. CASE s = <<Do("clear"), Set("lock", None), Do("removed"), Do("close"), Do("forget")>>
  <2>1. Head(s).op = "clear" /\ Tail(s) = <<Set("lock", None), Do("removed"), Do("close"), Do("forget")>>
    BY <1>2, Fields
  <2>2. Tail(s) \in Removals /\ Head(Tail(s)).op = "lock" /\ s # <<>>
    BY <1>2, <2>1, Fields DEF Removals
  <2>3. s # <<Do("forget")>>
    BY <2>1, Fields
  <2> QED
    BY <2>1, <2>2, <2>3
<1>3. CASE s = <<Set("lock", None), Do("removed"), Do("close"), Do("forget")>>
  <2>1. Head(s).op = "lock" /\ Tail(s) = <<Do("removed"), Do("close"), Do("forget")>>
    BY <1>3, Fields
  <2>2. Tail(s) \in Removals /\ Head(Tail(s)).op = "removed" /\ s # <<>>
    BY <1>3, <2>1, Fields DEF Removals
  <2>3. s # <<Do("forget")>>
    BY <2>1, Fields
  <2> QED
    BY <2>1, <2>2, <2>3
<1>4. CASE s = <<Do("removed"), Do("close"), Do("forget")>>
  <2>1. Head(s).op = "removed" /\ Tail(s) = <<Do("close"), Do("forget")>>
    BY <1>4, Fields
  <2>2. Tail(s) \in Removals /\ Head(Tail(s)).op = "close" /\ s # <<>>
    BY <1>4, <2>1, Fields DEF Removals
  <2>3. s # <<Do("forget")>>
    BY <2>1, Fields
  <2> QED
    BY <2>1, <2>2, <2>3
<1>5. CASE s = <<Do("close"), Do("forget")>>
  <2>1. Head(s).op = "close" /\ Tail(s) = <<Do("forget")>> /\ s # <<>>
    BY <1>5, Fields
  <2>2. Tail(s) \in Removals
    BY <2>1 DEF Removals
  <2>3. s # <<Do("forget")>>
    BY <2>1, Fields
  <2> QED
    BY <2>1, <2>2, <2>3
<1>6. CASE s = <<Do("forget")>>
  BY <1>6, Fields
<1> QED
  BY <1>1, <1>2, <1>3, <1>4, <1>5, <1>6 DEF Removals

LEMMA Filling ==
    ASSUME NEW s \in Fillings
    PROVE  /\ s # <<>> /\ Head(s).op \in {"identify", "start", "status", "clear", "lock", "added"}
           /\ Head(s).op = "status" => Head(s).to = "PLAY"
           /\ Head(s).op = "added" => Tail(s) = <<>>
           /\ Head(s).op # "added" => Tail(s) \in Fillings
           /\ Head(s).op = "identify" => Head(Tail(s)).op = "start"
           /\ Head(s).op = "start" => Head(Tail(s)).op = "status"
           /\ Head(s).op \in {"status", "clear", "lock"} => Head(Tail(s)).op \in {"clear", "lock", "added"}
<1>1. CASE s = <<Do("identify"), Do("start"), Set("status", "PLAY"), Do("clear"), Set("lock", None), Do("added")>>
  <2>1. /\ Head(s).op = "identify" /\ s # <<>>
        /\ Tail(s) = <<Do("start"), Set("status", "PLAY"), Do("clear"), Set("lock", None), Do("added")>>
    BY <1>1, Fields
  <2>2. Tail(s) \in Fillings /\ Head(Tail(s)).op = "start"
    BY <2>1, Fields DEF Fillings
  <2> QED
    BY <2>1, <2>2
<1>2. CASE s = <<Do("start"), Set("status", "PLAY"), Do("clear"), Set("lock", None), Do("added")>>
  <2>1. /\ Head(s).op = "start" /\ s # <<>>
        /\ Tail(s) = <<Set("status", "PLAY"), Do("clear"), Set("lock", None), Do("added")>>
    BY <1>2, Fields
  <2>2. Tail(s) \in Fillings /\ Head(Tail(s)).op = "status"
    BY <2>1, Fields DEF Fillings
  <2> QED
    BY <2>1, <2>2
<1>3. CASE s = <<Set("status", "PLAY"), Do("clear"), Set("lock", None), Do("added")>>
  <2>1. /\ Head(s).op = "status" /\ Head(s).to = "PLAY" /\ s # <<>>
        /\ Tail(s) = <<Do("clear"), Set("lock", None), Do("added")>>
    BY <1>3, Fields
  <2>2. Tail(s) \in Fillings /\ Head(Tail(s)).op = "clear"
    BY <2>1, Fields DEF Fillings
  <2> QED
    BY <2>1, <2>2
<1>4. CASE s = <<Do("clear"), Set("lock", None), Do("added")>>
  <2>1. Head(s).op = "clear" /\ s # <<>> /\ Tail(s) = <<Set("lock", None), Do("added")>>
    BY <1>4, Fields
  <2>2. Tail(s) \in Fillings /\ Head(Tail(s)).op = "lock"
    BY <2>1, Fields DEF Fillings
  <2> QED
    BY <2>1, <2>2
<1>5. CASE s = <<Set("lock", None), Do("added")>>
  <2>1. Head(s).op = "lock" /\ s # <<>> /\ Tail(s) = <<Do("added")>>
    BY <1>5, Fields
  <2>2. Tail(s) \in Fillings /\ Head(Tail(s)).op = "added"
    BY <2>1, Fields DEF Fillings
  <2> QED
    BY <2>1, <2>2
<1>6. CASE s = <<Do("added")>>
  <2>1. Head(s).op = "added" /\ s # <<>> /\ Tail(s) = <<>>
    BY <1>6, Fields
  <2> QED
    BY <2>1
<1> QED
  BY <1>1, <1>2, <1>3, <1>4, <1>5, <1>6 DEF Fillings

LEMMA AddBegins ==
    ASSUME NEW p
    PROVE  /\ AddScript(p) # <<>> /\ Head(AddScript(p)).op = "path" /\ Head(AddScript(p)).to = p
           /\ Tail(AddScript(p)) \in Fillings /\ Head(Tail(AddScript(p))).op = "identify"
<1>1. /\ AddScript(p) # <<>> /\ Head(AddScript(p)).op = "path" /\ Head(AddScript(p)).to = p
      /\ Tail(AddScript(p)) = <<Do("identify"), Do("start"), Set("status", "PLAY"), Do("clear"),
                                Set("lock", None), Do("added")>>
  BY Fields DEF AddScript
<1>2. Head(Tail(AddScript(p))).op = "identify"
  <2>1. ASSUME NEW t, t = <<Do("identify"), Do("start"), Set("status", "PLAY"), Do("clear"),
                            Set("lock", None), Do("added")>>
        PROVE  Head(t).op = "identify"
    BY <2>1, Fields
  <2> QED
    BY <1>1, <2>1
<1> QED
  BY <1>1, <1>2 DEF Fillings

\* Only a removal closes a handle.
LEMMA OperationHeap ==
    ASSUME NEW o, NEW d, NEW h, Operation(o, d, h)
    PROVE  heap' = IF o.op = "close" THEN [heap EXCEPT ![h] = NoPath] ELSE heap
<1>1. CASE TableOp(o, d)
  BY <1>1 DEF TableOp, TableOps
<1>2. CASE HidOp(o, d, h)
  BY <1>2 DEF HidOp
<1>3. CASE CloseOp(o, d, h)
  BY <1>3 DEF CloseOp
<1> QED
  BY <1>1, <1>2, <1>3 DEF Operation

\* The operations of a client's thread.
LEMMA ClientOp ==
    ASSUME TypeInv, NEW c \in Clients, NEW d \in Slots, NEW s, s = script[c][d], s # <<>>, Head(s).op # "guard"
    PROVE  Head(s).op \in {"start", "stop", "show", "touch", "get", "putSaved", "tempFromSaved",
                           "savedFromTemp", "status", "notify", "temp", "put", "lock", "if"}
<1>1. s \in Scripts(c)
  BY DEF TypeInv, ScriptInv
<1>2. ASSUME NEW cmd \in Commands, s = <<Set("guard", cmd)>> PROVE FALSE
  BY <1>2, Fields
<1>3. CASE s \in Seq(Ops(Statuses, {None, c}))
  <2>1. Head(s) \in Ops(Statuses, {None, c})
    BY <1>3, HeadTailProperties
  <2> QED
    BY <2>1, CommandOp
<1>4. CASE s \in Seq(Simple(Statuses, {None}))
  <2>1. Head(s) \in Simple(Statuses, {None})
    BY <1>4, HeadTailProperties
  <2> QED
    BY <2>1, LeavingOp, CommandOp
<1>5. s \in Seq(Ops(Statuses, {None, c})) \/ s \in Seq(Simple(Statuses, {None}))
  <2>1. s \notin {<<Set("guard", cmd)>> : cmd \in Commands}
    BY <1>2
  <2> QED
    BY <1>1, <2>1 DEF Scripts
<1> QED
  BY <1>3, <1>4, <1>5

\* A slot that is not opened, closed or forgotten: its handle stays good, and the threads
\* at work on it have it.
LEMMA HandleFrame ==
    ASSUME NEW d \in Slots, HandleSlot(d), openDevices \in [Slots -> Paths \cup {NoPath}],
           plugs \in [Units -> 0 .. MaxPlugs], plugs' \in [Units -> 0 .. MaxPlugs],
           \A u \in Units : plugs[u] <= plugs'[u],
           openDevices'[d] = openDevices[d],
           openDevices[d] # NoPath \/ MonitorBusy(d) => handle'[d] = handle[d],
           openDevices[d] # NoPath \/ MonitorBusy(d) =>
              \A h \in Handles : h = handle[d] /\ heap[h] # NoPath => heap'[h] = heap[h],
           MonitorBusy(d)' <=> MonitorBusy(d), MonitorBusy(d) => mScript' = mScript,
           \A c \in Clients : inst'[c][d] # None => inst'[c][d] = handle'[d] /\ script'[c][d] # <<>>
    PROVE  HandleSlot(d)'
<1>1. ASSUME NEW p \in Paths, Happened(p) PROVE Happened(p)'
  <2>1. /\ p[1] \in Units /\ p[2] \in Nat /\ plugs[p[1]] \in Nat /\ plugs'[p[1]] \in Nat
        /\ plugs[p[1]] <= plugs'[p[1]] /\ p[2] <= plugs[p[1]]
    BY <1>1, MaxPlugsAssumption DEF Paths, Happened
  <2> QED
    BY <2>1 DEF Happened
<1>2. \A p \in Paths : p # NoPath
  BY NoneAssumption DEF Paths, NoPath
<1>3. /\ MonitorBusy(d)' => \/ mScript' \in Removals \cup Fillings /\ openDevices'[d] # NoPath
                            \/ mScript' \in {AddScript(p) : p \in Paths} /\ openDevices'[d] = NoPath
  BY DEF HandleSlot
<1>4. openDevices'[d] # NoPath => Happened(openDevices[d])'
  BY <1>1 DEF HandleSlot
<1>5. openDevices'[d] # NoPath /\ ~(MonitorBusy(d)' /\ mScript' = <<Do("forget")>>) =>
          handle'[d] \in Handles /\ heap'[handle'[d]] = openDevices'[d]
  BY DEF HandleSlot
<1>6. ASSUME NEW p \in Paths, MonitorBusy(d)', mScript' = AddScript(p)
      PROVE  Happened(p)' /\ handle'[d] \in Handles /\ heap'[handle'[d]] = p
  <2>1. Happened(p) /\ handle[d] \in Handles /\ heap[handle[d]] = p /\ handle'[d] = handle[d]
    BY <1>6 DEF HandleSlot
  <2>2. heap'[handle[d]] = heap[handle[d]]
    BY <1>2, <1>6, <2>1
  <2> QED
    BY <1>1, <2>1, <2>2
<1> QED
  BY <1>3, <1>4, <1>5, <1>6 DEF HandleSlot, Happened

\* Where a thread has a handle, the slot is not empty.
LEMMA WithHandle ==
    ASSUME TurnsInv, HandleInv, NEW c \in Clients, NEW d \in Slots, inst[c][d] # None
    PROVE  openDevices[d] # NoPath /\ script[c][d] # <<>> /\ inst[c][d] = handle[d]
<1>1. script[c][d] # <<>> /\ inst[c][d] = handle[d]
  BY DEF HandleInv, HandleSlot
<1>2. ClientTurn(c, d, script[c][d])
  BY <1>1 DEF TurnsInv, SlotInv
<1> QED
  BY <1>1, <1>2 DEF ClientTurn

\* Clients neither open nor close a handle.
LEMMA ClientHandles ==
    ASSUME TypeInv, HandleInv, NEW c \in Clients, Client(c)
    PROVE  HandleInv'
<1>1. /\ ScriptInv /\ openDevices \in [Slots -> Paths \cup {NoPath}]
      /\ plugs \in [Units -> 0 .. MaxPlugs] /\ inst \in [Clients -> [Slots -> Handles \cup {None}]]
  BY DEF TypeInv, TypeOK, WorldInv
<1>2. ASSUME UNCHANGED <<openDevices, handle, heap, plugs, mI, mScript>>,
             \A b \in Clients, e \in Slots :
                inst'[b][e] # None => inst'[b][e] = handle[e] /\ script'[b][e] # <<>>
      PROVE  HandleInv'
  <2> SUFFICES ASSUME NEW e \in Slots PROVE HandleSlot(e)'
    BY DEF HandleInv
  <2>1. HandleSlot(e) /\ (MonitorBusy(e)' <=> MonitorBusy(e))
    BY <1>2 DEF HandleInv, MonitorBusy
  <2>2. plugs' \in [Units -> 0 .. MaxPlugs] /\ \A u \in Units : plugs[u] <= plugs'[u]
    BY <1>1, <1>2, MaxPlugsAssumption
  <2> QED
    BY <1>1, <1>2, <2>1, <2>2, HandleFrame
<1>3. \A b \in Clients, e \in Slots :
         inst[b][e] # None => inst[b][e] = handle[e] /\ script[b][e] # <<>>
  BY DEF HandleInv, HandleSlot
<1>4. CASE Connect(c) \/ Leave(c) \/ Gone(c) \/ runCommandTypo(c)
  <2>1. UNCHANGED <<table, script, inst, plugs, heap, monitor>>
    BY <1>4 DEF Connect, Leave, Gone, runCommandTypo, clients, world
  <2> QED
    BY <1>2, <1>3, <2>1 DEF table, monitor
<1>5. ASSUME NEW cmd \in Commands, NEW S \in SUBSET Slots, runCommand(c, cmd, S) PROVE HandleInv'
  <2>1. /\ UNCHANGED <<table, plugs, heap, monitor>>
        /\ script' = [script EXCEPT ![c] =
                    [d \in Slots |-> IF d \in S THEN <<Set("guard", cmd)>> ELSE <<>>]]
        /\ inst' = [inst EXCEPT ![c] = [d \in Slots |-> IF d \in S THEN handle[d] ELSE None]]
    BY <1>5 DEF runCommand, world
  <2>2. ASSUME NEW b \in Clients, NEW e \in Slots, inst'[b][e] # None
        PROVE  inst'[b][e] = handle[e] /\ script'[b][e] # <<>>
    <3>1. CASE b = c
      <4>1. inst'[b][e] = IF e \in S THEN handle[e] ELSE None
        BY <1>1, <2>1, <3>1
      <4>2. script'[b][e] = IF e \in S THEN <<Set("guard", cmd)>> ELSE <<>>
        BY <1>1, <2>1, <3>1 DEF ScriptInv
      <4> QED
        BY <2>2, <4>1, <4>2
    <3>2. CASE b # c
      <4>1. inst'[b][e] = inst[b][e] /\ script'[b][e] = script[b][e]
        BY <1>1, <2>1, <3>2 DEF ScriptInv
      <4> QED
        BY <1>3, <2>2, <4>1
    <3> QED
      BY <3>1, <3>2
  <2> QED
    BY <1>2, <2>1, <2>2 DEF table, monitor
<1>6. ASSUME NEW d \in Slots, NEW r, Proceed(c, d, r), script[c][d] # <<>>,
             NEW b \in Clients, NEW e \in Slots, inst'[b][e] # None
      PROVE  inst'[b][e] = handle[e] /\ script'[b][e] # <<>>
  <2>1. inst' = IF r = <<>> THEN [inst EXCEPT ![c][d] = None] ELSE inst
    BY <1>6 DEF Proceed
  <2>2. CASE b = c /\ e = d
    <3>1. r # <<>> /\ inst' = inst /\ script'[c][d] = r
      BY <1>1, <1>6, <2>1, <2>2, ProceedScripts
    <3> QED
      BY <1>3, <1>6, <2>2, <3>1
  <2>3. CASE b # c \/ e # d
    <3>1. inst'[b][e] = inst[b][e] /\ script'[b][e] = script[b][e]
      BY <1>1, <1>6, <2>1, <2>3, ProceedScripts
    <3> QED
      BY <1>3, <1>6, <3>1
  <2> QED
    BY <2>2, <2>3
<1>7. ASSUME NEW d \in Slots, Guard(c, d) PROVE HandleInv'
  <2>1. PICK r : r = runThread(c, d, Head(script[c][d]).to)
    OBVIOUS
  <2>2. script[c][d] # <<>> /\ Proceed(c, d, r) /\ UNCHANGED <<table, plugs, heap, monitor>>
    BY <1>7, <2>1 DEF Guard, world
  <2> QED
    BY <1>2, <1>6, <2>2 DEF table, monitor
<1>8. ASSUME NEW d \in Slots, ClientStep(c, d) PROVE HandleInv'
  <2>1. PICK s : s = script[c][d]
    OBVIOUS
  <2>2. PICK h : h = IF inst[c][d] = None THEN handle[d] ELSE inst[c][d]
    OBVIOUS
  <2>3. PICK r : r = Rest(s, d)
    OBVIOUS
  <2>4. s # <<>> /\ Operation(Head(s), d, h) /\ Proceed(c, d, r) /\ UNCHANGED monitor
    BY <1>8, <2>1, <2>2, <2>3 DEF ClientStep
  <2>5. UNCHANGED <<openDevices, handle, plugs, heap>>
    <3>1. Head(s).op \notin {"path", "forget", "close"}
      BY <2>1, <2>4, ClientOp, OperationFrame
    <3> QED
      BY <2>4, <3>1, OperationFrame, OperationHeap
  <2> QED
    BY <1>2, <1>6, <2>1, <2>4, <2>5 DEF monitor
<1>9. ASSUME NEW d \in Slots, CheckLock(c, d) PROVE HandleInv'
  <2>1. /\ UNCHANGED <<table, plugs, heap, monitor, inst>> /\ \A e \in Slots : script[c][e] = <<>>
        /\ script' = [script EXCEPT ![c][d] = IF lock[d] = c THEN CleanupScript ELSE <<>>]
    BY <1>9 DEF CheckLock, Idle, world
  <2>2. \A b \in Clients, e \in Slots : b # c => script'[b][e] = script[b][e]
    BY <1>1, <2>1 DEF ScriptInv
  <2> QED
    BY <1>2, <1>3, <2>1, <2>2 DEF table, monitor
<1> QED
  BY <1>4, <1>5, <1>7, <1>8, <1>9 DEF Client

\* An operation of monitorDevices on its own slot.
LEMMA MonitorHandleStep ==
    ASSUME TableTypes, NEW d \in Slots, HandleSlot(d), MonitorBusy(d),
           NEW s, s = mScript, NEW h, h = handle[d], Operation(Head(s), d, h), NEW r, r = Rest(s, d),
           mScript' = r, MonitorBusy(d)' <=> r # <<>>, \A c \in Clients : inst'[c][d] = None
    PROVE  HandleSlot(d)'
<1>1. /\ openDevices'[d] = IF Head(s).op = "path" THEN Head(s).to
                           ELSE IF Head(s).op = "forget" THEN NoPath ELSE openDevices[d]
      /\ handle' = handle /\ plugs' = plugs
      /\ heap' = IF Head(s).op = "close" THEN [heap EXCEPT ![h] = NoPath] ELSE heap
  BY EffectHere, OperationFrame, OperationHeap
<1>2. \A p : Happened(p)' <=> Happened(p)
  BY <1>1 DEF Happened
<1>3. \A p \in Paths : p # NoPath
  BY NoneAssumption DEF Paths, NoPath
<1>4. CASE s \in Removals
  <2>1. openDevices[d] # NoPath
    <3>1. ASSUME NEW p \in Paths, s = AddScript(p) PROVE FALSE
      BY <1>4, <3>1, Removing, AddBegins
    <3> QED
      BY <3>1 DEF HandleSlot
  <2>2. r = Tail(s)
    BY <1>4, Removing DEF Rest
  <2>3. Head(s).op # "path"
    BY <1>4, Removing
  <2>4. CASE Head(s).op = "forget"
    <3>1. ~MonitorBusy(d)' /\ openDevices'[d] = NoPath
      BY <1>1, <1>4, <2>2, <2>4, Removing
    <3> QED
      BY <3>1 DEF HandleSlot
  <2>5. CASE Head(s).op # "forget"
    <3>1. r \in Removals /\ openDevices'[d] = openDevices[d] /\ s # <<Do("forget")>>
      BY <1>1, <1>4, <2>2, <2>3, <2>5, Removing
    <3>2. \A p \in Paths : r # AddScript(p)
      BY <3>1, Removing, AddBegins
    <3>3. /\ handle[d] \in Handles /\ heap[handle[d]] = openDevices[d] /\ Happened(openDevices[d])
      BY <2>1, <3>1 DEF HandleSlot
    <3>4. CASE Head(s).op = "close"
      <4>1. r = <<Do("forget")>> /\ r # <<>>
        BY <1>4, <2>2, <3>4, Removing
      <4> QED
        BY <1>2, <2>1, <3>1, <3>2, <3>3, <4>1 DEF HandleSlot
    <3>5. CASE Head(s).op # "close"
      <4>1. heap' = heap
        BY <1>1, <3>5
      <4> QED
        BY <1>1, <1>2, <2>1, <3>1, <3>2, <3>3, <4>1 DEF HandleSlot
    <3> QED
      BY <3>4, <3>5
  <2> QED
    BY <2>4, <2>5
<1>5. CASE s \in Fillings
  <2>1. /\ openDevices[d] # NoPath
    <3>1. ASSUME NEW p \in Paths, s = AddScript(p) PROVE FALSE
      BY <1>5, <3>1, Filling, AddBegins
    <3> QED
      BY <3>1 DEF HandleSlot
  <2>2. Head(s).op \in {"identify", "start", "status", "clear", "lock", "added"} /\ s # <<Do("forget")>>
    <3>1. Head(s).op \in {"identify", "start", "status", "clear", "lock", "added"}
      BY <1>5, Filling
    <3> QED
      BY <3>1, Fields
  <2>7. r = Tail(s)
    BY <2>2 DEF Rest
  <2>3. openDevices'[d] = openDevices[d] /\ heap' = heap
    BY <1>1, <2>2
  <2>4. MonitorBusy(d)' => r \in Fillings
    BY <1>5, <2>7, Filling
  <2>5. \A p \in Paths : MonitorBusy(d)' => r # AddScript(p)
    BY <2>4, Filling, AddBegins
  <2>6. handle[d] \in Handles /\ heap[handle[d]] = openDevices[d] /\ Happened(openDevices[d])
    BY <2>1, <2>2 DEF HandleSlot
  <2> QED
    BY <1>1, <1>2, <2>1, <2>3, <2>4, <2>5, <2>6 DEF HandleSlot
<1>6. ASSUME NEW p \in Paths, s = AddScript(p) PROVE HandleSlot(d)'
  <2>1. r \in Fillings /\ openDevices'[d] = p /\ heap' = heap
    BY <1>1, <1>6, AddBegins DEF Rest
  <2>2. handle[d] \in Handles /\ heap[handle[d]] = p /\ Happened(p)
    BY <1>6 DEF HandleSlot
  <2>3. \A q \in Paths : r # AddScript(q)
    BY <2>1, Filling, AddBegins
  <2> QED
    BY <1>1, <1>2, <1>3, <2>1, <2>2, <2>3 DEF HandleSlot
<1> QED
  BY <1>4, <1>5, <1>6 DEF HandleSlot

\* A removal closes a handle that no other slot has, and a new unit gets one that is free.
LEMMA MonitorHandles ==
    ASSUME Overlaps \subseteq {"notifier"}, TypeInv, UniqueOpen, TurnsInv, HandleInv, Monitor
    PROVE  HandleInv'
<1> SUFFICES ASSUME NEW e \in Slots PROVE HandleSlot(e)'
  BY DEF HandleInv
<1>1. /\ TableTypes /\ HandleSlot(e) /\ mI \in Slots
      /\ openDevices \in [Slots -> Paths \cup {NoPath}] /\ plugs \in [Units -> 0 .. MaxPlugs]
      /\ \A d \in Slots : SlotInv(d)
  BY AllTypes DEF TypeInv, TypeOK, WorldInv, HandleInv, TurnsInv
<1>2. \A c \in Clients : inst[c][e] # None => inst[c][e] = handle[e] /\ script[c][e] # <<>>
  BY DEF HandleInv, HandleSlot
<1>3. /\ \A u \in Units : plugs[u] <= plugs[u]
      /\ \A p \in Paths : p # NoPath
  BY <1>1, MaxPlugsAssumption, NoneAssumption DEF Paths, NoPath
<1>4. UNCHANGED <<plugs, script, inst>>
  <2>1. CASE MonitorStep
    BY <2>1, OperationFrame DEF MonitorStep, clients
  <2>2. CASE ~MonitorStep
    BY <2>2 DEF Monitor, Enumerate, Keep, Remove, Pass, Add, clients, world
  <2> QED
    BY <2>1, <2>2
<1>5. CASE Enumerate \/ Keep
  <2>1. UNCHANGED <<openDevices, handle, heap>> /\ mScript = <<>> /\ mScript' = <<>>
    BY <1>5 DEF Enumerate, Keep, AtSlot, table, TypeInv, MonitorInv
  <2>2. ~MonitorBusy(e) /\ ~MonitorBusy(e)'
    BY <2>1 DEF MonitorBusy
  <2> QED
    BY <1>1, <1>2, <1>3, <1>4, <2>1, <2>2, HandleFrame
<1>6. CASE Pass
  <2>1. /\ UNCHANGED <<openDevices, heap>> /\ mScript = <<>> /\ mScript' = <<>>
        /\ handle' = handle \/ (openDevices[mI] = NoPath /\ handle' = [handle EXCEPT ![mI] = None])
    BY <1>6 DEF Pass, AtSlot
  <2>2. ~MonitorBusy(e) /\ ~MonitorBusy(e)'
    BY <2>1 DEF MonitorBusy
  <2>3. openDevices[e] # NoPath => handle'[e] = handle[e]
    BY <1>1, <2>1 DEF TableTypes
  <2>4. \A c \in Clients : inst'[c][e] # None => inst'[c][e] = handle'[e] /\ script'[c][e] # <<>>
    BY <1>4, <2>3, WithHandle
  <2> QED
    BY <1>1, <1>3, <1>4, <2>1, <2>2, <2>3, <2>4, HandleFrame
<1>7. ASSUME mScript = <<>>, e # mI, UNCHANGED <<openDevices, mI>>, handle'[e] = handle[e],
             \A h \in Handles : heap[h] # NoPath => heap'[h] = heap[h]
      PROVE  HandleSlot(e)'
  <2>1. ~MonitorBusy(e) /\ ~MonitorBusy(e)'
    BY <1>7 DEF MonitorBusy
  <2> QED
    BY <1>1, <1>2, <1>3, <1>4, <1>7, <2>1, HandleFrame
<1>8. CASE Remove
  <2>1. /\ UNCHANGED <<openDevices, handle, heap, mI>> /\ mScript = <<>>
        /\ openDevices[mI] # NoPath /\ mScript' = RemoveScript
    BY <1>8 DEF Remove, AtSlot, table
  <2>2. CASE e = mI
    <3>1. /\ Happened(openDevices[e]) /\ handle[e] \in Handles /\ heap[handle[e]] = openDevices[e]
      BY <1>1, <2>1, <2>2 DEF HandleSlot, MonitorBusy
    <3>2. RemoveScript \in Removals
      BY DEF Removals
    <3>3. \A p \in Paths : RemoveScript # AddScript(p)
      BY <3>2, Removing, AddBegins
    <3> QED
      BY <1>2, <1>4, <2>1, <2>2, <3>1, <3>2, <3>3 DEF HandleSlot, Happened
  <2> QED
    BY <1>7, <2>1, <2>2
<1>9. ASSUME NEW p \in Paths, Add(p) PROVE HandleSlot(e)'
  <2>1. /\ UNCHANGED <<openDevices, mI>> /\ mScript = <<>> /\ openDevices[mI] = NoPath /\ Alive(p)
        /\ mScript' = AddScript(p)
    BY <1>9 DEF Add, AtSlot
  <2>2. PICK h \in Handles : heap[h] = NoPath /\ heap' = [heap EXCEPT ![h] = p]
                             /\ handle' = [handle EXCEPT ![mI] = h]
    BY <1>9 DEF Add
  <2>3. CASE e = mI
    <3>1. handle'[e] = h /\ heap'[h] = p
      BY <1>1, <2>2, <2>3 DEF TableTypes
    <3>2. Happened(p)
      <4>1. plugs[p[1]] = p[2] /\ p[2] \in 1 .. MaxPlugs
        BY <2>1 DEF Alive, Paths
      <4> QED
        BY <4>1, MaxPlugsAssumption DEF Happened
    <3>3. \A q \in Paths : AddScript(q) = AddScript(p) => q = p
      BY AddBegins
    <3>4. \A c \in Clients : inst[c][e] = None
      BY <2>1, <2>3, WithHandle
    <3> QED
      BY <1>4, <2>1, <2>3, <3>1, <3>2, <3>3, <3>4 DEF HandleSlot, Happened
  <2>4. CASE e # mI
    <3>1. handle'[e] = handle[e] /\ \A g \in Handles : heap[g] # NoPath => heap'[g] = heap[g]
      BY <1>1, <2>2, <2>4 DEF TableTypes
    <3> QED
      BY <1>7, <2>1, <2>4, <3>1
  <2> QED
    BY <2>3, <2>4
<1>10. CASE MonitorStep
  <2>1. PICK s : s = mScript
    OBVIOUS
  <2>2. PICK d \in Slots : d = mI
    BY <1>1
  <2>3. PICK r : r = Rest(s, d)
    OBVIOUS
  <2>4. PICK h : h = handle[d]
    OBVIOUS
  <2>5. s # <<>> /\ Operation(Head(s), d, h) /\ mScript' = r /\ (r # <<>> => mI' = d)
    BY <1>10, <2>1, <2>2, <2>3, <2>4 DEF MonitorStep
  <2>6. MonitorBusy(d) /\ (MonitorBusy(d)' <=> r # <<>>) /\ HandleSlot(d)
    BY <2>1, <2>2, <2>5 DEF MonitorBusy, HandleInv
  <2>7. CASE e = d
    <3>1. \A c \in Clients : script[c][d] = <<>>
      BY <1>1, <2>6 DEF SlotInv
    <3>2. \A c \in Clients : inst'[c][d] = None
      BY <1>2, <1>4, <2>7, <3>1
    <3>3. HandleSlot(d)'
      <4>1. Operation(Head(s), d, h) /\ mScript' = r
        BY <2>5
      <4> QED
        BY <1>1, <2>1, <2>3, <2>4, <2>6, <3>2, <4>1, MonitorHandleStep
    <3> QED
      BY <2>7, <3>3
  <2>8. CASE e # d
    <3>1. openDevices'[e] = openDevices[e] /\ handle' = handle
      BY <1>1, <2>5, <2>8, EffectElsewhere, OperationFrame
    <3>2. ~MonitorBusy(e) /\ ~MonitorBusy(e)'
      BY <2>2, <2>5, <2>8 DEF MonitorBusy
    <3>3. ASSUME openDevices[e] # NoPath PROVE heap'[handle[e]] = heap[handle[e]]
      <4>1. handle[e] \in Handles /\ heap[handle[e]] = openDevices[e]
        BY <1>1, <3>2, <3>3 DEF HandleSlot
      <4>2. CASE Head(s).op # "close"
        BY <2>5, <4>2, OperationHeap
      <4>3. CASE Head(s).op = "close"
        <5>1. s \in Removals
          <6>1. ASSUME NEW p \in Paths, s = AddScript(p) PROVE FALSE
            BY <4>3, <6>1, AddBegins
          <6>2. s \notin Fillings
            BY <4>3, Filling
          <6> QED
            BY <2>1, <2>6, <6>1, <6>2 DEF HandleSlot
        <5>2. s # <<Do("forget")>>
          BY <4>3, <5>1, Removing
        <5>3. openDevices[d] # NoPath
          <6>1. ASSUME NEW p \in Paths, s = AddScript(p) PROVE FALSE
            BY <4>3, <6>1, AddBegins
          <6> QED
            BY <2>1, <2>6, <6>1 DEF HandleSlot
        <5>4. handle[d] \in Handles /\ heap[handle[d]] = openDevices[d]
          BY <2>1, <2>6, <5>2, <5>3 DEF HandleSlot
        <5>5. handle[d] # handle[e]
          BY <2>8, <4>1, <5>3, <5>4 DEF UniqueOpen
        <5>6. heap' = [heap EXCEPT ![h] = NoPath]
          BY <2>5, <4>3, OperationHeap
        <5> QED
          BY <1>1, <2>4, <4>1, <5>5, <5>6 DEF TableTypes
      <4> QED
        BY <4>2, <4>3
    <3> QED
      BY <1>1, <1>2, <1>3, <1>4, <3>1, <3>2, <3>3, HandleFrame
  <2> QED
    BY <2>7, <2>8
<1> QED
  BY <1>5, <1>6, <1>8, <1>9, <1>10 DEF Monitor

\* Every step keeps the handles.
LEMMA HandleStep ==
    ASSUME Overlaps \subseteq {"notifier"}, IndInv, TurnsInv, HandleInv, [Next]_vars
    PROVE  HandleInv'
<1>1. /\ TypeInv /\ UniqueOpen
      /\ openDevices \in [Slots -> Paths \cup {NoPath}] /\ plugs \in [Units -> 0 .. MaxPlugs]
  BY DEF IndInv, TypeInv, TypeOK, WorldInv
<1>2. ASSUME UNCHANGED <<openDevices, handle, heap, script, inst, mI, mScript>>,
             plugs' \in [Units -> 0 .. MaxPlugs], \A u \in Units : plugs[u] <= plugs'[u]
      PROVE  HandleInv'
  <2> SUFFICES ASSUME NEW e \in Slots PROVE HandleSlot(e)'
    BY DEF HandleInv
  <2>1. HandleSlot(e) /\ (MonitorBusy(e)' <=> MonitorBusy(e))
    BY <1>2 DEF HandleInv, MonitorBusy
  <2>2. \A c \in Clients : inst'[c][e] # None => inst'[c][e] = handle'[e] /\ script'[c][e] # <<>>
    BY <1>2, <2>1 DEF HandleSlot
  <2> QED
    BY <1>1, <1>2, <2>1, <2>2, HandleFrame
<1>3. \A u \in Units : plugs[u] \in Nat /\ plugs[u] <= plugs[u]
  BY <1>1, MaxPlugsAssumption
<1>4. CASE UNCHANGED vars \/ Notifier
  <2>1. UNCHANGED <<openDevices, handle, heap, script, inst, mI, mScript, plugs>>
    BY <1>4 DEF vars, table, clients, monitor, world, Notifier, SendUpdate, ClearUpdate
  <2> QED
    BY <1>1, <1>2, <1>3, <2>1
<1>5. ASSUME NEW u \in Units, Plug(u) \/ Unplug(u) PROVE HandleInv'
  <2>1. UNCHANGED <<openDevices, handle, heap, script, inst, mI, mScript>>
    BY <1>5 DEF Plug, Unplug, table, clients, monitor
  <2>2. plugs' = plugs \/ (plugs' = [plugs EXCEPT ![u] = @ + 1] /\ plugs[u] < MaxPlugs)
    BY <1>5 DEF Plug, Unplug
  <2>3. plugs' \in [Units -> 0 .. MaxPlugs] /\ \A v \in Units : plugs[v] <= plugs'[v]
    BY <1>1, <1>3, <2>2, MaxPlugsAssumption
  <2> QED
    BY <1>2, <2>1, <2>3
<1> QED
  BY <1>1, <1>4, <1>5, ClientHandles, MonitorHandles DEF Next

LEMMA HandleInit == ASSUME Init PROVE HandleInv
<1> SUFFICES ASSUME NEW d \in Slots PROVE HandleSlot(d)
  BY DEF HandleInv
<1>1. /\ mScript = <<>> /\ openDevices[d] = NoPath /\ \A c \in Clients : inst[c][d] = None
  BY DEF Init
<1> QED
  BY <1>1 DEF HandleSlot, MonitorBusy

-----------------------------------------------------------------------------
(* What an operation does to the unit of its slot, and to the units of     *)
(* other slots.                                                            *)

\* Operation o is done to slot d, whose unit is there.
UnitStep(o, d) ==
    LET u == openDevices[d][1] IN
    /\ openDevices'[d] = openDevices[d]
    /\ status'[d] = IF o.op = "status" THEN o.to ELSE status[d]
    /\ brightness'[d] = IF o.op = "get" THEN saved[u]
                        ELSE IF o.op = "savedFromTemp" THEN tempBrightness[d] ELSE brightness[d]
    /\ saved'[u] = IF o.op = "put" THEN o.to ELSE IF o.op = "putSaved" THEN brightness[d] ELSE saved[u]
    /\ running'[u] = IF o.op = "start" THEN TRUE
                     ELSE IF o.op \in {"stop", "show"} THEN FALSE ELSE running[u]

LEMMA UnitHere ==
    ASSUME TableTypes, running \in [Units -> BOOLEAN], NEW d \in Slots, Alive(openDevices[d]),
           NEW h \in Handles, heap[h] = openDevices[d],
           NEW o, o.op \notin {"path", "forget", "identify"}, Operation(o, d, h)
    PROVE  UnitStep(o, d)
<1>1. /\ openDevices'[d] = openDevices[d]
      /\ status'[d] = IF o.op = "status" THEN o.to ELSE status[d]
  BY EffectHere
<1>2. PICK u : u = openDevices[d][1]
  OBVIOUS
<1>3. u \in Units /\ openDevices[d] # NoPath /\ h # None
  BY <1>2, NoneAssumption DEF Alive, TableTypes, Paths
<1>4. /\ brightness'[d] = IF o.op = "get" THEN saved[u]
                          ELSE IF o.op = "savedFromTemp" THEN tempBrightness[d] ELSE brightness[d]
      /\ saved'[u] = IF o.op = "put" THEN o.to ELSE IF o.op = "putSaved" THEN brightness[d] ELSE saved[u]
      /\ running'[u] = IF o.op = "start" THEN TRUE
                       ELSE IF o.op \in {"stop", "show"} THEN FALSE ELSE running[u]
  <2>1. CASE TableOp(o, d)
    <3>1. saved' = saved /\ running' = running /\ o.op \in TableOps
      BY <2>1 DEF TableOp, world
    <3>2. brightness'[d] = IF o.op = "savedFromTemp" THEN tempBrightness[d] ELSE brightness[d]
      BY <2>1 DEF TableOp, TableTypes
    <3> QED
      BY <3>1, <3>2 DEF TableOps
  <2>2. CASE HidOp(o, d, h)
    <3>1. o.op \in {"start", "stop", "show", "touch", "put", "putSaved", "get"}
      BY <2>2 DEF HidOp
    <3>2. running' = IF o.op \in {"start", "stop", "show"}
                     THEN [running EXCEPT ![u] = o.op = "start"] ELSE running
      BY <1>2, <1>3, <2>2 DEF HidOp
    <3>3. saved' = IF o.op = "put" THEN [saved EXCEPT ![u] = o.to]
                   ELSE IF o.op = "putSaved" THEN [saved EXCEPT ![u] = brightness[d]] ELSE saved
      BY <1>2, <1>3, <2>2 DEF HidOp
    <3>4. \E v \in {saved[u]} : brightness' = IF o.op = "get" THEN [brightness EXCEPT ![d] = v] ELSE brightness
      BY <1>2, <1>3, <2>2, <3>1 DEF HidOp
    <3>5. /\ saved'[u] = IF o.op = "put" THEN o.to ELSE IF o.op = "putSaved" THEN brightness[d] ELSE saved[u]
          /\ brightness'[d] = IF o.op = "get" THEN saved[u] ELSE brightness[d]
      BY <1>3, <3>1, <3>3, <3>4 DEF TableTypes
    <3>6. running'[u] = IF o.op = "start" THEN TRUE
                        ELSE IF o.op \in {"stop", "show"} THEN FALSE ELSE running[u]
      <4>1. CASE o.op = "start"
        BY <1>3, <3>2, <4>1
      <4>2. CASE o.op \in {"stop", "show"}
        BY <1>3, <3>2, <4>2
      <4>3. CASE o.op \notin {"start", "stop", "show"}
        BY <3>2, <4>3
      <4> QED
        BY <4>1, <4>2, <4>3
    <3> QED
      BY <3>1, <3>5, <3>6
  <2>3. CASE CloseOp(o, d, h)
    <3>1. brightness' = brightness /\ saved' = saved /\ running' = running /\ o.op = "close"
      BY <2>3 DEF CloseOp, table, world
    <3> QED
      BY <3>1
  <2> QED
    BY <2>1, <2>2, <2>3 DEF Operation
<1> QED
  BY <1>1, <1>2, <1>4 DEF UnitStep

\* A unit that is there is only reached by a handle that is open on it.
LEMMA UnitElsewhere ==
    ASSUME TableTypes, running \in [Units -> BOOLEAN], NEW d \in Slots, NEW e \in Slots, e # d,
           NEW o, NEW h \in Handles \cup {None}, Operation(o, d, h), Alive(openDevices[e]),
           o.op \in TableOps \cup {"close"} \/ h \notin Handles \/ heap[h] # openDevices[e]
    PROVE  /\ openDevices'[e] = openDevices[e] /\ status'[e] = status[e] /\ brightness'[e] = brightness[e]
           /\ saved'[openDevices[e][1]] = saved[openDevices[e][1]]
           /\ running'[openDevices[e][1]] = running[openDevices[e][1]]
<1>1. openDevices'[e] = openDevices[e] /\ status'[e] = status[e]
  BY EffectElsewhere
<1>2. brightness'[e] = brightness[e]
  <2>1. CASE TableOp(o, d)
    BY <2>1 DEF TableOp, TableTypes
  <2>2. CASE HidOp(o, d, h)
    BY <2>2 DEF HidOp, TableTypes
  <2>3. CASE CloseOp(o, d, h)
    BY <2>3 DEF CloseOp, table
  <2> QED
    BY <2>1, <2>2, <2>3 DEF Operation
<1>3. PICK v : v = openDevices[e][1]
  OBVIOUS
<1>4. saved'[v] = saved[v] /\ running'[v] = running[v]
  <2>1. CASE TableOp(o, d) \/ CloseOp(o, d, h)
    BY <2>1 DEF TableOp, CloseOp, world
  <2>2. CASE HidOp(o, d, h)
    <3>1. h = None \/ (h \in Handles /\ heap[h] # openDevices[e])
      BY <2>2 DEF HidOp, TableOps
    <3>2. PICK p : p = IF h = None THEN NoPath ELSE heap[h]
      OBVIOUS
    <3>3. /\ saved' = saved \/ (Alive(p) /\ \E x : saved' = [saved EXCEPT ![p[1]] = x])
          /\ running' = running \/ (Alive(p) /\ \E x : running' = [running EXCEPT ![p[1]] = x])
      BY <2>2, <3>2 DEF HidOp
    <3>4. ASSUME Alive(p) PROVE p[1] # v
      <4>1. p \in Paths /\ openDevices[e] \in Paths /\ p # openDevices[e]
        BY <3>1, <3>2, <3>4 DEF TableTypes, Alive
      <4>2. p = <<p[1], p[2]>> /\ openDevices[e] = <<v, openDevices[e][2]>>
        BY <1>3, <4>1 DEF Paths
      <4>3. plugs[p[1]] = p[2] /\ plugs[v] = openDevices[e][2]
        BY <1>3, <3>4 DEF Alive
      <4> QED
        BY <4>1, <4>2, <4>3
    <3>5. ASSUME NEW S, NEW f \in [Units -> S], NEW x, NEW w, w # v PROVE [f EXCEPT ![w] = x][v] = f[v]
      <4>1. v \in Units
        BY <1>3 DEF Alive, TableTypes, Paths
      <4> QED
        BY <3>5, <4>1
    <3>6. saved \in [Units -> Levels \cup {0}]
      BY DEF TableTypes
    <3>7. saved'[v] = saved[v]
      <4>1. CASE saved' = saved
        BY <4>1
      <4>2. ASSUME Alive(p), NEW x, saved' = [saved EXCEPT ![p[1]] = x] PROVE saved'[v] = saved[v]
        BY <3>4, <3>5, <3>6, <4>2
      <4> QED
        BY <3>3, <4>1, <4>2
    <3>8. running'[v] = running[v]
      <4>1. CASE running' = running
        BY <4>1
      <4>2. ASSUME Alive(p), NEW x, running' = [running EXCEPT ![p[1]] = x] PROVE running'[v] = running[v]
        BY <3>4, <3>5, <4>2
      <4> QED
        BY <3>3, <4>1, <4>2
    <3> QED
      BY <3>7, <3>8
  <2> QED
    BY <2>1, <2>2 DEF Operation
<1> QED
  BY <1>1, <1>2, <1>3, <1>4

-----------------------------------------------------------------------------
(* A step of a script, and what the script still does to the unit.         *)

\* Trees of scripts.
LEMMA Trees ==
    ASSUME NEW S
    PROVE  /\ S \subseteq Level(S) /\ Level(S) \subseteq Tree(S)
           /\ \A q \in {"status", "temp", "saved", "same"}, x \in Statuses \cup Levels \cup {None} :
                 /\ \A r, t \in Seq(S) : If(q, x, r, t) \in Level(S)
                 /\ \A r, t \in Seq(Level(S)) : If(q, x, r, t) \in Tree(S)
           /\ \A s : (s \in Seq(S) => s \in Seq(Level(S)) /\ s \in Seq(Tree(S)))
                     /\ (s \in Seq(Level(S)) => s \in Seq(Tree(S)))
<1>1. S \subseteq Level(S) /\ Level(S) \subseteq Tree(S)
  BY DEF Level, Tree
<1>2. ASSUME NEW T, NEW q \in {"status", "temp", "saved", "same"},
             NEW x \in Statuses \cup Levels \cup {None}, NEW r \in Seq(T), NEW t \in Seq(T)
      PROVE  If(q, x, r, t) \in Level(T)
  BY DEF If, Branch, Level
<1>3. \A s : (s \in Seq(S) => s \in Seq(Level(S)) /\ s \in Seq(Tree(S)))
             /\ (s \in Seq(Level(S)) => s \in Seq(Tree(S)))
  BY <1>1, Wider
<1> QED
  BY <1>1, <1>2, <1>3 DEF Tree

\* The first operation of such a script, and the rest.
LEMMA TreeStep ==
    ASSUME NEW S, NEW s \in Seq(Tree(S)), s # <<>>, NEW d
    PROVE  /\ Tail(s) \in Seq(Tree(S))
           /\ Head(s) \notin S => /\ Head(s).op = "if" /\ Rest(s, d) \in Seq(Tree(S))
                                 /\ Head(s).yes \in Seq(Tree(S)) /\ Head(s).no \in Seq(Tree(S))
           /\ Head(s).op # "if" => Rest(s, d) = Tail(s)
<1>1. Head(s) \in Tree(S) /\ Tail(s) \in Seq(Tree(S))
  BY HeadTailProperties
<1>2. Head(s).op # "if" => Rest(s, d) = Tail(s)
  BY DEF Rest
<1>3. ASSUME Head(s) \notin S
      PROVE  Head(s).op = "if" /\ Head(s).yes \in Seq(Tree(S)) /\ Head(s).no \in Seq(Tree(S))
  <2>1. PICK o : o = Head(s)
    OBVIOUS
  <2>2. o \in Branch(S) \/ o \in Branch(Level(S))
    BY <1>1, <1>3, <2>1 DEF Tree, Level
  <2>3. CASE o \in Branch(S)
    <3>1. o.op = "if" /\ o.yes \in Seq(S) /\ o.no \in Seq(S)
      BY <2>3 DEF Branch
    <3> QED
      BY <2>1, <3>1, Trees
  <2>4. CASE o \in Branch(Level(S))
    <3>1. o.op = "if" /\ o.yes \in Seq(Level(S)) /\ o.no \in Seq(Level(S))
      BY <2>4 DEF Branch
    <3> QED
      BY <2>1, <3>1, Trees
  <2> QED
    BY <2>2, <2>3, <2>4
<1>4. ASSUME Head(s) \notin S PROVE Rest(s, d) \in Seq(Tree(S))
  <2>1. PICK b : b = IF Holds(Head(s), d) THEN Head(s).yes ELSE Head(s).no
    OBVIOUS
  <2>2. Rest(s, d) = b \o Tail(s) /\ b \in Seq(Tree(S))
    BY <1>3, <1>4, <2>1 DEF Rest
  <2> QED
    BY <1>1, <2>2, ConcatProperties
<1>5. CASE Head(s) \in S
  BY <1>1, <1>2, <1>5
<1>6. CASE Head(s) \notin S
  <2>1. Head(s).op = "if" /\ Head(s).yes \in Seq(Tree(S)) /\ Head(s).no \in Seq(Tree(S))
    BY <1>3, <1>6
  <2> QED
    BY <1>1, <1>2, <1>4, <1>6, <2>1
<1> QED
  BY <1>5, <1>6

\* A script that begins with a look at the table.
LEMMA LookStep ==
    ASSUME NEW d, NEW q, NEW x, NEW yes, NEW no, yes \o <<>> = yes, no \o <<>> = no
    PROVE  /\ <<If(q, x, yes, no)>> # <<>> /\ Head(<<If(q, x, yes, no)>>).op = "if"
           /\ Rest(<<If(q, x, yes, no)>>, d) = IF Holds(If(q, x, yes, no), d) THEN yes ELSE no
<1>1. If(q, x, yes, no).op = "if" /\ If(q, x, yes, no).yes = yes /\ If(q, x, yes, no).no = no
  BY DEF If
<1>3. Head(<<If(q, x, yes, no)>>) = If(q, x, yes, no) /\ Tail(<<If(q, x, yes, no)>>) = <<>>
  OBVIOUS
<1> QED
  BY <1>1, <1>3 DEF Rest

\* Short scripts that keep the brightness.
LEMMA KeepingScripts ==
    /\ <<>> \in Seq(Keeping)
    /\ <<Notify("BRIGHTNESS")>> \in Seq(Keeping)
    /\ Tail(GetScript) \in Seq(Keeping)
<1> DEFINE K == KeepBase
           T == Keeping
<1>1. /\ Do("tempFromSaved") \in K /\ Do("show") \in K
      /\ Notify("BRIGHTNESS") \in K /\ Notify("TEMP_BRIGHTNESS") \in K
  BY DEF Do, Notify, Set, KeepBase, Base, Flags
<1>2. /\ K \subseteq T
      /\ \A q \in {"status", "temp", "saved", "same"}, x \in Statuses \cup Levels \cup {None} :
            \A r, t \in Seq(K) : If(q, x, r, t) \in T
  BY Trees DEF Keeping
<1>3. "IDLE" \in Statuses \cup Levels \cup {None} /\ None \in Statuses \cup Levels \cup {None}
  BY DEF Statuses
<1>4. <<>> \in Seq(K) /\ <<Do("show")>> \in Seq(K) /\ <<Notify("TEMP_BRIGHTNESS"), Do("tempFromSaved")>> \in Seq(K)
  BY <1>1, Short
<1> HIDE DEF K, T
<1>5. If("same", None, <<>>, <<Notify("TEMP_BRIGHTNESS"), Do("tempFromSaved")>>) \in T
  BY <1>2, <1>3, <1>4
<1>6. ShowIfIdle \in T
  BY <1>2, <1>3, <1>4 DEF ShowIfIdle, When
<1>7. Tail(GetScript) = <<Notify("BRIGHTNESS"),
               If("same", None, <<>>, <<Notify("TEMP_BRIGHTNESS"), Do("tempFromSaved")>>), ShowIfIdle>>
  BY DEF GetScript
<1>8. Notify("BRIGHTNESS") \in T
  BY <1>1, <1>2
<1>9. <<Notify("BRIGHTNESS"),
               If("same", None, <<>>, <<Notify("TEMP_BRIGHTNESS"), Do("tempFromSaved")>>), ShowIfIdle>> \in Seq(T)
  BY <1>5, <1>6, <1>8, Short
<1>10. <<>> \in Seq(T) /\ <<Notify("BRIGHTNESS")>> \in Seq(T)
  BY <1>8, Short
<1> QED
  BY <1>7, <1>9, <1>10 DEF T

\* What saves the brightness still does, or has.
LEMMA SavesStep ==
    ASSUME NEW d, NEW s, s # <<>>, Head(s).op # "guard", Saves(d, s), UnitStep(Head(s), d),
           NEW r, r = Rest(s, d)
    PROVE  Saves(d, r)'
<1>1. PICK u : u = openDevices[d][1]
  OBVIOUS
<1>2. PICK o : o = Head(s)
  OBVIOUS
<1>3. /\ openDevices'[d] = openDevices[d]
      /\ brightness'[d] = IF o.op = "get" THEN saved[u]
                          ELSE IF o.op = "savedFromTemp" THEN tempBrightness[d] ELSE brightness[d]
      /\ saved'[u] = IF o.op = "put" THEN o.to ELSE IF o.op = "putSaved" THEN brightness[d] ELSE saved[u]
  BY <1>1, <1>2 DEF UnitStep
<1>4. SavedAgrees(d)' <=> brightness'[d] = saved'[u]
  BY <1>1, <1>3 DEF SavedAgrees
<1>5. ASSUME SavedAgrees(d), o.op \notin {"put", "savedFromTemp"} PROVE SavedAgrees(d)'
  <2>1. brightness[d] = saved[u]
    BY <1>1, <1>5 DEF SavedAgrees
  <2> QED
    BY <1>3, <1>4, <1>5, <2>1
<1>6. CASE SavedAgrees(d) /\ s \in Seq(Keeping)
  <2>1. ASSUME NEW b \in KeepBase PROVE b.op \notin {"if", "put", "savedFromTemp"}
    BY <2>1 DEF KeepBase, Base
  <2>2. o \in KeepBase \/ o.op = "if"
    BY <1>2, <1>6, TreeStep DEF Keeping
  <2>3. o.op \notin {"put", "savedFromTemp"}
    BY <2>1, <2>2
  <2>4. r \in Seq(Keeping)
    <3>1. CASE o \in KeepBase
      BY <1>2, <1>6, <2>1, <3>1, TreeStep DEF Keeping
    <3>2. CASE o \notin KeepBase
      BY <1>2, <1>6, <3>2, TreeStep DEF Keeping
    <3> QED
      BY <3>1, <3>2
  <2> QED
    BY <1>5, <1>6, <2>3, <2>4 DEF Saves
<1>7. CASE s \in Guards
  <2>1. PICK cmd \in Commands : s = <<Set("guard", cmd)>>
    BY <1>7 DEF Guards
  <2> QED
    BY <2>1, Fields
<1>8. CASE SavedAgrees(d) /\ s = SaveScript
  <2> DEFINE t == <<Do("savedFromTemp"), Do("putSaved"), Notify("BRIGHTNESS")>>
  <2>1. t \in Seq({Do("savedFromTemp"), Do("putSaved"), Notify("BRIGHTNESS")})
        /\ <<>> \in Seq({Do("savedFromTemp"), Do("putSaved"), Notify("BRIGHTNESS")})
    OBVIOUS
  <2>2. s = <<If("same", None, <<>>, t)>>
    BY <1>8 DEF SaveScript
  <2> HIDE DEF t
  <2>3. t \o <<>> = t /\ <<>> \o <<>> = <<>>
    BY <2>1, ConcatEmptySeq
  <2>4. /\ Head(<<If("same", None, <<>>, t)>>).op = "if"
        /\ Rest(<<If("same", None, <<>>, t)>>, d) \in {<<>>, t}
    BY <2>3, LookStep
  <2>5. o.op = "if" /\ r \in {<<>>, t}
    BY <1>2, <2>2, <2>4
  <2>6. SavedAgrees(d)'
    BY <1>5, <1>8, <2>5
  <2> QED
    BY <2>5, <2>6, KeepingScripts DEF Saves, t
<1>9. ASSUME SavedAgrees(d), NEW v \in Levels, s = BrightnessScript(v) PROVE Saves(d, r)'
  <2> DEFINE S == {Set("put", v), Do("get"), Notify("BRIGHTNESS"),
                   If("same", None, <<>>, <<Notify("TEMP_BRIGHTNESS"), Do("tempFromSaved")>>), ShowIfIdle}
  <2>1. PutScript(v) \in Seq(S) /\ <<>> \in Seq(S)
    BY Short DEF PutScript
  <2>2. s = <<If("saved", v, <<>>, PutScript(v))>>
    BY <1>9 DEF BrightnessScript, PutScript
  <2> HIDE DEF S
  <2>3. PutScript(v) \o <<>> = PutScript(v) /\ <<>> \o <<>> = <<>>
    BY <2>1, ConcatEmptySeq
  <2>4. /\ Head(<<If("saved", v, <<>>, PutScript(v))>>).op = "if"
        /\ Rest(<<If("saved", v, <<>>, PutScript(v))>>, d) \in {<<>>, PutScript(v)}
    BY <2>3, LookStep
  <2>5. o.op = "if" /\ r \in {<<>>, PutScript(v)}
    BY <1>2, <2>2, <2>4
  <2>6. SavedAgrees(d)'
    BY <1>5, <1>9, <2>5
  <2> QED
    BY <2>5, <2>6, KeepingScripts DEF Saves
<1>10. CASE s = <<Do("savedFromTemp"), Do("putSaved"), Notify("BRIGHTNESS")>>
  <2>1. o = Do("savedFromTemp") /\ r = <<Do("putSaved"), Notify("BRIGHTNESS")>>
    BY <1>2, <1>10, Fields DEF Rest
  <2> QED
    BY <2>1 DEF Saves
<1>11. CASE s = <<Do("putSaved"), Notify("BRIGHTNESS")>>
  <2>1. o.op = "putSaved" /\ r = <<Notify("BRIGHTNESS")>>
    BY <1>2, <1>11, Fields DEF Rest
  <2> QED
    BY <1>3, <1>4, <2>1, KeepingScripts DEF Saves
<1>12. CASE s = GetScript
  <2>1. o.op = "get" /\ r = Tail(GetScript)
    BY <1>2, <1>12, Fields DEF Rest, GetScript
  <2> QED
    BY <1>3, <1>4, <2>1, KeepingScripts DEF Saves
<1>13. ASSUME NEW v \in Levels, s = PutScript(v) PROVE Saves(d, r)'
  <2>1. o.op = "put" /\ r = Tail(PutScript(v))
    BY <1>2, <1>13, Fields DEF Rest, PutScript
  <2>2. Tail(PutScript(v)) = GetScript
    BY DEF PutScript, GetScript
  <2> QED
    BY <2>1, <2>2 DEF Saves
<1> QED
  BY <1>6, <1>7, <1>8, <1>9, <1>10, <1>11, <1>12, <1>13 DEF Saves

\* A unit that a script leaves at rest is left at rest by what remains of it.
LEMMA RestsStep ==
    ASSUME NEW d, NEW s, s # <<>>, Rests(d, s), UnitStep(Head(s), d), NEW r, r = Rest(s, d)
    PROVE  Rests(d, r)'
<1>1. PICK u : u = openDevices[d][1]
  OBVIOUS
<1>2. PICK o : o = Head(s)
  OBVIOUS
<1>3. /\ openDevices'[d] = openDevices[d]
      /\ status'[d] = IF o.op = "status" THEN o.to ELSE status[d]
      /\ running'[u] = IF o.op = "start" THEN TRUE
                       ELSE IF o.op \in {"stop", "show"} THEN FALSE ELSE running[u]
  BY <1>1, <1>2 DEF UnitStep
<1>4. s \in Seq(Restful)
  BY DEF Rests
<1>5. ASSUME NEW b \in RestBase PROVE b.op \notin {"if", "start"} /\ (b.op = "status" => b.to = "IDLE")
  BY <1>5 DEF RestBase, Base
<1>6. o \in RestBase \/ (o.op = "if" /\ o.yes \in Seq(Restful) /\ o.no \in Seq(Restful))
  BY <1>2, <1>4, TreeStep DEF Restful
<1>7. o.op # "start" /\ (o.op = "status" => o.to = "IDLE")
  BY <1>5, <1>6
<1>8. /\ r \in Seq(Restful) /\ Elements(s) = {o} \cup Elements(Tail(s))
      /\ Elements(Tail(s)) \subseteq Elements(r)
      /\ o.op = "if" => Elements(IF Holds(o, d) THEN o.yes ELSE o.no) \subseteq Elements(r)
  <2>1. o.op = "if" => o.yes \in Seq(Restful) /\ o.no \in Seq(Restful)
    BY <1>5, <1>6
  <2> QED
    BY <1>2, <1>4, <2>1, WhatIsLeft
<1>9. ~running'[u] \/ Do("stop") \in Elements(r) \/ Do("show") \in Elements(r)
  <2>1. CASE o.op \in {"stop", "show"}
    BY <1>3, <2>1
  <2>2. CASE o.op \notin {"stop", "show"}
    <3>1. running'[u] = running[u] /\ o # Do("stop") /\ o # Do("show")
      BY <1>3, <1>7, <2>2, Fields
    <3> QED
      BY <1>1, <1>8, <3>1 DEF Rests
  <2> QED
    BY <2>1, <2>2
<1>10. status'[d] = "IDLE" \/ Set("status", "IDLE") \in Elements(r) \/ BecomeIdle \in Elements(r)
  <2>1. CASE o.op = "status"
    BY <1>3, <1>7, <2>1
  <2>2. CASE o = BecomeIdle
    <3>1. o.op = "if" /\ o.q = "status" /\ o.arg = "IDLE" /\ o.no = Now("IDLE")
      BY <2>2 DEF BecomeIdle, If
    <3>2. Holds(o, d) <=> status[d] = "IDLE"
      BY <3>1 DEF Holds
    <3>3. Set("status", "IDLE") \in Elements(Now("IDLE"))
      BY FewElements DEF Now
    <3> QED
      BY <1>3, <1>8, <3>1, <3>2, <3>3
  <2>3. CASE o.op # "status" /\ o # BecomeIdle
    <3>1. status'[d] = status[d] /\ o # Set("status", "IDLE")
      BY <1>3, <2>3, Fields
    <3> QED
      BY <1>8, <2>3, <3>1 DEF Rests
  <2> QED
    BY <2>1, <2>2, <2>3
<1> QED
  BY <1>1, <1>3, <1>8, <1>9, <1>10 DEF Rests

\* The scripts that put a unit to rest.
LEMMA RestScripts ==
    /\ <<>> \in Seq(Restful) /\ <<Set("lock", None)>> \in Seq(Restful)
    /\ Release \in Seq(Restful) /\ CleanupScript \in Seq(Restful)
    /\ <<BecomeIdle, Do("show")>> \in Seq(Restful)
    /\ <<Do("stop"), Set("status", "IDLE"), Notify("STATUS")>> \in Seq(Restful)
<1> DEFINE R == RestBase
           T == Restful
<1>1. /\ Do("stop") \in R /\ Do("show") \in R /\ Set("status", "IDLE") \in R /\ Notify("STATUS") \in R
      /\ Set("lock", None) \in R
  BY DEF Do, Set, Notify, RestBase, Base, Flags
<1>2. /\ R \subseteq T
      /\ \A q \in {"status", "temp", "saved", "same"}, x \in Statuses \cup Levels \cup {None} :
            \A r, t \in Seq(R) : If(q, x, r, t) \in T
  BY Trees DEF Restful
<1>3. "IDLE" \in Statuses \cup Levels \cup {None}
  BY DEF Statuses
<1>4. <<>> \in Seq(R) /\ Now("IDLE") \in Seq(R)
  BY <1>1, Short DEF Now
<1> HIDE DEF R, T
<1>5. BecomeIdle \in T
  BY <1>2, <1>3, <1>4 DEF BecomeIdle
<1>6. Do("stop") \in T /\ Do("show") \in T /\ Set("status", "IDLE") \in T /\ Notify("STATUS") \in T
      /\ Set("lock", None) \in T
  BY <1>1, <1>2
<1>7. /\ <<Do("stop"), Set("status", "IDLE"), Notify("STATUS"), Set("lock", None)>> \in Seq(T)
      /\ <<Set("lock", None), Do("stop"), Set("status", "IDLE"), Notify("STATUS")>> \in Seq(T)
  BY <1>6
<1>8. /\ <<>> \in Seq(T) /\ <<Set("lock", None)>> \in Seq(T) /\ <<BecomeIdle, Do("show")>> \in Seq(T)
      /\ <<Do("stop"), Set("status", "IDLE"), Notify("STATUS")>> \in Seq(T)
  BY <1>5, <1>6, Short
<1> QED
  BY <1>7, <1>8, Written DEF T

\* They do.
LEMMA Resting ==
    ASSUME NEW d
    PROVE  /\ Rests(d, Release) /\ Rests(d, CleanupScript) /\ Rests(d, <<BecomeIdle, Do("show")>>)
           /\ Rests(d, <<Do("stop"), Set("status", "IDLE"), Notify("STATUS")>>)
<1>1. Do("stop") \in Elements(Release) /\ Set("status", "IDLE") \in Elements(Release)
  BY Written, FewElements
<1>2. Do("stop") \in Elements(CleanupScript) /\ Set("status", "IDLE") \in Elements(CleanupScript)
  BY Written, FewElements
<1>3. /\ BecomeIdle \in Elements(<<BecomeIdle, Do("show")>>)
      /\ Do("show") \in Elements(<<BecomeIdle, Do("show")>>)
  BY FewElements
<1>4. /\ Do("stop") \in Elements(<<Do("stop"), Set("status", "IDLE"), Notify("STATUS")>>)
      /\ Set("status", "IDLE") \in Elements(<<Do("stop"), Set("status", "IDLE"), Notify("STATUS")>>)
  BY FewElements
<1> QED
  BY <1>1, <1>2, <1>3, <1>4, RestScripts DEF Rests

\* Two short scripts, one after the other.
LEMMA Joined ==
    \A a, b, e : <<a>> \o <<b, e>> = <<a, b, e>> /\ <<>> \o <<b, e>> = <<b, e>>
<1>1. ASSUME NEW a, NEW b, NEW e PROVE <<a>> \o <<b, e>> = <<a, b, e>> /\ <<>> \o <<b, e>> = <<b, e>>
  <2> DEFINE S == {a, b, e}
  <2>1. <<a>> \in Seq(S) /\ <<b, e>> \in Seq(S) /\ <<a, b, e>> \in Seq(S)
    OBVIOUS
  <2>2. <<a>> \o <<b, e>> \in Seq(S) /\ Len(<<a>> \o <<b, e>>) = 3
        /\ \A i \in 1 .. 3 : (<<a>> \o <<b, e>>)[i] = IF i <= 1 THEN <<a>>[i] ELSE <<b, e>>[i - 1]
    BY <2>1, ConcatProperties
  <2>3. \A i \in 1 .. 3 : (<<a>> \o <<b, e>>)[i] = <<a, b, e>>[i]
    BY <2>2
  <2>4. <<>> \o <<b, e>> = <<b, e>>
    BY <2>1, ConcatEmptySeq
  <2> HIDE DEF S
  <2> QED
    BY <2>1, <2>2, <2>3, <2>4, SeqEqual
<1> QED
  BY <1>1

\* A unit that does what the table says, and a script that leaves a unit at rest and keeps
\* one that is not as it is.
LEMMA ActsEither ==
    ASSUME NEW d, StatusAgrees(d), NEW s \in Seq(Calm), s \in Seq(Restful) PROVE Acts(d, s)
<1>1. CASE status[d] = "IDLE"
  BY <1>1 DEF StatusAgrees, Rests, Acts
<1>2. CASE status[d] # "IDLE"
  BY <1>2 DEF Acts
<1> QED
  BY <1>1, <1>2

LEMMA CalmScripts ==
    /\ <<>> \in Seq(Calm) /\ <<Set("lock", None)>> \in Seq(Calm) /\ <<Notify("STATUS")>> \in Seq(Calm)
    /\ \A c \in Clients : <<Set("lock", c), Notify("STATUS")>> \in Seq(Calm)
<1>1. /\ Set("lock", None) \in CalmBase /\ Notify("STATUS") \in CalmBase
      /\ \A c \in Clients : Set("lock", c) \in CalmBase
  BY DEF Set, Notify, CalmBase, Base, Flags
<1>2. CalmBase \subseteq Calm
  BY Trees DEF Calm
<1> QED
  BY <1>1, <1>2, Short

\* With nothing left to do, the unit does what the table says.
LEMMA ActsEmpty ==
    ASSUME NEW d PROVE Acts(d, <<>>) <=> StatusAgrees(d)
<1>1. StatusAgrees(d) => Acts(d, <<>>)
  BY ActsEither, CalmScripts, RestScripts
<1>2. Rests(d, <<>>) => StatusAgrees(d)
  <2>1. Rests(d, <<>>) => ~running[openDevices[d][1]] /\ status[d] = "IDLE"
    BY FewElements DEF Rests
  <2> QED
    BY <2>1 DEF StatusAgrees
<1>3. /\ \A c : <<Set("status", "LOCK"), Set("lock", c), Notify("STATUS")>> # <<>>
      /\ <<Do("start"), Set("status", "PLAY"), Notify("STATUS")>> # <<>>
      /\ ColorQueryScript # <<>>
      /\ <<When("status", "PLAY", <<Do("start")>>), BecomeIdle, Do("show")>> # <<>>
      /\ <<Do("start"), BecomeIdle, Do("show")>> # <<>>
      /\ <<Set("status", "PLAY"), Notify("STATUS")>> # <<>>
  BY DEF ColorQueryScript
<1> QED
  BY <1>1, <1>2, <1>3 DEF Acts

\* What leaves the unit doing what the table says still does, or has.
LEMMA ActsStep ==
    ASSUME NEW d, running[openDevices[d][1]] \in BOOLEAN,
           NEW s, s # <<>>, Head(s).op # "guard", Acts(d, s), UnitStep(Head(s), d), NEW r, r = Rest(s, d)
    PROVE  Acts(d, r)'
<1>1. PICK u : u = openDevices[d][1]
  OBVIOUS
<1>2. PICK o : o = Head(s)
  OBVIOUS
<1>3. /\ openDevices'[d] = openDevices[d]
      /\ status'[d] = IF o.op = "status" THEN o.to ELSE status[d]
      /\ running'[u] = IF o.op = "start" THEN TRUE
                       ELSE IF o.op \in {"stop", "show"} THEN FALSE ELSE running[u]
  BY <1>1, <1>2 DEF UnitStep
<1>4. StatusAgrees(d)' <=> (status'[d] = "PLAY" => running'[u]) /\ (status'[d] = "IDLE" => ~running'[u])
  BY <1>1, <1>3 DEF StatusAgrees
<1>5. ASSUME StatusAgrees(d), o.op \notin {"status", "start", "stop", "show"} PROVE StatusAgrees(d)'
  <2>1. status'[d] = status[d] /\ running'[u] = running[u]
    BY <1>3, <1>5
  <2> QED
    BY <1>1, <1>4, <1>5, <2>1 DEF StatusAgrees
<1>6. ASSUME NEW t \in Seq(Calm), t \in Seq(Restful), StatusAgrees(d)' PROVE Acts(d, t)'
  <2>1. CASE status'[d] = "IDLE"
    <3>1. ~running'[openDevices'[d][1]]
      BY <1>1, <1>3, <1>4, <1>6, <2>1
    <3> QED
      BY <1>6, <2>1, <3>1 DEF Rests, Acts
  <2>2. CASE status'[d] # "IDLE"
    BY <1>6, <2>2 DEF Acts
  <2> QED
    BY <2>1, <2>2
<1>7. ASSUME NEW t, NEW e, Rests(e, t)' PROVE Acts(e, t)'
  BY <1>7 DEF Acts
<1>8. CASE s \in Guards
  <2>1. PICK cmd \in Commands : s = <<Set("guard", cmd)>>
    BY <1>8 DEF Guards
  <2> QED
    BY <2>1, Fields
<1>9. ASSUME StatusAgrees(d), NEW c \in Clients, s = LockScript(c) PROVE Acts(d, r)'
  <2> DEFINE t == <<Set("status", "LOCK"), Set("lock", c), Notify("STATUS")>>
  <2>1. t \o <<>> = t /\ <<>> \o <<>> = <<>>
    <3>1. t \in Seq({Set("status", "LOCK"), Set("lock", c), Notify("STATUS")})
      OBVIOUS
    <3> HIDE DEF t
    <3> QED
      BY <3>1, ConcatEmptySeq
  <2>2. s = <<If("status", "LOCK", <<>>, t)>>
    BY <1>9 DEF LockScript
  <2> HIDE DEF t
  <2>3. /\ Head(<<If("status", "LOCK", <<>>, t)>>).op = "if"
        /\ Rest(<<If("status", "LOCK", <<>>, t)>>, d) \in {<<>>, t}
    BY <2>1, LookStep
  <2>4. o.op = "if" /\ r \in {<<>>, t}
    BY <1>2, <2>2, <2>3
  <2>5. StatusAgrees(d)'
    BY <1>5, <1>9, <2>4
  <2>6. Acts(d, <<>>)'
    BY <1>6, <2>5, CalmScripts, RestScripts
  <2>7. Acts(d, t)'
    BY DEF Acts, t
  <2> QED
    BY <2>4, <2>6, <2>7
<1>10. ASSUME StatusAgrees(d), s \in {UnlockScript, ForceUnlockScript} PROVE Acts(d, r)'
  <2>1. /\ Release \o <<>> = Release /\ <<>> \o <<>> = <<>>
        /\ <<Set("lock", None)>> \o <<>> = <<Set("lock", None)>>
    BY RestScripts, ConcatEmptySeq
  <2>2. s = <<If("status", "LOCK", Release, <<>>)>> \/ s = <<If("status", "LOCK", Release, <<Set("lock", None)>>)>>
    BY <1>10 DEF UnlockScript, ForceUnlockScript, When
  <2>3. ASSUME NEW t, t \o <<>> = t, s = <<If("status", "LOCK", Release, t)>> PROVE o.op = "if" /\ r \in {Release, t}
    <3>1. /\ Head(<<If("status", "LOCK", Release, t)>>).op = "if"
          /\ Rest(<<If("status", "LOCK", Release, t)>>, d) \in {Release, t}
      BY <2>1, <2>3, LookStep
    <3> QED
      BY <1>2, <2>3, <3>1
  <2>4. o.op = "if" /\ r \in {Release, <<>>, <<Set("lock", None)>>}
    BY <2>1, <2>2, <2>3
  <2>5. StatusAgrees(d)'
    BY <1>5, <1>10, <2>4
  <2>6. Acts(d, <<>>)' /\ Acts(d, <<Set("lock", None)>>)'
    BY <1>6, <2>5, CalmScripts, RestScripts
  <2>7. Acts(d, Release)'
    <3>1. Do("stop") \in Elements(Release) /\ Set("status", "IDLE") \in Elements(Release)
      BY Written, FewElements
    <3> QED
      BY <3>1, RestScripts DEF Rests, Acts
  <2> QED
    BY <2>4, <2>6, <2>7
<1>11. CASE StatusAgrees(d) /\ status[d] # "IDLE" /\ s \in Seq(Calm)
  <2>1. ASSUME NEW b \in CalmBase, b # ShowIfIdle PROVE b.op \notin {"if", "status", "start", "stop", "show"}
    BY <2>1 DEF CalmBase, Base
  <2>2. ShowIfIdle.op = "if" /\ ShowIfIdle.q = "status" /\ ShowIfIdle.arg = "IDLE" /\ ShowIfIdle.no = <<>>
    BY DEF ShowIfIdle, When, If
  <2>3. o.op \notin {"status", "start", "stop", "show"}
    BY <1>2, <1>11, <2>1, <2>2, TreeStep DEF Calm
  <2>4. r \in Seq(Calm)
    <3>1. CASE o = ShowIfIdle
      <4>1. ~Holds(o, d)
        BY <1>11, <2>2, <3>1 DEF Holds
      <4>2. r = <<>> \o Tail(s) /\ Tail(s) \in Seq(Calm)
        BY <1>2, <1>11, <2>2, <3>1, <4>1, TreeStep DEF Rest, Calm
      <4> QED
        BY <4>2, ConcatEmptySeq
    <3>2. CASE o # ShowIfIdle /\ o \in CalmBase
      BY <1>2, <1>11, <2>1, <3>2, TreeStep DEF Calm
    <3>3. CASE o \notin CalmBase
      BY <1>2, <1>11, <3>3, TreeStep DEF Calm
    <3> QED
      BY <3>1, <3>2, <3>3
  <2>5. StatusAgrees(d)' /\ status'[d] # "IDLE"
    BY <1>3, <1>5, <1>11, <2>3
  <2> QED
    BY <2>4, <2>5 DEF Acts
<1>12. CASE Rests(d, s)
  BY <1>7, <1>12, RestsStep
<1>13. ASSUME NEW c \in Clients, s = <<Set("status", "LOCK"), Set("lock", c), Notify("STATUS")>> PROVE Acts(d, r)'
  <2>1. o.op = "status" /\ o.to = "LOCK" /\ r = <<Set("lock", c), Notify("STATUS")>>
    BY <1>2, <1>13, Fields DEF Rest
  <2>2. status'[d] = "LOCK" /\ StatusAgrees(d)'
    BY <1>3, <1>4, <2>1
  <2> QED
    BY <2>1, <2>2, CalmScripts DEF Acts
<1>14. CASE s = <<Do("start"), Set("status", "PLAY"), Notify("STATUS")>>
  <2>1. o.op = "start" /\ r = <<Set("status", "PLAY"), Notify("STATUS")>>
    BY <1>2, <1>14, Fields DEF Rest
  <2>2. running'[openDevices'[d][1]]
    BY <1>1, <1>3, <2>1
  <2> QED
    BY <2>1, <2>2 DEF Acts
<1>15. CASE running[openDevices[d][1]] /\ s = <<Set("status", "PLAY"), Notify("STATUS")>>
  <2>1. o.op = "status" /\ o.to = "PLAY" /\ r = <<Notify("STATUS")>>
    BY <1>2, <1>15, Fields DEF Rest
  <2>2. status'[d] = "PLAY" /\ StatusAgrees(d)'
    BY <1>1, <1>3, <1>4, <1>15, <2>1
  <2> QED
    BY <2>1, <2>2, CalmScripts DEF Acts
<1>16. Acts(d, <<BecomeIdle, Do("show")>>)'
  <2>1. /\ BecomeIdle \in Elements(<<BecomeIdle, Do("show")>>)
        /\ Do("show") \in Elements(<<BecomeIdle, Do("show")>>)
    BY FewElements
  <2> QED
    BY <2>1, RestScripts DEF Rests, Acts
<1>17. CASE s = ColorQueryScript
  <2>1. o.op = "show" /\ r = <<When("status", "PLAY", <<Do("start")>>), BecomeIdle, Do("show")>>
    BY <1>2, <1>17, Fields DEF Rest, ColorQueryScript
  <2> QED
    BY <2>1 DEF Acts
<1>18. CASE s = <<When("status", "PLAY", <<Do("start")>>), BecomeIdle, Do("show")>>
  <2>1. /\ o = When("status", "PLAY", <<Do("start")>>) /\ Tail(s) = <<BecomeIdle, Do("show")>>
    BY <1>2, <1>18
  <2>2. o.op = "if" /\ o.yes = <<Do("start")>> /\ o.no = <<>>
    BY <2>1 DEF When, If
  <2>3. /\ <<>> \o <<BecomeIdle, Do("show")>> = <<BecomeIdle, Do("show")>>
        /\ <<Do("start")>> \o <<BecomeIdle, Do("show")>> = <<Do("start"), BecomeIdle, Do("show")>>
    BY Joined
  <2>4. r \in {<<BecomeIdle, Do("show")>>, <<Do("start"), BecomeIdle, Do("show")>>}
    BY <1>2, <2>1, <2>2, <2>3 DEF Rest
  <2> QED
    BY <1>16, <2>4 DEF Acts
<1>19. CASE s = <<Do("start"), BecomeIdle, Do("show")>>
  <2>1. o.op = "start" /\ r = <<BecomeIdle, Do("show")>>
    BY <1>2, <1>19, Fields DEF Rest
  <2> QED
    BY <1>16, <2>1
<1> QED
  BY <1>8, <1>9, <1>10, <1>11, <1>12, <1>13, <1>14, <1>15, <1>17, <1>18, <1>19 DEF Acts

-----------------------------------------------------------------------------
(* What runThread begins.                                                  *)

\* Scripts that touch the shown brightness only.
LEMMA MildScripts ==
    ASSUME NEW S, \A x \in {"touch", "tempFromSaved"} : Do(x) \in S, \A x \in Flags : Notify(x) \in S,
           \A v \in Levels : Set("temp", v) \in S, ShowIfIdle \in Level(S)
    PROVE  /\ <<>> \in Seq(Tree(S)) /\ <<Do("touch")>> \in Seq(Tree(S))
           /\ NameScript \in Seq(Tree(S)) /\ ResetScript \in Seq(Tree(S))
           /\ \A v \in Levels : /\ TempScript(v) \in Seq(Tree(S))
                                /\ <<If("temp", v, <<>>, NewTemp(v))>> \in Seq(Tree(S))
<1> DEFINE N == Level(S)
           T == Tree(S)
<1>1. /\ S \subseteq N /\ N \subseteq T
      /\ \A q \in {"status", "temp", "saved", "same"}, x \in Statuses \cup Levels \cup {None} :
            \A r, t \in Seq(N) : If(q, x, r, t) \in T
      /\ \A s \in Seq(S) : s \in Seq(N)
  BY Trees
<1>2. /\ Do("touch") \in S /\ Do("tempFromSaved") \in S
      /\ Notify("NAME") \in S /\ Notify("BRIGHTNESS") \in S /\ Notify("TEMP_BRIGHTNESS") \in S
  BY DEF Flags
<1>3. ShowIfIdle \in N
  OBVIOUS
<1> HIDE DEF N, T
<1>4. <<>> \in Seq(N) /\ <<Do("tempFromSaved"), Notify("TEMP_BRIGHTNESS")>> \in Seq(N)
      /\ \A v \in Levels : NewTemp(v) \in Seq(N)
  BY <1>1, <1>2, Short DEF NewTemp
<1>5. ASSUME NEW v \in Levels PROVE TempScript(v) \in Seq(T) /\ <<If("temp", v, <<>>, NewTemp(v))>> \in Seq(T)
  <2>1. Append(NewTemp(v), ShowIfIdle) \in Seq(N)
    BY <1>3, <1>4, Short
  <2>2. If("temp", v, <<>>, Append(NewTemp(v), ShowIfIdle)) \in T /\ If("temp", v, <<>>, NewTemp(v)) \in T
    BY <1>1, <1>4, <2>1
  <2> QED
    BY <2>2, Short DEF TempScript
<1>6. ResetScript \in Seq(T)
  <2>1. If("same", None, <<>>, <<Do("tempFromSaved"), Notify("TEMP_BRIGHTNESS")>>) \in T
    BY <1>1, <1>4
  <2> QED
    BY <2>1, Short DEF ResetScript
<1>7. <<>> \in Seq(T) /\ <<Do("touch")>> \in Seq(T) /\ NameScript \in Seq(T)
  <2>1. Do("touch") \in T /\ Notify("NAME") \in T
    BY <1>1, <1>2
  <2> QED
    BY <2>1, Short DEF NameScript
<1> QED
  BY <1>5, <1>6, <1>7 DEF T

\* Scripts that save a brightness.
LEMMA SavingScripts ==
    ASSUME NEW S, \A x \in {"tempFromSaved", "savedFromTemp", "putSaved", "get"} : Do(x) \in S,
           \A x \in Flags : Notify(x) \in S, \A v \in Levels : Set("put", v) \in S, ShowIfIdle \in Level(S)
    PROVE  SaveScript \in Seq(Tree(S)) /\ \A v \in Levels : BrightnessScript(v) \in Seq(Tree(S))
<1> DEFINE N == Level(S)
           T == Tree(S)
           i == If("same", None, <<>>, <<Notify("TEMP_BRIGHTNESS"), Do("tempFromSaved")>>)
<1>1. /\ S \subseteq N
      /\ \A q \in {"status", "temp", "saved", "same"}, x \in Statuses \cup Levels \cup {None} :
            /\ \A r, t \in Seq(S) : If(q, x, r, t) \in N
            /\ \A r, t \in Seq(N) : If(q, x, r, t) \in T
      /\ \A s \in Seq(S) : s \in Seq(N)
  BY Trees
<1>2. /\ Do("tempFromSaved") \in S /\ Do("savedFromTemp") \in S /\ Do("putSaved") \in S /\ Do("get") \in S
      /\ Notify("BRIGHTNESS") \in S /\ Notify("TEMP_BRIGHTNESS") \in S
  BY DEF Flags
<1>3. ShowIfIdle \in N
  OBVIOUS
<1>4. /\ <<>> \in Seq(S) /\ <<Notify("TEMP_BRIGHTNESS"), Do("tempFromSaved")>> \in Seq(S)
      /\ <<Do("savedFromTemp"), Do("putSaved"), Notify("BRIGHTNESS")>> \in Seq(S)
  BY <1>2, Short
<1> HIDE DEF N, T
<1>5. i \in N
  BY <1>1, <1>4
<1>6. SaveScript \in Seq(T)
  <2>1. If("same", None, <<>>, <<Do("savedFromTemp"), Do("putSaved"), Notify("BRIGHTNESS")>>) \in T
    BY <1>1, <1>4
  <2> QED
    BY <2>1, Short DEF SaveScript
<1>7. ASSUME NEW v \in Levels PROVE BrightnessScript(v) \in Seq(T)
  <2>1. Set("put", v) \in N /\ Do("get") \in N /\ Notify("BRIGHTNESS") \in N
    BY <1>1, <1>2
  <2> HIDE DEF i
  <2>2. <<Set("put", v), Do("get"), Notify("BRIGHTNESS"), i, ShowIfIdle>> \in Seq(N)
    BY <1>3, <1>5, <2>1, Short
  <2>3. If("saved", v, <<>>, <<Set("put", v), Do("get"), Notify("BRIGHTNESS"), i, ShowIfIdle>>) \in T
    BY <1>1, <1>4, <2>2
  <2> QED
    BY <2>3, Short DEF BrightnessScript, i
<1> QED
  BY <1>6, <1>7 DEF T

\* The three kinds of operations.
LEMMA ThreeBases ==
    /\ \A x \in {"start", "stop", "show", "touch", "get", "putSaved", "tempFromSaved"} : Do(x) \in KeepBase
    /\ \A x \in {"touch", "get", "putSaved", "tempFromSaved", "savedFromTemp"} : Do(x) \in CalmBase /\ Do(x) \in RestBase
    /\ \A x \in Statuses : Set("status", x) \in KeepBase
    /\ \A x \in Flags : Notify(x) \in KeepBase /\ Notify(x) \in CalmBase /\ Notify(x) \in RestBase
    /\ \A x \in Clients \cup {None} : Set("lock", x) \in KeepBase
    /\ \A v \in Levels : /\ Set("temp", v) \in KeepBase /\ Set("temp", v) \in CalmBase /\ Set("temp", v) \in RestBase
                         /\ Set("put", v) \in CalmBase /\ Set("put", v) \in RestBase
    /\ ShowIfIdle \in Level(KeepBase) /\ ShowIfIdle \in Level(CalmBase) /\ ShowIfIdle \in Level(RestBase)
<1>1. /\ \A x \in {"start", "stop", "show", "touch", "get", "putSaved", "tempFromSaved"} : Do(x) \in KeepBase
      /\ \A x \in Statuses : Set("status", x) \in KeepBase
      /\ \A x \in Flags : Notify(x) \in KeepBase
      /\ \A x \in Clients \cup {None} : Set("lock", x) \in KeepBase
      /\ \A v \in Levels : Set("temp", v) \in KeepBase
  BY DEF Do, Set, Notify, KeepBase, Base
<1>2. /\ \A x \in {"touch", "get", "putSaved", "tempFromSaved", "savedFromTemp"} : Do(x) \in CalmBase
      /\ \A x \in Flags : Notify(x) \in CalmBase
      /\ \A v \in Levels : Set("temp", v) \in CalmBase /\ Set("put", v) \in CalmBase
      /\ ShowIfIdle \in CalmBase
  BY DEF Do, Set, Notify, CalmBase, Base
<1>3. /\ \A x \in {"touch", "get", "putSaved", "tempFromSaved", "savedFromTemp", "show"} : Do(x) \in RestBase
      /\ \A x \in Flags : Notify(x) \in RestBase
      /\ \A v \in Levels : Set("temp", v) \in RestBase /\ Set("put", v) \in RestBase
  BY DEF Do, Set, Notify, RestBase, Base
<1>4. ASSUME NEW S, Do("show") \in S PROVE ShowIfIdle \in Level(S)
  <2>1. "IDLE" \in Statuses \cup Levels \cup {None} /\ <<>> \in Seq(S) /\ <<Do("show")>> \in Seq(S)
    BY <1>4, Short DEF Statuses
  <2> QED
    BY <2>1, Trees DEF ShowIfIdle, When
<1> QED
  BY <1>1, <1>2, <1>3, <1>4, Trees

LEMMA ShortFour == ASSUME NEW S PROVE \A a, b, c, d \in S : <<a, b, c, d>> \in Seq(S)
  OBVIOUS

\* A thread that runThread lets through keeps the brightness, or saves the new one.
LEMMA ThreadSaves ==
    ASSUME NEW c \in Clients, NEW d, NEW cmd \in Commands, SavedAgrees(d),
           Words \cap Uploads = {}
    PROVE  Saves(d, runThread(c, d, cmd))
<1> DEFINE K == KeepBase
           T == Keeping
<1>1. /\ \A x \in {"start", "stop", "show", "touch"} : Do(x) \in K
      /\ \A x \in {"PLAY", "IDLE", "LOCK"} : Set("status", x) \in K
      /\ Notify("STATUS") \in K /\ Set("lock", c) \in K /\ Set("lock", None) \in K
  BY ThreeBases DEF Statuses, Flags
<1>2. /\ K \subseteq T
      /\ \A q \in {"status", "temp", "saved", "same"}, x \in Statuses \cup Levels \cup {None} :
            \A r, t \in Seq(K) : If(q, x, r, t) \in T
      /\ \A s \in Seq(K) : s \in Seq(T)
  BY Trees DEF Keeping
<1>3. {"LOCK", "IDLE", "PLAY"} \subseteq Statuses \cup Levels \cup {None}
  BY DEF Statuses
<1>4. /\ <<>> \in Seq(T) /\ <<Do("touch")>> \in Seq(T) /\ NameScript \in Seq(T) /\ ResetScript \in Seq(T)
      /\ \A v \in Levels : TempScript(v) \in Seq(T) /\ <<If("temp", v, <<>>, NewTemp(v))>> \in Seq(T)
  BY MildScripts, ThreeBases DEF Keeping
<1> HIDE DEF K, T
<1>5. /\ <<>> \in Seq(K) /\ <<Do("show")>> \in Seq(K) /\ <<Do("start")>> \in Seq(K)
      /\ <<Set("lock", None)>> \in Seq(K) /\ <<Set("status", "LOCK"), Set("lock", c), Notify("STATUS")>> \in Seq(K)
      /\ <<Do("stop")>> \in Seq(K) /\ Now("IDLE") \in Seq(K) /\ Now("PLAY") \in Seq(K)
  BY <1>1, Short DEF Now
<1>6. /\ <<Do("start")>> \o Now("PLAY") \in Seq(T) /\ <<Do("stop")>> \o Now("IDLE") \in Seq(T)
      /\ Release \in Seq(K)
  BY <1>2, <1>5, Short DEF Release
<1>7. LockScript(c) \in Seq(T) /\ UnlockScript \in Seq(T) /\ ForceUnlockScript \in Seq(T)
  <2>1. /\ If("status", "LOCK", <<>>, <<Set("status", "LOCK"), Set("lock", c), Notify("STATUS")>>) \in T
        /\ If("status", "LOCK", Release, <<>>) \in T
        /\ If("status", "LOCK", Release, <<Set("lock", None)>>) \in T
    BY <1>2, <1>3, <1>5, <1>6
  <2> QED
    BY <2>1, Short DEF LockScript, UnlockScript, ForceUnlockScript, When
<1>8. BecomeIdle \in T /\ When("status", "PLAY", <<Do("start")>>) \in T /\ Do("show") \in T
  BY <1>1, <1>2, <1>3, <1>5 DEF BecomeIdle, When
<1>9. ColorQueryScript \in Seq(T)
  BY <1>8, ShortFour DEF ColorQueryScript
<1>10. \A v \in Levels \cup {None} : ColorScript(v) \in Seq(T)
  <2>1. <<BecomeIdle, Do("show")>> \in Seq(T)
    BY <1>8, Short
  <2> QED
    BY <1>4, <2>1, Short DEF ColorScript
<1>11. /\ cmd.word \in {"brightness temp", "brightness"} => cmd.arg \in Levels
       /\ cmd.arg \in Levels \cup {None}
       /\ cmd.word \notin Uploads
  BY DEF Commands, Plain, WithLevel
<1>12. \/ Body(c, cmd) \in Seq(T)
       \/ Body(c, cmd) = SaveScript
       \/ \E v \in Levels : Body(c, cmd) = BrightnessScript(v)
  BY <1>4, <1>6, <1>7, <1>9, <1>10, <1>11 DEF Body, Uploads
<1>13. \/ runThread(c, d, cmd) \in Seq(T)
       \/ runThread(c, d, cmd) = SaveScript
       \/ \E v \in Levels : runThread(c, d, cmd) = BrightnessScript(v)
  BY <1>4, <1>7, <1>12 DEF runThread
<1> QED
  BY <1>13 DEF Saves, T

\* It leaves the unit doing what the table says.
LEMMA ThreadActs ==
    ASSUME NEW c \in Clients, NEW d, NEW cmd \in Commands, StatusAgrees(d),
           Words \cap Uploads = {}
    PROVE  Acts(d, runThread(c, d, cmd))
<1>1. /\ Acts(d, LockScript(c)) /\ Acts(d, UnlockScript) /\ Acts(d, ForceUnlockScript)
      /\ Acts(d, ColorQueryScript)
  BY DEF Acts
<1>2. ASSUME NEW S \in {CalmBase, RestBase}
      PROVE  /\ <<>> \in Seq(Tree(S)) /\ <<Do("touch")>> \in Seq(Tree(S))
             /\ NameScript \in Seq(Tree(S)) /\ ResetScript \in Seq(Tree(S)) /\ SaveScript \in Seq(Tree(S))
             /\ \A v \in Levels : /\ TempScript(v) \in Seq(Tree(S)) /\ BrightnessScript(v) \in Seq(Tree(S))
                                  /\ <<If("temp", v, <<>>, NewTemp(v))>> \in Seq(Tree(S))
  <2>1. /\ \A x \in {"touch", "get", "putSaved", "tempFromSaved", "savedFromTemp"} : Do(x) \in S
        /\ \A x \in Flags : Notify(x) \in S
        /\ \A v \in Levels : Set("temp", v) \in S /\ Set("put", v) \in S
        /\ ShowIfIdle \in Level(S)
    BY ThreeBases
  <2> QED
    BY <2>1, MildScripts, SavingScripts
<1>3. /\ Acts(d, <<>>) /\ Acts(d, <<Do("touch")>>) /\ Acts(d, NameScript) /\ Acts(d, ResetScript)
      /\ Acts(d, SaveScript)
      /\ \A v \in Levels : Acts(d, TempScript(v)) /\ Acts(d, BrightnessScript(v))
  BY <1>2, ActsEither DEF Calm, Restful
<1>4. Acts(d, <<Do("start")>> \o Now("PLAY"))
  BY Joined DEF Now, Acts
<1>5. Acts(d, <<Do("stop")>> \o Now("IDLE"))
  <2>1. Acts(d, <<Do("stop"), Set("status", "IDLE"), Notify("STATUS")>>)
    BY Resting DEF Acts
  <2> QED
    BY <2>1, Joined DEF Now
<1>6. ASSUME NEW v \in Levels \cup {None} PROVE Acts(d, ColorScript(v))
  <2>1. ASSUME NEW r \in Seq(Restful) PROVE Rests(d, r \o <<BecomeIdle, Do("show")>>)
    <3>1. /\ r \o <<BecomeIdle, Do("show")>> \in Seq(Restful)
          /\ Elements(r \o <<BecomeIdle, Do("show")>>) = Elements(r) \cup {BecomeIdle, Do("show")}
      <4>1. PICK t : t = <<BecomeIdle, Do("show")>>
        OBVIOUS
      <4>2. t \in Seq(Restful)
        BY <4>1, RestScripts
      <4>3. Elements(t) = {BecomeIdle, Do("show")}
        BY <4>1, FewElements
      <4>4. \A x, y \in Seq(Restful) : x \o y \in Seq(Restful) /\ Elements(x \o y) = Elements(x) \cup Elements(y)
        BY ConcatProperties, ElementsConcat
      <4>5. r \o t \in Seq(Restful) /\ Elements(r \o t) = Elements(r) \cup Elements(t)
        BY <4>2, <4>4
      <4> QED
        BY <4>1, <4>3, <4>5
    <3> QED
      BY <3>1 DEF Rests
  <2>2. (IF v = None THEN <<>> ELSE <<If("temp", v, <<>>, NewTemp(v))>>) \in Seq(Restful)
    BY <1>2 DEF Restful
  <2> QED
    BY <2>1, <2>2 DEF ColorScript, Acts
<1>7. /\ cmd.word \in {"brightness temp", "brightness"} => cmd.arg \in Levels
      /\ cmd.arg \in Levels \cup {None}
      /\ cmd.word \notin Uploads
  BY DEF Commands, Plain, WithLevel
<1>8. Acts(d, Body(c, cmd))
  BY <1>1, <1>3, <1>4, <1>5, <1>6, <1>7 DEF Body, Uploads
<1> QED
  BY <1>1, <1>3, <1>8 DEF runThread

\* A clean-up leaves the unit at rest, with its brightness.
LEMMA CleanupServes ==
    ASSUME NEW d, SavedAgrees(d) PROVE Saves(d, CleanupScript) /\ Acts(d, CleanupScript)
<1>1. /\ Set("lock", None) \in KeepBase /\ Do("stop") \in KeepBase /\ Set("status", "IDLE") \in KeepBase
      /\ Notify("STATUS") \in KeepBase
  BY ThreeBases DEF Statuses, Flags
<1>2. <<Set("lock", None), Do("stop"), Set("status", "IDLE"), Notify("STATUS")>> \in Seq(KeepBase)
  BY <1>1, ShortFour
<1>3. CleanupScript \in Seq(Keeping)
  BY <1>2, Written, Trees DEF Keeping
<1> QED
  BY <1>3, Resting DEF Saves, Acts

\* With nothing left to do, the table has the brightness of the unit.
LEMMA SavesEmpty == ASSUME NEW d PROVE Saves(d, <<>>) <=> SavedAgrees(d)
<1>1. /\ <<Do("savedFromTemp"), Do("putSaved"), Notify("BRIGHTNESS")>> # <<>>
      /\ <<Do("putSaved"), Notify("BRIGHTNESS")>> # <<>>
      /\ GetScript # <<>> /\ \A v : PutScript(v) # <<>>
  BY DEF GetScript, PutScript
<1> QED
  BY <1>1, KeepingScripts DEF Saves

\* Where a command begins, and where runThread looks at the lock, the table is right.
LEMMA GuardBegins ==
    ASSUME NEW d, SavedAgrees(d), StatusAgrees(d), NEW s \in Guards PROVE Saves(d, s) /\ Acts(d, s)
  BY DEF Saves, Acts

LEMMA GuardAgrees ==
    ASSUME NEW d, NEW s, s # <<>>, Head(s).op = "guard", Saves(d, s), Acts(d, s)
    PROVE  SavedAgrees(d) /\ StatusAgrees(d)
<1>1. SavedAgrees(d)
  <2>1. s # <<Do("savedFromTemp"), Do("putSaved"), Notify("BRIGHTNESS")>>
    BY Fields
  <2>2. s # <<Do("putSaved"), Notify("BRIGHTNESS")>>
    BY Fields
  <2>3. s # GetScript
    BY Fields DEF GetScript
  <2>4. ASSUME NEW v, s = PutScript(v) PROVE FALSE
    BY <2>4, Fields DEF PutScript
  <2> QED
    BY <2>1, <2>2, <2>3, <2>4 DEF Saves
<1>2. ~Rests(d, s)
  <2>1. ASSUME s \in Seq(Restful) PROVE FALSE
    <3>1. Head(s) \in RestBase \/ Head(s).op = "if"
      BY <2>1, TreeStep DEF Restful
    <3>2. \A b \in RestBase : b.op # "guard"
      BY DEF RestBase, Base
    <3> QED
      BY <3>1, <3>2
  <2> QED
    BY <2>1 DEF Rests
<1>3. ASSUME NEW c, s = <<Set("status", "LOCK"), Set("lock", c), Notify("STATUS")>> PROVE FALSE
  BY <1>3, Fields
<1>4. s # <<Do("start"), Set("status", "PLAY"), Notify("STATUS")>>
  BY Fields
<1>5. s # ColorQueryScript
  BY Fields DEF ColorQueryScript
<1>6. s # <<When("status", "PLAY", <<Do("start")>>), BecomeIdle, Do("show")>>
  <2>1. When("status", "PLAY", <<Do("start")>>).op = "if"
    BY DEF When, If
  <2> QED
    BY <2>1
<1>7. s # <<Do("start"), BecomeIdle, Do("show")>>
  BY Fields
<1>8. s # <<Set("status", "PLAY"), Notify("STATUS")>>
  BY Fields
<1>9. StatusAgrees(d)
  BY <1>2, <1>3, <1>4, <1>5, <1>6, <1>7, <1>8 DEF Acts
<1> QED
  BY <1>1, <1>9

LEMMA GuardCommand ==
    ASSUME TypeInv, NEW c \in Clients, NEW d \in Slots, script[c][d] # <<>>, Head(script[c][d]).op = "guard"
    PROVE  Head(script[c][d]).to \in Commands
<1>1. PICK s : s = script[c][d]
  OBVIOUS
<1>2. s \in Scripts(c)
  BY <1>1 DEF TypeInv, ScriptInv
<1>3. s \notin Seq(Ops(Statuses, {None, c}))
  <2>1. ASSUME s \in Seq(Ops(Statuses, {None, c})) PROVE FALSE
    <3>1. Head(s) \in Ops(Statuses, {None, c})
      BY <1>1, <2>1, HeadTailProperties
    <3> QED
      BY <1>1, <3>1, CommandOp
  <2> QED
    BY <2>1
<1>4. s \notin Seq(Simple(Statuses, {None}))
  <2>1. ASSUME s \in Seq(Simple(Statuses, {None})) PROVE FALSE
    <3>1. Head(s) \in Simple(Statuses, {None})
      BY <1>1, <2>1, HeadTailProperties
    <3> QED
      BY <1>1, <3>1, LeavingOp, CommandOp
  <2> QED
    BY <2>1
<1>5. PICK cmd \in Commands : s = <<Set("guard", cmd)>>
  BY <1>1, <1>2, <1>3, <1>4 DEF Scripts
<1> QED
  BY <1>1, <1>5, Fields

\* A removal is not a filling.
LEMMA LastWord ==
    /\ \A s \in Removals : s \notin Fillings
    /\ \A p : AddScript(p) \notin Fillings
<1>1. ASSUME NEW s \in Removals PROVE s[Len(s)].op = "forget"
  <2>1. s[Len(s)] = Do("forget")
    <3>1. CASE s = RemoveScript
      BY <3>1 DEF RemoveScript
    <3>2. CASE s = <<Do("clear"), Set("lock", None), Do("removed"), Do("close"), Do("forget")>>
      BY <3>2
    <3>3. CASE s = <<Set("lock", None), Do("removed"), Do("close"), Do("forget")>>
      BY <3>3
    <3>4. CASE s = <<Do("removed"), Do("close"), Do("forget")>>
      BY <3>4
    <3>5. CASE s = <<Do("close"), Do("forget")>>
      BY <3>5
    <3>6. CASE s = <<Do("forget")>>
      BY <3>6
    <3> QED
      BY <3>1, <3>2, <3>3, <3>4, <3>5, <3>6 DEF Removals
  <2> QED
    BY <2>1, Fields
<1>2. ASSUME NEW s \in Fillings PROVE s[Len(s)].op = "added"
  <2>1. s[Len(s)] = Do("added")
    <3>1. CASE s = <<Do("identify"), Do("start"), Set("status", "PLAY"), Do("clear"), Set("lock", None), Do("added")>>
      BY <3>1
    <3>2. CASE s = <<Do("start"), Set("status", "PLAY"), Do("clear"), Set("lock", None), Do("added")>>
      BY <3>2
    <3>3. CASE s = <<Set("status", "PLAY"), Do("clear"), Set("lock", None), Do("added")>>
      BY <3>3
    <3>4. CASE s = <<Do("clear"), Set("lock", None), Do("added")>>
      BY <3>4
    <3>5. CASE s = <<Set("lock", None), Do("added")>>
      BY <3>5
    <3>6. CASE s = <<Do("added")>>
      BY <3>6
    <3> QED
      BY <3>1, <3>2, <3>3, <3>4, <3>5, <3>6 DEF Fillings
  <2> QED
    BY <2>1, Fields
<1> QED
  BY <1>1, <1>2, AddBegins, Filling

\* A step of monitorDevices on a slot it fills.
LEMMA FillsStep ==
    ASSUME TableTypes, running \in [Units -> BOOLEAN], NEW d \in Slots, NEW s \in Fillings, Fills(d, s),
           NEW h \in Handles, heap[h] = openDevices[d], Operation(Head(s), d, h), NEW r, r = Rest(s, d)
    PROVE  (r # <<>> => Fills(d, r)') /\ (r = <<>> => Serves(d, <<>>)')
<1>1. /\ Head(s).op \in {"identify", "start", "status", "clear", "lock", "added"} /\ r = Tail(s)
      /\ openDevices'[d] = openDevices[d]
      /\ Alive(openDevices[d])' <=> Alive(openDevices[d])
  <2>1. Head(s).op \in {"identify", "start", "status", "clear", "lock", "added"}
    BY Filling
  <2>2. r = Tail(s)
    BY <2>1 DEF Rest
  <2>3. openDevices'[d] = openDevices[d]
    BY <2>1, EffectHere
  <2> QED
    BY <2>1, <2>2, <2>3, OperationFrame DEF Alive
<1>2. SUFFICES ASSUME Alive(openDevices[d]) PROVE (r # <<>> => Fills(d, r)') /\ (r = <<>> => Serves(d, <<>>)')
  BY <1>1 DEF Fills, Serves
<1>3. /\ Head(s).op # "identify" => SavedAgrees(d)
      /\ Head(s).op \notin {"identify", "start"} => running[openDevices[d][1]]
      /\ Head(s).op \notin {"identify", "start", "status"} => status[d] = "PLAY"
  BY <1>2 DEF Fills
<1>4. PICK u : u = openDevices[d][1]
  OBVIOUS
<1>5. ASSUME Head(s).op = "identify" PROVE SavedAgrees(d)'
  <2>1. HidOp(Head(s), d, h) /\ h # None /\ u \in Units /\ openDevices[d] # NoPath
    BY <1>2, <1>4, <1>5, NoneAssumption DEF Operation, TableOp, TableOps, CloseOp, Alive, TableTypes, Paths
  <2>2. /\ saved' = saved
        /\ \E v \in {saved[u]} : brightness' = [brightness EXCEPT ![d] = v]
    BY <1>2, <1>4, <1>5, <2>1 DEF HidOp
  <2>3. brightness'[d] = saved[u]
    BY <2>2 DEF TableTypes
  <2> QED
    BY <1>1, <1>4, <2>2, <2>3 DEF SavedAgrees
<1>6. ASSUME Head(s).op # "identify"
      PROVE  /\ SavedAgrees(d)'
             /\ running'[openDevices'[d][1]] <=> Head(s).op = "start" \/ running[openDevices[d][1]]
             /\ status'[d] = IF Head(s).op = "status" THEN "PLAY" ELSE status[d]
  <2>1. UnitStep(Head(s), d)
    BY <1>1, <1>2, <1>6, UnitHere
  <2>2. Head(s).op = "status" => Head(s).to = "PLAY"
    BY Filling
  <2>3. SavedAgrees(d)'
    BY <1>1, <1>3, <1>6, <2>1 DEF UnitStep, SavedAgrees
  <2> QED
    BY <1>1, <2>1, <2>2, <2>3 DEF UnitStep
<1>7. CASE Head(s).op = "added"
  <2>1. r = <<>>
    BY <1>1, <1>7, Filling
  <2>2. SavedAgrees(d)' /\ running'[openDevices'[d][1]] /\ status'[d] = "PLAY"
    BY <1>3, <1>6, <1>7
  <2>3. SavedAgrees(d)' /\ StatusAgrees(d)'
    BY <2>2 DEF StatusAgrees
  <2>4. Saves(d, <<>>)'
    BY <2>3, KeepingScripts DEF Saves
  <2>5. Acts(d, <<>>)'
    BY <2>2, <2>3, CalmScripts DEF Acts
  <2> QED
    BY <2>1, <2>4, <2>5 DEF Serves
<1>8. CASE Head(s).op # "added"
  <2>1. r \in Fillings /\ r # <<>>
    BY <1>1, <1>8, Filling
  <2>2. /\ Head(s).op = "identify" => Head(r).op = "start"
        /\ Head(s).op = "start" => Head(r).op = "status"
        /\ Head(s).op \in {"status", "clear", "lock"} => Head(r).op \in {"clear", "lock", "added"}
    BY <1>1, Filling
  <2>3. SavedAgrees(d)'
    BY <1>5, <1>6
  <2>4. Head(r).op \notin {"identify", "start"} => running'[openDevices'[d][1]]
    BY <1>1, <1>3, <1>6, <1>8, <2>2
  <2>5. Head(r).op \notin {"identify", "start", "status"} => status'[d] = "PLAY"
    BY <1>1, <1>3, <1>6, <1>8, <2>2
  <2> QED
    BY <2>1, <2>3, <2>4, <2>5 DEF Fills
<1> QED
  BY <1>7, <1>8

-----------------------------------------------------------------------------
(* Every step keeps the table and the units together.                      *)

\* A slot nobody touches, whose unit may vanish.
LEMMA AgreeFrame ==
    ASSUME NEW d \in Slots, AgreeSlot(d), openDevices'[d] = openDevices[d], status'[d] = status[d],
           Alive(openDevices[d])' =>
              /\ Alive(openDevices[d]) /\ brightness'[d] = brightness[d]
              /\ saved'[openDevices[d][1]] = saved[openDevices[d][1]]
              /\ running'[openDevices[d][1]] = running[openDevices[d][1]],
           \A c \in Clients : script'[c][d] = script[c][d],
           MonitorBusy(d)' <=> MonitorBusy(d), MonitorBusy(d) => mScript' = mScript
    PROVE  AgreeSlot(d)'
<1>1. PICK u : u = openDevices[d][1]
  OBVIOUS
<1>2. SavedAgrees(d) <=> brightness[d] = saved[u]
  BY <1>1 DEF SavedAgrees
<1>3. ASSUME Alive(openDevices[d])'
      PROVE  /\ SavedAgrees(d)' <=> SavedAgrees(d)
             /\ StatusAgrees(d)' <=> StatusAgrees(d)
             /\ \A s : Rests(d, s)' <=> Rests(d, s)
  BY <1>3 DEF SavedAgrees, StatusAgrees, Rests
<1>4. ASSUME NEW s, Serves(d, s) PROVE Serves(d, s)'
  <2> SUFFICES ASSUME Alive(openDevices[d])' PROVE Saves(d, s)' /\ Acts(d, s)'
    BY DEF Serves
  <2>1. Saves(d, s) /\ Acts(d, s)
    BY <1>4 DEF Serves
  <2>2. Saves(d, s)'
    BY <1>3, <2>1 DEF Saves
  <2>3. Acts(d, s)'
    BY <1>3, <2>1 DEF Acts
  <2> QED
    BY <2>2, <2>3
<1>5. ASSUME NEW s, Fills(d, s) PROVE Fills(d, s)'
  BY <1>3, <1>5 DEF Fills
<1>6. Free(d)' <=> Free(d)
  BY DEF Free
<1>7. ASSUME NEW c \in Clients, script'[c][d] # <<>> PROVE Serves(d, script[c][d])'
  <2>1. PICK s : s = script[c][d]
    OBVIOUS
  <2>2. Serves(d, s)'
    BY <1>4, <1>7, <2>1 DEF AgreeSlot
  <2> QED
    BY <2>1, <2>2
<1>8. MonitorBusy(d)' => Fills(d, mScript)'
  <2>1. PICK s : s = mScript
    OBVIOUS
  <2>2. MonitorBusy(d) => Fills(d, s)' /\ mScript' = s
    BY <1>5, <2>1 DEF AgreeSlot
  <2> QED
    BY <2>2
<1>9. Free(d)' /\ openDevices'[d] # NoPath => Serves(d, <<>>)'
  BY <1>4, <1>6 DEF AgreeSlot
<1> QED
  BY <1>7, <1>8, <1>9 DEF AgreeSlot

\* A slot that one client's thread works on, or has just left.
LEMMA OneThreadAgrees ==
    ASSUME NEW c \in Clients, NEW d \in Slots, NEW r,
           script'[c][d] = r, \A b \in Clients : b # c => script'[b][d] = <<>>,
           ~MonitorBusy(d)', Serves(d, r)'
    PROVE  AgreeSlot(d)'
<1>1. ASSUME NEW b \in Clients, script'[b][d] # <<>> PROVE Serves(d, script[b][d])'
  BY <1>1
<1>2. Free(d)' => Serves(d, <<>>)'
  BY DEF Free
<1> QED
  BY <1>1, <1>2 DEF AgreeSlot

\* A slot that monitorDevices works on, or has just left.
LEMMA MonitorAloneAgrees ==
    ASSUME NEW d \in Slots, \A c \in Clients : script'[c][d] = <<>>,
           MonitorBusy(d)' => Fills(d, mScript)',
           ~MonitorBusy(d)' /\ openDevices'[d] # NoPath => Serves(d, <<>>)'
    PROVE  AgreeSlot(d)'
  BY DEF AgreeSlot, Free

\* A client's thread takes a step on slot d.
LEMMA ThreadAgrees ==
    ASSUME TypeInv, UniqueOpen, TurnsInv, HandleInv, AgreeInv,
           NEW c \in Clients, NEW d \in Slots, ClientStep(c, d)
    PROVE  \A e \in Slots : AgreeSlot(e)'
<1>1. /\ TableTypes /\ ScriptInv /\ running \in [Units -> BOOLEAN]
      /\ SlotInv(d) /\ HandleSlot(d) /\ AgreeSlot(d)
  BY AllTypes DEF TypeInv, TurnsInv, HandleInv, AgreeInv
<1>2. PICK s : s = script[c][d]
  OBVIOUS
<1>3. PICK h : h = IF inst[c][d] = None THEN handle[d] ELSE inst[c][d]
  OBVIOUS
<1>4. PICK r : r = Rest(s, d)
  OBVIOUS
<1>5. s # <<>> /\ Operation(Head(s), d, h) /\ Proceed(c, d, r) /\ UNCHANGED monitor
  BY <1>2, <1>3, <1>4 DEF ClientStep
<1>6. /\ Head(s).op \notin {"path", "forget", "identify", "guard"}
      /\ \A b \in Clients : b # c => script[b][d] = <<>>
      /\ ~MonitorBusy(d) /\ openDevices[d] # NoPath /\ Serves(d, s)
  <2>1. Head(s).op # "guard"
    BY <1>5, OperationFrame
  <2>2. Head(s).op \notin {"path", "forget", "identify"}
    BY <1>2, <1>5, <2>1, ClientOp
  <2>3. (\A b \in Clients : b # c => script[b][d] = <<>>) /\ ~MonitorBusy(d) /\ ClientTurn(c, d, script[c][d])
    BY <1>1, <1>2, <1>5 DEF SlotInv
  <2> QED
    BY <1>1, <1>2, <1>5, <2>1, <2>2, <2>3 DEF ClientTurn, AgreeSlot
<1>7. h = handle[d] /\ h \in Handles /\ heap[h] = openDevices[d]
  BY <1>1, <1>3, <1>6 DEF HandleSlot
<1>8. /\ script'[c][d] = r
      /\ \A b \in Clients, e \in Slots : b # c \/ e # d => script'[b][e] = script[b][e]
  BY <1>1, <1>5, ProceedScripts
<1>9. \A e \in Slots : (MonitorBusy(e)' <=> MonitorBusy(e)) /\ mScript' = mScript
  BY <1>5 DEF MonitorBusy, monitor
<1>10. UNCHANGED <<plugs, present>>
  BY <1>5, OperationFrame
<1>11. AgreeSlot(d)'
  <2>1. Serves(d, r)'
    <3>1. openDevices'[d] = openDevices[d]
      BY <1>1, <1>5, <1>6, EffectHere
    <3>2. SUFFICES ASSUME Alive(openDevices[d]) PROVE Saves(d, r)' /\ Acts(d, r)'
      BY <1>10, <3>1 DEF Serves, Alive
    <3>3. UnitStep(Head(s), d)
      BY <1>1, <1>5, <1>6, <1>7, <3>2, UnitHere
    <3>4. running[openDevices[d][1]] \in BOOLEAN
      BY <1>1, <3>2 DEF Alive, TableTypes, Paths
    <3>5. Saves(d, s) /\ Acts(d, s)
      BY <1>6, <3>2 DEF Serves
    <3>6. Saves(d, r)'
      BY <1>4, <1>5, <1>6, <3>3, <3>5, SavesStep
    <3>7. Acts(d, r)'
      BY <1>4, <1>5, <1>6, <3>3, <3>4, <3>5, ActsStep
    <3> QED
      BY <3>6, <3>7
  <2>2. \A b \in Clients : b # c => script'[b][d] = <<>>
    BY <1>6, <1>8
  <2> QED
    BY <1>6, <1>8, <1>9, <2>1, <2>2, OneThreadAgrees
<1>12. ASSUME NEW e \in Slots, e # d PROVE AgreeSlot(e)'
  <2>1. openDevices'[e] = openDevices[e] /\ status'[e] = status[e]
    BY <1>1, <1>5, <1>12, EffectElsewhere
  <2>2. ASSUME Alive(openDevices[e])
        PROVE  /\ brightness'[e] = brightness[e]
               /\ saved'[openDevices[e][1]] = saved[openDevices[e][1]]
               /\ running'[openDevices[e][1]] = running[openDevices[e][1]]
    <3>1. heap[h] # openDevices[e]
      BY <1>6, <1>7, <1>12 DEF UniqueOpen
    <3> QED
      BY <1>1, <1>5, <1>7, <1>12, <2>2, <3>1, UnitElsewhere
  <2>3. Alive(openDevices[e])' => Alive(openDevices[e])
    BY <1>10, <2>1 DEF Alive
  <2>4. AgreeSlot(e) /\ \A b \in Clients : script'[b][e] = script[b][e]
    BY <1>8, <1>12 DEF AgreeInv
  <2> QED
    BY <1>9, <2>1, <2>2, <2>3, <2>4, AgreeFrame
<1> QED
  BY <1>11, <1>12

\* A client's step.
LEMMA ClientAgrees ==
    ASSUME Overlaps \subseteq {"notifier"}, Words \cap Uploads = {},
           TypeInv, UniqueOpen, TurnsInv, HandleInv, AgreeInv, NEW c \in Clients, Client(c)
    PROVE  \A e \in Slots : AgreeSlot(e)'
<1>1. /\ ScriptInv /\ \A e \in Slots : SlotInv(e) /\ AgreeSlot(e)
  BY DEF TypeInv, TurnsInv, AgreeInv
<1>2. ASSUME UNCHANGED <<table, monitor, world>>, NEW e \in Slots,
             \A b \in Clients : script'[b][e] = script[b][e]
      PROVE  AgreeSlot(e)'
  <2>1. UNCHANGED <<openDevices, status, brightness, plugs, present, saved, running>>
    BY <1>2 DEF table, world
  <2>2. /\ Alive(openDevices[e])' => Alive(openDevices[e])
        /\ MonitorBusy(e)' <=> MonitorBusy(e)
        /\ mScript' = mScript
    BY <1>2, <2>1 DEF Alive, MonitorBusy, monitor
  <2> QED
    BY <1>1, <1>2, <2>1, <2>2, AgreeFrame
<1>3. CASE Connect(c) \/ Leave(c) \/ Gone(c) \/ runCommandTypo(c)
  <2>1. UNCHANGED <<table, monitor, world, script>>
    BY <1>3 DEF Connect, Leave, Gone, runCommandTypo, clients
  <2> QED
    BY <1>2, <2>1
<1>4. ASSUME NEW e \in Slots, UNCHANGED <<table, monitor, world>>, NEW r, script'[c][e] = r,
             \A b \in Clients : b # c => script[b][e] = <<>> /\ script'[b][e] = <<>>,
             ~MonitorBusy(e),
             Alive(openDevices[e]) => Saves(e, r) /\ Acts(e, r)
      PROVE  AgreeSlot(e)'
  <2>1. UNCHANGED <<openDevices, status, brightness, plugs, present, saved, running, mScript, mI>>
    BY <1>4 DEF table, world, monitor
  <2>2. ~MonitorBusy(e)'
    BY <1>4, <2>1 DEF MonitorBusy
  <2>3. ASSUME Alive(openDevices[e])' PROVE Alive(openDevices[e])
    BY <2>1, <2>3 DEF Alive
  <2>4. (SavedAgrees(e)' <=> SavedAgrees(e)) /\ (StatusAgrees(e)' <=> StatusAgrees(e)) /\ (Rests(e, r)' <=> Rests(e, r))
    BY <2>1 DEF SavedAgrees, StatusAgrees, Rests
  <2>5. Saves(e, r) => Saves(e, r)'
    BY <2>4 DEF Saves
  <2>6. Acts(e, r) => Acts(e, r)'
    BY <2>1, <2>4 DEF Acts
  <2>7. Serves(e, r)'
    BY <1>4, <2>3, <2>5, <2>6 DEF Serves
  <2>8. script'[c][e] = r /\ \A b \in Clients : b # c => script'[b][e] = <<>>
    BY <1>4
  <2> QED
    BY <2>2, <2>7, <2>8, OneThreadAgrees
<1>5. ASSUME NEW cmd \in Commands, NEW S \in SUBSET Slots, runCommand(c, cmd, S), NEW e \in Slots
      PROVE  AgreeSlot(e)'
  <2>1. /\ UNCHANGED <<table, monitor, world>> /\ Idle(c)
        /\ script' = [script EXCEPT ![c] =
                    [d \in Slots |-> IF d \in S THEN <<Set("guard", cmd)>> ELSE <<>>]]
        /\ \A d \in S : Found(d) /\ MayBegin("command", d)
    BY <1>5 DEF runCommand
  <2>2. \A b \in Clients : script'[b][e] = IF b = c THEN IF e \in S THEN <<Set("guard", cmd)>> ELSE <<>>
                                           ELSE script[b][e]
    BY <1>1, <2>1 DEF ScriptInv
  <2>3. CASE e \in S
    <3>1. ~MonitorBusy(e) /\ (\A b \in Clients : script[b][e] = <<>>) /\ openDevices[e] # NoPath
      BY <1>1, <2>1, <2>3, Begins DEF Found
    <3>2. Serves(e, <<>>)
      BY <1>1, <3>1 DEF AgreeSlot, Free
    <3>3. Alive(openDevices[e]) => SavedAgrees(e) /\ StatusAgrees(e)
      BY <3>2, SavesEmpty, ActsEmpty DEF Serves
    <3>4. PICK r : r = <<Set("guard", cmd)>>
      OBVIOUS
    <3>5. r \in Guards
      BY <3>4 DEF Guards
    <3>6. Alive(openDevices[e]) => Saves(e, r) /\ Acts(e, r)
      BY <3>3, <3>5, GuardBegins
    <3> QED
      BY <1>4, <2>1, <2>2, <2>3, <3>1, <3>4, <3>6
  <2>4. CASE e \notin S
    <3>1. \A b \in Clients : script'[b][e] = script[b][e]
      BY <2>1, <2>2, <2>4 DEF Idle
    <3> QED
      BY <1>2, <2>1, <3>1
  <2> QED
    BY <2>3, <2>4
<1>6. ASSUME NEW d \in Slots, Guard(c, d), NEW e \in Slots PROVE AgreeSlot(e)'
  <2>1. PICK r : r = runThread(c, d, Head(script[c][d]).to)
    OBVIOUS
  <2>2. /\ script[c][d] # <<>> /\ Head(script[c][d]).op = "guard"
        /\ Proceed(c, d, r) /\ UNCHANGED <<table, world, monitor>>
    BY <1>6, <2>1 DEF Guard
  <2>3. /\ script'[c][d] = r
        /\ \A b \in Clients, f \in Slots : b # c \/ f # d => script'[b][f] = script[b][f]
    BY <1>1, <2>2, ProceedScripts
  <2>4. CASE e = d
    <3>1. (\A b \in Clients : b # c => script[b][d] = <<>>) /\ ~MonitorBusy(d)
      BY <1>1, <2>2 DEF SlotInv
    <3>2. Serves(d, script[c][d])
      BY <1>1, <2>2 DEF AgreeSlot
    <3>3. Head(script[c][d]).to \in Commands
      BY <2>2, GuardCommand
    <3>4. ASSUME Alive(openDevices[d]) PROVE Saves(d, r) /\ Acts(d, r)
      <4>1. Saves(d, script[c][d]) /\ Acts(d, script[c][d])
        BY <3>2, <3>4 DEF Serves
      <4>2. SavedAgrees(d) /\ StatusAgrees(d)
        <5>1. PICK s : s = script[c][d]
          OBVIOUS
        <5> QED
          BY <2>2, <4>1, <5>1, GuardAgrees
      <4> QED
        BY <2>1, <3>3, <4>2, ThreadSaves, ThreadActs
    <3>5. \A b \in Clients : b # c => script[b][d] = <<>> /\ script'[b][d] = <<>>
      BY <2>3, <3>1
    <3> QED
      BY <1>4, <2>2, <2>3, <2>4, <3>1, <3>4, <3>5
  <2>5. CASE e # d
    BY <1>2, <2>2, <2>3, <2>5
  <2> QED
    BY <2>4, <2>5
<1>7. ASSUME NEW d \in Slots, CheckLock(c, d), NEW e \in Slots PROVE AgreeSlot(e)'
  <2>1. /\ UNCHANGED <<table, monitor, world>> /\ Idle(c) /\ MayBegin("command", d)
        /\ script' = [script EXCEPT ![c][d] = IF lock[d] = c THEN CleanupScript ELSE <<>>]
    BY <1>7 DEF CheckLock
  <2>2. \A b \in Clients : script'[b][e] = IF b = c /\ e = d /\ lock[d] = c THEN CleanupScript ELSE script[b][e]
    <3>1. script[c][d] = <<>>
      BY <2>1 DEF Idle
    <3>2. script'[c][d] = IF lock[d] = c THEN CleanupScript ELSE <<>>
      BY <1>1, <2>1 DEF ScriptInv
    <3>3. \A b \in Clients : b # c \/ e # d => script'[b][e] = script[b][e]
      BY <1>1, <2>1 DEF ScriptInv
    <3> QED
      BY <3>1, <3>2, <3>3
  <2>3. CASE e = d /\ lock[d] = c
    <3>1. ~MonitorBusy(e) /\ (\A b \in Clients : script[b][e] = <<>>) /\ Still(e)
      BY <1>1, <2>1, <2>3, Begins
    <3>2. openDevices[e] # NoPath
      BY <2>3, <3>1, NoneAssumption DEF Still, Blank
    <3>3. Serves(e, <<>>)
      BY <1>1, <3>1, <3>2 DEF AgreeSlot, Free
    <3>4. Alive(openDevices[e]) => Saves(e, CleanupScript) /\ Acts(e, CleanupScript)
      BY <3>3, SavesEmpty, CleanupServes DEF Serves
    <3> QED
      BY <1>4, <2>1, <2>2, <2>3, <3>1, <3>4
  <2>4. CASE ~(e = d /\ lock[d] = c)
    <3>1. \A b \in Clients : script'[b][e] = script[b][e]
      BY <2>2, <2>4
    <3> QED
      BY <1>2, <2>1, <3>1
  <2> QED
    BY <2>3, <2>4
<1> QED
  BY <1>3, <1>5, <1>6, <1>7, ThreadAgrees DEF Client


\* The step of a script of monitorDevices, at its slot.
LEMMA MonitorStepAgrees ==
    ASSUME TableTypes, running \in [Units -> BOOLEAN], NEW d \in Slots, HandleSlot(d), AgreeSlot(d),
           MonitorBusy(d), \A c \in Clients : script'[c][d] = <<>>,
           NEW s, s = mScript, NEW h, h = handle[d], Operation(Head(s), d, h), NEW r, r = Rest(s, d),
           mScript' = r, MonitorBusy(d)' <=> r # <<>>
    PROVE  AgreeSlot(d)'
<1>1. CASE s \in Removals
  <2>1. r = Tail(s)
    BY <1>1, Removing DEF Rest
  <2>2. CASE Head(s).op = "forget"
    <3>1. r = <<>> /\ openDevices'[d] = NoPath
      BY <1>1, <2>1, <2>2, Removing, EffectHere
    <3> QED
      BY <3>1, MonitorAloneAgrees
  <2>3. CASE Head(s).op # "forget"
    <3>1. r \in Removals /\ r # <<>>
      BY <1>1, <2>1, <2>3, Removing
    <3>2. r \notin Fillings
      BY <3>1, LastWord
    <3>3. Fills(d, r)'
      BY <3>2 DEF Fills
    <3> QED
      BY <3>1, <3>3, MonitorAloneAgrees
  <2> QED
    BY <2>2, <2>3
<1>2. CASE s \in Fillings
  <2>1. s # <<Do("forget")>>
    <3>1. Head(s).op # "forget"
      BY <1>2, Filling
    <3> QED
      BY <3>1, Fields
  <2>2. openDevices[d] # NoPath
    <3>1. ASSUME NEW p \in Paths, s = AddScript(p) PROVE FALSE
      BY <1>2, <3>1, LastWord
    <3> QED
      BY <3>1 DEF HandleSlot
  <2>3. h \in Handles /\ heap[h] = openDevices[d]
    BY <2>1, <2>2 DEF HandleSlot
  <2>4. Fills(d, s)
    BY DEF AgreeSlot
  <2>5. (r # <<>> => Fills(d, r)') /\ (r = <<>> => Serves(d, <<>>)')
    BY <1>2, <2>3, <2>4, FillsStep
  <2> QED
    BY <2>5, MonitorAloneAgrees
<1>3. ASSUME NEW p \in Paths, s = AddScript(p) PROVE AgreeSlot(d)'
  <2>1. r = Tail(AddScript(p))
    BY <1>3, AddBegins DEF Rest
  <2>2. r \in Fillings /\ Head(r).op = "identify" /\ r # <<>>
    <3>1. r \in Fillings /\ Head(r).op = "identify"
      BY <2>1, AddBegins
    <3> QED
      BY <3>1, Filling
  <2>3. Fills(d, r)'
    BY <2>2 DEF Fills
  <2> QED
    BY <2>2, <2>3, MonitorAloneAgrees
<1> QED
  BY <1>1, <1>2, <1>3 DEF HandleSlot

\* monitorDevices leaves a unit playing, or a slot empty, and no unit but the slot's is reached.
LEMMA MonitorAgrees ==
    ASSUME Overlaps \subseteq {"notifier"}, TypeInv, UniqueOpen, TurnsInv, HandleInv, AgreeInv, Monitor
    PROVE  \A e \in Slots : AgreeSlot(e)'
<1> SUFFICES ASSUME NEW e \in Slots PROVE AgreeSlot(e)'
  OBVIOUS
<1>1. /\ TableTypes /\ mI \in Slots /\ running \in [Units -> BOOLEAN] /\ AgreeSlot(e)
      /\ \A d \in Slots : SlotInv(d) /\ HandleSlot(d)
  BY AllTypes DEF TypeInv, TypeOK, HandleInv, AgreeInv, TurnsInv
<1>2. UNCHANGED <<plugs, present, script>>
  <2>1. CASE MonitorStep
    BY <2>1, OperationFrame DEF MonitorStep, clients
  <2>2. CASE ~MonitorStep
    BY <2>2 DEF Monitor, Enumerate, Keep, Remove, Pass, Add, clients, world
  <2> QED
    BY <2>1, <2>2
<1>3. ASSUME UNCHANGED <<openDevices, status, brightness, saved, running>>, ~MonitorBusy(e), ~MonitorBusy(e)'
      PROVE  AgreeSlot(e)'
  <2>1. Alive(openDevices[e])' <=> Alive(openDevices[e])
    BY <1>2, <1>3 DEF Alive
  <2> QED
    BY <1>1, <1>2, <1>3, <2>1, AgreeFrame
<1>4. CASE Enumerate \/ Keep \/ Pass
  <2>1. UNCHANGED <<openDevices, status, brightness, saved, running>> /\ mScript = <<>> /\ mScript' = <<>>
    BY <1>4 DEF Enumerate, Keep, Pass, AtSlot, table, world, TypeInv, MonitorInv
  <2> QED
    BY <1>3, <2>1 DEF MonitorBusy
<1>5. ASSUME MonitorBusy(e)', mScript' \notin Fillings, \A c \in Clients : script[c][e] = <<>>
      PROVE  AgreeSlot(e)'
  <2>1. Fills(e, mScript)'
    BY <1>5 DEF Fills
  <2> QED
    BY <1>2, <1>5, <2>1, MonitorAloneAgrees
<1>6. ASSUME NEW p, Remove \/ Add(p) PROVE AgreeSlot(e)'
  <2>1. /\ UNCHANGED <<openDevices, status, brightness, saved, running, mI>> /\ mScript = <<>>
        /\ mScript' \in {RemoveScript, AddScript(p)} /\ MayBegin("monitor", mI)
    BY <1>6 DEF Remove, Add, AtSlot, table, world
  <2>2. mScript' \notin Fillings /\ mScript' # <<>>
    <3>1. RemoveScript \in Removals
      BY DEF Removals
    <3>2. RemoveScript \notin Fillings /\ RemoveScript # <<>>
      BY <3>1, LastWord, Removing
    <3>3. AddScript(p) \notin Fillings /\ AddScript(p) # <<>>
      BY LastWord, AddBegins
    <3> QED
      BY <2>1, <3>2, <3>3
  <2>3. CASE e = mI
    <3>1. \A c \in Clients : script[c][e] = <<>>
      BY <1>1, <2>1, <2>3, Begins
    <3> QED
      BY <1>5, <2>1, <2>2, <2>3, <3>1 DEF MonitorBusy
  <2>4. CASE e # mI
    BY <1>3, <2>1, <2>4 DEF MonitorBusy
  <2> QED
    BY <2>3, <2>4
<1>7. CASE MonitorStep
  <2>1. PICK s : s = mScript
    OBVIOUS
  <2>2. PICK d \in Slots : d = mI
    BY <1>1
  <2>3. PICK r : r = Rest(s, d)
    OBVIOUS
  <2>4. PICK h : h = handle[d]
    OBVIOUS
  <2>5. s # <<>> /\ Operation(Head(s), d, h) /\ mScript' = r /\ (r # <<>> => mI' = d)
    BY <1>7, <2>1, <2>2, <2>3, <2>4 DEF MonitorStep
  <2>6. MonitorBusy(d) /\ (MonitorBusy(d)' <=> r # <<>>)
    BY <2>1, <2>2, <2>5 DEF MonitorBusy
  <2>7. CASE e = d
    <3>1. \A c \in Clients : script'[c][d] = <<>>
      BY <1>1, <1>2, <2>6 DEF SlotInv
    <3>2. HandleSlot(d) /\ AgreeSlot(d) /\ Operation(Head(s), d, h) /\ mScript' = r
      BY <1>1, <2>5, <2>7
    <3>3. AgreeSlot(d)'
      BY <1>1, <2>1, <2>3, <2>4, <2>6, <3>1, <3>2, MonitorStepAgrees
    <3> QED
      BY <2>7, <3>3
  <2>8. CASE e # d
    <3>1. openDevices'[e] = openDevices[e] /\ status'[e] = status[e]
      BY <1>1, <2>5, <2>8, EffectElsewhere
    <3>2. ~MonitorBusy(e) /\ ~MonitorBusy(e)'
      BY <2>2, <2>5, <2>8 DEF MonitorBusy
    <3>3. ASSUME Alive(openDevices[e])
          PROVE  \/ Head(s).op \in TableOps \cup {"close"}
                 \/ h \notin Handles \/ heap[h] # openDevices[e]
      <4>1. HandleSlot(d)
        BY <1>1
      <4>2. CASE s \in Removals
        <5>1. Head(s).op \in {"status", "clear", "lock", "removed", "close", "forget"}
          BY <4>2, Removing
        <5> QED
          BY <5>1 DEF TableOps
      <4>3. CASE s \in Fillings
        <5>1. s # <<Do("forget")>>
          <6>1. Head(s).op # "forget"
            BY <4>3, Filling
          <6> QED
            BY <6>1, Fields
        <5>2. openDevices[d] # NoPath
          <6>1. ASSUME NEW p \in Paths, s = AddScript(p) PROVE FALSE
            BY <4>3, <6>1, LastWord
          <6> QED
            BY <2>1, <2>6, <4>1, <6>1 DEF HandleSlot
        <5>3. heap[h] = openDevices[d]
          BY <2>1, <2>4, <4>1, <5>1, <5>2 DEF HandleSlot
        <5> QED
          BY <2>8, <3>3, <5>2, <5>3 DEF UniqueOpen
      <4>4. ASSUME NEW p \in Paths, s = AddScript(p) PROVE Head(s).op \in TableOps
        BY <4>4, AddBegins DEF TableOps
      <4> QED
        BY <2>1, <2>6, <4>1, <4>2, <4>3, <4>4 DEF HandleSlot
    <3>4. h \in Handles \cup {None}
      BY <1>1, <2>4 DEF TableTypes
    <3>5. ASSUME Alive(openDevices[e])
          PROVE  /\ brightness'[e] = brightness[e]
                 /\ saved'[openDevices[e][1]] = saved[openDevices[e][1]]
                 /\ running'[openDevices[e][1]] = running[openDevices[e][1]]
      BY <1>1, <2>5, <2>8, <3>3, <3>4, <3>5, UnitElsewhere
    <3>6. Alive(openDevices[e])' => Alive(openDevices[e])
      BY <1>2, <3>1 DEF Alive
    <3> QED
      BY <1>1, <1>2, <3>1, <3>2, <3>5, <3>6, AgreeFrame
  <2> QED
    BY <2>7, <2>8
<1> QED
  BY <1>4, <1>6, <1>7 DEF Monitor

\* What a unit does is known of every unit.
LEMMA RunningTypes ==
    ASSUME running \in [Units -> BOOLEAN], [Next]_vars
    PROVE  running' \in [Units -> BOOLEAN]
<1>1. ASSUME NEW o, NEW d, NEW h, Operation(o, d, h) PROVE running' \in [Units -> BOOLEAN]
  <2>1. CASE TableOp(o, d) \/ CloseOp(o, d, h)
    BY <2>1 DEF TableOp, CloseOp, world
  <2>2. CASE HidOp(o, d, h)
    <3>1. \E u : running' = running \/ running' = [running EXCEPT ![u] = o.op = "start"]
      BY <2>2 DEF HidOp
    <3>2. PICK b \in BOOLEAN : b = (o.op = "start")
      OBVIOUS
    <3> QED
      BY <3>1, <3>2
  <2> QED
    BY <1>1, <2>1, <2>2 DEF Operation
<1>2. CASE Monitor
  <2>1. CASE MonitorStep
    BY <1>1, <2>1 DEF MonitorStep
  <2>2. CASE ~MonitorStep
    BY <1>2, <2>2 DEF Monitor, Enumerate, Keep, Remove, Pass, Add, world
  <2> QED
    BY <2>1, <2>2
<1>3. ASSUME NEW c \in Clients, Client(c) PROVE running' \in [Units -> BOOLEAN]
  <2>1. CASE \E d \in Slots : ClientStep(c, d)
    BY <1>1, <2>1 DEF ClientStep
  <2>2. CASE ~\E d \in Slots : ClientStep(c, d)
    BY <1>3, <2>2 DEF Client, Connect, Leave, Gone, runCommandTypo, runCommand, Guard, CheckLock, world
  <2> QED
    BY <2>1, <2>2
<1>4. ASSUME NEW u \in Units, Plug(u) \/ Unplug(u) PROVE running' \in [Units -> BOOLEAN]
  BY <1>4 DEF Plug, Unplug
<1>5. CASE Notifier \/ UNCHANGED vars
  BY <1>5 DEF Notifier, SendUpdate, ClearUpdate, vars, world
<1> QED
  BY <1>2, <1>3, <1>4, <1>5 DEF Next

\* Every step keeps the table and the units together.
LEMMA AgreeStep ==
    ASSUME Overlaps \subseteq {"notifier"}, Words \cap Uploads = {},
           IndInv, TurnsInv, HandleInv, AgreeInv, [Next]_vars
    PROVE  AgreeInv'
<1>1. TypeInv /\ UniqueOpen /\ TableTypes /\ running \in [Units -> BOOLEAN]
  BY AllTypes DEF IndInv, TypeInv, AgreeInv
<1> SUFFICES \A e \in Slots : AgreeSlot(e)'
  BY <1>1, RunningTypes DEF AgreeInv
<1>2. ASSUME UNCHANGED <<openDevices, status, brightness, saved, script, mI, mScript>>, NEW e \in Slots,
             Alive(openDevices[e])' =>
                Alive(openDevices[e]) /\ running'[openDevices[e][1]] = running[openDevices[e][1]]
      PROVE  AgreeSlot(e)'
  <2>1. AgreeSlot(e) /\ (MonitorBusy(e)' <=> MonitorBusy(e))
    BY <1>2 DEF AgreeInv, MonitorBusy
  <2> QED
    BY <1>2, <2>1, AgreeFrame
<1>3. ASSUME UNCHANGED vars \/ Notifier, NEW e \in Slots PROVE AgreeSlot(e)'
  <2>1. UNCHANGED <<openDevices, status, brightness, plugs, present, saved, running, script, mI, mScript>>
    BY <1>3 DEF vars, table, clients, monitor, world, Notifier, SendUpdate, ClearUpdate
  <2>2. Alive(openDevices[e])' => Alive(openDevices[e])
    BY <2>1 DEF Alive
  <2> QED
    BY <1>2, <2>1, <2>2
<1>4. ASSUME NEW u \in Units, Unplug(u), NEW e \in Slots PROVE AgreeSlot(e)'
  <2>1. /\ UNCHANGED <<openDevices, status, brightness, plugs, saved, running, script, mI, mScript>>
        /\ present' = [present EXCEPT ![u] = FALSE]
    BY <1>4 DEF Unplug, table, clients, monitor
  <2>2. present \in [Units -> BOOLEAN]
    BY <1>1 DEF TypeInv, WorldInv
  <2>3. Alive(openDevices[e])' => Alive(openDevices[e])
    BY <1>1, <2>1, <2>2 DEF Alive, TableTypes, Paths
  <2> QED
    BY <1>2, <2>1, <2>3
<1>5. ASSUME NEW u \in Units, Plug(u), NEW e \in Slots PROVE AgreeSlot(e)'
  <2>1. /\ UNCHANGED <<openDevices, status, brightness, saved, script, mI, mScript>>
        /\ present' = [present EXCEPT ![u] = TRUE]
        /\ plugs' = [plugs EXCEPT ![u] = @ + 1]
        /\ running' = [running EXCEPT ![u] = TRUE]
    BY <1>5 DEF Plug, table, clients, monitor
  <2>2. present \in [Units -> BOOLEAN] /\ plugs \in [Units -> 0 .. MaxPlugs]
    BY <1>1 DEF TypeInv, WorldInv
  <2>3. ASSUME Alive(openDevices[e])'
        PROVE  Alive(openDevices[e]) /\ running'[openDevices[e][1]] = running[openDevices[e][1]]
    <3>1. PICK p : p = openDevices[e]
      OBVIOUS
    <3>2. p # NoPath /\ p[1] \in Units /\ present'[p[1]] /\ plugs'[p[1]] = p[2]
      BY <1>1, <2>1, <2>3, <3>1 DEF Alive, TableTypes, Paths
    <3>3. p[2] <= plugs[p[1]]
      BY <3>1, <3>2 DEF HandleInv, HandleSlot, Happened
    <3>4. p[1] # u
      <4>1. ASSUME p[1] = u PROVE FALSE
        <5>1. PICK n : n = plugs[u]
          OBVIOUS
        <5>2. n \in Nat
          BY <2>2, <5>1, MaxPlugsAssumption
        <5>3. p[2] = n + 1
          BY <2>1, <2>2, <3>2, <4>1, <5>1
        <5>4. p[2] <= n
          BY <3>3, <4>1, <5>1
        <5> QED
          BY <5>2, <5>3, <5>4
      <4> QED
        BY <4>1
    <3>5. present'[p[1]] = present[p[1]] /\ plugs'[p[1]] = plugs[p[1]] /\ running'[p[1]] = running[p[1]]
      BY <1>1, <2>1, <2>2, <3>2, <3>4
    <3> QED
      BY <3>1, <3>2, <3>5 DEF Alive
  <2> QED
    BY <1>2, <2>1, <2>3
<1>6. ASSUME NEW c \in Clients, Client(c), NEW e \in Slots PROVE AgreeSlot(e)'
  BY <1>1, <1>6, ClientAgrees
<1>7. ASSUME Monitor, NEW e \in Slots PROVE AgreeSlot(e)'
  BY <1>1, <1>7, MonitorAgrees
<1> QED
  BY <1>3, <1>4, <1>5, <1>6, <1>7 DEF Next

LEMMA AgreeInit == ASSUME Init PROVE AgreeInv
<1>1. running \in [Units -> BOOLEAN]
  BY DEF Init
<1>2. ASSUME NEW d \in Slots PROVE AgreeSlot(d)
  <2>1. mScript = <<>> /\ openDevices[d] = NoPath /\ \A c \in Clients : script[c][d] = <<>>
    BY <1>2 DEF Init
  <2> QED
    BY <2>1 DEF AgreeSlot, MonitorBusy
<1> QED
  BY <1>1, <1>2 DEF AgreeInv

\* A unit that is there, with nobody at work on its slot, does what the table says, and
\* has the brightness the table has as saved: whatever the clients' commands, whatever
\* units come and go, as long as the other threads wait for each other at a slot (the
\* notifications may be sent in between) and no client uploads a sequence, after which
\* the server does not write the status (lines 578-602).
THEOREM UnitsAgree ==
    ASSUME Overlaps \subseteq {"notifier"}, Words \cap Uploads = {}
    PROVE  Spec => []DeviceAgrees
<1>1. Init => IndInv /\ TurnsInv /\ HandleInv /\ AgreeInv
  BY Starts, TurnsInit, HandleInit, AgreeInit
<1>2. IndInv /\ TurnsInv /\ HandleInv /\ AgreeInv /\ [Next]_vars => IndInv' /\ TurnsInv' /\ HandleInv' /\ AgreeInv'
  BY Preserved, TurnsStep, HandleStep, AgreeStep DEF IndInv
<1>3. ASSUME AgreeInv PROVE DeviceAgrees
  <2> SUFFICES ASSUME NEW d \in Slots, AtWork(d) = {}, Alive(openDevices[d])
               PROVE  StatusAgrees(d) /\ SavedAgrees(d)
    BY DEF DeviceAgrees, StatusAgrees, SavedAgrees
  <2>1. Free(d)
    <3>1. "command" \notin AtWork(d) /\ "monitor" \notin AtWork(d)
      OBVIOUS
    <3> QED
      BY <3>1 DEF AtWork, Free, MonitorBusy
  <2>2. Serves(d, <<>>)
    BY <1>3, <2>1 DEF AgreeInv, AgreeSlot, Alive
  <2>3. Saves(d, <<>>) /\ Acts(d, <<>>)
    BY <2>2 DEF Serves
  <2> QED
    BY <2>3, SavesEmpty, ActsEmpty
<1> QED
  BY <1>1, <1>2, <1>3, PTL DEF Spec
=============================================================================
