------------------------ MODULE ServerDevicesProofs ------------------------
(***************************************************************************)
(* Theorems about ServerDevices, for any number of slots, clients, units   *)
(* and commands: first for every interleaving of the threads (any          *)
(* Overlaps), then for threads that take turns on a slot, all but          *)
(* sendNotifications (Overlaps \subseteq {"notifier"}): what is true of a  *)
(* slot when nobody is at work on it.                                      *)
(***************************************************************************)
EXTENDS ServerDevices, SequenceTheorems, TLAPS

-----------------------------------------------------------------------------
(* The scripts, by the operations they are made of.                        *)

\* The operations of a command thread that sets a status to a member of Shown and a
\* lock to a member of Holders.
Simple(Shown, Holders) ==
    [op : {"start", "stop", "show", "touch", "get", "putSaved", "tempFromSaved", "savedFromTemp"}]
    \cup [op : {"status"}, to : Shown]
    \cup [op : {"notify"}, to : Flags]
    \cup [op : {"temp", "put"}, to : Levels]
    \cup [op : {"lock"}, to : Holders]
Branch(S) ==
    [op : {"if"}, q : {"status", "temp", "saved", "same"}, arg : Statuses \cup Levels \cup {None},
     yes : Seq(S), no : Seq(S)]
Nested(Shown, Holders) == Simple(Shown, Holders) \cup Branch(Simple(Shown, Holders))
Ops(Shown, Holders)    == Nested(Shown, Holders) \cup Branch(Nested(Shown, Holders))

\* The operations of monitorDevices.
MonitorOps ==
    [op : {"clear", "removed", "close", "forget", "identify", "start", "added"}]
    \cup [op : {"status"}, to : Statuses]
    \cup [op : {"lock"}, to : {None}]

\* What a thread of client c may have before it: a client in a session works on its own
\* behalf, one that is leaving can only give locks back.
Scripts(c) ==
    IF conn[c] = "in"
    THEN Seq(Ops(Statuses, {None, c})) \cup {<<Set("guard", cmd)>> : cmd \in Commands}
    ELSE IF conn[c] = "leaving" THEN Seq(Simple(Statuses, {None})) ELSE {<<>>}

ScriptInv ==
    /\ script = [c \in Clients |-> [d \in Slots |-> script[c][d]]]
    /\ \A c \in Clients : \A d \in Slots : script[c][d] \in Scripts(c)

\* A new unit is the first thing written to a slot; it is not in another one, nor on the
\* list of units to open.
Adding == \E p \in Paths : /\ mPc = "add" /\ mScript = AddScript(p)
                           /\ p \notin currentDevices /\ \A e \in Slots : openDevices[e] # p
MonitorInv ==
    /\ mScript \in Seq(MonitorOps) \/ Adding
    /\ mPc = "enumerate" => mScript = <<>>

\* The units that are open are taken off the list, slot by slot.
ListInv ==
    \A e \in Slots :
        mPc = "add" \/ (mPc = "remove" /\ (e < mI \/ (e = mI /\ mScript # <<>>)))
        => openDevices[e] \notin currentDevices

WorldInv ==
    /\ inst \in [Clients -> [Slots -> Handles \cup {None}]]
    /\ saved \in [Units -> Levels \cup {0}]
    /\ plugs \in [Units -> 0 .. MaxPlugs]
    /\ present \in [Units -> BOOLEAN]
    /\ \A u \in Units : present[u] => plugs[u] > 0

TypeInv == TypeOK /\ WorldInv /\ ScriptInv /\ MonitorInv

-----------------------------------------------------------------------------
(* Operations and what is left of a script.                                *)

\* Sequences over a smaller set are sequences over a larger one.
LEMMA Wider == ASSUME NEW S, NEW T, S \subseteq T, NEW s \in Seq(S) PROVE s \in Seq(T)
<1>1. Len(s) \in Nat /\ s \in [1 .. Len(s) -> S]
  BY LenProperties
<1>2. s \in [1 .. Len(s) -> T]
  BY <1>1
<1> QED
  BY <1>1, <1>2, SeqDef

\* The operations of a command, one by one.
LEMMA CommandOp ==
    ASSUME NEW Shown, NEW Holders, NEW o \in Ops(Shown, Holders)
    PROVE  /\ o.op \in {"start", "stop", "show", "touch", "get", "putSaved", "tempFromSaved",
                        "savedFromTemp", "status", "notify", "temp", "put", "lock", "if"}
           /\ o.op = "status" => o.to \in Shown
           /\ o.op = "notify" => o.to \in Flags
           /\ o.op \in {"temp", "put"} => o.to \in Levels
           /\ o.op = "lock" => o.to \in Holders
           /\ o.op = "if" => o.yes \in Seq(Ops(Shown, Holders)) /\ o.no \in Seq(Ops(Shown, Holders))
<1>1. CASE o \in Simple(Shown, Holders)
  BY <1>1 DEF Simple
<1>2. CASE o \in Branch(Simple(Shown, Holders))
  <2>1. o.op = "if" /\ o.yes \in Seq(Simple(Shown, Holders)) /\ o.no \in Seq(Simple(Shown, Holders))
    BY <1>2 DEF Branch
  <2>2. Simple(Shown, Holders) \subseteq Ops(Shown, Holders)
    BY DEF Ops, Nested
  <2> QED
    BY <2>1, <2>2, Wider
<1>3. CASE o \in Branch(Nested(Shown, Holders))
  <2>1. o.op = "if" /\ o.yes \in Seq(Nested(Shown, Holders)) /\ o.no \in Seq(Nested(Shown, Holders))
    BY <1>3 DEF Branch
  <2>2. Nested(Shown, Holders) \subseteq Ops(Shown, Holders)
    BY DEF Ops
  <2> QED
    BY <2>1, <2>2, Wider
<1> QED
  BY <1>1, <1>2, <1>3 DEF Ops, Nested

\* The operations of a client that is leaving.
LEMMA LeavingOp ==
    ASSUME NEW o \in Simple(Statuses, {None})
    PROVE  /\ o \in Ops(Statuses, {None}) /\ o.op # "if" /\ (o.op = "lock" => o.to = None)
<1>1. o \in Ops(Statuses, {None})
  BY DEF Ops, Nested
<1> QED
  BY <1>1 DEF Simple

\* The operations of monitorDevices, one by one.
LEMMA MonitorOp ==
    ASSUME NEW o \in MonitorOps
    PROVE  /\ o.op \in {"clear", "removed", "close", "forget", "identify", "start", "added", "status", "lock"}
           /\ o.op = "status" => o.to \in Statuses
           /\ o.op = "lock" => o.to = None
  BY DEF MonitorOps

\* What is left of a script of operations that lead on to others of their kind.
LEMMA Remainder ==
    ASSUME NEW S, NEW s \in Seq(S), s # <<>>, NEW d \in Slots,
           \A o \in S : o.op = "if" => o.yes \in Seq(S) /\ o.no \in Seq(S)
    PROVE  Head(s) \in S /\ Rest(s, d) \in Seq(S)
<1>1. Head(s) \in S /\ Tail(s) \in Seq(S)
  BY HeadTailProperties
<1>2. CASE Head(s).op = "if"
  <2>1. \A r \in Seq(S) : r \o Tail(s) \in Seq(S)
    BY <1>1, ConcatProperties
  <2> QED
    BY <1>1, <1>2, <2>1 DEF Rest
<1>3. CASE Head(s).op # "if"
  BY <1>1, <1>3 DEF Rest
<1> QED
  BY <1>2, <1>3

-----------------------------------------------------------------------------
(* The scripts of runThread are made of the operations of a command.       *)

\* How the operations of a command are made.
LEMMA Building ==
    ASSUME NEW Shown, NEW Holders
    PROVE  /\ \A x \in {"start", "stop", "show", "touch", "get", "putSaved", "tempFromSaved",
                        "savedFromTemp"} : Do(x) \in Simple(Shown, Holders)
           /\ \A x \in Shown : Set("status", x) \in Simple(Shown, Holders)
           /\ \A x \in Flags : Notify(x) \in Simple(Shown, Holders)
           /\ \A x \in Levels : Set("temp", x) \in Simple(Shown, Holders) /\ Set("put", x) \in Simple(Shown, Holders)
           /\ \A x \in Holders : Set("lock", x) \in Simple(Shown, Holders)
           /\ Simple(Shown, Holders) \subseteq Nested(Shown, Holders) /\ Nested(Shown, Holders) \subseteq Ops(Shown, Holders)
           /\ \A q \in {"status", "temp", "saved", "same"}, x \in Statuses \cup Levels \cup {None} :
                 /\ \A r, s \in Seq(Simple(Shown, Holders)) : If(q, x, r, s) \in Nested(Shown, Holders)
                 /\ \A r, s \in Seq(Nested(Shown, Holders)) : If(q, x, r, s) \in Ops(Shown, Holders)
           /\ "LOCK" \in Statuses /\ "IDLE" \in Statuses /\ "PLAY" \in Statuses
           /\ Flags = {"NAME", "BRIGHTNESS", "TEMP_BRIGHTNESS", "STATUS"}
<1>1. /\ \A x \in {"start", "stop", "show", "touch", "get", "putSaved", "tempFromSaved",
                   "savedFromTemp"} : Do(x) \in Simple(Shown, Holders)
      /\ \A x \in Shown : Set("status", x) \in Simple(Shown, Holders)
      /\ \A x \in Flags : Notify(x) \in Simple(Shown, Holders)
      /\ \A x \in Levels : Set("temp", x) \in Simple(Shown, Holders) /\ Set("put", x) \in Simple(Shown, Holders)
      /\ \A x \in Holders : Set("lock", x) \in Simple(Shown, Holders)
  BY DEF Do, Set, Notify, Simple
<1>2. ASSUME NEW q \in {"status", "temp", "saved", "same"}, NEW x \in Statuses \cup Levels \cup {None},
             NEW S, NEW r \in Seq(S), NEW s \in Seq(S)
      PROVE  If(q, x, r, s) \in Branch(S)
  BY DEF If, Branch
<1>3. Simple(Shown, Holders) \subseteq Nested(Shown, Holders) /\ Nested(Shown, Holders) \subseteq Ops(Shown, Holders)
  BY DEF Nested, Ops
<1>4. ASSUME NEW q \in {"status", "temp", "saved", "same"}, NEW x \in Statuses \cup Levels \cup {None}
      PROVE  /\ \A r, s \in Seq(Simple(Shown, Holders)) : If(q, x, r, s) \in Nested(Shown, Holders)
             /\ \A r, s \in Seq(Nested(Shown, Holders)) : If(q, x, r, s) \in Ops(Shown, Holders)
  BY <1>2 DEF Nested, Ops
<1>5. /\ "LOCK" \in Statuses /\ "IDLE" \in Statuses /\ "PLAY" \in Statuses
      /\ Flags = {"NAME", "BRIGHTNESS", "TEMP_BRIGHTNESS", "STATUS"}
  BY DEF Statuses, Flags
<1> QED
  BY <1>1, <1>3, <1>4, <1>5

\* Short scripts.
LEMMA Short ==
    ASSUME NEW S
    PROVE  /\ <<>> \in Seq(S)
           /\ \A a \in S : <<a>> \in Seq(S)
           /\ \A a, b \in S : <<a, b>> \in Seq(S)
           /\ \A a, b, c \in S : <<a, b, c>> \in Seq(S)
           /\ \A a, b, c, d, e \in S : <<a, b, c, d, e>> \in Seq(S)
           /\ \A r, s \in Seq(S) : r \o s \in Seq(S)
           /\ \A r \in Seq(S), a \in S : Append(r, a) \in Seq(S)
<1>1. \A r, s \in Seq(S) : r \o s \in Seq(S)
  BY ConcatProperties
<1>2. \A r \in Seq(S), a \in S : Append(r, a) \in Seq(S)
  BY AppendProperties
<1> QED
  BY <1>1, <1>2

\* Whatever the command, its thread sets a lock to nobody or to its own client; only
\* "lock" and "unlock" touch the lock and the status LOCK.
LEMMA BodyScripts ==
    ASSUME NEW Shown, {"IDLE", "PLAY"} \subseteq Shown, NEW Holders, NEW c, NEW cmd \in Commands,
           cmd.word \notin {"lock", "unlock"} \/ ("LOCK" \in Shown /\ {None, c} \subseteq Holders)
    PROVE  Body(c, cmd) \in Seq(Ops(Shown, Holders))
<1> DEFINE S == Simple(Shown, Holders)
           N == Nested(Shown, Holders)
           O == Ops(Shown, Holders)
           locking == "LOCK" \in Shown /\ {None, c} \subseteq Holders
<1>1. S \subseteq N /\ N \subseteq O
  BY Building
<1>2. \A s : (s \in Seq(S) => s \in Seq(N) /\ s \in Seq(O)) /\ (s \in Seq(N) => s \in Seq(O))
  BY <1>1, Wider
<1>3. \A x \in {"start", "stop", "show", "touch", "get", "putSaved", "tempFromSaved",
                "savedFromTemp"} : Do(x) \in S /\ Do(x) \in N /\ Do(x) \in O
  BY <1>1, Building
<1>4. /\ \A x \in {"IDLE", "PLAY"} : Set("status", x) \in S
      /\ \A x \in {"LOCK", "IDLE", "PLAY"} : x \in Statuses
      /\ \A x \in {"NAME", "BRIGHTNESS", "TEMP_BRIGHTNESS", "STATUS"} :
            Notify(x) \in S /\ Notify(x) \in N /\ Notify(x) \in O
      /\ locking => /\ Set("lock", c) \in S /\ Set("lock", None) \in S
                    /\ Set("status", "LOCK") \in S
  BY <1>1, Building
<1>5. \A v \in Levels : Set("temp", v) \in S /\ Set("put", v) \in S /\ Set("put", v) \in N
  BY <1>1, Building
<1>6. ASSUME NEW q \in {"status", "temp", "saved", "same"}, NEW x \in Statuses \cup Levels \cup {None}
      PROVE  /\ \A r, s \in Seq(S) : If(q, x, r, s) \in N /\ If(q, x, r, s) \in O
             /\ \A r, s \in Seq(N) : If(q, x, r, s) \in O
  BY <1>1, Building
<1> HIDE DEF S, N, O, locking
<1>7. \A x \in {"IDLE", "PLAY"} : Now(x) \in Seq(S)
  BY <1>4, Short DEF Now
<1>8. ASSUME locking PROVE Release \in Seq(S)
  <2>1. <<Do("stop")>> \in Seq(S) /\ <<Set("lock", None)>> \in Seq(S) /\ Now("IDLE") \in Seq(S)
    BY <1>3, <1>4, <1>7, <1>8, Short
  <2> QED
    BY <2>1, Short DEF Release
<1>9. ShowIfIdle \in N /\ \A v \in Levels : NewTemp(v) \in Seq(S)
  <2>1. <<Do("show")>> \in Seq(S) /\ <<>> \in Seq(S)
    BY <1>3, Short
  <2>2. \A v \in Levels : NewTemp(v) \in Seq(S)
    BY <1>4, <1>5, Short DEF NewTemp
  <2> QED
    BY <1>4, <1>6, <2>1, <2>2 DEF ShowIfIdle, When
<1>10. BecomeIdle \in O /\ <<>> \in Seq(S) /\ <<>> \in Seq(N) /\ <<>> \in Seq(O)
  BY <1>4, <1>6, <1>7, Short DEF BecomeIdle
<1>11. ASSUME locking PROVE LockScript(c) \in Seq(O)
  <2>1. <<Set("status", "LOCK"), Set("lock", c), Notify("STATUS")>> \in Seq(S)
    BY <1>4, <1>11, Short
  <2> QED
    BY <1>4, <1>6, <1>10, <2>1, Short DEF LockScript
<1>12. ASSUME locking PROVE UnlockScript \in Seq(O)
  BY <1>12, <1>4, <1>6, <1>8, <1>10, Short DEF UnlockScript, When
<1>13. NameScript \in Seq(O)
  BY <1>3, <1>4, Short DEF NameScript
<1>14. ASSUME NEW v \in Levels PROVE TempScript(v) \in Seq(O)
  <2>1. Append(NewTemp(v), ShowIfIdle) \in Seq(N)
    BY <1>2, <1>9, Short
  <2> QED
    BY <1>6, <1>10, <2>1, Short DEF TempScript
<1>15. ResetScript \in Seq(O) /\ SaveScript \in Seq(O)
  <2>1. /\ <<Do("tempFromSaved"), Notify("TEMP_BRIGHTNESS")>> \in Seq(S)
        /\ <<Do("savedFromTemp"), Do("putSaved"), Notify("BRIGHTNESS")>> \in Seq(S)
    BY <1>3, <1>4, Short
  <2> QED
    BY <1>6, <1>10, <2>1, Short DEF ResetScript, SaveScript
<1>16. ASSUME NEW v \in Levels PROVE BrightnessScript(v) \in Seq(O)
  <2>1. <<Notify("TEMP_BRIGHTNESS"), Do("tempFromSaved")>> \in Seq(S)
    BY <1>3, <1>4, Short
  <2>2. If("same", None, <<>>, <<Notify("TEMP_BRIGHTNESS"), Do("tempFromSaved")>>) \in N
    BY <1>6, <1>10, <2>1
  <2>3. <<Set("put", v), Do("get"), Notify("BRIGHTNESS"),
          If("same", None, <<>>, <<Notify("TEMP_BRIGHTNESS"), Do("tempFromSaved")>>), ShowIfIdle>> \in Seq(N)
    BY <1>3, <1>4, <1>5, <1>9, <2>2, Short
  <2> QED
    BY <1>6, <1>10, <2>3, Short DEF BrightnessScript
<1>17. ASSUME NEW v \in Levels \cup {None} PROVE ColorScript(v) \in Seq(O)
  <2>1. <<BecomeIdle, Do("show")>> \in Seq(O)
    BY <1>3, <1>10, Short
  <2>2. v # None => <<If("temp", v, <<>>, NewTemp(v))>> \in Seq(O)
    BY <1>6, <1>9, <1>10, Short
  <2> QED
    BY <1>10, <2>1, <2>2, Short DEF ColorScript
<1>18. ColorQueryScript \in Seq(O)
  <2>1. When("status", "PLAY", <<Do("start")>>) \in O
    BY <1>3, <1>4, <1>6, <1>10, Short DEF When
  <2>2. \A a, b, e, f \in O : <<a, b, e, f>> \in Seq(O)
    OBVIOUS
  <2> QED
    BY <1>3, <1>10, <2>1, <2>2 DEF ColorQueryScript
<1>19. UploadScript(TRUE) \in Seq(O) /\ UploadScript(FALSE) \in Seq(O)
  <2>1. <<Do("stop"), Do("show")>> \in Seq(O) /\ <<Do("touch"), Do("start")>> \in Seq(O)
    BY <1>3, Short
  <2> QED
    BY <1>10, <2>1, Short DEF UploadScript
<1>20. <<Do("touch")>> \in Seq(O)
  BY <1>3, Short
<1>21. <<Do("start")>> \o Now("PLAY") \in Seq(O) /\ <<Do("stop")>> \o Now("IDLE") \in Seq(O)
  BY <1>2, <1>3, <1>7, Short
<1>22. /\ cmd.word \in {"brightness temp", "brightness"} => cmd.arg \in Levels
       /\ cmd.arg \in Levels \cup {None}
       /\ cmd.word \in {"lock", "unlock"} => locking
  BY DEF Commands, Plain, WithLevel, locking
<1>23. Body(c, cmd) \in Seq(O)
  BY <1>10, <1>11, <1>12, <1>13, <1>14, <1>15, <1>16, <1>17, <1>18, <1>19, <1>20, <1>21, <1>22 DEF Body
<1> QED
  BY <1>23 DEF O

\* So do a command that was let through and one that was not.
LEMMA ThreadScripts ==
    ASSUME NEW c, NEW d, NEW cmd \in Commands PROVE runThread(c, d, cmd) \in Seq(Ops(Statuses, {None, c}))
<1>1. Body(c, cmd) \in Seq(Ops(Statuses, {None, c})) /\ <<>> \in Seq(Ops(Statuses, {None, c}))
  BY BodyScripts, Short DEF Statuses
<1>2. Release \in Seq(Simple(Statuses, {None, c})) /\ <<Set("lock", None)>> \in Seq(Simple(Statuses, {None, c}))
  <2>1. /\ Do("stop") \in Simple(Statuses, {None, c}) /\ Set("lock", None) \in Simple(Statuses, {None, c})
        /\ Set("status", "IDLE") \in Simple(Statuses, {None, c}) /\ Notify("STATUS") \in Simple(Statuses, {None, c})
    BY Building
  <2>2. <<Do("stop")>> \in Seq(Simple(Statuses, {None, c})) /\ <<Set("lock", None)>> \in Seq(Simple(Statuses, {None, c}))
        /\ Now("IDLE") \in Seq(Simple(Statuses, {None, c}))
    BY <2>1, Short DEF Now
  <2> QED
    BY <2>2, Short DEF Release
<1>3. ForceUnlockScript \in Seq(Ops(Statuses, {None, c}))
  <2>1. If("status", "LOCK", Release, <<Set("lock", None)>>) \in Nested(Statuses, {None, c})
    BY <1>2, Building
  <2>2. If("status", "LOCK", Release, <<Set("lock", None)>>) \in Ops(Statuses, {None, c})
    BY <2>1, Building
  <2> QED
    BY <2>2, Short DEF ForceUnlockScript
<1> QED
  BY <1>1, <1>3 DEF runThread

\* A client that is leaving only gives back its lock.
LEMMA CleanupScripts == CleanupScript \in Seq(Simple(Statuses, {None}))
<1>1. /\ Do("stop") \in Simple(Statuses, {None}) /\ Set("lock", None) \in Simple(Statuses, {None})
      /\ Set("status", "IDLE") \in Simple(Statuses, {None}) /\ Notify("STATUS") \in Simple(Statuses, {None})
  BY Building
<1>2. <<Set("lock", None), Do("stop")>> \in Seq(Simple(Statuses, {None})) /\ Now("IDLE") \in Seq(Simple(Statuses, {None}))
  BY <1>1, Short DEF Now
<1> QED
  BY <1>2, Short DEF CleanupScript

\* The first thing the clean-up does is to release the lock.
LEMMA CleanupBegins == CleanupScript # <<>> /\ Head(CleanupScript) = Set("lock", None)
  BY DEF CleanupScript, Now

\* What monitorDevices does to a slot it empties or fills.
LEMMA MonitorScripts ==
    /\ RemoveScript \in Seq(MonitorOps) /\ RemoveScript # <<>>
    /\ \A p : AddScript(p) # <<>> /\ Head(AddScript(p)) = Set("path", p) /\ Tail(AddScript(p)) \in Seq(MonitorOps)
<1>1. /\ \A x \in {"clear", "removed", "close", "forget", "identify", "start", "added"} : Do(x) \in MonitorOps
      /\ Set("status", "DISCONNECT") \in MonitorOps /\ Set("status", "PLAY") \in MonitorOps
      /\ Set("lock", None) \in MonitorOps
  BY DEF Do, Set, MonitorOps, Statuses
<1>3. RemoveScript \in Seq(MonitorOps) /\ RemoveScript # <<>>
  BY <1>1 DEF RemoveScript
<1>4. ASSUME NEW p
      PROVE  /\ AddScript(p) # <<>> /\ Head(AddScript(p)) = Set("path", p)
             /\ Tail(AddScript(p)) \in Seq(MonitorOps)
  <2>1. Tail(AddScript(p)) = <<Do("identify"), Do("start"), Set("status", "PLAY"), Do("clear"),
                               Set("lock", None), Do("added")>>
    BY DEF AddScript
  <2> QED
    BY <1>1, <2>1 DEF AddScript
<1> QED
  BY <1>3, <1>4

-----------------------------------------------------------------------------
(* What an operation does to the table.                                    *)

\* Only "lock" changes a lock, only "path" and "forget" change what is open.
LEMMA OperationFrame ==
    ASSUME NEW o, NEW d, NEW h, Operation(o, d, h)
    PROVE  /\ lock' = IF o.op = "lock" THEN [lock EXCEPT ![d] = o.to] ELSE lock
           /\ openDevices' = IF o.op = "path" THEN [openDevices EXCEPT ![d] = o.to]
                             ELSE IF o.op = "forget" THEN [openDevices EXCEPT ![d] = NoPath]
                             ELSE openDevices
           /\ UNCHANGED <<handle, plugs, present>> /\ o.op # "guard"
<1>1. CASE TableOp(o, d)
  BY <1>1 DEF TableOp, TableOps, world
<1>2. CASE HidOp(o, d, h)
  BY <1>2 DEF HidOp
<1>3. CASE CloseOp(o, d, h)
  BY <1>3 DEF CloseOp, table, world
<1> QED
  BY <1>1, <1>2, <1>3 DEF Operation

\* The part of the types that operations are responsible for.
TableTypes ==
    /\ openDevices \in [Slots -> Paths \cup {NoPath}]
    /\ serial \in [Slots -> Units \cup {None, ZeroSerial}]
    /\ handle \in [Slots -> Handles \cup {None}]
    /\ brightness \in [Slots -> Levels \cup {0}]
    /\ tempBrightness \in [Slots -> Levels \cup {0}]
    /\ status \in [Slots -> Statuses]
    /\ notify \in [Slots -> SUBSET Flags]
    /\ lock \in [Slots -> Clients \cup {None}]
    /\ heap \in [Handles -> Paths \cup {NoPath}]
    /\ saved \in [Units -> Levels \cup {0}]

\* An operation with arguments of its kind.
Lawful(o) ==
    /\ o.op = "status" => o.to \in Statuses
    /\ o.op = "notify" => o.to \in Flags
    /\ o.op \in {"temp", "put"} => o.to \in Levels
    /\ o.op = "lock" => o.to \in Clients \cup {None}
    /\ o.op = "path" => o.to \in Paths

\* A lawful operation leaves the table and the units well-formed.
LEMMA OperationTypes ==
    ASSUME TableTypes, NEW o, Lawful(o), NEW d \in Slots, NEW h \in Handles \cup {None}, Operation(o, d, h)
    PROVE  TableTypes'
<1>1. CASE TableOp(o, d)
  <2> USE DEF TableTypes, Lawful
  <2>1. status' \in [Slots -> Statuses] /\ lock' \in [Slots -> Clients \cup {None}]
    BY <1>1 DEF TableOp
  <2>2. notify' \in [Slots -> SUBSET Flags]
    BY <1>1 DEF TableOp
  <2>3. brightness' \in [Slots -> Levels \cup {0}] /\ tempBrightness' \in [Slots -> Levels \cup {0}]
    BY <1>1 DEF TableOp
  <2>4. openDevices' \in [Slots -> Paths \cup {NoPath}]
    BY <1>1 DEF TableOp
  <2>5. serial' \in [Slots -> Units \cup {None, ZeroSerial}]
    BY <1>1 DEF TableOp
  <2>6. UNCHANGED <<handle, heap, saved>>
    BY <1>1 DEF TableOp, world
  <2> QED
    BY <2>1, <2>2, <2>3, <2>4, <2>5, <2>6
<1>2. CASE HidOp(o, d, h)
  <2> USE DEF TableTypes, Lawful
  <2> DEFINE p == IF h = None THEN NoPath ELSE heap[h]
             u == p[1]
  <2>1. p \in Paths \cup {NoPath} /\ (Alive(p) => p \in Paths /\ u \in Units)
    <3>1. p \in Paths \cup {NoPath}
      OBVIOUS
    <3>2. \A q \in Paths : q[1] \in Units
      BY DEF Paths
    <3> QED
      BY <3>1, <3>2 DEF Alive
  <2>2. saved' \in [Units -> Levels \cup {0}]
    <3>1. saved' = IF o.op = "put" THEN (IF Alive(p) /\ o.op \in {"put"} THEN [saved EXCEPT ![u] = o.to] ELSE saved)
                   ELSE (IF Alive(p) /\ o.op \in {"putSaved"} THEN [saved EXCEPT ![u] = brightness[d]] ELSE saved)
      BY <1>2 DEF HidOp
    <3> HIDE DEF p, u
    <3> QED
      BY <2>1, <3>1
  <2>3. PICK v \in IF Alive(p) THEN {saved[u]} ELSE IF p = NoPath THEN Levels \cup {0} ELSE {0} :
            brightness' = IF o.op \in {"get", "identify"} THEN [brightness EXCEPT ![d] = v] ELSE brightness
    BY <1>2 DEF HidOp
  <2>4. v \in Levels \cup {0}
    <3> HIDE DEF p, u
    <3> QED
      BY <2>1, <2>3
  <2>5. brightness' \in [Slots -> Levels \cup {0}]
    BY <2>3, <2>4
  <2>6. tempBrightness' \in [Slots -> Levels \cup {0}]
    <3>1. tempBrightness' = IF o.op = "identify" THEN [tempBrightness EXCEPT ![d] = brightness'[d]]
                            ELSE tempBrightness
      BY <1>2 DEF HidOp
    <3> QED
      BY <2>5, <3>1
  <2>7. serial' \in [Slots -> Units \cup {None, ZeroSerial}]
    <3>1. serial' = IF o.op = "identify" THEN [serial EXCEPT ![d] = IF Alive(p) THEN u ELSE ZeroSerial]
                    ELSE serial
      BY <1>2 DEF HidOp
    <3> HIDE DEF p, u
    <3> QED
      BY <2>1, <3>1
  <2>8. UNCHANGED <<openDevices, handle, status, notify, lock, heap>>
    BY <1>2 DEF HidOp
  <2> QED
    BY <2>2, <2>5, <2>6, <2>7, <2>8
<1>3. CASE CloseOp(o, d, h)
  <2>1. heap' \in [Handles -> Paths \cup {NoPath}]
    BY <1>3 DEF CloseOp, TableTypes
  <2>2. UNCHANGED <<table, saved>>
    BY <1>3 DEF CloseOp, world
  <2> QED
    BY <2>1, <2>2 DEF TableTypes, table
<1> QED
  BY <1>1, <1>2, <1>3 DEF Operation

-----------------------------------------------------------------------------
(* The next operation of a thread, and what is left after it.              *)

\* The next operation of a client's thread is lawful, and a lock it sets is its own.
LEMMA ClientOperation ==
    ASSUME TypeInv, NEW c \in Clients, NEW d \in Slots, script[c][d] # <<>>,
           Head(script[c][d]).op # "guard"
    PROVE  /\ Lawful(Head(script[c][d])) /\ Head(script[c][d]).op \notin {"path", "forget"}
           /\ Head(script[c][d]).op = "lock" =>
                 \/ Head(script[c][d]).to = None
                 \/ Head(script[c][d]).to = c /\ conn[c] = "in"
           /\ Rest(script[c][d], d) \in Scripts(c)
<1> DEFINE s == script[c][d]
<1>1. s \in Scripts(c) /\ s # <<>>
  BY DEF TypeInv, ScriptInv
<1>2. CASE conn[c] = "in"
  <2>1. s \in Seq(Ops(Statuses, {None, c}))
    <3>1. ASSUME NEW cmd \in Commands, s = <<Set("guard", cmd)>> PROVE FALSE
      BY <3>1 DEF Set
    <3> QED
      BY <1>1, <1>2, <3>1 DEF Scripts
  <2>2. Head(s) \in Ops(Statuses, {None, c}) /\ Rest(s, d) \in Seq(Ops(Statuses, {None, c}))
    <3>1. \A o \in Ops(Statuses, {None, c}) : o.op = "if" => o.yes \in Seq(Ops(Statuses, {None, c})) /\ o.no \in Seq(Ops(Statuses, {None, c}))
      BY CommandOp
    <3> HIDE DEF s
    <3> QED
      BY <1>1, <2>1, <3>1, Remainder
  <2>3. Rest(s, d) \in Scripts(c)
    BY <1>2, <2>2 DEF Scripts
  <2>4. /\ Lawful(Head(s)) /\ Head(s).op \notin {"path", "forget"}
        /\ Head(s).op = "lock" => Head(s).to \in {None, c}
    <3> HIDE DEF s
    <3> QED
      BY <2>2, CommandOp DEF Lawful
  <2> QED
    BY <1>2, <2>3, <2>4
<1>3. CASE conn[c] = "leaving"
  <2>1. s \in Seq(Simple(Statuses, {None}))
    BY <1>1, <1>3 DEF Scripts
  <2>2. Head(s) \in Simple(Statuses, {None}) /\ Rest(s, d) \in Seq(Simple(Statuses, {None}))
    <3> HIDE DEF s
    <3> QED
      BY <1>1, <2>1, Remainder, LeavingOp
  <2>3. Rest(s, d) \in Scripts(c)
    BY <1>3, <2>2 DEF Scripts
  <2>4. /\ Lawful(Head(s)) /\ Head(s).op \notin {"path", "forget"}
        /\ Head(s).op = "lock" => Head(s).to = None
    <3> HIDE DEF s
    <3> QED
      BY <2>2, LeavingOp, CommandOp DEF Lawful
  <2> QED
    BY <2>3, <2>4
<1>4. conn[c] \in {"in", "leaving"}
  BY <1>1 DEF Scripts
<1> QED
  BY <1>2, <1>3, <1>4

\* The next operation of monitorDevices is lawful, and it sets no lock.
LEMMA MonitorOperation ==
    ASSUME TypeInv, mScript # <<>>
    PROVE  /\ Lawful(Head(mScript))
           /\ Head(mScript).op = "lock" => Head(mScript).to = None
           /\ Head(mScript).op = "path" => /\ mPc = "add" /\ Head(mScript).to \in Paths
                                           /\ Head(mScript).to \notin currentDevices
                                           /\ \A e \in Slots : openDevices[e] # Head(mScript).to
           /\ Rest(mScript, mI) \in Seq(MonitorOps)
<1>1. mI \in Slots /\ (mScript \in Seq(MonitorOps) \/ Adding)
  BY DEF TypeInv, TypeOK, MonitorInv
<1>2. CASE mScript \in Seq(MonitorOps)
  <2>1. \A o \in MonitorOps : o.op = "if" => o.yes \in Seq(MonitorOps) /\ o.no \in Seq(MonitorOps)
    BY MonitorOp
  <2>2. Head(mScript) \in MonitorOps /\ Rest(mScript, mI) \in Seq(MonitorOps)
    BY <1>1, <1>2, <2>1, Remainder
  <2> QED
    BY <2>2, MonitorOp DEF Lawful
<1>3. CASE Adding
  <2>1. PICK p \in Paths : /\ mPc = "add" /\ mScript = AddScript(p)
                           /\ p \notin currentDevices /\ \A e \in Slots : openDevices[e] # p
    BY <1>3 DEF Adding
  <2>2. Head(mScript) = Set("path", p) /\ Tail(mScript) \in Seq(MonitorOps)
    BY <2>1, MonitorScripts
  <2>3. Head(mScript).op = "path" /\ Head(mScript).to = p
    BY <2>2 DEF Set
  <2>4. Rest(mScript, mI) \in Seq(MonitorOps)
    BY <2>2, <2>3 DEF Rest
  <2> QED
    BY <2>1, <2>3, <2>4 DEF Lawful
<1> QED
  BY <1>1, <1>2, <1>3

-----------------------------------------------------------------------------
(* Type correctness.                                                       *)

\* The variables no operation changes.
OtherTypes ==
    /\ conn \in [Clients -> {"out", "in", "leaving"}]
    /\ toCheck \in [Clients -> SUBSET Slots]
    /\ inst \in [Clients -> [Slots -> Handles \cup {None}]]
    /\ mPc \in {"enumerate", "remove", "add"} /\ mI \in Slots
    /\ currentDevices \subseteq Paths
    /\ nAt \in Slots \cup {None}
    /\ plugs \in [Units -> 0 .. MaxPlugs]
    /\ present \in [Units -> BOOLEAN]
    /\ \A u \in Units : present[u] => plugs[u] > 0

\* The types of the table, and those of the rest.
LEMMA AllTypes == TypeOK /\ WorldInv <=> TableTypes /\ OtherTypes
  BY DEF TypeOK, WorldInv, TableTypes, OtherTypes

\* monitorDevices goes on to a slot of the table.
LEMMA NextSlotTypes ==
    ASSUME mPc \in {"remove", "add"}, mI \in Slots, NextSlot
    PROVE  mPc' \in {"enumerate", "remove", "add"} /\ mI' \in Slots
  BY DevicesAssumption DEF NextSlot, MonitorAt, Slots

\* A step of a client preserves the types.
LEMMA ClientTypes ==
    ASSUME TypeInv, NEW c \in Clients, Client(c) PROVE TableTypes' /\ OtherTypes'
<1>1. TableTypes /\ OtherTypes
  BY AllTypes DEF TypeInv
<1>2. CASE Connect(c) \/ Leave(c) \/ Gone(c) \/ runCommandTypo(c)
  <2>1. UNCHANGED <<table, inst, monitor, nAt, world, heap>>
    BY <1>2 DEF Connect, Leave, Gone, runCommandTypo, clients
  <2>2. conn' \in [Clients -> {"out", "in", "leaving"}] /\ toCheck' \in [Clients -> SUBSET Slots]
    BY <1>1, <1>2 DEF OtherTypes, Connect, Leave, Gone, runCommandTypo, clients
  <2> QED
    BY <1>1, <2>1, <2>2 DEF TableTypes, OtherTypes, table, monitor, world
<1>3. ASSUME NEW cmd \in Commands, NEW S \in SUBSET Slots, runCommand(c, cmd, S)
      PROVE  TableTypes' /\ OtherTypes'
  <2>1. UNCHANGED <<table, conn, toCheck, monitor, nAt, world, heap>>
    BY <1>3 DEF runCommand
  <2>2. inst' \in [Clients -> [Slots -> Handles \cup {None}]]
    <3>1. [d \in Slots |-> IF d \in S THEN handle[d] ELSE None] \in [Slots -> Handles \cup {None}]
      BY <1>1 DEF TableTypes
    <3> QED
      BY <1>1, <1>3, <3>1 DEF OtherTypes, runCommand
  <2> QED
    BY <1>1, <2>1, <2>2 DEF TableTypes, OtherTypes, table, monitor, world
<1>4. ASSUME NEW d \in Slots, NEW rest, Proceed(c, d, rest)
      PROVE  inst' \in [Clients -> [Slots -> Handles \cup {None}]]
  BY <1>1, <1>4 DEF Proceed, OtherTypes
<1>5. ASSUME NEW d \in Slots, Guard(c, d) PROVE TableTypes' /\ OtherTypes'
  <2>1. UNCHANGED <<table, conn, toCheck, monitor, nAt, world, heap>>
    BY <1>5 DEF Guard
  <2>2. inst' \in [Clients -> [Slots -> Handles \cup {None}]]
    BY <1>4, <1>5 DEF Guard
  <2> QED
    BY <1>1, <2>1, <2>2 DEF TableTypes, OtherTypes, table, monitor, world
<1>6. ASSUME NEW d \in Slots, ClientStep(c, d) PROVE TableTypes' /\ OtherTypes'
  <2>1. PICK h \in Handles \cup {None} : Operation(Head(script[c][d]), d, h)
    <3>1. (IF inst[c][d] = None THEN handle[d] ELSE inst[c][d]) \in Handles \cup {None}
      BY <1>1 DEF TableTypes, OtherTypes
    <3> QED
      BY <1>6, <3>1 DEF ClientStep
  <2>2. Head(script[c][d]).op # "guard" /\ UNCHANGED <<plugs, present>>
    BY <2>1, OperationFrame
  <2>3. Lawful(Head(script[c][d]))
    BY <1>6, <2>2, ClientOperation DEF ClientStep
  <2>4. TableTypes'
    BY <1>1, <2>1, <2>3, OperationTypes
  <2>5. UNCHANGED <<conn, toCheck, monitor, nAt>>
    BY <1>6 DEF ClientStep
  <2>6. inst' \in [Clients -> [Slots -> Handles \cup {None}]]
    BY <1>4, <1>6 DEF ClientStep
  <2> QED
    BY <1>1, <2>2, <2>4, <2>5, <2>6 DEF OtherTypes, monitor
<1>7. ASSUME NEW d \in Slots, CheckLock(c, d) PROVE TableTypes' /\ OtherTypes'
  <2>1. UNCHANGED <<table, conn, inst, monitor, nAt, world, heap>>
    BY <1>7 DEF CheckLock
  <2>2. toCheck' \in [Clients -> SUBSET Slots]
    BY <1>1, <1>7 DEF CheckLock, OtherTypes
  <2> QED
    BY <1>1, <2>1, <2>2 DEF TableTypes, OtherTypes, table, monitor, world
<1> QED
  BY <1>2, <1>3, <1>5, <1>6, <1>7 DEF Client

\* A step of monitorDevices preserves the types.
LEMMA MonitorTypes ==
    ASSUME TypeInv, Monitor PROVE TableTypes' /\ OtherTypes'
<1>1. TableTypes /\ OtherTypes
  BY AllTypes DEF TypeInv
<1>2. CASE Enumerate
  <2>1. UNCHANGED <<table, clients, nAt, world, heap>> /\ mPc' = "remove" /\ mI' = 0
    BY <1>2 DEF Enumerate, MonitorAt
  <2>2. currentDevices' \subseteq Paths
    <3>1. \A u \in Units : present[u] => <<u, plugs[u]>> \in Paths
      <4>1. \A u \in Units : present[u] => plugs[u] \in 1 .. MaxPlugs
        BY <1>1, MaxPlugsAssumption DEF OtherTypes
      <4> QED
        BY <4>1 DEF Paths
    <3>2. currentDevices' \subseteq {<<u, plugs[u]>> : u \in {v \in Units : present[v]}}
      BY <1>2 DEF Enumerate
    <3> QED
      BY <3>1, <3>2
  <2>3. 0 \in Slots
    BY DevicesAssumption DEF Slots
  <2> QED
    BY <1>1, <2>1, <2>2, <2>3 DEF TableTypes, OtherTypes, table, clients, world
<1>3. CASE Keep
  <2>1. UNCHANGED <<table, clients, nAt, world, heap>> /\ mPc = "remove" /\ NextSlot
        /\ currentDevices' \subseteq currentDevices
    BY <1>3 DEF Keep, AtSlot
  <2>2. mPc' \in {"enumerate", "remove", "add"} /\ mI' \in Slots
    BY <1>1, <2>1, NextSlotTypes DEF OtherTypes
  <2> QED
    BY <1>1, <2>1, <2>2 DEF TableTypes, OtherTypes, table, clients, world
<1>4. CASE Remove
  BY <1>1, <1>4 DEF Remove, TableTypes, OtherTypes, table, clients, world
<1>5. CASE Pass
  <2>1. /\ UNCHANGED <<openDevices, serial, brightness, tempBrightness, status, notify, lock,
                       clients, currentDevices, nAt, world, heap>>
        /\ mPc = "add" /\ NextSlot
    BY <1>5 DEF Pass, AtSlot
  <2>2. mPc' \in {"enumerate", "remove", "add"} /\ mI' \in Slots
    BY <1>1, <2>1, NextSlotTypes DEF OtherTypes
  <2>3. handle' \in [Slots -> Handles \cup {None}]
    BY <1>1, <1>5 DEF Pass, TableTypes, OtherTypes
  <2> QED
    BY <1>1, <2>1, <2>2, <2>3 DEF TableTypes, OtherTypes, clients, world
<1>6. ASSUME NEW p \in Paths, Add(p) PROVE TableTypes' /\ OtherTypes'
  <2>1. /\ UNCHANGED <<openDevices, serial, brightness, tempBrightness, status, notify, lock,
                       clients, mPc, mI, nAt, world>>
        /\ currentDevices' \subseteq currentDevices
    BY <1>6 DEF Add
  <2>2. handle' \in [Slots -> Handles \cup {None}] /\ heap' \in [Handles -> Paths \cup {NoPath}]
    BY <1>1, <1>6 DEF Add, TableTypes, OtherTypes
  <2> QED
    BY <1>1, <2>1, <2>2 DEF TableTypes, OtherTypes, clients, world
<1>7. CASE MonitorStep
  <2>1. /\ mScript # <<>> /\ Operation(Head(mScript), mI, handle[mI])
        /\ NextSlot \/ UNCHANGED <<mPc, mI>>
        /\ UNCHANGED <<clients, currentDevices, nAt>>
    BY <1>7 DEF MonitorStep
  <2>2. mI \in Slots /\ handle[mI] \in Handles \cup {None}
    BY <1>1 DEF TableTypes, OtherTypes
  <2>3. TableTypes'
    BY <1>1, <2>1, <2>2, MonitorOperation, OperationTypes
  <2>4. mPc \in {"remove", "add"}
    BY <1>1, <2>1 DEF OtherTypes, TypeInv, MonitorInv
  <2>5. mPc' \in {"enumerate", "remove", "add"} /\ mI' \in Slots
    BY <2>1, <2>2, <2>4, NextSlotTypes
  <2>6. UNCHANGED <<plugs, present>>
    BY <2>1, OperationFrame
  <2> QED
    BY <1>1, <2>1, <2>3, <2>5, <2>6 DEF OtherTypes, clients
<1> QED
  BY <1>2, <1>3, <1>4, <1>5, <1>6, <1>7 DEF Monitor

\* Every step preserves the types.
LEMMA TypeStep == ASSUME TypeInv, [Next]_vars PROVE TypeOK' /\ WorldInv'
<1>1. TableTypes /\ OtherTypes
  BY AllTypes DEF TypeInv
<1>2. CASE UNCHANGED vars
  BY <1>1, <1>2 DEF vars, table, clients, monitor, world, TableTypes, OtherTypes, TypeOK, WorldInv
<1>3. CASE Notifier
  <2>1. UNCHANGED <<openDevices, serial, handle, brightness, tempBrightness, status, lock,
                    clients, monitor, world, heap>>
    BY <1>3 DEF Notifier, ClearUpdate, SendUpdate, table
  <2>2. notify' \in [Slots -> SUBSET Flags] /\ nAt' \in Slots \cup {None}
    BY <1>1, <1>3 DEF Notifier, ClearUpdate, SendUpdate, table, TableTypes, OtherTypes
  <2> QED
    BY <1>1, <2>1, <2>2 DEF clients, monitor, world, TableTypes, OtherTypes, TypeOK, WorldInv
<1>4. ASSUME NEW u \in Units, Plug(u) \/ Unplug(u) PROVE TypeOK' /\ WorldInv'
  <2>1. UNCHANGED <<table, clients, monitor, nAt, saved, heap>>
    BY <1>4 DEF Plug, Unplug
  <2>2. /\ plugs' \in [Units -> 0 .. MaxPlugs] /\ present' \in [Units -> BOOLEAN]
        /\ \A v \in Units : present'[v] => plugs'[v] > 0
    <3>1. CASE Plug(u)
      <4>1. plugs[u] + 1 \in 0 .. MaxPlugs /\ plugs[u] + 1 > 0
        BY <1>1, <3>1, MaxPlugsAssumption DEF Plug, OtherTypes
      <4>2. PICK n \in 0 .. MaxPlugs : n = plugs[u] + 1
        BY <4>1
      <4>3. plugs' = [plugs EXCEPT ![u] = n] /\ present' = [present EXCEPT ![u] = TRUE]
        BY <3>1, <4>2 DEF Plug
      <4> QED
        BY <1>1, <4>1, <4>2, <4>3 DEF OtherTypes
    <3>2. CASE Unplug(u)
      BY <1>1, <3>2 DEF Unplug, OtherTypes
    <3> QED
      BY <1>4, <3>1, <3>2
  <2> QED
    BY <1>1, <2>1, <2>2 DEF table, clients, monitor, TableTypes, OtherTypes, TypeOK, WorldInv
<1>5. TableTypes' /\ OtherTypes' => TypeOK' /\ WorldInv'
  BY DEF TypeOK, WorldInv, TableTypes, OtherTypes
<1> QED
  BY <1>2, <1>3, <1>4, <1>5, ClientTypes, MonitorTypes DEF Next

-----------------------------------------------------------------------------
(* Who may do what: the scripts of the clients.                            *)

\* Every step preserves what is known of the clients' scripts.
LEMMA ScriptStep == ASSUME TypeInv, [Next]_vars PROVE ScriptInv'
<1>1. /\ script = [c \in Clients |-> [d \in Slots |-> script[c][d]]]
      /\ \A c \in Clients : \A d \in Slots : script[c][d] \in Scripts(c)
      /\ ScriptInv /\ conn \in [Clients -> {"out", "in", "leaving"}]
  BY DEF TypeInv, ScriptInv, TypeOK
<1>2. ASSUME UNCHANGED <<script, conn>> PROVE ScriptInv'
  BY <1>1, <1>2 DEF ScriptInv, Scripts
<1>3. CASE \/ UNCHANGED vars \/ Notifier \/ Monitor \/ \E u \in Units : Plug(u) \/ Unplug(u)
  <2>1. UNCHANGED <<script, conn>>
    BY <1>3 DEF vars, clients, Notifier, ClearUpdate, SendUpdate, Monitor, Enumerate, Keep, Remove, Pass,
                MonitorStep, Add, Plug, Unplug
  <2> QED
    BY <1>2, <2>1
<1>4. ASSUME NEW c \in Clients, NEW d \in Slots, NEW rest \in Scripts(c),
             script' = [script EXCEPT ![c][d] = rest], conn' = conn
      PROVE  ScriptInv'
  <2>1. /\ script' = [b \in Clients |-> [e \in Slots |-> script'[b][e]]]
        /\ script'[c][d] = rest
        /\ \A b \in Clients, e \in Slots : b # c \/ e # d => script'[b][e] = script[b][e]
    <3>1. script' = [b \in Clients |-> [e \in Slots |-> IF b = c /\ e = d THEN rest ELSE script[b][e]]]
      BY <1>1, <1>4
    <3>2. \A b \in Clients, e \in Slots : script'[b][e] = IF b = c /\ e = d THEN rest ELSE script[b][e]
      BY <3>1
    <3>3. [b \in Clients |-> [e \in Slots |-> script'[b][e]]]
            = [b \in Clients |-> [e \in Slots |-> IF b = c /\ e = d THEN rest ELSE script[b][e]]]
      BY <3>2
    <3> QED
      BY <3>1, <3>2, <3>3
  <2>2. \A b \in Clients : Scripts(b)' = Scripts(b)
    BY <1>4 DEF Scripts
  <2>3. ASSUME NEW b \in Clients, NEW e \in Slots PROVE script'[b][e] \in Scripts(b)'
    <3>1. CASE b = c /\ e = d
      BY <1>4, <2>1, <2>2, <3>1
    <3>2. CASE b # c \/ e # d
      BY <1>1, <2>1, <2>2, <3>2
    <3> QED
      BY <3>1, <3>2
  <2> QED
    BY <2>1, <2>3 DEF ScriptInv
<1>5. ASSUME NEW c \in Clients, Client(c) PROVE ScriptInv'
  <2>1. CASE runCommandTypo(c)
    BY <1>2, <2>1 DEF runCommandTypo, clients
  <2>2. CASE Connect(c) \/ Leave(c) \/ Gone(c)
    <3>1. /\ script' = script /\ conn'[c] \in {"in", "leaving", "out"}
          /\ \A b \in Clients : b # c => conn'[b] = conn[b]
          /\ \A d \in Slots : script[c][d] = <<>>
      <4>1. CASE Connect(c)
        BY <1>1, <4>1 DEF Connect, Scripts
      <4>2. CASE Leave(c)
        BY <1>1, <4>2 DEF Leave, Idle
      <4>3. CASE Gone(c)
        BY <1>1, <4>3 DEF Gone, Idle
      <4> QED
        BY <2>2, <4>1, <4>2, <4>3
    <3>2. ASSUME NEW b \in Clients, NEW d \in Slots PROVE script[b][d] \in Scripts(b)'
      <4>1. CASE b = c
        BY <3>1, <4>1, Short DEF Scripts
      <4>2. CASE b # c
        BY <1>1, <3>1, <4>2 DEF Scripts
      <4> QED
        BY <4>1, <4>2
    <3> QED
      BY <1>1, <3>1, <3>2 DEF ScriptInv
  <2>3. ASSUME NEW cmd \in Commands, NEW S \in SUBSET Slots, runCommand(c, cmd, S) PROVE ScriptInv'
    <3>1. /\ conn[c] = "in" /\ conn' = conn
          /\ script' = [script EXCEPT ![c] =
                          [d \in Slots |-> IF d \in S THEN <<Set("guard", cmd)>> ELSE <<>>]]
      BY <2>3 DEF runCommand
    <3>2. <<>> \in Scripts(c) /\ <<Set("guard", cmd)>> \in Scripts(c)
      BY <3>1, Short DEF Scripts
    <3>3. script' = [b \in Clients |-> [e \in Slots |->
                        IF b = c THEN IF e \in S THEN <<Set("guard", cmd)>> ELSE <<>> ELSE script[b][e]]]
      BY <1>1, <3>1
    <3>4. /\ script' = [b \in Clients |-> [e \in Slots |-> script'[b][e]]]
          /\ \A b \in Clients, e \in Slots : script'[b][e] \in Scripts(b)
      BY <1>1, <3>2, <3>3
    <3>5. \A b \in Clients : Scripts(b)' = Scripts(b)
      BY <3>1 DEF Scripts
    <3> QED
      BY <3>4, <3>5 DEF ScriptInv
  <2>4. ASSUME NEW d \in Slots, Guard(c, d) PROVE ScriptInv'
    <3>1. /\ script[c][d] # <<>> /\ Head(script[c][d]).op = "guard" /\ conn' = conn
          /\ script' = [script EXCEPT ![c][d] = runThread(c, d, Head(script[c][d]).to)]
      BY <2>4 DEF Guard, Proceed
    <3>2. conn[c] = "in" /\ Head(script[c][d]).to \in Commands
      <4>1. script[c][d] \in Scripts(c)
        BY <1>1
      <4>2. ASSUME NEW Holders, script[c][d] \in Seq(Ops(Statuses, Holders)) PROVE FALSE
        <5>1. Head(script[c][d]) \in Ops(Statuses, Holders)
          BY <3>1, <4>2, HeadTailProperties
        <5> QED
          BY <3>1, <5>1, CommandOp
      <4>3. script[c][d] \in Seq(Simple(Statuses, {None})) => script[c][d] \in Seq(Ops(Statuses, {None}))
        BY Wider, Building
      <4>4. PICK cmd \in Commands : conn[c] = "in" /\ script[c][d] = <<Set("guard", cmd)>>
        BY <3>1, <4>1, <4>2, <4>3 DEF Scripts
      <4> QED
        BY <4>4 DEF Set
    <3>3. runThread(c, d, Head(script[c][d]).to) \in Scripts(c)
      BY <3>2, ThreadScripts DEF Scripts
    <3> QED
      BY <1>4, <3>1, <3>3
  <2>5. ASSUME NEW d \in Slots, ClientStep(c, d) PROVE ScriptInv'
    <3>1. /\ script[c][d] # <<>> /\ conn' = conn
          /\ script' = [script EXCEPT ![c][d] = Rest(script[c][d], d)]
          /\ Head(script[c][d]).op # "guard"
      BY <2>5, OperationFrame DEF ClientStep, Proceed
    <3> QED
      BY <1>4, <3>1, ClientOperation
  <2>6. ASSUME NEW d \in Slots, CheckLock(c, d) PROVE ScriptInv'
    <3>1. /\ conn[c] = "leaving" /\ conn' = conn
          /\ script' = [script EXCEPT ![c][d] = IF lock[d] = c THEN CleanupScript ELSE <<>>]
      BY <2>6 DEF CheckLock
    <3>2. (IF lock[d] = c THEN CleanupScript ELSE <<>>) \in Scripts(c)
      BY <3>1, CleanupScripts, Short DEF Scripts
    <3> QED
      BY <1>4, <3>1, <3>2
  <2> QED
    BY <1>5, <2>1, <2>2, <2>3, <2>4, <2>5, <2>6 DEF Client
<1> QED
  BY <1>3, <1>5 DEF Next

-----------------------------------------------------------------------------
(* No unit is open twice.                                                  *)

\* Every step preserves what is known of the list of units and of the open ones.
LEMMA OpenStep ==
    ASSUME TypeInv, ListInv, UniqueOpen, [Next]_vars PROVE MonitorInv' /\ ListInv' /\ UniqueOpen'
<1>1. /\ openDevices \in [Slots -> Paths \cup {NoPath}] /\ mPc \in {"enumerate", "remove", "add"}
      /\ mI \in Slots /\ currentDevices \subseteq Paths /\ MonitorInv
  BY DEF TypeInv, TypeOK
<1>2. MAX_DEVICES \in Nat \ {0} /\ Slots = 0 .. MAX_DEVICES - 1
  BY DevicesAssumption DEF Slots
<1>3. NoPath \notin Paths
  BY NoneAssumption DEF NoPath, Paths
<1>4. ASSUME UNCHANGED <<openDevices, mPc, mI, mScript, currentDevices>>
      PROVE  MonitorInv' /\ ListInv' /\ UniqueOpen'
  BY <1>1, <1>4 DEF MonitorInv, Adding, ListInv, UniqueOpen
<1>5. CASE \/ UNCHANGED vars \/ Notifier \/ \E u \in Units : Plug(u) \/ Unplug(u)
  <2>1. UNCHANGED <<openDevices, mPc, mI, mScript, currentDevices>>
    BY <1>5 DEF vars, table, monitor, Notifier, ClearUpdate, SendUpdate, Plug, Unplug
  <2> QED
    BY <1>4, <2>1
<1>6. ASSUME NEW c \in Clients, Client(c) PROVE MonitorInv' /\ ListInv' /\ UniqueOpen'
  <2>1. ASSUME NEW d \in Slots, ClientStep(c, d)
        PROVE  UNCHANGED <<openDevices, mPc, mI, mScript, currentDevices>>
    <3>1. /\ script[c][d] # <<>> /\ Head(script[c][d]).op # "guard"
          /\ openDevices' = IF Head(script[c][d]).op = "path"
                            THEN [openDevices EXCEPT ![d] = Head(script[c][d]).to]
                            ELSE IF Head(script[c][d]).op = "forget" THEN [openDevices EXCEPT ![d] = NoPath]
                            ELSE openDevices
      BY <2>1, OperationFrame DEF ClientStep
    <3>2. openDevices' = openDevices
      BY <3>1, ClientOperation
    <3> QED
      BY <2>1, <3>2 DEF ClientStep, monitor
  <2>2. UNCHANGED <<openDevices, mPc, mI, mScript, currentDevices>>
    BY <1>6, <2>1 DEF Client, Connect, Leave, Gone, runCommandTypo, runCommand, Guard, CheckLock, table, monitor
  <2> QED
    BY <1>4, <2>2
\* The next slot: what has been passed is off the list.
<1>7. ASSUME NextSlot, mPc \in {"remove", "add"}, NEW e \in Slots,
             \/ mPc' = "add"
             \/ mPc' = "remove" /\ (e < mI' \/ (e = mI' /\ mScript' # <<>>)), mScript' = <<>>
      PROVE  mPc = "add" \/ (mPc = "remove" /\ (e < mI \/ e = mI))
  BY <1>1, <1>2, <1>7 DEF NextSlot, MonitorAt
<1>8. CASE Enumerate
  <2>1. mScript' = <<>> /\ mPc' = "remove" /\ mI' = 0 /\ openDevices' = openDevices
    BY <1>1, <1>8 DEF Enumerate, MonitorAt, MonitorInv, table
  <2>2. \A e \in Slots : ~(e < 0)
    BY <1>2
  <2> QED
    BY <2>1, <2>2, Short DEF MonitorInv, ListInv, UniqueOpen
<1>9. CASE Keep
  <2>1. /\ mPc = "remove" /\ mScript = <<>> /\ mScript' = <<>> /\ NextSlot /\ openDevices' = openDevices
        /\ currentDevices' = currentDevices \ {openDevices[mI]}
    BY <1>9 DEF Keep, AtSlot, table
  <2>2. ASSUME NEW e \in Slots,
               mPc' = "add" \/ (mPc' = "remove" /\ (e < mI' \/ (e = mI' /\ mScript' # <<>>)))
        PROVE  openDevices[e] \notin currentDevices'
    <3>1. e < mI \/ e = mI
      BY <1>7, <2>1, <2>2
    <3> QED
      BY <2>1, <3>1 DEF ListInv
  <2> QED
    BY <2>1, <2>2, Short DEF MonitorInv, ListInv, UniqueOpen
<1>10. CASE Remove
  <2>1. /\ mPc = "remove" /\ mPc' = "remove" /\ mI' = mI /\ mScript' = RemoveScript
        /\ openDevices' = openDevices /\ currentDevices' = currentDevices
        /\ openDevices[mI] \notin currentDevices
    BY <1>10 DEF Remove, AtSlot, table
  <2> QED
    BY <2>1, MonitorScripts DEF MonitorInv, ListInv, UniqueOpen
<1>11. CASE Pass
  <2>1. /\ mPc = "add" /\ mScript = <<>> /\ mScript' = <<>> /\ NextSlot /\ openDevices' = openDevices
        /\ currentDevices' = currentDevices
    BY <1>11 DEF Pass, AtSlot
  <2> QED
    BY <2>1, Short DEF MonitorInv, ListInv, UniqueOpen
<1>12. ASSUME NEW p \in Paths, Add(p) PROVE MonitorInv' /\ ListInv' /\ UniqueOpen'
  <2>1. /\ mPc = "add" /\ mPc' = "add" /\ mScript' = AddScript(p) /\ openDevices' = openDevices
        /\ p \in currentDevices /\ currentDevices' = currentDevices \ {p}
    BY <1>12 DEF Add, AtSlot
  <2>2. \A e \in Slots : openDevices[e] \notin currentDevices
    BY <2>1 DEF ListInv
  <2>3. Adding'
    BY <2>1, <2>2 DEF Adding
  <2> QED
    BY <2>1, <2>2, <2>3 DEF MonitorInv, ListInv, UniqueOpen
<1>13. CASE MonitorStep
  <2> DEFINE o == Head(mScript)
  <2>1. /\ mScript # <<>> /\ mScript' = Rest(mScript, mI) /\ currentDevices' = currentDevices
        /\ IF mScript' = <<>> THEN NextSlot ELSE UNCHANGED <<mPc, mI>>
        /\ Operation(o, mI, handle[mI])
    BY <1>13 DEF MonitorStep
  <2>2. openDevices' = IF o.op = "path" THEN [openDevices EXCEPT ![mI] = o.to]
                       ELSE IF o.op = "forget" THEN [openDevices EXCEPT ![mI] = NoPath]
                       ELSE openDevices
    BY <2>1, OperationFrame
  <2>3. /\ mScript' \in Seq(MonitorOps)
        /\ o.op = "path" => /\ o.to \notin currentDevices /\ o.to \in Paths
                            /\ \A e \in Slots : openDevices[e] # o.to
    BY <2>1, MonitorOperation
  <2>4. mPc \in {"remove", "add"}
    BY <1>1, <2>1 DEF MonitorInv
  <2>5. mPc' = "enumerate" => mScript' = <<>>
    BY <2>1, <2>4
  <2> HIDE DEF o
  <2>6. \A e \in Slots : openDevices'[e] \in {openDevices[e], NoPath} \cup {q \in {o.to} : o.op = "path" /\ e = mI}
    BY <1>1, <2>2
  <2>7. UniqueOpen'
    <3>1. CASE o.op = "path"
      BY <1>1, <2>2, <2>3, <3>1 DEF UniqueOpen
    <3>2. CASE o.op # "path"
      BY <1>1, <2>2, <3>2 DEF UniqueOpen
    <3> QED
      BY <3>1, <3>2
  <2>8. ASSUME NEW e \in Slots,
               mPc' = "add" \/ (mPc' = "remove" /\ (e < mI' \/ (e = mI' /\ mScript' # <<>>)))
        PROVE  openDevices'[e] \notin currentDevices'
    <3>1. mPc = "add" \/ (mPc = "remove" /\ (e < mI \/ e = mI))
      <4>1. CASE mScript' = <<>>
        BY <1>7, <2>1, <2>4, <2>8, <4>1
      <4>2. CASE mScript' # <<>>
        BY <2>1, <2>8, <4>2
      <4> QED
        BY <4>1, <4>2
    <3>2. openDevices[e] \notin currentDevices
      BY <2>1, <3>1 DEF ListInv
    <3> QED
      BY <1>1, <1>3, <2>1, <2>3, <2>6, <3>2
  <2> QED
    BY <2>3, <2>5, <2>7, <2>8 DEF MonitorInv, ListInv
<1> QED
  BY <1>5, <1>6, <1>8, <1>9, <1>10, <1>11, <1>12, <1>13 DEF Next, Monitor

-----------------------------------------------------------------------------
(* A lock does not outlive its holder.                                     *)

\* Every step leaves a lock with a client that still can give it back.
LEMMA LockStep ==
    ASSUME TypeInv, LockHolderConnected, [Next]_vars PROVE LockHolderConnected'
<1>1. /\ lock \in [Slots -> Clients \cup {None}] /\ conn \in [Clients -> {"out", "in", "leaving"}]
      /\ toCheck \in [Clients -> SUBSET Slots] /\ mI \in Slots
      /\ script = [c \in Clients |-> [d \in Slots |-> script[c][d]]]
  BY DEF TypeInv, TypeOK, ScriptInv
<1>2. None \notin Clients
  BY NoneAssumption
\* What the holder of the lock of slot d is doing.
<1> DEFINE Safe(c, d) == \/ conn[c] = "in"
                         \/ conn[c] = "leaving" /\ d \in toCheck[c]
                         \/ conn[c] = "leaving" /\ script[c][d] = CleanupScript
<1>3. ASSUME NEW d \in Slots, NEW b \in Clients, lock[d] = b PROVE Safe(b, d)
  BY <1>2, <1>3 DEF LockHolderConnected
<1>4. ASSUME \A d \in Slots : lock'[d] \in Clients \cup {None},
             \A d \in Slots, b \in Clients : lock'[d] = b => Safe(b, d)'
      PROVE  LockHolderConnected'
  <2> SUFFICES ASSUME NEW d \in Slots, lock'[d] # None
               PROVE  \/ conn'[lock'[d]] = "in"
                      \/ conn'[lock'[d]] = "leaving" /\ d \in toCheck'[lock'[d]]
                      \/ conn'[lock'[d]] = "leaving" /\ script'[lock'[d]][d] = CleanupScript
    BY DEF LockHolderConnected
  <2>1. PICK b \in Clients : b = lock'[d]
    BY <1>4
  <2> QED
    BY <1>4, <2>1
<1>5. ASSUME UNCHANGED <<lock, conn, toCheck, script>> PROVE LockHolderConnected'
  BY <1>5 DEF LockHolderConnected
<1>6. CASE \/ UNCHANGED vars \/ Notifier \/ \E u \in Units : Plug(u) \/ Unplug(u)
  <2>1. UNCHANGED <<lock, conn, toCheck, script>>
    BY <1>6 DEF vars, table, clients, Notifier, ClearUpdate, SendUpdate, Plug, Unplug
  <2> QED
    BY <1>5, <2>1
<1>7. CASE Monitor
  <2>1. CASE MonitorStep
    <3>1. mScript # <<>> /\ Operation(Head(mScript), mI, handle[mI]) /\ UNCHANGED <<conn, toCheck, script>>
      BY <2>1 DEF MonitorStep, clients
    <3>2. lock' = IF Head(mScript).op = "lock" THEN [lock EXCEPT ![mI] = Head(mScript).to] ELSE lock
      BY <3>1, OperationFrame
    <3>3. Head(mScript).op = "lock" => Head(mScript).to = None
      BY <3>1, MonitorOperation
    <3>4. \A d \in Slots : lock'[d] \in {lock[d], None}
      BY <1>1, <3>2, <3>3
    <3>5. ASSUME NEW d \in Slots, NEW b \in Clients, lock'[d] = b PROVE Safe(b, d)'
      <4>1. Safe(b, d)
        BY <1>2, <1>3, <3>4, <3>5
      <4> QED
        BY <3>1, <4>1
    <3>6. \A d \in Slots : lock'[d] \in Clients \cup {None}
      BY <1>1, <3>4
    <3> QED
      BY <1>4, <3>5, <3>6
  <2>2. CASE Enumerate \/ Keep \/ Remove \/ Pass \/ \E p \in Paths : Add(p)
    <3>1. UNCHANGED <<lock, conn, toCheck, script>>
      BY <2>2 DEF Enumerate, Keep, Remove, Pass, Add, table, clients
    <3> QED
      BY <1>5, <3>1
  <2> QED
    BY <1>7, <2>1, <2>2 DEF Monitor
<1>8. ASSUME NEW c \in Clients, Client(c) PROVE LockHolderConnected'
  \* The other clients are as they were, so only the locks of c are in question.
  <2>1. ASSUME UNCHANGED lock,
               \A b \in Clients : b # c => /\ conn'[b] = conn[b] /\ toCheck'[b] = toCheck[b]
                                           /\ \A e \in Slots : script'[b][e] = script[b][e],
               \A e \in Slots : lock[e] = c => Safe(c, e)'
        PROVE  LockHolderConnected'
    <3>1. ASSUME NEW e \in Slots, NEW b \in Clients, lock'[e] = b PROVE Safe(b, e)'
      <4>1. CASE b = c
        BY <2>1, <3>1, <4>1
      <4>2. CASE b # c
        <5>1. Safe(b, e)
          BY <1>3, <2>1, <3>1
        <5> QED
          BY <2>1, <4>2, <5>1
      <4> QED
        BY <4>1, <4>2
    <3>2. \A e \in Slots : lock'[e] \in Clients \cup {None}
      BY <1>1, <2>1
    <3> QED
      BY <1>4, <3>1, <3>2
  <2>2. CASE Connect(c)
    <3>1. UNCHANGED <<lock, toCheck, script>> /\ conn' = [conn EXCEPT ![c] = "in"]
      BY <2>2 DEF Connect, table
    <3> QED
      BY <1>1, <2>1, <3>1
  <2>3. CASE Leave(c)
    <3>1. /\ UNCHANGED <<lock, script>> /\ conn' = [conn EXCEPT ![c] = "leaving"]
          /\ toCheck' = [toCheck EXCEPT ![c] = Slots]
      BY <2>3 DEF Leave, table
    <3> QED
      BY <1>1, <2>1, <3>1
  <2>4. CASE Gone(c)
    <3>1. /\ UNCHANGED <<lock, toCheck, script>> /\ conn' = [conn EXCEPT ![c] = "out"]
          /\ conn[c] = "leaving" /\ toCheck[c] = {} /\ \A d \in Slots : script[c][d] = <<>>
      BY <2>4 DEF Gone, table, Idle
    <3>2. \A d \in Slots : lock[d] # c
      BY <1>2, <1>3, <3>1, CleanupBegins
    <3> QED
      BY <1>1, <2>1, <3>1, <3>2
  <2>5. CASE runCommandTypo(c)
    BY <1>5, <2>5 DEF runCommandTypo, table, clients
  <2>6. ASSUME NEW cmd \in Commands, NEW S \in SUBSET Slots, runCommand(c, cmd, S)
        PROVE  LockHolderConnected'
    <3>1. /\ UNCHANGED <<lock, conn, toCheck>> /\ conn[c] = "in"
          /\ script' = [script EXCEPT ![c] =
                          [d \in Slots |-> IF d \in S THEN <<Set("guard", cmd)>> ELSE <<>>]]
      BY <2>6 DEF runCommand, table
    <3>2. \A b \in Clients : b # c => \A e \in Slots : script'[b][e] = script[b][e]
      BY <1>1, <3>1
    <3> QED
      BY <2>1, <3>1, <3>2
  <2>7. ASSUME NEW d \in Slots, NEW rest, script' = [script EXCEPT ![c][d] = rest]
        PROVE  /\ \A b \in Clients : b # c => \A e \in Slots : script'[b][e] = script[b][e]
               /\ \A e \in Slots : e # d => script'[c][e] = script[c][e]
               /\ script'[c][d] = rest
    BY <1>1, <2>7
  <2>8. ASSUME NEW d \in Slots, Guard(c, d) PROVE LockHolderConnected'
    <3>1. /\ UNCHANGED <<lock, conn, toCheck>> /\ Head(script[c][d]).op = "guard"
          /\ script' = [script EXCEPT ![c][d] = runThread(c, d, Head(script[c][d]).to)]
      BY <2>8 DEF Guard, Proceed, table
    <3>2. script[c][d] # CleanupScript
      BY <3>1, CleanupBegins DEF Set
    <3>3. /\ \A b \in Clients : b # c => \A e \in Slots : script'[b][e] = script[b][e]
          /\ \A e \in Slots : e # d => script'[c][e] = script[c][e]
      BY <2>7, <3>1
    <3>4. ASSUME NEW e \in Slots, lock[e] = c PROVE Safe(c, e)'
      <4>1. Safe(c, e)
        BY <1>3, <3>4
      <4> QED
        BY <3>1, <3>2, <3>3, <4>1
    <3> QED
      BY <2>1, <3>1, <3>3, <3>4
  <2>9. ASSUME NEW d \in Slots, CheckLock(c, d) PROVE LockHolderConnected'
    <3>1. /\ UNCHANGED <<lock, conn>> /\ conn[c] = "leaving" /\ toCheck' = [toCheck EXCEPT ![c] = @ \ {d}]
          /\ script' = [script EXCEPT ![c][d] = IF lock[d] = c THEN CleanupScript ELSE <<>>]
      BY <2>9 DEF CheckLock, table
    <3> DEFINE left == IF lock[d] = c THEN CleanupScript ELSE <<>>
    <3>2. script' = [script EXCEPT ![c][d] = left]
      BY <3>1
    <3>3. lock[d] = c => left = CleanupScript
      OBVIOUS
    <3> HIDE DEF left
    <3>4. /\ \A b \in Clients : b # c => \A e \in Slots : script'[b][e] = script[b][e]
          /\ \A e \in Slots : e # d => script'[c][e] = script[c][e]
          /\ script'[c][d] = left
      BY <2>7, <3>2
    <3>5. /\ toCheck'[c] = toCheck[c] \ {d}
          /\ \A b \in Clients : b # c => toCheck'[b] = toCheck[b]
      BY <1>1, <3>1
    <3>6. ASSUME NEW e \in Slots, lock[e] = c PROVE Safe(c, e)'
      <4>1. CASE e = d
        BY <3>1, <3>3, <3>4, <3>6, <4>1
      <4>2. CASE e # d
        <5>1. Safe(c, e)
          BY <1>3, <3>6
        <5> QED
          BY <3>1, <3>4, <3>5, <4>2, <5>1
      <4> QED
        BY <4>1, <4>2
    <3> QED
      BY <2>1, <3>1, <3>4, <3>5, <3>6
  <2>10. ASSUME NEW d \in Slots, ClientStep(c, d) PROVE LockHolderConnected'
    <3> DEFINE o == Head(script[c][d])
    <3>1. /\ UNCHANGED <<conn, toCheck>> /\ script[c][d] # <<>> /\ o.op # "guard"
          /\ script' = [script EXCEPT ![c][d] = Rest(script[c][d], d)]
          /\ lock' = IF o.op = "lock" THEN [lock EXCEPT ![d] = o.to] ELSE lock
      BY <2>10, OperationFrame DEF ClientStep, Proceed
    <3>2. o.op = "lock" => o.to = None \/ (o.to = c /\ conn[c] = "in")
      BY <3>1, ClientOperation
    <3>3. script[c][d] = CleanupScript => o.op = "lock"
      BY CleanupBegins DEF Set
    <3>4. \A b \in Clients, e \in Slots : b # c \/ e # d => script'[b][e] = script[b][e]
      BY <2>7, <3>1
    <3> HIDE DEF o
    <3>5. ASSUME NEW e \in Slots, NEW b \in Clients, lock'[e] = b PROVE Safe(b, e)'
      <4>1. CASE e = d /\ o.op = "lock"
        <5>1. lock'[e] = o.to /\ o.to # None
          BY <1>1, <1>2, <3>1, <3>5, <4>1
        <5>2. b = c /\ conn[c] = "in"
          BY <3>2, <3>5, <4>1, <5>1
        <5> QED
          BY <3>1, <5>2
      <4>2. CASE ~(e = d /\ o.op = "lock")
        <5>1. lock[e] = b
          BY <1>1, <3>1, <3>5, <4>2
        <5>2. Safe(b, e)
          BY <1>3, <5>1
        <5>3. script[b][e] = CleanupScript => b # c \/ e # d
          BY <3>3, <4>2
        <5>4. script[b][e] = CleanupScript => script'[b][e] = CleanupScript
          BY <3>4, <5>3
        <5> QED
          BY <3>1, <5>2, <5>4
      <4> QED
        BY <4>1, <4>2
    <3>6. \A e \in Slots : lock'[e] \in Clients \cup {None}
      BY <1>1, <3>1, <3>2
    <3> QED
      BY <1>4, <3>5, <3>6
  <2> QED
    BY <1>8, <2>2, <2>3, <2>4, <2>5, <2>6, <2>8, <2>9, <2>10 DEF Client
<1> QED
  BY <1>6, <1>7, <1>8 DEF Next

-----------------------------------------------------------------------------
(* The theorems.                                                           *)

IndInv == TypeInv /\ ListInv /\ UniqueOpen /\ LockHolderConnected

\* The server starts with an empty table, no client and nothing to do.
LEMMA Starts == Init => IndInv
<1> SUFFICES ASSUME Init PROVE IndInv
  OBVIOUS
<1>1. NoPath \notin Paths
  BY NoneAssumption DEF NoPath, Paths
<1>2. 0 \in Slots
  BY DevicesAssumption DEF Slots
<1>3. TypeOK
  BY <1>2 DEF Init, TypeOK, Statuses
<1>4. WorldInv
  <2>1. inst \in [Clients -> [Slots -> Handles \cup {None}]]
    BY DEF Init
  <2>2. saved \in [Units -> Levels \cup {0}] /\ present \in [Units -> BOOLEAN]
    BY DEF Init
  <2>3. plugs \in [Units -> 0 .. MaxPlugs] /\ \A u \in Units : present[u] => plugs[u] > 0
    BY MaxPlugsAssumption DEF Init
  <2> QED
    BY <2>1, <2>2, <2>3 DEF WorldInv
<1>5. ScriptInv
  <2>1. \A c \in Clients : conn[c] = "out" /\ \A d \in Slots : script[c][d] = <<>>
    BY DEF Init
  <2>2. script = [c \in Clients |-> [d \in Slots |-> script[c][d]]]
    BY DEF Init
  <2> QED
    BY <2>1, <2>2 DEF ScriptInv, Scripts
<1>6. MonitorInv
  BY Short DEF Init, MonitorInv
<1>7. ListInv /\ UniqueOpen
  BY DEF Init, ListInv, UniqueOpen
<1>8. LockHolderConnected
  BY DEF Init, LockHolderConnected
<1> QED
  BY <1>3, <1>4, <1>5, <1>6, <1>7, <1>8 DEF IndInv, TypeInv

\* Every step preserves the whole invariant.
LEMMA Preserved == IndInv /\ [Next]_vars => IndInv'
<1> SUFFICES ASSUME IndInv, [Next]_vars PROVE IndInv'
  OBVIOUS
<1>1. TypeOK' /\ WorldInv' /\ ScriptInv'
  BY TypeStep, ScriptStep DEF IndInv
<1>2. MonitorInv' /\ ListInv' /\ UniqueOpen'
  BY OpenStep DEF IndInv
<1>3. LockHolderConnected'
  BY LockStep DEF IndInv
<1> QED
  BY <1>1, <1>2, <1>3 DEF IndInv, TypeInv

\* However the threads of the server interleave on the table they share without a
\* mutex, they leave no slot with a value that is not of its kind (ptrim-server.cc
\* 110-245, 312-360, 468-668, 795-802).
THEOREM TypeCorrect == Spec => []TypeOK
<1>1. Init => IndInv
  BY Starts
<1>2. IndInv /\ [Next]_vars => IndInv'
  BY Preserved
<1>3. IndInv => TypeOK
  BY DEF IndInv, TypeInv
<1> QED
  BY <1>1, <1>2, <1>3, PTL DEF Spec

\* A lock never outlives its holder, whatever commands its threads and those of other
\* clients run meanwhile and wherever monitorDevices is: a client that leaves finds
\* every lock it has (lines 795-802), so the next client with its descriptor gets none.
THEOREM LocksReleased == Spec => []LockHolderConnected
<1>1. Init => IndInv
  BY Starts
<1>2. IndInv /\ [Next]_vars => IndInv'
  BY Preserved
<1>3. IndInv => LockHolderConnected
  BY DEF IndInv
<1> QED
  BY <1>1, <1>2, <1>3, PTL DEF Spec

\* No unit is open in two slots: the pass over the table takes every unit that is open
\* off the list before the first slot is filled (lines 152-228), and no thread but
\* monitorDevices writes a path.
THEOREM NoUnitTwice == Spec => []UniqueOpen
<1>1. Init => IndInv
  BY Starts
<1>2. IndInv /\ [Next]_vars => IndInv'
  BY Preserved
<1>3. IndInv => UniqueOpen
  BY DEF IndInv
<1> QED
  BY <1>1, <1>2, <1>3, PTL DEF Spec

-----------------------------------------------------------------------------
(* What is true of a slot between turns, and at each place of a turn.      *)

\* A device whose status is LOCK has somebody who can unlock it.
Sound(d) == status[d] = "LOCK" => lock[d] # None

\* Nothing is left of the last unit.
Blank(d) == status[d] = "DISCONNECT" /\ lock[d] = None /\ notify[d] = {}

\* Between turns.
Still(d) == Sound(d) /\ (openDevices[d] = NoPath => Blank(d))

\* The operations of a command that has nothing to do with locks.
Gentle == Ops({"IDLE", "PLAY"}, {})

\* The scripts that begin with nothing done to the lock, or with the status put right.
Beginnings(c) ==
    {<<Set("guard", cmd)>> : cmd \in Commands}
    \cup {LockScript(c), UnlockScript, ForceUnlockScript, Release, CleanupScript,
          <<Set("status", "LOCK"), Set("lock", c), Notify("STATUS")>>,
          <<Set("status", "IDLE"), Notify("STATUS"), Set("lock", None)>>}

\* A thread of client c has script s to do on slot d.
ClientTurn(c, d, s) ==
    /\ openDevices[d] # NoPath
    /\ \/ Sound(d) /\ s \in Seq(Gentle) \cup Beginnings(c)
       \/ s = <<Set("lock", c), Notify("STATUS")>>
       \/ /\ status[d] # "LOCK"
          /\ s \in {<<Notify("STATUS"), Set("lock", None)>>, <<Set("lock", None)>>}
       \/ s \in {<<Do("stop"), Set("status", "IDLE"), Notify("STATUS")>>,
                 <<Set("status", "IDLE"), Notify("STATUS")>>}

\* monitorDevices is filling the slot: what it does after writing the path.
AddingOps == {o \in MonitorOps : o.op # "forget" /\ (o.op = "status" => o.to = "PLAY")}

\* monitorDevices has script s to do on slot d.
MonitorTurn(d, s) ==
    \/ /\ openDevices[d] # NoPath
       /\ \/ s = RemoveScript
          \/ /\ status[d] = "DISCONNECT"
             /\ \/ s = <<Do("clear"), Set("lock", None), Do("removed"), Do("close"), Do("forget")>>
                \/ notify[d] = {} /\ s = <<Set("lock", None), Do("removed"), Do("close"), Do("forget")>>
                \/ Blank(d) /\ s \in {<<Do("removed"), Do("close"), Do("forget")>>,
                                      <<Do("close"), Do("forget")>>, <<Do("forget")>>}
          \/ status[d] # "LOCK" /\ s \in Seq(AddingOps)
    \/ Blank(d) /\ \E p \in Paths : s = AddScript(p)

MonitorBusy(d) == mScript # <<>> /\ mI = d

\* One thread at a time, and it is where it should be.
SlotInv(d) ==
    /\ \A b, c \in Clients : script[b][d] # <<>> /\ script[c][d] # <<>> => b = c
    /\ MonitorBusy(d) => \A c \in Clients : script[c][d] = <<>>
    /\ \A c \in Clients : script[c][d] # <<>> => ClientTurn(c, d, script[c][d])
    /\ MonitorBusy(d) => MonitorTurn(d, mScript)
    /\ ~MonitorBusy(d) /\ (\A c \in Clients : script[c][d] = <<>>) => Still(d)
TurnsInv == \A d \in Slots : SlotInv(d)

-----------------------------------------------------------------------------
(* What an operation does to the slot it works on, and to the others.      *)

\* The variables that matter here, at the slot itself.
LEMMA EffectHere ==
    ASSUME TableTypes, NEW o, NEW d \in Slots, NEW h, Operation(o, d, h)
    PROVE  /\ status'[d] = IF o.op = "status" THEN o.to ELSE status[d]
           /\ lock'[d] = IF o.op = "lock" THEN o.to ELSE lock[d]
           /\ openDevices'[d] = IF o.op = "path" THEN o.to
                                ELSE IF o.op = "forget" THEN NoPath ELSE openDevices[d]
           /\ o.op = "clear" => notify'[d] = {}
           /\ o.op \notin {"clear", "notify"} => notify'[d] = notify[d]
<1>1. /\ lock'[d] = IF o.op = "lock" THEN o.to ELSE lock[d]
      /\ openDevices'[d] = IF o.op = "path" THEN o.to
                           ELSE IF o.op = "forget" THEN NoPath ELSE openDevices[d]
  BY OperationFrame DEF TableTypes
<1>2. CASE TableOp(o, d)
  <2>1. status'[d] = IF o.op = "status" THEN o.to ELSE status[d]
    BY <1>2 DEF TableOp, TableTypes
  <2>2. /\ o.op = "clear" => notify'[d] = {}
        /\ o.op \notin {"clear", "notify"} => notify'[d] = notify[d]
    BY <1>2 DEF TableOp, TableTypes
  <2> QED
    BY <1>1, <2>1, <2>2
<1>3. CASE HidOp(o, d, h)
  <2>1. UNCHANGED <<status, notify>> /\ o.op \notin {"status", "clear", "notify"}
    BY <1>3 DEF HidOp
  <2> QED
    BY <1>1, <2>1
<1>4. CASE CloseOp(o, d, h)
  <2>1. UNCHANGED <<status, notify>> /\ o.op \notin {"status", "clear", "notify"}
    BY <1>4 DEF CloseOp, table
  <2> QED
    BY <1>1, <2>1
<1> QED
  BY <1>2, <1>3, <1>4 DEF Operation

\* The other slots are as they were.
LEMMA EffectElsewhere ==
    ASSUME TableTypes, NEW o, NEW d \in Slots, NEW h, Operation(o, d, h), NEW e \in Slots, e # d
    PROVE  /\ status'[e] = status[e] /\ lock'[e] = lock[e]
           /\ openDevices'[e] = openDevices[e] /\ notify'[e] = notify[e]
<1>1. lock'[e] = lock[e] /\ openDevices'[e] = openDevices[e]
  BY OperationFrame DEF TableTypes
<1>2. status'[e] = status[e] /\ notify'[e] = notify[e]
  <2>1. CASE TableOp(o, d)
    BY <2>1 DEF TableOp, TableTypes
  <2>2. CASE HidOp(o, d, h) \/ CloseOp(o, d, h)
    BY <2>2 DEF HidOp, CloseOp, table
  <2> QED
    BY <2>1, <2>2 DEF Operation
<1> QED
  BY <1>1, <1>2

\* A slot nobody touches stays as it should be; a notification may be sent and cleared.
LEMMA SlotFrame ==
    ASSUME NEW d \in Slots, SlotInv(d),
           status'[d] = status[d], lock'[d] = lock[d], openDevices'[d] = openDevices[d],
           notify'[d] \subseteq notify[d],
           \A c \in Clients : script'[c][d] = script[c][d],
           MonitorBusy(d)' <=> MonitorBusy(d), MonitorBusy(d) => mScript' = mScript
    PROVE  SlotInv(d)'
<1>1. Sound(d)' = Sound(d) /\ (Blank(d) => Blank(d)') /\ (Still(d) => Still(d)')
  BY DEF Sound, Blank, Still
<1>2. ASSUME NEW c \in Clients, script[c][d] # <<>> PROVE ClientTurn(c, d, script[c][d])'
  <2>1. ClientTurn(c, d, script[c][d])
    BY <1>2 DEF SlotInv
  <2> QED
    BY <1>1, <2>1 DEF ClientTurn
<1>3. MonitorBusy(d) => MonitorTurn(d, mScript)'
  <2>1. ASSUME MonitorBusy(d) PROVE MonitorTurn(d, mScript) /\ mScript' = mScript
    BY <2>1 DEF SlotInv
  <2> QED
    BY <1>1, <2>1 DEF MonitorTurn
<1> QED
  BY <1>1, <1>2, <1>3 DEF SlotInv

\* When threads take turns, a thread begins where nobody is at work.
LEMMA Begins ==
    ASSUME Overlaps \subseteq {"notifier"}, NEW d \in Slots, SlotInv(d),
           NEW kind \in {"command", "monitor"}, MayBegin(kind, d)
    PROVE  /\ ~MonitorBusy(d) /\ \A c \in Clients : script[c][d] = <<>>
           /\ Still(d)
<1>1. "command" \notin AtWork(d) /\ "monitor" \notin AtWork(d)
  BY DEF MayBegin
<1>2. ~MonitorBusy(d)
  BY <1>1 DEF AtWork, MonitorBusy
<1>3. \A c \in Clients : script[c][d] = <<>>
  BY <1>1 DEF AtWork
<1> QED
  BY <1>2, <1>3 DEF SlotInv

-----------------------------------------------------------------------------
(* The turn of a client's thread.                                          *)

\* The two scripts that are put together from parts.
LEMMA Written ==
    /\ Release = <<Do("stop"), Set("status", "IDLE"), Notify("STATUS"), Set("lock", None)>>
    /\ CleanupScript = <<Set("lock", None), Do("stop"), Set("status", "IDLE"), Notify("STATUS")>>
<1>1. ASSUME NEW a, NEW b, NEW e PROVE <<a>> \o <<b, e>> = <<a, b, e>>
  <2> DEFINE S == {a, b, e}
  <2>1. <<a>> \in Seq(S) /\ <<b, e>> \in Seq(S) /\ <<a, b, e>> \in Seq(S)
    OBVIOUS
  <2>2. <<a>> \o <<b, e>> \in Seq(S) /\ Len(<<a>> \o <<b, e>>) = 3
        /\ \A i \in 1 .. 3 : (<<a>> \o <<b, e>>)[i] = IF i <= 1 THEN <<a>>[i] ELSE <<b, e>>[i - 1]
    BY <2>1, ConcatProperties
  <2>3. \A i \in 1 .. 3 : (<<a>> \o <<b, e>>)[i] = <<a, b, e>>[i]
    BY <2>2
  <2> HIDE DEF S
  <2> QED
    BY <2>1, <2>2, <2>3, SeqEqual
<1>2. ASSUME NEW a, NEW b, NEW e, NEW f PROVE <<a, b, e>> \o <<f>> = <<a, b, e, f>>
  <2> DEFINE S == {a, b, e, f}
  <2>1. <<a, b, e>> \in Seq(S) /\ <<f>> \in Seq(S) /\ <<a, b, e, f>> \in Seq(S)
    OBVIOUS
  <2>2. <<a, b, e>> \o <<f>> \in Seq(S) /\ Len(<<a, b, e>> \o <<f>>) = 4
        /\ \A i \in 1 .. 4 : (<<a, b, e>> \o <<f>>)[i] = IF i <= 3 THEN <<a, b, e>>[i] ELSE <<f>>[i - 3]
    BY <2>1, ConcatProperties
  <2>3. \A i \in 1 .. 4 : (<<a, b, e>> \o <<f>>)[i] = <<a, b, e, f>>[i]
    BY <2>2
  <2> HIDE DEF S
  <2> QED
    BY <2>1, <2>2, <2>3, SeqEqual
<1>3. ASSUME NEW a, NEW b, NEW e, NEW f PROVE <<a, b>> \o <<e, f>> = <<a, b, e, f>>
  <2> DEFINE S == {a, b, e, f}
  <2>1. <<a, b>> \in Seq(S) /\ <<e, f>> \in Seq(S) /\ <<a, b, e, f>> \in Seq(S)
    OBVIOUS
  <2>2. <<a, b>> \o <<e, f>> \in Seq(S) /\ Len(<<a, b>> \o <<e, f>>) = 4
        /\ \A i \in 1 .. 4 : (<<a, b>> \o <<e, f>>)[i] = IF i <= 2 THEN <<a, b>>[i] ELSE <<e, f>>[i - 2]
    BY <2>1, ConcatProperties
  <2>3. \A i \in 1 .. 4 : (<<a, b>> \o <<e, f>>)[i] = <<a, b, e, f>>[i]
    BY <2>2
  <2> HIDE DEF S
  <2> QED
    BY <2>1, <2>2, <2>3, SeqEqual
<1>4. Now("IDLE") = <<Set("status", "IDLE"), Notify("STATUS")>>
  BY DEF Now
<1>5. (<<Do("stop")>> \o Now("IDLE")) \o <<Set("lock", None)>>
      = <<Do("stop"), Set("status", "IDLE"), Notify("STATUS"), Set("lock", None)>>
  <2>1. <<Do("stop")>> \o <<Set("status", "IDLE"), Notify("STATUS")>>
        = <<Do("stop"), Set("status", "IDLE"), Notify("STATUS")>>
    BY <1>1
  <2>2. <<Do("stop"), Set("status", "IDLE"), Notify("STATUS")>> \o <<Set("lock", None)>>
        = <<Do("stop"), Set("status", "IDLE"), Notify("STATUS"), Set("lock", None)>>
    BY <1>2
  <2> QED
    BY <1>4, <2>1, <2>2
<1>6. <<Set("lock", None), Do("stop")>> \o Now("IDLE")
      = <<Set("lock", None), Do("stop"), Set("status", "IDLE"), Notify("STATUS")>>
  BY <1>3, <1>4
<1>7. Release = (<<Do("stop")>> \o Now("IDLE")) \o <<Set("lock", None)>>
  BY DEF Release
<1>8. CleanupScript = <<Set("lock", None), Do("stop")>> \o Now("IDLE")
  BY DEF CleanupScript
<1> QED
  BY <1>5, <1>6, <1>7, <1>8

\* A command that is let through, or not, begins as it should.
LEMMA ThreadBegins ==
    ASSUME NEW c, NEW d, NEW cmd \in Commands
    PROVE  runThread(c, d, cmd) \in Seq(Gentle) \cup Beginnings(c)
<1>1. ASSUME cmd.word \notin {"lock", "unlock"} PROVE Body(c, cmd) \in Seq(Gentle)
  BY <1>1, BodyScripts DEF Gentle
<1>2. cmd.word = "lock" => Body(c, cmd) = LockScript(c)
  BY DEF Body
<1>3. cmd.word = "unlock" => Body(c, cmd) = UnlockScript
  BY DEF Body
<1>4. <<>> \in Seq(Gentle)
  BY Short
<1>5. Body(c, cmd) \in Seq(Gentle) \cup Beginnings(c)
  BY <1>1, <1>2, <1>3 DEF Beginnings
<1>6. ForceUnlockScript \in Beginnings(c)
  BY DEF Beginnings
<1> QED
  BY <1>4, <1>5, <1>6 DEF runThread

\* A step of a script without locks.
LEMMA GentleStep ==
    ASSUME TableTypes, NEW d \in Slots, NEW s \in Seq(Gentle), s # <<>>, NEW h,
           Operation(Head(s), d, h), Sound(d)
    PROVE  /\ Sound(d)' /\ Rest(s, d) \in Seq(Gentle) /\ openDevices'[d] = openDevices[d]
<1>1. \A o \in Gentle : o.op = "if" => o.yes \in Seq(Gentle) /\ o.no \in Seq(Gentle)
  BY CommandOp DEF Gentle
<1>2. Head(s) \in Gentle /\ Rest(s, d) \in Seq(Gentle)
  BY <1>1, Remainder
<1>3. /\ Head(s).op \notin {"lock", "path", "forget"}
      /\ Head(s).op = "status" => Head(s).to \in {"IDLE", "PLAY"}
  <2> DEFINE o == Head(s)
  <2>1. o \in Ops({"IDLE", "PLAY"}, {})
    BY <1>2 DEF Gentle
  <2> HIDE DEF o
  <2>2. /\ o.op \notin {"path", "forget"} /\ (o.op = "status" => o.to \in {"IDLE", "PLAY"})
        /\ (o.op = "lock" => o.to \in {})
    BY <2>1, CommandOp
  <2> QED
    BY <2>2 DEF o
<1>4. /\ status'[d] = IF Head(s).op = "status" THEN Head(s).to ELSE status[d]
      /\ lock'[d] = lock[d] /\ openDevices'[d] = openDevices[d]
  BY <1>3, EffectHere
<1> QED
  BY <1>2, <1>3, <1>4 DEF Sound

\* A step of a branch that is looked at, or of an operation that is not.
LEMMA BranchStep ==
    ASSUME TableTypes, NEW d \in Slots, NEW h, NEW x, NEW yes, NEW no,
           yes \o <<>> = yes, no \o <<>> = no,
           Operation(If("status", x, yes, no), d, h)
    PROVE  /\ status'[d] = status[d] /\ lock'[d] = lock[d] /\ openDevices'[d] = openDevices[d]
           /\ Rest(<<If("status", x, yes, no)>>, d) = IF status[d] = x THEN yes ELSE no
<1>1. /\ If("status", x, yes, no).op = "if" /\ If("status", x, yes, no).q = "status"
      /\ If("status", x, yes, no).arg = x
      /\ If("status", x, yes, no).yes = yes /\ If("status", x, yes, no).no = no
  BY DEF If
<1>2. status'[d] = status[d] /\ lock'[d] = lock[d] /\ openDevices'[d] = openDevices[d]
  BY <1>1, EffectHere
<1>3. Holds(If("status", x, yes, no), d) <=> status[d] = x
  BY <1>1 DEF Holds
<1>4. Head(<<If("status", x, yes, no)>>) = If("status", x, yes, no) /\ Tail(<<If("status", x, yes, no)>>) = <<>>
  OBVIOUS
<1> QED
  BY <1>1, <1>2, <1>3, <1>4 DEF Rest

\* The names a command's thread gives its operations.
LEMMA Fields ==
    /\ \A x : Do(x).op = x
    /\ \A op, x : Set(op, x).op = op /\ Set(op, x).to = x
    /\ \A x : Notify(x).op = "notify"
  BY DEF Do, Set, Notify

\* One step of a thread that holds the slot, place by place: it goes on as a turn
\* should, or leaves the slot as it should be.
LEMMA ClientTurnStep ==
    ASSUME TableTypes, NEW c \in Clients, NEW d \in Slots, NEW s, NEW r, NEW h,
           ClientTurn(c, d, s), s # <<>>, Operation(Head(s), d, h), r = Rest(s, d)
    PROVE  /\ openDevices'[d] # NoPath
           /\ ClientTurn(c, d, r)'
           /\ r = <<>> => Sound(d)'
<1>1. openDevices[d] # NoPath /\ Head(s).op # "guard"
  BY OperationFrame DEF ClientTurn
<1>2. <<>> \in Seq(Gentle) /\ <<Notify("STATUS")>> \in Seq(Gentle)
  <2>1. "STATUS" \in Flags
    BY DEF Flags
  <2>2. Notify("STATUS") \in Gentle
    BY <2>1, Building DEF Gentle
  <2> QED
    BY <2>2, Short
<1>3. ASSUME Head(s).op \notin {"if", "path", "forget"}
      PROVE  /\ openDevices'[d] # NoPath /\ r = Tail(s)
             /\ status'[d] = IF Head(s).op = "status" THEN Head(s).to ELSE status[d]
             /\ lock'[d] = IF Head(s).op = "lock" THEN Head(s).to ELSE lock[d]
  <2>1. r = Tail(s)
    BY <1>3 DEF Rest
  <2> QED
    BY <1>1, <1>3, <2>1, EffectHere
<1>4. ASSUME Sound(d), s \in Seq(Gentle)
      PROVE  openDevices'[d] # NoPath /\ Sound(d)' /\ r \in Seq(Gentle)
  BY <1>1, <1>4, GentleStep
<1>5. CASE Sound(d) /\ s \in Seq(Gentle)
  BY <1>4, <1>5 DEF ClientTurn
<1>6. CASE s = <<Set("lock", c), Notify("STATUS")>>
  <2>1. Head(s).op = "lock" /\ Head(s).to = c /\ Tail(s) = <<Notify("STATUS")>>
    BY <1>6, Fields
  <2>2. openDevices'[d] # NoPath /\ r = <<Notify("STATUS")>> /\ lock'[d] = c
    BY <1>3, <2>1
  <2>3. Sound(d)'
    BY <2>2, NoneAssumption DEF Sound
  <2> QED
    BY <1>2, <2>2, <2>3 DEF ClientTurn
<1>7. CASE status[d] # "LOCK" /\ s = <<Notify("STATUS"), Set("lock", None)>>
  <2>1. Head(s).op = "notify" /\ Tail(s) = <<Set("lock", None)>>
    BY <1>7, Fields
  <2>2. openDevices'[d] # NoPath /\ r = <<Set("lock", None)>> /\ status'[d] # "LOCK"
    BY <1>3, <1>7, <2>1
  <2> QED
    BY <2>2 DEF ClientTurn
<1>8. CASE status[d] # "LOCK" /\ s = <<Set("lock", None)>>
  <2>1. Head(s).op = "lock" /\ Head(s).to = None /\ Tail(s) = <<>>
    BY <1>8, Fields
  <2>2. openDevices'[d] # NoPath /\ r = <<>> /\ status'[d] # "LOCK"
    BY <1>3, <1>8, <2>1
  <2> QED
    BY <1>2, <2>2 DEF ClientTurn, Sound
<1>9. CASE s = <<Do("stop"), Set("status", "IDLE"), Notify("STATUS")>>
  <2>1. Head(s).op = "stop" /\ Tail(s) = <<Set("status", "IDLE"), Notify("STATUS")>>
    BY <1>9, Fields
  <2>2. openDevices'[d] # NoPath /\ r = <<Set("status", "IDLE"), Notify("STATUS")>>
    BY <1>3, <2>1
  <2> QED
    BY <2>2 DEF ClientTurn
<1>10. CASE s = <<Set("status", "IDLE"), Notify("STATUS")>>
  <2>1. Head(s).op = "status" /\ Head(s).to = "IDLE" /\ Tail(s) = <<Notify("STATUS")>>
    BY <1>10, Fields
  <2>2. openDevices'[d] # NoPath /\ r = <<Notify("STATUS")>> /\ status'[d] = "IDLE"
    BY <1>3, <2>1
  <2> QED
    BY <1>2, <2>2 DEF ClientTurn, Sound
<1>11. CASE Sound(d) /\ s \in Beginnings(c)
  <2>1. ASSUME NEW cmd \in Commands, s = <<Set("guard", cmd)>> PROVE FALSE
    <3>1. Head(s) = Set("guard", cmd)
      BY <2>1
    <3> QED
      BY <1>1, <3>1, Fields
  <2>2. ASSUME NEW x, NEW yes, NEW no, s = <<If("status", x, yes, no)>>,
               yes \o <<>> = yes, no \o <<>> = no
        PROVE  /\ openDevices'[d] # NoPath /\ Sound(d)' /\ status'[d] = status[d]
               /\ r = IF status[d] = x THEN yes ELSE no
    <3>1. Operation(If("status", x, yes, no), d, h)
      BY <2>2
    <3>2. /\ status'[d] = status[d] /\ lock'[d] = lock[d] /\ openDevices'[d] = openDevices[d]
          /\ Rest(<<If("status", x, yes, no)>>, d) = IF status[d] = x THEN yes ELSE no
      BY <2>2, <3>1, BranchStep
    <3> QED
      BY <1>1, <1>11, <2>2, <3>2 DEF Sound
  <2>3. Release \o <<>> = Release /\ <<>> \o <<>> = <<>>
    BY Written
  <2>4. CASE s = LockScript(c)
    <3> DEFINE no == <<Set("status", "LOCK"), Set("lock", c), Notify("STATUS")>>
    <3>1. s = <<If("status", "LOCK", <<>>, no)>> /\ no \o <<>> = no
      BY <2>4 DEF LockScript
    <3>2. openDevices'[d] # NoPath /\ Sound(d)' /\ (r = <<>> \/ r = no)
      BY <2>2, <2>3, <3>1
    <3>3. no \in Beginnings(c)
      BY DEF Beginnings
    <3> QED
      BY <1>2, <3>2, <3>3 DEF ClientTurn
  <2>5. CASE s = UnlockScript
    <3>1. s = <<If("status", "LOCK", Release, <<>>)>>
      BY <2>5 DEF UnlockScript, When
    <3>2. openDevices'[d] # NoPath /\ Sound(d)' /\ (r = <<>> \/ r = Release)
      BY <2>2, <2>3, <3>1
    <3>3. Release \in Beginnings(c)
      BY DEF Beginnings
    <3> QED
      BY <1>2, <3>2, <3>3 DEF ClientTurn
  <2>6. CASE s = ForceUnlockScript
    <3>1. s = <<If("status", "LOCK", Release, <<Set("lock", None)>>)>>
          /\ <<Set("lock", None)>> \o <<>> = <<Set("lock", None)>>
      BY <2>6 DEF ForceUnlockScript
    <3>2. /\ openDevices'[d] # NoPath /\ Sound(d)' /\ status'[d] = status[d]
          /\ r = IF status[d] = "LOCK" THEN Release ELSE <<Set("lock", None)>>
      BY <2>2, <2>3, <3>1
    <3>3. Release \in Beginnings(c)
      BY DEF Beginnings
    <3>4. CASE status[d] = "LOCK"
      <4>1. r = Release /\ r # <<>>
        BY <3>2, <3>4, Written
      <4> QED
        BY <3>2, <3>3, <4>1 DEF ClientTurn
    <3>5. CASE status[d] # "LOCK"
      BY <3>2, <3>5 DEF ClientTurn
    <3> QED
      BY <3>4, <3>5
  <2>7. CASE s = Release
    <3> DEFINE t == <<Set("status", "IDLE"), Notify("STATUS"), Set("lock", None)>>
    <3>1. Head(s).op = "stop" /\ Tail(s) = t
      BY <2>7, Written, Fields
    <3>2. openDevices'[d] # NoPath /\ r = t /\ Sound(d)'
      BY <1>3, <1>11, <3>1 DEF Sound
    <3>3. t \in Beginnings(c)
      BY DEF Beginnings
    <3> QED
      BY <3>2, <3>3 DEF ClientTurn
  <2>8. CASE s = CleanupScript
    <3> DEFINE t == <<Do("stop"), Set("status", "IDLE"), Notify("STATUS")>>
    <3>1. Head(s).op = "lock" /\ Head(s).to = None /\ Tail(s) = t
      BY <2>8, Written, Fields
    <3>2. openDevices'[d] # NoPath /\ r = t
      BY <1>3, <3>1
    <3> QED
      BY <3>2 DEF ClientTurn
  <2>9. CASE s = <<Set("status", "LOCK"), Set("lock", c), Notify("STATUS")>>
    <3>1. Head(s).op = "status" /\ Head(s).to = "LOCK" /\ Tail(s) = <<Set("lock", c), Notify("STATUS")>>
      BY <2>9, Fields
    <3>2. openDevices'[d] # NoPath /\ r = <<Set("lock", c), Notify("STATUS")>>
      BY <1>3, <3>1
    <3> QED
      BY <3>2 DEF ClientTurn
  <2>10. CASE s = <<Set("status", "IDLE"), Notify("STATUS"), Set("lock", None)>>
    <3>1. Head(s).op = "status" /\ Head(s).to = "IDLE" /\ Tail(s) = <<Notify("STATUS"), Set("lock", None)>>
      BY <2>10, Fields
    <3>2. openDevices'[d] # NoPath /\ r = <<Notify("STATUS"), Set("lock", None)>> /\ status'[d] # "LOCK"
      BY <1>3, <3>1
    <3> QED
      BY <3>2 DEF ClientTurn
  <2> QED
    BY <1>11, <2>1, <2>4, <2>5, <2>6, <2>7, <2>8, <2>9, <2>10 DEF Beginnings
<1> QED
  BY <1>5, <1>6, <1>7, <1>8, <1>9, <1>10, <1>11 DEF ClientTurn

-----------------------------------------------------------------------------
(* The turn of monitorDevices.                                             *)

\* What it adds to a slot after the path does not make the status LOCK.
LEMMA Adds ==
    ASSUME NEW p PROVE Tail(AddScript(p)) \in Seq(AddingOps)
<1>1. /\ \A x \in {"clear", "identify", "start", "added"} : Do(x) \in AddingOps
      /\ Set("status", "PLAY") \in AddingOps /\ Set("lock", None) \in AddingOps
  BY DEF Do, Set, AddingOps, MonitorOps, Statuses
<1>2. Tail(AddScript(p)) = <<Do("identify"), Do("start"), Set("status", "PLAY"), Do("clear"),
                             Set("lock", None), Do("added")>>
  BY DEF AddScript
<1>3. <<Do("identify"), Do("start"), Set("status", "PLAY"), Do("clear"),
        Set("lock", None), Do("added")>> \in Seq(AddingOps)
  <2>1. /\ Do("identify") \in AddingOps /\ Do("start") \in AddingOps /\ Do("clear") \in AddingOps
        /\ Do("added") \in AddingOps
    BY <1>1
  <2> QED
    BY <1>1, <2>1
<1> QED
  BY <1>2, <1>3

\* One step of it: it goes on as a turn should, or leaves the slot as it should be.
LEMMA MonitorTurnStep ==
    ASSUME TableTypes, NEW d \in Slots, NEW s, NEW r, NEW h,
           MonitorTurn(d, s), s # <<>>, Operation(Head(s), d, h), r = Rest(s, d)
    PROVE  /\ r # <<>> => MonitorTurn(d, r)'
           /\ r = <<>> => Still(d)'
<1>1. ASSUME Head(s).op # "if"
      PROVE  /\ r = Tail(s)
             /\ status'[d] = IF Head(s).op = "status" THEN Head(s).to ELSE status[d]
             /\ lock'[d] = IF Head(s).op = "lock" THEN Head(s).to ELSE lock[d]
             /\ openDevices'[d] = IF Head(s).op = "path" THEN Head(s).to
                                  ELSE IF Head(s).op = "forget" THEN NoPath ELSE openDevices[d]
             /\ Head(s).op = "clear" => notify'[d] = {}
             /\ Head(s).op \notin {"clear", "notify"} => notify'[d] = notify[d]
  <2>1. r = Tail(s)
    BY <1>1 DEF Rest
  <2> QED
    BY <2>1, EffectHere
<1>2. CASE openDevices[d] # NoPath /\ s = RemoveScript
  <2> DEFINE t == <<Do("clear"), Set("lock", None), Do("removed"), Do("close"), Do("forget")>>
  <2>1. Head(s).op = "status" /\ Head(s).to = "DISCONNECT" /\ Tail(s) = t
    BY <1>2, Fields DEF RemoveScript
  <2>2. r = t /\ status'[d] = "DISCONNECT" /\ openDevices'[d] # NoPath
    BY <1>1, <1>2, <2>1
  <2>3. t # <<>>
    OBVIOUS
  <2> QED
    BY <2>2, <2>3 DEF MonitorTurn
<1>3. CASE /\ openDevices[d] # NoPath /\ status[d] = "DISCONNECT"
           /\ s = <<Do("clear"), Set("lock", None), Do("removed"), Do("close"), Do("forget")>>
  <2> DEFINE t == <<Set("lock", None), Do("removed"), Do("close"), Do("forget")>>
  <2>1. Head(s).op = "clear" /\ Tail(s) = t
    BY <1>3, Fields
  <2>2. r = t /\ status'[d] = "DISCONNECT" /\ openDevices'[d] # NoPath /\ notify'[d] = {}
    BY <1>1, <1>3, <2>1
  <2>3. t # <<>>
    OBVIOUS
  <2> QED
    BY <2>2, <2>3 DEF MonitorTurn
<1>4. CASE /\ openDevices[d] # NoPath /\ status[d] = "DISCONNECT" /\ notify[d] = {}
           /\ s = <<Set("lock", None), Do("removed"), Do("close"), Do("forget")>>
  <2> DEFINE t == <<Do("removed"), Do("close"), Do("forget")>>
  <2>1. Head(s).op = "lock" /\ Head(s).to = None /\ Tail(s) = t
    BY <1>4, Fields
  <2>2. r = t /\ openDevices'[d] # NoPath /\ Blank(d)' /\ status'[d] = "DISCONNECT"
    BY <1>1, <1>4, <2>1 DEF Blank
  <2>3. r \in {<<Do("removed"), Do("close"), Do("forget")>>, <<Do("close"), Do("forget")>>, <<Do("forget")>>}
        /\ r # <<>>
    BY <2>2
  <2> QED
    BY <2>2, <2>3 DEF MonitorTurn
<1>5. CASE openDevices[d] # NoPath /\ Blank(d) /\ s = <<Do("removed"), Do("close"), Do("forget")>>
  <2> DEFINE t == <<Do("close"), Do("forget")>>
  <2>1. Head(s).op = "removed" /\ Tail(s) = t
    BY <1>5, Fields
  <2>2. r = t /\ openDevices'[d] # NoPath /\ Blank(d)' /\ status'[d] = "DISCONNECT"
    BY <1>1, <1>5, <2>1 DEF Blank
  <2>3. r \in {<<Do("removed"), Do("close"), Do("forget")>>, <<Do("close"), Do("forget")>>, <<Do("forget")>>}
        /\ r # <<>>
    BY <2>2
  <2> QED
    BY <2>2, <2>3 DEF MonitorTurn
<1>6. CASE openDevices[d] # NoPath /\ Blank(d) /\ s = <<Do("close"), Do("forget")>>
  <2> DEFINE t == <<Do("forget")>>
  <2>1. Head(s).op = "close" /\ Tail(s) = t
    BY <1>6, Fields
  <2>2. r = t /\ openDevices'[d] # NoPath /\ Blank(d)' /\ status'[d] = "DISCONNECT"
    BY <1>1, <1>6, <2>1 DEF Blank
  <2>3. r \in {<<Do("removed"), Do("close"), Do("forget")>>, <<Do("close"), Do("forget")>>, <<Do("forget")>>}
        /\ r # <<>>
    BY <2>2
  <2> QED
    BY <2>2, <2>3 DEF MonitorTurn
<1>7. CASE Blank(d) /\ s = <<Do("forget")>>
  <2>1. Head(s).op = "forget" /\ Tail(s) = <<>>
    BY <1>7, Fields
  <2>2. r = <<>> /\ Blank(d)'
    BY <1>1, <1>7, <2>1 DEF Blank
  <2> QED
    BY <2>2 DEF Still, Sound, Blank
<1>8. CASE openDevices[d] # NoPath /\ status[d] # "LOCK" /\ s \in Seq(AddingOps)
  <2>1. \A o \in AddingOps : /\ o.op \notin {"if", "path", "forget"}
                             /\ o.op = "status" => o.to = "PLAY"
    BY MonitorOp DEF AddingOps
  <2>2. Head(s) \in AddingOps /\ Rest(s, d) \in Seq(AddingOps)
    BY <1>8, <2>1, Remainder
  <2>3. status'[d] # "LOCK" /\ openDevices'[d] # NoPath
    BY <1>1, <1>8, <2>1, <2>2
  <2> QED
    BY <2>2, <2>3 DEF MonitorTurn, Still, Sound
<1>9. ASSUME NEW p \in Paths, Blank(d), s = AddScript(p) PROVE r # <<>> => MonitorTurn(d, r)'
  <2>1. Head(s).op = "path" /\ Head(s).to = p
    BY <1>9, MonitorScripts, Fields
  <2>2. p # NoPath
    BY NoneAssumption DEF Paths, NoPath
  <2>3. r = Tail(AddScript(p)) /\ status'[d] = "DISCONNECT" /\ openDevices'[d] # NoPath
    BY <1>1, <1>9, <2>1, <2>2 DEF Blank
  <2> QED
    BY <2>3, Adds DEF MonitorTurn
<1>10. ASSUME NEW p \in Paths, Blank(d), s = AddScript(p) PROVE r # <<>>
  <2>1. Head(s).op = "path"
    BY <1>10, MonitorScripts, Fields
  <2>2. Tail(AddScript(p)) # <<>>
    BY DEF AddScript
  <2> QED
    BY <1>1, <1>10, <2>1, <2>2
<1> QED
  BY <1>2, <1>3, <1>4, <1>5, <1>6, <1>7, <1>8, <1>9, <1>10 DEF MonitorTurn

-----------------------------------------------------------------------------
(* Every step.                                                             *)

\* A slot that one client's thread works on, or has just left.
LEMMA OneClient ==
    ASSUME NEW c \in Clients, NEW d \in Slots, NEW r,
           script'[c][d] = r, \A b \in Clients : b # c => script'[b][d] = <<>>,
           ~MonitorBusy(d)', openDevices'[d] # NoPath,
           r # <<>> => ClientTurn(c, d, r)', r = <<>> => Sound(d)'
    PROVE  SlotInv(d)'
<1>1. \A b \in Clients : script'[b][d] # <<>> => b = c
  OBVIOUS
<1>2. (\A b \in Clients : script'[b][d] = <<>>) => Still(d)'
  BY DEF Still
<1>3. ASSUME NEW b \in Clients, script'[b][d] # <<>> PROVE ClientTurn(b, d, script[b][d])'
  BY <1>1, <1>3
<1> QED
  BY <1>1, <1>2, <1>3 DEF SlotInv

\* A slot that monitorDevices works on, or has just left.
LEMMA OneMonitor ==
    ASSUME NEW d \in Slots, \A c \in Clients : script'[c][d] = <<>>,
           MonitorBusy(d)' => MonitorTurn(d, mScript)', ~MonitorBusy(d)' => Still(d)'
    PROVE  SlotInv(d)'
  BY DEF SlotInv

\* A thread changes its client's script on its slot only.
LEMMA ProceedScripts ==
    ASSUME ScriptInv, NEW c \in Clients, NEW d \in Slots, NEW r, Proceed(c, d, r)
    PROVE  /\ script'[c][d] = r
           /\ \A b \in Clients, e \in Slots : b # c \/ e # d => script'[b][e] = script[b][e]
<1>1. script' = [script EXCEPT ![c][d] = r]
  BY DEF Proceed
<1> QED
  BY <1>1 DEF ScriptInv

\* A step of a client leaves every slot as it should be.
LEMMA ClientTurns ==
    ASSUME Overlaps \subseteq {"notifier"}, TypeInv, TurnsInv, NEW c \in Clients, Client(c)
    PROVE  TurnsInv'
<1> SUFFICES ASSUME NEW e \in Slots PROVE SlotInv(e)'
  BY DEF TurnsInv
<1>1. TableTypes /\ ScriptInv /\ SlotInv(e)
  BY AllTypes DEF TypeInv, TurnsInv
<1>2. CASE Connect(c) \/ Leave(c) \/ Gone(c) \/ runCommandTypo(c)
  <2>1. UNCHANGED <<table, script, monitor>>
    BY <1>2 DEF Connect, Leave, Gone, runCommandTypo, clients
  <2> QED
    BY <1>1, <2>1, SlotFrame DEF table, monitor, MonitorBusy
<1>3. ASSUME NEW cmd \in Commands, NEW S \in SUBSET Slots, runCommand(c, cmd, S) PROVE SlotInv(e)'
  <2>1. UNCHANGED <<table, monitor>> /\ \A d \in Slots : script[c][d] = <<>>
    BY <1>3 DEF runCommand, Idle
  <2>2. /\ script'[c][e] = IF e \in S THEN <<Set("guard", cmd)>> ELSE <<>>
        /\ \A b \in Clients : b # c => script'[b][e] = script[b][e]
    BY <1>1, <1>3 DEF runCommand, ScriptInv
  <2>3. CASE e \notin S
    <3>1. \A b \in Clients : script'[b][e] = script[b][e]
      BY <2>1, <2>2, <2>3
    <3> QED
      BY <1>1, <2>1, <3>1, SlotFrame DEF table, monitor, MonitorBusy
  <2>4. CASE e \in S
    <3>1. openDevices[e] # NoPath /\ MayBegin("command", e)
      BY <1>3, <2>4 DEF runCommand, Found
    <3>2. ~MonitorBusy(e) /\ (\A b \in Clients : script[b][e] = <<>>) /\ Still(e)
      BY <1>1, <3>1, Begins
    <3>3. ~MonitorBusy(e)' /\ openDevices'[e] # NoPath /\ Sound(e)'
      BY <2>1, <3>1, <3>2 DEF table, monitor, MonitorBusy, Still, Sound
    <3>4. <<Set("guard", cmd)>> \in Beginnings(c)
      BY DEF Beginnings
    <3>5. ClientTurn(c, e, <<Set("guard", cmd)>>)'
      BY <3>3, <3>4 DEF ClientTurn
    <3>6. \A b \in Clients : b # c => script'[b][e] = <<>>
      BY <2>2, <3>2
    <3>7. script'[c][e] = <<Set("guard", cmd)>>
      BY <2>2, <2>4
    <3> QED
      BY <3>3, <3>5, <3>6, <3>7, OneClient
  <2> QED
    BY <2>3, <2>4
<1>4. ASSUME NEW d \in Slots, script[c][d] # <<>>, NEW r, Proceed(c, d, r), UNCHANGED monitor,
             openDevices'[d] # NoPath, r # <<>> => ClientTurn(c, d, r)', r = <<>> => Sound(d)',
             \A f \in Slots : f # d => /\ status'[f] = status[f] /\ lock'[f] = lock[f]
                                       /\ openDevices'[f] = openDevices[f] /\ notify'[f] = notify[f]
      PROVE  SlotInv(e)'
  <2>1. /\ script'[c][d] = r
        /\ \A b \in Clients, f \in Slots : b # c \/ f # d => script'[b][f] = script[b][f]
    BY <1>1, <1>4, ProceedScripts
  <2>2. CASE e # d
    <3>1. /\ status'[e] = status[e] /\ lock'[e] = lock[e]
          /\ openDevices'[e] = openDevices[e] /\ notify'[e] = notify[e]
      BY <1>4, <2>2
    <3>2. \A b \in Clients : script'[b][e] = script[b][e]
      BY <2>1, <2>2
    <3>3. (MonitorBusy(e)' <=> MonitorBusy(e)) /\ mScript' = mScript
      BY <1>4 DEF monitor, MonitorBusy
    <3> QED
      BY <1>1, <3>1, <3>2, <3>3, SlotFrame
  <2>3. CASE e = d
    <3>1. ~MonitorBusy(d) /\ \A b \in Clients : b # c => script[b][d] = <<>>
      BY <1>1, <1>4, <2>3 DEF SlotInv
    <3>2. ~MonitorBusy(d)' /\ \A b \in Clients : b # c => script'[b][d] = <<>>
      BY <1>4, <2>1, <3>1 DEF monitor, MonitorBusy
    <3>3. SlotInv(d)'
      BY <1>4, <2>1, <3>2, OneClient
    <3> QED
      BY <2>3, <3>3
  <2> QED
    BY <2>2, <2>3
<1>5. ASSUME NEW d \in Slots, script[c][d] # <<>> PROVE ClientTurn(c, d, script[c][d])
  BY <1>5 DEF TurnsInv, SlotInv
<1>6. ASSUME NEW d \in Slots, Guard(c, d) PROVE SlotInv(e)'
  <2>1. PICK s : s = script[c][d]
    OBVIOUS
  <2>2. /\ s # <<>> /\ Head(s).op = "guard" /\ UNCHANGED <<table, monitor>>
        /\ Proceed(c, d, runThread(c, d, Head(s).to))
    BY <1>6, <2>1 DEF Guard
  <2>3. PICK cmd \in Commands : s = <<Set("guard", cmd)>>
    <3>1. s \in Scripts(c)
      BY <1>1, <2>1 DEF ScriptInv
    <3>2. s \notin Seq(Ops(Statuses, {None, c})) /\ s \notin Seq(Simple(Statuses, {None}))
      <4>1. ASSUME NEW S, s \in Seq(S) PROVE Head(s) \in S
        BY <2>2, <4>1, HeadTailProperties
      <4>2. Head(s) \notin Ops(Statuses, {None, c}) /\ Head(s) \notin Simple(Statuses, {None})
        BY <2>2, CommandOp, LeavingOp
      <4> QED
        BY <4>1, <4>2
    <3> QED
      BY <2>2, <3>1, <3>2 DEF Scripts
  <2>4. Head(s) = Set("guard", cmd)
    BY <2>3
  <2>5. openDevices[d] # NoPath /\ Sound(d)
    <3>1. ClientTurn(c, d, s)
      BY <1>5, <2>1, <2>2
    <3>2. /\ s # <<Set("lock", c), Notify("STATUS")>>
          /\ s \notin {<<Notify("STATUS"), Set("lock", None)>>, <<Set("lock", None)>>}
          /\ s \notin {<<Do("stop"), Set("status", "IDLE"), Notify("STATUS")>>,
                       <<Set("status", "IDLE"), Notify("STATUS")>>}
      BY <2>2, Fields
    <3> QED
      BY <3>1, <3>2 DEF ClientTurn
  <2>6. PICK r : r = runThread(c, d, cmd)
    OBVIOUS
  <2>7. r \in Seq(Gentle) \cup Beginnings(c) /\ Proceed(c, d, r)
    BY <2>2, <2>4, <2>6, ThreadBegins, Fields
  <2>8. openDevices'[d] # NoPath /\ Sound(d)' /\ ClientTurn(c, d, r)'
    <3>1. openDevices'[d] # NoPath /\ Sound(d)'
      BY <2>2, <2>5 DEF table, Sound
    <3> QED
      BY <2>7, <3>1 DEF ClientTurn
  <2> QED
    BY <1>4, <2>1, <2>2, <2>7, <2>8 DEF table
<1>7. ASSUME NEW d \in Slots, ClientStep(c, d) PROVE SlotInv(e)'
  <2>1. PICK s : s = script[c][d]
    OBVIOUS
  <2>2. PICK r : r = Rest(s, d)
    OBVIOUS
  <2>3. PICK h : h = IF inst[c][d] = None THEN handle[d] ELSE inst[c][d]
    OBVIOUS
  <2>4. s # <<>> /\ Operation(Head(s), d, h) /\ Proceed(c, d, r) /\ UNCHANGED monitor
    BY <1>7, <2>1, <2>2, <2>3 DEF ClientStep
  <2>5. ClientTurn(c, d, s)
    BY <1>5, <2>1, <2>4
  <2>6. openDevices'[d] # NoPath /\ ClientTurn(c, d, r)' /\ (r = <<>> => Sound(d)')
    BY <1>1, <2>2, <2>4, <2>5, ClientTurnStep
  <2>7. \A f \in Slots : f # d => /\ status'[f] = status[f] /\ lock'[f] = lock[f]
                                  /\ openDevices'[f] = openDevices[f] /\ notify'[f] = notify[f]
    BY <1>1, <2>4, EffectElsewhere
  <2> QED
    BY <1>4, <2>1, <2>4, <2>6, <2>7
<1>8. ASSUME NEW d \in Slots, CheckLock(c, d) PROVE SlotInv(e)'
  <2>1. /\ UNCHANGED <<table, monitor>> /\ MayBegin("command", d) /\ script[c][d] = <<>>
        /\ script' = [script EXCEPT ![c][d] = IF lock[d] = c THEN CleanupScript ELSE <<>>]
    BY <1>8 DEF CheckLock, Idle
  <2>2. /\ script'[c][d] = IF lock[d] = c THEN CleanupScript ELSE <<>>
        /\ \A b \in Clients, f \in Slots : b # c \/ f # d => script'[b][f] = script[b][f]
    BY <1>1, <2>1 DEF ScriptInv
  <2>3. CASE e # d \/ lock[d] # c
    <3>1. \A b \in Clients : script'[b][e] = script[b][e]
      BY <2>1, <2>2, <2>3
    <3> QED
      BY <1>1, <2>1, <3>1, SlotFrame DEF table, monitor, MonitorBusy
  <2>4. CASE e = d /\ lock[d] = c
    <3>1. ~MonitorBusy(d) /\ (\A b \in Clients : script[b][d] = <<>>) /\ Still(d)
      BY <1>1, <2>1, <2>4, Begins
    <3>2. openDevices[d] # NoPath
      BY <2>4, <3>1, NoneAssumption DEF Still, Blank
    <3>3. ~MonitorBusy(d)' /\ openDevices'[d] # NoPath /\ Sound(d)'
      BY <2>1, <3>1, <3>2 DEF table, monitor, MonitorBusy, Still, Sound
    <3>4. CleanupScript \in Beginnings(c) /\ CleanupScript # <<>>
      BY CleanupBegins DEF Beginnings
    <3>5. ClientTurn(c, d, CleanupScript)'
      BY <3>3, <3>4 DEF ClientTurn
    <3>6. script'[c][d] = CleanupScript /\ \A b \in Clients : b # c => script'[b][d] = <<>>
      BY <2>2, <2>4, <3>1
    <3>7. SlotInv(d)'
      BY <3>3, <3>4, <3>5, <3>6, OneClient
    <3> QED
      BY <2>4, <3>7
  <2> QED
    BY <2>3, <2>4
<1> QED
  BY <1>2, <1>3, <1>6, <1>7, <1>8 DEF Client

\* A step of monitorDevices leaves every slot as it should be.
LEMMA MonitorTurns ==
    ASSUME Overlaps \subseteq {"notifier"}, TypeInv, TurnsInv, Monitor PROVE TurnsInv'
<1> SUFFICES ASSUME NEW e \in Slots PROVE SlotInv(e)'
  BY DEF TurnsInv
<1>1. TableTypes /\ MonitorInv /\ SlotInv(e) /\ mI \in Slots
  BY AllTypes DEF TypeInv, TurnsInv, OtherTypes
<1>2. CASE Enumerate \/ Keep \/ Pass
  <2>1. UNCHANGED <<openDevices, status, notify, lock, script>> /\ mScript = <<>> /\ mScript' = <<>>
    BY <1>1, <1>2 DEF Enumerate, Keep, Pass, AtSlot, MonitorInv, table, clients
  <2>2. ~MonitorBusy(e) /\ ~MonitorBusy(e)'
    BY <2>1 DEF MonitorBusy
  <2> QED
    BY <1>1, <2>1, <2>2, SlotFrame
<1>3. ASSUME UNCHANGED <<openDevices, status, notify, lock, script, mI>>, mScript = <<>>, e # mI
      PROVE  SlotInv(e)'
  <2>1. ~MonitorBusy(e) /\ ~MonitorBusy(e)'
    BY <1>3 DEF MonitorBusy
  <2> QED
    BY <1>1, <1>3, <2>1, SlotFrame
<1>4. CASE Remove
  <2>1. /\ UNCHANGED <<openDevices, status, notify, lock, script, mI>> /\ mScript = <<>>
        /\ openDevices[mI] # NoPath /\ MayBegin("monitor", mI) /\ mScript' = RemoveScript
    BY <1>4 DEF Remove, AtSlot, table, clients
  <2>2. CASE e = mI
    <3>1. \A c \in Clients : script[c][e] = <<>>
      BY <1>1, <2>1, <2>2, Begins
    <3>2. MonitorBusy(e)'
      BY <2>1, <2>2, MonitorScripts DEF MonitorBusy
    <3>3. MonitorTurn(e, mScript)'
      BY <2>1, <2>2 DEF MonitorTurn
    <3>4. \A c \in Clients : script'[c][e] = <<>>
      BY <2>1, <3>1
    <3> QED
      BY <3>2, <3>3, <3>4, OneMonitor
  <2> QED
    BY <1>3, <2>1, <2>2
<1>5. ASSUME NEW p \in Paths, Add(p) PROVE SlotInv(e)'
  <2>1. /\ UNCHANGED <<openDevices, status, notify, lock, script, mI>> /\ mScript = <<>>
        /\ openDevices[mI] = NoPath /\ MayBegin("monitor", mI) /\ mScript' = AddScript(p)
    BY <1>5 DEF Add, AtSlot, clients
  <2>2. CASE e = mI
    <3>1. (\A c \in Clients : script[c][e] = <<>>) /\ Still(e)
      BY <1>1, <2>1, <2>2, Begins
    <3>2. MonitorBusy(e)'
      BY <2>1, <2>2, MonitorScripts DEF MonitorBusy
    <3>3. Blank(e)'
      BY <2>1, <2>2, <3>1 DEF Still, Blank
    <3>4. MonitorTurn(e, mScript)'
      BY <2>1, <3>3 DEF MonitorTurn
    <3>5. \A c \in Clients : script'[c][e] = <<>>
      BY <2>1, <3>1
    <3> QED
      BY <3>2, <3>4, <3>5, OneMonitor
  <2> QED
    BY <1>3, <2>1, <2>2
<1>6. CASE MonitorStep
  <2>1. PICK s : s = mScript
    OBVIOUS
  <2>2. PICK d \in Slots : d = mI
    BY <1>1
  <2>3. PICK r : r = Rest(s, d)
    OBVIOUS
  <2>4. PICK h : h = handle[d]
    OBVIOUS
  <2>5. /\ s # <<>> /\ Operation(Head(s), d, h) /\ mScript' = r
        /\ r # <<>> => mI' = d
        /\ UNCHANGED script
    BY <1>6, <2>1, <2>2, <2>3, <2>4 DEF MonitorStep, clients
  <2>6. CASE e = d
    <3>1. MonitorBusy(d) /\ SlotInv(d)
      BY <1>1, <2>1, <2>2, <2>5, <2>6 DEF MonitorBusy
    <3>2. MonitorTurn(d, s) /\ \A c \in Clients : script[c][d] = <<>>
      BY <2>1, <3>1 DEF SlotInv
    <3>3. (r # <<>> => MonitorTurn(d, r)') /\ (r = <<>> => Still(d)')
      <4>1. TableTypes
        BY <1>1
      <4>2. s # <<>> /\ Operation(Head(s), d, h)
        BY <2>5
      <4>3. MonitorTurn(d, s)
        BY <3>2
      <4> QED
        BY <2>3, <4>1, <4>2, <4>3, MonitorTurnStep
    <3>4. MonitorBusy(d)' <=> r # <<>>
      BY <2>5 DEF MonitorBusy
    <3>5. MonitorBusy(d)' => MonitorTurn(d, mScript)'
      BY <2>5, <3>3, <3>4
    <3>6. \A c \in Clients : script'[c][d] = <<>>
      BY <2>5, <3>2
    <3>7. SlotInv(d)'
      BY <3>3, <3>4, <3>5, <3>6, OneMonitor
    <3> QED
      BY <2>6, <3>7
  <2>7. CASE e # d
    <3>1. /\ status'[e] = status[e] /\ lock'[e] = lock[e]
          /\ openDevices'[e] = openDevices[e] /\ notify'[e] = notify[e]
      BY <1>1, <2>5, <2>7, EffectElsewhere
    <3>2. ~MonitorBusy(e) /\ ~MonitorBusy(e)'
      BY <2>2, <2>5, <2>7 DEF MonitorBusy
    <3> QED
      BY <1>1, <2>5, <3>1, <3>2, SlotFrame
  <2> QED
    BY <2>6, <2>7
<1> QED
  BY <1>2, <1>4, <1>5, <1>6 DEF Monitor

\* Every step does.
LEMMA TurnsStep ==
    ASSUME Overlaps \subseteq {"notifier"}, TypeInv, TurnsInv, [Next]_vars PROVE TurnsInv'
<1>1. ASSUME UNCHANGED <<openDevices, status, lock, script, mI, mScript>>,
             \A e \in Slots : notify'[e] \subseteq notify[e]
      PROVE  TurnsInv'
  <2> SUFFICES ASSUME NEW e \in Slots PROVE SlotInv(e)'
    BY DEF TurnsInv
  <2>1. SlotInv(e) /\ (MonitorBusy(e)' <=> MonitorBusy(e))
    BY <1>1 DEF TurnsInv, MonitorBusy
  <2> QED
    BY <1>1, <2>1, SlotFrame
<1>2. CASE UNCHANGED vars
  BY <1>1, <1>2 DEF vars, table, clients, monitor
<1>3. CASE Notifier
  <2>1. notify \in [Slots -> SUBSET Flags]
    BY DEF TypeInv, TypeOK
  <2>2. UNCHANGED <<openDevices, status, lock, script, mI, mScript>>
    BY <1>3 DEF Notifier, ClearUpdate, SendUpdate, table, clients, monitor
  <2>3. \A e \in Slots : notify'[e] \subseteq notify[e]
    BY <1>3, <2>1 DEF Notifier, ClearUpdate, SendUpdate, table
  <2> QED
    BY <1>1, <2>2, <2>3
<1>4. ASSUME NEW u \in Units, Plug(u) \/ Unplug(u) PROVE TurnsInv'
  BY <1>1, <1>4 DEF Plug, Unplug, table, clients, monitor
<1> QED
  BY <1>2, <1>3, <1>4, ClientTurns, MonitorTurns DEF Next

\* The table is empty at first and nobody is at work.
LEMMA TurnsInit == ASSUME Init PROVE TurnsInv
<1>1. ASSUME NEW d \in Slots PROVE SlotInv(d)
  <2>1. /\ \A c \in Clients : script[c][d] = <<>>
        /\ mScript = <<>> /\ status[d] = "DISCONNECT" /\ lock[d] = None /\ notify[d] = {}
    BY DEF Init
  <2>2. ~MonitorBusy(d) /\ Still(d)
    BY <2>1 DEF MonitorBusy, Still, Sound, Blank
  <2> QED
    BY <2>1, <2>2 DEF SlotInv
<1> QED
  BY <1>1 DEF TurnsInv

\* Nobody at work on a slot: it is as between turns.
LEMMA AtRest ==
    ASSUME TurnsInv, NEW d \in Slots, AtWork(d) = {} PROVE Still(d)
<1>1. ~MonitorBusy(d)
  BY DEF AtWork, MonitorBusy
<1>2. \A c \in Clients : script[c][d] = <<>>
  BY DEF AtWork
<1> QED
  BY <1>1, <1>2 DEF TurnsInv, SlotInv

-----------------------------------------------------------------------------
(* The theorems.                                                           *)

\* A device that no thread is at work on and whose status is LOCK names a client that can
\* unlock it, if threads take turns on a slot: no command, no clean-up and no plugging
\* leaves a device that line 473 keeps everybody from.
THEOREM LockHasOwner == ASSUME Overlaps \subseteq {"notifier"} PROVE Spec => []LockedToClient
<1>1. Init => IndInv /\ TurnsInv
  BY Starts, TurnsInit
<1>2. IndInv /\ TurnsInv /\ [Next]_vars => (IndInv /\ TurnsInv)'
  BY Preserved, TurnsStep DEF IndInv
<1>3. TurnsInv => LockedToClient
  BY AtRest DEF Still, Sound, LockedToClient
<1> QED
  BY <1>1, <1>2, <1>3, PTL DEF Spec

\* A slot that no thread is at work on and that has no unit is blank, if threads take turns
\* on a slot: the next unit in it inherits no status, lock or update (lines 165-181).
THEOREM EmptySlotBlank == ASSUME Overlaps \subseteq {"notifier"} PROVE Spec => []NoGhost
<1>1. Init => IndInv /\ TurnsInv
  BY Starts, TurnsInit
<1>2. IndInv /\ TurnsInv /\ [Next]_vars => (IndInv /\ TurnsInv)'
  BY Preserved, TurnsStep DEF IndInv
<1>3. TurnsInv => NoGhost
  BY AtRest DEF Still, Blank, NoGhost
<1> QED
  BY <1>1, <1>2, <1>3, PTL DEF Spec

=============================================================================
