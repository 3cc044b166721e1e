------------------------ MODULE SessionAnswersProofs ------------------------
(***************************************************************************)
(* Theorems about what the server sends in a session and what the client   *)
(* reads of it: the data of a download, and who is still there to read.    *)
(***************************************************************************)
EXTENDS SessionProofs, FiniteSetTheorems

\* How many lines of data a sequence of messages holds.
DataCount(s) == Cardinality({j \in DOMAIN s : s[j] = "data"})
Absent(msg, s) == \A j \in DOMAIN s : s[j] # msg

\* Data comes from the first command that is run, and no more than there is.
ShownInv ==
    /\ shown \in Nat /\ shown + DataCount(toClient) + DataCount(replies) <= DataLines
    /\ executed = <<>> => shown = 0 /\ Absent("data", toClient) /\ Absent("data", replies)

\* Once a command was run, its first line is not read again.
FirstLine == Line(1, "whole", "text")
PastInv ==
    executed # <<>> /\ spc \in Active =>
        /\ spc # "about"
        /\ cpc \in {"code", "welcome", "lines", "finish"} => written > 0
        /\ \A k \in DOMAIN toServer : toServer[k] # FirstLine
        /\ spc = "reading" => \A k \in 1 .. count : commands[k] # FirstLine

\* What the client hears before it sends its command, if it has the code.
Greeting == {"about", "devices", "update"}
WelcomeInv ==
    /\ updates = 0 => Absent("update", toClient)
    /\ spc \in {"code", "about", "ready"} =>
          cpc \in {"code", "welcome"} /\ \A j \in DOMAIN toClient : toClient[j] \in Greeting
    /\ spc = "reading" /\ cpc = "welcome" =>
          \E r \in DOMAIN toClient :
             /\ toClient[r] = "ready"
             /\ \A j \in DOMAIN toClient : j < r => toClient[j] \in Greeting
             /\ \A j \in DOMAIN toClient : j > r => toClient[j] = "update"
    /\ spc = "reading" /\ cpc # "welcome" => \A j \in DOMAIN toClient : toClient[j] = "update"

\* A client that goes on reading until it was told all.
Attentive == command.kind = "download" \/ (command.kind = "upload" /\ updates = 0)

WaitInv ==
    Attentive =>
        /\ spc \in {"code", "about", "ready", "reading"}
        /\ cpc \in {"code", "welcome", "lines", "finish",
                    IF command.kind = "download" THEN "download" ELSE "first"}
        /\ spc = "reading" => first # "bang"

Answering == {"running", "ready"}
\* The data is still being sent, or all of it has been.
Sending ==
    /\ spc \in Answering /\ Absent("ready", toClient) /\ Absent("ready", replies)
    /\ spc = "ready" => replies = <<>>
Sent == ~Absent("ready", toClient) /\ Absent("data", replies) /\ (Fits => spc \notin Answering)
DataOrder ==
    \A i, j \in DOMAIN toClient : i < j /\ toClient[i] = "ready" => toClient[j] # "data"
DownloadInv ==
    command.kind = "download" =>
        /\ DataOrder
        /\ IF cpc \in {"lines", "finish", "download"}
           THEN /\ shown + DataCount(toClient) + DataCount(replies) = DataLines
                /\ Sending \/ Sent
           ELSE /\ cpc \in {"quit", "end", "killed"}
                /\ cpc # "killed" => shown = DataLines
                /\ Absent("data", replies) /\ (Fits => spc \notin Answering)

HasRead == CASE cpc = "second" -> 1 [] cpc = "answer" -> 2 [] OTHER -> 0
UploadInv ==
    command.kind = "upload" /\ updates = 0 /\ Fits /\ spc \in Answering =>
        /\ cpc \in {"lines", "finish", "first", "second", "answer"}
        /\ HasRead + Len(toClient) + Len(replies) = 2

AnswerInv ==
    Intact /\ Plain /\ codeOk =>
       /\ command.kind = "show" => executed = <<>>
       /\ IF executed = <<>> THEN WelcomeInv /\ WaitInv ELSE DownloadInv /\ UploadInv

\* The server has not sent to a client that had gone.
HeardInv ==
    command.kind # "plain" /\ updates = 0 /\ Intact /\ Plain /\ Fits =>
        "server" \notin reset /\ spc # "killed"

-----------------------------------------------------------------------------
(* Counting the lines of data.                                             *)

\* Numbers that are moved up are as many as before.
LEMMA Moved ==
    ASSUME NEW T, T \subseteq Nat, IsFiniteSet(T), NEW k \in Nat
    PROVE  LET U == {i \in Nat : i - k \in T} IN
           IsFiniteSet(U) /\ Cardinality(U) = Cardinality(T)
<1> DEFINE U == {i \in Nat : i - k \in T}
           f == [t \in T |-> t + k]
<1>1. f \in [T -> U]
  <2>1. \A t \in T : t + k \in Nat /\ (t + k) - k = t
    OBVIOUS
  <2> QED
    BY <2>1
<1>2. \A s, t \in T : f[s] = f[t] => s = t
  <2>1. \A s, t \in T : s + k = t + k => s = t
    OBVIOUS
  <2> QED
    BY <2>1
<1>3. \A u \in U : \E t \in T : f[t] = u
  <2> TAKE u \in U
  <2>1. u - k \in T /\ (u - k) + k = u
    OBVIOUS
  <2> QED
    BY <2>1
<1> HIDE DEF f, U
<1>4. f \in Bijection(T, U)
  BY <1>1, <1>2, <1>3 DEF Bijection, Injection, Surjection, IsInjective
<1>5. ExistsBijection(T, U)
  BY <1>4 DEF ExistsBijection
<1>6. IsFiniteSet(U) /\ Cardinality(U) = Cardinality(T)
  BY <1>5, FS_Bijection
<1> QED
  BY <1>6 DEF U

\* The lines of data of a sequence are those up to some place and those after it.
LEMMA Counted ==
    ASSUME NEW S, NEW s \in Seq(S), NEW t \in Seq(S), NEW k \in 0 .. Len(s),
           Len(t) = Len(s) - k, \A j \in 1 .. Len(t) : t[j] = s[k + j]
    PROVE  LET low == {j \in 1 .. k : s[j] = "data"} IN
           /\ Cardinality(low) \in Nat /\ DataCount(t) \in Nat /\ DataCount(s) \in Nat
           /\ DataCount(s) = Cardinality(low) + DataCount(t)
<1> DEFINE low == {j \in 1 .. k : s[j] = "data"}
           T == {j \in DOMAIN t : t[j] = "data"}
           U == {i \in Nat : i - k \in T}
           D == {j \in DOMAIN s : s[j] = "data"}
<1>1. /\ Len(s) \in Nat /\ Len(t) \in Nat /\ k \in Nat /\ k <= Len(s)
      /\ DOMAIN s = 1 .. Len(s) /\ DOMAIN t = 1 .. Len(t)
  BY LenProperties
<1>2. IsFiniteSet(T) /\ T \subseteq Nat /\ Cardinality(T) \in Nat
  <2>1. IsFiniteSet(1 .. Len(t))
    BY <1>1, FS_Interval
  <2> QED
    BY <1>1, <2>1, FS_Subset, FS_CardinalityType
<1>3. IsFiniteSet(low) /\ Cardinality(low) \in Nat
  <2>1. IsFiniteSet(1 .. k)
    BY <1>1, FS_Interval
  <2> QED
    BY <2>1, FS_Subset, FS_CardinalityType
<1>4. IsFiniteSet(U) /\ Cardinality(U) = Cardinality(T)
  <2> HIDE DEF T
  <2> QED
    BY <1>1, <1>2, Moved
<1>5. D = low \cup U
  <2>1. ASSUME NEW i \in D PROVE i \in low \cup U
    <3>1. CASE i > k
      <4>1. i - k \in 1 .. Len(t) /\ k + (i - k) = i /\ i \in Nat
        BY <1>1, <3>1
      <4>2. t[i - k] = s[i]
        BY <4>1
      <4> QED
        BY <1>1, <4>1, <4>2
    <3>2. CASE ~(i > k)
      BY <1>1, <3>2
    <3> QED
      BY <3>1, <3>2
  <2>2. ASSUME NEW i \in low PROVE i \in D
    BY <1>1
  <2>3. ASSUME NEW i \in U PROVE i \in D
    <3>1. i - k \in 1 .. Len(t) /\ k + (i - k) = i /\ t[i - k] = "data" /\ i \in 1 .. Len(s)
      BY <1>1
    <3>2. s[i] = "data"
      BY <3>1
    <3> QED
      BY <1>1, <3>1, <3>2
  <2> QED
    BY <2>1, <2>2, <2>3
<1>6. low \cap U = {}
  <2>1. \A i \in U : i > k
    BY <1>1
  <2>2. \A i \in low : i <= k
    BY <1>1
  <2> QED
    BY <1>1, <2>1, <2>2
<1>7. DataCount(t) = Cardinality(T) /\ DataCount(s) = Cardinality(D)
  BY DEF DataCount
<1> HIDE DEF low, T, U, D
<1>8. Cardinality(D) = Cardinality(low) + Cardinality(U) - 0
  BY <1>3, <1>4, <1>5, <1>6, FS_Union, FS_EmptySet
<1> QED
  BY <1>2, <1>3, <1>4, <1>7, <1>8 DEF low

\* There is none in a sequence of other messages, and only data in one of data.
LEMMA CountNone ==
    ASSUME NEW s, Absent("data", s) PROVE DataCount(s) = 0
<1>1. {j \in DOMAIN s : s[j] = "data"} = {}
  BY DEF Absent
<1> QED
  BY <1>1, FS_EmptySet DEF DataCount

LEMMA CountAll ==
    /\ [n \in 1 .. DataLines |-> "data"] \in Seq(Messages)
    /\ DataCount([n \in 1 .. DataLines |-> "data"]) = DataLines
    /\ Absent("ready", [n \in 1 .. DataLines |-> "data"])
<1> DEFINE s == [n \in 1 .. DataLines |-> "data"]
<1>1. DataLines \in Nat /\ "data" \in Messages
  BY BoundsAssumption DEF Messages
<1>2. s \in Seq(Messages)
  BY <1>1, IsASeq
<1>3. DOMAIN s = 1 .. DataLines /\ \A j \in 1 .. DataLines : s[j] = "data"
  OBVIOUS
<1>4. {j \in DOMAIN s : s[j] = "data"} = 1 .. DataLines
  BY <1>3
<1>5. Cardinality(1 .. DataLines) = DataLines
  BY <1>1, FS_Interval
<1> QED
  BY <1>2, <1>3, <1>4, <1>5 DEF DataCount, Absent

\* One sequence after another.
LEMMA CountConcat ==
    ASSUME NEW S, NEW s \in Seq(S), NEW t \in Seq(S)
    PROVE  /\ DataCount(s) \in Nat /\ DataCount(t) \in Nat
           /\ DataCount(s \o t) = DataCount(s) + DataCount(t)
<1>1. /\ Len(s) \in Nat /\ Len(t) \in Nat /\ DOMAIN s = 1 .. Len(s)
  BY LenProperties
<1>2. /\ s \o t \in Seq(S) /\ Len(s \o t) = Len(s) + Len(t)
      /\ \A i \in 1 .. Len(s) + Len(t) : (s \o t)[i] = IF i <= Len(s) THEN s[i] ELSE t[i - Len(s)]
  BY ConcatProperties
<1>3. \A j \in 1 .. Len(t) : t[j] = (s \o t)[Len(s) + j]
  <2> TAKE j \in 1 .. Len(t)
  <2>1. Len(s) + j \in 1 .. Len(s) + Len(t) /\ ~(Len(s) + j <= Len(s)) /\ (Len(s) + j) - Len(s) = j
    BY <1>1
  <2> QED
    BY <1>2, <2>1
<1>4. {j \in 1 .. Len(s) : (s \o t)[j] = "data"} = {j \in DOMAIN s : s[j] = "data"}
  <2>1. \A j \in 1 .. Len(s) : j \in 1 .. Len(s) + Len(t) /\ j <= Len(s)
    BY <1>1
  <2> QED
    BY <1>1, <1>2, <2>1
<1>5. PICK u \in Seq(S) : u = s \o t
  BY <1>2
<1>6. PICK k \in Nat : k = Len(s)
  BY <1>1
<1>7. /\ k \in 0 .. Len(u) /\ Len(t) = Len(u) - k
      /\ \A j \in 1 .. Len(t) : t[j] = u[k + j]
  <2>1. k \in 0 .. Len(u) /\ Len(t) = Len(u) - k
    BY <1>1, <1>2, <1>5, <1>6
  <2> QED
    BY <1>3, <1>5, <1>6, <2>1
<1>8. /\ Cardinality({j \in 1 .. k : u[j] = "data"}) \in Nat /\ DataCount(t) \in Nat
      /\ DataCount(u) = Cardinality({j \in 1 .. k : u[j] = "data"}) + DataCount(t)
  BY <1>7, Counted
<1>9. DataCount(s) = Cardinality({j \in 1 .. k : u[j] = "data"})
  BY <1>4, <1>5, <1>6 DEF DataCount
<1> QED
  BY <1>5, <1>8, <1>9

\* The first message, and the others.
LEMMA CountHead ==
    ASSUME NEW S, NEW s \in Seq(S), s # <<>>
    PROVE  /\ DataCount(s) \in Nat /\ DataCount(Tail(s)) \in Nat
           /\ DataCount(s) = (IF Head(s) = "data" THEN 1 ELSE 0) + DataCount(Tail(s))
           /\ DataCount(<<Head(s)>>) = IF Head(s) = "data" THEN 1 ELSE 0
<1>1. /\ Len(s) \in Nat \ {0} /\ Head(s) = s[1] /\ Tail(s) \in Seq(S)
      /\ Len(Tail(s)) = Len(s) - 1 /\ \A j \in 1 .. Len(Tail(s)) : Tail(s)[j] = s[j + 1]
  BY EmptySeq, LenProperties, HeadTailProperties
<1>2. Cardinality({j \in 1 .. 1 : s[j] = "data"}) = IF s[1] = "data" THEN 1 ELSE 0
  <2>1. CASE s[1] = "data"
    <3>1. {j \in 1 .. 1 : s[j] = "data"} = {1}
      BY <2>1
    <3> QED
      BY <2>1, <3>1, FS_Singleton
  <2>2. CASE s[1] # "data"
    <3>1. {j \in 1 .. 1 : s[j] = "data"} = {}
      BY <2>2
    <3> QED
      BY <2>2, <3>1, FS_EmptySet
  <2> QED
    BY <2>1, <2>2
<1>3. 1 \in 0 .. Len(s) /\ \A j \in 1 .. Len(Tail(s)) : Tail(s)[j] = s[1 + j]
  BY <1>1
<1>4. DataCount(<<Head(s)>>) = Cardinality({j \in 1 .. 1 : s[j] = "data"})
  <2>1. DOMAIN <<Head(s)>> = 1 .. 1 /\ <<Head(s)>>[1] = s[1]
    BY <1>1
  <2>2. {j \in DOMAIN <<Head(s)>> : <<Head(s)>>[j] = "data"} = {j \in 1 .. 1 : s[j] = "data"}
    BY <2>1
  <2> QED
    BY <2>2 DEF DataCount
<1>5. /\ DataCount(Tail(s)) \in Nat /\ DataCount(s) \in Nat
      /\ DataCount(s) = Cardinality({j \in 1 .. 1 : s[j] = "data"}) + DataCount(Tail(s))
  BY <1>1, <1>3, Counted
<1>6. Head(s) = s[1]
  BY <1>1
<1> QED
  BY <1>2, <1>4, <1>5, <1>6

-----------------------------------------------------------------------------
(* The first line of the command, and what is answered.                    *)

\* A command that is run has at least one line that was read for it.
LEMMA RunReads ==
    ASSUME Types, BufferInv, Complete, Acceptable
    PROVE  /\ spc = "reading" /\ ~Goodbye /\ ~MoreLines /\ count > 0 /\ 1 \in Fresh
           /\ executed' = Append(executed, Arguments) /\ executed' # <<>>
           /\ replies' \in Answers(Arguments) /\ Send(<<"accepted">>, "running")
           /\ UNCHANGED <<command, codeOk, cpc, written, shown, commands, count, toServer,
                          updates, happened>>
<1>1. /\ spc = "reading" /\ ~Goodbye /\ ~MoreLines /\ executed' = Append(executed, Arguments)
      /\ replies' \in Answers(Arguments) /\ Send(<<"accepted">>, "running")
      /\ UNCHANGED <<command, codeOk, cpc, written, shown, commands, count, toServer,
                     updates, happened>>
  BY DEF Complete, Acceptable, asked, client
<1>2. count \in Nat /\ NumberLines \in Nat \ {0, 1}
  BY LenProperties, BoundsAssumption DEF Types
<1>3. count > 0
  <2>1. CASE first \in Ending
    BY <1>1, <2>1 DEF BufferInv, Goodbye
  <2>2. CASE first \notin Ending
    BY <1>1, <1>2, <2>2 DEF MoreLines
  <2> QED
    BY <2>1, <2>2
<1>4. 1 \in Fresh
  BY <1>1, <1>2, <1>3 DEF Fresh
<1>5. executed' # <<>>
  <2>1. executed \in Seq(Seq(LineSet)) /\ Arguments \in Seq(LineSet)
    BY ArgumentsAre DEF Types
  <2>2. Len(executed') = Len(executed) + 1 /\ Len(executed) \in Nat
    BY <1>1, <2>1, AppendProperties, LenProperties
  <2>3. Len(executed') # 0
    BY <2>2
  <2> QED
    BY <2>3, EmptySeq
<1> QED
  BY <1>1, <1>3, <1>4, <1>5

\* What is answered to lines.
LEMMA AnswersAre ==
    ASSUME Types, NEW lines, NEW r \in Answers(lines)
    PROVE  /\ r \in Seq(Messages) /\ Absent("ready", r)
           /\ \/ r \in {<<>>, <<"result">>} /\ Absent("data", r)
              \/ command.kind = "download" /\ r = [n \in 1 .. DataLines |-> "data"]
           /\ DataCount(r) \in Nat /\ DataCount(r) <= DataLines
<1>1. command.kind \in Kinds
  BY CommandsAssumption DEF Types
<1>2. \/ r \in {<<>>, <<"result">>}
      \/ command.kind = "download" /\ r = [n \in 1 .. DataLines |-> "data"]
  BY <1>1 DEF Answers, Kinds
<1>3. CASE r \in {<<>>, <<"result">>}
  <2>1. \A t \in {<<>>, <<"result">>} : t \in Seq(Messages) /\ Absent("ready", t) /\ Absent("data", t)
    <3>1. <<>> \in Seq(Messages) /\ Absent("ready", <<>>) /\ Absent("data", <<>>)
      BY DEF Absent
    <3>2. <<"result">> \in Seq(Messages)
      BY DEF Messages
    <3>3. Absent("ready", <<"result">>) /\ Absent("data", <<"result">>)
      <4>1. DOMAIN <<"result">> = 1 .. 1 /\ <<"result">>[1] = "result"
        OBVIOUS
      <4>2. \A j \in 1 .. 1 : j = 1
        OBVIOUS
      <4> QED
        BY <4>1, <4>2 DEF Absent
    <3> QED
      BY <3>1, <3>2, <3>3
  <2>2. DataCount(r) = 0
    BY <1>3, <2>1, CountNone
  <2>3. r \in Seq(Messages) /\ Absent("ready", r) /\ Absent("data", r)
    BY <1>3, <2>1
  <2> QED
    BY <1>3, <2>2, <2>3, BoundsAssumption
<1>4. CASE command.kind = "download" /\ r = [n \in 1 .. DataLines |-> "data"]
  BY <1>4, CountAll, BoundsAssumption
<1> QED
  BY <1>2, <1>3, <1>4

\* Without its first line a command is answered by an error.
LEMMA ErrorAnswer ==
    ASSUME Types, count > 0, commands[1] # FirstLine
    PROVE  Answers(Arguments) = {<<"result">>}
<1>1. PICK m \in 0 .. Len(commands) :
              /\ Arguments \in Seq(LineSet) /\ Len(Arguments) = m
              /\ \A k \in 1 .. m : Arguments[k] = commands[k]
  BY ArgumentsAre
<1>2. CASE Len(Arguments) < 2
  BY <1>2 DEF Answers
<1>3. CASE ~(Len(Arguments) < 2)
  <2>1. 1 \in 1 .. m
    BY <1>1, <1>3, LenProperties
  <2>2. Arguments[1] # Line(1, "whole", "text")
    BY <1>1, <2>1 DEF FirstLine
  <2>3. \E n \in 1 .. 2 : Arguments[n] # Line(n, "whole", "text")
    <3>1. 1 \in 1 .. 2
      OBVIOUS
    <3> QED
      BY <2>2, <3>1
  <2> QED
    BY <2>3 DEF Answers
<1> QED
  BY <1>2, <1>3

\* A line the client writes is not the first, if it has written one.
LEMMA LaterLines ==
    ASSUME Types, EndsInv, "server" \in conn, Client \/ Stopped,
           cpc \in {"code", "welcome", "lines", "finish"} => written > 0
    PROVE  /\ cpc' \in {"code", "welcome", "lines", "finish"} => written' > 0
           /\ (\A k \in DOMAIN toServer : toServer[k] # FirstLine)
                 => (\A k \in DOMAIN toServer' : toServer'[k] # FirstLine)
<1> USE DEF asked, client, server, reader
<1>1. Len(command.lines) \in Nat \ {0, 1} /\ written \in 0 .. Len(command.lines)
  BY CommandLines DEF Types
<1>2. ASSUME NEW line \in LineSet, line # FirstLine, toServer' = Append(toServer, line)
      PROVE  (\A k \in DOMAIN toServer : toServer[k] # FirstLine)
                => (\A k \in DOMAIN toServer' : toServer'[k] # FirstLine)
  <2>1. toServer \in Seq(LineSet) /\ Len(toServer) \in Nat /\ DOMAIN toServer = 1 .. Len(toServer)
    BY LenProperties DEF Types
  <2>2. /\ DOMAIN toServer' = 1 .. Len(toServer) + 1
        /\ \A k \in 1 .. Len(toServer) : toServer'[k] = toServer[k]
        /\ toServer'[Len(toServer) + 1] = line
    BY <1>2, <2>1, AppendProperties, LenProperties
  <2> QED
    BY <1>2, <2>1, <2>2
<1>3. \A line \in {CodeLine, EndLine, QuitLine} : line \in LineSet /\ line # FirstLine
  BY LineTypes DEF FirstLine, Line, CodeLine, EndLine, QuitLine
<1>4. CASE SendCode
  <2>1. toServer' = Append(toServer, CodeLine) /\ UNCHANGED written
    BY <1>4 DEF SendCode, Write
  <2> QED
    BY <1>2, <1>3, <1>4, <2>1 DEF SendCode
<1>5. CASE WriteLine
  <2> DEFINE line == Line(written + 1, "whole", command.lines[written + 1])
  <2>1. /\ cpc = "lines" /\ written > 0 /\ written + 1 \in 1 .. Len(command.lines)
        /\ written' = written + 1 /\ toServer' = Append(toServer, line)
    BY <1>1, <1>5 DEF WriteLine, Write, EndsInv
  <2>2. line \in LineSet /\ line.n = written + 1
    <3>1. written + 1 \in Nat /\ command.lines[written + 1] \in Firsts
      BY <1>1, <2>1, CommandLines
    <3> QED
      BY <3>1, LineTypes
  <2>3. FirstLine.n = 1
    BY DEF FirstLine, Line
  <2> HIDE DEF line
  <2>4. line # FirstLine
    BY <1>1, <2>1, <2>2, <2>3
  <2> QED
    BY <1>1, <1>2, <2>1, <2>2, <2>4
<1>6. CASE FinishCommand
  <2>1. toServer' = Append(toServer, EndLine) /\ UNCHANGED written /\ cpc = "finish"
    BY <1>6 DEF FinishCommand, Write
  <2> QED
    BY <1>2, <1>3, <2>1
<1>7. CASE Quit
  <2>1. toServer' = Append(toServer, QuitLine) /\ cpc' = "end"
    BY <1>7 DEF Quit
  <2> QED
    BY <1>2, <1>3, <2>1
<1>8. CASE AwaitReady \/ ReadError \/ ReadAnswer \/ ReadDownload \/ DownloadTimeout \/ Stopped
  <2>1. UNCHANGED <<toServer, written>>
    BY <1>8 DEF AwaitReady, ReadError, ReadAnswer, ReadDownload, DownloadTimeout, Stopped
  <2>2. cpc' \in {"code", "welcome", "lines", "finish"} => cpc \in {"code", "welcome", "lines", "finish"}
    BY <1>8 DEF AwaitReady, ReadError, ReadAnswer, ReadDownload, DownloadTimeout, Stopped, Answered
  <2> QED
    BY <2>1, <2>2
<1> QED
  BY <1>4, <1>5, <1>6, <1>7, <1>8 DEF Client

\* The first line of a command is read before anything is run, and only then.
LEMMA PastStep == ASSUME BasicInv, OrderInv, PastInv, [Next]_vars PROVE PastInv'
<1> USE DEF asked, client, server, reader
<1>0. /\ Types /\ EndsInv /\ CodeInv /\ BufferInv /\ count \in Nat
      /\ toServer \in Seq(LineSet) /\ Len(toServer) \in Nat /\ DOMAIN toServer = 1 .. Len(toServer)
  BY LenProperties DEF BasicInv, Types
<1>1. CASE Client \/ Stopped
  <2> SUFFICES ASSUME executed # <<>>, spc \in Active PROVE PastInv'
    BY <1>1, ClientApart DEF PastInv
  <2>1. UNCHANGED server /\ "server" \in conn
    BY <1>0, <1>1, ClientApart DEF EndsInv, Active
  <2> QED
    BY <1>0, <1>1, <2>1, LaterLines DEF PastInv
<1>2. CASE ReadCode \/ NoCode
  BY <1>0, <1>2 DEF ReadCode, NoCode, CodeInv, PastInv
<1>3. CASE Welcome \/ Reply \/ CloseSession \/ Update
  <2>1. /\ UNCHANGED <<cpc, written, executed, toServer, commands, count>>
        /\ spc' \in Active => spc \in Active
        /\ spc' \in Active => spc' # "about" \/ spc = "about"
        /\ spc' = "reading" => spc = "reading"
    BY <1>3 DEF Welcome, Reply, CloseSession, Update, Send, Active
  <2> QED
    BY <2>1 DEF PastInv
<1>4. CASE Ready
  <2>1. /\ UNCHANGED <<cpc, written, executed, toServer>> /\ count' = 0 /\ spc = "ready"
        /\ spc' # "about"
    BY <1>4 DEF Ready, Send
  <2> QED
    BY <2>1 DEF PastInv, Active
<1>5. ASSUME NEW line \in LineSet, line # FirstLine, Store(line), MoreLines,
             UNCHANGED <<cpc, written, executed, spc>>, PastInv,
             executed # <<>> => \A k \in DOMAIN toServer' : toServer'[k] # FirstLine
      PROVE  PastInv'
  <2>1. spc = "reading" /\ count < NumberLines
    BY <1>5 DEF MoreLines
  <2>2. count' = count + 1 /\ commands'[count + 1] = line /\ \A k \in 1 .. count : commands'[k] = commands[k]
    BY <1>0, <1>5, <2>1, Stored
  <2>3. executed # <<>> => \A k \in 1 .. count' : commands'[k] # FirstLine
    BY <1>0, <1>5, <2>1, <2>2 DEF PastInv, Active
  <2> QED
    BY <1>5, <2>1, <2>3 DEF PastInv, Active
<1>6. CASE ReadLine
  <2> SUFFICES ASSUME executed # <<>> PROVE PastInv'
    BY <1>6 DEF ReadLine, PastInv
  <2>1. PICK line \in Received : Receive(line) /\ Store(line)
    BY <1>6 DEF ReadLine
  <2>2. /\ MoreLines /\ spc = "reading" /\ toServer # <<>> /\ 1 \in DOMAIN toServer
        /\ UNCHANGED <<cpc, written, executed, spc>>
    BY <1>0, <1>6, EmptySeq DEF ReadLine, MoreLines
  <2>3. line \in LineSet /\ (WholeRead(line) \/ PartRead(line))
    BY <1>0, <2>1, <2>2, ReadOne
  <2>4. \A k \in DOMAIN toServer : toServer[k] # FirstLine
    BY <2>2 DEF PastInv, Active
  <2>5. line # FirstLine /\ \A k \in DOMAIN toServer' : toServer'[k] # FirstLine
    <3>1. CASE WholeRead(line)
      <4>1. PICK i \in DOMAIN toServer : toServer' = SubSeq(toServer, i + 1, Len(toServer))
        BY <3>1 DEF WholeRead
      <4>2. /\ DOMAIN toServer' = 1 .. Len(toServer) - i
            /\ \A k \in 1 .. Len(toServer) - i : toServer'[k] = toServer[i + k]
        BY <1>0, <4>1, Dropped
      <4>3. \A k \in DOMAIN toServer' : i + k \in DOMAIN toServer
        BY <1>0, <4>2
      <4> QED
        BY <2>2, <2>4, <3>1, <4>2, <4>3 DEF WholeRead
    <3>2. CASE PartRead(line)
      <4>1. PICK f \in {"text", "empty"} : toServer' = <<Line(line.n, "tail", f)>> \o Tail(toServer)
        BY <3>2 DEF PartRead
      <4>2. Line(line.n, "tail", f) \in LineSet
        BY <2>3 DEF LineSet, Line, Firsts
      <4>3. /\ DOMAIN toServer' = DOMAIN toServer /\ toServer'[1] = Line(line.n, "tail", f)
            /\ \A j \in DOMAIN toServer : j > 1 => toServer'[j] = toServer[j]
        BY <1>0, <2>2, <4>1, <4>2, NewHead
      <4>4. Line(line.n, "tail", f) # FirstLine /\ line # FirstLine
        BY <3>2 DEF PartRead, FirstLine, Line
      <4>5. \A k \in DOMAIN toServer : k = 1 \/ k > 1
        BY <1>0
      <4> QED
        BY <2>4, <4>3, <4>4, <4>5
    <3> QED
      BY <2>3, <3>1, <3>2
  <2> QED
    BY <1>5, <2>1, <2>2, <2>3, <2>5
<1>7. CASE ReadNothing
  <2>1. MoreLines /\ spc = "reading" /\ UNCHANGED <<cpc, written, executed, spc, toServer>>
    BY <1>7 DEF ReadNothing, MoreLines
  <2>2. CASE HungUp
    <3>1. EndLine \in LineSet /\ EndLine # FirstLine /\ Store(EndLine)
      BY <2>2, LineTypes DEF HungUp, FirstLine, Line, EndLine
    <3> QED
      BY <1>5, <2>1, <3>1 DEF PastInv, Active
  <2>3. CASE GiveUp
    <3>1. /\ count' = count /\ commands'[1].first = "bang"
          /\ \A k \in DOMAIN commands : k > 1 => commands'[k] = commands[k]
      BY <1>0, <2>3, GaveUp
    <3>2. FirstLine.first = "text"
      BY DEF FirstLine, Line
    <3>3. \A k \in 1 .. count : k \in DOMAIN commands /\ (k = 1 \/ k > 1)
      BY <1>0, LenProperties DEF Types
    <3>4. executed # <<>> => \A k \in 1 .. count : commands'[k] # FirstLine
      BY <2>1, <3>1, <3>2, <3>3 DEF PastInv, Active
    <3> QED
      BY <2>1, <3>1, <3>4 DEF PastInv, Active
  <2> QED
    BY <1>7, <2>2, <2>3 DEF ReadNothing
<1>8. CASE Complete
  <2>1. CASE ~Acceptable
    <3>1. spc = "reading" /\ UNCHANGED <<cpc, written, executed, toServer>> /\ spc' \in {"close", "ready"}
      BY <1>8, <2>1 DEF Complete
    <3> QED
      BY <3>1 DEF PastInv, Active
  <2>2. CASE Acceptable
    <3>1. /\ spc = "reading" /\ 1 \in Fresh /\ UNCHANGED <<command, cpc, written, toServer>>
          /\ spc' \in {"running", "killed"}
      <4>1. <<"accepted">> \in Seq(Messages) /\ "running" \in ServerAt
        BY DEF Messages, ServerAt
      <4> QED
        BY <1>0, <1>8, <2>2, <4>1, RunReads, Sends
    <3>2. PICK n \in Nat \ {0, 1} : n = Len(command.lines) /\ written \in 0 .. n
      BY <1>0, CommandLines DEF Types
    <3>3. /\ Pos(commands[1]) <= Latest
          /\ \A k \in DOMAIN toServer : Pos(commands[1]) < Pos(toServer[k])
      BY <3>1 DEF OrderInv, Active
    <3>4. Pos(commands[1]) >= 2 /\ Pos(commands[1]) \in Nat
      <4>1. commands[1] \in LineSet /\ Pos(commands[1]) \in Nat
        BY <1>0, <3>1, PlacesKnown
      <4>2. Rank(n, commands[1]) \in Nat \ {0}
        BY <3>2, <4>1 DEF Rank, LineSet
      <4> QED
        BY <3>2, <4>1, <4>2 DEF Pos, Place
    <3>5. Pos(FirstLine) = 2
      <4>1. FirstLine.n = 1 /\ FirstLine.part = "whole"
        BY DEF FirstLine, Line
      <4>2. Rank(n, FirstLine) = 1
        BY <4>1 DEF Rank
      <4> QED
        BY <3>2, <4>1, <4>2 DEF Pos, Place
    <3>6. \A k \in DOMAIN toServer : toServer[k] # FirstLine
      BY <3>3, <3>4, <3>5
    <3>7. cpc \in {"code", "welcome", "lines", "finish"} => written > 0
      BY <3>2, <3>3, <3>4 DEF Latest
    <3> QED
      BY <3>1, <3>6, <3>7 DEF PastInv
  <2> QED
    BY <2>1, <2>2
<1>9. CASE UNCHANGED vars
  BY <1>9 DEF vars, PastInv
<1> QED
  BY <1>1, <1>2, <1>3, <1>4, <1>6, <1>7, <1>8, <1>9 DEF Next, Server

-----------------------------------------------------------------------------
(* The lines of data on their way.                                         *)

\* Messages of one kind are in neither of two sequences, so not in both together.
LEMMA AbsentConcat ==
    ASSUME NEW S, NEW s \in Seq(S), NEW t \in Seq(S), NEW msg, Absent(msg, s), Absent(msg, t)
    PROVE  Absent(msg, s \o t)
<1>1. /\ Len(s) \in Nat /\ Len(t) \in Nat /\ DOMAIN s = 1 .. Len(s) /\ DOMAIN t = 1 .. Len(t)
  BY LenProperties
<1>2. /\ s \o t \in Seq(S) /\ Len(s \o t) = Len(s) + Len(t)
      /\ \A i \in 1 .. Len(s) + Len(t) : (s \o t)[i] = IF i <= Len(s) THEN s[i] ELSE t[i - Len(s)]
  BY ConcatProperties
<1>3. DOMAIN (s \o t) = 1 .. Len(s) + Len(t)
  BY <1>2, LenProperties
<1>4. ASSUME NEW i \in 1 .. Len(s) + Len(t) PROVE (s \o t)[i] # msg
  <2>1. CASE i <= Len(s)
    <3>1. i \in DOMAIN s /\ (s \o t)[i] = s[i]
      BY <1>1, <1>2, <2>1
    <3> QED
      BY <3>1 DEF Absent
  <2>2. CASE ~(i <= Len(s))
    <3>1. i - Len(s) \in DOMAIN t /\ (s \o t)[i] = t[i - Len(s)]
      BY <1>1, <1>2, <2>2
    <3> QED
      BY <3>1 DEF Absent
  <2> QED
    BY <2>1, <2>2
<1> QED
  BY <1>3, <1>4 DEF Absent

\* The messages of the protocol, one at a time.
LEMMA OneMessage ==
    ASSUME NEW m \in Messages
    PROVE  /\ <<m>> \in Seq(Messages) /\ Len(<<m>>) = 1
           /\ \A msg : msg # m => Absent(msg, <<m>>)
<1>1. DOMAIN <<m>> = {1} /\ <<m>>[1] = m
  OBVIOUS
<1> QED
  BY <1>1 DEF Absent

\* What a read of the client takes of the data, whole.
LEMMA DataTaken ==
    ASSUME Types, NEW k \in DOMAIN toClient, Take(k)
    PROVE  /\ toClient' \in Seq(Messages) /\ DataCount(toClient') \in Nat /\ DataIn(k) \in Nat
           /\ DataCount(toClient) = DataIn(k) + DataCount(toClient')
           /\ Len(toClient') = Len(toClient) - k /\ DOMAIN toClient' = 1 .. Len(toClient) - k
           /\ \A j \in 1 .. Len(toClient) - k : toClient'[j] = toClient[k + j]
           /\ \A msg : Absent(msg, toClient) => Absent(msg, toClient')
<1>1. /\ toClient \in Seq(Messages) /\ toClient' = SubSeq(toClient, k + 1, Len(toClient))
      /\ Len(toClient) \in Nat /\ DOMAIN toClient = 1 .. Len(toClient)
  BY LenProperties DEF Types, Take
<1>2. /\ toClient' \in Seq(Messages) /\ Len(toClient') = Len(toClient) - k
      /\ DOMAIN toClient' = 1 .. Len(toClient) - k
      /\ \A j \in 1 .. Len(toClient) - k : toClient'[j] = toClient[k + j]
  BY <1>1, Dropped
<1>3. PICK t : t = toClient'
  OBVIOUS
<1>4. /\ Cardinality({j \in 1 .. k : toClient[j] = "data"}) \in Nat /\ DataCount(t) \in Nat
      /\ DataCount(toClient) = Cardinality({j \in 1 .. k : toClient[j] = "data"}) + DataCount(t)
  <2>1. PICK s \in Seq(Messages) : s = toClient
    BY <1>1
  <2>2. k \in 0 .. Len(s) /\ t \in Seq(Messages) /\ Len(t) = Len(s) - k
    BY <1>1, <1>2, <1>3, <2>1
  <2>3. \A j \in 1 .. Len(t) : t[j] = s[k + j]
    BY <1>1, <1>2, <1>3, <2>1
  <2>4. /\ Cardinality({j \in 1 .. k : s[j] = "data"}) \in Nat /\ DataCount(t) \in Nat
        /\ DataCount(s) = Cardinality({j \in 1 .. k : s[j] = "data"}) + DataCount(t)
    BY <2>2, <2>3, Counted
  <2> QED
    BY <2>1, <2>4
<1>5. ASSUME NEW msg, Absent(msg, toClient) PROVE Absent(msg, t)
  <2>1. \A j \in DOMAIN t : k + j \in DOMAIN toClient /\ t[j] = toClient[k + j]
    BY <1>1, <1>2, <1>3
  <2> QED
    BY <1>5, <2>1 DEF Absent
<1> QED
  BY <1>2, <1>3, <1>4, <1>5 DEF DataIn

\* A read of a part leaves no more data than there was.
LEMMA DataTorn ==
    ASSUME Types, TakePart
    PROVE  /\ DataCount(toClient') \in Nat /\ DataCount(toClient') <= DataCount(toClient)
           /\ Absent("data", toClient) => Absent("data", toClient')
<1>1. /\ toClient \in Seq(Messages) /\ toClient # <<>> /\ toClient' = <<"part">> \o Tail(toClient)
      /\ "part" \in Messages /\ Tail(toClient) \in Seq(Messages)
  BY HeadTailProperties DEF Types, TakePart, Messages
<1>2. <<"part">> \in Seq(Messages) /\ Absent("data", <<"part">>)
  BY <1>1, OneMessage
<1>3. DataCount(<<"part">>) = 0
  BY <1>2, CountNone
<1>4. /\ DataCount(<<"part">>) \in Nat /\ DataCount(Tail(toClient)) \in Nat
      /\ DataCount(<<"part">> \o Tail(toClient)) = DataCount(<<"part">>) + DataCount(Tail(toClient))
  BY <1>1, <1>2, CountConcat
<1>5. /\ DataCount(toClient) \in Nat
      /\ DataCount(toClient) = (IF Head(toClient) = "data" THEN 1 ELSE 0) + DataCount(Tail(toClient))
  BY <1>1, CountHead
<1>6. DataCount(toClient') \in Nat /\ DataCount(toClient') <= DataCount(toClient)
  <2>1. DataCount(toClient') = DataCount(Tail(toClient))
    BY <1>1, <1>3, <1>4
  <2> QED
    BY <1>4, <1>5, <2>1
<1>7. ASSUME Absent("data", toClient) PROVE Absent("data", toClient')
  <2>1. /\ DOMAIN toClient' = DOMAIN toClient /\ toClient'[1] = "part"
        /\ \A j \in DOMAIN toClient : j > 1 => toClient'[j] = toClient[j]
    BY <1>1, NewHead
  <2>2. \A j \in DOMAIN toClient : j = 1 \/ j > 1
    BY <1>1, LenProperties
  <2> QED
    BY <1>7, <2>1, <2>2 DEF Absent
<1> QED
  BY <1>6, <1>7

\* What a send of the server adds to the data.
LEMMA DataSent ==
    ASSUME Types, NEW msgs \in Seq(Messages), NEW next \in ServerAt, Send(msgs, next)
    PROVE  /\ DataCount(toClient') \in Nat /\ DataCount(toClient) \in Nat /\ DataCount(msgs) \in Nat
           /\ DataCount(toClient') <= DataCount(toClient) + DataCount(msgs)
           /\ "client" \in conn => DataCount(toClient') = DataCount(toClient) + DataCount(msgs)
           /\ \A msg : Absent(msg, toClient) /\ Absent(msg, msgs) => Absent(msg, toClient')
<1>1. toClient \in Seq(Messages)
  BY DEF Types
<1>2. /\ DataCount(toClient) \in Nat /\ DataCount(msgs) \in Nat
      /\ DataCount(toClient \o msgs) = DataCount(toClient) + DataCount(msgs)
  BY <1>1, CountConcat
<1>3. \A msg : Absent(msg, toClient) /\ Absent(msg, msgs) => Absent(msg, toClient \o msgs)
  BY <1>1, AbsentConcat
<1>4. IF "client" \in conn THEN toClient' = toClient \o msgs ELSE toClient' = toClient
  BY Sends
<1>5. CASE "client" \in conn
  <2>1. toClient' = toClient \o msgs
    BY <1>4, <1>5
  <2>2. DataCount(toClient') = DataCount(toClient) + DataCount(msgs)
    BY <1>2, <2>1
  <2> QED
    BY <1>2, <1>3, <2>1, <2>2
<1>6. CASE "client" \notin conn
  BY <1>2, <1>4, <1>6
<1> QED
  BY <1>5, <1>6

\* No step makes more data of the data there is.
LEMMA ShownStep ==
    ASSUME BasicInv, PastInv, ShownInv, [Next]_vars PROVE ShownInv'
<1> USE DEF asked, client, server, reader
<1>0. /\ Types /\ EndsInv /\ CodeInv /\ BufferInv
      /\ toClient \in Seq(Messages) /\ replies \in Seq(Messages)
      /\ DataCount(toClient) \in Nat /\ DataCount(replies) \in Nat /\ DataLines \in Nat
  <2>1. Types /\ EndsInv /\ CodeInv /\ BufferInv
    BY DEF BasicInv
  <2>2. toClient \in Seq(Messages) /\ replies \in Seq(Messages)
    BY <2>1 DEF Types
  <2> QED
    BY <2>1, <2>2, CountConcat, BoundsAssumption
<1>1. ASSUME UNCHANGED <<replies, executed>>, shown' \in Nat, DataCount(toClient') \in Nat,
             shown' + DataCount(toClient') <= shown + DataCount(toClient),
             Absent("data", toClient) => Absent("data", toClient')
      PROVE  ShownInv'
  <2>1. shown' + DataCount(toClient') + DataCount(replies) <= DataLines
    BY <1>0, <1>1 DEF ShownInv
  <2>2. Absent("data", toClient) /\ shown = 0 => shown' = 0
    BY <1>0, <1>1, CountNone
  <2> QED
    BY <1>1, <2>1, <2>2 DEF ShownInv
<1>2. ASSUME NEW k \in DOMAIN toClient, Take(k), UNCHANGED <<replies, executed>>,
             shown' \in {shown, shown + DataIn(k)}
      PROVE  ShownInv'
  <2>1. /\ DataCount(toClient') \in Nat /\ DataIn(k) \in Nat
        /\ DataCount(toClient) = DataIn(k) + DataCount(toClient')
        /\ Absent("data", toClient) => Absent("data", toClient')
    BY <1>0, <1>2, DataTaken
  <2>2. shown \in Nat
    BY DEF ShownInv
  <2>3. shown' \in Nat /\ shown' + DataCount(toClient') <= shown + DataCount(toClient)
    BY <1>2, <2>1, <2>2
  <2> QED
    BY <1>1, <1>2, <2>1, <2>3
<1>3. ASSUME TakePart, UNCHANGED <<replies, executed, shown>> PROVE ShownInv'
  <2>1. shown \in Nat
    BY DEF ShownInv
  <2>2. shown + DataCount(toClient') <= shown + DataCount(toClient)
    BY <1>0, <1>3, <2>1, DataTorn
  <2> QED
    BY <1>0, <1>1, <1>3, <2>1, <2>2, DataTorn
<1>4. ASSUME UNCHANGED <<replies, executed, shown, toClient>> PROVE ShownInv'
  BY <1>4 DEF ShownInv, DataCount
<1>5. ASSUME NEW msgs \in Seq(Messages), NEW next \in ServerAt, Send(msgs, next),
             Absent("data", msgs), UNCHANGED <<replies, executed, shown>>
      PROVE  ShownInv'
  <2>1. shown \in Nat /\ DataCount(msgs) = 0
    BY <1>5, CountNone DEF ShownInv
  <2>2. /\ DataCount(toClient') \in Nat /\ DataCount(toClient') <= DataCount(toClient)
        /\ Absent("data", toClient) => Absent("data", toClient')
    BY <1>0, <1>5, <2>1, DataSent
  <2>3. shown + DataCount(toClient') <= shown + DataCount(toClient)
    BY <1>0, <2>1, <2>2
  <2> QED
    BY <1>1, <1>5, <2>1, <2>2, <2>3
<1>6. CASE AwaitReady
  <2>1. UNCHANGED <<replies, executed, shown>>
    BY <1>6 DEF AwaitReady
  <2> QED
    BY <1>2, <1>3, <1>4, <1>6, <2>1 DEF AwaitReady
<1>7. CASE ReadAnswer
  <2>1. UNCHANGED <<replies, executed>>
    BY <1>7 DEF ReadAnswer
  <2> QED
    BY <1>2, <1>3, <1>4, <1>7, <2>1 DEF ReadAnswer
<1>8. CASE ReadDownload
  <2>1. UNCHANGED <<replies, executed>>
    BY <1>8 DEF ReadDownload
  <2> QED
    BY <1>2, <1>3, <1>4, <1>8, <2>1 DEF ReadDownload
<1>9. CASE SendCode \/ ReadError \/ WriteLine \/ FinishCommand \/ DownloadTimeout \/ Quit \/ Stopped
  BY <1>4, <1>9 DEF SendCode, ReadError, WriteLine, FinishCommand, DownloadTimeout, Quit, Stopped
<1>10. CASE ReadCode \/ NoCode \/ Welcome \/ Ready \/ Update
  <2>1. UNCHANGED <<replies, executed, shown>>
    BY <1>10 DEF ReadCode, NoCode, Welcome, Ready, Update
  <2>2. /\ {"incorrect", "ready", "update", "about", "devices"} \subseteq Messages
        /\ "close" \in ServerAt /\ "ready" \in ServerAt /\ "reading" \in ServerAt /\ spc \in ServerAt
    BY <1>0 DEF Messages, ServerAt, Types
  <2>3. \A m \in {"incorrect", "ready", "update", "about", "devices"} :
           <<m>> \in Seq(Messages) /\ Absent("data", <<m>>)
    BY <2>2, OneMessage
  <2>4. <<"about", "devices">> \in Seq(Messages) /\ Absent("data", <<"about", "devices">>)
    <3>1. DOMAIN <<"about", "devices">> = {1, 2}
      OBVIOUS
    <3> QED
      BY <2>2, <3>1 DEF Absent
  <2>5. CASE UNCHANGED toClient
    BY <1>4, <2>1, <2>5
  <2>6. CASE Refuse
    BY <1>5, <2>1, <2>2, <2>3, <2>6 DEF Refuse
  <2>7. CASE Welcome
    BY <1>5, <2>1, <2>2, <2>4, <2>7 DEF Welcome
  <2>8. CASE Ready
    BY <1>5, <2>1, <2>2, <2>3, <2>8 DEF Ready
  <2>9. CASE Update
    BY <1>5, <2>1, <2>2, <2>3, <2>5, <2>9 DEF Update
  <2> QED
    BY <1>10, <2>5, <2>6, <2>7, <2>8, <2>9 DEF ReadCode, NoCode, Quiet
<1>11. CASE ReadLine \/ ReadNothing \/ CloseSession
  BY <1>4, <1>11 DEF ReadLine, ReadNothing, CloseSession
<1>12. CASE Complete
  <2>1. CASE ~Acceptable
    BY <1>4, <1>12, <2>1 DEF Complete, Quiet
  <2>2. CASE Acceptable
    <3>1. /\ count > 0 /\ spc = "reading" /\ executed' # <<>> /\ replies' \in Answers(Arguments)
          /\ Send(<<"accepted">>, "running") /\ shown' = shown
      BY <1>0, <1>12, <2>2, RunReads
    <3>2. PICK r \in Answers(Arguments) : r = replies'
      BY <3>1
    <3>3. DataCount(r) \in Nat /\ DataCount(r) <= DataLines
      BY <1>0, <3>2, AnswersAre
    <3>4. DataCount(toClient') \in Nat /\ DataCount(toClient') <= DataCount(toClient)
      <4>1. <<"accepted">> \in Seq(Messages) /\ Absent("data", <<"accepted">>) /\ "running" \in ServerAt
        BY OneMessage DEF Messages, ServerAt
      <4>2. DataCount(<<"accepted">>) = 0
        BY <4>1, CountNone
      <4>3. DataCount(toClient') \in Nat /\ DataCount(toClient') <= DataCount(toClient) + DataCount(<<"accepted">>)
        BY <1>0, <3>1, <4>1, DataSent
      <4> QED
        BY <1>0, <4>2, <4>3
    <3>5. CASE executed = <<>>
      <4>1. shown = 0 /\ DataCount(toClient) = 0
        BY <3>5, CountNone DEF ShownInv
      <4>2. shown' + DataCount(toClient') + DataCount(r) <= DataLines
        BY <1>0, <3>1, <3>3, <3>4, <4>1
      <4> QED
        BY <3>1, <3>2, <4>1, <4>2 DEF ShownInv
    <3>6. CASE executed # <<>>
      <4>1. commands[1] # FirstLine
        <5>1. \A k \in 1 .. count : commands[k] # FirstLine
          BY <3>1, <3>6 DEF PastInv, Active
        <5>2. 1 \in 1 .. count
          BY <1>0, <3>1, LenProperties DEF Types
        <5> QED
          BY <5>1, <5>2
      <4>2. r = <<"result">>
        BY <1>0, <3>1, <3>2, <4>1, ErrorAnswer
      <4>3. DataCount(r) = 0
        <5>1. Absent("data", <<"result">>)
          BY OneMessage DEF Messages
        <5> QED
          BY <4>2, <5>1, CountNone
      <4>4. shown \in Nat /\ shown + DataCount(toClient) <= DataLines
        BY <1>0 DEF ShownInv
      <4>5. shown' + DataCount(toClient') + DataCount(r) <= DataLines
        BY <1>0, <3>1, <3>4, <4>3, <4>4
      <4> QED
        BY <3>1, <3>2, <4>4, <4>5 DEF ShownInv
    <3> QED
      BY <3>5, <3>6
  <2> QED
    BY <2>1, <2>2
<1>13. CASE Reply
  <2>1. CASE NoneLeft
    BY <1>4, <1>13, <2>1 DEF Reply, Quiet
  <2>2. CASE ~NoneLeft
    <3>1. /\ replies # <<>> /\ replies' = Tail(replies) /\ UNCHANGED <<shown, executed>>
          /\ Send(<<Head(replies)>>, "running") /\ "running" \in ServerAt
      BY <1>13, <2>2 DEF Reply, NoneLeft, ServerAt
    <3>2. PICK m \in Messages : m = Head(replies)
      BY <1>0, <3>1, HeadTailProperties
    <3>3. <<m>> \in Seq(Messages)
      BY OneMessage
    <3>4. /\ DataCount(Tail(replies)) \in Nat /\ DataCount(<<m>>) \in Nat
          /\ DataCount(replies) = DataCount(<<m>>) + DataCount(Tail(replies))
      BY <1>0, <3>1, <3>2, CountHead
    <3>5. DataCount(toClient') \in Nat /\ DataCount(toClient') <= DataCount(toClient) + DataCount(<<m>>)
      BY <1>0, <3>1, <3>2, <3>3, DataSent
    <3>6. shown \in Nat /\ shown + DataCount(toClient) + DataCount(replies) <= DataLines
      BY DEF ShownInv
    <3>7. shown + DataCount(toClient') + DataCount(Tail(replies)) <= DataLines
      BY <1>0, <3>4, <3>5, <3>6
    <3>8. ASSUME executed = <<>> PROVE Absent("data", toClient') /\ Absent("data", Tail(replies))
      <4>1. Absent("data", toClient) /\ Absent("data", replies)
        BY <3>8 DEF ShownInv
      <4>2. m # "data" /\ Absent("data", Tail(replies))
        <5>1. /\ m = replies[1] /\ 1 \in DOMAIN replies
              /\ \A j \in DOMAIN Tail(replies) : j + 1 \in DOMAIN replies /\ Tail(replies)[j] = replies[j + 1]
          BY <1>0, <3>1, <3>2, EmptySeq, LenProperties, HeadTailProperties
        <5> QED
          BY <4>1, <5>1 DEF Absent
      <4>3. Absent("data", <<m>>)
        BY <4>2, OneMessage
      <4> QED
        BY <1>0, <3>1, <3>2, <3>3, <4>1, <4>2, <4>3, DataSent
    <3> QED
      BY <3>1, <3>6, <3>7, <3>8 DEF ShownInv
  <2> QED
    BY <2>1, <2>2
<1>14. CASE UNCHANGED vars
  BY <1>4, <1>14 DEF vars
<1> QED
  BY <1>6, <1>7, <1>8, <1>9, <1>10, <1>11, <1>12, <1>13, <1>14 DEF Next, Client, Server

\* What holds in every session, whatever goes wrong in it.
AlwaysInv == BasicInv /\ OrderInv /\ RunInv /\ PastInv /\ ShownInv

LEMMA AlwaysHolds == Spec => []AlwaysInv
<1>1. Init => OrderInv /\ RunInv /\ PastInv /\ ShownInv
  <2>1. Init => OrderInv /\ RunInv /\ PastInv
    BY DEF Init, OrderInv, RunInv, PastInv, Active
  <2>2. Init => ShownInv
    <3> SUFFICES ASSUME Init PROVE ShownInv
      OBVIOUS
    <3>1. shown = 0 /\ toClient = <<>> /\ replies = <<>> /\ DataLines \in Nat
      BY BoundsAssumption DEF Init
    <3>2. Absent("data", <<>>)
      BY DEF Absent
    <3>3. DataCount(<<>>) = 0
      BY <3>2, CountNone
    <3> QED
      BY <3>1, <3>2, <3>3 DEF ShownInv
  <2> QED
    BY <2>1, <2>2
<1>2. BasicInv /\ OrderInv /\ RunInv /\ [Next]_vars => OrderInv' /\ RunInv'
  BY OrderStep
<1>3. BasicInv /\ OrderInv /\ PastInv /\ [Next]_vars => PastInv'
  BY PastStep
<1>4. BasicInv /\ PastInv /\ ShownInv /\ [Next]_vars => ShownInv'
  BY ShownStep
<1> QED
  BY <1>1, <1>2, <1>3, <1>4, BasicHolds, PTL DEF Spec, AlwaysInv

\* Every variable has its type; what is not so by the form of the actions is
\* that the array of lines never grows over NumberLines (ptrim-server.cc:737)
\* and that a client prints no more lines of data than a download has: a
\* command is answered with its data once, however its lines are cut up.
THEOREM TypeCorrect == Spec => []TypeOK
<1>1. AlwaysInv => TypeOK
  <2> SUFFICES ASSUME AlwaysInv PROVE TypeOK
    OBVIOUS
  <2>1. Types /\ ShownInv
    BY DEF AlwaysInv, BasicInv
  <2>2. toClient \in Seq(Messages) /\ replies \in Seq(Messages)
    BY <2>1 DEF Types
  <2>3. DataCount(toClient) \in Nat /\ DataCount(replies) \in Nat /\ DataLines \in Nat
    BY <2>2, CountConcat, BoundsAssumption
  <2>4. shown \in 0 .. DataLines
    BY <2>1, <2>3 DEF ShownInv
  <2> QED
    BY <2>1, <2>4 DEF Types, TypeOK, ClientAt, ServerAt
<1> QED
  BY <1>1, AlwaysHolds, PTL

-----------------------------------------------------------------------------
(* A session in which nothing goes wrong, up to the command.               *)

Calm == Intact /\ Plain

\* The parts of StreamInv that do not need room for the whole command.
CalmInv == Calm => ClientInv /\ (executed = <<>> => BeforeRun)

LEMMA CalmBefore ==
    ASSUME Types, [Next]_vars, Calm' PROVE Calm /\ UNCHANGED command
<1>1. UNCHANGED command /\ happened \subseteq happened'
  BY HappenedGrows
<1> QED
  BY <1>1 DEF Calm, Intact, Never, Plain

LEMMA CalmStep ==
    ASSUME BasicInv, BasicInv', OrderInv, CalmInv, [Next]_vars PROVE CalmInv'
<1> SUFFICES ASSUME Calm' PROVE ClientInv' /\ (executed' = <<>> => BeforeRun')
  BY DEF CalmInv
<1>1. Calm /\ UNCHANGED command /\ Intact' /\ Plain /\ ClientInv
  BY CalmBefore DEF BasicInv, Calm, CalmInv
<1>2. ClientInv'
  BY <1>1, ClientTrack DEF Calm
<1> SUFFICES ASSUME executed' = <<>> PROVE BeforeRun'
  BY <1>2
<1>3. ~(Complete /\ Acceptable)
  BY RunReads DEF BasicInv
<1>4. executed = <<>>
  <2>1. CASE Client \/ Stopped
    BY <2>1, ClientApart DEF server
  <2>2. CASE Server \/ Update \/ UNCHANGED vars
    BY <1>3, <2>2 DEF Server, ReadCode, NoCode, Welcome, Ready, ReadLine, ReadNothing, Complete, Reply,
         CloseSession, Update, vars, server
  <2> QED
    BY <2>1, <2>2 DEF Next
<1>5. BeforeRun
  BY <1>1, <1>4 DEF CalmInv
<1>6. CASE Client \/ Stopped
  BY <1>1, <1>5, <1>6, BeforeClient DEF Calm
<1>7. CASE ReadLine
  BY <1>1, <1>5, <1>7, BeforeRead DEF Calm
<1>8. CASE (Server \/ Update) /\ ~ReadLine
  BY <1>1, <1>3, <1>5, <1>8, BeforeServer DEF Calm
<1>9. CASE UNCHANGED vars
  <2>1. UNCHANGED <<command, spc, commands, count, first, toServer, executed, StreamLength>>
    BY <1>9 DEF vars, asked, server, reader, client, StreamLength
  <2> QED
    BY <1>5, <1>9, <2>1 DEF BeforeRun, Consumed
<1> QED
  BY <1>6, <1>7, <1>8, <1>9 DEF Next

\* In a session in which nothing goes wrong the client reads one message.
LEMMA CalmReads ==
    ASSUME Intact' PROVE ~TakePart /\ \A k \in DOMAIN toClient : Take(k) => k = 1
<1>1. ~TakePart
  BY DEF TakePart, Happens, Intact, Never
<1>2. ASSUME NEW k \in DOMAIN toClient, Take(k) PROVE ~(k > 1)
  BY <1>2 DEF Take, Only, Happens, Intact, Never
<1> QED
  BY <1>1, <1>2 DEF Take

LEMMA OneTaken ==
    ASSUME Types, Intact', NEW k \in DOMAIN toClient, Take(k)
    PROVE  /\ k = 1 /\ Len(toClient) \in Nat \ {0} /\ DOMAIN toClient = 1 .. Len(toClient)
           /\ Len(toClient') = Len(toClient) - 1 /\ DOMAIN toClient' = 1 .. Len(toClient) - 1
           /\ \A j \in 1 .. Len(toClient) - 1 : toClient'[j] = toClient[1 + j] /\ 1 + j \in DOMAIN toClient
           /\ \A msg : Absent(msg, toClient) => Absent(msg, toClient')
<1>1. toClient \in Seq(Messages) /\ Len(toClient) \in Nat /\ DOMAIN toClient = 1 .. Len(toClient)
  BY LenProperties DEF Types
<1>2. k \in 1 .. Len(toClient) /\ ~(k > 1)
  <2>1. ~(k > 1)
    BY DEF Take, Only, Happens, Intact, Never
  <2> QED
    BY <1>1, <2>1
<1>3. k = 1 /\ Len(toClient) \in Nat \ {0}
  BY <1>1, <1>2
<1>4. \A j \in 1 .. Len(toClient) - 1 : 1 + j \in DOMAIN toClient
  BY <1>1
<1> QED
  BY <1>1, <1>3, <1>4, DataTaken

\* The server sends one message to a client that is there.
LEMMA OneSent ==
    ASSUME Types, NEW m \in Messages, NEW next \in ServerAt, Send(<<m>>, next)
    PROVE  /\ Len(toClient) \in Nat /\ DOMAIN toClient = 1 .. Len(toClient)
           /\ \A msg : msg # m /\ Absent(msg, toClient) => Absent(msg, toClient')
           /\ "client" \in conn =>
                 /\ spc' = next /\ Len(toClient') = Len(toClient) + 1
                 /\ DOMAIN toClient' = 1 .. Len(toClient) + 1
                 /\ \A j \in 1 .. Len(toClient) : toClient'[j] = toClient[j]
                 /\ toClient'[Len(toClient) + 1] = m
                 /\ UNCHANGED <<conn, reset>>
           /\ "client" \notin conn => UNCHANGED toClient
<1>1. toClient \in Seq(Messages) /\ Len(toClient) \in Nat /\ DOMAIN toClient = 1 .. Len(toClient)
  BY LenProperties DEF Types
<1>2. <<m>> \in Seq(Messages) /\ Len(<<m>>) = 1 /\ \A msg : msg # m => Absent(msg, <<m>>)
  BY OneMessage
<1>3. ASSUME "client" \in conn
      PROVE  /\ spc' = next /\ Len(toClient') = Len(toClient) + 1
             /\ DOMAIN toClient' = 1 .. Len(toClient) + 1
             /\ \A j \in 1 .. Len(toClient) : toClient'[j] = toClient[j]
             /\ toClient'[Len(toClient) + 1] = m
             /\ UNCHANGED <<conn, reset>>
  <2>1. toClient' = toClient \o <<m>> /\ spc' = next /\ UNCHANGED <<conn, reset>>
    BY <1>3 DEF Send
  <2>2. /\ toClient' \in Seq(Messages) /\ Len(toClient') = Len(toClient) + 1
        /\ \A i \in 1 .. Len(toClient) + 1 :
              toClient'[i] = IF i <= Len(toClient) THEN toClient[i] ELSE <<m>>[i - Len(toClient)]
    BY <1>1, <1>2, <2>1, ConcatProperties
  <2>3. \A j \in 1 .. Len(toClient) : toClient'[j] = toClient[j]
    BY <1>1, <2>2
  <2>4. toClient'[Len(toClient) + 1] = m
    <3>1. /\ Len(toClient) + 1 \in 1 .. Len(toClient) + 1 /\ ~(Len(toClient) + 1 <= Len(toClient))
          /\ (Len(toClient) + 1) - Len(toClient) = 1 /\ <<m>>[1] = m
      BY <1>1
    <3> QED
      BY <2>2, <3>1
  <2>5. DOMAIN toClient' = 1 .. Len(toClient) + 1
    BY <2>2, LenProperties
  <2> QED
    BY <2>1, <2>2, <2>3, <2>4, <2>5
<1>4. "client" \notin conn => UNCHANGED toClient
  BY DEF Send
<1>5. \A msg : msg # m /\ Absent(msg, toClient) => Absent(msg, toClient')
  BY <1>2, DataSent
<1> QED
  BY <1>1, <1>3, <1>4, <1>5

\* No line of a calm session begins with a dot.
LEMMA NoDot == ASSUME Types, BeforeRun, spc = "reading" PROVE first # "dot"
<1>1. CASE first = "bang"
  BY <1>1
<1>2. CASE /\ \A k \in 1 .. count : commands[k] = StreamLine(command, k)
           /\ first = IF count = 0 THEN "text" ELSE commands[count].first
  <2>1. count \in Nat
    BY LenProperties DEF Types
  <2>2. count > 0 => first = StreamLine(command, count).first
    BY <1>2, <2>1
  <2>3. count > 0 => first \in {"text", "empty", "bang"}
    BY <2>1, <2>2, StreamLines
  <2> QED
    BY <1>2, <2>1, <2>3
<1> QED
  BY <1>1, <1>2 DEF BeforeRun

\* The client takes a message, before its command is run.
LEMMA WelcomeRead ==
    ASSUME Types, WelcomeInv, Intact', NEW k \in DOMAIN toClient, Take(k),
           UNCHANGED <<spc, updates>>,
           cpc = "welcome" /\ ~Welcomed(k) => cpc' = "welcome",
           cpc = "welcome" /\ Welcomed(k) => cpc' \notin {"code", "welcome"},
           cpc # "welcome" => cpc \notin {"code", "welcome"} /\ cpc' \notin {"code", "welcome"}
    PROVE  WelcomeInv'
<1>1. /\ k = 1 /\ Len(toClient) \in Nat \ {0} /\ DOMAIN toClient = 1 .. Len(toClient)
      /\ DOMAIN toClient' = 1 .. Len(toClient) - 1
      /\ \A j \in 1 .. Len(toClient) - 1 : toClient'[j] = toClient[1 + j] /\ 1 + j \in DOMAIN toClient
      /\ \A msg : Absent(msg, toClient) => Absent(msg, toClient')
  BY OneTaken
<1>2. updates' = 0 => Absent("update", toClient')
  BY <1>1 DEF WelcomeInv
<1>3. ASSUME spc \in {"code", "about", "ready"}
      PROVE  cpc' \in {"code", "welcome"} /\ \A j \in DOMAIN toClient' : toClient'[j] \in Greeting
  <2>1. cpc = "welcome" /\ \A j \in DOMAIN toClient : toClient[j] \in Greeting
    BY <1>3 DEF WelcomeInv
  <2>2. ~Welcomed(k)
    BY <1>1, <2>1 DEF Welcomed, Alone, Greeting
  <2> QED
    BY <1>1, <2>1, <2>2
<1>4. ASSUME spc = "reading", cpc = "welcome"
      PROVE  IF cpc' = "welcome"
             THEN \E r \in DOMAIN toClient' :
                     /\ toClient'[r] = "ready"
                     /\ \A j \in DOMAIN toClient' : j < r => toClient'[j] \in Greeting
                     /\ \A j \in DOMAIN toClient' : j > r => toClient'[j] = "update"
             ELSE \A j \in DOMAIN toClient' : toClient'[j] = "update"
  <2>1. PICK r \in DOMAIN toClient :
             /\ toClient[r] = "ready"
             /\ \A j \in DOMAIN toClient : j < r => toClient[j] \in Greeting
             /\ \A j \in DOMAIN toClient : j > r => toClient[j] = "update"
    BY <1>4 DEF WelcomeInv
  <2>2. r \in 1 .. Len(toClient) /\ 1 \in DOMAIN toClient
    BY <1>1
  <2>3. CASE r = 1
    <3>1. cpc' # "welcome"
      BY <1>1, <1>4, <2>1, <2>3 DEF Welcomed, Alone
    <3>2. \A j \in DOMAIN toClient' : toClient'[j] = "update"
      <4> TAKE j \in DOMAIN toClient'
      <4>1. toClient'[j] = toClient[1 + j] /\ 1 + j \in DOMAIN toClient /\ 1 + j > r
        BY <1>1, <2>3
      <4> QED
        BY <2>1, <4>1
    <3> QED
      BY <3>1, <3>2
  <2>4. CASE r # 1
    <3>1. toClient[1] \in Greeting
      BY <2>1, <2>2, <2>4
    <3>2. cpc' = "welcome"
      BY <1>1, <1>4, <3>1 DEF Welcomed, Alone, Greeting
    <3>3. r - 1 \in DOMAIN toClient' /\ toClient'[r - 1] = "ready"
      <4>1. r - 1 \in 1 .. Len(toClient) - 1 /\ 1 + (r - 1) = r
        BY <1>1, <2>2, <2>4
      <4> QED
        BY <1>1, <2>1, <4>1
    <3>4. ASSUME NEW j \in DOMAIN toClient'
          PROVE  (j < r - 1 => toClient'[j] \in Greeting) /\ (j > r - 1 => toClient'[j] = "update")
      <4>1. toClient'[j] = toClient[1 + j] /\ 1 + j \in DOMAIN toClient
        BY <1>1
      <4>2. (j < r - 1 => 1 + j < r) /\ (j > r - 1 => 1 + j > r)
        BY <1>1, <2>2
      <4> QED
        BY <2>1, <4>1, <4>2
    <3> QED
      BY <3>2, <3>3, <3>4
  <2> QED
    BY <2>3, <2>4
<1>5. ASSUME spc = "reading", cpc # "welcome"
      PROVE  cpc' # "welcome" /\ \A j \in DOMAIN toClient' : toClient'[j] = "update"
  <2>1. \A j \in DOMAIN toClient : toClient[j] = "update"
    BY <1>5 DEF WelcomeInv
  <2> QED
    BY <1>1, <1>5, <2>1
<1> QED
  BY <1>2, <1>3, <1>4, <1>5 DEF WelcomeInv

\* What the client hears before its command is run.
LEMMA WelcomeStep ==
    ASSUME BasicInv, OrderInv, ClientInv, BeforeRun, Calm', codeOk, executed = <<>>, executed' = <<>>,
           WelcomeInv, [Next]_vars
    PROVE  WelcomeInv'
<1> USE DEF asked, client, server, reader
<1>0. /\ Types /\ EndsInv /\ CodeInv /\ BufferInv /\ Intact'
      /\ toClient \in Seq(Messages) /\ Len(toClient) \in Nat /\ DOMAIN toClient = 1 .. Len(toClient)
      /\ updates \in Nat
  BY LenProperties DEF BasicInv, Calm, Types
<1>1. /\ spc \in {"code", "about", "ready"} => cpc \in {"code", "welcome"}
      /\ spc \in {"about", "ready", "reading"} => cpc # "code"
      /\ spc \in {"code", "about", "ready", "reading"} =>
            "server" \in conn /\ "aborted" \notin reset /\ cpc \notin {"spin", "killed"}
  BY <1>0 DEF WelcomeInv, OrderInv, Active, EndsInv
<1>2. ASSUME UNCHANGED <<spc, updates, toClient>>,
             spc \in {"code", "about", "ready"} => cpc' \in {"code", "welcome"},
             spc = "reading" => (cpc' = "welcome" <=> cpc = "welcome")
      PROVE  WelcomeInv'
  BY <1>2 DEF WelcomeInv, Absent
<1>3. CASE SendCode
  <2>1. cpc = "code" /\ UNCHANGED <<spc, updates, toClient>> /\ ("server" \in conn => cpc' = "welcome")
    BY <1>3 DEF SendCode, Write
  <2> QED
    BY <1>1, <1>2, <2>1
<1>4. CASE AwaitReady
  <2>1. cpc = "welcome" /\ UNCHANGED <<spc, updates>>
    BY <1>4 DEF AwaitReady
  <2>2. ASSUME NEW k \in DOMAIN toClient, Take(k),
               cpc' = IF ~Welcomed(k) THEN "welcome"
                      ELSE IF command.kind = "show" THEN "quit" ELSE "lines"
        PROVE  WelcomeInv'
    <3>1. /\ cpc = "welcome" /\ ~Welcomed(k) => cpc' = "welcome"
          /\ cpc = "welcome" /\ Welcomed(k) => cpc' \notin {"code", "welcome"}
      BY <2>2
    <3> QED
      BY <1>0, <2>1, <2>2, <3>1, WelcomeRead
  <2>3. CASE EndOfFile /\ UNCHANGED <<toClient, happened>>
    BY <1>1, <1>2, <2>1, <2>3 DEF EndOfFile
  <2> QED
    BY <1>0, <1>4, <2>2, <2>3, CalmReads DEF AwaitReady
<1>5. CASE ReadAnswer \/ ReadDownload
  <2>1. /\ cpc \notin {"code", "welcome"} /\ cpc' \notin {"code", "welcome"} /\ UNCHANGED <<spc, updates>>
        /\ \/ \E k \in DOMAIN toClient : Take(k)
           \/ TakePart
           \/ UNCHANGED toClient
    BY <1>5 DEF ReadAnswer, ReadDownload, Answered
  <2>2. CASE \E k \in DOMAIN toClient : Take(k)
    BY <1>0, <2>1, <2>2, WelcomeRead
  <2>3. CASE UNCHANGED toClient
    BY <1>1, <1>2, <2>1, <2>3
  <2> QED
    BY <1>0, <2>1, <2>2, <2>3, CalmReads
<1>6. CASE WriteLine \/ FinishCommand \/ DownloadTimeout \/ Quit \/ ReadError \/ Stopped
  <2>1. UNCHANGED <<spc, updates, toClient>>
    BY <1>6 DEF WriteLine, FinishCommand, DownloadTimeout, Quit, ReadError, Stopped
  <2>2. CASE WriteLine \/ FinishCommand \/ DownloadTimeout \/ Quit
    <3>1. cpc \notin {"code", "welcome"} /\ cpc' # "welcome"
      BY <2>2 DEF WriteLine, FinishCommand, DownloadTimeout, Quit, Write
    <3> QED
      BY <1>1, <1>2, <2>1, <3>1
  <2>3. CASE ReadError
    BY <1>1, <1>2, <2>1, <2>3 DEF ReadError
  <2>4. CASE Stopped
    <3>1. cpc = "killed" /\ cpc' = "killed"
      BY <1>0, <2>4 DEF Stopped, Intact, Never, Happens
    <3> QED
      BY <1>1, <1>2, <2>1, <3>1
  <2> QED
    BY <1>6, <2>2, <2>3, <2>4
<1>7. ASSUME NEW m \in Messages, m # "update", NEW next \in ServerAt, Send(<<m>>, next),
             updates' = updates, spc' \notin {"code", "about", "ready", "reading"}
      PROVE  WelcomeInv'
  <2>1. Absent("update", toClient) => Absent("update", toClient')
    BY <1>0, <1>7, OneSent
  <2> QED
    BY <1>7, <2>1 DEF WelcomeInv
<1>8. ASSUME Refuse, updates' = updates PROVE WelcomeInv'
  <2>1. "incorrect" \in Messages /\ "close" \in ServerAt /\ <<"incorrect">> \in Seq(Messages)
    BY DEF Messages, ServerAt
  <2>2. Send(<<"incorrect">>, "close") /\ spc' \in {"close", "killed"}
    BY <1>0, <1>8, <2>1, Sends DEF Refuse
  <2> QED
    BY <1>7, <1>8, <2>1, <2>2
<1>9. CASE ReadCode
  <2>1. /\ spc = "code" /\ UNCHANGED <<cpc, updates>>
        /\ Refuse \/ (spc' = "about" /\ UNCHANGED toClient)
    BY <1>9 DEF ReadCode, Quiet
  <2>2. ASSUME spc' = "about", UNCHANGED toClient PROVE WelcomeInv'
    BY <2>1, <2>2 DEF WelcomeInv, Absent
  <2> QED
    BY <1>8, <2>1, <2>2
<1>10. CASE NoCode
  <2>1. updates' = updates /\ (Refuse \/ (spc' = "close" /\ UNCHANGED toClient))
    BY <1>10 DEF NoCode, Quiet
  <2>2. ASSUME spc' = "close", UNCHANGED toClient PROVE WelcomeInv'
    BY <2>1, <2>2 DEF WelcomeInv, Absent
  <2> QED
    BY <1>8, <2>1, <2>2
<1>11. CASE Welcome
  <2>1. spc = "about" /\ UNCHANGED <<cpc, updates>> /\ cpc = "welcome" /\ "client" \in conn
    BY <1>0, <1>1, <1>11 DEF Welcome, EndsInv
  <2>2. spc' = "ready" /\ toClient' = toClient \o <<"about", "devices">>
    BY <1>11, <2>1 DEF Welcome, Send
  <2>3. <<"about", "devices">> \in Seq(Messages) /\ Len(<<"about", "devices">>) = 2
    BY DEF Messages
  <2>4. /\ toClient' \in Seq(Messages) /\ Len(toClient') = Len(toClient) + 2
        /\ \A i \in 1 .. Len(toClient) + 2 : toClient'[i] =
              IF i <= Len(toClient) THEN toClient[i] ELSE <<"about", "devices">>[i - Len(toClient)]
    BY <1>0, <2>2, <2>3, ConcatProperties
  <2>5. DOMAIN toClient' = 1 .. Len(toClient) + 2
    BY <2>4, LenProperties
  <2>6. ASSUME NEW i \in DOMAIN toClient'
        PROVE  toClient'[i] \in {"about", "devices"} \/ (i \in DOMAIN toClient /\ toClient'[i] = toClient[i])
    <3>1. CASE i <= Len(toClient)
      BY <1>0, <2>4, <2>5, <3>1
    <3>2. CASE ~(i <= Len(toClient))
      <4>1. i - Len(toClient) \in 1 .. 2 /\ toClient'[i] = <<"about", "devices">>[i - Len(toClient)]
        BY <1>0, <2>4, <2>5, <3>2
      <4>2. \A j \in 1 .. 2 : <<"about", "devices">>[j] \in {"about", "devices"}
        <5>1. \A j \in 1 .. 2 : j = 1 \/ j = 2
          OBVIOUS
        <5> QED
          BY <5>1
      <4> QED
        BY <4>1, <4>2
    <3> QED
      BY <3>1, <3>2
  <2>7. \A j \in DOMAIN toClient : toClient[j] \in Greeting
    BY <2>1 DEF WelcomeInv
  <2>8. updates = 0 => \A j \in DOMAIN toClient : toClient[j] # "update"
    BY DEF WelcomeInv, Absent
  <2>9. (\A i \in DOMAIN toClient' : toClient'[i] \in Greeting) /\ (updates' = 0 => Absent("update", toClient'))
    BY <2>1, <2>6, <2>7, <2>8 DEF Greeting, Absent
  <2> QED
    BY <2>1, <2>2, <2>9 DEF WelcomeInv
<1>12. CASE Ready
  <2>1. spc = "ready" /\ UNCHANGED <<cpc, updates>> /\ cpc = "welcome" /\ "client" \in conn
    BY <1>0, <1>1, <1>12 DEF Ready, EndsInv
  <2>2. "ready" \in Messages /\ "reading" \in ServerAt /\ Send(<<"ready">>, "reading")
    BY <1>12 DEF Ready, Messages, ServerAt
  <2>3. /\ spc' = "reading" /\ DOMAIN toClient' = 1 .. Len(toClient) + 1
        /\ \A j \in 1 .. Len(toClient) : toClient'[j] = toClient[j]
        /\ toClient'[Len(toClient) + 1] = "ready"
        /\ Absent("update", toClient) => Absent("update", toClient')
    BY <1>0, <2>1, <2>2, OneSent
  <2>4. \A j \in DOMAIN toClient : toClient[j] \in Greeting
    BY <2>1 DEF WelcomeInv
  <2>5. /\ Len(toClient) + 1 \in DOMAIN toClient'
        /\ \A j \in DOMAIN toClient' : j < Len(toClient) + 1 => toClient'[j] \in Greeting
        /\ \A j \in DOMAIN toClient' : j > Len(toClient) + 1 => toClient'[j] = "update"
    BY <1>0, <2>3, <2>4
  <2> QED
    BY <2>1, <2>3, <2>5 DEF WelcomeInv
<1>13. CASE ReadLine \/ ReadNothing
  <2>1. UNCHANGED <<cpc, spc, toClient, updates>>
    BY <1>13 DEF ReadLine, ReadNothing
  <2> QED
    BY <1>2, <2>1 DEF WelcomeInv
<1>14. CASE Complete
  <2>1. spc = "reading" /\ ~Acceptable
    BY <1>0, <1>14, RunReads DEF Complete
  <2>2. first # "dot"
    BY <1>0, <2>1, NoDot
  <2>3. spc' = "close" /\ UNCHANGED <<toClient, updates>>
    BY <1>14, <2>1, <2>2 DEF Complete, Acceptable, Quiet
  <2> QED
    BY <2>3 DEF WelcomeInv, Absent
<1>15. CASE Reply
  BY <1>15 DEF Reply, BeforeRun, Active
<1>16. CASE CloseSession
  BY <1>16 DEF CloseSession, WelcomeInv, Absent
<1>17. CASE Update
  <2>1. updates' = updates + 1 /\ updates' # 0 /\ cpc' = cpc
    BY <1>0, <1>17 DEF Update
  <2>2. CASE spc' = "killed"
    BY <2>1, <2>2 DEF WelcomeInv
  <2>3. CASE spc' # "killed"
    <3>1. Send(<<"update">>, spc) /\ spc \in ServerAt /\ "update" \in Messages
      BY <1>0, <1>17, <2>3 DEF Update, Types, Messages
    <3>2. spc' = spc
      BY <2>3, <3>1 DEF Send
    <3>3. CASE UNCHANGED toClient
      BY <2>1, <3>2, <3>3 DEF WelcomeInv
    <3>4. CASE /\ DOMAIN toClient' = 1 .. Len(toClient) + 1
               /\ \A j \in 1 .. Len(toClient) : toClient'[j] = toClient[j]
               /\ toClient'[Len(toClient) + 1] = "update"
      <4>1. \A j \in DOMAIN toClient' :
               \/ j \in DOMAIN toClient /\ toClient'[j] = toClient[j]
               \/ toClient'[j] = "update" /\ \A r \in DOMAIN toClient : r < j
        <5>1. \A j \in DOMAIN toClient' : j \in 1 .. Len(toClient) \/ j = Len(toClient) + 1
          BY <1>0, <3>4
        <5>2. \A r \in DOMAIN toClient : r < Len(toClient) + 1
          BY <1>0
        <5> QED
          BY <1>0, <3>4, <5>1, <5>2
      <4>2. \A r \in DOMAIN toClient : r \in DOMAIN toClient' /\ toClient'[r] = toClient[r] /\ r \in Int
        BY <1>0, <3>4
      <4>3. \A r \in Int, j \in Int : r < j => ~(j < r)
        OBVIOUS
      <4>4. DOMAIN toClient' \subseteq Int
        BY <1>0, <3>4
      <4>5. "update" \in Greeting
        BY DEF Greeting
      <4> QED
        BY <2>1, <3>2, <4>1, <4>2, <4>3, <4>4, <4>5 DEF WelcomeInv
    <3> QED
      BY <1>0, <3>1, <3>3, <3>4, OneSent
  <2> QED
    BY <2>2, <2>3
<1>18. CASE UNCHANGED vars
  BY <1>18 DEF vars, WelcomeInv, Absent
<1> QED
  BY <1>3, <1>4, <1>5, <1>6, <1>9, <1>10, <1>11, <1>12, <1>13, <1>14, <1>15, <1>16, <1>17, <1>18
     DEF Next, Client, Server

\* A client that waits for its answer has sent all; once the server has read it,
\* the line that ends the command is in the buffer.
LEMMA AllWritten ==
    ASSUME Types, ClientInv, BeforeRun, spc = "reading", toServer = <<>>,
           cpc \in {"first", "second", "answer", "download"}
    PROVE  first \in Ending
<1>1. CASE first = "bang"
  BY <1>1 DEF Ending
<1>2. CASE /\ Len(commands) = count /\ count <= Len(command.lines) + 1
           /\ \A k \in 1 .. count : commands[k] = StreamLine(command, k)
           /\ first = IF count = 0 THEN "text" ELSE commands[count].first
  <2>1. Len(command.lines) \in Nat \ {0, 1} /\ count \in Nat /\ Len(toServer) = 0
    BY CommandLines, LenProperties DEF Types
  <2>2. count + Len(toServer) = StreamLength
    BY DEF BeforeRun, Consumed, Active
  <2>3. count = Len(command.lines) + 1
    BY <2>1, <2>2 DEF StreamLength
  <2>4. first = StreamLine(command, Len(command.lines) + 1).first
    BY <1>2, <2>1, <2>3
  <2>5. StreamLine(command, Len(command.lines) + 1) \in {QuitLine, EndLine}
    BY <2>1, StreamLines
  <2> QED
    BY <2>4, <2>5, LineTypes DEF Ending
<1> QED
  BY <1>1, <1>2 DEF BeforeRun

\* The updates of other clients are only counted up.
LEMMA UpdatesGrow == ASSUME Types, [Next]_vars PROVE updates \in Nat /\ updates' \in {updates, updates + 1}
<1>1. updates \in Nat
  BY BoundsAssumption DEF Types
<1>2. updates' \in {updates, updates + 1}
  BY DEF Next, Client, SendCode, AwaitReady, ReadError, WriteLine, FinishCommand, ReadAnswer,
         ReadDownload, DownloadTimeout, Quit, Stopped, Server, ReadCode, NoCode, Welcome, Ready,
         ReadLine, ReadNothing, Complete, Reply, CloseSession, Update, vars
<1> QED
  BY <1>1, <1>2

\* The first line of a command with arguments is not goodbye.
LEMMA NotGoodbye ==
    ASSUME Types, BufferInv, BeforeRun, command.kind # "show", spc = "reading", ~MoreLines, first # "bang"
    PROVE  Acceptable
<1>1. count \in Nat /\ NumberLines \in Nat \ {0, 1} /\ Len(command.lines) \in Nat \ {0, 1}
  BY CommandLines, LenProperties, BoundsAssumption DEF Types
<1>2. \A k \in 1 .. count : commands[k] = StreamLine(command, k)
  BY DEF BeforeRun
<1>3. count > 0
  <2>1. CASE first \in Ending
    BY <2>1 DEF BufferInv
  <2>2. CASE first \notin Ending
    BY <1>1, <2>2 DEF MoreLines
  <2> QED
    BY <2>1, <2>2
<1>4. commands[1] = Line(1, "whole", "text")
  <2>1. commands[1] = StreamLine(command, 1)
    BY <1>1, <1>2, <1>3
  <2> QED
    BY <1>1, <2>1, StreamLines
<1>5. commands[1].first = "text"
  BY <1>4, LineTypes DEF Firsts
<1> QED
  BY <1>5, NoDot DEF Acceptable, Goodbye

\* A client that goes on reading is still there when its command is run.
LEMMA WaitStep ==
    ASSUME BasicInv, OrderInv, ClientInv, BeforeRun, Calm', codeOk, executed = <<>>, executed' = <<>>,
           WelcomeInv, WaitInv, [Next]_vars
    PROVE  WaitInv'
<1> USE DEF asked, client, server, reader
<1>0. /\ Types /\ EndsInv /\ CodeInv /\ BufferInv /\ Intact' /\ UNCHANGED command
      /\ updates \in Nat /\ updates' \in {updates, updates + 1}
  BY HappenedGrows, UpdatesGrow DEF BasicInv, Calm
<1> SUFFICES ASSUME Attentive'
             PROVE  /\ spc' \in {"code", "about", "ready", "reading"}
                    /\ cpc' \in {"code", "welcome", "lines", "finish",
                                 IF command.kind = "download" THEN "download" ELSE "first"}
                    /\ spc' = "reading" => first' # "bang"
  BY <1>0 DEF WaitInv
<1>1. /\ command.kind \in {"download", "upload"} /\ command.kind # "show"
      /\ command.kind = "upload" => updates' = 0 /\ updates = 0
  BY <1>0 DEF Attentive
<1>2. /\ spc \in {"code", "about", "ready", "reading"}
      /\ cpc \in {"code", "welcome", "lines", "finish",
                  IF command.kind = "download" THEN "download" ELSE "first"}
      /\ spc = "reading" => first # "bang"
  BY <1>1 DEF WaitInv, Attentive
<1>3. /\ "server" \in conn /\ "client" \in conn /\ "aborted" \notin reset
      /\ cpc # "welcome" /\ cpc # "code" => spc = "reading"
  BY <1>0, <1>2 DEF EndsInv, WelcomeInv
<1>4. cpc \in {"first", "download"} => spc = "reading" /\ \A j \in DOMAIN toClient : toClient[j] = "update"
  BY <1>3 DEF WelcomeInv
<1>5. cpc = "first" => toClient = <<>>
  <2> SUFFICES ASSUME cpc = "first" PROVE toClient = <<>>
    OBVIOUS
  <2>1. Absent("update", toClient)
    BY <1>1, <1>2 DEF WelcomeInv
  <2>2. DOMAIN toClient = {}
    BY <1>4, <2>1 DEF Absent
  <2>3. toClient \in Seq(Messages) /\ Len(toClient) \in Nat /\ DOMAIN toClient = 1 .. Len(toClient)
    BY <1>0, LenProperties DEF Types
  <2>4. ~(1 <= Len(toClient))
    BY <2>2, <2>3
  <2> QED
    BY <2>3, <2>4, EmptySeq
<1>6. CASE Client \/ Stopped
  <2>1. UNCHANGED <<spc, first>>
    BY <1>6, ClientApart
  <2>2. CASE SendCode \/ WriteLine \/ FinishCommand
    BY <1>1, <1>2, <1>3, <2>1, <2>2 DEF SendCode, WriteLine, FinishCommand, Write
  <2>3. CASE AwaitReady
    BY <1>1, <1>2, <1>3, <2>1, <2>3 DEF AwaitReady, EndOfFile
  <2>4. CASE ReadAnswer
    <3>1. cpc = "first"
      BY <1>2, <2>4 DEF ReadAnswer
    <3>2. DOMAIN toClient = {}
      BY <1>5, <3>1
    <3> QED
      BY <1>3, <1>5, <2>4, <3>1, <3>2 DEF ReadAnswer, TakePart, EndOfFile
  <2>5. CASE ReadDownload
    <3>1. cpc = "download" /\ \A j \in DOMAIN toClient : toClient[j] = "update"
      BY <1>4, <2>5 DEF ReadDownload
    <3>2. \A k \in DOMAIN toClient : ~Alone("ready", k)
      BY <3>1 DEF Alone
    <3>3. cpc' = "download"
      BY <1>3, <2>5, <3>1, <3>2 DEF ReadDownload, EndOfFile
    <3> QED
      BY <1>2, <2>1, <3>1, <3>3
  <2>6. CASE DownloadTimeout
    <3>1. cpc = "download" /\ Silent
      BY <1>0, <2>6 DEF DownloadTimeout, Only, Happens, Intact, Never
    <3> QED
      BY <1>0, <3>1, AllWritten DEF Silent
  <2>7. CASE Quit \/ ReadError
    BY <1>2, <1>3, <2>7 DEF Quit, ReadError
  <2>8. CASE Stopped
    BY <1>0, <1>2, <2>8 DEF Stopped, Happens, Intact, Never
  <2> QED
    BY <1>6, <2>2, <2>3, <2>4, <2>5, <2>6, <2>7, <2>8 DEF Client
<1>7. ASSUME cpc' = cpc, spc' \in {"about", "ready", "reading"}, spc' = "reading" => first' # "bang"
      PROVE  /\ spc' \in {"code", "about", "ready", "reading"}
             /\ cpc' \in {"code", "welcome", "lines", "finish",
                          IF command.kind = "download" THEN "download" ELSE "first"}
             /\ spc' = "reading" => first' # "bang"
  BY <1>2, <1>7
<1>8. CASE ReadCode
  <2>1. cpc' = cpc /\ spc = "code" /\ toServer # <<>> /\ codeOk
    BY <1>8 DEF ReadCode
  <2>2. PICK line \in Received : Receive(line) /\ (line = CodeLine => spc' = "about")
    BY <1>8, <2>1 DEF ReadCode
  <2>3. toServer = <<CodeLine>>
    BY <1>0, <2>1 DEF CodeInv
  <2>4. WholeRead(line)
    BY <1>0, <2>1, <2>2, ReadOne DEF PartRead, Intact, Never
  <2>5. line = CodeLine
    BY <2>3, <2>4 DEF WholeRead
  <2> QED
    BY <1>7, <2>1, <2>2, <2>5
<1>9. CASE NoCode
  BY <1>0, <1>3, <1>9 DEF NoCode, Happens, Intact, Never
<1>10. CASE Welcome
  BY <1>3, <1>7, <1>10 DEF Welcome, Send
<1>11. CASE Ready
  <2>1. first' = "text" /\ cpc' = cpc /\ spc' = "reading"
    BY <1>0, <1>3, <1>11 DEF Ready, Send, BufferInv
  <2> QED
    BY <1>7, <2>1
<1>12. CASE ReadLine
  <2>1. /\ cpc' = cpc /\ spc = "reading" /\ spc' = "reading" /\ toServer # <<>> /\ first \notin Ending
        /\ MoreLines
    BY <1>12 DEF ReadLine, MoreLines
  <2>2. PICK line \in Received : Receive(line) /\ Store(line)
    BY <1>12 DEF ReadLine
  <2>3. WholeRead(line)
    BY <1>0, <2>1, <2>2, ReadOne DEF PartRead, Intact, Never
  <2>4. /\ Len(command.lines) \in Nat \ {0, 1} /\ count \in Nat /\ 1 \in DOMAIN toServer
    <3>1. toServer \in Seq(LineSet) /\ count \in Nat
      BY <1>0, LenProperties DEF Types
    <3>2. Len(toServer) \in Nat \ {0} /\ DOMAIN toServer = 1 .. Len(toServer)
      BY <2>1, <3>1, EmptySeq, LenProperties
    <3> QED
      BY <1>0, <3>1, <3>2, CommandLines
  <2>5. line = StreamLine(command, count + 1)
    BY <2>1, <2>3, <2>4 DEF WholeRead, BeforeRun, Consumed, Active
  <2>6. /\ count <= Len(command.lines) + 1
        /\ \A k \in 1 .. count : commands[k] = StreamLine(command, k)
        /\ first = IF count = 0 THEN "text" ELSE commands[count].first
    BY <2>1 DEF BeforeRun, Ending
  <2>7. count # Len(command.lines) + 1
    <3> SUFFICES ASSUME count = Len(command.lines) + 1 PROVE FALSE
      OBVIOUS
    <3>1. first = StreamLine(command, Len(command.lines) + 1).first
      BY <2>4, <2>6
    <3>2. StreamLine(command, Len(command.lines) + 1) = EndLine
      BY <1>0, <1>1, <2>4, StreamLines
    <3> QED
      BY <2>1, <3>1, <3>2, LineTypes DEF Ending
  <2>8. line.first # "bang"
    <3>1. count + 1 \in Nat \ {0} /\ (count + 1 <= Len(command.lines) \/ count + 1 = Len(command.lines) + 1)
      BY <2>4, <2>6, <2>7
    <3>2. line \in {Line(count + 1, "whole", "text"), EndLine}
      BY <1>0, <1>1, <2>5, <3>1, StreamLines
    <3>3. Line(count + 1, "whole", "text").first = "text"
      BY <3>1, LineTypes DEF Firsts
    <3> QED
      BY <3>2, <3>3, LineTypes
  <2>9. first' = line.first
    BY <2>2 DEF Store
  <2> QED
    BY <1>7, <2>1, <2>8, <2>9
<1>13. CASE ReadNothing
  <2>1. spc = "reading" /\ first \notin Ending /\ toServer = <<>> /\ ~HungUp
    BY <1>3, <1>13 DEF ReadNothing, MoreLines, HungUp
  <2>2. ClientBlocked
    BY <1>0, <1>13, <2>1 DEF ReadNothing, Only, Happens, Intact, Never
  <2>3. cpc \in {"welcome", "first"} /\ toClient = <<>>
    BY <1>2, <2>2 DEF ClientBlocked
  <2>4. cpc # "welcome"
    <3>1. DOMAIN toClient = {}
      BY <2>3
    <3> QED
      BY <2>1, <3>1 DEF WelcomeInv
  <2> QED
    BY <1>0, <2>1, <2>3, <2>4, AllWritten
<1>14. CASE Complete
  <2>1. spc = "reading" /\ ~MoreLines /\ ~Acceptable
    BY <1>0, <1>14, RunReads DEF Complete
  <2> QED
    BY <1>0, <1>1, <1>2, <2>1, NotGoodbye
<1>15. CASE Reply \/ CloseSession
  BY <1>2, <1>15 DEF Reply, CloseSession
<1>16. CASE Update
  BY <1>2, <1>3, <1>16 DEF Update, Send
<1>17. CASE UNCHANGED vars
  BY <1>2, <1>17 DEF vars
<1> QED
  BY <1>6, <1>8, <1>9, <1>10, <1>11, <1>12, <1>13, <1>14, <1>15, <1>16, <1>17 DEF Next, Server

-----------------------------------------------------------------------------
(* The answers to the command.                                             *)

\* Nothing but updates of others is on its way to a client that has sent its
\* command, until that is run; so nothing at all, if there are none.
LEMMA NothingHeard ==
    ASSUME Types, WelcomeInv, spc = "reading", cpc # "welcome", updates = 0
    PROVE  toClient = <<>>
<1>1. DOMAIN toClient = {}
  BY DEF WelcomeInv, Absent
<1>2. toClient \in Seq(Messages) /\ Len(toClient) \in Nat /\ DOMAIN toClient = 1 .. Len(toClient)
  BY LenProperties DEF Types
<1>3. ~(1 <= Len(toClient))
  BY <1>1, <1>2
<1> QED
  BY <1>2, <1>3, EmptySeq

\* A command that came in whole is answered as what it is.
LEMMA FirstAnswers ==
    ASSUME BasicInv, BeforeRun, executed = <<>>, Complete, Acceptable
    PROVE  /\ command.kind # "show" /\ cpc \notin {"code", "welcome"}
           /\ command.kind = "download" => replies' = [k \in 1 .. DataLines |-> "data"]
           /\ command.kind = "upload" => replies' = <<"result">>
<1> DEFINE n == Len(command.lines)
<1>1. /\ Types /\ BufferInv /\ spc = "reading" /\ ~Goodbye /\ ~MoreLines /\ count > 0
      /\ replies' \in Answers(Arguments)
  BY RunReads DEF BasicInv
<1>2. /\ n \in Nat \ {0, 1} /\ count \in Nat /\ NumberLines \in Nat \ {0, 1}
      /\ Len(toServer) \in Nat
  BY <1>1, CommandLines, LenProperties, BoundsAssumption DEF Types
<1>3. /\ Len(commands) = count
      /\ \A k \in 1 .. count : commands[k] = StreamLine(command, k)
      /\ first = IF count = 0 THEN "text" ELSE commands[count].first
      /\ count + Len(toServer) = StreamLength
  BY <1>1 DEF BeforeRun, Consumed, Active, Goodbye
<1>4. command.kind # "show"
  <2>1. commands[1] = StreamLine(command, 1)
    BY <1>1, <1>2, <1>3
  <2> QED
    BY <1>1, <2>1, StreamLines, LineTypes DEF Goodbye
<1>5. \A k \in 1 .. count : k <= n => commands[k] = Line(k, "whole", "text")
  BY <1>1, <1>2, <1>3, <1>4, StreamLines
<1>6. count >= 2
  <2> SUFFICES ASSUME count = 1 PROVE FALSE
    BY <1>1, <1>2
  <2>1. commands[1] = Line(1, "whole", "text") /\ first = commands[1].first
    BY <1>2, <1>3, <1>5
  <2>2. first = "text"
    BY <2>1, LineTypes DEF Firsts
  <2> QED
    BY <1>1, <1>2, <2>2 DEF MoreLines, Ending
<1>7. PICK m \in 0 .. count :
              /\ Arguments \in Seq(LineSet) /\ Len(Arguments) = m
              /\ \A k \in 1 .. m : Arguments[k] = commands[k]
              /\ m < count => commands[m + 1].first = "empty"
  BY <1>1, <1>3, ArgumentsAre
<1>8. m >= 2
  <2> SUFFICES ASSUME m < 2 PROVE FALSE
    BY <1>2, <1>7
  <2>1. m + 1 \in 1 .. count /\ m + 1 <= n /\ m < count /\ m + 1 \in Nat
    <3>1. \A i, j, l \in Nat : i < 2 /\ j >= 2 /\ l >= 2
             => i + 1 \in 1 .. j /\ i + 1 <= l /\ i < j /\ i + 1 \in Nat
      OBVIOUS
    <3> HIDE DEF n
    <3>2. n \in Nat /\ n >= 2
      BY <1>2
    <3>3. m \in Nat
      BY <1>2
    <3> QED
      BY <1>2, <1>6, <3>1, <3>2, <3>3
  <2>2. commands[m + 1] = Line(m + 1, "whole", "text")
    BY <1>5, <2>1
  <2> QED
    BY <1>7, <2>1, <2>2, LineTypes DEF Firsts
<1>9. \A k \in 1 .. 2 : Arguments[k] = Line(k, "whole", "text")
  <2> TAKE k \in 1 .. 2
  <2>1. k \in 1 .. m /\ k \in 1 .. count /\ k <= n
    <3>1. \A i \in 1 .. 2, h, j, l \in Nat : h >= 2 /\ j >= 2 /\ l >= 2
             => i \in 1 .. h /\ i \in 1 .. j /\ i <= l
      OBVIOUS
    <3> HIDE DEF n
    <3>2. n \in Nat /\ n >= 2
      BY <1>2
    <3>3. m \in Nat
      BY <1>2
    <3> QED
      BY <1>2, <1>6, <1>8, <3>1, <3>2, <3>3
  <2> QED
    BY <1>5, <1>7, <2>1
<1>10. ~(Len(Arguments) < 2)
  BY <1>2, <1>7, <1>8
<1>11. /\ command.kind = "download" => replies' = [k \in 1 .. DataLines |-> "data"]
       /\ command.kind = "upload" => replies' = <<"result">>
  BY <1>1, <1>9, <1>10 DEF Answers
<1>12. cpc \notin {"code", "welcome"}
  BY <1>1, <1>2, <1>3 DEF StreamLength
<1> QED
  BY <1>4, <1>11, <1>12

\* The command is run, and the client is there to be told.
LEMMA AnswersBegin ==
    ASSUME BasicInv, BeforeRun, ShownInv, WelcomeInv, WaitInv, executed = <<>>,
           Complete, Acceptable
    PROVE  DownloadInv' /\ UploadInv'
<1>1. /\ Types /\ EndsInv /\ spc = "reading" /\ replies' \in Answers(Arguments)
      /\ Send(<<"accepted">>, "running")
      /\ UNCHANGED <<command, cpc, shown, updates>>
  BY RunReads DEF BasicInv
<1>2. /\ cpc \notin {"code", "welcome"}
      /\ command.kind = "download" => replies' = [k \in 1 .. DataLines |-> "data"]
      /\ command.kind = "upload" => replies' = <<"result">>
  BY FirstAnswers
<1>3. "accepted" \in Messages /\ "running" \in ServerAt
  BY DEF Messages, ServerAt
<1>4. ASSUME Attentive
      PROVE  /\ cpc \in {"lines", "finish", IF command.kind = "download" THEN "download" ELSE "first"}
             /\ "client" \in conn /\ spc' = "running" /\ Len(toClient') = Len(toClient) + 1
             /\ Absent("ready", toClient')
  <2>1. /\ cpc \in {"lines", "finish", IF command.kind = "download" THEN "download" ELSE "first"}
        /\ "client" \in conn
    BY <1>1, <1>2, <1>4 DEF WaitInv, EndsInv
  <2>2. Absent("ready", toClient)
    BY <1>1, <1>2 DEF WelcomeInv, Absent
  <2> QED
    BY <1>1, <1>3, <2>1, <2>2, OneSent
<1>5. ASSUME command.kind = "download" PROVE DownloadInv'
  <2>1. /\ cpc \in {"lines", "finish", "download"} /\ "client" \in conn /\ spc' = "running"
        /\ Absent("ready", toClient')
    BY <1>4, <1>5 DEF Attentive
  <2>2. /\ shown = 0 /\ Absent("data", toClient)
    BY DEF ShownInv
  <2>3. Absent("data", toClient')
    BY <1>1, <1>3, <2>2, OneSent
  <2>4. PICK t : t = toClient'
    OBVIOUS
  <2>5. DataCount(t) = 0
    BY <2>3, <2>4, CountNone
  <2>6. PICK r : r = replies'
    OBVIOUS
  <2>7. DataCount(r) = DataLines /\ Absent("ready", r) /\ DataLines \in Nat
    BY <1>2, <1>5, <2>6, CountAll, BoundsAssumption
  <2>8. shown' + DataCount(t) + DataCount(r) = DataLines
    BY <1>1, <2>2, <2>5, <2>7
  <2>9. DataOrder'
    BY <2>3 DEF DataOrder, Absent
  <2>10. Sending'
    BY <2>1, <2>6, <2>7 DEF Sending, Answering
  <2> QED
    BY <1>1, <2>1, <2>4, <2>6, <2>8, <2>9, <2>10 DEF DownloadInv
<1>6. ASSUME command.kind = "upload", updates = 0 PROVE UploadInv'
  <2>1. cpc \in {"lines", "finish", "first"} /\ Len(toClient') = Len(toClient) + 1
    BY <1>4, <1>6 DEF Attentive
  <2>2. toClient = <<>>
    BY <1>1, <1>2, <1>6, NothingHeard
  <2>3. Len(toClient') = 1 /\ Len(replies') = 1
    BY <1>2, <1>6, <2>1, <2>2
  <2>4. HasRead' = 0
    BY <1>1, <2>1 DEF HasRead
  <2>5. HasRead' + Len(toClient') + Len(replies') = 2
    BY <2>3, <2>4
  <2> QED
    BY <1>1, <2>1, <2>5 DEF UploadInv
<1>7. command.kind # "download" => DownloadInv'
  BY <1>1 DEF DownloadInv
<1>8. ~(command.kind = "upload" /\ updates = 0) => UploadInv'
  BY <1>1 DEF UploadInv
<1> QED
  BY <1>5, <1>6, <1>7, <1>8

\* When the whole command was run, nothing is run or announced any more.
LEMMA StaysQuiet ==
    ASSUME BasicInv, PastInv, AfterRun, spc \notin Answering, [Next]_vars PROVE spc' \notin Answering
<1> USE DEF asked, client, server, reader
<1>1. /\ Types /\ CodeInv /\ executed # <<>> /\ count \in Nat /\ NumberLines \in Nat \ {0, 1}
      /\ spc # "code" /\ spc # "about"
  <2>1. Types /\ CodeInv /\ executed # <<>>
    BY DEF BasicInv, AfterRun
  <2> QED
    BY <2>1, LenProperties, BoundsAssumption DEF Types, CodeInv, PastInv, Active
<1>2. CASE Client \/ Stopped \/ UNCHANGED vars
  BY <1>2, ClientApart DEF vars
<1>3. CASE ReadCode \/ NoCode \/ Welcome \/ Ready \/ Reply
  BY <1>1, <1>3 DEF ReadCode, NoCode, Welcome, Ready, Reply, Answering
<1>4. CASE ReadLine \/ ReadNothing \/ CloseSession
  BY <1>4 DEF ReadLine, ReadNothing, CloseSession, Answering
<1>5. CASE Complete
  <2>1. spc = "reading" /\ ~MoreLines
    BY <1>5 DEF Complete
  <2>2. Goodbye
    BY <1>1, <2>1 DEF AfterRun, Goodbye, MoreLines, Ending
  <2>3. spc' = "close"
    BY <1>5, <2>2 DEF Complete, Acceptable
  <2> QED
    BY <2>3 DEF Answering
<1>6. CASE Update
  BY <1>6 DEF Update, Send, Answering
<1> QED
  BY <1>2, <1>3, <1>4, <1>5, <1>6 DEF Next, Server

\* A client that downloads prints what it reads, up to [ready].
LEMMA DownloadClient ==
    ASSUME BasicInv, ShownInv, DownloadInv, command.kind = "download", Calm', executed # <<>>,
           Client \/ Stopped
    PROVE  DownloadInv'
<1>1. UNCHANGED <<command, spc, replies, executed>>
  BY ClientApart DEF server, asked
<1>2. /\ Types /\ EndsInv /\ Intact' /\ toClient \in Seq(Messages) /\ Len(toClient) \in Nat
      /\ DOMAIN toClient = 1 .. Len(toClient) /\ shown \in Nat /\ DataLines \in Nat
      /\ DataCount(toClient) \in Nat /\ DataCount(replies) \in Nat
  <2>1. Types /\ EndsInv /\ Intact'
    BY DEF BasicInv, Calm
  <2>2. toClient \in Seq(Messages) /\ replies \in Seq(Messages)
    BY <2>1 DEF Types
  <2>3. DataCount(toClient) \in Nat /\ DataCount(replies) \in Nat
    BY <2>2, CountConcat
  <2> QED
    BY <2>1, <2>2, <2>3, LenProperties, BoundsAssumption DEF ShownInv
<1>3. /\ cpc \in {"lines", "finish", "download", "quit", "end", "killed"}
      /\ Sending => spc \in Answering /\ "server" \in conn /\ "aborted" \notin reset
      /\ spc \in Answering => spc # "reading"
      /\ toClient = <<>> => ~Sent
  <2>1. /\ cpc \in {"lines", "finish", "download", "quit", "end", "killed"}
        /\ spc \in Answering => spc # "reading" /\ spc \notin {"end", "killed"}
    BY DEF DownloadInv, Answering
  <2>2. Sending => spc \in Answering
    BY DEF Sending
  <2>3. toClient = <<>> => Absent("ready", toClient)
    BY DEF Absent
  <2> QED
    BY <1>2, <2>1, <2>2, <2>3 DEF EndsInv, Sent
<1>4. ASSUME cpc \in {"lines", "finish"}, UNCHANGED <<shown, toClient>>,
             cpc' \in {"lines", "finish", "download"} \/ (cpc' = "killed" /\ "server" \notin conn)
      PROVE  DownloadInv'
  BY <1>1, <1>3, <1>4 DEF DownloadInv, DataOrder, Sending, Sent, Absent, DataCount, Fits, Answering
<1>5. CASE SendCode \/ AwaitReady \/ ReadAnswer
  BY <1>3, <1>5 DEF SendCode, AwaitReady, ReadAnswer
<1>6. CASE WriteLine \/ FinishCommand
  <2>1. /\ cpc \in {"lines", "finish"} /\ UNCHANGED <<shown, toClient>>
        /\ cpc' \in {"lines", "finish", "download"} \/ (cpc' = "killed" /\ "server" \notin conn)
    BY <1>6 DEF WriteLine, FinishCommand, Write
  <2> QED
    BY <1>4, <2>1
<1>7. CASE ReadError
  <2>1. cpc \in {"lines", "finish", "download"} /\ toClient = <<>> /\ "aborted" \in reset
    BY <1>3, <1>7 DEF ReadError
  <2> QED
    BY <1>3, <2>1 DEF DownloadInv
<1>8. CASE DownloadTimeout
  <2>1. cpc = "download" /\ toClient = <<>> /\ Silent
    BY <1>2, <1>8 DEF DownloadTimeout, Only, Happens, Intact, Never
  <2> QED
    BY <1>3, <2>1 DEF DownloadInv, Silent
<1>9. CASE Quit
  <2>1. cpc = "quit" /\ cpc' \in {"end", "killed"} /\ UNCHANGED <<shown, toClient>>
    BY <1>9 DEF Quit
  <2> QED
    BY <1>1, <2>1 DEF DownloadInv, DataOrder, Absent, Fits, Answering
<1>10. CASE Stopped
  <2>1. cpc = "killed" /\ cpc' = "killed" /\ UNCHANGED <<shown, toClient>>
    BY <1>2, <1>10 DEF Stopped, Intact, Never, Happens
  <2> QED
    BY <1>1, <2>1 DEF DownloadInv, DataOrder, Absent, Fits, Answering
<1>11. CASE ReadDownload
  <2>1. /\ cpc = "download" /\ DataOrder /\ (Sending \/ Sent)
        /\ shown + DataCount(toClient) + DataCount(replies) = DataLines
    BY <1>11 DEF ReadDownload, DownloadInv
  <2>2. ~EndOfFile
    BY <1>3, <2>1 DEF EndOfFile
  <2>3. ~TakePart /\ \A k \in DOMAIN toClient : Take(k) => k = 1
    BY <1>2, CalmReads
  <2>4. 1 \in DOMAIN toClient /\ Take(1)
    BY <1>11, <2>2, <2>3 DEF ReadDownload
  <2>5. IF toClient[1] = "ready"
        THEN cpc' = "quit" /\ shown' = shown
        ELSE cpc' = "download" /\ shown' = shown + DataIn(1)
    BY <1>11, <2>1, <2>2, <2>3 DEF ReadDownload, Alone
  <2>6. /\ Len(toClient) \in Nat \ {0} /\ DOMAIN toClient' = 1 .. Len(toClient) - 1
        /\ \A j \in 1 .. Len(toClient) - 1 : toClient'[j] = toClient[1 + j] /\ 1 + j \in DOMAIN toClient
        /\ Absent("ready", toClient) => Absent("ready", toClient')
    BY <1>2, <2>4, OneTaken
  <2>7. DataOrder'
    <3>1. ASSUME NEW i \in DOMAIN toClient', NEW j \in DOMAIN toClient', i < j, toClient'[i] = "ready"
          PROVE  toClient'[j] # "data"
      <4>1. PICK p \in DOMAIN toClient : p = 1 + i /\ toClient[p] = "ready"
        BY <2>6, <3>1
      <4>2. PICK q \in DOMAIN toClient : q = 1 + j /\ toClient'[j] = toClient[q]
        BY <2>6
      <4>3. p < q
        BY <2>6, <3>1, <4>1, <4>2
      <4> QED
        BY <1>2, <2>1, <4>1, <4>2, <4>3 DEF DataOrder
    <3> QED
      BY <3>1 DEF DataOrder
  <2>8. CASE toClient[1] = "ready"
    <3>1. Sent
      BY <2>1, <2>4, <2>8 DEF Sending, Absent
    <3>2. Absent("data", toClient)
      <4>1. \A j \in DOMAIN toClient : j = 1 \/ 1 < j
        BY <1>2
      <4>2. \A j \in DOMAIN toClient : 1 < j => toClient[j] # "data"
        BY <1>2, <2>1, <2>4, <2>8 DEF DataOrder
      <4> QED
        BY <2>8, <4>1, <4>2 DEF Absent
    <3>3. DataCount(toClient) = 0 /\ DataCount(replies) = 0
      BY <3>1, <3>2, CountNone DEF Sent
    <3>4. shown = DataLines
      BY <1>2, <2>1, <3>3
    <3> QED
      BY <1>1, <2>5, <2>7, <2>8, <3>1, <3>4 DEF DownloadInv, Sent, Absent, Fits
  <2>9. CASE toClient[1] # "ready"
    <3>1. cpc' = "download" /\ shown' = shown + DataIn(1)
      BY <2>5, <2>9
    <3>2. PICK t : t = toClient'
      OBVIOUS
    <3>3. DataCount(t) \in Nat /\ DataIn(1) \in Nat /\ DataCount(toClient) = DataIn(1) + DataCount(t)
      BY <1>2, <2>4, <3>2, DataTaken
    <3>4. shown' + DataCount(t) + DataCount(replies) = DataLines
      BY <1>2, <2>1, <3>1, <3>3
    <3>5. Sending => Sending'
      BY <1>1, <2>6 DEF Sending, Absent
    <3>6. Sent => Sent'
      <4>1. ASSUME NEW j \in DOMAIN toClient, toClient[j] = "ready"
            PROVE  j - 1 \in DOMAIN toClient' /\ toClient'[j - 1] = "ready"
        <5>1. j - 1 \in 1 .. Len(toClient) - 1 /\ 1 + (j - 1) = j
          BY <1>2, <2>9, <4>1
        <5> QED
          BY <2>6, <4>1, <5>1
      <4>2. ~Absent("ready", toClient) => ~Absent("ready", toClient')
        BY <4>1 DEF Absent
      <4> QED
        BY <1>1, <4>2 DEF Sent, Absent, Fits
    <3> QED
      BY <1>1, <2>1, <2>7, <3>1, <3>2, <3>4, <3>5, <3>6 DEF DownloadInv
  <2> QED
    BY <2>8, <2>9
<1> QED
  BY <1>5, <1>6, <1>7, <1>8, <1>9, <1>10, <1>11 DEF Client

\* A second run has nothing of the first but the rest of it.
LEMMA SecondAnswer ==
    ASSUME BasicInv, PastInv, executed # <<>>, Complete, Acceptable
    PROVE  Absent("data", replies') /\ Send(<<"accepted">>, "running")
<1>1. /\ count > 0 /\ spc = "reading" /\ replies' \in Answers(Arguments)
      /\ Send(<<"accepted">>, "running")
  BY RunReads DEF BasicInv
<1>2. commands[1] # FirstLine
  <2>1. \A k \in 1 .. count : commands[k] # FirstLine
    BY <1>1 DEF PastInv, Active
  <2>2. 1 \in 1 .. count
    BY <1>1, LenProperties DEF BasicInv, Types
  <2> QED
    BY <2>1, <2>2
<1>3. replies' = <<"result">>
  BY <1>1, <1>2, ErrorAnswer DEF BasicInv
<1>4. Absent("data", <<"result">>)
  BY OneMessage DEF Messages
<1> QED
  BY <1>1, <1>3, <1>4

\* The server sends the data, then [ready]; after that no data.
LEMMA DownloadServer ==
    ASSUME BasicInv, PastInv, ShownInv, DownloadInv, command.kind = "download", executed # <<>>,
           Fits => AfterRun, Server \/ Update
    PROVE  DownloadInv'
<1> USE DEF asked, client, server, reader
<1>1. UNCHANGED <<command, cpc, shown>>
  BY DEF Server, ReadCode, NoCode, Welcome, Ready, ReadLine, ReadNothing, Complete, Reply,
         CloseSession, Update
<1>2. /\ Types /\ EndsInv /\ CodeInv /\ toClient \in Seq(Messages) /\ Len(toClient) \in Nat
      /\ DOMAIN toClient = 1 .. Len(toClient) /\ shown \in Nat /\ DataLines \in Nat
      /\ DataCount(toClient) \in Nat /\ DataCount(replies) \in Nat /\ replies \in Seq(Messages)
  <2>1. Types /\ EndsInv /\ CodeInv
    BY DEF BasicInv
  <2>2. toClient \in Seq(Messages) /\ replies \in Seq(Messages)
    BY <2>1 DEF Types
  <2>3. DataCount(toClient) \in Nat /\ DataCount(replies) \in Nat
    BY <2>2, CountConcat
  <2> QED
    BY <2>1, <2>2, <2>3, LenProperties, BoundsAssumption DEF ShownInv
<1>3. /\ spc \notin {"code", "about"} /\ DataOrder
      /\ ~ReadCode /\ ~NoCode /\ ~Welcome
  <2>1. spc \notin {"code", "about"}
    BY <1>2 DEF CodeInv, PastInv, Active
  <2> QED
    BY <2>1 DEF ReadCode, NoCode, Welcome, DownloadInv
<1>4. Fits => spc \in Answering \/ spc' \notin Answering
  BY StaysQuiet DEF Next
<1>5. ASSUME NEW m \in Messages, m # "data", NEW next \in ServerAt, Send(<<m>>, next)
      PROVE  /\ DataOrder'
             /\ DataCount(toClient') = DataCount(toClient)
             /\ ~Absent("ready", toClient) => ~Absent("ready", toClient')
  <2>1. DataCount(toClient') = DataCount(toClient)
    <3>1. <<m>> \in Seq(Messages) /\ Absent("data", <<m>>)
      BY <1>5, OneMessage
    <3>2. DataCount(<<m>>) = 0
      BY <3>1, CountNone
    <3>3. CASE "client" \in conn
      <4>1. DataCount(toClient') = DataCount(toClient) + DataCount(<<m>>)
        BY <1>2, <1>5, <3>1, <3>3, DataSent
      <4> QED
        BY <1>2, <3>2, <4>1
    <3>4. CASE "client" \notin conn
      BY <1>5, <3>4 DEF Send
    <3> QED
      BY <3>3, <3>4
  <2>2. CASE "client" \in conn
    <3>1. /\ DOMAIN toClient' = 1 .. Len(toClient) + 1
          /\ \A j \in 1 .. Len(toClient) : toClient'[j] = toClient[j]
          /\ toClient'[Len(toClient) + 1] = m
      BY <1>2, <1>5, <2>2, OneSent
    <3>2. ASSUME NEW i \in DOMAIN toClient', NEW j \in DOMAIN toClient', i < j, toClient'[i] = "ready"
          PROVE  toClient'[j] # "data"
      <4>1. i \in DOMAIN toClient /\ toClient[i] = "ready"
        BY <1>2, <3>1, <3>2
      <4>2. (j \in DOMAIN toClient /\ toClient'[j] = toClient[j]) \/ toClient'[j] = m
        BY <1>2, <3>1
      <4>3. j \in DOMAIN toClient => toClient[j] # "data"
        BY <1>3, <3>2, <4>1 DEF DataOrder
      <4> QED
        BY <1>5, <4>2, <4>3
    <3>3. \A j \in DOMAIN toClient : j \in DOMAIN toClient' /\ toClient'[j] = toClient[j]
      BY <1>2, <3>1
    <3>4. DataOrder'
      BY <3>2 DEF DataOrder
    <3> QED
      BY <2>1, <3>3, <3>4 DEF Absent
  <2>3. CASE "client" \notin conn
    <3>1. UNCHANGED toClient
      BY <1>5, <2>3 DEF Send
    <3> QED
      BY <1>3, <2>1, <3>1 DEF DataOrder, Absent
  <2> QED
    BY <2>2, <2>3
<1>6. CASE cpc \in {"lines", "finish", "download"} /\ Sending
  <2>1. /\ spc \in {"running", "ready"} /\ Absent("ready", toClient) /\ Absent("ready", replies)
        /\ spc = "ready" => replies = <<>>
        /\ shown + DataCount(toClient) + DataCount(replies) = DataLines
        /\ "client" \in conn
    BY <1>2, <1>6 DEF Sending, Answering, DownloadInv, EndsInv
  <2>2. Ready \/ Reply \/ Update
    BY <1>3, <2>1 DEF Server, ReadLine, MoreLines, ReadNothing, Complete, CloseSession
  <2>3. CASE Ready
    <3>1. "ready" \in Messages /\ "reading" \in ServerAt /\ Send(<<"ready">>, "reading") /\ spc = "ready"
      BY <2>3 DEF Ready, Messages, ServerAt
    <3>2. /\ DataOrder' /\ DataCount(toClient') = DataCount(toClient)
      BY <1>5, <1>6, <3>1
    <3>3. /\ spc' = "reading" /\ Len(toClient) + 1 \in DOMAIN toClient'
          /\ toClient'[Len(toClient) + 1] = "ready"
      BY <1>2, <2>1, <3>1, OneSent
    <3>4. replies = <<>> /\ UNCHANGED replies
      BY <2>1, <2>3, <3>1 DEF Ready
    <3>5. Sent'
      BY <3>3, <3>4 DEF Sent, Absent, Answering
    <3> QED
      BY <1>1, <1>6, <2>1, <3>2, <3>4, <3>5 DEF DownloadInv
  <2>4. CASE Reply /\ NoneLeft
    <3>1. spc' = "ready" /\ UNCHANGED <<replies, toClient>> /\ replies = <<>>
      BY <2>4 DEF Reply, NoneLeft, Quiet
    <3> QED
      BY <1>1, <1>3, <1>6, <2>1, <3>1 DEF DownloadInv, DataOrder, Sending, Absent, Answering
  <2>5. CASE Reply /\ ~NoneLeft
    <3>1. /\ replies # <<>> /\ replies' = Tail(replies)
          /\ Send(<<Head(replies)>>, "running") /\ "running" \in ServerAt
      BY <2>5 DEF Reply, NoneLeft, ServerAt
    <3>2. PICK m \in Messages : m = Head(replies)
      BY <1>2, <3>1, HeadTailProperties
    <3>3. m # "ready" /\ Absent("ready", Tail(replies))
      <4>1. /\ m = replies[1] /\ 1 \in DOMAIN replies
            /\ \A j \in DOMAIN Tail(replies) : j + 1 \in DOMAIN replies /\ Tail(replies)[j] = replies[j + 1]
        BY <1>2, <3>1, <3>2, EmptySeq, LenProperties, HeadTailProperties
      <4> QED
        BY <2>1, <4>1 DEF Absent
    <3>4. Absent("ready", toClient') /\ spc' = "running"
      BY <1>2, <2>1, <3>1, <3>2, <3>3, OneSent
    <3>5. /\ DataCount(Tail(replies)) \in Nat /\ DataCount(<<m>>) \in Nat
          /\ DataCount(replies) = DataCount(<<m>>) + DataCount(Tail(replies))
      BY <1>2, <3>1, <3>2, CountHead
    <3>6. DataCount(toClient') = DataCount(toClient) + DataCount(<<m>>)
      BY <1>2, <2>1, <3>1, <3>2, OneMessage, DataSent
    <3>7. shown + DataCount(toClient') + DataCount(Tail(replies)) = DataLines
      BY <1>2, <2>1, <3>5, <3>6
    <3>8. DataOrder'
      BY <3>4 DEF DataOrder, Absent
    <3>9. Sending'
      BY <3>1, <3>3, <3>4 DEF Sending, Answering
    <3> QED
      BY <1>1, <1>6, <3>1, <3>7, <3>8, <3>9 DEF DownloadInv
  <2>6. CASE Update
    <3>1. Send(<<"update">>, spc) /\ spc \in ServerAt /\ "update" \in Messages /\ UNCHANGED replies
      BY <1>2, <2>1, <2>6 DEF Update, Types, Messages
    <3>2. Absent("ready", toClient') /\ spc' = spc
      BY <1>2, <2>1, <3>1, OneSent
    <3>3. DataOrder' /\ DataCount(toClient') = DataCount(toClient)
      BY <1>5, <3>1
    <3>4. Sending'
      BY <2>1, <3>1, <3>2 DEF Sending, Answering
    <3> QED
      BY <1>1, <1>6, <2>1, <3>1, <3>3, <3>4 DEF DownloadInv
  <2> QED
    BY <2>2, <2>3, <2>4, <2>5, <2>6
<1>7. CASE ~(cpc \in {"lines", "finish", "download"} /\ Sending)
  <2>1. /\ Absent("data", replies) /\ (Fits => spc \notin Answering)
        /\ cpc \in {"lines", "finish", "download"} =>
              /\ shown + DataCount(toClient) + DataCount(replies) = DataLines
              /\ ~Absent("ready", toClient)
    BY <1>7 DEF DownloadInv, Sent
  <2>2. Fits => spc' \notin Answering
    BY <1>4, <2>1
  <2>3. ASSUME Absent("data", replies'), DataOrder', DataCount(toClient') = DataCount(toClient),
               ~Absent("ready", toClient) => ~Absent("ready", toClient')
        PROVE  DownloadInv'
    <3>1. DataCount(replies') = DataCount(replies)
      BY <2>1, <2>3, CountNone
    <3>2. CASE cpc \in {"lines", "finish", "download"}
      <4>1. shown + DataCount(toClient') + DataCount(replies') = DataLines
        BY <2>1, <2>3, <3>1, <3>2
      <4>2. Sent'
        BY <1>1, <2>1, <2>2, <2>3, <3>2 DEF Sent, Fits
      <4> QED
        BY <1>1, <2>3, <3>2, <4>1, <4>2 DEF DownloadInv
    <3>3. CASE cpc \notin {"lines", "finish", "download"}
      BY <1>1, <2>2, <2>3, <3>3 DEF DownloadInv, Fits
    <3> QED
      BY <3>2, <3>3
  <2>4. ASSUME NEW m \in Messages, m # "data", NEW next \in ServerAt, Send(<<m>>, next),
               Absent("data", replies')
        PROVE  DownloadInv'
    BY <1>5, <2>3, <2>4
  <2>5. ASSUME UNCHANGED toClient, Absent("data", replies') PROVE DownloadInv'
    <3>1. DataCount(toClient') = DataCount(toClient)
      BY <2>5
    <3> QED
      BY <1>3, <2>3, <2>5, <3>1 DEF DataOrder, Absent
  <2>6. /\ {"ready", "accepted", "update"} \subseteq Messages \ {"data"}
        /\ {"reading", "running", spc} \subseteq ServerAt
    BY <1>2 DEF Messages, ServerAt, Types
  <2>7. CASE Ready
    <3>1. Send(<<"ready">>, "reading") /\ UNCHANGED replies
      BY <2>7 DEF Ready
    <3> QED
      BY <2>1, <2>4, <2>6, <3>1
  <2>8. CASE Complete
    BY <2>1, <2>4, <2>5, <2>6, <2>8, SecondAnswer DEF Complete, Quiet
  <2>9. CASE Reply
    <3>1. CASE NoneLeft
      BY <2>1, <2>5, <2>9, <3>1 DEF Reply, Quiet
    <3>2. CASE ~NoneLeft
      <4>1. replies # <<>> /\ replies' = Tail(replies) /\ Send(<<Head(replies)>>, "running")
        BY <2>9, <3>2 DEF Reply, NoneLeft
      <4>2. PICK m \in Messages : m = Head(replies)
        BY <1>2, <4>1, HeadTailProperties
      <4>3. m # "data" /\ Absent("data", Tail(replies))
        <5>1. /\ m = replies[1] /\ 1 \in DOMAIN replies
              /\ \A j \in DOMAIN Tail(replies) : j + 1 \in DOMAIN replies /\ Tail(replies)[j] = replies[j + 1]
          BY <1>2, <4>1, <4>2, EmptySeq, LenProperties, HeadTailProperties
        <5> QED
          BY <2>1, <5>1 DEF Absent
      <4> QED
        BY <2>4, <2>6, <4>1, <4>2, <4>3
    <3> QED
      BY <3>1, <3>2
  <2>10. CASE Update
    BY <2>1, <2>4, <2>5, <2>6, <2>10 DEF Update
  <2>11. CASE ReadLine \/ ReadNothing \/ CloseSession
    BY <2>1, <2>5, <2>11 DEF ReadLine, ReadNothing, CloseSession
  <2> QED
    BY <1>3, <2>7, <2>8, <2>9, <2>10, <2>11 DEF Server
<1> QED
  BY <1>6, <1>7

\* A client that uploads has three messages to read; [accepted] is one of them,
\* and the server is not ready before it has sent the second.
LEMMA UploadStep ==
    ASSUME BasicInv, PastInv, UploadInv, executed # <<>>, Calm', Fits => AfterRun, [Next]_vars
    PROVE  UploadInv'
<1> USE DEF asked, client, server, reader
<1>1. UNCHANGED command /\ updates \in Nat /\ updates' \in {updates, updates + 1}
  BY HappenedGrows, UpdatesGrow DEF BasicInv
<1> SUFFICES ASSUME command.kind = "upload", updates' = 0, Fits, spc' \in Answering
             PROVE  /\ cpc' \in {"lines", "finish", "first", "second", "answer"}
                    /\ HasRead' + Len(toClient') + Len(replies') = 2
  BY <1>1 DEF UploadInv, Fits
<1>2. updates = 0 /\ spc \in {"running", "ready"}
  BY <1>1, StaysQuiet DEF Answering
<1>3. /\ cpc \in {"lines", "finish", "first", "second", "answer"}
      /\ HasRead + Len(toClient) + Len(replies) = 2
  BY <1>2 DEF UploadInv, Answering
<1>4. /\ Types /\ EndsInv /\ Intact' /\ toClient \in Seq(Messages) /\ replies \in Seq(Messages)
      /\ Len(toClient) \in Nat /\ Len(replies) \in Nat
      /\ "client" \in conn /\ "server" \in conn /\ "aborted" \notin reset
  <2>1. Types /\ EndsInv /\ Intact'
    BY DEF BasicInv, Calm
  <2> QED
    BY <1>2, <1>3, <2>1, LenProperties DEF Types, EndsInv
<1>5. CASE UNCHANGED <<toClient, replies>> /\ HasRead' = HasRead
           /\ cpc' \in {"lines", "finish", "first", "second", "answer"}
  BY <1>3, <1>5
<1>6. CASE WriteLine \/ FinishCommand
  <2>1. UNCHANGED <<toClient, replies>> /\ cpc \in {"lines", "finish"} /\ cpc' \in {"lines", "finish", "first"}
    BY <1>1, <1>4, <1>6 DEF WriteLine, FinishCommand, Write
  <2> QED
    BY <1>5, <2>1 DEF HasRead
<1>7. CASE ReadAnswer
  <2>1. ~EndOfFile /\ UNCHANGED replies /\ cpc \in {"first", "second", "answer"} /\ cpc' = Answered
    BY <1>4, <1>7 DEF ReadAnswer, EndOfFile
  <2>2. PICK k \in DOMAIN toClient : Take(k)
    BY <1>4, <1>7, <2>1, CalmReads DEF ReadAnswer
  <2>3. Len(toClient) \in Nat \ {0} /\ Len(toClient') = Len(toClient) - 1
    BY <1>4, <2>2, OneTaken
  <2>4. HasRead \in {0, 1, 2} /\ (cpc = "answer" => HasRead = 2)
    BY <2>1 DEF HasRead
  <2>5. cpc # "answer"
    BY <1>3, <1>4, <2>3, <2>4
  <2>6. cpc' \in {"second", "answer"} /\ HasRead' = HasRead + 1
    BY <2>1, <2>5 DEF Answered, HasRead
  <2> QED
    BY <1>3, <1>4, <2>1, <2>3, <2>4, <2>6
<1>8. CASE Stopped
  BY <1>3, <1>4, <1>8 DEF Stopped, Intact, Never, Happens
<1>9. CASE SendCode \/ AwaitReady \/ ReadError \/ ReadDownload \/ DownloadTimeout \/ Quit
  BY <1>3, <1>4, <1>9 DEF SendCode, AwaitReady, ReadError, ReadDownload, DownloadTimeout, Quit
<1>10. CASE Ready
  BY <1>4, <1>10 DEF Ready, Send, Answering
<1>11. CASE Reply
  <2>1. CASE NoneLeft
    <3>1. UNCHANGED <<toClient, replies, cpc>>
      BY <1>11, <2>1 DEF Reply, Quiet
    <3> QED
      BY <1>3, <1>5, <3>1 DEF HasRead
  <2>2. CASE ~NoneLeft
    <3>1. /\ replies # <<>> /\ replies' = Tail(replies) /\ UNCHANGED cpc
          /\ Send(<<Head(replies)>>, "running") /\ "running" \in ServerAt
      BY <1>11, <2>2 DEF Reply, NoneLeft, ServerAt
    <3>2. PICK m \in Messages : m = Head(replies)
      BY <1>4, <3>1, HeadTailProperties
    <3>3. Len(toClient') = Len(toClient) + 1
      BY <1>4, <3>1, <3>2, OneSent
    <3>4. Len(replies') = Len(replies) - 1
      BY <1>4, <3>1, HeadTailProperties
    <3>5. HasRead' = HasRead /\ HasRead \in Nat
      BY <3>1 DEF HasRead
    <3> QED
      BY <1>3, <1>4, <3>1, <3>3, <3>4, <3>5
  <2> QED
    BY <2>1, <2>2
<1>12. CASE ReadCode \/ NoCode \/ Welcome \/ ReadLine \/ ReadNothing \/ Complete \/ CloseSession
  BY <1>2, <1>12 DEF ReadCode, NoCode, Welcome, ReadLine, ReadNothing, MoreLines, Complete, CloseSession
<1>13. CASE Update
  BY <1>1, <1>2, <1>13 DEF Update
<1>14. CASE UNCHANGED vars
  BY <1>3, <1>5, <1>14 DEF vars, HasRead
<1> QED
  BY <1>6, <1>7, <1>8, <1>9, <1>10, <1>11, <1>12, <1>13, <1>14 DEF Next, Client, Server

\* What the client hears of its command.
LEMMA AnswerStep ==
    ASSUME BasicInv, OrderInv, PastInv, ShownInv, StreamInv, CalmInv, AnswerInv, [Next]_vars
    PROVE  AnswerInv'
<1> USE DEF asked, client, server, reader
<1>1. UNCHANGED <<command, codeOk>>
  BY ClientApart DEF Next, Server, ReadCode, NoCode, Welcome, Ready, ReadLine, ReadNothing, Complete,
     Reply, CloseSession, Update, vars
<1> SUFFICES ASSUME Calm', codeOk
             PROVE  /\ command.kind = "show" => executed' = <<>>
                    /\ IF executed' = <<>> THEN WelcomeInv' /\ WaitInv' ELSE DownloadInv' /\ UploadInv'
  BY <1>1 DEF AnswerInv, Calm
<1>2. /\ Types /\ Calm /\ ClientInv /\ (executed = <<>> => BeforeRun)
      /\ command.kind = "show" => executed = <<>>
      /\ IF executed = <<>> THEN WelcomeInv /\ WaitInv ELSE DownloadInv /\ UploadInv
  BY CalmBefore DEF BasicInv, CalmInv, AnswerInv, Calm
<1>3. Fits => IF executed = <<>> THEN BeforeRun ELSE AfterRun
  BY <1>2 DEF StreamInv, Calm
<1>4. executed' = executed \/ (Complete /\ Acceptable)
  BY ClientApart DEF Next, Server, ReadCode, NoCode, Welcome, Ready, ReadLine, ReadNothing, Complete,
     Reply, CloseSession, Update, vars
<1>5. CASE executed = <<>> /\ executed' = <<>>
  BY <1>2, <1>5, WelcomeStep, WaitStep
<1>6. CASE executed = <<>> /\ executed' # <<>>
  <2>1. Complete /\ Acceptable
    BY <1>4, <1>6
  <2> QED
    BY <1>2, <1>6, <2>1, FirstAnswers, AnswersBegin
<1>7. CASE executed # <<>>
  <2>1. executed' # <<>>
    BY <1>4, <1>7, RunReads DEF BasicInv
  <2>2. UploadInv'
    BY <1>2, <1>3, <1>7, UploadStep
  <2>3. DownloadInv'
    <3>1. CASE command.kind # "download"
      BY <1>1, <3>1 DEF DownloadInv
    <3>2. CASE command.kind = "download" /\ (Client \/ Stopped)
      BY <1>2, <1>7, <3>2, DownloadClient
    <3>3. CASE command.kind = "download" /\ (Server \/ Update)
      BY <1>2, <1>3, <1>7, <3>3, DownloadServer
    <3>4. CASE UNCHANGED vars
      BY <1>2, <1>7, <3>4 DEF vars, DownloadInv, DataOrder, Sending, Sent, Absent, DataCount, Fits
    <3> QED
      BY <3>1, <3>2, <3>3, <3>4 DEF Next
  <2>4. command.kind # "show"
    BY <1>2, <1>7
  <2> QED
    BY <2>1, <2>2, <2>3, <2>4
<1> QED
  BY <1>5, <1>6, <1>7

\* Where the server says something, the client is there to hear it.
LEMMA ClientThere ==
    ASSUME BasicInv, PastInv, ClientInv, IF executed = <<>> THEN BeforeRun ELSE AfterRun, Calm, Fits,
           AnswerInv, command.kind # "plain", updates = 0,
           \/ spc \in {"code", "about", "ready", "running"}
           \/ Complete /\ Acceptable
    PROVE  "client" \in conn
<1>1. /\ Types /\ EndsInv /\ CodeInv /\ BufferInv
      /\ command.kind \in {"show", "upload", "download"}
  BY CommandsAssumption DEF BasicInv, Types, Kinds
<1>2. CASE spc = "code"
  BY <1>1, <1>2 DEF ClientInv, EndsInv
<1>3. ASSUME spc # "code" PROVE spc \in Active /\ codeOk
  BY <1>1, <1>3 DEF Active, CodeInv, Complete
<1>4. /\ codeOk /\ command.kind = "show" => executed = <<>>
      /\ codeOk => IF executed = <<>> THEN WelcomeInv /\ WaitInv ELSE DownloadInv /\ UploadInv
  BY DEF AnswerInv, Calm
<1>5. CASE spc \in {"about", "ready", "running"} /\ executed = <<>>
  <2>1. spc # "running"
    BY <1>3, <1>5 DEF BeforeRun
  <2>2. cpc \in {"code", "welcome"}
    BY <1>3, <1>4, <1>5, <2>1 DEF WelcomeInv
  <2> QED
    BY <1>1, <2>2 DEF EndsInv
<1>6. CASE spc \in {"about", "ready", "running"} /\ executed # <<>>
  <2>1. spc \in Answering
    BY <1>3, <1>6 DEF PastInv, Answering
  <2>2. cpc \in {"lines", "finish", "download", "first", "second", "answer"}
    BY <1>1, <1>3, <1>4, <1>6, <2>1 DEF DownloadInv, UploadInv
  <2> QED
    BY <1>1, <2>2 DEF EndsInv
<1>7. CASE Complete /\ Acceptable /\ executed = <<>>
  <2>1. spc = "reading" /\ command.kind # "show"
    BY <1>7, FirstAnswers DEF Complete
  <2>2. cpc \notin {"end", "killed"}
    BY <1>1, <1>3, <1>4, <1>7, <2>1 DEF WaitInv, Attentive
  <2> QED
    BY <1>1, <2>2 DEF EndsInv
<1>8. CASE Complete /\ Acceptable /\ executed # <<>>
  <2>1. spc = "reading" /\ ~MoreLines /\ NumberLines \in Nat \ {0, 1}
    BY <1>8, BoundsAssumption DEF Complete
  <2> QED
    BY <1>8, <2>1 DEF AfterRun, Acceptable, Goodbye, MoreLines, Ending
<1> QED
  BY <1>2, <1>5, <1>6, <1>7, <1>8

LEMMA HeardStep ==
    ASSUME BasicInv, PastInv, StreamInv, AnswerInv, HeardInv, [Next]_vars PROVE HeardInv'
<1> USE DEF asked, client, server, reader
<1>1. UNCHANGED command /\ Types /\ updates \in Nat /\ updates' \in {updates, updates + 1}
  BY HappenedGrows, UpdatesGrow DEF BasicInv
<1> SUFFICES ASSUME command.kind # "plain", updates' = 0, Calm', Fits
             PROVE  "server" \notin reset' /\ spc' # "killed"
  BY <1>1 DEF HeardInv, Calm, Fits
<1>2. Calm /\ updates = 0
  BY <1>1, CalmBefore
<1>3. /\ "server" \notin reset /\ spc # "killed"
      /\ ClientInv /\ IF executed = <<>> THEN BeforeRun ELSE AfterRun
  BY <1>2 DEF HeardInv, StreamInv, Calm
<1>4. spc \in {"code", "about", "ready", "running"} \/ (Complete /\ Acceptable) => "client" \in conn
  BY <1>2, <1>3, ClientThere
<1>5. ASSUME NEW msgs, NEW next, next # "killed", Send(msgs, next), "client" \in conn
      PROVE  "server" \notin reset' /\ spc' # "killed"
  BY <1>3, <1>5 DEF Send
<1>6. CASE Client \/ Stopped
  <2>1. spc' = spc
    BY <1>6, ClientApart
  <2>2. reset' \subseteq reset \cup {"client"}
    BY <1>6 DEF Client, SendCode, AwaitReady, ReadError, WriteLine, FinishCommand, ReadAnswer,
       ReadDownload, DownloadTimeout, Quit, Stopped, Write
  <2> QED
    BY <1>3, <2>1, <2>2
<1>7. CASE ReadCode \/ NoCode
  BY <1>3, <1>4, <1>5, <1>7 DEF ReadCode, NoCode, Refuse, Quiet
<1>8. CASE Welcome
  BY <1>4, <1>5, <1>8 DEF Welcome
<1>9. CASE Ready
  BY <1>4, <1>5, <1>9 DEF Ready
<1>10. CASE ReadLine \/ ReadNothing
  BY <1>3, <1>10 DEF ReadLine, ReadNothing
<1>11. CASE Complete
  BY <1>3, <1>4, <1>5, <1>11 DEF Complete, Quiet
<1>12. CASE Reply
  BY <1>3, <1>4, <1>5, <1>12 DEF Reply, Quiet
<1>13. CASE CloseSession
  BY <1>3, <1>13 DEF CloseSession
<1>14. CASE Update
  BY <1>1, <1>2, <1>14 DEF Update
<1>15. CASE UNCHANGED vars
  BY <1>3, <1>15 DEF vars
<1> QED
  BY <1>6, <1>7, <1>8, <1>9, <1>10, <1>11, <1>12, <1>13, <1>14, <1>15 DEF Next, Server

\* What is said and heard in a session in which nothing goes wrong.
TalkInv == StreamInv /\ CalmInv /\ AnswerInv /\ HeardInv

LEMMA TalkHolds == Spec => []TalkInv
<1>1. Init => TalkInv
  <2> SUFFICES ASSUME Init PROVE TalkInv
    OBVIOUS
  <2>1. StreamInv /\ CalmInv
    BY DEF Init, StreamInv, CalmInv, ClientInv, BeforeRun, Active
  <2>2. WelcomeInv /\ WaitInv
    BY DEF Init, WelcomeInv, WaitInv, Absent
  <2>3. AnswerInv /\ HeardInv
    BY <2>2 DEF Init, AnswerInv, HeardInv
  <2> QED
    BY <2>1, <2>3 DEF TalkInv
<1>2. AlwaysInv /\ AlwaysInv' /\ TalkInv /\ [Next]_vars => TalkInv'
  <2> SUFFICES ASSUME AlwaysInv, AlwaysInv', TalkInv, [Next]_vars PROVE TalkInv'
    OBVIOUS
  <2>1. /\ BasicInv /\ BasicInv' /\ OrderInv /\ PastInv /\ ShownInv
        /\ StreamInv /\ CalmInv /\ AnswerInv /\ HeardInv
    BY DEF AlwaysInv, TalkInv
  <2>2. StreamInv' /\ CalmInv'
    BY <2>1, StreamStep, CalmStep
  <2>3. AnswerInv' /\ HeardInv'
    BY <2>1, AnswerStep, HeardStep
  <2> QED
    BY <2>2, <2>3 DEF TalkInv
<1> QED
  BY <1>1, <1>2, AlwaysHolds, PTL DEF Spec

\* A download that ended with [ready] or with silence was printed in full
\* (ptrim-client.cc:184): the client stops at the first [ready] that comes as a
\* read of its own, and what makes that right is that the server sends none
\* between the first line of data and the last, and that silence, from a server
\* that still has data to send, would be a time-out.
THEOREM DownloadsComplete == Spec => []DownloadWhole
<1>1. TalkInv => DownloadWhole
  <2> SUFFICES ASSUME TalkInv, command.kind = "download", cpc = "end", Calm, codeOk
               PROVE  shown = DataLines
    BY DEF DownloadWhole, Calm
  <2>1. IF executed = <<>> THEN WaitInv ELSE DownloadInv
    BY DEF TalkInv, AnswerInv, Calm
  <2>2. executed # <<>>
    BY <2>1 DEF WaitInv, Attentive
  <2> QED
    BY <2>1, <2>2 DEF DownloadInv
<1> QED
  BY <1>1, TalkHolds, PTL

\* Without updates, accidents and files that look like two commands, a client
\* that uploads, downloads or asks for nothing is there whenever the server has
\* something to send: only a client of another command, which reads just once
\* (ptrim-client.cc:206), can leave a send that ends the server by SIGPIPE.
THEOREM ServerSurvives == Spec => []Survives
<1>1. TalkInv => Survives
  BY DEF TalkInv, HeardInv, Survives
<1> QED
  BY <1>1, TalkHolds, PTL

=============================================================================
