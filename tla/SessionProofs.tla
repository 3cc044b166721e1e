--------------------------- MODULE SessionProofs ---------------------------
(***************************************************************************)
(* Theorems about Session, for every set of commands, every room for their *)
(* lines and every set of mishaps.                                         *)
(***************************************************************************)
EXTENDS Session, SequenceTheorems, WellFoundedInduction, TLAPS

LineSet  == [n : Nat, part : {"whole", "head", "tail"}, first : Firsts]
ClientAt == {"code", "welcome", "lines", "finish", "first", "second", "answer",
             "download", "quit", "end", "spin", "killed"}
ServerAt == {"code", "about", "ready", "reading", "running", "close", "end", "killed"}

\* The type invariant, with the types of the lines and without the bound on shown.
Types ==
    /\ command \in Commands /\ codeOk \in BOOLEAN
    /\ cpc \in ClientAt /\ spc \in ServerAt
    /\ written \in 0 .. Len(command.lines)
    /\ commands \in Seq(LineSet) /\ toServer \in Seq(LineSet)
    /\ Len(commands) <= NumberLines /\ count \in 0 .. Len(commands) /\ first \in Firsts
    /\ executed \in Seq(Seq(LineSet))
    /\ replies \in Seq(Messages) /\ toClient \in Seq(Messages)
    /\ conn \subseteq {"client", "server"} /\ reset \subseteq {"client", "server", "aborted"}
    /\ updates \in 0 .. MaxUpdates
    /\ happened \subseteq Mishaps \cup {"left"}

\* The server has accepted the code and has not yet hung up.
Active == {"about", "ready", "reading", "running"}

\* What the two ends know of each other.
EndsInv ==
    /\ cpc \in {"code", "welcome"} => written = 0
    /\ cpc = "lines" => written < Len(command.lines)
    /\ "client" \notin conn => cpc \in {"end", "killed"}
    /\ "server" \in conn <=> spc \notin {"end", "killed"}
    /\ "server" \in conn => cpc \notin {"spin", "killed"} /\ "aborted" \notin reset

\* Until the code is read there is nothing else to read, and nothing was said.
CodeInv ==
    /\ spc \in Active \/ executed # <<>> => codeOk
    /\ cpc = "code" => toServer = <<>>
    /\ spc = "code" =>
          /\ cpc \in {"code", "welcome", "end"} /\ executed = <<>>
          /\ toServer \in {<<>>, <<CodeLine>>}
          /\ \A k \in DOMAIN toClient : toClient[k] \in {"update", "part"}

\* The buffer holds the last line read; after a time-out the first is "!".
BufferInv ==
    /\ spc \notin {"reading", "killed"} => first = "text"
    /\ spc = "reading" /\ first \in Ending =>
          /\ commands # <<>>
          /\ \/ commands[1].first = "bang" /\ first = "bang"
             \/ count > 0 /\ commands[count].first = first

-----------------------------------------------------------------------------
\* The order in which the client writes the lines of a command of n lines, the
\* blank line and "!"; the second part of a line has a place of its own.
Rank(n, line) ==
    IF line.n # 0 THEN line.n
    ELSE IF line.part = "whole" /\ line.first = "empty" THEN n + 1 ELSE n + 2
Place(n, line) == 2 * Rank(n, line) + (IF line.part = "tail" THEN 1 ELSE 0)
Pos(line) == Place(Len(command.lines), line)

\* How far the client has come.
Latest ==
    IF cpc \in {"code", "welcome", "lines", "finish"} THEN 2 * written + 1
    ELSE IF cpc \in {"end", "killed"} THEN 2 * Len(command.lines) + 5
    ELSE 2 * Len(command.lines) + 3

\* The lines read of a command, unless it is goodbye.
Fresh == {k \in 1 .. count : spc = "reading" /\ ~Goodbye}

\* What is on its way comes in the order it was written, after what was read.
OrderInv ==
    spc \in Active =>
        /\ cpc # "code"
        /\ \A k \in DOMAIN toServer :
              Pos(toServer[k]) <= Latest /\ (k > 1 => toServer[k].part = "whole")
        /\ \A j, k \in DOMAIN toServer : j < k => Pos(toServer[j]) < Pos(toServer[k])
        /\ \A j \in Fresh :
              /\ Pos(commands[j]) <= Latest
              /\ \A k \in DOMAIN toServer : Pos(commands[j]) < Pos(toServer[k])
        /\ \A j, k \in Fresh :
              j < k /\ commands[k].first = "text" => Pos(commands[j]) < Pos(commands[k])

\* A line that was run comes before all that is read, or run, after it.
RunInv ==
    \A r \in DOMAIN executed : Regular(executed[r]) =>
        \A m \in DOMAIN executed[r] :
            /\ spc \in Active =>
                  /\ Pos(executed[r][m]) <= Latest
                  /\ \A k \in DOMAIN toServer : Pos(executed[r][m]) < Pos(toServer[k])
                  /\ \A k \in Fresh :
                        commands[k].first = "text" => Pos(executed[r][m]) < Pos(commands[k])
            /\ \A k \in DOMAIN executed[r] : m < k => Pos(executed[r][m]) < Pos(executed[r][k])
            /\ \A s \in DOMAIN executed : r < s /\ Regular(executed[s]) =>
                  \A k \in DOMAIN executed[s] : Pos(executed[r][m]) < Pos(executed[s][k])

-----------------------------------------------------------------------------
\* The k-th line that a client with this command sends after the code.
StreamLine(c, k) ==
    IF c.kind = "show" THEN QuitLine
    ELSE IF k <= Len(c.lines) THEN Line(k, "whole", "text")
    ELSE IF k = Len(c.lines) + 1 THEN EndLine
    ELSE QuitLine

\* How many of them it has sent.
StreamLength ==
    CASE cpc \in {"code", "welcome"}   -> 0
      [] cpc \in {"lines", "finish"}   -> written
      [] cpc \in {"first", "second", "answer", "download"} -> Len(command.lines) + 1
      [] cpc = "quit" -> IF command.kind = "show" THEN 0 ELSE Len(command.lines) + 1
      [] cpc \in {"end", "spin", "killed"} ->
            IF command.kind = "show" THEN 1 ELSE Len(command.lines) + 2

\* Where the client can be with its command.
ClientInv ==
    /\ cpc = "finish" => written = Len(command.lines)
    /\ command.kind = "show" => cpc \in {"code", "welcome", "quit", "end", "spin", "killed"}
    /\ spc = "code" => cpc \in {"code", "welcome"}

\* How many of them the server has read.
Consumed == IF spc = "reading" THEN count ELSE 0

\* Before a command is run: what was read and what is on its way is what was sent.
BeforeRun ==
    /\ spc \in {"code", "about", "ready"} => commands = <<>>
    /\ spc \in Active =>
          /\ spc # "running"
          /\ Consumed + Len(toServer) = StreamLength
          /\ \A k \in DOMAIN toServer : toServer[k] = StreamLine(command, Consumed + k)
    /\ spc = "reading" =>
          \/ first = "bang" /\ commands # <<>> /\ commands[1].first = "bang"
          \/ /\ Len(commands) = count /\ count <= Len(command.lines) + 1
             /\ \A k \in 1 .. count : commands[k] = StreamLine(command, k)
             /\ first = IF count = 0 THEN "text" ELSE commands[count].first

\* After it: there is nothing left that could be run.
AfterRun ==
    /\ executed = <<Whole>>
    /\ cpc \notin {"code", "welcome", "lines"}
    /\ spc \in Active => \A k \in DOMAIN toServer : toServer[k].first \in {"bang", "empty"}
    /\ spc = "reading" =>
          \/ count = 0 /\ first = "text"
          \/ commands # <<>> /\ commands[1].first \in {"bang", "empty"} /\ first \in {"bang", "empty"}

StreamInv ==
    Intact /\ Plain /\ Fits => ClientInv /\ IF executed = <<>> THEN BeforeRun ELSE AfterRun

-----------------------------------------------------------------------------
(* Sequences and the operators of the model.                               *)

\* What is left of a sequence without its first k elements.
LEMMA Dropped ==
    ASSUME NEW S, NEW s \in Seq(S), NEW k \in DOMAIN s
    PROVE  LET d == SubSeq(s, k + 1, Len(s)) IN
           /\ d \in Seq(S) /\ Len(d) = Len(s) - k /\ DOMAIN d = 1 .. Len(s) - k
           /\ \A j \in 1 .. Len(s) - k : d[j] = s[k + j]
<1> DEFINE d == SubSeq(s, k + 1, Len(s))
<1>1. Len(s) \in Nat /\ k \in 1 .. Len(s) /\ DOMAIN s = 1 .. Len(s)
  BY LenProperties
<1>2. \A j \in k + 1 .. Len(s) : s[j] \in S
  BY <1>1, ElementOfSeq
<1>3. /\ d \in Seq(S)
      /\ Len(d) = IF k + 1 <= Len(s) THEN Len(s) - (k + 1) + 1 ELSE 0
      /\ \A j \in 1 .. Len(s) - (k + 1) + 1 : d[j] = s[(k + 1) + j - 1]
  BY <1>1, <1>2, SubSeqProperties
<1>4. Len(d) = Len(s) - k
  BY <1>1, <1>3
<1>5. \A j \in 1 .. Len(s) - k : d[j] = s[k + j]
  <2> TAKE j \in 1 .. Len(s) - k
  <2>1. j \in 1 .. Len(s) - (k + 1) + 1 /\ (k + 1) + j - 1 = k + j
    BY <1>1
  <2> QED
    BY <1>3, <2>1
<1>6. DOMAIN d = 1 .. Len(d)
  BY <1>3, LenProperties
<1> QED
  BY <1>3, <1>4, <1>5, <1>6

\* A sequence with another first element.
LEMMA NewHead ==
    ASSUME NEW S, NEW s \in Seq(S), s # <<>>, NEW x \in S
    PROVE  LET d == <<x>> \o Tail(s) IN
           /\ d \in Seq(S) /\ Len(d) = Len(s) /\ DOMAIN d = DOMAIN s /\ d[1] = x
           /\ \A j \in DOMAIN s : j > 1 => d[j] = s[j]
<1> DEFINE d == <<x>> \o Tail(s)
<1>1. /\ Tail(s) \in Seq(S) /\ Len(Tail(s)) = Len(s) - 1
      /\ \A j \in 1 .. Len(Tail(s)) : Tail(s)[j] = s[j + 1]
  BY HeadTailProperties
<1>2. Len(s) \in Nat \ {0} /\ DOMAIN s = 1 .. Len(s)
  BY EmptySeq, LenProperties
<1>3. <<x>> \in Seq(S) /\ Len(<<x>>) = 1
  OBVIOUS
<1>4. /\ d \in Seq(S) /\ Len(d) = 1 + Len(Tail(s))
      /\ \A j \in 1 .. 1 + Len(Tail(s)) : d[j] = IF j <= 1 THEN <<x>>[j] ELSE Tail(s)[j - 1]
  BY <1>1, <1>3, ConcatProperties
<1>5. Len(d) = Len(s) /\ d[1] = x
  BY <1>1, <1>2, <1>4
<1>6. \A j \in DOMAIN s : j > 1 => d[j] = s[j]
  BY <1>1, <1>2, <1>4
<1>7. DOMAIN d = 1 .. Len(d)
  BY <1>4, LenProperties
<1> QED
  BY <1>2, <1>4, <1>5, <1>6, <1>7

\* A line is put into the array after those that were read.
LEMMA Stored ==
    ASSUME Types, NEW line \in LineSet, Store(line), count < NumberLines
    PROVE  /\ commands' \in Seq(LineSet) /\ Len(commands') <= NumberLines
           /\ Len(commands') = IF count < Len(commands) THEN Len(commands) ELSE Len(commands) + 1
           /\ count' = count + 1 /\ count' \in 1 .. Len(commands') /\ first' = line.first
           /\ commands'[count + 1] = line
           /\ \A k \in 1 .. count : commands'[k] = commands[k]
<1>1. commands \in Seq(LineSet) /\ Len(commands) \in Nat /\ count \in 0 .. Len(commands)
  BY LenProperties DEF Types
<1>2. CASE count < Len(commands)
  <2>1. count + 1 \in 1 .. Len(commands)
    BY <1>1, <1>2
  <2>2. commands' = [commands EXCEPT ![count + 1] = line]
    BY <1>2 DEF Store
  <2> QED
    BY <1>1, <1>2, <2>1, <2>2, ExceptSeq DEF Store, Types
<1>3. CASE ~(count < Len(commands))
  <2>1. count = Len(commands) /\ commands' = Append(commands, line)
    BY <1>1, <1>3 DEF Store
  <2>2. Append(commands, line) \in Seq(LineSet) /\ Len(Append(commands, line)) = Len(commands) + 1
    BY <1>1, AppendProperties
  <2>3. /\ \A k \in 1 .. Len(commands) : Append(commands, line)[k] = commands[k]
        /\ Append(commands, line)[Len(commands) + 1] = line
    BY <1>1, AppendProperties
  <2> QED
    BY <1>1, <2>1, <2>2, <2>3, BoundsAssumption DEF Store
<1> QED
  BY <1>2, <1>3

\* The lines of a command that the client may write are lines.
LEMMA LineTypes ==
    /\ {CodeLine, QuitLine, EndLine} \subseteq LineSet
    /\ \A n \in Nat, p \in {"whole", "head", "tail"}, f \in Firsts :
          Line(n, p, f) \in LineSet /\ Line(n, p, f).n = n /\ Line(n, p, f).part = p
          /\ Line(n, p, f).first = f
    /\ CodeLine.n = 0 /\ CodeLine.part = "whole" /\ CodeLine.first = "text"
    /\ QuitLine.n = 0 /\ QuitLine.part = "whole" /\ QuitLine.first = "bang"
    /\ EndLine.n = 0 /\ EndLine.part = "whole" /\ EndLine.first = "empty"
  BY DEF LineSet, Line, CodeLine, QuitLine, EndLine, Firsts

\* What a read of the server takes: the line, or lines, at the front, or the
\* first part of one whose other part stays.
WholeRead(line) ==
    /\ line = toServer[1]
    /\ \E k \in DOMAIN toServer :
          /\ toServer' = SubSeq(toServer, k + 1, Len(toServer))
          /\ k > 1 => "joined" \in happened'
PartRead(line) ==
    /\ toServer[1].part = "whole" /\ toServer[1].first # "empty"
    /\ line.n = toServer[1].n /\ line.part = "head" /\ line.first = toServer[1].first
    /\ \E f \in {"text", "empty"} : toServer' = <<Line(line.n, "tail", f)>> \o Tail(toServer)
    /\ "split" \in happened'

LEMMA ReadOne ==
    ASSUME Types, toServer # <<>>, NEW line \in Received, Receive(line)
    PROVE  /\ line \in LineSet /\ toServer' \in Seq(LineSet)
           /\ happened \subseteq happened' /\ happened' \subseteq Mishaps \cup {"left"}
           /\ WholeRead(line) \/ PartRead(line)
<1>1. /\ toServer \in Seq(LineSet) /\ Head(toServer) = toServer[1] /\ toServer[1] \in LineSet
      /\ happened \subseteq Mishaps \cup {"left"}
  BY EmptySeq, HeadTailProperties DEF Types
<1>2. line \in LineSet
  BY <1>1 DEF Received, LineSet
<1>3. CASE \E k \in DOMAIN toServer :
              /\ line = Head(toServer)
              /\ toServer' = SubSeq(toServer, k + 1, Len(toServer))
              /\ Only(k > 1, "joined")
  <2>1. PICK k \in DOMAIN toServer :
              /\ line = Head(toServer)
              /\ toServer' = SubSeq(toServer, k + 1, Len(toServer))
              /\ Only(k > 1, "joined")
    BY <1>3
  <2>2. toServer' \in Seq(LineSet)
    BY <1>1, <2>1, Dropped
  <2>3. /\ happened \subseteq happened' /\ happened' \subseteq Mishaps \cup {"left"}
        /\ k > 1 => "joined" \in happened'
    BY <1>1, <2>1 DEF Only, Happens, NoMishap
  <2> QED
    BY <1>1, <1>2, <2>1, <2>2, <2>3 DEF WholeRead
<1>4. CASE /\ Head(toServer).part = "whole"
           /\ Head(toServer).first # "empty"
           /\ line = [Head(toServer) EXCEPT !.part = "head"]
           /\ \E f \in {"text", "empty"} :
                 toServer' = <<Line(line.n, "tail", f)>> \o Tail(toServer)
           /\ Happens("split")
  <2>1. PICK f \in {"text", "empty"} : toServer' = <<Line(line.n, "tail", f)>> \o Tail(toServer)
    BY <1>4
  <2>2. line.n = toServer[1].n /\ line.part = "head" /\ line.first = toServer[1].first
    BY <1>1, <1>4 DEF LineSet
  <2>3. Line(line.n, "tail", f) \in LineSet
    BY <1>2 DEF Line, LineSet, Firsts
  <2>4. toServer' \in Seq(LineSet)
    BY <1>1, <2>1, <2>3, NewHead
  <2>5. happened \subseteq happened' /\ happened' \subseteq Mishaps \cup {"left"} /\ "split" \in happened'
    BY <1>1, <1>4 DEF Happens
  <2> QED
    BY <1>1, <1>2, <1>4, <2>1, <2>2, <2>4, <2>5 DEF PartRead
<1> QED
  BY <1>3, <1>4 DEF Receive

\* A time-out makes "!" of the first line.
LEMMA GaveUp ==
    ASSUME Types, GiveUp
    PROVE  /\ commands' \in Seq(LineSet) /\ commands' # <<>> /\ commands'[1].first = "bang"
           /\ Len(commands') = IF commands = <<>> THEN 1 ELSE Len(commands)
           /\ count' = count /\ first' = "bang"
           /\ \A k \in DOMAIN commands :
                 /\ commands'[k].n = commands[k].n /\ commands'[k].part = commands[k].part
                 /\ k > 1 => commands'[k] = commands[k]
<1>1. CASE commands = <<>>
  <2>1. commands' = <<QuitLine>>
    BY <1>1 DEF GiveUp
  <2> QED
    BY <1>1, <2>1, LineTypes DEF GiveUp
<1>2. CASE commands # <<>>
  <2> DEFINE l == [commands[1] EXCEPT !.first = "bang"]
  <2>1. commands \in Seq(LineSet)
    BY DEF Types
  <2>2. Len(commands) \in Nat \ {0} /\ 1 \in 1 .. Len(commands) /\ DOMAIN commands = 1 .. Len(commands)
    BY <1>2, <2>1, EmptySeq, LenProperties
  <2>3. commands[1] \in LineSet
    BY <2>1, <2>2, ElementOfSeq
  <2>4. l \in LineSet /\ l.first = "bang" /\ l.n = commands[1].n /\ l.part = commands[1].part
    BY <2>3 DEF LineSet, Firsts
  <2>5. commands' = [commands EXCEPT ![1] = l]
    BY <1>2 DEF GiveUp
  <2> HIDE DEF l
  <2>6. /\ commands' \in Seq(LineSet) /\ Len(commands') = Len(commands)
        /\ \A k \in 1 .. Len(commands) : commands'[k] = IF k = 1 THEN l ELSE commands[k]
    BY <2>1, <2>2, <2>4, <2>5, ExceptSeq
  <2>7. commands' # <<>>
    BY <2>2, <2>6
  <2> QED
    BY <1>2, <2>2, <2>4, <2>6, <2>7 DEF GiveUp
<1> QED
  BY <1>1, <1>2

\* What a write of the client does.
LEMMA Wrote ==
    ASSUME Types, NEW line \in LineSet, NEW next \in ClientAt, Write(line, next)
    PROVE  /\ toServer' \in Seq(LineSet) /\ cpc' \in {next, "killed"}
           /\ reset' \subseteq {"client", "server", "aborted"}
           /\ happened \subseteq happened' /\ happened' \subseteq Mishaps \cup {"left"}
           /\ "server" \in conn =>
                 cpc' = next /\ toServer' = Append(toServer, line) /\ UNCHANGED <<reset, happened>>
           /\ "server" \notin conn => toServer' = toServer
<1>1. CASE "server" \in conn
  <2>1. Append(toServer, line) \in Seq(LineSet)
    BY AppendProperties DEF Types
  <2> QED
    BY <1>1, <2>1 DEF Types, Write
<1>2. CASE "server" \notin conn
  <2>1. toServer' = toServer /\ reset' = reset \cup {"client"} /\ cpc' \in {next, "killed"}
    BY <1>2 DEF Write
  <2>2. happened \subseteq happened' /\ happened' \subseteq Mishaps \cup {"left"}
    BY <1>2 DEF Types, Write, Happens, NoMishap
  <2> QED
    BY <1>2, <2>1, <2>2 DEF Types
<1> QED
  BY <1>1, <1>2

\* What a send of the server does.
LEMMA Sends ==
    ASSUME Types, NEW msgs \in Seq(Messages), NEW next \in ServerAt, Send(msgs, next)
    PROVE  /\ toClient' \in Seq(Messages) /\ spc' \in {next, "killed"}
           /\ conn' \subseteq conn /\ ("client" \in conn <=> "client" \in conn')
           /\ reset \subseteq reset' /\ reset' \subseteq reset \cup {"server"}
           /\ \/ spc' = next /\ conn' = conn
              \/ spc' = "killed" /\ conn' = conn \ {"server"}
           /\ "client" \in conn => toClient' = toClient \o msgs /\ spc' = next
           /\ "client" \notin conn => toClient' = toClient
<1>1. toClient \in Seq(Messages) /\ toClient \o msgs \in Seq(Messages)
  BY ConcatProperties DEF Types
<1>2. CASE "client" \in conn
  BY <1>1, <1>2 DEF Send
<1>3. CASE "client" \notin conn
  <2>1. toClient' = toClient /\ reset' = reset \cup {"server"}
    BY <1>3 DEF Send
  <2>2. \/ spc' = next /\ conn' = conn
        \/ spc' = "killed" /\ conn' = conn \ {"server"}
    BY <1>3 DEF Send
  <2> QED
    BY <1>1, <1>3, <2>1, <2>2
<1> QED
  BY <1>2, <1>3

\* What a read of the client does.
LEMMA ClientReads ==
    ASSUME Types, \/ \E k \in DOMAIN toClient : Take(k)
                  \/ TakePart
                  \/ UNCHANGED <<toClient, happened>>
    PROVE  /\ toClient' \in Seq(Messages)
           /\ happened \subseteq happened' /\ happened' \subseteq Mishaps \cup {"left"}
<1>1. ASSUME NEW k \in DOMAIN toClient, Take(k) PROVE toClient' \in Seq(Messages)
  BY <1>1, Dropped DEF Types, Take
<1>2. ASSUME TakePart PROVE toClient' \in Seq(Messages)
  <2>1. "part" \in Messages
    BY DEF Messages
  <2>2. toClient # <<>> /\ toClient' = <<"part">> \o Tail(toClient) /\ toClient \in Seq(Messages)
    BY <1>2 DEF Types, TakePart
  <2>3. <<"part">> \o Tail(toClient) \in Seq(Messages)
    BY <2>1, <2>2, NewHead
  <2> QED
    BY <2>2, <2>3
<1>3. toClient' \in Seq(Messages)
  BY <1>1, <1>2 DEF Types
<1>4. happened \subseteq happened' /\ happened' \subseteq Mishaps \cup {"left"}
  BY DEF Types, Take, TakePart, Only, Happens, NoMishap
<1> QED
  BY <1>3, <1>4

\* A non-empty set of numbers has a least one.
LEMMA Least ==
    ASSUME NEW T, T \subseteq Nat, T # {} PROVE \E m \in T : \A n \in T : m <= n
<1> DEFINE R == {ss \in Nat \X Nat : ss[1] < ss[2]}
<1>1. IsWellFoundedOn(R, Nat)
  BY NatLessThanWellFounded, Zenon DEF OpToRel
<1>2. \A m, n \in Nat : m < n => <<m, n>> \in R
  OBVIOUS
<1> HIDE DEF R
<1>3. PICK m \in T : \A n \in T : ~(<<n, m>> \in R)
  BY <1>1, WFMin
<1>4. \A n \in T : ~(n < m)
  BY <1>2, <1>3
<1> QED
  BY <1>4

\* The lines of a command are those of the array up to the first empty one.
LEMMA ArgumentsAre ==
    ASSUME Types
    PROVE  \E m \in 0 .. Len(commands) :
              /\ Arguments \in Seq(LineSet) /\ Len(Arguments) = m
              /\ \A k \in 1 .. m : Arguments[k] = commands[k] /\ commands[k].first # "empty"
              /\ m < Len(commands) => commands[m + 1].first = "empty"
<1> DEFINE blank == {k \in DOMAIN commands : commands[k].first = "empty"}
           least == CHOOSE k \in blank : \A j \in blank : k <= j
<1>1. commands \in Seq(LineSet) /\ Len(commands) \in Nat /\ DOMAIN commands = 1 .. Len(commands)
  BY LenProperties DEF Types
<1>2. CASE blank = {}
  <2>1. Arguments = commands
    BY <1>2 DEF Arguments
  <2>2. \A k \in 1 .. Len(commands) : commands[k].first # "empty"
    BY <1>1, <1>2
  <2>3. Len(commands) \in 0 .. Len(commands) /\ ~(Len(commands) < Len(commands))
    BY <1>1
  <2> QED
    BY <1>1, <2>1, <2>2, <2>3
<1>3. CASE blank # {}
  <2>1. blank \subseteq Nat
    BY <1>1
  <2>2. \E k \in blank : \A j \in blank : k <= j
    BY <1>3, <2>1, Least
  <2>3. least \in blank /\ \A j \in blank : least <= j
    BY <2>2
  <2>4. Arguments = SubSeq(commands, 1, least - 1)
    BY <1>3 DEF Arguments
  <2> HIDE DEF least
  <2>5. least \in 1 .. Len(commands) /\ commands[least].first = "empty"
    BY <1>1, <2>3
  <2>6. \A k \in 1 .. least - 1 : commands[k] \in LineSet
    BY <1>1, <2>5, ElementOfSeq
  <2>7. /\ Arguments \in Seq(LineSet)
        /\ Len(Arguments) = IF 1 <= least - 1 THEN (least - 1) - 1 + 1 ELSE 0
        /\ \A k \in 1 .. (least - 1) - 1 + 1 : Arguments[k] = commands[1 + k - 1]
    BY <2>4, <2>5, <2>6, SubSeqProperties
  <2>8. \A k \in 1 .. least - 1 : commands[k].first # "empty"
    BY <1>1, <2>3, <2>5
  <2>9. \A k \in 1 .. least - 1 : Arguments[k] = commands[k]
    BY <2>5, <2>7
  <2>10. least - 1 \in 0 .. Len(commands) /\ Len(Arguments) = least - 1 /\ (least - 1) + 1 = least
    BY <1>1, <2>5, <2>7
  <2> QED
    BY <2>5, <2>7, <2>8, <2>9, <2>10
<1> QED
  BY <1>2, <1>3

-----------------------------------------------------------------------------
(* Types, and what the two ends know of each other.                        *)

\* The lines of a command.
LEMMA CommandLines ==
    ASSUME Types
    PROVE  /\ command.lines \in Seq(Firsts) /\ Len(command.lines) \in Nat \ {0, 1}
           /\ \A k \in 1 .. Len(command.lines) : command.lines[k] \in Firsts
<1>1. command.lines \in Seq(Firsts) /\ Len(command.lines) > 1
  BY CommandsAssumption DEF Types
<1> QED
  BY <1>1, LenProperties, ElementOfSeq

LEMMA TypesStep == ASSUME Types, EndsInv, [Next]_vars PROVE Types'
<1> USE DEF asked, client, server, reader
<1>0. Len(command.lines) \in Nat \ {0, 1}
  BY CommandLines
<1>1. CASE Client \/ Stopped
  <2>1. CASE SendCode \/ FinishCommand
    <3>1. PICK line \in LineSet, next \in ClientAt : Write(line, next)
      BY <2>1, LineTypes DEF SendCode, FinishCommand, ClientAt
    <3>2. /\ toServer' \in Seq(LineSet) /\ cpc' \in ClientAt
          /\ reset' \subseteq {"client", "server", "aborted"}
          /\ happened' \subseteq Mishaps \cup {"left"}
      BY <3>1, Wrote DEF ClientAt
    <3>3. UNCHANGED <<asked, written, server, toClient, conn, updates>>
      BY <2>1 DEF SendCode, FinishCommand
    <3> QED
      BY <3>2, <3>3 DEF Types
  <2>2. CASE WriteLine
    <3>1. written + 1 \in 1 .. Len(command.lines)
      BY <1>0, <2>2 DEF WriteLine, EndsInv, Types
    <3>2. PICK line \in LineSet, next \in ClientAt : Write(line, next)
      BY <2>2, <3>1, CommandLines, LineTypes DEF WriteLine, ClientAt
    <3>3. /\ toServer' \in Seq(LineSet) /\ cpc' \in ClientAt
          /\ reset' \subseteq {"client", "server", "aborted"}
          /\ happened' \subseteq Mishaps \cup {"left"}
      BY <3>2, Wrote DEF ClientAt
    <3>4. UNCHANGED <<asked, server, toClient, conn, updates>> /\ written' = written + 1
      BY <2>2 DEF WriteLine
    <3>5. written' \in 0 .. Len(command.lines)
      BY <1>0, <3>1, <3>4
    <3> QED
      BY <3>3, <3>4, <3>5 DEF Types
  <2>3. CASE AwaitReady \/ ReadAnswer \/ ReadDownload
    <3>1. \/ \E k \in DOMAIN toClient : Take(k)
          \/ TakePart
          \/ UNCHANGED <<toClient, happened>>
      BY <2>3 DEF AwaitReady, ReadAnswer, ReadDownload
    <3>2. toClient' \in Seq(Messages) /\ happened' \subseteq Mishaps \cup {"left"}
      BY <3>1, ClientReads
    <3>3. cpc' \in ClientAt
      BY <2>3 DEF AwaitReady, ReadAnswer, ReadDownload, Answered, ClientAt
    <3>4. UNCHANGED <<asked, written, server, toServer, conn, reset, updates>>
      BY <2>3 DEF AwaitReady, ReadAnswer, ReadDownload
    <3> QED
      BY <3>2, <3>3, <3>4 DEF Types
  <2>4. CASE ReadError \/ DownloadTimeout \/ Stopped
    <3>1. cpc' \in ClientAt /\ conn' \subseteq conn
      BY <2>4 DEF ReadError, DownloadTimeout, Stopped, ClientAt
    <3>2. happened' \subseteq Mishaps \cup {"left"}
      BY <2>4 DEF ReadError, DownloadTimeout, Stopped, Only, Happens, NoMishap, Types
    <3>3. UNCHANGED <<asked, written, server, toServer, toClient, reset, updates>>
      BY <2>4 DEF ReadError, DownloadTimeout, Stopped
    <3> QED
      BY <3>1, <3>2, <3>3 DEF Types
  <2>5. CASE Quit
    <3>1. toServer' \in Seq(LineSet)
      <4>1. Append(toServer, QuitLine) \in Seq(LineSet)
        BY LineTypes, AppendProperties DEF Types
      <4> QED
        BY <2>5, <4>1 DEF Quit, Types
    <3>2. cpc' \in ClientAt /\ conn' \subseteq conn /\ happened' \subseteq happened \cup {"left"}
      BY <2>5 DEF Quit, ClientAt
    <3>3. UNCHANGED <<asked, written, server, toClient, reset, updates>>
      BY <2>5 DEF Quit
    <3> QED
      BY <3>1, <3>2, <3>3 DEF Types
  <2> QED
    BY <1>1, <2>1, <2>2, <2>3, <2>4, <2>5 DEF Client
<1>2. CASE ReadCode \/ NoCode \/ Welcome \/ Ready \/ Update
  <2>1. \/ \E msgs \in Seq(Messages), next \in ServerAt : Send(msgs, next)
        \/ /\ UNCHANGED <<toClient, reset>>
           /\ spc' \in {"about", "close", "killed"} /\ conn' \in {conn, {}}
    <3>1. {<<"incorrect">>, <<"about", "devices">>, <<"ready">>, <<"update">>} \subseteq Seq(Messages)
      BY DEF Messages
    <3>2. {"close", "ready", "reading", spc} \subseteq ServerAt
      BY DEF Types, ServerAt
    <3> QED
      BY <1>2, <3>1, <3>2 DEF ReadCode, NoCode, Welcome, Ready, Update, Refuse, Quiet
  <2>2. /\ toClient' \in Seq(Messages) /\ spc' \in ServerAt /\ conn' \subseteq {"client", "server"}
        /\ reset' \subseteq {"client", "server", "aborted"}
    BY <2>1, Sends DEF Types, ServerAt
  <2>3. toServer' \in Seq(LineSet) /\ happened' \subseteq Mishaps \cup {"left"}
    <3>1. CASE ReadCode
      BY <3>1, ReadOne DEF ReadCode
    <3>2. CASE ~ReadCode
      BY <1>2, <3>2 DEF NoCode, Welcome, Ready, Update, Happens, NoMishap, Types
    <3> QED
      BY <3>1, <3>2
  <2>4. count' \in {0, count} /\ updates' \in 0 .. MaxUpdates
    BY <1>2, BoundsAssumption DEF ReadCode, NoCode, Welcome, Ready, Update, Types
  <2>5. UNCHANGED <<asked, client, commands, first, replies, executed>>
    BY <1>2 DEF ReadCode, NoCode, Welcome, Ready, Update
  <2>6. count' \in 0 .. Len(commands)
    BY <2>4, LenProperties DEF Types
  <2> QED
    BY <2>2, <2>3, <2>4, <2>5, <2>6 DEF Types
<1>3. CASE ReadLine
  <2>1. PICK line \in Received : Receive(line) /\ Store(line)
    BY <1>3 DEF ReadLine
  <2>2. line \in LineSet /\ toServer' \in Seq(LineSet) /\ happened' \subseteq Mishaps \cup {"left"}
    BY <1>3, <2>1, ReadOne DEF ReadLine
  <2>3. /\ commands' \in Seq(LineSet) /\ Len(commands') <= NumberLines
        /\ count' \in 1 .. Len(commands') /\ first' = line.first
    BY <1>3, <2>1, <2>2, Stored DEF ReadLine, MoreLines
  <2>4. count' \in 0 .. Len(commands') /\ first' \in Firsts
    BY <2>2, <2>3 DEF LineSet
  <2>5. UNCHANGED <<asked, client, spc, replies, executed, toClient, conn, reset, updates>>
    BY <1>3 DEF ReadLine
  <2> QED
    BY <2>2, <2>3, <2>4, <2>5 DEF Types
<1>4. CASE ReadNothing
  <2>1. UNCHANGED <<asked, client, spc, replies, executed, toServer, toClient, conn, reset, updates>>
    BY <1>4 DEF ReadNothing
  <2>2. CASE HungUp
    <3>1. /\ commands' \in Seq(LineSet) /\ Len(commands') <= NumberLines
          /\ count' \in 1 .. Len(commands') /\ first' = EndLine.first
      BY <1>4, <2>2, LineTypes, Stored DEF ReadNothing, MoreLines, HungUp
    <3>2. count' \in 0 .. Len(commands') /\ first' \in Firsts /\ happened' = happened
      BY <2>2, <3>1, LineTypes DEF Firsts, HungUp, NoMishap
    <3> QED
      BY <2>1, <3>1, <3>2 DEF Types
  <2>3. CASE GiveUp /\ Only(~ClientBlocked, "slow")
    <3>1. /\ commands' \in Seq(LineSet) /\ Len(commands') <= NumberLines
          /\ Len(commands') >= Len(commands) /\ Len(commands') \in Nat
      <4>1. commands' \in Seq(LineSet) /\ Len(commands') = IF commands = <<>> THEN 1 ELSE Len(commands)
        BY <2>3, GaveUp
      <4>2. Len(commands) \in Nat /\ Len(commands) <= NumberLines /\ (commands = <<>> => Len(commands) = 0)
        BY LenProperties DEF Types
      <4> QED
        BY <4>1, <4>2, BoundsAssumption
    <3>2. count' = count /\ first' \in Firsts
      BY <2>3 DEF GiveUp, Firsts
    <3>3. happened' \subseteq Mishaps \cup {"left"}
      BY <2>3 DEF Only, Happens, NoMishap, Types
    <3>4. count' \in 0 .. Len(commands')
      BY <3>1, <3>2, LenProperties DEF Types
    <3> QED
      BY <2>1, <3>1, <3>2, <3>3, <3>4 DEF Types
  <2> QED
    BY <1>4, <2>2, <2>3 DEF ReadNothing
<1>5. CASE Complete
  <2>1. UNCHANGED <<asked, client, commands, count, toServer, updates, happened>> /\ first' = "text"
    BY <1>5 DEF Complete, ClearBuffer
  <2>2. CASE Acceptable
    <3>1. /\ executed' = Append(executed, Arguments) /\ replies' \in Answers(Arguments)
          /\ Send(<<"accepted">>, "running")
      BY <1>5, <2>2 DEF Complete
    <3>2. executed' \in Seq(Seq(LineSet))
      BY <3>1, ArgumentsAre, AppendProperties DEF Types
    <3>3. replies' \in Seq(Messages)
      <4>1. [n \in 1 .. DataLines |-> "data"] \in Seq(Messages)
        BY BoundsAssumption DEF Messages
      <4>2. <<>> \in Seq(Messages) /\ <<"result">> \in Seq(Messages)
        BY DEF Messages
      <4> QED
        BY <3>1, <4>1, <4>2 DEF Answers
    <3>4. <<"accepted">> \in Seq(Messages) /\ "running" \in ServerAt
      BY DEF Messages, ServerAt
    <3>5. /\ toClient' \in Seq(Messages) /\ spc' \in ServerAt /\ conn' \subseteq conn
          /\ reset' \subseteq reset \cup {"server"}
      BY <3>1, <3>4, Sends DEF ServerAt
    <3> QED
      BY <2>1, <3>2, <3>3, <3>5 DEF Types, Firsts
  <2>3. CASE ~Acceptable
    <3>1. spc' \in {"close", "ready"} /\ UNCHANGED <<executed, replies, toClient, conn, reset>>
      BY <1>5, <2>3 DEF Complete, Quiet
    <3> QED
      BY <2>1, <3>1 DEF Types, Firsts, ServerAt
  <2> QED
    BY <2>2, <2>3
<1>6. CASE Reply
  <2>1. UNCHANGED <<asked, client, reader, executed, toServer, updates, happened>>
    BY <1>6 DEF Reply
  <2>2. CASE NoneLeft
    BY <1>6, <2>1, <2>2 DEF Reply, Quiet, Types, ServerAt
  <2>3. CASE ~NoneLeft
    <3>1. replies # <<>> /\ Send(<<Head(replies)>>, "running") /\ replies' = Tail(replies)
      BY <1>6, <2>3 DEF Reply, NoneLeft
    <3>2. <<Head(replies)>> \in Seq(Messages) /\ Tail(replies) \in Seq(Messages)
      BY <3>1, HeadTailProperties DEF Types
    <3>3. /\ toClient' \in Seq(Messages) /\ spc' \in {"running", "killed"} /\ conn' \subseteq conn
          /\ reset' \subseteq reset \cup {"server"}
      BY <3>1, <3>2, Sends DEF ServerAt
    <3> QED
      BY <2>1, <3>1, <3>2, <3>3 DEF Types, ServerAt
  <2> QED
    BY <2>2, <2>3
<1>7. CASE CloseSession
  BY <1>7 DEF CloseSession, Types, ServerAt
<1>8. CASE UNCHANGED vars
  BY <1>8 DEF vars, Types
<1> QED
  BY <1>1, <1>2, <1>3, <1>4, <1>5, <1>6, <1>7, <1>8 DEF Next, Server

\* What a step of the server does to the connection.
LEMMA ServerMoves ==
    ASSUME Types, EndsInv, Server \/ Update
    PROVE  /\ "client" \in conn <=> "client" \in conn'
           /\ "server" \in conn' <=> spc' \notin {"end", "killed"}
           /\ "server" \in conn /\ "aborted" \notin reset
           /\ "server" \in conn' => "aborted" \notin reset'
<1>1. "server" \in conn /\ "aborted" \notin reset /\ spc \notin {"end", "killed"}
  BY DEF Server, ReadCode, NoCode, Welcome, Ready, ReadLine, MoreLines, ReadNothing, Complete,
         Reply, CloseSession, Update, EndsInv
<1>2. CASE \E msgs \in Seq(Messages), next \in ServerAt \ {"end", "killed"} : Send(msgs, next)
  BY <1>1, <1>2, Sends
<1>3. CASE UNCHANGED <<conn, reset>> /\ spc' \notin {"end", "killed"}
  BY <1>1, <1>3
<1>4. CASE CloseSession
  BY <1>1, <1>4 DEF CloseSession
<1>5. CASE Update
  <2>1. CASE Send(<<"update">>, spc)
    <3>1. <<"update">> \in Seq(Messages) /\ spc \in ServerAt
      BY DEF Messages, Types
    <3> QED
      BY <1>1, <1>2, <2>1, <3>1
  <2>2. CASE "client" \notin conn /\ spc' = "killed" /\ conn' = {}
    BY <2>2, <1>1
  <2> QED
    BY <1>5, <2>1, <2>2 DEF Update
<1>6. CASE ReadLine \/ ReadNothing
  BY <1>1, <1>3, <1>6 DEF ReadLine, ReadNothing
<1>7. CASE ReadCode \/ NoCode \/ Welcome \/ Ready
  <2>1. {<<"incorrect">>, <<"about", "devices">>, <<"ready">>} \subseteq Seq(Messages)
    BY DEF Messages
  <2> QED
    BY <1>2, <1>3, <1>7, <2>1 DEF ReadCode, NoCode, Welcome, Ready, Refuse, Quiet, ServerAt
<1>8. CASE Complete \/ Reply
  <2>1. <<"accepted">> \in Seq(Messages) /\ (replies # <<>> => <<Head(replies)>> \in Seq(Messages))
    BY HeadTailProperties DEF Messages, Types
  <2> QED
    BY <1>2, <1>3, <1>8, <2>1 DEF Complete, Reply, NoneLeft, Quiet, ServerAt
<1> QED
  BY <1>4, <1>5, <1>6, <1>7, <1>8 DEF Server

LEMMA EndsStep == ASSUME Types, EndsInv, [Next]_vars PROVE EndsInv'
<1> USE DEF asked, client, server, reader
<1>0. Len(command.lines) \in Nat \ {0, 1} /\ written \in 0 .. Len(command.lines)
  BY CommandLines DEF Types
<1>1. CASE SendCode \/ FinishCommand
  <2>1. PICK line \in LineSet, next \in {"welcome", "first", "download", "answer"} : Write(line, next)
    BY <1>1, LineTypes DEF SendCode, FinishCommand
  <2>2. /\ cpc' \in {next, "killed"} /\ ("server" \in conn => cpc' = next /\ reset' = reset)
    BY <2>1, Wrote DEF ClientAt
  <2>3. UNCHANGED <<asked, written, server, conn>> /\ (cpc' = "welcome" => cpc = "code")
    BY <1>1, <2>2 DEF SendCode, FinishCommand, Write
  <2> QED
    BY <2>2, <2>3, <1>1 DEF EndsInv, SendCode, FinishCommand
<1>2. CASE WriteLine
  <2>1. written + 1 \in 1 .. Len(command.lines) /\ written' = written + 1
    BY <1>0, <1>2 DEF WriteLine, EndsInv
  <2>2. DEFINE next == IF written + 1 = Len(command.lines) THEN "finish" ELSE "lines"
  <2>3. PICK line \in LineSet : Write(line, next)
    BY <1>2, <2>1, CommandLines, LineTypes DEF WriteLine
  <2>4. /\ cpc' \in {next, "killed"} /\ ("server" \in conn => cpc' = next /\ reset' = reset)
    BY <2>3, Wrote DEF ClientAt
  <2>5. UNCHANGED <<asked, server, conn>> /\ cpc = "lines"
    BY <1>2 DEF WriteLine
  <2> QED
    BY <1>0, <2>1, <2>4, <2>5 DEF EndsInv
<1>3. CASE AwaitReady \/ ReadAnswer \/ ReadDownload
  <2>1. UNCHANGED <<asked, written, server, conn, reset>>
    BY <1>3 DEF AwaitReady, ReadAnswer, ReadDownload
  <2>2. \/ cpc = "welcome" /\ cpc' \in {"welcome", "quit", "lines", "spin"}
        \/ cpc \in {"first", "second", "answer"} /\ cpc' \in {"second", "answer", "quit"}
        \/ cpc = "download" /\ cpc' \in {"download", "quit", "spin"}
    BY <1>3 DEF AwaitReady, ReadAnswer, ReadDownload, Answered
  <2>3. cpc' = "spin" => "server" \notin conn
    BY <1>3, <2>2 DEF AwaitReady, ReadAnswer, ReadDownload, Answered, EndOfFile
  <2> QED
    BY <1>0, <2>1, <2>2, <2>3 DEF EndsInv
<1>4. CASE ReadError \/ DownloadTimeout \/ Stopped \/ Quit
  <2>1. UNCHANGED <<asked, written, server, reset>>
    BY <1>4 DEF ReadError, DownloadTimeout, Stopped, Quit
  <2>2. /\ cpc' \in {"end", "quit", "killed"} /\ conn' \in {conn, conn \ {"client"}}
        /\ (conn' = conn \/ cpc' \in {"end", "killed"})
    BY <1>4 DEF ReadError, DownloadTimeout, Stopped, Quit
  <2>3. cpc' = "killed" => cpc = "killed" \/ "server" \notin conn
    BY <1>4 DEF ReadError, DownloadTimeout, Stopped, Quit
  <2>4. cpc' = "quit" => cpc = "download" /\ conn' = conn
    BY <1>4 DEF ReadError, DownloadTimeout, Stopped, Quit
  <2> QED
    BY <2>1, <2>2, <2>3, <2>4 DEF EndsInv
<1>5. CASE Server \/ Update
  <2>1. UNCHANGED <<asked, client>>
    BY <1>5 DEF Server, ReadCode, NoCode, Welcome, Ready, ReadLine, ReadNothing, Complete,
                Reply, CloseSession, Update
  <2>2. /\ "client" \in conn <=> "client" \in conn'
        /\ "server" \in conn' <=> spc' \notin {"end", "killed"}
        /\ "server" \in conn' => "server" \in conn /\ "aborted" \notin reset'
    BY <1>5, ServerMoves
  <2> QED
    BY <2>1, <2>2 DEF EndsInv
<1>6. CASE UNCHANGED vars
  BY <1>6 DEF vars, EndsInv
<1> QED
  BY <1>1, <1>2, <1>3, <1>4, <1>5, <1>6 DEF Next, Client

\* The code, and the buffer.
LEMMA CodeStep == ASSUME Types, EndsInv, CodeInv, [Next]_vars PROVE CodeInv'
<1> USE DEF asked, client, server, reader
<1>1. CASE SendCode
  <2>1. spc' = spc /\ UNCHANGED <<codeOk, executed, toClient>> /\ cpc' \in {"welcome", "killed"}
    BY <1>1, LineTypes, Wrote DEF SendCode, ClientAt
  <2>2. spc = "code" => cpc' = "welcome" /\ toServer' = <<CodeLine>>
    <3>1. spc = "code" => "server" \in conn /\ toServer = <<>>
      BY <1>1 DEF EndsInv, CodeInv, SendCode
    <3> QED
      BY <1>1, <3>1, LineTypes, Wrote DEF SendCode, ClientAt
  <2> QED
    BY <2>1, <2>2 DEF CodeInv, Active
<1>2. CASE FinishCommand \/ WriteLine \/ ReadAnswer \/ ReadDownload \/ DownloadTimeout \/ Quit
  <2>1. spc # "code" /\ cpc # "code" /\ UNCHANGED <<spc, codeOk, executed>>
    BY <1>2 DEF FinishCommand, WriteLine, ReadAnswer, ReadDownload, DownloadTimeout, Quit, CodeInv
  <2>2. cpc' # "code"
    BY <1>2 DEF FinishCommand, WriteLine, ReadAnswer, ReadDownload, DownloadTimeout, Quit, Write,
                Answered
  <2> QED
    BY <2>1, <2>2 DEF CodeInv
<1>3. CASE AwaitReady
  <2>1. UNCHANGED <<spc, codeOk, executed, toServer>> /\ cpc' # "code" /\ cpc = "welcome"
    BY <1>3 DEF AwaitReady
  <2>2. ASSUME spc = "code"
        PROVE  cpc' = "welcome" /\ \A k \in DOMAIN toClient' : toClient'[k] \in {"update", "part"}
    <3>1. \A k \in DOMAIN toClient : toClient[k] \in {"update", "part"}
      BY <2>2 DEF CodeInv
    <3>2. CASE \E k \in DOMAIN toClient : Take(k) /\ (~Welcomed(k) => cpc' = "welcome")
      <4>1. PICK k \in DOMAIN toClient : Take(k) /\ (~Welcomed(k) => cpc' = "welcome")
        BY <3>2
      <4>2. 1 \in DOMAIN toClient
        BY <4>1, LenProperties DEF Types
      <4>3. ~Welcomed(k)
        BY <3>1, <4>2 DEF Welcomed, Alone
      <4>4. LET d == toClient' IN
            DOMAIN d = 1 .. Len(toClient) - k /\ \A j \in 1 .. Len(toClient) - k : d[j] = toClient[k + j]
        BY <4>1, Dropped DEF Take, Types
      <4>5. DOMAIN toClient = 1 .. Len(toClient) /\ Len(toClient) \in Nat
        BY LenProperties DEF Types
      <4>6. \A j \in 1 .. Len(toClient) - k : k + j \in DOMAIN toClient
        BY <4>1, <4>5
      <4> QED
        BY <3>1, <4>1, <4>3, <4>4, <4>6
    <3>3. CASE TakePart /\ UNCHANGED cpc
      <4>1. /\ DOMAIN toClient' = DOMAIN toClient /\ toClient'[1] = "part"
            /\ \A k \in DOMAIN toClient : k > 1 => toClient'[k] = toClient[k]
        <5>1. "part" \in Messages
          BY DEF Messages
        <5>2. toClient \in Seq(Messages)
          BY DEF Types
        <5>3. toClient # <<>> /\ toClient' = <<"part">> \o Tail(toClient)
          BY <3>3 DEF TakePart
        <5> QED
          BY <5>1, <5>2, <5>3, NewHead
      <4>2. \A k \in DOMAIN toClient : k = 1 \/ k > 1
        BY LenProperties DEF Types
      <4> QED
        BY <2>1, <3>1, <3>3, <4>1, <4>2
    <3>4. CASE EndOfFile
      BY <2>2, <3>4 DEF EndOfFile, EndsInv
    <3> QED
      BY <1>3, <3>2, <3>3, <3>4 DEF AwaitReady
  <2> QED
    BY <2>1, <2>2 DEF CodeInv, Active
<1>4. CASE ReadError \/ Stopped
  <2>1. UNCHANGED <<spc, codeOk, executed, toServer, toClient>> /\ cpc' \in {"end", "killed"}
    BY <1>4 DEF ReadError, Stopped
  <2>2. spc = "code" => cpc' = "end"
    BY <1>4 DEF ReadError, Stopped, EndsInv, CodeInv
  <2> QED
    BY <2>1, <2>2 DEF CodeInv, Active
<1>5. CASE ReadCode
  <2>1. UNCHANGED <<codeOk, cpc, executed>> /\ spc = "code" /\ spc' \in {"about", "close", "killed"}
    <3>1. <<"incorrect">> \in Seq(Messages) /\ "close" \in ServerAt
      BY DEF Messages, ServerAt
    <3>2. Refuse => spc' \in {"close", "killed"}
      BY <3>1, Sends DEF Refuse
    <3> QED
      BY <1>5, <3>2 DEF ReadCode
  <2>2. spc' = "about" => codeOk
    <3>1. <<"incorrect">> \in Seq(Messages) /\ "close" \in ServerAt
      BY DEF Messages, ServerAt
    <3>2. Refuse => spc' \in {"close", "killed"}
      BY <3>1, Sends DEF Refuse
    <3> QED
      BY <1>5, <3>2 DEF ReadCode
  <2>3. cpc # "code"
    BY <1>5 DEF ReadCode, CodeInv
  <2> QED
    BY <2>1, <2>2, <2>3 DEF CodeInv, Active
<1>6. CASE NoCode
  <2>1. UNCHANGED <<codeOk, cpc, executed, toServer>> /\ spc = "code" /\ spc' \in {"close", "killed"}
    <3>1. <<"incorrect">> \in Seq(Messages) /\ "close" \in ServerAt
      BY DEF Messages, ServerAt
    <3>2. Refuse => spc' \in {"close", "killed"}
      BY <3>1, Sends DEF Refuse
    <3> QED
      BY <1>6, <3>2 DEF NoCode
  <2> QED
    BY <2>1 DEF CodeInv, Active
<1>7. CASE Welcome \/ Ready \/ ReadLine \/ ReadNothing \/ Complete \/ Reply \/ CloseSession
  <2>1. UNCHANGED <<codeOk, cpc>> /\ spc # "code" /\ spc' # "code" /\ (cpc = "code" => toServer' = <<>>)
    <3>1. UNCHANGED <<codeOk, cpc>> /\ spc # "code" /\ (toServer = <<>> => UNCHANGED toServer)
      BY <1>7 DEF Welcome, Ready, ReadLine, MoreLines, ReadNothing, Complete, Reply, CloseSession
    <3>2. spc' # "code"
      BY <1>7 DEF Welcome, Ready, ReadLine, MoreLines, ReadNothing, Complete, Reply, CloseSession, Send
    <3> QED
      BY <3>1, <3>2 DEF CodeInv
  <2>2. (spc' \in Active \/ executed' # <<>>) => (spc \in Active \/ executed # <<>>)
    BY <1>7 DEF Welcome, Ready, ReadLine, MoreLines, ReadNothing, Complete, Reply, CloseSession, Active
  <2> QED
    BY <2>1, <2>2 DEF CodeInv
<1>8. CASE Update
  <2>1. UNCHANGED <<codeOk, cpc, executed, toServer>> /\ spc' \in {spc, "killed"}
    BY <1>8 DEF Update, Send
  <2>2. ASSUME spc = "code" PROVE \A k \in DOMAIN toClient' : toClient'[k] \in {"update", "part"}
    <3>1. \A k \in DOMAIN toClient : toClient[k] \in {"update", "part"}
      BY <2>2 DEF CodeInv
    <3>2. toClient' = toClient \/ toClient' = toClient \o <<"update">>
      BY <1>8 DEF Update, Send
    <3>3. toClient \in Seq(Messages) /\ <<"update">> \in Seq(Messages)
      BY DEF Types, Messages
    <3>4. CASE toClient' = toClient \o <<"update">>
      <4>1. /\ toClient' \in Seq(Messages) /\ Len(toClient') = Len(toClient) + 1
            /\ \A k \in 1 .. Len(toClient) + 1 : toClient'[k] =
                  IF k <= Len(toClient) THEN toClient[k] ELSE <<"update">>[k - Len(toClient)]
        BY <3>3, <3>4, ConcatProperties
      <4>2. /\ DOMAIN toClient' = 1 .. Len(toClient) + 1 /\ DOMAIN toClient = 1 .. Len(toClient)
            /\ Len(toClient) \in Nat
        BY <3>3, <4>1, LenProperties
      <4> QED
        BY <3>1, <4>1, <4>2
    <3> QED
      BY <3>1, <3>2, <3>4
  <2> QED
    BY <2>1, <2>2 DEF CodeInv, Active
<1>9. CASE UNCHANGED vars
  BY <1>9 DEF vars, CodeInv
<1> QED
  BY <1>1, <1>2, <1>3, <1>4, <1>5, <1>6, <1>7, <1>8, <1>9 DEF Next, Client, Server

\* The actions of the client leave the server alone.
LEMMA ClientApart == ASSUME Client \/ Stopped PROVE UNCHANGED <<server, asked>>
  BY DEF Client, SendCode, AwaitReady, ReadError, WriteLine, FinishCommand, ReadAnswer,
         ReadDownload, DownloadTimeout, Quit, Stopped

LEMMA BufferStep == ASSUME Types, BufferInv, [Next]_vars PROVE BufferInv'
<1> USE DEF asked, client, server, reader
<1>1. CASE Client \/ Stopped
  BY <1>1, ClientApart DEF BufferInv
<1>2. CASE ReadCode \/ NoCode \/ Welcome \/ Ready \/ Reply \/ CloseSession
  <2>1. first' = first /\ spc \notin {"reading", "killed"}
    BY <1>2 DEF ReadCode, NoCode, Welcome, Ready, Reply, CloseSession
  <2> QED
    BY <2>1 DEF BufferInv, Ending
<1>3. CASE Update
  <2>1. UNCHANGED reader /\ spc' \in {spc, "killed"}
    BY <1>3 DEF Update, Send
  <2> QED
    BY <2>1 DEF BufferInv
<1>4. CASE Complete
  BY <1>4 DEF Complete, ClearBuffer, BufferInv, Ending
<1>5. ASSUME NEW line \in LineSet, Store(line), MoreLines, spc' = spc PROVE BufferInv'
  <2>1. /\ commands' \in Seq(LineSet) /\ count' = count + 1 /\ count' \in 1 .. Len(commands')
        /\ first' = line.first /\ commands'[count + 1] = line
    BY <1>5, Stored DEF MoreLines
  <2>2. commands' # <<>> /\ count' > 0 /\ spc' = "reading"
    BY <1>5, <2>1 DEF MoreLines
  <2>3. commands'[count'].first = first'
    BY <2>1
  <2> QED
    BY <2>2, <2>3 DEF BufferInv
<1>6. CASE ReadLine
  BY <1>5, <1>6, ReadOne DEF ReadLine
<1>7. CASE ReadNothing
  <2>1. CASE HungUp
    BY <1>5, <1>7, <2>1, LineTypes DEF ReadNothing, HungUp
  <2>2. CASE GiveUp
    <3>1. commands' # <<>> /\ commands'[1].first = "bang" /\ first' = "bang" /\ spc' = "reading"
      BY <1>7, <2>2, GaveUp DEF ReadNothing, MoreLines
    <3> QED
      BY <3>1 DEF BufferInv
  <2> QED
    BY <1>7, <2>1, <2>2 DEF ReadNothing
<1>8. CASE UNCHANGED vars
  BY <1>8 DEF vars, BufferInv
<1> QED
  BY <1>1, <1>2, <1>3, <1>4, <1>6, <1>7, <1>8 DEF Next, Server

\* Types, ends, code and buffer, in every reachable state.
BasicInv == Types /\ EndsInv /\ CodeInv /\ BufferInv

LEMMA BasicHolds == Spec => []BasicInv
<1>1. Init => BasicInv
  <2> SUFFICES ASSUME Init PROVE BasicInv
    OBVIOUS
  <2>1. Types
    <3>1. Len(command.lines) \in Nat
      BY CommandsAssumption, LenProperties DEF Init
    <3> QED
      BY <3>1, BoundsAssumption DEF Init, Types, ClientAt, ServerAt, Firsts
  <2>2. EndsInv
    BY DEF Init, EndsInv
  <2>3. CodeInv
    BY DEF Init, CodeInv, Active
  <2>4. BufferInv
    BY DEF Init, BufferInv
  <2> QED
    BY <2>1, <2>2, <2>3, <2>4 DEF BasicInv
<1>2. BasicInv /\ [Next]_vars => BasicInv'
  BY TypesStep, EndsStep, CodeStep, BufferStep DEF BasicInv
<1> QED
  BY <1>1, <1>2, PTL DEF Spec

\* A client without the code has nothing run for it, whatever it sends and
\* however it is cut up on the way: manageConnection() reads a command only
\* after the code was accepted, and turns a client away that gave a wrong one.
THEOREM CodeRequired == Spec => []NothingWithoutCode
<1>1. BasicInv => NothingWithoutCode
  BY DEF BasicInv, CodeInv, NothingWithoutCode
<1> QED
  BY <1>1, BasicHolds, PTL

-----------------------------------------------------------------------------
(* The order of the lines.                                                 *)

\* Places are numbers; the second part of a line follows the first at once.
LEMMA Places ==
    ASSUME NEW n \in Nat, NEW line \in LineSet
    PROVE  /\ Place(n, line) \in Nat
           /\ line.part = "whole" => \E i \in Nat : Place(n, line) = 2 * i
           /\ line.part = "whole" /\ line.first # "empty" =>
                 /\ \A l \in LineSet : l.n = line.n /\ l.part = "head" /\ l.first = line.first =>
                       Place(n, l) = Place(n, line)
                 /\ \A f \in Firsts : Place(n, Line(line.n, "tail", f)) = Place(n, line) + 1
<1>1. line.n \in Nat /\ Rank(n, line) \in Nat
  BY DEF Rank, LineSet
<1>2. Place(n, line) \in Nat /\ (line.part = "whole" => Place(n, line) = 2 * Rank(n, line))
  BY <1>1 DEF Place
<1>3. ASSUME line.part = "whole", line.first # "empty", NEW l \in LineSet,
             l.n = line.n, l.part = "head", l.first = line.first
      PROVE  Place(n, l) = Place(n, line)
  BY <1>3 DEF Place, Rank
<1>4. ASSUME line.part = "whole", line.first # "empty", NEW f \in Firsts
      PROVE  Place(n, Line(line.n, "tail", f)) = Place(n, line) + 1
  <2>1. Rank(n, Line(line.n, "tail", f)) = Rank(n, line)
    BY <1>1, <1>4 DEF Rank, Line
  <2> QED
    BY <1>1, <1>2, <1>4, <2>1 DEF Place, Line
<1> QED
  BY <1>1, <1>2, <1>3, <1>4

\* The client never goes back.
LEMMA LatestGrows ==
    ASSUME Types, EndsInv, [Next]_vars
    PROVE  /\ Latest \in Nat /\ Latest' \in Nat /\ Latest <= Latest'
           /\ cpc # "code" => cpc' # "code"
<1> USE DEF asked, client, server, reader
<1>1. Len(command.lines) \in Nat \ {0, 1} /\ written \in 0 .. Len(command.lines)
  BY CommandLines DEF Types
<1>2. command' = command /\ written' \in 0 .. Len(command.lines) /\ written <= written'
  <2>1. command' = command /\ written' \in {written, written + 1}
    BY DEF Next, Client, SendCode, AwaitReady, ReadError, WriteLine, FinishCommand, ReadAnswer,
         ReadDownload, DownloadTimeout, Quit, Stopped, Server, ReadCode, NoCode, Welcome, Ready,
         ReadLine, ReadNothing, Complete, Reply, CloseSession, Update, vars
  <2>2. written' \in 0 .. Len(command.lines)
    BY <2>1, TypesStep DEF Types
  <2> QED
    BY <1>1, <2>1, <2>2
<1>3. /\ cpc \notin {"code", "welcome", "lines", "finish"}
            => cpc' \notin {"code", "welcome", "lines", "finish"}
      /\ cpc \in {"end", "killed"} => cpc' \in {"end", "killed"}
      /\ cpc # "code" => cpc' # "code"
  <2>1. CASE Client \/ Stopped
    BY <2>1 DEF Client, SendCode, AwaitReady, ReadError, WriteLine, FinishCommand, ReadAnswer,
                ReadDownload, DownloadTimeout, Quit, Stopped, Write, Answered
  <2>2. CASE Server \/ Update \/ UNCHANGED vars
    BY <2>2 DEF Server, ReadCode, NoCode, Welcome, Ready, ReadLine, ReadNothing, Complete, Reply,
                CloseSession, Update, vars
  <2> QED
    BY <2>1, <2>2 DEF Next
<1>4. PICK len \in Nat : len = Len(command.lines)
  BY <1>1
<1>5. /\ Latest = IF cpc \in {"code", "welcome", "lines", "finish"} THEN 2 * written + 1
                  ELSE IF cpc \in {"end", "killed"} THEN 2 * len + 5 ELSE 2 * len + 3
      /\ Latest' = IF cpc' \in {"code", "welcome", "lines", "finish"} THEN 2 * written' + 1
                   ELSE IF cpc' \in {"end", "killed"} THEN 2 * len + 5 ELSE 2 * len + 3
  BY <1>2, <1>4 DEF Latest
<1>6. written \in Nat /\ written' \in Nat /\ written <= written' /\ written' <= len
  BY <1>1, <1>2, <1>4
<1>7. Latest \in Nat /\ Latest' \in Nat
  <2>1. \A n \in Nat : 2 * n + 1 \in Nat /\ 2 * n + 3 \in Nat /\ 2 * n + 5 \in Nat
    OBVIOUS
  <2> QED
    BY <1>4, <1>5, <1>6, <2>1
<1>8. Latest <= Latest'
  BY <1>3, <1>4, <1>5, <1>6
<1> QED
  BY <1>3, <1>7, <1>8

\* The lines there are have places.
LEMMA PlacesKnown ==
    ASSUME Types
    PROVE  /\ Len(command.lines) \in Nat
           /\ \A k \in DOMAIN toServer : toServer[k] \in LineSet /\ Pos(toServer[k]) \in Nat
           /\ \A k \in Fresh : commands[k] \in LineSet /\ Pos(commands[k]) \in Nat
           /\ \A r \in DOMAIN executed : executed[r] \in Seq(LineSet)
                 /\ \A m \in DOMAIN executed[r] :
                       executed[r][m] \in LineSet /\ Pos(executed[r][m]) \in Nat
<1>1. Len(command.lines) \in Nat
  BY CommandLines
<1>2. /\ \A k \in DOMAIN toServer : toServer[k] \in LineSet
      /\ \A k \in Fresh : commands[k] \in LineSet
  BY LenProperties, ElementOfSeq DEF Types, Fresh
<1>3. \A r \in DOMAIN executed : executed[r] \in Seq(LineSet)
  BY LenProperties, ElementOfSeq DEF Types
<1>4. ASSUME NEW r \in DOMAIN executed, NEW m \in DOMAIN executed[r] PROVE executed[r][m] \in LineSet
  BY <1>3, LenProperties, ElementOfSeq
<1> QED
  BY <1>1, <1>2, <1>3, <1>4, Places DEF Pos

\* A step that neither brings a line nor takes one away.
LEMMA OrderKept ==
    ASSUME Types, OrderInv, RunInv, UNCHANGED <<command, executed>>,
           spc' \in Active => UNCHANGED toServer, Latest \in Nat, Latest' \in Nat, Latest <= Latest',
           spc' \in Active => spc \in Active, cpc # "code" => cpc' # "code",
           \A k \in Fresh' : k \in Fresh /\ commands'[k] = commands[k]
    PROVE  OrderInv' /\ RunInv'
<1>1. OrderInv'
  BY PlacesKnown DEF OrderInv, Pos
<1>2. RunInv'
  <2> SUFFICES ASSUME NEW r \in DOMAIN executed, Regular(executed[r]), NEW m \in DOMAIN executed[r]
               PROVE  /\ spc' \in Active =>
                            /\ Pos(executed[r][m]) <= Latest'
                            /\ \A k \in DOMAIN toServer : Pos(executed[r][m]) < Pos(toServer[k])
                            /\ \A k \in Fresh' : commands'[k].first = "text" =>
                                  Pos(executed[r][m]) < Pos(commands'[k])
                      /\ \A k \in DOMAIN executed[r] : m < k => Pos(executed[r][m]) < Pos(executed[r][k])
                      /\ \A s \in DOMAIN executed : r < s /\ Regular(executed[s]) =>
                            \A k \in DOMAIN executed[s] : Pos(executed[r][m]) < Pos(executed[s][k])
    BY DEF RunInv, Pos, Regular
  <2>1. Pos(executed[r][m]) \in Nat
    BY PlacesKnown
  <2> QED
    BY <2>1 DEF RunInv
<1> QED
  BY <1>1, <1>2

\* The client writes the next line.
LEMMA OrderWritten ==
    ASSUME Types, OrderInv, RunInv, spc \in Active, UNCHANGED <<command, server>>,
           NEW line \in LineSet, line.part = "whole", toServer' = Append(toServer, line),
           Latest \in Nat, Latest' \in Nat, Latest < Pos(line), Pos(line) <= Latest', cpc' # "code"
    PROVE  OrderInv' /\ RunInv'
<1> DEFINE n == Len(command.lines)
<1>1. /\ command' = command /\ spc' = spc /\ commands' = commands /\ executed' = executed
      /\ Fresh' = Fresh
  BY DEF server, reader, Fresh, Goodbye
<1>2. /\ n \in Nat /\ Place(n, line) \in Nat
      /\ \A k \in DOMAIN toServer : Place(n, toServer[k]) \in Nat
      /\ \A k \in Fresh : Place(n, commands[k]) \in Nat
  BY PlacesKnown, Places DEF Pos
<1>3. \A r \in DOMAIN executed : \A m \in DOMAIN executed[r] : Place(n, executed[r][m]) \in Nat
  BY PlacesKnown DEF Pos
<1>4. Latest < Place(n, line) /\ Place(n, line) <= Latest'
  BY DEF Pos
<1>5. PICK l \in Nat : /\ DOMAIN toServer = 1 .. l /\ DOMAIN toServer' = 1 .. l + 1
                       /\ \A k \in 1 .. l : toServer'[k] = toServer[k]
                       /\ toServer'[l + 1] = line
  <2>1. Len(toServer) \in Nat /\ toServer \in Seq(LineSet)
    BY LenProperties DEF Types
  <2> QED
    BY <2>1, AppendProperties, LenProperties
<1>6. \A k \in DOMAIN toServer' : k \in DOMAIN toServer \/ (k = l + 1 /\ k \notin DOMAIN toServer)
  BY <1>5
<1> HIDE DEF n
<1>7. OrderInv'
  <2>1. /\ \A k \in DOMAIN toServer :
              Place(n, toServer[k]) <= Latest /\ (k > 1 => toServer[k].part = "whole")
        /\ \A j, k \in DOMAIN toServer : j < k => Place(n, toServer[j]) < Place(n, toServer[k])
        /\ \A j \in Fresh :
              /\ Place(n, commands[j]) <= Latest
              /\ \A k \in DOMAIN toServer : Place(n, commands[j]) < Place(n, toServer[k])
        /\ \A j, k \in Fresh :
              j < k /\ commands[k].first = "text" => Place(n, commands[j]) < Place(n, commands[k])
    BY DEF OrderInv, Pos, n
  <2>2. \A k \in DOMAIN toServer' : Place(n, toServer'[k]) <= Latest' /\ (k > 1 => toServer'[k].part = "whole")
    BY <1>2, <1>4, <1>5, <1>6, <2>1
  <2>3. \A j, k \in DOMAIN toServer' : j < k => Place(n, toServer'[j]) < Place(n, toServer'[k])
    <3> TAKE j, k \in DOMAIN toServer'
    <3> HAVE j < k
    <3>1. j \in DOMAIN toServer /\ toServer'[j] = toServer[j]
      BY <1>5
    <3>2. CASE k \in DOMAIN toServer
      BY <1>5, <2>1, <3>1, <3>2
    <3>3. CASE toServer'[k] = line
      BY <1>2, <1>4, <2>1, <3>1, <3>3
    <3> QED
      BY <1>5, <1>6, <3>2, <3>3
  <2>4. \A j \in Fresh :
              /\ Place(n, commands[j]) <= Latest'
              /\ \A k \in DOMAIN toServer' : Place(n, commands[j]) < Place(n, toServer'[k])
    BY <1>2, <1>4, <1>5, <1>6, <2>1
  <2> QED
    BY <1>1, <2>1, <2>2, <2>3, <2>4 DEF OrderInv, Pos, n
<1>8. RunInv'
  <2>1. ASSUME NEW r \in DOMAIN executed, Regular(executed[r]), NEW m \in DOMAIN executed[r]
        PROVE  /\ Place(n, executed[r][m]) <= Latest'
               /\ \A k \in DOMAIN toServer' : Place(n, executed[r][m]) < Place(n, toServer'[k])
    <3>1. /\ Place(n, executed[r][m]) <= Latest
          /\ \A k \in DOMAIN toServer : Place(n, executed[r][m]) < Place(n, toServer[k])
      BY <2>1 DEF RunInv, Pos, n
    <3> QED
      BY <1>2, <1>3, <1>4, <1>5, <1>6, <3>1
  <2> QED
    BY <1>1, <2>1 DEF RunInv, Pos, n, Regular
<1> QED
  BY <1>7, <1>8

\* What a read takes was written before what it leaves.
LEMMA ReadOrder ==
    ASSUME Types, OrderInv, spc \in Active, toServer # <<>>, NEW line \in LineSet,
           WholeRead(line) \/ PartRead(line), toServer' \in Seq(LineSet)
    PROVE  /\ Pos(line) = Pos(toServer[1])
           /\ \A k \in DOMAIN toServer' :
                 /\ Pos(line) < Place(Len(command.lines), toServer'[k])
                 /\ Place(Len(command.lines), toServer'[k]) <= Latest
                 /\ k > 1 => toServer'[k].part = "whole"
           /\ \A j, k \in DOMAIN toServer' :
                 j < k => Place(Len(command.lines), toServer'[j]) < Place(Len(command.lines), toServer'[k])
<1> DEFINE n == Len(command.lines)
           P(l) == Place(n, l)
<1>1. n \in Nat /\ \A k \in DOMAIN toServer : toServer[k] \in LineSet /\ P(toServer[k]) \in Nat
  BY PlacesKnown DEF Pos
<1>2. /\ \A k \in DOMAIN toServer : P(toServer[k]) <= Latest /\ (k > 1 => toServer[k].part = "whole")
      /\ \A j, k \in DOMAIN toServer : j < k => P(toServer[j]) < P(toServer[k])
  BY DEF OrderInv, Pos
<1>3. /\ toServer \in Seq(LineSet) /\ Len(toServer) \in Nat \ {0} /\ DOMAIN toServer = 1 .. Len(toServer)
      /\ 1 \in DOMAIN toServer
  BY LenProperties, EmptySeq DEF Types
<1>4. Latest \in Nat
  <2>1. n \in Nat /\ written \in 0 .. n
    BY <1>1 DEF Types
  <2>2. \A i \in Nat : 2 * i + 1 \in Nat /\ 2 * i + 3 \in Nat /\ 2 * i + 5 \in Nat
    OBVIOUS
  <2> QED
    BY <2>1, <2>2 DEF Latest
<1> HIDE DEF n
<1>5. CASE WholeRead(line)
  <2>1. line = toServer[1]
    BY <1>5 DEF WholeRead
  <2>2. PICK i \in DOMAIN toServer : toServer' = SubSeq(toServer, i + 1, Len(toServer))
    BY <1>5 DEF WholeRead
  <2>3. /\ DOMAIN toServer' = 1 .. Len(toServer) - i
        /\ \A k \in 1 .. Len(toServer) - i : toServer'[k] = toServer[i + k]
    BY <1>3, <2>2, Dropped
  <2>4. \A k \in DOMAIN toServer' : i + k \in DOMAIN toServer /\ i + k > 1 /\ toServer'[k] = toServer[i + k]
    BY <1>3, <2>3
  <2>5. \A k \in DOMAIN toServer' :
           /\ P(line) < P(toServer'[k]) /\ P(toServer'[k]) <= Latest
           /\ k > 1 => toServer'[k].part = "whole"
    BY <1>2, <1>3, <2>1, <2>4
  <2>6. \A j, k \in DOMAIN toServer' : j < k => P(toServer'[j]) < P(toServer'[k])
    <3> TAKE j, k \in DOMAIN toServer'
    <3> HAVE j < k
    <3>1. i + j < i + k
      BY <1>3, <2>3
    <3> QED
      BY <1>2, <2>4, <3>1
  <2> QED
    BY <2>1, <2>5, <2>6 DEF n, Pos
<1>6. CASE PartRead(line)
  <2>1. /\ toServer[1].part = "whole" /\ toServer[1].first # "empty"
        /\ line.n = toServer[1].n /\ line.part = "head" /\ line.first = toServer[1].first
    BY <1>6 DEF PartRead
  <2>2. PICK f \in {"text", "empty"} : toServer' = <<Line(line.n, "tail", f)>> \o Tail(toServer)
    BY <1>6 DEF PartRead
  <2> DEFINE tail == Line(line.n, "tail", f)
  <2>3. tail \in LineSet /\ f \in Firsts
    BY <2>2, LineTypes DEF LineSet, Firsts
  <2>4. P(line) = P(toServer[1]) /\ P(tail) = P(toServer[1]) + 1
    <3>1. toServer[1] \in LineSet
      BY <1>1, <1>3
    <3>2. P(line) = P(toServer[1])
      BY <1>1, <2>1, <3>1, Places
    <3>3. P(Line(toServer[1].n, "tail", f)) = P(toServer[1]) + 1
      BY <1>1, <2>1, <2>3, <3>1, Places
    <3> QED
      BY <2>1, <3>2, <3>3
  <2> HIDE DEF tail
  <2>5. /\ DOMAIN toServer' = DOMAIN toServer /\ toServer'[1] = tail
        /\ \A k \in DOMAIN toServer : k > 1 => toServer'[k] = toServer[k]
    BY <1>3, <2>2, <2>3, NewHead DEF tail
  <2>6. \A k \in DOMAIN toServer : k > 1 => P(toServer'[k]) > P(tail)
    <3> TAKE k \in DOMAIN toServer
    <3> HAVE k > 1
    <3>1. P(toServer[1]) < P(toServer[k]) /\ toServer'[k] = toServer[k] /\ toServer[k].part = "whole"
      BY <1>2, <1>3, <2>5
    <3>2. PICK a \in Nat : P(toServer[1]) = 2 * a
      BY <1>1, <1>3, <2>1, Places
    <3>3. PICK b \in Nat : P(toServer[k]) = 2 * b
      BY <1>1, <3>1, Places
    <3>4. a < b
      BY <3>1, <3>2, <3>3
    <3> QED
      BY <2>4, <3>1, <3>2, <3>3, <3>4
  <2>7. P(tail) <= Latest
    <3>1. P(toServer[1]) <= Latest /\ P(toServer[1]) \in Nat
      BY <1>1, <1>2, <1>3
    <3>2. PICK a \in Nat : P(toServer[1]) = 2 * a
      BY <1>1, <1>3, <2>1, Places
    <3>3. \E b \in Nat : Latest = 2 * b + 1
      <4>1. n \in Nat /\ written \in Nat
        BY <1>1 DEF Types, n
      <4>2. 2 * n + 3 = 2 * (n + 1) + 1 /\ 2 * n + 5 = 2 * (n + 2) + 1
        BY <4>1
      <4>3. Latest \in {2 * written + 1, 2 * n + 5, 2 * n + 3}
        BY DEF Latest, n
      <4>4. {written, n + 1, n + 2} \subseteq Nat
        BY <4>1
      <4> QED
        BY <4>2, <4>3, <4>4
    <3>4. PICK b \in Nat : Latest = 2 * b + 1
      BY <3>3
    <3>5. a <= b
      BY <3>1, <3>2, <3>4
    <3> QED
      BY <2>4, <3>2, <3>4, <3>5
  <2>8. \A k \in DOMAIN toServer' :
           /\ P(line) < P(toServer'[k]) /\ P(toServer'[k]) <= Latest
           /\ k > 1 => toServer'[k].part = "whole"
    <3> TAKE k \in DOMAIN toServer'
    <3>1. CASE k = 1
      BY <1>1, <1>3, <2>4, <2>5, <2>7, <3>1
    <3>2. CASE k > 1
      BY <1>1, <1>2, <1>3, <2>4, <2>5, <3>2
    <3> QED
      BY <1>3, <2>5, <3>1, <3>2
  <2>9. \A j, k \in DOMAIN toServer' : j < k => P(toServer'[j]) < P(toServer'[k])
    <3> TAKE j, k \in DOMAIN toServer'
    <3> HAVE j < k
    <3>1. CASE j = 1
      BY <1>1, <1>3, <2>4, <2>5, <2>6, <3>1
    <3>2. CASE j > 1
      BY <1>2, <1>3, <2>5, <3>2
    <3> QED
      BY <1>3, <2>5, <3>1, <3>2
  <2> QED
    BY <2>4, <2>8, <2>9 DEF n, Pos
<1> QED
  BY <1>5, <1>6

\* The server has read the first line on its way, or the end of the stream.
LEMMA OrderStored ==
    ASSUME Types, OrderInv, RunInv, spc = "reading", UNCHANGED <<command, client, spc, executed>>,
           NEW line \in LineSet, Store(line), count < NumberLines, toServer' \in Seq(LineSet),
           NEW n \in Nat, n = Len(command.lines), Place(n, line) <= Latest,
           \A k \in DOMAIN toServer' :
                 /\ Place(n, line) < Place(n, toServer'[k]) /\ Place(n, toServer'[k]) <= Latest
                 /\ k > 1 => toServer'[k].part = "whole",
           \A j, k \in DOMAIN toServer' : j < k => Place(n, toServer'[j]) < Place(n, toServer'[k]),
           \/ 1 \in DOMAIN toServer /\ Place(n, line) = Place(n, toServer[1])
           \/ toServer' = <<>> /\ line.first = "empty"
    PROVE  OrderInv' /\ RunInv'
<1>1. /\ command' = command /\ spc' = "reading" /\ executed' = executed /\ Latest' = Latest
      /\ cpc' = cpc
  BY DEF client, Latest
<1>2. /\ \A k \in DOMAIN toServer : Place(n, toServer[k]) \in Nat
      /\ \A k \in Fresh : Place(n, commands[k]) \in Nat
      /\ \A r \in DOMAIN executed : \A m \in DOMAIN executed[r] : Place(n, executed[r][m]) \in Nat
  BY PlacesKnown DEF Pos
<1>3. Place(n, line) \in Nat /\ \A k \in DOMAIN toServer' : Place(n, toServer'[k]) \in Nat
  BY Places, LenProperties, ElementOfSeq
<1>4. \A k \in Fresh' : \/ k \in Fresh /\ k < count + 1 /\ commands'[k] = commands[k]
                        \/ k = count + 1 /\ commands'[k] = line
  <2>1. /\ count' = count + 1 /\ commands'[count + 1] = line /\ count \in Nat
        /\ \A k \in 1 .. count : commands'[k] = commands[k]
    BY Stored, LenProperties DEF Types
  <2> TAKE k \in Fresh'
  <2>2. k \in 1 .. count + 1 /\ ~(commands'[1].first \in {"bang", "empty"})
    BY <2>1 DEF Fresh, Goodbye
  <2>3. CASE k = count + 1
    BY <2>1, <2>3
  <2>4. CASE k \in 1 .. count
    <3>1. commands'[1] = commands[1] /\ commands'[k] = commands[k]
      BY <2>1, <2>4
    <3> QED
      BY <2>1, <2>2, <2>4, <3>1 DEF Fresh, Goodbye
  <2> QED
    BY <2>1, <2>2, <2>3, <2>4
<1>5. ASSUME NEW a \in Nat, \A k \in DOMAIN toServer : a < Place(n, toServer[k])
      PROVE  /\ \A k \in DOMAIN toServer' : a < Place(n, toServer'[k])
             /\ line.first = "text" => a < Place(n, line)
  BY <1>2, <1>3, <1>5
<1>6. OrderInv'
  <2>1. /\ \A j \in Fresh :
              /\ Place(n, commands[j]) <= Latest
              /\ \A k \in DOMAIN toServer : Place(n, commands[j]) < Place(n, toServer[k])
        /\ \A j, k \in Fresh :
              j < k /\ commands[k].first = "text" => Place(n, commands[j]) < Place(n, commands[k])
        /\ cpc # "code"
    BY DEF OrderInv, Pos, Active
  <2>2. \A j \in Fresh : /\ \A k \in DOMAIN toServer' : Place(n, commands[j]) < Place(n, toServer'[k])
                         /\ line.first = "text" => Place(n, commands[j]) < Place(n, line)
    BY <1>2, <1>5, <2>1
  <2>3. \A j \in Fresh' :
           /\ Place(n, commands'[j]) <= Latest
           /\ \A k \in DOMAIN toServer' : Place(n, commands'[j]) < Place(n, toServer'[k])
    BY <1>4, <2>1, <2>2
  <2>4. \A j, k \in Fresh' : j < k /\ commands'[k].first = "text" => Place(n, commands'[j]) < Place(n, commands'[k])
    <3> TAKE j, k \in Fresh'
    <3> HAVE j < k /\ commands'[k].first = "text"
    <3>1. count \in Nat /\ count' = count + 1
      BY LenProperties DEF Types, Store
    <3>2. j \in Int /\ k \in Int
      BY <3>1 DEF Fresh
    <3>3. k < count + 1 => j # count + 1
      BY <3>1, <3>2
    <3>4. k = count + 1 => j # count + 1
      BY <3>1, <3>2
    <3> QED
      BY <1>4, <2>1, <2>2, <3>3, <3>4
  <2> QED
    BY <1>1, <2>1, <2>3, <2>4 DEF OrderInv, Pos
<1>7. RunInv'
  <2>1. ASSUME NEW r \in DOMAIN executed, Regular(executed[r]), NEW m \in DOMAIN executed[r]
        PROVE  /\ Place(n, executed[r][m]) <= Latest
               /\ \A k \in DOMAIN toServer' : Place(n, executed[r][m]) < Place(n, toServer'[k])
               /\ \A k \in Fresh' :
                     commands'[k].first = "text" => Place(n, executed[r][m]) < Place(n, commands'[k])
    <3>1. /\ Place(n, executed[r][m]) <= Latest
          /\ \A k \in DOMAIN toServer : Place(n, executed[r][m]) < Place(n, toServer[k])
          /\ \A k \in Fresh :
                     commands[k].first = "text" => Place(n, executed[r][m]) < Place(n, commands[k])
      BY <2>1 DEF RunInv, Pos, Active
    <3>2. /\ \A k \in DOMAIN toServer' : Place(n, executed[r][m]) < Place(n, toServer'[k])
          /\ line.first = "text" => Place(n, executed[r][m]) < Place(n, line)
      BY <1>2, <1>5, <3>1
    <3> QED
      BY <1>4, <3>1, <3>2
  <2> QED
    BY <1>1, <2>1 DEF RunInv, Pos, Regular
<1> QED
  BY <1>6, <1>7

\* A command of plain lines is made of lines that were read for it.
LEMMA RunsFresh ==
    ASSUME Types, BufferInv, spc = "reading", ~MoreLines, ~Goodbye, Regular(Arguments)
    PROVE  \A k \in DOMAIN Arguments :
              k \in Fresh /\ Arguments[k] = commands[k] /\ commands[k].first = "text"
<1>1. PICK m \in 0 .. Len(commands) :
              /\ Arguments \in Seq(LineSet) /\ Len(Arguments) = m
              /\ \A k \in 1 .. m : Arguments[k] = commands[k] /\ commands[k].first # "empty"
              /\ m < Len(commands) => commands[m + 1].first = "empty"
  BY ArgumentsAre
<1>2. DOMAIN Arguments = 1 .. m /\ m \in Nat /\ count \in Nat /\ Len(commands) \in Nat
  BY <1>1, LenProperties DEF Types
<1>3. \A k \in 1 .. m : commands[k].first = "text"
  BY <1>1, <1>2 DEF Regular
<1>4. m <= count
  <2>1. CASE first \in Ending
    <3>1. count > 0 /\ commands[count].first # "text"
      BY <2>1 DEF BufferInv, Goodbye, Ending
    <3>2. count \notin 1 .. m
      BY <1>3, <3>1
    <3> QED
      BY <1>2, <3>1, <3>2
  <2>2. CASE first \notin Ending
    <3>1. count >= NumberLines /\ Len(commands) <= NumberLines
      BY <1>2, <2>2, BoundsAssumption DEF MoreLines, Types
    <3> QED
      BY <1>1, <1>2, <3>1, BoundsAssumption
  <2> QED
    BY <2>1, <2>2
<1> QED
  BY <1>1, <1>2, <1>3, <1>4 DEF Fresh

\* A command is run.
LEMMA OrderRun ==
    ASSUME Types, BufferInv, OrderInv, RunInv, Complete, Acceptable
    PROVE  OrderInv' /\ RunInv'
<1> DEFINE n == Len(command.lines)
<1>1. /\ UNCHANGED <<command, cpc, written, toServer, commands, count>>
      /\ executed' = Append(executed, Arguments)
      /\ spc = "reading" /\ spc' \in {"running", "killed"} /\ ~MoreLines /\ ~Goodbye
  <2>1. Send(<<"accepted">>, "running") /\ <<"accepted">> \in Seq(Messages) /\ "running" \in ServerAt
    BY DEF Complete, Messages, ServerAt
  <2>2. spc' \in {"running", "killed"}
    BY <2>1, Sends
  <2> QED
    BY <2>2 DEF Complete, Acceptable, asked, client
<1>2. Latest' = Latest /\ Fresh' = {}
  BY <1>1 DEF Latest, Fresh
<1>3. OrderInv'
  BY <1>1, <1>2 DEF OrderInv, Pos, Active
<1>4. PICK l \in Nat : /\ DOMAIN executed = 1 .. l /\ DOMAIN executed' = 1 .. l + 1
                       /\ \A r \in 1 .. l : executed'[r] = executed[r]
                       /\ executed'[l + 1] = Arguments
  <2>1. Len(executed) \in Nat /\ executed \in Seq(Seq(LineSet)) /\ Arguments \in Seq(LineSet)
    BY LenProperties, ArgumentsAre DEF Types
  <2> QED
    BY <1>1, <2>1, AppendProperties, LenProperties
<1>5. Regular(Arguments) => \A k \in DOMAIN Arguments :
              k \in Fresh /\ Arguments[k] = commands[k] /\ commands[k].first = "text"
  BY <1>1, RunsFresh
<1>6. DOMAIN Arguments \subseteq Int
  BY ArgumentsAre, LenProperties
<1>7. ASSUME NEW r \in 1 .. l, Regular(executed[r]), NEW m \in DOMAIN executed[r]
      PROVE  /\ Place(n, executed[r][m]) <= Latest
             /\ \A k \in DOMAIN toServer : Place(n, executed[r][m]) < Place(n, toServer[k])
             /\ \A k \in DOMAIN executed[r] : m < k => Place(n, executed[r][m]) < Place(n, executed[r][k])
             /\ \A s \in 1 .. l : r < s /\ Regular(executed[s]) =>
                   \A k \in DOMAIN executed[s] : Place(n, executed[r][m]) < Place(n, executed[s][k])
             /\ Regular(Arguments) =>
                   \A k \in DOMAIN Arguments : Place(n, executed[r][m]) < Place(n, Arguments[k])
  BY <1>1, <1>4, <1>5, <1>7 DEF RunInv, Pos, Active
<1>8. ASSUME Regular(Arguments), NEW m \in DOMAIN Arguments
      PROVE  /\ Place(n, Arguments[m]) <= Latest
             /\ \A k \in DOMAIN toServer : Place(n, Arguments[m]) < Place(n, toServer[k])
             /\ \A k \in DOMAIN Arguments : m < k => Place(n, Arguments[m]) < Place(n, Arguments[k])
  BY <1>1, <1>5, <1>8 DEF OrderInv, Pos, Active
<1> HIDE DEF n
<1>9. RunInv'
  <2> SUFFICES ASSUME NEW r \in 1 .. l + 1, Regular(executed'[r]), NEW m \in DOMAIN executed'[r]
               PROVE  /\ Place(n, executed'[r][m]) <= Latest
                      /\ \A k \in DOMAIN toServer : Place(n, executed'[r][m]) < Place(n, toServer[k])
                      /\ \A k \in DOMAIN executed'[r] :
                            m < k => Place(n, executed'[r][m]) < Place(n, executed'[r][k])
                      /\ \A s \in 1 .. l + 1 : r < s /\ Regular(executed'[s]) =>
                            \A k \in DOMAIN executed'[s] : Place(n, executed'[r][m]) < Place(n, executed'[s][k])
    BY <1>1, <1>2, <1>4 DEF RunInv, Pos, Regular, n
  <2>1. CASE r \in 1 .. l
    <3>1. executed'[r] = executed[r]
      BY <1>4, <2>1
    <3>2. \A s \in 1 .. l + 1 : (s \in 1 .. l /\ executed'[s] = executed[s]) \/ executed'[s] = Arguments
      BY <1>4
    <3> QED
      BY <1>7, <2>1, <3>1, <3>2
  <2>2. CASE r = l + 1
    <3>1. executed'[r] = Arguments /\ \A s \in 1 .. l + 1 : ~(r < s)
      BY <1>4, <2>2
    <3> QED
      BY <1>8, <3>1
  <2> QED
    BY <1>4, <2>1, <2>2
<1> QED
  BY <1>3, <1>9

\* No step breaks the order.
LEMMA OrderStep ==
    ASSUME BasicInv, OrderInv, RunInv, [Next]_vars PROVE OrderInv' /\ RunInv'
<1> USE DEF asked, client, server, reader
<1>0. /\ Types /\ EndsInv /\ CodeInv /\ BufferInv
      /\ Latest \in Nat /\ Latest' \in Nat /\ Latest <= Latest' /\ (cpc # "code" => cpc' # "code")
  BY LatestGrows DEF BasicInv
<1>1. PICK n \in Nat : n = Len(command.lines) /\ written \in 0 .. n
  BY <1>0, CommandLines DEF Types
<1>2. ASSUME UNCHANGED <<command, executed>>, spc' \in Active => spc \in Active /\ UNCHANGED toServer,
             \A k \in Fresh' : k \in Fresh /\ commands'[k] = commands[k]
      PROVE  OrderInv' /\ RunInv'
  BY <1>0, <1>2, OrderKept
<1>3. CASE WriteLine \/ FinishCommand \/ Quit
  <2>1. UNCHANGED <<command, server>> /\ Fresh' = Fresh
    BY <1>3, ClientApart DEF Client, Fresh, Goodbye
  <2>2. CASE spc \notin Active
    BY <1>2, <2>1, <2>2
  <2>3. ASSUME spc \in Active, NEW line \in LineSet, line.part = "whole",
               toServer' = Append(toServer, line), Latest < Place(n, line), Place(n, line) <= Latest'
        PROVE  OrderInv' /\ RunInv'
    <3>1. cpc # "code" /\ Latest < Pos(line) /\ Pos(line) <= Latest'
      BY <1>1, <2>3 DEF OrderInv, Pos
    <3> QED
      BY <1>0, <2>1, <2>3, <3>1, OrderWritten
  <2>4. CASE spc \in Active /\ WriteLine
    <3> DEFINE line == Line(written + 1, "whole", command.lines[written + 1])
    <3>1. "server" \in conn /\ cpc = "lines" /\ written + 1 \in 1 .. n /\ written' = written + 1
      BY <1>0, <1>1, <2>4 DEF WriteLine, EndsInv, Active
    <3>2. line \in LineSet /\ line.part = "whole" /\ line.n = written + 1
      <4>1. written + 1 \in Nat /\ command.lines[written + 1] \in Firsts
        BY <1>0, <1>1, <3>1, CommandLines
      <4> QED
        BY <4>1, LineTypes
    <3>3. toServer' = Append(toServer, line) /\ cpc' \in {"lines", "finish"}
      BY <2>4, <3>1 DEF WriteLine, Write
    <3>4. Place(n, line) = 2 * (written + 1) /\ Latest = 2 * written + 1 /\ Latest' = 2 * (written + 1) + 1
      <4>1. Rank(n, line) = written + 1
        BY <1>1, <3>2 DEF Rank
      <4>2. Place(n, line) = 2 * (written + 1)
        BY <1>1, <3>2, <4>1 DEF Place
      <4> QED
        BY <1>1, <3>1, <3>3, <4>2 DEF Latest
    <3> HIDE DEF line
    <3>5. Latest < Place(n, line) /\ Place(n, line) <= Latest'
      BY <1>1, <3>4
    <3> QED
      BY <2>3, <2>4, <3>2, <3>3, <3>5
  <2>5. CASE spc \in Active /\ FinishCommand
    <3>1. "server" \in conn /\ cpc = "finish" /\ written' = written
      BY <1>0, <2>5 DEF FinishCommand, EndsInv, Active
    <3>2. toServer' = Append(toServer, EndLine) /\ cpc' \in {"first", "download", "answer"}
      BY <2>5, <3>1 DEF FinishCommand, Write
    <3>3. Place(n, EndLine) = 2 * (n + 1) /\ Latest = 2 * written + 1 /\ Latest' = 2 * n + 3
      <4>1. Rank(n, EndLine) = n + 1
        BY LineTypes DEF Rank
      <4>2. Place(n, EndLine) = 2 * (n + 1)
        BY <1>1, <4>1, LineTypes DEF Place
      <4> QED
        BY <1>1, <2>1, <3>1, <3>2, <4>2 DEF Latest
    <3>4. Latest < Place(n, EndLine) /\ Place(n, EndLine) <= Latest'
      BY <1>1, <3>3
    <3> QED
      BY <2>3, <2>5, <3>2, <3>4, LineTypes
  <2>6. CASE spc \in Active /\ Quit
    <3>1. "server" \in conn /\ cpc = "quit"
      BY <1>0, <2>6 DEF Quit, EndsInv, Active
    <3>2. toServer' = Append(toServer, QuitLine) /\ cpc' = "end"
      BY <2>6, <3>1 DEF Quit
    <3>3. Place(n, QuitLine) = 2 * (n + 2) /\ Latest = 2 * n + 3 /\ Latest' = 2 * n + 5
      <4>1. Rank(n, QuitLine) = n + 2
        BY LineTypes DEF Rank
      <4>2. Place(n, QuitLine) = 2 * (n + 2)
        BY <1>1, <4>1, LineTypes DEF Place
      <4> QED
        BY <1>1, <2>1, <3>1, <3>2, <4>2 DEF Latest
    <3>4. Latest < Place(n, QuitLine) /\ Place(n, QuitLine) <= Latest'
      BY <1>1, <3>3
    <3> QED
      BY <2>3, <2>6, <3>2, <3>4, LineTypes
  <2> QED
    BY <1>3, <2>2, <2>4, <2>5, <2>6
<1>4. CASE SendCode
  <2>1. UNCHANGED <<command, server>> /\ Fresh' = Fresh /\ spc' \notin Active
    BY <1>4, ClientApart DEF Client, Fresh, Goodbye, OrderInv, SendCode
  <2> QED
    BY <1>2, <2>1
<1>5. CASE AwaitReady \/ ReadError \/ ReadAnswer \/ ReadDownload \/ DownloadTimeout \/ Stopped
  <2>1. UNCHANGED <<command, server>> /\ Fresh' = Fresh
    BY <1>5, ClientApart DEF Client, Fresh, Goodbye
  <2>2. toServer' = toServer
    BY <1>5 DEF AwaitReady, ReadError, ReadAnswer, ReadDownload, DownloadTimeout, Stopped
  <2> QED
    BY <1>2, <2>1, <2>2
<1>6. CASE ReadCode \/ NoCode
  <2>1. UNCHANGED <<command, executed, cpc>> /\ spc = "code" /\ executed = <<>>
    BY <1>0, <1>6 DEF ReadCode, NoCode, CodeInv
  <2>2. RunInv'
    BY <2>1 DEF RunInv
  <2>3. spc' = "about" => toServer' = <<>> /\ cpc # "code"
    <3>1. <<"incorrect">> \in Seq(Messages) /\ "close" \in ServerAt
      BY DEF Messages, ServerAt
    <3>2. Refuse => spc' \in {"close", "killed"}
      BY <1>0, <3>1, Sends DEF Refuse
    <3> SUFFICES ASSUME spc' = "about" PROVE toServer' = <<>> /\ cpc # "code"
      OBVIOUS
    <3>3. toServer # <<>> /\ \E line \in Received : Receive(line) /\ line = CodeLine
      BY <1>6, <3>2 DEF ReadCode, NoCode
    <3>4. toServer = <<CodeLine>> /\ cpc # "code"
      BY <1>0, <2>1, <3>3 DEF CodeInv
    <3>5. WholeRead(CodeLine)
      <4>1. CodeLine \in Received /\ Receive(CodeLine)
        BY <3>3
      <4>2. WholeRead(CodeLine) \/ PartRead(CodeLine)
        BY <1>0, <3>3, <4>1, ReadOne
      <4>3. ~PartRead(CodeLine)
        BY LineTypes DEF PartRead
      <4> QED
        BY <4>2, <4>3
    <3>6. PICK k \in DOMAIN toServer : toServer' = SubSeq(toServer, k + 1, Len(toServer))
      BY <3>5 DEF WholeRead
    <3>7. toServer \in Seq(LineSet) /\ Len(toServer) = 1 /\ k = 1
      BY <1>0, <3>4, <3>6, LenProperties DEF Types
    <3>8. toServer' \in Seq(LineSet) /\ Len(toServer') = 0
      BY <3>6, <3>7, Dropped
    <3> QED
      BY <3>4, <3>8, EmptySeq
  <2>4. spc' \in {"about", "close", "killed"}
    <3>1. <<"incorrect">> \in Seq(Messages) /\ "close" \in ServerAt
      BY DEF Messages, ServerAt
    <3>2. Refuse => spc' \in {"close", "killed"}
      BY <1>0, <3>1, Sends DEF Refuse
    <3> QED
      BY <1>6, <3>2 DEF ReadCode, NoCode
  <2>5. OrderInv'
    BY <2>1, <2>3, <2>4 DEF OrderInv, Fresh, Active
  <2> QED
    BY <2>2, <2>5
<1>7. CASE Welcome \/ Ready \/ Reply \/ CloseSession \/ Update
  <2>1. /\ UNCHANGED <<command, executed, toServer, commands>>
        /\ spc' \in Active => spc \in Active
    BY <1>7 DEF Welcome, Ready, Reply, CloseSession, Update, Send, Active
  <2>2. Fresh' \subseteq Fresh
    <3>1. CASE Ready
      <4>1. count' = 0
        BY <3>1 DEF Ready
      <4> QED
        BY <4>1 DEF Fresh
    <3>2. CASE Update
      BY <3>2 DEF Update, Send, Fresh, Goodbye
    <3>3. CASE Welcome \/ Reply \/ CloseSession
      <4>1. spc' # "reading"
        BY <3>3 DEF Welcome, Reply, CloseSession, Send
      <4> QED
        BY <4>1 DEF Fresh
    <3> QED
      BY <1>7, <3>1, <3>2, <3>3
  <2> QED
    BY <1>2, <2>1, <2>2
<1>8. CASE ReadLine
  <2>1. PICK line \in Received : Receive(line) /\ Store(line)
    BY <1>8 DEF ReadLine
  <2>2. /\ spc = "reading" /\ count < NumberLines /\ toServer # <<>>
        /\ UNCHANGED <<command, client, spc, executed>>
    BY <1>8 DEF ReadLine, MoreLines
  <2>3. line \in LineSet /\ toServer' \in Seq(LineSet) /\ (WholeRead(line) \/ PartRead(line))
    BY <1>0, <2>1, <2>2, ReadOne
  <2>4. /\ Pos(line) = Pos(toServer[1])
        /\ \A k \in DOMAIN toServer' :
              /\ Pos(line) < Place(n, toServer'[k]) /\ Place(n, toServer'[k]) <= Latest
              /\ k > 1 => toServer'[k].part = "whole"
        /\ \A j, k \in DOMAIN toServer' : j < k => Place(n, toServer'[j]) < Place(n, toServer'[k])
    BY <1>0, <1>1, <2>2, <2>3, ReadOrder DEF Active
  <2>5. 1 \in DOMAIN toServer
    BY <1>0, <2>2, EmptySeq, LenProperties DEF Types
  <2>6. Place(n, line) = Place(n, toServer[1]) /\ Place(n, line) <= Latest
    BY <1>1, <2>2, <2>4, <2>5 DEF OrderInv, Pos, Active
  <2> QED
    BY <1>0, <1>1, <2>1, <2>2, <2>3, <2>4, <2>5, <2>6, OrderStored DEF Pos
<1>9. CASE ReadNothing
  <2>1. /\ spc = "reading" /\ count < NumberLines /\ toServer = <<>> /\ toServer' = <<>>
        /\ UNCHANGED <<command, client, spc, executed>>
    BY <1>9 DEF ReadNothing, MoreLines
  <2>2. CASE HungUp
    <3>1. Store(EndLine) /\ cpc \in {"end", "killed"}
      BY <1>0, <2>2 DEF HungUp, EndsInv
    <3>2. Place(n, EndLine) <= Latest
      <4>1. Rank(n, EndLine) = n + 1
        BY LineTypes DEF Rank
      <4>2. Place(n, EndLine) = 2 * (n + 1)
        BY <1>1, <4>1, LineTypes DEF Place
      <4>3. Latest = 2 * n + 5
        BY <1>1, <3>1 DEF Latest
      <4> QED
        BY <1>1, <4>2, <4>3
    <3>3. toServer' \in Seq(LineSet) /\ DOMAIN toServer' = {} /\ EndLine \in LineSet /\ EndLine.first = "empty"
      BY <2>1, LineTypes
    <3> QED
      BY <1>0, <1>1, <2>1, <3>1, <3>2, <3>3, OrderStored
  <2>3. CASE GiveUp
    <3>1. commands'[1].first = "bang"
      BY <1>0, <2>3, GaveUp
    <3>2. Fresh' = {}
      BY <3>1 DEF Fresh, Goodbye
    <3> QED
      BY <1>2, <2>1, <3>2
  <2> QED
    BY <1>9, <2>2, <2>3 DEF ReadNothing
<1>10. CASE Complete
  <2>1. CASE Acceptable
    BY <1>0, <1>10, <2>1, OrderRun
  <2>2. CASE ~Acceptable
    <3>1. /\ UNCHANGED <<command, executed, toServer, commands>>
          /\ spc = "reading" /\ spc' \in {"close", "ready"}
      BY <1>10, <2>2 DEF Complete
    <3>2. Fresh' = {}
      BY <3>1 DEF Fresh
    <3> QED
      BY <1>2, <3>1, <3>2 DEF Active
  <2> QED
    BY <2>1, <2>2
<1>11. CASE UNCHANGED vars
  BY <1>2, <1>11 DEF vars, Fresh, Goodbye
<1> QED
  BY <1>3, <1>4, <1>5, <1>6, <1>7, <1>8, <1>9, <1>10, <1>11 DEF Next, Client, Server

\* Nothing is run twice, and no line becomes part of two commands, whatever TCP
\* and the time-outs do to the lines: what the array holds of an earlier command
\* is not run again, because a command of plain lines ends before it.
THEOREM RunsOnce == Spec => []NoLineTwice
<1>1. Init => OrderInv /\ RunInv
  BY DEF Init, OrderInv, RunInv, Active
<1>2. BasicInv /\ OrderInv /\ RunInv /\ [Next]_vars => OrderInv' /\ RunInv'
  BY OrderStep
<1>3. BasicInv /\ RunInv => NoLineTwice
  <2> SUFFICES ASSUME Types, RunInv, NEW i \in DOMAIN executed, NEW j \in DOMAIN executed,
                      Regular(executed[i]), Regular(executed[j]),
                      NEW k \in DOMAIN executed[i], NEW l \in DOMAIN executed[j],
                      executed[i][k] = executed[j][l]
               PROVE  i = j /\ k = l
    BY DEF BasicInv, NoLineTwice
  <2>1. i \in Nat /\ j \in Nat /\ executed[i] \in Seq(LineSet) /\ executed[j] \in Seq(LineSet)
    <3>1. executed \in Seq(Seq(LineSet))
      BY DEF Types
    <3>2. DOMAIN executed = 1 .. Len(executed) /\ Len(executed) \in Nat
      BY <3>1, LenProperties
    <3> QED
      BY <3>1, <3>2, ElementOfSeq
  <2>2. k \in Nat /\ l \in Nat
    BY <2>1, LenProperties
  <2>3. Pos(executed[i][k]) \in Nat
    BY PlacesKnown
  <2>4. ~(Pos(executed[i][k]) < Pos(executed[j][l])) /\ ~(Pos(executed[j][l]) < Pos(executed[i][k]))
    BY <2>3
  <2>5. i = j
    BY <2>1, <2>4 DEF RunInv
  <2>6. k = l
    BY <2>2, <2>4, <2>5 DEF RunInv
  <2> QED
    BY <2>5, <2>6
<1> QED
  BY <1>1, <1>2, <1>3, BasicHolds, PTL DEF Spec

-----------------------------------------------------------------------------
(* The command as it was sent.                                             *)

\* What has gone wrong has gone wrong; the command stays what it is.
LEMMA HappenedGrows ==
    ASSUME Types, [Next]_vars
    PROVE  UNCHANGED command /\ happened \subseteq happened'
<1> USE DEF asked, client, server, reader
<1>1. UNCHANGED command
  BY DEF Next, Client, SendCode, AwaitReady, ReadError, WriteLine, FinishCommand, ReadAnswer,
         ReadDownload, DownloadTimeout, Quit, Stopped, Server, ReadCode, NoCode, Welcome, Ready,
         ReadLine, ReadNothing, Complete, Reply, CloseSession, Update, vars
<1>2. CASE Client \/ Stopped
  BY <1>2 DEF Client, SendCode, AwaitReady, ReadError, WriteLine, FinishCommand, ReadAnswer,
         ReadDownload, DownloadTimeout, Quit, Stopped, Write, Take, TakePart, Only, Happens, NoMishap
<1>3. CASE Server \/ Update
  BY <1>3 DEF Server, ReadCode, NoCode, Welcome, Ready, ReadLine, ReadNothing, Complete, Reply,
         CloseSession, Update, Receive, HungUp, Only, Happens, NoMishap
<1> QED
  BY <1>1, <1>2, <1>3 DEF Next, vars

\* Where a step leaves a client that nothing happens to.
LEMMA ClientTrack ==
    ASSUME BasicInv, BasicInv', ClientInv, Intact', [Next]_vars PROVE ClientInv'
<1> USE DEF asked, client, server, reader
<1>0. /\ Types /\ EndsInv /\ CodeInv /\ CodeInv' /\ EndsInv'
      /\ Len(command.lines) \in Nat \ {0, 1} /\ written \in 0 .. Len(command.lines)
  BY CommandLines DEF BasicInv, Types
<1>1. CASE SendCode
  BY <1>0, <1>1 DEF SendCode, Write, ClientInv, EndsInv
<1>2. CASE WriteLine
  BY <1>0, <1>2 DEF WriteLine, Write, ClientInv, EndsInv
<1>3. CASE FinishCommand \/ ReadAnswer \/ ReadDownload \/ DownloadTimeout \/ Quit
  <2>1. /\ cpc \in {"finish", "first", "second", "answer", "download", "quit"}
        /\ cpc' \notin {"code", "welcome", "lines", "finish"} /\ UNCHANGED <<command, spc>>
        /\ cpc = "quit" => cpc' \in {"end", "killed"}
    BY <1>3 DEF FinishCommand, ReadAnswer, ReadDownload, DownloadTimeout, Quit, Write, Answered
  <2> QED
    BY <1>0, <2>1 DEF ClientInv
<1>4. CASE AwaitReady
  <2>1. cpc' \in {"welcome", "quit", "lines", "spin"} /\ UNCHANGED <<command, spc>>
    BY <1>4 DEF AwaitReady
  <2>2. command.kind = "show" => cpc' # "lines"
    BY <1>4 DEF AwaitReady
  <2>3. spc' = "code" => cpc' = "welcome"
    BY <1>0, <2>1 DEF CodeInv
  <2> QED
    BY <2>1, <2>2, <2>3 DEF ClientInv
<1>5. CASE ReadError
  BY <1>0, <1>5 DEF ReadError, EndsInv, ClientInv
<1>6. CASE Stopped
  <2>1. cpc = "killed" /\ cpc' = "killed"
    BY <1>6 DEF Stopped, Intact, Never, Happens
  <2> QED
    BY <1>0, <1>6, <2>1 DEF Stopped, ClientInv
<1>7. CASE Server \/ Update
  <2>1. UNCHANGED <<command, cpc, written>> /\ (spc' = "code" => spc = "code")
    BY <1>7 DEF Server, ReadCode, NoCode, Welcome, Ready, ReadLine, MoreLines, ReadNothing, Complete,
         Reply, CloseSession, Update, Send, Refuse
  <2> QED
    BY <2>1 DEF ClientInv
<1>8. CASE UNCHANGED vars
  BY <1>8 DEF vars, ClientInv
<1> QED
  BY <1>1, <1>2, <1>3, <1>4, <1>5, <1>6, <1>7, <1>8 DEF Next, Client

\* What the client sends next, while the server listens.
LEMMA ClientStream ==
    ASSUME BasicInv, OrderInv, ClientInv, spc \in Active, Intact', Plain, Client \/ Stopped
    PROVE  /\ StreamLength \in Nat
           /\ \/ UNCHANGED <<toServer, StreamLength>>
              \/ /\ toServer' = Append(toServer, StreamLine(command, StreamLength + 1))
                 /\ StreamLength' = StreamLength + 1
           /\ cpc \notin {"code", "welcome", "lines"} =>
                 cpc' \notin {"code", "welcome", "lines"}
                 /\ (toServer' = toServer \/ toServer' \in {Append(toServer, EndLine), Append(toServer, QuitLine)})
<1> USE DEF asked, client, server, reader
<1>0. /\ Types /\ EndsInv /\ CodeInv /\ "server" \in conn /\ "aborted" \notin reset
      /\ cpc \notin {"code", "killed", "spin"}
  BY DEF BasicInv, EndsInv, Active, OrderInv
<1>1. PICK n \in Nat \ {0, 1} : n = Len(command.lines) /\ written \in 0 .. n
  BY <1>0, CommandLines DEF Types
<1>2. StreamLength \in Nat
  BY <1>0, <1>1 DEF StreamLength, Types, ClientAt
<1>3. CASE WriteLine
  <2>1. /\ cpc = "lines" /\ written < n /\ written' = written + 1 /\ cpc' \in {"lines", "finish"}
        /\ command' = command /\ command.kind # "show"
        /\ toServer' = Append(toServer, Line(written + 1, "whole", command.lines[written + 1]))
    BY <1>0, <1>1, <1>3 DEF WriteLine, Write, EndsInv, ClientInv
  <2>2. command.lines[written + 1] = "text"
    <3>1. written + 1 \in DOMAIN command.lines
      BY <1>0, <1>1, <2>1, CommandLines, LenProperties
    <3> QED
      BY <3>1 DEF Plain
  <2>3. StreamLength = written /\ StreamLength' = written + 1
    BY <2>1 DEF StreamLength
  <2>4. StreamLine(command, written + 1) = Line(written + 1, "whole", "text")
    BY <1>1, <2>1 DEF StreamLine
  <2> QED
    BY <1>2, <2>1, <2>2, <2>3, <2>4
<1>4. CASE FinishCommand
  <2>1. /\ cpc = "finish" /\ written = n /\ cpc' \in {"first", "download", "answer"}
        /\ command' = command /\ command.kind # "show" /\ toServer' = Append(toServer, EndLine)
    BY <1>0, <1>1, <1>4 DEF FinishCommand, Write, ClientInv
  <2>2. StreamLength = n /\ StreamLength' = n + 1
    BY <1>1, <2>1 DEF StreamLength
  <2>3. StreamLine(command, n + 1) = EndLine
    BY <1>1, <2>1 DEF StreamLine
  <2> QED
    BY <1>2, <2>1, <2>2, <2>3
<1>5. CASE Quit
  <2>1. /\ cpc = "quit" /\ cpc' = "end" /\ command' = command /\ toServer' = Append(toServer, QuitLine)
    BY <1>0, <1>5 DEF Quit
  <2>2. IF command.kind = "show" THEN StreamLength = 0 /\ StreamLength' = 1
        ELSE StreamLength = n + 1 /\ StreamLength' = n + 2
    BY <1>1, <2>1 DEF StreamLength
  <2>3. StreamLine(command, StreamLength + 1) = QuitLine
    BY <1>1, <2>2 DEF StreamLine
  <2> QED
    BY <1>1, <1>2, <2>1, <2>2, <2>3
<1>6. CASE AwaitReady
  <2>1. /\ cpc = "welcome" /\ cpc' \in {"welcome", "quit", "lines"} /\ UNCHANGED <<command, written, toServer>>
        /\ (cpc' = "lines" => command.kind # "show") /\ (cpc' = "quit" => command.kind = "show")
    BY <1>0, <1>6 DEF AwaitReady, EndOfFile
  <2>2. written = 0
    BY <1>0, <2>1 DEF EndsInv
  <2>3. StreamLength = 0 /\ StreamLength' = 0
    BY <2>1, <2>2 DEF StreamLength
  <2> QED
    BY <1>2, <2>1, <2>3
<1>7. CASE ReadAnswer \/ ReadDownload \/ DownloadTimeout
  <2>1. /\ cpc \in {"first", "second", "answer", "download"} /\ command.kind # "show"
        /\ cpc' \in {"second", "answer", "download", "quit"} /\ UNCHANGED <<command, toServer>>
    BY <1>0, <1>7 DEF ReadAnswer, ReadDownload, DownloadTimeout, Answered, EndOfFile, ClientInv
  <2>2. StreamLength = n + 1 /\ StreamLength' = n + 1
    BY <1>1, <2>1 DEF StreamLength
  <2> QED
    BY <1>2, <2>1, <2>2
<1>8. CASE Stopped
  BY <1>0, <1>8 DEF Stopped, Intact, Never, Happens
<1> QED
  BY <1>0, <1>3, <1>4, <1>5, <1>6, <1>7, <1>8 DEF Client, SendCode, ReadError

\* The lines of the stream, by their first characters.
LEMMA StreamLines ==
    ASSUME Types, NEW k \in Nat \ {0}
    PROVE  /\ command.kind = "show" => StreamLine(command, k) = QuitLine
           /\ command.kind # "show" =>
                 /\ k <= Len(command.lines) => StreamLine(command, k) = Line(k, "whole", "text")
                 /\ k = Len(command.lines) + 1 => StreamLine(command, k) = EndLine
                 /\ k > Len(command.lines) + 1 => StreamLine(command, k) = QuitLine
           /\ StreamLine(command, k).first \in {"text", "empty", "bang"}
<1>1. Len(command.lines) \in Nat
  BY CommandLines
<1> QED
  BY <1>1, LineTypes DEF StreamLine, Firsts

\* The client sends, before a command is run.
LEMMA BeforeClient ==
    ASSUME BasicInv, OrderInv, ClientInv, BeforeRun, Intact', Plain, Client \/ Stopped
    PROVE  BeforeRun'
<1>1. UNCHANGED <<command, spc, commands, count, first>> /\ Types
  BY ClientApart DEF server, asked, reader, BasicInv
<1>2. CASE spc \notin Active
  BY <1>1, <1>2 DEF BeforeRun, Active
<1>3. CASE spc \in Active /\ UNCHANGED <<toServer, StreamLength>>
  BY <1>1, <1>3 DEF BeforeRun, Consumed
<1>4. CASE /\ spc \in Active
           /\ toServer' = Append(toServer, StreamLine(command, StreamLength + 1))
           /\ StreamLength' = StreamLength + 1 /\ StreamLength \in Nat
  <2> DEFINE line == StreamLine(command, StreamLength + 1)
  <2>1. line \in LineSet
    <3>1. Len(command.lines) \in Nat
      BY <1>1, CommandLines
    <3>2. {QuitLine, EndLine} \subseteq LineSet /\ "text" \in Firsts
      BY LineTypes DEF Firsts
    <3>3. Line(StreamLength + 1, "whole", "text") \in LineSet
      BY <1>4, <3>2, LineTypes
    <3> QED
      BY <3>2, <3>3 DEF StreamLine
  <2>2. toServer \in Seq(LineSet) /\ Len(toServer) \in Nat /\ DOMAIN toServer = 1 .. Len(toServer)
    BY <1>1, LenProperties DEF Types
  <2> HIDE DEF line
  <2>3. /\ Len(toServer') = Len(toServer) + 1 /\ DOMAIN toServer' = 1 .. Len(toServer) + 1
        /\ \A k \in 1 .. Len(toServer) : toServer'[k] = toServer[k]
        /\ toServer'[Len(toServer) + 1] = line
    <3>1. toServer' = Append(toServer, line)
      BY <1>4 DEF line
    <3> QED
      BY <2>1, <2>2, <3>1, AppendProperties, LenProperties
  <2>4. /\ Consumed' = Consumed /\ Consumed \in Nat /\ Consumed + Len(toServer) = StreamLength
        /\ \A k \in DOMAIN toServer : toServer[k] = StreamLine(command, Consumed + k)
    BY <1>1, <1>4, LenProperties DEF BeforeRun, Consumed, Types
  <2>5. Consumed + Len(toServer') = StreamLength'
    BY <1>4, <2>2, <2>3, <2>4
  <2>6. Consumed + (Len(toServer) + 1) = StreamLength + 1
    BY <2>2, <2>4
  <2>7. \A k \in DOMAIN toServer' : toServer'[k] = StreamLine(command, Consumed + k)
    <3> TAKE k \in DOMAIN toServer'
    <3>1. CASE k \in 1 .. Len(toServer)
      BY <2>2, <2>3, <2>4, <3>1
    <3>2. CASE k = Len(toServer) + 1
      BY <2>3, <2>6, <3>2 DEF line
    <3> QED
      BY <2>2, <2>3, <3>1, <3>2
  <2> QED
    BY <1>1, <2>4, <2>5, <2>7 DEF BeforeRun
<1> QED
  BY <1>2, <1>3, <1>4, ClientStream

\* The server reads a line, before a command is run.
LEMMA BeforeRead ==
    ASSUME BasicInv, BeforeRun, Intact', ReadLine PROVE BeforeRun'
<1> DEFINE n == Len(command.lines)
<1>1. /\ Types /\ UNCHANGED <<command, client, spc>> /\ spc = "reading" /\ count < NumberLines
      /\ first \notin Ending /\ toServer # <<>>
  BY DEF BasicInv, ReadLine, MoreLines, asked
<1>2. PICK line \in Received : Receive(line) /\ Store(line)
  BY DEF ReadLine
<1>3. line \in LineSet /\ toServer' \in Seq(LineSet) /\ (WholeRead(line) \/ PartRead(line))
  BY <1>1, <1>2, ReadOne
<1>4. /\ toServer \in Seq(LineSet) /\ Len(toServer) \in Nat \ {0}
      /\ DOMAIN toServer = 1 .. Len(toServer) /\ 1 \in DOMAIN toServer
  BY <1>1, EmptySeq, LenProperties DEF Types
<1>5. line = toServer[1] /\ toServer' = SubSeq(toServer, 1 + 1, Len(toServer))
  <2>1. ~PartRead(line)
    BY DEF PartRead, Intact, Never
  <2>2. WholeRead(line) /\ "joined" \notin happened'
    BY <1>3, <2>1 DEF Intact, Never
  <2> QED
    BY <1>4, <2>2 DEF WholeRead
<1>6. /\ Len(toServer') = Len(toServer) - 1 /\ DOMAIN toServer' = 1 .. Len(toServer) - 1
      /\ \A k \in 1 .. Len(toServer) - 1 : toServer'[k] = toServer[1 + k]
  BY <1>4, <1>5, Dropped
<1>7. n \in Nat \ {0, 1} /\ count \in Nat
  BY <1>1, CommandLines, LenProperties DEF Types
<1>8. /\ Len(commands) = count /\ count <= n + 1
      /\ \A k \in 1 .. count : commands[k] = StreamLine(command, k)
      /\ first = IF count = 0 THEN "text" ELSE commands[count].first
      /\ count + Len(toServer) = StreamLength
      /\ \A k \in DOMAIN toServer : toServer[k] = StreamLine(command, count + k)
  BY <1>1 DEF BeforeRun, Consumed, Active, Ending
<1>9. line = StreamLine(command, count + 1)
  BY <1>4, <1>5, <1>8
<1>10. /\ Len(commands') = count + 1 /\ count' = count + 1 /\ first' = line.first
       /\ commands'[count + 1] = line /\ \A k \in 1 .. count : commands'[k] = commands[k]
  BY <1>1, <1>2, <1>3, <1>7, <1>8, Stored
<1>11. count + 1 <= n + 1
  <2>1. SUFFICES ASSUME count = n + 1 PROVE FALSE
    BY <1>7, <1>8
  <2>2. first = StreamLine(command, n + 1).first
    BY <1>7, <1>8, <2>1
  <2>3. StreamLine(command, n + 1) \in {QuitLine, EndLine}
    BY <1>1, <1>7, StreamLines
  <2> QED
    BY <1>1, <2>2, <2>3, LineTypes DEF Ending
<1>12. StreamLength' = StreamLength /\ (count + 1) + Len(toServer') = StreamLength
  <2>1. StreamLength' = StreamLength
    BY <1>1 DEF StreamLength, client
  <2> QED
    BY <1>4, <1>6, <1>7, <1>8, <2>1
<1>13. \A k \in DOMAIN toServer' : toServer'[k] = StreamLine(command, (count + 1) + k)
  <2> TAKE k \in DOMAIN toServer'
  <2>1. 1 + k \in DOMAIN toServer /\ count + (1 + k) = (count + 1) + k
    BY <1>4, <1>6, <1>7
  <2> QED
    BY <1>6, <1>8, <2>1
<1>14. \A k \in 1 .. count + 1 : commands'[k] = StreamLine(command, k)
  BY <1>7, <1>8, <1>9, <1>10
<1> HIDE DEF n
<1>15. first' = IF count' = 0 THEN "text" ELSE commands'[count'].first
  BY <1>7, <1>10
<1> QED
  BY <1>1, <1>10, <1>11, <1>12, <1>13, <1>14, <1>15 DEF BeforeRun, Consumed, n

\* The first command that is run is the one that was sent.
LEMMA FirstRun ==
    ASSUME BasicInv, BeforeRun, Fits, executed = <<>>, Complete, Acceptable PROVE AfterRun'
<1> DEFINE n == Len(command.lines)
<1>1. /\ Types /\ EndsInv /\ UNCHANGED <<command, client, toServer>> /\ spc = "reading"
      /\ ~MoreLines /\ ~Goodbye /\ first # "dot"
      /\ executed' = Append(executed, Arguments)
  BY DEF BasicInv, Complete, Acceptable, asked
<1>2. spc' # "reading"
  BY DEF Complete, Send
<1>3. n \in Nat \ {0, 1} /\ count \in Nat /\ commands \in Seq(LineSet) /\ n <= NumberLines /\ NumberLines \in Nat
  BY <1>1, CommandLines, LenProperties, BoundsAssumption DEF Types, Fits
<1>4. /\ Len(commands) = count /\ count <= n + 1
      /\ \A k \in 1 .. count : commands[k] = StreamLine(command, k)
      /\ first = IF count = 0 THEN "text" ELSE commands[count].first
      /\ count + Len(toServer) = StreamLength
      /\ \A k \in DOMAIN toServer : toServer[k] = StreamLine(command, count + k)
  BY <1>1 DEF BeforeRun, Consumed, Active, Goodbye
<1>5. count > 0
  <2>1. count = 0 => first \notin Ending /\ count < NumberLines
    BY <1>3, <1>4, BoundsAssumption DEF Ending
  <2> QED
    BY <1>1, <1>3, <2>1 DEF MoreLines
<1>6. command.kind # "show"
  <2>1. commands[1] = StreamLine(command, 1)
    BY <1>3, <1>4, <1>5
  <2> QED
    BY <1>1, <2>1, StreamLines, LineTypes DEF Goodbye
<1>7. /\ \A k \in 1 .. count : k <= n => commands[k] = Line(k, "whole", "text")
      /\ \A k \in 1 .. count : k = n + 1 => commands[k] = EndLine
  BY <1>1, <1>3, <1>4, <1>6, StreamLines
<1>8. count \in {n, n + 1}
  <2> SUFFICES ASSUME count < n PROVE FALSE
    BY <1>3, <1>4
  <2>1. first = "text"
    <3>1. commands[count] = Line(count, "whole", "text")
      BY <1>3, <1>5, <1>7
    <3> QED
      BY <1>3, <1>4, <1>5, <3>1, LineTypes DEF Firsts
  <2>2. count < NumberLines
    BY <1>3
  <2> QED
    BY <1>1, <2>1, <2>2 DEF MoreLines, Ending
<1>9. PICK m \in 0 .. count :
              /\ Arguments \in Seq(LineSet) /\ Len(Arguments) = m
              /\ \A k \in 1 .. m : Arguments[k] = commands[k] /\ commands[k].first # "empty"
              /\ m < count => commands[m + 1].first = "empty"
  BY <1>1, <1>4, ArgumentsAre
<1>10. m = n
  <2>1. ~(m < n)
    <3> SUFFICES ASSUME m < n PROVE FALSE
      OBVIOUS
    <3>1. m + 1 \in 1 .. count /\ m + 1 <= n /\ m < count /\ m + 1 \in Nat
      BY <1>3, <1>8, <1>9
    <3>2. commands[m + 1] = Line(m + 1, "whole", "text")
      BY <1>7, <3>1
    <3>3. commands[m + 1].first = "text"
      BY <3>1, <3>2, LineTypes DEF Firsts
    <3> QED
      BY <1>9, <3>1, <3>3
  <2>2. m # n + 1
    <3> SUFFICES ASSUME m = n + 1 PROVE FALSE
      OBVIOUS
    <3>1. n + 1 \in 1 .. count /\ n + 1 \in 1 .. m
      BY <1>3, <1>9
    <3> QED
      BY <1>7, <1>9, <3>1, LineTypes
  <2> QED
    BY <1>3, <1>8, <1>9, <2>1, <2>2
<1>11. Arguments = Whole
  <2>1. DOMAIN command.lines = 1 .. n
    BY <1>1, CommandLines, LenProperties
  <2>2. DOMAIN Arguments = 1 .. n /\ Arguments = [k \in 1 .. n |-> Arguments[k]]
    BY <1>9, <1>10, LenProperties
  <2>3. \A k \in 1 .. n : Arguments[k] = Line(k, "whole", "text")
    <3> TAKE k \in 1 .. n
    <3>1. k \in 1 .. m /\ k \in 1 .. count /\ k <= n
      BY <1>3, <1>8, <1>10
    <3> QED
      BY <1>7, <1>9, <3>1
  <2> HIDE DEF n
  <2>4. Whole = [k \in 1 .. n |-> Line(k, "whole", "text")]
    BY <2>1 DEF Whole
  <2> QED
    BY <2>2, <2>3, <2>4
<1>12. executed' = <<Whole>> /\ Whole' = Whole
  BY <1>1, <1>11 DEF Whole
<1>13. cpc' \notin {"code", "welcome", "lines"}
  <2>1. StreamLength >= n /\ cpc' = cpc /\ Len(toServer) \in Nat
    BY <1>1, <1>3, <1>4, <1>8, LenProperties DEF Types, client
  <2>2. cpc \in {"code", "welcome"} => StreamLength = 0
    BY DEF StreamLength
  <2>3. cpc = "lines" => StreamLength = written /\ written < n /\ written \in Nat
    BY <1>1, <1>3 DEF StreamLength, EndsInv, Types
  <2> QED
    BY <1>3, <2>1, <2>2, <2>3
<1>14. \A k \in DOMAIN toServer : toServer[k].first \in {"bang", "empty"}
  <2> TAKE k \in DOMAIN toServer
  <2>1. count + k \in Nat \ {0} /\ count + k > n
    <3>1. k \in Nat /\ k >= 1
      BY <1>1, LenProperties DEF Types
    <3> QED
      BY <1>3, <1>8, <3>1
  <2>2. StreamLine(command, count + k) \in {QuitLine, EndLine}
    BY <1>1, <1>3, <2>1, <1>6, StreamLines
  <2> QED
    BY <1>4, <2>2, LineTypes
<1> QED
  BY <1>1, <1>2, <1>12, <1>13, <1>14 DEF AfterRun

\* The other steps of the server, before a command is run.
LEMMA BeforeServer ==
    ASSUME BasicInv, OrderInv, ClientInv, BeforeRun, Intact', Server \/ Update,
           ~ReadLine, ~(Complete /\ Acceptable)
    PROVE  BeforeRun' /\ executed' = executed
<1> USE DEF asked, reader
<1>0. Types /\ EndsInv /\ CodeInv /\ BufferInv
  BY DEF BasicInv
<1>1. UNCHANGED <<command, StreamLength>>
  <2>1. UNCHANGED <<asked, client>>
    BY DEF Server, ReadCode, NoCode, Welcome, Ready, ReadLine, ReadNothing, Complete, Reply,
           CloseSession, Update
  <2> QED
    BY <2>1 DEF client, StreamLength
<1>2. CASE ReadCode \/ NoCode
  <2>1. spc = "code" /\ UNCHANGED <<commands, executed>> /\ commands = <<>> /\ cpc \in {"code", "welcome"}
    BY <1>2 DEF ReadCode, NoCode, BeforeRun, ClientInv
  <2>2. spc' \in {"about", "close", "killed"}
    BY <1>2 DEF ReadCode, NoCode, Refuse, Send
  <2>3. spc' = "about" => toServer' = <<>>
    <3> SUFFICES ASSUME spc' = "about" PROVE toServer' = <<>>
      OBVIOUS
    <3>1. ~Refuse
      BY DEF Refuse, Send
    <3>2. PICK line \in Received : Receive(line)
      BY <1>2, <3>1 DEF ReadCode, NoCode
    <3>3. toServer = <<CodeLine>> /\ toServer # <<>>
      BY <1>0, <1>2, <2>1, <3>1 DEF ReadCode, NoCode, CodeInv
    <3>4. WholeRead(line)
      BY <1>0, <3>2, <3>3, ReadOne DEF PartRead, Intact, Never
    <3>5. PICK k \in DOMAIN toServer : toServer' = SubSeq(toServer, k + 1, Len(toServer))
      BY <3>4 DEF WholeRead
    <3>6. toServer \in Seq(LineSet) /\ Len(toServer) = 1 /\ k = 1
      BY <1>0, <3>3, <3>5, LenProperties DEF Types
    <3>7. toServer' \in Seq(LineSet) /\ Len(toServer') = 0
      BY <3>5, <3>6, Dropped
    <3> QED
      BY <3>7, EmptySeq
  <2>4. StreamLength = 0
    BY <2>1 DEF StreamLength
  <2> QED
    BY <1>1, <2>1, <2>2, <2>3, <2>4 DEF BeforeRun, Consumed, Active
<1>3. CASE Welcome
  <2>1. spc = "about" /\ spc' \in {"ready", "killed"} /\ UNCHANGED <<commands, executed, toServer>>
    BY <1>3 DEF Welcome, Send
  <2> QED
    BY <1>1, <2>1 DEF BeforeRun, Consumed, Active
<1>4. CASE Ready
  <2>1. /\ spc = "ready" /\ spc' \in {"reading", "killed"} /\ UNCHANGED <<commands, executed, toServer>>
        /\ count' = 0 /\ first' = first /\ first = "text" /\ commands = <<>>
    BY <1>0, <1>4 DEF Ready, Send, BufferInv, BeforeRun
  <2>2. Len(command.lines) \in Nat /\ Len(commands) = 0
    BY <1>0, <2>1, CommandLines
  <2> QED
    BY <1>1, <2>1, <2>2 DEF BeforeRun, Consumed, Active
<1>5. CASE ReadNothing
  <2>1. /\ spc = "reading" /\ UNCHANGED <<spc, executed, toServer>> /\ first \notin Ending
        /\ toServer = <<>>
    BY <1>5 DEF ReadNothing, MoreLines
  <2>2. CASE HungUp
    <3>1. cpc = "end"
      BY <1>0, <2>1, <2>2 DEF HungUp, EndsInv
    <3>2. /\ count <= Len(command.lines) + 1 /\ count + Len(toServer) = StreamLength
          /\ \A k \in 1 .. count : commands[k] = StreamLine(command, k)
          /\ first = IF count = 0 THEN "text" ELSE commands[count].first
      BY <2>1 DEF BeforeRun, Consumed, Active, Ending
    <3>3. Len(command.lines) \in Nat /\ count \in Nat /\ Len(toServer) = 0
      BY <1>0, <2>1, CommandLines, LenProperties DEF Types
    <3>4. count = IF command.kind = "show" THEN 1 ELSE Len(command.lines) + 2
      BY <3>1, <3>2, <3>3 DEF StreamLength
    <3>5. command.kind = "show" /\ count = 1
      BY <3>2, <3>3, <3>4
    <3>6. first = "bang"
      <4>1. commands[1] = StreamLine(command, 1) /\ first = commands[1].first
        BY <3>2, <3>5
      <4> QED
        BY <1>0, <3>5, <4>1, StreamLines, LineTypes
    <3> QED
      BY <2>1, <3>6 DEF Ending
  <2>3. CASE GiveUp
    <3>1. commands' # <<>> /\ commands'[1].first = "bang" /\ first' = "bang" /\ count' = count
      BY <1>0, <2>3, GaveUp
    <3> QED
      BY <1>1, <2>1, <3>1 DEF BeforeRun, Consumed, Active
  <2> QED
    BY <1>5, <2>2, <2>3 DEF ReadNothing
<1>6. CASE Complete
  <2>1. spc = "reading" /\ ~Acceptable /\ ~MoreLines /\ executed' = executed
    BY <1>6 DEF Complete
  <2>2. first # "dot"
    <3>1. CASE first = "bang"
      BY <3>1
    <3>2. CASE /\ \A k \in 1 .. count : commands[k] = StreamLine(command, k)
               /\ first = IF count = 0 THEN "text" ELSE commands[count].first
      <4>1. count \in Nat
        BY <1>0, LenProperties DEF Types
      <4>2. count > 0 => first = StreamLine(command, count).first
        BY <3>2, <4>1
      <4>3. count > 0 => first \in {"text", "empty", "bang"}
        BY <1>0, <4>1, <4>2, StreamLines
      <4> QED
        BY <3>2, <4>1, <4>3
    <3> QED
      BY <2>1, <3>1, <3>2 DEF BeforeRun
  <2>3. spc' = "close"
    BY <1>6, <2>1, <2>2 DEF Complete, Acceptable
  <2> QED
    BY <2>1, <2>3 DEF BeforeRun, Active
<1>7. CASE Reply
  BY <1>7 DEF Reply, BeforeRun, Active
<1>8. CASE CloseSession
  BY <1>8 DEF CloseSession, BeforeRun, Active
<1>9. CASE Update
  <2>1. UNCHANGED <<reader, executed, toServer>> /\ spc' \in {spc, "killed"}
    BY <1>9 DEF Update, Send
  <2> QED
    BY <1>1, <2>1 DEF BeforeRun, Consumed, Active
<1> QED
  BY <1>2, <1>3, <1>4, <1>5, <1>6, <1>7, <1>8, <1>9 DEF Server

\* After a command was run, no step runs another.
LEMMA AfterStep ==
    ASSUME BasicInv, OrderInv, ClientInv, AfterRun, Intact', Plain, [Next]_vars PROVE AfterRun'
<1> USE DEF asked, reader
<1>0. /\ Types /\ EndsInv /\ CodeInv /\ BufferInv
      /\ toServer \in Seq(LineSet) /\ Len(toServer) \in Nat /\ DOMAIN toServer = 1 .. Len(toServer)
  BY LenProperties DEF BasicInv, Types
<1>1. Whole' = Whole
  BY <1>0, HappenedGrows DEF Whole
<1>2. CASE Client \/ Stopped
  <2>1. UNCHANGED <<spc, commands, count, first, executed>>
    BY <1>2, ClientApart DEF server
  <2>2. cpc' \notin {"code", "welcome", "lines"}
    BY <1>2 DEF AfterRun, Client, SendCode, AwaitReady, ReadError, WriteLine, FinishCommand, ReadAnswer,
         ReadDownload, DownloadTimeout, Quit, Stopped, Write, Answered
  <2>3. ASSUME spc \in Active PROVE \A k \in DOMAIN toServer' : toServer'[k].first \in {"bang", "empty"}
    <3>1. \A k \in DOMAIN toServer : toServer[k].first \in {"bang", "empty"}
      BY <2>3 DEF AfterRun
    <3>2. ASSUME NEW line \in {EndLine, QuitLine}, toServer' = Append(toServer, line)
          PROVE  \A k \in DOMAIN toServer' : toServer'[k].first \in {"bang", "empty"}
      <4>1. line \in LineSet /\ line.first \in {"bang", "empty"}
        BY LineTypes
      <4>2. /\ DOMAIN toServer' = 1 .. Len(toServer) + 1
            /\ \A k \in 1 .. Len(toServer) : toServer'[k] = toServer[k]
            /\ toServer'[Len(toServer) + 1] = line
        BY <1>0, <3>2, <4>1, AppendProperties, LenProperties
      <4> QED
        BY <1>0, <3>1, <4>1, <4>2
    <3>3. toServer' = toServer \/ toServer' \in {Append(toServer, EndLine), Append(toServer, QuitLine)}
      BY <1>2, <2>3, ClientStream DEF AfterRun
    <3> QED
      BY <3>1, <3>2, <3>3
  <2> QED
    BY <1>1, <2>1, <2>2, <2>3 DEF AfterRun
<1>3. CASE ReadCode \/ NoCode
  BY <1>0, <1>3 DEF ReadCode, NoCode, CodeInv, AfterRun
<1>4. CASE Welcome \/ Reply \/ CloseSession
  <2>1. /\ UNCHANGED <<cpc, executed, toServer>>
        /\ spc' # "reading" /\ (spc' \in Active => spc \in Active)
    BY <1>4 DEF Welcome, Reply, CloseSession, Send, Active, client
  <2> QED
    BY <1>1, <2>1 DEF AfterRun
<1>5. CASE Ready
  <2>1. UNCHANGED <<cpc, executed, toServer>> /\ spc \in Active /\ count' = 0 /\ first' = first /\ first = "text"
    BY <1>0, <1>5 DEF Ready, BufferInv, client, Active
  <2> QED
    BY <1>1, <2>1 DEF AfterRun
<1>6. CASE Update
  <2>1. UNCHANGED <<reader, cpc, executed, toServer>> /\ spc' \in {spc, "killed"}
    BY <1>6 DEF Update, Send, client
  <2> QED
    BY <1>1, <2>1 DEF AfterRun, Active
<1>7. CASE ReadLine
  <2>1. /\ spc = "reading" /\ UNCHANGED <<cpc, spc, executed>> /\ first \notin Ending /\ count < NumberLines
        /\ toServer # <<>>
    BY <1>7 DEF ReadLine, MoreLines, client
  <2>2. count = 0 /\ \A k \in DOMAIN toServer : toServer[k].first \in {"bang", "empty"}
    BY <2>1 DEF AfterRun, Ending, Active
  <2>3. PICK line \in Received : Receive(line) /\ Store(line)
    BY <1>7 DEF ReadLine
  <2>4. line \in LineSet /\ toServer' \in Seq(LineSet) /\ (WholeRead(line) \/ PartRead(line))
    BY <1>0, <2>1, <2>3, ReadOne
  <2>5. WholeRead(line)
    BY <2>4 DEF PartRead, Intact, Never
  <2>6. PICK i \in DOMAIN toServer : toServer' = SubSeq(toServer, i + 1, Len(toServer))
    BY <2>5 DEF WholeRead
  <2>7. /\ DOMAIN toServer' = 1 .. Len(toServer) - i
        /\ \A k \in 1 .. Len(toServer) - i : toServer'[k] = toServer[i + k]
    BY <1>0, <2>6, Dropped
  <2>8. \A k \in DOMAIN toServer' : i + k \in DOMAIN toServer
    BY <1>0, <2>7
  <2>9. \A k \in DOMAIN toServer' : toServer'[k].first \in {"bang", "empty"}
    BY <2>2, <2>7, <2>8
  <2>10. line.first \in {"bang", "empty"}
    <3>1. 1 \in DOMAIN toServer /\ line = toServer[1]
      BY <1>0, <2>1, <2>5, EmptySeq DEF WholeRead
    <3> QED
      BY <2>2, <3>1
  <2>11. commands'[1] = line /\ first' = line.first /\ commands' # <<>>
    <3>1. commands' \in Seq(LineSet) /\ commands'[0 + 1] = line /\ first' = line.first /\ 0 + 1 \in 1 .. Len(commands')
      BY <1>0, <2>1, <2>2, <2>3, <2>4, Stored
    <3> QED
      BY <3>1, EmptySeq
  <2> QED
    BY <1>1, <2>1, <2>9, <2>10, <2>11 DEF AfterRun
<1>8. CASE ReadNothing
  <2>1. /\ spc = "reading" /\ UNCHANGED <<cpc, spc, executed, toServer>> /\ first \notin Ending
        /\ count < NumberLines
    BY <1>8 DEF ReadNothing, MoreLines, client
  <2>2. count = 0
    BY <2>1 DEF AfterRun, Ending
  <2>3. commands'[1].first \in {"bang", "empty"} /\ first' \in {"bang", "empty"} /\ commands' # <<>>
    <3>1. CASE HungUp
      <4>1. commands' \in Seq(LineSet) /\ commands'[0 + 1] = EndLine /\ first' = EndLine.first /\ 0 + 1 \in 1 .. Len(commands')
        BY <1>0, <2>1, <2>2, <3>1, LineTypes, Stored DEF HungUp
      <4> QED
        BY <4>1, EmptySeq, LineTypes
    <3>2. CASE GiveUp
      BY <1>0, <3>2, GaveUp
    <3> QED
      BY <1>8, <3>1, <3>2 DEF ReadNothing
  <2> QED
    BY <1>1, <2>1, <2>3 DEF AfterRun
<1>9. CASE Complete
  <2>1. spc = "reading" /\ UNCHANGED <<cpc, toServer>> /\ ~MoreLines
    BY <1>9 DEF Complete, client
  <2>2. commands[1].first \in {"bang", "empty"}
    <3>1. ~(count = 0 /\ first = "text")
      BY <2>1, BoundsAssumption DEF MoreLines, Ending
    <3> QED
      BY <2>1, <3>1 DEF AfterRun
  <2>3. spc' = "close" /\ executed' = executed
    BY <1>9, <2>2 DEF Complete, Acceptable, Goodbye
  <2> QED
    BY <1>1, <2>1, <2>3 DEF AfterRun, Active
<1>10. CASE UNCHANGED vars
  BY <1>1, <1>10 DEF vars, AfterRun, client, server
<1> QED
  BY <1>2, <1>3, <1>4, <1>5, <1>6, <1>7, <1>8, <1>9, <1>10 DEF Next, Server

\* No step makes the server run anything but the command as it was sent, once.
LEMMA StreamStep ==
    ASSUME BasicInv, BasicInv', OrderInv, StreamInv, [Next]_vars PROVE StreamInv'
<1> SUFFICES ASSUME Intact', Plain', Fits'
             PROVE  ClientInv' /\ IF executed' = <<>> THEN BeforeRun' ELSE AfterRun'
  BY DEF StreamInv
<1>1. Intact /\ Plain /\ Fits /\ UNCHANGED command
  <2>1. UNCHANGED command /\ happened \subseteq happened'
    BY HappenedGrows DEF BasicInv
  <2>2. Intact
    BY <2>1 DEF Intact, Never
  <2> QED
    BY <2>1, <2>2 DEF Plain, Fits
<1>2. ClientInv /\ IF executed = <<>> THEN BeforeRun ELSE AfterRun
  BY <1>1 DEF StreamInv
<1>3. ClientInv'
  BY <1>2, ClientTrack
<1>4. CASE executed # <<>>
  <2>1. AfterRun'
    BY <1>1, <1>2, <1>4, AfterStep
  <2>2. executed' # <<>>
    BY <2>1 DEF AfterRun
  <2> QED
    BY <1>3, <2>1, <2>2
<1>5. CASE executed = <<>> /\ (Client \/ Stopped)
  <2>1. executed' = <<>>
    BY <1>5, ClientApart DEF server
  <2> QED
    BY <1>1, <1>2, <1>3, <1>5, <2>1, BeforeClient
<1>6. CASE executed = <<>> /\ Complete /\ Acceptable
  <2>1. AfterRun'
    BY <1>1, <1>2, <1>6, FirstRun
  <2>2. executed' # <<>>
    BY <2>1 DEF AfterRun
  <2> QED
    BY <1>3, <2>1, <2>2
<1>7. CASE executed = <<>> /\ ReadLine
  <2>1. executed' = <<>>
    BY <1>7 DEF ReadLine
  <2> QED
    BY <1>1, <1>2, <1>3, <1>7, <2>1, BeforeRead
<1>8. CASE executed = <<>> /\ (Server \/ Update) /\ ~ReadLine /\ ~(Complete /\ Acceptable)
  BY <1>1, <1>2, <1>3, <1>8, BeforeServer
<1>9. CASE executed = <<>> /\ UNCHANGED vars
  <2>1. BeforeRun' /\ executed' = <<>>
    <3>1. UNCHANGED <<command, spc, commands, count, first, toServer, executed, StreamLength>>
      BY <1>9 DEF vars, asked, server, reader, client, StreamLength
    <3> QED
      BY <1>2, <1>9, <3>1 DEF BeforeRun, Consumed
  <2> QED
    BY <1>3, <2>1
<1> QED
  BY <1>4, <1>5, <1>6, <1>7, <1>8, <1>9 DEF Next

\* If TCP delivers write by write and nobody is late, what the server runs is
\* the command as the user gave it, all its lines in their order and nothing
\* else, once: also when the command fills the array to its last place and is
\* run before its blank line was read.
THEOREM RunsWhatWasSent == Spec => []RunAsSent
<1>1. Init => OrderInv /\ RunInv /\ StreamInv
  <2>1. Init => OrderInv /\ RunInv
    BY DEF Init, OrderInv, RunInv, Active
  <2>2. Init => StreamInv
    BY DEF Init, StreamInv, ClientInv, BeforeRun, Active
  <2> QED
    BY <2>1, <2>2
<1>2. BasicInv /\ OrderInv /\ RunInv /\ [Next]_vars => OrderInv' /\ RunInv'
  BY OrderStep
<1>3. BasicInv /\ BasicInv' /\ OrderInv /\ StreamInv /\ [Next]_vars => StreamInv'
  BY StreamStep
<1>4. StreamInv => RunAsSent
  BY DEF StreamInv, RunAsSent, AfterRun
<1> QED
  BY <1>1, <1>2, <1>3, <1>4, BasicHolds, PTL DEF Spec

=============================================================================
