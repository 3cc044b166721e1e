------------------------------ MODULE Session ------------------------------
(***************************************************************************)
(* One session of ptrim-client with ptrim-server: manageConnection() at    *)
(* one end, main() of the client at the other, TCP between them.  Each     *)
(* side takes what one read() returns for one message; TCP keeps the order *)
(* of the bytes but may hand over several writes at once or a part of one. *)
(* Running a command is the subject of ServerDevices; here it is what it   *)
(* sends back.                                                             *)
(***************************************************************************)
EXTENDS Integers, Sequences, FiniteSets

CONSTANTS
    Commands,       \* what the user may ask for: [kind, lines]
    NumberLines,    \* lines of a command the server has room for (1024)
    DataLines,      \* lines of a download
    MaxUpdates,     \* bound on the notifications of other clients' changes
    Mishaps,        \* what may go wrong, each once in a session
    MaxMishaps      \* bound on how much of it does

(***************************************************************************)
(* joined   a read returns more than one write                             *)
(* split    a read returns part of a write                                 *)
(* slow     one side waits so long that the other side's time is up        *)
(* gone     the client is stopped by its user                              *)
(* Not a mishap, but noted with them: the client has                       *)
(* left     while the server had still something to send                   *)
(***************************************************************************)
AllMishaps == {"joined", "split", "slow", "gone"}

Kinds == {"show", "plain", "upload", "download"}

\* A line is told apart by how it begins: the server takes an empty line for
\* the end of a command, "!" for goodbye and "." for a sign of life.
Firsts == {"text", "empty", "bang", "dot"}
Ending == {"empty", "bang", "dot"}
Line(n, part, first) == [n |-> n, part |-> part, first |-> first]
EndLine  == Line(0, "whole", "empty")
QuitLine == Line(0, "whole", "bang")
CodeLine == Line(0, "whole", "text")

ASSUME CommandsAssumption ==
    \A c \in Commands : c.kind \in Kinds /\ c.lines \in Seq(Firsts) /\ Len(c.lines) > 1
ASSUME BoundsAssumption ==
    /\ NumberLines \in Nat \ {0, 1} /\ DataLines \in Nat \ {0} /\ MaxUpdates \in Nat
    /\ MaxMishaps \in Nat
ASSUME MishapsAssumption == Mishaps \subseteq AllMishaps

VARIABLES
    command,    \* what the user asked for, identifier and file included
    codeOk,     \* the user gave the right security code
    cpc,        \* where the client is
    written,    \* lines of the command the client has written
    shown,      \* lines of data it has printed
    spc,        \* where the server's thread is
    commands,   \* its lines: those read, then what earlier commands left
    count,      \* how many it has read of this command
    first,      \* buffer[0]
    replies,    \* what the command that runs has still to send
    executed,   \* the commands run
    toServer, toClient,     \* what is on its way
    conn,       \* the ends that are open
    reset,      \* the ends that have sent to one that was closed; "aborted" if
                \* the server closed with something unread, which resets too
    updates,
    happened

client == <<cpc, written, shown>>
reader == <<commands, count, first>>
server == <<spc, reader, replies, executed>>
asked  == <<command, codeOk>>
vars == <<asked, client, server, toServer, toClient, conn, reset, updates, happened>>

Messages == {"about", "devices", "ready", "incorrect", "accepted", "result", "data",
             "update", "part"}

TypeOK ==
    /\ command \in Commands /\ codeOk \in BOOLEAN
    /\ cpc \in {"code", "welcome", "lines", "finish", "first", "second", "answer",
                "download", "quit", "end", "spin", "killed"}
    /\ written \in 0 .. Len(command.lines)
    /\ shown \in 0 .. DataLines
    /\ spc \in {"code", "about", "ready", "reading", "running", "close", "end", "killed"}
    /\ Len(commands) <= NumberLines /\ count \in 0 .. Len(commands) /\ first \in Firsts
    /\ replies \in Seq(Messages)
    /\ toClient \in Seq(Messages)
    /\ conn \subseteq {"client", "server"} /\ reset \subseteq {"client", "server", "aborted"}
    /\ updates \in 0 .. MaxUpdates
    /\ happened \subseteq Mishaps \cup {"left"}

\* connect() has returned.
Init ==
    /\ command \in Commands /\ codeOk \in BOOLEAN
    /\ cpc = "code" /\ written = 0 /\ shown = 0
    /\ spc = "code" /\ commands = <<>> /\ count = 0 /\ first = "text" /\ replies = <<>>
    /\ executed = <<>>
    /\ toServer = <<>> /\ toClient = <<>>
    /\ conn = {"client", "server"} /\ reset = {}
    /\ updates = 0
    /\ happened = {}

Happens(m) ==
    /\ m \in Mishaps \ happened
    /\ Cardinality(happened \ {"left"}) < MaxMishaps
    /\ happened' = happened \cup {m}
NoMishap == UNCHANGED happened
Only(cond, m) == IF cond THEN Happens(m) ELSE NoMishap

-----------------------------------------------------------------------------
(* The client.                                                             *)

\* write(): to a server that has closed, the first is lost and answered by a
\* reset; when that has arrived a write raises SIGPIPE, which ends the program.
Write(line, next) ==
    IF "server" \in conn
    THEN /\ toServer' = Append(toServer, line)
         /\ cpc' = next
         /\ UNCHANGED <<reset, happened>>
    ELSE /\ UNCHANGED toServer
         /\ reset' = reset \cup {"client"}
         /\ LET told == reset \cap {"client", "aborted"} # {} IN
            \/ ~told /\ cpc' = next /\ NoMishap
            \/ told /\ cpc' = next /\ Happens("slow")
            \/ told /\ cpc' = "killed" /\ NoMishap

SendCode ==
    /\ cpc = "code"
    /\ Write(CodeLine, "welcome")
    /\ UNCHANGED <<asked, written, shown, server, toClient, conn, updates>>

\* What a read can return: the first k messages, or a part of the first.
Take(k) ==
    /\ k \in DOMAIN toClient
    /\ toClient' = SubSeq(toClient, k + 1, Len(toClient))
    /\ Only(k > 1, "joined")
TakePart ==
    /\ toClient # <<>>
    /\ Head(toClient) # "part"
    /\ toClient' = <<"part">> \o Tail(toClient)
    /\ Happens("split")
DataIn(k) == Cardinality({j \in 1 .. k : toClient[j] = "data"})
EndOfFile == toClient = <<>> /\ "server" \notin conn /\ "aborted" \notin reset

\* An error ends the program.
ReadError ==
    /\ cpc \in {"welcome", "first", "second", "answer", "download"}
    /\ toClient = <<>> /\ "aborted" \in reset
    /\ cpc' = "end"
    /\ conn' = conn \ {"client"}
    /\ UNCHANGED <<asked, written, shown, server, toServer, toClient, reset, updates, happened>>

Alone(msg, k) == k = 1 /\ toClient[1] = msg

\* Slip: a refused client keeps waiting to be told [ready].
WelcomedReadyOnly(k) == Alone("ready", k)

\* The loop ends with a read of just [ready], or of just [incorrect code],
\* after which it goes on as if it had been let in.
Welcomed(k) == Alone("ready", k) \/ Alone("incorrect", k)

AwaitReady ==
    /\ cpc = "welcome"
    /\ \/ \E k \in DOMAIN toClient :
             /\ Take(k)
             /\ cpc' = IF ~Welcomed(k) THEN "welcome"
                       ELSE IF command.kind = "show" THEN "quit" ELSE "lines"
       \/ TakePart /\ UNCHANGED cpc
       \/ EndOfFile /\ cpc' = "spin" /\ UNCHANGED <<toClient, happened>>
    /\ UNCHANGED <<asked, written, shown, server, toServer, conn, reset, updates>>

\* The arguments, then for an upload the lines of the file, then a blank line.
WriteLine ==
    /\ cpc = "lines"
    /\ LET n == written + 1 IN
       /\ Write(Line(n, "whole", command.lines[n]),
                IF n = Len(command.lines) THEN "finish" ELSE "lines")
       /\ written' = n
    /\ UNCHANGED <<asked, shown, server, toClient, conn, updates>>

FinishCommand ==
    /\ cpc = "finish"
    /\ Write(EndLine, CASE command.kind = "upload"   -> "first"
                        [] command.kind = "download" -> "download"
                        [] OTHER                     -> "answer")
    /\ UNCHANGED <<asked, written, shown, server, toClient, conn, updates>>

\* Slip: an upload is answered like any other command.
AnsweredOnce == "quit"

Answered == CASE cpc = "first"  -> "second"
              [] cpc = "second" -> "answer"
              [] cpc = "answer" -> "quit"

\* An upload prints the next two reads; then, as any command but a download,
\* one more.
ReadAnswer ==
    /\ cpc \in {"first", "second", "answer"}
    /\ \/ \E k \in DOMAIN toClient : Take(k) /\ shown' = shown + DataIn(k)
       \/ TakePart /\ UNCHANGED shown
       \/ EndOfFile /\ UNCHANGED <<shown, toClient, happened>>
    /\ cpc' = Answered
    /\ UNCHANGED <<asked, written, server, toServer, conn, reset, updates>>

\* A download prints until a read of just [ready], or until the five seconds
\* it has for waiting, over all reads, are used up.
ReadDownload ==
    /\ cpc = "download"
    /\ \/ \E k \in DOMAIN toClient :
             /\ Take(k)
             /\ IF Alone("ready", k)
                THEN cpc' = "quit" /\ UNCHANGED shown
                ELSE UNCHANGED cpc /\ shown' = shown + DataIn(k)
       \/ TakePart /\ UNCHANGED <<cpc, shown>>
       \/ EndOfFile /\ cpc' = "spin" /\ UNCHANGED <<shown, toClient, happened>>
    /\ UNCHANGED <<asked, written, server, toServer, conn, reset, updates>>

\* The server has nothing more to say before it hears from the client.
Silent == spc = "reading" /\ toServer = <<>> /\ first \notin Ending

DownloadTimeout ==
    /\ cpc = "download"
    /\ toClient = <<>> /\ "server" \in conn
    /\ Only(~Silent, "slow")
    /\ cpc' = "quit"
    /\ UNCHANGED <<asked, written, shown, server, toServer, toClient, conn, reset, updates>>

\* "!" and close(), with or without having been told [ready].
Quit ==
    /\ cpc = "quit"
    /\ IF "server" \in conn
       THEN toServer' = Append(toServer, QuitLine) /\ cpc' = "end"
       ELSE UNCHANGED toServer /\ cpc' \in {"end", "killed"}
    /\ conn' = conn \ {"client"}
    /\ happened' = IF Silent THEN happened ELSE happened \cup {"left"}
    /\ UNCHANGED <<asked, written, shown, server, toClient, reset, updates>>

\* The kernel closes the socket of a client that was killed.
Stopped ==
    /\ cpc \notin {"end", "spin"}
    /\ "client" \in conn
    /\ IF cpc = "killed" THEN NoMishap ELSE Happens("gone")
    /\ cpc' = IF cpc = "killed" THEN "killed" ELSE "end"
    /\ conn' = conn \ {"client"}
    /\ UNCHANGED <<asked, written, shown, server, toServer, toClient, reset, updates>>

Client == SendCode \/ AwaitReady \/ ReadError \/ WriteLine \/ FinishCommand \/ ReadAnswer
          \/ ReadDownload \/ DownloadTimeout \/ Quit \/ (cpc = "killed" /\ Stopped)

-----------------------------------------------------------------------------
(* The server: manageConnection().                                         *)

\* send(): to a client that has closed, the first is answered by a reset; after
\* it a send raises SIGPIPE, which ends the server, if the reset has arrived.
Send(msgs, next) ==
    IF "client" \in conn
    THEN toClient' = toClient \o msgs /\ spc' = next /\ UNCHANGED <<conn, reset>>
    ELSE /\ reset' = reset \cup {"server"}
         /\ UNCHANGED toClient
         /\ \/ spc' = next /\ UNCHANGED conn
            \/ "server" \in reset /\ spc' = "killed" /\ conn' = conn \ {"server"}

Quiet == UNCHANGED <<toClient, conn, reset>>

\* What a read can return, as for the client.  The second part of a line that
\* was split is text, or no more than the end of the line.
Receive(line) ==
    \/ \E k \in DOMAIN toServer :
          /\ line = Head(toServer)
          /\ toServer' = SubSeq(toServer, k + 1, Len(toServer))
          /\ Only(k > 1, "joined")
    \/ /\ toServer # <<>>
       /\ Head(toServer).part = "whole"
       /\ Head(toServer).first # "empty"
       /\ line = [Head(toServer) EXCEPT !.part = "head"]
       /\ \E f \in {"text", "empty"} :
             toServer' = <<Line(line.n, "tail", f)>> \o Tail(toServer)
       /\ Happens("split")
Received == {Head(toServer), [Head(toServer) EXCEPT !.part = "head"]}

\* Slip: the client is told, but not sent away.
RefuseOnly == Send(<<"incorrect">>, "ready")

Refuse == Send(<<"incorrect">>, "close")

\* The code has to be there within five seconds, in a read of its own.
ReadCode ==
    /\ spc = "code"
    /\ toServer # <<>>
    /\ \E line \in Received :
          /\ Receive(line)
          /\ IF codeOk /\ line = CodeLine
             THEN spc' = "about" /\ Quiet
             ELSE Refuse
    /\ UNCHANGED <<asked, client, reader, replies, executed, updates>>

\* A client that has hung up sends the empty code.
NoCode ==
    /\ spc = "code"
    /\ toServer = <<>>
    /\ IF "client" \in conn
       THEN Happens("slow") /\ spc' = "close" /\ Quiet
       ELSE NoMishap /\ Refuse
    /\ UNCHANGED <<asked, client, reader, replies, executed, toServer, updates>>

Welcome ==
    /\ spc = "about"
    /\ Send(<<"about", "devices">>, "ready")
    /\ UNCHANGED <<asked, client, reader, replies, executed, toServer, updates, happened>>

Ready ==
    /\ spc = "ready"
    /\ Send(<<"ready">>, "reading")
    /\ count' = 0
    /\ UNCHANGED <<asked, client, commands, first, replies, executed, toServer, updates, happened>>

\* Slip: the limit is left to the size of the file.
MoreLinesUnbounded == spc = "reading" /\ first \notin Ending

\* Slip: the last place is kept free.
MoreLinesShort == spc = "reading" /\ first \notin Ending /\ count < NumberLines - 1

MoreLines == spc = "reading" /\ first \notin Ending /\ count < NumberLines

Store(line) ==
    /\ commands' = IF count < Len(commands) THEN [commands EXCEPT ![count + 1] = line]
                   ELSE Append(commands, line)
    /\ count' = count + 1
    /\ first' = line.first

ReadLine ==
    /\ MoreLines
    /\ toServer # <<>>
    /\ \E line \in Received : Receive(line) /\ Store(line)
    /\ UNCHANGED <<asked, client, spc, replies, executed, toClient, conn, reset, updates>>

\* Five minutes pass for a client that waits, loops or has gone; for one that
\* has something to do they are long.
ClientBlocked ==
    \/ cpc \in {"welcome", "first", "second", "answer"} /\ toClient = <<>>
    \/ cpc \in {"spin", "end", "killed"}

GiveUp ==
    /\ commands' = IF commands = <<>> THEN <<QuitLine>>
                   ELSE [commands EXCEPT ![1].first = "bang"]
    /\ first' = "bang"
    /\ UNCHANGED count

\* Slip: the end of the stream leaves no line.
ReadAgain == "client" \notin conn /\ UNCHANGED <<reader, happened>>

HungUp == "client" \notin conn /\ Store(EndLine) /\ NoMishap

\* Nothing comes: a read of 0 bytes leaves an empty line; an error, which a reset
\* may cause, and five minutes without a line are taken for "!".
ReadNothing ==
    /\ MoreLines
    /\ toServer = <<>>
    /\ \/ HungUp
       \/ /\ "client" \in conn \/ "server" \in reset
          /\ GiveUp
          /\ Only(~ClientBlocked, "slow")
    /\ UNCHANGED <<asked, client, spc, replies, executed, toServer, toClient, conn, reset, updates>>

\* Slip: it is the last line, in the buffer, that is looked at.
GoodbyeLast == first \in {"bang", "empty"}

Goodbye == commands[1].first \in {"bang", "empty"}

Acceptable == ~Goodbye /\ first # "dot"

\* The lines a command is made of go up to the first empty one.
Arguments ==
    LET blank == {k \in DOMAIN commands : commands[k].first = "empty"}
    IN  IF blank = {} THEN commands
        ELSE SubSeq(commands, 1, (CHOOSE k \in blank : \A j \in blank : k <= j) - 1)

\* What a command sends: an error if its identifier or its word is damaged.
Answers(lines) ==
    IF Len(lines) < 2 \/ \E n \in 1 .. 2 : lines[n] # Line(n, "whole", "text")
    THEN {<<"result">>}
    ELSE CASE command.kind = "download" -> {[n \in 1 .. DataLines |-> "data"]}
           [] command.kind = "upload"   -> {<<"result">>}
           [] OTHER                     -> {<<>>, <<"result">>}

\* Slip: the buffer still holds the line that ended the command.
KeepBuffer == UNCHANGED first

ClearBuffer == first' = "text"

\* The command is complete, or there is no room for more: it is run, or not.
Complete ==
    /\ spc = "reading"
    /\ ~MoreLines
    /\ ClearBuffer
    /\ IF Acceptable
       THEN /\ executed' = Append(executed, Arguments)
            /\ replies' \in Answers(Arguments)
            /\ Send(<<"accepted">>, "running")
       ELSE /\ spc' = IF Goodbye THEN "close" ELSE "ready"
            /\ UNCHANGED <<executed, replies>> /\ Quiet
    /\ UNCHANGED <<asked, client, commands, count, toServer, updates, happened>>

\* Slip: the loop over the lines ends one too early.
OneLeft == Len(replies) <= 1

NoneLeft == replies = <<>>

Reply ==
    /\ spc = "running"
    /\ IF NoneLeft
       THEN spc' = "ready" /\ UNCHANGED replies /\ Quiet
       ELSE Send(<<Head(replies)>>, "running") /\ replies' = Tail(replies)
    /\ UNCHANGED <<asked, client, reader, executed, toServer, updates, happened>>

CloseSession ==
    /\ spc = "close"
    /\ spc' = "end"
    /\ conn' = conn \ {"server"}
    /\ reset' = IF toServer = <<>> THEN reset ELSE reset \cup {"aborted"}
    /\ UNCHANGED <<asked, client, reader, replies, executed, toServer, toClient,
                   updates, happened>>

Server == ReadCode \/ NoCode \/ Welcome \/ Ready \/ ReadLine \/ ReadNothing
          \/ Complete \/ Reply \/ CloseSession

\* Another thread sends a change to every client, whatever it is doing, with
\* several calls of send(): the first may be answered before the last is made.
Update ==
    /\ updates < MaxUpdates
    /\ "server" \in conn
    /\ updates' = updates + 1
    /\ \/ Send(<<"update">>, spc)
       \/ /\ "client" \notin conn
          /\ spc' = "killed"
          /\ conn' = {}
          /\ UNCHANGED <<toClient, reset>>
    /\ UNCHANGED <<asked, client, reader, replies, executed, toServer, happened>>

Next == Client \/ Server \/ Stopped \/ Update

Spec == Init /\ [][Next]_vars

\* Both programs are scheduled, select() returns when its time is up.
FairSpec == Spec /\ WF_vars(Client) /\ WF_vars(Server)

-----------------------------------------------------------------------------
Never(S) == happened \cap S = {}
Intact == Never({"joined", "split", "slow", "gone"})
Plain == \A n \in DOMAIN command.lines : command.lines[n] = "text"
Fits == Len(command.lines) <= NumberLines
Whole == [n \in DOMAIN command.lines |-> Line(n, "whole", "text")]

\* A client without the code has nothing run for it, whatever it sends and
\* however it is cut up on the way (ptrim-server.cc:725).
NothingWithoutCode == executed # <<>> => codeOk

\* What is run is the command as the user gave it, all its lines in their
\* order and nothing else, once: if TCP delivers write by write, nobody is late
\* and no line is one of the three the protocol gives a meaning to.
RunAsSent == Intact /\ Plain /\ Fits => executed \in {<<>>, <<Whole>>}

Regular(run) == \A k \in DOMAIN run : run[k].first = "text"

\* Nothing is run twice, and no line becomes part of two commands, even if lines
\* are joined, split, cut off or too many: what the array of lines holds of an
\* earlier command is not run again (ptrim-server.cc:781).  Except where a "!"
\* came in the middle: it runs the command, with what the array holds after it.
NoLineTwice ==
    \A i, j \in DOMAIN executed :
        Regular(executed[i]) /\ Regular(executed[j]) =>
            \A k \in DOMAIN executed[i], l \in DOMAIN executed[j] :
                executed[i][k] = executed[j][l] => i = j /\ k = l

\* A download that ended with [ready] or with silence was printed in full.
DownloadWhole ==
    (command.kind = "download" /\ cpc = "end" /\ Intact /\ Plain /\ codeOk)
        => shown = DataLines

\* A client that hangs up with answers outstanding can end the server, for all
\* clients: a send after the reset raises SIGPIPE, which nothing handles.  Left
\* to themselves (no update, no accident, no file that looks like two commands)
\* only those other than upload and download do: the client reads just once.
Survives ==
    spc = "killed" /\ Intact /\ updates = 0 /\ Plain /\ Fits => command.kind = "plain"

\* The server waits for the blank line before it processes a command: none is
\* run before the client has written all its lines (ptrim-server.h:126).
BlankLineFirst ==
    executed # <<>> /\ Plain /\ Fits => written = Len(command.lines)

\* A session always comes to its end: the slot of the client is given back.
SessionEnds == <>(spc \in {"end", "killed"})

\* So does the client, if it gets [ready] as a read of its own.
ClientEnds == <>(cpc \in {"end", "killed"}) \/ <>~Intact

\* A command sent with the right code is run.
CommandRuns ==
    (codeOk /\ Plain /\ Fits /\ command.kind # "show")
        => <>(executed = <<Whole>>) \/ <>~Intact

=============================================================================
