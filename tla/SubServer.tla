------------------------------ MODULE SubServer ------------------------------
(***************************************************************************)
(* sub server start (cli.py, subscription/server.py) and the files it      *)
(* serves, which sub rebuild (builder.py) replaces under its feet.         *)
(*                                                                         *)
(* The server process has two threads.  The main thread starts the other   *)
(* one and sleeps; SIGINT and SIGTERM make it run stop, and a signal that  *)
(* arrives during stop runs stop again inside the first.  The serving      *)
(* thread takes one client at a time and waits for its request without a   *)
(* timeout; shutdown waits for it to be done with the client.  HEAD is     *)
(* left out: it does as GET and sends no content.                          *)
(***************************************************************************)
EXTENDS Naturals, FiniteSets, Sequences, SequencesExt

CONSTANTS
  Client,
  File,        \* the formats: mihomo, shadowrocket and singbox
  MaxBuilds,   \* bound on rebuilds
  MaxSignals   \* bound on signals to one server process

VARIABLES
  disk,       \* the subscription files
  build,      \* number of the latest rebuild
  toWrite,    \* formats it has still to write, the one being written first
  written,    \* history: the latest rebuild that wrote each file to its end
  main,       \* where the main thread is
  server,     \* self._server is set
  thread,     \* self._thread is set
  loop,       \* the serving thread
  shutdown,   \* shutdown was requested of the server
  isShutDown, \* the event serve_forever sets when it is left
  signals,    \* signals this process has had
  backlog,    \* requests of the clients that are connected and wait to be served
  request,    \* the one of the client being served
  answer      \* history: the latest answer

filesVars == <<disk, build, toWrite, written>>
mainVars == <<main, server, thread, signals>>
loopVars == <<loop, shutdown, isShutDown>>
clientVars == <<backlog, request, answer>>
serverVars == <<filesVars, mainVars, loopVars, clientVars>>

Formats == SetToSeq(File)

Absent == [build |-> 0, whole |-> FALSE]
\* A request is for a file, and remembers what was written of it when its client
\* connected; one with a wrong token is for nothing.
Unauthorized == "unauthorized"
NoRequest == [client |-> "none", what |-> "none", written |-> 0]
NoAnswer == [status |-> 0]

ServerInit ==
  /\ disk = [f \in File |-> Absent] /\ build = 0 /\ toWrite = <<>>
  /\ written = [f \in File |-> 0]
  /\ main = "off" /\ server = FALSE /\ thread = FALSE /\ signals = 0
  /\ loop = "none" /\ shutdown = FALSE /\ isShutDown = FALSE
  /\ backlog = <<>> /\ request = NoRequest
  /\ answer = NoAnswer

----------------------------------------------------------------------------
\* sub rebuild writes the files one after the other, each in place.
BeginBuild(formats) ==
  /\ toWrite = <<>>
  /\ build < MaxBuilds
  /\ build' = build + 1
  /\ toWrite' = SelectSeq(Formats, LAMBDA f : f \in formats)
  /\ UNCHANGED <<disk, written, mainVars, loopVars, clientVars>>

OpenFile ==
  /\ toWrite # <<>>
  /\ disk[Head(toWrite)].build < build
  /\ disk' = [disk EXCEPT ![Head(toWrite)] = [build |-> build, whole |-> FALSE]]
  /\ UNCHANGED <<build, toWrite, written, mainVars, loopVars, clientVars>>

FillFile ==
  /\ toWrite # <<>>
  /\ disk[Head(toWrite)].build = build
  /\ disk' = [disk EXCEPT ![Head(toWrite)].whole = TRUE]
  /\ written' = [written EXCEPT ![Head(toWrite)] = build]
  /\ toWrite' = Tail(toWrite)
  /\ UNCHANGED <<build, mainVars, loopVars, clientVars>>

BuildDies ==
  /\ toWrite # <<>>
  /\ toWrite' = <<>>
  /\ UNCHANGED <<disk, build, written, mainVars, loopVars, clientVars>>

----------------------------------------------------------------------------
Goto(step) == main' = step

\* The process is gone, with its threads, its socket and its connections.
ProcessEnds ==
  /\ main' = "off" /\ server' = FALSE /\ thread' = FALSE /\ signals' = 0
  /\ loop' = "none" /\ shutdown' = FALSE /\ isShutDown' = FALSE
  /\ backlog' = <<>> /\ request' = NoRequest
  /\ UNCHANGED answer

\* The directory must exist; HTTPServer binds the port and listens.
Bind ==
  /\ main = "off"
  /\ build > 0
  /\ Goto("bound") /\ server' = TRUE
  /\ UNCHANGED <<filesVars, thread, signals, loopVars, clientVars>>

\* Mutation: a certificate that cannot be loaded is passed over.
LoadTlsIgnored ==
  /\ main = "bound"
  /\ Goto("started")
  /\ \/ thread' = TRUE /\ loop' = "starting"
     \/ UNCHANGED <<thread, loop>>
  /\ UNCHANGED <<filesVars, server, signals, shutdown, isShutDown, clientVars>>

\* A certificate that cannot be loaded raises, with self._server set and no thread;
\* the command ends before its signal handlers are installed.
LoadTls ==
  /\ main = "bound"
  /\ \/ /\ Goto("started") /\ thread' = TRUE /\ loop' = "starting"
        /\ UNCHANGED <<server, signals, shutdown, isShutDown, clientVars>>
     \/ ProcessEnds
  /\ UNCHANGED filesVars

Install ==
  /\ main = "started"
  /\ Goto("wait")
  /\ UNCHANGED <<filesVars, server, thread, signals, loopVars, clientVars>>

\* Until the handlers are installed a signal ends the process.
Signal ==
  /\ signals < MaxSignals
  /\ IF main \in {"bound", "started"}
     THEN ProcessEnds
     ELSE /\ main # "off"
          /\ Goto("stop") /\ signals' = signals + 1
          /\ UNCHANGED <<server, thread, loopVars, clientVars>>
  /\ UNCHANGED filesVars

Stop ==
  /\ main = "stop"
  /\ Goto(IF server THEN "shutdown" ELSE "join")
  /\ shutdown' = (shutdown \/ server)
  /\ UNCHANGED <<filesVars, server, thread, signals, loop, isShutDown, clientVars>>

\* shutdown returns when the serving thread has left serve_forever.  It waits for an
\* event, and wait is one step here: in the code a signal may come while wait holds
\* the event's lock, and the nested stop then waits for that lock for ever.
ShutDown ==
  /\ main = "shutdown"
  /\ isShutDown
  /\ Goto("close")
  /\ UNCHANGED <<filesVars, server, thread, signals, loopVars, clientVars>>

\* Clients in the backlog are turned away.
Close ==
  /\ main = "close"
  /\ Goto("clear")
  /\ backlog' = <<>>
  /\ UNCHANGED <<filesVars, server, thread, signals, loopVars, request, answer>>

Clear ==
  /\ main = "clear"
  /\ Goto("join") /\ server' = FALSE
  /\ UNCHANGED <<filesVars, thread, signals, loopVars, clientVars>>

\* The thread is waited for, 5 seconds at most.  The handler then raises Exit, which
\* is an Exception: it ends every stop it interrupted, and the command, with status 1.
Join ==
  /\ main = "join"
  /\ ProcessEnds
  /\ UNCHANGED filesVars

MainStep == LoadTls \/ Install \/ Stop \/ ShutDown \/ Close \/ Clear \/ Join

----------------------------------------------------------------------------
Listening == server /\ main \notin {"clear", "join"}

Serve ==
  /\ loop = "starting"
  /\ loop' = "select" /\ isShutDown' = FALSE
  /\ UNCHANGED <<filesVars, mainVars, shutdown, clientVars>>

LeaveLoop ==
  /\ loop = "select" /\ shutdown
  /\ loop' = "left" /\ shutdown' = FALSE /\ isShutDown' = TRUE
  /\ UNCHANGED <<filesVars, mainVars, clientVars>>

Accept ==
  /\ loop = "select" /\ ~shutdown
  /\ backlog # <<>>
  /\ loop' = "handling"
  /\ request' = Head(backlog)
  /\ backlog' = Tail(backlog)
  /\ UNCHANGED <<filesVars, mainVars, shutdown, isShutDown, answer>>

\* do_GET.
Answer(a) ==
  /\ loop = "answering"
  /\ answer' = a
  /\ loop' = "select"
  /\ request' = NoRequest
  /\ UNCHANGED <<filesVars, mainVars, shutdown, isShutDown, backlog>>

Found == request.what \in File /\ disk[request.what] # Absent

\* A wrong token is refused before the path is looked at.
Refuse ==
  /\ ~Found
  /\ Answer([status |-> IF request.what = Unauthorized THEN 403 ELSE 404])

\* Mutation: the connection is kept for the client's next request.
RespondKeepAlive ==
  /\ Found /\ loop = "answering"
  /\ answer' = [status |-> 200, request |-> request, content |-> disk[request.what]]
  /\ loop' = "handling"
  /\ UNCHANGED <<filesVars, mainVars, shutdown, isShutDown, backlog, request>>

\* Mutation: a file that was sent is kept and sent again.
RespondCached ==
  /\ Found
  /\ Answer([status |-> 200, request |-> request,
             content |-> IF answer.status = 200 /\ answer.request.what = request.what
                         THEN answer.content ELSE disk[request.what]])

\* The file is read whole when the request is answered.
Respond ==
  /\ Found
  /\ Answer([status |-> 200, request |-> request, content |-> disk[request.what]])

LoopStep == Serve \/ LeaveLoop \/ Accept \/ Refuse \/ Respond

----------------------------------------------------------------------------
Connect(c, what) ==
  /\ Listening
  /\ \A i \in DOMAIN backlog : backlog[i].client # c
  /\ request = NoRequest \/ request.client # c
  /\ backlog' = Append(backlog, [client  |-> c,
                                 what    |-> what,
                                 written |-> IF what \in File THEN written[what] ELSE 0])
  /\ UNCHANGED <<filesVars, mainVars, loopVars, request, answer>>

\* The client being served sends its request, or goes away.
Speak ==
  /\ loop = "handling"
  /\ \/ loop' = "answering" /\ UNCHANGED request
     \/ loop' = "select" /\ request' = NoRequest
  /\ UNCHANGED <<filesVars, mainVars, shutdown, isShutDown, backlog, answer>>

ServerNext ==
  \/ \E formats \in (SUBSET File) \ {{}} : BeginBuild(formats)
  \/ OpenFile \/ FillFile \/ BuildDies
  \/ Bind \/ MainStep \/ Signal
  \/ LoopStep
  \/ \E c \in Client, what \in File \cup {Unauthorized} : Connect(c, what)
  \/ Speak

\* Threads are scheduled.
ServerSpec ==
  /\ ServerInit /\ [][ServerNext]_serverVars
  /\ WF_serverVars(MainStep) /\ WF_serverVars(LoopStep)

----------------------------------------------------------------------------
\* Clients get what was rebuilt: the content of an answer is no older than what was
\* written when its client connected, and a part of a file only if that file has
\* been rebuilt, or has begun to be, since.
ServedFresh ==
  answer.status = 200 =>
    /\ answer.content.build >= answer.request.written
    /\ ~answer.content.whole => answer.content.build > answer.request.written

\* The serving thread waits for a client's request without end, and stop waits for the
\* thread.  What is said of them is said of clients that speak or go away.
ClientsSpeak == []<>(loop # "handling")

\* stop comes to its end wherever the serving thread is, whoever is being served and
\* however many signals interrupt it ("Press Ctrl+C to stop."), unless a client stays
\* silent for ever.
StopReturns == ClientsSpeak => ((main = "stop") ~> (main = "off"))

\* A client that connects is served or, by a server that ends, turned away, unless one
\* before it stays silent for ever.
ClientsServed ==
  ClientsSpeak =>
    \A c \in Client :
      (\E i \in DOMAIN backlog : backlog[i].client = c)
        ~> (\A i \in DOMAIN backlog : backlog[i].client # c)
=============================================================================
