------------------------------- MODULE Tarati -------------------------------
(***************************************************************************)
(* The remote Tcl workbench: a performance model that is a Tarati (XML-RPC *)
(* over TCP) server, and TclTalk processes that are its clients.           *)
(*                                                                         *)
(* The server is one thread.  While it simulates it looks for requests at  *)
(* the end of every cycle (ape.cpp); when it has progress to report it     *)
(* sends a byte on a notification channel, and sleeps and works until a    *)
(* client has fetched the reports ("getprogress"), has run the workbench's *)
(* script on them and has said so ("doneprogress").  Nobody polls: signal  *)
(* handlers, which interrupt the thread between any two of its steps, set  *)
(* a flag and a semaphore, and the server looks at its sockets only when   *)
(* the flag is set and sleeps only while the semaphore is 0.               *)
(*                                                                         *)
(* A request is two parts on the wire, its header and its body, and is     *)
(* delivered one part at a time; an answer is written as a whole or, when  *)
(* it does not fit the socket's buffer, in two parts.  A client may die.   *)
(***************************************************************************)
EXTENDS Integers, Sequences, FiniteSets, SequencesExt

CONSTANTS Clients, MaxReports, MaxDeaths, MaxSema
CONSTANT None      \* no client

Listener == "listener"    \* the server's own socket, among the sockets

ASSUME TaratiAssumption ==
    /\ None \notin Clients /\ Listener \notin Clients
    /\ MaxReports \in Nat \ {0} /\ MaxDeaths \in Nat /\ MaxSema \in Nat

VARIABLES
    pc,          \* what the server does next
    back,        \* where Server::Work returns to, while it works
    ready,       \* the sockets select has found ready and that are not served yet
    accepting,   \* the client whose connection is accepted but has no signal yet
    needs,       \* ServerNeedsAttention
    sema,        \* ServerAttentionSema
    signals,     \* the signals that are pending at the server
    reported,    \* how many reports were made (AWB_Progress), a history
    pending,     \* pendingProgress
    notifyState, \* AWB_InformProgress's static state
    channel,     \* notifyChannel of the server: its state and the client of it
    bytes,       \* bytes on the notification channel the client has not read
    links,       \* for every client, its connection for requests
    client,      \* for every client, what it does next, and the reports it has
    seen,        \* the reports the workbench's script was run on, a history
    deaths

serverVars == << pc, back, ready, accepting, needs, sema, reported, pending, notifyState >>
taratiVars == << pc, back, ready, accepting, needs, sema, signals, reported, pending,
                 notifyState, channel, bytes, links, client, seen, deaths >>

NoLink == [state |-> "none",      \* none, backlog, accepted, open, closed
           wire |-> << >>,        \* parts that are on their way to the server
           inbox |-> << >>,       \* parts that the server can read
           reading |-> "header",  \* _connectionState: header, request, response
           room |-> TRUE,         \* the answer can be written
           call |-> "none",       \* the request that is outstanding
           answer |-> "none",     \* the answer: none, ok, fault
           reports |-> << >>]     \* the answer's value

(* Clients start when they like ("off"), when another is gone ("later") or *)
(* never; the first reports may have been processed before.                *)
TaratiInitWith(starts, made) ==
    /\ pc = "cycle" /\ back = "cycle" /\ ready = {} /\ accepting = None
    /\ needs = FALSE /\ sema = 0
    /\ signals = {"SIGIO"}      \* manufactured by setAsyncIo
    /\ reported = made /\ pending = << >> /\ notifyState = "initial"
    /\ channel = [state |-> "none", of |-> None] /\ bytes = 0
    /\ links = [c \in Clients |-> NoLink]
    /\ client = [c \in Clients |-> [pc |-> starts[c], message |-> << >>, exiting |-> FALSE]]
    /\ seen = [i \in 1..made |-> i] /\ deaths = 0

TaratiInit == TaratiInitWith([c \in Clients |-> "off"], 0)

-----------------------------------------------------------------------------
(* The sockets.                                                            *)

Up == pc \notin {"ended", "killed"}     \* the server's process lives

Gone(c) == client[c].pc = "gone"

(* The listening socket is readable, or a connection has a part to be read *)
(* or room for the rest of an answer.                                      *)
ListenerReady == \E c \in Clients : links[c].state = "backlog"

LinkReady(c) ==
    /\ links[c].state = "open"
    /\ \/ links[c].reading = "response" /\ (links[c].room \/ links[c].inbox # << >>)
       \/ links[c].reading # "response" /\ links[c].inbox # << >>

ReadyNow == (IF ListenerReady THEN {Listener} ELSE {}) \cup {c \in Clients : LinkReady(c)}

Started == {"setup", "open", "connect", "select", "ping", "get", "script", "command",
            "close", "done"}

Raise(s) == signals' = IF Up THEN signals \cup {s} ELSE signals

-----------------------------------------------------------------------------
(* The signal handlers.                                                    *)

(* IoAttention.                                                            *)
IoAttention ==
    /\ Up /\ "SIGIO" \in signals
    /\ signals' = signals \ {"SIGIO"}
    /\ sema' = sema + 1 /\ needs' = TRUE
    /\ UNCHANGED << pc, back, ready, accepting, reported, pending, notifyState, channel,
                    bytes, links, client, seen, deaths >>

(* TclBeamer::NotifyClient sends a byte.  When the client is gone the byte *)
(* may still be taken, or the channel is known to be broken.               *)
Sent(n) == bytes' = IF Gone(channel.of) THEN bytes ELSE bytes + n

(* NotifyAttention tries the channel by a byte; a broken channel is made a *)
(* SIGPIPE, which nobody handles.                                          *)
NotifyAttention ==
    /\ Up /\ "SIGUSR1" \in signals
    /\ IF channel.state \in {"accepted", "connected"}
       THEN \/ /\ Sent(1) /\ signals' = (signals \ {"SIGUSR1"}) \cup {"SIGIO"}
               /\ UNCHANGED pc
            \/ /\ Gone(channel.of)
               /\ pc' = "killed" /\ signals' = {} /\ UNCHANGED bytes
       ELSE /\ signals' = (signals \ {"SIGUSR1"}) \cup {"SIGIO"}
            /\ UNCHANGED << pc, bytes >>
    /\ UNCHANGED << back, ready, accepting, needs, sema, reported, pending, notifyState,
                    channel, links, client, seen, deaths >>

-----------------------------------------------------------------------------
(* The server's thread.                                                    *)

Elsewhere == UNCHANGED << links, client, seen, deaths >>

(* The actions of commands, between two calls of SYS_Execute.              *)
AWB_Progress ==
    /\ pc \in {"cycle", "actions"} /\ reported < MaxReports - 1
    /\ reported' = reported + 1 /\ pending' = Append(pending, reported + 1)
    /\ pc' = "actions"
    /\ UNCHANGED << back, ready, accepting, needs, sema, signals, notifyState,
                    channel, bytes >> /\ Elsewhere

(* SYS_Execute looks for work at the end of a cycle.                       *)
EndOfCycle ==
    /\ pc = "cycle" /\ needs
    /\ pc' = "work" /\ back' = "cycle"
    /\ UNCHANGED << ready, accepting, needs, sema, signals, reported, pending,
                    notifyState, channel, bytes >> /\ Elsewhere

(* AWB_InformProgress, called by the controller's loop and by AWB_Exit,    *)
(* which makes the last report first.                                      *)
AWB_InformProgress ==
    /\ \/ pc = "actions" /\ UNCHANGED << reported, pending >>
       \/ /\ pc = "cycle" /\ reported = MaxReports - 1
          /\ reported' = MaxReports /\ pending' = Append(pending, MaxReports)
    /\ pc' = "inform"
    /\ notifyState' = IF notifyState = "initial" THEN "listen" ELSE notifyState
    /\ IF notifyState = "accepted" THEN Sent(1) ELSE UNCHANGED bytes
    /\ UNCHANGED << back, ready, accepting, needs, sema, signals, channel >> /\ Elsewhere

(* The loop's condition.                                                   *)
Informed ==
    /\ pc = "inform" /\ pending = << >>
    /\ pc' = IF reported = MaxReports THEN "ended" ELSE "cycle"
    /\ signals' = IF reported = MaxReports THEN {} ELSE signals
    /\ UNCHANGED << back, ready, accepting, needs, sema, reported, pending, notifyState,
                    channel, bytes >> /\ Elsewhere

NothingToAccept ==
    /\ pc = "inform" /\ pending # << >>
    /\ notifyState = "accepted" \/ channel.state \in {"none", "listening"}
    /\ pc' = "wait"
    /\ UNCHANGED << back, ready, accepting, needs, sema, signals, reported, pending,
                    notifyState, channel, bytes >> /\ Elsewhere

(* TclBeamer::NotifyAccept: the connection, then its signal.               *)
NotifyAccept ==
    /\ pc = "inform" /\ pending # << >>
    /\ notifyState = "listen" /\ channel.state = "backlog"
    /\ channel' = [channel EXCEPT !.state = "accepted"] /\ pc' = "arm"
    /\ UNCHANGED << back, ready, accepting, needs, sema, signals, reported, pending,
                    notifyState, bytes >> /\ Elsewhere

NotifyArmed ==
    /\ pc = "arm"
    /\ channel' = [channel EXCEPT !.state = "connected"]
    /\ Raise("SIGUSR1") /\ pc' = "notify"
    /\ UNCHANGED << back, ready, accepting, needs, sema, reported, pending,
                    notifyState, bytes >> /\ Elsewhere

NotifyClientSilently ==   \* as NotifyClient, without the byte for the new client
    /\ pc = "notify"
    /\ notifyState' = "accepted" /\ pc' = "wait"
    /\ UNCHANGED << back, ready, accepting, needs, sema, signals, reported, pending,
                    channel, bytes >> /\ Elsewhere

NotifyClient ==
    /\ pc = "notify"
    /\ notifyState' = "accepted" /\ Sent(1) /\ pc' = "wait"
    /\ UNCHANGED << back, ready, accepting, needs, sema, signals, reported, pending,
                    channel >> /\ Elsewhere

(* Server::Wait, and Server::Work after it.                                *)
Wait ==
    /\ pc = "wait" /\ sema > 0
    /\ sema' = sema - 1 /\ pc' = "woken"
    /\ UNCHANGED << back, ready, accepting, needs, signals, reported, pending, notifyState,
                    channel, bytes >> /\ Elsewhere

Woken ==
    /\ pc = "woken"
    /\ pc' = IF needs THEN "work" ELSE "inform"
    /\ back' = IF needs THEN "inform" ELSE back
    /\ UNCHANGED << ready, accepting, needs, sema, signals, reported, pending,
                    notifyState, channel, bytes >> /\ Elsewhere

(* Server::Work: the flag and the semaphore are reset before the sockets   *)
(* are looked at.                                                          *)
ResetNeeds ==
    /\ pc = "work" /\ needs' = FALSE /\ pc' = "reset"
    /\ UNCHANGED << back, ready, accepting, sema, signals, reported, pending,
                    notifyState, channel, bytes >> /\ Elsewhere

ResetSema ==
    /\ pc = "reset" /\ sema' = 0 /\ pc' = "select"
    /\ UNCHANGED << back, ready, accepting, needs, signals, reported, pending,
                    notifyState, channel, bytes >> /\ Elsewhere

(* XmlRpcDispatch::work: one round.                                        *)
Select ==
    /\ pc = "select" /\ ready' = ReadyNow /\ pc' = "serve"
    /\ UNCHANGED << back, accepting, needs, sema, signals, reported, pending,
                    notifyState, channel, bytes >> /\ Elsewhere

(* Another round while the clock has not moved; MaxSema bounds the signals *)
(* that may arrive meanwhile.                                              *)
SelectAgain ==
    /\ pc = "serve" /\ ready = {} /\ sema < MaxSema /\ pc' = "select"
    /\ UNCHANGED << back, ready, accepting, needs, sema, signals, reported, pending,
                    notifyState, channel, bytes >> /\ Elsewhere

WorkDone ==
    /\ pc = "serve" /\ ready = {} /\ pc' = back /\ back' = "cycle"
    /\ UNCHANGED << ready, accepting, needs, sema, signals, reported, pending,
                    notifyState, channel, bytes >> /\ Elsewhere

(* XmlRpcServer::acceptConnection: the connection, then its signal.        *)
AcceptConnection ==
    /\ pc = "serve" /\ Listener \in ready
    /\ \E c \in Clients :
         /\ links[c].state = "backlog"
         /\ links' = [links EXCEPT ![c].state = "accepted"] /\ accepting' = c
    /\ ready' = ready \ {Listener} /\ pc' = "armLink"
    /\ UNCHANGED << back, needs, sema, signals, reported, pending, notifyState, channel,
                    bytes, client, seen, deaths >>

LinkArmedSilently ==   \* as LinkArmed, without the manufactured signal
    /\ pc = "armLink"
    /\ links' = [links EXCEPT ![accepting].state = "open"]
    /\ accepting' = None /\ pc' = "serve"
    /\ UNCHANGED << back, ready, needs, sema, signals, reported, pending, notifyState,
                    channel, bytes, client, seen, deaths >>

LinkArmed ==
    /\ pc = "armLink"
    /\ links' = [links EXCEPT ![accepting].state = "open"]
    /\ accepting' = None /\ Raise("SIGIO") /\ pc' = "serve"
    /\ UNCHANGED << back, ready, needs, sema, reported, pending, notifyState, channel,
                    bytes, client, seen, deaths >>

-----------------------------------------------------------------------------
(* XmlRpcServerConnection::handleEvent for the connection of client c.     *)

(* What can be read ends with the body of a request.                       *)
Complete(l) ==
    \/ l.reading = "header" /\ Len(l.inbox) >= 2 /\ l.inbox[2] = "body"
    \/ l.reading = "request" /\ Len(l.inbox) >= 1 /\ l.inbox[1] = "body"

Execute(c, kind, reports) ==
    \* written as a whole, or as far as there is room (only the answer to Args
    \* is big); to a client that is gone it fails, or is answered by a reset
    \/ /\ ~ Gone(c)
       /\ \E r \in {"header"} \cup (IF links[c].call = "setup" THEN {"response"} ELSE {}) :
            links' = [links EXCEPT ![c].inbox = << >>, ![c].reading = r, ![c].room = (r = "header"),
                                   ![c].answer = kind, ![c].reports = reports]
    \/ /\ Gone(c)
       /\ \E s \in {"open", "closed"} :
            links' = [links EXCEPT ![c] = [NoLink EXCEPT
                        !.state = s, !.wire = IF s = "open" THEN << "eof" >> ELSE << >>]]

Serving(c) == pc = "serve" /\ c \in ready /\ ready' = ready \ {c}

(* Requests that change nothing: the versions and directories that are     *)
(* asked for first, a ping, and commands of the workbench's script.        *)
ExecuteOther(c) ==
    /\ Serving(c) /\ links[c].reading # "response" /\ Complete(links[c])
    /\ links[c].call \in {"setup", "command", "ping"}
    /\ Execute(c, "ok", << >>)
    /\ UNCHANGED << pc, back, accepting, needs, sema, signals, reported, pending,
                    notifyState, channel, bytes, client, seen, deaths >>

ExecuteOpen(c) ==     \* NotifyChannelOpen; a second channel is refused
    /\ Serving(c) /\ links[c].reading # "response" /\ Complete(links[c])
    /\ links[c].call = "open"
    /\ IF channel.state = "none"
       THEN /\ channel' = [state |-> "listening", of |-> c]
            /\ Raise("SIGIO") /\ Execute(c, "ok", << >>)
       ELSE Execute(c, "fault", << >>) /\ UNCHANGED << channel, signals >>
    /\ UNCHANGED << pc, back, accepting, needs, sema, reported, pending, notifyState,
                    bytes, client, seen, deaths >>

ExecuteClose(c) ==    \* NotifyChannelClose closes both sockets
    /\ Serving(c) /\ links[c].reading # "response" /\ Complete(links[c])
    /\ links[c].call = "close"
    /\ channel' = [channel EXCEPT !.state = "none"] /\ bytes' = 0
    /\ Execute(c, IF channel.state = "none" THEN "fault" ELSE "ok", << >>)
    /\ UNCHANGED << pc, back, accepting, needs, sema, signals, reported, pending,
                    notifyState, client, seen, deaths >>

GetAndClear(c) ==      \* as GetProgress, and the reports are cleared
    /\ Serving(c) /\ links[c].reading # "response" /\ Complete(links[c])
    /\ links[c].call = "get"
    /\ pending' = << >> /\ Execute(c, "ok", pending)
    /\ UNCHANGED << pc, back, accepting, needs, sema, signals, reported,
                    notifyState, channel, bytes, client, seen, deaths >>

GetProgress(c) ==
    /\ Serving(c) /\ links[c].reading # "response" /\ Complete(links[c])
    /\ links[c].call = "get"
    /\ Execute(c, "ok", pending)
    /\ UNCHANGED << pc, back, accepting, needs, sema, signals, reported, pending,
                    notifyState, channel, bytes, client, seen, deaths >>

DoneProgress(c) ==
    /\ Serving(c) /\ links[c].reading # "response" /\ Complete(links[c])
    /\ links[c].call = "done"
    /\ pending' = << >> /\ Execute(c, "ok", << >>)
    /\ UNCHANGED << pc, back, accepting, needs, sema, signals, reported,
                    notifyState, channel, bytes, client, seen, deaths >>

(* The header alone; the client's end before the request is complete; the  *)
(* rest of an answer.                                                      *)
ReadHeader(c) ==
    /\ Serving(c) /\ links[c].reading = "header" /\ links[c].inbox = << "header" >>
    /\ links' = [links EXCEPT ![c].inbox = << >>, ![c].reading = "request"]
    /\ UNCHANGED << pc, back, accepting, needs, sema, signals, reported, pending,
                    notifyState, channel, bytes, client, seen, deaths >>

HangUp(c) ==
    /\ Serving(c) /\ links[c].reading # "response"
    /\ ~ Complete(links[c]) /\ Contains(links[c].inbox, "eof")
    /\ links' = [links EXCEPT ![c] = [NoLink EXCEPT !.state = "closed"]]
    /\ UNCHANGED << pc, back, accepting, needs, sema, signals, reported, pending,
                    notifyState, channel, bytes, client, seen, deaths >>

WriteRest(c) ==
    /\ Serving(c) /\ links[c].reading = "response"
    /\ links' = [links EXCEPT ![c] = IF Gone(c) THEN [NoLink EXCEPT !.state = "closed"]
                                     ELSE [@ EXCEPT !.reading = "header"]]
    /\ UNCHANGED << pc, back, accepting, needs, sema, signals, reported, pending,
                    notifyState, channel, bytes, client, seen, deaths >>

Serve(c) ==
    \/ ExecuteOther(c) \/ ExecuteOpen(c) \/ ExecuteClose(c) \/ GetProgress(c)
    \/ DoneProgress(c) \/ ReadHeader(c) \/ HangUp(c) \/ WriteRest(c)

-----------------------------------------------------------------------------
(* The network, and the clients (TclTalk).                                 *)

ServerRests == UNCHANGED serverVars

(* A part arrives; the server is told when the connection has its signal.  *)
Deliver(c) ==
    /\ Up /\ links[c].wire # << >> /\ links[c].state \in {"backlog", "accepted", "open"}
    /\ links' = [links EXCEPT ![c].wire = Tail(@), ![c].inbox = Append(@, Head(links[c].wire))]
    /\ IF links[c].state = "open" THEN Raise("SIGIO") ELSE UNCHANGED signals
    /\ ServerRests /\ UNCHANGED << channel, bytes, client, seen, deaths >>

(* The client's constructor connects; the listening socket has its signal. *)
StartClient(c) ==
    /\ Up
    /\ \/ client[c].pc = "off"
       \/ client[c].pc = "later" /\ \E d \in Clients : Gone(d)
    /\ client' = [client EXCEPT ![c].pc = "setup"]
    /\ links' = [links EXCEPT ![c].state = "backlog"] /\ Raise("SIGIO")
    /\ ServerRests /\ UNCHANGED << channel, bytes, seen, deaths >>

Calls == {"setup", "open", "ping", "get", "command", "close", "done"}

Call(c) ==
    /\ Up /\ client[c].pc \in Calls /\ links[c].call = "none"
    /\ links' = [links EXCEPT ![c].call = client[c].pc, ![c].wire = << "header", "body" >>]
    /\ ServerRests /\ UNCHANGED << signals, channel, bytes, client, seen, deaths >>

(* The client reads the first part of an answer, which makes room.         *)
MakeRoom(c) ==
    /\ ~ Gone(c) /\ links[c].reading = "response" /\ ~ links[c].room
    /\ links' = [links EXCEPT ![c].room = TRUE] /\ Raise("SIGIO")
    /\ ServerRests /\ UNCHANGED << channel, bytes, client, seen, deaths >>

Answered(c, call) ==
    /\ client[c].pc = call /\ links[c].call = call
    /\ links[c].answer # "none" /\ links[c].reading = "header"

TakeAnswer(c) == links' = [links EXCEPT ![c].call = "none", ![c].answer = "none", ![c].reports = << >>]

Goto(c, p) == client' = [client EXCEPT ![c] = [@ EXCEPT !.pc = p, !.message = << >>]]

(* What closing both of a client's sockets does: the end of one is the     *)
(* last that is read from it, the other hangs up.                          *)
Closes(c) ==
    /\ Goto(c, "gone")
    /\ links' = [links EXCEPT ![c].wire = IF links[c].state \in {"backlog", "accepted", "open"}
                                          THEN Append(@, "eof") ELSE @]
    /\ IF channel.of = c /\ channel.state = "connected" THEN Raise("SIGUSR1")
       ELSE UNCHANGED signals
    /\ bytes' = IF channel.of = c THEN 0 ELSE bytes

SetupDone(c) ==
    /\ Answered(c, "setup") /\ TakeAnswer(c) /\ Goto(c, "open")
    /\ ServerRests /\ UNCHANGED << signals, channel, bytes, seen, deaths >>

Opens(c) ==      \* a fault ends the client
    /\ Answered(c, "open")
    /\ IF links[c].answer = "fault" THEN Closes(c)
       ELSE TakeAnswer(c) /\ Goto(c, "connect") /\ UNCHANGED << signals, bytes >>
    /\ ServerRests /\ UNCHANGED << channel, seen, deaths >>

Connect(c) ==
    /\ Up /\ client[c].pc = "connect"
    /\ channel' = [channel EXCEPT !.state = "backlog"]
    /\ Raise("SIGIO") /\ Goto(c, "select")
    /\ ServerRests /\ UNCHANGED << bytes, links, seen, deaths >>

Notified(c) ==
    /\ client[c].pc = "select" /\ bytes > 0
    /\ bytes' = bytes - 1 /\ Goto(c, "get")
    /\ ServerRests /\ UNCHANGED << signals, channel, links, seen, deaths >>

Timeout(c) ==    \* after ten minutes
    /\ client[c].pc = "select" /\ bytes = 0 /\ Goto(c, "ping")
    /\ ServerRests /\ UNCHANGED << signals, channel, bytes, links, seen, deaths >>

PingDone(c) ==
    /\ Answered(c, "ping") /\ TakeAnswer(c) /\ Goto(c, "select")
    /\ ServerRests /\ UNCHANGED << signals, channel, bytes, seen, deaths >>

(* The script is run on what was fetched, if that is anything.             *)
Fetched(c) ==
    /\ Answered(c, "get") /\ TakeAnswer(c)
    /\ client' = [client EXCEPT ![c].pc = IF links[c].reports = << >> THEN "select" ELSE "script",
                                ![c].message = links[c].reports]
    /\ seen' = seen \o links[c].reports
    /\ ServerRests /\ UNCHANGED << signals, channel, bytes, deaths >>

(* The script: a command, or TclExit when it is told of the exit, or none. *)
Script(c) ==
    /\ client[c].pc = "script"
    /\ \/ Goto(c, "command")
       \/ Contains(client[c].message, MaxReports) /\ Goto(c, "close")
       \/ Goto(c, "done")
    /\ ServerRests /\ UNCHANGED << signals, channel, bytes, links, seen, deaths >>

CommandDone(c) ==
    /\ Answered(c, "command") /\ TakeAnswer(c) /\ Goto(c, "done")
    /\ ServerRests /\ UNCHANGED << signals, channel, bytes, seen, deaths >>

TclExit(c) ==
    /\ Answered(c, "close") /\ links[c].answer = "ok" /\ TakeAnswer(c)
    /\ client' = [client EXCEPT ![c] = [pc |-> "done", message |-> << >>, exiting |-> TRUE]]
    /\ ServerRests /\ UNCHANGED << signals, channel, bytes, seen, deaths >>

DoneDone(c) ==
    /\ Answered(c, "done")
    /\ IF client[c].exiting THEN Closes(c)
       ELSE TakeAnswer(c) /\ Goto(c, "select") /\ UNCHANGED << signals, bytes >>
    /\ ServerRests /\ UNCHANGED << channel, seen, deaths >>

(* A client that finds its server gone ends.                               *)
Lost(c) ==
    /\ ~ Up /\ client[c].pc \in Started /\ Goto(c, "gone")
    /\ ServerRests /\ UNCHANGED << signals, channel, bytes, links, seen, deaths >>

Die(c) ==
    /\ Up /\ client[c].pc \in Started /\ deaths < MaxDeaths
    /\ deaths' = deaths + 1 /\ Closes(c)
    /\ ServerRests /\ UNCHANGED << channel, seen >>

ClientStep(c) ==
    \/ StartClient(c) \/ Call(c) \/ MakeRoom(c) \/ SetupDone(c) \/ Opens(c) \/ Connect(c)
    \/ Notified(c) \/ PingDone(c) \/ Fetched(c) \/ Script(c) \/ CommandDone(c)
    \/ TclExit(c) \/ DoneDone(c) \/ Lost(c)

ServerStep ==
    \/ AWB_Progress \/ EndOfCycle \/ AWB_InformProgress \/ Informed \/ NothingToAccept
    \/ NotifyAccept \/ NotifyArmed \/ NotifyClient \/ Wait \/ Woken \/ ResetNeeds
    \/ ResetSema \/ Select \/ SelectAgain \/ WorkDone \/ AcceptConnection \/ LinkArmed
    \/ \E c \in Clients : Serve(c)

TaratiNext ==
    \/ ServerStep \/ IoAttention \/ NotifyAttention
    \/ \E c \in Clients : Deliver(c) \/ ClientStep(c) \/ Timeout(c) \/ Die(c)

(* The server's thread and its handlers run, the clock moves, the network  *)
(* delivers, clients and their scripts go on.  Nobody need die or time out. *)
TaratiFairness ==
    /\ WF_taratiVars(ServerStep) /\ SF_taratiVars(WorkDone)
    /\ WF_taratiVars(IoAttention \/ NotifyAttention)
    /\ \A c \in Clients : WF_taratiVars(Deliver(c) \/ ClientStep(c))

TaratiSpec == TaratiInit /\ [][TaratiNext]_taratiVars /\ TaratiFairness

-----------------------------------------------------------------------------
(* The server never overlooks work: while it sleeps, and while it believes *)
(* that nobody needs it, there is no connection, part of a request, room   *)
(* for an answer or client of the notification channel that it has not     *)
(* been told of (taratiServer.cpp, ServerNeedsAttention).                  *)
AttentionCovers ==
    signals = {} =>
        /\ pc = "wait" /\ sema = 0 =>
              /\ ReadyNow = {}
              /\ ~ (notifyState = "listen" /\ channel.state = "backlog")
        /\ pc \in {"cycle", "wait"} /\ ~ needs => ReadyNow = {}

(* The client of the channel is gone, or has closed it.                    *)
ChannelLost ==
    \/ \E c \in Clients : Gone(c) /\ channel.of = c
    \/ notifyState = "accepted" /\ channel.state # "connected"

(* The server does not wait for ever in AWB_InformProgress, unless the     *)
(* client of its channel is gone or has closed it, or every client is gone. *)
InformEnds ==
    (pc = "inform") ~>
        \/ pc \in {"cycle", "ended", "killed"}
        \/ ChannelLost
        \/ \A c \in Clients : Gone(c)

(* AWB_InformProgress waits for the workbench "to acknowledge that it has  *)
(* processed all the events": whatever bytes the client was woken by, its  *)
(* script runs on every report once and in order, and has run on all that  *)
(* were made when the simulation goes on or ends.                          *)
AllProcessed ==
    /\ \A i \in DOMAIN seen : seen[i] = i
    /\ pc \in {"cycle", "ended"} => Len(seen) = reported
=============================================================================
