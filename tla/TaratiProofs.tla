---------------------------- MODULE TaratiProofs ----------------------------
(***************************************************************************)
(* The Tarati server overlooks no work and processes every report, for any *)
(* number of clients, reports and deaths.                                  *)
(*                                                                         *)
(* The flag ServerNeedsAttention and the semaphore are both set by the     *)
(* signal handler and are reset at different times.  The invariant says of *)
(* each of them by itself that it covers every socket that is ready: the   *)
(* signal is still pending, or the handler has left its mark, or the       *)
(* server is on its way to select, or select has found the socket already. *)
(***************************************************************************)
EXTENDS Tarati, SequenceTheorems, TLAPS

Parts == {"header", "body", "eof"}

Link == [state : {"none", "backlog", "accepted", "open", "closed"},
         wire : Seq(Parts), inbox : Seq(Parts),
         reading : {"header", "request", "response"}, room : BOOLEAN,
         call : Calls \cup {"none"}, answer : {"none", "ok", "fault"},
         reports : Seq(Nat)]

ClientType == [pc : Started \cup {"off", "later", "gone"}, message : Seq(Nat),
               exiting : BOOLEAN]

ServerPc == {"cycle", "actions", "inform", "arm", "notify", "wait", "woken", "work",
             "reset", "select", "serve", "armLink", "ended", "killed"}

TypeInv ==
    /\ pc \in ServerPc /\ back \in {"cycle", "inform"}
    /\ ready \subseteq Clients \cup {Listener}
    /\ accepting \in Clients \cup {None} /\ (pc = "armLink" => accepting \in Clients)
    /\ needs \in BOOLEAN /\ sema \in Nat
    /\ signals \subseteq {"SIGIO", "SIGUSR1"}
    /\ reported \in Nat /\ pending \in Seq(Nat)
    /\ channel \in [state : {"none", "listening", "backlog", "accepted", "connected"},
                    of : Clients \cup {None}]
    /\ links \in [Clients -> Link]
    /\ client \in [Clients -> ClientType]

-----------------------------------------------------------------------------
(* A client that lives has one call outstanding at most, and of that call  *)
(* the request's parts are on their way, or read, or it is answered.       *)
Idle(l) ==
    /\ l.call = "none" /\ l.answer = "none"
    /\ l.inbox = << >> /\ l.wire = << >> /\ l.reading = "header"

Sending(l) ==
    /\ l.call # "none" /\ l.answer = "none"
    /\ \/ /\ l.reading = "header"
          /\ \/ l.inbox = << >> /\ l.wire = << "header", "body" >>
             \/ l.inbox = << "header" >> /\ l.wire = << "body" >>
             \/ l.inbox = << "header", "body" >> /\ l.wire = << >>
       \/ /\ l.reading = "request"
          /\ \/ l.inbox = << >> /\ l.wire = << "body" >>
             \/ l.inbox = << "body" >> /\ l.wire = << >>

Answering(l) ==
    /\ l.call # "none" /\ l.answer # "none"
    /\ l.inbox = << >> /\ l.wire = << >> /\ l.reading # "request"

OneCallOf(l) == Idle(l) \/ Sending(l) \/ Answering(l)
OneCall == \A c \in Clients : ~ Gone(c) => OneCallOf(links[c])

(* What covers a socket that is ready, by the flag and by the semaphore.   *)
Told == "SIGIO" \in signals
Found(socket) == pc \in {"serve", "armLink"} /\ socket \in ready

NeedsCovers ==
    /\ \A c \in Clients : LinkReady(c) =>
          Told \/ needs \/ pc \in {"reset", "select"} \/ Found(c)
    /\ ListenerReady =>
          Told \/ needs \/ pc \in {"reset", "select", "armLink"} \/ Found(Listener)

SemaCovers ==
    /\ \A c \in Clients : LinkReady(c) =>
          Told \/ sema > 0 \/ pc \in {"woken", "work", "reset", "select"} \/ Found(c)
    /\ ListenerReady =>
          \/ Told \/ sema > 0 \/ Found(Listener)
          \/ pc \in {"woken", "work", "reset", "select", "armLink"}
    /\ pc = "wait" /\ notifyState = "listen" /\ channel.state = "backlog" =>
          Told \/ sema > 0

Covers ==
    /\ pc = "work" => needs
    /\ Up => NeedsCovers /\ SemaCovers

TaratiInv == TypeInv /\ OneCall /\ Covers

LEMMA InitInv ==
    ASSUME NEW starts \in [Clients -> {"off", "later", "gone"}], NEW made \in Nat,
           TaratiInitWith(starts, made)
    PROVE  TaratiInv
  <1>1. << >> \in Seq(Parts) /\ << >> \in Seq(Nat)
    OBVIOUS
  <1>2. NoLink \in Link
    BY <1>1 DEF NoLink, Link, Calls
  <1>3. links \in [Clients -> Link]
    BY <1>2 DEF TaratiInitWith
  <1>4. client \in [Clients -> ClientType]
    BY <1>1 DEF TaratiInitWith, ClientType
  <1>5. TypeInv
    BY <1>1, <1>3, <1>4 DEF TaratiInitWith, TypeInv, ServerPc
  <1>6. OneCall
    BY DEF TaratiInitWith, OneCall, OneCallOf, Idle, NoLink
  <1>7. Covers
    BY DEF TaratiInitWith, Covers, NeedsCovers, SemaCovers, Told
  <1> QED  BY <1>5, <1>6, <1>7 DEF TaratiInv

(***************************************************************************)
(* Steps of the server's thread and of the handlers that touch no          *)
(* connection.                                                             *)
(***************************************************************************)
LEMMA ReadySame ==
    ASSUME UNCHANGED links
    PROVE  /\ \A c \in Clients : LinkReady(c)' <=> LinkReady(c)
           /\ ListenerReady' <=> ListenerReady
  BY DEF LinkReady, ListenerReady

LEMMA OneCallSame ==
    ASSUME OneCall, UNCHANGED << links, client >>
    PROVE  OneCall'
  BY DEF OneCall, Gone

LEMMA HandlerSteps ==
    ASSUME TaratiInv, IoAttention \/ NotifyAttention
    PROVE  TaratiInv'
  <1>1. UNCHANGED << links, client, channel, notifyState, ready, back, accepting >>
    BY DEF IoAttention, NotifyAttention
  <1>2. TypeInv'
    <2>1. CASE IoAttention
      BY <2>1 DEF TaratiInv, TypeInv, IoAttention
    <2>2. CASE NotifyAttention
      <3>1. pc' \in {pc, "killed"} /\ signals' \subseteq {"SIGIO", "SIGUSR1"}
            /\ UNCHANGED << needs, sema, reported, pending >>
        BY <2>2 DEF TaratiInv, TypeInv, NotifyAttention
      <3> QED  BY <1>1, <3>1 DEF TaratiInv, TypeInv, ServerPc
    <2> QED  BY <2>1, <2>2
  <1>3. OneCall'
    BY <1>1, OneCallSame DEF TaratiInv
  <1>4. Covers'
    <2>1. CASE IoAttention
      <3>1. Up /\ pc' = pc /\ needs' /\ sema' > 0
        BY <2>1 DEF IoAttention, TaratiInv, TypeInv
      <3> QED  BY <1>1, <3>1 DEF Covers, NeedsCovers, SemaCovers
    <2>2. CASE NotifyAttention
      <3>1. CASE pc' = "killed"
        BY <3>1 DEF Covers, Up
      <3>2. CASE pc' # "killed"
        <4>1. Told' /\ pc' = pc /\ UNCHANGED << needs, sema >> /\ Up
          BY <2>2, <3>2 DEF NotifyAttention, Told
        <4> QED  BY <1>1, <4>1, ReadySame DEF TaratiInv, Covers, NeedsCovers, SemaCovers
      <3> QED  BY <3>1, <3>2
    <2> QED  BY <2>1, <2>2
  <1> QED  BY <1>2, <1>3, <1>4 DEF TaratiInv

LEMMA ReportingSteps ==
    ASSUME TaratiInv,
           AWB_Progress \/ EndOfCycle \/ AWB_InformProgress \/ Informed \/ NothingToAccept
    PROVE  TaratiInv'
  <1>1. UNCHANGED << links, client, channel, ready, needs, sema, accepting >>
    BY DEF AWB_Progress, EndOfCycle, AWB_InformProgress, Informed, NothingToAccept, Elsewhere
  <1>2. TypeInv'
    <2>1. \A n \in Nat : Append(pending, n) \in Seq(Nat)
      BY DEF TaratiInv, TypeInv
    <2>2. pending' \in Seq(Nat) /\ reported' \in Nat
      <3>1. reported \in Nat /\ reported + 1 \in Nat /\ MaxReports \in Nat
            /\ pending \in Seq(Nat)
        BY TaratiAssumption DEF TaratiInv, TypeInv
      <3>2. \/ UNCHANGED << pending, reported >>
            \/ pending' = Append(pending, reported + 1) /\ reported' = reported + 1
            \/ pending' = Append(pending, MaxReports) /\ reported' = MaxReports
        BY DEF AWB_Progress, EndOfCycle, AWB_InformProgress, Informed, NothingToAccept
      <3> QED  BY <2>1, <3>1, <3>2
    <2> QED
      BY <1>1, <2>2 DEF TaratiInv, TypeInv, AWB_Progress, EndOfCycle, AWB_InformProgress,
                        Informed, NothingToAccept, ServerPc
  <1>3. OneCall'
    BY <1>1, OneCallSame DEF TaratiInv
  <1>4. /\ pc \in {"cycle", "actions", "inform"}
        /\ pc' \in {"actions", "work", "inform", "ended", "cycle", "wait"}
        /\ pc' = "work" => needs
        /\ pc' \notin {"ended", "killed"} => signals' = signals
    BY DEF AWB_Progress, EndOfCycle, AWB_InformProgress, Informed, NothingToAccept
  <1>5. pc' = "wait" => ~ (notifyState' = "listen" /\ channel'.state = "backlog")
    BY <1>4 DEF AWB_Progress, EndOfCycle, AWB_InformProgress, Informed, NothingToAccept
  <1>6. Covers'
    BY <1>1, <1>4, <1>5, ReadySame
    DEF TaratiInv, Covers, NeedsCovers, SemaCovers, Up, Told, Found
  <1> QED  BY <1>2, <1>3, <1>6 DEF TaratiInv

LEMMA AcceptingSteps ==
    ASSUME TaratiInv, NotifyAccept \/ NotifyArmed \/ NotifyClient
    PROVE  TaratiInv'
  <1>1. UNCHANGED << links, client, ready, needs, sema, accepting >>
    BY DEF NotifyAccept, NotifyArmed, NotifyClient, Elsewhere
  <1>2. TypeInv'
    <2>1. channel' \in [state : {"none", "listening", "backlog", "accepted", "connected"},
                        of : Clients \cup {None}]
      BY DEF TaratiInv, TypeInv, NotifyAccept, NotifyArmed, NotifyClient
    <2> QED
      BY <1>1, <2>1 DEF TaratiInv, TypeInv, NotifyAccept, NotifyArmed, NotifyClient,
                        ServerPc, Raise
  <1>3. OneCall'
    BY <1>1, OneCallSame DEF TaratiInv
  <1>4. /\ pc \in {"inform", "arm", "notify"} /\ pc' \in {"arm", "notify", "wait"}
        /\ signals \subseteq signals'
        /\ pc' = "wait" => notifyState' = "accepted"
    BY DEF NotifyAccept, NotifyArmed, NotifyClient, Raise
  <1>5. Covers'
    BY <1>1, <1>4, ReadySame
    DEF TaratiInv, Covers, NeedsCovers, SemaCovers, Up, Told, Found
  <1> QED  BY <1>2, <1>3, <1>5 DEF TaratiInv

(* Server::Wait and Server::Work: what is ready when the flag and the      *)
(* semaphore are reset is still ready when select looks.                   *)
LEMMA WorkSteps ==
    ASSUME TaratiInv, Wait \/ Woken \/ ResetNeeds \/ ResetSema
    PROVE  TaratiInv'
  <1>1. UNCHANGED << links, client, channel, notifyState, ready, accepting, signals >>
    BY DEF Wait, Woken, ResetNeeds, ResetSema, Elsewhere
  <1>2. TypeInv'
    <2>1. CASE Wait
      BY <1>1, <2>1 DEF TaratiInv, TypeInv, Wait, ServerPc
    <2>2. CASE Woken
      BY <1>1, <2>2 DEF TaratiInv, TypeInv, Woken, ServerPc
    <2>3. CASE ResetNeeds
      BY <1>1, <2>3 DEF TaratiInv, TypeInv, ResetNeeds, ServerPc
    <2>4. CASE ResetSema
      BY <1>1, <2>4 DEF TaratiInv, TypeInv, ResetSema, ServerPc
    <2> QED  BY <2>1, <2>2, <2>3, <2>4
  <1>3. OneCall'
    BY <1>1, OneCallSame DEF TaratiInv
  <1>4. Covers'
    <2>1. CASE Wait
      <3>1. pc = "wait" /\ pc' = "woken" /\ needs' = needs
        BY <2>1 DEF Wait
      <3> QED
        BY <1>1, <3>1, ReadySame
        DEF TaratiInv, Covers, NeedsCovers, SemaCovers, Up, Told, Found
    <2>2. CASE Woken
      <3>1. /\ pc = "woken" /\ pc' = (IF needs THEN "work" ELSE "inform")
            /\ UNCHANGED << needs, sema >>
        BY <2>2 DEF Woken
      <3> QED
        BY <1>1, <3>1, ReadySame
        DEF TaratiInv, Covers, NeedsCovers, SemaCovers, Up, Told, Found
    <2>3. CASE ResetNeeds
      <3>1. pc = "work" /\ pc' = "reset" /\ UNCHANGED sema
        BY <2>3 DEF ResetNeeds
      <3> QED
        BY <1>1, <3>1, ReadySame
        DEF TaratiInv, Covers, NeedsCovers, SemaCovers, Up, Told, Found
    <2>4. CASE ResetSema
      <3>1. pc = "reset" /\ pc' = "select" /\ UNCHANGED needs
        BY <2>4 DEF ResetSema
      <3> QED
        BY <1>1, <3>1, ReadySame
        DEF TaratiInv, Covers, NeedsCovers, SemaCovers, Up, Told, Found
    <2> QED  BY <2>1, <2>2, <2>3, <2>4
  <1> QED  BY <1>2, <1>3, <1>4 DEF TaratiInv

LEMMA SelectSteps ==
    ASSUME TaratiInv, Select \/ SelectAgain \/ WorkDone
    PROVE  TaratiInv'
  <1>1. UNCHANGED << links, client, channel, notifyState, accepting, signals, needs, sema >>
    BY DEF Select, SelectAgain, WorkDone, Elsewhere
  <1>2. TypeInv'
    BY <1>1 DEF TaratiInv, TypeInv, Select, SelectAgain, WorkDone, ServerPc, ReadyNow
  <1>3. OneCall'
    BY <1>1, OneCallSame DEF TaratiInv
  <1>4. Covers'
    <2>1. CASE Select
      <3>1. pc' = "serve" /\ ready' = ReadyNow
        BY <2>1 DEF Select
      <3>2. /\ \A c \in Clients : LinkReady(c) => c \in ready'
            /\ ListenerReady => Listener \in ready'
        BY <3>1 DEF ReadyNow
      <3> QED
        BY <1>1, <3>1, <3>2, ReadySame
        DEF Covers, NeedsCovers, SemaCovers, Found
    <2>2. CASE SelectAgain
      <3>1. pc' = "select"
        BY <2>2 DEF SelectAgain
      <3> QED  BY <3>1 DEF Covers, NeedsCovers, SemaCovers
    <2>3. CASE WorkDone
      <3>1. pc = "serve" /\ ready = {} /\ pc' = back /\ back \in {"cycle", "inform"}
        BY <2>3 DEF WorkDone, TaratiInv, TypeInv
      <3> QED
        BY <1>1, <3>1, ReadySame
        DEF TaratiInv, Covers, NeedsCovers, SemaCovers, Up, Told, Found
    <2> QED  BY <2>1, <2>2, <2>3
  <1> QED  BY <1>2, <1>3, <1>4 DEF TaratiInv

-----------------------------------------------------------------------------
(***************************************************************************)
(* Steps that touch the connection of one client.                          *)
(***************************************************************************)
LEMMA OneLink ==
    ASSUME links \in [Clients -> Link], NEW c \in Clients, NEW l \in Link,
           links' = [links EXCEPT ![c] = l]
    PROVE  /\ links' \in [Clients -> Link] /\ links'[c] = l
           /\ \A d \in Clients \ {c} : links'[d] = links[d]
           /\ \A d \in Clients \ {c} : LinkReady(d)' <=> LinkReady(d)
  BY DEF LinkReady

(* The server accepts a connection, and makes the signal up.               *)
LEMMA LinkStateStep ==
    ASSUME TaratiInv, NEW c \in Clients, NEW s \in {"accepted", "open"},
           links' = [links EXCEPT ![c].state = s], UNCHANGED client
    PROVE  /\ links' \in [Clients -> Link] /\ OneCall' /\ links'[c].state = s
           /\ \A d \in Clients \ {c} : links'[d] = links[d]
           /\ \A d \in Clients \ {c} : LinkReady(d)' <=> LinkReady(d)
  <1> DEFINE l == [links[c] EXCEPT !.state = s]
  <1>1. links \in [Clients -> Link] /\ links[c] \in Link
    BY DEF TaratiInv, TypeInv
  <1>2. /\ l \in Link /\ l.state = s /\ l.call = links[c].call
        /\ l.answer = links[c].answer /\ l.inbox = links[c].inbox
        /\ l.wire = links[c].wire /\ l.reading = links[c].reading
    BY <1>1 DEF Link
  <1>3. links' = [links EXCEPT ![c] = l]
    OBVIOUS
  <1> HIDE DEF l
  <1>4. /\ links' \in [Clients -> Link] /\ links'[c] = l
        /\ \A d \in Clients \ {c} : links'[d] = links[d]
        /\ \A d \in Clients \ {c} : LinkReady(d)' <=> LinkReady(d)
    BY <1>1, <1>2, <1>3, OneLink
  <1>5. OneCallOf(links[c]) => OneCallOf(l)
    BY <1>2 DEF OneCallOf, Idle, Sending, Answering
  <1>6. OneCall'
    BY <1>4, <1>5 DEF TaratiInv, OneCall, Gone
  <1> QED  BY <1>2, <1>4, <1>6

LEMMA AcceptSteps ==
    ASSUME TaratiInv, AcceptConnection \/ LinkArmed
    PROVE  TaratiInv'
  <1>1. CASE AcceptConnection
    <2>1. PICK c \in Clients :
              /\ links[c].state = "backlog" /\ accepting' = c
              /\ links' = [links EXCEPT ![c].state = "accepted"]
      BY <1>1 DEF AcceptConnection
    <2>2. /\ UNCHANGED << client, channel, needs, sema, signals, notifyState, back,
                          reported, pending >>
          /\ pc = "serve" /\ pc' = "armLink" /\ ready' = ready \ {Listener}
      BY <1>1 DEF AcceptConnection
    <2>3. /\ links' \in [Clients -> Link] /\ OneCall' /\ links'[c].state = "accepted"
          /\ \A d \in Clients \ {c} : LinkReady(d)' <=> LinkReady(d)
      BY <2>1, <2>2, LinkStateStep
    <2>4. TypeInv'
      BY <2>1, <2>2, <2>3 DEF TaratiInv, TypeInv, ServerPc
    <2>5. \A d \in Clients : LinkReady(d)' => LinkReady(d) /\ (d \in ready => d \in ready')
      BY <2>2, <2>3, TaratiAssumption DEF LinkReady
    <2>6. Covers'
      BY <2>2, <2>5 DEF TaratiInv, Covers, NeedsCovers, SemaCovers, Up, Told, Found
    <2> QED  BY <2>3, <2>4, <2>6 DEF TaratiInv
  <1>2. CASE LinkArmed
    <2>1. /\ UNCHANGED << client, channel, needs, sema, notifyState, back, ready,
                          reported, pending >>
          /\ pc = "armLink" /\ pc' = "serve" /\ accepting' = None
          /\ signals' = signals \cup {"SIGIO"}
          /\ links' = [links EXCEPT ![accepting].state = "open"] /\ accepting \in Clients
      BY <1>2 DEF LinkArmed, Raise, Up, TaratiInv, TypeInv
    <2>2. links' \in [Clients -> Link] /\ OneCall'
      BY <2>1, LinkStateStep
    <2>3. TypeInv'
      BY <2>1, <2>2 DEF TaratiInv, TypeInv, ServerPc
    <2>4. Told'
      BY <2>1 DEF Told
    <2>5. Covers'
      BY <2>1, <2>4 DEF Covers, NeedsCovers, SemaCovers
    <2> QED  BY <2>2, <2>3, <2>5 DEF TaratiInv
  <1> QED  BY <1>1, <1>2

(* A served socket is not ready any more, and nothing else gets ready.     *)
LEMMA ServedStep ==
    ASSUME TaratiInv, NEW c \in Clients, NEW l \in Link, Serving(c),
           links' = [links EXCEPT ![c] = l],
           l.state \in {links[c].state, "open", "closed"},
           l.inbox = << >>, l.reading = "response" => ~ l.room,
           ~ Gone(c) => OneCallOf(l),
           UNCHANGED << pc, back, accepting, needs, sema, reported, notifyState, client >>,
           pending' \in Seq(Nat), signals \subseteq signals',
           signals' \subseteq {"SIGIO", "SIGUSR1"},
           channel' \in [state : {"none", "listening", "backlog", "accepted", "connected"},
                         of : Clients \cup {None}]
    PROVE  TaratiInv'
  <1>1. pc = "serve" /\ ready' = ready \ {c}
    BY DEF Serving
  <1>2. /\ links' \in [Clients -> Link] /\ links'[c] = l
        /\ \A d \in Clients \ {c} : links'[d] = links[d]
        /\ \A d \in Clients \ {c} : LinkReady(d)' <=> LinkReady(d)
    BY OneLink DEF TaratiInv, TypeInv
  <1>3. ~ LinkReady(c)'
    BY <1>2 DEF LinkReady
  <1>4. ListenerReady' => ListenerReady
    BY <1>2 DEF ListenerReady
  <1>5. TypeInv'
    BY <1>1, <1>2 DEF TaratiInv, TypeInv
  <1>6. OneCall'
    BY <1>2 DEF TaratiInv, OneCall, Gone
  <1>7. \A d \in Clients : LinkReady(d)' => d # c /\ LinkReady(d)
    BY <1>2, <1>3
  <1>8. Listener # c
    BY TaratiAssumption
  <1>9. Covers'
    BY <1>1, <1>4, <1>7, <1>8 DEF TaratiInv, Covers, NeedsCovers, SemaCovers, Up, Told, Found
  <1> QED  BY <1>5, <1>6, <1>9 DEF TaratiInv

LEMMA PartsDiffer ==
    /\ << "header" >> # << >> /\ << "body" >> # << >> /\ << "header", "body" >> # << >>
    /\ << "header", "body" >> # << "header" >> /\ Len(<< "header" >>) = 1
    /\ Len(<< >>) = 0
  OBVIOUS

(* What serving makes of a connection.                                     *)
Served(c, l) ==
    /\ l \in Link /\ l.state \in {links[c].state, "open", "closed"}
    /\ l.inbox = << >> /\ (l.reading = "response" => ~ l.room)
    /\ ~ Gone(c) => OneCallOf(l)

LEMMA NewLink ==
    ASSUME NEW c \in Clients, NEW s \in {"open", "closed"}, NEW w \in Seq(Parts)
    PROVE  /\ [NoLink EXCEPT !.state = s, !.wire = w] \in Link
           /\ Gone(c) \/ w = << >> => Served(c, [NoLink EXCEPT !.state = s, !.wire = w])
  <1> DEFINE l == [NoLink EXCEPT !.state = s, !.wire = w]
  <1>1. << >> \in Seq(Parts) /\ << >> \in Seq(Nat)
    OBVIOUS
  <1>2. l \in Link
    BY <1>1 DEF NoLink, Link, Calls
  <1>3. /\ l.state = s /\ l.wire = w /\ l.call = "none" /\ l.answer = "none"
        /\ l.inbox = << >> /\ l.reading = "header"
    BY DEF NoLink
  <1> HIDE DEF l
  <1>4. Gone(c) \/ w = << >> => Served(c, l)
    BY <1>2, <1>3 DEF Served, OneCallOf, Idle
  <1> QED  BY <1>2, <1>4 DEF l

LEMMA ExecuteServes ==
    ASSUME TaratiInv, NEW c \in Clients, NEW kind \in {"ok", "fault"},
           NEW reports \in Seq(Nat), Complete(links[c]), links[c].reading # "response",
           Execute(c, kind, reports)
    PROVE  \E l : Served(c, l) /\ links' = [links EXCEPT ![c] = l]
  <1>1. links \in [Clients -> Link] /\ links[c] \in Link
    BY DEF TaratiInv, TypeInv
  <1>2. CASE ~ Gone(c)
    <2>1. PICK r \in {"header", "response"} :
              links' = [links EXCEPT ![c].inbox = << >>, ![c].reading = r,
                                     ![c].room = (r = "header"),
                                     ![c].answer = kind, ![c].reports = reports]
      BY <1>2 DEF Execute
    <2> DEFINE l == [links[c] EXCEPT !.inbox = << >>, !.reading = r, !.room = (r = "header"),
                                     !.answer = kind, !.reports = reports]
    <2>2. links' = [links EXCEPT ![c] = l]
      BY <2>1
    <2>3. << >> \in Seq(Parts) /\ (r = "header") \in BOOLEAN
      OBVIOUS
    <2>4. l \in Link
      BY <1>1, <2>3 DEF Link
    <2>5. /\ l.state = links[c].state /\ l.wire = links[c].wire /\ l.call = links[c].call
          /\ l.answer = kind /\ l.inbox = << >> /\ l.reading = r /\ l.room = (r = "header")
      BY <1>1 DEF Link
    <2> HIDE DEF l
    <2>6. OneCallOf(links[c])
      BY <1>2 DEF TaratiInv, OneCall
    <2>7. Sending(links[c]) /\ links[c].wire = << >>
      BY <2>6, PartsDiffer DEF Complete, OneCallOf, Idle, Sending, Answering
    <2>8. OneCallOf(l)
      BY <2>5, <2>7 DEF OneCallOf, Sending, Answering
    <2>9. Served(c, l)
      BY <2>4, <2>5, <2>8 DEF Served
    <2> QED  BY <2>2, <2>9
  <1>3. CASE Gone(c)
    <2>1. PICK s \in {"open", "closed"} :
              links' = [links EXCEPT ![c] = [NoLink EXCEPT
                  !.state = s, !.wire = IF s = "open" THEN << "eof" >> ELSE << >>]]
      BY <1>3 DEF Execute
    <2>2. PICK w \in Seq(Parts) :
              links' = [links EXCEPT ![c] = [NoLink EXCEPT !.state = s, !.wire = w]]
      <3>1. << "eof" >> \in Seq(Parts) /\ << >> \in Seq(Parts)
        BY DEF Parts
      <3> QED  BY <2>1, <3>1
    <2> QED  BY <1>3, <2>2, NewLink
  <1> QED  BY <1>2, <1>3

LEMMA ServeStep ==
    ASSUME TaratiInv, NEW c \in Clients, Serve(c)
    PROVE  TaratiInv'
  <1>1. /\ Serving(c) /\ UNCHANGED << pc, back, accepting, needs, sema, reported,
                                      notifyState, client >>
        /\ signals \subseteq signals' /\ signals' \subseteq {"SIGIO", "SIGUSR1"}
    BY DEF Serve, ExecuteOther, ExecuteOpen, ExecuteClose, GetProgress, DoneProgress,
           ReadHeader, HangUp, WriteRest, Raise, TaratiInv, TypeInv
  <1>2. /\ << >> \in Seq(Nat) /\ pending \in Seq(Nat) /\ << >> \in Seq(Parts)
        /\ links \in [Clients -> Link] /\ links[c] \in Link
        /\ ~ Gone(c) => OneCallOf(links[c])
    BY DEF TaratiInv, TypeInv, OneCall
  <1>3. pending' \in Seq(Nat)
    BY <1>2 DEF Serve, ExecuteOther, ExecuteOpen, ExecuteClose, GetProgress, DoneProgress,
                ReadHeader, HangUp, WriteRest
  <1>4. channel' \in [state : {"none", "listening", "backlog", "accepted", "connected"},
                      of : Clients \cup {None}]
    <2>1. channel \in [state : {"none", "listening", "backlog", "accepted", "connected"},
                       of : Clients \cup {None}]
      BY DEF TaratiInv, TypeInv
    <2>2. \/ UNCHANGED channel
          \/ channel' = [state |-> "listening", of |-> c]
          \/ channel' = [channel EXCEPT !.state = "none"]
      BY DEF Serve, ExecuteOther, ExecuteOpen, ExecuteClose, GetProgress, DoneProgress,
             ReadHeader, HangUp, WriteRest
    <2> QED  BY <2>1, <2>2
  <1>5. \E l : Served(c, l) /\ links' = [links EXCEPT ![c] = l]
    <2>1. CASE ExecuteOther(c) \/ ExecuteOpen(c) \/ ExecuteClose(c) \/ GetProgress(c)
               \/ DoneProgress(c)
      <3>1. /\ Complete(links[c]) /\ links[c].reading # "response"
            /\ \E kind \in {"ok", "fault"}, reports \in {pending, << >>} :
                  Execute(c, kind, reports)
        BY <2>1
        DEF ExecuteOther, ExecuteOpen, ExecuteClose, GetProgress, DoneProgress
      <3> QED  BY <1>2, <3>1, ExecuteServes
    <2>2. CASE ReadHeader(c)
      <3> DEFINE l == [links[c] EXCEPT !.inbox = << >>, !.reading = "request"]
      <3>1. /\ links' = [links EXCEPT ![c] = l]
            /\ links[c].reading = "header" /\ links[c].inbox = << "header" >>
        BY <2>2 DEF ReadHeader
      <3>2. l \in Link
        BY <1>2 DEF Link
      <3>3. /\ l.state = links[c].state /\ l.wire = links[c].wire /\ l.call = links[c].call
            /\ l.answer = links[c].answer /\ l.inbox = << >> /\ l.reading = "request"
        BY <1>2 DEF Link
      <3> HIDE DEF l
      <3>4. ~ Gone(c) => Sending(l)
        BY <1>2, <3>1, <3>3, PartsDiffer DEF OneCallOf, Idle, Sending, Answering
      <3> QED  BY <3>1, <3>2, <3>3, <3>4 DEF Served, OneCallOf
    <2>3. CASE HangUp(c) \/ (WriteRest(c) /\ Gone(c))
      <3>1. links' = [links EXCEPT ![c] = [NoLink EXCEPT !.state = "closed"]]
        BY <2>3 DEF HangUp, WriteRest
      <3> DEFINE l == [NoLink EXCEPT !.state = "closed"]
      <3>2. l \in Link
        BY <1>2 DEF NoLink, Link, Calls
      <3>3. /\ l.state = "closed" /\ l.wire = << >> /\ l.call = "none"
            /\ l.answer = "none" /\ l.inbox = << >> /\ l.reading = "header"
        BY DEF NoLink
      <3> HIDE DEF l
      <3>4. Served(c, l)
        BY <3>2, <3>3 DEF Served, OneCallOf, Idle
      <3> QED  BY <3>1, <3>4 DEF l
    <2>4. CASE WriteRest(c) /\ ~ Gone(c)
      <3> DEFINE l == [links[c] EXCEPT !.reading = "header"]
      <3>1. links' = [links EXCEPT ![c] = l] /\ links[c].reading = "response"
        BY <2>4 DEF WriteRest
      <3>2. l \in Link
        BY <1>2 DEF Link
      <3>3. /\ l.state = links[c].state /\ l.wire = links[c].wire /\ l.call = links[c].call
            /\ l.answer = links[c].answer /\ l.inbox = links[c].inbox /\ l.reading = "header"
        BY <1>2 DEF Link
      <3> HIDE DEF l
      <3>4. Answering(links[c])
        BY <1>2, <2>4, <3>1 DEF OneCallOf, Idle, Sending
      <3>5. Answering(l) /\ l.inbox = << >>
        BY <3>3, <3>4 DEF Answering
      <3> QED  BY <3>1, <3>2, <3>3, <3>5 DEF Served, OneCallOf
    <2> QED  BY <2>1, <2>2, <2>3, <2>4 DEF Serve
  <1>6. PICK l : Served(c, l) /\ links' = [links EXCEPT ![c] = l]
    BY <1>5
  <1> QED  BY <1>1, <1>3, <1>4, <1>6, ServedStep DEF Served

-----------------------------------------------------------------------------
(***************************************************************************)
(* The network and the clients: whatever makes a socket ready raises the   *)
(* signal.                                                                 *)
(***************************************************************************)
LEMMA OutsideCovers ==
    ASSUME TaratiInv, ServerRests,
           Up => /\ signals \subseteq signals'
                 /\ \A c \in Clients : LinkReady(c)' => LinkReady(c) \/ Told'
                 /\ ListenerReady' => ListenerReady \/ Told'
                 /\ channel'.state = "backlog" => channel.state = "backlog" \/ Told'
    PROVE  Covers'
  BY DEF TaratiInv, ServerRests, serverVars, Covers, NeedsCovers, SemaCovers, Up, Told, Found

(* What a client, or the network, makes of a connection, and of the client.*)
Outside(c, l, x) ==
    /\ l \in Link /\ x \in ClientType
    /\ x.pc # "gone" => OneCallOf(l)
    /\ links' = [links EXCEPT ![c] = l] /\ client' = [client EXCEPT ![c] = x]
    /\ l.state = links[c].state \/ (l.state = "backlog" /\ (Up => Told'))
    /\ \/ Up => Told'
       \/ l.state # "open"
       \/ /\ l.inbox = links[c].inbox /\ l.room = links[c].room
          /\ l.reading = links[c].reading

LEMMA OutsideStep ==
    ASSUME TaratiInv, NEW c \in Clients, NEW l, NEW x, Outside(c, l, x), ServerRests,
           signals \subseteq signals', signals' \subseteq {"SIGIO", "SIGUSR1"},
           channel' \in [state : {"none", "listening", "backlog", "accepted", "connected"},
                         of : Clients \cup {None}],
           channel'.state = "backlog" => channel.state = "backlog" \/ (Up => Told')
    PROVE  TaratiInv'
  <1>1. links \in [Clients -> Link] /\ client \in [Clients -> ClientType]
    BY DEF TaratiInv, TypeInv
  <1>2. /\ links' \in [Clients -> Link] /\ links'[c] = l
        /\ \A d \in Clients \ {c} : links'[d] = links[d]
        /\ \A d \in Clients \ {c} : LinkReady(d)' <=> LinkReady(d)
    BY <1>1, OneLink DEF Outside
  <1>3. /\ client' \in [Clients -> ClientType] /\ client'[c] = x
        /\ \A d \in Clients \ {c} : client'[d] = client[d]
    BY <1>1 DEF Outside
  <1>4. TypeInv'
    BY <1>2, <1>3 DEF TaratiInv, TypeInv, ServerRests, serverVars
  <1>5. OneCall'
    BY <1>2, <1>3 DEF TaratiInv, OneCall, Gone, Outside
  <1>6. ASSUME Up, ~ Told'
        PROVE  /\ LinkReady(c)' => LinkReady(c)
               /\ ListenerReady' => ListenerReady
    <2>1. l.state = links[c].state
      BY <1>6 DEF Outside
    <2>2. LinkReady(c)' => LinkReady(c)
      BY <1>2, <1>6, <2>1 DEF Outside, LinkReady
    <2>3. ListenerReady' => ListenerReady
      BY <1>2, <2>1 DEF ListenerReady
    <2> QED  BY <2>2, <2>3
  <1>7. Covers'
    BY <1>2, <1>6, OutsideCovers
  <1> QED  BY <1>4, <1>5, <1>7 DEF TaratiInv

LEMMA GotoClient ==
    ASSUME TaratiInv, NEW c \in Clients, NEW p \in Started \cup {"gone"}, Goto(c, p)
    PROVE  \E x \in ClientType : x.pc = p /\ client' = [client EXCEPT ![c] = x]
  <1> DEFINE x == [client[c] EXCEPT !.pc = p, !.message = << >>]
  <1>1. client[c] \in ClientType /\ << >> \in Seq(Nat)
    BY DEF TaratiInv, TypeInv
  <1>2. x \in ClientType /\ x.pc = p
    BY <1>1 DEF ClientType
  <1>3. client' = [client EXCEPT ![c] = x]
    BY DEF Goto
  <1> QED  BY <1>2, <1>3

LEMMA Appended ==
    ASSUME NEW S, NEW s \in Seq(S), NEW e \in S
    PROVE  /\ Append(s, e) \in Seq(S) /\ Len(Append(s, e)) = Len(s) + 1
           /\ Append(s, e)[Len(s) + 1] = e
           /\ \A i \in 1..Len(s) : Append(s, e)[i] = s[i]
  <1>1. Append(s, e) \in Seq(S)
    OBVIOUS
  <1>2. Len(Append(s, e)) = Len(s) + 1
    OBVIOUS
  <1>3. Append(s, e)[Len(s) + 1] = e
    BY AppendProperties
  <1>4. \A i \in 1..Len(s) : Append(s, e)[i] = s[i]
    OBVIOUS
  <1> QED  BY <1>1, <1>2, <1>3, <1>4

LEMMA TwoOf ==
    ASSUME NEW S, NEW s \in Seq(S), NEW e \in S, NEW t \in Seq(S)
    PROVE  Len(s) = 1 /\ Len(t) = 2 /\ t[1] = s[1] /\ t[2] = e => Append(s, e) = t
  <1>1. PICK a : /\ a = Append(s, e) /\ a \in Seq(S) /\ Len(a) = Len(s) + 1
                 /\ a[Len(s) + 1] = e /\ \A i \in 1..Len(s) : a[i] = s[i]
    <2>1. /\ Append(s, e) \in Seq(S) /\ Len(Append(s, e)) = Len(s) + 1
          /\ Append(s, e)[Len(s) + 1] = e
          /\ \A i \in 1..Len(s) : Append(s, e)[i] = s[i]
      BY Appended
    <2> QED  BY <2>1
  <1>2. ASSUME Len(s) = 1, Len(t) = 2, t[1] = s[1], t[2] = e
        PROVE  a = t
    <2>1. Len(a) = 2 /\ a[1] = s[1] /\ a[2] = e
      BY <1>1, <1>2
    <2>2. \A i \in 1..Len(a) : a[i] = t[i]
      BY <1>2, <2>1
    <2> QED  BY <1>1, <1>2, <2>1, <2>2, SeqEqual
  <1> QED  BY <1>1, <1>2

LEMMA DeliverStep ==
    ASSUME TaratiInv, NEW c \in Clients, Deliver(c)
    PROVE  TaratiInv'
  <1> DEFINE l == [links[c] EXCEPT !.wire = Tail(@), !.inbox = Append(@, Head(links[c].wire))]
  <1>1. /\ links \in [Clients -> Link] /\ links[c] \in Link /\ client[c] \in ClientType
        /\ client \in [Clients -> ClientType] /\ signals \subseteq {"SIGIO", "SIGUSR1"}
    BY DEF TaratiInv, TypeInv
  <1>2. /\ Up /\ links[c].wire # << >> /\ links' = [links EXCEPT ![c] = l]
        /\ IF links[c].state = "open" THEN Raise("SIGIO") ELSE UNCHANGED signals
        /\ ServerRests /\ UNCHANGED << channel, client >>
    BY DEF Deliver
  <1>3. /\ links[c].wire \in Seq(Parts) /\ links[c].inbox \in Seq(Parts)
    BY <1>1 DEF Link
  <1>4. Tail(links[c].wire) \in Seq(Parts) /\ Head(links[c].wire) \in Parts
    BY <1>2, <1>3
  <1>5. Append(links[c].inbox, Head(links[c].wire)) \in Seq(Parts)
    BY <1>3, <1>4
  <1>6. /\ l \in Link /\ l.state = links[c].state /\ l.reading = links[c].reading
        /\ l.call = links[c].call /\ l.answer = links[c].answer
        /\ l.wire = Tail(links[c].wire)
        /\ l.inbox = Append(links[c].inbox, Head(links[c].wire))
    BY <1>1, <1>4, <1>5 DEF Link
  <1> HIDE DEF l
  <1>7. OneCallOf(links[c]) => OneCallOf(l)
    <2>1. /\ Tail(<< "header", "body" >>) = << "body" >> /\ Tail(<< "body" >>) = << >>
          /\ Head(<< "header", "body" >>) = "header" /\ Head(<< "body" >>) = "body"
          /\ Append(<< >>, "header") = << "header" >> /\ Append(<< >>, "body") = << "body" >>
          /\ Append(<< "header" >>, "body") = << "header", "body" >>
      <3>1. Tail(<< "header", "body" >>) = << "body" >>
        OBVIOUS
      <3>2. Tail(<< "body" >>) = << >>
        OBVIOUS
      <3>3. Head(<< "header", "body" >>) = "header" /\ Head(<< "body" >>) = "body"
        OBVIOUS
      <3>4. Append(<< >>, "header") = << "header" >> /\ Append(<< >>, "body") = << "body" >>
        OBVIOUS
      <3>5. Append(<< "header" >>, "body") = << "header", "body" >>
        <4> DEFINE s == << "header" >>
                   t == << "header", "body" >>
        <4>1. /\ s \in Seq(Parts) /\ t \in Seq(Parts) /\ Len(s) = 1 /\ Len(t) = 2
              /\ t[1] = s[1] /\ t[2] = "body" /\ "body" \in Parts
          BY DEF Parts
        <4> HIDE DEF s, t
        <4>2. Append(s, "body") = t
          BY <4>1, TwoOf
        <4> QED  BY <4>2 DEF s, t
      <3> QED  BY <3>1, <3>2, <3>3, <3>4, <3>5
    <2>2. OneCallOf(links[c]) => Sending(links[c])
      BY <1>2 DEF OneCallOf, Idle, Answering
    <2>3. Sending(links[c]) => Sending(l)
      BY <1>2, <1>6, <2>1 DEF Sending
    <2> QED  BY <2>2, <2>3 DEF OneCallOf
  <1>8. /\ signals \subseteq signals' /\ signals' \subseteq {"SIGIO", "SIGUSR1"}
        /\ l.state = "open" => Told'
    BY <1>1, <1>2, <1>6 DEF Raise, Told
  <1>9. client[c].pc # "gone" => OneCallOf(l)
    BY <1>7 DEF TaratiInv, OneCall, Gone
  <1>10. client' = [client EXCEPT ![c] = client[c]]
    BY <1>1, <1>2
  <1>11. Outside(c, l, client[c])
    BY <1>1, <1>2, <1>6, <1>8, <1>9, <1>10 DEF Outside
  <1> QED  BY <1>2, <1>8, <1>11, OutsideStep DEF TaratiInv, TypeInv

LEMMA CallSteps ==
    ASSUME TaratiInv, NEW c \in Clients, StartClient(c) \/ Call(c) \/ MakeRoom(c)
    PROVE  TaratiInv'
  <1>1. /\ links \in [Clients -> Link] /\ links[c] \in Link /\ client[c] \in ClientType
        /\ client \in [Clients -> ClientType] /\ signals \subseteq {"SIGIO", "SIGUSR1"}
        /\ OneCallOf(links[c])
    BY DEF TaratiInv, TypeInv, OneCall, Gone, StartClient, Call, MakeRoom, Calls
  <1>2. ServerRests /\ UNCHANGED channel
    BY DEF StartClient, Call, MakeRoom
  <1>3. signals \subseteq signals' /\ signals' \subseteq {"SIGIO", "SIGUSR1"}
    BY <1>1 DEF StartClient, Call, MakeRoom, Raise
  <1>4. \E l, x : Outside(c, l, x)
    <2>1. CASE StartClient(c)
      <3> DEFINE l == [links[c] EXCEPT !.state = "backlog"]
                 x == [client[c] EXCEPT !.pc = "setup"]
      <3>1. links' = [links EXCEPT ![c] = l] /\ client' = [client EXCEPT ![c] = x] /\ Told'
        BY <2>1 DEF StartClient, Raise, Told
      <3>2. /\ l \in Link /\ l.state = "backlog" /\ l.reading = links[c].reading
            /\ l.call = links[c].call /\ l.answer = links[c].answer
            /\ l.wire = links[c].wire /\ l.inbox = links[c].inbox
        BY <1>1 DEF Link
      <3>3. x \in ClientType
        BY <1>1 DEF ClientType, Started
      <3> HIDE DEF l, x
      <3>4. OneCallOf(l)
        BY <1>1, <3>2 DEF OneCallOf, Idle, Sending, Answering
      <3> QED  BY <3>1, <3>2, <3>3, <3>4 DEF Outside
    <2>2. CASE Call(c)
      <3> DEFINE l == [links[c] EXCEPT !.call = client[c].pc, !.wire = << "header", "body" >>]
      <3>1. /\ links' = [links EXCEPT ![c] = l] /\ client' = [client EXCEPT ![c] = client[c]]
            /\ client[c].pc \in Calls /\ links[c].call = "none"
        BY <1>1, <2>2 DEF Call
      <3>2. << "header", "body" >> \in Seq(Parts)
        BY DEF Parts
      <3>3. /\ l \in Link /\ l.state = links[c].state /\ l.reading = links[c].reading
            /\ l.call = client[c].pc /\ l.answer = links[c].answer /\ l.room = links[c].room
            /\ l.wire = << "header", "body" >> /\ l.inbox = links[c].inbox
        BY <1>1, <3>1, <3>2 DEF Link
      <3> HIDE DEF l
      <3>4. Idle(links[c]) /\ client[c].pc # "none"
        BY <1>1, <3>1 DEF OneCallOf, Sending, Answering, Calls
      <3>5. OneCallOf(l)
        BY <3>3, <3>4 DEF OneCallOf, Idle, Sending
      <3> QED  BY <1>1, <3>1, <3>3, <3>5 DEF Outside
    <2>3. CASE MakeRoom(c)
      <3> DEFINE l == [links[c] EXCEPT !.room = TRUE]
      <3>1. /\ links' = [links EXCEPT ![c] = l] /\ client' = [client EXCEPT ![c] = client[c]]
            /\ Up => Told'
        BY <1>1, <2>3 DEF MakeRoom, Raise, Told
      <3>2. /\ l \in Link /\ l.state = links[c].state /\ l.reading = links[c].reading
            /\ l.call = links[c].call /\ l.answer = links[c].answer
            /\ l.wire = links[c].wire /\ l.inbox = links[c].inbox
        BY <1>1 DEF Link
      <3> HIDE DEF l
      <3>3. OneCallOf(l)
        BY <1>1, <3>2 DEF OneCallOf, Idle, Sending, Answering
      <3> QED  BY <1>1, <3>1, <3>2, <3>3 DEF Outside
    <2> QED  BY <2>1, <2>2, <2>3
  <1>5. PICK l : \E x : Outside(c, l, x)
    BY <1>4
  <1>6. PICK x : Outside(c, l, x)
    BY <1>5
  <1> QED  BY <1>2, <1>3, <1>6, OutsideStep DEF TaratiInv, TypeInv


LEMMA AnswerTaken ==
    ASSUME TaratiInv, NEW c \in Clients, NEW x \in ClientType, NEW call \in Calls,
           Answered(c, call), TakeAnswer(c), client' = [client EXCEPT ![c] = x]
    PROVE  \E l : Outside(c, l, x)
  <1> DEFINE l == [links[c] EXCEPT !.call = "none", !.answer = "none", !.reports = << >>]
  <1>1. /\ links \in [Clients -> Link] /\ links[c] \in Link /\ << >> \in Seq(Nat)
        /\ OneCallOf(links[c])
    BY DEF TaratiInv, TypeInv, OneCall, Gone, Answered, Calls
  <1>2. links' = [links EXCEPT ![c] = l]
    BY DEF TakeAnswer
  <1>3. /\ l \in Link /\ l.state = links[c].state /\ l.reading = links[c].reading
        /\ l.call = "none" /\ l.answer = "none" /\ l.room = links[c].room
        /\ l.wire = links[c].wire /\ l.inbox = links[c].inbox
    BY <1>1 DEF Link
  <1> HIDE DEF l
  <1>4. Answering(links[c]) /\ links[c].reading = "header"
    BY <1>1 DEF Answered, OneCallOf, Idle, Sending
  <1>5. OneCallOf(l)
    BY <1>3, <1>4 DEF OneCallOf, Idle, Answering
  <1>6. Outside(c, l, x)
    BY <1>2, <1>3, <1>5 DEF Outside
  <1> QED  BY <1>6

LEMMA AnswerSteps ==
    ASSUME TaratiInv, NEW c \in Clients,
           \/ SetupDone(c) \/ PingDone(c) \/ CommandDone(c) \/ TclExit(c) \/ Fetched(c)
           \/ Opens(c) /\ links[c].answer # "fault"
           \/ DoneDone(c) /\ ~ client[c].exiting
    PROVE  TaratiInv'
  <1>1. ServerRests /\ UNCHANGED << channel, signals >>
    BY DEF SetupDone, PingDone, CommandDone, TclExit, Fetched, Opens, DoneDone
  <1>2. PICK call \in Calls : Answered(c, call) /\ TakeAnswer(c)
    BY DEF SetupDone, PingDone, CommandDone, TclExit, Fetched, Opens, DoneDone, Calls
  <1>3. /\ links[c] \in Link /\ client[c] \in ClientType /\ << >> \in Seq(Nat)
        /\ links[c].reports \in Seq(Nat)
    BY DEF TaratiInv, TypeInv, Link
  <1>4. \E x \in ClientType : client' = [client EXCEPT ![c] = x]
    <2>1. CASE \E p \in Started : Goto(c, p)
      BY <2>1, GotoClient
    <2>2. CASE TclExit(c)
      <3>1. [pc |-> "done", message |-> << >>, exiting |-> TRUE] \in ClientType
        BY <1>3 DEF ClientType, Started
      <3> QED  BY <2>2, <3>1 DEF TclExit
    <2>3. CASE Fetched(c)
      <3> DEFINE x == [client[c] EXCEPT
                        !.pc = IF links[c].reports = << >> THEN "select" ELSE "script",
                        !.message = links[c].reports]
      <3>1. x \in ClientType
        BY <1>3 DEF ClientType, Started
      <3>2. client' = [client EXCEPT ![c] = x]
        BY <2>3 DEF Fetched
      <3> QED  BY <3>1, <3>2
    <2>4. (\E p \in Started : Goto(c, p)) \/ TclExit(c) \/ Fetched(c)
      BY DEF SetupDone, PingDone, CommandDone, Opens, DoneDone, Started
    <2> QED  BY <2>1, <2>2, <2>3, <2>4
  <1>5. PICK x \in ClientType : client' = [client EXCEPT ![c] = x]
    BY <1>4
  <1>6. PICK l : Outside(c, l, x)
    BY <1>2, <1>5, AnswerTaken
  <1> QED  BY <1>1, <1>6, OutsideStep DEF TaratiInv, TypeInv

LEMMA ScriptSteps ==
    ASSUME TaratiInv, NEW c \in Clients,
           Connect(c) \/ Notified(c) \/ Timeout(c) \/ Script(c) \/ Lost(c)
    PROVE  TaratiInv'
  <1>1. ServerRests /\ UNCHANGED links
    BY DEF Connect, Notified, Timeout, Script, Lost
  <1>2. /\ links \in [Clients -> Link] /\ links[c] \in Link
        /\ links' = [links EXCEPT ![c] = links[c]]
        /\ channel \in [state : {"none", "listening", "backlog", "accepted", "connected"},
                        of : Clients \cup {None}]
        /\ signals \subseteq {"SIGIO", "SIGUSR1"}
        /\ OneCallOf(links[c])
    BY <1>1 DEF TaratiInv, TypeInv, OneCall, Gone, Connect, Notified, Timeout, Script, Lost,
                Started
  <1>3. /\ signals \subseteq signals' /\ signals' \subseteq {"SIGIO", "SIGUSR1"}
        /\ \/ UNCHANGED channel
           \/ (Up => Told') /\ channel' = [channel EXCEPT !.state = "backlog"]
    BY <1>2 DEF Connect, Notified, Timeout, Script, Lost, Raise, Told
  <1>4. /\ channel' \in [state : {"none", "listening", "backlog", "accepted", "connected"},
                         of : Clients \cup {None}]
        /\ channel'.state = "backlog" => channel.state = "backlog" \/ (Up => Told')
    BY <1>2, <1>3
  <1>5. \E p \in Started \cup {"gone"} : Goto(c, p)
    BY DEF Connect, Notified, Timeout, Script, Lost, Started
  <1>6. PICK x \in ClientType : client' = [client EXCEPT ![c] = x]
    BY <1>5, GotoClient
  <1>7. Outside(c, links[c], x)
    BY <1>2, <1>6 DEF Outside
  <1> QED  BY <1>1, <1>3, <1>4, <1>7, OutsideStep

(* A client that ends hangs up, which is a part more to be read.           *)
LEMMA CloseSteps ==
    ASSUME TaratiInv, NEW c \in Clients, Closes(c), ServerRests, UNCHANGED channel
    PROVE  TaratiInv'
  <1> DEFINE w == IF links[c].state \in {"backlog", "accepted", "open"}
                  THEN Append(links[c].wire, "eof") ELSE links[c].wire
             l == [links[c] EXCEPT !.wire = w]
  <1>1. links \in [Clients -> Link] /\ links[c] \in Link /\ signals \subseteq {"SIGIO", "SIGUSR1"}
    BY DEF TaratiInv, TypeInv
  <1>2. w \in Seq(Parts)
    <2>1. links[c].wire \in Seq(Parts) /\ "eof" \in Parts
      BY <1>1 DEF Link, Parts
    <2>2. Append(links[c].wire, "eof") \in Seq(Parts)
      BY <2>1
    <2> QED  BY <2>1, <2>2
  <1>3. links' = [links EXCEPT ![c] = l]
    BY DEF Closes
  <1> HIDE DEF w
  <1>4. /\ l \in Link /\ l.state = links[c].state /\ l.reading = links[c].reading
        /\ l.room = links[c].room /\ l.inbox = links[c].inbox
    BY <1>1, <1>2 DEF Link
  <1> HIDE DEF l
  <1>5. Goto(c, "gone")
    BY DEF Closes
  <1>6. PICK x \in ClientType : x.pc = "gone" /\ client' = [client EXCEPT ![c] = x]
    BY <1>5, GotoClient
  <1>7. Outside(c, l, x)
    BY <1>3, <1>4, <1>6 DEF Outside
  <1>8. signals \subseteq signals' /\ signals' \subseteq {"SIGIO", "SIGUSR1"}
    BY <1>1 DEF Closes, Raise
  <1> QED  BY <1>7, <1>8, OutsideStep DEF TaratiInv, TypeInv


LEMMA ClientSteps ==
    ASSUME TaratiInv, NEW c \in Clients, Deliver(c) \/ ClientStep(c) \/ Timeout(c) \/ Die(c)
    PROVE  TaratiInv'
  <1>1. CASE Deliver(c)
    BY <1>1, DeliverStep
  <1>2. CASE StartClient(c) \/ Call(c) \/ MakeRoom(c)
    BY <1>2, CallSteps
  <1>3. CASE \/ SetupDone(c) \/ PingDone(c) \/ CommandDone(c) \/ TclExit(c) \/ Fetched(c)
             \/ Opens(c) /\ links[c].answer # "fault"
             \/ DoneDone(c) /\ ~ client[c].exiting
    BY <1>3, AnswerSteps
  <1>4. CASE Connect(c) \/ Notified(c) \/ Timeout(c) \/ Script(c) \/ Lost(c)
    BY <1>4, ScriptSteps
  <1>5. CASE \/ Opens(c) /\ links[c].answer = "fault"
             \/ DoneDone(c) /\ client[c].exiting
             \/ Die(c)
    <2>1. Closes(c) /\ ServerRests /\ UNCHANGED channel
      BY <1>5 DEF Opens, DoneDone, Die
    <2> QED  BY <2>1, CloseSteps
  <1> QED  BY <1>1, <1>2, <1>3, <1>4, <1>5 DEF ClientStep

LEMMA StepInv ==
    ASSUME TaratiInv, [TaratiNext]_taratiVars
    PROVE  TaratiInv'
  <1>1. CASE UNCHANGED taratiVars
    <2>1. UNCHANGED << links, client >>
      BY <1>1 DEF taratiVars
    <2>2. TypeInv'
      BY <1>1 DEF TaratiInv, TypeInv, taratiVars
    <2>3. OneCall'
      BY <2>1, OneCallSame DEF TaratiInv
    <2>4. Covers'
      BY <1>1, ReadySame
      DEF taratiVars, TaratiInv, Covers, NeedsCovers, SemaCovers, Up, Told, Found
    <2> QED  BY <2>2, <2>3, <2>4 DEF TaratiInv
  <1>2. CASE ServerStep
    <2>1. CASE AWB_Progress \/ EndOfCycle \/ AWB_InformProgress \/ Informed \/ NothingToAccept
      BY <2>1, ReportingSteps
    <2>2. CASE NotifyAccept \/ NotifyArmed \/ NotifyClient
      BY <2>2, AcceptingSteps
    <2>3. CASE Wait \/ Woken \/ ResetNeeds \/ ResetSema
      BY <2>3, WorkSteps
    <2>4. CASE Select \/ SelectAgain \/ WorkDone
      BY <2>4, SelectSteps
    <2>5. CASE AcceptConnection \/ LinkArmed
      BY <2>5, AcceptSteps
    <2>6. CASE \E c \in Clients : Serve(c)
      BY <2>6, ServeStep
    <2> QED  BY <1>2, <2>1, <2>2, <2>3, <2>4, <2>5, <2>6 DEF ServerStep
  <1>3. CASE IoAttention \/ NotifyAttention
    BY <1>3, HandlerSteps
  <1>4. CASE \E c \in Clients : Deliver(c) \/ ClientStep(c) \/ Timeout(c) \/ Die(c)
    BY <1>4, ClientSteps
  <1> QED  BY <1>1, <1>2, <1>3, <1>4 DEF TaratiNext

LEMMA InvCovers ==
    ASSUME TaratiInv
    PROVE  AttentionCovers
  <1>1. SUFFICES ASSUME signals = {}, pc \in {"cycle", "wait"}
                 PROVE  /\ pc = "wait" /\ sema = 0 =>
                             /\ ~ ListenerReady /\ \A c \in Clients : ~ LinkReady(c)
                             /\ ~ (notifyState = "listen" /\ channel.state = "backlog")
                        /\ ~ needs => ~ ListenerReady /\ \A c \in Clients : ~ LinkReady(c)
    BY DEF AttentionCovers, ReadyNow
  <1>2. ~ Told /\ NeedsCovers /\ SemaCovers
    BY <1>1 DEF TaratiInv, Covers, Up, Told
  <1> QED  BY <1>1, <1>2 DEF TaratiInv, TypeInv, NeedsCovers, SemaCovers, Found

-----------------------------------------------------------------------------
(* Whichever clients start at once, start when another is gone or never    *)
(* start, and whatever was processed before: the server never sleeps on,   *)
(* nor simulates past, a connection, a part of a request, room for an      *)
(* answer or a client of its notification channel that it has not been     *)
(* told of (Server::Wait, ServerNeedsAttention and IoAttention).           *)
THEOREM NoWorkOverlooked ==
    ASSUME NEW starts \in [Clients -> {"off", "later", "gone"}], NEW made \in Nat
    PROVE  TaratiInitWith(starts, made) /\ [][TaratiNext]_taratiVars => []AttentionCovers
  <1>1. TaratiInitWith(starts, made) => TaratiInv
    BY InitInv
  <1>2. TaratiInv /\ [TaratiNext]_taratiVars => TaratiInv'
    BY StepInv
  <1>3. TaratiInv => AttentionCovers
    BY InvCovers
  <1> QED  BY <1>1, <1>2, <1>3, PTL

(* In particular when every client may start when it likes.                *)
THEOREM AttentionCoversHolds == TaratiSpec => []AttentionCovers
  <1>1. [c \in Clients |-> "off"] \in [Clients -> {"off", "later", "gone"}] /\ 0 \in Nat
    OBVIOUS
  <1>2. TaratiInit /\ [][TaratiNext]_taratiVars => []AttentionCovers
    BY <1>1, NoWorkOverlooked DEF TaratiInit
  <1> QED  BY <1>2, PTL DEF TaratiSpec

-----------------------------------------------------------------------------
(***************************************************************************)
(* AWB_InformProgress keeps what it promises: every report is processed    *)
(* once, in order, and before the simulation goes on.                      *)
(*                                                                         *)
(* Nothing in the server says whether the pending reports have been worked *)
(* on; what the client does next says it.  The invariant therefore relates *)
(* the server's count to the client's place in its loop, and to the        *)
(* requests that a dead client has left on the wire.                       *)
(***************************************************************************)
-----------------------------------------------------------------------------
(***************************************************************************)
(* Every report is worked off once.  At any time the script has run on all *)
(* reports but the pending ones, or on the pending ones too.  Which of the *)
(* two, is told by what the client of the channel does: until it has       *)
(* fetched them it is hungry, then it has run the script and will say so.  *)
(***************************************************************************)
Unseen  == Len(seen) = reported - Len(pending)
AllSeen == Len(seen) = reported
Counted ==
    /\ seen \in Seq(Nat) /\ \A i \in 1..Len(seen) : seen[i] = i
    /\ \A i \in 1..Len(pending) : pending[i] = reported - Len(pending) + i
    /\ Len(pending) <= reported /\ reported <= MaxReports
    /\ Unseen \/ AllSeen

(* While the model is simulated nothing is pending but what the actions of *)
(* this turn of the loop report.                                           *)
Simulates ==
    \/ pc = "cycle"
    \/ back = "cycle" /\ pc \in {"work", "reset", "select", "serve", "armLink"}
Rests ==
    /\ Simulates \/ pc = "ended" => pending = << >>
    /\ pc = "actions" => Unseen
    /\ Simulates \/ pc = "actions" => reported < MaxReports

(* The channel is made up once, and is closed for the last report only.    *)
Talks == channel.state \in {"accepted", "connected"}
ChannelInv ==
    /\ bytes \in Nat /\ (bytes > 0 => Talks)
    /\ pc \in {"arm", "notify"} => Talks
    /\ Talks => notifyState = "accepted" \/ pc \in {"arm", "notify", "killed"}
    /\ notifyState = "accepted" /\ ~ Talks => reported = MaxReports
    /\ notifyState # "accepted" => Unseen

Shared == Counted /\ Rests /\ ChannelInv

(* What a connection l and its client x tell.  The client of the channel   *)
(* may be dead while its request waits; one that has closed the channel    *)
(* says "doneprogress" before it ends.                                     *)
Owner(c) == channel.of = c /\ channel.state # "none"
Asked(l, call) == l.call = call /\ l.answer = "none"
Closed(l, x) == x.exiting \/ (x.pc = "close" /\ l.answer # "none")
WorksOff(l, x) ==
    /\ ~ Closed(l, x)
    /\ \/ x.pc \in {"get", "script", "command", "close", "done"}
       \/ Asked(l, "close") \/ Asked(l, "done")
Hungry(l, x) == x.pc \in {"select", "ping", "get"} \/ (x.pc = "done" /\ l.answer # "none")
Ran(l, x) ==
    \/ x.pc \in {"script", "command", "close"} \/ (x.pc = "done" /\ l.answer = "none")
    \/ Asked(l, "close") \/ Asked(l, "done")

NoBody(s) == \A i \in 1..Len(s) : s[i] # "body"

CallInv(l, x) ==
    /\ l.answer # "none" => NoBody(l.wire) /\ NoBody(l.inbox)
    /\ x.exiting => x.pc \in {"done", "gone"} /\ l.call \in {"none", "done"}
    /\ x.pc # "gone" => l.call \in {"none", x.pc}
    /\ \A i \in 1..Len(x.message) : x.message[i] <= reported
FetchInv(l, x) ==
    x.pc # "gone" /\ l.reports # << >> =>
        /\ x.pc = "get" /\ l.answer # "none" /\ l.reports = pending /\ Unseen
        /\ notifyState = "accepted" /\ pc # "actions"
OwnerInv(c, l, x) ==
    /\ x.pc = "connect" \/ (x.pc = "open" /\ l.answer = "ok") =>
          Owner(c) /\ channel.state = "listening"
    /\ x.pc \in {"select", "ping"} => Owner(c)
    /\ WorksOff(l, x) => Owner(c) /\ Talks
RanInv(l, x) ==
    /\ Hungry(l, x) /\ Talks => Unseen
    /\ Ran(l, x) => AllSeen /\ pending # << >>
    /\ x.pc = "close" \/ Asked(l, "close") => reported = MaxReports
    /\ Closed(l, x) => reported = MaxReports /\ notifyState = "accepted" /\ ~ Talks

ClientInv(c, l, x) == CallInv(l, x) /\ FetchInv(l, x) /\ OwnerInv(c, l, x) /\ RanInv(l, x)
ClosedOnce ==
    \A c, d \in Clients : Closed(links[c], client[c]) /\ Closed(links[d], client[d]) => c = d
ReportsInv ==
    /\ Shared /\ ClosedOnce
    /\ \A c \in Clients : ClientInv(c, links[c], client[c])

(* Before anything is made everything is processed.                        *)
LEMMA InitReports ==
    ASSUME NEW starts \in [Clients -> {"off", "later", "gone"}],
           NEW made \in 0..(MaxReports - 1), TaratiInitWith(starts, made)
    PROVE  ReportsInv
  <1>1. /\ made \in Nat /\ made < MaxReports /\ reported = made /\ pending = << >>
        /\ pc = "cycle" /\ back = "cycle" /\ notifyState = "initial" /\ bytes = 0
        /\ channel.state = "none" /\ channel.of = None
        /\ seen = [i \in 1..made |-> i]
    BY TaratiAssumption DEF TaratiInitWith
  <1>2. seen \in Seq(Nat) /\ Len(seen) = made /\ \A i \in 1..Len(seen) : seen[i] = i
    <2>1. seen \in [1..made -> Nat] /\ DOMAIN seen = 1..made /\ made \in Nat
      BY <1>1
    <2>2. seen \in Seq(Nat)
      BY <2>1
    <2>3. Len(seen) = made
      <3>1. DOMAIN seen = 1..Len(seen) /\ Len(seen) \in Nat
        BY <2>2, LenProperties
      <3> QED  BY <2>1, <3>1
    <2>4. \A i \in 1..made : seen[i] = i
      BY <1>1
    <2> QED  BY <2>2, <2>3, <2>4
  <1>3. Len(pending) = 0
    BY <1>1
  <1>4. Shared
    <2>1. Unseen /\ AllSeen
      BY <1>1, <1>2, <1>3 DEF Unseen, AllSeen
    <2>2. Counted
      BY <1>1, <1>2, <1>3, <2>1, TaratiAssumption DEF Counted
    <2>3. Rests
      BY <1>1, <2>1 DEF Rests
    <2>4. ChannelInv
      BY <1>1, <2>1 DEF ChannelInv, Talks
    <2> QED  BY <2>2, <2>3, <2>4 DEF Shared
  <1>5. ASSUME NEW c \in Clients
        PROVE  /\ ~ Closed(links[c], client[c]) /\ ClientInv(c, links[c], client[c])
    <2>1. /\ links[c] = NoLink /\ client[c].message = << >> /\ ~ client[c].exiting
          /\ client[c].pc \in {"off", "later", "gone"}
      BY DEF TaratiInitWith
    <2>2. NoLink.call = "none" /\ NoLink.answer = "none" /\ NoLink.reports = << >>
      BY DEF NoLink
    <2>3. ~ Closed(links[c], client[c]) /\ ~ Hungry(links[c], client[c])
          /\ ~ Ran(links[c], client[c]) /\ ~ WorksOff(links[c], client[c])
          /\ ~ Asked(links[c], "close")
      BY <2>1, <2>2 DEF Closed, Hungry, Ran, WorksOff, Asked
    <2>4. \A i \in 1..Len(client[c].message) : client[c].message[i] <= reported
      BY <2>1
    <2> QED  BY <2>1, <2>2, <2>3, <2>4 DEF ClientInv, CallInv, FetchInv, OwnerInv, RanInv
  <1> QED  BY <1>4, <1>5 DEF ReportsInv, ClosedOnce

(* What is said of a client stays true while nothing that it refers to     *)
(* changes.                                                                *)
LEMMA SameClient ==
    ASSUME UNCHANGED << pending, reported, seen, channel, notifyState >>,
           pc' = "actions" => pc = "actions", NEW c, NEW l, NEW x, ClientInv(c, l, x)
    PROVE  ClientInv(c, l, x)'
  <1>1. CallInv(l, x)'
    BY DEF ClientInv, CallInv
  <1>2. FetchInv(l, x)'
    BY DEF ClientInv, FetchInv, Unseen
  <1>3. OwnerInv(c, l, x)'
    BY DEF ClientInv, OwnerInv, Owner, WorksOff, Closed, Asked, Talks
  <1>4. RanInv(l, x)'
    BY DEF ClientInv, RanInv, Hungry, Ran, Closed, Asked, Talks, Unseen, AllSeen
  <1> QED  BY <1>1, <1>2, <1>3, <1>4 DEF ClientInv

(* What the invariant says of a connection is said of its call.            *)
LEMMA SameCall ==
    ASSUME NEW c, NEW l, NEW m, NEW x,
           l.call = m.call, l.answer = m.answer, l.reports = m.reports,
           l.wire = m.wire, l.inbox = m.inbox
    PROVE  /\ ClientInv(c, m, x) => ClientInv(c, l, x)
           /\ Closed(l, x) <=> Closed(m, x)
  <1>1. Closed(l, x) <=> Closed(m, x)
    BY DEF Closed
  <1>2. ASSUME ClientInv(c, m, x)
        PROVE  ClientInv(c, l, x)
    <2>1. CallInv(l, x)
      BY <1>2 DEF ClientInv, CallInv
    <2>2. FetchInv(l, x)
      BY <1>2 DEF ClientInv, FetchInv
    <2>3. OwnerInv(c, l, x)
      BY <1>1, <1>2 DEF ClientInv, OwnerInv, WorksOff, Asked
    <2>4. RanInv(l, x)
      BY <1>1, <1>2 DEF ClientInv, RanInv, Hungry, Ran, Asked
    <2> QED  BY <2>1, <2>2, <2>3, <2>4 DEF ClientInv
  <1> QED  BY <1>1, <1>2

(* A step that moves no client need only keep what all share.              *)
LEMMA NoClientMoves ==
    ASSUME ReportsInv, Shared',
           UNCHANGED << links, client, pending, reported, seen, channel, notifyState >>,
           pc' = "actions" => pc = "actions"
    PROVE  ReportsInv'
  <1>1. ASSUME NEW c \in Clients
        PROVE  ClientInv(c, links[c], client[c])'
    BY SameClient DEF ReportsInv
  <1>2. ClosedOnce'
    BY DEF ReportsInv, ClosedOnce, Closed
  <1> QED  BY <1>1, <1>2 DEF ReportsInv

(* A step that moves one client, and changes nothing that the others refer *)
(* to.                                                                     *)
LEMMA OneClientMoves ==
    ASSUME TaratiInv, ReportsInv, Shared', NEW c \in Clients, NEW l, NEW x,
           links' = [links EXCEPT ![c] = l], client' = [client EXCEPT ![c] = x],
           UNCHANGED << pending, reported, seen, channel, notifyState >>,
           pc' = "actions" => pc = "actions", ClientInv(c, l, x),
           Closed(l, x) => Closed(links[c], client[c])
    PROVE  ReportsInv'
  <1>1. /\ links'[c] = l /\ client'[c] = x
        /\ \A d \in Clients \ {c} : links'[d] = links[d] /\ client'[d] = client[d]
    BY DEF TaratiInv, TypeInv
  <1>2. ASSUME NEW d \in Clients
        PROVE  ClientInv(d, links[d], client[d])'
    <2>1. CASE d = c
      BY <1>1, <2>1, SameClient
    <2>2. CASE d # c
      BY <1>1, <2>2, SameClient DEF ReportsInv
    <2> QED  BY <2>1, <2>2
  <1>3. \A d \in Clients : Closed(links[d], client[d])' => Closed(links[d], client[d])
    BY <1>1 DEF Closed
  <1>4. ClosedOnce'
    BY <1>3 DEF ReportsInv, ClosedOnce
  <1> QED  BY <1>2, <1>4 DEF ReportsInv

-----------------------------------------------------------------------------
(***************************************************************************)
(* The server's thread between two requests.                               *)
(***************************************************************************)
LEMMA ControlReports ==
    ASSUME TaratiInv, ReportsInv,
           \/ IoAttention \/ EndOfCycle \/ Informed \/ NothingToAccept \/ Wait \/ Woken
           \/ ResetNeeds \/ ResetSema \/ Select \/ SelectAgain \/ WorkDone
    PROVE  ReportsInv'
  <1>1. UNCHANGED << links, client, pending, reported, seen, channel, notifyState, bytes >>
    BY DEF IoAttention, EndOfCycle, Informed, NothingToAccept, Wait, Woken, ResetNeeds,
           ResetSema, Select, SelectAgain, WorkDone, Elsewhere
  <1>2. back \in {"cycle", "inform"} /\ reported <= MaxReports /\ reported \in Nat
    BY DEF TaratiInv, TypeInv, ReportsInv, Shared, Counted
  <1>3. /\ pc' \notin {"arm", "notify", "actions"} \/ pc' = pc
        /\ pc \notin {"arm", "notify", "killed"} \/ pc' = pc
    BY <1>2 DEF IoAttention, EndOfCycle, Informed, NothingToAccept, Wait, Woken, ResetNeeds,
                ResetSema, Select, SelectAgain, WorkDone
  <1>4. Rests'
    <2>1. Simulates' \/ pc' = "ended" => Simulates \/ pc = "ended" \/ pending = << >>
      BY <1>2 DEF IoAttention, EndOfCycle, Informed, NothingToAccept, Wait, Woken, ResetNeeds,
                  ResetSema, Select, SelectAgain, WorkDone, Simulates
    <2>2. Simulates' => Simulates \/ reported # MaxReports
      BY <1>2 DEF IoAttention, EndOfCycle, Informed, NothingToAccept, Wait, Woken, ResetNeeds,
                  ResetSema, Select, SelectAgain, WorkDone, Simulates
    <2>3. reported # MaxReports => reported < MaxReports
      BY <1>2, TaratiAssumption
    <2>4. pc' = "actions" => pc = "actions"
      BY <1>3
    <2> QED  BY <1>1, <2>1, <2>2, <2>3, <2>4 DEF ReportsInv, Shared, Rests, Unseen
  <1>5. ChannelInv'
    BY <1>1, <1>3 DEF ReportsInv, Shared, ChannelInv, Talks, Unseen
  <1>6. Counted'
    BY <1>1 DEF ReportsInv, Shared, Counted, Unseen, AllSeen
  <1> QED  BY <1>1, <1>3, <1>4, <1>5, <1>6, NoClientMoves DEF Shared

(* The handler that tries the channel, and NotifyClient: a byte is sent    *)
(* only where somebody can read it.                                        *)
LEMMA NotifyReports ==
    ASSUME TaratiInv, ReportsInv, NotifyAttention \/ NotifyClient
    PROVE  ReportsInv'
  <1>1. UNCHANGED << links, client, pending, reported, seen, channel, back >>
    BY DEF NotifyAttention, NotifyClient, Elsewhere
  <1>2. bytes \in Nat /\ bytes' \in Nat
    BY DEF ReportsInv, Shared, ChannelInv, NotifyAttention, NotifyClient, Sent
  <1>3. Counted'
    BY <1>1 DEF ReportsInv, Shared, Counted, Unseen, AllSeen
  <1>4. /\ bytes' = bytes \/ Talks
        /\ pc' \in {pc, "wait", "killed"}
        /\ notifyState' = notifyState \/ (notifyState' = "accepted" /\ Talks)
        /\ pc' = "wait" => pc = "wait" \/ notifyState' = "accepted"
    BY DEF ReportsInv, Shared, ChannelInv, NotifyAttention, NotifyClient, Talks
  <1>5. Rests'
    BY <1>1, <1>4 DEF ReportsInv, Shared, Rests, Simulates, Unseen
  <1>6. ChannelInv'
    BY <1>1, <1>2, <1>4 DEF ReportsInv, Shared, ChannelInv, Talks, Unseen
  <1>7. CASE notifyState' = notifyState
    BY <1>1, <1>3, <1>4, <1>5, <1>6, <1>7, NoClientMoves DEF Shared
  <1>8. CASE notifyState' = "accepted" /\ Talks
    <2>1. ASSUME NEW c \in Clients
          PROVE  ClientInv(c, links[c], client[c])'
      <3> DEFINE l == links[c]  x == client[c]
      <3>1. ClientInv(c, l, x)
        BY DEF ReportsInv
      <3>2. CallInv(l, x)'
        BY <1>1, <3>1 DEF ClientInv, CallInv
      <3>3. FetchInv(l, x)'
        BY <1>1, <1>4, <1>8, <3>1 DEF ClientInv, FetchInv, Unseen
      <3>4. OwnerInv(c, l, x)'
        BY <1>1, <3>1 DEF ClientInv, OwnerInv, Owner, WorksOff, Closed, Asked, Talks
      <3>5. RanInv(l, x)'
        BY <1>1, <1>8, <3>1
        DEF ClientInv, RanInv, Hungry, Ran, Closed, Asked, Talks, Unseen, AllSeen
      <3> QED  BY <3>2, <3>3, <3>4, <3>5 DEF ClientInv
    <2>2. ClosedOnce'
      BY <1>1 DEF ReportsInv, ClosedOnce, Closed
    <2> QED  BY <1>3, <1>5, <1>6, <2>1, <2>2 DEF ReportsInv, Shared
  <1> QED  BY <1>4, <1>7, <1>8

(* The channel is made up for a client that has fetched nothing yet.       *)
LEMMA ChannelUpReports ==
    ASSUME TaratiInv, ReportsInv, NotifyAccept \/ NotifyArmed
    PROVE  ReportsInv'
  <1>1. /\ UNCHANGED << links, client, pending, reported, seen, notifyState, back, bytes >>
        /\ channel'.of = channel.of /\ Talks'
        /\ pc \in {"inform", "arm"} /\ pc' \in {"arm", "notify"}
        /\ Talks \/ (channel.state = "backlog" /\ notifyState = "listen")
    BY DEF NotifyAccept, NotifyArmed, Elsewhere, TaratiInv, TypeInv, ReportsInv, Shared,
           ChannelInv, Talks
  <1>2. Counted'
    BY <1>1 DEF ReportsInv, Shared, Counted, Unseen, AllSeen
  <1>3. Rests'
    BY <1>1 DEF ReportsInv, Shared, Rests, Simulates, Unseen
  <1>4. ChannelInv'
    BY <1>1 DEF ReportsInv, Shared, ChannelInv, Unseen
  <1>5. ASSUME NEW c \in Clients
        PROVE  ClientInv(c, links[c], client[c])'
    <2> DEFINE l == links[c]  x == client[c]
    <2>1. ClientInv(c, l, x) /\ ChannelInv
      BY DEF ReportsInv, Shared
    <2>2. /\ l' = l /\ x' = x
      BY <1>1
    <2>3. CallInv(l, x)'
      BY <1>1, <2>1 DEF ClientInv, CallInv
    <2>4. FetchInv(l, x)'
      BY <1>1, <2>1 DEF ClientInv, FetchInv, Unseen
    <2>5. channel.state \notin {"none", "listening"} /\ channel'.state # "none"
      BY <1>1 DEF Talks
    <2>6. OwnerInv(c, l, x)'
      BY <1>1, <2>1, <2>5 DEF ClientInv, OwnerInv, Owner, WorksOff, Closed, Asked, Talks
    <2>7. Talks \/ Unseen
      BY <1>1, <2>1 DEF ChannelInv
    <2>8. RanInv(l, x)'
      <3>1. Hungry(l, x) => Unseen
        BY <2>1, <2>7 DEF ClientInv, RanInv
      <3>2. ~ Closed(l, x)
        BY <1>1, <2>1 DEF ClientInv, RanInv
      <3> QED
        BY <1>1, <2>1, <3>1, <3>2
        DEF ClientInv, RanInv, Hungry, Ran, Closed, Asked, Unseen, AllSeen
    <2> QED  BY <2>3, <2>4, <2>6, <2>8 DEF ClientInv
  <1>6. ClosedOnce'
    BY <1>1 DEF ReportsInv, ClosedOnce, Closed
  <1> QED  BY <1>2, <1>3, <1>4, <1>5, <1>6 DEF ReportsInv, Shared

(* While the model is simulated everything before this turn of the loop is *)
(* worked off.                                                             *)
LEMMA WorkedOff ==
    ASSUME TaratiInv, ReportsInv, pc \in {"cycle", "actions"}
    PROVE  /\ Unseen /\ reported < MaxReports
           /\ \A c \in Clients :
                 /\ ~ Ran(links[c], client[c]) /\ ~ Closed(links[c], client[c])
                 /\ client[c].pc # "gone" => links[c].reports = << >>
  <1>1. Unseen /\ reported < MaxReports
    <2>1. pc = "cycle" => pending = << >> /\ reported < MaxReports
      BY DEF ReportsInv, Shared, Rests, Simulates
    <2>2. pc = "actions" => Unseen /\ reported < MaxReports
      BY DEF ReportsInv, Shared, Rests
    <2>3. pending = << >> /\ (Unseen \/ AllSeen) /\ reported \in Nat => Unseen
      BY EmptySeq DEF Unseen, AllSeen
    <2> QED  BY <2>1, <2>2, <2>3 DEF ReportsInv, Shared, Counted, TaratiInv, TypeInv
  <1>2. ASSUME NEW c \in Clients
        PROVE  /\ ~ Ran(links[c], client[c]) /\ ~ Closed(links[c], client[c])
               /\ client[c].pc # "gone" => links[c].reports = << >>
    <2>1. ClientInv(c, links[c], client[c])
      BY DEF ReportsInv
    <2>2. ~ Closed(links[c], client[c])
      BY <1>1, <2>1, TaratiAssumption DEF ClientInv, RanInv
    <2>3. ~ Ran(links[c], client[c])
      <3>1. pending \in Seq(Nat) /\ reported \in Nat
        BY DEF TaratiInv, TypeInv
      <3>2. pending # << >> => Len(pending) \in Nat \ {0}
        BY <3>1, EmptySeq
      <3>3. ~ (AllSeen /\ pending # << >>)
        BY <1>1, <3>1, <3>2 DEF Unseen, AllSeen
      <3> QED  BY <2>1, <3>3 DEF ClientInv, RanInv
    <2>4. client[c].pc # "gone" => links[c].reports = << >>
      <3>1. pc = "cycle" => pending = << >>
        BY DEF ReportsInv, Shared, Rests, Simulates
      <3> QED  BY <2>1, <3>1 DEF ClientInv, FetchInv
    <2> QED  BY <2>2, <2>3, <2>4
  <1> QED  BY <1>1, <1>2

(* A report more is pending, with the next number.                         *)
LEMMA ReportMade ==
    ASSUME TaratiInv, ReportsInv, Unseen, reported < MaxReports, UNCHANGED seen,
           reported' = reported + 1, pending' = Append(pending, reported + 1)
    PROVE  Counted' /\ Unseen'
  <1>1. /\ pending \in Seq(Nat) /\ reported \in Nat /\ reported + 1 \in Nat
        /\ MaxReports \in Nat /\ Len(pending) \in Nat /\ Len(pending) <= reported
        /\ seen \in Seq(Nat) /\ \A i \in 1..Len(seen) : seen[i] = i
        /\ \A i \in 1..Len(pending) : pending[i] = reported - Len(pending) + i
    BY TaratiAssumption DEF TaratiInv, TypeInv, ReportsInv, Shared, Counted
  <1>2. /\ pending' \in Seq(Nat) /\ Len(pending') = Len(pending) + 1
        /\ pending'[Len(pending) + 1] = reported + 1
        /\ \A i \in 1..Len(pending) : pending'[i] = pending[i]
    <2>1. /\ Append(pending, reported + 1) \in Seq(Nat)
          /\ Len(Append(pending, reported + 1)) = Len(pending) + 1
          /\ Append(pending, reported + 1)[Len(pending) + 1] = reported + 1
          /\ \A i \in 1..Len(pending) : Append(pending, reported + 1)[i] = pending[i]
      BY <1>1, Appended
    <2> QED  BY <2>1
  <1>3. Unseen'
    <2>1. Len(seen) = reported - Len(pending)
      BY DEF Unseen
    <2>2. Len(seen') = Len(seen)
      OBVIOUS
    <2>3. Len(seen') = reported' - Len(pending')
      BY <1>1, <1>2, <2>1, <2>2
    <2> QED  BY <2>3 DEF Unseen
  <1>4. \A i \in 1..Len(pending') : pending'[i] = reported' - Len(pending') + i
    <2>1. ASSUME NEW i \in 1..Len(pending'), i # Len(pending) + 1
          PROVE  pending'[i] = reported' - Len(pending') + i
      <3>1. i \in 1..Len(pending)
        BY <1>1, <1>2, <2>1
      <3>2. pending'[i] = reported - Len(pending) + i
        BY <1>1, <1>2, <3>1
      <3> QED  BY <1>1, <1>2, <3>1, <3>2
    <2>2. pending'[Len(pending) + 1] = reported' - Len(pending') + (Len(pending) + 1)
      BY <1>1, <1>2
    <2> QED  BY <2>1, <2>2
  <1>5. Len(pending') <= reported' /\ reported' <= MaxReports
    BY <1>1, <1>2
  <1>6. seen' \in Seq(Nat) /\ \A i \in 1..Len(seen') : seen'[i] = i
    BY <1>1
  <1> QED  BY <1>3, <1>4, <1>5, <1>6 DEF Counted

(* AWB_Progress makes a report, AWB_InformProgress begins to wait for all. *)
LEMMA ProgressReports ==
    ASSUME TaratiInv, ReportsInv, AWB_Progress \/ AWB_InformProgress
    PROVE  ReportsInv'
  <1>1. /\ pc \in {"cycle", "actions"} /\ pc' \in {"actions", "inform"}
        /\ UNCHANGED << links, client, channel, seen, back >>
        /\ notifyState' = notifyState
              \/ (notifyState # "accepted" /\ notifyState' # "accepted" /\ pc' # "actions")
        /\ \/ UNCHANGED << reported, pending >> /\ pc' = "inform"
           \/ /\ reported' = reported + 1 /\ pending' = Append(pending, reported + 1)
              /\ pc' = "actions" => reported < MaxReports - 1
    BY TaratiAssumption DEF AWB_Progress, AWB_InformProgress, Elsewhere, TaratiInv, TypeInv
  <1>2. /\ Unseen /\ reported < MaxReports /\ reported \in Nat
        /\ \A c \in Clients :
              /\ ~ Ran(links[c], client[c]) /\ ~ Closed(links[c], client[c])
              /\ client[c].pc # "gone" => links[c].reports = << >>
    BY <1>1, WorkedOff DEF TaratiInv, TypeInv
  <1>3. Counted' /\ Unseen'
    <2>1. CASE UNCHANGED << reported, pending >>
      BY <1>1, <1>2, <2>1 DEF ReportsInv, Shared, Counted, Unseen, AllSeen
    <2>2. CASE reported' = reported + 1 /\ pending' = Append(pending, reported + 1)
      BY <1>1, <1>2, <2>2, ReportMade
    <2> QED  BY <1>1, <2>1, <2>2
  <1>4. reported <= reported' /\ reported' \in Nat
    BY <1>1, <1>2
  <1>5. Rests'
    <2>1. ~ Simulates' /\ pc' # "ended"
      BY <1>1 DEF Simulates
    <2>2. pc' = "actions" => reported' < MaxReports
      BY <1>1, <1>2, TaratiAssumption
    <2> QED  BY <1>3, <2>1, <2>2 DEF Rests
  <1>6. ChannelInv'
    <2>1. notifyState = "accepted" => Talks
      BY <1>2, TaratiAssumption DEF ReportsInv, Shared, ChannelInv
    <2>2. bytes' \in Nat /\ (bytes' # bytes => notifyState = "accepted")
      BY DEF AWB_Progress, AWB_InformProgress, Sent, ReportsInv, Shared, ChannelInv
    <2> QED
      BY <1>1, <1>3, <2>1, <2>2 DEF ReportsInv, Shared, ChannelInv, Talks
  <1>7. ASSUME NEW c \in Clients
        PROVE  ClientInv(c, links[c], client[c])'
    <2> DEFINE l == links[c]  x == client[c]
    <2>1. ClientInv(c, l, x) /\ x \in ClientType
      BY DEF ReportsInv, TaratiInv, TypeInv
    <2>2. l' = l /\ x' = x
      BY <1>1
    <2>3. CallInv(l, x)'
      <3>1. ASSUME NEW i \in 1..Len(x.message)
            PROVE  x.message[i] <= reported'
        <4>1. x.message[i] \in Nat /\ x.message[i] <= reported
          BY <2>1 DEF ClientInv, CallInv, ClientType
        <4> QED  BY <1>2, <1>4, <4>1
      <3> QED  BY <2>1, <2>2, <3>1 DEF ClientInv, CallInv
    <2>4. FetchInv(l, x)'
      BY <1>2, <2>2 DEF FetchInv
    <2>5. OwnerInv(c, l, x)'
      BY <1>1, <2>1, <2>2 DEF ClientInv, OwnerInv, Owner, WorksOff, Closed, Asked, Talks
    <2>6. RanInv(l, x)'
      <3>1. ~ Ran(l, x)' /\ ~ Closed(l, x)' /\ ~ (x.pc = "close" \/ Asked(l, "close"))
        BY <1>2, <2>2 DEF Ran, Closed, Asked
      <3> QED  BY <1>3, <2>2, <3>1 DEF RanInv, Asked
    <2> QED  BY <2>3, <2>4, <2>5, <2>6 DEF ClientInv
  <1>8. ClosedOnce'
    BY <1>1 DEF ReportsInv, ClosedOnce, Closed
  <1> QED  BY <1>3, <1>5, <1>6, <1>7, <1>8 DEF ReportsInv, Shared

(* A connection that is accepted has said nothing yet.                     *)
LEMMA AcceptReports ==
    ASSUME TaratiInv, ReportsInv, AcceptConnection \/ LinkArmed
    PROVE  ReportsInv'
  <1>1. /\ UNCHANGED << client, pending, reported, seen, channel, notifyState, bytes, back >>
        /\ pc \in {"serve", "armLink"} /\ pc' \in {"serve", "armLink"}
    BY DEF AcceptConnection, LinkArmed
  <1>2. PICK c \in Clients : \E s \in {"accepted", "open"} :
            links' = [links EXCEPT ![c].state = s]
    BY DEF AcceptConnection, LinkArmed, TaratiInv, TypeInv
  <1>3. PICK s \in {"accepted", "open"} : links' = [links EXCEPT ![c].state = s]
    BY <1>2
  <1> DEFINE l == [links[c] EXCEPT !.state = s]
  <1>4. /\ links' = [links EXCEPT ![c] = l] /\ client' = [client EXCEPT ![c] = client[c]]
        /\ links[c] \in Link
    BY <1>1, <1>3 DEF TaratiInv, TypeInv
  <1>5. /\ l.call = links[c].call /\ l.answer = links[c].answer
        /\ l.reports = links[c].reports /\ l.wire = links[c].wire /\ l.inbox = links[c].inbox
    BY <1>4 DEF Link
  <1> HIDE DEF l
  <1>6. /\ ClientInv(c, l, client[c])
        /\ Closed(l, client[c]) => Closed(links[c], client[c])
    BY <1>5, SameCall DEF ReportsInv
  <1>7. Shared'
    <2>1. Counted'
      BY <1>1 DEF ReportsInv, Shared, Counted, Unseen, AllSeen
    <2>2. Rests'
      BY <1>1 DEF ReportsInv, Shared, Rests, Simulates, Unseen
    <2>3. ChannelInv'
      BY <1>1 DEF ReportsInv, Shared, ChannelInv, Talks, Unseen
    <2> QED  BY <2>1, <2>2, <2>3 DEF Shared
  <1>8. pc' # "actions"
    BY <1>1
  <1> QED  BY <1>1, <1>4, <1>6, <1>7, <1>8, OneClientMoves

-----------------------------------------------------------------------------
(***************************************************************************)
(* Requests.                                                               *)
(***************************************************************************)

(* What a request that is executed makes of the connection.                *)
Executed(c, l, kind, reports) ==
    /\ links' = [links EXCEPT ![c] = l]
    /\ l.wire = << >> \/ l.answer = "none"
    /\ l.inbox = << >>
    /\ \/ /\ ~ Gone(c) /\ l.call = links[c].call /\ l.answer = kind /\ l.reports = reports
          /\ l.wire = << >>
       \/ Gone(c) /\ l.call = "none" /\ l.answer = "none"

(* A request is executed once: it had no answer before.                    *)
LEMMA ExecuteGives ==
    ASSUME TaratiInv, ReportsInv, NEW c \in Clients, NEW kind \in {"ok", "fault"},
           NEW reports \in Seq(Nat), Complete(links[c]), links[c].reading # "response",
           Execute(c, kind, reports)
    PROVE  /\ \E l : Executed(c, l, kind, reports)
           /\ links[c].answer = "none"
  <1>1. links \in [Clients -> Link] /\ links[c] \in Link
    BY DEF TaratiInv, TypeInv
  <1>2. links[c].answer = "none"
    <2>1. ~ NoBody(links[c].inbox)
      <3>1. links[c].inbox \in Seq(Parts)
        BY <1>1 DEF Link
      <3> QED  BY <3>1, LenProperties DEF Complete, NoBody
    <2> QED  BY <2>1 DEF ReportsInv, ClientInv, CallInv
  <1>3. CASE ~ Gone(c)
    <2>1. PICK r \in {"header", "response"} :
              links' = [links EXCEPT ![c].inbox = << >>, ![c].reading = r,
                                     ![c].room = (r = "header"),
                                     ![c].answer = kind, ![c].reports = reports]
      BY <1>3 DEF Execute
    <2> DEFINE l == [links[c] EXCEPT !.inbox = << >>, !.reading = r, !.room = (r = "header"),
                                     !.answer = kind, !.reports = reports]
    <2>2. links' = [links EXCEPT ![c] = l]
      BY <2>1
    <2>3. /\ l.wire = links[c].wire /\ l.call = links[c].call
          /\ l.answer = kind /\ l.inbox = << >> /\ l.reports = reports
      BY <1>1 DEF Link
    <2> HIDE DEF l
    <2>4. OneCallOf(links[c])
      BY <1>3 DEF TaratiInv, OneCall
    <2>5. links[c].wire = << >>
      BY <2>4, PartsDiffer DEF Complete, OneCallOf, Idle, Sending, Answering
    <2>6. Executed(c, l, kind, reports)
      BY <1>3, <2>2, <2>3, <2>5 DEF Executed
    <2> QED  BY <1>2, <2>6
  <1>4. CASE Gone(c)
    <2>1. PICK s \in {"open", "closed"} :
              links' = [links EXCEPT ![c] = [NoLink EXCEPT
                  !.state = s, !.wire = IF s = "open" THEN << "eof" >> ELSE << >>]]
      BY <1>4 DEF Execute
    <2> DEFINE l == [NoLink EXCEPT !.state = s,
                                   !.wire = IF s = "open" THEN << "eof" >> ELSE << >>]
    <2>2. l.call = "none" /\ l.answer = "none" /\ l.inbox = << >>
      BY DEF NoLink
    <2>3. links' = [links EXCEPT ![c] = l]
      BY <2>1
    <2> HIDE DEF l
    <2>4. Executed(c, l, kind, reports)
      BY <1>4, <2>2, <2>3 DEF Executed
    <2> QED  BY <1>2, <2>4
  <1> QED  BY <1>3, <1>4

(* There is no request where nothing was sent.                             *)
LEMMA NoBodyEmpty == NoBody(<< >>)
  BY EmptySeq DEF NoBody

(* A client that is gone and has no call any more promises nothing but the *)
(* flag of its exit.                                                       *)
LEMMA GoneClient ==
    ASSUME ReportsInv, NEW c \in Clients, Gone(c), NEW l, l.call = "none", l.answer = "none"
    PROVE  /\ ClientInv(c, l, client[c])
           /\ Closed(l, client[c]) <=> Closed(links[c], client[c])
  <1> DEFINE x == client[c]
  <1>1. x.pc = "gone" /\ ClientInv(c, links[c], x)
    BY DEF ReportsInv, Gone
  <1>2. Closed(l, x) <=> Closed(links[c], x)
    BY <1>1 DEF Closed
  <1>3. ~ Hungry(l, x) /\ ~ Ran(l, x) /\ ~ WorksOff(l, x) /\ ~ Asked(l, "close")
    BY <1>1 DEF Hungry, Ran, WorksOff, Asked
  <1> QED
    BY <1>1, <1>2, <1>3 DEF ClientInv, CallInv, FetchInv, OwnerInv, RanInv

(* What is said of a connection is kept while its call is, and while no    *)
(* second body follows an answer.                                          *)
LEMMA CallKept ==
    ASSUME NEW c, NEW l, NEW m, NEW x, ClientInv(c, m, x),
           l.call = m.call, l.answer = m.answer, l.reports = m.reports,
           l.answer # "none" => NoBody(l.wire) /\ NoBody(l.inbox)
    PROVE  ClientInv(c, l, x) /\ (Closed(l, x) <=> Closed(m, x))
  <1>1. Closed(l, x) <=> Closed(m, x)
    BY DEF Closed
  <1>2. CallInv(l, x)
    BY DEF ClientInv, CallInv
  <1>3. FetchInv(l, x)
    BY DEF ClientInv, FetchInv
  <1>4. OwnerInv(c, l, x)
    BY <1>1 DEF ClientInv, OwnerInv, WorksOff, Asked
  <1>5. RanInv(l, x)
    BY <1>1 DEF ClientInv, RanInv, Hungry, Ran, Asked
  <1> QED  BY <1>1, <1>2, <1>3, <1>4, <1>5 DEF ClientInv

(* What all share is kept by a step that changes nothing of it.            *)
LEMMA SharedSame ==
    ASSUME Shared, UNCHANGED << pc, back, pending, reported, seen, channel, notifyState >>,
           bytes' \in Nat, bytes' > 0 => bytes > 0
    PROVE  Shared'
  <1>1. Counted'
    BY DEF Shared, Counted, Unseen, AllSeen
  <1>2. Rests'
    BY DEF Shared, Rests, Simulates, Unseen
  <1>3. ChannelInv'
    BY DEF Shared, ChannelInv, Talks, Unseen
  <1> QED  BY <1>1, <1>2, <1>3 DEF Shared

(* Only one client has anything to say, and only the one that works.       *)
LEMMA OneRan ==
    ASSUME ReportsInv, NEW c \in Clients, NEW d \in Clients,
           Ran(links[c], client[c]),
           \/ Ran(links[d], client[d])
           \/ client[d].pc # "gone" /\ links[d].reports # << >>
    PROVE  c = d
  <1>1. /\ ClientInv(c, links[c], client[c]) /\ ClientInv(d, links[d], client[d])
        /\ ClosedOnce
    BY DEF ReportsInv
  <1>2. WorksOff(links[c], client[c]) \/ Closed(links[c], client[c])
    BY DEF Ran, WorksOff
  <1>3. WorksOff(links[d], client[d]) \/ Closed(links[d], client[d])
    <2>1. CASE Ran(links[d], client[d])
      BY <2>1 DEF Ran, WorksOff
    <2>2. CASE client[d].pc # "gone" /\ links[d].reports # << >>
      <3>1. client[d].pc = "get"
        BY <1>1, <2>2 DEF ClientInv, FetchInv
      <3> QED  BY <3>1 DEF WorksOff
    <2> QED  BY <2>1, <2>2
  <1>4. /\ WorksOff(links[c], client[c]) => channel.of = c /\ Talks
        /\ WorksOff(links[d], client[d]) => channel.of = d /\ Talks
        /\ Closed(links[c], client[c]) => ~ Talks
        /\ Closed(links[d], client[d]) => ~ Talks
    BY <1>1 DEF ClientInv, OwnerInv, RanInv, Owner
  <1> QED  BY <1>1, <1>2, <1>3, <1>4 DEF ClosedOnce

(* An answer that changes nothing else.                                    *)
LEMMA AnswerKeeps ==
    ASSUME TaratiInv, ReportsInv, NEW c \in Clients, NEW l,
           NEW kind \in {"ok", "fault"}, NEW reports,
           links[c].answer = "none", Executed(c, l, kind, reports), pc = "serve",
           \/ links[c].call \in {"setup", "command", "ping"} /\ reports = << >>
           \/ links[c].call = "open" /\ reports = << >> /\ kind = "fault"
           \/ links[c].call = "get" /\ reports = pending
    PROVE  ClientInv(c, l, client[c]) /\ (Closed(l, client[c]) => Closed(links[c], client[c]))
  <1> DEFINE x == client[c]
             m == links[c]
  <1>1. ClientInv(c, m, x) /\ ChannelInv
    BY DEF ReportsInv, Shared
  <1>2. CASE Gone(c)
    <2>1. l.call = "none" /\ l.answer = "none"
      BY <1>2 DEF Executed
    <2> QED  BY <1>2, <2>1, GoneClient
  <1>3. CASE ~ Gone(c)
    <2>1. /\ l.call = m.call /\ l.answer = kind /\ l.reports = reports
          /\ l.wire = << >> /\ l.inbox = << >> /\ kind # "none" /\ x.pc # "gone"
      BY <1>3 DEF Executed, Gone
    <2>2. x.pc = m.call /\ ~ x.exiting
      BY <1>1, <2>1 DEF ClientInv, CallInv
    <2>3. x.pc \in {"setup", "command", "ping", "open", "get"}
      BY <2>2
    <2>4. ~ Closed(l, x) /\ ~ Closed(m, x)
      BY <2>2, <2>3 DEF Closed
    <2>5. CallInv(l, x)
      BY <1>1, <2>1, NoBodyEmpty DEF ClientInv, CallInv
    <2>6. ~ Asked(l, "close") /\ ~ Asked(l, "done")
      BY <2>1 DEF Asked
    <2>7. FetchInv(l, x)
      <3>1. CASE x.pc = "get"
        <4>1. WorksOff(m, x) /\ Hungry(m, x)
          BY <2>4, <3>1 DEF WorksOff, Hungry
        <4>2. Talks /\ Unseen
          BY <1>1, <4>1 DEF ClientInv, OwnerInv, RanInv
        <4>3. notifyState = "accepted"
          BY <1>1, <4>2 DEF ChannelInv
        <4> QED  BY <2>1, <2>2, <3>1, <4>2, <4>3 DEF FetchInv
      <3>2. CASE x.pc # "get"
        BY <2>1, <2>2, <3>2 DEF FetchInv
      <3> QED  BY <3>1, <3>2
    <2>8. OwnerInv(c, l, x)
      <3>1. WorksOff(l, x) => WorksOff(m, x)
        BY <2>3, <2>4, <2>6 DEF WorksOff
      <3>2. x.pc = "open" => l.answer # "ok"
        BY <2>1, <2>2
      <3> QED  BY <1>1, <2>3, <3>1, <3>2 DEF ClientInv, OwnerInv
    <2>9. RanInv(l, x)
      <3>1. /\ Hungry(l, x) => Hungry(m, x)
            /\ Ran(l, x) => Ran(m, x)
        BY <2>3, <2>6 DEF Hungry, Ran
      <3> QED  BY <1>1, <2>3, <2>4, <2>6, <3>1 DEF ClientInv, RanInv
    <2> QED  BY <2>4, <2>5, <2>7, <2>8, <2>9 DEF ClientInv
  <1> QED  BY <1>2, <1>3

(* Requests that change nothing of the reports, and parts of requests.     *)
LEMMA ReadReports ==
    ASSUME TaratiInv, ReportsInv, NEW c \in Clients,
           \/ ExecuteOther(c) \/ GetProgress(c) \/ ReadHeader(c) \/ HangUp(c) \/ WriteRest(c)
           \/ ExecuteOpen(c) /\ channel.state # "none"
    PROVE  ReportsInv'
  <1> DEFINE x == client[c]
             m == links[c]
  <1>1. /\ UNCHANGED << pc, back, pending, reported, seen, channel, notifyState, bytes, client >>
        /\ pc = "serve"
    BY DEF ExecuteOther, GetProgress, ReadHeader, HangUp, WriteRest, ExecuteOpen, Serving
  <1>2. /\ links \in [Clients -> Link] /\ m \in Link /\ ClientInv(c, m, x)
        /\ client \in [Clients -> ClientType] /\ client' = [client EXCEPT ![c] = x]
        /\ pending \in Seq(Nat) /\ << >> \in Seq(Nat)
        /\ ~ Gone(c) => OneCallOf(m)
        /\ Shared
    BY <1>1 DEF TaratiInv, TypeInv, OneCall, ReportsInv
  <1>3. \E l : /\ links' = [links EXCEPT ![c] = l] /\ ClientInv(c, l, x)
               /\ Closed(l, x) => Closed(m, x)
    <2>1. CASE \/ ExecuteOther(c) \/ GetProgress(c)
               \/ ExecuteOpen(c) /\ channel.state # "none"
      <3>1. PICK kind \in {"ok", "fault"} : \E reports \in {pending, << >>} :
                /\ Execute(c, kind, reports) /\ Complete(m) /\ m.reading # "response"
                /\ \/ m.call \in {"setup", "command", "ping"} /\ reports = << >>
                   \/ m.call = "open" /\ reports = << >> /\ kind = "fault"
                   \/ m.call = "get" /\ reports = pending
        BY <2>1 DEF ExecuteOther, GetProgress, ExecuteOpen
      <3>2. PICK reports \in {pending, << >>} :
                /\ Execute(c, kind, reports) /\ Complete(m) /\ m.reading # "response"
                /\ \/ m.call \in {"setup", "command", "ping"} /\ reports = << >>
                   \/ m.call = "open" /\ reports = << >> /\ kind = "fault"
                   \/ m.call = "get" /\ reports = pending
        BY <3>1
      <3>3. reports \in Seq(Nat)
        BY <1>2
      <3>4. m.answer = "none" /\ \E l : Executed(c, l, kind, reports)
        BY <3>2, <3>3, ExecuteGives
      <3>5. PICK l : Executed(c, l, kind, reports)
        BY <3>4
      <3>6. ClientInv(c, l, x) /\ (Closed(l, x) => Closed(m, x))
        BY <1>1, <3>2, <3>4, <3>5, AnswerKeeps
      <3> QED  BY <3>5, <3>6 DEF Executed
    <2>2. CASE ReadHeader(c)
      <3> DEFINE l == [m EXCEPT !.inbox = << >>, !.reading = "request"]
      <3>1. links' = [links EXCEPT ![c] = l]
        BY <2>2 DEF ReadHeader
      <3>2. /\ l.call = m.call /\ l.answer = m.answer /\ l.reports = m.reports
            /\ l.wire = m.wire /\ l.inbox = << >>
        BY <1>2 DEF Link
      <3> HIDE DEF l
      <3>3. l.answer # "none" => NoBody(l.wire) /\ NoBody(l.inbox)
        BY <1>2, <3>2, NoBodyEmpty DEF ClientInv, CallInv
      <3>4. ClientInv(c, l, x) /\ (Closed(l, x) => Closed(m, x))
        BY <1>2, <3>2, <3>3, CallKept
      <3> QED  BY <3>1, <3>4
    <2>3. CASE Gone(c) /\ (HangUp(c) \/ WriteRest(c))
      <3> DEFINE l == [NoLink EXCEPT !.state = "closed"]
      <3>1. links' = [links EXCEPT ![c] = l]
        BY <2>3 DEF HangUp, WriteRest
      <3>2. l.call = "none" /\ l.answer = "none"
        BY DEF NoLink
      <3> HIDE DEF l
      <3>3. ClientInv(c, l, x) /\ (Closed(l, x) => Closed(m, x))
        BY <2>3, <3>2, GoneClient
      <3> QED  BY <3>1, <3>3
    <2>4. CASE ~ Gone(c) /\ WriteRest(c)
      <3> DEFINE l == [m EXCEPT !.reading = "header"]
      <3>1. links' = [links EXCEPT ![c] = l]
        BY <2>4 DEF WriteRest
      <3>2. /\ l.call = m.call /\ l.answer = m.answer /\ l.reports = m.reports
            /\ l.wire = m.wire /\ l.inbox = m.inbox
        BY <1>2 DEF Link
      <3> HIDE DEF l
      <3>3. ClientInv(c, l, x) /\ (Closed(l, x) => Closed(m, x))
        BY <1>2, <3>2, SameCall
      <3> QED  BY <3>1, <3>3
    <2>5. CASE ~ Gone(c) /\ HangUp(c)
      <3>1. Contains(m.inbox, "eof")
        BY <2>5 DEF HangUp
      <3>2. PICK i \in 1..Len(m.inbox) : m.inbox[i] = "eof"
        BY <3>1 DEF Contains
      <3>3. \/ m.inbox = << >> \/ m.inbox = << "header" >> \/ m.inbox = << "body" >>
            \/ m.inbox = << "header", "body" >>
        BY <1>2, <2>5 DEF OneCallOf, Idle, Sending, Answering
      <3>4. FALSE
        BY <3>2, <3>3
      <3> QED  BY <3>4
    <2> QED  BY <2>1, <2>2, <2>3, <2>4, <2>5
  <1>4. PICK l : /\ links' = [links EXCEPT ![c] = l] /\ ClientInv(c, l, x)
                 /\ Closed(l, x) => Closed(m, x)
    BY <1>3
  <1>5. Shared'
    <2>1. bytes' \in Nat /\ (bytes' > 0 => bytes > 0)
      BY <1>1, <1>2 DEF Shared, ChannelInv
    <2> QED  BY <1>1, <1>2, <2>1, SharedSame
  <1>6. pc' # "actions"
    BY <1>1
  <1> QED  BY <1>1, <1>2, <1>4, <1>5, <1>6, OneClientMoves

(* NotifyChannelOpen: the channel is listened for, and belongs to the      *)
(* client that asked.                                                      *)
LEMMA OpenReports ==
    ASSUME TaratiInv, ReportsInv, NEW c \in Clients, ExecuteOpen(c), channel.state = "none"
    PROVE  ReportsInv'
  <1>1. /\ UNCHANGED << pc, back, pending, reported, seen, notifyState, bytes, client >>
        /\ channel' = [state |-> "listening", of |-> c] /\ pc = "serve"
        /\ links[c].call = "open" /\ links[c].reading # "response" /\ Complete(links[c])
        /\ Execute(c, "ok", << >>) /\ << >> \in Seq(Nat)
    BY DEF ExecuteOpen, Serving
  <1>2. links[c].answer = "none" /\ \E l : Executed(c, l, "ok", << >>)
    BY <1>1, ExecuteGives
  <1>3. PICK l : Executed(c, l, "ok", << >>)
    BY <1>2
  <1>4. /\ links' = [links EXCEPT ![c] = l] /\ links'[c] = l
        /\ \A d \in Clients \ {c} : links'[d] = links[d]
    BY <1>3 DEF Executed, TaratiInv, TypeInv
  <1>5. ~ Talks /\ ~ Talks' /\ \A d : ~ Owner(d)
    BY <1>1 DEF Talks, Owner
  <1>6. Shared'
    <2>1. Counted'
      BY <1>1 DEF ReportsInv, Shared, Counted, Unseen, AllSeen
    <2>2. Rests'
      BY <1>1 DEF ReportsInv, Shared, Rests, Simulates, Unseen
    <2>3. ChannelInv'
      BY <1>1, <1>5 DEF ReportsInv, Shared, ChannelInv, Unseen
    <2> QED  BY <2>1, <2>2, <2>3 DEF Shared
  <1>7. ASSUME NEW d \in Clients, d # c
        PROVE  ClientInv(d, links[d], client[d])'
    <2> DEFINE m == links[d]  x == client[d]
    <2>1. ClientInv(d, m, x) /\ m' = m /\ x' = x
      BY <1>1, <1>4, <1>7 DEF ReportsInv
    <2>2. CallInv(m, x)'
      BY <1>1, <2>1 DEF ClientInv, CallInv
    <2>3. FetchInv(m, x)'
      BY <1>1, <2>1 DEF ClientInv, FetchInv, Unseen
    <2>4. OwnerInv(d, m, x)'
      BY <1>5, <2>1 DEF ClientInv, OwnerInv, WorksOff, Closed, Asked
    <2>5. RanInv(m, x)'
      BY <1>1, <1>5, <2>1 DEF ClientInv, RanInv, Hungry, Ran, Closed, Asked, AllSeen
    <2> QED  BY <2>2, <2>3, <2>4, <2>5 DEF ClientInv
  <1>8. /\ ClientInv(c, links[c], client[c])'
        /\ Closed(links[c], client[c])' => Closed(links[c], client[c])
    <2> DEFINE x == client[c]
    <2>1. ClientInv(c, links[c], x) /\ x' = x
      BY <1>1 DEF ReportsInv
    <2>2. CASE Gone(c)
      <3>1. l.call = "none" /\ l.answer = "none" /\ x.pc = "gone"
        BY <1>3, <2>2 DEF Executed, Gone
      <3>2. Closed(l, x) <=> Closed(links[c], x)
        BY <3>1 DEF Closed
      <3>3. ~ Hungry(l, x) /\ ~ Ran(l, x) /\ ~ WorksOff(l, x) /\ ~ Asked(l, "close")
        BY <3>1 DEF Hungry, Ran, WorksOff, Asked
      <3>4. /\ CallInv(l, x)' /\ FetchInv(l, x)' /\ OwnerInv(c, l, x)'
        BY <1>1, <2>1, <3>1, <3>3
        DEF ClientInv, CallInv, FetchInv, OwnerInv, WorksOff, Closed, Asked
      <3>5. RanInv(l, x)'
        BY <1>1, <1>5, <2>1, <3>2, <3>3
        DEF ClientInv, RanInv, Hungry, Ran, Closed, Asked
      <3> QED  BY <1>4, <2>1, <3>2, <3>4, <3>5 DEF ClientInv, Closed
    <2>3. CASE ~ Gone(c)
      <3>1. /\ l.call = "open" /\ l.answer = "ok" /\ l.reports = << >>
            /\ l.wire = << >> /\ l.inbox = << >> /\ x.pc # "gone"
        BY <1>1, <1>3, <2>3 DEF Executed, Gone
      <3>2. x.pc = "open" /\ ~ x.exiting
        BY <1>1, <2>1, <3>1 DEF ClientInv, CallInv
      <3>3. /\ ~ Closed(l, x) /\ ~ Hungry(l, x) /\ ~ Ran(l, x) /\ ~ WorksOff(l, x)
            /\ ~ Asked(l, "close")
        BY <3>1, <3>2 DEF Closed, Hungry, Ran, WorksOff, Asked
      <3>4. CallInv(l, x)'
        BY <1>1, <2>1, <3>1, <3>2, NoBodyEmpty DEF ClientInv, CallInv
      <3>5. FetchInv(l, x)'
        BY <1>1, <3>1 DEF FetchInv
      <3>6. OwnerInv(c, l, x)'
        BY <1>1, <3>2, <3>3 DEF OwnerInv, Owner, WorksOff, Closed, Asked
      <3>7. RanInv(l, x)'
        <4>1. /\ ~ Closed(l, x)' /\ ~ Hungry(l, x)' /\ ~ Ran(l, x)' /\ ~ Asked(l, "close")'
              /\ x'.pc # "close"
          BY <2>1, <3>2, <3>3 DEF Hungry, Ran, Closed, Asked
        <4> QED  BY <4>1 DEF RanInv
      <3> QED  BY <1>4, <2>1, <3>3, <3>4, <3>5, <3>6, <3>7 DEF ClientInv, Closed
    <2> QED  BY <2>2, <2>3
  <1>9. ClosedOnce'
    <2>1. \A d \in Clients : Closed(links[d], client[d])' => Closed(links[d], client[d])
      BY <1>1, <1>4, <1>8 DEF Closed
    <2> QED  BY <2>1 DEF ReportsInv, ClosedOnce
  <1> QED  BY <1>6, <1>7, <1>8, <1>9 DEF ReportsInv

(* The channel is closed by the client that works on the last report.      *)
LEMMA CloseReports ==
    ASSUME TaratiInv, ReportsInv, NEW c \in Clients, ExecuteClose(c)
    PROVE  ReportsInv'
  <1> DEFINE kind == IF channel.state = "none" THEN "fault" ELSE "ok"
  <1>1. /\ UNCHANGED << pc, back, pending, reported, seen, notifyState, client >>
        /\ channel' = [channel EXCEPT !.state = "none"] /\ bytes' = 0 /\ pc = "serve"
        /\ links[c].call = "close" /\ links[c].reading # "response" /\ Complete(links[c])
        /\ Execute(c, kind, << >>) /\ << >> \in Seq(Nat) /\ kind \in {"ok", "fault"}
    BY DEF ExecuteClose, Serving
  <1> HIDE DEF kind
  <1>2. links[c].answer = "none" /\ \E l : Executed(c, l, kind, << >>)
    BY <1>1, ExecuteGives
  <1>3. PICK l : Executed(c, l, kind, << >>)
    BY <1>2
  <1>4. /\ links' = [links EXCEPT ![c] = l] /\ links'[c] = l
        /\ \A d \in Clients \ {c} : links'[d] = links[d]
        /\ channel'.state = "none"
    BY <1>1, <1>3 DEF Executed, TaratiInv, TypeInv
  <1>5. /\ Owner(c) /\ Talks /\ reported = MaxReports /\ notifyState = "accepted"
        /\ AllSeen /\ pending # << >> /\ ~ client[c].exiting
    <2>1. ClientInv(c, links[c], client[c]) /\ Asked(links[c], "close") /\ ChannelInv
      BY <1>1, <1>2 DEF ReportsInv, Shared, Asked
    <2>2. ~ client[c].exiting
      BY <1>1, <2>1 DEF ClientInv, CallInv
    <2>3. WorksOff(links[c], client[c]) /\ Ran(links[c], client[c])
      BY <1>2, <2>1, <2>2 DEF WorksOff, Ran, Closed
    <2>4. Owner(c) /\ Talks /\ reported = MaxReports /\ AllSeen /\ pending # << >>
      BY <2>1, <2>3 DEF ClientInv, OwnerInv, RanInv
    <2> QED  BY <1>1, <2>1, <2>2, <2>4 DEF ChannelInv
  <1>6. ~ Talks'
    BY <1>4 DEF Talks
  <1>7. Shared'
    <2>1. Counted'
      BY <1>1 DEF ReportsInv, Shared, Counted, Unseen, AllSeen
    <2>2. Rests'
      BY <1>1 DEF ReportsInv, Shared, Rests, Simulates, Unseen
    <2>3. ChannelInv'
      BY <1>1, <1>5, <1>6 DEF ChannelInv
    <2> QED  BY <2>1, <2>2, <2>3 DEF Shared
  <1>8. ASSUME NEW d \in Clients, d # c
        PROVE  ClientInv(d, links[d], client[d])' /\ ~ Closed(links[d], client[d])'
    <2> DEFINE m == links[d]  x == client[d]
    <2>1. ClientInv(d, m, x) /\ m' = m /\ x' = x /\ ~ Owner(d)
      BY <1>1, <1>4, <1>5, <1>8 DEF ReportsInv, Owner
    <2>2. ~ Closed(m, x)
      BY <1>5, <2>1 DEF ClientInv, RanInv
    <2>3. CallInv(m, x)'
      BY <1>1, <2>1 DEF ClientInv, CallInv
    <2>4. FetchInv(m, x)'
      BY <1>1, <2>1 DEF ClientInv, FetchInv, Unseen
    <2>5. OwnerInv(d, m, x)'
      BY <2>1 DEF ClientInv, OwnerInv, WorksOff, Closed, Asked
    <2>6. RanInv(m, x)'
      BY <1>1, <1>6, <2>1, <2>2 DEF ClientInv, RanInv, Hungry, Ran, Closed, Asked, AllSeen
    <2> QED  BY <2>1, <2>2, <2>3, <2>4, <2>5, <2>6 DEF ClientInv, Closed
  <1>9. ClientInv(c, links[c], client[c])'
    <2> DEFINE x == client[c]
    <2>1. ClientInv(c, links[c], x) /\ x' = x
      BY <1>1 DEF ReportsInv
    <2>2. CASE Gone(c)
      <3>1. l.call = "none" /\ l.answer = "none" /\ x.pc = "gone"
        BY <1>3, <2>2 DEF Executed, Gone
      <3>2. /\ ~ Hungry(l, x) /\ ~ Ran(l, x) /\ ~ WorksOff(l, x) /\ ~ Asked(l, "close")
            /\ ~ Closed(l, x)
        BY <1>5, <3>1 DEF Hungry, Ran, WorksOff, Asked, Closed
      <3>3. /\ CallInv(l, x)' /\ FetchInv(l, x)' /\ OwnerInv(c, l, x)'
        BY <1>1, <2>1, <3>1, <3>2
        DEF ClientInv, CallInv, FetchInv, OwnerInv, WorksOff, Closed, Asked
      <3>4. RanInv(l, x)'
        <4>1. /\ ~ Closed(l, x)' /\ ~ Hungry(l, x)' /\ ~ Ran(l, x)' /\ ~ Asked(l, "close")'
              /\ x'.pc # "close"
          BY <2>1, <3>1, <3>2 DEF Hungry, Ran, Closed, Asked
        <4> QED  BY <4>1 DEF RanInv
      <3> QED  BY <1>4, <2>1, <3>3, <3>4 DEF ClientInv
    <2>3. CASE ~ Gone(c)
      <3>1. /\ l.call = "close" /\ l.answer = kind /\ l.reports = << >>
            /\ l.wire = << >> /\ l.inbox = << >> /\ x.pc # "gone" /\ kind # "none"
        BY <1>1, <1>3, <2>3 DEF Executed, Gone
      <3>2. x.pc = "close"
        BY <1>1, <2>1, <3>1 DEF ClientInv, CallInv
      <3>3. /\ Closed(l, x) /\ ~ Hungry(l, x) /\ ~ WorksOff(l, x) /\ ~ Asked(l, "close")
        BY <3>1, <3>2 DEF Closed, Hungry, WorksOff, Asked
      <3>4. CallInv(l, x)'
        BY <1>1, <1>5, <2>1, <3>1, <3>2, NoBodyEmpty DEF ClientInv, CallInv
      <3>5. FetchInv(l, x)'
        BY <3>1 DEF FetchInv
      <3>6. OwnerInv(c, l, x)'
        <4>1. ~ WorksOff(l, x)' /\ x'.pc = "close"
          BY <2>1, <3>2, <3>3 DEF WorksOff, Closed, Asked
        <4> QED  BY <4>1 DEF OwnerInv
      <3>7. RanInv(l, x)'
        BY <1>1, <1>5, <1>6, <3>2, <3>3 DEF RanInv, Hungry, AllSeen
      <3> QED  BY <1>4, <2>1, <3>4, <3>5, <3>6, <3>7 DEF ClientInv
    <2> QED  BY <2>2, <2>3
  <1>10. ClosedOnce'
    BY <1>8 DEF ClosedOnce
  <1> QED  BY <1>7, <1>8, <1>9, <1>10 DEF ReportsInv

(* The reports that the script was run on are worked off.                  *)
LEMMA DoneReports ==
    ASSUME TaratiInv, ReportsInv, NEW c \in Clients, DoneProgress(c)
    PROVE  ReportsInv'
  <1>1. /\ UNCHANGED << pc, back, reported, seen, notifyState, channel, bytes, client >>
        /\ pending' = << >> /\ pc = "serve"
        /\ links[c].call = "done" /\ links[c].reading # "response" /\ Complete(links[c])
        /\ Execute(c, "ok", << >>) /\ << >> \in Seq(Nat)
    BY DEF DoneProgress, Serving
  <1>2. links[c].answer = "none" /\ \E l : Executed(c, l, "ok", << >>)
    BY <1>1, ExecuteGives
  <1>3. PICK l : Executed(c, l, "ok", << >>)
    BY <1>2
  <1>4. /\ links' = [links EXCEPT ![c] = l] /\ links'[c] = l
        /\ \A d \in Clients \ {c} : links'[d] = links[d]
    BY <1>3 DEF Executed, TaratiInv, TypeInv
  <1>5. /\ ClientInv(c, links[c], client[c]) /\ Ran(links[c], client[c]) /\ AllSeen
        /\ reported \in Nat
    <2>1. ClientInv(c, links[c], client[c]) /\ Ran(links[c], client[c]) /\ reported \in Nat
      BY <1>1, <1>2 DEF ReportsInv, Ran, Asked, TaratiInv, TypeInv
    <2> QED  BY <2>1 DEF ClientInv, RanInv
  <1>6. Len(pending') = 0 /\ Unseen'
    <2>1. Len(pending') = 0
      BY <1>1, EmptySeq
    <2> QED  BY <1>1, <1>5, <2>1 DEF Unseen, AllSeen
  <1>7. Shared'
    <2>1. Counted'
      BY <1>1, <1>5, <1>6 DEF ReportsInv, Shared, Counted
    <2>2. Rests'
      BY <1>1, <1>6 DEF ReportsInv, Shared, Rests, Simulates
    <2>3. ChannelInv'
      BY <1>1, <1>6 DEF ReportsInv, Shared, ChannelInv, Talks
    <2> QED  BY <2>1, <2>2, <2>3 DEF Shared
  <1>8. ASSUME NEW d \in Clients, d # c
        PROVE  ClientInv(d, links[d], client[d])'
    <2> DEFINE m == links[d]  x == client[d]
    <2>1. ClientInv(d, m, x) /\ m' = m /\ x' = x
      BY <1>1, <1>4, <1>8 DEF ReportsInv
    <2>2. ~ Ran(m, x) /\ (x.pc # "gone" => m.reports = << >>)
      BY <1>5, <1>8, OneRan
    <2>3. CallInv(m, x)'
      BY <1>1, <2>1 DEF ClientInv, CallInv
    <2>4. FetchInv(m, x)'
      BY <2>1, <2>2 DEF FetchInv
    <2>5. OwnerInv(d, m, x)'
      BY <1>1, <2>1 DEF ClientInv, OwnerInv, Owner, WorksOff, Closed, Asked, Talks
    <2>6. RanInv(m, x)'
      <3>1. ~ Ran(m, x)'
        BY <2>1, <2>2 DEF Ran, Asked
      <3> QED  BY <1>1, <1>6, <2>1, <3>1 DEF ClientInv, RanInv, Closed, Asked, Talks
    <2> QED  BY <2>3, <2>4, <2>5, <2>6 DEF ClientInv
  <1>9. /\ ClientInv(c, links[c], client[c])'
        /\ Closed(links[c], client[c])' => Closed(links[c], client[c])
    <2> DEFINE x == client[c]
    <2>1. x' = x
      BY <1>1
    <2>2. CASE Gone(c)
      <3>1. l.call = "none" /\ l.answer = "none" /\ x.pc = "gone"
        BY <1>3, <2>2 DEF Executed, Gone
      <3>2. Closed(l, x)' <=> Closed(links[c], x)
        BY <2>1, <3>1 DEF Closed
      <3>3. ~ Hungry(l, x)' /\ ~ Ran(l, x)' /\ ~ WorksOff(l, x)' /\ ~ Asked(l, "close")'
        BY <2>1, <3>1 DEF Hungry, Ran, WorksOff, Asked
      <3>4. CallInv(l, x)'
        BY <1>1, <1>5, <2>1, <3>1 DEF ClientInv, CallInv
      <3>5. FetchInv(l, x)' /\ OwnerInv(c, l, x)'
        BY <2>1, <3>1, <3>3 DEF FetchInv, OwnerInv
      <3>6. RanInv(l, x)'
        BY <1>1, <1>5, <2>1, <3>1, <3>2, <3>3 DEF ClientInv, RanInv, Talks
      <3>7. (Closed(links[c], client[c])' <=> Closed(l, x)')
        BY <1>4 DEF Closed
      <3> QED  BY <1>4, <3>2, <3>4, <3>5, <3>6, <3>7 DEF ClientInv
    <2>3. CASE ~ Gone(c)
      <3>1. /\ l.call = "done" /\ l.answer = "ok" /\ l.reports = << >>
            /\ l.wire = << >> /\ l.inbox = << >> /\ x.pc # "gone"
        BY <1>1, <1>3, <2>3 DEF Executed, Gone
      <3>2. x.pc = "done"
        BY <1>1, <1>5, <3>1 DEF ClientInv, CallInv
      <3>3. Closed(l, x)' <=> Closed(links[c], x)
        BY <2>1, <3>2 DEF Closed
      <3>4. ~ Ran(l, x)' /\ ~ Asked(l, "close")'
        BY <2>1, <3>1, <3>2 DEF Ran, Asked
      <3>5. CallInv(l, x)'
        BY <1>1, <1>5, <2>1, <3>1, <3>2, NoBodyEmpty DEF ClientInv, CallInv
      <3>6. FetchInv(l, x)'
        BY <3>1 DEF FetchInv
      <3>7. OwnerInv(c, l, x)'
        <4>1. WorksOff(l, x)' => WorksOff(links[c], x)
          BY <2>1, <3>2, <3>3 DEF WorksOff
        <4> QED  BY <1>1, <1>5, <2>1, <3>2, <4>1 DEF ClientInv, OwnerInv, Owner, Talks
      <3>8. RanInv(l, x)'
        BY <1>1, <1>5, <1>6, <2>1, <3>2, <3>3, <3>4 DEF ClientInv, RanInv, Talks
      <3>9. (Closed(links[c], client[c])' <=> Closed(l, x)')
        BY <1>4 DEF Closed
      <3> QED  BY <1>4, <3>3, <3>5, <3>6, <3>7, <3>8, <3>9 DEF ClientInv
    <2> QED  BY <2>2, <2>3
  <1>10. ClosedOnce'
    <2>1. \A d \in Clients : Closed(links[d], client[d])' => Closed(links[d], client[d])
      BY <1>1, <1>4, <1>9 DEF Closed
    <2> QED  BY <2>1 DEF ReportsInv, ClosedOnce
  <1> QED  BY <1>7, <1>8, <1>9, <1>10 DEF ReportsInv

(* Whatever the server does for a connection.                              *)
LEMMA ServeReports ==
    ASSUME TaratiInv, ReportsInv, NEW c \in Clients, Serve(c)
    PROVE  ReportsInv'
  <1>1. CASE \/ ExecuteOther(c) \/ GetProgress(c) \/ ReadHeader(c) \/ HangUp(c) \/ WriteRest(c)
             \/ ExecuteOpen(c) /\ channel.state # "none"
    BY <1>1, ReadReports
  <1>2. CASE ExecuteOpen(c) /\ channel.state = "none"
    BY <1>2, OpenReports
  <1>3. CASE ExecuteClose(c)
    BY <1>3, CloseReports
  <1>4. CASE DoneProgress(c)
    BY <1>4, DoneReports
  <1> QED  BY <1>1, <1>2, <1>3, <1>4 DEF Serve

-----------------------------------------------------------------------------
(***************************************************************************)
(* The network and the clients.                                            *)
(***************************************************************************)
LEMMA ClientMoves ==
    ASSUME TaratiInv, ReportsInv, ServerRests, UNCHANGED << channel, seen >>,
           bytes' \in Nat, bytes' > 0 => bytes > 0, NEW c \in Clients, NEW l, NEW x,
           links' = [links EXCEPT ![c] = l], client' = [client EXCEPT ![c] = x],
           ClientInv(c, l, x), Closed(l, x) => Closed(links[c], client[c])
    PROVE  ReportsInv'
  <1>1. UNCHANGED << pc, back, pending, reported, notifyState >>
    BY DEF ServerRests, serverVars
  <1>2. Shared'
    BY <1>1, SharedSame DEF ReportsInv
  <1> QED  BY <1>1, <1>2, OneClientMoves

(* A part that arrives makes no request of what was none.                  *)
LEMMA NoBodyMoved ==
    ASSUME NEW s \in Seq(Parts), NEW t \in Seq(Parts), s # << >>, NoBody(s), NoBody(t)
    PROVE  NoBody(Tail(s)) /\ NoBody(Append(t, Head(s)))
  <1>1. /\ Len(s) \in Nat \ {0} /\ Head(s) = s[1] /\ s[1] \in Parts
        /\ Len(Tail(s)) = Len(s) - 1 /\ \A i \in 1..Len(Tail(s)) : Tail(s)[i] = s[i + 1]
    BY EmptySeq, HeadTailProperties
  <1>2. Head(s) # "body"
    BY <1>1 DEF NoBody
  <1>3. NoBody(Tail(s))
    BY <1>1 DEF NoBody
  <1>4. /\ Len(Append(t, Head(s))) = Len(t) + 1 /\ Append(t, Head(s))[Len(t) + 1] = Head(s)
        /\ \A i \in 1..Len(t) : Append(t, Head(s))[i] = t[i]
    BY <1>1, Appended
  <1>5. NoBody(Append(t, Head(s)))
    <2>1. Len(t) \in Nat
      OBVIOUS
    <2> QED  BY <1>2, <1>4, <2>1 DEF NoBody
  <1> QED  BY <1>3, <1>5

(* A part of a request arrives.                                            *)
LEMMA DeliverReports ==
    ASSUME TaratiInv, ReportsInv, NEW c \in Clients, Deliver(c)
    PROVE  ReportsInv'
  <1> DEFINE m == links[c]
             l == [links[c] EXCEPT !.wire = Tail(@), !.inbox = Append(@, Head(links[c].wire))]
  <1>1. /\ links \in [Clients -> Link] /\ m \in Link /\ m.wire # << >>
        /\ ServerRests /\ UNCHANGED << channel, bytes, client, seen >>
        /\ client \in [Clients -> ClientType] /\ ClientInv(c, m, client[c]) /\ bytes \in Nat
    BY DEF TaratiInv, TypeInv, Deliver, ReportsInv, Shared, ChannelInv
  <1>2. links' = [links EXCEPT ![c] = l] /\ client' = [client EXCEPT ![c] = client[c]]
    BY <1>1 DEF Deliver
  <1>3. /\ l.wire = Tail(m.wire) /\ l.inbox = Append(m.inbox, Head(m.wire))
        /\ l.call = m.call /\ l.answer = m.answer /\ l.reports = m.reports
        /\ m.wire \in Seq(Parts) /\ m.inbox \in Seq(Parts)
    BY <1>1 DEF Link
  <1> HIDE DEF l
  <1>4. l.answer # "none" => NoBody(l.wire) /\ NoBody(l.inbox)
    BY <1>1, <1>3, NoBodyMoved DEF ClientInv, CallInv
  <1>5. ClientInv(c, l, client[c]) /\ (Closed(l, client[c]) <=> Closed(m, client[c]))
    BY <1>1, <1>3, <1>4, CallKept
  <1> QED  BY <1>1, <1>2, <1>5, ClientMoves

(* A client starts, makes a request, or makes room for its answer.         *)
LEMMA CallReports ==
    ASSUME TaratiInv, ReportsInv, NEW c \in Clients, StartClient(c) \/ Call(c) \/ MakeRoom(c)
    PROVE  ReportsInv'
  <1> DEFINE m == links[c]
             w == client[c]
  <1>1. /\ links \in [Clients -> Link] /\ m \in Link /\ w \in ClientType
        /\ client \in [Clients -> ClientType] /\ OneCallOf(m) /\ w.pc # "gone"
        /\ ClientInv(c, m, w) /\ bytes \in Nat
    BY DEF TaratiInv, TypeInv, OneCall, Gone, StartClient, Call, MakeRoom, Calls,
           ReportsInv, Shared, ChannelInv
  <1>2. ServerRests /\ UNCHANGED << channel, seen, bytes >>
    BY DEF StartClient, Call, MakeRoom
  <1>3. CASE StartClient(c)
    <2> DEFINE l == [m EXCEPT !.state = "backlog"]
               x == [w EXCEPT !.pc = "setup"]
    <2>1. links' = [links EXCEPT ![c] = l] /\ client' = [client EXCEPT ![c] = x]
      BY <1>3 DEF StartClient
    <2>2. /\ l.call = m.call /\ l.answer = m.answer /\ l.reports = m.reports
          /\ l.wire = m.wire /\ l.inbox = m.inbox
      BY <1>1 DEF Link
    <2>3. x.pc = "setup" /\ x.message = w.message /\ x.exiting = w.exiting
      BY <1>1 DEF ClientType
    <2>4. w.pc \in {"off", "later"}
      BY <1>3 DEF StartClient
    <2> HIDE DEF l, x
    <2>5. m.call = "none" /\ m.answer = "none" /\ ~ w.exiting /\ m.reports = << >>
      <3>1. m.call = "none"
        BY <1>1, <2>4 DEF ClientInv, CallInv, Link, Calls
      <3> QED  BY <1>1, <2>4, <3>1 DEF ClientInv, CallInv, FetchInv, OneCallOf, Idle, Sending,
                                       Answering
    <2>6. /\ ~ Closed(l, x) /\ ~ Hungry(l, x) /\ ~ Ran(l, x) /\ ~ WorksOff(l, x)
          /\ ~ Asked(l, "close")
      BY <2>2, <2>3, <2>5 DEF Closed, Hungry, Ran, WorksOff, Asked
    <2>7. CallInv(l, x)
      BY <1>1, <2>2, <2>3, <2>5 DEF ClientInv, CallInv
    <2>8. FetchInv(l, x) /\ OwnerInv(c, l, x) /\ RanInv(l, x)
      BY <2>2, <2>3, <2>5, <2>6 DEF FetchInv, OwnerInv, RanInv
    <2>9. ClientInv(c, l, x)
      BY <2>7, <2>8 DEF ClientInv
    <2> QED  BY <1>1, <1>2, <2>1, <2>6, <2>9, ClientMoves
  <1>4. CASE Call(c)
    <2> DEFINE l == [m EXCEPT !.call = w.pc, !.wire = << "header", "body" >>]
    <2>1. /\ links' = [links EXCEPT ![c] = l] /\ client' = [client EXCEPT ![c] = w]
          /\ m.call = "none"
      BY <1>1, <1>4 DEF Call
    <2>2. l.call = w.pc /\ l.answer = m.answer /\ l.reports = m.reports
      BY <1>1 DEF Link
    <2> HIDE DEF l
    <2>3. m.answer = "none" /\ m.reports = << >>
      <3>1. m.answer = "none"
        BY <1>1, <2>1 DEF OneCallOf, Idle, Sending, Answering
      <3> QED  BY <1>1, <3>1 DEF ClientInv, FetchInv
    <2>4. /\ Closed(l, w) <=> Closed(m, w)
          /\ Hungry(l, w) <=> Hungry(m, w)
          /\ Ran(l, w) <=> Ran(m, w)
          /\ WorksOff(l, w) <=> WorksOff(m, w)
          /\ Asked(l, "close") => w.pc = "close"
      BY <2>1, <2>2, <2>3 DEF Closed, Hungry, Ran, WorksOff, Asked
    <2>5. CallInv(l, w)
      BY <1>1, <2>2, <2>3 DEF ClientInv, CallInv
    <2>6. FetchInv(l, w)
      BY <2>2, <2>3 DEF FetchInv
    <2>7. OwnerInv(c, l, w)
      BY <1>1, <2>2, <2>4 DEF ClientInv, OwnerInv
    <2>8. RanInv(l, w)
      BY <1>1, <2>4 DEF ClientInv, RanInv
    <2>9. ClientInv(c, l, w)
      BY <2>5, <2>6, <2>7, <2>8 DEF ClientInv
    <2> QED  BY <1>1, <1>2, <2>1, <2>4, <2>9, ClientMoves
  <1>5. CASE MakeRoom(c)
    <2> DEFINE l == [m EXCEPT !.room = TRUE]
    <2>1. links' = [links EXCEPT ![c] = l] /\ client' = [client EXCEPT ![c] = w]
      BY <1>1, <1>5 DEF MakeRoom
    <2>2. /\ l.call = m.call /\ l.answer = m.answer /\ l.reports = m.reports
          /\ l.wire = m.wire /\ l.inbox = m.inbox
      BY <1>1 DEF Link
    <2> HIDE DEF l
    <2>3. ClientInv(c, l, w) /\ (Closed(l, w) => Closed(m, w))
      BY <1>1, <2>2, SameCall
    <2> QED  BY <1>1, <1>2, <2>1, <2>3, ClientMoves
  <1> QED  BY <1>3, <1>4, <1>5

(* The answers that a client takes.                                        *)
LEMMA TakenGives ==
    ASSUME TaratiInv, ReportsInv, NEW c \in Clients, NEW call \in Calls,
           Answered(c, call), TakeAnswer(c)
    PROVE  /\ ClientInv(c, links[c], client[c]) /\ client[c].pc = call
           /\ links[c].answer \in {"ok", "fault"} /\ bytes \in Nat
           /\ \E l : /\ links' = [links EXCEPT ![c] = l]
                     /\ l.call = "none" /\ l.answer = "none" /\ l.reports = << >>
  <1> DEFINE l == [links[c] EXCEPT !.call = "none", !.answer = "none", !.reports = << >>]
  <1>1. links \in [Clients -> Link] /\ links[c] \in Link
    BY DEF TaratiInv, TypeInv
  <1>2. links' = [links EXCEPT ![c] = l]
    BY DEF TakeAnswer
  <1>3. l.call = "none" /\ l.answer = "none" /\ l.reports = << >>
    BY <1>1 DEF Link
  <1> HIDE DEF l
  <1>4. links[c].answer \in {"ok", "fault"}
    BY <1>1 DEF Answered, Link
  <1>5. ClientInv(c, links[c], client[c]) /\ client[c].pc = call /\ bytes \in Nat
    BY DEF Answered, ReportsInv, Shared, ChannelInv
  <1> QED  BY <1>2, <1>3, <1>4, <1>5

(* The client that goes on, as a record.                                   *)
LEMMA GotoGives ==
    ASSUME TaratiInv, NEW c \in Clients, NEW p, Goto(c, p)
    PROVE  \E x : /\ client' = [client EXCEPT ![c] = x]
                  /\ x.pc = p /\ x.message = << >> /\ x.exiting = client[c].exiting
  <1> DEFINE x == [client[c] EXCEPT !.pc = p, !.message = << >>]
  <1>1. client[c] \in ClientType
    BY DEF TaratiInv, TypeInv
  <1>2. client' = [client EXCEPT ![c] = x]
    BY DEF Goto
  <1>3. x.pc = p /\ x.message = << >> /\ x.exiting = client[c].exiting
    BY <1>1 DEF ClientType
  <1> HIDE DEF x
  <1> QED  BY <1>2, <1>3

(* Answers after which the client asks for nothing new of the reports.     *)
LEMMA AnswerReports ==
    ASSUME TaratiInv, ReportsInv, NEW c \in Clients,
           \/ SetupDone(c) \/ PingDone(c) \/ CommandDone(c)
           \/ Opens(c) /\ links[c].answer # "fault"
           \/ DoneDone(c) /\ ~ client[c].exiting
    PROVE  ReportsInv'
  <1> DEFINE m == links[c]
             w == client[c]
  <1>1. ServerRests /\ UNCHANGED << channel, seen, bytes >>
    BY DEF SetupDone, PingDone, CommandDone, Opens, DoneDone
  <1>2. PICK call \in Calls : Answered(c, call) /\ TakeAnswer(c)
    BY DEF SetupDone, PingDone, CommandDone, Opens, DoneDone, Calls
  <1>3. /\ ClientInv(c, m, w) /\ w.pc = call /\ m.answer \in {"ok", "fault"} /\ bytes \in Nat
        /\ \E l : /\ links' = [links EXCEPT ![c] = l]
                  /\ l.call = "none" /\ l.answer = "none" /\ l.reports = << >>
    BY <1>2, TakenGives
  <1>4. PICK l : /\ links' = [links EXCEPT ![c] = l]
                 /\ l.call = "none" /\ l.answer = "none" /\ l.reports = << >>
    BY <1>3
  <1>5. PICK p \in Started :
            /\ Goto(c, p)
            /\ \/ w.pc = "setup" /\ p = "open"
               \/ w.pc = "ping" /\ p = "select"
               \/ w.pc = "command" /\ p = "done"
               \/ w.pc = "open" /\ p = "connect" /\ m.answer = "ok"
               \/ w.pc = "done" /\ p = "select" /\ ~ w.exiting
    BY <1>3 DEF SetupDone, PingDone, CommandDone, Opens, DoneDone, Answered, Started
  <1>6. PICK x : /\ client' = [client EXCEPT ![c] = x]
                 /\ x.pc = p /\ x.message = << >> /\ x.exiting = w.exiting
    BY <1>5, GotoGives
  <1>7. ~ w.exiting /\ ~ Closed(m, w) /\ ~ Closed(l, x)
    BY <1>3, <1>4, <1>5, <1>6 DEF ClientInv, CallInv, Closed
  <1>8. CallInv(l, x) /\ FetchInv(l, x)
    BY <1>4, <1>6, <1>7, EmptySeq DEF CallInv, FetchInv
  <1>9. /\ Hungry(l, x) => Hungry(m, w)
        /\ Ran(l, x) => Ran(m, w)
        /\ WorksOff(l, x) => WorksOff(m, w)
        /\ ~ Asked(l, "close") /\ x.pc # "close"
    BY <1>3, <1>4, <1>5, <1>6, <1>7 DEF Hungry, Ran, WorksOff, Asked
  <1>10. OwnerInv(c, l, x)
    <2>1. x.pc = "connect" => Owner(c) /\ channel.state = "listening"
      BY <1>3, <1>5, <1>6 DEF ClientInv, OwnerInv
    <2>2. x.pc = "select" => Owner(c)
      <3>1. w.pc = "done" => WorksOff(m, w)
        BY <1>7 DEF WorksOff
      <3> QED  BY <1>3, <1>5, <1>6, <3>1 DEF ClientInv, OwnerInv
    <2>3. x.pc # "ping"
      BY <1>5, <1>6
    <2> QED  BY <1>3, <1>4, <1>9, <2>1, <2>2, <2>3 DEF ClientInv, OwnerInv
  <1>11. RanInv(l, x)
    BY <1>3, <1>7, <1>9 DEF ClientInv, RanInv
  <1>12. ClientInv(c, l, x)
    BY <1>8, <1>10, <1>11 DEF ClientInv
  <1> QED  BY <1>1, <1>3, <1>4, <1>6, <1>7, <1>12, ClientMoves

(* TclExit: the channel is closed, "doneprogress" is still to be said.     *)
LEMMA ExitReports ==
    ASSUME TaratiInv, ReportsInv, NEW c \in Clients, TclExit(c)
    PROVE  ReportsInv'
  <1> DEFINE m == links[c]
             w == client[c]
             x == [pc |-> "done", message |-> << >>, exiting |-> TRUE]
  <1>1. /\ ServerRests /\ UNCHANGED << channel, seen, bytes >>
        /\ Answered(c, "close") /\ TakeAnswer(c) /\ "close" \in Calls
        /\ client' = [client EXCEPT ![c] = x]
    BY DEF TclExit, Calls
  <1>2. /\ ClientInv(c, m, w) /\ w.pc = "close" /\ m.answer \in {"ok", "fault"} /\ bytes \in Nat
        /\ \E l : /\ links' = [links EXCEPT ![c] = l]
                  /\ l.call = "none" /\ l.answer = "none" /\ l.reports = << >>
    BY <1>1, TakenGives
  <1>3. PICK l : /\ links' = [links EXCEPT ![c] = l]
                 /\ l.call = "none" /\ l.answer = "none" /\ l.reports = << >>
    BY <1>2
  <1>4. x.pc = "done" /\ x.message = << >> /\ x.exiting
    OBVIOUS
  <1> HIDE DEF x
  <1>5. Closed(m, w) /\ Ran(m, w) /\ Closed(l, x)
    BY <1>2, <1>4 DEF Closed, Ran
  <1>6. ~ Hungry(l, x) /\ ~ WorksOff(l, x) /\ ~ Asked(l, "close")
    BY <1>3, <1>4, <1>5 DEF Hungry, WorksOff, Asked
  <1>7. CallInv(l, x) /\ FetchInv(l, x) /\ OwnerInv(c, l, x)
    BY <1>3, <1>4, <1>6, EmptySeq DEF CallInv, FetchInv, OwnerInv
  <1>8. RanInv(l, x)
    BY <1>2, <1>4, <1>5, <1>6 DEF ClientInv, RanInv
  <1>9. ClientInv(c, l, x)
    BY <1>7, <1>8 DEF ClientInv
  <1> QED  BY <1>1, <1>2, <1>3, <1>5, <1>9, ClientMoves

(* What the client does between two requests.                              *)
LEMMA NoCall ==
    ASSUME TaratiInv, ReportsInv, NEW c \in Clients,
           client[c].pc \in {"select", "script", "connect"}
    PROVE  /\ ClientInv(c, links[c], client[c])
           /\ links[c].call = "none" /\ links[c].answer = "none" /\ links[c].reports = << >>
           /\ ~ client[c].exiting /\ ~ Closed(links[c], client[c])
  <1> DEFINE m == links[c]
             w == client[c]
  <1>1. /\ links \in [Clients -> Link] /\ m \in Link /\ OneCallOf(m) /\ ClientInv(c, m, w)
    BY DEF TaratiInv, TypeInv, OneCall, Gone, ReportsInv
  <1>2. m.call = "none"
    BY <1>1 DEF ClientInv, CallInv, Link, Calls
  <1>3. m.answer = "none"
    BY <1>1, <1>2 DEF OneCallOf, Idle, Sending, Answering
  <1>4. m.reports = << >> /\ ~ w.exiting
    BY <1>1, <1>3 DEF ClientInv, CallInv, FetchInv
  <1>5. ~ Closed(m, w)
    BY <1>4 DEF Closed
  <1> QED  BY <1>1, <1>2, <1>3, <1>4, <1>5

(* A byte is read, the wait times out, or the script is run: only on the   *)
(* last report does it close the channel.                                  *)
LEMMA ScriptReports ==
    ASSUME TaratiInv, ReportsInv, NEW c \in Clients, Notified(c) \/ Timeout(c) \/ Script(c)
    PROVE  ReportsInv'
  <1> DEFINE m == links[c]
             w == client[c]
  <1>1. /\ ServerRests /\ UNCHANGED << channel, seen, links >>
        /\ w.pc \in {"select", "script"}
    BY DEF Notified, Timeout, Script
  <1>2. /\ ClientInv(c, m, w)
        /\ m.call = "none" /\ m.answer = "none" /\ m.reports = << >>
        /\ ~ w.exiting /\ ~ Closed(m, w)
    BY <1>1, NoCall
  <1>3. /\ bytes \in Nat /\ bytes' \in Nat /\ (bytes' > 0 => bytes > 0)
        /\ bytes > 0 => Talks
    BY DEF Notified, Timeout, Script, ReportsInv, Shared, ChannelInv
  <1>4. PICK p \in Started :
            /\ Goto(c, p)
            /\ \/ w.pc = "select" /\ p = "get" /\ bytes > 0
               \/ w.pc = "select" /\ p = "ping"
               \/ w.pc = "script" /\ p \in {"command", "done"}
               \/ w.pc = "script" /\ p = "close" /\ Contains(w.message, MaxReports)
    BY DEF Notified, Timeout, Script, Started
  <1>5. PICK x : /\ client' = [client EXCEPT ![c] = x]
                 /\ x.pc = p /\ x.message = << >> /\ x.exiting = w.exiting
    BY <1>4, GotoGives
  <1>6. ~ Closed(m, x)
    BY <1>2, <1>5 DEF Closed
  <1>7. CallInv(m, x) /\ FetchInv(m, x)
    BY <1>2, <1>5, EmptySeq DEF CallInv, FetchInv
  <1>8. /\ Hungry(m, x) => Hungry(m, w)
        /\ Ran(m, x) => Ran(m, w)
        /\ WorksOff(m, x) => WorksOff(m, w) \/ (w.pc = "select" /\ bytes > 0)
        /\ ~ Asked(m, "close")
    BY <1>2, <1>4, <1>5, <1>6 DEF Hungry, Ran, WorksOff, Asked
  <1>9. OwnerInv(c, m, x)
    <2>1. w.pc = "select" => Owner(c)
      BY <1>2 DEF ClientInv, OwnerInv
    <2>2. WorksOff(m, x) => Owner(c) /\ Talks
      BY <1>2, <1>3, <1>8, <2>1 DEF ClientInv, OwnerInv
    <2> QED  BY <1>4, <1>5, <2>1, <2>2 DEF OwnerInv
  <1>10. RanInv(m, x)
    <2>1. x.pc = "close" => reported = MaxReports
      <3>1. SUFFICES ASSUME x.pc = "close"
                     PROVE  reported = MaxReports
        OBVIOUS
      <3>2. Contains(w.message, MaxReports)
        BY <1>4, <1>5, <3>1
      <3>3. PICK i \in 1..Len(w.message) : w.message[i] = MaxReports
        BY <3>2 DEF Contains
      <3>4. MaxReports <= reported
        BY <1>2, <3>3 DEF ClientInv, CallInv
      <3>5. reported <= MaxReports /\ reported \in Nat
        BY DEF ReportsInv, Shared, Counted, TaratiInv, TypeInv
      <3> QED  BY <3>4, <3>5, TaratiAssumption
    <2> QED  BY <1>2, <1>6, <1>8, <2>1 DEF ClientInv, RanInv
  <1>11. ClientInv(c, m, x)
    BY <1>7, <1>9, <1>10 DEF ClientInv
  <1>12. links' = [links EXCEPT ![c] = m]
    BY <1>1 DEF TaratiInv, TypeInv
  <1> QED  BY <1>1, <1>3, <1>5, <1>6, <1>11, <1>12, ClientMoves

(* A client that ends, or dies, leaves its request behind.                 *)
LEMMA EndReports ==
    ASSUME TaratiInv, ReportsInv, NEW c \in Clients, ServerRests,
           UNCHANGED << channel, seen >>, Goto(c, "gone"), bytes' \in {0, bytes},
           \/ UNCHANGED links
           \/ links' = [links EXCEPT ![c].wire = Append(@, "eof")]
    PROVE  ReportsInv'
  <1> DEFINE m == links[c]
             w == client[c]
  <1>1. /\ links \in [Clients -> Link] /\ m \in Link /\ ClientInv(c, m, w) /\ bytes \in Nat
        /\ m.wire \in Seq(Parts)
    BY DEF TaratiInv, TypeInv, Link, ReportsInv, Shared, ChannelInv
  <1>2. PICK x : /\ client' = [client EXCEPT ![c] = x]
                 /\ x.pc = "gone" /\ x.message = << >> /\ x.exiting = w.exiting
    BY GotoGives
  <1>3. \E l : /\ links' = [links EXCEPT ![c] = l]
               /\ l.call = m.call /\ l.answer = m.answer /\ l.reports = m.reports
               /\ l.answer # "none" => NoBody(l.wire) /\ NoBody(l.inbox)
    <2>1. m.answer # "none" => NoBody(m.wire) /\ NoBody(m.inbox)
      BY <1>1 DEF ClientInv, CallInv
    <2>2. CASE UNCHANGED links
      <3>1. links' = [links EXCEPT ![c] = m]
        BY <1>1, <2>2
      <3> QED  BY <2>1, <3>1
    <2>3. CASE links' = [links EXCEPT ![c].wire = Append(@, "eof")]
      <3> DEFINE l == [m EXCEPT !.wire = Append(@, "eof")]
      <3>1. links' = [links EXCEPT ![c] = l]
        BY <2>3
      <3>2. /\ l.call = m.call /\ l.answer = m.answer /\ l.reports = m.reports
            /\ l.wire = Append(m.wire, "eof") /\ l.inbox = m.inbox
        BY <1>1 DEF Link
      <3> HIDE DEF l
      <3>3. /\ Len(Append(m.wire, "eof")) = Len(m.wire) + 1
            /\ Append(m.wire, "eof")[Len(m.wire) + 1] = "eof"
            /\ \A i \in 1..Len(m.wire) : Append(m.wire, "eof")[i] = m.wire[i]
            /\ Len(m.wire) \in Nat
        <4>1. "eof" \in Parts
          BY DEF Parts
        <4> QED  BY <1>1, <4>1, Appended
      <3>4. NoBody(m.wire) => NoBody(Append(m.wire, "eof"))
        BY <3>3 DEF NoBody
      <3> QED  BY <2>1, <3>1, <3>2, <3>4
    <2> QED  BY <2>2, <2>3
  <1>4. PICK l : /\ links' = [links EXCEPT ![c] = l]
                 /\ l.call = m.call /\ l.answer = m.answer /\ l.reports = m.reports
                 /\ l.answer # "none" => NoBody(l.wire) /\ NoBody(l.inbox)
    BY <1>3
  <1>5. /\ Closed(l, x) => Closed(m, w)
        /\ ~ Hungry(l, x)
        /\ Ran(l, x) => Ran(m, w)
        /\ Asked(l, "close") <=> Asked(m, "close")
    BY <1>2, <1>4 DEF Closed, Hungry, Ran, Asked
  <1>6. WorksOff(l, x) => WorksOff(m, w)
    BY <1>2, <1>4 DEF WorksOff, Asked, Closed
  <1>7. CallInv(l, x)
    BY <1>1, <1>2, <1>4, EmptySeq DEF ClientInv, CallInv
  <1>8. FetchInv(l, x)
    BY <1>2 DEF FetchInv
  <1>9. OwnerInv(c, l, x)
    BY <1>1, <1>2, <1>6 DEF ClientInv, OwnerInv
  <1>10. RanInv(l, x)
    BY <1>1, <1>2, <1>5 DEF ClientInv, RanInv
  <1>11. ClientInv(c, l, x)
    BY <1>7, <1>8, <1>9, <1>10 DEF ClientInv
  <1>12. bytes' \in Nat /\ (bytes' > 0 => bytes > 0)
    BY <1>1
  <1> QED  BY <1>2, <1>4, <1>5, <1>11, <1>12, ClientMoves

(* Every way in which a client can end.                                    *)
LEMMA GoneReports ==
    ASSUME TaratiInv, ReportsInv, NEW c \in Clients,
           \/ Lost(c) \/ Die(c)
           \/ Opens(c) /\ links[c].answer = "fault"
           \/ DoneDone(c) /\ client[c].exiting
    PROVE  ReportsInv'
  <1>1. ServerRests /\ UNCHANGED << channel, seen >> /\ Goto(c, "gone")
    BY DEF Lost, Die, Opens, DoneDone, Closes
  <1>2. bytes' \in {0, bytes}
    BY DEF Lost, Die, Opens, DoneDone, Closes
  <1>3. \/ UNCHANGED links
        \/ links' = [links EXCEPT ![c].wire = Append(@, "eof")]
    <2>1. links \in [Clients -> Link] /\ links[c] \in Link
      BY DEF TaratiInv, TypeInv
    <2>2. CASE Lost(c)
      BY <2>2 DEF Lost
    <2>3. CASE ~ Lost(c)
      <3>1. links' = [links EXCEPT ![c].wire =
                        IF links[c].state \in {"backlog", "accepted", "open"}
                        THEN Append(@, "eof") ELSE @]
        BY <2>3 DEF Die, Opens, DoneDone, Closes
      <3>2. CASE links[c].state \in {"backlog", "accepted", "open"}
        BY <3>1, <3>2
      <3>3. CASE links[c].state \notin {"backlog", "accepted", "open"}
        <4>1. links' = [links EXCEPT ![c].wire = @]
          BY <3>1, <3>3
        <4> QED  BY <2>1, <4>1 DEF Link
      <3> QED  BY <3>2, <3>3
    <2> QED  BY <2>2, <2>3
  <1> QED  BY <1>1, <1>2, <1>3, EndReports

(* The client whose channel is listened for connects to it.                *)
LEMMA ConnectReports ==
    ASSUME TaratiInv, ReportsInv, NEW c \in Clients, Connect(c)
    PROVE  ReportsInv'
  <1> DEFINE m == links[c]
             w == client[c]
  <1>1. /\ UNCHANGED << pc, back, pending, reported, seen, notifyState, bytes, links >>
        /\ channel' = [channel EXCEPT !.state = "backlog"]
        /\ Goto(c, "select") /\ w.pc = "connect"
    BY DEF Connect, ServerRests, serverVars
  <1>2. /\ ClientInv(c, m, w) /\ m.call = "none" /\ m.answer = "none" /\ m.reports = << >>
        /\ ~ w.exiting /\ ~ Closed(m, w)
    BY <1>1, NoCall
  <1>3. channel.of = c /\ channel.state = "listening"
    BY <1>1, <1>2 DEF ClientInv, OwnerInv, Owner
  <1>4. channel'.of = c /\ channel'.state = "backlog"
    BY <1>1, <1>3 DEF TaratiInv, TypeInv
  <1>5. ~ Talks /\ ~ Talks' /\ Owner(c)' /\ \A d \in Clients \ {c} : ~ Owner(d)
    BY <1>3, <1>4 DEF Talks, Owner
  <1>6. PICK x : /\ client' = [client EXCEPT ![c] = x]
                 /\ x.pc = "select" /\ x.message = << >> /\ x.exiting = w.exiting
    BY <1>1, GotoGives
  <1>7. client'[c] = x /\ \A d \in Clients \ {c} : client'[d] = client[d]
    BY <1>6 DEF TaratiInv, TypeInv
  <1>8. Shared'
    <2>1. Counted'
      BY <1>1 DEF ReportsInv, Shared, Counted, Unseen, AllSeen
    <2>2. Rests'
      BY <1>1 DEF ReportsInv, Shared, Rests, Simulates, Unseen
    <2>3. ChannelInv'
      BY <1>1, <1>5 DEF ReportsInv, Shared, ChannelInv, Unseen
    <2> QED  BY <2>1, <2>2, <2>3 DEF Shared
  <1>9. ASSUME NEW d \in Clients, d # c
        PROVE  ClientInv(d, links[d], client[d])'
    <2> DEFINE l == links[d]  y == client[d]
    <2>1. ClientInv(d, l, y) /\ l' = l /\ y' = y /\ ~ Owner(d)
      BY <1>1, <1>5, <1>7, <1>9 DEF ReportsInv
    <2>2. CallInv(l, y)'
      BY <1>1, <2>1 DEF ClientInv, CallInv
    <2>3. FetchInv(l, y)'
      BY <1>1, <2>1 DEF ClientInv, FetchInv, Unseen
    <2>4. OwnerInv(d, l, y)'
      BY <2>1 DEF ClientInv, OwnerInv, WorksOff, Closed, Asked
    <2>5. RanInv(l, y)'
      BY <1>1, <1>5, <2>1 DEF ClientInv, RanInv, Hungry, Ran, Closed, Asked, AllSeen
    <2> QED  BY <2>2, <2>3, <2>4, <2>5 DEF ClientInv
  <1>10. ClientInv(c, links[c], client[c])' /\ ~ Closed(links[c], client[c])'
    <2>1. ~ Closed(links[c], client[c])'
      BY <1>1, <1>2, <1>6, <1>7 DEF Closed
    <2>2. /\ ~ Ran(links[c], client[c])' /\ ~ WorksOff(links[c], client[c])'
          /\ ~ Asked(links[c], "close")'
      BY <1>1, <1>2, <1>6, <1>7 DEF Ran, WorksOff, Asked
    <2>3. CallInv(links[c], client[c])'
      BY <1>1, <1>2, <1>6, <1>7, EmptySeq DEF CallInv
    <2>4. FetchInv(links[c], client[c])'
      BY <1>1, <1>2 DEF FetchInv
    <2>5. OwnerInv(c, links[c], client[c])'
      BY <1>5, <1>6, <1>7, <2>2 DEF OwnerInv
    <2>6. RanInv(links[c], client[c])'
      BY <1>5, <1>6, <1>7, <2>1, <2>2 DEF RanInv
    <2> QED  BY <2>1, <2>3, <2>4, <2>5, <2>6 DEF ClientInv
  <1>11. ClosedOnce'
    <2>1. \A d \in Clients : Closed(links[d], client[d])' => Closed(links[d], client[d])
      BY <1>1, <1>7, <1>10 DEF Closed
    <2> QED  BY <2>1 DEF ReportsInv, ClosedOnce
  <1> QED  BY <1>8, <1>9, <1>10, <1>11 DEF ReportsInv

(* The script is run on what is pending, or there is nothing to run it on. *)
LEMMA SeenMore ==
    ASSUME TaratiInv, Counted, Unseen, seen' = seen \o pending,
           UNCHANGED << pending, reported >>
    PROVE  Counted' /\ AllSeen'
  <1>1. /\ pending \in Seq(Nat) /\ reported \in Nat /\ seen \in Seq(Nat)
        /\ Len(pending) \in Nat /\ Len(seen) \in Nat /\ Len(seen) = reported - Len(pending)
        /\ \A i \in 1..Len(seen) : seen[i] = i
        /\ \A i \in 1..Len(pending) : pending[i] = reported - Len(pending) + i
    BY DEF TaratiInv, TypeInv, Counted, Unseen
  <1>2. /\ seen \o pending \in Seq(Nat) /\ Len(seen \o pending) = Len(seen) + Len(pending)
        /\ \A i \in 1..(Len(seen) + Len(pending)) :
              (seen \o pending)[i] = IF i <= Len(seen) THEN seen[i] ELSE pending[i - Len(seen)]
    BY <1>1, ConcatProperties
  <1>3. seen' \in Seq(Nat) /\ Len(seen') = reported
    BY <1>1, <1>2
  <1>4. \A i \in 1..Len(seen') : seen'[i] = i
    <2>1. ASSUME NEW i \in 1..reported
          PROVE  seen'[i] = i
      <3>1. CASE i <= Len(seen)
        BY <1>1, <1>2, <3>1
      <3>2. CASE i > Len(seen)
        <4>1. i - Len(seen) \in 1..Len(pending)
          BY <1>1, <3>2
        <4>2. pending[i - Len(seen)] = reported - Len(pending) + (i - Len(seen))
          BY <1>1, <4>1
        <4>3. i \in 1..(Len(seen) + Len(pending)) /\ ~ (i <= Len(seen))
          BY <1>1, <3>2
        <4>4. (seen \o pending)[i] = pending[i - Len(seen)]
          BY <1>2, <4>3
        <4> QED  BY <1>1, <4>2, <4>4
      <3> QED  BY <1>1, <3>1, <3>2
    <2> QED  BY <1>3, <2>1
  <1>5. AllSeen'
    BY <1>3 DEF AllSeen
  <1> QED  BY <1>3, <1>4, <1>5 DEF Counted

(* The reports are fetched, and the script has run on them.                *)
LEMMA FetchReports ==
    ASSUME TaratiInv, ReportsInv, NEW c \in Clients, Fetched(c)
    PROVE  ReportsInv'
  <1> DEFINE m == links[c]
             w == client[c]
             x == [w EXCEPT !.pc = IF m.reports = << >> THEN "select" ELSE "script",
                            !.message = m.reports]
  <1>1. /\ UNCHANGED << pc, back, pending, reported, notifyState, channel, bytes >>
        /\ seen' = seen \o m.reports /\ ServerRests
        /\ Answered(c, "get") /\ TakeAnswer(c) /\ "get" \in Calls
        /\ client' = [client EXCEPT ![c] = x]
    BY DEF Fetched, ServerRests, serverVars, Calls
  <1>2. /\ ClientInv(c, m, w) /\ w.pc = "get" /\ m.answer \in {"ok", "fault"} /\ bytes \in Nat
        /\ \E l : /\ links' = [links EXCEPT ![c] = l]
                  /\ l.call = "none" /\ l.answer = "none" /\ l.reports = << >>
    BY <1>1, TakenGives
  <1>3. PICK l : /\ links' = [links EXCEPT ![c] = l]
                 /\ l.call = "none" /\ l.answer = "none" /\ l.reports = << >>
    BY <1>2
  <1>4. /\ x.pc = IF m.reports = << >> THEN "select" ELSE "script"
        /\ x.message = m.reports /\ x.exiting = w.exiting /\ client[c] \in ClientType
    BY DEF TaratiInv, TypeInv, ClientType
  <1> HIDE DEF x
  <1>5. ~ w.exiting /\ ~ Closed(m, w) /\ ~ Closed(l, x)
    BY <1>2, <1>4 DEF ClientInv, CallInv, Closed
  <1>6. Hungry(m, w) /\ WorksOff(m, w)
    BY <1>2, <1>5 DEF Hungry, WorksOff
  <1>7. Owner(c) /\ Talks /\ Unseen
    BY <1>2, <1>6 DEF ClientInv, OwnerInv, RanInv
  <1>8. ~ Asked(l, "close") /\ ~ Asked(l, "done")
    BY <1>3 DEF Asked
  <1>9. CASE m.reports = << >>
    <2>1. UNCHANGED seen
      <3>1. seen \in Seq(Nat)
        BY DEF ReportsInv, Shared, Counted
      <3> QED  BY <1>1, <1>9, <3>1, ConcatEmptySeq
    <2>2. x.pc = "select"
      BY <1>4, <1>9
    <2>3. ~ Ran(l, x) /\ ~ WorksOff(l, x)
      BY <1>8, <2>2 DEF Ran, WorksOff
    <2>4. CallInv(l, x) /\ FetchInv(l, x)
      BY <1>3, <1>4, <1>5, <1>9, EmptySeq DEF CallInv, FetchInv
    <2>5. OwnerInv(c, l, x)
      BY <1>7, <2>2, <2>3 DEF OwnerInv
    <2>6. RanInv(l, x)
      BY <1>5, <1>7, <1>8, <2>2, <2>3 DEF RanInv
    <2>7. ClientInv(c, l, x)
      BY <2>4, <2>5, <2>6 DEF ClientInv
    <2> QED  BY <1>1, <1>2, <1>3, <1>5, <2>1, <2>7, ClientMoves
  <1>10. CASE m.reports # << >>
    <2>1. m.reports = pending /\ notifyState = "accepted" /\ pc # "actions" /\ pending # << >>
      BY <1>2, <1>10 DEF ClientInv, FetchInv
    <2>2. Counted' /\ AllSeen'
      BY <1>1, <1>7, <2>1, SeenMore DEF ReportsInv, Shared
    <2>3. Shared'
      <3>1. Rests'
        BY <1>1, <2>1 DEF ReportsInv, Shared, Rests, Simulates
      <3>2. ChannelInv'
        BY <1>1, <2>1 DEF ReportsInv, Shared, ChannelInv, Talks
      <3> QED  BY <2>2, <3>1, <3>2 DEF Shared
    <2>4. /\ links'[c] = l /\ client'[c] = x
          /\ \A d \in Clients \ {c} : links'[d] = links[d] /\ client'[d] = client[d]
      BY <1>1, <1>3 DEF TaratiInv, TypeInv
    <2>5. ASSUME NEW d \in Clients, d # c
          PROVE  ClientInv(d, links[d], client[d])' /\ ~ Closed(links[d], client[d])'
      <3> DEFINE n == links[d]  y == client[d]
      <3>1. ClientInv(d, n, y) /\ n' = n /\ y' = y
        BY <2>4, <2>5 DEF ReportsInv
      <3>2. ~ Owner(d) /\ ~ Closed(n, y)
        BY <1>7, <2>5, <3>1 DEF Owner, ClientInv, RanInv
      <3>3. ~ WorksOff(n, y) /\ y.pc \notin {"select", "ping"}
        BY <3>1, <3>2 DEF ClientInv, OwnerInv
      <3>4. ~ Hungry(n, y) /\ y.pc # "get"
        BY <3>2, <3>3 DEF Hungry, WorksOff
      <3>5. CallInv(n, y)'
        BY <1>1, <3>1 DEF ClientInv, CallInv
      <3>6. FetchInv(n, y)'
        BY <1>1, <3>1, <3>4 DEF ClientInv, FetchInv
      <3>7. OwnerInv(d, n, y)'
        BY <1>1, <3>1 DEF ClientInv, OwnerInv, Owner, WorksOff, Closed, Asked, Talks
      <3>8. RanInv(n, y)'
        <4>1. ~ Hungry(n, y)' /\ ~ Closed(n, y)'
          BY <3>1, <3>2, <3>4 DEF Hungry, Closed
        <4>2. y'.pc = "close" \/ Asked(n, "close")' => reported' = MaxReports
          BY <1>1, <3>1 DEF ClientInv, RanInv, Asked
        <4> QED  BY <1>1, <2>1, <2>2, <4>1, <4>2 DEF RanInv
      <3> QED  BY <3>1, <3>2, <3>5, <3>6, <3>7, <3>8 DEF ClientInv, Closed
    <2>6. ClientInv(c, links[c], client[c])'
      <3>1. x.pc = "script"
        BY <1>4, <1>10
      <3>2. ~ Closed(links[c], client[c])' /\ ~ Hungry(links[c], client[c])'
            /\ ~ Asked(links[c], "close")'
        BY <1>5, <1>8, <2>4, <3>1 DEF Closed, Hungry, Asked
      <3>3. CallInv(links[c], client[c])'
        <4>1. ASSUME NEW i \in 1..Len(pending)
              PROVE  pending[i] <= reported
          <5>1. pending[i] = reported - Len(pending) + i /\ Len(pending) \in Nat /\ reported \in Nat
            BY DEF ReportsInv, Shared, Counted, TaratiInv, TypeInv
          <5> QED  BY <5>1
        <4> QED  BY <1>1, <1>3, <1>4, <1>5, <2>1, <2>4, <4>1 DEF CallInv
      <3>4. FetchInv(links[c], client[c])'
        BY <1>3, <2>4 DEF FetchInv
      <3>5. OwnerInv(c, links[c], client[c])'
        <4>1. Owner(c)' /\ Talks'
          BY <1>1, <1>7 DEF Owner, Talks
        <4> QED  BY <2>4, <3>1, <4>1 DEF OwnerInv
      <3>6. RanInv(links[c], client[c])'
        BY <1>1, <2>1, <2>2, <2>4, <3>1, <3>2 DEF RanInv
      <3> QED  BY <3>3, <3>4, <3>5, <3>6 DEF ClientInv
    <2>7. ClosedOnce'
      BY <2>5 DEF ClosedOnce
    <2> QED  BY <2>3, <2>5, <2>6, <2>7 DEF ReportsInv
  <1> QED  BY <1>9, <1>10

(* Whatever the network and a client do.                                   *)
LEMMA ClientReports ==
    ASSUME TaratiInv, ReportsInv, NEW c \in Clients,
           Deliver(c) \/ ClientStep(c) \/ Timeout(c) \/ Die(c)
    PROVE  ReportsInv'
  <1>1. CASE Deliver(c)
    BY <1>1, DeliverReports
  <1>2. CASE StartClient(c) \/ Call(c) \/ MakeRoom(c)
    BY <1>2, CallReports
  <1>3. CASE SetupDone(c) \/ PingDone(c) \/ CommandDone(c)
    BY <1>3, AnswerReports
  <1>4. CASE TclExit(c)
    BY <1>4, ExitReports
  <1>5. CASE Notified(c) \/ Timeout(c) \/ Script(c)
    BY <1>5, ScriptReports
  <1>6. CASE Lost(c) \/ Die(c)
    BY <1>6, GoneReports
  <1>7. CASE Connect(c)
    BY <1>7, ConnectReports
  <1>8. CASE Fetched(c)
    BY <1>8, FetchReports
  <1>9. CASE Opens(c)
    BY <1>9, AnswerReports, GoneReports
  <1>10. CASE DoneDone(c)
    BY <1>10, AnswerReports, GoneReports
  <1> QED
    BY <1>1, <1>2, <1>3, <1>4, <1>5, <1>6, <1>7, <1>8, <1>9, <1>10 DEF ClientStep

(* Every step keeps the invariant.                                         *)
LEMMA StepReports ==
    ASSUME TaratiInv, ReportsInv, [TaratiNext]_taratiVars
    PROVE  ReportsInv'
  <1>1. CASE UNCHANGED taratiVars
    <2>1. UNCHANGED << pc, back, pending, reported, seen, channel, notifyState, bytes,
                       links, client >> /\ bytes \in Nat
      BY <1>1 DEF taratiVars, ReportsInv, Shared, ChannelInv
    <2>2. Shared'
      BY <2>1, SharedSame DEF ReportsInv
    <2> QED  BY <2>1, <2>2, NoClientMoves
  <1>2. CASE ServerStep
    <2>1. CASE AWB_Progress \/ AWB_InformProgress
      BY <2>1, ProgressReports
    <2>2. CASE \/ EndOfCycle \/ Informed \/ NothingToAccept \/ Wait \/ Woken
               \/ ResetNeeds \/ ResetSema \/ Select \/ SelectAgain \/ WorkDone
      BY <2>2, ControlReports
    <2>3. CASE NotifyAccept \/ NotifyArmed
      BY <2>3, ChannelUpReports
    <2>4. CASE NotifyClient
      BY <2>4, NotifyReports
    <2>5. CASE AcceptConnection \/ LinkArmed
      BY <2>5, AcceptReports
    <2>6. CASE \E c \in Clients : Serve(c)
      BY <2>6, ServeReports
    <2> QED  BY <1>2, <2>1, <2>2, <2>3, <2>4, <2>5, <2>6 DEF ServerStep
  <1>3. CASE IoAttention
    BY <1>3, ControlReports
  <1>4. CASE NotifyAttention
    BY <1>4, NotifyReports
  <1>5. CASE \E c \in Clients : Deliver(c) \/ ClientStep(c) \/ Timeout(c) \/ Die(c)
    BY <1>5, ClientReports
  <1> QED  BY <1>1, <1>2, <1>3, <1>4, <1>5 DEF TaratiNext

(* The invariant says what was promised.                                   *)
LEMMA InvProcessed ==
    ASSUME TaratiInv, ReportsInv
    PROVE  AllProcessed
  <1>1. seen \in Seq(Nat) /\ reported \in Nat /\ \A i \in 1..Len(seen) : seen[i] = i
    BY DEF TaratiInv, TypeInv, ReportsInv, Shared, Counted
  <1>2. DOMAIN seen = 1..Len(seen)
    BY <1>1, LenProperties
  <1>3. pc \in {"cycle", "ended"} => Len(seen) = reported
    <2>1. pc \in {"cycle", "ended"} => pending = << >>
      BY DEF ReportsInv, Shared, Rests, Simulates
    <2>2. pending = << >> => Len(pending) = 0
      BY EmptySeq
    <2>3. Unseen \/ AllSeen
      BY DEF ReportsInv, Shared, Counted
    <2> QED  BY <1>1, <2>1, <2>2, <2>3 DEF Unseen, AllSeen
  <1> QED  BY <1>1, <1>2, <1>3 DEF AllProcessed

-----------------------------------------------------------------------------
(* Whichever clients start at once, start when another is gone or never    *)
(* start, however many die and wherever, and whatever was processed        *)
(* before: the workbench's script runs on every report once and in order,  *)
(* and when AWB_InformProgress returns, to go on with the simulation or to *)
(* end it, has run on all that were made.                                  *)
THEOREM EveryReportProcessed ==
    ASSUME NEW starts \in [Clients -> {"off", "later", "gone"}],
           NEW made \in 0..(MaxReports - 1)
    PROVE  TaratiInitWith(starts, made) /\ [][TaratiNext]_taratiVars => []AllProcessed
  <1>1. made \in Nat
    OBVIOUS
  <1>2. TaratiInitWith(starts, made) => TaratiInv /\ ReportsInv
    BY <1>1, InitInv, InitReports
  <1>3. TaratiInv /\ ReportsInv /\ [TaratiNext]_taratiVars => TaratiInv' /\ ReportsInv'
    BY StepInv, StepReports
  <1>4. TaratiInv /\ ReportsInv => AllProcessed
    BY InvProcessed
  <1> QED  BY <1>2, <1>3, <1>4, PTL

(* In particular when every client may start when it likes.                *)
THEOREM AllProcessedHolds == TaratiSpec => []AllProcessed
  <1>1. [c \in Clients |-> "off"] \in [Clients -> {"off", "later", "gone"}]
    OBVIOUS
  <1>2. 0 \in 0..(MaxReports - 1)
    BY TaratiAssumption
  <1>3. TaratiInit /\ [][TaratiNext]_taratiVars => []AllProcessed
    BY <1>1, <1>2, EveryReportProcessed DEF TaratiInit
  <1> QED  BY <1>3, PTL DEF TaratiSpec
=============================================================================
