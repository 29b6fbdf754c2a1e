------------------------------- MODULE Server -------------------------------
(***************************************************************************)
(* The server loop (src/websocket/server, src/websocket/socket): one       *)
(* thread takes a batch of edge triggered events, accepts one connection   *)
(* per event of the listening socket and waits for its request, or reads   *)
(* a client once and handles the frames of this read.  Clients connect,    *)
(* write, hang up, stop reading, and a signal arrives, at any time.        *)
(*                                                                         *)
(* The kernel is external: a descriptor whose state has changed goes on    *)
(* the ready list once, and epoll_wait returns the ones that still have    *)
(* something to report.  A connection writes the bytes of its request and  *)
(* of its frames, piece by piece.  The relay's handlers are reduced to the *)
(* messages they send: an answer to the sender and, for an EVENT, one to   *)
(* every other subscription.  Sockets block when a client does not read.   *)
(***************************************************************************)
EXTENDS Handshake, Frames, Subsequences

CONSTANTS
  Conns,          \* bound: connections, numbers from 1
  Script,         \* [request, frames, pieces] of each: pieces are the ends of its writes
  Capacity,       \* buffer_capacity
  Backlog,        \* connections the kernel keeps for accept
  Answer,         \* length of an answer to the sender
  MaxStalls       \* bound: how often clients stop reading

VARIABLES
  backlog,        \* connections that wait for accept
  fds,            \* descriptor -> its connection, 0: free
  phase,          \* of each connection: idle, queued, open, gone
  sent, read,     \* bytes written by each client, read by the server
  hup,            \* clients that have hung up
  full, stalls,   \* clients that do not read; how many have stopped so far
  ready,          \* the ready list: 0 for the listening socket, or a connection
  batch,          \* events of epoll_wait that are left: [fd, conn, hup]
  pc,             \* where the loop is
  current,        \* descriptor of the connection that is handled
  todo,           \* numbers of the frames of this read that are left
  sends,          \* messages of the handler that are left: [fd, conn, len, pong]
  signal,         \* rise_signal
  interrupted,    \* the signal came while a send was waiting
  subs,           \* subscriptions: [fd, conn]
  handled,        \* history: the frames handled of each connection
  cut,            \* history: connections of which a read ended within a frame
  left,           \* history: connections of which a read left something
  stranded        \* history: connections that came while the listening socket was ready,
                  \* and events of it on which accept failed

kernelVars == <<backlog, phase, sent, hup, full, stalls, ready, stranded>>
loopVars == <<fds, read, batch, pc, current, todo, sends, subs, handled, cut, left>>
serverVars == <<kernelVars, loopVars, signal, interrupted>>

\* The masked bytes are not modelled, only their number.
IsFrame(f) ==
  /\ f.bits \in {7, 16, 64} /\ f.mask \in BOOLEAN /\ f.len \in Nat
  /\ f.opcode = "text" /\ f.message = "EVENT" => f.reply \in Nat

ASSUME ServerConstants ==
  /\ IsFiniteSet(Conns) /\ Conns = 1 .. Cardinality(Conns)
  /\ {Capacity, Backlog} \subseteq Nat \ {0, 1}
  /\ Answer \in 0 .. 125 /\ MaxStalls \in Nat
  /\ \A c \in Conns :
       /\ ToSet(Script[c].pieces) \subseteq Nat
       /\ Len(Script[c].request.headers) \in Nat
       /\ Len(Script[c].frames) \in Nat /\ DOMAIN Script[c].frames = 1 .. Len(Script[c].frames)
       /\ \A i \in DOMAIN Script[c].frames : IsFrame(Script[c].frames[i])

Listening == 0
Fds == Conns
NoFd == 0
Running == pc \notin {"stopped", "killed"}

ServerInit ==
  /\ backlog = <<>> /\ ready = <<>> /\ batch = <<>> /\ todo = <<>> /\ sends = <<>> /\ subs = <<>>
  /\ fds = [fd \in Fds |-> 0] /\ phase = [c \in Conns |-> "idle"]
  /\ sent = [c \in Conns |-> 0] /\ read = [c \in Conns |-> 0]
  /\ hup = {} /\ full = {} /\ stalls = 0 /\ stranded = 0 /\ cut = {} /\ left = {}
  /\ handled = [c \in Conns |-> <<>>]
  /\ pc = "batch" /\ current = NoFd /\ signal = FALSE /\ interrupted = FALSE

-----------------------------------------------------------------------------
(* Clients, the kernel, and the signal handler.                            *)
MakeReady(x) == IF x \in ToSet(ready) THEN ready ELSE Append(ready, x)

\* Only a registered connection is watched.
Watched(c) == phase[c] = "open" /\ ~(pc = "accepted" /\ fds[current] = c)
Notify(c) == ready' = IF Watched(c) THEN MakeReady(c) ELSE ready

Connect(c) ==
  /\ phase[c] = "idle" /\ Running /\ Len(backlog) < Backlog
  /\ phase' = [phase EXCEPT ![c] = "queued"]
  /\ backlog' = Append(backlog, c)
  /\ stranded' = IF Listening \in ToSet(ready) THEN stranded + 1 ELSE stranded
  /\ ready' = MakeReady(Listening)
  /\ UNCHANGED <<loopVars, sent, hup, full, stalls, signal, interrupted>>

Write(c) ==
  /\ phase[c] \in {"queued", "open"} /\ c \notin hup /\ Running
  /\ \E n \in ToSet(Script[c].pieces) :
       /\ n > sent[c] /\ \A m \in ToSet(Script[c].pieces) : m > sent[c] => m >= n
       /\ sent' = [sent EXCEPT ![c] = n]
  /\ Notify(c)
  /\ UNCHANGED <<loopVars, backlog, phase, hup, full, stalls, stranded, signal, interrupted>>

HangUp(c) ==
  /\ phase[c] \in {"queued", "open"} /\ c \notin hup /\ Running
  /\ hup' = hup \cup {c}
  /\ Notify(c)
  /\ UNCHANGED <<loopVars, backlog, phase, sent, full, stalls, stranded, signal, interrupted>>

Stall(c) ==
  /\ phase[c] = "open" /\ c \notin full /\ stalls < MaxStalls /\ Running
  /\ full' = full \cup {c} /\ stalls' = stalls + 1
  /\ UNCHANGED <<loopVars, backlog, phase, sent, hup, ready, stranded, signal, interrupted>>

Drain(c) ==
  /\ c \in full
  /\ full' = full \ {c}
  /\ UNCHANGED <<loopVars, backlog, phase, sent, hup, stalls, ready, stranded, signal, interrupted>>

\* A send to a client that does not read waits.
Waiting ==
  /\ pc = "sending" /\ sends # <<>>
  /\ Head(sends).conn \in full \ hup /\ to_websocket_packet(Head(sends).len, Capacity) # 0

signal_handler ==
  /\ ~signal /\ Running
  /\ signal' = TRUE /\ interrupted' = Waiting
  /\ UNCHANGED <<kernelVars, loopVars>>

-----------------------------------------------------------------------------
(* Closing a connection: the kernel drops it from the ready list, and its  *)
(* descriptor is free.                                                     *)
CloseSocket(fd) ==
  /\ fds' = [fds EXCEPT ![fd] = 0]
  /\ phase' = [phase EXCEPT ![fds[fd]] = "gone"]
  /\ full' = full \ {fds[fd]}
  /\ ready' = Only(ready, ToSet(ready) \ {fds[fd]})
  /\ current' = NoFd /\ todo' = <<>> /\ sends' = <<>>

\* Mutation: subscriptions outlive the connection.
websocket_disconnect_callback_Keeps(fd) == subs' = subs

\* The subscriptions of everyone but fd.
Others(fd) == Only(subs, {s \in ToSet(subs) : s.fd # fd})

websocket_disconnect_callback(fd) == subs' = Others(fd)

\* Mutation: the other events of the batch are forgotten.
NextEvent_Forgets == batch' = <<>>

NextEvent == batch' = Tail(batch)

\* What the loop does when a handler asks to close, or to stop.
Disconnected(fd, next) ==
  /\ CloseSocket(fd)
  /\ websocket_disconnect_callback(fd)
  /\ NextEvent
  /\ pc' = next
  /\ interrupted' = FALSE
  /\ UNCHANGED <<backlog, sent, hup, stalls, stranded, read, handled, cut, left, signal>>

-----------------------------------------------------------------------------
(* websocket_epoll_wait.                                                   *)
Unread(c) == sent[c] - read[c]
Reports(x) == IF x = Listening THEN backlog # <<>> ELSE Unread(x) > 0 \/ x \in hup
FdOf(c) == CHOOSE fd \in Fds : fds[fd] = c
EventOf(x) ==
  IF x = Listening THEN [fd |-> NoFd, conn |-> 0, hup |-> FALSE]
  ELSE [fd |-> FdOf(x), conn |-> x, hup |-> x \in hup]

Finalize ==
  /\ pc = "batch" /\ batch = <<>> /\ signal
  /\ pc' = "stopped"
  /\ UNCHANGED <<kernelVars, fds, read, batch, current, todo, sends, subs, handled, cut, left,
                 signal, interrupted>>

websocket_epoll_wait ==
  /\ pc = "batch" /\ batch = <<>> /\ ~signal /\ ready # <<>>
  /\ LET some == Only(ready, {x \in ToSet(ready) : Reports(x)})
     IN  batch' = [i \in DOMAIN some |-> EventOf(some[i])]
  /\ ready' = <<>>
  /\ UNCHANGED <<backlog, phase, sent, hup, full, stalls, stranded, fds, read, pc, current, todo,
                 sends, subs, handled, cut, left, signal, interrupted>>

-----------------------------------------------------------------------------
(* accept_handle, one connection per event.                                *)
AcceptEvent == pc = "batch" /\ batch # <<>> /\ Head(batch).fd = NoFd

websocket_accept ==
  /\ AcceptEvent /\ ~signal
  /\ LET c == Head(backlog)
         fd == Min({f \in Fds : fds[f] = 0})
     IN  /\ backlog' = Tail(backlog)
         /\ phase' = [phase EXCEPT ![c] = "open"]
         /\ fds' = [fds EXCEPT ![fd] = c]
         /\ current' = fd
  /\ pc' = "accepted"
  /\ UNCHANGED <<sent, hup, full, stalls, ready, stranded, read, batch, todo, sends, subs, handled,
                 cut, left, signal, interrupted>>

\* The event is used up, and the loop goes on.  accept may fail, with no
\* descriptor left for example: the connection stays in the backlog.  Or the
\* connection is lost with its options: it is closed before it is watched.
\* The connect callback, which may be called with an error code for a
\* descriptor, only logs.
AcceptFails ==
  /\ AcceptEvent /\ ~signal
  /\ NextEvent
  /\ \/ stranded' = stranded + 1 /\ UNCHANGED <<backlog, phase>>
     \/ /\ backlog' = Tail(backlog) /\ phase' = [phase EXCEPT ![Head(backlog)] = "gone"]
        /\ UNCHANGED stranded
  /\ UNCHANGED <<sent, hup, full, stalls, ready, fds, read, pc, current, todo, sends, subs, handled,
                 cut, left, signal, interrupted>>

\* With a signal nothing is accepted, and the loop goes on to the next event.
AcceptRefused ==
  /\ AcceptEvent /\ signal
  /\ NextEvent
  /\ UNCHANGED <<kernelVars, fds, read, pc, current, todo, sends, subs, handled, cut, left, signal,
                 interrupted>>

\* The connection is closed again; there was no callback for it.
Rejected ==
  /\ CloseSocket(current)
  /\ NextEvent
  /\ pc' = "batch"
  /\ UNCHANGED <<backlog, sent, hup, stalls, stranded, subs, handled, left, signal, interrupted>>

\* It fails with a signal, or in the kernel.
websocket_epoll_add ==
  /\ pc = "accepted"
  /\ \/ /\ Rejected /\ UNCHANGED <<read, cut>>
     \/ /\ ~signal
        /\ pc' = "handshake"
        /\ ready' = IF Reports(fds[current]) THEN Append(ready, fds[current]) ELSE ready
        /\ UNCHANGED <<backlog, phase, sent, hup, full, stalls, stranded, fds, read, batch, current,
                       todo, sends, subs, handled, cut, left, signal, interrupted>>

\* Mutation: the busy wait does not look for a signal.
HandshakeFails_Deaf ==
  LET c == fds[current] IN
  /\ pc = "handshake" /\ ~signal /\ Unread(c) = 0 /\ c \in hup
  /\ Rejected /\ UNCHANGED <<read, cut>>

\* The request is read in a busy wait, which ends with a signal, the end of
\* the connection or the first bytes; what the read holds after the request
\* is dropped.
HandshakeFails ==
  LET c == fds[current] IN
  /\ pc = "handshake" /\ (signal \/ (Unread(c) = 0 /\ c \in hup))
  /\ Rejected /\ UNCHANGED <<read, cut>>

OneRead(c) == Min({Unread(c), Capacity - 1})

HandshakeOutcome(c) ==
  LET headers == extract_http_request(Script[c].request, OneRead(c))
  IN  IF headers = NotHttp THEN "error" ELSE client_handshake(Script[c].request, headers)

\* An answer that cannot be sent ends the connection as well.
HandshakeRead ==
  LET c == fds[current] IN
  /\ pc = "handshake" /\ ~signal /\ Unread(c) > 0
  /\ read' = [read EXCEPT ![c] = OneRead(c)]
  /\ cut' = IF OneRead(c) # RequestSize(Script[c].request) THEN cut \cup {c} ELSE cut
  /\ \/ /\ HandshakeOutcome(c) = "websocket"
        /\ NextEvent /\ pc' = "batch" /\ current' = NoFd
        /\ left' = IF OneRead(c) < Unread(c) THEN left \cup {c} ELSE left
        /\ UNCHANGED <<kernelVars, fds, todo, sends, subs, handled, signal, interrupted>>
     \/ (HandshakeOutcome(c) # "websocket" \/ c \in hup) /\ Rejected

-----------------------------------------------------------------------------
(* epoll_receive and receive_handle.                                       *)
ReceiveEvent == pc = "batch" /\ batch # <<>> /\ Head(batch).fd # NoFd

\* A client that has hung up is closed whatever it sent before.
HungUp == ReceiveEvent /\ Head(batch).hup /\ Disconnected(Head(batch).fd, "batch")

ReceiveSignal == ReceiveEvent /\ ~Head(batch).hup /\ signal /\ Disconnected(Head(batch).fd, "stopped")

\* Frame i of c lies from FrameStart(c, i) to before FrameStart(c, i + 1).
FrameStarts(c) ==
  LET start[i \in 1 .. (Len(Script[c].frames) + 1)] ==
        IF i = 1 THEN RequestSize(Script[c].request)
        ELSE start[i - 1] + FrameSize(Script[c].frames[i - 1])
  IN  start
FrameStart(c, i) == FrameStarts(c)[i]
Boundaries(c) == {FrameStart(c, i) : i \in 1 .. (Len(Script[c].frames) + 1)}

\* Mutation: only the first frame of a read is handled.
WholeFrames_First(c, a, b) ==
  LET whole == {i \in DOMAIN Script[c].frames :
                  /\ FrameStart(c, i) >= a
                  /\ to_websocket_entity_consumed(b - FrameStart(c, i), Script[c].frames[i]) # 0}
  IN  IF whole = {} THEN <<>> ELSE <<Min(whole)>>

\* The frames from byte a on that end before byte b.
WholeFrames(c, a, b) ==
  Only([i \in DOMAIN Script[c].frames |-> i],
       {i \in DOMAIN Script[c].frames :
          /\ FrameStart(c, i) >= a
          /\ to_websocket_entity_consumed(b - FrameStart(c, i), Script[c].frames[i]) # 0})

\* A read that starts within a frame is taken for frames all the same:
\* nothing may come of it, or the end of the connection, or the frames after
\* that one, whatever the bytes are.
websocket_recv ==
  LET fd == Head(batch).fd
      c == fds[fd]
      n == OneRead(c)
      end == read[c] + n
      whole == WholeFrames(c, read[c], end)
  IN
  /\ ReceiveEvent /\ ~Head(batch).hup /\ ~signal
  /\ \E frames \in IF read[c] \in Boundaries(c) THEN {whole} ELSE {whole, <<>>} :
       todo' = frames
  /\ read' = [read EXCEPT ![c] = end]
  /\ cut' = IF end \notin Boundaries(c) THEN cut \cup {c} ELSE cut
  /\ left' = IF n < Unread(c) THEN left \cup {c} ELSE left
  /\ pc' = "frames" /\ current' = fd
  /\ UNCHANGED <<kernelVars, fds, batch, sends, subs, handled, signal, interrupted>>

Garbage ==
  LET c == fds[Head(batch).fd] IN
  /\ ReceiveEvent /\ ~Head(batch).hup /\ ~signal /\ read[c] \notin Boundaries(c)
  /\ Disconnected(Head(batch).fd, "batch")

ReadDone ==
  /\ pc = "frames" /\ todo = <<>>
  /\ NextEvent /\ pc' = "batch" /\ current' = NoFd
  /\ UNCHANGED <<kernelVars, fds, read, todo, sends, subs, handled, cut, left, signal, interrupted>>

Message(fd, len, pong) == [fd |-> fd, conn |-> fds[fd], len |-> len, pong |-> pong]

\* What the handler of a frame sends, in this order.
Replies(f) ==
  CASE f.opcode = "ping" -> <<Message(current, f.len, TRUE)>>
    [] f.opcode = "text" /\ f.message = "EVENT" ->
         <<Message(current, Answer, FALSE)>>
           \o [i \in DOMAIN Others(current) |-> Message(Others(current)[i].fd, f.reply, FALSE)]
    [] f.opcode = "text" /\ f.message # "EVENT" -> <<Message(current, Answer, FALSE)>>
    [] OTHER -> <<>>

opcode_handle ==
  LET c == fds[current]
      f == Script[c].frames[Head(todo)]
  IN
  /\ pc = "frames" /\ todo # <<>>
  /\ f.opcode \in {"text", "binary", "ping", "pong"}
  /\ handled' = [handled EXCEPT ![c] = Append(@, Head(todo))]
  /\ todo' = Tail(todo)
  /\ subs' = IF f.opcode = "text" /\ f.message = "REQ" /\ [fd |-> current, conn |-> c] \notin ToSet(subs)
             THEN Append(subs, [fd |-> current, conn |-> c]) ELSE subs
  /\ sends' = Replies(f)
  /\ pc' = "sending"
  /\ UNCHANGED <<kernelVars, fds, read, batch, current, cut, left, signal, interrupted>>

\* A CLOSE frame, or an opcode it does not know.
CloseFrame ==
  /\ pc = "frames" /\ todo # <<>>
  /\ Script[fds[current]].frames[Head(todo)].opcode \notin {"text", "binary", "ping", "pong"}
  /\ Disconnected(current, "batch")

\* After each frame.
FrameDone ==
  /\ pc = "sending" /\ sends = <<>>
  /\ IF signal THEN Disconnected(current, "stopped")
     ELSE /\ pc' = "frames"
          /\ UNCHANGED <<kernelVars, fds, read, batch, current, todo, sends, subs, handled, cut, left,
                         signal, interrupted>>

-----------------------------------------------------------------------------
(* websocket_send.  Only for a pong is the result looked at.               *)
SendNext ==
  /\ sends' = Tail(sends) /\ interrupted' = FALSE
  /\ UNCHANGED <<kernelVars, fds, read, batch, pc, current, todo, subs, handled, cut, left, signal>>

\* What does not fit into a frame is not sent, and nobody is told.  A pong
\* fits: its ping came in a frame with a longer header.
Sent ==
  /\ pc = "sending" /\ sends # <<>> /\ ~Waiting
  /\ SendNext

\* Mutation: a peer that cannot be reached is closed by whoever sends to it.
SendFails_Closes ==
  /\ pc = "sending" /\ sends # <<>>
  /\ Head(sends).conn \in hup \/ interrupted
  /\ IF Head(sends).pong THEN Disconnected(current, "batch")
     ELSE /\ sends' = Tail(sends) /\ interrupted' = FALSE
          /\ fds' = [fds EXCEPT ![Head(sends).fd] = 0]
          /\ UNCHANGED <<kernelVars, read, batch, pc, current, todo, subs, handled, cut, left, signal>>

\* The peer has hung up, or the signal ended the wait.
SendFails ==
  /\ pc = "sending" /\ sends # <<>>
  /\ Head(sends).conn \in hup \/ interrupted
  /\ IF Head(sends).pong THEN Disconnected(current, "batch") ELSE SendNext

\* Sending to a peer that has hung up raises SIGPIPE, which nobody handles.
BrokenPipe ==
  /\ \/ pc = "sending" /\ sends # <<>> /\ Head(sends).conn \in hup
     \/ /\ pc = "handshake" /\ ~signal
        /\ LET c == fds[current] IN
             c \in hup /\ Unread(c) > 0 /\ HandshakeOutcome(c) # "error"
  /\ pc' = "killed"
  /\ UNCHANGED <<kernelVars, fds, read, batch, current, todo, sends, subs, handled, cut, left, signal,
                 interrupted>>

-----------------------------------------------------------------------------
ServerStep ==
  \/ Finalize \/ websocket_epoll_wait
  \/ websocket_accept \/ AcceptFails \/ AcceptRefused \/ websocket_epoll_add
  \/ HandshakeFails \/ HandshakeRead
  \/ HungUp \/ ReceiveSignal \/ websocket_recv \/ Garbage \/ ReadDone
  \/ opcode_handle \/ CloseFrame \/ FrameDone \/ Sent \/ SendFails \/ BrokenPipe

ClientStep == \E c \in Conns : Connect(c) \/ Write(c) \/ HangUp(c) \/ Stall(c) \/ Drain(c)

ServerNext == ServerStep \/ ClientStep \/ signal_handler

ServerSpec == ServerInit /\ [][ServerNext]_serverVars /\ WF_serverVars(ServerStep)

-----------------------------------------------------------------------------
ServerTypeOK ==
  /\ ToSet(backlog) = {c \in Conns : phase[c] = "queued"}
  /\ \A c \in Conns : /\ phase[c] \in {"idle", "queued", "open", "gone"}
                      /\ (phase[c] = "open") = (\E fd \in Fds : fds[fd] = c)
                      /\ read[c] \in 0 .. sent[c]
  /\ pc \in {"batch", "accepted", "handshake", "frames", "sending", "stopped", "killed"}
  /\ current \in Fds \cup {NoFd} /\ (pc \in {"accepted", "handshake", "frames"} => current # NoFd)
  /\ ToSet(ready) \subseteq {Listening} \cup Conns /\ hup \cup full \cup cut \cup left \subseteq Conns
  /\ {signal, interrupted} \subseteq BOOLEAN

\* The frames of a client reach the handlers in their order and none twice,
\* whatever the reads were; as long as every read ended with a frame, none is
\* passed over.
InOrder ==
  \A c \in Conns :
    /\ \A i \in 2 .. Len(handled[c]) : handled[c][i - 1] < handled[c][i]
    /\ phase[c] = "open" /\ c \notin cut =>
         \A i \in DOMAIN Script[c].frames :
           FrameStart(c, i + 1) <= read[c] =>
             i \in ToSet(handled[c]) \cup (IF current # NoFd /\ fds[current] = c
                                           THEN ToSet(todo) ELSE {})

\* A descriptor is never used for a connection that has gone: the
\* subscriptions, the rest of the batch and the messages still to be sent
\* name the connection that has the descriptor now, though descriptors are
\* given out again at once.
DescriptorsCurrent ==
  \A x \in ToSet(subs) \cup ToSet(sends) \cup {e \in ToSet(batch) : e.fd # NoFd} :
    fds[x.fd] = x.conn

\* The connections that wait for accept are one for the event that is under
\* way, one for each that came while an event was pending, and one for each
\* event on which accept failed: those are not accepted before others come.
AcceptDebt ==
  ~signal /\ Running =>
    Len(backlog) = stranded + Cardinality({Listening} \cap ToSet(ready))
                     + Cardinality({i \in DOMAIN batch : batch[i].fd = NoFd
                                      /\ ~(i = 1 /\ pc \in {"accepted", "handshake"})})

AllRead == <>[](full = {})

\* A signal ends the loop, wherever it is and whatever clients do, if no
\* client stops reading for good: a send that waits is interrupted, but the
\* next one waits again.
SignalStops == AllRead => (signal ~> ~Running)

\* As long as each connection sends its request or ends, every other one is
\* served: it is accepted, unless connections came together or accept failed;
\* and what a client writes is read, unless it came faster than it was read.
Served ==
  AllRead /\ []<>(pc # "handshake") =>
    \A c \in Conns :
      /\ (phase[c] = "queued" /\ stranded = 0) ~> (phase[c] # "queued" \/ stranded > 0 \/ ~Running)
      /\ (phase[c] = "open" /\ Unread(c) > 0) ~>
           (phase[c] # "open" \/ Unread(c) = 0 \/ c \in left \/ ~Running)
=============================================================================
