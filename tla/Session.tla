------------------------------- MODULE Session -------------------------------
(***************************************************************************)
(* The daemon and the server (src/daemon/daemon.c, src/server/server.c)    *)
(* over the sockets of src/modules/net_socket.c, and one TCP connection    *)
(* between them.                                                           *)
(*                                                                         *)
(* Each party runs its script of calls once.  A message is the sequence of *)
(* its bytes; TCP delivers the bytes of one direction in order, in pieces  *)
(* of any size.  The error codes are kept as far as the code tells them    *)
(* apart: FAIL is every code but OK, INTER and NS_CONNECTION_CLOSE.        *)
(***************************************************************************)
EXTENDS Integers, Sequences

CONSTANTS
  Size,        \* sizeof(struct test_data)
  MaxInter,    \* bound on the calls a signal interrupts
  MayFail,     \* the calls whose system call may fail
  Killable,    \* the parties that may be killed
  ErrAtStart   \* what main's uninitialized err may hold

Party == {"daemon", "server"}

\* run of either program, call by call.
Script ==
  [daemon |-> <<"create", "open", "resolve", "connect", "send", "recv",
                "shutdown", "drain", "close">>,
   server |-> <<"create", "open", "set_ip", "bind", "listen", "accept", "recv",
                "send", "shutdown", "drain", "close">>]

CallsOf(p) == {Script[p][i] : i \in 1..Len(Script[p])}

ASSUME SessionAssumption ==
  /\ Size \in Nat \ {0} /\ MaxInter \in Nat
  /\ MayFail \subseteq (CallsOf("daemon") \cup CallsOf("server"))
                         \ {"set_ip", "close"}
  /\ Killable \subseteq Party
  /\ ErrAtStart \subseteq {"OK", "FAIL"} /\ "OK" \in ErrAtStart

VARIABLES
  pc,       \* pc[p]: the call p is in, or how p ended
  err,      \* err[p]: *err
  sock,     \* sock[p][n]: the socket pointer n of p and its fd
  open,     \* open[p]: the sockets of p whose descriptor the kernel has open
  sent,     \* sent[p]: total_sent
  got,      \* got[p]: the bytes recv has put in recv_data so far
  printed,  \* printed[p]: the messages p has printed
  link,     \* the connection: none, pending (in the backlog) or up
  net,      \* net[p]: the bytes of p under way to the other party
  fin,      \* the parties whose end of stream is under way
  rst,      \* the parties whose connection was reset
  gone,     \* the parties that closed their end of the connection
  inter,    \* the calls interrupted so far
  injured   \* history: a system call failed by itself, or a party was killed

partyVars == <<pc, err, sock, open, sent, got, printed>>
netVars   == <<link, net, fin, rst, gone>>
vars == <<partyVars, netVars, inter, injured>>

-----------------------------------------------------------------------------
(* Data. *)

Peer(p) == IF p = "daemon" THEN "server" ELSE "daemon"

Msg(p) == [i \in 1..Size |-> <<p, i>>]

\* The pointers of run, and the one that carries the connection.  The server
\* never sets client before it accepts.
Pointers(p) == IF p = "daemon" THEN {"client"} ELSE {"client", "server"}

First(p) == IF p = "daemon" THEN "client" ELSE "server"

\* Mutant: run closes its socket right after it shut it down.
AfterNoDrain(p, c) ==
  IF c = "shutdown" THEN "close"
  ELSE Script[p][(CHOOSE i \in 1..Len(Script[p]) : Script[p][i] = c) + 1]

\* The call after c.
After(p, c) ==
  Script[p][(CHOOSE i \in 1..Len(Script[p]) : Script[p][i] = c) + 1]

\* Mutant: every turn sends from the start of the buffer.
SendFromStart(p, n) == SubSeq(Msg(p), 1, n)

\* The bytes jfs_send hands over: n bytes from total_sent on.
SendFrom(p, n) == SubSeq(Msg(p), sent[p] + 1, sent[p] + n)

\* Mutant: a short read counts as a message.
RecvAny(buf) == Len(buf) > 0

\* The loop of jfs_ns_socket_recv ends.
RecvFull(buf) == Len(buf) >= Size

Ended == {"done", "killed", "crashed"}

Running(p) == pc[p] \notin Ended

Init ==
  /\ pc = [p \in Party |-> "create"]
  /\ err \in [Party -> ErrAtStart]
  /\ sock = [p \in Party |-> [n \in Pointers(p) |-> "uninit"]]
  /\ open = [p \in Party |-> {}]
  /\ sent = [p \in Party |-> 0]
  /\ got = [p \in Party |-> <<>>] /\ printed = [p \in Party |-> <<>>]
  /\ link = "none" /\ net = [p \in Party |-> <<>>]
  /\ fin = {} /\ rst = {} /\ gone = {} /\ inter = 0
  /\ injured = FALSE

-----------------------------------------------------------------------------
(* The connection. *)

\* p's end is closed.  Bytes that p has not read, and a connection that was
\* never accepted, make it a reset; otherwise the stream of p ends.
HangUp(p) ==
  /\ LET q == Peer(p)
         reset == net[q] # <<>> \/ (p = "server" /\ link = "pending")
     IN  IF link = "none" \/ p \in gone
         THEN UNCHANGED <<fin, rst, gone, net>>
         ELSE /\ gone' = gone \cup {p}
              /\ net' = [net EXCEPT ![q] = <<>>]
              /\ rst' = IF reset THEN rst \cup {q} ELSE rst
              /\ fin' = IF reset THEN fin ELSE fin \cup {p}
  /\ link' = link

Listening ==
  "server" \in open["server"] /\ sock["server"]["server"] = "listen"

-----------------------------------------------------------------------------
(* The calls of run. *)

Goes(p, c) == pc' = [pc EXCEPT ![p] = c]

\* The call returns and the script goes on.
Returns(p) == Goes(p, After(p, pc[p]))

Create(p) ==
  /\ pc[p] = "create"
  /\ \/ /\ err[p] = "OK"
        /\ sock' = [sock EXCEPT ![p][First(p)] = "nofd"]
        /\ Returns(p)
        /\ err' = err
     \/ /\ err[p] # "OK" \/ "create" \in MayFail
        /\ sock' = [sock EXCEPT ![p][First(p)] = "null"]
        /\ Goes(p, "cleanup")
        /\ err' = [err EXCEPT ![p] = "FAIL"]
  /\ UNCHANGED <<open, sent, got, printed, netVars, inter, injured>>

Open(p) ==
  /\ pc[p] = "open"
  /\ sock' = [sock EXCEPT ![p][First(p)] = "fd"]
  /\ open' = [open EXCEPT ![p] = @ \cup {First(p)}]
  /\ Returns(p)
  /\ UNCHANGED <<err, sent, got, printed, netVars, inter, injured>>

\* The calls that only prepare an address.
Prepare(p) ==
  /\ pc[p] \in {"resolve", "set_ip", "bind"}
  /\ Returns(p)
  /\ UNCHANGED <<err, sock, open, sent, got, printed, netVars, inter, injured>>

Listen ==
  /\ pc["server"] = "listen"
  /\ sock' = [sock EXCEPT !["server"]["server"] = "listen"]
  /\ Returns("server")
  /\ UNCHANGED <<err, open, sent, got, printed, netVars, inter, injured>>

Connect ==
  /\ pc["daemon"] = "connect" /\ Listening
  /\ link' = "pending"
  /\ Returns("daemon")
  /\ UNCHANGED <<err, sock, open, sent, got, printed, net, fin, rst, gone,
                 inter, injured>>

Accept ==
  /\ pc["server"] = "accept" /\ link = "pending"
  /\ link' = "up"
  /\ sock' = [sock EXCEPT !["server"]["client"] = "fd"]
  /\ open' = [open EXCEPT !["server"] = @ \cup {"client"}]
  /\ Returns("server")
  /\ UNCHANGED <<err, sent, got, printed, net, fin, rst, gone, inter, injured>>

\* One turn of jfs_ns_socket_send.  Bytes for a party that is gone come back
\* as a reset.
Send(p) ==
  /\ pc[p] = "send"
  /\ \E n \in 1..(Size - sent[p]) :
       /\ IF Peer(p) \in gone
          THEN rst' = rst \cup {p} /\ net' = net
          ELSE rst' = rst /\ net' = [net EXCEPT ![p] = @ \o SendFrom(p, n)]
       /\ sent' = [sent EXCEPT ![p] = @ + n]
       /\ IF sent[p] + n < Size THEN pc' = pc ELSE Returns(p)
  /\ UNCHANGED <<err, sock, open, got, printed, link, fin, gone, inter, injured>>

\* One turn of jfs_ns_socket_recv that receives bytes.  A full message is
\* printed.
Recv(p) ==
  /\ pc[p] \in {"recv", "drain"}
  /\ LET q == Peer(p) IN
       \E n \in 1..(Size - Len(got[p])) :
         /\ n <= Len(net[q])
         /\ net' = [net EXCEPT ![q] = SubSeq(@, n + 1, Len(@))]
         /\ LET buf == got[p] \o SubSeq(net[q], 1, n) IN
              IF RecvFull(buf)
              THEN /\ printed' = [printed EXCEPT ![p] = Append(@, buf)]
                   /\ got' = [got EXCEPT ![p] = <<>>]
                   /\ IF pc[p] = "recv" THEN Returns(p) ELSE pc' = pc
              ELSE /\ got' = [got EXCEPT ![p] = buf]
                   /\ UNCHANGED <<printed, pc>>
  /\ UNCHANGED <<err, sock, open, sent, link, fin, rst, gone, inter, injured>>

\* Mutant: the end of the stream does not end the loop.
RecvEofLoops(p) ==
  /\ pc[p] \in {"recv", "drain"}
  /\ Peer(p) \in fin /\ net[Peer(p)] = <<>>
  /\ UNCHANGED vars

\* jfs_recv returns 0: NS_CONNECTION_CLOSE ends the last loop of run, and is
\* an error before it.
RecvEof(p) ==
  /\ pc[p] \in {"recv", "drain"}
  /\ Peer(p) \in fin /\ net[Peer(p)] = <<>>
  /\ IF pc[p] = "drain"
     THEN Returns(p) /\ err' = err
     ELSE Goes(p, "cleanup") /\ err' = [err EXCEPT ![p] = "CLOSE"]
  /\ UNCHANGED <<sock, open, sent, got, printed, netVars, inter, injured>>

Shutdown(p) ==
  /\ pc[p] = "shutdown"
  /\ fin' = fin \cup {p}
  /\ Returns(p)
  /\ UNCHANGED <<err, sock, open, sent, got, printed, link, net, rst, gone,
                 inter, injured>>

\* A signal interrupts a system call: RES_ERR, and the call is made again.
Interrupted(p) ==
  /\ pc[p] \in {"connect", "accept", "send", "recv", "drain"}
  /\ inter < MaxInter
  /\ inter' = inter + 1
  /\ UNCHANGED <<partyVars, netVars, injured>>

\* The call p is in fails for good.  jfs_ns_socket_accept then returns NULL.
Fails(p) ==
  /\ err' = [err EXCEPT ![p] = "FAIL"]
  /\ sock' = IF pc[p] = "accept"
             THEN [sock EXCEPT ![p]["client"] = "null"] ELSE sock
  /\ Goes(p, "cleanup")
  /\ UNCHANGED <<open, sent, got, printed, netVars, inter>>

\* The connection is refused, or was reset.
LinkError(p) ==
  /\ \/ pc[p] = "connect" /\ ~Listening
     \/ pc[p] \in {"send", "recv", "shutdown", "drain"} /\ p \in rst
  /\ Fails(p)
  /\ UNCHANGED injured

\* A system call fails for a reason of its own.
CallError(p) ==
  pc[p] \in MayFail \ {"create"} /\ Fails(p) /\ injured' = TRUE

\* Mutant: the server forgets the socket it accepted.
DestroyedFirst(p) == {First(p)}

\* The pointers run hands to jfs_ns_socket_destroy before it returns.
Destroyed(p) == Pointers(p)

\* jfs_ns_socket_destroy closes the descriptor and clears the pointer.
DestroySockets(p) ==
  /\ open' = [open EXCEPT ![p] = @ \ Destroyed(p)]
  /\ sock' = [sock EXCEPT ![p] =
               [n \in Pointers(p) |-> IF n \in Destroyed(p) THEN "null"
                                      ELSE sock[p][n]]]
  /\ HangUp(p)

\* The end of run after the last loop; an error of close is dropped.
Finish(p) ==
  /\ pc[p] = "close"
  /\ DestroySockets(p)
  /\ Goes(p, "done")
  /\ UNCHANGED <<err, sent, got, printed, inter, injured>>

Cleanup(p) ==
  /\ pc[p] = "cleanup"
  /\ DestroySockets(p)
  /\ Goes(p, "done")
  /\ UNCHANGED <<err, sent, got, printed, inter, injured>>

\* The kernel closes what a process that died had open.
Dies(p, how) ==
  /\ open' = [open EXCEPT ![p] = {}]
  /\ HangUp(p)
  /\ Goes(p, how)
  /\ UNCHANGED <<err, sock, sent, got, printed, inter>>

\* The label cleanup of the server destroys client, which holds what was on
\* the stack when run fails before it accepts: NULL (Cleanup) or anything.
CleanupWild ==
  /\ pc["server"] = "cleanup" /\ sock["server"]["client"] = "uninit"
  /\ Dies("server", "crashed")
  /\ UNCHANGED injured

Kill(p) ==
  p \in Killable /\ Running(p) /\ Dies(p, "killed") /\ injured' = TRUE

\* Nothing is left to do: both parties ended, or the server waits for a
\* daemon that will not come.
Settled ==
  /\ ~Running("daemon")
  /\ ~Running("server") \/ (pc["server"] = "accept" /\ link = "none")
  /\ UNCHANGED vars

PartyStep(p) ==
  \/ Create(p) \/ Open(p) \/ Prepare(p)
  \/ Send(p) \/ Recv(p) \/ RecvEof(p) \/ Shutdown(p)
  \/ LinkError(p) \/ Finish(p) \/ Cleanup(p)

Daemon == PartyStep("daemon") \/ Connect

Server == PartyStep("server") \/ Listen \/ Accept \/ CleanupWild

Next ==
  \/ Daemon \/ Server
  \/ \E p \in Party : Interrupted(p) \/ CallError(p) \/ Kill(p)
  \/ Settled

Spec == Init /\ [][Next]_vars

\* Either process is scheduled, and TCP delivers what was sent.  No call has to
\* be interrupted or to fail, and nobody has to be killed.
FairSpec == Spec /\ WF_vars(Daemon) /\ WF_vars(Server)

-----------------------------------------------------------------------------
(* Properties. *)

\* A party prints the message of the other one, whole and unmixed, at most
\* once: whatever pieces jfs_send and jfs_recv make of it, and whichever of
\* the two fails or dies in between.
MessagesIntact ==
  \A p \in Party : printed[p] \in {<<>>, <<Msg(Peer(p))>>}

Failed(p) ==
  \/ pc[p] \in {"cleanup", "killed", "crashed"}
  \/ pc[p] = "done" /\ err[p] # "OK"

\* A party that reports a safe shutdown has had its message read by the other
\* party, unless that one failed: the last loop of run waits for the end of
\* the other's stream, which ends after it has read.
SafeShutdownDelivers ==
  \A p \in Party :
    \/ pc[p] = "close"
    \/ pc[p] = "done" /\ err[p] = "OK"
    => printed[Peer(p)] # <<>> \/ Failed(Peer(p))

\* As long as a party runs, the descriptors the kernel has open are the ones
\* in its sockets; when run has returned, every socket is destroyed, on every
\* path through run, jfs_ns_socket_accept and the label cleanup.
SocketsExact ==
  \A p \in Party :
    /\ Running(p) =>
         open[p] = {n \in Pointers(p) : sock[p][n] \in {"fd", "listen"}}
    /\ pc[p] = "done" =>
         open[p] = {} /\ \A n \in Pointers(p) : sock[p][n] = "null"

\* Once the daemon has connected, both parties end, whatever call fails and
\* whoever is killed: neither waits for ever for the other's bytes.
ConnectionEnds == link # "none" ~> \A p \in Party : ~Running(p)

\* A session that connects ends with both messages printed and both parties
\* reporting a safe shutdown, unless a call failed by itself or a party was
\* killed: neither interrupted calls, nor short reads and writes, nor the order
\* in which the two shut down and close can spoil it (run of both programs,
\* jfs_ns_socket_send, jfs_ns_socket_recv).
SessionCompletes ==
  link # "none" ~>
    injured \/ \A p \in Party : /\ pc[p] = "done" /\ err[p] = "OK"
                               /\ printed[p] = <<Msg(Peer(p))>>

=============================================================================
