---------------------------- MODULE SessionProofs ----------------------------
(***************************************************************************)
(* Session for messages of every size, any number of interrupted calls,    *)
(* and whichever calls may fail and parties be killed.                     *)
(***************************************************************************)
EXTENDS Session, TLAPS

\* The provers of a leaf that names none, in this order.
USE SMTT(20), Z3T(20), ZenonT(20)

\* A byte of a message: whose it is, and its place in it.
Byte == Party \X (1..Size)

\* Where p can be.
Places(p) == CallsOf(p) \cup {"cleanup"} \cup Ended

SockState == {"uninit", "null", "nofd", "fd", "listen"}

PlaceTypes ==
  /\ pc \in [Party -> Places("daemon") \cup Places("server")]
  /\ \A p \in Party : pc[p] \in Places(p)

SockTypes ==
  /\ sock \in [Party -> [{"client"} -> SockState]
                          \cup [{"client", "server"} -> SockState]]
  /\ \A p \in Party : sock[p] \in [Pointers(p) -> SockState]

\* Types of the parties and of the connection.
TypeOK ==
  /\ PlaceTypes /\ SockTypes
  /\ err \in [Party -> {"OK", "FAIL", "CLOSE"}]
  /\ open \in [Party -> SUBSET {"client", "server"}]
  /\ \A p \in Party : open[p] \subseteq Pointers(p)
  /\ sent \in [Party -> 0..Size]
  /\ got \in [Party -> Seq(Byte)] /\ net \in [Party -> Seq(Byte)]
  /\ printed \in [Party -> Seq(Seq(Byte))]
  /\ fin \subseteq Party /\ rst \subseteq Party /\ gone \subseteq Party

\* What is in the socket pointers of p at each place of run: a descriptor is
\* never overwritten, and what is destroyed was set.
Sockets(p) ==
  /\ Running(p) =>
       open[p] = {n \in Pointers(p) : sock[p][n] \in {"fd", "listen"}}
  /\ pc[p] = "done" =>
       open[p] = {} /\ \A n \in Pointers(p) : sock[p][n] = "null"
  /\ pc[p] = "create" => sock[p][First(p)] = "uninit"
  /\ pc[p] \in {"set_ip", "bind", "listen"} => sock[p]["server"] = "fd"
  /\ p = "server" /\ pc[p] \in {"create", "open", "set_ip", "bind", "listen", "accept"}
       => sock[p]["client"] = "uninit"

\* The bytes from q to p: until p has printed them, those that it has received
\* and those under way continue one another, up to the last that q has sent
\* unless p is gone.
Stream(q, p) ==
  /\ p \in gone => net[q] = <<>>
  /\ IF printed[p] = <<>>
     THEN /\ \A i \in 1..Len(got[p]) : got[p][i] = <<q, i>>
          /\ \A i \in 1..Len(net[q]) : net[q][i] = <<q, Len(got[p]) + i>>
          /\ Len(got[p]) + Len(net[q]) <= sent[q]
          /\ p \notin gone => Len(got[p]) + Len(net[q]) = sent[q]
     ELSE /\ printed[p] = <<Msg(q)>> /\ sent[q] = Size
          /\ got[p] = <<>> /\ net[q] = <<>>

Streams == \A p \in Party : Stream(Peer(p), p)

\* The calls that run makes once it has received the message.
AfterRecv(p) ==
  {"shutdown", "drain", "close"} \cup (IF p = "server" THEN {"send"} ELSE {})

ReadOrFailed(p) == printed[p] # <<>> \/ Failed(p)

\* Who ends its stream has read the other's message or failed; who reports a
\* safe shutdown has seen the other's stream end.
Told(p) ==
  /\ pc[p] \in AfterRecv(p) => printed[p] # <<>>
  /\ pc[p] = "cleanup" => err[p] # "OK"
  /\ p \in fin => ReadOrFailed(p)
  /\ pc[p] = "close" \/ (pc[p] = "done" /\ err[p] = "OK") => ReadOrFailed(Peer(p))

\* The streams give MessagesIntact, Sockets gives SocketsExact, and Told, which
\* follows the end of a stream from who sent it to who waits for it, gives
\* SafeShutdownDelivers.
IInv ==
  TypeOK /\ Streams /\ \A p \in Party : Sockets(p) /\ Told(p)

-----------------------------------------------------------------------------
(* The scripts.                                                             *)

\* The daemon's run makes each call once.
LEMMA DaemonScript ==
  /\ After("daemon", "create") = "open" /\ After("daemon", "open") = "resolve"
  /\ After("daemon", "resolve") = "connect" /\ After("daemon", "connect") = "send"
  /\ After("daemon", "send") = "recv" /\ After("daemon", "recv") = "shutdown"
  /\ After("daemon", "shutdown") = "drain" /\ After("daemon", "drain") = "close"
  /\ CallsOf("daemon") = {"create", "open", "resolve", "connect", "send", "recv",
                          "shutdown", "drain", "close"}
<1> DEFINE S == Script["daemon"]
<1>1. S = <<"create", "open", "resolve", "connect", "send", "recv",
            "shutdown", "drain", "close">>
  BY DEF Script
<1>2. Len(S) = 9
  BY <1>1
<1>3. ASSUME NEW k \in 1..8 PROVE After("daemon", S[k]) = S[k + 1]
  <2>1. \A i \in 1..9 : S[i] = S[k] => i = k
    BY <1>1
  <2>2. (CHOOSE i \in 1..9 : S[i] = S[k]) = k
    BY <2>1
  <2> QED
    BY <1>2, <2>2, Zenon DEF After
<1>4. /\ S[1] = "create" /\ S[2] = "open" /\ S[3] = "resolve" /\ S[4] = "connect"
      /\ S[5] = "send" /\ S[6] = "recv" /\ S[7] = "shutdown" /\ S[8] = "drain"
      /\ S[9] = "close"
  BY <1>1
<1>5. CallsOf("daemon") = {S[1], S[2], S[3], S[4], S[5], S[6], S[7], S[8], S[9]}
  BY <1>2 DEF CallsOf
<1> HIDE DEF S
<1> QED
  BY <1>3, <1>4, <1>5

\* So does the server's.
LEMMA ServerScript ==
  /\ After("server", "create") = "open" /\ After("server", "open") = "set_ip"
  /\ After("server", "set_ip") = "bind" /\ After("server", "bind") = "listen"
  /\ After("server", "listen") = "accept" /\ After("server", "accept") = "recv"
  /\ After("server", "recv") = "send" /\ After("server", "send") = "shutdown"
  /\ After("server", "shutdown") = "drain" /\ After("server", "drain") = "close"
  /\ CallsOf("server") = {"create", "open", "set_ip", "bind", "listen", "accept",
                          "recv", "send", "shutdown", "drain", "close"}
<1> DEFINE S == Script["server"]
<1>1. S = <<"create", "open", "set_ip", "bind", "listen", "accept", "recv",
            "send", "shutdown", "drain", "close">>
  BY DEF Script
<1>2. Len(S) = 11
  BY <1>1
<1>3. ASSUME NEW k \in 1..10 PROVE After("server", S[k]) = S[k + 1]
  <2>1. \A i \in 1..11 : S[i] = S[k] => i = k
    BY <1>1
  <2>2. (CHOOSE i \in 1..11 : S[i] = S[k]) = k
    BY <2>1
  <2> QED
    BY <1>2, <2>2, Zenon DEF After
<1>4. /\ S[1] = "create" /\ S[2] = "open" /\ S[3] = "set_ip" /\ S[4] = "bind"
      /\ S[5] = "listen" /\ S[6] = "accept" /\ S[7] = "recv" /\ S[8] = "send"
      /\ S[9] = "shutdown" /\ S[10] = "drain" /\ S[11] = "close"
  BY <1>1
<1>5. CallsOf("server") = {S[1], S[2], S[3], S[4], S[5], S[6], S[7], S[8], S[9],
                           S[10], S[11]}
  BY <1>2 DEF CallsOf
<1> HIDE DEF S
<1> QED
  BY <1>3, <1>4, <1>5

\* The next call is a call of the same script.
LEMMA NextCall ==
  ASSUME NEW p \in Party, NEW c \in CallsOf(p) \ {"close"}
  PROVE  After(p, c) \in CallsOf(p)
<1>1. CASE p = "daemon"
  BY <1>1, DaemonScript
<1>2. CASE p = "server"
  BY <1>2, ServerScript
<1> QED
  BY <1>1, <1>2 DEF Party

\* The other party.
LEMMA TwoParties ==
  /\ \A p \in Party : Peer(p) \in Party /\ Peer(p) # p /\ Peer(Peer(p)) = p
  /\ \A p \in Party : \A q \in Party : q = p \/ q = Peer(p)
BY DEF Party, Peer

\* p goes to another place of run; the other party stays where it is.
LEMMA GoesTo ==
  ASSUME TypeOK, NEW p \in Party, NEW c \in Places(p), Goes(p, c)
  PROVE  /\ pc'[p] = c /\ \A r \in Party \ {p} : pc'[r] = pc[r]
         /\ PlaceTypes'
<1>1. Places(p) \subseteq Places("daemon") \cup Places("server")
  BY DEF Party
<1>2. pc' = [pc EXCEPT ![p] = c] /\ pc \in [Party -> Places("daemon") \cup Places("server")]
  BY DEF Goes, TypeOK, PlaceTypes
<1>3. pc'[p] = c /\ \A r \in Party \ {p} : pc'[r] = pc[r]
  BY <1>2
<1>4. pc' \in [Party -> Places("daemon") \cup Places("server")]
  BY <1>1, <1>2
<1>5. \A r \in Party : pc'[r] \in Places(r)
  BY <1>3, Zenon DEF TypeOK, PlaceTypes
<1> QED
  BY <1>3, <1>4, <1>5 DEF PlaceTypes

\* A call other than the last returns.
LEMMA ReturnsTo ==
  ASSUME TypeOK, NEW p \in Party, pc[p] \notin Ended \cup {"cleanup", "close"},
         Returns(p)
  PROVE  /\ pc'[p] = After(p, pc[p]) /\ \A r \in Party \ {p} : pc'[r] = pc[r]
         /\ PlaceTypes'
<1>1. pc[p] \in CallsOf(p) \ {"close"}
  BY DEF TypeOK, PlaceTypes, Places
<1>2. After(p, pc[p]) \in Places(p)
  BY <1>1, NextCall DEF Places
<1>3. Goes(p, After(p, pc[p]))
  BY DEF Returns
<1> QED
  BY <1>2, <1>3, GoesTo

-----------------------------------------------------------------------------
(* Types.                                                                   *)

\* The bytes of p's message.
LEMMA MsgType ==
  ASSUME NEW p \in Party
  PROVE  /\ Msg(p) \in Seq(Byte) /\ Len(Msg(p)) = Size
         /\ \A i \in 1..Size : Msg(p)[i] = <<p, i>>
<1>1. Msg(p) \in [1..Size -> Byte] /\ Size \in Nat
  BY SessionAssumption DEF Msg, Byte
<1> QED
  BY <1>1 DEF Msg

\* What a turn of jfs_ns_socket_send hands over.
LEMMA SendFromType ==
  ASSUME TypeOK, NEW p \in Party, NEW n \in 1..(Size - sent[p])
  PROVE  /\ SendFrom(p, n) \in Seq(Byte) /\ Len(SendFrom(p, n)) = n
         /\ \A i \in 1..n : SendFrom(p, n)[i] = <<p, sent[p] + i>>
         /\ sent[p] \in Nat /\ sent[p] + n \in 0..Size
<1>1. sent[p] \in Nat /\ Size \in Nat /\ n \in Nat \ {0} /\ sent[p] + n <= Size
  BY SessionAssumption DEF TypeOK
<1> DEFINE a == sent[p] + 1
           b == sent[p] + n
<1>2. a \in Int /\ b \in Int /\ a <= b /\ b - a + 1 = n
  BY <1>1
<1>3. ASSUME NEW i \in a..b PROVE Msg(p)[i] = <<p, i>> /\ Msg(p)[i] \in Byte
  <2>1. i \in 1..Size
    BY <1>1
  <2> QED
    BY <2>1, MsgType DEF Byte
<1> HIDE DEF a, b
<1>4. /\ SubSeq(Msg(p), a, b) \in Seq(Byte) /\ Len(SubSeq(Msg(p), a, b)) = n
      /\ \A i \in 1..n : SubSeq(Msg(p), a, b)[i] = Msg(p)[a + i - 1]
  BY <1>2, <1>3
<1>5. SendFrom(p, n) = SubSeq(Msg(p), a, b)
  BY DEF SendFrom, a, b
<1>6. ASSUME NEW i \in 1..n PROVE SubSeq(Msg(p), a, b)[i] = <<p, sent[p] + i>>
  <2>1. a + i - 1 \in a..b /\ a + i - 1 = sent[p] + i
    BY <1>1 DEF a, b
  <2> QED
    BY <1>3, <1>4, <2>1
<1>7. sent[p] + n \in 0..Size
  BY <1>1
<1> QED
  BY <1>1, <1>4, <1>5, <1>6, <1>7, Zenon

\* A sequence s of bytes without its first n, and these.
LEMMA Cut ==
  ASSUME NEW s \in Seq(Byte), NEW n \in 1..Len(s)
  PROVE  /\ SubSeq(s, 1, n) \in Seq(Byte) /\ Len(SubSeq(s, 1, n)) = n
         /\ \A i \in 1..n : SubSeq(s, 1, n)[i] = s[i]
         /\ SubSeq(s, n + 1, Len(s)) \in Seq(Byte)
         /\ Len(SubSeq(s, n + 1, Len(s))) = Len(s) - n
         /\ \A i \in 1..(Len(s) - n) : SubSeq(s, n + 1, Len(s))[i] = s[n + i]
<1>1. Len(s) \in Nat /\ n \in Nat \ {0} /\ n <= Len(s) /\ \A i \in 1..Len(s) : s[i] \in Byte
  OBVIOUS
<1>2. /\ SubSeq(s, 1, n) \in Seq(Byte) /\ Len(SubSeq(s, 1, n)) = n
      /\ \A i \in 1..n : SubSeq(s, 1, n)[i] = s[1 + i - 1]
  BY <1>1
<1>3. /\ SubSeq(s, n + 1, Len(s)) \in Seq(Byte)
      /\ Len(SubSeq(s, n + 1, Len(s)))
           = IF n + 1 <= Len(s) THEN Len(s) - (n + 1) + 1 ELSE 0
      /\ \A i \in 1..(Len(s) - (n + 1) + 1) :
           SubSeq(s, n + 1, Len(s))[i] = s[n + 1 + i - 1]
  BY <1>1
<1> QED
  BY <1>1, <1>2, <1>3

\* p's end is closed.
LEMMA HangUpTypes ==
  ASSUME TypeOK, NEW p \in Party, HangUp(p)
  PROVE  /\ net' \in [Party -> Seq(Byte)]
         /\ fin' \subseteq Party /\ rst' \subseteq Party /\ gone' \subseteq Party
         /\ net'[p] = net[p] /\ net'[Peer(p)] \in {net[Peer(p)], <<>>}
         /\ p \in gone' => p \in gone \/ net'[Peer(p)] = <<>>
         /\ gone \subseteq gone' /\ gone' \subseteq gone \cup {p}
         /\ fin' \subseteq fin \cup {p}
<1>1. PICK q \in Party : q = Peer(p) /\ q # p
  BY TwoParties
<1>2. <<>> \in Seq(Byte) /\ net \in [Party -> Seq(Byte)] /\ net[q] \in Seq(Byte)
  BY DEF TypeOK
<1>3. CASE link = "none" \/ p \in gone
  BY <1>1, <1>2, <1>3, Zenon DEF HangUp, TypeOK
<1>4. CASE ~(link = "none" \/ p \in gone)
  <2>1. gone' = gone \cup {p} /\ net' = [net EXCEPT ![q] = <<>>]
    BY <1>1, <1>4, Zenon DEF HangUp
  <2>2. rst' \subseteq rst \cup {q} /\ fin' \subseteq fin \cup {p}
    BY <1>1, <1>4, Zenon DEF HangUp
  <2>3. net' \in [Party -> Seq(Byte)] /\ net'[p] = net[p] /\ net'[q] = <<>>
    BY <1>1, <1>2, <2>1
  <2> QED
    BY <1>1, <2>1, <2>2, <2>3 DEF TypeOK
<1> QED
  BY <1>3, <1>4

\* One socket pointer of p is set.
LEMMA SetSock ==
  ASSUME TypeOK, NEW p \in Party, NEW n \in Pointers(p), NEW v \in SockState,
         sock' = [sock EXCEPT ![p][n] = v]
  PROVE  /\ SockTypes' /\ \A r \in Party \ {p} : sock'[r] = sock[r]
         /\ sock'[p][n] = v /\ \A m \in Pointers(p) \ {n} : sock'[p][m] = sock[p][m]
<1>1. sock[p] \in [Pointers(p) -> SockState]
  BY DEF TypeOK, SockTypes
<1>2. [sock[p] EXCEPT ![n] = v] \in [Pointers(p) -> SockState]
  BY <1>1
<1>3. Pointers(p) = {"client"} \/ Pointers(p) = {"client", "server"}
  BY DEF Pointers
<1>4. /\ sock'[p] = [sock[p] EXCEPT ![n] = v] /\ \A r \in Party \ {p} : sock'[r] = sock[r]
      /\ sock' \in [Party -> [{"client"} -> SockState]
                                \cup [{"client", "server"} -> SockState]]
  BY <1>2, <1>3 DEF TypeOK, SockTypes
<1>5. sock'[p][n] = v /\ \A m \in Pointers(p) \ {n} : sock'[p][m] = sock[p][m]
  BY <1>1, <1>4
<1>6. \A r \in Party : sock'[r] \in [Pointers(r) -> SockState]
  BY <1>2, <1>4, Zenon DEF TypeOK, SockTypes
<1> QED
  BY <1>4, <1>5, <1>6 DEF SockTypes

\* The pointers of run.
LEMMA PointersOf ==
  /\ Pointers("daemon") = {"client"} /\ Pointers("server") = {"client", "server"}
  /\ First("daemon") = "client" /\ First("server") = "server"
  /\ \A p \in Party : First(p) \in Pointers(p) /\ "client" \in Pointers(p)
BY DEF Pointers, First, Party

\* jfs_ns_socket_destroy on all of them.
LEMMA DestroyTypes ==
  ASSUME TypeOK, NEW p \in Party, DestroySockets(p)
  PROVE  /\ SockTypes' /\ \A r \in Party \ {p} : sock'[r] = sock[r] /\ open'[r] = open[r]
         /\ \A n \in Pointers(p) : sock'[p][n] = "null"
         /\ open'[p] = {} /\ open' \in [Party -> SUBSET {"client", "server"}]
         /\ HangUp(p)
<1> DEFINE f == [n \in Pointers(p) |-> IF n \in Destroyed(p) THEN "null" ELSE sock[p][n]]
<1>1. /\ sock' = [sock EXCEPT ![p] = f] /\ HangUp(p)
      /\ open' = [open EXCEPT ![p] = @ \ Pointers(p)]
  BY DEF DestroySockets, Destroyed
<1>2. f \in [Pointers(p) -> SockState] /\ \A n \in Pointers(p) : f[n] = "null"
  BY DEF Destroyed, SockState
<1> HIDE DEF f
<1>3. Pointers(p) = {"client"} \/ Pointers(p) = {"client", "server"}
  BY DEF Pointers
<1>4. /\ sock'[p] = f /\ \A r \in Party \ {p} : sock'[r] = sock[r]
      /\ sock' \in [Party -> [{"client"} -> SockState]
                                \cup [{"client", "server"} -> SockState]]
  BY <1>1, <1>2, <1>3 DEF TypeOK, SockTypes
<1>5. \A r \in Party : sock'[r] \in [Pointers(r) -> SockState]
  BY <1>2, <1>4, Zenon DEF TypeOK, SockTypes
<1>6. /\ open'[p] = {} /\ open' \in [Party -> SUBSET {"client", "server"}]
      /\ \A r \in Party \ {p} : open'[r] = open[r]
  BY <1>1 DEF TypeOK
<1> QED
  BY <1>1, <1>2, <1>4, <1>5, <1>6 DEF SockTypes

\* Every step keeps the types.
LEMMA TypeStep == TypeOK /\ [Next]_vars => TypeOK'
<1> SUFFICES ASSUME TypeOK, [Next]_vars PROVE TypeOK'
  OBVIOUS
<1>1. ASSUME UNCHANGED <<sock, open, err, sent, got, printed, net, fin, rst, gone>>,
             PlaceTypes'
      PROVE  TypeOK'
  BY <1>1 DEF TypeOK, SockTypes
<1>2. ASSUME UNCHANGED vars PROVE TypeOK'
  BY <1>2 DEF TypeOK, PlaceTypes, SockTypes, vars, partyVars, netVars
<1>3. ASSUME NEW p \in Party, Create(p) PROVE TypeOK'
  <2>1. PlaceTypes'
    BY <1>3, ReturnsTo, GoesTo DEF Create, Places, Ended
  <2>2. SockTypes'
    BY <1>3, SetSock, PointersOf DEF Create, SockState
  <2>3. err' \in [Party -> {"OK", "FAIL", "CLOSE"}]
    BY <1>3, Zenon DEF Create, TypeOK
  <2> QED
    BY <1>3, <2>1, <2>2, <2>3 DEF Create, TypeOK, netVars
<1>4. ASSUME NEW p \in Party, Open(p) PROVE TypeOK'
  <2>1. PlaceTypes'
    BY <1>4, ReturnsTo DEF Open, Ended
  <2>2. SockTypes'
    BY <1>4, SetSock, PointersOf, Zenon DEF Open, SockState
  <2>3. /\ open' \in [Party -> SUBSET {"client", "server"}]
        /\ \A r \in Party : open'[r] \subseteq Pointers(r)
    BY <1>4, PointersOf DEF Open, TypeOK, First
  <2> QED
    BY <1>4, <2>1, <2>2, <2>3, Zenon DEF Open, TypeOK, netVars
<1>5. ASSUME NEW p \in Party, Prepare(p) PROVE TypeOK'
  BY <1>1, <1>5, ReturnsTo DEF Prepare, Ended, netVars
<1>6. ASSUME Listen PROVE TypeOK'
  <2>1. PlaceTypes'
    BY <1>6, ReturnsTo DEF Listen, Ended, Party
  <2>2. SockTypes'
    BY <1>6, SetSock, PointersOf, Zenon DEF Listen, SockState, Party
  <2> QED
    BY <1>6, <2>1, <2>2 DEF Listen, TypeOK, netVars
<1>7. ASSUME Connect PROVE TypeOK'
  BY <1>1, <1>7, ReturnsTo DEF Connect, Ended, Party
<1>8. ASSUME Accept PROVE TypeOK'
  <2>1. PlaceTypes'
    BY <1>8, ReturnsTo DEF Accept, Ended, Party
  <2>2. SockTypes'
    BY <1>8, SetSock, PointersOf, Zenon DEF Accept, SockState, Party
  <2>3. /\ open' \in [Party -> SUBSET {"client", "server"}]
        /\ \A r \in Party : open'[r] \subseteq Pointers(r)
    BY <1>8, PointersOf, Zenon DEF Accept, TypeOK
  <2> QED
    BY <1>8, <2>1, <2>2, <2>3 DEF Accept, TypeOK
<1>9. ASSUME NEW p \in Party, Send(p) PROVE TypeOK'
  <2>1. PICK n \in 1..(Size - sent[p]) :
          /\ IF Peer(p) \in gone
             THEN rst' = rst \cup {p} /\ net' = net
             ELSE rst' = rst /\ net' = [net EXCEPT ![p] = @ \o SendFrom(p, n)]
          /\ sent' = [sent EXCEPT ![p] = @ + n]
          /\ IF sent[p] + n < Size THEN pc' = pc ELSE Returns(p)
    BY <1>9, Zenon DEF Send
  <2>2. PlaceTypes'
    BY <1>9, <2>1, ReturnsTo, Zenon DEF Send, Ended, TypeOK, PlaceTypes
  <2>3. net[p] \o SendFrom(p, n) \in Seq(Byte)
    <3>1. net[p] \in Seq(Byte)
      BY DEF TypeOK
    <3>2. SendFrom(p, n) \in Seq(Byte)
      BY SendFromType, Zenon DEF TypeOK
    <3> QED  BY <3>1, <3>2
  <2>4. sent' \in [Party -> 0..Size]
    BY <2>1, SendFromType DEF TypeOK
  <2>5. net' \in [Party -> Seq(Byte)] /\ rst' \subseteq Party
    BY <2>1, <2>3, Zenon DEF TypeOK
  <2> QED
    BY <1>9, <2>2, <2>4, <2>5 DEF Send, TypeOK, SockTypes
<1>10. ASSUME NEW p \in Party, Recv(p) PROVE TypeOK'
  <2>1. PICK q \in Party : q = Peer(p)
    BY TwoParties
  <2>2. PICK n \in 1..(Size - Len(got[p])) :
          /\ n <= Len(net[q])
          /\ net' = [net EXCEPT ![q] = SubSeq(@, n + 1, Len(@))]
          /\ LET buf == got[p] \o SubSeq(net[q], 1, n) IN
               IF RecvFull(buf)
               THEN /\ printed' = [printed EXCEPT ![p] = Append(@, buf)]
                    /\ got' = [got EXCEPT ![p] = <<>>]
                    /\ IF pc[p] = "recv" THEN Returns(p) ELSE pc' = pc
               ELSE /\ got' = [got EXCEPT ![p] = buf]
                    /\ UNCHANGED <<printed, pc>>
    BY <1>10, <2>1, Zenon DEF Recv
  <2>3. net[q] \in Seq(Byte) /\ got[p] \in Seq(Byte) /\ printed[p] \in Seq(Seq(Byte))
    BY DEF TypeOK
  <2>4. n \in 1..Len(net[q])
    BY <2>2, <2>3, SessionAssumption
  <2>5. SubSeq(net[q], 1, n) \in Seq(Byte) /\ SubSeq(net[q], n + 1, Len(net[q])) \in Seq(Byte)
    BY <2>3, <2>4, Cut
  <2> DEFINE buf == got[p] \o SubSeq(net[q], 1, n)
  <2>6. buf \in Seq(Byte)
    BY <2>3, <2>5
  <2>7. Append(printed[p], buf) \in Seq(Seq(Byte))
    BY <2>3, <2>6
  <2>8. PlaceTypes'
    BY <1>10, <2>2, ReturnsTo, Zenon DEF Recv, Ended, TypeOK, PlaceTypes
  <2>9. net' \in [Party -> Seq(Byte)]
    BY <2>2, <2>5 DEF TypeOK
  <2>10. \/ printed' = printed /\ got' = [got EXCEPT ![p] = buf]
         \/ printed' = [printed EXCEPT ![p] = Append(@, buf)] /\ got' = [got EXCEPT ![p] = <<>>]
    BY <2>2
  <2> HIDE DEF buf
  <2>11. <<>> \in Seq(Byte)
    OBVIOUS
  <2>12. got' \in [Party -> Seq(Byte)]
    <3>1. got \in [Party -> Seq(Byte)]
      BY Zenon DEF TypeOK
    <3> QED
      BY <2>6, <2>10, <2>11, <3>1, Zenon
  <2>13. printed' \in [Party -> Seq(Seq(Byte))]
    BY <2>7, <2>10, Zenon DEF TypeOK
  <2> QED
    BY <1>10, <2>8, <2>9, <2>12, <2>13, Zenon DEF Recv, TypeOK, SockTypes
<1>11. ASSUME NEW p \in Party, RecvEof(p) PROVE TypeOK'
  <2>1. PlaceTypes'
    BY <1>11, ReturnsTo, GoesTo DEF RecvEof, Places, Ended
  <2>2. err' \in [Party -> {"OK", "FAIL", "CLOSE"}]
    BY <1>11, Zenon DEF RecvEof, TypeOK
  <2> QED
    BY <1>11, <2>1, <2>2 DEF RecvEof, TypeOK, SockTypes, netVars
<1>12. ASSUME NEW p \in Party, Shutdown(p) PROVE TypeOK'
  <2>1. PlaceTypes'
    BY <1>12, ReturnsTo DEF Shutdown, Ended
  <2> QED
    BY <1>12, <2>1 DEF Shutdown, TypeOK, SockTypes
<1>13. ASSUME NEW p \in Party, Interrupted(p) PROVE TypeOK'
  BY <1>13 DEF Interrupted, TypeOK, PlaceTypes, SockTypes, partyVars, netVars
<1>14. ASSUME NEW p \in Party, LinkError(p) \/ CallError(p) PROVE TypeOK'
  <2>1. Fails(p)
    BY <1>14 DEF LinkError, CallError
  <2>2. PlaceTypes'
    BY <2>1, GoesTo DEF Fails, Places
  <2>3. SockTypes'
    <3>1. CASE pc[p] = "accept"
      BY <2>1, <3>1, SetSock, PointersOf, Zenon DEF Fails, SockState
    <3>2. CASE pc[p] # "accept"
      BY <2>1, <3>2 DEF Fails, TypeOK, SockTypes
    <3> QED
      BY <3>1, <3>2
  <2>4. err' \in [Party -> {"OK", "FAIL", "CLOSE"}]
    BY <2>1 DEF Fails, TypeOK
  <2> QED
    BY <2>1, <2>2, <2>3, <2>4 DEF Fails, TypeOK, netVars
<1>15. ASSUME NEW p \in Party, Finish(p) \/ Cleanup(p) PROVE TypeOK'
  <2>1. DestroySockets(p) /\ Goes(p, "done") /\ UNCHANGED <<err, sent, got, printed>>
    BY <1>15 DEF Finish, Cleanup
  <2>2. PlaceTypes'
    BY <2>1, GoesTo DEF Places, Ended
  <2>3. /\ SockTypes' /\ open' \in [Party -> SUBSET {"client", "server"}]
        /\ \A r \in Party : open'[r] \subseteq Pointers(r)
    BY <2>1, DestroyTypes, Zenon DEF TypeOK
  <2>4. /\ net' \in [Party -> Seq(Byte)]
        /\ fin' \subseteq Party /\ rst' \subseteq Party /\ gone' \subseteq Party
    BY <2>1, DestroyTypes, HangUpTypes
  <2> QED
    BY <2>1, <2>2, <2>3, <2>4 DEF TypeOK
<1>16. ASSUME NEW p \in Party, NEW how \in Ended, Dies(p, how) PROVE TypeOK'
  <2>1. PlaceTypes'
    BY <1>16, GoesTo DEF Dies, Places
  <2>2. /\ open' \in [Party -> SUBSET {"client", "server"}]
        /\ \A r \in Party : open'[r] \subseteq Pointers(r)
    BY <1>16 DEF Dies, TypeOK
  <2>3. /\ net' \in [Party -> Seq(Byte)]
        /\ fin' \subseteq Party /\ rst' \subseteq Party /\ gone' \subseteq Party
    BY <1>16, HangUpTypes DEF Dies
  <2> QED
    BY <1>16, <2>1, <2>2, <2>3 DEF Dies, TypeOK, SockTypes
<1>17. ASSUME CleanupWild PROVE TypeOK'
  BY <1>16, <1>17 DEF CleanupWild, Party, Ended
<1>18. ASSUME NEW p \in Party, Kill(p) PROVE TypeOK'
  BY <1>16, <1>18 DEF Kill, Ended
<1>19. "daemon" \in Party /\ "server" \in Party
  BY DEF Party
<1> QED
  BY <1>2, <1>3, <1>4, <1>5, <1>6, <1>7, <1>8, <1>9, <1>10, <1>11, <1>12, <1>13,
     <1>14, <1>15, <1>17, <1>18, <1>19, Zenon
     DEF Next, Daemon, Server, PartyStep, Settled

-----------------------------------------------------------------------------
(* Sockets.                                                                 *)

\* A party whose place and sockets a step leaves alone.
LEMMA SocketsKept ==
  ASSUME NEW r \in Party, Sockets(r),
         pc'[r] = pc[r], sock'[r] = sock[r], open'[r] = open[r]
  PROVE  Sockets(r)'
BY DEF Sockets, Running

\* Where the calls that touch no socket lead.
LEMMA QuietPlaces ==
  ASSUME TypeOK, NEW p \in Party, Sockets(p), sock'[p] = sock[p], open'[p] = open[p],
         \/ pc[p] \in {"resolve", "set_ip", "bind", "connect", "send", "recv",
                       "shutdown", "drain"} /\ pc'[p] = After(p, pc[p])
         \/ Running(p) /\ pc'[p] = "cleanup"
  PROVE  Sockets(p)'
<1>1. Running(p) /\ pc'[p] \notin Ended \cup {"create", "open"}
  <2>1. CASE p = "daemon"
    BY <2>1, DaemonScript, Zenon DEF Running, Ended, TypeOK, PlaceTypes, Places
  <2>2. CASE p = "server"
    BY <2>2, ServerScript, Zenon DEF Running, Ended, TypeOK, PlaceTypes, Places
  <2> QED
    BY <2>1, <2>2 DEF Party
<1>2. /\ pc'[p] \in {"set_ip", "bind", "listen"} => pc[p] \in {"set_ip", "bind", "listen"}
      /\ p = "server" /\ pc'[p] \in {"set_ip", "bind", "listen", "accept"}
           => pc[p] \in {"set_ip", "bind", "listen"}
  <2>1. CASE p = "daemon"
    BY <2>1, DaemonScript DEF TypeOK, PlaceTypes, Places
  <2>2. CASE p = "server"
    <3>1. pc[p] # "resolve" /\ pc[p] # "connect"
      BY <2>2, ServerScript, Zenon DEF TypeOK, PlaceTypes, Places, Ended
    <3> QED
      BY <2>2, <3>1, ServerScript
  <2> QED
    BY <2>1, <2>2 DEF Party
<1> QED
  BY <1>1, <1>2 DEF Sockets, Running, Ended

\* Every step keeps the sockets.
LEMMA SocketsStep ==
  ASSUME TypeOK, \A p \in Party : Sockets(p), [Next]_vars
  PROVE  \A p \in Party : Sockets(p)'
<1>1. ASSUME UNCHANGED <<pc, sock, open>> PROVE \A r \in Party : Sockets(r)'
  BY <1>1, SocketsKept
<1>2. ASSUME NEW p \in Party, Create(p) PROVE \A r \in Party : Sockets(r)'
  <2>1. /\ pc[p] = "create" /\ open' = open
        /\ sock'[p][First(p)] \in {"nofd", "null"} /\ pc'[p] \in {"open", "cleanup"}
        /\ \A m \in Pointers(p) \ {First(p)} : sock'[p][m] = sock[p][m]
        /\ \A r \in Party \ {p} : sock'[r] = sock[r] /\ pc'[r] = pc[r]
    <3>1. First(p) \in Pointers(p) /\ "nofd" \in SockState /\ "null" \in SockState
      BY PointersOf DEF SockState
    <3>2. pc[p] = "create" /\ pc[p] \notin Ended \cup {"cleanup", "close"} /\ open' = open
      BY <1>2 DEF Create, Ended
    <3>3. CASE sock' = [sock EXCEPT ![p][First(p)] = "nofd"] /\ Returns(p)
      <4>1. pc'[p] = After(p, "create") /\ \A r \in Party \ {p} : pc'[r] = pc[r]
        BY <3>2, <3>3, ReturnsTo
      <4>2. pc'[p] = "open"
        BY <4>1, DaemonScript, ServerScript DEF Party
      <4>3. /\ sock'[p][First(p)] = "nofd"
            /\ \A m \in Pointers(p) \ {First(p)} : sock'[p][m] = sock[p][m]
            /\ \A r \in Party \ {p} : sock'[r] = sock[r]
        BY <3>3, SetSock, PointersOf, Zenon DEF SockState
      <4> QED
        BY <3>2, <4>1, <4>2, <4>3
    <3>4. CASE sock' = [sock EXCEPT ![p][First(p)] = "null"] /\ Goes(p, "cleanup")
      <4>1. pc'[p] = "cleanup" /\ \A r \in Party \ {p} : pc'[r] = pc[r]
        BY <3>4, GoesTo DEF Places
      <4>2. /\ sock'[p][First(p)] = "null"
            /\ \A m \in Pointers(p) \ {First(p)} : sock'[p][m] = sock[p][m]
            /\ \A r \in Party \ {p} : sock'[r] = sock[r]
        BY <3>4, SetSock, PointersOf, Zenon DEF SockState
      <4> QED
        BY <3>2, <4>1, <4>2
    <3> QED
      BY <1>2, <3>3, <3>4 DEF Create
  <2>2. sock[p][First(p)] = "uninit" /\ Running(p) /\ pc'[p] \notin Ended
    BY <2>1 DEF Sockets, Running, Ended
  <2>3. open'[p] = {n \in Pointers(p) : sock'[p][n] \in {"fd", "listen"}}
    BY <2>1, <2>2 DEF Sockets
  <2>4. p = "server" => sock'[p]["client"] = "uninit"
    BY <2>1, PointersOf DEF Sockets
  <2>5. Sockets(p)'
    BY <2>1, <2>2, <2>3, <2>4 DEF Sockets, Running, Ended
  <2> QED
    BY <2>1, <2>5, SocketsKept
<1>3. ASSUME NEW p \in Party, Open(p) PROVE \A r \in Party : Sockets(r)'
  <2>1. /\ pc[p] = "open" /\ sock'[p][First(p)] = "fd"
        /\ \A m \in Pointers(p) \ {First(p)} : sock'[p][m] = sock[p][m]
        /\ \A r \in Party \ {p} : sock'[r] = sock[r] /\ pc'[r] = pc[r]
    BY <1>3, SetSock, PointersOf, ReturnsTo, ZenonT(60) DEF Open, Ended, SockState
  <2>2. pc'[p] \in {"resolve", "set_ip"}
    BY <1>3, ReturnsTo, DaemonScript, ServerScript DEF Open, Ended, Party
  <2>3. open'[p] = open[p] \cup {First(p)} /\ \A r \in Party \ {p} : open'[r] = open[r]
    BY <1>3 DEF Open, TypeOK
  <2>4. open[p] = {n \in Pointers(p) : sock[p][n] \in {"fd", "listen"}}
    BY <2>1 DEF Sockets, Running, Ended
  <2>5. open'[p] = {n \in Pointers(p) : sock'[p][n] \in {"fd", "listen"}}
    BY <2>1, <2>3, <2>4, PointersOf
  <2>6. p = "server" => sock'[p]["client"] = "uninit"
    BY <2>1, PointersOf DEF Sockets
  <2>7. pc'[p] = "set_ip" => p = "server"
    BY <1>3, <2>1, ReturnsTo, DaemonScript DEF Open, Ended, Party
  <2>8. Sockets(p)'
    BY <2>1, <2>2, <2>5, <2>6, <2>7, PointersOf DEF Sockets, Running, Ended
  <2> QED
    BY <2>1, <2>3, <2>8, SocketsKept
<1>4. ASSUME NEW p \in Party, Prepare(p) PROVE \A r \in Party : Sockets(r)'
  <2>1. /\ pc[p] \in {"resolve", "set_ip", "bind"} /\ UNCHANGED <<sock, open>>
        /\ pc'[p] = After(p, pc[p]) /\ \A r \in Party \ {p} : pc'[r] = pc[r]
    BY <1>4, ReturnsTo DEF Prepare, Ended
  <2> QED
    BY <2>1, QuietPlaces, SocketsKept
<1>5. ASSUME Listen PROVE \A r \in Party : Sockets(r)'
  <2>1. /\ pc["server"] = "listen" /\ pc'["server"] = "accept" /\ open' = open
        /\ pc'["daemon"] = pc["daemon"]
    BY <1>5, ReturnsTo, ServerScript DEF Listen, Ended, Party
  <2>2. /\ sock'["server"]["server"] = "listen"
        /\ sock'["server"]["client"] = sock["server"]["client"]
        /\ sock'["daemon"] = sock["daemon"]
    BY <1>5, SetSock, PointersOf, ZenonT(60) DEF Listen, SockState, Party
  <2>3. /\ sock["server"]["server"] = "fd" /\ sock["server"]["client"] = "uninit"
        /\ open["server"] = {n \in {"client", "server"} :
                               sock["server"][n] \in {"fd", "listen"}}
    BY <2>1, PointersOf DEF Sockets, Running, Ended, Party
  <2>4. open'["server"] = {n \in {"client", "server"} :
                             sock'["server"][n] \in {"fd", "listen"}}
    BY <2>1, <2>2, <2>3
  <2>5. Sockets("server")'
    BY <2>1, <2>2, <2>3, <2>4, PointersOf DEF Sockets, Running, Ended
  <2> QED
    BY <2>1, <2>2, <2>5, SocketsKept DEF Party
<1>6. ASSUME Connect PROVE \A r \in Party : Sockets(r)'
  <2>1. /\ pc["daemon"] = "connect" /\ UNCHANGED <<sock, open>>
        /\ pc'["daemon"] = After("daemon", pc["daemon"]) /\ pc'["server"] = pc["server"]
    BY <1>6, ReturnsTo DEF Connect, Ended, Party
  <2> QED
    BY <2>1, QuietPlaces, SocketsKept DEF Party
<1>7. ASSUME Accept PROVE \A r \in Party : Sockets(r)'
  <2>1. /\ pc["server"] = "accept" /\ pc'["server"] = "recv"
        /\ pc'["daemon"] = pc["daemon"]
    BY <1>7, ReturnsTo, ServerScript DEF Accept, Ended, Party
  <2>2. /\ sock'["server"]["client"] = "fd"
        /\ sock'["server"]["server"] = sock["server"]["server"]
        /\ sock'["daemon"] = sock["daemon"]
    BY <1>7, SetSock, PointersOf, ZenonT(60) DEF Accept, SockState, Party
  <2>3. open'["server"] = open["server"] \cup {"client"} /\ open'["daemon"] = open["daemon"]
    BY <1>7 DEF Accept, TypeOK, Party
  <2>4. open["server"] = {n \in {"client", "server"} :
                            sock["server"][n] \in {"fd", "listen"}}
    BY <2>1, PointersOf DEF Sockets, Running, Ended, Party
  <2>5. open'["server"] = {n \in {"client", "server"} :
                             sock'["server"][n] \in {"fd", "listen"}}
    BY <2>2, <2>3, <2>4
  <2>6. Sockets("server")'
    BY <2>1, <2>5, PointersOf DEF Sockets, Running, Ended
  <2> QED
    BY <2>1, <2>2, <2>3, <2>6, SocketsKept DEF Party
<1>8. ASSUME NEW p \in Party, Send(p) \/ Recv(p) PROVE \A r \in Party : Sockets(r)'
  <2>1. /\ pc[p] \in {"send", "recv", "drain"} /\ UNCHANGED <<sock, open>>
        /\ pc' = pc \/ Returns(p)
    BY <1>8 DEF Send, Recv
  <2>2. pc[p] \notin Ended \cup {"cleanup", "close"}
    BY <2>1 DEF Ended
  <2> QED
    BY <1>1, <2>1, <2>2, ReturnsTo, QuietPlaces, SocketsKept
<1>9. ASSUME NEW p \in Party, RecvEof(p) \/ Shutdown(p) PROVE \A r \in Party : Sockets(r)'
  <2>1. /\ pc[p] \in {"recv", "shutdown", "drain"} /\ UNCHANGED <<sock, open>>
        /\ Goes(p, "cleanup") \/ Returns(p)
    BY <1>9, Zenon DEF RecvEof, Shutdown
  <2>2. pc[p] \notin Ended \cup {"cleanup", "close"} /\ "cleanup" \in Places(p) /\ Running(p)
    BY <2>1 DEF Ended, Places, Running
  <2>3. /\ pc'[p] = "cleanup" \/ pc'[p] = After(p, pc[p])
        /\ \A r \in Party \ {p} : pc'[r] = pc[r]
    BY <2>1, <2>2, ReturnsTo, GoesTo, Zenon
  <2>4. sock' = sock /\ open' = open
    BY <2>1
  <2>5. Sockets(p)'
    BY <2>1, <2>2, <2>3, <2>4, QuietPlaces
  <2>6. ASSUME NEW r \in Party \ {p} PROVE Sockets(r)'
    BY <2>3, <2>4, SocketsKept, Zenon
  <2> QED
    BY <2>5, <2>6, Zenon
<1>10. ASSUME NEW p \in Party, LinkError(p) \/ CallError(p) PROVE \A r \in Party : Sockets(r)'
  <2>1. Fails(p) /\ pc[p] \notin Ended
    BY <1>10, SessionAssumption, DaemonScript, ServerScript DEF LinkError, CallError, Ended
  <2>2. pc'[p] = "cleanup" /\ open' = open /\ \A r \in Party \ {p} : pc'[r] = pc[r]
    BY <2>1, GoesTo DEF Fails, Places
  <2>3. CASE pc[p] # "accept"
    BY <2>1, <2>2, <2>3, QuietPlaces, SocketsKept DEF Fails, Running
  <2>4. CASE pc[p] = "accept"
    <3>1. p = "server"
      BY <2>4, DaemonScript, Zenon DEF Party, TypeOK, PlaceTypes, Places, Ended
    <3>2. /\ sock'[p]["client"] = "null" /\ sock'[p]["server"] = sock[p]["server"]
          /\ \A r \in Party \ {p} : sock'[r] = sock[r]
      <4>1. sock' = [sock EXCEPT ![p]["client"] = "null"]
        BY <2>1, <2>4 DEF Fails
      <4>2. "null" \in SockState /\ "client" \in Pointers(p) /\ "server" \in Pointers(p)
        BY <3>1, PointersOf DEF SockState
      <4>3. /\ sock'[p]["client"] = "null" /\ \A r \in Party \ {p} : sock'[r] = sock[r]
            /\ \A m \in Pointers(p) \ {"client"} : sock'[p][m] = sock[p][m]
        BY <4>1, SetSock, PointersOf, Zenon DEF SockState
      <4> QED
        BY <4>2, <4>3
    <3>3. /\ sock[p]["client"] = "uninit"
          /\ open[p] = {n \in {"client", "server"} : sock[p][n] \in {"fd", "listen"}}
      BY <2>1, <2>4, <3>1, PointersOf DEF Sockets, Running
    <3>4. open'[p] = {n \in {"client", "server"} : sock'[p][n] \in {"fd", "listen"}}
      BY <2>2, <3>2, <3>3
    <3>5. Sockets(p)'
      BY <2>2, <3>1, <3>4, PointersOf DEF Sockets, Running, Ended
    <3> QED
      BY <2>2, <3>2, <3>5, SocketsKept
  <2> QED
    BY <2>3, <2>4
<1>11. ASSUME NEW p \in Party, Finish(p) \/ Cleanup(p) PROVE \A r \in Party : Sockets(r)'
  <2>1. DestroySockets(p) /\ Goes(p, "done")
    BY <1>11 DEF Finish, Cleanup
  <2>2. pc'[p] = "done" /\ \A r \in Party \ {p} : pc'[r] = pc[r]
    BY <2>1, GoesTo DEF Places, Ended
  <2>3. Sockets(p)'
    <3>1. open'[p] = {} /\ \A n \in Pointers(p) : sock'[p][n] = "null"
      BY <2>1, DestroyTypes, Zenon
    <3> QED
      BY <2>2, <3>1 DEF Sockets, Running, Ended
  <2>4. \A r \in Party \ {p} : sock'[r] = sock[r] /\ open'[r] = open[r]
    BY <2>1, DestroyTypes, Zenon
  <2>5. ASSUME NEW r \in Party \ {p} PROVE Sockets(r)'
    BY <2>2, <2>4, SocketsKept, Zenon
  <2> QED
    BY <2>3, <2>5, Zenon
<1>12. ASSUME NEW p \in Party, NEW how \in {"killed", "crashed"}, Dies(p, how)
       PROVE  \A r \in Party : Sockets(r)'
  <2>1. pc'[p] = how /\ \A r \in Party \ {p} : pc'[r] = pc[r]
    BY <1>12, GoesTo DEF Dies, Places, Ended
  <2>2. sock' = sock /\ \A r \in Party \ {p} : open'[r] = open[r]
    BY <1>12 DEF Dies, TypeOK
  <2>3. Sockets(p)'
    BY <2>1 DEF Sockets, Running, Ended
  <2> QED
    BY <2>1, <2>2, <2>3, SocketsKept
<1>13. ASSUME NEW p \in Party, Interrupted(p) \/ UNCHANGED vars
       PROVE  UNCHANGED <<pc, sock, open>>
  BY <1>13 DEF Interrupted, vars, partyVars
<1>14. "daemon" \in Party /\ "server" \in Party
  BY DEF Party
<1>15. ASSUME CleanupWild PROVE \A r \in Party : Sockets(r)'
  BY <1>12, <1>14, <1>15 DEF CleanupWild
<1>16. ASSUME NEW p \in Party, Kill(p) PROVE \A r \in Party : Sockets(r)'
  BY <1>12, <1>16 DEF Kill
<1> QED
  BY <1>1, <1>2, <1>3, <1>4, <1>5, <1>6, <1>7, <1>8, <1>9, <1>10, <1>11, <1>13, <1>14,
     <1>15, <1>16, Zenon DEF Next, Daemon, Server, PartyStep, Settled

-----------------------------------------------------------------------------
(* The two streams.                                                         *)

\* Bytes of q from the k-th on, and the ones that follow them.
LEMMA Joined ==
  ASSUME NEW s \in Seq(Byte), NEW t \in Seq(Byte), NEW q, NEW k \in Nat,
         \A i \in 1..Len(s) : s[i] = <<q, k + i>>,
         \A i \in 1..Len(t) : t[i] = <<q, k + Len(s) + i>>
  PROVE  /\ s \o t \in Seq(Byte) /\ Len(s \o t) = Len(s) + Len(t)
         /\ \A i \in 1..(Len(s) + Len(t)) : (s \o t)[i] = <<q, k + i>>
<1>1. Len(s) \in Nat /\ Len(t) \in Nat
  OBVIOUS
<1>2. /\ s \o t \in Seq(Byte) /\ Len(s \o t) = Len(s) + Len(t)
      /\ \A i \in 1..(Len(s) + Len(t)) :
           (s \o t)[i] = IF i <= Len(s) THEN s[i] ELSE t[i - Len(s)]
  OBVIOUS
<1>3. ASSUME NEW i \in 1..(Len(s) + Len(t)) PROVE (s \o t)[i] = <<q, k + i>>
  <2>1. CASE i <= Len(s)
    BY <1>1, <1>2, <2>1
  <2>2. CASE ~(i <= Len(s))
    <3>1. i - Len(s) \in 1..Len(t) /\ k + Len(s) + (i - Len(s)) = k + i
      BY <1>1, <2>2
    <3> QED
      BY <1>2, <2>2, <3>1
  <2> QED
    BY <2>1, <2>2
<1> QED
  BY <1>2, <1>3, Zenon

\* A stream that a step leaves alone.
LEMMA StreamKept ==
  ASSUME NEW p, NEW q, Stream(q, p), printed'[p] = printed[p], got'[p] = got[p],
         net'[q] = net[q], sent'[q] = sent[q], p \in gone' <=> p \in gone
  PROVE  Stream(q, p)'
BY Zenon DEF Stream, Msg

\* q hands over some bytes.
LEMMA StreamSend ==
  ASSUME TypeOK, NEW p \in Party, NEW q \in Party, p = Peer(q), Stream(q, p), Send(q)
  PROVE  Stream(q, p)'
<1>1. PICK n \in 1..(Size - sent[q]) :
         /\ IF p \in gone THEN net' = net
            ELSE net' = [net EXCEPT ![q] = @ \o SendFrom(q, n)]
         /\ sent' = [sent EXCEPT ![q] = @ + n]
  BY Zenon DEF Send
<1>2. UNCHANGED <<got, printed, gone>>
  BY DEF Send
<1>3. /\ net[q] \in Seq(Byte) /\ got[p] \in Seq(Byte) /\ Len(net[q]) \in Nat
      /\ Len(got[p]) \in Nat /\ sent[q] \in Nat /\ Size \in Nat /\ n \in Nat \ {0}
      /\ sent[q] + n <= Size /\ sent'[q] = sent[q] + n
  BY <1>1, SessionAssumption DEF TypeOK
<1>4. printed[p] = <<>>
  <2>1. sent[q] # Size
    BY <1>3
  <2> QED
    BY <2>1, Zenon DEF Stream
<1>5. CASE p \in gone
  <2>1. net' = net /\ Len(got[p]) + Len(net[q]) <= sent[q]
    BY <1>1, <1>4, <1>5, Zenon DEF Stream
  <2>2. Len(got[p]) + Len(net[q]) <= sent'[q]
    <3>1. ASSUME NEW i \in Nat, NEW j \in Nat, NEW l \in Nat, i + j <= l
          PROVE  i + j <= l + n
      BY <1>3, <3>1
    <3> QED
      BY <1>3, <2>1, <3>1, Zenon
  <2> QED
    BY <1>2, <1>4, <1>5, <2>1, <2>2, Zenon DEF Stream
<1>6. CASE p \notin gone
  <2> DEFINE s == net[q]
             t == SendFrom(q, n)
             k == Len(got[p])
  <2>1. net'[q] = s \o t
    BY <1>1, <1>6 DEF TypeOK
  <2>2. t \in Seq(Byte) /\ Len(t) = n /\ \A i \in 1..n : t[i] = <<q, sent[q] + i>>
    BY SendFromType
  <2>3. k + Len(s) = sent[q] /\ \A i \in 1..Len(s) : s[i] = <<q, k + i>>
    BY <1>4, <1>6, Zenon DEF Stream
  <2>4. s \in Seq(Byte) /\ k \in Nat
    BY <1>3
  <2> HIDE DEF s, t, k
  <2>5. /\ t \in Seq(Byte) /\ \A i \in 1..Len(t) : t[i] = <<q, k + Len(s) + i>>
        /\ \A i \in 1..Len(s) : s[i] = <<q, k + i>>
    BY <2>2, <2>3
  <2>6. /\ Len(s \o t) = Len(s) + Len(t)
        /\ \A i \in 1..(Len(s) + Len(t)) : (s \o t)[i] = <<q, k + i>>
    BY <2>4, <2>5, Joined
  <2>7. k + Len(net'[q]) = sent'[q] /\ sent'[q] <= sent'[q]
    BY <1>3, <2>1, <2>2, <2>3, <2>4, <2>6 DEF s
  <2>8. k = Len(got'[p]) /\ \A i \in 1..Len(got'[p]) : got'[p][i] = <<q, i>>
    BY <1>2, <1>4 DEF k, Stream
  <2>9. \A i \in 1..Len(net'[q]) : net'[q][i] = <<q, k + i>>
    BY <2>1, <2>6, Zenon
  <2> QED
    BY <1>2, <1>4, <1>6, <2>7, <2>8, <2>9, Zenon DEF Stream
<1> QED
  BY <1>5, <1>6

\* p receives some bytes of q.
LEMMA StreamRecv ==
  ASSUME TypeOK, NEW p \in Party, NEW q \in Party, q = Peer(p), Stream(q, p), Recv(p)
  PROVE  Stream(q, p)' /\ printed[p] = <<>>
<1> DEFINE g == got[p]
           w == net[q]
           m == Len(w)
<1>1. PICK n \in 1..(Size - Len(g)) :
        /\ n <= m /\ net' = [net EXCEPT ![q] = SubSeq(@, n + 1, Len(@))]
        /\ LET buf == g \o SubSeq(w, 1, n) IN
             IF RecvFull(buf)
             THEN /\ printed' = [printed EXCEPT ![p] = Append(@, buf)]
                  /\ got' = [got EXCEPT ![p] = <<>>]
             ELSE got' = [got EXCEPT ![p] = buf] /\ printed' = printed
  BY Zenon DEF Recv
<1>2. UNCHANGED <<sent, gone>>
  BY DEF Recv
<1>3. /\ g \in Seq(Byte) /\ w \in Seq(Byte) /\ m \in Nat /\ Len(g) \in Nat
      /\ sent[q] \in 0..Size /\ Size \in Nat \ {0}
  BY SessionAssumption DEF TypeOK
<1>4. n \in 1..m /\ n \in Nat \ {0} /\ Len(g) + n <= Size /\ w # <<>>
  BY <1>1, <1>3
<1>5. /\ printed[p] = <<>> /\ p \notin gone /\ Len(g) + m = sent[q]
      /\ \A i \in 1..Len(g) : g[i] = <<q, i>>
      /\ \A i \in 1..m : w[i] = <<q, Len(g) + i>>
  BY <1>4, Zenon DEF Stream
<1> DEFINE a == SubSeq(w, 1, n)
           b == SubSeq(w, n + 1, m)
           buf == g \o a
<1>6. /\ a \in Seq(Byte) /\ Len(a) = n /\ \A i \in 1..n : a[i] = w[i]
      /\ b \in Seq(Byte) /\ Len(b) = m - n /\ \A i \in 1..(m - n) : b[i] = w[n + i]
  BY <1>3, <1>4, Cut, Zenon
<1>7. net'[q] = b
  BY <1>1 DEF TypeOK
<1>8. IF RecvFull(buf)
      THEN printed'[p] = Append(printed[p], buf) /\ got'[p] = <<>>
      ELSE got'[p] = buf /\ printed'[p] = printed[p]
  BY <1>1, Zenon DEF TypeOK
<1> HIDE DEF g, w, m, a, b
<1>9. PICK k \in Nat : k = 0
  OBVIOUS
<1>10. /\ g \in Seq(Byte) /\ \A i \in 1..Len(g) : g[i] = <<q, k + i>>
       /\ a \in Seq(Byte) /\ \A i \in 1..Len(a) : a[i] = <<q, k + Len(g) + i>>
  <2>1. \A i \in 1..Len(g) : g[i] = <<q, k + i>>
    BY <1>3, <1>5, <1>9
  <2>2. ASSUME NEW i \in 1..Len(a) PROVE a[i] = <<q, k + Len(g) + i>>
    <3>1. i \in 1..n /\ i \in 1..m /\ k + Len(g) + i = Len(g) + i
      BY <1>3, <1>4, <1>6, <1>9
    <3> QED
      BY <1>5, <1>6, <3>1, Zenon
  <2> QED
    BY <1>3, <1>6, <2>1, <2>2
<1>11. /\ buf \in Seq(Byte) /\ Len(buf) = Len(g) + Len(a)
       /\ \A i \in 1..(Len(g) + Len(a)) : buf[i] = <<q, k + i>>
  BY <1>10, Joined
<1> HIDE DEF buf
<1>12. /\ Len(buf) = Len(g) + n /\ \A i \in 1..Len(buf) : buf[i] = <<q, i>>
       /\ Len(b) \in Nat /\ Len(buf) \in Nat
  BY <1>3, <1>6, <1>9, <1>11
<1>13. ASSUME NEW i \in 1..Len(b) PROVE b[i] = <<q, Len(buf) + i>>
  <2>1. i \in 1..(m - n) /\ n + i \in 1..m /\ Len(g) + (n + i) = Len(buf) + i
    BY <1>3, <1>4, <1>6, <1>12
  <2> QED
    BY <1>5, <1>6, <2>1
<1>14. Len(buf) + Len(b) = sent[q]
  BY <1>3, <1>4, <1>5, <1>6, <1>12
<1>15. CASE RecvFull(buf)
  <2>1. Len(buf) = Size /\ Len(b) = 0 /\ sent[q] = Size
    <3>1. Len(buf) >= Size /\ Len(buf) <= Size
      BY <1>4, <1>12, <1>15 DEF RecvFull
    <3> QED
      BY <1>3, <1>12, <1>14, <3>1
  <2>2. b = <<>>
    BY <1>6, <2>1
  <2>3. buf = Msg(q)
    <3>1. /\ Msg(q) \in Seq(Byte) /\ Len(buf) = Len(Msg(q))
          /\ \A i \in 1..Len(buf) : buf[i] = Msg(q)[i]
      BY <1>12, <2>1, MsgType, Zenon
    <3> QED
      BY <1>11, <3>1
  <2>4. printed'[p] = <<Msg(q)>> /\ got'[p] = <<>>
    BY <1>5, <1>8, <1>15, <2>3
  <2>5. printed'[p] # <<>> /\ net'[q] = <<>> /\ sent'[q] = Size
    BY <1>2, <1>7, <2>1, <2>2, <2>4
  <2> QED
    BY <1>5, <2>4, <2>5 DEF Stream, Msg
<1>16. CASE ~RecvFull(buf)
  BY <1>2, <1>3, <1>5, <1>7, <1>8, <1>12, <1>13, <1>14, <1>16, Zenon DEF Stream
<1> QED
  BY <1>15, <1>16

\* p closes its end.
LEMMA StreamHangUp ==
  ASSUME TypeOK, Streams, NEW p \in Party, HangUp(p), UNCHANGED <<sent, got, printed>>
  PROVE  Streams'
<1> SUFFICES ASSUME NEW r \in Party PROVE Stream(Peer(r), r)'
  BY DEF Streams, Peer
<1>1. PICK q \in Party : q = Peer(r) /\ Stream(q, r)
  BY TwoParties DEF Streams
<1>2. CASE link = "none" \/ p \in gone
  BY <1>1, <1>2, StreamKept DEF HangUp
<1>3. CASE ~(link = "none" \/ p \in gone)
  <2>1. gone' = gone \cup {p} /\ net' = [net EXCEPT ![Peer(p)] = <<>>]
    BY <1>3, Zenon DEF HangUp
  <2>2. CASE r = p
    <3>1. net'[q] = <<>>
      BY <1>1, <2>1, <2>2 DEF TypeOK
    <3> QED
      BY <1>1, <2>1, <2>2, <3>1 DEF Stream, Msg, TypeOK
  <2>3. CASE r # p
    <3>1. q # Peer(p)
      BY <1>1, <2>3, TwoParties
    <3>2. net'[q] = net[q]
      BY <2>1, <3>1 DEF TypeOK
    <3> QED
      BY <1>1, <2>1, <2>3, <3>2, StreamKept
  <2> QED
    BY <2>2, <2>3
<1> QED
  BY <1>2, <1>3

\* Every step keeps the streams.
LEMMA StreamsStep ==
  ASSUME TypeOK, Streams, [Next]_vars
  PROVE  Streams'
<1>1. ASSUME UNCHANGED <<sent, got, printed, net, gone>> PROVE Streams'
  BY <1>1, StreamKept DEF Streams, Peer
<1>2. ASSUME NEW p \in Party, Send(p) PROVE Streams'
  <2>1. PICK q \in Party : q = Peer(p) /\ p = Peer(q) /\ p # q
    BY TwoParties
  <2>2. Stream(p, q) /\ Stream(q, p)
    BY <2>1, Zenon DEF Streams
  <2>3. Stream(p, q)'
    BY <1>2, <2>1, <2>2, StreamSend
  <2>4. net'[q] = net[q] /\ sent'[q] = sent[q] /\ UNCHANGED <<got, printed, gone>>
    BY <1>2, <2>1 DEF Send, TypeOK
  <2>5. Stream(q, p)'
    BY <2>2, <2>4, StreamKept
  <2> QED
    BY <2>1, <2>3, <2>5, TwoParties DEF Streams, Peer
<1>3. ASSUME NEW p \in Party, Recv(p) PROVE Streams'
  <2>1. PICK q \in Party : q = Peer(p) /\ p = Peer(q) /\ p # q
    BY TwoParties
  <2>2. Stream(p, q) /\ Stream(q, p)
    BY <2>1, Zenon DEF Streams
  <2>3. Stream(q, p)'
    BY <1>3, <2>1, <2>2, StreamRecv
  <2>4. /\ net'[p] = net[p] /\ got'[q] = got[q] /\ printed'[q] = printed[q]
        /\ UNCHANGED <<sent, gone>>
    BY <1>3, <2>1, Zenon DEF Recv, TypeOK
  <2>5. Stream(p, q)'
    BY <2>2, <2>4, StreamKept
  <2> QED
    BY <2>1, <2>3, <2>5, TwoParties DEF Streams, Peer
<1>4. ASSUME NEW p \in Party, Finish(p) \/ Cleanup(p) PROVE Streams'
  BY <1>4, DestroyTypes, StreamHangUp DEF Finish, Cleanup
<1>5. ASSUME NEW p \in Party, Kill(p) PROVE Streams'
  BY <1>5, StreamHangUp DEF Kill, Dies
<1>6. "daemon" \in Party /\ "server" \in Party
  BY DEF Party
<1>7. ASSUME CleanupWild PROVE Streams'
  BY <1>6, <1>7, StreamHangUp DEF CleanupWild, Dies
<1>8. ASSUME NEW p \in Party,
             \/ Create(p) \/ Open(p) \/ Prepare(p) \/ RecvEof(p) \/ Shutdown(p)
             \/ LinkError(p) \/ Interrupted(p) \/ CallError(p)
      PROVE  UNCHANGED <<sent, got, printed, net, gone>>
  BY <1>8 DEF Create, Open, Prepare, RecvEof, Shutdown, LinkError, CallError, Fails,
              Interrupted, partyVars, netVars
<1>9. ASSUME Listen \/ Connect \/ Accept \/ UNCHANGED vars
      PROVE  UNCHANGED <<sent, got, printed, net, gone>>
  BY <1>9 DEF Listen, Connect, Accept, vars, partyVars, netVars
<1> QED
  BY <1>1, <1>2, <1>3, <1>4, <1>5, <1>6, <1>7, <1>8, <1>9, Zenon
     DEF Next, Daemon, Server, PartyStep, Settled

-----------------------------------------------------------------------------
(* What a party knows of the other.                                         *)

\* p takes a step.
LEMMA ToldBy ==
  ASSUME \A r \in Party : Told(r), NEW p \in Party, NEW q \in Party, q = Peer(p),
         pc'[q] = pc[q], err'[q] = err[q], printed'[q] = printed[q],
         fin' \subseteq fin \cup {p},
         ReadOrFailed(p) \/ p \in fin' => ReadOrFailed(p)',
         pc'[p] \in AfterRecv(p) => printed'[p] # <<>>,
         pc'[p] = "cleanup" => err'[p] # "OK",
         pc'[p] = "close" \/ (pc'[p] = "done" /\ err'[p] = "OK") => ReadOrFailed(q)
  PROVE  \A r \in Party : Told(r)'
<1>1. p = Peer(q) /\ p # q /\ \A r \in Party : r = p \/ r = q
  BY TwoParties, Zenon
<1>2. ReadOrFailed(q)' <=> ReadOrFailed(q)
  BY Zenon DEF ReadOrFailed, Failed
<1>3. AfterRecv(p)' = AfterRecv(p) /\ AfterRecv(q)' = AfterRecv(q)
  BY Zenon DEF AfterRecv
<1>4. Told(p)'
  BY <1>2, <1>3, Zenon DEF Told, Peer
<1>5. Told(q) /\ (q \in fin' => q \in fin) /\ (ReadOrFailed(p) => ReadOrFailed(p)')
  BY <1>1
<1>6. Told(q)'
  <2>1. /\ pc'[q] \in AfterRecv(q) => printed'[q] # <<>>
        /\ pc'[q] = "cleanup" => err'[q] # "OK"
        /\ q \in fin' => ReadOrFailed(q)'
    BY <1>2, <1>5 DEF Told
  <2>2. pc'[q] = "close" \/ (pc'[q] = "done" /\ err'[q] = "OK") => ReadOrFailed(p)'
    BY <1>1, <1>5, Zenon DEF Told
  <2> QED
    BY <1>1, <1>3, <2>1, <2>2, Zenon DEF Told, Peer
<1> QED
  BY <1>1, <1>4, <1>6, Zenon

\* p goes on to its next call, which is not the receiving of a message.
LEMMA ToldCall ==
  ASSUME TypeOK, \A r \in Party : Told(r), NEW p \in Party, UNCHANGED <<err, printed, fin>>,
         pc[p] \notin Ended \cup {"cleanup", "close", "recv", "drain"},
         pc'[p] = After(p, pc[p]), \A r \in Party \ {p} : pc'[r] = pc[r]
  PROVE  \A r \in Party : Told(r)'
<1>1. PICK q \in Party : q = Peer(p) /\ q # p
  BY TwoParties
<1>2. pc[p] \in CallsOf(p)
  BY DEF TypeOK, PlaceTypes, Places
<1>3. /\ pc'[p] \notin Ended \cup {"cleanup", "close"}
      /\ pc'[p] \in AfterRecv(p) => pc[p] \in AfterRecv(p)
  <2>1. CASE p = "daemon"
    BY <1>2, <2>1, DaemonScript DEF Ended, AfterRecv
  <2>2. CASE p = "server"
    BY <1>2, <2>2, ServerScript DEF Ended, AfterRecv
  <2> QED
    BY <2>1, <2>2 DEF Party
<1>4. ReadOrFailed(p) => printed'[p] # <<>>
  BY DEF ReadOrFailed, Failed, Ended
<1>5. p \in fin' => ReadOrFailed(p)
  BY DEF Told
<1>6. ReadOrFailed(p) \/ p \in fin' => ReadOrFailed(p)'
  BY <1>4, <1>5, Zenon DEF ReadOrFailed
<1>7. pc'[p] \in AfterRecv(p) => printed'[p] # <<>>
  BY <1>3 DEF Told
<1>8. pc'[p] # "cleanup" /\ pc'[p] # "close" /\ pc'[p] # "done"
  BY <1>3 DEF Ended
<1> QED
  BY <1>1, <1>6, <1>7, <1>8, ToldBy, Zenon

\* p fails or ends after a failure.
LEMMA ToldFailure ==
  ASSUME TypeOK, \A r \in Party : Told(r), NEW p \in Party, printed' = printed,
         fin' \subseteq fin \cup {p},
         \A r \in Party \ {p} : pc'[r] = pc[r] /\ err'[r] = err[r],
         \/ pc'[p] \in {"killed", "crashed"}
         \/ pc'[p] \in {"cleanup", "done"} /\ err'[p] # "OK"
  PROVE  \A r \in Party : Told(r)'
<1>1. PICK q \in Party : q = Peer(p) /\ q # p
  BY TwoParties
<1>2. ReadOrFailed(p)'
  BY DEF ReadOrFailed, Failed
<1>3. /\ pc'[p] \notin AfterRecv(p) /\ pc'[p] # "close"
      /\ pc'[p] = "cleanup" => err'[p] # "OK"
      /\ ~(pc'[p] = "done" /\ err'[p] = "OK")
  BY DEF AfterRecv
<1> QED
  BY <1>1, <1>2, <1>3, ToldBy, Zenon

\* Every step keeps it.
LEMMA ToldStep ==
  ASSUME TypeOK, Streams, \A p \in Party : Told(p), [Next]_vars
  PROVE  \A p \in Party : Told(p)'
<1>1. ASSUME UNCHANGED <<pc, err, printed, fin>> PROVE \A r \in Party : Told(r)'
  BY <1>1 DEF Told, ReadOrFailed, Failed, AfterRecv, Peer
<1>2. ASSUME NEW p \in Party, Create(p) PROVE \A r \in Party : Told(r)'
  <2>1. /\ UNCHANGED <<printed, fin>> /\ pc[p] = "create"
        /\ pc[p] \notin Ended \cup {"cleanup", "close", "recv", "drain"}
    BY <1>2 DEF Create, netVars, Ended
  <2>2. CASE err' = err /\ Returns(p)
    BY <2>1, <2>2, ReturnsTo, ToldCall, Zenon
  <2>3. CASE err' = [err EXCEPT ![p] = "FAIL"] /\ Goes(p, "cleanup")
    <3>1. pc'[p] = "cleanup" /\ \A r \in Party \ {p} : pc'[r] = pc[r]
      BY <2>3, GoesTo DEF Places
    <3>2. err'[p] = "FAIL" /\ \A r \in Party \ {p} : err'[r] = err[r]
      BY <2>3 DEF TypeOK
    <3> QED
      BY <2>1, <3>1, <3>2, ToldFailure
  <2> QED
    BY <1>2, <2>2, <2>3 DEF Create
<1>3. ASSUME NEW p \in Party, Open(p) \/ Prepare(p) PROVE \A r \in Party : Told(r)'
  <2>1. /\ UNCHANGED <<err, printed, fin>> /\ Returns(p)
        /\ pc[p] \notin Ended \cup {"cleanup", "close", "recv", "drain"}
    BY <1>3 DEF Open, Prepare, netVars, Ended
  <2> QED
    BY <2>1, ReturnsTo, ToldCall, Zenon
<1>4. ASSUME Listen \/ Connect \/ Accept PROVE \A r \in Party : Told(r)'
  <2>1. PICK p \in Party :
          /\ UNCHANGED <<err, printed, fin>> /\ Returns(p)
          /\ pc[p] \notin Ended \cup {"cleanup", "close", "recv", "drain"}
    BY <1>4 DEF Listen, Connect, Accept, netVars, Ended, Party
  <2> QED
    BY <2>1, ReturnsTo, ToldCall, Zenon
<1>5. ASSUME NEW p \in Party, Send(p) PROVE \A r \in Party : Told(r)'
  <2>1. /\ UNCHANGED <<err, printed, fin>>
        /\ pc' = pc \/ Returns(p)
        /\ pc[p] \notin Ended \cup {"cleanup", "close", "recv", "drain"}
    BY <1>5 DEF Send, Ended
  <2>2. CASE pc' = pc
    BY <1>1, <2>1, <2>2
  <2>3. CASE Returns(p)
    BY <2>1, <2>3, ReturnsTo, ToldCall, Zenon
  <2> QED
    BY <2>1, <2>2, <2>3
<1>6. ASSUME NEW p \in Party, Recv(p) PROVE \A r \in Party : Told(r)'
  <2>1. PICK q \in Party : q = Peer(p) /\ q # p
    BY TwoParties
  <2>2. /\ UNCHANGED <<err, fin>> /\ pc[p] \in {"recv", "drain"}
        /\ \/ UNCHANGED <<pc, printed>>
           \/ /\ \E buf : printed' = [printed EXCEPT ![p] = Append(@, buf)]
              /\ pc' = pc \/ (pc[p] = "recv" /\ Returns(p))
    BY <1>6, Zenon DEF Recv
  <2>3. ASSUME NEW buf, printed' = [printed EXCEPT ![p] = Append(@, buf)],
               pc' = pc \/ (pc[p] = "recv" /\ Returns(p))
        PROVE  \A r \in Party : Told(r)'
    <3>1. printed'[p] = Append(printed[p], buf) /\ printed'[q] = printed[q]
      BY <2>1, <2>3 DEF TypeOK
    <3>2. printed'[p] # <<>>
      <4>1. printed[p] = <<>>
        <5>1. Stream(q, p)
          BY <2>1, Zenon DEF Streams
        <5> QED
          BY <1>6, <2>1, <5>1, StreamRecv, Zenon
      <4> QED
        BY <3>1, <4>1
    <3>3. ReadOrFailed(p)'
      BY <3>2, Zenon DEF ReadOrFailed
    <3>4. pc'[q] = pc[q] /\ pc'[p] \notin {"cleanup", "close", "done"}
      <4>1. CASE pc' = pc
        BY <2>2, <4>1
      <4>2. CASE pc[p] = "recv" /\ Returns(p)
        <5>1. pc'[p] = After(p, "recv") /\ pc'[q] = pc[q]
          BY <2>1, <4>2, ReturnsTo DEF Ended
        <5> QED
          BY <5>1, DaemonScript, ServerScript DEF Party
      <4> QED
        BY <2>3, <4>1, <4>2
    <3>5. /\ pc'[q] = pc[q] /\ err'[q] = err[q] /\ printed'[q] = printed[q]
          /\ fin' \subseteq fin \cup {p} /\ ReadOrFailed(p)'
          /\ pc'[p] \in AfterRecv(p) => printed'[p] # <<>>
          /\ pc'[p] = "cleanup" => err'[p] # "OK"
          /\ pc'[p] = "close" \/ (pc'[p] = "done" /\ err'[p] = "OK") => ReadOrFailed(q)
      BY <2>1, <2>2, <3>1, <3>2, <3>3, <3>4
    <3> QED
      BY <2>1, <3>5, ToldBy, Zenon
  <2> QED
    BY <1>1, <2>2, <2>3
<1>7. ASSUME NEW p \in Party, RecvEof(p) PROVE \A r \in Party : Told(r)'
  <2>1. PICK q \in Party : q = Peer(p) /\ q # p
    BY TwoParties
  <2>2. UNCHANGED <<printed, fin>> /\ pc[p] \in {"recv", "drain"} /\ q \in fin
    BY <1>7, <2>1, Zenon DEF RecvEof, netVars
  <2>3. CASE pc[p] = "drain" /\ Returns(p) /\ err' = err
    <3>1. pc'[p] = After(p, "drain") /\ pc'[q] = pc[q]
      BY <2>1, <2>3, ReturnsTo DEF Ended
    <3>2. pc'[p] = "close"
      BY <3>1, DaemonScript, ServerScript DEF Party
    <3>3. printed[p] # <<>> /\ ReadOrFailed(q)
      BY <2>2, <2>3 DEF Told, AfterRecv
    <3>4. ReadOrFailed(p)'
      BY <2>2, <3>3 DEF ReadOrFailed
    <3>5. /\ pc'[q] = pc[q] /\ err'[q] = err[q] /\ printed'[q] = printed[q]
          /\ fin' \subseteq fin \cup {p}
      BY <2>2, <2>3, <3>1
    <3>6. /\ pc'[p] \in AfterRecv(p) => printed'[p] # <<>>
          /\ pc'[p] = "cleanup" => err'[p] # "OK"
          /\ pc'[p] = "close" \/ (pc'[p] = "done" /\ err'[p] = "OK") => ReadOrFailed(q)
      BY <2>2, <3>2, <3>3
    <3> QED
      BY <2>1, <3>4, <3>5, <3>6, ToldBy, Zenon
  <2>4. CASE Goes(p, "cleanup") /\ err' = [err EXCEPT ![p] = "CLOSE"]
    <3>1. pc'[p] = "cleanup" /\ \A r \in Party \ {p} : pc'[r] = pc[r]
      BY <2>4, GoesTo DEF Places
    <3>2. err'[p] = "CLOSE" /\ \A r \in Party \ {p} : err'[r] = err[r]
      BY <2>4 DEF TypeOK
    <3> QED
      BY <2>2, <3>1, <3>2, ToldFailure
  <2> QED
    BY <1>7, <2>3, <2>4, Zenon DEF RecvEof
<1>8. ASSUME NEW p \in Party, Shutdown(p) PROVE \A r \in Party : Told(r)'
  <2>1. PICK q \in Party : q = Peer(p) /\ q # p
    BY TwoParties
  <2>2. UNCHANGED <<err, printed>> /\ fin' = fin \cup {p} /\ pc[p] = "shutdown" /\ Returns(p)
    BY <1>8 DEF Shutdown
  <2>3. pc'[p] = After(p, "shutdown") /\ pc'[q] = pc[q]
    BY <2>1, <2>2, ReturnsTo DEF Ended
  <2>4. pc'[p] = "drain"
    BY <2>3, DaemonScript, ServerScript DEF Party
  <2>5. printed'[p] # <<>>
    BY <2>2 DEF Told, AfterRecv
  <2>6. ReadOrFailed(p)'
    BY <2>5 DEF ReadOrFailed
  <2>7. /\ pc'[q] = pc[q] /\ err'[q] = err[q] /\ printed'[q] = printed[q]
        /\ fin' \subseteq fin \cup {p} /\ ReadOrFailed(p)'
        /\ pc'[p] \in AfterRecv(p) => printed'[p] # <<>>
        /\ pc'[p] = "cleanup" => err'[p] # "OK"
        /\ pc'[p] = "close" \/ (pc'[p] = "done" /\ err'[p] = "OK") => ReadOrFailed(q)
    BY <2>1, <2>2, <2>3, <2>4, <2>5, <2>6
  <2> QED
    BY <2>1, <2>7, ToldBy, Zenon
<1>9. ASSUME NEW p \in Party, LinkError(p) \/ CallError(p) PROVE \A r \in Party : Told(r)'
  <2>1. /\ UNCHANGED <<printed, fin>> /\ Goes(p, "cleanup")
        /\ err' = [err EXCEPT ![p] = "FAIL"]
    BY <1>9 DEF LinkError, CallError, Fails, netVars
  <2>2. pc'[p] = "cleanup" /\ \A r \in Party \ {p} : pc'[r] = pc[r]
    BY <2>1, GoesTo DEF Places
  <2>3. err'[p] = "FAIL" /\ \A r \in Party \ {p} : err'[r] = err[r]
    BY <2>1 DEF TypeOK
  <2> QED
    BY <2>1, <2>2, <2>3, ToldFailure
<1>10. ASSUME NEW p \in Party, Finish(p) \/ Cleanup(p) PROVE \A r \in Party : Told(r)'
  <2>1. DestroySockets(p) /\ Goes(p, "done") /\ UNCHANGED <<err, printed>>
    BY <1>10 DEF Finish, Cleanup
  <2>2. pc'[p] = "done" /\ \A r \in Party \ {p} : pc'[r] = pc[r]
    BY <2>1, GoesTo DEF Places, Ended
  <2>3. fin' \subseteq fin \cup {p}
    BY <2>1, DestroyTypes, HangUpTypes
  <2>4. CASE pc[p] = "cleanup"
    <3>1. err'[p] # "OK"
      BY <2>1, <2>4 DEF Told
    <3> QED
      BY <2>1, <2>2, <2>3, <3>1, ToldFailure
  <2>5. CASE pc[p] = "close"
    <3>1. PICK q \in Party : q = Peer(p) /\ q # p
      BY TwoParties
    <3>2. printed'[p] # <<>> /\ ReadOrFailed(q)
      BY <2>1, <2>5, <3>1 DEF Told, AfterRecv
    <3>3. ReadOrFailed(p)'
      BY <3>2 DEF ReadOrFailed
    <3>4. /\ pc'[q] = pc[q] /\ err'[q] = err[q] /\ printed'[q] = printed[q]
          /\ fin' \subseteq fin \cup {p} /\ ReadOrFailed(p)'
          /\ pc'[p] \in AfterRecv(p) => printed'[p] # <<>>
          /\ pc'[p] = "cleanup" => err'[p] # "OK"
          /\ pc'[p] = "close" \/ (pc'[p] = "done" /\ err'[p] = "OK") => ReadOrFailed(q)
      BY <2>1, <2>2, <2>3, <3>1, <3>2, <3>3
    <3> QED
      BY <3>1, <3>4, ToldBy, Zenon
  <2> QED
    BY <1>10, <2>4, <2>5 DEF Finish, Cleanup
<1>11. ASSUME NEW p \in Party, NEW how \in {"killed", "crashed"}, Dies(p, how)
       PROVE  \A r \in Party : Told(r)'
  <2>1. pc'[p] = how /\ \A r \in Party \ {p} : pc'[r] = pc[r]
    BY <1>11, GoesTo DEF Dies, Places, Ended
  <2>2. fin' \subseteq fin \cup {p} /\ UNCHANGED <<err, printed>>
    BY <1>11, HangUpTypes DEF Dies
  <2> QED
    BY <2>1, <2>2, ToldFailure
<1>12. ASSUME NEW p \in Party, Interrupted(p) \/ UNCHANGED vars
       PROVE  UNCHANGED <<pc, err, printed, fin>>
  BY <1>12 DEF Interrupted, vars, partyVars, netVars
<1>13. "daemon" \in Party /\ "server" \in Party
  BY DEF Party
<1>14. ASSUME CleanupWild PROVE \A r \in Party : Told(r)'
  BY <1>11, <1>13, <1>14 DEF CleanupWild
<1>15. ASSUME NEW p \in Party, Kill(p) PROVE \A r \in Party : Told(r)'
  BY <1>11, <1>15 DEF Kill
<1> QED
  BY <1>1, <1>2, <1>3, <1>4, <1>5, <1>6, <1>7, <1>8, <1>9, <1>10, <1>12, <1>13, <1>14,
     <1>15, Zenon DEF Next, Daemon, Server, PartyStep, Settled

-----------------------------------------------------------------------------
(* The session.                                                             *)

\* The invariant holds before either party has called anything.
LEMMA InitIInv == Init => IInv
<1> SUFFICES ASSUME Init PROVE IInv
  OBVIOUS
<1>1. TypeOK
  <2>1. PlaceTypes
    <3>1. "create" \in Places("daemon") /\ "create" \in Places("server")
      BY DaemonScript, ServerScript DEF Places
    <3> QED
      BY <3>1 DEF Init, PlaceTypes, Party
  <2>2. SockTypes
    BY PointersOf DEF Init, SockTypes, SockState, Party
  <2>3. err \in [Party -> {"OK", "FAIL", "CLOSE"}]
    <3>1. \A e \in ErrAtStart : e \in {"OK", "FAIL", "CLOSE"}
      BY SessionAssumption
    <3>2. err \in [Party -> ErrAtStart]
      BY DEF Init
    <3> QED
      BY <3>1, <3>2
  <2>4. sent \in [Party -> 0..Size]
    BY SessionAssumption DEF Init
  <2>5. /\ got \in [Party -> Seq(Byte)] /\ net \in [Party -> Seq(Byte)]
        /\ printed \in [Party -> Seq(Seq(Byte))]
    BY DEF Init
  <2> QED
    BY <2>1, <2>2, <2>3, <2>4, <2>5 DEF Init, TypeOK
<1>2. Streams
  <2>1. ASSUME NEW p \in Party PROVE Stream(Peer(p), p)
    <3>1. PICK q \in Party : q = Peer(p)
      BY TwoParties
    <3>2. got[p] = <<>> /\ net[q] = <<>> /\ printed[p] = <<>> /\ sent[q] = 0 /\ p \notin gone
      BY DEF Init
    <3>3. Len(<<>>) = 0 /\ 1..0 = {} /\ 0 + 0 = 0 /\ 0 <= 0
      OBVIOUS
    <3> QED
      BY <3>1, <3>2, <3>3, Zenon DEF Stream
  <2> QED
    BY <2>1 DEF Streams
<1>3. ASSUME NEW p \in Party PROVE Sockets(p)
  BY PointersOf DEF Init, Sockets, Party, Ended
<1>4. ASSUME NEW p \in Party PROVE Told(p)
  BY DEF Init, Told, AfterRecv
<1> QED
  BY <1>1, <1>2, <1>3, <1>4 DEF IInv

\* Every step of either party, the network and the kernel keeps it.
LEMMA NextIInv == IInv /\ [Next]_vars => IInv'
<1> SUFFICES ASSUME IInv, [Next]_vars PROVE IInv'
  OBVIOUS
<1>1. TypeOK'
  BY TypeStep DEF IInv
<1>2. Streams'
  BY StreamsStep DEF IInv
<1>3. \A p \in Party : Sockets(p)'
  BY SocketsStep DEF IInv
<1>4. \A p \in Party : Told(p)'
  BY ToldStep DEF IInv
<1> QED
  BY <1>1, <1>2, <1>3, <1>4 DEF IInv

\* The inductive invariant of the session.
THEOREM Inductive == Spec => []IInv
BY InitIInv, NextIInv, PTL DEF Spec

\* Whatever the size of the message, however jfs_ns_socket_send and
\* jfs_ns_socket_recv cut it, and whoever fails or dies in between: what a
\* party prints is the other's message, whole, and at most once.
THEOREM MessagesArriveIntact == Spec => []MessagesIntact
<1>1. IInv => MessagesIntact
  BY Zenon DEF IInv, Streams, Stream, MessagesIntact
<1> QED
  BY Inductive, <1>1, PTL

\* A party whose run ends with a safe shutdown has had its message read, unless
\* the other failed: the stream whose end it waits for ends after the reading.
THEOREM ShutdownIsSafe == Spec => []SafeShutdownDelivers
<1>1. IInv => SafeShutdownDelivers
  BY Zenon DEF IInv, Told, ReadOrFailed, SafeShutdownDelivers
<1> QED
  BY Inductive, <1>1, PTL

\* On every path through run, whichever calls fail, no descriptor is forgotten:
\* the open ones are those in the socket pointers, and none is left when run
\* returns.
THEOREM SocketsAreExact == Spec => []SocketsExact
<1>1. IInv => SocketsExact
  BY Zenon DEF IInv, Sockets, SocketsExact
<1> QED
  BY Inductive, <1>1, PTL

=============================================================================
