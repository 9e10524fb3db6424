--------------------------- MODULE IccpStageProofs ---------------------------
(***************************************************************************)
(* The synchronisation of an MC-LAG session, proved for any number of      *)
(* connection slots and any bounds: the stages of the two nodes agree, no  *)
(* message of a synchronisation is dropped, and a port whose configuration *)
(* was sent is known to the peer.                                          *)
(*                                                                         *)
(* None of the three is inductive.  What a node does next depends on what  *)
(* is still under way to it, so the invariant (SyncInv) says for each pair *)
(* of stages which messages may be in a node's queue and socket, and in    *)
(* which order; it needs in turn that a connection in the listen queue     *)
(* carries nothing but ICCP messages of a client that cannot become        *)
(* operational (TcpInv).                                                   *)
(***************************************************************************)
EXTENDS IccpSessionProofs


(***************************************************************************)
(* The connections: every step keeps TcpInv.                               *)
(***************************************************************************)
\* The entries of the listen queue after the first one is taken.
LEMMA BacklogTail ==
  ASSUME NEW b \in Seq(Conn), b # <<>>, Distinct(b)
  PROVE  /\ Head(b) \in Conn /\ Head(b) = b[1] /\ 1 \in 1..Len(b)
         /\ Distinct(Tail(b))
         /\ \A i \in 1..Len(Tail(b)) :
              /\ Tail(b)[i] # Head(b)
              /\ i + 1 \in 1..Len(b) /\ Tail(b)[i] = b[i + 1]
<1> DEFINE t == Tail(b)
<1>1. /\ Len(t) = Len(b) - 1 /\ Len(b) \in Nat \ {0}
      /\ Head(b) = b[1] /\ Head(b) \in Conn
      /\ \A i \in 1..Len(t) : t[i] = b[i + 1]
  BY TailIndex
<1> HIDE DEF t
<1>2. 1 \in 1..Len(b) /\ \A i \in 1..Len(t) : i + 1 \in 1..Len(b) /\ i + 1 # 1
  BY <1>1
<1>3. \A i \in 1..Len(t) : t[i] # b[1] BY <1>1, <1>2 DEF Distinct
<1>4. Distinct(t)
  <2> SUFFICES ASSUME NEW i \in 1..Len(t), NEW j \in 1..Len(t), t[i] = t[j]
               PROVE  i = j
    BY DEF Distinct
  <2>1. i + 1 = j + 1 BY <1>1, <1>2 DEF Distinct
  <2> QED BY <1>1, <2>1
<1> QED BY <1>1, <1>2, <1>3, <1>4 DEF t

\* Sending on a socket, when a connection that waits gets ICCP messages only.
LEMMA DeliverTcp ==
  ASSUME TypeOK, TcpInv, NEW n \in Node, NEW out \in Seq(Msgs), sock[n] # NoConn,
         Deliver(n, out), UNCHANGED <<open, backlog, sock>>,
         \A i \in 1..Len(backlog) :
           sock[n] = backlog[i] => /\ n = Active /\ Only(out, IccpMsgs)
                                   /\ iccp'[n] \in {"INITIALIZED", "CAPSENT"}
                                   /\ ~info'[n].peer_cap
                                   /\ iccpq'[n] = <<>> /\ mlacpq'[n] = <<>>,
         \A m \in Node : m # n => /\ iccp'[m] = iccp[m] /\ info'[m] = info[m]
                                  /\ iccpq'[m] = iccpq[m]
                                  /\ mlacpq'[m] = mlacpq[m]
  PROVE  TcpInv'
<1> DEFINE c == sock[n]
           p == Peer(n)
<1>1. c \in Conn /\ p \in Node /\ p # n BY PeerNode DEF TypeOK
<1>2. /\ \A d \in Conn, m \in Node : (d # c \/ m # p) => wire'[d][m] = wire[d][m]
      /\ wire'[c][p] = IF p \in open[c] THEN wire[c][p] \o out ELSE wire[c][p]
  <2>1. CASE p \in open[c]
    <3>1. wire' = [wire EXCEPT ![c][p] = wire[c][p] \o out]
      BY <2>1 DEF Deliver
    <3> HIDE DEF c, p
    <3> QED BY <1>1, <2>1, <3>1, ZenonT(30) DEF TypeOK
  <2>2. CASE p \notin open[c]
    <3>1. wire' = wire BY <2>2 DEF Deliver
    <3> HIDE DEF c, p
    <3> QED BY <2>2, <3>1
  <2> QED BY <2>1, <2>2
<1>3. open' = open /\ sock' = sock /\ backlog' = backlog OBVIOUS
<1>4. WiresOk'
  <2> HIDE DEF c, p
  <2> QED BY <1>2, <1>3 DEF WiresOk, TcpInv
<1>5. SocketsOk'
  <2>1. c = sock[n] OBVIOUS
  <2> HIDE DEF c, p
  <2> QED BY <1>3, <2>1, Zenon DEF SocketsOk, TcpInv
<1>6. ASSUME NEW i \in 1..Len(backlog) 
      PROVE  WaitsIn(backlog[i], open', sock', wire', iccp', info', iccpq', mlacpq')
  <2> DEFINE d == backlog[i]
  <2>1. d \in Conn BY DEF TypeOK
  <2>2. WaitsIn(d, open, sock, wire, iccp, info, iccpq, mlacpq)
    BY DEF TcpInv, BacklogOk
  <2>3. Active \in Node /\ Standby \in Node /\ NodesDiffer
    BY NodesDiffer, Zenon DEF Node
  <2>4. CASE c = d
    <3>1. /\ n = Active /\ Only(out, IccpMsgs)
          /\ iccp'[n] \in {"INITIALIZED", "CAPSENT"} /\ ~info'[n].peer_cap
          /\ iccpq'[n] = <<>> /\ mlacpq'[n] = <<>>
      BY <2>4
    <3>2. p = Standby BY <3>1, Zenon DEF Peer
    <3>3. wire[d][Standby] \in Seq(Msgs) BY <2>1, <2>3, SMTT(20) DEF TypeOK
    <3>4. Only(wire'[d][Standby], IccpMsgs)
      <4> HIDE DEF c, d, p
      <4>1. Only(wire[d][Standby] \o out, IccpMsgs)
        BY <2>2, <3>1, <3>3, CatOnly, SMTT(20) DEF WaitsIn
      <4> QED BY <1>2, <2>2, <2>4, <3>2, <4>1, ZenonT(30) DEF WaitsIn
    <3>5. wire'[d][Active] = <<>>
      <4> HIDE DEF c, d, p
      <4> QED BY <1>2, <2>1, <2>2, <2>3, <3>2, NodesDiffer, SMTT(20)
                 DEF WaitsIn
    <3> HIDE DEF d
    <3> QED BY <1>3, <2>1, <2>2, <3>1, <3>4, <3>5 DEF WaitsIn, d
  <2>5. CASE c # d
    <3>1. \A m \in Node : wire'[d][m] = wire[d][m]
      <4> HIDE DEF c, d, p
      <4> QED BY <1>2, <2>1, <2>5
    <3>2. n = Active => sock[Active] # d BY <2>5
    <3> HIDE DEF d
    <3> QED BY <1>3, <2>1, <2>2, <2>3, <3>1, <3>2 DEF WaitsIn, d
  <2> QED BY <2>4, <2>5, Zenon
<1>7. BacklogOk'
  <2>1. Distinct(backlog) BY DEF TcpInv, BacklogOk
  <2> QED BY <1>3, <1>6, <2>1 DEF BacklogOk
<1> QED BY <1>4, <1>5, <1>7 DEF TcpInv

\* A socket that waits in the listen queue is the client's, below
\* operational.
LEMMA WaitingClient ==
  ASSUME TypeOK, TcpInv, NEW n \in Node, NEW i \in 1..Len(backlog),
         sock[n] = backlog[i]
  PROVE  /\ n = Active /\ iccp[n] \in {"INITIALIZED", "CAPSENT"}
         /\ ~info[n].peer_cap /\ iccpq[n] = <<>> /\ mlacpq[n] = <<>>
         /\ wire[sock[n]][n] = <<>>
  BY NodesDiffer DEF TcpInv, BacklogOk, WaitsIn, Node

\* Closing one end of connection c, which is not waiting or was taken from
\* the listen queue.
LEMMA CloseTcp ==
  ASSUME TypeOK, TcpInv, NEW n \in Node, NEW X \in SUBSET Conn,
         open' = [c \in Conn |-> IF c \in X THEN open[c] \ {n} ELSE open[c]],
         wire' = [c \in Conn |-> IF c \in X THEN [wire[c] EXCEPT ![n] = <<>>]
                                            ELSE wire[c]],
         sock'[n] = NoConn => /\ ~info'[n].peer_cap /\ iccpq'[n] = <<>>
                              /\ mlacpq'[n] = <<>>,
         sock'[n] # NoConn => /\ sock'[n] = sock[n] /\ sock[n] \notin X
                              /\ UNCHANGED <<iccp, info, iccpq, mlacpq>>,
         \A m \in Node : m # n => /\ sock'[m] = sock[m] /\ iccp'[m] = iccp[m]
                                  /\ info'[m] = info[m] /\ iccpq'[m] = iccpq[m]
                                  /\ mlacpq'[m] = mlacpq[m],
         backlog' \in Seq(Conn), Distinct(backlog'),
         \A i \in 1..Len(backlog') :
           /\ n = Standby => backlog'[i] \notin X
           /\ \E j \in 1..Len(backlog) : backlog'[i] = backlog[j]
  PROVE  TcpInv'
<1>1. \A c \in Conn :
        /\ \A m \in Node : m # n => (m \in open'[c] <=> m \in open[c])
                                    /\ wire'[c][m] = wire[c][m]
        /\ c \in X => n \notin open'[c] /\ wire'[c][n] = <<>>
        /\ c \notin X => open'[c] = open[c] /\ wire'[c] = wire[c]
  BY DEF TypeOK
<1>2. WiresOk'
  <2> SUFFICES ASSUME NEW c \in Conn, NEW m \in Node, m \notin open'[c]
               PROVE  wire'[c][m] = <<>>
    BY DEF WiresOk
  <2>1. m \notin open[c] => wire[c][m] = <<>> BY DEF TcpInv, WiresOk
  <2>2. CASE m # n BY <1>1, <2>1, <2>2
  <2>3. CASE m = n BY <1>1, <2>1, <2>3, ZenonT(30)
  <2> QED BY <2>2, <2>3
<1>3. SocketsOk'
  <2> SUFFICES ASSUME NEW m \in Node
               PROVE  /\ sock'[m] = NoConn => mlacpq'[m] = <<>> /\ iccpq'[m] = <<>>
                                              /\ ~info'[m].peer_cap
                      /\ sock'[m] # NoConn => m \in open'[sock'[m]]
    BY DEF SocketsOk
  <2>1. CASE m # n
    <3>1. sock[m] # NoConn => sock[m] \in Conn BY DEF TypeOK
    <3> QED BY <1>1, <2>1, <3>1 DEF TcpInv, SocketsOk
  <2>2. CASE m = n
    <3>1. sock[n] # NoConn => sock[n] \in Conn BY DEF TypeOK
    <3> QED BY <1>1, <2>2, <3>1 DEF TcpInv, SocketsOk
  <2> QED BY <2>1, <2>2
<1>4. ASSUME NEW i \in 1..Len(backlog') 
      PROVE  WaitsIn(backlog'[i], open', sock', wire', iccp', info', iccpq', mlacpq')
  <2>1. PICK j \in 1..Len(backlog) : backlog'[i] = backlog[j] OBVIOUS
  <2> DEFINE d == backlog[j]
  <2>2. d \in Conn /\ WaitsIn(d, open, sock, wire, iccp, info, iccpq, mlacpq)
    BY DEF TypeOK, TcpInv, BacklogOk
  <2>3. Active \in Node /\ Standby \in Node BY DEF Node
  <2>4. n = Standby => d \notin X BY <2>1
  <2>5. d # NoConn BY <2>2, NoConnFresh
  <2>6. backlog'[i] = d BY <2>1
  <2> HIDE DEF d
  <2>7. Standby \in open'[d] /\ wire'[d][Standby] = wire[d][Standby]
    BY <1>1, <2>2, <2>3, <2>4, ZenonT(30) DEF WaitsIn
  <2>8. wire'[d][Active] = <<>> BY <1>1, <2>2, <2>3 DEF WaitsIn
  <2>9. d # sock'[Standby]
    <3>1. CASE n = Standby BY <2>2, <2>5, <3>1 DEF WaitsIn
    <3>2. CASE n # Standby BY <2>2, <2>3, <3>2 DEF WaitsIn
    <3> QED BY <3>1, <3>2, Zenon
  <2>10. sock'[Active] = d =>
           /\ iccp'[Active] \in {"INITIALIZED", "CAPSENT"}
           /\ ~info'[Active].peer_cap /\ iccpq'[Active] = <<>>
           /\ mlacpq'[Active] = <<>>
    <3>1. CASE n = Active
      <4>1. sock'[Active] = d => /\ sock[Active] = d
                                 /\ UNCHANGED <<iccp, info, iccpq, mlacpq>>
        BY <2>5, <3>1
      <4> QED BY <2>2, <4>1 DEF WaitsIn
    <3>2. CASE n # Active BY <2>2, <2>3, <3>2 DEF WaitsIn
    <3> QED BY <3>1, <3>2
  <2> QED BY <2>2, <2>6, <2>7, <2>8, <2>9, <2>10 DEF WaitsIn
<1>5. BacklogOk' BY <1>4, Zenon DEF BacklogOk
<1> QED BY <1>2, <1>3, <1>5 DEF TcpInv

\* Reading a message.
LEMMA ReadTcp ==
  ASSUME TypeOK, TcpInv, NEW n \in Node, csm_read(n)
  PROVE  TcpInv'
<1> DEFINE c == sock[n]
<1>1. /\ c \in Conn /\ wire[c][n] # <<>>
      /\ UNCHANGED <<sock, open, backlog, iccp, info>>
  BY DEF csm_read, TypeOK
<1>2. \A i \in 1..Len(backlog) : c # backlog[i] BY <1>1, WaitingClient, Zenon
<1>3. /\ \A d \in Conn, m \in Node : (d # c \/ m # n) => wire'[d][m] = wire[d][m]
      /\ n \in open[c]
  <2>1. wire' = [wire EXCEPT ![c][n] = Tail(wire[c][n])] BY DEF csm_read
  <2>2. n \in open[c] BY Zenon DEF csm_read, TcpInv, SocketsOk
  <2> HIDE DEF c
  <2> QED BY <1>1, <2>1, <2>2, SMTT(20) DEF TypeOK
<1>4. \A m \in Node : m # n => iccpq'[m] = iccpq[m] /\ mlacpq'[m] = mlacpq[m]
  BY DEF csm_read, TypeOK
<1>5. WiresOk'
  <2> HIDE DEF c
  <2> QED BY <1>1, <1>3 DEF TcpInv, WiresOk
<1>6. SocketsOk'
  <2>1. sock[n] # NoConn BY DEF csm_read
  <2> QED BY <1>1, <1>4, <2>1 DEF TcpInv, SocketsOk
<1>7. BacklogOk'
  <2> SUFFICES ASSUME NEW i \in 1..Len(backlog)
               PROVE  WaitsIn(backlog[i], open', sock', wire', iccp', info', iccpq',
                              mlacpq')
    BY <1>1 DEF TcpInv, BacklogOk
  <2>1. WaitsIn(backlog[i], open, sock, wire, iccp, info, iccpq, mlacpq)
    BY DEF TcpInv, BacklogOk
  <2>2. backlog[i] \in Conn /\ backlog[i] # c BY <1>2 DEF TypeOK
  <2>3. \A m \in Node : wire'[backlog[i]][m] = wire[backlog[i]][m]
    <3> HIDE DEF c
    <3> QED BY <1>3, <2>2
  <2>4. n = Active => sock[Active] # backlog[i] BY <2>2
  <2>5. Active \in Node /\ Standby \in Node BY DEF Node
  <2> QED BY <1>1, <1>4, <2>1, <2>3, <2>4, <2>5, ZenonT(30) DEF WaitsIn
<1> QED BY <1>5, <1>6, <1>7 DEF TcpInv

\* A disconnect.
LEMMA DisconnectTcp ==
  ASSUME TypeOK, TcpInv, NEW n \in Node, session_disconnect(n)
  PROVE  TcpInv'
<1> DEFINE X == {sock[n]} \cap Conn
<1>1. /\ sock' = [sock EXCEPT ![n] = NoConn]
      /\ iccp' = [iccp EXCEPT ![n] = "NONEXISTENT"]
      /\ info' = [info EXCEPT ![n] = InfoReset]
      /\ iccpq' = [iccpq EXCEPT ![n] = <<>>] /\ mlacpq' = [mlacpq EXCEPT ![n] = <<>>]
      /\ backlog' = backlog
  BY DEF session_disconnect, socket_cleanup
<1>2. /\ open' = [c \in Conn |-> IF c \in X THEN open[c] \ {n} ELSE open[c]]
      /\ wire' = [c \in Conn |-> IF c \in X THEN [wire[c] EXCEPT ![n] = <<>>]
                                            ELSE wire[c]]
  <2>1. CASE sock[n] = NoConn
    <3>1. open' = open /\ wire' = wire
      BY <2>1 DEF session_disconnect, socket_cleanup
    <3>2. X = {} BY <2>1, NoConnFresh
    <3> HIDE DEF X
    <3> QED BY <3>1, <3>2, SMTT(20) DEF TypeOK
  <2>2. CASE sock[n] # NoConn
    <3>1. sock[n] \in Conn BY <2>2 DEF TypeOK
    <3>2. CloseEnd(n, sock[n])
      BY <2>2 DEF session_disconnect, socket_cleanup
    <3>3. \A c \in Conn : c \in X <=> c = sock[n] OBVIOUS
    <3> HIDE DEF X
    <3> QED BY <3>1, <3>2, <3>3, ZenonT(30) DEF CloseEnd, TypeOK
  <2> QED BY <2>1, <2>2
<1>3. \A m \in Node : m # n => /\ sock'[m] = sock[m] /\ iccp'[m] = iccp[m]
                               /\ info'[m] = info[m] /\ iccpq'[m] = iccpq[m]
                               /\ mlacpq'[m] = mlacpq[m]
  BY <1>1, SMTT(20) DEF TypeOK
<1>4. /\ sock'[n] = NoConn /\ ~info'[n].peer_cap /\ iccpq'[n] = <<>>
      /\ mlacpq'[n] = <<>>
  BY <1>1 DEF TypeOK, InfoReset
<1>5. backlog' \in Seq(Conn) /\ Distinct(backlog')
  BY <1>1 DEF TypeOK, TcpInv, BacklogOk
<1>6. ASSUME NEW i \in 1..Len(backlog')
      PROVE  /\ n = Standby => backlog'[i] \notin X
             /\ \E j \in 1..Len(backlog) : backlog'[i] = backlog[j]
  BY <1>1 DEF TcpInv, BacklogOk, WaitsIn
<1>7. X \in SUBSET Conn BY SMTT(20)
<1> HIDE DEF X
<1> QED BY <1>2, <1>3, <1>4, <1>5, <1>6, <1>7, CloseTcp, Zenon

\* A restart: the server's listen queue goes with the process.
LEMMA RestartTcp ==
  ASSUME TypeOK, TcpInv, NEW n \in Node, restart(n)
  PROVE  TcpInv'
<1> DEFINE mine == {sock[n]} \cup
                   (IF n = Standby THEN {backlog[i] : i \in 1..Len(backlog)} ELSE {})
           X == mine \cap Conn
<1>1. /\ sock' = [sock EXCEPT ![n] = NoConn]
      /\ iccp' = [iccp EXCEPT ![n] = "NONEXISTENT"]
      /\ info' = [info EXCEPT ![n] = InfoReset]
      /\ iccpq' = [iccpq EXCEPT ![n] = <<>>] /\ mlacpq' = [mlacpq EXCEPT ![n] = <<>>]
      /\ backlog' = IF n = Standby THEN <<>> ELSE backlog
      /\ open' = [c \in Conn |-> IF c \in mine THEN open[c] \ {n} ELSE open[c]]
      /\ wire' = [c \in Conn |-> IF c \in mine THEN [wire[c] EXCEPT ![n] = <<>>]
                                               ELSE wire[c]]
  BY DEF restart
<1>2. /\ open' = [c \in Conn |-> IF c \in X THEN open[c] \ {n} ELSE open[c]]
      /\ wire' = [c \in Conn |-> IF c \in X THEN [wire[c] EXCEPT ![n] = <<>>]
                                            ELSE wire[c]]
  <2>1. \A c \in Conn : c \in X <=> c \in mine OBVIOUS
  <2> HIDE DEF X, mine
  <2> QED BY <1>1, <2>1, SMTT(20)
<1>3. \A m \in Node : m # n => /\ sock'[m] = sock[m] /\ iccp'[m] = iccp[m]
                               /\ info'[m] = info[m] /\ iccpq'[m] = iccpq[m]
                               /\ mlacpq'[m] = mlacpq[m]
  BY <1>1, ZenonT(30) DEF TypeOK
<1>4. /\ sock'[n] = NoConn /\ ~info'[n].peer_cap /\ iccpq'[n] = <<>>
      /\ mlacpq'[n] = <<>>
  BY <1>1, SMTT(20) DEF TypeOK, InfoReset
<1>5. backlog' \in Seq(Conn) /\ Distinct(backlog')
  BY <1>1, SMTT(20) DEF TypeOK, TcpInv, BacklogOk, Distinct
<1>6. ASSUME NEW i \in 1..Len(backlog')
      PROVE  /\ n = Standby => backlog'[i] \notin X
             /\ \E j \in 1..Len(backlog) : backlog'[i] = backlog[j]
  <2>1. n # Standby BY <1>1
  <2> QED BY <1>1, <2>1, SMTT(20)
<1>7. X \in SUBSET Conn OBVIOUS
<1> HIDE DEF X, mine
<1> QED BY <1>2, <1>3, <1>4, <1>5, <1>6, <1>7, CloseTcp, Zenon

\* Accepting or refusing the connection at the head of the listen queue.
LEMMA AcceptTcp ==
  ASSUME TypeOK, TcpInv, LayerInv, NEW n \in Node, server_accept(n)
  PROVE  TcpInv'
<1> DEFINE h == Head(backlog)
<1>1. /\ n = Standby /\ backlog # <<>> /\ backlog' = Tail(backlog)
      /\ UNCHANGED <<info, iccpq, mlacpq>>
  BY DEF server_accept, appvars
<1>2. backlog \in Seq(Conn) /\ Distinct(backlog)
  BY DEF TypeOK, TcpInv, BacklogOk
<1>3. /\ h \in Conn /\ h = backlog[1] /\ 1 \in 1..Len(backlog)
      /\ Distinct(backlog')
      /\ \A i \in 1..Len(backlog') :
           /\ backlog'[i] # h
           /\ i + 1 \in 1..Len(backlog) /\ backlog'[i] = backlog[i + 1]
  BY <1>1, <1>2, BacklogTail, SMTT(20)
<1>4. WaitsIn(h, open, sock, wire, iccp, info, iccpq, mlacpq)
  BY <1>3 DEF TcpInv, BacklogOk
<1>5. backlog' \in Seq(Conn) BY <1>1, <1>2
<1>6. Active \in Node /\ Standby \in Node BY Zenon DEF Node
<1> HIDE DEF h
<1>7. CASE sock[n] # NoConn /\ CloseEnd(n, h) /\ UNCHANGED <<sock, iccp, role>>
  <2> DEFINE X == {h}
  <2>1. \A c \in Conn : c \in X <=> c = h OBVIOUS
  <2>2. X \in SUBSET Conn /\ sock[n] \notin X
    BY <1>1, <1>3, <1>4 DEF WaitsIn
  <2>3. \A i \in 1..Len(backlog') : backlog'[i] \notin X BY <1>3, Zenon
  <2> HIDE DEF X
  <2>4. /\ open' = [c \in Conn |-> IF c \in X THEN open[c] \ {n} ELSE open[c]]
        /\ wire' = [c \in Conn |-> IF c \in X THEN [wire[c] EXCEPT ![n] = <<>>]
                                              ELSE wire[c]]
    BY <1>3, <1>7, <2>1, ZenonT(30) DEF CloseEnd, TypeOK
  <2>5. \A i \in 1..Len(backlog') :
          \E j \in 1..Len(backlog) : backlog'[i] = backlog[j]
    BY <1>3
  <2>6. sock' = sock /\ UNCHANGED <<iccp, info, iccpq, mlacpq>> BY <1>1, <1>7
  <2> QED BY <1>3, <1>5, <1>7, <2>2, <2>3, <2>4, <2>5, <2>6, CloseTcp,
             ZenonT(30)
<1>8. CASE /\ sock[n] = NoConn /\ sock' = [sock EXCEPT ![n] = h]
           /\ iccp' = [iccp EXCEPT ![n] = "NONEXISTENT"]
           /\ UNCHANGED <<open, wire>>
  <2>1. sock'[n] = h /\ \A m \in Node : m # n => sock'[m] = sock[m] /\ iccp'[m] = iccp[m]
    BY <1>8 DEF TypeOK
  <2>2. WiresOk' BY <1>8 DEF TcpInv, WiresOk
  <2>3. SocketsOk'
    <3>1. h # NoConn /\ n \in open[h] BY <1>1, <1>3, <1>4, NoConnFresh, Zenon
                                         DEF WaitsIn
    <3> QED BY <1>1, <1>8, <2>1, <3>1 DEF TcpInv, SocketsOk
  <2>4. BacklogOk'
    <3> SUFFICES ASSUME NEW i \in 1..Len(backlog')
                 PROVE  WaitsIn(backlog'[i], open', sock', wire', iccp', info',
                                iccpq', mlacpq')
      BY <1>3 DEF BacklogOk
    <3>1. WaitsIn(backlog'[i], open, sock, wire, iccp, info, iccpq, mlacpq)
      BY <1>3, Zenon DEF TcpInv, BacklogOk
    <3>2. backlog'[i] # h BY <1>3
    <3> QED BY <1>1, <1>6, <1>8, <2>1, <3>1, <3>2, NodesDiffer, ZenonT(30)
               DEF WaitsIn
  <2> QED BY <2>2, <2>3, <2>4, ZenonT(30) DEF TcpInv
<1> QED BY <1>7, <1>8 DEF server_accept, h

\* The client connects.
LEMMA ConnectTcp ==
  ASSUME TypeOK, TcpInv, LayerInv, NEW n \in Node, transit_connect(n)
  PROVE  TcpInv'
<1>1. PICK c \in Conn : /\ open[c] = {} /\ sock' = [sock EXCEPT ![n] = c]
                        /\ open' = [open EXCEPT ![c] = Node]
                        /\ backlog' = Append(backlog, c)
  BY ZenonT(30) DEF transit_connect
<1>2. /\ n = Active /\ sock[n] = NoConn /\ UNCHANGED <<wire, mlacpq>>
      /\ iccp' = [iccp EXCEPT ![n] = "INITIALIZED"]
      /\ info' = [info EXCEPT ![n] = EnterState("INITIALIZED", info[n])]
      /\ Dequeue(n)
  BY DEF transit_connect, appvars
<1>3. mlacpq[n] = <<>> /\ iccpq[n] = <<>> /\ ~info[n].peer_cap
  BY <1>2 DEF TcpInv, SocketsOk
<1>4. iccpq' = iccpq BY <1>2, <1>3 DEF Dequeue, TypeOK
<1>5. ~info'[n].peer_cap
  <2>1. info[n] \in InfoRecords BY DEF TypeOK
  <2>2. info'[n] = [info[n] EXCEPT !.sender_cap = TRUE]
    BY <1>2 DEF EnterState, TypeOK
  <2> QED BY <1>3, <2>1, <2>2 DEF InfoRecords
<1>6. Active \in Node /\ Standby \in Node BY DEF Node
<1>7. \A m \in Node : wire[c][m] = <<>> BY <1>1, Zenon DEF TcpInv, WiresOk
<1>8. /\ sock'[n] = c /\ c # NoConn /\ iccp'[n] = "INITIALIZED"
      /\ \A m \in Node : m # n => /\ sock'[m] = sock[m] /\ iccp'[m] = iccp[m]
                                  /\ info'[m] = info[m]
      /\ open'[c] = Node /\ \A d \in Conn : d # c => open'[d] = open[d]
  BY <1>1, <1>2, NoConnFresh DEF TypeOK
<1>9. c # sock[Standby]
  <2>1. sock[Standby] = c => Standby \in open[c]
    BY <1>6, <1>8, Zenon DEF TcpInv, SocketsOk
  <2> QED BY <1>1, <2>1
<1>10. \A i \in 1..Len(backlog) : backlog[i] # c
  BY <1>1, Zenon DEF TcpInv, BacklogOk, WaitsIn
<1>11. WiresOk'
  <2> SUFFICES ASSUME NEW d \in Conn, NEW m \in Node, m \notin open'[d]
               PROVE  wire[d][m] = <<>>
    BY <1>2 DEF WiresOk
  <2> QED BY <1>8, Zenon DEF TcpInv, WiresOk
<1>12. SocketsOk'
  <2> SUFFICES ASSUME NEW m \in Node
               PROVE  /\ sock'[m] = NoConn => mlacpq'[m] = <<>> /\ iccpq'[m] = <<>>
                                              /\ ~info'[m].peer_cap
                      /\ sock'[m] # NoConn => m \in open'[sock'[m]]
    BY DEF SocketsOk
  <2>1. CASE m = n BY <1>8, <2>1
  <2>2. CASE m # n
    <3>1. sock[m] # NoConn => sock[m] \in Conn BY DEF TypeOK
    <3> QED BY <1>2, <1>4, <1>8, <2>2, <3>1 DEF TcpInv, SocketsOk
  <2> QED BY <2>1, <2>2
<1>13. BacklogOk'
  <2>1. /\ Len(backlog') = Len(backlog) + 1 /\ Len(backlog) \in Nat
        /\ \A i \in 1..Len(backlog) : backlog'[i] = backlog[i]
        /\ backlog'[Len(backlog) + 1] = c
    BY <1>1 DEF TypeOK
  <2>2. \A i \in 1..Len(backlog') : i \in 1..Len(backlog) \/ i = Len(backlog) + 1
    BY <2>1
  <2>3. Distinct(backlog')
    <3>1. Distinct(backlog) BY DEF TcpInv, BacklogOk
    <3> QED BY <1>10, <2>1, <2>2, <3>1 DEF Distinct
  <2>4. WaitsIn(c, open', sock', wire', iccp', info', iccpq', mlacpq')
    <3>1. Only(<<>>, IccpMsgs) BY SendsFew, Zenon
    <3> QED BY <1>2, <1>3, <1>4, <1>5, <1>6, <1>7, <1>8, <1>9, <3>1, NodesDiffer,
               ZenonT(30)
            DEF WaitsIn
  <2>5. ASSUME NEW i \in 1..Len(backlog)
        PROVE  WaitsIn(backlog[i], open', sock', wire', iccp', info', iccpq', mlacpq')
    <3>1. WaitsIn(backlog[i], open, sock, wire, iccp, info, iccpq, mlacpq)
          /\ backlog[i] \in Conn
      BY DEF TcpInv, BacklogOk, TypeOK
    <3>2. backlog[i] # c BY <1>10, Zenon
    <3> QED BY <1>2, <1>6, <1>8, <3>1, <3>2, NodesDiffer, ZenonT(30)
               DEF WaitsIn
  <2> QED BY <2>1, <2>2, <2>3, <2>4, <2>5, ZenonT(30) DEF BacklogOk
<1> QED BY <1>11, <1>12, <1>13, ZenonT(30) DEF TcpInv

\* The ICCP connection state machine sends ICCP messages, and a client that
\* was not heard stays in CAPSENT.
LEMMA Handshake ==
  ASSUME TypeOK, NEW n \in Node,
         \/ transit_initialized(n) \/ transit_capsent(n) \/ transit_caprec(n)
         \/ transit_connecting(n) \/ transit_operational(n)
  PROVE  \E s \in IccpStates, out \in Seq(Msgs) :
           /\ IccpStep(n, s, out) /\ Only(out, IccpMsgs)
           /\ (/\ iccp[n] \in {"INITIALIZED", "CAPSENT"}
               /\ ~info[n].peer_cap /\ iccpq[n] = <<>>) => s = "CAPSENT"
<1>1. \A x \in IccpMsgs : <<x>> \in Seq(Msgs) /\ Only(<<x>>, IccpMsgs)
  BY SendsFew, Zenon DEF Msgs
<1>2. <<>> \in Seq(Msgs) /\ Only(<<>>, IccpMsgs) BY SendsFew
<1>3. {"CAPABILITY", "RG_CONNECT", "NAK"} = IccpMsgs BY DEF IccpMsgs
<1>4. iccpq[n] = <<>> => Correspond(n) = info[n] BY DEF Correspond
<1>5. CASE transit_initialized(n)
  <2> DEFINE s == IF Correspond(n).peer_cap THEN "CAPREC" ELSE "CAPSENT"
  <2>1. IccpStep(n, s, <<"CAPABILITY">>) BY <1>5 DEF transit_initialized
  <2>2. s \in IccpStates BY DEF IccpStates
  <2>3. ~info[n].peer_cap /\ iccpq[n] = <<>> => s = "CAPSENT" BY <1>4
  <2> HIDE DEF s
  <2> QED BY <1>1, <1>3, <2>1, <2>2, <2>3, Zenon
<1>6. CASE transit_capsent(n)
  <2> DEFINE s == IF Correspond(n).peer_cap THEN "CAPREC" ELSE "CAPSENT"
  <2>1. IccpStep(n, s, <<>>) BY <1>6 DEF transit_capsent
  <2>2. s \in IccpStates BY DEF IccpStates
  <2>3. ~info[n].peer_cap /\ iccpq[n] = <<>> => s = "CAPSENT" BY <1>4
  <2> HIDE DEF s
  <2> QED BY <1>2, <2>1, <2>2, <2>3, ZenonT(30)
<1>7. CASE transit_caprec(n)
  <2>1. iccp[n] = "CAPREC" BY <1>7 DEF transit_caprec
  <2>2. CASE IccpStep(n, "CAPREC", <<"NAK">>)
    BY <1>1, <1>3, <2>1, <2>2, Zenon DEF IccpStates
  <2>3. CASE IccpStep(n, IF Correspond(n).peer_rg THEN "OPERATIONAL"
                                                  ELSE "CONNECTING", <<"RG_CONNECT">>)
    <3>1. PICK s \in IccpStates : IccpStep(n, s, <<"RG_CONNECT">>)
      BY <2>3, SMTT(20) DEF IccpStates
    <3> QED BY <1>1, <1>3, <2>1, <3>1, ZenonT(30)
  <2> QED BY <1>7, <2>2, <2>3 DEF transit_caprec
<1>8. CASE transit_connecting(n)
  <2>1. iccp[n] = "CONNECTING" BY <1>8, Zenon DEF transit_connecting
  <2>2. CASE IccpStep(n, "CAPREC", <<"NAK">>)
    BY <1>1, <1>3, <2>1, <2>2, Zenon DEF IccpStates
  <2>3. CASE IccpStep(n, IF Correspond(n).peer_rg THEN "OPERATIONAL"
                                                  ELSE "CONNECTING", <<>>)
    <3>1. PICK s \in IccpStates : IccpStep(n, s, <<>>)
      BY <2>3 DEF IccpStates
    <3> QED BY <1>2, <2>1, <3>1, Zenon
  <2> QED BY <1>8, <2>2, <2>3 DEF transit_connecting
<1>9. CASE transit_operational(n)
  BY <1>2, <1>9, ZenonT(30) DEF transit_operational, IccpStates
<1> QED BY <1>5, <1>6, <1>7, <1>8, <1>9, ZenonT(30)

\* An iteration of the ICCP connection state machine: quiet messages are
\* sent, and the connections stay as they are.
LEMMA IccpStepTcp ==
  ASSUME TypeOK, TcpInv, LayerInv, NEW n \in Node, NEW s \in IccpStates,
         NEW out \in Seq(Msgs), IccpStep(n, s, out), Only(out, IccpMsgs),
         (/\ iccp[n] \in {"INITIALIZED", "CAPSENT"}
          /\ ~info[n].peer_cap /\ iccpq[n] = <<>>) => s = "CAPSENT"
  PROVE  /\ TcpInv'
         /\ \E o \in Seq(Msgs) : Only(o, Quiet) /\ Deliver(n, o)
<1>1. PICK o \in Seq(Msgs) :
        /\ Deliver(n, o) /\ Only(o, Quiet)
        /\ (s # "OPERATIONAL" /\ app[n] # "OPERATIONAL") => Only(o, IccpMsgs)
  <2>1. AppTransit(n, s, out) BY ZenonT(30) DEF IccpStep
  <2>2. Only(out, Quiet) BY DEF Only, Quiet
  <2>3. CASE Deliver(n, out) BY <2>2, <2>3, Zenon
  <2>4. CASE /\ s = "OPERATIONAL" \/ app[n] = "OPERATIONAL"
             /\ Deliver(n, Append(out, "HEARTBEAT"))
    <3>1. "HEARTBEAT" \in Msgs /\ "HEARTBEAT" \in Quiet BY Names DEF Quiet
    <3>2. Append(out, "HEARTBEAT") \in Seq(Msgs) BY <3>1
    <3>3. Only(Append(out, "HEARTBEAT"), Quiet) BY <2>2, <3>1 DEF Only
    <3> QED BY <2>4, <3>2, <3>3, ZenonT(30)
  <2> QED BY <2>1, <2>3, <2>4, Zenon DEF AppTransit
<1>2. /\ sock[n] # NoConn /\ UNCHANGED <<open, backlog, sock, mlacpq>>
      /\ iccp' = [iccp EXCEPT ![n] = s]
      /\ info' = [info EXCEPT ![n] = IF s # iccp[n] \/ iccpq[n] # <<>>
                                     THEN EnterState(s, Correspond(n))
                                     ELSE Correspond(n)]
      /\ Dequeue(n)
  BY Zenon DEF IccpStep
<1>3. \A m \in Node : m # n => /\ iccp'[m] = iccp[m] /\ info'[m] = info[m]
                               /\ iccpq'[m] = iccpq[m] /\ mlacpq'[m] = mlacpq[m]
  BY <1>2, Zenon DEF Dequeue, TypeOK
<1>4. ASSUME NEW i \in 1..Len(backlog), sock[n] = backlog[i]
      PROVE  /\ n = Active /\ Only(o, IccpMsgs)
             /\ iccp'[n] \in {"INITIALIZED", "CAPSENT"}
             /\ ~info'[n].peer_cap /\ iccpq'[n] = <<>> /\ mlacpq'[n] = <<>>
  <2>1. /\ n = Active /\ iccp[n] \in {"INITIALIZED", "CAPSENT"}
        /\ ~info[n].peer_cap /\ iccpq[n] = <<>> /\ mlacpq[n] = <<>>
    BY <1>4, WaitingClient, Zenon
  <2>2. s = "CAPSENT" BY <2>1, Zenon
  <2>3. Only(o, IccpMsgs) BY <1>1, <2>1, <2>2 DEF LayerInv
  <2>4. Correspond(n) = info[n] BY <2>1 DEF Correspond
  <2>5. info'[n] = info[n] BY <1>2, <2>2, <2>4, ZenonT(30)
                              DEF EnterState, TypeOK
  <2>6. iccpq'[n] = <<>> BY <1>2, <2>1, ZenonT(30) DEF Dequeue, TypeOK
  <2>7. iccp'[n] = "CAPSENT" BY <1>2, <2>2, ZenonT(30) DEF TypeOK
  <2> QED BY <1>2, <2>1, <2>3, <2>5, <2>6, <2>7, ZenonT(30)
<1>5. TcpInv' BY <1>1, <1>2, <1>3, <1>4, DeliverTcp, ZenonT(30)
<1> QED BY <1>1, <1>5

\* A pass of mlacp_fsm_transit.
LEMMA PassTcp ==
  ASSUME TypeOK, TcpInv, LayerInv, NEW n \in Node, pc[n] = "loop",
         NEW out \in Seq(Msgs), Deliver(n, out),
         UNCHANGED <<sock, open, backlog, iccpvars>>,
         \A m \in Node : m # n => mlacpq'[m] = mlacpq[m]
  PROVE  TcpInv'
<1>1. iccp[n] = "OPERATIONAL" /\ sock[n] # NoConn BY Zenon DEF LayerInv
<1>2. \A i \in 1..Len(backlog) : sock[n] # backlog[i] BY <1>1, WaitingClient
<1>3. UNCHANGED <<sock, open, backlog, iccp, info, iccpq>> BY DEF iccpvars
<1> QED BY <1>1, <1>2, <1>3, DeliverTcp, ZenonT(30)

\* Steps that change nothing of TCP.
LEMMA SameTcp ==
  ASSUME TypeOK, TcpInv, LayerInv, NEW n \in Node,
         \/ attach(n) \/ detach(n) \/ transit_idle(n) \/ transit_accepted(n)
  PROVE  TcpInv'
<1>1. CASE attach(n) \/ detach(n)
  <2>1. UNCHANGED <<sock, open, backlog, wire, iccp, info, iccpq, mlacpq>>
    BY <1>1, Zenon DEF attach, detach, tcpvars, iccpvars
  <2> QED BY <2>1 DEF TcpInv, WiresOk, SocketsOk, BacklogOk
<1>2. CASE transit_idle(n)
  <2>1. /\ UNCHANGED <<sock, open, backlog, wire, iccp, info, mlacpq>>
        /\ sock[n] = NoConn /\ Dequeue(n)
    BY <1>2 DEF transit_idle, tcpvars, appvars
  <2>2. iccpq' = iccpq BY <2>1 DEF TcpInv, SocketsOk, Dequeue, TypeOK
  <2> QED BY <2>1, <2>2, ZenonT(30) DEF TcpInv, WiresOk, SocketsOk, BacklogOk
<1>3. CASE transit_accepted(n)
  <2>1. /\ UNCHANGED <<sock, open, backlog, wire, mlacpq>>
        /\ sock[n] # NoConn /\ iccp[n] = "NONEXISTENT"
    BY <1>3 DEF transit_accepted, tcpvars, appvars
  <2>2. \A m \in Node : m # n => /\ iccp'[m] = iccp[m] /\ info'[m] = info[m]
                                 /\ iccpq'[m] = iccpq[m]
    BY <1>3, ZenonT(30) DEF transit_accepted, Dequeue, TypeOK
  <2>3. \A i \in 1..Len(backlog) : sock[n] # backlog[i] BY <2>1, WaitingClient
  <2>4. WiresOk' BY <2>1 DEF TcpInv, WiresOk
  <2>5. SocketsOk' BY <2>1, <2>2, Zenon DEF TcpInv, SocketsOk
  <2>6. BacklogOk'
    <3> SUFFICES ASSUME NEW i \in 1..Len(backlog)
                 PROVE  WaitsIn(backlog[i], open', sock', wire', iccp', info',
                                iccpq', mlacpq')
      BY <2>1, Zenon DEF TcpInv, BacklogOk
    <3>1. WaitsIn(backlog[i], open, sock, wire, iccp, info, iccpq, mlacpq)
      BY Zenon DEF TcpInv, BacklogOk
    <3>2. n = Active => sock[Active] # backlog[i] BY <2>3
    <3>3. Active \in Node BY DEF Node
    <3> QED BY <2>1, <2>2, <3>1, <3>2, <3>3, ZenonT(30) DEF WaitsIn
  <2> QED BY <2>4, <2>5, <2>6 DEF TcpInv
<1> QED BY <1>1, <1>2, <1>3, ZenonT(30)

(***************************************************************************)
(* The stages: every step keeps StageInv.                                  *)
(***************************************************************************)
LEMMA ChanType ==
  ASSUME TypeOK, NEW n \in Node
  PROVE  /\ Chan(n) \in Seq(Msgs) /\ mlacpq[n] \in Seq(Msgs)
         /\ sock[n] # NoConn => wire[sock[n]][n] \in Seq(Msgs)
<1>1. mlacpq[n] \in Seq(Msgs)
  <2>1. mlacpq[n] \in Seq(MlacpMsgs) /\ MlacpMsgs \subseteq Msgs
    BY DEF TypeOK, Msgs
  <2> QED BY <2>1, SeqMonotonic
<1>2. ASSUME sock[n] # NoConn PROVE wire[sock[n]][n] \in Seq(Msgs)
  <2>1. sock[n] \in Conn BY <1>2 DEF TypeOK
  <2> QED BY <2>1 DEF TypeOK
<1>3. CASE sock[n] = NoConn BY <1>1, <1>3, SendsFew DEF Chan
<1>4. CASE sock[n] # NoConn BY <1>1, <1>2, <1>4 DEF Chan
<1> QED BY <1>1, <1>2, <1>3, <1>4

\* Taking the first message of a concatenation.
LEMMA TailCat ==
  ASSUME NEW m \in Seq(Msgs), NEW w \in Seq(Msgs), m # <<>>
  PROVE  /\ Tail(m \o w) = Tail(m) \o w /\ Head(m \o w) = Head(m)
         /\ m \o w # <<>>
<1> DEFINE s == Tail(m \o w)  t == Tail(m) \o w
<1>1. Len(m) \in Nat \ {0} /\ Len(w) \in Nat BY EmptySeq, LenProperties
<1>2. /\ m \o w \in Seq(Msgs) /\ Len(m \o w) = Len(m) + Len(w)
      /\ \A i \in 1..(Len(m) + Len(w)) :
           (m \o w)[i] = IF i <= Len(m) THEN m[i] ELSE w[i - Len(m)]
  BY ConcatProperties
<1>3. m \o w # <<>> BY <1>1, <1>2, EmptySeq
<1>4. /\ s \in Seq(Msgs) /\ Len(s) = Len(m) + Len(w) - 1
      /\ \A i \in 1..Len(s) : s[i] = (m \o w)[i + 1]
  BY <1>2, <1>3, HeadTailProperties
<1>5. /\ Tail(m) \in Seq(Msgs) /\ Len(Tail(m)) = Len(m) - 1
      /\ \A i \in 1..Len(Tail(m)) : Tail(m)[i] = m[i + 1]
  BY HeadTailProperties
<1>6. /\ t \in Seq(Msgs) /\ Len(t) = Len(m) - 1 + Len(w)
      /\ \A i \in 1..(Len(m) - 1 + Len(w)) :
           t[i] = IF i <= Len(m) - 1 THEN Tail(m)[i] ELSE w[i - (Len(m) - 1)]
  BY <1>5, ConcatProperties
<1>7. Head(m \o w) = Head(m) BY <1>1, <1>2, <1>3
<1> HIDE DEF s, t
<1>8. Len(s) = Len(t) BY <1>1, <1>4, <1>6
<1>9. ASSUME NEW i \in 1..Len(s) PROVE s[i] = t[i]
  <2>1. /\ i \in 1..(Len(m) - 1 + Len(w)) /\ i + 1 \in 1..(Len(m) + Len(w))
        /\ (i + 1) - Len(m) = i - (Len(m) - 1)
        /\ i <= Len(m) - 1 <=> i + 1 <= Len(m)
    BY <1>1, <1>4
  <2>2. s[i] = IF i + 1 <= Len(m) THEN m[i + 1] ELSE w[i - (Len(m) - 1)]
    BY <1>2, <1>4, <2>1
  <2>3. CASE i <= Len(m) - 1
    <3>1. i \in 1..Len(Tail(m)) BY <1>1, <1>5, <2>1, <2>3
    <3> QED BY <1>5, <1>6, <2>1, <2>2, <2>3, <3>1
  <2>4. CASE ~(i <= Len(m) - 1) BY <1>6, <2>1, <2>2, <2>4
  <2> QED BY <2>3, <2>4
<1>10. s = t BY <1>4, <1>6, <1>8, <1>9, SeqEqual
<1> QED BY <1>3, <1>7, <1>10 DEF s, t

\* Concatenation is associative.
LEMMA MsgsAssociative ==
  ASSUME NEW s \in Seq(Msgs), NEW t \in Seq(Msgs), NEW u \in Seq(Msgs)
  PROVE  (s \o t) \o u = s \o (t \o u)
  BY ConcatAssociative

\* A sequence is its head and the rest.
LEMMA HeadCat ==
  ASSUME NEW w \in Seq(Msgs), w # <<>>
  PROVE  w = <<Head(w)>> \o Tail(w)
<1>1. /\ Head(w) \in Msgs /\ Tail(w) \in Seq(Msgs) /\ Len(Tail(w)) = Len(w) - 1
      /\ \A i \in 1..Len(Tail(w)) : Tail(w)[i] = w[i + 1]
  BY HeadTailProperties
<1>2. Len(w) \in Nat \ {0} /\ Head(w) = w[1] BY EmptySeq
<1> DEFINE o == <<Head(w)>>  t == o \o Tail(w)
<1>3. o \in Seq(Msgs) /\ Len(o) = 1 /\ o[1] = Head(w) BY <1>1
<1>4. /\ t \in Seq(Msgs) /\ Len(t) = 1 + Len(Tail(w))
      /\ \A i \in 1..(1 + Len(Tail(w))) :
           t[i] = IF i <= 1 THEN o[i] ELSE Tail(w)[i - 1]
  <2> DEFINE v == Tail(w)
  <2>1. v \in Seq(Msgs) BY <1>1
  <2> HIDE DEF o, v
  <2>2. /\ o \o v \in Seq(Msgs) /\ Len(o \o v) = Len(o) + Len(v)
        /\ \A i \in 1..(Len(o) + Len(v)) :
             (o \o v)[i] = IF i <= Len(o) THEN o[i] ELSE v[i - Len(o)]
    BY <1>3, <2>1, ConcatProperties, Zenon
  <2> QED BY <1>3, <2>2 DEF v
<1> HIDE DEF o, t
<1>5. Len(t) = Len(w) BY <1>1, <1>2, <1>4
<1>6. ASSUME NEW i \in 1..Len(w) PROVE w[i] = t[i]
  <2>1. CASE i = 1 BY <1>1, <1>2, <1>3, <1>4, <2>1
  <2>2. CASE i # 1
    <3>1. i - 1 \in 1..Len(Tail(w)) /\ ~(i <= 1) /\ (i - 1) + 1 = i
      BY <1>1, <1>2, <2>2
    <3>2. t[i] = Tail(w)[i - 1] BY <1>1, <1>2, <1>4, <3>1
    <3>3. Tail(w)[i - 1] = w[(i - 1) + 1] BY <1>1, <3>1
    <3> QED BY <3>1, <3>2, <3>3
  <2> QED BY <2>1, <2>2
<1>7. w = t BY <1>4, <1>5, <1>6, SeqEqual, ZenonT(30)
<1> QED BY <1>7 DEF t, o

\* Sending reaches the peer exactly when it holds the other end.
LEMMA DeliverChan ==
  ASSUME TypeOK, TcpInv, NEW n \in Node, NEW out \in Seq(Msgs),
         sock[n] # NoConn, Deliver(n, out), UNCHANGED <<open, sock>>,
         \A m \in Node : m # n => mlacpq'[m] = mlacpq[m]
  PROVE  /\ Connected' = Connected
         /\ wire'[sock[n]][n] = wire[sock[n]][n]
         /\ Chan(Peer(n))' = Sent(Chan(Peer(n)), out, Connected)
<1> DEFINE c == sock[n]
           p == Peer(n)
<1>1. c \in Conn /\ p \in Node /\ p # n BY PeerNode, Zenon DEF TypeOK
<1>2. /\ \A d \in Conn, m \in Node : (d # c \/ m # p) => wire'[d][m] = wire[d][m]
      /\ p \in open[c] => wire'[c][p] = wire[c][p] \o out
  <2>1. CASE p \in open[c]
    <3>1. wire' = [wire EXCEPT ![c][p] = wire[c][p] \o out]
      BY <2>1 DEF Deliver
    <3> HIDE DEF c, p
    <3> QED BY <1>1, <2>1, <3>1, SMTT(20) DEF TypeOK
  <2>2. CASE p \notin open[c]
    <3>1. wire' = wire BY <2>2 DEF Deliver
    <3> HIDE DEF c, p
    <3> QED BY <2>2, <3>1
  <2> QED BY <2>1, <2>2, ZenonT(30)
<1>3. Connected' = Connected BY Zenon DEF Connected
<1>4. wire'[c][n] = wire[c][n]
  <2> HIDE DEF c, p
  <2> QED BY <1>1, <1>2, Zenon
<1>5. Connected <=> sock[p] = c
  BY NodesDiffer DEF Connected, Node, Peer
<1>6. sock' = sock /\ mlacpq'[p] = mlacpq[p] BY <1>1, Zenon
<1>7. Chan(p)' = Sent(Chan(p), out, Connected)
  <2>1. CASE sock[p] = c
    <3>1. p \in open[c] BY <1>1, <2>1 DEF TcpInv, SocketsOk
    <3>2. mlacpq[p] \in Seq(Msgs) /\ wire[c][p] \in Seq(Msgs)
      BY <1>1, <2>1, ChanType, ZenonT(30)
    <3>3. Chan(p) = mlacpq[p] \o wire[c][p] BY <2>1, ZenonT(30) DEF Chan
    <3>4. Chan(p)' = mlacpq[p] \o (wire[c][p] \o out)
      <4>1. Chan(p)' = mlacpq'[p] \o wire'[sock'[p]][p] BY <1>6, <2>1, ZenonT(30)
                                                           DEF Chan
      <4>2. mlacpq'[p] = mlacpq[p] /\ sock'[p] = c BY <1>6, <2>1, SMTT(20)
      <4>3. wire'[c][p] = wire[c][p] \o out BY <1>2, <3>1
      <4> HIDE DEF c, p
      <4> QED BY <4>1, <4>2, <4>3
    <3>5. Chan(p)' = (mlacpq[p] \o wire[c][p]) \o out
      BY <3>2, <3>4, MsgsAssociative, ZenonT(30)
    <3> QED BY <1>5, <2>1, <3>3, <3>5, ZenonT(30) DEF Sent
  <2>2. CASE sock[p] # c
    <3>1. sock[p] # NoConn => sock[p] \in Conn BY <1>1, Zenon DEF TypeOK
    <3>2. sock[p] # NoConn => wire'[sock[p]][p] = wire[sock[p]][p]
      <4> HIDE DEF c, p
      <4> QED BY <1>1, <1>2, <2>2, <3>1, ZenonT(30)
    <3>3. Chan(p)' = Chan(p) BY <1>6, <3>2, SMTT(20) DEF Chan
    <3> QED BY <1>5, <2>2, <3>3, ZenonT(30) DEF Sent
  <2> QED BY <2>1, <2>2, Zenon
<1> QED BY <1>3, <1>4, <1>7, ZenonT(30)

\* What n leaves for itself and sends to its peer, seen from both sides.
View(n, m, o, x, y, k) == IF n = Active THEN Stages(m, o, x, y, k)
                                        ELSE Stages(o, m, y, x, k)

LEMMA StageView ==
  ASSUME NEW n \in Node
  PROVE  /\ StageInv <=> View(n, mlacp[n], mlacp[Peer(n)], Chan(n), Chan(Peer(n)),
                              Connected)
         /\ StageInv' <=> View(n, mlacp'[n], mlacp'[Peer(n)], Chan(n)',
                               Chan(Peer(n))', Connected')
  BY NodesDiffer DEF StageInv, View, Node, Peer

LEMMA AlikeView ==
  ASSUME NEW n, NEW m, NEW o, NEW x, NEW y, NEW x2, NEW y2, NEW k,
         View(n, m, o, x, y, k), Alike(x, x2), Alike(y, y2)
  PROVE  View(n, m, o, x2, y2, k)
  BY AlikeStages, Zenon DEF View

\* The peer's record and the flags of the connection where only n changes.
LEMMA ViewStep ==
  ASSUME TypeOK, StageInv, NEW n \in Node, mlacp'[Peer(n)] = mlacp[Peer(n)],
         NEW x, NEW y, NEW k, Chan(n)' = x, Chan(Peer(n))' = y, Connected' = k,
         View(n, mlacp'[n], mlacp[Peer(n)], x, y, k)
  PROVE  StageInv'
  BY StageView, Zenon

LEMMA ReadStages ==
  ASSUME TypeOK, TcpInv, StageInv, NEW n \in Node, csm_read(n)
  PROVE  StageInv'
<1> DEFINE c == sock[n]
           p == Peer(n)
           h == Head(wire[c][n])
<1>1. /\ c \in Conn /\ c # NoConn /\ wire[c][n] # <<>> /\ p \in Node /\ p # n
      /\ UNCHANGED <<sock, mlacp>>
  BY PeerNode, SMTT(20) DEF csm_read, TypeOK
<1>2. /\ \A d \in Conn, m \in Node : m # n => wire'[d][m] = wire[d][m]
      /\ wire'[c][n] = Tail(wire[c][n])
  <2>1. wire' = [wire EXCEPT ![c][n] = Tail(wire[c][n])] BY ZenonT(30) DEF csm_read
  <2> HIDE DEF c
  <2> QED BY <1>1, <2>1 DEF TypeOK
<1>3. mlacpq'[p] = mlacpq[p] BY <1>1 DEF csm_read, TypeOK
<1>4. Connected' = Connected BY <1>1, ZenonT(30) DEF Connected
<1>5. Chan(p)' = Chan(p)
  <2>1. sock[p] # NoConn => sock[p] \in Conn BY <1>1, Zenon DEF TypeOK
  <2> HIDE DEF c, p
  <2> QED BY <1>1, <1>2, <1>3, <2>1 DEF Chan
<1>6. mlacpq[n] \in Seq(Msgs) /\ wire[c][n] \in Seq(Msgs) BY <1>1, ChanType,
                                                             Zenon
<1>7. Chan(n) = mlacpq[n] \o wire[c][n] BY <1>1, Zenon DEF Chan
<1>8. Chan(n)' = mlacpq'[n] \o Tail(wire[c][n])
  <2>1. Chan(n)' = mlacpq'[n] \o wire'[sock'[n]][n] BY <1>1, ZenonT(30)
                                                       DEF Chan
  <2>2. sock'[n] = c BY <1>1
  <2> HIDE DEF c
  <2> QED BY <1>2, <2>1, <2>2, Zenon
<1>9. Alike(Chan(n), Chan(n)')
  <2>1. CASE h \in IccpMsgs
    <3>1. mlacpq' = mlacpq BY <2>1 DEF csm_read
    <3>2. h \in Quiet BY <2>1, Zenon DEF Quiet
    <3> HIDE DEF c
    <3> QED BY <1>1, <1>6, <1>7, <1>8, <3>1, <3>2, SkipQuiet, SMTT(20)
  <2>2. CASE h \notin IccpMsgs
    <3>1. mlacpq'[n] = Append(mlacpq[n], h) BY <2>2, ZenonT(30)
                                               DEF csm_read, TypeOK
    <3>2. h \in Msgs BY <1>1, <1>6, HeadTailProperties, ZenonT(30)
    <3>3. mlacpq'[n] = mlacpq[n] \o <<h>> BY <1>6, <3>1, <3>2, AppendIsConcat,
                                             ZenonT(30)
    <3>4. Tail(wire[c][n]) \in Seq(Msgs) /\ <<h>> \in Seq(Msgs)
      BY <1>1, <1>6, <3>2, HeadTailProperties, SMTT(20)
    <3>5. wire[c][n] = <<h>> \o Tail(wire[c][n])
      <4> DEFINE w == wire[c][n]
      <4>1. w \in Seq(Msgs) /\ w # <<>> /\ h = Head(w) BY <1>1, <1>6
      <4> HIDE DEF w
      <4>2. w = <<Head(w)>> \o Tail(w) BY <4>1, HeadCat, Zenon
      <4> QED BY <4>1, <4>2, Zenon DEF w
    <3>6. Chan(n)' = mlacpq[n] \o (<<h>> \o Tail(wire[c][n]))
      <4>1. Chan(n)' = (mlacpq[n] \o <<h>>) \o Tail(wire[c][n]) BY <1>8, <3>3
      <4> DEFINE t == Tail(wire[c][n])
                 s == <<h>>
      <4>2. t \in Seq(Msgs) /\ s \in Seq(Msgs) BY <3>4
      <4> HIDE DEF t, s
      <4>3. (mlacpq[n] \o s) \o t = mlacpq[n] \o (s \o t)
        BY <1>6, <4>2, MsgsAssociative, ZenonT(30)
      <4> QED BY <4>1, <4>3, ZenonT(30) DEF t, s
    <3> QED BY <1>7, <3>5, <3>6, AlikeSelf, ZenonT(30)
  <2> QED BY <2>1, <2>2, SMTT(20)
<1>10. View(n, mlacp[n], mlacp[p], Chan(n), Chan(p), Connected) BY StageView
<1>11. View(n, mlacp[n], mlacp[p], Chan(n)', Chan(p), Connected)
  BY <1>9, <1>10, AlikeView, AlikeSelf
<1> QED BY <1>1, <1>4, <1>5, <1>11, ViewStep, ZenonT(30)

\* A node that has lost its connection, or was restarted.
LEMMA ResetView ==
  ASSUME NEW n \in Node, NEW m \in MlacpRecords, NEW m0, NEW o, NEW x, NEW y, NEW k,
         View(n, m0, o, x, y, k), m.state = "INIT", ~m.need, ~m.purge
  PROVE  View(n, m, o, <<>>, y, FALSE)
<1>1. \A w, S : Only(<<>>, S) /\ After(<<>>, w, S) BY SendsFew
<1>2. ActiveOk(m, <<>>) BY <1>1, ZenonT(30) DEF ActiveOk
<1>3. StandbyOk(m, <<>>) BY <1>1 DEF StandbyOk
<1>4. PurgeOk(m) BY Zenon DEF PurgeOk
<1> QED BY <1>2, <1>3, <1>4 DEF View, Stages

LEMMA DisconnectStages ==
  ASSUME TypeOK, StageInv, NEW n \in Node, session_disconnect(n)
  PROVE  StageInv'
<1> DEFINE p == Peer(n)
<1>1. p \in Node /\ p # n BY PeerNode
<1>2. /\ sock' = [sock EXCEPT ![n] = NoConn]
      /\ mlacp' = [mlacp EXCEPT ![n] = [mlacp[n] EXCEPT !.state = "INIT",
                     !.need = FALSE, !.pif = FALSE, !.purge = FALSE]]
      /\ mlacpq' = [mlacpq EXCEPT ![n] = <<>>]
  BY DEF session_disconnect, socket_cleanup
<1>3. /\ sock'[n] = NoConn /\ sock'[p] = sock[p] /\ mlacp'[p] = mlacp[p]
      /\ mlacpq'[p] = mlacpq[p]
  BY <1>1, <1>2 DEF TypeOK
<1>4. mlacp[n] \in MlacpRecords BY DEF TypeOK
<1>5. mlacp'[n] = [mlacp[n] EXCEPT !.state = "INIT", !.need = FALSE,
                                   !.pif = FALSE, !.purge = FALSE]
  BY <1>2 DEF TypeOK
<1>6. /\ mlacp'[n] \in MlacpRecords /\ mlacp'[n].state = "INIT"
      /\ ~mlacp'[n].need /\ ~mlacp'[n].purge
  BY <1>4, <1>5, ZenonT(30) DEF MlacpRecords, MlacpStates
<1>7. \A c \in Conn : wire'[c][p] = wire[c][p]
  <2>1. CASE sock[n] = NoConn BY <2>1 DEF session_disconnect, socket_cleanup
  <2>2. CASE sock[n] # NoConn
    <3>1. wire' = [wire EXCEPT ![sock[n]][n] = <<>>] /\ sock[n] \in Conn
      BY <2>2 DEF session_disconnect, socket_cleanup, CloseEnd, TypeOK
    <3> HIDE DEF p
    <3> QED BY <1>1, <3>1 DEF TypeOK
  <2> QED BY <2>1, <2>2
<1>8. Chan(p)' = Chan(p)
  <2>1. sock[p] # NoConn => sock[p] \in Conn BY <1>1 DEF TypeOK
  <2> HIDE DEF p
  <2> QED BY <1>3, <1>7, <2>1 DEF Chan
<1>9. Chan(n)' = <<>> /\ Connected' = FALSE
  BY <1>3, Zenon DEF Chan, Connected, Node
<1>10. View(n, mlacp[n], mlacp[p], Chan(n), Chan(p), Connected) BY StageView,
                                                                   Zenon
<1>11. View(n, mlacp'[n], mlacp[p], <<>>, Chan(p), FALSE)
  BY <1>6, <1>10, ResetView, Zenon
<1> QED BY <1>3, <1>8, <1>9, <1>11, ViewStep, ZenonT(30)

LEMMA RestartStages ==
  ASSUME TypeOK, StageInv, NEW n \in Node, restart(n)
  PROVE  StageInv'
<1> DEFINE p == Peer(n)
<1>1. p \in Node /\ p # n BY PeerNode
<1>2. /\ sock'[n] = NoConn /\ sock'[p] = sock[p] /\ mlacp'[p] = mlacp[p]
      /\ mlacpq'[p] = mlacpq[p] /\ mlacp'[n] = MlacpInit
  BY <1>1 DEF restart, TypeOK
<1>3. /\ mlacp'[n] \in MlacpRecords /\ mlacp'[n].state = "INIT"
      /\ ~mlacp'[n].need /\ ~mlacp'[n].purge
  BY <1>2 DEF MlacpInit, MlacpRecords, MlacpStates
<1>4. \A c \in Conn : wire'[c][p] = wire[c][p]
  <2> DEFINE mine == {sock[n]} \cup
                     (IF n = Standby THEN {backlog[i] : i \in 1..Len(backlog)} ELSE {})
  <2>1. wire' = [c \in Conn |-> IF c \in mine THEN [wire[c] EXCEPT ![n] = <<>>]
                                              ELSE wire[c]]
    BY Zenon DEF restart
  <2> HIDE DEF p, mine
  <2> QED BY <1>1, <2>1, ZenonT(30) DEF TypeOK
<1>5. Chan(p)' = Chan(p)
  <2>1. sock[p] # NoConn => sock[p] \in Conn BY <1>1 DEF TypeOK
  <2> HIDE DEF p
  <2> QED BY <1>2, <1>4, <2>1, ZenonT(30) DEF Chan
<1>6. Chan(n)' = <<>> /\ Connected' = FALSE
  BY <1>2 DEF Chan, Connected, Node
<1>7. View(n, mlacp[n], mlacp[p], Chan(n), Chan(p), Connected) BY StageView
<1>8. View(n, mlacp'[n], mlacp[p], <<>>, Chan(p), FALSE)
  BY <1>3, <1>7, ResetView, Zenon
<1> QED BY <1>2, <1>5, <1>6, <1>8, ViewStep, ZenonT(30)

\* A new session starts with both nodes in INIT and only ICCP messages
\* under way.
LEMMA AcceptStages ==
  ASSUME TypeOK, TcpInv, LayerInv, StageInv, NEW n \in Node, server_accept(n)
  PROVE  StageInv'
<1> DEFINE h == Head(backlog)
<1>1. /\ n = Standby /\ backlog # <<>> /\ UNCHANGED <<mlacp, mlacpq>>
  BY DEF server_accept, appvars
<1>2. backlog \in Seq(Conn) /\ Distinct(backlog)
  BY DEF TypeOK, TcpInv, BacklogOk
<1>3. h \in Conn /\ h = backlog[1] /\ 1 \in 1..Len(backlog)
  BY <1>1, <1>2, BacklogTail
<1>4. WaitsIn(h, open, sock, wire, iccp, info, iccpq, mlacpq)
  BY <1>3 DEF TcpInv, BacklogOk
<1>5. Active \in Node /\ Standby \in Node /\ Active # Standby
  BY NodesDiffer DEF Node
<1>6. /\ sock[Active] # NoConn => sock[Active] \in Conn
      /\ sock[Standby] # NoConn => sock[Standby] \in Conn
  BY <1>5 DEF TypeOK
<1> HIDE DEF h
<1>7. CASE sock[n] # NoConn /\ CloseEnd(n, h) /\ UNCHANGED sock
  <2>1. wire' = [wire EXCEPT ![h][n] = <<>>] BY <1>7 DEF CloseEnd
  <2>2. /\ \A c \in Conn : wire'[c][Active] = wire[c][Active]
        /\ \A c \in Conn : c # h => wire'[c][Standby] = wire[c][Standby]
    BY <1>1, <1>3, <1>5, <2>1 DEF TypeOK
  <2>3. sock[Standby] # h BY <1>4, Zenon DEF WaitsIn
  <2>4. Chan(Active)' = Chan(Active) BY <1>1, <1>6, <1>7, <2>2, ZenonT(30)
                                        DEF Chan
  <2>5. Chan(Standby)' = Chan(Standby) BY <1>1, <1>6, <1>7, <2>2, <2>3, ZenonT(30)
                                          DEF Chan
  <2>6. Connected' = Connected BY <1>7 DEF Connected
  <2> QED BY <1>1, <2>4, <2>5, <2>6 DEF StageInv
<1>8. CASE /\ sock[n] = NoConn /\ sock' = [sock EXCEPT ![n] = h]
           /\ UNCHANGED wire
  <2> DEFINE a == mlacp[Active]
             s == mlacp[Standby]
             p == Chan(Active)
             q == Chan(Standby)'
  <2>1. sock'[Standby] = h /\ sock'[Active] = sock[Active]
    BY <1>1, <1>5, <1>8, SMTT(20) DEF TypeOK
  <2>2. s.state = "INIT" BY <1>1, <1>5, <1>8 DEF LayerInv
  <2>3. mlacpq[Standby] = <<>> BY <1>1, <1>5, <1>8 DEF TcpInv, SocketsOk
  <2>4. Chan(Active)' = Chan(Active) BY <1>1, <1>8, <2>1 DEF Chan
  <2>5. Only(q, Quiet)
    <3>1. wire[h][Standby] \in Seq(Msgs) BY <1>3, <1>5 DEF TypeOK
    <3>2. h # NoConn BY <1>3, NoConnFresh, Zenon
    <3>3. q = mlacpq[Standby] \o wire[h][Standby]
      BY <1>1, <1>8, <2>1, <3>2, Zenon DEF Chan
    <3>4. q = wire[h][Standby]
      <4> HIDE DEF q
      <4> QED BY <2>3, <3>1, <3>3, ConcatEmptySeq
    <3>5. Only(wire[h][Standby], Quiet) BY <1>4 DEF WaitsIn, Only, Quiet
    <3> QED BY <3>4, <3>5
  <2>6. After(q, "SYNC_REQUEST", Quiet) BY <2>5 DEF Only, After
  <2>7. Stages(a, s, p, Chan(Standby), Connected) BY DEF StageInv
  <2>8. Connected' => /\ a.state = "INIT" /\ p = <<>>
    <3> SUFFICES ASSUME sock[Active] = h PROVE a.state = "INIT" /\ p = <<>>
      BY <2>1, Zenon DEF Connected
    <3>1. /\ iccp[Active] \in {"INITIALIZED", "CAPSENT"} /\ mlacpq[Active] = <<>>
          /\ wire[h][Active] = <<>>
      BY <1>4, Zenon DEF WaitsIn
    <3>2. a.state = "INIT" BY <1>5, <3>1, ZenonT(30) DEF LayerInv
    <3>3. h # NoConn BY <1>3, NoConnFresh
    <3>4. p = <<>> \o <<>> BY <3>1, <3>3, Zenon DEF Chan
    <3> QED BY <3>2, <3>4
  <2> HIDE DEF a, s, p, q
  <2>9. StandbyOk(s, q)
    BY <2>2, <2>5, <2>6, <2>7, ZenonT(30) DEF Stages, StandbyOk
  <2>10. Connected' => Agree(a, s, p, q) /\ PortsOk(a, s, p, q)
    <3>1. Only(<<>>, Quiet) BY SendsFew
    <3> QED BY <2>2, <2>5, <2>8, <3>1 DEF Agree, PortsOk
  <2>11. Stages(a, s, p, q, Connected') BY <2>7, <2>9, <2>10, ZenonT(30)
                                           DEF Stages
  <2> QED BY <1>1, <2>4, <2>11 DEF StageInv, a, s, p, q
<1> QED BY <1>7, <1>8 DEF server_accept, h

LEMMA ConnectStages ==
  ASSUME TypeOK, TcpInv, LayerInv, StageInv, NEW n \in Node, transit_connect(n)
  PROVE  StageInv'
<1>1. PICK c \in Conn : open[c] = {} /\ sock' = [sock EXCEPT ![n] = c]
  BY ZenonT(30) DEF transit_connect
<1>2. /\ n = Active /\ sock[n] = NoConn /\ UNCHANGED <<wire, mlacp, mlacpq>>
  BY DEF transit_connect, appvars
<1>3. Active \in Node /\ Standby \in Node /\ Active # Standby /\ c # NoConn
  BY NodesDiffer, NoConnFresh DEF Node
<1>4. mlacpq[Active] = <<>> /\ wire[c][Active] = <<>>
  BY <1>1, <1>2, <1>3 DEF TcpInv, SocketsOk, WiresOk
<1>5. sock'[Active] = c /\ sock'[Standby] = sock[Standby]
  BY <1>1, <1>2, <1>3, SMTT(20) DEF TypeOK
<1>6. sock[Standby] # c
  <2>1. sock[Standby] = c => Standby \in open[c]
    BY <1>3, ZenonT(30) DEF TcpInv, SocketsOk
  <2> QED BY <1>1, <2>1, Zenon
<1>7. Chan(Active)' = Chan(Active)
  <2>1. Chan(Active)' = <<>> \o <<>> BY <1>2, <1>3, <1>4, <1>5 DEF Chan
  <2>2. Chan(Active) = <<>> BY <1>2, Zenon DEF Chan
  <2> QED BY <2>1, <2>2
<1>8. Chan(Standby)' = Chan(Standby) BY <1>2, <1>5 DEF Chan
<1>9. Connected' = Connected BY <1>2, <1>5, <1>6, ZenonT(30) DEF Connected
<1> QED BY <1>2, <1>7, <1>8, <1>9, ZenonT(30) DEF StageInv

\* Sending quiet messages.
LEMMA IccpStepStages ==
  ASSUME TypeOK, TcpInv, StageInv, NEW n \in Node, NEW s, NEW out,
         IccpStep(n, s, out), NEW o \in Seq(Msgs), Only(o, Quiet), Deliver(n, o)
  PROVE  StageInv'
<1> DEFINE p == Peer(n)
<1>1. p \in Node BY PeerNode, Zenon
<1>2. sock[n] # NoConn /\ UNCHANGED <<sock, open, mlacp, mlacpq>> BY ZenonT(30)
                                                                     DEF IccpStep
<1>3. /\ Connected' = Connected /\ wire'[sock[n]][n] = wire[sock[n]][n]
      /\ Chan(p)' = Sent(Chan(p), o, Connected)
  BY <1>2, DeliverChan, ZenonT(30)
<1>4. Chan(n)' = Chan(n) BY <1>2, <1>3, ZenonT(30) DEF Chan
<1>5. Alike(Chan(p), Chan(p)')
  <2>1. Chan(p) \in Seq(Msgs) BY <1>1, ChanType, ZenonT(30)
  <2> HIDE DEF p
  <2> QED BY <1>3, <2>1, SendQuiet, AlikeSelf, ZenonT(30) DEF Sent
<1>6. View(n, mlacp[n], mlacp[p], Chan(n), Chan(p), Connected) BY StageView,
                                                                  ZenonT(30)
<1>7. View(n, mlacp[n], mlacp[p], Chan(n), Chan(p)', Connected)
  BY <1>5, <1>6, AlikeView, AlikeSelf, ZenonT(30)
<1> QED BY <1>2, <1>3, <1>4, <1>7, ViewStep, ZenonT(30)

\* What a pass reads and sends.
LEMMA PassChan ==
  ASSUME TypeOK, TcpInv, LayerInv, NEW n \in Node, NEW m, NEW out \in Seq(Msgs),
         Pass(n, m, out)
  PROVE  /\ Chan(n)' = Rest(Chan(n), Msg(n)) /\ Handles(Chan(n), Msg(n))
         /\ Chan(Peer(n))' = Sent(Chan(Peer(n)), out, Connected)
         /\ Connected' = Connected /\ mlacp'[n] = m
         /\ mlacp'[Peer(n)] = mlacp[Peer(n)]
<1>1. /\ sock[n] # NoConn /\ UNCHANGED <<sock, open>> /\ Deliver(n, out)
      /\ mlacp' = [mlacp EXCEPT ![n] = m]
      /\ mlacpq' = [mlacpq EXCEPT ![n] = IF mlacpq[n] = <<>> THEN mlacpq[n]
                                                             ELSE Tail(mlacpq[n])]
  BY Zenon DEF Pass, LayerInv
<1>2. \A k \in Node : k # n => mlacpq'[k] = mlacpq[k] BY <1>1 DEF TypeOK
<1>3. /\ Connected' = Connected /\ wire'[sock[n]][n] = wire[sock[n]][n]
      /\ Chan(Peer(n))' = Sent(Chan(Peer(n)), out, Connected)
  BY <1>1, <1>2, DeliverChan
<1>4. mlacp'[n] = m /\ mlacp'[Peer(n)] = mlacp[Peer(n)]
  BY <1>1, PeerNode, SMTT(20) DEF TypeOK
<1> DEFINE b == mlacpq[n]
           w == wire[sock[n]][n]
<1>5. /\ b \in Seq(Msgs) /\ w \in Seq(Msgs) /\ b \in Seq(MlacpMsgs)
  BY <1>1, ChanType, ZenonT(30) DEF TypeOK
<1>6. /\ Chan(n) = b \o w /\ Chan(n)' = mlacpq'[n] \o w
      /\ mlacpq'[n] = IF b = <<>> THEN b ELSE Tail(b)
      /\ Msg(n) = IF b = <<>> THEN "NULL" ELSE Head(b)
  BY <1>1, <1>3, ZenonT(30) DEF Chan, Msg, TypeOK
<1> HIDE DEF b, w
<1>7. Chan(n)' = Rest(Chan(n), Msg(n)) /\ Handles(Chan(n), Msg(n))
  <2>1. CASE b = <<>> BY <1>6, <2>1, ZenonT(30) DEF Rest, Handles
  <2>2. CASE b # <<>>
    <3>1. Head(b) \in MlacpMsgs BY <1>5, <2>2, SMTT(20)
    <3>2. Msg(n) # "NULL" /\ Msg(n) = Head(b) BY <1>6, <2>2, <3>1 DEF MlacpMsgs
    <3>3. Tail(b \o w) = Tail(b) \o w /\ Head(b \o w) = Head(b) /\ b \o w # <<>>
      BY <1>5, <2>2, TailCat, ZenonT(30)
    <3> QED BY <1>6, <2>2, <3>2, <3>3, ZenonT(30) DEF Rest, Handles
  <2> QED BY <2>1, <2>2, Zenon
<1> QED BY <1>3, <1>4, <1>7, ZenonT(30)

\* The handlers, with the role the layers give the node.
LEMMA HandlerView ==
  ASSUME NEW n \in Node, role[n] = MyRole(n), NEW m \in MlacpRecords,
         NEW o \in MlacpRecords, NEW x \in Seq(Msgs), NEW y \in Seq(Msgs),
         NEW k \in BOOLEAN, View(n, m, o, x, y, k), NEW msg, Handles(x, msg)
  PROVE  /\ m.state \in {"STAGE1", "STAGE2"} =>
              View(n, Stage(n, m, msg), o, Rest(x, msg),
                   Sent(y, StageOut(n, m, msg), k), k)
         /\ m.state = "EXCHANGE" =>
              View(n, Exchange(m, msg), o, Rest(x, msg),
                   Sent(y, ExchangeOut(m, msg), k), k)
         /\ m.state = "ERROR" => View(n, m, o, Rest(x, msg), y, k)
<1>1. CASE n = Active
  <2>1. Stages(m, o, x, y, k) BY <1>1 DEF View
  <2>2. role[n] = "ACTIVE" BY <1>1, ZenonT(30) DEF MyRole
  <2>3. CASE m.state = "STAGE1"
    <3>1. Sends(n, m) BY <2>2, <2>3, Zenon DEF Sends
    <3>2. Stages(StageSend(m, msg), o, Rest(x, msg),
                 Sent(y, StageSendOut(m, msg), k), k)
      BY <2>1, <2>3, ActiveSend, ZenonT(30)
    <3> QED BY <1>1, <2>3, <3>1, <3>2 DEF View, Stage, StageOut
  <2>4. CASE m.state = "STAGE2"
    <3>1. ~Sends(n, m) BY <2>2, <2>4 DEF Sends
    <3>2. Stages(StageRequest(m, msg), o, Rest(x, msg),
                 Sent(y, StageRequestOut(m, msg), k), k)
      BY <2>1, <2>4, ActiveRequest, ZenonT(30)
    <3> QED BY <1>1, <2>4, <3>1, <3>2, ZenonT(30) DEF View, Stage, StageOut
  <2>5. CASE m.state = "EXCHANGE"
    BY <1>1, <2>1, <2>5, ActiveExchange, ZenonT(30) DEF View
  <2>6. CASE m.state = "ERROR" BY <1>1, <2>1, <2>6, ActiveError, SMTT(20)
                                  DEF View
  <2> QED BY <2>3, <2>4, <2>5, <2>6
<1>2. CASE n = Standby
  <2>0. n # Active BY <1>2, NodesDiffer
  <2>1. Stages(o, m, y, x, k) BY <2>0 DEF View
  <2>2. role[n] = "STANDBY" BY <2>0, ZenonT(30) DEF MyRole
  <2>3. CASE m.state = "STAGE1"
    <3>1. ~Sends(n, m) BY <2>2, <2>3, ZenonT(30) DEF Sends
    <3>2. Stages(o, StageRequest(m, msg), Sent(y, StageRequestOut(m, msg), k),
                 Rest(x, msg), k)
      BY <2>1, <2>3, StandbyReceive, ZenonT(30)
    <3> QED BY <2>0, <2>3, <3>1, <3>2 DEF View, Stage, StageOut
  <2>4. CASE m.state = "STAGE2"
    <3>1. Sends(n, m) BY <2>2, <2>4, ZenonT(30) DEF Sends
    <3>2. Stages(o, StageSend(m, msg), Sent(y, StageSendOut(m, msg), k),
                 Rest(x, msg), k)
      BY <2>1, <2>4, StandbySend, ZenonT(30)
    <3> QED BY <2>0, <2>4, <3>1, <3>2 DEF View, Stage, StageOut
  <2>5. CASE m.state = "EXCHANGE"
    BY <2>0, <2>1, <2>5, StandbyExchange, ZenonT(30) DEF View
  <2>6. CASE m.state = "ERROR" BY <2>0, <2>1, <2>6, StandbyError DEF View
  <2> QED BY <2>3, <2>4, <2>5, <2>6
<1> QED BY <1>1, <1>2, ZenonT(30) DEF Node

\* The passes keep the stages and the connections.
LEMMA PassStages ==
  ASSUME TypeOK, TcpInv, LayerInv, StageInv, NEW n \in Node,
         pass_stage(n) \/ pass_exchange(n) \/ pass_error(n)
  PROVE  StageInv' /\ TcpInv'
<1> DEFINE p == Peer(n)
           m == mlacp[n]
           msg == Msg(n)
           k == Connected
<1>1. p \in Node /\ m \in MlacpRecords /\ mlacp[p] \in MlacpRecords
  BY PeerNode, ZenonT(30) DEF TypeOK
<1>2. pc[n] = "loop" /\ role[n] = MyRole(n)
  BY Zenon DEF pass_stage, pass_exchange, pass_error, Pass, LayerInv
<1>3. Chan(n) \in Seq(Msgs) /\ Chan(p) \in Seq(Msgs) BY <1>1, ChanType,
                                                        ZenonT(30)
<1>4. View(n, m, mlacp[p], Chan(n), Chan(p), k) BY StageView
<1>5. k \in BOOLEAN BY DEF Connected
<1>6. ASSUME NEW r, NEW out \in Seq(Msgs), Pass(n, r, out),
             Handles(Chan(n), msg) =>
               View(n, r, mlacp[p], Rest(Chan(n), msg), Sent(Chan(p), out, k), k)
      PROVE  StageInv' /\ TcpInv'
  <2>1. /\ Chan(n)' = Rest(Chan(n), msg) /\ Handles(Chan(n), msg)
        /\ Chan(p)' = Sent(Chan(p), out, k)
        /\ Connected' = k /\ mlacp'[n] = r /\ mlacp'[p] = mlacp[p]
    BY <1>6, PassChan, ZenonT(30)
  <2>2. StageInv'
    <3> HIDE DEF k
    <3> QED BY <1>6, <2>1, ViewStep, ZenonT(30)
  <2>3. /\ Deliver(n, out) /\ UNCHANGED <<sock, open, backlog, iccpvars>>
        /\ \A j \in Node : j # n => mlacpq'[j] = mlacpq[j]
    BY <1>6, ZenonT(30) DEF Pass, TypeOK
  <2>4. TcpInv' BY <1>2, <2>3, PassTcp, ZenonT(30)
  <2> QED BY <2>2, <2>4, Zenon
<1>7. CASE pass_stage(n)
  <2>1. /\ m.state \in {"STAGE1", "STAGE2"}
        /\ Pass(n, Stage(n, m, msg), StageOut(n, m, msg))
    BY <1>7 DEF pass_stage
  <2>2. StageOut(n, m, msg) \in Seq(Msgs) BY <1>1, StageType, Zenon
  <2>3. Handles(Chan(n), msg) =>
          View(n, Stage(n, m, msg), mlacp[p], Rest(Chan(n), msg),
               Sent(Chan(p), StageOut(n, m, msg), k), k)
    <3> HIDE DEF k, m, msg, p
    <3> QED BY <1>1, <1>2, <1>3, <1>4, <1>5, <2>1, HandlerView, ZenonT(30)
  <2> HIDE DEF k, m, msg, p
  <2> QED BY <1>6, <2>1, <2>2, <2>3, SMTT(20)
<1>8. CASE pass_exchange(n)
  <2>1. /\ m.state = "EXCHANGE"
        /\ Pass(n, Exchange(m, msg), ExchangeOut(m, msg))
    BY <1>8, ZenonT(30) DEF pass_exchange
  <2>2. ExchangeOut(m, msg) \in Seq(Msgs) BY <1>1, ExchangeType, ZenonT(30)
  <2>3. Handles(Chan(n), msg) =>
          View(n, Exchange(m, msg), mlacp[p], Rest(Chan(n), msg),
               Sent(Chan(p), ExchangeOut(m, msg), k), k)
    <3> HIDE DEF k, m, msg, p
    <3> QED BY <1>1, <1>2, <1>3, <1>4, <1>5, <2>1, HandlerView, ZenonT(30)
  <2> HIDE DEF k, m, msg, p
  <2> QED BY <1>6, <2>1, <2>2, <2>3, ZenonT(30)
<1>9. CASE pass_error(n)
  <2>1. m.state = "ERROR" /\ Pass(n, m, <<>>) BY <1>9 DEF pass_error
  <2>2. <<>> \in Seq(Msgs) BY OneMessage
  <2>3. Sent(Chan(p), <<>>, k) = Chan(p) BY <1>3, ConcatEmptySeq, ZenonT(30)
                                            DEF Sent
  <2>4. Handles(Chan(n), msg) =>
          View(n, m, mlacp[p], Rest(Chan(n), msg), Chan(p), k)
    <3> HIDE DEF k, m, msg, p
    <3> QED BY <1>1, <1>2, <1>3, <1>4, <1>5, <2>1, HandlerView, ZenonT(30)
  <2> HIDE DEF k, m, msg, p
  <2> QED BY <1>6, <2>1, <2>2, <2>3, <2>4, Zenon
<1> QED BY <1>7, <1>8, <1>9

\* The first pass of a session.
LEMMA InitStages ==
  ASSUME TypeOK, TcpInv, LayerInv, StageInv, NEW n \in Node, pass_init(n)
  PROVE  StageInv' /\ TcpInv'
<1> DEFINE p == Peer(n)
           m == mlacp[n]
           r == [m EXCEPT !.state = "STAGE1", !.wait = FALSE]
           out == StageOut(n, r, "NULL")
           k == Connected
<1>1. p \in Node /\ p # n /\ m \in MlacpRecords /\ mlacp[p] \in MlacpRecords
  BY PeerNode DEF TypeOK
<1>2. /\ pc[n] = "loop" /\ m.state = "INIT"
      /\ mlacp' = [mlacp EXCEPT ![n] = Stage(n, r, "NULL")]
      /\ Deliver(n, out) /\ UNCHANGED <<sock, open, backlog, iccpvars, mlacpq>>
  BY DEF pass_init
<1>3. role[n] = MyRole(n) /\ sock[n] # NoConn BY <1>2 DEF LayerInv
<1>4. r \in MlacpRecords /\ r.state = "STAGE1" /\ ~r.wait
  BY <1>1, Zenon DEF MlacpRecords, MlacpStates
<1>5. out \in Seq(Msgs) BY <1>4, StageType
<1>6. TcpInv' BY <1>2, <1>5, PassTcp
<1>7. /\ Connected' = k /\ wire'[sock[n]][n] = wire[sock[n]][n]
      /\ Chan(p)' = Sent(Chan(p), out, k)
  BY <1>2, <1>3, <1>5, DeliverChan
<1>8. Chan(n)' = Chan(n) BY <1>2, <1>3, <1>7 DEF Chan
<1>9. mlacp'[n] = Stage(n, r, "NULL") /\ mlacp'[p] = mlacp[p]
  BY <1>1, <1>2, ZenonT(30) DEF TypeOK
<1>10. View(n, m, mlacp[p], Chan(n), Chan(p), k) BY StageView
<1>11. Chan(n) \in Seq(Msgs) /\ Chan(p) \in Seq(Msgs) /\ k \in BOOLEAN
  BY <1>1, ChanType DEF Connected
<1>12. View(n, Stage(n, r, "NULL"), mlacp[p], Chan(n), Sent(Chan(p), out, k), k)
  <2>1. CASE n = Active
    <3>1. Sends(n, r) BY <1>3, <1>4, <2>1 DEF Sends, MyRole
    <3>2. Stage(n, r, "NULL") = r /\ out = <<>>
      BY <3>1 DEF Stage, StageOut, StageSend, StageSendOut
    <3>3. Sent(Chan(p), out, k) = Chan(p)
      BY <1>11, <3>2, ConcatEmptySeq, Zenon DEF Sent
    <3>4. Stages(m, mlacp[p], Chan(n), Chan(p), k) BY <1>10, <2>1, ZenonT(30)
                                                      DEF View
    <3>5. Stages(r, mlacp[p], Chan(n), Chan(p), k)
      <4> HIDE DEF k, m, p
      <4> QED BY <1>1, <1>2, <3>4, ActiveInit, ZenonT(30)
    <3> HIDE DEF k, r, p, out
    <3> QED BY <2>1, <3>2, <3>3, <3>5 DEF View
  <2>2. CASE n # Active
    <3>1. ~Sends(n, r) BY <1>3, <1>4, <2>2 DEF Sends, MyRole
    <3>2. Stage(n, r, "NULL") = [r EXCEPT !.wait = TRUE] /\ out = <<"SYNC_REQUEST">>
      BY <1>4, <3>1 DEF Stage, StageOut, StageRequest, StageRequestOut
    <3>3. [r EXCEPT !.wait = TRUE] = [m EXCEPT !.state = "STAGE1", !.wait = TRUE]
      BY <1>1, Zenon DEF MlacpRecords
    <3>4. Stages(mlacp[p], m, Chan(p), Chan(n), k) BY <1>10, <2>2 DEF View
    <3>5. Stages(mlacp[p], [m EXCEPT !.state = "STAGE1", !.wait = TRUE],
                 Sent(Chan(p), <<"SYNC_REQUEST">>, k), Chan(n), k)
      <4> HIDE DEF k, m, p
      <4> QED BY <1>1, <1>2, <1>11, <3>4, StandbyInit, ZenonT(30)
    <3> HIDE DEF k, r, p, out, m
    <3> QED BY <2>2, <3>2, <3>3, <3>5, Zenon DEF View
  <2> QED BY <2>1, <2>2
<1>13. StageInv'
  <2> HIDE DEF k, r, out, m
  <2> QED BY <1>7, <1>8, <1>9, <1>12, ViewStep, ZenonT(30)
<1> QED BY <1>6, <1>13

\* Attaching and detaching the port: what is sent of it is not "sent" now.
LEMMA PortView ==
  ASSUME NEW n \in Node, NEW m \in MlacpRecords, NEW r \in MlacpRecords, NEW o,
         NEW x, NEW y, NEW k, View(n, m, o, x, y, k), r.state = m.state,
         r.wait = m.wait, r.need = m.need, r.pif = m.pif, r.lif # "sent", PurgeOk(r)
  PROVE  View(n, r, o, x, y, k)
<1>1. ActiveOk(m, x) => ActiveOk(r, x) BY Zenon DEF ActiveOk
<1>2. StandbyOk(m, x) => StandbyOk(r, x) BY Zenon DEF StandbyOk
<1>3. Agree(m, o, x, y) => Agree(r, o, x, y) BY Zenon DEF Agree
<1>4. Agree(o, m, y, x) => Agree(o, r, y, x) BY Zenon DEF Agree
<1>5. PortsOk(m, o, x, y) => PortsOk(r, o, x, y) BY Zenon DEF PortsOk
<1>6. PortsOk(o, m, y, x) => PortsOk(o, r, y, x) BY ZenonT(30) DEF PortsOk
<1> QED BY <1>1, <1>2, <1>3, <1>4, <1>5, <1>6 DEF View, Stages

LEMMA PortStages ==
  ASSUME TypeOK, StageInv, NEW n \in Node, attach(n) \/ detach(n)
  PROVE  StageInv'
<1> DEFINE p == Peer(n)
           m == mlacp[n]
           r == mlacp'[n]
<1>1. p \in Node /\ p # n /\ m \in MlacpRecords BY PeerNode DEF TypeOK
<1>2. UNCHANGED <<sock, wire, mlacpq>> BY DEF attach, detach, tcpvars
<1>3. /\ Chan(n)' = Chan(n) /\ Chan(p)' = Chan(p) /\ Connected' = Connected
  BY <1>2 DEF Chan, Connected
<1>4. mlacp'[p] = mlacp[p] BY <1>1, ZenonT(30) DEF attach, detach, TypeOK
<1>5. /\ r \in MlacpRecords /\ r.state = m.state /\ r.wait = m.wait
      /\ r.need = m.need /\ r.pif = m.pif /\ r.lif # "sent" /\ PurgeOk(r)
  <2>1. CASE attach(n)
    <3>1. r = [m EXCEPT !.lif = "unsent", !.purge = FALSE]
      BY <2>1 DEF attach, TypeOK
    <3> HIDE DEF r, m
    <3> QED BY <1>1, <3>1, Zenon DEF MlacpRecords, PurgeOk
  <2>2. CASE detach(n)
    <3>1. r = [m EXCEPT !.lif = "no", !.purge = (m.state = "EXCHANGE")]
      BY <2>2 DEF detach, TypeOK
    <3> HIDE DEF r, m
    <3> QED BY <1>1, <3>1, ZenonT(30) DEF MlacpRecords, PurgeOk
  <2> QED BY <2>1, <2>2, Zenon
<1>6. View(n, m, mlacp[p], Chan(n), Chan(p), Connected) BY StageView,
                                                           ZenonT(30)
<1>7. View(n, r, mlacp[p], Chan(n), Chan(p), Connected)
  <2> HIDE DEF r, m, p
  <2> QED BY <1>1, <1>5, <1>6, PortView
<1> QED BY <1>3, <1>4, <1>7, ViewStep, ZenonT(30)

(***************************************************************************)
(* The invariant and what follows from it.                                 *)
(***************************************************************************)
SyncInv == TcpInv /\ StageInv

LEMMA SyncInit == Init => SyncInv
<1> SUFFICES ASSUME Init PROVE SyncInv OBVIOUS
<1>1. /\ sock = [n \in Node |-> NoConn] /\ open = [c \in Conn |-> {}]
      /\ backlog = <<>> /\ wire = [c \in Conn |-> [n \in Node |-> <<>>]]
      /\ iccpq = [n \in Node |-> <<>>] /\ mlacpq = [n \in Node |-> <<>>]
      /\ info = [n \in Node |-> InfoReset] /\ mlacp = [n \in Node |-> MlacpInit]
  BY DEF Init
<1>2. Active \in Node /\ Standby \in Node BY Zenon DEF Node
<1>3. TcpInv
  BY <1>1 DEF TcpInv, WiresOk, SocketsOk, BacklogOk, Distinct, InfoReset
<1>4. /\ Chan(Active) = <<>> /\ Chan(Standby) = <<>> /\ Connected = FALSE
      /\ mlacp[Active] = MlacpInit /\ mlacp[Standby] = MlacpInit
  BY <1>1, <1>2, ZenonT(30) DEF Chan, Connected
<1>5. \A w, S : Only(<<>>, S) /\ After(<<>>, w, S) BY SendsFew
<1>6. /\ ActiveOk(MlacpInit, <<>>) /\ StandbyOk(MlacpInit, <<>>)
      /\ PurgeOk(MlacpInit)
  BY <1>5 DEF ActiveOk, StandbyOk, PurgeOk, MlacpInit
<1>7. StageInv BY <1>4, <1>6 DEF StageInv, Stages
<1> QED BY <1>3, <1>7 DEF SyncInv

LEMMA SyncStep ==
  ASSUME TypeOK, LayerInv, SyncInv, [Next]_vars
  PROVE  SyncInv'
<1>0. TcpInv /\ StageInv BY DEF SyncInv
<1>1. CASE UNCHANGED vars
  <2>1. UNCHANGED <<sock, open, backlog, wire, iccp, info, iccpq, mlacp, mlacpq>>
    BY <1>1, Zenon DEF vars, tcpvars, iccpvars, appvars
  <2>2. TcpInv' BY <1>0, <2>1, ZenonT(30)
                   DEF TcpInv, WiresOk, SocketsOk, BacklogOk
  <2>3. StageInv' BY <1>0, <2>1 DEF StageInv, Chan, Connected
  <2> QED BY <2>2, <2>3 DEF SyncInv
<1>2. ASSUME NEW n \in Node, csm_read(n) PROVE SyncInv'
  BY <1>0, <1>2, ReadTcp, ReadStages DEF SyncInv
<1>3. ASSUME NEW n \in Node,
             csm_read_error(n) \/ config_disconnect(n) \/ heartbeat_timeout(n)
      PROVE  SyncInv'
  <2>1. session_disconnect(n)
    BY <1>3 DEF csm_read_error, config_disconnect, heartbeat_timeout
  <2> QED BY <1>0, <2>1, DisconnectTcp, DisconnectStages DEF SyncInv
<1>4. ASSUME NEW n \in Node, server_accept(n) PROVE SyncInv'
  BY <1>0, <1>4, AcceptTcp, AcceptStages DEF SyncInv
<1>5. ASSUME NEW n \in Node, restart(n) PROVE SyncInv'
  BY <1>0, <1>5, RestartTcp, RestartStages DEF SyncInv
<1>6. ASSUME NEW n \in Node, attach(n) \/ detach(n) PROVE SyncInv'
  BY <1>0, <1>6, SameTcp, PortStages DEF SyncInv
<1>7. ASSUME NEW n \in Node, transit_idle(n) \/ transit_accepted(n) PROVE SyncInv'
  <2>1. UNCHANGED <<sock, wire, mlacp, mlacpq>>
    BY <1>7 DEF transit_idle, transit_accepted, tcpvars, appvars
  <2>2. StageInv' BY <1>0, <2>1 DEF StageInv, Chan, Connected
  <2>3. TcpInv' BY <1>0, <1>7, SameTcp
  <2> QED BY <2>2, <2>3, ZenonT(30) DEF SyncInv
<1>8. ASSUME NEW n \in Node, transit_connect(n) PROVE SyncInv'
  BY <1>0, <1>8, ConnectTcp, ConnectStages DEF SyncInv
<1>9. ASSUME NEW n \in Node,
             \/ transit_initialized(n) \/ transit_capsent(n) \/ transit_caprec(n)
             \/ transit_connecting(n) \/ transit_operational(n)
      PROVE  SyncInv'
  <2>1. PICK s \in IccpStates, out \in Seq(Msgs) :
          /\ IccpStep(n, s, out) /\ Only(out, IccpMsgs)
          /\ (/\ iccp[n] \in {"INITIALIZED", "CAPSENT"}
              /\ ~info[n].peer_cap /\ iccpq[n] = <<>>) => s = "CAPSENT"
    BY <1>9, Handshake, SMTT(20)
  <2>2. TcpInv' /\ \E o \in Seq(Msgs) : Only(o, Quiet) /\ Deliver(n, o)
    BY <1>0, <2>1, IccpStepTcp
  <2>3. PICK o \in Seq(Msgs) : Only(o, Quiet) /\ Deliver(n, o) BY <2>2, ZenonT(30)
  <2>4. StageInv' BY <1>0, <2>1, <2>3, IccpStepStages
  <2> QED BY <2>2, <2>4, ZenonT(30) DEF SyncInv
<1>10. ASSUME NEW n \in Node, pass_init(n) PROVE SyncInv'
  BY <1>0, <1>10, InitStages DEF SyncInv
<1>11. ASSUME NEW n \in Node, pass_stage(n) \/ pass_exchange(n) \/ pass_error(n)
       PROVE  SyncInv'
  BY <1>0, <1>11, PassStages, ZenonT(30) DEF SyncInv
<1>12. CASE Next
  BY <1>2, <1>3, <1>4, <1>5, <1>6, <1>7, <1>8, <1>9, <1>10, <1>11, <1>12,
     SMTT(20)
     DEF Next, Step, Transit, Configure, Fault
<1> QED BY <1>1, <1>12

\* The invariant holds of every reachable state, with the types and layers
\* it rests on.
LEMMA Synchronised == Spec => [](TypeOK /\ LayerInv /\ SyncInv)
<1>1. Init => LayerInv
  BY DEF Init, LayerInv, MlacpInit
<1>2. TypeOK /\ LayerInv /\ [Next]_vars => LayerInv' BY LayerStep
<1>3. TypeOK /\ LayerInv /\ SyncInv /\ [Next]_vars => SyncInv' BY SyncStep
<1> QED BY <1>1, <1>2, <1>3, SyncInit, TypeCorrect, PTL DEF Spec

\* Over one connection the stages of the two nodes advance in step, for any
\* number of connection slots and any bound on what is under way.
THEOREM StagesAgree == Spec => []StageAgreement
<1>1. SyncInv => StageAgreement
  BY Zenon DEF SyncInv, StageInv, Stages, Agree, StageAgreement
<1> QED BY <1>1, Synchronised, PTL

\* No pass that does not look at its message dequeues one that carries the
\* peer's configuration or moves its stage: neither the passes of the sender
\* (mlacp_stage_sync_send_handler) nor the one that sends the request.
THEOREM NothingDropped == Spec => []NoSyncMessageDropped
<1>1. TypeOK /\ LayerInv /\ SyncInv => NoSyncMessageDropped
  <2> SUFFICES ASSUME TypeOK, LayerInv, SyncInv, NEW n \in Node, pc[n] = "loop",
                      mlacp[n].state \in {"STAGE1", "STAGE2"}
               PROVE  /\ Sends(n, mlacp[n]) =>
                           Msg(n) \in {"NULL", "HEARTBEAT", "SYNC_REQUEST"}
                      /\ (~Sends(n, mlacp[n]) /\ ~mlacp[n].wait) =>
                           Msg(n) \in {"NULL", "HEARTBEAT"}
    BY ZenonT(30) DEF NoSyncMessageDropped
  <2> DEFINE m == mlacp[n]
             b == mlacpq[n]
  <2>1. role[n] = MyRole(n) /\ sock[n] # NoConn BY ZenonT(30) DEF LayerInv
  <2>2. /\ b \in Seq(MlacpMsgs) /\ b \in Seq(Msgs)
        /\ wire[sock[n]][n] \in Seq(Msgs) /\ Chan(n) = b \o wire[sock[n]][n]
    BY <2>1, ChanType DEF TypeOK, Chan
  <2>3. b # <<>> => /\ Msg(n) \in MlacpMsgs
                    /\ \A S : Only(Chan(n), S) => Msg(n) \in S
    <3> SUFFICES ASSUME b # <<>>
                 PROVE  /\ Msg(n) \in MlacpMsgs
                        /\ \A S : Only(Chan(n), S) => Msg(n) \in S
      OBVIOUS
    <3>1. Msg(n) = Head(b) BY DEF Msg
    <3>2. Head(Chan(n)) = Head(b) /\ Chan(n) # <<>> /\ Chan(n) \in Seq(Msgs)
      <4> DEFINE w == wire[sock[n]][n]
      <4>1. b \in Seq(Msgs) /\ b # <<>> /\ w \in Seq(Msgs) /\ Chan(n) = b \o w
        BY <2>2, Zenon
      <4>2. Chan(n) \in Seq(Msgs) BY ChanType
      <4> HIDE DEF b, w
      <4> QED BY <4>1, <4>2, TailCat, ZenonT(30)
    <3>3. Head(Chan(n)) = Chan(n)[1] /\ 1 \in 1..Len(Chan(n))
      BY <3>2, TailIndex, SMTT(20)
    <3>4. Head(b) \in MlacpMsgs BY <2>2, HeadTailProperties
    <3> QED BY <3>1, <3>2, <3>3, <3>4 DEF Only
  <2>4. b = <<>> => Msg(n) = "NULL" BY DEF Msg
  <2>5. MlacpMsgs \cap Quiet = {"HEARTBEAT"} BY Zenon
                                                DEF MlacpMsgs, Quiet, IccpMsgs
  <2>6. CASE n = Active
    <3>1. ActiveOk(m, Chan(n)) BY <2>6, ZenonT(30)
                                  DEF SyncInv, StageInv, Stages
    <3>2. Sends(n, m) <=> m.state = "STAGE1" BY <2>1, <2>6, Zenon
                                                DEF Sends, MyRole
    <3>3. m.state = "STAGE1" => Only(Chan(n), Quiet \cup {"SYNC_REQUEST"})
      BY <3>1, Zenon DEF ActiveOk
    <3>4. m.state = "STAGE2" /\ ~m.wait => Only(Chan(n), Quiet)
      BY <3>1, Zenon DEF ActiveOk
    <3> HIDE DEF m, b
    <3> QED BY <2>3, <2>4, <2>5, <3>2, <3>3, <3>4, ZenonT(30) DEF m
  <2>7. CASE n = Standby
    <3>1. StandbyOk(m, Chan(n)) BY <2>7, Zenon DEF SyncInv, StageInv, Stages
    <3>2. Sends(n, m) <=> m.state = "STAGE2"
      BY <2>1, <2>7, NodesDiffer, ZenonT(30) DEF Sends, MyRole
    <3>3. m.state = "STAGE2" => Only(Chan(n), Quiet \cup {"SYNC_REQUEST"})
      BY <3>1, ZenonT(30) DEF StandbyOk
    <3>4. m.state = "STAGE1" => m.wait BY <3>1 DEF StandbyOk
    <3> HIDE DEF m, b
    <3> QED BY <2>3, <2>4, <2>5, <3>2, <3>3, <3>4, ZenonT(30) DEF m
  <2> QED BY <2>6, <2>7, ZenonT(30) DEF Node
<1> QED BY <1>1, Synchronised, PTL

\* When everything sent is handled, the peer knows the port whose
\* configuration was sent, however attach, detach, the stages and reconnects
\* were interleaved.
THEOREM PortKnown == Spec => []SentPortKnown
<1>1. TypeOK /\ SyncInv => SentPortKnown
  <2> SUFFICES ASSUME TypeOK, SyncInv, Settled, NEW n \in Node,
                      mlacp[n].lif = "sent"
               PROVE  mlacp[Peer(n)].pif
    BY DEF SentPortKnown
  <2> DEFINE a == mlacp[Active]
             s == mlacp[Standby]
  <2>1. Connected /\ a.state = "EXCHANGE" /\ s.state = "EXCHANGE"
    BY DEF Settled, Node
  <2>2. \A k \in Node : Chan(k) = <<>>
    <3> SUFFICES ASSUME NEW k \in Node PROVE Chan(k) = <<>> BY Zenon
    <3>1. mlacpq[k] = <<>> /\ wire[sock[k]][k] = <<>> BY ZenonT(30) DEF Settled
    <3> QED BY <3>1 DEF Chan
  <2>3. PortsOk(a, s, <<>>, <<>>)
    BY <2>1, <2>2 DEF SyncInv, StageInv, Stages, Node
  <2>4. \A b \in BOOLEAN : Lasts(<<>>, b) => b BY DEF Lasts
  <2>5. a.pif \in BOOLEAN /\ s.pif \in BOOLEAN
    BY DEF TypeOK, Node, MlacpRecords
  <2>6. /\ a.lif = "sent" => Lasts(<<>>, s.pif)
        /\ s.lif = "sent" => Lasts(<<>>, a.pif)
    BY <2>1, <2>3 DEF PortsOk
  <2> QED BY <2>4, <2>5, <2>6, NodesDiffer, ZenonT(30) DEF Node, Peer
<1> QED BY <1>1, Synchronised, PTL
=============================================================================
