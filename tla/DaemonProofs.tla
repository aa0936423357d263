---------------------------- MODULE DaemonProofs ----------------------------
(***************************************************************************)
(* Theorems about the sessions of the daemon: for any number of front      *)
(* ends, descriptors and places, and whoever leaves when, the table of     *)
(* players and the set that select looks at agree, and there is one kind   *)
(* of step, and no other, after which a socket no longer leads to its own  *)
(* player: that leave moves the record of another one.                     *)
(***************************************************************************)
EXTENDS Daemon, TLAPS, WellFoundedInduction

Players == {i \in Slot : i < n_players}

\* A front end that is waiting has no descriptor, one that was accepted has
\* one, and nothing lies in the buffer of a closed one.
Connections ==
    /\ \A f \in FD : sock[f] # "none" => state[sock[f]] \in {"in", "gone"}
    /\ \A f, g \in FD : sock[f] # "none" /\ sock[f] = sock[g] => f = g
    /\ \A f \in FD : sock[f] = "none" => wire[f] = "none"
    /\ \A k \in Client : state[k] \in {"out", "queued"} => named[k] = NoAccount

Safe == TypeOK /\ SocketsInUse /\ Connections

\* The ready sockets that are served are those of players.
Ready ==
    /\ todo \subseteq inputfds
    /\ pc \in {"top", "leave", "poll", "wait"} => todo = {}

\* The tables in order.
InOrder == Routed /\ AccountsKept

-----------------------------------------------------------------------------
(* Lowest descriptors. *)

LEMMA LowestFD ==
    ASSUME NEW S \in SUBSET FD, S # {}
    PROVE  (CHOOSE f \in S : \A g \in S : f <= g) \in S
<1>1. S \subseteq Nat
  BY DaemonAssumption
<1>2. PICK f \in S : \A g \in S : ~(<<g, f>> \in OpToRel(<, Nat))
  BY <1>1, NatLessThanWellFounded, WFMin
<1>3. ASSUME NEW g \in S PROVE f <= g
  <2> DEFINE p == <<g, f>>
  <2>1. g \in Nat /\ f \in Nat /\ p \in Nat \X Nat
    BY <1>1
  <2>2. p \notin {q \in Nat \X Nat : q[1] < q[2]}
    BY <1>2 DEF OpToRel
  <2>3. ~(p[1] < p[2])
    BY <2>1, <2>2
  <2> QED  BY <2>1, <2>3
<1> QED  BY <1>3

LEMMA ServingIsReady ==
    ASSUME TypeOK, todo # {}
    PROVE  /\ Serving \in todo /\ Serving \in FD
           /\ user \in Slot /\ player[user] \in Player /\ Source \in FD
<1>1. Serving \in todo
  BY LowestFD DEF TypeOK, Serving
<1>2. Serving \in FD
  BY <1>1 DEF TypeOK
<1>3. user \in Slot
  BY <1>2 DEF TypeOK, user
<1> QED  BY <1>1, <1>2, <1>3 DEF TypeOK, Player, Source

-----------------------------------------------------------------------------
(* What holds whoever leaves when. *)

LEMMA InitSafe == Init => Safe
<1> SUFFICES ASSUME Init PROVE Safe
  OBVIOUS
<1> USE DaemonAssumption
<1>1. \A i \in Slot : player[i] \in Player
  <2>1. (CHOOSE f \in FD : \A g \in FD : f <= g) \in FD
    BY LowestFD
  <2>2. PICK f \in FD :
            player \in [Slot -> {[socket |-> f, account |-> NoAccount, wantsout |-> FALSE]}]
    BY <2>1 DEF Init
  <2> DEFINE r == [socket |-> f, account |-> NoAccount, wantsout |-> FALSE]
  <2>3. r \in Player
    BY DEF Player
  <2> HIDE DEF r
  <2> QED  BY <2>2, <2>3 DEF r
<1>2. player \in [Slot -> Player]
  BY <1>1 DEF Init
<1>3. n_players = 0 /\ 0 \in Slot /\ 0 \in 0..MAX_PLAYERS
  BY DEF Init, Slot
<1>4. TypeOK
  BY <1>2, <1>3 DEF Init, TypeOK, PC
<1>5. SocketsInUse
  BY DEF Init, SocketsInUse, Slot
<1>6. Connections
  BY DEF Init, Connections
<1> QED  BY <1>4, <1>5, <1>6 DEF Safe

\* A step that leaves sockets and descriptors alone.
LEMMA SameSockets ==
    ASSUME SocketsInUse, UNCHANGED <<n_players, inputfds, sock>>,
           \A i \in Slot : player'[i].socket = player[i].socket
    PROVE  SocketsInUse'
<1>1. {player'[i].socket : i \in {j \in Slot : j < n_players}}
        = {player[i].socket : i \in {j \in Slot : j < n_players}}
  OBVIOUS
<1> QED  BY <1>1 DEF SocketsInUse

\* A request, or the end of input, changes the account of a player's record or
\* that it wants out, and takes a request from a descriptor.
LEMMA ServingKeepsSafe ==
    ASSUME Safe, pc = "serve", todo # {},
           NEW account \in Account \union {NoAccount}, NEW wantsout \in BOOLEAN,
           player' = [player EXCEPT ![user].account = account, ![user].wantsout = wantsout],
           wire' \in {wire, [wire EXCEPT ![Source] = "none"]},
           \/ named' = named
           \/ sock[Source] # "none" /\ named' = [named EXCEPT ![sock[Source]] = account],
           pc' \in PC, dirty' \in BOOLEAN, todo' \subseteq todo,
           UNCHANGED <<next, n_players, fdtoplayer, inputfds, quitafteruser, state, sock>>
    PROVE  Safe'
<1>1. user \in Slot /\ player[user] \in Player /\ Source \in FD
  BY ServingIsReady DEF Safe
<1>2. player' \in [Slot -> Player]
  BY <1>1 DEF Safe, TypeOK, Player
<1>3. \A i \in Slot : player'[i].socket = player[i].socket
  BY <1>1 DEF Safe, TypeOK, Player
<1>4. TypeOK'
  BY <1>1, <1>2 DEF Safe, TypeOK
<1>5. SocketsInUse'
  <2>1. SocketsInUse /\ UNCHANGED <<n_players, inputfds, sock>>
    BY DEF Safe
  <2> QED  BY <1>3, <2>1, SameSockets
<1>6. Connections'
  BY <1>1 DEF Safe, Connections, TypeOK
<1> QED  BY <1>4, <1>5, <1>6 DEF Safe

LEMMA ServeRequestKeepsSafe == Safe /\ ServeRequest => Safe'
<1> SUFFICES ASSUME Safe, ServeRequest PROVE Safe'
  OBVIOUS
<1>1. user \in Slot /\ player[user] \in Player /\ Source \in FD
  BY ServingIsReady DEF Safe, ServeRequest
<1> DEFINE request == wire[Source]
           account == IF request \in Account THEN request ELSE player[user].account
           out == IF request \in Account \/ request # "quit" THEN player[user].wantsout ELSE TRUE
<1>2. account \in Account \union {NoAccount} /\ out \in BOOLEAN
  BY <1>1 DEF Player
<1>3. player' = [player EXCEPT ![user].account = account, ![user].wantsout = out]
  BY <1>1 DEF ServeRequest, Safe, TypeOK, Player
<1>4. \/ named' = named
      \/ sock[Source] # "none" /\ named' = [named EXCEPT ![sock[Source]] = account]
  BY DEF ServeRequest
<1>5. pc' \in PC /\ dirty' \in BOOLEAN /\ todo' \subseteq todo
  BY DEF ServeRequest, PC, Safe, TypeOK
<1> HIDE DEF account, out
<1> QED  BY <1>2, <1>3, <1>4, <1>5, ServingKeepsSafe DEF ServeRequest

LEMMA ServeEndKeepsSafe == Safe /\ ServeEnd => Safe'
<1> SUFFICES ASSUME Safe, ServeEnd PROVE Safe'
  OBVIOUS
<1>1. user \in Slot /\ player[user] \in Player /\ Source \in FD
  BY ServingIsReady DEF Safe, ServeEnd
<1>2. player' = [player EXCEPT ![user].account = player[user].account, ![user].wantsout = TRUE]
  BY <1>1 DEF ServeEnd, Safe, TypeOK, Player
<1>3. player[user].account \in Account \union {NoAccount}
  BY <1>1 DEF Player
<1>4. pc' \in PC /\ dirty' \in BOOLEAN /\ todo' \subseteq todo
  BY DEF ServeEnd, PC, Safe, TypeOK
<1> QED  BY <1>2, <1>3, <1>4, ServingKeepsSafe DEF ServeEnd, netVars

\* Leaving takes the player's socket, and no other, out of the table.
LEMMA LeaveGoesKeepsSafe == Safe /\ LeaveGoes => Safe'
<1> SUFFICES ASSUME Safe, LeaveGoes PROVE Safe'
  OBVIOUS
<1> USE DaemonAssumption
<1> DEFINE f == player[next].socket
<1>1. /\ n_players \in 1..MAX_PLAYERS /\ next \in Slot /\ n_players - 1 \in Slot
      /\ next < n_players /\ n_players' = n_players - 1
  BY DEF Safe, TypeOK, LeaveGoes, Slot
<1>2. /\ n_players \in 1..MAX_PLAYERS /\ next \in Slot /\ n_players - 1 \in Slot
      /\ next < n_players /\ n_players' = n_players - 1
      /\ f \in inputfds /\ f \in FD /\ sock[f] # "none"
  BY <1>1 DEF Safe, TypeOK, SocketsInUse
<1>3. /\ inputfds' = inputfds \ {f}
      /\ sock' = [sock EXCEPT ![f] = "none"] /\ wire' = [wire EXCEPT ![f] = "none"]
      /\ state' = [state EXCEPT ![sock[f]] = "gone"]
      /\ player' = [player EXCEPT ![next] = player[n_players - 1]]
  BY <1>2 DEF LeaveGoes
<1>4. UNCHANGED <<pc, todo, next, fdtoplayer, dirty, quitafteruser, named>>
  BY DEF LeaveGoes, loopVars
<1>5. TypeOK'
  <2>1. n_players' \in 0..MAX_PLAYERS
    BY <1>2
  <2>2. player' \in [Slot -> Player] /\ inputfds' \in SUBSET FD
    BY <1>2, <1>3 DEF Safe, TypeOK
  <2>3. /\ sock' \in [FD -> Client \union {"none"}]
        /\ wire' \in [FD -> Request \union {"none"}]
        /\ state' \in [Client -> {"out", "queued", "in", "gone"}]
    BY <1>2, <1>3 DEF Safe, TypeOK
  <2> QED  BY <1>4, <2>1, <2>2, <2>3 DEF Safe, TypeOK
<1>6. \A i \in Slot : player'[i] = IF i = next THEN player[n_players - 1] ELSE player[i]
  BY <1>3 DEF Safe, TypeOK
<1>7. \A i, j \in Players : player[i].socket = player[j].socket => i = j
  BY DEF Safe, SocketsInUse, Players
<1>8. inputfds' = {player'[i].socket : i \in {j \in Slot : j < n_players'}}
  <2>1. ASSUME NEW g \in inputfds, g # f
        PROVE  \E i \in {j \in Slot : j < n_players'} : player'[i].socket = g
    <3>1. PICK i \in Players : player[i].socket = g
      BY DEF Safe, SocketsInUse, Players
    <3>2. i # next
      BY <2>1, <3>1
    <3>3. CASE i = n_players - 1
      BY <1>2, <1>6, <3>1, <3>2, <3>3 DEF Players, Slot
    <3>4. CASE i # n_players - 1
      BY <1>2, <1>6, <3>1, <3>2, <3>4 DEF Players, Slot
    <3> QED  BY <3>3, <3>4
  <2>2. ASSUME NEW i \in Slot, i < n_players'
        PROVE  player'[i].socket \in inputfds \ {f}
    <3> DEFINE i0 == IF i = next THEN n_players - 1 ELSE i
    <3>1. i0 \in Players /\ i0 # next /\ player'[i] = player[i0]
      BY <1>2, <1>6, <2>2 DEF Players, Slot
    <3>2. player[i0].socket \in inputfds
      BY <3>1 DEF Safe, SocketsInUse, Players
    <3>3. next \in Players
      BY <1>2 DEF Players
    <3> QED  BY <1>7, <3>1, <3>2, <3>3
  <2> QED  BY <1>3, <2>1, <2>2
<1>9. \A i, j \in Slot : i < n_players' /\ j < n_players'
         /\ player'[i].socket = player'[j].socket => i = j
  <2> SUFFICES ASSUME NEW i \in Slot, NEW j \in Slot, i < n_players', j < n_players',
                      player'[i].socket = player'[j].socket
               PROVE  i = j
    OBVIOUS
  <2> DEFINE i0 == IF i = next THEN n_players - 1 ELSE i
             j0 == IF j = next THEN n_players - 1 ELSE j
  <2>1. i0 \in Players /\ j0 \in Players /\ player'[i] = player[i0] /\ player'[j] = player[j0]
    BY <1>2, <1>6 DEF Players, Slot
  <2>2. i0 = j0
    BY <1>7, <2>1
  <2> QED  BY <1>2, <2>2 DEF Slot
<1>10. \A g \in inputfds' : sock'[g] # "none"
  BY <1>3 DEF Safe, TypeOK, SocketsInUse
<1>11. Connections'
  BY <1>2, <1>3, <1>4 DEF Safe, TypeOK, Connections
<1> QED  BY <1>5, <1>8, <1>9, <1>10, <1>11 DEF Safe, SocketsInUse

\* A descriptor that accept gives was in nobody's use.
LEMMA TakeInKeepsSafe ==
    ASSUME Safe, NEW k \in Client, NEW f \in FD, TakeIn(k, f)
    PROVE  Safe'
<1> USE DaemonAssumption
<1>1. /\ n_players \in Slot /\ n_players' = n_players + 1 /\ sock[f] = "none"
      /\ f \notin inputfds /\ state[k] = "queued"
  BY DEF TakeIn, Safe, TypeOK, SocketsInUse, Slot, Accepted, FreeFDs, Queued
<1>2. \A i \in Slot : i # n_players => player'[i] = player[i]
  BY <1>1 DEF TakeIn, Safe, TypeOK
<1>3. player' \in [Slot -> Player]
  <2> DEFINE r == [player[n_players] EXCEPT !.socket = f, !.wantsout = FALSE]
  <2>1. r \in Player
    <3>1. player[n_players] \in Player
      BY <1>1 DEF Safe, TypeOK
    <3>2. \A p \in Player : [p EXCEPT !.socket = f, !.wantsout = FALSE] \in Player
      BY DEF Player
    <3> QED  BY <3>1, <3>2
  <2>2. player' = [player EXCEPT ![n_players] = r]
    BY <1>1 DEF TakeIn, Safe, TypeOK
  <2> HIDE DEF r
  <2> QED  BY <2>1, <2>2 DEF Safe, TypeOK
<1>4. TypeOK'
  <2>1. n_players' \in 0..MAX_PLAYERS /\ pc' \in PC
    BY <1>1 DEF TakeIn, PC, Slot
  <2>2. fdtoplayer' \in [FD -> Slot] /\ inputfds' \in SUBSET FD
    BY <1>1 DEF TakeIn, Safe, TypeOK
  <2>3. /\ sock' \in [FD -> Client \union {"none"}]
        /\ state' \in [Client -> {"out", "queued", "in", "gone"}]
    BY DEF TakeIn, Safe, TypeOK
  <2>4. UNCHANGED <<todo, next, dirty, quitafteruser, wire, named>>
    BY DEF TakeIn, loopVars
  <2> QED  BY <1>3, <2>1, <2>2, <2>3, <2>4 DEF Safe, TypeOK
<1>5. player'[n_players].socket = f
  BY <1>1 DEF TakeIn, Safe, TypeOK, Player
<1>6. \A i \in Slot : i < n_players => player'[i] = player[i]
  BY <1>1, <1>2 DEF Slot
<1>7. SocketsInUse
  BY DEF Safe
<1>8. inputfds' = {player'[i].socket : i \in {j \in Slot : j < n_players'}}
  <2>1. {j \in Slot : j < n_players'} = {j \in Slot : j < n_players} \union {n_players}
    BY <1>1 DEF Slot
  <2>2. {player'[i].socket : i \in {j \in Slot : j < n_players}}
          = {player[i].socket : i \in {j \in Slot : j < n_players}}
    BY <1>6
  <2>3. inputfds' = inputfds \union {f}
    BY DEF TakeIn
  <2> QED  BY <1>5, <1>7, <2>1, <2>2, <2>3 DEF SocketsInUse
<1>9. \A i, j \in Slot : i < n_players' /\ j < n_players'
         /\ player'[i].socket = player'[j].socket => i = j
  <2> SUFFICES ASSUME NEW i \in Slot, NEW j \in Slot, i < n_players', j < n_players',
                      player'[i].socket = player'[j].socket
               PROVE  i = j
    OBVIOUS
  <2>1. n_players \in Nat /\ i \in Nat /\ j \in Nat
    BY <1>1 DEF Slot
  <2>2. CASE i < n_players /\ j < n_players
    BY <1>6, <1>7, <2>2 DEF SocketsInUse
  <2>3. CASE i = n_players /\ j = n_players
    BY <2>3
  <2>4. CASE i < n_players /\ j = n_players
    BY <1>1, <1>5, <1>6, <1>7, <2>4 DEF SocketsInUse
  <2>5. CASE i = n_players /\ j < n_players
    BY <1>1, <1>5, <1>6, <1>7, <2>5 DEF SocketsInUse
  <2> QED  BY <1>1, <2>1, <2>2, <2>3, <2>4, <2>5
<1>10. \A g \in inputfds' : sock'[g] # "none"
  BY <1>1 DEF TakeIn, Safe, TypeOK, SocketsInUse
<1>11. Connections'
  BY <1>1 DEF TakeIn, Safe, TypeOK, Connections
<1> QED  BY <1>4, <1>8, <1>9, <1>10, <1>11 DEF Safe, SocketsInUse

LEMMA TurnDownKeepsSafe ==
    ASSUME Safe, NEW k \in Client, NEW f \in FD, TurnDown(k, f)
    PROVE  Safe'
<1> USE DaemonAssumption
<1>1. /\ n_players \in Slot /\ n_players' = n_players /\ sock[f] = "none"
      /\ f \notin inputfds /\ state[k] = "queued"
  BY DEF TurnDown, Safe, TypeOK, SocketsInUse, Slot, Accepted, FreeFDs, Queued
<1>2. player' \in [Slot -> Player]
  <2> DEFINE r == [player[n_players] EXCEPT !.socket = f]
  <2>1. r \in Player
    <3>1. player[n_players] \in Player
      BY <1>1 DEF Safe, TypeOK
    <3>2. \A p \in Player : [p EXCEPT !.socket = f] \in Player
      BY DEF Player
    <3> QED  BY <3>1, <3>2
  <2>2. player' = [player EXCEPT ![n_players] = r]
    BY <1>1 DEF TurnDown, Safe, TypeOK
  <2> HIDE DEF r
  <2> QED  BY <2>1, <2>2 DEF Safe, TypeOK
<1>3. TypeOK'
  BY <1>1, <1>2 DEF TurnDown, Safe, TypeOK, PC, loopVars
<1>4. \A i \in Slot : i < n_players => player'[i] = player[i]
  BY <1>1 DEF TurnDown, Safe, TypeOK, Slot
<1>5. SocketsInUse'
  BY <1>1, <1>4 DEF TurnDown, Safe, TypeOK, SocketsInUse
<1>6. Connections'
  BY <1>1 DEF TurnDown, Safe, TypeOK, Connections
<1> QED  BY <1>3, <1>5, <1>6 DEF Safe

\* Steps of the main loop that only move on.
LEMMA MovingOnKeepsSafe ==
    ASSUME Safe, TypeOK', UNCHANGED <<tableVars, netVars, named>>
    PROVE  Safe'
<1>1. SocketsInUse'
  BY DEF Safe, SocketsInUse, tableVars, netVars
<1>2. Connections'
  BY DEF Safe, Connections, netVars
<1> QED  BY <1>1, <1>2 DEF Safe

LEMMA MainLoopKeepsSafe == Safe /\ MainLoop => Safe'
<1> SUFFICES ASSUME Safe, MainLoop PROVE Safe'
  OBVIOUS
<1> USE DaemonAssumption
<1>1. CASE Top
  <2>1. pc' \in PC /\ todo' \in SUBSET FD /\ dirty' \in BOOLEAN
    BY <1>1 DEF Top, Safe, TypeOK, PC
  <2>2. UNCHANGED <<next, tableVars, quitafteruser, netVars, named>>
    BY <1>1 DEF Top
  <2>3. TypeOK'
    BY <2>1, <2>2 DEF Safe, TypeOK, tableVars, netVars
  <2> QED  BY <2>2, <2>3, MovingOnKeepsSafe
<1>2. CASE ServeRequest
  BY <1>2, ServeRequestKeepsSafe
<1>3. CASE ServeEnd
  BY <1>3, ServeEndKeepsSafe
<1>4. CASE ServeBroken
  <2>1. TypeOK'
    BY <1>4 DEF ServeBroken, Safe, TypeOK, PC, loopVars, tableVars, netVars
  <2> QED  BY <1>4, <2>1, MovingOnKeepsSafe DEF ServeBroken
<1>5. CASE ServeDone
  <2>1. TypeOK'
    BY <1>5 DEF ServeDone, Safe, TypeOK, PC, tableVars, netVars
  <2> QED  BY <1>5, <2>1, MovingOnKeepsSafe DEF ServeDone
<1>6. CASE LeaveStays
  <2>1. next' \in 0..MAX_PLAYERS
    BY <1>6 DEF LeaveStays, Safe, TypeOK
  <2>2. TypeOK'
    BY <1>6, <2>1 DEF LeaveStays, Safe, TypeOK, tableVars, netVars
  <2> QED  BY <1>6, <2>2, MovingOnKeepsSafe DEF LeaveStays
<1>7. CASE LeaveGoes
  BY <1>7, LeaveGoesKeepsSafe
<1>8. CASE LeaveDone
  <2>1. TypeOK'
    BY <1>8 DEF LeaveDone, Safe, TypeOK, PC, loopVars, tableVars, netVars
  <2> QED  BY <1>8, <2>1, MovingOnKeepsSafe DEF LeaveDone
<1>9. CASE PollNobody
  <2>1. TypeOK'
    BY <1>9 DEF PollNobody, Safe, TypeOK, PC, loopVars, tableVars, netVars
  <2> QED  BY <1>9, <2>1, MovingOnKeepsSafe DEF PollNobody
<1>10. CASE \E k \in Client, f \in FD : TakeIn(k, f) \/ TurnDown(k, f)
  BY <1>10, TakeInKeepsSafe, TurnDownKeepsSafe
<1>11. CASE \E k \in Client : ShutOut(k)
  <2>1. PICK k \in Client : ShutOut(k)
    BY <1>11
  <2>2. state[k] = "queued" /\ state' = [state EXCEPT ![k] = "gone"]
    BY <2>1 DEF ShutOut, Queued
  <2>3. UNCHANGED <<pc, loopVars, tableVars, dirty, quitafteruser, sock, wire, named>>
    BY <2>1 DEF ShutOut
  <2>4. TypeOK'
    BY <2>2, <2>3 DEF Safe, TypeOK, loopVars, tableVars
  <2>5. SocketsInUse'
    BY <2>3 DEF Safe, SocketsInUse, tableVars
  <2>6. Connections'
    BY <2>2, <2>3 DEF Safe, TypeOK, Connections
  <2> QED  BY <2>4, <2>5, <2>6 DEF Safe
<1>12. CASE AcceptFails
  <2>1. TypeOK'
    BY <1>12 DEF AcceptFails, Safe, TypeOK, PC, loopVars, tableVars, netVars
  <2> QED  BY <1>12, <2>1, MovingOnKeepsSafe DEF AcceptFails
<1> QED  BY <1>1, <1>2, <1>3, <1>4, <1>5, <1>6, <1>7, <1>8, <1>9, <1>10, <1>11, <1>12
         DEF MainLoop, Serve, Leave, NewPlayer

LEMMA ConnectKeepsSafe ==
    ASSUME Safe, NEW k \in Client, Connect(k)
    PROVE  Safe'
<1>1. TypeOK'
  BY DEF Connect, Safe, TypeOK, loopVars, tableVars
<1>2. SocketsInUse'
  BY DEF Connect, Safe, SocketsInUse, tableVars
<1>3. Connections'
  BY DEF Connect, Safe, TypeOK, Connections
<1> QED  BY <1>1, <1>2, <1>3 DEF Safe

LEMMA SendKeepsSafe ==
    ASSUME Safe, NEW f \in FD, NEW request \in Request, Send(f, request)
    PROVE  Safe'
<1>1. TypeOK'
  BY DEF Send, Safe, TypeOK, loopVars, tableVars
<1>2. SocketsInUse'
  BY DEF Send, Safe, SocketsInUse, tableVars
<1>3. Connections'
  BY DEF Send, Safe, TypeOK, Connections
<1> QED  BY <1>1, <1>2, <1>3 DEF Safe

LEMMA HangUpKeepsSafe ==
    ASSUME Safe, NEW f \in FD, HangUp(f)
    PROVE  Safe'
<1> USE DaemonAssumption
<1>1. sock[f] \in Client /\ state[sock[f]] = "in"
  BY DEF HangUp, HungUp, Safe, TypeOK, Connections
<1>2. TypeOK'
  BY DEF HangUp, Safe, TypeOK, loopVars, tableVars
<1>3. SocketsInUse'
  BY DEF HangUp, Safe, SocketsInUse, tableVars
<1>4. Connections'
  BY <1>1 DEF HangUp, Safe, TypeOK, Connections
<1> QED  BY <1>2, <1>3, <1>4 DEF Safe

LEMMA NextKeepsSafe == Safe /\ [Next]_vars => Safe'
<1> SUFFICES ASSUME Safe, [Next]_vars PROVE Safe'
  OBVIOUS
<1>1. CASE MainLoop
  BY <1>1, MainLoopKeepsSafe
<1>2. CASE FrontEnds
  BY <1>2, ConnectKeepsSafe, SendKeepsSafe, HangUpKeepsSafe DEF FrontEnds
<1>3. CASE Interrupt
  <2>1. TypeOK'
    BY <1>3 DEF Interrupt, Safe, TypeOK, PC, loopVars, tableVars, netVars
  <2> QED  BY <1>3, <2>1, MovingOnKeepsSafe DEF Interrupt
<1>4. CASE UNCHANGED vars
  <2>1. TypeOK'
    BY <1>4 DEF Safe, TypeOK, vars
  <2> QED  BY <1>4, <2>1, MovingOnKeepsSafe DEF vars, tableVars, netVars
<1> QED  BY <1>1, <1>2, <1>3, <1>4 DEF Next

-----------------------------------------------------------------------------
(* What is in order, and how it comes to be otherwise. *)

\* Whoever leaves when, only sockets of players are served.
LEMMA NextKeepsReady == Safe /\ Ready /\ [Next]_vars => Ready'
<1> SUFFICES ASSUME Safe, Ready, [Next]_vars PROVE Ready'
  OBVIOUS
<1>1. CASE Top
  BY <1>1 DEF Top, Ready, tableVars
<1>2. CASE ServeRequest \/ ServeEnd
  BY <1>2 DEF ServeRequest, ServeEnd, Ready
<1>3. CASE ServeBroken \/ ServeDone
  BY <1>3 DEF ServeBroken, ServeDone, Ready, loopVars, tableVars
<1>4. CASE Leave
  BY <1>4 DEF Leave, LeaveStays, LeaveGoes, LeaveDone, Ready, loopVars, tableVars
<1>5. CASE NewPlayer
  <2>1. ASSUME NEW k \in Client, NEW f \in FD, TakeIn(k, f) \/ TurnDown(k, f) PROVE Ready'
    BY <2>1 DEF TakeIn, TurnDown, Ready, loopVars
  <2>2. ASSUME NEW k \in Client, ShutOut(k) PROVE Ready'
    BY <2>2 DEF ShutOut, Ready, loopVars, tableVars
  <2>3. CASE PollNobody \/ AcceptFails
    BY <2>3 DEF PollNobody, AcceptFails, Ready, loopVars, tableVars
  <2> QED  BY <1>5, <2>1, <2>2, <2>3 DEF NewPlayer
<1>6. CASE FrontEnds
  BY <1>6 DEF FrontEnds, Connect, HangUp, Send, Ready, loopVars, tableVars
<1>7. CASE Interrupt
  BY <1>7 DEF Interrupt, Ready, loopVars, tableVars
<1>8. CASE UNCHANGED vars
  BY <1>8 DEF Ready, vars
<1> QED  BY <1>1, <1>2, <1>3, <1>4, <1>5, <1>6, <1>7, <1>8 DEF Next, MainLoop, Serve

\* Steps that leave the tables, the sockets and the accounts alone.
LEMMA SameTables ==
    ASSUME InOrder, UNCHANGED <<tableVars, sock, named>>
    PROVE  InOrder'
BY DEF InOrder, Routed, AccountsKept, tableVars

\* The socket that is served is a player's, and it is read from itself.
LEMMA ServingOwnSocket ==
    ASSUME Safe, Ready, Routed, pc = "serve", todo # {}
    PROVE  /\ Source \in inputfds /\ sock[Source] # "none" /\ user = fdtoplayer[Source]
           /\ \A g \in inputfds : g # Source => fdtoplayer[g] # user
           /\ \A g \in inputfds : g # Source => sock[g] # sock[Source]
<1>1. Serving \in todo /\ user \in Slot /\ Source \in FD
  BY ServingIsReady DEF Safe
<1>2. Serving \in inputfds /\ Source = Serving
  BY <1>1 DEF Ready, Routed, user, Source
<1>3. sock[Source] # "none"
  BY <1>2 DEF Safe, SocketsInUse
<1>4. player[user].socket = Source /\ user = fdtoplayer[Source]
  BY <1>2 DEF Source, user
<1>5. \A g \in inputfds : g # Source => fdtoplayer[g] # user
  BY <1>2, <1>4 DEF Routed
<1>6. \A g \in inputfds : g # Source => sock[g] # sock[Source]
  BY <1>1, <1>2, <1>3 DEF Safe, TypeOK, Connections
<1> QED  BY <1>2, <1>3, <1>4, <1>5, <1>6

\* An account goes to the record of the socket it was named on.
LEMMA ServeRequestKeepsOrder ==
    ASSUME Safe, Ready, InOrder, ServeRequest
    PROVE  InOrder'
<1> DEFINE request == wire[Source]
<1>1. /\ Source \in inputfds /\ sock[Source] # "none" /\ user = fdtoplayer[Source]
      /\ \A g \in inputfds : g # Source => fdtoplayer[g] # user
      /\ \A g \in inputfds : g # Source => sock[g] # sock[Source]
  BY ServingOwnSocket DEF ServeRequest, InOrder
<1>2. /\ user \in Slot /\ player \in [Slot -> Player]
      /\ named \in [Client -> Account \union {NoAccount}] /\ sock[Source] \in Client
      /\ inputfds \subseteq FD
  BY <1>1, ServingIsReady DEF Safe, ServeRequest, TypeOK
<1>3. UNCHANGED <<n_players, fdtoplayer, inputfds, sock>>
  BY DEF ServeRequest
<1>4. \A i \in Slot : player'[i].socket = player[i].socket
  BY <1>2 DEF ServeRequest, Player
<1>5. \A i \in Slot : player'[i].account =
          IF request \in Account /\ i = user THEN request ELSE player[i].account
  BY <1>2 DEF ServeRequest, Player
<1>6. \A k \in Client : named'[k] =
          IF request \in Account /\ k = sock[Source] THEN request ELSE named[k]
  BY <1>2 DEF ServeRequest
<1>7. Routed'
  BY <1>3, <1>4 DEF InOrder, Routed, Safe, TypeOK
<1>8. AccountsKept'
  <2> SUFFICES ASSUME NEW f \in inputfds
               PROVE  named'[sock[f]] \in {NoAccount, player'[fdtoplayer[f]].account}
    BY <1>3 DEF AccountsKept
  <2>1. /\ sock[f] \in Client /\ fdtoplayer[f] \in Slot
        /\ named[sock[f]] \in {NoAccount, player[fdtoplayer[f]].account}
    BY <1>2 DEF InOrder, AccountsKept, Safe, TypeOK, SocketsInUse
  <2>2. CASE f = Source
    BY <1>1, <1>5, <1>6, <2>1, <2>2
  <2>3. CASE f # Source
    BY <1>1, <1>5, <1>6, <2>1, <2>3
  <2> QED  BY <2>2, <2>3
<1> QED  BY <1>7, <1>8 DEF InOrder

LEMMA ServeEndKeepsOrder ==
    ASSUME Safe, InOrder, ServeEnd
    PROVE  InOrder'
<1>1. player \in [Slot -> Player] /\ user \in Slot
  BY ServingIsReady DEF Safe, ServeEnd, TypeOK
<1>2. UNCHANGED <<n_players, fdtoplayer, inputfds, sock, named>>
  BY DEF ServeEnd, netVars
<1>3. \A i \in Slot : player'[i].socket = player[i].socket /\ player'[i].account = player[i].account
  BY <1>1 DEF ServeEnd, Player
<1> QED  BY <1>2, <1>3 DEF InOrder, Routed, AccountsKept, Safe, TypeOK

\* When the last player of the table goes nobody is moved.
LEMMA LastGoesKeepsOrder ==
    ASSUME Safe, InOrder, LeaveGoes, ~MovesAnother
    PROVE  InOrder'
<1> USE DaemonAssumption
<1> DEFINE f == player[next].socket
<1>1. /\ n_players \in 1..MAX_PLAYERS /\ next \in Slot /\ next \in Players
      /\ n_players' = n_players - 1 /\ next < n_players
  BY DEF Safe, TypeOK, LeaveGoes, Slot, Players
<1>2. next = n_players - 1
  BY <1>1 DEF LeaveGoes, MovesAnother, Slot
<1>3. f \in inputfds /\ f \in FD /\ sock[f] # "none"
  BY <1>1 DEF Safe, SocketsInUse, TypeOK, Players
<1>4. player' = player
  <2>1. player' = [player EXCEPT ![next] = player[next]]
    BY <1>2 DEF LeaveGoes
  <2> QED  BY <2>1 DEF Safe, TypeOK
<1>5. /\ inputfds' = inputfds \ {f} /\ sock' = [sock EXCEPT ![f] = "none"]
      /\ UNCHANGED <<fdtoplayer, named>>
  BY <1>3 DEF LeaveGoes
<1>6. \A g \in inputfds' : g \in inputfds /\ g \in FD /\ g # f /\ sock'[g] = sock[g]
  BY <1>5 DEF Safe, TypeOK
<1>7. Routed'
  <2> SUFFICES ASSUME NEW g \in inputfds'
               PROVE  fdtoplayer[g] < n_players - 1 /\ player[fdtoplayer[g]].socket = g
    BY <1>1, <1>4, <1>5 DEF Routed
  <2>1. fdtoplayer[g] < n_players /\ player[fdtoplayer[g]].socket = g /\ fdtoplayer[g] \in Slot
    BY <1>6 DEF InOrder, Routed, Safe, TypeOK
  <2>2. fdtoplayer[g] # next
    BY <1>6, <2>1
  <2> QED  BY <1>1, <1>2, <2>1, <2>2 DEF Slot
<1>8. AccountsKept'
  BY <1>4, <1>5, <1>6 DEF AccountsKept, InOrder
<1> QED  BY <1>7, <1>8 DEF InOrder

\* When another one goes, the last player's socket leads past the table.
LEMMA MoveDisorders ==
    ASSUME Safe, Routed, MovesAnother, [Next]_vars
    PROVE  ~Routed'
<1> USE DaemonAssumption
<1>1. n_players \in Int /\ n_players' < n_players
  BY DEF Safe, TypeOK, MovesAnother
<1>2. LeaveGoes
  <2>1. n_players' # n_players
    BY <1>1
  <2>2. pc = "leave"
    BY DEF MovesAnother
  <2> QED
    BY <2>1, <2>2 DEF Next, MainLoop, Top, Serve, ServeRequest, ServeEnd, ServeBroken, ServeDone,
          Leave, LeaveStays, LeaveDone, NewPlayer, PollNobody, TakeIn, TurnDown, ShutOut, AcceptFails,
          FrontEnds, Connect, HangUp, Send, Interrupt, vars, tableVars
<1> DEFINE last == n_players - 1
           f == player[next].socket
           g == player[last].socket
<1>3. /\ next \in Players /\ last \in Players /\ next # last /\ n_players' = last /\ last \in Int
  BY <1>2 DEF LeaveGoes, MovesAnother, Safe, TypeOK, Players, Slot
<1>4. f \in inputfds /\ g \in inputfds /\ g # f
  BY <1>3 DEF Safe, SocketsInUse, Players
<1>5. inputfds' = inputfds \ {f} /\ fdtoplayer' = fdtoplayer
  BY <1>2, <1>4 DEF LeaveGoes
<1>6. fdtoplayer[g] = last
  <2>1. fdtoplayer[g] \in Players
    BY <1>4 DEF Safe, TypeOK, Routed, Players
  <2>2. player[fdtoplayer[g]].socket = player[last].socket
    BY <1>4 DEF Routed
  <2> HIDE DEF last, f, g
  <2> QED  BY <1>3, <2>1, <2>2 DEF Safe, SocketsInUse, Players
<1> HIDE DEF last, f, g
<1>7. g \in inputfds' /\ ~(fdtoplayer'[g] < n_players')
  BY <1>3, <1>4, <1>5, <1>6
<1> QED  BY <1>7 DEF Routed

\* A descriptor and a record that are used again lead to each other, and the
\* new front end has not named an account yet.
LEMMA TakeInKeepsOrder ==
    ASSUME Safe, InOrder, NEW k \in Client, NEW f \in FD, TakeIn(k, f)
    PROVE  InOrder'
<1> USE DaemonAssumption
<1>1. /\ n_players \in Slot /\ n_players \in Nat /\ n_players' = n_players + 1
      /\ sock[f] = "none" /\ state[k] = "queued" /\ named[k] = NoAccount
  BY DEF TakeIn, Safe, TypeOK, Slot, Accepted, FreeFDs, Queued, Connections
<1>2. \A i \in Slot : i # n_players => player'[i] = player[i]
  BY <1>1 DEF TakeIn, Safe, TypeOK
<1>3. player'[n_players].socket = f
  BY <1>1 DEF TakeIn, Safe, TypeOK, Player
<1>4. /\ fdtoplayer' = [fdtoplayer EXCEPT ![f] = n_players]
      /\ inputfds' = inputfds \union {f}
      /\ sock' = [sock EXCEPT ![f] = k] /\ UNCHANGED named
  BY DEF TakeIn
<1>5. fdtoplayer'[f] = n_players /\ sock'[f] = k
  BY <1>4 DEF Safe, TypeOK
<1>6. ASSUME NEW g \in inputfds
      PROVE  /\ fdtoplayer'[g] = fdtoplayer[g] /\ fdtoplayer[g] \in Slot /\ fdtoplayer[g] < n_players
             /\ player'[fdtoplayer[g]] = player[fdtoplayer[g]] /\ sock'[g] = sock[g]
  <2>1. g \in FD /\ g # f
    BY <1>1 DEF Safe, TypeOK, SocketsInUse
  <2>2. fdtoplayer'[g] = fdtoplayer[g] /\ fdtoplayer[g] \in Slot /\ fdtoplayer[g] < n_players
    BY <1>4, <2>1 DEF Safe, TypeOK, InOrder, Routed
  <2>3. sock'[g] = sock[g]
    BY <1>4, <2>1 DEF Safe, TypeOK
  <2>4. fdtoplayer[g] # n_players
    BY <1>1, <2>2 DEF Slot
  <2> QED  BY <1>2, <2>2, <2>3, <2>4
<1>7. Routed'
  <2>1. ASSUME NEW g \in inputfds
        PROVE  fdtoplayer'[g] < n_players' /\ player'[fdtoplayer'[g]].socket = g
    <3>1. player[fdtoplayer[g]].socket = g
      BY DEF InOrder, Routed
    <3> QED  BY <1>1, <1>6, <3>1 DEF Slot
  <2>2. fdtoplayer'[f] < n_players' /\ player'[fdtoplayer'[f]].socket = f
    BY <1>1, <1>3, <1>5
  <2> QED  BY <1>4, <2>1, <2>2 DEF Routed
<1>8. AccountsKept'
  <2>1. ASSUME NEW g \in inputfds
        PROVE  named[sock'[g]] \in {NoAccount, player'[fdtoplayer'[g]].account}
    BY <1>6 DEF InOrder, AccountsKept
  <2>2. named[sock'[f]] = NoAccount
    BY <1>1, <1>5
  <2> QED  BY <1>4, <2>1, <2>2 DEF AccountsKept
<1> QED  BY <1>7, <1>8 DEF InOrder

LEMMA TurnDownKeepsOrder ==
    ASSUME Safe, InOrder, NEW k \in Client, NEW f \in FD, TurnDown(k, f)
    PROVE  InOrder'
<1> USE DaemonAssumption
<1>1. /\ n_players \in Slot /\ n_players' = n_players /\ sock[f] = "none"
  BY DEF TurnDown, Safe, TypeOK, Slot, Accepted, FreeFDs
<1>2. \A i \in Slot : i < n_players => player'[i] = player[i]
  BY <1>1 DEF TurnDown, Safe, TypeOK, Slot
<1>3. sock' = [sock EXCEPT ![f] = k] /\ UNCHANGED <<fdtoplayer, inputfds, named>>
  BY DEF TurnDown
<1>4. ASSUME NEW g \in inputfds
      PROVE  /\ player'[fdtoplayer[g]] = player[fdtoplayer[g]] /\ fdtoplayer[g] < n_players
             /\ sock'[g] = sock[g]
  <2>1. g \in FD /\ sock[g] # "none"
    BY DEF Safe, TypeOK, SocketsInUse
  <2>2. fdtoplayer[g] \in Slot /\ fdtoplayer[g] < n_players
    BY <2>1 DEF Safe, TypeOK, InOrder, Routed
  <2> QED  BY <1>1, <1>2, <1>3, <2>1, <2>2 DEF Safe, TypeOK
<1>5. Routed'
  BY <1>1, <1>3, <1>4 DEF InOrder, Routed
<1>6. AccountsKept'
  BY <1>3, <1>4 DEF InOrder, AccountsKept
<1> QED  BY <1>5, <1>6 DEF InOrder

\* Every other step keeps the order.
LEMMA NextKeepsOrder == Safe /\ Ready /\ InOrder /\ [Next]_vars /\ ~MovesAnother => InOrder'
<1> SUFFICES ASSUME Safe, Ready, InOrder, [Next]_vars, ~MovesAnother PROVE InOrder'
  OBVIOUS
<1>1. CASE Top \/ ServeBroken \/ ServeDone \/ LeaveStays \/ LeaveDone \/ PollNobody \/ AcceptFails
  BY <1>1, SameTables DEF Top, ServeBroken, ServeDone, LeaveStays, LeaveDone, PollNobody, AcceptFails, netVars
<1>2. CASE ServeRequest
  BY <1>2, ServeRequestKeepsOrder
<1>3. CASE ServeEnd
  BY <1>3, ServeEndKeepsOrder
<1>4. CASE LeaveGoes
  BY <1>4, LastGoesKeepsOrder
<1>5. CASE \E k \in Client, f \in FD : TakeIn(k, f) \/ TurnDown(k, f)
  BY <1>5, TakeInKeepsOrder, TurnDownKeepsOrder
<1>6. CASE \E k \in Client : ShutOut(k)
  BY <1>6, SameTables DEF ShutOut
<1>7. CASE FrontEnds \/ Interrupt
  BY <1>7, SameTables DEF FrontEnds, Connect, HangUp, Send, Interrupt, netVars
<1>8. CASE UNCHANGED vars
  BY <1>8, SameTables DEF vars, tableVars
<1> QED  BY <1>1, <1>2, <1>3, <1>4, <1>5, <1>6, <1>7, <1>8 DEF Next, MainLoop, Serve, Leave, NewPlayer

LEMMA AtFirst == Init => Ready /\ InOrder
<1> SUFFICES ASSUME Init PROVE Ready /\ InOrder
  OBVIOUS
<1>1. inputfds = {} /\ todo = {}
  BY DEF Init
<1> QED  BY <1>1 DEF Ready, InOrder, Routed, AccountsKept

\* What is served runs under the account that the record of its own player has.
LEMMA OrderServesAsNamed == Safe /\ Ready /\ InOrder => ServedAsNamed
<1> SUFFICES ASSUME Safe, Ready, InOrder, pc = "serve", todo # {}
             PROVE  named[sock[Source]] \in {NoAccount, player[user].account}
  BY DEF ServedAsNamed
<1> QED  BY ServingOwnSocket DEF InOrder, AccountsKept

LEMMA AlwaysSafe == Spec => [](Safe /\ Ready)
BY InitSafe, NextKeepsSafe, AtFirst, NextKeepsReady, PTL DEF Spec

-----------------------------------------------------------------------------

\* The main loop never leaves its variables' types: indices stay in the tables
\* (player, fdtoplayer), whatever front ends do and whatever the sizes.
THEOREM TypeCorrect == Spec => []TypeOK
<1>1. Safe => TypeOK
  BY DEF Safe
<1> QED  BY InitSafe, NextKeepsSafe, <1>1, PTL DEF Spec

\* Whoever leaves when, the sockets that select looks at are those of the
\* players of the table, each of one player, and none of them is closed.
THEOREM SocketsAgree == Spec => []SocketsInUse
<1>1. Safe => SocketsInUse
  BY DEF Safe
<1> QED  BY InitSafe, NextKeepsSafe, <1>1, PTL DEF Spec

\* Whoever comes, goes and fails, in any order and any number: only that leave
\* moves the record of another player takes a socket away from its own record,
\* or an account from the front end that named it (socketbe.c:142).
THEOREM OnlyMovesDisorder == Spec => DisorderedByMovesOnly
<1>1. ASSUME Safe /\ Ready, [Next]_vars
      PROVE  [Routed /\ AccountsKept => (Routed /\ AccountsKept)' \/ MovesAnother]_vars
  BY <1>1, NextKeepsOrder DEF InOrder
<1> QED  BY <1>1, AlwaysSafe, PTL DEF Spec, DisorderedByMovesOnly

\* And it always does: where every socket led to its own record, each such move
\* leaves one that leads past the end of the table.
THEOREM MovesAlwaysDisorder == Spec => [][Routed /\ MovesAnother => ~Routed']_vars
<1>1. ASSUME Safe /\ Ready, [Next]_vars
      PROVE  [Routed /\ MovesAnother => ~Routed']_vars
  BY <1>1, MoveDisorders
<1> QED  BY <1>1, AlwaysSafe, PTL DEF Spec

\* So every request runs under the account that its front end has named until
\* leave first moves a record, however many leave and whoever arrives.
THEOREM ServedAsNamedUntilMoved == Spec /\ [][~MovesAnother]_vars => []ServedAsNamed
<1>1. ASSUME Safe /\ Ready, InOrder, [Next]_vars, [~MovesAnother]_vars
      PROVE  InOrder'
  <2>1. CASE ~MovesAnother
    BY <1>1, <2>1, NextKeepsOrder
  <2>2. CASE UNCHANGED vars
    BY <1>1, <2>2, SameTables DEF vars, tableVars
  <2> QED  BY <1>1, <2>1, <2>2
<1>2. Safe /\ Ready /\ InOrder => ServedAsNamed
  BY OrderServesAsNamed
<1> QED  BY <1>1, <1>2, AlwaysSafe, AtFirst, PTL DEF Spec
=============================================================================
