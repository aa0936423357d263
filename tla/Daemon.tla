------------------------------- MODULE Daemon -------------------------------
(***************************************************************************)
(* The sessions of backenddaemon (bed.c, socketbe.c): the main loop that   *)
(* selects among the sockets of the front ends, serves one request of each *)
(* ready one, lets the front ends out that want to leave and takes a new   *)
(* one in, and the tables that go with it: player, n_players, fdtoplayer,  *)
(* inputfds.  The process that answers requests is abstracted to: a        *)
(* request changes memory, names an account, or quits.                     *)
(*                                                                         *)
(* A front end has one request under way at a time, as the FEBE clients    *)
(* do (a second one would wait in the buffer of the FILE, where select     *)
(* does not see it), and completes the metaprotocol as soon as it is       *)
(* accepted, well or badly.                                                *)
(***************************************************************************)
EXTENDS Integers

CONSTANTS
    Client,         \* front ends, each of one session
    FD,             \* socket descriptors, as the system hands them out
    MAX_PLAYERS,
    Account,
    NoAccount,      \* the zero account of a static player record
    Orderly         \* TRUE: one front end leaves at a time, the newest first,
                    \* and none arrives meanwhile

ASSUME DaemonAssumption ==
    /\ FD \subseteq Nat
    /\ FD # {}
    /\ MAX_PLAYERS \in Nat \ {0}
    /\ NoAccount \notin Account
    /\ Account \intersect {"work", "quit", "none"} = {}
    /\ "none" \notin Client
    /\ Orderly \in BOOLEAN

Slot == 0..(MAX_PLAYERS - 1)

Request == {"work", "quit"} \union Account

Player == [socket : FD, account : Account \union {NoAccount}, wantsout : BOOLEAN]

VARIABLES
    pc,             \* where the main loop is
    todo,           \* inputfds2: ready sockets still to be served
    next,           \* the index of leave's loop
    n_players,
    player,         \* inp and outp are streams on the socket of the record
    fdtoplayer,
    inputfds,
    dirty,          \* memory differs from the disk
    quitafteruser,
    state,          \* of a client: "out", "queued", "in" or "gone"
    sock,           \* the client at the other end of a descriptor, or "none"
    wire,           \* the request that waits on a descriptor, or "none"
    named           \* history: the account a client has named, or NoAccount

vars == <<pc, todo, next, n_players, player, fdtoplayer, inputfds, dirty,
          quitafteruser, state, sock, wire, named>>

loopVars == <<todo, next>>
tableVars == <<n_players, player, fdtoplayer, inputfds>>
netVars == <<state, sock, wire>>

PC == {"top", "serve", "leave", "poll", "wait", "exited", "crashed"}

TypeOK ==
    /\ pc \in PC
    /\ todo \in SUBSET FD
    /\ next \in 0..MAX_PLAYERS
    /\ n_players \in 0..MAX_PLAYERS
    /\ player \in [Slot -> Player]
    /\ fdtoplayer \in [FD -> Slot]
    /\ inputfds \in SUBSET FD
    /\ dirty \in BOOLEAN
    /\ quitafteruser \in BOOLEAN
    /\ state \in [Client -> {"out", "queued", "in", "gone"}]
    /\ sock \in [FD -> Client \union {"none"}]
    /\ wire \in [FD -> Request \union {"none"}]
    /\ named \in [Client -> Account \union {NoAccount}]

\* main: the daemon waits for its first front end.  (The sockets of records not
\* yet used are read by nobody.)
Init ==
    /\ pc = "wait"
    /\ todo = {}
    /\ next = 0
    /\ n_players = 0
    /\ player \in [Slot -> {[socket |-> f, account |-> NoAccount, wantsout |-> FALSE] :
                              f \in {CHOOSE f \in FD : \A g \in FD : f <= g}}]
    /\ fdtoplayer = [f \in FD |-> 0]
    /\ inputfds = {}
    /\ dirty = FALSE
    /\ quitafteruser = FALSE
    /\ state = [k \in Client |-> "out"]
    /\ sock = [f \in FD |-> "none"]
    /\ wire = [f \in FD |-> "none"]
    /\ named = [k \in Client |-> NoAccount]

Running == pc \notin {"exited", "crashed"}

-----------------------------------------------------------------------------
(* Front ends. *)

HungUp(f) == sock[f] # "none" /\ state[sock[f]] = "gone"

LeavingOn(f) == HungUp(f) \/ wire[f] = "quit"

Leaving == \/ \E f \in inputfds : LeavingOn(f)
           \/ \E i \in Slot : i < n_players /\ player[i].wantsout

Newest(f) == n_players > 0 /\ player[n_players - 1].socket = f

MayArrive == Orderly => ~Leaving

MayLeave(f) == Orderly => /\ ~Leaving
                          /\ Newest(f)
                          /\ \A k \in Client : state[k] # "queued"

Connect(k) ==
    /\ Running /\ MayArrive
    /\ state[k] = "out"
    /\ state' = [state EXCEPT ![k] = "queued"]
    /\ UNCHANGED <<pc, loopVars, tableVars, dirty, quitafteruser, sock, wire, named>>

Send(f, request) ==
    /\ Running
    /\ f \in inputfds /\ sock[f] # "none" /\ ~HungUp(f) /\ wire[f] = "none"
    /\ request = "quit" => MayLeave(f)
    /\ wire' = [wire EXCEPT ![f] = request]
    /\ UNCHANGED <<pc, loopVars, tableVars, dirty, quitafteruser, state, sock, named>>

\* The front end is gone; a request it had sent may still be there.
HangUp(f) ==
    /\ Running /\ MayLeave(f)
    /\ f \in inputfds /\ sock[f] # "none" /\ ~HungUp(f)
    /\ state' = [state EXCEPT ![sock[f]] = "gone"]
    /\ UNCHANGED <<pc, loopVars, tableVars, dirty, quitafteruser, sock, wire, named>>

-----------------------------------------------------------------------------
(* The main loop. *)

\* Slips: the loop over the descriptors ends one early; nothing is flushed.
TopShort ==
    /\ pc = "top"
    /\ \/ /\ n_players < 1
          /\ dirty' = FALSE
          /\ pc' = "wait"
          /\ UNCHANGED todo
       \/ /\ n_players >= 1
          /\ todo' = {f \in inputfds : /\ wire[f] # "none" \/ HungUp(f)
                                       /\ \E g \in inputfds : f < g}
          /\ pc' = "serve"
          /\ UNCHANGED dirty
    /\ UNCHANGED <<next, tableVars, quitafteruser, netVars, named>>

TopNoFlush ==
    /\ pc = "top"
    /\ \/ /\ n_players < 1
          /\ pc' = "wait"
          /\ UNCHANGED todo
       \/ /\ n_players >= 1
          /\ todo' = {f \in inputfds : wire[f] # "none" \/ HungUp(f)}
          /\ pc' = "serve"
    /\ UNCHANGED <<next, tableVars, dirty, quitafteruser, netVars, named>>

\* With no players: diskflush, and wait for one.  Otherwise select, which
\* returns the sockets with something to read, or none after its timeout.
Top ==
    /\ pc = "top"
    /\ \/ /\ n_players < 1
          /\ dirty' = FALSE
          /\ pc' = "wait"
          /\ UNCHANGED todo
       \/ /\ n_players >= 1
          /\ todo' = {f \in inputfds : wire[f] # "none" \/ HungUp(f)}
          /\ pc' = "serve"
          /\ UNCHANGED dirty
    /\ UNCHANGED <<next, tableVars, quitafteruser, netVars, named>>

Serving == CHOOSE f \in todo : \A g \in todo : f <= g

user == fdtoplayer[Serving]

Source == player[user].socket

\* Slip: the account goes to the last player of the table.
ServeRequestLast ==
    /\ pc = "serve" /\ todo # {}
    /\ sock[Source] # "none" /\ wire[Source] # "none"
    /\ wire' = [wire EXCEPT ![Source] = "none"]
    /\ LET request == wire[Source]
           k == sock[Source]
       IN  /\ player' =
                 IF request \in Account /\ n_players > 0
                 THEN [player EXCEPT ![n_players - 1].account = request]
                 ELSE IF request = "quit" THEN [player EXCEPT ![user].wantsout = TRUE]
                 ELSE player
           /\ named' = IF request \in Account THEN [named EXCEPT ![k] = request]
                                              ELSE named
           /\ IF quitafteruser
              THEN pc' = "exited" /\ dirty' = FALSE
              ELSE pc' = pc /\ dirty' = (dirty \/ request = "work")
    /\ todo' = todo \ {Serving}
    /\ UNCHANGED <<next, n_players, fdtoplayer, inputfds, quitafteruser, state, sock>>

\* The request is served from and for the player the socket is mapped to.
ServeRequest ==
    /\ pc = "serve" /\ todo # {}
    /\ sock[Source] # "none" /\ wire[Source] # "none"
    /\ wire' = [wire EXCEPT ![Source] = "none"]
    /\ LET request == wire[Source]
           k == sock[Source]
       IN  /\ player' =
                 IF request \in Account THEN [player EXCEPT ![user].account = request]
                 ELSE IF request = "quit" THEN [player EXCEPT ![user].wantsout = TRUE]
                 ELSE player
           /\ named' = IF request \in Account THEN [named EXCEPT ![k] = request]
                                              ELSE named
           /\ IF quitafteruser
              THEN pc' = "exited" /\ dirty' = FALSE
              ELSE pc' = pc /\ dirty' = (dirty \/ request = "work")
    /\ todo' = todo \ {Serving}
    /\ UNCHANGED <<next, n_players, fdtoplayer, inputfds, quitafteruser, state, sock>>

\* Slip: only the open documents are given up at the end of input.
ServeEndOnly ==
    /\ pc = "serve" /\ todo # {}
    /\ sock[Source] = "none" \/ (HungUp(Source) /\ wire[Source] = "none")
    /\ IF quitafteruser THEN pc' = "exited" /\ dirty' = FALSE
                        ELSE UNCHANGED <<pc, dirty>>
    /\ todo' = todo \ {Serving}
    /\ UNCHANGED <<next, tableVars, quitafteruser, netVars, named>>

\* End of input, or a stream whose descriptor is closed: frontenddied.
ServeEnd ==
    /\ pc = "serve" /\ todo # {}
    /\ sock[Source] = "none" \/ (HungUp(Source) /\ wire[Source] = "none")
    /\ player' = [player EXCEPT ![user].wantsout = TRUE]
    /\ IF quitafteruser THEN pc' = "exited" /\ dirty' = FALSE
                        ELSE UNCHANGED <<pc, dirty>>
    /\ todo' = todo \ {Serving}
    /\ UNCHANGED <<next, n_players, fdtoplayer, inputfds, quitafteruser, netVars, named>>

\* An answer to a front end that is gone may raise SIGPIPE: crash, and exit
\* without writing anything.
ServeBroken ==
    /\ pc = "serve" /\ todo # {}
    /\ HungUp(Source) /\ wire[Source] # "none"
    /\ pc' = "crashed"
    /\ UNCHANGED <<loopVars, tableVars, dirty, quitafteruser, netVars, named>>

ServeDone ==
    /\ pc = "serve" /\ todo = {}
    /\ pc' = "leave"
    /\ next' = 0
    /\ UNCHANGED <<todo, tableVars, dirty, quitafteruser, netVars, named>>

\* One turn of leave's loop.  The last player takes the place of the one that
\* goes; its old record, and fdtoplayer, stay as they are.
LeaveStays ==
    /\ pc = "leave" /\ next < n_players
    /\ ~player[next].wantsout
    /\ next' = next + 1
    /\ UNCHANGED <<pc, todo, tableVars, dirty, quitafteruser, netVars, named>>

\* Slip: the freed place is not filled.
LeaveForgets ==
    /\ pc = "leave" /\ next < n_players
    /\ player[next].wantsout
    /\ LET f == player[next].socket
       IN  /\ inputfds' = inputfds \ {f}
           /\ sock' = [sock EXCEPT ![f] = "none"]
           /\ wire' = [wire EXCEPT ![f] = "none"]
           /\ state' = IF sock[f] = "none" THEN state
                       ELSE [state EXCEPT ![sock[f]] = "gone"]
    /\ n_players' = n_players - 1
    /\ UNCHANGED <<pc, loopVars, player, fdtoplayer, dirty, quitafteruser, named>>

LeaveGoes ==
    /\ pc = "leave" /\ next < n_players
    /\ player[next].wantsout
    /\ LET f == player[next].socket
       IN  /\ inputfds' = (inputfds \ {f}) \union ({f} \ inputfds)
           /\ sock' = [sock EXCEPT ![f] = "none"]
           /\ wire' = [wire EXCEPT ![f] = "none"]
           /\ state' = IF sock[f] = "none" THEN state
                       ELSE [state EXCEPT ![sock[f]] = "gone"]
    /\ player' = [player EXCEPT ![next] = player[n_players - 1]]
    /\ n_players' = n_players - 1
    /\ UNCHANGED <<pc, loopVars, fdtoplayer, dirty, quitafteruser, named>>

LeaveDone ==
    /\ pc = "leave" /\ next >= n_players
    /\ pc' = "poll"
    /\ UNCHANGED <<loopVars, tableVars, dirty, quitafteruser, netVars, named>>

-----------------------------------------------------------------------------
(* new_players: blocking in "wait", not blocking in "poll". *)

Queued == {k \in Client : state[k] = "queued"}

FreeFDs == {f \in FD : sock[f] = "none"}

\* accept gets the lowest free descriptor.
Accepted(f) == f \in FreeFDs /\ \A g \in FreeFDs : f <= g

PollNobody ==
    /\ pc = "poll" /\ Queued = {}
    /\ pc' = "top"
    /\ UNCHANGED <<loopVars, tableVars, dirty, quitafteruser, netVars, named>>

\* Slip: the number of players is counted up before fdtoplayer is set.
TakeInLate(k, f) ==
    /\ pc \in {"poll", "wait"} /\ k \in Queued
    /\ n_players < MAX_PLAYERS /\ Accepted(f)
    /\ player' = [player EXCEPT ![n_players] = [@ EXCEPT !.socket = f, !.wantsout = FALSE]]
    /\ fdtoplayer' = [fdtoplayer EXCEPT ![f] = n_players + 1]
    /\ inputfds' = inputfds \union {f}
    /\ n_players' = n_players + 1
    /\ sock' = [sock EXCEPT ![f] = k]
    /\ state' = [state EXCEPT ![k] = "in"]
    /\ pc' = "top"
    /\ UNCHANGED <<loopVars, dirty, quitafteruser, wire, named>>

\* The record of the new player keeps the account that was in it.
TakeIn(k, f) ==
    /\ pc \in {"poll", "wait"} /\ k \in Queued
    /\ n_players < MAX_PLAYERS /\ Accepted(f)
    /\ player' = [player EXCEPT ![n_players] = [@ EXCEPT !.socket = f, !.wantsout = FALSE]]
    /\ fdtoplayer' = [fdtoplayer EXCEPT ![f] = n_players]
    /\ inputfds' = inputfds \union {f}
    /\ n_players' = n_players + 1
    /\ sock' = [sock EXCEPT ![f] = k]
    /\ state' = [state EXCEPT ![k] = "in"]
    /\ pc' = "top"
    /\ UNCHANGED <<loopVars, dirty, quitafteruser, wire, named>>

\* The metaprotocol fails, and the front end goes away: the record has its
\* socket, which nobody closes.
TurnDown(k, f) ==
    /\ pc \in {"poll", "wait"} /\ k \in Queued
    /\ n_players < MAX_PLAYERS /\ Accepted(f)
    /\ player' = [player EXCEPT ![n_players].socket = f]
    /\ sock' = [sock EXCEPT ![f] = k]
    /\ state' = [state EXCEPT ![k] = "gone"]
    /\ pc' = "top"
    /\ UNCHANGED <<loopVars, n_players, fdtoplayer, inputfds, dirty, quitafteruser,
                   wire, named>>

\* Too many front ends: the socket is closed, and the next one looked for.
ShutOut(k) ==
    /\ pc \in {"poll", "wait"} /\ k \in Queued
    /\ n_players >= MAX_PLAYERS /\ FreeFDs # {}
    /\ state' = [state EXCEPT ![k] = "gone"]
    /\ UNCHANGED <<pc, loopVars, tableVars, dirty, quitafteruser, sock, wire, named>>

\* accept has no descriptor to give.
AcceptFails ==
    /\ pc \in {"poll", "wait"} /\ Queued # {} /\ FreeFDs = {}
    /\ pc' = "top"
    /\ UNCHANGED <<loopVars, tableVars, dirty, quitafteruser, netVars, named>>

\* SIGINT: the daemon writes and exits at once when it is in new_players, and
\* after the next request otherwise.
Interrupt ==
    /\ Running /\ ~quitafteruser
    /\ IF pc \in {"wait", "poll"}
       THEN pc' = "exited" /\ dirty' = FALSE /\ UNCHANGED quitafteruser
       ELSE quitafteruser' = TRUE /\ UNCHANGED <<pc, dirty>>
    /\ UNCHANGED <<loopVars, tableVars, netVars, named>>

Serve == ServeRequest \/ ServeEnd \/ ServeBroken \/ ServeDone

Leave == LeaveStays \/ LeaveGoes \/ LeaveDone

NewPlayer ==
    \/ PollNobody
    \/ \E k \in Client, f \in FD : TakeIn(k, f) \/ TurnDown(k, f)
    \/ \E k \in Client : ShutOut(k)
    \/ AcceptFails

MainLoop == Top \/ Serve \/ Leave \/ NewPlayer

FrontEnds ==
    \/ \E k \in Client : Connect(k)
    \/ \E f \in FD : HangUp(f) \/ \E r \in Request : Send(f, r)

Next == MainLoop \/ FrontEnds \/ Interrupt

Spec == Init /\ [][Next]_vars

\* The process runs whenever it is not waiting for input.
FairSpec == Spec /\ WF_vars(MainLoop)

-----------------------------------------------------------------------------
(* Safety, whoever leaves when. *)

\* The players of the table have sockets of their own, open ones, and select
\* looks at exactly these: inputfds, kept by exclusive or in leave, never gets
\* a closed descriptor, on which select fails (bed.c:111).
SocketsInUse ==
    /\ inputfds = {player[i].socket : i \in {j \in Slot : j < n_players}}
    /\ \A i, j \in Slot : i < n_players /\ j < n_players
          /\ player[i].socket = player[j].socket => i = j
    /\ \A f \in inputfds : sock[f] # "none"

\* Every socket leads to the record of its own player.
Routed ==
    \A f \in inputfds : fdtoplayer[f] < n_players /\ player[fdtoplayer[f]].socket = f

\* Every player works under the account that his front end named.
AccountsKept ==
    \A f \in inputfds : named[sock[f]] \in {NoAccount, player[fdtoplayer[f]].account}

\* leave puts the last player in the place of another one.
MovesAnother == pc = "leave" /\ n_players' < n_players /\ next < n_players'

\* Sockets that lead to their own players, who work under the accounts they
\* named, are brought out of this order by one thing alone: that leave moves a
\* record and not its fdtoplayer entry (socketbe.c:142).  Arrivals, refusals,
\* broken connections, several departures at once, descriptors and records that
\* are used again with the account of another in them never do it.
DisorderedByMovesOnly ==
    [][Routed /\ AccountsKept => (Routed /\ AccountsKept)' \/ MovesAnother]_vars

(* With orderly front ends. *)

\* A request of a front end that has named its account is executed under that
\* account (findings/0022, section 1).  In a larger table with departures in any
\* order this does not hold: fdtoplayer keeps what leave makes stale, and a
\* request may be read in the place of another player, under the account there.
ServedAsNamed ==
    pc = "serve" /\ todo # {} /\ sock[Source] # "none" /\ wire[Source] # "none"
    => named[sock[Source]] \in {NoAccount, player[user].account}

Nobody == \A k \in Client : state[k] \notin {"queued", "in"}

\* Every request is answered.
Answered ==
    \A f \in FD : f \in inputfds /\ wire[f] # "none" ~> wire[f] = "none" \/ ~Running

\* The socket of a front end that has gone is closed.
LetOut == \A f \in FD : f \in inputfds /\ HungUp(f) ~> f \notin inputfds \/ ~Running

\* When no one is around, everything is written out (bed.c:105).
WrittenWhenAlone == Nobody /\ dirty ~> ~dirty \/ ~Nobody \/ ~Running
=============================================================================
