------------------------ MODULE TcpConnectionManager ------------------------
(***************************************************************************)
(* TcpConnectionManager.h: one manager, its accept thread, one receiving   *)
(* thread per connection and one thread of the program that uses it.       *)
(*                                                                         *)
(* A connection is known to the code only by the number of its descriptor, *)
(* which the kernel gives out again as soon as it is closed; so the        *)
(* kernel's descriptor table is modelled beside the map connections_, and  *)
(* what each thread does goes by the number it holds.  Receivers share     *)
(* their name with the connection they were started for.                   *)
(*                                                                         *)
(* Left out: addresses and ports, sendData (it changes no state of the     *)
(* manager) and the five states of ConnectionInfo, which nothing reads.    *)
(***************************************************************************)
EXTENDS Integers, Sequences, FiniteSets, SequencesExt, FiniteSetsExt

CONSTANTS
    Peers,      \* connections that come in
    Targets,    \* connections the program makes with connect, each once
    Fds,        \* the descriptor numbers of the process: a bound
    Talkers,    \* connections whose other end sends: a bound
    MaxData,    \* how often it sends: a bound
    MaxCalls,   \* how many calls the program makes: a bound
    User,       \* the program's thread
    Acceptor    \* the thread start() detaches

Conns == Peers \cup Targets
Threads == Conns \cup {User, Acceptor}

None == "none"
Listener == "listener"

ASSUME ConnectionAssumption ==
    /\ Peers \cap Targets = {}
    /\ User # Acceptor /\ User # None
    /\ {User, Acceptor, None, Listener, "start", "stop"} \cap Conns = {}
    /\ Fds \subseteq Nat /\ IsFiniteSet(Fds)
    /\ Talkers \subseteq Conns /\ MaxData \in Nat /\ MaxCalls \in Nat

VARIABLES
    running,      \* running_
    listen,       \* listen_fd_
    entries,      \* connections_: number -> the connection whose info it holds
    mutex,        \* connections_mutex_: its holder; only stop keeps it over steps
    table,        \* the kernel's table: number -> what is open under it
    peer,         \* the other end of every connection
    sent, got,    \* data the peer sent, data read from the connection here
    pc,           \* where every thread is
    on,           \* the connection it works for
    fd,           \* the number the code holds for the connection
    info,         \* conn of receiveData: whose ConnectionInfo it found
    sock,         \* the socket a recv in progress reads from
    called,       \* start, stop, and connections the program closed itself
    log,          \* the callbacks made for every connection, in order
    victims       \* connections used under their number by a thread of another

kernel == <<peer, sent, got>>
locals == <<fd, info, sock>>
manager == <<running, listen, entries, mutex>>
history == <<called, log, victims>>
vars == <<manager, table, kernel, pc, on, locals, history>>

PeerStates == {"away", "open", "ended", "reset", "refused"}

(* Every variable of the manager, the kernel and the threads holds a value *)
(* the code can give it.                                                   *)
TypeOK ==
    /\ running \in BOOLEAN
    /\ listen \in Fds \cup {-1}
    /\ entries \in [Fds -> Conns \cup {None}]
    /\ mutex \in {User, None}
    /\ table \in [Fds -> Conns \cup {None, Listener}]
    /\ peer \in [Conns -> PeerStates]
    /\ sent \in [Conns -> 0..MaxData] /\ got \in [Conns -> 0..MaxData]
    /\ on \in [Threads -> Conns \cup {None}]
    /\ fd \in [Conns -> Fds \cup {-1}]
    /\ info \in [Conns -> Conns \cup {None}]
    /\ sock \in [Conns -> Conns \cup {None}]
    /\ victims \subseteq Conns

Up == [what |-> "CONNECTED", of |-> None, nr |-> 0]
Down == [what |-> "DISCONNECTED", of |-> None, nr |-> 0]
Data(c, n) == [what |-> "data", of |-> c, nr |-> n]

Home == [t \in Threads |-> IF t \in Conns THEN t ELSE None]

Init ==
    /\ running = FALSE /\ listen = -1 /\ mutex = None
    /\ entries = [n \in Fds |-> None] /\ table = [n \in Fds |-> None]
    /\ peer = [c \in Conns |-> "away"]
    /\ sent = [c \in Conns |-> 0] /\ got = [c \in Conns |-> 0]
    /\ pc = [t \in Threads |-> "idle"]
    /\ on = Home
    /\ fd = [c \in Conns |-> -1]
    /\ info = [c \in Conns |-> None] /\ sock = [c \in Conns |-> None]
    /\ called = {} /\ victims = {}
    /\ log = [c \in Conns |-> <<>>]

-----------------------------------------------------------------------------
(* The kernel gives out the lowest free number. *)
FreeFds == {n \in Fds : table[n] = None}
NewFd == Min(FreeFds)

At(t, place) == pc[t] = place
Goto(t, place) == pc' = [pc EXCEPT ![t] = place]
Number(t) == fd[on[t]]
Locked == mutex = None      \* a lock_guard of connections_mutex_ gets it

(* What is found under a number and belongs to a connection other than c. *)
Foreign(x, c) == {x} \cap (Conns \ {c})

(* Where `while (running_)` leads: tested as soon as the step before it is *)
(* over, which is no loss as that step could also have been taken later.   *)
AcceptLoop == IF running THEN "accept" ELSE "done"
ReceiveLoop == IF running THEN "recv" ELSE "done"   \* "done" closes nothing

What(place, n) == IF n = -1 THEN None ELSE place[n]
Without(place, n) == IF n = -1 THEN place ELSE [place EXCEPT ![n] = None]

-----------------------------------------------------------------------------
(* start: socket, bind, listen, and the thread of acceptConnections. *)
Start ==
    /\ At(User, "idle") /\ "start" \notin called /\ FreeFds # {}
    /\ called' = called \cup {"start"}
    /\ listen' = NewFd
    /\ table' = [table EXCEPT ![NewFd] = Listener]
    /\ running' = TRUE
    /\ Goto(Acceptor, "accept")
    /\ UNCHANGED <<entries, mutex, kernel, on, locals, log, victims>>

(* start when setsockopt, bind or listen fails: the socket is closed, and  *)
(* listen_fd_ keeps its number.                                            *)
StartFails ==
    /\ At(User, "idle") /\ "start" \notin called /\ FreeFds # {}
    /\ called' = called \cup {"start"}
    /\ listen' = NewFd
    /\ UNCHANGED <<running, entries, mutex, table, kernel, pc, on, locals, log,
                   victims>>

(* stop: running_ = false. *)
StopRunning ==
    /\ At(User, "idle") /\ "stop" \notin called
    /\ called' = called \cup {"stop"}
    /\ running' = FALSE
    /\ Goto(User, "unlisten")
    /\ UNCHANGED <<listen, entries, mutex, table, kernel, on, locals, log,
                   victims>>

(* stop: the listening descriptor. *)
StopListening ==
    /\ At(User, "unlisten")
    /\ table' = Without(table, listen)
    /\ victims' = victims \cup Foreign(What(table, listen), None)
    /\ listen' = -1
    /\ Goto(User, "closeAll")
    /\ UNCHANGED <<running, entries, mutex, kernel, on, locals, called, log>>

(* stop: the lock_guard and the loop.  The first connection it meets sends *)
(* it into closeConnection with the mutex held; with none it is over.      *)
StopConnections ==
    /\ At(User, "closeAll") /\ Locked
    /\ IF \A n \in Fds : entries[n] = None
       THEN /\ Goto(User, "idle")
            /\ UNCHANGED <<mutex, on, called>>
       ELSE \E n \in Fds :
            /\ entries[n] # None
            /\ mutex' = User
            /\ on' = [on EXCEPT ![User] = entries[n]]
            /\ called' = called \cup {entries[n]}
            /\ Goto(User, "close")
    /\ UNCHANGED <<running, listen, entries, table, kernel, locals, log,
                   victims>>

-----------------------------------------------------------------------------
(* connect: running_ = true and a socket for target t. *)
Connect(t) ==
    /\ At(User, "idle") /\ fd[t] = -1 /\ FreeFds # {}
    /\ running' = TRUE
    /\ table' = [table EXCEPT ![NewFd] = t]
    /\ fd' = [fd EXCEPT ![t] = NewFd]
    /\ on' = [on EXCEPT ![User] = t]
    /\ Goto(User, "insert")
    /\ UNCHANGED <<listen, entries, mutex, kernel, info, sock, history>>

(* connect when no descriptor is free for its socket, or when the address  *)
(* cannot be read and the socket is closed at once: running_ was set.      *)
ConnectEndsEarly ==
    /\ At(User, "idle")
    /\ running' = TRUE
    /\ UNCHANGED <<listen, entries, mutex, table, kernel, pc, on, locals, history>>

(* connect: ::connect succeeds, on the number's own socket. *)
Connected ==
    /\ At(User, "connect") /\ table[Number(User)] = on[User]
    /\ peer' = [peer EXCEPT ![on[User]] = "open"]
    /\ Goto(User, "announce")
    /\ UNCHANGED <<manager, table, sent, got, on, locals, history>>

(* connect: ::connect fails; the socket is closed, its entry is not erased. *)
ConnectFails ==
    /\ At(User, "connect")
    /\ peer' = [peer EXCEPT ![on[User]] = "refused"]
    /\ table' = Without(table, Number(User))
    /\ victims' = victims \cup Foreign(What(table, Number(User)), on[User])
    /\ on' = [on EXCEPT ![User] = None]
    /\ Goto(User, "idle")
    /\ UNCHANGED <<manager, sent, got, locals, called, log>>

-----------------------------------------------------------------------------
(* The call of accept: it waits on the socket it finds under listen_fd_,   *)
(* also when that number is closed meanwhile, or fails at once.            *)
AcceptCall ==
    /\ At(Acceptor, "accept")
    /\ Goto(Acceptor, IF What(table, listen) = Listener THEN "waiting" ELSE AcceptLoop)
    /\ UNCHANGED <<manager, table, kernel, on, locals, history>>

(* Peer p connects and accept returns a descriptor for it. *)
Accept(p) ==
    /\ At(Acceptor, "waiting") /\ peer[p] = "away" /\ FreeFds # {}
    /\ peer' = [peer EXCEPT ![p] = "open"]
    /\ table' = [table EXCEPT ![NewFd] = p]
    /\ fd' = [fd EXCEPT ![p] = NewFd]
    /\ on' = [on EXCEPT ![Acceptor] = p]
    /\ Goto(Acceptor, "insert")
    /\ UNCHANGED <<manager, sent, got, info, sock, history>>

(* accept fails for want of a descriptor; handleError finds no key -1 and  *)
(* calls nobody back.                                                      *)
AcceptFails ==
    /\ At(Acceptor, "waiting") /\ FreeFds = {}
    /\ Goto(Acceptor, AcceptLoop)
    /\ UNCHANGED <<manager, table, kernel, on, locals, history>>

(* connections_[fd] = info, in acceptConnections and in connect. *)
Insert(t) ==
    /\ At(t, "insert") /\ Locked
    /\ entries' = [entries EXCEPT ![Number(t)] = on[t]]
    /\ victims' = victims \cup Foreign(table[Number(t)], on[t])
    /\ Goto(t, IF t = User THEN "connect" ELSE "announce")
    /\ UNCHANGED <<running, listen, mutex, table, kernel, on, locals, called, log>>

(* The CONNECTED callback. *)
AnnounceUp(t) ==
    /\ At(t, "announce")
    /\ log' = [log EXCEPT ![on[t]] = Append(@, Up)]
    /\ Goto(t, "spawn")
    /\ UNCHANGED <<manager, table, kernel, on, locals, called, victims>>

(* The thread of receiveData is started. *)
Spawn(t) ==
    /\ At(t, "spawn")
    /\ pc' = [pc EXCEPT ![t] = IF t = User THEN "idle" ELSE AcceptLoop, ![on[t]] = "find"]
    /\ on' = [on EXCEPT ![t] = None]
    /\ UNCHANGED <<manager, table, kernel, locals, history>>

-----------------------------------------------------------------------------
(* receiveData: the entry under the number it was given. *)
Find(c) ==
    /\ At(c, "find") /\ Locked
    /\ info' = [info EXCEPT ![c] = entries[fd[c]]]
    /\ victims' = victims \cup Foreign(entries[fd[c]], c)
    /\ Goto(c, IF entries[fd[c]] = None THEN "done" ELSE ReceiveLoop)
    /\ UNCHANGED <<manager, table, kernel, on, fd, sock, called, log>>

(* The call of recv: it stays with the socket it finds under the number,   *)
(* also when the number is closed meanwhile.  It fails when there is none, *)
(* or one that is not connected, to which the number has passed on and for *)
(* which connect may not have got as far as ::connect; handleError and     *)
(* closeConnection follow.                                                 *)
RecvCall(c) ==
    /\ At(c, "recv")
    /\ LET s == table[fd[c]] IN
          /\ \/ s \in Conns /\ sock' = [sock EXCEPT ![c] = s] /\ Goto(c, "waiting")
             \/ /\ s \in Conns => s # c /\ peer[s] = "away"
                /\ sock' = [sock EXCEPT ![c] = None] /\ Goto(c, "close")
          /\ victims' = victims \cup Foreign(s, c)
    /\ UNCHANGED <<manager, table, kernel, on, fd, info, called, log>>

(* recv returns data and data_callback_ gets it, with the entry's info. *)
RecvData(c) ==
    /\ At(c, "waiting") /\ got[sock[c]] < sent[sock[c]]
    /\ got' = [got EXCEPT ![sock[c]] = @ + 1]
    /\ log' = [log EXCEPT ![info[c]] = Append(@, Data(sock[c], got[sock[c]] + 1))]
    /\ sock' = [sock EXCEPT ![c] = None]
    /\ Goto(c, ReceiveLoop)
    /\ UNCHANGED <<manager, table, peer, sent, on, fd, info, called, victims>>

AtEnd(s) == peer[s] \in {"reset", "refused"} \/ (peer[s] = "ended" /\ got[s] = sent[s])

(* Seeded fault: the receiver ends without closeConnection.                *)
(* EndsAreAnnounced notices.                                               *)
RecvEndsQuietly(c) ==
    /\ At(c, "waiting") /\ AtEnd(sock[c])
    /\ sock' = [sock EXCEPT ![c] = None]
    /\ Goto(c, "done")
    /\ UNCHANGED <<manager, table, kernel, on, fd, info, history>>

(* recv returns 0 after everything the peer sent, or an error when the     *)
(* peer reset the connection or ::connect failed: closeConnection follows  *)
(* either way.                                                             *)
RecvEnds(c) ==
    /\ At(c, "waiting") /\ AtEnd(sock[c])
    /\ sock' = [sock EXCEPT ![c] = None]
    /\ Goto(c, "close")
    /\ UNCHANGED <<manager, table, kernel, on, fd, info, history>>

-----------------------------------------------------------------------------
(* The program calls closeConnection for a connection it was told of. *)
CloseConnection(c) ==
    /\ At(User, "idle") /\ log[c] # <<>> /\ c \notin called
    /\ called' = called \cup {c}
    /\ on' = [on EXCEPT ![User] = c]
    /\ Goto(User, "close")
    /\ UNCHANGED <<manager, table, kernel, locals, log, victims>>

(* closeConnection: shutdown and close. *)
Close(t) ==
    /\ At(t, "close")
    /\ table' = Without(table, Number(t))
    /\ victims' = victims \cup Foreign(What(table, Number(t)), on[t])
    /\ Goto(t, "erase")
    /\ UNCHANGED <<manager, kernel, on, locals, called, log>>

(* Seeded fault: closeConnection forgets connections_.  ConnectionsCounted *)
(* notices.                                                                *)
EraseNot(t) ==
    /\ At(t, "erase") /\ Locked
    /\ Goto(t, "announceDown")
    /\ UNCHANGED <<manager, table, kernel, on, locals, history>>

(* closeConnection: the entry is erased. *)
Erase(t) ==
    /\ At(t, "erase") /\ Locked
    /\ entries' = Without(entries, Number(t))
    /\ victims' = victims \cup Foreign(What(entries, Number(t)), on[t])
    /\ Goto(t, "announceDown")
    /\ UNCHANGED <<running, listen, mutex, table, kernel, on, locals, called,
                   log>>

(* Seeded fault: the break after closeConnection in receiveData is missing *)
(* and the loop goes on.  CallbacksInOrder notices.                        *)
AnnounceDownGoOn(t) ==
    /\ At(t, "announceDown")
    /\ log' = [log EXCEPT ![on[t]] = Append(@, Down)]
    /\ on' = [on EXCEPT ![t] = Home[t]]
    /\ Goto(t, IF t = User THEN "idle" ELSE ReceiveLoop)
    /\ UNCHANGED <<manager, table, kernel, locals, called, victims>>

(* closeConnection: the DISCONNECTED callback. *)
AnnounceDown(t) ==
    /\ At(t, "announceDown")
    /\ log' = [log EXCEPT ![on[t]] = Append(@, Down)]
    /\ on' = [on EXCEPT ![t] = Home[t]]
    /\ Goto(t, IF t = User THEN "idle" ELSE "done")
    /\ UNCHANGED <<manager, table, kernel, locals, called, victims>>

-----------------------------------------------------------------------------
(* The other end of connection c sends, closes, or resets the connection,  *)
(* which differs from closing it only while there is data nobody has read. *)
PeerActs(c, state, data) ==
    /\ peer' = [peer EXCEPT ![c] = state]
    /\ sent' = [sent EXCEPT ![c] = @ + data]
    /\ UNCHANGED <<manager, table, got, pc, on, locals, history>>

PeerSends(c) == c \in Talkers /\ peer[c] = "open" /\ sent[c] < MaxData /\ PeerActs(c, "open", 1)
PeerCloses(c) == peer[c] = "open" /\ PeerActs(c, "ended", 0)
PeerResets(c) == peer[c] = "open" /\ got[c] < sent[c] /\ PeerActs(c, "reset", 0)

-----------------------------------------------------------------------------
Closing(t) == Close(t) \/ Erase(t) \/ AnnounceDown(t)
Opening(t) == Insert(t) \/ AnnounceUp(t) \/ Spawn(t)
Receiving(c) ==
    Find(c) \/ RecvCall(c) \/ RecvData(c) \/ RecvEnds(c) \/ Closing(c)
Accepting ==
    \/ AcceptCall \/ AcceptFails \/ Opening(Acceptor)
    \/ \E p \in Peers : Accept(p)
UserGoesOn ==       \* inside a call the program has made
    StopListening \/ StopConnections \/ Connected \/ ConnectFails
    \/ Opening(User) \/ Closing(User)
UserCalls ==
    /\ Cardinality(called) + Cardinality({t \in Targets : fd[t] # -1}) < MaxCalls
    /\ \/ Start \/ StartFails \/ StopRunning \/ ConnectEndsEarly
       \/ \E t \in Targets : Connect(t)
       \/ \E c \in Conns : CloseConnection(c)
World == \E c \in Conns : PeerSends(c) \/ PeerCloses(c) \/ PeerResets(c)

Next ==
    \/ UserCalls \/ UserGoesOn \/ Accepting \/ World
    \/ \E c \in Conns : Receiving(c)

Spec == Init /\ [][Next]_vars

(* Threads that can take a step take one; the program need not call        *)
(* anything, and the peers need not do anything.                           *)
FairSpec ==
    /\ Spec
    /\ WF_vars(UserGoesOn) /\ WF_vars(Accepting)
    /\ \A c \in Conns : WF_vars(Receiving(c))

-----------------------------------------------------------------------------
Some(place, c) == \E t \in Threads : pc[t] = place /\ on[t] = c

(* getConnectionCount counts the open connections: an entry without an     *)
(* open descriptor is being erased or was left by a failed connect, and an *)
(* open descriptor without an entry is about to get it -- except for a     *)
(* connection whose number a thread of another connection used, which the  *)
(* order of close and erase in closeConnection makes possible.             *)
ConnectionsCounted ==
    /\ TypeOK
    /\ \A n \in Fds :
        /\ entries[n] \in Conns \ victims /\ table[n] # entries[n] =>
               Some("erase", entries[n]) \/ peer[entries[n]] = "refused"
        /\ table[n] \in Conns \ victims /\ entries[n] # table[n] =>
               Some("insert", table[n])

(* A connection nobody but its own receiver touches is called back         *)
(* CONNECTED first, then its data in the order it was sent, none of it     *)
(* lost or repeated, then DISCONNECTED once, which after an orderly end    *)
(* comes behind all of the data.                                           *)
CallbacksInOrder ==
    \A c \in Conns \ (victims \cup called) :
        /\ IsPrefix(log[c], <<Up>> \o [i \in 1..got[c] |-> Data(c,
                              i)] \o <<Down>>)
        /\ Down \in ToSet(log[c]) /\ peer[c] = "ended" => got[c] = sent[c]

(* While the manager is not stopped, the end of an announced connection is *)
(* announced, by the receiver or by a program that closes the connection   *)
(* itself -- unless another thread used the connection's number.           *)
EndsAreAnnounced ==
    \A c \in Conns :
        log[c] # <<>> /\ peer[c] \in {"ended", "reset"}
            ~> Down \in ToSet(log[c]) \/ c \in victims \/ "stop" \in called

=============================================================================
