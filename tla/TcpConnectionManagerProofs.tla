--------------------- MODULE TcpConnectionManagerProofs ---------------------
(***************************************************************************)
(* For every number of connections, of descriptors and of calls: the map   *)
(* connections_ holds the open connections, and a connection that no other *)
(* thread disturbs is called back in order.                                *)
(***************************************************************************)
EXTENDS TcpConnectionManager, WellFoundedInduction, TLAPS

Opens == {"insert", "connect", "announce", "spawn"}
Closes == {"close", "erase", "announceDown"}
Openers == {User, Acceptor}

(* Where each thread can be, and that it works for a connection just while *)
(* it opens or closes one.                                                 *)
Places ==
    /\ pc \in [Threads -> Opens \cup Closes \cup
                  {"idle", "unlisten", "closeAll", "accept", "find", "recv", "waiting", "done"}]
    /\ pc[User] \in {"idle", "unlisten", "closeAll"} \cup Opens \cup Closes
    /\ pc[Acceptor] \in {"idle", "accept", "waiting", "done"} \cup (Opens \ {"connect"})
    /\ \A c \in Conns : pc[c] \in {"idle", "find", "recv", "waiting", "done"} \cup Closes
    /\ \A c \in Conns : on[c] = c
    /\ \A t \in Openers : on[t] = None <=> pc[t] \notin Opens \cup Closes
    /\ "start" \notin called => pc[Acceptor] = "idle"

Callback == [what : {"CONNECTED", "DISCONNECTED", "data"}, of : Conns \cup {None}, nr : Nat]

Types == TypeOK /\ Places /\ log \in [Conns -> Seq(Callback)]

(* A connection has one number for life, and before it has it nothing is   *)
(* known of it.                                                            *)
Numbers ==
    /\ \A n \in Fds : table[n] \in Conns => fd[table[n]] = n
    /\ \A n \in Fds : entries[n] \in Conns => fd[entries[n]] = n
    /\ \A c \in Conns : fd[c] = -1 =>
          /\ peer[c] = "away" /\ pc[c] = "idle" /\ log[c] = <<>>
          /\ c \notin called /\ c \notin victims
          /\ \A t \in Openers : on[t] # c
    /\ \A p \in Peers : peer[p] = "away" => fd[p] = -1

(* The program opens its targets and the acceptor the peers; the receiver  *)
(* starts afterwards.  What the program closes it has called.              *)
Work ==
    /\ pc[User] \in Opens => on[User] \in Targets
    /\ pc[User] \in {"insert", "connect"} => peer[on[User]] = "away"
    /\ pc[User] \in Opens => on[User] \notin called
    /\ pc[User] \in Closes => on[User] \in called
    /\ pc[Acceptor] \in Opens => on[Acceptor] \in Peers
    /\ \A t \in Openers : pc[t] \in Opens => pc[on[t]] = "idle"

(* Once its number is closed a connection never gets it back. *)
ClosedForGood == \A t \in Threads : pc[t] = "erase" => table[fd[on[t]]] # on[t]

(* ConnectionsCounted, from the side of the connections. *)
Counted ==
    \A c \in Conns \ victims : fd[c] # -1 =>
        /\ entries[fd[c]] = c /\ table[fd[c]] # c => Some("erase", c) \/ peer[c] = "refused"
        /\ table[fd[c]] = c /\ entries[fd[c]] # c => Some("insert", c)

(* Before it is in the map nobody is told of a connection. *)
Unheard ==
    \A t \in Openers : pc[t] = "insert" /\ on[t] \notin victims =>
        on[t] \notin called /\ entries[fd[on[t]]] # on[t]

(* What a receiver has found is its own, unless it touches another's. *)
Found ==
    \A x \in Conns :
        /\ pc[x] \in {"recv", "waiting"} => info[x] \in Conns
        /\ pc[x] = "waiting" => sock[x] \in Conns
        /\ info[x] \in Conns \ victims => info[x] = x
        /\ sock[x] \in Conns \ victims => sock[x] = x

(* A connection that nobody but its own receiver touches keeps its number  *)
(* until the receiver closes it at the end, ...                            *)
Quiet == Conns \ (victims \cup called)

KeptOf(c) ==
    /\ pc[c] \in {"find", "recv", "waiting", "close"} => table[fd[c]] = c
    /\ \A t \in Openers : pc[t] \in Opens /\ on[t] = c => table[fd[c]] = c
    /\ pc[c] \in {"recv", "waiting"} => info[c] = c
    /\ pc[c] = "waiting" => sock[c] = c
    /\ pc[c] \in Closes => AtEnd(c)

(* ... and its callbacks tell how far it has come. *)
Told(c, n) == <<Up>> \o [i \in 1 .. n |-> Data(c, i)]

StoryOf(c) ==
    /\ pc[c] = "idle" =>
          /\ got[c] = 0
          /\ log[c] = IF \E t \in Openers : pc[t] = "spawn" /\ on[t] = c THEN <<Up>> ELSE <<>>
    /\ pc[c] \in {"find", "recv", "waiting"} \cup Closes => log[c] = Told(c, got[c])
    /\ pc[c] = "done" => \/ log[c] = Told(c, got[c])
                         \/ log[c] = Append(Told(c, got[c]), Down) /\ AtEnd(c)

Undisturbed == \A c \in Quiet : KeptOf(c) /\ StoryOf(c)

ManagerInv == /\ Types /\ Numbers /\ Work /\ ClosedForGood /\ Counted
              /\ Unheard /\ Found /\ Undisturbed
-----------------------------------------------------------------------------
(* The kernel's choice of a number is a free one. *)
LEMMA LowestIsFree ==
    ASSUME FreeFds # {}
    PROVE  NewFd \in Fds /\ table[NewFd] = None
<1> DEFINE R == OpToRel(<, Nat)
<1>1. FreeFds \subseteq Nat
    BY ConnectionAssumption DEF FreeFds
<1>2. PICK n \in FreeFds : \A m \in FreeFds : ~(<<m, n>> \in R)
    <2> HIDE DEF R
    <2>1. IsWellFoundedOn(R, Nat)
        BY NatLessThanWellFounded DEF R
    <2> QED BY <1>1, <2>1, WFMin
<1>3. \A m \in FreeFds : n <= m
    <2> SUFFICES ASSUME NEW m \in FreeFds PROVE n <= m
        OBVIOUS
    <2>1. m \in Nat /\ n \in Nat
        BY <1>1
    <2>2. ~(<<m, n>> \in R)
        BY <1>2
    <2>3. m < n => <<m, n>> \in R
        BY <2>1 DEF OpToRel
    <2> HIDE DEF R
    <2> QED BY <2>1, <2>2, <2>3
<1>4. NewFd \in FreeFds
    BY <1>2, <1>3 DEF NewFd, Min
<1> QED BY <1>4 DEF FreeFds

(* What the constants' assumption keeps apart, in the form steps need it.  *)
LEMMA Apart ==
    /\ User \notin Conns /\ Acceptor \notin Conns /\ User # Acceptor /\ None \notin Conns
    /\ User # None /\ Listener \notin Conns /\ "start" \notin Conns /\ "stop" \notin Conns
    /\ -1 \notin Fds /\ \A n \in Fds : n # -1
    /\ \A c \in Conns : c # User /\ c # Acceptor /\ c # None /\ c # Listener
    /\ Peers \subseteq Conns /\ Targets \subseteq Conns /\ \A c \in Peers : c \notin Targets
    /\ Conns \subseteq Threads /\ Openers \subseteq Threads /\ User \in Threads /\ Acceptor \in Threads
BY ConnectionAssumption DEF Conns, Threads, Openers, None, Listener

-----------------------------------------------------------------------------
USE DEF At, Goto, Number, Without, What, Foreign, manager, kernel, locals, history, Opens, Closes, Openers
USE Apart

(* What a thread that works for a connection may rely on. *)
LEMMA Working ==
    ASSUME ManagerInv
    PROVE  /\ \A c \in Conns : pc[c] # "idle" => fd[c] \in Fds
           /\ \A t \in Openers : pc[t] \in Opens \cup Closes => on[t] \in Conns /\ fd[on[t]] \in Fds
           /\ \A t \in Openers : on[t] # None => on[t] \in Conns
           /\ \A n \in Fds : entries[n] # None => entries[n] \in Conns /\ fd[entries[n]] = n
    BY DEF ManagerInv, Types, TypeOK, Places, Numbers, Threads

(* A step that leaves the map, the table and those that insert and erase. *)
LEMMA CountedStays ==
    ASSUME Counted, UNCHANGED <<entries, table, fd>>, victims \subseteq victims',
           \A c \in Conns : peer[c] = "refused" => peer'[c] = "refused",
           \A u \in Threads : pc[u] \in {"insert", "erase"} => pc'[u] = pc[u] /\ on'[u] = on[u]
    PROVE  Counted'
<1>1. ASSUME NEW c, NEW place \in {"insert", "erase"}, Some(place, c) PROVE Some(place, c)'
    BY <1>1 DEF Some
<1> QED BY <1>1 DEF Counted

(* A connection whose threads and number a step does not concern. *)
LEMMA NotConcerned ==
    ASSUME NEW c \in Conns, KeptOf(c), StoryOf(c),
           fd'[c] = fd[c], table'[fd[c]] = table[fd[c]],
           pc'[c] = pc[c], info'[c] = info[c], sock'[c] = sock[c], log'[c] = log[c],
           got'[c] = got[c], AtEnd(c) => AtEnd(c)',
           \A t \in Openers : (on[t] = c /\ pc[t] \in Opens) \/ (on'[t] = c /\ pc'[t] \in Opens) =>
               on'[t] = on[t] /\ pc'[t] = pc[t]
    PROVE  KeptOf(c)' /\ StoryOf(c)'
<1>1. KeptOf(c)'
    BY DEF KeptOf
<1>2. (\E t \in Openers : pc[t] = "spawn" /\ on[t] = c)' <=> \E t \in Openers : pc[t] = "spawn" /\ on[t] = c
    OBVIOUS
<1>3. StoryOf(c)'
    BY <1>2 DEF StoryOf
<1> QED BY <1>1, <1>3


(* The callbacks are what their type says, and one more is appended.       *)
LEMMA CalledBack ==
    ASSUME log \in [Conns -> Seq(Callback)], NEW c \in Conns, NEW e \in Callback,
           log' = [log EXCEPT ![c] = Append(@, e)]
    PROVE  /\ log' \in [Conns -> Seq(Callback)]
           /\ log'[c] = Append(log[c], e) /\ \A d \in Conns \ {c} : log'[d] = log[d]
<1>1. Append(log[c], e) \in Seq(Callback)
    OBVIOUS
<1> QED BY <1>1

(* The three callbacks are of their type.                                  *)
LEMMA CallbackTypes ==
    /\ Up \in Callback /\ Down \in Callback
    /\ \A c \in Conns, n \in Nat : Data(c, n) \in Callback
BY DEF Callback, Up, Down, Data

(* What has been told grows by one. *)
LEMMA ToldElements ==
    ASSUME NEW c \in Conns, NEW n \in Nat
    PROVE  /\ Told(c, n) \in Seq(Callback) /\ Len(Told(c, n)) = n + 1
           /\ Told(c, n)[1] = Up
           /\ \A i \in 1 .. n : Told(c, n)[i + 1] = Data(c, i)
<1> DEFINE s == [i \in 1 .. n |-> Data(c, i)]
<1>1. s \in Seq(Callback) /\ Len(s) = n /\ \A i \in 1 .. n : s[i] = Data(c, i)
    BY CallbackTypes
<1>2. <<Up>> \in Seq(Callback) /\ Len(<<Up>>) = 1 /\ <<Up>>[1] = Up
    BY CallbackTypes
<1>3. Told(c, n) = <<Up>> \o s
    BY DEF Told
<1> HIDE DEF s
<1> QED BY <1>1, <1>2, <1>3

(* ... and the data that is read next is what it grows by.                 *)
LEMMA ToldGrows ==
    ASSUME NEW c \in Conns, NEW n \in Nat
    PROVE  /\ Append(Told(c, n), Data(c, n + 1)) = Told(c, n + 1)
           /\ Told(c, 0) = <<Up>>
<1>1. Append(Told(c, n), Data(c, n + 1)) = Told(c, n + 1)
    <2> DEFINE s == Append(Told(c, n), Data(c, n + 1))
               u == Told(c, n + 1)
    <2>1. s \in Seq(Callback) /\ Len(s) = n + 2
        BY CallbackTypes, ToldElements
    <2>2. u \in Seq(Callback) /\ Len(u) = n + 2
        BY ToldElements
    <2>3. ASSUME NEW i \in 1 .. n + 2 PROVE s[i] = u[i]
        <3> DEFINE told == Told(c, n)
                   m == n + 1
        <3>10. /\ told \in Seq(Callback) /\ Len(told) = n + 1 /\ told[1] = Up
              /\ \A j \in 1 .. n : told[j + 1] = Data(c, j)
            BY ToldElements
        <3>11. u[1] = Up /\ \A j \in 1 .. n + 1 : u[j + 1] = Data(c, j)
            <4>1. m \in Nat
                OBVIOUS
            <4> HIDE DEF m
            <4>2. Told(c, m)[1] = Up /\ \A j \in 1 .. m : Told(c, m)[j + 1] = Data(c, j)
                BY <4>1, ToldElements
            <4> QED BY <4>2 DEF m
        <3>12. Data(c, n + 1) \in Callback
            BY CallbackTypes
        <3> HIDE DEF told, u
        <3>13. /\ s[n + 2] = Data(c, n + 1) /\ \A j \in 1 .. n + 1 : s[j] = told[j]
            BY <3>10, <3>12 DEF told
        <3> HIDE DEF s
        <3>1. CASE i = 1
            BY <3>1, <3>10, <3>11, <3>13
        <3>2. CASE i = n + 2
            <4>1. n + 1 \in 1 .. n + 1 /\ i = (n + 1) + 1
                BY <3>2
            <4>2. u[(n + 1) + 1] = Data(c, n + 1)
                BY <4>1, <3>11
            <4> QED BY <3>2, <4>1, <4>2, <3>13
        <3>3. CASE i # 1 /\ i # n + 2
            <4>1. i - 1 \in 1 .. n /\ i = (i - 1) + 1 /\ i \in 1 .. n + 1
                BY <3>3
            <4>2. s[i] = told[i]
                BY <4>1, <3>13
            <4>3. told[(i - 1) + 1] = Data(c, i - 1) /\ u[(i - 1) + 1] = Data(c, i - 1)
                BY <4>1, <3>10, <3>11
            <4>4. (i - 1) + 1 = i
                BY <4>1
            <4> QED BY <4>2, <4>3, <4>4
        <3> QED BY <3>1, <3>2, <3>3
    <2> HIDE DEF s, u
    <2>4. s = u
        BY <2>1, <2>2, <2>3
    <2> QED BY <2>4 DEF s, u
<1>2. Told(c, 0) = <<Up>>
    <2> DEFINE u == Told(c, 0)
    <2>1. u \in Seq(Callback) /\ Len(u) = 0 + 1
        BY ToldElements
    <2>3. u[1] = Up
        BY ToldElements
    <2> HIDE DEF u
    <2>2. u = <<Up>>
        BY <2>1, <2>3, CallbackTypes
    <2> QED BY <2>2 DEF u
<1> QED BY <1>1, <1>2


(* start, which opens a number for the listening socket, ...               *)
LEMMA StartStep ==
    ASSUME ManagerInv, Start
    PROVE  ManagerInv'
<1>1. TypeOK'
    BY LowestIsFree DEF ManagerInv, Types, TypeOK, Start
<1>2. Places'
    BY DEF ManagerInv, Types, Places, Start
<1>3. (log \in [Conns -> Seq(Callback)])'
    BY DEF ManagerInv, Types, Start
<1>4. Numbers'
    BY DEF ManagerInv, Numbers, Start
<1>5. Work'
    BY DEF ManagerInv, Work, Start
<1>6. ClosedForGood'
    BY DEF ManagerInv, Types, Places, Threads, ClosedForGood, Start
<1>7. Counted'
    BY LowestIsFree DEF ManagerInv, Types, Places, Counted, Some, Start
<1>8. Unheard'
    BY DEF ManagerInv, Work, Unheard, Start
<1>9. Found'
    BY DEF ManagerInv, Found, Start
<1>10. Undisturbed'
    BY LowestIsFree
       DEF ManagerInv, Types, Places, Undisturbed, KeptOf, StoryOf, Quiet,
           AtEnd, Start
<1> QED BY <1>1, <1>2, <1>3, <1>4, <1>5, <1>6, <1>7, <1>8, <1>9, <1>10
       DEF ManagerInv, Types

(* ... or keeps in listen_fd_ one that is closed again.                    *)
LEMMA StartFailsStep ==
    ASSUME ManagerInv, StartFails
    PROVE  ManagerInv'
<1>1. TypeOK'
    BY LowestIsFree DEF ManagerInv, Types, TypeOK, StartFails
<1>2. Places'
    BY DEF ManagerInv, Types, Places, StartFails
<1>3. (log \in [Conns -> Seq(Callback)])'
    BY DEF ManagerInv, Types, StartFails
<1>4. Numbers'
    BY DEF ManagerInv, Numbers, StartFails
<1>5. Work'
    BY DEF ManagerInv, Work, StartFails
<1>6. ClosedForGood'
    BY DEF ManagerInv, ClosedForGood, StartFails
<1>7. Counted'
    BY DEF ManagerInv, Counted, Some, StartFails
<1>8. Unheard'
    BY DEF ManagerInv, Work, Unheard, StartFails
<1>9. Found'
    BY DEF ManagerInv, Found, StartFails
<1>10. Undisturbed'
    BY DEF ManagerInv, Undisturbed, KeptOf, StoryOf, Quiet, AtEnd, StartFails
<1> QED BY <1>1, <1>2, <1>3, <1>4, <1>5, <1>6, <1>7, <1>8, <1>9, <1>10
       DEF ManagerInv, Types

(* stop sets running_, which only decides where loops lead, ...            *)
LEMMA StopRunningStep ==
    ASSUME ManagerInv, StopRunning
    PROVE  ManagerInv'
<1>1. TypeOK'
    BY DEF ManagerInv, Types, TypeOK, StopRunning
<1>2. Places'
    BY DEF ManagerInv, Types, Places, StopRunning
<1>3. (log \in [Conns -> Seq(Callback)])'
    BY DEF ManagerInv, Types, StopRunning
<1>4. Numbers'
    BY DEF ManagerInv, Numbers, StopRunning
<1>5. Work'
    BY DEF ManagerInv, Work, StopRunning
<1>6. ClosedForGood'
    BY DEF ManagerInv, ClosedForGood, StopRunning
<1>7. Counted'
    BY DEF ManagerInv, Threads, Counted, Some, StopRunning
<1>8. Unheard'
    BY DEF ManagerInv, Work, Unheard, StopRunning
<1>9. Found'
    BY DEF ManagerInv, Found, StopRunning
<1>10. Undisturbed'
    BY DEF ManagerInv, Undisturbed, KeptOf, StoryOf, Quiet, AtEnd, StopRunning
<1> QED BY <1>1, <1>2, <1>3, <1>4, <1>5, <1>6, <1>7, <1>8, <1>9, <1>10
       DEF ManagerInv, Types

(* connect changes nothing but running_ before it has a number, ...        *)
LEMMA ConnectEndsEarlyStep ==
    ASSUME ManagerInv, ConnectEndsEarly
    PROVE  ManagerInv'
<1>1. TypeOK'
    BY DEF ManagerInv, Types, TypeOK, ConnectEndsEarly
<1>2. Places'
    BY DEF ManagerInv, Types, Places, ConnectEndsEarly
<1>3. (log \in [Conns -> Seq(Callback)])'
    BY DEF ManagerInv, Types, ConnectEndsEarly
<1>4. Numbers'
    BY DEF ManagerInv, Numbers, ConnectEndsEarly
<1>5. Work'
    BY DEF ManagerInv, Work, ConnectEndsEarly
<1>6. ClosedForGood'
    BY DEF ManagerInv, ClosedForGood, ConnectEndsEarly
<1>7. Counted'
    BY DEF ManagerInv, Counted, Some, ConnectEndsEarly
<1>8. Unheard'
    BY DEF ManagerInv, Unheard, ConnectEndsEarly
<1>9. Found'
    BY DEF ManagerInv, Found, ConnectEndsEarly
<1>10. Undisturbed'
    BY DEF ManagerInv, Undisturbed, KeptOf, StoryOf, Quiet, AtEnd,
           ConnectEndsEarly
<1> QED BY <1>1, <1>2, <1>3, <1>4, <1>5, <1>6, <1>7, <1>8, <1>9, <1>10
       DEF ManagerInv, Types

(* ... closes the number in listen_fd_, whosever it is by then, ...        *)
LEMMA StopListeningStep ==
    ASSUME ManagerInv, StopListening
    PROVE  ManagerInv'
<1>1. TypeOK'
    BY DEF ManagerInv, Types, TypeOK, StopListening
<1>2. Places'
    BY DEF ManagerInv, Types, Places, StopListening
<1>3. (log \in [Conns -> Seq(Callback)])'
    BY DEF ManagerInv, Types, StopListening
<1>4. Numbers'
    BY DEF ManagerInv, Types, TypeOK, Numbers, StopListening
<1>5. Work'
    BY DEF ManagerInv, Work, StopListening
<1>6. ClosedForGood'
    BY DEF ManagerInv, Types, Places, Threads, ClosedForGood, StopListening
<1>7. Counted'
    BY DEF ManagerInv, Counted, Some, StopListening
<1>8. Unheard'
    BY DEF ManagerInv, Unheard, StopListening
<1>9. Found'
    BY DEF ManagerInv, Found, StopListening
<1>10. Undisturbed'
    BY DEF ManagerInv, Undisturbed, KeptOf, StoryOf, Quiet, AtEnd, StopListening
<1> QED BY <1>1, <1>2, <1>3, <1>4, <1>5, <1>6, <1>7, <1>8, <1>9, <1>10
       DEF ManagerInv, Types

(* ... and goes into closeConnection with an entry it finds.               *)
LEMMA StopConnectionsStep ==
    ASSUME ManagerInv, StopConnections
    PROVE  ManagerInv'
<1>1. TypeOK'
    <2>1. CASE \A n \in Fds : entries[n] = None
        BY <2>1 DEF ManagerInv, Types, TypeOK, StopConnections
    <2>2. ASSUME NEW n \in Fds, entries[n] # None, mutex' = User,
                 on' = [on EXCEPT ![User] = entries[n]],
                 called' = called \cup {entries[n]}, Goto(User, "close")
          PROVE  TypeOK'
        BY <2>2 DEF ManagerInv, Types, TypeOK, StopConnections
    <2> QED BY <2>1, <2>2 DEF StopConnections
<1>2. Places'
    <2>1. CASE \A n \in Fds : entries[n] = None
        BY <2>1 DEF ManagerInv, Types, Places, StopConnections
    <2>2. ASSUME NEW n \in Fds, entries[n] # None, mutex' = User,
                 on' = [on EXCEPT ![User] = entries[n]],
                 called' = called \cup {entries[n]}, Goto(User, "close")
          PROVE  Places'
        BY <2>2 DEF ManagerInv, Types, TypeOK, Places
    <2> QED BY <2>1, <2>2 DEF StopConnections
<1>3. (log \in [Conns -> Seq(Callback)])'
    BY DEF ManagerInv, Types, StopConnections
<1>4. Numbers'
    BY DEF ManagerInv, Types, TypeOK, Places, Numbers, StopConnections
<1>5. Work'
    BY DEF ManagerInv, Types, TypeOK, Places, Work, StopConnections
<1>6. ClosedForGood'
    BY DEF ManagerInv, Types, TypeOK, Places, ClosedForGood, StopConnections
<1>7. Counted'
    BY CountedStays DEF ManagerInv, Types, TypeOK, Places, StopConnections
<1>8. Unheard'
    BY DEF ManagerInv, Types, TypeOK, Places, Numbers, Unheard, StopConnections
<1>9. Found'
    BY DEF ManagerInv, Types, Places, Found, StopConnections
<1>10. Undisturbed'
    <2>1. Quiet' \subseteq Quiet
        BY DEF StopConnections, Quiet
    <2>2. ASSUME NEW c \in Quiet' PROVE KeptOf(c)' /\ StoryOf(c)'
        <3>1. c \in Conns /\ KeptOf(c) /\ StoryOf(c)
            BY <2>1, <2>2 DEF ManagerInv, Undisturbed, Quiet
        <3>2. /\ UNCHANGED <<fd, table, info, sock, log, got, peer, sent>>
              /\ pc'[c] = pc[c]
              /\ pc'[User] \notin Opens /\ pc[User] \notin Opens
              /\ pc'[Acceptor] = pc[Acceptor] /\ on'[Acceptor] = on[Acceptor]
            BY <3>1 DEF ManagerInv, Types, TypeOK, Places, StopConnections
        <3> QED BY <3>1, <3>2, NotConcerned DEF AtEnd
    <2> QED BY <2>2 DEF Undisturbed
<1> QED BY <1>1, <1>2, <1>3, <1>4, <1>5, <1>6, <1>7, <1>8, <1>9, <1>10
       DEF ManagerInv, Types

(* ... takes a free number, ...                                            *)
LEMMA ConnectStep ==
    ASSUME ManagerInv, NEW t \in Targets, Connect(t)
    PROVE  ManagerInv'
<1>1. TypeOK'
    BY LowestIsFree DEF ManagerInv, Types, TypeOK, Connect
<1>2. Places'
    BY DEF ManagerInv, Types, TypeOK, Places, Connect
<1>3. (log \in [Conns -> Seq(Callback)])'
    BY DEF ManagerInv, Types, Connect
<1>4. Numbers'
    BY LowestIsFree DEF ManagerInv, Types, TypeOK, Numbers, Connect
<1>5. Work'
    BY DEF ManagerInv, Types, TypeOK, Numbers, Work, Connect
<1>6. ClosedForGood'
    BY DEF ManagerInv, Types, Places, Threads, Numbers, ClosedForGood, Connect
<1>7. Counted'
    BY LowestIsFree
       DEF ManagerInv, Types, TypeOK, Places, Counted, Some, Connect
<1>8. Unheard'
    BY LowestIsFree DEF ManagerInv, Types, TypeOK, Numbers, Unheard, Connect
<1>9. Found'
    BY DEF ManagerInv, Found, Connect
<1>10. Undisturbed'
    BY LowestIsFree
       DEF ManagerInv, Types, TypeOK, Undisturbed, KeptOf, StoryOf, Quiet,
           AtEnd, Connect
<1> QED BY <1>1, <1>2, <1>3, <1>4, <1>5, <1>6, <1>7, <1>8, <1>9, <1>10
       DEF ManagerInv, Types

(* ... is connected, ...                                                   *)
LEMMA ConnectedStep ==
    ASSUME ManagerInv, Connected
    PROVE  ManagerInv'
<1>1. TypeOK'
    BY DEF ManagerInv, Types, TypeOK, PeerStates, Connected
<1>2. Places'
    BY DEF ManagerInv, Types, Places, Connected
<1>3. (log \in [Conns -> Seq(Callback)])'
    BY DEF ManagerInv, Types, Connected
<1>4. Numbers'
    BY DEF ManagerInv, Numbers, Connected
<1>5. Work'
    BY DEF ManagerInv, Types, Places, Work, Connected
<1>6. ClosedForGood'
    BY DEF ManagerInv, ClosedForGood, Connected
<1>7. Counted'
    BY CountedStays DEF ManagerInv, Connected, Work
<1>8. Unheard'
    BY DEF ManagerInv, Unheard, Connected
<1>9. Found'
    BY DEF ManagerInv, Found, Connected
<1>10. Undisturbed'
    BY DEF ManagerInv, Work, Undisturbed, KeptOf, StoryOf, Quiet, AtEnd,
           Connected
<1> QED BY <1>1, <1>2, <1>3, <1>4, <1>5, <1>6, <1>7, <1>8, <1>9, <1>10
       DEF ManagerInv, Types

(* ... or closes its number and leaves its entry.                          *)
LEMMA ConnectFailsStep ==
    ASSUME ManagerInv, ConnectFails
    PROVE  ManagerInv'
<1>1. TypeOK'
    BY DEF ManagerInv, Types, TypeOK, PeerStates, ConnectFails
<1>2. Places'
    BY DEF ManagerInv, Types, TypeOK, Places, ConnectFails
<1>3. (log \in [Conns -> Seq(Callback)])'
    BY DEF ManagerInv, Types, ConnectFails
<1>4. Numbers'
    BY DEF ManagerInv, Types, TypeOK, Places, Numbers, ConnectFails
<1>5. Work'
    BY DEF ManagerInv, Types, Places, Work, ConnectFails
<1>6. ClosedForGood'
    BY DEF ManagerInv, Types, Places, Threads, ClosedForGood, ConnectFails
<1>7. Counted'
    <2> DEFINE c == on[User]
               n == fd[c]
    <2>1. c \in Conns /\ n \in Fds /\ pc[User] = "connect"
        BY Working DEF ConnectFails
    <2>2. /\ \A m \in Fds : table'[m] = IF m = n THEN None ELSE table[m]
          /\ UNCHANGED <<entries, fd>> /\ victims' = victims \cup Foreign(table[n], c)
          /\ \A d \in Conns : peer'[d] = IF d = c THEN "refused" ELSE peer[d]
          /\ \A u \in Threads \ {User} : pc'[u] = pc[u] /\ on'[u] = on[u]
        BY <2>1 DEF ConnectFails, ManagerInv, Types, TypeOK
    <2>3. ASSUME NEW d \in Conns \ victims', fd[d] # -1
          PROVE  /\ entries[fd[d]] = d /\ table'[fd[d]] # d => Some("erase", d)' \/ peer'[d] = "refused"
                 /\ table'[fd[d]] = d /\ entries[fd[d]] # d => Some("insert", d)'
        <3>1. fd[d] \in Fds /\ d \notin victims
            BY <2>2, <2>3 DEF ManagerInv, Types, TypeOK
        <3>2. d # c /\ fd[d] = n => table[n] # d
            BY <2>2, <2>3
        <3>3. Some("erase", d) => Some("erase", d)'
            BY <2>1, <2>2 DEF Some
        <3>4. Some("insert", d) => Some("insert", d)'
            BY <2>1, <2>2 DEF Some
        <3> QED BY <2>2, <2>3, <3>1, <3>2, <3>3, <3>4 DEF ManagerInv, Counted
    <2> QED BY <2>2, <2>3 DEF Counted
<1>8. Unheard'
    BY DEF ManagerInv, Unheard, ConnectFails
<1>9. Found'
    BY DEF ManagerInv, Found, ConnectFails
<1>10. Undisturbed'
    BY DEF ManagerInv, Types, Places, Work, Undisturbed, KeptOf, StoryOf, Quiet,
           AtEnd, ConnectFails
<1> QED BY <1>1, <1>2, <1>3, <1>4, <1>5, <1>6, <1>7, <1>8, <1>9, <1>10
       DEF ManagerInv, Types

(* The acceptor waits for a peer, ...                                      *)
LEMMA AcceptCallStep ==
    ASSUME ManagerInv, AcceptCall
    PROVE  ManagerInv'
<1>1. TypeOK'
    BY DEF ManagerInv, Types, TypeOK, AcceptCall
<1>2. Places'
    BY DEF ManagerInv, Types, Places, AcceptCall, AcceptLoop
<1>3. (log \in [Conns -> Seq(Callback)])'
    BY DEF ManagerInv, Types, AcceptCall
<1>4. Numbers'
    BY DEF ManagerInv, Numbers, AcceptCall
<1>5. Work'
    BY DEF ManagerInv, Work, AcceptCall, AcceptLoop
<1>6. ClosedForGood'
    BY DEF ManagerInv, ClosedForGood, AcceptCall, AcceptLoop
<1>7. Counted'
    BY DEF ManagerInv, Counted, Some, AcceptCall
<1>8. Unheard'
    BY DEF ManagerInv, Unheard, AcceptCall, AcceptLoop
<1>9. Found'
    BY DEF ManagerInv, Found, AcceptCall
<1>10. Undisturbed'
    BY DEF ManagerInv, Undisturbed, KeptOf, StoryOf, Quiet, AtEnd, AcceptCall,
           AcceptLoop
<1> QED BY <1>1, <1>2, <1>3, <1>4, <1>5, <1>6, <1>7, <1>8, <1>9, <1>10
       DEF ManagerInv, Types

(* ... takes a free number for it, ...                                     *)
LEMMA AcceptStep ==
    ASSUME ManagerInv, NEW p \in Peers, Accept(p)
    PROVE  ManagerInv'
<1>1. TypeOK'
    BY LowestIsFree DEF ManagerInv, Types, TypeOK, PeerStates, Accept
<1>2. Places'
    BY DEF ManagerInv, Types, TypeOK, Places, Accept
<1>3. (log \in [Conns -> Seq(Callback)])'
    BY DEF ManagerInv, Types, Accept
<1>4. Numbers'
    BY LowestIsFree DEF ManagerInv, Types, TypeOK, Numbers, Accept
<1>5. Work'
    BY DEF ManagerInv, Types, TypeOK, Numbers, Work, Accept
<1>6. ClosedForGood'
    BY DEF ManagerInv, Types, Places, Threads, Numbers, ClosedForGood, Accept
<1>7. Counted'
    BY LowestIsFree
       DEF ManagerInv, Types, TypeOK, Places, Counted, Some, Accept
<1>8. Unheard'
    BY LowestIsFree
       DEF ManagerInv, Types, TypeOK, Places, Numbers, Unheard, Accept
<1>9. Found'
    BY DEF ManagerInv, Found, Accept
<1>10. Undisturbed'
    BY LowestIsFree
       DEF ManagerInv, Types, TypeOK, Numbers, Undisturbed, KeptOf, StoryOf,
           Quiet, AtEnd, Accept
<1> QED BY <1>1, <1>2, <1>3, <1>4, <1>5, <1>6, <1>7, <1>8, <1>9, <1>10
       DEF ManagerInv, Types

(* ... or goes on without one.                                             *)
LEMMA AcceptFailsStep ==
    ASSUME ManagerInv, AcceptFails
    PROVE  ManagerInv'
<1>1. TypeOK'
    BY DEF ManagerInv, Types, TypeOK, AcceptFails
<1>2. Places'
    BY DEF ManagerInv, Types, Places, AcceptFails, AcceptLoop
<1>3. (log \in [Conns -> Seq(Callback)])'
    BY DEF ManagerInv, Types, AcceptFails
<1>4. Numbers'
    BY DEF ManagerInv, Numbers, AcceptFails
<1>5. Work'
    BY DEF ManagerInv, Work, AcceptFails, AcceptLoop
<1>6. ClosedForGood'
    BY DEF ManagerInv, ClosedForGood, AcceptFails, AcceptLoop
<1>7. Counted'
    BY DEF ManagerInv, Counted, Some, AcceptFails
<1>8. Unheard'
    BY DEF ManagerInv, Unheard, AcceptFails, AcceptLoop
<1>9. Found'
    BY DEF ManagerInv, Found, AcceptFails
<1>10. Undisturbed'
    BY DEF ManagerInv, Undisturbed, KeptOf, StoryOf, Quiet, AtEnd, AcceptFails,
           AcceptLoop
<1> QED BY <1>1, <1>2, <1>3, <1>4, <1>5, <1>6, <1>7, <1>8, <1>9, <1>10
       DEF ManagerInv, Types

(* The entry is made, in place of another's if there is one: that other is *)
(* a victim, or the number would not be its own.                           *)
LEMMA InsertStep ==
    ASSUME ManagerInv, NEW t \in Openers, Insert(t)
    PROVE  ManagerInv'
<1>1. TypeOK'
    BY DEF ManagerInv, Types, TypeOK, Insert
<1>2. Places'
    BY DEF ManagerInv, Types, Places, Insert
<1>3. (log \in [Conns -> Seq(Callback)])'
    BY DEF ManagerInv, Types, Insert
<1>4. Numbers'
    BY DEF ManagerInv, Types, TypeOK, Places, Numbers, Insert
<1>5. Work'
    BY DEF ManagerInv, Work, Insert
<1>6. ClosedForGood'
    BY DEF ManagerInv, ClosedForGood, Insert
<1>7. Counted'
    <2> DEFINE c == on[t]
               n == fd[c]
    <2>1. c \in Conns /\ n \in Fds /\ pc[t] = "insert"
        BY Working DEF Insert
    <2>2. /\ \A m \in Fds : entries'[m] = IF m = n THEN c ELSE entries[m]
          /\ UNCHANGED <<table, fd, peer, on>> /\ victims' = victims \cup Foreign(table[n], c)
          /\ pc'[t] \in {"connect", "announce"} /\ \A u \in Threads \ {t} : pc'[u] = pc[u]
        BY <2>1 DEF Insert, ManagerInv, Types, TypeOK, Places
    <2>3. c \notin victims => table[n] = c
        BY <2>1 DEF ManagerInv, Unheard, Undisturbed, Quiet, KeptOf
    <2>4. ASSUME NEW d \in Conns \ victims', d # c, fd[d] # -1
          PROVE  /\ entries'[fd[d]] = d /\ table[fd[d]] # d => Some("erase", d)' \/ peer[d] = "refused"
                 /\ table[fd[d]] = d /\ entries'[fd[d]] # d => Some("insert", d)'
        <3>1. fd[d] \in Fds /\ d \notin victims
            BY <2>2, <2>4 DEF ManagerInv, Types, TypeOK
        <3>2. fd[d] = n => table[n] # d
            BY <2>2, <2>4
        <3>3. Some("erase", d) => Some("erase", d)'
            BY <2>1, <2>2 DEF Some
        <3>4. Some("insert", d) => Some("insert", d)'
            BY <2>1, <2>2, <2>4 DEF Some
        <3> QED BY <2>2, <2>4, <3>1, <3>2, <3>3, <3>4 DEF ManagerInv, Counted
    <2>5. entries'[n] = c
        BY <2>1, <2>2
    <2> HIDE DEF c, n
    <2> QED BY <2>2, <2>3, <2>4, <2>5 DEF Counted, c, n
<1>8. Unheard'
    BY DEF ManagerInv, Types, Places, Work, Unheard, Insert
<1>9. Found'
    BY DEF ManagerInv, Found, Insert
<1>10. Undisturbed'
    BY DEF ManagerInv, Undisturbed, KeptOf, StoryOf, Quiet, AtEnd, Insert
<1> QED BY <1>1, <1>2, <1>3, <1>4, <1>5, <1>6, <1>7, <1>8, <1>9, <1>10
       DEF ManagerInv, Types

(* CONNECTED is the first callback: nobody else was at work on it.         *)
LEMMA AnnounceUpStep ==
    ASSUME ManagerInv, NEW t \in Openers, AnnounceUp(t)
    PROVE  ManagerInv'
<1>1. TypeOK'
    BY DEF ManagerInv, Types, TypeOK, AnnounceUp
<1>2. Places'
    BY DEF ManagerInv, Types, Places, AnnounceUp
<1>3. (log \in [Conns -> Seq(Callback)])'
    BY CalledBack, CallbackTypes DEF ManagerInv, Types, AnnounceUp
<1>4. Numbers'
    BY DEF ManagerInv, Numbers, AnnounceUp
<1>5. Work'
    BY DEF ManagerInv, Work, AnnounceUp
<1>6. ClosedForGood'
    BY DEF ManagerInv, ClosedForGood, AnnounceUp
<1>7. Counted'
    BY CountedStays DEF ManagerInv, AnnounceUp
<1>8. Unheard'
    BY DEF ManagerInv, Unheard, AnnounceUp
<1>9. Found'
    BY DEF ManagerInv, Found, AnnounceUp
<1>10. Undisturbed'
    <2>1. Quiet' \subseteq Quiet
        BY DEF Quiet, AnnounceUp
    <2>2. ASSUME NEW d \in Quiet' PROVE KeptOf(d)' /\ StoryOf(d)'
        <3>1. d \in Conns /\ d \notin victims /\ KeptOf(d) /\ StoryOf(d)
            BY <2>1, <2>2 DEF ManagerInv, Undisturbed, Quiet
        <3>2. /\ UNCHANGED <<fd, table, on, info, sock, got, peer, sent>>
              /\ pc[t] = "announce" /\ pc'[t] = "spawn" /\ on[t] \in Conns
              /\ \A u \in Threads \ {t} : pc'[u] = pc[u]
              /\ log'[on[t]] = Append(log[on[t]], Up) /\ \A e \in Conns \ {on[t]} : log'[e] = log[e]
            BY Working DEF ManagerInv, Types, Places, AnnounceUp
        <3>3. CASE d # on[t]
            BY <3>1, <3>2, <3>3, NotConcerned DEF AtEnd
        <3>4. CASE d = on[t]
            <4>1. pc[d] = "idle" /\ pc'[d] = "idle"
                BY <3>1, <3>2, <3>4 DEF ManagerInv, Work
            <4>2. \A u \in Openers : u # t /\ pc[u] \in Opens => on[u] # d
                BY <3>2, <3>4 DEF ManagerInv, Work
            <4>3. log[d] = <<>> /\ got[d] = 0
                BY <3>1, <3>2, <4>1, <4>2 DEF StoryOf
            <4>4. log'[d] = <<Up>>
                BY <3>2, <3>4, <4>3
            <4> QED BY <3>1, <3>2, <3>4, <4>1, <4>2, <4>3, <4>4
                   DEF KeptOf, StoryOf
        <3> QED BY <3>3, <3>4
    <2> QED BY <2>2 DEF Undisturbed
<1> QED BY <1>1, <1>2, <1>3, <1>4, <1>5, <1>6, <1>7, <1>8, <1>9, <1>10
       DEF ManagerInv, Types

(* The receiver starts where its opener ends.                              *)
LEMMA SpawnStep ==
    ASSUME ManagerInv, NEW t \in Openers, Spawn(t)
    PROVE  ManagerInv'
<1>1. TypeOK'
    BY DEF ManagerInv, Types, TypeOK, Spawn
<1>2. Places'
    BY DEF ManagerInv, Types, TypeOK, Places, Threads, Spawn, AcceptLoop
<1>3. (log \in [Conns -> Seq(Callback)])'
    BY DEF ManagerInv, Types, Spawn
<1>4. Numbers'
    BY DEF ManagerInv, Types, Places, Numbers, Spawn
<1>5. Work'
    BY DEF ManagerInv, Types, Places, Work, Spawn, AcceptLoop
<1>6. ClosedForGood'
    BY DEF ManagerInv, Types, Places, ClosedForGood, Spawn, AcceptLoop
<1>7. Counted'
    BY CountedStays DEF ManagerInv, Types, Places, Spawn, Work
<1>8. Unheard'
    BY DEF ManagerInv, Types, Places, Unheard, Spawn, AcceptLoop
<1>9. Found'
    BY DEF ManagerInv, Types, Places, Found, Spawn
<1>10. Undisturbed'
    <2>1. Quiet' \subseteq Quiet
        BY DEF Quiet, Spawn
    <2>2. ASSUME NEW d \in Quiet' PROVE KeptOf(d)' /\ StoryOf(d)'
        <3>1. d \in Conns /\ d \notin victims /\ KeptOf(d) /\ StoryOf(d)
            BY <2>1, <2>2 DEF ManagerInv, Undisturbed, Quiet
        <3>2. /\ UNCHANGED <<fd, table, log, info, sock, got, peer, sent>>
              /\ pc[t] = "spawn" /\ pc'[t] \notin Opens /\ on[t] \in Conns
              /\ pc'[on[t]] = "find"
              /\ \A u \in Threads \ {t, on[t]} : pc'[u] = pc[u]
              /\ \A u \in Threads \ {t} : on'[u] = on[u]
            BY Working DEF ManagerInv, Types, Places, Spawn, AcceptLoop
        <3>3. CASE d # on[t]
            BY <3>1, <3>2, <3>3, NotConcerned DEF AtEnd
        <3>4. CASE d = on[t]
            <4>1. pc[d] = "idle" /\ table[fd[d]] = d /\ got[d] = 0 /\ log[d] = <<Up>>
                BY <3>1, <3>2, <3>4 DEF ManagerInv, Work, KeptOf, StoryOf
            <4>2. \A u \in Openers : u # t /\ pc[u] \in Opens => on[u] # d
                BY <3>2, <3>4 DEF ManagerInv, Work
            <4>3. log[d] = Told(d, got[d])
                BY <3>1, <4>1, ToldGrows
            <4>4. KeptOf(d)'
                BY <3>1, <3>2, <3>4, <4>1, <4>2 DEF KeptOf
            <4>5. pc'[d] = "find" /\ log'[d] = log[d] /\ got'[d] = got[d]
                BY <3>1, <3>2, <3>4
            <4>6. StoryOf(d)'
                BY <4>3, <4>5 DEF StoryOf
            <4> QED BY <4>4, <4>6
        <3> QED BY <3>3, <3>4
    <2> QED BY <2>2 DEF Undisturbed
<1> QED BY <1>1, <1>2, <1>3, <1>4, <1>5, <1>6, <1>7, <1>8, <1>9, <1>10
       DEF ManagerInv, Types

(* The receiver finds the entry of its own connection, which is in the map *)
(* as soon as its opener has gone on from the insertion.                   *)
LEMMA FindStep ==
    ASSUME ManagerInv, NEW c \in Conns, Find(c)
    PROVE  ManagerInv'
<1>1. TypeOK'
    BY Working DEF ManagerInv, Types, TypeOK, Find
<1>2. Places'
    BY DEF ManagerInv, Types, Places, Find, ReceiveLoop
<1>3. (log \in [Conns -> Seq(Callback)])'
    BY DEF ManagerInv, Types, Find
<1>4. Numbers'
    BY Working DEF ManagerInv, Numbers, Find
<1>5. Work'
    BY DEF ManagerInv, Work, Find
<1>6. ClosedForGood'
    BY DEF ManagerInv, ClosedForGood, Find, ReceiveLoop
<1>7. Counted'
    BY CountedStays DEF ManagerInv, Find
<1>8. Unheard'
    BY DEF ManagerInv, Unheard, Find
<1>9. Found'
    BY DEF ManagerInv, Types, TypeOK, Numbers, Found, Find, ReceiveLoop
<1>10. Undisturbed'
    <2>1. Quiet' \subseteq Quiet
        BY DEF Quiet, Find
    <2>2. ASSUME NEW d \in Quiet' PROVE KeptOf(d)' /\ StoryOf(d)'
        <3>1. d \in Conns /\ d \notin victims /\ KeptOf(d) /\ StoryOf(d)
            BY <2>1, <2>2 DEF ManagerInv, Undisturbed, Quiet
        <3>2. UNCHANGED <<fd, table, on, log, got, peer, sent, sock>> /\ pc[c] = "find"
            BY DEF Find
        <3>3. CASE d # c
            <4>1. pc'[d] = pc[d] /\ info'[d] = info[d] /\ \A t \in Openers : pc'[t] = pc[t]
                BY <3>1, <3>3 DEF Find
            <4> QED BY <3>1, <3>2, <4>1, NotConcerned DEF AtEnd
        <3>4. CASE d = c
            <4>1. table[fd[c]] = c /\ fd[c] \in Fds
                BY <3>1, <3>2, <3>4, Working DEF KeptOf
            <4>2. ~Some("insert", c)
                BY <3>2 DEF ManagerInv, Types, Places, Work, Threads, Some
            <4>3. entries[fd[c]] = c
                BY <3>1, <3>4, <4>1, <4>2 DEF ManagerInv, Counted
            <4>4. /\ pc'[c] \in {"recv", "done"} /\ info'[c] = c
                  /\ \A t \in Openers : pc'[t] = pc[t]
                BY <4>3
                   DEF ManagerInv, Types, TypeOK, Places, Find, ReceiveLoop
            <4> QED BY <3>1, <3>2, <3>4, <4>1, <4>4 DEF KeptOf, StoryOf, Told
        <3> QED BY <3>3, <3>4
    <2> QED BY <2>2 DEF Undisturbed
<1> QED BY <1>1, <1>2, <1>3, <1>4, <1>5, <1>6, <1>7, <1>8, <1>9, <1>10
       DEF ManagerInv, Types

(* recv waits on the socket under the number.                              *)
LEMMA RecvCallStep ==
    ASSUME ManagerInv, NEW c \in Conns, RecvCall(c)
    PROVE  ManagerInv'
<1>0. PICK to \in {"waiting", "close"}, s \in Conns \cup {None} :
          /\ pc[c] = "recv" /\ Goto(c, to) /\ sock' = [sock EXCEPT ![c] = s]
          /\ to = "waiting" => s \in Conns /\ s = table[fd[c]]
          /\ to = "close" => s = None /\ table[fd[c]] # c
          /\ victims' = victims \cup Foreign(table[fd[c]], c)
          /\ UNCHANGED <<running, listen, entries, mutex, table, peer, sent, got, on, fd, info,
                         called, log>>
    BY DEF RecvCall
<1>1. TypeOK'
    BY <1>0 DEF ManagerInv, Types, TypeOK
<1>2. Places'
    BY <1>0 DEF ManagerInv, Types, Places
<1>3. (log \in [Conns -> Seq(Callback)])'
    BY <1>0 DEF ManagerInv, Types
<1>4. Numbers'
    BY <1>0 DEF ManagerInv, Types, TypeOK, Numbers
<1>5. Work'
    BY <1>0 DEF ManagerInv, Work
<1>6. ClosedForGood'
    BY <1>0 DEF ManagerInv, ClosedForGood
<1>7. Counted'
    BY <1>0, CountedStays DEF ManagerInv
<1>8. Unheard'
    BY <1>0 DEF ManagerInv, Unheard
<1>9. Found'
    <2> USE DEF ManagerInv, Types, TypeOK, Places, Threads, Found
    <2>1. \A x \in Conns \ {c} : pc'[x] = pc[x] /\ info'[x] = info[x] /\ sock'[x] = sock[x]
        BY <1>0
    <2>2. info' = info /\ pc[c] = "recv" /\ victims \subseteq victims'
        BY <1>0
    <2>3. pc'[c] = "waiting" => sock'[c] \in Conns
        BY <1>0
    <2>4. sock'[c] \in Conns \ victims' => sock'[c] = c
        BY <1>0
    <2> QED BY <2>1, <2>2, <2>3, <2>4
<1>10. Undisturbed'
    <2>1. Quiet' \subseteq Quiet
        BY <1>0 DEF Quiet
    <2>2. ASSUME NEW d \in Quiet' PROVE KeptOf(d)' /\ StoryOf(d)'
        <3>1. d \in Conns /\ d \notin victims /\ KeptOf(d) /\ StoryOf(d)
            BY <2>1, <2>2 DEF ManagerInv, Undisturbed, Quiet
        <3>2. UNCHANGED <<fd, table, on, info, log, got, peer, sent>> /\ pc[c] = "recv"
            BY <1>0
        <3>3. \A u \in Threads \ {c} : pc'[u] = pc[u]
            BY <1>0 DEF ManagerInv, Types, Places
        <3>4. CASE d # c
            <4>1. sock'[d] = sock[d]
                BY <1>0, <3>1, <3>4 DEF ManagerInv, Types, TypeOK
            <4> QED BY <3>1, <3>2, <3>3, <3>4, <4>1, NotConcerned DEF AtEnd
        <3>5. CASE d = c
            <4>1. table[fd[c]] = c /\ info[c] = c
                BY <3>1, <3>2, <3>5 DEF KeptOf
            <4>2. pc'[c] = "waiting" /\ sock'[c] = c
                BY <1>0, <4>1 DEF ManagerInv, Types, TypeOK, Places
            <4>3. KeptOf(c)'
                BY <3>1, <3>2, <3>3, <3>5, <4>1, <4>2 DEF KeptOf
            <4>4. StoryOf(c)'
                BY <3>1, <3>2, <3>5, <4>2 DEF StoryOf
            <4> QED BY <3>5, <4>3, <4>4
        <3> QED BY <3>4, <3>5
    <2> QED BY <2>2 DEF Undisturbed
<1> QED BY <1>1, <1>2, <1>3, <1>4, <1>5, <1>6, <1>7, <1>8, <1>9, <1>10
       DEF ManagerInv, Types

(* Data is told of the connection whose entry was found and read from the  *)
(* socket recv went to: both the receiver's own, or victims.               *)
LEMMA RecvDataStep ==
    ASSUME ManagerInv, NEW c \in Conns, RecvData(c)
    PROVE  ManagerInv'
<1>1. TypeOK'
    <2> DEFINE s == sock[c]
    <2>1. s \in Conns /\ info[c] \in Conns /\ got[s] \in 0 .. MaxData /\ got[s] + 1 \in 0 .. MaxData
        BY ConnectionAssumption DEF ManagerInv, Types, TypeOK, Found, RecvData
    <2>2. got' \in [Conns -> 0 .. MaxData]
        BY <2>1 DEF ManagerInv, Types, TypeOK, RecvData
    <2> QED BY <2>2
           DEF ManagerInv, Types, TypeOK, PeerStates, Places, Threads, RecvData
<1>2. Places'
    BY DEF ManagerInv, Types, Places, RecvData, ReceiveLoop
<1>3. (log \in [Conns -> Seq(Callback)])'
    <2> DEFINE s == sock[c]
    <2>1. s \in Conns /\ info[c] \in Conns /\ got[s] \in 0 .. MaxData /\ got[s] + 1 \in 0 .. MaxData
        BY ConnectionAssumption DEF ManagerInv, Types, TypeOK, Found, RecvData
    <2> HIDE DEF s
    <2>2. Data(s, got[s] + 1) \in Callback
        BY <2>1, CallbackTypes
    <2> QED BY <2>1, <2>2, CalledBack DEF ManagerInv, Types, RecvData, s
<1>4. Numbers'
    <2>1. info[c] \in Conns /\ fd[info[c]] # -1
        BY DEF ManagerInv, Numbers, Found, RecvData
    <2>2. \A e \in Conns \ {info[c]} : log'[e] = log[e]
        BY <2>1 DEF RecvData
    <2>3. /\ UNCHANGED <<fd, table, entries, peer, on, called, victims>>
          /\ pc[c] # "idle" /\ \A u \in Threads \ {c} : pc'[u] = pc[u]
        BY DEF RecvData
    <2> QED BY <2>1, <2>2, <2>3 DEF ManagerInv, Numbers
<1>5. Work'
    BY DEF ManagerInv, Work, RecvData
<1>6. ClosedForGood'
    BY DEF ManagerInv, ClosedForGood, RecvData, ReceiveLoop
<1>7. Counted'
    BY CountedStays DEF ManagerInv, RecvData
<1>8. Unheard'
    BY DEF ManagerInv, Unheard, RecvData
<1>9. Found'
    <2> USE DEF ManagerInv, Types, TypeOK, Places, Threads, Found
    <2>1. \A x \in Conns \ {c} : pc'[x] = pc[x] /\ info'[x] = info[x] /\ sock'[x] = sock[x]
        BY DEF RecvData
    <2>2. info' = info /\ pc[c] = "waiting" /\ victims \subseteq victims'
        BY DEF RecvData
    <2>3. pc'[c] = "waiting" => sock'[c] \in Conns
        BY DEF ReceiveLoop, RecvData
    <2>4. sock'[c] \in Conns \ victims' => sock'[c] = c
        BY DEF RecvData
    <2> QED BY <2>1, <2>2, <2>3, <2>4
<1>10. Undisturbed'
    <2>1. Quiet' \subseteq Quiet
        BY DEF Quiet, RecvData
    <2>2. ASSUME NEW d \in Quiet' PROVE KeptOf(d)' /\ StoryOf(d)'
        <3>1. d \in Conns /\ d \notin victims /\ KeptOf(d) /\ StoryOf(d)
            BY <2>1, <2>2 DEF ManagerInv, Undisturbed, Quiet
        <3> DEFINE s == sock[c]
        <3>2. /\ UNCHANGED <<fd, table, on, info, peer, sent>> /\ pc[c] = "waiting" /\ pc'[c] \in {"recv", "done"}
              /\ s \in Conns /\ info[c] \in Conns /\ got[s] \in Nat
              /\ got'[s] = got[s] + 1 /\ \A e \in Conns \ {s} : got'[e] = got[e]
              /\ \A u \in Threads \ {c} : pc'[u] = pc[u]
              /\ \A e \in Conns \ {c} : sock'[e] = sock[e]
            BY DEF ManagerInv, Types, TypeOK, Found, Places, RecvData,
                   ReceiveLoop
        <3>3. /\ log'[info[c]] = Append(log[info[c]], Data(s, got[s] + 1))
              /\ \A e \in Conns \ {info[c]} : log'[e] = log[e]
            BY <3>2 DEF ManagerInv, Types, RecvData
        <3> HIDE DEF s
        <3>4. CASE d # c
            <4>1. s # d /\ info[c] # d
                BY <3>1, <3>4 DEF ManagerInv, Found, s
            <4> QED BY <3>1, <3>2, <3>3, <3>4, <4>1, NotConcerned DEF AtEnd
        <3>5. CASE d = c
            <4>1. info[c] = c /\ s = c /\ table[fd[c]] = c /\ log[c] = Told(c, got[c])
                BY <3>1, <3>2, <3>5 DEF KeptOf, StoryOf, s
            <4>2. log'[c] = Told(c, got'[c])
                <5>1. Append(Told(c, got[c]), Data(c, got[c] + 1)) = Told(c, got[c] + 1)
                    BY <3>2, <4>1, ToldGrows
                <5>2. log'[c] = Append(log[c], Data(c, got[c] + 1)) /\ got'[c] = got[c] + 1
                    BY <3>2, <3>3, <4>1
                <5> QED BY <4>1, <5>1, <5>2
            <4>3. KeptOf(c)'
                BY <3>1, <3>2, <3>5, <4>1 DEF KeptOf
            <4>4. StoryOf(c)'
                BY <3>2, <4>2 DEF StoryOf
            <4> QED BY <3>5, <4>3, <4>4
        <3> QED BY <3>4, <3>5
    <2> QED BY <2>2 DEF Undisturbed
<1> QED BY <1>1, <1>2, <1>3, <1>4, <1>5, <1>6, <1>7, <1>8, <1>9, <1>10
       DEF ManagerInv, Types

(* The receiver leaves its loop only at the end of the connection.         *)
LEMMA RecvEndsStep ==
    ASSUME ManagerInv, NEW c \in Conns, RecvEnds(c)
    PROVE  ManagerInv'
<1>1. TypeOK'
    BY DEF ManagerInv, Types, TypeOK, RecvEnds
<1>2. Places'
    BY DEF ManagerInv, Types, Places, RecvEnds
<1>3. (log \in [Conns -> Seq(Callback)])'
    BY DEF ManagerInv, Types, RecvEnds
<1>4. Numbers'
    BY DEF ManagerInv, Numbers, RecvEnds
<1>5. Work'
    BY DEF ManagerInv, Work, RecvEnds
<1>6. ClosedForGood'
    BY DEF ManagerInv, ClosedForGood, RecvEnds
<1>7. Counted'
    BY CountedStays DEF ManagerInv, RecvEnds
<1>8. Unheard'
    BY DEF ManagerInv, Unheard, RecvEnds
<1>9. Found'
    <2> USE DEF ManagerInv, Types, TypeOK, Places, Threads, Found
    <2>1. \A x \in Conns \ {c} : pc'[x] = pc[x] /\ info'[x] = info[x] /\ sock'[x] = sock[x]
        BY DEF RecvEnds
    <2>2. info' = info /\ pc[c] = "waiting" /\ victims \subseteq victims'
        BY DEF RecvEnds
    <2>3. pc'[c] = "waiting" => sock'[c] \in Conns
        BY DEF RecvEnds
    <2>4. sock'[c] \in Conns \ victims' => sock'[c] = c
        BY DEF RecvEnds
    <2> QED BY <2>1, <2>2, <2>3, <2>4
<1>10. Undisturbed'
    BY DEF ManagerInv, Types, Places, Undisturbed, KeptOf, StoryOf, Quiet,
           AtEnd, RecvEnds
<1> QED BY <1>1, <1>2, <1>3, <1>4, <1>5, <1>6, <1>7, <1>8, <1>9, <1>10
       DEF ManagerInv, Types

(* The program may close what it was told of: that is not a connection     *)
(* whose entry is yet to be made.                                          *)
LEMMA CloseConnectionStep ==
    ASSUME ManagerInv, NEW c \in Conns, CloseConnection(c)
    PROVE  ManagerInv'
<1>1. TypeOK'
    BY DEF ManagerInv, Types, TypeOK, CloseConnection
<1>2. Places'
    BY DEF ManagerInv, Types, TypeOK, Places, CloseConnection
<1>3. (log \in [Conns -> Seq(Callback)])'
    BY DEF ManagerInv, Types, CloseConnection
<1>4. Numbers'
    BY DEF ManagerInv, Numbers, CloseConnection
<1>5. Work'
    BY DEF ManagerInv, Types, TypeOK, Work, CloseConnection
<1>6. ClosedForGood'
    BY DEF ManagerInv, ClosedForGood, CloseConnection
<1>7. Counted'
    BY DEF ManagerInv, TypeOK, Places, Counted, Some, CloseConnection
<1>8. Unheard'
    <2>1. \A t \in Openers : pc[t] = "insert" /\ on[t] \notin victims => on[t] # c
        <3> SUFFICES ASSUME NEW t \in Openers, pc[t] = "insert", on[t] \notin victims, on[t] = c
                     PROVE  FALSE
            OBVIOUS
        <3>1. c \in Quiet /\ pc[c] = "idle" /\ log[c] # <<>>
            BY DEF ManagerInv, Work, Quiet, CloseConnection
        <3>2. \A u \in Openers : pc[u] = "spawn" => on[u] # c
            BY DEF ManagerInv, Work
        <3> QED BY <3>1, <3>2 DEF ManagerInv, Undisturbed, StoryOf
    <2> QED BY <2>1
           DEF ManagerInv, Types, TypeOK, Places, Threads, Unheard,
               CloseConnection
<1>9. Found'
    BY DEF ManagerInv, Found, CloseConnection
<1>10. Undisturbed'
    <2>1. Quiet' \subseteq Quiet
        BY DEF CloseConnection, Quiet
    <2>2. ASSUME NEW d \in Quiet' PROVE KeptOf(d)' /\ StoryOf(d)'
        <3>1. d \in Conns /\ KeptOf(d) /\ StoryOf(d)
            BY <2>1, <2>2 DEF ManagerInv, Undisturbed, Quiet
        <3>2. /\ UNCHANGED <<fd, table, info, sock, log, got, peer, sent>>
              /\ pc'[d] = pc[d]
              /\ pc'[User] \notin Opens /\ pc[User] \notin Opens
              /\ pc'[Acceptor] = pc[Acceptor] /\ on'[Acceptor] = on[Acceptor]
            BY <3>1 DEF CloseConnection
        <3> QED BY <3>1, <3>2, NotConcerned DEF AtEnd
    <2> QED BY <2>2 DEF Undisturbed
<1> QED BY <1>1, <1>2, <1>3, <1>4, <1>5, <1>6, <1>7, <1>8, <1>9, <1>10
       DEF ManagerInv, Types

(* closeConnection closes the number, ...                                  *)
LEMMA CloseStep ==
    ASSUME ManagerInv, NEW t \in Conns \cup {User}, Close(t)
    PROVE  ManagerInv'
<1>1. TypeOK'
    BY DEF ManagerInv, Types, TypeOK, Close
<1>2. Places'
    BY DEF ManagerInv, Types, Places, Close
<1>3. (log \in [Conns -> Seq(Callback)])'
    BY DEF ManagerInv, Types, Close
<1>4. Numbers'
    BY DEF ManagerInv, Types, TypeOK, Places, Numbers, Close
<1>5. Work'
    BY DEF ManagerInv, Work, Close
<1>6. ClosedForGood'
    BY DEF ManagerInv, Types, TypeOK, Places, Threads, Numbers, ClosedForGood,
           Close
<1>7. Counted'
    BY DEF ManagerInv, Types, Places, Counted, Some, Close
<1>8. Unheard'
    BY DEF ManagerInv, Unheard, Close
<1>9. Found'
    BY DEF ManagerInv, Found, Close
<1>10. Undisturbed'
    BY DEF ManagerInv, Types, Places, Work, Undisturbed, KeptOf, StoryOf, Quiet,
           AtEnd, Close
<1> QED BY <1>1, <1>2, <1>3, <1>4, <1>5, <1>6, <1>7, <1>8, <1>9, <1>10
       DEF ManagerInv, Types

(* ... erases the entry under it ...                                       *)
LEMMA EraseStep ==
    ASSUME ManagerInv, NEW t \in Conns \cup {User}, Erase(t)
    PROVE  ManagerInv'
<1>1. TypeOK'
    BY DEF ManagerInv, Types, TypeOK, Erase
<1>2. Places'
    BY DEF ManagerInv, Types, Places, Erase
<1>3. (log \in [Conns -> Seq(Callback)])'
    BY DEF ManagerInv, Types, Erase
<1>4. Numbers'
    BY DEF ManagerInv, Types, TypeOK, Places, Threads, Numbers, Erase
<1>5. Work'
    BY DEF ManagerInv, Work, Erase
<1>6. ClosedForGood'
    BY DEF ManagerInv, ClosedForGood, Erase
<1>7. Counted'
    BY DEF ManagerInv, Types, TypeOK, Places, ClosedForGood, Counted, Some,
           Erase
<1>8. Unheard'
    BY DEF ManagerInv, Work, Unheard, Erase
<1>9. Found'
    BY DEF ManagerInv, Found, Erase
<1>10. Undisturbed'
    BY DEF ManagerInv, Undisturbed, KeptOf, StoryOf, Quiet, AtEnd, Erase
<1> QED BY <1>1, <1>2, <1>3, <1>4, <1>5, <1>6, <1>7, <1>8, <1>9, <1>10
       DEF ManagerInv, Types

(* ... and tells of it.                                                    *)
LEMMA AnnounceDownStep ==
    ASSUME ManagerInv, NEW t \in Conns \cup {User}, AnnounceDown(t)
    PROVE  ManagerInv'
<1>1. TypeOK'
    BY DEF ManagerInv, Types, TypeOK, AnnounceDown, Home
<1>2. Places'
    BY DEF ManagerInv, Types, TypeOK, Places, AnnounceDown, Home
<1>3. (log \in [Conns -> Seq(Callback)])'
    <2>1. on[t] \in Conns
        BY Working DEF ManagerInv, Types, Places, AnnounceDown
    <2> QED BY <2>1, CalledBack, CallbackTypes
           DEF ManagerInv, Types, AnnounceDown
<1>4. Numbers'
    BY DEF ManagerInv, Types, Places, Numbers, AnnounceDown, Home
<1>5. Work'
    BY DEF ManagerInv, Types, Places, Work, AnnounceDown
<1>6. ClosedForGood'
    BY DEF ManagerInv, ClosedForGood, AnnounceDown
<1>7. Counted'
    BY DEF ManagerInv, TypeOK, Places, Counted, Some, AnnounceDown
<1>8. Unheard'
    BY DEF ManagerInv, Unheard, AnnounceDown
<1>9. Found'
    BY DEF ManagerInv, Found, AnnounceDown
<1>10. Undisturbed'
    BY DEF ManagerInv, Types, Places, Work, Undisturbed, KeptOf, StoryOf, Quiet,
           AtEnd, AnnounceDown
<1> QED BY <1>1, <1>2, <1>3, <1>4, <1>5, <1>6, <1>7, <1>8, <1>9, <1>10
       DEF ManagerInv, Types

(* What the other end does brings no connection back from its end.         *)
LEMMA PeerStep ==
    ASSUME ManagerInv, NEW c \in Conns, PeerSends(c) \/ PeerCloses(c) \/ PeerResets(c)
    PROVE  ManagerInv'
<1>1. TypeOK'
    <2>1. PeerSends(c) => TypeOK'
        BY ConnectionAssumption
           DEF ManagerInv, Types, TypeOK, PeerSends, PeerActs
    <2>2. PeerCloses(c) => TypeOK'
        BY DEF ManagerInv, Types, TypeOK, PeerStates, PeerCloses, PeerActs
    <2>3. PeerResets(c) => TypeOK'
        BY DEF ManagerInv, Types, TypeOK, PeerStates, PeerResets, PeerActs
    <2> QED BY <2>1, <2>2, <2>3
<1>2. Places'
    BY DEF ManagerInv, Types, Places, PeerSends, PeerCloses, PeerResets,
           PeerActs
<1>3. (log \in [Conns -> Seq(Callback)])'
    BY DEF ManagerInv, Types, PeerSends, PeerCloses, PeerResets, PeerActs
<1>4. Numbers'
    BY DEF ManagerInv, Types, TypeOK, Places, Numbers, PeerSends, PeerCloses,
           PeerResets, PeerActs
<1>5. Work'
    BY DEF ManagerInv, Types, TypeOK, Work, PeerSends, PeerCloses, PeerResets,
           PeerActs
<1>6. ClosedForGood'
    BY DEF ManagerInv, ClosedForGood, PeerSends, PeerCloses, PeerResets,
           PeerActs
<1>7. Counted'
    BY CountedStays
       DEF ManagerInv, Types, TypeOK, PeerSends, PeerCloses, PeerResets,
           PeerActs
<1>8. Unheard'
    BY DEF ManagerInv, Unheard, PeerSends, PeerCloses, PeerResets, PeerActs
<1>9. Found'
    BY DEF ManagerInv, Found, PeerSends, PeerCloses, PeerResets, PeerActs
<1>10. Undisturbed'
    <2>1. Quiet' \subseteq Quiet
        BY DEF Quiet, PeerSends, PeerCloses, PeerResets, PeerActs
    <2>2. ASSUME NEW d \in Quiet' PROVE KeptOf(d)' /\ StoryOf(d)'
        <3>1. d \in Conns /\ d \notin victims /\ KeptOf(d) /\ StoryOf(d)
            BY <2>1, <2>2 DEF ManagerInv, Undisturbed, Quiet
        <3>2. /\ UNCHANGED <<fd, table, info, sock, log, got, pc, on>>
              /\ AtEnd(d) => AtEnd(d)'
            BY <3>1
               DEF ManagerInv, Types, TypeOK, AtEnd, PeerSends, PeerCloses,
                   PeerResets, PeerActs
        <3> QED BY <3>1, <3>2, NotConcerned
    <2> QED BY <2>2 DEF Undisturbed
<1> QED BY <1>1, <1>2, <1>3, <1>4, <1>5, <1>6, <1>7, <1>8, <1>9, <1>10
       DEF ManagerInv, Types


-----------------------------------------------------------------------------
(* The constructor's state: no number is in use.                           *)
LEMMA Initially == Init => ManagerInv
<1> SUFFICES ASSUME Init PROVE ManagerInv
    OBVIOUS
<1> USE DEF Init
<1>1. Types
    <2>1. log \in [Conns -> Seq(Callback)]
        OBVIOUS
    <2>2. TypeOK
        <3>1. /\ on \in [Threads -> Conns \cup {None}] /\ 0 \in 0 .. MaxData
            BY ConnectionAssumption DEF Home
        <3> QED BY <3>1 DEF TypeOK, PeerStates
    <2>3. Places
        BY DEF Places, Home, Threads
    <2> QED BY <2>1, <2>2, <2>3 DEF Types
<1>2. Numbers
    BY DEF Numbers, Home, Threads
<1>3. Work /\ ClosedForGood
    BY DEF Work, ClosedForGood, Threads
<1>4. Counted /\ Unheard /\ Found
    BY DEF Counted, Unheard, Found, Threads
<1>5. Undisturbed
    BY DEF Undisturbed, Quiet, KeptOf, StoryOf, Threads, Home
<1> QED BY <1>1, <1>2, <1>3, <1>4, <1>5 DEF ManagerInv

(* A step that changes nothing leaves the invariant alone. *)
LEMMA Idle == ManagerInv /\ UNCHANGED vars => ManagerInv'
BY DEF vars, ManagerInv, Types, TypeOK, Places, Numbers, Work, ClosedForGood,
       Counted, Some,
       Unheard, Found, Undisturbed, Quiet, KeptOf, StoryOf, AtEnd

(* Every step keeps the invariant.                                         *)
LEMMA Preserved == ManagerInv /\ [Next]_vars => ManagerInv'
<1> SUFFICES ASSUME ManagerInv, [Next]_vars PROVE ManagerInv'
    OBVIOUS
<1>1. ASSUME NEW t \in Openers, Opening(t) PROVE ManagerInv'
    BY <1>1, InsertStep, AnnounceUpStep, SpawnStep DEF Opening
<1>2. ASSUME NEW t \in Conns \cup {User}, Closing(t) PROVE ManagerInv'
    BY <1>2, CloseStep, EraseStep, AnnounceDownStep DEF Closing
<1>3. CASE UserCalls
    BY <1>3, StartStep, StartFailsStep, StopRunningStep, ConnectEndsEarlyStep,
       ConnectStep,
       CloseConnectionStep DEF UserCalls
<1>4. CASE UserGoesOn
    BY <1>1, <1>2, <1>4, StopListeningStep, StopConnectionsStep, ConnectedStep,
       ConnectFailsStep
       DEF UserGoesOn
<1>5. CASE Accepting
    BY <1>1, <1>5, AcceptCallStep, AcceptFailsStep, AcceptStep DEF Accepting
<1>6. CASE World
    BY <1>6, PeerStep DEF World
<1>7. ASSUME NEW c \in Conns, Receiving(c) PROVE ManagerInv'
    BY <1>2, <1>7, FindStep, RecvCallStep, RecvDataStep, RecvEndsStep
       DEF Receiving
<1> QED BY <1>3, <1>4, <1>5, <1>6, <1>7, Idle DEF Next

(* The invariant holds in every behaviour, fair or not.                    *)
LEMMA ManagerInvStays == Spec => []ManagerInv
BY Initially, Preserved, PTL DEF Spec

-----------------------------------------------------------------------------
(* What the runs check says of numbers what Counted says of connections.   *)
LEMMA Tells == ManagerInv => ConnectionsCounted
<1> SUFFICES ASSUME ManagerInv PROVE ConnectionsCounted
    OBVIOUS
<1>1. TypeOK
    BY DEF ManagerInv, Types
<1>2. ASSUME NEW n \in Fds, entries[n] \in Conns \ victims, table[n] # entries[n]
      PROVE  Some("erase", entries[n]) \/ peer[entries[n]] = "refused"
    <2>1. fd[entries[n]] = n
        BY <1>2 DEF ManagerInv, Numbers
    <2> QED BY <1>2, <2>1 DEF ManagerInv, Counted
<1>3. ASSUME NEW n \in Fds, table[n] \in Conns \ victims, entries[n] # table[n]
      PROVE  Some("insert", table[n])
    <2>1. fd[table[n]] = n
        BY <1>3 DEF ManagerInv, Numbers
    <2> QED BY <1>3, <2>1 DEF ManagerInv, Counted
<1> QED BY <1>1, <1>2, <1>3 DEF ConnectionsCounted

(* A beginning of a sequence is one of all it is continued with, and what  *)
(* is told never holds DISCONNECTED before the end.                        *)
LEMMA Beginnings ==
    ASSUME NEW c \in Conns, NEW n \in Nat
    PROVE  /\ IsPrefix(<<>>, Told(c, n) \o <<Down>>)
           /\ IsPrefix(Told(c, n), Told(c, n) \o <<Down>>)
           /\ IsPrefix(Append(Told(c, n), Down), Told(c, n) \o <<Down>>)
           /\ Down \notin ToSet(Told(c, n)) /\ Down \notin ToSet(<<>>)
<1> DEFINE s == Told(c, n)
<1>1. s \in Seq(Callback) /\ Down \in Callback
    BY ToldElements, CallbackTypes
<1>2. Down \notin ToSet(s)
    <2> SUFFICES ASSUME NEW i \in 1 .. n + 1, s[i] = Down PROVE FALSE
        BY <1>1, ToldElements DEF ToSet
    <2>1. CASE i = 1
        BY <2>1, ToldElements DEF Up, Down
    <2>2. CASE i # 1
        <3>1. i - 1 \in 1 .. n /\ (i - 1) + 1 = i
            BY <2>2
        <3>2. s[(i - 1) + 1] = Data(c, i - 1)
            BY <3>1, ToldElements
        <3> QED BY <3>1, <3>2 DEF Data, Down
    <2> QED BY <2>1, <2>2
<1> HIDE DEF s
<1>3. Append(s, Down) = s \o <<Down>>
    BY <1>1
<1>4. IsPrefix(<<>>, s \o <<Down>>)
    BY <1>1 DEF IsPrefix
<1>5. IsPrefix(s, s \o <<Down>>)
    BY <1>1 DEF IsPrefix
<1>6. IsPrefix(s \o <<Down>>, s \o <<Down>>)
    BY <1>1 DEF IsPrefix
<1> QED BY <1>2, <1>3, <1>4, <1>5, <1>6 DEF s, ToSet

(* The log of a connection nobody disturbs is one of the three beginnings. *)
LEMMA Orders == ManagerInv => CallbacksInOrder
<1> SUFFICES ASSUME ManagerInv, NEW c \in Conns \ (victims \cup called)
             PROVE  /\ IsPrefix(log[c], Told(c, got[c]) \o <<Down>>)
                    /\ Down \in ToSet(log[c]) /\ peer[c] = "ended" => got[c] = sent[c]
    BY DEF CallbacksInOrder, Told
<1>1. KeptOf(c) /\ StoryOf(c)
    BY DEF ManagerInv, Undisturbed, Quiet
<1>2. got[c] \in Nat /\ Told(c, 0) = <<Up>>
    BY ToldGrows DEF ManagerInv, Types, TypeOK
<1>3. pc[c] \in {"idle", "find", "recv", "waiting", "done"} \cup Closes
    BY DEF ManagerInv, Types, Places
<1>4. \/ log[c] = <<>> \/ log[c] = Told(c, got[c])
      \/ log[c] = Append(Told(c, got[c]), Down) /\ AtEnd(c)
    <2>1. CASE pc[c] = "idle"
        BY <1>1, <1>2, <2>1 DEF StoryOf
    <2> QED BY <1>1, <1>3, <2>1 DEF StoryOf
<1> QED BY <1>2, <1>4, Beginnings DEF AtEnd

(* getConnectionCount: an entry belongs to an open descriptor and an open  *)
(* descriptor has its entry, but for the steps between the two and for a   *)
(* connection whose number another's thread used, however often numbers    *)
(* are given out again.                                                    *)
THEOREM OpenConnectionsCounted == Spec => []ConnectionsCounted
BY ManagerInvStays, Tells, PTL

(* The callbacks of a connection only its receiver touches: CONNECTED, its *)
(* data in the order it was sent, none lost or told twice, DISCONNECTED    *)
(* once and not before the data is told, unless the peer reset the         *)
(* connection.                                                             *)
THEOREM CallbacksKeepOrder == Spec => []CallbacksInOrder
BY ManagerInvStays, Orders, PTL

=============================================================================
