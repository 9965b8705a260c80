--------------------------- MODULE ClientParts_proofs ---------------------------
(***************************************************************************)
(* Proofs about what the server keeps of its clients.  PlayerSession: for  *)
(* any number of clients and names, every user limit and every packet that *)
(* a client sends at any time.  BlockSend: for any blocks, limits and      *)
(* scenarios, what the server counts as sent does come to the client as it *)
(* is on the server; what GetNextBlocks finds and what a queue of map      *)
(* edits does is said by lemmas about the loops, by induction over the     *)
(* list they go through.                                                   *)
(***************************************************************************)
EXTENDS PlayerSession, BlockSend, FiniteSetTheorems, SequenceTheorems,
        NaturalsInduction, WellFoundedInduction, TLAPS

Mechs == {"SRP", "FIRST_SRP"}

Clients == [state : States, name : Names \cup {None}, chosen : {None, "SRP"},
            allowed : SUBSET Mechs]

Players == [name : Names, peer : Peers \cup {None}, data : Nat, modified : BOOLEAN]

\* What the values of the constants stand for: a server has finitely many peer
\* ids, a limit of users, and None is none of the things it is told from.
SessionConstants ==
  /\ IsFiniteSet(Peers) /\ None \notin Peers /\ None \notin Clients
  /\ None \notin Names /\ None # "SRP"
  /\ \A s \in Settings : s.max_users \in Nat /\ s.names \subseteq Names

Types ==
  /\ setting \in Settings
  /\ con \in [Peers -> {"no", "up", "gone", "deleted"}]
  /\ m_clients \in [Peers -> Clients \cup {None}]
  /\ m_players \in Seq(Players)
  /\ password \in [Names -> Peers \cup {None}]
  /\ database \in [Names -> Nat] /\ latest \in [Names -> Nat] /\ changes \in Nat
  /\ overtaken \subseteq Names

-----------------------------------------------------------------------------
(***************************************************************************)
(* Lists of players.                                                       *)
(***************************************************************************)

\* A non-empty set of naturals has a least element.
LEMMA LeastNat ==
  ASSUME NEW T, T \subseteq Nat, T # {}
  PROVE  \E x \in T : \A y \in T : x <= y
  <1> DEFINE R == OpToRel(<, Nat)
  <1>1. IsWellFoundedOn(R, Nat)
    BY NatLessThanWellFounded
  <1>2. \A x, y \in Nat : x < y => <<x, y>> \in R
    BY DEF OpToRel
  <1> HIDE DEF R
  <1>3. PICK x \in T : \A y \in T : <<y, x>> \notin R
    BY <1>1, WFMin
  <1>4. \A y \in T : y \in Nat /\ x \in Nat /\ ~(y < x)
    BY <1>2, <1>3
  <1> QED BY <1>4

\* Of a set of positions Max is the last one.
LEMMA LastPosition ==
  ASSUME NEW n \in Nat, NEW T, T \subseteq 1 .. n, T # {}
  PROVE  Max(T) \in T
  <1> DEFINE D == {n - x : x \in T}
  <1>1. D \subseteq Nat /\ D # {}
    <2>1. \A x \in T : n - x \in Nat
      OBVIOUS
    <2> QED BY <2>1
  <1>2. PICK d \in D : \A y \in D : d <= y
    <2> HIDE DEF D
    <2> QED BY <1>1, LeastNat
  <1>3. PICK m \in T : d = n - m
    BY <1>2
  <1>4. \A x \in T : n - m <= n - x /\ x \in Nat /\ m \in Nat
    BY <1>2, <1>3
  <1>5. \A x \in T : m >= x
    BY <1>4
  <1> QED BY <1>5 DEF Max

LEMMA Removed ==
  ASSUME NEW S, NEW s \in Seq(S), NEW i \in 1 .. Len(s)
  PROVE  /\ RemoveAt(s, i) \in Seq(S)
         /\ Len(RemoveAt(s, i)) = Len(s) - 1
         /\ \A j \in 1 .. Len(s) - 1 :
              RemoveAt(s, i)[j] = IF j < i THEN s[j] ELSE s[j + 1]
  <1> DEFINE a == SubSeq(s, 1, i - 1)
             c == SubSeq(s, i + 1, Len(s))
  <1>1. /\ a \in Seq(S) /\ Len(a) = i - 1
        /\ \A j \in 1 .. i - 1 : a[j] = s[j]
    BY SubSeqProperties
  <1>2. /\ c \in Seq(S) /\ Len(c) = Len(s) - i
        /\ \A j \in 1 .. Len(s) - i : c[j] = s[i + j]
    BY SubSeqProperties
  <1> HIDE DEF a, c
  <1>3. /\ a \o c \in Seq(S) /\ Len(a \o c) = Len(a) + Len(c)
        /\ \A j \in 1 .. Len(a) + Len(c) :
             (a \o c)[j] = IF j <= Len(a) THEN a[j] ELSE c[j - Len(a)]
    BY <1>1, <1>2, ConcatProperties
  <1>4. Len(a) + Len(c) = Len(s) - 1 /\ Len(a) = i - 1 /\ Len(s) \in Nat
    BY <1>1, <1>2
  <1>5. \A j \in 1 .. Len(s) - 1 : j >= i => c[j - (i - 1)] = s[j + 1]
    BY <1>2, <1>4
  <1>6. RemoveAt(s, i) = a \o c
    BY DEF RemoveAt, a, c
  <1> HIDE DEF a, c
  <1>7. \A j \in 1 .. Len(s) - 1 : (a \o c)[j] = IF j < i THEN s[j] ELSE s[j + 1]
    <2> TAKE j \in 1 .. Len(s) - 1
    <2>1. CASE j < i
      BY <1>1, <1>3, <1>4, <2>1
    <2>2. CASE ~(j < i)
      <3>1. j \in 1 .. Len(a) + Len(c) /\ ~(j <= Len(a)) /\ j >= i
        BY <1>4, <2>2
      <3>2. (a \o c)[j] = c[j - (i - 1)]
        BY <1>3, <1>4, <3>1
      <3> QED BY <1>5, <2>2, <3>1, <3>2
    <2> QED BY <2>1, <2>2
  <1> QED BY <1>3, <1>4, <1>6, <1>7

-----------------------------------------------------------------------------
(***************************************************************************)
(* The invariant.                                                          *)
(***************************************************************************)
InGame == {"Active", "SudoMode"}
LoggedIn == {"HelloSent", "AwaitingInit2", "DefinitionsSent", "Active", "SudoMode"}

\* What is known of a client between two packets: HandleInit2 does not leave
\* it in InitDone, and past its login it has a name.
ClientsKnown == \A p \in Peers :
  /\ HasClient(p) => /\ m_clients[p].state # "InitDone"
                     /\ m_clients[p].state \in LoggedIn => m_clients[p].name \in Names
  /\ con[p] = "no" => ~HasClient(p)

\* ClientsHavePlayers, with "exactly one" spelt out.
HasPlayer(p) == \E i \in DOMAIN m_players :
  PlayerOfPeer(p) = {i} /\ m_players[i].name = m_clients[p].name

HavePlayers ==
  /\ \A p \in ActiveClients : HasPlayer(p)
  /\ \A i \in DOMAIN m_players : Connected(i) =>
       StateIn(m_players[i].peer, {"Active", "SudoMode", "Denied"})

Limited == {p \in ActiveClients : m_clients[p].name \notin Admins}

\* Of a name that nobody overtook there is one player at most, with the newest
\* data; without a player the database has them.
DataKept == \A n \in Names \ overtaken :
  /\ \A i, j \in PlayersOf(n) : i = j
  /\ \A i \in PlayersOf(n) : m_players[i].data = latest[n]
  /\ PlayersOf(n) = {} => database[n] = latest[n]

SessionInv == Types /\ ClientsKnown /\ HavePlayers /\ UserLimit /\ DataKept

LEMMA HavePlayersIs ==
  SessionConstants /\ Types /\ HavePlayers => ClientsHavePlayers
  <1> SUFFICES ASSUME SessionConstants, Types, HavePlayers PROVE ClientsHavePlayers
    OBVIOUS
  <1>1. ASSUME NEW p \in Peers, HasClient(p) PROVE m_clients[p].state \in States
    <2>1. m_clients[p] \in Clients
      BY <1>1 DEF Types, HasClient
    <2> QED BY <2>1 DEF Clients
  <1>2. ASSUME NEW p \in ActiveClients
        PROVE  /\ Cardinality(PlayerOfPeer(p)) = 1
               /\ \A i \in PlayerOfPeer(p) : m_players[i].name = m_clients[p].name
    BY <1>2, FS_Singleton DEF HavePlayers, HasPlayer
  <1> QED BY <1>1, <1>2 DEF HavePlayers, ClientsHavePlayers

LEMMA PlayerTypes ==
  Types => /\ Len(m_players) \in Nat /\ DOMAIN m_players = 1 .. Len(m_players)
           /\ \A i \in DOMAIN m_players :
                /\ m_players[i] \in Players /\ m_players[i].name \in Names
                /\ m_players[i].peer \in Peers \cup {None} /\ m_players[i].data \in Nat
                /\ m_players[i].modified \in BOOLEAN
  <1> SUFFICES ASSUME Types
               PROVE  \A i \in DOMAIN m_players :
                        /\ m_players[i] \in Players /\ m_players[i].name \in Names
                        /\ m_players[i].peer \in Peers \cup {None} /\ m_players[i].data \in Nat
                        /\ m_players[i].modified \in BOOLEAN
    BY DEF Types
  <1>1. \A i \in DOMAIN m_players : m_players[i] \in Players
    BY DEF Types
  <1> QED BY <1>1 DEF Players

LEMMA LimitedFinite ==
  SessionConstants => IsFiniteSet(Limited) /\ IsFiniteSet(ActiveClients)
  <1> SUFFICES ASSUME SessionConstants PROVE IsFiniteSet(Limited) /\ IsFiniteSet(ActiveClients)
    OBVIOUS
  <1>1. Limited \in SUBSET Peers /\ ActiveClients \in SUBSET Peers
    BY DEF Limited, ActiveClients
  <1> QED BY <1>1, FS_Subset DEF SessionConstants

\* The limit holds as long as nobody comes in.
LEMMA NobodyComesIn ==
  ASSUME SessionConstants, Types, UserLimit, Limited' \subseteq Limited, setting' = setting
  PROVE  UserLimit'
  <1>1. Cardinality(Limited) <= setting.max_users
    BY DEF UserLimit, Limited
  <1>2. Limited' \in SUBSET Limited /\ IsFiniteSet(Limited)
    BY LimitedFinite
  <1>3. Cardinality(Limited') <= Cardinality(Limited) /\ IsFiniteSet(Limited')
    BY <1>2, FS_Subset
  <1>4. Cardinality(Limited') \in Nat /\ Cardinality(Limited) \in Nat
        /\ setting.max_users \in Nat
    BY <1>2, <1>3, FS_CardinalityType DEF SessionConstants, Types
  <1>5. Cardinality(Limited') <= setting'.max_users
    BY <1>1, <1>3, <1>4
  <1> QED BY <1>5 DEF UserLimit, Limited

LEMMA NotifyIs ==
  ASSUME NEW c \in Clients, NEW e
  PROVE  LET d == Notify(c, e)
         IN  /\ d.name = c.name /\ d.allowed = c.allowed
             /\ d.state = Transition(c.state, e)
             /\ d.state \in States => d \in Clients
  <1>1. /\ c.state \in States /\ c.name \in Names \cup {None} /\ c.chosen \in {None, "SRP"}
        /\ c.allowed \in SUBSET Mechs
        /\ c = [state |-> c.state, name |-> c.name, chosen |-> c.chosen, allowed |-> c.allowed]
    BY DEF Clients
  <1> DEFINE ch == IF \/ e \in {"AuthAccept", "SudoSuccess"}
                      \/ c.state = "HelloSent" /\ e = "SetDenied"
                   THEN None ELSE c.chosen
             t == Transition(c.state, e)
             d == [state |-> t, name |-> c.name, chosen |-> ch, allowed |-> c.allowed]
  <1>2. Notify(c, e) = d
    <2> DEFINE z == [c EXCEPT !.state = t]
    <2>1. Notify(c, e) = [z EXCEPT !.chosen = ch]
      BY DEF Notify
    <2> HIDE DEF t, ch
    <2>2. z = [state |-> t, name |-> c.name, chosen |-> c.chosen, allowed |-> c.allowed]
      BY <1>1
    <2> HIDE DEF z
    <2>3. [z EXCEPT !.chosen = ch] = d
      BY <2>2
    <2> HIDE DEF d
    <2> QED BY <2>1, <2>3
  <1>3. ch \in {None, "SRP"}
    BY <1>1
  <1> HIDE DEF ch, t
  <1>4. d.name = c.name /\ d.allowed = c.allowed /\ d.state = t
    OBVIOUS
  <1>5. t \in States => d \in Clients
    BY <1>1, <1>3 DEF Clients
  <1> HIDE DEF d
  <1> QED BY <1>2, <1>4, <1>5 DEF t

\* A client that has one stays with its client's type.
LEMMA ClientType ==
  ASSUME Types, NEW p \in Peers, HasClient(p)
  PROVE  /\ m_clients[p] \in Clients /\ m_clients[p].state \in States
         /\ m_clients[p].name \in Names \cup {None}
  <1>1. m_clients[p] \in Clients
    BY DEF Types, HasClient
  <1> QED BY <1>1 DEF Clients

\* DenyAccess leads to Denied, but for a client that is being disconnected.
LEMMA DeniedIs ==
  ASSUME NEW c \in Clients
  PROVE  LET d == Notify(c, "SetDenied")
         IN  /\ d \in Clients /\ d.name = c.name
             /\ d.state \in {"Denied", "Disconnecting"}
             /\ c.state # "Disconnecting" => d.state = "Denied"
  <1>1. c.state \in States
    BY DEF Clients
  <1>2. /\ Transition(c.state, "SetDenied") \in {"Denied", "Disconnecting"}
        /\ c.state # "Disconnecting" => Transition(c.state, "SetDenied") = "Denied"
    BY DEF Transition
  <1> QED BY <1>2, NotifyIs DEF States

(***************************************************************************)
(* A packet of a client that is no more than a change of that client.      *)
(***************************************************************************)
MayBecome(o, c) ==
  /\ c.state # "InitDone"
  /\ c.state \in LoggedIn => c.name \in Names
  /\ c.state \in InGame => o.state \in InGame /\ c.name = o.name
  /\ o.state \in InGame \cup {"Denied"} => c.state \in InGame \cup {"Denied"}

LEMMA ClientChange ==
  ASSUME SessionConstants, SessionInv, NEW p \in Peers, HasClient(p), NEW c \in Clients,
         Becomes(p, c), MayBecome(m_clients[p], c),
         UNCHANGED <<conVars, playerVars>>, password' \in [Names -> Peers \cup {None}]
  PROVE  SessionInv'
  <1>0. /\ Types /\ ClientsKnown /\ HavePlayers /\ UserLimit /\ DataKept
        /\ m_clients \in [Peers -> Clients \cup {None}] /\ c # None
    BY DEF SessionInv, Types, SessionConstants
  <1>1. /\ m_clients' \in [Peers -> Clients \cup {None}] /\ m_clients'[p] = c
        /\ \A q \in Peers : q # p => m_clients'[q] = m_clients[q]
    BY <1>0 DEF Becomes
  <1>2. /\ setting' = setting /\ con' = con /\ m_players' = m_players
        /\ overtaken' = overtaken /\ database' = database /\ changes' = changes
        /\ latest' = latest
    BY DEF conVars, playerVars, saveVars
  <1>3. Types'
    BY <1>0, <1>1, <1>2 DEF Types
  <1>4. ClientsKnown'
    <2> SUFFICES ASSUME NEW q \in Peers
                 PROVE (/\ HasClient(q) => /\ m_clients[q].state # "InitDone"
                                           /\ m_clients[q].state \in LoggedIn
                                                => m_clients[q].name \in Names
                        /\ con[q] = "no" => ~HasClient(q))'
      BY DEF ClientsKnown
    <2>1. CASE q = p
      BY <1>0, <1>1, <1>2, <2>1 DEF MayBecome, ClientsKnown, HasClient
    <2>2. CASE q # p
      BY <1>0, <1>1, <1>2, <2>2 DEF ClientsKnown, HasClient
    <2> QED BY <2>1, <2>2
  <1>5. \A q \in Peers : q \in ActiveClients' =>
          q \in ActiveClients /\ m_clients'[q].name = m_clients[q].name
    <2> SUFFICES ASSUME NEW q \in Peers, q \in ActiveClients'
                 PROVE  q \in ActiveClients /\ m_clients'[q].name = m_clients[q].name
      OBVIOUS
    <2>1. m_clients'[q] # None /\ m_clients'[q].state \in InGame
      BY DEF ActiveClients, StateIn, HasClient, InGame
    <2>2. CASE q = p
      BY <1>1, <2>1, <2>2 DEF MayBecome, ActiveClients, StateIn, InGame
    <2>3. CASE q # p
      BY <1>1, <2>1, <2>3 DEF ActiveClients, StateIn, HasClient, InGame
    <2> QED BY <2>2, <2>3
  <1>6. ActiveClients' \subseteq Peers
    BY DEF ActiveClients
  <1>7. HavePlayers'
    <2>1. ASSUME NEW q \in ActiveClients' PROVE HasPlayer(q)'
      <3>1. HasPlayer(q) /\ m_clients'[q].name = m_clients[q].name
        BY <1>0, <1>5, <1>6 DEF HavePlayers
      <3> QED BY <1>2, <3>1 DEF HasPlayer, PlayerOfPeer
    <2>2. ASSUME NEW i \in DOMAIN m_players', Connected(i)'
          PROVE  StateIn(m_players[i].peer, {"Active", "SudoMode", "Denied"})'
      <3> DEFINE q == m_players[i].peer
      <3>1. i \in DOMAIN m_players /\ Connected(i) /\ q \in Peers /\ m_players'[i].peer = q
        BY <1>0, <1>2, <2>2, PlayerTypes DEF Connected
      <3>2. m_clients[q] # None /\ m_clients[q].state \in {"Active", "SudoMode", "Denied"}
        BY <1>0, <3>1 DEF HavePlayers, StateIn, HasClient
      <3> HIDE DEF q
      <3>3. m_clients'[q] # None /\ m_clients'[q].state \in {"Active", "SudoMode", "Denied"}
        BY <1>0, <1>1, <3>1, <3>2 DEF MayBecome, InGame
      <3> QED BY <3>1, <3>3 DEF StateIn, HasClient
    <2> QED BY <2>1, <2>2 DEF HavePlayers
  <1>8. UserLimit'
    <2>1. Limited' \subseteq Limited
      BY <1>5, <1>6 DEF Limited
    <2> QED BY <1>0, <1>2, <2>1, NobodyComesIn
  <1>9. DataKept'
    BY <1>0, <1>2 DEF DataKept, PlayersOf
  <1> QED BY <1>3, <1>4, <1>7, <1>8, <1>9 DEF SessionInv

LEMMA DenyInv ==
  ASSUME SessionConstants, SessionInv, NEW p \in Peers, HasClient(p), DenyAccess(p),
         UNCHANGED <<conVars, playerVars>>, password' \in [Names -> Peers \cup {None}]
  PROVE  SessionInv'
  <1> DEFINE o == m_clients[p]
             c == Notify(o, "SetDenied")
  <1>1. o \in Clients
    BY ClientType DEF SessionInv
  <1>2. c \in Clients /\ c.state \in {"Denied", "Disconnecting"}
        /\ (o.state # "Disconnecting" => c.state = "Denied")
    BY <1>1, DeniedIs
  <1>3. Becomes(p, c)
    BY DEF DenyAccess
  <1> HIDE DEF c, o
  <1>4. MayBecome(o, c)
    BY <1>2 DEF MayBecome, LoggedIn, InGame
  <1> QED BY <1>2, <1>3, <1>4, ClientChange DEF o

\* A step that notifyEvent takes, with the name it has or is given.
LEMMA NotifyInv ==
  ASSUME SessionConstants, SessionInv, NEW p \in Peers, HasClient(p),
         NEW z \in Clients, NEW e, Becomes(p, Notify(z, e)),
         Transition(z.state, e) \in States \ {"InitDone"},
         Transition(z.state, e) \in LoggedIn => z.name \in Names,
         Transition(z.state, e) \in InGame =>
           m_clients[p].state \in InGame /\ z.name = m_clients[p].name,
         m_clients[p].state \in InGame \cup {"Denied"} =>
           Transition(z.state, e) \in InGame \cup {"Denied"},
         UNCHANGED <<conVars, playerVars>>, password' \in [Names -> Peers \cup {None}]
  PROVE  SessionInv'
  <1> DEFINE c == Notify(z, e)
  <1>1. c \in Clients /\ c.name = z.name /\ c.state = Transition(z.state, e)
    BY NotifyIs
  <1>2. Becomes(p, c)
    OBVIOUS
  <1> HIDE DEF c
  <1>3. MayBecome(m_clients[p], c)
    BY <1>1 DEF MayBecome
  <1> QED BY <1>1, <1>2, <1>3, ClientChange

LEMMA InitHandled ==
  ASSUME SessionConstants, SessionInv, NEW p \in Peers, NEW n \in setting.names,
         NEW ok \in BOOLEAN, HandleInit(p, n, ok)
  PROVE  SessionInv'
  <1> DEFINE o == m_clients[p]
             al == {IF password[n] # None THEN "SRP" ELSE "FIRST_SRP"}
             z == [o EXCEPT !.name = n, !.chosen = None, !.allowed = al]
  <1>1. /\ HasClient(p) /\ o.state = "Created" /\ o \in Clients /\ n \in Names
        /\ UNCHANGED <<conVars, playerVars>> /\ password' \in [Names -> Peers \cup {None}]
    <2>1. HasClient(p) /\ o.state = "Created" /\ UNCHANGED <<conVars, playerVars, password>>
      BY DEF HandleInit, StateIn
    <2>2. n \in Names /\ password \in [Names -> Peers \cup {None}]
      BY DEF SessionInv, Types, SessionConstants
    <2> QED BY <2>1, <2>2, ClientType DEF SessionInv
  <1>2. CASE DenyAccess(p)
    BY <1>1, <1>2, DenyInv
  <1>3. CASE Becomes(p, Notify(z, "Hello"))
    <2>1. z = [state |-> "Created", name |-> n, chosen |-> None, allowed |-> al]
      <3> DEFINE x == [o EXCEPT !.name = n]
                 y == [x EXCEPT !.chosen = None]
      <3>1. z = [y EXCEPT !.allowed = al]
        OBVIOUS
      <3>2. /\ o.chosen \in {None, "SRP"}
            /\ o = [state |-> o.state, name |-> o.name, chosen |-> o.chosen,
                    allowed |-> o.allowed]
        BY <1>1 DEF Clients
      <3> HIDE DEF z, al
      <3>3. x = [state |-> o.state, name |-> n, chosen |-> o.chosen, allowed |-> o.allowed]
        BY <3>2
      <3> HIDE DEF x
      <3>4. y = [state |-> o.state, name |-> n, chosen |-> None, allowed |-> o.allowed]
        BY <3>3
      <3> HIDE DEF y
      <3> QED BY <1>1, <3>1, <3>4
    <2>2. al \in SUBSET Mechs
      BY DEF Mechs
    <2> HIDE DEF z, al
    <2>3. z \in Clients /\ z.name = n /\ z.state = "Created"
      BY <1>1, <2>1, <2>2 DEF Clients, States
    <2>4. Transition("Created", "Hello") = "HelloSent"
      BY DEF Transition
    <2> QED BY <1>1, <1>3, <2>3, <2>4, NotifyInv DEF States, InGame
  <1> QED BY <1>2, <1>3 DEF HandleInit

LEMMA FirstSrpHandled ==
  ASSUME SessionConstants, SessionInv, NEW p \in Peers, NEW ok \in BOOLEAN,
         HandleFirstSrp(p, ok)
  PROVE  SessionInv'
  <1> DEFINE o == m_clients[p]
             z == [o EXCEPT !.allowed = {"SRP"}]
  <1>1. /\ HasClient(p) /\ o.state \in {"HelloSent", "SudoMode"} /\ o \in Clients
        /\ o.name \in Names /\ UNCHANGED <<conVars, playerVars>>
        /\ password \in [Names -> Peers \cup {None}]
    <2>1. /\ HasClient(p) /\ o.state \in {"HelloSent", "SudoMode"}
          /\ UNCHANGED <<conVars, playerVars>>
      BY DEF HandleFirstSrp, StateIn
    <2>2. o.name \in Names
      BY <2>1 DEF SessionInv, ClientsKnown, LoggedIn
    <2> QED BY <2>1, <2>2, ClientType DEF SessionInv, Types
  <1>2. z \in Clients /\ z.name = o.name /\ z.state = o.state
    BY <1>1 DEF Clients, Mechs
  <1>3. [password EXCEPT ![o.name] = p] \in [Names -> Peers \cup {None}]
    BY <1>1
  <1>4. password' \in [Names -> Peers \cup {None}]
    BY <1>1, <1>3 DEF HandleFirstSrp
  <1>5. \/ DenyAccess(p)
        \/ o.state = "SudoMode" /\ (\/ Becomes(p, Notify(z, "SudoLeave"))
                                    \/ Becomes(p, Notify(o, "SudoLeave")))
        \/ o.state = "HelloSent" /\ Becomes(p, Notify(z, "AuthAccept"))
    BY <1>1 DEF HandleFirstSrp
  <1> HIDE DEF z
  <1>6. /\ Transition("SudoMode", "SudoLeave") = "Active"
        /\ Transition("HelloSent", "AuthAccept") = "AwaitingInit2"
    BY DEF Transition
  <1>7. CASE DenyAccess(p)
    BY <1>1, <1>4, <1>7, DenyInv
  <1>8. CASE o.state = "SudoMode" /\ Becomes(p, Notify(z, "SudoLeave"))
    BY <1>1, <1>2, <1>4, <1>6, <1>8, NotifyInv DEF States, InGame
  <1>9. CASE o.state = "SudoMode" /\ Becomes(p, Notify(o, "SudoLeave"))
    BY <1>1, <1>4, <1>6, <1>9, NotifyInv DEF States, InGame
  <1>10. CASE o.state = "HelloSent" /\ Becomes(p, Notify(z, "AuthAccept"))
    BY <1>1, <1>2, <1>4, <1>6, <1>10, NotifyInv DEF States, InGame
  <1> QED BY <1>5, <1>7, <1>8, <1>9, <1>10

LEMMA SrpBytesHandled ==
  ASSUME SessionConstants, SessionInv, NEW p \in Peers,
         \/ \E ok \in BOOLEAN : HandleSrpBytesA(p, ok)
         \/ \E proof \in {"right", "wrong", "length"} : HandleSrpBytesM(p, proof)
  PROVE  SessionInv'
  <1> DEFINE o == m_clients[p]
             a == [o EXCEPT !.chosen = "SRP"]
             b == [o EXCEPT !.chosen = None]
  <1>1. /\ HasClient(p) /\ o.state \in {"HelloSent", "Active"} /\ o \in Clients
        /\ UNCHANGED <<conVars, playerVars>>
        /\ password' \in [Names -> Peers \cup {None}] /\ o.name \in Names
    <2>1. /\ HasClient(p) /\ o.state \in {"HelloSent", "Active"}
          /\ UNCHANGED <<conVars, playerVars, password>>
      BY DEF HandleSrpBytesA, HandleSrpBytesM, StateIn
    <2>2. o.name \in Names
      BY <2>1 DEF SessionInv, ClientsKnown, LoggedIn
    <2> QED BY <2>1, <2>2, ClientType DEF SessionInv, Types
  <1>2. /\ a \in Clients /\ a.name = o.name /\ a.state = o.state
        /\ b \in Clients /\ b.name = o.name /\ b.state = o.state
    BY <1>1 DEF Clients
  <1>3. \/ DenyAccess(p) \/ UNCHANGED m_clients \/ Becomes(p, a) \/ Becomes(p, b)
        \/ o.state = "HelloSent" /\ Becomes(p, Notify(o, "AuthAccept"))
        \/ o.state = "Active" /\ Becomes(p, Notify(o, "SudoSuccess"))
    <2>1. CASE \E ok \in BOOLEAN : HandleSrpBytesA(p, ok)
      BY <2>1 DEF HandleSrpBytesA
    <2>2. CASE \E proof \in {"right", "wrong", "length"} : HandleSrpBytesM(p, proof)
      <3>1. PICK proof \in {"right", "wrong", "length"} : HandleSrpBytesM(p, proof)
        BY <2>2
      <3> HIDE DEF a, b
      <3>2. \/ o.chosen = None /\ o.state = "Active" /\ UNCHANGED m_clients
            \/ Becomes(p, Notify(o, IF o.state = "Active" THEN "SudoSuccess" ELSE "AuthAccept"))
            \/ Becomes(p, [o EXCEPT !.chosen = None])
            \/ DenyAccess(p)
        BY <3>1 DEF HandleSrpBytesM
      <3> QED BY <1>1, <3>2 DEF b
    <2> QED BY <2>1, <2>2
  <1> HIDE DEF a, b
  <1>4. /\ Transition("Active", "SudoSuccess") = "SudoMode"
        /\ Transition("HelloSent", "AuthAccept") = "AwaitingInit2"
    BY DEF Transition
  <1>5. CASE DenyAccess(p)
    BY <1>1, <1>5, DenyInv
  <1>6. CASE UNCHANGED m_clients
    BY <1>1, <1>6 DEF SessionInv, Types, ClientsKnown, HavePlayers, HasPlayer, UserLimit, DataKept,
       PlayersOf, PlayerOfPeer, ActiveClients, StateIn, HasClient, Connected, conVars,
       playerVars, saveVars
  <1>7. CASE Becomes(p, a)
    <2>1. MayBecome(o, a)
      BY <1>1, <1>2 DEF MayBecome, InGame
    <2> QED BY <1>1, <1>2, <1>7, <2>1, ClientChange
  <1>8. CASE Becomes(p, b)
    <2>1. MayBecome(o, b)
      BY <1>1, <1>2 DEF MayBecome, InGame
    <2> QED BY <1>1, <1>2, <1>8, <2>1, ClientChange
  <1>9. CASE o.state = "HelloSent" /\ Becomes(p, Notify(o, "AuthAccept"))
    BY <1>1, <1>4, <1>9, NotifyInv DEF States, InGame
  <1>10. CASE o.state = "Active" /\ Becomes(p, Notify(o, "SudoSuccess"))
    BY <1>1, <1>4, <1>10, NotifyInv DEF States, InGame
  <1> QED BY <1>3, <1>5, <1>6, <1>7, <1>8, <1>9, <1>10

LEMMA Init2Handled ==
  ASSUME SessionConstants, SessionInv, NEW p \in Peers, HandleInit2(p)
  PROVE  SessionInv'
  <1> DEFINE o == m_clients[p]
             z == Notify(o, "GotInit2")
  <1>1. /\ HasClient(p) /\ o.state = "AwaitingInit2" /\ o \in Clients
        /\ UNCHANGED <<conVars, playerVars>> /\ Becomes(p, Notify(z, "SetDefinitionsSent"))
        /\ password' \in [Names -> Peers \cup {None}] /\ o.name \in Names
    <2>1. /\ HasClient(p) /\ o.state = "AwaitingInit2"
          /\ UNCHANGED <<conVars, playerVars, password>>
          /\ Becomes(p, Notify(z, "SetDefinitionsSent"))
      BY DEF HandleInit2, StateIn
    <2>2. o.name \in Names
      BY <2>1 DEF SessionInv, ClientsKnown, LoggedIn
    <2>3. o \in Clients /\ password \in [Names -> Peers \cup {None}]
      BY <2>1, ClientType DEF SessionInv, Types
    <2> HIDE DEF z
    <2> QED BY <2>1, <2>2, <2>3
  <1>2. /\ Transition("AwaitingInit2", "GotInit2") = "InitDone"
        /\ Transition("InitDone", "SetDefinitionsSent") = "DefinitionsSent"
    BY DEF Transition
  <1>3. z \in Clients /\ z.state = "InitDone" /\ z.name = o.name
    BY <1>1, <1>2, NotifyIs DEF States
  <1> HIDE DEF z
  <1> QED BY <1>1, <1>2, <1>3, NotifyInv DEF States, InGame

LEMMA KickInv ==
  ASSUME SessionConstants, SessionInv, NEW i, Kick(i)
  PROVE  SessionInv'
  <1> DEFINE p == m_players[i].peer
  <1>1. /\ i \in DOMAIN m_players /\ Connected(i) /\ DenyAccess(p)
        /\ UNCHANGED <<conVars, playerVars, password>>
    BY DEF Kick
  <1>2. p \in Peers /\ HasClient(p) /\ password \in [Names -> Peers \cup {None}]
    BY <1>1, PlayerTypes DEF SessionInv, HavePlayers, StateIn, Connected, Types
  <1> HIDE DEF p
  <1> QED BY <1>1, <1>2, DenyInv

-----------------------------------------------------------------------------
(***************************************************************************)
(* A client that is ready: it gets its player.                             *)
(***************************************************************************)
LEMMA PlayerAppended ==
  ASSUME Types, NEW r \in Players, m_players' = Append(m_players, r)
  PROVE  /\ m_players' \in Seq(Players)
         /\ DOMAIN m_players = 1 .. Len(m_players) /\ Len(m_players) \in Nat
         /\ DOMAIN m_players' = 1 .. Len(m_players) + 1
         /\ \A i \in 1 .. Len(m_players) : m_players'[i] = m_players[i]
         /\ m_players'[Len(m_players) + 1] = r
  <1>1. m_players \in Seq(Players)
    BY DEF Types
  <1> QED BY <1>1, AppendProperties

\* The limit is looked at when the client comes in.
LEMMA OneComesIn ==
  ASSUME SessionConstants, Types, UserLimit, NEW p \in Peers, setting' = setting,
         Cardinality(ActiveClients) < setting.max_users,
         Limited' \subseteq ActiveClients \cup {p}
  PROVE  UserLimit'
  <1>1. IsFiniteSet(ActiveClients)
    BY LimitedFinite
  <1>2. /\ IsFiniteSet(ActiveClients \cup {p})
        /\ \/ Cardinality(ActiveClients \cup {p}) = Cardinality(ActiveClients)
           \/ Cardinality(ActiveClients \cup {p}) = Cardinality(ActiveClients) + 1
    BY <1>1, FS_AddElement
  <1>3. IsFiniteSet(Limited') /\ Cardinality(Limited') <= Cardinality(ActiveClients \cup {p})
    BY <1>2, FS_Subset
  <1>4. /\ Cardinality(Limited') \in Nat /\ Cardinality(ActiveClients) \in Nat
        /\ setting.max_users \in Nat
    BY <1>1, <1>3, FS_CardinalityType DEF SessionConstants, Types
  <1>5. Cardinality(Limited') <= setting'.max_users
    BY <1>2, <1>3, <1>4
  <1> QED BY <1>5 DEF UserLimit, Limited

LEMMA ReadyHandled ==
  ASSUME SessionConstants, SessionInv, NEW p \in Peers, NEW kicked \in BOOLEAN,
         HandleClientReady(p, kicked)
  PROVE  SessionInv'
  <1> DEFINE o == m_clients[p]
  <1>0. PICK n : n = o.name
    OBVIOUS
  <1> DEFINE d == IF kicked THEN Notify(o, "SetDenied") ELSE o
             c == Notify(d, "SetClientReady")
             L == Len(m_players)
             r == [name |-> n, peer |-> p, data |-> database[n], modified |-> FALSE]
  <1>1. /\ Types /\ ClientsKnown /\ HavePlayers /\ UserLimit /\ DataKept
        /\ HasClient(p) /\ o.state \in {"InitDone", "DefinitionsSent", "Active", "SudoMode"}
        /\ setting' = setting /\ con' = con /\ password' = password
        /\ database' = database /\ changes' = changes /\ latest' = latest
    BY DEF SessionInv, HandleClientReady, StateIn, conVars, saveVars
  <1>2. o \in Clients /\ n \in Names /\ o.state # "InitDone"
    <2>1. o.state # "InitDone" /\ (o.state \in LoggedIn => n \in Names)
      BY <1>0, <1>1 DEF ClientsKnown
    <2> QED BY <1>1, <2>1, ClientType DEF LoggedIn
  <1>3. CASE DenyAccess(p) /\ UNCHANGED <<m_players, overtaken>>
    <2>1. UNCHANGED <<conVars, playerVars>> /\ password' \in [Names -> Peers \cup {None}]
      BY <1>1, <1>3 DEF conVars, playerVars, saveVars, Types
    <2> QED BY <1>1, <1>3, <2>1, DenyInv
  <1>4. CASE /\ ~LimitReached(n) /\ ~EmergeRefused(p) /\ AddPlayer(p, n) /\ Becomes(p, c)
    <2>1. PlayerOfPeer(p) = {} /\ o.state = "DefinitionsSent"
      <3>1. PlayerOfPeer(p) = {}
        BY <1>4 DEF EmergeRefused
      <3>2. p \notin ActiveClients
        BY <1>1, <3>1 DEF HavePlayers, HasPlayer
      <3> QED BY <1>1, <1>2, <3>1, <3>2 DEF ActiveClients, StateIn
    <2>2. /\ c \in Clients /\ c.name = n
          /\ c.state = IF kicked THEN "Denied" ELSE "Active"
      <3>1. /\ Transition("DefinitionsSent", "SetDenied") = "Denied"
            /\ Transition("DefinitionsSent", "SetClientReady") = "Active"
            /\ Transition("Denied", "SetClientReady") = "Denied"
        BY DEF Transition
      <3>2. /\ d \in Clients /\ d.name = n
            /\ d.state = IF kicked THEN "Denied" ELSE "DefinitionsSent"
        <4>1. CASE kicked
          BY <1>0, <1>2, <2>1, <3>1, <4>1, NotifyIs DEF States
        <4>2. CASE ~kicked
          BY <1>0, <1>2, <2>1, <4>2
        <4> QED BY <4>1, <4>2
      <3> HIDE DEF d
      <3> QED BY <3>1, <3>2, NotifyIs DEF States
    <2>3. /\ r \in Players /\ m_players' = Append(m_players, r)
          /\ r.name = n /\ r.peer = p /\ r.data = database[n]
      BY <1>1, <1>2, <1>4 DEF AddPlayer, Players, Types
    <2>4. overtaken' = IF PlayersOf(n) = {} THEN overtaken ELSE overtaken \cup {n}
      BY <1>4 DEF AddPlayer
    <2> HIDE DEF r, c, d
    <2>5. /\ m_players' \in Seq(Players) /\ L \in Nat /\ DOMAIN m_players = 1 .. L
          /\ DOMAIN m_players' = 1 .. L + 1
          /\ \A i \in 1 .. L : m_players'[i] = m_players[i]
          /\ m_players'[L + 1] = r
      BY <1>1, <2>3, PlayerAppended
    <2>6. /\ m_clients' \in [Peers -> Clients \cup {None}] /\ m_clients'[p] = c
          /\ \A q \in Peers : q # p => m_clients'[q] = m_clients[q]
      BY <1>1, <1>4, <2>2 DEF Becomes, Types
    <2>7. c # None
      BY <2>2 DEF SessionConstants
    <2>8. Types'
      BY <1>1, <1>2, <2>4, <2>5, <2>6 DEF Types
    <2> HIDE DEF L
    <2>9. ClientsKnown'
      <3> SUFFICES ASSUME NEW q \in Peers
                   PROVE (/\ HasClient(q) => /\ m_clients[q].state # "InitDone"
                                             /\ m_clients[q].state \in LoggedIn
                                                  => m_clients[q].name \in Names
                          /\ con[q] = "no" => ~HasClient(q))'
        BY DEF ClientsKnown
      <3>1. CASE q = p
        BY <1>1, <1>2, <2>2, <2>6, <3>1 DEF ClientsKnown, HasClient
      <3>2. CASE q # p
        BY <1>1, <2>6, <3>2 DEF ClientsKnown, HasClient
      <3> QED BY <3>1, <3>2
    <2>10. \A i \in 1 .. L : i # L + 1
      BY <2>5
    <2>11. \A q : q # p => PlayerOfPeer(q)' = PlayerOfPeer(q)
      BY <2>3, <2>5, <2>10 DEF PlayerOfPeer
    <2>12. PlayerOfPeer(p)' = {L + 1}
      BY <2>1, <2>3, <2>5, <2>10 DEF PlayerOfPeer
    <2>13. \A m : m # n => PlayersOf(m)' = PlayersOf(m)
      <3> TAKE m
      <3> HAVE m # n
      <3> QED BY <2>3, <2>5, <2>10 DEF PlayersOf
    <2>14. PlayersOf(n)' = PlayersOf(n) \cup {L + 1}
      BY <2>3, <2>5, <2>10 DEF PlayersOf
    <2>15. \A q \in Peers : q \in ActiveClients' /\ q # p =>
             q \in ActiveClients /\ m_clients'[q] = m_clients[q]
      BY <2>6 DEF ActiveClients, StateIn, HasClient
    <2>16. HavePlayers'
      <3>1. ASSUME NEW q \in ActiveClients' PROVE HasPlayer(q)'
        <4>0. q \in Peers
          BY DEF ActiveClients
        <4>1. CASE q = p
          <5>1. L + 1 \in DOMAIN m_players' /\ m_players'[L + 1].name = m_clients'[p].name
            BY <2>2, <2>3, <2>5, <2>6
          <5> QED BY <2>12, <4>1, <5>1 DEF HasPlayer
        <4>2. CASE q # p
          <5>1. q \in ActiveClients /\ m_clients'[q] = m_clients[q]
            BY <2>15, <4>0, <4>2
          <5>2. PICK i \in DOMAIN m_players :
                  PlayerOfPeer(q) = {i} /\ m_players[i].name = m_clients[q].name
            BY <1>1, <5>1 DEF HavePlayers, HasPlayer
          <5>3. i \in DOMAIN m_players' /\ m_players'[i] = m_players[i]
            BY <2>5, <5>2
          <5> QED BY <2>11, <4>2, <5>1, <5>2, <5>3 DEF HasPlayer
        <4> QED BY <4>1, <4>2
      <3>2. ASSUME NEW i \in DOMAIN m_players', Connected(i)'
            PROVE  StateIn(m_players[i].peer, {"Active", "SudoMode", "Denied"})'
        <4>1. CASE i = L + 1
          <5>1. m_players'[i].peer = p
            BY <2>3, <2>5, <4>1
          <5> QED BY <2>2, <2>6, <2>7, <5>1 DEF StateIn, HasClient
        <4>2. CASE i # L + 1
          <5>1. i \in DOMAIN m_players /\ m_players'[i] = m_players[i]
            BY <2>5, <4>2
          <5> DEFINE q == m_players[i].peer
          <5>2. m_players'[i].peer = q /\ q \in Peers /\ Connected(i)
            BY <1>1, <3>2, <5>1, PlayerTypes DEF Connected
          <5>3. q # p
            BY <2>1, <5>1 DEF PlayerOfPeer
          <5>4. StateIn(q, {"Active", "SudoMode", "Denied"})
            BY <1>1, <5>1, <5>2 DEF HavePlayers
          <5> HIDE DEF q
          <5>5. m_clients'[q] = m_clients[q]
            BY <2>6, <5>2, <5>3
          <5> QED BY <5>2, <5>4, <5>5 DEF StateIn, HasClient
        <4> QED BY <4>1, <4>2
      <3> QED BY <3>1, <3>2 DEF HavePlayers
    <2>17. UserLimit'
      <3>1. Limited' \subseteq ActiveClients \cup {p}
        BY <2>15 DEF Limited, ActiveClients
      <3>2. CASE n \in Admins
        <4>1. p \notin Limited'
          BY <2>2, <2>6, <3>2 DEF Limited
        <4>2. Limited' \subseteq Limited
          BY <2>15, <4>1 DEF Limited, ActiveClients
        <4> QED BY <1>1, <4>2, NobodyComesIn
      <3>3. CASE n \notin Admins
        <4>1. IsFiniteSet(ActiveClients) /\ setting.max_users \in Nat
          BY <1>1, LimitedFinite DEF Types, SessionConstants
        <4>2. Cardinality(ActiveClients) < setting.max_users
          BY <1>4, <3>3, <4>1, FS_CardinalityType DEF LimitReached
        <4> QED BY <1>1, <3>1, <4>2, OneComesIn
      <3> QED BY <3>2, <3>3
    <2>18. DataKept'
      <3> SUFFICES ASSUME NEW m \in Names \ overtaken'
                   PROVE (/\ \A i, j \in PlayersOf(m) : i = j
                          /\ \A i \in PlayersOf(m) : m_players[i].data = latest[m]
                          /\ PlayersOf(m) = {} => database[m] = latest[m])'
        BY DEF DataKept
      <3>1. m \notin overtaken
        BY <2>4
      <3>2. /\ \A i, j \in PlayersOf(m) : i = j
            /\ \A i \in PlayersOf(m) : m_players[i].data = latest[m]
            /\ PlayersOf(m) = {} => database[m] = latest[m]
        BY <1>1, <3>1 DEF DataKept
      <3>3. CASE m = n
        <4>1. PlayersOf(n) = {}
          BY <2>4, <3>3
        <4>2. PlayersOf(m)' = {L + 1}
          BY <2>14, <3>3, <4>1
        <4>3. m_players'[L + 1].data = latest'[m]
          BY <1>1, <2>3, <2>5, <3>2, <3>3, <4>1
        <4> QED BY <4>2, <4>3
      <3>4. CASE m # n
        <4>1. PlayersOf(m)' = PlayersOf(m)
          BY <2>13, <3>4
        <4>2. \A i \in PlayersOf(m) : m_players'[i] = m_players[i]
          BY <2>5 DEF PlayersOf
        <4> QED BY <1>1, <3>2, <4>1, <4>2
      <3> QED BY <3>3, <3>4
    <2> QED BY <2>8, <2>9, <2>16, <2>17, <2>18 DEF SessionInv
  <1> QED BY <1>0, <1>3, <1>4 DEF HandleClientReady

-----------------------------------------------------------------------------
(***************************************************************************)
(* Peers that come and go.                                                 *)
(***************************************************************************)
LEMMA PeerAddedInv ==
  ASSUME SessionConstants, SessionInv, NEW p \in Peers, PeerAdded(p)
  PROVE  SessionInv'
  <1> DEFINE c == [state |-> "Created", name |-> None, chosen |-> None, allowed |-> {}]
  <1>1. /\ Types /\ ClientsKnown /\ HavePlayers /\ UserLimit /\ DataKept
        /\ con[p] = "no" /\ con' = [con EXCEPT ![p] = "up"]
        /\ m_clients' = [m_clients EXCEPT ![p] = c]
        /\ setting' = setting /\ m_players' = m_players /\ overtaken' = overtaken
        /\ database' = database /\ changes' = changes /\ latest' = latest
        /\ password' = password
    BY DEF SessionInv, PeerAdded, Becomes, playerVars, saveVars
  <1>2. c \in Clients /\ c # None /\ c.state = "Created"
    BY DEF Clients, States, Mechs, SessionConstants
  <1> HIDE DEF c
  <1>3. /\ con' \in [Peers -> {"no", "up", "gone", "deleted"}] /\ con'[p] = "up"
        /\ m_clients' \in [Peers -> Clients \cup {None}] /\ m_clients'[p] = c
        /\ \A q \in Peers : q # p => con'[q] = con[q] /\ m_clients'[q] = m_clients[q]
    BY <1>1, <1>2 DEF Types
  <1>4. Types'
    BY <1>1, <1>3 DEF Types
  <1>5. ~HasClient(p)
    BY <1>1 DEF ClientsKnown
  <1>6. ClientsKnown'
    <2> SUFFICES ASSUME NEW q \in Peers
                 PROVE (/\ HasClient(q) => /\ m_clients[q].state # "InitDone"
                                           /\ m_clients[q].state \in LoggedIn
                                                => m_clients[q].name \in Names
                        /\ con[q] = "no" => ~HasClient(q))'
      BY DEF ClientsKnown
    <2>1. CASE q = p
      BY <1>2, <1>3, <2>1 DEF LoggedIn, HasClient
    <2>2. CASE q # p
      BY <1>1, <1>3, <2>2 DEF ClientsKnown, HasClient
    <2> QED BY <2>1, <2>2
  <1>7. \A q \in Peers : q \in ActiveClients' =>
          q # p /\ q \in ActiveClients /\ m_clients'[q] = m_clients[q]
    <2> TAKE q \in Peers
    <2>1. CASE q = p
      BY <1>2, <1>3, <2>1 DEF ActiveClients, StateIn
    <2>2. CASE q # p
      BY <1>3, <2>2 DEF ActiveClients, StateIn, HasClient
    <2> QED BY <2>1, <2>2
  <1>8. ActiveClients' \subseteq Peers
    BY DEF ActiveClients
  <1>9. HavePlayers'
    <2>1. ASSUME NEW q \in ActiveClients' PROVE HasPlayer(q)'
      <3>1. HasPlayer(q) /\ m_clients'[q].name = m_clients[q].name
        BY <1>1, <1>7, <1>8 DEF HavePlayers
      <3> QED BY <1>1, <3>1 DEF HasPlayer, PlayerOfPeer
    <2>2. ASSUME NEW i \in DOMAIN m_players', Connected(i)'
          PROVE  StateIn(m_players[i].peer, {"Active", "SudoMode", "Denied"})'
      <3> DEFINE q == m_players[i].peer
      <3>1. i \in DOMAIN m_players /\ Connected(i) /\ q \in Peers /\ m_players'[i].peer = q
        BY <1>1, <2>2, PlayerTypes DEF Connected
      <3>2. StateIn(q, {"Active", "SudoMode", "Denied"})
        BY <1>1, <3>1 DEF HavePlayers
      <3> HIDE DEF q
      <3>3. m_clients'[q] = m_clients[q]
        BY <1>3, <1>5, <3>1, <3>2 DEF StateIn
      <3> QED BY <3>1, <3>2, <3>3 DEF StateIn, HasClient
    <2> QED BY <2>1, <2>2 DEF HavePlayers
  <1>10. UserLimit'
    <2>1. Limited' \subseteq Limited
      BY <1>7, <1>8 DEF Limited
    <2> QED BY <1>1, <2>1, NobodyComesIn
  <1>11. DataKept'
    BY <1>1 DEF DataKept, PlayersOf
  <1> QED BY <1>4, <1>6, <1>9, <1>10, <1>11 DEF SessionInv

LEMMA PeerGoneInv ==
  ASSUME SessionConstants, SessionInv, NEW p \in Peers, PeerGone(p)
  PROVE  SessionInv'
  <1>1. /\ Types /\ ClientsKnown /\ HavePlayers /\ UserLimit /\ DataKept
        /\ con[p] = "up" /\ con' = [con EXCEPT ![p] = "gone"]
        /\ setting' = setting /\ m_players' = m_players /\ overtaken' = overtaken
        /\ database' = database /\ changes' = changes /\ latest' = latest
        /\ password' = password /\ m_clients' = m_clients
    BY DEF SessionInv, PeerGone, playerVars, saveVars
  <1>2. con' \in [Peers -> {"no", "up", "gone", "deleted"}]
        /\ \A q \in Peers : con'[q] = "no" => con[q] = "no"
    BY <1>1 DEF Types
  <1>3. Types'
    BY <1>1, <1>2 DEF Types
  <1>4. ClientsKnown'
    BY <1>1, <1>2 DEF ClientsKnown, HasClient
  <1>5. HavePlayers'
    BY <1>1 DEF HavePlayers, HasPlayer, PlayerOfPeer, ActiveClients, StateIn, HasClient,
                Connected
  <1>6. UserLimit'
    BY <1>1 DEF UserLimit, ActiveClients, StateIn, HasClient
  <1>7. DataKept'
    BY <1>1 DEF DataKept, PlayersOf
  <1> QED BY <1>3, <1>4, <1>5, <1>6, <1>7 DEF SessionInv

\* The players stay in their places, under their names.
Renewed == /\ m_players' \in Seq(Players) /\ DOMAIN m_players' = DOMAIN m_players
           /\ \A i \in DOMAIN m_players : m_players'[i].name = m_players[i].name

LEMMA SamePlayers ==
  ASSUME Renewed, NEW n
  PROVE  PlayersOf(n)' = PlayersOf(n)
  BY DEF Renewed, PlayersOf

\* ... and with their peers.
LEMMA SamePeers ==
  ASSUME Renewed, HavePlayers, m_clients' = m_clients,
         \A i \in DOMAIN m_players : m_players'[i].peer = m_players[i].peer
  PROVE  HavePlayers'
  <1>1. ActiveClients' = ActiveClients
    BY DEF ActiveClients, StateIn, HasClient
  <1>2. ASSUME NEW q \in ActiveClients' PROVE HasPlayer(q)'
    <2>1. PlayerOfPeer(q)' = PlayerOfPeer(q)
      BY DEF PlayerOfPeer, Renewed
    <2>2. HasPlayer(q)
      BY <1>1 DEF HavePlayers
    <2> QED BY <2>1, <2>2 DEF HasPlayer, Renewed
  <1>3. ASSUME NEW i \in DOMAIN m_players', Connected(i)'
        PROVE  StateIn(m_players[i].peer, {"Active", "SudoMode", "Denied"})'
    <2>1. i \in DOMAIN m_players /\ Connected(i) /\ m_players'[i].peer = m_players[i].peer
      BY <1>3 DEF Renewed, Connected
    <2>2. StateIn(m_players[i].peer, {"Active", "SudoMode", "Denied"})
      BY <2>1 DEF HavePlayers
    <2> QED BY <2>1, <2>2 DEF StateIn, HasClient
  <1> QED BY <1>2, <1>3 DEF HavePlayers

LEMMA PlayerLeaves ==
  ASSUME SessionConstants, Types, NEW p \in Peers, DeletingPeer(p)
  PROVE  /\ Renewed
         /\ \A i \in DOMAIN m_players :
              /\ m_players'[i].data = m_players[i].data
              /\ i \in PlayerOfPeer(p) => m_players'[i].peer = None
              /\ i \notin PlayerOfPeer(p) => m_players'[i] = m_players[i]
  <1> DEFINE left(i) == [m_players[i] EXCEPT !.peer = None]
  <1>1. m_players' = [i \in DOMAIN m_players |->
          IF i \in PlayerOfPeer(p) THEN left(i) ELSE m_players[i]]
    BY DEF DeletingPeer
  <1>2. \A i \in DOMAIN m_players :
          /\ left(i) \in Players /\ left(i).name = m_players[i].name
          /\ left(i).data = m_players[i].data /\ left(i).peer = None
    BY PlayerTypes DEF Players
  <1> HIDE DEF left
  <1>3. /\ DOMAIN m_players' = DOMAIN m_players
        /\ \A i \in DOMAIN m_players :
             /\ m_players'[i] \in Players
             /\ m_players'[i].name = m_players[i].name
             /\ m_players'[i].data = m_players[i].data
             /\ i \in PlayerOfPeer(p) => m_players'[i].peer = None
             /\ i \notin PlayerOfPeer(p) => m_players'[i] = m_players[i]
    BY <1>1, <1>2, PlayerTypes
  <1>4. m_players' \in Seq(Players)
    BY <1>1, <1>3, PlayerTypes
  <1> QED BY <1>3, <1>4 DEF Renewed

LEMMA DeletingPeerInv ==
  ASSUME SessionConstants, SessionInv, NEW p \in Peers, DeletingPeer(p)
  PROVE  SessionInv'
  <1>1. /\ Types /\ ClientsKnown /\ HavePlayers /\ UserLimit /\ DataKept
        /\ con[p] = "gone" /\ con' = [con EXCEPT ![p] = "deleted"]
        /\ m_clients' = [m_clients EXCEPT ![p] = None]
        /\ setting' = setting /\ overtaken' = overtaken
        /\ database' = database /\ changes' = changes /\ latest' = latest
        /\ password' = password
    BY DEF SessionInv, DeletingPeer, Becomes, saveVars
  <1>2. /\ Renewed
        /\ \A i \in DOMAIN m_players :
             /\ m_players'[i].data = m_players[i].data
             /\ i \in PlayerOfPeer(p) => m_players'[i].peer = None
             /\ i \notin PlayerOfPeer(p) => m_players'[i] = m_players[i]
    BY <1>1, PlayerLeaves
  <1>3. DOMAIN m_players' = DOMAIN m_players /\ m_players' \in Seq(Players)
        /\ \A i \in DOMAIN m_players : m_players'[i].name = m_players[i].name
    BY <1>2 DEF Renewed
  <1>4. /\ con' \in [Peers -> {"no", "up", "gone", "deleted"}] /\ con'[p] = "deleted"
        /\ m_clients' \in [Peers -> Clients \cup {None}] /\ m_clients'[p] = None
        /\ \A q \in Peers : q # p => con'[q] = con[q] /\ m_clients'[q] = m_clients[q]
    BY <1>1 DEF Types
  <1>5. Types'
    BY <1>1, <1>3, <1>4 DEF Types
  <1>6. ClientsKnown'
    <2> SUFFICES ASSUME NEW q \in Peers
                 PROVE (/\ HasClient(q) => /\ m_clients[q].state # "InitDone"
                                           /\ m_clients[q].state \in LoggedIn
                                                => m_clients[q].name \in Names
                        /\ con[q] = "no" => ~HasClient(q))'
      BY DEF ClientsKnown
    <2>1. CASE q = p
      BY <1>4, <2>1 DEF HasClient
    <2>2. CASE q # p
      BY <1>1, <1>4, <2>2 DEF ClientsKnown, HasClient
    <2> QED BY <2>1, <2>2
  <1>7. \A q \in ActiveClients' : /\ q \in Peers /\ q # p /\ q \in ActiveClients
                                   /\ m_clients'[q] = m_clients[q]
    BY <1>4 DEF ActiveClients, StateIn, HasClient
  <1>8. HavePlayers'
    <2>1. ASSUME NEW q \in ActiveClients' PROVE HasPlayer(q)'
      <3>1. q \in Peers /\ q # p /\ q # None /\ HasPlayer(q) /\ m_clients'[q] = m_clients[q]
        BY <1>1, <1>7 DEF HavePlayers, SessionConstants
      <3>2. \A i \in DOMAIN m_players : (m_players'[i].peer = q) <=> (m_players[i].peer = q)
        BY <1>2, <3>1 DEF PlayerOfPeer
      <3>3. PlayerOfPeer(q)' = PlayerOfPeer(q)
        BY <1>3, <3>2 DEF PlayerOfPeer
      <3> QED BY <1>3, <3>1, <3>3 DEF HasPlayer
    <2>2. ASSUME NEW i \in DOMAIN m_players', Connected(i)'
          PROVE  StateIn(m_players[i].peer, {"Active", "SudoMode", "Denied"})'
      <3> DEFINE q == m_players[i].peer
      <3>1. i \in DOMAIN m_players /\ i \notin PlayerOfPeer(p) /\ m_players'[i] = m_players[i]
        BY <1>3, <1>2, <2>2 DEF Connected
      <3>2. Connected(i) /\ q \in Peers /\ q # p /\ m_players'[i].peer = q
        BY <1>1, <2>2, <3>1, PlayerTypes DEF Connected, PlayerOfPeer
      <3>3. StateIn(q, {"Active", "SudoMode", "Denied"})
        BY <1>1, <3>1, <3>2 DEF HavePlayers
      <3> HIDE DEF q
      <3>4. m_clients'[q] = m_clients[q]
        BY <1>4, <3>2
      <3> QED BY <3>2, <3>3, <3>4 DEF StateIn, HasClient
    <2> QED BY <2>1, <2>2 DEF HavePlayers
  <1>9. UserLimit'
    <2>1. Limited' \subseteq Limited
      BY <1>7 DEF Limited
    <2> QED BY <1>1, <2>1, NobodyComesIn
  <1>10. DataKept'
    <2> SUFFICES ASSUME NEW m \in Names \ overtaken'
                 PROVE (/\ \A i, j \in PlayersOf(m) : i = j
                        /\ \A i \in PlayersOf(m) : m_players[i].data = latest[m]
                        /\ PlayersOf(m) = {} => database[m] = latest[m])'
      BY DEF DataKept
    <2>1. PlayersOf(m)' = PlayersOf(m)
      BY <1>2, SamePlayers
    <2>2. \A i \in PlayersOf(m) : m_players'[i].data = m_players[i].data
      BY <1>2 DEF PlayersOf
    <2> QED BY <1>1, <2>1, <2>2 DEF DataKept
  <1> QED BY <1>5, <1>6, <1>8, <1>9, <1>10 DEF SessionInv

-----------------------------------------------------------------------------
(***************************************************************************)
(* The players' data.                                                      *)
(***************************************************************************)
LEMMA PlayerChanged ==
  ASSUME Types, NEW k, PlayerChanges(k)
  PROVE  /\ Renewed /\ k \in DOMAIN m_players
         /\ \A i \in DOMAIN m_players : m_players'[i].peer = m_players[i].peer
         /\ m_players'[k].data = changes + 1
         /\ \A i \in DOMAIN m_players : i # k => m_players'[i] = m_players[i]
  <1> DEFINE v == changes + 1
             y == [m_players EXCEPT ![k].data = v]
             r == [m_players[k] EXCEPT !.data = v]
             s == [r EXCEPT !.modified = TRUE]
  <1>1. k \in DOMAIN m_players /\ changes' = v
    BY DEF PlayerChanges
  <1>2. m_players' = [y EXCEPT ![k].modified = TRUE]
    BY <1>1 DEF PlayerChanges
  <1>3. v \in Nat /\ m_players[k] \in Players
    BY <1>1, PlayerTypes DEF Types
  <1> HIDE DEF v
  <1>4. r \in Players /\ r.name = m_players[k].name /\ r.peer = m_players[k].peer
    BY <1>3 DEF Players
  <1>5. DOMAIN y = DOMAIN m_players /\ y[k] = r /\ m_players' = [y EXCEPT ![k] = s]
    BY <1>1, <1>2
  <1>6. \A i \in DOMAIN m_players : i # k => y[i] = m_players[i]
    OBVIOUS
  <1>7. r.data = v
    BY <1>3 DEF Players
  <1> HIDE DEF r, y
  <1>8. /\ s \in Players /\ s.name = m_players[k].name /\ s.peer = m_players[k].peer
        /\ s.data = v
    BY <1>4, <1>7 DEF Players
  <1> HIDE DEF s
  <1>9. /\ DOMAIN m_players' = DOMAIN m_players /\ m_players'[k] = s
        /\ \A i \in DOMAIN m_players : i # k => m_players'[i] = m_players[i]
    BY <1>1, <1>5, <1>6
  <1>10. /\ m_players' = [i \in DOMAIN m_players |-> m_players'[i]]
         /\ \A i \in DOMAIN m_players : m_players'[i] \in Players
    BY <1>1, <1>5, <1>8, <1>9, PlayerTypes
  <1>11. m_players' \in Seq(Players)
    BY <1>10, PlayerTypes
  <1>12. Renewed /\ \A i \in DOMAIN m_players : m_players'[i].peer = m_players[i].peer
    BY <1>8, <1>9, <1>11 DEF Renewed
  <1> QED BY <1>1, <1>8, <1>9, <1>12 DEF v

LEMMA PlayerChangesInv ==
  ASSUME SessionConstants, SessionInv, NEW k, PlayerChanges(k)
  PROVE  SessionInv'
  <1> DEFINE v == changes + 1
  <1>1. PICK n : n = m_players[k].name
    OBVIOUS
  <1>2. /\ Types /\ ClientsKnown /\ HavePlayers /\ UserLimit /\ DataKept
        /\ k \in DOMAIN m_players /\ changes' = v
        /\ setting' = setting /\ con' = con /\ overtaken' = overtaken
        /\ database' = database /\ password' = password /\ m_clients' = m_clients
        /\ latest' = [latest EXCEPT ![n] = v]
    BY <1>1 DEF SessionInv, PlayerChanges, conVars
  <1>3. v \in Nat /\ n \in Names
    BY <1>1, <1>2, PlayerTypes DEF Types
  <1>4. /\ Renewed /\ m_players' \in Seq(Players)
        /\ \A i \in DOMAIN m_players : m_players'[i].peer = m_players[i].peer
        /\ m_players'[k].data = v
        /\ \A i \in DOMAIN m_players : i # k => m_players'[i] = m_players[i]
    BY <1>2, PlayerChanged DEF Renewed
  <1> HIDE DEF v
  <1>5. latest' \in [Names -> Nat] /\ latest'[n] = v
         /\ \A m \in Names : m # n => latest'[m] = latest[m]
    BY <1>2, <1>3 DEF Types
  <1>6. Types'
    BY <1>2, <1>3, <1>4, <1>5 DEF Types
  <1>7. ClientsKnown'
    BY <1>2 DEF ClientsKnown, HasClient
  <1>8. HavePlayers'
    BY <1>2, <1>4, SamePeers
  <1>9. UserLimit'
    BY <1>2 DEF UserLimit, ActiveClients, StateIn, HasClient
  <1>10. DataKept'
    <2> SUFFICES ASSUME NEW m \in Names \ overtaken'
                 PROVE (/\ \A i, j \in PlayersOf(m) : i = j
                        /\ \A i \in PlayersOf(m) : m_players[i].data = latest[m]
                        /\ PlayersOf(m) = {} => database[m] = latest[m])'
      BY DEF DataKept
    <2>1. PlayersOf(m)' = PlayersOf(m)
      BY <1>4, SamePlayers
    <2>2. /\ \A i, j \in PlayersOf(m) : i = j
          /\ \A i \in PlayersOf(m) : m_players[i].data = latest[m]
          /\ PlayersOf(m) = {} => database[m] = latest[m]
      BY <1>2 DEF DataKept
    <2>3. CASE m = n
      <3>1. k \in PlayersOf(m)
        BY <1>1, <1>2, <2>3 DEF PlayersOf
      <3>2. \A i \in PlayersOf(m) : m_players'[i].data = latest'[m]
        BY <1>4, <1>5, <2>2, <2>3, <3>1
      <3> QED BY <2>1, <2>2, <3>1, <3>2
    <2>4. CASE m # n
      <3>1. k \notin PlayersOf(m)
        BY <1>1, <2>4 DEF PlayersOf
      <3>2. \A i \in PlayersOf(m) : m_players'[i].data = m_players[i].data
        BY <1>4, <3>1 DEF PlayersOf
      <3>3. latest'[m] = latest[m] /\ database'[m] = database[m]
        BY <1>2, <1>5, <2>4
      <3> QED BY <2>1, <2>2, <3>2, <3>3
    <2> QED BY <2>3, <2>4
  <1> QED BY <1>6, <1>7, <1>8, <1>9, <1>10 DEF SessionInv

LEMMA PlayersSaved ==
  ASSUME Types, SaveLoadedPlayers
  PROVE  /\ Renewed
         /\ \A i \in DOMAIN m_players : /\ m_players'[i].peer = m_players[i].peer
                                        /\ m_players'[i].data = m_players[i].data
  <1> DEFINE saved(i) == [m_players[i] EXCEPT !.modified = FALSE]
  <1>1. m_players' = [i \in DOMAIN m_players |-> saved(i)]
    BY DEF SaveLoadedPlayers
  <1>2. \A i \in DOMAIN m_players :
          /\ saved(i) \in Players /\ saved(i).name = m_players[i].name
          /\ saved(i).data = m_players[i].data /\ saved(i).peer = m_players[i].peer
    BY PlayerTypes DEF Players
  <1> HIDE DEF saved
  <1>3. m_players' \in Seq(Players)
    BY <1>1, <1>2, PlayerTypes
  <1> QED BY <1>1, <1>2, <1>3 DEF Renewed

LEMMA SaveInv ==
  ASSUME SessionConstants, SessionInv, SaveLoadedPlayers
  PROVE  SessionInv'
  <1>1. /\ Types /\ ClientsKnown /\ HavePlayers /\ UserLimit /\ DataKept
        /\ setting' = setting /\ con' = con /\ overtaken' = overtaken
        /\ changes' = changes /\ latest' = latest
        /\ password' = password /\ m_clients' = m_clients
    BY DEF SessionInv, SaveLoadedPlayers, conVars
  <1>2. /\ Renewed /\ m_players' \in Seq(Players)
        /\ \A i \in DOMAIN m_players : /\ m_players'[i].peer = m_players[i].peer
                                       /\ m_players'[i].data = m_players[i].data
    BY <1>1, PlayersSaved DEF Renewed
  <1>3. database' = [n \in Names |-> IF ModifiedOf(n) = {} THEN database[n]
                                     ELSE m_players[Max(ModifiedOf(n))].data]
    BY DEF SaveLoadedPlayers
  <1>4. \A n \in Names : ModifiedOf(n) # {} => m_players[Max(ModifiedOf(n))].data \in Nat
    <2> TAKE n \in Names
    <2> HAVE ModifiedOf(n) # {}
    <2>1. ModifiedOf(n) \subseteq 1 .. Len(m_players) /\ Len(m_players) \in Nat
      BY <1>1, PlayerTypes DEF ModifiedOf, PlayersOf
    <2>2. Max(ModifiedOf(n)) \in ModifiedOf(n)
      BY <2>1, LastPosition
    <2> QED BY <1>1, <2>1, <2>2, PlayerTypes
  <1>5. database' \in [Names -> Nat]
    BY <1>1, <1>3, <1>4 DEF Types
  <1>6. Types'
    BY <1>1, <1>2, <1>5 DEF Types
  <1>7. ClientsKnown'
    BY <1>1 DEF ClientsKnown, HasClient
  <1>8. HavePlayers'
    BY <1>1, <1>2, SamePeers
  <1>9. UserLimit'
    BY <1>1 DEF UserLimit, ActiveClients, StateIn, HasClient
  <1>10. DataKept'
    <2> SUFFICES ASSUME NEW m \in Names \ overtaken'
                 PROVE (/\ \A i, j \in PlayersOf(m) : i = j
                        /\ \A i \in PlayersOf(m) : m_players[i].data = latest[m]
                        /\ PlayersOf(m) = {} => database[m] = latest[m])'
      BY DEF DataKept
    <2>1. PlayersOf(m)' = PlayersOf(m)
      BY <1>2, SamePlayers
    <2>2. \A i \in PlayersOf(m) : m_players'[i].data = m_players[i].data
      BY <1>1, <1>2 DEF PlayersOf
    <2>3. PlayersOf(m) = {} => database'[m] = database[m]
      BY <1>3 DEF ModifiedOf
    <2> QED BY <1>1, <2>1, <2>2, <2>3 DEF DataKept
  <1> QED BY <1>6, <1>7, <1>8, <1>9, <1>10 DEF SessionInv

(***************************************************************************)
(* A player that has left is saved and forgotten, and those behind it move *)
(* up: Was(k, j) is where the one that is at j now was.                    *)
(***************************************************************************)
Was(k, j) == IF j < k THEN j ELSE j + 1

LEMMA MovedUp ==
  ASSUME Types, NEW k \in DOMAIN m_players, m_players' = RemoveAt(m_players, k)
  PROVE  /\ m_players' \in Seq(Players)
         /\ \A j \in DOMAIN m_players' :
              /\ Was(k, j) \in DOMAIN m_players \ {k}
              /\ m_players'[j] = m_players[Was(k, j)]
         /\ \A i \in DOMAIN m_players \ {k} : \E j \in DOMAIN m_players' : Was(k, j) = i
         /\ \A i, j \in DOMAIN m_players' : Was(k, i) = Was(k, j) => i = j
  <1> DEFINE L == Len(m_players)
  <1>1. m_players \in Seq(Players) /\ L \in Nat /\ DOMAIN m_players = 1 .. L
    BY PlayerTypes DEF Types
  <1>2. m_players' \in Seq(Players) /\ Len(m_players') = L - 1
    BY <1>1, Removed
  <1>3. \A j \in 1 .. L - 1 :
          m_players'[j] = IF j < k THEN m_players[j] ELSE m_players[j + 1]
    BY <1>1, Removed
  <1>4. DOMAIN m_players' = 1 .. L - 1
    BY <1>2
  <1> HIDE DEF L
  <1>5. ASSUME NEW j \in DOMAIN m_players'
        PROVE  Was(k, j) \in DOMAIN m_players \ {k} /\ m_players'[j] = m_players[Was(k, j)]
    BY <1>1, <1>3, <1>4 DEF Was
  <1>6. ASSUME NEW i \in DOMAIN m_players \ {k}
        PROVE  \E j \in DOMAIN m_players' : Was(k, j) = i
    <2>1. CASE i < k
      <3>1. i \in DOMAIN m_players' /\ Was(k, i) = i
        BY <1>1, <1>4, <2>1 DEF Was
      <3> QED BY <3>1
    <2>2. CASE ~(i < k)
      <3>1. i - 1 \in DOMAIN m_players' /\ Was(k, i - 1) = i
        BY <1>1, <1>4, <2>2 DEF Was
      <3> QED BY <3>1
    <2> QED BY <2>1, <2>2
  <1>7. \A i, j \in DOMAIN m_players' : Was(k, i) = Was(k, j) => i = j
    BY <1>1, <1>4 DEF Was
  <1> QED BY <1>2, <1>5, <1>6, <1>7

LEMMA RemoveObjectInv ==
  ASSUME SessionConstants, SessionInv, NEW k, RemoveObject(k)
  PROVE  SessionInv'
  <1>0. PICK n : n = m_players[k].name
    OBVIOUS
  <1>1. /\ Types /\ ClientsKnown /\ HavePlayers /\ UserLimit /\ DataKept
        /\ k \in DOMAIN m_players /\ ~Connected(k)
        /\ setting' = setting /\ con' = con /\ overtaken' = overtaken
        /\ changes' = changes /\ latest' = latest
        /\ password' = password /\ m_clients' = m_clients
        /\ database' = [database EXCEPT ![n] = m_players[k].data]
        /\ m_players' = RemoveAt(m_players, k)
    BY <1>0 DEF SessionInv, RemoveObject, conVars
  <1>2. /\ m_players' \in Seq(Players)
        /\ \A j \in DOMAIN m_players' :
             /\ Was(k, j) \in DOMAIN m_players \ {k}
             /\ m_players'[j] = m_players[Was(k, j)]
        /\ \A i \in DOMAIN m_players \ {k} : \E j \in DOMAIN m_players' : Was(k, j) = i
        /\ \A i, j \in DOMAIN m_players' : Was(k, i) = Was(k, j) => i = j
    BY <1>1, MovedUp
  <1>3. n \in Names /\ m_players[k].data \in Nat /\ m_players[k].peer = None
    BY <1>0, <1>1, PlayerTypes DEF Connected
  <1>4. /\ database' \in [Names -> Nat] /\ database'[n] = m_players[k].data
        /\ \A m \in Names : m # n => database'[m] = database[m]
    BY <1>1, <1>3 DEF Types
  <1>5. Types'
    BY <1>1, <1>2, <1>4 DEF Types
  <1>6. ClientsKnown'
    BY <1>1 DEF ClientsKnown, HasClient
  <1>7. UserLimit'
    BY <1>1 DEF UserLimit, ActiveClients, StateIn, HasClient
  <1>8. HavePlayers'
    <2>1. ASSUME NEW q \in ActiveClients' PROVE HasPlayer(q)'
      <3>1. q \in ActiveClients /\ q \in Peers /\ q # None
        BY <1>1 DEF ActiveClients, StateIn, HasClient, SessionConstants
      <3>2. PICK i \in DOMAIN m_players :
              PlayerOfPeer(q) = {i} /\ m_players[i].name = m_clients[q].name
        BY <1>1, <3>1 DEF HavePlayers, HasPlayer
      <3>3. i \in PlayerOfPeer(q) /\ i # k
        BY <1>3, <3>1, <3>2 DEF PlayerOfPeer
      <3>4. PICK j \in DOMAIN m_players' : Was(k, j) = i
        BY <1>2, <3>3
      <3>5. \A l \in DOMAIN m_players' : (m_players'[l].peer = q) <=> (Was(k, l) = i)
        BY <1>2, <3>2, <3>3 DEF PlayerOfPeer
      <3>6. \A l \in DOMAIN m_players' : (m_players'[l].peer = q) <=> (l = j)
        BY <1>2, <3>4, <3>5
      <3>7. PlayerOfPeer(q)' = {j}
        BY <3>6 DEF PlayerOfPeer
      <3>8. (m_players[j].name = m_clients[q].name)'
        BY <1>1, <1>2, <3>2, <3>4
      <3> QED BY <3>7, <3>8 DEF HasPlayer
    <2>2. ASSUME NEW i \in DOMAIN m_players', Connected(i)'
          PROVE  StateIn(m_players[i].peer, {"Active", "SudoMode", "Denied"})'
      <3>1. Was(k, i) \in DOMAIN m_players /\ m_players'[i] = m_players[Was(k, i)]
            /\ Connected(Was(k, i))
        BY <1>2, <2>2 DEF Connected
      <3>2. StateIn(m_players[Was(k, i)].peer, {"Active", "SudoMode", "Denied"})
        BY <1>1, <3>1 DEF HavePlayers
      <3> QED BY <1>1, <3>1, <3>2 DEF StateIn, HasClient
    <2> QED BY <2>1, <2>2 DEF HavePlayers
  <1>9. DataKept'
    <2> SUFFICES ASSUME NEW m \in Names \ overtaken'
                 PROVE (/\ \A i, j \in PlayersOf(m) : i = j
                        /\ \A i \in PlayersOf(m) : m_players[i].data = latest[m]
                        /\ PlayersOf(m) = {} => database[m] = latest[m])'
      BY DEF DataKept
    <2>1. /\ \A i, j \in PlayersOf(m) : i = j
          /\ \A i \in PlayersOf(m) : m_players[i].data = latest[m]
          /\ PlayersOf(m) = {} => database[m] = latest[m]
      BY <1>1 DEF DataKept
    <2>2. \A j \in PlayersOf(m)' : Was(k, j) \in PlayersOf(m)
                                   /\ m_players'[j] = m_players[Was(k, j)]
                                   /\ j \in DOMAIN m_players'
      BY <1>2 DEF PlayersOf
    <2>3. \A i, j \in PlayersOf(m)' : i = j
      BY <1>2, <2>1, <2>2
    <2>4. \A j \in PlayersOf(m)' : m_players'[j].data = latest[m]
      BY <2>1, <2>2
    <2>5. PlayersOf(m)' = {} => database'[m] = latest[m]
      <3>1. CASE m = n
        <4>1. k \in PlayersOf(m)
          BY <1>0, <1>1, <3>1 DEF PlayersOf
        <4> QED BY <1>4, <2>1, <3>1, <4>1
      <3>2. CASE m # n
        <4>1. k \notin PlayersOf(m)
          BY <1>0, <3>2 DEF PlayersOf
        <4>2. ASSUME NEW i \in PlayersOf(m) PROVE PlayersOf(m)' # {}
          <5>1. i \in DOMAIN m_players \ {k} /\ m_players[i].name = m
            BY <4>1, <4>2 DEF PlayersOf
          <5>2. PICK j \in DOMAIN m_players' : Was(k, j) = i
            BY <1>2, <5>1
          <5>3. m_players'[j].name = m
            BY <1>2, <5>1, <5>2
          <5> QED BY <5>3 DEF PlayersOf
        <4> QED BY <1>4, <2>1, <3>2, <4>2
      <3> QED BY <3>1, <3>2
    <2> QED BY <1>1, <2>3, <2>4, <2>5
  <1> QED BY <1>5, <1>6, <1>7, <1>8, <1>9 DEF SessionInv

-----------------------------------------------------------------------------
(***************************************************************************)
(* The invariant holds in every state.                                     *)
(***************************************************************************)
LEMMA SessionInit ==
  ASSUME SessionConstants, Init
  PROVE  SessionInv
  <1>1. m_players = <<>> /\ DOMAIN m_players = {} /\ m_players \in Seq(Players)
    BY DEF Init
  <1>2. m_clients \in [Peers -> Clients \cup {None}] /\ \A p \in Peers : ~HasClient(p)
    BY DEF Init, HasClient
  <1>3. Types
    BY <1>1, <1>2 DEF Types, Init
  <1>4. ActiveClients = {}
    BY <1>2 DEF ActiveClients, StateIn
  <1>5. ClientsKnown /\ HavePlayers
    BY <1>1, <1>2, <1>4 DEF ClientsKnown, HavePlayers
  <1>6. UserLimit
    <2>1. {p \in ActiveClients : m_clients[p].name \notin Admins} = {}
      BY <1>4
    <2>2. setting.max_users \in Nat
      BY <1>3 DEF Types, SessionConstants
    <2>3. Cardinality({p \in ActiveClients : m_clients[p].name \notin Admins}) = 0
      BY <2>1, FS_EmptySet
    <2> QED BY <2>2, <2>3 DEF UserLimit
  <1>7. DataKept
    <2>1. \A n \in Names : PlayersOf(n) = {} /\ database[n] = 0 /\ latest[n] = 0
      BY <1>1 DEF PlayersOf, Init
    <2> QED BY <2>1 DEF DataKept
  <1> QED BY <1>3, <1>5, <1>6, <1>7 DEF SessionInv

LEMMA SessionNext ==
  ASSUME SessionConstants, SessionInv, [Next]_vars
  PROVE  SessionInv'
  <1>1. CASE UNCHANGED vars
    <2>1. /\ setting' = setting /\ con' = con /\ m_clients' = m_clients
          /\ m_players' = m_players /\ overtaken' = overtaken /\ database' = database
          /\ changes' = changes /\ latest' = latest /\ password' = password
      BY <1>1 DEF vars, conVars, playerVars, saveVars
    <2>2. Types' /\ ClientsKnown' /\ HavePlayers'
      BY <2>1 DEF SessionInv, Types, ClientsKnown, HavePlayers, HasPlayer, PlayerOfPeer,
                  ActiveClients, StateIn, HasClient, Connected
    <2>3. UserLimit' /\ DataKept'
      BY <2>1 DEF SessionInv, UserLimit, DataKept, PlayersOf, ActiveClients, StateIn,
                  HasClient
    <2> QED BY <2>2, <2>3 DEF SessionInv
  <1>2. ASSUME NEW p \in Peers, PeerAdded(p) \/ PeerGone(p) \/ DeletingPeer(p)
        PROVE SessionInv'
    BY <1>2, PeerAddedInv, PeerGoneInv, DeletingPeerInv
  <1>3. ASSUME NEW p \in Peers, NEW n \in setting.names, NEW ok \in BOOLEAN,
               HandleInit(p, n, ok)
        PROVE SessionInv'
    BY <1>3, InitHandled
  <1>4. ASSUME NEW p \in Peers, NEW ok \in BOOLEAN, HandleFirstSrp(p, ok)
        PROVE SessionInv'
    BY <1>4, FirstSrpHandled
  <1>5. ASSUME NEW p \in Peers,
               \/ \E ok \in BOOLEAN : HandleSrpBytesA(p, ok)
               \/ \E proof \in {"right", "wrong", "length"} : HandleSrpBytesM(p, proof)
        PROVE SessionInv'
    BY <1>5, SrpBytesHandled
  <1>6. ASSUME NEW p \in Peers, HandleInit2(p)
        PROVE SessionInv'
    BY <1>6, Init2Handled
  <1>7. ASSUME NEW p \in Peers, NEW kicked \in BOOLEAN, HandleClientReady(p, kicked)
        PROVE SessionInv'
    BY <1>7, ReadyHandled
  <1>8. ASSUME NEW i, Kick(i) \/ PlayerChanges(i) \/ RemoveObject(i)
        PROVE SessionInv'
    BY <1>8, KickInv, PlayerChangesInv, RemoveObjectInv
  <1>9. CASE SaveLoadedPlayers
    BY <1>9, SaveInv
  <1> QED BY <1>1, <1>2, <1>3, <1>4, <1>5, <1>6, <1>7, <1>8, <1>9 DEF Next

LEMMA SessionInvariant ==
  ASSUME SessionConstants
  PROVE  Spec => []SessionInv
  <1>1. Init => SessionInv
    BY SessionInit
  <1>2. SessionInv /\ [Next]_vars => SessionInv'
    BY SessionNext
  <1> QED BY <1>1, <1>2, PTL DEF Spec

\* A client in the game has one player, of its name, every player with a peer
\* has a client that came past its login, and notifyEvent never throws.
THEOREM SessionHasPlayers ==
  ASSUME SessionConstants
  PROVE  Spec => []ClientsHavePlayers
  <1>1. SessionInv => ClientsHavePlayers
    BY HavePlayersIs DEF SessionInv
  <1> QED BY <1>1, SessionInvariant, PTL

\* However many clients race through the join process: checkUserLimit() holds
\* for those that are in the game, admins apart.
THEOREM SessionUserLimit ==
  ASSUME SessionConstants
  PROVE  Spec => []UserLimit
  <1>1. SessionInv => UserLimit
    BY DEF SessionInv
  <1> QED BY <1>1, SessionInvariant, PTL

\* A player that left and is not overtaken by its own return is in the database
\* as it was, once its object is gone.
THEOREM SessionComesBack ==
  ASSUME SessionConstants
  PROVE  Spec => []ComesBackAsLeft
  <1>1. SessionInv => ComesBackAsLeft
    BY DEF SessionInv, DataKept, ComesBackAsLeft
  <1> QED BY <1>1, SessionInvariant, PTL

-----------------------------------------------------------------------------
(***************************************************************************)
(* What a step may not do.                                                 *)
(***************************************************************************)
LEMMA RegisteredStep ==
  ASSUME SessionConstants, SessionInv, [Next]_vars, NEW n \in Names, password[n] # None,
         password'[n] # password[n]
  PROVE  StateIn(password'[n], {"SudoMode"}) /\ m_clients[password'[n]].name = n
  <1>1. PICK p \in Peers : \E ok \in BOOLEAN : HandleFirstSrp(p, ok)
    <2>1. password' # password
      OBVIOUS
    <2> QED BY <2>1 DEF Next, vars, PeerAdded, PeerGone, DeletingPeer, HandleInit,
        HandleSrpBytesA, HandleSrpBytesM, HandleInit2, HandleClientReady, Kick,
        PlayerChanges, RemoveObject, SaveLoadedPlayers
  <1>2. PICK ok \in BOOLEAN : HandleFirstSrp(p, ok)
    BY <1>1
  <1> DEFINE o == m_clients[p]
  <1>3. /\ HasClient(p) /\ password' = [password EXCEPT ![o.name] = p]
        /\ o.state = "SudoMode" \/ password[o.name] = None
    BY <1>2 DEF HandleFirstSrp, StateIn
  <1>4. password \in [Names -> Peers \cup {None}]
    BY DEF SessionInv, Types
  <1> HIDE DEF o
  <1>5. o.name = n /\ password'[n] = p /\ o.state = "SudoMode"
    BY <1>3, <1>4
  <1> QED BY <1>3, <1>5 DEF StateIn, o

\* The password of a registered name is changed by its player in sudo mode only:
\* of two clients that register a name the slower one is turned away.
THEOREM SessionRegisteredOnce ==
  ASSUME SessionConstants
  PROVE  Spec => RegisteredOnce
  <1>1. SessionInv /\ [Next]_vars =>
          [\A n \in Names : password[n] # None /\ password'[n] # password[n] =>
             StateIn(password'[n], {"SudoMode"}) /\ m_clients[password'[n]].name = n]_vars
    BY RegisteredStep
  <1> QED BY <1>1, SessionInvariant, PTL DEF Spec, RegisteredOnce

LEMMA TwoOf ==
  ASSUME NEW S, IsFiniteSet(S)
  PROVE  Cardinality(S) > 1 <=> \E x, y \in S : x # y
  <1>1. ASSUME NEW x \in S, NEW y \in S, x # y
        PROVE  Cardinality(S) > 1
    <2>1. Cardinality({x}) = 1 /\ IsFiniteSet({x})
      BY FS_Singleton
    <2>2. {x} \in SUBSET S /\ {x} # S
      BY <1>1
    <2>3. Cardinality({x}) <= Cardinality(S) /\ Cardinality({x}) # Cardinality(S)
      BY <2>2, FS_Subset
    <2>4. Cardinality(S) \in Nat
      BY FS_CardinalityType
    <2> QED BY <2>1, <2>3, <2>4
  <1>2. ASSUME \A x, y \in S : x = y
        PROVE  ~(Cardinality(S) > 1)
    <2>1. CASE S = {}
      BY <2>1, FS_EmptySet
    <2>2. CASE S # {}
      <3>1. PICK x : S = {x}
        BY <1>2, <2>2
      <3> QED BY <3>1, FS_Singleton
    <2> QED BY <2>1, <2>2
  <1> QED BY <1>1, <1>2

TwoPlayers(n) == \E i, j \in PlayersOf(n) : i # j /\ Connected(i) /\ Connected(j)

LEMMA TwiceIs ==
  Types => \A n : Twice(n) <=> TwoPlayers(n)
  <1> SUFFICES ASSUME Types, NEW n
               PROVE  Twice(n) <=> TwoPlayers(n)
    OBVIOUS
  <1> DEFINE S == {i \in PlayersOf(n) : Connected(i)}
  <1>1. S \in SUBSET (1 .. Len(m_players)) /\ Len(m_players) \in Nat
    BY PlayerTypes DEF PlayersOf
  <1>2. IsFiniteSet(1 .. Len(m_players))
    BY <1>1, FS_Interval
  <1>3. IsFiniteSet(S)
    BY <1>1, <1>2, FS_Subset
  <1>4. Cardinality(S) > 1 <=> \E x, y \in S : x # y
    BY <1>3, TwoOf
  <1> QED BY <1>4 DEF Twice, TwoPlayers

LEMMA TwiceIsNext ==
  (Types => \A n : Twice(n) <=> TwoPlayers(n))'
  BY TwiceIs, PTL

\* Where the players stay, nobody comes in a second time.
LEMMA NobodyTwice ==
  ASSUME Types, Types', NEW n, Twice(n)', Renewed,
         \A i \in DOMAIN m_players : Connected(i)' => Connected(i)
  PROVE  Twice(n)
  <1>1. TwoPlayers(n)'
    BY TwiceIsNext
  <1>2. PICK i, j \in PlayersOf(n)' : i # j /\ Connected(i)' /\ Connected(j)'
    BY <1>1 DEF TwoPlayers
  <1>3. i \in PlayersOf(n) /\ j \in PlayersOf(n)
    BY <1>2, SamePlayers
  <1>4. Connected(i) /\ Connected(j)
    BY <1>2, <1>3 DEF PlayersOf
  <1> QED BY <1>2, <1>3, <1>4, TwiceIs DEF TwoPlayers

LEMMA ComesInOnce ==
  ASSUME SessionConstants, SessionInv, SessionInv', [Next]_vars, NEW n \in Names,
         Twice(n)', ~Twice(n)
  PROVE  \E i \in FirstOf(n) : ~Connected(i)
  <1>1. Types /\ Types' /\ m_players \in Seq(Players)
    BY DEF SessionInv, Types
  <1>2. CASE m_players' = m_players
    BY <1>2 DEF Twice, PlayersOf, Connected
  <1>3. ASSUME NEW p \in Peers, DeletingPeer(p) PROVE FALSE
    <2>1. /\ Renewed
          /\ \A i \in DOMAIN m_players :
               /\ i \in PlayerOfPeer(p) => m_players'[i].peer = None
               /\ i \notin PlayerOfPeer(p) => m_players'[i] = m_players[i]
      BY <1>1, <1>3, PlayerLeaves
    <2>2. \A i \in DOMAIN m_players : Connected(i)' => Connected(i)
      BY <2>1 DEF Connected
    <2> QED BY <1>1, <2>1, <2>2, NobodyTwice
  <1>4. ASSUME NEW k, PlayerChanges(k) PROVE FALSE
    <2>1. Renewed /\ \A i \in DOMAIN m_players : m_players'[i].peer = m_players[i].peer
      BY <1>1, <1>4, PlayerChanged
    <2>2. \A i \in DOMAIN m_players : Connected(i)' => Connected(i)
      BY <2>1 DEF Connected
    <2> QED BY <1>1, <2>1, <2>2, NobodyTwice
  <1>5. CASE SaveLoadedPlayers
    <2>1. Renewed /\ \A i \in DOMAIN m_players : m_players'[i].peer = m_players[i].peer
      BY <1>1, <1>5, PlayersSaved
    <2>2. \A i \in DOMAIN m_players : Connected(i)' => Connected(i)
      BY <2>1 DEF Connected
    <2> QED BY <1>1, <2>1, <2>2, NobodyTwice
  <1>6. TwoPlayers(n)'
    BY <1>1, TwiceIsNext
  <1>7. PICK i, j \in PlayersOf(n)' : i # j /\ Connected(i)' /\ Connected(j)'
    BY <1>6 DEF TwoPlayers
  <1>8. ASSUME NEW k, RemoveObject(k) PROVE FALSE
    <2>1. k \in DOMAIN m_players /\ m_players' = RemoveAt(m_players, k)
      BY <1>8 DEF RemoveObject
    <2>2. /\ \A l \in DOMAIN m_players' :
               /\ Was(k, l) \in DOMAIN m_players \ {k}
               /\ m_players'[l] = m_players[Was(k, l)]
          /\ \A l, m \in DOMAIN m_players' : Was(k, l) = Was(k, m) => l = m
      BY <1>1, <2>1, MovedUp
    <2>3. i \in DOMAIN m_players' /\ j \in DOMAIN m_players' /\ Was(k, i) # Was(k, j)
      BY <1>7, <2>2 DEF PlayersOf
    <2>4. \A l \in PlayersOf(n)' : Connected(l)' => Was(k, l) \in PlayersOf(n)
                                                     /\ Connected(Was(k, l))
      BY <2>2 DEF PlayersOf, Connected
    <2> QED BY <1>1, <1>7, <2>3, <2>4, TwiceIs DEF TwoPlayers
  <1>9. ASSUME NEW p \in Peers, NEW kicked \in BOOLEAN, HandleClientReady(p, kicked),
               m_players' # m_players
        PROVE  \E l \in FirstOf(n) : ~Connected(l)
    <2>1. PICK m : m = m_clients[p].name
      OBVIOUS
    <2>2. GetPlayer(m) = {} /\ AddPlayer(p, m)
      BY <1>9, <2>1 DEF HandleClientReady, EmergeRefused
    <2>3. PICK r : m_players' = Append(m_players, r) /\ r.name = m
      BY <2>2 DEF AddPlayer
    <2> DEFINE L == Len(m_players)
    <2>4. /\ DOMAIN m_players = 1 .. L /\ DOMAIN m_players' = 1 .. L + 1 /\ L \in Nat
          /\ \A l \in 1 .. L : m_players'[l] = m_players[l]
          /\ m_players'[L + 1] = r
      <3>1. r \in Players
        BY <1>1, <2>3 DEF Types
      <3> QED BY <1>1, <2>3, <3>1, PlayerAppended
    <2> HIDE DEF L
    <2>5. PlayersOf(n) # {}
      <3> SUFFICES ASSUME PlayersOf(n) = {} PROVE FALSE
        OBVIOUS
      <3>1. \A l \in PlayersOf(n)' : l = L + 1
        BY <2>4 DEF PlayersOf
      <3> QED BY <1>7, <3>1
    <2>6. m = n
      <3> SUFFICES ASSUME m # n PROVE FALSE
        OBVIOUS
      <3>1. \A l \in PlayersOf(n)' : /\ l \in PlayersOf(n)
                                     /\ Connected(l)' => Connected(l)
        BY <2>3, <2>4 DEF PlayersOf, Connected
      <3> QED BY <1>1, <1>7, <3>1, TwiceIs DEF TwoPlayers
    <2>7. PlayersOf(n) \subseteq Nat
      BY <2>4 DEF PlayersOf
    <2>8. PICK f \in PlayersOf(n) : \A l \in PlayersOf(n) : f <= l
      BY <2>5, <2>7, LeastNat
    <2>9. f \in FirstOf(n)
      BY <2>8 DEF FirstOf
    <2> QED BY <2>2, <2>6, <2>9 DEF GetPlayer
  <1>10. \/ m_players' = m_players \/ SaveLoadedPlayers
         \/ \E p \in Peers : DeletingPeer(p)
         \/ \E p \in Peers, kicked \in BOOLEAN : HandleClientReady(p, kicked)
         \/ \E k \in 1 .. Cardinality(Peers) : PlayerChanges(k) \/ RemoveObject(k)
    BY DEF Next, vars, PeerAdded, PeerGone, HandleInit, HandleFirstSrp, HandleSrpBytesA,
           HandleSrpBytesM, HandleInit2, Kick, playerVars
  <1> QED BY <1>2, <1>3, <1>4, <1>5, <1>8, <1>9, <1>10

\* A second player of a name comes in only while the first one of all of that
\* name has left and still waits for the removal of its object.
THEOREM SessionOnePlayer ==
  ASSUME SessionConstants
  PROVE  Spec => OnePlayerUnlessLeaving
  <1>1. SessionInv /\ SessionInv' /\ [Next]_vars =>
          [\A n \in Names : Twice(n)' /\ ~Twice(n) =>
             \E i \in FirstOf(n) : ~Connected(i)]_vars
    BY ComesInOnce
  <1> QED BY <1>1, SessionInvariant, PTL DEF Spec, OnePlayerUnlessLeaving

-----------------------------------------------------------------------------
(***************************************************************************)
(* BlockSend.                                                              *)
(***************************************************************************)

-----------------------------------------------------------------------------
(***************************************************************************)
(* The inductive invariant.                                                *)
(***************************************************************************)

\* What kind of values the constants have.
BlockConstants == SendD \in Nat

Copies == [b : Blocks, data : SUBSET Nat]
NodeChanges == [b : Blocks, e : Nat]
Asks == [type : {"DIG", "PLACE"}, under : Blocks, above : Blocks, b : Blocks, e : Nat]
Reports == [type : {"GOTBLOCKS", "DELETEDBLOCKS"}, b : Blocks]
Events == [type : {"NODE", "OTHER"}, b : Blocks, e : Nat, low : BOOLEAN]

SendTypes ==
  /\ m_blocks_sending \subseteq Blocks /\ m_blocks_sent \subseteq Blocks
  /\ loaded \subseteq Blocks /\ known \subseteq Blocks /\ nedits \in Nat
  /\ world \in [Blocks -> SUBSET Nat] /\ view \in [Blocks -> SUBSET Nat]
  /\ chan2 \in Seq(Copies) /\ chan0 \in Seq(NodeChanges)
  /\ up2 \in Seq(Reports) /\ up0 \in Seq(Asks)
  /\ m_unsent_map_edit_queue \in Seq(Events)

\* A change that was sent, alone or in its block, or that is to be sent, has been made.
ChangesAreMade ==
  /\ \A m \in ToSet(chan0) : m.e \in world[m.b]
  /\ \A ev \in ToSet(m_unsent_map_edit_queue) : ev.type = "NODE" => ev.e \in world[ev.b]
  /\ \A i \in DOMAIN chan2 : chan2[i].data \subseteq world[chan2[i].b]

\* A copy of a block that no node change has overtaken has the changes that are on
\* their way, and will not be without one that came before it.
CopiesHaveChanges ==
  \A b \in Blocks \ astray : \A i \in DOMAIN chan2 :
    LastOnWire(b, i) => Changes(b) \subseteq chan2[i].data

\* Node changes of b that wait in the queue; digging and placing in b that the
\* server has not answered yet.
Noted(b) == {ev.e : ev \in {x \in ToSet(m_unsent_map_edit_queue) :
                             x.b = b /\ x.type = "NODE"}}
Asked(b) == {p.e : p \in {x \in ToSet(up0) : x.b = b}}

\* With what is on its way, content will be the newest, but for the changes that
\* wait and those that the client has made on its own.
Fits(content, b) ==
  /\ world[b] \subseteq content \cup Changes(b) \cup Noted(b)
  /\ content \cup Changes(b) \subseteq world[b] \cup Asked(b)

Arrives(b) ==
  \/ ~OnWire(b) /\ b \in known /\ Fits(view[b], b)
  \/ \E i \in DOMAIN chan2 : LastOnWire(b, i) /\ Fits(chan2[i].data, b)

\* What will take b out of the books: a report, or an event that is no node change.
Dropped(b) == \E r \in ToSet(up2) : r = [type |-> "DELETEDBLOCKS", b |-> b]
Doubted(b) ==
  \E ev \in ToSet(m_unsent_map_edit_queue) : ev.b = b /\ ev.type = "OTHER"

BookedArrive ==
  \A b \in Booked \ astray : Dropped(b) \/ Doubted(b) \/ Arrives(b)

SendInv == SendTypes /\ ChangesAreMade /\ CopiesHaveChanges /\ BookedArrive

-----------------------------------------------------------------------------
(***************************************************************************)
(* Induction and recursion over natural numbers.  The library's theorems   *)
(* on induction are about operators; this one is about a set.              *)
(***************************************************************************)

\* What holds of 0 and passes to the next number holds of every number.
LEMMA SetInduction ==
  ASSUME NEW S, 0 \in S, \A n \in Nat : n \in S => n + 1 \in S
  PROVE  Nat \subseteq S
  <1> DEFINE R == OpToRel(<, Nat)
             T == Nat \ S
  <1> SUFFICES ASSUME T # {} PROVE FALSE
    OBVIOUS
  <1>1. IsWellFoundedOn(R, Nat)
    BY NatLessThanWellFounded
  <1>2. PICK x \in T : \A y \in T : ~(<<y, x>> \in R)
    BY <1>1, WFMin, Zenon
  <1>3. x # 0 /\ x \in Nat
    OBVIOUS
  <1>4. x - 1 \in Nat /\ (x - 1) + 1 = x
    BY <1>3
  <1>5. <<x - 1, x>> \in R
    BY <1>3, <1>4 DEF OpToRel
  <1> QED BY <1>2, <1>3, <1>4, <1>5

\* A set of natural numbers has a least element ...
LEMMA LeastExists ==
  ASSUME NEW T \in SUBSET Nat, T # {}
  PROVE  \E x \in T : \A y \in T : x <= y
  <1> DEFINE R == OpToRel(<, Nat)
  <1>1. PICK x \in T : \A y \in T : ~(<<y, x>> \in R)
    BY NatLessThanWellFounded, WFMin, Zenon
  <1>2. ASSUME NEW y \in T PROVE x <= y
    <2>1. x \in Nat /\ y \in Nat
      OBVIOUS
    <2>2. y < x => <<y, x>> \in R
      BY <2>1 DEF OpToRel
    <2>3. ~(y < x)
      BY <1>1, <2>2
    <2> QED BY <2>1, <2>3
  <1> QED BY <1>2

\* ... and, if it has a bound, a greatest one.
LEMMA GreatestExists ==
  ASSUME NEW n \in Nat, NEW T \in SUBSET (1 .. n), T # {}
  PROVE  \E x \in T : \A y \in T : y <= x
  <1> DEFINE U == {n - x : x \in T}
  <1>1. U \in SUBSET Nat /\ U # {}
    <2>1. \A x \in T : n - x \in Nat
      OBVIOUS
    <2> QED BY <2>1
  <1>2. PICK u \in U : \A v \in U : u <= v
    BY <1>1, LeastExists
  <1>3. PICK x \in T : u = n - x
    OBVIOUS
  <1>4. ASSUME NEW y \in T PROVE y <= x
    <2>1. n - y \in U
      OBVIOUS
    <2>2. n - x <= n - y
      BY <1>2, <1>3, <2>1
    <2>3. x \in Int /\ y \in Int
      OBVIOUS
    <2> QED BY <2>2, <2>3
  <1> QED BY <1>4

\* Min of a non-empty set of numbers is in the set.
LEMMA MinOfNat ==
  ASSUME NEW T \in SUBSET Nat, T # {}
  PROVE  Min(T) \in T
  <1>1. \E x \in T : \A y \in T : x <= y
    BY LeastExists
  <1> QED BY <1>1 DEF Min

-----------------------------------------------------------------------------
(***************************************************************************)
(* The helpers of the model.                                               *)
(***************************************************************************)

\* One step of Within.
Picked(f, s, S, i) == IF s[i] \in S THEN Append(f[i - 1], s[i]) ELSE f[i - 1]
IsPicking(f, s, S, n) ==
  f = [i \in 0 .. n |-> IF i = 0 THEN <<>>
                        ELSE IF s[i] \in S THEN Append(f[i - 1], s[i]) ELSE f[i - 1]]

\* The function by which Within goes through a sequence satisfies its equation.
LEMMA PickingExists ==
  ASSUME NEW s, NEW S
  PROVE  \A n \in Nat : \E f : IsPicking(f, s, S, n)
  <1> DEFINE T == {n \in Nat : \E f : IsPicking(f, s, S, n)}
  <1>1. 0 \in T
    <2> DEFINE f == [i \in 0 .. 0 |-> <<>>]
    <2>1. IsPicking(f, s, S, 0)
      BY DEF IsPicking
    <2> QED BY <2>1
  <1>2. ASSUME NEW n \in Nat, n \in T PROVE n + 1 \in T
    <2>1. PICK f : IsPicking(f, s, S, n)
      BY <1>2
    <2> DEFINE g == [i \in 0 .. n + 1 |-> IF i = n + 1 THEN Picked(f, s, S, i) ELSE f[i]]
    <2>2. \A i \in 0 .. n + 1 :
            g[i] = IF i = 0 THEN <<>>
                   ELSE IF s[i] \in S THEN Append(g[i - 1], s[i]) ELSE g[i - 1]
      <3> TAKE i \in 0 .. n + 1
      <3>1. CASE i = n + 1
        <4>1. i # 0 /\ i - 1 \in 0 .. n /\ i - 1 # n + 1 /\ i - 1 \in 0 .. n + 1
          BY <3>1
        <4>2. g[i - 1] = f[i - 1] /\ g[i] = Picked(f, s, S, i)
          BY <3>1, <4>1
        <4> QED BY <4>1, <4>2 DEF Picked
      <3>2. CASE i # n + 1
        <4>1. i \in 0 .. n /\ (i # 0 => i - 1 \in 0 .. n /\ i - 1 # n + 1)
          BY <3>2
        <4>2. g[i] = f[i] /\ (i # 0 => g[i - 1] = f[i - 1])
          BY <3>2, <4>1
        <4>3. f[i] = IF i = 0 THEN <<>>
                     ELSE IF s[i] \in S THEN Append(f[i - 1], s[i]) ELSE f[i - 1]
          BY <2>1, <4>1 DEF IsPicking
        <4> QED BY <4>2, <4>3
      <3> QED BY <3>1, <3>2
    <2>3. DOMAIN g = 0 .. n + 1 /\ g = [i \in 0 .. n + 1 |-> g[i]]
      OBVIOUS
    <2> HIDE DEF g
    <2>4. IsPicking(g, s, S, n + 1)
      BY <2>2, <2>3 DEF IsPicking
    <2>5. \E h : IsPicking(h, s, S, n + 1)
      BY <2>4
    <2> HIDE DEF IsPicking
    <2> QED BY <2>5
  <1> HIDE DEF T
  <1>3. Nat \subseteq T
    BY <1>1, <1>2, SetInduction
  <1> QED BY <1>3 DEF T

\* Within returns a sequence of elements of the set.
LEMMA WithinType ==
  ASSUME NEW R, NEW s \in Seq(R), NEW S
  PROVE  Within(s, S) \in Seq(S)
  <1>0. Len(s) \in Nat
    OBVIOUS
  <1>1. \E f : IsPicking(f, s, S, Len(s))
    BY <1>0, PickingExists
  <1> DEFINE first == CHOOSE f : IsPicking(f, s, S, Len(s))
  <1>2. IsPicking(first, s, S, Len(s))
    BY <1>1
  <1>3. Within(s, S) = first[Len(s)]
    BY DEF Within, IsPicking
  <1> HIDE DEF first
  <1> DEFINE T == {n \in Nat : n <= Len(s) => first[n] \in Seq(S)}
  <1>4. \A i \in 0 .. Len(s) :
          first[i] = IF i = 0 THEN <<>>
                     ELSE IF s[i] \in S THEN Append(first[i - 1], s[i]) ELSE first[i - 1]
    BY <1>2 DEF IsPicking
  <1>5. 0 \in T
    <2>1. first[0] = <<>>
      BY <1>0, <1>4
    <2>2. first[0] \in Seq(S)
      BY <2>1
    <2> QED BY <2>2
  <1>6. ASSUME NEW n \in Nat, n \in T PROVE n + 1 \in T
    <2> SUFFICES ASSUME n + 1 <= Len(s) PROVE first[n + 1] \in Seq(S)
      OBVIOUS
    <2>1. first[n] \in Seq(S)
      BY <1>6
    <2>2. n + 1 \in 0 .. Len(s) /\ n + 1 # 0 /\ (n + 1) - 1 = n
      OBVIOUS
    <2>3. first[n + 1] = IF s[n + 1] \in S THEN Append(first[n], s[n + 1]) ELSE first[n]
      BY <1>4, <2>2
    <2> QED BY <2>1, <2>3
  <1> HIDE DEF T
  <1>7. Nat \subseteq T
    BY <1>5, <1>6, SetInduction
  <1> QED BY <1>0, <1>3, <1>7 DEF T

-----------------------------------------------------------------------------
(***************************************************************************)
(* Sequences as sets of their elements.                                    *)
(***************************************************************************)

\* The elements of a sequence over S are in S.
LEMMA ToSetType ==
  ASSUME NEW S, NEW s \in Seq(S)
  PROVE  ToSet(s) \subseteq S
  BY DEF ToSet

\* Append adds one element.
LEMMA ToSetAppend ==
  ASSUME NEW S, NEW s \in Seq(S), NEW x \in S
  PROVE  ToSet(Append(s, x)) = ToSet(s) \cup {x}
  <1> DEFINE t == Append(s, x)
  <1>1. DOMAIN t = 1 .. Len(s) + 1 /\ DOMAIN s = 1 .. Len(s) /\ Len(s) \in Nat
    OBVIOUS
  <1>2. \A i \in 1 .. Len(s) : t[i] = s[i]
    OBVIOUS
  <1>3. t[Len(s) + 1] = x
    OBVIOUS
  <1> HIDE DEF t
  <1>4. ASSUME NEW y PROVE y \in ToSet(t) <=> y \in ToSet(s) \cup {x}
    <2>1. ASSUME NEW i \in DOMAIN t, y = t[i] PROVE y \in ToSet(s) \cup {x}
      <3>1. i \in 1 .. Len(s) \/ i = Len(s) + 1
        BY <1>1
      <3> QED BY <1>1, <1>2, <1>3, <2>1, <3>1 DEF ToSet
    <2>2. ASSUME NEW i \in DOMAIN s, y = s[i] PROVE y \in ToSet(t)
      <3>1. i \in DOMAIN t /\ y = t[i]
        BY <1>1, <1>2, <2>2
      <3> QED BY <3>1 DEF ToSet
    <2>3. x \in ToSet(t)
      <3>1. Len(s) + 1 \in DOMAIN t
        BY <1>1
      <3> QED BY <1>3, <3>1 DEF ToSet
    <2> QED BY <2>1, <2>2, <2>3 DEF ToSet
  <1>5. ToSet(t) = ToSet(s) \cup {x}
    BY <1>4
  <1> QED BY <1>5 DEF t

\* A sequence put after another adds its elements.
LEMMA ToSetConcat ==
  ASSUME NEW S, NEW s \in Seq(S), NEW t \in Seq(S)
  PROVE  ToSet(s \o t) = ToSet(s) \cup ToSet(t)
  <1> DEFINE u == s \o t
  <1>1. /\ DOMAIN u = 1 .. Len(s) + Len(t) /\ DOMAIN s = 1 .. Len(s) /\ DOMAIN t = 1 .. Len(t)
        /\ Len(s) \in Nat /\ Len(t) \in Nat
    OBVIOUS
  <1>2. \A i \in 1 .. Len(s) : u[i] = s[i]
    OBVIOUS
  <1>3. \A i \in 1 .. Len(t) : u[Len(s) + i] = t[i]
    OBVIOUS
  <1> HIDE DEF u
  <1>4. ASSUME NEW y PROVE y \in ToSet(u) <=> y \in ToSet(s) \cup ToSet(t)
    <2>1. ASSUME NEW i \in DOMAIN u, y = u[i] PROVE y \in ToSet(s) \cup ToSet(t)
      <3>1. CASE i \in 1 .. Len(s)
        BY <1>1, <1>2, <2>1, <3>1 DEF ToSet
      <3>2. CASE i \notin 1 .. Len(s)
        <4>1. i - Len(s) \in 1 .. Len(t) /\ i = Len(s) + (i - Len(s))
          BY <1>1, <3>2
        <4>2. y = t[i - Len(s)]
          BY <1>3, <2>1, <4>1
        <4> QED BY <1>1, <4>1, <4>2 DEF ToSet
      <3> QED BY <3>1, <3>2
    <2>2. ASSUME NEW i \in DOMAIN s, y = s[i] PROVE y \in ToSet(u)
      <3>1. i \in DOMAIN u /\ y = u[i]
        BY <1>1, <1>2, <2>2
      <3> QED BY <3>1 DEF ToSet
    <2>3. ASSUME NEW i \in DOMAIN t, y = t[i] PROVE y \in ToSet(u)
      <3>1. Len(s) + i \in DOMAIN u /\ y = u[Len(s) + i]
        BY <1>1, <1>3, <2>3
      <3> QED BY <3>1 DEF ToSet
    <2> QED BY <2>1, <2>2, <2>3 DEF ToSet
  <1>5. ToSet(u) = ToSet(s) \cup ToSet(t)
    BY <1>4
  <1> QED BY <1>5 DEF u

\* Head and tail have the elements of the sequence.
LEMMA ToSetTail ==
  ASSUME NEW S, NEW s \in Seq(S), s # <<>>
  PROVE  /\ Head(s) \in S /\ Tail(s) \in Seq(S)
         /\ ToSet(s) = {Head(s)} \cup ToSet(Tail(s))
  <1> DEFINE t == Tail(s)
  <1>1. /\ DOMAIN t = 1 .. Len(s) - 1 /\ DOMAIN s = 1 .. Len(s)
        /\ Len(s) \in Nat /\ Len(s) > 0 /\ Head(s) = s[1] /\ t \in Seq(S)
    OBVIOUS
  <1>2. \A i \in 1 .. Len(s) - 1 : t[i] = s[i + 1]
    OBVIOUS
  <1> HIDE DEF t
  <1>3. ASSUME NEW y PROVE y \in ToSet(s) <=> y \in {Head(s)} \cup ToSet(t)
    <2>1. ASSUME NEW i \in DOMAIN s, y = s[i] PROVE y \in {Head(s)} \cup ToSet(t)
      <3>1. CASE i = 1
        BY <1>1, <2>1, <3>1
      <3>2. CASE i # 1
        <4>1. i - 1 \in 1 .. Len(s) - 1 /\ i = (i - 1) + 1
          BY <1>1, <3>2
        <4>2. y = t[i - 1]
          BY <1>2, <2>1, <4>1
        <4> QED BY <1>1, <4>1, <4>2 DEF ToSet
      <3> QED BY <3>1, <3>2
    <2>2. ASSUME NEW i \in DOMAIN t, y = t[i] PROVE y \in ToSet(s)
      <3>1. i + 1 \in DOMAIN s /\ y = s[i + 1]
        BY <1>1, <1>2, <2>2
      <3> QED BY <3>1 DEF ToSet
    <2>3. Head(s) \in ToSet(s)
      <3>1. 1 \in DOMAIN s /\ Head(s) = s[1]
        BY <1>1
      <3> QED BY <3>1 DEF ToSet
    <2> QED BY <2>1, <2>2, <2>3 DEF ToSet
  <1>4. ToSet(s) = {Head(s)} \cup ToSet(t)
    BY <1>3
  <1>5. Head(s) \in S
    BY <1>1
  <1> QED BY <1>1, <1>4, <1>5 DEF t

\* The empty sequence has none.
LEMMA ToSetEmpty == ToSet(<<>>) = {}
  BY DEF ToSet

-----------------------------------------------------------------------------
(***************************************************************************)
(* The wire from the server to the client.                                 *)
(***************************************************************************)

\* A block on the wire has a last copy there.
LEMMA LastExists ==
  ASSUME chan2 \in Seq(Copies), NEW b, OnWire(b)
  PROVE  \E i \in DOMAIN chan2 : LastOnWire(b, i)
  <1> DEFINE T == {i \in DOMAIN chan2 : chan2[i].b = b}
  <1>1. Len(chan2) \in Nat /\ DOMAIN chan2 = 1 .. Len(chan2)
    OBVIOUS
  <1>2. T \in SUBSET (1 .. Len(chan2)) /\ T # {}
    BY <1>1 DEF OnWire
  <1> HIDE DEF T
  <1>3. PICK i \in T : \A j \in T : j <= i
    BY <1>1, <1>2, GreatestExists
  <1>4. i \in DOMAIN chan2 /\ chan2[i].b = b
    BY DEF T
  <1>5. ASSUME NEW j \in DOMAIN chan2, j > i PROVE chan2[j].b # b
    <2>1. j \in Int /\ i \in Int
      BY <1>1, <1>4
    <2>2. ~(j <= i)
      BY <1>5, <2>1
    <2> QED BY <1>3, <2>2 DEF T
  <1> QED BY <1>4, <1>5 DEF LastOnWire

\* Copies are put on the wire.
Added(new) == chan2' = chan2 \o new

\* Copies are added: what is on the wire was there or is one of them.
LEMMA AddedOrThere ==
  ASSUME chan2 \in Seq(Copies), NEW new \in Seq(Copies), Added(new), NEW i \in DOMAIN chan2'
  PROVE  \/ \E k \in DOMAIN chan2 : chan2'[i] = chan2[k]
         \/ \E k \in DOMAIN new : chan2'[i] = new[k]
  <1>1. /\ Len(chan2) \in Nat /\ DOMAIN chan2 = 1 .. Len(chan2)
        /\ Len(new) \in Nat /\ DOMAIN new = 1 .. Len(new)
        /\ DOMAIN chan2' = 1 .. Len(chan2) + Len(new)
    BY DEF Added
  <1>2. CASE i <= Len(chan2)
    <2>1. chan2'[i] = chan2[i] /\ i \in DOMAIN chan2
      BY <1>1, <1>2 DEF Added
    <2> QED BY <2>1
  <1>3. CASE i > Len(chan2)
    <2>1. chan2'[i] = new[i - Len(chan2)] /\ i - Len(chan2) \in DOMAIN new
      BY <1>1, <1>3 DEF Added
    <2> QED BY <2>1
  <1> QED BY <1>1, <1>2, <1>3

\* What is last of a block that is none of them stays last, ...
LEMMA OthersOnWire ==
  ASSUME chan2 \in Seq(Copies), NEW new \in Seq(Copies), Added(new),
         NEW b, \A k \in DOMAIN new : new[k].b # b
  PROVE  /\ OnWire(b)' <=> OnWire(b)
         /\ \A i \in DOMAIN chan2 : LastOnWire(b, i) =>
              i \in DOMAIN chan2' /\ LastOnWire(b, i)' /\ chan2'[i] = chan2[i]
         /\ \A i \in DOMAIN chan2' : LastOnWire(b, i)' =>
              i \in DOMAIN chan2 /\ LastOnWire(b, i) /\ chan2'[i] = chan2[i]
  <1>1. /\ Len(chan2) \in Nat /\ DOMAIN chan2 = 1 .. Len(chan2)
        /\ Len(new) \in Nat /\ DOMAIN new = 1 .. Len(new)
        /\ DOMAIN chan2' = 1 .. Len(chan2) + Len(new)
    BY DEF Added
  <1>2. \A i \in DOMAIN chan2 : i \in DOMAIN chan2' /\ chan2'[i] = chan2[i]
    BY <1>1 DEF Added
  <1>3. ASSUME NEW i \in DOMAIN chan2', i \notin DOMAIN chan2 PROVE chan2'[i].b # b
    <2>1. i - Len(chan2) \in DOMAIN new
      BY <1>1, <1>3
    <2>2. chan2'[i] = new[i - Len(chan2)]
      BY <1>1, <1>3 DEF Added
    <2> QED BY <2>1, <2>2
  <1>4. OnWire(b)' <=> OnWire(b)
    BY <1>2, <1>3 DEF OnWire
  <1>5. ASSUME NEW i \in DOMAIN chan2, LastOnWire(b, i) PROVE LastOnWire(b, i)'
    BY <1>2, <1>3, <1>5 DEF LastOnWire
  <1>6. ASSUME NEW i \in DOMAIN chan2', LastOnWire(b, i)'
        PROVE  i \in DOMAIN chan2 /\ LastOnWire(b, i)
    BY <1>2, <1>3, <1>6 DEF LastOnWire
  <1>7. \A i \in DOMAIN chan2' : LastOnWire(b, i)' => i \in DOMAIN chan2 /\ LastOnWire(b, i) /\ chan2'[i] = chan2[i]
    BY <1>2, <1>6
  <1>8. \A i \in DOMAIN chan2 : LastOnWire(b, i) => i \in DOMAIN chan2' /\ LastOnWire(b, i)' /\ chan2'[i] = chan2[i]
    BY <1>2, <1>5
  <1> QED BY <1>4, <1>7, <1>8

\* ... and of a block that is one of them, one of them is last.
LEMMA AddedToWire ==
  ASSUME chan2 \in Seq(Copies), NEW new \in Seq(Copies), Added(new),
         NEW b, \E k \in DOMAIN new : new[k].b = b
  PROVE  \E i \in DOMAIN chan2' : LastOnWire(b, i)'
  <1>1. /\ Len(chan2) \in Nat /\ DOMAIN chan2 = 1 .. Len(chan2)
        /\ Len(new) \in Nat /\ DOMAIN new = 1 .. Len(new)
        /\ DOMAIN chan2' = 1 .. Len(chan2) + Len(new) /\ chan2' \in Seq(Copies)
    BY DEF Added
  <1>2. PICK k \in DOMAIN new : new[k].b = b
    OBVIOUS
  <1>3. Len(chan2) + k \in DOMAIN chan2' /\ chan2'[Len(chan2) + k] = new[k]
    BY <1>1 DEF Added
  <1> DEFINE T == {i \in DOMAIN chan2' : chan2'[i].b = b}
  <1>4. T \in SUBSET (1 .. Len(chan2) + Len(new)) /\ T # {}
    BY <1>1, <1>2, <1>3
  <1>5. Len(chan2) + Len(new) \in Nat
    BY <1>1
  <1> HIDE DEF T
  <1>6. PICK i \in T : \A j \in T : j <= i
    BY <1>4, <1>5, GreatestExists
  <1>7. i \in DOMAIN chan2' /\ chan2'[i].b = b
    BY DEF T
  <1>8. ASSUME NEW j \in DOMAIN chan2', j > i PROVE chan2'[j].b # b
    <2>1. j \in Int /\ i \in Int
      BY <1>1, <1>7
    <2>2. ~(j <= i)
      BY <1>8, <2>1
    <2> QED BY <1>6, <2>2 DEF T
  <1> QED BY <1>7, <1>8 DEF LastOnWire

\* A copy put on the wire is the last one of its block.
LEMMA LastIsAdded ==
  ASSUME chan2 \in Seq(Copies), NEW new \in Seq(Copies), Added(new),
         NEW b, \E k \in DOMAIN new : new[k].b = b,
         NEW i \in DOMAIN chan2', LastOnWire(b, i)'
  PROVE  \E l \in DOMAIN new : chan2'[i] = new[l] /\ new[l].b = b
  <1>1. /\ Len(chan2) \in Nat /\ DOMAIN chan2 = 1 .. Len(chan2)
        /\ Len(new) \in Nat /\ DOMAIN new = 1 .. Len(new)
        /\ DOMAIN chan2' = 1 .. Len(chan2) + Len(new) /\ chan2' \in Seq(Copies)
    BY DEF Added
  <1>2. PICK k \in DOMAIN new : new[k].b = b
    OBVIOUS
  <1>3. Len(chan2) + k \in DOMAIN chan2' /\ chan2'[Len(chan2) + k] = new[k]
    BY <1>1 DEF Added
  <1>4. ~(Len(chan2) + k > i)
    BY <1>2, <1>3 DEF LastOnWire
  <1>5. i \in Int /\ k \in Nat /\ k > 0
    BY <1>1
  <1>6. i \notin DOMAIN chan2
    BY <1>1, <1>4, <1>5
  <1>7. i - Len(chan2) \in DOMAIN new /\ chan2'[i] = new[i - Len(chan2)]
    BY <1>1, <1>6 DEF Added
  <1> QED BY <1>7 DEF LastOnWire

\* The first copy is taken: what was last is last, unless it was that one.
LEMMA FirstOffWire ==
  ASSUME chan2 \in Seq(Copies), chan2 # <<>>, chan2' = Tail(chan2), NEW b
  PROVE  /\ \A i \in DOMAIN chan2' : LastOnWire(b, i)' =>
              i + 1 \in DOMAIN chan2 /\ LastOnWire(b, i + 1) /\ chan2'[i] = chan2[i + 1]
         /\ \A i \in DOMAIN chan2 : LastOnWire(b, i) =>
              \/ i = 1 /\ ~OnWire(b)' /\ Head(chan2) = chan2[1] /\ Head(chan2).b = b
              \/ i - 1 \in DOMAIN chan2' /\ LastOnWire(b, i - 1)' /\ chan2'[i - 1] = chan2[i]
         /\ ~OnWire(b) => ~OnWire(b)' /\ Head(chan2).b # b
  <1>1. /\ Len(chan2) \in Nat /\ Len(chan2) > 0 /\ DOMAIN chan2 = 1 .. Len(chan2)
        /\ DOMAIN chan2' = 1 .. Len(chan2) - 1 /\ Head(chan2) = chan2[1]
    OBVIOUS
  <1>2. \A i \in DOMAIN chan2' : i + 1 \in DOMAIN chan2 /\ chan2'[i] = chan2[i + 1]
    BY <1>1
  <1>3. \A i \in DOMAIN chan2 : i # 1 => i - 1 \in DOMAIN chan2' /\ chan2'[i - 1] = chan2[i]
    BY <1>1
  <1>4. ASSUME NEW i \in DOMAIN chan2', LastOnWire(b, i)' PROVE LastOnWire(b, i + 1)
    <2>1. i + 1 \in DOMAIN chan2 /\ chan2[i + 1].b = b
      BY <1>2, <1>4 DEF LastOnWire
    <2>2. ASSUME NEW j \in DOMAIN chan2, j > i + 1 PROVE chan2[j].b # b
      <3>1. j # 1 /\ j - 1 > i
        BY <1>1, <2>2
      <3> QED BY <1>3, <1>4, <3>1 DEF LastOnWire
    <2> QED BY <2>1, <2>2 DEF LastOnWire
  <1>5. ASSUME NEW i \in DOMAIN chan2, LastOnWire(b, i), i # 1 PROVE LastOnWire(b, i - 1)'
    <2>1. i - 1 \in DOMAIN chan2' /\ chan2'[i - 1].b = b
      BY <1>3, <1>5 DEF LastOnWire
    <2>2. ASSUME NEW j \in DOMAIN chan2', j > i - 1 PROVE chan2'[j].b # b
      <3>1. j + 1 > i
        BY <1>1, <2>2
      <3> QED BY <1>2, <1>5, <3>1 DEF LastOnWire
    <2> QED BY <2>1, <2>2 DEF LastOnWire
  <1>6. ASSUME LastOnWire(b, 1) PROVE ~OnWire(b)' /\ Head(chan2).b = b
    <2>1. ASSUME NEW j \in DOMAIN chan2' PROVE chan2'[j].b # b
      <3>1. j + 1 > 1
        BY <1>1
      <3> QED BY <1>2, <1>6, <3>1 DEF LastOnWire
    <2> QED BY <1>1, <1>6, <2>1 DEF LastOnWire, OnWire
  <1>7. ~OnWire(b) => ~OnWire(b)' /\ Head(chan2).b # b
    BY <1>1, <1>2 DEF OnWire
  <1> QED BY <1>1, <1>2, <1>3, <1>4, <1>5, <1>6, <1>7

\* A wire that stays as it is has the same last copies.
LEMMA SameWire ==
  ASSUME UNCHANGED chan2, NEW b
  PROVE  /\ OnWire(b)' <=> OnWire(b)
         /\ \A i : LastOnWire(b, i)' <=> LastOnWire(b, i)
  BY DEF OnWire, LastOnWire

-----------------------------------------------------------------------------
(***************************************************************************)
(* The events of the queue.                                                *)
(***************************************************************************)

\* SetBlockNotSent takes the block out of both books and touches no other.
LEMMA NotSentBooks ==
  ASSUME NEW c, NEW p, NEW low
  PROVE  /\ NotSent(c, p, low).sending = c.sending \ {p}
         /\ NotSent(c, p, low).sent = c.sent \ {p}
  BY DEF NotSent

IsHandling(f, reach, n) ==
  f = [i \in 0 .. n |->
         IF i = 0 THEN [c |-> Bookkeeping, out |-> <<>>, over |-> astray]
         ELSE HandleEvent(f[i - 1], m_unsent_map_edit_queue[i], reach)]

\* The function by which HandleEvents goes through the queue satisfies its equation.
LEMMA HandlingExists ==
  ASSUME NEW reach
  PROVE  \A n \in Nat : \E f : IsHandling(f, reach, n)
  <1> DEFINE T == {n \in Nat : \E f : IsHandling(f, reach, n)}
             s == m_unsent_map_edit_queue
             z == [c |-> Bookkeeping, out |-> <<>>, over |-> astray]
  <1>1. 0 \in T
    <2> DEFINE f == [i \in 0 .. 0 |-> z]
    <2>1. IsHandling(f, reach, 0)
      BY DEF IsHandling
    <2> QED BY <2>1
  <1>2. ASSUME NEW n \in Nat, n \in T PROVE n + 1 \in T
    <2>1. PICK f : IsHandling(f, reach, n)
      BY <1>2
    <2> DEFINE g == [i \in 0 .. n + 1 |->
                       IF i = n + 1 THEN HandleEvent(f[i - 1], s[i], reach) ELSE f[i]]
    <2>2. \A i \in 0 .. n + 1 : g[i] = IF i = 0 THEN z ELSE HandleEvent(g[i - 1], s[i], reach)
      <3> TAKE i \in 0 .. n + 1
      <3>1. CASE i = n + 1
        <4>1. i # 0 /\ i - 1 \in 0 .. n /\ i - 1 # n + 1 /\ i - 1 \in 0 .. n + 1
          BY <3>1
        <4>2. g[i - 1] = f[i - 1] /\ g[i] = HandleEvent(f[i - 1], s[i], reach)
          BY <3>1, <4>1
        <4> QED BY <4>1, <4>2
      <3>2. CASE i # n + 1
        <4>1. i \in 0 .. n /\ (i # 0 => i - 1 \in 0 .. n /\ i - 1 # n + 1)
          BY <3>2
        <4>2. g[i] = f[i] /\ (i # 0 => g[i - 1] = f[i - 1])
          BY <3>2, <4>1
        <4>3. f[i] = IF i = 0 THEN z ELSE HandleEvent(f[i - 1], s[i], reach)
          BY <2>1, <4>1 DEF IsHandling
        <4> QED BY <4>2, <4>3
      <3> QED BY <3>1, <3>2
    <2>3. DOMAIN g = 0 .. n + 1 /\ g = [i \in 0 .. n + 1 |-> g[i]]
      OBVIOUS
    <2> HIDE DEF g
    <2>4. IsHandling(g, reach, n + 1)
      BY <2>2, <2>3 DEF IsHandling
    <2>5. \E h : IsHandling(h, reach, n + 1)
      BY <2>4
    <2> HIDE DEF IsHandling
    <2> QED BY <2>5
  <1> HIDE DEF T
  <1>3. Nat \subseteq T
    BY <1>1, <1>2, SetInduction
  <1> QED BY <1>3 DEF T

\* What the first n events of the queue come to: no block is booked anew; a node
\* change is sent for a node event, and of a block on the wire the history notes it;
\* of a block that is still booked all events were node events, and were sent.
Handled(acc, n) ==
  /\ DOMAIN acc = {"c", "out", "over"}
  /\ acc.c.sending \subseteq m_blocks_sending /\ acc.c.sent \subseteq m_blocks_sent
  /\ astray \subseteq acc.over
  /\ acc.out \in Seq(NodeChanges)
  /\ \A m \in ToSet(acc.out) :
       /\ \E j \in 1 .. n : LET ev == m_unsent_map_edit_queue[j]
                           IN ev.type = "NODE" /\ ev.b = m.b /\ ev.e = m.e
       /\ OnWire(m.b) => m.b \in acc.over
  /\ \A j \in 1 .. n :
       LET ev == m_unsent_map_edit_queue[j]
       IN ev.b \in acc.c.sending \cup acc.c.sent =>
            ev.type = "NODE" /\ [b |-> ev.b, e |-> ev.e] \in ToSet(acc.out)

\* What one more event changes: a node change is put out, or its block leaves the books.
LEMMA HandledStep ==
  ASSUME m_unsent_map_edit_queue \in Seq(Events), NEW reach, NEW acc, NEW n \in Nat,
         n + 1 \in 1 .. Len(m_unsent_map_edit_queue), Handled(acc, n)
  PROVE  Handled(HandleEvent(acc, m_unsent_map_edit_queue[n + 1], reach), n + 1)
  <1> DEFINE q == m_unsent_map_edit_queue
             ev == q[n + 1]
             new == HandleEvent(acc, ev, reach)
             x == [b |-> ev.b, e |-> ev.e]
  <1>1. ev \in Events
    OBVIOUS
  <1>2. ev.b \in Blocks /\ ev.e \in Nat /\ x \in NodeChanges
    BY <1>1 DEF Events, NodeChanges
  <1>3. \A j \in 1 .. n + 1 : j \in 1 .. n \/ j = n + 1
    OBVIOUS
  <1>4. 1 .. n \subseteq 1 .. n + 1 /\ n + 1 \in 1 .. n + 1
    OBVIOUS
  <1>5. CASE ev.type = "NODE" /\ ev.b \in acc.c.sent /\ Dist(ev.b) <= reach
    <2>1. /\ DOMAIN new = {"c", "out", "over"} /\ new.c = acc.c
          /\ new.out = Append(acc.out, x)
          /\ new.over = IF OnWire(ev.b) THEN acc.over \cup {ev.b} ELSE acc.over
      BY <1>5 DEF HandleEvent, Handled
    <2>2. new.out \in Seq(NodeChanges) /\ ToSet(new.out) = ToSet(acc.out) \cup {x}
      BY <1>2, <2>1, ToSetAppend DEF Handled
    <2> HIDE DEF new
    <2>3. ASSUME NEW m \in ToSet(new.out)
          PROVE  /\ \E j \in 1 .. n + 1 : q[j].type = "NODE" /\ q[j].b = m.b /\ q[j].e = m.e
                 /\ OnWire(m.b) => m.b \in new.over
      <3>1. CASE m \in ToSet(acc.out)
        BY <1>4, <2>1, <3>1 DEF Handled
      <3>2. CASE m = x
        BY <1>4, <1>5, <2>1, <3>2
      <3> QED BY <2>2, <3>1, <3>2
    <2>4. ASSUME NEW j \in 1 .. n + 1, q[j].b \in new.c.sending \cup new.c.sent
          PROVE  q[j].type = "NODE" /\ [b |-> q[j].b, e |-> q[j].e] \in ToSet(new.out)
      BY <1>3, <1>5, <2>1, <2>2, <2>4 DEF Handled
    <2>5. /\ new.c.sending \subseteq m_blocks_sending /\ new.c.sent \subseteq m_blocks_sent
          /\ astray \subseteq new.over
      BY <2>1 DEF Handled
    <2>6. Handled(new, n + 1)
      BY <2>1, <2>2, <2>3, <2>4, <2>5 DEF Handled
    <2> QED BY <2>6 DEF new
  <1>6. CASE ~(ev.type = "NODE" /\ ev.b \in acc.c.sent /\ Dist(ev.b) <= reach)
    <2>1. /\ DOMAIN new = {"c", "out", "over"} /\ new.c = NotSent(acc.c, ev.b, ev.low)
          /\ new.out = acc.out /\ new.over = acc.over
      BY <1>6 DEF HandleEvent, Handled
    <2>2. new.c.sending = acc.c.sending \ {ev.b} /\ new.c.sent = acc.c.sent \ {ev.b}
      BY <2>1, NotSentBooks
    <2> HIDE DEF new
    <2>3. ASSUME NEW m \in ToSet(new.out)
          PROVE  /\ \E j \in 1 .. n + 1 : q[j].type = "NODE" /\ q[j].b = m.b /\ q[j].e = m.e
                 /\ OnWire(m.b) => m.b \in new.over
      BY <1>4, <2>1 DEF Handled
    <2>4. ASSUME NEW j \in 1 .. n + 1, q[j].b \in new.c.sending \cup new.c.sent
          PROVE  q[j].type = "NODE" /\ [b |-> q[j].b, e |-> q[j].e] \in ToSet(new.out)
      <3>1. q[j].b # ev.b /\ q[j].b \in acc.c.sending \cup acc.c.sent
        BY <2>2, <2>4
      <3>2. j \in 1 .. n
        BY <1>3, <3>1
      <3> QED BY <2>1, <3>1, <3>2 DEF Handled
    <2>5. /\ new.c.sending \subseteq m_blocks_sending /\ new.c.sent \subseteq m_blocks_sent
          /\ astray \subseteq new.over /\ new.out \in Seq(NodeChanges)
      BY <2>1, <2>2 DEF Handled
    <2>6. Handled(new, n + 1)
      BY <2>1, <2>3, <2>4, <2>5 DEF Handled
    <2> QED BY <2>6 DEF new
  <1> QED BY <1>5, <1>6

\* All of the queue.
LEMMA EventsAreHandled ==
  ASSUME m_unsent_map_edit_queue \in Seq(Events), NEW reach
  PROVE  Handled(HandleEvents(reach), Len(m_unsent_map_edit_queue))
  <1> DEFINE q == m_unsent_map_edit_queue
             z == [c |-> Bookkeeping, out |-> <<>>, over |-> astray]
  <1>0. Len(q) \in Nat
    OBVIOUS
  <1>1. \E f : IsHandling(f, reach, Len(q))
    BY <1>0, HandlingExists
  <1> DEFINE after == CHOOSE f : IsHandling(f, reach, Len(q))
  <1>2. IsHandling(after, reach, Len(q))
    BY <1>1
  <1>3. HandleEvents(reach) = after[Len(q)]
    BY DEF HandleEvents, IsHandling
  <1> HIDE DEF after
  <1>4. \A i \in 0 .. Len(q) :
          after[i] = IF i = 0 THEN z ELSE HandleEvent(after[i - 1], q[i], reach)
    BY <1>2 DEF IsHandling
  <1> DEFINE T == {n \in Nat : n <= Len(q) => Handled(after[n], n)}
  <1>5. 0 \in T
    <2>1. after[0] = z
      BY <1>0, <1>4
    <2>2. Handled(z, 0)
      <3>1. ToSet(z.out) = {} /\ z.out \in Seq(NodeChanges)
        BY ToSetEmpty
      <3>2. z.c.sending = m_blocks_sending /\ z.c.sent = m_blocks_sent
        BY DEF Bookkeeping
      <3>3. DOMAIN z = {"c", "out", "over"} /\ z.over = astray
        OBVIOUS
      <3>4. 1 .. 0 = {}
        OBVIOUS
      <3> HIDE DEF z
      <3> QED BY <3>1, <3>2, <3>3, <3>4 DEF Handled
    <2>3. Handled(after[0], 0)
      BY <2>1, <2>2
    <2> QED BY <2>3
  <1>6. ASSUME NEW n \in Nat, n \in T PROVE n + 1 \in T
    <2> SUFFICES ASSUME n + 1 <= Len(q) PROVE Handled(after[n + 1], n + 1)
      OBVIOUS
    <2>1. Handled(after[n], n)
      BY <1>0, <1>6
    <2>2. n + 1 \in 0 .. Len(q) /\ n + 1 # 0 /\ (n + 1) - 1 = n /\ n + 1 \in 1 .. Len(q)
      BY <1>0
    <2>3. after[n + 1] = HandleEvent(after[n], q[n + 1], reach)
      BY <1>4, <2>2
    <2> QED BY <2>1, <2>2, <2>3, HandledStep
  <1> HIDE DEF T
  <1>7. Nat \subseteq T
    BY <1>5, <1>6, SetInduction
  <1> QED BY <1>0, <1>3, <1>7 DEF T

-----------------------------------------------------------------------------
(***************************************************************************)
(* What the queues hold when something is put into them or taken out.      *)
(***************************************************************************)

\* What is in the queues is about blocks.
LEMMA QueueTypes ==
  ASSUME SendTypes
  PROVE  /\ \A m \in ToSet(chan0) : m.b \in Blocks /\ m.e \in Nat
         /\ \A p \in ToSet(up0) : p.b \in Blocks /\ p.e \in Nat
         /\ \A ev \in ToSet(m_unsent_map_edit_queue) :
              ev.b \in Blocks /\ ev.type \in {"NODE", "OTHER"}
  <1>1. ToSet(chan0) \subseteq NodeChanges /\ ToSet(up0) \subseteq Asks
    BY ToSetType DEF SendTypes
  <1>2. ToSet(m_unsent_map_edit_queue) \subseteq Events
    BY ToSetType DEF SendTypes
  <1>3. \A m \in NodeChanges \cup Asks : m.b \in Blocks /\ m.e \in Nat
    BY DEF NodeChanges, Asks
  <1>4. \A ev \in Events : ev.b \in Blocks /\ ev.type \in {"NODE", "OTHER"}
    BY DEF Events
  <1> QED BY <1>1, <1>2, <1>3, <1>4

\* The copies on channel 2 are of blocks.
LEMMA CopiesOfBlocks ==
  ASSUME SendTypes, NEW i \in DOMAIN chan2
  PROVE  chan2[i] \in Copies /\ chan2[i].b \in Blocks
  <1>1. chan2 \in Seq(Copies)
    BY DEF SendTypes
  <1>2. chan2[i] \in Copies
    BY <1>1
  <1> QED BY <1>2 DEF Copies

\* SetBlockNotSent only takes out of the books.
LEMMA BlockNotSent ==
  ASSUME NEW p, SetBlockNotSent(p)
  PROVE  m_blocks_sending' = m_blocks_sending \ {p} /\ m_blocks_sent' = m_blocks_sent \ {p}
  <1> DEFINE c == NotSent(Bookkeeping, p, FALSE)
  <1>1. c.sending = Bookkeeping.sending \ {p} /\ c.sent = Bookkeeping.sent \ {p}
    BY NotSentBooks
  <1>2. Bookkeeping.sending = m_blocks_sending /\ Bookkeeping.sent = m_blocks_sent
    BY DEF Bookkeeping
  <1>3. m_blocks_sending' = c.sending /\ m_blocks_sent' = c.sent
    BY DEF SetBlockNotSent, Become
  <1> QED BY <1>1, <1>2, <1>3

\* So do all the ways out of handleCommand_Interact.
LEMMA AnswersOnlyTakeOut ==
  ASSUME NEW p, NEW c \in RefusedBooks(p) \cup AfterDigging(p) \cup AfterPlacing(p)
  PROVE  c.sending \subseteq m_blocks_sending /\ c.sent \subseteq m_blocks_sent
  <1> DEFINE B == Bookkeeping
             Less(d) == d.sending \subseteq m_blocks_sending /\ d.sent \subseteq m_blocks_sent
  <1>1. Less(B)
    BY DEF Bookkeeping
  <1>2. ASSUME NEW d, Less(d), NEW b PROVE Less(NotSent(d, b, FALSE))
    <2> DEFINE z == NotSent(d, b, FALSE)
    <2>1. z.sending = d.sending \ {b} /\ z.sent = d.sent \ {b}
      BY NotSentBooks
    <2> HIDE DEF z
    <2>2. Less(z)
      BY <1>2, <2>1
    <2> QED BY <2>2 DEF z
  <1> HIDE DEF Less, B
  <1>3. ASSUME NEW d, Less(d), NEW b PROVE Less(NotSentIfOnWire(d, b))
    <2>1. CASE b \in d.sending
      BY <1>2, <1>3, <2>1 DEF NotSentIfOnWire
    <2>2. CASE b \notin d.sending
      BY <1>3, <2>2 DEF NotSentIfOnWire
    <2> QED BY <2>1, <2>2
  <1>4. \A b : Less(NotSent(B, b, FALSE)) /\ Less(NotSentIfOnWire(B, b))
    BY <1>1, <1>2, <1>3
  <1>5. /\ Less(NotSent(NotSent(B, p.above, FALSE), p.under, FALSE))
        /\ Less(NotSentIfOnWire(NotSentIfOnWire(B, p.above), p.under))
    BY <1>2, <1>3, <1>4
  <1>6. \A d \in AfterPlacing(p) \cup AfterDigging(p) : Less(d)
    BY <1>4, <1>5 DEF AfterPlacing, AfterDigging, B
  <1>7. \A d \in RefusedBooks(p) : Less(d)
    BY <1>1, <1>4, <1>6 DEF RefusedBooks, B
  <1> QED BY <1>6, <1>7 DEF Less

\* What an event put into the queue adds to what waits there.
LEMMA EventAdded ==
  ASSUME m_unsent_map_edit_queue \in Seq(Events), NEW x \in Events,
         m_unsent_map_edit_queue' = Append(m_unsent_map_edit_queue, x), NEW b
  PROVE  /\ m_unsent_map_edit_queue' \in Seq(Events)
         /\ ToSet(m_unsent_map_edit_queue)' = ToSet(m_unsent_map_edit_queue) \cup {x}
         /\ Noted(b)' = Noted(b) \cup (IF x.b = b /\ x.type = "NODE" THEN {x.e} ELSE {})
         /\ Doubted(b)' <=> (Doubted(b) \/ (x.b = b /\ x.type = "OTHER"))
  <1>1. ToSet(m_unsent_map_edit_queue)' = ToSet(m_unsent_map_edit_queue) \cup {x}
    BY ToSetAppend
  <1>2. m_unsent_map_edit_queue' \in Seq(Events)
    OBVIOUS
  <1>3. Noted(b)' = Noted(b) \cup (IF x.b = b /\ x.type = "NODE" THEN {x.e} ELSE {})
    BY <1>1 DEF Noted
  <1>4. Doubted(b)' <=> (Doubted(b) \/ (x.b = b /\ x.type = "OTHER"))
    BY <1>1 DEF Doubted
  <1> QED BY <1>1, <1>2, <1>3, <1>4

\* Nothing waits anew when the queue of events stays as it is,
LEMMA SameEvents ==
  ASSUME UNCHANGED m_unsent_map_edit_queue, NEW b
  PROVE  Noted(b)' = Noted(b) /\ (Doubted(b)' <=> Doubted(b))
  BY DEF Noted, Doubted

\* ... no block is dropped anew when the reports stay,
LEMMA SameReports ==
  ASSUME UNCHANGED up2, NEW b
  PROVE  Dropped(b)' <=> Dropped(b)
  BY DEF Dropped

\* ... nothing is asked anew when the requests stay,
LEMMA SameAsked ==
  ASSUME UNCHANGED up0, NEW b
  PROVE  Asked(b)' = Asked(b)
  BY DEF Asked

\* ... and no change is on its way anew when channel 0 stays.
LEMMA SameChanges ==
  ASSUME UNCHANGED chan0, NEW b
  PROVE  Changes(b)' = Changes(b)
  BY DEF Changes

\* The changes of a block that are on their way or wait are in its content.
LEMMA ChangesMade ==
  ASSUME ChangesAreMade, NEW b
  PROVE  Changes(b) \subseteq world[b] /\ Noted(b) \subseteq world[b]
  BY DEF ChangesAreMade, Changes, Noted

-----------------------------------------------------------------------------
(***************************************************************************)
(* Steps that leave the channels to the client alone.                      *)
(***************************************************************************)

\* CopiesHaveChanges is kept when neither channel changes.
LEMMA CopiesKeep ==
  ASSUME CopiesHaveChanges, UNCHANGED <<chan2, chan0, astray>>
  PROVE  CopiesHaveChanges'
  <1> SUFFICES ASSUME NEW b \in Blocks \ astray, NEW i \in DOMAIN chan2, LastOnWire(b, i)
               PROVE  Changes(b) \subseteq chan2[i].data
    BY SameChanges, SameWire DEF CopiesHaveChanges
  <1> QED BY DEF CopiesHaveChanges

\* A block still arrives when what its content gains waits and what its copy gains is asked for.
LEMMA ArrivesStays ==
  ASSUME NEW b, UNCHANGED <<chan2, chan0>>, Arrives(b), b \in known => b \in known',
         view[b] \subseteq view'[b], view'[b] \subseteq view[b] \cup Asked(b)',
         world'[b] \subseteq world[b] \cup Noted(b)', Noted(b) \subseteq Noted(b)',
         world[b] \cup Asked(b) \subseteq world'[b] \cup Asked(b)'
  PROVE  Arrives(b)'
  <1>1. /\ Changes(b)' = Changes(b)
        /\ OnWire(b)' <=> OnWire(b)
        /\ \A i : LastOnWire(b, i)' <=> LastOnWire(b, i)
    BY SameChanges, SameWire
  <1>2. ASSUME ~OnWire(b), b \in known, Fits(view[b], b) PROVE Arrives(b)'
    <2>1. Fits(view[b], b)'
      BY <1>1, <1>2 DEF Fits
    <2> QED BY <1>1, <1>2, <2>1 DEF Arrives
  <1>3. ASSUME NEW i \in DOMAIN chan2, LastOnWire(b, i), Fits(chan2[i].data, b)
        PROVE  Arrives(b)'
    <2>1. Fits(chan2[i].data, b)'
      BY <1>1, <1>3 DEF Fits
    <2>2. i \in DOMAIN chan2' /\ LastOnWire(b, i)'
      BY <1>1, <1>3
    <2> QED BY <2>1, <2>2 DEF Arrives
  <1> QED BY <1>2, <1>3 DEF Arrives

\* The books, the world, the channels and what the client holds stay.
LEMMA NothingSent ==
  ASSUME SendInv, UNCHANGED <<m_blocks_sending, m_blocks_sent, loaded, nedits, world,
                              m_unsent_map_edit_queue, netVars, known, view, astray>>
  PROVE  SendInv'
  <1>1. SendTypes'
    BY DEF SendInv, SendTypes, netVars
  <1>2. ChangesAreMade'
    BY DEF SendInv, ChangesAreMade, netVars
  <1>3. CopiesHaveChanges'
    BY CopiesKeep DEF SendInv, netVars
  <1>4. BookedArrive'
    <2> SUFFICES ASSUME NEW b \in Booked' \ astray'
                 PROVE  (Dropped(b) \/ Doubted(b) \/ Arrives(b))'
      BY DEF BookedArrive
    <2>1. UNCHANGED <<chan2, chan0, up2, up0>>
      BY DEF netVars
    <2>2. Dropped(b) \/ Doubted(b) \/ Arrives(b)
      BY DEF SendInv, BookedArrive, Booked
    <2>3. /\ Dropped(b)' <=> Dropped(b)
          /\ Doubted(b)' <=> Doubted(b)
          /\ Noted(b)' = Noted(b) /\ Asked(b)' = Asked(b)
      BY <2>1, SameReports, SameEvents, SameAsked
    <2>4. Arrives(b) => Arrives(b)'
      BY <2>1, <2>3, ArrivesStays
    <2> QED BY <2>2, <2>3, <2>4
  <1> QED BY <1>1, <1>2, <1>3, <1>4 DEF SendInv

LEMMA SendHandleBlockReport ==
  ASSUME SendInv, HandleBlockReport
  PROVE  SendInv'
  <1> DEFINE r == Head(up2)
  <1>1. /\ up2 # <<>> /\ up2' = Tail(up2)
        /\ UNCHANGED <<chan2, chan0, up0, known, view, loaded, world, nedits,
                       m_unsent_map_edit_queue, astray>>
    BY DEF HandleBlockReport, clientVars, mapVars, countVars
  <1>2. \/ /\ r.type = "GOTBLOCKS"
           /\ m_blocks_sending' = m_blocks_sending \ {r.b}
           /\ m_blocks_sent' = IF r.b \in m_blocks_sending
                               THEN m_blocks_sent \cup {r.b} ELSE m_blocks_sent
        \/ /\ r.type = "DELETEDBLOCKS"
           /\ m_blocks_sending' = m_blocks_sending \ {r.b}
           /\ m_blocks_sent' = m_blocks_sent \ {r.b}
    BY BlockNotSent DEF HandleBlockReport
  <1>3. r \in Reports /\ up2' \in Seq(Reports) /\ ToSet(up2) = {r} \cup ToSet(up2')
    BY <1>1, ToSetTail DEF SendInv, SendTypes
  <1> HIDE DEF r
  <1>4. r.b \in Blocks
    BY <1>3 DEF Reports
  <1>5. SendTypes'
    BY <1>1, <1>2, <1>3, <1>4 DEF SendInv, SendTypes
  <1>6. ChangesAreMade'
    BY <1>1 DEF SendInv, ChangesAreMade
  <1>7. CopiesHaveChanges'
    BY <1>1, CopiesKeep DEF SendInv
  <1>8. BookedArrive'
    <2> SUFFICES ASSUME NEW b \in Booked' \ astray'
                 PROVE  (Dropped(b) \/ Doubted(b) \/ Arrives(b))'
      BY DEF BookedArrive
    <2>1. b \in Booked \ astray
      BY <1>1, <1>2 DEF Booked
    <2>2. Dropped(b) \/ Doubted(b) \/ Arrives(b)
      BY <2>1 DEF SendInv, BookedArrive
    <2>3. r # [type |-> "DELETEDBLOCKS", b |-> b]
      <3>1. r.type = "DELETEDBLOCKS" => r.b # b
        BY <1>2 DEF Booked
      <3> QED BY <3>1
    <2>4. Dropped(b) => Dropped(b)'
      BY <1>3, <2>3 DEF Dropped
    <2>5. (Doubted(b)' <=> Doubted(b)) /\ Noted(b)' = Noted(b) /\ Asked(b)' = Asked(b)
      BY <1>1, SameEvents, SameAsked
    <2>6. Arrives(b) => Arrives(b)'
      BY <1>1, <2>5, ArrivesStays
    <2> QED BY <2>2, <2>4, <2>5, <2>6
  <1> QED BY <1>5, <1>6, <1>7, <1>8 DEF SendInv

LEMMA SendMapEdit ==
  ASSUME SendInv, NEW c \in Blocks, NEW type \in {"NODE", "OTHER"}, NEW low \in BOOLEAN,
         MapEdit(c, type, low)
  PROVE  SendInv'
  <1> DEFINE n == nedits + 1
             x == [type |-> type, b |-> c, e |-> n, low |-> low]
  <1>1. /\ nedits' = n /\ world' = [world EXCEPT ![c] = @ \cup {n}]
        /\ m_unsent_map_edit_queue' = Append(m_unsent_map_edit_queue, x)
        /\ UNCHANGED <<m_blocks_sending, m_blocks_sent, chan2, chan0, up2, up0, known, view,
                       loaded, astray>>
    BY DEF MapEdit, serverVars, netVars, clientVars
  <1>2. n \in Nat /\ x \in Events
    BY DEF SendInv, SendTypes, Events
  <1>3. /\ x.type = type /\ x.b = c /\ x.e = n
    OBVIOUS
  <1>4. /\ m_unsent_map_edit_queue' \in Seq(Events)
        /\ ToSet(m_unsent_map_edit_queue)' = ToSet(m_unsent_map_edit_queue) \cup {x}
        /\ \A b : /\ Noted(b)' = Noted(b) \cup (IF x.b = b /\ x.type = "NODE" THEN {x.e} ELSE {})
                  /\ Doubted(b)' <=> (Doubted(b) \/ (x.b = b /\ x.type = "OTHER"))
    BY <1>1, <1>2, EventAdded DEF SendInv, SendTypes
  <1> HIDE DEF x
  <1>5. /\ world' \in [Blocks -> SUBSET Nat] /\ world'[c] = world[c] \cup {n}
        /\ \A b \in Blocks : b # c => world'[b] = world[b]
    BY <1>1, <1>2 DEF SendInv, SendTypes
  <1> HIDE DEF n
  <1>6. SendTypes'
    BY <1>1, <1>2, <1>4, <1>5 DEF SendInv, SendTypes
  <1>7. ChangesAreMade'
    <2>1. \A b \in Blocks : world[b] \subseteq world'[b]
      BY <1>5
    <2>2. \A m \in ToSet(chan0) : m.b \in Blocks
      BY QueueTypes DEF SendInv
    <2>3. \A ev \in ToSet(m_unsent_map_edit_queue) : ev.b \in Blocks
      BY QueueTypes DEF SendInv
    <2>4. ASSUME NEW m \in ToSet(chan0') PROVE m.e \in world'[m.b]
      BY <1>1, <2>1, <2>2 DEF SendInv, ChangesAreMade
    <2>5. ASSUME NEW ev \in ToSet(m_unsent_map_edit_queue'), ev.type = "NODE"
          PROVE  ev.e \in world'[ev.b]
      <3>1. CASE ev \in ToSet(m_unsent_map_edit_queue)
        BY <2>1, <2>3, <2>5, <3>1 DEF SendInv, ChangesAreMade
      <3>2. CASE ev = x
        BY <1>3, <1>5, <3>2
      <3> QED BY <1>4, <2>5, <3>1, <3>2
    <2>6. \A i \in DOMAIN chan2 : chan2[i].data \subseteq world'[chan2[i].b]
      BY <2>1, CopiesOfBlocks DEF SendInv, ChangesAreMade
    <2> QED BY <1>1, <2>4, <2>5, <2>6 DEF ChangesAreMade
  <1>8. CopiesHaveChanges'
    BY <1>1, CopiesKeep DEF SendInv
  <1>9. BookedArrive'
    <2> SUFFICES ASSUME NEW b \in Booked' \ astray'
                 PROVE  (Dropped(b) \/ Doubted(b) \/ Arrives(b))'
      BY DEF BookedArrive
    <2>1. b \in Booked \ astray /\ b \in Blocks
      BY <1>1 DEF Booked, SendInv, SendTypes
    <2>2. Dropped(b) \/ Doubted(b) \/ Arrives(b)
      BY <2>1 DEF SendInv, BookedArrive
    <2>3. (Dropped(b)' <=> Dropped(b)) /\ Asked(b)' = Asked(b)
      BY <1>1, SameReports, SameAsked
    <2>4. CASE b = c /\ type = "OTHER"
      BY <1>3, <1>4, <2>4
    <2>5. CASE b # c \/ type = "NODE"
      <3>1. /\ world'[b] \subseteq world[b] \cup Noted(b)' /\ world[b] \subseteq world'[b]
            /\ Noted(b) \subseteq Noted(b)'
        BY <1>3, <1>4, <1>5, <2>1, <2>5
      <3>2. Arrives(b) => Arrives(b)'
        BY <1>1, <2>3, <3>1, ArrivesStays
      <3> QED BY <1>4, <2>2, <2>3, <3>2
    <2> QED BY <2>4, <2>5
  <1> QED BY <1>6, <1>7, <1>8, <1>9 DEF SendInv

LEMMA SendEmergeDone ==
  ASSUME SendInv, NEW c \in Blocks, EmergeDone(c)
  PROVE  SendInv'
  <1>1. UNCHANGED <<m_blocks_sending, m_blocks_sent, chan2, chan0, up2, up0, known, view,
                    world, nedits, astray>>
    BY DEF EmergeDone, serverVars, netVars, clientVars, countVars
  <1>2. CASE UNCHANGED <<loaded, m_unsent_map_edit_queue>>
    BY <1>1, <1>2, NothingSent DEF netVars
  <1>3. CASE ~UNCHANGED <<loaded, m_unsent_map_edit_queue>>
    <2> DEFINE x == [type |-> "OTHER", b |-> c, e |-> 0, low |-> FALSE]
    <2>1. loaded' = loaded \cup {c} /\ m_unsent_map_edit_queue' = Append(m_unsent_map_edit_queue, x)
      BY <1>3 DEF EmergeDone
    <2>2. x \in Events /\ x.type = "OTHER" /\ x.b = c
      BY DEF Events
    <2> HIDE DEF x
    <2>3. /\ m_unsent_map_edit_queue' \in Seq(Events)
          /\ ToSet(m_unsent_map_edit_queue)' = ToSet(m_unsent_map_edit_queue) \cup {x}
          /\ \A b : /\ Noted(b)' = Noted(b) \cup (IF x.b = b /\ x.type = "NODE" THEN {x.e} ELSE {})
                    /\ Doubted(b)' <=> (Doubted(b) \/ (x.b = b /\ x.type = "OTHER"))
      BY <2>1, <2>2, EventAdded DEF SendInv, SendTypes
    <2>4. SendTypes'
      BY <1>1, <2>1, <2>3 DEF SendInv, SendTypes
    <2>5. ChangesAreMade'
      BY <1>1, <2>2, <2>3 DEF SendInv, ChangesAreMade
    <2>6. CopiesHaveChanges'
      BY <1>1, CopiesKeep DEF SendInv
    <2>7. BookedArrive'
      <3> SUFFICES ASSUME NEW b \in Booked' \ astray'
                   PROVE  (Dropped(b) \/ Doubted(b) \/ Arrives(b))'
        BY DEF BookedArrive
      <3>1. b \in Booked \ astray
        BY <1>1 DEF Booked
      <3>2. Dropped(b) \/ Doubted(b) \/ Arrives(b)
        BY <3>1 DEF SendInv, BookedArrive
      <3>3. (Dropped(b)' <=> Dropped(b)) /\ Asked(b)' = Asked(b) /\ Noted(b)' = Noted(b)
        BY <1>1, <2>2, <2>3, SameReports, SameAsked
      <3>4. Arrives(b) => Arrives(b)'
        BY <1>1, <3>3, ArrivesStays
      <3> QED BY <2>3, <3>2, <3>3, <3>4
    <2> QED BY <2>4, <2>5, <2>6, <2>7 DEF SendInv
  <1> QED BY <1>2, <1>3

LEMMA SendHandleInteract ==
  ASSUME SendInv, HandleInteract
  PROVE  SendInv'
  <1> DEFINE p == Head(up0)
             x == [type |-> "NODE", b |-> p.b, e |-> p.e, low |-> FALSE]
  <1>1. /\ up0 # <<>> /\ up0' = Tail(up0)
        /\ UNCHANGED <<chan2, chan0, up2, known, view, loaded, nedits>>
    BY DEF HandleInteract, clientVars, countVars
  <1>2. p \in Asks /\ up0' \in Seq(Asks) /\ ToSet(up0) = {p} \cup ToSet(up0')
    BY <1>1, ToSetTail DEF SendInv, SendTypes
  <1>3. p.b \in Blocks /\ p.e \in Nat
    BY <1>2 DEF Asks
  <1>4. \A b : /\ Asked(b)' \subseteq Asked(b)
               /\ p.b # b => Asked(b)' = Asked(b)
               /\ p.b = b => Asked(b) = Asked(b)' \cup {p.e}
    BY <1>2 DEF Asked
  <1>5. astray \subseteq astray' => CopiesHaveChanges'
    <2> SUFFICES ASSUME astray \subseteq astray', NEW b \in Blocks \ astray',
                        NEW i \in DOMAIN chan2, LastOnWire(b, i)
                 PROVE  Changes(b) \subseteq chan2[i].data
      BY <1>1, SameChanges, SameWire DEF CopiesHaveChanges
    <2> QED BY DEF SendInv, CopiesHaveChanges
  <1>6. CASE InteractRefused(p)
    <2>1. PICK c \in RefusedBooks(p) :
            /\ Become(c)
            /\ astray' = IF p.b \in c.sending \cup c.sent /\ ~OnWire(p.b)
                         THEN astray \cup {p.b} ELSE astray
      BY <1>6 DEF InteractRefused
    <2>2. UNCHANGED <<world, m_unsent_map_edit_queue>>
      BY <1>6 DEF InteractRefused
    <2>3. m_blocks_sending' = c.sending /\ m_blocks_sent' = c.sent
      BY <2>1 DEF Become
    <2>4. m_blocks_sending' \subseteq m_blocks_sending /\ m_blocks_sent' \subseteq m_blocks_sent
      BY <2>1, <2>3, AnswersOnlyTakeOut
    <2>5. astray \subseteq astray' /\ (p.b \in Booked' \ astray' => OnWire(p.b))
      BY <2>1, <2>3 DEF Booked
    <2> HIDE DEF p
    <2>6. SendTypes'
      BY <1>1, <1>2, <2>2, <2>4 DEF SendInv, SendTypes
    <2>7. ChangesAreMade'
      BY <1>1, <2>2 DEF SendInv, ChangesAreMade
    <2>8. BookedArrive'
      <3> SUFFICES ASSUME NEW b \in Booked' \ astray'
                   PROVE  (Dropped(b) \/ Doubted(b) \/ Arrives(b))'
        BY DEF BookedArrive
      <3>1. b \in Booked \ astray
        BY <2>4, <2>5 DEF Booked
      <3>2. Dropped(b) \/ Doubted(b) \/ Arrives(b)
        BY <3>1 DEF SendInv, BookedArrive
      <3>3. /\ Dropped(b)' <=> Dropped(b)
            /\ Doubted(b)' <=> Doubted(b)
            /\ Noted(b)' = Noted(b) /\ Changes(b)' = Changes(b)
        BY <1>1, <2>2, SameReports, SameEvents, SameChanges
      <3>4. ASSUME p.b # b, Arrives(b) PROVE Arrives(b)'
        BY <1>1, <1>4, <2>2, <3>3, <3>4, ArrivesStays
      <3>5. ASSUME p.b = b, Arrives(b) PROVE Arrives(b)'
        <4>1. OnWire(b)
          BY <2>5, <3>5
        <4>2. PICK i \in DOMAIN chan2 : LastOnWire(b, i) /\ Fits(chan2[i].data, b)
          BY <3>5, <4>1 DEF Arrives
        <4>3. chan2[i].data \subseteq world[b] /\ Changes(b) \subseteq world[b]
          BY <4>2, ChangesMade DEF SendInv, ChangesAreMade, LastOnWire
        <4>4. /\ world'[b] \subseteq chan2'[i].data \cup Changes(b)' \cup Noted(b)'
              /\ chan2'[i].data \cup Changes(b)' \subseteq world'[b] \cup Asked(b)'
          BY <1>1, <2>2, <3>3, <4>2, <4>3 DEF Fits
        <4>5. i \in DOMAIN chan2' /\ LastOnWire(b, i)'
          BY <1>1, <4>2, SameWire
        <4> QED BY <4>4, <4>5 DEF Arrives, Fits
      <3> QED BY <3>2, <3>3, <3>4, <3>5
    <2> QED BY <1>5, <2>5, <2>6, <2>7, <2>8 DEF SendInv
  <1>7. CASE InteractDone(p)
    <2>0. /\ world' = [world EXCEPT ![p.b] = @ \cup {p.e}]
          /\ m_unsent_map_edit_queue' = Append(m_unsent_map_edit_queue, x)
          /\ astray' = astray
      BY <1>7 DEF InteractDone
    <2>1. m_blocks_sending' \subseteq m_blocks_sending /\ m_blocks_sent' \subseteq m_blocks_sent
      <3>1. PICK c \in AfterDigging(p) \cup AfterPlacing(p) : Become(c)
        BY <1>7 DEF InteractDone
      <3>2. m_blocks_sending' = c.sending /\ m_blocks_sent' = c.sent
        BY <3>1 DEF Become
      <3> QED BY <3>1, <3>2, AnswersOnlyTakeOut
    <2>2. x \in Events /\ x.type = "NODE" /\ x.b = p.b /\ x.e = p.e
      BY <1>3 DEF Events
    <2>3. /\ m_unsent_map_edit_queue' \in Seq(Events)
          /\ ToSet(m_unsent_map_edit_queue)' = ToSet(m_unsent_map_edit_queue) \cup {x}
          /\ \A b : /\ Noted(b)' = Noted(b) \cup (IF x.b = b /\ x.type = "NODE" THEN {x.e} ELSE {})
                    /\ Doubted(b)' <=> (Doubted(b) \/ (x.b = b /\ x.type = "OTHER"))
      BY <2>0, <2>2, EventAdded DEF SendInv, SendTypes
    <2> HIDE DEF x, p
    <2>4. /\ world' \in [Blocks -> SUBSET Nat] /\ world'[p.b] = world[p.b] \cup {p.e}
          /\ \A b \in Blocks : b # p.b => world'[b] = world[b]
      BY <1>3, <2>0 DEF SendInv, SendTypes
    <2>5. SendTypes'
      BY <1>1, <1>2, <2>1, <2>3, <2>4 DEF SendInv, SendTypes
    <2>6. ChangesAreMade'
      <3>1. \A b \in Blocks : world[b] \subseteq world'[b]
        BY <2>4
      <3>2. ASSUME NEW m \in ToSet(chan0') PROVE m.e \in world'[m.b]
        <4>1. m.b \in Blocks /\ m.e \in world[m.b]
          BY <1>1, <3>2, QueueTypes DEF SendInv, ChangesAreMade
        <4> QED BY <3>1, <4>1
      <3>3. ASSUME NEW ev \in ToSet(m_unsent_map_edit_queue'), ev.type = "NODE"
            PROVE  ev.e \in world'[ev.b]
        <4>1. CASE ev \in ToSet(m_unsent_map_edit_queue)
          <5>1. ev.b \in Blocks /\ ev.e \in world[ev.b]
            BY <3>3, <4>1, QueueTypes DEF SendInv, ChangesAreMade
          <5> QED BY <3>1, <5>1
        <4>2. CASE ev = x
          BY <2>2, <2>4, <4>2
        <4> QED BY <2>3, <3>3, <4>1, <4>2
      <3>4. \A i \in DOMAIN chan2 : chan2[i].data \subseteq world'[chan2[i].b]
        BY <3>1, CopiesOfBlocks DEF SendInv, ChangesAreMade
      <3> QED BY <1>1, <3>2, <3>3, <3>4 DEF ChangesAreMade
    <2>7. BookedArrive'
      <3> SUFFICES ASSUME NEW b \in Booked' \ astray'
                   PROVE  (Dropped(b) \/ Doubted(b) \/ Arrives(b))'
        BY DEF BookedArrive
      <3>1. b \in Booked \ astray /\ b \in Blocks
        BY <2>0, <2>1 DEF Booked, SendInv, SendTypes
      <3>2. Dropped(b) \/ Doubted(b) \/ Arrives(b)
        BY <3>1 DEF SendInv, BookedArrive
      <3>3. Dropped(b)' <=> Dropped(b)
        BY <1>1, SameReports
      <3>4. /\ world'[b] \subseteq world[b] \cup Noted(b)' /\ Noted(b) \subseteq Noted(b)'
            /\ world[b] \cup Asked(b) \subseteq world'[b] \cup Asked(b)'
        BY <1>4, <2>2, <2>3, <2>4, <3>1
      <3>5. Arrives(b) => Arrives(b)'
        BY <1>1, <3>4, ArrivesStays
      <3> QED BY <2>3, <3>2, <3>3, <3>5
    <2> QED BY <1>5, <2>0, <2>5, <2>6, <2>7 DEF SendInv
  <1> QED BY <1>6, <1>7 DEF HandleInteract

LEMMA SendAckBlock ==
  ASSUME SendInv, NEW c \in Blocks, AckBlock(c)
  PROVE  SendInv'
  <1> DEFINE r == [type |-> "GOTBLOCKS", b |-> c]
  <1>1. /\ up2' = Append(up2, r)
        /\ UNCHANGED <<m_blocks_sending, m_blocks_sent, chan2, chan0, up0, known, view, loaded,
                       world, nedits, m_unsent_map_edit_queue, astray>>
    BY DEF AckBlock, serverVars, mapVars, countVars
  <1>2. r \in Reports
    BY DEF Reports
  <1>3. up2' \in Seq(Reports) /\ ToSet(up2') = ToSet(up2) \cup {r}
    BY <1>1, <1>2, ToSetAppend DEF SendInv, SendTypes
  <1> HIDE DEF r
  <1>4. SendTypes'
    BY <1>1, <1>3 DEF SendInv, SendTypes
  <1>5. ChangesAreMade'
    BY <1>1 DEF SendInv, ChangesAreMade
  <1>6. CopiesHaveChanges'
    BY <1>1, CopiesKeep DEF SendInv
  <1>7. BookedArrive'
    <2> SUFFICES ASSUME NEW b \in Booked' \ astray'
                 PROVE  (Dropped(b) \/ Doubted(b) \/ Arrives(b))'
      BY DEF BookedArrive
    <2>1. Dropped(b) \/ Doubted(b) \/ Arrives(b)
      BY <1>1 DEF SendInv, BookedArrive, Booked
    <2>2. /\ Dropped(b) => Dropped(b)'
          /\ Doubted(b)' <=> Doubted(b)
          /\ Asked(b)' = Asked(b) /\ Noted(b)' = Noted(b)
      BY <1>1, <1>3, SameEvents, SameAsked DEF Dropped
    <2>3. Arrives(b) => Arrives(b)'
      BY <1>1, <2>2, ArrivesStays
    <2> QED BY <2>1, <2>2, <2>3
  <1> QED BY <1>4, <1>5, <1>6, <1>7 DEF SendInv

LEMMA SendDropBlock ==
  ASSUME SendInv, NEW c \in Blocks, DropBlock(c)
  PROVE  SendInv'
  <1> DEFINE r == [type |-> "DELETEDBLOCKS", b |-> c]
  <1>1. /\ up2' = Append(up2, r) /\ known' = known \ {c} /\ view' = [view EXCEPT ![c] = {}]
        /\ UNCHANGED <<m_blocks_sending, m_blocks_sent, chan2, chan0, up0, loaded,
                       world, nedits, m_unsent_map_edit_queue, astray>>
    BY DEF DropBlock, serverVars, mapVars
  <1>2. r \in Reports
    BY DEF Reports
  <1>3. up2' \in Seq(Reports) /\ ToSet(up2') = ToSet(up2) \cup {r}
    BY <1>1, <1>2, ToSetAppend DEF SendInv, SendTypes
  <1>4. view' \in [Blocks -> SUBSET Nat] /\ \A b \in Blocks : b # c => view'[b] = view[b]
    BY <1>1 DEF SendInv, SendTypes
  <1>5. SendTypes'
    BY <1>1, <1>3, <1>4 DEF SendInv, SendTypes
  <1>6. ChangesAreMade'
    BY <1>1 DEF SendInv, ChangesAreMade
  <1>7. CopiesHaveChanges'
    BY <1>1, CopiesKeep DEF SendInv
  <1>8. BookedArrive'
    <2> SUFFICES ASSUME NEW b \in Booked' \ astray'
                 PROVE  (Dropped(b) \/ Doubted(b) \/ Arrives(b))'
      BY DEF BookedArrive
    <2>1. (Dropped(b) \/ Doubted(b) \/ Arrives(b)) /\ b \in Blocks
      BY <1>1 DEF SendInv, BookedArrive, Booked, SendTypes
    <2>2. CASE b = c
      BY <1>3, <2>2 DEF Dropped
    <2>3. CASE b # c
      <3>1. /\ Dropped(b) => Dropped(b)'
            /\ Doubted(b)' <=> Doubted(b)
            /\ Asked(b)' = Asked(b) /\ Noted(b)' = Noted(b)
        BY <1>1, <1>3, SameEvents, SameAsked DEF Dropped
      <3>2. view'[b] = view[b] /\ (b \in known => b \in known')
        BY <1>1, <1>4, <2>1, <2>3
      <3>3. Arrives(b) => Arrives(b)'
        BY <1>1, <3>1, <3>2, ArrivesStays
      <3> QED BY <2>1, <3>1, <3>3
    <2> QED BY <2>2, <2>3
  <1> QED BY <1>5, <1>6, <1>7, <1>8 DEF SendInv

LEMMA SendPredict ==
  ASSUME SendInv, NEW type \in {"DIG", "PLACE"}, NEW under \in Blocks, NEW above \in Blocks,
         NEW c \in Blocks, Predict(type, under, above, c)
  PROVE  SendInv'
  <1> DEFINE n == nedits + 1
             p == [type |-> type, under |-> under, above |-> above, b |-> c, e |-> n]
  <1>1. /\ nedits' = n /\ up0' = Append(up0, p) /\ view' = [view EXCEPT ![c] = @ \cup {n}]
        /\ UNCHANGED <<m_blocks_sending, m_blocks_sent, chan2, chan0, up2, loaded, known,
                       world, m_unsent_map_edit_queue, astray>>
    BY DEF Predict, serverVars, mapVars
  <1>2. n \in Nat /\ p \in Asks /\ p.b = c /\ p.e = n
    BY DEF SendInv, SendTypes, Asks
  <1>3. up0' \in Seq(Asks) /\ ToSet(up0') = ToSet(up0) \cup {p}
    BY <1>1, <1>2, ToSetAppend DEF SendInv, SendTypes
  <1> HIDE DEF n, p
  <1>4. /\ view' \in [Blocks -> SUBSET Nat] /\ view'[c] = view[c] \cup {n}
        /\ \A b \in Blocks : b # c => view'[b] = view[b]
    BY <1>1, <1>2 DEF SendInv, SendTypes
  <1>5. SendTypes'
    BY <1>1, <1>2, <1>3, <1>4 DEF SendInv, SendTypes
  <1>6. ChangesAreMade'
    BY <1>1 DEF SendInv, ChangesAreMade
  <1>7. CopiesHaveChanges'
    BY <1>1, CopiesKeep DEF SendInv
  <1>8. BookedArrive'
    <2> SUFFICES ASSUME NEW b \in Booked' \ astray'
                 PROVE  (Dropped(b) \/ Doubted(b) \/ Arrives(b))'
      BY DEF BookedArrive
    <2>1. (Dropped(b) \/ Doubted(b) \/ Arrives(b)) /\ b \in Blocks
      BY <1>1 DEF SendInv, BookedArrive, Booked, SendTypes
    <2>2. /\ Dropped(b)' <=> Dropped(b)
          /\ Doubted(b)' <=> Doubted(b)
          /\ Noted(b)' = Noted(b)
      BY <1>1, SameEvents, SameReports
    <2>3. Asked(b) \subseteq Asked(b)' /\ (b = c => n \in Asked(b)')
      BY <1>2, <1>3 DEF Asked
    <2>4. view[b] \subseteq view'[b] /\ view'[b] \subseteq view[b] \cup Asked(b)'
      BY <1>4, <2>1, <2>3
    <2>5. Arrives(b) => Arrives(b)'
      BY <1>1, <2>2, <2>3, <2>4, ArrivesStays
    <2> QED BY <2>1, <2>2, <2>5
  <1> QED BY <1>5, <1>6, <1>7, <1>8 DEF SendInv

-----------------------------------------------------------------------------
(***************************************************************************)
(* Steps that put something on the channels to the client or take it out.  *)
(***************************************************************************)

\* Copies of blocks as they are now are sent.
LEMMA CopiesSent ==
  ASSUME SendInv, NEW new \in Seq(Copies), Added(new),
         \A k \in DOMAIN new : new[k].data = world[new[k].b],
         \A b \in Booked' \ astray' :
           b \in Booked \ astray \/ \E k \in DOMAIN new : new[k].b = b,
         \A b \in Blocks \ astray' :
           b \notin astray \/ \E k \in DOMAIN new : new[k].b = b,
         m_blocks_sending' \subseteq Blocks,
         UNCHANGED <<m_blocks_sent, chan0, up2, up0, known, view, loaded, world, nedits,
                     m_unsent_map_edit_queue>>
  PROVE  SendInv'
  <1>1. SendTypes'
    BY DEF SendInv, SendTypes, Added
  <1>2. ChangesAreMade'
    <2>1. ASSUME NEW i \in DOMAIN chan2'
          PROVE  (\E k \in DOMAIN chan2 : chan2'[i] = chan2[k])
                   \/ \E k \in DOMAIN new : chan2'[i] = new[k]
      BY <2>1, AddedOrThere DEF SendInv, SendTypes
    <2>2. \A i \in DOMAIN chan2' : chan2'[i].data \subseteq world[chan2'[i].b]
      BY <2>1 DEF SendInv, ChangesAreMade
    <2> QED BY <2>2 DEF SendInv, ChangesAreMade
  <1>3. chan2 \in Seq(Copies) /\ chan2' \in Seq(Copies)
    BY <1>1 DEF SendInv, SendTypes
  <1>4. \A b : Changes(b)' = Changes(b) /\ Changes(b) \subseteq world[b]
    BY SameChanges, ChangesMade DEF SendInv
  <1>5. CopiesHaveChanges'
    <2> SUFFICES ASSUME NEW b \in Blocks \ astray', NEW i \in DOMAIN chan2', LastOnWire(b, i)'
                 PROVE  Changes(b) \subseteq chan2'[i].data
      BY <1>4 DEF CopiesHaveChanges
    <2>1. CASE \E k \in DOMAIN new : new[k].b = b
      <3>3. PICK l \in DOMAIN new : chan2'[i] = new[l] /\ new[l].b = b
        BY <1>3, <2>1, LastIsAdded
      <3> QED BY <1>4, <3>3
    <2>2. CASE ~\E k \in DOMAIN new : new[k].b = b
      <3>1. i \in DOMAIN chan2 /\ LastOnWire(b, i) /\ chan2'[i] = chan2[i]
        BY <1>3, <2>2, OthersOnWire
      <3>2. b \in Blocks \ astray
        BY <2>2
      <3> QED BY <3>1, <3>2 DEF SendInv, CopiesHaveChanges
    <2> QED BY <2>1, <2>2
  <1>6. BookedArrive'
    <2> SUFFICES ASSUME NEW b \in Booked' \ astray'
                 PROVE  (Dropped(b) \/ Doubted(b) \/ Arrives(b))'
      BY DEF BookedArrive
    <2>1. /\ Dropped(b)' <=> Dropped(b)
          /\ Doubted(b)' <=> Doubted(b)
          /\ Noted(b)' = Noted(b) /\ Asked(b)' = Asked(b)
      BY SameEvents, SameReports, SameAsked
    <2>3. CASE \E k \in DOMAIN new : new[k].b = b
      <3>2. PICK i \in DOMAIN chan2' : LastOnWire(b, i)'
        BY <1>3, <2>3, AddedToWire
      <3>3. PICK l \in DOMAIN new : chan2'[i] = new[l] /\ new[l].b = b
        BY <1>3, <2>3, <3>2, LastIsAdded
      <3>4. chan2'[i].data = world[b]
        BY <3>3
      <3>5. /\ world'[b] \subseteq chan2'[i].data \cup Changes(b)' \cup Noted(b)'
            /\ chan2'[i].data \cup Changes(b)' \subseteq world'[b] \cup Asked(b)'
        BY <1>4, <3>4
      <3> QED BY <3>2, <3>5 DEF Arrives, Fits
    <2>4. CASE ~\E k \in DOMAIN new : new[k].b = b
      <3>1. Dropped(b) \/ Doubted(b) \/ Arrives(b)
        BY <2>4 DEF SendInv, BookedArrive
      <3>2. /\ OnWire(b)' <=> OnWire(b)
            /\ \A i \in DOMAIN chan2 : LastOnWire(b, i) =>
                 i \in DOMAIN chan2' /\ LastOnWire(b, i)' /\ chan2'[i] = chan2[i]
        BY <1>3, <2>4, OthersOnWire
      <3>3. ASSUME ~OnWire(b), b \in known, Fits(view[b], b) PROVE Arrives(b)'
        <4>1. Fits(view[b], b)'
          BY <1>4, <2>1, <3>3 DEF Fits
        <4> QED BY <3>2, <3>3, <4>1 DEF Arrives
      <3>4. ASSUME NEW i \in DOMAIN chan2, LastOnWire(b, i), Fits(chan2[i].data, b)
            PROVE  Arrives(b)'
        <4>1. i \in DOMAIN chan2' /\ LastOnWire(b, i)' /\ chan2'[i] = chan2[i]
          BY <3>2, <3>4
        <4>2. Fits(chan2[i].data, b)'
          BY <1>4, <2>1, <3>4, <4>1 DEF Fits
        <4> QED BY <4>1, <4>2 DEF Arrives
      <3> QED BY <2>1, <3>1, <3>3, <3>4 DEF Arrives
    <2> QED BY <2>3, <2>4
  <1> QED BY <1>1, <1>2, <1>5, <1>6 DEF SendInv

LEMMA SendSendBlock ==
  ASSUME SendInv, NEW c \in Blocks, SendBlock(c)
  PROVE  SendInv'
  <1> DEFINE x == [b |-> c, data |-> world[c]]
             new == <<x>>
  <1>1. /\ chan2' = Append(chan2, x)
        /\ UNCHANGED <<m_blocks_sending, m_blocks_sent, chan0, up2, up0, known, view, loaded,
                       world, nedits, m_unsent_map_edit_queue, astray>>
    BY DEF SendBlock, serverVars, clientVars, mapVars
  <1>2. x \in Copies /\ x.b = c /\ x.data = world[c]
    BY DEF SendInv, SendTypes, Copies
  <1>3. Added(new)
    <2>1. chan2 \in Seq(Copies)
      BY DEF SendInv, SendTypes
    <2> QED BY <1>1, <1>2, <2>1 DEF Added
  <1>4. new \in Seq(Copies) /\ \A k \in DOMAIN new : new[k].data = world[new[k].b]
    BY <1>2
  <1>5. m_blocks_sending' \subseteq Blocks /\ Booked' = Booked
    BY <1>1 DEF SendInv, SendTypes, Booked
  <1> HIDE DEF new
  <1> QED BY <1>1, <1>3, <1>4, <1>5, CopiesSent

\* GetNextBlocks selects blocks that are loaded.
LEMMA SelectedAreLoaded ==
  ASSUME BlockConstants
  PROVE  LET list == ScanList
             end == BreakAt(list)
         IN Within(SubSeq(list, 1, end - 1), {p \in loaded : Selects(p)}) \in Seq(loaded)
  <1> DEFINE line == [i \in 1 .. 2 * SendD + 1 |->
                        IF i % 2 = 0 THEN center + (i \div 2) ELSE center - (i \div 2)]
             near == {p \in bounds.blocks : Dist(p) \in d_start .. d_max}
             S == {p \in loaded : Selects(p)}
             list == ScanList
             end == BreakAt(list)
  <1>1. 2 * SendD + 1 \in Nat
    BY DEF BlockConstants
  <1>2. line \in Seq({line[i] : i \in 1 .. 2 * SendD + 1})
    BY <1>1
  <1>3. list \in Seq(near)
    <2> HIDE DEF line, near
    <2>1. Within(line, near) \in Seq(near)
      BY <1>2, WithinType
    <2>2. list = Within(line, near)
      BY DEF ScanList, line, near
    <2> QED BY <2>1, <2>2
  <1> HIDE DEF line, near, list
  <1>4. end \in 1 .. Len(list) + 1
    <2> DEFINE T == {i \in DOMAIN list : Enough(list, i) \/ Refused(list, i)} \cup {Len(list) + 1}
    <2>1. Len(list) \in Nat /\ DOMAIN list = 1 .. Len(list)
      BY <1>3
    <2>2. T \in SUBSET Nat /\ T # {} /\ T \subseteq 1 .. Len(list) + 1
      BY <2>1
    <2>3. end = Min(T)
      BY DEF BreakAt
    <2> HIDE DEF T
    <2>4. Min(T) \in T
      BY <2>2, MinOfNat
    <2> QED BY <2>2, <2>3, <2>4
  <1> HIDE DEF end
  <1>5. SubSeq(list, 1, end - 1) \in Seq(near)
    <2>1. end - 1 \in 0 .. Len(list) /\ Len(list) \in Nat
      BY <1>3, <1>4
    <2> QED BY <1>3, <2>1
  <1>6. Within(SubSeq(list, 1, end - 1), S) \in Seq(S)
    <2> HIDE DEF S
    <2> QED BY <1>5, WithinType
  <1>7. \A s \in Seq(S) : s \in Seq(loaded)
    OBVIOUS
  <1> HIDE DEF S
  <1>8. Within(SubSeq(list, 1, end - 1), S) \in Seq(loaded)
    BY <1>6, <1>7
  <1> QED BY <1>8 DEF list, end, S

LEMMA SendSendBlocks ==
  ASSUME SendInv, BlockConstants, SendBlocks
  PROVE  SendInv'
  <1>1. UNCHANGED <<m_blocks_sent, chan0, up2, up0, known, view, loaded, world, nedits,
                    m_unsent_map_edit_queue>>
    BY DEF SendBlocks, clientVars
  <1>2. PICK list \in {ScanList} : \E end \in {BreakAt(list)} :
          \E dest \in {Within(SubSeq(list, 1, end - 1), {p \in loaded : Selects(p)})} :
            SendSelected(dest)
    BY Zenon DEF SendBlocks
  <1>3. PICK dest \in {Within(SubSeq(list, 1, BreakAt(list) - 1), {p \in loaded : Selects(p)})} :
          SendSelected(dest)
    BY <1>2
  <1>4. dest \in Seq(loaded) /\ Len(dest) \in Nat
    BY SelectedAreLoaded
  <1>5. \E n \in 0 .. Len(dest) : SendFirst(n, dest)
    <2>1. CASE SendFirst(Len(dest), dest)
      BY <1>4, <2>1
    <2>2. CASE \E n \in 0 .. Len(dest) - 1 : SendFirst(n, dest)
      <3>1. PICK n \in 0 .. Len(dest) - 1 : SendFirst(n, dest)
        BY <2>2
      <3>2. n \in 0 .. Len(dest)
        BY <1>4
      <3> QED BY <3>1, <3>2
    <2> QED BY <1>3, <2>1, <2>2 DEF SendSelected
  <1>6. PICK n \in 0 .. Len(dest) : SendFirst(n, dest)
    BY <1>5
  <1> DEFINE new == [i \in 1 .. n |-> [b |-> dest[i], data |-> world[dest[i]]]]
             D == {dest[i] : i \in 1 .. n}
  <1>7. \A i \in 1 .. n : dest[i] \in loaded /\ dest[i] \in Blocks
    BY <1>4, <1>6 DEF SendInv, SendTypes
  <1>8. /\ DOMAIN new = 1 .. n
        /\ \A k \in 1 .. n : new[k] \in Copies /\ new[k].b = dest[k] /\ new[k].data = world[dest[k]]
    BY <1>7 DEF SendInv, SendTypes, Copies
  <1>9. new \in Seq(Copies)
    <2>1. n \in Nat
      BY <1>4
    <2>2. new \in [1 .. n -> Copies]
      BY <1>8
    <2> HIDE DEF new
    <2> QED BY <2>1, <2>2
  <1>10. Added(new) /\ m_blocks_sending' = m_blocks_sending \cup D /\ astray' = astray \ D
    BY <1>6 DEF SendFirst, Added
  <1> HIDE DEF new
  <1>11. \A b \in D : b \in Blocks /\ \E k \in DOMAIN new : new[k].b = b
    BY <1>7, <1>8
  <1> HIDE DEF D
  <1>12. \A k \in DOMAIN new : new[k].data = world[new[k].b]
    BY <1>8
  <1>13. \A b \in Booked' \ astray' :
           b \in Booked \ astray \/ \E k \in DOMAIN new : new[k].b = b
    BY <1>1, <1>10, <1>11 DEF Booked
  <1>14. \A b \in Blocks \ astray' :
           b \notin astray \/ \E k \in DOMAIN new : new[k].b = b
    BY <1>10, <1>11
  <1>15. m_blocks_sending' \subseteq Blocks
    BY <1>10, <1>11 DEF SendInv, SendTypes
  <1> QED BY <1>1, <1>9, <1>10, <1>12, <1>13, <1>14, <1>15, CopiesSent

LEMMA SendReceiveBlockData ==
  ASSUME SendInv, ReceiveBlockData
  PROVE  SendInv'
  <1> DEFINE m == Head(chan2)
  <1>1. /\ chan2 # <<>> /\ chan2' = Tail(chan2)
        /\ known' = known \cup {m.b} /\ view' = [view EXCEPT ![m.b] = m.data]
        /\ UNCHANGED <<m_blocks_sending, m_blocks_sent, chan0, up2, up0, loaded, world, nedits,
                       m_unsent_map_edit_queue, astray>>
    BY DEF ReceiveBlockData, serverVars, mapVars, countVars
  <1>2. chan2 \in Seq(Copies)
    BY DEF SendInv, SendTypes
  <1>3. m \in Copies /\ chan2' \in Seq(Copies)
    BY <1>1, <1>2, ToSetTail
  <1>4. m.b \in Blocks /\ m.data \in SUBSET Nat
    BY <1>3 DEF Copies
  <1>5. \A b : Changes(b)' = Changes(b)
    BY <1>1, SameChanges
  <1>6. \A b : ~OnWire(b) => ~OnWire(b)' /\ m.b # b
    BY <1>1, <1>2, FirstOffWire
  <1>7. ASSUME NEW b, NEW i \in DOMAIN chan2', LastOnWire(b, i)'
        PROVE  i + 1 \in DOMAIN chan2 /\ LastOnWire(b, i + 1) /\ chan2'[i] = chan2[i + 1]
    BY <1>1, <1>2, <1>7, FirstOffWire
  <1>8. ASSUME NEW b, NEW i \in DOMAIN chan2, LastOnWire(b, i)
        PROVE  \/ ~OnWire(b)' /\ m = chan2[i] /\ m.b = b
               \/ i - 1 \in DOMAIN chan2' /\ LastOnWire(b, i - 1)' /\ chan2'[i - 1] = chan2[i]
    BY <1>1, <1>2, <1>8, FirstOffWire
  <1> HIDE DEF m
  <1>9. /\ view' \in [Blocks -> SUBSET Nat] /\ view'[m.b] = m.data
        /\ \A b \in Blocks : b # m.b => view'[b] = view[b]
    BY <1>1, <1>4 DEF SendInv, SendTypes
  <1>10. SendTypes'
    BY <1>1, <1>3, <1>4, <1>9 DEF SendInv, SendTypes
  <1>11. ChangesAreMade'
    <2>1. \A i \in DOMAIN chan2' : i + 1 \in DOMAIN chan2 /\ chan2'[i] = chan2[i + 1]
      BY <1>1, <1>2
    <2> QED BY <1>1, <2>1 DEF SendInv, ChangesAreMade
  <1>12. CopiesHaveChanges'
    <2> SUFFICES ASSUME NEW b \in Blocks \ astray, NEW i \in DOMAIN chan2', LastOnWire(b, i)'
                 PROVE  Changes(b) \subseteq chan2'[i].data
      BY <1>1, <1>5 DEF CopiesHaveChanges
    <2>1. i + 1 \in DOMAIN chan2 /\ LastOnWire(b, i + 1) /\ chan2'[i] = chan2[i + 1]
      BY <1>7
    <2> QED BY <2>1 DEF SendInv, CopiesHaveChanges
  <1>13. BookedArrive'
    <2> SUFFICES ASSUME NEW b \in Booked' \ astray'
                 PROVE  (Dropped(b) \/ Doubted(b) \/ Arrives(b))'
      BY DEF BookedArrive
    <2>1. (Dropped(b) \/ Doubted(b) \/ Arrives(b)) /\ b \in Blocks
      BY <1>1 DEF SendInv, BookedArrive, Booked, SendTypes
    <2>2. /\ Dropped(b)' <=> Dropped(b)
          /\ Doubted(b)' <=> Doubted(b)
          /\ Noted(b)' = Noted(b) /\ Asked(b)' = Asked(b)
      BY <1>1, SameEvents, SameReports, SameAsked
    <2>3. ASSUME ~OnWire(b), b \in known, Fits(view[b], b) PROVE Arrives(b)'
      <3>1. ~OnWire(b)' /\ m.b # b
        BY <1>6, <2>3
      <3>2. view'[b] = view[b] /\ b \in known'
        BY <1>1, <1>9, <2>1, <2>3, <3>1
      <3>3. /\ world'[b] \subseteq view'[b] \cup Changes(b)' \cup Noted(b)'
            /\ view'[b] \cup Changes(b)' \subseteq world'[b] \cup Asked(b)'
        BY <1>1, <1>5, <2>2, <2>3, <3>2 DEF Fits
      <3> QED BY <3>1, <3>2, <3>3 DEF Arrives, Fits
    <2>4. ASSUME NEW i \in DOMAIN chan2, LastOnWire(b, i), Fits(chan2[i].data, b)
          PROVE  Arrives(b)'
      <3>1. CASE ~OnWire(b)' /\ m = chan2[i] /\ m.b = b
        <4>1. view'[b] = chan2[i].data /\ b \in known'
          BY <1>1, <1>9, <3>1
        <4>2. /\ world'[b] \subseteq view'[b] \cup Changes(b)' \cup Noted(b)'
              /\ view'[b] \cup Changes(b)' \subseteq world'[b] \cup Asked(b)'
          BY <1>1, <1>5, <2>2, <2>4, <4>1 DEF Fits
        <4> QED BY <3>1, <4>1, <4>2 DEF Arrives, Fits
      <3>2. CASE i - 1 \in DOMAIN chan2' /\ LastOnWire(b, i - 1)' /\ chan2'[i - 1] = chan2[i]
        <4>1. PICK j \in DOMAIN chan2' : LastOnWire(b, j)' /\ chan2'[j] = chan2[i]
          BY <3>2
        <4>2. /\ world'[b] \subseteq chan2'[j].data \cup Changes(b)' \cup Noted(b)'
              /\ chan2'[j].data \cup Changes(b)' \subseteq world'[b] \cup Asked(b)'
          BY <1>1, <1>5, <2>2, <2>4, <4>1 DEF Fits
        <4> QED BY <4>1, <4>2 DEF Arrives, Fits
      <3> QED BY <1>8, <2>4, <3>1, <3>2
    <2> QED BY <2>1, <2>2, <2>3, <2>4 DEF Arrives
  <1> QED BY <1>10, <1>11, <1>12, <1>13 DEF SendInv

LEMMA SendReceiveNodeChange ==
  ASSUME SendInv, ReceiveNodeChange
  PROVE  SendInv'
  <1> DEFINE m == Head(chan0)
  <1>1. /\ chan0 # <<>> /\ chan0' = Tail(chan0)
        /\ view' = IF m.b \in known THEN [view EXCEPT ![m.b] = @ \cup {m.e}] ELSE view
        /\ UNCHANGED <<m_blocks_sending, m_blocks_sent, chan2, up2, up0, loaded, known, world,
                       nedits, m_unsent_map_edit_queue, astray>>
    BY DEF ReceiveNodeChange, serverVars, mapVars, countVars
  <1>2. m \in NodeChanges /\ chan0' \in Seq(NodeChanges) /\ ToSet(chan0) = {m} \cup ToSet(chan0')
    BY <1>1, ToSetTail DEF SendInv, SendTypes
  <1> HIDE DEF m
  <1>3. m.b \in Blocks /\ m.e \in Nat
    BY <1>2 DEF NodeChanges
  <1>4. \A b : /\ Changes(b)' \subseteq Changes(b)
               /\ m.b # b => Changes(b)' = Changes(b)
               /\ m.b = b => Changes(b) = Changes(b)' \cup {m.e}
    BY <1>2 DEF Changes
  <1>5. \A b \in Blocks : /\ b \in known => view'[b] \cup Changes(b)' = view[b] \cup Changes(b)
                          /\ view'[b] \in SUBSET Nat
    <2> TAKE b \in Blocks
    <2>1. CASE b = m.b /\ b \in known
      <3>1. view'[b] = view[b] \cup {m.e} /\ view[b] \in SUBSET Nat
        BY <1>1, <1>3, <2>1 DEF SendInv, SendTypes
      <3> QED BY <1>3, <1>4, <2>1, <3>1
    <2>2. CASE b = m.b /\ b \notin known
      BY <1>1, <2>2 DEF SendInv, SendTypes
    <2>3. CASE b # m.b
      <3>1. view'[b] = view[b] /\ view[b] \in SUBSET Nat
        BY <1>1, <2>3 DEF SendInv, SendTypes
      <3> QED BY <1>4, <2>3, <3>1
    <2> QED BY <2>1, <2>2, <2>3
  <1>6. view' \in [Blocks -> SUBSET Nat]
    <2>1. view' = [b \in Blocks |-> view'[b]]
      BY <1>1 DEF SendInv, SendTypes
    <2> QED BY <1>5, <2>1
  <1>7. SendTypes'
    BY <1>1, <1>2, <1>6 DEF SendInv, SendTypes
  <1>8. ChangesAreMade'
    BY <1>1, <1>2 DEF SendInv, ChangesAreMade
  <1>9. \A b : (OnWire(b)' <=> OnWire(b)) /\ \A i : LastOnWire(b, i)' <=> LastOnWire(b, i)
    BY <1>1, SameWire
  <1>10. CopiesHaveChanges'
    <2> SUFFICES ASSUME NEW b \in Blocks \ astray, NEW i \in DOMAIN chan2, LastOnWire(b, i)
                 PROVE  Changes(b)' \subseteq chan2[i].data
      BY <1>1, <1>9 DEF CopiesHaveChanges
    <2>1. Changes(b) \subseteq chan2[i].data
      BY DEF SendInv, CopiesHaveChanges
    <2> QED BY <1>4, <2>1
  <1>11. BookedArrive'
    <2> SUFFICES ASSUME NEW b \in Booked' \ astray'
                 PROVE  (Dropped(b) \/ Doubted(b) \/ Arrives(b))'
      BY DEF BookedArrive
    <2>1. (Dropped(b) \/ Doubted(b) \/ Arrives(b)) /\ b \in Blocks \ astray
      BY <1>1 DEF SendInv, BookedArrive, Booked, SendTypes
    <2>2. /\ Dropped(b)' <=> Dropped(b)
          /\ Doubted(b)' <=> Doubted(b)
          /\ Noted(b)' = Noted(b) /\ Asked(b)' = Asked(b)
      BY <1>1, SameEvents, SameReports, SameAsked
    <2>3. ASSUME ~OnWire(b), b \in known, Fits(view[b], b) PROVE Arrives(b)'
      <3>1. view'[b] \cup Changes(b)' = view[b] \cup Changes(b)
        BY <1>5, <2>1, <2>3
      <3>2. /\ world'[b] \subseteq view'[b] \cup Changes(b)' \cup Noted(b)'
            /\ view'[b] \cup Changes(b)' \subseteq world'[b] \cup Asked(b)'
        BY <1>1, <2>2, <2>3, <3>1 DEF Fits
      <3> QED BY <1>1, <1>9, <2>3, <3>2 DEF Arrives, Fits
    <2>4. ASSUME NEW i \in DOMAIN chan2, LastOnWire(b, i), Fits(chan2[i].data, b)
          PROVE  Arrives(b)'
      <3>1. Changes(b) \subseteq chan2[i].data
        BY <2>1, <2>4 DEF SendInv, CopiesHaveChanges
      <3>2. /\ world'[b] \subseteq chan2'[i].data \cup Changes(b)' \cup Noted(b)'
            /\ chan2'[i].data \cup Changes(b)' \subseteq world'[b] \cup Asked(b)'
        BY <1>1, <1>4, <2>2, <2>4, <3>1 DEF Fits
      <3>3. i \in DOMAIN chan2' /\ LastOnWire(b, i)'
        BY <1>1, <1>9, <2>4
      <3> QED BY <3>2, <3>3 DEF Arrives, Fits
    <2> QED BY <2>1, <2>2, <2>3, <2>4 DEF Arrives
  <1> QED BY <1>7, <1>8, <1>10, <1>11 DEF SendInv

LEMMA SendSendMapEdits ==
  ASSUME SendInv, SendMapEdits
  PROVE  SendInv'
  <1> DEFINE q == m_unsent_map_edit_queue
  <1>1. PICK reach : \E acc \in {HandleEvents(reach)} :
          Become(acc.c) /\ chan0' = chan0 \o acc.out /\ astray' = acc.over
    BY DEF SendMapEdits
  <1>2. PICK acc \in {HandleEvents(reach)} :
          Become(acc.c) /\ chan0' = chan0 \o acc.out /\ astray' = acc.over
    BY <1>1
  <1>3. m_blocks_sending' = acc.c.sending /\ m_blocks_sent' = acc.c.sent
    BY <1>2 DEF Become
  <1>4. /\ m_unsent_map_edit_queue' = <<>>
        /\ UNCHANGED <<chan2, up2, up0, loaded, known, view, world, nedits>>
    BY DEF SendMapEdits, clientVars, countVars
  <1>5. q \in Seq(Events) /\ DOMAIN q = 1 .. Len(q)
    BY DEF SendInv, SendTypes
  <1>6. Handled(acc, Len(q))
    BY <1>2, <1>5, EventsAreHandled
  <1>7. /\ acc.out \in Seq(NodeChanges)
        /\ m_blocks_sending' \subseteq m_blocks_sending /\ m_blocks_sent' \subseteq m_blocks_sent
        /\ astray \subseteq astray'
    BY <1>2, <1>3, <1>6 DEF Handled
  <1>8. \A m \in ToSet(acc.out) :
          /\ \E ev \in ToSet(q) : ev.type = "NODE" /\ ev.b = m.b /\ ev.e = m.e
          /\ OnWire(m.b) => m.b \in astray'
    BY <1>2, <1>5, <1>6 DEF Handled, ToSet
  <1>9. \A ev \in ToSet(q) : ev.b \in Booked' =>
          ev.type = "NODE" /\ [b |-> ev.b, e |-> ev.e] \in ToSet(acc.out)
    BY <1>3, <1>5, <1>6 DEF Handled, ToSet, Booked
  <1>10. chan0' \in Seq(NodeChanges) /\ ToSet(chan0') = ToSet(chan0) \cup ToSet(acc.out)
    BY <1>2, <1>7, ToSetConcat DEF SendInv, SendTypes
  <1>11. SendTypes'
    BY <1>4, <1>7, <1>10 DEF SendInv, SendTypes
  <1>12. ToSet(m_unsent_map_edit_queue') = {}
    BY <1>4, ToSetEmpty
  <1> HIDE DEF q
  <1>13. ChangesAreMade'
    <2>1. \A m \in ToSet(chan0) : m.e \in world[m.b]
      BY DEF SendInv, ChangesAreMade
    <2>2. \A m \in ToSet(acc.out) : m.e \in world[m.b]
      BY <1>8 DEF SendInv, ChangesAreMade, q
    <2>3. \A i \in DOMAIN chan2 : chan2[i].data \subseteq world[chan2[i].b]
      BY DEF SendInv, ChangesAreMade
    <2> QED BY <1>4, <1>10, <1>12, <2>1, <2>2, <2>3 DEF ChangesAreMade
  <1>14. \A b : (OnWire(b)' <=> OnWire(b)) /\ \A i : LastOnWire(b, i)' <=> LastOnWire(b, i)
    BY <1>4, SameWire
  <1>15. CopiesHaveChanges'
    <2> SUFFICES ASSUME NEW b \in Blocks \ astray', NEW i \in DOMAIN chan2, LastOnWire(b, i)
                 PROVE  Changes(b)' \subseteq chan2[i].data
      BY <1>4, <1>14 DEF CopiesHaveChanges
    <2>1. OnWire(b)
      BY DEF LastOnWire, OnWire
    <2>2. \A m \in ToSet(acc.out) : m.b # b
      BY <1>8, <2>1
    <2>3. Changes(b)' = Changes(b)
      BY <1>10, <2>2 DEF Changes
    <2>4. Changes(b) \subseteq chan2[i].data
      BY <1>7 DEF SendInv, CopiesHaveChanges
    <2> QED BY <2>3, <2>4
  <1>16. BookedArrive'
    <2> SUFFICES ASSUME NEW b \in Booked' \ astray'
                 PROVE  (Dropped(b) \/ Doubted(b) \/ Arrives(b))'
      BY DEF BookedArrive
    <2>1. b \in Booked \ astray
      BY <1>7 DEF Booked
    <2>2. Dropped(b) \/ Doubted(b) \/ Arrives(b)
      BY <2>1 DEF SendInv, BookedArrive
    <2>3. ~Doubted(b)
      BY <1>9 DEF Doubted, q
    <2>4. (Dropped(b)' <=> Dropped(b)) /\ Asked(b)' = Asked(b)
      BY <1>4, SameReports, SameAsked
    <2>5. Changes(b)' = Changes(b) \cup Noted(b)
      <3>1. ASSUME NEW m \in ToSet(acc.out), m.b = b PROVE m.e \in Noted(b)
        BY <1>8, <3>1 DEF Noted, q
      <3>2. ASSUME NEW ev \in ToSet(q), ev.b = b PROVE ev.e \in Changes(b)'
        <4>1. [b |-> ev.b, e |-> ev.e] \in ToSet(chan0')
          BY <1>9, <1>10, <3>2
        <4> QED BY <3>2, <4>1 DEF Changes
      <3>3. Noted(b) \subseteq Changes(b)'
        BY <3>2 DEF Noted, q
      <3>4. Changes(b) \subseteq Changes(b)'
        BY <1>10 DEF Changes
      <3>5. Changes(b)' \subseteq Changes(b) \cup Noted(b)
        BY <1>10, <3>1 DEF Changes
      <3> QED BY <3>3, <3>4, <3>5
    <2>6. Noted(b) \subseteq world[b]
      BY ChangesMade DEF SendInv
    <2>7. \A content : Fits(content, b) =>
            /\ world[b] \subseteq content \cup Changes(b)'
            /\ content \cup Changes(b)' \subseteq world[b] \cup Asked(b)
      BY <2>5, <2>6 DEF Fits
    <2>8. Arrives(b) => Arrives(b)'
      <3>1. ASSUME ~OnWire(b), b \in known, Fits(view[b], b) PROVE Arrives(b)'
        <4>1. /\ world'[b] \subseteq view'[b] \cup Changes(b)' \cup Noted(b)'
              /\ view'[b] \cup Changes(b)' \subseteq world'[b] \cup Asked(b)'
          BY <1>4, <2>4, <2>7, <3>1
        <4> QED BY <1>4, <1>14, <3>1, <4>1 DEF Arrives, Fits
      <3>2. ASSUME NEW i \in DOMAIN chan2, LastOnWire(b, i), Fits(chan2[i].data, b)
            PROVE  Arrives(b)'
        <4>1. /\ world'[b] \subseteq chan2'[i].data \cup Changes(b)' \cup Noted(b)'
              /\ chan2'[i].data \cup Changes(b)' \subseteq world'[b] \cup Asked(b)'
          BY <1>4, <2>4, <2>7, <3>2
        <4>2. i \in DOMAIN chan2' /\ LastOnWire(b, i)'
          BY <1>4, <1>14, <3>2
        <4> QED BY <4>1, <4>2 DEF Arrives, Fits
      <3> QED BY <3>1, <3>2 DEF Arrives
    <2> QED BY <2>2, <2>3, <2>4, <2>8
  <1> QED BY <1>11, <1>13, <1>15, <1>16 DEF SendInv

LEMMA SendStart == SendingInit => SendInv
  <1> SUFFICES ASSUME SendingInit PROVE SendInv
    OBVIOUS
  <1>1. /\ m_blocks_sending = {} /\ m_blocks_sent = {} /\ loaded = {} /\ known = {} /\ nedits = 0
        /\ world = [b \in Blocks |-> {}] /\ view = [b \in Blocks |-> {}]
        /\ chan2 = <<>> /\ chan0 = <<>> /\ up2 = <<>> /\ up0 = <<>>
        /\ m_unsent_map_edit_queue = <<>>
    BY DEF SendingInit
  <1>2. SendTypes
    BY <1>1 DEF SendTypes
  <1>3. ChangesAreMade
    BY <1>1, ToSetEmpty DEF ChangesAreMade
  <1>4. CopiesHaveChanges
    BY <1>1 DEF CopiesHaveChanges
  <1>5. BookedArrive
    BY <1>1 DEF BookedArrive, Booked
  <1> QED BY <1>2, <1>3, <1>4, <1>5 DEF SendInv

LEMMA SendNext ==
  ASSUME BlockConstants, SendInv, [SendingNext]_sendingVars
  PROVE  SendInv'
  <1>1. CASE SendBlocks
    BY <1>1, SendSendBlocks
  <1>2. CASE PauseOver
    BY <1>2, NothingSent DEF PauseOver, netVars, clientVars, mapVars, countVars
  <1>3. CASE ScanRestart
    BY <1>3, NothingSent DEF ScanRestart, netVars, clientVars, mapVars
  <1>4. CASE SendMapEdits
    BY <1>4, SendSendMapEdits
  <1>5. CASE HandleBlockReport
    BY <1>5, SendHandleBlockReport
  <1>6. CASE HandleInteract
    BY <1>6, SendHandleInteract
  <1>7. CASE ReceiveBlockData
    BY <1>7, SendReceiveBlockData
  <1>8. CASE ReceiveNodeChange
    BY <1>8, SendReceiveNodeChange
  <1>9. ASSUME NEW b \in Blocks, SendBlock(b) PROVE SendInv'
    BY <1>9, SendSendBlock
  <1>10. ASSUME NEW b \in Blocks, EmergeDone(b) PROVE SendInv'
    BY <1>10, SendEmergeDone
  <1>11. ASSUME NEW b \in Blocks, AckBlock(b) PROVE SendInv'
    BY <1>11, SendAckBlock
  <1>12. ASSUME NEW b \in Blocks, DropBlock(b) PROVE SendInv'
    BY <1>12, SendDropBlock
  <1>13. ASSUME NEW b \in Blocks, NEW under \in Blocks, NEW above \in Blocks,
                NEW type \in {"DIG", "PLACE"}, Predict(type, under, above, b)
         PROVE  SendInv'
    BY <1>13, SendPredict
  <1>14. ASSUME NEW b \in Blocks, NEW type \in {"NODE", "OTHER"}, NEW low \in BOOLEAN,
                MapEdit(b, type, low)
         PROVE  SendInv'
    BY <1>14, SendMapEdit
  <1>15. ASSUME NEW c \in Places, Move(c) PROVE SendInv'
    BY <1>15, NothingSent DEF Move, serverVars, netVars, clientVars, mapVars
  <1>16. CASE UNCHANGED sendingVars
    BY <1>16, NothingSent
       DEF sendingVars, serverVars, netVars, clientVars, mapVars, countVars
  <1> QED BY <1>1, <1>2, <1>3, <1>4, <1>5, <1>6, <1>7, <1>8, <1>9, <1>10, <1>11, <1>12, <1>13,
             <1>14, <1>15, <1>16 DEF SendingNext

\* The queues, the books and the contents have their types, and what is booked is on
\* its way, dropped or doubted, after any sequence of what server, client and mods do.
THEOREM SendInvariant ==
  ASSUME BlockConstants
  PROVE  SendingSpec => []SendInv
  <1>1. SendInv /\ [SendingNext]_sendingVars => SendInv'
    BY SendNext
  <1> QED BY <1>1, SendStart, PTL DEF SendingSpec

\* When no change of the block waits and none is asked for, what arrives is the newest.
LEMMA BookedIsNewest ==
  ASSUME SendInv
  PROVE  NewestUnlessAstray
  <1> SUFFICES ASSUME NEW b \in Booked \ astray, ~Pending(b) PROVE NewestArrives(b)
    BY DEF NewestUnlessAstray
  <1>1. ~Dropped(b) /\ ~Doubted(b)
    BY DEF Pending, Dropped, Doubted
  <1>2. Arrives(b)
    BY <1>1 DEF SendInv, BookedArrive
  <1>3. Noted(b) = {} /\ Asked(b) = {}
    BY DEF Pending, Noted, Asked
  <1>4. \A content : Fits(content, b) => content \cup Changes(b) = world[b]
    BY <1>3 DEF Fits
  <1> QED BY <1>2, <1>4 DEF Arrives, NewestArrives

\* GetNextBlocks, GotBlock, SetBlockNotSent and the far players of sendNodeChangePkt,
\* for any blocks, positions, limits and scenarios: a block that the server counts as
\* sent or on its way comes to the client as it is on the server, unless a node change
\* overtook it, or it stays booked with a prediction that was refused, or something is
\* under way that makes the server reconsider.
THEOREM SendNewest ==
  ASSUME BlockConstants
  PROVE  SendingSpec => []NewestUnlessAstray
  <1>1. SendInv => NewestUnlessAstray
    BY BookedIsNewest
  <1> QED BY <1>1, SendInvariant, PTL
=============================================================================
