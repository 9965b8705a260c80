--------------------------- MODULE PlayerSession ----------------------------
(***************************************************************************)
(* How a client becomes a player and stops being one: the client states of *)
(* clientiface.h, the handlers of serverpackethandler.cpp that take a      *)
(* client through them, and the players of the ServerEnvironment, which    *)
(* are made when a client is ready and outlive it until their object is    *)
(* removed.                                                                *)
(*                                                                         *)
(* Packets are handled one at a time under the environment lock, so every  *)
(* handler is one action; what the packets say is chosen freely.  A peer   *)
(* id stands for one connection.  The setting default_password is empty,   *)
(* as it is unless an admin sets it.                                       *)
(***************************************************************************)
EXTENDS Naturals, FiniteSets, Sequences, SequencesExt

CONSTANTS
  Peers, Names,
  Admins,        \* names that checkUserLimit() lets in always
  None,          \* PEER_ID_INEXISTENT; no password
  Settings       \* what to look at: sets of [max_users, names, changes], the
                 \* user limit, the names that clients give and the bound of
                 \* the model on changes to players' data

States == {"Disconnecting", "Denied", "Created", "HelloSent", "AwaitingInit2",
           "InitDone", "DefinitionsSent", "Active", "SudoMode"}

VARIABLES
  setting,       \* one of Settings
  con,           \* peer -> "no", "up", "gone" (removal not yet reported), "deleted"
  m_clients,     \* peer -> [state, name, chosen, allowed]; None: no RemoteClient
  m_players,     \* sequence of [name, peer, data, modified]
  password,      \* name -> who set the password that is in the auth database
  database,      \* name -> the player data saved last
  changes,       \* how often player data was changed
  latest,        \* name -> the newest data a player of that name had
  overtaken      \* names of which a player joined before the last was removed

conVars == <<setting, con>>
saveVars == <<database, changes, latest>>
playerVars == <<m_players, overtaken, saveVars>>
vars == <<conVars, m_clients, playerVars, password>>

Init ==
  /\ setting \in Settings
  /\ con = [p \in Peers |-> "no"]
  /\ m_clients = [p \in Peers |-> None]
  /\ m_players = <<>>
  /\ password = [n \in Names |-> None]
  /\ database = [n \in Names |-> 0]
  /\ changes = 0 /\ latest = [n \in Names |-> 0]
  /\ overtaken = {}

-----------------------------------------------------------------------------
HasClient(p) == m_clients[p] # None
StateIn(p, states) == HasClient(p) /\ m_clients[p].state \in states
ActiveClients == {p \in Peers : StateIn(p, {"Active", "SudoMode"})}

Connected(i) == m_players[i].peer # None
PlayersOf(n) == {i \in DOMAIN m_players : m_players[i].name = n}

\* ServerEnvironment::getPlayer by name: the first one of that name counts,
\* and when it has left already there is none.
FirstOf(n) == {i \in PlayersOf(n) : \A j \in PlayersOf(n) : i <= j}
GetPlayer(n) == {i \in FirstOf(n) : Connected(i)}
\* ... and by peer.
PlayerOfPeer(p) == {i \in DOMAIN m_players : m_players[i].peer = p}

\* Server::checkUserLimit
LimitReached(n) == Cardinality(ActiveClients) >= setting.max_users /\ n \notin Admins

\* RemoteClient::notifyEvent: the state an event leads to, from where it is
\* expected.  In Denied and Disconnecting every event is ignored; anywhere else
\* an unexpected one throws ClientStateError.
Transition(state, event) ==
  IF state \in {"Denied", "Disconnecting"} THEN state ELSE
  CASE event = "SetDenied" -> "Denied"
    [] event = "Disconnect" -> "Disconnecting"
    [] state = "Created" /\ event = "Hello" -> "HelloSent"
    [] state = "HelloSent" /\ event = "AuthAccept" -> "AwaitingInit2"
    [] state = "AwaitingInit2" /\ event = "GotInit2" -> "InitDone"
    [] state = "InitDone" /\ event = "SetDefinitionsSent" -> "DefinitionsSent"
    [] state = "DefinitionsSent" /\ event = "SetClientReady" -> "Active"
    [] state = "Active" /\ event = "SudoSuccess" -> "SudoMode"
    [] state = "SudoMode" /\ event = "SudoLeave" -> "Active"
    [] OTHER -> "ClientStateError"

\* ... with resetChosenMech.
Notify(client, event) ==
  [client EXCEPT
     !.state = Transition(@, event),
     !.chosen = IF \/ event \in {"AuthAccept", "SudoSuccess"}
                   \/ client.state = "HelloSent" /\ event = "SetDenied"
                THEN None ELSE @]

Becomes(p, client) == m_clients' = [m_clients EXCEPT ![p] = client]
\* Server::DenyAccess; the peer is gone some time later.
DenyAccess(p) == Becomes(p, Notify(m_clients[p], "SetDenied"))

-----------------------------------------------------------------------------
\* PEER_ADDED: Server::peerAdded, ClientInterface::CreateClient.
PeerAdded(p) ==
  /\ con[p] = "no"
  /\ con' = [con EXCEPT ![p] = "up"]
  /\ Becomes(p, [state |-> "Created", name |-> None, chosen |-> None,
                 allowed |-> {}])
  /\ UNCHANGED <<setting, playerVars, password>>

\* The peer leaves, times out or was disconnected; the event is on its way.
PeerGone(p) ==
  /\ con[p] = "up"
  /\ con' = [con EXCEPT ![p] = "gone"]
  /\ UNCHANGED <<setting, m_clients, playerVars, password>>

\* Seeded fault: the player is not told that its peer is gone.
DeletingPeerForgetful(p) ==
  /\ con[p] = "gone"
  /\ con' = [con EXCEPT ![p] = "deleted"]
  /\ Becomes(p, None)
  /\ UNCHANGED <<setting, playerVars, password>>

\* PEER_REMOVED: Server::deletingPeer and DeleteClient.  The player stays,
\* without a peer (PlayerSAO::disconnected), until its object is removed.
DeletingPeer(p) ==
  /\ con[p] = "gone"
  /\ con' = [con EXCEPT ![p] = "deleted"]
  /\ Becomes(p, None)
  /\ m_players' = [i \in DOMAIN m_players |->
       IF i \in PlayerOfPeer(p) THEN [m_players[i] EXCEPT !.peer = None]
       ELSE m_players[i]]
  /\ UNCHANGED <<setting, overtaken, saveVars, password>>

\* TOSERVER_INIT.  acceptable: the versions, the name, the address and the mods
\* (on_prejoinplayer) allow it.
HandleInit(p, n, acceptable) ==
  /\ StateIn(p, {"Created"}) /\ con[p] = "up"
  /\ IF ~acceptable \/ GetPlayer(n) # {} \/ LimitReached(n)
     THEN DenyAccess(p)
     ELSE Becomes(p, Notify([m_clients[p] EXCEPT
            !.name = n, !.chosen = None,
            !.allowed = {IF password[n] # None THEN "SRP" ELSE "FIRST_SRP"}],
            "Hello"))
  /\ UNCHANGED <<conVars, playerVars, password>>

\* Seeded fault: nobody looks whether the name was registered meanwhile.
HandleFirstSrpUnchecked(p, usable) ==
  /\ StateIn(p, {"HelloSent", "SudoMode"})
  /\ LET client == m_clients[p]
         accepted == [client EXCEPT !.allowed = {"SRP"}]
     IN IF client.state = "SudoMode"
        THEN /\ Becomes(p, Notify(IF usable THEN accepted ELSE client, "SudoLeave"))
             /\ password' = IF usable THEN [password EXCEPT ![client.name] = p]
                            ELSE password
        ELSE IF "FIRST_SRP" \notin client.allowed \/ ~usable
        THEN DenyAccess(p) /\ UNCHANGED password
        ELSE /\ password' = [password EXCEPT ![client.name] = p]
             /\ Becomes(p, Notify(accepted, "AuthAccept"))
  /\ UNCHANGED <<conVars, playerVars>>

\* TOSERVER_FIRST_SRP: a new name is registered, or the password changed.
\* usable: not an empty password where those are disallowed, and saved.
HandleFirstSrp(p, usable) ==
  /\ StateIn(p, {"HelloSent", "SudoMode"})
  /\ LET client == m_clients[p]
         accepted == [client EXCEPT !.allowed = {"SRP"}]
     IN IF client.state = "SudoMode"
        THEN /\ Becomes(p, Notify(IF usable THEN accepted ELSE client, "SudoLeave"))
             /\ password' = IF usable THEN [password EXCEPT ![client.name] = p]
                            ELSE password
        ELSE IF \/ "FIRST_SRP" \notin client.allowed \/ ~usable
                \/ password[client.name] # None   \* somebody was faster
        THEN DenyAccess(p) /\ UNCHANGED password
        ELSE /\ password' = [password EXCEPT ![client.name] = p]
             /\ Becomes(p, Notify(accepted, "AuthAccept"))
  /\ UNCHANGED <<conVars, playerVars>>

\* TOSERVER_SRP_BYTES_A: to log in, or for sudo mode.  safe: the SRP library
\* takes the bytes.
HandleSrpBytesA(p, safe) ==
  /\ StateIn(p, {"HelloSent", "Active"})
  /\ LET client == m_clients[p]
         fit == client.chosen = None /\ "SRP" \in client.allowed
     IN CASE fit /\ safe -> Becomes(p, [client EXCEPT !.chosen = "SRP"])
          [] ~(fit /\ safe) /\ client.state = "Active" -> UNCHANGED m_clients
          [] OTHER -> DenyAccess(p)
  /\ UNCHANGED <<conVars, playerVars, password>>

\* TOSERVER_SRP_BYTES_M; proof: "right", "wrong", or of the wrong length.
HandleSrpBytesM(p, proof) ==
  /\ StateIn(p, {"HelloSent", "Active"})
  /\ LET client == m_clients[p]
         wantSudo == client.state = "Active"
     IN CASE client.chosen = None /\ wantSudo -> UNCHANGED m_clients
          [] client.chosen # None /\ proof = "right" ->
               Becomes(p, Notify(client, IF wantSudo THEN "SudoSuccess"
                                                     ELSE "AuthAccept"))
          [] client.chosen # None /\ proof = "wrong" /\ wantSudo ->
               Becomes(p, [client EXCEPT !.chosen = None])
          [] OTHER -> DenyAccess(p)
  /\ UNCHANGED <<conVars, playerVars, password>>

\* TOSERVER_INIT2
HandleInit2(p) ==
  /\ StateIn(p, {"AwaitingInit2"})
  /\ Becomes(p, Notify(Notify(m_clients[p], "GotInit2"), "SetDefinitionsSent"))
  /\ UNCHANGED <<conVars, playerVars, password>>

\* Seeded fault: another client's player of that name does not matter.
EmergeRefusedOwn(p) == PlayerOfPeer(p) # {}

\* Server::emergePlayer: nobody of that name is there, nor of that peer.
EmergeRefused(p) ==
  GetPlayer(m_clients[p].name) # {} \/ PlayerOfPeer(p) # {}

\* emergePlayer, loadPlayer and ServerEnvironment::addPlayer: the player as the
\* database has it.
AddPlayer(p, n) ==
  /\ m_players' = Append(m_players, [name |-> n, peer |-> p,
                                     data |-> database[n], modified |-> FALSE])
  /\ overtaken' = IF PlayersOf(n) = {} THEN overtaken ELSE overtaken \cup {n}

\* Seeded fault: the user limit is not looked at again.
HandleClientReadyUnlimited(p, kicked) ==
  /\ StateIn(p, {"InitDone", "DefinitionsSent", "Active", "SudoMode"})
  /\ LET client == m_clients[p]
     IN IF EmergeRefused(p)
        THEN DenyAccess(p) /\ UNCHANGED <<m_players, overtaken>>
        ELSE /\ AddPlayer(p, client.name)
             /\ Becomes(p, Notify(IF kicked THEN Notify(client, "SetDenied")
                                  ELSE client, "SetClientReady"))
  /\ UNCHANGED <<conVars, password, saveVars>>

\* TOSERVER_CLIENT_READY with StageTwoClientInit.  kicked: by a mod, in
\* on_newplayer.
HandleClientReady(p, kicked) ==
  /\ StateIn(p, {"InitDone", "DefinitionsSent", "Active", "SudoMode"})
  /\ LET client == m_clients[p]
     IN IF LimitReached(client.name) \/ EmergeRefused(p)
        THEN DenyAccess(p) /\ UNCHANGED <<m_players, overtaken>>
        ELSE /\ AddPlayer(p, client.name)
             /\ Becomes(p, Notify(IF kicked THEN Notify(client, "SetDenied")
                                  ELSE client, "SetClientReady"))
  /\ UNCHANGED <<conVars, password, saveVars>>

\* A mod kicks or bans a player (core.kick_player, DenyAccess).
Kick(i) ==
  /\ i \in DOMAIN m_players /\ Connected(i)
  /\ DenyAccess(m_players[i].peer)
  /\ UNCHANGED <<conVars, playerVars, password>>

-----------------------------------------------------------------------------
\* Something of a player changes: its place, inventory, health.
PlayerChanges(i) ==
  /\ i \in DOMAIN m_players /\ Connected(i) /\ changes < setting.changes
  /\ changes' = changes + 1
  /\ m_players' = [m_players EXCEPT ![i].data = changes', ![i].modified = TRUE]
  /\ latest' = [latest EXCEPT ![m_players[i].name] = changes']
  /\ UNCHANGED <<conVars, m_clients, password, database, overtaken>>

ModifiedOf(n) == {i \in PlayersOf(n) : m_players[i].modified}

\* ServerEnvironment::saveLoadedPlayers, every server_map_save_interval: one
\* player after the other, and the last one of a name stays.
SaveLoadedPlayers ==
  /\ \E n \in Names : ModifiedOf(n) # {}
  /\ database' = [n \in Names |->
       IF ModifiedOf(n) = {} THEN database[n] ELSE m_players[Max(ModifiedOf(n))].data]
  /\ m_players' = [i \in DOMAIN m_players |->
       [m_players[i] EXCEPT !.modified = FALSE]]
  /\ UNCHANGED <<conVars, m_clients, changes, latest, overtaken, password>>

\* Seeded fault: a player that has left is saved only when it is marked.
RemoveObjectUnsaved(i) ==
  /\ i \in DOMAIN m_players /\ ~Connected(i)
  /\ m_players' = RemoveAt(m_players, i)
  /\ UNCHANGED <<conVars, m_clients, saveVars, overtaken, password>>

\* ServerEnvironment::removeRemovedObjects, twice a second, for a player that
\* has left, once no client knows the object any more: the player is saved and
\* forgotten (PlayerSAO::unlinkPlayerSessionAndSave).
RemoveObject(i) ==
  /\ i \in DOMAIN m_players /\ ~Connected(i)
  /\ database' = [database EXCEPT ![m_players[i].name] = m_players[i].data]
  /\ m_players' = RemoveAt(m_players, i)
  /\ UNCHANGED <<conVars, m_clients, changes, latest, overtaken, password>>

Next ==
  \/ \E p \in Peers :
       \/ PeerAdded(p) \/ PeerGone(p) \/ DeletingPeer(p) \/ HandleInit2(p)
       \/ \E n \in setting.names, ok \in BOOLEAN : HandleInit(p, n, ok)
       \/ \E ok \in BOOLEAN : HandleFirstSrp(p, ok) \/ HandleSrpBytesA(p, ok)
       \/ \E proof \in {"right", "wrong", "length"} : HandleSrpBytesM(p, proof)
       \/ \E kicked \in BOOLEAN : HandleClientReady(p, kicked)
  \/ \E i \in 1 .. Cardinality(Peers) :
       Kick(i) \/ PlayerChanges(i) \/ RemoveObject(i)
  \/ SaveLoadedPlayers

Spec == Init /\ [][Next]_vars

-----------------------------------------------------------------------------
\* A client in the game has its player, and only one, under the name it logged
\* in with; and a player with a peer has a client that came past its login
\* (handlers of game packets look the player up by peer and rely on it).  No
\* handler causes an event that notifyEvent answers with ClientStateError, in
\* whatever order the packets of the clients come.
ClientsHavePlayers ==
  /\ \A p \in Peers : HasClient(p) => m_clients[p].state \in States
  /\ \A p \in ActiveClients :
       /\ Cardinality(PlayerOfPeer(p)) = 1
       /\ \A i \in PlayerOfPeer(p) : m_players[i].name = m_clients[p].name
  /\ \A i \in DOMAIN m_players : Connected(i) =>
       StateIn(m_players[i].peer, {"Active", "SudoMode", "Denied"})

\* Of the clients that raced through the join process at most max_users are in
\* the game, those who may always join left out.
UserLimit ==
  Cardinality({p \in ActiveClients : m_clients[p].name \notin Admins}) <= setting.max_users

\* A registered name keeps its password: of two clients that register it at
\* once the second is turned away, and only a client in sudo mode changes it.
RegisteredOnce ==
  [][\A n \in Names : password[n] # None /\ password'[n] # password[n] =>
       StateIn(password'[n], {"SudoMode"}) /\ m_clients[password'[n]].name = n]_vars

Twice(n) == Cardinality({i \in PlayersOf(n) : Connected(i)}) > 1

\* A second player of a name comes into the game only while the first one of
\* all of that name has left and waits for the removal of its object: but for
\* that window one name is one player, however many clients race.
OnePlayerUnlessLeaving ==
  [][\A n \in Names : Twice(n)' /\ ~Twice(n) =>
       \E i \in FirstOf(n) : ~Connected(i)]_vars

\* What the comment in handleCommand_FirstSrp says: "In the end only one player
\* with a given name will be emerged".
OnePlayerPerName == \A n \in Names : ~Twice(n)

\* Nothing of a player is lost that leaves and comes back: what it was when it
\* left is what the database has once its object is gone, however the leaving,
\* the periodic save and the removal interleave - unless the player joined again
\* before that removal, when the two objects save over each other.
ComesBackAsLeft ==
  \A n \in Names \ overtaken : PlayersOf(n) = {} => database[n] = latest[n]

=============================================================================
