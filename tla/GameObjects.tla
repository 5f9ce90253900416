----------------------------- MODULE GameObjects -----------------------------
(***************************************************************************)
(* What the two variants of gamesvr have in common: ObjMgrModule with its    *)
(* pools of players and cities, what a Player sends, and MsgModule's queues. *)
(*                                                                         *)
(* The pools hand out any free unit (ShmPool's promise).  Of the data of a   *)
(* Player only the owner and the cities are kept.                          *)
(***************************************************************************)
EXTENDS Links

CONSTANTS PlayerPoolSize, CityPoolSize,   \* of the configuration
          MaxCities,                      \* MAX_CITY_NUM_PER_PLAYER - 1
          Trunc                           \* (int32_t)uid, for every uid

ASSUME GameObjectsAssumption ==
    /\ PlayerPoolSize \in Nat /\ CityPoolSize \in Nat /\ MaxCities \in Nat
    /\ \A body \in Bodies : Trunc[body.uid] \in Int

VARIABLES
    status,      \* "up", or why the process does not run
    players,     \* the used units of player_pool_
    cities,      \* the used units of city_pool_
    uid_to_player_idx_map

objects == <<players, cities, uid_to_player_idx_map>>

PlayerUnits == 1..PlayerPoolSize
CityUnits == 1..CityPoolSize

Up == status = "up"
ObjectsInit == /\ status = "up"
               /\ players = [i \in {} |-> 0]
               /\ cities = {}
               /\ uid_to_player_idx_map = [u \in {} |-> 0]

Without(f, S) == [x \in DOMAIN f \ S |-> f[x]]
With(f, x, v) == [y \in DOMAIN f \cup {x} |-> IF y = x THEN v ELSE f[y]]

-----------------------------------------------------------------------------
(* ObjMgrModule *)

\* AddPlayer: a free unit, zeroed.
NewPlayer(fd) == [conn_fd |-> fd, uid |-> 0, password_hash |-> 0, city_list |-> {}]

\* Mutants: the cities, or the player itself, are not released.
MutDelPlayerCities(idx) ==
    /\ uid_to_player_idx_map' =
           Without(uid_to_player_idx_map, {players[idx].uid})
    /\ players' = Without(players, {idx})
    /\ UNCHANGED cities
MutDelPlayerKept(idx) ==
    /\ uid_to_player_idx_map' =
           Without(uid_to_player_idx_map, {players[idx].uid})
    /\ cities' = cities \ players[idx].city_list
    /\ UNCHANGED players

\* DelPlayer: the entry of its uid, if it is this player's; its cities; itself.
DelPlayer(idx) ==
    LET uid == players[idx].uid
        mine == {u \in DOMAIN uid_to_player_idx_map :
                    u = uid /\ uid_to_player_idx_map[u] = idx}
    IN  /\ uid_to_player_idx_map' = Without(uid_to_player_idx_map, mine)
        /\ cities' = cities \ players[idx].city_list
        /\ players' = Without(players, {idx})

\* set_uid, BindUidToPlayerIdx: insert leaves an entry that is there alone.
BindUid(uid, idx) ==
    uid_to_player_idx_map' =
        IF uid \in DOMAIN uid_to_player_idx_map THEN uid_to_player_idx_map
        ELSE With(uid_to_player_idx_map, uid, idx)

FindPlayerIdxByUid(uid) ==
    IF uid \in DOMAIN uid_to_player_idx_map THEN uid_to_player_idx_map[uid] ELSE 0

-----------------------------------------------------------------------------
(* What handlers send. *)

\* Mutant: the answer goes to the player's index, not its descriptor.
MutAnswer(player, idx, s, type, ret) ==
    ToConn(IF type = "LOGIN" /\ ret # 0 THEN "STOP" ELSE "START", idx, idx, s, ret)

\* The answer to client request s, by the player at idx.  Every logic answers
\* at its end only; a failed login closes the connection.
Answer(player, idx, s, type, ret) ==
    LET cmd == IF type = "LOGIN" /\ ret # 0 THEN "STOP" ELSE "START"
    IN  ToConn(cmd, player.conn_fd, idx, s, ret)
SendAnswers(msgs) ==
    /\ g2c' = Push(g2c, msgs)
    /\ answered' = [s \in Seqs |->
          answered[s] + Cardinality({i \in DOMAIN msgs : msgs[i].seq = s})]

SendToDatasvr(m) == g2d' = Push(g2d, <<m>>)

\* Mutant: the loop over the cities counts one too many.
MutSetPlayerData(player, logic_id) ==
    ToData("SET", logic_id, player.uid, 0, Cardinality(player.city_list) + 1)

\* DoUpdatePlayerData, with the data of a player as it is now.
SetPlayerData(player, logic_id) ==
    ToData("SET", logic_id, player.uid, 0, Cardinality(player.city_list))

-----------------------------------------------------------------------------
(* What MsgModule::Run receives. *)

FromConnsvr(cmd) == /\ Up
                    /\ c2g # <<>> /\ Head(c2g).cmd = cmd
                    /\ c2g' = Tail(c2g)

FromDatasvr == /\ Up
               /\ d2g # <<>>
               /\ d2g' = Tail(d2g)

\* The logic or the task that an answer is for.
Resumed == Head(d2g).seq

-----------------------------------------------------------------------------
(* Properties *)

ObjectsTypeOK ==
    /\ DOMAIN players \subseteq PlayerUnits
    /\ \A i \in DOMAIN players :
           players[i].city_list \subseteq CityUnits /\ players[i].conn_fd \in Nat
    /\ cities \subseteq CityUnits
    /\ \A u \in DOMAIN uid_to_player_idx_map :
           uid_to_player_idx_map[u] \in PlayerUnits

\* Every city in use is on the list of exactly one player: logins, relogins,
\* closed connections and restarts neither share nor lose one.
CityOwnership ==
    /\ \A c \in cities : \E i \in DOMAIN players : c \in players[i].city_list
    /\ \A i, j \in DOMAIN players :
           i # j => players[i].city_list \cap players[j].city_list = {}
    /\ \A i \in DOMAIN players : players[i].city_list \subseteq cities

\* No request is answered twice, whatever times out, is late or is lost.
AnswerOnce == \A s \in Seqs : answered[s] <= 1
=============================================================================
