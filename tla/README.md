# Seafight: a TLA+ model of the server, the client and what lies between

Seafight (IDEProj) is Battleship over TCP: one server process and any number of
clients. This directory models both programs, the connection between them and the
game, checks the models with TLC and proves the central invariants with TLAPS.

## 1. The system

| Part | Code | State | Operations |
|---|---|---|---|
| Playing field | `include/field.hpp` | 10 x 10 cells (bits `ship`, `shot`), counters `m_1..m_4` | `clear`, `set_ship`, `set_cell`, `kill`; `check_kill`, `ships_ready`, `check_bound` |
| Game, Lobby | `IDEProj-Server/game.*`, `Lobby.*` | two fields, state (`preparation`, `turn_1`, `turn_2`, `end`), two ready flags, two seats (raw `participant*`) | `AddParticipant`, `RemoveParticipant`, `GetEnemy`, `set_state` |
| Server handlers | `IDEProj-Server/server.cpp` | `lobbiesCount`, `lobbies`, `clentData` (a `SharedClient` per session), one buffer `sendMsg` | `HandleMessageConnected`: create, join, connect, list, quit; `HandleMessageLobby`: ready, unready, leave, quit; `HandleMessageSession`: ship, ready, shot, continue |
| Room, session, acceptor | `BoostRoom`, `BoostSession`, `BoostServer` | the set of `shared_ptr`s to sessions, a write queue per session | join, leave, read header and body, write, deliver, `WriteMsg`, `WriteLobby` |
| Client | `IDEProj/client.cpp` | `state`, `gameState`, `ready`, `second_turn`, own and enemy field | a handler per letter received, a handler per line sent |
| Client's connection | `IDEProj/BoostClient.cpp` | socket, posted functions, a write queue | connect, read, write, close |
| Framing | `include/message.hpp` | 4 + 512 bytes | `encode_header`, `decode_header`, `body_length` |
| Interface | `IDEProj/Main.cpp`, `ConsoleGui.cpp` | Win32 windows, the selection of a ship | buttons and cells call `HandleSendMessage` from the window's thread |

How they interact. A session reads a message and calls `Server::HandleMessage`,
which runs one handler to its end; the handler calls `WriteMsg` or `WriteLobby`, which
put the buffer into the write queues of one or both players. The handler's return value says
whether the session reads on; if not, or after an I/O error, the session leaves the
room, which also erases the player's record. Records point at lobbies and lobbies
at sessions, with raw pointers in both directions. All of the server runs in one
thread (`io_service.run`), so a handler is atomic; what interleaves is messages of
different players and the ends of their connections. The client has two threads: the
window's, which sends lines by what the client believes, and the io thread,
which changes what the client believes when an answer comes. They share all of the
client's state without a lock.

What is hard here, and hard to test: pointers in both directions with several ways
to lose a player (leave, quit, read error, write error, the missing return);
lobby numbers given out by a counter that only some of those ways decrease; games
that follow one another in one lobby with flags, counters and fields to reset; turn
order against arbitrary messages of either player; commands and answers that cross, with
a client that has changed its own state before the server has read the
command; two queues and a stream that may break at any time, each end holding its
objects by the operations under way; and the walks along a ship, from whichever
cell was hit last, on fields of which one side knows only part. Every such place is listed, with its line
and the properties that cover it, under `hazards` in PROJECT.json.

## 2. The modules

| Module | Models | Uses |
|---|---|---|
| `Field` | `field.hpp` as operators on a value: placing, walking, killing, a shot and its answer, a client's copy | |
| `Board` | one player's field through its games, with the owner's and the attacker's copies | `Field` |
| `Server` | the server's state and every handler, one action per operation; sessions that end | `Field` |
| `Match` | abstract: what a lobby promises its two players | |
| `ServerMatch` | the refinement from `Server` to `Match` | `Server`, `Match` |
| `Client` | `client.cpp` as operators on a record: `Hear`, `Sends`, `Typed`; what the window offers | `Field` |
| `System` | the server and its clients over FIFO channels | `Server`, `Client` |
| `Session` | one `BoostSession`: reading, the write queue, who holds the object | `Wire`, `Life` |
| `Connection` | one `BoostClient`: both threads, posted functions, the write queue | `Wire` |
| `Wire` | abstract: what a write queue promises those who write | |
| `Life` | abstract: how a session lives, as far as the server has to know | |
| `ServerLife` | the server's sessions live so | `Server`, `Life` |
| `Link` | a connection and its session, the two ends of one TCP stream | `Session`, `Connection` |
| `Framing` | header and length, the cut, the list of lobbies and how the client reads it | |
| `Window` | how presses on cells become a ship | `Field` |
| `MCBoard`, `MCServer`, `MCSystem`, `MCFraming`, `MCWindow` | small instances for TLC | |
| `FieldProofs`, `BoardProofs`, `ServerProofs`, `ServerMatchProofs`, `SystemProofs`, `LinkProofs`, `FramingProofs`, `WindowProofs` | theorems and their proofs | |

The levels meet in the abstract modules. `System` has FIFO channels because `Session`
and `Connection` implement `Wire`, and `Link`, the two joined by a stream, shows that
messages keep their order end to end. `Server` tells a session by one word because `Session`
implements `Life`, and `ServerLife` shows that `Server` never makes a session do what
`Life` does not allow. `Match` is what is left of the server for two players in a lobby.

### Field and Board

A field is a record of two sets of cells and the counters. `CanSetShip` is the
whole guard of `set_ship` (bounds, cross, corners of the ends, counters) and
`SetShip` its effect. `StepBack` and `StepForward` are one turn of the loops of
`check_kill` and `kill`: first x and then y, with the second step from where the first
led. `ShotField` and `ShotAnswer` are what `Server::HandleMessageSession` does with a shot,
`CopyAnswer` what `Client::HandleMessageSession` does with the answer. The constants
`Size`, `MaxLength` and `Quota` are 10, 4 and `<<4, 3, 2, 1>>` in the code;
`MaxLength` is also the number of turns of the walks, as in the code.

`Board` plays one field: the owner's client tries a ship on its copy and sends it only if
it fits (`client.cpp:340`), the server tries it again, the opponent shoots, the answer
goes to both clients, and the field is cleared when the same pair plays again.
`fleet` and `fired` are history variables for the properties. Messages arrive before
the next is sent; `System` has the lag between them. The other field matters only by
ending the game (`LoseElsewhere`).

### Server

| Variable | Code |
|---|---|
| `lobbiesCount`, `lobbies` | the same; a lobby is the record of seats, game state, fields, ready flags |
| `clentData` | the map of `SharedClient`; total, because `operator[]` makes a default record for any key, `nullptr` included |
| `session` | the life of each `BoostSession`: `fresh`, `open` (in the room, reading), `detached` (a write failed, its read still waits), `flushing` (reads no more, a write keeps the object), `freed` |
| `sendMsg`, `sent` | the one buffer, and what the last handler gave to `deliver`, in order |
| `fault` | `none`, or the kind of dead object a handler dereferenced; the model stops there |
| `idReused` | history: some create met a lobby that had its number |

A member of `Participants` is the address of a session, because that is all a seat
and a record know. `FreedLobby` is a pointer to an erased lobby. Where the code's behaviour is
undefined the model chooses or records a fault:

- following a dead lobby or session: `fault`, and nothing more;
- `HandleMessageSession` ends without a return (`server.cpp:373`): `Unexpected` lets
  the session read on or leave;
- an address used again: `Connect` of a freed participant, when `Mishaps` has it.

Each handler action contains the lookup, the change, the reply and what the reply
does to the sessions. `Vacate` is the `RemoveParticipant` of leave and quit with the
erase. `Win` writes the end into both players' lobbies, as the code does through
`client.lobby` and `enemy.lobby`. `Rebroadcast` is the fall-through at `server.cpp:356`. Lines
that a handler drops without a word are not steps here; in `System` they leave the channel and
nothing else happens (`Drop`).

A message is a letter and a cell; the text of list is left to `Framing`; logging is
left out; a write may be under way in any session in the room.

### Match

A match has a stage, and for each player the cells of his board that have not been shot, those
of them that hold a ship, and whether he is ready. `Miss` passes the turn, `Hit` takes a cell
of the fleet (and perhaps water around it) and keeps the turn, unless it was the last cell,
which ends the match with nobody ready; `Begin` starts a further game from empty
boards. `ServerMatch` maps the lobby with the number `Watched`: the stage is `lobby`
while nobody in it plays, otherwise the game's state, and `void` once a
player has dropped out or the number was given out twice, after which a `Match`
promises nothing.

### Client and System

A client is a record of what `client.cpp` keeps. `Hear` is `HandleMessage`: one operator
for each of its switches (`HearConnected`, `HearLobby`, and four for the session by
`gameState`), with the exceptions thrown; `HearStart` is the branch at `client.cpp:186`,
which a ready client takes for any message. `Sends` says whether
`HandleSendMessage` sends a line on, and `Typed` what it does to the client itself before the
server has seen it: a ship goes onto the client's own field, and `ready` is set.
`OfferedWords` is what the window lets its user do, `ShotWords` with the `&&` of `Shoot`.

`System` puts them together: `Press` (a button, by what the player sees), `Act` (the
window's thread runs `HandleSendMessage`, by what the client believes by then),
`Serve` (the server's handler for the first line that has arrived, with everything it
delivers put into the channels), `Receive` (the io thread's `HandleMessage`), `Accept`, `Close`,
`Disconnect`, `Flush`. Which handler a line reaches is in `Obey` and its three parts, by the state of
the sender's record and the same tests on the text as in the code; `MailFor` is what of it a player is
told, in order.

Careful players. With `Careful = TRUE` a player says that he is ready only when
nothing he sent or is sent is under way, and then presses nothing until the turns
begin; at all other times he presses as fast as he likes. The code does not make him wait:
`Main.cpp:499` means to ("we want to check our input if we are't waiting for server
message"), but the flag for it, `receive`, is read nowhere. The run `hasty` shows
what then happens, and `system` that this is all a player has to mind. Players of the runs use the window.

### Session, Connection, Link

`Session` is one `BoostSession`: the read operation, `m_write_msgs_queue`, whether a write is
under way, whether the room holds it; `Alive` is that somebody has a `shared_ptr` to it.
`Connection` is one `BoostClient`: `tasks` are the functions posted by `write`, `closing` the
one posted by `close`, and the io thread runs them and the completions until there is nothing
left (`RunEnds`). A write started on a socket that is not open is `doomed`. In `Link` each
end reads what the other has written, or has under way, in order; a write fails only if its
message has not been read; a read at the server may fail at any time, and a closed
end is noticed by the read that waits at the other.

### Framing and Window

`Framing` sends texts as sequences of character codes: `Encoded` is the cut to
`max_body_length` and the header, `ListText` the server's answer to list, from the numbers in the
order of its map, `Extraction` what reading numbers with `>>` leaves (`ReadOn` a character), and
`Numbers` the loop of `UpdateList`. The reader takes a
header and then a body from one stream. `Window` keeps the selection: `PrepShip` a press on
a cell, `PressSet` the button that makes a line of it, `PressReady` its guard.
`tidy` is a history variable: the player selected cell by cell, rightwards or
downwards, while he had ships to place.

## 3. What the runs check

| Run | Instance | Properties | What it shows |
|---|---|---|---|
| `board` | 3 x 3, ships up to 3, one of each length; every placement on and just off the board | `TypeOK`, `ShipsApart`, `FleetOnField`, `CopiesAgree`, `SunkFleetEndsGame`, `KilledIsWholeShip`, `ShotsAreFiredOrAroundSunk` | ships never touch, quotas hold over games, a ship is called killed exactly when all of it is hit, from any cell; the attacker's copy is exactly the known part of the field |
| `lobbies` | 3 players, 2 numbers, one-cell fields | `TypeOK`, `SeatsOwned`, `PlayersSeated`, `TurnsHaveTwoPlayers`, `LobbyHoldsNoStaleStart` | every order of creating, joining, leaving, quitting and playing on |
| `games` | 2 players, 1 number, 2 x 2 fields, two corner ships each; `FairPlay` | `EndMeansSunk`, `BothAreTold`, `PlaysOn`, `GameConcludes` | whole games, one after the other; the server implements `Match`, and a game is concluded if players to move shoot |
| `mishaps` | 2 players, 2 numbers, read errors, write errors, reused addresses | `LobbiesCounted`, `GoneAreForgotten`, `FaultsHaveCause`, `SessionsLive` | the count and the records stay right whatever fails, and dead objects are followed for two causes only |
| `system` | 2 careful players, 1 number, 1 cell, 1 message under way in each direction | `SystemTypeOK`, `NoClientThrows`, `ClientsAgree`, `OwnFieldsAgree`, `PlacementsAccepted` | commands and answers cross; no client throws, and once nothing is under way each client believes what the server has of the player, the game and both fields |
| `system_live` | the same, one game without ships, clients closed at any time; `FairSpec` | `BothEnter`, `TurnReachesPlayer` | who was moved into a session gets there, and a turn is never lost on its way |
| `link` | 3 messages to the client, 2 to the server; `FairLink` | `OneWrite`, `NothingLost`, `ReadInOrder`, `LivesAsServed`, `DeliversInOrder`, `WritesInOrder`, `JoinReturns`, `BothLetGo` | order end to end with errors and a close at any time; both ends let go |
| `framing` | bodies of 9 bytes, 7 lists | `InStep`, `ListIsTrue` | a cut leaves the stream in step, and shows no piece of a number |
| `window` | 3 x 3, ships up to 3, one of each length | `SelectionCounted`, `ShownFits`, `ReadyUnblocked` | what the counter of selected cells can be however one presses, and that a tidy player gets the ship he sees |
| `board_ready` | 3 x 3, Debug | `ReadyMeansPlaced` (violated) | see below |
| `create` | 3 players, 2 numbers | `CreatedIsNew` (violated) | see below |
| `hasty` | 2 players who do not wait, 3 messages under way | `NoClientThrows` (violated) | see below |

Three statements the repository makes of itself are refuted:

- `field.hpp:139` says that `ships_ready` is true when all ships are placed (in Debug always,
  it adds; it is the builds *with* NDEBUG where it always is): `clear()` keeps the
  counters, so in the second game it is true with no ship on the field, and no
  ship can be placed either (`board_ready`). `FleetOnField` holds all the same, since a
  quota is an upper bound.
- `client.cpp:69` tells the sender of create that a lobby was created: the server may have put
  him into an existing one, with or without a seat (`create`). Two players create
  lobbies 0 and 1, the first quits, which takes the count back to 1, and a third creates.
- `Main.cpp:499` says that input is checked while an answer is awaited. It is not
  (`hasty`): a player who presses Set and at once Ready is ready when the answer to his ship
  arrives, his client takes it for the start of the turns, and the start itself is then a
  wrong message, on which the client throws and nothing catches.

Known of the code and outside the runs: a line typed at the console without blanks between
its numbers, which the client accepts and the server drops (`client.cpp:337`), and in the turns
makes the server send its buffer again (`server.cpp:356`; `Rebroadcast` is in
`Server`, and no property depends on what a client makes of it); a newcomer who
takes the seat, and with it the counters, of another player's field; a `gameState` that
starts as anything (`InitialGameStates` of the runs is `preparation`, on which the
program relies).

Properties that speak of pointers carry the premise `~idReused`: after such a create a
player may point at a lobby in which he has no seat, and the erase of that lobby leaves
his pointer dangling. `SeatsOwned`, `LobbiesCounted` and `GoneAreForgotten` hold without it.

### Bounds, and why they are enough

- Three players (`lobbies`) are the fewest for a full lobby and one outside it, and for a
  reused number that hits a lobby in use; the handlers never relate more than two players and
  one lobby, except through the count. `mishaps` has two: a ghost and a player beside it, or
  a newcomer at the ghost's address.
- `MaxLobbies` bounds `lobbiesCount` in the guard of `Create`; two numbers suffice for a
  reuse. `games` and `system` are about one lobby and have one number.
- In `lobbies` and `system` a field has one cell: it is empty, has a ship, or has a ship
  that is shot, which is all that the states of a game depend on. `games` has four cells, for
  hits, misses, repeats and two ships each, in opposite corners so that a kill marks
  water beside them. `board` looks at the geometry: on 3 x 3 a ship of 3 has an inner cell,
  whose corners `set_ship` does not look at and from which the walk goes both
  ways; the proofs take every size and length.
- `MaxPending`, the messages in a channel, is 1 in `system`: a command and an answer already cross, and so do
  commands of both players; a press that waits (`pressed`) is one more. `hasty` needs
  three, for the ship, the ready and what the enemy does.
- `MaxPut` and `MaxPosts` bound messages in `link`: three fill a queue while one is written and
  one waits, in both queues of the client two suffice, since a post and a queued message can
  then be told apart.
- Lobby numbers in `Framing` have three digits at most, `Number`. The lists of `framing` have numbers of one, two and three digits that end before, in and
  after the ninth byte; `max_body_length` is 512 in the code and takes part only in comparisons.
- `mishaps` and `system_live` place no ships: games there end by players going away, or go on.
- `Permutations(Participants)` is a sound symmetry: no action and no property tells players apart,
  and no run with a liveness property uses it.
- `CHECK_DEADLOCK FALSE` where the system may stop: all players have left, a fault
  stops the model, a fleet that fits no further ship in Debug, the last message was read.

### Fairness

`Server`, `Board`, `Framing` and `Window` assume none: a player may stop at any time.

- `FairPlay` (in `games`): a player to move, with a cell left to shoot, shoots in the
  end. It is an assumption about players, not code: without it no game need end. What
  the code adds, and `GameConcludes` checks, is that there always is such a player and such a cell.
- `FairSpec` (in `system_live`): the programs run. `io_service.run` serves every
  message that has arrived at both ends (`Serve`, `Receive`), and a button pressed is acted on (`Act`).
  Players may stop pressing.
- `FairLink` (in `link`): asio completes what was started; posted functions run; a read
  ends when something has arrived, or with an error when the other end has closed its
  socket. A read on an open and silent connection may wait for ever.

## 4. What is proved

TLAPS proves, for every value of the constants that the named assumptions (`FieldAssumption`,
`BoardAssumption`, `ServerAssumption`, `WatchedAssumption`, `FramingAssumption`, `WindowAssumption`)
allow:

| Theorem | Statement |
|---|---|
| `ClearanceCoversTouching` | a cell that touches a ship in any way is among the cells `set_ship` wants empty |
| `WalkedIsTheShip` | from any cell of a ship that stands alone the walk visits that ship, all of it and nothing else |
| `BoardTypeCorrect`, `BoardShipsApart`, `BoardFleetOnField`, `BoardCopiesAgree`, `BoardSunkFleetEndsGame`, `BoardKilledIsWholeShip`, `BoardShotsAreFiredOrAroundSunk` | `Board!Spec => []P` for each of the seven invariants of `board` |
| `ServerTypeCorrect`, `ServerLobbiesCounted`, `ServerGoneAreForgotten`, `ServerSessionsLive` | `Server!Spec => []P`, and that sessions live as in `Life`: under all mishaps |
| `ServerPlayersSeated`, `ServerSeatsOwned`, `ServerTurnsHaveTwoPlayers`, `ServerLobbyHoldsNoStaleStart`, `ServerEndMeansSunk`, `ServerFaultsHaveCause` | `OnlyReadErrors => (Server!Spec => []P)` |
| `ServerBothAreTold` | `OnlyReadErrors => (Server!Spec => BothAreTold)` |
| `ServerIsMatch` | `OnlyReadErrors => (Server!Spec => M!MatchSpec)`, for the lobby watched, whichever it is |
| `ServerKeepsMatch` | `OnlyReadErrors => (Server!Spec => []M!MatchConsistent)`, what a match promises at any moment |
| `SystemTypeCorrect`, `SystemIsServer` | `SysSpec => []SystemTypeOK`, and `SysSpec => Server!Spec` |
| `SystemNoClientThrows` | `Patient => (SysSpec => [](~idReused => NoClientThrows))` |
| `SystemClientsAgree` | `Patient => (SysSpec => []ClientsAgree)` |
| `ServerPairNeverReuses` | `TwoPlayers /\ OnlyReadErrors => (Server!Spec => []~idReused)` |
| `SystemOwnFieldsAgree`, `SystemPlacementsAccepted`, `SystemPairNeverThrows` | `TwoPlayers /\ Patient => (SysSpec => []P)`, for `OwnFieldsAgree`, `PlacementsAccepted` and `NoClientThrows` |
| `SessionOneWrite`, `SessionNothingLost`, `ConnectionNothingLost` | the queues hold what was not written, and one write at most is under way |
| `SessionIsWire`, `ConnectionIsWire`, `SessionHasLife` | `Session` and `Connection` implement `Wire`, and `Session` implements `Life`, in safety |
| `LinkIsTwoWires`, `LinkReadInOrder` | joined by a stream both ends still do, and `LinkSpec => []ReadInOrder` |
| `FramingInStep`, `FramingListIsTrue` | `Framing!Spec => []InStep` and `Framing!Spec => []ListIsTrue` |
| `WindowSelectionCounted`, `WindowShownFits`, `WindowReadyUnblocked` | `Window!Spec => []P` for each of the three invariants of `window` |

**The field.** A ship is accepted only if its clearance is empty; the clearance
contains whatever touches the ship (an inner cell's corners are in the crosses of its neighbours);
so ships stand apart. The walks are loops of a fixed number of turns. `LoopRuns` shows that
such a loop has a course, and `EveryTurn` is induction in the form available
here: the set of turns that are not where they should be has no least element
(`LeastNatural`, from the well-foundedness of the order on the naturals). On a ship
that stands alone one turn goes to the next cell or stays at the end (`BackAlong`,
`ForwardAlong`), and `MaxLength` turns suffice.

**The board.** The seven invariants are inductive only together, with three more parts: every
ship of the fleet was laid by one placement (`FleetLaid`, which makes
`WalkedIsTheShip` apply), the counters bound the ships of each length
(`FleetCounted`), and nothing has been fired at before the shooting (`NoneFired`). The
attacker's copy of a ship is complete when the answer says killed, so his walk is the
server's. That a shot ship cell was fired at, and not just marked by `kill`, follows from the
distance between ships (`ShotShipsWereFiredAt`), and makes "sunk" the same in cells shot and
in cells fired at.

**The server's types.** The count cannot be shown to stay above zero from types alone,
since quit decreases it: `TypeInv` is `TypeOK` with `LobbiesCounted`. A lobby that exists makes
the count at least one, and the erase takes one from both. `GoneAreForgotten` is inductive
over `TypeInv`: each step changes the record of a player who reads on, or puts
the default one in its place (`Spared`).

**The seats.** `PlayersSeated` is not inductive. When a ready player's enemy is ready too, the
handler moves the enemy to the session, and then the enemy must have a seat:
`GoneAreForgotten` says that a ready enemy still reads, and `SeatsOwned` that a seat of one
who reads is his own. `SeatsOwned` needs that a session just accepted sits nowhere
(`SeatsAccepted`), which an address used twice would break, and that nobody reads who is
out of the room (`NoneDetached`), which a write error would break: hence
`OnlyReadErrors`. `SeatInv` is the conjunction.

**The games.** `GamesInv` adds to `SeatInv`, for each lobby: in turns both seats are
taken and every open player is in the session; in a lobby that waits (a free seat, or an
open player back in the lobby) nobody is ready to play, the turns are not on, and in the
preparation nobody is in the session; in the preparation no cell has been shot; and a fleet is
sunk exactly at the end, when nobody is ready. A lobby number used twice is the
premise's matter. A step that only takes players away keeps it (`QuieterKept`), one at
another lobby too (`ElsewhereKept`), and each handler that changes the lobby has a lemma
of its own. `ServerFaultsHaveCause` follows each delivery to its recipients: the
sender lives, and a dead one is in a seat, which is the cause named.

**What is told.** `BothAreTold` is an action property: it needs of the state only what
`GamesInv` and `PlayersSeated` say (in turns both seats are taken, and `GetEnemy` of one is
the other), and of each handler which words it delivers. Every handler but
two leaves the shots of a lobby in turns and the beginning of its turns alone
(`TellsBoth`); the shot and the second ready are looked at one by one.

**The refinement.** `ServerIsMatch` shows each step of the server to be one of the
watched lobby's match or none. A match needs to know what the server does not
compute: that a hit takes one cell of the fleet and water around it, the cell of the ship and
no other (`ShotTakesOne`), that a shot into the water or at a cell shot before passes
the turn, and that the fleet is gone exactly when the handler finds that it is. So the
invariant `PlayInv` adds to `GamesInv` that on both fields of every lobby the ships stand
alone (`FieldsSound`), and that whoever is still in the session of a game that has ended is
not ready (`EndRested`), or the next game could begin with him before he has gone on.

**The system.** `SystemIsServer` carries every theorem about the server over to the server among
its clients. The two about the clients are for any number of players, lobbies and messages under
way, for fields of any size, and for players who may close their clients at any time. `Patient`
names what they need: careful players (`hasty` shows why), lines as the window types them, only
read errors, and clients that start in the preparation; the instance `system` is one. Of a number
used twice nothing is said, since from then on two lobbies are one to the server.

A client that is told something may be far behind the server, so no invariant can compare the
two directly. `Follows` says of each client what it would believe once it had heard
its whole channel, and that it would get there without an exception; what it would believe
`Agrees` with what the server has of the player (`Desk`: his state and readiness and, in a session,
the state of the game, his flag and the shots on the enemy's field). A message the client hears
shortens the way and leaves its end; a line the server handles lengthens it
(`CourseOn`) by messages that take one who agrees with the desk before to one who agrees with
the desk after. So each handler is reduced to what it says and does to one player: `Recorded` (nothing
is said), `Answered` (to the sender), `Notified` (to both). What a client does to itself before the
server knows is the rest of the invariant: who has said that he is ready has nothing
else under way and hears nothing but the start (`ClientFits`), in the turns only shots are on their way,
and `ready` comes at most once and last (`LinesFit`). Without it the start could meet a client that
takes something else for it. And of one who has dropped out, a seat stays behind to which the server
still speaks: `Silent` says that no game that can go on has such a seat, so nothing is
posted to a client that runs on after its session has ended. `SysInv` is the conjunction with `GamesInv` and `FieldsSound`.

**Two players.** `OwnFieldsAgree` and `PlacementsAccepted` are not so for any number of players: a
newcomer takes the seat of another with the counters of his field, which his own client starts
from zero. They are theorems for `TwoPlayers`: two sessions in the whole life of the server, with any
number of games, lobbies left and entered again, ships and messages under way, and clients closed
at any time. Three things are followed.

- The numbers. The count of lobbies goes down with a quit to a number that may be in use, and
  whoever creates the next lobby gets it. `NumbersKept` says that such a number belongs to a lobby where
  the only one who could ask for it sits alone, and to do so he would have to leave it, which closes it.
  So with two players `idReused` stays false, and the theorems of this group need no such premise.
- The counters. `Clear` keeps them, and so does a seat given up. `Claims` says that no field of a
  lobby counts more ships than the client of whoever is on it or may next be: his own seat, or
  a free one beside the enemy's, which with two players only he can have left. The client counts a
  ship when it is placed and the server when the line is read, so the client's counters are ahead.
- The cells. `Own` says what the server's field will be after the lines on their way (`Laid`: every
  ship among them fits when its turn comes) and what the client's will be after the messages on
  their way (`Hearing`), and that the two are the same. Ships change the client's field when it is
  placed and the server's when the line is read; a shot changes the server's field when it is
  read and the owner's when he is told. They do not disturb each other because ships are on their way in
  the preparation only and shots in the turns only, and the call to a game, which clears both fields,
  finds nothing on its way (`CalledOwn`). Each handler is reduced to what it does to the sender's field and to
  the other's: nothing, the ship of the line, a shot, or a clear (`FieldHandled`).

`OwnInv` adds these to `SysInv`.

**The link.** What was posted or delivered is, in order, what was written and what waits. The
invariant `LinkInv` adds `ReadInv`: what each end has read is first in the stream to it, which is
what the other has written and the message it may be writing. The step in doubt is a write
that fails, which takes a message out of the stream: none of it has been read, so what was read
is still first in the rest (`LeadsLess`).

**The framing.** `FramingAssumption` allows bodies of up to 999 characters (512 in the code) and lists
of any length, in ascending order, with numbers up to 999. Neither property is inductive: of a
stream that starts in the middle of a message nothing can be said. `FramingInv` puts the header that was
read back in front of the stream (`Unread`), and says that it is then the messages listed, one behind
the other (`Framed`: the places where each ends). So the first four characters are the header of
the first list, `atoi` of which is the length that was cut to (`AtoiHeader`), and what is left after a
body is the others. For what the client shows, reading and writing are each followed along a
loop: the number behind the first `i` of the list ends `Width(ids)[i]` characters after the
letter and blank (`TextParts`), and a reader that has come that far has shown these numbers and no
other (`NumberRead`). Where the cut goes through a number, or before the blank behind
it, the loop ends with a word that nothing follows (`ListRead`).

**The window.** `SelectionCounted` needs that the last cell selected cannot be taken out
by the third press on (`OneStays`): such a press goes to a place further on in the array, so a
cell not further on than the last stays, and an empty selection can have only the counts 0
and 2. A tidy selection is a line of `shipLength` cells that ends at the last press,
in the direction that `orientation` has, with its clearance free on both fields (`Line`, `Free`
of `TidyInv`); the neighbourhoods looked at one cell after the other are together the
clearance of the ship. The proof found that the window relies on there being ships of two
(`WindowAssumption`): the first two presses are not looked at for the length (`Main.cpp:250`).

Only model-checked: the three runs whose property the code breaks (`hasty` breaks for other players what
`SystemNoClientThrows` proves for careful ones), and what is liveness:
`GameConcludes`, the properties of `system_live`, `JoinReturns`, `BothLetGo` and the
fair half of `PlaysOn`, `WritesInOrder` and `DeliversInOrder`. Out of the prover's
reach are liveness under fairness and ENABLED. No module declares a RECURSIVE operator.

## 5. What is not modelled

- Errors of the acceptor, after which the server accepts no more; the parsing of
  ports and the start of both programs (one thread per process is all that matters of them).
- Data races within a handler: the client's two threads may be in the same field at once, which
  has no defined outcome. `System` interleaves whole handlers.
- Drawing, Win32 calls and the console's menus, beyond what decides which line is sent.
- Texts other than the list of lobbies; the unit tests, project files and
  the Doxygen configuration.
- Lines typed at the console that the window cannot produce: `Client` has them
  (`spaced`, any word in any state), the runs of `System` do not.
- Servers on several ports: they share nothing but the thread.

## 6. The plan

1. Done: the modules of section 2 and the proofs of section 4.
2. `System` with three players, for a newcomer who inherits the counters of a field, and
   with console players.
