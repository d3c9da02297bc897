# A TLA+ development of PugMod

PugMod is a metamod plugin for Counter-Strike 1.6 that runs competitive matches:
warm-up, votes for map, teams and sides, an optional captain pick and knife round,
two halves, overtimes, and the next match. Everything it does happens in callbacks
of the engine on one thread, so there are no data races. What makes it hard is that
**every transition of a match is delayed**: a handler writes a deadline into a slot,
and what fires seconds later meets whatever rounds, votes, restarts, leavers and
admin commands came in between.

This directory models that part of it, and what else is kept from one callback to another
while clients come and go (statistics, leavers, ballots, marks of the spawn editor), checks it
with TLC and proves much of it with TLAPS. Line numbers refer to `src/PugMod/` unless they name another file.

## 1. The system

### Components

| Component (source) | State it keeps | Operations | What makes it correct |
|---|---|---|---|
| Match, `CPugMod` (`PugMod.cpp`) | `m_State`, `m_Score[team][state]`, `m_ScoreOT[team]` | `SetState`, `RoundEnd`, `RestartRound`, `SwapTeams`, `DropClient`, `Surrender`, `ServerActivate/Deactivate` | scores stay with the players; a half has exactly its rounds; a tie goes where the cvars say; every phase is left |
| Task slots, `CPugTask` (`PugTask.cpp`) | one deadline, period and argument per `E_TASK` | `Create` (overwrites), `Remove`, `StartFrame` → `Execute` | a slot that was scheduled fires once; an overwritten transition is never the only way on |
| LO3 restarts, `CPugLO3` (`PugLO3.cpp`) | the engine's `m_bGameStarted`, `m_bCompleteReset` | `Init(4..0)` | rounds before it ends do not count, rounds after it do |
| Waiting phase, `CPugReady` / `CPugTimer` | `m_Run`, `m_NextState`, ready marks, deadline | `Init`, `Stop`, `StartFrame` | it ends when the players are there, and only into the state it was opened for |
| Votes: map, team, sides, overtime, end (`PugVote*.cpp`) | `m_Run`, deadline, votes per option and voter | `Init`, `MenuHandle`, `StartFrame`, `Stop` | a vote ends; its result suits the match it returns to |
| Captain pick, `CPugLeader` | `m_Run`, captains, whose turn, saved teams | `Init`, `Menu`, `GetPlayer`, `DropClient`, `Stop` | the pick ends in a match or in the warm-up, whoever leaves |
| Vote menu, `CPugVoteMenu` | six tables of ballots, by client slot | restart, cancel, surrender, map, kick, pause; `RestartRound`, `DropClient` | a vote passes with enough of those who may vote; ballots are those of the players now in the slots |
| Admin menu, `CPugAdminMenu` | none of its own | force a state, kick, ban, map ... | a forced state leaves nothing behind from the state it ends |
| Teams and reconnection, `CPugTeamManager` | the team of players who left | `ChooseTeam`, `DropClient` | a player comes back to his team; sides are never over-full |
| Pause, `CPugPause` | asked or paused, the buy time to restore, a repeating task | `Init`, `RestartRound`, `Timer`, `SetRoundTime` | a paused round waits and goes on with what it had; a match that ends takes its pause with it |
| Deathmatch, `CPugDM`, and its editor, `CPugSpawnEdit` | the spawns in play, the spawns being edited, one mark and one menu per admin, the file | `Load`, `SetSpawn`; add, edit, delete, select, discard, `Save` | the deathmatch plays with what was saved; an admin edits the spawn that he marked |
| Rage bans, `CPugRageBan` | leavers with a deadline, a repeating task | `DropClient`, `CheckList`, `ServerActivate` | every leaver of a match comes back or is banned, and only those |
| Statistics, `CPugStats`, `CPugRoundStats` | a score of its own, counters per SteamID, hits per slot | `SetState`, `RoundStart/End`, `RestartRound`, every combat hook, JSON at the end | its rounds, score and winner are those of the match; what is credited to a player is his own, and of this round |
| Menus, `CPugMenu` | open menu, page and items per slot | `Open`, `Handle`, `Close` | a key selects the item it showed |
| Upload, `CPugCurl` | transfers in flight | `PostJSON`, `Frame`, `Shutdown` | every handle is freed once, which libcurl's loop decides |
| Flood filter, `CPugClientCmd` | counter and time per slot | `FilterFlood` | an honest client is not refused for ever |
| Map list, `CPugMapList` | maps of a file | `Load`, `ChangeMap` | the change of level is carried out |
| Weapons, cvars, language, demo, status, utilities | - | single engine calls, parsing, output | not a protocol |

### How they interact

* `DLL_POST_StartFrame` (`MetaMod.cpp:217-243`) runs, in this order and every frame,
  the handlers of uploads, tasks, ready, timer, the votes and the captain pick.
  Each looks at its own deadline; most end by creating a `SET_STATE` task.
* `CPugTask::Execute` calls `CPugMod::SetState`, which initialises or stops the other
  components and may create tasks *while the slot map is being walked*.
* The hooks on the engine's rounds call `RoundEnd`, `RestartRound` and
  `OnRoundFreezeEnd` of match, pause, statistics and rage bans. `CPugMod` sets
  `m_bCompleteReset` and `m_flRestartRoundTime` to make the engine restart a round,
  and the engine then calls `CPugMod::RestartRound` back.
* `SV_DropClient` (`ReAPI.cpp:75-101`) calls eight `DropClient` handlers *before* the
  client is gone, so the leaver is counted by all of them.
* `ServerDeactivate` and `ServerActivate` (`MetaMod.cpp:126-215`) clear the components
  one after the other when the level changes, the task slots first.

### What is hard here

One slot for all transitions; votes, pick and restarts that no state change cancels;
menus whose choice is used in another state than they were opened in; the score that
says whether halftime swaps the sides; a vote that opens a second after the round it
should hold back; complete resets that undo rounds; leavers counted as present; slots,
menus and indexes that pass to somebody else; statistics that keep a second account of
the match; odd numbers of rounds. `PROJECT.json` lists each hazard at its line with the properties
that would notice it.

## 2. Modules

| Module | What it is |
|---|---|
| `PugTask` | operators on a map of task slots: `Create`, `Remove`, `Rearm`, `IsDue`, `Elapse`. No variables, because the code calls it in the middle of other handlers. It also serves the votes, whose `m_Run` and `m_Time` are such a slot |
| `PugMod` | the match: `CPugMod`, LO3, waiting phase, votes, captain pick, players, admin, level change, clock |
| `MatchRules` | the abstract specification: two rosters win rounds; when a half, the match and an overtime are over, and what follows. No sides, tasks, clock or votes |
| `PugModRules` | the refinement mapping from `PugMod` to `MatchRules` |
| `PugReport` | the match composed with `m_Match` of `CPugStats`: the score, rounds and winner that are reported |
| `PugPause` | `CPugPause` composed with the match: every action of `PugMod` with what it does to a pause, and the pause's own task. A pause changes the match too, by freezing its rounds |
| `PugStats` | `CPugStats` by player: who is credited with which rounds and who is flagged a winner. It extends `MatchRules`, so the match it runs beside is the abstract one, with the LO3 and the sides added |
| `PugRound` | what `CPugRoundStats` and `CPugStats` keep during one round: hits by slot, trades and Versus by SteamID |
| `PugLeavers` | `CPugTeamManager` and `CPugRageBan`: named players with SteamIDs and addresses who leave, come back and are banned, over halftimes and changes of level. Of the match it has the states and the swap of sides |
| `PugVoteMenu` | `CPugVoteMenu`: ballots by client slot, menus older than the teams they show, slots that change hands. Of the match it has the states and the restarts that clear the ballots |
| `PugVotes` | the ballots of `CPugVoteTeam` by client slot, and what its result does to the teams, the two shuffles as algorithms |
| `PugSpawnEdit` | the spawn editor and the loading of the deathmatch's spawns |
| `MCPugMod`, `MCPugReport`, `MCPugPause`, `MCPugStats`, `MCPugRound`, `MCPugLeavers`, `MCPugVoteMenu`, `MCPugVotes`, `MCPugSpawnEdit` | what TLC runs |
| `PugModProofs` | proofs about the match for every admin, player and cvar: types, LO3 restarts, drivers and exits, and the pauses of `PugPause`; it begins with the lemmas about `PugTask` |
| `PugModRulesProofs` | proofs about a match that is left alone: its scores, its course, that `PugMod` implements `MatchRules`, and that the report of `PugReport` is true |
| `PugStatsProofs` | proofs about `MatchRules`, and about the statistics that extend it |
| `PugRoundProofs`, `PugLeaversProofs`, `PugVoteMenuProofs`, `PugVotesProofs`, `PugSpawnEditProofs` | proofs about the module they are named for |

Three specifications of the match are related: `PugMod` implements `MatchRules`
(`KeepsTheRules`, checked by `Match` and proved as `PlaysByTheRules`), `PugStats` implements it by
construction and by proof (`StatsKeepRules`), and `PugReport` runs beside `PugMod` itself. So what
is proved of the statistics for every match by the rules is about the matches that the code plays.

### How `PugMod` corresponds to the code

*State.* The variables up to `m_bCompleteReset` are the fields they are named for.
Seconds *left* stand for absolute deadlines, so there are finitely many states.
`round` is the engine's round as the plugin sees it: `play` (with the rest of the
freeze time), `over` (until the engine restarts it) or `restart` (a restart was asked
for). `players` counts the players per side as `GetPlayers` does. `roster`, `won` and
`wonOT` are history: which of two rosters is on the Terrorist side and what each won.
No guard reads them.

*Actions.* One callback run to its end is one action:

| Action | Code |
|---|---|
| `SetStateFires`, `MapChangeFires`, `LO3Fires`, `VoteSwapFires`, `VoteOvertimeFires` | a due slot in `CPugTask::StartFrame` and its case of `Execute`; `SetState` has one `Enter...` operator per case of its switch |
| `RoundEnd`, `RoundDraw` | `CPugMod::RoundEnd`, with `AfterFirstHalf`, `AfterSecondHalf`, `AfterOvertime` for the transition it schedules |
| `RestartRound` | the engine's restart and `CPugMod::RestartRound` |
| `VoteMapStops`, `VoteTeamStops`, `VoteSwapStops`, `VoteOvertimeStops`, `VoteEndStops` | `Stop` of each vote, when everybody voted or at the deadline |
| `WaitEnds` | `CPugReady::StartFrame` or `CPugTimer::StartFrame` |
| `LeaderPicks`, `LeaderRunsOut`, `CaptainDrops`, `PickableDrops` | the captain pick |
| `PlayerJoins`, `PlayerLeavesTeam`, `PlayerDrops`, `SpectatorDrops` | `ChooseTeam`; `SV_DropClient` with `CPugMod::DropClient` |
| `PlayersVote`, `PlayersVoteMap`, `Surrender` | a vote of `CPugVoteMenu` that got its votes |
| `AdminSetState` | `CPugAdminMenu::PugHandle`, which does not check the state again |
| `ServerDeactivate`, `ServerActivate` | the level changes |
| `Tick` | a second passes; only when nothing is due |

Operators named in a comment "Faulty ..." are plausible mistakes in the operator that
follows them. No action uses them: replacing the operator by its faulty variant must
break a property, which shows that the property says something about the code.

### The modules beside the match

*`PugReport`*: `StateChanges` is `CPugMod::SetState`, which calls `CPugStats::SetState` after
entering the state (`PugMod.cpp:275`); `SideWins` is the hook `ReGameDLL_RoundEnd`, which
calls both `RoundEnd`s; `Unheard` is every callback of the match that `CPugStats` is not told of.

*`PugPause`*: `AskPause` is `CPugPause::Init`; `RestartsRound` is the hook of
`ReGameDLL.cpp:237-254`, in which the match comes before the pause; `TimerFires` is
`CPugPause::Timer`; `ChangesState`, `PauseDeactivate`, `PauseActivate` and `Second` are actions of
`PugMod` with what they mean for the pause (a configuration file that sets `mp_buytime`,
a cleared slot, a second that passes); `Elsewhere` is the rest of `PugMod`. `m_PauseTask` is
the slot `PAUSE_MATCH` of the same map of tasks.

*`PugStats`*: `TeamHandle` is `CPugAdminMenu::TeamHandle`, of which `CPugStats` need not hear, and
`Balanced` what `BalanceTeams` does at the start of both halves, with `CPugStats::SwitchTeam` for
each player it moves (`SwitchTeams`). `FirstHalfStarts`, `HalftimeStarts`, `NextHalfStarts`, `MatchEnds` and
`MatchIsForgotten` are `CPugStats::SetState`, each with the action of the rules it goes with;
`CountedRound` and `UncountedRound` are `CPugStats::RoundEnd` after and during the LO3, which
the code does not tell apart; `LO3Restart` is `RestartRound` on a complete reset. `since` and
`stray` are history: who has been there without a break, and whether the balance of
halftime or an admin has moved him since; and which counters have a round of
the LO3 in them (in overtime nothing resets those).

*`PugRound`*: `Kill` is `SendDeathMessage` and the hit that killed, `RoundStart` the end of the
freeze time, `RestartRound` the engine's. A hit is kept with who did it to whom, where the code
keeps counts, so that the property can tell whose it is. `died` and `lone` are history.

*`PugLeavers`*: `DropClient` is one action for both components, as `SV_DropClient` calls
both before anything else happens. `CheckFires` is the task. The seconds to a leaver's
`CheckTime` run on between levels, like the real clock that the code reads. `leftFrom` and
`moved` are history: the side an ordinary player left in the present state of the match, and
who changed sides on this level, so that "the same side" has a meaning. A client who connects, or
whom a change of level made load the map again, is `loading` (if he is `Slow`) until `PutInServer`
(`DLL_POST_ClientPutInServer`): he can leave again, and a check finds him only if his slot was
used before on the level, which is left open. `TeamHandle` of the admin menu and `BalanceTeams`
(`MovedInto`) move players as in `PugVoteMenu`.

*`PugVoteMenu`*: a table of ballots is the set of its true entries. The six tables share
nothing, so a behaviour has one of them (`item`), chosen at the start; all six are in one
run. A ballot carries, as history, which connections it was cast by and about, and whether the
match has entered another state since. Sides change by `ChooseTeam`, by `TeamHandle` of the admin
menu, in any state and to the spectators too, by the swap of halftime and by `BalanceTeams`
(`BalancedSides`: at most half of what a side has more than the other); none of it touches a ballot.
`outcome` is the task or the server command of a vote that has passed, on its way.

*`PugVotes`*: `VoteBegins`, `MenuHandle`, `VoteEnds` and `Stop` are those of `CPugVoteTeam`;
`PutInServer` clears the menu of the slot, and `DropClient` does nothing to the vote, as in the
code. `TeamsRamdomize` and `TeamsOptimize` keep the source's names and its loops: the second
walks the list of players it is erasing from, and looks skills up by the wrong index, as the
code does. The list is in the order of the slots and stays so, so that it is kept as the set of
those who are left (`PlayerAt` is who is at an index of it); `Sweep` is the inner loop,
`Optimized` the outer one, and `Sorted` the result of the sort, by counting. A skill may be
negative, as the frags of who kills his own are. `roll` and `voted` are history.

*`PugSpawnEdit`*: one action per item of the editor's menus. Items are chosen from the menu
that was shown, whatever happened since. `exec` counts the loads the engine has queued
(`exec` of the spawn file is carried out later); `ExecRuns` is one of them. Spawns are numbers
given when they are added, so that a reused index can be told from the spawn that had it;
`picked` is history: the spawn that each admin selected. Of coordinates the model has one thing,
`atOrigin`: the indexes whose coordinates are cut to 0 0 0 when they are saved (`Lines`), since
`CPugDM::SetSpawn` drops such lines. `Save` may also find nothing to save or no file it can
open, and then changes nothing. `saved` is history: the spawns of the last save that wrote the
file, but those at the origin.

*Abstractions.* In `PugMod` single ballots are left out: a vote ends with any result its `Stop` can
act on, and with "no votes" only at the deadline. Ready marks and the countdown are
"enough players are there". Players are counted, not named. Printing, HUD, sounds,
scoreboard messages and configuration files executed by `SetState` are left out.
The order of callbacks within a second is free.

## 3. What the runs check

Passing runs:

| Run (module) | Setting | Shows |
|---|---|---|
| `Match` (`MCPugReport`) | 2v2, all votes, knife round, 6 rounds, overtimes of 2, CPugTimer | types; scores follow rosters; no extra round; sides swap exactly at the right halftimes; under fairness a decided match ends and a team vote leads to a counting game or the warm-up; `PugMod` implements `MatchRules`; and the report has the score, rounds and winner of the match all along |
| `SuddenDeath` (`MCPugPause`) | 1v1 with pauses, `pug_rounds_ot` 3, CPugReady, fixed shuffle, a map vote, changes of level | with an odd overtime there is none; a pause holds its round, ends, and gives back the buy time |
| `Churn1` (`MCPugMod`) | 1v1, players join, leave, surrender and use the vote menu at any time, an admin forces a half or the end, ties put to the vote (`pug_ot_type` 0) whose result may come in a round that is on | halves still count, none is live between its restarts but by the end of an overtime vote, and complete halves still have an exit |
| `Captains` (`MCPugMod`) | 2v2 with a map vote, captain pick, and leavers | the vote and the pick always lead somewhere |
| `Leavers` (`MCPugLeavers`) | an ordinary player, one with a LAN SteamID who shares his address with an admin | the list of leavers is looked at on every level, every leaver is forgiven or banned some time, nobody is banned who is back in the game, who did not change sides comes back to his |
| `VoteMenu` (`MCPugVoteMenu`) | three slots, three connections, all six items | ballots belong to who is in the slots; votes on the match pass only with the percentage, in votes of this half, whoever an admin or the balance moves meanwhile |
| `Stats` (`MCPugStats`) | a player who comes and goes as he likes, and whom an admin and the balance move, halves of 2 rounds and of 1 in overtime, LO3 restarts with rounds won in between | who stays is reported with exactly his rounds and his rosters' wins, nobody with more than there were, and the flags of the winners are right at the end, for who came back in time too |
| `Round` (`MCPugRound`) | two players against one, who share two slots | hits belong to the players in the slots; trades and Versus are of this round |
| `SpawnEdit` (`MCPugSpawnEdit`) | two admins with menus of any age, changes of level, queued loads, saves that fail, a spawn at the origin | marks stay on their spawns, entities on spawns, and the deathmatch ends with what was saved, but the spawn at the origin |
| `Votes` (`MCPugVotes`) | three slots for two players, a newcomer and a bot, skills from -1 to 2 | only those who were asked vote, and once; the shuffles leave the teams even |

Runs that find a violation, each a disagreement between the code and what its own text
says (`findings` in `PROJECT.json` quotes both):

| Run | What it finds |
|---|---|
| `OvertimeVoteTie` | the overtime vote runs beside the next round; that round can break the tie the vote is about, and the overtime is played anyway |
| `Surrender` | a surrender ends the match with a score that the statistics never hear of: the report names another winner, or none |

### The properties, briefly

*Scores*: `ScoreFollowsRoster`, `OvertimeHalfSwaps`, `KeepsTheRules`. *Counting*:
`LO3EndsLive`, `LiveAfterLO3`, `NoExtraRound`. *Deciding*: `OvertimeFromTie`,
`OvertimeNeedsEvenRounds`, `EndHasWinner`. *Going on*: `CompleteHasExit`,
`PhaseHasDriver`, `DecidedMatchEnds`, `TeamVoteSettles`. *Pauses*: `PausedRoundWaits`,
`PauseGivesBack`, `PauseLifts`. *Report and statistics*: `ReportFollowsScore`,
`ReportNamesWinner`, `RoundsAreReported`, `NoRoundTooMany`, `WinnersAreFlagged`, `HitsBelong`,
`TradesAvenge`, `LoneWinsVersus`. *Leavers*: `ListIsWatched`, `BannedAreAway`,
`LeaverIsSettled`, `ReconnectKeepsSide`. *Ballots*: `VotesBelong`, `DecidedByMajority`,
`OneVoteEach`, `TeamsAreEven`. *Spawns*: `MarkIsTheSame`, `SavedSpawnsArePlayed`. One type
invariant per module: `TypeOK`, `PauseTypeOK`, `StatsTypeOK` (which contains `RulesTypeOK`),
`RoundTypeOK`, `LeaverTypeOK`, `VoteMenuTypeOK`, `VotesTypeOK`, `EditTypeOK`.

### Bounds, and why they are enough

* `MaxRound` ends a match that would go on in overtime for ever. With 6 rounds and
  overtimes of 2, twelve rounds hold two halves, and three overtimes. The rules read scores
  only by comparing them with half lengths, and an overtime starts from zero.
* Halves of `PugMod` have 1, 2 or 3 rounds: 1 is the boundary; 2 can be tied at its end, 3
  cannot and has rounds that neither end nor begin the half.
* Seconds: the relations between delays matter, not their size. In `Match` the vote is
  shorter than the restart delay, the restart delay is longer than the freeze time, and
  the transition (restart delay + 1) falls into the freeze time after the restart, as
  with the shipped configurations (delay 5, freeze time 15 in `esl.cfg`). The knife
  round's own delay is longer than the chain from its vote to the first half. Other
  runs use 1 or 2 seconds to keep their interleavings in reach.
* Players: 1v1 gives empty sides and lone voters at once; 2v2 gives incomplete sides
  that still play, and the pick.
* A pause of 3 seconds spans the restart of a round and the transition after it.
* `AdminStates` of `Churn1` has two of the states that the menu offers: a half and the end are
  those that start and stop what runs beside them; the team vote, which delays it, opens in
  the course of every match. The theorems about the LO3 hold for all of them.
* `Stats`: no entry of `m_Player` is read to write another, so one player shows what can happen
  to any of them; the theorems hold for all. `MaxRounds` 6 leaves two rounds of the LO3 beside
  a match with both halves, or an overtime. `TransferRounds` 3: an admin moves players
  before, in and after the first half and in the second.
* `Round`: a trade needs two players against one, and slots that change hands fewer slots than
  players. A trade window of 0 seconds still tells a kill of this second from an older one.
* `PugLeavers`: a level lasts at least a second of its task, and a leaver has one second;
  an ordinary SteamID, a shared one, and an admin on a shared address are all the kinds
  of key the code tells apart. `Slow` has the ordinary player: only he is seen
  loading a level, the others are in the game at once. The match takes the shortest ways through its states.
* `PugVoteMenu`: with `pug_vote_percent` 70, two votes are enough of two players and not of
  three. `LO3Restarts` is 2 where the code restarts four times; each clears the same.
* `Votes`: three players are the fewest with which the second shuffle passes over one;
  `MaxClients` 5 keeps the array more than half empty, as ten players of 32 do. Three skills
  (none, low, high) give every order and every tie of three players.
* `SpawnEdit`: three spawns let one before, at and after a mark be deleted and its index be used
  again; two loads wait at a time, and the spawns of the deathmatch may be loaded twice up to
  `MaxList`. `NearOrigin` has the spawn that may be set at the origin: one between others.
* Slots, players of one kind and admins are symmetric where the run has no liveness.

### Fairness

`FairSpec` of `PugMod` has weak fairness for what runs every frame or by the engine itself: `Tick`,
`RestartRound`, `TaskFires`, `VoteStops`, `WaitEnds`, `Picks`, `ServerDeactivate`,
`ServerActivate`. `DLL_POST_StartFrame` is called every frame, so an expired deadline is
seen in the next one, and time passes by itself. A vote's `Stop` and the pick's choice are
fair because both have a deadline (`CPugLeader` picks at random for a captain who does
not). Nothing is assumed of players: none has to join, win a round, vote or leave. The
liveness properties therefore start after the last thing that players decide.

`FairReportSpec` has the same (the statistics hinder no callback), and `FairPauseSpec` has it for
the composed actions and for `TimerFires`; nobody has to ask for a pause. `FairSpec` of
`PugLeavers` has it for the task, the start of a level and the clock; leavers need not come
back, and levels need not end. The other modules claim safety only.

Deadlock is checked in every run.

## 4. What is proved

All theorems hold for every value of the constants that meets the assumption of the
module (`ConfigAssumption` in `PugMod`, `RulesAssumption` in `MatchRules`, and so on) and the
hypotheses a theorem states: any number of rounds, players, slots, seconds.

### The match, whatever admins and players do (`PugModProofs`)

| Theorem | Says | Argument |
|---|---|---|
| `TypeCorrect` | `Spec => []TypeOK` | `TypeOK` is inductive. Lemmas give the type of every `PugTask` operator, and others that of every `Enter...` case; `SetState` combines them. The hard part is that players stay within a side's limit, for which `BalanceTeams` is shown to keep the sum |
| `LO3AlwaysEndsLive` | a playing state without a pending LO3 restart counts its rounds | `CountInv`, inductive together with `TypeOK`: the property, that the slot of the restarts never repeats (`RestartsOnce`), and, where ties are not voted on, `Quiet`: during the restarts the game is not live and no sudden death can be chosen. The work is in showing that each of the ten other callbacks that write the slots or the two flags either leaves a playing state, starts the restarts, or keeps what they left |
| `WarmupNeverCounts` | the converse, while ties are not voted on (`OvertimeType # 0`) | the second part of the same invariant. The hypothesis is necessary: an admin may restart a match whose overtime vote is pending, and the sudden death it then chooses makes the game live between two restarts (`PugVoteOvertime.cpp:129`) |
| `RestartsAreNotLive` | the action property `LiveAfterLO3`, without that hypothesis: nothing but the end of an overtime vote makes the game live between the restarts | in the same proof: what each callback does to the slot of the restarts and the flag, `LO3Fires` by `RestartsOnce` |
| `PhaseAlwaysHasDriver` | no phase waits for nothing | `DriverInv`: the property, and `NeverDead`: neither the slot nor the waiting phase asks for `STATE_DEAD`. Whatever drives a phase ends by asking for the next state, so that it may be forgotten only for a request that is already in the slot. Needs a waiting phase (`ReadyType # 0`, without which too few players at halftime leave nothing to wait for) and that no admin forces `STATE_DEAD`, which the code leaves only at the next level |
| `RegularHalvesHaveExit` | a regular half that is complete or decides the match has its way out in the slot | `RegularExits` is inductive with `CountInv`: a slot that fires changes the state, a surrender or a round that completes a half writes it, and a restart that clears the half undoes the completion |
| `CompleteAlwaysHasExit` | so does an overtime, while ties are not voted on (`OvertimeType # 0`) | `OvertimeExits`, in the same way, with `NoWayBack`: nothing leads from a decided overtime back into one, neither the slot nor the waiting phase asks for it. With votes, the answer to one that an earlier tie opened may enter the decided overtime again, whose scores `SetState` keeps |
| `PauseTypeCorrect` | `PauseSpec => []PauseTypeOK` | inductive; a pause saves what a configuration or the pause before it had set |
| `PauseHoldsRound`, `PauseRestoresBuyTime` | the two action properties of `PugPause`, while ties are not voted on | `PauseKeepsCount` first: a pause only freezes rounds, so `TypeOK` and `CountInv` hold beside it. Then `HeldInv`: an ordinary pause is of a live half whose round is on, the seconds left of the round and those the pause has lasted add up to `PauseTime + 1`, its task repeats and is due when the time is up, and it saved the buy time of the half. Neither property is inductive without that sum. What could disturb the round (`LO3Fires`, `VoteOvertimeFires`) is excluded by `CountInv`. The hypothesis is necessary: with votes, a sudden death in the middle of the LO3 restarts lets a pause start that they cut (TLC finds it with `FreezeTime` and `RestartDelay` 0) |

### The match, left alone (`PugModRulesProofs`)

Three hypotheses, each a condition on the settings only:

* `Undisturbed`: nobody joins or leaves a match nor uses the vote menu (`~Churn`), no admin forces a
  state, ties are not put to the vote, and `VoteDelay + 3 < KnifeDelay + FreezeTime`: the vote of the
  knife round's winners and the two transitions around it are over before the next knife round can
  be won. The shipped files have `pug_vote_delay` 15, `mp_round_restart_delay` 99 in
  `kniferound.cfg` and a freeze time of 15. Without it a second knife round opens a second vote,
  which can end in the first half and start it again.
* `RegularMatch`: also `FreezeTime >= 2` and an even `Rounds`. With a freeze time of one second a
  round can be won before the transition fires (TLC finds it); with an odd number of rounds a tie
  leads to the second half again (`PugMod.cpp:193`).
* `TiesGoOn`: `pug_ot_type` 1 with an even number of overtime rounds, which is what the rules are about.

| Theorem | Says | Argument |
|---|---|---|
| `ScoresFollowRosters` | a side's score is what the roster on it won | `FlowInv`, then `ScoreInv`. `FlowInv` says that one thing at a time moves the match: where `SET_STATE` is scheduled no vote, pick or waiting phase runs, each vote runs in its own state only, and a knife round that is won waits for its vote. So the shuffles of the team vote and the swap of the knife round's vote never meet a score: outside a match nothing is won (`WonInMatch`), and halftime moves scores and rosters together |
| `NoRoundTooMany` | nothing is won between the round that completes a half and the transition it asked for (`FreezeTime >= 2`) | `HalfWaits`: the transition is nearer than the end of any round (`RoundTime`, the rest of the round's delay and the freeze time after it), and no LO3 restart is left to change either |
| `OvertimeIsEven`, `OvertimeAfterTies`, `HalftimeSwaps` | the invariant `OvertimeNeedsEvenRounds` and the action properties `OvertimeFromTie` and `OvertimeHalfSwaps` (the last for overtime halves of an odd number of rounds) | `CourseInv` describes each state of the match by what has been played: the first half up to `HalfRounds` with nothing of the second or overtime; the break, either after the first half or after even halves; the second half within reach of a win; overtimes after even halves, with the same lead in the score of all overtimes as in that of the last (`SameLead`); and what the slot holds in each. It is inductive with `FlowInv`, `ScoreInv` and `HalfWaits`. Swaps leave it as it is, since it never names a side |
| `PlaysByTheRules` | `Spec => KeepsTheRules`: `PugMod` implements `MatchRules` (`RegularMatch`, `TiesGoOn`) | the refinement mapping reads scores as those of the rosters. `RoundsRead` and `OverRead` translate what the rules ask of rosters into sums over sides; `WinRead` and `SwapRead` what a round and a halftime do to them. Then each callback is a step of the rules or stutters: a round that counts is `Win` (no half can be over, by `HalfWaits` and `CourseInv`), a transition is `Start`, `Break`, `Resume`, `Finish` or `Forget` as `CourseInv` says what has been played, and everything before a first half is invisible because nothing is won there |
| `ReportedAsPlayed` | `ReportSpec => []ReportFollowsScore` (`RegularMatch`, `FreezeTime >= 3`) | `ReportRefines`: beside the report the match goes on as it does alone, so all of the above holds of it. `ReportInv` is inductive with it: the report's score is that of the match from the first half to the end, and the winner is named as soon as a half asks for its end, not only when it is reached. `CPugStats` counts every round won, `CPugMod` none of the LO3 restarts, and `WarmupWaits` says that there are none to count: the next restart is nearer than the end of any round. That needs a round to be frozen for the three seconds between restarts; with two TLC finds a round that only the report has |

### The rules and the statistics (`PugStatsProofs`)

| Theorem | Says | Argument |
|---|---|---|
| `WinnerAtTheEnd` | in `MatchRules`, a match that is over has a winner, for halves of any length | `RulesInv`: rounds of a half that has not begun are won by nobody; two rosters never both have a deciding lead; an overtime and the breaks around it are reached only from equal regular rounds |
| `OvertimeAfterTie` | in `MatchRules`, overtime follows a tie | from `RulesInv` |
| `StatsKeepRules` | the match beside the statistics is one of `MatchRules` | step by step; with it `RulesInv` can be used below |
| `StatsType`, `ReportedRounds`, `ReportedAtMost`, `ReportedWinners` | the four invariants of `PugStats`, for any number of players | `StatsInv`, inductive together with `RulesInv` and `BreakIsOpen`. The properties are not inductive alone: a round is credited right only if the stored team of who was not moved by an admin is the side that he plays on (`TeamsAreStored`), whom the balance of halftime has moved has his first half in the account of the other roster (`RosterIn`), a reset undoes nothing that counted only if a half's LO3 is over before its first round (`HalfIsFresh`), and the flag of a winner is right only if the score of the report has the lead of the match through every swap of sides (`ScoresAgree`), which needs to be known from the round that decides the match on (`FlagsFollow`) |

### The other components

| Theorem | Says | Argument |
|---|---|---|
| `RoundType`, `OwnHits`, `OwnTrades`, `OwnVersus` | the two invariants and the two action properties of `PugRound` | `RoundInv`: a slot belongs to one client; the column of a slot is empty until somebody enters the game on it (`ColumnsAreClear`), without which the clearing of the row in `GetIntoGame` would not be enough; once a round is played its victims and Versus are of this round (`RoundIsNew`) |
| `LeaverTypes`, `LeaversAreWatched`, `NobodyHereIsBanned`, `SideIsKept` | the two invariants and the two action properties of `PugLeavers` | `LeaverInv`: leavers are listed by the key that a ban uses; the check repeats; the side saved of a player who was only ever on one is that side |
| `VoteMenuTypeCorrect`, `BallotsBelong`, `MajorityDecides` | the type invariant of `PugVoteMenu`; a ballot is one of the connection in its slot, and one to kick is about the connection in the target's slot; in a half that has begun to restart no vote on the match passes without its percentage, of clients who are there and voted in this half | `IInv` adds that a ballot names slots that were occupied. Without it `Connect` is not covered: who takes over a free slot would inherit the ballots that name it. Every ballot of such a half is cast in it (`BallotsAreNew`: a change of state schedules a restart, which clears the table), and a ballot is its voter's, so the votes that the code counts are those in favour (`InFavourIsCounted`) |
| `VotesTypeCorrect`, `EveryoneVotesOnce` | in `PugVotes` tallies, voters, menus and sides keep their types, and who votes is asked and votes once | `VotesInv`: a client is in one slot; who is shown an open ballot and may vote (`MayVote`) was asked and has not voted; the tallies add up to the number of who voted (`VotedOnce`). A ballot closes its menu, and a vote that begins empties the list of who has voted |
| `ShufflesAreEven` | the action property `TeamsAreEven` of `PugVotes`: both shuffles leave the teams even or one apart, for any number of players up to half of the array, in any slots and with any skills | `SidesInv` (nobody is on a side in a free slot) makes it a matter of the players alone. At random: an order is a bijection from the places 1 to n, of which as many are odd as even or one more (`OddsAndEvens`, `RandomShuffles`). By skill: the loops keep `Todo`, which says that who has left the list was put on the team whose turn it was (`MovedKeeps`, `SweepKeeps`), and they leave nobody in the list (`EveryoneIsMoved`): the skill of the slot 0 is 0, so each sweep for a skill of 0 moves the first player who is left, and there are as many of those sweeps, in a row (`ZerosInARow`), as slots without a player, which are at least as many as the players (`ZerosAreEnough`, the one place that needs `HalfIsEmpty`). That a recursive function exists, and that what its steps keep holds at its end, is proved once (`Iterated`, `UpTo`) |
| `EditTypeCorrect`, `MarkStays`, `SavedIsPlayed` | the invariants of `PugSpawnEdit` | `EditInv`: a mark is of a spawn that exists and is the one picked, which the deletion of any spawn keeps by clearing the marks on it; so an index that is used again is marked by nobody. For the file: its lines other than 0 0 0 are the spawns saved last (`FileIsSaved`), the list of the deathmatch holds nothing else (`ListIsSaved`), and a save gives every index one spawn and every spawn one index (`Before`, `IndexAfter` and `RankIsOnto`, by counting) |

### Only model-checked, and why

* all liveness (`DecidedMatchEnds`, `TeamVoteSettles`, `PauseLifts`, `LeaverIsSettled`), and
  everything that rests on fairness or `ENABLED`: out of the prover's reach;
* the properties of the violation runs, of which `OvertimeFromTie` is true, and proved
  (`OvertimeAfterTies`), where ties are not put to a vote.

## 5. Limits

Known places where a property holds in its run and would not hold everywhere:

* `ScoreFollowsRoster` and `ReportFollowsScore` are checked and proved without churn. With it, a team
  vote or an end vote that outlives its state can swap or shuffle sides in the middle of a match.
* `PhaseHasDriver` needs a waiting phase, or full teams: with `pug_ready_type` 0 and too few
  players at halftime nothing leaves it (`PugMod.cpp:195-206`).
* `NoExtraRound` needs a freeze time longer than the second between the restart of a
  round and the transition, as the shipped configurations have (`NoRoundTooMany`).
* `KeepsTheRules` needs an even `pug_rounds`: with an odd one a tie after the second half is
  fewer rounds than `GetRound()` is compared with (`PugMod.cpp:193`), and the second half
  is played again. It speaks of ties that go to overtime.
* `OvertimeHalfSwaps` needs overtime halves of an odd number of rounds: others can be tied at
  their halftime, which `SwapTeams` takes for the start of an overtime
  (`PugMod.cpp:296`, REVISION.md M27). The statistics make the same guess.
* `MatchRules` has no match that is cancelled; `PugStats` therefore has none either.
* The LO3 restarts go on in the deathmatch when a match is cancelled during them
  (REVISION.md M35).
* `ReconnectKeepsSide` is about players who were on one side only since the level began: who leaves before and again after
  halftime is sent to the side he had first (`PugTeamManager.cpp:111`, REVISION.md:141).
* `PauseGivesBack` is about pauses whose half goes on: one that begins in the last restart of a
  half outlives the halftime and leaves the next half without buy time (REVISION.md:148).
* `DecidedByMajority` says that no vote passes without the votes. The converse fails: two of three
  vote, the third leaves, and nobody counts again. Votes to restart or cancel count every slot
  (`PugVoteMenu.cpp:494-500`, `563-569`), so the ballot of a player whom an admin has made a
  spectator since he voted counts for the property too: with him, one of two players may be
  enough. Kicks and maps count every slot as well, and ballots of any time, those of former
  teammates among them (REVISION.md M26): the property leaves them out. It begins with the first
  restart of a half: in the moment before it, ballots of the state before still count.
* `RoundsAreReported` and `WinnersAreFlagged` speak of players whom no admin has moved
  (`PugAdminMenu.cpp:385`): of those `CPugStats` may have the side they were on before, and wins
  of both rosters in one half. `NoRoundTooMany` holds for them too.
* `LiveAfterLO3` excepts the end of an overtime vote. The code does count a round of the LO3 then:
  a tie schedules the vote, an admin restarts the match, the vote opens in the new first half, and
  its sudden death sets `m_bGameStarted` while the restarts run (`PugVoteOvertime.cpp:129`),
  although the players were told "LIVE ON NEXT RESTART" (`PugLO3.h:10`). TLC finds it within seconds as
  a violation of `WarmupUncounted`, with `OvertimeType` 0, `AdminStates` {6} and without churn.
* `OneVoteEach`: the vote still waits for who has left, until its deadline, and a vote that asks
  nobody keeps the tallies of the last one (`PugVoteTeam.cpp:83`).
* `TeamsAreEven` needs half of the array of skills to be empty (`HalfIsEmpty`: up to 16 players of
  32 clients); in a fuller one there are too few skills of 0, and the sort can leave players where
  they were (with 5 players of 6 clients, for one). It says nothing of the order: the skill of a
  player is looked up by his place in the list instead of his slot (`PugVoteTeam.cpp:346`), so the
  teams are even in number only.
* `WinnersAreFlagged` leaves out who was away at the end, and matches in which a round was won in
  an LO3: the score of the report is not reset with it. In overtime the counters of players are
  not reset either.
* `LoneWinsVersus` and `TradesAvenge` speak of rounds that are played: a round that ends in its
  freeze time is credited with what is left of the round before. Versus is overwritten at each
  death, so its size is that of the last one.
* `SavedSpawnsArePlayed` leaves out spawns less than a unit from the origin of the map: the editor
  writes them as 0 0 0 (`PugSpawnEdit.cpp:682`), and the deathmatch drops them without a word
  (`PugDM.cpp:34`). It compares sets: two saves before the engine runs the file leave every spawn
  twice in the list. Who respawns in between finds no spawns and switches `mp_freeforall` off
  (`PugDM.cpp:160`). A newcomer in an admin's slot inherits his mark.
* `BannedAreAway` speaks of players in the game: one who is back but loads the level when his time
  is over is banned all the same, if his slot is new on it. And it speaks of SteamIDs: an address is banned with its leaver, whoever
  shares it.
* Nothing reads `pug_vote_end` (the end vote always opens, `PugMod.cpp:440`) nor
  `pug_player_vote_pause`, `_restart`, `_cancel` and `_surrender` (`PugCvar.cpp:344-368`).

### Not modelled

The engine's own changes to `m_bGameStarted` (it starts a game when both sides have players)
and everything listed as `not_modelled` or named in a note in `PROJECT.json`. `PugMod`
counts players, and has no admin who moves one from side to side. The engine's
`SwapAllPlayers`, `BalanceTeams` and `TerminateRound` are modelled from how `PugMod.cpp` uses
them. Most of the repository's lines are vendored: `json.hpp`, the headers of libcurl, and the
SDKs of the engine, ReGameDLL and metamod (`PugMod/include`) are 60 of its 76 thousand lines of C++,
and none of them is this program. Of its own code what remains is of three kinds: text (menus, messages,
status, the JSON of a report), counters that one statement of a combat hook adds to, and single
calls to the engine (weapons, grenades, demo, admin commands).

## 6. What could follow

* `CPugLeader` with named players: that nobody is picked twice, and the two sides and the pool
  are disjoint.
* The walk of `CPugTask::StartFrame` over several tasks due in one frame, in the order of their
  slots; here they fire in any order, which includes the code's.
* A match of `MatchRules` that may be cancelled, and with it the statistics of one.
