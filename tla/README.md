# Gambrole: models, checks and proofs

Gambrole keeps the score and the money of two table games, Taidi (Big Two) and
Singapore Mahjong. Players sit round one table with a phone each; a FastAPI
server stores every room as an append-only log of events; the room is the fold
of its log. This directory models the two game engines, the path a command takes
from a phone to the log and back, what the screens offer in which room, what
happens to the money after the game, and the state people share around the
games: rooms they are in, friends, groups, accounts and profiles.

Paths below are those of the repository (without the `src/` prefix).

## 1. The system

| Component | State | Operations | Talks to |
|---|---|---|---|
| Taidi engine `core/taidi_core/machine.py`, `models.py`, `rules.py` | `RoomState`: status, seq, host, members with seats, rules, rounds (phase, winner, card counts, special hands, transfers), balances, departed | join, add and remove guest, leave, disband, start, claim win, submit cards (own, for another), special hand and its undo, void last round, step out, end | pure; called by the routers and by the stale-room backstop |
| Mahjong engine `core/mahjong_core/*` | `RoomState`: status, seq, host, members with seats, rules, hands (wind, dealer, closed, winner, gangs, transfers), balances, pending wind decision | join, guests, leave, disband, assign seats, start, yao, gang, angang, hu, no-win, continue wind, end | as above |
| Dispatch `api/app/dispatch.py`, `routers/rooms.py`, `routers/mahjong.py` | one request: snapshot, attempt | load, validate (seq or pin, acting for a guest), append, retry | engines, event store |
| Event store and read model `api/app/events_store.py`, `db.py` | tables `events` (unique room and seq), `rooms.status`, `room_participants`, `guests`, `settlements` | create room, rebuild, append with projections in one transaction, find active room, close a stale room | PostgreSQL |
| Settlement `core/*/settlement.py` | none | `minimize_transfers`, `pairwise_net` | event store |
| Debts `api/app/debts_service.py` | `settlements.status` | mark paid, approve, reject, settle with a guest | guests, identity |
| Guest claims `routers/guests.py`, `identity.py` | `guests.claimed_by` | preview, claim, remap of a folded room | event store, debts |
| Friends `api/app/friends_service.py` | `friendships` rows | request, accept, decline or withdraw, unfriend | users |
| Groups `api/app/group_service.py` | groups, members, owner, code | create, join by code, leave, remove, rename, rotate code, delete | rooms |
| Accounts `account_service.py`, `users_service.py`, `profile_service.py`, `auth.py`, `routers/local_auth.py` | users, deleted accounts, handles, tokens | sign-in, ensure user, set handle, delete account | all of the above |
| Reports: statistics, history, notifications | none (folds of finished rooms) | read only | event store |
| Room screens `web/src/app/room`, `lib/usePolling.ts`, `lib/api.ts` | the state shown, one command in flight, one poll in flight, the picked guest, the opened flow, the picked seat | tap, retry after 409, poll, time out | API |
| Pages: debts, friends, groups, settings, new room, sign-in | a copy of what was last listed, requests under way, forms | tap, save, put back, refresh | API, the token stored on the device |
| Rate limiter, migrations and scripts, legacy Streamlit application, iOS shell | | | |

### What is hard in it, and what makes it correct

* **Engines.** One command may emit several events (a last card count resolves
  the round; stepping out voids, departs and ends). Long legal sequences matter:
  undo after undo, special hands carried over between rounds, people leaving
  with the host's title or in the middle of a count, the wrap of the deal at the
  end of a wind. Correct means: an open room always has someone who can go on or
  close it, rounds and hands keep their order, and balances are at every moment
  what the recorded payments add up to.
* **Dispatch and phones.** Requests interleave between reading the log and
  appending to it; answers, polls and retries arrive late or never. Correct
  means: the log is a run of the engine whatever the interleaving; a command
  lands on the state or the round its player saw; a phone never goes backwards
  and never waits for ever.
* **Event store.** The status column is written with the events but also corrected
  from stale reads; stale rooms are closed by whoever looks. Correct means: a
  player is in one open room, whatever the column says meanwhile; a game is
  settled once.
* **Debts, claims, friends, groups, accounts.** Request handlers read, decide and
  update in separate statements of READ COMMITTED transactions; only some of the
  updates are guarded. Correct means: debts are closed by those entitled to, one
  person holds one seat of a game, a friendship has two consenting sides, a
  group has an owner who belongs to it, a deleted account stays deleted.
* **Pages.** A page acts on what it last listed; saves cross loads, answers come
  after the page is gone or another account has signed in. Correct means: what
  is offered is what the API would do, unless something has happened since; what
  is shown once all is answered is what is stored; a form and the API agree on
  what is valid.

`PROJECT.json` lists every hazard with its line and the properties about it.

## 2. Modules

| Module | What it is |
|---|---|
| `Seating` | the lowest free seat and members maps, shared by both engines |
| `TaidiRules`, `MahjongRules` | card counts and declarations to payments, limits of the rules |
| `TaidiRoom`, `MahjongRoom` | the engines: one action per command |
| `TaidiScreen`, `MahjongScreen` | the room screens as functions of the room shown: which buttons are live and what they send |
| `Dispatch` | phones, requests and the log, around `TaidiRoom` |
| `MahjongPhone` | one phone at a table that plays on: open flows, picks, a command under way, around `MahjongScreen` |
| `Clearing` | what a settlement promises: payments between those who still owe and those still owed |
| `Settlement` | the loop of `minimize_transfers`, and `pairwise_net`; implements `Clearing` |
| `Debts` | the rows a game leaves behind, and the claims of its guests: one action per statement of a handler |
| `Polling` | `usePolling`: one poll under way, answers dropped or painted |
| `DebtsPage` | the Debts page of one account, over `Debts` and `Polling` |
| `RoomStore` | the one-active-room rule over the stored rooms, statement by statement |
| `Friends` | friend requests and the Friends pages |
| `Groups` | a group, its members, codes and pages |
| `SignUp` | signing up with a username, on each page that has the form, while usernames are given out |
| `SignIn` | sessions, names, passwords, reset links and deletion of the API's own accounts, on several phones |
| `Profile` | your profile on the device against the profile stored |
| `NewRoom` | the form of a new room against the API's validators, and the deploy window |
| `MC...` | values for TLC |
| `Sums` | what sums of integers over finite sets come to, for the proofs about money |
| `TaidiRoomProofs` | theorems about `TaidiRoom`, `TaidiScreen` and `Dispatch` |
| `MahjongRoomProofs` | about `MahjongRoom`, `MahjongScreen` and `MahjongPhone` |
| `SettlementProofs` | about `Settlement` |
| `DebtsProofs` | about `Debts` and `DebtsPage` |
| `RoomStoreProofs` | about `RoomStore` and `NewRoom` |
| `FriendsProofs` | about `Friends` and `Groups` |
| `SignInProofs` | about `SignIn`, `SignUp` and `Profile` |

### TaidiRoom and MahjongRoom

The state is a record with the fields of `RoomState`. The source separates a
command function (validate and return events) from `apply` (change the state by
one event); so do the models: every event type is an operator from rooms to
rooms (`RoundVoided`, `PlayerSteppedOut`, ...), every command a guard
`Can<Command>` and a result that composes the events it emits (`DoStepOut`), and
every command is one action with the room as the only variable. Because guards
and results take the room as an argument, `Dispatch` evaluates them on
snapshots, and the screens are compared with them.

Abstractions: a player is a model value, and a guest is a member of the constant
`Guest`. The transfers of a Taidi round are a set (no two agree on payer,
receiver, kind and claim). The hands of Mahjong keep what each player won or
lost, in cents, instead of the list of transfers. Timestamps, event ids and
texts are left out; so is the code that replays special hands recorded before
`claim_seq` existed.

Of names one thing is kept: `display_name` gives each player a name as
`add_guest` compares them, case and spacing apart, and `None` to a guest whose
name it would not take, empty or too long. `CanAddGuest` refuses these and a name
that somebody at the table has (`NameTaken`). The form does not send the
former (`Enterable`), but it does send the latter.

### TaidiScreen, MahjongScreen and MahjongPhone

A screen is a function of the room: `LobbyCommands`, `TableCommands`, the flows of
Mahjong (`FormsFor`, `Submits`) are sets of the commands it can send, with the
caller and the player they are for. `Accepts` is what the router and the engine
make of such a command in a room. So the screens add no state, and the runs of
the engines ask in every room they reach whether what is offered is accepted
(`OffersAreAccepted`) and whether what has to be entered can be
(`EveryTurnCanBeEntered`). One offer may be refused: a guest's name that is taken,
which the form does not compare with the names on the list.

What may be declared is set against what can be tapped: `Wins` are the wins there
are (own draw or another's tile, from any seat, at any tai up to the limit) and
`Declarations` all that a player is entitled to, written from the engine's side;
`FormsFor` are the forms that taps lead to from the first one, and `Submits`
what such a form sends. No form needs more taps than there are tai levels, and two.

`MahjongPhone` adds the state a phone does keep: the room it shows, `useState`
(the seat and the guest picked, the flow opened and for which hand, the
confirmation asked), and one command with its pin and its attempt. A component
that is no longer drawn forgets (`Redrawn`). The others play on as the actions
of `MahjongRoom`. `aim` is a history variable: the hand on the screen and the
player picked when the latest flow was opened. No step reads it, so that
`FlowHitsItsHand` compares where a declaration lands with where it was meant to
go, not with the pin it carries.

### Dispatch

`room` is the fold of the stored log. A request goes through the stages *arrived*,
*loaded* (it holds a snapshot), *done*, or *lost*. `Load`, `Refuse`, `Commit`,
`Collide` and `GiveUp` are the loop of `dispatch()`; a commit succeeds exactly if
the seq after the snapshot's is still free, which is the unique constraint on (room,
seq). A phone has one command in flight (`inFlight` in `useRoom.ts`), retries an
unpinned command once against the state a 409 brought (the Join button too; the
phone that joins by itself after a link was opened drops the 409, which to the model
is a time-out), never retries a pinned one, may time out while its request lives on,
and paints nothing older than what it shows. `CommitsAreCommands` says that the log
is a run of `TaidiRoom`: the abstract specification is the room machine itself, the
refinement mapping is the identity on `room`, and every other step stutters.

Fairness. A server step of a request that has arrived is eventually taken
(uvicorn runs every handler to its end), and an answer eventually reaches a
phone that still waits. Nothing is assumed of taps, polls and time-outs. Without
a bound on attempts the liveness property would fail; the mutant of `GiveUp`
shows it.

### Settlement

A game is its transfers and the balances they left. A step is an iteration of the
`while` loop: the variables are the amounts left to
pay, the two sorted lists, the two indices and the payments made. Sorting leaves
the order of equal amounts open, so `Init` takes every order the sort may
produce. `Clearing` knows nothing of lists and indices: the refinement mapping
keeps the amounts left and forgets the order of the payments. `pairwise_net` is
an operator on the transfers, without an order to go wrong. The only fairness is
weak fairness of the iteration: nothing else runs in the function.

### Debts and DebtsPage

The variables are the status of each settlement row, the account that claimed
each guest, and the request each handler is working on. A handler runs its
statements one by one, and other handlers run in between: `ReadRow`,
`Authorise`, `UpdateDebt` for paid, approve and reject; `FindParty`,
`LookAtGuest`, `UpdateDebt` for settle; `LoadRoom`, `CheckSeats`, `UpdateGuest` for
a claim. An `UPDATE` is atomic and its `WHERE` is evaluated when it is executed,
which is what READ COMMITTED gives; the folded room that a claim reads does not
change any more after the game, so it is a constant. Rows appear with
`GameEnds`. A handler that has answered is free for another request, so there is
no bound on the number of requests. `ClaimsOverlap` says whether one account may
have two claims under way (see the findings).

`DebtsPage` is the page of account `Me`: it polls through `Polling`, and its moves
take the same handlers. Only the row tapped last is disabled, so that several
moves may be under way. How long the timer of a poll runs (interval, back-off, a
hidden tab) is not told apart: a poll may start whenever its timer is set.

### RoomStore

A room has its log (here: the status it folds to, whether a round is being
counted, and its seq), its `rooms.status`, and whether the followed person is in
it and has a row in `room_participants`. A search (`find_active_room_state`) takes
the candidates by column, rebuilds them one by one (`_confirm_candidate`), closes
a stale one (`_maybe_close_stale_room`, which may collide and read again), writes
the column back if it differs from what was read at first (`Confirmed`), and the
create or the join that asked follows as a step of its own. In between the
members of the rooms go on playing and other people's searches close and correct.
Commands of a room are atomic here, which the theorem `StoredEventsAreARun` justifies.

### Friends and Groups

`Friends` has a page per person, which shows what its last refresh listed. A tap
makes a call with the row the page showed; the call reads, then writes: `add` may
find the other's request and accept it, or insert and lose against the unique
index and look again, once. A call given up on by the phone is still carried
out. Two history variables, `wanted` and `added`, record who tapped and whose
request has taken effect.

`Groups` follows one group. Who owns it and how many it has is read first and
used later; codes are numbered in the order they are issued, and anyone may use a
code once seen. `crossed` remembers whether a departure overlapped another or a
change of the owner's.

### SignUp, SignIn and Profile

`SignUp` has a phone for each newcomer and the claim of the username after the
sign-up, and, in step with it, the first request of the top bar, at which
`ensure_user` gives a username to whoever has none. `LocalMode` tells accounts of
the API from those of Supabase, whose form signs the phone in before it claims;
`ConfirmEmail`, whether Supabase lets nobody in before the address is confirmed, in
which case the form stops there and claims nothing. The form is on the home page
and on the pages that claim a guest and join a group (`Pages`); only the first
passes it `onSignedIn`, which shows why a username was refused. Who was told that
signing up failed may log in instead (`LogIn`): the account may exist all the same.

`SignIn` has several phones and one account or more. A request reads the row, writes
it, reads it again for the answer and refreshes the directory from its token in
steps of their own; a token carries the name its account had when it was issued.
`handles` are the accounts whose row has a username: `ensure_user` gives one if it
read a row without (`assign_username`), `PUT /users/me/username` sets one, and
deleting the account takes it away. `overtaken` remembers whose deletion met such a
request half carried out. The other columns of a profile (bio, photo,
preferences) are written by id as the username is, and are left out. The memory of
deleted accounts (`remembered`) is lost when the API restarts, which may happen at
any time.

`Profile` is `me.ts`: one copy of the profile on the device, loads and saves under
way, the theme and the currency that follow it, the walkthrough. Each row of
Settings is modelled with the moment at which it changes what is shown.
`crossed` remembers whether requests overlapped or went unheard since the profile
was last loaded.

### NewRoom

A field of the form is the number its text reads as, or `NotANumber`. The limits
of the form are translated from `new/page.tsx`, those of the API from the
validators of `TaidiRules` and `MahjongRules`; the two are written apart in the
code, and `RulesAgree` compares them. `api` is *old* until the API is deployed:
an old API reads amounts as chips and echoes rules without `cents_per_unit`.

### MCPages and MCAccounts

`Friends`, `Groups`, `NewRoom` and `RoomStore` share neither state nor calls, so
`MCPages` runs them side by side: `part` is chosen at the start and only its
variables move. `MCAccounts` does the same for `SignUp`, `SignIn` and `Profile`.

## 3. Runs

| Run | Module | What it asks |
|---|---|---|
| `taidi` | `MCTaidiRoom` | all commands in all orders: the host, the rounds, voids, carried-over special hands and departures; on every phone, offers the API accepts, a way to enter every turn, a log that explains the balances |
| `dispatch_lobby` | `MCDispatch` | every pair of lobby commands, collisions, exhausted attempts, retries after a 409, lost requests: everybody is answered |
| `dispatch_game` | `MCDispatch` | two commands racing in a game with polls and time-outs |
| `dispatch_void` | `MCDispatch` | a violation: two undos of one round |
| `mahjong_table` | `MCMahjongRoom` | six players come, go and change seats; every declaration in a game of chips, across a hand's end and a wind's; offers and turns on every phone |
| `mahjong_phone` | `MCMahjongPhone` | half-entered flows, pinned commands and seat swaps while the table plays on, across the end of the last wind |
| `settlement` | `MCSettlement` | every game of up to three transfers, settled both ways |
| `debts` | `MCDebts` | marking, approving, rejecting, settling and claiming, two handlers in every interleaving, and a page that polls and taps |
| `debts_two_seats` | `MCDebts` | a violation: two claims of one account |
| `pages` | `MCPages` | friends, a group, a new room, the search for an active room |
| `accounts` | `MCAccounts` | signing up, signing in and deleting the account, Settings |
| `signup_race` | `MCSignUp` | a violation: a claimed username overwritten by one given out |

### Bounds

`MaxSeq` bounds the events of a room. In `taidi` nine events are enough to
start, play rounds and undo them, claim special hands in a round that an undo
drops, and lose a player in between; two accounts and a guest are the fewest for
which the host's title can pass to an account, to a guest and to nobody. Of the
three guests two have one name, so that one of them finds it taken, and the
third has none. Card counts 0 and 53 lie outside
the limits of the input; two cards pay double under the one set of rules and
plainly under the other.

In `Dispatch` `MaxRequests` bounds the commands sent to two, `Pollers` the phones
that poll, and the start rooms stand for a lobby alone, with a player, with a
guest, a running game with a guest, and a second round being counted.
`DISPATCH_ATTEMPTS` is two in a game, so that a collision is followed by a second
load, and one in the lobby, so that it is followed by a 409 and the phone's own
retry.

`mahjong_table` has six players for four seats, two of them guests of one name,
and two tai levels, so that there is a level above the first and one missing. It
starts from an empty room, a full one, a table that has just started, or the last
seat of its last wind. `MaxSeq` is five and the tables start at three: two
declarations are enough to close a hand and go on, and from the late table to
reach the decision about the next wind and to take it.
`mahjong_phone` starts from a full lobby or in the last seat of the only wind
(`MAX_WINDS` is one), and allows four more events: enough to close the hand a flow
was opened on, to have the wind continued and to open the next hand, or for a
player to leave and another to take the seat.

`settlement` takes every list of at most three transfers between four players of
one or two cents: chains, cycles, ties and people with nothing to settle.
`debts` has a host, two accounts who may claim, two guests who owe or are owed,
and two handlers; a race needs two, and each may serve any number of requests.
`MovesOverlap` keeps the moves of the other phones apart: they cross the moves of
the page and any claim, not each other (the proofs have no such bound).

`pages`: four taps of two people (add and withdraw and add again, against one of the
other's); four requests of three people in a group that holds two, so that the
limit, a hand-over and a late leave are met; three changes to the form, with
defaults at the edges of the limits; two requests of the person, three commands in
the rooms and one foreign search at a time. `CONSTRAINT Unexcused` cuts a behaviour
of `RoomStore` where the race has happened that the docstring of
`ensure_no_other_active_room` accepts, or where a room could not be read; nothing is
asked of what follows.

`accounts`: for signing up two newcomers, three changes of what is typed, a username of their own and one that the API may give the
other, and four variants of a suggestion, more than two newcomers use up. Signing
in: one account and three requests, or two phones that have signed in and two
requests more: enough for changes that cross on different phones, or a deletion
on one, a restart, and the other's old token. Settings: two saves at a time, and two
changes or two sign-ins and one change (`Bounded`); a theme is shown at once and put back on
failure, a username is shown when answered, and these are the two ways a row can
behave. The proofs are for any number of all of these.

### Findings

*`dispatch_void`*: two undos aimed at the same claimed round. The first
reopens the round; round numbers are all the pin compares, and the round's number
is still the last, so the second passes and undoes the round before, which its
sender had seen as settled. The docstring of `pinned_seq` promises that
"nothing is ever applied to one the player didn't see"
(`api/app/dispatch.py:42-43`). What does hold, and is proved, is
`LandsWhereAimed`: the round number is the one the player saw.

*`debts_two_seats`*: "One person, one seat" (`api/app/routers/guests.py:73`) is
checked before the update and not by it, so two claims of one account for two
guests of a game both pass. `identity.remap` relies on it.

*`signup_race`*: with accounts of Supabase the phone is signed in before the
username is claimed, and the first request of the top bar makes `ensure_user`
read a row without a username; the suggested one is written without a condition
(`api/app/users_service.py:161`), over a claim answered with success in between.
"It must not pass silently" (`SupabaseAuthForm.tsx:130-132`).

### Observations

Met while modelling; the properties above are stated so as to allow for them, and
no run is about them.

* The docstring of `TaidiPlayerStats` has a round "survive into an ended room's
  final state without resolving (e.g. a win was claimed but cards were never fully
  submitted before the host ended the game)" (`core/taidi_core/models.py:260-264`).
  A round may, but not in this example: `end_game` refuses while counts are
  awaited, and stepping out and the closing of stale rooms void first. What
  survives is a round still being played, with special hands in it. That no
  ended room has a round awaiting counts is part of `RoundsInOrder`, and proved for
  every room the commands lead to. A room stored by an older version is not.
* The closing of stale rooms voids a round whose counts never came because "Nothing
  in the UI can void that round, so without this the game could NEVER close"
  (`api/app/events_store.py:440-441`). The screen of such a round does offer "Restart
  round", to the host and to whoever claimed the win
  (`web/src/app/room/TaidiRoom.tsx:648`), and the API accepts it. That the host always
  has this way back is part of `EveryTurnCanBeEntered`, and proved. The closing
  itself is right; it acts when neither of the two does.
* A username that was refused at the last moment "must not pass silently"
  (`SupabaseAuthForm.tsx:130-132`). The form hands the reason to `onSignedIn`, but
  the pages that claim a guest and join a group render `<SignInPanel />` without it
  (`claim/page.tsx:113`, `groups/join/page.tsx:56`), and the reason is dropped; the
  person goes on with a username the API picked. On the home page it is shown:
  `HandleOrNoticeAtHome`. With `Pages` set to the other two, TLC finds
  `HandleOrNotice` violated with accounts of the API's own too.
* The form that adds a guest sends a name that somebody at the table has, and the
  API refuses it (`Guests.tsx:14-51`, `machine.py:154-158`). The form shows
  why; `OffersAreAccepted` makes this one exception.
* Of a token that outlives a deletion a comment says that "the users row can't be
  revived either way (users_service.ensure_user)" (`api/app/auth.py:222-223`, and
  `CHANGELOG.md:19`). `ensure_user` does update only rows that are not deleted, but
  `set_username` and `assign_username` update by id alone (`users_service.py:64-68,
  217-222`): a request that had come past `get_current_user` when the account was
  deleted, or comes with an old token after a restart, writes a username into the
  deleted row, where nobody can use it and nobody else can take it. The display name
  does stay deleted, and so does the username in all other cases:
  `DeletedStaysDeleted` says so, and without its exception TLC finds both.
* With *Confirm email* switched on in Supabase, the username asked for on signing
  up is neither claimed nor mentioned (`SupabaseAuthForm.tsx:144-152`).
  The deployment guide has it switched off (`README.md:106-107`).

* The settlement docstring calls pairwise netting the default and
  `minimize_transfers` opt-in (`core/taidi_core/settlement.py:12`);
  `append_events` writes the latter for every game.
* `settle` closes "a debt with a guest nobody has claimed"
  (`debts_service.py:242`), but a claim may commit between its look at the guest
  and its update. `MovesByThoseEntitled` allows it.
* The correcting `UPDATE` of `rooms.status` writes what was folded earlier: the
  column may go back to an older status until the next search finds the room.
  Rooms are still found and closed (`OneGameAtATime`); lists that filter by the
  column may not be right meanwhile.
* Departures from a group that overlap can leave it with an owner who is not a
  member, for good (`group_service.py:306`), and joins that overlap can exceed
  `MAX_GROUP_MEMBERS` (`group_service.py:282`).
* A pasted group link is not understood: `codeFrom` looks for the code in the path
  (`groups/page.tsx:23`), links carry it as a parameter (`groupsApi.ts:29`).
* In a Mahjong lobby, if the player picked first has left and the table is full
  again, the second tap reads the seat of nobody and throws, and so does every
  later one (`MahjongRoom.tsx:193-195`); tapping the picked player is not possible
  any more.
* A token of another phone writes an older display name back (`ensure_user`); an
  answer that comes after signing out can store a session again; a login that
  overlaps the deletion is answered with a session of an account that is gone.
  The display name of a deleted account still does not come back.
* Two confirmations of one reset link may both pass; two saves of preferences that
  overlap may lose one.

## 4. Proofs

Every property of a passing run but two, both liveness, is a theorem. The theorems
are about arbitrary sets of players, guests, accounts and phones, arbitrary rules
among those the code accepts, arbitrary inputs and any number of events, requests
and attempts. They rest on the named assumptions of the modules, which TLC evaluates
for the values of the runs: `PlayerAssumption` and `InputAssumption` of both engines
(finitely many players, `None` is none of them, and the rules a host may start with
are valid), `DispatchAssumption`, `MeAssumption` and `RulesAssumption` of
`MahjongPhone`, `GamesAssumption` of `Settlement`, `DebtsAssumption` and
`PageAssumption`, `RoomStoreAssumption`, `NewRoomAssumption` and `StoredAssumption`
(a default that is stored was saved by the form), `FriendsAssumption`,
`GroupsAssumption`, `SignInAssumption`, `SignUpAssumption` (the marks for an empty
field and for an account without a row are no usernames) and `ProfileAssumption`.
Some theorems have a hypothesis of their own: `OneSeat` and `NoDebtIsStuck` that an
account's claims do not overlap, `NamesAreToldOf` that the accounts are the API's
own and suggestions have variants left, of forms on the home page (without it TLC
finds each violated, as told below), and `MoneyIsSafeUnderRaces` that the rooms it
starts from keep the ledger, as all rooms that grow from a new one do.

**Sums** (`Sums`). The money theorems are about sums over the players of a room or
the payments in it, of which there may be any number. `SumFunctionOnSet` of the
community modules adds the terms in an order that is picked by `CHOOSE`. The
module shows that this is a recursion over the subsets of a finite set that has
a solution, that the solution does not depend on the order, and from there what
is needed of sums: taking a term out, joining, adding one to another, leaving out
zeros, grouping by class, and a table whose rows cancel. The induction theorems of
the library take an operator as a parameter, which no installed prover can
instantiate, so `SubsetInduction` is proved for a *set* of good subsets instead,
from the least size of a bad one.

**Taidi** (`TaidiRoomProofs`). The inductive invariant is `GoodRoom`: `IsRoom`
(fields and types), `Hosted`, `Ordered`, `Finishable`, `Staffed`. None is
inductive alone: that the host stays at the table when a player leaves needs the
staffing of the table, that a void finds its round needs the order of rounds,
and that a round can be finished needs the phase of the last round. Each is
shown to be kept event by event, for the rooms in the middle of a cascade too,
then command by command, and `Inductive` puts them together. From it follow
the shape of the room, `HostPresides`, `RoundsInOrder`, that a count can always be
finished, that a running game keeps two players, that seats are distinct, and
that a finished room is final.

`PaymentsStand` is about payments and needs to know which is which: a claim of a
special hand is named by a seq, and `ClaimsApart` says that no two claims share
one and that none is ahead of the room. A void that carries claims over, once or
again, then moves each to one round and loses none; an undo finds the one it
names.

**Taidi's money** (also `TaidiRoomProofs`). A card round charges when it is
resolved, a special hand at once; an undo has to give back what was charged, not
what the table would be charged now. `Billed` is the invariant: an unresolved
round holds the payments of special hands and no others, its set of payments is
finite, and each balance is the sum over all rounds of what the round's payments
are to that player. Every command keeps it, event by event (`Billed...` lemmas):
a void drops the open round, moves its special hands to the round it opens again
and gives back that round's card payments alone; the end of a game may drop a
round only because an empty one has charged nothing; somebody who steps out keeps
a balance. With
`ClaimsApart`, which the undo of a claim needs, this gives `LogIsExact`, and with
types of all amounts `TypeCorrect`. `AmongPlayers` adds that nobody is charged
or paid without having a balance, so each payment cancels over the balances:
`NothingLostOrMade`. Under races the same holds of the stored room
(`MoneyIsSafeUnderRaces`), because a commit is a command of the current room.

**Taidi's screens**. In a `GoodRoom`, every command of `LobbyCommands` and
`TableCommands`, the caller's own or the picked guest's, passes the router and the
engine, but for a guest's name that is taken (`NothingOfferedFails`); and for each
turn a count, a win or a way out there is a phone that offers it (`NoTurnIsLost`),
which for a guest means the host's, so `Hosted` is needed again. The screens were
written apart from the engine, and this is where the two are compared.

**Dispatch** (also `TaidiRoomProofs`). Snapshots, screens, answers and polls are all
pasts of the room: a lower seq, or the room itself. That makes a commit a command
of the current room (`CommitsAreCommands`), hence `GoodRoom` of the stored room,
and, with what a request in each stage remembers of its aim,
`ConflictBringsNews`, `LandsWhereAimed` and `ShownNeverGoesBack`. Of the answer to
every tap the safety half is proved. `Progress` measures how far a request has
come: tries of the server first, then the phone's second try. Every step at a
request makes it larger, and it is bounded by `Limit` (`RequestsEnd`). `Underway`
adds that a phone only ever waits for its own request, which is not lost and is
in a stage with a next step (`NobodyWaitsInVain`). That the next step is *taken* is
fairness, and left to TLC.

**Mahjong** (`MahjongRoomProofs`). Again one inductive `GoodRoom`: types, seats,
hands in order, the deal following the rule and balances that add up to nothing.
The seats carry the rest: a payment is by seat, so money is conserved only if
four seats have four players. `LedgerIsExact`: a balance is the sum of what the
closed hands brought; each hand adds one term for each player and no later
command touches it.

**Mahjong's screens and phone**. The forms of a flow are what taps can make of it.
One tap takes forms that fit the table to forms that fit the table, so what any of
them submits is accepted, and so is every lobby button but a guest's name that is
taken (`NothingOfferedFails`). For the converse a way is built for each declaration:
a tap for the seat and one for the switch lead to every yao, gang and angang; two
for who pays, one for each further tai and the toggles lead to every win there is,
own draw or another's tile, at each tai up to the limit (`NoTurnIsLost`, for any
limit). A phone keeps such a form, the picked seat or a command under way while
others move: `PhoneInv` says that what it keeps fits the room it *shows*, that a
declaration it has *sent* is one the table takes as long as its hand is open, and
that a game in progress never changes its table. It also ties what is open or under
way to `aim`: while a flow is on the screen, its hand and the player it is for are
those it was opened for (the picker is not drawn meanwhile), and a command is pinned
when the flow is submitted. Hence a declaration that finds its hand open is carried
out (`OnlyNewsRefuses`) and one whose hand is over does nothing (`FlowHitsItsHand`).
A swap names two people; sent again after others came or went, it passes only if all
four seats stay taken, and then the two fill what the rest leaves, which is their
own two seats (`SwapsTradeSeats`). `PhoneSpec` starts in any good room; the run
starts in two of them (`StartsAreGood`).

**Settlement** (`SettlementProofs`). The loop walks both lists once: what lies
before an index is paid, what lies behind it is untouched, and each name occurs
once. So no pair of indices is met twice (`PairsDiffer`), and every iteration is
a payment `Clearing` allows (`ImplementsClearing`). `AllClearedAtTheEnd` is what
`EveryBalanceCleared` says of the end: every player's balance is what the payments
brought so far and what is open (`PaidAndOpen`), and whoever is owed or owes still
has a turn (`StillInTurn`). When one list is through, nobody is owed or nobody
owes; since the transfers of a game cancel (`BalancesCancel`), nothing at all is
open. The loop comes to that end: each iteration is a payment, and each payment
moves an index, so there are fewer than there are names on the two lists
(`FewPayments`). `pairwise_net` is taken pair by pair: what a pair is netted to is to each
player what the pair's transfers were, and the sum over the pairs is the sum
over the transfers. `GamesAssumption` says that a game's transfers account for its
balances, which `LogIsExact` and `LedgerIsExact` show of the two engines.

**Debts** (`DebtsProofs`). No row leaves *approved* and claims only grow, so what a
handler has read in favour of its request lasts: who was entitled to move a debt
still is when the update commits (`MovesByThoseEntitled`), and nothing final is
undone (`ClosedForGood`). That an account holds *no* seat does not last; it does
while the account's claims do not overlap, which is the premise of
`OnePersonOneSeat`.

**The Debts page**. Every step of the page with the server is a step of `Debts` or a
stutter (`PageImplementsDebts`), so all of the above holds under it. `PInv` adds
what the page knows: a row once listed only becomes more settled and more claimed
(`RowLasts`), and a poll that will be painted knows of every settlement the page
shows, because one that set off before the page's own move is dropped
(`PollFresh`, `PollsNeverReopen`). A move that is refused although the row is as it
was shown would have to fail a check of the API that the page did not make;
there is none (`OnlyNewsRefuses`). An open debt has a payer, a receiver or, for an
unclaimed guest, a stand-in; if nobody sits on both sides, one of them is offered
a move that would go through (`EveryOpenDebtHasAMove`).

**The room store** (`RoomStoreProofs`). Two facts make a search right although it
works from a list that ages. The column may say *open* of a closed room but never
*closed* of an open one, even where a stale correction writes it back, since what
it is corrected to was folded from a log that does not reopen (`StatusFollows`);
so the candidates hold every room the person is in (`CandidatesSuffice`). And
while no other request of the person writes, the rooms they are in only become
fewer: what a search has ruled out stays ruled out (`SearchOK`, `Onward`). Hence
`OneGameAtATime`, for any number of rooms, commands and searches.

**Opening a room** (also `RoomStoreProofs`). A request has a number that is its
room's; the phone has not entered a room whose answer it waits for, and an answer
tells the unit the room has (`Told`): with the echo looked at, the room the phone
enters is in cents (`StakesAreCents`). For `RulesAgree`, `FormsInv`: each form has
rows for every tai up to its highest, and each default is one the form makes of
itself. A switch that is off sends the standard number, which is in the limits;
so what passes the form passes the API, and saving is idempotent.

**Friends** (`FriendsProofs`). Pages and calls hold copies of rows that may be gone.
What a copy is worth is `Known`: the number of a row is never given to a different
request, so whatever row a call finds under it is between the same two people in
the same direction. With it, an accepted row has been wanted by its addressee
(`OnlyByConsent`), a call that will accept is known to have been tapped for
(`Awaited`), and of two requests that have both taken effect the later one found
the earlier (`Asked`, `MutualAddsMakeFriends`). For any number of people.

**Groups** (also `FriendsProofs`). A leave reads who owns the group and picks a
successor, then writes; a removal reads that its caller owns it. `Owned`: unless
requests of these kinds have overlapped, what each has read stands (`Stands`), and
so the owner is a member (`OwnerAmongMembers`).

**SignIn** (`SignInProofs`). The row of the account and its name go in one
transaction, and whatever writes a name afterwards, from an older token or a
request under way, finds the name gone (`Gone`): the guard is in the statement, so
nothing has to be known of the requests. The statements that write a username have no
such guard. While the API remembers the deletion nothing of the account's gets past
`get_current_user`, so that only a request already past it could still write one;
where there was none, there is none later (`Barred`). That the account was gone
before it was remembered is `GoneFirst`. The three give `DeletedForGood`.
`SavedPasswordWorks` needs
more, `Agreed`: as long as no change of the password has overlapped another or gone
unanswered, there is at most one, somebody listens to it, and the stored password
is the old or the new one according to how far it has come; changes of the name
write their column alone and leave it be.

**SignUp** (also `SignInProofs`). On the home page, with accounts of the API the row
has a username before the phone has a session, so that the claim is the only request
that still writes one, and its answer is what the phone is told (`NamesAreToldOf`).
Logging in to an account whose sign-up was reported as failed promises no username
(`LogInKeeps`). All three hypotheses are needed: the other pages drop the reason (see
the observations); with accounts of Supabase there is the race of `signup_race`; and if
the last variant of a suggestion is taken, `assign_username` gives up (after fifty),
the phone is let in without a username, and the same race is open again.

**Profile** (also `SignInProofs`). `ScreenInv`: whenever the copy of the profile
changes, or its owner, the effect that puts theme and currency into force runs in
the same step, and an answer for another account is not taken
(`DeviceFollowsProfile`). `OneAtATime`: as long as no two requests crossed there is
at most one, and it knows what the copy will be put back to or replaced with
(`Tracks`): it leads to what is stored whether it is carried out or refused
(`ShownIsStored`).

Only model-checked:

* `EveryTapAnswered`, that every tap is answered in the end, and the part of
  `EveryBalanceCleared` that the loop ends: liveness under fairness, which these
  provers do not reach. What is proved of them is that neither can go on for ever
  (`RequestsEnd`, `NobodyWaitsInVain`, `FewPayments`).

## 5. Not modelled

* Statistics, history and notifications: pure reports over finished games.
* The rate limiter: sequential, in one process.
* Token signatures, photos, the protocol of Supabase beyond the order of its
  calls, e-mail: third-party protocols and I/O.
* Migrations and back-fills (run once, off line) and the legacy Streamlit
  application (not deployed with the rest).
* Everything drawn, navigation, the iOS shell.
* The races of the Mahjong router: the same `dispatch` as Taidi's, which
  `Dispatch` models.
* The checks of an account's deletion against games and debts: `delete_account` in
  `SignIn` may be refused at any time, whatever the reason.

Worth doing next: an abstract room that both engines implement by a refinement
mapping and `RoomStore` uses.
