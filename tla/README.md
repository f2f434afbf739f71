# Court Command: TLA+ specifications and proofs

Court Command runs pickleball tournaments: officials create tournaments and
divisions, players register, matches are generated into brackets or series and
assigned to courts, referees score them from a phone, and spectators follow the
score on screens. The program is a Go API over PostgreSQL and Redis (`src/api`),
a React client (`src/web`) and a Ghost theme (`src/ghost-theme`).

This directory models the life of a match, from the scoring engine to the row in
the database under concurrent clients and on to the screens that show it; the
brackets and series that decide which matches there are; the offices around them
(registration, court queues, standings, the limiter of the external API); and the
web client: the control panel of an overlay, the cache of queries between pages
and API, and what every form of every screen does with requests, answers and
refetches. It says what the code guarantees, what it does not, and what remains
to be modelled.

    tlc -workers 2 -config MCService_two.cfg MCMatchService.tla   # one run
    tlapm MatchServiceProofs.tla                                  # the proofs

`PROJECT.json` lists the components, the runs, the source lines each definition
stands for, the hazards of the code and the theorems.

## 1. Inventory

| component | state | operations | hard behaviour |
|---|---|---|---|
| scoring engine, `api/engine` | none: functions on `MatchState` | Point, SideOut, RemovePoint, ConfirmGameOver, ConfirmMatchOver, Timeout, Pause, Resume, Forfeit | long legal sequences: a dismissed prompt, a removed point, the cap |
| match service, `api/service/match.go` | rows of `matches`, `match_events` | create, status, start, record, undo, override, complete, configuration, and one call per engine function | reads outside the lock, a second commit, crashes between them |
| live feed, `api/pubsub`, `api/ws`, `useMatchWebSocket.ts` | Redis channels, a buffer per subscriber, the console's cache | Publish, Subscribe, push, refetch | messages lost, reordered; stale caches |
| match series, `match_series.go` | `match_series`, its child matches | start, record result, forfeit, cancel, add child | a child added on a stale read, numbering races |
| bracket, `api/bracket`, `bracket.go` | matches and their `next_match`/`loser_next_match` links | generate (single and double elimination, round robin), advance a winner | index arithmetic, byes, two generations at once |
| court queue, `court_queue.go` | `court_id`, `court_queue_position` of matches | assign, remove, reorder | row locks taken one by one, positions left behind |
| registration, `registration.go` | `registrations` | register, status, check in, withdraw, no-show | capacity counted before the insert, waitlist promotion |
| standings, `standings.go` | `standings_entries` | recompute | many statements without a transaction |
| rate limiter, `middleware/rate_limit.go` | tokens per key | allow, clean up | refill arithmetic, forgotten visitors |
| overlay, `overlay.go`, `court_overlay_configs` | one row per court | update of one column, push | whole columns written by several operators |
| overlay control panel, `features/overlay/controls` | a draft and a timer per tab | edit, flush, pick, reset, clear, bind | debounce, replies and pushes that replace the draft |
| query cache, `App.tsx` and the hooks | an entry per query | fetch, invalidate, replace, poll, mount | a fetch under way when an answer comes; failures |
| screens, `features/*`, `routes/*` | dialogs and their drafts | open, edit, send, cancel, leave | a late answer, a refetch under a form, a second press |
| sessions, lifecycles, cleanup jobs | Redis keys; a status each; expired rows | | not modelled (section 8) |
| CRUD services, HTTP layer, theme | single rows, or none | read, write | none of their own |

How they interact. A page calls the HTTP API; the handler calls one method of a
service; the match service reads the row, asks the engine, writes row and event
in one transaction and, after the commit, publishes the match to Redis; the
WebSocket handler forwards it to every subscriber, where it replaces an entry of
the query cache. Every other page learns of a change from the answer to its own
request, whose hook invalidates query keys, or by polling. Series, brackets, the
court queue and the standings read and write the same rows of `matches`. There
is no in-process state shared between requests except the rate limiter:
concurrency is between statements and transactions of different requests, at
PostgreSQL's default READ COMMITTED, and, in a browser, between what the user
does and what arrives.

What makes each part correct:

- engine: results come in order, one per game; a match is over when a team has
  the games it needs; a prompt can be acted on;
- match service: a request is one atomic operation on the current row, a winner
  belongs to a completed match, the status follows its table, the event log
  accounts for the score, no game is skipped, and undo takes back one event;
- live feed: a screen that stays connected ends up showing the row;
- series: ends once, with the winner who has the games, and leaves nothing to
  play;
- bracket: a slot is fed by one match and filled with its winner, one loss is
  out, every match gets its two teams, the best seeds meet late, and in a round
  robin every pair meets once;
- court queue: each position of a court is held once, and a reorder works on the
  rows it checked;
- registration: never more approved players than places, no free place while
  somebody waits, and the waitlist in order;
- standings: equal to what the completed matches are worth;
- rate limiter: never more than the burst in one interval;
- overlay and its panel: what an operator typed reaches the row, and a quiet
  panel shows the row;
- query cache: a page shows what its own requests changed, and never goes back
  in time;
- screens: a form is committed once, its answer concerns nothing else, and a
  draft survives what arrives.

## 2. Plan

Done: items 1 to 10.

1. `ScoringEngine`, `EngineSession`, `EngineSessionProofs`: the engine and one
   referee.
2. `MatchTx`, `AtomicMatch`: the operations on a match, each atomic. This is
   the abstract specification of the service.
3. `MatchService`: the operations as the code runs them; refinement of
   `AtomicMatch` with one client, and with several as far as it holds.
4. `MatchServiceProofs`: types, the completeness of `set_scores`, and how far
   the service is atomic, for any number of clients.
5. `LiveFeed`, `LiveFeedProofs`: publish after commit, drops, reconnects; what
   may be lost, and delivery when nothing is.
6. `BracketGenerator` (pure, recursive functions) and `BracketService` (play-out
   with AdvanceWinner and BYEs, called late, twice, in any order).
7. The web client: `OverlayControl` with `OverlayProofs`; `QueryCache` with its
   abstract specification `DelayedCopies` and `QueryCacheProofs`; the hooks and
   screens, and `Screens`, which runs them over `QueryCache`.
8. The offices: `Registration`, `Standings`, `MatchSeries`, `CourtQueue` and
   `RateLimiter`, with `OfficeProofs`.
9. `BracketProofs`: the single elimination and the round robin for every number
   of teams, from the arithmetic of the links, of the order of seeds and of the
   circle.
10. `CatalogueFacts`, `ScreensProofs`: the screens for any number of requests
    and openings, from conditions on the tables that TLC evaluates.

Left, in this order:

11. Two organisers who generate one division's bracket, and an invariant that
    there is one bracket.
12. Lifecycles of tournaments, divisions, seasons and leagues; sessions; the
    overlay's resolver with the poller and webhook of outside sources.

## 3. Modules

| module | what it is | code |
|---|---|---|
| `ScoringEngine` | configuration, win rules, engine functions; no variables | `api/engine/config.go`, `scoring.go` |
| `EngineSession` | the engine under one referee; history variable `careful` | same |
| `MatchTx` | row and log of one match, the bridge to the engine, the operations that are one transaction | `service/match.go`, `queries/matches.sql`, `match_events.sql` |
| `AtomicMatch` | every operation of the service, each in one step | what the service promises |
| `MatchService` | clients with a request in flight, unlocked reads, separate writes, requests lost midway | `service/match.go` as it runs |
| `LiveFeed` | from the commit of a write to the caches of the pages | `pubsub.go`, `ws/handler.go`, `useMatchWebSocket.ts`, `hooks.ts` |
| `BracketGenerator` | the generators, pure functions of the number of entries | `bracket/generator.go` |
| `BracketService` | a division's matches: generated, played, advanced | `service/bracket.go` |
| `MatchSeries` | a series, its children, and requests for one more child | `service/match_series.go` |
| `Registration` | a division's registrations, statement by statement | `service/registration.go`, `queries/registrations.sql` |
| `CourtQueue` | matches on courts; reorders with their row locks | `service/court_queue.go` |
| `Standings` | a table and the recomputations that fill it | `service/standings.go` |
| `RateLimiter` | visitors, clock and ticker | `middleware/rate_limit.go` |
| `OverlayControl` | a court's overlay row and the panels that edit it | `service/overlay.go`, `features/overlay/controls`, `useOverlayWebSocket.ts` |
| `QueryCache` | what a page knows of the server | `App.tsx`, `features/*/hooks.ts` |
| `DelayedCopies` | abstract specification: copies that never go back | what a page promises |
| `ScreenKit` | the ways in which forms and buttons are built | `components/*`, the features' forms |
| `WebHooks` | the hooks: what each mutation changes and which keys it invalidates | `features/*/hooks.ts` |
| `LeagueScreens`, `TournamentScreens`, `RegistryScreens`, `AdminScreens`, `PublicScreens`, `OverlayScreens` | each screen: the queries it reads, its forms | `features/*`, `routes/*` |
| `Catalogue` | all screens, and the exceptions they are known for | |
| `CatalogueFacts` | what the proofs use of these tables: conditions on constants | |
| `Screens` | a user on a screen, over the cache | how React mounts, renders and calls back |
| `MC...` | values of the constants for TLC; `MCBackOffice` composes the offices | |
| `...Proofs` | theorems | |

`MatchService` EXTENDS `AtomicMatch` EXTENDS `MatchTx` EXTENDS `ScoringEngine`:
an operation is written once, and atomic and running forms differ only in where
their guard is evaluated. `BracketService` EXTENDS `BracketGenerator`. `Screens`
EXTENDS `Catalogue` and instantiates `QueryCache` with the tables of `WebHooks`:
its steps are the user's and the network's, and each of them takes a step of
the cache. `LiveFeed` stands alone: of a row it only needs to know which write
made it.

Correspondence with the code, matches and brackets:

- `row` is the row of `matches`: `status`, `cfg` (the scoring columns), `winner`
  (slot of `winner_team_id`, 0 for NULL; `loser_team_id` is always the other
  team) and `board`: the two scores, `serving_team` and `server_number` (0 for
  NULL), `current_game` and `set_scores`. `log` is `match_events` in the order
  of `sequence_id`, which is taken under the row lock. An event keeps its type,
  team and score snapshot.
- An engine function is an operator that yields the set of states it may return;
  the empty set is `errResult`. `EngineResults` dispatches on the call,
  `EngineState` is `matchToEngineState` with its defaults for NULL, `Applied` is
  the column-by-column write of `applyEngineResult`, including the rule that an
  empty list of games keeps `set_scores`.
- `ReadScore`, then `Apply`, then for two calls `WriteResult`: a scoring request.
  The read is `GetMatch` without a lock; `Apply` is the transaction with the row
  lock, in which nothing of the read is checked again.
- `RunTransaction` is StartMatch, RecordEvent, Undo or OverrideScore, which lock
  the row before they read it.
- `ReadStatus`/`WriteStatus`, `ReadComplete`/`WriteComplete` and
  `ReadConfig`/`WriteConfig` are UpdateStatus, CompleteMatch and
  UpdateScoringConfig: a check on an unlocked read, then an UPDATE by id.
- In `LiveFeed`, `row` is the number of the latest write and every message, reply
  and refetch carries the number of the row it holds. `Commit` to `Publish` is the
  gap between commit and broadcast; `CommitUnpublished` the writes with no
  broadcast, among them the second write of ConfirmMatchOver and DeclareForfeit;
  `LosePublication` a Redis error, which Publish returns and its callers drop;
  `Fail` the end of the request between two steps. `conn` is "open" between the
  upgrade and the subscription; `chan` is the buffer of `Subscribe` together with
  the messages already relayed; `cache` is the entry of the query client that
  replies, pushes and refetches replace. A page is modelled from its first loaded
  row on.
- In `BracketService`, `matches` are the rows of a division in order of id. The
  three passes of GenerateBracket are one transaction and one action, apart from
  its check for existing matches. An entry is its place in the order of seeds; a
  match is played only when both its teams are known; UpdateTeams, with which
  organisers may rearrange a bracket by hand, is not used.
- `Lose` ends a request between two of its steps: the process stopped, the client
  went away (the request's context is cancelled), or a statement failed.

Correspondence, offices:

- In `Registration` a desk is a request under way, and `asked` what it carries
  from one statement to the next: `ReadDivision`, `CountApproved`,
  `CreateRegistration` are Register; `UpdateStatus`, `GetNextWaitlisted`,
  `Promote` are UpdateStatus with the promotion that follows a withdrawal. The
  promotion writes by id, whatever has become of the row, and drops its errors.
- In `MatchSeries` each operation under the series' row lock is one action;
  `ReadSeries`, `CountMatches` and `CreateChildMatch` are the three unlocked
  statements of one more child. `PlayChild` is the match service's work on a
  child, which no series is asked about.
- In `CourtQueue` a reorder locks the rows of its list (`LockNext`), then clears
  the positions of the court (`ClearPositions`, an UPDATE that waits for rows
  held by others and does not see positions not yet committed) and writes its
  own (`CommitReorder`). Assignment and removal are a check and a write.
- In `Standings` a run lists the approved teams, then those checked in, reads
  each team's matches in the order of a Go map, sorts (equal teams in either
  order) and writes entry by entry.
- In `RateLimiter` `allow` is the whole function under the mutex; `cleanup` may
  come at any time.

Correspondence, web client:

- In `OverlayControl` a page is one operator's panel with one tab open. `Flush`
  is the tab's timer, `Commit` the service's update of one column and its push,
  `Reply` the answer, `Push` a message of the overlay channel; requests and
  replies are sets, because nothing keeps them in order, while pushes of one
  channel are.
- In `QueryCache` data is a revision: `rev` counts the changes to what a query
  reads. `Settled` is `onSuccess`: `setQueryData` and `invalidateQueries`, with
  the library's rule that invalidation gives up a fetch under way unless it is a
  first load. `told` remembers what answers have promised.
- In `Screens` an act of a screen is one form or button: its slot (the dialog or
  panel it occupies), where its state lives, how it calls (`await` or a
  callback of `mutate`), whether it is disabled while pending, and what follows.
  `ScreenKit` names the combinations that the code uses, and the screen modules
  give each screen the operators of the kit. One query of a screen is watched in
  a behaviour, or all those that its acts change and only other screens show.

Abstractions. Team ids are slots 1 and 2; a winner id in a request names a slot
or is absent. `is_paused` repeats the status and is left out, as are timestamps,
`expires_at`, the player and user columns of an event and its payload.
`sets_to_win` and `freeze_at` are read nowhere by the engine. Corrections are
score sheets that list every game up to the live one, as the override modal
sends them (`ListsEveryGame`); this assumption is needed by the theorem on
skipped games. Requests carry correct types: the handlers' decoding is taken as
given. Statuses that no statement of a module tells apart are one: "withdrawn"
stands for "rejected", "scheduled" for "warmup", "completed" in a court queue
for every terminal status. Both teams of a series are known. In the cache, data
expires by age only when a component is mounted; refetches on focus or
reconnection are a `Refresh` at any time in `QueryCache` and left out of
`Screens`, where they would only hide what a missing key leaves stale.

## 4. Runs

| run | question | size |
|---|---|---|
| `engine_session` | one referee, any legal sequence of engine calls: results in order, prompts that can be confirmed, and, for a referee who confirms before touching the score again, sound results | best of 3, games to 2, win by 2, cap none or 3, rally or side-out; at most 4 points per team and 3 results |
| `service_one` | does the service implement the atomic match, for one client and with requests lost anywhere, and what does the atomic match guarantee | games to 1, best of 3, both scoring types, 2 corrections, every call, log of 3 |
| `service_two` | with two clients: does the log account for the score, is no game skipped and no point invented, and is every step of a client with a current row an atomic operation | scoring, confirming, pausing, a correction, log of 3 |
| `live_feed` | what may a connected screen miss, and does it end up showing the row otherwise | a console that shows the match and one that does not, buffer of 2, 4 writes |
| `bracket` | do the generated brackets work, however AdvanceWinner is called | 2 to 8 teams; eliminations played to the end, round robins for 2 matches |
| `overlay_control` | what becomes of an operator's edits, and of what a quiet panel shows | 2 panels, 2 elements, 2 overrides, a theme, a colour, a source and a token, 2 edits |
| `query_cache` | does a page show what its requests changed, never older data than before, and in the end what it was promised | a list that is refetched, a row that is replaced and polled, 2 requests, 1 change by somebody else |
| `screens` | what do answers, refetches and second presses do to what the user is at, and do the hooks' keys cover what their mutations change | every screen; 2 requests, 3 openings of a dialog |
| `back_office` | what do overlapping requests do to registrations, a series, court queues, a table and the limiter | two requests at a time; 3 entrants for 1 place and 3 rows; best of 3 with up to 5 children; 2 matches on 2 courts; 2 teams that meet twice and 2 changes; burst 2, interval 3, forgotten after 4, 8 ticks |
| `service_lost_point`, `bracket_double`, `overlay_edit_dropped` | statements of the code's own comments that the code does not keep (section 7) | as the runs above; four teams in `bracket_double` |

Further configurations are kept beside these and are run by hand:

    tlc -config MCEngine_MatchOverNeedsGamesWon.cfg MCEngineSession.tla
    tlc -config MCSourceTab.cfg MCQueryCache.tla

So are `ClosedIsFinal`, `UndoRestoresPreviousEvent` (properties) and
`ConfirmedMatchHasWinner` (an invariant), in the place of `EveryPointCounts` in
`MCService_EveryPointCounts.cfg`. Each of the five is refuted; section 7 says
what that means. The type invariants of
`BracketService`, `OverlayControl`, `Screens` and `Registration` hold too, and
can be added to the configurations of their runs.

Why the bounds are enough. With games to 2 and win by 2 a game can end at 2-0,
at the cap 3-2, or by two points at 4-2, and removed points bring a won game
back below the rule; three results cover the whole of a best of three and a
game recorded twice. In the service runs one point ends a game, so that a log of
three events holds a game, its confirmation and a stale write over it. Two
clients suffice for every overlap, since a write only meets the row and one
carried read. `MaxScore`, `MaxResults` and `MaxEvents` are the only bounds in
guards. Clients are interchangeable, and no value depends on their order, so
`service_two`, `overlay_control` and `back_office` use symmetry.

In `live_feed` two consoles suffice for publications in the wrong order, four
writes overfill the buffer of two, and one screen suffices because screens do not
influence each other; a spectator does less than a console. Brackets of 2 to 8
teams are all brackets of up to three rounds, with every number of BYEs; a match
of a round robin leads nowhere, so that two of them are enough to show that. What
holds of the single eliminations and the round robins is proved for every size
(section 6). `BufferSize` is the code's, `MaxVersion` and `MaxPlayed` are bounds.

In `overlay_control` two edits are two whole columns that may overtake each
other, from one panel or from two; a third only adds to the queue. In
`query_cache` two requests give an answer that comes after a newer one, and a
change by others what polling is for. In `screens` a form is opened, sent,
closed and opened again with one request; two requests are needed for a second
press and for an answer that comes after a newer request; three openings leave
one for another dialog (`MaxCalls`, `MaxOpens`); section 6 has the proofs for
any number of both. In `back_office` one place and
three rows are somebody who holds it, somebody who waits and somebody who comes
third (`MaxRows`); a best of three with five children has two more than
planned (`MaxChildren`); two matches suffice for two lists in opposite order
(`MaxList`), two changes for one before and one after a team is read
(`MaxChanges`); eight ticks are more than two intervals and hold a refill, a
forgotten visitor and its return (`MaxTime`). Offices are explored one at a time:
no operation of one writes what another reads, and what comes from elsewhere (a
match that ends, a registration withdrawn) is a step of the office it disturbs.

Deadlock is not checked: a match ends, a bracket is played to its end, a user
stops, and the bounds stop the log and the writes. Two reorders that wait for
each other's rows are ended by PostgreSQL, which `RequestEnds` covers.

The mutants in `PROJECT.json` (operators commented "Mutant") show that each
property fails under a plausible bug: a dropped guard, the wrong team, the wrong
number, a misspelt key.

### The main properties

- `NoSkippedGame`: the row never points past a game with no result, although any
  request may write an old board, keep a newer `set_scores`, undo to any
  snapshot, or be corrected.
- `FreshInv`, `FreshRequestsAreAtomic`: what a request carries is what it would
  compute now, unless somebody wrote since it read; therefore each step of the
  service is an atomic operation unless its client is in `stale`. This is the
  exact extent of the damage the unlocked reads can do.
- `ImplementsAtomic`: with one client nothing is stale, and the service refines
  `AtomicSpec`. The second commit of ConfirmMatchOver and DeclareForfeit is an
  action of its own there (`RecordResult`), because losing it is visible.
- `LogExplainsBoard`: the row's board is always accounted for by the latest event.
- `ScoreBackedByPoints`: overlapping requests lose points but never invent any.
- `LifecycleFollowsTable`, `PauseFreezesScore`, `WinnerMeansCompleted`: promises
  of the atomic match about sequences of operations.
- `CarefulMatchIsSound`: the discipline under which the engine keeps the
  configuration's promise. The engine does not enforce it.
- `NewestIsComing`: the complete list of the ways in which a subscribed screen
  loses an update. Overwriting is one of them: nothing compares versions.
- `ConnectedScreenConverges`: without these losses it ends up showing the row.
- `PlacesAreEarned`, `OneLossIsOut`, `NeverStuck`: the wiring, the BYEs and late or
  repeated calls of AdvanceWinner together yield a bracket that can be played to
  the end and puts nobody where he does not belong.
- `TopSeedsMeetLate`, `EveryPairMeetsOnce`: what seeding and the circle method are
  for, whoever wins.
- `EditsAreAccountedFor`: what an operator typed is in the row, waiting or being
  sent, or lost in one of four ways: a request failed, somebody else wrote the
  column, an older request ran after a newer one, or a later edit sent an older
  value. The last needs no second operator and no failure (section 7).
- `QuietPanelIsTrue`: when nothing is on its way the panel shows the row, unless
  a request failed or rows arrived out of order.
- `ReadYourWrites`: a page on which nothing is being fetched shows every change
  that an answer reported to it, but for a failed fetch and an answer that could
  not give up an older one. `IsDelayedCopy`: what no answer replaces is never
  older than before. `PromisesAreKept`, `PollsCatchUp`: the same in the end.
- `ScreensShowOwnWork`, `SavedOnce`, `FormsOpenClean`, `AnswersCloseTheirOwn`,
  `AnswersLeaveOthersAlone`, `DraftsSurviveRefetch`: of every screen, but for the
  exceptions that `Catalogue` lists by name: `KnownGaps` and `NeverNamed`
  (queries that a mutation changes and no key names), `Unguarded` (buttons that
  may be pressed twice), `Leftovers` (dialogs that open with an earlier draft),
  `Intrusive` (dialogs that an earlier answer closes), `Wandering` (forms whose
  answer takes the user away from another page) and `Fragile` (forms that a
  refetch empties). The sets are the list of what is amiss; the properties say
  that nothing else is.
- `CarefulDeskIsFair`: a desk that does one thing at a time, approves only while
  there is a place and checks in only after registration has closed gives out
  every place once, leaves none free while somebody waits, and keeps the order.
  Each rule names something that the code does not see to.
- `SeriesIsSound`: result, status and wins agree, nothing is left to play and the
  children's numbers follow, but for children created on a stale read (`astray`).
- `LineIsOrdered`: no two open matches of a court have one position, but for a
  match that brought its position from another court, and for two reorders of
  which each clears before the other commits (`carried`); and the matches that a
  reorder has checked stay as it found them.
- `QuietTableIsExact`: a recomputation with which nothing interfered leaves the
  points that the matches are worth and the ranks in order.
- `LimiterKeepsWindow`: no key gets more than the burst in an interval, although
  visitors are forgotten.

## 5. Fairness and liveness

`LiveFeed` assumes weak fairness of five actions. `Publish` and `Reply`: a handler
that is not stopped runs on, in one goroutine with no wait but for Redis.
`Deliver`: the relay loop of the WebSocket handler takes from its channel until the
connection ends, and the page handles each message. `AnswerFetch` and
`ShowFetched`: the server answers a GET, and the page stores the answer. None
excludes a failure, since `Fail`, `LosePublication`, `FailFetch` and `Disconnect`
disable them. No fairness is assumed of writes, of connecting or of reconnecting,
so `ConnectedScreenConverges` is conditional: it is about screens that are
subscribed from some time on.

`QueryCache` (`FairSpec`) assumes that the server reads what it is asked for and
that a fetch arrives or fails: a request of a browser ends one way or the other.
For a query with a `refetchInterval` it assumes that the timer goes on
(`Refresh`): the library sets it again after each fetch, failed or not. Nothing
is assumed of answers to mutations or of users. `PollsCatchUp` therefore asks
that the query stays on the screen and that its fetches stop failing.

The other modules promise no progress: each step is taken because a person calls
the API, and any request may be lost. `NeverStuck` is the part of "the bracket has
a champion" that does not depend on people: something can always be done.

## 6. What is proved

With TLAPS, for any set of clients, any configurations, calls and corrections
that satisfy the assumptions of `MatchTx`, and any length of the log:

- `TypeCorrect` (`MatchServiceProofs`): `ServiceSpec => []TypeOK`. The invariant
  is inductive as it stands. The lemmas follow the layers of the code: each
  engine function maps match states to match states, the bridge maps a row to a
  match state and back, each transaction keeps the row and the log, and each
  action keeps the requests.
- `GamesInvariant` (`MatchServiceProofs`): `ServiceSpec => []GamesInv`.
  `NoSkippedGame` alone is not inductive: an undo writes a board of the log and
  `Apply` one of a request, so the invariant says it of all three. The delicate
  case is a stale result with an empty list of games, which keeps the row's
  `set_scores`: such a result is of game 1, because its own board satisfies the
  invariant, so it cannot point past anything. Confirmation moves past a game
  whose result is the last of the list, and a correction lists every game.
- `NeverSkipsAGame`: `ServiceSpec => []NoSkippedGame`, from it.
- `LogAlwaysExplains` (`MatchServiceProofs`): `ServiceSpec =>
  []LogExplainsBoard`. Every transaction that changes the board appends an event
  of the board it leaves; the invariant adds that the row's configuration is one
  that an undo may find again (`ExplainInv`).
- `FreshStaysFresh`, `OnlyStaleRequestsHarm`: `FreshInv` and, from it, the action
  property `FreshRequestsAreAtomic`. A write by one client makes every request
  of the others stale, so only a client's own first step has to be looked at. The
  second write of a confirmation or a forfeit needs one fact more: the result that
  the request carries has the status that this write goes with (`OwesInv`).
- `OneClientIsAtomic`: `OneClient /\ ServiceSpec => ImplementsAtomic`, because
  with one client nothing is ever stale. `AtomicLifecycle`, `AtomicPauseFreezes`
  and `AtomicWinners` prove the three promises of `AtomicSpec`, and
  `OneClientKeepsPromises` carries them over to the service with one client.
- `PointsNeverInvented`: `ServiceSpec => []ScoreBackedByPoints`, with any number of
  clients. The invariant (`BackedInv`) says it of the row, of every snapshot and
  of every request together with the point that the request is going to log:
  a stale board is backed by a prefix of the log, and logs only grow.

For any configurations that satisfy the assumptions of `EngineSession`, and any
bounds on scores and results:

- `SessionTypeCorrect`, `ResultsStayInOrder`, `PromptsCanBeConfirmed`
  (`EngineSessionProofs`): `Spec => []TypeOK`, `[]GamesInOrder` and
  `[]PromptIsConfirmable`. A prompt answers for the state that it came with
  (`PromptsAnswer`): its game is the last that has a result, and a match-over
  prompt stands on results that decide the match.
- `CarefulRefereeIsServed`: `Spec => []CarefulMatchIsSound`. For a careful
  referee each game has one result and its winner leads (`OneResultEach`,
  `WinnersLead`). The second needs to know that at a cap no team has reached it
  in a game that is still open (`OpenBelowCap`): otherwise the point that ends a
  game could be the other team's. That games won are as many different games
  follows from the first by counting.

For any consoles and screens, any buffer size and number of writes:

- `FeedTypes`, `FeedLosesNothingElse` (`LiveFeedProofs`): `Spec => []TypeOK` and
  `Spec => []NewestIsComing`. Two strengthenings make it inductive (`FeedInv`). A
  screen must be current as soon as its connection is open: the refetch is asked
  for then, and the subscription follows without another. And nothing in a
  message, a reply, an answer or a cache is newer than the row: otherwise a screen
  that shows the row could be passed by a message that is not older. Showing a
  version is the one delicate step (`ShownCurrent`): if what is shown is not the
  row, then either the screen fell behind or the row was still on its way and is
  so after the step.

For any number of requests for a child, of planned games and of games to win
(`SeriesAssumption`):

- `SeriesStaysSound` (`OfficeProofs`): `SeriesSpec => []SeriesIsSound`. The
  invariant adds the types and `NothingEarly`: a series that has not started has
  no children and no request for one, so that the planned children get the
  numbers from one on. `OneWinMore` is the
  arithmetic of the deciding game, `CancelledChildren` that a cancellation
  leaves nothing scheduled, `EndsClean` what the three endings share.

For any matches, courts and requests of a court's queue, if lists are bounded
(`MaxList \in Nat`):

- `LineStaysOrdered` (`OfficeProofs`): `QueueSpec => []LineIsOrdered`. The step
  that matters is the clearing of a court's positions: while a reorder waits to
  write, it holds the lock of every row of its list, and every match still in
  line is one that it cleared or one of the carried (`ReordersAreSound`), so that
  the positions it writes meet no others.

For any keys, rate, burst and interval of the limiter (`LimiterAssumption`), and
a clock that runs on:

- `LimiterSafe` (`OfficeProofs`): `LimiterSpec => []LimiterKeepsWindow`. The tokens
  that a visitor has left and what the interval that ended when it was last seen
  has cost are no more than the burst (`TokensAreLeft`); nothing was let through
  since then (`QuietSinceSeen`); and whoever was forgotten has had nothing for an
  interval (`ForgottenAreQuiet`), which is where it matters that the ticker
  forgets no earlier. Sums over windows are functions of their bounds; that they
  add up is proved from the least tick at which they would not.

For any desks, entrants, places and rows:

- `CarefulDesksAreFair` (`OfficeProofs`): `RegistrationSpec =>
  []CarefulDeskIsFair`. Careful desks have one request under way between them
  (`Fair`), and what it carries from one statement to the next still holds: the
  count is below the places when it inserts an approved row and equals them when
  it inserts one that waits (`CountIsGood`), a promotion fills the place that its
  withdrawal left (`PromotionIsDue`), a check-in comes after registration has
  closed (`WriteIsGood`). `OneRowEach`, the unique indexes, keeps an entrant from
  being counted twice.

For any recomputations, teams and matches of a division, and any points:

- `QuietTablesAreExact` (`OfficeProofs`): `StandingsSpec => []QuietTableIsExact`.
  A recomputation that nothing has spoiled is alone, has read exactly the rows of
  the teams that it no longer lists, and has written exactly the ranks that it
  has passed (`CleanRun`). That the points which the code multiplies out of three
  counts are the sum of what the matches are worth one by one is
  `PointsAreEarned`; that ranks and teams are equally many, `OrderNamesTeams`.

For any open panels, elements, overrides and values, and any number of edits:

- `EditsStayAccountedFor` (`OverlayProofs`): `Spec => []EditsAreAccountedFor`. Item
  by item the property is not inductive, since a request carries a whole
  column. The invariant (`PageInv`) follows the newest edit of the open tab as a
  whole: it waits and is newer than every request of the page, it is the newest
  request, or it is in the row and every request left is older than what was
  written. `CommitKeeps` is the delicate step: a request that runs is that
  newest one, or it excuses what it overwrites.
- `QuietPanelsAreTrue` (`OverlayProofs`): `Spec => []QuietPanelIsTrue`. A panel
  that is not behind shows the row of its column or is about to: a request, a
  push or a clear on its way will bring it (`PanelsFollow`); and since the last
  write that was pushed, every row that a page has or will have differs from the
  row at most in the token (`RowsReachPages`).

For any table of hooks that satisfies `CacheAssumption` (each change is refetched,
replaced or a listed gap), any number of requests and of changes by others:

- `CacheTypes`, `ShowsOwnWrites` (`QueryCacheProofs`): `Spec => []TypeOK` and
  `Spec => []ReadYourWrites`. The invariant (`CacheInv`) says of each entry what
  a fetch under way will find: nothing in the page is newer than the server
  (`Dated`); an entry older than what was promised is marked, being fetched anew,
  failed or overtaken (`Sound`); a fetch never read less than what is shown,
  unless the query is replaced by answers (`Forward`).
- `RefinesDelayedCopies`: `Spec => IsDelayedCopy`, by step simulation: a commit or
  a change by others is `Change`, an arriving fetch is `Copy` by `Forward`, and
  everything else a stutter.

For any number of teams, and one organiser who generates brackets:

- `PlacesEarned`, `LosersAreOut`, `SeedsMeetLate`, `BracketIsNeverStuck`
  (`BracketProofs`): `PlacesAreEarned`, `OneLossIsOut`, `TopSeedsMeetLate` and
  `NeverStuck` of the single eliminations. `Links` and `Feeding` turn the offsets
  that the generator computes for each round into a tree: match m leads to the
  match `Up(n, m)`, and `Feed(n, m, s)` is the only one that leads to slot s of m.
  The invariant (`Tree`) says that the rows keep these links (`Wired`), that a
  completed match has the teams that decided it (`Settled`), that the first round
  keeps its draw, where only a BYE lacks a team (`DrawKept`), and that a place of a
  later round is free or has the winner of its feeder (`Earned`). The steps keep
  it because a match that was played had both teams, so that nothing is left to
  slot into it. What the properties say follows from one state of the tree, from
  the earliest round in which it would fail: a team has one place in each round
  (`OnceARound`), it has won every earlier match that it stands in (`PastWon`), and
  before each round a place has the seed that it has in the smaller bracket, or
  none of that bracket's seeds (`SeedsHold`). That the first slot of every match of
  the first round has a team is `Draw`, from the order of the seeds (`SeedOrder`):
  so no two BYEs meet.

- `PairsMeetOnce` (`BracketProofs`): `Spec => []EveryPairMeetsOnce`, and
  `BracketIsNeverStuck` is about the round robins too. The rotations of the
  circle are given in closed form (`Seat`, `CircleTurns`); two teams sit opposite
  each other in some round (`OppositeOnce`) and in no other (`NeverAgain`), which
  is arithmetic about their places in the first round. The list of matches has
  each of these meetings once, without those against the BYE (`RoundListed`,
  `RoundRobinListed`). The invariant (`Robin`) says this of the rows; they keep it
  since nothing leads on from a match.

For every screen of the catalogue, any number of requests, and any number of
openings of its dialogs:

- What the proofs use of the tables is stated as `CatalogueAssumption`, in five
  parts: the hooks refetch or replace what their mutations change but for
  `KnownGaps` (`KeysCover`); a page is left for another page, and after await only
  by the forms of `Wandering` (`PagesLinked`); forms wait for their requests and are
  seeded when mounted, but for `Unguarded`, `Leftovers` and `Fragile`
  (`FormsCareful`); what closes a dialog is a callback of a form mounted with it, but
  for `Intrusive` (`DialogsOwned`); and the queries whose error hides a form are
  not fetched while it is there (`DraftsSafe`). The tables are finite, and TLC
  evaluates the conditions over all of them at the start of `query_cache`, whose
  module extends `CatalogueFacts`. The prover sees nothing else of the tables, so
  a new screen that satisfies the conditions needs no new proof.
- `ScreensTypes`, `ShowsOwnWork` (`ScreensProofs`): `Spec => []TypeOK` and `Spec =>
  []ScreensShowOwnWork`. The invariant (`SoundCache`) is the one of the cache: an
  entry that is older than promised is being fetched, failed, overtaken, or not
  used and marked. `AsSound` says what a screen may do to an entry without harm,
  and the proof is that landing on a screen, leaving one and loading a page anew
  do nothing else.
- `SavesOnce`: `Spec => []SavedOnce`. An opening that has saved a request has it
  still under way, and a form that waits has one request from an opening
  (`JobInv`): a second press finds the first request, because both were sent from
  the same mounting.
- `OpensClean`: `Spec => []FormsOpenClean`, by `CleanInv`.
- `AnswersStayAway`: `Spec => AnswersLeaveOthersAlone`: away from its page a
  callback of `mutate` does not run.
- `AnswersCloseOwn`: `Spec => AnswersCloseTheirOwn`. A dialog that an answer may
  close is closed, is the one that was sent, or was mounted after the request
  (`OwnForms`), in which case the callback does not run. Where an error hides the
  page around the dialogs none is open (`HiddenForms`), so that an answer which
  brings the page back opens none.
- `KeepsDrafts`: `Spec => DraftsSurviveRefetch`. Once something is typed or sent,
  the page around it is there with the data it needs (`Steady`), and what could hide
  it has its data and is not fetched (`Unfetched`); what is typed is on the screen
  (`Typed`). An answer could have such a query fetched, but then it leaves the page:
  after await always, and for a page with one form because no newer request
  is under way to silence its callback (`OneCall`).

Only model-checked: the double elimination and the three liveness properties
`ConnectedScreenConverges`, `PromisesAreKept` and `PollsCatchUp`. The links of the losers bracket leave places
that nothing feeds (section 7): they are no tree, and there is less to prove than
to repair. Liveness needs ENABLED, which is out of the prover's reach. Induction over data is done without
the library's induction theorems, which take predicates as parameters: the set of
the counterexamples' sizes would have a least element (`LeastNumber`). That a
recursive function exists, which its definition does not say, comes from the same
lemma (`Recursion`).

## 7. Where the code departs from what it says

Refuted by the runs that expect a violation; PROJECT.json quotes the lines:

1. Two overlapping scoring calls leave one point (`service_lost_point`): the row
   is read before the lock and not read again under it.
2. A double elimination of four teams cannot be played to the end
   (`bracket_double`): losers drop only from the first round of the winners
   bracket, and the later rounds of the losers bracket keep an empty place.
3. An override that an operator has set disappears with the next edit
   (`overlay_edit_dropped`): the tab forgets what it sent before the answer is
   there, takes its draft from an older row that arrives meanwhile, and sends
   that draft whole. The comment says that edits in flight are not clobbered.

Refuted by the configurations that are run by hand:

4. A match cancelled or completed meanwhile is reopened by a scoring call
   (`ClosedIsFinal`), for the same reason as 1.
5. A crash between the two commits of ConfirmMatchOver leaves a completed match
   with no winner, and the retry is refused (`ConfirmedMatchHasWinner`).
6. Undo after a scoring call changes nothing, because those calls store the state
   after the call and Undo restores the latest snapshot
   (`UndoRestoresPreviousEvent`).
7. A game whose prompt is dismissed is recorded again with the next point, and
   both entries count towards the match (`MatchOverNeedsGamesWon`).
8. The timestamp of the overlay's Source tab does not poll (`TimestampPolls`),
   although the comment at `SourceTab.tsx:18` says every five seconds: the hook
   has no `refetchInterval`.

Noticed while modelling, and visible in the modules:

9. Nothing orders by `court_queue_position`: GetQueue sorts by scheduled time, so
   a reorder changes nothing that is read, while `CHANGELOG.md:112` speaks of
   persistent positioning.
10. RecordMatchResult looks at the winner and never at the match it is told of.
11. In the limiter every request, a refused one too, resets `lastSeen`, and only
    whole intervals refill: a client whose requests come more often than the
    interval gets no token back, however far below the rate it stays.
12. The exception sets of `Catalogue`, among them a query key that is misspelt
    (CleanOrphans) and announcements of a league whose changes refetch the
    tournaments'.
13. A failed refetch of a season puts an error in the place of the page
    (`SeasonDetail.tsx:58`). The edit form that is mounted after it knows nothing of
    the request of the one before, and can send the same change again.
    `SavedOnce` counts it as another opening (`Opening`); without that it fails
    once there are more than two requests, which showed when the bound was
    lifted for the proof.

## 8. What is not modelled

Sessions: logins and cookies hold no state that a modelled operation reads.
Lifecycles of tournaments, divisions, seasons and leagues: a check on an unlocked
read and an UPDATE, as `ReadStatus`/`WriteStatus` of a match are; the one step
that matters elsewhere is `CloseRegistration`. Cleanup jobs: single DELETE
statements on a timer. Of the overlay, the resolver, which maps a match to fields
on each request, and the poller and webhook of outside sources. Of the standings,
overrides and withdrawals by hand. Other channels of the live feed than the
match's and the overlay's.

No handler calls AdvanceWinner at present; the model calls it as its comment
describes. Entries of a bracket are teams: a player registered without a team has
a seed but no team id, and would leave a place empty. `BracketService` is checked
with one organiser.

Left out for good: the columns of a match that no modelled operation reads (court,
referee, notes), CRUD services on single rows, search and dashboards, overlay
rendering, layout and validation of the forms, HTTP decoding and authentication,
generated database code and the theme. They have no protocol of their own, or are
formatting and input/output.
