# ukpc-remote-control: a TLA+ model

The system lets operators see and control Android tablets from a browser, and
shows the state of the fleet. This directory models it in TLA+, checks the
model with TLC on small instances and proves the main results with TLAPS for
all instances. Paths below are relative to `src/`.

## 1. The system

| Component | Keeps | Operations | Modelled in |
|---|---|---|---|
| rc-api sessions (`apps/rc-api/src/sessions/sessions.service.ts`) | nothing in memory; Redis `device:activeSession:<d>` (the lock, `SET NX EX 7200`) and `session:<s>` (the hash); Postgres `sessions` rows | `start`, `reissueViewer`, `fail`, `close`, `list` | Sessions, SessionLease, SessionLife |
| rc-relay (`apps/rc-relay/src/relay.server.ts`) | the map of `RelaySession`s, their sockets, timers and codec configuration; Redis `token:used:<jti>`, `relay:nodes`, `relay:<n>:load` | `onConnection`, close events, `tick`, `closeSession`, `markActive`, frames in both directions | Relay, Stream |
| rc-api devices (`.../devices/devices.service.ts`) | Redis `probe:wait:<d>` | `list`, `get`, `getState`, `probe`, `selfheal`, `remove` | Fleet, Diagnostics, Sessions, Ingest |
| rc-api hardware diagnostics (`.../devices/hw.service.ts`, `conn.service.ts`) | Redis `hw:dumpreq:<n>`, `hw:dump:<n>`, `hw:dumpthr:<d>` | `dump` waits for a device's answer; `samples`, `events` read | Diagnostics |
| rc-ingest (`apps/rc-ingest/src/ingest.service.ts`) | a promise chain of messages; Redis `device:<d>`, `device:caps:<d>`, counters; Postgres `devices`, `device_capabilities`, `capability_events`, samples and events | one handler for each MQTT topic; `prune` | Ingest, Diagnostics, Fleet |
| shared algorithms (`packages/shared/src/*.ts`) | none | readiness, live hash, dashboard, rollout, semver | Readiness, Dashboard |
| fleet (`apps/rc-api/src/fleet/fleet.service.ts`) | none | `dashboard`, `rollout`, their lists, `health`, `connections` | Fleet |
| Headwind client and sync (`.../hmdm/*.ts`) | a cached token; Postgres `devices` | wake a device; import the inventory every 5 minutes | Fleet, Ingest |
| remote page (`apps/rc-web/src/pages/Remote.tsx`, `lib/decode.ts`) | `held`, `inflight`, `pendingDropId` in module scope | opens, holds and drops sessions; decodes frames | RemotePage, Stream |
| other pages of rc-web | nothing of their own | draw what the API gives | Fleet (tiles and their lists) |
| scripts (`scripts/`) | table `schema_migrations` | migrations, rollout verification, deployment | Fleet (`verify-rollout.mjs`) |
| auth (`.../auth/*.ts`) | Postgres `operators` | login, SSO, JWT guard | not modelled |

How they interact. rc-api and rc-relay never call each other: rc-api writes
Redis and Postgres, publishes `session.start` with an agent token to the device
over MQTT and answers the operator with a viewer token; device and browser then
connect to rc-relay with their tokens, and rc-relay writes the same keys and
rows when a session becomes active or ends. rc-ingest turns what devices publish
into the device state that `start` and the fleet views look at, and answers the
probes and dumps rc-api waits for, through Redis lists. The Headwind sync, the
deletion of a device and the expiry of its hash change the same rows and keys
behind ingest's back.

What is hard. A start is a dozen awaits long and may stop at any of them. A lock
taken with `SET NX` is given back with an unconditional `DEL` in six places of
two services. Nothing is transactional. `closeSession` does not wait for its
writes, runs again on a session that has ended, and shares keys with whatever
session comes next. Tokens outlive the session they are for. Messages come
twice, late or never. One Redis connection carries blocking pops and everything
else. The same limits are written down in three algorithms. `PROJECT.json` lists
these hazards at their lines, with the properties that cover each.

## 2. The modules

```
Store  ──┬── Sessions ──┬── MCSessions
         │              └── RemoteControl ──┬── MCRemote
         └── Relay ─────┘                   └── RemoteControl_proofs ── SessionRows_proofs
SessionLease  (abstract; Sessions implements it)
SessionLife   (abstract; RemoteControl implements it)
Readiness ── Dashboard ── Fleet ──┬── MCFleet
                                  └── Fleet_proofs ── FleetViews_proofs
Ingest ──────┬── MCIngest         Diagnostics ──┬── MCDiagnostics
             └── Ingest_proofs                  └── Diagnostics_proofs
RemotePage ──┬── MCRemotePage     Stream ──┬── MCStream
             └── RemotePage_proofs          └── Stream_proofs
```

**Store** has the state both services write: the lock, the session hash, the
row, the devices that exist, the agent's token and the viewer tokens, with the
two writes they share (`DelLock`, `UpdateRow`). A session id is a fresh UUID per
`POST /sessions`, so `Sids` names the requests and the sessions alike. `lost` is
a history variable: sessions whose lock was removed by somebody else.

**Sessions** is rc-api. `pc[s]` is the await at which the `start` with id `s`
stands, one action per await:

| `pc` | action | code |
|---|---|---|
| new | `Acquire`, `Occupied` | `SET NX` of the lock |
| check | `Check` | `getState`, `computeReadiness` |
| insert | `Insert` | INSERT of the row; the foreign key needs the device's row |
| probe | `Probe` | probe, wake, second probe: by outcome |
| place | `Place` | `pickLeastLoaded`, tokens, UPDATE to 'starting' |
| hset, expire | `HSet`, `Expire` | the session hash and its TTL |
| publish | `Publish` | `session.start`, answer with the viewer token |
| catch | `Catch` | DEL of the lock, rethrow |
| failRow, failDel | `FailRow`, `FailDel` | `fail` |
| lookup, verify | `Lookup`, `Verify` | `reissueViewer` |

`Abort` is the death of rc-api, or an error inside `fail` or the catch block:
`start` returns the promise of `fail` without awaiting it, so its errors do not
reach the catch. `Close*` is `close`, `Remove*` is `DevicesService.remove`,
`EnsureDevice` the ingest of a removed device's next message. Readiness, probe
answers, the choice of the relay and what Headwind says are nondeterministic
outcomes.

**Relay** is rc-relay. A connection is one attempt with one token. A
`RelaySession` object is named by the connection it was created for, which is
what makes the dead object that a close handler or a timer still holds visible:
`sessions` maps a session id to the object the map has now, `joined[k]` is the
object that connection `k` captured. A handler between two awaits is one
action, for JavaScript runs it to its end; the only await is the one of the
agent's token (`AgentConnect`, then `AgentJoin`), in which the socket may close
(`PendingDrops`). `closeSession` and `markActive` await nothing they send: the
DEL of the lock and the hash and the UPDATEs of the row go into `writes`, from
where `RelayWrite` runs them in any order and any time later. `Crash` loses
everything in memory.

**RemoteControl** composes the two: a step is a step of one of them, and they
meet in the variables of Store.

**SessionLease** is what the lock promises: granted only when free, once at most
to a session, never handed from one session to another. It says nothing of who
ends a lease, because the code lets anybody.

**SessionLife** is what the row of a session promises: its own start begins it,
places it or fails it, each once; it is active only after it was placed; anybody
may close it at any time, also before it is placed, which then reopens it; the
rows of a device are forgotten together.

**Ingest** is rc-ingest's `onState` for one device, one action per await of
`ensureDevice`, `checkFactoryReset`, `findCaps`, `upsertCaps` and what follows
them; `pc` names the await. Its neighbours are `DevicesService.remove`, of which
it needs the statements on the caps key, the events and the row (Sessions has
those on lock, hash and sessions), and the INSERT of the Headwind sync. `Throw`
is a statement that fails, `Restart` the death of the process: its session is
clean, so what was queued is gone and the broker sends the retained message. That
state messages are retained and that full ones carry the Android id is assumed
of the agent, which is not in this repository. A hash stands for the report it
was made from; two reports that differ only in the agent's version have
different hashes and the same capabilities. `torn` is a history variable: it
names the pairs of statements (row and copy, row and event, id and row) that a
fault or the sync has come between, until a later write puts them together.

**Diagnostics** is what rc-api asks a tablet for and waits for in Redis. A
request (`Dumps`, `Probes`) runs through the awaits of `HwService.dump` and
`DevicesService.probe`; `due` holds the commands a tablet has not answered and
`mail` the copies of its answers; a worker of ingest takes one message at a time
through `onProbe`, `onHwDump` and `onHwEvent`, one action per await. All commands
of rc-api but the BRPOP of a dump use one connection: `shared` is the probe that
blocks it. A TTL is a flag of the key: set, it may go at any time (but not from
a list someone waits for, which Redis hands over at once); not set, it never
goes. `Die` is the death of a worker, or Redis failing it; `torn` remembers
deaths that left a claim or a counter behind. `RemoveKeys` is the DEL of
`DevicesService.remove`, which takes the list a probe waits for with the other
keys of the device; what `remove` and `prune` delete in Postgres is left out, for
nothing here reads it after it was reported.

**Readiness** and **Dashboard** are the pure algorithms of `packages/shared`:
`computeReadiness`, `semverLt`, the hash `device:<d>` as it is written and read
(`liveHashPatch`, `hwLivePatch`, `hwFromHash`), `summarizeFleet`, `briefOf`,
`summarizeRollout`. A hash is a function on the fields it has, so that "absent"
differs from every value. A list of ids is a set; a counter is what its own code
adds up (`Weak`, `NeverSeen`, `On`, `WithoutCaps`), so that a counter and a list can
disagree. Likewise the conditions: readiness, dashboard and rollout write theirs
down each for itself, and the second attention loop once more, so each has its
own operators here (`Warns`, `Reasons`, `LateReasons`, `Broken`, `Ailing`, with
`toState` and `stateOf`); what they share is `DASH_LIMITS`. A time is "never", "recent"
or "long" ago.

**Fleet** puts them to work: rows, hashes and retained messages of the tablets
under connect, heartbeat, disconnect with last will, factory reset, expiry,
ageing, removal, restart of ingest with replay, and the Headwind sync with its
loop; then each view of rc-api as an operator on that state (`get`, `list`,
`getState`, `dash`, `health`, `dashboardList`, `versionPage`, `rollout`,
`rolloutList`) and the verdict of `verify-rollout.mjs`. Here ingest handles a
message in one step, for Ingest takes it apart.

**RemotePage** is one browser tab: a run of the effect of `Remote.tsx` for each
device the tab shows, and the module variables that outlive it. `run[r]` is what
the closure of an effect knows; `held`, `inflight` and `pending` are `held`,
`inflight` and `pendingDropId`. A DELETE may fail, which `api.ts:19` swallows.
`view.gone` is the phase 'disconnected', which stays on the page while the next
run asks, and with it the button of `Reconnect`. The server is what Sessions and
Relay make of it, in one step each.

**Stream** is the picture: what the agent sends, the stash while its token is
checked, `codecConfig`, `viewer.join`, the replacement of a viewer, and the
decoder of `decode.ts` (key gate, JPEG mode, newest JPEG only). The agent is
external; `tools/fake-agent/agent.js` and the decoder say what it sends.

Left out on purpose: the contents of messages and tokens; several relay nodes
(a token names its node and another one refuses it); the `close` calls that
find no row or no permission, which change nothing; `session.stop`, which the
agent may obey or not: an agent that leaves is `AgentClosed`.

### Time

TTLs and timers fire as actions, at any moment their durations allow. The
durations, in code: a start takes seconds (probes of 3 s and 8 s), the agent's
token 1 minute (`AGENT_JWT_EXPIRES_SEC`, 60 by default) and the record of its use 120 s, a
viewer's token 30 minutes, the idle limit 10 minutes, Redis keys 2 hours. So
(a) the agent's token does not expire while its start runs; (b) the viewer
token of a start goes before the keys; one that was reissued may outlast them;
(c) when the idle tick finds ten minutes of silence, no agent token is left that
could still be used and no await of `onConnection` is pending. Whoever configures
`AGENT_JWT_EXPIRES_SEC` above 120 leaves these assumptions: the record of
a used token would go first. In Fleet a hash (180 s) does not expire while its
tablet is connected and ingest runs, for heartbeats come more often.

### Fairness

| Specification | Assumed | Why the code justifies it |
|---|---|---|
| `FairSpec` (RemoteControl) | a request is run to its end while rc-api lives (the whole start, not each outcome; `Abort` may end it at any await); Redis drops keys, tokens expire; handlers and timers of a live relay run, a socket told to close closes, what was sent to Postgres and Redis arrives | Node runs what is ready; ws gives a peer 30 s; TTLs are Redis's |
| `DiagSpec` | a dump or probe that has begun goes on | its commands are answered, and both BRPOPs have a timeout |
| `FleetSpec` | ingest is started again, and the broker replays what it retains | container restart policy; the subscription |
| `PageSpec` | the drop timer fires, a DELETE that was sent arrives or fails, the relay's grace timer fires | `setTimeout`; a `keepalive` request ends one way or the other |
| `StreamSpec` | the agent goes on sending something, messages arrive, the check of a token and the decoding of a JPEG end | an agent that streams sends frames |

Nothing is assumed of people or peers: nobody has to connect, to leave, to
close, to remove, to visit a page, and no tablet has to answer. The idle tick is
owed only to a session to which no socket is open, for an open one may send for
ever. In `StreamSpec` the agent need never send a key frame of its own accord.

## 3. The runs

| Run | Instance | Shows |
|---|---|---|
| start | 3 requests, 1 device, 2 operators, one session closable | mutual exclusion while nobody interferes (`Exclusive`), only a start that was robbed of its lock robs another (`StealsAreChained`), a reissued token is sound (`ReissueIsSound`), the lock implements `SessionLease` |
| relay | 1 session, 2 agent attempts, 2 viewers, close at any time, deaths of rc-api, one relay crash | one agent per token; the agent that streams is in the map; the grace timer does not end a session whose viewer is back, as long as its agent is there or may come (`GraceHonoured`); what nobody attends leaves the map; no session holds the lock for ever, also when rc-api dies; no late UPDATE reopens an ended row (`EndedStaysEnded`) |
| remote | 2 sessions one after the other on one device that may be removed at any time, one agent, one viewer | the lock is accounted for (`HeldUnlessLost`); rows say 'active' only when backed; a row lives as `SessionLife` says |
| ingest | 1 device, 2 Android ids, 4 reports of which one has the capabilities a reset leaves, one message queued behind the one in hand, faults, restarts, removal and sync at any await | the copy of the caps hash tells the truth (`CacheTruthful`), the event trail is complete (`TrailEnds`), a reset tablet does not keep its old capabilities (`CapsOfThisTablet`), but where `torn` says what came in between |
| diagnostics | 2 dumps and 2 probes of a tablet, a probe of another, an event with its automatic dump, a stray answer, one worker | a nonce is answered once (`AnsweredOnce`), a claimed one always (`ClaimIsAnswered`), what is reported is stored (`InsertedIsStored`), a probe loses its answer only to another probe, a removal or a TTL (`ProbeHears`), keys go (`KeysExpire`), requests end though a probe blocks the others (`RequestsEnd`) |
| fleet | 2 tablets on the edges of the limits, 3 changes of the world | who is online is connected (`OnlineIsConnected`), all views agree, and readiness, dashboard and rollout find the same faults (`ViewsAgree`), every figure opens the devices it counts (`TilesOpen`), done is healthy (`DoneIsHealthy`), the exit code is sound (`ExitIsComplete`), the sync hides nobody it should not (`HiddenWasMissing`), a tablet comes back after ingest was away (`ComesBack`) |
| page | 3 runs, 2 devices, 2 sessions | a page shows its own device (`OwnDevice`), what is shown is not dropped (`ShownIsKept`), what was left ends (`LeftSessionEnds`) |
| stream | 2 viewers of which one is watched, queues of 1, JPEGs numbered to 2 | the picture is whole (`PictureIsWhole`) and comes (`PictureComes`) |
| one_winner | 3 requests of 3 operators, 1 agent, 1 viewer | finding 1 |
| agent_death | 1 session, 1 agent, 1 viewer | finding 2 |
| stale_caps | 2 reports, no faults, with the sync | finding 3 |
| stale_hw | as fleet | finding 4 |

Bounds. Three requests are the least in which one start robs a second and a
third gets in. One device is enough where all state is per device; the proofs
cover any number. `Closable` and `Removable` bound what may be closed or removed,
not how often. Two connections of each role are the least for a replaced viewer
and a replayed token. One relay crash that costs a session is the bound of
`Crash`. Messages of Ingest are unbounded in number and `MaxInbox` only bounds
the queue: one message in hand, one behind it and one retained are all different
when they can be, and handling is strictly in turn; faults may come at every
await and as often as they like.

Diagnostics: `MaxRequests` = 2 requests, events or strays begin in a behaviour,
any two of the eight; `MaxDeaths` = 1 death that leaves something; `Limit` = 1,
so that the second message of a kind is over the limit; one worker, as
`docker-compose.yml` starts. More workers, requests and deaths are covered by
the proofs. Fleet: `MaxChanges` = 3 changes of the world (connect, heartbeat,
removal, ...), between which replay, sync and verdict take as many steps as they
like; one tablet with five reports and three heartbeats chosen on both sides of
each limit, and one that has been dropped four times, so that one more makes it
flap. RemotePage: three runs are the least for a page that is left and come back
to with another in between, two sessions the least for a drop that replaces
another. Stream: a delta is numbered modulo 2 (a decoder that misses one is off
by one), a queue of one message makes every interleaving of legs happen, and
`MaxJpegs` = 2 tells newer from older; the other viewer replaces and is replaced.

Deadlock checking is on in the runs of Ingest. Elsewhere the numbers of
requests, connection attempts, changes or runs are finite and the system comes
to rest.

### Findings

1. `closeSession` deletes the lock of the device whoever has it
   (`relay.server.ts:246-248`). The trace: the publish of s1's start throws
   although the message reached the broker; the start gives the lock back; s2, of
   another operator, takes it; the agent of s1 connects with the token it got,
   and leaves; `closeSession` of s1 deletes the lock of s2; s3, of a third
   operator, takes it. The requests s2 and s3 are then both being served for one
   device, where `tests/session.test.js:130` says that of concurrent requests
   only one wins. The same happens whenever `closeSession` runs again for a
   session that has ended: after the idle tick or the grace timer has closed it,
   its agent's close event still finds `s.agent === ws` on the dead object (line
   153).
2. An agent that drops while its token is being checked is attached dead
   (`relay.server.ts:111`, close handler at 152): the session does not end with
   its agent, as `tests/session.test.js:114` says.
3. A removed device that the Headwind sync recreates may never get its
   capabilities again (`ingest.service.ts:379`). The trace: a report is being
   handled while `remove` deletes the caps key; ingest writes the key back;
   `remove` deletes the row, and with it the capabilities; the sync inserts the
   row. `ensureDevice` drops the key only for a row it inserted itself, so the
   same report is skipped from now on. The comment there (377) describes this
   outcome as what the line is to prevent.
4. A tablet whose hardware monitor has stopped may count as done in a rollout
   (`packages/shared/src/hw.ts:130`). A heartbeat without any figure leaves those
   of the last good one in the hash, which the heartbeats keep alive; so
   NO_HW_DATA is not raised. The comments at `hw.ts:141` and `rollout.ts:15` say
   that old numbers do not stay and that missing ones mean the monitor does not
   run.

The first two show what `HeldUnlessLost` and `StealsAreChained` state positively: the lock
is exact as long as every DEL hits its own session, and the first that does not
sets off a chain.

### What the properties make an exception for

Some properties hold only outside a window that a history variable names. Each
is behaviour of the code that no document promises otherwise, but that a reader
should know:

* `hasty` (RemotePage): the tab went to another device while a start was in
  flight. `createSession` (`Remote.tsx:47`) returns that start whatever device it
  was for, and the page shows the other device.
* `lost` (RemotePage): one id and one timer. A second drop within two seconds
  replaces the first; a start answered after its page was left is held by
  nobody; a DELETE may fail. Such a session ends by the relay only if a viewer had
  joined it.
* `tab = "broken"`: `decoder.close()` of a decoder that has failed throws
  (`decode.ts:141`), the socket stays open and no drop is scheduled.
* a session held for a page that is blocked is attached without a canvas: no
  socket is opened. The answer of a probe restarts whatever device the page
  shows by then. Neither violates a property; both are in the model.
* `spoiled` (Diagnostics): probes of one device share a list, clear it and take
  each other's answers; the removal of the device clears it too. An answer that
  comes after its own probe gave up satisfies the next one: the device did
  answer, only not that question.
* `torn` (Diagnostics, Ingest): a death between a command and its EXPIRE leaves
  a counter that never goes, and the device limited for good. In Ingest a fault
  between upsert and event loses the event, and so does a sync that puts a row
  back between the read and the upsert (`TrailEnds`). A factory reset writes no
  event at all: `TrailEnds` says nothing of the capabilities it leaves.
* a viewer that comes back to a session whose agent has gone (Relay) makes a new
  `RelaySession`, and the timer of the old one, which its close event armed after
  it was closed, deletes the new one's entry (`relay.server.ts:176-178`, 245).
  `GraceHonoured` holds while the agent is there or awaited; afterwards there is
  nothing to show.
* a session that an operator closes during its probe is opened again by its own
  start: the UPDATE to 'starting' asks for no state (`sessions.service.ts:83`).
  `EndedStaysEnded` and `SessionLife` name this one step and exclude all others;
  `ReissueIsSound` says nothing of closed rows.
* `missed` (Fleet): a device enrolled in Headwind after the sync has read the list
  is hidden until the next sync.
* `forgotten` (Fleet): a removed device that stays connected has its hash built
  up by heartbeats without `online` and is shown offline until its next full
  state.
* a JPEG that is decoded late may be painted over a newer H.264 frame, and a
  viewer that was replaced is told nothing (Stream): `PictureIsWhole` orders
  JPEGs among themselves and `PictureComes` promises nothing to who was replaced.

## 4. The proofs

With no assumption but those named in the modules, for any sets of sessions,
devices, operators, connections, requests, workers, reports and bounds:

| Theorem | States | In |
|---|---|---|
| `TypeCorrect` | `Spec => []TypeOK` | RemoteControl_proofs |
| `LockIsAccountedFor` | `Spec => []HeldUnlessLost` | |
| `LockExcludes` | `Spec => []Exclusive` | |
| `RejectionReleases` | `Spec => []RejectedFreesDevice` | |
| `OnlyTheRobbedRob` | `Spec => StealsAreChained` | |
| `LockIsLease` | `Spec => LeaseSpec` | |
| `TokenIsSingleUse` | `Spec => []SingleAgent` | |
| `ReissuesAreSound` | `Spec => []ReissueIsSound` | SessionRows_proofs |
| `EndsAreFinal` | `Spec => EndedStaysEnded` | |
| `StreamsAreMapped` | `Spec => []StreamingIsMapped` | |
| `GraceIsHonoured` | `Spec => []GraceHonoured` | |
| `ActiveRowsAreBacked` | `Spec => []ActiveIsBacked` | |
| `RowsLive` | `Spec => LifeSpec` | |
| `IngestTypes` | `IngestSpec => []IngestTypeOK` | Ingest_proofs |
| `CacheIsTruthful` | `IngestSpec => []CacheTruthful` | |
| `TrailIsComplete` | `IngestSpec => []TrailEnds` | |
| `CapsAreOfThisTablet` | `IngestSpec => []CapsOfThisTablet` | |
| `DiagTypes` | `DiagSpec => []DiagTypeOK` | Diagnostics_proofs |
| `AnsweredAtMostOnce` | `DiagSpec => []AnsweredOnce` | |
| `ClaimsAreAnswered` | `DiagSpec => []ClaimIsAnswered` | |
| `InsertedAreStored` | `DiagSpec => []InsertedIsStored` | |
| `KeysGo` | `DiagSpec => []KeysExpire` | |
| `ProbesHear` | `DiagSpec => []ProbeHears` | |
| `OnlineAreConnected` | `FleetSpec => []OnlineIsConnected` | Fleet_proofs |
| `HiddenWereMissing` | `FleetSpec => HiddenWasMissing` | |
| `DoneAreHealthy` | `FleetSpec => []DoneIsHealthy` | |
| `ExitsAreComplete` | `FleetSpec => ExitIsComplete` | |
| `HandledTwice` | a message handled again changes nothing | |
| `FleetTypes` | `FleetSpec => []FleetTypeOK` | FleetViews_proofs |
| `ViewsAreOne` | `FleetSpec => []ViewsAgree` | |
| `TilesAreLists` | `FleetSpec => []TilesOpen` | |
| `VersionsAreOrdered` | `semverLt` is a strict total order | |
| `SuggestedIsHighest` | the suggested target runs, and all else is below it | |
| `ShowsItsOwn` | `PageSpec => []OwnDevice` | RemotePage_proofs |
| `DropsNothingShown` | `PageSpec => ShownIsKept` | |
| `PageHasTypes` | `PageSpec => []PageTypeOK` | |
| `StreamTypes` | `StreamSpec => []StreamTypeOK` | Stream_proofs |
| `PicturesAreWhole` | `StreamSpec => []PictureIsWhole` | |

The lock. Mutual exclusion is not inductive: a request that
reached `catch` must be known to hold its lock or to have lost it, or its DEL
could hit anyone. The inductive invariant is `HeldUnlessLost` together with
`LostWasHeld`: (i) who is past `SET NX` and not in `lost` is what the lock says;
(ii) what the lock says is past `SET NX` and not in `lost`; (iii) who is in
`lost` had the lock once. Then `Exclusive` follows from (i) alone,
`RejectedFreesDevice` from (ii), and `StealsAreChained` from (i): a request in
`catch` that lost nothing deletes its own entry, which leaves `lost` as it is.
The relay touches the lock in `RelayDel` only, which is a `DelLock(d, None)` like
those of others, so one lemma (`ForeignDelete`) serves `close`, `remove`, the TTL
and `closeSession`. The
lease follows with `holder <- lock` and `taken <-` the requests past `SET NX`:
`Acquire` maps to `Grant`, each delete of a held lock to `End`, the rest stutters.

The token. `SingleAgent` is strengthened with: while a token is
still `issued`, no connection of its session has been admitted. `AgentConnect`
needs `issued` and leaves `used`, and nothing leads back.

Rows, tokens and the map. `RowInv` ties a row and a hash to the await their start
has reached: a hash exists only for a start past `HSet`, a failed row only for
one that never gets there, so that a reissue that found a hash found a session
whose device was reached. `RowStep` lists the writers of a row; with `RowInv` it
leaves `Place` as the only one that can reopen an ended row.
`StreamingIsMapped` needs to know what saves the map's entry from a late
`closeSession` of another RelaySession. `MapInv` says it: as long as the agent of
a session may come or is there (`Awaited`), every RelaySession of it but the
map's is `Dead`, without agent, viewer or timer, so that nothing can close it;
after that, `TokenInv` keeps any further agent out. `GraceHonoured` follows from
the same `MapInv`: a RelaySession with a timer or a viewer is not `Dead`, so while
the agent is awaited both can only be the map's, of which `TimerIsOfNobody` says
that it has no viewer while its timer is armed. `BackInv` says that nothing
of a session reaches rc-relay before its start has placed it, so that the only
UPDATE to 'active' comes from a session that is in the map, or has left it by
`closeSession`, which leaves a 'closed' to be written after it.

The life of a row. `RowsLive` refines `SessionLife` with `state <- row` and the
stage of a start read off its await (`Stage`). The one step that does not map by
itself is the UPDATE to 'active', which takes rows in 'probing' too
(`relay.server.ts:233`) while the abstract row becomes active only from
'starting'. `FreshInv` shows that it never finds one: while a row is in
'probing', its start is before its placing or has given up, and nothing of the
session has left rc-api (`Untouched`: no hash, no token, no socket, no
RelaySession, no UPDATE), so that rc-relay has nothing to write. It is inductive
with `BackInv`, `MapInv` and `TokenInv`, which say the same of a start about to
insert its row.

Ingest. Each property is strengthened by what the handler in hand knows at the
await it stands at (`Reported`, `CopyFollows`, `TrailFollows`, `IdFollows`): what
it has read is what Postgres still has, or `torn` or the remover says why not. In
`TrailEnds` the capabilities a reset leaves are a case of their own: a reset writes
them without an event, so the trail speaks again once a report differs from them.

Dumps and probes. `AnsweredOnce` alone says nothing of who may still push. The
invariant `Once` adds: a nonce is in `hw:dumpreq` or claimed, never both, and
neither before it was registered; a worker that has a claim is the only one; and
as long as its claim is open (`Open`, before the push) nothing has been pushed.
Only `Claim` and `Reply` touch this (`JobMoves`), so one case each remains.
`ClaimIsAnswered` is then `Answering`: an open claim ends in the push, which
makes the count one because it was zero, or in a death that `torn` records.
`KeysExpire` is inductive as it stands, given that a reply belongs to a claim;
`ProbeHears` needs that what was heard and not spoiled is still in the list.

The fleet. `OnlineIsConnected` is strengthened with the same of the retained
messages (`Retention`): a retained "online" is of a connected tablet, which is
what a replay writes. Its core is `WriteOnline`: whatever a message carries,
`writeLive` changes the field `online` only if the message has it.
`HiddenWasMissing` needs that who is not in the list a running sync holds was
missed by Headwind since the sync began (`Listing`). `DoneIsHealthy` holds of
any rows. `ExitIsComplete` comes down to a fact of finite sets: a part as large
as the whole is the whole. `HandledTwice` is about one step and its repetition:
what `hset` and `hdel` of a message leave, the same message leaves alone
(`WriteTwice`), and so does the UPDATE of the row, since `RowAfter` takes each
field from the message or from the row as it is.

The views. `ViewsAgree` and `TilesOpen` are about states only, but not about any
state: `FleetInv` adds to `Hidden` and `Retention` that who reported capabilities
reported a version, that a hash has the fields ingest writes and no others, and
that statistics are records. Under it the three conversions of a row and its hash
give one record (`StatesAgree`), so that every copy of the judgement is the same
judgement; the limits of lists and warnings are compared case by case
(`LimitsAreOne`), and the conditions of the rollout with those of the lists
(`RolloutIsOne`). A figure and its list are shown to count one set. The figures of
the attention list add one more step: a device is ranked before the cut exactly
if it has a reason, because the score of a reason is positive and fewer devices
than there are stand before it.

Versions. `summarizeRollout` keeps the highest version it has met so far; the model
chooses one that no other exceeds. That there is one, and only one, needs the order
(`VersionsAreOrdered`) and, as induction over the rows is out of reach, a count
instead: the version with the fewest above it has none (`SomeIsHighest`), for one
above it would have fewer.

The tab. `PageInv` says that only the last run of a mounted page is not cancelled
(`OneShows`), that every session the tab knows is one the server opened, with the
device it is held for (`Mapped`), that the session due to be dropped is not the
one shown (`Shown`), and that the start in flight is the page's own unless `hasty`
(`Owned`). The last two are what a `Turn` may disturb: it cancels the run whose
session it schedules, and attaches only with `cancelDrop`. `ShapeInv` adds what
the types need: who awaits a start has one in flight and a socket has its session
(`Fit`), only a page that is there probes (`Drawn`), and what is over or viewed was
opened (`Over`).

The picture. A delta is sent right after a key or a delta, so `Deltas` is local:
neighbours in a queue follow each other (`Follows`), over the seam between
`toViewer` and `up` and up to what the encoder may send next (`NextDelta`); only
behind the configuration a late viewer gets first may anything come, and then its
decoder has no key. `Takes` ties the head of the queue to the decoder. `Jpegs` is
the order of the numbers painted, in work, latest, queued and sent.

Every safety invariant and action property of the runs is a theorem;
`RejectedFreesDevice` is one that no run lists, for `HeldUnlessLost` implies it. Checked by
TLC only: liveness under fairness (`LockReleased`, `UnattendedEnds`,
`RequestsEnd`, `ComesBack`, `LeftSessionEnds`, `PictureComes`), which is out of
this prover's reach, and of course what the runs refute.

The assumptions are typings of the constants (what a request asks for, which
connection has which token, the bounds are numbers) and that `None` is not one of
the values it stands beside. Two more are technical: in Fleet the devices are
numbers, which stand for the order of their ids in the attention list, and `ResetCaps`, what a
reset tablet reports, is not `None`; in RemotePage a start in flight is not `None`
(`StartsAreSome`).

## 5. Not modelled

* auth (login, SSO, JWT guard, rate limit of login): single calls to bcrypt,
  JWT and HTTP over one row; operators are constants here.
* infrastructure, configuration, controllers, module wiring, DTO validation.
* relay nodes that come and go: `pickLeastLoaded` and the load report are an
  outcome in Sessions. A node that died stays in `relay:nodes` (a listed hazard).
* what viewers send through the relay, its counters and the quality message on
  backpressure: they change no state another part reads.
* `connections` (SQL counts), the normalisers of hardware samples and broker
  events, `storeHeartbeatSample` and `prune`, which only fill and empty tables
  nothing else reads.
* two instances of ingest for state messages (Diagnostics has any number).
* groups in the Headwind sync and the HTTP client with its cached token.
* input, layout and drawing of the pages; the Playwright and load tests.
* migration and deployment scripts, container and proxy files, the fleet
  simulator; the Android agent is not in this repository.

What a continuation would take up first: the relay nodes with their load keys.

## 6. Running

`tlc -config MCSessions.cfg MCSessions` and so on with the module and cfg of each
run in `PROJECT.json`; `tlapm Diagnostics_proofs.tla` and so on for the proofs.
The names marked `Mutant` in the modules are not used by any specification: each
is a plausible bug, and substituting it for the definition after it must break a
property.
