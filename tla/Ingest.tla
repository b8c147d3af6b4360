------------------------------- MODULE Ingest -------------------------------
(***************************************************************************)
(* rc-ingest: what the state messages of one device do to its capabilities *)
(* in Postgres and to the copy of their hash in Redis, by which ingest     *)
(* decides that there is nothing to write.  rc-api removes the device and  *)
(* the Headwind sync puts its row back, both between any two steps.        *)
(*                                                                         *)
(* One process handles one message at a time; each await is a step, and    *)
(* the process may die or a statement fail at any of them.  The live hash  *)
(* device:<d>, last_seen and the heartbeat samples, which are written on   *)
(* the way, are left out: nothing here reads them.  A hash stands for the  *)
(* report it was computed from.                                            *)
(***************************************************************************)
EXTENDS Sequences, Naturals

CONSTANTS
  Reports,   \* what a tablet may report: records [caps, ver]
  Ids,       \* Android ids: a factory reset draws a new one
  Blocked,   \* the capabilities written after a factory reset, which a tablet
             \* may report as well
  None,
  MaxInbox,  \* bound: messages delivered and not yet handled
  Faults,    \* bound: whether ingest may die and statements may fail
  Syncing    \* bound: whether the Headwind sync runs

ASSUME IngestAssumption ==
  /\ None \notin Reports
  /\ None \notin Ids \union [id : Ids \union {None}, needs : BOOLEAN]
  /\ MaxInbox \in Nat \ {0}
  /\ Faults \in BOOLEAN /\ Syncing \in BOOLEAN

VARIABLES
  dev,      \* Postgres devices: [id, needs], or None
  caps,     \* Postgres device_capabilities: a report, or None
  cache,    \* Redis device:caps:<d>: the report whose hash it has, or None
  logged,   \* what the latest capability_events row changed to, or None
  inbox,    \* messages on their way through the promise chain
  retained, \* the retained message of rc/state/<d>
  pc, msg,  \* the message in hand and the await it stands at
  prev,     \* what findCaps returned
  remover,  \* where DELETE /devices/:id stands
  owner,    \* history: the Android id of the tablet that reported caps
  torn      \* history: "cache", "trail" or "reset" once a fault or the sync
            \* came between two statements that belong together, "blocked"
            \* while a factory reset has the last word and no event tells

db == <<dev, caps, owner>>
ingestVars == <<dev, caps, cache, logged, inbox, retained, pc, msg, prev,
                remover, owner, torn>>

\* Whoever sends capabilities sends its Android id; heartbeats and the last
\* will may send neither.
Messages ==
  {m \in [report : Reports \union {None}, id : Ids \union {None}] :
     m.report # None => m.id # None}
Bare == [report |-> None, id |-> None]

CapsRows ==
  Reports \union {[r EXCEPT !.caps = Blocked] : r \in Reports}

IngestInit ==
  /\ dev = None /\ caps = None /\ cache = None /\ logged = None
  /\ inbox = <<>> /\ retained = Bare
  /\ pc = "idle" /\ msg = Bare /\ prev = None
  /\ remover = "idle"
  /\ owner = None /\ torn = {}

-----------------------------------------------------------------------------
(* The device and the broker.  Ingest subscribes to rc/state twice, shared *)
(* and plain, at QoS 1: a message comes more than once, which is another   *)
(* Publish of it.                                                          *)

Publish(m) ==
  /\ Len(inbox) < MaxInbox
  /\ inbox' = Append(inbox, m)
  /\ retained' = m
  /\ UNCHANGED <<db, cache, logged, pc, msg, prev, remover, torn>>

Receive ==
  /\ pc = "idle" /\ inbox # <<>>
  /\ msg' = Head(inbox) /\ inbox' = Tail(inbox)
  /\ pc' = "ensure"
  /\ UNCHANGED <<db, cache, logged, retained, prev, remover, torn>>

-----------------------------------------------------------------------------
(* onState, await by await.                                                *)

Handle(from, to) ==
  /\ pc = from /\ pc' = to
  /\ IF to = "idle" THEN msg' = Bare /\ prev' = None ELSE UNCHANGED msg
  /\ UNCHANGED <<inbox, retained, remover>>

AfterEnsure == IF msg.id = None THEN "live" ELSE "readId"

NewRow == [id |-> None, needs |-> FALSE]

\* ensureDevice: INSERT ... ON CONFLICT DO NOTHING.
Ensure ==
  /\ IF dev = None
     THEN dev' = NewRow /\ Handle("ensure", "forget")
     ELSE dev' = dev /\ Handle("ensure", AfterEnsure)
  /\ UNCHANGED <<caps, owner, cache, logged, prev, torn>>

\* Mutant: a row that was just created says nothing about the cache.
TrustCache ==
  /\ Handle("forget", AfterEnsure)
  /\ UNCHANGED <<db, cache, logged, prev, torn>>

\* The row is new: the copy in Redis is older than it and goes.
Forget ==
  /\ Handle("forget", AfterEnsure)
  /\ cache' = None /\ torn' = torn \ {"cache"}
  /\ UNCHANGED <<db, logged, prev>>

\* checkFactoryReset: the id that is stored, if any, is not the reported one.
OtherTablet == dev # None /\ dev.id \notin {None, msg.id}

ReadId ==
  /\ Handle("readId", IF OtherTablet THEN "resetRow" ELSE "setId")
  /\ UNCHANGED <<db, cache, logged, prev, torn>>

\* UPDATE devices: a row that is gone stays gone.
SetRow(needs) ==
  dev' = IF dev = None THEN None
         ELSE [id |-> msg.id, needs |-> dev.needs \/ needs]

SetId ==
  /\ Handle("setId", "live")
  /\ SetRow(FALSE)
  /\ UNCHANGED <<caps, owner, cache, logged, prev, torn>>

ResetRow ==
  /\ Handle("resetRow", "resetCaps")
  /\ SetRow(TRUE)
  /\ UNCHANGED <<caps, owner, cache, logged, prev, torn>>

\* Mutant: the reset drops the copy and leaves the row to the next report.
ResetCacheOnly ==
  /\ Handle("resetCaps", "resetCache")
  /\ UNCHANGED <<db, cache, logged, prev, torn>>

\* The capabilities are overwritten, caps_hash is not, and no event tells.
ResetCaps ==
  /\ Handle("resetCaps", "resetCache")
  /\ caps' = IF caps = None THEN None ELSE [caps EXCEPT !.caps = Blocked]
  /\ torn' = (torn \ {"reset"}) \union (IF caps = None THEN {} ELSE {"blocked"})
  /\ UNCHANGED <<dev, owner, cache, logged, prev>>

\* Then the message is done with; its caps are left for the next one.
ResetCache ==
  /\ Handle("resetCache", "idle")
  /\ cache' = None /\ torn' = torn \ {"cache"}
  /\ UNCHANGED <<db, logged>>

\* Nothing to write: no capabilities, or those Redis has the hash of.
Skip ==
  /\ msg.report \in {None, cache}
  /\ Handle("live", "idle")
  /\ UNCHANGED <<db, cache, logged, torn>>

Compare ==
  /\ msg.report \notin {None, cache}
  /\ Handle("live", "find")
  /\ UNCHANGED <<db, cache, logged, prev, torn>>

Find ==
  /\ Handle("find", "upsert")
  /\ prev' = caps
  /\ UNCHANGED <<db, cache, logged, torn>>

\* Mutant: a first report is no change.
KnownAndChanged == prev # None /\ prev.caps # msg.report.caps

\* capsDiff compares with what findCaps read, and ignores the version.
Changed == prev = None \/ prev.caps # msg.report.caps

\* Mutant: the capabilities do not refer to the device's row.
UpsertUnchecked ==
  /\ caps' = msg.report /\ owner' = msg.id
  /\ Handle("upsert", IF Changed THEN "event" ELSE "remember")
  /\ UNCHANGED <<dev, cache, logged, prev, torn>>

Upsert ==
  /\ dev # None
  /\ caps' = msg.report /\ owner' = msg.id
  /\ torn' = IF dev.id = msg.id THEN torn \ {"reset"} ELSE torn
  /\ Handle("upsert", IF Changed THEN "event" ELSE "remember")
  /\ UNCHANGED <<dev, cache, logged, prev>>

\* Without the device's row the foreign key refuses, and the message is lost.
UpsertRefused ==
  /\ dev = None
  /\ Handle("upsert", "idle")
  /\ UNCHANGED <<db, cache, logged, torn>>

Event ==
  /\ Handle("event", "remember")
  /\ logged' = msg.report.caps
  /\ torn' = torn \ {"trail", "blocked"}
  /\ UNCHANGED <<db, cache, prev>>

\* The copy follows the row, unless the row is another by now.
Remember ==
  /\ Handle("remember", "idle")
  /\ cache' = msg.report
  /\ torn' = IF caps = msg.report THEN torn \ {"cache"} ELSE torn
  /\ UNCHANGED <<db, logged>>

-----------------------------------------------------------------------------
(* Faults: between two statements ingest stops handling the message.       *)

\* What stays apart when the message is dropped at this await.
LeftApart ==
  (IF pc \in {"forget", "resetCache", "event", "remember"} THEN {"cache"} ELSE {})
    \union (IF pc = "event" THEN {"trail"} ELSE {})
    \union (IF pc = "resetCaps" THEN {"reset"} ELSE {})

\* A statement throws: the chain logs it and goes on with the next message.
Throw ==
  /\ Faults /\ pc # "idle"
  /\ Handle(pc, "idle")
  /\ torn' = torn \union LeftApart
  /\ UNCHANGED <<db, cache, logged>>

\* A clean session: what was under way is lost, the retained message comes.
Restart ==
  /\ Faults
  /\ pc' = "idle" /\ msg' = Bare /\ prev' = None
  /\ inbox' = <<retained>>
  /\ torn' = torn \union LeftApart
  /\ UNCHANGED <<db, cache, logged, retained, remover>>

-----------------------------------------------------------------------------
(* rc-api: DevicesService.remove and the Headwind sync.                    *)

Remove(from, to) ==
  /\ remover = from /\ remover' = to
  /\ UNCHANGED <<inbox, retained, pc, msg, prev>>

RemoveKeys ==
  /\ dev # None
  /\ Remove("idle", "events")
  /\ cache' = None
  /\ UNCHANGED <<db, logged, torn>>

RemoveEvents ==
  /\ Remove("events", "row")
  /\ logged' = None
  /\ UNCHANGED <<db, cache, torn>>

\* DELETE FROM devices cascades to the capabilities.
RemoveRow ==
  /\ Remove("row", "idle")
  /\ dev' = None /\ caps' = None /\ owner' = None
  /\ UNCHANGED <<cache, logged, torn>>

\* A statement fails: the request ends where it stands.
RemoveFails ==
  /\ Faults /\ remover # "idle"
  /\ Remove(remover, "idle")
  /\ torn' = torn \union (IF remover = "row" THEN {"trail"} ELSE {})
  /\ UNCHANGED <<db, cache, logged>>

\* INSERT ... ON CONFLICT DO UPDATE of columns that are not modelled.  Behind
\* a row that comes back here a copy, or a message that is about to write
\* one, is from the row before.
Sync ==
  /\ Syncing /\ dev = None
  /\ dev' = NewRow
  /\ torn' = torn
       \union (IF cache # None \/ pc \in {"event", "remember"} THEN {"cache"} ELSE {})
       \union (IF pc = "upsert" THEN {"trail"} ELSE {})
       \union (IF pc \in {"live", "find", "upsert"} THEN {"reset"} ELSE {})
  /\ UNCHANGED <<caps, owner, cache, logged, inbox, retained, pc, msg, prev, remover>>

-----------------------------------------------------------------------------
OnState ==
  \/ Ensure \/ Forget \/ ReadId \/ SetId \/ ResetRow \/ ResetCaps \/ ResetCache
  \/ Skip \/ Compare \/ Find \/ Upsert \/ UpsertRefused \/ Event \/ Remember

IngestNext ==
  \/ \E m \in Messages : Publish(m)
  \/ Receive \/ OnState
  \/ Throw \/ Restart
  \/ RemoveKeys \/ RemoveEvents \/ RemoveRow \/ RemoveFails
  \/ Sync

IngestSpec == IngestInit /\ [][IngestNext]_ingestVars

-----------------------------------------------------------------------------
\* Types, and the foreign key of device_capabilities to devices.
IngestTypeOK ==
  /\ dev \in {None} \union [id : Ids \union {None}, needs : BOOLEAN]
  /\ caps \in {None} \union CapsRows
  /\ cache \in {None} \union Reports
  /\ logged \in {None} \union {r.caps : r \in Reports}
  /\ inbox \in Seq(Messages) /\ Len(inbox) <= MaxInbox
  /\ retained \in Messages /\ msg \in Messages
  /\ pc \in {"idle", "ensure", "forget", "readId", "resetRow", "resetCaps",
             "resetCache", "setId", "live", "find", "upsert", "event", "remember"}
  /\ prev \in {None} \union CapsRows
  /\ remover \in {"idle", "events", "row"}
  /\ owner \in {None} \union Ids
  /\ torn \subseteq {"cache", "trail", "reset", "blocked"}
  /\ caps # None => dev # None

\* The hash by which ingest skips a report is the hash of what Postgres holds,
\* whenever ingest is not between writing the one and the other, across
\* removals, recreated rows, duplicates and factory resets; only a fault or a
\* sync in between (torn) parts them (onState, ensureDevice, remove).
CacheTruthful ==
  (/\ dev # None /\ cache # None
   /\ pc \notin {"forget", "resetCache", "event", "remember"}
   /\ "cache" \notin torn) => caps = cache

\* The trail of capability events ends with the capabilities that are stored,
\* across duplicates, restarts and removals.  It does not after a factory reset,
\* which overwrites them and writes no event, until a report differs from what
\* the reset wrote; and it may not once a fault came between the upsert and the
\* event, the sync put the row back between the read and the upsert, or a
\* removal stopped after the events (onState, checkFactoryReset, remove).
TrailEnds ==
  (/\ caps # None /\ pc # "event" /\ remover # "row"
   /\ torn \intersect {"trail", "blocked"} = {}) => logged = caps.caps

\* After a factory reset the capabilities the tablet had before it are never
\* taken for those of the tablet it became: those stored are the blocked ones
\* until it has reported its own (checkFactoryReset, onState); except when a
\* fault or the sync came in between.
CapsOfThisTablet ==
  (/\ caps # None /\ caps.caps # Blocked
   /\ pc # "resetCaps" /\ "reset" \notin torn) => dev.id = owner

\* Capabilities that ingest skips because it has their hash are in Postgres:
\* a row that was recreated starts without a copy that would leave it without
\* a version and NOT_READY (the comment in ensureDevice).
SkippedIsStored ==
  [][Skip /\ msg.report # None /\ dev # None => caps # None]_ingestVars
=============================================================================
