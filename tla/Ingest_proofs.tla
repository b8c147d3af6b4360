---------------------------- MODULE Ingest_proofs ----------------------------
(***************************************************************************)
(* What ingest keeps, for any reports, Android ids and length of the       *)
(* queue, with any faults, removals and syncs between two statements.      *)
(***************************************************************************)
EXTENDS Ingest, TLAPS

-----------------------------------------------------------------------------
(* Types and the foreign key.                                              *)

\* What the message in hand carries at the awaits that write it.
Reported ==
  /\ pc \in {"find", "upsert", "event", "remember"} => msg.report # None
  /\ pc \in {"readId", "resetRow", "resetCaps", "resetCache", "setId"} => msg.id # None

LEMMA MessageFacts ==
  /\ Bare \in Messages
  /\ \A m \in Messages : /\ m.report \in Reports \union {None}
                         /\ m.id \in Ids \union {None}
                         /\ m.report # None => m.id \in Ids
BY DEF Messages, Bare

LEMMA RowFacts ==
  \A r \in Reports : r \in CapsRows /\ r # None
BY IngestAssumption DEF CapsRows

LEMMA SetRowTypes ==
  ASSUME IngestTypeOK, Reported, pc \in {"setId", "resetRow"}, NEW n \in BOOLEAN, SetRow(n)
  PROVE  /\ dev' \in {None} \union [id : Ids \union {None}, needs : BOOLEAN]
         /\ (dev = None <=> dev' = None)
         /\ dev # None => dev'.id = msg.id
<1>1. msg.id \in Ids BY MessageFacts DEF IngestTypeOK, Reported
<1>2. CASE dev = None BY <1>2 DEF SetRow
<1>3. CASE dev # None
  <2>1. dev' = [id |-> msg.id, needs |-> dev.needs \/ n] BY <1>3 DEF SetRow
  <2>2. dev.needs \in BOOLEAN BY <1>3 DEF IngestTypeOK
  <2>3. (dev.needs \/ n) \in BOOLEAN BY <2>2
  <2>4. dev' \in [id : Ids \union {None}, needs : BOOLEAN] BY <1>1, <2>1, <2>3
  <2>5. dev' # None BY <1>1, <2>2, <2>1, <2>4, IngestAssumption
  <2>6. QED BY <1>3, <2>1, <2>4, <2>5
<1>4. QED BY <1>2, <1>3

LEMMA OnStateTypes ==
  ASSUME IngestTypeOK, Reported, OnState
  PROVE  IngestTypeOK' /\ Reported'
<1> USE MessageFacts, RowFacts DEF IngestTypeOK, Reported, Handle, db
<1> DEFINE Rows == {None} \union [id : Ids \union {None}, needs : BOOLEAN]
<1>0. dev \in Rows /\ NewRow \in Rows BY DEF NewRow
<1>1. CASE Ensure
  <2>1. dev' \in Rows BY <1>0, <1>1 DEF Ensure
  <2>2. caps # None => dev' # None BY <1>1, <1>0 DEF Ensure
  <2>3. QED BY <1>1, <2>1, <2>2 DEF Ensure, AfterEnsure
<1>2. CASE Forget BY <1>2 DEF Forget, AfterEnsure
<1>3. CASE ReadId BY <1>3 DEF ReadId
<1>4. CASE SetId
  <2>1. dev' \in Rows /\ (caps # None => dev' # None)
    BY <1>0, <1>4, SetRowTypes DEF SetId
  <2>2. QED BY <1>4, <2>1 DEF SetId
<1>5. CASE ResetRow
  <2>1. dev' \in Rows /\ (caps # None => dev' # None)
    BY <1>0, <1>5, SetRowTypes DEF ResetRow
  <2>2. QED BY <1>5, <2>1 DEF ResetRow
<1>6. CASE ResetCaps
  <2>1. caps' \in {None} \union CapsRows
    BY <1>6 DEF ResetCaps, CapsRows
  <2>2. QED BY <1>6, <2>1 DEF ResetCaps
<1>7. CASE ResetCache BY <1>7 DEF ResetCache
<1>8. CASE Skip BY <1>8 DEF Skip
<1>9. CASE Compare BY <1>9 DEF Compare
<1>10. CASE Find BY <1>10 DEF Find
<1>11. CASE Upsert BY <1>11 DEF Upsert
<1>12. CASE UpsertRefused BY <1>12 DEF UpsertRefused
<1>13. CASE Event BY <1>13 DEF Event
<1>14. CASE Remember BY <1>14 DEF Remember
<1>15. QED
  BY <1>1, <1>2, <1>3, <1>4, <1>5, <1>6, <1>7, <1>8, <1>9, <1>10, <1>11, <1>12, <1>13,
     <1>14 DEF OnState

\* A message that is dropped, delivered again, or whose device goes.
LEMMA OtherTypes ==
  ASSUME IngestTypeOK, Reported,
         \/ \E m \in Messages : Publish(m)
         \/ Receive \/ Throw \/ Restart
         \/ RemoveKeys \/ RemoveEvents \/ RemoveRow \/ RemoveFails \/ Sync
  PROVE  IngestTypeOK' /\ Reported'
<1> USE MessageFacts, IngestAssumption DEF IngestTypeOK, Reported, db
<1>1. ASSUME NEW m \in Messages, Publish(m) PROVE IngestTypeOK' /\ Reported'
  BY <1>1 DEF Publish
<1>2. CASE Receive
  <2>1. msg' \in Messages /\ inbox' \in Seq(Messages) /\ Len(inbox') <= MaxInbox
    BY <1>2 DEF Receive
  <2>2. QED BY <1>2, <2>1 DEF Receive
<1>3. CASE Throw BY <1>3 DEF Throw, Handle, LeftApart
<1>4. CASE Restart
  <2>1. inbox' \in Seq(Messages) /\ Len(inbox') = 1 BY <1>4 DEF Restart
  <2>2. QED BY <1>4, <2>1 DEF Restart, LeftApart
<1>5. CASE RemoveKeys BY <1>5 DEF RemoveKeys, Remove
<1>6. CASE RemoveEvents BY <1>6 DEF RemoveEvents, Remove
<1>7. CASE RemoveRow BY <1>7 DEF RemoveRow, Remove
<1>8. CASE RemoveFails BY <1>8 DEF RemoveFails, Remove
<1>9. CASE Sync BY <1>9 DEF Sync, NewRow
<1>10. QED
  BY <1>1, <1>2, <1>3, <1>4, <1>5, <1>6, <1>7, <1>8, <1>9

LEMMA TypeStep ==
  ASSUME IngestTypeOK, Reported, [IngestNext]_ingestVars
  PROVE  IngestTypeOK' /\ Reported'
<1>1. CASE UNCHANGED ingestVars
  BY <1>1 DEF ingestVars, db, IngestTypeOK, Reported
<1>2. CASE IngestNext
  BY <1>2, OnStateTypes, OtherTypes DEF IngestNext
<1>3. QED BY <1>1, <1>2

LEMMA TypeInit == IngestInit => IngestTypeOK /\ Reported
BY MessageFacts, IngestAssumption DEF IngestInit, IngestTypeOK, Reported

\* Types, and no capabilities without their device's row.
THEOREM IngestTypes == IngestSpec => []IngestTypeOK
<1>1. IngestSpec => [](IngestTypeOK /\ Reported)
  BY TypeInit, TypeStep, PTL DEF IngestSpec
<1>2. QED BY <1>1, PTL

-----------------------------------------------------------------------------
(* The copy of the hash.                                                   *)

\* Between the upsert and the copy, the row has what will be copied.
CopyFollows ==
  (/\ pc \in {"event", "remember"} /\ dev # None /\ "cache" \notin torn)
    => caps = msg.report

LEMMA CacheStep ==
  ASSUME CacheTruthful, CopyFollows, [IngestNext]_ingestVars
  PROVE  CacheTruthful' /\ CopyFollows'
<1> USE DEF CacheTruthful, CopyFollows, db
<1>1. CASE UNCHANGED ingestVars BY <1>1 DEF ingestVars
<1>2. CASE \E m \in Messages : Publish(m) BY <1>2 DEF Publish
<1>3. CASE Receive BY <1>3 DEF Receive
<1>4. CASE Ensure BY <1>4 DEF Ensure, Handle, AfterEnsure
<1>5. CASE Forget BY <1>5 DEF Forget, Handle, AfterEnsure
<1>6. CASE ReadId BY <1>6 DEF ReadId, Handle
<1>7. CASE SetId BY <1>7 DEF SetId, SetRow, Handle
<1>8. CASE ResetRow BY <1>8 DEF ResetRow, SetRow, Handle
<1>9. CASE ResetCaps BY <1>9 DEF ResetCaps, Handle
<1>10. CASE ResetCache BY <1>10 DEF ResetCache, Handle
<1>11. CASE Skip \/ Compare \/ Find BY <1>11 DEF Skip, Compare, Find, Handle
<1>12. CASE Upsert \/ UpsertRefused BY <1>12 DEF Upsert, UpsertRefused, Handle
<1>13. CASE Event BY <1>13 DEF Event, Handle
<1>14. CASE Remember BY <1>14 DEF Remember, Handle
<1>15. CASE Throw \/ Restart BY <1>15 DEF Throw, Restart, Handle, LeftApart
<1>16. CASE RemoveKeys \/ RemoveEvents \/ RemoveRow \/ RemoveFails
  BY <1>16 DEF RemoveKeys, RemoveEvents, RemoveRow, RemoveFails, Remove
<1>17. CASE Sync BY <1>17 DEF Sync
<1>18. QED
  BY <1>1, <1>2, <1>3, <1>4, <1>5, <1>6, <1>7, <1>8, <1>9, <1>10, <1>11, <1>12, <1>13,
     <1>14, <1>15, <1>16, <1>17 DEF IngestNext, OnState

\* The hash by which ingest skips a report is that of the row, unless a fault or
\* the sync parted them.
THEOREM CacheIsTruthful == IngestSpec => []CacheTruthful
<1>1. IngestInit => CacheTruthful /\ CopyFollows
  BY DEF IngestInit, CacheTruthful, CopyFollows
<1>2. IngestSpec => [](CacheTruthful /\ CopyFollows)
  BY <1>1, CacheStep, PTL DEF IngestSpec
<1>3. QED BY <1>2, PTL

-----------------------------------------------------------------------------
(* The trail of events.                                                    *)

\* What findCaps read is what the trail ends with, and before the event is
\* written the row has what it will say.
TrailFollows ==
  /\ (/\ pc = "upsert" /\ prev # None /\ dev # None /\ remover # "row"
      /\ torn \intersect {"trail", "blocked"} = {}) => logged = prev.caps
  /\ pc = "event" /\ caps # None => caps = msg.report

Trail == TrailEnds /\ TrailFollows

LEMMA TrailStep ==
  ASSUME IngestTypeOK, Reported, Trail, [IngestNext]_ingestVars
  PROVE  Trail'
<1> USE DEF Trail, TrailEnds, TrailFollows, db
<1>1. CASE UNCHANGED ingestVars BY <1>1 DEF ingestVars
<1>2. CASE \E m \in Messages : Publish(m) BY <1>2 DEF Publish
<1>3. CASE Receive BY <1>3 DEF Receive
<1>4. CASE Ensure BY <1>4 DEF Ensure, Handle, AfterEnsure
<1>5. CASE Forget BY <1>5 DEF Forget, Handle, AfterEnsure
<1>6. CASE ReadId BY <1>6 DEF ReadId, Handle
<1>7. CASE SetId BY <1>7 DEF SetId, Handle
<1>8. CASE ResetRow BY <1>8 DEF ResetRow, Handle
<1>9. CASE ResetCaps BY <1>9 DEF ResetCaps, Handle
<1>10. CASE ResetCache BY <1>10 DEF ResetCache, Handle
<1>11. CASE Skip \/ Compare \/ Find BY <1>11 DEF Skip, Compare, Find, Handle
<1>12. CASE Upsert
  <2>1. CASE Changed BY <1>12, <2>1 DEF Upsert, Handle
  <2>2. CASE ~Changed
    <3>1. prev # None /\ prev.caps = msg.report.caps BY <2>2 DEF Changed
    <3>2. pc' = "remember" /\ caps' = msg.report /\ dev # None /\ pc = "upsert"
          /\ logged' = logged /\ remover' = remover
      BY <1>12, <2>2 DEF Upsert, Handle
    <3>3. torn' \intersect {"trail", "blocked"} = torn \intersect {"trail", "blocked"}
      BY <1>12 DEF Upsert
    <3>4. QED BY <3>1, <3>2, <3>3
  <2>3. QED BY <2>1, <2>2
<1>13. CASE UpsertRefused BY <1>13 DEF UpsertRefused, Handle
<1>14. CASE Event BY <1>14 DEF Event, Handle
<1>15. CASE Remember BY <1>15 DEF Remember, Handle
<1>16. CASE Throw \/ Restart BY <1>16 DEF Throw, Restart, Handle, LeftApart
<1>17. CASE RemoveKeys \/ RemoveEvents \/ RemoveRow \/ RemoveFails
  BY <1>17 DEF RemoveKeys, RemoveEvents, RemoveRow, RemoveFails, Remove
<1>18. CASE Sync BY <1>18 DEF Sync
<1>19. QED
  BY <1>1, <1>2, <1>3, <1>4, <1>5, <1>6, <1>7, <1>8, <1>9, <1>10, <1>11, <1>12, <1>13,
     <1>14, <1>15, <1>16, <1>17, <1>18 DEF IngestNext, OnState

\* No change of the capabilities that is not a factory reset's goes unrecorded,
\* but for a fault or the sync between the statements.
THEOREM TrailIsComplete == IngestSpec => []TrailEnds
<1>1. IngestInit => Trail
  BY DEF IngestInit, Trail, TrailEnds, TrailFollows
<1>2. IngestSpec => [](IngestTypeOK /\ Reported /\ Trail)
  BY <1>1, TypeInit, TypeStep, TrailStep, PTL DEF IngestSpec
<1>3. Trail => TrailEnds BY DEF Trail
<1>4. QED BY <1>2, <1>3, PTL

-----------------------------------------------------------------------------
(* Which tablet reported.                                                  *)

\* The id in the row is that of the message in hand from checkFactoryReset to
\* the upsert, and before SetId no other.
IdFollows ==
  /\ pc = "setId" /\ dev # None => dev.id \in {None, msg.id}
  /\ (/\ pc \in {"live", "find", "upsert"} /\ msg.id # None
      /\ dev # None /\ "reset" \notin torn) => dev.id = msg.id
  /\ caps # None => owner # None

Tablet == CapsOfThisTablet /\ IdFollows

LEMMA TabletStep ==
  ASSUME IngestTypeOK, Reported, Tablet, [IngestNext]_ingestVars
  PROVE  Tablet'
<1> USE DEF Tablet, CapsOfThisTablet, IdFollows, db
<1>1. CASE UNCHANGED ingestVars BY <1>1 DEF ingestVars
<1>2. CASE \E m \in Messages : Publish(m) BY <1>2 DEF Publish
<1>3. CASE Receive BY <1>3 DEF Receive
<1>4. CASE Ensure BY <1>4 DEF Ensure, Handle, AfterEnsure, IngestTypeOK
<1>5. CASE Forget BY <1>5 DEF Forget, Handle, AfterEnsure
<1>6. CASE ReadId BY <1>6 DEF ReadId, Handle, OtherTablet
<1>7. CASE SetId
  <2>1. msg.id # None BY <1>7 DEF SetId, Handle, Reported
  <2>2. dev # None => dev'.id = msg.id
    BY <1>7, SetRowTypes DEF SetId, Handle
  <2>3. caps # None => dev # None BY DEF IngestTypeOK
  <2>4. dev' # None => dev # None BY <1>7 DEF SetId, SetRow
  <2>5. QED BY <1>7, <2>1, <2>2, <2>3, <2>4 DEF SetId, Handle
<1>8. CASE ResetRow BY <1>8 DEF ResetRow, Handle
<1>9. CASE ResetCaps
  <2>1. caps' # None => caps'.caps = Blocked /\ caps # None
    BY <1>9 DEF ResetCaps, IngestTypeOK, CapsRows
  <2>2. QED BY <1>9, <2>1 DEF ResetCaps, Handle
<1>10. CASE ResetCache BY <1>10 DEF ResetCache, Handle
<1>11. CASE Skip \/ Compare \/ Find BY <1>11 DEF Skip, Compare, Find, Handle
<1>12. CASE Upsert
  <2>1. msg.id # None
    BY <1>12, MessageFacts, IngestAssumption DEF Upsert, Handle, IngestTypeOK, Reported
  <2>2. pc' \in {"event", "remember"} BY <1>12 DEF Upsert, Handle
  <2>3. CASE dev.id = msg.id BY <1>12, <2>1, <2>2, <2>3 DEF Upsert
  <2>4. CASE dev.id # msg.id BY <1>12, <2>1, <2>2, <2>4 DEF Upsert, Handle
  <2>5. QED BY <2>3, <2>4
<1>13. CASE UpsertRefused BY <1>13 DEF UpsertRefused, Handle
<1>14. CASE Event \/ Remember BY <1>14 DEF Event, Remember, Handle
<1>15. CASE Throw \/ Restart BY <1>15 DEF Throw, Restart, Handle, LeftApart
<1>16. CASE RemoveKeys \/ RemoveEvents \/ RemoveRow \/ RemoveFails
  BY <1>16 DEF RemoveKeys, RemoveEvents, RemoveRow, RemoveFails, Remove
<1>17. CASE Sync BY <1>17 DEF Sync, NewRow, IngestTypeOK
<1>18. QED
  BY <1>1, <1>2, <1>3, <1>4, <1>5, <1>6, <1>7, <1>8, <1>9, <1>10, <1>11, <1>12, <1>13,
     <1>14, <1>15, <1>16, <1>17 DEF IngestNext, OnState

\* The capabilities of a tablet that was reset are not those of the tablet it
\* became.
THEOREM CapsAreOfThisTablet == IngestSpec => []CapsOfThisTablet
<1>1. IngestInit => Tablet
  BY DEF IngestInit, Tablet, CapsOfThisTablet, IdFollows
<1>2. IngestSpec => [](IngestTypeOK /\ Reported /\ Tablet)
  BY <1>1, TypeInit, TypeStep, TabletStep, PTL DEF IngestSpec
<1>3. Tablet => CapsOfThisTablet BY DEF Tablet
<1>4. QED BY <1>2, <1>3, PTL
=============================================================================
