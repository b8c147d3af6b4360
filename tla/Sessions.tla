------------------------------ MODULE Sessions ------------------------------
(***************************************************************************)
(* rc-api: POST /sessions (start, reissueViewer, fail), DELETE             *)
(* /sessions/:id (close) and DELETE /devices/:id (remove).  Every await    *)
(* that reads or writes shared state is a step of its own; requests,       *)
(* closers and removals interleave freely and may die between two steps.   *)
(***************************************************************************)
EXTENDS Store

CONSTANTS
  Closable,   \* bound: the sessions somebody may DELETE, however often
  Removable   \* bound: the devices somebody may DELETE, however often

ASSUME BoundsAssumption == Closable \subseteq Sids /\ Removable \subseteq Devices

VARIABLES
  pc,      \* where each start request stands
  seen,    \* the session id reissueViewer read from the lock
  closer,  \* where the DELETE of each session stands
  remover, \* where the DELETE of each device stands
  doomed   \* the session id a device's removal read from the lock

apiVars == <<pc, seen, closer, remover, doomed>>

\* The awaits of start between its SET NX and its answer.
InFlight ==
  {"check", "insert", "probe", "place", "hset", "expire", "publish",
   "catch", "failRow", "failDel"}

\* A request in one of these has taken the lock and not given it back.
Holding == InFlight \union {"done", "aborted"}

Answered == {"rejected", "busy", "reissued"}

Step(s, from, to) == pc[s] = from /\ pc' = [pc EXCEPT ![s] = to]

SessionsTypeOK ==
  /\ StoreTypeOK
  /\ pc \in [Sids -> Holding \union Answered \union {"new", "lookup", "verify"}]
  /\ seen \in [Sids -> Sids \union {None}]
  /\ closer \in [Sids -> {"idle", "update", "del"}]
  /\ remover \in [Devices -> {"idle", "del", "rows", "device"}]
  /\ doomed \in [Devices -> Sids \union {None}]
  /\ \A s \in Sids : pc[s] \in {"verify", "reissued"} => seen[s] # None

SessionsInit ==
  /\ StoreInit
  /\ pc = [s \in Sids |-> "new"]
  /\ seen = [s \in Sids |-> None]
  /\ closer = [s \in Sids |-> "idle"]
  /\ remover = [d \in Devices |-> "idle"]
  /\ doomed = [d \in Devices |-> None]

-----------------------------------------------------------------------------
(* start: the request takes the device's lock or looks up who holds it.    *)

\* Mutant: SET without NX.
AcquireAnyway(s) ==
  /\ Step(s, "new", "check")
  /\ lock' = [lock EXCEPT ![DeviceOf[s]] = s]
  /\ UNCHANGED <<hash, row, known, agentTok, tokens, lost,
                 seen, closer, remover, doomed>>

Acquire(s) ==
  /\ lock[DeviceOf[s]] = None
  /\ Step(s, "new", "check")
  /\ lock' = [lock EXCEPT ![DeviceOf[s]] = s]
  /\ UNCHANGED <<hash, row, known, agentTok, tokens, lost,
                 seen, closer, remover, doomed>>

Occupied(s) ==
  /\ lock[DeviceOf[s]] # None
  /\ Step(s, "new", "lookup")
  /\ UNCHANGED <<storeVars, seen, closer, remover, doomed>>

\* getState and computeReadiness; a tier of OFFLINE or NOT_READY throws.
Check(s) ==
  /\ \/ Step(s, "check", "insert")
     \/ Step(s, "check", "catch")
  /\ UNCHANGED <<storeVars, seen, closer, remover, doomed>>

\* The row refers to the device's row: without it Postgres refuses.
Insert(s) ==
  /\ \/ /\ DeviceOf[s] \in known
        /\ Step(s, "insert", "probe")
        /\ row' = [row EXCEPT ![s] = "probing"]
     \/ /\ Step(s, "insert", "catch")
        /\ UNCHANGED row
  /\ UNCHANGED <<lock, hash, known, agentTok, tokens, lost,
                 seen, closer, remover, doomed>>

\* Probe for 3 s, else wake through Headwind and probe for 8 s more: the
\* device answers, stays silent ("failRow"), or a call throws.
Probe(s) ==
  /\ \E to \in {"place", "failRow", "catch"} : Step(s, "probe", to)
  /\ UNCHANGED <<storeVars, seen, closer, remover, doomed>>

\* Mutant: an upsert instead of the UPDATE.
PlaceUpserts(s) ==
  /\ Step(s, "place", "hset")
  /\ UpdateRow(s, RowStates, "starting")
  /\ UNCHANGED <<lock, hash, known, agentTok, tokens, lost,
                 seen, closer, remover, doomed>>

\* pickLeastLoaded, both tokens signed, UPDATE to 'starting' WHERE id only:
\* the state the row is in by now is not looked at.
Place(s) ==
  /\ \/ /\ Step(s, "place", "hset")
        /\ UpdateRow(s, AnyRow, "starting")
     \/ /\ Step(s, "place", "catch")
        /\ UNCHANGED row
  /\ UNCHANGED <<lock, hash, known, agentTok, tokens, lost,
                 seen, closer, remover, doomed>>

HSet(s) ==
  /\ \/ /\ Step(s, "hset", "expire")
        /\ hash' = [hash EXCEPT ![s] = "bare"]
     \/ /\ Step(s, "hset", "catch")
        /\ UNCHANGED hash
  /\ UNCHANGED <<lock, row, known, agentTok, tokens, lost,
                 seen, closer, remover, doomed>>

\* EXPIRE of a key that is gone does nothing.
Expire(s) ==
  /\ \/ /\ Step(s, "expire", "publish")
        /\ hash' = [hash EXCEPT ![s] = IF hash[s] = "bare" THEN "ttl" ELSE hash[s]]
     \/ /\ Step(s, "expire", "catch")
        /\ UNCHANGED hash
  /\ UNCHANGED <<lock, row, known, agentTok, tokens, lost,
                 seen, closer, remover, doomed>>

\* session.start goes to the agent with its token, and the viewer token to
\* the caller.  A publish that throws may still have reached the broker.
Publish(s) ==
  /\ \/ /\ Step(s, "publish", "done")
        /\ agentTok' = [agentTok EXCEPT ![s] = "issued"]
        /\ tokens' = tokens \union {s}
     \/ /\ Step(s, "publish", "catch")
        /\ agentTok' \in {agentTok, [agentTok EXCEPT ![s] = "issued"]}
        /\ UNCHANGED tokens
  /\ UNCHANGED <<lock, hash, row, known, lost, seen, closer, remover, doomed>>

\* The catch block: DEL of the lock, then the error is thrown on.
Catch(s) ==
  /\ Step(s, "catch", "rejected")
  /\ DelLock(DeviceOf[s], s)
  /\ UNCHANGED <<hash, row, known, agentTok, tokens,
                 seen, closer, remover, doomed>>

\* Mutant: the two parameters of the UPDATE swapped.
FailRowSwapped(s) ==
  /\ Step(s, "failRow", "failDel")
  /\ UpdateRow(s, AnyRow, "device_unreachable")
  /\ UNCHANGED <<lock, hash, known, agentTok, tokens, lost,
                 seen, closer, remover, doomed>>

\* fail: the row first, then the lock.  start returns this promise without
\* awaiting it, so an error in here does not reach the catch (see Abort).
FailRow(s) ==
  /\ Step(s, "failRow", "failDel")
  /\ UpdateRow(s, AnyRow, "failed")
  /\ UNCHANGED <<lock, hash, known, agentTok, tokens, lost,
                 seen, closer, remover, doomed>>

\* Mutant: `return await this.fail(...)', whose error the catch block handles.
FailIsCaught(s) ==
  /\ Step(s, "failDel", "catch")
  /\ DelLock(DeviceOf[s], s)
  /\ UNCHANGED <<hash, row, known, agentTok, tokens,
                 seen, closer, remover, doomed>>

FailDel(s) ==
  /\ Step(s, "failDel", "rejected")
  /\ DelLock(DeviceOf[s], s)
  /\ UNCHANGED <<hash, row, known, agentTok, tokens,
                 seen, closer, remover, doomed>>

\* rc-api dies in the middle of a start, or a call made by fail or by the
\* catch block throws: what is written stays, the rest is never run.
Abort(s) ==
  /\ pc[s] \in InFlight
  /\ pc' = [pc EXCEPT ![s] = "aborted"]
  /\ UNCHANGED <<storeVars, seen, closer, remover, doomed>>

-----------------------------------------------------------------------------
(* reissueViewer: GET of the lock, then HGETALL of that session.           *)

Lookup(s) ==
  /\ \/ /\ lock[DeviceOf[s]] # None
        /\ Step(s, "lookup", "verify")
        /\ seen' = [seen EXCEPT ![s] = lock[DeviceOf[s]]]
     \/ /\ lock[DeviceOf[s]] = None
        /\ Step(s, "lookup", "busy")
        /\ UNCHANGED seen
  /\ UNCHANGED <<storeVars, closer, remover, doomed>>

\* Mutant: any session that has been placed will do.
AnyOperator(s) == hash[seen[s]] # "none"

\* Does the session's hash, as it is now, name this request's operator?
Mine(s) ==
  /\ hash[seen[s]] # "none"
  /\ OperatorOf[seen[s]] = OperatorOf[s]

Verify(s) ==
  /\ \/ /\ Step(s, "verify", "reissued")
        /\ Mine(s)
        /\ tokens' = tokens \union {seen[s]}
     \/ /\ Step(s, "verify", "busy")
        /\ ~Mine(s)
        /\ UNCHANGED tokens
  /\ UNCHANGED <<lock, hash, row, known, agentTok, lost,
                 seen, closer, remover, doomed>>

-----------------------------------------------------------------------------
(* close: an operator who owns the session, or an admin, ends it.  It may  *)
(* be called at any time, for a session of any age, and again later.       *)

CloseSelect(s) ==
  /\ closer[s] = "idle" /\ row[s] # "none"
  /\ closer' = [closer EXCEPT ![s] = "update"]
  /\ UNCHANGED <<storeVars, pc, seen, remover, doomed>>

CloseUpdate(s) ==
  /\ closer[s] = "update"
  /\ closer' = [closer EXCEPT ![s] = "del"]
  /\ UpdateRow(s, AnyRow, "closed")
  /\ UNCHANGED <<lock, hash, known, agentTok, tokens, lost,
                 pc, seen, remover, doomed>>

\* Both keys in one DEL; session.stop follows, which the agent may obey.
CloseDel(s) ==
  /\ closer[s] = "del"
  /\ closer' = [closer EXCEPT ![s] = "idle"]
  /\ DelLock(DeviceOf[s], None)
  /\ hash' = [hash EXCEPT ![s] = "none"]
  /\ UNCHANGED <<row, known, agentTok, tokens, pc, seen, remover, doomed>>

CloseAbort(s) ==
  /\ closer[s] # "idle"
  /\ closer' = [closer EXCEPT ![s] = "idle"]
  /\ UNCHANGED <<storeVars, pc, seen, remover, doomed>>

-----------------------------------------------------------------------------
(* remove: the device is forgotten, one statement after the other and      *)
(* without a transaction.                                                  *)

RemoveRead(d) ==
  /\ remover[d] = "idle" /\ d \in known
  /\ remover' = [remover EXCEPT ![d] = "del"]
  /\ doomed' = [doomed EXCEPT ![d] = lock[d]]
  /\ UNCHANGED <<storeVars, pc, seen, closer>>

RemoveDel(d) ==
  /\ remover[d] = "del"
  /\ remover' = [remover EXCEPT ![d] = "rows"]
  /\ DelLock(d, None)
  /\ hash' = [s \in Sids |-> IF s = doomed[d] THEN "none" ELSE hash[s]]
  /\ UNCHANGED <<row, known, agentTok, tokens, pc, seen, closer, doomed>>

RemoveRows(d) ==
  /\ remover[d] = "rows"
  /\ remover' = [remover EXCEPT ![d] = "device"]
  /\ row' = [s \in Sids |-> IF DeviceOf[s] = d THEN "none" ELSE row[s]]
  /\ UNCHANGED <<lock, hash, known, agentTok, tokens, lost,
                 pc, seen, closer, doomed>>

\* A session row inserted meanwhile makes the foreign key refuse: the call
\* fails with the device's row still there.
RemoveDevice(d) ==
  /\ remover[d] = "device"
  /\ remover' = [remover EXCEPT ![d] = "idle"]
  /\ known' = IF \A s \in SessionsOf(d) : row[s] = "none"
                THEN known \ {d} ELSE known
  /\ doomed' = [doomed EXCEPT ![d] = None]
  /\ UNCHANGED <<lock, hash, row, agentTok, tokens, lost, pc, seen, closer>>

RemoveAbort(d) ==
  /\ remover[d] # "idle"
  /\ remover' = [remover EXCEPT ![d] = "idle"]
  /\ doomed' = [doomed EXCEPT ![d] = None]
  /\ UNCHANGED <<storeVars, pc, seen, closer>>

\* rc-ingest creates the row again on the device's next message.
EnsureDevice(d) ==
  /\ known' = known \union {d}
  /\ d \notin known
  /\ UNCHANGED <<lock, hash, row, agentTok, tokens, lost, apiVars>>

-----------------------------------------------------------------------------
(* Time runs out.  A start takes seconds; counted from its end, the        *)
(* agent's token lives for a minute, its viewer token for half an hour and *)
(* the Redis keys (TTL.session) for two hours.  What lives longer does not *)
(* expire first.  A reissued viewer token may outlive the keys.            *)

AgentTokenExpires(s) ==
  /\ pc[s] \notin InFlight \union {"new"}
  /\ agentTok[s] \in {"none", "issued"}
  /\ agentTok' = [agentTok EXCEPT ![s] = "expired"]
  /\ UNCHANGED <<lock, hash, row, known, tokens, lost, apiVars>>

Settled(s) == pc[s] \notin InFlight /\ agentTok[s] \in {"used", "expired"}

ViewerTokenExpires(s) ==
  /\ s \in tokens /\ Settled(s)
  /\ tokens' = tokens \ {s}
  /\ UNCHANGED <<lock, hash, row, known, agentTok, lost, apiVars>>

OutlivedTokens(s) ==
  /\ Settled(s)
  /\ s \in tokens => \E r \in Sids : pc[r] = "reissued" /\ seen[r] = s

\* Mutant: SET without EX.
NeverExpires(d) == FALSE

Expirable(d) == lock[d] # None /\ OutlivedTokens(lock[d])

LockExpires(d) ==
  /\ Expirable(d)
  /\ DelLock(d, None)
  /\ UNCHANGED <<hash, row, known, agentTok, tokens, apiVars>>

HashExpires(s) ==
  /\ hash[s] = "ttl" /\ OutlivedTokens(s)
  /\ hash' = [hash EXCEPT ![s] = "none"]
  /\ UNCHANGED <<lock, row, known, agentTok, tokens, lost, apiVars>>

-----------------------------------------------------------------------------
\* What a start does by itself, as opposed to what is done to it.
StartStep(s) ==
  \/ Acquire(s) \/ Occupied(s) \/ Check(s) \/ Insert(s) \/ Probe(s)
  \/ Place(s) \/ HSet(s) \/ Expire(s) \/ Publish(s) \/ Catch(s)
  \/ FailRow(s) \/ FailDel(s) \/ Lookup(s) \/ Verify(s)

CloseStep(s) == CloseSelect(s) \/ CloseUpdate(s) \/ CloseDel(s) \/ CloseAbort(s)

RemoveStep(d) ==
  \/ RemoveRead(d) \/ RemoveDel(d) \/ RemoveRows(d) \/ RemoveDevice(d)
  \/ RemoveAbort(d) \/ EnsureDevice(d)

Expiry ==
  \/ \E d \in Devices : LockExpires(d)
  \/ \E s \in Sids :
       HashExpires(s) \/ AgentTokenExpires(s) \/ ViewerTokenExpires(s)

SessionsNext ==
  \/ \E s \in Sids : StartStep(s) \/ Abort(s)
  \/ \E s \in Closable : CloseStep(s)
  \/ \E d \in Removable : RemoveStep(d)
  \/ Expiry

sessionsVars == <<storeVars, apiVars>>

\* rc-api runs every request to its end while it is up, and Redis drops a
\* key whose time has come.  Nobody has to close or remove anything.
SessionsFairness ==
  /\ \A s \in Sids :
       /\ WF_sessionsVars(StartStep(s))
       /\ WF_sessionsVars(AgentTokenExpires(s))
       /\ WF_sessionsVars(ViewerTokenExpires(s))
  /\ \A d \in Devices : WF_sessionsVars(LockExpires(d))

SessionsSpec ==
  SessionsInit /\ [][SessionsNext]_sessionsVars /\ SessionsFairness

-----------------------------------------------------------------------------
(* Properties                                                              *)

\* The lock and the requests agree.  A request that has taken its device's
\* lock still holds it unless somebody else has removed it, and nobody holds
\* a lock but such a request.  Every DEL in rc-api and rc-relay is
\* unconditional, so this says that `lost' accounts for all of them.
HeldUnlessLost ==
  /\ \A s \in Sids :
       pc[s] \in Holding /\ s \notin lost => lock[DeviceOf[s]] = s
  /\ \A d \in Devices :
       lock[d] # None =>
         /\ DeviceOf[lock[d]] = d
         /\ pc[lock[d]] \in Holding
         /\ lock[d] \notin lost

\* Only a lock that was taken can be lost.
LostWasHeld == \A s \in lost : pc[s] \in Holding \union {"rejected"}

\* Two sessions of one device are never both under way with their locks
\* intact: the promise SET NX is there for.
Exclusive ==
  \A s, t \in Sids :
    /\ DeviceOf[s] = DeviceOf[t]
    /\ {pc[s], pc[t]} \subseteq Holding
    /\ {s, t} \intersect lost = {}
    => s = t

\* A start that ends in error can remove another session's lock only after
\* its own lock was removed under it: start and fail alone never do harm,
\* one foreign DEL sets off a chain of them.
StealsAreChained ==
  [][\A s \in Sids :
       pc[s] \in {"catch", "failDel"} /\ pc'[s] = "rejected" /\ lost' # lost
         => s \in lost]_sessionsVars

\* When the caller has been told that the start failed, the device is free
\* for the next attempt as far as this session is concerned.
RejectedFreesDevice ==
  \A s \in Sids : pc[s] = "rejected" => lock[DeviceOf[s]] # s

\* A viewer token that reissueViewer hands out is for a session of the same
\* operator and device, one whose device was reached: never for a start that
\* ended in device_unreachable.  The lock and the hash are read one await
\* apart, while other requests take and free both.
ReissueIsSound ==
  \A s \in Sids : pc[s] = "reissued" =>
    /\ DeviceOf[seen[s]] = DeviceOf[s]
    /\ OperatorOf[seen[s]] = OperatorOf[s]
    /\ row[seen[s]] # "failed"

\* Whoever takes a device's lock, and wherever its process dies, the lock
\* does not stay with that session for ever.
LockReleased ==
  \A d \in Devices : \A s \in Sids : lock[d] = s ~> lock[d] # s

\* The lock implements a lease that is granted only when free, once at most
\* to a session, and never passes from one session straight to another.
Lease == INSTANCE SessionLease WITH
  holder <- lock,
  taken  <- {s \in Sids : pc[s] \in Holding \union {"rejected"}}

LeaseSpec == Lease!Spec
=============================================================================
