------------------------------- MODULE Store -------------------------------
(***************************************************************************)
(* The state rc-api and rc-relay share: the Redis keys and the Postgres    *)
(* rows of a remote-control session, and what has been handed to the       *)
(* agent and to the viewers.  The two services never talk to each other:   *)
(* every interaction between them is one of the writes defined here.       *)
(*                                                                         *)
(* A session id is a UUID drawn by the POST /sessions request that uses    *)
(* it, so the request and the session share one name; what the request     *)
(* asks for (which device, for which operator) is fixed from the start.    *)
(***************************************************************************)
CONSTANTS
  Sids,        \* session ids, one for each POST /sessions request
  Devices,
  Operators,
  DeviceOf,    \* the device a request asks for
  OperatorOf,  \* the operator it comes from
  None

ASSUME SidsAssumption ==
  /\ DeviceOf \in [Sids -> Devices]
  /\ OperatorOf \in [Sids -> Operators]
  /\ None \notin Sids

VARIABLES
  lock,      \* Redis device:activeSession:<d>: a session id, or None
  hash,      \* Redis session:<s>: "none", "bare" (no TTL yet) or "ttl"
  row,       \* state of the Postgres sessions row; "none": no row
  known,     \* devices that have a Postgres row
  agentTok,  \* the agent's token: "none", "issued", "used", "expired"
  tokens,    \* sessions for which a viewer token has been handed out
  lost       \* history: sessions whose lock somebody else removed

storeVars == <<lock, hash, row, known, agentTok, tokens, lost>>

SessionsOf(d) == {s \in Sids : DeviceOf[s] = d}

RowStates == {"none", "probing", "starting", "active", "closed", "failed"}

StoreTypeOK ==
  /\ lock \in [Devices -> Sids \union {None}]
  /\ hash \in [Sids -> {"none", "bare", "ttl"}]
  /\ row \in [Sids -> RowStates]
  /\ known \subseteq Devices
  /\ agentTok \in [Sids -> {"none", "issued", "used", "expired"}]
  /\ tokens \subseteq Sids
  /\ lost \subseteq Sids

StoreInit ==
  /\ lock = [d \in Devices |-> None]
  /\ hash = [s \in Sids |-> "none"]
  /\ row = [s \in Sids |-> "none"]
  /\ known = Devices
  /\ agentTok = [s \in Sids |-> "none"]
  /\ tokens = {}
  /\ lost = {}

(***************************************************************************)
(* DEL device:activeSession:<d>.  Nobody compares the value first, so the  *)
(* key goes whoever holds it.  `by' is the session whose own start ends    *)
(* here (None for every other caller); a holder other than it is recorded  *)
(* in the history variable `lost'.                                         *)
(***************************************************************************)
DelLock(d, by) ==
  /\ lock' = [lock EXCEPT ![d] = None]
  /\ lost' = lost \union ({lock[d]} \ {None, by})

(***************************************************************************)
(* UPDATE sessions SET state = <new> WHERE id = s AND state IN <from>: a   *)
(* row that is missing or in another state is left alone.                  *)
(***************************************************************************)
UpdateRow(s, from, new) ==
  row' = IF row[s] \in from THEN [row EXCEPT ![s] = new] ELSE row

AnyRow == RowStates \ {"none"}

\* The rows markActive and closeSession of rc-relay touch.
NotYetActive == {"probing", "starting"}

LiveRow == {"probing", "starting", "active"}
=============================================================================
