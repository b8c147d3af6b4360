----------------------------- MODULE Diagnostics -----------------------------
(***************************************************************************)
(* What rc-api asks a tablet for and waits for in Redis: hw.dump, whose    *)
(* answer ingest stores and reports under the nonce of the request, and    *)
(* probe, whose answer ingest pushes to a list of the device.  Events of   *)
(* the tablet and of the broker are stored on the way and may make ingest  *)
(* ask for a dump of its own.                                              *)
(*                                                                         *)
(* Every await is a step.  A TTL is nondeterministic: a key that has one   *)
(* may go at any time, a key that has none never does.  What is stored is  *)
(* the message it came with.  Of the removal of a device there is the DEL  *)
(* of its key; what removal and pruning delete in Postgres is left out.    *)
(***************************************************************************)
EXTENDS Naturals, FiniteSets

CONSTANTS
  Dumps, Probes,  \* requests to rc-api, POST hw/dump and those that probe
  Events,         \* what a tablet or the broker tells unasked
  Autos, AutoOf,  \* the dump that an event may cause
  Strays,         \* dump answers with a nonce nobody has registered
  DeviceOf,       \* the device each of them is about
  Workers,        \* the ingest processes
  Limit,          \* how many messages allow() lets through in a window
  MaxRequests,    \* bound: requests, events and strays in a behaviour
  MaxDeaths,      \* bound: deaths of ingest that leave something
  None

Requests == Dumps \union Probes
Answers  == Dumps \union Autos \union Strays    \* what onHwDump handles
Mail     == Answers \union Probes \union Events
Devices  == {DeviceOf[x] : x \in Mail}

ASSUME DiagnosticsAssumption ==
  /\ AutoOf \in [Events -> Autos] /\ Limit \in Nat \ {0}
  /\ None \notin Mail \union Workers
  /\ Dumps \intersect (Probes \union Events \union Autos \union Strays) = {}
  /\ Probes \intersect (Events \union Autos \union Strays) = {}
  /\ Events \intersect (Autos \union Strays) = {} /\ Autos \intersect Strays = {}

VARIABLES
  api,      \* where each request stands
  outcome,  \* what it returned
  shared,   \* the probe whose BRPOP blocks the connection of rc-api, or None
  throttle, \* Redis hw:dumpthr:<d>: the devices that have one
  asked,    \* Redis hw:dumpreq:<nonce>: the nonces that have one
  reply,    \* Redis hw:dump:<nonce>: [inserted, ttl], or None
  wait,     \* Redis probe:wait:<d>: its length, and whether it has a TTL
  limit,    \* Redis hw:rl:dump:<d> and hw:rl:ev:<d>: the count, and the TTL
  cool,     \* Redis hw:autodump:<d>: the devices that have one
  due,      \* commands a tablet has not answered, events to come
  mail,     \* copies of each answer that are still to be handled
  job,      \* the message each worker handles and where it stands
  stored,   \* Postgres: the messages whose rows are there
  claimed,  \* history: the nonces ingest took from hw:dumpreq
  pushes,   \* history: how often each nonce was answered
  heard,    \* history: probes whose answer was pushed while they waited
  spoiled,  \* history: probes that may have lost it to others or to a TTL
  torn      \* history: where ingest died and it matters, <<pc, message>>

apiVars   == <<api, outcome>>
redisVars == <<throttle, asked, reply, wait, limit, cool>>
histories == <<claimed, pushes, heard, spoiled, torn>>
diagVars  == <<apiVars, shared, redisVars, due, mail, job, stored, histories>>

Kinds  == {"dump", "event"}
NoJob  == [pc |-> "idle", on |-> None, claimed |-> FALSE, inserted |-> FALSE]
NoKey  == [n |-> 0, ttl |-> FALSE]
Copies(x) == IF x \in Events THEN 1 ELSE 2   \* rc/probe is subscribed twice

DiagInit ==
  /\ api = [r \in Requests |-> "idle"] /\ outcome = [r \in Requests |-> "none"]
  /\ shared = None
  /\ throttle = {} /\ asked = {} /\ cool = {}
  /\ reply = [r \in Dumps |-> None]
  /\ wait = [d \in Devices |-> NoKey]
  /\ limit = [k \in Devices \X Kinds |-> NoKey]
  /\ due = Events \union Strays
  /\ mail = [x \in Mail |-> 0]
  /\ job = [w \in Workers |-> NoJob]
  /\ stored = {}
  /\ claimed = {} /\ pushes = [x \in Answers |-> 0] /\ heard = {} /\ spoiled = {} /\ torn = {}

-----------------------------------------------------------------------------
(* rc-api.  All its commands but the BRPOP of a dump go through one        *)
(* connection, which the BRPOP of a probe blocks.                          *)

More == Cardinality({r \in Requests : api[r] # "idle"} \union ((Events \union Strays) \ due))
          < MaxRequests

Request(r) ==
  /\ api[r] = "idle" /\ api' = [api EXCEPT ![r] = "start"]
  /\ More
  /\ UNCHANGED <<outcome, shared, redisVars, due, mail, job, stored, histories>>

Go(r, from, to) ==
  /\ api[r] = from /\ api' = [api EXCEPT ![r] = to]
  /\ UNCHANGED <<limit, cool, mail, job, stored, claimed, pushes, heard, torn>>

End(r, result) == outcome' = [outcome EXCEPT ![r] = result]

\* SET NX: one dump in three seconds.
Throttled(r) ==
  /\ shared = None /\ DeviceOf[r] \in throttle
  /\ Go(r, "start", "done") /\ End(r, "throttled")
  /\ UNCHANGED <<shared, throttle, asked, reply, wait, due, spoiled>>

Throttle(r) ==
  /\ shared = None /\ DeviceOf[r] \notin throttle
  /\ Go(r, "start", "register")
  /\ throttle' = throttle \union {DeviceOf[r]}
  /\ UNCHANGED <<outcome, shared, asked, reply, wait, due, spoiled>>

Register(r) ==
  /\ shared = None /\ Go(r, "register", "ask")
  /\ asked' = asked \union {r}
  /\ UNCHANGED <<outcome, shared, throttle, reply, wait, due, spoiled>>

\* MqttService.publish: the broker has the command, for as long as it takes.
Ask(r) ==
  /\ Go(r, "ask", "wait")
  /\ due' = due \union {r}
  /\ UNCHANGED <<outcome, shared, throttle, asked, reply, wait, spoiled>>

AskFails(r) ==
  /\ Go(r, "ask", "done") /\ End(r, "error")
  /\ UNCHANGED <<shared, throttle, asked, reply, wait, due, spoiled>>

\* BRPOP, on a connection of its own; it gives up on an empty list only.
Receive(r) ==
  /\ reply[r] # None /\ Go(r, "wait", "clean")
  /\ End(r, IF reply[r].inserted THEN "inserted" ELSE "nothing new")
  /\ reply' = [reply EXCEPT ![r] = None]
  /\ UNCHANGED <<shared, throttle, asked, wait, due, spoiled>>

GiveUp(r) ==
  /\ reply[r] = None /\ Go(r, "wait", "clean") /\ End(r, "timeout")
  /\ UNCHANGED <<shared, throttle, asked, reply, wait, due, spoiled>>

Clean(r) ==
  /\ shared = None /\ Go(r, "clean", "done")
  /\ reply' = [reply EXCEPT ![r] = None] /\ asked' = asked \ {r}
  /\ UNCHANGED <<outcome, shared, throttle, wait, due, spoiled>>

Dump(r) ==
  Throttled(r) \/ Throttle(r) \/ Register(r) \/ Ask(r) \/ AskFails(r)
    \/ Receive(r) \/ GiveUp(r) \/ Clean(r)

\* The other probes of the device whose answer may be in its list.
Rivals(p) ==
  {q \in Probes \ {p} : DeviceOf[q] = DeviceOf[p] /\ api[q] \in {"ask", "pop", "wait"}}

\* DevicesService.probe: DEL, publish, BRPOP.
ProbeClear(p) ==
  /\ shared = None /\ Go(p, "start", "ask")
  /\ wait' = [wait EXCEPT ![DeviceOf[p]] = NoKey]
  /\ spoiled' = spoiled \union Rivals(p)
  /\ UNCHANGED <<outcome, shared, throttle, asked, reply, due>>

ProbeAsk(p) ==
  /\ Go(p, "ask", "pop")
  /\ due' = due \union {p}
  /\ UNCHANGED <<outcome, shared, throttle, asked, reply, wait, spoiled>>

\* Mutant: the list is cleared after the command was sent.
ProbePopCleared(p) ==
  /\ shared = None /\ Go(p, "pop", "wait")
  /\ shared' = p
  /\ wait' = [wait EXCEPT ![DeviceOf[p]] = NoKey]
  /\ UNCHANGED <<outcome, throttle, asked, reply, due, spoiled>>

ProbePop(p) ==
  /\ shared = None /\ Go(p, "pop", "wait")
  /\ shared' = p
  /\ UNCHANGED <<outcome, throttle, asked, reply, wait, due, spoiled>>

\* Redis deletes a list that is empty, and its TTL with it.
ProbeServed(p) ==
  LET d == DeviceOf[p] IN
    /\ wait[d].n > 0 /\ Go(p, "wait", "done") /\ End(p, "yes")
    /\ shared' = None
    /\ wait' = [wait EXCEPT ![d] = IF @.n = 1 THEN NoKey ELSE [n |-> @.n - 1, ttl |-> @.ttl]]
    /\ spoiled' = spoiled \union Rivals(p)
    /\ UNCHANGED <<throttle, asked, reply, due>>

\* Mutant: the connection stays taken.
ProbeTimeoutHeld(p) ==
  /\ wait[DeviceOf[p]].n = 0 /\ Go(p, "wait", "done") /\ End(p, "no")
  /\ UNCHANGED <<shared, throttle, asked, reply, wait, due, spoiled>>

ProbeTimeout(p) ==
  /\ wait[DeviceOf[p]].n = 0 /\ Go(p, "wait", "done") /\ End(p, "no")
  /\ shared' = None
  /\ UNCHANGED <<throttle, asked, reply, wait, due, spoiled>>

ProbeFails(p) ==
  /\ Go(p, "ask", "done") /\ End(p, "error")
  /\ UNCHANGED <<shared, throttle, asked, reply, wait, due, spoiled>>

Probe(p) ==
  ProbeClear(p) \/ ProbeAsk(p) \/ ProbePop(p) \/ ProbeServed(p)
    \/ ProbeTimeout(p) \/ ProbeFails(p)

\* DevicesService.remove: the DEL of the device's keys.
RemoveKeys(d) ==
  /\ shared = None /\ wait[d] # NoKey
  /\ wait' = [wait EXCEPT ![d] = NoKey]
  /\ spoiled' = spoiled \union
       {p \in Probes : DeviceOf[p] = d /\ api[p] \in {"ask", "pop", "wait"}}
  /\ UNCHANGED <<apiVars, shared, throttle, asked, reply, limit, cool, due, mail, job, stored,
                 claimed, pushes, heard, torn>>

-----------------------------------------------------------------------------
(* The tablet answers when it is there, perhaps long after.                *)

Say(x) ==
  /\ x \in due /\ due' = due \ {x} /\ (x \in Events \union Strays => More)
  /\ mail' = [mail EXCEPT ![x] = @ + Copies(x)]
  /\ UNCHANGED <<apiVars, shared, redisVars, job, stored, histories>>

-----------------------------------------------------------------------------
(* Ingest.                                                                 *)

At(w, pc) == job[w].pc = pc
To(w, pc) == job' = [job EXCEPT ![w] = IF pc = "idle" THEN NoJob ELSE [@ EXCEPT !.pc = pc]]

Take(w, x) ==
  /\ At(w, "idle") /\ mail[x] > 0
  /\ mail' = [mail EXCEPT ![x] = @ - 1]
  /\ job' = [job EXCEPT ![w] =
       [NoJob EXCEPT !.on = x, !.pc = IF x \in Probes THEN "push"
                                      ELSE IF x \in Answers THEN "claim" ELSE "limit"]]
  /\ UNCHANGED <<apiVars, shared, redisVars, due, stored, histories>>

\* LPUSH, then EXPIRE.
Push(w) ==
  LET p == job[w].on IN
    /\ At(w, "push") /\ To(w, "pushTtl")
    /\ wait' = [wait EXCEPT ![DeviceOf[p]].n = @ + 1]
    /\ heard' = IF api[p] \in {"pop", "wait"} THEN heard \union {p} ELSE heard
    /\ UNCHANGED <<apiVars, shared, throttle, asked, reply, limit, cool, due, mail, stored,
                   claimed, pushes, spoiled, torn>>

PushTtl(w) ==
  LET d == DeviceOf[job[w].on] IN
    /\ At(w, "pushTtl") /\ To(w, "idle")
    /\ wait' = [wait EXCEPT ![d].ttl = wait[d].n > 0]
    /\ UNCHANGED <<apiVars, shared, throttle, asked, reply, limit, cool, due, mail, stored,
                   histories>>

\* Mutant: the request is looked up, and left for the next copy.
ClaimKept(w) ==
  /\ At(w, "claim")
  /\ job' = [job EXCEPT ![w].pc = "limit", ![w].claimed = job[w].on \in asked]
  /\ claimed' = claimed \union ({job[w].on} \intersect asked)
  /\ UNCHANGED <<apiVars, shared, redisVars, due, mail, stored, pushes, heard, spoiled, torn>>

\* DEL hw:dumpreq:<nonce> says whether rc-api waits, and that nobody else answers.
Claim(w) ==
  LET x == job[w].on IN
    /\ At(w, "claim")
    /\ job' = [job EXCEPT ![w].pc = "limit", ![w].claimed = x \in asked]
    /\ asked' = asked \ {x} /\ claimed' = claimed \union ({x} \intersect asked)
    /\ UNCHANGED <<apiVars, shared, throttle, reply, wait, limit, cool, due, mail, stored,
                   pushes, heard, spoiled, torn>>

KeyOf(x) == <<DeviceOf[x], IF x \in Events THEN "event" ELSE "dump">>
Finish(w) == IF job[w].claimed THEN "reply" ELSE "idle"

\* allow: INCR, and EXPIRE by the one that counted to 1.
Count(w) ==
  LET k == KeyOf(job[w].on)
      n == limit[k].n + 1
  IN /\ At(w, "limit")
     /\ limit' = [limit EXCEPT ![k].n = n]
     /\ To(w, IF n = 1 THEN "limitTtl" ELSE IF n <= Limit THEN "write" ELSE Finish(w))
     /\ UNCHANGED <<apiVars, shared, throttle, asked, reply, wait, cool, due, mail, stored,
                    histories>>

\* Mutant: the window is never opened.
CountTtlNot(w) ==
  /\ At(w, "limitTtl") /\ To(w, "write")
  /\ UNCHANGED <<apiVars, shared, redisVars, due, mail, stored, histories>>

CountTtl(w) ==
  /\ At(w, "limitTtl") /\ To(w, "write")
  /\ limit' = [limit EXCEPT ![KeyOf(job[w].on)].ttl = TRUE]
  /\ UNCHANGED <<apiVars, shared, throttle, asked, reply, wait, cool, due, mail, stored,
                 histories>>

\* Mutant: the samples count as inserted before Postgres has them.
WriteEarly(w) ==
  LET x == job[w].on IN
    /\ At(w, "write")
    /\ job' = [job EXCEPT ![w].pc = Finish(w), ![w].inserted = x \notin stored]
    /\ stored' \in {stored, stored \union {x}}
    /\ UNCHANGED <<apiVars, shared, redisVars, due, mail, histories>>

\* INSERT ... ON CONFLICT DO NOTHING: an answer is stored once.
Write(w) ==
  LET x == job[w].on
      next == IF x \in Events THEN "auto" ELSE Finish(w)
  IN /\ At(w, "write")
     /\ job' = [job EXCEPT ![w] = IF next = "idle" THEN NoJob
                                  ELSE [@ EXCEPT !.pc = next, !.inserted = x \notin stored]]
     /\ stored' = stored \union {x}
     /\ UNCHANGED <<apiVars, shared, redisVars, due, mail, histories>>

\* Mutant: an exception ends it, whoever waits.
WriteFailsSilently(w) ==
  /\ At(w, "write") /\ To(w, "idle")
  /\ UNCHANGED <<apiVars, shared, redisVars, due, mail, stored, histories>>

\* A statement fails; who waits is answered nonetheless.
WriteFails(w) ==
  /\ At(w, "write") /\ To(w, Finish(w))
  /\ UNCHANGED <<apiVars, shared, redisVars, due, mail, stored, histories>>

\* requestDump, after a flap or a new event of a serious kind: SET NX, publish;
\* if that fails the key is given back.
AutoDump(w) ==
  LET d == DeviceOf[job[w].on] IN
    /\ At(w, "auto") /\ To(w, "idle")
    /\ \/ /\ d \notin cool
          /\ cool' = cool \union {d} /\ due' = due \union {AutoOf[job[w].on]}
       \/ UNCHANGED <<cool, due>>
    /\ UNCHANGED <<apiVars, shared, throttle, asked, reply, wait, limit, mail, stored,
                   histories>>

Reply(w) ==
  LET x == job[w].on IN
    /\ At(w, "reply") /\ To(w, "replyTtl")
    /\ reply' = [reply EXCEPT ![x] = [inserted |-> job[w].inserted, ttl |-> FALSE]]
    /\ pushes' = [pushes EXCEPT ![x] = @ + 1]
    /\ UNCHANGED <<apiVars, shared, throttle, asked, wait, limit, cool, due, mail, stored,
                   claimed, heard, spoiled, torn>>

\* EXPIRE does nothing to a key that rc-api has taken or deleted meanwhile.
ReplyTtl(w) ==
  LET x == job[w].on IN
    /\ At(w, "replyTtl") /\ To(w, "idle")
    /\ reply' = [reply EXCEPT ![x] = IF @ = None THEN None ELSE [@ EXCEPT !.ttl = TRUE]]
    /\ UNCHANGED <<apiVars, shared, throttle, asked, wait, limit, cool, due, mail, stored,
                   histories>>

\* The process dies, or Redis fails it: the message is not delivered again.
Die(w) ==
  /\ Cardinality(torn) < MaxDeaths /\ ~At(w, "idle") /\ To(w, "idle")
  /\ torn' = IF job[w].claimed \/ At(w, "limitTtl")
             THEN torn \union {<<job[w].pc, job[w].on>>} ELSE torn
  /\ UNCHANGED <<apiVars, shared, redisVars, due, mail, stored, claimed, pushes, heard, spoiled>>

Work(w) ==
  \/ \E x \in Mail : Take(w, x)
  \/ Push(w) \/ PushTtl(w) \/ Claim(w) \/ Count(w) \/ CountTtl(w) \/ Write(w)
  \/ WriteFails(w) \/ AutoDump(w) \/ Reply(w) \/ ReplyTtl(w)

-----------------------------------------------------------------------------
(* Time.  A list somebody waits for is handed over at once.                *)

ExpireShort ==
  /\ \/ \E d \in throttle : throttle' = throttle \ {d} /\ UNCHANGED <<asked, cool>>
     \/ \E r \in asked : asked' = asked \ {r} /\ UNCHANGED <<throttle, cool>>
     \/ \E d \in cool : cool' = cool \ {d} /\ UNCHANGED <<throttle, asked>>
  /\ UNCHANGED <<apiVars, shared, reply, wait, limit, due, mail, job, stored, histories>>

ExpireWait(d) ==
  /\ wait[d].ttl /\ \A p \in Probes : shared = p => DeviceOf[p] # d
  /\ wait' = [wait EXCEPT ![d] = NoKey]
  /\ spoiled' = spoiled \union
       {p \in Probes : DeviceOf[p] = d /\ api[p] \in {"ask", "pop", "wait"}}
  /\ UNCHANGED <<apiVars, shared, throttle, asked, reply, limit, cool, due, mail, job, stored,
                 claimed, pushes, heard, torn>>

ExpireReply(r) ==
  /\ reply[r] # None /\ reply[r].ttl /\ api[r] # "wait"
  /\ reply' = [reply EXCEPT ![r] = None]
  /\ UNCHANGED <<apiVars, shared, throttle, asked, wait, limit, cool, due, mail, job, stored,
                 histories>>

ExpireLimit(k) ==
  /\ limit[k].ttl
  /\ limit' = [limit EXCEPT ![k] = NoKey]
  /\ UNCHANGED <<apiVars, shared, throttle, asked, reply, wait, cool, due, mail, job, stored,
                 histories>>

DiagNext ==
  \/ \E r \in Requests : Request(r)
  \/ \E r \in Dumps : Dump(r) \/ ExpireReply(r)
  \/ \E p \in Probes : Probe(p)
  \/ \E x \in Mail : Say(x)
  \/ \E w \in Workers : Work(w) \/ Die(w)
  \/ \E d \in Devices : RemoveKeys(d) \/ ExpireWait(d)
  \/ \E k \in Devices \X Kinds : ExpireLimit(k)
  \/ ExpireShort

\* A request that has begun goes on: its commands are answered, and a BRPOP
\* comes back with an answer or without.
DiagSpec ==
  /\ DiagInit /\ [][DiagNext]_diagVars
  /\ \A r \in Dumps : WF_diagVars(Dump(r))
  /\ \A p \in Probes : WF_diagVars(Probe(p))

-----------------------------------------------------------------------------
DiagTypeOK ==
  /\ api \in [Requests -> {"idle", "start", "register", "ask", "pop", "wait", "clean", "done"}]
  /\ outcome \in [Requests -> {"none", "throttled", "error", "timeout", "inserted",
                               "nothing new", "yes", "no"}]
  /\ shared \in Probes \union {None} /\ (shared # None => api[shared] = "wait")
  /\ throttle \subseteq Devices /\ cool \subseteq Devices /\ asked \subseteq Dumps
  /\ reply \in [Dumps -> [inserted : BOOLEAN, ttl : BOOLEAN] \union {None}]
  /\ wait \in [Devices -> [n : Nat, ttl : BOOLEAN]]
  /\ limit \in [Devices \X Kinds -> [n : Nat, ttl : BOOLEAN]]
  /\ due \subseteq Mail /\ stored \subseteq Mail /\ mail \in [Mail -> Nat]
  /\ pushes \in [Answers -> Nat] /\ heard \subseteq Probes /\ spoiled \subseteq Probes
  /\ job \in [Workers ->
       [pc : {"idle", "push", "pushTtl", "claim", "limit", "limitTtl", "write", "auto",
              "reply", "replyTtl"},
        on : Mail \union {None}, claimed : BOOLEAN, inserted : BOOLEAN]]
  /\ claimed \subseteq Dumps

\* A dump is answered at most once, however many copies of the answer come and
\* however many workers handle them, and a nonce rc-api did not register never:
\* a tablet makes no Redis keys of its own (the comment in onHwDump).
AnsweredOnce ==
  \A x \in Answers : pushes[x] <= IF x \in Dumps THEN 1 ELSE 0

\* A dump that is reported to have inserted samples has them in Postgres; the
\* answer that came too late for its own request is never given to another.
InsertedIsStored ==
  \A r \in Dumps : outcome[r] = "inserted" => r \in stored

\* A probe says no although the tablet's answer to it arrived in its time only
\* if another probe of the device cleared or took it, the device was removed,
\* or it expired while the connection was blocked.  Nothing is said of a yes:
\* an answer that came too late for its own probe serves the next one.
ProbeHears ==
  \A p \in Probes : outcome[p] = "no" /\ p \in heard => p \in spoiled

Handling(x, pcs) == \E w \in Workers : job[w].on = x /\ job[w].pc \in pcs
DiedAt(x, pcs)   == \E pc \in pcs : <<pc, x>> \in torn

\* Who waits for a dump is answered once ingest has claimed its nonce, whether
\* the answer is stored, refused for its rate, or Postgres fails (the comment
\* in onHwDump's finally); only a dead ingest leaves it to its timeout.
ClaimIsAnswered ==
  \A r \in claimed :
    LET open == {"limit", "limitTtl", "write", "reply"} IN
      pushes[r] = 1 \/ Handling(r, open) \/ DiedAt(r, open)

\* What a limit or an answer leaves in Redis will go: a device is not refused
\* for ever, and no answer stays.  Only a death between a command and its
\* EXPIRE can do that.
KeysExpire ==
  /\ \A k \in Devices \X Kinds :
       limit[k].n > 0 /\ ~limit[k].ttl =>
         \E x \in Mail : KeyOf(x) = k /\ (Handling(x, {"limitTtl"}) \/ DiedAt(x, {"limitTtl"}))
  /\ \A r \in Dumps :
       reply[r] # None /\ ~reply[r].ttl =>
         Handling(r, {"replyTtl"}) \/ DiedAt(r, {"replyTtl"})

\* The requests come to an end, though a probe makes all others wait.
RequestsEnd ==
  (\E r \in Requests : api[r] \notin {"idle", "done"})
    ~> (\A r \in Requests : api[r] \in {"idle", "done"})
=============================================================================
