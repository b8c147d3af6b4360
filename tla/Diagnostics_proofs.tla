-------------------------- MODULE Diagnostics_proofs --------------------------
(***************************************************************************)
(* What dumps and probes keep, for any requests, devices, events, number   *)
(* of workers and limit, whoever dies and whatever expires.                *)
(***************************************************************************)
EXTENDS Diagnostics, TLAPS

LEMMA Parts ==
  /\ Dumps \subseteq Mail /\ Probes \subseteq Mail /\ Events \subseteq Mail
  /\ Answers \subseteq Mail /\ Dumps \subseteq Answers
  /\ \A x \in Mail : DeviceOf[x] \in Devices
  /\ \A e \in Events : AutoOf[e] \in Mail
  /\ Dumps \subseteq Requests /\ Probes \subseteq Requests
  /\ Dumps \intersect Probes = {}
<1>1. \A e \in Events : AutoOf[e] \in Autos BY DiagnosticsAssumption
<1>2. QED BY <1>1, DiagnosticsAssumption DEF Mail, Answers, Requests, Devices

-----------------------------------------------------------------------------
(* What the requests, the workers and time leave alone.                    *)

Requesting ==
  \/ \E r \in Requests : Request(r)
  \/ \E r \in Dumps : Dump(r)
  \/ \E p \in Probes : Probe(p)
Working == \E w \in Workers : Work(w) \/ Die(w)
Passing ==
  \/ \E r \in Dumps : ExpireReply(r)
  \/ \E x \in Mail : Say(x)
  \/ \E d \in Devices : RemoveKeys(d) \/ ExpireWait(d)
  \/ \E k \in Devices \X Kinds : ExpireLimit(k)
  \/ ExpireShort

LEMMA NextCases == DiagNext => Requesting \/ Working \/ Passing
BY DEF DiagNext, Requesting, Working, Passing

LEMMA RequestFrame ==
  ASSUME Requesting
  PROVE  UNCHANGED <<limit, cool, mail, job, stored, claimed, pushes, heard, torn>>
<1> USE DEF Go, redisVars, histories
<1>1. ASSUME NEW r \in Requests, Request(r)
      PROVE  UNCHANGED <<limit, cool, mail, job, stored, claimed, pushes, heard, torn>>
  BY <1>1 DEF Request
<1>2. ASSUME NEW r \in Dumps, Dump(r)
      PROVE  UNCHANGED <<limit, cool, mail, job, stored, claimed, pushes, heard, torn>>
  BY <1>2 DEF Dump, Throttled, Throttle, Register, Ask, AskFails, Receive, GiveUp, Clean
<1>3. ASSUME NEW p \in Probes, Probe(p)
      PROVE  UNCHANGED <<limit, cool, mail, job, stored, claimed, pushes, heard, torn>>
  BY <1>3 DEF Probe, ProbeClear, ProbeAsk, ProbePop, ProbeServed, ProbeTimeout, ProbeFails
<1>4. QED BY <1>1, <1>2, <1>3 DEF Requesting

LEMMA WorkFrame ==
  ASSUME Working
  PROVE  UNCHANGED <<api, outcome, shared, throttle, spoiled>>
BY DEF Working, Work, Die, Take, Push, PushTtl, Claim, Count, CountTtl, Write, WriteFails,
       AutoDump, Reply, ReplyTtl, apiVars, redisVars, histories

LEMMA TimeFrame ==
  ASSUME Passing
  PROVE  UNCHANGED <<api, outcome, shared, job, stored, claimed, pushes, heard, torn>>
BY DEF Passing, ExpireReply, Say, RemoveKeys, ExpireWait, ExpireLimit, ExpireShort,
       apiVars, redisVars, histories

-----------------------------------------------------------------------------
(* Types, one part of the state at a time.                                 *)

ApiOK ==
  /\ api \in [Requests -> {"idle", "start", "register", "ask", "pop", "wait", "clean", "done"}]
  /\ outcome \in [Requests -> {"none", "throttled", "error", "timeout", "inserted",
                               "nothing new", "yes", "no"}]
  /\ shared \in Probes \union {None} /\ (shared # None => api[shared] = "wait")

RedisOK ==
  /\ throttle \subseteq Devices /\ cool \subseteq Devices /\ asked \subseteq Dumps
  /\ reply \in [Dumps -> [inserted : BOOLEAN, ttl : BOOLEAN] \union {None}]
  /\ wait \in [Devices -> [n : Nat, ttl : BOOLEAN]]
  /\ limit \in [Devices \X Kinds -> [n : Nat, ttl : BOOLEAN]]

MailOK ==
  /\ due \subseteq Mail /\ stored \subseteq Mail /\ mail \in [Mail -> Nat]
  /\ pushes \in [Answers -> Nat] /\ heard \subseteq Probes /\ spoiled \subseteq Probes
  /\ claimed \subseteq Dumps

JobType ==
  [pc : {"idle", "push", "pushTtl", "claim", "limit", "limitTtl", "write", "auto",
         "reply", "replyTtl"},
   on : Mail \union {None}, claimed : BOOLEAN, inserted : BOOLEAN]

\* Which message a worker has at which step.
JobOK(j) ==
  /\ j.pc \in {"push", "pushTtl"} => j.on \in Probes
  /\ j.pc = "claim" => j.on \in Answers
  /\ j.pc \in {"limit", "limitTtl", "write"} => j.on \in Answers \union Events
  /\ j.pc = "auto" => j.on \in Events
  /\ j.pc \in {"reply", "replyTtl"} => j.claimed
  /\ j.claimed => j.on \in Dumps
  /\ j.pc \in {"idle", "claim"} => ~j.claimed
JobsOK == job \in [Workers -> JobType] /\ \A w \in Workers : JobOK(job[w])

Typed == ApiOK /\ RedisOK /\ MailOK /\ JobsOK

\* A worker that is past the claim goes on with the same message.
LEMMA JobGoesOn ==
  ASSUME NEW j \in JobType, JobOK(j), j.pc \in {"limit", "write"},
         NEW to \in {"limitTtl", "write", "auto", "reply"}, NEW b \in BOOLEAN,
         to = "auto" => j.on \in Events, to = "reply" => j.claimed
  PROVE  /\ [j EXCEPT !.pc = to] \in JobType /\ JobOK([j EXCEPT !.pc = to])
         /\ [j EXCEPT !.pc = to, !.inserted = b] \in JobType
         /\ JobOK([j EXCEPT !.pc = to, !.inserted = b])
<1>1. PICK y : y = [j EXCEPT !.pc = to] BY Zenon
<1>2. PICK z : z = [j EXCEPT !.pc = to, !.inserted = b] BY Zenon
<1>3. y \in JobType /\ y.pc = to /\ y.on = j.on /\ y.claimed = j.claimed
  BY <1>1 DEF JobType
<1>4. z \in JobType /\ z.pc = to /\ z.on = j.on /\ z.claimed = j.claimed
  BY <1>2 DEF JobType
<1>5. JobOK(y) /\ JobOK(z) BY <1>3, <1>4 DEF JobOK
<1>6. QED BY <1>1, <1>2, <1>3, <1>4, <1>5, Zenon

LEMMA TypedIsTypeOK == Typed => DiagTypeOK
BY DEF Typed, ApiOK, RedisOK, MailOK, JobsOK, JobType, DiagTypeOK

LEMMA ApiStep ==
  ASSUME ApiOK, [DiagNext]_diagVars
  PROVE  ApiOK'
<1> USE Parts DEF ApiOK, Go, End
<1>1. ASSUME NEW r \in Requests, Request(r) PROVE ApiOK'
  BY <1>1 DEF Request
<1>2. ASSUME NEW r \in Dumps, Dump(r) PROVE ApiOK'
  <2>1. r \notin Probes OBVIOUS
  <2>2. CASE Throttled(r) BY <2>1, <2>2 DEF Throttled
  <2>3. CASE Throttle(r) BY <2>1, <2>3 DEF Throttle
  <2>4. CASE Register(r) BY <2>1, <2>4 DEF Register
  <2>5. CASE Ask(r) BY <2>1, <2>5 DEF Ask
  <2>6. CASE AskFails(r) BY <2>1, <2>6 DEF AskFails
  <2>7. CASE Receive(r) BY <2>1, <2>7 DEF Receive
  <2>8. CASE GiveUp(r) BY <2>1, <2>8 DEF GiveUp
  <2>9. CASE Clean(r) BY <2>1, <2>9 DEF Clean
  <2>10. QED BY <1>2, <2>2, <2>3, <2>4, <2>5, <2>6, <2>7, <2>8, <2>9 DEF Dump
<1>3. ASSUME NEW p \in Probes, Probe(p) PROVE ApiOK'
  <2>1. CASE ProbeClear(p) BY <2>1 DEF ProbeClear
  <2>2. CASE ProbeAsk(p) BY <2>2 DEF ProbeAsk
  <2>3. CASE ProbePop(p) BY <2>3 DEF ProbePop
  <2>4. CASE ProbeServed(p) BY <2>4 DEF ProbeServed
  <2>5. CASE ProbeTimeout(p) BY <2>5 DEF ProbeTimeout
  <2>6. CASE ProbeFails(p) BY <2>6 DEF ProbeFails
  <2>7. QED BY <1>3, <2>1, <2>2, <2>3, <2>4, <2>5, <2>6 DEF Probe
<1>4. CASE Working BY <1>4, WorkFrame
<1>5. CASE Passing BY <1>5, TimeFrame
<1>6. CASE UNCHANGED diagVars BY <1>6 DEF diagVars, apiVars
<1>7. QED BY <1>1, <1>2, <1>3, <1>4, <1>5, <1>6, NextCases DEF Requesting

LEMMA JobsStep ==
  ASSUME JobsOK, RedisOK, [DiagNext]_diagVars
  PROVE  JobsOK'
<1>1. ASSUME NEW w \in Workers, Work(w) \/ Die(w) PROVE JobsOK'
  <2> USE DEF JobsOK
  <2>1. job[w] \in JobType /\ JobOK(job[w]) OBVIOUS
  <2> SUFFICES job'[w] \in JobType /\ JobOK(job'[w])
               /\ \E j : job' = [job EXCEPT ![w] = j]
    OBVIOUS
  <2>2. NoJob \in JobType /\ JobOK(NoJob) BY DEF NoJob, JobType, JobOK
  <2>3. ASSUME NEW x \in Mail, Take(w, x)
        PROVE  /\ job'[w] \in JobType /\ JobOK(job'[w])
               /\ \E j : job' = [job EXCEPT ![w] = j]
    BY <2>3, Parts DEF Take, NoJob, JobType, JobOK, Mail, Answers
  <2>4. CASE Push(w) BY <2>1, <2>4 DEF Push, To, At, JobType, JobOK
  <2>5. CASE PushTtl(w) BY <2>2, <2>5 DEF PushTtl, To
  <2>6. CASE Claim(w)
    <3>0. job[w].pc = "claim" BY <2>6 DEF Claim, At
    <3>1. job[w].on \in asked => job[w].on \in Dumps BY DEF RedisOK
    <3>2. CASE job[w].on \in asked
      <4> DEFINE kept == job[w].on \in asked
      <4>0. kept = TRUE BY <3>2
      <4>1. job' = [job EXCEPT ![w] = [job[w] EXCEPT !.pc = "limit", !.claimed = TRUE]]
        <5>1. job' = [job EXCEPT ![w] = [job[w] EXCEPT !.pc = "limit", !.claimed = kept]]
          BY <2>6, Zenon DEF Claim
        <5>2. QED BY <5>1, <4>0, Zenon
      <4>2. QED BY <2>1, <3>0, <3>1, <3>2, <4>1 DEF JobType, JobOK
    <3>3. CASE job[w].on \notin asked
      <4> DEFINE kept == job[w].on \in asked
      <4>0. kept = FALSE BY <3>3
      <4>1. job' = [job EXCEPT ![w] = [job[w] EXCEPT !.pc = "limit", !.claimed = FALSE]]
        <5>1. job' = [job EXCEPT ![w] = [job[w] EXCEPT !.pc = "limit", !.claimed = kept]]
          BY <2>6, Zenon DEF Claim
        <5>2. QED BY <5>1, <4>0, Zenon
      <4>2. QED BY <2>1, <3>0, <4>1 DEF JobType, JobOK
    <3>4. QED BY <3>2, <3>3
  <2>7. CASE Count(w)
    <3>1. job[w].pc = "limit" BY <2>7 DEF Count, At
    <3>2. PICK to \in {"limitTtl", "write", "reply", "idle"} :
            To(w, to) /\ (to = "reply" => job[w].claimed)
      BY <2>7 DEF Count, Finish
    <3>3. CASE to = "idle" BY <2>2, <3>2, <3>3 DEF To
    <3>4. CASE to # "idle"
      <4>1. [job[w] EXCEPT !.pc = to] \in JobType /\ JobOK([job[w] EXCEPT !.pc = to])
        BY <2>1, <3>1, <3>2, <3>4, JobGoesOn
      <4>2. QED BY <2>1, <3>2, <3>4, <4>1 DEF To
    <3>5. QED BY <3>3, <3>4
  <2>8. CASE CountTtl(w) BY <2>1, <2>8 DEF CountTtl, To, At, JobType, JobOK
  <2>9. CASE Write(w)
    <3> DEFINE new == job[w].on \notin stored
    <3>1. job[w].pc = "write" BY <2>9 DEF Write, At
    <3>2. PICK to \in {"auto", "reply", "idle"}, b \in BOOLEAN :
            /\ job' = [job EXCEPT ![w] = IF to = "idle" THEN NoJob
                                         ELSE [@ EXCEPT !.pc = to, !.inserted = b]]
            /\ to = "auto" => job[w].on \in Events
            /\ to = "reply" => job[w].claimed
      <4> DEFINE next == IF job[w].on \in Events THEN "auto" ELSE Finish(w)
      <4>1. /\ next \in {"auto", "reply", "idle"} /\ new \in BOOLEAN
            /\ next = "auto" => job[w].on \in Events
            /\ next = "reply" => job[w].claimed
        BY DEF Finish
      <4>2. job' = [job EXCEPT ![w] = IF next = "idle" THEN NoJob
                                      ELSE [@ EXCEPT !.pc = next, !.inserted = new]]
        BY <2>9, Zenon DEF Write
      <4>3. QED BY <4>1, <4>2, Zenon
    <3>3. CASE to = "idle" BY <2>2, <3>2, <3>3
    <3>4. CASE to # "idle"
      <4>1. /\ [job[w] EXCEPT !.pc = to, !.inserted = b] \in JobType
            /\ JobOK([job[w] EXCEPT !.pc = to, !.inserted = b])
        BY <2>1, <3>1, <3>2, <3>4, JobGoesOn
      <4>2. QED BY <2>1, <3>2, <3>4, <4>1
    <3>5. QED BY <3>3, <3>4
  <2>10. CASE WriteFails(w)
    <3>1. job[w].pc = "write" BY <2>10 DEF WriteFails, At
    <3>2. PICK to \in {"auto", "reply", "idle"} :
            /\ To(w, to) /\ (to = "auto" => job[w].on \in Events)
            /\ to = "reply" => job[w].claimed
      BY <2>10 DEF WriteFails, Finish
    <3>3. CASE to = "idle" BY <2>2, <3>2, <3>3 DEF To
    <3>4. CASE to # "idle"
      <4>1. [job[w] EXCEPT !.pc = to] \in JobType /\ JobOK([job[w] EXCEPT !.pc = to])
        BY <2>1, <3>1, <3>2, <3>4, JobGoesOn
      <4>2. QED BY <2>1, <3>2, <3>4, <4>1 DEF To
    <3>5. QED BY <3>3, <3>4
  <2>11. CASE AutoDump(w) BY <2>2, <2>11 DEF AutoDump, To
  <2>12. CASE Reply(w) BY <2>1, <2>12 DEF Reply, To, At, JobType, JobOK
  <2>13. CASE ReplyTtl(w) BY <2>2, <2>13 DEF ReplyTtl, To
  <2>14. CASE Die(w) BY <2>2, <2>14 DEF Die, To
  <2>15. QED
    BY <1>1, <2>3, <2>4, <2>5, <2>6, <2>7, <2>8, <2>9, <2>10, <2>11, <2>12, <2>13, <2>14
    DEF Work
<1>2. CASE Requesting BY <1>2, RequestFrame DEF JobsOK
<1>3. CASE Passing BY <1>3, TimeFrame DEF JobsOK
<1>4. CASE UNCHANGED diagVars BY <1>4 DEF JobsOK, diagVars
<1>5. QED BY <1>1, <1>2, <1>3, <1>4, NextCases DEF Working

LEMMA RedisStep ==
  ASSUME ApiOK, RedisOK, JobsOK, [DiagNext]_diagVars
  PROVE  RedisOK'
<1> USE Parts DEF RedisOK, redisVars, NoKey
<1>1. ASSUME NEW r \in Requests, Request(r) PROVE RedisOK'
  BY <1>1 DEF Request
<1>2. ASSUME NEW r \in Dumps, Dump(r) PROVE RedisOK'
  <2> USE DEF Go
  <2>1. CASE Throttle(r) \/ Register(r) BY <2>1 DEF Throttle, Register
  <2>2. CASE Receive(r) \/ Clean(r) BY <2>2 DEF Receive, Clean
  <2>3. CASE Throttled(r) \/ Ask(r) \/ AskFails(r) \/ GiveUp(r)
    BY <2>3 DEF Throttled, Ask, AskFails, GiveUp
  <2>4. QED BY <1>2, <2>1, <2>2, <2>3 DEF Dump
<1>3. ASSUME NEW p \in Probes, Probe(p) PROVE RedisOK'
  <2> USE DEF Go
  <2>1. CASE ProbeClear(p) BY <2>1 DEF ProbeClear
  <2>2. CASE ProbeServed(p) BY <2>2 DEF ProbeServed
  <2>3. CASE ProbeAsk(p) \/ ProbePop(p) \/ ProbeTimeout(p) \/ ProbeFails(p)
    BY <2>3 DEF ProbeAsk, ProbePop, ProbeTimeout, ProbeFails
  <2>4. QED BY <1>3, <2>1, <2>2, <2>3 DEF Probe
<1>4. ASSUME NEW w \in Workers, Work(w) \/ Die(w) PROVE RedisOK'
  <2>1. job[w] \in JobType /\ JobOK(job[w]) BY DEF JobsOK
  <2>2. CASE Push(w) BY <2>1, <2>2 DEF Push, At, JobOK
  <2>3. CASE PushTtl(w)
    <3>1. DeviceOf[job[w].on] \in Devices BY <2>1, <2>3 DEF PushTtl, At, JobOK
    <3>2. PICK b \in BOOLEAN : wait' = [wait EXCEPT ![DeviceOf[job[w].on]].ttl = b]
      <4> DEFINE left == wait[DeviceOf[job[w].on]].n > 0
      <4>1. left \in BOOLEAN OBVIOUS
      <4>2. wait' = [wait EXCEPT ![DeviceOf[job[w].on]].ttl = left]
        BY <2>3, Zenon DEF PushTtl
      <4>3. QED BY <4>1, <4>2, Zenon
    <3>3. QED BY <2>3, <3>1, <3>2 DEF PushTtl
  <2>4. CASE Claim(w) BY <2>4 DEF Claim
  <2>5. CASE Count(w)
    <3>1. KeyOf(job[w].on) \in Devices \X Kinds
      BY <2>1, <2>5 DEF Count, At, JobOK, KeyOf, Kinds
    <3>2. QED BY <2>5, <3>1 DEF Count
  <2>6. CASE CountTtl(w)
    <3>1. KeyOf(job[w].on) \in Devices \X Kinds
      BY <2>1, <2>6 DEF CountTtl, At, JobOK, KeyOf, Kinds
    <3>2. QED BY <2>6, <3>1 DEF CountTtl
  <2>7. CASE AutoDump(w) BY <2>1, <2>7 DEF AutoDump, At, JobOK
  <2>8. CASE Reply(w) BY <2>1, <2>8 DEF Reply, At, JobOK, JobType
  <2>9. CASE ReplyTtl(w)
    <3> DEFINE x == job[w].on
    <3>1. x \in Dumps /\ job[w].pc = "replyTtl" BY <2>1, <2>9 DEF ReplyTtl, At, JobOK
    <3>2. reply' = [reply EXCEPT ![x] = IF @ = None THEN None ELSE [@ EXCEPT !.ttl = TRUE]]
          /\ UNCHANGED <<wait, limit, asked, throttle, cool>>
      BY <2>9 DEF ReplyTtl
    <3>3. reply' \in [Dumps -> [inserted : BOOLEAN, ttl : BOOLEAN] \union {None}]
      BY <3>1, <3>2
    <3>4. QED BY <3>2, <3>3
  <2>10. CASE (\E x \in Mail : Take(w, x)) \/ Write(w) \/ WriteFails(w) \/ Die(w)
    BY <2>10 DEF Take, Write, WriteFails, Die
  <2>11. QED
    BY <1>4, <2>2, <2>3, <2>4, <2>5, <2>6, <2>7, <2>8, <2>9, <2>10 DEF Work
<1>5. CASE Passing
  <2>1. ASSUME NEW r \in Dumps, ExpireReply(r) PROVE RedisOK'
    BY <2>1 DEF ExpireReply
  <2>2. ASSUME NEW d \in Devices, RemoveKeys(d) \/ ExpireWait(d) PROVE RedisOK'
    <3>1. UNCHANGED <<throttle, asked, reply, limit, cool>>
      BY <2>2 DEF RemoveKeys, ExpireWait
    <3> DEFINE none == [n |-> 0, ttl |-> FALSE]
    <3>2. wait' = [wait EXCEPT ![d] = none]
      BY <2>2, Zenon DEF RemoveKeys, ExpireWait
    <3>3. none \in [n : Nat, ttl : BOOLEAN]
      OBVIOUS
    <3> HIDE DEF none
    <3>4. wait' \in [Devices -> [n : Nat, ttl : BOOLEAN]]
      BY <3>2, <3>3
    <3>5. QED BY <3>1, <3>4
  <2>3. ASSUME NEW k \in Devices \X Kinds, ExpireLimit(k) PROVE RedisOK'
    BY <2>3 DEF ExpireLimit
  <2>4. CASE ExpireShort \/ \E x \in Mail : Say(x) BY <2>4 DEF ExpireShort, Say
  <2>5. QED BY <1>5, <2>1, <2>2, <2>3, <2>4 DEF Passing
<1>6. CASE UNCHANGED diagVars BY <1>6 DEF diagVars
<1>7. QED
  BY <1>1, <1>2, <1>3, <1>4, <1>5, <1>6, NextCases DEF Requesting, Working

LEMMA MailStep ==
  ASSUME RedisOK, JobsOK, MailOK, [DiagNext]_diagVars
  PROVE  MailOK'
<1> USE Parts DEF MailOK
<1>1. CASE Requesting
  <2>1. due' \subseteq Mail /\ spoiled' \subseteq Probes
    BY <1>1 DEF Requesting, Request, Dump, Throttled, Throttle, Register, Ask, AskFails,
         Receive, GiveUp, Clean, Probe, ProbeClear, ProbeAsk, ProbePop, ProbeServed,
         ProbeTimeout, ProbeFails, Rivals, histories
  <2>2. QED BY <1>1, <2>1, RequestFrame
<1>2. ASSUME NEW w \in Workers, Work(w) \/ Die(w) PROVE MailOK'
  <2> USE DEF histories
  <2>1. job[w] \in JobType /\ JobOK(job[w]) BY DEF JobsOK
  <2>2. ASSUME NEW x \in Mail, Take(w, x) PROVE MailOK' BY <2>2 DEF Take
  <2>3. CASE Push(w) BY <2>1, <2>3 DEF Push, At, JobOK
  <2>4. CASE Claim(w) BY <2>4 DEF Claim, RedisOK
  <2>5. CASE Write(w) BY <2>1, <2>5 DEF Write, At, JobOK
  <2>6. CASE AutoDump(w) BY <2>1, <2>6 DEF AutoDump, At, JobOK
  <2>7. CASE Reply(w) BY <2>1, <2>7 DEF Reply, At, JobOK
  <2>8. CASE PushTtl(w) \/ Count(w) \/ CountTtl(w) \/ WriteFails(w) \/ ReplyTtl(w) \/ Die(w)
    BY <2>8 DEF PushTtl, Count, CountTtl, WriteFails, ReplyTtl, Die
  <2>9. QED BY <1>2, <2>2, <2>3, <2>4, <2>5, <2>6, <2>7, <2>8 DEF Work
<1>3. CASE Passing
  <2>1. due' \subseteq Mail /\ mail' \in [Mail -> Nat] /\ spoiled' \subseteq Probes
    BY <1>3 DEF Passing, ExpireReply, RemoveKeys, ExpireWait, ExpireLimit, ExpireShort, Say,
         Copies, histories
  <2>2. QED BY <1>3, <2>1, TimeFrame
<1>4. CASE UNCHANGED diagVars BY <1>4 DEF diagVars, histories
<1>5. QED BY <1>1, <1>2, <1>3, <1>4, NextCases DEF Working

LEMMA TypedStep ==
  ASSUME Typed, [DiagNext]_diagVars
  PROVE  Typed'
BY ApiStep, JobsStep, RedisStep, MailStep DEF Typed

LEMMA TypedInit == DiagInit => Typed
<1> USE Parts, DiagnosticsAssumption
<1>1. DiagInit => ApiOK BY DEF DiagInit, ApiOK
<1>2. DiagInit => RedisOK BY DEF DiagInit, RedisOK, NoKey
<1>3. DiagInit => MailOK BY DEF DiagInit, MailOK, Mail, Answers
<1>4. DiagInit => JobsOK BY DEF DiagInit, JobsOK, JobType, JobOK, NoJob
<1>5. QED BY <1>1, <1>2, <1>3, <1>4 DEF Typed

\* Types; and the probe that blocks the connection is one that waits.
THEOREM DiagTypes == DiagSpec => []DiagTypeOK
<1>1. DiagSpec => []Typed
  BY TypedInit, TypedStep, PTL DEF DiagSpec
<1>2. QED BY <1>1, TypedIsTypeOK, PTL

-----------------------------------------------------------------------------
(* One answer to a nonce: who took it from Redis is the only one who may.  *)

Early == {"idle", "start", "register"}
Open  == {"limit", "limitTtl", "write", "reply"}

Once ==
  /\ \A r \in Dumps : api[r] \in Early => r \notin asked /\ r \notin claimed
  /\ \A r \in asked : r \notin claimed
  /\ \A w \in Workers : job[w].claimed => job[w].on \in claimed
  /\ \A w, v \in Workers :
       w # v /\ job[w].claimed /\ job[v].claimed => job[w].on # job[v].on
  /\ \A r \in Dumps : r \notin claimed => pushes[r] = 0
  /\ \A w \in Workers : job[w].claimed /\ job[w].pc \in Open => pushes[job[w].on] = 0
  /\ AnsweredOnce

\* A nonce enters hw:dumpreq when its request leaves "register", and only then.
LEMMA RequestMoves ==
  ASSUME Typed, Requesting
  PROVE  \A r \in Dumps :
           /\ api'[r] \in Early => api[r] \in Early
           /\ r \in asked' => r \in asked \/ (api[r] = "register" /\ api'[r] = "ask")
           /\ outcome'[r] = "inserted" =>
                outcome[r] = "inserted" \/ (reply[r] # None /\ reply[r].inserted)
           /\ reply'[r] # None => reply'[r] = reply[r]
<1> DEFINE Moves ==
      \A r \in Dumps :
        /\ api'[r] \in Early => api[r] \in Early
        /\ r \in asked' => r \in asked \/ (api[r] = "register" /\ api'[r] = "ask")
        /\ outcome'[r] = "inserted" =>
             outcome[r] = "inserted" \/ (reply[r] # None /\ reply[r].inserted)
        /\ reply'[r] # None => reply'[r] = reply[r]
<1> USE Parts DEF Typed, ApiOK, RedisOK, Early, Go, End, redisVars
<1>1. ASSUME NEW r \in Requests, Request(r) PROVE Moves
  BY <1>1 DEF Request
<1>2. ASSUME NEW r \in Dumps, Dump(r) PROVE Moves
  <2>1. CASE Throttled(r) BY <2>1 DEF Throttled
  <2>2. CASE Throttle(r) BY <2>2 DEF Throttle
  <2>3. CASE Register(r) BY <2>3 DEF Register
  <2>4. CASE Ask(r) BY <2>4 DEF Ask
  <2>5. CASE AskFails(r) BY <2>5 DEF AskFails
  <2>6. CASE Receive(r) BY <2>6 DEF Receive
  <2>7. CASE GiveUp(r) BY <2>7 DEF GiveUp
  <2>8. CASE Clean(r) BY <2>8 DEF Clean
  <2>9. QED BY <1>2, <2>1, <2>2, <2>3, <2>4, <2>5, <2>6, <2>7, <2>8 DEF Dump
<1>3. ASSUME NEW p \in Probes, Probe(p) PROVE Moves
  <2>1. p \notin Dumps OBVIOUS
  <2>2. CASE ProbeClear(p) \/ ProbeAsk(p) \/ ProbePop(p)
    BY <2>1, <2>2 DEF ProbeClear, ProbeAsk, ProbePop
  <2>3. CASE ProbeServed(p) \/ ProbeTimeout(p) \/ ProbeFails(p)
    BY <2>1, <2>3 DEF ProbeServed, ProbeTimeout, ProbeFails
  <2>4. QED BY <1>3, <2>2, <2>3 DEF Probe
<1>4. QED BY <1>1, <1>2, <1>3 DEF Requesting

\* A worker's claim comes with Claim, ends with Reply, and stays open between.
LEMMA JobMoves ==
  ASSUME Typed, NEW w \in Workers, Work(w) \/ Die(w)
  PROVE  /\ \A v \in Workers \ {w} : job'[v] = job[v]
         /\ \/ Claim(w)
            \/ Reply(w)
            \/ /\ UNCHANGED <<asked, claimed, pushes>>
               /\ job'[w].claimed =>
                    /\ job[w].claimed /\ job'[w].on = job[w].on
                    /\ job'[w].pc \in Open => job[w].pc \in Open
               /\ job[w].claimed /\ job[w].pc \in Open =>
                    \/ job'[w].claimed /\ job'[w].on = job[w].on /\ job'[w].pc \in Open
                    \/ torn' = torn \union {<<job[w].pc, job[w].on>>}
<1> USE DEF Typed, JobsOK, redisVars, histories
<1>1. job[w] \in JobType /\ JobOK(job[w]) OBVIOUS
<1>2. \A v \in Workers \ {w} : job'[v] = job[v]
  BY DEF Work, Die, Take, Push, PushTtl, Claim, Count, CountTtl, Write, WriteFails, AutoDump,
         Reply, ReplyTtl, To
<1> DEFINE Kept ==
      /\ UNCHANGED <<asked, claimed, pushes>>
      /\ job'[w].claimed =>
           /\ job[w].claimed /\ job'[w].on = job[w].on
           /\ job'[w].pc \in Open => job[w].pc \in Open
      /\ job[w].claimed /\ job[w].pc \in Open =>
           \/ job'[w].claimed /\ job'[w].on = job[w].on /\ job'[w].pc \in Open
           \/ torn' = torn \union {<<job[w].pc, job[w].on>>}
<1>3. ASSUME NEW x \in Mail, Take(w, x) PROVE Kept
  BY <1>1, <1>3 DEF Take, At, NoJob, JobOK
<1>4. CASE Push(w) BY <1>1, <1>4 DEF Push, At, To, NoJob, JobOK, JobType, Open
<1>5. CASE PushTtl(w) BY <1>1, <1>5 DEF PushTtl, At, To, NoJob, JobOK, JobType, Open
<1>6. CASE Count(w) BY <1>1, <1>6 DEF Count, Finish, At, To, NoJob, JobOK, JobType, Open
<1>7. CASE CountTtl(w) BY <1>1, <1>7 DEF CountTtl, At, To, JobOK, JobType, Open
<1>8. CASE Write(w)
  <2>1. job[w].claimed => job[w].on \notin Events
    BY <1>1, Parts, DiagnosticsAssumption DEF JobOK
  <2>2. QED BY <1>1, <1>8, <2>1 DEF Write, Finish, At, NoJob, JobOK, JobType, Open
<1>9. CASE WriteFails(w)
  BY <1>1, <1>9 DEF WriteFails, Finish, At, To, NoJob, JobOK, JobType, Open
<1>10. CASE AutoDump(w)
  BY <1>1, <1>10 DEF AutoDump, At, To, NoJob, JobOK, JobType, Open
<1>11. CASE ReplyTtl(w)
  BY <1>1, <1>11 DEF ReplyTtl, At, To, NoJob, JobOK, JobType, Open
<1>12. CASE Die(w) BY <1>1, <1>12 DEF Die, At, To, NoJob
<1>13. QED
  BY <1>2, <1>3, <1>4, <1>5, <1>6, <1>7, <1>8, <1>9, <1>10, <1>11, <1>12 DEF Work

LEMMA OnceStep ==
  ASSUME Typed, Once, [DiagNext]_diagVars
  PROVE  Once'
<1> USE DEF Once, AnsweredOnce
<1>1. CASE Requesting
  <2>1. asked' \subseteq Dumps BY TypedStep DEF Typed, RedisOK
  <2>2. UNCHANGED <<job, claimed, pushes>> BY <1>1, RequestFrame
  <2>3. QED BY <1>1, <2>1, <2>2, RequestMoves DEF Early
<1>2. ASSUME NEW w \in Workers, Work(w) \/ Die(w) PROVE Once'
  <2>1. UNCHANGED api BY <1>2, WorkFrame DEF Working
  <2>2. job[w] \in JobType /\ JobOK(job[w]) /\ job \in [Workers -> JobType]
    BY DEF Typed, JobsOK
  <2>3. \A v \in Workers \ {w} : job'[v] = job[v] BY <1>2, JobMoves
  <2>4. CASE Claim(w)
    <3> DEFINE x == job[w].on
    <3>1. /\ asked' = asked \ {x} /\ claimed' = claimed \union ({x} \intersect asked)
          /\ UNCHANGED pushes
      BY <2>4 DEF Claim
    <3>2. job'[w].on = x /\ (job'[w].claimed => x \in asked)
      BY <2>2, <2>4 DEF Claim, JobType
    <3>3. asked \subseteq Dumps BY DEF Typed, RedisOK
    <3>4. QED BY <2>1, <2>3, <3>1, <3>2, <3>3
  <2>5. CASE Reply(w)
    <3> DEFINE x == job[w].on
    <3>1. job[w].claimed /\ job[w].pc = "reply" /\ x \in Dumps
      BY <2>2, <2>5 DEF Reply, At, JobOK
    <3>2. /\ job'[w].on = x /\ job'[w].pc = "replyTtl" /\ job'[w].claimed
          /\ UNCHANGED <<asked, claimed>>
      BY <2>2, <2>5, <3>1 DEF Reply, To, JobType, redisVars
    <3>3. pushes' = [pushes EXCEPT ![x] = @ + 1] BY <2>5 DEF Reply
    <3>4. pushes[x] = 0 /\ pushes \in [Answers -> Nat] BY <3>1 DEF Open, Typed, MailOK
    <3>5. \A y \in Answers : pushes'[y] = IF y = x THEN 1 ELSE pushes[y] BY <3>3, <3>4
    <3>6. \A v \in Workers \ {w} : job[v].claimed => job[v].on # x BY <3>1
    <3>7. \A v \in Workers : job[v].claimed => job[v].on \in Answers
      BY Parts DEF Typed, JobsOK, JobOK
    <3>8. QED BY <2>1, <2>3, <3>1, <3>2, <3>5, <3>6, <3>7, Parts DEF Open
  <2>6. CASE UNCHANGED <<asked, claimed, pushes>>
             /\ (job'[w].claimed => job[w].claimed /\ job'[w].on = job[w].on
                   /\ (job'[w].pc \in Open => job[w].pc \in Open))
    BY <2>1, <2>3, <2>6
  <2>7. QED BY <1>2, <2>4, <2>5, <2>6, JobMoves
<1>3. CASE Passing
  <2>1. asked' \subseteq asked
    BY <1>3 DEF Passing, ExpireReply, Say, RemoveKeys, ExpireWait, ExpireLimit,
         ExpireShort, redisVars
  <2>2. QED BY <1>3, <2>1, TimeFrame
<1>4. CASE UNCHANGED diagVars
  BY <1>4 DEF diagVars, apiVars, redisVars, histories
<1>5. QED BY <1>1, <1>2, <1>3, <1>4, NextCases DEF Working

\* A dump is answered at most once, a nonce nobody registered never, whatever
\* copies of the answer come and whichever workers handle them.
THEOREM AnsweredAtMostOnce == DiagSpec => []AnsweredOnce
<1>1. DiagInit => Once
  BY Parts DEF DiagInit, Once, AnsweredOnce, NoJob, Requests
<1>2. Typed /\ Once /\ [DiagNext]_diagVars => Once' BY OnceStep
<1>3. DiagSpec => [](Typed /\ Once)
  BY <1>1, <1>2, TypedInit, TypedStep, PTL DEF DiagSpec
<1>4. Once => AnsweredOnce BY DEF Once
<1>5. QED BY <1>3, <1>4, PTL

-----------------------------------------------------------------------------
(* Who is claimed is answered.                                             *)

OpenClaim(r, w) == job[w].on = r /\ job[w].claimed /\ job[w].pc \in Open
Answering ==
  \A r \in claimed : pushes[r] = 1 \/ (\E w \in Workers : OpenClaim(r, w)) \/ DiedAt(r, Open)

LEMMA AnsweringStep ==
  ASSUME Typed, Once, Answering, [DiagNext]_diagVars
  PROVE  Answering'
<1> USE DEF Answering, OpenClaim, DiedAt
<1>1. CASE Requesting BY <1>1, RequestFrame
<1>2. ASSUME NEW w \in Workers, Work(w) \/ Die(w), NEW r \in claimed'
      PROVE  pushes'[r] = 1 \/ (\E v \in Workers : OpenClaim(r, v)') \/ DiedAt(r, Open)'
  <2>1. job[w] \in JobType /\ JobOK(job[w]) /\ job \in [Workers -> JobType]
    BY DEF Typed, JobsOK
  <2>2. \A v \in Workers \ {w} : job'[v] = job[v] BY <1>2, JobMoves
  <2>3. torn \subseteq torn'
    BY <1>2 DEF Work, Die, Take, Push, PushTtl, Claim, Count, CountTtl, Write, WriteFails,
         AutoDump, Reply, ReplyTtl, histories
  <2>4. CASE Claim(w)
    <3>1. UNCHANGED pushes /\ claimed' = claimed \union ({job[w].on} \intersect asked)
      BY <2>4 DEF Claim
    <3>2. ~job[w].claimed BY <2>1, <2>4 DEF Claim, At, JobOK
    <3>3. job'[w].on = job[w].on /\ job'[w].pc = "limit"
          /\ (job'[w].claimed <=> job[w].on \in asked)
      BY <2>1, <2>4 DEF Claim, JobType
    <3>4. CASE r \in claimed BY <2>2, <2>3, <3>1, <3>2, <3>4
    <3>5. CASE r = job[w].on /\ r \in asked BY <3>3, <3>5 DEF Open
    <3>6. QED BY <1>2, <3>1, <3>4, <3>5
  <2>5. CASE Reply(w)
    <3>1. job[w].claimed /\ job[w].pc = "reply" /\ job[w].on \in Dumps /\ UNCHANGED claimed
      BY <2>1, <2>5 DEF Reply, At, JobOK
    <3>2. pushes' = [pushes EXCEPT ![job[w].on] = @ + 1] BY <2>5 DEF Reply
    <3>3. pushes[job[w].on] = 0 /\ pushes \in [Answers -> Nat] /\ claimed \subseteq Dumps
      BY <3>1 DEF Once, Open, Typed, MailOK
    <3>4. CASE r = job[w].on BY <3>1, <3>2, <3>3, <3>4, Parts
    <3>5. CASE r # job[w].on BY <1>2, <2>2, <2>3, <3>1, <3>2, <3>3, <3>5, Parts
    <3>6. QED BY <3>4, <3>5
  <2>6. CASE /\ UNCHANGED <<asked, claimed, pushes>>
             /\ job[w].claimed /\ job[w].pc \in Open =>
                  \/ job'[w].claimed /\ job'[w].on = job[w].on /\ job'[w].pc \in Open
                  \/ torn' = torn \union {<<job[w].pc, job[w].on>>}
    BY <1>2, <2>2, <2>3, <2>6
  <2>7. QED BY <1>2, <2>4, <2>5, <2>6, JobMoves
<1>3. CASE Passing BY <1>3, TimeFrame
<1>4. CASE UNCHANGED diagVars BY <1>4 DEF diagVars, histories
<1>5. QED BY <1>1, <1>2, <1>3, <1>4, NextCases DEF Working

\* Who waits for a dump is answered once ingest has claimed its nonce; only a
\* death between the claim and the answer leaves it to its timeout.
THEOREM ClaimsAreAnswered == DiagSpec => []ClaimIsAnswered
<1>1. DiagInit => Once /\ Answering
  BY Parts DEF DiagInit, Once, AnsweredOnce, NoJob, Requests, Answering
<1>2. Typed /\ Once /\ [DiagNext]_diagVars => Once' BY OnceStep
<1>3. Typed /\ Once /\ Answering /\ [DiagNext]_diagVars => Answering' BY AnsweringStep
<1>4. DiagSpec => []Answering
  BY <1>1, <1>2, <1>3, TypedInit, TypedStep, PTL DEF DiagSpec
<1>5. Answering => ClaimIsAnswered
  BY DEF Answering, OpenClaim, ClaimIsAnswered, Handling, Open
<1>6. QED BY <1>4, <1>5, PTL

-----------------------------------------------------------------------------
(* What is reported as inserted is in Postgres.                            *)

Stored ==
  /\ \A r \in Dumps : reply[r] # None /\ reply[r].inserted => r \in stored
  /\ \A w \in Workers : job[w].inserted => job[w].on \in stored
  /\ InsertedIsStored

LEMMA StoredStep ==
  ASSUME Typed, Stored, [DiagNext]_diagVars
  PROVE  Stored'
<1> USE DEF Stored, InsertedIsStored
<1>1. CASE Requesting BY <1>1, RequestMoves, RequestFrame
<1>2. ASSUME NEW w \in Workers, Work(w) \/ Die(w) PROVE Stored'
  <2> USE DEF redisVars
  <2>1. UNCHANGED outcome BY <1>2, WorkFrame DEF Working
  <2>2. job[w] \in JobType /\ JobOK(job[w]) /\ job \in [Workers -> JobType]
        /\ reply \in [Dumps -> [inserted : BOOLEAN, ttl : BOOLEAN] \union {None}]
    BY DEF Typed, JobsOK, RedisOK
  <2>3. \A v \in Workers \ {w} : job'[v] = job[v] BY <1>2, JobMoves
  <2>4. CASE Reply(w)
    <3>1. job[w].on \in Dumps BY <2>2, <2>4 DEF Reply, At, JobOK
    <3>2. job'[w].on = job[w].on /\ job'[w].inserted = job[w].inserted /\ UNCHANGED stored
      BY <2>2, <2>4 DEF Reply, To, JobType
    <3>3. \A r \in Dumps :
            reply'[r] = IF r = job[w].on THEN [inserted |-> job[w].inserted, ttl |-> FALSE]
                        ELSE reply[r]
      BY <2>2, <2>4, <3>1 DEF Reply
    <3>4. QED BY <2>1, <2>3, <3>2, <3>3
  <2>5. CASE ReplyTtl(w)
    <3>1. job[w].on \in Dumps BY <2>2, <2>5 DEF ReplyTtl, At, JobOK
    <3>2. ~job'[w].inserted /\ UNCHANGED stored
      BY <2>2, <2>5 DEF ReplyTtl, To, NoJob
    <3>3. \A r \in Dumps :
            reply'[r] # None => reply[r] # None /\ reply'[r].inserted = reply[r].inserted
      BY <2>2, <2>5, <3>1 DEF ReplyTtl
    <3>4. QED BY <2>1, <2>3, <3>2, <3>3
  <2>6. CASE Write(w)
    <3>1. stored' = stored \union {job[w].on} /\ UNCHANGED reply BY <2>6 DEF Write
    <3>2. job'[w].inserted => job'[w].on = job[w].on
      BY <2>2, <2>6 DEF Write, NoJob, JobType
    <3>3. QED BY <2>1, <2>3, <3>1, <3>2
  <2>7. CASE Claim(w)
    <3>1. job'[w].on = job[w].on /\ job'[w].inserted = job[w].inserted
          /\ UNCHANGED <<stored, reply>>
      BY <2>2, <2>7 DEF Claim, JobType
    <3>2. QED BY <2>1, <2>3, <3>1
  <2>8. CASE (\E x \in Mail : Take(w, x)) \/ Push(w) \/ PushTtl(w) \/ Count(w) \/ CountTtl(w)
             \/ WriteFails(w) \/ AutoDump(w) \/ Die(w)
    <3>1. UNCHANGED <<stored, reply>>
      BY <2>8 DEF Take, Push, PushTtl, Count, CountTtl, WriteFails, AutoDump, Die
    <3>2. job'[w].inserted => job[w].inserted /\ job'[w].on = job[w].on
      <4>1. CASE \E x \in Mail : Take(w, x)
        BY <2>2, <4>1 DEF Take, NoJob
      <4>2. CASE Count(w) BY <2>2, <4>2 DEF Count, To, Finish, NoJob, JobType
      <4>3. CASE Push(w) \/ PushTtl(w) \/ CountTtl(w) \/ AutoDump(w) \/ Die(w)
        BY <2>2, <4>3 DEF Push, PushTtl, CountTtl, AutoDump, Die, To, NoJob, JobType
      <4>4. CASE WriteFails(w) BY <2>2, <4>4 DEF WriteFails, To, Finish, NoJob, JobType
      <4>5. QED BY <2>8, <4>1, <4>2, <4>3, <4>4
    <3>3. QED BY <2>1, <2>3, <3>1, <3>2
  <2>9. QED BY <1>2, <2>4, <2>5, <2>6, <2>7, <2>8 DEF Work
<1>3. CASE Passing
  <2>1. \A r \in Dumps : reply'[r] # None => reply'[r] = reply[r]
    BY <1>3 DEF Passing, ExpireReply, Say, RemoveKeys, ExpireWait, ExpireLimit,
         ExpireShort, redisVars, Typed, RedisOK
  <2>2. QED BY <1>3, <2>1, TimeFrame
<1>4. CASE UNCHANGED diagVars
  BY <1>4 DEF diagVars, apiVars, redisVars, histories
<1>5. QED BY <1>1, <1>2, <1>3, <1>4, NextCases DEF Working

\* A dump that is reported to have inserted samples has them in Postgres.
THEOREM InsertedAreStored == DiagSpec => []InsertedIsStored
<1>1. DiagInit => Stored BY DEF DiagInit, Stored, InsertedIsStored, NoJob, Requests
<1>2. Typed /\ Stored /\ [DiagNext]_diagVars => Stored' BY StoredStep
<1>3. DiagSpec => []Stored
  BY <1>1, <1>2, TypedInit, TypedStep, PTL DEF DiagSpec
<1>4. Stored => InsertedIsStored BY DEF Stored
<1>5. QED BY <1>3, <1>4, PTL

-----------------------------------------------------------------------------
(* A key without a TTL has a worker that is about to give it one.          *)

LimitsExpire ==
  \A k \in Devices \X Kinds :
    limit[k].n > 0 /\ ~limit[k].ttl =>
      \E x \in Mail : KeyOf(x) = k /\ (Handling(x, {"limitTtl"}) \/ DiedAt(x, {"limitTtl"}))
RepliesExpire ==
  \A r \in Dumps :
    reply[r] # None /\ ~reply[r].ttl => Handling(r, {"replyTtl"}) \/ DiedAt(r, {"replyTtl"})

\* A worker leaves the step that sets a TTL by setting it, or dies there.
LEMMA TtlSteps ==
  ASSUME Typed, NEW w \in Workers, Work(w) \/ Die(w)
  PROVE  /\ \A v \in Workers \ {w} : job'[v] = job[v]
         /\ torn \subseteq torn'
         /\ job[w].pc = "limitTtl" => CountTtl(w) \/ <<"limitTtl", job[w].on>> \in torn'
         /\ job[w].pc = "replyTtl" => ReplyTtl(w) \/ <<"replyTtl", job[w].on>> \in torn'
         /\ Count(w) \/ CountTtl(w) \/ UNCHANGED limit
         /\ Reply(w) \/ ReplyTtl(w) \/ UNCHANGED reply
<1>1. job[w] \in JobType /\ JobOK(job[w]) BY DEF Typed, JobsOK
<1>2. \A v \in Workers \ {w} : job'[v] = job[v] BY JobMoves
<1>3. CASE Die(w) BY <1>1, <1>2, <1>3 DEF Die, At, JobOK, redisVars
<1>4. CASE Work(w)
  BY <1>2, <1>4 DEF Work, Take, Push, PushTtl, Claim, Count, CountTtl, Write, WriteFails,
     AutoDump, Reply, ReplyTtl, At, redisVars, histories
<1>5. QED BY <1>3, <1>4

\* Whoever counts to 1 is at it, or died of it, until the TTL is set.
LEMMA StillAtIt ==
  ASSUME Typed, NEW w \in Workers, Work(w) \/ Die(w),
         NEW x \in Mail, Handling(x, {"limitTtl"}) \/ DiedAt(x, {"limitTtl"}),
         CountTtl(w) => job[w].on # x
  PROVE  Handling(x, {"limitTtl"})' \/ DiedAt(x, {"limitTtl"})'
<1>1. CASE DiedAt(x, {"limitTtl"}) BY <1>1, TtlSteps DEF DiedAt
<1>2. CASE Handling(x, {"limitTtl"})
  <2>1. PICK v \in Workers : job[v].on = x /\ job[v].pc = "limitTtl"
    BY <1>2 DEF Handling
  <2>2. CASE v = w BY <2>1, <2>2, TtlSteps DEF DiedAt
  <2>3. CASE v # w BY <2>1, <2>3, TtlSteps DEF Handling
  <2>4. QED BY <2>2, <2>3
<1>3. QED BY <1>1, <1>2

LEMMA LimitsStep ==
  ASSUME Typed, LimitsExpire, [DiagNext]_diagVars
  PROVE  LimitsExpire'
<1> USE DEF LimitsExpire
<1>1. CASE Requesting BY <1>1, RequestFrame DEF Handling, DiedAt
<1>2. ASSUME NEW w \in Workers, Work(w) \/ Die(w) PROVE LimitsExpire'
  <2> DEFINE key == KeyOf(job[w].on)
  <2>1. job[w] \in JobType /\ JobOK(job[w]) /\ job \in [Workers -> JobType]
        /\ limit \in [Devices \X Kinds -> [n : Nat, ttl : BOOLEAN]]
    BY DEF Typed, JobsOK, RedisOK
  <2>2. CASE Count(w)
    <3>1. job[w].pc = "limit" /\ job[w].on \in Mail /\ key \in Devices \X Kinds
      BY <2>1, <2>2, Parts DEF Count, At, JobOK, KeyOf, Kinds
    <3>2. limit' = [limit EXCEPT ![key].n = limit[key].n + 1]
      BY <2>2 DEF Count
    <3>3. limit[key].n = 0 => job'[w].pc = "limitTtl" /\ job'[w].on = job[w].on
      BY <2>1, <2>2, <3>1 DEF Count, To, JobType
    <3>4. limit[key].n # 0 => limit[key].n > 0 /\ limit'[key].ttl = limit[key].ttl
      BY <2>1, <3>1, <3>2
    <3>5. ASSUME NEW k \in Devices \X Kinds, limit[k].n > 0 /\ ~limit[k].ttl
          PROVE  \E x \in Mail : KeyOf(x) = k /\ (Handling(x, {"limitTtl"})' \/
                                                  DiedAt(x, {"limitTtl"})')
      <4>1. ~CountTtl(w) BY <3>1 DEF CountTtl, At
      <4>2. PICK x \in Mail :
              KeyOf(x) = k /\ (Handling(x, {"limitTtl"}) \/ DiedAt(x, {"limitTtl"}))
        BY <3>5
      <4>3. QED BY <1>2, <4>1, <4>2, StillAtIt
    <3>6. ASSUME NEW k \in Devices \X Kinds, k # key PROVE limit'[k] = limit[k]
      BY <2>1, <3>2, <3>6
    <3>7. QED BY <3>1, <3>3, <3>4, <3>5, <3>6 DEF Handling
  <2>3. CASE CountTtl(w)
    <3>1. job[w].on \in Mail /\ key \in Devices \X Kinds
      BY <2>1, <2>3, Parts DEF CountTtl, At, JobOK, KeyOf, Kinds
    <3>2. limit' = [limit EXCEPT ![key].ttl = TRUE] BY <2>3 DEF CountTtl
    <3>3. limit'[key].ttl /\ \A k \in Devices \X Kinds : k # key => limit'[k] = limit[k]
      BY <2>1, <3>1, <3>2
    <3>4. ASSUME NEW k \in Devices \X Kinds, limit'[k].n > 0 /\ ~limit'[k].ttl
          PROVE  \E x \in Mail : KeyOf(x) = k /\ (Handling(x, {"limitTtl"})' \/
                                                  DiedAt(x, {"limitTtl"})')
      <4>1. k # key /\ limit[k].n > 0 /\ ~limit[k].ttl BY <3>3, <3>4
      <4>2. PICK x \in Mail :
              KeyOf(x) = k /\ (Handling(x, {"limitTtl"}) \/ DiedAt(x, {"limitTtl"}))
        BY <4>1
      <4>3. QED BY <1>2, <4>1, <4>2, StillAtIt
    <3>5. QED BY <3>4
  <2>4. CASE UNCHANGED limit /\ ~CountTtl(w) BY <1>2, <2>4, StillAtIt
  <2>5. QED BY <1>2, <2>2, <2>3, <2>4, TtlSteps
<1>3. CASE Passing
  <2>1. \A k \in Devices \X Kinds : limit'[k] = limit[k] \/ limit'[k] = NoKey
    BY <1>3 DEF Passing, ExpireReply, Say, RemoveKeys, ExpireWait, ExpireLimit,
         ExpireShort, redisVars, Typed, RedisOK
  <2>2. QED BY <1>3, <2>1, TimeFrame DEF NoKey, Handling, DiedAt
<1>4. CASE UNCHANGED diagVars BY <1>4 DEF diagVars, redisVars, histories, Handling, DiedAt
<1>5. QED BY <1>1, <1>2, <1>3, <1>4, NextCases DEF Working

LEMMA RepliesStep ==
  ASSUME Typed, RepliesExpire, [DiagNext]_diagVars
  PROVE  RepliesExpire'
<1> USE DEF RepliesExpire, Handling, DiedAt
<1>1. CASE Requesting BY <1>1, RequestMoves, RequestFrame
<1>2. ASSUME NEW w \in Workers, Work(w) \/ Die(w) PROVE RepliesExpire'
  <2>1. job[w] \in JobType /\ JobOK(job[w]) /\ job \in [Workers -> JobType]
        /\ reply \in [Dumps -> [inserted : BOOLEAN, ttl : BOOLEAN] \union {None}]
    BY DEF Typed, JobsOK, RedisOK
  <2>2. CASE Reply(w)
    <3>1. job[w].pc = "reply" /\ job[w].on \in Dumps BY <2>1, <2>2 DEF Reply, At, JobOK
    <3>2. job'[w].pc = "replyTtl" /\ job'[w].on = job[w].on
      BY <2>1, <2>2 DEF Reply, To, JobType
    <3>3. \A r \in Dumps : r # job[w].on => reply'[r] = reply[r]
      BY <2>1, <2>2 DEF Reply
    <3>4. /\ \A v \in Workers \ {w} : job'[v] = job[v]
          /\ torn \subseteq torn'
          /\ UNCHANGED torn
      BY <1>2, <2>2, TtlSteps DEF Reply, histories
    <3>5. QED BY <3>1, <3>2, <3>3, <3>4
  <2>3. CASE ReplyTtl(w)
    <3>1. job[w].on \in Dumps BY <2>1, <2>3 DEF ReplyTtl, At, JobOK
    <3>2. \A r \in Dumps :
            IF r = job[w].on THEN reply'[r] # None => reply'[r].ttl ELSE reply'[r] = reply[r]
      BY <2>1, <2>3, <3>1 DEF ReplyTtl
    <3>3. \A v \in Workers \ {w} : job'[v] = job[v] BY <1>2, TtlSteps
    <3>4. torn \subseteq torn' BY <1>2, TtlSteps
    <3>5. \A v \in Workers : job[v].on # job[w].on => job'[v] = job[v] BY <3>3
    <3>6. QED BY <3>1, <3>2, <3>4, <3>5
  <2>4. CASE UNCHANGED reply /\ ~ReplyTtl(w) BY <1>2, <2>4, TtlSteps
  <2>5. QED BY <1>2, <2>2, <2>3, <2>4, TtlSteps
<1>3. CASE Passing
  <2>1. \A r \in Dumps : reply'[r] # None => reply'[r] = reply[r]
    BY <1>3 DEF Passing, ExpireReply, Say, RemoveKeys, ExpireWait, ExpireLimit,
         ExpireShort, redisVars, Typed, RedisOK
  <2>2. QED BY <1>3, <2>1, TimeFrame
<1>4. CASE UNCHANGED diagVars BY <1>4 DEF diagVars, redisVars, histories
<1>5. QED BY <1>1, <1>2, <1>3, <1>4, NextCases DEF Working

\* A device is not refused for ever and no answer stays, unless ingest died
\* between a command and its EXPIRE.
THEOREM KeysGo == DiagSpec => []KeysExpire
<1>1. DiagInit => LimitsExpire /\ RepliesExpire
  BY DEF DiagInit, LimitsExpire, RepliesExpire, NoKey
<1>2. Typed /\ LimitsExpire /\ [DiagNext]_diagVars => LimitsExpire' BY LimitsStep
<1>3. Typed /\ RepliesExpire /\ [DiagNext]_diagVars => RepliesExpire' BY RepliesStep
<1>4. DiagSpec => [](LimitsExpire /\ RepliesExpire)
  BY <1>1, <1>2, <1>3, TypedInit, TypedStep, PTL DEF DiagSpec
<1>5. LimitsExpire /\ RepliesExpire => KeysExpire
  BY DEF LimitsExpire, RepliesExpire, KeysExpire
<1>6. QED BY <1>4, <1>5, PTL

-----------------------------------------------------------------------------
(* An answer that was heard is in the list of the device until the probe   *)
(* takes it, or someone else does.                                         *)

Hearing ==
  /\ \A p \in heard : api[p] \in {"pop", "wait", "done"}
  /\ \A p \in heard \ spoiled : api[p] \in {"pop", "wait"} => wait[DeviceOf[p]].n > 0
  /\ \A p \in Probes : outcome[p] = "no" => api[p] = "done"
  /\ ProbeHears

LEMMA HearingStep ==
  ASSUME Typed, Hearing, [DiagNext]_diagVars
  PROVE  Hearing'
<1> USE DEF Hearing, ProbeHears, redisVars, histories
<1>0. /\ wait \in [Devices -> [n : Nat, ttl : BOOLEAN]] /\ heard \subseteq Probes
      /\ api \in [Requests -> {"idle", "start", "register", "ask", "pop", "wait", "clean",
                               "done"}]
      /\ DOMAIN outcome = Requests
  BY DEF Typed, ApiOK, RedisOK, MailOK
<1>1. ASSUME NEW r \in Requests, Request(r) PROVE Hearing'
  BY <1>0, <1>1, Parts DEF Request
<1>2. ASSUME NEW r \in Dumps, Dump(r) PROVE Hearing'
  <2>1. r \notin Probes BY Parts
  <2>2. UNCHANGED <<wait, heard, spoiled>>
    BY <1>2 DEF Dump, Throttled, Throttle, Register, Ask, AskFails, Receive, GiveUp, Clean, Go
  <2>3. \A p \in Probes : api'[p] = api[p] /\ outcome'[p] = outcome[p]
    BY <1>0, <1>2, <2>1, Parts DEF Dump, Throttled, Throttle, Register, Ask, AskFails,
       Receive, GiveUp, Clean, Go, End
  <2>4. QED BY <1>0, <2>2, <2>3
<1>3. ASSUME NEW p \in Probes, Probe(p) PROVE Hearing'
  <2> USE <1>0, Parts DEF Go, End
  <2>1. CASE ProbeClear(p) BY <2>1 DEF ProbeClear, Rivals, NoKey
  <2>2. CASE ProbeAsk(p) BY <2>2 DEF ProbeAsk
  <2>3. CASE ProbePop(p) BY <2>3 DEF ProbePop
  <2>4. CASE ProbeServed(p) BY <2>4 DEF ProbeServed, Rivals
  <2>5. CASE ProbeTimeout(p) BY <2>5 DEF ProbeTimeout
  <2>6. CASE ProbeFails(p) BY <2>6 DEF ProbeFails
  <2>7. QED BY <1>3, <2>1, <2>2, <2>3, <2>4, <2>5, <2>6 DEF Probe
<1>4. ASSUME NEW w \in Workers, Work(w) \/ Die(w) PROVE Hearing'
  <2>1. UNCHANGED <<api, outcome, spoiled>> BY <1>4, WorkFrame DEF Working
  <2>2. job[w] \in JobType /\ JobOK(job[w]) BY DEF Typed, JobsOK
  <2>3. CASE Push(w)
    <3>1. job[w].on \in Probes BY <2>2, <2>3 DEF Push, At, JobOK
    <3>2. wait' = [wait EXCEPT ![DeviceOf[job[w].on]].n = @ + 1]
          /\ heard' \subseteq heard \union ({job[w].on} \intersect
                                            {p \in Probes : api[p] \in {"pop", "wait"}})
      BY <2>3, <3>1 DEF Push
    <3>3. wait'[DeviceOf[job[w].on]].n > 0
          /\ \A d \in Devices : wait'[d].n >= wait[d].n
      BY <1>0, <3>1, <3>2, Parts
    <3>4. QED BY <1>0, <2>1, <3>2, <3>3, Parts
  <2>4. CASE PushTtl(w)
    <3>1. \A d \in Devices : wait'[d].n = wait[d].n BY <1>0, <2>4 DEF PushTtl
    <3>2. UNCHANGED heard BY <2>4 DEF PushTtl
    <3>3. QED BY <1>0, <2>1, <3>1, <3>2, Parts
  <2>5. CASE ~Push(w) /\ ~PushTtl(w)
    <3>1. UNCHANGED <<wait, heard>>
      BY <1>4, <2>5 DEF Work, Die, Take, Claim, Count, CountTtl, Write, WriteFails, AutoDump,
         Reply, ReplyTtl
    <3>2. QED BY <2>1, <3>1
  <2>6. QED BY <2>3, <2>4, <2>5
<1>5. CASE Passing
  <2>1. ASSUME NEW d \in Devices, RemoveKeys(d) \/ ExpireWait(d) PROVE Hearing'
    BY <1>0, <2>1, Parts DEF RemoveKeys, ExpireWait, apiVars, NoKey
  <2>2. CASE UNCHANGED <<wait, spoiled>> BY <1>5, <2>2, TimeFrame
  <2>3. QED
    BY <1>5, <2>1, <2>2 DEF Passing, ExpireReply, Say, ExpireLimit, ExpireShort
<1>6. CASE UNCHANGED diagVars BY <1>6 DEF diagVars, apiVars
<1>7. QED BY <1>1, <1>2, <1>3, <1>4, <1>5, <1>6, NextCases DEF Requesting, Working

\* A probe that says no missed an answer that came in its time only where
\* another probe, a removal of the device or a TTL took it.
THEOREM ProbesHear == DiagSpec => []ProbeHears
<1>1. DiagInit => Hearing BY Parts DEF DiagInit, Hearing, ProbeHears
<1>2. Typed /\ Hearing /\ [DiagNext]_diagVars => Hearing' BY HearingStep
<1>3. DiagSpec => []Hearing
  BY <1>1, <1>2, TypedInit, TypedStep, PTL DEF DiagSpec
<1>4. Hearing => ProbeHears BY DEF Hearing
<1>5. QED BY <1>3, <1>4, PTL
=============================================================================
