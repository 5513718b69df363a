------------------------- MODULE LeaseSupervisorProofs -------------------------
(***************************************************************************)
(* The supervisor keeps the promise of LeaseService, however requests,     *)
(* renewals and releases overlap: for any runs, targets, requests and      *)
(* bounds.                                                                 *)
(***************************************************************************)
EXTENDS LeaseSupervisor, TLAPS

-----------------------------------------------------------------------------
(* The inductive invariant.                                                *)

\* Entries are told apart by their number, and so are goroutines.
GenInv ==
  /\ \A r \in Run : entry[r].gen <= started
  /\ \A g \in Start : loop[g] # NoLoop => g <= started
  /\ \A r, q \in Run : Supervised(r) /\ entry[q].gen = entry[r].gen => q = r

\* The goroutine of an entry runs, and nobody told it to stop.
Alive(r) ==
  LET l == loop[entry[r].gen] IN l # NoLoop /\ l.run = r /\ ~l.cut

\* One that has no renewal to make has renewed the row less than an interval ago.
Paced(r) ==
  LET l == loop[entry[r].gen]
  IN l.pc \in {"wait", "renewed"} /\ ~l.due => row[r].left > 1

\* A healthy entry has its goroutine; it stands for the row, unless the run is over.
Sound(r) ==
  /\ Alive(r)
  /\ r \notin over => Held(r) /\ row[r].id = entry[r].id /\ Paced(r)

HealthInv == \A r \in Run : Healthy(r) => Sound(r)

AtRelease(c) == call[c].pc \in {"release", "drain", "delete", "forget"}

\* Leases are released only of runs that are over. Such a release may meet
\* anything: another one, or a lease a late request acquired.
ReleaseInv ==
  \A c \in Caller : AtRelease(c) \/ call[c].op = "settle" => call[c].run \in over

\* Who found no row and no entry does not find a row without an entry later.
AbsentInv ==
  \A c \in Caller : call[c].pc = "acquire" =>
    call[c].run \in over \/ ~Held(call[c].run) \/ Supervised(call[c].run)

IInv == TypeOK /\ GenInv /\ HealthInv /\ ReleaseInv /\ AbsentInv

USE TargetsAssumption, NoRunAssumption, TTLAssumption, BoundsAssumption

-----------------------------------------------------------------------------
(* Records that stand for nothing.                                         *)

LEMMA RowId ==
  ASSUME NEW w \in Row
  PROVE  /\ w # NoRow <=> w.id # 0
         /\ w # NoRow => w.id \in Start /\ w.left \in 1 .. TTL
         /\ w.left \in 0 .. TTL
BY DEF Row, NoRow, Start

LEMMA EntryGen ==
  ASSUME NEW e \in Entry
  PROVE  /\ e # NoEntry <=> e.gen # 0
         /\ e # NoEntry => e.gen \in Start
         /\ e = NoEntry => ~e.stopping /\ ~e.failed
         /\ e.id \in 0 .. MaxStarts /\ e.left \in 0 .. TTL
         /\ e.stopping \in BOOLEAN /\ e.failed \in BOOLEAN
<1>1. CASE e = NoEntry
  BY <1>1 DEF NoEntry, Start
<1>2. CASE e \in [gen : Start, id : Start, left : 0 .. TTL, stopping : BOOLEAN, failed : BOOLEAN]
  <2>1. e.gen \in Start /\ e.gen # 0 /\ NoEntry.gen = 0
    BY <1>2 DEF Start, NoEntry
  <2>2. e.id \in 0 .. MaxStarts /\ e.left \in 0 .. TTL
    BY <1>2 DEF Start
  <2>3. e.stopping \in BOOLEAN /\ e.failed \in BOOLEAN
    BY <1>2
  <2> QED
    BY <2>1, <2>2, <2>3
<1> QED
  BY <1>1, <1>2 DEF Entry

LEMMA LoopPc ==
  ASSUME NEW l \in Loop
  PROVE  /\ l # NoLoop <=> l.pc # "off"
         /\ l # NoLoop => /\ l.pc \in {"wait", "renew", "renewed", "refused"}
                          /\ l.run \in Run /\ l.id \in Start
         /\ l.left \in 0 .. TTL /\ l.due \in BOOLEAN /\ l.cut \in BOOLEAN
<1>1. CASE l = NoLoop
  BY <1>1 DEF NoLoop
<1>2. CASE l \in [pc : {"wait", "renew", "renewed", "refused"}, run : Run, id : Start,
                  left : 0 .. TTL, due : BOOLEAN, cut : BOOLEAN]
  <2>1. /\ l.pc \in {"wait", "renew", "renewed", "refused"} /\ l.run \in Run /\ l.id \in Start
        /\ l.pc # "off" /\ NoLoop.pc = "off"
    BY <1>2 DEF NoLoop
  <2>2. l.left \in 0 .. TTL
    BY <1>2
  <2>3. l.due \in BOOLEAN /\ l.cut \in BOOLEAN
    BY <1>2
  <2> QED
    BY <2>1, <2>2, <2>3
<1> QED
  BY <1>1, <1>2 DEF Loop

-----------------------------------------------------------------------------
(* What the lease service sees of a step, run by run.                      *)

svc == <<{r \in Run : Held(r)}, [r \in Run |-> Standing(r)]>>

ServiceStep == LS!Next \/ UNCHANGED svc

LEMMA ServiceStutter ==
  ASSUME over' = over,
         \A q \in Run : Held(q)' = Held(q),
         \A q \in Run \ over : Vouched(q)' = Vouched(q)
  PROVE  ServiceStep
<1>1. \A q \in Run : Standing(q)' = Standing(q)
  BY DEF Standing
<1> QED
  BY <1>1 DEF ServiceStep, svc

LEMMA SomeTake ==
  ASSUME over' = over, NEW r \in Run, Vouched(r) = "none", Held(r) \/ Free(r),
         \A q \in Run : Held(q)' = (Held(q) \/ q = r),
         \A q \in Run : Vouched(q)' = IF q = r THEN "active" ELSE Vouched(q)
  PROVE  ServiceStep
<1>1. CASE r \notin over
  <2>1. Standing(r) = "none"
    BY <1>1 DEF Standing
  <2>2. \A q \in Run : Standing(q)' = IF q = r THEN "active" ELSE Standing(q)
    BY <1>1 DEF Standing
  <2>3. LS!Take(r)
    BY <2>1, <2>2 DEF LS!Take, LS!Contends, Free, Contends
  <2> QED
    BY <2>3 DEF LS!Next, ServiceStep
<1>2. CASE r \in over /\ Held(r)
  <2>1. \A q \in Run : Held(q)' = Held(q)
    BY <1>2 DEF Held
  <2>2. \A q \in Run \ over : Vouched(q)' = Vouched(q)
    BY <1>2
  <2> QED
    BY <2>1, <2>2, ServiceStutter
<1>3. CASE r \in over /\ ~Held(r)
  <2>1. Standing(r) = "over"
    BY <1>3 DEF Standing
  <2>2. \A q \in Run : Standing(q)' = Standing(q)
    BY <1>3 DEF Standing
  <2>3. LS!Retake(r)
    BY <1>3, <2>1, <2>2 DEF LS!Retake, LS!Contends, Free, Contends
  <2> QED
    BY <2>3 DEF LS!Next, ServiceStep
<1> QED
  BY <1>1, <1>2, <1>3

LEMMA SomeFail ==
  ASSUME over' = over, NEW r \in Run, Vouched(r) \in {"active", "leaving"},
         \A q \in Run : Held(q)' = Held(q),
         \A q \in Run : Vouched(q)' = IF q = r THEN "failed" ELSE Vouched(q)
  PROVE  ServiceStep
<1>1. CASE r \notin over
  <2>1. Standing(r) \in {"active", "leaving"}
    BY <1>1 DEF Standing
  <2>2. \A q \in Run : Standing(q)' = IF q = r THEN "failed" ELSE Standing(q)
    BY <1>1 DEF Standing
  <2>3. LS!Fail(r)
    BY <2>1, <2>2 DEF LS!Fail
  <2> QED
    BY <2>3 DEF LS!Next, ServiceStep
<1>2. CASE r \in over
  <2>1. \A q \in Run \ over : Vouched(q)' = Vouched(q)
    BY <1>2
  <2> QED
    BY <2>1, ServiceStutter
<1> QED
  BY <1>1, <1>2

LEMMA SomeLeave ==
  ASSUME over' = over, NEW S \in SUBSET Run, \A r \in S : Vouched(r) = "active",
         \A q \in Run : Held(q)' = Held(q),
         \A q \in Run : Vouched(q)' = IF q \in S THEN "leaving" ELSE Vouched(q)
  PROVE  ServiceStep
<1>1. PICK T \in SUBSET Run : T = S \ over
  OBVIOUS
<1>2. \A r \in T : Standing(r) = "active"
  BY <1>1 DEF Standing
<1>3. \A q \in Run : Standing(q)' = IF q \in T THEN "leaving" ELSE Standing(q)
  BY <1>1 DEF Standing
<1>4. LS!Leave(T)
  BY <1>2, <1>3 DEF LS!Leave
<1> QED
  BY <1>4 DEF LS!Next, ServiceStep

LEMMA SomeLapse ==
  ASSUME over' = over, NEW S \in SUBSET Run,
         \A r \in S : Held(r) /\ (r \in over \/ Vouched(r) # "active"),
         \A q \in Run : Held(q)' = (Held(q) /\ q \notin S),
         \A q \in Run : Vouched(q)' = Vouched(q)
  PROVE  ServiceStep
<1>1. \A q \in Run : Standing(q)' = Standing(q)
  BY DEF Standing
<1>2. \A q \in S : Standing(q) # "active"
  BY DEF Standing
<1>3. LS!Lapse(S)
  BY <1>1, <1>2 DEF LS!Lapse
<1> QED
  BY <1>3 DEF LS!Next, ServiceStep

LEMMA SomeEnd ==
  ASSUME NEW r \in Run, over' = over \union {r},
         \A q \in Run : Held(q)' = Held(q) /\ Vouched(q)' = Vouched(q)
  PROVE  ServiceStep
<1>1. \A q \in Run : Standing(q)' = IF q = r THEN "over" ELSE Standing(q)
  BY DEF Standing
<1>2. LS!End(r)
  BY <1>1 DEF LS!End
<1> QED
  BY <1>2 DEF LS!Next, ServiceStep

LEMMA EveryoneExits ==
  ASSUME over' = over,
         \A q \in Run : Held(q)' = Held(q),
         \A q \in Run : Vouched(q)' = "none"
  PROVE  ServiceStep
<1>1. \A q \in Run : Standing(q) = "over" <=> q \in over
  BY DEF Standing, Vouched
<1>2. \A q \in Run : Standing(q)' = IF Standing(q) = "over" THEN "over" ELSE "none"
  BY <1>1 DEF Standing
<1>3. LS!Exit
  BY <1>2 DEF LS!Exit
<1> QED
  BY <1>3 DEF LS!Next, ServiceStep

-----------------------------------------------------------------------------
(* Requests that change nothing but their own position.                    *)

LEMMA CallOfRun ==
  ASSUME TypeOK, NEW c \in Caller, call[c].pc # "idle"
  PROVE  /\ call[c].run \in Run /\ call[c] # NoCall
         /\ call[c].op \in {"validate", "ensure", "settle", "release"}
BY DEF TypeOK, Call, NoCall

\* What the memory of a request may become.
CallSound(v) ==
  /\ v.pc \in {"release", "drain", "delete", "forget"} \/ v.op = "settle" => v.run \in over
  /\ v.pc = "acquire" => v.run \in over \/ ~Held(v.run) \/ Supervised(v.run)

LEMMA CallMoves ==
  ASSUME IInv, NEW c \in Caller, NEW v \in Call,
         call' = [call EXCEPT ![c] = v],
         UNCHANGED <<row, entry, loop, started, closed, over>>,
         budget' \in [crash : 0 .. MaxCrashes, fault : 0 .. MaxFaults],
         CallSound(v)
  PROVE  IInv' /\ ServiceStep
<1>0. /\ call \in [Caller -> Call]
      /\ \A d \in Caller : call'[d] = IF d = c THEN v ELSE call[d]
  BY DEF IInv, TypeOK
<1>1. TypeOK'
  BY DEF IInv, TypeOK
<1>2. GenInv'
  BY DEF IInv, GenInv, Supervised
<1>3. HealthInv'
  BY DEF IInv, HealthInv, Healthy, Supervised, Held, Sound, Alive, Paced
<1>4. ReleaseInv'
  BY <1>0 DEF IInv, ReleaseInv, AtRelease, CallSound
<1>5. AbsentInv'
  BY <1>0 DEF IInv, AbsentInv, Held, Supervised, CallSound
<1>6. ServiceStep
  BY ServiceStutter DEF Held, Vouched, Supervised
<1> QED
  BY <1>1, <1>2, <1>3, <1>4, <1>5, <1>6 DEF IInv

\* A request that returns, or goes on with the same run.
LEMMA Returns ==
  ASSUME IInv, NEW c \in Caller, call[c].pc # "idle", Return(c),
         UNCHANGED <<row, entry, loop, started, closed, over>>,
         budget' \in [crash : 0 .. MaxCrashes, fault : 0 .. MaxFaults]
  PROVE  IInv' /\ ServiceStep
<1>1. NoCall \in Call
  BY DEF Call
<1>2. CallSound(NoCall)
  BY DEF CallSound, NoCall
<1> QED
  BY <1>1, <1>2, CallMoves DEF Return

LEMMA Goes ==
  ASSUME IInv, NEW c \in Caller, call[c].pc # "idle",
         NEW pc \in {"doom", "resume", "acquire", "release", "delete"}, Goto(c, pc),
         UNCHANGED <<row, entry, loop, started, closed, over>>,
         budget' \in [crash : 0 .. MaxCrashes, fault : 0 .. MaxFaults],
         pc = "release" => call[c].op = "settle",
         pc = "delete" => AtRelease(c),
         pc = "acquire" => ~Held(call[c].run)
  PROVE  IInv' /\ ServiceStep
<1> DEFINE v == [call[c] EXCEPT !.pc = pc]
<1>1. /\ v \in Call /\ v.run = call[c].run /\ v.pc = pc /\ v.op = call[c].op
      /\ call' = [call EXCEPT ![c] = v]
  BY CallOfRun DEF IInv, TypeOK, Call, NoCall, Goto
<1>2. CallSound(v)
  BY <1>1 DEF CallSound, IInv, ReleaseInv, AtRelease
<1> HIDE DEF v
<1> QED
  BY <1>1, <1>2, CallMoves

LEMMA ArriveKeeps ==
  ASSUME IInv, NEW c \in Caller, NEW r \in Run,
         Validate(c, r) \/ Ensure(c, r) \/ Settle(c, r)
  PROVE  IInv' /\ ServiceStep
<1>1. PICK op \in {"validate", "ensure", "settle"}, pc \in {"inspect", "resume"} :
        /\ Begin(c, op, pc, r) /\ call[c] = NoCall
        /\ op = "settle" => r \in over
        /\ UNCHANGED <<row, entry, loop, started, closed, over, budget>>
  BY DEF Validate, Ensure, Settle
<1> DEFINE v == [NoCall EXCEPT !.pc = pc, !.op = op, !.run = r,
                               !.id = IF pc = "inspect" THEN entry[r].id ELSE 0]
<1>2. /\ v \in Call /\ v.run = r /\ v.pc = pc /\ v.op = op
      /\ call' = [call EXCEPT ![c] = v]
  BY <1>1, EntryGen DEF IInv, TypeOK, Call, NoCall, Begin, Entry, NoEntry
<1>3. CallSound(v)
  BY <1>1, <1>2 DEF CallSound
<1>4. budget' \in [crash : 0 .. MaxCrashes, fault : 0 .. MaxFaults]
  BY <1>1 DEF IInv, TypeOK
<1> HIDE DEF v
<1> QED
  BY <1>1, <1>2, <1>3, <1>4, CallMoves

LEMMA Found ==
  ASSUME NEW k \in Call, k.pc # "idle", NEW left \in 0 .. TTL
  PROVE  LET v == [k EXCEPT !.pc = "adopt", !.left = left]
         IN v \in Call /\ v.run = k.run /\ v.pc = "adopt" /\ v.op = k.op
<1>1. k \in [pc : {"inspect", "adopt", "doom", "resume", "acquire", "release", "drain",
                  "delete", "forget"},
            op : {"validate", "ensure", "settle", "release"}, run : Run,
            gen : 0 .. MaxStarts, id : 0 .. MaxStarts, left : 0 .. TTL]
  BY DEF Call, NoCall
<1> QED
  BY <1>1 DEF Call

LEMMA InspectFoundKeeps ==
  ASSUME IInv, NEW c \in Caller, InspectFound(c)
  PROVE  IInv' /\ ServiceStep
<1> DEFINE v == [call[c] EXCEPT !.pc = "adopt", !.left = row[call[c].run].left]
<1>1. /\ v \in Call /\ v.run = call[c].run /\ v.pc = "adopt" /\ v.op = call[c].op
      /\ call' = [call EXCEPT ![c] = v]
  <2>1. call[c].pc # "idle" /\ call[c] \in Call /\ call[c].run \in Run
    BY CallOfRun DEF IInv, TypeOK, InspectFound
  <2>2. row[call[c].run].left \in 0 .. TTL
    BY <2>1, RowId DEF IInv, TypeOK
  <2>3. v \in Call /\ v.run = call[c].run /\ v.pc = "adopt" /\ v.op = call[c].op
    BY <2>1, <2>2, Found
  <2>4. call' = [call EXCEPT ![c] = v]
    BY <2>1 DEF IInv, TypeOK, InspectFound, Call, NoCall
  <2> QED
    BY <2>3, <2>4
<1>2. CallSound(v)
  BY <1>1 DEF CallSound, IInv, ReleaseInv
<1>3. budget' \in [crash : 0 .. MaxCrashes, fault : 0 .. MaxFaults]
  BY DEF IInv, TypeOK, InspectFound
<1> HIDE DEF v
<1> QED
  BY <1>1, <1>2, <1>3, CallMoves DEF InspectFound

\* What a fault costs.
LEMMA Budgets ==
  ASSUME TypeOK, budget' = budget \/ Spend
  PROVE  budget' \in [crash : 0 .. MaxCrashes, fault : 0 .. MaxFaults]
BY DEF TypeOK, Spend

LEMMA PositionKeeps ==
  ASSUME IInv, NEW c \in Caller,
         InspectFailed(c) \/ ResumeSupervised(c) \/ ResumeAbsent(c) \/ LeaveAsIs(c)
           \/ ReleaseRefused(c) \/ ReleaseFound(c) \/ ReleaseLost(c) \/ DeleteFailed(c)
  PROVE  IInv' /\ ServiceStep
<1>1. /\ call[c].pc # "idle"
      /\ UNCHANGED <<row, entry, loop, started, closed, over>>
      /\ budget' = budget \/ Spend
  BY DEF InspectFailed, ResumeSupervised, ResumeAbsent, LeaveAsIs, ReleaseRefused,
         ReleaseFound, ReleaseLost, DeleteFailed, Drained
<1>2. budget' \in [crash : 0 .. MaxCrashes, fault : 0 .. MaxFaults]
  BY <1>1, Budgets DEF IInv
<1>3. CASE Return(c)
  BY <1>1, <1>2, <1>3, Returns
<1>4. CASE Goto(c, "doom")
  BY <1>1, <1>2, <1>4, Goes
<1>5. CASE Goto(c, "release") /\ call[c].op = "settle"
  BY <1>1, <1>2, <1>5, Goes
<1>6. CASE Goto(c, "acquire") /\ ~Held(call[c].run)
  BY <1>1, <1>2, <1>6, Goes
<1>7. CASE Goto(c, "delete") /\ AtRelease(c)
  BY <1>1, <1>2, <1>7, Goes
<1> QED
  BY <1>3, <1>4, <1>5, <1>6, <1>7
     DEF InspectFailed, ResumeSupervised, ResumeAbsent, LeaveAsIs, ReleaseRefused,
         ReleaseFound, ReleaseLost, DeleteFailed, Drained, AtRelease, Answered

-----------------------------------------------------------------------------
(* Steps that change an entry, a row or a goroutine.                       *)

\* A request goes on for the same run, or is answered.
GoesOn(d) ==
  \/ call'[d] = NoCall
  \/ /\ call'[d].run = call[d].run /\ call'[d].op = call[d].op
     /\ AtRelease(d)' => AtRelease(d) \/ call[d].op = "settle"

LEMMA ReleasesKept ==
  ASSUME IInv, over \subseteq over', \A d \in Caller : GoesOn(d)
  PROVE  ReleaseInv'
<1> SUFFICES ASSUME NEW d \in Caller, AtRelease(d)' \/ call'[d].op = "settle"
             PROVE  call'[d].run \in over'
  BY DEF ReleaseInv
<1>1. call'[d] # NoCall
  BY DEF AtRelease, NoCall
<1>2. call'[d].run = call[d].run /\ (AtRelease(d) \/ call[d].op = "settle")
  BY <1>1 DEF GoesOn
<1> QED
  BY <1>2 DEF IInv, ReleaseInv

\* Nobody who is about to acquire is surprised by a row.
LEMMA AbsenceKept ==
  ASSUME IInv, over \subseteq over',
         \A c \in Caller : call'[c].pc = "acquire" =>
           call'[c].run = call[c].run /\ call[c].pc = "acquire",
         \A q \in Run \ over : ~Held(q) \/ Supervised(q) => (~Held(q) \/ Supervised(q))'
  PROVE  AbsentInv'
<1> SUFFICES ASSUME NEW c \in Caller, call'[c].pc = "acquire"
             PROVE  (call[c].run \in over \/ ~Held(call[c].run) \/ Supervised(call[c].run))'
  BY DEF AbsentInv
<1>1. call'[c].run = call[c].run /\ call[c].pc = "acquire" /\ call[c].run \in Run
  BY CallOfRun DEF IInv
<1>2. call[c].run \in over \/ ~Held(call[c].run) \/ Supervised(call[c].run)
  BY <1>1 DEF IInv, AbsentInv
<1> QED
  BY <1>1, <1>2 DEF Held, Supervised

\* Nothing changes for the entry, the row and the goroutine of q.
Quiet(q) ==
  /\ entry'[q].gen = entry[q].gen /\ entry'[q].id = entry[q].id
  /\ loop'[entry[q].gen] = loop[entry[q].gen]
  /\ q \notin over' => row'[q] = row[q]

LEMMA HealthKept ==
  ASSUME IInv, over \subseteq over',
         \A q \in Run : Healthy(q)' => (Healthy(q) /\ Quiet(q)) \/ Sound(q)'
  PROVE  HealthInv'
<1> SUFFICES ASSUME NEW q \in Run, Healthy(q)', Healthy(q), Quiet(q)
             PROVE  Sound(q)'
  BY DEF HealthInv
<1>1. Sound(q)
  BY DEF IInv, HealthInv
<1>2. Alive(q)'
  BY <1>1 DEF Quiet, Sound, Alive
<1>3. ASSUME q \notin over'
      PROVE  (Held(q) /\ row[q].id = entry[q].id /\ Paced(q))'
  <2>1. Held(q) /\ row[q].id = entry[q].id /\ Paced(q)
    BY <1>1, <1>3 DEF Sound
  <2> QED
    BY <1>3, <2>1 DEF Quiet, Held, Paced
<1> QED
  BY <1>2, <1>3 DEF Sound

LEMMA GenKept ==
  ASSUME IInv, TypeOK', started' = started,
         \A q \in Run : entry'[q].gen \in {0, entry[q].gen},
         \A g \in Start : loop'[g] # NoLoop => loop[g] # NoLoop
  PROVE  GenInv'
<1>1. \A q \in Run : /\ entry[q] \in Entry /\ entry'[q] \in Entry
  BY DEF IInv, TypeOK
<1>2. \A q \in Run : /\ Supervised(q)' => Supervised(q)
                     /\ Supervised(q)' => entry'[q].gen = entry[q].gen
  BY <1>1, EntryGen DEF Supervised
<1>3. started \in Nat
  BY DEF IInv, TypeOK
<1>4. \A q \in Run : entry'[q].gen <= started'
  BY <1>3 DEF IInv, GenInv
<1>5. \A r, q \in Run : Supervised(r)' /\ entry'[q].gen = entry'[r].gen => q = r
  <2> SUFFICES ASSUME NEW r \in Run, NEW q \in Run, Supervised(r)',
                      entry'[q].gen = entry'[r].gen
               PROVE  q = r
    OBVIOUS
  <2>1. Supervised(r) /\ entry'[r].gen = entry[r].gen /\ entry[r].gen # 0
    BY <1>1, <1>2, EntryGen DEF Supervised
  <2>2. entry[q].gen = entry[r].gen
    BY <2>1
  <2> QED
    BY <2>1, <2>2 DEF IInv, GenInv
<1> QED
  BY <1>4, <1>5 DEF IInv, GenInv, Supervised

LEMMA EntryEdit ==
  ASSUME NEW e \in Entry, e # NoEntry
  PROVE  /\ [e EXCEPT !.failed = TRUE] \in Entry
         /\ [e EXCEPT !.stopping = TRUE] \in Entry
         /\ \A n \in 0 .. TTL : [e EXCEPT !.left = n] \in Entry
BY DEF Entry

LEMMA LoopEdit ==
  ASSUME NEW l \in Loop, l # NoLoop
  PROVE  /\ [l EXCEPT !.cut = TRUE] \in Loop
         /\ \A n \in 0 .. TTL : \A pc \in {"wait", "renew", "renewed", "refused"} :
              /\ [l EXCEPT !.pc = pc, !.left = n] \in Loop
              /\ [l EXCEPT !.pc = pc, !.due = FALSE, !.left = n] \in Loop
BY DEF Loop

\* The goroutine of r's entry is told to stop, if it runs.
LEMMA CutEffect ==
  ASSUME IInv, NEW r \in Run, Supervised(r), NEW l \in [Start -> Loop],
         loop' = Cut(l, r)
  PROVE  /\ loop' \in [Start -> Loop]
         /\ \A g \in Start : /\ loop'[g] # NoLoop => l[g] # NoLoop
                             /\ g # entry[r].gen => loop'[g] = l[g]
<1>1. entry[r].gen \in Start
  BY EntryGen DEF IInv, TypeOK, Supervised
<1>2. CASE l[entry[r].gen] = NoLoop
  BY <1>2 DEF Cut
<1>3. CASE l[entry[r].gen] # NoLoop
  <2>1. PICK g \in Start : g = entry[r].gen /\ loop' = [l EXCEPT ![g] = [l[g] EXCEPT !.cut = TRUE]]
    BY <1>1, <1>3 DEF Cut
  <2>2. [l[g] EXCEPT !.cut = TRUE] \in Loop
    BY <1>3, <2>1, LoopEdit
  <2> QED
    BY <1>3, <2>1, <2>2
<1> QED
  BY <1>2, <1>3

\* A request that goes on to resume or to release, or returns.
LEMMA CallLeaves ==
  ASSUME IInv, NEW c \in Caller, call[c].pc # "idle",
         \/ Goto(c, "resume") \/ Return(c)
         \/ Goto(c, "release") /\ call[c].op = "settle"
  PROVE  /\ call' \in [Caller -> Call]
         /\ \A d \in Caller : GoesOn(d)
         /\ \A d \in Caller : call'[d].pc = "acquire" => call'[d] = call[d]
<1>1. PICK v \in Call :
        /\ call' = [call EXCEPT ![c] = v]
        /\ v.pc # "acquire"
        /\ \/ v = NoCall
           \/ /\ v.run = call[c].run /\ v.op = call[c].op
              /\ v.pc = "resume" \/ call[c].op = "settle"
  <2>1. CASE Return(c)
    <3>1. NoCall \in Call /\ NoCall.pc = "idle"
      BY DEF Call, NoCall
    <3> QED
      BY <2>1, <3>1 DEF Return
  <2>2. ASSUME NEW pc \in {"resume", "release"}, Goto(c, pc),
               pc = "resume" \/ call[c].op = "settle"
        PROVE  \E v \in Call :
                 /\ call' = [call EXCEPT ![c] = v]
                 /\ v.pc # "acquire"
                 /\ \/ v = NoCall
                    \/ /\ v.run = call[c].run /\ v.op = call[c].op
                       /\ v.pc = "resume" \/ call[c].op = "settle"
    <3>1. /\ [call[c] EXCEPT !.pc = pc] \in Call
          /\ [call[c] EXCEPT !.pc = pc].run = call[c].run
          /\ [call[c] EXCEPT !.pc = pc].op = call[c].op
          /\ [call[c] EXCEPT !.pc = pc].pc = pc
      BY DEF IInv, TypeOK, Call, NoCall
    <3> QED
      BY <2>2, <3>1 DEF Goto
  <2> QED
    BY <2>1, <2>2
<1>2. \A d \in Caller : call'[d] = IF d = c THEN v ELSE call[d]
  BY <1>1 DEF IInv, TypeOK
<1>3. ASSUME NEW d \in Caller
      PROVE  GoesOn(d)
  <2>1. CASE d # c
    BY <1>2, <2>1 DEF GoesOn, AtRelease
  <2>2. CASE d = c
    BY <1>1, <1>2, <2>2 DEF GoesOn, AtRelease
  <2> QED
    BY <2>1, <2>2
<1> QED
  BY <1>1, <1>2, <1>3 DEF IInv, TypeOK

\* The requests after a step that leaves the rows alone and drops no entry.
LEMMA CallsKept ==
  ASSUME IInv, TypeOK', row' = row, over' = over,
         \A q \in Run : entry'[q].gen = entry[q].gen,
         \A d \in Caller : GoesOn(d),
         \A d \in Caller : call'[d].pc = "acquire" => call'[d] = call[d]
  PROVE  ReleaseInv' /\ AbsentInv'
<1>1. \A q \in Run : Supervised(q)' <=> Supervised(q)
  BY EntryGen DEF IInv, TypeOK, Supervised
<1>2. ReleaseInv'
  BY ReleasesKept
<1>3. \A q \in Run : ~Held(q) \/ Supervised(q) => (~Held(q) \/ Supervised(q))'
  BY <1>1 DEF Held
<1>4. AbsentInv'
  BY <1>3, AbsenceKept
<1> QED
  BY <1>2, <1>4

\* An entry fails, while a goroutine of its run may end.
LEMMA FailKeeps ==
  ASSUME IInv, NEW r \in Run, NEW l \in [Start -> Loop], FailEntry(r, l),
         \A g \in Start : l[g] = loop[g] \/ (l[g] = NoLoop /\ loop[g].run = r),
         UNCHANGED <<row, started, closed, over, budget>>,
         call' \in [Caller -> Call],
         \A d \in Caller : GoesOn(d),
         \A d \in Caller : call'[d].pc = "acquire" => call'[d] = call[d]
  PROVE  IInv' /\ ServiceStep
<1>1. \A q \in Run : entry[q] \in Entry
  BY DEF IInv, TypeOK
<1>2. /\ loop' \in [Start -> Loop]
      /\ \A g \in Start : loop'[g] # NoLoop => l[g] # NoLoop
      /\ \A g \in Start : loop'[g] = l[g] \/ (Supervised(r) /\ g = entry[r].gen)
  BY CutEffect DEF FailEntry
<1>3. /\ entry' \in [Run -> Entry]
      /\ \A q \in Run : /\ entry'[q].gen = entry[q].gen /\ entry'[q].id = entry[q].id
                        /\ entry'[q].stopping = entry[q].stopping
                        /\ q # r => entry'[q] = entry[q]
      /\ \/ entry' = entry /\ (~Supervised(r) \/ entry[r].failed)
         \/ Supervised(r) /\ ~entry[r].failed /\ entry'[r].failed
  <2>1. CASE Supervised(r) /\ ~entry[r].failed
    <3>1. [entry[r] EXCEPT !.failed = TRUE] \in Entry
      BY <1>1, <2>1, EntryEdit DEF Supervised
    <3>2. entry' = [entry EXCEPT ![r] = [entry[r] EXCEPT !.failed = TRUE]]
      BY <2>1 DEF FailEntry
    <3>3. entry[r] \in [gen : Start, id : Start, left : 0 .. TTL, stopping : BOOLEAN, failed : BOOLEAN]
      BY <1>1, <2>1 DEF Supervised, Entry
    <3> QED
      BY <1>1, <2>1, <3>1, <3>2, <3>3 DEF IInv, TypeOK
  <2>2. CASE ~(Supervised(r) /\ ~entry[r].failed)
    BY <1>1, <2>2 DEF FailEntry, IInv, TypeOK
  <2> QED
    BY <2>1, <2>2
<1>4. TypeOK'
  BY <1>2, <1>3 DEF IInv, TypeOK
<1>5. \A q \in Run : Supervised(q)' <=> Supervised(q)
  BY <1>1, <1>3, <1>4, EntryGen DEF TypeOK, Supervised
<1>6. GenInv'
  <2>1. \A g \in Start : loop'[g] # NoLoop => loop[g] # NoLoop
    BY <1>2
  <2>2. \A q \in Run : entry'[q].gen \in {0, entry[q].gen}
    BY <1>3
  <2> QED
    BY <1>4, <2>1, <2>2, GenKept
<1>7. HealthInv'
  <2> SUFFICES ASSUME NEW q \in Run, Healthy(q)'
               PROVE  Healthy(q) /\ Quiet(q)
    BY HealthKept
  <2>1. q # r /\ Healthy(q)
    BY <1>3, <1>5 DEF Healthy
  <2>2. loop[entry[q].gen].run = q /\ entry[q].gen \in Start
    BY <1>1, <2>1, EntryGen DEF IInv, HealthInv, Sound, Alive, Healthy, Supervised
  <2>3. Supervised(r) => entry[q].gen # entry[r].gen
    BY <2>1 DEF IInv, GenInv
  <2> QED
    BY <1>2, <1>3, <2>1, <2>2, <2>3 DEF Quiet
<1>8. ReleaseInv' /\ AbsentInv'
  BY <1>3, <1>4, CallsKept
<1>9. ServiceStep
  <2>1. \A q \in Run : Held(q)' = Held(q)
    BY DEF Held
  <2>2. CASE entry' = entry
    BY <2>1, <2>2, ServiceStutter DEF Vouched, Supervised
  <2>3. CASE Supervised(r) /\ ~entry[r].failed /\ entry'[r].failed
    <3>1. Vouched(r) \in {"active", "leaving"}
      BY <2>3 DEF Vouched
    <3>2. \A q \in Run : Vouched(q)' = IF q = r THEN "failed" ELSE Vouched(q)
      BY <1>3, <2>3 DEF Vouched, Supervised
    <3> QED
      BY <2>1, <3>1, <3>2, SomeFail
  <2> QED
    BY <1>3, <2>2, <2>3
<1> QED
  BY <1>4, <1>6, <1>7, <1>8, <1>9 DEF IInv

LEMMA DoomKeeps ==
  ASSUME IInv, NEW c \in Caller, Doom(c)
  PROVE  IInv' /\ ServiceStep
<1>1. call[c].pc # "idle" /\ call[c].run \in Run
  BY CallOfRun DEF Doom, IInv
<1>2. Goto(c, "resume") \/ Return(c)
  BY DEF Doom
<1>3. loop \in [Start -> Loop]
  BY DEF IInv, TypeOK
<1>4. /\ call' \in [Caller -> Call]
      /\ \A d \in Caller : GoesOn(d)
      /\ \A d \in Caller : call'[d].pc = "acquire" => call'[d] = call[d]
  BY <1>1, <1>2, CallLeaves
<1> QED
  BY <1>1, <1>3, <1>4, FailKeeps DEF Doom

LEMMA LoopFailsKeeps ==
  ASSUME IInv, NEW g \in Start, LoopFails(g)
  PROVE  IInv' /\ ServiceStep
<1>1. loop \in [Start -> Loop] /\ call \in [Caller -> Call]
  BY DEF IInv, TypeOK
<1>2. loop[g].run \in Run
  BY <1>1, LoopPc DEF LoopFails
<1>3. PICK l \in [Start -> Loop] :
        /\ FailEntry(loop[g].run, l)
        /\ \A j \in Start : l[j] = loop[j] \/ (l[j] = NoLoop /\ loop[j].run = loop[g].run)
  <2>1. PICK l : l = [loop EXCEPT ![g] = NoLoop]
    OBVIOUS
  <2>2. l \in [Start -> Loop] /\ \A j \in Start : l[j] = IF j = g THEN NoLoop ELSE loop[j]
    BY <1>1, <2>1 DEF Loop
  <2>3. FailEntry(loop[g].run, l)
    BY <2>1 DEF LoopFails
  <2> QED
    BY <2>2, <2>3
<1>4. \A d \in Caller : GoesOn(d)
  BY DEF LoopFails, GoesOn, AtRelease
<1> QED
  BY <1>1, <1>2, <1>3, <1>4, FailKeeps DEF LoopFails

-----------------------------------------------------------------------------
(* Goroutines.                                                             *)

\* A goroutine works for no healthy entry but that of its own run.
LEMMA OwnEntry ==
  ASSUME IInv, NEW g \in Start, NEW q \in Run, Healthy(q), entry[q].gen = g
  PROVE  /\ loop[g] # NoLoop /\ loop[g].run = q /\ ~loop[g].cut
         /\ q \notin over =>
              /\ Held(q) /\ row[q].id = entry[q].id
              /\ loop[g].pc \in {"wait", "renewed"} /\ ~loop[g].due => row[q].left > 1
BY DEF IInv, HealthInv, Sound, Alive, Paced

\* A step of a goroutine that leaves the rows' owners alone drops no entry.
LEMMA LoopFrame ==
  ASSUME IInv, TypeOK', call' = call, over' = over,
         \A q \in Run : entry'[q].gen = entry[q].gen /\ row'[q].id = row[q].id
  PROVE  ReleaseInv' /\ AbsentInv'
<1>1. \A q \in Run : Supervised(q)' <=> Supervised(q)
  BY EntryGen DEF IInv, TypeOK, Supervised
<1>2. \A q \in Run : Held(q)' <=> Held(q)
  BY RowId DEF IInv, TypeOK, Held
<1>3. \A d \in Caller : GoesOn(d)
  BY DEF GoesOn, AtRelease
<1>4. ReleaseInv'
  BY <1>3, ReleasesKept
<1>5. AbsentInv'
  BY <1>1, <1>2, AbsenceKept
<1> QED
  BY <1>4, <1>5

LEMMA LoopMoves ==
  ASSUME IInv, NEW g \in Start, loop[g] # NoLoop,
         NEW l \in Loop, loop' = [loop EXCEPT ![g] = l],
         UNCHANGED <<row, entry, call, started, closed, over>>,
         budget' \in [crash : 0 .. MaxCrashes, fault : 0 .. MaxFaults],
         \A q \in Run : Healthy(q) /\ entry[q].gen = g =>
           l # NoLoop /\ l.run = q /\ ~l.cut /\ l.pc \in {"renew", "refused"}
  PROVE  IInv' /\ ServiceStep
<1>1. TypeOK' /\ loop \in [Start -> Loop]
  BY DEF IInv, TypeOK
<1>2. GenInv'
  <2>1. \A j \in Start : loop'[j] # NoLoop => loop[j] # NoLoop
    BY <1>1
  <2> QED
    BY <1>1, <2>1, GenKept
<1>3. HealthInv'
  <2> SUFFICES ASSUME NEW q \in Run, Healthy(q)'
               PROVE  (Healthy(q) /\ Quiet(q)) \/ Sound(q)'
    BY HealthKept
  <2>1. Healthy(q)
    BY DEF Healthy, Supervised
  <2>2. CASE entry[q].gen = g
    <3>1. q \notin over => Held(q) /\ row[q].id = entry[q].id
      BY <2>1 DEF IInv, HealthInv, Sound
    <3>2. loop'[entry'[q].gen] = l
      BY <1>1, <2>2
    <3>3. l # NoLoop /\ l.run = q /\ ~l.cut /\ l.pc \in {"renew", "refused"}
      BY <2>1, <2>2
    <3>4. Alive(q)' /\ Paced(q)'
      BY <3>2, <3>3 DEF Alive, Paced
    <3> QED
      BY <3>1, <3>4 DEF Held, Sound
  <2>3. CASE entry[q].gen # g
    BY <1>1, <2>1, <2>3 DEF Quiet
  <2> QED
    BY <2>2, <2>3
<1>4. ReleaseInv' /\ AbsentInv'
  BY <1>1, LoopFrame
<1>5. ServiceStep
  BY ServiceStutter DEF Held, Vouched, Supervised
<1> QED
  BY <1>1, <1>2, <1>3, <1>4, <1>5 DEF IInv

LEMMA LoopStopsKeeps ==
  ASSUME IInv, NEW g \in Start, LoopStops(g)
  PROVE  IInv' /\ ServiceStep
<1>1. loop[g] # NoLoop /\ loop[g].cut /\ loop' = [loop EXCEPT ![g] = NoLoop]
  BY DEF LoopStops, Ends, NoLoop
<1>2. NoLoop \in Loop
  BY DEF Loop
<1>3. \A q \in Run : ~(Healthy(q) /\ entry[q].gen = g)
  BY <1>1, OwnEntry
<1>4. budget' \in [crash : 0 .. MaxCrashes, fault : 0 .. MaxFaults]
  BY DEF IInv, TypeOK, LoopStops
<1>5. UNCHANGED <<row, entry, call, started, closed, over>>
  BY DEF LoopStops
<1> QED
  BY <1>1, <1>2, <1>3, <1>4, <1>5, LoopMoves

LEMMA LoopTakesKeeps ==
  ASSUME IInv, NEW g \in Start, LoopTakes(g)
  PROVE  IInv' /\ ServiceStep
<1>1. loop[g] # NoLoop /\ loop[g].pc = "wait" /\ loop[g] \in Loop
  BY DEF LoopTakes, NoLoop, IInv, TypeOK
<1>2. UNCHANGED <<row, entry, call, started, closed, over>>
  BY DEF LoopTakes
<1>3. budget' \in [crash : 0 .. MaxCrashes, fault : 0 .. MaxFaults]
  BY DEF IInv, TypeOK, LoopTakes
<1>4. CASE Healthy(loop[g].run) /\ entry[loop[g].run].gen = g
  <2>1. loop[g].run \in Run
    BY <1>1, LoopPc
  <2>2. PICK n \in 0 .. TTL : n = entry[loop[g].run].left
    BY <2>1, EntryGen DEF IInv, TypeOK
  <2>3. PICK l \in Loop : l = [loop[g] EXCEPT !.pc = "renew", !.due = FALSE, !.left = n]
    BY <1>1, LoopEdit
  <2>4. loop' = [loop EXCEPT ![g] = l]
    BY <1>4, <2>2, <2>3 DEF LoopTakes
  <2>5. l.pc = "renew" /\ l.run = loop[g].run /\ l.cut = loop[g].cut /\ l # NoLoop
    BY <1>1, <2>3 DEF Loop, NoLoop
  <2>6. \A q \in Run : Healthy(q) /\ entry[q].gen = g =>
           l # NoLoop /\ l.run = q /\ ~l.cut /\ l.pc \in {"renew", "refused"}
    BY <2>5, OwnEntry
  <2> QED
    BY <1>1, <1>2, <1>3, <2>4, <2>6, LoopMoves
<1>5. CASE ~(Healthy(loop[g].run) /\ entry[loop[g].run].gen = g)
  <2>1. loop' = [loop EXCEPT ![g] = NoLoop]
    BY <1>5 DEF LoopTakes, Ends
  <2>2. NoLoop \in Loop
    BY DEF Loop
  <2>3. \A q \in Run : ~(Healthy(q) /\ entry[q].gen = g)
    BY <1>5, OwnEntry
  <2> QED
    BY <1>1, <1>2, <1>3, <2>1, <2>2, <2>3, LoopMoves
<1> QED
  BY <1>4, <1>5

LEMMA LoopRefusedKeeps ==
  ASSUME IInv, NEW g \in Start, LoopRefused(g)
  PROVE  IInv' /\ ServiceStep
<1>1. loop[g] # NoLoop /\ loop[g] \in Loop
  BY DEF LoopRefused, NoLoop, IInv, TypeOK
<1>2. UNCHANGED <<row, entry, call, started, closed, over>>
  BY DEF LoopRefused
<1>3. budget' \in [crash : 0 .. MaxCrashes, fault : 0 .. MaxFaults]
  BY Budgets DEF IInv, LoopRefused
<1>4. CASE loop[g].cut
  <2>1. loop' = [loop EXCEPT ![g] = NoLoop]
    BY <1>4 DEF LoopRefused, Ends
  <2>2. NoLoop \in Loop
    BY DEF Loop
  <2>3. \A q \in Run : ~(Healthy(q) /\ entry[q].gen = g)
    BY <1>4, OwnEntry
  <2> QED
    BY <1>1, <1>2, <1>3, <2>1, <2>2, <2>3, LoopMoves
<1>5. CASE ~loop[g].cut
  <2>1. 0 \in 0 .. TTL
    OBVIOUS
  <2>2. PICK l \in Loop : l = [loop[g] EXCEPT !.pc = "refused", !.left = 0]
    BY <1>1, <2>1, LoopEdit
  <2>3. loop' = [loop EXCEPT ![g] = l]
    BY <1>5, <2>2 DEF LoopRefused
  <2>4. l.pc = "refused" /\ l.run = loop[g].run /\ l.cut = loop[g].cut /\ l # NoLoop
    BY <1>1, <2>2 DEF Loop, NoLoop
  <2>5. \A q \in Run : Healthy(q) /\ entry[q].gen = g =>
           l # NoLoop /\ l.run = q /\ ~l.cut /\ l.pc \in {"renew", "refused"}
    BY <2>4, OwnEntry
  <2> QED
    BY <1>1, <1>2, <1>3, <2>3, <2>5, LoopMoves
<1> QED
  BY <1>4, <1>5

LEMMA RowEdit ==
  ASSUME NEW w \in Row, w # NoRow
  PROVE  \A n \in 1 .. TTL : /\ [w EXCEPT !.left = n] \in Row
                             /\ [w EXCEPT !.left = n].id = w.id
                             /\ [w EXCEPT !.left = n].left = n
BY DEF Row

LEMMA LoopRenewsKeeps ==
  ASSUME IInv, NEW g \in Start, LoopRenews(g)
  PROVE  IInv' /\ ServiceStep
<1>1. loop[g] # NoLoop /\ loop[g] \in Loop /\ loop \in [Start -> Loop]
  BY DEF LoopRenews, NoLoop, IInv, TypeOK
<1>2. PICK r \in Run : r = loop[g].run
  BY <1>1, LoopPc
<1>3. row[r] \in Row /\ row[r] # NoRow /\ row \in [Run -> Row]
  BY <1>1, <1>2, LoopPc DEF LoopRenews, Fresh, IInv, TypeOK, NoRow, Start
<1>4. TTL \in 1 .. TTL /\ TTL \in 0 .. TTL
  OBVIOUS
<1>5. PICK w \in Row : w = [row[r] EXCEPT !.left = TTL] /\ w.id = row[r].id /\ w.left = TTL
  BY <1>3, <1>4, RowEdit
<1>6. row' = [row EXCEPT ![r] = w]
  BY <1>2, <1>5 DEF LoopRenews
<1>7. PICK l \in Loop : l = [loop[g] EXCEPT !.pc = "renewed", !.left = TTL]
  BY <1>1, <1>4, LoopEdit
<1>8. loop' = [loop EXCEPT ![g] = l]
  BY <1>7 DEF LoopRenews
<1>9. l.pc = "renewed" /\ l.run = r /\ l.cut = loop[g].cut /\ l # NoLoop
  BY <1>1, <1>2, <1>7 DEF Loop, NoLoop
<1>10. \A q \in Run : row'[q].id = row[q].id /\ (q # r => row'[q] = row[q])
  BY <1>3, <1>5, <1>6
<1>11. TypeOK'
  <2>1. row' \in [Run -> Row]
    BY <1>3, <1>6
  <2>2. loop' \in [Start -> Loop]
    BY <1>1, <1>8
  <2>3. UNCHANGED <<entry, call, started, closed, over, budget>>
    BY DEF LoopRenews
  <2> QED
    BY <2>1, <2>2, <2>3 DEF IInv, TypeOK
<1>12. GenInv'
  BY <1>1, <1>8, <1>11, GenKept DEF LoopRenews
<1>13. \A q \in Run : Held(q)' = Held(q)
  BY <1>10, <1>11, RowId DEF IInv, TypeOK, Held
<1>14. HealthInv'
  <2> SUFFICES ASSUME NEW q \in Run, Healthy(q)'
               PROVE  (Healthy(q) /\ Quiet(q)) \/ Sound(q)'
    BY HealthKept DEF LoopRenews
  <2>0. over' = over
    BY DEF LoopRenews
  <2>1. Healthy(q) /\ entry' = entry
    BY DEF Healthy, Supervised, LoopRenews
  <2>2. CASE q = r
    <3>1. q \notin over => (Held(q) /\ row[q].id = entry[q].id)'
      BY <1>10, <1>13, <2>1 DEF IInv, HealthInv, Sound
    <3>2. row'[q].left = TTL
      BY <1>3, <1>5, <1>6, <2>2
    <3>3. CASE entry[q].gen = g
      <4>1. loop'[entry'[q].gen] = l /\ ~l.cut /\ l.run = q
        BY <1>1, <1>8, <1>9, <2>1, <2>2, <3>3, OwnEntry
      <4> QED
        BY <1>9, <2>0, <3>1, <3>2, <4>1 DEF Alive, Paced, Sound
    <3>4. CASE entry[q].gen # g
      <4>1. loop'[entry'[q].gen] = loop[entry[q].gen]
        BY <1>1, <1>8, <2>1, <3>4
      <4>2. loop[entry[q].gen] # NoLoop /\ loop[entry[q].gen].run = q /\ ~loop[entry[q].gen].cut
        BY <2>1 DEF IInv, HealthInv, Sound, Alive
      <4> QED
        BY <2>0, <3>1, <3>2, <4>1, <4>2 DEF Alive, Paced, Sound
    <3> QED
      BY <3>3, <3>4
  <2>3. CASE q # r
    <3>1. entry[q].gen # g
      BY <1>2, <2>1, <2>3, OwnEntry
    <3> QED
      BY <1>1, <1>8, <1>10, <2>1, <2>3, <3>1 DEF Quiet
  <2> QED
    BY <2>2, <2>3
<1>15. ReleaseInv' /\ AbsentInv'
  BY <1>10, <1>11, LoopFrame DEF LoopRenews
<1>16. ServiceStep
  <2>1. \A q \in Run : Vouched(q)' = Vouched(q)
    BY DEF Vouched, Supervised, LoopRenews
  <2>2. over' = over
    BY DEF LoopRenews
  <2> QED
    BY <1>13, <2>1, <2>2, ServiceStutter
<1> QED
  BY <1>11, <1>12, <1>14, <1>15, <1>16 DEF IInv

\* An entry takes over what is known of its lease.
LEMMA LeftEffect ==
  ASSUME TypeOK, NEW r \in Run, Supervised(r), NEW n \in 0 .. TTL,
         entry' = [entry EXCEPT ![r].left = n]
  PROVE  /\ entry' \in [Run -> Entry]
         /\ \A q \in Run : /\ entry'[q].gen = entry[q].gen /\ entry'[q].id = entry[q].id
                           /\ entry'[q].stopping = entry[q].stopping
                           /\ entry'[q].failed = entry[q].failed
<1>1. entry[r] \in [gen : Start, id : Start, left : 0 .. TTL, stopping : BOOLEAN, failed : BOOLEAN]
  BY DEF Supervised, TypeOK, Entry
<1>2. [entry[r] EXCEPT !.left = n] \in Entry
  BY EntryEdit DEF Supervised, TypeOK
<1> QED
  BY <1>1, <1>2 DEF TypeOK

\* Such a step shows nothing to the runs.
LEMMA LeftKeeps ==
  ASSUME IInv, TypeOK', UNCHANGED <<row, started, over>>,
         \A q \in Run : /\ entry'[q].gen = entry[q].gen /\ entry'[q].id = entry[q].id
                        /\ entry'[q].stopping = entry[q].stopping
                        /\ entry'[q].failed = entry[q].failed,
         \A g \in Start : \/ loop'[g] = loop[g]
                          \/ /\ loop[g].pc = "renewed" /\ loop'[g].pc = "wait"
                             /\ loop'[g].run = loop[g].run /\ loop'[g].due = loop[g].due
                             /\ loop'[g].cut = loop[g].cut
  PROVE  GenInv' /\ HealthInv' /\ ServiceStep
<1>1. \A q \in Run : Supervised(q)' <=> Supervised(q)
  BY EntryGen DEF IInv, TypeOK, Supervised
<1>2. \A g \in Start : loop'[g] # NoLoop => loop[g] # NoLoop
  BY DEF NoLoop
<1>3. GenInv'
  BY <1>2, GenKept
<1>4. HealthInv'
  <2> SUFFICES ASSUME NEW q \in Run, Healthy(q)'
               PROVE  (Healthy(q) /\ Quiet(q)) \/ Sound(q)'
    BY HealthKept
  <2>1. Healthy(q)
    BY <1>1 DEF Healthy
  <2>2. PICK g \in Start : g = entry[q].gen
    BY <2>1, EntryGen DEF IInv, TypeOK, Healthy, Supervised
  <2>3. CASE loop'[g] = loop[g]
    BY <2>1, <2>2, <2>3 DEF Quiet
  <2>4. CASE /\ loop[g].pc = "renewed" /\ loop'[g].pc = "wait"
             /\ loop'[g].run = loop[g].run /\ loop'[g].due = loop[g].due
             /\ loop'[g].cut = loop[g].cut
    <3>1. loop[g].run = q /\ ~loop[g].cut
      BY <2>1, <2>2, OwnEntry
    <3>2. q \notin over => /\ Held(q) /\ row[q].id = entry[q].id
                           /\ ~loop[g].due => row[q].left > 1
      BY <2>1, <2>2, <2>4, OwnEntry
    <3>3. loop'[g] # NoLoop /\ entry'[q].gen = g
      BY <2>2, <2>4 DEF NoLoop
    <3>4. Alive(q)'
      BY <2>4, <3>1, <3>3 DEF Alive
    <3>5. q \notin over => (Held(q) /\ row[q].id = entry[q].id /\ Paced(q))'
      BY <2>4, <3>2, <3>3 DEF Paced, Held
    <3> QED
      BY <3>4, <3>5 DEF Sound
  <2> QED
    BY <2>3, <2>4
<1>5. ServiceStep
  <2>1. \A q \in Run : Vouched(q)' = Vouched(q)
    BY <1>1 DEF Vouched
  <2> QED
    BY <2>1, ServiceStutter DEF Held
<1> QED
  BY <1>3, <1>4, <1>5

LEMMA LoopAdoptsKeeps ==
  ASSUME IInv, NEW g \in Start, LoopAdopts(g)
  PROVE  IInv' /\ ServiceStep
<1>1. /\ loop[g] # NoLoop /\ loop[g] \in Loop /\ loop \in [Start -> Loop]
      /\ entry \in [Run -> Entry]
  BY DEF LoopAdopts, NoLoop, IInv, TypeOK
<1>2. PICK r \in Run, n \in 0 .. TTL : r = loop[g].run /\ n = loop[g].left
  BY <1>1, LoopPc
<1>3. /\ entry' \in [Run -> Entry]
      /\ \A q \in Run : /\ entry'[q].gen = entry[q].gen /\ entry'[q].id = entry[q].id
                        /\ entry'[q].stopping = entry[q].stopping
                        /\ entry'[q].failed = entry[q].failed
  <2>1. CASE entry' = entry
    BY <1>1, <2>1
  <2>2. CASE Supervised(r) /\ entry' = [entry EXCEPT ![r].left = n]
    BY <2>2, LeftEffect DEF IInv
  <2> QED
    BY <1>2, <2>1, <2>2 DEF LoopAdopts, Healthy
<1>4. 0 \in 0 .. TTL
  OBVIOUS
<1>5. PICK l \in Loop : l = [loop[g] EXCEPT !.pc = "wait", !.left = 0]
  BY <1>1, <1>4, LoopEdit
<1>6. loop' = [loop EXCEPT ![g] = l]
  BY <1>5 DEF LoopAdopts
<1>7. /\ l.pc = "wait" /\ l.run = loop[g].run /\ l.due = loop[g].due /\ l.cut = loop[g].cut
      /\ loop[g].pc = "renewed"
  BY <1>1, <1>5 DEF Loop, LoopAdopts
<1>8. UNCHANGED <<row, call, started, closed, over, budget>>
  BY DEF LoopAdopts
<1>9. TypeOK'
  <2>1. loop' \in [Start -> Loop]
    BY <1>1, <1>6
  <2> QED
    BY <1>3, <1>8, <2>1 DEF IInv, TypeOK
<1>10. \A j \in Start : \/ loop'[j] = loop[j]
                        \/ /\ loop[j].pc = "renewed" /\ loop'[j].pc = "wait"
                           /\ loop'[j].run = loop[j].run /\ loop'[j].due = loop[j].due
                           /\ loop'[j].cut = loop[j].cut
  BY <1>1, <1>6, <1>7
<1>11. GenInv' /\ HealthInv' /\ ServiceStep
  BY <1>3, <1>8, <1>9, <1>10, LeftKeeps
<1>12. ReleaseInv' /\ AbsentInv'
  BY <1>3, <1>8, <1>9, LoopFrame
<1> QED
  BY <1>9, <1>11, <1>12 DEF IInv

LEMMA AdoptKeeps ==
  ASSUME IInv, NEW c \in Caller, Adopt(c)
  PROVE  IInv' /\ ServiceStep
<1>1. call[c].pc # "idle" /\ entry \in [Run -> Entry] /\ call[c] \in Call
  BY DEF IInv, TypeOK, Adopt
<1>2. PICK r \in Run, n \in 0 .. TTL : r = call[c].run /\ n = call[c].left
  BY <1>1 DEF Call, NoCall
<1>3. /\ entry' \in [Run -> Entry]
      /\ \A q \in Run : /\ entry'[q].gen = entry[q].gen /\ entry'[q].id = entry[q].id
                        /\ entry'[q].stopping = entry[q].stopping
                        /\ entry'[q].failed = entry[q].failed
  <2>1. CASE entry' = entry
    BY <1>1, <2>1
  <2>2. CASE Supervised(r) /\ entry' = [entry EXCEPT ![r].left = n]
    BY <2>2, LeftEffect DEF IInv
  <2> QED
    BY <1>2, <2>1, <2>2 DEF Adopt
<1>4. UNCHANGED <<row, loop, started, closed, over, budget>>
  BY DEF Adopt
<1>5. Goto(c, "resume") \/ Return(c)
  BY DEF Adopt
<1>6. /\ call' \in [Caller -> Call]
      /\ \A d \in Caller : GoesOn(d)
      /\ \A d \in Caller : call'[d].pc = "acquire" => call'[d] = call[d]
  BY <1>1, <1>5, CallLeaves
<1>7. TypeOK'
  BY <1>3, <1>4, <1>6 DEF IInv, TypeOK
<1>8. GenInv' /\ HealthInv' /\ ServiceStep
  BY <1>3, <1>4, <1>7, LeftKeeps
<1>9. ReleaseInv' /\ AbsentInv'
  BY <1>3, <1>4, <1>6, <1>7, CallsKept
<1> QED
  BY <1>7, <1>8, <1>9 DEF IInv

-----------------------------------------------------------------------------
(* A new entry.                                                            *)

\* What startLocked leaves: an entry and a goroutine that are the youngest.
LEMMA StartEffect ==
  ASSUME IInv, NEW r \in Run, NEW id \in Start, NEW left \in 0 .. TTL,
         StartEntry(r, id, left)
  PROVE  /\ started + 1 \in Start /\ started' = started + 1
         /\ entry' \in [Run -> Entry] /\ loop' \in [Start -> Loop]
         /\ \A q \in Run : q # r => entry'[q] = entry[q]
         /\ \A g \in Start : g # started + 1 => loop'[g] = loop[g]
         /\ entry'[r].gen = started + 1 /\ entry'[r].id = id
         /\ ~entry'[r].stopping /\ ~entry'[r].failed
         /\ loop'[started + 1].pc = "wait" /\ loop'[started + 1].run = r
         /\ ~loop'[started + 1].cut
<1>1. /\ started + 1 \in Start /\ entry \in [Run -> Entry] /\ loop \in [Start -> Loop]
  BY DEF StartEntry, Start, IInv, TypeOK
<1>2. PICK e \in Entry : /\ e = [gen |-> started + 1, id |-> id, left |-> left,
                                 stopping |-> FALSE, failed |-> FALSE]
                         /\ e.gen = started + 1 /\ e.id = id /\ ~e.stopping /\ ~e.failed
  <2>1. \A k \in Start : [gen |-> k, id |-> id, left |-> left,
                          stopping |-> FALSE, failed |-> FALSE] \in Entry
    BY DEF Entry
  <2> QED
    BY <1>1, <2>1
<1>3. PICK l \in Loop : /\ l = [pc |-> "wait", run |-> r, id |-> id, left |-> 0,
                                due |-> FALSE, cut |-> FALSE]
                        /\ l.pc = "wait" /\ l.run = r /\ ~l.cut
  <2>1. PICK l : l = [pc |-> "wait", run |-> r, id |-> id, left |-> 0,
                      due |-> FALSE, cut |-> FALSE]
    OBVIOUS
  <2>2. 0 \in 0 .. TTL /\ FALSE \in BOOLEAN
    OBVIOUS
  <2>3. l \in [pc : {"wait", "renew", "renewed", "refused"}, run : Run, id : Start,
               left : 0 .. TTL, due : BOOLEAN, cut : BOOLEAN]
    BY <2>1, <2>2, Zenon
  <2>4. l.pc = "wait" /\ l.run = r /\ ~l.cut
    BY <2>1
  <2> QED
    BY <2>1, <2>3, <2>4 DEF Loop
<1>4. entry' = [entry EXCEPT ![r] = e] /\ loop' = [loop EXCEPT ![started + 1] = l]
  BY <1>2, <1>3 DEF StartEntry
<1>5. started' = started + 1
  BY DEF StartEntry
<1> QED
  BY <1>1, <1>2, <1>3, <1>4, <1>5

LEMMA StartKeeps ==
  ASSUME IInv, NEW r \in Run, ~Supervised(r), Held(r) \/ Free(r),
         NEW id \in Start, NEW left \in 1 .. TTL, StartEntry(r, id, left),
         row' \in [Run -> Row], row'[r].id = id, r \notin over => row'[r].left > 1,
         \A q \in Run : q # r => row'[q] = row[q],
         UNCHANGED <<closed, over, budget>>,
         call' \in [Caller -> Call],
         \A d \in Caller : GoesOn(d),
         \A d \in Caller : call'[d].pc = "acquire" => call'[d] = call[d]
  PROVE  IInv' /\ ServiceStep
<1>0. left \in 0 .. TTL /\ started \in Nat
  BY DEF IInv, TypeOK
<1>1. /\ started + 1 \in Start /\ started' = started + 1
      /\ entry' \in [Run -> Entry] /\ loop' \in [Start -> Loop]
      /\ \A q \in Run : q # r => entry'[q] = entry[q]
      /\ \A g \in Start : g # started + 1 => loop'[g] = loop[g]
      /\ entry'[r].gen = started + 1 /\ entry'[r].id = id
      /\ ~entry'[r].stopping /\ ~entry'[r].failed
      /\ loop'[started + 1].pc = "wait" /\ loop'[started + 1].run = r
      /\ ~loop'[started + 1].cut
  BY <1>0, StartEffect
<1>2. TypeOK'
  BY <1>1 DEF IInv, TypeOK, Start
<1>3. \A q \in Run : entry[q] \in Entry /\ entry'[q] \in Entry /\ row[q] \in Row /\ row'[q] \in Row
  BY <1>1 DEF IInv, TypeOK
<1>4. \A q \in Run : Supervised(q)' = (Supervised(q) \/ q = r)
  BY <1>0, <1>1, <1>3, EntryGen DEF Supervised
<1>5. \A q \in Run : Held(q)' = (Held(q) \/ q = r)
  BY <1>3, RowId DEF Held, Start
<1>6. GenInv'
  <2>1. ASSUME NEW q \in Run
        PROVE  entry'[q].gen <= started'
    <3>1. entry[q].gen \in Nat
      BY <1>3, EntryGen DEF Start
    <3>2. entry[q].gen <= started
      BY DEF IInv, GenInv
    <3>3. entry'[q].gen \in {entry[q].gen, started + 1}
      BY <1>1
    <3> QED
      BY <1>0, <1>1, <3>1, <3>2, <3>3
  <2>2. \A g \in Start : loop'[g] # NoLoop => g <= started'
    BY <1>0, <1>1 DEF IInv, GenInv, Start
  <2>3. ASSUME NEW p \in Run, NEW q \in Run, Supervised(p)', entry'[q].gen = entry'[p].gen
        PROVE  q = p
    <3>1. entry[p].gen # started + 1 /\ entry[q].gen # started + 1
      BY <1>0, <1>3, EntryGen DEF IInv, GenInv, Start
    <3>2. CASE p = r \/ q = r
      BY <1>1, <2>3, <3>1, <3>2
    <3>3. CASE p # r /\ q # r
      BY <1>1, <1>4, <2>3, <3>3 DEF IInv, GenInv
    <3> QED
      BY <3>2, <3>3
  <2> QED
    BY <2>1, <2>2, <2>3 DEF GenInv
<1>7. HealthInv'
  <2> SUFFICES ASSUME NEW q \in Run, Healthy(q)'
               PROVE  (Healthy(q) /\ Quiet(q)) \/ Sound(q)'
    BY HealthKept
  <2>1. CASE q = r
    <3>1. loop'[entry'[q].gen] = loop'[started + 1] /\ loop'[started + 1] # NoLoop
      BY <1>1, <2>1 DEF NoLoop
    <3>2. Alive(q)'
      BY <1>1, <2>1, <3>1 DEF Alive
    <3>3. q \notin over => (Held(q) /\ row[q].id = entry[q].id /\ Paced(q))'
      BY <1>1, <1>5, <2>1 DEF Paced
    <3> QED
      BY <3>2, <3>3 DEF Sound
  <2>2. CASE q # r
    <3>1. Healthy(q) /\ entry[q].gen \in Start /\ entry[q].gen # started + 1
      BY <1>0, <1>1, <1>3, <2>2, EntryGen DEF Healthy, Supervised, IInv, GenInv, Start
    <3> QED
      BY <1>1, <2>2, <3>1 DEF Quiet
  <2> QED
    BY <2>1, <2>2
<1>9. ReleaseInv'
  BY ReleasesKept
<1>10. AbsentInv'
  <2>1. \A q \in Run : ~Held(q) \/ Supervised(q) => (~Held(q) \/ Supervised(q))'
    BY <1>4, <1>5
  <2> QED
    BY <2>1, AbsenceKept
<1>11. ServiceStep
  <2>1. Vouched(r) = "none"
    BY <1>3, EntryGen DEF Vouched, Supervised
  <2>2. \A q \in Run : Vouched(q)' = IF q = r THEN "active" ELSE Vouched(q)
    BY <1>1, <1>4 DEF Vouched
  <2> QED
    BY <1>5, <2>1, <2>2, SomeTake
<1> QED
  BY <1>2, <1>6, <1>7, <1>9, <1>10, <1>11 DEF IInv

LEMMA ResumeStoredKeeps ==
  ASSUME IInv, NEW c \in Caller, ResumeStored(c)
  PROVE  IInv' /\ ServiceStep
<1>1. call[c].pc # "idle" /\ row \in [Run -> Row]
  BY DEF IInv, TypeOK, ResumeStored
<1>2. PICK r \in Run : r = call[c].run
  BY <1>1, CallOfRun DEF IInv
<1>3. /\ ~Supervised(r) /\ Held(r)
      /\ StartEntry(r, row[r].id, TTL)
      /\ row' = [row EXCEPT ![r].left = TTL]
      /\ UNCHANGED <<closed, over, budget>>
  BY <1>2 DEF ResumeStored
<1>4. row[r] \in Row /\ row[r] # NoRow /\ row[r].id \in Start /\ TTL \in 1 .. TTL
  BY <1>1, <1>3, RowId DEF Held
<1>5. PICK w \in Row : w = [row[r] EXCEPT !.left = TTL] /\ w.id = row[r].id /\ w.left = TTL
  BY <1>4, RowEdit
<1>6. row' = [row EXCEPT ![r] = w]
  BY <1>3, <1>5
<1>7. /\ row' \in [Run -> Row] /\ row'[r].id = row[r].id /\ row'[r].left > 1
      /\ \A q \in Run : q # r => row'[q] = row[q]
  BY <1>1, <1>5, <1>6
<1>8. (Goto(c, "release") /\ call[c].op = "settle") \/ Return(c)
  BY DEF ResumeStored, Answered
<1>9. /\ call' \in [Caller -> Call]
      /\ \A d \in Caller : GoesOn(d)
      /\ \A d \in Caller : call'[d].pc = "acquire" => call'[d] = call[d]
  BY <1>1, <1>8, CallLeaves
<1> QED
  BY <1>3, <1>4, <1>7, <1>9, StartKeeps

LEMMA AcquireKeeps ==
  ASSUME IInv, NEW c \in Caller, Acquire(c)
  PROVE  IInv' /\ ServiceStep
<1>1. call[c].pc = "acquire" /\ row \in [Run -> Row] /\ started \in Nat
  BY DEF IInv, TypeOK, Acquire
<1>2. PICK r \in Run : r = call[c].run
  BY <1>1, CallOfRun DEF IInv
<1>3. ~Supervised(r) /\ (r \in over \/ ~Held(r))
  BY <1>1, <1>2 DEF Acquire, IInv, AbsentInv
<1>4. /\ Held(r) \/ Free(r)
      /\ row' = IF Held(r) THEN row
                ELSE [row EXCEPT ![r] = [id |-> started + 1, left |-> TTL]]
      /\ StartEntry(r, row'[r].id, row'[r].left)
      /\ UNCHANGED <<closed, over, budget>>
  BY <1>2 DEF Acquire
<1>5. started + 1 \in Start /\ TTL \in 1 .. TTL
  BY <1>1, <1>4 DEF StartEntry, Start, IInv, TypeOK
<1>6. /\ row' \in [Run -> Row] /\ row'[r] # NoRow
      /\ r \notin over => row'[r].left > 1
      /\ \A q \in Run : q # r => row'[q] = row[q]
  <2>1. CASE Held(r)
    BY <1>1, <1>3, <1>4, <2>1 DEF Held
  <2>2. CASE ~Held(r)
    <3>1. PICK w : w = [id |-> started + 1, left |-> TTL]
      OBVIOUS
    <3>2. w \in Row /\ w.id = started + 1 /\ w.left = TTL
      <4>1. \A k \in Start : [id |-> k, left |-> TTL] \in Row
        BY <1>5 DEF Row
      <4> QED
        BY <1>5, <3>1, <4>1
    <3>3. row' = [row EXCEPT ![r] = w]
      BY <1>4, <2>2, <3>1
    <3>4. w # NoRow
      BY <1>1, <3>2 DEF NoRow
    <3> QED
      BY <1>1, <3>2, <3>3, <3>4
  <2> QED
    BY <2>1, <2>2
<1>7. row'[r].id \in Start /\ row'[r].left \in 1 .. TTL
  BY <1>6, RowId
<1>8. Return(c)
  BY DEF Acquire
<1>9. /\ call' \in [Caller -> Call]
      /\ \A d \in Caller : GoesOn(d)
      /\ \A d \in Caller : call'[d].pc = "acquire" => call'[d] = call[d]
  BY <1>1, <1>8, CallLeaves
<1> QED
  BY <1>3, <1>4, <1>6, <1>7, <1>9, StartKeeps

-----------------------------------------------------------------------------
(* The steps of a release.                                                 *)

LEMMA DrainCall ==
  ASSUME NEW r \in Run, NEW op \in {"settle", "release"}, NEW e \in Entry, e # NoEntry
  PROVE  [pc |-> "drain", op |-> op, run |-> r, gen |-> e.gen, id |-> e.id, left |-> 0] \in Call
<1>1. e.gen \in 0 .. MaxStarts /\ e.id \in 0 .. MaxStarts /\ 0 \in 0 .. TTL
  BY EntryGen DEF Start
<1> QED
  BY <1>1 DEF Call

LEMMA StopKeeps ==
  ASSUME IInv, NEW c \in Caller, NEW op \in {"settle", "release"}, NEW r \in over,
         StopRenewal(c, op, r)
  PROVE  IInv' /\ ServiceStep
<1>0. r \in Run
  BY DEF IInv, TypeOK
<1>1. /\ entry \in [Run -> Entry] /\ loop \in [Start -> Loop] /\ call \in [Caller -> Call]
      /\ entry[r] \in Entry /\ entry[r] # NoEntry /\ ~entry[r].failed
  BY <1>0 DEF StopRenewal, Supervised, IInv, TypeOK
<1>2. PICK v \in Call : call' = [call EXCEPT ![c] = v] /\ v.run = r /\ v.pc = "drain"
  <2>1. PICK v : v = [pc |-> "drain", op |-> op, run |-> r,
                      gen |-> entry[r].gen, id |-> entry[r].id, left |-> 0]
    OBVIOUS
  <2>2. v \in Call
    BY <1>0, <1>1, <2>1, DrainCall
  <2>3. v.run = r /\ v.pc = "drain"
    BY <2>1
  <2>4. call' = [call EXCEPT ![c] = v]
    BY <2>1 DEF StopRenewal
  <2> QED
    BY <2>2, <2>3, <2>4
<1>3. \A d \in Caller : call'[d] = IF d = c THEN v ELSE call[d]
  BY <1>1, <1>2
<1>4. /\ loop' \in [Start -> Loop]
      /\ \A g \in Start : /\ loop'[g] # NoLoop => loop[g] # NoLoop
                          /\ g # entry[r].gen => loop'[g] = loop[g]
  BY <1>0, <1>1, CutEffect DEF StopRenewal, Supervised
<1>5. /\ entry' \in [Run -> Entry]
      /\ \A q \in Run : /\ entry'[q].gen = entry[q].gen /\ entry'[q].id = entry[q].id
                        /\ q # r => entry'[q] = entry[q]
      /\ entry'[r].stopping
  <2>1. PICK e \in Entry : e = [entry[r] EXCEPT !.stopping = TRUE]
    BY <1>1, EntryEdit
  <2>2. entry' = [entry EXCEPT ![r] = e]
    BY <2>1 DEF StopRenewal
  <2>3. e.gen = entry[r].gen /\ e.id = entry[r].id /\ e.stopping
    BY <1>1, <2>1 DEF Entry
  <2> QED
    BY <1>0, <1>1, <2>2, <2>3
<1>6. UNCHANGED <<row, started, closed, over, budget>>
  BY DEF StopRenewal
<1>7. TypeOK'
  BY <1>1, <1>2, <1>4, <1>5, <1>6 DEF IInv, TypeOK
<1>8. \A q \in Run : Supervised(q)' <=> Supervised(q)
  BY <1>5, <1>7, EntryGen DEF IInv, TypeOK, Supervised
<1>9. GenInv'
  BY <1>4, <1>5, <1>6, <1>7, GenKept
<1>10. HealthInv'
  <2> SUFFICES ASSUME NEW q \in Run, Healthy(q)'
               PROVE  Healthy(q) /\ Quiet(q)
    BY <1>6, HealthKept
  <2>1. q # r /\ Healthy(q)
    BY <1>0, <1>5, <1>8 DEF Healthy
  <2>2. entry[q].gen \in Start /\ entry[q].gen # entry[r].gen
    BY <1>0, <1>1, <2>1, EntryGen DEF IInv, GenInv, Healthy, Supervised
  <2> QED
    BY <1>4, <1>5, <1>6, <2>1, <2>2 DEF Quiet
<1>11. ReleaseInv'
  BY <1>2, <1>3, <1>6 DEF IInv, ReleaseInv, AtRelease
<1>12. AbsentInv'
  <2>1. \A d \in Caller : call'[d].pc = "acquire" =>
          call'[d].run = call[d].run /\ call[d].pc = "acquire"
    BY <1>2, <1>3
  <2>2. \A q \in Run : ~Held(q) \/ Supervised(q) => (~Held(q) \/ Supervised(q))'
    BY <1>6, <1>8 DEF Held
  <2> QED
    BY <1>6, <2>1, <2>2, AbsenceKept
<1>13. ServiceStep
  <2>1. \A q \in Run : Held(q)' = Held(q)
    BY <1>6 DEF Held
  <2>2. \A q \in Run \ over : Vouched(q)' = Vouched(q)
    BY <1>5, <1>8 DEF Vouched
  <2> QED
    BY <1>6, <2>1, <2>2, ServiceStutter
<1> QED
  BY <1>7, <1>9, <1>10, <1>11, <1>12, <1>13 DEF IInv

LEMMA SettledReleaseKeeps ==
  ASSUME IInv, NEW c \in Caller, SettledRelease(c)
  PROVE  IInv' /\ ServiceStep
<1>1. call[c].run \in over
  BY DEF SettledRelease, IInv, ReleaseInv, AtRelease
<1> QED
  BY <1>1, StopKeeps DEF SettledRelease

\* The row of a run that is over goes, whichever entry stands for it by now.
LEMMA DeleteRowKeeps ==
  ASSUME IInv, NEW c \in Caller, DeleteRow(c)
  PROVE  IInv' /\ ServiceStep
<1>1. /\ call[c].pc = "delete" /\ AtRelease(c) /\ row \in [Run -> Row]
      /\ call \in [Caller -> Call] /\ call[c] \in Call
  BY DEF AtRelease, DeleteRow, IInv, TypeOK
<1>2. PICK r \in Run : r = call[c].run /\ r \in over
  BY <1>1, CallOfRun DEF IInv, ReleaseInv
<1>3. /\ row' \in [Run -> Row] /\ row'[r] \in {row[r], NoRow}
      /\ \A q \in Run : q # r => row'[q] = row[q]
  <2>1. NoRow \in Row
    BY DEF Row
  <2> QED
    BY <1>1, <1>2, <2>1 DEF DeleteRow
<1>4. UNCHANGED <<entry, loop, started, closed, over, budget>>
  BY DEF DeleteRow
<1>5. PICK v \in Call : /\ call' = [call EXCEPT ![c] = v]
                        /\ v.pc = "forget" /\ v.run = r /\ v.op = call[c].op
  <2>1. /\ [call[c] EXCEPT !.pc = "forget"] \in Call
        /\ [call[c] EXCEPT !.pc = "forget"].pc = "forget"
        /\ [call[c] EXCEPT !.pc = "forget"].run = call[c].run
        /\ [call[c] EXCEPT !.pc = "forget"].op = call[c].op
    BY <1>1 DEF Call, NoCall
  <2> QED
    BY <1>2, <2>1 DEF DeleteRow, Goto
<1>6. \A d \in Caller : call'[d] = IF d = c THEN v ELSE call[d]
  BY <1>1, <1>5
<1>7. TypeOK'
  BY <1>1, <1>3, <1>4, <1>5 DEF IInv, TypeOK
<1>8. \A q \in Run : Held(q)' => Held(q)
  BY <1>3 DEF Held
<1>9. GenInv'
  BY <1>4, <1>7, GenKept
<1>10. HealthInv'
  <2> SUFFICES ASSUME NEW q \in Run, Healthy(q)'
               PROVE  Healthy(q) /\ Quiet(q)
    BY <1>4, HealthKept
  <2> QED
    BY <1>2, <1>3, <1>4 DEF Quiet, Healthy, Supervised
<1>11. ReleaseInv'
  BY <1>2, <1>4, <1>5, <1>6 DEF IInv, ReleaseInv, AtRelease
<1>12. AbsentInv'
  <2>1. \A d \in Caller : call'[d].pc = "acquire" =>
          call'[d].run = call[d].run /\ call[d].pc = "acquire"
    BY <1>5, <1>6
  <2>2. \A q \in Run : ~Held(q) \/ Supervised(q) => (~Held(q) \/ Supervised(q))'
    BY <1>4, <1>8 DEF Supervised
  <2> QED
    BY <1>4, <2>1, <2>2, AbsenceKept
<1>13. ServiceStep
  <2>1. \A q \in Run : Vouched(q)' = Vouched(q)
    BY <1>4 DEF Vouched, Supervised
  <2>2. PICK S \in SUBSET Run : S = {q \in {r} : Held(q) /\ ~Held(q)'}
    BY <1>2
  <2>3. \A q \in S : Held(q) /\ q \in over
    BY <1>2, <2>2
  <2>4. \A q \in Run : Held(q)' = (Held(q) /\ q \notin S)
    BY <1>3, <1>8, <2>2 DEF Held
  <2> QED
    BY <1>4, <2>1, <2>3, <2>4, SomeLapse
<1> QED
  BY <1>7, <1>9, <1>10, <1>11, <1>12, <1>13 DEF IInv

\* The entry of a run that is over is dropped, whichever lease it stands for.
LEMMA ForgetKeeps ==
  ASSUME IInv, NEW c \in Caller, Forget(c)
  PROVE  IInv' /\ ServiceStep
<1>1. /\ call[c].pc = "forget" /\ AtRelease(c) /\ entry \in [Run -> Entry]
      /\ call \in [Caller -> Call]
  BY DEF AtRelease, Forget, IInv, TypeOK
<1>2. PICK r \in Run : r = call[c].run /\ r \in over
  BY <1>1, CallOfRun DEF IInv, ReleaseInv
<1>3. /\ entry' \in [Run -> Entry] /\ entry'[r] = NoEntry
      /\ \A q \in Run : q # r => entry'[q] = entry[q]
  <2>1. NoEntry \in Entry
    BY DEF Entry
  <2> QED
    BY <1>1, <1>2, <2>1 DEF Forget
<1>4. UNCHANGED <<row, loop, started, closed, over, budget>>
  BY DEF Forget
<1>5. /\ call' \in [Caller -> Call]
      /\ \A d \in Caller : GoesOn(d)
      /\ \A d \in Caller : call'[d].pc = "acquire" => call'[d] = call[d]
  BY <1>1, CallLeaves DEF Forget
<1>6. TypeOK'
  BY <1>3, <1>4, <1>5 DEF IInv, TypeOK
<1>7. \A q \in Run : Held(q)' = Held(q)
  BY <1>4 DEF Held
<1>8. GenInv'
  <2>1. \A q \in Run : entry'[q].gen \in {0, entry[q].gen}
    BY <1>3 DEF NoEntry
  <2> QED
    BY <1>4, <1>6, <2>1, GenKept
<1>9. HealthInv'
  <2> SUFFICES ASSUME NEW q \in Run, Healthy(q)'
               PROVE  Healthy(q) /\ Quiet(q)
    BY <1>4, HealthKept
  <2>1. Healthy(q) /\ q # r
    BY <1>3 DEF Healthy, Supervised
  <2> QED
    BY <1>3, <1>4, <2>1 DEF Quiet
<1>10. ReleaseInv'
  BY <1>4, <1>5, ReleasesKept
<1>11. AbsentInv'
  <2>1. \A q \in Run \ over : ~Held(q) \/ Supervised(q) => (~Held(q) \/ Supervised(q))'
    BY <1>2, <1>3, <1>7 DEF Supervised
  <2>2. \A d \in Caller : call'[d].pc = "acquire" =>
          call'[d].run = call[d].run /\ call[d].pc = "acquire"
    BY <1>5
  <2> QED
    BY <1>4, <2>1, <2>2, AbsenceKept
<1>12. ServiceStep
  <2>1. \A q \in Run \ over : Vouched(q)' = Vouched(q)
    BY <1>2, <1>3 DEF Vouched, Supervised
  <2> QED
    BY <1>4, <1>7, <2>1, ServiceStutter
<1> QED
  BY <1>6, <1>8, <1>9, <1>10, <1>11, <1>12 DEF IInv

\* A run ends, and is nobody's concern any more.
LEMMA EndRunKeeps ==
  ASSUME IInv, NEW r \in Run, EndRun(r)
  PROVE  IInv' /\ ServiceStep
<1>1. UNCHANGED <<row, entry, loop, call, started, closed, budget>> /\ over' = over \union {r}
  BY DEF EndRun
<1>2. TypeOK'
  BY <1>1 DEF IInv, TypeOK
<1>3. GenInv'
  BY <1>1 DEF IInv, GenInv, Supervised
<1>4. HealthInv'
  BY <1>1 DEF IInv, HealthInv, Healthy, Supervised, Held, Sound, Alive, Paced
<1>5. ReleaseInv'
  BY <1>1 DEF IInv, ReleaseInv, AtRelease
<1>6. AbsentInv'
  BY <1>1 DEF IInv, AbsentInv, Held, Supervised
<1>7. ServiceStep
  BY <1>1, SomeEnd DEF Held, Vouched, Supervised
<1> QED
  BY <1>2, <1>3, <1>4, <1>5, <1>6, <1>7 DEF IInv

-----------------------------------------------------------------------------
(* Time and the process.                                                   *)

LEMMA Aged ==
  /\ \A n \in 0 .. TTL : Age(n) \in 0 .. TTL
  /\ \A e \in Entry : /\ [e EXCEPT !.left = Age(@)] \in Entry
                      /\ [e EXCEPT !.left = Age(@)].gen = e.gen
                      /\ [e EXCEPT !.left = Age(@)].id = e.id
                      /\ [e EXCEPT !.left = Age(@)].stopping = e.stopping
                      /\ [e EXCEPT !.left = Age(@)].failed = e.failed
  /\ \A k \in Call : /\ [k EXCEPT !.left = Age(@)] \in Call
                     /\ [k EXCEPT !.left = Age(@)].pc = k.pc
                     /\ [k EXCEPT !.left = Age(@)].run = k.run
                     /\ [k EXCEPT !.left = Age(@)].op = k.op
<1>1. ASSUME NEW n \in 0 .. TTL
      PROVE  Age(n) \in 0 .. TTL
  BY DEF Age
<1>2. Age(0) = 0
  BY DEF Age
<1>3. ASSUME NEW e \in Entry
      PROVE  /\ [e EXCEPT !.left = Age(@)] \in Entry
             /\ [e EXCEPT !.left = Age(@)].gen = e.gen
             /\ [e EXCEPT !.left = Age(@)].id = e.id
             /\ [e EXCEPT !.left = Age(@)].stopping = e.stopping
             /\ [e EXCEPT !.left = Age(@)].failed = e.failed
  <2>1. CASE e = NoEntry
    <3>1. [e EXCEPT !.left = Age(@)] = NoEntry
      BY <1>2, <2>1 DEF NoEntry
    <3> QED
      BY <2>1, <3>1
  <2>2. CASE e # NoEntry
    <3>1. e \in [gen : Start, id : Start, left : 0 .. TTL, stopping : BOOLEAN, failed : BOOLEAN]
      BY <2>2 DEF Entry
    <3>2. PICK n : n = Age(e.left) /\ n \in 0 .. TTL
      BY <1>1, <3>1
    <3>3. [e EXCEPT !.left = n] \in Entry
      BY <2>2, <3>2, EntryEdit
    <3>4. /\ [e EXCEPT !.left = n].gen = e.gen
          /\ [e EXCEPT !.left = n].id = e.id
          /\ [e EXCEPT !.left = n].stopping = e.stopping
          /\ [e EXCEPT !.left = n].failed = e.failed
      BY <3>1
    <3> QED
      BY <3>2, <3>3, <3>4
  <2> QED
    BY <2>1, <2>2
<1>4. ASSUME NEW k \in Call
      PROVE  /\ [k EXCEPT !.left = Age(@)] \in Call
             /\ [k EXCEPT !.left = Age(@)].pc = k.pc
             /\ [k EXCEPT !.left = Age(@)].run = k.run
             /\ [k EXCEPT !.left = Age(@)].op = k.op
  <2>1. CASE k = NoCall
    <3>1. [k EXCEPT !.left = Age(@)] = NoCall
      BY <1>2, <2>1 DEF NoCall
    <3> QED
      BY <2>1, <3>1
  <2>2. CASE k # NoCall
    <3>1. k \in [pc : {"inspect", "adopt", "doom", "resume", "acquire", "release", "drain",
                       "delete", "forget"},
                 op : {"validate", "ensure", "settle", "release"}, run : Run,
                 gen : 0 .. MaxStarts, id : 0 .. MaxStarts, left : 0 .. TTL]
      BY <2>2 DEF Call
    <3>2. PICK n : n = Age(k.left) /\ n \in 0 .. TTL
      BY <1>1, <3>1
    <3>3. /\ [k EXCEPT !.left = n] \in Call
          /\ [k EXCEPT !.left = n].pc = k.pc
          /\ [k EXCEPT !.left = n].run = k.run
          /\ [k EXCEPT !.left = n].op = k.op
      BY <3>1, <3>2 DEF Call
    <3> QED
      BY <3>2, <3>3
  <2> QED
    BY <2>1, <2>2
<1> QED
  BY <1>1, <1>3, <1>4

LEMMA AgedLoop ==
  ASSUME NEW l \in Loop, l # NoLoop
  PROVE  LET m == [l EXCEPT !.left = Age(@), !.due = TRUE]
         IN /\ m \in Loop /\ m # NoLoop /\ m.due
            /\ m.run = l.run /\ m.cut = l.cut /\ m.pc = l.pc
<1>1. l \in [pc : {"wait", "renew", "renewed", "refused"}, run : Run, id : Start,
             left : 0 .. TTL, due : BOOLEAN, cut : BOOLEAN]
  BY DEF Loop
<1>2. PICK n : n = Age(l.left) /\ n \in 0 .. TTL
  BY <1>1, Aged
<1>3. PICK m : m = [l EXCEPT !.left = Age(@), !.due = TRUE]
  OBVIOUS
<1>4. m = [l EXCEPT !.left = n, !.due = TRUE]
  BY <1>2, <1>3, Zenon
<1>5. m \in Loop /\ m.due /\ m.run = l.run /\ m.cut = l.cut /\ m.pc = l.pc
  BY <1>1, <1>2, <1>4 DEF Loop
<1>6. m # NoLoop
  BY <1>5, LoopPc
<1> QED
  BY <1>3, <1>5, <1>6, Zenon

\* A healthy entry has renewed its lease in time.
LEMMA InTime ==
  ASSUME IInv, Timely, NEW q \in Run \ over, Healthy(q)
  PROVE  Held(q) /\ row[q].left > 1
<1>1. Held(q) /\ Alive(q) /\ Paced(q)
  BY DEF IInv, HealthInv, Sound
<1>2. row[q].left \in 1 .. TTL
  BY <1>1, RowId DEF Held, IInv, TypeOK
<1>3. entry[q].gen \in Start
  BY EntryGen DEF Healthy, Supervised, IInv, TypeOK
<1>4. PICK l \in Loop : l = loop[entry[q].gen]
  BY <1>3 DEF IInv, TypeOK
<1>5. l # NoLoop /\ (l.pc \in {"wait", "renewed"} /\ ~l.due => row[q].left > 1)
  BY <1>1, <1>4 DEF Alive, Paced
<1>6. l.pc \in {"wait", "renew", "renewed", "refused"}
  BY <1>5, LoopPc
<1>7. row[q].left = 1 => ~(l.due \/ l.pc \in {"renew", "renewed", "refused"})
  BY <1>4 DEF Timely, Pending
<1> QED
  BY <1>1, <1>2, <1>5, <1>6, <1>7

LEMMA TickKeeps ==
  ASSUME IInv, Tick
  PROVE  IInv' /\ ServiceStep
<1>1. /\ row \in [Run -> Row] /\ entry \in [Run -> Entry] /\ loop \in [Start -> Loop]
      /\ call \in [Caller -> Call]
  BY DEF IInv, TypeOK
<1>2. /\ row' \in [Run -> Row]
      /\ \A q \in Run : IF Held(q) /\ row[q].left > 1 THEN row'[q].id = row[q].id /\ row'[q] # NoRow
                                                      ELSE row'[q] = NoRow
  <2>1. ASSUME NEW q \in Run
        PROVE  /\ row'[q] \in Row
               /\ IF Held(q) /\ row[q].left > 1 THEN row'[q].id = row[q].id /\ row'[q] # NoRow
                                                ELSE row'[q] = NoRow
    <3>1. row[q] \in Row /\ NoRow \in Row /\ NoRow.left = 0
      BY <1>1 DEF Row, NoRow
    <3>2. CASE row[q].left > 1
      <4>1. row[q] # NoRow
        BY <3>1, <3>2
      <4>2. PICK n \in 1 .. TTL : n = row[q].left - 1
        BY <3>1, <3>2, <4>1, RowId
      <4>3. PICK w \in Row : w = [row[q] EXCEPT !.left = n] /\ w.id = row[q].id
        BY <3>1, <4>1, RowEdit
      <4>4. row'[q] = w
        BY <3>2, <4>2, <4>3 DEF Tick
      <4>5. w # NoRow
        BY <3>1, <4>1, <4>3, RowId
      <4> QED
        BY <3>2, <4>1, <4>3, <4>4, <4>5 DEF Held
    <3>3. CASE ~(row[q].left > 1)
      <4>1. row'[q] = NoRow
        BY <3>3 DEF Tick
      <4> QED
        BY <3>1, <3>3, <4>1
    <3> QED
      BY <3>2, <3>3
  <2>2. row' = [q \in Run |-> row'[q]]
    BY DEF Tick
  <2> QED
    BY <2>1, <2>2
<1>3. /\ entry' \in [Run -> Entry]
      /\ \A q \in Run : /\ entry'[q].gen = entry[q].gen /\ entry'[q].id = entry[q].id
                        /\ entry'[q].stopping = entry[q].stopping
                        /\ entry'[q].failed = entry[q].failed
  BY <1>1, Aged DEF Tick
<1>4. /\ loop' \in [Start -> Loop]
      /\ \A g \in Start : loop[g] = NoLoop => loop'[g] = NoLoop
      /\ \A g \in Start : loop[g] # NoLoop =>
           /\ loop'[g] # NoLoop /\ loop'[g].due
           /\ loop'[g].run = loop[g].run /\ loop'[g].cut = loop[g].cut
  <2>1. NoLoop \in Loop
    BY DEF Loop
  <2> QED
    BY <1>1, <2>1, AgedLoop DEF Tick
<1>5. /\ call' \in [Caller -> Call]
      /\ \A d \in Caller : /\ call'[d].pc = call[d].pc /\ call'[d].run = call[d].run
                           /\ call'[d].op = call[d].op
  BY <1>1, Aged DEF Tick
<1>6. UNCHANGED <<started, closed, over, budget>>
  BY DEF Tick
<1>7. TypeOK'
  BY <1>2, <1>3, <1>4, <1>5, <1>6 DEF IInv, TypeOK
<1>8. \A q \in Run : Supervised(q)' = Supervised(q)
  BY <1>1, <1>3, EntryGen DEF Supervised
<1>9. \A q \in Run : Held(q)' = (Held(q) /\ row[q].left > 1)
  BY <1>2 DEF Held
<1>10. GenInv'
  BY <1>3, <1>4, <1>6, <1>7, GenKept
<1>11. HealthInv'
  <2> SUFFICES ASSUME NEW q \in Run, Healthy(q)'
               PROVE  Sound(q)'
    BY DEF HealthInv
  <2>1. Healthy(q)
    BY <1>3, <1>8 DEF Healthy
  <2>2. Alive(q) /\ entry[q].gen \in Start
    BY <1>1, <2>1, EntryGen DEF Healthy, Supervised, IInv, HealthInv, Sound
  <2>3. Alive(q)' /\ Paced(q)'
    BY <1>3, <1>4, <2>2 DEF Alive, Paced
  <2>4. q \notin over => (Held(q) /\ row[q].id = entry[q].id)'
    BY <1>2, <1>3, <1>9, <2>1, InTime DEF IInv, HealthInv, Sound, Tick
  <2> QED
    BY <1>6, <2>3, <2>4 DEF Sound
<1>12. ReleaseInv'
  BY <1>5, <1>6 DEF IInv, ReleaseInv, AtRelease
<1>13. AbsentInv'
  <2>1. \A q \in Run : ~Held(q) \/ Supervised(q) => (~Held(q) \/ Supervised(q))'
    BY <1>8, <1>9
  <2> QED
    BY <1>5, <1>6, <2>1, AbsenceKept
<1>14. ServiceStep
  <2>1. \A q \in Run : Vouched(q)' = Vouched(q)
    BY <1>3, <1>8 DEF Vouched
  <2>2. PICK S \in SUBSET Run : S = {q \in Run : Held(q) /\ ~(row[q].left > 1)}
    OBVIOUS
  <2>3. \A q \in S : Held(q) /\ (q \in over \/ Vouched(q) # "active")
    <3>1. \A q \in Run : Vouched(q) = "active" => Healthy(q)
      BY DEF Vouched, Healthy
    <3> QED
      BY <2>2, <3>1, InTime DEF Tick
  <2>4. \A q \in Run : Held(q)' = (Held(q) /\ q \notin S)
    BY <1>2, <2>2 DEF Held
  <2> QED
    BY <1>6, <2>1, <2>3, <2>4, SomeLapse
<1> QED
  BY <1>7, <1>10, <1>11, <1>12, <1>13, <1>14 DEF IInv

LEMMA CloseKeeps ==
  ASSUME IInv, Close
  PROVE  IInv' /\ ServiceStep
<1>1. entry \in [Run -> Entry] /\ loop \in [Start -> Loop]
  BY DEF IInv, TypeOK
<1>2. /\ entry' \in [Run -> Entry]
      /\ \A q \in Run : /\ entry'[q].gen = entry[q].gen
                        /\ entry[q].stopping => entry'[q].stopping
                        /\ entry'[q].failed = entry[q].failed
                        /\ Supervised(q) => entry'[q].stopping
                        /\ ~Supervised(q) => entry'[q] = entry[q]
  <2>1. ASSUME NEW q \in Run
        PROVE  /\ entry'[q] \in Entry
               /\ entry'[q].gen = entry[q].gen
               /\ entry[q].stopping => entry'[q].stopping
               /\ entry'[q].failed = entry[q].failed
               /\ Supervised(q) => entry'[q].stopping
               /\ ~Supervised(q) => entry'[q] = entry[q]
    <3>1. CASE Supervised(q)
      <4>1. PICK e \in Entry : e = [entry[q] EXCEPT !.stopping = TRUE]
        BY <1>1, <3>1, EntryEdit DEF Supervised
      <4>2. entry'[q] = e
        BY <3>1, <4>1 DEF Close
      <4>3. e.stopping /\ e.gen = entry[q].gen /\ e.failed = entry[q].failed
        BY <1>1, <3>1, <4>1 DEF Supervised, Entry
      <4> QED
        BY <3>1, <4>2, <4>3
    <3>2. CASE ~Supervised(q)
      <4>1. entry'[q] = NoEntry /\ entry[q] = NoEntry
        BY <3>2 DEF Close, Supervised
      <4> QED
        BY <1>1, <3>2, <4>1
    <3> QED
      BY <3>1, <3>2
  <2>2. entry' = [q \in Run |-> entry'[q]]
    BY DEF Close
  <2> QED
    BY <2>1, <2>2
<1>3. /\ loop' \in [Start -> Loop]
      /\ \A g \in Start : loop'[g] # NoLoop => loop[g] # NoLoop
  <2>1. ASSUME NEW g \in Start
        PROVE  loop'[g] \in Loop /\ (loop'[g] # NoLoop => loop[g] # NoLoop)
    <3>1. CASE loop'[g] = loop[g]
      BY <1>1, <3>1
    <3>2. CASE loop[g] # NoLoop /\ loop'[g] = [loop[g] EXCEPT !.cut = TRUE]
      BY <1>1, <3>2, LoopEdit
    <3> QED
      BY <3>1, <3>2 DEF Close
  <2>2. loop' = [g \in Start |-> loop'[g]]
    BY DEF Close
  <2> QED
    BY <2>1, <2>2
<1>4. UNCHANGED <<row, call, started, over, budget>> /\ closed' = TRUE
  BY DEF Close
<1>5. TypeOK'
  BY <1>2, <1>3, <1>4 DEF IInv, TypeOK
<1>6. \A q \in Run : Supervised(q)' = Supervised(q)
  BY <1>1, <1>2, EntryGen DEF Supervised
<1>7. GenInv'
  BY <1>2, <1>3, <1>4, <1>5, GenKept
<1>8. HealthInv'
  BY <1>2, <1>6 DEF HealthInv, Healthy
<1>9. ReleaseInv' /\ AbsentInv'
  BY <1>2, <1>4, <1>5, LoopFrame
<1>10. ServiceStep
  <2>1. \A q \in Run : Held(q)' = Held(q)
    BY <1>4 DEF Held
  <2>2. PICK S \in SUBSET Run : S = {q \in Run : Vouched(q) = "active"}
    OBVIOUS
  <2>3. \A q \in Run : Vouched(q)' = IF q \in S THEN "leaving" ELSE Vouched(q)
    BY <1>2, <1>6, <2>2 DEF Vouched
  <2> QED
    BY <1>4, <2>1, <2>2, <2>3, SomeLeave
<1> QED
  BY <1>5, <1>7, <1>8, <1>9, <1>10 DEF IInv

LEMMA RestartKeeps ==
  ASSUME IInv, Restart
  PROVE  IInv' /\ ServiceStep
<1>1. NoEntry \in Entry /\ NoLoop \in Loop /\ NoCall \in Call
  BY DEF Entry, Loop, Call
<1>2. /\ entry' = [r \in Run |-> NoEntry]
      /\ loop' = [g \in Start |-> NoLoop]
      /\ call' = [c \in Caller |-> NoCall]
      /\ closed' = FALSE /\ row' = row /\ started' = started /\ over' = over
  BY DEF Restart
<1>3. budget' \in [crash : 0 .. MaxCrashes, fault : 0 .. MaxFaults]
  BY DEF Restart, IInv, TypeOK
<1>4. TypeOK'
  BY <1>1, <1>2, <1>3 DEF IInv, TypeOK
<1>5. GenInv'
  BY <1>2 DEF GenInv, Supervised, NoEntry, IInv, TypeOK
<1>6. HealthInv'
  BY <1>2 DEF HealthInv, Healthy, Supervised
<1>7. ReleaseInv' /\ AbsentInv'
  BY <1>2 DEF ReleaseInv, AbsentInv, AtRelease, NoCall
<1>8. ServiceStep
  <2>1. \A q \in Run : Held(q)' = Held(q)
    BY <1>2 DEF Held
  <2>2. \A q \in Run : Vouched(q)' = "none"
    BY <1>2 DEF Vouched, Supervised, NoEntry
  <2> QED
    BY <1>2, <2>1, <2>2, EveryoneExits
<1> QED
  BY <1>4, <1>5, <1>6, <1>7, <1>8 DEF IInv

-----------------------------------------------------------------------------
(* The supervisor implements LeaseService.                                 *)

LEMMA Begins ==
  ASSUME Init
  PROVE  IInv /\ LS!Init
<1>1. NoEntry \in Entry /\ NoLoop \in Loop /\ NoCall \in Call /\ NoRow \in Row
  BY DEF Entry, Loop, Call, Row
<1>2. TypeOK
  <2>1. row \in [Run -> Row] /\ entry \in [Run -> Entry] /\ loop \in [Start -> Loop]
    BY <1>1 DEF Init
  <2>2. call \in [Caller -> Call] /\ started \in 0 .. MaxStarts
    BY <1>1 DEF Init
  <2>3. closed \in BOOLEAN
    BY DEF Init
  <2>4. budget \in [crash : 0 .. MaxCrashes, fault : 0 .. MaxFaults]
    BY DEF Init
  <2>5. over \subseteq Run
    BY DEF Init
  <2> QED
    BY <2>1, <2>2, <2>3, <2>4, <2>5 DEF TypeOK
<1>3. GenInv /\ HealthInv /\ ReleaseInv /\ AbsentInv
  BY DEF Init, GenInv, HealthInv, ReleaseInv, AbsentInv, AtRelease, Healthy, Supervised,
         NoEntry, NoCall
<1>4. LS!Init
  BY DEF Init, LS!Init, Held, Standing, Vouched, Supervised, NoEntry
<1> QED
  BY <1>2, <1>3, <1>4 DEF IInv

LEMMA Stutters ==
  ASSUME IInv, UNCHANGED vars
  PROVE  IInv' /\ ServiceStep
<1>1. TypeOK'
  BY DEF IInv, TypeOK, vars
<1>2. GenInv'
  BY DEF IInv, GenInv, Supervised, vars
<1>3. HealthInv'
  BY DEF IInv, HealthInv, Healthy, Supervised, Held, Sound, Alive, Paced, vars
<1>4. ReleaseInv'
  BY DEF IInv, ReleaseInv, AtRelease, vars
<1>5. AbsentInv'
  BY DEF IInv, AbsentInv, Held, Supervised, vars
<1>6. ServiceStep
  BY ServiceStutter DEF Held, Vouched, Supervised, vars
<1> QED
  BY <1>1, <1>2, <1>3, <1>4, <1>5, <1>6 DEF IInv

LEMMA StepKeeps ==
  ASSUME IInv, [Next]_vars
  PROVE  IInv' /\ ServiceStep
<1>1. ASSUME NEW c \in Caller, Arrive(c)
      PROVE  IInv' /\ ServiceStep
  <2>1. PICK r \in Run : Validate(c, r) \/ Ensure(c, r) \/ Settle(c, r) \/ Release(c, r)
    BY <1>1 DEF Arrive
  <2>2. CASE Release(c, r)
    BY <2>2, StopKeeps DEF Release
  <2>3. CASE Validate(c, r) \/ Ensure(c, r) \/ Settle(c, r)
    BY <2>3, ArriveKeeps
  <2> QED
    BY <2>1, <2>2, <2>3
<1>2. ASSUME NEW c \in Caller, Serve(c)
      PROVE  IInv' /\ ServiceStep
  <2>1. CASE InspectFound(c)
    BY <2>1, InspectFoundKeeps
  <2>2. CASE Adopt(c)
    BY <2>2, AdoptKeeps
  <2>3. CASE Doom(c)
    BY <2>3, DoomKeeps
  <2>4. CASE ResumeStored(c)
    BY <2>4, ResumeStoredKeeps
  <2>5. CASE Acquire(c)
    BY <2>5, AcquireKeeps
  <2>6. CASE SettledRelease(c)
    BY <2>6, SettledReleaseKeeps
  <2>7. CASE DeleteRow(c)
    BY <2>7, DeleteRowKeeps
  <2>8. CASE Forget(c)
    BY <2>8, ForgetKeeps
  <2>9. CASE InspectFailed(c) \/ ResumeSupervised(c) \/ ResumeAbsent(c) \/ LeaveAsIs(c)
               \/ ReleaseRefused(c) \/ ReleaseFound(c) \/ ReleaseLost(c) \/ DeleteFailed(c)
    BY <2>9, PositionKeeps
  <2> QED
    BY <1>2, <2>1, <2>2, <2>3, <2>4, <2>5, <2>6, <2>7, <2>8, <2>9 DEF Serve
<1>3. ASSUME NEW g \in Start, Renew(g)
      PROVE  IInv' /\ ServiceStep
  BY <1>3, LoopStopsKeeps, LoopTakesKeeps, LoopRenewsKeeps, LoopRefusedKeeps, LoopFailsKeeps,
     LoopAdoptsKeeps DEF Renew
<1>4. CASE Tick
  BY <1>4, TickKeeps
<1>5. CASE Close
  BY <1>5, CloseKeeps
<1>6. CASE Restart
  BY <1>6, RestartKeeps
<1>7. ASSUME NEW r \in Run, EndRun(r)
      PROVE  IInv' /\ ServiceStep
  BY <1>7, EndRunKeeps
<1>8. CASE UNCHANGED vars
  BY <1>8, Stutters
<1> QED
  BY <1>1, <1>2, <1>3, <1>4, <1>5, <1>6, <1>7, <1>8 DEF Next

\* Every row, entry, goroutine and request is one the supervisor knows
\* (lease_supervisor.go), however requests overlap.
THEOREM TypeCorrect == Spec => []TypeOK
<1>1. Init => IInv
  BY Begins
<1>2. IInv /\ [Next]_vars => IInv'
  BY StepKeeps
<1>3. IInv => TypeOK
  BY DEF IInv
<1> QED
  BY <1>1, <1>2, <1>3, PTL DEF Spec

\* An entry that counts as healthy has a goroutine of its own that was not told
\* to stop (lease_supervisor.go, Release and renewLoop), however releases, failed
\* renewals and late requests overlap.
THEOREM HealthyEntriesAreRenewed == Spec => []HealthyIsRenewed
<1>1. Init => IInv
  BY Begins
<1>2. IInv /\ [Next]_vars => IInv'
  BY StepKeeps
<1>3. IInv => HealthyIsRenewed
  <2>1. \A r \in Run : Vouched(r) = "active" => Healthy(r)
    BY DEF Vouched, Healthy
  <2> QED
    BY <2>1 DEF IInv, HealthInv, Sound, Alive, HealthyIsRenewed
<1> QED
  BY <1>1, <1>2, <1>3, PTL DEF Spec

\* The supervisor keeps the promise of LeaseService (lease_supervisor.go): two
\* runs never hold one target; what it vouches for, of a run that is not over,
\* is held; and a lease it gave up for lost is not vouched for again. Nothing is
\* assumed of the order of requests: releases, renewals, validations and late
\* acquisitions of one run or several may overlap in any way.
THEOREM PromiseKept == Spec => KeepsPromise
<1>1. Init => IInv /\ LS!Init
  BY Begins
<1>2. IInv /\ [Next]_vars => IInv' /\ [LS!Next]_(LS!vars)
  BY StepKeeps DEF ServiceStep, svc, LS!vars
<1> QED
  BY <1>1, <1>2, PTL DEF Spec, KeepsPromise, LS!Spec


-----------------------------------------------------------------------------
(* A lease never comes back, however requests overlap: this needs to know   *)
(* of the rows no more than that their IDs were given out.                  *)

RowsKnown ==
  /\ started \in Nat
  /\ row \in [Run -> [id : Nat, left : Int]]
  /\ \A r \in Run : row[r].id <= started

RowMove(r) == row'[r].id \in {0, row[r].id} \/ row'[r].id > started

LEMMA RowsStay ==
  ASSUME RowsKnown, row' = row, started' = started \/ started' = started + 1
  PROVE  RowsKnown' /\ \A r \in Run : RowMove(r)
<1>1. started' \in Nat /\ started' >= started
  BY DEF RowsKnown
<1>2. ASSUME NEW r \in Run
      PROVE  row'[r].id <= started' /\ RowMove(r)
  <2>1. row[r] \in [id : Nat, left : Int] /\ row[r].id <= started /\ started \in Nat
    BY DEF RowsKnown
  <2>2. row[r].id \in Nat
    BY <2>1
  <2> QED
    BY <1>1, <2>1, <2>2 DEF RowMove
<1> QED
  BY <1>1, <1>2 DEF RowsKnown

LEMMA RowAnew ==
  ASSUME RowsKnown, NEW q, NEW w \in [id : Nat, left : Int],
         row' = [row EXCEPT ![q] = w], w.id <= started',
         w.id \in {0, row[q].id} \/ w.id > started,
         started' = started \/ started' = started + 1
  PROVE  RowsKnown' /\ \A r \in Run : RowMove(r)
<1>1. started' \in Nat /\ started' >= started
  BY DEF RowsKnown
<1>2. row' \in [Run -> [id : Nat, left : Int]]
  BY DEF RowsKnown
<1>3. ASSUME NEW r \in Run
      PROVE  row'[r].id <= started' /\ RowMove(r)
  <2>1. row[r] \in [id : Nat, left : Int] /\ row[r].id <= started /\ started \in Nat
    BY DEF RowsKnown
  <2>2. row[r].id \in Nat
    BY <2>1
  <2>3. CASE r = q
    <3>1. row'[r] = w
      BY <2>3 DEF RowsKnown
    <3> QED
      BY <2>3, <3>1 DEF RowMove
  <2>4. CASE r # q
    <3>1. row'[r] = row[r]
      BY <2>4 DEF RowsKnown
    <3> QED
      BY <1>1, <2>1, <2>2, <3>1 DEF RowMove
  <2> QED
    BY <2>3, <2>4
<1> QED
  BY <1>1, <1>2, <1>3 DEF RowsKnown

\* A row that is renewed keeps its ID.
LEMMA RowRenewed ==
  ASSUME RowsKnown, NEW q, row' = [row EXCEPT ![q].left = TTL],
         started' = started \/ started' = started + 1
  PROVE  RowsKnown' /\ \A r \in Run : RowMove(r)
<1>1. CASE q \in Run
  <2>1. row[q] \in [id : Nat, left : Int] /\ row[q].id <= started /\ started \in Nat
    BY <1>1 DEF RowsKnown
  <2>2. PICK w : w = [row[q] EXCEPT !.left = TTL]
    OBVIOUS
  <2>3. w \in [id : Nat, left : Int] /\ w.id = row[q].id /\ w.id \in Nat
    BY <2>1, <2>2, TTLAssumption
  <2>4. row' = [row EXCEPT ![q] = w]
    BY <2>2
  <2>5. w.id <= started'
    BY <2>1, <2>3
  <2> QED
    BY <2>3, <2>4, <2>5, RowAnew
<1>2. CASE q \notin Run
  <2>1. row' = row
    BY <1>2 DEF RowsKnown
  <2> QED
    BY <2>1, RowsStay
<1> QED
  BY <1>1, <1>2

LEMMA RowsMove ==
  ASSUME RowsKnown, [Next]_vars
  PROVE  RowsKnown' /\ \A r \in Run : RowMove(r)
<1> USE DEF RowsKnown
<1>1. CASE UNCHANGED <<row, started>>
  BY <1>1, RowsStay
<1>2. ASSUME NEW c \in Caller, ResumeStored(c)
      PROVE  RowsKnown' /\ \A r \in Run : RowMove(r)
  BY <1>2, RowRenewed DEF ResumeStored, StartEntry
<1>3. ASSUME NEW c \in Caller, Acquire(c)
      PROVE  RowsKnown' /\ \A r \in Run : RowMove(r)
  <2>1. PICK q : q = call[c].run
    OBVIOUS
  <2>2. started' = started + 1 /\ row' = IF Held(q) THEN row
                                         ELSE [row EXCEPT ![q] = [id |-> started + 1, left |-> TTL]]
    BY <1>3, <2>1 DEF Acquire, StartEntry
  <2>3. CASE Held(q)
    BY <2>2, <2>3, RowsStay
  <2>4. CASE ~Held(q)
    <3>1. PICK w : w = [id |-> started + 1, left |-> TTL]
      OBVIOUS
    <3>2. w \in [id : Nat, left : Int] /\ w.id > started /\ w.id <= started'
      BY <2>2, <3>1, TTLAssumption
    <3>3. row' = [row EXCEPT ![q] = w]
      BY <2>2, <2>4, <3>1
    <3> QED
      BY <2>2, <3>2, <3>3, RowAnew
  <2> QED
    BY <2>3, <2>4
<1>4. ASSUME NEW c \in Caller, DeleteRow(c)
      PROVE  RowsKnown' /\ \A r \in Run : RowMove(r)
  <2>1. PICK q : q = call[c].run
    OBVIOUS
  <2>2. started' = started /\ (row' = row \/ row' = [row EXCEPT ![q] = NoRow])
    BY <1>4, <2>1 DEF DeleteRow
  <2>3. NoRow \in [id : Nat, left : Int] /\ NoRow.id = 0 /\ NoRow.id <= started'
    BY <2>2 DEF NoRow
  <2> QED
    BY <2>2, <2>3, RowAnew, RowsStay
<1>5. ASSUME NEW g \in Start, LoopRenews(g)
      PROVE  RowsKnown' /\ \A r \in Run : RowMove(r)
  BY <1>5, RowRenewed DEF LoopRenews
<1>6. CASE Tick
  <2>1. started' = started
    BY <1>6 DEF Tick
  <2>2. ASSUME NEW r \in Run
        PROVE  /\ row'[r] \in [id : Nat, left : Int]
               /\ row'[r].id <= started'
               /\ RowMove(r)
    <3>1. row[r] \in [id : Nat, left : Int] /\ row[r].id <= started /\ started \in Nat
      OBVIOUS
    <3>2. row'[r] = IF row[r].left > 1 THEN [row[r] EXCEPT !.left = @ - 1] ELSE NoRow
      BY <1>6 DEF Tick
    <3>3. CASE row[r].left > 1
      <4>1. row'[r] \in [id : Nat, left : Int] /\ row'[r].id = row[r].id
        BY <3>1, <3>2, <3>3
      <4> QED
        BY <2>1, <3>1, <4>1 DEF RowMove
    <3>4. CASE ~(row[r].left > 1)
      BY <2>1, <3>1, <3>2, <3>4 DEF NoRow, RowMove
    <3> QED
      BY <3>3, <3>4
  <2>3. row' = [r \in Run |-> row'[r]]
    BY <1>6 DEF Tick
  <2>4. row' \in [Run -> [id : Nat, left : Int]]
    BY <2>2, <2>3
  <2> QED
    BY <2>1, <2>2, <2>4
<1>7. ASSUME NEW c \in Caller, Arrive(c)
      PROVE  UNCHANGED <<row, started>>
  BY <1>7 DEF Arrive, Validate, Ensure, Settle, Release, StopRenewal
<1>8. ASSUME NEW c \in Caller, Serve(c), ~ResumeStored(c), ~Acquire(c), ~DeleteRow(c)
      PROVE  UNCHANGED <<row, started>>
  BY <1>8 DEF Serve, InspectFound, InspectFailed, Adopt, Doom, ResumeSupervised, ResumeAbsent,
       LeaveAsIs, SettledRelease, StopRenewal, ReleaseRefused, ReleaseFound, ReleaseLost,
       DeleteFailed, Forget
<1>9. ASSUME NEW g \in Start, Renew(g), ~LoopRenews(g)
      PROVE  UNCHANGED <<row, started>>
  BY <1>9 DEF Renew, LoopStops, LoopTakes, LoopRefused, LoopFails, LoopAdopts
<1>10. CASE Close \/ Restart \/ (\E r \in Run : EndRun(r)) \/ UNCHANGED vars
  BY <1>1, <1>10 DEF Close, Restart, EndRun, vars
<1> QED
  BY <1>1, <1>2, <1>3, <1>4, <1>5, <1>6, <1>7, <1>8, <1>9, <1>10 DEF Next

\* A lease that was released or ran out never comes back, and the lease of a
\* run is replaced by a later one only: no renewal, resume or late request
\* brings back its row (operation_locks.go, Renew), releases that overlap
\* included.
THEOREM LeasesStayGone == Spec => NothingComesBack
<1>1. Init => RowsKnown
  BY DEF Init, RowsKnown, NoRow
<1>2. RowsKnown /\ [Next]_vars => RowsKnown'
  BY RowsMove
<1>3. RowsKnown /\ [Next]_vars => [\A r \in Run : row'[r].id \in {0, row[r].id} \/ row'[r].id > started]_vars
  BY RowsMove DEF RowMove
<1> QED
  BY <1>1, <1>2, <1>3, PTL DEF Spec, NothingComesBack
=============================================================================
