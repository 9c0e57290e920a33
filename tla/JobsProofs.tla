------------------------------ MODULE JobsProofs ------------------------------
(***************************************************************************)
(* What is proved of the durable jobs (DurableJobs) for every number of    *)
(* runs, requests and workers and every number of retries.  One inductive  *)
(* invariant in three layers: what holds whatever is lost, what holds of   *)
(* the runs whose job and row see each other, and what holds of those that *)
(* the table has not said to be over too early either.                     *)
(***************************************************************************)
EXTENDS DurableJobs, TLAPS

RunRows == [status : {"absent", "queued", "running", "succeeded", "failed"},
            assigned : BOOLEAN, attempts : Nat]
RqJobs == [status : {"none", "queued", "started", "scheduled", "finished", "failed",
                      "stopped", "canceled"},
           retries : 0..MaxRetries]
CallerRecords == [pc : {"idle", "ask", "refresh", "decide", "enqueue", "assign"},
                  kind : {"trigger", "list"}, active : SUBSET Runs,
                  ask : SUBSET Runs, gone : SUBSET Runs, run : Runs \cup {None}]
HorseRecords == [pc : {"idle", "start", "begin", "body", "ok", "skipped", "raised", "killed",
                       "stopped", "handled"},
                 run : Runs \cup {None}]
Cancels == [pc : {"no", "ask", "write", "done"}, active : BOOLEAN]
Histories == [adrift : SUBSET Runs, loose : SUBSET Runs, unrecorded : SUBSET Runs]

-----------------------------------------------------------------------------
(* Whatever is lost                                                        *)

\* A request between the insertion of its run and the end is a trigger with a
\* run of its own, which no worker has seen before it is in the queue.
CallerOk(c) ==
    /\ caller[c].run # None <=> caller[c].pc \in {"enqueue", "assign"}
    /\ caller[c].run # None =>
        /\ caller[c].kind = "trigger"
        /\ run[caller[c].run].status # "absent"
        /\ \A d \in Callers : caller[d].run = caller[c].run => d = c
    /\ caller[c].pc = "enqueue" =>
        /\ rq[caller[c].run].status = "none"
        /\ run[caller[c].run].attempts = 0 /\ ~run[caller[c].run].assigned
        /\ \A h \in Horses : horse[h].run # caller[c].run

\* The advisory lock lets one trigger in at a time.
OneTrigger ==
    \A c, d \in Callers :
        /\ caller[c].pc # "idle" /\ caller[c].kind = "trigger"
        /\ caller[d].pc # "idle" /\ caller[d].kind = "trigger"
        => c = d

\* A worker has a run to itself.
HorseOk(h) ==
    /\ horse[h].run # None <=> horse[h].pc # "idle"
    /\ horse[h].run # None =>
        /\ run[horse[h].run].status # "absent"
        /\ rq[horse[h].run].status \in {"none", "started", "stopped"}
        /\ rq[horse[h].run].status = "stopped" => horse[h].pc \in {"stopped", "handled"}
        /\ horse[h].pc = "stopped" => rq[horse[h].run].status # "started"
        /\ \A g \in Horses : horse[g].run = horse[h].run => g = h

\* Rows that no job was made for are blank, and jobs have rows.
RowOk(r) ==
    /\ run[r].status = "absent" => /\ run[r].attempts = 0 /\ ~run[r].assigned
                                   /\ rq[r].status = "none"
    /\ run[r].attempts + rq[r].retries <= MaxRetries + 1
    /\ rq[r].status \in {"queued", "scheduled"} => run[r].attempts + rq[r].retries <= MaxRetries

StartOk(h) ==
    horse[h].pc \in {"start", "begin"} => run[horse[h].run].attempts + rq[horse[h].run].retries <= MaxRetries

\* Run r must be terminal in its row, or active, when its job is in the state
\* job and the worker that has it at pc.
MustBeTerminal(pc, job) ==
    \/ pc \in {"ok", "skipped"}
    \/ pc = "raised" /\ job.retries = 0
    \/ pc = "handled" /\ (job.retries = 0 \/ job.status = "stopped")
MustBeActive(pc, job) ==
    \/ pc \in {"start", "begin", "body", "skipped", "killed"}
    \/ pc \in {"raised", "handled"} /\ job.status = "started" /\ job.retries > 0

\* What RQ will not run again is terminal in the row, unless its task ended
\* without the row being told.
Agreeing ==
    /\ RecordsAgree
    /\ \A h \in Horses : LET r == horse[h].run IN
        r \notin hist.unrecorded /\ MustBeTerminal(horse[h].pc, rq[r]) =>
            run[r].status \in {"succeeded", "failed"}

Base ==
    /\ TypeOK
    /\ \A c \in Callers : CallerOk(c)
    /\ OneTrigger
    /\ \A h \in Horses : HorseOk(h) /\ StartOk(h)
    /\ \A r \in Runs : RowOk(r)
    /\ Agreeing

-----------------------------------------------------------------------------
(* While the queue and the table see each other                            *)

\* RQ will never run it again.
Dead(r) ==
    /\ run[r].status # "absent"
    /\ ~RqActive(r)
    /\ \A c \in Callers : caller[c].pc = "enqueue" => caller[c].run # r

\* A worker that is at its run, or was until it died.
WithWorker == {"start", "begin", "body", "ok", "skipped", "killed"}

Tracked ==
    /\ \A r \in Runs \ hist.adrift : RqActive(r) => run[r].assigned \/ BeingEnqueued(r)
    /\ \A h \in Horses : horse[h].pc \in WithWorker /\ horse[h].run \notin hist.adrift =>
        rq[horse[h].run].status = "started"
    /\ \A c \in Callers :
        /\ \A r \in caller[c].ask : run[r].assigned
        /\ \A r \in caller[c].gone \ hist.adrift : Dead(r)

-----------------------------------------------------------------------------
(* While the table does not say of a run that it has ended too early       *)

Escaped == hist.adrift \cup hist.loose

Active(r) == run[r].status \in ACTIVE

\* A run that RQ will run, or go on running, is active in the table.
ToBeRun ==
    /\ \A r \in Runs \ Escaped : rq[r].status \in {"queued", "scheduled"} => Active(r)
    /\ \A h \in Horses : LET r == horse[h].run IN
        r \notin Escaped /\ MustBeActive(horse[h].pc, rq[r]) => Active(r)
    /\ \A c \in Callers :
        caller[c].pc = "enqueue" /\ caller[c].run \notin Escaped => Active(caller[c].run)

Working(r) == Active(r) /\ (RqActive(r) \/ BeingEnqueued(r)) /\ r \notin Escaped

Single ==
    /\ ToBeRun
    /\ \A q, r \in Runs : Working(q) /\ Working(r) => q = r
    /\ \A c \in Callers :
        caller[c].kind = "trigger" /\ caller[c].pc \in {"ask", "refresh", "decide"} =>
            \A r \in Runs : Working(r) => r \in caller[c].active

Inv ==
    /\ Base
    /\ Tracked
    /\ Single

\* What no step does: forget what was lost.
Grows ==
    /\ hist' \in Histories
    /\ hist.adrift \subseteq hist'.adrift
    /\ hist.loose \subseteq hist'.loose
    /\ hist.unrecorded \subseteq hist'.unrecorded
    /\ faults' \subseteq AllowedFaults

-----------------------------------------------------------------------------
(* The steps of requests                                                   *)

AllTyped ==
    /\ run \in [Runs -> RunRows]
    /\ rq \in [Runs -> RqJobs]
    /\ caller \in [Callers -> CallerRecords]
    /\ horse \in [Horses -> HorseRecords]
    /\ cancel \in [Runs -> Cancels]
    /\ hist \in Histories
    /\ faults \subseteq AllowedFaults

LEMMA Typed == (TypeOK <=> AllTyped) /\ (TypeOK' <=> AllTyped')
<1> QED BY DEF TypeOK, AllTyped, RunRows, RqJobs, CallerRecords, HorseRecords, Cancels, Histories

LEMMA NothingForgotten == ASSUME AllTyped, UNCHANGED <<hist, faults>> PROVE Grows
<1> QED BY DEF AllTyped, Grows

LEMMA Initially == Init => Inv
<1> SUFFICES ASSUME Init PROVE Inv
    OBVIOUS
<1>1. /\ \A r \in Runs : /\ run[r].status = "absent" /\ run[r].attempts = 0 /\ ~run[r].assigned
                         /\ rq[r].status = "none" /\ rq[r].retries = 0
      /\ \A c \in Callers : /\ caller[c].pc = "idle" /\ caller[c].run = None
                            /\ caller[c].ask = {} /\ caller[c].gone = {}
      /\ \A h \in Horses : horse[h].pc = "idle" /\ horse[h].run = None
      /\ cancel \in [Runs -> Cancels] /\ hist \in Histories
    BY DEF Cancels, Histories, Init, IdleCaller, IdleHorse
<1>2. TypeOK
    <2>1. IdleCaller \in CallerRecords /\ IdleHorse \in HorseRecords
        BY DEF IdleCaller, IdleHorse, CallerRecords, HorseRecords
    <2>2. run \in [Runs -> RunRows]
        BY DEF Init, RunRows
    <2>3. rq \in [Runs -> RqJobs]
        BY JobsAssumption DEF Init, RqJobs
    <2> QED BY <1>1, <2>1, <2>2, <2>3, Typed DEF Init, AllTyped
<1>3. (\A c \in Callers : CallerOk(c)) /\ OneTrigger
    BY <1>1 DEF CallerOk, OneTrigger
<1>4. (\A h \in Horses : HorseOk(h) /\ StartOk(h)) /\ (\A r \in Runs : RowOk(r))
    BY <1>1, JobsAssumption DEF HorseOk, StartOk, RowOk
<1>5. Agreeing
    BY <1>1 DEF Agreeing, RecordsAgree, MustBeTerminal
<1>6. Tracked
    BY <1>1 DEF Tracked, WithWorker, RqActive, RQ_ACTIVE_STATUSES
<1>7. Single
    BY <1>1 DEF Single, ToBeRun, MustBeActive, Working, Active, ACTIVE
<1> QED BY <1>2, <1>3, <1>4, <1>5, <1>6, <1>7 DEF Inv, Base

LEMMA EscapesStay == ASSUME Grows PROVE Escaped \subseteq Escaped'
<1> QED BY DEF Grows, Escaped

\* A request moves without touching a row or the queue; if it gives up a run,
\* that run is not in the queue, or is adrift from then on.
LEMMA CallerMoves ==
    ASSUME Inv, NEW c \in Callers, NEW w \in CallerRecords, caller' = [caller EXCEPT ![c] = w],
           UNCHANGED <<run, rq, horse, cancel>>, Grows,
           w.run = None, w.pc \notin {"enqueue", "assign"},
           w.pc # "idle" /\ w.kind = "trigger" =>
                (caller[c].pc # "idle" /\ caller[c].kind = "trigger") \/ EnqueueLockFree,
           caller[c].pc = "assign" => caller[c].run \in hist'.adrift,
           \A r \in w.ask : run[r].assigned,
           \A r \in w.gone \ hist.adrift : Dead(r),
           w.kind = "trigger" /\ w.pc \in {"ask", "refresh", "decide"} =>
                \A r \in Runs : Working(r) => r \in w.active
    PROVE  Inv'
<1>1. Base /\ TypeOK /\ OneTrigger /\ Agreeing
    BY DEF Inv, Base
<1>2. caller'[c] = w /\ \A d \in Callers \ {c} : caller'[d] = caller[d]
    BY <1>1, Typed DEF AllTyped
<1>3. TypeOK'
    BY <1>1, Typed DEF AllTyped, Grows
<1>4. ASSUME NEW d \in Callers PROVE CallerOk(d)'
    <2>1. CallerOk(d)
        BY <1>1 DEF Base
    <2>2. CASE d = c
        BY <1>2, <2>2 DEF CallerOk
    <2>3. CASE d # c
        BY <1>2, <2>1, <2>3 DEF CallerOk
    <2> QED BY <2>2, <2>3
<1>5. OneTrigger'
    BY <1>1, <1>2 DEF OneTrigger, EnqueueLockFree
<1>6. (\A h \in Horses : HorseOk(h)' /\ StartOk(h)') /\ (\A r \in Runs : RowOk(r)')
    BY <1>1 DEF Base, HorseOk, StartOk, RowOk
<1>7. Agreeing'
    BY <1>1 DEF Agreeing, RecordsAgree, MustBeTerminal, Grows
<1>8. \A r \in Runs : BeingEnqueued(r)' => BeingEnqueued(r)
    BY <1>2, JobsAssumption DEF BeingEnqueued
<1>9. \A r : Dead(r) => Dead(r)'
    BY <1>2 DEF Dead, RqActive
<1>10. Tracked'
    <2>1. Tracked
        BY DEF Inv
    <2>2. ASSUME NEW r \in Runs \ hist'.adrift, RqActive(r)' PROVE run'[r].assigned \/ BeingEnqueued(r)'
        <3>1. RqActive(r) /\ (run[r].assigned \/ BeingEnqueued(r))
            BY <2>1, <2>2 DEF Tracked, RqActive, Grows
        <3>2. CASE BeingEnqueued(r)
            <4>1. PICK d \in Callers : caller[d].run = r
                BY <3>2 DEF BeingEnqueued
            <4>2. CallerOk(d)
                BY <1>1 DEF Base
            <4>3. caller[d].pc \in {"enqueue", "assign"} /\ caller[d].pc # "enqueue"
                BY <3>1, <4>1, <4>2, JobsAssumption DEF CallerOk, RqActive, RQ_ACTIVE_STATUSES
            <4>4. d # c
                BY <2>2, <4>1, <4>3
            <4> QED BY <1>2, <4>1, <4>4 DEF BeingEnqueued
        <3> QED BY <3>1, <3>2
    <2>3. ASSUME NEW d \in Callers
          PROVE  (\A r \in caller'[d].ask : run'[r].assigned) /\ (\A r \in caller'[d].gone \ hist'.adrift : Dead(r)')
        <3>1. CASE d = c
            BY <1>2, <1>9, <3>1 DEF Grows
        <3>2. CASE d # c
            BY <1>2, <1>9, <2>1, <3>2 DEF Tracked, Grows
        <3> QED BY <3>1, <3>2
    <2> QED BY <2>1, <2>2, <2>3 DEF Tracked, Grows
<1>11. Single'
    <2>1. Single
        BY DEF Inv
    <2>2. \A r \in Runs : Working(r)' => Working(r)
        BY <1>8, EscapesStay DEF Working, RqActive, Active
    <2>3. ToBeRun'
        BY <1>2, <2>1, EscapesStay DEF Single, ToBeRun, MustBeActive, Active
    <2>4. ASSUME NEW d \in Callers, caller'[d].kind = "trigger",
                 caller'[d].pc \in {"ask", "refresh", "decide"}, NEW r \in Runs, Working(r)'
          PROVE  r \in caller'[d].active
        <3>1. CASE d = c
            BY <1>2, <2>2, <2>4, <3>1
        <3>2. CASE d # c
            BY <1>2, <2>1, <2>2, <2>4, <3>2 DEF Single
        <3> QED BY <3>1, <3>2
    <2> QED BY <2>1, <2>2, <2>3, <2>4 DEF Single
<1> QED BY <1>3, <1>4, <1>5, <1>6, <1>7, <1>10, <1>11 DEF Inv, Base

LEMMA ReadActiveKeeps ==
    ASSUME Inv, NEW c \in Callers, NEW kind \in {"trigger", "list"}, ReadActive(c, kind)
    PROVE  Inv'
<1> DEFINE live == ActiveRuns \ Unassigned(kind)
           ask == {r \in ActiveRuns : run[r].assigned}
           w == [pc |-> "ask", kind |-> kind, active |-> live, ask |-> ask,
                 gone |-> Unassigned(kind), run |-> None]
<1>1. /\ caller[c].pc = "idle" /\ caller' = [caller EXCEPT ![c] = w]
      /\ kind = "trigger" => EnqueueLockFree
      /\ UNCHANGED <<run, rq, horse, cancel, hist, faults>>
    BY DEF ReadActive
<1>2. live \in SUBSET Runs /\ ask \in SUBSET Runs /\ Unassigned(kind) \in SUBSET Runs
    BY DEF ActiveRuns, Unassigned
<1>3. ASSUME NEW r \in Unassigned(kind) \ hist.adrift PROVE Dead(r)
    <2>1. Tracked /\ \A d \in Callers : CallerOk(d)
        BY DEF Inv, Base
    <2>2. r \in Runs /\ run[r].status # "absent" /\ ~run[r].assigned
        BY DEF Unassigned, ActiveRuns, ACTIVE
    <2>3. ~BeingEnqueued(r)
        <3>1. CASE kind = "list"
            BY <3>1 DEF Unassigned
        <3>2. CASE kind = "trigger"
            BY <1>1, <2>1, <2>2, <3>2, JobsAssumption DEF BeingEnqueued, CallerOk, EnqueueLockFree
        <3> QED BY <3>1, <3>2
    <2>4. ~RqActive(r)
        BY <2>1, <2>2, <2>3 DEF Tracked
    <2> QED BY <2>2, <2>3, <2>4 DEF Dead, BeingEnqueued
<1>4. ASSUME kind = "trigger", NEW r \in Runs, Working(r) PROVE r \in live
    <2>1. Tracked /\ \A d \in Callers : CallerOk(d)
        BY DEF Inv, Base
    <2>2. ~BeingEnqueued(r)
        BY <1>1, <1>4, <2>1, JobsAssumption DEF BeingEnqueued, CallerOk, EnqueueLockFree
    <2>3. run[r].assigned /\ r \in ActiveRuns
        BY <1>4, <2>1, <2>2 DEF Working, Escaped, Tracked, ActiveRuns, Active
    <2> QED BY <2>3 DEF Unassigned
<1>5. \A r \in ask : run[r].assigned
    OBVIOUS
<1> HIDE DEF live, ask
<1>6. w \in CallerRecords
    BY <1>2 DEF CallerRecords
<1>7. /\ w.pc = "ask" /\ w.kind = kind /\ w.active = live /\ w.ask = ask
      /\ w.gone = Unassigned(kind) /\ w.run = None
    OBVIOUS
<1> HIDE DEF w
<1>8. Grows
    BY <1>1, Typed, NothingForgotten DEF Inv, Base
<1>9. w.kind = "trigger" => \A r \in Runs : Working(r) => r \in w.active
    BY <1>4, <1>7
<1>10. (\A r \in w.ask : run[r].assigned) /\ (\A r \in w.gone \ hist.adrift : Dead(r))
    BY <1>3, <1>5, <1>7
<1>11. w.pc # "idle" /\ w.kind = "trigger" => EnqueueLockFree
    BY <1>1, <1>7
<1>12. w.pc \notin {"enqueue", "assign"} /\ caller[c].pc # "assign" /\ w.run = None
    BY <1>1, <1>7
<1> QED BY <1>1, <1>6, <1>8, <1>9, <1>10, <1>11, <1>12, CallerMoves

LEMMA AskQueueKeeps == ASSUME Inv, NEW c \in Callers, AskQueue(c) PROVE Inv'
<1> DEFINE gone == {r \in caller[c].ask : ~RqActive(r)}
           live == caller[c].active \ gone
           all == caller[c].gone \cup gone
           w == [caller[c] EXCEPT !.pc = "refresh", !.ask = {}, !.active = live, !.gone = all]
<1>1. caller \in [Callers -> CallerRecords] /\ caller[c] \in CallerRecords /\ CallerOk(c)
    BY Typed DEF Inv, Base, AllTyped
<1>2. caller[c].pc = "ask" /\ caller' = [caller EXCEPT ![c] = w] /\ UNCHANGED <<run, rq, horse, cancel, hist, faults>>
    BY <1>1 DEF AskQueue
<1>3. live \in SUBSET Runs /\ all \in SUBSET Runs /\ gone \in SUBSET Runs
    BY <1>1 DEF CallerRecords
<1>4. ASSUME NEW r \in all \ hist.adrift PROVE Dead(r)
    <2>1. Tracked /\ \A d \in Callers : CallerOk(d)
        BY DEF Inv, Base
    <2>2. CASE r \in caller[c].gone
        BY <2>1, <2>2 DEF Tracked
    <2>3. CASE r \in gone
        <3>1. r \in Runs /\ run[r].assigned /\ ~RqActive(r)
            BY <1>3, <2>1, <2>3 DEF Tracked
        <3>2. RowOk(r)
            BY <3>1 DEF Inv, Base
        <3>3. run[r].status # "absent"
            BY <3>1, <3>2 DEF RowOk
        <3>4. \A d \in Callers : caller[d].pc = "enqueue" => caller[d].run # r
            BY <2>1, <3>1 DEF CallerOk
        <3> QED BY <3>1, <3>3, <3>4 DEF Dead
    <2> QED BY <2>2, <2>3
<1>5. ASSUME caller[c].kind = "trigger", NEW r \in Runs, Working(r) PROVE r \in live
    <2>1. Single /\ \A d \in Callers : CallerOk(d)
        BY DEF Inv, Base
    <2>2. r \in caller[c].active
        BY <1>2, <1>5, <2>1 DEF Single
    <2>3. ~BeingEnqueued(r)
        <3> SUFFICES ASSUME NEW d \in Callers, caller[d].run = r PROVE FALSE
            BY DEF BeingEnqueued
        <3>1. caller[d].pc \in {"enqueue", "assign"} /\ caller[d].kind = "trigger"
            BY <2>1, JobsAssumption DEF CallerOk
        <3> QED BY <1>2, <1>5, <3>1 DEF Inv, Base, OneTrigger
    <2> QED BY <1>5, <2>2, <2>3 DEF Working
<1> HIDE DEF gone, live, all
<1>6. w \in CallerRecords
    BY <1>1, <1>3 DEF CallerRecords
<1>7. /\ w.pc = "refresh" /\ w.kind = caller[c].kind /\ w.active = live /\ w.ask = {}
      /\ w.gone = all /\ w.run = caller[c].run
    BY <1>1 DEF CallerRecords
<1> HIDE DEF w
<1>8. Grows
    BY <1>2, Typed, NothingForgotten DEF Inv, Base
<1>9. w.kind = "trigger" => \A r \in Runs : Working(r) => r \in w.active
    BY <1>5, <1>7
<1>10. (\A r \in w.ask : run[r].assigned) /\ (\A r \in w.gone \ hist.adrift : Dead(r))
    BY <1>4, <1>7
<1>11. w.pc # "idle" /\ w.kind = "trigger" => caller[c].pc # "idle" /\ caller[c].kind = "trigger"
    BY <1>2, <1>7
<1>12. w.pc \notin {"enqueue", "assign"} /\ caller[c].pc # "assign" /\ w.run = None
    BY <1>1, <1>2, <1>7 DEF CallerOk
<1> QED BY <1>2, <1>6, <1>8, <1>9, <1>10, <1>11, <1>12, CallerMoves

\* A request ends; only a crash of the API leaves an unassigned run in the queue.
LEMMA CallerEnds ==
    ASSUME Inv, NEW c \in Callers, caller' = [caller EXCEPT ![c] = IdleCaller],
           UNCHANGED <<run, rq, horse, cancel>>, Grows,
           caller[c].pc = "assign" => caller[c].run \in hist'.adrift
    PROVE  Inv'
<1>1. /\ IdleCaller \in CallerRecords /\ IdleCaller.pc = "idle" /\ IdleCaller.run = None
      /\ IdleCaller.ask = {} /\ IdleCaller.gone = {} /\ IdleCaller.kind = "list"
    BY DEF IdleCaller, CallerRecords
<1> HIDE DEF IdleCaller
<1>2. /\ ~(IdleCaller.pc # "idle" /\ IdleCaller.kind = "trigger")
      /\ IdleCaller.pc \notin {"enqueue", "assign"}
      /\ ~(IdleCaller.kind = "trigger" /\ IdleCaller.pc \in {"ask", "refresh", "decide"})
    BY <1>1
<1> QED BY <1>1, <1>2, CallerMoves

LEMMA GivingUpKeeps ==
    ASSUME Inv, NEW c \in Callers, OverCapacity(c) \/ EnqueueFails(c) \/ CallerCrash(c)
    PROVE  Inv'
<1>1. AllTyped /\ CallerOk(c)
    BY Typed DEF Inv, Base
<1>2. CASE OverCapacity(c) \/ EnqueueFails(c)
    BY <1>1, <1>2, NothingForgotten, CallerEnds DEF OverCapacity, EnqueueFails
<1>3. CASE CallerCrash(c)
    <2>1. /\ caller' = [caller EXCEPT ![c] = IdleCaller] /\ UNCHANGED <<run, rq, horse, cancel>>
          /\ faults' \subseteq AllowedFaults
          /\ hist' = [hist EXCEPT !.adrift =
                IF caller[c].pc = "assign" THEN @ \cup {caller[c].run} ELSE @]
        BY <1>1, <1>3 DEF CallerCrash, Fault, AllTyped
    <2>2. hist \in Histories /\ (caller[c].pc = "assign" => caller[c].run \in Runs)
        BY <1>1 DEF AllTyped, CallerOk, CallerRecords
    <2>3. Grows /\ (caller[c].pc = "assign" => caller[c].run \in hist'.adrift)
        BY <2>1, <2>2 DEF Grows, Histories
    <2> QED BY <2>1, <2>3, CallerEnds
<1> QED BY <1>2, <1>3

\* What a request knows of the rows it read goes with it to its next step.
LEMMA CallerKnows ==
    ASSUME Inv, NEW c \in Callers, NEW w \in CallerRecords, caller' = [caller EXCEPT ![c] = w],
           UNCHANGED <<run, rq, horse, cancel>>, Grows,
           caller[c].pc \in {"ask", "refresh"}, w.pc \in {"refresh", "decide"},
           w.kind = caller[c].kind, w.active = caller[c].active, w.run = caller[c].run,
           w.ask \subseteq caller[c].ask, w.gone \subseteq caller[c].gone
    PROVE  Inv'
<1>1. (\A r \in w.ask : run[r].assigned) /\ (\A r \in w.gone \ hist.adrift : Dead(r))
    BY DEF Inv, Tracked
<1>2. w.kind = "trigger" /\ w.pc \in {"ask", "refresh", "decide"} =>
        \A r \in Runs : Working(r) => r \in w.active
    BY DEF Inv, Single
<1>3. w.run = None /\ w.pc \notin {"enqueue", "assign"} /\ caller[c].pc # "assign"
    BY DEF Inv, Base, CallerOk
<1>4. w.pc # "idle" /\ w.kind = "trigger" => caller[c].pc # "idle" /\ caller[c].kind = "trigger"
    OBVIOUS
<1> QED BY <1>1, <1>2, <1>3, <1>4, CallerMoves

LEMMA RefreshKeeps == ASSUME Inv, NEW c \in Callers, Refresh(c) PROVE Inv'
<1> DEFINE gone == {r \in caller[c].gone : run[r].status \in ACTIVE}
           w == [caller[c] EXCEPT !.pc = "decide", !.gone = gone]
<1>1. AllTyped /\ caller \in [Callers -> CallerRecords] /\ caller[c] \in CallerRecords
    BY Typed DEF Inv, Base, AllTyped
<1>2. /\ caller[c].pc = "refresh" /\ caller' = [caller EXCEPT ![c] = w]
      /\ UNCHANGED <<run, rq, horse, cancel, hist, faults>> /\ Grows
    BY <1>1, NothingForgotten DEF Refresh
<1>3. gone \in SUBSET Runs /\ gone \subseteq caller[c].gone
    BY <1>1 DEF CallerRecords
<1> HIDE DEF gone
<1>4. w \in CallerRecords
    BY <1>1, <1>3 DEF CallerRecords
<1>5. /\ w.pc = "decide" /\ w.kind = caller[c].kind /\ w.active = caller[c].active
      /\ w.ask = caller[c].ask /\ w.gone = gone /\ w.run = caller[c].run
    BY <1>1 DEF CallerRecords
<1> HIDE DEF w
<1> QED BY <1>1, <1>2, <1>3, <1>4, <1>5, CallerKnows

LEMMA QueueUnreachableKeeps == ASSUME Inv, NEW c \in Callers, QueueUnreachable(c) PROVE Inv'
<1> DEFINE w == [caller[c] EXCEPT !.pc = "refresh", !.ask = {}]
<1>1. AllTyped /\ caller \in [Callers -> CallerRecords] /\ caller[c] \in CallerRecords
    BY Typed DEF Inv, Base, AllTyped
<1>2. caller[c].pc = "ask" /\ UNCHANGED <<run, rq, horse, cancel, hist>> /\ Grows
    BY <1>1 DEF QueueUnreachable, Fault, AllTyped, Grows
<1>3. w \in CallerRecords
    BY <1>1 DEF CallerRecords
<1>4. /\ w.pc = "refresh" /\ w.kind = caller[c].kind /\ w.active = caller[c].active
      /\ w.ask = {} /\ w.gone = caller[c].gone /\ w.run = caller[c].run
    BY <1>1 DEF CallerRecords
<1>5. CASE caller[c].kind = "list"
    <2>1. caller' = [caller EXCEPT ![c] = w]
        BY <1>1, <1>5 DEF QueueUnreachable
    <2> HIDE DEF w
    <2> QED BY <1>2, <1>3, <1>4, <2>1, CallerKnows
<1>6. CASE caller[c].kind # "list"
    <2>1. caller' = [caller EXCEPT ![c] = IdleCaller]
        BY <1>1, <1>6 DEF QueueUnreachable
    <2> QED BY <1>2, <2>1, CallerEnds
<1> QED BY <1>5, <1>6

\* A decision: rows that are dead are marked as failed, and a trigger that
\* found no live work may insert the run it will enqueue.
LEMMA Decides ==
    ASSUME Inv, NEW c \in Callers, caller[c].pc = "decide",
           NEW w \in CallerRecords, caller' = [caller EXCEPT ![c] = w],
           UNCHANGED <<rq, horse, cancel, hist, faults>>, run' \in [Runs -> RunRows],
           NEW new \in SUBSET Runs,
           \A r \in Runs : run'[r].assigned = run[r].assigned /\ run'[r].attempts = run[r].attempts,
           \A r \in Runs \ new : \/ run'[r].status = run[r].status
                                 \/ r \in caller[c].gone /\ run'[r].status = "failed",
           \A r \in new : run[r].status = "absent" /\ run'[r].status = "queued",
           w.gone = {},
           \/ w.pc = "idle" /\ w.run = None /\ new = {}
           \/ /\ w.pc = "enqueue" /\ w.run \in Runs /\ new = {w.run}
              /\ w.kind = "trigger" /\ caller[c].kind = "trigger" /\ caller[c].active = {},
           w.ask \subseteq caller[c].ask
    PROVE  Inv'
<1>1. Base /\ TypeOK /\ AllTyped /\ OneTrigger /\ Agreeing /\ CallerOk(c) /\ \A r \in Runs : RowOk(r)
    BY Typed DEF Inv, Base
<1>2. /\ caller'[c] = w /\ \A d \in Callers \ {c} : caller'[d] = caller[d]
      /\ caller[c].run = None
    BY <1>1 DEF AllTyped, CallerOk
<1>3. TypeOK'
    BY <1>1, Typed DEF AllTyped
<1>4. /\ \A r \in new : /\ run[r].attempts = 0 /\ ~run[r].assigned /\ rq[r].status = "none"
                        /\ \A h \in Horses : horse[h].run # r
                        /\ \A d \in Callers : caller[d].run # r
    <2>1. ASSUME NEW r \in new
          PROVE  /\ run[r].attempts = 0 /\ ~run[r].assigned /\ rq[r].status = "none"
                 /\ \A h \in Horses : horse[h].run # r
                 /\ \A d \in Callers : caller[d].run # r
        <3>1. r \in Runs /\ run[r].status = "absent" /\ RowOk(r) /\ r # None
            BY <1>1, JobsAssumption
        <3>2. \A h \in Horses : horse[h].run # r
            BY <1>1, <3>1 DEF Base, HorseOk
        <3>3. \A d \in Callers : caller[d].run # r
            BY <1>1, <3>1 DEF Base, CallerOk
        <3> QED BY <3>1, <3>2, <3>3 DEF RowOk
    <2> QED BY <2>1
<1>5. \A r \in Runs : run[r].status # "absent" => run'[r].status # "absent"
    OBVIOUS
<1>6. \A h \in Horses : horse[h].run \in Runs \cup {None}
    BY <1>1 DEF AllTyped, HorseRecords
<1>7. ASSUME NEW d \in Callers PROVE CallerOk(d)'
    <2>1. CallerOk(d) /\ caller[d].run \in Runs \cup {None}
        BY <1>1 DEF Base, AllTyped, CallerRecords
    <2>2. CASE d = c
        <3>1. CASE w.pc = "idle"
            BY <1>2, <2>2, <3>1 DEF CallerOk
        <3>2. CASE w.pc = "enqueue"
            <4>1. /\ w.run \in new /\ w.run \in Runs /\ w.run # None /\ w.kind = "trigger"
                  /\ run'[w.run].status = "queued"
                  /\ \A e \in Callers \ {c} : caller'[e].run # w.run
                <5>1. w.run \in new /\ w.run \in Runs /\ w.kind = "trigger"
                    BY <3>2
                <5>2. w.run # None /\ run'[w.run].status = "queued"
                    BY <5>1, JobsAssumption
                <5>3. \A e \in Callers : caller[e].run # w.run
                    BY <1>4, <5>1
                <5> QED BY <1>2, <5>1, <5>2, <5>3
            <4>2. /\ rq'[w.run].status = "none" /\ run'[w.run].attempts = 0 /\ ~run'[w.run].assigned
                  /\ \A h \in Horses : horse'[h].run # w.run
                BY <1>4, <4>1
            <4> QED BY <1>2, <2>2, <3>2, <4>1, <4>2 DEF CallerOk
        <3> QED BY <3>1, <3>2
    <2>3. CASE d # c
        <3>1. caller'[d] = caller[d] /\ (caller[d].run # None => caller[d].run \in Runs)
            BY <1>2, <2>1, <2>3
        <3>2. caller[d].run # None => \A e \in Callers : caller'[e].run = caller[d].run => e = d
            <4>1. caller[d].run # None => w.run # caller[d].run
                BY <1>4
            <4> QED BY <1>2, <2>1, <4>1 DEF CallerOk
        <3> QED BY <1>5, <2>1, <3>1, <3>2 DEF CallerOk
    <2> QED BY <2>2, <2>3
<1>8. OneTrigger'
    BY <1>1, <1>2 DEF OneTrigger
<1>9. ASSUME NEW h \in Horses PROVE HorseOk(h)' /\ StartOk(h)'
    <2>1. HorseOk(h) /\ StartOk(h)
        BY <1>1 DEF Base
    <2>2. HorseOk(h)'
        BY <1>5, <1>6, <2>1 DEF HorseOk
    <2>3. StartOk(h)'
        BY <1>6, <2>1, JobsAssumption DEF HorseOk, StartOk
    <2> QED BY <2>2, <2>3
<1>10. ASSUME NEW r \in Runs PROVE RowOk(r)'
    BY <1>1 DEF RowOk
<1>11. Agreeing'
    <2>1. \A r \in Runs : run[r].status \in {"succeeded", "failed"} => run'[r].status \in {"succeeded", "failed"}
        OBVIOUS
    <2>2. RecordsAgree'
        BY <1>1, <2>1 DEF Agreeing, RecordsAgree
    <2>3. ASSUME NEW h \in Horses, horse[h].run \notin hist.unrecorded,
                 MustBeTerminal(horse[h].pc, rq[horse[h].run])
          PROVE  run'[horse[h].run].status \in {"succeeded", "failed"}
        <3>1. run[horse[h].run].status \in {"succeeded", "failed"}
            BY <1>1, <2>3 DEF Agreeing
        <3>2. horse[h].run \in Runs
            BY <1>1, <1>6, <2>3 DEF Base, HorseOk, MustBeTerminal
        <3> QED BY <2>1, <3>1, <3>2
    <2> QED BY <2>2, <2>3 DEF Agreeing
<1>12. \A r \in Runs : BeingEnqueued(r)' <=> BeingEnqueued(r) \/ r \in new
    BY <1>2, JobsAssumption DEF BeingEnqueued
<1>13. \A r \in Runs : Dead(r) => Dead(r)'
    BY <1>2, <1>5 DEF Dead, RqActive
<1>14. Tracked'
    <2>1. Tracked
        BY DEF Inv
    <2>2. ASSUME NEW r \in Runs \ hist.adrift, RqActive(r)' PROVE run'[r].assigned \/ BeingEnqueued(r)'
        BY <1>12, <2>1, <2>2 DEF Tracked, RqActive
    <2>3. ASSUME NEW d \in Callers
          PROVE  (\A r \in caller'[d].ask : run'[r].assigned) /\ (\A r \in caller'[d].gone \ hist.adrift : Dead(r)')
        <3>1. /\ caller'[d].ask \subseteq caller[d].ask /\ caller'[d].gone \subseteq caller[d].gone
              /\ caller[d].ask \subseteq Runs /\ caller[d].gone \subseteq Runs
            BY <1>1, <1>2 DEF AllTyped, CallerRecords
        <3> QED BY <1>13, <2>1, <3>1 DEF Tracked
    <2> QED BY <2>1, <2>2, <2>3 DEF Tracked
<1>15. Single'
    <2>1. Single /\ Tracked
        BY DEF Inv
    <2>2. ASSUME NEW r \in Runs, Active(r), r \notin caller[c].gone PROVE Active(r)'
        BY <2>2 DEF Active, ACTIVE
    <2>3. ASSUME NEW r \in caller[c].gone \ Escaped
          PROVE  /\ r \in Runs /\ ~RqActive(r)
                 /\ \A d \in Callers : caller[d].pc = "enqueue" => caller[d].run # r
        BY <1>1, <2>1 DEF Tracked, Dead, Escaped, AllTyped, CallerRecords
    <2>4. ASSUME NEW r \in Runs, Working(r)' PROVE Working(r) \/ r \in new
        <3>1. r \notin new => Active(r)
            BY <2>4 DEF Working, Active, ACTIVE
        <3>2. r \notin new => RqActive(r) \/ BeingEnqueued(r)
            BY <1>12, <2>4 DEF Working, RqActive, Escaped
        <3> QED BY <2>4, <3>1, <3>2 DEF Working, Escaped
    <2>5. ToBeRun'
        <3>1. ASSUME NEW r \in Runs \ Escaped, rq[r].status \in {"queued", "scheduled"} PROVE Active(r)'
            BY <2>1, <2>2, <2>3, <3>1 DEF Single, ToBeRun, RqActive, RQ_ACTIVE_STATUSES
        <3>2. ASSUME NEW h \in Horses, horse[h].run \notin Escaped,
                     MustBeActive(horse[h].pc, rq[horse[h].run])
              PROVE  run'[horse[h].run].status \in ACTIVE
            <4>1. horse[h].run \in Runs /\ Active(horse[h].run)
                BY <1>1, <1>6, <2>1, <3>2 DEF Base, HorseOk, Single, ToBeRun, MustBeActive
            <4>2. rq[horse[h].run].status = "started"
                BY <2>1, <3>2 DEF Tracked, MustBeActive, WithWorker, Escaped
            <4> DEFINE r == horse[h].run
            <4>3. RqActive(r) /\ r \in Runs \ Escaped /\ Active(r)
                BY <3>2, <4>1, <4>2 DEF RqActive, RQ_ACTIVE_STATUSES
            <4> HIDE DEF r
            <4>4. run'[r].status \in ACTIVE
                BY <2>3, <4>3 DEF Active, ACTIVE
            <4> QED BY <4>4 DEF r
        <3>3. ASSUME NEW d \in Callers, caller'[d].pc = "enqueue", caller'[d].run \notin Escaped
              PROVE  run'[caller'[d].run].status \in ACTIVE
            <4>1. CASE d = c
                BY <1>2, <3>3, <4>1 DEF ACTIVE
            <4>2. CASE d # c
                <5> DEFINE r == caller[d].run
                <5>1. caller'[d] = caller[d] /\ r \in Runs \ Escaped /\ run[r].status \in ACTIVE
                    BY <1>1, <1>2, <2>1, <3>3, <4>2 DEF Base, CallerOk, Single, ToBeRun, AllTyped, CallerRecords, Active
                <5>2. r \notin caller[c].gone
                    BY <2>3, <3>3, <5>1
                <5> HIDE DEF r
                <5>3. run'[r].status \in ACTIVE
                    BY <5>1, <5>2 DEF ACTIVE
                <5> QED BY <5>1, <5>3 DEF r
            <4> QED BY <4>1, <4>2
        <3> QED BY <3>1, <3>2, <3>3 DEF ToBeRun, Active, Escaped
    <2>6. ASSUME NEW q \in Runs, NEW r \in Runs, Working(q)', Working(r)' PROVE q = r
        <3>1. CASE new = {}
            BY <2>1, <2>4, <2>6, <3>1 DEF Single
        <3>2. CASE new # {}
            <4>1. \A s \in Runs : ~Working(s)
                BY <2>1, <3>2 DEF Single
            <4> QED BY <2>4, <2>6, <3>2, <4>1
        <3> QED BY <3>1, <3>2
    <2>7. ASSUME NEW d \in Callers, caller'[d].kind = "trigger",
                 caller'[d].pc \in {"ask", "refresh", "decide"}, NEW r \in Runs, Working(r)'
          PROVE  r \in caller'[d].active
        <3>1. d # c /\ caller'[d] = caller[d]
            BY <1>2, <2>7
        <3>2. new = {}
            BY <1>1, <2>7, <3>1 DEF OneTrigger
        <3> QED BY <2>1, <2>4, <2>7, <3>1, <3>2 DEF Single
    <2> QED BY <2>5, <2>6, <2>7 DEF Single
<1> QED BY <1>3, <1>7, <1>8, <1>9, <1>10, <1>11, <1>14, <1>15 DEF Inv, Base

LEMMA Marked ==
    ASSUME TypeOK, NEW gone \in SUBSET Runs
    PROVE  /\ MarkLost(gone) \in [Runs -> RunRows]
           /\ \A r \in Runs : /\ MarkLost(gone)[r].assigned = run[r].assigned
                              /\ MarkLost(gone)[r].attempts = run[r].attempts
                              /\ \/ MarkLost(gone)[r].status = run[r].status
                                 \/ r \in gone /\ MarkLost(gone)[r].status = "failed"
<1>1. run \in [Runs -> RunRows]
    BY Typed DEF AllTyped
<1>2. ASSUME NEW r \in Runs
      PROVE  LET x == [run[r] EXCEPT !.status = "failed"]
             IN  /\ x \in RunRows /\ x.assigned = run[r].assigned /\ x.attempts = run[r].attempts
                 /\ x.status = "failed"
    BY <1>1 DEF RunRows
<1> QED BY <1>1, <1>2 DEF MarkLost

LEMMA SettleKeeps == ASSUME Inv, NEW c \in Callers, Settle(c) PROVE Inv'
<1>1. TypeOK /\ caller[c].gone \in SUBSET Runs
    BY Typed DEF Inv, Base, AllTyped, CallerRecords
<1>2. /\ caller[c].pc = "decide" /\ run' = MarkLost(caller[c].gone)
      /\ caller' = [caller EXCEPT ![c] = IdleCaller] /\ UNCHANGED <<rq, horse, cancel, hist, faults>>
    BY DEF Settle
<1>3. /\ IdleCaller \in CallerRecords /\ IdleCaller.pc = "idle" /\ IdleCaller.run = None
      /\ IdleCaller.ask = {} /\ IdleCaller.gone = {}
    BY DEF IdleCaller, CallerRecords
<1>4. /\ run' \in [Runs -> RunRows]
      /\ \A r \in Runs : run'[r].assigned = run[r].assigned /\ run'[r].attempts = run[r].attempts
      /\ \A r \in Runs : \/ run'[r].status = run[r].status
                         \/ r \in caller[c].gone /\ run'[r].status = "failed"
    BY <1>1, <1>2, Marked
<1> HIDE DEF IdleCaller
<1> DEFINE new == {}
<1>5. /\ new \in SUBSET Runs /\ new = {} /\ \A r \in new : FALSE
      /\ \A r \in Runs \ new : \/ run'[r].status = run[r].status
                               \/ r \in caller[c].gone /\ run'[r].status = "failed"
    BY <1>4
<1> HIDE DEF new
<1> QED BY <1>2, <1>3, <1>4, <1>5, Decides

LEMMA InsertRunKeeps == ASSUME Inv, NEW c \in Callers, InsertRun(c) PROVE Inv'
<1> DEFINE gone == caller[c].gone
<1>1. /\ TypeOK /\ gone \in SUBSET Runs /\ run \in [Runs -> RunRows]
      /\ caller \in [Callers -> CallerRecords] /\ caller[c] \in CallerRecords
    BY Typed DEF Inv, Base, AllTyped, CallerRecords
<1>2. PICK r \in Runs :
        /\ IsNextRun(r)
        /\ run' = [MarkLost(gone) EXCEPT ![r].status = "queued"]
        /\ caller' = [caller EXCEPT ![c].pc = "enqueue", ![c].run = r, ![c].gone = {}]
    BY DEF InsertRun
<1>3. /\ caller[c].pc = "decide" /\ caller[c].kind = "trigger" /\ caller[c].active = {}
      /\ UNCHANGED <<rq, horse, cancel, hist, faults>>
    BY DEF InsertRun
<1> DEFINE w == [caller[c] EXCEPT !.pc = "enqueue", !.run = r, !.gone = {}]
           new == {r}
           marked == MarkLost(gone)
<1>4. caller' = [caller EXCEPT ![c] = w]
    BY <1>1, <1>2
<1>5. w \in CallerRecords
    BY <1>1 DEF CallerRecords
<1>6. /\ w.pc = "enqueue" /\ w.run = r /\ w.kind = caller[c].kind /\ w.gone = {}
      /\ w.ask = caller[c].ask
    BY <1>1 DEF CallerRecords
<1> HIDE DEF w
<1>7. /\ marked \in [Runs -> RunRows]
      /\ \A q \in Runs : /\ marked[q].assigned = run[q].assigned /\ marked[q].attempts = run[q].attempts
                         /\ \/ marked[q].status = run[q].status
                            \/ q \in gone /\ marked[q].status = "failed"
    BY <1>1, Marked
<1>8. run' = [marked EXCEPT ![r] = [marked[r] EXCEPT !.status = "queued"]]
    BY <1>2, <1>7
<1> HIDE DEF marked
<1>9. LET x == [marked[r] EXCEPT !.status = "queued"]
      IN  /\ x \in RunRows /\ x.assigned = marked[r].assigned /\ x.attempts = marked[r].attempts
          /\ x.status = "queued"
    BY <1>7 DEF RunRows
<1>10. /\ run' \in [Runs -> RunRows] /\ run'[r].status = "queued"
       /\ \A q \in Runs : run'[q].assigned = run[q].assigned /\ run'[q].attempts = run[q].attempts
       /\ \A q \in Runs \ new : \/ run'[q].status = run[q].status
                                \/ q \in gone /\ run'[q].status = "failed"
    BY <1>7, <1>8, <1>9
<1>11. new \in SUBSET Runs /\ new = {w.run} /\ w.run \in Runs
    BY <1>6
<1>12. \A q \in new : run[q].status = "absent" /\ run'[q].status = "queued"
    BY <1>2, <1>10 DEF IsNextRun
<1>13. /\ w.pc = "enqueue" /\ w.run \in Runs /\ new = {w.run} /\ w.gone = {}
       /\ w.kind = "trigger" /\ caller[c].kind = "trigger" /\ caller[c].active = {}
    BY <1>3, <1>6, <1>11
<1>14. w.ask \subseteq caller[c].ask
    BY <1>6
<1> HIDE DEF new
<1> QED BY <1>3, <1>4, <1>5, <1>10, <1>11, <1>12, <1>13, <1>14, Decides

LEMMA EnqueueKeeps == ASSUME Inv, NEW c \in Callers, Enqueue(c) PROVE Inv'
<1> DEFINE r == caller[c].run
           w == [caller[c] EXCEPT !.pc = "assign"]
           queued == [status |-> "queued", retries |-> MaxRetries]
<1>1. /\ Base /\ TypeOK /\ AllTyped /\ OneTrigger /\ Agreeing /\ CallerOk(c)
      /\ caller \in [Callers -> CallerRecords] /\ caller[c] \in CallerRecords
    BY Typed DEF Inv, Base, AllTyped
<1>2. /\ caller[c].pc = "enqueue" /\ caller' = [caller EXCEPT ![c] = w]
      /\ rq' = [rq EXCEPT ![r] = queued] /\ UNCHANGED <<run, horse, cancel, hist, faults>>
    BY <1>1 DEF Enqueue
<1>3. w \in CallerRecords
    BY <1>1 DEF CallerRecords
<1>4. /\ w.pc = "assign" /\ w.run = r /\ w.kind = caller[c].kind /\ w.gone = caller[c].gone
      /\ w.ask = caller[c].ask
    BY <1>1 DEF CallerRecords
<1> HIDE DEF w
<1>5. /\ r \in Runs /\ r # None /\ caller[c].kind = "trigger" /\ run[r].status # "absent"
      /\ \A d \in Callers : caller[d].run = r => d = c
      /\ rq[r].status = "none" /\ run[r].attempts = 0 /\ \A h \in Horses : horse[h].run # r
    BY <1>1, <1>2 DEF CallerOk, CallerRecords
<1> HIDE DEF r
<1>6. /\ queued \in RqJobs /\ queued.status = "queued" /\ queued.retries = MaxRetries
    BY JobsAssumption DEF RqJobs
<1> HIDE DEF queued
<1>7. /\ caller'[c] = w /\ (\A d \in Callers \ {c} : caller'[d] = caller[d])
      /\ rq'[r] = queued /\ (\A q \in Runs \ {r} : rq'[q] = rq[q])
    BY <1>1, <1>2, <1>5 DEF AllTyped
<1>8. TypeOK'
    BY <1>1, <1>2, <1>3, <1>6, Typed DEF AllTyped
<1>9. ASSUME NEW d \in Callers PROVE CallerOk(d)'
    <2>1. CallerOk(d) /\ caller[d].run \in Runs \cup {None}
        BY <1>1 DEF Base, AllTyped, CallerRecords
    <2>2. CASE d = c
        BY <1>2, <1>4, <1>5, <1>7, <2>2 DEF CallerOk
    <2>3. CASE d # c
        <3>1. caller'[d] = caller[d] /\ caller[d].run # r
            BY <1>5, <1>7, <2>3
        <3>2. caller[d].run # None => rq'[caller[d].run] = rq[caller[d].run]
            BY <1>7, <2>1, <3>1
        <3>3. \A e \in Callers : caller'[e].run = caller[e].run
            BY <1>4, <1>7 DEF r
        <3> QED BY <1>2, <2>1, <3>1, <3>2, <3>3 DEF CallerOk
    <2> QED BY <2>2, <2>3
<1>10. OneTrigger'
    BY <1>1, <1>2, <1>4, <1>5, <1>7 DEF OneTrigger
<1>11. \A h \in Horses : horse[h].run # None => horse[h].run \in Runs /\ rq'[horse[h].run] = rq[horse[h].run]
    BY <1>1, <1>5, <1>7 DEF AllTyped, HorseRecords
<1>12. ASSUME NEW h \in Horses PROVE HorseOk(h)' /\ StartOk(h)'
    <2>1. HorseOk(h) /\ StartOk(h)
        BY <1>1 DEF Base
    <2> QED BY <1>2, <1>11, <2>1 DEF HorseOk, StartOk
<1>13. ASSUME NEW q \in Runs PROVE RowOk(q)'
    <2>1. RowOk(q)
        BY <1>1 DEF Base
    <2> QED BY <1>2, <1>5, <1>6, <1>7, <2>1, JobsAssumption DEF RowOk
<1>14. Agreeing'
    <2>1. RecordsAgree'
        BY <1>1, <1>2, <1>6, <1>7 DEF Agreeing, RecordsAgree
    <2>2. \A h \in Horses : horse[h].pc # "idle" => horse[h].run # None
        BY <1>1 DEF Base, HorseOk
    <2> QED BY <1>1, <1>2, <1>11, <2>1, <2>2 DEF Agreeing, MustBeTerminal
<1>15. \A q \in Runs : BeingEnqueued(q)' <=> BeingEnqueued(q)
    BY <1>4, <1>7 DEF BeingEnqueued, r
<1>16. BeingEnqueued(r)
    BY DEF BeingEnqueued, r
<1>17. Tracked'
    <2>1. Tracked
        BY DEF Inv
    <2>2. ASSUME NEW q \in Runs \ hist.adrift, RqActive(q)' PROVE run'[q].assigned \/ BeingEnqueued(q)'
        BY <1>2, <1>7, <1>15, <1>16, <2>1, <2>2 DEF Tracked, RqActive
    <2>3. ASSUME NEW q \in Runs, Dead(q) PROVE Dead(q)'
        <3>1. q # r
            BY <1>2, <2>3 DEF Dead, r
        <3> QED BY <1>2, <1>4, <1>7, <2>3, <3>1 DEF Dead, RqActive
    <2>4. ASSUME NEW d \in Callers
          PROVE  (\A q \in caller'[d].ask : run'[q].assigned) /\ (\A q \in caller'[d].gone \ hist.adrift : Dead(q)')
        <3>1. /\ caller'[d].ask = caller[d].ask /\ caller'[d].gone = caller[d].gone
              /\ caller[d].gone \subseteq Runs
            BY <1>1, <1>4, <1>7 DEF AllTyped, CallerRecords
        <3> QED BY <1>2, <2>1, <2>3, <3>1 DEF Tracked
    <2>5. \A h \in Horses : horse[h].pc \in WithWorker /\ horse[h].run \notin hist.adrift =>
                rq'[horse[h].run].status = "started"
        BY <1>1, <1>11, <2>1 DEF Tracked, WithWorker, Base, HorseOk
    <2> QED BY <1>2, <2>2, <2>4, <2>5 DEF Tracked
<1>18. Single'
    <2>1. Single
        BY DEF Inv
    <2>2. r \notin Escaped => Active(r)
        BY <1>2, <2>1 DEF Single, ToBeRun, r
    <2>3. \A q \in Runs : Working(q)' => Working(q)
        BY <1>2, <1>7, <1>15, <1>16, <2>2 DEF Working, RqActive, Active, Escaped
    <2>4. \A q \in Runs \ Escaped : rq'[q].status \in {"queued", "scheduled"} => Active(q)
        BY <1>7, <2>1, <2>2 DEF Single, ToBeRun
    <2>5. \A h \in Horses : horse[h].pc # "idle" => rq'[horse[h].run] = rq[horse[h].run]
        BY <1>1, <1>11 DEF Base, HorseOk
    <2>6. \A d \in Callers : caller'[d].pc = "enqueue" => caller[d].pc = "enqueue" /\ caller'[d].run = caller[d].run
        BY <1>4, <1>7
    <2>7. ToBeRun'
        BY <1>2, <2>1, <2>4, <2>5, <2>6 DEF Single, ToBeRun, MustBeActive, Active, Escaped
    <2>8. ASSUME NEW d \in Callers, caller'[d].kind = "trigger",
                 caller'[d].pc \in {"ask", "refresh", "decide"}
          PROVE  FALSE
        BY <1>1, <1>2, <1>4, <1>5, <1>7, <2>8 DEF OneTrigger
    <2> QED BY <2>1, <2>3, <2>7, <2>8 DEF Single
<1> QED BY <1>8, <1>9, <1>10, <1>12, <1>13, <1>14, <1>17, <1>18 DEF Inv, Base

LEMMA AssignKeeps == ASSUME Inv, NEW c \in Callers, Assign(c) PROVE Inv'
<1> DEFINE r == caller[c].run
           row == [run[r] EXCEPT !.assigned = TRUE]
<1>1. /\ Base /\ TypeOK /\ AllTyped /\ OneTrigger /\ Agreeing /\ CallerOk(c)
      /\ caller \in [Callers -> CallerRecords] /\ caller[c] \in CallerRecords
    BY Typed DEF Inv, Base, AllTyped
<1>2. /\ IdleCaller \in CallerRecords /\ IdleCaller.pc = "idle" /\ IdleCaller.run = None
      /\ IdleCaller.ask = {} /\ IdleCaller.gone = {}
    BY DEF IdleCaller, CallerRecords
<1>3. caller[c].pc = "assign" /\ r \in Runs /\ r # None /\ run[r].status # "absent"
    BY <1>1 DEF Assign, CallerOk, CallerRecords
<1>4. /\ run' = [run EXCEPT ![r] = row] /\ caller' = [caller EXCEPT ![c] = IdleCaller]
      /\ UNCHANGED <<rq, horse, cancel, hist, faults>>
    BY <1>1, <1>3 DEF Assign, AllTyped
<1>5. /\ row \in RunRows /\ row.assigned /\ row.status = run[r].status /\ row.attempts = run[r].attempts
    <2>1. run[r] \in RunRows
        BY <1>1, <1>3 DEF AllTyped
    <2> QED BY ONLY <2>1 DEF RunRows
<1> HIDE DEF row, IdleCaller
<1>6. /\ \A q \in Runs : /\ run'[q].status = run[q].status /\ run'[q].attempts = run[q].attempts
                         /\ run[q].assigned => run'[q].assigned
                         /\ q # r => run'[q] = run[q]
      /\ run'[r].assigned
    BY <1>1, <1>3, <1>4, <1>5 DEF AllTyped
<1>7. /\ caller'[c] = IdleCaller /\ \A d \in Callers \ {c} : caller'[d] = caller[d]
    BY <1>1, <1>4
<1>8. TypeOK'
    BY <1>1, <1>2, <1>4, <1>5, Typed DEF AllTyped
<1>9. ASSUME NEW d \in Callers PROVE CallerOk(d)'
    <2>1. CallerOk(d) /\ caller[d].run \in Runs \cup {None}
        BY <1>1 DEF Base, AllTyped, CallerRecords
    <2>2. CASE d = c
        BY <1>2, <1>7, <2>2 DEF CallerOk
    <2>3. CASE d # c
        <3>1. caller'[d] = caller[d] /\ caller[d].run # r
            BY <1>1, <1>3, <1>7, <2>3 DEF CallerOk
        <3>2. caller[d].run # None => /\ run'[caller[d].run] = run[caller[d].run]
                                      /\ \A e \in Callers : caller'[e].run = caller[d].run => e = d
            BY <1>2, <1>6, <1>7, <2>1, <3>1 DEF CallerOk
        <3> QED BY <1>4, <2>1, <3>1, <3>2 DEF CallerOk
    <2> QED BY <2>2, <2>3
<1>10. OneTrigger'
    BY <1>1, <1>2, <1>7 DEF OneTrigger
<1>11. \A h \in Horses : horse[h].run \in Runs \cup {None}
    BY <1>1 DEF AllTyped, HorseRecords
<1>12. ASSUME NEW h \in Horses PROVE HorseOk(h)' /\ StartOk(h)'
    <2>1. HorseOk(h) /\ StartOk(h)
        BY <1>1 DEF Base
    <2> QED BY <1>4, <1>6, <1>11, <2>1 DEF HorseOk, StartOk
<1>13. ASSUME NEW q \in Runs PROVE RowOk(q)'
    <2>1. RowOk(q)
        BY <1>1 DEF Base
    <2> QED BY <1>3, <1>4, <1>6, <2>1 DEF RowOk
<1>14. Agreeing'
    <2>1. RecordsAgree'
        BY <1>1, <1>4, <1>6 DEF Agreeing, RecordsAgree
    <2>2. \A h \in Horses : horse[h].pc # "idle" => run'[horse[h].run].status = run[horse[h].run].status
        BY <1>1, <1>6, <1>11 DEF Base, HorseOk
    <2> QED BY <1>1, <1>4, <2>1, <2>2 DEF Agreeing, MustBeTerminal
<1>15. \A q \in Runs : q # r => (BeingEnqueued(q)' <=> BeingEnqueued(q))
    BY <1>2, <1>7, JobsAssumption DEF BeingEnqueued, r
<1>16. \A q \in Runs : BeingEnqueued(q)' => BeingEnqueued(q)
    BY <1>2, <1>7, JobsAssumption DEF BeingEnqueued
<1>17. Tracked'
    <2>1. Tracked
        BY DEF Inv
    <2>2. ASSUME NEW q \in Runs \ hist.adrift, RqActive(q)' PROVE run'[q].assigned \/ BeingEnqueued(q)'
        BY <1>4, <1>6, <1>15, <2>1, <2>2 DEF Tracked, RqActive
    <2>3. \A q \in Runs : Dead(q) => Dead(q)'
        BY <1>2, <1>4, <1>6, <1>7 DEF Dead, RqActive
    <2>4. ASSUME NEW d \in Callers
          PROVE  (\A q \in caller'[d].ask : run'[q].assigned) /\ (\A q \in caller'[d].gone \ hist.adrift : Dead(q)')
        <3>1. /\ caller'[d].ask \subseteq caller[d].ask /\ caller'[d].gone \subseteq caller[d].gone
              /\ caller[d].gone \subseteq Runs /\ caller[d].ask \subseteq Runs
            BY <1>1, <1>2, <1>7 DEF AllTyped, CallerRecords
        <3> QED BY <1>6, <2>1, <2>3, <3>1 DEF Tracked
    <2> QED BY <1>4, <2>1, <2>2, <2>4 DEF Tracked
<1>18. Single'
    <2>1. Single
        BY DEF Inv
    <2>2. \A q \in Runs : Active(q)' <=> Active(q)
        BY <1>6 DEF Active
    <2>3. \A q \in Runs : Working(q)' => Working(q)
        BY <1>4, <1>16, <2>2 DEF Working, RqActive, Escaped
    <2>4. \A h \in Horses : horse[h].pc # "idle" => run'[horse[h].run].status = run[horse[h].run].status
        BY <1>1, <1>6, <1>11 DEF Base, HorseOk
    <2>5. ASSUME NEW d \in Callers, caller'[d].pc = "enqueue", caller'[d].run \notin Escaped
          PROVE  run'[caller'[d].run].status \in ACTIVE
        <3>1. caller'[d] = caller[d] /\ CallerOk(d) /\ caller[d].run \in Runs \cup {None}
            BY <1>1, <1>2, <1>7, <2>5 DEF Base, AllTyped, CallerRecords
        <3>2. caller[d].run \in Runs /\ run[caller[d].run].status \in ACTIVE
            BY <2>1, <2>5, <3>1 DEF Single, ToBeRun, CallerOk, Active
        <3> QED BY <1>6, <3>1, <3>2
    <2>6. ToBeRun'
        BY <1>4, <2>1, <2>2, <2>4, <2>5 DEF Single, ToBeRun, MustBeActive, Active, Escaped
    <2>7. ASSUME NEW d \in Callers, caller'[d].kind = "trigger",
                 caller'[d].pc \in {"ask", "refresh", "decide"}, NEW q \in Runs, Working(q)'
          PROVE  q \in caller'[d].active
        <3>1. caller'[d] = caller[d]
            BY <1>2, <1>7, <2>7
        <3> QED BY <2>1, <2>3, <2>7, <3>1 DEF Single
    <2> QED BY <2>1, <2>3, <2>6, <2>7 DEF Single
<1> QED BY <1>8, <1>9, <1>10, <1>12, <1>13, <1>14, <1>17, <1>18 DEF Inv, Base

-----------------------------------------------------------------------------
(* The steps of workers                                                    *)

\* A worker moves with its run: its row, its job, and nothing else.
LEMMA HorseMoves ==
    ASSUME Inv, NEW h \in Horses, NEW r \in Runs,
           horse[h].run = r \/ (horse[h].run = None /\ rq[r].status = "queued"),
           NEW w \in HorseRecords, NEW row \in RunRows, NEW jb \in RqJobs,
           horse' = [horse EXCEPT ![h] = w], run' = [run EXCEPT ![r] = row],
           rq' = [rq EXCEPT ![r] = jb], UNCHANGED <<caller, cancel>>,
           Grows,
           w.run \in {r, None}, w.run = None <=> w.pc = "idle",
           row.status # "absent", run[r].assigned => row.assigned,
           w.run = r =>
                /\ jb.status \in {"none", "started", "stopped"}
                /\ jb.status = "stopped" => w.pc \in {"stopped", "handled"}
                /\ w.pc = "stopped" => jb.status # "started",
           row.attempts + jb.retries <= MaxRetries + 1,
           jb.status \in {"queued", "scheduled"} \/ w.pc \in {"start", "begin"} =>
                row.attempts + jb.retries <= MaxRetries,
           r \notin hist'.unrecorded =>
                /\ jb.status \in {"finished", "failed", "stopped"} /\ w.run = None
                        => row.status \in {"succeeded", "failed"}
                /\ MustBeTerminal(w.pc, jb) => row.status \in {"succeeded", "failed"},
           jb.status \in RQ_ACTIVE_STATUSES => RqActive(r),
           r \notin hist'.adrift => (w.pc \in WithWorker => jb.status = "started"),
           r \notin Escaped' =>
                    /\ jb.status \in {"queued", "scheduled"} => row.status \in ACTIVE
                    /\ MustBeActive(w.pc, jb) => row.status \in ACTIVE
                    /\ row.status \in ACTIVE => Active(r)
    PROVE  Inv'
<1>1. Base /\ TypeOK /\ AllTyped /\ OneTrigger /\ Agreeing /\ HorseOk(h)
    BY Typed DEF Inv, Base
<1>2. /\ horse'[h] = w /\ (\A g \in Horses \ {h} : horse'[g] = horse[g])
      /\ rq'[r] = jb /\ (\A q \in Runs \ {r} : rq'[q] = rq[q])
      /\ run'[r] = row /\ (\A q \in Runs \ {r} : run'[q] = run[q])
    BY <1>1 DEF AllTyped
<1>3. /\ r # None /\ run[r].status # "absent"
      /\ \A g \in Horses \ {h} : horse[g].run # r
      /\ \A d \in Callers : caller[d].pc = "enqueue" => caller[d].run # r
    <2>1. r # None
        BY JobsAssumption
    <2>2. CASE horse[h].run = r
        BY <1>1, <2>1, <2>2 DEF HorseOk, Base, CallerOk
    <2>3. CASE rq[r].status = "queued"
        BY <1>1, <2>1, <2>3 DEF Base, HorseOk, CallerOk, RowOk
    <2> QED BY <2>1, <2>2, <2>3
<1>4. TypeOK'
    BY <1>1, Typed DEF AllTyped, Grows
<1>5. ASSUME NEW d \in Callers PROVE CallerOk(d)'
    <2>1. CallerOk(d) /\ caller[d].run \in Runs \cup {None}
        BY <1>1 DEF Base, AllTyped, CallerRecords
    <2>2. caller[d].run # None => run'[caller[d].run].status # "absent"
        BY <1>2, <2>1 DEF CallerOk
    <2>3. caller[d].pc = "enqueue" =>
            /\ caller[d].run \in Runs \ {r}
            /\ rq'[caller[d].run] = rq[caller[d].run] /\ run'[caller[d].run] = run[caller[d].run]
            /\ \A g \in Horses : horse'[g].run # caller[d].run
        BY <1>2, <1>3, <2>1 DEF CallerOk
    <2> QED BY <2>1, <2>2, <2>3 DEF CallerOk
<1>6. OneTrigger'
    BY <1>1 DEF OneTrigger
<1>7. ASSUME NEW g \in Horses PROVE HorseOk(g)' /\ StartOk(g)'
    <2>1. HorseOk(g) /\ StartOk(g) /\ horse[g].run \in Runs \cup {None}
        BY <1>1 DEF Base, AllTyped, HorseRecords
    <2>2. CASE g = h
        <3>1. w.run # None => \A e \in Horses : horse'[e].run = w.run => e = h
            BY <1>2, <1>3
        <3> QED BY <1>2, <1>3, <2>2, <3>1 DEF HorseOk, StartOk
    <2>3. CASE g # h
        <3>1. horse'[g] = horse[g] /\ horse[g].run # r
            BY <1>2, <1>3, <2>3
        <3>2. horse[g].run # None =>
                /\ rq'[horse[g].run] = rq[horse[g].run] /\ run'[horse[g].run] = run[horse[g].run]
                /\ \A e \in Horses : horse'[e].run = horse[g].run => e = g
            BY <1>2, <2>1, <2>3, <3>1 DEF HorseOk
        <3> QED BY <2>1, <3>1, <3>2 DEF HorseOk, StartOk
    <2> QED BY <2>2, <2>3
<1>8. ASSUME NEW q \in Runs PROVE RowOk(q)'
    <2>1. RowOk(q)
        BY <1>1 DEF Base
    <2>2. CASE q = r
        BY <1>2, <2>2 DEF RowOk
    <2>3. CASE q # r
        BY <1>2, <2>1, <2>3 DEF RowOk
    <2> QED BY <2>2, <2>3
<1>9. Agreeing'
    <2>1. hist.unrecorded \subseteq hist'.unrecorded
        BY DEF Grows
    <2>2. ASSUME NEW q \in Runs \ hist'.unrecorded, rq'[q].status \in {"finished", "failed", "stopped"},
                 \A g \in Horses : horse'[g].run # q
          PROVE  run'[q].status \in {"succeeded", "failed"}
        <3>1. CASE q = r
            BY <1>2, <2>2, <3>1
        <3>2. CASE q # r
            <4>1. \A g \in Horses : horse[g].run # q
                BY <1>2, <1>3, <2>2, <3>2, JobsAssumption
            <4> QED BY <1>1, <1>2, <2>1, <2>2, <3>2, <4>1 DEF Agreeing, RecordsAgree
        <3> QED BY <3>1, <3>2
    <2>3. ASSUME NEW g \in Horses, horse'[g].run \notin hist'.unrecorded,
                 MustBeTerminal(horse'[g].pc, rq'[horse'[g].run])
          PROVE  run'[horse'[g].run].status \in {"succeeded", "failed"}
        <3>1. CASE g = h
            <4>1. w.run = r
                BY <1>2, <2>3, <3>1 DEF MustBeTerminal
            <4> QED BY <1>2, <2>3, <3>1, <4>1
        <3>2. CASE g # h
            <4>1. horse'[g] = horse[g] /\ horse[g].run \in Runs \ {r}
                BY <1>1, <1>2, <1>3, <2>3, <3>2 DEF Base, HorseOk, AllTyped, HorseRecords, MustBeTerminal
            <4>2. MustBeTerminal(horse[g].pc, rq[horse[g].run])
                BY <1>2, <2>3, <4>1
            <4> QED BY <1>1, <1>2, <2>1, <2>3, <4>1, <4>2 DEF Agreeing
        <3> QED BY <3>1, <3>2
    <2> QED BY <2>2, <2>3 DEF Agreeing, RecordsAgree, MustBeTerminal
<1>11. \A q \in Runs : /\ BeingEnqueued(q)' <=> BeingEnqueued(q)
                       /\ RqActive(q)' => RqActive(q)
    BY <1>2 DEF BeingEnqueued, RqActive
<1>12. Tracked'
    <2>1. Tracked
        BY DEF Inv
    <2>2. (\A q \in Runs : run[q].assigned => run'[q].assigned) /\ hist.adrift \subseteq hist'.adrift
        BY <1>2 DEF Grows
    <2>3. ASSUME NEW q \in Runs, Dead(q) PROVE Dead(q)'
        BY <1>2, <1>11, <2>3 DEF Dead
    <2>4. ASSUME NEW d \in Callers
          PROVE  (\A q \in caller'[d].ask : run'[q].assigned) /\ (\A q \in caller'[d].gone \ hist'.adrift : Dead(q)')
        <3>1. caller[d].gone \subseteq Runs /\ caller[d].ask \subseteq Runs
            BY <1>1 DEF AllTyped, CallerRecords
        <3> QED BY <2>1, <2>2, <2>3, <3>1 DEF Tracked
    <2>5. ASSUME NEW g \in Horses, horse'[g].pc \in WithWorker, horse'[g].run \notin hist'.adrift
          PROVE  rq'[horse'[g].run].status = "started"
        <3>1. CASE g = h
            <4>1. w.run = r
                BY <1>2, <2>5, <3>1 DEF WithWorker
            <4> QED BY <1>2, <2>5, <3>1, <4>1
        <3>2. CASE g # h
            <4>1. horse'[g] = horse[g] /\ horse[g].run \in Runs \ {r}
                BY <1>1, <1>2, <1>3, <2>5, <3>2 DEF Base, HorseOk, AllTyped, HorseRecords, WithWorker
            <4> QED BY <1>2, <2>1, <2>2, <2>5, <4>1 DEF Tracked
        <3> QED BY <3>1, <3>2
    <2> QED BY <1>11, <2>1, <2>2, <2>4, <2>5 DEF Tracked
<1>13. Single'
    <2>1. Single
        BY DEF Inv
    <2>2. Escaped \subseteq Escaped' /\ \A q \in Runs \ Escaped' : Active(q)' => Active(q)
        BY <1>2, EscapesStay DEF Active
    <2>3. \A q \in Runs : Working(q)' => Working(q)
        BY <1>11, <2>2 DEF Working
    <2>4. \A q \in Runs \ Escaped' : rq'[q].status \in {"queued", "scheduled"} => run'[q].status \in ACTIVE
        BY <1>2, <2>1, <2>2 DEF Single, ToBeRun, Active
    <2>5. ASSUME NEW g \in Horses, horse'[g].run \notin Escaped',
                 MustBeActive(horse'[g].pc, rq'[horse'[g].run])
          PROVE  run'[horse'[g].run].status \in ACTIVE
        <3>1. CASE g = h
            <4>1. w.run = r
                BY <1>2, <2>5, <3>1 DEF MustBeActive
            <4> QED BY <1>2, <2>5, <3>1, <4>1
        <3>2. CASE g # h
            <4>1. horse'[g] = horse[g] /\ horse[g].run \in Runs \ {r}
                BY <1>1, <1>2, <1>3, <2>5, <3>2 DEF Base, HorseOk, AllTyped, HorseRecords, MustBeActive
            <4>2. MustBeActive(horse[g].pc, rq[horse[g].run])
                BY <1>2, <2>5, <4>1
            <4> QED BY <1>2, <2>1, <2>2, <2>5, <4>1, <4>2 DEF Single, ToBeRun, Active
        <3> QED BY <3>1, <3>2
    <2>6. ASSUME NEW d \in Callers, caller[d].pc = "enqueue", caller[d].run \notin Escaped'
          PROVE  run'[caller[d].run].status \in ACTIVE
        <3>1. caller[d].run \in Runs \ {r}
            BY <1>1, <1>3, <2>6 DEF Base, CallerOk, AllTyped, CallerRecords
        <3> QED BY <1>2, <2>1, <2>2, <2>6, <3>1 DEF Single, ToBeRun, Active
    <2>7. ToBeRun'
        BY <2>4, <2>5, <2>6 DEF ToBeRun, Active, MustBeActive
    <2> QED BY <2>1, <2>3, <2>7 DEF Single
<1> QED BY <1>4, <1>5, <1>6, <1>7, <1>8, <1>9, <1>12, <1>13 DEF Inv, Base

\* What is known of a busy worker and its run.
LEMMA HorseFacts ==
    ASSUME Inv, NEW h \in Horses, horse[h].pc # "idle", NEW r, r = horse[h].run
    PROVE  /\ r \in Runs /\ r # None /\ run[r] \in RunRows /\ rq[r] \in RqJobs
           /\ horse[h] \in HorseRecords
           /\ run \in [Runs -> RunRows] /\ rq \in [Runs -> RqJobs] /\ horse \in [Horses -> HorseRecords]
           /\ hist \in Histories /\ faults \subseteq AllowedFaults
           /\ run[r].status # "absent" /\ run[r].attempts \in Nat
           /\ rq[r].retries \in Nat /\ MaxRetries \in Nat
           /\ rq[r].status \in {"none", "started", "stopped"}
           /\ rq[r].status = "stopped" => horse[h].pc \in {"stopped", "handled"}
           /\ horse[h].pc = "stopped" => rq[r].status # "started"
           /\ run[r].attempts + rq[r].retries <= MaxRetries + 1
           /\ horse[h].pc \in {"start", "begin"} => run[r].attempts + rq[r].retries <= MaxRetries
           /\ r \notin hist.unrecorded => (MustBeTerminal(horse[h].pc, rq[r]) =>
                                              run[r].status \in {"succeeded", "failed"})
           /\ r \notin hist.adrift => (horse[h].pc \in WithWorker => rq[r].status = "started")
           /\ r \notin Escaped => (MustBeActive(horse[h].pc, rq[r]) => Active(r))
<1>1. AllTyped /\ HorseOk(h) /\ StartOk(h) /\ Agreeing
    BY Typed DEF Inv, Base
<1>2. r \in Runs /\ r # None
    BY <1>1, JobsAssumption DEF HorseOk, AllTyped, HorseRecords
<1>3. RowOk(r) /\ run[r] \in RunRows /\ rq[r] \in RqJobs /\ horse[h] \in HorseRecords
    BY <1>1, <1>2 DEF Inv, Base, AllTyped
<1>4. run[r].attempts \in Nat /\ rq[r].retries \in Nat /\ MaxRetries \in Nat
    BY <1>3, JobsAssumption DEF RunRows, RqJobs
<1>5. r \notin hist.unrecorded => (MustBeTerminal(horse[h].pc, rq[r]) =>
                                      run[r].status \in {"succeeded", "failed"})
    BY <1>1 DEF Agreeing
<1>6. r \notin hist.adrift => (horse[h].pc \in WithWorker => rq[r].status = "started")
    BY DEF Inv, Tracked
<1>7. r \notin Escaped => (MustBeActive(horse[h].pc, rq[r]) => Active(r))
    BY DEF Inv, Single, ToBeRun
<1> QED BY <1>1, <1>2, <1>3, <1>4, <1>5, <1>6, <1>7 DEF HorseOk, StartOk, RowOk, AllTyped

LEMMA DequeueKeeps ==
    ASSUME Inv, NEW h \in Horses, NEW r \in Runs, Dequeue(h, r)
    PROVE  Inv'
<1> DEFINE w == [pc |-> "start", run |-> r]
           row == run[r]
           jb == [rq[r] EXCEPT !.status = "started"]
<1>1. AllTyped /\ HorseOk(h) /\ RowOk(r) /\ row \in RunRows /\ rq[r] \in RqJobs /\ r # None
    BY Typed, JobsAssumption DEF Inv, Base, AllTyped
<1>2. /\ horse[h].run = None /\ rq[r].status = "queued"
      /\ horse' = [horse EXCEPT ![h] = w] /\ UNCHANGED <<run, caller, cancel, hist, faults>>
    BY <1>1 DEF Dequeue, At, HorseOk
<1>3. rq' = [rq EXCEPT ![r] = jb] /\ run' = [run EXCEPT ![r] = row]
    BY <1>1, <1>2 DEF Dequeue, SetRqStatus, AllTyped
<1>4. jb \in RqJobs /\ jb.status = "started" /\ jb.retries = rq[r].retries
    BY <1>1 DEF RqJobs
<1>5. w \in HorseRecords /\ w.pc = "start" /\ w.run = r
    BY DEF HorseRecords
<1>6. /\ row.status # "absent" /\ row.attempts + jb.retries <= MaxRetries
      /\ row.attempts + jb.retries <= MaxRetries + 1
    <2>1. row.attempts \in Nat /\ rq[r].retries \in Nat /\ MaxRetries \in Nat
        BY <1>1, JobsAssumption DEF RunRows, RqJobs
    <2>2. row.status # "absent" /\ row.attempts + rq[r].retries <= MaxRetries
        BY <1>1, <1>2 DEF RowOk
    <2> QED BY <1>4, <2>1, <2>2
<1>7. RqActive(r)
    BY <1>2 DEF RqActive, RQ_ACTIVE_STATUSES
<1>8. r \notin Escaped' => row.status \in ACTIVE /\ Active(r)
    BY <1>2 DEF Inv, Single, ToBeRun, Active, Escaped
<1>9. Grows
    BY <1>1, <1>2, NothingForgotten
<1>10. ~MustBeTerminal(w.pc, jb)
    BY <1>5 DEF MustBeTerminal
<1> HIDE DEF w, row, jb
<1>11. run[r].assigned => row.assigned
    BY DEF row
<1>12. /\ horse[h].run = r \/ (horse[h].run = None /\ rq[r].status = "queued")
       /\ w.run \in {r, None} /\ (w.run = None <=> w.pc = "idle")
       /\ jb.status \in {"none", "started", "stopped"} /\ jb.status # "stopped" /\ w.pc # "stopped"
       /\ jb.status \notin {"finished", "failed", "stopped", "queued", "scheduled"}
    BY <1>1, <1>2, <1>4, <1>5
<1> QED BY <1>1, <1>2, <1>3, <1>4, <1>5, <1>6, <1>7, <1>8, <1>9, <1>10, <1>11, <1>12, HorseMoves

BusyPcs == {"begin", "body", "ok", "skipped", "raised", "killed", "stopped", "handled"}

\* A busy worker goes on with its run.
LEMMA HorseGoesOn ==
    ASSUME Inv, NEW h \in Horses, horse[h].pc # "idle", NEW r \in Runs, r = horse[h].run,
           NEW pc \in BusyPcs,
           NEW row \in RunRows, NEW jb \in RqJobs,
           horse' = [horse EXCEPT ![h].pc = pc], run' = [run EXCEPT ![r] = row],
           rq' = [rq EXCEPT ![r] = jb], UNCHANGED <<caller, cancel>>, Grows,
           row.status # "absent", run[r].assigned => row.assigned,
           jb.status = rq[r].status \/ (jb.status = "stopped" /\ pc = "stopped"),
           pc = "stopped" => jb.status = "stopped",
           jb.status = "stopped" => pc \in {"stopped", "handled"},
           row.attempts + jb.retries <= MaxRetries + 1,
           pc = "begin" => row.attempts + jb.retries <= MaxRetries,
           r \notin hist'.unrecorded =>
                (MustBeTerminal(pc, jb) => row.status \in {"succeeded", "failed"}),
           pc \in WithWorker => horse[h].pc \in WithWorker,
           r \notin Escaped' =>
                    /\ MustBeActive(pc, jb) => row.status \in ACTIVE
                    /\ row.status \in ACTIVE => Active(r)
    PROVE  Inv'
<1> DEFINE w == [horse[h] EXCEPT !.pc = pc]
<1>1. /\ r \in Runs /\ r # None /\ horse[h] \in HorseRecords /\ horse \in [Horses -> HorseRecords]
      /\ rq[r].status \in {"none", "started", "stopped"}
      /\ r \notin hist.adrift => (horse[h].pc \in WithWorker => rq[r].status = "started")
    BY HorseFacts
<1>2. w \in HorseRecords /\ w.pc = pc /\ w.run = r
    BY <1>1 DEF HorseRecords, BusyPcs
<1>3. horse' = [horse EXCEPT ![h] = w]
    BY <1>1
<1> HIDE DEF w
<1>4. hist.adrift \subseteq hist'.adrift
    BY DEF Grows
<1>5. jb.status \in RQ_ACTIVE_STATUSES => RqActive(r)
    BY DEF RqActive, RQ_ACTIVE_STATUSES
<1>6. /\ w.run \in {r, None} /\ (w.run = None <=> w.pc = "idle")
      /\ jb.status \in {"none", "started", "stopped"}
      /\ jb.status = "stopped" => w.pc \in {"stopped", "handled"}
      /\ w.pc = "stopped" => jb.status # "started"
      /\ ~(jb.status \in {"queued", "scheduled"} \/ w.pc = "start")
      /\ w.pc = "begin" => row.attempts + jb.retries <= MaxRetries
      /\ w.run # None /\ jb.status \notin {"queued", "scheduled"}
    BY <1>1, <1>2 DEF BusyPcs
<1>6a. w.run = r =>
          /\ jb.status \in {"none", "started", "stopped"}
          /\ jb.status = "stopped" => w.pc \in {"stopped", "handled"}
          /\ w.pc = "stopped" => jb.status # "started"
    BY ONLY <1>6
<1>6b. jb.status \in {"queued", "scheduled"} \/ w.pc \in {"start", "begin"} =>
          row.attempts + jb.retries <= MaxRetries
    BY ONLY <1>6
<1>7. r \notin hist'.adrift => (w.pc \in WithWorker => jb.status = "started")
    BY <1>1, <1>2, <1>4 DEF WithWorker
<1>8. r \notin hist'.unrecorded => (MustBeTerminal(w.pc, jb) => row.status \in {"succeeded", "failed"})
    BY <1>2
<1>8a. r \notin hist'.unrecorded =>
          /\ jb.status \in {"finished", "failed", "stopped"} /\ w.run = None
                  => row.status \in {"succeeded", "failed"}
          /\ MustBeTerminal(w.pc, jb) => row.status \in {"succeeded", "failed"}
    BY ONLY <1>6, <1>8
<1>9. r \notin Escaped' =>
               /\ jb.status \in {"queued", "scheduled"} => row.status \in ACTIVE
               /\ MustBeActive(w.pc, jb) => row.status \in ACTIVE
               /\ row.status \in ACTIVE => Active(r)
    BY <1>2, <1>6
<1>10. /\ w.run \in {r, None} /\ (w.run = None <=> w.pc = "idle")
       /\ horse[h].run = r \/ (horse[h].run = None /\ rq[r].status = "queued")
    BY <1>6
<1> QED BY <1>2, <1>3, <1>5, <1>6a, <1>6b, <1>7, <1>8a, <1>9, <1>10, HorseMoves

\* A busy worker goes on, its row and its job as they were.
LEMMA HorseAlone ==
    ASSUME Inv, NEW h \in Horses, horse[h].pc # "idle", NEW r, r = horse[h].run,
           NEW pc \in BusyPcs, pc # "stopped",
           horse' = [horse EXCEPT ![h].pc = pc], UNCHANGED <<run, rq, caller, cancel>>, Grows,
           horse[h].pc \in {"stopped", "handled"} => pc = "handled",
           pc = "begin" => horse[h].pc = "start",
           pc \in WithWorker => horse[h].pc \in WithWorker,
           r \notin hist'.unrecorded =>
                (MustBeTerminal(pc, rq[r]) => run[r].status \in {"succeeded", "failed"}),
           r \notin Escaped' => (MustBeActive(pc, rq[r]) => Active(r))
    PROVE  Inv'
<1> DEFINE row == run[r]
           jb == rq[r]
<1>1. /\ r \in Runs /\ row \in RunRows /\ jb \in RqJobs /\ run \in [Runs -> RunRows]
      /\ rq \in [Runs -> RqJobs] /\ row.status # "absent"
      /\ jb.status = "stopped" => horse[h].pc \in {"stopped", "handled"}
      /\ row.attempts + jb.retries <= MaxRetries + 1
      /\ horse[h].pc = "start" => row.attempts + jb.retries <= MaxRetries
    BY HorseFacts
<1>2. /\ run' = [run EXCEPT ![r] = row] /\ rq' = [rq EXCEPT ![r] = jb]
      /\ run[r].assigned => row.assigned
      /\ jb.status = rq[r].status
    BY <1>1
<1>3. r \notin Escaped' => /\ MustBeActive(pc, jb) => row.status \in ACTIVE
                           /\ row.status \in ACTIVE => Active(r)
    BY DEF Active
<1>4. r \notin hist'.unrecorded => (MustBeTerminal(pc, jb) => row.status \in {"succeeded", "failed"})
    OBVIOUS
<1> HIDE DEF row, jb
<1>5. /\ jb.status = "stopped" => pc \in {"stopped", "handled"}
      /\ pc = "begin" => row.attempts + jb.retries <= MaxRetries
    BY <1>1
<1>6. /\ Inv /\ horse[h].pc # "idle" /\ r = horse[h].run /\ pc # "stopped" /\ UNCHANGED <<caller, cancel>>
      /\ horse' = [horse EXCEPT ![h].pc = pc] /\ Grows
      /\ pc \in WithWorker => horse[h].pc \in WithWorker
    OBVIOUS
<1> QED BY ONLY <1>1, <1>2, <1>3, <1>4, <1>5, <1>6, HorseGoesOn

LEMMA LookKeeps == ASSUME Inv, NEW h \in Horses, Look(h) PROVE Inv'
<1> DEFINE r == horse[h].run
<1>1. horse[h].pc = "start" /\ UNCHANGED <<run, rq, caller, cancel, faults>>
    BY DEF Look, At
<1>2. /\ r \in Runs /\ hist \in Histories /\ faults \subseteq AllowedFaults
      /\ run[r].status # "absent" /\ run[r] \in RunRows
      /\ r \notin Escaped => (MustBeActive("start", rq[r]) => Active(r))
    BY <1>1, HorseFacts
<1>3. r \notin Escaped => Active(r)
    BY <1>2 DEF MustBeActive
<1>4. CASE UNCHANGED hist /\ horse' = [horse EXCEPT ![h].pc = "begin"]
    <2> DEFINE pc == "begin"
    <2>1. /\ horse' = [horse EXCEPT ![h].pc = pc] /\ pc \in BusyPcs /\ pc # "stopped"
          /\ ~MustBeTerminal(pc, rq[r]) /\ pc \in WithWorker /\ horse[h].pc \in WithWorker
          /\ horse[h].pc \notin {"stopped", "handled"}
        BY <1>1, <1>4 DEF BusyPcs, MustBeTerminal, WithWorker
    <2>2. Grows /\ Escaped' = Escaped
        BY <1>1, <1>2, <1>4 DEF Grows, Escaped
    <2> HIDE DEF pc
    <2> QED BY <1>1, <1>3, <2>1, <2>2, HorseAlone
<1>5. CASE /\ horse' = [horse EXCEPT ![h].pc = "skipped"]
           /\ hist' = [hist EXCEPT !.unrecorded = IF run[r].status \in ACTIVE THEN @ \cup {r} ELSE @]
    <2> DEFINE pc == "skipped"
    <2>1. /\ horse' = [horse EXCEPT ![h].pc = pc] /\ pc \in BusyPcs /\ pc \notin {"stopped", "begin"}
          /\ horse[h].pc \in WithWorker /\ horse[h].pc \notin {"stopped", "handled"}
        BY <1>1, <1>5 DEF BusyPcs, WithWorker
    <2>2. Grows /\ Escaped' = Escaped
        BY <1>1, <1>2, <1>5 DEF Grows, Escaped, Histories
    <2>3. r \notin hist'.unrecorded => run[r].status \in {"succeeded", "failed"}
        BY <1>2, <1>5 DEF Histories, RunRows, ACTIVE
    <2> HIDE DEF pc
    <2> QED BY <1>1, <1>3, <2>1, <2>2, <2>3, HorseAlone
<1> QED BY <1>4, <1>5 DEF Look, Become

LEMMA StartKeeps == ASSUME Inv, NEW h \in Horses, Start(h) PROVE Inv'
<1> DEFINE r == horse[h].run
           tries == run[r].attempts + 1
           row == [run[r] EXCEPT !.status = "running", !.attempts = tries]
           jb == rq[r]
<1>1. horse[h].pc \in {"start", "begin"} /\ UNCHANGED <<rq, caller, cancel, hist, faults>>
    BY DEF Start, At
<1>2. /\ r \in Runs /\ run[r] \in RunRows /\ rq[r] \in RqJobs /\ run \in [Runs -> RunRows]
      /\ rq \in [Runs -> RqJobs]
      /\ run[r].attempts \in Nat /\ rq[r].retries \in Nat /\ MaxRetries \in Nat
      /\ rq[r].status # "stopped" /\ run[r].attempts + rq[r].retries <= MaxRetries
      /\ r \notin Escaped => (MustBeActive(horse[h].pc, rq[r]) => Active(r))
    BY <1>1, HorseFacts
<1>3. run' = [run EXCEPT ![r] = row] /\ horse' = [horse EXCEPT ![h].pc = "body"]
    BY <1>2 DEF Start, Become
<1>4. rq' = [rq EXCEPT ![r] = jb]
    BY <1>1, <1>2
<1>5. tries \in Nat /\ tries + rq[r].retries <= MaxRetries + 1
    BY <1>2
<1> HIDE DEF tries
<1>6. /\ row \in RunRows /\ row.status = "running" /\ row.attempts = tries
      /\ row.assigned = run[r].assigned
    BY <1>2, <1>5 DEF RunRows
<1>7. r \notin Escaped' => Active(r)
    BY <1>1, <1>2 DEF Escaped, MustBeActive
<1>8. ~MustBeTerminal("body", jb) /\ row.status \in ACTIVE
    BY <1>6 DEF MustBeTerminal, ACTIVE
<1> HIDE DEF row, jb
<1>9. jb \in RqJobs /\ jb.status = rq[r].status /\ jb.retries = rq[r].retries
    BY <1>2 DEF jb
<1>10. Grows
    BY <1>1, Typed, NothingForgotten DEF Inv, Base
<1> DEFINE pc == "body"
<1>11. /\ horse[h].pc # "idle" /\ UNCHANGED <<caller, cancel>> /\ pc \in BusyPcs /\ pc \notin {"stopped", "begin"}
       /\ horse[h].pc \in WithWorker /\ ~MustBeTerminal(pc, jb)
       /\ horse' = [horse EXCEPT ![h].pc = pc]
    BY <1>1, <1>3, <1>8 DEF BusyPcs, WithWorker
<1> HIDE DEF pc
<1> QED BY <1>2, <1>3, <1>4, <1>5, <1>6, <1>7, <1>8, <1>9, <1>10, <1>11, HorseGoesOn

LEMMA SucceedKeeps == ASSUME Inv, NEW h \in Horses, Succeed(h) PROVE Inv'
<1> DEFINE r == horse[h].run
           row == [run[r] EXCEPT !.status = "succeeded"]
           jb == rq[r]
<1>1. horse[h].pc = "body" /\ UNCHANGED <<rq, caller, cancel, hist, faults>>
    BY DEF Succeed, At
<1>2. /\ r \in Runs /\ run[r] \in RunRows /\ rq[r] \in RqJobs /\ run \in [Runs -> RunRows]
      /\ rq \in [Runs -> RqJobs]
      /\ rq[r].status # "stopped" /\ run[r].attempts + rq[r].retries <= MaxRetries + 1
    BY <1>1, HorseFacts
<1>3. run' = [run EXCEPT ![r] = row] /\ horse' = [horse EXCEPT ![h].pc = "ok"]
    BY <1>2 DEF Succeed, Become
<1>4. rq' = [rq EXCEPT ![r] = jb]
    BY <1>1, <1>2
<1>5. /\ row \in RunRows /\ row.status = "succeeded" /\ row.attempts = run[r].attempts
      /\ row.assigned = run[r].assigned
    BY <1>2 DEF RunRows
<1>6. ~MustBeActive("ok", jb) /\ row.status \notin ACTIVE
    BY <1>5 DEF MustBeActive, ACTIVE
<1> HIDE DEF row, jb
<1>7. jb \in RqJobs /\ jb.status = rq[r].status /\ jb.retries = rq[r].retries
    BY <1>2 DEF jb
<1>8. Grows
    BY <1>1, Typed, NothingForgotten DEF Inv, Base
<1> DEFINE pc == "ok"
<1>9. /\ horse[h].pc # "idle" /\ UNCHANGED <<caller, cancel>> /\ pc \in BusyPcs /\ pc \notin {"stopped", "begin"}
      /\ horse[h].pc \in WithWorker /\ ~MustBeActive(pc, jb)
      /\ horse' = [horse EXCEPT ![h].pc = pc]
    BY <1>1, <1>3, <1>6 DEF BusyPcs, WithWorker
<1> HIDE DEF pc
<1>10. /\ jb.status # "stopped" /\ row.attempts + jb.retries <= MaxRetries + 1
       /\ row.status # "absent" /\ row.status \in {"succeeded", "failed"} /\ (run[r].assigned => row.assigned)
    BY <1>2, <1>5, <1>7
<1> QED BY <1>2, <1>3, <1>4, <1>5, <1>6, <1>7, <1>8, <1>9, <1>10, HorseGoesOn

LEMMA RaiseKeeps ==
    ASSUME Inv, NEW h \in Horses, NEW retryable \in BOOLEAN, Raise(h, retryable)
    PROVE  Inv'
<1> DEFINE r == horse[h].run
           left == IF retryable THEN rq[r].retries ELSE 0
           status == IF left = 0 THEN "failed" ELSE "queued"
           row == [run[r] EXCEPT !.status = status]
           jb == [rq[r] EXCEPT !.retries = left]
<1>1. horse[h].pc = "body" /\ UNCHANGED <<caller, cancel, hist, faults>>
    BY DEF Raise, At
<1>2. /\ r \in Runs /\ run[r] \in RunRows /\ rq[r] \in RqJobs /\ run \in [Runs -> RunRows]
      /\ rq \in [Runs -> RqJobs]
      /\ run[r].attempts \in Nat /\ rq[r].retries \in Nat /\ MaxRetries \in Nat
      /\ rq[r].status # "stopped" /\ run[r].attempts + rq[r].retries <= MaxRetries + 1
      /\ r \notin Escaped => (MustBeActive("body", rq[r]) => Active(r))
    BY <1>1, HorseFacts
<1>3. /\ run' = [run EXCEPT ![r] = row] /\ rq' = [rq EXCEPT ![r] = jb]
      /\ horse' = [horse EXCEPT ![h].pc = "raised"]
    BY <1>2 DEF Raise, Become
<1>4. /\ left \in 0..MaxRetries /\ left \in Nat /\ left <= rq[r].retries
      /\ status = (IF left = 0 THEN "failed" ELSE "queued") /\ status \in {"failed", "queued"}
    <2>1. rq[r].retries \in 0..MaxRetries
        BY <1>2 DEF RqJobs
    <2> QED BY <1>2, <2>1
<1> HIDE DEF left, status
<1>5. /\ row \in RunRows /\ row.status = status /\ row.attempts = run[r].attempts
      /\ row.assigned = run[r].assigned
    BY <1>2, <1>4 DEF RunRows
<1>6. jb \in RqJobs /\ jb.status = rq[r].status /\ jb.retries = left
    BY <1>2, <1>4 DEF RqJobs
<1> HIDE DEF row, jb
<1>7. row.attempts + jb.retries <= MaxRetries + 1
    BY <1>2, <1>4, <1>5, <1>6
<1>8. MustBeTerminal("raised", jb) => row.status \in {"succeeded", "failed"}
    BY <1>4, <1>5, <1>6 DEF MustBeTerminal
<1>9. MustBeActive("raised", jb) => row.status \in ACTIVE
    BY <1>4, <1>5, <1>6 DEF MustBeActive, ACTIVE
<1>10. r \notin Escaped' => Active(r)
    BY <1>1, <1>2 DEF Escaped, MustBeActive
<1>11. row.status # "absent" /\ (run[r].assigned => row.assigned)
    BY <1>4, <1>5
<1>12. Grows
    BY <1>1, Typed, NothingForgotten DEF Inv, Base
<1> DEFINE pc == "raised"
<1>13. /\ horse[h].pc # "idle" /\ pc \in BusyPcs /\ pc \notin {"stopped", "begin"}
       /\ pc \notin WithWorker
       /\ horse' = [horse EXCEPT ![h].pc = pc]
       /\ MustBeTerminal(pc, jb) => row.status \in {"succeeded", "failed"}
       /\ MustBeActive(pc, jb) => row.status \in ACTIVE
    BY <1>1, <1>3, <1>8, <1>9 DEF BusyPcs, WithWorker
<1> HIDE DEF pc
<1> QED BY <1>1, <1>2, <1>3, <1>5, <1>6, <1>7, <1>10, <1>11, <1>12, <1>13, HorseGoesOn

LEMMA RaiseUnrecordedKeeps == ASSUME Inv, NEW h \in Horses, RaiseUnrecorded(h) PROVE Inv'
<1> DEFINE r == horse[h].run
<1>1. /\ horse[h].pc \in {"start", "begin", "body"} /\ UNCHANGED <<run, rq, caller, cancel>>
      /\ hist' = [hist EXCEPT !.unrecorded = @ \cup {r}] /\ horse' = [horse EXCEPT ![h].pc = "raised"]
    BY DEF RaiseUnrecorded, Become
<1>2. /\ r \in Runs /\ hist \in Histories /\ faults \subseteq AllowedFaults
      /\ r \notin Escaped => (MustBeActive(horse[h].pc, rq[r]) => Active(r))
    BY <1>1, HorseFacts
<1>3. Grows /\ Escaped' = Escaped /\ r \in hist'.unrecorded
    BY <1>1, <1>2 DEF RaiseUnrecorded, Fault, Grows, Escaped, Histories
<1>4. r \notin Escaped' => Active(r)
    BY <1>1, <1>2, <1>3 DEF MustBeActive
<1> DEFINE pc == "raised"
<1>5. /\ horse[h].pc \notin {"idle", "stopped", "handled"} /\ pc \in BusyPcs
      /\ pc \notin {"stopped", "begin"} /\ pc \notin WithWorker
      /\ horse' = [horse EXCEPT ![h].pc = pc]
    BY <1>1 DEF BusyPcs, WithWorker
<1> HIDE DEF pc
<1> QED BY <1>1, <1>3, <1>4, <1>5, HorseAlone

LEMMA RaiseLateKeeps == ASSUME Inv, NEW h \in Horses, RaiseLate(h) PROVE Inv'
<1> DEFINE r == horse[h].run
<1>1. /\ horse[h].pc = "ok" /\ UNCHANGED <<run, rq, caller, cancel, faults>>
      /\ hist' = [hist EXCEPT !.loose = @ \cup {r}] /\ horse' = [horse EXCEPT ![h].pc = "raised"]
    BY DEF RaiseLate, Become, At
<1>2. /\ r \in Runs /\ hist \in Histories /\ faults \subseteq AllowedFaults
      /\ r \notin hist.unrecorded => (MustBeTerminal("ok", rq[r]) =>
                                         run[r].status \in {"succeeded", "failed"})
    BY <1>1, HorseFacts
<1>3. Grows /\ r \in Escaped' /\ hist'.unrecorded = hist.unrecorded
    BY <1>1, <1>2 DEF Grows, Escaped, Histories
<1>4. r \notin hist'.unrecorded => run[r].status \in {"succeeded", "failed"}
    BY <1>2, <1>3 DEF MustBeTerminal
<1> DEFINE pc == "raised"
<1>5. /\ horse[h].pc \notin {"idle", "stopped", "handled"} /\ pc \in BusyPcs
      /\ pc \notin {"stopped", "begin"} /\ pc \notin WithWorker
      /\ horse' = [horse EXCEPT ![h].pc = pc]
    BY <1>1 DEF BusyPcs, WithWorker
<1> HIDE DEF pc
<1> QED BY <1>1, <1>3, <1>4, <1>5, HorseAlone

LEMMA KillKeeps == ASSUME Inv, NEW h \in Horses, Kill(h) PROVE Inv'
<1> DEFINE r == horse[h].run
<1>1. /\ horse[h].pc \in {"start", "begin", "body", "ok", "skipped"}
      /\ UNCHANGED <<run, rq, caller, cancel, faults>>
      /\ hist' = [hist EXCEPT !.loose = IF horse[h].pc = "ok" THEN @ \cup {r} ELSE @]
      /\ horse' = [horse EXCEPT ![h].pc = "killed"]
    BY DEF Kill, Become, At
<1>2. /\ r \in Runs /\ hist \in Histories /\ faults \subseteq AllowedFaults
      /\ r \notin Escaped => (MustBeActive(horse[h].pc, rq[r]) => Active(r))
    BY <1>1, HorseFacts
<1>3. Grows /\ (r \notin Escaped' => r \notin Escaped /\ horse[h].pc # "ok")
    BY <1>1, <1>2 DEF Grows, Escaped, Histories
<1>4. r \notin Escaped' => Active(r)
    BY <1>1, <1>2, <1>3 DEF MustBeActive
<1> DEFINE pc == "killed"
<1>5. /\ horse[h].pc \notin {"idle", "stopped", "handled"} /\ pc \in BusyPcs
      /\ pc \notin {"stopped", "begin"} /\ horse[h].pc \in WithWorker
      /\ horse' = [horse EXCEPT ![h].pc = pc] /\ ~MustBeTerminal(pc, rq[r])
    BY <1>1 DEF BusyPcs, WithWorker, MustBeTerminal
<1> HIDE DEF pc
<1> QED BY <1>1, <1>3, <1>4, <1>5, HorseAlone

LEMMA StopKeeps == ASSUME Inv, NEW h \in Horses, Stop(h) PROVE Inv'
<1> DEFINE r == horse[h].run
           row == run[r]
           jb == [rq[r] EXCEPT !.status = "stopped"]
<1>1. /\ horse[h].pc \in {"start", "begin", "body", "ok", "skipped"} /\ rq[r].status = "started"
      /\ UNCHANGED <<run, caller, cancel, hist, faults>>
    BY DEF Stop
<1>2. /\ r \in Runs /\ row \in RunRows /\ rq[r] \in RqJobs /\ run \in [Runs -> RunRows]
      /\ rq \in [Runs -> RqJobs] /\ row.status # "absent"
      /\ row.attempts + rq[r].retries <= MaxRetries + 1
    BY <1>1, HorseFacts
<1>3. jb \in RqJobs /\ jb.status = "stopped" /\ jb.retries = rq[r].retries
    BY <1>2 DEF RqJobs
<1>4. /\ run' = [run EXCEPT ![r] = row] /\ rq' = [rq EXCEPT ![r] = jb]
      /\ horse' = [horse EXCEPT ![h].pc = "stopped"]
    BY <1>1, <1>2 DEF Stop, Become, SetRqStatus
<1>5. row.status \in ACTIVE => Active(r)
    BY DEF Active
<1>6. ~MustBeTerminal("stopped", jb) /\ ~MustBeActive("stopped", jb)
    BY DEF MustBeTerminal, MustBeActive
<1>7. run[r].assigned => row.assigned
    OBVIOUS
<1>8. Grows
    BY <1>1, Typed, NothingForgotten DEF Inv, Base
<1> HIDE DEF row, jb
<1> DEFINE pc == "stopped"
<1>9. /\ horse[h].pc # "idle" /\ pc \in BusyPcs /\ pc = "stopped" /\ pc # "begin" /\ pc \notin WithWorker
      /\ horse' = [horse EXCEPT ![h].pc = pc]
      /\ ~MustBeTerminal(pc, jb) /\ ~MustBeActive(pc, jb)
    BY <1>1, <1>4, <1>6 DEF BusyPcs, WithWorker
<1> HIDE DEF pc
<1> QED BY <1>1, <1>2, <1>3, <1>4, <1>5, <1>7, <1>8, <1>9, HorseGoesOn

\* _reconcile_interrupted_job never loses a final row and never leaves an
\* active one behind a job that will not run again.
LEMMA ReconciledRow ==
    ASSUME NEW r \in Runs, run[r] \in RunRows, NEW retry \in BOOLEAN
    PROVE  LET row == Reconciled(r, retry)
           IN  /\ row \in RunRows /\ row.attempts = run[r].attempts
               /\ run[r].assigned => row.assigned
               /\ run[r].status # "absent" => row.status # "absent"
               /\ ~retry => row.status \in {"succeeded", "failed"}
               /\ retry => row.status = (IF run[r].status = "failed" THEN "failed" ELSE "queued")
<1> DEFINE x == [run[r] EXCEPT !.assigned = TRUE, !.status = IF retry THEN "queued" ELSE "failed"]
<1>1. /\ x \in RunRows /\ x.assigned /\ x.attempts = run[r].attempts
      /\ x.status = (IF retry THEN "queued" ELSE "failed")
    BY DEF RunRows
<1> HIDE DEF x
<1>2. Reconciled(r, retry) =
        IF run[r].status = "failed" \/ (run[r].status = "succeeded" /\ ~retry) THEN run[r] ELSE x
    BY DEF Reconciled, x
<1> QED BY <1>1, <1>2

LEMMA HandleKeeps == ASSUME Inv, NEW h \in Horses, Handle(h) PROVE Inv'
<1> DEFINE r == horse[h].run
           retry == horse[h].pc = "killed" /\ rq[r].retries > 0
           row == Reconciled(r, retry)
           jb == rq[r]
<1>1. horse[h].pc \in {"killed", "stopped"} /\ UNCHANGED <<rq, caller, cancel, hist, faults>>
    BY DEF Handle
<1>2. /\ r \in Runs /\ run[r] \in RunRows /\ jb \in RqJobs /\ run \in [Runs -> RunRows]
      /\ rq \in [Runs -> RqJobs] /\ run[r].status # "absent"
      /\ run[r].attempts + jb.retries <= MaxRetries + 1 /\ jb.retries \in Nat
      /\ jb.status = "stopped" => horse[h].pc = "stopped"
      /\ horse[h].pc = "stopped" => jb.status # "started"
      /\ r \notin Escaped => (MustBeActive(horse[h].pc, jb) => Active(r))
    BY <1>1, HorseFacts
<1>3. /\ run' = [run EXCEPT ![r] = row] /\ rq' = [rq EXCEPT ![r] = jb]
      /\ horse' = [horse EXCEPT ![h].pc = "handled"]
    BY <1>1, <1>2 DEF Handle, Become, At
<1>4. retry \in BOOLEAN /\ (retry <=> horse[h].pc = "killed" /\ jb.retries > 0)
    OBVIOUS
<1> HIDE DEF retry
<1>5. /\ row \in RunRows /\ row.attempts = run[r].attempts /\ (run[r].assigned => row.assigned)
      /\ row.status # "absent" /\ (~retry => row.status \in {"succeeded", "failed"})
      /\ retry => row.status = (IF run[r].status = "failed" THEN "failed" ELSE "queued")
    BY <1>2, <1>4, ReconciledRow
<1>6. jb.status = rq[r].status
    OBVIOUS
<1> HIDE DEF row, jb
<1>7. MustBeTerminal("handled", jb) => row.status \in {"succeeded", "failed"}
    BY <1>2, <1>4, <1>5 DEF MustBeTerminal
<1>8. ASSUME r \notin Escaped'
      PROVE  /\ MustBeActive("handled", jb) => row.status \in ACTIVE
             /\ row.status \in ACTIVE => Active(r)
    <2>1. horse[h].pc = "killed" => run[r].status \in ACTIVE
        BY <1>1, <1>2, <1>8 DEF Escaped, MustBeActive, Active
    <2>2. MustBeActive("handled", jb) => row.status \in ACTIVE
        BY <1>1, <1>2, <1>4, <1>5, <2>1 DEF MustBeActive, ACTIVE
    <2>3. row.status \in ACTIVE => Active(r)
        BY <1>4, <1>5, <2>1 DEF Active, ACTIVE
    <2> QED BY <2>2, <2>3
<1>9. row.attempts + jb.retries <= MaxRetries + 1
    BY <1>2, <1>5
<1>10. Grows
    BY <1>1, Typed, NothingForgotten DEF Inv, Base
<1> DEFINE pc == "handled"
<1>11. /\ horse[h].pc # "idle" /\ UNCHANGED <<caller, cancel>> /\ pc \in BusyPcs /\ pc = "handled" /\ pc \notin {"begin", "stopped"}
       /\ pc \notin WithWorker /\ pc \in {"stopped", "handled"}
       /\ horse' = [horse EXCEPT ![h].pc = pc]
       /\ MustBeTerminal(pc, jb) => row.status \in {"succeeded", "failed"}
       /\ r \notin Escaped' => /\ MustBeActive(pc, jb) => row.status \in ACTIVE
                               /\ row.status \in ACTIVE => Active(r)
    BY <1>1, <1>3, <1>7, <1>8 DEF BusyPcs, WithWorker
<1> HIDE DEF pc
<1> QED BY <1>2, <1>3, <1>5, <1>6, <1>9, <1>10, <1>11, HorseGoesOn

LEMMA HandlerFailsKeeps == ASSUME Inv, NEW h \in Horses, HandlerFails(h) PROVE Inv'
<1> DEFINE r == horse[h].run
<1>1. /\ horse[h].pc \in {"killed", "stopped"} /\ UNCHANGED <<run, rq, caller, cancel>>
      /\ hist' = [hist EXCEPT !.unrecorded = @ \cup {r}] /\ horse' = [horse EXCEPT ![h].pc = "handled"]
    BY DEF HandlerFails, Become
<1>2. /\ r \in Runs /\ hist \in Histories /\ faults \subseteq AllowedFaults
      /\ horse[h].pc = "stopped" => rq[r].status # "started"
      /\ r \notin Escaped => (MustBeActive(horse[h].pc, rq[r]) => Active(r))
    BY <1>1, HorseFacts
<1>3. Grows /\ Escaped' = Escaped /\ r \in hist'.unrecorded
    BY <1>1, <1>2 DEF HandlerFails, Fault, Grows, Escaped, Histories
<1>4. r \notin Escaped' => (MustBeActive("handled", rq[r]) => Active(r))
    BY <1>1, <1>2, <1>3 DEF MustBeActive
<1> DEFINE pc == "handled"
<1>5. /\ horse[h].pc # "idle" /\ pc \in BusyPcs /\ pc = "handled"
      /\ pc \notin {"stopped", "begin"} /\ pc \notin WithWorker
      /\ horse' = [horse EXCEPT ![h].pc = pc]
      /\ r \notin Escaped' => (MustBeActive(pc, rq[r]) => Active(r))
    BY <1>1, <1>4 DEF BusyPcs, WithWorker
<1> HIDE DEF pc
<1> QED BY <1>1, <1>3, <1>5, HorseAlone

\* The task of h returned.
ByItself(h) == horse[h].pc \in {"ok", "skipped"}

\* RQ's record of an execution: what it makes of the job it still has.
LEMMA RecordedJob ==
    ASSUME NEW h \in Horses, Record(h), NEW r \in Runs, r = horse[h].run,
           rq \in [Runs -> RqJobs], rq[r].status \in {"none", "started", "stopped"}
    PROVE  \E jb \in RqJobs :
             /\ rq' = [rq EXCEPT ![r] = jb] /\ jb.retries <= rq[r].retries
             /\ \/ jb.status = rq[r].status /\ rq[r].status # "started" /\ jb.retries = rq[r].retries
                \/ rq[r].status = "started" /\ jb.status = "finished" /\ ByItself(h)
                \/ /\ rq[r].status = "started" /\ jb.status = "scheduled" /\ ~ByItself(h)
                   /\ rq[r].retries > 0 /\ jb.retries = rq[r].retries - 1
                \/ /\ rq[r].status = "started" /\ jb.status = "failed" /\ ~ByItself(h)
                   /\ rq[r].retries = 0
<1>1. rq[r] \in RqJobs /\ rq[r].retries \in Nat /\ rq[r].retries \in 0..MaxRetries /\ MaxRetries \in Nat
    BY JobsAssumption DEF RqJobs
<1>2. RqActive(r) <=> rq[r].status = "started"
    BY DEF RqActive, RQ_ACTIVE_STATUSES
<1>3. CASE rq[r].status # "started"
    <2>1. rq' = [rq EXCEPT ![r] = rq[r]]
        <3>1. CASE ByItself(h)
            <4>1. rq' = [rq EXCEPT ![r].status = IF RqActive(r) THEN "finished" ELSE @]
                BY <3>1 DEF Record, ByItself
            <4>2. [rq[r] EXCEPT !.status = rq[r].status] = rq[r]
                BY <1>1 DEF RqJobs
            <4> QED BY <1>2, <1>3, <4>1, <4>2
        <3>2. CASE ~ByItself(h)
            BY <1>2, <1>3, <3>2 DEF Record, ByItself, RqFailure
        <3> QED BY <3>1, <3>2
    <2> WITNESS rq[r] \in RqJobs
    <2> QED BY <1>1, <1>3, <2>1
<1>4. CASE rq[r].status = "started" /\ ByItself(h)
    <2> DEFINE jb == [rq[r] EXCEPT !.status = "finished"]
    <2>1. jb \in RqJobs /\ jb.status = "finished" /\ jb.retries = rq[r].retries
        BY <1>1 DEF RqJobs
    <2>2. rq' = [rq EXCEPT ![r] = jb]
        BY <1>2, <1>4 DEF Record, ByItself
    <2> HIDE DEF jb
    <2> jb \in RqJobs
        BY <2>1
    <2> WITNESS jb \in RqJobs
    <2> QED BY <1>1, <1>4, <2>1, <2>2
<1>5. CASE rq[r].status = "started" /\ ~ByItself(h) /\ rq[r].retries > 0
    <2> DEFINE jb == [status |-> "scheduled", retries |-> rq[r].retries - 1]
    <2>1. jb \in RqJobs /\ jb.status = "scheduled" /\ jb.retries = rq[r].retries - 1
        BY <1>1, <1>5 DEF RqJobs
    <2>2. rq' = [rq EXCEPT ![r] = jb]
        BY <1>2, <1>5 DEF Record, ByItself, RqFailure
    <2> HIDE DEF jb
    <2> jb \in RqJobs
        BY <2>1
    <2> WITNESS jb \in RqJobs
    <2> QED BY <1>1, <1>5, <2>1, <2>2
<1>6. CASE rq[r].status = "started" /\ ~ByItself(h) /\ ~(rq[r].retries > 0)
    <2> DEFINE jb == [rq[r] EXCEPT !.status = "failed"]
    <2>1. jb \in RqJobs /\ jb.status = "failed" /\ jb.retries = rq[r].retries
        BY <1>1 DEF RqJobs
    <2>2. rq' = [rq EXCEPT ![r] = jb]
        BY <1>2, <1>6 DEF Record, ByItself, RqFailure
    <2> HIDE DEF jb
    <2> jb \in RqJobs
        BY <2>1
    <2> WITNESS jb \in RqJobs
    <2> QED BY <1>1, <1>6, <2>1, <2>2
<1> QED BY <1>3, <1>4, <1>5, <1>6

LEMMA RecordKeeps == ASSUME Inv, NEW h \in Horses, Record(h) PROVE Inv'
<1> DEFINE r == horse[h].run
           w == IdleHorse
           row == run[r]
<1>1. /\ horse[h].pc \in {"ok", "skipped", "raised", "handled"} /\ horse' = [horse EXCEPT ![h] = w]
      /\ UNCHANGED <<run, caller, cancel, hist, faults>>
    BY DEF Record
<1>2. /\ r \in Runs /\ row \in RunRows /\ rq[r] \in RqJobs /\ run \in [Runs -> RunRows]
      /\ rq \in [Runs -> RqJobs] /\ row.status # "absent"
      /\ row.attempts \in Nat /\ rq[r].retries \in Nat /\ MaxRetries \in Nat /\ r # None
      /\ rq[r].status \in {"none", "started", "stopped"}
      /\ rq[r].status = "stopped" => horse[h].pc \in {"stopped", "handled"}
      /\ row.attempts + rq[r].retries <= MaxRetries + 1
      /\ r \notin hist.unrecorded => (MustBeTerminal(horse[h].pc, rq[r]) => row.status \in {"succeeded", "failed"})
      /\ r \notin Escaped => (MustBeActive(horse[h].pc, rq[r]) => Active(r))
    BY <1>1, HorseFacts
<1>3. PICK jb \in RqJobs :
             /\ rq' = [rq EXCEPT ![r] = jb] /\ jb.retries <= rq[r].retries
             /\ \/ jb.status = rq[r].status /\ rq[r].status # "started" /\ jb.retries = rq[r].retries
                \/ rq[r].status = "started" /\ jb.status = "finished" /\ ByItself(h)
                \/ /\ rq[r].status = "started" /\ jb.status = "scheduled" /\ ~ByItself(h)
                   /\ rq[r].retries > 0 /\ jb.retries = rq[r].retries - 1
                \/ /\ rq[r].status = "started" /\ jb.status = "failed" /\ ~ByItself(h)
                   /\ rq[r].retries = 0
    BY <1>2, RecordedJob
<1>4. w \in HorseRecords /\ w.pc = "idle" /\ w.run = None
    BY DEF IdleHorse, HorseRecords
<1>5. run' = [run EXCEPT ![r] = row] /\ (run[r].assigned => row.assigned)
    BY <1>1, <1>2
<1>6. jb.retries \in Nat
    BY <1>2 DEF RqJobs
<1>7. /\ row.attempts + jb.retries <= MaxRetries + 1
      /\ jb.status \in {"queued", "scheduled"} => row.attempts + jb.retries <= MaxRetries
    BY <1>2, <1>3, <1>6
<1>8. jb.status \in RQ_ACTIVE_STATUSES => RqActive(r)
    BY <1>2, <1>3 DEF RqActive, RQ_ACTIVE_STATUSES
<1>9. r \notin hist'.unrecorded => (jb.status \in {"finished", "failed", "stopped"}
                                     => row.status \in {"succeeded", "failed"})
    BY <1>1, <1>2, <1>3 DEF MustBeTerminal, ByItself
<1>10. r \notin Escaped' => (jb.status \in {"queued", "scheduled"} => row.status \in ACTIVE)
    BY <1>1, <1>2, <1>3 DEF MustBeActive, Active, ByItself, Escaped
<1>11. row.status \in ACTIVE => Active(r)
    BY DEF Active
<1>12. ~MustBeTerminal(w.pc, jb) /\ ~MustBeActive(w.pc, jb)
    BY <1>4 DEF MustBeTerminal, MustBeActive
<1>13. rq' = [rq EXCEPT ![r] = jb]
    BY <1>3
<1>14. /\ horse' = [horse EXCEPT ![h] = w] /\ UNCHANGED <<caller, cancel>>
       /\ Grows
    BY <1>1, Typed, NothingForgotten DEF Inv, Base
<1> HIDE DEF w, row
<1>15. /\ w.run \in {r, None} /\ (w.run = None <=> w.pc = "idle") /\ w.run # r
       /\ w.pc \notin WithWorker /\ w.pc \notin {"start", "begin"}
    BY <1>2, <1>4 DEF WithWorker
<1>16. horse[h].run = r /\ r \in Runs /\ row \in RunRows /\ row.status # "absent"
    BY <1>2
<1> QED BY <1>4, <1>5, <1>7, <1>8, <1>9, <1>10, <1>11, <1>12, <1>13, <1>14, <1>15, <1>16, HorseMoves

\* The scheduler, a cancel or a loss changes the state of a job that no request
\* is about to enqueue.
LEMMA QueueMoves ==
    ASSUME Inv, NEW r \in Runs, RqActive(r), NEW jb \in RqJobs, rq' = [rq EXCEPT ![r] = jb],
           UNCHANGED <<run, caller, horse>>, cancel' \in [Runs -> Cancels], Grows,
           jb.retries = rq[r].retries,
           \/ jb.status = "queued" /\ rq[r].status = "scheduled"
           \/ jb.status = "canceled" /\ rq[r].status \in {"queued", "scheduled"}
           \/ jb.status = "none" /\ r \in hist'.adrift
    PROVE  Inv'
<1>1. Base /\ TypeOK /\ AllTyped /\ OneTrigger /\ Agreeing /\ RowOk(r)
    BY Typed DEF Inv, Base
<1>2. rq'[r] = jb /\ \A q \in Runs \ {r} : rq'[q] = rq[q]
    BY <1>1 DEF AllTyped
<1>3. TypeOK'
    BY <1>1, Typed DEF AllTyped, Grows
<1>4. ASSUME NEW d \in Callers PROVE CallerOk(d)'
    <2>1. CallerOk(d) /\ caller[d].run \in Runs \cup {None}
        BY <1>1 DEF Base, AllTyped, CallerRecords
    <2>2. caller[d].pc = "enqueue" => caller[d].run \in Runs \ {r}
        BY <2>1 DEF CallerOk, RqActive, RQ_ACTIVE_STATUSES
    <2> QED BY <1>2, <2>1, <2>2 DEF CallerOk
<1>5. OneTrigger'
    BY <1>1 DEF OneTrigger
<1>6. \A g \in Horses : horse[g].run \in Runs \cup {None}
    BY <1>1 DEF AllTyped, HorseRecords
<1>7. \A g \in Horses : horse[g].run = r => jb.status = "none" /\ r \in hist'.adrift
    BY <1>1, JobsAssumption DEF Base, HorseOk
<1>8. ASSUME NEW g \in Horses PROVE HorseOk(g)' /\ StartOk(g)'
    <2>1. HorseOk(g) /\ StartOk(g)
        BY <1>1 DEF Base
    <2>2. CASE horse[g].run = r
        BY <1>2, <1>7, <2>1, <2>2, JobsAssumption DEF HorseOk, StartOk
    <2>3. CASE horse[g].run # r
        BY <1>2, <1>6, <2>1, <2>3 DEF HorseOk, StartOk
    <2> QED BY <2>2, <2>3
<1>9. ASSUME NEW q \in Runs PROVE RowOk(q)'
    <2>1. RowOk(q)
        BY <1>1 DEF Base
    <2>2. CASE q = r
        BY <1>2, <2>1, <2>2 DEF RowOk, RqActive, RQ_ACTIVE_STATUSES
    <2>3. CASE q # r
        BY <1>2, <2>1, <2>3 DEF RowOk
    <2> QED BY <2>2, <2>3
<1>10. Agreeing'
    <2>0. hist.unrecorded \subseteq hist'.unrecorded
        BY DEF Grows
    <2>1. RecordsAgree'
        BY <1>1, <1>2, <2>0 DEF Agreeing, RecordsAgree
    <2>2. ASSUME NEW g \in Horses, horse[g].run \notin hist'.unrecorded,
                 MustBeTerminal(horse[g].pc, rq'[horse[g].run])
          PROVE  run[horse[g].run].status \in {"succeeded", "failed"}
        <3>1. horse[g].run \in Runs
            BY <1>1, <1>6, <2>2 DEF Base, HorseOk, MustBeTerminal
        <3>2. MustBeTerminal(horse[g].pc, rq[horse[g].run])
            BY <1>2, <2>2, <3>1 DEF MustBeTerminal
        <3> QED BY <1>1, <2>0, <2>2, <3>2 DEF Agreeing
    <2> QED BY <2>1, <2>2 DEF Agreeing, MustBeTerminal
<1>11. \A q \in Runs : RqActive(q)' => RqActive(q)
    BY <1>2 DEF RqActive
<1>12. Tracked'
    <2>1. Tracked /\ hist.adrift \subseteq hist'.adrift
        BY DEF Inv, Grows
    <2>2. ASSUME NEW q \in Runs, Dead(q) PROVE Dead(q)'
        BY <1>11, <2>2 DEF Dead
    <2>3. ASSUME NEW d \in Callers
          PROVE  (\A q \in caller[d].ask : run[q].assigned) /\ (\A q \in caller[d].gone \ hist'.adrift : Dead(q)')
        <3>1. caller[d].gone \subseteq Runs
            BY <1>1 DEF AllTyped, CallerRecords
        <3> QED BY <2>1, <2>2, <3>1 DEF Tracked
    <2>4. \A g \in Horses : horse[g].pc # "idle" /\ horse[g].run \notin hist'.adrift =>
                rq'[horse[g].run] = rq[horse[g].run]
        BY <1>1, <1>2, <1>6, <1>7 DEF Base, HorseOk
    <2>5. \A g \in Horses : horse[g].pc \in WithWorker => horse[g].pc # "idle"
        BY DEF WithWorker
    <2> QED BY <1>11, <2>1, <2>3, <2>4, <2>5 DEF Tracked, BeingEnqueued
<1>13. Single'
    <2>1. Single /\ Escaped \subseteq Escaped' /\ hist'.adrift \subseteq Escaped'
        BY EscapesStay DEF Inv, Escaped
    <2>2. \A q \in Runs : Working(q)' => Working(q)
        BY <1>11, <2>1 DEF Working, Active, BeingEnqueued
    <2>3. \A g \in Horses : horse[g].pc # "idle" /\ horse[g].run \notin Escaped' =>
                rq'[horse[g].run] = rq[horse[g].run]
        BY <1>1, <1>2, <1>6, <1>7, <2>1 DEF Base, HorseOk
    <2>4. \A q \in Runs \ Escaped' : rq'[q].status \in {"queued", "scheduled"} => Active(q)
        BY <1>2, <2>1 DEF Single, ToBeRun
    <2>5. ASSUME NEW g \in Horses, horse[g].run \notin Escaped', MustBeActive(horse[g].pc, rq'[horse[g].run])
          PROVE  Active(horse[g].run)
        <3>1. MustBeActive(horse[g].pc, rq[horse[g].run])
            BY <2>3, <2>5 DEF MustBeActive
        <3> QED BY <2>1, <2>5, <3>1 DEF Single, ToBeRun
    <2>6. ToBeRun'
        BY <2>1, <2>4, <2>5 DEF Single, ToBeRun, Active, MustBeActive
    <2> QED BY <2>1, <2>2, <2>6 DEF Single
<1> QED BY <1>3, <1>4, <1>5, <1>8, <1>9, <1>10, <1>12, <1>13 DEF Inv, Base

LEMMA QueueKeeps == ASSUME Inv, NEW r \in Runs, Promote(r) \/ RedisLoss(r) PROVE Inv'
<1>1. AllTyped /\ rq \in [Runs -> RqJobs] /\ rq[r] \in RqJobs /\ cancel \in [Runs -> Cancels]
    BY Typed DEF Inv, Base, AllTyped
<1>2. CASE Promote(r)
    <2> DEFINE jb == [rq[r] EXCEPT !.status = "queued"]
    <2>1. jb \in RqJobs /\ jb.status = "queued" /\ jb.retries = rq[r].retries
        BY <1>1 DEF RqJobs
    <2>2. /\ rq' = [rq EXCEPT ![r] = jb] /\ UNCHANGED <<run, caller, horse, cancel, hist, faults>>
          /\ rq[r].status = "scheduled" /\ RqActive(r)
        BY <1>1, <1>2 DEF Promote, SetRqStatus, RqActive, RQ_ACTIVE_STATUSES
    <2>3. Grows
        BY <1>1, <2>2, NothingForgotten
    <2> HIDE DEF jb
    <2> QED BY <1>1, <2>1, <2>2, <2>3, QueueMoves
<1>3. CASE RedisLoss(r)
    <2> DEFINE jb == [rq[r] EXCEPT !.status = "none"]
    <2>1. jb \in RqJobs /\ jb.status = "none" /\ jb.retries = rq[r].retries
        BY <1>1 DEF RqJobs
    <2>2. /\ rq' = [rq EXCEPT ![r] = jb] /\ UNCHANGED <<run, caller, horse, cancel>>
          /\ RqActive(r) /\ hist' = [hist EXCEPT !.adrift = @ \cup {r}] /\ faults' \subseteq AllowedFaults
        BY <1>1, <1>3 DEF RedisLoss, SetRqStatus, Fault, AllTyped
    <2>3. Grows /\ r \in hist'.adrift
        BY <1>1, <2>2 DEF AllTyped, Grows, Histories
    <2> HIDE DEF jb
    <2> QED BY <1>1, <2>1, <2>2, <2>3, QueueMoves
<1> QED BY <1>2, <1>3

-----------------------------------------------------------------------------
(* The cancel of a batch                                                   *)

\* A cancel moves; the rows it fails are loose from then on.
LEMMA CancelMoves ==
    ASSUME Inv, UNCHANGED <<rq, caller, horse>>, cancel' \in [Runs -> Cancels], Grows,
           run' \in [Runs -> RunRows],
           \A q \in Runs :
              /\ run'[q].attempts = run[q].attempts /\ run'[q].assigned = run[q].assigned
              /\ run'[q].status = run[q].status \/ (run'[q].status = "failed" /\ q \in hist'.loose)
    PROVE  Inv'
<1>1. Base /\ AllTyped /\ OneTrigger /\ Agreeing /\ Tracked /\ Single
    BY Typed DEF Inv, Base
<1>2. \A q \in Runs : run[q].status # "absent" => run'[q].status # "absent"
    OBVIOUS
<1>3. TypeOK'
    BY <1>1, Typed DEF AllTyped, Grows
<1>4. ASSUME NEW d \in Callers PROVE CallerOk(d)'
    <2>1. CallerOk(d) /\ caller[d].run \in Runs \cup {None}
        BY <1>1 DEF Base, AllTyped, CallerRecords
    <2> QED BY <1>2, <2>1 DEF CallerOk
<1>5. OneTrigger'
    BY <1>1 DEF OneTrigger
<1>6. ASSUME NEW g \in Horses PROVE HorseOk(g)' /\ StartOk(g)' /\ horse[g].run \in Runs \cup {None}
    <2>1. HorseOk(g) /\ StartOk(g) /\ horse[g].run \in Runs \cup {None}
        BY <1>1 DEF Base, AllTyped, HorseRecords
    <2>2. horse[g].pc \in {"start", "begin"} => horse[g].run \in Runs
        BY <2>1 DEF HorseOk
    <2> QED BY <1>2, <2>1, <2>2 DEF HorseOk, StartOk
<1>7. ASSUME NEW q \in Runs PROVE RowOk(q)'
    <2>1. RowOk(q)
        BY <1>1 DEF Base
    <2> QED BY <2>1 DEF RowOk
<1>8. Agreeing'
    <2>1. hist.unrecorded \subseteq hist'.unrecorded
        BY DEF Grows
    <2>2. \A q \in Runs : run[q].status \in {"succeeded", "failed"} => run'[q].status \in {"succeeded", "failed"}
        OBVIOUS
    <2>3. RecordsAgree'
        BY <1>1, <2>1, <2>2 DEF Agreeing, RecordsAgree
    <2>4. ASSUME NEW g \in Horses, horse[g].run \notin hist'.unrecorded,
                 MustBeTerminal(horse[g].pc, rq[horse[g].run])
          PROVE  run'[horse[g].run].status \in {"succeeded", "failed"}
        <3>1. run[horse[g].run].status \in {"succeeded", "failed"}
            BY <1>1, <2>1, <2>4 DEF Agreeing
        <3>2. horse[g].run \in Runs
            BY <1>1, <1>6, <2>4 DEF Base, HorseOk, MustBeTerminal
        <3> QED BY <2>2, <3>1, <3>2
    <2> QED BY <2>3, <2>4 DEF Agreeing, MustBeTerminal
<1>9. Tracked'
    <2>1. hist.adrift \subseteq hist'.adrift
        BY DEF Grows
    <2>2. ASSUME NEW q \in Runs, Dead(q) PROVE Dead(q)'
        BY <1>2, <2>2 DEF Dead, RqActive
    <2>3. ASSUME NEW d \in Callers
          PROVE  (\A q \in caller[d].ask : run'[q].assigned) /\ (\A q \in caller[d].gone \ hist'.adrift : Dead(q)')
        <3>1. caller[d].gone \subseteq Runs /\ caller[d].ask \subseteq Runs
            BY <1>1 DEF AllTyped, CallerRecords
        <3> QED BY <1>1, <2>1, <2>2, <3>1 DEF Tracked
    <2> QED BY <1>1, <2>1, <2>3 DEF Tracked, BeingEnqueued, RqActive
<1>10. Single'
    <2>1. Escaped \subseteq Escaped' /\ hist'.loose \subseteq Escaped'
        BY EscapesStay DEF Escaped
    <2>2. \A q \in Runs \ Escaped' : run'[q].status = run[q].status
        BY <2>1
    <2>3. \A q \in Runs : Working(q)' => Working(q)
        BY <2>1, <2>2 DEF Working, Active, BeingEnqueued, RqActive
    <2>4. \A q \in Runs \ Escaped' : rq[q].status \in {"queued", "scheduled"} => run'[q].status \in ACTIVE
        BY <1>1, <2>1, <2>2 DEF Single, ToBeRun, Active
    <2>5. ASSUME NEW g \in Horses, horse[g].run \notin Escaped', MustBeActive(horse[g].pc, rq[horse[g].run])
          PROVE  run'[horse[g].run].status \in ACTIVE
        <3>1. horse[g].run \in Runs
            BY <1>1, <1>6, <2>5 DEF Base, HorseOk, MustBeActive
        <3> QED BY <1>1, <2>1, <2>2, <2>5, <3>1 DEF Single, ToBeRun, Active
    <2>6. ASSUME NEW d \in Callers, caller[d].pc = "enqueue", caller[d].run \notin Escaped'
          PROVE  run'[caller[d].run].status \in ACTIVE
        <3>1. caller[d].run \in Runs
            BY <1>1, <2>6 DEF Base, CallerOk, AllTyped, CallerRecords
        <3> QED BY <1>1, <2>1, <2>2, <2>6, <3>1 DEF Single, ToBeRun, Active
    <2>7. ToBeRun'
        BY <2>4, <2>5, <2>6 DEF ToBeRun, Active, MustBeActive
    <2> QED BY <1>1, <2>3, <2>7 DEF Single
<1> QED BY <1>3, <1>4, <1>5, <1>6, <1>7, <1>8, <1>9, <1>10 DEF Inv, Base

LEMMA CancelKeeps ==
    ASSUME Inv, NEW r \in Runs,
           \/ CancelRead(r) \/ CancelAsk(r) \/ CancelUnheard(r)
           \/ CancelCommit(r) \/ CancelCrash(r) \/ CancelPast(r)
    PROVE  Inv'
<1>1. /\ AllTyped /\ rq \in [Runs -> RqJobs] /\ rq[r] \in RqJobs /\ run \in [Runs -> RunRows]
      /\ hist \in Histories /\ faults \subseteq AllowedFaults
    BY Typed DEF Inv, Base, AllTyped
<1>2. cancel' \in [Runs -> Cancels]
    <2>1. cancel \in [Runs -> Cancels] /\ cancel[r].active \in BOOLEAN
        BY <1>1 DEF AllTyped, Cancels
    <2>2. \A pc \in {"no", "ask", "write", "done"}, active \in BOOLEAN :
                SetCancel(r, pc, active) => cancel' \in [Runs -> Cancels]
        BY <2>1 DEF SetCancel, Cancels
    <2>3. CASE CancelRead(r)
        <3>1. (run[r].status \in ACTIVE) \in BOOLEAN
            OBVIOUS
        <3> QED BY <2>2, <2>3, <3>1 DEF CancelRead
    <2>4. CASE CancelAsk(r) \/ CancelUnheard(r)
        BY <2>1, <2>2, <2>4 DEF CancelAsk, CancelUnheard
    <2>5. CASE CancelCommit(r) \/ CancelCrash(r) \/ CancelPast(r)
        BY <2>2, <2>5 DEF CancelCommit, CancelCrash, CancelPast
    <2> QED BY <2>3, <2>4, <2>5
<1>3. CASE CancelRead(r) \/ CancelUnheard(r) \/ CancelCrash(r) \/ CancelPast(r)
    <2>1. UNCHANGED <<run, rq, caller, horse, hist>> /\ faults' \subseteq AllowedFaults
        BY <1>1, <1>3 DEF CancelRead, CancelUnheard, CancelCrash, CancelPast, Fault
    <2>2. Grows
        BY <1>1, <2>1 DEF Grows
    <2> QED BY <1>1, <1>2, <2>1, <2>2, CancelMoves
<1>4. CASE CancelAsk(r)
    <2>1. UNCHANGED <<run, caller, horse, hist, faults>> /\ Grows
        BY <1>1, <1>4, NothingForgotten DEF CancelAsk
    <2>2. CASE rq[r].status \in {"queued", "scheduled"}
        <3> DEFINE jb == [rq[r] EXCEPT !.status = "canceled"]
        <3>1. jb \in RqJobs /\ jb.status = "canceled" /\ jb.retries = rq[r].retries
            BY <1>1 DEF RqJobs
        <3>2. rq' = [rq EXCEPT ![r] = jb] /\ RqActive(r)
            BY <1>1, <1>4, <2>2 DEF CancelAsk, RqActive, RQ_ACTIVE_STATUSES
        <3> HIDE DEF jb
        <3> QED BY <1>2, <2>1, <2>2, <3>1, <3>2, QueueMoves
    <2>3. CASE rq[r].status \notin {"queued", "scheduled"}
        <3>1. rq' = [rq EXCEPT ![r] = [rq[r] EXCEPT !.status = rq[r].status]]
            BY <1>4, <2>3 DEF CancelAsk
        <3>2. [rq[r] EXCEPT !.status = rq[r].status] = rq[r]
            BY <1>1 DEF RqJobs
        <3>3. UNCHANGED rq
            BY <1>1, <3>1, <3>2
        <3> QED BY <1>1, <1>2, <2>1, <3>3, CancelMoves
    <2> QED BY <2>2, <2>3
<1>5. CASE CancelCommit(r)
    <2> DEFINE status == IF cancel[r].active THEN "failed" ELSE run[r].status
    <2>1. /\ run' = [run EXCEPT ![r].status = status] /\ UNCHANGED <<rq, caller, horse, faults>>
          /\ hist' = [hist EXCEPT !.loose = IF cancel[r].active THEN @ \cup {r} ELSE @]
        BY <1>1, <1>5 DEF CancelCommit
    <2>2. Grows /\ (cancel[r].active => r \in hist'.loose)
        BY <1>1, <2>1 DEF Grows, Histories
    <2>3. run[r] \in RunRows /\ status \in {"absent", "queued", "running", "succeeded", "failed"}
        BY <1>1 DEF RunRows
    <2>4. /\ [run[r] EXCEPT !.status = status] \in RunRows
          /\ [run[r] EXCEPT !.status = status].status = status
          /\ [run[r] EXCEPT !.status = status].attempts = run[r].attempts
          /\ [run[r] EXCEPT !.status = status].assigned = run[r].assigned
        BY <2>3 DEF RunRows
    <2>5. status = run[r].status \/ (status = "failed" /\ r \in hist'.loose)
        BY <2>2
    <2> HIDE DEF status
    <2>6. /\ run' \in [Runs -> RunRows]
          /\ \A q \in Runs :
                /\ run'[q].attempts = run[q].attempts /\ run'[q].assigned = run[q].assigned
                /\ run'[q].status = run[q].status \/ (run'[q].status = "failed" /\ q \in hist'.loose)
        BY <1>1, <2>1, <2>4, <2>5
    <2> QED BY <1>2, <2>1, <2>2, <2>6, CancelMoves
<1> QED BY <1>3, <1>4, <1>5

-----------------------------------------------------------------------------
(* The theorems                                                            *)

LEMMA Inductive == Inv /\ [Next]_vars => Inv'
<1> SUFFICES ASSUME Inv, [Next]_vars PROVE Inv'
    OBVIOUS
<1>1. CASE UNCHANGED vars
    BY <1>1 DEF vars, Inv, Base, TypeOK, CallerOk, OneTrigger, HorseOk, StartOk, RowOk, Agreeing,
        RecordsAgree, MustBeTerminal, MustBeActive, Tracked, RqActive, BeingEnqueued, Dead, Single,
        ToBeRun, Working, Active, Escaped
<1>2. ASSUME NEW c \in Callers, NEW kind \in {"trigger", "list"}, ReadActive(c, kind) PROVE Inv'
    BY <1>2, ReadActiveKeeps
<1>3. ASSUME NEW c \in Callers, Caller(c) PROVE Inv'
    BY <1>3, AskQueueKeeps, RefreshKeeps, SettleKeeps, GivingUpKeeps, InsertRunKeeps, EnqueueKeeps,
        AssignKeeps DEF Caller
<1>4. ASSUME NEW c \in Callers, QueueUnreachable(c) \/ EnqueueFails(c) \/ CallerCrash(c) PROVE Inv'
    BY <1>4, QueueUnreachableKeeps, GivingUpKeeps
<1>5. ASSUME NEW h \in Horses, Horse(h) PROVE Inv'
    BY <1>5, DequeueKeeps, LookKeeps, StartKeeps, SucceedKeeps, RaiseKeeps, RecordKeeps, HandleKeeps
        DEF Horse
<1>6. ASSUME NEW h \in Horses,
             Kill(h) \/ Stop(h) \/ HandlerFails(h) \/ RaiseUnrecorded(h) \/ RaiseLate(h)
      PROVE  Inv'
    BY <1>6, KillKeeps, StopKeeps, HandlerFailsKeeps, RaiseUnrecordedKeeps, RaiseLateKeeps
<1>7. ASSUME NEW r \in Runs, Promote(r) \/ RedisLoss(r) PROVE Inv'
    BY <1>7, QueueKeeps
<1>8. ASSUME NEW r \in Runs,
             \/ CancelRead(r) \/ CancelAsk(r) \/ CancelUnheard(r)
             \/ CancelCommit(r) \/ CancelCrash(r) \/ CancelPast(r)
      PROVE  Inv'
    BY <1>8, CancelKeeps
<1> QED BY <1>1, <1>2, <1>3, <1>4, <1>5, <1>6, <1>7, <1>8 DEF Next

LEMMA InvAlways == Spec => []Inv
<1> QED BY Initially, Inductive, PTL DEF Spec

\* The records of PostgreSQL and of RQ agree once RQ is finished with a job
\* (job_service, worker.py: the success commit, the failure commit, the three
\* handlers), whatever requests, cancels, workers or jobs are lost, for every
\* run whose row was told how its task ended.
THEOREM RecordsAlwaysAgree == Spec => []RecordsAgree
<1>1. Inv => RecordsAgree
    BY DEF Inv, Base, Agreeing, RecordsAgree
<1> QED BY <1>1, InvAlways, PTL

\* run_durably counts the attempts of a task: whatever is killed, handled,
\* retried or lost, they never exceed the retries the enqueue gave it and one.
THEOREM AttemptsAlwaysBounded == Spec => []AttemptsBounded
<1>1. ASSUME Inv PROVE AttemptsBounded
    <2> SUFFICES ASSUME NEW r \in Runs PROVE run[r].attempts <= MaxRetries + 1
        BY DEF AttemptsBounded
    <2>1. RowOk(r) /\ run[r] \in RunRows /\ rq[r] \in RqJobs
        BY <1>1, Typed DEF Inv, Base, AllTyped
    <2>2. run[r].attempts \in Nat /\ rq[r].retries \in Nat /\ MaxRetries \in Nat
        BY <2>1, JobsAssumption DEF RunRows, RqJobs
    <2> QED BY <2>1, <2>2 DEF RowOk
<1> QED BY <1>1, InvAlways, PTL

\* "Duplicate triggers are refused while a run is active": two bodies of the
\* same site and kind never run together unless one of the two runs has escaped,
\* failed by a cancel under its worker, retried behind a committed success, or
\* with a job that its row had lost sight of.
THEOREM OneBodyAlways == Spec => []OneBodyAtATime
<1>1. ASSUME Inv PROVE OneBodyAtATime
    <2> SUFFICES ASSUME NEW g \in Horses, NEW h \in Horses, At(g, "body"), At(h, "body"),
                        horse[g].run \notin Escaped, horse[h].run \notin Escaped
                 PROVE  g = h
        BY DEF OneBodyAtATime, Escaped
    <2>1. AllTyped
        BY <1>1, Typed DEF Inv, Base
    <2>2. Tracked /\ Single
        BY <1>1 DEF Inv
    <2>3. ASSUME NEW k \in Horses, At(k, "body"), horse[k].run \notin Escaped
          PROVE  horse[k].run \in Runs /\ Working(horse[k].run)
        <3>1. HorseOk(k) /\ horse[k].pc = "body" /\ horse[k].run \in Runs \cup {None}
            BY <1>1, <2>1, <2>3 DEF Inv, Base, At, AllTyped, HorseRecords
        <3>2. horse[k].run \in Runs /\ rq[horse[k].run].status = "started"
            BY <2>2, <2>3, <3>1 DEF HorseOk, Tracked, WithWorker, Escaped
        <3>3. Active(horse[k].run)
            BY <2>2, <2>3, <3>1 DEF Single, ToBeRun, MustBeActive
        <3> QED BY <2>3, <3>2, <3>3 DEF Working, RqActive, RQ_ACTIVE_STATUSES
    <2>4. horse[g].run = horse[h].run /\ horse[h].run # None
        BY <2>2, <2>3, JobsAssumption DEF Single
    <2> QED BY <1>1, <2>4 DEF Inv, Base, HorseOk
<1> QED BY <1>1, InvAlways, PTL

\* "Refresh after checking RQ": a listing or a trigger declares a run lost
\* only when RQ will not run it again and no worker is at it, however many of
\* them reconcile at once, unless its job and its row have lost sight of each
\* other.
THEOREM OnlyTheDeadAreLost == Spec => LostIsDead
<1> DEFINE Declared == \A r \in Runs \ hist.adrift :
                run[r].status \in ACTIVE /\ run'[r].status = "failed" /\ UNCHANGED <<horse, cancel>> =>
                    /\ rq[r].status \notin {"queued", "started", "scheduled"}
                    /\ \A h \in Horses : horse[h].run = r => horse[h].pc \notin {"start", "begin", "body"}
<1>1. ASSUME Inv, [Next]_vars PROVE [Declared]_vars
    <2> SUFFICES ASSUME NEW r \in Runs \ hist.adrift,
                        run[r].status \in ACTIVE, run'[r].status = "failed", UNCHANGED <<horse, cancel>>
                 PROVE  /\ rq[r].status \notin {"queued", "started", "scheduled"}
                        /\ \A h \in Horses : horse[h].run = r =>
                              horse[h].pc \notin {"start", "begin", "body"}
        OBVIOUS
    <2>1. Tracked /\ AllTyped
        BY <1>1, Typed DEF Inv, Base
    <2>2. run'[r] # run[r] /\ run[r].status \notin {"failed", "absent"} /\ run \in [Runs -> RunRows]
        BY <2>1 DEF ACTIVE, AllTyped
    <2>3. \E c \in Callers : r \in caller[c].gone
        <3>1. ASSUME NEW c \in Callers, Settle(c) PROVE r \in caller[c].gone
            BY <2>2, <3>1 DEF Settle, MarkLost
        <3>2. ASSUME NEW c \in Callers, InsertRun(c) PROVE r \in caller[c].gone
            <4>1. PICK q \in Runs : /\ IsNextRun(q)
                                    /\ run' = [MarkLost(caller[c].gone) EXCEPT ![q].status = "queued"]
                BY <3>2 DEF InsertRun
            <4>2. q # r
                BY <2>2, <4>1 DEF IsNextRun
            <4> QED BY <2>2, <4>1, <4>2 DEF MarkLost
        <3>3. ASSUME NEW c \in Callers, Assign(c) PROVE FALSE
            BY <2>2, <3>3 DEF Assign, AllTyped, RunRows
        <3>4. ASSUME NEW h \in Horses, horse[h].pc \in {"start", "begin", "body", "killed", "stopped"},
                     NEW pc \in {"body", "ok", "raised", "handled"},
                     horse' = [horse EXCEPT ![h].pc = pc], pc # horse[h].pc
              PROVE  FALSE
            BY <2>1, <3>4 DEF AllTyped, HorseRecords
        <3>5. ASSUME NEW h \in Horses, Start(h) \/ Succeed(h) \/ Handle(h) \/ \E e \in BOOLEAN : Raise(h, e)
              PROVE  FALSE
            BY <3>4, <3>5 DEF Start, Succeed, Handle, Raise, Become, At
        <3>6. ASSUME NEW q \in Runs, CancelCommit(q) PROVE FALSE
            BY <2>1, <3>6 DEF CancelCommit, SetCancel, AllTyped, Cancels
        <3> QED BY <1>1, <2>2, <3>1, <3>2, <3>3, <3>5, <3>6 DEF Next, vars, ReadActive, Caller, AskQueue,
                Refresh, OverCapacity, Enqueue, QueueUnreachable, EnqueueFails, CallerCrash, Horse,
                Dequeue, Look, Record, RaiseUnrecorded, RaiseLate, Kill, Stop, HandlerFails, Promote,
                RedisLoss, CancelRead, CancelAsk, CancelUnheard, CancelCrash, CancelPast
    <2>4. Dead(r)
        BY <2>1, <2>3 DEF Tracked
    <2>5. ASSUME NEW h \in Horses, horse[h].run = r PROVE horse[h].pc \notin {"start", "begin", "body"}
        BY <2>1, <2>4, <2>5 DEF Dead, Tracked, WithWorker, RqActive, RQ_ACTIVE_STATUSES
    <2> QED BY <2>4, <2>5 DEF Dead, RqActive, RQ_ACTIVE_STATUSES
<1> QED BY <1>1, InvAlways, PTL DEF Spec, LostIsDead
==============================================================================
