----------------------- MODULE AnalyticsWorkerProofs -----------------------
(***************************************************************************)
(* The safety properties of ClickProcessor for every threshold of the      *)
(* tracker, every number of probes and every number of clicks; and what a  *)
(* consumer group of such workers (module ClickConsumer) loses and reads   *)
(* again, for any number of workers, messages and interruptions.           *)
(***************************************************************************)
EXTENDS ClickProcessor, ClickConsumer, TLAPS


\* How many sinks have been tried where Process is.
Tried == [idle |-> 6, cassandra |-> 0, redis |-> 1, hour |-> 2, day |-> 2,
          country |-> 3, device |-> 4, quota |-> 5, mark |-> 5, record |-> 6]

\* Every sink tried gave one error or one acknowledgement.
ErrsCount ==
    /\ errs <= Tried[at]
    /\ at # "idle" /\ wrote = {} => errs = Tried[at]
    /\ at # "idle" /\ wrote \cap {"sink", "mark"} # {} => errs < Tried[at]

\* The hour's row is written before the day's, once for each event.
RowsCount ==
    /\ hour + (IF at \in {"cassandra", "redis", "hour"} THEN 1 ELSE 0) <= clicks
    /\ day + (IF at = "day" THEN 1 ELSE 0) <= hour

\* The counter lies between the events that surely failed and those that may have.
FailuresCount ==
    /\ failures <= Len(recent)
    /\ \A i \in 1..failures : recent[i] \subseteq {"quota"}
    /\ \A n \in 1..Len(recent) :
          (\A i \in 1..n : recent[i] = {}) => n <= failures

Typed ==
    /\ at \in Places
    /\ errs \in Nat
    /\ failures \in Nat
    /\ misses \in 0..Misses
    /\ clicks \in 0..MaxClicks
    /\ hour \in Nat
    /\ day \in Nat
    /\ wrote \in SUBSET Answers
    /\ recent \in Seq(SUBSET Answers)

\* The inductive invariant.
CInv == Typed /\ ErrsCount /\ RowsCount /\ FailuresCount

LEMMA PlacesAre ==
    /\ Sinks = {"cassandra", "redis", "hour", "day", "country", "device"}
    /\ Places = {"idle", "cassandra", "redis", "hour", "day", "country",
                 "device", "quota", "mark", "record"}
  BY DEF Sinks, Places, After

LEMMA InitCInv == Init => CInv
<1> SUFFICES ASSUME Init PROVE CInv
  OBVIOUS
<1>1. recent \in Seq(SUBSET Answers) /\ Len(recent) = 0
  BY DEF Init
<1>2. Typed
  BY <1>1, PlacesAre, ProcessorAssumption DEF Init, Typed
<1>3. ErrsCount /\ RowsCount
  BY DEF Init, ErrsCount, RowsCount, Tried
<1>4. FailuresCount
  BY <1>1 DEF Init, FailuresCount
<1> QED BY <1>2, <1>3, <1>4 DEF CInv

\* One write of Process.
LEMMA WriteStep ==
    ASSUME CInv, NEW s \in Sinks, Write(s)
    PROVE  Typed' /\ ErrsCount' /\ RowsCount'
<1> USE PlacesAre, ProcessorAssumption DEF CInv, Typed, worker
<1>1. CASE Acknowledged(s)
  <2>1. Typed'
    BY <1>1 DEF Acknowledged, Apply, After, Answers
  <2>2. ErrsCount'
    <3>1. errs' = errs /\ at = s /\ at' = After[s]
      BY <1>1 DEF Acknowledged
    <3>2. CASE s = "hour"
      BY <1>1, <3>1, <3>2 DEF Acknowledged, ErrsCount, After, Tried
    <3>3. CASE s # "hour"
      <4>1. Tried[at'] = Tried[at] + 1 /\ Tried[at] \in Nat /\ at' # "idle"
        BY <3>1, <3>3 DEF After, Tried
      <4>2. wrote' # {}
        BY <1>1, <3>3 DEF Acknowledged
      <4> QED BY <3>1, <4>1, <4>2 DEF ErrsCount
    <3> QED BY <3>2, <3>3
  <2>3. RowsCount'
    BY <1>1 DEF Acknowledged, Apply, RowsCount, After
  <2> QED BY <2>1, <2>2, <2>3
<1>2. CASE Refused(s)
  <2>1. Typed'
    BY <1>2 DEF Refused, Errs, AfterError, After
  <2>2. ErrsCount'
    BY <1>2 DEF Refused, Errs, AfterError, ErrsCount, After, Tried
  <2>3. RowsCount'
    BY <1>2 DEF Refused, Errs, AfterError, RowsCount, After
  <2> QED BY <2>1, <2>2, <2>3
<1>3. CASE Unanswered(s)
  <2>1. Typed'
    BY <1>3 DEF Unanswered, Errs, Apply, AfterError, After
  <2>2. ErrsCount'
    BY <1>3 DEF Unanswered, Errs, AfterError, ErrsCount, After, Tried
  <2>3. RowsCount'
    BY <1>3 DEF Unanswered, Errs, Apply, AfterError, RowsCount, After
  <2> QED BY <2>1, <2>2, <2>3
<1> QED BY <1>1, <1>2, <1>3 DEF Write

\* The quota and its flag.
LEMMA QuotaStep ==
    ASSUME CInv, CountUsage \/ CountFails \/ MarkOverQuota \/ MarkFails
    PROVE  Typed' /\ ErrsCount' /\ RowsCount'
<1> USE PlacesAre, ProcessorAssumption DEF CInv, Typed, worker
<1>1. CASE CountUsage
  <2>1. Typed' /\ RowsCount'
    BY <1>1 DEF CountUsage, RowsCount, Answers
  <2>2. errs <= 5 /\ (wrote \cap {"sink", "mark"} # {} => errs < 5)
    BY <1>1 DEF CountUsage, ErrsCount, Tried
  <2>3. ErrsCount'
    BY <1>1, <2>2 DEF CountUsage, ErrsCount, Tried
  <2> QED BY <2>1, <2>3
<1>2. CASE CountFails
  BY <1>2 DEF CountFails, ErrsCount, RowsCount, Tried
<1>3. CASE MarkOverQuota
  BY <1>3 DEF MarkOverQuota, ErrsCount, RowsCount, Tried, Answers
<1>4. CASE MarkFails
  BY <1>4 DEF MarkFails, ErrsCount, RowsCount, Tried
<1> QED BY <1>1, <1>2, <1>3, <1>4

\* The tracker: the event goes to the front of the history.
LEMMA RecordStep == ASSUME CInv, Record PROVE CInv'
<1> USE PlacesAre, ProcessorAssumption DEF CInv
<1>1. Typed /\ at = "record" /\ at' = "idle" /\ recent' = <<wrote>> \o recent
  BY DEF Record, RecordFailure, RecordSuccess
<1>2. /\ recent' \in Seq(SUBSET Answers)
      /\ Len(recent') = Len(recent) + 1 /\ Len(recent) \in Nat
      /\ recent'[1] = wrote
      /\ \A i \in 1..Len(recent) : recent'[i + 1] = recent[i]
  BY <1>1 DEF Typed
<1>3. Typed'
  BY <1>1, <1>2 DEF Typed, Record, RecordFailure, RecordSuccess
<1>4. ErrsCount' /\ RowsCount'
  BY <1>1 DEF Record, Typed, ErrsCount, RowsCount, Tried
<1>5. FailuresCount'
  <2>1. CASE FailedEverywhere
    <3>1. failures' = failures + 1
      BY <2>1 DEF Record, RecordFailure, RecordSuccess
    <3>2. wrote \subseteq {"quota"}
      BY <1>1, <2>1 DEF FailedEverywhere, writeCount, ErrsCount, Tried, Typed, Answers
    <3>3. \A i \in 1..failures' : recent'[i] \subseteq {"quota"}
      <4>1. TAKE i \in 1..failures'
      <4>2. CASE i = 1
        BY <1>2, <3>2, <4>2
      <4>3. CASE i # 1
        <5>1. i - 1 \in 1..failures /\ i - 1 \in 1..Len(recent)
          BY <1>1, <1>2, <3>1, <4>3 DEF FailuresCount, Typed
        <5>2. recent'[(i - 1) + 1] = recent[i - 1] /\ (i - 1) + 1 = i
          BY <1>2, <5>1
        <5> QED BY <5>1, <5>2 DEF FailuresCount
      <4> QED BY <4>2, <4>3
    <3>4. \A n \in 1..Len(recent') :
             (\A i \in 1..n : recent'[i] = {}) => n <= failures'
      <4>1. TAKE n \in 1..Len(recent')
      <4>2. HAVE \A i \in 1..n : recent'[i] = {}
      <4>3. CASE n = 1
        BY <1>1, <3>1, <4>3 DEF Typed
      <4>4. CASE n # 1
        <5>1. n - 1 \in 1..Len(recent)
          BY <1>2, <4>4
        <5>2. \A i \in 1..(n - 1) : recent[i] = {}
          <6>1. TAKE i \in 1..(n - 1)
          <6>2. i \in 1..Len(recent) /\ i + 1 \in 1..n
            BY <1>2, <5>1
          <6> QED BY <1>2, <4>2, <6>2
        <5>3. n - 1 <= failures
          BY <5>1, <5>2 DEF FailuresCount
        <5> QED BY <1>1, <3>1, <5>1, <5>3 DEF Typed
      <4> QED BY <4>3, <4>4
    <3>5. failures' <= Len(recent')
      BY <1>1, <1>2, <3>1 DEF FailuresCount, Typed
    <3> QED BY <3>3, <3>4, <3>5 DEF FailuresCount
  <2>2. CASE ~FailedEverywhere
    <3>1. failures' = 0
      BY <2>2 DEF Record, RecordFailure, RecordSuccess
    <3>2. recent'[1] # {}
      BY <1>1, <1>2, <2>2 DEF FailedEverywhere, writeCount, ErrsCount, Tried
    <3>3. \A n \in 1..Len(recent') :
             (\A i \in 1..n : recent'[i] = {}) => n <= failures'
      <4>1. TAKE n \in 1..Len(recent')
      <4>2. 1 \in 1..n
        BY <1>2
      <4> QED BY <3>2, <4>2
    <3> QED BY <1>2, <3>1, <3>3 DEF FailuresCount
  <2> QED BY <2>1, <2>2
<1> QED BY <1>3, <1>4, <1>5

\* A new process.
LEMMA StartStep == ASSUME CInv, Start PROVE CInv'
<1>1. recent' \in Seq(SUBSET Answers) /\ Len(recent') = 0
  BY DEF Start
<1>2. Typed'
  BY <1>1, PlacesAre, ProcessorAssumption DEF CInv, Typed, Start
<1>3. ErrsCount'
  BY DEF Start, ErrsCount, Tried
<1>4. RowsCount'
  BY PlacesAre DEF CInv, Typed, Start, RowsCount
<1>5. FailuresCount'
  BY <1>1 DEF Start, FailuresCount
<1> QED BY <1>2, <1>3, <1>4, <1>5 DEF CInv

THEOREM Invariant == Spec => []CInv
<1>1. CInv /\ [Next]_vars => CInv'
  <2> SUFFICES ASSUME CInv, [Next]_vars PROVE CInv'
    OBVIOUS
  <2>1. CASE Begin
    <3>1. Typed' /\ ErrsCount' /\ RowsCount'
      BY <2>1, PlacesAre, ProcessorAssumption
         DEF Begin, CInv, Typed, ErrsCount, RowsCount, Tried
    <3>2. FailuresCount'
      BY <2>1 DEF Begin, CInv, FailuresCount
    <3> QED BY <3>1, <3>2 DEF CInv
  <2>2. ASSUME NEW s \in Sinks, Write(s) PROVE CInv'
    <3>1. UNCHANGED <<failures, recent>>
      BY <2>2 DEF Write, Acknowledged, Refused, Unanswered, worker
    <3>2. FailuresCount'
      BY <3>1 DEF CInv, FailuresCount
    <3> QED BY <2>2, <3>2, WriteStep DEF CInv
  <2>3. CASE CountUsage \/ CountFails \/ MarkOverQuota \/ MarkFails
    <3>1. UNCHANGED <<failures, recent>>
      BY <2>3 DEF CountUsage, CountFails, MarkOverQuota, MarkFails, worker
    <3>2. FailuresCount'
      BY <3>1 DEF CInv, FailuresCount
    <3> QED BY <2>3, <3>2, QuotaStep DEF CInv
  <2>4. CASE Record
    BY <2>4, RecordStep
  <2>5. CASE Probe
    <3>1. Typed' /\ ErrsCount' /\ RowsCount'
      BY <2>5, ProcessorAssumption
         DEF Probe, CInv, Typed, ErrsCount, RowsCount
    <3>2. FailuresCount'
      BY <2>5 DEF Probe, CInv, FailuresCount
    <3> QED BY <3>1, <3>2 DEF CInv
  <2>6. CASE Restart \/ Crash
    BY <2>6, StartStep DEF Restart, Crash
  <2>7. CASE UNCHANGED vars
    <3>1. Typed' /\ ErrsCount' /\ RowsCount'
      BY <2>7 DEF vars, CInv, Typed, ErrsCount, RowsCount
    <3>2. FailuresCount'
      BY <2>7 DEF vars, CInv, FailuresCount
    <3> QED BY <3>1, <3>2 DEF CInv
  <2> QED BY <2>1, <2>2, <2>3, <2>4, <2>5, <2>6, <2>7 DEF Next, Process
<1> QED BY InitCInv, <1>1, PTL DEF Spec

\* Process collects at most one error for each sink.
THEOREM TypeCorrect == Spec => []TypeOK
<1>1. CInv => TypeOK
  BY PlacesAre, ProcessorAssumption
     DEF CInv, Typed, TypeOK, ErrsCount, RowsCount, Tried, writeCount
<1> QED BY Invariant, <1>1, PTL

\* IncrClickAggregate keeps the day's row within the hours' rows.
THEOREM DayWithin == Spec => []DayWithinHours
<1>1. CInv => DayWithinHours
  BY DEF CInv, Typed, RowsCount, DayWithinHours
<1> QED BY Invariant, <1>1, PTL

\* The tracker notices an outage of every sink.
THEOREM Noticed == Spec => []OutageNoticed
<1>1. CInv => OutageNoticed
  <2> SUFFICES ASSUME CInv, Len(recent) >= MaxFailures,
                      \A i \in 1..MaxFailures : recent[i] = {}
               PROVE  ~Healthy
    BY DEF OutageNoticed
  <2>1. MaxFailures \in 1..Len(recent)
    BY ProcessorAssumption DEF CInv, Typed
  <2>2. MaxFailures <= failures
    BY <2>1 DEF CInv, FailuresCount
  <2> QED BY <2>2, ProcessorAssumption DEF Healthy, CInv, Typed
<1> QED BY Invariant, <1>1, PTL

\* A flaky sink never makes the worker unhealthy.
THEOREM OnlyInOutage == Spec => []UnhealthyOnlyInOutage
<1>1. CInv => UnhealthyOnlyInOutage
  <2> SUFFICES ASSUME CInv, ~Healthy
               PROVE  /\ Len(recent) >= MaxFailures
                      /\ \A i \in 1..MaxFailures : recent[i] \subseteq {"quota"}
    BY DEF UnhealthyOnlyInOutage
  <2>1. failures >= MaxFailures /\ Len(recent) \in Nat
    BY ProcessorAssumption DEF CInv, Typed, Healthy
  <2>2. Len(recent) >= MaxFailures
    BY <2>1, ProcessorAssumption DEF CInv, Typed, FailuresCount
  <2>3. \A i \in 1..MaxFailures : i \in 1..failures
    BY <2>1, ProcessorAssumption DEF CInv, Typed
  <2> QED BY <2>2, <2>3 DEF CInv, FailuresCount
<1> QED BY Invariant, <1>1, PTL

-----------------------------------------------------------------------------
(* The consumer group (module ClickConsumer).                                *)

\* Offset o has been somebody's business.
Reached(o) == o \in handled \/ o \in dropped \/ \E w \in Workers : work[w] = o

\* Nothing is committed, queued or passed that was not reached.
AllReached ==
    /\ \A o \in 1..committed : Reached(o)
    /\ \A w \in Workers : \A o \in 1..queued[w] : Reached(o)
    /\ \A w \in Workers : \A o \in 1..position[w] : Reached(o)

\* Offsets ahead of the owner, or ahead of all the group will know once the
\* owner has committed, have been read at most once for every setback.
Ahead ==
    \A o \in Offsets :
        /\ runs[o] <= 1 + setbacks
        /\ o > position[owner] => runs[o] <= setbacks
        /\ o > committed /\ o > queued[owner] => runs[o] <= setbacks

\* The inductive invariant.
GInv == GroupTypeOK /\ AllReached /\ Ahead

LEMMA InitGInv == ASSUME GroupInit PROVE GInv
<1> USE ConsumerAssumption DEF GroupInit
<1>1. GroupTypeOK
  BY DEF GroupTypeOK
<1>2. AllReached
  BY DEF AllReached
<1>3. Ahead
  BY DEF Ahead, Offsets
<1> QED BY <1>1, <1>2, <1>3 DEF GInv

\* Reading keeps what has been reached, and reaches the next offset.
LEMMA ReadStep ==
    ASSUME GInv, NEW w \in Workers, BeginProcess(w) \/ Skip(w)
    PROVE  GInv'
<1> USE ConsumerAssumption DEF GInv, GroupTypeOK
<1>a. PICK n \in Nat : n = position[w] + 1
  OBVIOUS
<1>1. /\ owner = w /\ work[w] = 0 /\ n <= log /\ n \in 1..log
      /\ position' = [position EXCEPT ![w] = n]
      /\ queued' = [queued EXCEPT ![w] = n]
      /\ runs' = [runs EXCEPT ![n] = @ + 1]
      /\ UNCHANGED <<log, owner, committed, dropped, setbacks, interruptions>>
  BY <1>a DEF BeginProcess, Skip, ReadMessage, QueueCommit, history
<1>2. \/ work' = [work EXCEPT ![w] = n] /\ handled' = handled
      \/ work' = work /\ handled' = handled \cup {n}
  BY <1>a DEF BeginProcess, Skip
<1>3. GroupTypeOK'
  <2>1. work' \in [Workers -> 0..log] /\ handled' \subseteq 1..log
    <3>1. CASE work' = [work EXCEPT ![w] = n] /\ handled' = handled
      BY <1>1, <3>1
    <3>2. CASE work' = work /\ handled' = handled \cup {n}
      BY <1>1, <3>2
    <3> QED BY <1>2, <3>1, <3>2
  <2>2. n \in Offsets
    BY <1>1 DEF Offsets
  <2>3. runs' \in [Offsets -> Nat]
    BY <1>1, <2>2
  <2>4. /\ position' \in [Workers -> 0..log] /\ queued' \in [Workers -> 0..log]
        /\ dropped \subseteq 1..log
    BY <1>1
  <2> QED BY <1>1, <2>1, <2>3, <2>4
<1>4. \A o \in 1..log : Reached(o) => Reached(o)'
  BY <1>1, <1>2 DEF Reached
<1>5. Reached(n)'
  <2>1. CASE work' = [work EXCEPT ![w] = n]
    <3>1. work'[w] = n
      BY <2>1
    <3> QED BY <3>1 DEF Reached
  <2>2. CASE handled' = handled \cup {n}
    BY <2>2 DEF Reached
  <2> QED BY <1>2, <2>1, <2>2
<1>6. AllReached'
  <2>1. \A o \in 1..n : Reached(o)'
    <3>1. TAKE o \in 1..n
    <3>2. CASE o = n
      BY <1>5, <3>2
    <3>3. CASE o # n
      <4>1. o \in 1..position[w] /\ o \in 1..log
        BY <1>1, <1>a, <3>3
      <4> QED BY <1>4, <4>1 DEF AllReached
    <3> QED BY <3>2, <3>3
  <2>2. \A v \in Workers : \A o \in 1..queued'[v] : Reached(o)'
    <3>1. TAKE v \in Workers
    <3>2. CASE v = w
      BY <1>1, <2>1, <3>2
    <3>3. CASE v # w
      <4>1. queued'[v] = queued[v] /\ queued[v] \in 0..log
        BY <1>1, <3>3
      <4> QED BY <1>4, <4>1 DEF AllReached
    <3> QED BY <3>2, <3>3
  <2>3. \A v \in Workers : \A o \in 1..position'[v] : Reached(o)'
    <3>1. TAKE v \in Workers
    <3>2. CASE v = w
      BY <1>1, <2>1, <3>2
    <3>3. CASE v # w
      <4>1. position'[v] = position[v] /\ position[v] \in 0..log
        BY <1>1, <3>3
      <4> QED BY <1>4, <4>1 DEF AllReached
    <3> QED BY <3>2, <3>3
  <2>4. \A o \in 1..committed' : Reached(o)'
    BY <1>1, <1>4 DEF AllReached
  <2> QED BY <2>2, <2>3, <2>4 DEF AllReached
<1>7. Ahead'
  <2> SUFFICES ASSUME NEW o \in Offsets
        PROVE /\ runs'[o] <= 1 + setbacks'
              /\ o > position'[owner'] => runs'[o] <= setbacks'
              /\ o > committed' /\ o > queued'[owner'] => runs'[o] <= setbacks'
    BY DEF Ahead
  <2>1. /\ position'[owner'] = n /\ queued'[owner'] = n
        /\ setbacks' = setbacks /\ setbacks \in Nat
        /\ o \in Nat /\ n \in Nat /\ n = position[owner] + 1
        /\ runs[o] \in Nat /\ position[owner] \in Nat
    BY <1>1, <1>a DEF Offsets
  <2>2. CASE o = n
    <3>1. runs'[o] = runs[o] + 1
      BY <1>1, <2>2
    <3>2. runs[o] <= setbacks
      BY <2>1, <2>2 DEF Ahead
    <3> QED BY <2>1, <2>2, <3>1, <3>2
  <2>3. CASE o # n
    <3>1. runs'[o] = runs[o]
      BY <1>1, <2>3
    <3>2. o > n => runs[o] <= setbacks
      BY <2>1 DEF Ahead
    <3> QED BY <2>1, <2>3, <3>1, <3>2 DEF Ahead
  <2> QED BY <2>2, <2>3
<1> QED BY <1>3, <1>6, <1>7

\* What the other steps keep of AllReached: nothing reached is forgotten, and
\* offsets only move to where one has been.
LEMMA KeepReached ==
    ASSUME GInv, log' \in Nat, log <= log',
           \A o \in 1..log : Reached(o) => Reached(o)',
           committed' \in {committed} \cup {queued[w] : w \in Workers},
           \A v \in Workers : queued'[v] \in {0, queued[v]},
           \A v \in Workers : position'[v] \in {position[v], committed'}
    PROVE  AllReached'
<1>1. \A o \in 1..committed' : Reached(o)'
  BY DEF GInv, GroupTypeOK, AllReached
<1>2. \A v \in Workers : \A o \in 1..queued'[v] : Reached(o)'
  BY DEF GInv, GroupTypeOK, AllReached
<1>3. \A v \in Workers : \A o \in 1..position'[v] : Reached(o)'
  <2>1. TAKE v \in Workers
  <2>2. CASE position'[v] = position[v]
    BY <2>2 DEF GInv, GroupTypeOK, AllReached
  <2>3. CASE position'[v] = committed'
    BY <1>1, <2>3
  <2> QED BY <2>2, <2>3
<1> QED BY <1>1, <1>2, <1>3 DEF AllReached

\* A step that moves the group's offset, with the setback it counts.
LEMMA KeepAhead ==
    ASSUME GInv,
           runs' = runs, setbacks' \in Nat, committed' \in 0..log,
           owner' \in Workers,
           \/ setbacks' = setbacks + 1
           \/ /\ setbacks' = setbacks
              /\ committed' >= committed
              /\ \/ owner' = owner /\ position'[owner'] = position[owner]
                 \/ position'[owner'] = committed' /\ committed' >= queued[owner]
              /\ \/ owner' = owner /\ queued'[owner'] = queued[owner]
                 \/ committed' >= queued[owner]
    PROVE  Ahead'
<1> SUFFICES ASSUME NEW o \in Offsets
      PROVE /\ runs'[o] <= 1 + setbacks'
            /\ o > position'[owner'] => runs'[o] <= setbacks'
            /\ o > committed' /\ o > queued'[owner'] => runs'[o] <= setbacks'
  BY DEF Ahead
<1>1. /\ runs'[o] = runs[o] /\ runs[o] \in Nat /\ o \in Nat
      /\ setbacks \in Nat /\ committed \in Nat /\ committed' \in Nat
      /\ queued[owner] \in Nat /\ position[owner] \in Nat
  BY ConsumerAssumption DEF GInv, GroupTypeOK, Offsets
<1>2. /\ runs[o] <= 1 + setbacks
      /\ o > position[owner] => runs[o] <= setbacks
      /\ o > committed /\ o > queued[owner] => runs[o] <= setbacks
  BY DEF GInv, Ahead
<1>3. CASE setbacks' = setbacks + 1
  BY <1>1, <1>2, <1>3
<1>4. CASE setbacks' = setbacks
  <2>1. o > position'[owner'] => runs'[o] <= setbacks'
    BY <1>1, <1>2, <1>4
  <2>2. o > committed' /\ o > queued'[owner'] => runs'[o] <= setbacks'
    BY <1>1, <1>2, <1>4
  <2> QED BY <1>1, <1>2, <1>4, <2>1, <2>2
<1> QED BY <1>3, <1>4

\* The end of Process.
LEMMA FinishStep == ASSUME GInv, NEW w \in Workers, Finish(w) PROVE GInv'
<1> USE ConsumerAssumption DEF history
<1>1. GroupTypeOK'
  <2>1. work[w] \in 1..log
    BY DEF GInv, GroupTypeOK, Finish
  <2>2. /\ work' = [work EXCEPT ![w] = 0] /\ handled' = handled \cup {work[w]}
        /\ work \in [Workers -> 0..log] /\ handled \subseteq 1..log
        /\ 0 \in 0..log /\ log' = log
    BY DEF GInv, GroupTypeOK, Finish
  <2>3. work' \in [Workers -> 0..log']
    BY <2>2
  <2>4. handled' \subseteq 1..log'
    BY <2>1, <2>2
  <2> QED BY <2>3, <2>4 DEF GInv, GroupTypeOK, Finish
<1>2. \A o \in 1..log : Reached(o) => Reached(o)'
  BY DEF GInv, GroupTypeOK, Reached, Finish
<1>3. AllReached'
  BY <1>2 DEF GInv, GroupTypeOK, AllReached, Finish
<1>4. Ahead'
  BY DEF GInv, Ahead, Finish
<1> QED BY <1>1, <1>3, <1>4 DEF GInv

\* The interval's commit.
LEMMA CommitStep == ASSUME GInv, NEW w \in Workers, Commit(w) PROVE GInv'
<1> USE ConsumerAssumption
<1>1. GroupTypeOK'
  BY DEF GInv, GroupTypeOK, Commit
<1>2. \A o \in 1..log : Reached(o) => Reached(o)'
  BY DEF Reached, Commit
<1>3. AllReached'
  BY <1>2, KeepReached DEF GInv, GroupTypeOK, Commit
<1>4. Ahead'
  <2>1. /\ runs' = runs /\ owner' = owner /\ position' = position
        /\ committed' = queued[w] /\ owner \in Workers
        /\ setbacks' = (IF queued[w] < committed THEN setbacks + 1 ELSE setbacks)
        /\ committed' \in 0..log /\ committed \in 0..log /\ log \in Nat
        /\ setbacks' \in Nat
    BY DEF GInv, GroupTypeOK, Commit
  <2>2. queued'[owner] = queued[owner] \/ w = owner
    BY DEF GInv, GroupTypeOK, Commit
  <2> QED BY <2>1, <2>2, KeepAhead
<1> QED BY <1>1, <1>3, <1>4 DEF GInv

\* The end of a worker, with or without the close of its reader.
LEMMA EndStep ==
    ASSUME GInv, NEW w \in Workers, Stop(w) \/ WorkerDies(w)
    PROVE  GInv'
<1> USE ConsumerAssumption
<1>1. /\ work' = [work EXCEPT ![w] = 0]
      /\ queued' = [queued EXCEPT ![w] = 0]
      /\ dropped' = dropped \cup ({work[w]} \ {0})
      /\ \/ owner = w /\ \E v \in Workers :
               owner' = v /\ position' = [position EXCEPT ![v] = committed']
         \/ owner # w /\ UNCHANGED <<owner, position>>
      /\ UNCHANGED <<log, handled, runs>>
      /\ interruptions < MaxInterruptions /\ interruptions' = interruptions + 1
  BY DEF Stop, WorkerDies, End, Assign, Interrupt
<1>2. \/ /\ committed' = committed
         /\ setbacks' = IF queued[w] # 0 THEN setbacks + 1 ELSE setbacks
      \/ /\ committed' = IF queued[w] # 0 THEN queued[w] ELSE committed
         /\ setbacks' = IF queued[w] # 0 /\ queued[w] < committed
                        THEN setbacks + 1 ELSE setbacks
  BY DEF Stop, WorkerDies, Close, Late
<1>3. committed' \in 0..log /\ setbacks' \in Nat /\ committed' \in {committed, queued[w]}
  BY <1>2 DEF GInv, GroupTypeOK
<1>4. GroupTypeOK'
  <2>1. position' \in [Workers -> 0..log] /\ owner' \in Workers
    BY <1>1, <1>3 DEF GInv, GroupTypeOK
  <2>2. dropped' \subseteq 1..log
    <3>1. work[w] # 0 => work[w] \in 1..log
      BY DEF GInv, GroupTypeOK
    <3> QED BY <1>1, <3>1 DEF GInv, GroupTypeOK
  <2>3. /\ queued' \in [Workers -> 0..log] /\ work' \in [Workers -> 0..log]
        /\ interruptions' \in 0..MaxInterruptions
    BY <1>1 DEF GInv, GroupTypeOK
  <2> QED BY <1>1, <1>3, <2>1, <2>2, <2>3 DEF GInv, GroupTypeOK
<1>5. \A o \in 1..log : Reached(o) => Reached(o)'
  <2>1. TAKE o \in 1..log
  <2>2. HAVE Reached(o)
  <2>3. CASE work[w] = o
    BY <1>1, <2>3 DEF Reached, GInv, GroupTypeOK
  <2>4. CASE work[w] # o
    BY <1>1, <2>2, <2>4 DEF Reached, GInv, GroupTypeOK
  <2> QED BY <2>3, <2>4
<1>6. AllReached'
  <2>1. log' \in Nat /\ log <= log'
    BY <1>1 DEF GInv, GroupTypeOK
  <2>2. committed' \in {committed} \cup {queued[v] : v \in Workers}
    BY <1>3
  <2>3. \A v \in Workers : queued'[v] \in {0, queued[v]}
    BY <1>1 DEF GInv, GroupTypeOK
  <2>4. \A v \in Workers : position'[v] \in {position[v], committed'}
    BY <1>1 DEF GInv, GroupTypeOK
  <2> QED BY <1>5, <2>1, <2>2, <2>3, <2>4, KeepReached
<1>7. Ahead'
  <2>1. /\ runs' = runs /\ owner' \in Workers /\ owner \in Workers
        /\ committed \in 0..log /\ log \in Nat /\ queued[w] \in 0..log
    BY <1>1 DEF GInv, GroupTypeOK
  <2>2. CASE setbacks' = setbacks + 1
    BY <1>3, <2>1, <2>2, KeepAhead
  <2>3. CASE setbacks' = setbacks
    <3>1. committed' >= committed /\ committed' >= queued[w]
      BY <1>2, <2>1, <2>3 DEF GInv, GroupTypeOK
    <3>2. CASE owner = w
      <4>1. position'[owner'] = committed'
        BY <1>1, <3>2 DEF GInv, GroupTypeOK
      <4> QED BY <1>3, <2>1, <2>3, <3>1, <3>2, <4>1, KeepAhead
    <3>3. CASE owner # w
      <4>1. owner' = owner /\ position' = position /\ queued'[owner] = queued[owner]
        BY <1>1, <3>3 DEF GInv, GroupTypeOK
      <4> QED BY <1>3, <2>1, <2>3, <3>1, <4>1, KeepAhead
    <3> QED BY <3>2, <3>3
  <2> QED BY <1>2, <2>2, <2>3
<1> QED BY <1>4, <1>6, <1>7 DEF GInv

\* A new generation.
LEMMA RebalanceStep ==
    ASSUME GInv, NEW w \in Workers, NEW v \in Workers, Rebalance(w, v)
    PROVE  GInv'
<1> USE ConsumerAssumption
<1>1. /\ owner = w /\ owner' = v /\ position' = [position EXCEPT ![v] = committed']
      /\ UNCHANGED <<log, work, handled, runs, dropped>>
      /\ interruptions < MaxInterruptions /\ interruptions' = interruptions + 1
  BY DEF Rebalance, Assign, Interrupt
<1>2. \/ /\ committed' = queued[w]
         /\ queued' = [queued EXCEPT ![w] = 0]
         /\ setbacks' = IF queued[w] < committed THEN setbacks + 1 ELSE setbacks
      \/ /\ queued' \in {queued, [queued EXCEPT ![w] = 0]}
         /\ setbacks' = setbacks + 1
         /\ committed' = committed
      \/ /\ queued[w] = 0
         /\ committed' = committed /\ queued' = queued /\ setbacks' = setbacks
  BY DEF Rebalance, Late
<1>3. committed' \in 0..log /\ setbacks' \in Nat /\ committed' \in {committed, queued[w]}
  BY <1>2 DEF GInv, GroupTypeOK
<1>4. queued' \in [Workers -> 0..log] /\ \A u \in Workers : queued'[u] \in {0, queued[u]}
  BY <1>2 DEF GInv, GroupTypeOK
<1>5. GroupTypeOK'
  <2>1. position' \in [Workers -> 0..log] /\ interruptions' \in 0..MaxInterruptions
    BY <1>1, <1>3 DEF GInv, GroupTypeOK
  <2> QED BY <1>1, <1>3, <1>4, <2>1 DEF GInv, GroupTypeOK
<1>6. AllReached'
  <2>1. \A o \in 1..log : Reached(o) => Reached(o)'
    BY <1>1 DEF Reached
  <2>2. log' \in Nat /\ log <= log'
    BY <1>1 DEF GInv, GroupTypeOK
  <2>3. committed' \in {committed} \cup {queued[u] : u \in Workers}
    BY <1>3
  <2>4. \A u \in Workers : position'[u] \in {position[u], committed'}
    BY <1>1 DEF GInv, GroupTypeOK
  <2> QED BY <1>4, <2>1, <2>2, <2>3, <2>4, KeepReached
<1>7. Ahead'
  <2>1. /\ runs' = runs /\ owner' \in Workers
        /\ committed \in 0..log /\ log \in Nat /\ queued[w] \in 0..log
        /\ position'[owner'] = committed'
    BY <1>1 DEF GInv, GroupTypeOK
  <2>2. CASE setbacks' = setbacks + 1
    BY <1>3, <2>1, <2>2, KeepAhead
  <2>3. CASE setbacks' = setbacks
    <3>1. committed' >= committed /\ committed' >= queued[w]
      BY <1>2, <2>1, <2>3 DEF GInv, GroupTypeOK
    <3> QED BY <1>1, <1>3, <2>1, <2>3, <3>1, KeepAhead
  <2> QED BY <1>2, <2>2, <2>3
<1> QED BY <1>5, <1>6, <1>7 DEF GInv

THEOREM GroupInvariant == GroupSpec => []GInv
<1>1. GInv /\ [GroupNext]_groupVars => GInv'
  <2> SUFFICES ASSUME GInv, [GroupNext]_groupVars PROVE GInv'
    OBVIOUS
  <2>1. CASE Publish
    <3>1. GroupTypeOK'
      BY <2>1, ConsumerAssumption DEF GInv, GroupTypeOK, Publish, history
    <3>2. AllReached'
      BY <2>1 DEF GInv, AllReached, Reached, Publish, history
    <3>3. Ahead'
      BY <2>1 DEF GInv, Ahead, Publish, history
    <3> QED BY <3>1, <3>2, <3>3 DEF GInv
  <2>2. ASSUME NEW w \in Workers, Loop(w) \/ Commit(w) \/ Stop(w) \/ WorkerDies(w)
        PROVE GInv'
    BY <2>2, ReadStep, FinishStep, CommitStep, EndStep DEF Loop
  <2>3. ASSUME NEW w \in Workers, NEW v \in Workers, Rebalance(w, v) PROVE GInv'
    BY <2>3, RebalanceStep
  <2>4. CASE UNCHANGED groupVars
    <3>1. GroupTypeOK'
      BY <2>4 DEF GInv, GroupTypeOK, groupVars
    <3>2. AllReached'
      BY <2>4 DEF GInv, AllReached, Reached, groupVars
    <3>3. Ahead'
      BY <2>4 DEF GInv, Ahead, groupVars
    <3> QED BY <3>1, <3>2, <3>3 DEF GInv
  <2> QED BY <2>1, <2>2, <2>3, <2>4 DEF GroupNext
<1>2. GroupInit => GInv
  BY InitGInv
<1> QED BY <1>1, <1>2, PTL DEF GroupSpec

\* Readers, commits and histories keep their types.
THEOREM GroupTypeCorrect == GroupSpec => []GroupTypeOK
<1>1. GInv => GroupTypeOK
  BY DEF GInv
<1> QED BY GroupInvariant, <1>1, PTL

\* A worker loses the message in its hands and no other (kafka_consumer.go,
\* Run: one message between two reads).
THEOREM LosesOnlyInHand == GroupSpec => []LossBounded
<1>1. GInv => LossBounded
  BY DEF GInv, GroupTypeOK, AllReached, Reached, LossBounded, Lost, InWork
<1> QED BY GroupInvariant, <1>1, PTL

\* A message is read again only after a setback of the commits.
THEOREM RereadsOnlyAfterSetback == GroupSpec => []RereadBounded
<1>1. GInv => RereadBounded
  BY DEF GInv, Ahead, RereadBounded
<1> QED BY GroupInvariant, <1>1, PTL
=============================================================================
