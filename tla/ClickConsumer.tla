---------------------------- MODULE ClickConsumer ----------------------------
(***************************************************************************)
(* The workers of one consumer group on one partition of the click topic.  *)
(* ReadMessage queues the commit of a message when it returns it, before   *)
(* it is processed, and the reader commits what is queued once a second;   *)
(* a failure of Process is logged and the loop goes on. Between a read and *)
(* its commit, or its Process, a worker may be stopped, die, or lose the   *)
(* partition to another one.                                               *)
(*                                                                         *)
(* Offsets count from 1; a committed offset n means that messages up to n  *)
(* are not read again. An error of ReadMessage changes nothing: the loop   *)
(* tries again.                                                            *)
(***************************************************************************)
EXTENDS Naturals

CONSTANTS
    Workers,            \* the workers' processes
    Poison,             \* offsets of messages that do not decode
    MaxEvents,          \* bound: messages published
    MaxInterruptions    \* bound: stops, crashes and rebalances

ASSUME ConsumerAssumption ==
    /\ Workers # {}
    /\ MaxEvents \in Nat /\ MaxInterruptions \in Nat
    /\ Poison \subseteq 1..MaxEvents

VARIABLES
    log,            \* messages published
    owner,          \* the worker the partition is assigned to
    position,       \* worker -> the last offset its reader returned
    queued,         \* worker -> the offset it will commit next, 0 if none
    committed,      \* the group's offset
    work,           \* worker -> the offset it is processing, 0 if none
    handled,        \* history: offsets processed to the end, or skipped
    runs,           \* history: offset -> how often it was read
    dropped,        \* history: offsets in the hands of a worker that ended
    setbacks,       \* history: times the commit fell behind what was read
    interruptions

groupVars == <<log, owner, position, queued, committed, work, handled, runs,
          dropped, setbacks, interruptions>>

Offsets == 1..MaxEvents

GroupTypeOK ==
    /\ log \in 0..MaxEvents
    /\ owner \in Workers
    /\ position \in [Workers -> 0..log]
    /\ queued \in [Workers -> 0..log]
    /\ committed \in 0..log
    /\ work \in [Workers -> 0..log]
    /\ handled \subseteq 1..log
    /\ runs \in [Offsets -> Nat]
    /\ dropped \subseteq 1..log
    /\ setbacks \in Nat
    /\ interruptions \in 0..MaxInterruptions

GroupInit ==
    /\ log = 0
    /\ owner \in Workers
    /\ position = [w \in Workers |-> 0]
    /\ queued = [w \in Workers |-> 0]
    /\ committed = 0
    /\ work = [w \in Workers |-> 0]
    /\ handled = {}
    /\ runs = [o \in Offsets |-> 0]
    /\ dropped = {}
    /\ setbacks = 0
    /\ interruptions = 0

history == <<dropped, setbacks, interruptions>>

\* The router's publisher adds a message.
Publish ==
    /\ log < MaxEvents
    /\ log' = log + 1
    /\ UNCHANGED <<owner, position, queued, committed, work, handled, runs, history>>

-----------------------------------------------------------------------------
(* The loop of Run.                                                        *)

\* Mutant: the commit covers everything that was fetched.
CommitFetched(w, o) == queued' = [queued EXCEPT ![w] = log]

\* ReadMessage queues the commit of the message it returns.
QueueCommit(w, o) == queued' = [queued EXCEPT ![w] = o]

ReadMessage(w) ==
    LET o == position[w] + 1
    IN  /\ owner = w
        /\ work[w] = 0
        /\ o <= log
        /\ position' = [position EXCEPT ![w] = o]
        /\ QueueCommit(w, o)
        /\ runs' = [runs EXCEPT ![o] = @ + 1]
        /\ UNCHANGED <<log, owner, committed, history>>

BeginProcess(w) ==
    /\ position[w] + 1 \notin Poison
    /\ ReadMessage(w)
    /\ work' = [work EXCEPT ![w] = position[w] + 1]
    /\ UNCHANGED handled

\* Mutant: a message that does not decode is read again.
SkipNever(w) ==
    /\ position[w] + 1 \in Poison
    /\ owner = w /\ work[w] = 0 /\ position[w] < log
    /\ UNCHANGED groupVars

\* json.Unmarshal fails: the message is logged and passed over.
Skip(w) ==
    /\ position[w] + 1 \in Poison
    /\ ReadMessage(w)
    /\ handled' = handled \cup {position[w] + 1}
    /\ UNCHANGED work

\* Process returns, with or without an error: the loop goes on.
Finish(w) ==
    /\ work[w] # 0
    /\ work' = [work EXCEPT ![w] = 0]
    /\ handled' = handled \cup {work[w]}
    /\ UNCHANGED <<log, owner, position, queued, committed, runs, history>>

-----------------------------------------------------------------------------
(* The reader's commits and the group.                                     *)

\* The commit of the interval. One that was queued during a rebalance goes
\* out later, and may put the group back.
Commit(w) ==
    /\ queued[w] # 0
    /\ committed' = queued[w]
    /\ queued' = [queued EXCEPT ![w] = 0]
    /\ setbacks' = IF queued[w] < committed THEN setbacks + 1 ELSE setbacks
    /\ UNCHANGED <<log, owner, position, work, handled, runs, dropped, interruptions>>

\* The partition goes to v, whose reader starts after the group's offset.
Assign(v) ==
    /\ owner' = v
    /\ position' = [position EXCEPT ![v] = committed']

Interrupt ==
    /\ interruptions < MaxInterruptions
    /\ interruptions' = interruptions + 1

Late(w) == queued[w] # 0

\* w ends, and the partition it had goes to any worker: its message in work
\* is lost, and w joins again with nothing.
End(w) ==
    /\ work' = [work EXCEPT ![w] = 0]
    /\ queued' = [queued EXCEPT ![w] = 0]
    /\ dropped' = dropped \cup ({work[w]} \ {0})
    /\ \/ owner = w /\ \E v \in Workers : Assign(v)
       \/ owner # w /\ UNCHANGED <<owner, position>>
    /\ UNCHANGED <<log, handled, runs>>

\* Mutant: Run returns without closing the reader.
LeaveOpen(w) == UNCHANGED committed

\* reader.Close commits what is queued.
Close(w) == committed' = IF Late(w) THEN queued[w] ELSE committed

\* SIGTERM: Process returns early with errors, Run returns, the reader is
\* closed.
Stop(w) ==
    /\ Interrupt
    /\ Close(w)
    /\ End(w)
    /\ setbacks' = IF Late(w) /\ queued[w] < committed THEN setbacks + 1 ELSE setbacks

\* The process dies, or is killed by the probe.
WorkerDies(w) ==
    /\ Interrupt
    /\ UNCHANGED committed
    /\ End(w)
    /\ setbacks' = IF Late(w) THEN setbacks + 1 ELSE setbacks

\* The group starts a new generation, in which the partition is v's, while w
\* may be in Process. What w has queued is committed, refused, or left for
\* the next generation.
Rebalance(w, v) ==
    /\ Interrupt
    /\ owner = w
    /\ \/ /\ Late(w)
          /\ committed' = queued[w]
          /\ queued' = [queued EXCEPT ![w] = 0]
          /\ setbacks' = IF queued[w] < committed THEN setbacks + 1 ELSE setbacks
       \/ /\ Late(w)
          /\ queued' \in {queued, [queued EXCEPT ![w] = 0]}
          /\ setbacks' = setbacks + 1
          /\ UNCHANGED committed
       \/ /\ ~Late(w)
          /\ UNCHANGED <<committed, queued, setbacks>>
    /\ Assign(v)
    /\ UNCHANGED <<log, work, handled, runs, dropped>>

Loop(w) == BeginProcess(w) \/ Skip(w) \/ Finish(w)

GroupNext ==
    \/ Publish
    \/ \E w \in Workers :
          Loop(w) \/ Commit(w) \/ Stop(w) \/ WorkerDies(w)
    \/ \E w, v \in Workers : Rebalance(w, v)

GroupSpec == GroupInit /\ [][GroupNext]_groupVars

(***************************************************************************)
(* The loop of Run never rests. That Process ends is assumed of the stores *)
(* it writes to: the worker's context has no deadline, nor has pgx one of  *)
(* its own. Commits, interruptions and new messages need not happen.       *)
(***************************************************************************)
GroupFairSpec == GroupSpec /\ \A w \in Workers : WF_groupVars(Loop(w))

-----------------------------------------------------------------------------
(* Properties.                                                             *)

InWork == {work[w] : w \in Workers}

\* What the group has put behind it and nobody has handled or is handling.
Lost == {o \in 1..committed : o \notin handled \cup InWork}

\* Commits run ahead of Process by one message at most (kafka_consumer.go
\* reads the next message when Process has returned): a worker that ends
\* loses the message in its hands and no other.
LossBounded == Lost \subseteq dropped

\* A message is read again only when a commit was lost or came late; a clean
\* stop hands over exactly (kafka_consumer.go: "defer c.reader.Close()").
RereadBounded == \A o \in Offsets : runs[o] <= 1 + setbacks

\* No message, not even one that does not decode, holds up the partition:
\* each is handled, or it was in the hands of a worker that ended.
BacklogDrains ==
    \A o \in Offsets : o <= log ~> o \in handled \cup dropped
=============================================================================
