------------------------ MODULE ClickPublisherProofs ------------------------
(***************************************************************************)
(* Type correctness and the two promises of the shutdown, for any number   *)
(* of contexts and visitors and any capacity of the channel.               *)
(***************************************************************************)
EXTENDS ClickPublisher, TLAPS

Handling ==
    /\ handler \in [Contexts -> {"free", "resolving", "redirecting"}]
    /\ header \in [Contexts -> Visitors \cup {None}]

\* A context that is in use holds the headers of its visitor.
InUse == \A c \in Contexts : handler[c] # "free" => header[c] \in Visitors

\* The events point into contexts that have served a visitor.
Served(c) == c \in Contexts /\ header[c] \in Visitors
Pointing ==
    /\ \A i \in 1..Len(events) : Served(events[i].country)
    /\ hand # None => Served(hand.country)

\* How far main is tells what of the publisher is over.
Stopping ==
    /\ main \in {"serving", "stopping"} => ~closed
    /\ main \in {"draining", "flushing", "exited"} => closed
    /\ main \in {"flushing", "exited"} => done
    /\ main = "exited" => writing = {}
    /\ done => closed /\ events = << >> /\ hand = None

\* Once the channel is closed only a shutdown that gave up has handlers left.
NoneLeft == closed => gaveUp \/ AllReturned

\* The inductive invariant.
PInv == TypeOK /\ InUse /\ Pointing /\ Stopping /\ NoneLeft /\ PanicOnlyAfterTimeout

LEMMA InitPInv == Init => PInv
<1> SUFFICES ASSUME Init PROVE PInv
  OBVIOUS
<1>1. events = << >> /\ Len(events) = 0 /\ events \in Seq(Events)
  BY DEF Init
<1>2. TypeOK
  <2>1. Len(events) <= Capacity
    BY <1>1, PublisherAssumption
  <2>2. hand \in Events \cup {None} /\ writing \subseteq Messages
    BY DEF Init
  <2>3. /\ handler \in [Contexts -> {"free", "resolving", "redirecting"}]
        /\ header \in [Contexts -> Visitors \cup {None}]
    BY DEF Init
  <2> QED BY <1>1, <2>1, <2>2, <2>3 DEF Init, TypeOK, Stages
<1>3. InUse /\ Pointing
  BY <1>1 DEF Init, InUse, Pointing
<1>4. Stopping /\ NoneLeft /\ PanicOnlyAfterTimeout
  BY DEF Init, Stopping, NoneLeft, PanicOnlyAfterTimeout
<1> QED BY <1>2, <1>3, <1>4 DEF PInv

\* Every step keeps the types.
LEMMA StepTypes == PInv /\ [Next]_vars => TypeOK'
<1> SUFFICES ASSUME PInv, [Next]_vars PROVE TypeOK'
  OBVIOUS
<1> USE PublisherAssumption DEF shutdownVars, publisherVars, handlerVars,
          TypeOK, Stages, PInv
<1>1. ASSUME NEW c \in Contexts, NEW v \in Visitors, Begin(c, v) PROVE TypeOK'
  BY <1>1 DEF Begin
<1>2. ASSUME NEW c \in Contexts, Resolved(c) PROVE TypeOK'
  BY <1>2 DEF Resolved
<1>3. ASSUME NEW c \in Contexts, Refused(c) PROVE TypeOK'
  BY <1>3 DEF Refused
<1>4. ASSUME NEW c \in Contexts, Publish(c) PROVE TypeOK'
  <2>1. header[c] \in Visitors
    BY <1>4 DEF Publish, InUse
  <2>2. Event(c) \in Events
    BY <2>1 DEF Event, Events
  <2>3. events' \in Seq(Events) /\ Len(events') = Len(events) + 1
    BY <1>4, <2>2 DEF Publish
  <2>4. Len(events) \in Nat
    OBVIOUS
  <2>5. Len(events') <= Capacity
    BY <1>4, <2>3, <2>4 DEF Publish, HasRoom
  <2> QED BY <1>4, <2>3, <2>5 DEF Publish, Return
<1>5. ASSUME NEW c \in Contexts, Drop(c) PROVE TypeOK'
  BY <1>5 DEF Drop, Return
<1>6. ASSUME NEW c \in Contexts, PublishPanics(c) PROVE TypeOK'
  BY <1>6 DEF PublishPanics, Return
<1>7. ASSUME Receive PROVE TypeOK'
  <2>1. Head(events) \in Events /\ Tail(events) \in Seq(Events)
    BY <1>7 DEF Receive
  <2>2. Len(events) \in Nat /\ Len(Tail(events)) = Len(events) - 1
    BY <1>7 DEF Receive
  <2> QED BY <1>7, <2>1, <2>2 DEF Receive
<1>8. ASSUME Write PROVE TypeOK'
  <2>1. hand \in Events /\ header[hand.country] \in Visitors
    BY <1>8 DEF Write, Pointing, Served
  <2>2. Marshalled(hand) \in Messages
    BY <2>1 DEF Marshalled, Messages, Events
  <2> QED BY <1>8, <2>2 DEF Write
<1>9. ASSUME WriteFails PROVE TypeOK'
  BY <1>9 DEF WriteFails
<1>10. ASSUME ProcessEventsReturns PROVE TypeOK'
  BY <1>10 DEF ProcessEventsReturns
<1>11. ASSUME Batches PROVE TypeOK'
  BY <1>11 DEF Batches, BatchEnds
<1>12. ASSUME Signal PROVE TypeOK'
  BY <1>12 DEF Signal
<1>13. ASSUME Stop PROVE TypeOK'
  BY <1>13 DEF Stop, ShutdownReturns, ShutdownTimesOut, Drained, Exit, CloseEvents
<1>14. ASSUME Kill PROVE TypeOK'
  BY <1>14 DEF Kill
<1>15. ASSUME UNCHANGED vars PROVE TypeOK'
  BY <1>15 DEF vars
<1> QED BY <1>1, <1>2, <1>3, <1>4, <1>5, <1>6, <1>7, <1>8, <1>9, <1>10, <1>11,
           <1>12, <1>13, <1>14, <1>15 DEF Next, Request, Handle, ProcessEvents

\* Contexts in use, and those events point into, keep a visitor's headers.
LEMMA StepPointing == PInv /\ [Next]_vars => InUse' /\ Pointing'
<1> SUFFICES ASSUME PInv, [Next]_vars PROVE InUse' /\ Pointing'
  OBVIOUS
<1> USE PublisherAssumption DEF shutdownVars, publisherVars, handlerVars,
          PInv, InUse, Pointing, Served
<1>0. /\ Handling
      /\ events \in Seq(Events)
  BY DEF TypeOK, Handling
<1>1. ASSUME NEW c \in Contexts, NEW v \in Visitors, Begin(c, v)
      PROVE InUse' /\ Pointing'
  BY <1>0, <1>1 DEF Begin, Handling
<1>2. ASSUME NEW c \in Contexts, Resolved(c) \/ Refused(c) \/ Drop(c) \/ PublishPanics(c)
      PROVE InUse' /\ Pointing'
  BY <1>0, <1>2 DEF Resolved, Refused, Drop, PublishPanics, Return, Handling
<1>3. ASSUME NEW c \in Contexts, Publish(c) PROVE InUse' /\ Pointing'
  <2>1. header[c] \in Visitors
    BY <1>3 DEF Publish
  <2>2. Event(c) \in Events /\ Event(c).country = c
    BY <2>1 DEF Event, Events
  <2>3. \A i \in 1..Len(events') : Served(events'[i].country)
    <3>1. Len(events) \in Nat /\ Len(events') = Len(events) + 1
      BY <1>0, <1>3, <2>2 DEF Publish
    <3>2. \A i \in 1..Len(events') :
            events'[i] = IF i <= Len(events) THEN events[i] ELSE Event(c)
      BY <1>0, <1>3, <2>2, <3>1 DEF Publish
    <3>3. Served(Event(c).country)
      BY <2>1, <2>2
    <3>4. TAKE i \in 1..Len(events')
    <3>5. CASE i <= Len(events)
      <4>1. i \in 1..Len(events) /\ events'[i] = events[i]
        BY <3>1, <3>2, <3>5
      <4> QED BY <4>1
    <3>6. CASE ~(i <= Len(events))
      BY <3>2, <3>3, <3>6
    <3> QED BY <3>5, <3>6
  <2> QED BY <1>0, <1>3, <2>3 DEF Publish, Return, Handling
<1>4. ASSUME Receive PROVE InUse' /\ Pointing'
  <2>1. Len(events) \in Nat /\ Len(events) >= 1 /\ Head(events) = events[1]
    BY <1>0, <1>4 DEF Receive
  <2>2. /\ Len(events') = Len(events) - 1
        /\ \A i \in 1..Len(events') : events'[i] = events[i + 1]
    BY <1>0, <1>4, <2>1 DEF Receive
  <2>3. \A i \in 1..Len(events') : Served(events'[i].country)
    <3>1. TAKE i \in 1..Len(events')
    <3>2. i + 1 \in 1..Len(events) /\ events'[i] = events[i + 1]
      BY <2>1, <2>2
    <3> QED BY <3>2
  <2>4. Served(events[1].country)
    BY <2>1
  <2> QED BY <1>4, <2>1, <2>3, <2>4 DEF Receive
<1>5. ASSUME Write \/ WriteFails \/ ProcessEventsReturns \/ Batches
      PROVE InUse' /\ Pointing'
  BY <1>5 DEF Write, WriteFails, ProcessEventsReturns, Batches, BatchEnds
<1>6. ASSUME Signal \/ Stop \/ Kill \/ UNCHANGED vars PROVE InUse' /\ Pointing'
  BY <1>6 DEF Signal, Stop, ShutdownReturns, ShutdownTimesOut, Drained, Exit,
       Kill, vars
<1> QED BY <1>1, <1>2, <1>3, <1>4, <1>5, <1>6 DEF Next, Request, Handle, ProcessEvents

\* The order of the shutdown.
LEMMA StepStopping ==
    PInv /\ [Next]_vars => Stopping' /\ NoneLeft' /\ PanicOnlyAfterTimeout'
<1> SUFFICES ASSUME PInv, [Next]_vars
    PROVE Stopping' /\ NoneLeft' /\ PanicOnlyAfterTimeout'
  OBVIOUS
<1> DEFINE Goal == Stopping' /\ NoneLeft' /\ PanicOnlyAfterTimeout'
<1> USE DEF shutdownVars, publisherVars, handlerVars, PInv, Stopping,
          NoneLeft, PanicOnlyAfterTimeout, AllReturned
<1>0. Handling /\ main \in Stages
  BY DEF TypeOK, Handling
<1>1. ASSUME NEW c \in Contexts, NEW v \in Visitors, Begin(c, v) PROVE Goal
  BY <1>1 DEF Begin
<1>2. ASSUME NEW c \in Contexts, Resolved(c) PROVE Goal
  BY <1>0, <1>2 DEF Resolved, Handling
<1>3. ASSUME NEW c \in Contexts, Refused(c) \/ Drop(c) \/ PublishPanics(c) PROVE Goal
  BY <1>0, <1>3 DEF Refused, Drop, PublishPanics, Return, Handling
<1>4. ASSUME NEW c \in Contexts, Publish(c) PROVE Goal
  BY <1>4 DEF Publish, Running, Ended
<1>5. ASSUME ProcessEvents PROVE Goal
  BY <1>0, <1>5 DEF ProcessEvents, Receive, Write, WriteFails,
       ProcessEventsReturns, Running, Ended
<1>6. ASSUME Batches PROVE Goal
  BY <1>6 DEF Batches, BatchEnds, Running, Ended
<1>7. ASSUME Signal \/ Stop \/ Kill PROVE Goal
  BY <1>7 DEF Signal, Stop, ShutdownReturns, ShutdownTimesOut, CloseEvents,
       Drained, Exit, Kill
<1>8. ASSUME UNCHANGED vars PROVE Goal
  BY <1>8 DEF vars
<1> QED BY <1>1, <1>2, <1>3, <1>4, <1>5, <1>6, <1>7, <1>8 DEF Next, Request, Handle

THEOREM Invariant == Spec => []PInv
<1>1. PInv /\ [Next]_vars => PInv'
  BY StepTypes, StepPointing, StepStopping DEF PInv
<1> QED BY InitPInv, <1>1, PTL DEF Spec

\* The channel never holds more than its capacity, and every event in it
\* names a context that has served a visitor.
THEOREM TypeCorrect == Spec => []TypeOK
<1>1. PInv => TypeOK
  BY DEF PInv
<1> QED BY Invariant, <1>1, PTL

\* Close in main leaves no accepted click behind (kafka_publisher.go, Close).
THEOREM Drains == Spec => []DrainedAtExit
<1>1. PInv => DrainedAtExit
  BY DEF PInv, Stopping, DrainedAtExit
<1> QED BY Invariant, <1>1, PTL

\* A handler meets the closed channel only after the shutdown timed out.
THEOREM PanicsOnlyAfterTimeout == Spec => []PanicOnlyAfterTimeout
<1>1. PInv => PanicOnlyAfterTimeout
  BY DEF PInv
<1> QED BY Invariant, <1>1, PTL
=============================================================================
