--------------------------- MODULE ClickPublisher ---------------------------
(***************************************************************************)
(* The way of a click from the redirect handler to Kafka: a bounded        *)
(* channel that handlers never wait for, the goroutine that empties it,    *)
(* the batches of the asynchronous Kafka writer, and the shutdown in main, *)
(* which closes the channel after it has waited for the handlers.          *)
(*                                                                         *)
(* Strings fiber hands to a handler are views of the request's buffers,    *)
(* and the event keeps the view of the country; a context goes back to     *)
(* fiber's pool when its handler returns, and the next request that gets   *)
(* it overwrites the buffers.                                              *)
(***************************************************************************)
EXTENDS Naturals, Sequences

CONSTANTS
    Contexts,   \* the request contexts in fiber's pool
    Visitors,   \* visitors, each with its own headers
    Capacity,   \* size of the channel (10000 in the code)
    None

ASSUME PublisherAssumption ==
    /\ Capacity \in Nat \ {0}
    /\ None \notin Visitors
    /\ Contexts # {} /\ Visitors # {}

VARIABLES
    main,       \* where main is
    handler,    \* context -> what its handler does
    header,     \* context -> the visitor whose headers its buffers hold
    events,     \* the channel, oldest first
    closed,     \* the channel is closed
    done,       \* processEvents has returned
    hand,       \* the event processEvents holds, or None
    writing,    \* the messages in the Kafka writer's batches
    gaveUp,     \* history: the shutdown timed out with handlers running
    panicked    \* history: a handler sent on the closed channel

vars == <<main, handler, header, events, closed, done, hand, writing,
          gaveUp, panicked>>

shutdownVars  == <<main, closed, gaveUp>>
publisherVars == <<events, done, hand, writing>>
handlerVars   == <<handler, header, panicked>>

Stages == {"serving", "stopping", "draining", "flushing", "exited", "killed"}
Ended  == {"exited", "killed"}

\* A click as the handler builds it: the country is a view of the context's
\* buffer; "of" is the visitor the click is about.
Events == [of : Visitors, country : Contexts]

\* A click as it is marshalled; the country is named by the visitor it is of.
Messages == [of : Visitors, country : Visitors]

TypeOK ==
    /\ main \in Stages
    /\ handler \in [Contexts -> {"free", "resolving", "redirecting"}]
    /\ header \in [Contexts -> Visitors \cup {None}]
    /\ events \in Seq(Events) /\ Len(events) <= Capacity
    /\ hand \in Events \cup {None}
    /\ writing \subseteq Messages
    /\ closed \in BOOLEAN /\ done \in BOOLEAN
    /\ gaveUp \in BOOLEAN /\ panicked \in BOOLEAN

Init ==
    /\ main = "serving"
    /\ handler = [c \in Contexts |-> "free"]
    /\ header = [c \in Contexts |-> None]
    /\ events = << >>
    /\ closed = FALSE
    /\ done = FALSE
    /\ hand = None
    /\ writing = {}
    /\ gaveUp = FALSE
    /\ panicked = FALSE

Running == main \notin Ended

-----------------------------------------------------------------------------
(* Handlers.                                                               *)

\* fiber gives context c to a request of visitor v.
Begin(c, v) ==
    /\ main = "serving"
    /\ handler[c] = "free"
    /\ handler' = [handler EXCEPT ![c] = "resolving"]
    /\ header' = [header EXCEPT ![c] = v]
    /\ UNCHANGED <<shutdownVars, publisherVars, panicked>>

\* Resolve found a destination.
Resolved(c) ==
    /\ Running
    /\ handler[c] = "resolving"
    /\ handler' = [handler EXCEPT ![c] = "redirecting"]
    /\ UNCHANGED <<shutdownVars, publisherVars, header, panicked>>

\* A bot, a client over its rate limit, or an unknown link: nothing is published.
Refused(c) ==
    /\ Running
    /\ handler[c] = "resolving"
    /\ handler' = [handler EXCEPT ![c] = "free"]
    /\ UNCHANGED <<shutdownVars, publisherVars, header, panicked>>

Event(c) == [of |-> header[c], country |-> c]

HasRoom == Len(events) < Capacity

Return(c) == handler' = [handler EXCEPT ![c] = "free"]

\* Publish takes the first case of its select.
Publish(c) ==
    /\ Running
    /\ handler[c] = "redirecting"
    /\ ~closed /\ HasRoom
    /\ events' = Append(events, Event(c))
    /\ Return(c)
    /\ UNCHANGED <<shutdownVars, header, panicked, done, hand, writing>>

\* Mutant: a plain send, which waits for room.
WaitForRoom(c) ==
    /\ handler[c] = "redirecting"
    /\ ~closed /\ ~HasRoom
    /\ UNCHANGED vars

\* The channel is full: the click is dropped and the visitor redirected.
Drop(c) ==
    /\ Running
    /\ handler[c] = "redirecting"
    /\ ~closed /\ ~HasRoom
    /\ Return(c)
    /\ UNCHANGED <<shutdownVars, publisherVars, header, panicked>>

\* A send on a closed channel panics, in a select with a default too; the
\* recover middleware answers 500.
PublishPanics(c) ==
    /\ Running
    /\ handler[c] = "redirecting"
    /\ closed
    /\ Return(c)
    /\ panicked' = TRUE
    /\ UNCHANGED <<shutdownVars, publisherVars, header>>

-----------------------------------------------------------------------------
(* The goroutine processEvents and the asynchronous writer.                *)

Receive ==
    /\ Running
    /\ hand = None
    /\ events # << >>
    /\ hand' = Head(events)
    /\ events' = Tail(events)
    /\ UNCHANGED <<shutdownVars, handlerVars, done, writing>>

\* json.Marshal reads the view of the country now.
Marshalled(e) == [of |-> e.of, country |-> header[e.country]]

Write ==
    /\ Running
    /\ hand # None
    /\ writing' = writing \cup {Marshalled(hand)}
    /\ hand' = None
    /\ UNCHANGED <<shutdownVars, handlerVars, events, done>>

\* WriteMessages fails, at the latest after its 5 s: the event is lost.
WriteFails ==
    /\ Running
    /\ hand # None
    /\ hand' = None
    /\ UNCHANGED <<shutdownVars, handlerVars, events, done, writing>>

\* A batch of the asynchronous writer reaches Kafka, or is given up: nobody
\* looks at the result.
BatchEnds(m) ==
    /\ Running
    /\ m \in writing
    /\ writing' = writing \ {m}
    /\ UNCHANGED <<shutdownVars, handlerVars, events, done, hand>>

\* The range over the channel ends when it is closed and empty.
ProcessEventsReturns ==
    /\ Running
    /\ closed /\ events = << >> /\ hand = None /\ ~done
    /\ done' = TRUE
    /\ UNCHANGED <<shutdownVars, handlerVars, events, hand, writing>>

-----------------------------------------------------------------------------
(* main.                                                                   *)

Signal ==
    /\ main = "serving"
    /\ main' = "stopping"
    /\ UNCHANGED <<closed, gaveUp, handlerVars, publisherVars>>

\* Mutant: Close waits for done and forgets to close the channel.
CloseForgotten ==
    /\ main' = "draining"
    /\ UNCHANGED closed

\* KafkaPublisher.Close, first statement.
CloseEvents ==
    /\ main' = "draining"
    /\ closed' = TRUE

AllReturned == \A c \in Contexts : handler[c] = "free"

\* Mutant: the publisher is closed before the server is shut down.
ClosesFirst ==
    /\ main = "stopping"
    /\ CloseEvents
    /\ UNCHANGED <<gaveUp, handlerVars, publisherVars>>

\* ShutdownWithContext returns: the server listens no more and every request
\* is answered.
ShutdownReturns ==
    /\ main = "stopping"
    /\ AllReturned
    /\ CloseEvents
    /\ UNCHANGED <<gaveUp, handlerVars, publisherVars>>

\* Its 30 s are over while handlers run: the error is logged, main goes on.
ShutdownTimesOut ==
    /\ main = "stopping"
    /\ ~AllReturned
    /\ CloseEvents
    /\ gaveUp' = TRUE
    /\ UNCHANGED <<handlerVars, publisherVars>>

\* Mutant: Close does not wait for processEvents.
DrainedAtOnce ==
    /\ main = "draining"
    /\ main' = "flushing"
    /\ UNCHANGED <<closed, gaveUp, handlerVars, publisherVars>>

\* Close has received from done and calls writer.Close.
Drained ==
    /\ main = "draining"
    /\ done
    /\ main' = "flushing"
    /\ UNCHANGED <<closed, gaveUp, handlerVars, publisherVars>>

\* writer.Close returns when no batch is left; the process ends.
Exit ==
    /\ main = "flushing"
    /\ writing = {}
    /\ main' = "exited"
    /\ UNCHANGED <<closed, gaveUp, handlerVars, publisherVars>>

\* Kubernetes kills a pod that takes too long, or the node fails.
Kill ==
    /\ Running
    /\ main' = "killed"
    /\ UNCHANGED <<closed, gaveUp, handlerVars, publisherVars>>

Handle(c) == Resolved(c) \/ Refused(c) \/ Publish(c) \/ Drop(c) \/ PublishPanics(c)
Request(c) == (\E v \in Visitors : Begin(c, v)) \/ Handle(c)
ProcessEvents == Receive \/ Write \/ WriteFails \/ ProcessEventsReturns
Batches == \E m \in Messages : BatchEnds(m)
Stop == ShutdownReturns \/ ShutdownTimesOut \/ Drained \/ Exit

Next ==
    \/ \E c \in Contexts : Request(c)
    \/ ProcessEvents
    \/ Batches
    \/ Signal \/ Stop \/ Kill

Spec == Init /\ [][Next]_vars

(***************************************************************************)
(* A handler's calls before Publish end, which is assumed of PostgreSQL:   *)
(* its queries carry no deadline. The writer's end by theirs; main goes on *)
(* by itself. Nothing is assumed of Kafka: a batch may be given up after   *)
(* its retries. Which handler finds room is not fair.                      *)
(***************************************************************************)
FairSpec ==
    /\ Spec
    /\ \A c \in Contexts : WF_vars(Handle(c))
    /\ WF_vars(Stop) /\ WF_vars(ProcessEvents) /\ WF_vars(Batches)

-----------------------------------------------------------------------------
(* Properties.                                                             *)

\* A process that ended by itself left no click behind: each one it accepted
\* was given to Kafka or refused by it. Close waits for processEvents and
\* then for the writer's batches.
DrainedAtExit ==
    main = "exited" => events = << >> /\ hand = None /\ writing = {}

\* A handler meets the closed channel only if the shutdown stopped waiting
\* for it: main closes the publisher after the server.
PanicOnlyAfterTimeout == panicked => gaveUp

\* A redirect never waits for the publisher or for Kafka: it ends although
\* other requests take all the room there ever is in the channel.
RedirectNeverWaits ==
    \A c \in Contexts : handler[c] # "free" ~> (handler[c] = "free" \/ ~Running)

\* A shutdown that has begun ends, however many handlers hang.
ShutdownEnds == main = "stopping" ~> ~Running

\* Violated. The country a click is counted under is that of its request
\* (pg_writer.go: "IncrClickByCountry upserts the daily country click count
\* for a link"): the handler hands c.Get's view on to another goroutine.
CountryOwn == \A m \in writing : m.country = m.of
=============================================================================
