-------------------------- MODULE StreamSubscriber --------------------------
(***************************************************************************)
(* A remote reader of the state stream (src/stream_subscriber.rs): it      *)
(* keeps a StreamDb of its own, the copy, which a background task fills    *)
(* with the events it reads, from the beginning of the stream on.  Every   *)
(* connect starts a consumer task; disconnect aborts it, which takes       *)
(* effect when it next yields.  The copy and the notification of preload   *)
(* are shared by all consumers.                                            *)
(*                                                                         *)
(* The variables of StreamDb are the copy's.  The other tasks are tracers  *)
(* of the conductors that write the stream; what those processes do with a *)
(* message is no concern of the subscriber.  The stream and its client     *)
(* library are outside: a reader gets the messages once, in order, in      *)
(* chunks of any size, and is told when it has reached the end.  A chunk   *)
(* that is not a JSON array is skipped as a whole.                         *)
(***************************************************************************)
EXTENDS StreamDb

CONSTANTS
    Consumer,       \* consumer tasks, one for each connect of one behaviour
    NoConsumer,     \* the handle None
    MaxLog,         \* bound: messages of the stream
    MaxMishaps      \* bound: messages that are no trace events, and skipped chunks

ASSUME SubscriberAssumption ==
    /\ Consumer \subseteq Task
    /\ \A c \in Consumer : ClientIds[c] = {} /\ AgentIds[c] = {}
    /\ NoConsumer \notin Consumer
    /\ MaxLog \in Nat /\ MaxMishaps \in Nat

VARIABLES
    log,            \* the state stream
    handle,         \* the consumer the subscriber holds
    reader,         \* [Consumer -> the state of its consume_stream]
    waiter          \* preload: not called, waiting or returned

subscriber     == <<handle, reader, waiter>>
copy           == <<correlation, collections, channel>>
subscriberVars == <<vars, log, subscriber>>

Tracer == Task \ Consumer

\* start: spawned; read: in next_chunk; apply: in the loop over the events of
\* a chunk; ended: returned by itself; gone: aborted; cut: aborted in an
\* event.  told: the end at this offset has been announced.  Read by the
\* properties only: whole, no chunk was skipped; origin, the length of the
\* stream when the task was spawned.
ReaderState == [pc: {"unused", "start", "read", "apply", "ended", "gone", "cut"},
                offset: Nat, batch: Seq(Message), upToDate: BOOLEAN,
                told: BOOLEAN, whole: BOOLEAN, origin: Nat]

Running == {"start", "read", "apply"}

UnusedReader == [pc |-> "unused", offset |-> 0, batch |-> <<>>,
                 upToDate |-> FALSE, told |-> FALSE, whole |-> TRUE,
                 origin |-> 0]

SubscriberInit ==
    /\ Init
    /\ connectionId = Unknown
    /\ log = <<>>
    /\ handle = NoConsumer
    /\ reader = [c \in Consumer |-> UnusedReader]
    /\ waiter = "none"

-----------------------------------------------------------------------------
(* The stream grows.                                                       *)

OnTheWay == {w \in Tracer : task[w].pc = "append"}

ObserveRemote(w) ==
    /\ w \in Tracer
    /\ Len(log) + Cardinality(OnTheWay) < MaxLog
    /\ Observe(w)
    /\ UNCHANGED <<log, subscriber>>

Publish(w) ==
    /\ w \in Tracer /\ task[w].pc = "append"
    /\ log' = Append(log, Msg(w))
    /\ Return(w)
    /\ UNCHANGED <<copy, wire, subscriber>>

Foreign == {"connection", "legacy", "unsupported"}
Mishaps == Cardinality({i \in DOMAIN log : log[i].kind \in Foreign})
           + Cardinality({c \in Consumer : ~reader[c].whole})

\* A connection row, a legacy row or a row of an unknown type
PublishForeign == \E kind \in Foreign, c \in Connection :
    /\ Len(log) + Cardinality(OnTheWay) < MaxLog
    /\ Mishaps < MaxMishaps
    /\ log' = Append(log, [NoMessage EXCEPT !.kind = kind, !.connection = c])
    /\ UNCHANGED <<copy, task, wire, subscriber>>

-----------------------------------------------------------------------------
(* The calls of the owner of the subscriber.                               *)

\* connect: nothing if there is a handle, even if its task has ended
Spawn ==
    IF handle # NoConsumer THEN UNCHANGED <<handle, reader>>
    ELSE \E c \in Consumer :
            /\ reader[c].pc = "unused"
            /\ handle' = c
            /\ reader' = [reader EXCEPT ![c].pc = "start",
                                        ![c].origin = Len(log)]

Connect ==
    /\ waiter # "waiting" /\ handle = NoConsumer
    /\ Spawn
    /\ UNCHANGED <<copy, task, wire, log, waiter>>

\* preload: register for the notification, connect, wait
Preload ==
    /\ waiter # "waiting"
    /\ waiter' = "waiting"
    /\ Spawn
    /\ UNCHANGED <<copy, task, wire, log>>

\* The caller of preload drops it, as a timeout does.
CancelPreload ==
    /\ waiter = "waiting"
    /\ waiter' = "none"
    /\ UNCHANGED <<copy, task, wire, log, handle, reader>>

\* disconnect: take the handle and abort its task
Disconnect ==
    /\ waiter # "waiting" /\ handle # NoConsumer
    /\ handle' = NoConsumer
    /\ UNCHANGED <<copy, task, wire, log, reader, waiter>>

-----------------------------------------------------------------------------
(* consume_stream.                                                         *)

\* The reader is built, from Offset::Beginning, or cannot be built.
Build(c) ==
    /\ reader[c].pc = "start" /\ handle = c
    /\ \E pc \in {"read", "ended"} : reader' = [reader EXCEPT ![c].pc = pc]
    /\ UNCHANGED <<copy, task, wire, log, handle, waiter>>

\* The messages after those the reader has seen
NewUpTo(c, last) == SubSeq(log, reader[c].offset + 1, last)

\* next_chunk: the next messages, if any, and whether they are the last ones.
\* The first chunk is waited for, so that an aborted task does not get it; a
\* later one may be there already.  The loop will get the events of the chunk,
\* or none of them, and then `notify` or not.
TakeChunk(c, last, upToDate, events, notify) ==
    /\ reader[c].pc = "read"
    /\ handle = c \/ reader[c].told \/ reader[c].offset > 0
    /\ upToDate => last = Len(log) /\ (last = reader[c].offset => ~reader[c].told)
    /\ last > reader[c].offset \/ upToDate
    /\ events = NewUpTo(c, last) \/ Mishaps < MaxMishaps
    /\ reader' = [reader EXCEPT
         ![c] = [@ EXCEPT !.pc = "apply", !.offset = last, !.batch = events,
                          !.upToDate = notify, !.told = upToDate,
             !.whole = reader[c].whole /\ events = NewUpTo(c, last)]]
    /\ UNCHANGED <<copy, task, wire, log, handle, waiter>>

\* Fault of ReadUpTo: the end is looked for only in a chunk with data.
ReadUpToWithData(c, last, upToDate, events) ==
    TakeChunk(c, last, upToDate, events, upToDate /\ last > reader[c].offset)

\* A chunk, whether it can be parsed or not, may announce the end.
ReadUpTo(c, last, upToDate, events) ==
    TakeChunk(c, last, upToDate, events, upToDate)

ReadChunk(c) ==
    \E last \in reader[c].offset..Len(log), upToDate \in BOOLEAN :
    \E events \in {NewUpTo(c, last), <<>>} :
        ReadUpTo(c, last, upToDate, events)

ReadToEnd(c) == \E events \in {NewUpTo(c, Len(log)), <<>>} :
    ReadUpTo(c, Len(log), TRUE, events)

\* Fault of ReadError: after a retryable error the stream is read from the
\* beginning again.
ReadErrorRewinds(c) ==
    /\ reader[c].pc = "read"
    /\ \/ reader' = [reader EXCEPT ![c].pc = "ended"]
       \/ reader' = [reader EXCEPT ![c].offset = 0]
    /\ UNCHANGED <<copy, task, wire, log, handle, waiter>>

\* next_chunk: the stream is closed or fails for good.  After a retryable
\* error the client goes on where it was, which changes nothing here.
ReadError(c) ==
    /\ reader[c].pc = "read"
    /\ reader' = [reader EXCEPT ![c].pc = "ended"]
    /\ UNCHANGED <<copy, task, wire, log, handle, waiter>>

NextEvent(c, rest) ==
    /\ reader[c].pc = "apply" /\ reader[c].batch # <<>>
    /\ task[c].pc = "idle"
    /\ LET event == Head(reader[c].batch) IN
         IF event.kind = "unsupported"
           THEN /\ reader' = [reader EXCEPT ![c].batch = rest]
                /\ UNCHANGED task
           ELSE /\ reader' = [reader EXCEPT ![c].batch = Tail(@)]
                /\ Become(c, [IdleTask EXCEPT !.pc = "apply", !.msg = event])
    /\ UNCHANGED <<copy, wire, log, handle, waiter>>

\* Fault of ApplyEvent: an event that fails ends the chunk, as it ends a
\* rebuild.
ApplyEventStops(c) == NextEvent(c, <<>>)

\* Events are applied one by one; one that fails is skipped.
ApplyEvent(c) == NextEvent(c, Tail(reader[c].batch))

ApplyStep(c) ==
    /\ c \in Consumer
    /\ Apply(c) \/ IgnoreLegacy(c) \/ ApplyConnection(c)
    /\ UNCHANGED <<log, subscriber>>

\* All events of the chunk are applied; notify_waiters if `notify`.
EndChunk(c, notify) ==
    /\ reader[c].pc = "apply" /\ reader[c].batch = <<>>
    /\ task[c].pc = "idle"
    /\ reader' = [reader EXCEPT ![c].pc = "read"]
    /\ waiter' = IF notify /\ waiter = "waiting" THEN "returned" ELSE waiter
    /\ UNCHANGED <<copy, task, wire, log, handle>>

\* Fault of FinishChunk: every chunk notifies.
FinishChunkAlways(c) == EndChunk(c, TRUE)

FinishChunk(c) == EndChunk(c, reader[c].upToDate)

\* The abort takes effect where the task yields: at the latest in the next
\* read, possibly between the critical sections of a handler.
Aborted(c) ==
    /\ handle # c /\ reader[c].pc \in Running
    /\ reader' = [reader EXCEPT ![c].pc =
                    IF task[c].pc = "idle" THEN "gone" ELSE "cut"]
    /\ Return(c)
    /\ UNCHANGED <<copy, wire, log, handle, waiter>>

Consume(c) == \/ Build(c) \/ ApplyEvent(c) \/ ApplyStep(c) \/ FinishChunk(c)

SubscriberNext ==
    \/ \E w \in Tracer : ObserveRemote(w) \/ Publish(w)
    \/ PublishForeign
    \/ Connect \/ Preload \/ CancelPreload \/ Disconnect
    \/ \E c \in Consumer : \/ Consume(c) \/ ReadChunk(c) \/ ReadError(c)
                           \/ Aborted(c)

SubscriberSpec == SubscriberInit /\ [][SubscriberNext]_subscriberVars

\* The runtime polls the consumer, and the server delivers what it has.
FairSubscriberSpec ==
    /\ SubscriberSpec
    /\ \A c \in Consumer : /\ WF_subscriberVars(Consume(c))
                           /\ WF_subscriberVars(ReadToEnd(c))

-----------------------------------------------------------------------------
(* What a replay of the stream s amounts to, without correlation maps.     *)

Kind(s, k)   == {i \in DOMAIN s : s[i].kind = k}
Nth(S, n)    == CHOOSE i \in S : Cardinality({j \in S : j < i}) = n - 1
PromptOf(s, t) == Nth(Kind(s, "session/prompt"), t)

\* The responses to the prompt at i; ids are not reused while they wait.
Answers(s, i) == {r \in Kind(s, "response") : r > i /\ s[r].id = s[i].id}

Outcome(s, i) == IF Answers(s, i) = {} THEN "active"
                 ELSE IF s[Nth(Answers(s, i), 1)].ok THEN "completed"
                 ELSE "broken"

ReplayedTurns(s) ==
    [t \in 1..Cardinality(Kind(s, "session/prompt")) |->
       LET i == PromptOf(s, t) IN
       [state |-> Outcome(s, i), session |-> s[i].session,
        request |-> s[i].id, connection |-> Unknown]]

\* The updates that came while turn t was the open one of its session
UpdatesOf(s, t) ==
    LET i == PromptOf(s, t) IN
    {u \in Kind(s, "session/update") :
        /\ u > i /\ s[u].session = s[i].session
        /\ \A r \in Answers(s, i) : r > u}

ReplayedChunks(s) ==
    UNION {[turn: {t}, seq: 0..(Cardinality(UpdatesOf(s, t)) - 1)] :
             t \in DOMAIN ReplayedTurns(s)}

-----------------------------------------------------------------------------
(* Properties.                                                             *)

(* Every variable of the subscriber holds a value of its type.             *)
SubscriberTypeOK ==
    /\ TypeOK
    /\ log \in Seq(Message) /\ Len(log) <= MaxLog
    /\ handle \in Consumer \cup {NoConsumer}
    /\ reader \in [Consumer -> ReaderState]
    /\ \A c \in Consumer : reader[c].offset <= Len(log)
    /\ waiter \in {"none", "waiting", "returned"}

\* The events consumer c has applied, when it is between two events
Between(c) == reader[c].pc \in {"read", "apply"} /\ task[c].pc = "idle"
Applied(c) == SubSeq(log, 1, reader[c].offset - Len(reader[c].batch))

\* The copy shows the stream s: its turns with their outcomes, the chunks
\* with their numbers, and the connections.
CopyShows(s) ==
    /\ turns = ReplayedTurns(s)
    /\ Image(chunks) = ReplayedChunks(s)
    /\ Len(chunks) = Cardinality(ReplayedChunks(s))
    /\ DOMAIN connections = {s[i].connection : i \in Kind(s, "connection")}

(* Between two events the copy is what the stream up to there amounts to:  *)
(* the turns with their outcomes, the chunks with their numbers, and the   *)
(* connections, however the stream was cut into chunks and whatever it     *)
(* holds that the reader cannot apply, unless a whole chunk could not be   *)
(* parsed (consume_stream).                                                *)
CopyIsReplay ==
    \A c \in Consumer : Between(c) /\ reader[c].whole => CopyShows(Applied(c))

(* A subscriber that catches up, disconnects, connects again and catches   *)
(* up again shows the stream: "a state subscriber can disconnect and       *)
(* replay to the same state" (testing-and-hosting.md).  It is not meant of *)
(* one that is cut off in the middle of an event, or skips a chunk.        *)
CaughtUp(c) ==
    /\ reader[c].pc # "cut" /\ reader[c].whole
    /\ reader[c].batch = <<>> /\ reader[c].offset = Len(log)

ReplaysToSameState ==
    \A c \in Consumer :
        (/\ handle = c /\ Between(c)
         /\ \A d \in Consumer \ {c} : reader[d].pc \notin Running
         /\ \A d \in Consumer : CaughtUp(d))
        => CopyShows(log)

(* At any time, also when the task was aborted in the middle of an event   *)
(* and only the rows are left, a turn of the copy is a prompt of the       *)
(* stream, under the number it has there, and an outcome it shows is the   *)
(* outcome of the stream, unless a chunk was skipped.                      *)
CopyShowsNothingElse ==
    (\A c \in Consumer : reader[c].whole) => \A t \in DOMAIN turns :
        /\ t \in DOMAIN ReplayedTurns(log)
        /\ turns[t] = [ReplayedTurns(log)[t] EXCEPT !.state = turns[t].state]
        /\ turns[t].state \in {"active", ReplayedTurns(log)[t].state}

(* When preload returns, the copy holds at least what the stream held when *)
(* the consumer was spawned ("wait until the initial state is fully        *)
(* materialized").  It does not if a chunk was skipped, which may announce *)
(* the end all the same.                                                   *)
PreloadIsComplete ==
    waiter = "returned" /\ handle # NoConsumer /\ reader[handle].whole =>
        Len(Applied(handle)) >= reader[handle].origin

(* A preload that spawns its consumer returns, is dropped, or the consumer *)
(* has ended: the notification is not lost between the registration and    *)
(* the wait.                                                               *)
PreloadReturns ==
    \A c \in Consumer :
        (waiter = "waiting" /\ handle = c /\ reader[c].pc = "start")
        ~> (waiter # "waiting" \/ reader[c].pc = "ended")
=============================================================================
