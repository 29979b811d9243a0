----------------------- MODULE StreamSubscriberProofs -----------------------
(* Proofs about StreamSubscriber, for every value of its constants.        *)
EXTENDS StreamSubscriber, StreamDbTrackingProofs

-----------------------------------------------------------------------------
(* Type correctness.                                                       *)

\* The stream has room for what the tracers are about to publish.
Room == /\ IsFiniteSet(OnTheWay)
        /\ Len(log) + Cardinality(OnTheWay) <= MaxLog

SubscriberInv == SubscriberTypeOK /\ Room

\* How the tracers that are about to publish change.
LEMMA OnTheWayGrows ==
    ASSUME Room, NEW w \in Tracer, task[w].pc # "append", task'[w].pc = "append",
           \A v \in Task \ {w} : task'[v] = task[v]
    PROVE  /\ IsFiniteSet(OnTheWay)'
           /\ Cardinality(OnTheWay)' = Cardinality(OnTheWay) + 1
  <1>1. OnTheWay' = OnTheWay \cup {w} /\ w \notin OnTheWay
    BY DEF OnTheWay, Tracer
  <1>2. QED
    BY <1>1, FS_AddElement DEF Room

LEMMA OnTheWayShrinks ==
    ASSUME Room, NEW w \in OnTheWay, task'[w].pc # "append",
           \A v \in Task \ {w} : task'[v] = task[v]
    PROVE  /\ IsFiniteSet(OnTheWay)'
           /\ Cardinality(OnTheWay)' = Cardinality(OnTheWay) - 1
  <1>1. OnTheWay' = OnTheWay \ {w}
    BY DEF OnTheWay, Tracer
  <1>2. QED
    BY <1>1, FS_RemoveElement DEF Room

LEMMA OnTheWayStays ==
    ASSUME Room, \A v \in Tracer : task'[v] = task[v], UNCHANGED log
    PROVE  Room'
  <1>1. OnTheWay' = OnTheWay
    BY DEF OnTheWay
  <1>2. QED
    BY <1>1 DEF Room

LEMMA CardinalityOnTheWay == Room => Cardinality(OnTheWay) \in Nat
  BY FS_CardinalityType DEF Room

\* A consumer changes its own task only.
LEMMA ConsumerFrame ==
    ASSUME TypeOK, NEW c \in Consumer,
           \/ Apply(c) \/ IgnoreLegacy(c) \/ ApplyConnection(c)
           \/ UNCHANGED task \/ Return(c) \/ \E st : Become(c, st)
    PROVE  \A v \in Tracer : task'[v] = task[v]
  <1>1. c \in Task /\ c \notin Tracer /\ Tracer \subseteq Task
    BY SubscriberAssumption DEF Tracer
  <1>2. CASE Apply(c)
    BY <1>1, <1>2, TaskFrame
  <1>3. CASE IgnoreLegacy(c) \/ ApplyConnection(c) \/ Return(c)
             \/ \E st : Become(c, st)
    BY <1>1, <1>3 DEF TypeOK, IgnoreLegacy, ApplyConnection, Announce, Return,
                      Become
  <1>4. QED
    BY <1>1, <1>2, <1>3

\* The variables of the reader.
ReaderOK == /\ reader \in [Consumer -> ReaderState]
            /\ \A c \in Consumer : reader[c].offset <= Len(log)

LEMMA ReaderStep ==
    ASSUME ReaderOK, NEW c \in Consumer, NEW st \in ReaderState,
           reader' = [reader EXCEPT ![c] = st],
           Len(log) \in Nat, Len(log') \in Nat, Len(log) <= Len(log'),
           st.offset <= Len(log')
    PROVE  ReaderOK'
  <1>1. \A d \in Consumer : reader[d].offset \in Nat
    BY DEF ReaderOK, ReaderState
  <1>2. QED
    BY <1>1 DEF ReaderOK

LEMMA SubscriberInitType == SubscriberInit => SubscriberInv
  <1> SUFFICES ASSUME SubscriberInit
               PROVE  SubscriberInv
    OBVIOUS
  <1>1. TypeOK
    BY InitType DEF SubscriberInit
  <1>2. <<>> \in Seq(Message) /\ Len(<<>>) = 0
    OBVIOUS
  <1>3. UnusedReader \in ReaderState
    BY <1>2 DEF UnusedReader, ReaderState
  <1>4. OnTheWay = {}
    BY DEF SubscriberInit, Init, OnTheWay, Tracer, IdleTask
  <1>5. Room
    BY <1>2, <1>4, FS_EmptySet, SubscriberAssumption DEF SubscriberInit, Room
  <1>6. QED
    BY <1>1, <1>2, <1>3, <1>5, SubscriberAssumption
       DEF SubscriberInit, SubscriberInv, SubscriberTypeOK, UnusedReader

LEMMA SpawnType ==
    ASSUME SubscriberTypeOK, Spawn, UNCHANGED log
    PROVE  ReaderOK' /\ handle' \in Consumer \cup {NoConsumer}
  <1>1. ReaderOK /\ log \in Seq(Message) /\ Len(log) \in Nat
    BY DEF SubscriberTypeOK, ReaderOK
  <1>2. CASE UNCHANGED <<handle, reader>>
    BY <1>1, <1>2 DEF SubscriberTypeOK, ReaderOK
  <1>3. ASSUME NEW c \in Consumer, handle' = c,
               reader' = [reader EXCEPT ![c].pc = "start",
                                        ![c].origin = Len(log)]
        PROVE  ReaderOK' /\ handle' \in Consumer \cup {NoConsumer}
    <2>1. PICK st : st = [reader[c] EXCEPT !.pc = "start", !.origin = Len(log)]
      OBVIOUS
    <2>2. st \in ReaderState /\ st.offset = reader[c].offset
      BY <1>1, <2>1 DEF ReaderOK, ReaderState
    <2>3. reader' = [reader EXCEPT ![c] = st]
      BY <1>3, <2>1
    <2>4. QED
      BY <1>1, <1>3, <2>2, <2>3, ReaderStep DEF ReaderOK
  <1>4. QED
    BY <1>2, <1>3 DEF Spawn

LEMMA CopyFrame ==
    ASSUME TypeOK, UNCHANGED <<copy, task, wire>> PROVE TypeOK'
  BY DEF copy, TypeOK, correlation, collections, channel, wire

LEMMA PublishedType ==
    ASSUME log \in Seq(Message), NEW m \in Message, log' = Append(log, m)
    PROVE  log' \in Seq(Message) /\ Len(log') = Len(log) + 1
           /\ Len(log) \in Nat
  OBVIOUS

\* A chunk is the next messages of the stream, or none of them.
LEMMA ChunkTaken ==
    ASSUME SubscriberTypeOK, NEW c \in Consumer,
           NEW last \in reader[c].offset..Len(log), NEW upToDate \in BOOLEAN,
           NEW events \in {NewUpTo(c, last), <<>>},
           ReadUpTo(c, last, upToDate, events)
    PROVE  /\ reader[c].pc = "read" /\ (upToDate => last = Len(log))
           /\ UNCHANGED <<copy, task, wire, log, handle, waiter>>
           /\ Len(events) \in 0..(last - reader[c].offset)
           /\ \E st \in ReaderState :
                /\ reader' = [reader EXCEPT ![c] = st]
                /\ st.pc = "apply" /\ st.offset = last /\ st.batch = events
                /\ st.upToDate = upToDate /\ st.origin = reader[c].origin
                /\ st.whole => reader[c].whole /\ events = NewUpTo(c, last)
  <1>1. /\ reader \in [Consumer -> ReaderState] /\ reader[c] \in ReaderState
        /\ log \in Seq(Message) /\ Len(log) \in Nat
        /\ reader[c].offset \in 0..Len(log) /\ last \in 0..Len(log)
        /\ reader[c].offset <= last
    BY DEF SubscriberTypeOK, ReaderState
  <1>2. /\ NewUpTo(c, last) \in Seq(Message)
        /\ Len(NewUpTo(c, last)) = last - reader[c].offset
    BY <1>1 DEF NewUpTo
  <1>3. events \in Seq(Message) /\ Len(events) \in 0..(last - reader[c].offset)
    <2>1. CASE events = <<>>
      BY <1>1, <2>1
    <2>2. CASE events = NewUpTo(c, last)
      BY <1>1, <1>2, <2>2
    <2>3. QED
      BY <2>1, <2>2
  <1>4. PICK whole \in BOOLEAN :
          whole = (reader[c].whole /\ events = NewUpTo(c, last))
    OBVIOUS
  <1>5. PICK st : st = [reader[c] EXCEPT !.pc = "apply", !.offset = last,
                          !.batch = events, !.upToDate = upToDate,
                          !.told = upToDate, !.whole = whole]
    OBVIOUS
  <1>6. /\ st \in ReaderState /\ st.pc = "apply" /\ st.offset = last
        /\ st.batch = events /\ st.upToDate = upToDate
        /\ st.origin = reader[c].origin /\ st.whole = whole
    <2>1. /\ reader[c] \in ReaderState /\ last \in Nat
          /\ events \in Seq(Message) /\ whole \in BOOLEAN
      BY <1>1, <1>3, <1>4
    <2>2. st \in ReaderState
      BY <1>5, <2>1 DEF ReaderState
    <2>3. /\ st.pc = "apply" /\ st.offset = last /\ st.batch = events
          /\ st.origin = reader[c].origin
      BY <1>5, <2>1 DEF ReaderState
    <2>4. st.upToDate = upToDate
      BY <1>5, <2>1 DEF ReaderState
    <2>5. st.whole = whole
      BY <1>5, <2>1 DEF ReaderState
    <2>6. QED
      BY <2>2, <2>3, <2>4, <2>5
  <1>7. reader' = [reader EXCEPT ![c] = st]
    BY <1>4, <1>5, Zenon DEF ReadUpTo, TakeChunk
  <1>8. QED
    BY <1>3, <1>4, <1>6, <1>7 DEF ReadUpTo, TakeChunk

LEMMA ConsumeType ==
    ASSUME SubscriberTypeOK, NEW c \in Consumer,
           Consume(c) \/ ReadChunk(c) \/ ReadError(c) \/ Aborted(c)
    PROVE  ReaderOK'
  <1>1. /\ ReaderOK /\ log \in Seq(Message) /\ Len(log) \in Nat
        /\ reader[c] \in ReaderState /\ reader[c].offset \in 0..Len(log)
    BY DEF SubscriberTypeOK, ReaderOK, ReaderState
  <1>2. UNCHANGED log
    BY DEF Consume, Build, ApplyEvent, NextEvent, ApplyStep, FinishChunk,
           EndChunk, ReadChunk, ReadUpTo, TakeChunk, ReadError, Aborted
  <1>3. CASE ApplyStep(c)
    BY <1>1, <1>3 DEF ApplyStep, subscriber, ReaderOK
  <1>4. ASSUME NEW pc \in {"read", "ended", "gone", "cut"},
               reader' = [reader EXCEPT ![c].pc = pc]
        PROVE  ReaderOK'
    <2>1. PICK st : st = [reader[c] EXCEPT !.pc = pc]
      OBVIOUS
    <2>2. st \in ReaderState /\ st.offset = reader[c].offset
      BY <1>1, <2>1 DEF ReaderState
    <2>3. reader' = [reader EXCEPT ![c] = st]
      BY <1>4, <2>1
    <2>4. QED
      BY <1>1, <1>2, <2>2, <2>3, ReaderStep DEF ReaderOK
  <1>5. CASE ApplyEvent(c)
    <2>1. Tail(reader[c].batch) \in Seq(Message)
      BY <1>1, <1>5 DEF ApplyEvent, NextEvent, ReaderState
    <2>2. PICK st : st = [reader[c] EXCEPT !.batch = Tail(reader[c].batch)]
      OBVIOUS
    <2>3. st \in ReaderState /\ st.offset = reader[c].offset
      BY <1>1, <2>1, <2>2 DEF ReaderState
    <2>4. reader' = [reader EXCEPT ![c] = st]
      BY <1>5, <2>2 DEF ApplyEvent, NextEvent
    <2>5. QED
      BY <1>1, <1>2, <2>3, <2>4, ReaderStep DEF ReaderOK
  <1>6. CASE ReadChunk(c)
    <2>1. PICK last \in reader[c].offset..Len(log), upToDate \in BOOLEAN :
            \E events \in {NewUpTo(c, last), <<>>} :
              ReadUpTo(c, last, upToDate, events)
      BY <1>6 DEF ReadChunk
    <2>2. PICK st \in ReaderState :
            reader' = [reader EXCEPT ![c] = st] /\ st.offset = last
      BY <2>1, ChunkTaken
    <2>3. QED
      BY <1>1, <1>2, <2>1, <2>2, ReaderStep DEF ReaderOK
  <1>7. QED
    BY <1>3, <1>4, <1>5, <1>6
       DEF Consume, Build, FinishChunk, EndChunk, ReadError, Aborted

LEMMA ConsumeCopyType ==
    ASSUME SubscriberTypeOK, NEW c \in Consumer,
           Consume(c) \/ ReadChunk(c) \/ ReadError(c) \/ Aborted(c)
    PROVE  TypeOK' /\ \A v \in Tracer : task'[v] = task[v]
  <1>1. TypeOK /\ c \in Task
    BY SubscriberAssumption DEF SubscriberTypeOK
  <1>2. CASE ApplyStep(c)
    BY <1>1, <1>2, ApplyType, EnvelopeApplyType, ConsumerFrame DEF ApplyStep
  <1>3. CASE Build(c) \/ FinishChunk(c) \/ ReadChunk(c) \/ ReadError(c)
    BY <1>1, <1>3, CopyFrame, ConsumerFrame
       DEF Build, FinishChunk, EndChunk, ReadChunk, ReadUpTo, TakeChunk,
           ReadError
  <1>4. ASSUME NEW m \in Message,
               Become(c, [IdleTask EXCEPT !.pc = "apply", !.msg = m]),
               UNCHANGED <<copy, wire>>
        PROVE  TypeOK' /\ \A v \in Tracer : task'[v] = task[v]
    <2>1. [IdleTask EXCEPT !.pc = "apply", !.msg = m] \in TaskState
      BY <1>4, IdleTaskType DEF IdleTask, TaskState, Section
    <2>2. task' \in [Task -> TaskState]
      BY <1>1, <1>4, <2>1, BecomeType
    <2>3. QED
      BY <1>1, <1>4, <2>2, ConsumerFrame
         DEF copy, TypeOK, correlation, collections, channel, wire
  <1>5. CASE ApplyEvent(c)
    <2>1. reader[c].batch \in Seq(Message) /\ reader[c].batch # <<>>
      BY <1>5 DEF ApplyEvent, NextEvent, SubscriberTypeOK, ReaderState
    <2>2. Head(reader[c].batch) \in Message
      BY <2>1
    <2>3. CASE UNCHANGED task
      BY <1>1, <1>5, <2>3, CopyFrame, ConsumerFrame DEF ApplyEvent, NextEvent
    <2>4. QED
      BY <1>4, <1>5, <2>2, <2>3 DEF ApplyEvent, NextEvent
  <1>6. CASE Aborted(c)
    <2>1. task' \in [Task -> TaskState]
      BY <1>1, <1>6, ReturnType DEF Aborted
    <2>2. QED
      BY <1>1, <1>6, <2>1, ConsumerFrame
         DEF Aborted, copy, TypeOK, correlation, collections, channel, wire
  <1>7. QED
    BY <1>2, <1>3, <1>5, <1>6 DEF Consume

LEMMA SubscriberNextType ==
    ASSUME SubscriberInv, [SubscriberNext]_subscriberVars
    PROVE  SubscriberInv'
  <1>0. /\ TypeOK /\ ReaderOK /\ log \in Seq(Message) /\ Len(log) \in Nat
        /\ Room /\ Cardinality(OnTheWay) \in Nat
        /\ handle \in Consumer \cup {NoConsumer}
        /\ waiter \in {"none", "waiting", "returned"}
    BY CardinalityOnTheWay DEF SubscriberInv, SubscriberTypeOK, ReaderOK
  <1> SUFFICES /\ TypeOK' /\ ReaderOK' /\ log' \in Seq(Message) /\ Room'
               /\ Cardinality(OnTheWay)' \in Nat
               /\ handle' \in Consumer \cup {NoConsumer}
               /\ waiter' \in {"none", "waiting", "returned"}
    BY SubscriberAssumption DEF SubscriberInv, SubscriberTypeOK, ReaderOK, Room
  <1>1. (Room => Cardinality(OnTheWay) \in Nat)'
    BY CardinalityOnTheWay, PTL
  <1>2. ASSUME NEW w \in Tracer, ObserveRemote(w)
        PROVE  TypeOK' /\ Room'
    <2>1. w \in Task /\ Observe(w) /\ log' = log
      BY <1>2 DEF ObserveRemote, Tracer
    <2>2. TypeOK'
      BY <1>0, <2>1, ObserveType
    <2>3. \E m : Take(w, m)
      BY <2>1 DEF Observe, ObserveSessionNew, ObservePrompt, ObserveRequest,
         ObserveResponse, ObserveUpdate, ObserveOther
    <2>4. task[w].pc # "append" /\ task'[w].pc = "append"
      BY <1>0, <2>1, <2>3, StepGoes DEF Take
    <2>5. /\ IsFiniteSet(OnTheWay)'
          /\ Cardinality(OnTheWay)' = Cardinality(OnTheWay) + 1
      BY <1>0, <2>1, <2>4, TaskFrame, OnTheWayGrows
    <2>6. Len(log) + Cardinality(OnTheWay) < MaxLog
      BY <1>2 DEF ObserveRemote
    <2>7. QED
      BY <1>0, <2>1, <2>2, <2>5, <2>6, SubscriberAssumption DEF Room
  <1>3. ASSUME NEW w \in Tracer, Publish(w)
        PROVE  TypeOK' /\ Room' /\ log' \in Seq(Message) /\ ReaderOK'
    <2>1. w \in Task /\ w \in OnTheWay
      BY <1>3 DEF Publish, Tracer, OnTheWay
    <2>2. task' \in [Task -> TaskState]
      BY <1>0, <1>3, <2>1, ReturnType DEF Publish
    <2>3. TypeOK'
      BY <1>0, <1>3, <2>2
         DEF Publish, copy, TypeOK, correlation, collections, channel, wire
    <2>4. Msg(w) \in Message
      BY <1>0, <2>1 DEF TypeOK, TaskState, Msg
    <2>5. log' \in Seq(Message) /\ Len(log') = Len(log) + 1
      BY <1>0, <1>3, <2>4, PublishedType DEF Publish
    <2>6. task'[w].pc # "append" /\ \A v \in Task \ {w} : task'[v] = task[v]
      BY <1>0, <1>3, <2>1 DEF Publish, Return, Become, TypeOK, IdleTask
    <2>7. /\ IsFiniteSet(OnTheWay)'
          /\ Cardinality(OnTheWay)' = Cardinality(OnTheWay) - 1
      BY <1>0, <2>1, <2>6, OnTheWayShrinks
    <2>8. Room'
      BY <1>0, <2>5, <2>7 DEF Room
    <2>9. ReaderOK'
      <3>1. \A c \in Consumer : reader[c].offset \in Nat
        BY <1>0 DEF ReaderOK, ReaderState
      <3>2. QED
        BY <1>0, <1>3, <2>5, <3>1 DEF Publish, subscriber, ReaderOK
    <2>10. QED
      BY <2>3, <2>5, <2>8, <2>9
  <1>4. CASE PublishForeign
    <2>1. PICK kind \in Foreign, c \in Connection :
            log' = Append(log, [NoMessage EXCEPT !.kind = kind,
                                                 !.connection = c])
      BY <1>4 DEF PublishForeign
    <2>2. [NoMessage EXCEPT !.kind = kind, !.connection = c] \in Message
      BY IdleTaskType DEF Foreign, NoMessage, Message, MessageKind, RequestKind
    <2>3. log' \in Seq(Message) /\ Len(log') = Len(log) + 1
      BY <1>0, <2>1, <2>2, PublishedType
    <2>4. TypeOK' /\ OnTheWay' = OnTheWay
      BY <1>0, <1>4, CopyFrame DEF PublishForeign, OnTheWay
    <2>5. Room'
      BY <1>0, <1>4, <2>3, <2>4, SubscriberAssumption DEF PublishForeign, Room
    <2>6. ReaderOK'
      <3>1. \A c2 \in Consumer : reader[c2].offset \in Nat
        BY <1>0 DEF ReaderOK, ReaderState
      <3>2. QED
        BY <1>0, <1>4, <2>3, <3>1 DEF PublishForeign, subscriber, ReaderOK
    <2>7. QED
      BY <1>0, <1>1, <1>4, <2>3, <2>4, <2>5, <2>6 DEF PublishForeign, subscriber
  <1>5. CASE Connect \/ Preload
    <2>1. UNCHANGED <<copy, task, wire, log>> /\ Spawn
      BY <1>5 DEF Connect, Preload
    <2>2. TypeOK' /\ Room'
      BY <1>0, <2>1, CopyFrame, OnTheWayStays
    <2>3. ReaderOK' /\ handle' \in Consumer \cup {NoConsumer}
      BY <2>1, SpawnType DEF SubscriberInv
    <2>4. QED
      BY <1>0, <1>1, <1>5, <2>1, <2>2, <2>3 DEF Connect, Preload
  <1>6. CASE CancelPreload \/ Disconnect
    <2>1. UNCHANGED <<copy, task, wire, log, reader>>
      BY <1>6 DEF CancelPreload, Disconnect
    <2>2. TypeOK' /\ Room'
      BY <1>0, <2>1, CopyFrame, OnTheWayStays
    <2>3. QED
      BY <1>0, <1>1, <1>6, <2>1, <2>2 DEF CancelPreload, Disconnect, ReaderOK
  <1>7. ASSUME NEW c \in Consumer,
               Consume(c) \/ ReadChunk(c) \/ ReadError(c) \/ Aborted(c)
        PROVE  /\ TypeOK' /\ ReaderOK' /\ Room' /\ UNCHANGED <<log, handle>>
               /\ waiter' \in {"none", "waiting", "returned"}
    <2>1. UNCHANGED <<log, handle>>
      BY <1>7 DEF Consume, Build, ApplyEvent, NextEvent, ApplyStep, FinishChunk,
           EndChunk, ReadChunk, ReadUpTo, TakeChunk,
           ReadError, Aborted, subscriber
    <2>2. waiter' \in {waiter, "returned"}
      BY <1>7 DEF Consume, Build, ApplyEvent, NextEvent, ApplyStep, FinishChunk,
           EndChunk, ReadChunk, ReadUpTo, TakeChunk,
           ReadError, Aborted, subscriber
    <2>3. TypeOK' /\ \A v \in Tracer : task'[v] = task[v]
      BY <1>7, ConsumeCopyType DEF SubscriberInv
    <2>4. ReaderOK'
      BY <1>7, ConsumeType DEF SubscriberInv
    <2>5. Room'
      BY <1>0, <2>1, <2>3, OnTheWayStays
    <2>6. QED
      BY <1>0, <2>1, <2>2, <2>3, <2>4, <2>5
  <1>8. CASE UNCHANGED subscriberVars
    BY <1>0, <1>1, <1>8, CopyFrame, OnTheWayStays
       DEF subscriberVars, vars, copy, subscriber, ReaderOK
  <1>9. CASE \E w \in Tracer : ObserveRemote(w)
    BY <1>0, <1>1, <1>2, <1>9 DEF ObserveRemote, subscriber, ReaderOK
  <1>10. CASE \E w \in Tracer : Publish(w)
    BY <1>0, <1>1, <1>3, <1>10 DEF Publish, subscriber
  <1>11. CASE \E c \in Consumer : \/ Consume(c) \/ ReadChunk(c)
                                  \/ ReadError(c) \/ Aborted(c)
    BY <1>0, <1>1, <1>7, <1>11
  <1>12. QED
    BY <1>4, <1>5, <1>6, <1>8, <1>9, <1>10, <1>11 DEF SubscriberNext

(* Every variable of the subscriber keeps its type, however many consumers *)
(* and remote tracers there are, and no reader is beyond the end of the    *)
(* stream.                                                                 *)
THEOREM SubscriberTypeCorrect == SubscriberSpec => []SubscriberTypeOK
  <1>1. SubscriberInit => SubscriberInv
    BY SubscriberInitType
  <1>2. SubscriberInv /\ [SubscriberNext]_subscriberVars => SubscriberInv'
    BY SubscriberNextType
  <1>3. SubscriberInv => SubscriberTypeOK
    BY DEF SubscriberInv
  <1>4. QED
    BY <1>1, <1>2, <1>3, PTL DEF SubscriberSpec
-----------------------------------------------------------------------------
(* The notification of preload.                                            *)

\* A reader has applied no more than it has read, and it has read up to where
\* the stream was when it was spawned if its chunk reached the end.
ReadInOrder(c) ==
    LET r == reader[c] IN
    /\ Len(r.batch) <= r.offset
    /\ r.pc \in {"unused", "start", "read"} => r.batch = <<>>
    /\ r.origin <= Len(log)
    /\ r.pc = "apply" /\ r.upToDate => r.offset >= r.origin

\* Consumer c has got through all that was there when it was spawned.
CaughtUpOnce(c) ==
    /\ reader[c].pc # "unused"
    /\ reader[c].offset - Len(reader[c].batch) >= reader[c].origin

PreloadInv == /\ \A c \in Consumer : ReadInOrder(c)
              /\ waiter = "returned" => \E c \in Consumer : CaughtUpOnce(c)

\* A step that leaves the reader of c alone, or only moves it to a place
\* where it holds no chunk, keeps both.
LEMMA ReaderStays ==
    ASSUME ReaderOK, NEW c \in Consumer, Len(log) \in Nat, Len(log') \in Nat,
           Len(log) <= Len(log'), reader'[c] = reader[c], ReadInOrder(c)
    PROVE  ReadInOrder(c)' /\ (CaughtUpOnce(c) => CaughtUpOnce(c)')
  <1>1. reader[c].origin \in Nat
    BY DEF ReaderOK, ReaderState
  <1>2. QED
    BY <1>1 DEF ReadInOrder, CaughtUpOnce

\* What a step of the consumer c makes of its reader.
LEMMA ReaderMoves ==
    ASSUME SubscriberTypeOK, NEW c \in Consumer, ReadInOrder(c),
           Consume(c) \/ ReadChunk(c) \/ ReadError(c) \/ Aborted(c)
    PROVE  /\ ReadInOrder(c)' /\ (CaughtUpOnce(c) => CaughtUpOnce(c)')
           /\ \A d \in Consumer \ {c} : reader'[d] = reader[d]
           /\ \/ waiter' = waiter
              \/ waiter' = "returned" /\ CaughtUpOnce(c)
  <1>1. /\ reader \in [Consumer -> ReaderState]
        /\ reader[c] \in ReaderState /\ Len(log) \in Nat
        /\ log \in Seq(Message) /\ reader[c].offset \in 0..Len(log)
    BY DEF SubscriberTypeOK, ReaderState
  <1>2. /\ reader[c].batch \in Seq(Message) /\ Len(reader[c].batch) \in Nat
        /\ reader[c].origin \in Nat
    BY <1>1 DEF ReaderState
  <1>3. CASE ApplyStep(c)
    BY <1>3 DEF ApplyStep, subscriber, ReadInOrder, CaughtUpOnce
  <1>4. ASSUME NEW pc \in {"read", "ended", "gone", "cut"},
               reader' = [reader EXCEPT ![c].pc = pc], UNCHANGED log,
               pc = "read" => reader[c].batch = <<>>,
               reader[c].pc # "unused"
        PROVE  /\ ReadInOrder(c)' /\ (CaughtUpOnce(c) => CaughtUpOnce(c)')
               /\ \A d \in Consumer \ {c} : reader'[d] = reader[d]
    <2>1. reader'[c] = [reader[c] EXCEPT !.pc = pc]
      BY <1>1, <1>4
    <2>2. /\ reader'[c].pc = pc /\ reader'[c].batch = reader[c].batch
          /\ reader'[c].offset = reader[c].offset
          /\ reader'[c].origin = reader[c].origin
      BY <1>1, <2>1 DEF ReaderState
    <2>3. QED
      BY <1>1, <1>2, <1>4, <2>2 DEF ReadInOrder, CaughtUpOnce
  <1>5. CASE Build(c)
    <2>1. reader[c].batch = <<>>
      BY <1>5 DEF Build, ReadInOrder
    <2>2. QED
      BY <1>4, <1>5, <2>1 DEF Build
  <1>6. CASE FinishChunk(c)
    <2>1. reader[c].batch = <<>> /\ reader[c].pc = "apply"
      BY <1>6 DEF FinishChunk, EndChunk
    <2>2. reader[c].upToDate => CaughtUpOnce(c)
      BY <1>1, <1>2, <2>1 DEF ReadInOrder, CaughtUpOnce
    <2>3. \/ waiter' = waiter
          \/ waiter' = "returned" /\ reader[c].upToDate
      BY <1>6 DEF FinishChunk, EndChunk
    <2>4. QED
      BY <1>4, <1>6, <2>1, <2>2, <2>3 DEF FinishChunk, EndChunk
  <1>7. CASE ReadError(c) \/ Aborted(c)
    BY <1>4, <1>7 DEF ReadError, Aborted, Running
  <1>8. CASE ApplyEvent(c)
    <2>1. reader'[c] = [reader[c] EXCEPT !.batch = Tail(reader[c].batch)]
      BY <1>1, <1>8 DEF ApplyEvent, NextEvent
    <2>2. /\ reader'[c].pc = "apply" /\ reader[c].pc = "apply"
          /\ reader'[c].batch = Tail(reader[c].batch)
          /\ reader'[c].offset = reader[c].offset
          /\ reader'[c].upToDate = reader[c].upToDate
          /\ reader'[c].origin = reader[c].origin
      BY <1>1, <1>8, <2>1 DEF ReaderState, ApplyEvent, NextEvent
    <2>3. Len(Tail(reader[c].batch)) = Len(reader[c].batch) - 1
      BY <1>2, <1>8 DEF ApplyEvent, NextEvent
    <2>4. \A d \in Consumer \ {c} : reader'[d] = reader[d]
      BY <1>1, <1>8 DEF ApplyEvent, NextEvent
    <2>5. QED
      BY <1>1, <1>2, <1>8, <2>2, <2>3, <2>4
         DEF ApplyEvent, NextEvent, ReadInOrder, CaughtUpOnce
  <1>9. CASE ReadChunk(c)
    <2>1. PICK last \in reader[c].offset..Len(log), upToDate \in BOOLEAN :
            \E events \in {NewUpTo(c, last), <<>>} :
              ReadUpTo(c, last, upToDate, events)
      BY <1>9 DEF ReadChunk
    <2>2. PICK events \in {NewUpTo(c, last), <<>>} :
            ReadUpTo(c, last, upToDate, events)
      BY <2>1
    <2>3. /\ reader[c].pc = "read" /\ (upToDate => last = Len(log))
          /\ UNCHANGED <<log, waiter>>
          /\ Len(events) \in 0..(last - reader[c].offset)
      BY <2>2, ChunkTaken
    <2>4. PICK st \in ReaderState :
            /\ reader' = [reader EXCEPT ![c] = st]
            /\ st.pc = "apply" /\ st.offset = last /\ st.batch = events
            /\ st.upToDate = upToDate /\ st.origin = reader[c].origin
      BY <2>2, ChunkTaken
    <2>5. reader'[c] = st /\ \A d \in Consumer \ {c} : reader'[d] = reader[d]
      BY <1>1, <2>4
    <2>6. reader[c].batch = <<>>
      BY <2>3 DEF ReadInOrder
    <2>7. last \in Nat /\ last <= Len(log) /\ last >= reader[c].offset
      BY <1>1
    <2>8. QED
      BY <1>1, <1>2, <2>3, <2>4, <2>5, <2>6, <2>7 DEF ReadInOrder, CaughtUpOnce
  <1>11. QED
    BY <1>3, <1>5, <1>6, <1>7, <1>8, <1>9, <1>4
       DEF Consume, ApplyStep, subscriber, Build, ApplyEvent, NextEvent,
           ReadError, Aborted

LEMMA PreloadNext ==
    ASSUME SubscriberTypeOK, SubscriberTypeOK', PreloadInv,
           [SubscriberNext]_subscriberVars
    PROVE  PreloadInv'
  <1>1. /\ ReaderOK /\ log \in Seq(Message) /\ Len(log) \in Nat
        /\ log' \in Seq(Message) /\ Len(log') \in Nat
    BY DEF SubscriberTypeOK, ReaderOK
  <1>2. \A c \in Consumer : ReadInOrder(c)
    BY DEF PreloadInv
  <1>3. ASSUME UNCHANGED reader, Len(log) <= Len(log'),
               waiter' = "returned" => waiter = "returned"
        PROVE  PreloadInv'
    <2>1. \A c \in Consumer :
            ReadInOrder(c)' /\ (CaughtUpOnce(c) => CaughtUpOnce(c)')
      BY <1>1, <1>2, <1>3, ReaderStays
    <2>2. QED
      BY <1>3, <2>1 DEF PreloadInv
  <1>4. ASSUME NEW w \in Tracer, ObserveRemote(w) \/ Publish(w)
        PROVE  PreloadInv'
    <2>1. log' = log \/ log' = Append(log, Msg(w))
      BY <1>4 DEF ObserveRemote, Publish
    <2>2. Len(log) <= Len(log')
      BY <1>1, <2>1
    <2>3. QED
      BY <1>3, <1>4, <2>2 DEF ObserveRemote, Publish, subscriber
  <1>5. CASE PublishForeign
    <2>1. PICK m : log' = Append(log, m)
      BY <1>5 DEF PublishForeign
    <2>2. Len(log) <= Len(log')
      BY <1>1, <2>1
    <2>3. QED
      BY <1>3, <1>5, <2>2 DEF PublishForeign, subscriber
  <1>6. CASE UNCHANGED reader /\ (Connect \/ Preload)
    BY <1>1, <1>3, <1>6 DEF Connect, Preload
  <1>7. ASSUME NEW c \in Consumer, reader[c].pc = "unused", UNCHANGED log,
               reader' = [reader EXCEPT ![c].pc = "start",
                                        ![c].origin = Len(log)],
               waiter' = "returned" => waiter = "returned"
        PROVE  PreloadInv'
    <2>1. reader'[c] = [reader[c] EXCEPT !.pc = "start", !.origin = Len(log)]
          /\ reader[c] \in ReaderState
      BY <1>1, <1>7 DEF ReaderOK
    <2>2. /\ reader'[c].pc = "start" /\ reader'[c].batch = reader[c].batch
          /\ reader'[c].offset = reader[c].offset
          /\ reader'[c].origin = Len(log)
      BY <2>1 DEF ReaderState
    <2>3. ReadInOrder(c)' /\ ~CaughtUpOnce(c)
      BY <1>1, <1>2, <1>7, <2>2 DEF ReadInOrder, CaughtUpOnce
    <2>4. \A d \in Consumer \ {c} :
            ReadInOrder(d)' /\ (CaughtUpOnce(d) => CaughtUpOnce(d)')
      <3>1. \A d \in Consumer \ {c} : reader'[d] = reader[d]
        BY <1>1, <1>7 DEF ReaderOK
      <3>2. Len(log) <= Len(log')
        BY <1>1, <1>7
      <3>3. QED
        BY <1>1, <1>2, <3>1, <3>2, ReaderStays
    <2>5. QED
      BY <1>7, <2>3, <2>4 DEF PreloadInv
  <1>8. CASE Connect \/ Preload
    <2>1. Spawn /\ UNCHANGED log /\ (waiter' = "returned" => waiter = "returned")
      BY <1>8 DEF Connect, Preload
    <2>2. QED
      BY <1>6, <1>7, <1>8, <2>1 DEF Spawn
  <1>9. CASE CancelPreload \/ Disconnect
    BY <1>1, <1>3, <1>9 DEF CancelPreload, Disconnect
  <1>10. ASSUME NEW c \in Consumer,
                Consume(c) \/ ReadChunk(c) \/ ReadError(c) \/ Aborted(c)
         PROVE  PreloadInv'
    <2>1. /\ ReadInOrder(c)' /\ (CaughtUpOnce(c) => CaughtUpOnce(c)')
          /\ \A d \in Consumer \ {c} : reader'[d] = reader[d]
          /\ \/ waiter' = waiter
             \/ waiter' = "returned" /\ CaughtUpOnce(c)
      BY <1>2, <1>10, ReaderMoves
    <2>2. UNCHANGED log
      BY <1>10 DEF Consume, Build, ApplyEvent, NextEvent, ApplyStep, FinishChunk,
           EndChunk, ReadChunk, ReadUpTo, TakeChunk,
           ReadError, Aborted
    <2>3. \A d \in Consumer \ {c} :
            ReadInOrder(d)' /\ (CaughtUpOnce(d) => CaughtUpOnce(d)')
      BY <1>1, <1>2, <2>1, <2>2, ReaderStays
    <2>4. QED
      BY <2>1, <2>3 DEF PreloadInv
  <1>11. CASE UNCHANGED subscriberVars
    BY <1>1, <1>3, <1>11 DEF subscriberVars, subscriber
  <1>12. QED
    BY <1>4, <1>5, <1>8, <1>9, <1>10, <1>11 DEF SubscriberNext

PreloadFollowsConsumer ==
    waiter = "returned" => \E c \in Consumer : CaughtUpOnce(c)

LEMMA PreloadInvHolds == SubscriberSpec => [](SubscriberTypeOK /\ PreloadInv)
  <1>1. SubscriberInit => PreloadInv
    BY DEF SubscriberInit, UnusedReader, PreloadInv, ReadInOrder
  <1>2. SubscriberTypeOK /\ SubscriberTypeOK' /\ PreloadInv
        /\ [SubscriberNext]_subscriberVars => PreloadInv'
    BY PreloadNext
  <1>3. QED
    BY <1>1, <1>2, SubscriberTypeCorrect, PTL DEF SubscriberSpec

(* However often the owner connects, disconnects and preloads, when        *)
(* preload has returned some consumer has got through all that the stream  *)
(* held when it was spawned, having applied or skipped it: no chunk short  *)
(* of the end, no error and no abort wakes the caller (consume_stream).    *)
THEOREM PreloadWaitsForConsumer == SubscriberSpec => []PreloadFollowsConsumer
  <1>1. PreloadInv => PreloadFollowsConsumer
    BY DEF PreloadInv, PreloadFollowsConsumer
  <1>2. QED
    BY <1>1, PreloadInvHolds, PTL

\* The subscriber connects once.  A second consumer reads on while the first
\* one, which is being aborted, can still notify the caller.
OneConnect == \A c, d \in Consumer : c = d

(* A subscriber that connects once shows at least what the stream held     *)
(* when its consumer was spawned, once preload has returned and if no      *)
(* chunk was skipped.                                                      *)
THEOREM PreloadWaitsForTheEnd ==
    OneConnect => (SubscriberSpec => []PreloadIsComplete)
  <1>1. ASSUME OneConnect, SubscriberTypeOK, PreloadInv
        PROVE  PreloadIsComplete
    <2> SUFFICES ASSUME waiter = "returned", handle # NoConsumer
                 PROVE  Len(Applied(handle)) >= reader[handle].origin
      BY DEF PreloadIsComplete
    <2>1. PICK c \in Consumer : CaughtUpOnce(c)
      BY <1>1 DEF PreloadInv
    <2>2. handle = c
      BY <1>1, <2>1 DEF OneConnect, SubscriberTypeOK
    <2>3. /\ log \in Seq(Message) /\ reader[c].offset \in 0..Len(log)
          /\ reader[c].batch \in Seq(Message) /\ Len(reader[c].batch) \in Nat
          /\ Len(reader[c].batch) <= reader[c].offset
      BY <1>1, <2>1 DEF SubscriberTypeOK, ReaderState, PreloadInv, ReadInOrder
    <2>4. PICK n : n = reader[c].offset - Len(reader[c].batch)
      OBVIOUS
    <2>5. n \in 0..Len(log)
      BY <2>3, <2>4
    <2>6. Len(SubSeq(log, 1, n)) = n
      BY <2>3, <2>5
    <2>7. QED
      BY <2>1, <2>2, <2>4, <2>6 DEF Applied, CaughtUpOnce
  <1>2. OneConnect => (SubscriberTypeOK /\ PreloadInv => PreloadIsComplete)
    BY <1>1
  <1>3. CASE OneConnect
    <2>1. SubscriberTypeOK /\ PreloadInv => PreloadIsComplete
      BY <1>2, <1>3
    <2>2. SubscriberSpec => []PreloadIsComplete
      BY <2>1, PreloadInvHolds, PTL
    <2>3. QED
      BY <2>2
  <1>4. QED
    BY <1>3

-----------------------------------------------------------------------------
(* What the copy is, after the stream s: the declarative reading of a       *)
(* stream by the properties, related to the model its messages lead to.    *)

Prompts(s) == Kind(s, "session/prompt")
Rank(s, i) == Cardinality({j \in Prompts(s) : j < i}) + 1

\* The requests the read model waits for the answers of
Tracked     == {"session/new", "session/prompt"}
Waits(s, i) == i \in DOMAIN s /\ s[i].kind \in Tracked /\ Answers(s, i) = {}
Waiting(s, kind) == {i \in Kind(s, kind) : Waits(s, i)}

\* Message m may follow s: no request waits under its id, and no prompt of
\* its session waits if clients do not overlap prompts.
Enters(s, m) ==
    m.kind \in Tracked => \A i \in DOMAIN s : Waits(s, i) =>
        /\ s[i].id # m.id
        /\ (Serialized /\ m.kind = "session/prompt"
            /\ s[i].kind = "session/prompt") => s[i].session # m.session

Updates(s, i) == {u \in Kind(s, "session/update") :
                    /\ u > i /\ s[u].session = s[i].session
                    /\ \A r \in Answers(s, i) : r > u}

RowOf(s, i) == [state |-> Outcome(s, i), session |-> s[i].session,
                request |-> s[i].id]

\* Every request that was answered has a first answer.
FirstAnswers(s) == \A i \in DOMAIN s : Answers(s, i) # {} =>
    \E r \in Answers(s, i) : \A q \in Answers(s, i) : r <= q

TurnsOf(s, M) ==
    /\ M.turnCounter = Cardinality(Prompts(s))
    /\ DOMAIN M.turns = 1..M.turnCounter
    /\ \A t \in 1..M.turnCounter : \E i \in Prompts(s) : Rank(s, i) = t
    /\ \A i \in Prompts(s) : M.turns[Rank(s, i)] = RowOf(s, i)

RequestsOf(s, M) ==
    /\ M.pendingNew = {s[i].id : i \in Waiting(s, "session/new")}
    /\ DOMAIN M.requestTurn = {s[i].id : i \in Waiting(s, "session/prompt")}
    /\ \A i \in Waiting(s, "session/prompt") :
         M.requestTurn[s[i].id] = Rank(s, i)
    /\ \A i, j \in DOMAIN s :
         Waits(s, i) /\ Waits(s, j) /\ s[i].id = s[j].id => i = j

SessionsOf(s, M) ==
    LET W == Waiting(s, "session/prompt") IN
    /\ DOMAIN M.activeTurn = {s[i].session : i \in W}
    /\ \A i \in W : M.activeTurn[s[i].session] = Rank(s, i)
    /\ \A i, j \in W : s[i].session = s[j].session => i = j
    /\ DOMAIN M.chunkSeq \subseteq 1..M.turnCounter
    /\ \A i \in W : Number(M.chunkSeq, Rank(s, i)) = Cardinality(Updates(s, i))

ChunksOf(s, M) ==
    /\ M.chunks \in Seq(ChunkRow)
    /\ Image(M.chunks) = ReplayedChunks(s)
    /\ IsFiniteSet(ReplayedChunks(s))
    /\ Len(M.chunks) = Cardinality(ReplayedChunks(s))

ReplayOf(s, M) ==
    /\ FirstAnswers(s) /\ TurnsOf(s, M) /\ RequestsOf(s, M)
    /\ Serialized => SessionsOf(s, M) /\ ChunksOf(s, M)

-----------------------------------------------------------------------------
(* The stream and the tracers that write it.                               *)

\* The request at i of the stream waits for an answer that is owed by the
\* conversation of v, or is on its way to the stream.
Owed(v, i) ==
    /\ log[i].id \in OwnIds(v)
    /\ log[i].kind = "session/prompt" => log[i].session \in established[v]
    /\ \/ \E r \in outstanding[v] : /\ r.id = log[i].id
                                    /\ r.kind = log[i].kind
                                    /\ r.session = log[i].session
       \/ /\ task[v].pc = "append"
          /\ Msg(v).kind = "response" /\ Msg(v).id = log[i].id

\* A request on its way to the stream is on the wire, and may enter.
OnItsWay(w) ==
    task[w].pc = "append" /\ Msg(w).kind \in Tracked =>
        /\ \E r \in outstanding[w] : /\ r.id = Msg(w).id
                                     /\ r.kind = Msg(w).kind
                                     /\ r.session = Msg(w).session
        /\ Enters(log, Msg(w))

StreamInv ==
    /\ \A w \in Task : Wired(w)
    /\ \A w \in Tracer : task[w].pc \in {"idle", "append"} /\ OnItsWay(w)
    /\ \A i \in DOMAIN log : Waits(log, i) => \E v \in Tracer : Owed(v, i)
    /\ \A n \in DOMAIN log : Enters(SubSeq(log, 1, n - 1), log[n])
    /\ FirstAnswers(log)

-----------------------------------------------------------------------------
(* The consumer and the copy.                                              *)

\* Where an aborted consumer is
Stopped == {"gone", "cut"}

\* No chunk was skipped.
Whole == \A c \in Consumer : reader[c].whole

Connected(s) == {s[i].connection : i \in Kind(s, "connection")}

\* The connection row the task is about to insert
RestConnection(c) ==
    IF Applying(c, "connection") THEN {Msg(c).connection} ELSE {}

\* What is left of a chunk is the stream's.
BatchOfLog(c) ==
    LET r == reader[c] IN
    \A k \in DOMAIN r.batch :
        r.batch[k] = log[r.offset - Len(r.batch) + k]

CopyOf(c) ==
    /\ BatchOfLog(c)
    /\ reader[c].pc # "apply" => task[c].pc = "idle"
    /\ task[c].pc # "append"
    /\ task[c].pc = "insert_turn" => task[c].connection = Unknown
    /\ reader[c].pc \notin Stopped =>
         /\ ReplayOf(Applied(c), Rest(c))
         /\ DOMAIN connections \cup RestConnection(c) = Connected(Applied(c))

\* The rows of the copy are those of prompts of the stream.
RowsShown ==
    /\ connectionId = Unknown
    /\ \A t \in DOMAIN turns : \E i \in Prompts(log) :
         /\ t = Rank(log, i)
         /\ turns[t].connection = Unknown
         /\ turns[t].session = log[i].session /\ turns[t].request = log[i].id
         /\ turns[t].state \in {"active", Outcome(log, i)}

CopyInv == StreamInv /\ RowsShown /\ \A c \in Consumer : CopyOf(c)

-----------------------------------------------------------------------------
(* Facts about streams.                                                    *)

\* Stream r continues stream s.
Extends(s, r) == /\ Len(s) <= Len(r)
                 /\ \A k \in 1..Len(s) : r[k] = s[k]

LEMMA StreamIndices ==
    ASSUME NEW s \in Seq(Message)
    PROVE  /\ DOMAIN s = 1..Len(s) /\ Len(s) \in Nat
           /\ \A i \in DOMAIN s : i \in Nat /\ i <= Len(s) /\ s[i] \in Message
  OBVIOUS

LEMMA FiniteIndices ==
    ASSUME NEW s \in Seq(Message), NEW S \in SUBSET DOMAIN s
    PROVE  IsFiniteSet(S) /\ Cardinality(S) \in Nat
  <1>1. DOMAIN s = 1..Len(s) /\ Len(s) \in Nat
    BY StreamIndices
  <1>2. IsFiniteSet(DOMAIN s)
    BY <1>1, FS_Interval
  <1>3. QED
    BY <1>2, FS_Subset, FS_CardinalityType

LEMMA KindIndices ==
    ASSUME NEW s \in Seq(Message), NEW k
    PROVE  Kind(s, k) \subseteq DOMAIN s
  BY DEF Kind

\* The rank of a prompt is its number, and no other prompt has it.
LEMMA RankType ==
    ASSUME NEW s \in Seq(Message), NEW i \in Prompts(s)
    PROVE  /\ i \in 1..Len(s)
           /\ Rank(s, i) \in 1..Cardinality(Prompts(s))
           /\ IsFiniteSet(Prompts(s)) /\ Cardinality(Prompts(s)) \in Nat
  <1> DEFINE P == Prompts(s)
             B == {j \in P : j < i}
  <1>1. P \subseteq DOMAIN s /\ B \subseteq DOMAIN s /\ i \in 1..Len(s)
    BY KindIndices, StreamIndices DEF Prompts, Kind
  <1>2. IsFiniteSet(P) /\ Cardinality(P) \in Nat /\ Cardinality(B) \in Nat
    BY <1>1, FiniteIndices
  <1>3. B \subseteq P /\ i \in P /\ i \notin B
    BY <1>1
  <1>4. Cardinality(B) <= Cardinality(P)
        /\ (Cardinality(B) = Cardinality(P) => B = P)
    BY <1>2, <1>3, FS_Subset
  <1>5. Rank(s, i) = Cardinality(B) + 1
    BY DEF Rank
  <1> HIDE DEF P, B
  <1>6. Cardinality(B) + 1 \in 1..Cardinality(P)
    BY <1>2, <1>3, <1>4
  <1>7. QED
    BY <1>1, <1>2, <1>5, <1>6 DEF P

LEMMA RankGrows ==
    ASSUME NEW s \in Seq(Message), NEW i \in Prompts(s), NEW k \in Prompts(s),
           i < k
    PROVE  Rank(s, i) < Rank(s, k)
  <1> DEFINE B(x) == {j \in Prompts(s) : j < x}
  <1>1. Prompts(s) \subseteq DOMAIN s /\ i \in Nat /\ k \in Nat
        /\ \A j \in Prompts(s) : j \in Nat
    BY KindIndices, StreamIndices DEF Prompts, Kind
  <1>2. /\ IsFiniteSet(B(i)) /\ Cardinality(B(i)) \in Nat
        /\ IsFiniteSet(B(k)) /\ Cardinality(B(k)) \in Nat
    BY <1>1, FiniteIndices
  <1>3. i \notin B(i) /\ B(i) \cup {i} \subseteq B(k)
    BY <1>1
  <1>4. Rank(s, i) = Cardinality(B(i)) + 1 /\ Rank(s, k) = Cardinality(B(k)) + 1
    BY DEF Rank
  <1> HIDE DEF B
  <1>5. Cardinality(B(i) \cup {i}) = Cardinality(B(i)) + 1
    BY <1>2, <1>3, FS_AddElement
  <1>6. Cardinality(B(i) \cup {i}) <= Cardinality(B(k))
    BY <1>2, <1>3, FS_Subset
  <1>7. QED
    BY <1>2, <1>4, <1>5, <1>6

LEMMA RankUnique ==
    ASSUME NEW s \in Seq(Message), NEW i \in Prompts(s), NEW k \in Prompts(s),
           Rank(s, i) = Rank(s, k)
    PROVE  i = k
  <1>1. i \in Nat /\ k \in Nat /\ Rank(s, i) \in Nat /\ Rank(s, k) \in Nat
    BY RankType
  <1>2. ~(i < k) /\ ~(k < i)
    BY <1>1, RankGrows
  <1>3. QED
    BY <1>1, <1>2

LEMMA PromptOfRank ==
    ASSUME NEW s \in Seq(Message), NEW i \in Prompts(s)
    PROVE  PromptOf(s, Rank(s, i)) = i
  <1> DEFINE B(x) == {j \in Prompts(s) : j < x}
             is(x) == Cardinality(B(x)) = Rank(s, i) - 1
  <1>1. \A x \in Prompts(s) : Cardinality(B(x)) \in Nat
    <2>1. Prompts(s) \subseteq DOMAIN s
      BY KindIndices DEF Prompts
    <2>2. QED
      BY <2>1, FiniteIndices
  <1>2. \A x \in Prompts(s) : Rank(s, x) = Cardinality(B(x)) + 1
    BY DEF Rank
  <1> HIDE DEF B
  <1>3. \A x \in Prompts(s) : is(x) <=> Rank(s, x) = Rank(s, i)
    BY <1>1, <1>2
  <1>4. \A x \in Prompts(s) : is(x) <=> x = i
    BY <1>3, RankUnique
  <1>5. PromptOf(s, Rank(s, i)) = CHOOSE x \in Prompts(s) : is(x)
    BY DEF PromptOf, Nth, Prompts, B
  <1>6. QED
    BY <1>4, <1>5

\* A longer stream has the same prompts under the same ranks, and the same
\* answers to what was answered first.
LEMMA RankStays ==
    ASSUME NEW s \in Seq(Message), NEW r \in Seq(Message), Extends(s, r),
           NEW i \in Prompts(s)
    PROVE  /\ i \in Prompts(r) /\ Rank(r, i) = Rank(s, i)
           /\ r[i] = s[i]
  <1>1. /\ i \in 1..Len(s) /\ s[i].kind = "session/prompt"
        /\ Len(s) \in Nat /\ Len(r) \in Nat /\ Len(s) <= Len(r)
    BY StreamIndices DEF Prompts, Kind, Extends
  <1>2. r[i] = s[i] /\ i \in 1..Len(r)
    BY <1>1 DEF Extends
  <1>3. \A j \in 1..Len(s) : j \in Prompts(r) <=> j \in Prompts(s)
    BY <1>1, StreamIndices DEF Prompts, Kind, Extends
  <1>4. \A j \in Prompts(r) : j < i => j \in 1..Len(s)
    BY <1>1, StreamIndices DEF Prompts, Kind
  <1>5. \A j \in Prompts(s) : j \in 1..Len(s)
    BY StreamIndices DEF Prompts, Kind
  <1>6. {j \in Prompts(r) : j < i} = {j \in Prompts(s) : j < i}
    BY <1>3, <1>4, <1>5
  <1>7. QED
    BY <1>1, <1>2, <1>3, <1>6 DEF Rank

LEMMA AnswersStay ==
    ASSUME NEW s \in Seq(Message), NEW r \in Seq(Message), Extends(s, r),
           NEW i \in DOMAIN s
    PROVE  /\ \A q \in Answers(s, i) : q \in Answers(r, i) /\ q <= Len(s)
                                       /\ q \in Nat
           /\ \A q \in Answers(r, i) : /\ q \in Nat
                                       /\ q <= Len(s) => q \in Answers(s, i)
  <1>1. /\ DOMAIN s = 1..Len(s) /\ DOMAIN r = 1..Len(r) /\ Len(s) \in Nat
        /\ Len(r) \in Nat /\ Len(s) <= Len(r)
        /\ \A k \in 1..Len(s) : r[k] = s[k]
    BY StreamIndices DEF Extends
  <1>2. QED
    BY <1>1 DEF Answers, Kind

\* The first of a set of numbers
LEMMA NthFirst ==
    ASSUME NEW S \in SUBSET Nat, IsFiniteSet(S), NEW r \in S,
           \A q \in S : r <= q
    PROVE  Nth(S, 1) = r
  <1> DEFINE B(x) == {j \in S : j < x}
  <1>1. B(r) = {}
    <2>1. \A q \in S : q \in Nat /\ r \in Nat /\ r <= q
      OBVIOUS
    <2>2. \A q \in S : ~(q < r)
      BY <2>1
    <2>3. QED
      BY <2>2
  <1>2. \A x \in S : x # r => r \in B(x)
    <2>1. \A x \in S : x \in Nat /\ r \in Nat /\ r <= x
      OBVIOUS
    <2>2. \A x \in S : x # r => r < x
      BY <2>1
    <2>3. QED
      BY <2>2
  <1>3. \A x \in S : IsFiniteSet(B(x))
    BY FS_Subset
  <1>4. Nth(S, 1) = CHOOSE x \in S : Cardinality(B(x)) = 1 - 1
    BY DEF Nth
  <1> HIDE DEF B
  <1>5. \A x \in S : Cardinality(B(x)) = 0 <=> x = r
    BY <1>1, <1>2, <1>3, FS_EmptySet
  <1>6. \A x \in S : (Cardinality(B(x)) = 1 - 1) <=> (x = r)
    BY <1>5
  <1>7. (CHOOSE x \in S : Cardinality(B(x)) = 1 - 1) = (CHOOSE x \in S : x = r)
    BY <1>6
  <1>8. QED
    BY <1>4, <1>7

LEMMA OutcomeByFirst ==
    ASSUME NEW s \in Seq(Message), NEW i, NEW r \in Answers(s, i),
           \A q \in Answers(s, i) : r <= q
    PROVE  Outcome(s, i) = IF s[r].ok THEN "completed" ELSE "broken"
  <1>1. Answers(s, i) \subseteq DOMAIN s /\ Answers(s, i) \subseteq Nat
    BY StreamIndices DEF Answers, Kind
  <1>2. IsFiniteSet(Answers(s, i))
    BY <1>1, FiniteIndices
  <1>3. Nth(Answers(s, i), 1) = r
    BY <1>1, <1>2, NthFirst
  <1>4. QED
    BY <1>3 DEF Outcome

LEMMA OutcomeStays ==
    ASSUME NEW s \in Seq(Message), NEW r \in Seq(Message), Extends(s, r),
           FirstAnswers(s), NEW i \in DOMAIN s, Answers(s, i) # {}
    PROVE  Outcome(r, i) = Outcome(s, i)
  <1>1. PICK a \in Answers(s, i) : \A q \in Answers(s, i) : a <= q
    BY DEF FirstAnswers
  <1>2. a \in Nat /\ a <= Len(s) /\ a \in Answers(r, i) /\ Len(s) \in Nat
        /\ a \in 1..Len(s)
    BY <1>1, AnswersStay, StreamIndices DEF Answers, Kind
  <1>3. \A q \in Answers(r, i) : a <= q
    BY <1>1, <1>2, AnswersStay
  <1>4. r[a] = s[a]
    BY <1>2 DEF Extends
  <1>5. QED
    BY <1>1, <1>2, <1>3, <1>4, OutcomeByFirst

LEMMA OutcomeOrActive ==
    ASSUME NEW s \in Seq(Message), NEW r \in Seq(Message), Extends(s, r),
           FirstAnswers(s), NEW i \in DOMAIN s
    PROVE  Outcome(s, i) \in {"active", Outcome(r, i)}
  <1>1. Answers(s, i) = {} => Outcome(s, i) = "active"
    BY DEF Outcome
  <1>2. QED
    BY <1>1, OutcomeStays

\* One more message.
LEMMA AppendFacts ==
    ASSUME NEW s \in Seq(Message), NEW m \in Message
    PROVE  /\ Append(s, m) \in Seq(Message)
           /\ Len(Append(s, m)) = Len(s) + 1 /\ Len(s) \in Nat
           /\ Append(s, m)[Len(s) + 1] = m
           /\ \A k \in 1..Len(s) : Append(s, m)[k] = s[k]
           /\ DOMAIN Append(s, m) = 1..(Len(s) + 1)
           /\ DOMAIN s = 1..Len(s)
           /\ Extends(s, Append(s, m))
  <1>1. /\ Append(s, m) \in Seq(Message)
        /\ Len(Append(s, m)) = Len(s) + 1 /\ Len(s) \in Nat
        /\ Append(s, m)[Len(s) + 1] = m
        /\ \A k \in 1..Len(s) : Append(s, m)[k] = s[k]
    OBVIOUS
  <1>2. Extends(s, Append(s, m))
    BY <1>1 DEF Extends
  <1>3. QED
    BY <1>1, <1>2, StreamIndices

\* Stream r is s followed by m, its n-th message.
OneMore(s, m, r, n) ==
    /\ s \in Seq(Message) /\ m \in Message /\ r \in Seq(Message)
    /\ n = Len(s) + 1 /\ n \in Nat /\ n \notin DOMAIN s
    /\ r[n] = m /\ \A k \in DOMAIN s : k \in Nat /\ k < n /\ r[k] = s[k]
    /\ DOMAIN r = DOMAIN s \cup {n}
    /\ Extends(s, r)

LEMMA OneMoreMessage ==
    ASSUME NEW s \in Seq(Message), NEW m \in Message
    PROVE  OneMore(s, m, Append(s, m), Len(s) + 1)
  <1>1. PICK r : r = Append(s, m)
    OBVIOUS
  <1>2. /\ r \in Seq(Message)
        /\ Len(s) \in Nat /\ r[Len(s) + 1] = m
        /\ \A k \in 1..Len(s) : r[k] = s[k]
        /\ DOMAIN r = 1..(Len(s) + 1)
        /\ DOMAIN s = 1..Len(s)
        /\ Extends(s, r)
    BY <1>1, AppendFacts
  <1>3. OneMore(s, m, r, Len(s) + 1)
    BY <1>2 DEF OneMore
  <1>4. QED
    BY <1>1, <1>3

LEMMA KindAppend ==
    ASSUME NEW s, NEW m, NEW r, NEW n, OneMore(s, m, r, n), NEW k
    PROVE  Kind(r, k) = IF m.kind = k THEN Kind(s, k) \cup {n} ELSE Kind(s, k)
  BY DEF OneMore, Kind

LEMMA RankAppend ==
    ASSUME NEW s, NEW m, NEW r, NEW n, OneMore(s, m, r, n)
    PROVE  /\ \A i \in Prompts(s) : i \in Prompts(r) /\ Rank(r, i) = Rank(s, i)
           /\ m.kind = "session/prompt" =>
                /\ n \in Prompts(r) /\ Rank(r, n) = Cardinality(Prompts(s)) + 1
                /\ Cardinality(Prompts(r)) = Cardinality(Prompts(s)) + 1
           /\ Prompts(r) = IF m.kind = "session/prompt"
                             THEN Prompts(s) \cup {n} ELSE Prompts(s)
  <1>1. Prompts(r) = IF m.kind = "session/prompt"
                       THEN Prompts(s) \cup {n} ELSE Prompts(s)
    BY KindAppend DEF Prompts
  <1>2. \A i \in Prompts(s) : i \in Prompts(r) /\ Rank(r, i) = Rank(s, i)
    BY RankStays DEF OneMore
  <1>3. Prompts(s) \subseteq DOMAIN s /\ IsFiniteSet(Prompts(s))
    BY KindIndices, FiniteIndices DEF Prompts, OneMore
  <1>4. n \notin Prompts(s) /\ \A j \in Prompts(s) : j < n
    BY <1>3 DEF OneMore
  <1>5. ASSUME m.kind = "session/prompt"
        PROVE  /\ n \in Prompts(r) /\ Rank(r, n) = Cardinality(Prompts(s)) + 1
               /\ Cardinality(Prompts(r)) = Cardinality(Prompts(s)) + 1
    <2>1. {j \in Prompts(r) : j < n} = Prompts(s)
      BY <1>1, <1>4, <1>5 DEF OneMore
    <2>2. QED
      BY <1>1, <1>3, <1>4, <1>5, <2>1, FS_AddElement DEF Rank
  <1>6. QED
    BY <1>1, <1>2, <1>5

LEMMA AnswersAppend ==
    ASSUME NEW s, NEW m, NEW r, NEW n, OneMore(s, m, r, n)
    PROVE  /\ \A i \in DOMAIN s : Answers(r, i) =
                IF m.kind = "response" /\ m.id = s[i].id
                  THEN Answers(s, i) \cup {n} ELSE Answers(s, i)
           /\ Answers(r, n) = {}
  <1>1. Kind(s, "response") \subseteq DOMAIN s
    BY KindIndices DEF OneMore
  <1>2. /\ \A k \in DOMAIN s : k \in Nat /\ k < n /\ r[k] = s[k] /\ ~(k > n)
        /\ r[n] = m /\ n \in Nat /\ ~(n > n)
    BY DEF OneMore
  <1>3. Kind(r, "response") = IF m.kind = "response"
           THEN Kind(s, "response") \cup {n} ELSE Kind(s, "response")
    BY KindAppend
  <1>4. Answers(r, n) = {}
    BY <1>1, <1>2, <1>3 DEF Answers
  <1>5. ASSUME NEW i \in DOMAIN s
        PROVE  Answers(r, i) =
                 IF m.kind = "response" /\ m.id = s[i].id
                   THEN Answers(s, i) \cup {n} ELSE Answers(s, i)
    <2>1. n > i /\ r[i] = s[i]
      BY <1>2
    <2>2. \A q \in Kind(s, "response") : r[q] = s[q]
      BY <1>1, <1>2
    <2>3. QED
      BY <1>2, <1>3, <2>1, <2>2 DEF Answers
  <1>6. QED
    BY <1>4, <1>5

\* The message ends the waiting of request i.
Ends(s, m, i) == m.kind = "response" /\ m.id = s[i].id

LEMMA WaitsAppend ==
    ASSUME NEW s, NEW m, NEW r, NEW n, OneMore(s, m, r, n)
    PROVE  /\ \A i \in DOMAIN s :
                Waits(r, i) <=> Waits(s, i) /\ ~Ends(s, m, i)
           /\ Waits(r, n) <=> m.kind \in Tracked
           /\ \A i : Waits(r, i) => i \in DOMAIN s \/ i = n
  BY AnswersAppend DEF OneMore, Waits, Ends

LEMMA WaitingAppend ==
    ASSUME NEW s, NEW m, NEW r, NEW n, OneMore(s, m, r, n), NEW k \in Tracked
    PROVE  /\ Waiting(r, k) =
                {i \in Waiting(s, k) : ~Ends(s, m, i)}
                  \cup (IF m.kind = k THEN {n} ELSE {})
           /\ Waiting(s, k) \subseteq DOMAIN s
  <1>1. Kind(s, k) \subseteq DOMAIN s
    BY KindIndices DEF OneMore
  <1>2. Kind(r, k) = IF m.kind = k THEN Kind(s, k) \cup {n} ELSE Kind(s, k)
    BY KindAppend
  <1>3. QED
    BY <1>1, <1>2, WaitsAppend DEF Waiting

LEMMA FirstAppend ==
    ASSUME NEW s, NEW m, NEW r, NEW n, OneMore(s, m, r, n), FirstAnswers(s)
    PROVE  FirstAnswers(r)
  <1> SUFFICES ASSUME NEW i \in DOMAIN r, Answers(r, i) # {}
               PROVE  \E a \in Answers(r, i) : \A q \in Answers(r, i) : a <= q
    BY DEF FirstAnswers
  <1>1. i \in DOMAIN s
    BY AnswersAppend DEF OneMore
  <1>2. Answers(r, i) = Answers(s, i) \/ Answers(r, i) = Answers(s, i) \cup {n}
    BY <1>1, AnswersAppend
  <1>3. CASE Answers(s, i) = {}
    BY <1>2, <1>3 DEF OneMore
  <1>4. CASE Answers(s, i) # {}
    <2>1. PICK a \in Answers(s, i) : \A q \in Answers(s, i) : a <= q
      BY <1>1, <1>4 DEF FirstAnswers
    <2>2. a \in DOMAIN s
      BY KindIndices DEF Answers, OneMore
    <2>3. a \in Nat /\ n \in Nat /\ a < n
      BY <2>2 DEF OneMore
    <2>4. a <= n
      BY <2>3
    <2>5. QED
      BY <1>2, <2>1, <2>4
  <1>5. QED
    BY <1>3, <1>4

LEMMA OutcomeAppend ==
    ASSUME NEW s, NEW m, NEW r, NEW n, OneMore(s, m, r, n), FirstAnswers(s)
    PROVE  /\ \A i \in DOMAIN s :
                Outcome(r, i) =
                  IF Answers(s, i) = {} /\ Ends(s, m, i)
                    THEN IF m.ok THEN "completed" ELSE "broken"
                    ELSE Outcome(s, i)
           /\ Outcome(r, n) = "active"
           /\ \A i \in DOMAIN s : Answers(s, i) = {} => Outcome(s, i) = "active"
  <1>1. Outcome(r, n) = "active"
    BY AnswersAppend DEF Outcome
  <1>2. \A i \in DOMAIN s : Answers(s, i) = {} => Outcome(s, i) = "active"
    BY DEF Outcome
  <1>3. ASSUME NEW i \in DOMAIN s
        PROVE  Outcome(r, i) =
                  IF Answers(s, i) = {} /\ Ends(s, m, i)
                    THEN IF m.ok THEN "completed" ELSE "broken"
                    ELSE Outcome(s, i)
    <2>1. CASE Answers(s, i) # {}
      BY <2>1, OutcomeStays DEF OneMore
    <2>2. CASE Answers(s, i) = {} /\ ~Ends(s, m, i)
      <3>1. Answers(r, i) = {}
        BY <2>2, AnswersAppend DEF Ends
      <3>2. QED
        BY <2>2, <3>1 DEF Outcome
    <2>3. CASE Answers(s, i) = {} /\ Ends(s, m, i)
      <3>1. Answers(r, i) = {n} /\ r[n] = m /\ n \in Nat /\ n <= n
        BY <2>3, AnswersAppend DEF Ends, OneMore
      <3>2. Outcome(r, i) = IF r[n].ok THEN "completed" ELSE "broken"
        BY <3>1, OutcomeByFirst DEF OneMore
      <3>3. QED
        BY <2>3, <3>1, <3>2
    <2>4. QED
      BY <2>1, <2>2, <2>3
  <1>4. QED
    BY <1>1, <1>2, <1>3

LEMMA UpdatesAppend ==
    ASSUME NEW s, NEW m, NEW r, NEW n, OneMore(s, m, r, n)
    PROVE  /\ \A i \in DOMAIN s :
                /\ Updates(r, i) =
                     IF /\ m.kind = "session/update"
                        /\ m.session = s[i].session /\ Answers(s, i) = {}
                       THEN Updates(s, i) \cup {n} ELSE Updates(s, i)
                /\ Updates(s, i) \subseteq DOMAIN s
           /\ Updates(r, n) = {}
  <1>1. /\ Kind(s, "session/update") \subseteq DOMAIN s
        /\ Kind(s, "response") \subseteq DOMAIN s
    BY KindIndices DEF OneMore
  <1>2. /\ \A k \in DOMAIN s : k \in Nat /\ k < n /\ r[k] = s[k] /\ ~(k > n)
                               /\ n > k
        /\ r[n] = m /\ n \in Nat /\ ~(n > n)
    BY DEF OneMore
  <1>3. Kind(r, "session/update") = IF m.kind = "session/update"
           THEN Kind(s, "session/update") \cup {n} ELSE Kind(s, "session/update")
    BY KindAppend
  <1>4. Updates(r, n) = {}
    BY <1>1, <1>2, <1>3 DEF Updates
  <1>5. ASSUME NEW i \in DOMAIN s
        PROVE  /\ Updates(r, i) =
                    IF /\ m.kind = "session/update"
                       /\ m.session = s[i].session /\ Answers(s, i) = {}
                      THEN Updates(s, i) \cup {n} ELSE Updates(s, i)
               /\ Updates(s, i) \subseteq DOMAIN s
    <2>1. Updates(s, i) \subseteq DOMAIN s
      BY <1>1 DEF Updates
    <2>2. \A u \in DOMAIN s :
            (\A a \in Answers(r, i) : a > u) <=> (\A a \in Answers(s, i) : a > u)
      BY <1>2, AnswersAppend
    <2>3. \A u \in DOMAIN s : u \in Updates(r, i) <=> u \in Updates(s, i)
      BY <1>1, <1>2, <1>3, <2>2 DEF Updates
    <2>4. Updates(r, i) \subseteq DOMAIN s \cup {n}
      BY <1>1, <1>3 DEF Updates
    <2>5. Answers(s, i) \subseteq DOMAIN s
      BY <1>1 DEF Answers
    <2>6. ASSUME m.kind = "session/update"
          PROVE  n \in Updates(r, i)
                   <=> m.session = s[i].session /\ Answers(s, i) = {}
      <3>1. Answers(r, i) = Answers(s, i)
        BY <2>6, AnswersAppend
      <3>2. (\A a \in Answers(r, i) : a > n) <=> Answers(s, i) = {}
        BY <1>2, <2>5, <3>1
      <3>3. QED
        BY <1>2, <1>3, <2>6, <3>2 DEF Updates
    <2>7. m.kind # "session/update" => n \notin Updates(r, i)
      BY <1>1, <1>2, <1>3 DEF Updates
    <2>8. n \notin DOMAIN s
      BY DEF OneMore
    <2>9. QED
      BY <2>1, <2>3, <2>4, <2>6, <2>7, <2>8
  <1>6. QED
    BY <1>4, <1>5

-----------------------------------------------------------------------------
(* The effect of one more message is the one more message of the replay.   *)

LEMMA PromptFacts ==
    ASSUME NEW s \in Seq(Message), NEW i \in Prompts(s)
    PROVE  /\ i \in DOMAIN s /\ (Waits(s, i) <=> Answers(s, i) = {})
           /\ (i \in Waiting(s, "session/prompt") <=> Waits(s, i))
           /\ s[i].kind = "session/prompt"
  BY DEF Prompts, Kind, Waits, Waiting, Tracked

\* The turns, when the message neither opens nor ends one
LEMMA TurnsQuiet ==
    ASSUME NEW s, NEW m, NEW r, NEW n, OneMore(s, m, r, n),
           FirstAnswers(s), NEW M, NEW N, TurnsOf(s, M),
           m.kind # "session/prompt",
           N.turnCounter = M.turnCounter, N.turns = M.turns,
           \A i \in Prompts(s) : ~(Waits(s, i) /\ Ends(s, m, i))
    PROVE  TurnsOf(r, N)
  <1>1. Prompts(r) = Prompts(s)
        /\ \A i \in Prompts(s) : Rank(r, i) = Rank(s, i)
    BY RankAppend
  <1>2. \A i \in Prompts(s) : i \in DOMAIN s /\ r[i] = s[i]
                              /\ (Waits(s, i) <=> Answers(s, i) = {})
    BY PromptFacts DEF OneMore
  <1>3. \A i \in Prompts(s) : Outcome(r, i) = Outcome(s, i)
    BY <1>2, OutcomeAppend
  <1>4. \A i \in Prompts(s) : RowOf(r, i) = RowOf(s, i)
    BY <1>2, <1>3 DEF RowOf
  <1>5. QED
    BY <1>1, <1>4 DEF TurnsOf

\* when it ends the turn of the prompt at k
LEMMA TurnsEnd ==
    ASSUME NEW s, NEW m, NEW r, NEW n, OneMore(s, m, r, n),
           FirstAnswers(s), NEW M, NEW N, TurnsOf(s, M),
           m.kind = "response", NEW k \in Prompts(s), Waits(s, k),
           N.turnCounter = M.turnCounter,
           N.turns = Closed(M.turns, Rank(s, k), m.ok),
           \A i \in Prompts(s) : Waits(s, i) /\ Ends(s, m, i) <=> i = k
    PROVE  TurnsOf(r, N)
  <1>1. Prompts(r) = Prompts(s)
        /\ \A i \in Prompts(s) : Rank(r, i) = Rank(s, i)
    BY RankAppend
  <1>2. \A i \in Prompts(s) : i \in DOMAIN s /\ r[i] = s[i]
                              /\ (Waits(s, i) <=> Answers(s, i) = {})
    BY PromptFacts DEF OneMore
  <1>3. /\ \A i \in Prompts(s) : i # k => Outcome(r, i) = Outcome(s, i)
        /\ Outcome(r, k) = IF m.ok THEN "completed" ELSE "broken"
    BY <1>2, OutcomeAppend
  <1>4. \A i \in Prompts(s) : i # k => RowOf(r, i) = RowOf(s, i)
    BY <1>2, <1>3 DEF RowOf
  <1>5. \A i \in Prompts(s) : Rank(s, i) \in 1..M.turnCounter
                              /\ (Rank(s, i) = Rank(s, k) => i = k)
    BY RankType, RankUnique DEF TurnsOf, OneMore
  <1>6. /\ DOMAIN N.turns = DOMAIN M.turns
        /\ \A i \in Prompts(s) : i # k =>
             N.turns[Rank(s, i)] = M.turns[Rank(s, i)]
        /\ N.turns[Rank(s, k)] = [M.turns[Rank(s, k)] EXCEPT !.state =
                                    IF m.ok THEN "completed" ELSE "broken"]
    BY <1>5 DEF Closed, TurnsOf
  <1>7. M.turns[Rank(s, k)] = RowOf(s, k)
    BY DEF TurnsOf
  <1>8. N.turns[Rank(s, k)] = RowOf(r, k)
    BY <1>2, <1>3, <1>6, <1>7 DEF RowOf
  <1>9. \A i \in Prompts(r) : N.turns[Rank(r, i)] = RowOf(r, i)
    BY <1>1, <1>4, <1>6, <1>8 DEF TurnsOf
  <1>10. QED
    BY <1>1, <1>6, <1>9 DEF TurnsOf

\* and when it is a prompt.
LEMMA TurnsPrompt ==
    ASSUME NEW s, NEW m, NEW r, NEW n, OneMore(s, m, r, n),
           FirstAnswers(s), NEW M, NEW N, TurnsOf(s, M),
           m.kind = "session/prompt",
           N.turnCounter = M.turnCounter + 1,
           N.turns = Opened(M.turns, M.turnCounter + 1, m)
    PROVE  TurnsOf(r, N)
  <1> DEFINE T == M.turnCounter
  <1>1. /\ Prompts(r) = Prompts(s) \cup {n}
        /\ \A i \in Prompts(s) : Rank(r, i) = Rank(s, i)
        /\ Rank(r, n) = T + 1 /\ Cardinality(Prompts(r)) = T + 1
    BY RankAppend DEF TurnsOf
  <1>2. \A i \in Prompts(s) : i \in DOMAIN s /\ r[i] = s[i] /\ ~Ends(s, m, i)
    BY PromptFacts DEF OneMore, Ends
  <1>3. \A i \in Prompts(s) : RowOf(r, i) = RowOf(s, i)
    BY <1>2, OutcomeAppend DEF RowOf
  <1>4. RowOf(r, n) = [state |-> "active", session |-> m.session,
                       request |-> m.id]
    BY OutcomeAppend DEF RowOf, OneMore
  <1>5. T \in Nat
    <2>1. Prompts(s) \subseteq DOMAIN s
      BY KindIndices DEF Prompts, OneMore
    <2>2. QED
      BY <2>1, FiniteIndices DEF OneMore, TurnsOf
  <1>6. \A i \in Prompts(s) : Rank(s, i) \in 1..T
    BY RankType DEF TurnsOf, OneMore
  <1>7. DOMAIN N.turns = 1..T \cup {T + 1}
        /\ (\A t \in 1..T : t # T + 1 => N.turns[t] = M.turns[t])
        /\ N.turns[T + 1] = RowOf(r, n)
    BY <1>4 DEF TurnsOf, Opened, Put
  <1> HIDE DEF T
  <1>8. 1..(T + 1) = 1..T \cup {T + 1} /\ \A t \in 1..T : t # T + 1
    BY <1>5
  <1>9. \A i \in Prompts(r) : N.turns[Rank(r, i)] = RowOf(r, i)
    <2>1. \A i \in Prompts(s) : N.turns[Rank(s, i)] = M.turns[Rank(s, i)]
      BY <1>6, <1>7, <1>8
    <2>2. \A i \in Prompts(s) : M.turns[Rank(s, i)] = RowOf(s, i)
      BY DEF TurnsOf
    <2>3. QED
      BY <1>1, <1>3, <1>7, <2>1, <2>2
  <1>10. \A t \in 1..(T + 1) : \E i \in Prompts(r) : Rank(r, i) = t
    <2>1. \A t \in 1..T : \E i \in Prompts(s) : Rank(s, i) = t
      BY DEF TurnsOf, T
    <2>2. QED
      BY <1>1, <1>8, <2>1
  <1>11. N.turnCounter = T + 1
    BY DEF T
  <1>12. QED
    BY <1>1, <1>7, <1>8, <1>9, <1>10, <1>11 DEF TurnsOf

-----------------------------------------------------------------------------
\* The requests, when the message is none and ends none
LEMMA RequestsQuiet ==
    ASSUME NEW s, NEW m, NEW r, NEW n, OneMore(s, m, r, n),
           NEW M, NEW N, RequestsOf(s, M), m.kind \notin Tracked,
           N.pendingNew = M.pendingNew, N.requestTurn = M.requestTurn,
           \A i \in DOMAIN s : ~(Waits(s, i) /\ Ends(s, m, i))
    PROVE  RequestsOf(r, N)
  <1>1. \A i : Waits(r, i) <=> i \in DOMAIN s /\ Waits(s, i)
    BY WaitsAppend
  <1>2. \A k \in Tracked : Waiting(r, k) = Waiting(s, k)
                           /\ Waiting(s, k) \subseteq DOMAIN s
    BY WaitingAppend DEF Waiting
  <1>3. \A i \in DOMAIN s : r[i] = s[i]
    BY DEF OneMore
  <1>4. \A i \in Waiting(s, "session/prompt") : Rank(r, i) = Rank(s, i)
    BY RankAppend DEF Waiting, Prompts
  <1>5. \A k \in Tracked : {r[i].id : i \in Waiting(r, k)}
                             = {s[i].id : i \in Waiting(s, k)}
    BY <1>2, <1>3
  <1>6. QED
    BY <1>1, <1>2, <1>3, <1>4, <1>5 DEF RequestsOf, Tracked, Waits

\* Requests that still wait in r already waited in s, under their ids.
LEMMA RequestsEnd ==
    ASSUME NEW s, NEW m, NEW r, NEW n, OneMore(s, m, r, n),
           NEW M, NEW N, RequestsOf(s, M), m.kind = "response",
           N.pendingNew = M.pendingNew \ {m.id},
           DOMAIN N.requestTurn = DOMAIN M.requestTurn \ {m.id},
           \A x \in DOMAIN N.requestTurn : N.requestTurn[x] = M.requestTurn[x]
    PROVE  RequestsOf(r, N)
  <1>1. \A i : Waits(r, i) <=> i \in DOMAIN s /\ Waits(s, i) /\ s[i].id # m.id
    BY WaitsAppend DEF Ends, Tracked
  <1>2. \A k \in Tracked :
          /\ Waiting(r, k) = {i \in Waiting(s, k) : s[i].id # m.id}
          /\ Waiting(s, k) \subseteq DOMAIN s
    BY WaitingAppend DEF Ends, Tracked
  <1>3. \A i \in DOMAIN s : r[i] = s[i]
    BY DEF OneMore
  <1>4. \A i \in Waiting(s, "session/prompt") : Rank(r, i) = Rank(s, i)
    BY RankAppend DEF Waiting, Prompts
  <1>5. \A k \in Tracked : {r[i].id : i \in Waiting(r, k)}
                             = {s[i].id : i \in Waiting(s, k)} \ {m.id}
    BY <1>2, <1>3
  <1>6. /\ DOMAIN N.requestTurn = DOMAIN M.requestTurn \ {m.id}
        /\ \A x \in DOMAIN M.requestTurn : x # m.id =>
             N.requestTurn[x] = M.requestTurn[x]
    OBVIOUS
  <1>7. \A i \in Waiting(r, "session/prompt") :
          N.requestTurn[r[i].id] = Rank(r, i)
    <2> SUFFICES ASSUME NEW i \in Waiting(r, "session/prompt")
                 PROVE  N.requestTurn[r[i].id] = Rank(r, i)
      OBVIOUS
    <2>1. i \in Waiting(s, "session/prompt") /\ s[i].id # m.id
          /\ i \in DOMAIN s
      BY <1>2 DEF Tracked
    <2>2. s[i].id \in DOMAIN M.requestTurn
          /\ M.requestTurn[s[i].id] = Rank(s, i)
      BY <2>1 DEF RequestsOf
    <2>3. QED
      BY <1>3, <1>4, <1>6, <2>1, <2>2
  <1>8. \A i, j \in DOMAIN r :
          Waits(r, i) /\ Waits(r, j) /\ r[i].id = r[j].id => i = j
    BY <1>1, <1>3 DEF RequestsOf
  <1>9. QED
    BY <1>5, <1>6, <1>7, <1>8 DEF RequestsOf, Tracked

LEMMA RequestsBegin ==
    ASSUME NEW s, NEW m, NEW r, NEW n, OneMore(s, m, r, n),
           NEW M, NEW N, RequestsOf(s, M), m.kind \in Tracked, Enters(s, m),
           N.pendingNew = IF m.kind = "session/new"
                            THEN M.pendingNew \cup {m.id} ELSE M.pendingNew,
           N.requestTurn = IF m.kind = "session/prompt"
                             THEN Put(M.requestTurn, m.id,
                                      Cardinality(Prompts(s)) + 1)
                             ELSE M.requestTurn
    PROVE  RequestsOf(r, N)
  <1>1. \A i : Waits(r, i) <=> (i \in DOMAIN s /\ Waits(s, i)) \/ i = n
    BY WaitsAppend DEF Ends, Tracked
  <1>2. \A k \in Tracked :
          /\ Waiting(r, k) = Waiting(s, k) \cup IF m.kind = k THEN {n} ELSE {}
          /\ Waiting(s, k) \subseteq DOMAIN s
          /\ \A i \in Waiting(s, k) : Waits(s, i)
    BY WaitingAppend DEF Ends, Tracked, Waiting
  <1>3. r[n] = m /\ n \notin DOMAIN s /\ \A i \in DOMAIN s : r[i] = s[i]
    BY DEF OneMore
  <1>4. \A i \in DOMAIN s : Waits(s, i) => s[i].id # m.id
    BY DEF Enters
  <1>5. /\ \A i \in Waiting(s, "session/prompt") : Rank(r, i) = Rank(s, i)
        /\ m.kind = "session/prompt" =>
             Rank(r, n) = Cardinality(Prompts(s)) + 1
    BY RankAppend DEF Waiting, Prompts
  <1>6. \A k \in Tracked : {r[i].id : i \in Waiting(r, k)}
           = {s[i].id : i \in Waiting(s, k)}
               \cup IF m.kind = k THEN {m.id} ELSE {}
    BY <1>2, <1>3
  <1>7. \A i, j \in DOMAIN r :
          Waits(r, i) /\ Waits(r, j) /\ r[i].id = r[j].id => i = j
    BY <1>1, <1>3, <1>4 DEF RequestsOf
  <1>8. CASE m.kind = "session/prompt"
    <2>1. /\ DOMAIN N.requestTurn = DOMAIN M.requestTurn \cup {m.id}
          /\ N.requestTurn[m.id] = Cardinality(Prompts(s)) + 1
          /\ \A x \in DOMAIN M.requestTurn : x # m.id =>
               N.requestTurn[x] = M.requestTurn[x]
      BY <1>8 DEF Put
    <2>2. \A i \in Waiting(r, "session/prompt") :
            N.requestTurn[r[i].id] = Rank(r, i)
      <3>1. \A i \in Waiting(s, "session/prompt") :
              N.requestTurn[s[i].id] = Rank(s, i)
        BY <1>2, <1>4, <2>1 DEF RequestsOf, Tracked
      <3>2. QED
        BY <1>2, <1>3, <1>5, <1>8, <2>1, <3>1 DEF Tracked
    <2>3. N.pendingNew = M.pendingNew
      BY <1>8
    <2>4. QED
      BY <1>6, <1>7, <1>8, <2>1, <2>2, <2>3 DEF RequestsOf, Tracked
  <1>9. CASE m.kind = "session/new"
    <2>1. N.requestTurn = M.requestTurn
          /\ N.pendingNew = M.pendingNew \cup {m.id}
      BY <1>9
    <2>2. \A i \in Waiting(r, "session/prompt") :
            N.requestTurn[r[i].id] = Rank(r, i)
      BY <1>2, <1>3, <1>5, <1>9, <2>1 DEF RequestsOf, Tracked
    <2>3. QED
      BY <1>6, <1>7, <1>9, <2>1, <2>2 DEF RequestsOf, Tracked
  <1>10. QED
    BY <1>8, <1>9 DEF Tracked

-----------------------------------------------------------------------------
(* The open turns and their chunks, when clients do not overlap prompts.   *)

LEMMA WaitingPrompts ==
    ASSUME NEW s \in Seq(Message)
    PROVE  \A i \in Waiting(s, "session/prompt") :
             i \in Prompts(s) /\ i \in DOMAIN s /\ Answers(s, i) = {}
  BY KindIndices DEF Waiting, Prompts, Waits

LEMMA SessionsQuiet ==
    ASSUME NEW s, NEW m, NEW r, NEW n, OneMore(s, m, r, n),
           NEW M, NEW N, SessionsOf(s, M),
           m.kind \notin {"session/prompt", "session/update"},
           N.activeTurn = M.activeTurn, N.chunkSeq = M.chunkSeq,
           N.turnCounter = M.turnCounter,
           \A i \in Waiting(s, "session/prompt") : ~Ends(s, m, i)
    PROVE  SessionsOf(r, N)
  <1>1. Waiting(r, "session/prompt") = Waiting(s, "session/prompt")
    BY WaitingAppend DEF Tracked
  <1>2. \A i \in Waiting(s, "session/prompt") :
          i \in DOMAIN s /\ r[i] = s[i] /\ Rank(r, i) = Rank(s, i)
    BY WaitingPrompts, RankAppend DEF OneMore
  <1>3. \A i \in Waiting(s, "session/prompt") : Updates(r, i) = Updates(s, i)
    BY <1>2, UpdatesAppend
  <1>4. {r[i].session : i \in Waiting(r, "session/prompt")}
          = {s[i].session : i \in Waiting(s, "session/prompt")}
    BY <1>1, <1>2
  <1>5. QED
    BY <1>1, <1>2, <1>3, <1>4 DEF SessionsOf

LEMMA SessionsEnd ==
    ASSUME NEW s, NEW m, NEW r, NEW n, OneMore(s, m, r, n),
           NEW M, NEW N, SessionsOf(s, M), m.kind = "response",
           NEW k \in Waiting(s, "session/prompt"),
           \A i \in Waiting(s, "session/prompt") : Ends(s, m, i) <=> i = k,
           NEW R, R = Rank(s, k),
           N.activeTurn = Without(M.activeTurn,
             {x \in DOMAIN M.activeTurn : M.activeTurn[x] = R}),
           N.chunkSeq = Without(M.chunkSeq, {R}),
           N.turnCounter = M.turnCounter
    PROVE  SessionsOf(r, N)
  <1> DEFINE W == Waiting(s, "session/prompt")
  <1>1. Waiting(r, "session/prompt") = W \ {k}
    BY WaitingAppend DEF Tracked
  <1>2. \A i \in W : i \in DOMAIN s /\ r[i] = s[i] /\ Rank(r, i) = Rank(s, i)
                     /\ (Rank(s, i) = Rank(s, k) => i = k)
    BY WaitingPrompts, RankAppend, RankUnique DEF OneMore
  <1>3. \A i \in W : Updates(r, i) = Updates(s, i)
    BY <1>2, UpdatesAppend
  <1>4. \A i \in W : /\ s[i].session \in DOMAIN M.activeTurn
                     /\ M.activeTurn[s[i].session] = Rank(s, i)
    BY DEF SessionsOf
  <1>5. \A x \in DOMAIN M.activeTurn : \E i \in W : x = s[i].session
    BY DEF SessionsOf
  <1>6. DOMAIN N.activeTurn =
          {x \in DOMAIN M.activeTurn : M.activeTurn[x] # Rank(s, k)}
        /\ \A x \in DOMAIN N.activeTurn : N.activeTurn[x] = M.activeTurn[x]
    BY DEF Without
  <1>7. /\ DOMAIN N.chunkSeq = DOMAIN M.chunkSeq \ {Rank(s, k)}
        /\ \A t : t # Rank(s, k) => Number(N.chunkSeq, t) = Number(M.chunkSeq, t)
    BY DEF Without, Number
  <1>8. {r[i].session : i \in W \ {k}} = {s[i].session : i \in W \ {k}}
    BY <1>2
  <1>9. DOMAIN N.activeTurn = {s[i].session : i \in W \ {k}}
    <2>1. \A x \in DOMAIN N.activeTurn :
            \E i \in W \ {k} : x = s[i].session
      BY <1>4, <1>5, <1>6
    <2>2. \A i \in W \ {k} : s[i].session \in DOMAIN N.activeTurn
      BY <1>2, <1>4, <1>6
    <2>3. QED
      BY <2>1, <2>2
  <1>10. \A i \in W \ {k} : N.activeTurn[r[i].session] = Rank(r, i)
    BY <1>2, <1>4, <1>6
  <1>11. \A i, j \in W \ {k} : r[i].session = r[j].session => i = j
    BY <1>2 DEF SessionsOf
  <1>12. \A i \in W \ {k} :
           Number(N.chunkSeq, Rank(r, i)) = Cardinality(Updates(r, i))
    BY <1>2, <1>3, <1>7 DEF SessionsOf
  <1>13. DOMAIN N.chunkSeq \subseteq 1..N.turnCounter
    BY <1>7 DEF SessionsOf
  <1>14. QED
    BY <1>1, <1>8, <1>9, <1>10, <1>11, <1>12, <1>13 DEF SessionsOf

LEMMA SessionsBegin ==
    ASSUME NEW s, NEW m, NEW r, NEW n, OneMore(s, m, r, n),
           NEW M, NEW N, TurnsOf(s, M), SessionsOf(s, M),
           m.kind = "session/prompt",
           \A i \in Waiting(s, "session/prompt") : s[i].session # m.session,
           N.activeTurn = Put(M.activeTurn, m.session, M.turnCounter + 1),
           N.chunkSeq = M.chunkSeq, N.turnCounter = M.turnCounter + 1
    PROVE  SessionsOf(r, N)
  <1> DEFINE W == Waiting(s, "session/prompt")
             T == M.turnCounter
  <1>1. Waiting(r, "session/prompt") = W \cup {n}
    BY WaitingAppend DEF Tracked, Ends
  <1>2. \A i \in W : i \in DOMAIN s /\ r[i] = s[i] /\ Rank(r, i) = Rank(s, i)
    BY WaitingPrompts, RankAppend DEF OneMore
  <1>3. Rank(r, n) = T + 1 /\ r[n] = m
    BY RankAppend DEF OneMore, TurnsOf
  <1>4. T \in Nat
    <2>1. Prompts(s) \subseteq DOMAIN s
      BY KindIndices DEF Prompts, OneMore
    <2>2. QED
      BY <2>1, FiniteIndices DEF OneMore, TurnsOf
  <1>5. /\ \A i \in W : Updates(r, i) = Updates(s, i)
        /\ Updates(r, n) = {}
    BY <1>2, UpdatesAppend
  <1>6. \A i \in W : s[i].session \in DOMAIN M.activeTurn
                     /\ M.activeTurn[s[i].session] = Rank(s, i)
    BY DEF SessionsOf
  <1>7. /\ DOMAIN N.activeTurn = DOMAIN M.activeTurn \cup {m.session}
        /\ N.activeTurn[m.session] = T + 1
        /\ \A x \in DOMAIN M.activeTurn : x # m.session =>
             N.activeTurn[x] = M.activeTurn[x]
    BY DEF Put
  <1>8. DOMAIN M.chunkSeq \subseteq 1..T
        /\ DOMAIN M.activeTurn = {s[i].session : i \in W}
    BY DEF SessionsOf
  <1>9. \A i \in W : Number(M.chunkSeq, Rank(s, i)) = Cardinality(Updates(s, i))
    BY DEF SessionsOf
  <1>10. \A i, j \in W : s[i].session = s[j].session => i = j
    BY DEF SessionsOf
  <1>11. N.chunkSeq = M.chunkSeq /\ N.turnCounter = T + 1
    OBVIOUS
  <1>12. \A i \in W : s[i].session # m.session
    OBVIOUS
  <1> HIDE DEF W, T
  <1>13. T + 1 \notin DOMAIN M.chunkSeq /\ DOMAIN N.chunkSeq \subseteq 1..(T + 1)
    BY <1>4, <1>8, <1>11
  <1>14. Number(N.chunkSeq, T + 1) = 0 /\ Cardinality({}) = 0
    BY <1>11, <1>13, FS_EmptySet DEF Number
  <1>15. \A i \in W \cup {n} :
           Number(N.chunkSeq, Rank(r, i)) = Cardinality(Updates(r, i))
    BY <1>2, <1>3, <1>5, <1>9, <1>11, <1>14
  <1>16. \A i \in W \cup {n} : N.activeTurn[r[i].session] = Rank(r, i)
    BY <1>2, <1>3, <1>6, <1>7, <1>12
  <1>17. \A i, j \in W \cup {n} : r[i].session = r[j].session => i = j
    BY <1>2, <1>3, <1>10, <1>12
  <1>18. DOMAIN N.activeTurn = {r[i].session : i \in W \cup {n}}
    <2>1. {r[i].session : i \in W \cup {n}}
            = {r[i].session : i \in W} \cup {m.session}
      BY <1>3
    <2>2. {r[i].session : i \in W} = {s[i].session : i \in W}
      BY <1>2
    <2>3. QED
      BY <1>7, <1>8, <2>1, <2>2
  <1>19. QED
    BY <1>1, <1>11, <1>13, <1>15, <1>16, <1>17, <1>18 DEF SessionsOf

LEMMA SessionsUpdate ==
    ASSUME NEW s, NEW m, NEW r, NEW n, OneMore(s, m, r, n),
           NEW M, NEW N, TurnsOf(s, M), SessionsOf(s, M),
           m.kind = "session/update",
           NEW k \in Waiting(s, "session/prompt"), s[k].session = m.session,
           N.activeTurn = M.activeTurn,
           N.chunkSeq = Put(M.chunkSeq, Rank(s, k),
                            Number(M.chunkSeq, Rank(s, k)) + 1),
           N.turnCounter = M.turnCounter
    PROVE  SessionsOf(r, N)
  <1> DEFINE W == Waiting(s, "session/prompt")
             R == Rank(s, k)
  <1>1. Waiting(r, "session/prompt") = W
    <2>1. \A i : ~Ends(s, m, i)
      BY DEF Ends
    <2>2. QED
      BY <2>1, WaitingAppend DEF Tracked
  <1>2. \A i \in W : /\ i \in DOMAIN s /\ r[i] = s[i] /\ Rank(r, i) = Rank(s, i)
                     /\ Answers(s, i) = {} /\ (Rank(s, i) = R => i = k)
                     /\ Rank(s, i) \in 1..M.turnCounter
    <2>1. s \in Seq(Message) /\ \A i \in DOMAIN s : r[i] = s[i]
      BY DEF OneMore
    <2>2. \A i \in W : i \in Prompts(s) /\ i \in DOMAIN s /\ Answers(s, i) = {}
      BY <2>1, WaitingPrompts
    <2>3. \A i \in Prompts(s) : Rank(s, i) = R => i = k
      BY <2>1, <2>2, RankUnique
    <2>4. \A i \in Prompts(s) : Rank(s, i) \in 1..M.turnCounter
      BY <2>1, RankType DEF TurnsOf
    <2>5. \A i \in Prompts(s) : Rank(r, i) = Rank(s, i)
      BY RankAppend
    <2>6. QED
      BY <2>1, <2>2, <2>3, <2>4, <2>5
  <1>3. \A i \in W : s[i].session = m.session => i = k
    BY DEF SessionsOf
  <1>4. /\ \A i \in W : i # k => Updates(r, i) = Updates(s, i)
        /\ Updates(r, k) = Updates(s, k) \cup {n}
        /\ Updates(s, k) \subseteq DOMAIN s
    BY <1>2, <1>3, UpdatesAppend
  <1>5. Cardinality(Updates(r, k)) = Cardinality(Updates(s, k)) + 1
    <2>1. IsFiniteSet(Updates(s, k)) /\ n \notin Updates(s, k)
      BY <1>4, FiniteIndices DEF OneMore
    <2>2. QED
      BY <1>4, <2>1, FS_AddElement
  <1>6. \A i \in W : Number(M.chunkSeq, Rank(s, i)) = Cardinality(Updates(s, i))
    BY DEF SessionsOf
  <1>7. /\ Number(N.chunkSeq, R) = Number(M.chunkSeq, R) + 1
        /\ \A t : t # R => Number(N.chunkSeq, t) = Number(M.chunkSeq, t)
        /\ DOMAIN N.chunkSeq = DOMAIN M.chunkSeq \cup {R}
    BY DEF Put, Number
  <1>8. \A i \in W :
          Number(N.chunkSeq, Rank(r, i)) = Cardinality(Updates(r, i))
    <2>1. \A i \in W : i # k => Rank(s, i) # R
      BY <1>2
    <2>2. Number(N.chunkSeq, R) = Cardinality(Updates(r, k))
      BY <1>5, <1>6, <1>7
    <2>3. \A i \in W : i # k =>
            Number(N.chunkSeq, Rank(s, i)) = Cardinality(Updates(r, i))
      BY <1>4, <1>6, <1>7, <2>1
    <2>4. QED
      BY <1>2, <2>2, <2>3
  <1>9. DOMAIN N.chunkSeq \subseteq 1..N.turnCounter
    BY <1>2, <1>7 DEF SessionsOf
  <1>10. {r[i].session : i \in W} = {s[i].session : i \in W}
    BY <1>2
  <1>11. QED
    BY <1>1, <1>2, <1>8, <1>9, <1>10 DEF SessionsOf

LEMMA SessionsUnrouted ==
    ASSUME NEW s, NEW m, NEW r, NEW n, OneMore(s, m, r, n),
           NEW M, SessionsOf(s, M), m.kind = "session/update",
           \A i \in Waiting(s, "session/prompt") : s[i].session # m.session
    PROVE  SessionsOf(r, M)
  <1>1. Waiting(r, "session/prompt") = Waiting(s, "session/prompt")
    BY WaitingAppend DEF Tracked, Ends
  <1>2. \A i \in Waiting(s, "session/prompt") :
          i \in DOMAIN s /\ r[i] = s[i] /\ Rank(r, i) = Rank(s, i)
    BY WaitingPrompts, RankAppend DEF OneMore
  <1>3. \A i \in Waiting(s, "session/prompt") : Updates(r, i) = Updates(s, i)
    BY <1>2, UpdatesAppend
  <1>4. {r[i].session : i \in Waiting(r, "session/prompt")}
          = {s[i].session : i \in Waiting(s, "session/prompt")}
    BY <1>1, <1>2
  <1>5. QED
    BY <1>1, <1>2, <1>3, <1>4 DEF SessionsOf

\* The chunks of a stream, by the prompts they belong to
LEMMA ReplayedChunk ==
    ASSUME NEW s \in Seq(Message), NEW M, TurnsOf(s, M), NEW e
    PROVE  e \in ReplayedChunks(s) <=>
             \E i \in Prompts(s) :
               \E x \in 0..(Cardinality(Updates(s, i)) - 1) :
                 e = Chunk(Rank(s, i), x)
  <1> DEFINE T == Cardinality(Prompts(s))
             C(t) == [turn: {t}, seq: 0..(Cardinality(UpdatesOf(s, t)) - 1)]
             U(i) == 0..(Cardinality(Updates(s, i)) - 1)
  <1>1. DOMAIN ReplayedTurns(s) = 1..T
    BY DEF ReplayedTurns, Prompts
  <1>2. e \in ReplayedChunks(s) <=> \E t \in 1..T : e \in C(t)
    BY <1>1 DEF ReplayedChunks
  <1>3. \A i \in Prompts(s) : UpdatesOf(s, Rank(s, i)) = Updates(s, i)
    BY PromptOfRank DEF UpdatesOf, Updates
  <1>4. \A i \in Prompts(s) : Rank(s, i) \in 1..T
    BY RankType
  <1>5. \A t \in 1..T : \E i \in Prompts(s) : Rank(s, i) = t
    BY DEF TurnsOf
  <1>6. (\E t \in 1..T : e \in C(t)) <=> \E i \in Prompts(s) : e \in C(Rank(s, i))
    BY <1>4, <1>5
  <1>7. \A i \in Prompts(s) :
          e \in C(Rank(s, i)) <=> \E x \in U(i) : e = Chunk(Rank(s, i), x)
    <2> TAKE i \in Prompts(s)
    <2>1. C(Rank(s, i)) = [turn: {Rank(s, i)}, seq: U(i)]
      BY <1>3
    <2> HIDE DEF U, C
    <2>2. QED
      BY <2>1 DEF Chunk
  <1>8. QED
    BY <1>2, <1>6, <1>7

LEMMA ChunksQuiet ==
    ASSUME NEW s, NEW m, NEW r, NEW n, OneMore(s, m, r, n),
           NEW M, NEW N, TurnsOf(s, M), TurnsOf(r, N), ChunksOf(s, M),
           N.chunks = M.chunks,
           m.kind = "session/update" =>
             \A i \in Waiting(s, "session/prompt") : s[i].session # m.session
    PROVE  ChunksOf(r, N)
  <1>1. s \in Seq(Message) /\ r \in Seq(Message)
    BY DEF OneMore
  <1>2. /\ \A i \in Prompts(s) : i \in Prompts(r) /\ Rank(r, i) = Rank(s, i)
        /\ Prompts(r) = IF m.kind = "session/prompt"
                          THEN Prompts(s) \cup {n} ELSE Prompts(s)
    BY RankAppend
  <1>3. \A i \in Prompts(s) : /\ i \in DOMAIN s
                              /\ Answers(s, i) = {} =>
                                   i \in Waiting(s, "session/prompt")
    BY <1>1, PromptFacts
  <1>4. \A i \in Prompts(s) : Updates(r, i) = Updates(s, i)
    BY <1>3, UpdatesAppend
  <1>5. 0..(Cardinality(Updates(r, n)) - 1) = {}
    BY UpdatesAppend, FS_EmptySet
  <1>6. \A e : e \in ReplayedChunks(r) <=> e \in ReplayedChunks(s)
    <2> TAKE e
    <2>1. e \in ReplayedChunks(s) <=>
             \E i \in Prompts(s) :
               \E x \in 0..(Cardinality(Updates(s, i)) - 1) :
                 e = Chunk(Rank(s, i), x)
      BY <1>1, ReplayedChunk
    <2>2. e \in ReplayedChunks(r) <=>
             \E i \in Prompts(r) :
               \E x \in 0..(Cardinality(Updates(r, i)) - 1) :
                 e = Chunk(Rank(r, i), x)
      BY <1>1, ReplayedChunk
    <2>3. QED
      BY <1>2, <1>4, <1>5, <2>1, <2>2
  <1>7. ReplayedChunks(r) = ReplayedChunks(s)
    <2>1. ReplayedChunks(r) \subseteq ReplayedChunks(s)
      BY <1>6
    <2>2. ReplayedChunks(s) \subseteq ReplayedChunks(r)
      BY <1>6
    <2>3. QED
      BY <2>1, <2>2
  <1>8. QED
    BY <1>7 DEF ChunksOf

LEMMA AppendChunk ==
    ASSUME NEW cs \in Seq(ChunkRow), NEW e \in ChunkRow
    PROVE  /\ Append(cs, e) \in Seq(ChunkRow)
           /\ Len(Append(cs, e)) = Len(cs) + 1
           /\ Image(Append(cs, e)) = Image(cs) \cup {e}
  <1>1. PICK ds : ds = Append(cs, e)
    OBVIOUS
  <1>2. /\ ds \in Seq(ChunkRow) /\ Len(ds) = Len(cs) + 1 /\ Len(cs) \in Nat
        /\ DOMAIN cs = 1..Len(cs) /\ DOMAIN ds = 1..(Len(cs) + 1)
        /\ ds[Len(cs) + 1] = e /\ \A k \in 1..Len(cs) : ds[k] = cs[k]
    BY <1>1
  <1>3. 1..(Len(cs) + 1) = 1..Len(cs) \cup {Len(cs) + 1}
    BY <1>2
  <1>4. Image(ds) = Image(cs) \cup {e}
    BY <1>2, <1>3 DEF Image
  <1>5. QED
    BY <1>1, <1>2, <1>4

LEMMA ChunksUpdate ==
    ASSUME NEW s, NEW m, NEW r, NEW n, OneMore(s, m, r, n),
           NEW M, NEW N, TurnsOf(s, M), TurnsOf(r, N), SessionsOf(s, M),
           ChunksOf(s, M), m.kind = "session/update",
           NEW k \in Waiting(s, "session/prompt"), s[k].session = m.session,
           N.chunks = Append(M.chunks, Chunk(Rank(s, k),
                               Number(M.chunkSeq, Rank(s, k))))
    PROVE  ChunksOf(r, N)
  <1> DEFINE R == Rank(s, k)
             c == Cardinality(Updates(s, k))
  <1>1. s \in Seq(Message) /\ r \in Seq(Message) /\ n \notin DOMAIN s
    BY DEF OneMore
  <1>2. /\ \A i \in Prompts(s) : Rank(r, i) = Rank(s, i)
        /\ Prompts(r) = Prompts(s)
    BY RankAppend
  <1>3. \A i \in Prompts(s) : /\ i \in DOMAIN s
                              /\ Answers(s, i) = {} =>
                                   i \in Waiting(s, "session/prompt")
    BY <1>1, PromptFacts
  <1>4. k \in Prompts(s) /\ Answers(s, k) = {}
    BY <1>1, WaitingPrompts
  <1>5. \A i \in Waiting(s, "session/prompt") :
          s[i].session = m.session => i = k
    BY DEF SessionsOf
  <1>6. /\ \A i \in Prompts(s) : i # k => Updates(r, i) = Updates(s, i)
        /\ Updates(r, k) = Updates(s, k) \cup {n}
        /\ Updates(s, k) \subseteq DOMAIN s
    BY <1>3, <1>4, <1>5, UpdatesAppend
  <1>7. Cardinality(Updates(r, k)) = c + 1 /\ c \in Nat
    <2>1. IsFiniteSet(Updates(s, k)) /\ n \notin Updates(s, k) /\ c \in Nat
      BY <1>1, <1>6, FiniteIndices
    <2>2. QED
      BY <1>6, <2>1, FS_AddElement
  <1>8. Number(M.chunkSeq, R) = c
    BY DEF SessionsOf
  <1> HIDE DEF c
  <1>9. 0..(c + 1 - 1) = 0..(c - 1) \cup {c} /\ c \notin 0..(c - 1)
    BY <1>7
  <1>10. \A i \in Prompts(s) : Rank(s, i) = R => i = k
    BY <1>1, <1>4, RankUnique
  <1>11. \A e : /\ e \in ReplayedChunks(r)
                     <=> e \in ReplayedChunks(s) \/ e = Chunk(R, c)
                /\ e = Chunk(R, c) => e \notin ReplayedChunks(s)
    <2> TAKE e
    <2>1. e \in ReplayedChunks(s) <=>
             \E i \in Prompts(s) :
               \E x \in 0..(Cardinality(Updates(s, i)) - 1) :
                 e = Chunk(Rank(s, i), x)
      BY <1>1, ReplayedChunk
    <2>2. e \in ReplayedChunks(r) <=>
             \E i \in Prompts(s) :
               \E x \in 0..(Cardinality(Updates(r, i)) - 1) :
                 e = Chunk(Rank(s, i), x)
      BY <1>1, <1>2, ReplayedChunk
    <2>3. (\E x \in 0..(Cardinality(Updates(r, k)) - 1) : e = Chunk(R, x))
            <=> \/ \E x \in 0..(Cardinality(Updates(s, k)) - 1) : e = Chunk(R, x)
                \/ e = Chunk(R, c)
      BY <1>7, <1>9 DEF c
    <2>4. e \in ReplayedChunks(r) <=> e \in ReplayedChunks(s) \/ e = Chunk(R, c)
      BY <1>4, <1>6, <2>1, <2>2, <2>3
    <2>5. \A t, x : Chunk(t, x) = Chunk(R, c) => t = R /\ x = c
      BY DEF Chunk
    <2>6. e = Chunk(R, c) => e \notin ReplayedChunks(s)
      BY <1>9, <1>10, <2>1, <2>5 DEF c
    <2>7. QED
      BY <2>4, <2>6
  <1>12. R \in Turn
    BY <1>1, <1>4, RankType DEF Turn
  <1>13. Chunk(R, c) \in ChunkRow
    BY <1>7, <1>12 DEF Chunk, ChunkRow
  <1>14. N.chunks = Append(M.chunks, Chunk(R, c))
    BY <1>8
  <1> HIDE DEF R
  <1>15. ReplayedChunks(r) = ReplayedChunks(s) \cup {Chunk(R, c)}
         /\ Chunk(R, c) \notin ReplayedChunks(s)
    BY <1>11
  <1>16. /\ IsFiniteSet(ReplayedChunks(r))
         /\ Cardinality(ReplayedChunks(r)) = Cardinality(ReplayedChunks(s)) + 1
    BY <1>15, FS_AddElement DEF ChunksOf
  <1>17. QED
    BY <1>13, <1>14, <1>15, <1>16, AppendChunk DEF ChunksOf

\* A message enters the model as it enters the replay.
LEMMA ReplayStep ==
    ASSUME NEW s, NEW m, NEW r, NEW n, OneMore(s, m, r, n), Enters(s, m),
           NEW M, ReplayOf(s, M)
    PROVE  ReplayOf(r, Effect(m, M))
  <1>0. /\ FirstAnswers(s) /\ TurnsOf(s, M) /\ RequestsOf(s, M)
        /\ Serialized => SessionsOf(s, M) /\ ChunksOf(s, M)
        /\ FirstAnswers(r) /\ s \in Seq(Message)
    BY FirstAppend DEF ReplayOf, OneMore
  <1>1. PICK N : N = Effect(m, M)
    OBVIOUS
  <1> SUFFICES ReplayOf(r, N)
    BY <1>1
  <1>2. \A i \in DOMAIN s : Waits(s, i) => s[i].kind \in Tracked
                            /\ i \in Waiting(s, s[i].kind)
    BY DEF Waits, Waiting, Kind
  <1>3. \A i \in Prompts(s) : /\ i \in DOMAIN s
                              /\ i \in Waiting(s, "session/prompt") <=> Waits(s, i)
    BY <1>0, PromptFacts
  <1>4. \A i \in Waiting(s, "session/prompt") : i \in Prompts(s) /\ Waits(s, i)
                                                /\ i \in DOMAIN s
    BY DEF Waiting, Prompts, Waits
  <1>5. CASE m.kind = "session/prompt"
    <2>1. /\ N.turnCounter = M.turnCounter + 1
          /\ N.pendingNew = M.pendingNew
          /\ N.requestTurn = Put(M.requestTurn, m.id, M.turnCounter + 1)
          /\ N.activeTurn = Put(M.activeTurn, m.session, M.turnCounter + 1)
          /\ N.chunkSeq = M.chunkSeq /\ N.chunks = M.chunks
          /\ N.turns = Opened(M.turns, M.turnCounter + 1, m)
      BY <1>1, <1>5 DEF Effect, PromptEffect, ModelOf
    <2>2. TurnsOf(r, N)
      BY <1>0, <1>5, <2>1, TurnsPrompt
    <2>3. M.turnCounter = Cardinality(Prompts(s))
      BY <1>0 DEF TurnsOf
    <2>4. RequestsOf(r, N)
      BY <1>0, <1>5, <2>1, <2>3, RequestsBegin DEF Tracked
    <2>5. ASSUME Serialized PROVE SessionsOf(r, N)
      <3>1. \A i \in Waiting(s, "session/prompt") : s[i].session # m.session
        BY <1>4, <1>5, <2>5 DEF Enters, Tracked, Prompts, Kind
      <3>2. QED
        BY <1>0, <1>5, <2>1, <2>5, <3>1, SessionsBegin
    <2>6. ASSUME Serialized PROVE ChunksOf(r, N)
      BY <1>0, <1>5, <2>1, <2>2, <2>6, ChunksQuiet
    <2>7. QED
      BY <1>0, <2>2, <2>4, <2>5, <2>6 DEF ReplayOf
  <1>6. ASSUME m.kind # "session/prompt", m.kind # "session/update",
               N.turnCounter = M.turnCounter, N.activeTurn = M.activeTurn,
               N.chunkSeq = M.chunkSeq, N.chunks = M.chunks,
               N.turns = M.turns, RequestsOf(r, N),
               \A i \in Prompts(s) : ~(Waits(s, i) /\ Ends(s, m, i))
        PROVE  ReplayOf(r, N)
    <2>1. TurnsOf(r, N)
      BY <1>0, <1>6, TurnsQuiet
    <2>2. \A i \in Waiting(s, "session/prompt") : ~Ends(s, m, i)
      BY <1>4, <1>6
    <2>3. ASSUME Serialized PROVE SessionsOf(r, N)
      BY <1>0, <1>6, <2>2, <2>3, SessionsQuiet
    <2>4. ASSUME Serialized PROVE ChunksOf(r, N)
      BY <1>0, <1>6, <2>1, <2>4, ChunksQuiet
    <2>5. QED
      BY <1>0, <1>6, <2>1, <2>3, <2>4 DEF ReplayOf
  <1>7. CASE m.kind = "session/new"
    <2>1. N = PendingEffect(M.pendingNew \cup {m.id}, M)
      BY <1>1, <1>7 DEF Effect
    <2>2. /\ N.pendingNew = M.pendingNew \cup {m.id}
          /\ N.requestTurn = M.requestTurn
          /\ N.turnCounter = M.turnCounter /\ N.activeTurn = M.activeTurn
          /\ N.chunkSeq = M.chunkSeq /\ N.chunks = M.chunks
          /\ N.turns = M.turns
      BY <2>1 DEF PendingEffect, ModelOf
    <2>3. RequestsOf(r, N)
      BY <1>0, <1>7, <2>2, RequestsBegin DEF Tracked
    <2>4. QED
      BY <1>6, <1>7, <2>2, <2>3 DEF Ends
  <1>8. CASE m.kind = "response" /\ m.id \in M.pendingNew
    <2>1. N = PendingEffect(M.pendingNew \ {m.id}, M)
      BY <1>1, <1>8 DEF Effect
    <2>2. /\ N.pendingNew = M.pendingNew \ {m.id}
          /\ N.requestTurn = M.requestTurn
          /\ N.turnCounter = M.turnCounter /\ N.activeTurn = M.activeTurn
          /\ N.chunkSeq = M.chunkSeq /\ N.chunks = M.chunks
          /\ N.turns = M.turns
      BY <2>1 DEF PendingEffect, ModelOf
    <2>3. PICK k \in Waiting(s, "session/new") : m.id = s[k].id
      BY <1>0, <1>8 DEF RequestsOf
    <2>4. k \in DOMAIN s /\ Waits(s, k) /\ s[k].kind = "session/new"
      BY DEF Waiting, Kind, Waits
    <2>5. \A i \in Prompts(s) : ~(Waits(s, i) /\ Ends(s, m, i))
      BY <1>0, <1>3, <2>3, <2>4 DEF RequestsOf, Ends, Prompts, Kind
    <2>6. m.id \notin DOMAIN M.requestTurn
      BY <1>0, <1>4, <1>8, <2>5 DEF RequestsOf, Ends
    <2>7. DOMAIN N.requestTurn = DOMAIN M.requestTurn \ {m.id}
      BY <2>2, <2>6
    <2>8. RequestsOf(r, N)
      BY <1>0, <1>8, <2>2, <2>7, RequestsEnd
    <2>9. QED
      BY <1>6, <1>8, <2>2, <2>5, <2>8
  <1>9. CASE /\ m.kind = "response" /\ m.id \notin M.pendingNew
             /\ m.id \in DOMAIN M.requestTurn
    <2>1. PICK k \in Waiting(s, "session/prompt") : m.id = s[k].id
      BY <1>0, <1>9 DEF RequestsOf
    <2>2. M.requestTurn[m.id] = Rank(s, k)
      BY <1>0, <2>1 DEF RequestsOf
    <2>3. N = EndEffect(m, M)
      BY <1>1, <1>9 DEF Effect
    <2>4. /\ N.pendingNew = M.pendingNew
          /\ N.requestTurn = Without(M.requestTurn, {m.id})
          /\ N.turnCounter = M.turnCounter
          /\ N.activeTurn = Without(M.activeTurn,
               {x \in DOMAIN M.activeTurn : M.activeTurn[x] = Rank(s, k)})
          /\ N.chunkSeq = Without(M.chunkSeq, {Rank(s, k)})
          /\ N.turns = Closed(M.turns, Rank(s, k), m.ok)
          /\ N.chunks = M.chunks
      BY <2>2, <2>3 DEF EndEffect, ModelOf
    <2>5. k \in Prompts(s) /\ Waits(s, k) /\ k \in DOMAIN s
      BY <1>4
    <2>6. \A i \in Prompts(s) : Waits(s, i) /\ Ends(s, m, i) <=> i = k
      BY <1>0, <1>3, <1>9, <2>1, <2>5 DEF RequestsOf, Ends
    <2>7. TurnsOf(r, N)
      BY <1>0, <1>9, <2>4, <2>5, <2>6, TurnsEnd
    <2>8. N.pendingNew = M.pendingNew \ {m.id}
      BY <1>9, <2>4
    <2>9. RequestsOf(r, N)
      <3>1. /\ DOMAIN N.requestTurn = DOMAIN M.requestTurn \ {m.id}
            /\ \A x \in DOMAIN N.requestTurn :
                 N.requestTurn[x] = M.requestTurn[x]
        BY <2>4 DEF Without
      <3>2. QED
        BY <1>0, <1>9, <2>8, <3>1, RequestsEnd
    <2>10. \A i \in Waiting(s, "session/prompt") : Ends(s, m, i) <=> i = k
      BY <1>4, <2>6
    <2>11. ASSUME Serialized PROVE SessionsOf(r, N)
      <3>1. PICK R : R = Rank(s, k)
        OBVIOUS
      <3>2. /\ N.activeTurn = Without(M.activeTurn,
                 {x \in DOMAIN M.activeTurn : M.activeTurn[x] = R})
            /\ N.chunkSeq = Without(M.chunkSeq, {R})
        BY <2>4, <3>1
      <3>3. SessionsOf(s, M)
        BY <1>0, <2>11
      <3>4. QED
        BY <1>9, <2>4, <2>10, <3>1, <3>2, <3>3, SessionsEnd
    <2>12. ASSUME Serialized PROVE ChunksOf(r, N)
      BY <1>0, <1>9, <2>4, <2>7, <2>12, ChunksQuiet
    <2>13. QED
      BY <1>0, <2>7, <2>9, <2>11, <2>12 DEF ReplayOf
  <1>10. CASE /\ m.kind = "response" /\ m.id \notin M.pendingNew
              /\ m.id \notin DOMAIN M.requestTurn
    <2>1. N = M
      BY <1>1, <1>10 DEF Effect
    <2>2. \A i \in DOMAIN s : ~(Waits(s, i) /\ Ends(s, m, i))
      BY <1>0, <1>2, <1>10 DEF RequestsOf, Ends, Tracked
    <2>3. RequestsOf(r, N)
      BY <1>0, <1>10, <2>1, <2>2, RequestsQuiet DEF Tracked
    <2>4. QED
      BY <1>3, <1>6, <1>10, <2>1, <2>2, <2>3
  <1>11. ASSUME m.kind = "session/update",
                N.pendingNew = M.pendingNew, N.requestTurn = M.requestTurn,
                N.turnCounter = M.turnCounter, N.turns = M.turns
         PROVE  TurnsOf(r, N) /\ RequestsOf(r, N)
    <2>1. \A i : ~(Waits(s, i) /\ Ends(s, m, i))
      BY <1>11 DEF Ends
    <2>2. QED
      BY <1>0, <1>11, <2>1, TurnsQuiet, RequestsQuiet DEF Tracked
  <1>12. CASE m.kind = "session/update" /\ m.session \in DOMAIN M.activeTurn
    <2>1. N = UpdateEffect(M.activeTurn[m.session], M)
      BY <1>1, <1>12 DEF Effect
    <2>2. PICK t : t = M.activeTurn[m.session]
      OBVIOUS
    <2>3. /\ N.pendingNew = M.pendingNew /\ N.requestTurn = M.requestTurn
          /\ N.turnCounter = M.turnCounter /\ N.turns = M.turns
          /\ N.activeTurn = M.activeTurn
          /\ N.chunkSeq = Put(M.chunkSeq, t, Number(M.chunkSeq, t) + 1)
          /\ N.chunks = Append(M.chunks, Chunk(t, Number(M.chunkSeq, t)))
      BY <2>1, <2>2 DEF UpdateEffect, ModelOf
    <2>4. TurnsOf(r, N) /\ RequestsOf(r, N)
      BY <1>11, <1>12, <2>3
    <2>5. ASSUME Serialized PROVE SessionsOf(r, N) /\ ChunksOf(r, N)
      <3>1. PICK k \in Waiting(s, "session/prompt") : s[k].session = m.session
        BY <1>0, <1>12, <2>5 DEF SessionsOf
      <3>2. t = Rank(s, k)
        BY <1>0, <2>2, <2>5, <3>1 DEF SessionsOf
      <3>3. SessionsOf(r, N)
        BY <1>0, <1>12, <2>3, <2>5, <3>1, <3>2, SessionsUpdate
      <3>4. ChunksOf(r, N)
        BY <1>0, <1>12, <2>3, <2>4, <2>5, <3>1, <3>2, ChunksUpdate
      <3>5. QED
        BY <3>3, <3>4
    <2>6. QED
      BY <1>0, <2>4, <2>5 DEF ReplayOf
  <1>13. CASE m.kind = "session/update" /\ m.session \notin DOMAIN M.activeTurn
    <2>1. N = M
      BY <1>1, <1>13 DEF Effect
    <2>2. TurnsOf(r, N) /\ RequestsOf(r, N)
      BY <1>11, <1>13, <2>1
    <2>3. ASSUME Serialized PROVE SessionsOf(r, N) /\ ChunksOf(r, N)
      <3>1. \A i \in Waiting(s, "session/prompt") : s[i].session # m.session
        BY <1>0, <1>13, <2>3 DEF SessionsOf
      <3>2. SessionsOf(r, M)
        BY <1>0, <1>13, <2>3, <3>1, SessionsUnrouted
      <3>3. ChunksOf(r, N)
        BY <1>0, <2>1, <2>2, <2>3, <3>1, ChunksQuiet
      <3>4. QED
        BY <2>1, <3>2, <3>3
    <2>4. QED
      BY <1>0, <2>2, <2>3 DEF ReplayOf
  <1>14. CASE m.kind \notin {"session/new", "session/prompt", "response",
                             "session/update"}
    <2>1. N = M
      BY <1>1, <1>14 DEF Effect
    <2>2. \A i : ~(Waits(s, i) /\ Ends(s, m, i))
      BY <1>14 DEF Ends
    <2>3. RequestsOf(r, N)
      BY <1>0, <1>14, <2>1, <2>2, RequestsQuiet DEF Tracked
    <2>4. QED
      BY <1>6, <1>14, <2>1, <2>2, <2>3
  <1>15. QED
    BY <1>5, <1>7, <1>8, <1>9, <1>10, <1>12, <1>13, <1>14

-----------------------------------------------------------------------------
(* The stream holds what the read model can tell apart.                    *)

LEMMA PrefixGrows ==
    ASSUME NEW s \in Seq(Message), NEW k \in Nat, k < Len(s)
    PROVE  OneMore(SubSeq(s, 1, k), s[k + 1], SubSeq(s, 1, k + 1), k + 1)
  <1>1. Len(s) \in Nat /\ DOMAIN s = 1..Len(s)
    OBVIOUS
  <1>2. PICK a : a = SubSeq(s, 1, k)
    OBVIOUS
  <1>3. PICK b : b = SubSeq(s, 1, k + 1)
    OBVIOUS
  <1>4. a \in Seq(Message) /\ Len(a) = k /\ \A j \in 1..k : a[j] = s[j]
    BY <1>1, <1>2
  <1>5. b \in Seq(Message) /\ Len(b) = k + 1
        /\ \A j \in 1..(k + 1) : b[j] = s[j]
    BY <1>1, <1>3
  <1>6. DOMAIN a = 1..k /\ DOMAIN b = 1..(k + 1)
    BY <1>4, <1>5
  <1>7. s[k + 1] \in Message /\ b[k + 1] = s[k + 1]
    BY <1>1, <1>5
  <1>8. DOMAIN b = DOMAIN a \cup {k + 1} /\ k + 1 \notin DOMAIN a
    BY <1>6
  <1>9. \A j \in DOMAIN a : j \in Nat /\ j < k + 1 /\ b[j] = a[j]
    BY <1>4, <1>5, <1>6
  <1>10. Extends(a, b)
    BY <1>4, <1>5, <1>6, <1>9 DEF Extends
  <1>11. OneMore(a, s[k + 1], b, k + 1)
    BY <1>4, <1>5, <1>7, <1>8, <1>9, <1>10 DEF OneMore
  <1>12. QED
    BY <1>2, <1>3, <1>11

\* All prefixes of the stream, when it grows by a message that may enter
LEMMA EntersAppend ==
    ASSUME NEW s \in Seq(Message), NEW m \in Message, Enters(s, m),
           \A n \in DOMAIN s : Enters(SubSeq(s, 1, n - 1), s[n])
    PROVE  \A n \in DOMAIN Append(s, m) :
             Enters(SubSeq(Append(s, m), 1, n - 1), Append(s, m)[n])
  <1>1. PICK r : r = Append(s, m)
    OBVIOUS
  <1>2. /\ Len(s) \in Nat /\ DOMAIN s = 1..Len(s)
        /\ DOMAIN r = 1..(Len(s) + 1) /\ r[Len(s) + 1] = m
        /\ \A k \in 1..Len(s) : r[k] = s[k]
        /\ r \in Seq(Message) /\ Len(r) = Len(s) + 1
    BY <1>1, AppendFacts
  <1>3. ASSUME NEW n \in 1..(Len(s) + 1)
        PROVE  SubSeq(r, 1, n - 1) = SubSeq(s, 1, n - 1)
    <2>1. \A j \in 1..(n - 1) : r[j] = s[j]
      BY <1>2
    <2>2. QED
      BY <1>2, <2>1
  <1>4. SubSeq(s, 1, Len(s)) = s
    BY <1>2
  <1>5. Enters(SubSeq(r, 1, Len(s)), r[Len(s) + 1])
    <2>1. SubSeq(r, 1, (Len(s) + 1) - 1) = SubSeq(s, 1, (Len(s) + 1) - 1)
      BY <1>2, <1>3
    <2>2. (Len(s) + 1) - 1 = Len(s)
      BY <1>2
    <2>3. QED
      BY <1>2, <1>4, <2>1, <2>2
  <1>6. \A n \in DOMAIN r : Enters(SubSeq(r, 1, n - 1), r[n])
    <2> SUFFICES ASSUME NEW n \in DOMAIN r
                 PROVE  Enters(SubSeq(r, 1, n - 1), r[n])
      OBVIOUS
    <2>1. CASE n = Len(s) + 1
      BY <1>2, <1>5, <2>1
    <2>2. CASE n \in 1..Len(s)
      BY <1>2, <1>3, <2>2
    <2>3. QED
      BY <1>2, <2>1, <2>2
  <1>7. QED
    BY <1>1, <1>6

\* A step that leaves the stream, the wire and the tracers alone
LEMMA StreamFrame ==
    ASSUME StreamInv, log' = log, UNCHANGED wire,
           \A v \in Tracer : task'[v] = task[v]
    PROVE  StreamInv'
  <1>1. outstanding' = outstanding /\ established' = established
    BY DEF wire
  <1>2. \A v \in Task : Wired(v)'
    BY <1>1 DEF StreamInv, Wired
  <1>3. \A v \in Tracer : Msg(v)' = Msg(v)
    BY DEF Msg
  <1>4. \A v \in Tracer : OnItsWay(v) => OnItsWay(v)'
    BY <1>1, <1>3 DEF OnItsWay
  <1>5. \A v \in Tracer, i \in DOMAIN log : Owed(v, i) => Owed(v, i)'
    BY <1>1, <1>3 DEF Owed
  <1>6. QED
    BY <1>2, <1>4, <1>5 DEF StreamInv

LEMMA TracerTask == Tracer \subseteq Task
  BY DEF Tracer

\* A message is observed.
LEMMA ObserveStream ==
    ASSUME UniqueIds, TypeOK, StreamInv, NEW w \in Tracer, ObserveRemote(w)
    PROVE  StreamInv'
  <1>0. w \in Task /\ Observe(w) /\ log' = log
    BY TracerTask DEF ObserveRemote
  <1>1. PICK m : /\ task'[w].pc = "append" /\ task'[w].msg = m
                 /\ Asking(w, m) \/ Answering(w, m) \/ Notifying(w, m)
    BY <1>0, ObserveStep
  <1>2. /\ task[w].pc = "idle"
        /\ \A v \in Task \ {w} : task'[v] = task[v] /\ Msg(v)' = Msg(v)
    BY <1>0, ObserveStep, TaskFrame DEF Msg
  <1>3. /\ \A v \in Task : Wired(v)
        /\ \A v \in Tracer : task[v].pc \in {"idle", "append"} /\ OnItsWay(v)
        /\ \A i \in DOMAIN log : Waits(log, i) =>
             \E v \in Tracer : Owed(v, i)
        /\ \A v \in Tracer : v \in Task
    BY TracerTask DEF StreamInv
  <1>4. Msg(w)' = m
    BY <1>1 DEF Msg
  <1>5. /\ \A v \in Task : Wired(v)'
        /\ \A v \in Task \ {w} : outstanding'[v] = outstanding[v]
        /\ \A v \in Task : established[v] \subseteq established'[v]
        /\ \A q \in outstanding[w] :
             q \in outstanding'[w] \/ (m.kind = "response" /\ m.id = q.id)
    <2>1. CASE Asking(w, m)
      BY <1>0, <1>3, <2>1, WireAsk
    <2>2. CASE Answering(w, m)
      BY <1>0, <1>3, <2>2, WireAnswer
    <2>3. CASE Notifying(w, m)
      BY <1>3, <2>3 DEF Notifying, wire, Wired
    <2>4. QED
      BY <1>1, <2>1, <2>2, <2>3
  <1>6. \A v \in Tracer : v # w => OnItsWay(v)'
    BY <1>0, <1>2, <1>3, <1>5 DEF OnItsWay
  <1>7. \A v \in Tracer, i \in DOMAIN log : Owed(v, i) => Owed(v, i)'
    <2> SUFFICES ASSUME NEW v \in Tracer, NEW i \in DOMAIN log, Owed(v, i)
                 PROVE  Owed(v, i)'
      OBVIOUS
    <2>1. CASE v # w
      BY <1>0, <1>2, <1>3, <1>5, <2>1 DEF Owed
    <2>2. CASE v = w
      <3>1. PICK q \in outstanding[w] :
              /\ q.id = log[i].id /\ q.kind = log[i].kind
              /\ q.session = log[i].session
        BY <1>2, <2>2 DEF Owed
      <3>2. \/ q \in outstanding'[w]
            \/ m.kind = "response" /\ m.id = log[i].id
        BY <1>5, <3>1
      <3>3. /\ log[i].id \in OwnIds(w)
            /\ log[i].kind = "session/prompt" =>
                 log[i].session \in established'[w]
        BY <1>0, <1>5, <2>2 DEF Owed
      <3>4. QED
        BY <1>0, <1>1, <1>4, <2>2, <3>1, <3>2, <3>3 DEF Owed
    <2>3. QED
      BY <2>1, <2>2
  <1>8. ASSUME m.kind \in Tracked
        PROVE  /\ Enters(log, m)
               /\ \E r \in outstanding'[w] : /\ r.id = m.id /\ r.kind = m.kind
                                             /\ r.session = m.session
    <2>1. Asking(w, m)
      BY <1>1, <1>8 DEF Answering, Notifying, Tracked
    <2>2. /\ m.id \in OwnIds(w)
          /\ \A q \in outstanding[w] : q.id # m.id
          /\ m.kind = "session/prompt" =>
               /\ m.session \in established[w]
               /\ Serialized => \A q \in outstanding[w] :
                                  q.session # m.session
      BY <1>0, <1>3, <2>1, WireAsk
    <2>3. ASSUME NEW i \in DOMAIN log, Waits(log, i)
          PROVE  /\ log[i].id # m.id
                 /\ (Serialized /\ m.kind = "session/prompt"
                     /\ log[i].kind = "session/prompt") =>
                       log[i].session # m.session
      <3>1. PICK v \in Tracer : Owed(v, i)
        BY <1>3, <2>3
      <3>2. /\ log[i].id \in OwnIds(v)
            /\ log[i].kind = "session/prompt" =>
                 log[i].session \in established[v]
        BY <3>1 DEF Owed
      <3>3. CASE v # w
        <4>1. OwnIds(v) \cap OwnIds(w) = {}
          BY <1>0, <1>3, <3>3, OwnIdsDisjoint
        <4>2. established[v] \cap established[w] = {}
          BY <1>0, <1>3, <3>3 DEF Wired
        <4>3. QED
          BY <2>2, <3>2, <4>1, <4>2
      <3>4. CASE v = w
        <4>1. PICK q \in outstanding[w] :
                /\ q.id = log[i].id /\ q.session = log[i].session
          BY <1>2, <3>1, <3>4 DEF Owed
        <4>2. QED
          BY <2>2, <4>1
      <3>5. QED
        BY <3>3, <3>4
    <2>4. Enters(log, m)
      BY <2>3 DEF Enters
    <2>5. QED
      BY <1>0, <1>3, <2>1, <2>4, WireAsk
  <1>9. OnItsWay(w)'
    BY <1>0, <1>4, <1>8 DEF OnItsWay
  <1>10. \A v \in Tracer : task'[v].pc \in {"idle", "append"} /\ OnItsWay(v)'
    BY <1>1, <1>2, <1>3, <1>6, <1>9
  <1>11. \A i \in DOMAIN log : Waits(log, i) => \E v \in Tracer : Owed(v, i)'
    BY <1>3, <1>7
  <1>12. QED
    BY <1>0, <1>5, <1>10, <1>11 DEF StreamInv

\* A message gets into the stream.
LEMMA PublishStream ==
    ASSUME UniqueIds, SubscriberTypeOK, StreamInv, NEW w \in Tracer, Publish(w)
    PROVE  StreamInv'
  <1>1. PICK m : m = Msg(w)
    OBVIOUS
  <1>2. PICK n : n = Len(log) + 1
    OBVIOUS
  <1>3. /\ w \in Task /\ TypeOK /\ log \in Seq(Message) /\ m \in Message
        /\ \A v \in Tracer : v \in Task
    BY <1>1, TracerTask DEF SubscriberTypeOK, TypeOK, TaskState, Msg
  <1>4. /\ task[w].pc = "append" /\ log' = Append(log, m)
        /\ outstanding' = outstanding /\ established' = established
        /\ task'[w].pc = "idle"
        /\ \A v \in Task \ {w} : task'[v] = task[v] /\ Msg(v)' = Msg(v)
    BY <1>1, <1>3 DEF Publish, wire, Return, Become, IdleTask, TypeOK, Msg
  <1>5. OneMore(log, m, log', n)
    BY <1>2, <1>3, <1>4, OneMoreMessage
  <1>6. /\ \A v \in Task : Wired(v)
        /\ \A v \in Tracer : task[v].pc \in {"idle", "append"} /\ OnItsWay(v)
        /\ \A i \in DOMAIN log : Waits(log, i) =>
             \E v \in Tracer : Owed(v, i)
        /\ \A k \in DOMAIN log : Enters(SubSeq(log, 1, k - 1), log[k])
        /\ FirstAnswers(log)
    BY DEF StreamInv
  <1>7. /\ \A i \in DOMAIN log : /\ log'[i] = log[i]
                                 /\ Waits(log', i) <=>
                                      Waits(log, i) /\ ~Ends(log, m, i)
        /\ log'[n] = m /\ DOMAIN log' = DOMAIN log \cup {n}
        /\ Waits(log', n) <=> m.kind \in Tracked
    BY <1>5, WaitsAppend DEF OneMore
  <1>8. \A v \in Task : Wired(v)'
    BY <1>4, <1>6 DEF Wired
  <1>9. Enters(log, m)
    BY <1>1, <1>4, <1>6 DEF OnItsWay, Enters
  <1>10. \A k \in DOMAIN log' : Enters(SubSeq(log', 1, k - 1), log'[k])
    BY <1>3, <1>4, <1>6, <1>9, EntersAppend
  <1>11. FirstAnswers(log')
    BY <1>5, <1>6, FirstAppend
  <1>12. ASSUME m.kind \in Tracked
         PROVE  /\ m.id \in OwnIds(w)
                /\ m.kind = "session/prompt" => m.session \in established[w]
                /\ \E r \in outstanding[w] : /\ r.id = m.id /\ r.kind = m.kind
                                             /\ r.session = m.session
    <2>1. PICK r \in outstanding[w] :
            r.id = m.id /\ r.kind = m.kind /\ r.session = m.session
      BY <1>1, <1>4, <1>6, <1>12 DEF OnItsWay
    <2>2. /\ r.id \in IdsOf(r.party, w)
          /\ r.kind = "session/prompt" => r.session \in established[w]
      BY <1>3, <1>6 DEF Wired
    <2>3. QED
      BY <2>1, <2>2 DEF IdsOf, OwnIds
  <1>13. ASSUME NEW v \in Tracer, v # w
         PROVE  OnItsWay(v)'
    <2>1. CASE ~(task[v].pc = "append" /\ Msg(v).kind \in Tracked)
      BY <1>3, <1>4, <1>13, <2>1 DEF OnItsWay
    <2>2. CASE task[v].pc = "append" /\ Msg(v).kind \in Tracked
      <3>1. PICK r \in outstanding[v] :
              /\ r.id = Msg(v).id /\ r.kind = Msg(v).kind
              /\ r.session = Msg(v).session
        BY <1>6, <2>2 DEF OnItsWay
      <3>2. /\ r.id \in OwnIds(v)
            /\ r.kind = "session/prompt" => r.session \in established[v]
        BY <1>3, <1>6 DEF Wired, IdsOf, OwnIds
      <3>3. OwnIds(v) \cap OwnIds(w) = {}
        BY <1>3, <1>13, OwnIdsDisjoint
      <3>4. established[v] \cap established[w] = {}
        BY <1>3, <1>6, <1>13 DEF Wired
      <3>5. m.kind \in Tracked =>
              /\ m.id # Msg(v).id
              /\ (m.kind = "session/prompt" /\ Msg(v).kind = "session/prompt")
                   => m.session # Msg(v).session
        BY <1>12, <3>1, <3>2, <3>3, <3>4
      <3>6. Enters(log, Msg(v))
        BY <1>6, <2>2 DEF OnItsWay
      <3>7. Enters(log', Msg(v))
        BY <1>7, <3>5, <3>6 DEF Enters
      <3>8. Msg(v)' = Msg(v)
        BY <1>3, <1>4, <1>13
      <3>9. Enters(log', Msg(v)')
        BY <3>7, <3>8
      <3>10. \E q \in outstanding'[v] : /\ q.id = Msg(v)'.id
                                        /\ q.kind = Msg(v)'.kind
                                        /\ q.session = Msg(v)'.session
        BY <1>4, <3>1, <3>8
      <3>11. QED
        BY <3>9, <3>10 DEF OnItsWay
    <2>3. QED
      BY <2>1, <2>2
  <1>14. OnItsWay(w)'
    BY <1>4 DEF OnItsWay
  <1>15. \A v \in Tracer : task'[v].pc \in {"idle", "append"} /\ OnItsWay(v)'
    BY <1>3, <1>4, <1>6, <1>13, <1>14
  <1>16. ASSUME NEW i \in DOMAIN log', Waits(log', i)
         PROVE  \E v \in Tracer : Owed(v, i)'
    <2>1. CASE i = n
      <3>1. log'[i] = m /\ m.kind \in Tracked
        BY <1>7, <1>16, <2>1
      <3>2. Owed(w, i)'
        BY <1>4, <1>12, <3>1 DEF Owed
      <3>3. QED
        BY <3>2
    <2>2. CASE i \in DOMAIN log
      <3>1. Waits(log, i) /\ ~Ends(log, m, i) /\ log'[i] = log[i]
        BY <1>7, <1>16, <2>2
      <3>2. PICK v \in Tracer : Owed(v, i)
        BY <1>6, <2>2, <3>1
      <3>3. CASE v # w
        <4>1. task'[v] = task[v] /\ Msg(v)' = Msg(v)
          BY <1>3, <1>4, <3>3
        <4>2. Owed(v, i)'
          BY <1>4, <3>1, <3>2, <4>1 DEF Owed
        <4>3. QED
          BY <4>2
      <3>4. CASE v = w
        <4>1. ~(Msg(w).kind = "response" /\ Msg(w).id = log[i].id)
          BY <1>1, <3>1 DEF Ends
        <4>2. Owed(w, i)'
          BY <1>4, <3>1, <3>2, <3>4, <4>1 DEF Owed
        <4>3. QED
          BY <4>2
      <3>5. QED
        BY <3>3, <3>4
    <2>3. QED
      BY <1>7, <1>16, <2>1, <2>2
  <1>17. QED
    BY <1>8, <1>10, <1>11, <1>15, <1>16 DEF StreamInv

\* So does a row that is no trace event.
LEMMA ForeignStream ==
    ASSUME SubscriberTypeOK, StreamInv, PublishForeign
    PROVE  StreamInv'
  <1>1. PICK kind \in Foreign, c \in Connection :
          log' = Append(log, [NoMessage EXCEPT !.kind = kind,
                                               !.connection = c])
    BY DEF PublishForeign
  <1>2. PICK m : m = [NoMessage EXCEPT !.kind = kind, !.connection = c]
    OBVIOUS
  <1>3. PICK n : n = Len(log) + 1
    OBVIOUS
  <1>4. /\ m \in Message /\ log \in Seq(Message)
        /\ m.kind \notin Tracked /\ m.kind # "response"
    BY <1>2, IdleTaskType DEF Foreign, NoMessage, Message, MessageKind,
       RequestKind, SubscriberTypeOK, Tracked
  <1>5. /\ log' = Append(log, m) /\ task' = task
        /\ outstanding' = outstanding /\ established' = established
        /\ \A v \in Tracer : Msg(v)' = Msg(v)
    BY <1>1, <1>2 DEF PublishForeign, wire, Msg
  <1>6. OneMore(log, m, log', n)
    BY <1>3, <1>4, <1>5, OneMoreMessage
  <1>7. /\ \A i \in DOMAIN log : /\ log'[i] = log[i]
                                 /\ Waits(log', i) <=> Waits(log, i)
        /\ DOMAIN log' = DOMAIN log \cup {n} /\ ~Waits(log', n)
    BY <1>4, <1>6, WaitsAppend DEF OneMore, Ends
  <1>8. \A k \in DOMAIN log' : Enters(SubSeq(log', 1, k - 1), log'[k])
    BY <1>4, <1>5, EntersAppend DEF StreamInv, Enters
  <1>9. FirstAnswers(log')
    BY <1>6, FirstAppend DEF StreamInv
  <1>10. \A v \in Task : Wired(v)'
    BY <1>5 DEF StreamInv, Wired
  <1>11. ASSUME NEW v \in Tracer
         PROVE  task'[v].pc \in {"idle", "append"} /\ OnItsWay(v)'
    <2>1. task[v].pc \in {"idle", "append"} /\ OnItsWay(v)
      BY DEF StreamInv
    <2>2. Enters(log, Msg(v)) => Enters(log', Msg(v))
      BY <1>7 DEF Enters
    <2>3. QED
      BY <1>5, <2>1, <2>2 DEF OnItsWay
  <1>12. ASSUME NEW i \in DOMAIN log', Waits(log', i)
         PROVE  \E v \in Tracer : Owed(v, i)'
    <2>1. i \in DOMAIN log /\ Waits(log, i) /\ log'[i] = log[i]
      BY <1>7, <1>12
    <2>2. PICK v \in Tracer : Owed(v, i)
      BY <2>1 DEF StreamInv
    <2>3. Owed(v, i)'
      BY <1>5, <2>1, <2>2 DEF Owed
    <2>4. QED
      BY <2>3
  <1>13. QED
    BY <1>8, <1>9, <1>10, <1>11, <1>12 DEF StreamInv

-----------------------------------------------------------------------------
(* The rows and the copy, when the consumer is elsewhere.                  *)

LEMMA RowsStay ==
    ASSUME RowsShown, FirstAnswers(log), log \in Seq(Message),
           log' \in Seq(Message), Extends(log, log'),
           turns' = turns, connectionId' = connectionId
    PROVE  RowsShown'
  <1>1. ASSUME NEW t \in DOMAIN turns
        PROVE  \E i \in Prompts(log') :
                 /\ t = Rank(log', i)
                 /\ turns[t].connection = Unknown
                 /\ turns[t].session = log'[i].session
                 /\ turns[t].request = log'[i].id
                 /\ turns[t].state \in {"active", Outcome(log', i)}
    <2>1. PICK i \in Prompts(log) :
            /\ t = Rank(log, i)
            /\ turns[t].connection = Unknown
            /\ turns[t].session = log[i].session
            /\ turns[t].request = log[i].id
            /\ turns[t].state \in {"active", Outcome(log, i)}
      BY DEF RowsShown
    <2>2. i \in DOMAIN log
      BY DEF Prompts, Kind
    <2>3. i \in Prompts(log') /\ Rank(log', i) = Rank(log, i)
          /\ log'[i] = log[i]
      BY RankStays
    <2>4. Outcome(log, i) \in {"active", Outcome(log', i)}
      BY <2>2, OutcomeOrActive
    <2>5. QED
      BY <2>1, <2>3, <2>4
  <1>2. QED
    BY <1>1 DEF RowsShown

\* What a consumer has read and applied, in a stream that only grows
LEMMA ReadStays ==
    ASSUME SubscriberTypeOK, NEW c \in Consumer, ReadInOrder(c), BatchOfLog(c),
           log' \in Seq(Message), Extends(log, log'),
           reader'[c].batch = reader[c].batch,
           reader'[c].offset = reader[c].offset
    PROVE  BatchOfLog(c)' /\ Applied(c)' = Applied(c)
  <1>1. /\ log \in Seq(Message) /\ reader[c] \in ReaderState
        /\ reader[c].offset <= Len(log)
    BY DEF SubscriberTypeOK
  <1>2. PICK b : b = reader[c].batch
    OBVIOUS
  <1>3. PICK o : o = reader[c].offset
    OBVIOUS
  <1>4. /\ b \in Seq(Message) /\ Len(b) \in Nat /\ o \in Nat /\ o <= Len(log)
        /\ DOMAIN b = 1..Len(b) /\ Len(b) <= o /\ Len(log) \in Nat
        /\ Len(log') \in Nat /\ Len(log) <= Len(log')
        /\ \A k \in 1..Len(log) : log'[k] = log[k]
    BY <1>1, <1>2, <1>3 DEF ReaderState, ReadInOrder, Extends
  <1>5. \A k \in DOMAIN b : o - Len(b) + k \in 1..Len(log)
    BY <1>4
  <1>6. \A k \in DOMAIN b : b[k] = log[o - Len(b) + k]
    BY <1>2, <1>3 DEF BatchOfLog
  <1>7. \A k \in DOMAIN b : b[k] = log'[o - Len(b) + k]
    BY <1>4, <1>5, <1>6
  <1>8. BatchOfLog(c)'
    BY <1>2, <1>3, <1>7 DEF BatchOfLog
  <1>9. PICK p : p = o - Len(b)
    OBVIOUS
  <1>10. p \in 0..Len(log)
    BY <1>4, <1>9
  <1>11. SubSeq(log', 1, p) = SubSeq(log, 1, p)
    BY <1>1, <1>4, <1>10
  <1>12. QED
    BY <1>2, <1>3, <1>8, <1>9, <1>11 DEF Applied

LEMMA RestStays ==
    ASSUME NEW c \in Consumer, UNCHANGED copy, task'[c] = task[c]
    PROVE  Rest(c)' = Rest(c) /\ RestConnection(c)' = RestConnection(c)
  <1>1. Model' = Model /\ Msg(c)' = Msg(c)
    BY DEF copy, correlation, collections, Model, UnscopedTurns, Msg
  <1>2. QED
    BY <1>1 DEF copy, correlation, collections, Rest, RestConnection, Applying,
       UnscopedTurns

\* A step that leaves the copy alone, and of the reader all but the place
LEMMA CopyStays ==
    ASSUME SubscriberTypeOK, NEW c \in Consumer, ReadInOrder(c), CopyOf(c),
           log' \in Seq(Message), Extends(log, log'),
           UNCHANGED copy, task'[c] = task[c],
           reader'[c].batch = reader[c].batch,
           reader'[c].offset = reader[c].offset,
           reader'[c].pc \in Stopped \/ reader[c].pc \notin Stopped,
           reader'[c].pc = "apply" \/ task[c].pc = "idle"
    PROVE  CopyOf(c)'
  <1>1. BatchOfLog(c)' /\ Applied(c)' = Applied(c)
    BY ReadStays DEF CopyOf
  <1>2. Rest(c)' = Rest(c) /\ RestConnection(c)' = RestConnection(c)
    BY RestStays
  <1>3. connections' = connections
    BY DEF copy, collections
  <1>4. reader[c].pc \notin Stopped =>
          /\ ReplayOf(Applied(c)', Rest(c)')
          /\ DOMAIN connections' \cup RestConnection(c)'
               = Connected(Applied(c)')
    BY <1>1, <1>2, <1>3 DEF CopyOf
  <1>5. QED
    BY <1>1, <1>4 DEF CopyOf

-----------------------------------------------------------------------------
(* The consumer at work.                                                   *)

LEMMA ConnectedAppend ==
    ASSUME NEW s, NEW m, NEW r, NEW n, OneMore(s, m, r, n)
    PROVE  Connected(r) = Connected(s) \cup
             (IF m.kind = "connection" THEN {m.connection} ELSE {})
  <1>1. Kind(r, "connection") = IF m.kind = "connection"
          THEN Kind(s, "connection") \cup {n} ELSE Kind(s, "connection")
    BY KindAppend
  <1>2. r[n] = m /\ \A i \in Kind(s, "connection") : r[i] = s[i]
    BY DEF OneMore, Kind
  <1>3. QED
    BY <1>1, <1>2 DEF Connected

\* It takes the next event of its chunk.
LEMMA ApplyEventCopy ==
    ASSUME SubscriberTypeOK, StreamInv, NEW c \in Consumer, ReadInOrder(c),
           CopyOf(c), ApplyEvent(c)
    PROVE  CopyOf(c)'
  <1>1. /\ log \in Seq(Message) /\ reader \in [Consumer -> ReaderState]
        /\ reader[c] \in ReaderState /\ c \in Task
        /\ reader[c].offset <= Len(log) /\ task \in [Task -> TaskState]
    BY SubscriberAssumption DEF SubscriberTypeOK, TypeOK
  <1>2. PICK b : b = reader[c].batch
    OBVIOUS
  <1>3. PICK o : o = reader[c].offset
    OBVIOUS
  <1>4. /\ b \in Seq(Message) /\ b # <<>> /\ Len(b) \in Nat \ {0}
        /\ DOMAIN b = 1..Len(b) /\ o \in Nat /\ o <= Len(log) /\ Len(b) <= o
        /\ Len(log) \in Nat
    BY <1>1, <1>2, <1>3 DEF ReaderState, ReadInOrder, ApplyEvent, NextEvent
  <1>5. PICK k : k = o - Len(b)
    OBVIOUS
  <1>6. k \in Nat /\ k < Len(log) /\ k + 1 \in DOMAIN log /\ k + 1 = o - (Len(b) - 1)
    BY <1>1, <1>4, <1>5
  <1>7. PICK event : event = Head(b)
    OBVIOUS
  <1>8. event = log[k + 1]
    <2>1. b[1] = log[o - Len(b) + 1]
      BY <1>2, <1>3, <1>4 DEF CopyOf, BatchOfLog
    <2>2. QED
      BY <1>4, <1>5, <1>7, <2>1
  <1>9. /\ log' = log /\ UNCHANGED copy
        /\ reader[c].pc = "apply" /\ task[c].pc = "idle"
        /\ \/ event.kind = "unsupported" /\ task' = task
           \/ /\ event.kind # "unsupported"
              /\ Become(c, [IdleTask EXCEPT !.pc = "apply", !.msg = event])
        /\ reader' = [reader EXCEPT ![c].batch = Tail(@)]
    BY <1>2, <1>7 DEF ApplyEvent, NextEvent
  <1>10. /\ reader'[c].batch = Tail(b) /\ reader'[c].offset = o
         /\ reader'[c].pc = "apply"
    <2>1. reader'[c] = [reader[c] EXCEPT !.batch = Tail(b)]
      BY <1>1, <1>2, <1>9
    <2>2. QED
      BY <1>1, <1>3, <1>9, <2>1 DEF ReaderState
  <1>11. PICK s : s = SubSeq(log, 1, k)
    OBVIOUS
  <1>12. PICK r : r = SubSeq(log, 1, k + 1)
    OBVIOUS
  <1>13. Applied(c) = s
    BY <1>2, <1>3, <1>5, <1>11 DEF Applied
  <1>14. Applied(c)' = r
    <2>1. Len(Tail(b)) = Len(b) - 1
      BY <1>4
    <2>2. o - Len(Tail(b)) = k + 1
      BY <1>6, <2>1
    <2>3. QED
      BY <1>9, <1>10, <1>12, <2>2 DEF Applied
  <1>15. OneMore(s, event, r, k + 1)
    BY <1>1, <1>6, <1>8, <1>11, <1>12, PrefixGrows
  <1>16. Enters(s, event)
    <2>1. Enters(SubSeq(log, 1, (k + 1) - 1), log[k + 1])
      BY <1>6 DEF StreamInv
    <2>2. (k + 1) - 1 = k
      BY <1>6
    <2>3. QED
      BY <1>8, <1>11, <2>1, <2>2
  <1>17. Rest(c) = Model /\ RestConnection(c) = {} /\ Model' = Model
    BY <1>1, <1>9, RestSpent
       DEF Spent, RestConnection, Applying, copy, correlation, collections,
           Model, UnscopedTurns
  <1>18. ReplayOf(s, Model) /\ DOMAIN connections = Connected(s)
    BY <1>9, <1>13, <1>17 DEF CopyOf, Stopped
  <1>19. ReplayOf(r, Effect(event, Model))
    BY <1>15, <1>16, <1>18, ReplayStep
  <1>20. /\ Rest(c)' = Effect(event, Model)
         /\ RestConnection(c)' =
              (IF event.kind = "connection" THEN {event.connection} ELSE {})
         /\ task'[c].pc \in {"idle", "apply"}
    <2>1. CASE event.kind = "unsupported" /\ task' = task
      <3>1. Effect(event, Model) = Model
        BY <2>1 DEF Effect
      <3>2. Rest(c)' = Model'
        BY <1>9, <2>1 DEF Rest
      <3>3. RestConnection(c)' = {}
        BY <1>9, <2>1 DEF RestConnection, Applying
      <3>4. QED
        BY <1>9, <1>17, <2>1, <3>1, <3>2, <3>3
    <2>2. CASE Become(c, [IdleTask EXCEPT !.pc = "apply", !.msg = event])
      <3>1. task'[c].pc = "apply" /\ Msg(c)' = event
        BY <1>1, <2>2 DEF Become, IdleTask, Msg
      <3>2. Rest(c)' = Effect(event, Model')
        BY <3>1 DEF Rest
      <3>3. QED
        BY <1>17, <3>1, <3>2 DEF RestConnection, Applying
    <2>3. QED
      BY <1>9, <2>1, <2>2
  <1>21. Connected(r) = Connected(s) \cup RestConnection(c)'
    BY <1>15, <1>20, ConnectedAppend
  <1>22. connections' = connections
    BY <1>9 DEF copy, collections
  <1>23. BatchOfLog(c)'
    <2>1. ASSUME NEW j \in DOMAIN Tail(b)
          PROVE  Tail(b)[j] = log[o - Len(Tail(b)) + j]
      <3>1. /\ Len(Tail(b)) = Len(b) - 1 /\ DOMAIN Tail(b) = 1..(Len(b) - 1)
            /\ \A i \in 1..(Len(b) - 1) : Tail(b)[i] = b[i + 1]
        BY <1>4
      <3>2. j + 1 \in DOMAIN b /\ j \in Nat
        BY <1>4, <2>1, <3>1
      <3>3. b[j + 1] = log[o - Len(b) + (j + 1)]
        BY <1>2, <1>3, <3>2 DEF CopyOf, BatchOfLog
      <3>4. o - Len(b) + (j + 1) = o - Len(Tail(b)) + j
        BY <1>4, <3>1, <3>2
      <3>5. QED
        BY <2>1, <3>1, <3>3, <3>4
    <2>2. QED
      BY <1>9, <1>10, <2>1 DEF BatchOfLog
  <1>24. QED
    BY <1>10, <1>14, <1>18, <1>19, <1>20, <1>21, <1>22, <1>23 DEF CopyOf

\* It reads a chunk.
LEMMA ReadCopy ==
    ASSUME SubscriberTypeOK, NEW c \in Consumer, ReadInOrder(c), CopyOf(c),
           NEW last \in reader[c].offset..Len(log), NEW upToDate \in BOOLEAN,
           NEW events \in {NewUpTo(c, last), <<>>},
           ReadUpTo(c, last, upToDate, events), reader'[c].whole
    PROVE  CopyOf(c)'
  <1>1. /\ log \in Seq(Message) /\ reader \in [Consumer -> ReaderState]
        /\ reader[c] \in ReaderState
    BY DEF SubscriberTypeOK
  <1>2. PICK o : o = reader[c].offset
    OBVIOUS
  <1>3. PICK b : b = SubSeq(log, o + 1, last)
    OBVIOUS
  <1>4. /\ o \in Nat /\ last \in Nat /\ o <= last /\ last <= Len(log)
        /\ Len(log) \in Nat
    BY <1>1, <1>2 DEF ReaderState
  <1>5. /\ Len(b) = last - o /\ DOMAIN b = 1..(last - o)
        /\ \A k \in 1..(last - o) : b[k] = log[o + k]
    BY <1>1, <1>3, <1>4
  <1>6. /\ log' = log /\ UNCHANGED copy /\ task' = task
        /\ reader[c].pc = "read" /\ reader[c].batch = <<>>
    BY ChunkTaken DEF ReadInOrder
  <1>7. /\ reader'[c].pc = "apply" /\ reader'[c].offset = last
        /\ reader'[c].batch = b
    <2>1. PICK st \in ReaderState :
            /\ reader' = [reader EXCEPT ![c] = st]
            /\ st.pc = "apply" /\ st.offset = last /\ st.batch = events
            /\ st.whole => events = NewUpTo(c, last)
      BY ChunkTaken
    <2>2. reader'[c] = st
      BY <1>1, <2>1
    <2>3. events = b
      BY <1>2, <1>3, <1>4, <1>5, <2>1, <2>2 DEF NewUpTo
    <2>4. QED
      BY <2>1, <2>2, <2>3
  <1>8. BatchOfLog(c)'
    <2>1. \A k \in DOMAIN b : b[k] = log[last - Len(b) + k]
      <3>1. \A k \in 1..(last - o) : last - Len(b) + k = o + k
        BY <1>4, <1>5
      <3>2. QED
        BY <1>5, <3>1
    <2>2. QED
      BY <1>6, <1>7, <2>1 DEF BatchOfLog
  <1>9. Applied(c)' = Applied(c)
    <2>1. last - Len(b) = o /\ o - Len(<<>>) = o
      BY <1>4, <1>5
    <2>2. QED
      BY <1>2, <1>6, <1>7, <2>1 DEF Applied
  <1>10. Rest(c)' = Rest(c) /\ RestConnection(c)' = RestConnection(c)
    BY <1>6, RestStays
  <1>11. connections' = connections
    BY <1>6 DEF copy, collections
  <1>12. /\ ReplayOf(Applied(c)', Rest(c)')
         /\ DOMAIN connections' \cup RestConnection(c)'
              = Connected(Applied(c)')
    BY <1>6, <1>9, <1>10, <1>11 DEF CopyOf, Stopped
  <1>13. QED
    BY <1>6, <1>7, <1>8, <1>9, <1>12 DEF CopyOf

\* Where a section of a handler leaves the task, and the row it may insert
LEMMA StepCopy ==
    ASSUME TypeOK, connectionId = Unknown, NEW c \in Task,
           Apply(c) \/ IgnoreLegacy(c) \/ ApplyConnection(c)
    PROVE  /\ task[c].pc # "idle" /\ task'[c].pc \notin {"append", "apply"}
           /\ task'[c].pc = "insert_turn" => task'[c].connection = Unknown
           /\ connectionId' = Unknown /\ UNCHANGED wire
           /\ \A v \in Task \ {c} : task'[v] = task[v]
           /\ DOMAIN connections' = DOMAIN connections \cup RestConnection(c)
  <1>1. task \in [Task -> TaskState] /\ task[c] \in TaskState
    BY DEF TypeOK
  <1>2. CASE Apply(c)
    <2>1. /\ task[c].pc # "idle" /\ task'[c].pc # "append" /\ UNCHANGED wire
          /\ task'[c].pc = "apply" => task[c].pc = "append"
          /\ task'[c].pc = "insert_turn" => Applying(c, "session/prompt")
          /\ \A v \in Task \ {c} : task'[v] = task[v]
      BY <1>2, HandStep
    <2>2. task[c].pc # "append" /\ RestConnection(c) = {}
      BY <1>2 DEF Apply, BeginSessionNew, UpdateCwd, BeginPrompt, TrackPrompt,
         InsertTurn, IgnoreRequest, EndSessionNew, Attach, EndPrompt,
         AnswersPrompt, FinishTurn, IgnoreResponse, FindTurn, NumberChunk,
         InsertChunk, IgnoreNotification, Notify, Applying, RestConnection
    <2>3. connectionId' = connectionId
      BY <1>2 DEF Apply, BeginSessionNew, UpdateCwd, BeginPrompt, TrackPrompt,
         InsertTurn, IgnoreRequest, EndSessionNew, Attach, EndPrompt, Forget,
         FinishTurn, IgnoreResponse, FindTurn, NumberChunk, InsertChunk,
         IgnoreNotification, Notify, correlation
    <2>4. DOMAIN connections' = DOMAIN connections
      BY <1>2 DEF Apply, BeginSessionNew, UpdateCwd, BeginPrompt, TrackPrompt,
         InsertTurn, IgnoreRequest, EndSessionNew, Attach, EndPrompt, Forget,
         FinishTurn, IgnoreResponse, FindTurn, NumberChunk, InsertChunk,
         IgnoreNotification, Notify, collections
    <2>5. Applying(c, "session/prompt") => BeginPrompt(c)
      BY <1>2 DEF Apply, BeginSessionNew, UpdateCwd, InsertTurn, IgnoreRequest,
         EndSessionNew, Attach, EndPrompt, AnswersPrompt, FinishTurn,
         IgnoreResponse, FindTurn, NumberChunk, InsertChunk,
         IgnoreNotification, Notify, Applying
    <2>6. BeginPrompt(c) => task'[c].connection = connectionId
      BY <1>1 DEF BeginPrompt, TrackPrompt, Become, TaskState
    <2>7. QED
      BY <2>1, <2>2, <2>3, <2>4, <2>5, <2>6
  <1>3. CASE IgnoreLegacy(c)
    BY <1>1, <1>3 DEF IgnoreLegacy, Applying, RestConnection, Return, Become,
       IdleTask, correlation, collections
  <1>4. CASE ApplyConnection(c)
    <2>1. task'[c].pc = "notify" /\ \A v \in Task \ {c} : task'[v] = task[v]
      BY <1>1, <1>4 DEF ApplyConnection, Announce, Become, TaskState
    <2>2. DOMAIN connections' = DOMAIN connections \cup {Msg(c).connection}
      BY <1>4 DEF ApplyConnection, Put
    <2>3. RestConnection(c) = {Msg(c).connection}
      BY <1>4 DEF ApplyConnection, RestConnection
    <2>4. QED
      BY <1>4, <2>1, <2>2, <2>3 DEF ApplyConnection, Applying, correlation
  <1>5. QED
    BY <1>2, <1>3, <1>4

LEMMA ApplyStepCopy ==
    ASSUME SubscriberTypeOK, RowsShown, NEW c \in Consumer, CopyOf(c),
           ApplyStep(c)
    PROVE  /\ CopyOf(c)' /\ connectionId' = Unknown
           /\ log' = log /\ UNCHANGED wire
           /\ \A v \in Task \ {c} : task'[v] = task[v]
           /\ reader[c].pc = "apply"
           /\ Applied(c)' = Applied(c) /\ ReplayOf(Applied(c), Rest(c)')
  <1>1. /\ c \in Task /\ TypeOK /\ connectionId = Unknown
        /\ Apply(c) \/ IgnoreLegacy(c) \/ ApplyConnection(c)
        /\ log' = log /\ reader' = reader
    BY SubscriberAssumption
       DEF SubscriberTypeOK, RowsShown, ApplyStep, subscriber
  <1>2. /\ task[c].pc # "idle" /\ task'[c].pc \notin {"append", "apply"}
        /\ task'[c].pc = "insert_turn" => task'[c].connection = Unknown
        /\ connectionId' = Unknown /\ UNCHANGED wire
        /\ \A v \in Task \ {c} : task'[v] = task[v]
        /\ DOMAIN connections' = DOMAIN connections \cup RestConnection(c)
    BY <1>1, StepCopy
  <1>3. reader[c].pc = "apply"
    BY <1>2 DEF CopyOf
  <1>4. Rest(c)' = Rest(c)
    BY <1>1, RestStep
  <1>5. Applied(c)' = Applied(c) /\ (BatchOfLog(c) => BatchOfLog(c)')
    BY <1>1 DEF Applied, BatchOfLog
  <1>6. RestConnection(c)' = {}
    BY <1>2 DEF RestConnection, Applying
  <1>7. /\ ReplayOf(Applied(c), Rest(c)) /\ BatchOfLog(c)
        /\ DOMAIN connections \cup RestConnection(c) = Connected(Applied(c))
    BY <1>3 DEF CopyOf, Stopped
  <1>8. DOMAIN connections' \cup RestConnection(c)' = Connected(Applied(c)')
    BY <1>2, <1>5, <1>6, <1>7
  <1>9. ReplayOf(Applied(c)', Rest(c)')
    BY <1>4, <1>5, <1>7
  <1>10. CopyOf(c)'
    BY <1>1, <1>2, <1>3, <1>5, <1>7, <1>8, <1>9 DEF CopyOf
  <1>11. QED
    BY <1>1, <1>2, <1>3, <1>4, <1>5, <1>7, <1>10

\* A row that is inserted or updated is one of a prompt.
LEMMA ApplyStepRows ==
    ASSUME SubscriberTypeOK, StreamInv, RowsShown, NEW c \in Consumer,
           ReadInOrder(c), CopyOf(c), ApplyStep(c)
    PROVE  RowsShown'
  <1>1. /\ connectionId' = Unknown /\ log' = log /\ reader[c].pc = "apply"
        /\ ReplayOf(Applied(c), Rest(c)')
    BY ApplyStepCopy
  <1>2. /\ log \in Seq(Message) /\ c \in Task /\ TypeOK
        /\ task \in [Task -> TaskState] /\ task[c] \in TaskState
        /\ connectionId = Unknown /\ FirstAnswers(log)
    BY SubscriberAssumption DEF SubscriberTypeOK, TypeOK, RowsShown, StreamInv
  <1>3. CASE turns' = turns
    <2>1. Extends(log, log)
      BY <1>2 DEF Extends
    <2>2. connectionId' = connectionId
      BY <1>1, <1>2
    <2>3. QED
      BY <1>1, <1>2, <1>3, <2>1, <2>2, RowsStay
  <1>4. CASE turns' # turns
    <2>1. InsertTurn(c) \/ FinishTurn(c)
      BY <1>2, <1>4, TurnWriters
         DEF ApplyStep, IgnoreLegacy, ApplyConnection, collections
    <2>2. task'[c].pc = "notify"
      BY <1>2, <2>1, StepGoes DEF InsertTurn, FinishTurn
    <2>3. Rest(c)' = Model'
      BY <2>2 DEF Rest
    <2>4. PICK s : s = Applied(c)
      OBVIOUS
    <2>5. TurnsOf(s, Model') /\ FirstAnswers(s)
      BY <1>1, <2>3, <2>4 DEF ReplayOf
    <2>6. s \in Seq(Message) /\ Extends(s, log)
      <3>1. PICK p : p = reader[c].offset - Len(reader[c].batch)
        OBVIOUS
      <3>2. p \in 0..Len(log) /\ Len(log) \in Nat
        <4>1. /\ reader[c].offset \in Nat /\ reader[c].batch \in Seq(Message)
              /\ reader[c].offset <= Len(log) /\ Len(log) \in Nat
          BY <1>2 DEF SubscriberTypeOK, ReaderState
        <4>2. Len(reader[c].batch) \in Nat
              /\ Len(reader[c].batch) <= reader[c].offset
          BY <4>1 DEF ReadInOrder
        <4>3. QED
          BY <3>1, <4>1, <4>2
      <3>3. s = SubSeq(log, 1, p)
        BY <2>4, <3>1 DEF Applied
      <3>4. /\ s \in Seq(Message) /\ Len(s) = p
            /\ \A k \in 1..p : s[k] = log[k]
        BY <1>2, <3>2, <3>3
      <3>5. QED
        BY <3>2, <3>4 DEF Extends
    <2>7. /\ DOMAIN turns' = 1..Model'.turnCounter
          /\ \A t \in 1..Model'.turnCounter : \E i \in Prompts(s) :
               Rank(s, i) = t
          /\ \A i \in Prompts(s) : Rank(s, i) \in DOMAIN turns' =>
               Unscoped(turns'[Rank(s, i)]) = RowOf(s, i)
      <3>1. Model'.turns = [t \in DOMAIN turns' |-> Unscoped(turns'[t])]
        BY DEF Model, ModelOf, UnscopedTurns
      <3>2. QED
        BY <2>5, <3>1 DEF TurnsOf
    <2>8. \A t \in DOMAIN turns' : turns'[t].connection = Unknown
      <3>1. \A t \in DOMAIN turns : turns[t].connection = Unknown
                                    /\ turns[t] \in TurnRow
        BY <1>2 DEF RowsShown, TypeOK
      <3>2. CASE InsertTurn(c)
        <4>1. task[c].connection = Unknown
          BY <3>2 DEF InsertTurn, CopyOf
        <4>2. QED
          BY <3>1, <3>2, <4>1 DEF InsertTurn, Put
      <3>3. CASE FinishTurn(c)
        <4>1. \A t \in DOMAIN turns : \A x :
                [turns[t] EXCEPT !.state = x].connection = Unknown
          BY <3>1 DEF TurnRow
        <4>2. QED
          BY <3>1, <3>3, <4>1 DEF FinishTurn
      <3>4. QED
        BY <2>1, <3>2, <3>3
    <2>9. ASSUME NEW t \in DOMAIN turns'
          PROVE  \E i \in Prompts(log) :
                   /\ t = Rank(log, i)
                   /\ turns'[t].connection = Unknown
                   /\ turns'[t].session = log[i].session
                   /\ turns'[t].request = log[i].id
                   /\ turns'[t].state \in {"active", Outcome(log, i)}
      <3>1. PICK i \in Prompts(s) : Rank(s, i) = t
        BY <2>7
      <3>2. Unscoped(turns'[t]) = RowOf(s, i)
        BY <2>7, <3>1
      <3>3. /\ turns'[t].state = Outcome(s, i)
            /\ turns'[t].session = s[i].session
            /\ turns'[t].request = s[i].id
        BY <3>2 DEF Unscoped, RowOf
      <3>4. i \in DOMAIN s
        BY DEF Prompts, Kind
      <3>5. i \in Prompts(log) /\ Rank(log, i) = t /\ log[i] = s[i]
        BY <1>2, <2>6, <3>1, RankStays
      <3>6. Outcome(s, i) \in {"active", Outcome(log, i)}
        BY <1>2, <2>5, <2>6, <3>4, OutcomeOrActive
      <3>7. QED
        BY <2>8, <3>3, <3>5, <3>6
    <2>10. QED
      BY <1>1, <2>9 DEF RowsShown
  <1>5. QED
    BY <1>3, <1>4

-----------------------------------------------------------------------------
(* The copy, in every state.                                               *)

LEMMA ReplayOfNothing == ReplayOf(<<>>, Blank)
  <1>1. /\ DOMAIN <<>> = {} /\ <<>> \in Seq(ChunkRow)
        /\ Image(<<>>) = {} /\ Len(<<>>) = 0
    BY DEF Image
  <1>2. \A k : Kind(<<>>, k) = {} /\ Waiting(<<>>, k) = {}
    BY <1>1 DEF Kind, Waiting
  <1>3. Prompts(<<>>) = {} /\ Cardinality({}) = 0 /\ IsFiniteSet({})
    BY <1>2, FS_EmptySet DEF Prompts
  <1>4. 1..0 = {}
    OBVIOUS
  <1>5. /\ Blank.turnCounter = 0 /\ DOMAIN Blank.turns = {}
        /\ Blank.pendingNew = {} /\ DOMAIN Blank.requestTurn = {}
        /\ DOMAIN Blank.activeTurn = {} /\ DOMAIN Blank.chunkSeq = {}
        /\ Blank.chunks = <<>>
    BY DEF Blank, ModelOf, EmptyMap
  <1>6. FirstAnswers(<<>>)
    BY <1>1 DEF FirstAnswers
  <1>7. TurnsOf(<<>>, Blank)
    BY <1>3, <1>4, <1>5 DEF TurnsOf
  <1>8. RequestsOf(<<>>, Blank)
    BY <1>1, <1>2, <1>5 DEF RequestsOf
  <1>9. SessionsOf(<<>>, Blank)
    BY <1>2, <1>5 DEF SessionsOf
  <1>10. ReplayedChunks(<<>>) = {}
    <2>1. DOMAIN ReplayedTurns(<<>>) = {}
      BY <1>2, <1>3, <1>4 DEF ReplayedTurns
    <2>2. QED
      BY <2>1 DEF ReplayedChunks
  <1>11. ChunksOf(<<>>, Blank)
    BY <1>1, <1>3, <1>5, <1>10 DEF ChunksOf
  <1>12. QED
    BY <1>6, <1>7, <1>8, <1>9, <1>11 DEF ReplayOf

LEMMA InitCopy == SubscriberInit => CopyInv
  <1> SUFFICES ASSUME SubscriberInit PROVE CopyInv
    OBVIOUS
  <1>1. /\ log = <<>> /\ connectionId = Unknown
        /\ requestTurn = EmptyMap /\ pendingNew = {} /\ activeTurn = EmptyMap
        /\ chunkSeq = EmptyMap /\ turnCounter = 0 /\ turns = EmptyMap
        /\ chunks = <<>> /\ DOMAIN connections = {} /\ DOMAIN turns = {}
        /\ \A w \in Task : /\ task[w] = IdleTask /\ outstanding[w] = {}
                           /\ established[w] = {}
        /\ \A c \in Consumer : reader[c] = UnusedReader
    BY DEF SubscriberInit, Init, EmptyMap
  <1>2. DOMAIN <<>> = {}
    OBVIOUS
  <1>3. StreamInv
    <2>1. FirstAnswers(log)
      BY <1>1, <1>2 DEF FirstAnswers
    <2>2. \A w \in Task : Wired(w)
      BY <1>1 DEF Wired
    <2>3. \A w \in Tracer : task[w].pc \in {"idle", "append"} /\ OnItsWay(w)
      BY <1>1, TracerTask DEF OnItsWay, IdleTask
    <2>4. QED
      BY <1>1, <1>2, <2>1, <2>2, <2>3 DEF StreamInv
  <1>4. RowsShown
    BY <1>1 DEF RowsShown
  <1>5. Model = Blank
    <2>1. UnscopedTurns = EmptyMap
      BY <1>1 DEF UnscopedTurns, EmptyMap
    <2>2. QED
      BY <1>1, <2>1 DEF Model, Blank
  <1>6. ASSUME NEW c \in Consumer
        PROVE  CopyOf(c)
    <2>1. /\ task[c].pc = "idle" /\ reader[c].batch = <<>>
          /\ reader[c].offset = 0 /\ reader[c].pc = "unused" /\ c \in Task
      BY <1>1, SubscriberAssumption DEF IdleTask, UnusedReader
    <2>2. Applied(c) = <<>>
      <3>1. 0 - Len(<<>>) = 0
        <4>1. PICK n : n = Len(<<>>)
          OBVIOUS
        <4>2. n = 0
          BY <4>1
        <4>3. 0 - n = 0
          BY <4>2
        <4>4. QED
          BY <4>1, <4>3
      <3>2. SubSeq(<<>>, 1, 0) = <<>>
        <4>1. <<>> \in Seq(Message)
          OBVIOUS
        <4>2. \A s \in Seq(Message) : Len(s) = 0 => s = <<>>
          OBVIOUS
        <4>3. \A s \in Seq(Message) : SubSeq(s, 1, 0) \in Seq(Message)
                                      /\ Len(SubSeq(s, 1, 0)) = 0
          OBVIOUS
        <4>4. QED
          BY <4>1, <4>2, <4>3
      <3>3. QED
        BY <1>1, <2>1, <3>1, <3>2 DEF Applied
    <2>3. Rest(c) = Blank /\ RestConnection(c) = {}
      BY <1>5, <2>1 DEF Rest, RestConnection, Applying
    <2>4. Connected(<<>>) = {}
      BY <1>2 DEF Connected, Kind
    <2>5. BatchOfLog(c)
      BY <1>2, <2>1 DEF BatchOfLog
    <2>6. QED
      BY <1>1, <2>1, <2>2, <2>3, <2>4, <2>5, ReplayOfNothing DEF CopyOf
  <1>7. QED
    BY <1>3, <1>4, <1>6 DEF CopyInv

\* A step that is none of the consumers'
LEMMA OthersStep ==
    ASSUME SubscriberTypeOK, PreloadInv, CopyInv, StreamInv',
           log' \in Seq(Message), Extends(log, log'), UNCHANGED copy,
           \A c \in Consumer :
             /\ task'[c] = task[c]
             /\ reader'[c].batch = reader[c].batch
             /\ reader'[c].offset = reader[c].offset
             /\ reader'[c].pc \in Stopped \/ reader[c].pc \notin Stopped
             /\ reader'[c].pc = "apply" \/ task[c].pc = "idle"
    PROVE  CopyInv'
  <1>1. RowsShown'
    BY RowsStay DEF CopyInv, StreamInv, SubscriberTypeOK, copy, correlation,
       collections
  <1>2. \A c \in Consumer : CopyOf(c)'
    BY CopyStays DEF PreloadInv, CopyInv
  <1>3. QED
    BY <1>1, <1>2 DEF CopyInv

LEMMA NextCopy ==
    ASSUME OneConnect, UniqueIds, SubscriberTypeOK, SubscriberTypeOK',
           PreloadInv, CopyInv, [SubscriberNext]_subscriberVars, Whole'
    PROVE  CopyInv'
  <1>1. /\ StreamInv /\ RowsShown /\ TypeOK
        /\ log \in Seq(Message) /\ log' \in Seq(Message)
        /\ reader \in [Consumer -> ReaderState]
        /\ task \in [Task -> TaskState]
        /\ \A c \in Consumer : CopyOf(c) /\ ReadInOrder(c) /\ c \in Task
    BY SubscriberAssumption
       DEF CopyInv, PreloadInv, SubscriberTypeOK, TypeOK
  <1>2. Extends(log, log)
    BY <1>1 DEF Extends
  <1>3. \A c \in Consumer : reader[c].pc = "apply" \/ task[c].pc = "idle"
    BY <1>1 DEF CopyOf
  <1>4. ASSUME NEW w \in Tracer, ObserveRemote(w)
        PROVE  CopyInv'
    <2>1. StreamInv'
      BY <1>1, <1>4, ObserveStream
    <2>2. /\ UNCHANGED copy /\ log' = log /\ reader' = reader
          /\ \A c \in Consumer : task'[c] = task[c]
      BY <1>1, <1>4, ObserveStep
         DEF ObserveRemote, Tracer, copy, subscriber
    <2>3. QED
      BY <1>2, <1>1, <1>3, <2>1, <2>2, OthersStep
  <1>5. ASSUME NEW w \in Tracer, Publish(w)
        PROVE  CopyInv'
    <2>1. StreamInv'
      BY <1>1, <1>5, PublishStream
    <2>2. /\ UNCHANGED copy /\ log' = Append(log, Msg(w)) /\ reader' = reader
          /\ \A c \in Consumer : task'[c] = task[c]
      BY <1>1, <1>5 DEF Publish, Return, Become, Tracer, subscriber
    <2>3. Msg(w) \in Message
      BY <1>1 DEF Msg, Tracer, TaskState
    <2>4. Extends(log, log')
      BY <1>1, <2>2, <2>3, AppendFacts
    <2>5. QED
      BY <1>1, <1>3, <2>1, <2>2, <2>4, OthersStep
  <1>6. CASE PublishForeign
    <2>1. StreamInv'
      BY <1>1, <1>6, ForeignStream
    <2>2. UNCHANGED copy /\ task' = task /\ reader' = reader
      BY <1>6 DEF PublishForeign, subscriber
    <2>3. PICK m : log' = Append(log, m)
      BY <1>6 DEF PublishForeign
    <2>4. Extends(log, log')
      BY <1>1, <2>3 DEF Extends
    <2>5. QED
      BY <1>1, <1>3, <2>1, <2>2, <2>4, OthersStep
  <1>7. ASSUME UNCHANGED <<copy, task, wire, log>>,
               \A c \in Consumer :
                 /\ reader'[c].batch = reader[c].batch
                 /\ reader'[c].offset = reader[c].offset
                 /\ reader'[c].pc \in Stopped \/ reader[c].pc \notin Stopped
                 /\ reader'[c].pc = "apply" \/ task[c].pc = "idle"
        PROVE  CopyInv'
    <2>1. StreamInv'
      BY <1>1, <1>7, StreamFrame
    <2>2. QED
      BY <1>1, <1>2, <1>7, <2>1, OthersStep
  <1>8. CASE UNCHANGED subscriberVars
    BY <1>3, <1>7, <1>8 DEF subscriberVars, vars, copy, subscriber
  <1>9. CASE CancelPreload \/ Disconnect
    BY <1>3, <1>7, <1>9 DEF CancelPreload, Disconnect
  \* the reader of c moves to another place
  <1>10. ASSUME NEW c \in Consumer, UNCHANGED <<copy, task, wire, log>>,
                NEW st, reader' = [reader EXCEPT ![c] = st],
                st.batch = reader[c].batch, st.offset = reader[c].offset,
                st.pc # "apply", reader[c].pc \notin Stopped, task[c].pc = "idle"
         PROVE  CopyInv'
    <2>1. reader'[c] = st /\ \A d \in Consumer \ {c} : reader'[d] = reader[d]
      BY <1>1, <1>10
    <2>2. QED
      BY <1>3, <1>7, <1>10, <2>1
  <1>11. ASSUME Connect \/ Preload
         PROVE  CopyInv'
    <2>1. UNCHANGED <<copy, task, wire, log>> /\ Spawn
      BY <1>11 DEF Connect, Preload
    <2>2. CASE UNCHANGED reader
      BY <1>3, <1>7, <2>1, <2>2
    <2>3. ASSUME NEW c \in Consumer, reader[c].pc = "unused",
                 reader' = [reader EXCEPT ![c].pc = "start",
                                          ![c].origin = Len(log)]
          PROVE  CopyInv'
      <3>1. PICK st : st = [reader[c] EXCEPT !.pc = "start",
                                             !.origin = Len(log)]
        OBVIOUS
      <3>2. reader' = [reader EXCEPT ![c] = st]
        BY <2>3, <3>1
      <3>3. /\ st.batch = reader[c].batch /\ st.offset = reader[c].offset
            /\ st.pc = "start"
        BY <1>1, <3>1 DEF ReaderState
      <3>4. task[c].pc = "idle"
        BY <1>3, <2>3
      <3>5. QED
        BY <1>10, <2>1, <2>3, <3>2, <3>3, <3>4 DEF Stopped
    <2>4. QED
      BY <2>1, <2>2, <2>3 DEF Spawn
  <1>12. ASSUME NEW c \in Consumer, UNCHANGED <<copy, task, wire, log>>,
                NEW pc \in {"read", "ended"},
                reader' = [reader EXCEPT ![c].pc = pc],
                reader[c].pc \notin Stopped, task[c].pc = "idle"
         PROVE  CopyInv'
    <2>1. PICK st : st = [reader[c] EXCEPT !.pc = pc]
      OBVIOUS
    <2>2. reader' = [reader EXCEPT ![c] = st]
      BY <1>12, <2>1
    <2>3. /\ st.batch = reader[c].batch /\ st.offset = reader[c].offset
          /\ st.pc = pc
      BY <1>1, <2>1 DEF ReaderState
    <2>4. QED
      BY <1>10, <1>12, <2>2, <2>3
  <1>13. ASSUME NEW c \in Consumer, Build(c) \/ FinishChunk(c) \/ ReadError(c)
         PROVE  CopyInv'
    <2>1. task[c].pc = "idle" /\ reader[c].pc \notin Stopped
      BY <1>3, <1>13 DEF Build, FinishChunk, EndChunk, ReadError, Stopped
    <2>2. QED
      BY <1>12, <1>13, <2>1 DEF Build, FinishChunk, EndChunk, ReadError
  \* a step of the one consumer
  <1>14. ASSUME NEW c \in Consumer, CopyOf(c)', RowsShown', StreamInv'
         PROVE  CopyInv'
    BY <1>14 DEF OneConnect, CopyInv
  <1>15. ASSUME log' = log, UNCHANGED copy
         PROVE  RowsShown'
    BY <1>1, <1>2, <1>15, RowsStay DEF StreamInv, copy, correlation, collections
  <1>16. ASSUME NEW c \in Consumer, ApplyEvent(c)
         PROVE  CopyInv'
    <2>1. CopyOf(c)'
      BY <1>1, <1>16, ApplyEventCopy
    <2>2. /\ log' = log /\ UNCHANGED <<copy, wire>>
          /\ UNCHANGED task \/ \E st : Become(c, st)
      BY <1>16 DEF ApplyEvent, NextEvent
    <2>3. \A v \in Tracer : task'[v] = task[v]
      BY <1>1, <2>2 DEF Become, Tracer
    <2>4. StreamInv'
      BY <1>1, <2>2, <2>3, StreamFrame
    <2>5. QED
      BY <1>14, <1>15, <2>1, <2>2, <2>4
  <1>17. ASSUME NEW c \in Consumer, ReadChunk(c)
         PROVE  CopyInv'
    <2>1. PICK last \in reader[c].offset..Len(log), upToDate \in BOOLEAN :
            \E events \in {NewUpTo(c, last), <<>>} :
              ReadUpTo(c, last, upToDate, events)
      BY <1>17 DEF ReadChunk
    <2>2. CopyOf(c)'
      BY <1>1, <2>1, ReadCopy DEF Whole
    <2>3. log' = log /\ UNCHANGED <<copy, wire, task>>
      BY <2>1, ChunkTaken
    <2>4. StreamInv'
      BY <1>1, <2>3, StreamFrame
    <2>5. QED
      BY <1>14, <1>15, <2>2, <2>3, <2>4
  <1>18. ASSUME NEW c \in Consumer, ApplyStep(c)
         PROVE  CopyInv'
    <2>1. /\ CopyOf(c)' /\ log' = log /\ UNCHANGED wire
          /\ \A v \in Task \ {c} : task'[v] = task[v]
      BY <1>1, <1>18, ApplyStepCopy
    <2>2. RowsShown'
      BY <1>1, <1>18, ApplyStepRows
    <2>3. \A v \in Tracer : task'[v] = task[v]
      BY <2>1 DEF Tracer
    <2>4. StreamInv'
      BY <1>1, <2>1, <2>3, StreamFrame
    <2>5. QED
      BY <1>14, <2>1, <2>2, <2>4
  <1>19. ASSUME NEW c \in Consumer, Aborted(c)
         PROVE  CopyInv'
    <2>1. PICK pc \in Stopped :
            /\ log' = log /\ UNCHANGED <<copy, wire>> /\ Return(c)
            /\ reader' = [reader EXCEPT ![c].pc = pc]
      BY <1>19 DEF Aborted, Stopped
    <2>2. /\ task'[c].pc = "idle" /\ \A v \in Tracer : task'[v] = task[v]
      BY <1>1, <2>1 DEF Return, Become, IdleTask, Tracer
    <2>3. StreamInv'
      BY <1>1, <2>1, <2>2, StreamFrame
    <2>4. /\ reader'[c].pc \in Stopped /\ reader'[c].batch = reader[c].batch
          /\ reader'[c].offset = reader[c].offset
      <3>1. reader'[c] = [reader[c] EXCEPT !.pc = pc]
        BY <1>1, <2>1
      <3>2. QED
        BY <1>1, <3>1 DEF ReaderState
    <2>5. BatchOfLog(c)'
      BY <1>1, <2>1, <2>4 DEF CopyOf, BatchOfLog
    <2>6. CopyOf(c)'
      BY <2>2, <2>4, <2>5 DEF CopyOf
    <2>7. QED
      BY <1>14, <1>15, <2>1, <2>3, <2>6
  <1>20. CASE \E c \in Consumer : \/ Consume(c) \/ ReadChunk(c)
                                  \/ ReadError(c) \/ Aborted(c)
    BY <1>13, <1>16, <1>17, <1>18, <1>19, <1>20 DEF Consume
  <1>21. QED
    BY <1>4, <1>5, <1>6, <1>8, <1>9, <1>11, <1>20 DEF SubscriberNext

\* What is skipped is never read again.
LEMMA WholeBefore ==
    ASSUME SubscriberTypeOK, [SubscriberNext]_subscriberVars, Whole'
    PROVE  Whole
  <1> SUFFICES ASSUME NEW d \in Consumer PROVE reader[d].whole
    BY DEF Whole
  <1>1. /\ reader \in [Consumer -> ReaderState] /\ reader'[d].whole
        /\ reader[d] \in ReaderState
    BY DEF SubscriberTypeOK, Whole
  <1>2. CASE reader' = reader
    BY <1>1, <1>2
  <1>3. ASSUME NEW c \in Consumer, NEW st,
               reader' = [reader EXCEPT ![c] = st], st.whole => reader[c].whole
        PROVE  reader[d].whole
    BY <1>1, <1>3
  <1>4. CASE \E w \in Tracer : ObserveRemote(w) \/ Publish(w)
    BY <1>2, <1>4 DEF ObserveRemote, Publish, subscriber
  <1>5. CASE PublishForeign \/ CancelPreload \/ Disconnect
    BY <1>2, <1>5 DEF PublishForeign, CancelPreload, Disconnect, subscriber
  <1>6. CASE UNCHANGED subscriberVars
    BY <1>2, <1>6 DEF subscriberVars, subscriber
  <1>7. ASSUME NEW c \in Consumer, NEW pc,
               reader' = [reader EXCEPT ![c].pc = pc]
        PROVE  reader[d].whole
    <2>1. PICK st : st = [reader[c] EXCEPT !.pc = pc]
      OBVIOUS
    <2>2. st.whole = reader[c].whole
      BY <1>1, <2>1 DEF ReaderState
    <2>3. reader' = [reader EXCEPT ![c] = st]
      BY <1>7, <2>1
    <2>4. QED
      BY <1>3, <2>2, <2>3
  <1>8. CASE Connect \/ Preload
    <2>1. Spawn
      BY <1>8 DEF Connect, Preload
    <2>2. ASSUME NEW c \in Consumer,
                 reader' = [reader EXCEPT ![c].pc = "start",
                                          ![c].origin = Len(log)]
          PROVE  reader[d].whole
      <3>1. PICK st : st = [reader[c] EXCEPT !.pc = "start",
                                             !.origin = Len(log)]
        OBVIOUS
      <3>2. st.whole = reader[c].whole
        BY <1>1, <3>1 DEF ReaderState
      <3>3. reader' = [reader EXCEPT ![c] = st]
        BY <2>2, <3>1
      <3>4. QED
        BY <1>3, <3>2, <3>3
    <2>3. QED
      BY <1>2, <2>1, <2>2 DEF Spawn
  <1>9. ASSUME NEW c \in Consumer, ApplyEvent(c) PROVE reader[d].whole
    <2>1. PICK st : st = [reader[c] EXCEPT !.batch = Tail(reader[c].batch)]
      OBVIOUS
    <2>2. st.whole = reader[c].whole
      BY <1>1, <2>1 DEF ReaderState
    <2>3. reader' = [reader EXCEPT ![c] = st]
      BY <1>9, <2>1 DEF ApplyEvent, NextEvent
    <2>4. QED
      BY <1>3, <2>2, <2>3
  <1>10. ASSUME NEW c \in Consumer, ReadChunk(c) PROVE reader[d].whole
    <2>1. PICK last \in reader[c].offset..Len(log), upToDate \in BOOLEAN :
            \E events \in {NewUpTo(c, last), <<>>} :
              ReadUpTo(c, last, upToDate, events)
      BY <1>10 DEF ReadChunk
    <2>2. PICK st \in ReaderState : /\ reader' = [reader EXCEPT ![c] = st]
                                    /\ st.whole => reader[c].whole
      BY <2>1, ChunkTaken
    <2>3. QED
      BY <1>3, <2>2
  <1>11. ASSUME NEW c \in Consumer,
                Build(c) \/ FinishChunk(c) \/ ReadError(c) \/ Aborted(c)
         PROVE  reader[d].whole
    BY <1>7, <1>11 DEF Build, FinishChunk, EndChunk, ReadError, Aborted
  <1>12. ASSUME NEW c \in Consumer, ApplyStep(c) PROVE reader[d].whole
    BY <1>2, <1>12 DEF ApplyStep, subscriber
  <1>13. QED
    BY <1>4, <1>5, <1>6, <1>8, <1>9, <1>10, <1>11, <1>12
       DEF SubscriberNext, Consume

WholeCopy == Whole => CopyInv

LEMMA WholeCopyHolds ==
    ASSUME OneConnect, UniqueIds
    PROVE  SubscriberSpec => [](SubscriberTypeOK /\ WholeCopy)
  <1>1. SubscriberInit => WholeCopy
    BY InitCopy DEF WholeCopy
  <1>2. OneConnect /\ UniqueIds
    OBVIOUS
  <1>3. SubscriberTypeOK /\ SubscriberTypeOK' /\ PreloadInv /\ WholeCopy
        /\ [SubscriberNext]_subscriberVars => WholeCopy'
    BY <1>2, NextCopy, WholeBefore DEF WholeCopy
  <1>4. QED
    BY <1>1, <1>3, PreloadInvHolds, PTL DEF SubscriberSpec

(* A subscriber that connects once never shows a turn that is not a prompt *)
(* of the stream, nor an outcome that is not the one of the stream,        *)
(* whatever the length of the stream, the number of conversations that     *)
(* write it and the places where it is cut, and also when the consumer is  *)
(* aborted in the middle of an event; but not once it has skipped a chunk. *)
THEOREM CopyIsOfTheStream ==
    OneConnect /\ UniqueIds => (SubscriberSpec => []CopyShowsNothingElse)
  <1>1. ASSUME SubscriberTypeOK, WholeCopy
        PROVE  CopyShowsNothingElse
    <2> SUFFICES ASSUME CopyInv, NEW t \in DOMAIN turns
                 PROVE  /\ t \in DOMAIN ReplayedTurns(log)
                        /\ turns[t] = [ReplayedTurns(log)[t]
                                         EXCEPT !.state = turns[t].state]
                        /\ turns[t].state \in
                             {"active", ReplayedTurns(log)[t].state}
      BY <1>1 DEF CopyShowsNothingElse, WholeCopy, Whole
    <2>1. PICK i \in Prompts(log) :
            /\ t = Rank(log, i)
            /\ turns[t].connection = Unknown
            /\ turns[t].session = log[i].session
            /\ turns[t].request = log[i].id
            /\ turns[t].state \in {"active", Outcome(log, i)}
      BY <1>1 DEF CopyInv, RowsShown
    <2>2. log \in Seq(Message) /\ turns[t] \in TurnRow
      BY <1>1 DEF SubscriberTypeOK, TypeOK
    <2>3. PromptOf(log, t) = i /\ t \in 1..Cardinality(Prompts(log))
      BY <2>1, <2>2, PromptOfRank, RankType
    <2>4. /\ t \in DOMAIN ReplayedTurns(log)
          /\ ReplayedTurns(log)[t] =
               [state |-> Outcome(log, i), session |-> log[i].session,
                request |-> log[i].id, connection |-> Unknown]
      BY <2>3 DEF ReplayedTurns, Prompts
    <2>5. QED
      BY <2>1, <2>2, <2>4 DEF TurnRow
  <1>2. CASE OneConnect /\ UniqueIds
    <2>1. SubscriberTypeOK /\ WholeCopy => CopyShowsNothingElse
      BY <1>1
    <2>2. SubscriberSpec => [](SubscriberTypeOK /\ WholeCopy)
      BY <1>2, WholeCopyHolds
    <2>3. SubscriberSpec => []CopyShowsNothingElse
      BY <2>1, <2>2, PTL
    <2>4. QED
      BY <2>3
  <1>3. QED
    BY <1>2

(* Between two events the copy of a subscriber that connects once is       *)
(* exactly what the part of the stream it has applied amounts to: every    *)
(* prompt with its outcome, every update under the number it has in its    *)
(* turn, every connection.  It asks that no chunk was skipped, of the      *)
(* clients that write the stream that they do not overlap two prompts of a *)
(* session, of all parties that they do not share request ids.             *)
THEOREM CopyIsTheReplay ==
    OneConnect /\ UniqueIds /\ Serialized
      => (SubscriberSpec => []CopyIsReplay)
  <1>1. ASSUME Serialized, SubscriberTypeOK, CopyInv, NEW c \in Consumer,
               Between(c)
        PROVE  CopyShows(Applied(c))
    <2>1. PICK s : s = Applied(c)
      OBVIOUS
    <2>2. /\ reader[c].pc \notin Stopped /\ task[c].pc = "idle" /\ c \in Task
          /\ CopyOf(c) /\ TypeOK /\ log \in Seq(Message)
          /\ reader[c] \in ReaderState /\ reader[c].offset <= Len(log)
      BY <1>1, SubscriberAssumption
         DEF Between, Stopped, CopyInv, SubscriberTypeOK
    <2>3. Rest(c) = Model /\ RestConnection(c) = {}
      BY <2>2, RestSpent DEF Spent, RestConnection, Applying
    <2>4. /\ TurnsOf(s, Model) /\ ChunksOf(s, Model)
          /\ DOMAIN connections = Connected(s)
      BY <1>1, <2>1, <2>2, <2>3 DEF CopyOf, ReplayOf
    <2>5. s \in Seq(Message)
      <3>1. PICK p : p = reader[c].offset - Len(reader[c].batch)
        OBVIOUS
      <3>2. /\ reader[c].offset \in Nat /\ Len(reader[c].batch) \in Nat
            /\ Len(log) \in Nat
        BY <2>2 DEF ReaderState
      <3>3. p \in Int /\ p <= Len(log)
        BY <2>2, <3>1, <3>2
      <3>4. SubSeq(log, 1, p) \in Seq(Message)
        BY <2>2, <3>3
      <3>5. QED
        BY <2>1, <3>1, <3>4 DEF Applied
    <2>6. /\ DOMAIN turns = 1..turnCounter
          /\ turnCounter = Cardinality(Prompts(s))
          /\ \A t \in 1..turnCounter : \E i \in Prompts(s) : Rank(s, i) = t
          /\ \A i \in Prompts(s) : Rank(s, i) \in DOMAIN turns =>
               Unscoped(turns[Rank(s, i)]) = RowOf(s, i)
      <3>1. Model.turns = [t \in DOMAIN turns |-> Unscoped(turns[t])]
            /\ Model.turnCounter = turnCounter
        BY ModelFields DEF UnscopedTurns
      <3>2. QED
        BY <2>4, <3>1 DEF TurnsOf
    <2>7. ASSUME NEW t \in 1..turnCounter
          PROVE  turns[t] = ReplayedTurns(s)[t]
      <3>1. PICK i \in Prompts(s) : Rank(s, i) = t
        BY <2>6
      <3>2. Unscoped(turns[t]) = RowOf(s, i)
        BY <2>6, <3>1
      <3>3. /\ turns[t].state = Outcome(s, i)
            /\ turns[t].session = s[i].session
            /\ turns[t].request = s[i].id
        BY <3>2 DEF Unscoped, RowOf
      <3>4. turns[t].connection = Unknown /\ turns[t] \in TurnRow
        BY <1>1, <2>2, <2>6 DEF CopyInv, RowsShown, TypeOK
      <3>5. PromptOf(s, t) = i
        BY <2>5, <3>1, PromptOfRank
      <3>6. ReplayedTurns(s)[t] =
              [state |-> Outcome(s, i), session |-> s[i].session,
               request |-> s[i].id, connection |-> Unknown]
        BY <2>6, <3>5 DEF ReplayedTurns, Prompts
      <3>7. QED
        BY <3>3, <3>4, <3>6 DEF TurnRow
    <2>8. turns = ReplayedTurns(s)
      <3>1. DOMAIN ReplayedTurns(s) = 1..turnCounter
        BY <2>6 DEF ReplayedTurns, Prompts
      <3>2. turns = [t \in 1..turnCounter |-> turns[t]]
        BY <2>2, <2>6 DEF TypeOK
      <3>3. ReplayedTurns(s) = [t \in 1..turnCounter |-> ReplayedTurns(s)[t]]
        BY <3>1 DEF ReplayedTurns
      <3>4. QED
        BY <2>7, <3>2, <3>3
    <2>9. /\ Image(chunks) = ReplayedChunks(s)
          /\ Len(chunks) = Cardinality(ReplayedChunks(s))
      BY <2>4, ModelFields DEF ChunksOf
    <2>10. DOMAIN connections = {s[i].connection : i \in Kind(s, "connection")}
      BY <2>4 DEF Connected
    <2>11. QED
      BY <2>1, <2>8, <2>9, <2>10 DEF CopyShows
  <1>2. CASE OneConnect /\ UniqueIds /\ Serialized
    <2>1. SubscriberTypeOK /\ WholeCopy => CopyIsReplay
      <3>1. ASSUME NEW c \in Consumer, reader[c].whole PROVE Whole
        BY <1>2, <3>1 DEF OneConnect, Whole
      <3>2. QED
        BY <1>1, <1>2, <3>1 DEF CopyIsReplay, WholeCopy
    <2>2. SubscriberSpec => [](SubscriberTypeOK /\ WholeCopy)
      BY <1>2, WholeCopyHolds
    <2>3. SubscriberSpec => []CopyIsReplay
      BY <2>1, <2>2, PTL
    <2>4. QED
      BY <2>3
  <1>3. QED
    BY <1>2
=============================================================================
