---------------------------- MODULE StreamServer ----------------------------
(***************************************************************************)
(* The conductor process around StreamDb: the durable log it appends to    *)
(* before it applies a message (src/stream_server.rs, append_json), the    *)
(* boot sequence that rebuilds the read model from the log and announces a *)
(* new connection (start_with_dir, main), and crashes.                     *)
(*                                                                         *)
(* The tasks are the tracers and Main.  Everything StreamDb keeps is in    *)
(* memory and lost in a crash; the log is what survives.  The file storage *)
(* is the external durable-streams server: an append is atomic and durable *)
(* or is refused.  The stream is not this process's own: HTTP clients      *)
(* append to it and delete it, and other conductors started on the same    *)
(* directory (the default) write their own conversations to it.  Envelopes *)
(* of turn and chunk rows, which no part of the repository writes, are not *)
(* among the messages.                                                     *)
(***************************************************************************)
EXTENDS StreamDb

CONSTANTS
    Main,           \* the task that boots the process
    Foreign,        \* messages others may append, of any kind in Message
    MaxLog,         \* bound: messages the stream has room for at most
    MaxMishaps,     \* bound: changes of the stream by others, and appends
                    \*        refused although there is room
    MaxBoots        \* bound: boots of one behaviour

ASSUME StreamServerAssumption ==
    /\ Main \in Task
    /\ ClientIds[Main] = {} /\ AgentIds[Main] = {}
    /\ Foreign \subseteq Message
    /\ MaxLog \in Nat /\ MaxMishaps \in Nat
    /\ MaxBoots \in Nat

VARIABLES
    log,            \* the state stream on disk
    phase,          \* where the process is
    unread,         \* messages rebuild_state has read and not applied
    self,           \* connection_id of main
    boots,          \* boots so far
    mishaps,        \* see MaxMishaps
    \* history, read by the properties only
    apart,          \* others changed what a replay shows since the last boot
    known,          \* turn -> the first outcome it was ever shown with
    before          \* <<what an idle process last went down with>> until a
                    \*        boot has replayed it, or <<>>

server     == <<log, phase, unread, self, boots, mishaps>>
history    == <<apart, known, before>>
memory     == <<correlation, collections, channel, task, wire>>
serverVars == <<vars, server, history>>

Tracer == Task \ {Main}
Phase  == {"down", "rebuild", "announce", "serving", "failed"}

\* The limits of the file storage (MAX_STREAM_BYTES, MAX_TOTAL_BYTES) count
\* bytes, those of other streams too: a long message may be refused before a
\* short one is taken, so an append may fail at any length of the log.
HasRoom == Len(log) < MaxLog

\* A stream that was deleted takes nothing until it is created again.
MayBeGone == log = <<>>

\* The storage takes a message, or refuses it.
Storage(taken, room) ==
    IF taken THEN room /\ UNCHANGED mishaps
    ELSE \/ (~ room \/ MayBeGone) /\ UNCHANGED mishaps
         \/ mishaps < MaxMishaps /\ mishaps' = mishaps + 1

Envelope(kind, c) == [NoMessage EXCEPT !.kind = kind, !.connection = c]

-----------------------------------------------------------------------------
(* The history variables.                                                  *)

Remembered == [connections |-> connections, turns |-> turns, chunks |-> chunks,
               requestTurn |-> requestTurn, pendingNew |-> pendingNew,
               activeTurn |-> activeTurn, chunkSeq |-> chunkSeq,
               turnCounter |-> turnCounter]

AllIdle == \A w \in Task : task[w].pc = "idle"

\* The outcomes shown by a process that has seen what others wrote.
Shown == IF apart THEN {}
         ELSE {u \in DOMAIN turns : turns[u].state \in Terminal}

\* known keeps the first outcome shown of every turn.
Remember ==
    known' = [t \in DOMAIN known \cup Shown' |->
                IF t \in DOMAIN known THEN known[t] ELSE Unscoped(turns'[t])]

-----------------------------------------------------------------------------
ServerInit ==
    /\ Init
    /\ connectionId = Unknown
    /\ log = <<>> /\ unread = <<>>
    /\ phase = "down"
    /\ self = Unknown
    /\ boots = 0 /\ mishaps = 0
    /\ apart = FALSE /\ known = EmptyMap /\ before = <<>>

BootWith(messages) ==
    /\ phase = "down"
    /\ boots < MaxBoots
    /\ boots' = boots + 1
    /\ phase' = "rebuild"
    /\ unread' = messages
    /\ apart' = FALSE
    /\ UNCHANGED <<memory, log, self, mishaps, before>>

\* Fault of Boot: the last message of the stream is not read.
BootShort == BootWith(SubSeq(log, 1, Len(log) - 1))

\* start_with_dir: a new StreamDb; rebuild_state reads the whole stream.
Boot == BootWith(log)

\* rebuild_state: apply the next message, and stop at the first that fails.
Replay ==
    /\ phase = "rebuild" /\ unread # <<>>
    /\ task[Main].pc = "idle"
    /\ unread' = Tail(unread)
    /\ IF Head(unread).kind = "unsupported"
         THEN phase' = "failed" /\ UNCHANGED task
         ELSE /\ Become(Main, [IdleTask EXCEPT !.pc = "apply",
                                               !.msg = Head(unread)])
              /\ UNCHANGED phase
    /\ UNCHANGED <<correlation, collections, channel, wire, log, self, boots,
                   mishaps, apart, before>>

Rebuilt == phase = "rebuild" /\ unread = <<>> /\ task[Main].pc = "idle"

\* main: append and apply the row of a new connection.
AnnounceConnection == \E c \in Connection, taken \in BOOLEAN :
    /\ Rebuilt
    /\ \A i \in DOMAIN log : log[i].connection # c
    /\ self' = c
    /\ Storage(taken, HasRoom)
    /\ IF taken
         THEN /\ log' = Append(log, Envelope("connection", c))
              /\ Become(Main, [IdleTask EXCEPT !.pc = "apply",
                                 !.msg = Envelope("connection", c)])
              /\ phase' = "announce" /\ before' = <<>>
         ELSE phase' = "failed" /\ UNCHANGED <<log, task, before>>
    /\ UNCHANGED <<correlation, collections, channel, wire, unread, boots,
                   apart>>

\* main: set_connection_id, and only then start the tracers.
Serve ==
    /\ phase = "announce" /\ task[Main].pc = "idle"
    /\ SetConnectionId(self)
    /\ phase' = "serving"
    /\ UNCHANGED <<log, unread, self, boots, mishaps, apart, before>>

\* A tracer takes the next event of its conversation.
Trace(w) ==
    /\ phase = "serving" /\ w \in Tracer
    /\ Observe(w)
    /\ UNCHANGED <<server, apart, before>>

\* The log takes the message if `taken`; the task applies it if `apply`.
AppendAs(w, taken, apply) ==
    /\ task[w].pc = "append"
    /\ log' = IF taken THEN Append(log, Msg(w)) ELSE log
    /\ IF apply THEN task' = [task EXCEPT ![w].pc = "apply"] ELSE Return(w)
    /\ UNCHANGED <<correlation, collections, channel, wire, phase, unread,
                   self, boots, apart, before>>

\* Faults of AppendJson: the size limit is missed by one; a message that was
\* not appended is applied; session updates are not appended.
AppendJsonOneMore(w) == \E taken \in BOOLEAN :
    Storage(taken, Len(log) <= MaxLog) /\ AppendAs(w, taken, taken)
AppendJsonAnyway(w) == \E taken \in BOOLEAN :
    Storage(taken, HasRoom) /\ AppendAs(w, taken, TRUE)
AppendJsonNoUpdates(w) == \E taken \in BOOLEAN :
    /\ Storage(taken, HasRoom)
    /\ AppendAs(w, taken /\ Msg(w).kind # "session/update", taken)

\* append_json: append to the log, then apply; a failed append is ignored by
\* the tracer, which goes on with its next event.
AppendJson(w) == \E taken \in BOOLEAN :
    Storage(taken, HasRoom) /\ AppendAs(w, taken, taken)

ApplyStep(w) ==
    /\ Apply(w) \/ IgnoreLegacy(w) \/ ApplyConnection(w)
    /\ UNCHANGED <<server, apart, before>>

\* A replay of m shows no other turns, chunks or correlation.
Silent(m) == m.kind \in {"request", "notification", "connection", "legacy",
                        "unsupported"}

\* Others change the stream, whatever this process is doing: its read model
\* does not see it before the next boot.
ByOthers ==
    /\ mishaps < MaxMishaps
    /\ mishaps' = mishaps + 1
    /\ UNCHANGED <<memory, phase, unread, self, boots>>

\* POST by an HTTP client, or append_json of another conductor
ForeignAppend == \E m \in Foreign :
    /\ HasRoom
    /\ log' = Append(log, m)
    /\ IF Silent(m) THEN UNCHANGED <<apart, before>>
                    ELSE apart' = TRUE /\ before' = <<>>
    /\ ByOthers

\* DELETE by an HTTP client: there is nothing left to be remembered.  A boot
\* or a PUT creates the stream again.
DeleteStream ==
    /\ log' = <<>>
    /\ apart' = TRUE /\ before' = <<>> /\ known' = EmptyMap
    /\ ByOthers

\* All that is in memory is gone, and so are the connections to the clients.
LoseMemory ==
    /\ requestTurn' = EmptyMap /\ pendingNew' = {}
    /\ activeTurn' = EmptyMap /\ chunkSeq' = EmptyMap
    /\ connectionId' = Unknown /\ turnCounter' = 0
    /\ connections' = EmptyMap /\ turns' = EmptyMap /\ chunks' = <<>>
    /\ subscribed' = FALSE /\ feed' = <<>> /\ lagged' = FALSE
    /\ task' = [w \in Task |-> IdleTask]
    /\ outstanding' = [w \in Task |-> {}]
    /\ established' = [w \in Task |-> {}]

\* The process dies, or exits after a failed boot.
Crash ==
    /\ phase # "down"
    /\ phase' = "down"
    /\ unread' = <<>> /\ self' = Unknown
    /\ before' = IF phase # "serving" THEN before
                 ELSE IF AllIdle /\ ~ apart THEN <<Remembered>> ELSE <<>>
    /\ LoseMemory
    /\ UNCHANGED <<log, boots, mishaps, apart>>

ServerNext ==
    \/ /\ \/ Boot \/ Replay \/ AnnounceConnection \/ Serve
          \/ \E w \in Task : Trace(w) \/ AppendJson(w) \/ ApplyStep(w)
          \/ ForeignAppend
          \/ Crash
       /\ Remember
    \/ DeleteStream

ServerSpec == ServerInit /\ [][ServerNext]_serverVars

-----------------------------------------------------------------------------
(* Properties.                                                             *)

(* Every variable of the process holds a value of its type.                *)
ServerTypeOK ==
    /\ TypeOK
    /\ log \in Seq(Message) /\ Len(log) <= MaxLog
    /\ unread \in Seq(Message)
    /\ phase \in Phase
    /\ self \in Connection \cup {Unknown}
    /\ boots \in 0..MaxBoots
    /\ mishaps \in 0..MaxMishaps
    /\ apart \in BOOLEAN

\* Row `row` is that of the t-th prompt of the stream s.
PromptsUpTo(s, k) == Cardinality({j \in 1..k : s[j].kind = "session/prompt"})
NamesPrompt(s, t, row) == \E k \in DOMAIN s :
    /\ s[k].kind = "session/prompt" /\ PromptsUpTo(s, k) = t
    /\ row.session = s[k].session /\ row.request = s[k].id

(* The number of a turn is the position of its prompt in the log, in every *)
(* phase of every boot, although turn_counter is never stored (state.rs,   *)
(* handle_trace_request).  This is so whatever others wrote before the     *)
(* boot; what they write to the stream while the process runs it does not  *)
(* count, and its later turns are renumbered by the next boot (~ apart).   *)
TurnsNameLogPrompts ==
    ~ apart => \A t \in DOMAIN turns : NamesPrompt(log, t, turns[t])

(* An outcome that was ever shown for a turn is the one every later boot   *)
(* shows, from the moment it serves: no crash between the append and the   *)
(* apply of a message or between the two sections of a handler, no refused *)
(* append and no message of others, appended later or already there, loses *)
(* or changes it.  Not meant are the outcomes a process shows after others *)
(* changed the stream under it, and a stream that is deleted.              *)
OutcomesSurvive ==
    phase = "serving" =>
        \A t \in DOMAIN known : t \in DOMAIN turns
                                /\ Unscoped(turns[t]) = known[t]

(* A boot after the process went down with nothing under way rebuilds the  *)
(* turns, the chunks and the correlation maps the process had, except that *)
(* every turn is now of the connection "unknown": rebuild_state runs       *)
(* before set_connection_id.  ("Used for verifying that replay produces    *)
(* the same state as live processing", stream_server.rs: it does up to the *)
(* connection ids, unless others changed the stream in between.)           *)
ReplayMatchesLive ==
    Rebuilt /\ before # <<>> =>
        LET b == before[1] IN
        /\ turns = [t \in DOMAIN b.turns |->
                      [b.turns[t] EXCEPT !.connection = Unknown]]
        /\ chunks = b.chunks
        /\ requestTurn = b.requestTurn /\ pendingNew = b.pendingNew
        /\ activeTurn = b.activeTurn /\ chunkSeq = b.chunkSeq
        /\ turnCounter = b.turnCounter

(* Once the process has applied everything it appended, its turns are the  *)
(* ones a replay of the log in its order numbers: one turn per prompt, in  *)
(* log order, unless others appended to the stream since it was read.      *)
LiveTurnsAreReplayTurns ==
    phase = "serving" /\ AllIdle /\ ~ apart =>
        /\ DOMAIN turns = 1..PromptsUpTo(log, Len(log))
        /\ TurnsNameLogPrompts

(* A boot after the process went down with nothing under way rebuilds the  *)
(* connection rows too: state, session and working directory of each       *)
(* connection, as the process last showed them.                            *)
ReplayKeepsConnections ==
    Rebuilt /\ before # <<>> => connections = before[1].connections
=============================================================================
