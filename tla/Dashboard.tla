------------------------------ MODULE Dashboard ------------------------------
(***************************************************************************)
(* The dashboard (src/bin/dashboard.rs) and its ACP clients (client.rs).   *)
(* It reads agents.toml once, opens a pane and starts a client for every   *)
(* entry, and sends what its user types to the client of the selected      *)
(* pane.  A client opens a session and then takes one prompt after the     *)
(* other from its queue, waits for the whole answer and has it shown.  All *)
(* of it runs on one thread and yields only where a step of a client ends. *)
(*                                                                         *)
(* Panes are found by their agent's name, clients by their index.  The     *)
(* agents and the connections to them are outside: an answer comes or the  *)
(* connection fails, at any time.                                          *)
(***************************************************************************)
EXTENDS AgentsConfig, Functions

CONSTANTS
    MaxPrompts,     \* bound: prompts typed
    MaxLines        \* lines a pane keeps: 200 in the code

ASSUME DashboardAssumption == MaxPrompts \in Nat /\ MaxLines \in Nat \ {0}

VARIABLES
    panes,          \* one for each entry, empty until the launch
    clients,        \* one for each entry
    selected,       \* index of the selected pane
    asked           \* read by the properties only: whom each prompt was for

dashboardVars == <<configVars, panes, clients, selected, asked>>

\* What is shown, by whom and for which prompt.  open: no newline at the end
Piece == [kind: {"ready", "echo", "reply", "error"}, client: 1..MaxEntries,
          prompt: 0..MaxPrompts]
Line  == [text: Seq(Piece), open: BOOLEAN]
Pane  == [name: AgentName, state: {"starting", "ready", "error"},
          lines: Seq(Line)]

\* done, read by the properties only: the prompts that were answered.
Client == [pc: {"starting", "ready", "waiting", "ended"},
           queue: Seq(1..MaxPrompts), prompt: 0..MaxPrompts,
           done: Seq(1..MaxPrompts)]

DashboardInit ==
    /\ ConfigInit
    /\ panes = <<>> /\ clients = <<>>
    /\ selected = 1
    /\ asked = <<>>

\* What is edited after the dashboard has read the file does not concern it.
EditConfig(e) ==
    /\ panes = <<>>
    /\ Edit(e)
    /\ UNCHANGED <<panes, clients, selected, asked>>

\* An empty file, or an agent the public registry does not list, is an error;
\* so is, in a debug build, a last port, which has no port after it.
Launch ==
    /\ panes = <<>>
    /\ Readable(config) /\ Content(config) # <<>>
    /\ LET book == Content(config) IN
         /\ \A i \in DOMAIN book : book[i].agent \notin Unlisted
         /\ panes' = [i \in DOMAIN book |->
                        [name |-> book[i].name, state |-> "starting",
                         lines |-> <<>>]]
         /\ clients' = [i \in DOMAIN book |->
                          [pc |-> "starting", queue |-> <<>>, prompt |-> 0,
                           done |-> <<>>]]
    /\ UNCHANGED <<configVars, selected, asked>>

-----------------------------------------------------------------------------
(* TuiState.                                                               *)

\* Fault of PaneOf: the selected pane.
PaneOfSelected(i) == selected

\* set_state and push_text take the first pane of the name.
PaneOf(i) ==
    CHOOSE k \in DOMAIN panes :
        /\ panes[k].name = panes[i].name
        /\ \A j \in 1..(k - 1) : panes[j].name # panes[i].name

Capped(lines)  == SubSeq(lines, Len(lines) - MaxLines + 1, Len(lines))

\* Fault of Kept: nothing is drained.
KeptAll(lines) == lines

Kept(lines)    == IF Len(lines) > MaxLines THEN Capped(lines) ELSE lines

\* push_text: on to the last line if that is open
PushText(lines, text, open) ==
    LET n == Len(lines) IN
    IF n > 0 /\ lines[n].open
      THEN [lines EXCEPT ![n] = [text |-> @.text \o text, open |-> open]]
      ELSE Kept(Append(lines, [text |-> text, open |-> open]))

Text(kind, i, prompt) == <<[kind |-> kind, client |-> i, prompt |-> prompt]>>

Shows(i, lines) == panes' = [panes EXCEPT ![PaneOf(i)].lines = lines]
ShowsState(i, lines, state) ==
    panes' = [panes EXCEPT ![PaneOf(i)].lines = lines, ![PaneOf(i)].state = state]

LinesOf(i) == panes[PaneOf(i)].lines

-----------------------------------------------------------------------------
(* The user.                                                               *)

Tab == \E step \in {1, Len(panes) - 1} :
    /\ Len(panes) > 1
    /\ selected' = ((selected - 1 + step) % Len(panes)) + 1
    /\ UNCHANGED <<configVars, panes, clients, asked>>

\* Enter: echo the text; send it, which a client that has ended ignores
Types(accepting) ==
    LET i == selected
        n == Len(asked) + 1 IN
    /\ panes # <<>> /\ n <= MaxPrompts
    /\ Shows(i, PushText(LinesOf(i), Text("echo", i, n), FALSE))
    /\ asked' = Append(asked, i)
    /\ clients' = IF clients[i].pc \notin accepting THEN clients
                  ELSE [clients EXCEPT ![i].queue = Append(@, n)]
    /\ UNCHANGED <<configVars, selected>>

\* Fault of Enter: a client that is still starting misses what is typed.
EnterEarlyLost == Types({"ready", "waiting"})

Enter == Types({"starting", "ready", "waiting"})

-----------------------------------------------------------------------------
(* The clients.                                                            *)

\* The session is open: on_ready
Ready(i) ==
    /\ clients[i].pc = "starting"
    /\ clients' = [clients EXCEPT ![i].pc = "ready"]
    /\ ShowsState(i, PushText(LinesOf(i), Text("ready", i, 0), FALSE), "ready")
    /\ UNCHANGED <<configVars, selected, asked>>

\* recv and send_prompt
Receive(i) ==
    /\ clients[i].pc = "ready" /\ clients[i].queue # <<>>
    /\ clients' = [clients EXCEPT ![i].pc = "waiting",
                                  ![i].prompt = Head(clients[i].queue),
                                  ![i].queue = Tail(@)]
    /\ UNCHANGED <<configVars, panes, selected, asked>>

\* The answer to the prompt is read and shown; the client goes on as `pc`.
Answered(i, pc, lines) ==
    /\ clients[i].pc = "waiting"
    /\ clients' = [clients EXCEPT ![i].pc = pc, ![i].prompt = 0,
                                  ![i].done = Append(@, clients[i].prompt)]
    /\ Shows(i, lines)
    /\ UNCHANGED <<configVars, selected, asked>>

ReplyText(i, open) ==
    PushText(LinesOf(i), Text("reply", i, clients[i].prompt), open)

\* Faults of Reply: the newline is forgotten; only one prompt is taken.
ReplyOpen(i) == \E open \in BOOLEAN : Answered(i, "ready", ReplyText(i, open))
ReplyOnce(i) == \E open \in BOOLEAN :
    Answered(i, "ended", PushText(ReplyText(i, open), <<>>, FALSE))

\* read_to_string and on_text: the text, then a newline
Reply(i) == \E open \in BOOLEAN :
    Answered(i, "ready", PushText(ReplyText(i, open), <<>>, FALSE))

\* Any error ends the client, and its queue with it: on_error
Fail(i) ==
    /\ clients[i].pc # "ended"
    /\ clients' = [clients EXCEPT ![i].pc = "ended", ![i].queue = <<>>,
                                  ![i].prompt = 0]
    /\ ShowsState(i, PushText(LinesOf(i), Text("error", i, 0), FALSE), "error")
    /\ UNCHANGED <<configVars, selected, asked>>

Serve(i) == Ready(i) \/ Receive(i) \/ Reply(i)

DashboardNext ==
    \/ \E e \in Editor : EditConfig(e)
    \/ Launch \/ Tab \/ Enter
    \/ \E i \in DOMAIN clients : Serve(i) \/ Fail(i)

DashboardSpec == DashboardInit /\ [][DashboardNext]_dashboardVars

\* The agent of every client answers, unless the connection fails.
FairDashboardSpec ==
    /\ DashboardSpec
    /\ \A i \in 1..MaxEntries :
         WF_dashboardVars(i \in DOMAIN clients /\ Serve(i))

-----------------------------------------------------------------------------
(* Properties.                                                             *)

(* Every variable of the dashboard holds a value of its type.              *)
DashboardTypeOK ==
    /\ ConfigTypeOK
    /\ panes \in Seq(Pane) /\ clients \in Seq(Client)
    /\ Len(clients) = Len(panes) /\ Len(panes) <= MaxEntries
    /\ \A i \in DOMAIN panes : Len(panes[i].lines) <= MaxLines
    /\ selected \in 1..(IF panes = <<>> THEN 1 ELSE Len(panes))
    /\ asked \in Seq(1..MaxEntries)

(* A line shows one echo, reply or message, never two run together,        *)
(* whether or not a reply ends in a newline and whatever is typed while it *)
(* is awaited (push_text, on_text).                                        *)
LinesWhole ==
    \A i \in DOMAIN panes : \A k \in DOMAIN panes[i].lines :
        Len(panes[i].lines[k].text) <= 1 /\ ~panes[i].lines[k].open

(* If no two entries share a name, a pane shows its own agent: every line  *)
(* is about a prompt typed there or comes from its client, and it is in    *)
(* error exactly when its client has ended.                                *)
OwnPane ==
    (\A i, j \in DOMAIN panes : panes[i].name = panes[j].name => i = j)
    => \A i \in DOMAIN panes :
         /\ \A k \in DOMAIN panes[i].lines :
              \A x \in DOMAIN panes[i].lines[k].text :
                panes[i].lines[k].text[x].client = i
         /\ panes[i].state = "error" <=> clients[i].pc = "ended"

\* The prompts client i has answered, is answering and has yet to answer
Taken(i) ==
    clients[i].done
      \o (IF clients[i].prompt = 0 THEN <<>> ELSE <<clients[i].prompt>>)
      \o clients[i].queue

(* A client that has not failed answers the prompts typed for it in the    *)
(* order they were typed: no prompt is lost, repeated or overtaken, also   *)
(* those typed before its session is open.                                 *)
PromptsKept ==
    \A i \in DOMAIN clients : clients[i].pc # "ended" =>
        /\ Range(Taken(i)) = {n \in DOMAIN asked : asked[n] = i}
        /\ \A j, k \in DOMAIN Taken(i) : j < k => Taken(i)[j] < Taken(i)[k]

(* A prompt typed for a client that has not failed is answered in the end, *)
(* or an error is shown.                                                   *)
PromptSettles ==
    \A n \in 1..MaxPrompts :
        (n \in DOMAIN asked /\ clients[asked[n]].pc # "ended")
        ~> (/\ n \in DOMAIN asked
            /\ \/ n \in Range(clients[asked[n]].done)
               \/ panes[PaneOf(asked[n])].state = "error")
=============================================================================
