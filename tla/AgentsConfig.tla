---------------------------- MODULE AgentsConfig ----------------------------
(***************************************************************************)
(* The configuration of the dashboard, agents.toml, and the program that   *)
(* edits it (src/bin/agents.rs).  Every invocation is an editor of its     *)
(* own: it loads the file, changes what it has loaded and writes the file. *)
(* The interactive one loads the file, shows the agents of the public      *)
(* registry for as long as its user likes, and loads the file again before *)
(* it adds the chosen ones.  A truncated TOML file is a valid, empty       *)
(* configuration; a mixture of two either ends the editor or is loaded     *)
(* with entries of both, since keys that are not known are ignored.        *)
(***************************************************************************)
EXTENDS SharedFile

CONSTANTS
    Editor,         \* invocations of `agents`, each used once
    Offered,        \* the agents of the public registry, in its order
    Unlisted,       \* agent ids that it does not list, accepted all the same
    Alias,          \* names chosen with --name
    Port,           \* ports chosen with --port
    AutoPort,       \* no --port
    Width,          \* ports are 0..Width - 1: 2^16 in the code
    LastPort,       \* where numbering starts: 4435 in the code
    MaxEntries      \* bound: entries an editor works with

Listed      == {Offered[n] : n \in DOMAIN Offered}
AgentId     == Listed \cup Unlisted
AgentName   == AgentId \cup Alias
\* by, read by the properties only: how the entry was added.  A late picker
\* adds to a file with agents that were not there when it opened.
AgentEntry  == [name: AgentName, port: 0..(Width - 1), agent: AgentId,
                by: {"add", "add --port", "picker", "late picker"}]

ASSUME ConfigAssumption ==
    /\ Offered \in Seq(Listed)
    /\ \A m, n \in DOMAIN Offered : Offered[m] = Offered[n] => m = n
    /\ Width \in Nat /\ LastPort \in Nat \ {0} /\ LastPort + 4 < Width
    /\ Port \subseteq 0..(Width - 1) /\ AutoPort \notin Port
    /\ MaxEntries \in Nat

VARIABLES
    config,         \* agents.toml
    editor,         \* [Editor -> what the invocation is doing]
    \* read by the properties only
    spliced         \* a save left entries of two documents in the file

configVars == <<config, editor, spliced>>

\* marks: the agents the picker shows as configured; book: what was loaded
\* when it opened, then what to write
EditorState == [pc: {"new", "picking", "open", "write", "done"},
                marks: SUBSET AgentId, book: Seq(AgentEntry)]

NewEditor  == [pc |-> "new", marks |-> {}, book |-> <<>>]
DoneEditor == [NewEditor EXCEPT !.pc = "done"]

ConfigInit ==
    /\ config = {<<>>}
    /\ editor = [e \in Editor |-> NewEditor]
    /\ spliced = FALSE

Goes(e, st) == editor' = [editor EXCEPT ![e] = st]
Saves(e, book) ==
    /\ Len(book) <= MaxEntries
    /\ Goes(e, [NewEditor EXCEPT !.pc = "open", !.book = book])

\* load_config
Loadable == config = {} \/ Readable(config)
Loaded   == IF config = {} THEN <<>> ELSE Content(config)

Names(book)  == {book[i].name : i \in DOMAIN book}
Ports(book)  == {book[i].port : i \in DOMAIN book}
Agents(book) == {book[i].agent : i \in DOMAIN book}
Highest(S)  == CHOOSE p \in S : \A q \in S : q <= p

\* Fault of NextPort: an agent takes one port.
NextPortTight(book) ==
    ((IF book = <<>> THEN LastPort ELSE Highest(Ports(book))) + 1) % Width

\* An agent takes two ports.  The sum overflows in 16 bits: a release build
\* wraps, a debug build panics, which is Quit.
NextPort(book) ==
    ((IF book = <<>> THEN LastPort ELSE Highest(Ports(book))) + 2) % Width

Entry(name, port, agent, by) ==
    [name |-> name, port |-> port, agent |-> agent, by |-> by]

-----------------------------------------------------------------------------
(* The commands.                                                           *)

\* Fault of Added: the name is not looked for.
AddedBlindly(book, id, name, port) ==
    Append(book, IF port = AutoPort
                   THEN Entry(name, NextPort(book), id, "add")
                   ELSE Entry(name, port, id, "add --port"))

\* One id of `add`: skipped if the name is taken
Added(book, id, name, port) ==
    IF name \in Names(book) THEN book
    ELSE Append(book, IF port = AutoPort
                        THEN Entry(name, NextPort(book), id, "add")
                        ELSE Entry(name, port, id, "add --port"))

\* add <id> [--name] [--port]
AddOne(e) ==
    \E id \in AgentId, name \in AgentName, port \in Port \cup {AutoPort} :
    /\ editor[e].pc = "new" /\ Loadable
    /\ name \in {id} \cup Alias
    /\ Saves(e, Added(Loaded, id, name, port))
    /\ UNCHANGED <<config, spliced>>

\* add <id> <id>: --name and --port are ignored
AddSome(e) == \E first, second \in AgentId :
    /\ editor[e].pc = "new" /\ Loadable
    /\ Saves(e, Added(Added(Loaded, first, first, AutoPort),
                      second, second, AutoPort))
    /\ UNCHANGED <<config, spliced>>

\* The agents the picker marks as configured
OpenPickerWith(e, marks) ==
    /\ editor[e].pc = "new" /\ Loadable
    /\ Goes(e, [NewEditor EXCEPT !.pc = "picking", !.marks = marks,
                                !.book = Loaded])
    /\ UNCHANGED <<config, spliced>>

\* Fault of OpenPicker: the marks are the names that are taken.
OpenPickerByName(e) == OpenPickerWith(e, Names(Loaded) \cap AgentId)

\* add, without ids: mark the agents that are configured under any name
OpenPicker(e) == OpenPickerWith(e, Agents(Loaded))

\* What the picker returns: the toggled agents, or the one under the cursor
PickerResults == SUBSET Listed \ {{}}

\* Enter: the chosen agents that are not marked, in the order of the registry
Picked(book, ids, by) ==
    LET upTo[n \in 0..Len(Offered)] ==
          IF n = 0 THEN book
          ELSE IF Offered[n] \notin ids THEN upTo[n - 1]
          ELSE Append(upTo[n - 1], Entry(Offered[n], NextPort(upTo[n - 1]),
                                         Offered[n], by))
    IN upTo[Len(Offered)]

Confirm(e) == \E chosen \in PickerResults :
    /\ editor[e].pc = "picking"
    /\ LET ids == chosen \ editor[e].marks
           by  == IF Agents(Loaded) \subseteq Agents(editor[e].book)
                    THEN "picker" ELSE "late picker" IN
         IF ids = {} \/ ~Loadable THEN Goes(e, DoneEditor)
         ELSE Saves(e, Picked(Loaded, ids, by))
    /\ UNCHANGED <<config, spliced>>

\* retain: the entries of other names
Without(book, name) ==
    LET upTo[n \in 0..Len(book)] ==
          IF n = 0 THEN <<>>
          ELSE IF book[n].name = name THEN upTo[n - 1]
          ELSE Append(upTo[n - 1], book[n])
    IN upTo[Len(book)]

\* remove <name>: an error if there is no such entry
RemoveAgent(e) == \E name \in AgentName :
    /\ editor[e].pc = "new" /\ Loadable
    /\ name \in Names(Loaded)
    /\ Saves(e, Without(Loaded, name))
    /\ UNCHANGED <<config, spliced>>

\* clear: saves without loading
Clear(e) ==
    /\ editor[e].pc = "new"
    /\ Saves(e, <<>>)
    /\ UNCHANGED <<config, spliced>>

\* save_config
OpenConfig(e) ==
    /\ editor[e].pc = "open"
    /\ config' = AfterOpen
    /\ Goes(e, [editor[e] EXCEPT !.pc = "write"])
    /\ UNCHANGED spliced

WriteConfig(e) ==
    /\ editor[e].pc = "write"
    /\ config' \in AfterSplice(config, editor[e].book)
    /\ \A book \in config' : Len(book) <= MaxEntries
    /\ spliced' = (spliced \/ config' \notin AfterWrite(config, editor[e].book))
    /\ Goes(e, DoneEditor)

\* q in the picker, an error, a panic, a kill
Quit(e) ==
    /\ editor[e].pc \in {"picking", "open", "write"}
    /\ Goes(e, DoneEditor)
    /\ UNCHANGED <<config, spliced>>

Edit(e) ==
    \/ AddOne(e) \/ AddSome(e) \/ RemoveAgent(e) \/ Clear(e)
    \/ OpenPicker(e) \/ Confirm(e)
    \/ OpenConfig(e) \/ WriteConfig(e) \/ Quit(e)

-----------------------------------------------------------------------------
(* Properties.                                                             *)

ConfigTypeOK ==
    /\ config \subseteq Seq(AgentEntry)
    /\ editor \in [Editor -> EditorState]
    /\ spliced \in BOOLEAN

(* An entry that got its port from the program shares neither of its two   *)
(* ports with an entry above it, whatever other editors did between the    *)
(* loads and the saves (next_port).  Two cases are not meant: ports 0 and  *)
(* 1, which only a numbering that has wrapped hands out, and a file that   *)
(* two saves at the same time left with entries of both.                   *)
AutoPortsDisjoint ==
    ~ spliced => \A book \in config : \A i, j \in DOMAIN book :
        i < j /\ book[j].by # "add --port" /\ book[j].port > 1
            => book[i].port + 1 < book[j].port

(* `add` never adds a name, and the picker never adds an agent, that the   *)
(* file has already, whatever other editors did between the loads and the  *)
(* saves (main, add_interactive).  Not meant are a picker confirmed after  *)
(* others added agents, and a file with entries of two saves.              *)
NothingAddedTwice ==
    ~ spliced => \A book \in config : \A i, j \in DOMAIN book : i < j =>
        /\ book[j].by \in {"add", "add --port"} => book[i].name # book[j].name
        /\ book[j].by = "picker" => book[i].agent # book[j].agent
=============================================================================
