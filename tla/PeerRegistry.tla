---------------------------- MODULE PeerRegistry ----------------------------
(***************************************************************************)
(* The peer registry (src/registry.rs): one JSON file of the machine, in   *)
(* which every conductor keeps an entry for its name.  A conductor         *)
(* registers when it starts and unregisters when its conversation ends     *)
(* (src/main.rs).  A dashboard registers every agent it is going to run,   *)
(* before it starts the conductor of any, and unregisters all of them when *)
(* it is closed (src/bin/dashboard.rs).  The agents look each other up in  *)
(* the file (src/peer_mcp.rs, src/api.rs).                                 *)
(*                                                                         *)
(* Each call reads the file, changes what it has read and writes the file, *)
(* without a lock.  A process that fails or is killed leaves its entry     *)
(* behind, and the file as it is.                                          *)
(***************************************************************************)
EXTENDS SharedFile

CONSTANTS
    Conductor,      \* conductor processes, each of one run
    Dashboard,      \* dashboard processes
    Name,           \* agent names
    NamesOf,        \* [Process -> Seq(Name)]: what a process registers
    Launcher,       \* [Conductor -> SUBSET Dashboard]: who starts it, if any
    Unreadable,     \* the answer of a lookup that cannot read the file
    NoPeer          \* the answer of a lookup that finds no entry

Process == Conductor \cup Dashboard
Entry   == [name: Name, by: Process]

ASSUME RegistryAssumption ==
    /\ NamesOf \in [Process -> Seq(Name)]
    /\ \A p \in Process : NamesOf[p] # <<>>
    /\ Launcher \in [Conductor -> SUBSET Dashboard]
    /\ Unreadable # NoPeer /\ {Unreadable, NoPeer} \cap Process = {}

VARIABLES
    file,           \* registry.json; a missing file reads as no entries
    proc,           \* the processes
    \* read by the properties only
    directory,      \* the registrant of each name, had every call been one step
    disturbed       \* two calls overlapped, or one died in the middle

registryVars == <<file, proc, directory, disturbed>>

\* step: the next step of the call for Head(todo); book: what it will write.
ProcState == [phase: {"new", "joining", "up", "leaving", "gone"},
              step: {"read", "open", "write"},
              todo: Seq(Name), book: SUBSET Entry]

NewProc == [phase |-> "new", step |-> "read", todo |-> <<>>, book |-> {}]

RegistryInit ==
    /\ file = {{}}
    /\ proc = [p \in Process |-> NewProc]
    /\ directory = [n \in Name |-> NoPeer]
    /\ disturbed = FALSE

-----------------------------------------------------------------------------
(* register and unregister.                                                *)

Calling(p) == proc[p].phase \in {"joining", "leaving"}
Amid(p)    == Calling(p) /\ proc[p].step # "read"

\* Faults of Updated: an entry of the same name stays; a process removes no
\* entry but its own.
UpdatedKeeps(book, p, n) ==
    IF proc[p].phase = "joining" THEN book \cup {[name |-> n, by |-> p]}
    ELSE {e \in book : e.name # n}
UpdatedOwn(book, p, n) ==
    IF proc[p].phase = "joining"
      THEN {e \in book : e.name # n} \cup {[name |-> n, by |-> p]}
      ELSE book \ {[name |-> n, by |-> p]}

\* What the call of p for n makes of the entries: retain those of other
\* names, whoever put them there; push the own one when it registers.
Updated(book, p, n) ==
    {e \in book : e.name # n} \cup
    (IF proc[p].phase = "joining" THEN {[name |-> n, by |-> p]} ELSE {})

\* read_registry().unwrap_or_default(): a file that does not parse is one
\* without entries.
Read(p) ==
    /\ Calling(p) /\ proc[p].step = "read"
    /\ proc' = [proc EXCEPT
         ![p].step = "open",
         ![p].book = Updated(IF Readable(file) THEN Content(file) ELSE {},
                             p, Head(proc[p].todo))]
    /\ disturbed' = (disturbed \/ \E q \in Process \ {p} : Amid(q))
    /\ UNCHANGED <<file, directory>>

\* Fault of Open: the file is opened without truncating it.
OpenAsIs(p) ==
    /\ Calling(p) /\ proc[p].step = "open"
    /\ proc' = [proc EXCEPT ![p].step = "write"]
    /\ UNCHANGED <<file, directory, disturbed>>

Open(p) ==
    /\ Calling(p) /\ proc[p].step = "open"
    /\ file' = AfterOpen
    /\ proc' = [proc EXCEPT ![p].step = "write"]
    /\ UNCHANGED <<directory, disturbed>>

\* The last call of the loop ends the phase.
Write(p) ==
    /\ Calling(p) /\ proc[p].step = "write"
    /\ file' \in AfterWrite(file, proc[p].book)
    /\ directory' = [directory EXCEPT ![Head(proc[p].todo)] =
                        IF proc[p].phase = "joining" THEN p ELSE NoPeer]
    /\ proc' = [proc EXCEPT
         ![p].step = "read", ![p].todo = Tail(@), ![p].book = {},
         ![p].phase = IF Tail(proc[p].todo) # <<>> THEN @
                      ELSE IF @ = "joining" THEN "up" ELSE "gone"]
    /\ UNCHANGED disturbed

-----------------------------------------------------------------------------
(* The processes.                                                          *)

Begin(p, phase) ==
    /\ proc' = [proc EXCEPT ![p].phase = phase, ![p].todo = NamesOf[p]]
    /\ UNCHANGED <<file, directory, disturbed>>

\* Fault of Start: a conductor is started while its dashboard is still
\* registering.
StartAtOnce(p) ==
    /\ proc[p].phase = "new"
    /\ p \in Conductor => \A d \in Launcher[p] : proc[d].phase \in {"joining", "up"}
    /\ Begin(p, "joining")

\* The clients of a dashboard run, and with them its conductors, when its
\* loop over the agents is done.
Start(p) ==
    /\ proc[p].phase = "new"
    /\ p \in Conductor => \A d \in Launcher[p] : proc[d].phase = "up"
    /\ Begin(p, "joining")

\* Fault of Leave: there is no name to unregister.
LeaveNameless(p) ==
    /\ proc[p].phase = "up"
    /\ proc' = [proc EXCEPT ![p].phase = "leaving"]
    /\ UNCHANGED <<file, directory, disturbed>>

\* The conversation, or the dashboard, ends.
Leave(p) ==
    /\ proc[p].phase = "up"
    /\ Begin(p, "leaving")

\* Killed, or failed: a port in use ends a conductor that has registered.
Crash(p) ==
    /\ proc[p].phase \notin {"new", "gone"}
    /\ proc' = [proc EXCEPT ![p] = [NewProc EXCEPT !.phase = "gone"]]
    /\ disturbed' = (disturbed \/ Amid(p))
    /\ UNCHANGED <<file, directory>>

RegistryNext == \E p \in Process :
    \/ Start(p) \/ Leave(p) \/ Crash(p)
    \/ Read(p) \/ Open(p) \/ Write(p)

RegistrySpec == RegistryInit /\ [][RegistryNext]_registryVars

-----------------------------------------------------------------------------
(* Lookups, which change nothing.                                          *)

\* get_registry and list_agents
Peers == IF Readable(file) THEN Content(file) ELSE Unreadable

\* prompt_agent, up to the call of the peer
FindPeer(n) ==
    IF Peers = Unreadable THEN Unreadable
    ELSE IF \A e \in Peers : e.name # n THEN NoPeer
    ELSE (CHOOSE e \in Peers : e.name = n).by

-----------------------------------------------------------------------------
(* Properties.                                                             *)

(* Every variable of the registry holds a value of its type.               *)
RegistryTypeOK ==
    /\ file \subseteq SUBSET Entry
    /\ proc \in [Process -> ProcState]
    /\ \A p \in Process : IF Calling(p) THEN proc[p].todo # <<>>
                           ELSE proc[p].step = "read"
    /\ directory \in [Name -> Process \cup {NoPeer}]
    /\ disturbed \in BOOLEAN

Unique(book) == \A e, f \in book : e.name = f.name => e = f

(* However the calls interleave and wherever a process dies, no name has   *)
(* two entries: the first one a lookup finds is the only one.              *)
UniqueNames ==
    /\ \A book \in file : Unique(book)
    /\ \A p \in Process : Unique(proc[p].book)

\* The entries of the directory
Listed == {e \in Entry : directory[e.name] = e.by}

(* As long as no two calls overlap and none dies between its read and its  *)
(* write, the file is what the calls amount to, and readable except while  *)
(* one of them writes.                                                     *)
UndisturbedIsExact ==
    ~disturbed =>
        /\ \A p, q \in Process : Amid(p) /\ Amid(q) => p = q
        /\ \A p \in Process : Amid(p) =>
             proc[p].book = Updated(Listed, p, Head(proc[p].todo))
        /\ file = IF \E p \in Process : Amid(p) /\ proc[p].step = "write"
                    THEN {} ELSE {Listed}

Rivals(c) == {p \in Process \ {c} : \E i \in DOMAIN NamesOf[p], j \in DOMAIN NamesOf[c] :
                                      NamesOf[p][i] = NamesOf[c][j]}

(* A conductor that is up is found under its name, with its own connection *)
(* id and not the one its dashboard invented, unless calls are disturbed,  *)
(* one is writing, another process has used the name, or its dashboard is  *)
(* closing.                                                                *)
ConductorFound ==
    \A c \in Conductor :
        (/\ ~disturbed /\ proc[c].phase = "up" /\ Peers # Unreadable
         /\ \A p \in Rivals(c) : proc[p].phase =
                                   IF p \in Launcher[c] THEN "up" ELSE "new")
        => \A i \in DOMAIN NamesOf[c] : FindPeer(NamesOf[c][i]) = c
=============================================================================
