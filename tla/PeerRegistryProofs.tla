------------------------- MODULE PeerRegistryProofs -------------------------
(* Proofs of the invariants of PeerRegistry, for any number of conductors, *)
(* dashboards and names.                                                   *)
EXTENDS PeerRegistry, TLAPS

(* What a call makes of a set of entries is a set of entries, in which the *)
(* names are unique if they were (registry.rs, retain and push).           *)
LEMMA UpdatedUnique ==
    ASSUME NEW p \in Process, NEW nm \in Name, NEW book \in SUBSET Entry
    PROVE  /\ Updated(book, p, nm) \in SUBSET Entry
           /\ Unique(book) => Unique(Updated(book, p, nm))
BY DEF Updated, Unique, Entry

(* The content of a file that can be read is the one document it holds.    *)
LEMMA ContentHeld ==
    ASSUME NEW f, Readable(f)
    PROVE  Content(f) \in f /\ f = {Content(f)}
BY DEF Readable, Content, Holds

(* A process that is calling has a name to call for.                       *)
LEMMA HeadIsName ==
    ASSUME RegistryTypeOK, NEW p \in Process, Calling(p)
    PROVE  /\ Head(proc[p].todo) \in Name
           /\ Tail(proc[p].todo) \in Seq(Name)
BY DEF RegistryTypeOK, ProcState

(* The book a Read computes is a set of entries with unique names.         *)
LEMMA ReadsEntries ==
    ASSUME RegistryTypeOK, NEW p \in Process, Calling(p)
    PROVE  LET book == Updated(IF Readable(file) THEN Content(file) ELSE {},
                               p, Head(proc[p].todo))
           IN  /\ book \in SUBSET Entry
               /\ UniqueNames => Unique(book)
<1> DEFINE old == IF Readable(file) THEN Content(file) ELSE {}
<1>1. old \in SUBSET Entry
  BY ContentHeld DEF RegistryTypeOK
<1>2. UniqueNames => Unique(old)
  BY ContentHeld DEF UniqueNames, Unique
<1>3. Head(proc[p].todo) \in Name
  BY HeadIsName
<1> HIDE DEF old
<1>4. /\ Updated(old, p, Head(proc[p].todo)) \in SUBSET Entry
      /\ UniqueNames => Unique(Updated(old, p, Head(proc[p].todo)))
  BY <1>1, <1>2, <1>3, UpdatedUnique
<1> QED BY <1>4 DEF old

-----------------------------------------------------------------------------
(* Type correctness.                                                       *)

LEMMA RegistryTypeInit ==
    RegistryInit => RegistryTypeOK
<1> SUFFICES ASSUME RegistryInit PROVE RegistryTypeOK
  OBVIOUS
<1>1. NewProc \in ProcState
  BY DEF NewProc, ProcState
<1>2. proc \in [Process -> ProcState]
  BY <1>1 DEF RegistryInit
<1>3. \A p \in Process : ~Calling(p)
  BY DEF RegistryInit, NewProc, Calling
<1>4. \A p \in Process : proc[p].step = "read"
  BY DEF RegistryInit, NewProc
<1>5. /\ file \subseteq SUBSET Entry
      /\ directory \in [Name -> Process \cup {NoPeer}]
      /\ disturbed \in BOOLEAN
  BY DEF RegistryInit
<1> QED BY <1>2, <1>3, <1>4, <1>5 DEF RegistryTypeOK

(* A process that moves to a state of the right type leaves all of them    *)
(* well typed.                                                             *)
LEMMA ProcBecomes ==
    ASSUME RegistryTypeOK, NEW p \in Process, NEW st \in ProcState,
           IF st.phase \in {"joining", "leaving"} THEN st.todo # <<>>
           ELSE st.step = "read",
           proc' = [proc EXCEPT ![p] = st]
    PROVE  /\ proc' \in [Process -> ProcState]
           /\ \A q \in Process : IF Calling(q)' THEN proc'[q].todo # <<>>
                                ELSE proc'[q].step = "read"
BY DEF RegistryTypeOK, Calling

(* Every step of a process preserves the types.                            *)
LEMMA RegistryTypeStep ==
    RegistryTypeOK /\ [RegistryNext]_registryVars => RegistryTypeOK'
<1> SUFFICES ASSUME RegistryTypeOK, [RegistryNext]_registryVars
             PROVE  RegistryTypeOK'
  OBVIOUS
<1> DEFINE ProcsOK ==
      /\ proc' \in [Process -> ProcState]
      /\ \A q \in Process : IF Calling(q)' THEN proc'[q].todo # <<>>
                                ELSE proc'[q].step = "read"
<1>0. \A p \in Process : proc[p] \in ProcState
  BY DEF RegistryTypeOK
<1>1. ASSUME NEW p \in Process, NEW phase \in {"joining", "leaving"},
             Begin(p, phase)
      PROVE  ProcsOK /\ UNCHANGED <<file, directory, disturbed>>
  <2> DEFINE st == [proc[p] EXCEPT !.phase = phase, !.todo = NamesOf[p]]
  <2>1. proc' = [proc EXCEPT ![p] = st]
    BY <1>1 DEF Begin, RegistryTypeOK
  <2>2. st \in ProcState
    BY <1>0, RegistryAssumption DEF ProcState
  <2>3. st.todo # <<>> /\ st.phase \in {"joining", "leaving"}
    BY <1>0, RegistryAssumption DEF ProcState
  <2> HIDE DEF st
  <2>4. ProcsOK
    BY <2>1, <2>2, <2>3, ProcBecomes
  <2> QED BY <1>1, <2>4 DEF Begin
<1>2. ASSUME NEW p \in Process, Crash(p)
      PROVE  ProcsOK /\ UNCHANGED <<file, directory>> /\ disturbed' \in BOOLEAN
  <2> DEFINE st == [NewProc EXCEPT !.phase = "gone"]
  <2>0. st = [phase |-> "gone", step |-> "read", todo |-> <<>>, book |-> {}]
    BY DEF NewProc
  <2> HIDE DEF st
  <2>1. st \in ProcState /\ st.phase = "gone" /\ st.step = "read"
    BY <2>0 DEF ProcState
  <2>2. proc' = [proc EXCEPT ![p] = st]
    BY <1>2 DEF Crash, st
  <2>3. ProcsOK
    BY <2>1, <2>2, ProcBecomes
  <2>4. (disturbed \/ Amid(p)) \in BOOLEAN
    BY DEF RegistryTypeOK, Amid, Calling
  <2> QED BY <1>2, <2>3, <2>4 DEF Crash
<1>3. ASSUME NEW p \in Process, Read(p)
      PROVE  ProcsOK /\ UNCHANGED <<file, directory>> /\ disturbed' \in BOOLEAN
  <2> DEFINE b == Updated(IF Readable(file) THEN Content(file) ELSE {},
                          p, Head(proc[p].todo))
             st == [proc[p] EXCEPT !.step = "open", !.book = b]
  <2>1. Calling(p) /\ proc[p].todo # <<>>
    BY <1>3 DEF Read, RegistryTypeOK
  <2>2. b \in SUBSET Entry
    BY <2>1, ReadsEntries
  <2>3. proc' = [proc EXCEPT ![p] = st]
    BY <1>3 DEF Read, RegistryTypeOK
  <2> HIDE DEF b
  <2>4. /\ st \in ProcState /\ st.todo # <<>>
        /\ st.phase \in {"joining", "leaving"}
    BY <1>0, <2>1, <2>2 DEF ProcState, Calling
  <2> HIDE DEF st
  <2>5. ProcsOK
    BY <2>3, <2>4, ProcBecomes
  <2>6. disturbed' \in BOOLEAN
    BY <1>3 DEF Read, RegistryTypeOK
  <2> QED BY <1>3, <2>5, <2>6 DEF Read
<1>4. ASSUME NEW p \in Process, Open(p)
      PROVE  ProcsOK /\ file' = {} /\ UNCHANGED <<directory, disturbed>>
  <2> DEFINE st == [proc[p] EXCEPT !.step = "write"]
  <2>1. Calling(p) /\ proc[p].todo # <<>>
    BY <1>4 DEF Open, RegistryTypeOK
  <2>2. proc' = [proc EXCEPT ![p] = st]
    BY <1>4 DEF Open, RegistryTypeOK
  <2>3. /\ st \in ProcState /\ st.todo # <<>>
        /\ st.phase \in {"joining", "leaving"}
    BY <1>0, <2>1 DEF ProcState, Calling
  <2> HIDE DEF st
  <2>4. ProcsOK
    BY <2>2, <2>3, ProcBecomes
  <2> QED BY <1>4, <2>4 DEF Open, AfterOpen
<1>5. ASSUME NEW p \in Process, Write(p)
      PROVE  /\ ProcsOK
             /\ file' \subseteq SUBSET Entry
             /\ directory' \in [Name -> Process \cup {NoPeer}]
             /\ UNCHANGED disturbed
  <2> DEFINE next == IF Tail(proc[p].todo) # <<>> THEN proc[p].phase
                     ELSE IF proc[p].phase = "joining" THEN "up" ELSE "gone"
             st == [proc[p] EXCEPT !.step = "read", !.todo = Tail(@),
                                   !.book = {}, !.phase = next]
  <2>1. /\ Calling(p) /\ Head(proc[p].todo) \in Name
        /\ Tail(proc[p].todo) \in Seq(Name)
    BY <1>5, HeadIsName DEF Write
  <2>2. proc' = [proc EXCEPT ![p] = st]
    BY <1>5 DEF Write, RegistryTypeOK
  <2>3. next \in {"joining", "up", "leaving", "gone"}
    BY <2>1 DEF Calling
  <2>4. next \in {"joining", "leaving"} => Tail(proc[p].todo) # <<>>
    OBVIOUS
  <2> HIDE DEF next
  <2>5. /\ st \in ProcState
        /\ st.phase \in {"joining", "leaving"} => st.todo # <<>>
        /\ st.step = "read"
    BY <1>0, <2>1, <2>3, <2>4 DEF ProcState
  <2> HIDE DEF st
  <2>6. ProcsOK
    BY <2>2, <2>5, ProcBecomes
  <2>7. file' \subseteq SUBSET Entry
    BY <1>0, <1>5 DEF Write, AfterWrite, RegistryTypeOK, ProcState
  <2>8. directory' \in [Name -> Process \cup {NoPeer}]
    BY <1>5, <2>1 DEF Write, RegistryTypeOK
  <2> QED BY <1>5, <2>6, <2>7, <2>8 DEF Write
<1>6. CASE UNCHANGED registryVars
  BY <1>6 DEF registryVars, RegistryTypeOK, Calling
<1>7. ASSUME NEW p \in Process, Start(p)
      PROVE  RegistryTypeOK'
  BY <1>1, <1>7 DEF Start, RegistryTypeOK
<1>8. ASSUME NEW p \in Process, Leave(p)
      PROVE  RegistryTypeOK'
  BY <1>1, <1>8 DEF Leave, RegistryTypeOK
<1>9. ASSUME NEW p \in Process, Crash(p) \/ Read(p) \/ Open(p) \/ Write(p)
      PROVE  RegistryTypeOK'
  BY <1>2, <1>3, <1>4, <1>5, <1>9 DEF RegistryTypeOK
<1> QED
  BY <1>6, <1>7, <1>8, <1>9 DEF RegistryNext

(* Every variable of the registry always holds a value of its type.        *)
THEOREM RegistryTypeCorrect == RegistrySpec => []RegistryTypeOK
<1>1. RegistryInit => RegistryTypeOK
  BY RegistryTypeInit
<1>2. RegistryTypeOK /\ [RegistryNext]_registryVars => RegistryTypeOK'
  BY RegistryTypeStep
<1> QED BY <1>1, <1>2, PTL DEF RegistrySpec
-----------------------------------------------------------------------------
(* Unique names.                                                           *)

LEMMA UniqueStep ==
    RegistryTypeOK /\ UniqueNames /\ [RegistryNext]_registryVars
        => UniqueNames'
<1> SUFFICES ASSUME RegistryTypeOK, UniqueNames, [RegistryNext]_registryVars
             PROVE  UniqueNames'
  OBVIOUS
<1> USE DEF RegistryTypeOK, ProcState
<1>1. ASSUME NEW p \in Process, Start(p) \/ Leave(p) \/ Open(p)
      PROVE  UniqueNames'
  <2>1. file' \subseteq file
    BY <1>1 DEF Start, Leave, Begin, Open, AfterOpen
  <2>2. \A q \in Process : proc'[q].book = proc[q].book
    <3>1. CASE Start(p) \/ Leave(p)
      <4>1. PICK phase : Begin(p, phase)
        BY <3>1 DEF Start, Leave
      <4>2. proc' = [proc EXCEPT ![p] =
                       [proc[p] EXCEPT !.phase = phase, !.todo = NamesOf[p]]]
        BY <4>1 DEF Begin
      <4> QED BY <4>2
    <3>2. CASE Open(p)
      BY <3>2 DEF Open
    <3> QED BY <1>1, <3>1, <3>2
  <2>3. \A book \in file' : Unique(book)
    BY <2>1 DEF UniqueNames
  <2>4. \A q \in Process : Unique(proc'[q].book)
    BY <2>2 DEF UniqueNames
  <2> QED BY <2>3, <2>4 DEF UniqueNames
<1>2. ASSUME NEW p \in Process, Crash(p)
      PROVE  UniqueNames'
  BY <1>2 DEF Crash, NewProc, UniqueNames, Unique
<1>3. ASSUME NEW p \in Process, Read(p)
      PROVE  UniqueNames'
  <2> DEFINE b == Updated(IF Readable(file) THEN Content(file) ELSE {},
                          p, Head(proc[p].todo))
  <2>1. Unique(b)
    BY <1>3, ReadsEntries DEF Read
  <2>2. /\ file' = file
        /\ \A q \in Process : proc'[q].book = IF q = p THEN b ELSE proc[q].book
    BY <1>3 DEF Read
  <2> QED BY <2>1, <2>2 DEF UniqueNames
<1>4. ASSUME NEW p \in Process, Write(p)
      PROVE  UniqueNames'
  <2>1. \A book \in file' : book \in file \/ book = proc[p].book
    BY <1>4 DEF Write, AfterWrite
  <2>2. \A q \in Process : proc'[q].book = IF q = p THEN {} ELSE proc[q].book
    BY <1>4 DEF Write
  <2> QED BY <2>1, <2>2 DEF UniqueNames, Unique
<1>5. CASE UNCHANGED registryVars
  BY <1>5 DEF registryVars, UniqueNames
<1> QED
  BY <1>1, <1>2, <1>3, <1>4, <1>5 DEF RegistryNext

(* However the calls of any number of processes interleave, and wherever   *)
(* they die, no name has two entries.                                      *)
THEOREM NamesStayUnique == RegistrySpec => []UniqueNames
<1>1. RegistryInit => UniqueNames
  BY DEF RegistryInit, NewProc, UniqueNames, Unique
<1>2. RegistryTypeOK /\ UniqueNames /\ [RegistryNext]_registryVars
        => UniqueNames'
  BY UniqueStep
<1> QED BY <1>1, <1>2, RegistryTypeCorrect, PTL DEF RegistrySpec

-----------------------------------------------------------------------------
(* Undisturbed, the file is the directory.                                 *)

(* Updating the entries of the directory gives those of the updated one.   *)
LEMMA ListedUpdated ==
    ASSUME RegistryTypeOK, NEW p \in Process, NEW nm \in Name,
           directory' = [directory EXCEPT ![nm] =
                           IF proc[p].phase = "joining" THEN p ELSE NoPeer]
    PROVE  Listed' = Updated(Listed, p, nm)
BY RegistryAssumption DEF RegistryTypeOK, Listed, Updated, Entry

LEMMA ExactStep ==
    RegistryTypeOK /\ UndisturbedIsExact /\ [RegistryNext]_registryVars
        => UndisturbedIsExact'
<1> SUFFICES ASSUME RegistryTypeOK, UndisturbedIsExact,
                    [RegistryNext]_registryVars, ~disturbed'
             PROVE  UndisturbedIsExact'
  BY DEF UndisturbedIsExact
<1> USE DEF RegistryTypeOK, ProcState
<1>1. ~disturbed
  BY DEF RegistryNext, registryVars, Start, Leave, Begin, Crash, Read, Open,
         Write
<1> DEFINE Writing(p) == Amid(p) /\ proc[p].step = "write"
<1>2. /\ \A p, q \in Process : Amid(p) /\ Amid(q) => p = q
      /\ \A p \in Process : Amid(p) =>
           proc[p].book = Updated(Listed, p, Head(proc[p].todo))
      /\ file = IF \E p \in Process : Writing(p) THEN {} ELSE {Listed}
  BY <1>1 DEF UndisturbedIsExact
<1>3. ASSUME UNCHANGED <<file, directory>>,
             \A q \in Process : /\ Amid(q)' <=> Amid(q)
                                /\ Amid(q) => proc'[q] = proc[q]
      PROVE  UndisturbedIsExact'
  <2>1. Listed' = Listed
    BY <1>3 DEF Listed
  <2>2. \A q \in Process : /\ Writing(q)' <=> Writing(q)
                           /\ Amid(q) => Updated(Listed, q, Head(proc[q].todo))'
                                         = Updated(Listed, q, Head(proc[q].todo))
    BY <1>3, <2>1 DEF Updated
  <2> HIDE DEF Writing
  <2>3. file' = IF \E p \in Process : Writing(p)' THEN {} ELSE {Listed'}
    BY <1>2, <1>3, <2>1, <2>2
  <2>4. \A p \in Process : Amid(p)' =>
           proc'[p].book = Updated(Listed, p, Head(proc[p].todo))'
    BY <1>2, <1>3, <2>2
  <2>5. \A p, q \in Process : Amid(p)' /\ Amid(q)' => p = q
    BY <1>2, <1>3
  <2> QED BY <2>3, <2>4, <2>5 DEF UndisturbedIsExact, Writing
<1>4. ASSUME NEW p \in Process, Start(p) \/ Leave(p)
      PROVE  UndisturbedIsExact'
  <2>1. UNCHANGED <<file, directory>> /\ ~Calling(p)
    BY <1>4 DEF Start, Leave, Begin, Calling
  <2>2. \A q \in Process : /\ q # p => proc'[q] = proc[q]
                           /\ proc'[q].step = proc[q].step
    BY <1>4 DEF Start, Leave, Begin
  <2>3. \A q \in Process : /\ Amid(q)' <=> Amid(q)
                           /\ Amid(q) => proc'[q] = proc[q]
    BY <2>1, <2>2 DEF Amid, Calling
  <2> QED BY <1>3, <2>1, <2>3
<1>5. ASSUME NEW p \in Process, Crash(p)
      PROVE  UndisturbedIsExact'
  <2>1. UNCHANGED <<file, directory>> /\ ~Amid(p)
    BY <1>5 DEF Crash
  <2>2. /\ \A q \in Process : q # p => proc'[q] = proc[q]
        /\ proc'[p].phase = "gone"
    BY <1>5 DEF Crash, NewProc
  <2>3. \A q \in Process : /\ Amid(q)' <=> Amid(q)
                           /\ Amid(q) => proc'[q] = proc[q]
    BY <2>1, <2>2 DEF Amid, Calling
  <2> QED BY <1>3, <2>1, <2>3
<1>6. ASSUME NEW p \in Process, Read(p)
      PROVE  UndisturbedIsExact'
  <2>1. \A q \in Process : ~Amid(q)
    BY <1>6 DEF Read, Amid
  <2>2. file = {Listed}
    BY <1>2, <2>1
  <2>3. Readable(file) /\ Content(file) = Listed
    BY <2>2 DEF Readable, Content, Holds
  <2>4. /\ proc' = [proc EXCEPT ![p].step = "open",
                      ![p].book = Updated(Listed, p, Head(proc[p].todo))]
        /\ Calling(p) /\ UNCHANGED <<file, directory>>
    BY <1>6, <2>3 DEF Read
  <2>5. \A q \in Process : q # p => proc'[q] = proc[q]
    BY <2>4
  <2>6. /\ proc'[p].step = "open" /\ proc'[p].phase = proc[p].phase
        /\ proc'[p].todo = proc[p].todo
        /\ proc'[p].book = Updated(Listed, p, Head(proc[p].todo))
    BY <2>4
  <2>7. \A q \in Process : Amid(q)' => q = p
    BY <2>1, <2>5 DEF Amid, Calling
  <2>8. Listed' = Listed
    BY <2>4 DEF Listed
  <2>9. Updated(Listed, p, Head(proc[p].todo))'
          = Updated(Listed, p, Head(proc[p].todo))
    BY <2>6, <2>8 DEF Updated
  <2>10. ~\E q \in Process : Amid(q)' /\ proc'[q].step = "write"
    BY <2>6, <2>7
  <2> QED BY <2>2, <2>4, <2>6, <2>7, <2>8, <2>9, <2>10 DEF UndisturbedIsExact
<1>7. ASSUME NEW p \in Process, Open(p)
      PROVE  UndisturbedIsExact'
  <2>1. Amid(p) /\ UNCHANGED directory /\ file' = {}
    BY <1>7 DEF Open, Amid, AfterOpen
  <2>2. \A q \in Process : q # p => proc'[q] = proc[q] /\ ~Amid(q)
    BY <1>2, <1>7, <2>1 DEF Open
  <2>3. /\ proc'[p].step = "write" /\ proc'[p].phase = proc[p].phase
        /\ proc'[p].todo = proc[p].todo /\ proc'[p].book = proc[p].book
    BY <1>7 DEF Open
  <2>4. \A q \in Process : Amid(q)' <=> q = p
    BY <2>1, <2>2, <2>3 DEF Amid, Calling
  <2>5. Listed' = Listed
    BY <2>1 DEF Listed
  <2>6. Updated(Listed, p, Head(proc[p].todo))'
          = Updated(Listed, p, Head(proc[p].todo))
    BY <2>3, <2>5 DEF Updated
  <2> QED BY <1>2, <2>1, <2>3, <2>4, <2>6 DEF UndisturbedIsExact
<1>8. ASSUME NEW p \in Process, Write(p)
      PROVE  UndisturbedIsExact'
  <2>1. Writing(p)
    BY <1>8 DEF Write, Amid
  <2>2. file = {}
    BY <1>2, <2>1
  <2>3. file' = {proc[p].book}
    BY <1>8, <2>2 DEF Write, AfterWrite
  <2>4. Listed' = Updated(Listed, p, Head(proc[p].todo))
    BY <1>8, HeadIsName, ListedUpdated DEF Write
  <2>5. file' = {Listed'}
    BY <1>2, <2>1, <2>3, <2>4
  <2>6. \A q \in Process : q # p => proc'[q] = proc[q] /\ ~Amid(q)
    BY <1>2, <1>8, <2>1 DEF Write
  <2>7. proc'[p].step = "read"
    BY <1>8 DEF Write
  <2>8. \A q \in Process : ~Amid(q)'
    BY <2>6, <2>7 DEF Amid, Calling
  <2> QED BY <2>5, <2>8 DEF UndisturbedIsExact
<1>9. CASE UNCHANGED registryVars
  BY <1>3, <1>9 DEF registryVars, Amid, Calling
<1> QED
  BY <1>4, <1>5, <1>6, <1>7, <1>8, <1>9 DEF RegistryNext

(* As long as no two calls overlap and none is cut short, the file is what *)
(* the calls amount to, for any number of processes.                       *)
THEOREM UndisturbedRegistryExact == RegistrySpec => []UndisturbedIsExact
<1>1. RegistryInit => UndisturbedIsExact
  BY RegistryAssumption
     DEF RegistryInit, NewProc, UndisturbedIsExact, Amid, Calling, Listed, Entry
<1>2. RegistryTypeOK /\ UndisturbedIsExact /\ [RegistryNext]_registryVars
        => UndisturbedIsExact'
  BY ExactStep
<1> QED BY <1>1, <1>2, RegistryTypeCorrect, PTL DEF RegistrySpec

-----------------------------------------------------------------------------
(* Conductors are found.                                                   *)

\* The rivals of c leave its names alone: they have not begun, or they have
\* registered before c was started.
Quiet(c) == \A p \in Rivals(c) :
               proc[p].phase = IF p \in Launcher[c] THEN "up" ELSE "new"

HasName(p, nm)   == \E j \in DOMAIN NamesOf[p] : NamesOf[p][j] = nm
Remaining(p, nm) == \E j \in DOMAIN proc[p].todo : proc[p].todo[j] = nm

\* A process works off its own names.
WorksOffNames ==
    \A p \in Process :
        /\ Calling(p) => \A nm \in Name : Remaining(p, nm) => HasName(p, nm)
        /\ proc[p].phase = "up" => proc[p].todo = <<>>

LaunchersFirst ==
    \A c \in Conductor : \A d \in Launcher[c] :
        proc[c].phase # "new" => proc[d].phase \notin {"new", "joining"}

\* A name a conductor has worked off is its own in the directory.
HoldsNames ==
    \A c \in Conductor :
        proc[c].phase \in {"joining", "up"} /\ Quiet(c)
        => \A nm \in Name :
             HasName(c, nm) => Remaining(c, nm) \/ directory[nm] = c

NamesInv == WorksOffNames /\ LaunchersFirst /\ HoldsNames

(* Initially nobody has begun.                                             *)
LEMMA NamesInit == RegistryInit => NamesInv
<1> SUFFICES ASSUME RegistryInit PROVE NamesInv
  OBVIOUS
<1>1. \A p \in Process : proc[p].phase = "new"
  BY DEF RegistryInit, NewProc
<1>2. WorksOffNames
  BY <1>1 DEF WorksOffNames, Calling
<1>3. LaunchersFirst /\ HoldsNames
  BY <1>1 DEF LaunchersFirst, HoldsNames, Process
<1> QED BY <1>2, <1>3 DEF NamesInv

\* A process moves from one phase to the next, and begins when its launchers
\* are up.
PhaseStep(p) ==
    /\ \A q \in Process \ {p} : proc'[q] = proc[q]
    /\ \/ proc'[p].phase = proc[p].phase
       \/ /\ proc[p].phase = "new" /\ proc'[p].phase = "joining"
          /\ p \in Conductor => \A d \in Launcher[p] : proc[d].phase = "up"
       \/ proc[p].phase = "joining" /\ proc'[p].phase = "up"
       \/ proc[p].phase = "up" /\ proc'[p].phase = "leaving"
       \/ proc[p].phase # "new" /\ proc'[p].phase = "gone"

(* Every step of a process is a step of its life.                          *)
LEMMA StepPhase ==
    ASSUME RegistryTypeOK, NEW p \in Process,
           Start(p) \/ Leave(p) \/ Crash(p) \/ Read(p) \/ Open(p) \/ Write(p)
    PROVE  PhaseStep(p)
<1> USE DEF RegistryTypeOK, ProcState
<1>1. CASE Start(p)
  BY <1>1 DEF Start, Begin, PhaseStep
<1>2. CASE Leave(p)
  BY <1>2 DEF Leave, Begin, PhaseStep
<1>3. CASE Crash(p)
  BY <1>3 DEF Crash, NewProc, PhaseStep
<1>4. CASE Read(p)
  <2>1. /\ \A q \in Process \ {p} : proc'[q] = proc[q]
        /\ proc'[p].phase = proc[p].phase
    BY <1>4 DEF Read
  <2> QED BY <2>1 DEF PhaseStep
<1>5. CASE Open(p)
  <2>1. /\ \A q \in Process \ {p} : proc'[q] = proc[q]
        /\ proc'[p].phase = proc[p].phase
    BY <1>5 DEF Open
  <2> QED BY <2>1 DEF PhaseStep
<1>6. CASE Write(p)
  <2>1. /\ \A q \in Process \ {p} : proc'[q] = proc[q]
        /\ proc'[p].phase = IF Tail(proc[p].todo) # <<>> THEN proc[p].phase
                            ELSE IF proc[p].phase = "joining" THEN "up"
                            ELSE "gone"
    BY <1>6 DEF Write
  <2>2. proc[p].phase \in {"joining", "leaving"}
    BY <1>6 DEF Write, Calling
  <2> QED BY <2>1, <2>2 DEF PhaseStep
<1> QED BY <1>1, <1>2, <1>3, <1>4, <1>5, <1>6

(* A launcher comes up before its conductor begins, and does not begin     *)
(* again.                                                                  *)
LEMMA LaunchersStay ==
    ASSUME LaunchersFirst, NEW p \in Process, PhaseStep(p)
    PROVE  LaunchersFirst'
<1> SUFFICES ASSUME NEW c \in Conductor, NEW d \in Launcher[c],
                    proc'[c].phase # "new"
             PROVE  proc'[d].phase \notin {"new", "joining"}
  BY DEF LaunchersFirst
<1>1. c \in Process /\ d \in Process
  BY RegistryAssumption DEF Process
<1>2. CASE proc[c].phase # "new"
  <2>1. proc[d].phase \notin {"new", "joining"}
    BY <1>2 DEF LaunchersFirst
  <2> QED BY <1>1, <2>1 DEF PhaseStep
<1>3. CASE proc[c].phase = "new"
  <2>1. p = c /\ proc[d].phase = "up"
    BY <1>1, <1>3 DEF PhaseStep
  <2>2. d # p
    BY <1>3, <2>1
  <2> QED BY <1>1, <2>1, <2>2 DEF PhaseStep
<1> QED BY <1>2, <1>3

(* Rivals that are quiet were quiet before the step: none can have come up *)
(* while the conductor was there.                                          *)
LEMMA QuietBefore ==
    ASSUME LaunchersFirst, NEW p \in Process, PhaseStep(p),
           NEW c \in Conductor, proc[c].phase # "new", Quiet(c)'
    PROVE  Quiet(c)
<1> SUFFICES ASSUME NEW q \in Rivals(c)
             PROVE  proc[q].phase = IF q \in Launcher[c] THEN "up" ELSE "new"
  BY DEF Quiet
<1>1. q \in Process /\ q \in Rivals(c)'
  BY DEF Rivals
<1>2. proc'[q].phase = IF q \in Launcher[c] THEN "up" ELSE "new"
  BY <1>1 DEF Quiet, Rivals
<1>3. q \in Launcher[c] => proc[q].phase \notin {"new", "joining"}
  BY DEF LaunchersFirst
<1> QED BY <1>1, <1>2, <1>3 DEF PhaseStep

\* What a step of process p does to its own list of names: it takes up all
\* of them, goes on, gives up, or is done with the first one.
ListStep(p) ==
    \/ proc'[p].todo = NamesOf[p] /\ proc'[p].phase \in {"joining", "leaving"}
    \/ /\ proc'[p].todo = proc[p].todo
       /\ proc'[p].phase = proc[p].phase
    \/ proc'[p].todo = <<>> /\ proc'[p].phase = "gone"
    \/ /\ Calling(p)
       /\ proc'[p].todo = Tail(proc[p].todo)
       /\ proc'[p].phase = "up" => Tail(proc[p].todo) = <<>>

LEMMA StepList ==
    ASSUME RegistryTypeOK, NEW p \in Process,
           Start(p) \/ Leave(p) \/ Crash(p) \/ Read(p) \/ Open(p) \/ Write(p)
    PROVE  /\ ListStep(p)
           /\ directory' # directory =>
                /\ Write(p)
                /\ \A nm \in Name : nm # Head(proc[p].todo) =>
                                      directory'[nm] = directory[nm]
<1> USE DEF RegistryTypeOK, ProcState
<1>1. CASE Start(p) \/ Leave(p)
  BY <1>1 DEF Start, Leave, Begin, ListStep
<1>2. CASE Crash(p)
  BY <1>2 DEF Crash, NewProc, ListStep
<1>3. CASE Read(p) \/ Open(p)
  <2>1. /\ proc'[p].todo = proc[p].todo /\ proc'[p].phase = proc[p].phase
        /\ directory' = directory
    BY <1>3 DEF Read, Open
  <2> QED BY <2>1 DEF ListStep
<1>4. CASE Write(p)
  <2>1. /\ proc'[p].todo = Tail(proc[p].todo)
        /\ proc'[p].phase = IF Tail(proc[p].todo) # <<>> THEN proc[p].phase
                            ELSE IF proc[p].phase = "joining" THEN "up"
                            ELSE "gone"
    BY <1>4 DEF Write
  <2>2. Calling(p) /\ proc[p].phase \in {"joining", "leaving"}
    BY <1>4 DEF Write, Calling
  <2>3. ListStep(p)
    BY <2>1, <2>2 DEF ListStep
  <2>4. \A nm \in Name : nm # Head(proc[p].todo) =>
                           directory'[nm] = directory[nm]
    BY <1>4 DEF Write
  <2> QED BY <1>4, <2>3, <2>4
<1> QED BY <1>1, <1>2, <1>3, <1>4

(* The names still to call for, before and after the first is done with.   *)
LEMMA RemainingTail ==
    ASSUME RegistryTypeOK, NEW p \in Process, Calling(p), NEW nm \in Name
    PROVE  Remaining(p, nm) <=>
             \/ Head(proc[p].todo) = nm
             \/ \E j \in DOMAIN Tail(proc[p].todo) : Tail(proc[p].todo)[j] = nm
<1> DEFINE s == proc[p].todo
<1>1. s \in Seq(Name) /\ s # <<>>
  BY DEF RegistryTypeOK, ProcState
<1> HIDE DEF s
<1>2. /\ Len(s) \in Nat /\ Len(s) > 0 /\ DOMAIN s = 1..Len(s)
      /\ Head(s) = s[1] /\ DOMAIN Tail(s) = 1..(Len(s) - 1)
      /\ \A j \in 1..(Len(s) - 1) : Tail(s)[j] = s[j + 1]
  BY <1>1
<1>3. (\E j \in DOMAIN s : s[j] = nm) <=>
        \/ s[1] = nm
        \/ \E j \in 1..(Len(s) - 1) : s[j + 1] = nm
  <2>1. ASSUME NEW j \in DOMAIN s, s[j] = nm, j # 1
        PROVE  \E i \in 1..(Len(s) - 1) : s[i + 1] = nm
    <3>1. j - 1 \in 1..(Len(s) - 1) /\ (j - 1) + 1 = j
      BY <1>2, <2>1
    <3> QED BY <2>1, <3>1
  <2>2. ASSUME NEW i \in 1..(Len(s) - 1)
        PROVE  i + 1 \in DOMAIN s
    BY <1>2, <2>2
  <2>3. 1 \in DOMAIN s
    BY <1>2
  <2> QED BY <2>1, <2>2, <2>3
<1> QED BY <1>2, <1>3 DEF Remaining, s

LEMMA WorksOffStep ==
    ASSUME RegistryTypeOK, WorksOffNames, NEW p \in Process,
           PhaseStep(p), ListStep(p)
    PROVE  WorksOffNames'
<1> SUFFICES ASSUME NEW q \in Process
             PROVE  /\ Calling(q)' => \A nm \in Name :
                                        Remaining(q, nm)' => HasName(q, nm)
                    /\ proc'[q].phase = "up" => proc'[q].todo = <<>>
  BY DEF WorksOffNames, HasName
<1>1. CASE q # p
  <2>1. proc'[q] = proc[q]
    BY <1>1 DEF PhaseStep
  <2> QED BY <2>1 DEF WorksOffNames, Calling, Remaining
<1>2. CASE q = p
  <2>1. CASE proc'[p].todo = NamesOf[p] /\ proc'[p].phase \in {"joining", "leaving"}
    BY <1>2, <2>1 DEF Remaining, HasName
  <2>2. CASE proc'[p].todo = proc[p].todo /\ proc'[p].phase = proc[p].phase
    BY <1>2, <2>2 DEF WorksOffNames, Calling, Remaining
  <2>3. CASE proc'[p].todo = <<>> /\ proc'[p].phase = "gone"
    BY <1>2, <2>3 DEF Calling
  <2>4. CASE /\ Calling(p)
             /\ proc'[p].todo = Tail(proc[p].todo)
             /\ proc'[p].phase = "up" => Tail(proc[p].todo) = <<>>
    <3>1. \A nm \in Name : Remaining(p, nm)' => Remaining(p, nm)
      BY <2>4, RemainingTail DEF Remaining
    <3> QED BY <1>2, <2>4, <3>1 DEF WorksOffNames
  <2> QED BY <2>1, <2>2, <2>3, <2>4 DEF ListStep
<1> QED BY <1>1, <1>2

LEMMA HoldsStep ==
    ASSUME RegistryTypeOK, NamesInv, NEW p \in Process,
           Start(p) \/ Leave(p) \/ Crash(p) \/ Read(p) \/ Open(p) \/ Write(p)
    PROVE  HoldsNames'
<1>0. PhaseStep(p) /\ ListStep(p)
  BY StepPhase, StepList
<1> SUFFICES ASSUME NEW c \in Conductor, Quiet(c)',
                    proc'[c].phase \in {"joining", "up"},
                    NEW nm \in Name, HasName(c, nm)
             PROVE  Remaining(c, nm)' \/ directory'[nm] = c
  BY DEF HoldsNames, HasName
<1>1. c \in Process
  BY DEF Process
<1>2. CASE proc[c].phase = "new"
  <2>1. c = p
    BY <1>0, <1>1, <1>2 DEF PhaseStep
  <2>2. proc'[c].todo = NamesOf[c]
    BY <1>0, <1>2, <2>1 DEF ListStep, Calling
  <2> QED BY <2>2 DEF Remaining, HasName
<1>3. CASE proc[c].phase # "new"
  <2>1. Quiet(c) /\ proc[c].phase \in {"joining", "up"}
    BY <1>0, <1>1, <1>3, QuietBefore DEF PhaseStep, NamesInv
  <2>2. Remaining(c, nm) \/ directory[nm] = c
    BY <2>1 DEF NamesInv, HoldsNames
  <2>3. CASE p = c
    <3>1. CASE Write(c)
      <4>1. proc'[c].todo = Tail(proc[c].todo) /\ Calling(c)
        BY <1>1, <3>1 DEF Write, RegistryTypeOK, ProcState
      <4>2. proc[c].phase = "joining"
        BY <2>1, <4>1 DEF Calling
      <4>3. /\ directory'[Head(proc[c].todo)] = c
            /\ \A x \in Name : x # Head(proc[c].todo) =>
                                 directory'[x] = directory[x]
        BY <1>1, <3>1, <4>1, <4>2, HeadIsName DEF Write, RegistryTypeOK
      <4>4. Remaining(c, nm) =>
              Head(proc[c].todo) = nm \/ Remaining(c, nm)'
        BY <1>1, <4>1, RemainingTail DEF Remaining
      <4> QED BY <2>2, <4>3, <4>4
    <3>2. CASE Crash(c)
      BY <1>1, <3>2 DEF Crash, NewProc, RegistryTypeOK
    <3>3. CASE Start(c) \/ Leave(c)
      BY <1>1, <3>3 DEF Start, Leave, Begin, Remaining, HasName,
                        RegistryTypeOK, ProcState
    <3>4. CASE Read(c) \/ Open(c)
      <4>1. proc'[c].todo = proc[c].todo /\ directory' = directory
        BY <1>1, <3>4 DEF Read, Open, RegistryTypeOK, ProcState
      <4> QED BY <2>2, <4>1 DEF Remaining
    <3> QED BY <2>3, <3>1, <3>2, <3>3, <3>4
  <2>4. CASE p # c
    <3>1. proc'[c] = proc[c]
      BY <1>0, <1>1, <2>4 DEF PhaseStep
    <3>2. Remaining(c, nm)' <=> Remaining(c, nm)
      BY <3>1 DEF Remaining
    <3>3. CASE directory' = directory
      BY <2>2, <3>2, <3>3
    <3>4. CASE directory' # directory
      <4>1. /\ Write(p)
            /\ nm # Head(proc[p].todo) => directory'[nm] = directory[nm]
        BY <3>4, StepList
      <4>2. CASE nm = Head(proc[p].todo)
        <5>1. HasName(p, nm) /\ Calling(p)
          BY <4>1, <4>2, RemainingTail DEF Write, NamesInv, WorksOffNames
        <5>2. p \in Rivals(c)
          BY <2>4, <5>1 DEF HasName, Rivals
        <5>3. proc[p].phase = IF p \in Launcher[c] THEN "up" ELSE "new"
          BY <2>1, <5>2 DEF Quiet
        <5> QED BY <5>1, <5>3 DEF Calling
      <4> QED BY <2>2, <3>2, <4>1, <4>2
    <3> QED BY <3>3, <3>4
  <2> QED BY <2>3, <2>4
<1> QED BY <1>2, <1>3

LEMMA NamesStep ==
    RegistryTypeOK /\ NamesInv /\ [RegistryNext]_registryVars => NamesInv'
<1> SUFFICES ASSUME RegistryTypeOK, NamesInv, [RegistryNext]_registryVars
             PROVE  NamesInv'
  OBVIOUS
<1>1. ASSUME NEW p \in Process,
             Start(p) \/ Leave(p) \/ Crash(p) \/ Read(p) \/ Open(p) \/ Write(p)
      PROVE  NamesInv'
  <2>1. PhaseStep(p) /\ ListStep(p)
    BY <1>1, StepPhase, StepList
  <2>2. WorksOffNames' /\ LaunchersFirst'
    BY <2>1, WorksOffStep, LaunchersStay DEF NamesInv
  <2>3. HoldsNames'
    BY <1>1, HoldsStep
  <2> QED BY <2>2, <2>3 DEF NamesInv
<1>2. CASE UNCHANGED registryVars
  BY <1>2 DEF registryVars, NamesInv, WorksOffNames, LaunchersFirst,
              HoldsNames, Quiet, Remaining, Calling
<1> QED BY <1>1, <1>2 DEF RegistryNext

(* A conductor that is up holds its names in the directory.                *)
LEMMA HoldsFound ==
    RegistryTypeOK /\ UndisturbedIsExact /\ NamesInv => ConductorFound
<1> SUFFICES ASSUME RegistryTypeOK, UndisturbedIsExact, NamesInv,
                    NEW c \in Conductor, ~disturbed, proc[c].phase = "up",
                    Peers # Unreadable, Quiet(c), NEW i \in DOMAIN NamesOf[c]
             PROVE  FindPeer(NamesOf[c][i]) = c
  BY DEF ConductorFound, Quiet
<1> DEFINE nm == NamesOf[c][i]
<1>1. c \in Process /\ nm \in Name /\ HasName(c, nm)
  BY RegistryAssumption DEF Process, HasName
<1>2. ~Remaining(c, nm)
  BY <1>1 DEF NamesInv, WorksOffNames, Remaining
<1>3. directory[nm] = c
  BY <1>1, <1>2 DEF NamesInv, HoldsNames
<1>4. Readable(file)
  BY DEF Peers
<1>5. file = {Listed}
  <2>1. file # {}
    BY <1>4 DEF Readable, Holds
  <2> QED BY <2>1 DEF UndisturbedIsExact
<1>6. Peers = Listed
  BY <1>4, <1>5, ContentHeld DEF Peers
<1> HIDE DEF nm
<1>7. [name |-> nm, by |-> c] \in Listed
  BY <1>1, <1>3 DEF Listed, Entry
<1>8. \A e \in Listed : e.name = nm => e.by = c
  BY <1>3 DEF Listed
<1>9. \E e \in Listed : e.name = nm
  BY <1>7
<1>10. (CHOOSE e \in Listed : e.name = nm).by = c
  BY <1>8, <1>9
<1>11. FindPeer(nm) = c
  BY <1>6, <1>9, <1>10 DEF FindPeer
<1> QED BY <1>11 DEF nm

(* A conductor that is up is found under its names with its own connection *)
(* id, for any number of processes, under the conditions ConductorFound    *)
(* names.                                                                  *)
THEOREM ConductorsFound == RegistrySpec => []ConductorFound
<1>1. RegistryInit => NamesInv
  BY NamesInit
<1>2. RegistryTypeOK /\ NamesInv /\ [RegistryNext]_registryVars => NamesInv'
  BY NamesStep
<1>3. RegistryTypeOK /\ UndisturbedIsExact /\ NamesInv => ConductorFound
  BY HoldsFound
<1> QED
  BY <1>1, <1>2, <1>3, RegistryTypeCorrect, UndisturbedRegistryExact, PTL
     DEF RegistrySpec
=============================================================================
