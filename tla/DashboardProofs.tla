--------------------------- MODULE DashboardProofs ---------------------------
(* Proofs about AgentsConfig and Dashboard, for any number of editors,     *)
(* agents, entries, prompts and lines.                                     *)
EXTENDS Dashboard, TLAPS, WellFoundedInduction

-----------------------------------------------------------------------------
(* Induction over numbers, for the recursive functions of the model.       *)

\* A set of numbers has a least one.
LEMMA Least ==
    ASSUME NEW T \in SUBSET Nat, T # {}
    PROVE  \E x \in T : \A y \in T : x <= y
  <1>1. IsWellFoundedOn(OpToRel(<, Nat), Nat)
    BY NatLessThanWellFounded
  <1>2. PICK x \in T : \A y \in T : ~(<<y, x>> \in OpToRel(<, Nat))
    BY <1>1, WFMin
  <1>3. \A y \in T : ~(y < x)
    BY <1>2 DEF OpToRel
  <1>4. QED
    BY <1>3

\* The values g[0], .., g[N] are in B[0], .., B[N] if each step leads there.
LEMMA Along ==
    ASSUME NEW N \in Nat, NEW g, NEW B, g[0] \in B[0],
           \A n \in 1..N : g[n - 1] \in B[n - 1] => g[n] \in B[n]
    PROVE  \A n \in 0..N : g[n] \in B[n]
  <1>1. PICK T : T = {n \in 0..N : g[n] \notin B[n]}
    OBVIOUS
  <1>2. ASSUME T # {} PROVE FALSE
    <2>1. T \in SUBSET Nat
      BY <1>1
    <2>2. PICK n \in T : \A k \in T : n <= k
      BY <1>2, <2>1, Least
    <2>3. n \in 1..N /\ n - 1 \in 0..N
      BY <1>1, <2>2
    <2>4. n - 1 \notin T
      BY <2>2, <2>3
    <2>5. QED
      BY <1>1, <2>3, <2>4, <2>2
  <1>3. QED
    BY <1>1, <1>2

LEMMA Within ==
    ASSUME NEW N \in Nat, NEW g, NEW S, g[0] \in S,
           \A n \in 1..N : g[n - 1] \in S => g[n] \in S
    PROVE  \A n \in 0..N : g[n] \in S
  <1>1. PICK B : B = [n \in 0..N |-> S]
    OBVIOUS
  <1>2. g[0] \in B[0] /\ \A n \in 1..N : g[n - 1] \in B[n - 1] => g[n] \in B[n]
    BY <1>1
  <1>3. QED
    BY <1>1, <1>2, Along

\* A function on 0..N can be defined by recursion.
Iterates(f, N, x, step) ==
    /\ f = [n \in 0..N |-> f[n]] /\ f[0] = x
    /\ \A n \in 1..N : f[n] = step[n][f[n - 1]]

LEMMA Recursion ==
    ASSUME NEW N \in Nat, NEW x, NEW step
    PROVE  \E f : Iterates(f, N, x, step)
  <1> DEFINE Upto(m, f) ==
        f = [n \in 0..m |-> IF n = 0 THEN x ELSE step[n][f[n - 1]]]
  <1>1. PICK T : T = {m \in 0..N : ~ \E f : Upto(m, f)}
    OBVIOUS
  <1>2. ASSUME T # {} PROVE FALSE
    <2>1. T \in SUBSET Nat
      BY <1>1
    <2>2. PICK m \in T : \A k \in T : m <= k
      BY <1>2, <2>1, Least
    <2>3. m \in 0..N /\ ~ \E f : Upto(m, f)
      BY <1>1, <2>2
    <2>4. m # 0
      <3>1. PICK f : f = [n \in 0..0 |-> x]
        OBVIOUS
      <3>2. Upto(0, f)
        BY <3>1
      <3>3. QED
        BY <2>3, <3>2
    <2>5. m - 1 \in 0..N /\ m - 1 \notin T
      BY <2>1, <2>2, <2>3, <2>4
    <2>6. PICK f : Upto(m - 1, f)
      BY <1>1, <2>5
    <2>7. PICK g : g = [n \in 0..m |-> IF n = m THEN step[m][f[m - 1]]
                                       ELSE f[n]]
      OBVIOUS
    <2>8. Upto(m, g)
      <3>1. \A n \in 0..(m - 1) : g[n] = f[n]
        BY <2>3, <2>7
      <3>2. \A n \in 0..(m - 1) :
              f[n] = IF n = 0 THEN x ELSE step[n][f[n - 1]]
        BY <2>6
      <3>3. g[m] = step[m][g[m - 1]]
        BY <2>3, <2>4, <2>7, <3>1
      <3>4. \A n \in 0..m :
              g[n] = IF n = 0 THEN x ELSE step[n][g[n - 1]]
        BY <2>3, <2>4, <3>1, <3>2, <3>3
      <3>5. QED
        BY <2>7, <3>4
    <2>9. QED
      BY <2>3, <2>8
  <1>3. \E f : Upto(N, f)
    BY <1>1, <1>2
  <1>4. PICK f : f = [n \in 0..N |-> IF n = 0 THEN x ELSE step[n][f[n - 1]]]
    BY <1>3
  <1>5. Iterates(f, N, x, step)
    BY <1>4 DEF Iterates
  <1>6. QED
    BY <1>5

-----------------------------------------------------------------------------
(* The operators on the entries of a configuration.                        *)

LEMMA Wraps ==
    ASSUME NEW W \in Nat \ {0}, NEW n \in Nat, n < W + W
    PROVE  n % W = IF n < W THEN n ELSE n - W
  <1>1. /\ (n % W) \in 0..(W - 1) /\ (n \div W) \in Nat
        /\ n = W * (n \div W) + (n % W)
    OBVIOUS
  <1>2. CASE n \div W = 0
    BY <1>1, <1>2
  <1>3. CASE n \div W = 1
    BY <1>1, <1>3
  <1>4. CASE n \div W > 1
    BY <1>1, <1>4
  <1>5. QED
    BY <1>1, <1>2, <1>3, <1>4

Books == Seq(AgentEntry)

\* There is a highest port, since ports are bounded.
LEMMA PortFits ==
    ASSUME NEW book \in Books, NEW i \in DOMAIN book
    PROVE  book[i].port \in 0..(Width - 1)
  <1>1. book[i] \in AgentEntry
    BY DEF Books
  <1>2. QED
    BY <1>1 DEF AgentEntry

LEMMA HighestPort ==
    ASSUME NEW book \in Books, book # <<>>
    PROVE  /\ Highest(Ports(book)) \in Ports(book)
           /\ \A q \in Ports(book) : q <= Highest(Ports(book))
  <1>1. Width \in Nat
    BY ConfigAssumption
  <1>2. Ports(book) \subseteq 0..(Width - 1)
    BY PortFits DEF Ports
  <1>3. PICK T : T = {Width - p : p \in Ports(book)}
    OBVIOUS
  <1>4. T \in SUBSET Nat
    BY <1>1, <1>2, <1>3
  <1>5. T # {}
    <2>1. 1 \in DOMAIN book
      BY DEF Books
    <2>2. QED
      BY <1>3, <2>1 DEF Ports
  <1>6. PICK n \in T : \A k \in T : n <= k
    BY <1>4, <1>5, Least
  <1>7. PICK p \in Ports(book) : n = Width - p
    BY <1>3, <1>6
  <1>8. \A q \in Ports(book) : q <= p
    BY <1>1, <1>2, <1>3, <1>6, <1>7
  <1>9. QED
    BY <1>7, <1>8 DEF Highest

(* A port from next_port fits, and it is free together with the one after  *)
(* it unless the numbering has wrapped.                                    *)
LEMMA NextPortFree ==
    ASSUME NEW book \in Books
    PROVE  /\ NextPort(book) \in 0..(Width - 1)
           /\ NextPort(book) > 1 =>
                \A i \in DOMAIN book : book[i].port + 1 < NextPort(book)
  <1>1. \A i \in DOMAIN book : book[i].port \in Ports(book)
    BY DEF Ports
  <1>2. /\ Ports(book) \subseteq 0..(Width - 1)
        /\ Width \in Nat \ {0} /\ LastPort \in Nat \ {0}
        /\ LastPort + 4 < Width
    BY PortFits, ConfigAssumption DEF Ports
  <1>3. CASE book = <<>>
    <2>1. NextPort(book) = (LastPort + 2) % Width
      BY <1>3 DEF NextPort
    <2>2. PICK n : n = LastPort + 2
      OBVIOUS
    <2>3. n \in Nat /\ n < Width /\ n < Width + Width
      BY <1>2, <2>2
    <2>4. n % Width = n
      BY <1>2, <2>3, Wraps
    <2>5. QED
      BY <1>2, <1>3, <2>1, <2>2, <2>4
  <1>4. CASE book # <<>>
    <2>1. PICK p : p = Highest(Ports(book))
      OBVIOUS
    <2>2. p \in 0..(Width - 1) /\ \A q \in Ports(book) : q <= p
      BY <1>2, <1>4, <2>1, HighestPort
    <2>3. NextPort(book) = (p + 2) % Width
      BY <1>4, <2>1 DEF NextPort
    <2>4. PICK n : n = p + 2
      OBVIOUS
    <2>5. n \in Nat /\ n < Width + Width
      BY <1>2, <2>2, <2>4
    <2>6. n % Width = IF n < Width THEN n ELSE n - Width
      BY <1>2, <2>5, Wraps
    <2>7. NextPort(book) = IF n < Width THEN n ELSE n - Width
      BY <2>3, <2>4, <2>6
    <2>8. \A i \in DOMAIN book : book[i].port \in Nat /\ book[i].port <= p
      BY <1>1, <1>2, <2>2
    <2>9. QED
      BY <1>2, <2>2, <2>4, <2>7, <2>8
  <1>5. QED
    BY <1>3, <1>4

\* What AutoPortsDisjoint and NothingAddedTwice say of one document
Apart(book) ==
    \A i, j \in DOMAIN book :
        i < j /\ book[j].by # "add --port" /\ book[j].port > 1
            => book[i].port + 1 < book[j].port

OnceEach(book) ==
    \A i, j \in DOMAIN book : i < j =>
        /\ book[j].by \in {"add", "add --port"} => book[i].name # book[j].name
        /\ book[j].by = "picker" => book[i].agent # book[j].agent

\* The documents of a file: good ones as long as none is spliced (u)
GoodBook(u) == {book \in Books : u => Apart(book) /\ OnceEach(book)}

LEMMA EmptyBook == \A u : <<>> \in GoodBook(u)
  BY DEF GoodBook, Books, Apart, OnceEach

LEMMA AppendFacts ==
    ASSUME NEW S, NEW s \in Seq(S), NEW e \in S
    PROVE  /\ Append(s, e) \in Seq(S)
           /\ DOMAIN Append(s, e) = 1..(Len(s) + 1)
           /\ DOMAIN s = 1..Len(s) /\ Len(s) \in Nat
           /\ Append(s, e)[Len(s) + 1] = e
           /\ \A i \in DOMAIN s : Append(s, e)[i] = s[i]
  OBVIOUS

\* An entry that may follow those of the document
Suits(book, en) ==
    /\ en.by # "add --port" /\ en.port > 1 =>
         \A i \in DOMAIN book : book[i].port + 1 < en.port
    /\ en.by \in {"add", "add --port"} => en.name \notin Names(book)
    /\ en.by = "picker" => en.agent \notin Agents(book)

LEMMA ExtendBook ==
    ASSUME NEW u, NEW book \in GoodBook(u), NEW en \in AgentEntry,
           Suits(book, en)
    PROVE  Append(book, en) \in GoodBook(u)
  <1>1. PICK new : new = Append(book, en)
    OBVIOUS
  <1>2. book \in Books /\ (u => Apart(book) /\ OnceEach(book))
    BY DEF GoodBook
  <1>3. /\ new \in Books /\ DOMAIN new = 1..(Len(book) + 1)
        /\ DOMAIN book = 1..Len(book) /\ Len(book) \in Nat
        /\ new[Len(book) + 1] = en
        /\ \A i \in DOMAIN book : new[i] = book[i]
    <2>1. book \in Seq(AgentEntry)
      BY <1>2 DEF Books
    <2>2. QED
      BY <1>1, <2>1, AppendFacts DEF Books
  <1>4. \A i, j \in DOMAIN new : i < j =>
          /\ i \in DOMAIN book
          /\ \/ j \in DOMAIN book
             \/ j = Len(book) + 1
    <2>1. PICK n \in Nat : n = Len(book)
      BY <1>3
    <2>2. DOMAIN new = 1..(n + 1) /\ DOMAIN book = 1..n
      BY <1>3, <2>1
    <2>3. QED
      BY <2>1, <2>2
  <1>5. \A i \in DOMAIN book : /\ book[i].name \in Names(book)
                              /\ book[i].agent \in Agents(book)
    BY DEF Names, Agents
  <1>6. u => Apart(new)
    BY <1>2, <1>3, <1>4 DEF Apart, Suits
  <1>7. u => OnceEach(new)
    BY <1>2, <1>3, <1>4, <1>5 DEF OnceEach, Suits
  <1>8. QED
    BY <1>1, <1>3, <1>6, <1>7 DEF GoodBook

(* What `add` makes of a configuration keeps both, whatever is given.      *)
LEMMA AddedGood ==
    ASSUME NEW u, NEW book \in GoodBook(u), NEW id \in AgentId,
           NEW name \in AgentName, NEW port \in Port \cup {AutoPort}
    PROVE  Added(book, id, name, port) \in GoodBook(u)
  <1>1. CASE name \in Names(book)
    BY <1>1 DEF Added
  <1>2. CASE name \notin Names(book) /\ port = AutoPort
    <2>1. book \in Books
      BY DEF GoodBook
    <2>2. PICK n : n = NextPort(book)
      OBVIOUS
    <2>3. /\ n \in 0..(Width - 1)
          /\ n > 1 => \A i \in DOMAIN book : book[i].port + 1 < n
      BY <2>1, <2>2, NextPortFree
    <2>4. PICK en : en = Entry(name, n, id, "add")
      OBVIOUS
    <2>5. en \in AgentEntry /\ en.name = name /\ en.port = n /\ en.by = "add"
      BY <2>3, <2>4 DEF Entry, AgentEntry
    <2>6. Append(book, en) \in GoodBook(u)
      BY <1>2, <2>3, <2>5, ExtendBook DEF Suits
    <2>7. QED
      BY <1>2, <2>2, <2>4, <2>6 DEF Added
  <1>3. CASE name \notin Names(book) /\ port # AutoPort
    <2>1. port \in 0..(Width - 1)
      BY <1>3, ConfigAssumption
    <2>2. PICK en : en = Entry(name, port, id, "add --port")
      OBVIOUS
    <2>3. en \in AgentEntry /\ en.name = name /\ en.by = "add --port"
      BY <2>1, <2>2 DEF Entry, AgentEntry
    <2>4. Append(book, en) \in GoodBook(u)
      BY <1>3, <2>3, ExtendBook DEF Suits
    <2>5. QED
      BY <1>3, <2>2, <2>4 DEF Added
  <1>4. QED
    BY <1>1, <1>2, <1>3

LEMMA OfferedIds ==
    /\ Len(Offered) \in Nat /\ 0 \in 0..Len(Offered)
    /\ \A n \in 1..Len(Offered) : Offered[n] \in AgentId
    /\ \A m, n \in 1..Len(Offered) : Offered[m] = Offered[n] => m = n
  <1>1. Offered \in Seq(Listed)
    BY ConfigAssumption
  <1>2. QED
    BY <1>1, ConfigAssumption DEF AgentId

\* One agent of the registry: added if it is chosen
PickOne(book, ids, id, by) ==
    IF id \notin ids THEN book
    ELSE Append(book, Entry(id, NextPort(book), id, by))

Picker == {"picker", "late picker"}

LEMMA PickOneGood ==
    ASSUME NEW u, NEW book \in GoodBook(u), NEW ids, NEW id \in AgentId,
           NEW by \in Picker,
           by = "picker" /\ id \in ids => id \notin Agents(book)
    PROVE  /\ PickOne(book, ids, id, by) \in GoodBook(u)
           /\ Agents(PickOne(book, ids, id, by)) \subseteq Agents(book) \cup {id}
  <1>1. CASE id \notin ids
    BY <1>1 DEF PickOne
  <1>2. CASE id \in ids
    <2>1. book \in Books
      BY DEF GoodBook
    <2>2. PICK n : n = NextPort(book)
      OBVIOUS
    <2>3. /\ n \in 0..(Width - 1)
          /\ n > 1 => \A i \in DOMAIN book : book[i].port + 1 < n
      BY <2>1, <2>2, NextPortFree
    <2>4. PICK en : en = Entry(id, n, id, by)
      OBVIOUS
    <2>5. id \in AgentName
      BY DEF AgentName
    <2>6. /\ en \in AgentEntry /\ en.name = id /\ en.port = n
          /\ en.agent = id /\ en.by = by
      BY <2>3, <2>4, <2>5 DEF Entry, AgentEntry, Picker
    <2>7. Append(book, en) \in GoodBook(u)
      <3>1. by \notin {"add", "add --port"}
        BY DEF Picker
      <3>2. QED
        BY <1>2, <2>3, <2>6, <3>1, ExtendBook DEF Suits
    <2>8. Agents(Append(book, en)) \subseteq Agents(book) \cup {id}
      <3>1. /\ DOMAIN Append(book, en) = 1..(Len(book) + 1)
            /\ DOMAIN book = 1..Len(book) /\ Len(book) \in Nat
            /\ Append(book, en)[Len(book) + 1] = en
            /\ \A i \in DOMAIN book : Append(book, en)[i] = book[i]
        BY <2>1, <2>6, AppendFacts DEF Books
      <3>2. QED
        BY <2>6, <3>1 DEF Agents
    <2>9. QED
      BY <1>2, <2>2, <2>4, <2>7, <2>8 DEF PickOne
  <1>3. QED
    BY <1>1, <1>2

\* The first n agents of the registry
FirstOffered(n) == {Offered[k] : k \in 1..n}

(* What the picker makes of a configuration keeps both, whatever is chosen *)
(* from whatever registry, if what is chosen is not in it or it is late.   *)
LEMMA PickedGood ==
    ASSUME NEW u, NEW book \in GoodBook(u), NEW ids, NEW by \in Picker,
           by = "picker" => ids \cap Agents(book) = {}
    PROVE  Picked(book, ids, by) \in GoodBook(u)
  <1> DEFINE Upto(f) == f = [n \in 0..Len(Offered) |->
                               IF n = 0 THEN book
                               ELSE PickOne(f[n - 1], ids, Offered[n], by)]
  <1>0. PICK N \in Nat : N = Len(Offered)
    BY OfferedIds
  <1>1. PICK B : B = [n \in 0..N |->
                        {b \in GoodBook(u) :
                           Agents(b) \subseteq Agents(book) \cup FirstOffered(n)}]
    OBVIOUS
  <1>2. PICK step : step = [n \in 1..N |-> [b \in GoodBook(u) |->
                              PickOne(b, ids, Offered[n], by)]]
    OBVIOUS
  <1>3. \A n \in 1..N : n - 1 \in 0..N /\ n \in 0..N
    OBVIOUS
  <1>4. \A g : (/\ g[0] = book
                /\ \A n \in 1..N : g[n - 1] \in B[n - 1] =>
                     g[n] = PickOne(g[n - 1], ids, Offered[n], by))
               => \A n \in 0..N : g[n] \in B[n]
    <2> SUFFICES ASSUME NEW g, g[0] = book,
                        \A n \in 1..N : g[n - 1] \in B[n - 1] =>
                          g[n] = PickOne(g[n - 1], ids, Offered[n], by)
                 PROVE  \A n \in 0..N : g[n] \in B[n]
      OBVIOUS
    <2>1. g[0] \in B[0]
      BY <1>1
    <2>2. ASSUME NEW n \in 1..N, g[n - 1] \in B[n - 1] PROVE g[n] \in B[n]
      <3>1. PICK b : b = g[n - 1]
        OBVIOUS
      <3>2. /\ b \in GoodBook(u)
            /\ Agents(b) \subseteq Agents(book) \cup FirstOffered(n - 1)
        BY <1>1, <1>3, <2>2, <3>1
      <3>3. PICK id \in AgentId : id = Offered[n]
        BY <1>0, OfferedIds
      <3>4. id \notin FirstOffered(n - 1)
        BY <1>0, <3>3, OfferedIds DEF FirstOffered
      <3>5. by = "picker" /\ id \in ids => id \notin Agents(b)
        BY <3>2, <3>4
      <3>6. PICK c : c = PickOne(b, ids, id, by)
        OBVIOUS
      <3>7. c \in GoodBook(u) /\ Agents(c) \subseteq Agents(b) \cup {id}
        BY <3>2, <3>5, <3>6, PickOneGood
      <3>8. FirstOffered(n - 1) \cup {id} \subseteq FirstOffered(n)
        BY <3>3 DEF FirstOffered
      <3>9. g[n] = c
        BY <2>2, <3>1, <3>3, <3>6
      <3>10. QED
        BY <1>1, <1>3, <3>2, <3>7, <3>8, <3>9
    <2>3. QED
      BY <2>1, <2>2, Along
  <1>5. PICK f : Iterates(f, N, book, step)
    BY Recursion
  <1>6. /\ f = [n \in 0..N |-> f[n]] /\ f[0] = book
        /\ \A n \in 1..N : f[n] = step[n][f[n - 1]]
    BY <1>5 DEF Iterates
  <1>7. \A n \in 1..N : f[n - 1] \in B[n - 1] =>
          f[n] = PickOne(f[n - 1], ids, Offered[n], by)
    BY <1>1, <1>2, <1>3, <1>6
  <1>8. Upto(f)
    <2>1. \A n \in 0..N : f[n] \in B[n]
      BY <1>4, <1>6, <1>7
    <2>2. \A n \in 1..N : f[n] = PickOne(f[n - 1], ids, Offered[n], by)
      BY <1>3, <1>7, <2>1
    <2>3. QED
      BY <1>0, <1>6, <2>2
  <1>9. ASSUME NEW g, Upto(g) PROVE g[N] \in GoodBook(u)
    <2>1. /\ g[0] = book
          /\ \A n \in 1..N : g[n] = PickOne(g[n - 1], ids, Offered[n], by)
      BY <1>0, <1>9
    <2>2. g[N] \in B[N]
      BY <1>4, <2>1
    <2>3. QED
      BY <1>1, <2>2
  <1>10. PICK g : Upto(g) /\ Picked(book, ids, by) = g[N]
    BY <1>0, <1>8, Zenon DEF Picked, PickOne
  <1>11. QED
    BY <1>9, <1>10

\* b is what is left of the first n entries of the document.
Leaves(b, book, n) ==
    /\ b \in Books
    /\ \E h \in [1..Len(b) -> 1..n] :
         /\ \A i \in 1..Len(b) : b[i] = book[h[i]]
         /\ \A i, j \in 1..Len(b) : i < j => h[i] < h[j]

\* One entry: left out if it has the name
KeepOne(b, entry, name) == IF entry.name = name THEN b ELSE Append(b, entry)

LEMMA KeepOneLeaves ==
    ASSUME NEW book \in Books, NEW n \in DOMAIN book, NEW name,
           NEW b, Leaves(b, book, n - 1)
    PROVE  Leaves(KeepOne(b, book[n], name), book, n)
  <1>1. /\ n \in Nat \ {0} /\ book[n] \in AgentEntry
        /\ b \in Seq(AgentEntry) /\ Len(b) \in Nat
    BY DEF Leaves, Books
  <1>2. PICK h \in [1..Len(b) -> 1..(n - 1)] :
          /\ \A i \in 1..Len(b) : b[i] = book[h[i]]
          /\ \A i, j \in 1..Len(b) : i < j => h[i] < h[j]
    BY DEF Leaves
  <1>3. CASE book[n].name = name
    <2>1. h \in [1..Len(b) -> 1..n]
      BY <1>1, <1>2
    <2>2. KeepOne(b, book[n], name) = b
      BY <1>3 DEF KeepOne
    <2>3. QED
      BY <1>2, <2>1, <2>2 DEF Leaves
  <1>4. CASE book[n].name # name
    <2>1. PICK c : c = Append(b, book[n])
      OBVIOUS
    <2>2. PICK m \in Nat : m = Len(b)
      BY <1>1
    <2>3. /\ c \in Seq(AgentEntry) /\ DOMAIN c = 1..(m + 1)
          /\ c[m + 1] = book[n] /\ \A i \in 1..m : c[i] = b[i]
      BY <1>1, <2>1, <2>2, AppendFacts
    <2>4. Len(c) = m + 1
      BY <2>2, <2>3
    <2>5. PICK k : k = [i \in 1..(m + 1) |-> IF i = m + 1 THEN n ELSE h[i]]
      OBVIOUS
    <2>6. \A i \in 1..(m + 1) : i # m + 1 => i \in 1..m
      BY <2>2
    <2>7. \A i \in 1..m : h[i] \in 1..(n - 1) /\ h[i] \in 1..n /\ h[i] < n
      BY <1>1, <1>2, <2>2
    <2>8. k \in [1..(m + 1) -> 1..n]
      BY <1>1, <2>5, <2>6, <2>7
    <2>9. \A i \in 1..(m + 1) : c[i] = book[k[i]]
      BY <1>2, <2>2, <2>3, <2>5, <2>6
    <2>10. \A i, j \in 1..(m + 1) : i < j => k[i] < k[j]
      <3>1. \A i, j \in 1..(m + 1) : i < j => i \in 1..m
        BY <2>2
      <3>2. \A i \in 1..m : k[i] = h[i]
        BY <2>2, <2>5
      <3>3. k[m + 1] = n
        BY <2>2, <2>5
      <3>4. QED
        BY <1>2, <2>2, <2>6, <2>7, <3>1, <3>2, <3>3
    <2>11. Leaves(c, book, n)
      BY <2>3, <2>4, <2>8, <2>9, <2>10 DEF Leaves, Books
    <2>12. QED
      BY <1>4, <2>1, <2>11 DEF KeepOne
  <1>5. QED
    BY <1>3, <1>4

LEMMA LeavesGood ==
    ASSUME NEW u, NEW book \in GoodBook(u), NEW b, Leaves(b, book, Len(book))
    PROVE  b \in GoodBook(u)
  <1>1. /\ b \in Books /\ DOMAIN b = 1..Len(b)
        /\ DOMAIN book = 1..Len(book)
        /\ u => Apart(book) /\ OnceEach(book)
    BY DEF Leaves, Books, GoodBook
  <1>2. PICK h \in [1..Len(b) -> 1..Len(book)] :
          /\ \A i \in 1..Len(b) : b[i] = book[h[i]]
          /\ \A i, j \in 1..Len(b) : i < j => h[i] < h[j]
    BY DEF Leaves
  <1>3. \A i, j \in DOMAIN b : i < j =>
          /\ h[i] \in DOMAIN book /\ h[j] \in DOMAIN book /\ h[i] < h[j]
          /\ b[i] = book[h[i]] /\ b[j] = book[h[j]]
    BY <1>1, <1>2
  <1>4. ASSUME u, NEW i \in DOMAIN b, NEW j \in DOMAIN b, i < j
        PROVE  /\ b[j].by # "add --port" /\ b[j].port > 1 =>
                    b[i].port + 1 < b[j].port
               /\ b[j].by \in {"add", "add --port"} => b[i].name # b[j].name
               /\ b[j].by = "picker" => b[i].agent # b[j].agent
    <2>1. PICK x \in DOMAIN book, y \in DOMAIN book :
            x < y /\ b[i] = book[x] /\ b[j] = book[y]
      BY <1>3, <1>4
    <2>2. QED
      BY <1>1, <1>4, <2>1 DEF Apart, OnceEach
  <1>5. u => Apart(b) /\ OnceEach(b)
    BY <1>4 DEF Apart, OnceEach
  <1>6. QED
    BY <1>1, <1>5 DEF GoodBook

(* What `remove` leaves of a configuration keeps both.                     *)
LEMMA WithoutGood ==
    ASSUME NEW u, NEW book \in GoodBook(u), NEW name
    PROVE  Without(book, name) \in GoodBook(u)
  <1> DEFINE Upto(f) == f = [n \in 0..Len(book) |->
                               IF n = 0 THEN <<>>
                               ELSE KeepOne(f[n - 1], book[n], name)]
  <1>1. book \in Books /\ DOMAIN book = 1..Len(book) /\ Len(book) \in Nat
    BY DEF GoodBook, Books
  <1>2. PICK N \in Nat : N = Len(book)
    BY <1>1
  <1>3. PICK B : B = [n \in 0..N |-> {b \in Books : Leaves(b, book, n)}]
    OBVIOUS
  <1>4. Leaves(<<>>, book, 0)
    <2>1. <<>> \in Books /\ Len(<<>>) = 0 /\ 1..0 = {}
      BY DEF Books
    <2>2. PICK h : h = [i \in 1..0 |-> i]
      OBVIOUS
    <2>3. h \in [1..0 -> 1..0]
      BY <2>2
    <2>4. QED
      BY <2>1, <2>3 DEF Leaves
  <1>5. \A g : (/\ g[0] = <<>>
                /\ \A n \in 1..N :
                     g[n - 1] \in B[n - 1] =>
                       g[n] = KeepOne(g[n - 1], book[n], name))
               => \A n \in 0..N : g[n] \in B[n]
    <2> SUFFICES ASSUME NEW g, g[0] = <<>>,
                        \A n \in 1..N : g[n - 1] \in B[n - 1] =>
                          g[n] = KeepOne(g[n - 1], book[n], name)
                 PROVE  \A n \in 0..N : g[n] \in B[n]
      OBVIOUS
    <2>1. g[0] \in B[0]
      BY <1>3, <1>4 DEF Leaves
    <2>2. ASSUME NEW n \in 1..N, g[n - 1] \in B[n - 1] PROVE g[n] \in B[n]
      <3>1. n - 1 \in 0..N /\ n \in 0..N /\ n \in DOMAIN book
        BY <1>1, <1>2
      <3>2. Leaves(g[n - 1], book, n - 1)
        BY <1>3, <2>2, <3>1
      <3>3. Leaves(KeepOne(g[n - 1], book[n], name), book, n)
        BY <1>1, <3>1, <3>2, KeepOneLeaves
      <3>4. QED
        BY <1>3, <2>2, <3>1, <3>3 DEF Leaves
    <2>3. QED
      BY <2>1, <2>2, Along
  <1>6. PICK step : step = [n \in 1..N |-> [b \in Books |->
                              KeepOne(b, book[n], name)]]
    OBVIOUS
  <1>7. PICK f : Iterates(f, N, <<>>, step)
    BY Recursion
  <1>8. /\ f = [n \in 0..N |-> f[n]] /\ f[0] = <<>>
        /\ \A n \in 1..N : f[n] = step[n][f[n - 1]]
    BY <1>7 DEF Iterates
  <1>9. \A n \in 1..N : n - 1 \in 0..N
    OBVIOUS
  <1>10. \A n \in 0..N : f[n] \in B[n]
    <2>1. \A n \in 1..N : f[n - 1] \in B[n - 1] =>
            f[n] = KeepOne(f[n - 1], book[n], name)
      BY <1>3, <1>6, <1>8, <1>9
    <2>2. QED
      BY <1>5, <1>8, <2>1
  <1>11. Upto(f)
    <2>1. \A n \in 1..N : f[n] = KeepOne(f[n - 1], book[n], name)
      BY <1>3, <1>6, <1>8, <1>9, <1>10
    <2>2. QED
      BY <1>2, <1>8, <2>1
  <1>12. ASSUME NEW g, Upto(g) PROVE g[N] \in GoodBook(u)
    <2>1. g[0] = <<>> /\ \A n \in 1..N : g[n] = KeepOne(g[n - 1], book[n], name)
      BY <1>2, <1>12
    <2>2. g[N] \in B[N]
      BY <1>5, <2>1
    <2>3. Leaves(g[N], book, Len(book))
      BY <1>2, <1>3, <2>2
    <2>4. QED
      BY <2>3, LeavesGood
  <1>13. PICK g : Upto(g) /\ Without(book, name) = g[N]
    BY <1>2, <1>11, Zenon DEF Without, KeepOne
  <1>14. QED
    BY <1>12, <1>13

-----------------------------------------------------------------------------
(* The configuration.                                                      *)

SavedBook(u) == {book \in GoodBook(u) : Len(book) <= MaxEntries}

\* An editor with such a book, the agents of which its picker marks
GoodEditor(u) ==
    {st \in EditorState :
        /\ st.book \in SavedBook(u)
        /\ st.pc = "picking" => st.marks = Agents(st.book)}

\* What is in the file, and what an editor has loaded or is about to write
ConfigInv ==
    /\ config \subseteq SavedBook(~ spliced)
    /\ editor \in [Editor -> GoodEditor(~ spliced)]
    /\ spliced \in BOOLEAN

LEMMA WeakerBook ==
    \A u, v : (v => u) => /\ SavedBook(u) \subseteq SavedBook(v)
                          /\ GoodBook(u) \subseteq GoodBook(v)
                          /\ GoodEditor(u) \subseteq GoodEditor(v)
  BY DEF SavedBook, GoodBook, GoodEditor

LEMMA SavedFits ==
    ASSUME NEW u, NEW book \in SavedBook(u)
    PROVE  book \in Seq(AgentEntry) /\ book \in GoodBook(u)
           /\ Len(book) <= MaxEntries
  BY DEF SavedBook, GoodBook, Books

LEMMA EmptySaved == \A u : <<>> \in SavedBook(u)
  BY EmptyBook, ConfigAssumption DEF SavedBook

LEMMA LoadedSaved ==
    ASSUME ConfigInv, Loadable
    PROVE  Loaded \in SavedBook(~ spliced)
  <1>1. CASE config = {}
    BY <1>1, EmptySaved DEF Loaded
  <1>2. CASE config # {}
    <2>1. Content(config) \in config
      BY <1>2 DEF Loadable, Readable, Content
    <2>2. QED
      BY <1>2, <2>1 DEF Loaded, ConfigInv
  <1>3. QED
    BY <1>1, <1>2

\* An editor that goes on leaves the others alone.
LEMMA EditorGoes ==
    ASSUME ConfigInv, NEW e \in Editor,
           NEW u, u => ~ spliced, NEW st \in GoodEditor(u), Goes(e, st)
    PROVE  editor' \in [Editor -> GoodEditor(u)]
  BY WeakerBook DEF ConfigInv, Goes

LEMMA EditorChanges ==
    ASSUME ConfigInv, NEW e \in Editor, NEW st \in GoodEditor(~ spliced),
           Goes(e, st),
           UNCHANGED <<config, spliced>>
    PROVE  ConfigInv'
  <1>1. PICK u : u = ~ spliced
    OBVIOUS
  <1>2. editor' \in [Editor -> GoodEditor(u)]
    BY <1>1, EditorGoes
  <1>3. (~ spliced)' = u
    BY <1>1
  <1>4. QED
    BY <1>1, <1>2, <1>3 DEF ConfigInv

LEMMA NewEditorType ==
    /\ NewEditor \in EditorState /\ \A u : NewEditor \in GoodEditor(u)
    /\ \A u : DoneEditor \in GoodEditor(u)
  <1>1. <<>> \in Seq(AgentEntry) /\ \A u : <<>> \in SavedBook(u)
    BY EmptySaved
  <1>2. QED
    BY <1>1 DEF NewEditor, DoneEditor, EditorState, GoodEditor

LEMMA SavesGood ==
    ASSUME ConfigInv, NEW e \in Editor, NEW book \in GoodBook(~ spliced),
           Saves(e, book), UNCHANGED <<config, spliced>>
    PROVE  ConfigInv'
  <1>1. PICK st : st = [NewEditor EXCEPT !.pc = "open", !.book = book]
    OBVIOUS
  <1>2. book \in SavedBook(~ spliced) /\ book \in Seq(AgentEntry)
    BY DEF Saves, SavedBook, GoodBook, Books
  <1>3. st \in GoodEditor(~ spliced)
    BY <1>1, <1>2, NewEditorType DEF NewEditor, EditorState, GoodEditor
  <1>4. Goes(e, st)
    BY <1>1 DEF Saves
  <1>5. QED
    BY <1>3, <1>4, EditorChanges

\* The entries of two documents in one file
LEMMA TailsFit ==
    ASSUME NEW old \in Seq(AgentEntry), NEW tail \in Tails(old)
    PROVE  tail \in Seq(AgentEntry)
  <1>1. PICK k \in 1..Len(old) : tail = SubSeq(old, k + 1, Len(old))
    BY DEF Tails
  <1>2. \A i \in 1..Len(old) : old[i] \in AgentEntry
    OBVIOUS
  <1>3. tail \in Seq(AgentEntry)
    BY <1>1, <1>2, SMTT(30)
  <1>4. QED
    BY <1>3

LEMMA WritesGood ==
    ASSUME ConfigInv, NEW e \in Editor, WriteConfig(e)
    PROVE  ConfigInv'
  <1>1. PICK data : data = editor[e].book
    OBVIOUS
  <1>2. data \in SavedBook(~ spliced) /\ data \in Seq(AgentEntry)
    BY <1>1, SavedFits DEF ConfigInv, GoodEditor
  <1>3. /\ spliced' \in BOOLEAN /\ (~ spliced' => ~ spliced)
        /\ Goes(e, DoneEditor)
        /\ \A book \in config' : Len(book) <= MaxEntries
        /\ config' \in AfterSplice(config, data)
        /\ ~ spliced' => config' \in AfterWrite(config, data)
    BY <1>1 DEF WriteConfig, ConfigInv
  <1>4. PICK u : u = ~ spliced'
    OBVIOUS
  <1>5. config' \subseteq SavedBook(u)
    <2>1. CASE config' \in AfterWrite(config, data)
      <3>1. config' \subseteq SavedBook(~ spliced)
        BY <1>2, <2>1 DEF AfterWrite, ConfigInv
      <3>2. QED
        BY <1>3, <1>4, <3>1, WeakerBook
    <2>2. CASE config' \notin AfterWrite(config, data)
      <3>1. u = FALSE
        BY <1>3, <1>4, <2>2
      <3>2. PICK old \in config :
              \E tail \in Tails(old) : config' = {data \o tail}
        BY <1>3, <2>2 DEF AfterSplice
      <3>3. PICK tail \in Tails(old) : config' = {data \o tail}
        BY <3>2
      <3>4. old \in Seq(AgentEntry) /\ tail \in Seq(AgentEntry)
        <4>1. old \in Seq(AgentEntry)
          BY SavedFits DEF ConfigInv
        <4>2. tail \in Seq(AgentEntry)
          BY <4>1, TailsFit
        <4>3. QED
          BY <4>1, <4>2
      <3>5. data \o tail \in Seq(AgentEntry)
        BY <1>2, <3>4
      <3>6. QED
        BY <1>3, <3>1, <3>3, <3>5 DEF SavedBook, GoodBook, Books
    <2>3. QED
      BY <2>1, <2>2
  <1>6. editor' \in [Editor -> GoodEditor(u)]
    BY <1>3, <1>4, NewEditorType, EditorGoes
  <1>7. QED
    BY <1>3, <1>4, <1>5, <1>6 DEF ConfigInv

(* Every step of an editor keeps the configuration good.                   *)
LEMMA EditGood ==
    ASSUME ConfigInv, NEW e \in Editor, Edit(e)
    PROVE  ConfigInv'
  <1>1. editor[e] \in GoodEditor(~ spliced)
    BY DEF ConfigInv
  <1>2. Loadable => Loaded \in GoodBook(~ spliced)
                    /\ Loaded \in Seq(AgentEntry)
    BY LoadedSaved, SavedFits
  <1>3. CASE AddOne(e)
    <2>1. PICK id \in AgentId, name \in AgentName,
               port \in Port \cup {AutoPort} :
            Saves(e, Added(Loaded, id, name, port)) /\ Loadable
            /\ UNCHANGED <<config, spliced>>
      BY <1>3 DEF AddOne
    <2>2. Added(Loaded, id, name, port) \in GoodBook(~ spliced)
      BY <1>2, <2>1, AddedGood
    <2>3. QED
      BY <2>1, <2>2, SavesGood
  <1>4. CASE AddSome(e)
    <2>1. PICK first \in AgentId, second \in AgentId :
            /\ Saves(e, Added(Added(Loaded, first, first, AutoPort),
                              second, second, AutoPort))
            /\ Loadable /\ UNCHANGED <<config, spliced>>
      BY <1>4 DEF AddSome
    <2>2. first \in AgentName /\ second \in AgentName
          /\ AutoPort \in Port \cup {AutoPort}
      BY DEF AgentName
    <2>3. Added(Loaded, first, first, AutoPort) \in GoodBook(~ spliced)
      BY <1>2, <2>1, <2>2, AddedGood
    <2>4. Added(Added(Loaded, first, first, AutoPort), second, second, AutoPort)
            \in GoodBook(~ spliced)
      BY <2>2, <2>3, AddedGood
    <2>5. QED
      BY <2>1, <2>4, SavesGood
  <1>5. CASE OpenPicker(e)
    <2>1. PICK st : st = [NewEditor EXCEPT !.pc = "picking",
                                           !.marks = Agents(Loaded),
                                           !.book = Loaded]
      OBVIOUS
    <2>2. /\ Loadable /\ Goes(e, st) /\ UNCHANGED <<config, spliced>>
      BY <1>5, <2>1 DEF OpenPicker, OpenPickerWith
    <2>3. Agents(Loaded) \subseteq AgentId
      <3>1. \A i \in DOMAIN Loaded : Loaded[i] \in AgentEntry
        BY <1>2, <2>2
      <3>2. QED
        BY <3>1 DEF AgentEntry, Agents
    <2>4. st \in GoodEditor(~ spliced)
      BY <1>2, <2>1, <2>2, <2>3, LoadedSaved, NewEditorType
         DEF NewEditor, EditorState, GoodEditor
    <2>5. QED
      BY <2>2, <2>4, EditorChanges
  <1>6. CASE Confirm(e)
    <2>1. UNCHANGED <<config, spliced>>
      BY <1>6 DEF Confirm
    <2>2. CASE Goes(e, DoneEditor)
      BY <2>1, <2>2, NewEditorType, EditorChanges
    <2>3. ASSUME NEW chosen,
                 editor[e].pc = "picking", Loadable,
                 NEW by, by = (IF Agents(Loaded) \subseteq Agents(editor[e].book)
                                 THEN "picker" ELSE "late picker"),
                 Saves(e, Picked(Loaded, chosen \ editor[e].marks, by))
          PROVE  ConfigInv'
      <3>1. by \in Picker
        BY <2>3 DEF Picker
      <3>2. by = "picker" =>
              (chosen \ editor[e].marks) \cap Agents(Loaded) = {}
        BY <1>1, <2>3 DEF GoodEditor
      <3>3. Picked(Loaded, chosen \ editor[e].marks, by) \in GoodBook(~ spliced)
        BY <1>2, <2>3, <3>1, <3>2, PickedGood
      <3>4. QED
        BY <2>1, <2>3, <3>3, SavesGood
    <2>4. QED
      BY <1>6, <2>2, <2>3 DEF Confirm
  <1>7. CASE RemoveAgent(e)
    <2>1. PICK name : Saves(e, Without(Loaded, name)) /\ Loadable
                      /\ UNCHANGED <<config, spliced>>
      BY <1>7 DEF RemoveAgent
    <2>2. Without(Loaded, name) \in GoodBook(~ spliced)
      BY <1>2, <2>1, WithoutGood
    <2>3. QED
      BY <2>1, <2>2, SavesGood
  <1>8. CASE Clear(e)
    BY <1>8, EmptyBook, SavesGood DEF Clear
  <1>9. CASE OpenConfig(e)
    <2>1. PICK st : st = [editor[e] EXCEPT !.pc = "write"]
      OBVIOUS
    <2>2. st \in GoodEditor(~ spliced)
      BY <1>1, <2>1 DEF EditorState, GoodEditor
    <2>3. PICK u : u = ~ spliced
      OBVIOUS
    <2>4. editor' \in [Editor -> GoodEditor(u)]
      BY <1>1, <1>9, <2>1, <2>2, <2>3, EditorGoes DEF OpenConfig
    <2>5. config' = {} /\ spliced' = spliced
      BY <1>9 DEF OpenConfig, AfterOpen
    <2>6. QED
      BY <2>3, <2>4, <2>5 DEF ConfigInv
  <1>10. CASE WriteConfig(e)
    BY <1>10, WritesGood
  <1>11. CASE Quit(e)
    BY <1>11, NewEditorType, EditorChanges DEF Quit
  <1>12. QED
    BY <1>3, <1>4, <1>5, <1>6, <1>7, <1>8, <1>9, <1>10, <1>11 DEF Edit

LEMMA ConfigInitGood == ConfigInit => ConfigInv
  BY EmptySaved, NewEditorType DEF ConfigInit, ConfigInv

LEMMA ConfigNextGood ==
    ASSUME ConfigInv, [DashboardNext]_dashboardVars
    PROVE  ConfigInv'
  <1>1. CASE UNCHANGED configVars
    BY <1>1 DEF configVars, ConfigInv
  <1>2. ASSUME NEW e \in Editor, EditConfig(e) PROVE ConfigInv'
    BY <1>2, EditGood DEF EditConfig
  <1>3. QED
    BY <1>1, <1>2 DEF DashboardNext, dashboardVars, Launch, Tab, Enter, Types,
                      Serve, Ready, Receive, Reply, Answered, Fail

LEMMA ConfigStaysGood == DashboardSpec => []ConfigInv
  <1>1. DashboardInit => ConfigInv
    BY ConfigInitGood DEF DashboardInit
  <1>2. ConfigInv /\ [DashboardNext]_dashboardVars => ConfigInv'
    BY ConfigNextGood
  <1>3. QED
    BY <1>1, <1>2, PTL DEF DashboardSpec

(* However many editors load, edit and save the file at the same time, and *)
(* whatever they add, pick and remove, an entry that got its port from the *)
(* program shares neither of its ports with one above it (next_port), as   *)
(* long as no two saves have left entries of both in the file and for all  *)
(* ports but 0 and 1, the ones of a numbering that has wrapped.            *)
THEOREM PortsStayApart == DashboardSpec => []AutoPortsDisjoint
  <1>1. ConfigInv => AutoPortsDisjoint
    BY DEF ConfigInv, SavedBook, GoodBook, Apart, AutoPortsDisjoint
  <1>2. QED
    BY <1>1, ConfigStaysGood, PTL

(* As long as no two saves have left entries of both in the file, no name  *)
(* is added twice by `add`, and no agent by a picker that is confirmed     *)
(* before others add agents, whatever the registry offers (main,           *)
(* add_interactive).                                                       *)
THEOREM NoneAddedTwice == DashboardSpec => []NothingAddedTwice
  <1>1. ConfigInv => NothingAddedTwice
    BY DEF ConfigInv, SavedBook, GoodBook, OnceEach, NothingAddedTwice
  <1>2. QED
    BY <1>1, ConfigStaysGood, PTL

-----------------------------------------------------------------------------
(* The panes.                                                              *)

\* No two panes have one name.
UniquePanes == \A i, j \in DOMAIN panes : panes[i].name = panes[j].name => i = j

\* Every client has a pane to write to: the first one of its name.
LEMMA FirstPane ==
    ASSUME panes \in Seq(Pane), NEW i \in DOMAIN panes
    PROVE  /\ PaneOf(i) \in DOMAIN panes
           /\ panes[PaneOf(i)].name = panes[i].name
           /\ UniquePanes => PaneOf(i) = i
  <1>1. PICK T : T = {k \in DOMAIN panes : panes[k].name = panes[i].name}
    OBVIOUS
  <1>2. T \in SUBSET Nat /\ T # {} /\ DOMAIN panes = 1..Len(panes)
        /\ Len(panes) \in Nat
    BY <1>1
  <1>3. PICK k \in T : \A j \in T : k <= j
    BY <1>2, Least
  <1>4. \A j \in 1..(k - 1) : j \in DOMAIN panes /\ j \notin T
    BY <1>1, <1>2, <1>3
  <1>5. /\ k \in DOMAIN panes /\ panes[k].name = panes[i].name
        /\ \A j \in 1..(k - 1) : panes[j].name # panes[i].name
    BY <1>1, <1>3, <1>4
  <1>6. /\ PaneOf(i) \in DOMAIN panes
        /\ panes[PaneOf(i)].name = panes[i].name
    BY <1>5 DEF PaneOf
  <1>7. QED
    BY <1>6 DEF UniquePanes

-----------------------------------------------------------------------------
(* The lines.                                                              *)

\* A line of the pane of client i: one text, the client's own if u
GoodLine(u, i) ==
    {l \in Line : /\ Len(l.text) <= 1
                  /\ u => \A x \in DOMAIN l.text : l.text[x].client = i}

Closed(lines)    == \A k \in DOMAIN lines : ~lines[k].open
ClosedBut(lines) == \A k \in DOMAIN lines : k < Len(lines) => ~lines[k].open

LEMMA SubSeqFacts ==
    ASSUME NEW S, NEW s \in Seq(S), NEW m \in 1..Len(s)
    PROVE  /\ SubSeq(s, m, Len(s)) \in Seq(S)
           /\ Len(SubSeq(s, m, Len(s))) = Len(s) - m + 1
           /\ \A k \in 1..(Len(s) - m + 1) :
                SubSeq(s, m, Len(s))[k] = s[m + k - 1]
  OBVIOUS

LEMMA ExceptFacts ==
    ASSUME NEW S, NEW s \in Seq(S), NEW i \in 1..Len(s), NEW e \in S
    PROVE  [s EXCEPT ![i] = e] \in Seq(S) /\ Len([s EXCEPT ![i] = e]) = Len(s)
  OBVIOUS

\* The end of a sequence of lines
Ends(new, old) ==
    \E m \in Nat : /\ m + Len(new) = Len(old)
                   /\ \A k \in DOMAIN new : new[k] = old[m + k]

LEMMA KeptEnds ==
    ASSUME NEW G, NEW lines \in Seq(G)
    PROVE  /\ Kept(lines) \in Seq(G) /\ Len(Kept(lines)) <= MaxLines
           /\ Ends(Kept(lines), lines)
  <1>1. MaxLines \in Nat \ {0}
    BY DashboardAssumption
  <1>2. CASE Len(lines) > MaxLines
    <2>1. PICK m : m = Len(lines) - MaxLines + 1
      OBVIOUS
    <2>2. m \in 1..Len(lines)
      BY <1>1, <1>2, <2>1
    <2>3. PICK s : s = SubSeq(lines, m, Len(lines))
      OBVIOUS
    <2>4. /\ s \in Seq(G) /\ Len(s) = Len(lines) - m + 1
          /\ \A k \in 1..(Len(lines) - m + 1) : s[k] = lines[m + k - 1]
      BY <2>2, <2>3, SubSeqFacts
    <2>5. Kept(lines) = s
      BY <1>2, <2>1, <2>3 DEF Kept, Capped
    <2>6. m - 1 \in Nat /\ m - 1 + Len(s) = Len(lines) /\ Len(s) <= MaxLines
      BY <1>1, <2>1, <2>2, <2>4
    <2>7. \A k \in DOMAIN s : s[k] = lines[m - 1 + k]
      BY <2>1, <2>2, <2>4
    <2>8. QED
      BY <2>4, <2>5, <2>6, <2>7 DEF Ends
  <1>3. CASE Len(lines) <= MaxLines
    <2>1. Kept(lines) = lines
      BY <1>1, <1>3 DEF Kept
    <2>2. 0 \in Nat /\ 0 + Len(lines) = Len(lines)
      OBVIOUS
    <2>3. \A k \in DOMAIN lines : lines[k] = lines[0 + k]
      <3>1. DOMAIN lines = 1..Len(lines)
        OBVIOUS
      <3>2. \A k \in 1..Len(lines) : 0 + k = k
        OBVIOUS
      <3>3. QED
        BY <3>1, <3>2
    <2>4. Ends(lines, lines)
      BY <2>2, <2>3 DEF Ends
    <2>5. QED
      BY <1>3, <2>1, <2>4
  <1>4. QED
    BY <1>1, <1>2, <1>3

\* What push_text makes of the lines: if the last one is open it is
\* continued, else there is a new one.
LEMMA PushCases ==
    ASSUME NEW lines, NEW text, NEW open
    PROVE  LET n == Len(lines) IN
           /\ n > 0 /\ lines[n].open =>
                PushText(lines, text, open) =
                  [lines EXCEPT ![n] = [text |-> lines[n].text \o text,
                                        open |-> open]]
           /\ ~(n > 0 /\ lines[n].open) =>
                PushText(lines, text, open) =
                  Kept(Append(lines, [text |-> text, open |-> open]))
  BY DEF PushText

LEMMA PushedLines ==
    ASSUME NEW G, NEW lines \in Seq(G), Len(lines) <= MaxLines,
           NEW text, NEW open, [text |-> text, open |-> open] \in G,
           Len(lines) > 0 /\ lines[Len(lines)].open =>
             [text |-> lines[Len(lines)].text \o text, open |-> open] \in G
    PROVE  /\ PushText(lines, text, open) \in Seq(G)
           /\ Len(PushText(lines, text, open)) <= MaxLines
  <1>1. CASE Len(lines) > 0 /\ lines[Len(lines)].open
    <2>1. PICK l \in G : l = [text |-> lines[Len(lines)].text \o text,
                              open |-> open]
      BY <1>1
    <2>2. PushText(lines, text, open) = [lines EXCEPT ![Len(lines)] = l]
      BY <1>1, <2>1, PushCases
    <2>3. Len(lines) \in 1..Len(lines)
      BY <1>1
    <2>4. /\ [lines EXCEPT ![Len(lines)] = l] \in Seq(G)
          /\ Len([lines EXCEPT ![Len(lines)] = l]) = Len(lines)
      BY <2>3, ExceptFacts
    <2>5. QED
      BY <2>2, <2>4
  <1>2. CASE ~(Len(lines) > 0 /\ lines[Len(lines)].open)
    <2>1. PICK l \in G : l = [text |-> text, open |-> open]
      OBVIOUS
    <2>2. PushText(lines, text, open) = Kept(Append(lines, l))
      BY <1>2, <2>1, PushCases
    <2>3. Append(lines, l) \in Seq(G)
      BY AppendFacts
    <2>4. QED
      BY <2>2, <2>3, KeptEnds
  <1>3. QED
    BY <1>1, <1>2

LEMMA PushedClosed ==
    ASSUME NEW lines \in Seq(Line), NEW text, NEW open \in BOOLEAN,
           [text |-> text, open |-> open] \in Line
    PROVE  /\ Closed(lines) => ClosedBut(PushText(lines, text, open))
           /\ ClosedBut(lines) /\ ~open => Closed(PushText(lines, text, open))
  <1>1. PICK new : new = PushText(lines, text, open)
    OBVIOUS
  <1>2. PICK n \in Nat : n = Len(lines) /\ DOMAIN lines = 1..n
    OBVIOUS
  <1>3. CASE n > 0 /\ lines[n].open
    <2>1. PICK l : l = [text |-> lines[n].text \o text, open |-> open]
      OBVIOUS
    <2>2. new = [lines EXCEPT ![n] = l] /\ l.open = open
      BY <1>1, <1>2, <1>3, <2>1, PushCases
    <2>3. ~Closed(lines)
      BY <1>2, <1>3 DEF Closed
    <2>4. ASSUME ClosedBut(lines), ~open PROVE Closed(new)
      <3>1. \A k \in 1..n : new[k].open = IF k = n THEN open ELSE lines[k].open
        BY <1>2, <2>2
      <3>2. \A k \in 1..n : k # n => ~lines[k].open
        BY <1>2, <2>4 DEF ClosedBut
      <3>3. DOMAIN new = 1..n
        BY <1>2, <2>2
      <3>4. QED
        BY <2>4, <3>1, <3>2, <3>3 DEF Closed
    <2>5. QED
      BY <1>1, <2>3, <2>4
  <1>4. CASE ~(n > 0 /\ lines[n].open)
    <2>1. PICK l \in Line : l = [text |-> text, open |-> open]
      OBVIOUS
    <2>2. PICK long : long = Append(lines, l)
      OBVIOUS
    <2>3. /\ long \in Seq(Line) /\ DOMAIN long = 1..(n + 1)
          /\ long[n + 1] = l /\ \A k \in 1..n : long[k] = lines[k]
      BY <1>2, <2>2, AppendFacts
    <2>4. new = Kept(long)
      BY <1>1, <1>2, <1>4, <2>1, <2>2, PushCases
    <2>5. new \in Seq(Line) /\ Ends(new, long)
      BY <2>3, <2>4, KeptEnds
    <2>6. PICK m \in Nat : /\ m + Len(new) = n + 1
                           /\ \A k \in DOMAIN new : new[k] = long[m + k]
      <3>1. Len(long) = n + 1
        BY <1>2, <2>3
      <3>2. QED
        BY <2>5, <3>1 DEF Ends
    <2>7. ASSUME ClosedBut(lines)
          PROVE  \A k \in DOMAIN new : k < Len(new) => ~new[k].open
      <3>1. \A k \in 1..n : k # n => ~lines[k].open
        BY <1>2, <2>7 DEF ClosedBut
      <3>2. \A k \in 1..n : ~lines[k].open
        BY <1>2, <1>4, <3>1
      <3>3. \A k \in DOMAIN new : k < Len(new) => m + k \in 1..n
        BY <2>5, <2>6
      <3>4. QED
        BY <2>3, <2>6, <3>2, <3>3
    <2>8. Closed(lines) => ClosedBut(lines)
      BY DEF Closed, ClosedBut
    <2>9. ASSUME ~open PROVE \A k \in DOMAIN new : k = Len(new) => ~new[k].open
      BY <2>1, <2>3, <2>6, <2>9
    <2>10. \A k \in DOMAIN new : k < Len(new) \/ k = Len(new)
      BY <2>5
    <2>11. QED
      BY <1>1, <2>7, <2>8, <2>9, <2>10 DEF Closed, ClosedBut
  <1>5. QED
    BY <1>3, <1>4

\* The lines of pane i, of which only its own client writes if u
Sound(u, i, lines) ==
    lines \in Seq(GoodLine(u, i)) /\ Len(lines) <= MaxLines /\ Closed(lines)

LEMMA TextGood ==
    ASSUME NEW u \in BOOLEAN, NEW i, NEW c \in 1..MaxEntries, u => c = i,
           NEW kind \in {"ready", "echo", "reply", "error"},
           NEW prompt \in 0..MaxPrompts, NEW open \in BOOLEAN
    PROVE  [text |-> Text(kind, c, prompt), open |-> open] \in GoodLine(u, i)
  <1>1. PICK p : p = [kind |-> kind, client |-> c, prompt |-> prompt]
    OBVIOUS
  <1>2. p \in Piece /\ p.client = c
    BY <1>1 DEF Piece
  <1>3. Text(kind, c, prompt) = <<p>>
    BY <1>1 DEF Text
  <1>4. <<p>> \in Seq(Piece) /\ Len(<<p>>) = 1 /\ DOMAIN <<p>> = {1}
        /\ <<p>>[1] = p
    BY <1>2
  <1>5. PICK l : l = [text |-> <<p>>, open |-> open]
    OBVIOUS
  <1>6. l \in Line /\ l.text = <<p>>
    BY <1>4, <1>5 DEF Line
  <1>7. Len(l.text) <= 1
    BY <1>4, <1>6
  <1>8. u => \A x \in DOMAIN l.text : l.text[x].client = i
    BY <1>2, <1>4, <1>6
  <1>9. QED
    BY <1>3, <1>5, <1>6, <1>7, <1>8 DEF GoodLine

LEMMA NewlineGood ==
    ASSUME NEW u \in BOOLEAN, NEW i
    PROVE  /\ [text |-> <<>>, open |-> FALSE] \in GoodLine(u, i)
           /\ \A l \in GoodLine(u, i) :
                [text |-> l.text \o <<>>, open |-> FALSE] \in GoodLine(u, i)
  <1>1. <<>> \in Seq(Piece) /\ Len(<<>>) = 0 /\ DOMAIN <<>> = {}
    OBVIOUS
  <1>2. [text |-> <<>>, open |-> FALSE] \in GoodLine(u, i)
    BY <1>1 DEF GoodLine, Line
  <1>3. ASSUME NEW l \in GoodLine(u, i)
        PROVE  [text |-> l.text \o <<>>, open |-> FALSE] \in GoodLine(u, i)
    <2>1. l \in Line /\ l.text \in Seq(Piece)
      BY DEF GoodLine, Line
    <2>2. l.text \o <<>> = l.text
      BY <2>1
    <2>3. [text |-> l.text, open |-> FALSE] \in GoodLine(u, i)
      BY <2>1 DEF GoodLine, Line
    <2>4. QED
      BY <2>2, <2>3
  <1>4. QED
    BY <1>2, <1>3

\* A text of its own, with or without a newline that follows, leaves the
\* lines of a pane sound.
LEMMA PushedSound ==
    ASSUME NEW u \in BOOLEAN, NEW i, NEW c \in 1..MaxEntries, u => c = i,
           NEW kind \in {"ready", "echo", "reply", "error"},
           NEW prompt \in 0..MaxPrompts, NEW lines, Sound(u, i, lines),
           NEW open \in BOOLEAN
    PROVE  LET new == PushText(lines, Text(kind, c, prompt), open) IN
           /\ ~open => Sound(u, i, new)
           /\ Sound(u, i, PushText(new, <<>>, FALSE))
  <1>1. PICK t : t = Text(kind, c, prompt)
    OBVIOUS
  <1>2. [text |-> t, open |-> open] \in GoodLine(u, i)
    BY <1>1, TextGood
  <1>3. lines \in Seq(GoodLine(u, i)) /\ Len(lines) <= MaxLines /\ Closed(lines)
    BY DEF Sound
  <1>4. GoodLine(u, i) \subseteq Line
    BY DEF GoodLine
  <1>5. lines \in Seq(Line) /\ [text |-> t, open |-> open] \in Line
    BY <1>2, <1>3, <1>4
  <1>6. ~(Len(lines) > 0 /\ lines[Len(lines)].open)
    <2>1. Len(lines) > 0 => Len(lines) \in DOMAIN lines
      BY <1>5
    <2>2. QED
      BY <1>3, <2>1 DEF Closed
  <1>7. PICK new : new = PushText(lines, t, open)
    OBVIOUS
  <1>8. new \in Seq(GoodLine(u, i)) /\ Len(new) <= MaxLines
    BY <1>2, <1>3, <1>6, <1>7, PushedLines
  <1>9. /\ ClosedBut(new)
        /\ ~open => Closed(new)
    <2>1. Closed(lines) => ClosedBut(lines)
      BY DEF Closed, ClosedBut
    <2>2. QED
      BY <1>3, <1>5, <1>7, <2>1, PushedClosed
  <1>10. PICK last : last = PushText(new, <<>>, FALSE)
    OBVIOUS
  <1>11. Len(new) > 0 /\ new[Len(new)].open =>
           [text |-> new[Len(new)].text \o <<>>, open |-> FALSE]
             \in GoodLine(u, i)
    <2>1. Len(new) > 0 => new[Len(new)] \in GoodLine(u, i)
      BY <1>8
    <2>2. QED
      BY <2>1, NewlineGood
  <1>12. last \in Seq(GoodLine(u, i)) /\ Len(last) <= MaxLines
    BY <1>8, <1>10, <1>11, NewlineGood, PushedLines
  <1>13. Closed(last)
    <2>1. new \in Seq(Line)
      BY <1>4, <1>8
    <2>2. [text |-> <<>>, open |-> FALSE] \in Line
      BY <1>4, NewlineGood
    <2>3. QED
      BY <1>9, <1>10, <2>1, <2>2, PushedClosed
  <1>14. Sound(u, i, last) /\ (~open => Sound(u, i, new))
    BY <1>8, <1>9, <1>12, <1>13 DEF Sound
  <1>15. QED
    BY <1>1, <1>7, <1>10, <1>14

-----------------------------------------------------------------------------
(* What a step shows.                                                      *)

PaneChange(k, lines, state) ==
    /\ panes' \in Seq(Pane) /\ Len(panes') = Len(panes)
    /\ \A i \in DOMAIN panes :
         /\ panes'[i].name = panes[i].name
         /\ panes'[i].lines = IF i = k THEN lines ELSE panes[i].lines
         /\ panes'[i].state = IF i = k THEN state ELSE panes[i].state

LEMMA PanesReplaced ==
    ASSUME panes \in Seq(Pane), NEW k \in DOMAIN panes, NEW lines \in Seq(Line),
           NEW state \in {"starting", "ready", "error"},
           \/ panes' = [panes EXCEPT ![k].lines = lines, ![k].state = state]
           \/ /\ state = panes[k].state
              /\ panes' = [panes EXCEPT ![k].lines = lines]
    PROVE  PaneChange(k, lines, state)
  <1>1. panes[k] \in Pane
    OBVIOUS
  <1>2. PICK p : p = [panes[k] EXCEPT !.lines = lines, !.state = state]
    OBVIOUS
  <1>3. /\ p \in Pane /\ p.name = panes[k].name
        /\ p.lines = lines /\ p.state = state
    BY <1>1, <1>2 DEF Pane
  <1>4. panes' = [panes EXCEPT ![k] = p]
    <2>1. CASE panes' = [panes EXCEPT ![k].lines = lines, ![k].state = state]
      BY <1>2, <2>1
    <2>2. CASE /\ state = panes[k].state
               /\ panes' = [panes EXCEPT ![k].lines = lines]
      <3>1. p = [panes[k] EXCEPT !.lines = lines]
        BY <1>1, <1>2, <2>2 DEF Pane
      <3>2. QED
        BY <2>2, <3>1
    <2>3. QED
      BY <2>1, <2>2
  <1>5. k \in 1..Len(panes)
    OBVIOUS
  <1>6. panes' \in Seq(Pane) /\ Len(panes') = Len(panes)
    BY <1>3, <1>4, <1>5, ExceptFacts
  <1>7. \A i \in DOMAIN panes : panes'[i] = IF i = k THEN p ELSE panes[i]
    BY <1>4
  <1>8. QED
    BY <1>3, <1>6, <1>7 DEF PaneChange

LEMMA PaneShown ==
    ASSUME panes \in Seq(Pane), NEW c \in DOMAIN panes, NEW lines \in Seq(Line),
           Shows(c, lines)
    PROVE  \E state : /\ PaneChange(PaneOf(c), lines, state)
                      /\ state = panes[PaneOf(c)].state
  <1>1. PICK k \in DOMAIN panes : k = PaneOf(c)
    BY FirstPane
  <1>2. PICK state \in {"starting", "ready", "error"} : state = panes[k].state
    <2>1. panes[k] \in Pane
      OBVIOUS
    <2>2. QED
      BY <2>1 DEF Pane
  <1>3. panes' = [panes EXCEPT ![k].lines = lines]
    BY <1>1 DEF Shows
  <1>4. PaneChange(k, lines, state)
    BY <1>2, <1>3, PanesReplaced
  <1>5. QED
    BY <1>1, <1>2, <1>4

LEMMA PaneStateShown ==
    ASSUME panes \in Seq(Pane), NEW c \in DOMAIN panes, NEW lines \in Seq(Line),
           NEW state \in {"starting", "ready", "error"},
           ShowsState(c, lines, state)
    PROVE  PaneChange(PaneOf(c), lines, state)
  <1>1. PICK k \in DOMAIN panes : k = PaneOf(c)
    BY FirstPane
  <1>2. panes' = [panes EXCEPT ![k].lines = lines, ![k].state = state]
    BY <1>1 DEF ShowsState
  <1>3. QED
    BY <1>1, <1>2, PanesReplaced

PaneInv == \A i \in DOMAIN panes : Sound(UniquePanes, i, panes[i].lines)

LEMMA PanesStaySound ==
    ASSUME panes \in Seq(Pane), PaneInv, NEW k \in DOMAIN panes,
           NEW lines, Sound(UniquePanes, k, lines), NEW state,
           PaneChange(k, lines, state)
    PROVE  PaneInv' /\ (UniquePanes' <=> UniquePanes)
  <1>1. DOMAIN panes' = DOMAIN panes
    BY DEF PaneChange
  <1>2. UniquePanes' <=> UniquePanes
    BY <1>1 DEF UniquePanes, PaneChange
  <1>3. \A i \in DOMAIN panes : Sound(UniquePanes, i, panes'[i].lines)
    BY DEF PaneInv, PaneChange
  <1>4. PICK u \in BOOLEAN : u = UniquePanes /\ u = UniquePanes'
    BY <1>2 DEF UniquePanes
  <1>5. \A i \in DOMAIN panes' : Sound(u, i, panes'[i].lines)
    BY <1>1, <1>3, <1>4
  <1>6. PaneInv'
    BY <1>4, <1>5 DEF PaneInv
  <1>7. QED
    BY <1>2, <1>6

-----------------------------------------------------------------------------
(* The clients and their prompts.                                          *)

\* Taken of the client that c is
TakenOf(c) ==
    c.done \o (IF c.prompt = 0 THEN <<>> ELSE <<c.prompt>>) \o c.queue

InOrder(s) == \A j, k \in DOMAIN s : j < k => s[j] < s[k]

\* Client i, being c, is to answer exactly what was typed for it, in order.
Keeps(c, i, typed) ==
    /\ c.prompt # 0 <=> c.pc = "waiting"
    /\ c.pc # "ended" =>
         /\ Range(TakenOf(c)) = {n \in DOMAIN typed : typed[n] = i}
         /\ InOrder(TakenOf(c))

LEMMA Regroup ==
    ASSUME NEW S, NEW d \in Seq(S), NEW q \in Seq(S), NEW p \in S
    PROVE  /\ d \o <<>> = d
           /\ d \o <<p>> = Append(d, p)
           /\ d \o Append(q, p) = Append(d \o q, p)
  <1>1. d \o <<>> = d
    OBVIOUS
  <1>2. d \o <<p>> = Append(d, p)
    OBVIOUS
  <1>3. d \o Append(q, p) = Append(d \o q, p)
    OBVIOUS
  <1>4. QED
    BY <1>1, <1>2, <1>3

LEMMA HeadTail ==
    ASSUME NEW S, NEW q \in Seq(S), q # <<>>
    PROVE  /\ <<Head(q)>> \o Tail(q) = q
           /\ Head(q) \in S /\ Tail(q) \in Seq(S)
           /\ <<Head(q)>> \in Seq(S)
  OBVIOUS

LEMMA Associative ==
    ASSUME NEW S, NEW d \in Seq(S), NEW x \in Seq(S), NEW q \in Seq(S)
    PROVE  (d \o x) \o q = d \o (x \o q)
  OBVIOUS

LEMMA HeadMoves ==
    ASSUME NEW S, NEW d \in Seq(S), NEW q \in Seq(S), q # <<>>
    PROVE  (d \o <<Head(q)>>) \o Tail(q) = d \o q
  <1>1. PICK x \in Seq(S) : x = <<Head(q)>>
    BY HeadTail
  <1>2. PICK t \in Seq(S) : t = Tail(q)
    BY HeadTail
  <1>3. (d \o x) \o t = d \o (x \o t)
    BY Associative
  <1>4. QED
    BY <1>1, <1>2, <1>3, HeadTail

LEMMA ClientParts ==
    ASSUME NEW c \in Client
    PROVE  /\ c.done \in Seq(1..MaxPrompts) /\ c.queue \in Seq(1..MaxPrompts)
           /\ c.prompt \in 0..MaxPrompts
           /\ TakenOf(c) \in Seq(1..MaxPrompts)
  <1>1. /\ c.done \in Seq(1..MaxPrompts) /\ c.queue \in Seq(1..MaxPrompts)
        /\ c.prompt \in 0..MaxPrompts
    BY DEF Client
  <1>2. PICK x : x = IF c.prompt = 0 THEN <<>> ELSE <<c.prompt>>
    OBVIOUS
  <1>3. x \in Seq(1..MaxPrompts)
    <2>1. CASE c.prompt = 0
      BY <1>2, <2>1
    <2>2. CASE c.prompt # 0
      <3>1. c.prompt \in 1..MaxPrompts
        BY <1>1, <2>2, DashboardAssumption
      <3>2. QED
        BY <1>2, <2>2, <3>1
    <2>3. QED
      BY <2>1, <2>2
  <1>4. c.done \o x \o c.queue \in Seq(1..MaxPrompts)
    BY <1>1, <1>3
  <1>5. QED
    BY <1>1, <1>2, <1>4 DEF TakenOf

\* One more prompt, later than the others, keeps them in order.
LEMMA AppendInOrder ==
    ASSUME NEW s \in Seq(Nat), NEW n \in Nat, InOrder(s),
           \A k \in DOMAIN s : s[k] < n
    PROVE  InOrder(Append(s, n)) /\ Range(Append(s, n)) = Range(s) \cup {n}
  <1>1. PICK t : t = Append(s, n)
    OBVIOUS
  <1>2. /\ DOMAIN t = 1..(Len(s) + 1) /\ t[Len(s) + 1] = n
        /\ DOMAIN s = 1..Len(s) /\ Len(s) \in Nat
        /\ \A k \in 1..Len(s) : t[k] = s[k]
    BY <1>1, AppendFacts
  <1>3. ASSUME NEW j \in DOMAIN t, NEW k \in DOMAIN t, j < k
        PROVE  t[j] < t[k]
    <2>1. CASE k = Len(s) + 1
      <3>1. j \in 1..Len(s)
        BY <1>2, <1>3, <2>1
      <3>2. QED
        BY <1>2, <2>1, <3>1
    <2>2. CASE k \in 1..Len(s)
      <3>1. j \in 1..Len(s)
        BY <1>2, <1>3, <2>2
      <3>2. QED
        BY <1>2, <1>3, <2>2, <3>1 DEF InOrder
    <2>3. QED
      BY <1>2, <2>1, <2>2
  <1>4. \A k \in DOMAIN t : t[k] \in Range(s) \cup {n}
    BY <1>2 DEF Range
  <1>5. \A x \in Range(s) : \E k \in DOMAIN t : t[k] = x
    <2>1. \A k \in 1..Len(s) : k \in DOMAIN t
      BY <1>2
    <2>2. QED
      BY <1>2, <2>1 DEF Range
  <1>6. \E k \in DOMAIN t : t[k] = n
    BY <1>2
  <1>7. Range(t) = Range(s) \cup {n}
    BY <1>4, <1>5, <1>6 DEF Range
  <1>8. QED
    BY <1>1, <1>3, <1>7 DEF InOrder


\* The client after each of its steps
ReadyClient(c)    == [c EXCEPT !.pc = "ready"]
ReceivedClient(c) == [c EXCEPT !.pc = "waiting", !.prompt = Head(c.queue),
                               !.queue = Tail(c.queue)]
AnsweredClient(c) == [c EXCEPT !.pc = "ready", !.prompt = 0,
                               !.done = Append(c.done, c.prompt)]
FailedClient(c)   == [c EXCEPT !.pc = "ended", !.queue = <<>>, !.prompt = 0]

LEMMA ReadyKeeps ==
    ASSUME NEW c \in Client, c.pc = "starting", NEW i, NEW typed,
           Keeps(c, i, typed)
    PROVE  ReadyClient(c) \in Client /\ Keeps(ReadyClient(c), i, typed)
  <1>1. PICK d : d = ReadyClient(c)
    OBVIOUS
  <1>2. d \in Client /\ d.pc = "ready" /\ d.queue = c.queue
        /\ d.prompt = c.prompt /\ d.done = c.done
    BY <1>1 DEF ReadyClient, Client
  <1>3. TakenOf(d) = TakenOf(c)
    BY <1>2 DEF TakenOf
  <1>4. Keeps(d, i, typed)
    BY <1>2, <1>3 DEF Keeps
  <1>5. QED
    BY <1>1, <1>2, <1>4

LEMMA ReceivedKeeps ==
    ASSUME NEW c \in Client, c.pc = "ready", c.queue # <<>>, NEW i, NEW typed,
           Keeps(c, i, typed)
    PROVE  ReceivedClient(c) \in Client /\ Keeps(ReceivedClient(c), i, typed)
  <1>1. PICK d : d = ReceivedClient(c)
    OBVIOUS
  <1>2. PICK S : S = 1..MaxPrompts
    OBVIOUS
  <1>3. /\ c.done \in Seq(S) /\ c.queue \in Seq(S)
        /\ Head(c.queue) \in S /\ Tail(c.queue) \in Seq(S)
        /\ <<Head(c.queue)>> \o Tail(c.queue) = c.queue
    BY <1>2, ClientParts, HeadTail
  <1>4. Head(c.queue) \in 0..MaxPrompts /\ Head(c.queue) # 0
    BY <1>2, <1>3, DashboardAssumption
  <1>5. d \in Client /\ d.pc = "waiting" /\ d.queue = Tail(c.queue)
        /\ d.prompt = Head(c.queue) /\ d.done = c.done
    BY <1>1, <1>2, <1>3, <1>4 DEF ReceivedClient, Client
  <1>6. c.prompt = 0
    BY DEF Keeps
  <1>7. TakenOf(d) = TakenOf(c)
    <2>1. TakenOf(c) = c.done \o c.queue
      BY <1>3, <1>6, Regroup DEF TakenOf
    <2>2. TakenOf(d) = (c.done \o <<Head(c.queue)>>) \o Tail(c.queue)
      BY <1>4, <1>5 DEF TakenOf
    <2>3. QED
      BY <1>3, <2>1, <2>2, HeadMoves
  <1>8. Keeps(d, i, typed)
    BY <1>4, <1>5, <1>7 DEF Keeps
  <1>9. QED
    BY <1>1, <1>5, <1>8

LEMMA AnsweredKeeps ==
    ASSUME NEW c \in Client, c.pc = "waiting", NEW i, NEW typed,
           Keeps(c, i, typed)
    PROVE  AnsweredClient(c) \in Client /\ Keeps(AnsweredClient(c), i, typed)
  <1>1. PICK d : d = AnsweredClient(c)
    OBVIOUS
  <1>2. PICK S : S = 1..MaxPrompts
    OBVIOUS
  <1>3. c.prompt \in S
    <2>1. c.prompt # 0
      BY DEF Keeps
    <2>2. QED
      BY <1>2, <2>1, ClientParts, DashboardAssumption
  <1>4. c.done \in Seq(S) /\ c.queue \in Seq(S)
        /\ Append(c.done, c.prompt) \in Seq(S)
    BY <1>2, <1>3, ClientParts, AppendFacts
  <1>5. 0 \in 0..MaxPrompts
    BY DashboardAssumption
  <1>6. d \in Client /\ d.pc = "ready" /\ d.queue = c.queue
        /\ d.prompt = 0 /\ d.done = Append(c.done, c.prompt)
    BY <1>1, <1>2, <1>4, <1>5 DEF AnsweredClient, Client
  <1>7. TakenOf(d) = TakenOf(c)
    <2>1. c.prompt # 0
      BY DEF Keeps
    <2>2. TakenOf(c) = (c.done \o <<c.prompt>>) \o c.queue
      BY <2>1 DEF TakenOf
    <2>3. TakenOf(d) = (Append(c.done, c.prompt) \o <<>>) \o c.queue
      BY <1>6 DEF TakenOf
    <2>4. c.done \o <<c.prompt>> = Append(c.done, c.prompt)
      BY <1>3, <1>4, Regroup
    <2>5. Append(c.done, c.prompt) \o <<>> = Append(c.done, c.prompt)
      BY <1>3, <1>4, Regroup
    <2>6. QED
      BY <2>2, <2>3, <2>4, <2>5
  <1>8. Keeps(d, i, typed)
    BY <1>6, <1>7 DEF Keeps
  <1>9. QED
    BY <1>1, <1>6, <1>8

LEMMA FailedKeeps ==
    ASSUME NEW c \in Client, NEW i, NEW typed
    PROVE  FailedClient(c) \in Client /\ Keeps(FailedClient(c), i, typed)
  <1>1. PICK d : d = FailedClient(c)
    OBVIOUS
  <1>2. 0 \in 0..MaxPrompts /\ <<>> \in Seq(1..MaxPrompts)
    BY DashboardAssumption
  <1>3. d \in Client /\ d.pc = "ended" /\ d.prompt = 0
    BY <1>1, <1>2 DEF FailedClient, Client
  <1>4. Keeps(d, i, typed)
    BY <1>3 DEF Keeps
  <1>5. QED
    BY <1>1, <1>3, <1>4


\* What was typed for one client does not concern the others.
LEMMA TypedFor ==
    ASSUME NEW S, NEW typed \in Seq(S), NEW i \in S, NEW j
    PROVE  {n \in DOMAIN Append(typed, i) : Append(typed, i)[n] = j}
             = {n \in DOMAIN typed : typed[n] = j}
                 \cup (IF i = j THEN {Len(typed) + 1} ELSE {})
  <1>1. PICK long : long = Append(typed, i)
    OBVIOUS
  <1>2. /\ DOMAIN long = 1..(Len(typed) + 1) /\ long[Len(typed) + 1] = i
        /\ DOMAIN typed = 1..Len(typed) /\ Len(typed) \in Nat
        /\ \A k \in 1..Len(typed) : long[k] = typed[k]
    BY <1>1, AppendFacts
  <1>3. {n \in DOMAIN long : long[n] = j}
          = {n \in DOMAIN typed : typed[n] = j}
              \cup (IF i = j THEN {Len(typed) + 1} ELSE {})
    BY <1>2
  <1>4. QED
    BY <1>1, <1>3

LEMMA OthersKeep ==
    ASSUME NEW c, NEW typed \in Seq(1..MaxEntries), NEW i \in 1..MaxEntries,
           NEW j, j # i \/ c.pc = "ended", Keeps(c, j, typed)
    PROVE  Keeps(c, j, Append(typed, i))
  <1>1. CASE c.pc = "ended"
    BY <1>1 DEF Keeps
  <1>2. CASE j # i
    <2>1. {n \in DOMAIN Append(typed, i) : Append(typed, i)[n] = j}
            = {n \in DOMAIN typed : typed[n] = j}
      BY <1>2, TypedFor
    <2>2. QED
      BY <2>1 DEF Keeps
  <1>3. QED
    BY <1>1, <1>2

TypedClient(c, n) == [c EXCEPT !.queue = Append(c.queue, n)]

LEMMA TakenGrows ==
    ASSUME NEW c \in Client, NEW d, NEW n \in 1..MaxPrompts,
           d.prompt = c.prompt, d.done = c.done, d.queue = Append(c.queue, n)
    PROVE  TakenOf(d) = Append(TakenOf(c), n)
  <1>1. PICK S : S = 1..MaxPrompts
    OBVIOUS
  <1>2. c.done \in Seq(S) /\ c.queue \in Seq(S)
    BY <1>1, ClientParts
  <1>3. CASE c.prompt = 0
    <2>1. PICK e \in Seq(S) : e = c.done /\ c.done \o <<>> = e
      BY <1>1, <1>2, Regroup
    <2>2. e \o Append(c.queue, n) = Append(e \o c.queue, n)
      BY <1>1, <1>2, Regroup
    <2>3. QED
      BY <1>3, <2>1, <2>2 DEF TakenOf
  <1>4. CASE c.prompt # 0
    <2>1. c.prompt \in S
      BY <1>1, <1>4, ClientParts, DashboardAssumption
    <2>2. PICK e \in Seq(S) : e = Append(c.done, c.prompt)
      BY <1>2, <2>1, AppendFacts
    <2>3. c.done \o <<c.prompt>> = Append(c.done, c.prompt)
      BY <1>2, <2>1, Regroup
    <2>4. e \o Append(c.queue, n) = Append(e \o c.queue, n)
      BY <1>1, <1>2, Regroup
    <2>5. QED
      BY <1>4, <2>2, <2>3, <2>4 DEF TakenOf
  <1>5. QED
    BY <1>3, <1>4

LEMMA TypedKeeps ==
    ASSUME NEW c \in Client, c.pc # "ended",
           NEW typed \in Seq(1..MaxEntries), NEW i \in 1..MaxEntries,
           Len(typed) + 1 <= MaxPrompts, Keeps(c, i, typed)
    PROVE  /\ TypedClient(c, Len(typed) + 1) \in Client
           /\ Keeps(TypedClient(c, Len(typed) + 1), i, Append(typed, i))
  <1>1. PICK n \in 1..MaxPrompts : n = Len(typed) + 1
    BY DashboardAssumption
  <1>2. PICK d : d = TypedClient(c, n)
    OBVIOUS
  <1>4. /\ c.done \in Seq(1..MaxPrompts) /\ c.queue \in Seq(1..MaxPrompts)
        /\ c.prompt \in 0..MaxPrompts /\ TakenOf(c) \in Seq(1..MaxPrompts)
    BY ClientParts
  <1>5. Append(c.queue, n) \in Seq(1..MaxPrompts)
    BY <1>4, AppendFacts
  <1>6. d \in Client /\ d.pc = c.pc /\ d.prompt = c.prompt /\ d.done = c.done
        /\ d.queue = Append(c.queue, n)
    BY <1>2, <1>5 DEF TypedClient, Client
  <1>7. TakenOf(d) = Append(TakenOf(c), n)
    BY <1>6, TakenGrows
  <1>8. PICK s : s = TakenOf(c)
    OBVIOUS
  <1>9. /\ s \in Seq(1..MaxPrompts) /\ InOrder(s)
        /\ Range(s) = {k \in DOMAIN typed : typed[k] = i}
    BY <1>4, <1>8 DEF Keeps
  <1>10. \A k \in DOMAIN s : s[k] < n
    <2>1. \A k \in DOMAIN s : s[k] \in DOMAIN typed
      BY <1>9 DEF Range
    <2>2. \A m \in DOMAIN typed : m < n
      BY <1>1
    <2>3. QED
      BY <2>1, <2>2
  <1>11. InOrder(Append(s, n)) /\ Range(Append(s, n)) = Range(s) \cup {n}
    <2>1. s \in Seq(Nat)
      BY <1>9, DashboardAssumption
    <2>2. QED
      BY <1>1, <1>9, <1>10, <2>1, AppendInOrder
  <1>12. Range(Append(s, n))
           = {k \in DOMAIN Append(typed, i) : Append(typed, i)[k] = i}
    BY <1>1, <1>9, <1>11, TypedFor
  <1>13. Keeps(d, i, Append(typed, i))
    BY <1>6, <1>7, <1>8, <1>11, <1>12 DEF Keeps
  <1>14. QED
    BY <1>1, <1>2, <1>6, <1>13

-----------------------------------------------------------------------------
(* The inductive invariant.                                                *)

Shapes ==
    /\ panes \in Seq(Pane) /\ clients \in Seq(Client)
    /\ Len(clients) = Len(panes) /\ Len(panes) <= MaxEntries
    /\ selected \in 1..(IF panes = <<>> THEN 1 ELSE Len(panes))
    /\ asked \in Seq(1..MaxEntries) /\ Len(asked) <= MaxPrompts
    /\ panes = <<>> => asked = <<>>

StateInv ==
    UniquePanes => \A i \in DOMAIN panes :
                     panes[i].state = "error" <=> clients[i].pc = "ended"

PromptInv == \A i \in DOMAIN clients : Keeps(clients[i], i, asked)

PanesInv == Shapes /\ PaneInv /\ StateInv /\ PromptInv

\* A step of the client of pane i, which becomes c
LEMMA ClientStep ==
    ASSUME PanesInv, NEW i \in DOMAIN clients, NEW c \in Client,
           clients' = [clients EXCEPT ![i] = c], selected' = selected,
           asked' \in Seq(1..MaxEntries), Len(asked') <= MaxPrompts,
           Keeps(c, i, asked'),
           \A j \in DOMAIN clients : j # i => Keeps(clients[j], j, asked'),
           NEW k \in DOMAIN panes, k = PaneOf(i),
           NEW lines, Sound(UniquePanes, k, lines), NEW state,
           PaneChange(k, lines, state),
           UniquePanes => (state = "error" <=> c.pc = "ended")
    PROVE  PanesInv'
  <1>1. /\ panes \in Seq(Pane) /\ clients \in Seq(Client)
        /\ Len(clients) = Len(panes)
        /\ DOMAIN panes = 1..Len(panes) /\ DOMAIN clients = 1..Len(panes)
    BY DEF PanesInv, Shapes
  <1>2. i \in 1..Len(clients)
    BY <1>1
  <1>3. clients' \in Seq(Client) /\ Len(clients') = Len(clients)
    BY <1>1, <1>2, ExceptFacts
  <1>4. \A j \in DOMAIN clients : clients'[j] = IF j = i THEN c ELSE clients[j]
    BY <1>1
  <1>5. panes' \in Seq(Pane) /\ Len(panes') = Len(panes)
    BY DEF PaneChange
  <1>6. panes # <<>> /\ panes' # <<>>
    <2>1. Len(panes) > 0
      BY <1>1, <1>2
    <2>2. QED
      BY <1>1, <1>5, <2>1
  <1>7. Shapes'
    BY <1>3, <1>5, <1>6 DEF PanesInv, Shapes
  <1>8. PaneInv' /\ (UniquePanes' <=> UniquePanes)
    BY <1>1, PanesStaySound DEF PanesInv
  <1>9. StateInv'
    <2>1. ASSUME UniquePanes, NEW j \in DOMAIN panes
          PROVE  panes'[j].state = "error" <=> clients'[j].pc = "ended"
      <3>1. k = i
        BY <1>1, <2>1, FirstPane
      <3>2. CASE j = i
        BY <1>1, <1>4, <2>1, <3>1, <3>2 DEF PaneChange
      <3>3. CASE j # i
        BY <1>1, <1>4, <2>1, <3>1, <3>3 DEF PaneChange, PanesInv, StateInv
      <3>4. QED
        BY <3>2, <3>3
    <2>2. DOMAIN panes' = DOMAIN panes
      BY <1>1, <1>5
    <2>3. QED
      BY <1>8, <2>1, <2>2 DEF StateInv
  <1>10. PromptInv'
    <2>1. DOMAIN clients' = DOMAIN clients
      BY <1>1, <1>3
    <2>2. \A j \in DOMAIN clients : Keeps(clients'[j], j, asked')
      BY <1>4
    <2>3. QED
      BY <2>1, <2>2 DEF PromptInv, Keeps, TakenOf, InOrder
  <1>11. QED
    BY <1>7, <1>8, <1>9, <1>10 DEF PanesInv

\* A text of client i, shown where it belongs, leaves that pane sound.
LEMMA TextShown ==
    ASSUME PanesInv, NEW i \in DOMAIN clients,
           NEW kind \in {"ready", "echo", "reply", "error"},
           NEW prompt \in 0..MaxPrompts, NEW open \in BOOLEAN
    PROVE  LET new == PushText(LinesOf(i), Text(kind, i, prompt), open) IN
           /\ ~open => Sound(UniquePanes, PaneOf(i), new)
           /\ Sound(UniquePanes, PaneOf(i), PushText(new, <<>>, FALSE))
  <1>1. panes \in Seq(Pane) /\ i \in DOMAIN panes /\ i \in 1..MaxEntries
    BY ConfigAssumption DEF PanesInv, Shapes
  <1>2. PICK k \in DOMAIN panes : k = PaneOf(i) /\ (UniquePanes => i = k)
    BY <1>1, FirstPane
  <1>3. Sound(UniquePanes, k, LinesOf(i))
    BY <1>2 DEF PanesInv, PaneInv, LinesOf
  <1>4. PICK u \in BOOLEAN : u = UniquePanes
    BY DEF UniquePanes
  <1>5. PICK lines : lines = LinesOf(i)
    OBVIOUS
  <1>6. Sound(u, k, lines) /\ (u => i = k)
    BY <1>2, <1>3, <1>4, <1>5
  <1>7. LET new == PushText(lines, Text(kind, i, prompt), open) IN
        /\ ~open => Sound(u, k, new)
        /\ Sound(u, k, PushText(new, <<>>, FALSE))
    BY <1>1, <1>6, PushedSound
  <1>8. QED
    BY <1>2, <1>4, <1>5, <1>7


\* What a client that no one has told anything keeps as it was
LEMMA SameAsked ==
    ASSUME PanesInv, asked' = asked
    PROVE  /\ asked' \in Seq(1..MaxEntries) /\ Len(asked') <= MaxPrompts
           /\ \A j \in DOMAIN clients : Keeps(clients[j], j, asked')
           /\ clients \in Seq(Client) /\ panes \in Seq(Pane)
           /\ DOMAIN clients = DOMAIN panes
           /\ \A j \in DOMAIN clients : clients[j] \in Client
  BY DEF PanesInv, Shapes, PromptInv

LEMMA SoundLines ==
    ASSUME NEW u, NEW k, NEW lines, Sound(u, k, lines)
    PROVE  lines \in Seq(Line)
  <1>1. lines \in Seq(GoodLine(u, k)) /\ GoodLine(u, k) \subseteq Line
    BY DEF Sound, GoodLine
  <1>2. QED
    BY <1>1

LEMMA ReadyGood ==
    ASSUME PanesInv, NEW i \in DOMAIN clients, Ready(i)
    PROVE  PanesInv'
  <1>1. /\ asked' = asked /\ selected' = selected
        /\ clients[i].pc = "starting"
    BY DEF Ready
  <1>2. PICK c : c = ReadyClient(clients[i])
    OBVIOUS
  <1>3. c \in Client /\ Keeps(c, i, asked')
    BY <1>1, <1>2, SameAsked, ReadyKeeps
  <1>4. c.pc = "ready"
    BY <1>1, <1>2, SameAsked DEF ReadyClient, Client
  <1>5. clients' = [clients EXCEPT ![i] = c]
    BY <1>2 DEF Ready, ReadyClient
  <1>6. PICK lines : lines = PushText(LinesOf(i), Text("ready", i, 0), FALSE)
    OBVIOUS
  <1>7. PICK k \in DOMAIN panes : k = PaneOf(i)
    BY <1>1, SameAsked, FirstPane
  <1>8. Sound(UniquePanes, k, lines)
    <2>1. 0 \in 0..MaxPrompts
      BY DashboardAssumption
    <2>2. QED
      BY <1>6, <1>7, <2>1, TextShown
  <1>9. PaneChange(k, lines, "ready")
    <2>1. ShowsState(i, lines, "ready")
      BY <1>6 DEF Ready
    <2>2. lines \in Seq(Line)
      BY <1>8, SoundLines
    <2>3. QED
      BY <1>1, <1>7, <2>1, <2>2, SameAsked, PaneStateShown
  <1>10. QED
    BY <1>1, <1>3, <1>4, <1>5, <1>7, <1>8, <1>9, SameAsked, ClientStep

LEMMA FailGood ==
    ASSUME PanesInv, NEW i \in DOMAIN clients, Fail(i)
    PROVE  PanesInv'
  <1>1. asked' = asked /\ selected' = selected
    BY DEF Fail
  <1>2. PICK c : c = FailedClient(clients[i])
    OBVIOUS
  <1>3. c \in Client /\ Keeps(c, i, asked')
    BY <1>1, <1>2, SameAsked, FailedKeeps
  <1>4. c.pc = "ended"
    BY <1>1, <1>2, SameAsked DEF FailedClient, Client
  <1>5. clients' = [clients EXCEPT ![i] = c]
    BY <1>2 DEF Fail, FailedClient
  <1>6. PICK lines : lines = PushText(LinesOf(i), Text("error", i, 0), FALSE)
    OBVIOUS
  <1>7. PICK k \in DOMAIN panes : k = PaneOf(i)
    BY <1>1, SameAsked, FirstPane
  <1>8. Sound(UniquePanes, k, lines)
    <2>1. 0 \in 0..MaxPrompts
      BY DashboardAssumption
    <2>2. QED
      BY <1>6, <1>7, <2>1, TextShown
  <1>9. PaneChange(k, lines, "error")
    <2>1. ShowsState(i, lines, "error")
      BY <1>6 DEF Fail
    <2>2. lines \in Seq(Line)
      BY <1>8, SoundLines
    <2>3. QED
      BY <1>1, <1>7, <2>1, <2>2, SameAsked, PaneStateShown
  <1>10. QED
    BY <1>1, <1>3, <1>4, <1>5, <1>7, <1>8, <1>9, SameAsked, ClientStep

\* Showing leaves the state of a pane alone, and so it still says whether the
\* client has ended.
LEMMA StateShown ==
    ASSUME PanesInv, NEW i \in DOMAIN clients, NEW c,
           c.pc = "ended" <=> clients[i].pc = "ended",
           NEW k \in DOMAIN panes, k = PaneOf(i), NEW state,
           state = panes[k].state
    PROVE  UniquePanes => (state = "error" <=> c.pc = "ended")
  <1>1. panes \in Seq(Pane) /\ i \in DOMAIN panes
    BY DEF PanesInv, Shapes
  <1>2. UniquePanes => k = i
    BY <1>1, FirstPane
  <1>3. QED
    BY <1>1, <1>2 DEF PanesInv, StateInv

LEMMA ReceiveGood ==
    ASSUME PanesInv, NEW i \in DOMAIN clients, Receive(i)
    PROVE  PanesInv'
  <1>1. /\ asked' = asked /\ selected' = selected /\ panes' = panes
        /\ clients[i].pc = "ready" /\ clients[i].queue # <<>>
    BY DEF Receive
  <1>2. PICK c : c = ReceivedClient(clients[i])
    OBVIOUS
  <1>3. c \in Client /\ Keeps(c, i, asked')
    BY <1>1, <1>2, SameAsked, ReceivedKeeps
  <1>4. c.pc = "waiting"
    BY <1>1, <1>2, SameAsked DEF ReceivedClient, Client
  <1>5. clients' = [clients EXCEPT ![i] = c]
    BY <1>2 DEF Receive, ReceivedClient
  <1>6. PICK k \in DOMAIN panes : k = PaneOf(i)
    BY <1>1, SameAsked, FirstPane
  <1>7. PICK lines, state : lines = panes[k].lines /\ state = panes[k].state
    OBVIOUS
  <1>8. Sound(UniquePanes, k, lines)
    BY <1>7 DEF PanesInv, PaneInv
  <1>9. PaneChange(k, lines, state)
    BY <1>1, <1>7, SameAsked DEF PaneChange
  <1>10. UniquePanes => (state = "error" <=> c.pc = "ended")
    BY <1>1, <1>4, <1>6, <1>7, StateShown
  <1>11. QED
    BY <1>1, <1>3, <1>5, <1>6, <1>8, <1>9, <1>10, SameAsked, ClientStep

LEMMA ReplyGood ==
    ASSUME PanesInv, NEW i \in DOMAIN clients, Reply(i)
    PROVE  PanesInv'
  <1>1. PICK open \in BOOLEAN :
          Answered(i, "ready", PushText(ReplyText(i, open), <<>>, FALSE))
    BY DEF Reply
  <1>2. /\ asked' = asked /\ selected' = selected
        /\ clients[i].pc = "waiting"
    BY <1>1 DEF Answered
  <1>3. PICK c : c = AnsweredClient(clients[i])
    OBVIOUS
  <1>4. c \in Client /\ Keeps(c, i, asked')
    BY <1>2, <1>3, SameAsked, AnsweredKeeps
  <1>5. c.pc = "ready"
    BY <1>2, <1>3, SameAsked DEF AnsweredClient, Client
  <1>6. clients' = [clients EXCEPT ![i] = c]
    BY <1>1, <1>3 DEF Answered, AnsweredClient
  <1>7. PICK lines : lines = PushText(ReplyText(i, open), <<>>, FALSE)
    OBVIOUS
  <1>8. PICK k \in DOMAIN panes : k = PaneOf(i)
    BY <1>2, SameAsked, FirstPane
  <1>9. Sound(UniquePanes, k, lines)
    <2>1. clients[i].prompt \in 0..MaxPrompts
      BY <1>2, SameAsked, ClientParts
    <2>2. QED
      BY <1>7, <1>8, <2>1, TextShown DEF ReplyText
  <1>10. PICK state : PaneChange(k, lines, state) /\ state = panes[k].state
    <2>1. Shows(i, lines)
      BY <1>1, <1>7 DEF Answered
    <2>2. lines \in Seq(Line)
      BY <1>9, SoundLines
    <2>3. QED
      BY <1>2, <1>8, <2>1, <2>2, SameAsked, PaneShown
  <1>11. UniquePanes => (state = "error" <=> c.pc = "ended")
    BY <1>2, <1>5, <1>8, <1>10, StateShown
  <1>12. QED
    BY <1>2, <1>4, <1>6, <1>8, <1>9, <1>10, <1>11, SameAsked, ClientStep


LEMMA EnterGood ==
    ASSUME PanesInv, Enter
    PROVE  PanesInv'
  <1>1. PICK i : i = selected
    OBVIOUS
  <1>2. PICK n : n = Len(asked) + 1
    OBVIOUS
  <1>3. PICK lines : lines = PushText(LinesOf(i), Text("echo", i, n), FALSE)
    OBVIOUS
  <1>4. /\ panes # <<>> /\ n <= MaxPrompts
        /\ Shows(i, lines)
        /\ asked' = Append(asked, i) /\ selected' = selected
        /\ clients' = IF clients[i].pc \notin {"starting", "ready", "waiting"}
                      THEN clients
                      ELSE [clients EXCEPT ![i].queue = Append(@, n)]
    BY <1>1, <1>2, <1>3 DEF Enter, Types
  <1>5. /\ panes \in Seq(Pane) /\ clients \in Seq(Client)
        /\ DOMAIN clients = DOMAIN panes
        /\ i \in DOMAIN clients /\ i \in 1..MaxEntries
        /\ asked \in Seq(1..MaxEntries) /\ Len(asked) <= MaxPrompts
    BY <1>1, <1>4, ConfigAssumption DEF PanesInv, Shapes
  <1>6. n \in 0..MaxPrompts
    BY <1>2, <1>4, <1>5, DashboardAssumption
  <1>7. asked' \in Seq(1..MaxEntries) /\ Len(asked') <= MaxPrompts
    <2>1. /\ Append(asked, i) \in Seq(1..MaxEntries)
          /\ DOMAIN Append(asked, i) = 1..(Len(asked) + 1)
          /\ Len(asked) \in Nat
      BY <1>5, AppendFacts
    <2>2. QED
      BY <1>2, <1>4, <2>1
  <1>8. clients[i] \in Client /\ \A j \in DOMAIN clients : Keeps(clients[j], j, asked)
    BY <1>5 DEF PanesInv, PromptInv
  <1>9. PICK c : c = IF clients[i].pc = "ended" THEN clients[i]
                     ELSE TypedClient(clients[i], n)
    OBVIOUS
  <1>10. c \in Client /\ Keeps(c, i, asked')
    <2>1. CASE clients[i].pc = "ended"
      BY <1>4, <1>5, <1>8, <1>9, <2>1, OthersKeep
    <2>2. CASE clients[i].pc # "ended"
      <3>1. /\ TypedClient(clients[i], n) \in Client
            /\ Keeps(TypedClient(clients[i], n), i, Append(asked, i))
        BY <1>2, <1>4, <1>5, <1>8, <2>2, TypedKeeps
      <3>2. QED
        BY <1>4, <1>9, <2>2, <3>1
    <2>3. QED
      BY <2>1, <2>2
  <1>11. clients' = [clients EXCEPT ![i] = c]
    <2>1. clients[i].pc \in {"starting", "ready", "waiting", "ended"}
      BY <1>8 DEF Client
    <2>2. CASE clients[i].pc = "ended"
      BY <1>4, <1>5, <1>9, <2>2
    <2>3. CASE clients[i].pc # "ended"
      BY <1>4, <1>9, <2>1, <2>3 DEF TypedClient
    <2>4. QED
      BY <2>2, <2>3
  <1>12. c.pc = "ended" <=> clients[i].pc = "ended"
    BY <1>8, <1>9 DEF TypedClient, Client
  <1>13. \A j \in DOMAIN clients : j # i => Keeps(clients[j], j, asked')
    BY <1>4, <1>5, <1>8, OthersKeep
  <1>14. PICK k \in DOMAIN panes : k = PaneOf(i)
    BY <1>5, FirstPane
  <1>15. Sound(UniquePanes, k, lines)
    BY <1>3, <1>5, <1>6, <1>14, TextShown
  <1>16. PICK state : PaneChange(k, lines, state) /\ state = panes[k].state
    <2>1. lines \in Seq(Line)
      BY <1>15, SoundLines
    <2>2. QED
      BY <1>4, <1>5, <1>14, <2>1, PaneShown
  <1>17. UniquePanes => (state = "error" <=> c.pc = "ended")
    BY <1>5, <1>12, <1>14, <1>16, StateShown
  <1>18. QED
    BY <1>4, <1>5, <1>7, <1>10, <1>11, <1>13, <1>14, <1>15, <1>16, <1>17,
       ClientStep

LEMMA RemainderIn ==
    ASSUME NEW n \in Nat \ {0}, NEW m \in Nat
    PROVE  (m % n) + 1 \in 1..n
  <1>1. (m % n) \in 0..(n - 1)
    OBVIOUS
  <1>2. QED
    BY <1>1

LEMMA TabGood ==
    ASSUME PanesInv, Tab
    PROVE  PanesInv'
  <1>1. PICK step \in {1, Len(panes) - 1} :
          /\ Len(panes) > 1
          /\ selected' = ((selected - 1 + step) % Len(panes)) + 1
          /\ panes' = panes /\ clients' = clients /\ asked' = asked
    BY DEF Tab
  <1>2. panes \in Seq(Pane) /\ panes # <<>> /\ selected \in 1..Len(panes)
        /\ Len(panes) \in Nat
    BY <1>1 DEF PanesInv, Shapes
  <1>3. PICK n \in Nat \ {0} : n = Len(panes)
    BY <1>1, <1>2
  <1>4. PICK m \in Nat : m = selected - 1 + step
    BY <1>1, <1>2
  <1>5. selected' \in 1..Len(panes')
    BY <1>1, <1>3, <1>4, RemainderIn
  <1>6. Shapes'
    BY <1>1, <1>2, <1>5 DEF PanesInv, Shapes
  <1>7. QED
    BY <1>1, <1>6 DEF PanesInv, PaneInv, StateInv, PromptInv, UniquePanes

LEMMA LaunchGood ==
    ASSUME ConfigInv, PanesInv, Launch
    PROVE  PanesInv'
  <1>1. PICK book \in SavedBook(~ spliced) :
            book = Content(config) /\ book # <<>>
    BY DEF Launch, Readable, Content, ConfigInv
  <1>2. /\ panes = <<>> /\ selected' = selected /\ asked' = asked
        /\ panes' = [i \in DOMAIN book |->
                       [name |-> book[i].name, state |-> "starting",
                        lines |-> <<>>]]
        /\ clients' = [i \in DOMAIN book |->
                         [pc |-> "starting", queue |-> <<>>, prompt |-> 0,
                          done |-> <<>>]]
    BY <1>1 DEF Launch
  <1>3. PICK n \in Nat : n = Len(book) /\ DOMAIN book = 1..n
    BY <1>1 DEF SavedBook, GoodBook, Books
  <1>4. n <= MaxEntries /\ n > 0
    BY <1>1, <1>3 DEF SavedBook, GoodBook, Books
  <1>5. \A i \in 1..n : book[i].name \in AgentName
    <2>1. \A i \in 1..n : book[i] \in AgentEntry
      BY <1>1, <1>3 DEF SavedBook, GoodBook, Books
    <2>2. QED
      BY <2>1 DEF AgentEntry
  <1>6. \A i \in 1..n : [name |-> book[i].name, state |-> "starting",
                         lines |-> <<>>] \in Pane
    BY <1>5 DEF Pane
  <1>7. PICK c : c = [pc |-> "starting", queue |-> <<>>, prompt |-> 0,
                      done |-> <<>>]
    OBVIOUS
  <1>8. /\ c \in Client /\ c.pc = "starting" /\ c.prompt = 0
        /\ c.queue = <<>> /\ c.done = <<>>
    BY <1>7, DashboardAssumption DEF Client
  <1>9. panes' \in Seq(Pane) /\ Len(panes') = n /\ DOMAIN panes' = 1..n
    BY <1>2, <1>3, <1>6
  <1>10. /\ clients' \in Seq(Client) /\ Len(clients') = n
         /\ DOMAIN clients' = 1..n /\ \A i \in 1..n : clients'[i] = c
    BY <1>2, <1>3, <1>7, <1>8
  <1>11. asked' = <<>> /\ selected' = 1
    BY <1>2 DEF PanesInv, Shapes
  <1>12. Shapes'
    BY <1>4, <1>9, <1>10, <1>11, DashboardAssumption DEF Shapes
  <1>13. \A i \in 1..n : panes'[i].lines = <<>> /\ panes'[i].state = "starting"
    BY <1>2, <1>3
  <1>14. \A u, i : Sound(u, i, <<>>)
    BY DashboardAssumption DEF Sound, Closed
  <1>15. PaneInv'
    BY <1>9, <1>13, <1>14 DEF PaneInv
  <1>16. StateInv'
    BY <1>8, <1>9, <1>10, <1>13 DEF StateInv
  <1>17. \A i : Keeps(c, i, <<>>)
    <2>1. TakenOf(c) = <<>>
      BY <1>8 DEF TakenOf
    <2>2. QED
      BY <1>8, <2>1 DEF Keeps, InOrder, Range
  <1>18. PromptInv'
    BY <1>10, <1>11, <1>17 DEF PromptInv
  <1>19. QED
    BY <1>12, <1>15, <1>16, <1>18 DEF PanesInv


DashboardInv == ConfigInv /\ PanesInv

LEMMA DashboardInitGood == DashboardInit => DashboardInv
  <1>1. SUFFICES ASSUME DashboardInit PROVE DashboardInv
    OBVIOUS
  <1>2. ConfigInv
    BY <1>1, ConfigInitGood DEF DashboardInit
  <1>3. panes = <<>> /\ clients = <<>> /\ selected = 1 /\ asked = <<>>
    BY <1>1 DEF DashboardInit
  <1>4. Shapes
    BY <1>3, ConfigAssumption, DashboardAssumption DEF Shapes
  <1>5. PaneInv /\ StateInv /\ PromptInv
    BY <1>3 DEF PaneInv, StateInv, PromptInv
  <1>6. QED
    BY <1>2, <1>4, <1>5 DEF DashboardInv, PanesInv

LEMMA DashboardNextGood ==
    ASSUME DashboardInv, [DashboardNext]_dashboardVars
    PROVE  DashboardInv'
  <1>1. ConfigInv /\ PanesInv
    BY DEF DashboardInv
  <1>2. ConfigInv'
    BY <1>1, ConfigNextGood
  <1>3. CASE UNCHANGED <<panes, clients, selected, asked>>
    BY <1>1, <1>2, <1>3 DEF DashboardInv, PanesInv, Shapes, PaneInv, StateInv,
                            PromptInv, UniquePanes
  <1>4. CASE Launch
    BY <1>1, <1>2, <1>4, LaunchGood DEF DashboardInv
  <1>5. CASE Tab
    BY <1>1, <1>2, <1>5, TabGood DEF DashboardInv
  <1>6. CASE Enter
    BY <1>1, <1>2, <1>6, EnterGood DEF DashboardInv
  <1>7. ASSUME NEW i \in DOMAIN clients, Serve(i) \/ Fail(i)
        PROVE  DashboardInv'
    <2>1. PanesInv'
      BY <1>1, <1>7, ReadyGood, ReceiveGood, ReplyGood, FailGood DEF Serve
    <2>2. QED
      BY <1>2, <2>1 DEF DashboardInv
  <1>8. QED
    BY <1>3, <1>4, <1>5, <1>6, <1>7 DEF DashboardNext, dashboardVars, EditConfig

LEMMA DashboardStaysGood == DashboardSpec => []DashboardInv
  <1>1. DashboardInit => DashboardInv
    BY DashboardInitGood
  <1>2. DashboardInv /\ [DashboardNext]_dashboardVars => DashboardInv'
    BY DashboardNextGood
  <1>3. QED
    BY <1>1, <1>2, PTL DEF DashboardSpec

(* Type correctness; a pane never has more lines than push_text keeps.     *)
THEOREM DashboardTypeCorrect == DashboardSpec => []DashboardTypeOK
  <1>1. DashboardInv => DashboardTypeOK
    <2>1. SUFFICES ASSUME DashboardInv PROVE DashboardTypeOK
      OBVIOUS
    <2>2. ConfigTypeOK
      <3>1. /\ config \subseteq SavedBook(~ spliced)
            /\ editor \in [Editor -> GoodEditor(~ spliced)]
            /\ spliced \in BOOLEAN
        BY <2>1 DEF DashboardInv, ConfigInv
      <3>2. SavedBook(~ spliced) \subseteq Seq(AgentEntry)
        BY SavedFits
      <3>3. GoodEditor(~ spliced) \subseteq EditorState
        BY DEF GoodEditor
      <3>4. editor \in [Editor -> EditorState]
        BY <3>1, <3>3
      <3>5. QED
        BY <3>1, <3>2, <3>4 DEF ConfigTypeOK
    <2>3. \A i \in DOMAIN panes : Len(panes[i].lines) <= MaxLines
      BY <2>1 DEF DashboardInv, PanesInv, PaneInv, Sound
    <2>4. QED
      BY <2>1, <2>2, <2>3 DEF DashboardInv, PanesInv, Shapes, DashboardTypeOK
  <1>2. QED
    BY <1>1, DashboardStaysGood, PTL

(* However the clients' texts are interleaved with what is typed, no two   *)
(* run together in a line, also in a pane that several clients write to    *)
(* (push_text, on_text).                                                   *)
THEOREM LinesStayWhole == DashboardSpec => []LinesWhole
  <1>1. DashboardInv => LinesWhole
    <2>1. SUFFICES ASSUME DashboardInv, NEW i \in DOMAIN panes,
                          NEW k \in DOMAIN panes[i].lines
                   PROVE  /\ Len(panes[i].lines[k].text) <= 1
                          /\ ~panes[i].lines[k].open
      BY DEF LinesWhole
    <2>2. PICK u : u = UniquePanes
      OBVIOUS
    <2>3. Sound(u, i, panes[i].lines)
      BY <2>1, <2>2 DEF DashboardInv, PanesInv, PaneInv
    <2>4. panes[i].lines[k] \in GoodLine(u, i)
      BY <2>1, <2>3 DEF Sound
    <2>5. QED
      BY <2>1, <2>3, <2>4 DEF Sound, Closed, GoodLine
  <1>2. QED
    BY <1>1, DashboardStaysGood, PTL

(* With names that differ, a pane shows its own agent only, and says that  *)
(* it failed exactly when it did (set_state, push_text).                   *)
THEOREM PanesStayOwn == DashboardSpec => []OwnPane
  <1>1. DashboardInv => OwnPane
    <2>1. SUFFICES ASSUME DashboardInv, UniquePanes, NEW i \in DOMAIN panes
                   PROVE
                     /\ \A k \in DOMAIN panes[i].lines :
                          \A x \in DOMAIN panes[i].lines[k].text :
                            panes[i].lines[k].text[x].client = i
                     /\ panes[i].state = "error" <=> clients[i].pc = "ended"
      BY DEF OwnPane, UniquePanes
    <2>2. Sound(TRUE, i, panes[i].lines)
      <3>1. UniquePanes = TRUE
        BY <2>1 DEF UniquePanes
      <3>2. Sound(UniquePanes, i, panes[i].lines)
        BY <2>1 DEF DashboardInv, PanesInv, PaneInv
      <3>3. QED
        BY <3>1, <3>2
    <2>3. \A k \in DOMAIN panes[i].lines : panes[i].lines[k] \in GoodLine(TRUE, i)
      <3>1. PICK G, s : G = GoodLine(TRUE, i) /\ s = panes[i].lines
        OBVIOUS
      <3>2. s \in Seq(G)
        BY <2>2, <3>1 DEF Sound
      <3>3. \A k \in DOMAIN s : s[k] \in G
        BY <3>2
      <3>4. QED
        BY <3>1, <3>3
    <2>4. panes[i].state = "error" <=> clients[i].pc = "ended"
      BY <2>1 DEF DashboardInv, PanesInv, StateInv
    <2>5. QED
      BY <2>3, <2>4 DEF GoodLine
  <1>2. QED
    BY <1>1, DashboardStaysGood, PTL

(* No prompt is lost, repeated or overtaken on its way through the queue   *)
(* of a client that has not failed, however long the session takes to open *)
(* and however many are typed while an answer is awaited (run_client).     *)
THEOREM PromptsStayKept == DashboardSpec => []PromptsKept
  <1>1. DashboardInv => PromptsKept
    <2>1. SUFFICES ASSUME DashboardInv, NEW i \in DOMAIN clients,
                          clients[i].pc # "ended"
                   PROVE  /\ Range(Taken(i))
                               = {n \in DOMAIN asked : asked[n] = i}
                          /\ \A j, k \in DOMAIN Taken(i) :
                               j < k => Taken(i)[j] < Taken(i)[k]
      BY DEF PromptsKept
    <2>2. Keeps(clients[i], i, asked)
      BY <2>1 DEF DashboardInv, PanesInv, PromptInv
    <2>3. Taken(i) = TakenOf(clients[i])
      BY DEF Taken, TakenOf
    <2>4. QED
      BY <2>1, <2>2, <2>3 DEF Keeps, InOrder
  <1>2. QED
    BY <1>1, DashboardStaysGood, PTL
=============================================================================
