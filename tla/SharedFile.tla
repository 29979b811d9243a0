----------------------------- MODULE SharedFile -----------------------------
(***************************************************************************)
(* A file that several processes replace with std::fs::write and nobody    *)
(* locks: the set of the documents whose bytes it holds.  The call is two  *)
(* steps of the file system, an open that truncates and a write at offset  *)
(* 0.  A writer that finds the data of another one, which was written      *)
(* after both had truncated the file, overwrites its beginning: a longer   *)
(* document keeps its tail.  The mixture is no JSON document, which ends   *)
(* where its first brace is closed.  It may be a TOML document: one with   *)
(* the entries that were written, and those of the older document that     *)
(* begin after the place where the newer one ends.                         *)
(***************************************************************************)
EXTENDS Naturals, Sequences

AfterOpen              == {}
Holds(file, data)      == file = {data}
Readable(file)         == \E data \in file : Holds(file, data)
Content(file)          == CHOOSE data \in file : Holds(file, data)

\* The mixture, if any, is no document.
AfterWrite(file, data) == {{data}, file \cup {data}}

\* The documents are sequences of entries, and the mixture may be one.  The
\* empty document is not a beginning of any other (`agent = []`).
Tails(old)             == {SubSeq(old, k + 1, Len(old)) : k \in 1..Len(old)}
AfterSplice(file, data) ==
    AfterWrite(file, data)
    \cup (IF data = <<>> THEN {}
          ELSE {{data \o tail} : tail \in UNION {Tails(old) : old \in file}})
=============================================================================
