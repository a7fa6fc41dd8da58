----------------------------- MODULE SharedFile -----------------------------
(***************************************************************************)
(* A JSON file that processes rewrite without a lock, through one temporary *)
(* name: the task queue (append_task, src/open_dream_rsi/loop.py, and the    *)
(* creation of the queue in src/open_dream_rsi/mcp.py) and the reservations  *)
(* (HoldoutRegistry, src/open_dream_rsi/holdout.py).  An entry is a task id  *)
(* and what it is queued or reserved for.                                   *)
(***************************************************************************)
EXTENDS Naturals, FiniteSets

CONSTANTS
  Processes,
  Entries,        \* records of an id and what it is for
  Forgiving,      \* an unreadable file counts as an empty one (the registry)
  Torn,           \* the content of a file that is cut or mixed
  Nothing

VARIABLES
  names,      \* the inode that each of "file" and "tmp" names, or Nothing
  content,    \* inode -> its entries, or Torn
  step,       \* process -> idle, read, open, write, rename, create
  copy,       \* process -> the entries it read, with its change
  opened,     \* process -> the inode it has open
  change,     \* process -> the entry it adds or removes: [kind, entry]
  told,       \* history: the entries acknowledged and not released
  clean       \* history: no two writers have overlapped, no creation was cut short, and
              \* the registry was never taken for empty

vars == <<names, content, step, copy, opened, change, told, clean>>

Inodes == 0..Cardinality(Processes) + 1
NoChange == [kind |-> "none"]
Changes == {NoChange} \cup [kind : {"add", "release"}, entry : Entries]

Init ==
  /\ names = [n \in {"file", "tmp"} |-> Nothing]
  /\ content = [i \in Inodes |-> {}]
  /\ step = [p \in Processes |-> "idle"]
  /\ copy = [p \in Processes |-> {}]
  /\ opened = [p \in Processes |-> Nothing]
  /\ change = [p \in Processes |-> NoChange]
  /\ told = {} /\ clean = TRUE

Exists == names.file # Nothing
File == IF Exists THEN content[names.file] ELSE {}
Resting(p) == step[p] = "idle"
Busy == {p \in Processes : ~Resting(p)}
Free == CHOOSE i \in Inodes : i \notin {names.file, names.tmp} \cup {opened[q] : q \in Processes}

Return(p) ==
  /\ step' = [step EXCEPT ![p] = "idle"]
  /\ copy' = [copy EXCEPT ![p] = {}]
  /\ opened' = [opened EXCEPT ![p] = Nothing]
  /\ change' = [change EXCEPT ![p] = NoChange]

Call(p, kind, e) ==
  /\ Resting(p)
  /\ kind = "release" => Forgiving
  /\ step' = [step EXCEPT ![p] = "read"]
  /\ change' = [change EXCEPT ![p] = [kind |-> kind, entry |-> e]]
  /\ clean' = (clean /\ Busy = {})
  /\ UNCHANGED <<names, content, copy, opened, told>>

-----------------------------------------------------------------------------
(* Reading the file and deciding on the copy.                               *)

SameId(S, e) == {x \in S : x.id = e.id}

\* Where the entry is there already nothing is written: the queue refuses it, the
\* registry grants it again for the same use and refuses it for another.
Decide(p, S) ==
  LET e == change[p].entry
      next == IF change[p].kind = "add" THEN S \cup {e} ELSE S \ SameId(S, e)
  IN IF (change[p].kind = "add") = (SameId(S, e) = {})
     THEN /\ copy' = [copy EXCEPT ![p] = next]
          /\ step' = [step EXCEPT ![p] = "open"]
          /\ UNCHANGED <<opened, change, told>>
     ELSE /\ Return(p)
          /\ told' = IF Forgiving /\ e \in S THEN told \cup {e} ELSE told

Read(p) ==
  /\ step[p] = "read"
  /\ CASE File # Torn -> Decide(p, File)
       [] File = Torn /\ Forgiving -> Decide(p, {})
       [] OTHER -> Return(p) /\ UNCHANGED told
  /\ UNCHANGED <<names, content, clean>>

\* A file that is there cannot be read.  append_task raises; the registry takes it
\* for empty, and would write its copy over it.
ReadFails(p) ==
  /\ step[p] = "read" /\ Exists
  /\ \/ Forgiving /\ Decide(p, {}) /\ clean' = FALSE
     \/ ~Forgiving /\ Return(p) /\ UNCHANGED <<told, clean>>
  /\ UNCHANGED <<names, content>>

-----------------------------------------------------------------------------
(* Writing the copy: open truncates what the name points at, the data go to  *)
(* the inode that is open, and the rename takes what the name points at then. *)

OpenAs(p, name) ==
  LET i == IF names[name] = Nothing THEN Free ELSE names[name]
  IN /\ names' = [names EXCEPT ![name] = i]
     /\ content' = [content EXCEPT ![i] = Torn]
     /\ opened' = [opened EXCEPT ![p] = i]

OpenInPlace(p) ==     \* Mutant of Open: the file itself is rewritten.
  /\ step[p] = "open"
  /\ OpenAs(p, "file")
  /\ step' = [step EXCEPT ![p] = "write"]
  /\ UNCHANGED <<copy, change, told, clean>>

Open(p) ==
  /\ step[p] = "open"
  /\ OpenAs(p, "tmp")
  /\ step' = [step EXCEPT ![p] = "write"]
  /\ UNCHANGED <<copy, change, told, clean>>

\* Two that have one inode open leave what both wrote, one over the other.
Write(p) ==
  /\ step[p] = "write"
  /\ \/ content' = [content EXCEPT ![opened[p]] = copy[p]]
     \/ /\ \E q \in Processes \ {p} : opened[q] = opened[p]
        /\ content' = [content EXCEPT ![opened[p]] = Torn]
  /\ step' = [step EXCEPT ![p] = "rename"]
  /\ UNCHANGED <<names, copy, opened, change, told, clean>>

\* The rename fails when another process has renamed the temporary file.  The
\* inode the file had has no name left, and what is in it no reader.
Rename(p) ==
  /\ step[p] = "rename"
  /\ IF names.tmp # Nothing
     THEN /\ names' = [file |-> names.tmp, tmp |-> Nothing]
          /\ content' = [i \in Inodes |-> IF i = names.file THEN {} ELSE content[i]]
          /\ told' = IF change[p].kind = "add" THEN told \cup {change[p].entry}
                     ELSE told \ SameId(told, change[p].entry)
     ELSE UNCHANGED <<names, content, told>>
  /\ Return(p)
  /\ UNCHANGED clean

\* odr_run_once creates a missing queue, in place.
Create(p) ==
  /\ Resting(p) /\ ~Exists /\ ~Forgiving
  /\ OpenAs(p, "file")
  /\ step' = [step EXCEPT ![p] = "create"]
  /\ clean' = (clean /\ Busy = {})
  /\ UNCHANGED <<copy, change, told>>

Created(p) ==
  /\ step[p] = "create"
  /\ content' = [content EXCEPT ![opened[p]] = {}]
  /\ Return(p)
  /\ UNCHANGED <<names, told, clean>>

\* The process is killed, or its write raises: the call is not answered, and the file
\* it was writing stays.
Die(p) ==
  /\ ~Resting(p)
  /\ Return(p)
  /\ clean' = (clean /\ step[p] # "create")
  /\ UNCHANGED <<names, content, told>>

Next ==
  \E p \in Processes :
    \/ \E kind \in {"add", "release"}, e \in Entries : Call(p, kind, e)
    \/ Read(p) \/ ReadFails(p) \/ Open(p) \/ Write(p) \/ Rename(p)
    \/ Create(p) \/ Created(p) \/ Die(p)

Spec == Init /\ [][Next]_vars

-----------------------------------------------------------------------------
TypeOK ==
  /\ names \in [{"file", "tmp"} -> Inodes \cup {Nothing}]
  /\ \A i \in Inodes : content[i] = Torn \/ content[i] \subseteq Entries
  /\ step \in [Processes -> {"idle", "read", "open", "write", "rename", "create"}]
  /\ copy \in [Processes -> SUBSET Entries]
  /\ opened \in [Processes -> Inodes \cup {Nothing}]
  /\ change \in [Processes -> Changes]
  /\ told \subseteq Entries /\ clean \in BOOLEAN

\* Whatever is killed and wherever, the file is whole, holds every entry that was
\* acknowledged, and no id was granted for two uses, as long as the processes that
\* rewrite it did not overlap (loop.py:107-142, holdout.py:44-93: nothing keeps
\* them from it) and the registry was not taken for empty (holdout.py:47).
NothingLost ==
  clean => /\ names.file # Nothing /\ (\A p \in Processes : step[p] # "create") => File # Torn
           /\ File # Torn => told \subseteq File
           /\ \A d, e \in told : d.id = e.id => d = e
=============================================================================
