------------------------------ MODULE Sharing -------------------------------
(***************************************************************************)
(* Stores of shared worlds and policy programs, src/open_dream_rsi/share.py: *)
(* an instance exports what it has recorded into a directory of files and a *)
(* manifest of their checksums, and another one imports what verifies.      *)
(*                                                                          *)
(* A content is the item it belongs to and a version of it; a checksum is   *)
(* the content itself.  Items are numbered in the order their identifiers   *)
(* sort.                                                                    *)
(***************************************************************************)
EXTENDS Integers, FiniteSets

LOCAL INSTANCE FiniteSetsExt

CONSTANTS
  Worlds,        \* task ids of recorded trees
  Programs,      \* categories of policy programs
  Slug,          \* the slug of each item: several may have the same
  MaxLearned,    \* bound on the versions recorded after the first ones
  MaxCalls,      \* bound on the exports and imports begun
  MaxFaults,     \* bound on kills and on files changed by others
  Idle, None, Foreign

Items == Worlds \cup Programs

ASSUME ConstantsAssumption ==
  /\ Worlds \subseteq Nat \ {0} /\ Programs \subseteq Nat \ {0}
  /\ Worlds \cap Programs = {} /\ IsFiniteSet(Items) /\ None \notin Items
  /\ DOMAIN Slug = Items
  /\ MaxLearned \in Nat /\ MaxCalls \in Nat /\ MaxFaults \in Nat

VARIABLES
  local,       \* item -> version the exporting instance has recorded
  files,       \* file name -> content, None when missing
  manifest,    \* item -> [file, sha256] or None; None when there is no manifest
  exp,         \* the running export
  imp,         \* the running import
  imported,    \* slug -> the tree under trees/imported, or None
  registered,  \* program -> the contents registered as CANDIDATE or more
  validated,   \* program -> those that are VALIDATED
  calls, faults,
  torn,        \* history: files written by an export that did not end
  changed,     \* history: files changed by others since their checksum was taken
  adopted,     \* history: items exported with the checksum of a foreign content
  displaced,   \* history: items whose file was overwritten for another item
  swapped      \* history: a file was replaced between its check and its load

vars == <<local, files, manifest, exp, imp, imported, registered, validated, calls,
          faults, torn, changed, adopted, displaced, swapped>>
history == <<torn, changed, adopted, displaced, swapped>>

Slugs == {Slug[i] : i \in Items}
Dir(i) == IF i \in Worlds THEN "trees" ELSE "policies"

\* A file is named by its slug, or by its slug and a hash of the item.
Names == {<<Dir(i), Slug[i], t>> : i \in Items, t \in {0} \cup Worlds}

Content == [item : Items, version : Nat]
Listing == [Items -> [file : Names, sha256 : Content \cup {Foreign}] \cup {None}]
Written == [item : Items, file : Names]
Export == [left : SUBSET Items, taken : SUBSET Items, wrote : SUBSET Names,
           at : Written \cup {None}, mine : Listing]

ASSUME TokensAssumption ==
  Idle \notin Export /\ Foreign \notin Content /\ None \notin Written

Init ==
  /\ local = [i \in Items |-> 1]
  /\ files = [f \in Names |-> None]
  /\ manifest = None
  /\ exp = Idle /\ imp = Idle
  /\ imported = [s \in Slugs |-> None]
  /\ registered = [p \in Programs |-> {}]
  /\ validated = [p \in Programs |-> {}]
  /\ calls = 0 /\ faults = 0
  /\ torn = {} /\ changed = {} /\ adopted = {} /\ displaced = {} /\ swapped = FALSE

\* The instance records a tree, or promotes a program.
Learn(i) ==
  /\ FoldSet(LAMBDA j, n : local[j] + n, 0, Items) < Cardinality(Items) + MaxLearned
  /\ local' = [local EXCEPT ![i] = @ + 1]
  /\ UNCHANGED <<files, manifest, exp, imp, imported, registered, validated, calls, faults, history>>

-----------------------------------------------------------------------------
(* Export: files one after the other, the manifest last.                    *)

NameAlways(i, taken) ==     \* Mutant of Name: no disambiguation.
  <<Dir(i), Slug[i], 0>>

\* Two worlds of one export with one slug get two files; programs do not.
Name(i, taken) ==
  <<Dir(i), Slug[i],
    IF i \in Worlds /\ \E j \in taken : Slug[j] = Slug[i] /\ j # i THEN i ELSE 0>>

\* export_worlds or export_policies, of everything or of the items named.
ExportBegin(wanted) ==
  /\ exp = Idle /\ calls < MaxCalls
  /\ calls' = calls + 1
  /\ exp' = [left |-> wanted, taken |-> {}, wrote |-> {}, at |-> None,
             mine |-> IF manifest = None THEN [i \in Items |-> None] ELSE manifest]
  /\ UNCHANGED <<local, files, manifest, imp, imported, registered, validated, faults, history>>

First(i, left) == i \in left /\ \A j \in left : i <= j

\* The file is replaced.
ExportFile ==
  /\ exp # Idle /\ exp.at = None
  /\ \E i \in Items :
       LET f == Name(i, exp.taken)
       IN /\ First(i, exp.left)
          /\ files' = [files EXCEPT ![f] = [item |-> i, version |-> local[i]]]
          /\ exp' = [exp EXCEPT !.left = @ \ {i}, !.taken = @ \cup {i}, !.wrote = @ \cup {f},
                                !.at = [item |-> i, file |-> f]]
          /\ displaced' = (displaced \ {i}) \cup
               {j \in Items \ {i} : /\ exp.mine[j] # None /\ exp.mine[j].file = f
                                    /\ \/ j \in Programs
                                       \/ j \notin exp.taken \cup exp.left}
  /\ UNCHANGED <<local, manifest, imp, imported, registered, validated, calls, faults, torn, changed,
                 adopted, swapped>>

\* The file is read again, for the checksum that goes into the manifest in memory.
ExportChecksum ==
  /\ exp # Idle /\ exp.at # None
  /\ LET f == exp.at.file
     IN /\ exp' = [exp EXCEPT !.at = None,
                              !.mine[exp.at.item] = [file |-> f, sha256 |-> files[f]]]
        /\ changed' = changed \ {f}
        /\ adopted' = IF files[f] = Foreign THEN adopted \cup {exp.at.item} ELSE adopted
  /\ UNCHANGED <<local, files, manifest, imp, imported, registered, validated, calls, faults, torn,
                 displaced, swapped>>

ExportEnd ==
  /\ exp # Idle /\ exp.left = {} /\ exp.at = None
  /\ manifest' = exp.mine
  /\ torn' = torn \ exp.wrote
  /\ exp' = Idle
  /\ UNCHANGED <<local, files, imp, imported, registered, validated, calls, faults, changed, adopted,
                 displaced, swapped>>

\* The process is killed, or git fails it, before the manifest is written.
ExportDies ==
  /\ exp # Idle /\ faults < MaxFaults
  /\ faults' = faults + 1
  /\ torn' = torn \cup exp.wrote
  /\ exp' = Idle
  /\ UNCHANGED <<local, files, manifest, imp, imported, registered, validated, calls, changed,
                 adopted, displaced, swapped>>

\* Anything else changes a file of the store.
Change(f) ==
  /\ faults < MaxFaults /\ files[f] # None
  /\ faults' = faults + 1
  /\ files' = [files EXCEPT ![f] = Foreign]
  /\ changed' = changed \cup {f}
  /\ UNCHANGED <<local, manifest, exp, imp, imported, registered, validated, calls, torn,
                 adopted, displaced, swapped>>

-----------------------------------------------------------------------------
(* Import.                                                                  *)

ImportBegin(wanted) ==
  /\ imp = Idle /\ manifest # None /\ calls < MaxCalls
  /\ calls' = calls + 1
  /\ imp' = [left |-> {i \in wanted : manifest[i] # None},
             mine |-> manifest, at |-> None, seen |-> None]
  /\ UNCHANGED <<local, files, manifest, exp, imported, registered, validated, faults, history>>

VerifiesAnyway(i) ==        \* Mutant of Verifies: the checksum is not compared.
  TRUE

Verifies(i) == files[imp.mine[i].file] = imp.mine[i].sha256

\* A missing file is skipped, a checksum that does not match ends the import
\* and leaves what it has imported.
ImportCheck ==
  /\ imp # Idle /\ imp.at = None
  /\ \E i \in Items :
       LET f == imp.mine[i].file IN
       /\ First(i, imp.left)
       /\ imp' = IF files[f] = None THEN [imp EXCEPT !.left = @ \ {i}]
                 ELSE IF ~Verifies(i) THEN Idle
                 ELSE [imp EXCEPT !.at = i, !.seen = files[f]]
  /\ UNCHANGED <<local, files, manifest, exp, imported, registered, validated, calls, faults, history>>

\* The file is read a second time, for its content.
ImportWorld ==
  /\ imp # Idle /\ imp.at \in Worlds
  /\ LET content == files[imp.mine[imp.at].file]
     IN /\ imported' = [imported EXCEPT ![Slug[imp.at]] = content]
        /\ swapped' = (swapped \/ content # imp.seen)
  /\ imp' = [imp EXCEPT !.left = @ \ {imp.at}, !.at = None, !.seen = None]
  /\ UNCHANGED <<local, files, manifest, exp, registered, validated, calls, faults, torn, changed,
                 adopted, displaced>>

\* The same program is registered once, whatever has become of it.
ImportProgram ==
  /\ imp # Idle /\ imp.at \in Programs /\ imp.seen # None
  /\ LET content == files[imp.mine[imp.at].file]
     IN /\ registered' = [registered EXCEPT ![imp.at] = @ \cup {content}]
        /\ swapped' = (swapped \/ content # imp.seen)
        /\ imp' = IF content \in registered[imp.at]
                  THEN [imp EXCEPT !.left = @ \ {imp.at}, !.at = None, !.seen = None]
                  ELSE [imp EXCEPT !.seen = None]
  /\ UNCHANGED <<local, files, manifest, exp, imported, validated, calls, faults, torn, changed,
                 adopted, displaced>>

ValidateProgram ==
  /\ imp # Idle /\ imp.at \in Programs /\ imp.seen = None
  /\ validated' = [validated EXCEPT ![imp.at] = registered[imp.at]]
  /\ imp' = [imp EXCEPT !.left = @ \ {imp.at}, !.at = None]
  /\ UNCHANGED <<local, files, manifest, exp, imported, registered, calls, faults, history>>

ImportEnd ==
  /\ imp # Idle /\ imp.at = None /\ imp.left = {}
  /\ imp' = Idle
  /\ UNCHANGED <<local, files, manifest, exp, imported, registered, validated, calls, faults, history>>

ImportDies ==
  /\ imp # Idle /\ faults < MaxFaults
  /\ faults' = faults + 1
  /\ imp' = Idle
  /\ UNCHANGED <<local, files, manifest, exp, imported, registered, validated, calls, history>>

Next ==
  \/ \E i \in Items : Learn(i)
  \/ \E wanted \in ((SUBSET Worlds) \cup (SUBSET Programs)) \ {{}} :
       ExportBegin(wanted) \/ ImportBegin(wanted)
  \/ ExportFile \/ ExportChecksum \/ ExportEnd \/ ExportDies
  \/ \E f \in Names : Change(f)
  \/ ImportCheck \/ ImportWorld \/ ImportProgram \/ ValidateProgram \/ ImportEnd
  \/ ImportDies

Spec == Init /\ [][Next]_vars

-----------------------------------------------------------------------------
(* Properties                                                               *)

Contents == [item : Items, version : 1..MaxLearned + 1]

TypeOK ==
  /\ local \in [Items -> 1..MaxLearned + 1]
  /\ files \in [Names -> Contents \cup {None, Foreign}]
  /\ manifest \in [Items -> [file : Names, sha256 : Contents \cup {Foreign}] \cup {None}] \cup {None}
  /\ imported \in [Slugs -> Contents \cup {None, Foreign}]
  /\ registered \in [Programs -> SUBSET (Contents \cup {Foreign})]
  /\ \A p \in Programs : validated[p] \subseteq registered[p]
  /\ torn \subseteq Names /\ changed \subseteq Names
  /\ adopted \subseteq Items /\ displaced \subseteq Items
  /\ calls \in 0..MaxCalls /\ faults \in 0..MaxFaults /\ swapped \in BOOLEAN

\* While no export runs, every file the manifest names verifies, except those
\* that an interrupted export rewrote, that something else changed, or that the
\* manifest names for two items of one slug: an export that ends repairs what an
\* earlier one left (share.py:267-288, 371-396).
StoreVerifies ==
  exp = Idle /\ manifest # None =>
    \A i \in Items \ displaced :
      manifest[i] # None /\ manifest[i].file \notin torn \cup changed =>
        files[manifest[i].file] = manifest[i].sha256

\* What an import has left behind, ended, aborted or killed, is what an export
\* wrote for an item of that name: a store that was changed is detected
\* (share.py:13-14), with two exceptions, one at each end.  The import reads a file
\* twice, for the checksum and for the content; and the export reads back what it
\* has written to take the checksum (share.py:282-285, 391-394), so that it vouches
\* for a content somebody else put there in between.
ImportedAsRecorded ==
  ~swapped =>
    /\ \A s \in Slugs : imported[s] # None =>
         IF imported[s] = Foreign THEN \E i \in adopted : Slug[i] = s
         ELSE Slug[imported[s].item] = s
    /\ \A p \in Programs : \A c \in registered[p] :
         IF c = Foreign THEN p \in adopted ELSE c.item = p
=============================================================================
