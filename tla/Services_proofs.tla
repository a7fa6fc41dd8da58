---------------------------- MODULE Services_proofs ---------------------------
(***************************************************************************)
(* Proofs about the components of MC_Services: Sharing, for any worlds,     *)
(* programs and slugs, and for any number of versions, kills and changed     *)
(* files; LLMClient, for any models and number of retries; GateReplay, for   *)
(* any tasks and rows; SharedFile, for any processes and entries;           *)
(* SandboxCache, for any programs, size and time to live; EvolutionStopper, *)
(* with the numbers of the loop, for any categories and number of rounds.   *)
(***************************************************************************)
EXTENDS MC_Services, FiniteFacts, SequenceTheorems

Entry == [file : Names, sha256 : Content \cup {Foreign}]
Import == [left : SUBSET Items, mine : Listing,
           at : Items \cup {None}, seen : Content \cup {None, Foreign}]

Typed ==
  /\ local \in [Items -> Nat]
  /\ files \in [Names -> Content \cup {None, Foreign}]
  /\ manifest = None \/ manifest \in Listing
  /\ exp = Idle \/ exp \in Export
  /\ imp = Idle \/ imp \in Import
  /\ imported \in [Slugs -> Content \cup {None, Foreign}]
  /\ registered \in [Programs -> SUBSET (Content \cup {None, Foreign})]
  /\ adopted \subseteq Items

LEMMA NameIsName ==
  ASSUME NEW i \in Items, NEW taken \in SUBSET Items
  PROVE  Name(i, taken) \in Names
<1>. DEFINE t == IF i \in Worlds /\ \E j \in taken : Slug[j] = Slug[i] /\ j # i THEN i ELSE 0
<1>1. t \in {0} \cup Worlds
  OBVIOUS
<1>2. Name(i, taken) = <<Dir(i), Slug[i], t>>
  BY DEF Name
<1>. HIDE DEF t
<1>. QED
  BY <1>1, <1>2 DEF Names

Wanted == ((SUBSET Worlds) \cup (SUBSET Programs)) \ {{}}

LEMMA WantedItems ==
  ASSUME NEW wanted \in Wanted
  PROVE  wanted \in SUBSET Items /\ (wanted \subseteq Worlds \/ wanted \subseteq Programs)
BY DEF Wanted, Items

LEMMA Steps ==
  ASSUME [Next]_vars
  PROVE  \/ \E i \in Items : Learn(i)
         \/ \E wanted \in Wanted : ExportBegin(wanted)
         \/ \E wanted \in Wanted : ImportBegin(wanted)
         \/ ExportFile \/ ExportChecksum \/ ExportEnd \/ ExportDies
         \/ \E f \in Names : Change(f)
         \/ ImportCheck \/ ImportWorld \/ ImportProgram \/ ValidateProgram
         \/ ImportEnd \/ ImportDies
         \/ UNCHANGED vars
<1>1. CASE \E wanted \in Wanted : ExportBegin(wanted) \/ ImportBegin(wanted)
  BY <1>1
<1>2. CASE \/ \E i \in Items : Learn(i)
           \/ ExportFile \/ ExportChecksum \/ ExportEnd \/ ExportDies
           \/ \E f \in Names : Change(f)
  BY <1>2
<1>3. CASE \/ ImportCheck \/ ImportWorld \/ ImportProgram \/ ValidateProgram
           \/ ImportEnd \/ ImportDies
           \/ UNCHANGED vars
  BY <1>3
<1>. QED
  BY <1>1, <1>2, <1>3 DEF Next, Wanted

(* What an import reads is a body, or nothing, or something else.        *)
LEMMA Reads ==
  ASSUME Typed, imp # Idle, imp.at \in Items, imp.mine[imp.at] # None
  PROVE  files[imp.mine[imp.at].file] \in Content \cup {None, Foreign}
BY DEF Typed, Import, Listing, Entry

-----------------------------------------------------------------------------
(* What is imported.  The item at hand is one the manifest lists, and what   *)
(* has been seen of it is what the manifest recorded for it.  A file that    *)
(* was written holds the item, or what somebody else has put there.          *)

Known(who, i, c) == (c \in Content /\ c.item = i) \/ (c = Foreign /\ i \in who)
Recorded(who, L) == \A i \in Items : L[i] # None => Known(who, i, L[i].sha256)

AtHand ==
  exp # Idle /\ exp.at # None =>
    \/ files[exp.at.file] = Foreign
    \/ files[exp.at.file] \in Content /\ files[exp.at.file].item = exp.at.item

ImportInv ==
  /\ Typed
  /\ manifest # None => Recorded(adopted, manifest)
  /\ exp # Idle => Recorded(adopted, exp.mine)
  /\ AtHand
  /\ imp # Idle =>
       /\ Recorded(adopted, imp.mine)
       /\ \A i \in imp.left : imp.mine[i] # None
       /\ imp.at # None =>
            /\ imp.mine[imp.at] # None
            /\ imp.seen # None => imp.seen = imp.mine[imp.at].sha256
  /\ ImportedAsRecorded

LEMMA ImportInit == Init => ImportInv
<1> SUFFICES ASSUME Init PROVE ImportInv
  OBVIOUS
<1>1. /\ local \in [Items -> Nat] /\ files \in [Names -> Content \cup {None, Foreign}]
      /\ manifest = None /\ exp = Idle /\ imp = Idle
      /\ imported \in [Slugs -> Content \cup {None, Foreign}]
      /\ registered \in [Programs -> SUBSET (Content \cup {None, Foreign})]
      /\ adopted \subseteq Items
  BY DEF Init
<1>2. ImportedAsRecorded
  BY DEF Init, ImportedAsRecorded
<1>. QED
  BY <1>1, <1>2 DEF ImportInv, Typed, AtHand

(* What the export does, whatever is imported meanwhile.                    *)
ImportVars == <<imp, imported, registered, swapped>>

LEMMA ExportFields ==
  ASSUME exp \in Export
  PROVE  /\ exp.left \in SUBSET Items /\ exp.taken \in SUBSET Items
         /\ exp.wrote \in SUBSET Names /\ exp.mine \in Listing
         /\ exp.at \in Written \cup {None}
         /\ exp.at # None => exp.at.item \in Items /\ exp.at.file \in Names
BY DEF Export, Written

LEMMA ExportFileTyped ==
  ASSUME Typed, NEW i \in Items, exp \in Export,
         NEW f \in Names, NEW body \in Content,
         exp' = [exp EXCEPT !.left = @ \ {i}, !.taken = @ \cup {i}, !.wrote = @ \cup {f},
                            !.at = [item |-> i, file |-> f]],
         files' = [files EXCEPT ![f] = body]
  PROVE  /\ exp' \in Export /\ files' \in [Names -> Content \cup {None, Foreign}]
         /\ exp'.left = exp.left \ {i} /\ exp'.taken = exp.taken \cup {i}
         /\ exp'.wrote = exp.wrote \cup {f} /\ exp'.mine = exp.mine
         /\ exp'.at = [item |-> i, file |-> f] /\ exp'.at # None
<1>1. [item |-> i, file |-> f] \in Written
  BY DEF Written
<1>2. /\ exp.mine \in Listing /\ exp.left \in SUBSET Items
      /\ exp.taken \in SUBSET Items /\ exp.wrote \in SUBSET Names
  BY ExportFields
<1>. DEFINE at == [item |-> i, file |-> f]
<1>. HIDE DEF at
<1>3. /\ exp' = [left |-> exp.left \ {i}, taken |-> exp.taken \cup {i},
                 wrote |-> exp.wrote \cup {f}, at |-> at, mine |-> exp.mine]
  BY DEF Export, at
<1>4. at \in Written \cup {None} /\ at # None
  BY <1>1, TokensAssumption DEF at, TokensAssumption
<1>5. files' \in [Names -> Content \cup {None, Foreign}]
  BY DEF Typed
<1>. QED
  BY <1>2, <1>3, <1>4, <1>5 DEF Export, at

LEMMA ExportChecksumTyped ==
  ASSUME Typed, exp \in Export, exp.at # None, NEW sum \in Content \cup {Foreign},
         exp' = [exp EXCEPT !.at = None,
                            !.mine[exp.at.item] = [file |-> exp.at.file, sha256 |-> sum]]
  PROVE  /\ exp' \in Export
         /\ exp'.left = exp.left /\ exp'.taken = exp.taken /\ exp'.wrote = exp.wrote
         /\ exp'.at = None
         /\ exp'.mine \in Listing
         /\ exp'.mine[exp.at.item] = [file |-> exp.at.file, sha256 |-> sum]
         /\ \A k \in Items : k # exp.at.item => exp'.mine[k] = exp.mine[k]
<1>1. /\ exp.mine \in Listing /\ exp.left \in SUBSET Items
      /\ exp.taken \in SUBSET Items /\ exp.wrote \in SUBSET Names
      /\ exp.at.item \in Items /\ exp.at.file \in Names
  BY ExportFields
<1>. DEFINE entry == [file |-> exp.at.file, sha256 |-> sum]
            L == [exp.mine EXCEPT ![exp.at.item] = entry]
<1>2. entry \in Entry
  BY <1>1 DEF Entry
<1>. HIDE DEF entry
<1>3. /\ L \in Listing /\ L[exp.at.item] = entry
      /\ \A k \in Items : k # exp.at.item => L[k] = exp.mine[k]
  BY <1>1, <1>2 DEF Listing, Entry
<1>4. exp' = [left |-> exp.left, taken |-> exp.taken, wrote |-> exp.wrote, at |-> None,
              mine |-> L]
  BY DEF Export, entry
<1>5. entry = [file |-> exp.at.file, sha256 |-> sum]
  BY DEF entry
<1>. HIDE DEF L
<1>6. /\ exp'.left = exp.left /\ exp'.taken = exp.taken /\ exp'.wrote = exp.wrote
      /\ exp'.at = None /\ exp'.mine = L
  BY ONLY <1>4
<1>7. exp' \in Export
  BY <1>1, <1>3, <1>4 DEF Export
<1>. QED
  BY <1>3, <1>5, <1>6, <1>7

LEMMA ExportStep ==
  ASSUME ImportInv,
         \/ \E i \in Items : Learn(i)
         \/ \E wanted \in Wanted : ExportBegin(wanted)
         \/ ExportFile \/ ExportChecksum \/ ExportEnd \/ ExportDies
         \/ \E f \in Names : Change(f)
  PROVE  ImportInv'
<1>. USE DEF history
<1>1. UNCHANGED ImportVars /\ adopted \subseteq adopted'
  BY DEF ImportVars, Learn, ExportBegin, ExportFile, ExportChecksum, ExportEnd, ExportDies, Change
<1>0. \A L : Recorded(adopted, L) => Recorded(adopted', L)
  BY <1>1 DEF Recorded, Known
<1>00. ImportedAsRecorded'
  BY <1>1 DEF ImportInv, ImportedAsRecorded, ImportVars
<1>2. SUFFICES /\ local' \in [Items -> Nat]
               /\ files' \in [Names -> Content \cup {None, Foreign}]
               /\ manifest' = None \/ manifest' \in Listing
               /\ exp' = Idle \/ exp' \in Export
               /\ adopted' \subseteq Items
               /\ manifest' # None => Recorded(adopted', manifest')
               /\ exp' # Idle => Recorded(adopted', exp'.mine)
               /\ AtHand'
  BY <1>1, <1>0, <1>00 DEF ImportInv, Typed, ImportVars, Recorded, Known
<1>3. /\ Typed /\ (manifest # None => Recorded(adopted, manifest))
      /\ (exp # Idle => Recorded(adopted, exp.mine)) /\ AtHand
  BY DEF ImportInv
<1>4. CASE \E i \in Items : Learn(i)
  <2>1. PICK i \in Items : Learn(i)
    BY <1>4
  <2>2. local' \in [Items -> Nat]
    <3>1. local' = [local EXCEPT ![i] = @ + 1]
      BY <2>1, Zenon DEF Learn
    <3>. QED
      BY <1>3, <3>1 DEF Typed
  <2>3. UNCHANGED <<files, manifest, exp, adopted>>
    BY <2>1, Zenon DEF Learn
  <2>. QED
    BY <1>3, <2>2, <2>3 DEF Typed, AtHand
<1>5. CASE \E wanted \in Wanted : ExportBegin(wanted)
  <2>1. PICK wanted \in Wanted : ExportBegin(wanted)
    BY <1>5
  <2>. DEFINE L == IF manifest = None THEN [i \in Items |-> None] ELSE manifest
  <2>2. L \in Listing /\ Recorded(adopted, L)
    BY <1>3 DEF Typed, Listing, Recorded
  <2>. HIDE DEF L
  <2>3. exp' = [left |-> wanted, taken |-> {}, wrote |-> {}, at |-> None, mine |-> L]
    BY <2>1 DEF ExportBegin, L
  <2>4. exp' \in Export /\ exp'.mine = L /\ exp'.at = None
    BY <2>2, <2>3, WantedItems DEF Export
  <2>5. UNCHANGED <<local, files, manifest, adopted>>
    BY <2>1 DEF ExportBegin
  <2>. QED
    BY <1>3, <2>2, <2>4, <2>5 DEF Typed, AtHand
<1>6. CASE ExportFile
  <2>1. exp \in Export /\ exp # Idle
    BY <1>3, <1>6 DEF ExportFile, Typed
  <2>. DEFINE body(i) == [item |-> i, version |-> local[i]]
  <2>2. PICK i \in Items :
          /\ files' = [files EXCEPT ![Name(i, exp.taken)] = body(i)]
          /\ exp' = [exp EXCEPT !.left = @ \ {i}, !.taken = @ \cup {i},
                                !.wrote = @ \cup {Name(i, exp.taken)},
                                !.at = [item |-> i, file |-> Name(i, exp.taken)]]
    BY <1>6 DEF ExportFile
  <2>. DEFINE f == Name(i, exp.taken)
              new == body(i)
  <2>3. f \in Names
    BY <2>1, NameIsName, ExportFields
  <2>4. new \in Content /\ new.item = i
    BY <1>3 DEF Typed, Content
  <2>5. /\ files' = [files EXCEPT ![f] = new]
        /\ exp' = [exp EXCEPT !.left = @ \ {i}, !.taken = @ \cup {i}, !.wrote = @ \cup {f},
                              !.at = [item |-> i, file |-> f]]
    BY <2>2
  <2>. HIDE DEF f, new
  <2>6. /\ exp' \in Export /\ files' \in [Names -> Content \cup {None, Foreign}]
        /\ exp'.mine = exp.mine /\ exp'.at = [item |-> i, file |-> f]
    BY <1>3, <2>1, <2>3, <2>4, <2>5, ExportFileTyped
  <2>7. UNCHANGED <<local, manifest, adopted>>
    BY <1>6 DEF ExportFile
  <2>8. files'[f] = new
    BY <1>3, <2>3, <2>5 DEF Typed
  <2>9. AtHand'
    <3>1. exp'.at.file = f /\ exp'.at.item = i
      BY <2>6
    <3>. QED
      BY <2>4, <2>8, <3>1 DEF AtHand
  <2>. QED
    BY <1>3, <2>1, <2>6, <2>7, <2>9 DEF Typed
<1>7. CASE ExportChecksum
  <2>1. /\ exp \in Export /\ exp # Idle /\ exp.at # None
        /\ exp.at.item \in Items /\ exp.at.file \in Names
    BY <1>3, <1>7, ExportFields DEF ExportChecksum, Typed
  <2>. DEFINE sum == files[exp.at.file]
              i == exp.at.item
  <2>2. sum = Foreign \/ (sum \in Content /\ sum.item = i)
    BY <1>3, <2>1 DEF AtHand
  <2>3. /\ exp' = [exp EXCEPT !.at = None,
                              !.mine[exp.at.item] = [file |-> exp.at.file, sha256 |-> sum]]
        /\ adopted' = IF sum = Foreign THEN adopted \cup {i} ELSE adopted
        /\ UNCHANGED <<local, files, manifest>>
    BY <1>7 DEF ExportChecksum
  <2>. HIDE DEF sum, i
  <2>4. /\ exp' \in Export /\ exp'.at = None
        /\ exp'.mine[exp.at.item] = [file |-> exp.at.file, sha256 |-> sum]
        /\ \A k \in Items : k # exp.at.item => exp'.mine[k] = exp.mine[k]
    BY <1>3, <2>1, <2>2, <2>3, ExportChecksumTyped
  <2>5. adopted' \subseteq Items
    BY <1>3, <2>1, <2>3 DEF Typed, i
  <2>6. Known(adopted', i, sum)
    BY <2>2, <2>3 DEF Known
  <2>7. Recorded(adopted', exp'.mine)
    <3> SUFFICES ASSUME NEW k \in Items, exp'.mine[k] # None
                 PROVE  Known(adopted', k, exp'.mine[k].sha256)
      BY DEF Recorded
    <3>1. CASE k = i
      <4>1. exp'.mine[k].sha256 = sum
        BY <2>4, <3>1 DEF i
      <4>. QED
        BY <2>6, <3>1, <4>1
    <3>2. CASE k # i
      <4>1. Recorded(adopted', exp.mine)
        BY <1>0, <1>3, <2>1
      <4>. QED
        BY <2>4, <3>2, <4>1 DEF Recorded, i
    <3>. QED
      BY <3>1, <3>2
  <2>. QED
    BY <1>0, <1>3, <2>3, <2>4, <2>5, <2>7 DEF Typed, AtHand
<1>8. CASE ExportEnd
  BY <1>3, <1>8, ExportFields DEF ExportEnd, Typed, AtHand
<1>9. CASE ExportDies
  BY <1>3, <1>9 DEF ExportDies, Typed, AtHand
<1>10. CASE \E f \in Names : Change(f)
  <2>1. PICK f \in Names : Change(f)
    BY <1>10
  <2>2. /\ files' = [files EXCEPT ![f] = Foreign]
        /\ UNCHANGED <<local, manifest, exp, adopted>>
    BY <2>1 DEF Change
  <2>3. files' \in [Names -> Content \cup {None, Foreign}]
    BY <1>3, <2>2 DEF Typed
  <2>4. AtHand'
    <3> SUFFICES ASSUME exp # Idle, exp.at # None
                 PROVE  \/ files'[exp.at.file] = Foreign
                        \/ files'[exp.at.file] \in Content /\ files'[exp.at.file].item = exp.at.item
      BY <2>2 DEF AtHand
    <3>1. exp.at.file \in Names
      BY <1>3, ExportFields DEF Typed
    <3>2. files'[exp.at.file] = Foreign \/ files'[exp.at.file] = files[exp.at.file]
      BY <1>3, <2>2, <3>1 DEF Typed
    <3>. QED
      BY <1>3, <3>2 DEF AtHand
  <2>. QED
    BY <1>3, <2>2, <2>3, <2>4 DEF Typed
<1>. QED
  BY <1>4, <1>5, <1>6, <1>7, <1>8, <1>9, <1>10

(* What the import does.                                                    *)
LEMMA ImportStep ==
  ASSUME ImportInv,
         \/ \E wanted \in Wanted : ImportBegin(wanted)
         \/ ImportCheck \/ ImportWorld \/ ImportProgram \/ ValidateProgram
         \/ ImportEnd \/ ImportDies
  PROVE  ImportInv'
<1>. USE DEF history
<1>1. UNCHANGED <<local, files, manifest, exp, adopted>>
  BY DEF ImportBegin, ImportCheck, ImportWorld, ImportProgram, ValidateProgram, ImportEnd, ImportDies
<1>. DEFINE Wellformed ==
              imp # Idle =>
                /\ imp \in Import
                /\ Recorded(adopted, imp.mine)
                /\ \A i \in imp.left : imp.mine[i] # None
                /\ imp.at # None =>
                     /\ imp.mine[imp.at] # None
                     /\ imp.seen # None => imp.seen = imp.mine[imp.at].sha256
            Kept == /\ imported \in [Slugs -> Content \cup {None, Foreign}]
                    /\ registered \in [Programs -> SUBSET (Content \cup {None, Foreign})]
                    /\ ImportedAsRecorded
<1>2. Wellformed /\ Kept
  BY DEF ImportInv, Typed
<1>3. SUFFICES Wellformed' /\ Kept'
  BY <1>1 DEF ImportInv, Typed, Recorded, Known, AtHand
<1>4. CASE \E wanted \in Wanted : ImportBegin(wanted)
  <2>1. PICK wanted \in Wanted : ImportBegin(wanted)
    BY <1>4
  <2>2. /\ manifest # None /\ manifest \in Listing /\ Recorded(adopted, manifest)
        /\ imp' = [left |-> {i \in wanted : manifest[i] # None},
                   mine |-> manifest, at |-> None, seen |-> None]
        /\ UNCHANGED <<imported, registered, swapped>>
    BY <2>1 DEF ImportBegin, ImportInv, Typed
  <2>3. imp' \in Import
    BY <2>2, WantedItems, SMTT(30) DEF Import
  <2>. QED
    BY <1>1, <1>2, <2>2, <2>3 DEF ImportedAsRecorded, Recorded, Known
<1>5. CASE ImportCheck
  <2>1. PICK i \in Items :
          /\ First(i, imp.left)
          /\ imp' = IF files[imp.mine[i].file] = None THEN [imp EXCEPT !.left = @ \ {i}]
                    ELSE IF ~Verifies(i) THEN Idle
                    ELSE [imp EXCEPT !.at = i, !.seen = files[imp.mine[i].file]]
    BY <1>5 DEF ImportCheck
  <2>2. imp # Idle /\ imp \in Import /\ imp.at = None /\ UNCHANGED <<imported, registered, swapped>>
    BY <1>2, <1>5 DEF ImportCheck
  <2>3. i \in imp.left /\ imp.mine[i] # None /\ imp.mine[i] \in Entry
    BY <1>2, <2>1, <2>2 DEF First, Import, Listing, Entry
  <2>4. Kept'
    BY <1>1, <1>2, <2>2 DEF ImportedAsRecorded
  <2>5. CASE imp' = [imp EXCEPT !.left = @ \ {i}]
    <3>1. imp' \in Import /\ imp'.mine = imp.mine /\ imp'.at = None /\ imp'.left \subseteq imp.left
      BY <2>2, <2>5 DEF Import
    <3>. QED
      BY <1>1, <1>2, <2>2, <2>4, <3>1 DEF Recorded, Known
  <2>6. CASE imp' = Idle
    BY <2>4, <2>6
  <2>7. CASE Verifies(i) /\ imp' = [imp EXCEPT !.at = i, !.seen = files[imp.mine[i].file]]
    <3>1. files[imp.mine[i].file] = imp.mine[i].sha256 /\ imp.mine[i].sha256 \in Content \cup {Foreign}
      BY <2>3, <2>7 DEF Verifies, Entry
    <3>2. /\ imp' \in Import /\ imp'.mine = imp.mine /\ imp'.at = i /\ imp'.left = imp.left
          /\ imp'.seen = imp.mine[i].sha256
      BY <2>2, <2>7, <3>1 DEF Import
    <3>. QED
      BY <1>1, <1>2, <2>2, <2>3, <2>4, <3>2 DEF Recorded, Known
  <2>. QED
    BY <2>1, <2>5, <2>6, <2>7
<1>6. CASE ImportWorld
  <2>. DEFINE body == files[imp.mine[imp.at].file]
  <2>1. /\ imp # Idle /\ imp \in Import /\ imp.at \in Worlds /\ imp.at \in Items
        /\ imp.at # None /\ imp.mine[imp.at] # None /\ imp.mine[imp.at] \in Entry
    BY <1>2, <1>6, ConstantsAssumption DEF ImportWorld, Items, Import, Listing, Entry, ConstantsAssumption
  <2>2. body \in Content \cup {None, Foreign}
    BY <2>1, Reads DEF ImportInv
  <2>. HIDE DEF body
  <2>3. /\ imported' = [imported EXCEPT ![Slug[imp.at]] = body]
        /\ swapped' = (swapped \/ body # imp.seen)
        /\ imp' = [imp EXCEPT !.left = @ \ {imp.at}, !.at = None, !.seen = None]
        /\ registered' = registered
    BY <1>6 DEF ImportWorld, body
  <2>4. Wellformed'
    <3>1. imp' \in Import /\ imp'.mine = imp.mine /\ imp'.at = None /\ imp'.left \subseteq imp.left
      BY <2>1, <2>3 DEF Import
    <3>. QED
      BY <1>1, <1>2, <2>1, <3>1 DEF Recorded, Known
  <2>5. imported' \in [Slugs -> Content \cup {None, Foreign}]
    BY <1>2, <2>2, <2>3
  <2>6. ImportedAsRecorded'
    <3> SUFFICES ASSUME ~swapped' PROVE ImportedAsRecorded'
      BY DEF ImportedAsRecorded
    <3>1. ~swapped /\ body = imp.seen
      BY <2>3, Zenon
    <3>2. body # None => Known(adopted, imp.at, body)
      BY <1>2, <2>1, <3>1 DEF Recorded
    <3>3. adopted' = adopted /\ Foreign \notin Content
      BY <1>1, TokensAssumption DEF TokensAssumption
    <3>. QED
      BY <1>2, <2>1, <2>3, <3>1, <3>2, <3>3 DEF ImportedAsRecorded, Known
  <2>. QED
    BY <1>2, <2>3, <2>4, <2>5, <2>6
<1>7. CASE ImportProgram
  <2>. DEFINE body == files[imp.mine[imp.at].file]
  <2>1. /\ imp # Idle /\ imp \in Import /\ imp.at \in Programs /\ imp.at \in Items
        /\ imp.at # None /\ imp.mine[imp.at] # None /\ imp.mine[imp.at] \in Entry /\ imp.seen # None
    BY <1>2, <1>7, ConstantsAssumption DEF ImportProgram, Items, Import, Listing, Entry, ConstantsAssumption
  <2>2. body \in Content \cup {None, Foreign}
    BY <2>1, Reads DEF ImportInv
  <2>. HIDE DEF body
  <2>3. /\ registered' = [registered EXCEPT ![imp.at] = @ \cup {body}]
        /\ swapped' = (swapped \/ body # imp.seen)
        /\ \/ imp' = [imp EXCEPT !.left = @ \ {imp.at}, !.at = None, !.seen = None]
           \/ imp' = [imp EXCEPT !.seen = None]
        /\ imported' = imported
    BY <1>7 DEF ImportProgram, body
  <2>4. Wellformed'
    <3>1. /\ imp' \in Import /\ imp'.mine = imp.mine /\ imp'.at \in {None, imp.at}
          /\ imp'.seen = None /\ imp'.left \subseteq imp.left
      BY <2>1, <2>3 DEF Import
    <3>. QED
      BY <1>1, <1>2, <2>1, <3>1 DEF Recorded, Known
  <2>5. registered' \in [Programs -> SUBSET (Content \cup {None, Foreign})]
    BY <1>2, <2>2, <2>3
  <2>6. ImportedAsRecorded'
    <3> SUFFICES ASSUME ~swapped' PROVE ImportedAsRecorded'
      BY DEF ImportedAsRecorded
    <3>1. ~swapped /\ body = imp.seen
      BY <2>3, Zenon
    <3>2. Known(adopted, imp.at, body)
      BY <1>2, <2>1, <3>1 DEF Recorded
    <3>3. adopted' = adopted /\ Foreign \notin Content
      BY <1>1, TokensAssumption DEF TokensAssumption
    <3>. QED
      BY <1>2, <2>1, <2>3, <3>1, <3>2, <3>3 DEF ImportedAsRecorded, Known
  <2>. QED
    BY <1>2, <2>3, <2>4, <2>5, <2>6
<1>8. CASE ValidateProgram
  <2>1. /\ imp # Idle /\ imp \in Import /\ UNCHANGED <<imported, registered, swapped>>
        /\ imp' = [imp EXCEPT !.left = @ \ {imp.at}, !.at = None]
    BY <1>2, <1>8 DEF ValidateProgram
  <2>2. imp' \in Import /\ imp'.mine = imp.mine /\ imp'.at = None /\ imp'.left \subseteq imp.left
    BY <2>1 DEF Import
  <2>. QED
    BY <1>1, <1>2, <2>1, <2>2 DEF Recorded, Known, ImportedAsRecorded
<1>9. CASE ImportEnd \/ ImportDies
  BY <1>1, <1>2, <1>9 DEF ImportEnd, ImportDies, ImportedAsRecorded
<1>. QED
  BY <1>4, <1>5, <1>6, <1>7, <1>8, <1>9, SMTT(30)

LEMMA ImportNext == ImportInv /\ [Next]_vars => ImportInv'
<1> SUFFICES ASSUME ImportInv, [Next]_vars PROVE ImportInv'
  OBVIOUS
<1>1. CASE UNCHANGED vars
  BY <1>1 DEF vars, history, ImportInv, Typed, Recorded, Known, AtHand, ImportedAsRecorded
<1>. QED
  BY <1>1, ExportStep, ImportStep, Steps

(* What an import has left behind, ended, aborted or killed, is what an      *)
(* export wrote for that item, unless a file was replaced between the check  *)
(* of its checksum and its load, or between its export and the reading back  *)
(* of its checksum.                                                          *)
THEOREM ImportsAreRecorded == Spec => []ImportedAsRecorded
<1>1. ImportInv => ImportedAsRecorded
  BY DEF ImportInv
<1>. QED
  BY <1>1, ImportInit, ImportNext, PTL DEF Spec

-----------------------------------------------------------------------------
(* What an export leaves.  A world is named by its slug, or by its slug and  *)
(* itself: only the first name can be another item's.                        *)

Base(i) == <<Dir(i), Slug[i], 0>>
Own(i) == <<Dir(i), Slug[i], i>>

Called(i, f) == f = Base(i) \/ (i \in Worlds /\ f = Own(i))
NamedIn(L) == \A i \in Items : L[i] # None => Called(i, L[i].file)
Holds(store, L, i, except) ==
  L[i] # None /\ L[i].file \notin except => store[L[i].file] = L[i].sha256

Wrote == IF exp = Idle THEN {} ELSE exp.wrote

(* An item that has lost its file had the name that may be shared.          *)
DisplacedIn(lost, L) == \A i \in lost : L[i] # None => L[i].file = Base(i)

Published ==
  manifest # None =>
    /\ NamedIn(manifest) /\ DisplacedIn(displaced, manifest)
    /\ \A i \in Items \ displaced : Holds(files, manifest, i, torn \cup changed \cup Wrote)

(* The item whose file is written and whose checksum is not taken.          *)
Pending == IF exp.at = None THEN {} ELSE {exp.at.item}

Exporting ==
  exp # Idle =>
    /\ NamedIn(exp.mine) /\ DisplacedIn(displaced, exp.mine)
    /\ \A i \in Items \ (displaced \cup exp.left \cup Pending) :
         Holds(files, exp.mine, i, (torn \ exp.wrote) \cup changed)
    /\ \A i \in Pending : /\ i \in exp.taken /\ i \notin displaced
                         /\ Called(i, exp.at.file) /\ exp.at.file \in exp.wrote
    /\ exp.at # None => \A k \in Items \ (displaced \cup exp.left \cup Pending) :
         exp.mine[k] # None => exp.mine[k].file # exp.at.file
    /\ \A i \in Items \ exp.taken : manifest # None => exp.mine[i] = manifest[i]
    /\ \A i \in exp.taken : Base(i) \in exp.wrote
    /\ \/ exp.taken \cup exp.left \subseteq Worlds
       \/ exp.taken \cup exp.left \subseteq Programs

ExportInv == Typed /\ Published /\ Exporting /\ displaced \subseteq Items

LEMMA NamesApart ==
  ASSUME NEW i \in Items, NEW j \in Items, i # j
  PROVE  /\ i \in Worlds => ~Called(j, Own(i))
         /\ Base(i) = Base(j) => Slug[i] = Slug[j] /\ (i \in Worlds <=> j \in Worlds)
<1>1. i # 0 /\ j # 0
  BY ConstantsAssumption DEF ConstantsAssumption, Items
<1>. QED
  BY <1>1 DEF Base, Own, Called, Dir

LEMMA NameCalled ==
  ASSUME NEW i \in Items, NEW taken \in SUBSET Items
  PROVE  /\ Called(i, Name(i, taken))
         /\ Name(i, taken) = Base(i) \/
              (/\ i \in Worlds /\ Name(i, taken) = Own(i)
               /\ \E j \in taken : Slug[j] = Slug[i] /\ j # i)
         /\ i \in Worlds /\ (\E j \in taken : Slug[j] = Slug[i] /\ j # i)
              => Name(i, taken) = Own(i)
BY DEF Called, Name, Base, Own

LEMMA ExportInit == Init => ExportInv
<1> SUFFICES ASSUME Init PROVE ExportInv
  OBVIOUS
<1>1. Typed
  BY ImportInit DEF ImportInv
<1>2. manifest = None /\ exp = Idle /\ displaced = {}
  BY DEF Init
<1>. QED
  BY <1>1, <1>2 DEF ExportInv, Published, Exporting

(* The step that writes a file.                                             *)
LEMMA FileWritten ==
  ASSUME ExportInv, Typed', ExportFile
  PROVE  ExportInv'
<1>1. exp # Idle /\ exp \in Export /\ exp.taken \in SUBSET Items /\ exp.left \in SUBSET Items
  BY DEF ExportFile, ExportInv, Typed, Export
<1>. DEFINE f(i) == Name(i, exp.taken)
            body(i) == [item |-> i, version |-> local[i]]
<1>2. PICK i \in Items :
        /\ First(i, exp.left)
        /\ files' = [files EXCEPT ![f(i)] = body(i)]
        /\ exp' = [exp EXCEPT !.left = @ \ {i}, !.taken = @ \cup {i}, !.wrote = @ \cup {f(i)},
                              !.at = [item |-> i, file |-> f(i)]]
        /\ displaced' = (displaced \ {i}) \cup
             {j \in Items \ {i} : /\ exp.mine[j] # None /\ exp.mine[j].file = f(i)
                                  /\ \/ j \in Programs
                                     \/ j \notin exp.taken \cup exp.left}
  BY DEF ExportFile
<1>. DEFINE g == f(i)
            new == body(i)
<1>3. UNCHANGED <<manifest, torn, changed>> /\ exp.at = None /\ Pending = {}
  BY DEF ExportFile, Pending
<1>4. i \in exp.left
  BY <1>2 DEF First
<1>5. g \in Names /\ Called(i, g)
  BY <1>1, NameIsName, NameCalled
<1>7. /\ exp' # Idle
      /\ exp'.left = exp.left \ {i} /\ exp'.taken = exp.taken \cup {i}
      /\ exp'.wrote = exp.wrote \cup {g} /\ exp'.mine = exp.mine
      /\ exp'.at = [item |-> i, file |-> g] /\ exp'.at # None
  <2>1. body(i) \in Content /\ f(i) \in Names
    BY <1>5 DEF ExportInv, Typed, Content
  <2>2. Typed
    BY DEF ExportInv
  <2>. HIDE DEF body, f
  <2>3. /\ exp' \in Export
        /\ exp'.left = exp.left \ {i} /\ exp'.taken = exp.taken \cup {i}
        /\ exp'.wrote = exp.wrote \cup {f(i)} /\ exp'.mine = exp.mine
        /\ exp'.at = [item |-> i, file |-> f(i)] /\ exp'.at # None
    BY <1>1, <1>2, <2>1, <2>2, ExportFileTyped
  <2>. QED
    BY <2>3, TokensAssumption DEF TokensAssumption
<1>6. /\ g = Base(i) \/ (i \in Worlds /\ g = Own(i) /\ \E j \in exp.taken : Slug[j] = Slug[i] /\ j # i)
      /\ i \in Worlds /\ (\E j \in exp.taken : Slug[j] = Slug[i] /\ j # i) => g = Own(i)
  BY <1>1, NameCalled
<1>. HIDE DEF f, body
<1>8. /\ files' = [files EXCEPT ![g] = new]
      /\ displaced' = (displaced \ {i}) \cup
           {j \in Items \ {i} : /\ exp.mine[j] # None /\ exp.mine[j].file = g
                                /\ \/ j \in Programs
                                   \/ j \notin exp.taken \cup exp.left}
  BY <1>2
<1>. HIDE DEF g, new
<1>9. files'[g] = new /\ \A h \in Names : h # g => files'[h] = files[h]
  BY <1>5, <1>8 DEF ExportInv, Typed
<1>10. Pending' = {i} /\ exp'.at.item = i /\ exp'.at.file = g
  BY <1>7 DEF Pending
<1>11. \A k \in Items : exp.mine[k] # None => exp.mine[k].file \in Names
  BY <1>1 DEF Export, Listing, Entry
<1>12. /\ NamedIn(exp.mine) /\ DisplacedIn(displaced, exp.mine)
       /\ \A k \in Items \ (displaced \cup exp.left) :
            Holds(files, exp.mine, k, (torn \ exp.wrote) \cup changed)
       /\ \A k \in Items \ exp.taken : manifest # None => exp.mine[k] = manifest[k]
       /\ \A k \in exp.taken : Base(k) \in exp.wrote
       /\ \/ exp.taken \cup exp.left \subseteq Worlds
          \/ exp.taken \cup exp.left \subseteq Programs
  BY <1>1, <1>3 DEF ExportInv, Exporting
(* Another item called g has the same slug, and is not exported with i. *)
<1>13. ASSUME NEW k \in Items, k # i, Called(k, g)
       PROVE  /\ g = Base(i) /\ g = Base(k)
              /\ i \in Worlds => k \notin exp.taken
  <2>1. g = Base(i)
    BY <1>6, <1>13, NamesApart
  <2>2. g = Base(k)
    <3>1. k \in Worlds => Own(k) # g
      BY <1>5, <1>13, NamesApart
    <3>. QED
      BY <1>13, <3>1 DEF Called
  <2>3. Slug[i] = Slug[k]
    BY <1>13, <2>1, <2>2, NamesApart
  <2>4. i \in Worlds => g # Own(i)
    <3>1. i \in Worlds => i # 0
      BY ConstantsAssumption DEF ConstantsAssumption
    <3>. QED
      BY <2>1, <3>1 DEF Base, Own
  <2>. QED
    BY <1>6, <1>13, <2>1, <2>2, <2>3, <2>4
<1>14. \A k \in displaced' : k # i /\ k \in Items /\ (k \in displaced \/ (exp.mine[k] # None /\ exp.mine[k].file = g))
  BY <1>8 DEF ExportInv
<1>15. \A k \in Items : k \notin displaced' => k = i \/ k \notin displaced
  BY <1>8
(* The manifest in memory. *)
<1>16. NamedIn(exp'.mine)
  BY <1>7, <1>12 DEF NamedIn
<1>17. DisplacedIn(displaced', exp'.mine)
  <2> SUFFICES ASSUME NEW k \in displaced', exp'.mine[k] # None
               PROVE  exp'.mine[k].file = Base(k)
    BY DEF DisplacedIn
  <2>1. k \in Items /\ k # i /\ exp'.mine[k] = exp.mine[k]
    BY <1>7, <1>14
  <2>2. CASE k \in displaced
    BY <1>12, <2>1, <2>2 DEF DisplacedIn
  <2>3. CASE exp.mine[k].file = g
    <3>1. Called(k, g)
      BY <1>12, <2>1, <2>3 DEF NamedIn
    <3>. QED
      BY <1>13, <2>1, <2>3, <3>1
  <2>. QED
    BY <1>14, <2>2, <2>3
<1>18. ASSUME NEW k \in Items, k # i, k \notin displaced', k \notin exp'.left
       PROVE  /\ exp'.mine[k] # None => exp'.mine[k].file # g
              /\ Holds(files', exp'.mine, k, (torn' \ exp'.wrote) \cup changed')
  <2>1. k \notin displaced /\ k \notin exp.left
    BY <1>7, <1>15, <1>18
  <2>2. ASSUME exp.mine[k] # None PROVE exp.mine[k].file # g
    <3> SUFFICES ASSUME exp.mine[k].file = g PROVE FALSE
      OBVIOUS
    <3>1. k \notin Programs /\ k \in exp.taken \cup exp.left
      BY <1>8, <1>18, <2>2
    <3>2. k \in Worlds /\ k \in exp.taken
      BY <2>1, <3>1 DEF Items
    <3>3. i \in Worlds
      <4>1. ~(exp.taken \cup exp.left \subseteq Programs)
        BY <3>1, <3>2
      <4>. QED
        BY <1>4, <1>12, <4>1
    <3>4. Called(k, g)
      BY <1>12, <2>2 DEF NamedIn
    <3>. QED
      BY <1>13, <1>18, <3>2, <3>3, <3>4
  <2>3. Holds(files', exp.mine, k, (torn \ exp'.wrote) \cup changed)
    <3> SUFFICES ASSUME exp.mine[k] # None,
                        exp.mine[k].file \notin (torn \ exp'.wrote) \cup changed
                 PROVE  files'[exp.mine[k].file] = exp.mine[k].sha256
      BY DEF Holds
    <3>1. exp.mine[k].file # g
      BY <2>2
    <3>2. exp.mine[k].file \notin (torn \ exp.wrote) \cup changed
      BY <1>7, <3>1
    <3>. QED
      BY <1>9, <1>11, <1>12, <2>1, <3>1, <3>2 DEF Holds
  <2>. QED
    BY <1>3, <1>7, <2>2, <2>3
<1>19. \A k \in Items \ exp'.taken : manifest' # None => exp'.mine[k] = manifest'[k]
  BY <1>3, <1>7, <1>12
<1>20. \A k \in exp'.taken : Base(k) \in exp'.wrote
  <2>1. Base(i) \in exp'.wrote
    <3>1. CASE g = Base(i)
      BY <1>7, <3>1
    <3>2. CASE i \in Worlds /\ \E j \in exp.taken : Slug[j] = Slug[i] /\ j # i
      <4>1. PICK j \in exp.taken : Slug[j] = Slug[i]
        BY <3>2
      <4>2. i \notin Programs
        BY <3>2, ConstantsAssumption DEF ConstantsAssumption
      <4>3. j \in Worlds
        BY <1>4, <1>12, <4>2
      <4>4. Base(j) = Base(i)
        BY <3>2, <4>1, <4>3 DEF Base, Dir
      <4>. QED
        BY <1>7, <1>12, <4>4
    <3>. QED
      BY <1>6, <3>1, <3>2
  <2>. QED
    BY <1>7, <1>12, <2>1
<1>21. \/ exp'.taken \cup exp'.left \subseteq Worlds
       \/ exp'.taken \cup exp'.left \subseteq Programs
  BY <1>4, <1>7, <1>12
(* The manifest of the store. *)
<1>22. Published'
  <2> SUFFICES ASSUME manifest # None
               PROVE  /\ NamedIn(manifest) /\ DisplacedIn(displaced', manifest)
                      /\ \A k \in Items \ displaced' :
                           Holds(files', manifest, k, torn \cup changed \cup exp'.wrote)
    <3>. QED
      BY <1>3, <1>7 DEF Published, Wrote
  <2>1. /\ NamedIn(manifest) /\ DisplacedIn(displaced, manifest) /\ manifest \in Listing
        /\ \A k \in Items \ displaced : Holds(files, manifest, k, torn \cup changed \cup exp.wrote)
    BY <1>1 DEF ExportInv, Published, Wrote, Typed
  <2>2. DisplacedIn(displaced', manifest)
    <3> SUFFICES ASSUME NEW k \in displaced', manifest[k] # None
                 PROVE  manifest[k].file = Base(k)
      BY <1>3 DEF DisplacedIn
    <3>1. CASE k \in displaced
      BY <2>1, <3>1 DEF DisplacedIn
    <3>2. CASE k \in Programs
      <4>1. k \notin Worlds /\ k \in Items
        BY <3>2, ConstantsAssumption DEF ConstantsAssumption, Items
      <4>. QED
        BY <2>1, <4>1 DEF NamedIn, Called
    <3>3. CASE k \notin exp.taken /\ exp.mine[k] # None /\ exp.mine[k].file = g
      <4>1. k \in Items /\ k # i /\ manifest[k] = exp.mine[k]
        BY <1>12, <1>14, <3>3
      <4>2. Called(k, g)
        BY <2>1, <3>3, <4>1 DEF NamedIn
      <4>. QED
        BY <1>13, <3>3, <4>1, <4>2
    <3>. QED
      BY <1>8, <3>1, <3>2, <3>3
  <2>3. ASSUME NEW k \in Items, k \notin displaced'
        PROVE  Holds(files', manifest, k, torn \cup changed \cup exp'.wrote)
    <3> SUFFICES ASSUME manifest[k] # None,
                        manifest[k].file \notin torn \cup changed \cup exp'.wrote
                 PROVE  files'[manifest[k].file] = manifest[k].sha256
      BY <1>3 DEF Holds
    <3>1. manifest[k].file # g /\ manifest[k].file \notin torn \cup changed \cup exp.wrote
      BY <1>7
    <3>2. manifest[k].file \in Names
      BY <2>1 DEF Listing, Entry
    <3>3. CASE k \notin displaced
      BY <1>9, <2>1, <3>1, <3>2, <3>3 DEF Holds
    <3>4. CASE k \in displaced
      <4>1. k = i /\ manifest[i].file = Base(i)
        BY <1>15, <2>1, <2>3, <3>4 DEF DisplacedIn
      <4>. QED
        BY <1>7, <1>20, <4>1
    <3>. QED
      BY <3>3, <3>4
  <2>. QED
    BY <2>1, <2>2, <2>3
<1>23. i \in exp'.taken /\ i \notin displaced' /\ g \in exp'.wrote
  BY <1>7, <1>8
<1>24. Exporting'
  <2>1. \A k \in Items \ (displaced' \cup exp'.left \cup Pending') :
          /\ Holds(files', exp'.mine, k, (torn' \ exp'.wrote) \cup changed')
          /\ exp'.mine[k] # None => exp'.mine[k].file # exp'.at.file
    BY <1>10, <1>18
  <2>2. \A k \in Pending' : /\ k \in exp'.taken /\ k \notin displaced'
                            /\ Called(k, exp'.at.file) /\ exp'.at.file \in exp'.wrote
    BY <1>5, <1>10, <1>23
  <2>. QED
    BY <1>16, <1>17, <1>19, <1>20, <1>21, <2>1, <2>2 DEF Exporting, NamedIn
<1>25. displaced' \subseteq Items
  BY <1>14
<1>. QED
  BY <1>22, <1>24, <1>25 DEF ExportInv

(* The step that takes the checksum.                                        *)
LEMMA ChecksumTaken ==
  ASSUME ExportInv, AtHand, Typed', ExportChecksum
  PROVE  ExportInv'
<1>1. exp # Idle /\ exp \in Export /\ exp.at # None /\ Typed
  BY DEF ExportChecksum, ExportInv, Typed
<1>. DEFINE f == exp.at.file
            i == exp.at.item
<1>2. /\ exp' = [exp EXCEPT !.at = None, !.mine[i] = [file |-> f, sha256 |-> files[f]]]
      /\ changed' = changed \ {f}
      /\ UNCHANGED <<files, manifest, torn, displaced>>
  BY DEF ExportChecksum
<1>3. i \in Items /\ f \in Names
  BY <1>1, ExportFields
<1>4. /\ Pending = {i}
      /\ i \in exp.taken /\ i \notin displaced /\ Called(i, f) /\ f \in exp.wrote
      /\ \A k \in Items \ (displaced \cup exp.left \cup {i}) :
           exp.mine[k] # None => exp.mine[k].file # f
  BY <1>1 DEF ExportInv, Exporting, Pending
<1>5. /\ NamedIn(exp.mine) /\ DisplacedIn(displaced, exp.mine)
      /\ \A k \in Items \ (displaced \cup exp.left \cup {i}) :
           Holds(files, exp.mine, k, (torn \ exp.wrote) \cup changed)
      /\ \A k \in Items \ exp.taken : manifest # None => exp.mine[k] = manifest[k]
      /\ \A k \in exp.taken : Base(k) \in exp.wrote
      /\ \/ exp.taken \cup exp.left \subseteq Worlds
         \/ exp.taken \cup exp.left \subseteq Programs
  BY <1>1, <1>4 DEF ExportInv, Exporting
<1>6. displaced \subseteq Items
  BY DEF ExportInv
<1>7. /\ exp' # Idle /\ exp'.at = None
      /\ exp'.left = exp.left /\ exp'.taken = exp.taken /\ exp'.wrote = exp.wrote
      /\ exp'.mine[i].file = f /\ exp'.mine[i].sha256 = files[f]
      /\ \A k \in Items : k # i => exp'.mine[k] = exp.mine[k]
  <2>. DEFINE sum == files[exp.at.file]
  <2>1. sum \in Content \cup {Foreign}
    BY <1>1 DEF AtHand
  <2>2. exp' = [exp EXCEPT !.at = None,
                           !.mine[exp.at.item] = [file |-> exp.at.file, sha256 |-> sum]]
    BY <1>2
  <2>. HIDE DEF sum
  <2>3. /\ exp' \in Export /\ exp'.at = None
        /\ exp'.left = exp.left /\ exp'.taken = exp.taken /\ exp'.wrote = exp.wrote
        /\ exp'.mine[exp.at.item] = [file |-> exp.at.file, sha256 |-> sum]
        /\ \A k \in Items : k # exp.at.item => exp'.mine[k] = exp.mine[k]
    BY <1>1, <2>1, <2>2, ExportChecksumTyped
  <2>. QED
    BY <2>3, TokensAssumption DEF TokensAssumption, sum
<1>. HIDE DEF f, i
<1>8. Pending' = {}
  BY <1>7 DEF Pending
<1>9. Published'
  <2>1. Wrote = exp.wrote /\ Wrote' = exp.wrote
    BY <1>1, <1>7 DEF Wrote
  <2>2. torn \cup changed' \cup exp.wrote = torn \cup changed \cup exp.wrote
    BY <1>2, <1>4
  <2>. QED
    BY <1>2, <2>1, <2>2 DEF ExportInv, Published, NamedIn, DisplacedIn, Holds
<1>10. NamedIn(exp'.mine) /\ DisplacedIn(displaced, exp'.mine)
  BY <1>4, <1>5, <1>6, <1>7 DEF NamedIn, DisplacedIn
<1>11. ASSUME NEW k \in Items \ (displaced \cup exp.left)
       PROVE  Holds(files, exp'.mine, k, (torn \ exp.wrote) \cup changed')
  <2>1. CASE k = i
    BY <1>7, <2>1 DEF Holds
  <2>2. CASE k # i
    BY <1>2, <1>4, <1>5, <1>7, <2>2 DEF Holds
  <2>. QED
    BY <2>1, <2>2
<1>12. \A k \in Items \ exp.taken : manifest # None => exp'.mine[k] = manifest[k]
  BY <1>4, <1>5, <1>7
<1>13. Exporting'
  BY <1>2, <1>5, <1>7, <1>8, <1>10, <1>11, <1>12 DEF Exporting, NamedIn, DisplacedIn, Holds
<1>. QED
  BY <1>2, <1>6, <1>9, <1>13 DEF ExportInv

(* Nothing that the export knows of is touched.                             *)
LEMMA StoreSame ==
  ASSUME ExportInv, Typed', UNCHANGED <<files, manifest, exp, torn, changed, displaced>>
  PROVE  ExportInv'
BY DEF ExportInv, Published, Exporting, Wrote, Pending, NamedIn, DisplacedIn, Holds

LEMMA ExportBegun ==
  ASSUME ExportInv, Typed', NEW wanted \in Wanted, ExportBegin(wanted)
  PROVE  ExportInv'
<1>. DEFINE L == IF manifest = None THEN [i \in Items |-> None] ELSE manifest
<1>1. /\ exp' = [left |-> wanted, taken |-> {}, wrote |-> {}, at |-> None, mine |-> L]
      /\ exp = Idle
      /\ UNCHANGED <<files, manifest, torn, changed, displaced>>
  BY DEF ExportBegin, history
<1>2. /\ exp'.left = wanted /\ exp'.taken = {} /\ exp'.wrote = {} /\ exp'.mine = L
      /\ exp'.at = None /\ Pending' = {}
  BY <1>1 DEF Pending
<1>3. Wrote = {} /\ Wrote' = {}
  BY <1>1, <1>2 DEF Wrote
<1>4. Published'
  BY <1>1, <1>3 DEF ExportInv, Published, NamedIn, DisplacedIn, Holds
<1>5. CASE manifest = None
  <2>1. \A i \in Items : L[i] = None
    BY <1>5
  <2>2. displaced \subseteq Items
    BY DEF ExportInv
  <2>. HIDE DEF L
  <2>3. Exporting'
    BY <1>1, <1>2, <1>5, <2>1, <2>2, WantedItems DEF Exporting, NamedIn, DisplacedIn, Holds
  <2>. QED
    BY <1>1, <1>4, <2>3 DEF ExportInv
<1>6. CASE manifest # None
  <2>1. L = manifest
    BY <1>6
  <2>2. /\ NamedIn(L) /\ DisplacedIn(displaced, L)
        /\ \A i \in Items \ displaced : Holds(files, L, i, torn \cup changed)
    BY <1>3, <1>6, <2>1 DEF ExportInv, Published
  <2>. HIDE DEF L
  <2>3. Exporting'
    BY <1>1, <1>2, <2>1, <2>2, WantedItems DEF Exporting, NamedIn, DisplacedIn, Holds
  <2>. QED
    BY <1>1, <1>4, <2>3 DEF ExportInv
<1>. QED
  BY <1>5, <1>6

LEMMA ExportEnded ==
  ASSUME ExportInv, Typed', ExportEnd
  PROVE  ExportInv'
<1>1. /\ exp # Idle /\ exp.left = {} /\ manifest' = exp.mine /\ torn' = torn \ exp.wrote
      /\ exp' = Idle /\ UNCHANGED <<files, changed, displaced>>
  BY DEF ExportEnd
<1>4. Pending = {}
  BY DEF ExportEnd, Pending
<1>2. /\ NamedIn(exp.mine) /\ DisplacedIn(displaced, exp.mine)
      /\ \A i \in Items \ displaced : Holds(files, exp.mine, i, (torn \ exp.wrote) \cup changed)
  BY <1>1, <1>4 DEF ExportInv, Exporting
<1>3. Published'
  BY <1>1, <1>2 DEF Published, Wrote, NamedIn, DisplacedIn, Holds
<1>. QED
  BY <1>1, <1>3 DEF ExportInv, Exporting

LEMMA ExportDied ==
  ASSUME ExportInv, Typed', ExportDies
  PROVE  ExportInv'
<1>1. /\ exp # Idle /\ torn' = torn \cup exp.wrote
      /\ exp' = Idle /\ UNCHANGED <<files, manifest, changed, displaced>>
  BY DEF ExportDies
<1>2. Published'
  BY <1>1 DEF ExportInv, Published, Wrote, NamedIn, DisplacedIn, Holds
<1>. QED
  BY <1>1, <1>2 DEF ExportInv, Exporting

LEMMA FileChanged ==
  ASSUME ExportInv, Typed', NEW f \in Names, Change(f)
  PROVE  ExportInv'
<1>1. /\ files' = [files EXCEPT ![f] = Foreign] /\ changed' = changed \cup {f}
      /\ UNCHANGED <<manifest, exp, torn, displaced>>
  BY DEF Change
<1>2. \A h \in Names : h \notin changed' => files'[h] = files[h] /\ h \notin changed
  BY <1>1 DEF ExportInv, Typed
<1>3. /\ manifest # None => \A i \in Items : manifest[i] # None => manifest[i].file \in Names
      /\ exp # Idle => \A i \in Items : exp.mine[i] # None => exp.mine[i].file \in Names
  BY DEF ExportInv, Typed, Listing, Export
<1>4. Published'
  BY <1>1, <1>2, <1>3 DEF ExportInv, Published, Wrote, NamedIn, DisplacedIn, Holds
<1>5. Exporting'
  BY <1>1, <1>2, <1>3 DEF ExportInv, Exporting, Pending, NamedIn, DisplacedIn, Holds
<1>. QED
  BY <1>1, <1>4, <1>5 DEF ExportInv

LEMMA ExportNext == ExportInv /\ AtHand /\ Typed' /\ [Next]_vars => ExportInv'
<1> SUFFICES ASSUME ExportInv, AtHand, Typed', [Next]_vars PROVE ExportInv'
  OBVIOUS
<1>1. CASE \E i \in Items : Learn(i)
  <2>1. UNCHANGED <<files, manifest, exp, torn, changed, displaced>>
    BY <1>1, ZenonT(60) DEF Learn, history
  <2>. QED
    BY <2>1, StoreSame
<1>2. CASE \/ \E wanted \in Wanted : ImportBegin(wanted)
           \/ ImportCheck \/ ImportWorld \/ ImportProgram \/ ValidateProgram
           \/ ImportEnd \/ ImportDies
           \/ UNCHANGED vars
  <2>1. UNCHANGED <<files, manifest, exp, torn, changed, displaced>>
    BY <1>2, ZenonT(60) DEF ImportBegin, ImportCheck, ImportWorld, ImportProgram, ValidateProgram,
                ImportEnd, ImportDies, history, vars
  <2>. QED
    BY <2>1, StoreSame
<1>. QED
  BY <1>1, <1>2, ExportBegun, FileWritten, ChecksumTaken, ExportEnded, ExportDied, FileChanged,
     Steps

(* While no export runs every file the manifest names verifies, apart from   *)
(* those that a killed export or somebody else has changed, and those of an  *)
(* item whose name another one of the same slug has taken.                   *)
THEOREM StoresVerify == Spec => []StoreVerifies
<1>1. ImportInv /\ ExportInv /\ [Next]_vars => ImportInv' /\ ExportInv'
  BY ImportNext, ExportNext DEF ImportInv
<1>2. ExportInv => StoreVerifies
  BY DEF ExportInv, Published, Holds, Wrote, StoreVerifies
<1>. QED
  BY <1>1, <1>2, ImportInit, ExportInit, PTL DEF Spec

-----------------------------------------------------------------------------
(* LLMClient.                                                               *)

(* A timeout is retried like what is transient, or raises like any other     *)
(* error: both clients take the same steps.                                 *)
LEMMA SameClient == ChatTimeouts!Spec => Chat!Spec
<1>1. ChatTimeouts!Init => Chat!Init
  BY DEF ChatTimeouts!Init, Chat!Init
<1>2. [ChatTimeouts!Next]_(ChatTimeouts!vars) => [Chat!Next]_(Chat!vars)
  <2>1. ChatTimeouts!TimesOut => Chat!Transient
    BY DEF ChatTimeouts!TimesOut, Chat!Transient, ChatTimeouts!Post, Chat!Post,
           ChatTimeouts!Retry, Chat!Retry, ChatTimeouts!Raise, Chat!Raise,
           ChatTimeouts!endpoint, Chat!endpoint, ChatTimeouts!config, Chat!config
  <2>2. \A m \in Models, a \in BOOLEAN : ChatTimeouts!Redeploy(m, a) => Chat!Redeploy(m, a)
    BY DEF ChatTimeouts!Redeploy, Chat!Redeploy,
           ChatTimeouts!endpoint, Chat!endpoint,
           ChatTimeouts!config, Chat!config
  <2>3. ChatTimeouts!Chat => Chat!Chat
    BY DEF ChatTimeouts!Chat, Chat!Chat,
           ChatTimeouts!endpoint, Chat!endpoint,
           ChatTimeouts!config, Chat!config
  <2>4. ChatTimeouts!Answered => Chat!Answered
    BY DEF ChatTimeouts!Answered, Chat!Answered,
           ChatTimeouts!Post, Chat!Post,
           ChatTimeouts!Served, Chat!Served,
           ChatTimeouts!endpoint, Chat!endpoint,
           ChatTimeouts!config, Chat!config
  <2>5. ChatTimeouts!Transient => Chat!Transient
    BY DEF ChatTimeouts!Transient, Chat!Transient,
           ChatTimeouts!Post, Chat!Post,
           ChatTimeouts!Retry, Chat!Retry,
           ChatTimeouts!Raise, Chat!Raise,
           ChatTimeouts!endpoint, Chat!endpoint,
           ChatTimeouts!config, Chat!config
  <2>6. ChatTimeouts!BadRequest => Chat!BadRequest
    BY DEF ChatTimeouts!BadRequest, Chat!BadRequest,
           ChatTimeouts!Post, Chat!Post,
           ChatTimeouts!Raise, Chat!Raise,
           ChatTimeouts!endpoint, Chat!endpoint,
           ChatTimeouts!config, Chat!config
  <2>7. ChatTimeouts!NotFound => Chat!NotFound
    BY DEF ChatTimeouts!NotFound, Chat!NotFound,
           ChatTimeouts!Post, Chat!Post,
           ChatTimeouts!Raise, Chat!Raise,
           ChatTimeouts!endpoint, Chat!endpoint,
           ChatTimeouts!config, Chat!config
  <2>8. ChatTimeouts!OtherError => Chat!OtherError
    BY DEF ChatTimeouts!OtherError, Chat!OtherError,
           ChatTimeouts!Post, Chat!Post,
           ChatTimeouts!Raise, Chat!Raise,
           ChatTimeouts!endpoint, Chat!endpoint,
           ChatTimeouts!config, Chat!config
  <2>9. \A m \in Models \cup {NoModel} : ChatTimeouts!LookUp(m) => Chat!LookUp(m)
    BY DEF ChatTimeouts!LookUp, Chat!LookUp,
           ChatTimeouts!Adopt, Chat!Adopt,
           ChatTimeouts!endpoint, Chat!endpoint,
           ChatTimeouts!config, Chat!config
  <2>10. ChatTimeouts!Next => Chat!Next
    <3>1. CASE \E m \in Models, a \in BOOLEAN : ChatTimeouts!Redeploy(m, a)
      BY <3>1, <2>2 DEF Chat!Next
    <3>2. CASE \E m \in Models \cup {NoModel} : ChatTimeouts!LookUp(m)
      BY <3>2, <2>9 DEF Chat!Next
    <3>. QED
      BY <3>1, <3>2, <2>1, <2>3, <2>4, <2>5, <2>6, <2>7, <2>8
         DEF ChatTimeouts!Next, Chat!Next
  <2>. QED
    BY <2>10 DEF ChatTimeouts!vars, Chat!vars, ChatTimeouts!endpoint, Chat!endpoint,
                 ChatTimeouts!config, Chat!config
<1>. QED
  BY <1>1, <1>2, PTL DEF ChatTimeouts!Spec, Chat!Spec

(* The components count with the cardinality of FiniteSets.                 *)
LEMMA SameCardinality ==
  \A S : /\ Gate!Cardinality(S) = Cardinality(S)
         /\ Queue!Cardinality(S) = Cardinality(S)
         /\ Registry!Cardinality(S) = Cardinality(S)
         /\ Cache!Cardinality(S) = Cardinality(S)
<1>1. \A S : Gate!Cardinality(S) = Cardinality(S)
  BY Zenon DEF Gate!Cardinality, Cardinality
<1>2. \A S : Queue!Cardinality(S) = Cardinality(S)
  BY Zenon DEF Queue!Cardinality, Cardinality
<1>3. \A S : Registry!Cardinality(S) = Cardinality(S)
  BY Zenon DEF Registry!Cardinality, Cardinality
<1>4. \A S : Cache!Cardinality(S) = Cardinality(S)
  BY Zenon DEF Cache!Cardinality, Cardinality
<1>. QED
  BY <1>1, <1>2, <1>3, <1>4

LEMMA Bounds == MaxRetries \in Nat /\ MinNet \in Nat /\ MinNet > 0
  BY ServicesAssumption

(* Each round of tries pays for its own posts.                              *)
PostsInv ==
  /\ tries \in Nat /\ posts \in Nat
  /\ request \in {"none", "first", "lookup", "second"}
  /\ request = "none" => posts <= 2 * (MaxRetries + 1)
  /\ request = "first" => tries <= MaxRetries /\ posts = tries
  /\ request = "lookup" => posts <= MaxRetries + 1
  /\ request = "second" => tries <= MaxRetries /\ posts <= MaxRetries + 1 + tries

LEMMA PostsStep == PostsInv /\ [Chat!Next]_(Chat!vars) => PostsInv'
<1>. SUFFICES ASSUME PostsInv, [Chat!Next]_(Chat!vars) PROVE PostsInv'
  OBVIOUS
<1>. USE Bounds DEF PostsInv
<1>1. CASE Chat!Post /\ request' = request /\ ~ (tries' > MaxRetries)
  BY <1>1 DEF Chat!Post
<1>2. CASE Chat!Post /\ request' = "none"
  BY <1>2 DEF Chat!Post
<1>3. ASSUME NEW m \in Models, NEW d \in BOOLEAN, Chat!Redeploy(m, d) PROVE PostsInv'
  BY <1>3 DEF Chat!Redeploy
<1>4. CASE Chat!Chat
  BY <1>4 DEF Chat!Chat
<1>5. CASE Chat!Answered \/ Chat!Transient \/ Chat!TimesOut \/ Chat!OtherError
  BY <1>1, <1>2, <1>5
     DEF Chat!Answered, Chat!Transient, Chat!TimesOut, Chat!OtherError, Chat!Retry, Chat!Raise
<1>6. CASE Chat!BadRequest
  <2>1. CASE request = "first" /\ request' = "second" /\ tries' = 0 /\ posts' = posts + 1
    BY <2>1
  <2>. QED
    BY <1>2, <1>6, <2>1, Zenon DEF Chat!BadRequest, Chat!Raise
<1>7. CASE Chat!NotFound
  <2>1. CASE Chat!Post /\ request = "first" /\ request' = "lookup"
    BY <2>1 DEF Chat!Post
  <2>. QED
    BY <1>2, <1>7, <2>1 DEF Chat!NotFound, Chat!Raise
<1>8. ASSUME NEW m \in Models \cup {NoModel}, Chat!LookUp(m) PROVE PostsInv'
  BY <1>8 DEF Chat!LookUp
<1>9. CASE UNCHANGED Chat!vars
  BY <1>9 DEF Chat!vars
<1>. QED
  BY <1>3, <1>4, <1>5, <1>6, <1>7, <1>8, <1>9, Zenon DEF Chat!Next

(* What is on its way is what the client is configured for.                 *)
ConfigInv ==
  /\ request # "none" => sent = [model |-> model, extra |-> extra]
  /\ settled => model = served /\ (accepts \/ ~extra)

LEMMA ConfigStep == ConfigInv /\ [Chat!Next]_(Chat!vars) => ConfigInv'
<1>. SUFFICES ASSUME ConfigInv, [Chat!Next]_(Chat!vars) PROVE ConfigInv'
  OBVIOUS
<1>1. CASE /\ UNCHANGED <<model, extra, sent, settled, served, accepts>>
           /\ request # "none" \/ request' = "none"
  BY <1>1, Zenon DEF ConfigInv
<1>2. CASE /\ settled' = FALSE /\ UNCHANGED <<model, extra, sent, request>>
  BY <1>2, Zenon DEF ConfigInv
<1>3. ASSUME NEW m \in Models, NEW d \in BOOLEAN, Chat!Redeploy(m, d) PROVE ConfigInv'
  BY <1>2, <1>3 DEF Chat!Redeploy, Chat!config
<1>4. CASE Chat!Chat
  <2>1. /\ sent' = [model |-> model, extra |-> extra]
        /\ UNCHANGED <<served, accepts, model, extra, settled>>
    BY <1>4 DEF Chat!Chat, Chat!endpoint, Chat!config
  <2>. QED
    BY <2>1, Zenon DEF ConfigInv
<1>5. CASE Chat!Answered
  <2>1. /\ sent.model = served /\ (accepts \/ ~sent.extra) /\ request # "none"
        /\ request' = "none"
        /\ UNCHANGED <<served, accepts, model, extra, sent>>
    BY <1>5 DEF Chat!Answered, Chat!Served, Chat!Post, Chat!endpoint, Chat!config
  <2>2. sent.model = model /\ sent.extra = extra
    BY <2>1 DEF ConfigInv
  <2>. QED
    BY <2>1, <2>2, Zenon DEF ConfigInv
<1>6. CASE Chat!Transient \/ Chat!TimesOut \/ Chat!OtherError
  <2>1. /\ UNCHANGED <<model, extra, sent, settled, served, accepts>>
        /\ request # "none" \/ request' = "none"
    BY <1>6 DEF Chat!Transient, Chat!TimesOut, Chat!OtherError, Chat!Post, Chat!Retry,
                Chat!Raise, Chat!endpoint, Chat!config
  <2>. QED
    BY <1>1, <2>1
<1>7. CASE Chat!BadRequest
  <2>1. CASE Chat!Raise
    BY <1>1, <2>1 DEF Chat!Raise, Chat!endpoint, Chat!config
  <2>2. CASE ~ Chat!Raise
    <3>1. /\ request = "first" /\ extra' = FALSE
          /\ sent' = [sent EXCEPT !.extra = FALSE]
          /\ UNCHANGED <<served, accepts, model, settled>>
      BY <1>7, <2>2 DEF Chat!BadRequest, Chat!endpoint
    <3>2. sent = [model |-> model, extra |-> extra]
      BY <3>1 DEF ConfigInv
    <3>3. sent' = [model |-> model, extra |-> FALSE]
      BY <3>1, <3>2
    <3>. QED
      BY <3>1, <3>3, Zenon DEF ConfigInv
  <2>. QED
    BY <2>1, <2>2
<1>8. CASE Chat!NotFound
  BY <1>1, <1>8 DEF Chat!NotFound, Chat!Post, Chat!Raise, Chat!endpoint, Chat!config
<1>9. ASSUME NEW m \in Models \cup {NoModel}, Chat!LookUp(m) PROVE ConfigInv'
  <2>1. CASE request' = "none" /\ UNCHANGED <<model, extra, sent>>
    BY <1>1, <1>9, <2>1 DEF Chat!LookUp, Chat!endpoint
  <2>2. CASE ~ (request' = "none" /\ UNCHANGED <<model, extra, sent>>)
    <3>1. /\ request = "lookup" /\ m = served /\ m # sent.model
          /\ model' = m /\ sent' = [model |-> m, extra |-> extra]
          /\ UNCHANGED <<extra, served, accepts, settled>>
      BY <1>9, <2>2 DEF Chat!LookUp, Chat!Adopt, Chat!endpoint, Chat!config
    <3>2. sent.model = model
      BY <3>1 DEF ConfigInv
    <3>3. ~settled
      BY <3>1, <3>2, Zenon DEF ConfigInv
    <3>. QED
      BY <3>1, <3>3, Zenon DEF ConfigInv
  <2>. QED
    BY <2>1, <2>2
<1>10. CASE UNCHANGED Chat!vars
  BY <1>10 DEF Chat!vars, Chat!endpoint, Chat!config, ConfigInv
<1>. QED
  BY <1>3, <1>4, <1>5, <1>6, <1>7, <1>8, <1>9, <1>10, Zenon DEF Chat!Next

(* HealsLast: after an answer the client asks for what the endpoint has,     *)
(* until that changes (llm.py:248-268), and no chat posts more than two      *)
(* rounds of retries, whether timeouts are retried or not.                  *)
THEOREM CorrectionsLast == Chat!Spec \/ ChatTimeouts!Spec => []HealsLast
<1>1. Chat!Init => PostsInv /\ ConfigInv
  BY Bounds DEF Chat!Init, PostsInv, ConfigInv
<1>2. PostsInv => posts <= 2 * (MaxRetries + 1)
  BY Bounds DEF PostsInv
<1>3. PostsInv /\ ConfigInv => HealsLast
  BY <1>2, Zenon DEF ConfigInv, HealsLast, Chat!HealsLast
<1>4. Chat!Spec => []HealsLast
  BY <1>1, <1>3, PostsStep, ConfigStep, PTL DEF Chat!Spec
<1>. QED
  BY <1>4, SameClient

-----------------------------------------------------------------------------
(* GateReplay.                                                              *)

(* Every indexed task has the outcome of one of its rows, and every task     *)
(* with rows is indexed.                                                    *)
Indexed(c) ==
  /\ rows[c] \in Seq(Gate!Rows)
  /\ DOMAIN index[c] \subseteq Tasks /\ IsFiniteSet(DOMAIN index[c])
  /\ index[c] \in [DOMAIN index[c] -> BOOLEAN]
  /\ \A t \in Tasks :
       /\ t \in DOMAIN index[c] <=> Gate!RowsOf(c, t) # {}
       /\ t \in DOMAIN index[c] =>
            \E i \in Gate!RowsOf(c, t) : rows[c][i].solved = index[c][t]

GateInv ==
  /\ DOMAIN index = Gate!Arms /\ DOMAIN rows = Gate!Arms
  /\ index = [c \in Gate!Arms |-> index[c]] /\ rows = [c \in Gate!Arms |-> rows[c]]
  /\ \A c \in Gate!Arms : Indexed(c)
  /\ verdict = "promoted" => Gate!Passes

LEMMA IndexStep ==
  ASSUME GateInv, NEW c \in Gate!Arms, NEW r \in Gate!Rows, Gate!Index(c, r)
  PROVE  GateInv'
<1>. DEFINE D == DOMAIN index[c]
            n == Len(rows[c]) + 1
            next == IF r.keyed /\ ~ (r.text /\ r.task \in D)
                    THEN [t \in D \cup {r.task} |->
                            IF t = r.task THEN r.solved ELSE index[c][t]]
                    ELSE index[c]
<1>0. /\ rows[c] \in Seq(Gate!Rows) /\ Len(rows[c]) \in Nat
      /\ D \in SUBSET Tasks /\ IsFiniteSet(D) /\ index[c] \in [D -> BOOLEAN]
      /\ \A t \in Tasks :
           /\ t \in D <=> Gate!RowsOf(c, t) # {}
           /\ t \in D => \E i \in Gate!RowsOf(c, t) : rows[c][i].solved = index[c][t]
  BY LenProperties DEF GateInv, Indexed
<1>1. /\ rows' = [rows EXCEPT ![c] = Append(rows[c], r)]
      /\ index' = [index EXCEPT ![c] = next]
      /\ verdict' = "none"
  BY Zenon DEF Gate!Index, GateInv
<1>2. /\ DOMAIN index' = Gate!Arms /\ DOMAIN rows' = Gate!Arms
      /\ index' = [d \in Gate!Arms |-> index'[d]] /\ rows' = [d \in Gate!Arms |-> rows'[d]]
      /\ index'[c] = next /\ rows'[c] = Append(rows[c], r)
      /\ \A d \in Gate!Arms \ {c} : index'[d] = index[d] /\ rows'[d] = rows[d]
  <2>. HIDE DEF next
  <2>. QED
    BY <1>1 DEF GateInv
<1>3. /\ rows'[c] \in Seq(Gate!Rows) /\ DOMAIN rows'[c] = 1..n
      /\ \A i \in 1..Len(rows[c]) : rows'[c][i] = rows[c][i]
      /\ rows'[c][n] = r
  BY <1>2, <1>0, AppendProperties, LenProperties
<1>4. DOMAIN rows[c] = 1..Len(rows[c])
  BY <1>0, LenProperties
<1>5. \A t \in Tasks :
        Gate!RowsOf(c, t)' = Gate!RowsOf(c, t) \cup (IF r.keyed /\ r.task = t THEN {n} ELSE {})
  <2>1. \A i : i \in 1..n <=> i \in 1..Len(rows[c]) \/ i = n
    BY <1>0
  <2>2. n \notin 1..Len(rows[c])
    BY <1>0
  <2>. HIDE DEF n
  <2>. QED
    BY <1>3, <1>4, <2>1, <2>2 DEF Gate!RowsOf
<1>6. \A t \in Tasks : \A i \in Gate!RowsOf(c, t) : rows'[c][i] = rows[c][i]
  <2>1. \A t \in Tasks : Gate!RowsOf(c, t) \subseteq DOMAIN rows[c]
    BY DEF Gate!RowsOf
  <2>. QED
    BY <2>1, <1>3, <1>4
<1>7. r.keyed => r.task \in Tasks /\ r.solved \in BOOLEAN
  <2>1. CASE r = [keyed |-> FALSE]
    BY <2>1
  <2>2. CASE r \in [keyed : {TRUE}, task : Tasks, text : BOOLEAN, solved : BOOLEAN]
    BY <2>2
  <2>. QED
    BY <2>1, <2>2 DEF Gate!Rows
<1>. HIDE DEF n
<1>8. /\ DOMAIN next \subseteq Tasks /\ next \in [DOMAIN next -> BOOLEAN]
      /\ DOMAIN next = D \/ DOMAIN next = D \cup {r.task}
      /\ \A t \in Tasks : t \in DOMAIN next <=> t \in D \/ (r.keyed /\ r.task = t)
      /\ \A t \in DOMAIN next :
           \/ t \in D /\ next[t] = index[c][t]
           \/ r.keyed /\ r.task = t /\ next[t] = r.solved
  BY <1>0, <1>7
<1>9. IsFiniteSet(DOMAIN next)
  <2>. HIDE DEF next
  <2>. QED
    BY <1>8, <1>0, FS_AddElement
<1>. HIDE DEF next
<1>10. Indexed(c)'
  <2>1. ASSUME NEW t \in Tasks
        PROVE  /\ t \in DOMAIN next <=> Gate!RowsOf(c, t)' # {}
               /\ t \in DOMAIN next =>
                    \E i \in Gate!RowsOf(c, t)' : rows'[c][i].solved = next[t]
    <3>1. t \in DOMAIN next <=> Gate!RowsOf(c, t)' # {}
      BY <1>0, <1>5, <1>8
    <3>2. CASE t \in DOMAIN next /\ t \in D /\ next[t] = index[c][t]
      <4>1. PICK i \in Gate!RowsOf(c, t) : rows[c][i].solved = index[c][t]
        BY <3>2, <1>0
      <4>2. i \in Gate!RowsOf(c, t)' /\ rows'[c][i] = rows[c][i]
        BY <1>5, <1>6
      <4>. QED
        BY <4>1, <4>2, <3>1, <3>2, Zenon
    <3>3. CASE r.keyed /\ r.task = t /\ next[t] = r.solved
      <4>1. n \in Gate!RowsOf(c, t)'
        BY <3>3, <1>5
      <4>. QED
        BY <4>1, <3>1, <3>3, <1>3, Zenon
    <3>. QED
      BY <3>1, <3>2, <3>3, <1>8
  <2>2. \A t \in Tasks :
          /\ t \in DOMAIN index'[c] <=> Gate!RowsOf(c, t)' # {}
          /\ t \in DOMAIN index'[c] =>
               \E i \in Gate!RowsOf(c, t)' : rows'[c][i].solved = index'[c][t]
    BY <2>1, <1>2, Zenon
  <2>3. /\ rows'[c] \in Seq(Gate!Rows)
        /\ DOMAIN index'[c] \subseteq Tasks /\ IsFiniteSet(DOMAIN index'[c])
        /\ index'[c] \in [DOMAIN index'[c] -> BOOLEAN]
    BY <1>2, <1>3, <1>8, <1>9, Zenon
  <2>. QED
    BY <2>2, <2>3, Zenon DEF Indexed
<1>11. ASSUME NEW d \in Gate!Arms \ {c} PROVE Indexed(d)'
  <2>1. rows'[d] = rows[d] /\ index'[d] = index[d] /\ Indexed(d)
    BY <1>2, <1>11 DEF GateInv
  <2>2. \A t \in Tasks : Gate!RowsOf(d, t)' = Gate!RowsOf(d, t)
    BY <2>1 DEF Gate!RowsOf
  <2>. QED
    BY <2>1, <2>2, Zenon DEF Indexed
<1>. QED
  BY <1>1, <1>2, <1>10, <1>11 DEF GateInv

LEMMA GateStep == GateInv /\ [Gate!Next]_(Gate!vars) => GateInv'
<1>. SUFFICES ASSUME GateInv, [Gate!Next]_(Gate!vars) PROVE GateInv'
  OBVIOUS
<1>1. CASE \E c \in Gate!Arms, r \in Gate!Rows : Gate!Index(c, r)
  BY <1>1, IndexStep
<1>2. ASSUME UNCHANGED <<rows, index>>, verdict' = "promoted" => Gate!Passes
      PROVE  GateInv'
  <2>1. ASSUME NEW c \in Gate!Arms PROVE Indexed(c)'
    <3>1. \A t \in Tasks : Gate!RowsOf(c, t)' = Gate!RowsOf(c, t)
      BY <1>2 DEF Gate!RowsOf
    <3>2. Indexed(c)
      BY DEF GateInv
    <3>. QED
      BY <1>2, <3>1, <3>2, Zenon DEF Indexed
  <2>2. Gate!Passes' <=> Gate!Passes
    BY <1>2 DEF Gate!Passes, Gate!Gains, Gate!Regressions, Gate!Joined
  <2>3. /\ DOMAIN index' = Gate!Arms /\ DOMAIN rows' = Gate!Arms
        /\ index' = [c \in Gate!Arms |-> index'[c]] /\ rows' = [c \in Gate!Arms |-> rows'[c]]
    BY <1>2, Zenon DEF GateInv
  <2>. QED
    BY <1>2, <2>1, <2>2, <2>3, Zenon DEF GateInv
<1>3. CASE Gate!Verdict
  BY <1>2, <1>3 DEF Gate!Verdict
<1>4. CASE UNCHANGED Gate!vars
  BY <1>2, <1>4 DEF Gate!vars, GateInv
<1>. QED
  BY <1>1, <1>3, <1>4 DEF Gate!Next

(* PromotedUnharmed: a promoted arm solved a recorded task the baseline      *)
(* failed and failed none that the baseline solved, wherever the rows of a   *)
(* task agree (gate_replay.py:49-69, 136-152), for any tasks and rows.       *)
THEOREM PromotionsAreUnharmed == Gate!Spec => []PromotedUnharmed
<1>1. Gate!Init => GateInv
  <2>. SUFFICES ASSUME Gate!Init PROVE GateInv
    OBVIOUS
  <2>1. \A c \in Gate!Arms : rows[c] = <<>> /\ index[c] = [t \in {} |-> FALSE]
    BY DEF Gate!Init
  <2>2. <<>> \in Seq(Gate!Rows) /\ DOMAIN <<>> = {} /\ IsFiniteSet({})
    BY EmptySeq, FS_EmptySet
  <2>3. \A c \in Gate!Arms : Indexed(c)
    BY <2>1, <2>2 DEF Indexed, Gate!RowsOf
  <2>. QED
    BY <2>3 DEF Gate!Init, GateInv
<1>2. GateInv => PromotedUnharmed
  <2>. SUFFICES ASSUME GateInv, verdict = "promoted"
                PROVE  /\ \A t \in Tasks : ~ (Gate!AllSolved("baseline", t) /\ Gate!AllFailed("arm", t))
                       /\ \E t \in Tasks :
                            /\ \E i \in Gate!RowsOf("arm", t) : rows["arm"][i].solved
                            /\ \E i \in Gate!RowsOf("baseline", t) : ~rows["baseline"][i].solved
    BY DEF PromotedUnharmed, Gate!PromotedUnharmed
  <2>1. Gate!Passes /\ Indexed("baseline") /\ Indexed("arm")
    BY DEF GateInv, Gate!Arms
  <2>2. /\ Gate!Regressions = {}
        /\ Cardinality(Gate!Gains) >= MinNet + Cardinality(Gate!Regressions)
    BY <2>1, SameCardinality DEF Gate!Passes
  <2>3. Gate!Gains # {}
    <3>1. Cardinality({}) = 0
      BY FS_EmptySet
    <3>. QED
      BY <2>2, <3>1, Bounds
  <2>4. PICK t \in Gate!Gains : TRUE
    BY <2>3
  <2>5. /\ t \in Tasks /\ t \in DOMAIN index["baseline"] /\ t \in DOMAIN index["arm"]
        /\ index["arm"][t] /\ ~index["baseline"][t]
    BY <2>1, <2>4 DEF Gate!Gains, Gate!Joined, Indexed
  <2>6. /\ \E i \in Gate!RowsOf("arm", t) : rows["arm"][i].solved
        /\ \E i \in Gate!RowsOf("baseline", t) : ~rows["baseline"][i].solved
    BY <2>1, <2>5 DEF Indexed
  <2>7. ASSUME NEW x \in Tasks, Gate!AllSolved("baseline", x), Gate!AllFailed("arm", x)
        PROVE  FALSE
    <3>1. /\ x \in DOMAIN index["baseline"] /\ x \in DOMAIN index["arm"]
          /\ index["baseline"][x] /\ ~index["arm"][x]
      BY <2>1, <2>7 DEF Indexed, Gate!AllSolved, Gate!AllFailed
    <3>. QED
      BY <3>1, <2>2 DEF Gate!Regressions, Gate!Joined
  <2>. QED
    BY <2>5, <2>6, <2>7
<1>. QED
  BY <1>1, <1>2, GateStep, PTL DEF Gate!Spec

-----------------------------------------------------------------------------
(* SharedFile: the queue and the registry differ in what they read and in    *)
(* who may release, not in how they write.                                  *)

TheFile == IF names.file = Nothing THEN {} ELSE content[names.file]
Same(S, e) == {x \in S : x.id = e.id}
Files(E) == (SUBSET E) \cup {Torn}
Calls(E) == [kind : {"add", "release"}, entry : E]

FileTyped(E) ==
  /\ names \in [{"file", "tmp"} -> Queue!Inodes \cup {Nothing}]
  /\ content \in [Queue!Inodes -> Files(E)]
  /\ step \in [Processes -> {"idle", "read", "open", "write", "rename", "create"}]
  /\ copy \in [Processes -> SUBSET E]
  /\ opened \in [Processes -> Queue!Inodes \cup {Nothing}]
  /\ change \in [Processes -> {Queue!NoChange} \cup Calls(E)]
  /\ told \subseteq E

\* The copy is the file with the change, and the change is one to make.
Prepared(p) ==
  /\ TheFile # Torn
  /\ IF change[p].kind = "add"
     THEN /\ Same(TheFile, change[p].entry) = {}
          /\ copy[p] = TheFile \cup {change[p].entry}
     ELSE copy[p] = TheFile \ Same(TheFile, change[p].entry)

Writer(E, p) ==
  /\ step[p] \in {"idle", "read", "open"} => opened[p] = Nothing
  /\ step[p] \in {"read", "open", "write", "rename"} => change[p] \in Calls(E)
  /\ step[p] \in {"open", "write", "rename"} => Prepared(p)
  /\ step[p] \in {"write", "rename"} => names.tmp # Nothing /\ opened[p] = names.tmp
  /\ step[p] = "rename" => content[names.tmp] = copy[p]
  /\ step[p] = "create" => names.file # Nothing /\ opened[p] = names.file /\ told = {}

FileSound ==
  /\ names.tmp # Nothing => names.tmp # names.file
  /\ (\A p \in Processes : step[p] # "create") => TheFile # Torn
  /\ TheFile # Torn => told \subseteq TheFile /\ \A d, e \in TheFile : d.id = e.id => d = e

Alone == \A p, q \in Processes : step[p] # "idle" /\ step[q] # "idle" => p = q

\* What holds while no two writers have overlapped and no creation was cut short.
SharedInv(E) ==
  /\ FileTyped(E)
  /\ Alone
  /\ \A p \in Processes : Writer(E, p)
  /\ FileSound

LEMMA InodesProperties ==
  /\ 0 \in Queue!Inodes /\ 1 \in Queue!Inodes
  /\ \A i \in Queue!Inodes : i # Nothing
<1>1. Cardinality(Processes) \in Nat
  BY ServicesAssumption, FS_CardinalityType
<1>2. Queue!Inodes = 0..Cardinality(Processes) + 1
  BY SameCardinality DEF Queue!Inodes
<1>3. Nothing \notin Int
  BY ServicesAssumption
<1>. QED
  BY <1>1, <1>2, <1>3

(* A step of p, with the others at rest, has only p and the file to answer for. *)
LEMMA OneWriter ==
  ASSUME NEW E, NEW p \in Processes, FileTyped(E)',
         \A q \in Processes : q # p => step'[q] = "idle" /\ opened'[q] = Nothing,
         Writer(E, p)', FileSound'
  PROVE  SharedInv(E)'
<1>1. Alone'
  BY DEF Alone
<1>2. ASSUME NEW q \in Processes, q # p PROVE Writer(E, q)'
  <2>1. step'[q] = "idle" /\ opened'[q] = Nothing
    BY <1>2
  <2>. QED
    BY <2>1 DEF Writer
<1>. QED
  BY <1>1, <1>2 DEF SharedInv

LEMMA OthersRest ==
  ASSUME NEW E, SharedInv(E), NEW p \in Processes, step[p] # "idle"
  PROVE  \A q \in Processes : q # p => step[q] = "idle" /\ opened[q] = Nothing
  BY DEF SharedInv, Alone, Writer

LEMMA CallStep ==
  ASSUME NEW E, SharedInv(E), NEW p \in Processes, NEW e \in E,
         NEW kind \in {"add", "release"},
         step[p] = "idle", Queue!Busy = {},
         step' = [step EXCEPT ![p] = "read"],
         change' = [change EXCEPT ![p] = [kind |-> kind, entry |-> e]],
         UNCHANGED <<names, content, copy, opened, told>>
  PROVE  SharedInv(E)'
<1>0. FileTyped(E) /\ Writer(E, p) /\ FileSound
  BY DEF SharedInv
<1>1. \A q \in Processes : q # p => step[q] = "idle" /\ opened[q] = Nothing
  BY DEF Queue!Busy, Queue!Resting, SharedInv, Writer
<1>2. FileTyped(E)'
  BY <1>0 DEF FileTyped, Calls, Files
<1>3. step'[p] = "read" /\ change'[p] \in Calls(E) /\ opened'[p] = Nothing
  BY <1>0 DEF FileTyped, Calls, Writer
<1>4. Writer(E, p)'
  BY <1>3 DEF Writer
<1>5. TheFile' = TheFile
  BY DEF TheFile
<1>6. FileSound'
  <2>1. \A q \in Processes : step[q] # "create"
    BY <1>1
  <2>. QED
    BY <2>1, <1>0, <1>5 DEF FileSound
<1>7. \A q \in Processes : q # p => step'[q] = "idle" /\ opened'[q] = Nothing
  BY <1>0, <1>1 DEF FileTyped
<1>. QED
  BY <1>2, <1>4, <1>6, <1>7, OneWriter

(* The end of a call: the process is at rest again.                         *)
LEMMA ReturnStep ==
  ASSUME NEW E, FileTyped(E), NEW p \in Processes, Queue!Return(p),
         \A q \in Processes : q # p => step[q] = "idle" /\ opened[q] = Nothing,
         names' \in [{"file", "tmp"} -> Queue!Inodes \cup {Nothing}],
         content' \in [Queue!Inodes -> Files(E)], told' \subseteq E,
         names'.tmp # Nothing => names'.tmp # names'.file,
         TheFile' # Torn, told' \subseteq TheFile',
         \A d, e \in TheFile' : d.id = e.id => d = e
  PROVE  SharedInv(E)'
<1>1. FileTyped(E)'
  BY DEF FileTyped, Queue!Return
<1>2. \A q \in Processes : step'[q] = "idle" /\ opened'[q] = Nothing
  BY DEF FileTyped, Queue!Return
<1>3. Writer(E, p)'
  BY <1>2 DEF Writer
<1>4. FileSound'
  BY DEF FileSound
<1>. QED
  BY <1>1, <1>2, <1>3, <1>4, OneWriter

(* A reader goes on to write, or returns what the file told it.              *)
GoesOn(p) ==
  /\ step' = [step EXCEPT ![p] = "open"]
  /\ copy' = [copy EXCEPT ![p] = IF change[p].kind = "add"
                                 THEN TheFile \cup {change[p].entry}
                                 ELSE TheFile \ Same(TheFile, change[p].entry)]
  /\ change[p].kind = "add" => Same(TheFile, change[p].entry) = {}
  /\ UNCHANGED <<opened, change, told>>

Answers(p) ==
  /\ Queue!Return(p)
  /\ told' = told \/ (change[p].entry \in TheFile /\ told' = told \cup {change[p].entry})

LEMMA ReadStep ==
  ASSUME NEW E, SharedInv(E), NEW p \in Processes, step[p] = "read",
         GoesOn(p) \/ Answers(p), UNCHANGED <<names, content>>
  PROVE  SharedInv(E)'
<1>0. FileTyped(E) /\ Writer(E, p) /\ FileSound
  BY DEF SharedInv
<1>1. \A q \in Processes : q # p => step[q] = "idle" /\ opened[q] = Nothing
  BY OthersRest
<1>2. TheFile # Torn /\ told \subseteq TheFile /\ \A d, e \in TheFile : d.id = e.id => d = e
  BY <1>0, <1>1 DEF FileSound
<1>3. TheFile' = TheFile
  BY DEF TheFile
<1>4. TheFile \subseteq E
  BY <1>0, <1>2 DEF TheFile, FileTyped, Files
<1>5. change[p] \in Calls(E) /\ change[p].entry \in E
  BY <1>0 DEF Writer, Calls
<1>6. CASE GoesOn(p)
  <2>1. copy' \in [Processes -> SUBSET E]
    <3>1. TheFile \cup {change[p].entry} \in SUBSET E
      BY <1>4, <1>5
    <3>2. TheFile \ Same(TheFile, change[p].entry) \in SUBSET E
      BY <1>4
    <3>. QED
      BY <1>0, <1>6, <3>1, <3>2 DEF GoesOn, FileTyped
  <2>2. FileTyped(E)'
    BY <1>0, <1>6, <2>1 DEF GoesOn, FileTyped
  <2>3. step'[p] = "open" /\ opened'[p] = Nothing /\ change'[p] = change[p]
    BY <1>0, <1>6 DEF GoesOn, FileTyped, Writer
  <2>4. copy'[p] = IF change[p].kind = "add" THEN TheFile \cup {change[p].entry}
                   ELSE TheFile \ Same(TheFile, change[p].entry)
    BY <1>0, <1>6 DEF GoesOn, FileTyped
  <2>5. Same(TheFile, change[p].entry)' = Same(TheFile, change[p].entry)
    BY <1>3, <2>3 DEF Same
  <2>6. Prepared(p)'
    BY <1>2, <1>3, <1>6, <2>3, <2>4, <2>5 DEF Prepared, GoesOn
  <2>7. Writer(E, p)'
    BY <1>5, <2>3, <2>6 DEF Writer
  <2>8. FileSound'
    BY <1>0, <1>2, <1>3, <1>6 DEF FileSound, GoesOn
  <2>9. \A q \in Processes : q # p => step'[q] = "idle" /\ opened'[q] = Nothing
    BY <1>0, <1>1, <1>6 DEF GoesOn, FileTyped
  <2>. QED
    BY <2>2, <2>7, <2>8, <2>9, OneWriter
<1>7. CASE Answers(p)
  <2>1. Queue!Return(p)
    BY <1>7 DEF Answers
  <2>2. told' \subseteq TheFile'
    BY <1>2, <1>3, <1>7 DEF Answers
  <2>3. told' \subseteq E
    BY <1>3, <1>4, <2>2
  <2>4. names' \in [{"file", "tmp"} -> Queue!Inodes \cup {Nothing}]
        /\ content' \in [Queue!Inodes -> Files(E)]
    BY <1>0 DEF FileTyped
  <2>5. names'.tmp # Nothing => names'.tmp # names'.file
    BY <1>0 DEF FileSound
  <2>. QED
    BY <1>0, <1>1, <1>2, <1>3, <2>1, <2>2, <2>3, <2>4, <2>5, ReturnStep
<1>. QED
  BY <1>6, <1>7

(* The inode that is opened is not the one the file has.                     *)
LEMMA FreeProperties ==
  ASSUME NEW E, FileTyped(E), \A q \in Processes : opened[q] = Nothing
  PROVE  /\ names.tmp = Nothing => /\ Queue!Free \in Queue!Inodes
                                   /\ Queue!Free # names.file
         /\ names.file = Nothing => /\ Queue!Free \in Queue!Inodes
                                    /\ Queue!Free # names.tmp
<1>1. ASSUME names.tmp = Nothing \/ names.file = Nothing
      PROVE  \E i \in Queue!Inodes :
               i \notin {names.file, names.tmp} \cup {opened[q] : q \in Processes}
  <2>1. CASE 0 \in {names.file, names.tmp}
    <3>1. 1 \notin {names.file, names.tmp}
      BY <1>1, <2>1, InodesProperties
    <3>. QED
      BY <3>1, InodesProperties
  <2>2. CASE 0 \notin {names.file, names.tmp}
    BY <2>2, InodesProperties
  <2>. QED
    BY <2>1, <2>2
<1>2. ASSUME names.tmp = Nothing \/ names.file = Nothing
      PROVE  Queue!Free \in Queue!Inodes /\ Queue!Free \notin {names.file, names.tmp}
  BY <1>1, <1>2 DEF Queue!Free
<1>. QED
  BY <1>2

LEMMA OpenStep ==
  ASSUME NEW E, SharedInv(E), NEW p \in Processes, Queue!Open(p)
  PROVE  SharedInv(E)'
<1>0. FileTyped(E) /\ Writer(E, p) /\ FileSound /\ step[p] = "open" /\ opened[p] = Nothing
  BY DEF SharedInv, Queue!Open, Writer
<1>1. \A q \in Processes : q # p => step[q] = "idle" /\ opened[q] = Nothing
  BY <1>0, OthersRest
<1>. DEFINE i == IF names.tmp = Nothing THEN Queue!Free ELSE names.tmp
<1>2. i \in Queue!Inodes /\ i # names.file /\ i # Nothing
  <2>1. \A q \in Processes : opened[q] = Nothing
    BY <1>0, <1>1
  <2>2. names.tmp \in Queue!Inodes \cup {Nothing}
    BY <1>0 DEF FileTyped
  <2>. QED
    BY <1>0, <2>1, <2>2, FreeProperties, InodesProperties DEF FileSound
<1>3. /\ names' = [names EXCEPT !.tmp = i]
      /\ content' = [content EXCEPT ![i] = Torn]
      /\ opened' = [opened EXCEPT ![p] = i]
      /\ step' = [step EXCEPT ![p] = "write"]
      /\ UNCHANGED <<copy, change, told>>
  BY DEF Queue!Open, Queue!OpenAs
<1>. HIDE DEF i
<1>4. names'.tmp = i /\ names'.file = names.file
  BY <1>0, <1>3 DEF FileTyped
<1>5. TheFile' = TheFile
  <2>1. names.file # Nothing => names.file \in Queue!Inodes
    BY <1>0 DEF FileTyped
  <2>. QED
    BY <1>0, <1>2, <1>3, <1>4, <2>1 DEF TheFile, FileTyped
<1>6. FileTyped(E)'
  <2>1. names' \in [{"file", "tmp"} -> Queue!Inodes \cup {Nothing}]
    BY <1>0, <1>2, <1>3 DEF FileTyped
  <2>2. content' \in [Queue!Inodes -> Files(E)]
    BY <1>0, <1>2, <1>3 DEF FileTyped, Files
  <2>3. opened' \in [Processes -> Queue!Inodes \cup {Nothing}]
    BY <1>0, <1>2, <1>3 DEF FileTyped
  <2>4. step' \in [Processes -> {"idle", "read", "open", "write", "rename", "create"}]
    BY <1>0, <1>3 DEF FileTyped
  <2>. QED
    BY <1>0, <1>3, <2>1, <2>2, <2>3, <2>4 DEF FileTyped
<1>7. step'[p] = "write" /\ opened'[p] = i /\ change'[p] = change[p] /\ copy'[p] = copy[p]
  BY <1>0, <1>3 DEF FileTyped
<1>8. Prepared(p)'
  <2>1. Prepared(p)
    BY <1>0 DEF Writer
  <2>2. Same(TheFile, change[p].entry)' = Same(TheFile, change[p].entry)
    BY <1>5, <1>7 DEF Same
  <2>. QED
    BY <1>5, <1>7, <2>1, <2>2 DEF Prepared
<1>9. Writer(E, p)'
  <2>1. change[p] \in Calls(E)
    BY <1>0 DEF Writer
  <2>. QED
    BY <1>2, <1>4, <1>7, <1>8, <2>1 DEF Writer
<1>10. FileSound'
  <2>1. TheFile # Torn
    BY <1>0 DEF Writer, Prepared
  <2>. QED
    BY <1>0, <1>2, <1>3, <1>4, <1>5, <2>1 DEF FileSound
<1>11. \A q \in Processes : q # p => step'[q] = "idle" /\ opened'[q] = Nothing
  BY <1>0, <1>1, <1>3 DEF FileTyped
<1>. QED
  BY <1>6, <1>9, <1>10, <1>11, OneWriter

LEMMA WriteStep ==
  ASSUME NEW E, SharedInv(E), NEW p \in Processes, Queue!Write(p)
  PROVE  SharedInv(E)'
<1>0. FileTyped(E) /\ Writer(E, p) /\ FileSound /\ step[p] = "write"
  BY DEF SharedInv, Queue!Write
<1>1. \A q \in Processes : q # p => step[q] = "idle" /\ opened[q] = Nothing
  BY <1>0, OthersRest
<1>2. names.tmp # Nothing /\ opened[p] = names.tmp /\ names.tmp # names.file
      /\ names.tmp \in Queue!Inodes
  BY <1>0 DEF Writer, FileSound, FileTyped
<1>3. /\ content' = [content EXCEPT ![names.tmp] = copy[p]]
      /\ step' = [step EXCEPT ![p] = "rename"]
      /\ UNCHANGED <<names, copy, opened, change, told>>
  <2>1. ~ \E q \in Processes \ {p} : opened[q] = opened[p]
    BY <1>1, <1>2
  <2>. QED
    BY <1>2, <2>1 DEF Queue!Write
<1>4. copy[p] \in SUBSET E /\ change[p] \in Calls(E)
  BY <1>0 DEF FileTyped, Writer
<1>5. TheFile' = TheFile
  <2>1. names.file # Nothing => names.file \in Queue!Inodes
    BY <1>0 DEF FileTyped
  <2>. QED
    BY <1>0, <1>2, <1>3, <2>1 DEF TheFile, FileTyped
<1>6. FileTyped(E)'
  <2>1. content' \in [Queue!Inodes -> Files(E)]
    BY <1>0, <1>2, <1>3, <1>4 DEF FileTyped, Files
  <2>2. step' \in [Processes -> {"idle", "read", "open", "write", "rename", "create"}]
    BY <1>0, <1>3 DEF FileTyped
  <2>. QED
    BY <1>0, <1>3, <2>1, <2>2 DEF FileTyped
<1>7. step'[p] = "rename" /\ content'[names.tmp] = copy[p]
  BY <1>0, <1>2, <1>3 DEF FileTyped
<1>8. Prepared(p)'
  <2>1. Prepared(p)
    BY <1>0 DEF Writer
  <2>2. Same(TheFile, change[p].entry)' = Same(TheFile, change[p].entry)
    BY <1>3, <1>5 DEF Same
  <2>. QED
    BY <1>3, <1>5, <2>1, <2>2 DEF Prepared
<1>9. Writer(E, p)'
  BY <1>2, <1>3, <1>4, <1>7, <1>8 DEF Writer
<1>10. FileSound'
  <2>1. TheFile # Torn
    BY <1>0 DEF Writer, Prepared
  <2>. QED
    BY <1>0, <1>3, <1>5, <2>1 DEF FileSound
<1>11. \A q \in Processes : q # p => step'[q] = "idle" /\ opened'[q] = Nothing
  BY <1>0, <1>1, <1>3 DEF FileTyped
<1>. QED
  BY <1>6, <1>9, <1>10, <1>11, OneWriter

LEMMA RenameStep ==
  ASSUME NEW E, Torn \notin SUBSET E, SharedInv(E), NEW p \in Processes, Queue!Rename(p)
  PROVE  SharedInv(E)'
<1>0. FileTyped(E) /\ Writer(E, p) /\ FileSound /\ step[p] = "rename" /\ Queue!Return(p)
  BY DEF SharedInv, Queue!Rename
<1>1. \A q \in Processes : q # p => step[q] = "idle" /\ opened[q] = Nothing
  BY <1>0, OthersRest
<1>. DEFINE e == change[p].entry
<1>2. /\ names.tmp \in Queue!Inodes /\ names.tmp # names.file /\ names.tmp # Nothing
      /\ content[names.tmp] = copy[p] /\ copy[p] \in SUBSET E
      /\ change[p] \in Calls(E) /\ e \in E /\ Prepared(p)
  BY <1>0 DEF Writer, FileSound, FileTyped, Calls
<1>3. /\ names' = [file |-> names.tmp, tmp |-> Nothing]
      /\ content' = [i \in Queue!Inodes |-> IF i = names.file THEN {} ELSE content[i]]
      /\ told' = IF change[p].kind = "add" THEN told \cup {e} ELSE told \ Same(told, e)
  BY <1>2 DEF Queue!Rename, Queue!SameId, Same
<1>. HIDE DEF e
<1>4. TheFile' = copy[p]
  BY <1>2, <1>3 DEF TheFile
<1>5. TheFile # Torn /\ told \subseteq TheFile /\ told \subseteq E
      /\ \A d, f \in TheFile : d.id = f.id => d = f
  BY <1>0, <1>2 DEF FileSound, FileTyped, Prepared
<1>6. copy[p] # Torn /\ told' \subseteq copy[p]
      /\ \A d, f \in copy[p] : d.id = f.id => d = f
  <2>1. copy[p] # Torn
    BY <1>2
  <2>2. CASE change[p].kind = "add"
    <3>1. copy[p] = TheFile \cup {e} /\ Same(TheFile, e) = {}
      BY <1>2, <2>2 DEF Prepared, e
    <3>2. \A x \in TheFile : x.id # e.id
      BY <3>1 DEF Same
    <3>. QED
      BY <1>3, <1>4, <1>5, <2>1, <2>2, <3>1, <3>2
  <2>3. CASE change[p].kind # "add"
    <3>1. copy[p] = TheFile \ Same(TheFile, e)
      BY <1>2, <2>3 DEF Prepared, e
    <3>2. told' = told \ Same(told, e)
      BY <1>3, <2>3
    <3>. QED
      BY <1>4, <1>5, <2>1, <3>1, <3>2 DEF Same
  <2>. QED
    BY <2>2, <2>3
<1>7. names' \in [{"file", "tmp"} -> Queue!Inodes \cup {Nothing}]
      /\ content' \in [Queue!Inodes -> Files(E)] /\ names'.tmp = Nothing
  BY <1>0, <1>2, <1>3 DEF FileTyped, Files
<1>8. told' \subseteq E
  BY <1>2, <1>6
<1>9. \A d, f \in TheFile' : d.id = f.id => d = f
  BY <1>4, <1>6
<1>. QED
  BY <1>0, <1>1, <1>4, <1>6, <1>7, <1>8, <1>9, ReturnStep

(* A creation starts on no file: nothing was acknowledged.                   *)
LEMMA CreateStep ==
  ASSUME NEW E, SharedInv(E), NEW p \in Processes, Queue!Create(p), Queue!Busy = {}
  PROVE  SharedInv(E)'
<1>0. FileTyped(E) /\ Writer(E, p) /\ FileSound /\ step[p] = "idle" /\ names.file = Nothing
  BY DEF SharedInv, Queue!Create, Queue!Resting, Queue!Exists
<1>1. \A q \in Processes : step[q] = "idle" /\ opened[q] = Nothing
  BY DEF Queue!Busy, Queue!Resting, SharedInv, Writer
<1>. DEFINE i == Queue!Free
<1>2. i \in Queue!Inodes /\ i # names.tmp /\ i # Nothing
  BY <1>0, <1>1, FreeProperties, InodesProperties
<1>3. /\ names' = [names EXCEPT !.file = i]
      /\ content' = [content EXCEPT ![i] = Torn]
      /\ opened' = [opened EXCEPT ![p] = i]
      /\ step' = [step EXCEPT ![p] = "create"]
      /\ UNCHANGED <<copy, change, told>>
  BY <1>0 DEF Queue!Create, Queue!OpenAs
<1>. HIDE DEF i
<1>4. told = {}
  <2>1. TheFile = {}
    BY <1>0 DEF TheFile
  <2>2. TheFile # Torn
    BY <1>0, <1>1 DEF FileSound
  <2>. QED
    BY <1>0, <2>1, <2>2 DEF FileSound
<1>5. names'.file = i /\ names'.tmp = names.tmp /\ step'[p] = "create" /\ opened'[p] = i
  BY <1>0, <1>3 DEF FileTyped
<1>6. FileTyped(E)'
  <2>1. names' \in [{"file", "tmp"} -> Queue!Inodes \cup {Nothing}]
    BY <1>0, <1>2, <1>3 DEF FileTyped
  <2>2. content' \in [Queue!Inodes -> Files(E)]
    BY <1>0, <1>2, <1>3 DEF FileTyped, Files
  <2>3. opened' \in [Processes -> Queue!Inodes \cup {Nothing}]
    BY <1>0, <1>2, <1>3 DEF FileTyped
  <2>4. step' \in [Processes -> {"idle", "read", "open", "write", "rename", "create"}]
    BY <1>0, <1>3 DEF FileTyped
  <2>. QED
    BY <1>0, <1>3, <2>1, <2>2, <2>3, <2>4 DEF FileTyped
<1>7. Writer(E, p)'
  BY <1>2, <1>3, <1>4, <1>5 DEF Writer
<1>8. TheFile' = Torn
  BY <1>0, <1>2, <1>3, <1>5 DEF TheFile, FileTyped
<1>9. FileSound'
  BY <1>2, <1>5, <1>8 DEF FileSound
<1>10. \A q \in Processes : q # p => step'[q] = "idle" /\ opened'[q] = Nothing
  BY <1>0, <1>1, <1>3 DEF FileTyped
<1>. QED
  BY <1>6, <1>7, <1>9, <1>10, OneWriter

LEMMA CreatedStep ==
  ASSUME NEW E, Torn \notin SUBSET E, SharedInv(E), NEW p \in Processes, Queue!Created(p)
  PROVE  SharedInv(E)'
<1>0. FileTyped(E) /\ Writer(E, p) /\ FileSound /\ step[p] = "create" /\ Queue!Return(p)
  BY DEF SharedInv, Queue!Created
<1>1. \A q \in Processes : q # p => step[q] = "idle" /\ opened[q] = Nothing
  BY <1>0, OthersRest
<1>2. names.file # Nothing /\ opened[p] = names.file /\ told = {}
      /\ names.file \in Queue!Inodes
  BY <1>0 DEF Writer, FileTyped
<1>3. content' = [content EXCEPT ![names.file] = {}] /\ UNCHANGED <<names, told>>
  BY <1>2 DEF Queue!Created
<1>4. TheFile' = {}
  BY <1>0, <1>2, <1>3 DEF TheFile, FileTyped
<1>5. {} # Torn
  OBVIOUS
<1>6. content' \in [Queue!Inodes -> Files(E)]
  BY <1>0, <1>2, <1>3 DEF FileTyped, Files
<1>7. names' \in [{"file", "tmp"} -> Queue!Inodes \cup {Nothing}] /\ told' \subseteq E
      /\ (names'.tmp # Nothing => names'.tmp # names'.file)
  BY <1>0, <1>2, <1>3 DEF FileTyped, FileSound
<1>. QED
  BY <1>0, <1>1, <1>2, <1>3, <1>4, <1>5, <1>6, <1>7, ReturnStep

(* A process that is killed leaves the file as it was, unless it was creating it. *)
LEMMA DieStep ==
  ASSUME NEW E, SharedInv(E), NEW p \in Processes, Queue!Die(p), step[p] # "create"
  PROVE  SharedInv(E)'
<1>0. FileTyped(E) /\ FileSound /\ step[p] # "idle" /\ Queue!Return(p)
      /\ UNCHANGED <<names, content, told>>
  BY DEF SharedInv, Queue!Die, Queue!Resting
<1>1. \A q \in Processes : q # p => step[q] = "idle" /\ opened[q] = Nothing
  BY <1>0, OthersRest
<1>2. TheFile' = TheFile
  BY <1>0 DEF TheFile
<1>3. TheFile # Torn
  BY <1>0, <1>1 DEF FileSound
<1>4. names' \in [{"file", "tmp"} -> Queue!Inodes \cup {Nothing}] /\ told' \subseteq E
      /\ content' \in [Queue!Inodes -> Files(E)]
  BY <1>0 DEF FileTyped
<1>5. /\ (names'.tmp # Nothing => names'.tmp # names'.file)
      /\ told' \subseteq TheFile' /\ \A d, e \in TheFile' : d.id = e.id => d = e
  BY <1>0, <1>2, <1>3 DEF FileSound
<1>. QED
  BY <1>0, <1>1, <1>2, <1>3, <1>4, <1>5, ReturnStep

LEMMA SharedStart ==
  ASSUME NEW E, Torn \notin SUBSET E, Queue!Init
  PROVE  SharedInv(E)
<1>1. \A p \in Processes : step[p] = "idle" /\ opened[p] = Nothing
  BY DEF Queue!Init
<1>2. names.file = Nothing /\ names.tmp = Nothing /\ told = {} /\ TheFile = {}
  BY DEF Queue!Init, TheFile
<1>3. FileTyped(E)
  BY DEF Queue!Init, FileTyped, Files, Queue!NoChange
<1>4. {} # Torn
  OBVIOUS
<1>. QED
  BY <1>1, <1>2, <1>3, <1>4 DEF SharedInv, Alone, Writer, FileSound

(* What the invariant says of the acknowledged entries.                      *)
LEMMA SharedIsKept ==
  ASSUME NEW E, clean => SharedInv(E)
  PROVE  Queue!NothingLost
<1>1. SUFFICES ASSUME clean, SharedInv(E)
               PROVE  /\ names.file # Nothing /\ (\A p \in Processes : step[p] # "create")
                           => Queue!File # Torn
                      /\ Queue!File # Torn => told \subseteq Queue!File
                      /\ \A d, e \in told : d.id = e.id => d = e
  BY DEF Queue!NothingLost
<1>2. Queue!File = TheFile
  BY DEF Queue!File, Queue!Exists, TheFile
<1>3. FileSound /\ \A p \in Processes : Writer(E, p)
  BY <1>1 DEF SharedInv
<1>4. TheFile = Torn => told = {}
  BY <1>3 DEF FileSound, Writer
<1>. QED
  BY <1>2, <1>3, <1>4 DEF FileSound

LEMMA QueueStep ==
  ASSUME clean => SharedInv(QueueEntries), Queue!Next
  PROVE  (clean => SharedInv(QueueEntries))'
<1>. DEFINE E == QueueEntries
<1>0. Torn \notin SUBSET E
  BY ServicesAssumption
<1>1. SUFFICES ASSUME clean' PROVE SharedInv(E)'
  OBVIOUS
<1>2. PICK p \in Processes :
        \/ \E kind \in {"add", "release"}, e \in E : Queue!Call(p, kind, e)
        \/ Queue!Read(p) \/ Queue!ReadFails(p) \/ Queue!Open(p) \/ Queue!Write(p) \/ Queue!Rename(p)
        \/ Queue!Create(p) \/ Queue!Created(p) \/ Queue!Die(p)
  BY DEF Queue!Next
<1>. HIDE DEF E
<1>3. ASSUME NEW kind \in {"add", "release"}, NEW e \in E, Queue!Call(p, kind, e)
      PROVE  SharedInv(E)'
  <2>1. clean /\ Queue!Busy = {}
    BY <1>1, <1>3 DEF Queue!Call
  <2>2. SharedInv(E)
    BY <2>1 DEF E
  <2>. QED
    BY <1>3, <2>1, <2>2, CallStep DEF Queue!Call, Queue!Resting
<1>4. CASE Queue!Read(p)
  <2>1. clean /\ step[p] = "read" /\ UNCHANGED <<names, content>>
    BY <1>1, <1>4 DEF Queue!Read
  <2>2. SharedInv(E)
    BY <2>1 DEF E
  <2>3. TheFile # Torn
    BY <2>1, <2>2, OthersRest DEF SharedInv, FileSound
  <2>4. Queue!Decide(p, TheFile)
    <3>1. Queue!File = TheFile
      BY DEF Queue!File, Queue!Exists, TheFile
    <3>. QED
      BY <1>4, <2>3, <3>1 DEF Queue!Read
  <2>5. GoesOn(p) \/ Answers(p)
    BY <2>4 DEF Queue!Decide, Queue!SameId, Same, GoesOn, Answers
  <2>. QED
    BY <2>1, <2>2, <2>5, ReadStep
<1>5. CASE Queue!Open(p)
  <2>1. SharedInv(E)
    BY <1>1, <1>5 DEF Queue!Open, E
  <2>. QED
    BY <1>5, <2>1, OpenStep
<1>6. CASE Queue!Write(p)
  <2>1. SharedInv(E)
    BY <1>1, <1>6 DEF Queue!Write, E
  <2>. QED
    BY <1>6, <2>1, WriteStep
<1>7. CASE Queue!Rename(p)
  <2>1. SharedInv(E)
    BY <1>1, <1>7 DEF Queue!Rename, E
  <2>. QED
    BY <1>0, <1>7, <2>1, RenameStep
<1>8. CASE Queue!Create(p)
  <2>1. clean /\ Queue!Busy = {}
    BY <1>1, <1>8 DEF Queue!Create
  <2>2. SharedInv(E)
    BY <2>1 DEF E
  <2>. QED
    BY <1>8, <2>1, <2>2, CreateStep
<1>9. CASE Queue!Created(p)
  <2>1. SharedInv(E)
    BY <1>1, <1>9 DEF Queue!Created, E
  <2>. QED
    BY <1>0, <1>9, <2>1, CreatedStep
<1>10. CASE Queue!Die(p)
  <2>1. clean /\ step[p] # "create"
    BY <1>1, <1>10 DEF Queue!Die
  <2>2. SharedInv(E)
    BY <2>1 DEF E
  <2>. QED
    BY <1>10, <2>1, <2>2, DieStep
<1>11. CASE Queue!ReadFails(p)
  <2>1. /\ Queue!Return(p) /\ UNCHANGED <<told, clean, names, content>>
        /\ step[p] = "read"
    BY <1>11 DEF Queue!ReadFails
  <2>2. SharedInv(E)
    BY <1>1, <2>1 DEF E
  <2>3. Answers(p)
    BY <2>1 DEF Answers
  <2>. QED
    BY <2>1, <2>2, <2>3, ReadStep
<1>. QED
  BY <1>2, <1>3, <1>4, <1>5, <1>6, <1>7, <1>8, <1>9, <1>10, <1>11 DEF E

(* The registry writes as the queue does.                                    *)
LEMMA OneWayToWrite ==
  ASSUME NEW p \in Processes
  PROVE  /\ Registry!Open(p) => Queue!Open(p)
         /\ Registry!Write(p) => Queue!Write(p)
         /\ Registry!Rename(p) => Queue!Rename(p)
         /\ Registry!Created(p) => Queue!Created(p)
         /\ Registry!Die(p) => Queue!Die(p)
         /\ Registry!Return(p) => Queue!Return(p)
<1>0. Registry!Inodes = Queue!Inodes
  BY SameCardinality DEF Registry!Inodes, Queue!Inodes
<1>1. Registry!Return(p) => Queue!Return(p)
  BY DEF Registry!Return, Queue!Return, Registry!NoChange, Queue!NoChange
<1>2. Registry!Free = Queue!Free
  BY <1>0 DEF Registry!Free, Queue!Free
<1>3. Registry!OpenAs(p, "tmp") => Queue!OpenAs(p, "tmp")
  BY <1>2 DEF Registry!OpenAs, Queue!OpenAs
<1>4. Registry!Open(p) => Queue!Open(p)
  BY <1>3 DEF Registry!Open, Queue!Open
<1>5. Registry!Write(p) => Queue!Write(p)
  BY DEF Registry!Write, Queue!Write
<1>6. Registry!Rename(p) => Queue!Rename(p)
  BY <1>0, <1>1 DEF Registry!Rename, Queue!Rename, Registry!SameId, Queue!SameId
<1>7. Registry!Created(p) => Queue!Created(p)
  BY <1>1 DEF Registry!Created, Queue!Created
<1>8. Registry!Die(p) => Queue!Die(p)
  BY <1>1 DEF Registry!Die, Queue!Die, Registry!Resting, Queue!Resting
<1>. QED
  BY <1>1, <1>4, <1>5, <1>6, <1>7, <1>8

LEMMA OneBeginning == Registry!Busy = Queue!Busy /\ (Registry!Init => Queue!Init)
<1>1. Registry!Inodes = Queue!Inodes
  BY SameCardinality DEF Registry!Inodes, Queue!Inodes
<1>2. Registry!Busy = Queue!Busy
  BY DEF Registry!Busy, Queue!Busy, Registry!Resting, Queue!Resting
<1>3. Registry!Init => Queue!Init
  BY <1>1 DEF Registry!Init, Queue!Init, Registry!NoChange, Queue!NoChange
<1>. QED
  BY <1>2, <1>3

LEMMA RegistryStep ==
  ASSUME clean => SharedInv(RegistryEntries), Registry!Next
  PROVE  (clean => SharedInv(RegistryEntries))'
<1>. DEFINE E == RegistryEntries
<1>0. Torn \notin SUBSET E
  BY ServicesAssumption
<1>1. SUFFICES ASSUME clean' PROVE SharedInv(E)'
  OBVIOUS
<1>2. PICK p \in Processes :
        \/ \E kind \in {"add", "release"}, e \in E : Registry!Call(p, kind, e)
        \/ Registry!Read(p) \/ Registry!ReadFails(p) \/ Registry!Open(p) \/ Registry!Write(p) \/ Registry!Rename(p)
        \/ Registry!Create(p) \/ Registry!Created(p) \/ Registry!Die(p)
  BY DEF Registry!Next
<1>. HIDE DEF E
<1>3. ASSUME NEW kind \in {"add", "release"}, NEW e \in E, Registry!Call(p, kind, e)
      PROVE  SharedInv(E)'
  <2>1. clean /\ Queue!Busy = {}
    BY <1>1, <1>3, OneBeginning DEF Registry!Call
  <2>2. SharedInv(E)
    BY <2>1 DEF E
  <2>. QED
    BY <1>3, <2>1, <2>2, CallStep DEF Registry!Call, Registry!Resting
<1>4. CASE Registry!Read(p)
  <2>1. clean /\ step[p] = "read" /\ UNCHANGED <<names, content>>
    BY <1>1, <1>4 DEF Registry!Read
  <2>2. SharedInv(E)
    BY <2>1 DEF E
  <2>3. TheFile # Torn
    BY <2>1, <2>2, OthersRest DEF SharedInv, FileSound
  <2>4. Registry!Decide(p, TheFile)
    <3>1. Registry!File = TheFile
      BY DEF Registry!File, Registry!Exists, TheFile
    <3>. QED
      BY <1>4, <2>3, <3>1 DEF Registry!Read
  <2>5. GoesOn(p) \/ Answers(p)
    BY <2>4, OneWayToWrite DEF Registry!Decide, Registry!SameId, Same, GoesOn, Answers
  <2>. QED
    BY <2>1, <2>2, <2>5, ReadStep
<1>5. CASE Registry!Open(p)
  <2>1. SharedInv(E)
    BY <1>1, <1>5 DEF Registry!Open, E
  <2>. QED
    BY <1>5, <2>1, OneWayToWrite, OpenStep
<1>6. CASE Registry!Write(p)
  <2>1. SharedInv(E)
    BY <1>1, <1>6 DEF Registry!Write, E
  <2>. QED
    BY <1>6, <2>1, OneWayToWrite, WriteStep
<1>7. CASE Registry!Rename(p)
  <2>1. SharedInv(E)
    BY <1>1, <1>7 DEF Registry!Rename, E
  <2>. QED
    BY <1>0, <1>7, <2>1, OneWayToWrite, RenameStep
<1>8. ~ Registry!Create(p)
  BY DEF Registry!Create
<1>9. CASE Registry!Created(p)
  <2>1. SharedInv(E)
    BY <1>1, <1>9 DEF Registry!Created, E
  <2>. QED
    BY <1>0, <1>9, <2>1, OneWayToWrite, CreatedStep
<1>10. CASE Registry!Die(p)
  <2>1. clean /\ step[p] # "create"
    BY <1>1, <1>10 DEF Registry!Die
  <2>2. SharedInv(E)
    BY <2>1 DEF E
  <2>. QED
    BY <1>10, <2>1, <2>2, OneWayToWrite, DieStep
<1>11. ~ Registry!ReadFails(p)
  BY <1>1 DEF Registry!ReadFails
<1>. QED
  BY <1>2, <1>3, <1>4, <1>5, <1>6, <1>7, <1>8, <1>9, <1>10, <1>11 DEF E

LEMMA SharedRests ==
  ASSUME NEW E, SharedInv(E), UNCHANGED <<names, content, step, copy, opened, change, told>>
  PROVE  SharedInv(E)'
<1>1. TheFile' = TheFile
  BY DEF TheFile
<1>2. FileTyped(E)'
  BY DEF SharedInv, FileTyped
<1>3. Alone'
  BY DEF SharedInv, Alone
<1>4. FileSound'
  BY <1>1 DEF SharedInv, FileSound
<1>5. ASSUME NEW p \in Processes PROVE Writer(E, p)'
  <2>1. Prepared(p)' <=> Prepared(p)
    BY <1>1 DEF Prepared, Same
  <2>. QED
    BY <2>1 DEF SharedInv, Writer
<1>. QED
  BY <1>2, <1>3, <1>4, <1>5 DEF SharedInv

(* Two processes rewrite the queue of tasks, or the registry of reservations, *)
(* without a lock: as long as they do not overlap, no creation is cut short  *)
(* and the registry is not taken for empty, the file is whole, what was acknowledged is in it, and no id was    *)
(* granted twice (loop.py:107-142, holdout.py:44-93).                        *)
THEOREM NothingIsLost == Queue!Spec \/ Registry!Spec => []NothingLost
<1>1. Queue!Spec => []NothingLost
  <2>. DEFINE Inv == clean => SharedInv(QueueEntries)
  <2>1. Queue!Init => Inv
    BY SharedStart, ServicesAssumption
  <2>2. Inv /\ [Queue!Next]_Queue!vars => Inv'
    BY QueueStep, SharedRests DEF Queue!vars
  <2>3. Inv => NothingLost
    BY SharedIsKept DEF NothingLost
  <2>. QED
    BY <2>1, <2>2, <2>3, PTL DEF Queue!Spec
<1>2. Registry!Spec => []NothingLost
  <2>. DEFINE Inv == clean => SharedInv(RegistryEntries)
  <2>1. Registry!Init => Inv
    BY SharedStart, OneBeginning, ServicesAssumption
  <2>2. Inv /\ [Registry!Next]_Registry!vars => Inv'
    BY RegistryStep, SharedRests DEF Registry!vars
  <2>3. Inv => NothingLost
    BY SharedIsKept DEF NothingLost
  <2>. QED
    BY <2>1, <2>2, <2>3, PTL DEF Registry!Spec
<1>. QED
  BY <1>1, <1>2

-----------------------------------------------------------------------------
(* SandboxCache.                                                            *)

Item == [key : Keys, age : Nat, out : Outcomes]

\* What a table may hold beside these histories: each program once, with what its
\* last run put out, and after it only what was used later.
Good(q, last, since) ==
  /\ q \in Seq(Item)
  /\ \A i, j \in 1..Len(q) : q[i].key = q[j].key => i = j
  /\ \A i, j \in 1..Len(q) : i < j => q[j].key \in since[q[i].key]
  /\ \A i \in 1..Len(q) : last[q[i].key] = [out |-> q[i].out, age |-> q[i].age]

CacheInv ==
  /\ Good(entries, latest, later) /\ Len(entries) <= MaxEntries
  /\ running \in Keys \cup {Nothing}
  /\ running # Nothing => ~ Cache!Cached(running)
  /\ DOMAIN latest = Keys /\ latest = [k \in Keys |-> latest[k]]
  /\ later \in [Keys -> SUBSET Keys] /\ \A k \in Keys : IsFiniteSet(later[k])

LEMMA CacheBounds == MaxEntries \in Nat \ {0} /\ TTL \in Nat /\ Nothing \notin Keys
                     /\ Nothing \notin [out : Outcomes, age : Nat]
  BY ServicesAssumption

LEMMA ItemProperties ==
  ASSUME NEW last, NEW since, NEW q, Good(q, last, since)
  PROVE  /\ Len(q) \in Nat /\ DOMAIN q = 1..Len(q)
         /\ \A i \in 1..Len(q) : /\ q[i] \in Item /\ q[i].key \in Keys
                                 /\ q[i].out \in Outcomes /\ q[i].age \in Nat
<1>1. q \in Seq(Item)
  BY DEF Good
<1>2. Len(q) \in Nat /\ DOMAIN q = 1..Len(q) /\ \A i \in 1..Len(q) : q[i] \in Item
  BY <1>1, LenProperties, ElementOfSeq
<1>. QED
  BY <1>2 DEF Item

LEMMA DropProperties ==
  ASSUME NEW k, CacheInv
  PROVE  /\ Good(Cache!Drop(k), latest, later)
         /\ \A i \in 1..Len(Cache!Drop(k)) : Cache!Drop(k)[i].key # k
         /\ \A i \in 1..Len(entries) : entries[i].key # k =>
              \E j \in 1..Len(Cache!Drop(k)) : Cache!Drop(k)[j] = entries[i]
         /\ Len(Cache!Drop(k)) <= Len(entries)
         /\ Cache!Cached(k) => Len(Cache!Drop(k)) < Len(entries)
<1>. DEFINE o == Cache!Drop(k)
<1>0. Good(entries, latest, later)
  BY DEF CacheInv
<1>1. Len(entries) \in Nat
  BY <1>0, ItemProperties
<1>2. CASE ~ Cache!Cached(k)
  <2>1. o = entries /\ \A i \in 1..Len(entries) : entries[i].key # k
    BY <1>2 DEF Cache!Drop, Cache!Cached
  <2>2. Good(o, latest, later)
    BY <1>0, <2>1
  <2>3. \A i \in 1..Len(o) : o[i].key # k
    BY <2>1
  <2>4. \A i \in 1..Len(entries) : \E j \in 1..Len(o) : o[j] = entries[i]
    BY <2>1
  <2>5. Len(o) <= Len(entries)
    BY <1>1, <2>1
  <2>. QED
    BY <1>2, <2>2, <2>3, <2>4, <2>5
<1>3. CASE Cache!Cached(k)
  <2>. DEFINE p == Cache!Place(k)
  <2>1. p \in 1..Len(entries) /\ entries[p].key = k
    BY <1>3 DEF Cache!Cached, Cache!Place
  <2>2. o = SubSeq(entries, 1, p - 1) \o SubSeq(entries, p + 1, Len(entries))
    BY <1>3 DEF Cache!Drop, Cache!RemoveAt
  <2>. HIDE DEF o, p
  <2>3. /\ o \in Seq(Item) /\ Len(o) = Len(entries) - 1
        /\ \A i \in 1..Len(o) : IF i < p THEN i \in 1..Len(entries) /\ o[i] = entries[i]
                                ELSE i + 1 \in 1..Len(entries) /\ o[i] = entries[i + 1]
    BY <1>0, <2>1, <2>2, WithoutOne DEF Good
  <2>. DEFINE at(i) == IF i < p THEN i ELSE i + 1
  <2>4. \A i \in 1..Len(o) : at(i) \in 1..Len(entries) /\ at(i) # p /\ o[i] = entries[at(i)]
    BY <1>1, <2>1, <2>3
  <2>5. \A i, j \in 1..Len(o) : (at(i) = at(j) => i = j) /\ (i < j => at(i) < at(j))
    BY <1>1, <2>1, <2>3
  <2>6. \A i \in 1..Len(entries) : i # p => \E j \in 1..Len(o) : at(j) = i
    <3>. TAKE i \in 1..Len(entries)
    <3>1. CASE i < p
      <4>1. i \in 1..Len(o) /\ at(i) = i
        BY <3>1, <1>1, <2>1, <2>3
      <4>. QED
        BY <4>1
    <3>2. CASE i > p
      <4>1. i - 1 \in 1..Len(o) /\ at(i - 1) = i
        BY <3>2, <1>1, <2>1, <2>3
      <4>. QED
        BY <4>1
    <3>. QED
      BY <3>1, <3>2, <1>1, <2>1
  <2>. HIDE DEF at
  <2>7. \A i \in 1..Len(o) : o[i].key # k
    BY <1>0, <2>1, <2>4 DEF Good
  <2>8. \A i \in 1..Len(entries) : entries[i].key # k =>
          \E j \in 1..Len(o) : o[j] = entries[i]
    BY <2>1, <2>4, <2>6
  <2>9. Good(o, latest, later)
    <3>1. \A i, j \in 1..Len(o) : o[i].key = o[j].key => i = j
      BY <1>0, <2>4, <2>5 DEF Good
    <3>2. \A i, j \in 1..Len(o) : i < j => o[j].key \in later[o[i].key]
      BY <1>0, <2>4, <2>5 DEF Good
    <3>3. \A i \in 1..Len(o) : latest[o[i].key] = [out |-> o[i].out, age |-> o[i].age]
      BY <1>0, <2>4 DEF Good
    <3>. QED
      BY <2>3, <3>1, <3>2, <3>3 DEF Good
  <2>10. Len(o) <= Len(entries) /\ Len(o) < Len(entries)
    BY <1>1, <2>3
  <2>. QED
    BY <2>7, <2>8, <2>9, <2>10 DEF o
<1>. QED
  BY <1>2, <1>3

(* A program that is used goes to the end, after all the others.             *)
LEMMA UseProperties ==
  ASSUME NEW q, NEW last, NEW since, Good(q, last, since),
         NEW x \in Item, \A i \in 1..Len(q) : q[i].key # x.key,
         NEW last2, last2[x.key] = [out |-> x.out, age |-> x.age],
         \A k \in Keys : k # x.key => last2[k] = last[k],
         NEW since2,
         since2 = [j \in Keys |-> IF j = x.key THEN {} ELSE since[j] \cup {x.key}]
  PROVE  Good(Append(q, x), last2, since2)
<1>. DEFINE a == Append(q, x)
<1>1. /\ Len(q) \in Nat /\ q \in Seq(Item)
      /\ \A i \in 1..Len(q) : q[i].key \in Keys
  BY ItemProperties DEF Good
<1>2. /\ a \in Seq(Item) /\ Len(a) = Len(q) + 1
      /\ \A i \in 1..Len(q) : a[i] = q[i]
      /\ a[Len(q) + 1] = x
  BY <1>1, AppendProperties
<1>3. \A i \in 1..Len(a) : i \in 1..Len(q) \/ i = Len(q) + 1
  BY <1>1, <1>2
<1>. HIDE DEF a
<1>4. \A i, j \in 1..Len(a) : a[i].key = a[j].key => i = j
  BY <1>2, <1>3 DEF Good
<1>5. ASSUME NEW i \in 1..Len(a), NEW j \in 1..Len(a), i < j
      PROVE  a[j].key \in since2[a[i].key]
  <2>1. i \in 1..Len(q)
    BY <1>1, <1>2, <1>3, <1>5
  <2>2. a[i].key \in Keys /\ a[i].key # x.key
    BY <2>1, <1>1, <1>2
  <2>3. since2[a[i].key] = since[a[i].key] \cup {x.key}
    BY <2>2
  <2>4. CASE j \in 1..Len(q)
    BY <1>2, <1>5, <2>1, <2>3, <2>4 DEF Good
  <2>5. CASE j = Len(q) + 1
    BY <1>2, <2>3, <2>5
  <2>. QED
    BY <1>3, <2>4, <2>5
<1>6. \A i \in 1..Len(a) : last2[a[i].key] = [out |-> a[i].out, age |-> a[i].age]
  <2>1. \A i \in 1..Len(q) : last2[q[i].key] = last[q[i].key]
    BY <1>1
  <2>. QED
    BY <1>2, <1>3, <2>1 DEF Good
<1>. QED
  BY <1>2, <1>4, <1>5, <1>6 DEF Good, a

LEMMA EvictProperties ==
  ASSUME NEW q, NEW last, NEW since, Good(q, last, since), Len(q) <= MaxEntries + 1
  PROVE  /\ Good(Cache!Evict(q), last, since)
         /\ Len(Cache!Evict(q)) <= MaxEntries
         /\ \A i \in 1..Len(q) : (i = 1 /\ Len(q) = MaxEntries + 1)
                                 \/ \E j \in 1..Len(Cache!Evict(q)) : Cache!Evict(q)[j] = q[i]
         /\ \A i \in 1..Len(Cache!Evict(q)) : \E j \in 1..Len(q) : Cache!Evict(q)[i] = q[j]
<1>0. Len(q) \in Nat /\ q \in Seq(Item) /\ MaxEntries \in Nat
  BY ItemProperties, CacheBounds DEF Good
<1>1. CASE Len(q) <= MaxEntries
  <2>1. Cache!Evict(q) = q
    BY <1>0, <1>1 DEF Cache!Evict
  <2>. QED
    BY <1>1, <2>1
<1>2. CASE Len(q) > MaxEntries
  <2>. DEFINE t == Tail(q)
  <2>1. Cache!Evict(q) = t /\ Len(q) = MaxEntries + 1
    BY <1>0, <1>2 DEF Cache!Evict
  <2>2. /\ t \in Seq(Item) /\ Len(t) = Len(q) - 1
        /\ \A i \in 1..Len(t) : t[i] = q[i + 1] /\ i + 1 \in 1..Len(q)
    <3>1. q # <<>>
      BY <1>0, <2>1, EmptySeq
    <3>2. /\ t \in Seq(Item) /\ Len(t) = Len(q) - 1
          /\ \A i \in 1..Len(t) : t[i] = q[i + 1]
      BY <1>0, <3>1, HeadTailProperties
    <3>. QED
      BY <1>0, <3>2
  <2>. HIDE DEF t
  <2>3. \A i, j \in 1..Len(t) : t[i].key = t[j].key => i = j
    <3>1. \A i, j \in 1..Len(t) : t[i].key = t[j].key => i + 1 = j + 1
      BY <2>2 DEF Good
    <3>. QED
      BY <3>1
  <2>4. \A i, j \in 1..Len(t) : i < j => t[j].key \in since[t[i].key]
    <3>1. \A i, j \in 1..Len(t) : i < j => i + 1 < j + 1
      OBVIOUS
    <3>. QED
      BY <2>2, <3>1 DEF Good
  <2>5. \A i \in 1..Len(t) : last[t[i].key] = [out |-> t[i].out, age |-> t[i].age]
    BY <2>2 DEF Good
  <2>6. \A i \in 1..Len(q) : i = 1 \/ \E j \in 1..Len(t) : t[j] = q[i]
    <3>. TAKE i \in 1..Len(q)
    <3>1. i # 1 => i - 1 \in 1..Len(t) /\ i - 1 + 1 = i
      BY <1>0, <2>2
    <3>2. i # 1 => t[i - 1] = q[i]
      BY <2>2, <3>1
    <3>. QED
      BY <3>1, <3>2
  <2>7. Good(t, last, since) /\ Len(t) <= MaxEntries
    BY <1>0, <2>1, <2>2, <2>3, <2>4, <2>5 DEF Good
  <2>. QED
    BY <2>1, <2>2, <2>6, <2>7
<1>. QED
  BY <1>0, <1>1, <1>2

\* What CacheKeepsRecent says of a step.
ReturnsRecent ==
  returned' # Nothing =>
    /\ returned'.out = latest'[returned'.key].out
    /\ TTL > 0 => latest'[returned'.key].age <= TTL

Stays(i) == \E j \in 1..Len(entries') : entries'[j].key = entries[i].key

GivesUpOld ==
  \A i \in 1..Len(entries) :
    \/ Stays(i)
    \/ TTL > 0 /\ entries[i].age > TTL
    \/ Cardinality(later'[entries[i].key]) >= MaxEntries

LEMMA UseFinite ==
  ASSUME NEW k \in Keys, CacheInv, Cache!Use(k)
  PROVE  later' \in [Keys -> SUBSET Keys] /\ \A j \in Keys : IsFiniteSet(later'[j])
<1>1. later' = [j \in Keys |-> IF j = k THEN {} ELSE later[j] \cup {k}]
  BY DEF Cache!Use
<1>2. \A j \in Keys : later[j] \in SUBSET Keys /\ IsFiniteSet(later[j])
  BY DEF CacheInv
<1>3. IsFiniteSet({}) /\ \A j \in Keys : IsFiniteSet(later[j] \cup {k})
  BY <1>2, FS_EmptySet, FS_AddElement
<1>. QED
  BY <1>1, <1>2, <1>3

LEMMA HitStep ==
  ASSUME CacheInv, NEW k \in Keys, Cache!Hit(k)
  PROVE  CacheInv' /\ ReturnsRecent /\ GivesUpOld
<1>. DEFINE p == Cache!Place(k)
            e == entries[p]
            o == Cache!Drop(k)
<1>0. Good(entries, latest, later) /\ running = Nothing /\ Cache!Cached(k) /\ Cache!Use(k)
  BY DEF CacheInv, Cache!Hit
<1>1. p \in 1..Len(entries) /\ e.key = k /\ e \in Item
  BY <1>0, ItemProperties DEF Cache!Cached, Cache!Place
<1>2. /\ entries' = Append(o, e) /\ returned' = [key |-> k, out |-> e.out]
      /\ running' = running /\ latest' = latest /\ ~ Cache!Expired(e)
  BY DEF Cache!Hit, Cache!Touch, Cache!Entry
<1>3. latest[k] = [out |-> e.out, age |-> e.age] /\ e.age \in Nat
  BY <1>0, <1>1 DEF Good, Item
<1>. HIDE DEF p, e, o
<1>4. /\ Good(o, latest, later) /\ Len(o) < Len(entries)
      /\ \A i \in 1..Len(o) : o[i].key # k
      /\ \A i \in 1..Len(entries) : entries[i].key # k =>
           \E j \in 1..Len(o) : o[j] = entries[i]
  BY <1>0, DropProperties DEF o
<1>5. Good(entries', latest', later')
  <2>1. later' = [j \in Keys |-> IF j = e.key THEN {} ELSE later[j] \cup {e.key}]
    BY <1>0, <1>1 DEF Cache!Use
  <2>. QED
    BY <1>1, <1>2, <1>3, <1>4, <2>1, UseProperties
<1>6. /\ Len(o) \in Nat /\ Len(entries') = Len(o) + 1
      /\ \A i \in 1..Len(o) : entries'[i] = o[i]
      /\ entries'[Len(o) + 1] = e
  <2>1. o \in Seq(Item)
    BY <1>4 DEF Good
  <2>. QED
    BY <1>1, <1>2, <2>1, AppendProperties, LenProperties
<1>7. Len(entries') <= MaxEntries
  BY <1>0, <1>4, <1>6, ItemProperties, CacheBounds DEF CacheInv
<1>8. CacheInv'
  <2>1. running' = Nothing /\ DOMAIN latest' = Keys /\ latest' = [j \in Keys |-> latest'[j]]
    BY <1>0, <1>2 DEF CacheInv
  <2>. QED
    BY <1>0, <1>5, <1>7, <2>1, UseFinite DEF CacheInv
<1>9. ReturnsRecent
  <2>1. TTL > 0 => e.age <= TTL
    BY <1>2, <1>3, CacheBounds DEF Cache!Expired
  <2>. QED
    BY <1>2, <1>3, <2>1 DEF ReturnsRecent
<1>10. ASSUME NEW i \in 1..Len(entries) PROVE Stays(i)
  <2>1. CASE entries[i].key = k
    <3>1. entries'[Len(o) + 1].key = k /\ Len(o) + 1 \in 1..Len(entries')
      BY <1>1, <1>6
    <3>. QED
      BY <2>1, <3>1 DEF Stays
  <2>2. CASE entries[i].key # k
    <3>1. PICK j \in 1..Len(o) : o[j] = entries[i]
      BY <1>4, <2>2
    <3>2. entries'[j] = entries[i] /\ j \in 1..Len(entries')
      BY <1>6, <3>1
    <3>. QED
      BY <3>2 DEF Stays
  <2>. QED
    BY <2>1, <2>2
<1>. QED
  BY <1>8, <1>9, <1>10 DEF GivesUpOld

LEMMA MissStep ==
  ASSUME CacheInv, NEW k \in Keys, Cache!Miss(k)
  PROVE  CacheInv' /\ ReturnsRecent /\ GivesUpOld
<1>. DEFINE o == Cache!Drop(k)
<1>0. Good(entries, latest, later) /\ (Cache!Cached(k) => Cache!Expired(Cache!Entry(k)))
  BY DEF CacheInv, Cache!Miss
<1>1. /\ entries' = o /\ running' = k /\ returned' = Nothing
      /\ latest' = latest /\ later' = later
  BY DEF Cache!Miss
<1>. HIDE DEF o
<1>2. /\ Good(o, latest, later) /\ Len(o) <= Len(entries)
      /\ \A i \in 1..Len(o) : o[i].key # k
      /\ \A i \in 1..Len(entries) : entries[i].key # k =>
           \E j \in 1..Len(o) : o[j] = entries[i]
  BY DropProperties DEF o
<1>3. Len(o) <= MaxEntries
  BY <1>0, <1>2, ItemProperties, CacheBounds DEF CacheInv
<1>4. ~ Cache!Cached(k)'
  BY <1>1, <1>2 DEF Cache!Cached
<1>5. CacheInv'
  <2>1. Good(entries', latest', later') /\ Len(entries') <= MaxEntries
    BY <1>1, <1>2, <1>3
  <2>2. running' # Nothing => ~ Cache!Cached(running)'
    BY <1>1, <1>4 DEF Cache!Cached
  <2>. QED
    BY <1>1, <2>1, <2>2 DEF CacheInv
<1>6. ReturnsRecent
  BY <1>1 DEF ReturnsRecent
<1>7. ASSUME NEW i \in 1..Len(entries)
      PROVE  Stays(i) \/ (TTL > 0 /\ entries[i].age > TTL)
  <2>1. CASE entries[i].key = k
    <3>1. Cache!Cached(k)
      BY <2>1 DEF Cache!Cached
    <3>2. Cache!Place(k) = i
      BY <2>1, <3>1, <1>0 DEF Good, Cache!Cached, Cache!Place
    <3>. QED
      BY <1>0, <3>1, <3>2 DEF Cache!Expired, Cache!Entry
  <2>2. CASE entries[i].key # k
    <3>1. PICK j \in 1..Len(o) : o[j] = entries[i]
      BY <1>2, <2>2
    <3>. QED
      BY <1>1, <3>1 DEF Stays
  <2>. QED
    BY <2>1, <2>2
<1>. QED
  BY <1>5, <1>6, <1>7 DEF GivesUpOld

(* Whoever is first in a full table has seen all the others used.            *)
LEMMA FirstIsOld ==
  ASSUME NEW q, NEW last, NEW since, Good(q, last, since), Len(q) = MaxEntries + 1,
         NEW T, T = since[q[1].key], IsFiniteSet(T)
  PROVE  Cardinality(T) >= MaxEntries
<1>. DEFINE g == [j \in 1..MaxEntries |-> q[j + 1].key]
<1>0. MaxEntries \in Nat
  BY CacheBounds
<1>1. \A j \in 1..MaxEntries : j + 1 \in 1..Len(q) /\ 1 < j + 1 /\ 1 \in 1..Len(q)
  BY <1>0
<1>2. \A j \in 1..MaxEntries : q[j + 1].key \in T
  BY <1>1 DEF Good
<1>3. \A i, j \in 1..MaxEntries : q[i + 1].key = q[j + 1].key => i = j
  <2>1. \A i, j \in 1..MaxEntries : q[i + 1].key = q[j + 1].key => i + 1 = j + 1
    BY <1>1 DEF Good
  <2>. QED
    BY <2>1
<1>4. g \in Injection(1..MaxEntries, T)
  BY <1>2, <1>3 DEF Injection, IsInjective
<1>5. Cardinality(1..MaxEntries) <= Cardinality(T)
  BY <1>4, FS_Injection
<1>6. Cardinality(1..MaxEntries) = MaxEntries
  <2>1. Cardinality(1..MaxEntries) = IF 1 > MaxEntries THEN 0 ELSE MaxEntries - 1 + 1
    BY <1>0, FS_Interval
  <2>. QED
    BY <2>1, <1>0
<1>7. Cardinality(T) \in Nat
  BY FS_CardinalityType
<1>. QED
  BY <1>0, <1>5, <1>6, <1>7

LEMMA CompleteStep ==
  ASSUME CacheInv, NEW out \in Outcomes, Cache!Complete(out)
  PROVE  CacheInv' /\ ReturnsRecent /\ GivesUpOld
<1>. DEFINE x == [key |-> running, age |-> 0, out |-> out]
            q == Append(entries, x)
            w == Cache!Evict(q)
<1>0. /\ Good(entries, latest, later) /\ Len(entries) <= MaxEntries
      /\ running \in Keys /\ ~ Cache!Cached(running) /\ Cache!Use(running)
      /\ DOMAIN latest = Keys
  BY DEF CacheInv, Cache!Complete
<1>1. /\ entries' = w /\ returned' = [key |-> running, out |-> out]
      /\ latest' = [latest EXCEPT ![running] = [out |-> out, age |-> 0]]
      /\ running' = Nothing
  BY DEF Cache!Complete
<1>2. latest'[running] = [out |-> out, age |-> 0]
      /\ \A k \in Keys : k # running => latest'[k] = latest[k]
  BY <1>0, <1>1
<1>3. x \in Item /\ x.key = running /\ x.out = out /\ x.age = 0
  BY <1>0 DEF Item
<1>4. \A i \in 1..Len(entries) : entries[i].key # x.key
  BY <1>0, <1>3 DEF Cache!Cached
<1>. HIDE DEF x
<1>5. Good(q, latest', later')
  <2>1. later' = [j \in Keys |-> IF j = x.key THEN {} ELSE later[j] \cup {x.key}]
    BY <1>0, <1>3 DEF Cache!Use
  <2>. QED
    BY <1>0, <1>2, <1>3, <1>4, <2>1, UseProperties
<1>6. /\ Len(entries) \in Nat /\ Len(q) = Len(entries) + 1
      /\ \A i \in 1..Len(entries) : q[i] = entries[i]
  BY <1>0, <1>3, AppendProperties, LenProperties DEF Good
<1>. HIDE DEF q
<1>7. Len(q) <= MaxEntries + 1
  BY <1>0, <1>6, CacheBounds
<1>8. /\ Good(w, latest', later') /\ Len(w) <= MaxEntries
      /\ \A i \in 1..Len(q) : (i = 1 /\ Len(q) = MaxEntries + 1)
                              \/ \E j \in 1..Len(w) : w[j] = q[i]
  BY <1>5, <1>7, EvictProperties
<1>. HIDE DEF w
<1>9. later' \in [Keys -> SUBSET Keys] /\ \A k \in Keys : IsFiniteSet(later'[k])
  BY <1>0, UseFinite
<1>10. CacheInv'
  <2>1. DOMAIN latest' = Keys /\ latest' = [k \in Keys |-> latest'[k]]
    BY <1>0, <1>1
  <2>2. Good(entries', latest', later') /\ Len(entries') <= MaxEntries
    BY <1>1, <1>8
  <2>. QED
    BY <1>1, <1>9, <2>1, <2>2 DEF CacheInv
<1>11. ReturnsRecent
  BY <1>1, <1>2, CacheBounds DEF ReturnsRecent
<1>12. ASSUME NEW i \in 1..Len(entries)
       PROVE  Stays(i) \/ Cardinality(later'[entries[i].key]) >= MaxEntries
  <2>1. i \in 1..Len(q) /\ q[i] = entries[i] /\ q[i].key \in Keys
    BY <1>0, <1>6, ItemProperties
  <2>2. CASE i = 1 /\ Len(q) = MaxEntries + 1
    <3>1. IsFiniteSet(later'[q[1].key])
      BY <1>9, <2>1, <2>2
    <3>2. Cardinality(later'[q[1].key]) >= MaxEntries
      BY <1>5, <2>2, <3>1, FirstIsOld
    <3>. QED
      BY <2>1, <2>2, <3>2
  <2>3. CASE \E j \in 1..Len(w) : w[j] = q[i]
    BY <1>1, <2>1, <2>3 DEF Stays
  <2>. QED
    BY <1>8, <2>1, <2>2, <2>3
<1>. QED
  BY <1>10, <1>11, <1>12 DEF GivesUpOld

LEMMA TickStep ==
  ASSUME CacheInv, Cache!Tick
  PROVE  CacheInv' /\ ReturnsRecent /\ GivesUpOld
<1>0. /\ Good(entries, latest, later) /\ DOMAIN latest = Keys
      /\ TTL \in Nat /\ Nothing \notin [out : Outcomes, age : Nat]
  BY CacheBounds DEF CacheInv
<1>1. /\ entries' = [i \in DOMAIN entries |-> Cache!Older(entries[i])]
      /\ latest' = [k \in Keys |-> IF latest[k] = Nothing THEN Nothing
                                   ELSE Cache!Older(latest[k])]
      /\ returned' = Nothing /\ running' = running /\ later' = later
  BY DEF Cache!Tick
<1>2. Len(entries) \in Nat /\ DOMAIN entries = 1..Len(entries)
      /\ \A i \in 1..Len(entries) : /\ entries[i] \in Item /\ entries[i].key \in Keys
                                    /\ entries[i].out \in Outcomes /\ entries[i].age \in Nat
  BY <1>0, ItemProperties
<1>. DEFINE up(a) == IF a > TTL THEN a ELSE a + 1
<1>3. \A i \in 1..Len(entries) :
        Cache!Older(entries[i]) = [key |-> entries[i].key, age |-> up(entries[i].age),
                                   out |-> entries[i].out]
  BY <1>2 DEF Cache!Older, Item
<1>4. \A i \in 1..Len(entries) : up(entries[i].age) \in Nat
  BY <1>0, <1>2
<1>5. \A i \in 1..Len(entries) : latest'[entries[i].key] =
        [out |-> entries[i].out, age |-> up(entries[i].age)]
  <2>. TAKE i \in 1..Len(entries)
  <2>1. latest[entries[i].key] = [out |-> entries[i].out, age |-> entries[i].age]
    BY <1>0 DEF Good
  <2>2. latest[entries[i].key] # Nothing
    BY <1>0, <1>2, <2>1
  <2>3. latest'[entries[i].key] = Cache!Older(latest[entries[i].key])
    BY <1>1, <1>2, <2>2
  <2>. QED
    BY <2>1, <2>3 DEF Cache!Older
<1>. HIDE DEF up
<1>6. /\ entries' \in Seq(Item) /\ Len(entries') = Len(entries)
      /\ \A i \in 1..Len(entries) :
           entries'[i] = [key |-> entries[i].key, age |-> up(entries[i].age),
                          out |-> entries[i].out]
  <2>1. entries' = [i \in 1..Len(entries) |-> Cache!Older(entries[i])]
    BY <1>1, <1>2
  <2>2. \A i \in 1..Len(entries) : Cache!Older(entries[i]) \in Item
    BY <1>2, <1>3, <1>4 DEF Item
  <2>3. entries' \in [1..Len(entries) -> Item]
    BY <2>1, <2>2
  <2>4. entries' \in Seq(Item)
    BY <1>2, <2>3, SeqDef
  <2>5. Len(entries') = Len(entries)
    BY <1>2, <2>1, <2>4, LenProperties
  <2>. QED
    BY <1>3, <2>1, <2>4, <2>5
<1>7. ASSUME NEW i \in 1..Len(entries)
      PROVE  /\ entries'[i].key = entries[i].key
             /\ entries'[i].out = entries[i].out
             /\ entries'[i].age = up(entries[i].age)
  <2>1. entries'[i] = [key |-> entries[i].key, age |-> up(entries[i].age),
                       out |-> entries[i].out]
    BY <1>6
  <2>. QED
    BY <2>1
<1>8. Good(entries', latest', later')
  <2>1. \A i, j \in 1..Len(entries') : entries'[i].key = entries'[j].key => i = j
    BY <1>0, <1>6, <1>7 DEF Good
  <2>2. \A i, j \in 1..Len(entries') : i < j => entries'[j].key \in later'[entries'[i].key]
    <3>. SUFFICES ASSUME NEW i \in 1..Len(entries), NEW j \in 1..Len(entries), i < j
                  PROVE  entries'[j].key \in later'[entries'[i].key]
      BY <1>6
    <3>1. entries[j].key \in later[entries[i].key]
      BY <1>0 DEF Good
    <3>. QED
      BY <3>1, <1>1, <1>7
  <2>3. \A i \in 1..Len(entries') :
          latest'[entries'[i].key] = [out |-> entries'[i].out, age |-> entries'[i].age]
    BY <1>5, <1>6, <1>7
  <2>. QED
    BY <1>6, <2>1, <2>2, <2>3 DEF Good
<1>9. CacheInv'
  <2>1. DOMAIN latest' = Keys /\ latest' = [k \in Keys |-> latest'[k]]
    BY <1>1
  <2>2. running' # Nothing => ~ Cache!Cached(running)'
    BY <1>1, <1>6, <1>7 DEF CacheInv, Cache!Cached
  <2>. QED
    BY <1>1, <1>6, <1>8, <2>1, <2>2 DEF CacheInv
<1>10. ReturnsRecent
  BY <1>1 DEF ReturnsRecent
<1>11. GivesUpOld
  BY <1>6, <1>7 DEF GivesUpOld, Stays
<1>. QED
  BY <1>9, <1>10, <1>11

LEMMA FailStep ==
  ASSUME CacheInv, Cache!Fail
  PROVE  CacheInv' /\ ReturnsRecent /\ GivesUpOld
<1>1. CacheInv'
  BY DEF CacheInv, Cache!Fail, Cache!Cached
<1>2. ReturnsRecent /\ GivesUpOld
  BY DEF Cache!Fail, ReturnsRecent, GivesUpOld, Stays
<1>. QED
  BY <1>1, <1>2

(* The memo of sandbox runs (sandbox.py:228-269): what it returns was put out *)
(* by the last completed run of the program, within the time to live, and    *)
(* what it gives up is expired or has seen max_entries others used since.    *)
THEOREM RecentIsKept == Cache!Spec => CacheKeepsRecent
<1>1. Cache!Init => CacheInv
  <2>1. <<>> \in Seq(Item) /\ Len(<<>>) = 0
    BY EmptySeq
  <2>2. IsFiniteSet({}) /\ MaxEntries \in Nat
    BY FS_EmptySet, CacheBounds
  <2>. QED
    BY <2>1, <2>2 DEF Cache!Init, CacheInv, Good, Cache!Cached
<1>2. CacheInv /\ [Cache!Next]_(Cache!vars) => CacheInv'
  <2>1. CacheInv /\ Cache!Next => CacheInv'
    BY HitStep, MissStep, CompleteStep, FailStep, TickStep DEF Cache!Next
  <2>2. CacheInv /\ UNCHANGED Cache!vars => CacheInv'
    BY DEF Cache!vars, CacheInv, Cache!Cached
  <2>. QED
    BY <2>1, <2>2
<1>3. CacheInv /\ Cache!Next => ReturnsRecent /\ GivesUpOld
  BY HitStep, MissStep, CompleteStep, FailStep, TickStep DEF Cache!Next
<1>4. CacheInv /\ CacheInv' /\ ReturnsRecent /\ GivesUpOld =>
        /\ returned' # Nothing =>
             /\ returned'.out = latest'[returned'.key].out
             /\ TTL > 0 => latest'[returned'.key].age <= TTL
        /\ \A e \in Cache!ToSet(entries) :
             (\A d \in Cache!ToSet(entries') : d.key # e.key) =>
                \/ TTL > 0 /\ e.age > TTL
                \/ Cache!Cardinality(later'[e.key]) >= MaxEntries
  <2>. SUFFICES ASSUME CacheInv, CacheInv', ReturnsRecent, GivesUpOld,
                       NEW e \in Cache!ToSet(entries),
                       \A d \in Cache!ToSet(entries') : d.key # e.key
                PROVE  \/ TTL > 0 /\ e.age > TTL
                       \/ Cache!Cardinality(later'[e.key]) >= MaxEntries
    BY DEF ReturnsRecent
  <2>1. DOMAIN entries = 1..Len(entries) /\ DOMAIN entries' = 1..Len(entries')
    BY ItemProperties DEF CacheInv
  <2>2. PICK i \in 1..Len(entries) : e = entries[i]
    BY <2>1 DEF Cache!ToSet
  <2>3. ~ Stays(i)
    BY <2>1, <2>2 DEF Cache!ToSet, Stays
  <2>4. Cache!Cardinality(later'[e.key]) = Cardinality(later'[e.key])
    BY SameCardinality
  <2>. QED
    BY <2>2, <2>3, <2>4 DEF GivesUpOld
<1>. QED
  BY <1>1, <1>2, <1>3, <1>4, PTL DEF Cache!Spec, CacheKeepsRecent, Cache!CacheKeepsRecent

-----------------------------------------------------------------------------
(* EvolutionStopper: promotions and misses in a history.                    *)

LEMMA HitsAre ==
  ASSUME NEW s \in Seq(BOOLEAN)
  PROVE  /\ Stopper!Hits(s) = Cardinality({i \in 1..Len(s) : s[i]})
         /\ Stopper!Hits(s) \in 0..Len(s)
         /\ Stopper!Hits(s) = 0 <=> \A i \in 1..Len(s) : ~s[i]
<1>. DEFINE H == {i \in 1..Len(s) : s[i]}
<1>0. DOMAIN s = 1..Len(s) /\ Len(s) \in Nat
  OBVIOUS
<1>1. Stopper!Hits(s) = Cardinality(H)
  <2>1. \A S : Stopper!Cardinality(S) = Cardinality(S)
    BY Zenon DEF Stopper!Cardinality, Cardinality
  <2>. QED
    BY <1>0, <2>1 DEF Stopper!Hits
<1>2. IsFiniteSet(1..Len(s)) /\ Cardinality(1..Len(s)) = Len(s)
  BY <1>0, FS_Interval
<1>3. H \subseteq 1..Len(s)
  OBVIOUS
<1>4. IsFiniteSet(H) /\ Cardinality(H) \in Nat /\ Cardinality(H) <= Len(s)
  <2>. HIDE DEF H
  <2>. QED
    BY <1>2, <1>3, FS_Subset, FS_CardinalityType
<1>5. Cardinality(H) = 0 <=> H = {}
  BY <1>4, FS_EmptySet
<1>. QED
  BY <1>0, <1>1, <1>4, <1>5

LEMMA HitsOfAppend ==
  ASSUME NEW s \in Seq(BOOLEAN), NEW x \in BOOLEAN
  PROVE  Stopper!Hits(Append(s, x)) = IF x THEN Stopper!Hits(s) + 1 ELSE Stopper!Hits(s)
<1>. DEFINE q == Append(s, x)
            H == {i \in 1..Len(s) : s[i]}
            G == {i \in 1..Len(q) : q[i]}
<1>0. /\ q \in Seq(BOOLEAN) /\ Len(q) = Len(s) + 1 /\ Len(s) \in Nat
      /\ \A i \in 1..Len(s) : q[i] = s[i]
      /\ q[Len(s) + 1] = x
  OBVIOUS
<1>1. Stopper!Hits(s) = Cardinality(H) /\ Stopper!Hits(q) = Cardinality(G)
  BY <1>0, HitsAre
<1>. HIDE DEF q
<1>2. \A i : i \in 1..Len(q) <=> i \in 1..Len(s) \/ i = Len(s) + 1
  BY <1>0
<1>3. G = IF x THEN H \cup {Len(s) + 1} ELSE H
  <2>1. \A i \in 1..Len(s) : i \in G <=> i \in H
    BY <1>0, <1>2, Zenon
  <2>2. Len(s) + 1 \in G <=> x
    BY <1>0, <1>2, Zenon
  <2>3. \A i : i \in G => i \in 1..Len(s) \/ i = Len(s) + 1
    BY <1>2, Zenon
  <2>4. \A i \in H : i \in 1..Len(s)
    BY Zenon
  <2>5. Len(s) + 1 \notin 1..Len(s)
    BY <1>0
  <2>. HIDE DEF G, H
  <2>6. CASE x
    BY <2>1, <2>2, <2>3, <2>4, <2>6
  <2>7. CASE ~x
    <3>1. Len(s) + 1 \notin G
      BY <2>2, <2>7, Zenon
    <3>2. \A i : i \in G <=> i \in H
      BY <2>1, <2>3, <2>4, <3>1, Zenon
    <3>. QED
      BY <2>7, <3>2, Zenon
  <2>. QED
    BY <2>6, <2>7, Zenon
<1>4. IsFiniteSet(H) /\ Len(s) + 1 \notin H
  <2>1. IsFiniteSet(1..Len(s))
    BY <1>0, FS_Interval
  <2>2. H \subseteq 1..Len(s) /\ Len(s) + 1 \notin 1..Len(s)
    BY <1>0
  <2>. HIDE DEF H
  <2>. QED
    BY <2>1, <2>2, FS_Subset
<1>. HIDE DEF G, H
<1>5. Cardinality(H \cup {Len(s) + 1}) = Cardinality(H) + 1
  BY <1>4, FS_AddElement
<1>. QED
  BY <1>1, <1>3, <1>5 DEF q

FirstThree(s) == SubSeq(s, 1, 3)
Bets(s) == SubSeq(s, 4, Len(s))

LEMMA Calibrating ==
  ASSUME NEW s \in Seq(BOOLEAN), Len(s) = 3
  PROVE  FirstThree(s) = s /\ Bets(s) = <<>>
<1>1. FirstThree(s) = s
  BY DEF FirstThree
<1>2. Bets(s) = <<>>
  BY DEF Bets
<1>. QED
  BY <1>1, <1>2

LEMMA Betting ==
  ASSUME NEW s \in Seq(BOOLEAN), Len(s) >= 3
  PROVE  /\ FirstThree(s) \in Seq(BOOLEAN) /\ Len(FirstThree(s)) = 3
         /\ \A i \in 1..3 : FirstThree(s)[i] = s[i]
         /\ Bets(s) \in Seq(BOOLEAN) /\ Len(Bets(s)) = Len(s) - 3
         /\ \A i \in 1..Len(s) - 3 : Bets(s)[i] = s[i + 3]
<1>1. Len(s) \in Nat
  OBVIOUS
<1>2. /\ FirstThree(s) \in Seq(BOOLEAN) /\ Len(FirstThree(s)) = 3
      /\ \A i \in 1..3 : FirstThree(s)[i] = s[i]
  BY <1>1 DEF FirstThree
<1>3. /\ Bets(s) \in Seq(BOOLEAN) /\ Len(Bets(s)) = Len(s) - 3
      /\ \A i \in 1..Len(s) - 3 : Bets(s)[i] = s[i + 3]
  <2>. DEFINE n == Len(s) - 3
  <2>1. n \in Nat /\ Len(s) - 4 + 1 = n /\ (IF 4 <= Len(s) THEN Len(s) - 4 + 1 ELSE 0) = n
    <3>1. \A l \in Nat : l >= 3 => /\ l - 3 \in Nat /\ l - 4 + 1 = l - 3
                                   /\ (IF 4 <= l THEN l - 4 + 1 ELSE 0) = l - 3
      OBVIOUS
    <3>. QED
      BY <1>1, <3>1, Zenon
  <2>2. \A i \in 4..Len(s) : s[i] \in BOOLEAN
    <3>1. \A i \in 1..Len(s) : s[i] \in BOOLEAN
      BY ElementOfSeq
    <3>2. \A i \in 4..Len(s) : i \in 1..Len(s)
      BY <1>1
    <3>. QED
      BY <3>1, <3>2, Zenon
  <2>3. /\ Bets(s) \in Seq(BOOLEAN)
        /\ Len(Bets(s)) = IF 4 <= Len(s) THEN Len(s) - 4 + 1 ELSE 0
        /\ \A i \in 1..Len(s) - 4 + 1 : Bets(s)[i] = s[4 + i - 1]
    BY <1>1, <2>2, SubSeqProperties DEF Bets
  <2>4. \A i \in 1..n : 4 + i - 1 = i + 3
    OBVIOUS
  <2>5. Len(Bets(s)) = n /\ \A i \in 1..n : Bets(s)[i] = s[4 + i - 1]
    BY <2>1, <2>3, Zenon
  <2>6. \A i \in 1..n : Bets(s)[i] = s[i + 3]
    <3>. HIDE DEF n
    <3>. QED
      BY <2>4, <2>5, Zenon
  <2>. QED
    BY <2>3, <2>5, <2>6
<1>. QED
  BY <1>2, <1>3

LEMMA BetOfAppend ==
  ASSUME NEW s \in Seq(BOOLEAN), Len(s) >= 3, NEW x \in BOOLEAN
  PROVE  FirstThree(Append(s, x)) = FirstThree(s) /\ Bets(Append(s, x)) = Append(Bets(s), x)
<1>. DEFINE q == Append(s, x)
<1>0. /\ q \in Seq(BOOLEAN) /\ Len(q) = Len(s) + 1 /\ Len(s) \in Nat
      /\ \A i \in 1..Len(s) : q[i] = s[i]
      /\ q[Len(s) + 1] = x
  OBVIOUS
<1>. HIDE DEF q
<1>1. FirstThree(q) = FirstThree(s)
  <2>1. /\ FirstThree(s) \in Seq(BOOLEAN) /\ Len(FirstThree(s)) = 3
        /\ \A i \in 1..3 : FirstThree(s)[i] = s[i]
    BY Betting
  <2>2. /\ FirstThree(q) \in Seq(BOOLEAN) /\ Len(FirstThree(q)) = 3
        /\ \A i \in 1..3 : FirstThree(q)[i] = q[i]
    BY <1>0, Betting
  <2>3. \A i \in 1..3 : FirstThree(q)[i] = FirstThree(s)[i]
    BY <1>0, <2>1, <2>2
  <2>. QED
    BY <2>1, <2>2, <2>3, SeqEqual
<1>2. Bets(q) = Append(Bets(s), x)
  <2>. DEFINE t == Append(Bets(s), x)
  <2>1. /\ Bets(s) \in Seq(BOOLEAN) /\ Len(Bets(s)) = Len(s) - 3
        /\ \A i \in 1..Len(s) - 3 : Bets(s)[i] = s[i + 3]
    BY Betting
  <2>2. /\ Bets(q) \in Seq(BOOLEAN) /\ Len(Bets(q)) = Len(s) - 2
        /\ \A i \in 1..Len(s) - 2 : Bets(q)[i] = q[i + 3]
    <3>1. Len(q) >= 3 /\ Len(q) - 3 = Len(s) - 2
      BY <1>0
    <3>2. /\ Bets(q) \in Seq(BOOLEAN) /\ Len(Bets(q)) = Len(q) - 3
          /\ \A i \in 1..Len(q) - 3 : Bets(q)[i] = q[i + 3]
      BY <1>0, <3>1, Betting
    <3>. QED
      BY <3>1, <3>2
  <2>3. /\ t \in Seq(BOOLEAN) /\ Len(t) = Len(s) - 2
        /\ \A i \in 1..Len(s) - 3 : t[i] = Bets(s)[i]
        /\ t[Len(s) - 2] = x
    BY <1>0, <2>1
  <2>. HIDE DEF t
  <2>4. ASSUME NEW i \in 1..Len(s) - 2 PROVE Bets(q)[i] = t[i]
    <3>1. CASE i = Len(s) - 2
      <4>1. i + 3 = Len(s) + 1
        BY <1>0, <3>1
      <4>. QED
        BY <1>0, <2>2, <2>3, <3>1, <4>1
    <3>2. CASE i # Len(s) - 2
      <4>1. i \in 1..Len(s) - 3 /\ i + 3 \in 1..Len(s)
        BY <1>0, <3>2
      <4>. QED
        BY <1>0, <2>1, <2>2, <2>3, <4>1
    <3>. QED
      BY <3>1, <3>2
  <2>5. Bets(q) = t
    BY <2>2, <2>3, <2>4, SeqEqual
  <2>. QED
    BY <2>5 DEF t
<1>. QED
  BY <1>1, <1>2 DEF q

(* The rate the calibration ends with, and the bets it makes.               *)
HalfRate == Stopper!Rational(1, 2)
TwoThirds == Stopper!Rational(2, 3)
NearlyOne == Stopper!Rational(99, 100)
Rates == {HalfRate, TwoThirds, NearlyOne}

LEMMA NullRate ==
  ASSUME NEW s \in Seq(BOOLEAN), Len(s) = 3
  PROVE  Stopper!Null(s) = CASE Stopper!Hits(s) = 3 -> NearlyOne
                             [] Stopper!Hits(s) = 2 -> TwoThirds
                             [] OTHER -> HalfRate
<1>1. Stopper!Hits(s) \in 0..3
  BY HitsAre
<1>. DEFINE h == Stopper!Hits(s)
<1>2. Stopper!Null(s) = Stopper!Smaller(Stopper!Larger(Stopper!Rational(h, 3),
                                                       Stopper!Rational(1, 2)),
                                        Stopper!Rational(99, 100))
  BY DEF Stopper!Null
<1>. HIDE DEF h
<1>3. h = 0 \/ h = 1 \/ h = 2 \/ h = 3
  BY <1>1 DEF h
<1>. USE DEF Stopper!Smaller, Stopper!Larger, Stopper!Below, Stopper!Rational,
             HalfRate, TwoThirds, NearlyOne
<1>4. CASE h = 0
  BY <1>2, <1>4 DEF h
<1>5. CASE h = 1
  BY <1>2, <1>5 DEF h
<1>6. CASE h = 2
  BY <1>2, <1>6 DEF h
<1>7. CASE h = 3
  BY <1>2, <1>7 DEF h
<1>. QED
  BY <1>3, <1>4, <1>5, <1>6, <1>7

LEMMA BetFactor ==
  /\ \A p \in Rates : Stopper!Factor(TRUE, p) = [num |-> 1, den |-> 2]
  /\ Stopper!Factor(FALSE, HalfRate) = [num |-> 3, den |-> 2]
  /\ Stopper!Factor(FALSE, TwoThirds) = [num |-> 4, den |-> 2]
  /\ Stopper!Factor(FALSE, NearlyOne) = [num |-> 101, den |-> 2]
BY DEF Stopper!Factor, Stopper!Rational, HalfRate, TwoThirds, NearlyOne, Rates

-----------------------------------------------------------------------------
(* Powers of two, as far as they are needed: f doubles from 0 to m.         *)

Doubling(f, m) ==
  /\ f \in [0..m -> Nat \ {0}]
  /\ \A i \in 1..m : f[i] = 2 * f[i - 1]

LEMMA DoublingGrows ==
  ASSUME NEW m \in Nat, NEW f, Doubling(f, m)
  PROVE  \E g : Doubling(g, m + 1) /\ \A i \in 0..m : g[i] = f[i]
<1>. DEFINE g == [i \in 0..m + 1 |-> IF i = m + 1 THEN 2 * f[m] ELSE f[i]]
<1>1. f \in [0..m -> Nat \ {0}] /\ \A i \in 1..m : f[i] = 2 * f[i - 1]
  BY DEF Doubling
<1>2. g[m + 1] = 2 * f[m] /\ \A i \in 0..m : i \in 0..m + 1 /\ i # m + 1 /\ g[i] = f[i]
  OBVIOUS
<1>3. f[m] \in Nat \ {0} /\ 2 * f[m] \in Nat \ {0}
  <2>1. f[m] \in Nat \ {0}
    BY <1>1
  <2>. QED
    BY <2>1
<1>4. g \in [0..m + 1 -> Nat \ {0}]
  <2>1. \A i \in 0..m + 1 : i # m + 1 => i \in 0..m
    OBVIOUS
  <2>. QED
    BY <1>1, <1>3, <2>1
<1>. HIDE DEF g
<1>5. \A i \in 1..m + 1 : g[i] = 2 * g[i - 1]
  <2>. TAKE i \in 1..m + 1
  <2>1. CASE i = m + 1
    BY <1>2, <2>1
  <2>2. CASE i # m + 1
    <3>1. i \in 1..m /\ i \in 0..m /\ i - 1 \in 0..m
      BY <2>2
    <3>. QED
      BY <1>1, <1>2, <3>1
  <2>. QED
    BY <2>1, <2>2
<1>. QED
  BY <1>2, <1>4, <1>5 DEF Doubling

LEMMA DoublingMonotone ==
  ASSUME NEW m \in Nat, NEW f, Doubling(f, m), NEW i \in 0..m, NEW j \in i..m
  PROVE  f[i] <= f[j]
<1>. DEFINE bad == {k \in i..m : f[k] < f[i]}
<1>1. (\A k \in 0..m : f[k] \in Nat) /\ \A k \in 1..m : f[k] = 2 * f[k - 1]
  BY DEF Doubling
<1>. SUFFICES ASSUME bad # {} PROVE FALSE
  BY <1>1
<1>2. PICK k \in bad : \A l \in bad : k <= l
  <2>1. bad \in SUBSET Nat
    OBVIOUS
  <2>. HIDE DEF bad
  <2>. QED
    BY <2>1, LeastNatural
<1>3. k \in i..m /\ f[k] < f[i] /\ k \in Nat /\ i \in Nat
  BY <1>2
<1>4. k # i
  BY <1>1, <1>3
<1>5. k - 1 \in i..m /\ ~ (k <= k - 1) /\ k \in 1..m /\ k - 1 \in 0..m /\ k \in 0..m
  BY <1>3, <1>4
<1>6. k - 1 \notin bad
  <2>. HIDE DEF bad
  <2>. QED
    BY <1>2, <1>5
<1>7. ~ (f[k - 1] < f[i])
  BY <1>5, <1>6
<1>. QED
  BY <1>1, <1>3, <1>5, <1>7

(* From one to another at most four beyond it, f grows at most sixteenfold. *)
LEMMA DoublingBound ==
  ASSUME NEW m \in Nat, NEW f, Doubling(f, m), NEW i \in 0..m, NEW j \in 0..m, j <= i + 4
  PROVE  f[j] <= 16 * f[i]
<1>1. (\A k \in 0..m : f[k] \in Nat) /\ \A k \in 1..m : f[k] = 2 * f[k - 1]
  BY DEF Doubling
<1>2. f[i] \in Nat /\ f[j] \in Nat
  BY <1>1
<1>3. CASE j <= i
  <2>1. i \in j..m
    BY <1>3
  <2>. QED
    BY <1>2, <2>1, DoublingMonotone
<1>4. CASE j = i + 1
  <2>1. f[i + 1] = 2 * f[i]
    <3>1. i + 1 \in 1..m /\ i + 1 - 1 = i
      BY <1>4
    <3>. QED
      BY <1>1, <3>1
  <2>. QED
    BY <1>2, <1>4, <2>1
<1>5. CASE j = i + 2
  <2>1. i + 1 \in 1..m /\ i + 1 - 1 = i /\ i + 2 \in 1..m /\ i + 2 - 1 = i + 1
    BY <1>5
  <2>2. f[i + 1] = 2 * f[i] /\ f[i + 2] = 2 * f[i + 1]
    BY <1>1, <2>1
  <2>. QED
    BY <1>2, <1>5, <2>2
<1>6. CASE j = i + 3
  <2>1. /\ i + 1 \in 1..m /\ i + 1 - 1 = i /\ i + 2 \in 1..m /\ i + 2 - 1 = i + 1
        /\ i + 3 \in 1..m /\ i + 3 - 1 = i + 2
    BY <1>6
  <2>2. f[i + 1] = 2 * f[i] /\ f[i + 2] = 2 * f[i + 1] /\ f[i + 3] = 2 * f[i + 2]
    BY <1>1, <2>1
  <2>. QED
    BY <1>2, <1>6, <2>2
<1>7. CASE j = i + 4
  <2>1. /\ i + 1 \in 1..m /\ i + 1 - 1 = i /\ i + 2 \in 1..m /\ i + 2 - 1 = i + 1
        /\ i + 3 \in 1..m /\ i + 3 - 1 = i + 2 /\ i + 4 \in 1..m /\ i + 4 - 1 = i + 3
    BY <1>7
  <2>2. f[i + 1] = 2 * f[i] /\ f[i + 2] = 2 * f[i + 1] /\ f[i + 3] = 2 * f[i + 2]
        /\ f[i + 4] = 2 * f[i + 3]
    BY <1>1, <2>1
  <2>. QED
    BY <1>2, <1>7, <2>2
<1>8. j <= i \/ j = i + 1 \/ j = i + 2 \/ j = i + 3 \/ j = i + 4
  OBVIOUS
<1>. QED
  BY <1>3, <1>4, <1>5, <1>6, <1>7, <1>8

-----------------------------------------------------------------------------
(* Wealth is bounded by the misses over the promotions: backed by them, it  *)
(* has not grown more than twofold for each, and halved for each promotion. *)

Backed(w, hits, misses) ==
  \E m \in Nat : \E f :
    /\ Doubling(f, m) /\ hits \in 0..m /\ misses \in 0..m
    /\ w.num * f[hits] <= w.den * f[misses]

Wealth == [num : Nat \ {0}, den : Nat \ {0}]

LEMMA BackedHit ==
  ASSUME NEW w \in Wealth, NEW h \in Nat, NEW k \in Nat, Backed(w, h, k)
  PROVE  Backed([num |-> w.num, den |-> w.den * 2], h + 1, k)
<1>1. PICK m \in Nat : \E f : /\ Doubling(f, m) /\ h \in 0..m /\ k \in 0..m
                              /\ w.num * f[h] <= w.den * f[k]
  BY DEF Backed
<1>2. PICK f : /\ Doubling(f, m) /\ h \in 0..m /\ k \in 0..m
               /\ w.num * f[h] <= w.den * f[k]
  BY <1>1
<1>3. PICK g : Doubling(g, m + 1) /\ \A i \in 0..m : g[i] = f[i]
  BY <1>2, DoublingGrows
<1>4. /\ g[h + 1] = 2 * g[h] /\ g[h] = f[h] /\ g[k] = f[k]
      /\ f[h] \in Nat /\ f[k] \in Nat
  <2>1. h + 1 \in 1..m + 1 /\ h + 1 - 1 = h
    BY <1>2
  <2>. QED
    BY <1>2, <1>3, <2>1 DEF Doubling
<1>5. \A a, b, x, y \in Nat : a * x <= b * y => a * (2 * x) <= (b * 2) * y
  OBVIOUS
<1>6. w.num \in Nat /\ w.den \in Nat
  BY DEF Wealth
<1>7. w.num * g[h + 1] <= (w.den * 2) * g[k]
  BY <1>2, <1>4, <1>5, <1>6
<1>8. m + 1 \in Nat /\ h + 1 \in 0..m + 1 /\ k \in 0..m + 1
  BY <1>2
<1>. DEFINE v == [num |-> w.num, den |-> w.den * 2]
<1>9. v.num = w.num /\ v.den = w.den * 2
  OBVIOUS
<1>. HIDE DEF v
<1>10. Backed(v, h + 1, k)
  BY <1>3, <1>7, <1>8, <1>9 DEF Backed
<1>. QED
  BY <1>10 DEF v

LEMMA BackedMiss ==
  ASSUME NEW w \in Wealth, NEW h \in Nat, NEW k \in Nat, Backed(w, h, k),
         NEW t \in {3, 4}
  PROVE  Backed([num |-> w.num * t, den |-> w.den * 2], h, k + 1)
<1>1. PICK m \in Nat : \E f : /\ Doubling(f, m) /\ h \in 0..m /\ k \in 0..m
                              /\ w.num * f[h] <= w.den * f[k]
  BY DEF Backed
<1>2. PICK f : /\ Doubling(f, m) /\ h \in 0..m /\ k \in 0..m
               /\ w.num * f[h] <= w.den * f[k]
  BY <1>1
<1>3. PICK g : Doubling(g, m + 1) /\ \A i \in 0..m : g[i] = f[i]
  BY <1>2, DoublingGrows
<1>4. /\ g[k + 1] = 2 * g[k] /\ g[h] = f[h] /\ g[k] = f[k]
      /\ f[h] \in Nat /\ f[k] \in Nat
  <2>1. k + 1 \in 1..m + 1 /\ k + 1 - 1 = k
    BY <1>2
  <2>. QED
    BY <1>2, <1>3, <2>1 DEF Doubling
<1>5. /\ \A a, b, x, y \in Nat : a * x <= b * y => (a * 4) * x <= (b * 2) * (2 * y)
      /\ \A a, b, x, y \in Nat : a * x <= b * y => (a * 3) * x <= (b * 2) * (2 * y)
  <2>1. \A a, b, x, y \in Nat : a * x <= b * y => (a * 4) * x <= (b * 2) * (2 * y)
    OBVIOUS
  <2>2. \A a, x \in Nat : (a * 3) * x <= (a * 4) * x
    <3>. SUFFICES ASSUME NEW a \in Nat, NEW x \in Nat PROVE (a * 3) * x <= (a * 4) * x
      OBVIOUS
    <3>1. a * x \in Nat /\ (a * 3) * x = 3 * (a * x) /\ (a * 4) * x = 4 * (a * x)
      OBVIOUS
    <3>. QED
      BY <3>1
  <2>3. ASSUME NEW a \in Nat, NEW b \in Nat, NEW x \in Nat, NEW y \in Nat, a * x <= b * y
        PROVE  (a * 3) * x <= (b * 2) * (2 * y)
    <3>1. (a * 4) * x <= (b * 2) * (2 * y) /\ (a * 3) * x <= (a * 4) * x
      BY <2>1, <2>2, <2>3
    <3>2. (a * 4) * x \in Int /\ (b * 2) * (2 * y) \in Int /\ (a * 3) * x \in Int
      OBVIOUS
    <3>. QED
      BY <3>1, <3>2
  <2>. QED
    BY <2>1, <2>3
<1>6. w.num \in Nat /\ w.den \in Nat
  BY DEF Wealth
<1>7. (w.num * t) * g[h] <= (w.den * 2) * g[k + 1]
  BY <1>2, <1>4, <1>5, <1>6
<1>8. m + 1 \in Nat /\ h \in 0..m + 1 /\ k + 1 \in 0..m + 1
  BY <1>2
<1>. DEFINE v == [num |-> w.num * t, den |-> w.den * 2]
<1>9. v.num = w.num * t /\ v.den = w.den * 2
  OBVIOUS
<1>. HIDE DEF v
<1>10. Backed(v, h, k + 1)
  BY <1>3, <1>7, <1>8, <1>9 DEF Backed
<1>. QED
  BY <1>10 DEF v

(* What is twenty times what it began with has five misses to show for it.  *)
LEMMA BackedEarns ==
  ASSUME NEW w \in Wealth, NEW h \in Nat, NEW k \in Nat, Backed(w, h, k),
         w.num >= 20 * w.den
  PROVE  k >= h + 5
<1>. SUFFICES ASSUME k <= h + 4 PROVE FALSE
  OBVIOUS
<1>1. PICK m \in Nat : \E f : /\ Doubling(f, m) /\ h \in 0..m /\ k \in 0..m
                              /\ w.num * f[h] <= w.den * f[k]
  BY DEF Backed
<1>2. PICK f : /\ Doubling(f, m) /\ h \in 0..m /\ k \in 0..m
               /\ w.num * f[h] <= w.den * f[k]
  BY <1>1
<1>3. f[k] <= 16 * f[h]
  BY <1>2, DoublingBound
<1>4. f[h] \in Nat \ {0} /\ f[k] \in Nat
  BY <1>2 DEF Doubling
<1>5. w.num \in Nat /\ w.den \in Nat \ {0}
  BY DEF Wealth
<1>6. \A a \in Nat, b \in Nat, c \in Nat : a <= b => c * a <= c * b
  OBVIOUS
<1>. DEFINE c == w.den * f[h]
<1>7. c \in Nat /\ c # 0
  BY <1>4, <1>5
<1>8. w.den * f[k] <= w.den * (16 * f[h])
  BY <1>3, <1>4, <1>5, <1>6
<1>9. f[h] * (20 * w.den) <= f[h] * w.num
  BY <1>4, <1>5, <1>6
<1>10. w.den * (16 * f[h]) = 16 * c /\ f[h] * (20 * w.den) = 20 * c
       /\ f[h] * w.num = w.num * f[h]
  BY <1>4, <1>5
<1>11. w.den * f[k] \in Nat /\ w.num * f[h] \in Nat
  BY <1>4, <1>5
<1>. HIDE DEF c
<1>12. 20 * c <= 16 * c
  BY <1>2, <1>7, <1>8, <1>9, <1>10, <1>11
<1>. QED
  BY <1>7, <1>12

-----------------------------------------------------------------------------
(* The records of a category, and the round of one that is not frozen.       *)

Calibrated == Calibration = 3 /\ MinRounds = 4 /\ Threshold = 20

State(h, w, p, f, a) == [history |-> h, wealth |-> w, p0 |-> p, frozen |-> f, alarm |-> a]
Live(h, w, p, a) == [history |-> h, wealth |-> w, p0 |-> p, frozen |-> FALSE, alarm |-> a]
Frozen(h, w, p, a) == [history |-> h, wealth |-> w, p0 |-> p, frozen |-> TRUE, alarm |-> a]
Put(st, s, r, v) == [st EXCEPT !.history = s, !.p0 = r, !.wealth = v]
Ring(st, l) == [st EXCEPT !.frozen = TRUE, !.alarm = l]
Rich(w) == w.num >= 20 * w.den
WealthAfter(s, w, p, x) ==
  IF Len(s) <= 3 THEN w ELSE Stopper!Times(w, Stopper!Factor(x, p))
RateAfter(s, p) == IF Len(s) = 3 THEN Stopper!Null(s) ELSE p

(* The records, for any value of the flag.                                  *)
LEMMA AfterRound ==
  ASSUME NEW h, NEW w, NEW p, NEW a, NEW s, NEW r, NEW v
  PROVE  Put(Live(h, w, p, a), s, r, v) = Live(s, v, r, a)
<1>1. ASSUME NEW f
      PROVE  [State(h, w, p, f, a) EXCEPT !.history = s, !.p0 = r, !.wealth = v]
               = State(s, v, r, f, a)
  <2>1. [State(h, w, p, f, a) EXCEPT !.history = s] = State(s, w, p, f, a)
    BY DEF State
  <2>2. [State(s, w, p, f, a) EXCEPT !.p0 = r] = State(s, w, r, f, a)
    BY DEF State
  <2>3. [State(s, w, r, f, a) EXCEPT !.wealth = v] = State(s, v, r, f, a)
    BY DEF State
  <2>. QED
    BY <2>1, <2>2, <2>3, Zenon
<1>2. PICK f : f = FALSE
  OBVIOUS
<1>3. Live(h, w, p, a) = State(h, w, p, f, a) /\ Live(s, v, r, a) = State(s, v, r, f, a)
  BY <1>2, Zenon DEF Live, State
<1>. QED
  BY <1>1, <1>3, Zenon DEF Put

LEMMA AfterAlarm ==
  ASSUME NEW h, NEW w, NEW p, NEW a, NEW l
  PROVE  Ring(Live(h, w, p, a), l) = Frozen(h, w, p, l)
<1>1. ASSUME NEW f, NEW t
      PROVE  [State(h, w, p, f, a) EXCEPT !.frozen = t, !.alarm = l] = State(h, w, p, t, l)
  <2>1. [State(h, w, p, f, a) EXCEPT !.frozen = t] = State(h, w, p, t, a)
    BY DEF State
  <2>2. [State(h, w, p, t, a) EXCEPT !.alarm = l] = State(h, w, p, t, l)
    BY DEF State
  <2>. QED
    BY <2>1, <2>2, Zenon
<1>2. PICK f : f = FALSE
  OBVIOUS
<1>3. PICK t : t = TRUE
  OBVIOUS
<1>4. Live(h, w, p, a) = State(h, w, p, f, a) /\ Frozen(h, w, p, l) = State(h, w, p, t, l)
  BY <1>2, <1>3, Zenon DEF Live, Frozen, State
<1>5. [Live(h, w, p, a) EXCEPT !.frozen = TRUE, !.alarm = l]
        = [Live(h, w, p, a) EXCEPT !.frozen = t, !.alarm = l]
  BY <1>3, Zenon
<1>6. [State(h, w, p, f, a) EXCEPT !.frozen = t, !.alarm = l] = State(h, w, p, t, l)
  BY <1>1
<1>. QED
  BY <1>4, <1>5, <1>6, Zenon DEF Ring

(* What a round does to a category that is not frozen, with the numbers the *)
(* loop makes its stopper with.                                             *)
LEMMA Observed ==
  ASSUME Calibrated, NEW h \in Seq(BOOLEAN), NEW w, NEW p, NEW a, NEW x \in BOOLEAN
  PROVE  LET s == Append(h, x)
             v == WealthAfter(s, w, p, x)
             rings == Len(s) >= 4 /\ ~Stopper!Below(v, Stopper!Rational(20, 1))
         IN Stopper!Observe(Live(h, w, p, a), x) =
              IF rings THEN Frozen(s, v, RateAfter(s, p), Len(s))
              ELSE Live(s, v, RateAfter(s, p), a)
<1>. DEFINE st == Live(h, w, p, a)
            s == Append(h, x)
            v == WealthAfter(s, w, p, x)
            r == RateAfter(s, p)
            mid == Live(s, v, r, a)
            rings == Len(s) >= 4 /\ ~Stopper!Below(v, Stopper!Rational(20, 1))
<1>0. Calibration = 3 /\ MinRounds = 4 /\ Threshold = 20
  BY DEF Calibrated
<1>1. (Len(s) <= 3 <=> ~ (Len(s) > 3))
  <2>1. Len(s) \in Nat
    OBVIOUS
  <2>. QED
    BY <2>1
<1>2. st.history = h /\ st.wealth = w /\ st.p0 = p /\ ~st.frozen
  BY Zenon DEF Live
<1>3. /\ v = IF Len(s) > 3 THEN Stopper!Times(w, Stopper!Factor(x, p)) ELSE w
      /\ r = IF Len(s) = 3 THEN Stopper!Null(s) ELSE p
  BY <1>1, Zenon DEF WealthAfter, RateAfter
<1>4. Stopper!Observe(st, x) =
        IF st.frozen THEN st
        ELSE Stopper!Alarm(
               [st EXCEPT
                  !.history = Append(st.history, x),
                  !.p0 = IF Len(Append(st.history, x)) = Calibration
                         THEN Stopper!Null(Append(st.history, x)) ELSE st.p0,
                  !.wealth = IF Len(Append(st.history, x)) > Calibration
                             THEN Stopper!Times(st.wealth, Stopper!Factor(x, st.p0))
                             ELSE st.wealth])
  <2>. HIDE DEF st
  <2>. QED
    BY Zenon DEF Stopper!Observe
<1>. HIDE DEF s
<1>5. Stopper!Observe(st, x) = Stopper!Alarm(Put(st, s, r, v))
  <2>. HIDE DEF st, r, v
  <2>. QED
    BY <1>0, <1>2, <1>3, <1>4, Zenon DEF s, Put
<1>6. Stopper!Observe(st, x) = Stopper!Alarm(mid)
  <2>1. Put(st, s, r, v) = mid
    <3>. HIDE DEF r, v
    <3>. QED
        BY AfterRound
  <2>. QED
    BY <1>5, <2>1, Zenon
<1>. HIDE DEF v, r
<1>7. Stopper!Alarm(mid) = IF rings THEN Ring(mid, Len(s))
                           ELSE mid
  <2>1. mid.history = s /\ mid.wealth = v
    BY Zenon DEF Live
  <2>. HIDE DEF mid
  <2>. QED
    BY <1>0, <2>1, Zenon DEF Stopper!Alarm, Ring
<1>8. Ring(mid, Len(s)) = Frozen(s, v, r, Len(s))
  BY AfterAlarm
<1>9. Stopper!Observe(st, x) = IF rings THEN Frozen(s, v, r, Len(s))
                               ELSE Live(s, v, r, a)
  <2>. HIDE DEF rings
  <2>. QED
    BY <1>6, <1>7, <1>8, Zenon
<1>. QED
  BY <1>9, Zenon DEF st, s, v, r

-----------------------------------------------------------------------------
(* The state of a category.  Rated says what the calibration has set, Earned *)
(* what the wealth is backed by, Dead what it is when nothing was promoted.  *)

Waiting(h, w) == Len(h) <= 3 => w = Stopper!Rational(1, 1)
Rated(h, p) ==
  Len(h) >= 3 =>
    /\ p \in Rates
    /\ Stopper!Misses(FirstThree(h)) > 0 => p # NearlyOne
    /\ Stopper!Hits(FirstThree(h)) = 0 => p = HalfRate
Earned(h, w) ==
  Len(h) >= 3 =>
    /\ Stopper!Misses(Bets(h)) = 0 => w.num <= w.den
    /\ Stopper!Misses(FirstThree(h)) > 0 =>
         Backed(w, Stopper!Hits(Bets(h)), Stopper!Misses(Bets(h)))
DeadWealth(k) ==
  Stopper!Rational(CASE k = 1 -> 3 [] k = 2 -> 9 [] k = 3 -> 27 [] k = 4 -> 81
                     [] k = 5 -> 243 [] k = 6 -> 729 [] k = 7 -> 2187 [] OTHER -> 6561,
                   CASE k = 1 -> 2 [] k = 2 -> 4 [] k = 3 -> 8 [] k = 4 -> 16
                     [] k = 5 -> 32 [] k = 6 -> 64 [] k = 7 -> 128 [] OTHER -> 256)
Dead(h, w) ==
  Stopper!Hits(h) = 0 /\ Len(h) >= 4 => Len(h) - 3 \in 1..8 /\ w = DeadWealth(Len(h) - 3)

Worth(h, w, p) ==
  h \in Seq(BOOLEAN) /\ w \in Wealth /\ Waiting(h, w) /\ Rated(h, p) /\ Earned(h, w)
  /\ Dead(h, w)

LEMMA DeadWealths ==
  /\ DeadWealth(1) = [num |-> 3, den |-> 2] /\ DeadWealth(2) = [num |-> 9, den |-> 4]
  /\ DeadWealth(3) = [num |-> 27, den |-> 8] /\ DeadWealth(4) = [num |-> 81, den |-> 16]
  /\ DeadWealth(5) = [num |-> 243, den |-> 32] /\ DeadWealth(6) = [num |-> 729, den |-> 64]
  /\ DeadWealth(7) = [num |-> 2187, den |-> 128] /\ DeadWealth(8) = [num |-> 6561, den |-> 256]
BY DEF DeadWealth, Stopper!Rational

(* Eight bets on a category that never promotes reach the threshold, seven  *)
(* do not.                                                                  *)
LEMMA DeadIsRich ==
  ASSUME NEW k \in 1..8
  PROVE  Rich(DeadWealth(k)) <=> k = 8
<1>1. k = 1 \/ k = 2 \/ k = 3 \/ k = 4 \/ k = 5 \/ k = 6 \/ k = 7 \/ k = 8
  OBVIOUS
<1>2. ~Rich(DeadWealth(1)) /\ ~Rich(DeadWealth(2)) /\ ~Rich(DeadWealth(3))
  BY DeadWealths DEF Rich
<1>3. ~Rich(DeadWealth(4)) /\ ~Rich(DeadWealth(5)) /\ ~Rich(DeadWealth(6))
  BY DeadWealths DEF Rich
<1>4. ~Rich(DeadWealth(7)) /\ Rich(DeadWealth(8))
  BY DeadWealths DEF Rich
<1>. QED
  BY <1>1, <1>2, <1>3, <1>4

LEMMA DeadGrows ==
  ASSUME NEW k \in 1..7
  PROVE  DeadWealth(k + 1) = [num |-> DeadWealth(k).num * 3, den |-> DeadWealth(k).den * 2]
<1>1. k = 1 \/ k = 2 \/ k = 3 \/ k = 4 \/ k = 5 \/ k = 6 \/ k = 7
  OBVIOUS
<1>2. CASE k = 1
  BY <1>2, DeadWealths
<1>3. CASE k = 2
  BY <1>3, DeadWealths
<1>4. CASE k = 3
  BY <1>4, DeadWealths
<1>5. CASE k = 4
  BY <1>5, DeadWealths
<1>6. CASE k = 5
  BY <1>6, DeadWealths
<1>7. CASE k = 6
  BY <1>7, DeadWealths
<1>8. CASE k = 7
  BY <1>8, DeadWealths
<1>. QED
  BY <1>1, <1>2, <1>3, <1>4, <1>5, <1>6, <1>7, <1>8

LEMMA MissesNat ==
  ASSUME NEW s \in Seq(BOOLEAN)
  PROVE  /\ Stopper!Misses(s) = Len(s) - Stopper!Hits(s)
         /\ Stopper!Misses(s) \in Nat /\ Stopper!Hits(s) \in Nat
<1>1. Stopper!Misses(s) = Len(s) - Stopper!Hits(s)
  BY DEF Stopper!Misses
<1>2. Stopper!Hits(s) \in 0..Len(s)
  BY HitsAre, Zenon
<1>3. Len(s) \in Nat
  OBVIOUS
<1>. QED
  BY <1>1, <1>2, <1>3

LEMMA MissesAre ==
  ASSUME NEW s \in Seq(BOOLEAN), NEW x \in BOOLEAN
  PROVE  /\ x => /\ Stopper!Hits(Append(s, x)) = Stopper!Hits(s) + 1
                 /\ Stopper!Misses(Append(s, x)) = Stopper!Misses(s)
         /\ ~x => /\ Stopper!Hits(Append(s, x)) = Stopper!Hits(s)
                  /\ Stopper!Misses(Append(s, x)) = Stopper!Misses(s) + 1
<1>. DEFINE q == Append(s, x)
<1>1. Stopper!Hits(q) = IF x THEN Stopper!Hits(s) + 1 ELSE Stopper!Hits(s)
  BY HitsOfAppend
<1>2. q \in Seq(BOOLEAN) /\ Len(q) = Len(s) + 1 /\ Len(s) \in Nat
  OBVIOUS
<1>. HIDE DEF q
<1>3. /\ Stopper!Misses(s) = Len(s) - Stopper!Hits(s) /\ Stopper!Hits(s) \in Nat
      /\ Stopper!Misses(q) = Len(q) - Stopper!Hits(q)
  BY <1>2, MissesNat
<1>4. CASE x
  <2>1. Stopper!Hits(q) = Stopper!Hits(s) + 1
    BY <1>1, <1>4, Zenon
  <2>2. Stopper!Misses(q) = Stopper!Misses(s)
    BY <1>2, <1>3, <2>1
  <2>. QED
    BY <1>4, <2>1, <2>2, Zenon DEF q
<1>5. CASE ~x
  <2>1. Stopper!Hits(q) = Stopper!Hits(s)
    BY <1>1, <1>5, Zenon
  <2>2. Stopper!Misses(q) = Stopper!Misses(s) + 1
    BY <1>2, <1>3, <2>1
  <2>. QED
    BY <1>5, <2>1, <2>2, Zenon DEF q
<1>. QED
  BY <1>4, <1>5, Zenon

(* The end of the calibration.                                              *)
LEMMA CalibrationEnds ==
  ASSUME NEW s \in Seq(BOOLEAN), Len(s) = 3
  PROVE  Worth(s, Stopper!Rational(1, 1), Stopper!Null(s))
<1>. DEFINE w == Stopper!Rational(1, 1)
            p == Stopper!Null(s)
<1>1. FirstThree(s) = s /\ Bets(s) = <<>>
  BY Calibrating
<1>2. Stopper!Hits(s) \in 0..3 /\ Stopper!Misses(s) = 3 - Stopper!Hits(s)
  BY HitsAre DEF Stopper!Misses
<1>3. Stopper!Hits(<<>>) = 0 /\ Stopper!Misses(<<>>) = 0
  <2>1. <<>> \in Seq(BOOLEAN) /\ Len(<<>>) = 0
    OBVIOUS
  <2>2. Stopper!Hits(<<>>) \in 0..0
    BY <2>1, HitsAre
  <2>. QED
    BY <2>1, <2>2 DEF Stopper!Misses
<1>4. w.num = 1 /\ w.den = 1 /\ w \in Wealth
  BY DEF Stopper!Rational, Wealth
<1>5. /\ HalfRate \in Rates /\ TwoThirds \in Rates /\ NearlyOne \in Rates
      /\ HalfRate # NearlyOne /\ TwoThirds # NearlyOne
  <2>1. HalfRate.num = 1 /\ TwoThirds.num = 2 /\ NearlyOne.num = 99
    BY DEF HalfRate, TwoThirds, NearlyOne, Stopper!Rational
  <2>. QED
    BY <2>1 DEF Rates
<1>6. p = CASE Stopper!Hits(s) = 3 -> NearlyOne [] Stopper!Hits(s) = 2 -> TwoThirds
            [] OTHER -> HalfRate
  BY NullRate
<1>. HIDE DEF w, p
<1>7. Rated(s, p)
  BY <1>1, <1>2, <1>5, <1>6 DEF Rated
<1>8. Backed(w, 0, 0)
  <2>. DEFINE f == [i \in 0..0 |-> 1]
  <2>1. Doubling(f, 0) /\ f[0] = 1
    BY DEF Doubling
  <2>. HIDE DEF f
  <2>2. w.num * f[0] <= w.den * f[0]
    BY <1>4, <2>1
  <2>. QED
    BY <2>1, <2>2 DEF Backed
<1>9. Earned(s, w)
  BY <1>1, <1>3, <1>4, <1>8 DEF Earned
<1>10. Waiting(s, w) /\ Dead(s, w)
  BY DEF Waiting, Dead, w
<1>. QED
  BY <1>4, <1>7, <1>9, <1>10 DEF Worth, w, p

-----------------------------------------------------------------------------
(* What a round does to the wealth.                                         *)

LEMMA Reaching ==
  ASSUME NEW v \in Wealth
  PROVE  ~Stopper!Below(v, Stopper!Rational(20, 1)) <=> Rich(v)
<1>1. v.num \in Nat /\ v.den \in Nat
  BY DEF Wealth
<1>2. Stopper!Rational(20, 1).num = 20 /\ Stopper!Rational(20, 1).den = 1
  BY DEF Stopper!Rational
<1>. QED
  BY <1>1, <1>2 DEF Stopper!Below, Rich

LEMMA WealthBets ==
  ASSUME NEW w \in Wealth, NEW p \in Rates, NEW x \in BOOLEAN
  PROVE  LET v == Stopper!Times(w, Stopper!Factor(x, p))
         IN /\ v \in Wealth
            /\ x => v = [num |-> w.num, den |-> w.den * 2]
            /\ ~x => v = [num |-> w.num * (CASE p = HalfRate -> 3 [] p = TwoThirds -> 4
                                             [] OTHER -> 101),
                          den |-> w.den * 2]
<1>1. w.num \in Nat \ {0} /\ w.den \in Nat \ {0}
  BY DEF Wealth
<1>2. /\ HalfRate # TwoThirds /\ HalfRate # NearlyOne /\ TwoThirds # NearlyOne
      /\ p = HalfRate \/ p = TwoThirds \/ p = NearlyOne
  <2>1. HalfRate.num = 1 /\ TwoThirds.num = 2 /\ NearlyOne.num = 99
    BY DEF HalfRate, TwoThirds, NearlyOne, Stopper!Rational
  <2>. QED
    BY <2>1 DEF Rates
<1>3. ASSUME NEW n \in Nat \ {0}, NEW f, f = [num |-> n, den |-> 2]
      PROVE  /\ Stopper!Times(w, f) = [num |-> w.num * n, den |-> w.den * 2]
             /\ Stopper!Times(w, f) \in Wealth
  <2>1. Stopper!Times(w, f) = [num |-> w.num * n, den |-> w.den * 2]
    BY <1>3 DEF Stopper!Times, Stopper!Rational
  <2>2. w.num * n \in Nat \ {0} /\ w.den * 2 \in Nat \ {0}
    <3>1. \A a \in Nat \ {0}, b \in Nat \ {0} : a * b \in Nat \ {0}
      OBVIOUS
    <3>. QED
      BY <1>1, <3>1
  <2>. QED
    BY <2>1, <2>2 DEF Wealth
<1>4. CASE x
  <2>1. Stopper!Factor(x, p) = [num |-> 1, den |-> 2]
    BY <1>4, BetFactor, Zenon
  <2>2. w.num * 1 = w.num
    BY <1>1
  <2>3. /\ Stopper!Times(w, Stopper!Factor(x, p)) = [num |-> w.num * 1, den |-> w.den * 2]
        /\ Stopper!Times(w, Stopper!Factor(x, p)) \in Wealth
    BY <1>3, <2>1
  <2>. QED
    BY <1>4, <2>2, <2>3, Zenon
<1>5. CASE ~x
  <2>. DEFINE n == CASE p = HalfRate -> 3 [] p = TwoThirds -> 4 [] OTHER -> 101
  <2>0. /\ p = HalfRate => n = 3
        /\ p = TwoThirds => n = 4
        /\ p = NearlyOne => n = 101
    <3>. HIDE DEF HalfRate, TwoThirds, NearlyOne
    <3>. QED
      BY <1>2
  <2>1. n \in Nat \ {0}
    BY <1>2
  <2>2. Stopper!Factor(FALSE, p) = [num |-> n, den |-> 2]
    <3>1. CASE p = HalfRate
      <4>1. n = 3
        BY <2>0, <3>1, Zenon
      <4>. QED
        BY <3>1, <4>1, BetFactor, Zenon
    <3>2. CASE p = TwoThirds
      <4>1. n = 4
        BY <2>0, <3>2, Zenon
      <4>. QED
        BY <3>2, <4>1, BetFactor, Zenon
    <3>3. CASE p = NearlyOne
      <4>1. n = 101
        BY <2>0, <3>3, Zenon
      <4>. QED
        BY <3>3, <4>1, BetFactor, Zenon
    <3>. QED
      BY <1>2, <3>1, <3>2, <3>3, Zenon
  <2>3. x = FALSE
    BY <1>5, Zenon
  <2>4. Stopper!Factor(x, p) = [num |-> n, den |-> 2]
    BY <2>2, <2>3, Zenon
  <2>. HIDE DEF n
  <2>5. /\ Stopper!Times(w, Stopper!Factor(x, p)) = [num |-> w.num * n, den |-> w.den * 2]
        /\ Stopper!Times(w, Stopper!Factor(x, p)) \in Wealth
    BY <1>3, <2>1, <2>4
  <2>. QED
    BY <1>5, <2>5, Zenon DEF n
<1>. QED
  BY <1>4, <1>5, Zenon

(* A bet keeps what the wealth is worth, and only a miss makes it rich.     *)
LEMMA EarnedGrows ==
  ASSUME NEW h \in Seq(BOOLEAN), Len(h) >= 3, NEW x \in BOOLEAN, NEW p, NEW w \in Wealth,
         Rated(h, p), Earned(h, w)
  PROVE  Earned(Append(h, x), Stopper!Times(w, Stopper!Factor(x, p)))
<1>. DEFINE s == Append(h, x)
            v == Stopper!Times(w, Stopper!Factor(x, p))
            b == Bets(h)
<1>1. Len(s) >= 3
  OBVIOUS
<1>2. FirstThree(s) = FirstThree(h) /\ Bets(s) = Append(b, x)
  BY BetOfAppend
<1>3. b \in Seq(BOOLEAN) /\ FirstThree(h) \in Seq(BOOLEAN)
  BY Betting
<1>4. /\ p \in Rates
      /\ Stopper!Misses(FirstThree(h)) > 0 => p # NearlyOne
      /\ Stopper!Misses(b) = 0 => w.num <= w.den
      /\ Stopper!Misses(FirstThree(h)) > 0 => Backed(w, Stopper!Hits(b), Stopper!Misses(b))
  BY DEF Rated, Earned
<1>5. /\ v \in Wealth
      /\ x => v = [num |-> w.num, den |-> w.den * 2]
      /\ ~x => v = [num |-> w.num * (CASE p = HalfRate -> 3 [] p = TwoThirds -> 4
                                       [] OTHER -> 101),
                    den |-> w.den * 2]
  BY <1>4, WealthBets
<1>. HIDE DEF s, v, b
<1>6. /\ x => /\ Stopper!Hits(Append(b, x)) = Stopper!Hits(b) + 1
              /\ Stopper!Misses(Append(b, x)) = Stopper!Misses(b)
      /\ ~x => /\ Stopper!Hits(Append(b, x)) = Stopper!Hits(b)
               /\ Stopper!Misses(Append(b, x)) = Stopper!Misses(b) + 1
  BY <1>3, MissesAre
<1>7. Stopper!Hits(b) \in Nat /\ Stopper!Misses(b) \in Nat
  BY <1>3, MissesNat
<1>8. w.num \in Nat /\ w.den \in Nat
  BY DEF Wealth
<1>9. CASE x
  <2>1. v = [num |-> w.num, den |-> w.den * 2]
    BY <1>5, <1>9, Zenon
  <2>2. /\ Stopper!Hits(Bets(s)) = Stopper!Hits(b) + 1
        /\ Stopper!Misses(Bets(s)) = Stopper!Misses(b)
    BY <1>2, <1>6, <1>9, Zenon
  <2>3. w.num <= w.den => v.num <= v.den
    BY <1>8, <2>1
  <2>4. Backed(w, Stopper!Hits(b), Stopper!Misses(b))
          => Backed(v, Stopper!Hits(b) + 1, Stopper!Misses(b))
    BY <1>7, <2>1, BackedHit
  <2>5. Earned(s, v)
    BY <1>2, <1>4, <2>2, <2>3, <2>4 DEF Earned
  <2>. QED
    BY <2>5 DEF s, v
<1>10. CASE ~x
  <2>1. v = [num |-> w.num * (CASE p = HalfRate -> 3 [] p = TwoThirds -> 4 [] OTHER -> 101),
             den |-> w.den * 2]
    BY <1>5, <1>10, Zenon
  <2>2. /\ Stopper!Hits(Bets(s)) = Stopper!Hits(b)
        /\ Stopper!Misses(Bets(s)) = Stopper!Misses(b) + 1
    BY <1>2, <1>6, <1>10, Zenon
  <2>3. Stopper!Misses(Bets(s)) # 0
    BY <1>7, <2>2
  <2>4. ASSUME Stopper!Misses(FirstThree(h)) > 0
        PROVE  Backed(v, Stopper!Hits(b), Stopper!Misses(b) + 1)
    <3>1. p = HalfRate \/ p = TwoThirds
      BY <1>4, <2>4 DEF Rates
    <3>. DEFINE t == CASE p = HalfRate -> 3 [] p = TwoThirds -> 4 [] OTHER -> 101
    <3>2. t \in {3, 4}
      BY <3>1
    <3>3. v = [num |-> w.num * t, den |-> w.den * 2]
      BY <2>1, Zenon
    <3>4. Backed(w, Stopper!Hits(b), Stopper!Misses(b))
      BY <1>4, <2>4
    <3>. HIDE DEF t
    <3>5. Backed([num |-> w.num * t, den |-> w.den * 2], Stopper!Hits(b), Stopper!Misses(b) + 1)
      BY <1>7, <3>2, <3>4, BackedMiss
    <3>. QED
      BY <3>3, <3>5, Zenon
  <2>5. Earned(s, v)
    BY <1>2, <2>2, <2>3, <2>4, Zenon DEF Earned
  <2>. QED
    BY <2>5 DEF s, v
<1>. QED
  BY <1>9, <1>10, Zenon

LEMMA DeadStaysDead ==
  ASSUME NEW h \in Seq(BOOLEAN), Len(h) >= 3, NEW x \in BOOLEAN, NEW p, NEW w \in Wealth,
         Waiting(h, w), Rated(h, p), Dead(h, w), ~Rich(w)
  PROVE  Dead(Append(h, x), Stopper!Times(w, Stopper!Factor(x, p)))
<1>. DEFINE s == Append(h, x)
            v == Stopper!Times(w, Stopper!Factor(x, p))
            n == Len(h) - 3
<1>. SUFFICES ASSUME Stopper!Hits(s) = 0
              PROVE  Len(s) - 3 \in 1..8 /\ v = DeadWealth(Len(s) - 3)
  BY DEF Dead
<1>1. Len(s) = Len(h) + 1 /\ Len(h) \in Nat /\ n \in Nat
  OBVIOUS
<1>2. Stopper!Hits(h) \in Nat
  BY MissesNat
<1>3. ~x /\ Stopper!Hits(h) = 0
  <2>1. Stopper!Hits(s) = IF x THEN Stopper!Hits(h) + 1 ELSE Stopper!Hits(h)
    BY HitsOfAppend
  <2>2. ~x
    <3>1. x => Stopper!Hits(s) = Stopper!Hits(h) + 1
      BY <2>1, Zenon
    <3>2. Stopper!Hits(h) + 1 # 0
      BY <1>2
    <3>. QED
      BY <3>1, <3>2, Zenon
  <2>. QED
    BY <2>1, <2>2, Zenon
<1>4. Stopper!Hits(FirstThree(h)) = 0
  <2>1. \A i \in 1..Len(h) : ~h[i]
    BY <1>3, HitsAre
  <2>2. /\ FirstThree(h) \in Seq(BOOLEAN) /\ Len(FirstThree(h)) = 3
        /\ \A i \in 1..3 : FirstThree(h)[i] = h[i]
    BY Betting
  <2>3. \A i \in 1..3 : i \in 1..Len(h)
    BY <1>1
  <2>4. \A i \in 1..3 : ~FirstThree(h)[i]
    BY <2>1, <2>2, <2>3, Zenon
  <2>5. \A i \in 1..Len(FirstThree(h)) : ~FirstThree(h)[i]
    BY <2>2, <2>4, Zenon
  <2>. QED
    BY <2>2, <2>5, HitsAre
<1>5. p = HalfRate /\ p \in Rates
  BY <1>4 DEF Rated
<1>6. v = [num |-> w.num * 3, den |-> w.den * 2]
  <2>1. v = [num |-> w.num * (CASE p = HalfRate -> 3 [] p = TwoThirds -> 4 [] OTHER -> 101),
             den |-> w.den * 2]
    BY <1>3, <1>5, WealthBets
  <2>2. (CASE p = HalfRate -> 3 [] p = TwoThirds -> 4 [] OTHER -> 101) = 3
    <3>1. p # TwoThirds
      <4>1. HalfRate.num = 1 /\ TwoThirds.num = 2
        BY DEF HalfRate, TwoThirds, Stopper!Rational
      <4>. QED
        BY <1>5, <4>1
    <3>. QED
      BY <1>5, <3>1
  <2>. QED
    BY <2>1, <2>2, Zenon
<1>7. Len(s) - 3 = n + 1
  BY <1>1
<1>. HIDE DEF v, s
<1>8. CASE n = 0
  <2>1. w = [num |-> 1, den |-> 1]
    <3>1. Len(h) <= 3
      <4>1. \A l \in Nat : l - 3 = 0 => l <= 3
        OBVIOUS
      <4>. QED
        BY <1>1, <1>8, <4>1
    <3>. QED
      BY <3>1 DEF Waiting, Stopper!Rational
  <2>2. v = [num |-> 3, den |-> 2]
    BY <1>6, <2>1
  <2>3. n + 1 = 1
    BY <1>8
  <2>4. v = DeadWealth(n + 1)
    <3>1. v = DeadWealth(1)
      BY <2>2, DeadWealths, Zenon
    <3>. HIDE DEF n
    <3>. QED
      BY <2>3, <3>1, Zenon
  <2>5. n + 1 \in 1..8
    BY <2>3
  <2>. QED
    BY <1>7, <2>4, <2>5, Zenon
<1>9. CASE n # 0
  <2>1. Len(h) >= 4
    <3>1. \A l \in Nat : l >= 3 /\ l - 3 # 0 => l >= 4
      OBVIOUS
    <3>. QED
      BY <1>1, <1>9, <3>1
  <2>2. n \in 1..8 /\ w = DeadWealth(n)
    BY <1>3, <2>1 DEF Dead
  <2>. HIDE DEF n
  <2>3. n # 8
    BY <2>2, DeadIsRich
  <2>4. n \in 1..7
    BY <2>2, <2>3
  <2>5. DeadWealth(n + 1) = [num |-> DeadWealth(n).num * 3, den |-> DeadWealth(n).den * 2]
    BY <2>4, DeadGrows
  <2>6. v = DeadWealth(n + 1)
    BY <1>6, <2>2, <2>5, Zenon
  <2>7. n + 1 \in 1..8
    BY <2>4
  <2>. QED
    BY <1>7, <2>6, <2>7, Zenon
<1>. QED
  BY <1>8, <1>9, Zenon

-----------------------------------------------------------------------------
(* What a round keeps, and what the round of the alarm was.                 *)

LEMMA MissEnriches ==
  ASSUME NEW w \in Wealth, NEW p \in Rates, NEW x \in BOOLEAN, ~Rich(w),
         Rich(Stopper!Times(w, Stopper!Factor(x, p)))
  PROVE  ~x
<1>. DEFINE v == Stopper!Times(w, Stopper!Factor(x, p))
<1>1. x => v = [num |-> w.num, den |-> w.den * 2]
  BY WealthBets
<1>. HIDE DEF v
<1>2. v = [num |-> w.num, den |-> w.den * 2] => ~Rich(v)
  <2>1. w.num \in Nat /\ w.den \in Nat /\ ~ (w.num >= 20 * w.den)
    BY DEF Wealth, Rich
  <2>2. ~ (w.num >= 20 * (w.den * 2))
    BY <2>1
  <2>. QED
    BY <2>2 DEF Rich
<1>3. Rich(v)
  BY DEF v
<1>. QED
  BY <1>1, <1>2, <1>3, Zenon

LEMMA WorthGrows ==
  ASSUME NEW h, NEW w, NEW p, NEW x \in BOOLEAN, Worth(h, w, p), ~Rich(w)
  PROVE  LET s == Append(h, x)
             v == WealthAfter(s, w, p, x)
         IN /\ Worth(s, v, RateAfter(s, p))
            /\ Rich(v) => Len(s) >= 4 /\ ~x
<1>. DEFINE s == Append(h, x)
            v == WealthAfter(s, w, p, x)
            r == RateAfter(s, p)
<1>1. h \in Seq(BOOLEAN) /\ w \in Wealth
  BY DEF Worth
<1>2. Waiting(h, w) /\ Rated(h, p) /\ Earned(h, w) /\ Dead(h, w)
  BY Zenon DEF Worth
<1>3. s \in Seq(BOOLEAN) /\ Len(s) = Len(h) + 1 /\ Len(h) \in Nat
  BY <1>1
<1>4. CASE Len(h) < 2
  <2>. HIDE DEF s
  <2>1. Len(s) < 3 /\ Len(h) <= 3 /\ Len(s) <= 3 /\ Len(s) # 3
    BY <1>3, <1>4
  <2>2. v = w /\ r = p
    BY <2>1, Zenon DEF WealthAfter, RateAfter
  <2>. HIDE DEF v, r
  <2>3. v = Stopper!Rational(1, 1)
    BY <1>2, <2>1, <2>2, Zenon DEF Waiting
  <2>4. Waiting(s, v)
    BY <2>3, Zenon DEF Waiting
  <2>5. ~ (Len(s) >= 3) /\ ~ (Len(s) >= 4)
    BY <1>3, <2>1
  <2>6. Rated(s, r) /\ Earned(s, v) /\ Dead(s, v)
    BY <2>5, Zenon DEF Rated, Earned, Dead
  <2>7. Worth(s, v, r) /\ ~Rich(v)
    BY <1>1, <1>3, <2>2, <2>4, <2>6, Zenon DEF Worth
  <2>. QED
    BY <2>7, Zenon DEF s, v, r
<1>5. CASE Len(h) = 2
  <2>. HIDE DEF s
  <2>1. Len(s) = 3 /\ Len(h) <= 3 /\ Len(s) <= 3
    BY <1>3, <1>5
  <2>2. v = w /\ r = Stopper!Null(s)
    BY <2>1, Zenon DEF WealthAfter, RateAfter
  <2>. HIDE DEF v, r
  <2>3. v = Stopper!Rational(1, 1)
    BY <1>2, <2>1, <2>2, Zenon DEF Waiting
  <2>4. Worth(s, Stopper!Rational(1, 1), Stopper!Null(s))
    BY <1>3, <2>1, CalibrationEnds
  <2>5. Worth(s, v, r) /\ ~Rich(v)
    BY <2>2, <2>3, <2>4, Zenon
  <2>. QED
    BY <2>5, Zenon DEF s, v, r
<1>6. CASE Len(h) >= 3
  <2>1. FirstThree(s) = FirstThree(h)
    BY <1>1, <1>6, BetOfAppend
  <2>. DEFINE u == Stopper!Times(w, Stopper!Factor(x, p))
  <2>2. Earned(s, u)
    BY <1>1, <1>2, <1>6, EarnedGrows
  <2>3. Dead(s, u)
    BY <1>1, <1>2, <1>6, DeadStaysDead
  <2>. HIDE DEF s
  <2>4. Len(s) >= 4 /\ ~ (Len(s) <= 3) /\ Len(s) # 3 /\ Len(s) >= 3
    BY <1>3, <1>6
  <2>5. v = u /\ r = p
    BY <2>4, Zenon DEF WealthAfter, RateAfter
  <2>6. p \in Rates /\ Rated(s, p)
    BY <1>2, <1>6, <2>1, Zenon DEF Rated
  <2>7. u \in Wealth
    BY <1>1, <2>6, WealthBets
  <2>8. Rich(u) => ~x
    BY <1>1, <2>6, MissEnriches
  <2>. HIDE DEF v, r, u
  <2>9. Waiting(s, u)
    BY <2>4, Zenon DEF Waiting
  <2>10. Worth(s, v, r)
    BY <1>3, <2>2, <2>3, <2>5, <2>6, <2>7, <2>9, Zenon DEF Worth
  <2>. QED
    BY <2>4, <2>5, <2>8, <2>10, Zenon DEF s, v, r
<1>7. Len(h) < 2 \/ Len(h) = 2 \/ Len(h) >= 3
  <2>1. \A l \in Nat : l < 2 \/ l = 2 \/ l >= 3
    OBVIOUS
  <2>. QED
    BY <1>3, <2>1, Zenon
<1>. QED
  BY <1>4, <1>5, <1>6, <1>7, Zenon

(* A category is not rich and runs, or it became rich in its last round,     *)
(* which missed.                                                            *)
Running(st) == \E h, w, p, a : Worth(h, w, p) /\ ~Rich(w) /\ st = Live(h, w, p, a)
Stopped(st) ==
  \E h, w, p :
    /\ Worth(h, w, p) /\ Rich(w) /\ Len(h) >= 4 /\ h[Len(h)] = FALSE
    /\ st = Frozen(h, w, p, Len(h))

LEMMA FreshRuns == Running(Stopper!Fresh)
<1>. DEFINE h == <<>>
            w == Stopper!Rational(1, 1)
            p == Stopper!Rational(0, 1)
<1>1. h \in Seq(BOOLEAN) /\ Len(h) = 0
  OBVIOUS
<1>2. w \in Wealth /\ ~Rich(w)
  BY DEF Stopper!Rational, Wealth, Rich
<1>3. Waiting(h, w)
  BY DEF Waiting
<1>4. ~ (Len(h) >= 3) /\ ~ (Len(h) >= 4)
  BY <1>1
<1>. HIDE DEF h
<1>5. Rated(h, p) /\ Earned(h, w) /\ Dead(h, w)
  BY <1>4, Zenon DEF Rated, Earned, Dead
<1>6. Worth(h, w, p)
  BY <1>1, <1>2, <1>3, <1>5, Zenon DEF Worth
<1>7. Stopper!Fresh = Live(h, w, p, 0)
  BY Zenon DEF Stopper!Fresh, Live, h
<1>. QED
  BY <1>2, <1>6, <1>7, Zenon DEF Running

LEMMA RoundKeeps ==
  ASSUME Calibrated, NEW st, NEW x \in BOOLEAN, Running(st) \/ Stopped(st)
  PROVE  Running(Stopper!Observe(st, x)) \/ Stopped(Stopper!Observe(st, x))
<1>1. CASE Stopped(st)
  <2>1. PICK h, w, p : st = Frozen(h, w, p, Len(h))
    BY <1>1, Zenon DEF Stopped
  <2>2. st.frozen
    BY <2>1, Zenon DEF Frozen
  <2>3. Stopper!Observe(st, x) = st
    BY <2>2, Zenon DEF Stopper!Observe
  <2>. QED
    BY <1>1, <2>3, Zenon
<1>2. CASE Running(st)
  <2>1. PICK h, w, p, a : Worth(h, w, p) /\ ~Rich(w) /\ st = Live(h, w, p, a)
    BY <1>2, Zenon DEF Running
  <2>. DEFINE s == Append(h, x)
              v == WealthAfter(s, w, p, x)
              r == RateAfter(s, p)
              rings == Len(s) >= 4 /\ ~Stopper!Below(v, Stopper!Rational(20, 1))
  <2>2. h \in Seq(BOOLEAN)
    BY <2>1, Zenon DEF Worth
  <2>3. Worth(s, v, r) /\ (Rich(v) => Len(s) >= 4 /\ ~x)
    BY <2>1, WorthGrows
  <2>4. s[Len(s)] = x
    BY <2>2
  <2>5. Stopper!Observe(Live(h, w, p, a), x) =
          IF rings THEN Frozen(s, v, r, Len(s)) ELSE Live(s, v, r, a)
    BY <2>2, Observed
  <2>. HIDE DEF s, v, r
  <2>6. v \in Wealth
    BY <2>3, Zenon DEF Worth
  <2>7. rings <=> Rich(v)
    BY <2>3, <2>6, Reaching, Zenon
  <2>8. CASE Rich(v)
    <3>1. Stopper!Observe(st, x) = Frozen(s, v, r, Len(s))
      BY <2>1, <2>5, <2>7, <2>8, Zenon
    <3>2. s[Len(s)] = FALSE
      BY <2>3, <2>4, <2>8, Zenon
    <3>. QED
      BY <2>3, <2>8, <3>1, <3>2, Zenon DEF Stopped
  <2>9. CASE ~Rich(v)
    <3>1. Stopper!Observe(st, x) = Live(s, v, r, a)
      BY <2>1, <2>5, <2>7, <2>9, Zenon
    <3>. QED
      BY <2>3, <2>9, <3>1, Zenon DEF Running
  <2>. QED
    BY <2>8, <2>9, Zenon
<1>. QED
  BY <1>1, <1>2, Zenon

-----------------------------------------------------------------------------
(* What FreezeEarned says of one category.                                  *)
Deserved(st) ==
  LET s == st.history
      first == SubSeq(s, 1, 3)
      bets == SubSeq(s, 4, Len(s))
  IN /\ st.frozen =>
          /\ st.alarm = Len(s) /\ ~Stopper!Last(s)
          /\ IF Stopper!Misses(first) = 0 THEN Stopper!Misses(bets) > 0
             ELSE Stopper!Misses(bets) >= Stopper!Hits(bets) + 5
     /\ Stopper!Hits(s) = 0 => (st.frozen <=> Len(bets) >= 8)

LEMMA RunningDeserves ==
  ASSUME NEW st, Running(st)
  PROVE  Deserved(st)
<1>1. PICK h, w, p, a : Worth(h, w, p) /\ ~Rich(w) /\ st = Live(h, w, p, a)
  BY Zenon DEF Running
<1>2. st.history = h /\ ~st.frozen
  BY <1>1, Zenon DEF Live
<1>3. h \in Seq(BOOLEAN) /\ Dead(h, w)
  BY <1>1, Zenon DEF Worth
<1>4. ASSUME Stopper!Hits(h) = 0, Len(Bets(h)) >= 8
      PROVE  FALSE
  <2>1. Len(h) \in Nat
    BY <1>3
  <2>2. Len(h) >= 3
    <3>. SUFFICES ASSUME ~ (Len(h) >= 3) PROVE FALSE
      OBVIOUS
    <3>1. Bets(h) = <<>>
      BY <1>3, <2>1 DEF Bets
    <3>2. Len(<<>>) = 0
      OBVIOUS
    <3>. QED
      BY <1>4, <3>1, <3>2
  <2>3. Len(Bets(h)) = Len(h) - 3
    BY <1>3, <2>2, Betting
  <2>4. Len(h) >= 4 /\ Len(h) - 3 >= 8
    BY <1>4, <2>1, <2>3
  <2>5. Len(h) - 3 \in 1..8 /\ w = DeadWealth(Len(h) - 3)
    BY <1>3, <1>4, <2>4 DEF Dead
  <2>6. Len(h) - 3 = 8
    <3>1. \A n \in 1..8 : n >= 8 => n = 8
      OBVIOUS
    <3>. QED
      BY <2>4, <2>5, <3>1, Zenon
  <2>7. Rich(DeadWealth(Len(h) - 3))
    BY <2>5, <2>6, DeadIsRich
  <2>. QED
    BY <1>1, <2>5, <2>7, Zenon
<1>. QED
  BY <1>2, <1>4, Zenon DEF Deserved, Bets

LEMMA StoppedDeserves ==
  ASSUME NEW st, Stopped(st)
  PROVE  Deserved(st)
<1>1. PICK h, w, p :
        /\ Worth(h, w, p) /\ Rich(w) /\ Len(h) >= 4 /\ h[Len(h)] = FALSE
        /\ st = Frozen(h, w, p, Len(h))
  BY Zenon DEF Stopped
<1>2. st.history = h /\ st.frozen /\ st.alarm = Len(h)
  BY <1>1, Zenon DEF Frozen
<1>3. h \in Seq(BOOLEAN) /\ w \in Wealth /\ Earned(h, w) /\ Dead(h, w)
  BY <1>1, Zenon DEF Worth
<1>4. Len(h) \in Nat /\ Len(h) >= 3
  BY <1>1, <1>3
<1>5. ~Stopper!Last(h)
  BY <1>1, Zenon DEF Stopper!Last
<1>6. /\ FirstThree(h) \in Seq(BOOLEAN)
      /\ Bets(h) \in Seq(BOOLEAN) /\ Len(Bets(h)) = Len(h) - 3
  BY <1>3, <1>4, Betting
<1>7. w.num \in Nat /\ w.den \in Nat \ {0} /\ w.num >= 20 * w.den
  BY <1>1, <1>3 DEF Wealth, Rich
<1>8. /\ Stopper!Misses(FirstThree(h)) \in Nat /\ Stopper!Misses(Bets(h)) \in Nat
      /\ Stopper!Hits(Bets(h)) \in Nat
  BY <1>6, MissesNat
<1>9. Stopper!Misses(Bets(h)) > 0
  <2>1. ~ (w.num <= w.den)
    BY <1>7
  <2>2. Stopper!Misses(Bets(h)) # 0
    BY <1>3, <1>4, <2>1, Zenon DEF Earned
  <2>. QED
    BY <1>8, <2>2
<1>10. ASSUME Stopper!Misses(FirstThree(h)) # 0
       PROVE  Stopper!Misses(Bets(h)) >= Stopper!Hits(Bets(h)) + 5
  <2>1. Stopper!Misses(FirstThree(h)) > 0
    BY <1>8, <1>10
  <2>2. Backed(w, Stopper!Hits(Bets(h)), Stopper!Misses(Bets(h)))
    BY <1>3, <1>4, <2>1, Zenon DEF Earned
  <2>. QED
    BY <1>3, <1>7, <1>8, <2>2, BackedEarns
<1>11. ASSUME Stopper!Hits(h) = 0
       PROVE  Len(Bets(h)) >= 8
  <2>1. Len(h) - 3 \in 1..8 /\ w = DeadWealth(Len(h) - 3)
    BY <1>1, <1>3, <1>11, Zenon DEF Dead
  <2>2. Rich(DeadWealth(Len(h) - 3))
    BY <1>1, <2>1, Zenon
  <2>3. Len(h) - 3 = 8
    BY <2>1, <2>2, DeadIsRich, Zenon
  <2>4. 8 >= 8
    OBVIOUS
  <2>. QED
    BY <1>6, <2>3, <2>4, Zenon
<1>. QED
  BY <1>2, <1>5, <1>9, <1>10, <1>11, Zenon DEF Deserved, FirstThree, Bets

StopperInv ==
  /\ stopper = [c \in Categories |-> stopper[c]]
  /\ \A c \in Categories : Running(stopper[c]) \/ Stopped(stopper[c])

LEMMA StopperStep ==
  ASSUME Calibrated, StopperInv, [Stopper!Next]_stopperVars
  PROVE  StopperInv'
<1>1. ASSUME UNCHANGED stopper PROVE StopperInv'
  BY <1>1, Zenon DEF StopperInv
<1>2. CASE Stopper!BeginCycle \/ Stopper!Abort \/ UNCHANGED stopperVars
           \/ \E c \in Categories, promotes \in BOOLEAN : Stopper!WorkOnTask(c, promotes)
  <2>1. UNCHANGED stopper
    BY <1>2, Zenon DEF Stopper!BeginCycle, Stopper!Abort, Stopper!WorkOnTask, stopperVars
  <2>. QED
    BY <1>1, <2>1
<1>3. CASE Stopper!EndCycle
  <2>1. stopper' = [c \in Categories |-> IF c \in attempted
                                         THEN Stopper!Observe(stopper[c], c \in promoted)
                                         ELSE stopper[c]]
    BY <1>3, Zenon DEF Stopper!EndCycle
  <2>2. ASSUME NEW c \in Categories
        PROVE  Running(stopper'[c]) \/ Stopped(stopper'[c])
    <3>1. PICK x \in BOOLEAN : x = (c \in promoted)
      <4>1. (c \in promoted) \in BOOLEAN
        OBVIOUS
      <4>. QED
        BY <4>1, Zenon
    <3>2. stopper'[c] = IF c \in attempted THEN Stopper!Observe(stopper[c], x)
                        ELSE stopper[c]
      BY <2>1, <3>1, Zenon
    <3>3. Running(stopper[c]) \/ Stopped(stopper[c])
      BY Zenon DEF StopperInv
    <3>4. Running(Stopper!Observe(stopper[c], x)) \/ Stopped(Stopper!Observe(stopper[c], x))
      BY <3>3, RoundKeeps
    <3>. QED
      BY <3>2, <3>3, <3>4, Zenon
  <2>3. stopper' = [c \in Categories |-> stopper'[c]]
    BY <2>1
  <2>. QED
    BY <2>2, <2>3, Zenon DEF StopperInv
<1>4. CASE Stopper!Restart
  <2>1. stopper' = [c \in Categories |-> Stopper!Fresh]
    BY <1>4, Zenon DEF Stopper!Restart
  <2>2. \A c \in Categories : stopper'[c] = Stopper!Fresh
    BY <2>1, Zenon
  <2>3. stopper' = [c \in Categories |-> stopper'[c]]
    BY <2>1
  <2>. QED
    BY <2>2, <2>3, FreshRuns, Zenon DEF StopperInv
<1>. QED
  BY <1>2, <1>3, <1>4, Zenon DEF Stopper!Next

(* A category is frozen on evidence, with the numbers the loop makes its     *)
(* stopper with (loop.py:260, evolution.py:37-75), for any categories and    *)
(* any number of rounds: five misses more than promotions since the          *)
(* calibration, or a miss after a calibration without one, the last round a *)
(* miss; without a promotion, after eight bets exactly.                     *)
THEOREM FreezesAreEarned == Calibrated => (Stopper!Spec => []FreezeEarned)
<1>. SUFFICES ASSUME Calibrated PROVE Stopper!Spec => []FreezeEarned
  OBVIOUS
<1>1. Stopper!Init => StopperInv
  <2>. SUFFICES ASSUME Stopper!Init PROVE StopperInv
    OBVIOUS
  <2>1. stopper = [c \in Categories |-> Stopper!Fresh]
    BY Zenon DEF Stopper!Init
  <2>2. \A c \in Categories : stopper[c] = Stopper!Fresh
    BY <2>1, Zenon
  <2>3. stopper = [c \in Categories |-> stopper[c]]
    BY <2>1
  <2>. QED
    BY <2>2, <2>3, FreshRuns, Zenon DEF StopperInv
<1>2. StopperInv => FreezeEarned
  <2>. SUFFICES ASSUME StopperInv PROVE FreezeEarned
    OBVIOUS
  <2>1. \A c \in Categories : Deserved(stopper[c])
    BY RunningDeserves, StoppedDeserves, Zenon DEF StopperInv
  <2>2. Calibration = 3 /\ Calibration + 1 = 4
    BY DEF Calibrated
  <2>. QED
    BY <2>1, <2>2, Zenon DEF FreezeEarned, Stopper!FreezeEarned, Deserved
<1>3. StopperInv /\ [Stopper!Next]_stopperVars => StopperInv'
  BY StopperStep
<1>. QED
  BY <1>1, <1>2, <1>3, PTL DEF Stopper!Spec, Stopper!vars, stopperVars
=============================================================================
