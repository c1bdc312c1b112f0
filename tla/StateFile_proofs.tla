-------------------------- MODULE StateFile_proofs --------------------------
(***************************************************************************)
(* The state file, for any processes, entries and faults: it is never in   *)
(* part what was written, and, while nobody edits it and it can be read,   *)
(* it is the one cell of module StateCell.                                 *)
(***************************************************************************)
EXTENDS MCStateFile, TLAPS

Texts == {Bad, Torn} \cup SUBSET Entry
File == [text : Texts, synced : BOOLEAN]

\* The variables as functions and records; who writes has a temporary file.
Types ==
    /\ path \in File \cup {Gone} /\ durable \in File \cup {Gone}
    /\ temp \in [Writer -> File \cup {Gone}]
    /\ aside \subseteq Texts
    /\ lock \in Writer \cup {None}
    /\ step \in [Proc -> Steps]
    /\ raw \in [Proc -> Texts \cup {Gone, Unreadable}]
    /\ mine \in [Proc -> SUBSET Entry]
    /\ \A p \in Writer : step[p] \in {"write", "sync", "rename"} => temp[p] # Gone

Count == faults \in 0..MaxFaults

LEMMA WritersAreProcs == Writer \subseteq Proc
  BY DEF Proc

LEMMA NotGone == ASSUME NEW f \in File PROVE f # Gone
<1>1. f = [text |-> f.text, synced |-> f.synced] /\ f.text \in Texts /\ f.synced \in BOOLEAN
  BY DEF File
<1> QED BY <1>1, TextsDiffer DEF Texts

\* Whatever is read, what is taken from it are entries.
LEMMA ParsedIsEntries ==
    ASSUME NEW t \in Texts \cup {Gone, Unreadable}
    PROVE  Parsed(t) \in SUBSET Entry
  BY MendedIsEntry DEF Parsed, StateFromDict, Texts

LEMMA OnDiskIsFile ==
    ASSUME NEW f \in File \cup {Gone}
    PROVE  OnDisk(f) \in File \cup {Gone}
<1>1. [text |-> Torn, synced |-> TRUE] \in File BY DEF File, Texts
<1> QED BY <1>1 DEF OnDisk

LEMMA TypesInit == Init => Types
  BY DEF Init, Types, Steps, Proc

-----------------------------------------------------------------------------
(* The steps of one process *)

LEMMA WriterTypes ==
    ASSUME Types, NEW p \in Writer,
           \/ Lock(p) \/ Change(p) \/ MakeTemp(p) \/ Write(p) \/ Sync(p)
           \/ Rename(p) \/ WriteFails(p) \/ Unlink(p) \/ Release(p)
    PROVE  Types'
<1> USE WritersAreProcs DEF Types, Steps, Goto, Forget, files
<1>1. CASE Lock(p) BY <1>1 DEF Lock
<1>2. CASE Change(p)
  <2>1. mine' \in [Proc -> SUBSET Entry] BY <1>2 DEF Change, Sane
  <2> QED BY <1>2, <2>1 DEF Change
<1>3. CASE MakeTemp(p)
  <2>1. [text |-> Torn, synced |-> FALSE] \in File BY DEF File, Texts
  <2> QED BY <1>3, <2>1, NotGone DEF MakeTemp
<1>4. CASE Write(p)
  <2>1. temp[p] \in File BY <1>4 DEF Write
  <2>2. [temp[p] EXCEPT !.text = mine[p]] \in File BY <2>1 DEF File, Texts
  <2>3. temp' = [temp EXCEPT ![p] = [temp[p] EXCEPT !.text = mine[p]]] BY <1>4 DEF Write
  <2> QED BY <1>4, <2>2, <2>3, NotGone DEF Write
<1>5. CASE Sync(p)
  <2>1. temp[p] \in File BY <1>5 DEF Sync
  <2>2. [temp[p] EXCEPT !.synced = TRUE] \in File BY <2>1 DEF File
  <2>3. temp' = [temp EXCEPT ![p] = [temp[p] EXCEPT !.synced = TRUE]] BY <1>5 DEF Sync
  <2> QED BY <1>5, <2>2, <2>3, NotGone DEF Sync
<1>6. CASE Rename(p) BY <1>6 DEF Rename
<1>7. CASE WriteFails(p) BY <1>7 DEF WriteFails
<1>8. CASE Unlink(p) BY <1>8 DEF Unlink
<1>9. CASE Release(p) BY <1>9 DEF Release
<1> QED BY <1>1, <1>2, <1>3, <1>4, <1>5, <1>6, <1>7, <1>8, <1>9

LEMMA ReaderTypes ==
    ASSUME Types, NEW p \in Proc, Read(p) \/ Parse(p) \/ Quarantine(p) \/ Crash(p) \/ Look(p)
    PROVE  Types'
<1> USE WritersAreProcs DEF Types, Steps, Goto, Forget, files
<1>1. CASE Read(p) BY <1>1 DEF Read, File
<1>2. CASE Parse(p)
  <2>1. Parsed(raw[p]) \in SUBSET Entry BY ParsedIsEntries
  <2>2. mine' \in [Proc -> SUBSET Entry] BY <1>2, <2>1 DEF Parse
  <2>3. step' \in [Proc -> Steps] BY <1>2 DEF Parse, AfterLoad
  <2>4. raw' \in [Proc -> Texts \cup {Gone, Unreadable}] BY <1>2 DEF Parse
  <2>5. \A q \in Writer : step'[q] \in {"write", "sync", "rename"} => temp'[q] # Gone
    BY <1>2 DEF Parse, AfterLoad
  <2> QED BY <1>2, <2>2, <2>3, <2>4, <2>5 DEF Parse
<1>3. CASE Quarantine(p)
  <2>1. path' \in File \cup {Gone} /\ aside' \subseteq Texts BY <1>3 DEF Quarantine, File
  <2> QED BY <1>3, <2>1 DEF Quarantine, AfterLoad
<1>4. CASE Crash(p) BY <1>4 DEF Crash
<1>5. CASE Look(p) BY <1>5 DEF Look
<1> QED BY <1>1, <1>2, <1>3, <1>4, <1>5

LEMMA MachineTypes == Types /\ (FlushDirectory \/ PowerFails \/ Damage) => Types'
<1> SUFFICES ASSUME Types, FlushDirectory \/ PowerFails \/ Damage
             PROVE  Types'
  OBVIOUS
<1> USE WritersAreProcs DEF Types, Steps
<1>1. CASE FlushDirectory BY <1>1 DEF FlushDirectory
<1>2. CASE PowerFails
  <2>1. OnDisk(durable) \in File \cup {Gone} BY OnDiskIsFile
  <2> QED BY <1>2, <2>1 DEF PowerFails
<1>3. CASE Damage
  <2>1. path \in File BY <1>3 DEF Damage
  <2>2. [path EXCEPT !.text = Bad] \in File BY <2>1 DEF File, Texts
  <2>3. ASSUME NEW t \in SUBSET Entry PROVE [text |-> t, synced |-> TRUE] \in File
    BY DEF File, Texts
  <2>4. path' \in File BY <1>3, <2>2, <2>3 DEF Damage
  <2> QED BY <1>3, <2>4 DEF Damage
<1> QED BY <1>1, <1>2, <1>3

\* Which process takes the step, or that the machine does.
LEMMA Split ==
    ASSUME [Next]_vars
    PROVE  \/ \E p \in Writer :
                 \/ Lock(p) \/ Change(p) \/ MakeTemp(p) \/ Write(p) \/ Sync(p)
                 \/ Rename(p) \/ WriteFails(p) \/ Unlink(p) \/ Release(p)
           \/ \E p \in Proc : Read(p) \/ Parse(p) \/ Quarantine(p) \/ Crash(p) \/ Look(p)
           \/ FlushDirectory \/ PowerFails \/ Damage
           \/ UNCHANGED vars
  BY DEF Next, Proc

LEMMA TypesStep == Types /\ [Next]_vars => Types'
<1>1. Types /\ UNCHANGED vars => Types' BY DEF Types, vars, files
<1> QED BY <1>1, Split, WriterTypes, ReaderTypes, MachineTypes

LEMMA CountStep == Count /\ [Next]_vars => Count'
<1>1. Count /\ UNCHANGED faults => Count' BY DEF Count
<1>2. ASSUME NEW kind, Count, Fault(kind) PROVE Count'
  BY <1>2, FaultsAreRight DEF Count, Fault
<1>3. ASSUME [Next]_vars PROVE UNCHANGED faults \/ \E kind \in {"write", "power", "crash", "read", "damage"} : Fault(kind)
  <2>1. ASSUME NEW p \in Writer,
               \/ Lock(p) \/ Change(p) \/ MakeTemp(p) \/ Write(p) \/ Sync(p)
               \/ Rename(p) \/ Unlink(p) \/ Release(p)
        PROVE UNCHANGED faults
    BY <2>1, Zenon DEF Lock, Change, MakeTemp, Write, Sync, Rename, Unlink, Release
  <2>2. ASSUME NEW p \in Writer, WriteFails(p) PROVE Fault("write") BY <2>2, Zenon DEF WriteFails
  <2>3. ASSUME NEW p \in Proc, Parse(p) \/ Quarantine(p) \/ Look(p) PROVE UNCHANGED faults
    BY <2>3, Zenon DEF Parse, Quarantine, Look
  <2>4. ASSUME NEW p \in Proc, Read(p) PROVE UNCHANGED faults \/ Fault("read") BY <2>4, Zenon DEF Read
  <2>5. ASSUME NEW p \in Proc, Crash(p) PROVE Fault("crash") BY <2>5, Zenon DEF Crash
  <2>6. FlushDirectory => UNCHANGED faults BY Zenon DEF FlushDirectory
  <2>7. PowerFails => Fault("power") BY Zenon DEF PowerFails
  <2>8. Damage => Fault("damage") BY Zenon DEF Damage
  <2>9. UNCHANGED vars => UNCHANGED faults BY Zenon DEF vars
  <2> QED BY <1>3, Split, <2>1, <2>2, <2>3, <2>4, <2>5, <2>6, <2>7, <2>8, <2>9
<1> QED BY <1>1, <1>2, <1>3

\* Every variable holds a value of its kind, in every reachable state.
THEOREM TypeCorrect == Spec => []TypeOK
<1>1. Init => Count BY FaultsAreRight DEF Init, Count
<1>2. Types /\ Count => TypeOK
  BY DEF Types, Count, TypeOK, IsFile, IsText, File, Texts
<1> QED BY <1>1, <1>2, TypesInit, TypesStep, CountStep, PTL DEF Spec

-----------------------------------------------------------------------------
(* Never half a state *)

Settled(f) == f # Gone => f.text # Torn /\ f.synced = TRUE

\* What stands at the path is written and on the disk; a file comes there whole.
Whole ==
    /\ Settled(path) /\ Settled(durable)
    /\ \A p \in Writer : /\ step[p] = "sync" => temp[p].text # Torn
                         /\ step[p] = "rename" => Settled(temp[p])
    /\ \A p \in Proc : raw[p] # Torn

LEMMA WholeInit == Init => Whole
  BY TextsDiffer DEF Init, Whole, Settled, Proc

LEMMA WholeStep == Types /\ Whole /\ [Next]_vars => Whole'
<1> SUFFICES ASSUME Types, Whole, [Next]_vars
             PROVE  Whole'
  OBVIOUS
<1> USE WritersAreProcs, TextsDiffer DEF Types, Whole, Settled, Goto, Forget, files
<1>1. ASSUME NEW p \in Writer, Lock(p) \/ Change(p) \/ MakeTemp(p)
      PROVE  Whole'
  BY <1>1 DEF Lock, Change, MakeTemp
<1>2. ASSUME NEW p \in Writer, Write(p)
      PROVE  Whole'
  <2>1. temp[p] \in File /\ temp'[p] = [temp[p] EXCEPT !.text = mine[p]] BY <1>2 DEF Write
  <2>2. temp'[p].text = mine[p] /\ mine[p] \in SUBSET Entry BY <2>1 DEF File
  <2>3. temp'[p].text # Torn BY <2>2
  <2> QED BY <1>2, <2>3 DEF Write
<1>3. ASSUME NEW p \in Writer, Sync(p)
      PROVE  Whole'
  <2>1. temp[p] \in File /\ temp'[p] = [temp[p] EXCEPT !.synced = TRUE] BY <1>3 DEF Sync
  <2>2. temp'[p].synced = TRUE /\ temp'[p].text = temp[p].text BY <2>1 DEF File
  <2> QED BY <1>3, <2>2 DEF Sync
<1>4. ASSUME NEW p \in Writer, Rename(p)
      PROVE  Whole'
  <2>1. path' = temp[p] /\ Settled(temp[p]) BY <1>4 DEF Rename
  <2>2. UNCHANGED durable /\ \A q \in Writer \ {p} : temp'[q] = temp[q] /\ step'[q] = step[q]
    BY <1>4 DEF Rename
  <2>3. step'[p] \in {"change", "idle"} BY <1>4 DEF Rename, Proc
  <2>4. \A q \in Proc : raw'[q] \in {raw[q], Gone} BY <1>4 DEF Rename, Proc
  <2> QED BY <2>1, <2>2, <2>3, <2>4
<1>5. ASSUME NEW p \in Writer, WriteFails(p) \/ Unlink(p) \/ Release(p)
      PROVE  Whole'
  BY <1>5 DEF WriteFails, Unlink, Release
<1>6. ASSUME NEW p \in Proc, Read(p)
      PROVE  Whole'
  BY <1>6 DEF Read
<1>7. ASSUME NEW p \in Proc, Parse(p) \/ Look(p)
      PROVE  Whole'
  BY <1>7 DEF Parse, Look, AfterLoad
<1>8. ASSUME NEW p \in Proc, Quarantine(p)
      PROVE  Whole'
  BY <1>8 DEF Quarantine, AfterLoad
<1>9. ASSUME NEW p \in Proc, Crash(p)
      PROVE  Whole'
  BY <1>9 DEF Crash
<1>10. CASE FlushDirectory BY <1>10 DEF FlushDirectory
<1>11. CASE PowerFails
  <2>1. OnDisk(durable) = durable BY DEF OnDisk
  <2> QED BY <1>11, <2>1 DEF PowerFails
<1>12. CASE Damage
  <2>1. path \in File BY <1>12 DEF Damage
  <2>2. [path EXCEPT !.text = Bad].text = Bad /\ [path EXCEPT !.text = Bad].synced = path.synced
    BY <2>1 DEF File
  <2>3. path.synced = TRUE BY <2>1, NotGone
  <2>4. ASSUME path' = [path EXCEPT !.text = Bad]
        PROVE  path'.text # Torn /\ path'.synced = TRUE
    BY <2>2, <2>3, <2>4
  <2>5. ASSUME NEW t \in SUBSET Entry, path' = [text |-> t, synced |-> TRUE]
        PROVE  path'.text # Torn /\ path'.synced = TRUE
    <3>1. path'.text = t /\ path'.synced = TRUE BY <2>5
    <3> QED BY <3>1
  <2>6. path'.text # Torn /\ path'.synced = TRUE BY <1>12, <2>2, <2>3, <2>4, <2>5 DEF Damage
  <2> QED BY <1>12, <2>6 DEF Damage
<1>13. CASE UNCHANGED vars BY <1>13 DEF vars
<1> QED
  BY Split, <1>1, <1>2, <1>3, <1>4, <1>5, <1>6, <1>7, <1>8, <1>9, <1>10, <1>11, <1>12, <1>13

\* No crash, failed write or power cut leaves half a state at the path, and
\* nobody reads one (save_state: "Atomically write state as JSON").
THEOREM AlwaysWhole == Spec => []NeverTorn
<1>1. Whole => NeverTorn BY DEF Whole, Settled, NeverTorn
<1> QED BY <1>1, TypesInit, TypesStep, WholeInit, WholeStep, PTL DEF Spec

-----------------------------------------------------------------------------
(* One cell *)

\* What a writer has in memory is the file, but for the change it is making; no
\* other writer is under way, and what the file says has passed every check.
Holds(p) ==
    /\ step[p] # "idle" => lock = p
    /\ step[p] = "parse" => raw[p] = IF path = Gone THEN Gone ELSE path.text
    /\ step[p] = "change" => mine[p] = Entries(path)
    /\ step[p] \in {"temp", "write", "sync", "rename"} =>
          \E e \in Sane : mine[p] = Entries(path) \cup {e} \/ mine[p] = Entries(path) \ {e}
    /\ step[p] \in {"sync", "rename"} => temp[p].text = mine[p]
    /\ mine[p] \subseteq Sane

GoodFile(f) == f = Gone \/ f.text \in SUBSET Sane

OneCell ==
    /\ GoodFile(path) /\ GoodFile(durable)
    /\ \A p \in Writer : Holds(p)
    /\ \A p \in Proc : step[p] # "move" /\ (raw[p] = Gone \/ raw[p] \in SUBSET Sane)

\* An entry with nothing wrong is read as it was written.
LEMMA SaneIsKept == ASSUME NEW t \in SUBSET Sane PROVE StateFromDict(t) = t
<1>1. ASSUME NEW e \in Sane PROVE ~Fatal(e) /\ Repaired(e) = e
  BY <1>1 DEF Sane, Fatal, Repaired, SubnetFlaws, BindingFlaws, AdoptionFlaws, DnsFlaws, LimitFlaws
<1>2. {x \in t : ~Fatal(x)} = t BY <1>1
<1> QED BY <1>1, <1>2 DEF StateFromDict

LEMMA OneCellInit == Init => OneCell
  BY WritersAreProcs DEF Init, OneCell, Holds, GoodFile, Entries

LEMMA SaneIsText ==
    ASSUME NEW t \in SUBSET Sane
    PROVE  t \notin {Bad, Torn, Gone, Unreadable}
<1>1. t \in SUBSET Entry BY DEF Sane
<1> QED BY <1>1, TextsDiffer

LEMMA OneCellStep ==
    ASSUME Faults \cap {"damage", "read"} = {}, Types, Whole, OneCell, [Next]_vars
    PROVE  OneCell'
<1> USE WritersAreProcs DEF Types, Goto, Forget, files
<1>k. ASSUME NEW q \in Writer, UNCHANGED <<path, temp[q], step[q], raw[q], mine[q]>>,
             lock' = lock \/ step[q] = "idle"
      PROVE  Holds(q)'
  BY <1>k DEF OneCell, Holds, Entries
<1>1. ASSUME NEW p \in Writer, Lock(p) PROVE OneCell'
  <2>1. Holds(p)' BY <1>1 DEF Lock, OneCell, Holds
  <2>2. ASSUME NEW q \in Writer \ {p} PROVE Holds(q)'
    BY <1>1, <1>k, KindsDiffer DEF Lock, OneCell, Holds
  <2> QED BY <1>1, <2>1, <2>2 DEF Lock, OneCell, GoodFile
<1>2. ASSUME NEW p \in Writer, Change(p) PROVE OneCell'
  <2>1. Holds(p)' BY <1>2 DEF Change, OneCell, Holds, Entries
  <2>2. ASSUME NEW q \in Writer \ {p} PROVE Holds(q)'
    BY <1>2, <1>k DEF Change
  <2> QED BY <1>2, <2>1, <2>2 DEF Change, OneCell, GoodFile
<1>3. ASSUME NEW p \in Writer, MakeTemp(p) PROVE OneCell'
  <2>1. Holds(p)' BY <1>3 DEF MakeTemp, OneCell, Holds, Entries
  <2>2. ASSUME NEW q \in Writer \ {p} PROVE Holds(q)'
    BY <1>3, <1>k DEF MakeTemp
  <2> QED BY <1>3, <2>1, <2>2 DEF MakeTemp, OneCell, GoodFile
<1>4. ASSUME NEW p \in Writer, Write(p) PROVE OneCell'
  <2>0. temp[p] \in File /\ temp'[p] = [temp[p] EXCEPT !.text = mine[p]] BY <1>4 DEF Write
  <2>1. temp'[p].text = mine[p] BY <2>0 DEF File
  <2>2. Holds(p)' BY <1>4, <2>1 DEF Write, OneCell, Holds, Entries
  <2>3. ASSUME NEW q \in Writer \ {p} PROVE Holds(q)'
    BY <1>4, <1>k DEF Write
  <2> QED BY <1>4, <2>2, <2>3 DEF Write, OneCell, GoodFile
<1>5. ASSUME NEW p \in Writer, Sync(p) PROVE OneCell'
  <2>0. temp[p] \in File /\ temp'[p] = [temp[p] EXCEPT !.synced = TRUE] BY <1>5 DEF Sync
  <2>1. temp'[p].text = temp[p].text BY <2>0 DEF File
  <2>2. Holds(p)' BY <1>5, <2>1 DEF Sync, OneCell, Holds, Entries
  <2>3. ASSUME NEW q \in Writer \ {p} PROVE Holds(q)'
    BY <1>5, <1>k DEF Sync
  <2> QED BY <1>5, <2>2, <2>3 DEF Sync, OneCell, GoodFile
<1>6. ASSUME NEW p \in Writer, Rename(p) PROVE OneCell'
  <2>1. path' = temp[p] /\ temp[p] # Gone /\ temp[p].text = mine[p] /\ mine[p] \in SUBSET Sane
    BY <1>6 DEF Rename, OneCell, Holds
  <2>2. Entries(path') = mine[p] BY <2>1, SaneIsText DEF Entries
  <2>3. Holds(p)' BY <1>6, <2>2 DEF Rename, OneCell, Holds, Entries
  <2>4. ASSUME NEW q \in Writer \ {p} PROVE Holds(q)'
    <3>1. lock = p /\ step[q] = "idle" /\ step'[q] = "idle" /\ mine'[q] = mine[q]
      BY <1>6 DEF Rename, OneCell, Holds
    <3> QED BY <3>1 DEF OneCell, Holds
  <2>5. \A q \in Proc : step'[q] # "move" /\ (raw'[q] = Gone \/ raw'[q] \in SUBSET Sane)
    BY <1>6 DEF Rename, OneCell
  <2> QED BY <1>6, <2>1, <2>3, <2>4, <2>5 DEF Rename, OneCell, GoodFile
<1>7. ASSUME NEW p \in Writer, WriteFails(p) \/ Unlink(p) \/ Release(p) PROVE OneCell'
  <2>1. Holds(p)' BY <1>7 DEF WriteFails, Unlink, Release, OneCell, Holds
  <2>2. ASSUME NEW q \in Writer \ {p} PROVE Holds(q)'
    <3>1. lock' = lock \/ step[q] = "idle"
      BY <1>7 DEF WriteFails, Unlink, Release, OneCell, Holds
    <3> QED BY <1>7, <1>k, <3>1 DEF WriteFails, Unlink, Release
  <2> QED BY <1>7, <2>1, <2>2 DEF WriteFails, Unlink, Release, OneCell, GoodFile
<1>8. ASSUME NEW p \in Proc, Read(p) PROVE OneCell'
  <2>1. raw' = [raw EXCEPT ![p] = IF path = Gone THEN Gone ELSE path.text]
    BY <1>8 DEF Read, Fault
  <2>2. ASSUME NEW q \in Writer PROVE Holds(q)'
    BY <1>8, <1>k, <2>1 DEF Read, OneCell, Holds, Entries
  <2> QED BY <1>8, <2>1, <2>2 DEF Read, OneCell, GoodFile
<1>9. ASSUME NEW p \in Proc, Parse(p) PROVE OneCell'
  <2>1. raw[p] \notin {Bad, Torn} BY SaneIsText, TextsDiffer DEF OneCell
  <2>2. step' = [step EXCEPT ![p] = AfterLoad(p)] BY <1>9, <2>1 DEF Parse
  <2>3. p \in Writer => Holds(p)'
    <3> SUFFICES ASSUME p \in Writer PROVE Holds(p)' OBVIOUS
    <3>1. step'[p] = "change" /\ lock' = p BY <1>9, <2>2 DEF Parse, AfterLoad, OneCell, Holds
    <3>2. CASE path = Gone
      <4>1. mine'[p] = {} /\ Entries(path') = {} BY <1>9, <3>2 DEF Parse, OneCell, Holds, Parsed, Entries
      <4> QED BY <3>1, <4>1 DEF Holds
    <3>3. CASE path # Gone
      <4>1. raw[p] = path.text /\ path.text \in SUBSET Sane
        BY <1>9, <3>3 DEF Parse, OneCell, Holds, GoodFile
      <4>2. Parsed(raw[p]) = path.text BY <4>1, SaneIsText, SaneIsKept DEF Parsed
      <4>3. Entries(path') = path.text BY <1>9, <3>3, <4>1, SaneIsText DEF Parse, Entries
      <4>4. mine'[p] = path.text BY <1>9, <4>2 DEF Parse
      <4> QED BY <3>1, <4>1, <4>3, <4>4 DEF Holds
    <3> QED BY <3>2, <3>3
  <2>4. ASSUME NEW q \in Writer \ {p} PROVE Holds(q)'
    BY <1>9, <1>k DEF Parse
  <2>5. \A q \in Proc : step'[q] # "move" /\ (raw'[q] = Gone \/ raw'[q] \in SUBSET Sane)
    BY <1>9, <2>2 DEF Parse, OneCell, AfterLoad
  <2> QED BY <1>9, <2>3, <2>4, <2>5 DEF Parse, OneCell, GoodFile
<1>10. ASSUME NEW p \in Proc, Quarantine(p) PROVE OneCell'
  BY <1>10 DEF Quarantine, OneCell
<1>11. ASSUME NEW p \in Proc, Crash(p) PROVE OneCell'
  <2>1. p \in Writer => Holds(p)' BY <1>11 DEF Crash, OneCell, Holds
  <2>2. ASSUME NEW q \in Writer \ {p} PROVE Holds(q)'
    <3>1. lock' = lock \/ step[q] = "idle" BY <1>11 DEF Crash, OneCell, Holds
    <3> QED BY <1>11, <1>k, <3>1 DEF Crash
  <2> QED BY <1>11, <2>1, <2>2 DEF Crash, OneCell, GoodFile
<1>12. ASSUME NEW p \in Watcher \cup User, Look(p) PROVE OneCell'
  <2>1. ASSUME NEW q \in Writer PROVE Holds(q)'
    BY <1>12, <1>k, KindsDiffer DEF Look, Proc
  <2> QED BY <1>12, <2>1 DEF Look, OneCell, GoodFile, Proc
<1>13. CASE FlushDirectory
  <2>1. ASSUME NEW q \in Writer PROVE Holds(q)' BY <1>13, <1>k DEF FlushDirectory
  <2> QED BY <1>13, <2>1 DEF FlushDirectory, OneCell, GoodFile
<1>14. CASE PowerFails
  <2>1. OnDisk(durable) = durable BY DEF Whole, Settled, OnDisk
  <2> QED BY <1>14, <2>1 DEF PowerFails, OneCell, Holds, GoodFile
<1>15. ~Damage BY DEF Damage, Fault
<1>16. CASE UNCHANGED vars
  <2>1. ASSUME NEW q \in Writer PROVE Holds(q)' BY <1>16, <1>k DEF vars
  <2> QED BY <1>16, <2>1 DEF vars, OneCell, GoodFile
<1> QED
  BY <1>1, <1>2, <1>3, <1>4, <1>5, <1>6, <1>7, <1>8, <1>9, <1>10, <1>11, <1>12, <1>13, <1>14,
     <1>15, <1>16 DEF Next

\* Each step is one of the cell, or changes nothing of it.
LEMMA CellStep ==
    ASSUME Faults \cap {"damage", "read"} = {}, Types, Whole, OneCell, [Next]_vars
    PROVE  [Cell!CellNext]_(Cell!cellVars)
<1> USE WritersAreProcs DEF Types, files, Cell!cellVars
<1>1. ASSUME NEW p \in Writer,
             \/ Lock(p) \/ Change(p) \/ MakeTemp(p) \/ Write(p) \/ Sync(p)
             \/ WriteFails(p) \/ Unlink(p) \/ Release(p)
      PROVE  UNCHANGED <<path, durable>>
  BY <1>1 DEF Lock, Change, MakeTemp, Write, Sync, WriteFails, Unlink, Release
<1>2. ASSUME NEW p \in Proc, Read(p) \/ Parse(p) \/ Quarantine(p) \/ Crash(p)
      PROVE  UNCHANGED <<path, durable>>
  BY <1>2 DEF Read, Parse, Quarantine, Crash, OneCell
<1>3. ASSUME NEW p \in Watcher \cup User, Look(p) PROVE UNCHANGED <<path, durable>>
  BY <1>3 DEF Look
<1>4. UNCHANGED vars => UNCHANGED <<path, durable>> BY DEF vars
<1>5. UNCHANGED <<path, durable>> => UNCHANGED Cell!cellVars BY DEF Entries
<1>6. ASSUME NEW p \in Writer, Rename(p) PROVE Cell!CellNext
  <2>1. path' = temp[p] /\ temp[p] # Gone /\ temp[p].text = mine[p] /\ mine[p] \in SUBSET Sane
    BY <1>6 DEF Rename, OneCell, Holds
  <2>2. Entries(path') = mine[p] BY <2>1, SaneIsText DEF Entries
  <2>3. PICK e \in Sane : mine[p] = Entries(path) \cup {e} \/ mine[p] = Entries(path) \ {e}
    BY <1>6 DEF Rename, OneCell, Holds
  <2>4. Entries(durable)' = Entries(durable) BY <1>6 DEF Rename, Entries
  <2>5. e \in Entry BY DEF Sane
  <2> QED BY <2>2, <2>3, <2>4, <2>5 DEF Cell!CellNext, Cell!Put, Cell!Remove
<1>7. ASSUME FlushDirectory PROVE Cell!CellNext
  BY <1>7 DEF FlushDirectory, Entries, Cell!CellNext, Cell!Harden
<1>8. ASSUME PowerFails PROVE Cell!CellNext
  <2>1. OnDisk(durable) = durable BY DEF Whole, Settled, OnDisk
  <2>2. path' = durable /\ durable' = durable BY <1>8, <2>1 DEF PowerFails
  <2> QED BY <2>2 DEF Entries, Cell!CellNext, Cell!PowerCut
<1>9. ~Damage BY DEF Damage, Fault
<1> QED BY <1>1, <1>2, <1>3, <1>4, <1>5, <1>6, <1>7, <1>8, <1>9 DEF Next

\* While the file can be read and only InterMux writes it, its users may take it
\* for one cell: no update is lost between two operations, none is seen in part,
\* and only a power cut undoes one (locked_state and save_state).
THEOREM OneCellRefined ==
    ASSUME Faults \cap {"damage", "read"} = {}
    PROVE  Spec => IsOneCell
<1>1. Init => Cell!CellInit BY DEF Init, Cell!CellInit, Entries
<1>2. Types /\ Whole /\ OneCell /\ [Next]_vars => OneCell' BY OneCellStep
<1>3. Types /\ Whole /\ OneCell /\ [Next]_vars => [Cell!CellNext]_(Cell!cellVars) BY CellStep
<1> QED
  BY <1>1, <1>2, <1>3, TypesInit, TypesStep, WholeInit, WholeStep, OneCellInit, PTL
  DEF Spec, IsOneCell, Cell!CellSpec

-----------------------------------------------------------------------------
(* The file that somebody edits: the second one of MCStateFile *)

EditedTexts == {Bad, Torn} \cup SUBSET EditedEntry
EditedFile == [text : EditedTexts, synced : BOOLEAN]

EditedTypes ==
    /\ path2 \in EditedFile \cup {Gone} /\ durable2 \in EditedFile \cup {Gone}
    /\ temp2 \in [Writer -> EditedFile \cup {Gone}]
    /\ lock2 \in Writer \cup {None}
    /\ step2 \in [E!Proc -> Steps]
    /\ raw2 \in [E!Proc -> EditedTexts \cup {Gone, Unreadable}]
    /\ mine2 \in [E!Proc -> SUBSET E!Sane]
    /\ \A p \in Writer : step2[p] \in {"write", "sync", "rename"} => temp2[p] \in EditedFile

\* Who writes holds the lock, and what it has read is what is at the path, unless a
\* reader has moved that away: nobody edits the file meanwhile.
Reads(p) ==
    /\ step2[p] # "idle" => lock2 = p
    /\ step2[p] = "parse" /\ path2 # Gone => raw2[p] \in {path2.text, Unreadable}
    /\ step2[p] = "move" /\ path2 # Gone => path2.text \in {Bad, Torn}

EditedInv ==
    /\ EditedTypes
    /\ \A p \in E!Proc : step2[p] = "move" => raw2[p] \in {Bad, Torn}
    /\ \A p \in Writer : Reads(p)

LEMMA EditedProcs ==
    Writer \subseteq E!Proc /\ Reader \subseteq E!Proc /\ E!Proc = Writer \cup Watcher \cup Reader
  BY DEF E!Proc

\* Each defect fails a check, but a wrong pid, which is mended.
LEMMA MendedIsSane ==
    ASSUME NEW e \in EditedEntry, ~E!Fatal(e)
    PROVE  E!Repaired(e) \in E!Sane
<1>1. e = [kind |-> e.kind, flaw |-> e.flaw] /\ e.flaw \in Defects[e.kind] \cup {"none"}
      /\ e.kind \in {"subnet", "binding", "adoption", "dns", "limit"}
      /\ E!Repaired(e) \in EditedEntry
  BY DefectsAreKnown DEF Defects
<1> USE DEF E!Fatal, E!SubnetFlaws, E!BindingFlaws, E!AdoptionFlaws, E!DnsFlaws, E!LimitFlaws
<1>2. CASE e.kind = "binding"
  <2>1. Defects["binding"] = {"missing", "number", "pool", "range", "name", "namespace", "pid"}
    BY DEF Defects
  <2>2. e.flaw \in {"pid", "none"} BY <1>1, <1>2, <2>1
  <2>3. [e EXCEPT !.flaw = "none"].flaw = "none" BY <1>1
  <2> QED BY <1>1, <1>2, <2>2, <2>3 DEF E!Repaired, E!Sane
<1>3. CASE e.kind # "binding"
  <2>1. /\ Defects["subnet"] = {"name", "pool"}
        /\ Defects["adoption"] = {"missing", "id", "number", "group", "slot", "name"}
        /\ Defects["dns"] = {"servers"} /\ Defects["limit"] = {"number", "zero"}
    BY DEF Defects
  <2>2. e.flaw = "none" BY <1>1, <1>3, <2>1
  <2> QED BY <1>1, <1>3, <2>2 DEF E!Repaired, E!Sane
<1> QED BY <1>2, <1>3

LEMMA EditedParsed ==
    ASSUME NEW t \in EditedTexts \cup {Gone, Unreadable}
    PROVE  E!Parsed(t) \in SUBSET E!Sane
  BY MendedIsSane DEF E!Parsed, E!StateFromDict, EditedTexts

LEMMA EditedInit == E!Init => EditedInv
  BY EditedProcs DEF E!Init, EditedInv, EditedTypes, Reads, Steps

LEMMA EditedWriter ==
    ASSUME EditedInv, NEW p \in Writer,
           \/ E!Lock(p) \/ E!Change(p) \/ E!MakeTemp(p) \/ E!Write(p) \/ E!Sync(p)
           \/ E!Rename(p) \/ E!WriteFails(p) \/ E!Unlink(p) \/ E!Release(p)
    PROVE  EditedInv'
<1> USE EditedProcs DEF EditedInv, EditedTypes, Steps, E!Goto, E!Forget, E!files
<1>k. ASSUME NEW q \in Writer, UNCHANGED <<path2, step2[q], raw2[q]>>,
             lock2' = lock2 \/ step2[q] = "idle"
      PROVE  Reads(q)'
  BY <1>k DEF Reads
<1>a. ASSUME NEW q \in Writer, q # p, step2[p] # "idle" PROVE step2[q] = "idle"
  BY <1>a DEF Reads
<1>1. CASE E!Lock(p)
  <2>1. Reads(p)' BY <1>1 DEF E!Lock, Reads
  <2>2. ASSUME NEW q \in Writer \ {p} PROVE Reads(q)'
    BY <1>1, <1>k, KindsDiffer DEF E!Lock, Reads
  <2> QED BY <1>1, <2>1, <2>2 DEF E!Lock
<1>2. CASE E!Change(p)
  <2>1. mine2' \in [E!Proc -> SUBSET E!Sane] BY <1>2 DEF E!Change
  <2>2. Reads(p)' BY <1>2 DEF E!Change, Reads
  <2>3. ASSUME NEW q \in Writer \ {p} PROVE Reads(q)' BY <1>2, <1>k DEF E!Change
  <2> QED BY <1>2, <2>1, <2>2, <2>3 DEF E!Change
<1>3. CASE E!MakeTemp(p)
  <2>1. [text |-> Torn, synced |-> FALSE] \in EditedFile BY DEF EditedFile, EditedTexts
  <2>2. Reads(p)' BY <1>3 DEF E!MakeTemp, Reads
  <2>3. ASSUME NEW q \in Writer \ {p} PROVE Reads(q)' BY <1>3, <1>k DEF E!MakeTemp
  <2> QED BY <1>3, <2>1, <2>2, <2>3 DEF E!MakeTemp
<1>4. CASE E!Write(p)
  <2>1. temp2[p] \in EditedFile /\ mine2[p] \in SUBSET EditedEntry BY <1>4 DEF E!Write, E!Sane
  <2>2. [temp2[p] EXCEPT !.text = mine2[p]] \in EditedFile BY <2>1 DEF EditedFile, EditedTexts
  <2>3. temp2' = [temp2 EXCEPT ![p] = [temp2[p] EXCEPT !.text = mine2[p]]] BY <1>4 DEF E!Write
  <2>4. Reads(p)' BY <1>4 DEF E!Write, Reads
  <2>5. ASSUME NEW q \in Writer \ {p} PROVE Reads(q)' BY <1>4, <1>k DEF E!Write
  <2> QED BY <1>4, <2>2, <2>3, <2>4, <2>5 DEF E!Write
<1>5. CASE E!Sync(p)
  <2>1. temp2[p] \in EditedFile BY <1>5 DEF E!Sync
  <2>2. [temp2[p] EXCEPT !.synced = TRUE] \in EditedFile BY <2>1 DEF EditedFile
  <2>3. temp2' = [temp2 EXCEPT ![p] = [temp2[p] EXCEPT !.synced = TRUE]] BY <1>5 DEF E!Sync
  <2>4. Reads(p)' BY <1>5 DEF E!Sync, Reads
  <2>5. ASSUME NEW q \in Writer \ {p} PROVE Reads(q)' BY <1>5, <1>k DEF E!Sync
  <2> QED BY <1>5, <2>2, <2>3, <2>4, <2>5 DEF E!Sync
<1>6. CASE E!Rename(p)
  <2>1. step2[p] = "rename" /\ step2'[p] \in {"change", "idle"} /\ lock2 = p
    BY <1>6 DEF E!Rename, Reads
  <2>2. Reads(p)' BY <1>6, <2>1 DEF E!Rename, Reads
  <2>3. ASSUME NEW q \in Writer \ {p} PROVE Reads(q)'
    <3>1. step2'[q] = "idle" BY <1>6, <1>a, <2>1 DEF E!Rename
    <3> QED BY <3>1 DEF Reads
  <2> QED BY <1>6, <2>2, <2>3 DEF E!Rename
<1>7. CASE E!WriteFails(p) \/ E!Unlink(p) \/ E!Release(p)
  <2>1. Reads(p)' BY <1>7 DEF E!WriteFails, E!Unlink, E!Release, Reads
  <2>2. ASSUME NEW q \in Writer \ {p} PROVE Reads(q)'
    <3>1. lock2' = lock2 \/ step2[q] = "idle"
      BY <1>7, <1>a DEF E!WriteFails, E!Unlink, E!Release
    <3> QED BY <1>7, <1>k, <3>1 DEF E!WriteFails, E!Unlink, E!Release
  <2> QED BY <1>7, <2>1, <2>2 DEF E!WriteFails, E!Unlink, E!Release
<1> QED BY <1>1, <1>2, <1>3, <1>4, <1>5, <1>6, <1>7

LEMMA EditedReader ==
    ASSUME EditedInv, NEW p \in E!Proc,
           E!Read(p) \/ E!Parse(p) \/ E!Quarantine(p) \/ (p \in Watcher \cup Reader /\ E!Look(p))
    PROVE  EditedInv'
<1> USE EditedProcs DEF EditedInv, EditedTypes, Steps, E!Goto, E!files
<1>k. ASSUME NEW q \in Writer, UNCHANGED <<path2, step2[q], raw2[q], lock2>>
      PROVE  Reads(q)'
  BY <1>k DEF Reads
<1>1. CASE E!Read(p)
  <2>1. raw2' \in [E!Proc -> EditedTexts \cup {Gone, Unreadable}] BY <1>1 DEF E!Read, EditedFile
  <2>2. ASSUME NEW q \in Writer PROVE Reads(q)' BY <1>1, <1>k DEF E!Read, Reads
  <2> QED BY <1>1, <2>1, <2>2 DEF E!Read
<1>2. CASE E!Parse(p)
  <2>1. mine2' \in [E!Proc -> SUBSET E!Sane] BY <1>2, EditedParsed DEF E!Parse
  <2>2. step2' \in [E!Proc -> Steps] /\ step2'[p] \in {"move", "change", "idle"}
        /\ (step2'[p] = "move" => raw2[p] \in {Bad, Torn})
    BY <1>2 DEF E!Parse, E!AfterLoad
  <2>3. p \in Writer => Reads(p)'
    <3>1. Gone \notin {Bad, Torn} /\ Unreadable \notin {Bad, Torn}
      BY TextsDiffer, EditedTextsDiffer
    <3> QED BY <1>2, <2>2, <3>1 DEF E!Parse, Reads
  <2>4. ASSUME NEW q \in Writer \ {p} PROVE Reads(q)' BY <1>2, <1>k DEF E!Parse
  <2>5. raw2' \in [E!Proc -> EditedTexts \cup {Gone, Unreadable}] BY <1>2 DEF E!Parse
  <2>6. ASSUME NEW q \in E!Proc, step2'[q] = "move" PROVE raw2'[q] \in {Bad, Torn}
    BY <1>2, <2>2, <2>6 DEF E!Parse
  <2>7. UNCHANGED <<path2, durable2, temp2, lock2>> BY <1>2 DEF E!Parse
  <2>8. \A q \in Writer : step2'[q] \in {"write", "sync", "rename"} => temp2'[q] \in EditedFile
    BY <1>2, <2>2, <2>7 DEF E!Parse
  <2> QED BY <2>1, <2>2, <2>3, <2>4, <2>5, <2>6, <2>7, <2>8
<1>3. CASE E!Quarantine(p)
  <2>1. path2' \in {path2, Gone} /\ step2' \in [E!Proc -> Steps] /\ step2'[p] \in {"change", "idle"}
    BY <1>3 DEF E!Quarantine, E!AfterLoad
  <2>2. ASSUME NEW q \in Writer PROVE Reads(q)' BY <1>3, <2>1 DEF E!Quarantine, Reads
  <2>3. \A q \in E!Proc : step2'[q] = "move" => raw2'[q] = raw2[q] /\ step2[q] = "move"
    BY <1>3, <2>1 DEF E!Quarantine
  <2> QED BY <1>3, <2>1, <2>2, <2>3 DEF E!Quarantine
<1>4. CASE p \in Watcher \cup Reader /\ E!Look(p)
  <2>1. p \notin Writer BY <1>4, ReadersDiffer, KindsDiffer
  <2>2. ASSUME NEW q \in Writer PROVE Reads(q)' BY <1>4, <1>k, <2>1 DEF E!Look
  <2> QED BY <1>4, <2>1, <2>2 DEF E!Look
<1> QED BY <1>1, <1>2, <1>3, <1>4

\* An edit comes when no writer is under way; nobody crashes and the power stays.
LEMMA EditedMachine ==
    ASSUME EditedInv, E!FlushDirectory \/ E!Damage
    PROVE  EditedInv'
<1> USE EditedProcs DEF EditedInv, EditedTypes, Steps
<1>1. CASE E!FlushDirectory BY <1>1 DEF E!FlushDirectory, Reads
<1>2. CASE E!Damage
  <2>1. path2 \in EditedFile BY <1>2 DEF E!Damage
  <2>2. [path2 EXCEPT !.text = Bad] \in EditedFile BY <2>1 DEF EditedFile, EditedTexts
  <2>3. ASSUME NEW t \in SUBSET EditedEntry PROVE [text |-> t, synced |-> TRUE] \in EditedFile
    BY DEF EditedFile, EditedTexts
  <2>4. path2' \in EditedFile BY <1>2, <2>2, <2>3 DEF E!Damage
  <2>5. ASSUME NEW q \in Writer PROVE step2[q] = "idle"
    BY <1>2, KindsDiffer DEF E!Damage, Reads
  <2>6. ASSUME NEW q \in Writer PROVE Reads(q)' BY <1>2, <2>5 DEF E!Damage, Reads
  <2> QED BY <1>2, <2>4, <2>6 DEF E!Damage
<1> QED BY <1>1, <1>2

LEMMA EditedStep == EditedInv /\ E!Next => EditedInv'
<1>1. ASSUME NEW p \in E!Proc PROVE ~E!Crash(p) BY DEF E!Crash, E!Fault
<1>2. ~E!PowerFails BY DEF E!PowerFails, E!Fault
<1> QED BY <1>1, <1>2, EditedWriter, EditedReader, EditedMachine, EditedProcs DEF E!Next

\* Whoever edits the file, in whatever way and whenever no operation runs, and
\* whichever of root's processes load it without the lock: an operation moves it aside
\* only when it cannot be parsed, nobody moves it because it could not be read
\* (load_state, _quarantine), and an operation works on entries that have passed the
\* checks (state_from_dict).  That a reader without the lock moves no good file is
\* not claimed, nor true.
THEOREM AlwaysSafe == FilesSpec => []EditedIsSafe
<1>1. EditedInv /\ UNCHANGED edited => EditedInv'
  BY DEF EditedInv, EditedTypes, Reads, edited
<1>2. FilesInit => EditedInv BY EditedInit DEF FilesInit
<1>3. EditedInv /\ [FilesNext]_<<part, vars, edited>> => EditedInv'
  BY <1>1, EditedStep DEF FilesNext
<1>4. EditedInv => EditedIsSafe
  BY EditedProcs DEF EditedInv, EditedTypes, Reads, EditedIsSafe, E!OnlyInvalidMoved, E!LoadedIsSane
<1> QED BY <1>2, <1>3, <1>4, PTL DEF FilesSpec
=============================================================================
