-------------------------- MODULE Adoption_proofs --------------------------
(***************************************************************************)
(* Proofs about Adoption for every number of interfaces, processes, groups *)
(* and slots, whatever fails and however often: types, slots and numbers;  *)
(* then routes and marks.                                                  *)
(***************************************************************************)
EXTENDS AdoptionProps, TLAPS

Adopting == {"join", "policy", "mark", "save"}
Releasing == {"list", "eject", "strip", "unmark"}

(***************************************************************************)
(* What an operation is about is typed because it began with a slot and a  *)
(* group, or with a record.                                                *)
(***************************************************************************)
JobOK ==
    /\ pc \in Adopting => job.op = "adopt" /\ job.for \in Record
    /\ pc \in Releasing => job.for \in Record
                           /\ job.op \in {"undo", "release", "teardown", "pass", "reset"}
    /\ pc = "settle" /\ job.op # "reset" => job.for \in Record
    /\ pc \in {"settle", "sweep"} => job.op # "adopt"
    /\ pc = "sweep" => job.op = "reset"
    /\ pc = "idle" => job.op \in {"teardown", "pass"}
    /\ pc = "refresh" => job.op = "pass"

TypeInv == TypeOK /\ JobOK

(***************************************************************************)
(* Slots stay distinct because an adoption in progress has a slot, and a   *)
(* group, that no record has.                                              *)
(***************************************************************************)
Fresh ==
    job.op \in {"adopt", "undo"} =>
        \A a \in records : a.slot # job.for.slot /\ a.group # job.for.group

SlotInv == SlotsDistinct /\ Fresh

(***************************************************************************)
(* No application is taken over because what an adoption has listed, and   *)
(* is still the process it listed, is in no group.                         *)
(***************************************************************************)
ListedAreFree == pc = "join" => \A p \in listed : member[p] = Root

-----------------------------------------------------------------------------
(* Typing *)

LEMMA InitTyped == Init => TypeInv
<1>1. NoJob \in Job /\ NoJob.op = "none"
  BY DEF NoJob, Job, Operations
<1>2. 0 \in 0..MaxFaults
  BY BoundsAreRight
<1> QED
  BY <1>1, <1>2 DEF Init, TypeInv, TypeOK, JobOK, Adopting, Releasing

\* What is left of an operation that ends.
LEMMA Freed ==
    Release => /\ pc' = "free" /\ job' \in Job /\ job'.op = "none"
               /\ todo' = {} /\ listed' = {} /\ moved' = FALSE
               /\ queue' = {} /\ dropped' = {} /\ seen' = {}
BY DEF Release, NoJob, Job, Operations

LEMMA OneMore == TypeOK /\ Fault => faults' \in 0..MaxFaults
BY BoundsAreRight DEF TypeOK, Fault

LEMMA PolicyTyped ==
    ASSUME TypeOK, NEW s \in Slot, NEW i \in Iface, NEW n \in 0..3,
           ApplyPolicy(s, i, n) \/ RemovePolicy(s, n)
    PROVE  /\ rule' \subseteq Slot /\ fallback' \subseteq Slot
           /\ route' \in [Slot -> Iface \cup {None}]
BY DEF TypeOK, ApplyPolicy, RemovePolicy

LEMMA DoneSmall == ASSUME NEW n \in {1, 2}, NEW m \in Done(n) PROVE m \in 0..3
BY DEF Done

LEMMA AdoptTyped ==
    TypeInv /\ ((\E i \in Iface, procs \in SUBSET Pid, g \in Group : AdoptRequest(i, procs, g))
                \/ (\E p \in Pid : Join(p)) \/ Joined \/ SetPolicy \/ Mark \/ Save)
        => TypeInv'
<1> SUFFICES ASSUME TypeInv PROVE
      (\E i \in Iface, procs \in SUBSET Pid, g \in Group : AdoptRequest(i, procs, g))
      \/ (\E p \in Pid : Join(p)) \/ Joined \/ SetPolicy \/ Mark \/ Save => TypeInv'
  OBVIOUS
<1> USE DEF TypeInv, TypeOK, JobOK, Adopting, Releasing, memory, policy, Job, Operations, Goto, Undo
<1>1. ASSUME NEW i \in Iface, NEW procs \in SUBSET Pid, NEW g \in Group, AdoptRequest(i, procs, g)
      PROVE TypeInv'
  <2>1. PICK op \in {"adopt", "undo"}, s \in Slot :
          /\ job' = [op |-> op, for |-> [group |-> g, iface |-> i, slot |-> s]]
          /\ \/ op = "adopt" /\ groups' = groups \cup {g} /\ pc' = "join"
             \/ op = "undo" /\ groups' = groups /\ pc' = "list"
    BY <1>1 DEF AdoptRequest, FreeSlots
  <2>2. [group |-> g, iface |-> i, slot |-> s] \in Record
    BY <2>1 DEF Record
  <2> QED
    BY <1>1, <2>1, <2>2 DEF AdoptRequest, Adoptable
<1>2. ASSUME NEW p \in Pid, Join(p) PROVE TypeInv'
  BY <1>2 DEF Join, Record
<1>3. CASE Joined
  BY <1>3 DEF Joined
<1>4. CASE SetPolicy
  <2>1. job.for.slot \in Slot /\ job.for.iface \in Iface
    BY <1>4 DEF SetPolicy, Record
  <2>2. /\ rule' \subseteq Slot /\ fallback' \subseteq Slot
        /\ route' \in [Slot -> Iface \cup {None}]
    BY <1>4, <2>1, PolicyTyped DEF SetPolicy
  <2> QED
    BY <1>4, <2>2 DEF SetPolicy
<1>5. CASE Mark
  <2>1. [group |-> job.for.group, iface |-> job.for.iface] \in Marks
    BY <1>5 DEF Mark, Record, Marks
  <2> QED
    BY <1>5, <2>1 DEF Mark
<1>6. CASE Save
  <2>1. CASE Release /\ records' = records \cup {job.for}
    BY <1>6, <2>1, Freed DEF Save
  <2>2. CASE Undo /\ UNCHANGED <<records, memory>>
    BY <1>6, <2>2 DEF Save
  <2> QED
    BY <1>6, <2>1, <2>2 DEF Save
<1> QED
  BY <1>1, <1>2, <1>3, <1>4, <1>5, <1>6

LEMMA ReleaseTyped ==
    TypeInv /\ ((\E a \in records : ReleaseRequest(a)) \/ ResetRequest
                \/ List \/ (\E p \in Pid : Eject(p)) \/ Ejected \/ Strip \/ Unmark
                \/ Undone \/ Released \/ (\E a \in queue : ResetNext(a))
                \/ ResetMarks \/ ResetSweep)
        => TypeInv'
<1> SUFFICES ASSUME TypeInv PROVE
      (\E a \in records : ReleaseRequest(a)) \/ ResetRequest
      \/ List \/ (\E p \in Pid : Eject(p)) \/ Ejected \/ Strip \/ Unmark
      \/ Undone \/ Released \/ (\E a \in queue : ResetNext(a))
      \/ ResetMarks \/ ResetSweep => TypeInv'
  OBVIOUS
<1> USE DEF TypeInv, TypeOK, JobOK, Adopting, Releasing, memory, policy, Job, Operations, Goto
<1>1. ASSUME NEW a \in records, ReleaseRequest(a) PROVE TypeInv'
  BY <1>1 DEF ReleaseRequest
<1>2. CASE ResetRequest
  BY <1>2 DEF ResetRequest
<1>3. CASE List
  BY <1>3 DEF List, ReadMembers, Members, Record
<1>4. ASSUME NEW p \in Pid, Eject(p) PROVE TypeInv'
  BY <1>4 DEF Eject
<1>5. CASE Ejected
  BY <1>5 DEF Ejected
<1>6. CASE Strip
  <2>1. job.for.slot \in Slot /\ job.for.iface \in Iface
    BY <1>6 DEF Strip, Record
  <2>2. PICK n \in Done(2) : RemovePolicy(job.for.slot, n)
    BY <1>6 DEF Strip
  <2>3. /\ rule' \subseteq Slot /\ fallback' \subseteq Slot
        /\ route' \in [Slot -> Iface \cup {None}]
    BY <2>1, <2>2, DoneSmall, PolicyTyped
  <2> QED
    BY <1>6, <2>3 DEF Strip
<1>7. CASE Unmark
  BY <1>7 DEF Unmark
<1>8. CASE Undone
  BY <1>8, Freed DEF Undone
<1>9. CASE Released
  BY <1>9, Freed DEF Released
<1>10. ASSUME NEW a \in queue, ResetNext(a) PROVE TypeInv'
  BY <1>10 DEF ResetNext
<1>11. CASE ResetMarks
  BY <1>11 DEF ResetMarks
<1>12. CASE ResetSweep
  BY <1>12, Freed DEF ResetSweep
<1> QED
  BY <1>1, <1>2, <1>3, <1>4, <1>5, <1>6, <1>7, <1>8, <1>9, <1>10, <1>11, <1>12

LEMMA PassTyped ==
    TypeInv /\ (TeardownRequest \/ WatchCheck \/ WatchPass
                \/ (\E a \in queue : Idle(a)) \/ IdleReleased \/ IdleDone
                \/ (\E a \in queue : Refresh(a)) \/ RefreshDone)
        => TypeInv'
<1> SUFFICES ASSUME TypeInv PROVE
      TeardownRequest \/ WatchCheck \/ WatchPass
      \/ (\E a \in queue : Idle(a)) \/ IdleReleased \/ IdleDone
      \/ (\E a \in queue : Refresh(a)) \/ RefreshDone => TypeInv'
  OBVIOUS
<1> USE DEF TypeInv, TypeOK, JobOK, Adopting, Releasing, memory, policy, Job, Operations, Goto,
            BeginPass
<1>0. \A found \in Found : found \subseteq Iface
  BY DEF Found
<1>1. CASE TeardownRequest
  BY <1>1 DEF TeardownRequest
<1>2. CASE WatchCheck
  BY <1>2 DEF WatchCheck
<1>3. CASE WatchPass
  BY <1>0, <1>3 DEF WatchPass
<1>4. ASSUME NEW a \in queue, Idle(a) PROVE TypeInv'
  BY <1>4 DEF Idle
<1>5. CASE IdleReleased
  BY <1>5 DEF IdleReleased
<1>6. CASE IdleDone
  <2>1. CASE Release
    BY <1>6, <2>1, Freed DEF IdleDone
  <2>2. CASE Goto("refresh") /\ seen' \in Found /\ queue' = records'
    BY <1>0, <1>6, <2>2, Freed DEF IdleDone
  <2> QED
    BY <1>6, <2>1, <2>2 DEF IdleDone
<1>7. ASSUME NEW a \in queue, Refresh(a) PROVE TypeInv'
  <2>1. a.slot \in Slot /\ a.iface \in Iface
    BY DEF Record
  <2>2. /\ rule' \subseteq Slot /\ fallback' \subseteq Slot
        /\ route' \in [Slot -> Iface \cup {None}]
    BY <1>7, <2>1, PolicyTyped DEF Refresh
  <2> QED
    BY <1>7, <2>2 DEF Refresh
<1>8. CASE RefreshDone
  BY <1>8, Freed DEF RefreshDone
<1> QED
  BY <1>1, <1>2, <1>3, <1>4, <1>5, <1>6, <1>7, <1>8

LEMMA WorldTyped == TypeInv /\ (Processes \/ Links \/ Faults) => TypeInv'
<1> SUFFICES ASSUME TypeInv PROVE Processes \/ Links \/ Faults => TypeInv'
  OBVIOUS
<1> USE DEF TypeInv, TypeOK, JobOK, Adopting, Releasing, memory, policy
<1>1. ASSUME NEW p \in Pid, Start(p) PROVE TypeInv'
  BY <1>1 DEF Start
<1>2. ASSUME NEW p \in Pid, Exit(p) PROVE TypeInv'
  BY <1>2 DEF Exit
<1>3. ASSUME NEW p \in Pid, NEW q \in Pid, Fork(p, q) PROVE TypeInv'
  BY <1>3 DEF Fork
<1>4. ASSUME NEW i \in Iface, LinkDown(i) PROVE TypeInv'
  BY <1>4 DEF LinkDown
<1>5. ASSUME NEW i \in Iface, LinkUp(i) PROVE TypeInv'
  BY <1>5 DEF LinkUp
<1>6. CASE Crash
  BY <1>6, OneMore, Freed DEF Crash
<1>7. CASE Reboot
  BY <1>7, OneMore, Freed DEF Reboot
<1>8. CASE LoseState
  BY <1>8, OneMore DEF LoseState
<1> QED
  BY <1>1, <1>2, <1>3, <1>4, <1>5, <1>6, <1>7, <1>8 DEF Processes, Links, Faults

LEMMA NextTyped == TypeInv /\ [Next]_vars => TypeInv'
<1>1. TypeInv /\ UNCHANGED vars => TypeInv'
  BY DEF TypeInv, TypeOK, JobOK, Adopting, Releasing, vars, memory, policy
<1> QED
  BY <1>1, AdoptTyped, ReleaseTyped, PassTyped, WorldTyped DEF Next, NewRequest, Work

LEMMA TypedAlways == Spec => []TypeInv
BY InitTyped, NextTyped, PTL DEF Spec

(***************************************************************************)
(* TypeOK holds always: records, rules, tables and marks only ever name    *)
(* interfaces, groups and slots that exist, whatever fails, whenever the   *)
(* machine restarts.                                                       *)
(***************************************************************************)
THEOREM Typing == Spec => []TypeOK
<1>1. TypeInv => TypeOK
  BY DEF TypeInv
<1> QED
  BY <1>1, TypedAlways, PTL

-----------------------------------------------------------------------------
(* Slots *)

(***************************************************************************)
(* What every step but AdoptRequest and Save does to records and job: no   *)
(* record is added, and the operation is the same, is none that adopts, or *)
(* is the rollback of the same adoption.                                   *)
(***************************************************************************)
AddsNothing ==
    /\ records' \subseteq records
    /\ \/ job' = job
       \/ job'.op \notin {"adopt", "undo"}
       \/ job.op = "adopt" /\ job'.for = job.for

Adopts == \/ \E i \in Iface, procs \in SUBSET Pid, g \in Group : AdoptRequest(i, procs, g)
          \/ Save

LEMMA OnlyAdoptionsAdd == TypeInv /\ [Next]_vars => Adopts \/ AddsNothing
<1> SUFFICES ASSUME TypeInv, [Next]_vars, ~Adopts PROVE AddsNothing
  OBVIOUS
<1> USE DEF AddsNothing, Adopting, Releasing
<1>0. CASE UNCHANGED vars
  BY <1>0 DEF vars
<1>1. CASE NewRequest
  BY <1>1 DEF NewRequest, Adopts, ReleaseRequest, ResetRequest, TeardownRequest, BeginPass
<1>2. CASE (\E p \in Pid : Join(p)) \/ Joined \/ SetPolicy \/ Mark
  <2>1. job \in Job
    BY DEF TypeInv, TypeOK
  <2> QED
    BY <1>2, <2>1 DEF Join, Joined, SetPolicy, Mark, Undo, TypeInv, JobOK, Job
<1>3. CASE List \/ (\E p \in Pid : Eject(p)) \/ Ejected \/ Strip \/ Unmark
  BY <1>3 DEF List, Eject, Ejected, Strip, Unmark
<1>4. CASE Undone \/ Released
  BY <1>4, Freed DEF Undone, Released
<1>5. CASE (\E a \in queue : ResetNext(a)) \/ ResetMarks \/ ResetSweep
  BY <1>5, Freed DEF ResetNext, ResetMarks, ResetSweep, TypeInv, TypeOK, Job
<1>6. CASE (\E a \in queue : Idle(a)) \/ IdleReleased
  BY <1>6 DEF Idle, IdleReleased, TypeInv, TypeOK, JobOK, Job
<1>7. CASE IdleDone
  BY <1>7, Freed DEF IdleDone
<1>8. CASE (\E a \in queue : Refresh(a)) \/ RefreshDone
  BY <1>8, Freed DEF Refresh, RefreshDone
<1>9. CASE WatchCheck \/ WatchPass
  BY <1>9 DEF WatchCheck, WatchPass, BeginPass
<1>10. CASE Processes \/ Links
  BY <1>10 DEF Processes, Links, Start, Exit, Fork, LinkDown, LinkUp
<1>11. CASE Faults
  BY <1>11, Freed DEF Faults, Crash, Reboot, LoseState
<1> QED
  BY <1>0, <1>1, <1>2, <1>3, <1>4, <1>5, <1>6, <1>7, <1>8, <1>9, <1>10, <1>11
     DEF Next, Work, Adopts

LEMMA SlotsKept == TypeInv /\ SlotInv /\ [Next]_vars => SlotInv'
<1> SUFFICES ASSUME TypeInv, SlotInv, [Next]_vars PROVE SlotInv'
  OBVIOUS
<1> USE DEF SlotInv, SlotsDistinct, Fresh
<1>1. CASE AddsNothing
  BY <1>1 DEF AddsNothing
<1>2. ASSUME NEW i \in Iface, NEW procs \in SUBSET Pid, NEW g \in Group, AdoptRequest(i, procs, g)
      PROVE SlotInv'
  <2>1. PICK taken \in TakenSlots : \E op \in {"adopt", "undo"}, s \in FreeSlots(taken) :
          job' = [op |-> op, for |-> [group |-> g, iface |-> i, slot |-> s]]
    BY <1>2 DEF AdoptRequest
  <2>2. \A a \in records : a.slot \in taken
    BY <2>1 DEF TakenSlots, UsedSlots
  <2>3. \A a \in records : a.slot # job'.for.slot /\ a.group # job'.for.group
    BY <1>2, <2>1, <2>2 DEF AdoptRequest, FreeSlots, Unused
  <2>4. records' = records
    BY <1>2 DEF AdoptRequest
  <2> QED
    BY <2>3, <2>4
<1>3. CASE Save
  <2>1. job.op = "adopt"
    BY <1>3 DEF Save, TypeInv, JobOK, Adopting
  <2>2. CASE Release /\ records' = records \cup {job.for}
    BY <2>1, <2>2, Freed
  <2>3. CASE Undo /\ UNCHANGED records
    BY <2>1, <2>3 DEF Undo, TypeInv, TypeOK, Job
  <2> QED
    BY <1>3, <2>2, <2>3 DEF Save
<1> QED
  BY <1>1, <1>2, <1>3, OnlyAdoptionsAdd DEF Adopts

LEMMA SlotsAlways == Spec => []SlotInv
<1>1. Init => SlotInv
  BY DEF Init, SlotInv, SlotsDistinct, Fresh
<1> QED
  BY <1>1, SlotsKept, TypedAlways, PTL DEF Spec

(***************************************************************************)
(* No two adoptions ever have the same slot, and with it the same mark,    *)
(* rule, table and priority, whatever was half released, lost or left      *)
(* behind (pick_slot).                                                     *)
(***************************************************************************)
THEOREM SlotsNeverShared == Spec => []SlotsDistinct
<1>1. SlotInv => SlotsDistinct
  BY DEF SlotInv
<1> QED
  BY <1>1, SlotsAlways, PTL

-----------------------------------------------------------------------------
(* Processes *)

Steals == \E p \in Pid : /\ member[p] \in Group /\ member'[p] \in Group
                          /\ member'[p] # member[p]

LEMMA ListedStayFree ==
    TypeInv /\ ListedAreFree /\ [Next]_vars => ListedAreFree' /\ ~Steals
<1> SUFFICES ASSUME TypeInv, ListedAreFree, [Next]_vars PROVE ListedAreFree' /\ ~Steals
  OBVIOUS
<1> USE NullIsNew DEF ListedAreFree, Steals
<1>0. member \in [Pid -> Group \cup {Root, None}] /\ listed \subseteq Pid
  BY DEF TypeInv, TypeOK
<1>1. CASE member' = member /\ (pc' # "join" \/ (pc = "join" /\ listed' = listed))
  BY <1>1
<1>2. CASE NewRequest
  <2>1. ASSUME NEW i \in Iface, NEW procs \in SUBSET Pid, NEW g \in Group, AdoptRequest(i, procs, g)
        PROVE member' = member /\ \A p \in listed' : member[p] = Root
    BY <2>1 DEF AdoptRequest, Adoptable
  <2> QED
    BY <1>1, <1>2, <2>1 DEF NewRequest, ReleaseRequest, ResetRequest, TeardownRequest, BeginPass, Goto
<1>3. ASSUME NEW p \in Pid, Join(p) PROVE ListedAreFree' /\ ~Steals
  BY <1>0, <1>3 DEF Join, StillListed
<1>4. CASE Joined \/ SetPolicy \/ Mark
  BY <1>1, <1>4 DEF Joined, SetPolicy, Mark, Undo, Goto, memory
<1>5. CASE Save
  BY <1>1, <1>5, Freed DEF Save, Undo, Goto
<1>6. ASSUME NEW p \in Pid, Eject(p) PROVE ListedAreFree' /\ ~Steals
  BY <1>0, <1>6 DEF Eject
<1>7. CASE List \/ Ejected \/ Strip \/ Unmark
  BY <1>1, <1>7 DEF List, Ejected, Strip, Unmark, Goto
<1>8. CASE Undone \/ Released \/ (\E a \in queue : ResetNext(a)) \/ ResetMarks \/ ResetSweep
  BY <1>1, <1>8, Freed DEF Undone, Released, ResetNext, ResetMarks, ResetSweep, Goto
<1>9. CASE (\E a \in queue : Idle(a)) \/ IdleReleased \/ IdleDone
  BY <1>1, <1>9, Freed DEF Idle, IdleReleased, IdleDone, Goto
<1>10. CASE (\E a \in queue : Refresh(a)) \/ RefreshDone
  BY <1>1, <1>10, Freed DEF Refresh, RefreshDone
<1>11. CASE WatchCheck \/ WatchPass
  BY <1>1, <1>11 DEF WatchCheck, WatchPass, BeginPass, Goto, memory
<1>12. ASSUME NEW p \in Pid, Start(p) \/ Exit(p) PROVE ListedAreFree' /\ ~Steals
  BY <1>0, <1>12 DEF Start, Exit, Alive, memory
<1>13. ASSUME NEW p \in Pid, NEW q \in Pid, Fork(p, q) PROVE ListedAreFree' /\ ~Steals
  BY <1>0, <1>13 DEF Fork, Alive, memory
<1>14. CASE Links
  BY <1>1, <1>14 DEF Links, LinkDown, LinkUp, memory
<1>15. CASE Crash \/ LoseState
  BY <1>1, <1>15, Freed DEF Crash, LoseState
<1>16. CASE Reboot
  BY <1>16, Freed DEF Reboot
<1>17. CASE UNCHANGED vars
  BY <1>1, <1>17 DEF vars, memory
<1> QED
  BY <1>2, <1>3, <1>4, <1>5, <1>6, <1>7, <1>8, <1>9, <1>10, <1>11, <1>12, <1>13, <1>14, <1>15,
     <1>16, <1>17 DEF Next, Work, Processes, Faults

(***************************************************************************)
(* A process that one adoption routes is never moved to the group of       *)
(* another, also when numbers are reused (adopt).                          *)
(***************************************************************************)
THEOREM NobodyStolen == Spec => NeverStolen
<1>1. Init => ListedAreFree
  BY DEF Init, ListedAreFree
<1>2. TypeInv /\ ListedAreFree /\ [Next]_vars =>
        [\A p \in Pid : member[p] \in Group /\ member'[p] \in Group
                           => member'[p] = member[p]]_vars
  BY ListedStayFree DEF Steals
<1> QED
  BY <1>1, <1>2, ListedStayFree, TypedAlways, PTL DEF Spec, NeverStolen

-----------------------------------------------------------------------------
(***************************************************************************)
(* Proofs that adopted applications stay routed or blocked, and that marks *)
(* lead to the interface they are for.                                     *)
(***************************************************************************)

(***************************************************************************)
(* Adoptions stay routed because whoever takes rules, routes or marks away *)
(* does so in a slot no record has, or in one of a record whose release    *)
(* has begun; reset has begun to release every record it is done with.     *)
(***************************************************************************)
Recorded ==
    /\ queue \subseteq records
    /\ pc = "free" => queue = {}
    /\ pc \in Releasing /\ job.op # "undo" => job.for \in records

LettingGo == pc \in Releasing \ {"list"} => job.for.group \in letGo

ResetLetsGo ==
    job.op = "reset" =>
        \A a \in records \ queue :
            a.group \in letGo \/ (pc = "list" /\ a = job.for)

Keeping == pc \in Adopting => job.for.group \notin letGo

OperationInv == Recorded /\ LettingGo /\ ResetLetsGo /\ Keeping

PolicyBuilt ==
    pc \in {"mark", "save"} =>
        /\ job.for.slot \in rule /\ job.for.slot \in fallback
        /\ route[job.for.slot] \in {job.for.iface, None}

MarksBuilt ==
    pc = "save" => nft[job.for.slot] = [group |-> job.for.group, iface |-> job.for.iface]

BuiltInv == PolicyBuilt /\ MarksBuilt

RouteInv == OperationInv /\ BuiltInv /\ RoutedOrBlocked

-----------------------------------------------------------------------------
(* Operations *)

LEMMA OperationsKept == TypeInv /\ OperationInv /\ [Next]_vars => OperationInv'
<1> SUFFICES ASSUME TypeInv, OperationInv, [Next]_vars PROVE OperationInv'
  OBVIOUS
<1> USE DEF OperationInv, Recorded, LettingGo, ResetLetsGo, Keeping, Adopting, Releasing, Goto
<1>0. job \in Job
  BY DEF TypeInv, TypeOK
<1>1. CASE UNCHANGED <<records, queue, pc, job, letGo>>
  BY <1>1
<1>2. ASSUME NEW i \in Iface, NEW procs \in SUBSET Pid, NEW g \in Group, AdoptRequest(i, procs, g)
      PROVE OperationInv'
  <2>1. PICK op \in {"adopt", "undo"}, s \in Slot :
          /\ job' = [op |-> op, for |-> [group |-> g, iface |-> i, slot |-> s]]
          /\ \/ op = "adopt" /\ pc' = "join"
             \/ op = "undo" /\ pc' = "list"
    BY <1>2 DEF AdoptRequest, FreeSlots
  <2> QED
    BY <1>2, <2>1 DEF AdoptRequest
<1>3. ASSUME NEW a \in records, ReleaseRequest(a) PROVE OperationInv'
  BY <1>3 DEF ReleaseRequest, memory
<1>4. CASE ResetRequest
  BY <1>4 DEF ResetRequest
<1>5. CASE TeardownRequest \/ WatchPass
  BY <1>5 DEF TeardownRequest, WatchPass, BeginPass
<1>6. CASE \E p \in Pid : Join(p)
  BY <1>1, <1>6 DEF Join
<1>7. CASE Joined \/ SetPolicy \/ Mark
  BY <1>0, <1>7 DEF Joined, SetPolicy, Mark, Undo, memory, Job
<1>8. CASE Save
  <2>1. CASE Release
    BY <1>8, <2>1, Freed DEF Save
  <2>2. CASE Undo
    BY <1>0, <1>8, <2>2, Freed DEF Save, Undo, memory, Job
  <2> QED
    BY <1>8, <2>1, <2>2 DEF Save
<1>9. CASE List
  BY <1>9 DEF List
<1>10. CASE \E p \in Pid : Eject(p)
  BY <1>1, <1>10 DEF Eject
<1>11. CASE Ejected \/ Strip \/ Unmark
  BY <1>11 DEF Ejected, Strip, Unmark, memory
<1>12. CASE Undone \/ Released
  BY <1>12, Freed DEF Undone, Released
<1>13. ASSUME NEW a \in queue, ResetNext(a) PROVE OperationInv'
  BY <1>0, <1>13 DEF ResetNext, Job
<1>14. CASE ResetMarks \/ ResetSweep
  BY <1>14, Freed DEF ResetMarks, ResetSweep, memory
<1>15. ASSUME NEW a \in queue, Idle(a) PROVE OperationInv'
  BY <1>0, <1>15 DEF Idle, Job, TypeInv, JobOK
<1>16. CASE IdleReleased
  BY <1>0, <1>16 DEF IdleReleased, Job
<1>17. CASE IdleDone
  BY <1>17, Freed DEF IdleDone, TypeInv, JobOK
<1>18. CASE (\E a \in queue : Refresh(a)) \/ RefreshDone
  BY <1>18, Freed DEF Refresh, RefreshDone, TypeInv, JobOK
<1>19. CASE WatchCheck \/ Processes \/ Links
  BY <1>1, <1>19 DEF WatchCheck, Processes, Links, Start, Exit, Fork, LinkDown, LinkUp, memory
<1>20. CASE Crash \/ Reboot
  BY <1>20, Freed DEF Crash, Reboot
<1>21. CASE LoseState
  BY <1>21 DEF LoseState, memory
<1>22. CASE UNCHANGED vars
  BY <1>1, <1>22 DEF vars, memory
<1> QED
  BY <1>2, <1>3, <1>4, <1>5, <1>6, <1>7, <1>8, <1>9, <1>10, <1>11, <1>12, <1>13, <1>14, <1>15,
     <1>16, <1>17, <1>18, <1>19, <1>20, <1>21, <1>22 DEF Next, NewRequest, Work, Faults

-----------------------------------------------------------------------------
(* What an adoption builds *)

\* All steps but those of an adoption that go on from "mark" or "save" end it.
LEMMA OnlyAdoptionsBuild ==
  TypeInv /\ [Next]_vars =>
    \/ SetPolicy \/ Mark
    \/ pc' \notin {"mark", "save"}
    \/ UNCHANGED <<pc, job, nft, rule, fallback>> /\ (route' = route \/ \E i \in Iface : LinkDown(i))
<1> SUFFICES ASSUME TypeInv, [Next]_vars, pc' \in {"mark", "save"}, ~SetPolicy, ~Mark
             PROVE UNCHANGED <<pc, job, nft, rule, fallback>>
                   /\ (route' = route \/ \E i \in Iface : LinkDown(i))
  OBVIOUS
<1> USE DEF Goto, policy
<1>1. ~NewRequest
  BY DEF NewRequest, AdoptRequest, ReleaseRequest, ResetRequest, TeardownRequest, BeginPass
<1>2. ~WatchPass
  BY DEF WatchPass, BeginPass
<1>3. ~((\E p \in Pid : Join(p)) \/ Joined \/ Save)
  BY Freed DEF Join, Joined, Save, Undo
<1>4. ~(List \/ (\E p \in Pid : Eject(p)) \/ Ejected \/ Strip \/ Unmark)
  BY DEF List, Eject, Ejected, Strip, Unmark
<1>5. ~(Undone \/ Released \/ (\E a \in queue : ResetNext(a)) \/ ResetMarks \/ ResetSweep)
  BY Freed DEF Undone, Released, ResetNext, ResetMarks, ResetSweep
<1>6. ~((\E a \in queue : Idle(a)) \/ IdleReleased \/ IdleDone)
  BY Freed DEF Idle, IdleReleased, IdleDone
<1>7. ~((\E a \in queue : Refresh(a)) \/ RefreshDone)
  BY Freed DEF Refresh, RefreshDone
<1>8. ~Faults
  BY Freed DEF Faults, Crash, Reboot, LoseState
<1>9. CASE WatchCheck \/ Processes \/ Links \/ UNCHANGED vars
  BY <1>9 DEF WatchCheck, Processes, Links, Start, Exit, Fork, LinkDown, LinkUp, vars
<1> QED
  BY <1>1, <1>2, <1>3, <1>4, <1>5, <1>6, <1>7, <1>8, <1>9 DEF Next, Work

LEMMA BuiltKept == TypeInv /\ BuiltInv /\ [Next]_vars => BuiltInv'
<1> SUFFICES ASSUME TypeInv, BuiltInv, [Next]_vars PROVE BuiltInv'
  OBVIOUS
<1> USE DEF BuiltInv, PolicyBuilt, MarksBuilt, policy, Goto
<1>0. /\ route \in [Slot -> Iface \cup {None}]
      /\ nft \in [Slot -> Marks \cup {None}]
      /\ pc \in {"policy", "mark", "save"} => job.for.slot \in Slot
  BY DEF TypeInv, TypeOK, JobOK, Adopting, Record
<1>1. CASE SetPolicy
  BY <1>0, <1>1 DEF SetPolicy, ApplyPolicy, Undo
<1>2. CASE Mark
  BY <1>0, <1>2 DEF Mark, Undo
<1>3. CASE UNCHANGED <<pc, job, nft, rule, fallback>> /\ route' = route
  BY <1>3
<1>4. ASSUME NEW i \in Iface, LinkDown(i) PROVE BuiltInv'
  BY <1>0, <1>4 DEF LinkDown
<1> QED
  BY <1>1, <1>2, <1>3, <1>4, OnlyAdoptionsBuild

-----------------------------------------------------------------------------
(* Routes *)

\* A recorded adoption stays as it is, unless its release begins.
LEMMA RoutedFrame ==
    /\ RoutedOrBlocked
    /\ records' \subseteq records
    /\ \A a \in records : a.group \notin letGo' => a.group \notin letGo
    /\ \A a \in records : Members(a.group)' # {} => Members(a.group) # {}
    /\ \A a \in records : a.group \notin letGo' =>
          /\ nft'[a.slot] = nft[a.slot]
          /\ a.slot \in rule => a.slot \in rule'
          /\ a.slot \in fallback => a.slot \in fallback'
          /\ route'[a.slot] \in {route[a.slot], a.iface, None}
    => RoutedOrBlocked'
BY DEF RoutedOrBlocked

LEMMA RoutesKept ==
  TypeInv /\ SlotInv /\ SlotInv' /\ RouteInv /\ [Next]_vars => RoutedOrBlocked'
<1> SUFFICES ASSUME TypeInv, SlotInv, SlotInv', RouteInv, [Next]_vars PROVE RoutedOrBlocked'
  OBVIOUS
<1> USE DEF policy, memory
<1>0. /\ member \in [Pid -> Group \cup {Root, None}]
      /\ route \in [Slot -> Iface \cup {None}]
      /\ nft \in [Slot -> Marks \cup {None}]
      /\ RoutedOrBlocked
      /\ \A a \in records : a \in Record /\ a.slot \in Slot /\ a.group \in Group
      /\ \A a, b \in records : a.slot = b.slot => a = b
  BY DEF TypeInv, TypeOK, RouteInv, Record, SlotInv, SlotsDistinct
<1>1. pc \in Adopting => \A a \in records : a.slot # job.for.slot /\ a.group # job.for.group
  BY DEF SlotInv, Fresh, TypeInv, JobOK
<1>2. pc \in Releasing \ {"list"} =>
        \A a \in records : a.group \notin letGo => a.slot # job.for.slot
  BY <1>0 DEF SlotInv, Fresh, RouteInv, OperationInv, Recorded, LettingGo
<1>3. CASE UNCHANGED <<member, nft, rule, route, fallback, letGo>> /\ records' \subseteq records
  BY <1>0, <1>3, RoutedFrame DEF Members
<1>4. ASSUME NEW i \in Iface, NEW procs \in SUBSET Pid, NEW g \in Group, AdoptRequest(i, procs, g)
      PROVE RoutedOrBlocked'
  <2>1. \A a \in records : a.group # g
    BY <1>4 DEF AdoptRequest, Unused
  <2> QED
    BY <1>0, <1>4, <2>1, RoutedFrame DEF AdoptRequest, Members
<1>5. CASE NewRequest \/ WatchPass
  BY <1>3, <1>4, <1>5
     DEF NewRequest, WatchPass, ReleaseRequest, ResetRequest, TeardownRequest, BeginPass
<1>6. ASSUME NEW p \in Pid, Join(p) PROVE RoutedOrBlocked'
  <2>1. \A a \in records : Members(a.group)' \subseteq Members(a.group)
    BY <1>0, <1>1, <1>6 DEF Join, Members, Adopting
  <2> QED
    BY <1>0, <1>6, <2>1, RoutedFrame DEF Join
<1>7. CASE Joined
  BY <1>3, <1>7 DEF Joined
<1>8. CASE SetPolicy
  <2>1. PICK n \in 0..3 : ApplyPolicy(job.for.slot, job.for.iface, n)
    BY <1>8 DEF SetPolicy
  <2>2. \A a \in records : a.slot # job.for.slot
    BY <1>1, <1>8 DEF SetPolicy, Adopting
  <2>3. /\ \A a \in records : route'[a.slot] = route[a.slot]
        /\ rule \subseteq rule' /\ fallback \subseteq fallback'
    BY <1>0, <2>1, <2>2 DEF ApplyPolicy
  <2> QED
    BY <1>0, <1>8, <2>3, RoutedFrame DEF SetPolicy, Members
<1>9. CASE Mark
  <2>1. \A a \in records : nft'[a.slot] = nft[a.slot]
    BY <1>0, <1>1, <1>9 DEF Mark, Adopting
  <2> QED
    BY <1>0, <1>9, <2>1, RoutedFrame DEF Mark, Members
<1>10. CASE Save
  <2>1. UNCHANGED <<member, nft, rule, route, fallback, letGo>>
    BY <1>10 DEF Save
  <2>2. records' \subseteq records \cup {job.for}
    BY <1>10 DEF Save
  <2>3. /\ job.for.slot \in rule /\ job.for.slot \in fallback
        /\ route[job.for.slot] \in {job.for.iface, None}
        /\ nft[job.for.slot] = [group |-> job.for.group, iface |-> job.for.iface]
    BY <1>10 DEF Save, RouteInv, BuiltInv, PolicyBuilt, MarksBuilt
  <2> QED
    BY <1>0, <2>1, <2>2, <2>3 DEF RoutedOrBlocked, Members
<1>11. CASE List
  BY <1>0, <1>11, RoutedFrame DEF List, Members
<1>12. ASSUME NEW p \in Pid, Eject(p) PROVE RoutedOrBlocked'
  <2>1. \A a \in records : Members(a.group)' \subseteq Members(a.group)
    BY <1>0, <1>12, NullIsNew DEF Eject, Members
  <2> QED
    BY <1>0, <1>12, <2>1, RoutedFrame DEF Eject
<1>13. CASE Ejected
  BY <1>3, <1>13 DEF Ejected
<1>14. CASE Strip
  <2>1. PICK n \in Done(2) : RemovePolicy(job.for.slot, n)
    BY <1>14 DEF Strip
  <2>2. \A a \in records : a.group \notin letGo => a.slot # job.for.slot
    BY <1>2, <1>14 DEF Strip, Releasing
  <2>3. \A a \in records : a.group \notin letGo =>
          /\ a.slot \in rule => a.slot \in rule'
          /\ a.slot \in fallback => a.slot \in fallback'
          /\ route'[a.slot] = route[a.slot]
    BY <1>0, <2>1, <2>2 DEF RemovePolicy
  <2> QED
    BY <1>0, <1>14, <2>3, RoutedFrame DEF Strip, Members
<1>15. CASE Unmark
  <2>1. \A a \in records : a.group \notin letGo => nft'[a.slot] = nft[a.slot]
    BY <1>0, <1>2, <1>15 DEF Unmark, Releasing
  <2> QED
    BY <1>0, <1>15, <2>1, RoutedFrame DEF Unmark, Members
<1>16. CASE Undone \/ Released \/ (\E a \in queue : ResetNext(a))
  BY <1>3, <1>16 DEF Undone, Released, ResetNext
<1>17. CASE ResetMarks
  <2>1. \A a \in records : a.group \in letGo
    BY <1>17 DEF ResetMarks, RouteInv, OperationInv, ResetLetsGo
  <2> QED
    BY <1>17, <2>1 DEF ResetMarks, RoutedOrBlocked
<1>18. CASE ResetSweep
  BY <1>18 DEF ResetSweep, RoutedOrBlocked
<1>19. CASE (\E a \in queue : Idle(a)) \/ IdleReleased \/ IdleDone \/ RefreshDone
  BY <1>3, <1>19 DEF Idle, IdleReleased, IdleDone, RefreshDone
<1>20. ASSUME NEW a \in queue, Refresh(a) PROVE RoutedOrBlocked'
  <2>1. a \in records
    BY DEF RouteInv, OperationInv, Recorded
  <2>2. CASE UNCHANGED policy
    BY <1>3, <1>20, <2>2 DEF Refresh
  <2>3. ASSUME NEW n \in 0..3, ApplyPolicy(a.slot, a.iface, n) PROVE RoutedOrBlocked'
    <3>1. /\ rule \subseteq rule' /\ fallback \subseteq fallback'
          /\ \A b \in records : route'[b.slot] \in {route[b.slot], b.iface}
      BY <1>0, <2>1, <2>3 DEF ApplyPolicy
    <3> QED
      BY <1>0, <1>20, <3>1, RoutedFrame DEF Refresh, Members
  <2> QED
    BY <1>20, <2>2, <2>3 DEF Refresh
<1>21. ASSUME NEW p \in Pid, Start(p) \/ Exit(p) PROVE RoutedOrBlocked'
  <2>1. \A a \in records : Members(a.group)' \subseteq Members(a.group)
    BY <1>0, <1>21, NullIsNew DEF Start, Exit, Members
  <2> QED
    BY <1>0, <1>21, <2>1, RoutedFrame DEF Start, Exit
<1>22. ASSUME NEW p \in Pid, NEW q \in Pid, Fork(p, q) PROVE RoutedOrBlocked'
  <2>1. \A a \in records : Members(a.group)' # {} => Members(a.group) # {}
    BY <1>0, <1>22 DEF Fork, Members
  <2> QED
    BY <1>0, <1>22, <2>1, RoutedFrame DEF Fork
<1>23. ASSUME NEW i \in Iface, LinkDown(i) PROVE RoutedOrBlocked'
  BY <1>0, <1>23, RoutedFrame DEF LinkDown, Members
<1>24. CASE \E i \in Iface : LinkUp(i)
  BY <1>3, <1>24 DEF LinkUp
<1>25. CASE Crash \/ LoseState \/ WatchCheck \/ UNCHANGED vars
  BY <1>3, <1>25 DEF Crash, LoseState, WatchCheck, vars
<1>26. CASE Reboot
  <2>1. \A a \in records' : Members(a.group)' = {}
    BY <1>0, <1>26, NullIsNew DEF Reboot, Members
  <2> QED
    BY <2>1 DEF RoutedOrBlocked
<1> QED
  BY <1>5, <1>6, <1>7, <1>8, <1>9, <1>10, <1>11, <1>12, <1>13, <1>14, <1>15, <1>16, <1>17, <1>18,
     <1>19, <1>20, <1>21, <1>22, <1>23, <1>24, <1>25, <1>26
     DEF Next, Work, Processes, Links, Faults

LEMMA RoutesAlways == Spec => []RouteInv
<1>1. Init => RouteInv
  BY DEF Init, NoJob, RouteInv, OperationInv, Recorded, LettingGo, ResetLetsGo, Keeping, BuiltInv,
         PolicyBuilt, MarksBuilt, RoutedOrBlocked, Adopting, Releasing
<1>2. TypeInv /\ SlotInv /\ SlotInv' /\ RouteInv /\ [Next]_vars => RouteInv'
  BY OperationsKept, BuiltKept, RoutesKept DEF RouteInv
<1> QED
  BY <1>1, <1>2, TypedAlways, SlotsAlways, PTL DEF Spec

(***************************************************************************)
(* An adopted application is routed by its interface or not at all, until  *)
(* InterMux begins to release it: whatever fails, whoever forks, however   *)
(* links flap, and wherever an operation dies (adopt, refresh_policy).     *)
(***************************************************************************)
THEOREM AlwaysRoutedOrBlocked == Spec => []RoutedOrBlocked
<1>1. RouteInv => RoutedOrBlocked
  BY DEF RouteInv
<1> QED
  BY <1>1, RoutesAlways, PTL

-----------------------------------------------------------------------------
(* Marks *)

(***************************************************************************)
(* Marks lead home because a slot is taken with no marks in it, and a      *)
(* refresh gives a slot the route of the record it belongs to.             *)
(***************************************************************************)
OwnMarks == \A a \in records : nft[a.slot] = None \/ nft[a.slot].iface = a.iface
Unmarked == pc \in {"join", "policy", "mark"} => nft[job.for.slot] = None

HomeInv == OwnMarks /\ Unmarked /\ MarksLeadHome

\* Marks and routes are only taken away, and no adoption goes on.
LEMMA HomeFrame ==
  TypeOK /\ HomeInv
    /\ records' \subseteq records
    /\ (\A s \in Slot : nft'[s] \in {nft[s], None} /\ route'[s] \in {route[s], None})
    /\ (pc' \notin {"join", "policy", "mark"} \/ UNCHANGED <<pc, job, nft>>)
    => HomeInv'
BY DEF TypeOK, Record, HomeInv, OwnMarks, Unmarked, MarksLeadHome

LEMMA HomeKept ==
  ASSUME "listing" \notin MayFail
  PROVE  TypeInv /\ SlotInv /\ RouteInv /\ HomeInv /\ [Next]_vars => HomeInv'
<1> SUFFICES ASSUME TypeInv, SlotInv, RouteInv, HomeInv, [Next]_vars PROVE HomeInv'
  OBVIOUS
<1> USE DEF policy, memory, Goto
<1>0. /\ route \in [Slot -> Iface \cup {None}]
      /\ nft \in [Slot -> Marks \cup {None}]
      /\ TypeOK
      /\ \A a \in records : a \in Record /\ a.slot \in Slot
      /\ \A a, b \in records : a.slot = b.slot => a = b
      /\ pc \in Adopting => job.for \in Record /\ job.for.slot \in Slot
  BY DEF TypeInv, TypeOK, JobOK, Record, SlotInv, SlotsDistinct
<1>1. pc \in Adopting => \A a \in records : a.slot # job.for.slot
  BY DEF SlotInv, Fresh, TypeInv, JobOK
<1>2. CASE /\ records' \subseteq records /\ UNCHANGED <<nft, route>>
           /\ pc' \notin {"join", "policy", "mark"} \/ UNCHANGED <<pc, job>>
  BY <1>0, <1>2, HomeFrame
<1>3. ASSUME NEW i \in Iface, NEW procs \in SUBSET Pid, NEW g \in Group, AdoptRequest(i, procs, g)
      PROVE HomeInv'
  <2>1. PICK op \in {"adopt", "undo"}, s \in Slot :
          /\ s \notin UsedSlots
          /\ job' = [op |-> op, for |-> [group |-> g, iface |-> i, slot |-> s]]
    BY <1>3 DEF AdoptRequest, TakenSlots, FreeSlots
  <2>2. nft[job'.for.slot] = None
    BY <2>1 DEF UsedSlots
  <2>3. UNCHANGED <<records, nft, route>>
    BY <1>3 DEF AdoptRequest
  <2> QED
    BY <2>2, <2>3 DEF HomeInv, OwnMarks, Unmarked, MarksLeadHome
<1>4. CASE NewRequest \/ WatchPass
  BY <1>2, <1>3, <1>4
     DEF NewRequest, WatchPass, ReleaseRequest, ResetRequest, TeardownRequest, BeginPass
<1>5. CASE \E p \in Pid : Join(p)
  BY <1>2, <1>5 DEF Join
<1>6. CASE Joined
  <2>1. /\ UNCHANGED <<records, nft, route>>
        /\ pc = "join" /\ job'.for = job.for
    BY <1>6 DEF Joined, Undo, TypeInv, TypeOK, Job
  <2> QED
    BY <2>1 DEF HomeInv, OwnMarks, Unmarked, MarksLeadHome
<1>7. CASE SetPolicy
  <2>1. /\ UNCHANGED <<records, nft>> /\ pc = "policy" /\ job'.for = job.for
        /\ \A s \in Slot : s # job.for.slot => route'[s] = route[s]
    BY <1>0, <1>7 DEF SetPolicy, ApplyPolicy, Undo, TypeInv, TypeOK, Job
  <2>2. nft[job.for.slot] = None
    BY <2>1 DEF HomeInv, Unmarked
  <2> QED
    BY <2>1, <2>2 DEF HomeInv, OwnMarks, Unmarked, MarksLeadHome
<1>8. CASE Mark
  <2>1. UNCHANGED <<records, route>> /\ pc = "mark"
    BY <1>8 DEF Mark
  <2>2. CASE UNCHANGED nft /\ Undo
    BY <1>2, <2>1, <2>2 DEF Undo
  <2>3. CASE /\ nft' = [nft EXCEPT ![job.for.slot] = [group |-> job.for.group, iface |-> job.for.iface]]
             /\ pc' = "save"
    <3>1. /\ nft'[job.for.slot].iface = job.for.iface
          /\ \A s \in Slot : s # job.for.slot => nft'[s] = nft[s]
          /\ \A a \in records : a.slot # job.for.slot
      BY <1>0, <1>1, <2>1, <2>3 DEF Adopting
    <3>2. route[job.for.slot] \in {job.for.iface, None}
      BY <2>1 DEF RouteInv, BuiltInv, PolicyBuilt
    <3> QED
      BY <1>0, <2>1, <2>3, <3>1, <3>2 DEF HomeInv, OwnMarks, Unmarked, MarksLeadHome
  <2> QED
    BY <1>8, <2>2, <2>3 DEF Mark
<1>9. CASE Save
  <2>1. /\ UNCHANGED <<nft, route>> /\ records' \subseteq records \cup {job.for}
        /\ pc' \notin {"join", "policy", "mark"}
    BY <1>9, Freed DEF Save, Undo
  <2>2. nft[job.for.slot].iface = job.for.iface
    BY <1>9 DEF Save, RouteInv, BuiltInv, MarksBuilt
  <2> QED
    BY <2>1, <2>2 DEF HomeInv, OwnMarks, Unmarked, MarksLeadHome
<1>10. CASE List \/ (\E p \in Pid : Eject(p)) \/ Ejected
  BY <1>2, <1>10 DEF List, Eject, Ejected
<1>11. CASE Strip
  BY <1>0, <1>11, HomeFrame DEF Strip, RemovePolicy
<1>12. CASE Unmark
  BY <1>0, <1>12, HomeFrame DEF Unmark
<1>13. CASE Undone \/ Released \/ (\E a \in queue : ResetNext(a))
  BY <1>2, <1>13, Freed DEF Undone, Released, ResetNext
<1>14. CASE ResetMarks
  BY <1>0, <1>14, HomeFrame DEF ResetMarks
<1>15. CASE ResetSweep
  BY <1>0, <1>15, HomeFrame, Freed DEF ResetSweep
<1>16. CASE (\E a \in queue : Idle(a)) \/ IdleReleased \/ IdleDone \/ RefreshDone
  BY <1>2, <1>16, Freed DEF Idle, IdleReleased, IdleDone, RefreshDone
<1>17. ASSUME NEW a \in queue, Refresh(a) PROVE HomeInv'
  <2>1. a \in records
    BY DEF RouteInv, OperationInv, Recorded
  <2>2. nft[a.slot] = None \/ nft[a.slot].iface = a.iface
    BY <2>1 DEF HomeInv, OwnMarks
  <2>3. /\ UNCHANGED <<records, nft, pc, job>>
        /\ \A s \in Slot : route'[s] = route[s] \/ (s = a.slot /\ route'[s] = a.iface)
    BY <1>0, <1>17 DEF Refresh, ApplyPolicy
  <2> QED
    BY <2>2, <2>3 DEF HomeInv, OwnMarks, Unmarked, MarksLeadHome
<1>18. CASE Processes
  BY <1>2, <1>18 DEF Processes, Start, Exit, Fork
<1>19. ASSUME NEW i \in Iface, LinkDown(i) PROVE HomeInv'
  BY <1>0, <1>19, HomeFrame DEF LinkDown
<1>20. CASE (\E i \in Iface : LinkUp(i)) \/ WatchCheck \/ UNCHANGED vars
  BY <1>2, <1>20 DEF LinkUp, WatchCheck, vars
<1>21. CASE Crash \/ LoseState
  BY <1>2, <1>21, Freed DEF Crash, LoseState
<1>22. CASE Reboot
  BY <1>0, <1>22, HomeFrame, Freed DEF Reboot
<1> QED
  BY <1>4, <1>5, <1>6, <1>7, <1>8, <1>9, <1>10, <1>11, <1>12, <1>13, <1>14, <1>15, <1>16, <1>17,
     <1>18, <1>19, <1>20, <1>21, <1>22 DEF Next, Work, Links, Faults

(***************************************************************************)
(* As long as nft can list its tables, what is marked for one interface    *)
(* never follows the route of another, also when the marks outlive their   *)
(* record (kernel_slots).                                                  *)
(***************************************************************************)
THEOREM MarksAlwaysLeadHome ==
  ASSUME "listing" \notin MayFail
  PROVE  Spec => []MarksLeadHome
<1>1. Init => HomeInv
  BY DEF Init, HomeInv, OwnMarks, Unmarked, MarksLeadHome
<1>2. HomeInv => MarksLeadHome
  BY DEF HomeInv
<1> QED
  BY <1>1, <1>2, HomeKept, TypedAlways, SlotsAlways, RoutesAlways, PTL DEF Spec
=============================================================================
