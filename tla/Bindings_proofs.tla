-------------------------- MODULE Bindings_proofs --------------------------
(***************************************************************************)
(* Proofs about Bindings for every number of interfaces, applications,     *)
(* processes, subnets and faults: types; then the state file; then what    *)
(* runs, and the refinement of Leases.                                     *)
(***************************************************************************)
EXTENDS BindingsProps, TLAPS

(***************************************************************************)
(* The typing invariant is not inductive alone: what an operation builds   *)
(* and records is typed because the operation was asked for an interface   *)
(* and an application, and has saved a subnet by the time it builds.       *)
(***************************************************************************)
OnIface == {"closing", "plumb", "launch", "wait", "rollback", "drop", "remove"}
Building == {"plumb", "launch", "wait", "rollback"}

JobOK ==
    /\ pc \in OnIface => job.iface \in Iface
    /\ pc \in {"closing", "plumb", "launch", "wait", "drop"} => job.app \in App
    /\ pc \in Building => Recorded(job.iface)
    /\ pc = "wait" => child \in Pid
    /\ pc = "closing" /\ job.op = "move" => job.from \in Iface
    /\ pc \in {"plumb", "launch", "wait"} /\ job.op = "move" => job.from \in Iface
    /\ pc = "drop" => job.from \in Iface

TypeInv == TypeOK /\ JobOK

LEMMA InitTyped == Init => TypeInv
BY BoundsAreRight, NullIsNew
   DEF Init, TypeInv, TypeOK, JobOK, NoJob, Job, Operations, Policies, Steps, OnIface, Building,
       PieceSets, NoPieces

LEMMA RequestsTyped == TypeInv /\ NewRequest => TypeInv'
<1> SUFFICES ASSUME TypeInv, NewRequest PROVE TypeInv'
  OBVIOUS
<1> USE FailingAreIfaces, NullIsNew
    DEF TypeInv, TypeOK, JobOK, OnIface, Building, Steps, Operations, Policies, Job,
        disk, kernel, memory, Take, Request, Recorded
<1>1. ASSUME NEW i \in Iface, NEW newSettings \in SUBSET (SUBSET Iface), SaveSubnet(i, newSettings)
      PROVE  /\ subnets' \in [Iface -> Subnet \cup {None}]
             /\ settings' \subseteq Iface
             /\ bindings' = bindings
             /\ subnets'[i] # None
  BY <1>1 DEF SaveSubnet
<1>2. ASSUME NEW i \in Iface, NEW a \in App, NEW how \in Policies, BindRequest(i, a, how)
      PROVE TypeInv'
  <2>1. SettingsAfterBind(i) \in SUBSET (SUBSET Iface)
    BY DEF SettingsAfterBind
  <2>2. CASE pc' = "plumb"
    <3>1. /\ SaveSubnet(i, SettingsAfterBind(i))
          /\ job' = Request("bind", i, a, None, "ask")
      BY <1>2, <2>2 DEF BindRequest
    <3> QED
      BY <1>2, <2>1, <2>2, <3>1, <1>1 DEF BindRequest
  <2>3. CASE pc' = "closing"
    BY <1>2, <2>3 DEF BindRequest, Descendants
  <2> QED
    BY <1>2, <2>2, <2>3 DEF BindRequest
<1>3. ASSUME NEW b \in bindings, NEW request \in Job, StopFirst(b, request),
             request.iface \in Iface, request.app \in App,
             request.op = "move" => request.from \in Iface
      PROVE TypeInv'
  BY <1>3 DEF StopFirst, Descendants
<1>4. ASSUME NEW b \in bindings, NEW how \in {"ask", "separate"}, RestartRequest(b, how)
      PROVE TypeInv'
  <2> DEFINE request == Request("restart", b.iface, b.app, None, how)
  <2>1. /\ request \in Job /\ request.iface \in Iface
        /\ request.app \in App /\ request.op = "restart"
    BY DEF Binding
  <2>2. StopFirst(b, request)
    BY <1>4 DEF RestartRequest
  <2> HIDE DEF request
  <2> QED
    BY <2>1, <2>2, <1>3
<1>5. ASSUME NEW b \in bindings, NEW to \in Iface, NEW how \in {"ask", "separate"},
             MoveRequest(b, to, how)
      PROVE TypeInv'
  <2> DEFINE request == Request("move", to, b.app, b.iface, how)
  <2>1. /\ request \in Job /\ request.iface \in Iface
        /\ request.app \in App /\ request.from \in Iface
    BY DEF Binding
  <2>2. StopFirst(b, request)
    BY <1>5 DEF MoveRequest
  <2> HIDE DEF request
  <2> QED
    BY <2>1, <2>2, <1>3
<1>6. ASSUME NEW i \in Iface, RemoveRequest(i) PROVE TypeInv'
  BY <1>6 DEF RemoveRequest
<1>7. ASSUME NEW i \in Iface, NEW byHand \in BOOLEAN, SetSettings(i, byHand) PROVE TypeInv'
  BY <1>7 DEF SetSettings
<1>8. CASE ResetRequest
  BY <1>8 DEF ResetRequest
<1>9. CASE TeardownRequest
  BY <1>9 DEF TeardownRequest, BeginTeardown
<1> QED
  BY <1>2, <1>4, <1>5, <1>6, <1>7, <1>8, <1>9 DEF NewRequest

LEMMA BuildTyped ==
  TypeInv /\ (Closed \/ NotClosed \/ Plumb \/ LaunchFails \/ (\E p \in Pid : Launch(p))
             \/ RecordBinding \/ LaunchExited) => TypeInv'
<1> SUFFICES ASSUME TypeInv PROVE
      Closed \/ NotClosed \/ Plumb \/ LaunchFails \/ (\E p \in Pid : Launch(p))
      \/ RecordBinding \/ LaunchExited => TypeInv'
  OBVIOUS
<1> USE FailingAreIfaces, NullIsNew
    DEF TypeInv, TypeOK, JobOK, OnIface, Building, Steps, Operations, Policies, Job, NoJob,
        disk, kernel, memory, Release, Goto, Recorded
<1>1. CASE Closed
  <2>1. CASE pc' = "plumb"
    <3> DEFINE newSettings == IF job.op = "bind" THEN SettingsAfterBind(job.iface) ELSE {settings}
    <3>1. SaveSubnet(job.iface, newSettings) /\ job.iface \in Iface
      BY <1>1, <2>1 DEF Closed
    <3>2. newSettings \in SUBSET (SUBSET Iface)
      BY <3>1 DEF SettingsAfterBind
    <3> HIDE DEF newSettings
    <3>3. /\ subnets' \in [Iface -> Subnet \cup {None}]
          /\ settings' \subseteq Iface
          /\ bindings' = bindings
          /\ subnets'[job.iface] # None
      BY <3>1, <3>2 DEF SaveSubnet
    <3>4. /\ job' = [job EXCEPT !.policy = "ask"] /\ pc = "closing"
          /\ targets' = {}
          /\ UNCHANGED <<child, left, unseen, sweep, torn, kept, kernel, proc, watch, faults, orphans>>
      BY <1>1, <2>1 DEF Closed
    <3> QED
      BY <2>1, <3>3, <3>4
  <2>2. CASE pc' = "free"
    BY <1>1, <2>2 DEF Closed
  <2> QED
    BY <1>1, <2>1, <2>2 DEF Closed
<1>2. CASE NotClosed
  BY <1>2 DEF NotClosed
<1>3. CASE Plumb
  BY <1>3 DEF Plumb, BuildPieces
<1>4. CASE LaunchFails
  BY <1>4 DEF LaunchFails
<1>5. ASSUME NEW p \in Pid, Launch(p) PROVE TypeInv'
  BY <1>5 DEF Launch, Process
<1>6. CASE RecordBinding
  <2>1. NewBinding \in Binding
    BY <1>6 DEF RecordBinding, NewBinding, Binding
  <2>2. BindingsWith(NewBinding) \subseteq Binding
    BY <2>1 DEF BindingsWith
  <2> QED
    BY <1>6, <2>2 DEF RecordBinding
<1>7. CASE LaunchExited
  BY <1>7 DEF LaunchExited
<1> QED
  BY <1>1, <1>2, <1>3, <1>4, <1>5, <1>6, <1>7

KernelTyped ==
    /\ ns \subseteq Iface
    /\ veth \subseteq Iface \X Subnet
    /\ nat \subseteq Iface \X Subnet
    /\ rule \subseteq Subnet
    /\ table \in [Subnet -> Iface \cup {None}]

LEMMA RemovePlumbingTyped ==
  ASSUME TypeOK, NEW i, NEW s, NEW R, RemovePlumbing(i, s, R)
  PROVE  KernelTyped'
BY DEF TypeOK, RemovePlumbing, KernelTyped

LEMMA WipeTyped ==
  ASSUME TypeOK, NEW F, NEW R, Wipe(F, R)
  PROVE  KernelTyped'
BY DEF TypeOK, Wipe, KernelTyped

\* Only what still exists is an orphan.
LEMMA ForsakeTyped ==
  ASSUME KernelTyped', NEW pieces, Forsake(pieces)
  PROVE  orphans' \in PieceSets
BY DEF KernelTyped, Forsake, PieceSets, Tabled

LEMMA ForgetTyped ==
  ASSUME TypeOK, NEW gone, ForgetIfaces(gone)
  PROVE  /\ subnets' \in [Iface -> Subnet \cup {None}]
         /\ settings' \subseteq Iface
BY DEF TypeOK, ForgetIfaces

LEMMA TearDownTyped ==
  ASSUME TypeOK, NEW i \in Iface, TearDownAndForget(i)
  PROVE  /\ KernelTyped'
         /\ orphans' \in PieceSets
         /\ subnets' \in [Iface -> Subnet \cup {None}]
         /\ settings' \subseteq Iface
<1>1. PICK R : RemovePlumbing(i, subnets[i], R) /\ Forsake(Failed({i}, {subnets[i]}, R))
  BY DEF TearDownAndForget
<1>2. ForgetIfaces({i})
  BY DEF TearDownAndForget
<1>3. KernelTyped'
  BY <1>1, RemovePlumbingTyped
<1>4. orphans' \in PieceSets
  BY <1>1, <1>3, ForsakeTyped
<1> QED
  BY <1>2, <1>3, <1>4, ForgetTyped

LEMMA TearDownRaises ==
  ASSUME TypeOK, NEW i, NEW R, TearDown(i, R)
  PROVE  KernelTyped' /\ orphans' \in PieceSets
<1>1. KernelTyped'
  BY RemovePlumbingTyped DEF TearDown
<1> QED
  BY <1>1, ForsakeTyped DEF TearDown

LEMMA UnbuildTyped ==
  TypeInv /\ (Rollback \/ DropMoved \/ Remove \/ WatchTeardown
             \/ (\E b \in unseen : Examine(b)) \/ Examined
             \/ (\E i \in sweep : SweepIface(i)) \/ Swept \/ Survey \/ Reset) => TypeInv'
<1> SUFFICES ASSUME TypeInv PROVE
      Rollback \/ DropMoved \/ Remove \/ WatchTeardown
      \/ (\E b \in unseen : Examine(b)) \/ Examined
      \/ (\E i \in sweep : SweepIface(i)) \/ Swept \/ Survey \/ Reset => TypeInv'
  OBVIOUS
<1>0. TypeOK
  BY DEF TypeInv
<1> USE NullIsNew
    DEF TypeInv, JobOK, OnIface, Building, Steps, Operations, Policies, Job, NoJob,
        disk, kernel, memory, Release, Goto, Take, Request, Recorded
<1>1. CASE Rollback
  <2>1. CASE TeardownDue(job.iface)
    BY <1>0, <1>1, <2>1, TearDownTyped DEF Rollback, TypeOK, KernelTyped
  <2>2. CASE ~TeardownDue(job.iface)
    BY <1>1, <2>2 DEF Rollback, TypeOK
  <2> QED
    BY <2>1, <2>2
<1>2. CASE DropMoved
  <2>1. CASE TeardownDue(job.from)
    BY <1>0, <1>2, <2>1, TearDownTyped DEF DropMoved, TypeOK, KernelTyped
  <2>2. CASE ~TeardownDue(job.from)
    BY <1>2, <2>2 DEF DropMoved, TypeOK
  <2> QED
    BY <2>1, <2>2
<1>3. CASE Remove
  <2>1. CASE UNCHANGED <<disk, kernel, orphans>>
    BY <1>3, <2>1 DEF Remove, TypeOK
  <2>2. ASSUME NEW R, TearDown(job.iface, R), UNCHANGED disk
        PROVE TypeInv'
    BY <1>0, <1>3, <2>2, TearDownRaises DEF Remove, TypeOK, KernelTyped
  <2>3. ASSUME NEW R, TearDown(job.iface, R),
               bindings' = {b \in bindings : b.iface # job.iface}, ForgetIfaces({job.iface})
        PROVE TypeInv'
    BY <1>0, <1>3, <2>3, TearDownRaises, ForgetTyped DEF Remove, TypeOK, KernelTyped
  <2> QED
    BY <1>3, <2>1, <2>2, <2>3 DEF Remove
<1>4. CASE WatchTeardown
  BY <1>4 DEF WatchTeardown, BeginTeardown, TypeOK
<1>5. ASSUME NEW b \in unseen, Examine(b) PROVE TypeInv'
  BY <1>5 DEF Examine, TypeOK
<1>6. CASE Examined
  BY <1>6 DEF Examined, TypeOK
<1>7. ASSUME NEW i \in sweep, SweepIface(i) PROVE TypeInv'
  <2>1. CASE TeardownDue(i)
    <3>1. PICK R : TearDown(i, R)
      BY <1>7, <2>1 DEF SweepIface
    <3> QED
      BY <1>0, <1>7, <2>1, <3>1, TearDownRaises DEF SweepIface, TypeOK, KernelTyped
  <2>2. CASE ~TeardownDue(i)
    BY <1>7, <2>2 DEF SweepIface, TypeOK
  <2> QED
    BY <2>1, <2>2
<1>8. CASE Swept
  BY <1>0, <1>8, ForgetTyped DEF Swept, TypeOK
<1>9. CASE Survey
  BY <1>9 DEF Survey, TypeOK
<1>10. CASE Reset
  <2>1. PICK F, R, pieces : Wipe(F, R) /\ Forsake(pieces)
    BY <1>10 DEF Reset
  <2>2. KernelTyped'
    BY <1>0, <2>1, WipeTyped
  <2>3. orphans' \in PieceSets
    BY <2>1, <2>2, ForsakeTyped
  <2> QED
    BY <1>0, <1>10, <2>2, <2>3, ForgetTyped DEF Reset, TypeOK, KernelTyped
<1> QED
  BY <1>1, <1>2, <1>3, <1>4, <1>5, <1>6, <1>7, <1>8, <1>9, <1>10

LEMMA WorldTyped == TypeInv /\ (Processes \/ WatchCheck \/ Faults) => TypeInv'
<1> SUFFICES ASSUME TypeInv PROVE Processes \/ WatchCheck \/ Faults => TypeInv'
  OBVIOUS
<1>0. TypeOK
  BY DEF TypeInv
<1> USE NullIsNew, BoundsAreRight
    DEF TypeInv, JobOK, OnIface, Building, Steps, Operations, Policies, Job, NoJob,
        disk, kernel, memory, Release, Recorded, Alive
<1>1. ASSUME NEW p \in Pid, NEW a \in App, StartOnHost(p, a) PROVE TypeInv'
  BY <1>1 DEF StartOnHost, TypeOK, Process
<1>2. ASSUME NEW p \in Pid, NEW q \in Pid, Fork(p, q) PROVE TypeInv'
  BY <1>2 DEF Fork, TypeOK, Process
<1>3. ASSUME NEW p \in Pid, Exit(p) PROVE TypeInv'
  <2>1. proc' \in [Pid -> Process \cup {None}]
    BY <1>3 DEF Exit, TypeOK, Process
  <2> QED
    BY <1>3, <2>1 DEF Exit, TypeOK
<1>4. CASE WatchCheck
  BY <1>4 DEF WatchCheck, TypeOK
<1>5. CASE Crash
  BY <1>5 DEF Crash, Fault, TypeOK
<1>6. CASE CrashInTeardown
  <2>1. KernelTyped'
    BY <1>0, <1>6, RemovePlumbingTyped, WipeTyped DEF CrashInTeardown
  <2>2. orphans' \in PieceSets
    BY <1>6, <2>1, ForsakeTyped DEF CrashInTeardown
  <2> QED
    BY <1>6, <2>1, <2>2 DEF CrashInTeardown, Fault, TypeOK, KernelTyped
<1>7. CASE Reboot
  <2>1. orphans' \in PieceSets
    BY <1>7 DEF Reboot, NoPieces, PieceSets
  <2> QED
    BY <1>7, <2>1 DEF Reboot, Fault, TypeOK
<1>8. CASE LoseState
  <2>1. orphans' \in PieceSets
    BY <1>0, <1>8 DEF LoseState, PieceSets, Tabled, TypeOK
  <2> QED
    BY <1>8, <2>1 DEF LoseState, Fault, TypeOK
<1> QED
  BY <1>1, <1>2, <1>3, <1>4, <1>5, <1>6, <1>7, <1>8 DEF Processes, Faults

LEMMA NextTyped == TypeInv /\ [Next]_vars => TypeInv'
<1>1. TypeInv /\ UNCHANGED vars => TypeInv'
  BY DEF TypeInv, TypeOK, JobOK, OnIface, Building, Recorded, vars, disk, kernel, memory
<1> QED
  BY <1>1, RequestsTyped, BuildTyped, UnbuildTyped, WorldTyped DEF Next, Work

(***************************************************************************)
(* TypeOK holds always: the state file and every operation in progress     *)
(* only ever name interfaces, applications, processes and subnets that     *)
(* exist, whatever fails and whenever the machine restarts.                *)
(***************************************************************************)
THEOREM Typing == Spec => []TypeOK
<1>1. Spec => []TypeInv
  BY InitTyped, NextTyped, PTL DEF Spec
<1>2. TypeInv => TypeOK
  BY DEF TypeInv
<1> QED
  BY <1>1, <1>2, PTL

-----------------------------------------------------------------------------
(***************************************************************************)
(* Proofs about the state file: subnets are given out once, bindings are   *)
(* unique and agree with the record of their interface, settings never     *)
(* outlive it; and what exists in the kernel can be found again.           *)
(***************************************************************************)

(***************************************************************************)
(* What a pass of teardown_idle keeps in memory until it saves: it only    *)
(* drops bindings, and none of what it kept is on an interface it tore     *)
(* down.                                                                   *)
(***************************************************************************)
PassOK ==
    /\ pc \in {"examine", "sweep"} => left \subseteq bindings
    /\ pc = "sweep" => \A i \in torn : ~Bound(i, left)
    /\ pc # "sweep" => torn = {}

RecordInv ==
    /\ DistinctSubnets
    /\ OneBindingPerApp
    /\ BindingAgreesWithRecord
    /\ SettingsNeedRecord
    /\ PassOK

LEMMA InitRecords == Init => RecordInv
BY DEF Init, RecordInv, DistinctSubnets, OneBindingPerApp, BindingAgreesWithRecord,
       SettingsNeedRecord, PassOK, Recorded

\* A step that leaves the state file and the pass alone, or ends the pass.
LEMMA RecordsUntouched ==
  ASSUME RecordInv, UNCHANGED disk,
         \/ pc' = pc /\ left' = left /\ torn' = torn
         \/ pc' \notin {"examine", "sweep"} /\ torn' = {}
  PROVE  RecordInv'
BY DEF RecordInv, DistinctSubnets, OneBindingPerApp, BindingAgreesWithRecord,
       SettingsNeedRecord, PassOK, Recorded, Bound, disk

\* Records of interfaces without bindings go, and their settings with them.
LEMMA RecordsForgotten ==
  ASSUME TypeInv, RecordInv, NEW gone, ForgetIfaces(gone),
         bindings' \subseteq bindings,
         \A b \in bindings' : b.iface \notin gone,
         pc' \notin {"examine", "sweep"}, torn' = {}
  PROVE  RecordInv'
BY NullIsNew
   DEF RecordInv, DistinctSubnets, OneBindingPerApp, BindingAgreesWithRecord,
       SettingsNeedRecord, PassOK, Recorded, ForgetIfaces, TypeInv, TypeOK, Binding

\* pick_subnet and the save before building.
LEMMA RecordsSaved ==
  ASSUME TypeInv, RecordInv, NEW i \in Iface, NEW newSettings,
         \A x \in newSettings : x \subseteq settings \cup {i},
         SaveSubnet(i, newSettings),
         pc' \notin {"examine", "sweep"}, torn' = {}
  PROVE  RecordInv'
<1>1. /\ settings' \subseteq settings \cup {i}
      /\ bindings' = bindings
      /\ \A j \in Iface : subnets'[j] = subnets[j] \/ (j = i /\ ~Recorded(j))
      /\ subnets'[i] # None
  BY NullIsNew DEF SaveSubnet, TypeInv, TypeOK, Recorded
<1>2. ~Recorded(i) => \A j \in Iface : subnets'[i] # subnets[j]
  BY DEF SaveSubnet, UsedSubnets, TypeInv, TypeOK
<1>3. DistinctSubnets'
  BY <1>1, <1>2 DEF RecordInv, DistinctSubnets, Recorded
<1>4. BindingAgreesWithRecord'
  BY <1>1, NullIsNew DEF RecordInv, BindingAgreesWithRecord, Recorded, TypeInv, TypeOK, Binding
<1>5. SettingsNeedRecord'
  BY <1>1, NullIsNew DEF RecordInv, SettingsNeedRecord, Recorded, TypeInv, TypeOK
<1> QED
  BY <1>1, <1>3, <1>4, <1>5 DEF RecordInv, OneBindingPerApp, PassOK

LEMMA NextRecords == TypeInv /\ RecordInv /\ [Next]_vars => RecordInv'
<1> SUFFICES ASSUME TypeInv, RecordInv, [Next]_vars PROVE RecordInv'
  OBVIOUS
<1> USE DEF memory
<1>1. ASSUME NEW i \in Iface, NEW a \in App, NEW how \in Policies, BindRequest(i, a, how)
      PROVE RecordInv'
  <2>1. CASE pc' = "plumb"
    <3>1. SaveSubnet(i, SettingsAfterBind(i)) /\ torn' = {}
      BY <1>1, <2>1 DEF BindRequest, Take, RecordInv, PassOK
    <3>2. \A x \in SettingsAfterBind(i) : x \subseteq settings \cup {i}
      BY DEF SettingsAfterBind
    <3> QED
      BY <2>1, <3>1, <3>2, RecordsSaved
  <2>2. CASE pc' = "closing"
    BY <1>1, <2>2, RecordsUntouched DEF BindRequest, Take, RecordInv, PassOK
  <2> QED
    BY <1>1, <2>1, <2>2 DEF BindRequest, Take
<1>2. ASSUME NEW b \in bindings, NEW request, StopFirst(b, request) PROVE RecordInv'
  BY <1>2, RecordsUntouched DEF StopFirst, Take, RecordInv, PassOK
<1>3. ASSUME NEW i \in Iface, RemoveRequest(i) PROVE RecordInv'
  BY <1>3, RecordsUntouched DEF RemoveRequest, Take, RecordInv, PassOK
<1>4. ASSUME NEW i \in Iface, NEW byHand \in BOOLEAN, SetSettings(i, byHand) PROVE RecordInv'
  BY <1>4 DEF SetSettings, RecordInv, DistinctSubnets, OneBindingPerApp,
              BindingAgreesWithRecord, SettingsNeedRecord, PassOK, Recorded, Bound
<1>5. CASE ResetRequest
  BY <1>5, RecordsUntouched DEF ResetRequest, Take, RecordInv, PassOK
<1>6. CASE TeardownRequest \/ WatchTeardown
  BY <1>6 DEF TeardownRequest, WatchTeardown, BeginTeardown, Take, RecordInv, disk, DistinctSubnets,
              OneBindingPerApp, BindingAgreesWithRecord, SettingsNeedRecord, PassOK, Recorded, Bound
<1>7. CASE Closed
  <2>1. CASE pc' = "plumb"
    <3> DEFINE newSettings == IF job.op = "bind" THEN SettingsAfterBind(job.iface) ELSE {settings}
    <3>1. SaveSubnet(job.iface, newSettings) /\ job.iface \in Iface /\ torn' = {}
      BY <1>7, <2>1 DEF Closed, Release, RecordInv, PassOK, TypeInv, JobOK, OnIface
    <3>2. \A x \in newSettings : x \subseteq settings \cup {job.iface}
      BY DEF SettingsAfterBind
    <3> HIDE DEF newSettings
    <3> QED
      BY <2>1, <3>1, <3>2, RecordsSaved
  <2>2. CASE pc' # "plumb"
    BY <1>7, <2>2, RecordsUntouched DEF Closed, Release
  <2> QED
    BY <2>1, <2>2
<1>8. CASE NotClosed
  BY <1>8, RecordsUntouched DEF NotClosed, Release
<1>9. CASE Plumb \/ LaunchFails \/ (\E p \in Pid : Launch(p)) \/ LaunchExited
  BY <1>9, RecordsUntouched DEF Plumb, LaunchFails, Launch, LaunchExited, Goto, RecordInv, PassOK
<1>10. CASE RecordBinding
  <2>1. /\ pc = "wait" /\ Recorded(job.iface) /\ job.iface \in Iface
        /\ pc' \notin {"examine", "sweep"} /\ torn' = {}
        /\ UNCHANGED <<subnets, settings>>
        /\ bindings' = BindingsWith(NewBinding)
    BY <1>10 DEF RecordBinding, Goto, Release, RecordInv, PassOK, TypeInv, JobOK, Building, OnIface
  <2>2. NewBinding.subnet = subnets[NewBinding.iface]
    BY DEF NewBinding
  <2>3. BindingAgreesWithRecord'
    BY <2>1, <2>2 DEF BindingsWith, RecordInv, BindingAgreesWithRecord
  <2>4. OneBindingPerApp'
    BY <2>1 DEF BindingsWith, RecordInv, OneBindingPerApp
  <2> QED
    BY <2>1, <2>3, <2>4 DEF RecordInv, DistinctSubnets, SettingsNeedRecord, PassOK, Recorded
<1>11. CASE Rollback
  <2>1. CASE TeardownDue(job.iface)
    <3>1. \A b \in bindings : b.iface # job.iface
      BY <1>11, <2>1 DEF Rollback, TeardownDue, Bound
    <3> QED
      BY <1>11, <2>1, <3>1, RecordsForgotten DEF Rollback, TearDownAndForget, Release
  <2>2. CASE ~TeardownDue(job.iface)
    BY <1>11, <2>2, RecordsUntouched DEF Rollback, Release, disk
  <2> QED
    BY <2>1, <2>2
<1>12. CASE DropMoved
  <2>1. CASE TeardownDue(job.from)
    <3>1. \A b \in bindings' : b.iface # job.from
      BY <1>12, <2>1 DEF DropMoved, TeardownDue
    <3> QED
      BY <1>12, <2>1, <3>1, RecordsForgotten DEF DropMoved, TearDownAndForget, Release
  <2>2. CASE ~TeardownDue(job.from)
    <3>1. ForgetIfaces({})
      BY <1>12, <2>2 DEF DropMoved, ForgetIfaces, TypeInv, TypeOK
    <3> QED
      BY <1>12, <3>1, RecordsForgotten DEF DropMoved, Release
  <2> QED
    BY <2>1, <2>2
<1>13. CASE Remove
  <2>1. CASE UNCHANGED disk
    BY <1>13, <2>1, RecordsUntouched DEF Remove, Release
  <2>2. CASE /\ bindings' = {b \in bindings : b.iface # job.iface}
             /\ ForgetIfaces({job.iface})
    BY <1>13, <2>2, RecordsForgotten DEF Remove, Release
  <2> QED
    BY <1>13, <2>1, <2>2 DEF Remove
<1>14. ASSUME NEW b \in unseen, Examine(b) PROVE RecordInv'
  BY <1>14 DEF Examine, RecordInv, disk, DistinctSubnets, OneBindingPerApp,
               BindingAgreesWithRecord, SettingsNeedRecord, PassOK, Recorded, Bound
<1>15. CASE Examined
  BY <1>15 DEF Examined, Goto, RecordInv, disk, DistinctSubnets, OneBindingPerApp,
               BindingAgreesWithRecord, SettingsNeedRecord, PassOK, Recorded, Bound
<1>16. ASSUME NEW i \in sweep, SweepIface(i) PROVE RecordInv'
  <2>1. CASE pc' = "free"
    BY <1>16, <2>1, RecordsUntouched DEF SweepIface, Release
  <2>2. CASE pc' # "free"
    <3>1. /\ pc = "sweep" /\ pc' = pc /\ left' = left /\ UNCHANGED disk
          /\ torn' = torn \/ (torn' = torn \cup {i} /\ TeardownDue(i))
      BY <1>16, <2>2 DEF SweepIface, Release
    <3>2. TeardownDue(i) => ~Bound(i, left)
      BY <3>1 DEF TeardownDue
    <3> QED
      BY <3>1, <3>2 DEF RecordInv, disk, DistinctSubnets, OneBindingPerApp,
           BindingAgreesWithRecord, SettingsNeedRecord, PassOK, Recorded, Bound
  <2> QED
    BY <2>1, <2>2
<1>17. CASE Swept
  BY <1>17, RecordsForgotten DEF Swept, Release, RecordInv, PassOK, Bound
<1>18. CASE Survey
  BY <1>18, RecordsUntouched DEF Survey, Goto, RecordInv, PassOK
<1>19. CASE Reset
  BY <1>19, RecordsForgotten DEF Reset, Release
<1>20. CASE Processes
  BY <1>20, RecordsUntouched DEF Processes, StartOnHost, Fork, Exit
<1>21. CASE WatchCheck
  BY <1>21, RecordsUntouched DEF WatchCheck
<1>22. CASE Crash \/ CrashInTeardown \/ Reboot
  BY <1>22, RecordsUntouched DEF Crash, CrashInTeardown, Reboot, Release
<1>23. CASE LoseState
  BY <1>23 DEF LoseState, RecordInv, disk, DistinctSubnets, OneBindingPerApp,
               BindingAgreesWithRecord, SettingsNeedRecord, PassOK, Recorded, Bound
<1>24. CASE UNCHANGED vars
  BY <1>24, RecordsUntouched DEF vars
<1> QED
  BY <1>1, <1>2, <1>3, <1>4, <1>5, <1>6, <1>7, <1>8, <1>9, <1>10, <1>11, <1>12, <1>13, <1>14,
     <1>15, <1>16, <1>17, <1>18, <1>19, <1>20, <1>21, <1>22, <1>23, <1>24
     DEF Next, NewRequest, Work, Faults, RestartRequest, MoveRequest

LEMMA RecordsAlways == Spec => [](TypeInv /\ RecordInv)
<1>1. Init => TypeInv /\ RecordInv
  BY InitTyped, InitRecords
<1>2. TypeInv /\ RecordInv /\ [Next]_vars => (TypeInv /\ RecordInv)'
  BY NextTyped, NextRecords
<1> QED
  BY <1>1, <1>2, PTL DEF Spec

(***************************************************************************)
(* No subnet is recorded for two interfaces (engine.bind, pick_subnet).    *)
(***************************************************************************)
THEOREM SubnetsDistinct == Spec => []DistinctSubnets
<1>1. TypeInv /\ RecordInv => DistinctSubnets
  BY DEF RecordInv
<1> QED
  BY <1>1, RecordsAlways, PTL

(***************************************************************************)
(* An application has at most one binding on an interface, and a binding   *)
(* has the subnet its interface has on record.                             *)
(***************************************************************************)
THEOREM BindingsConsistent == Spec => [](OneBindingPerApp /\ BindingAgreesWithRecord)
<1>1. TypeInv /\ RecordInv => OneBindingPerApp /\ BindingAgreesWithRecord
  BY DEF RecordInv
<1> QED
  BY <1>1, RecordsAlways, PTL

(***************************************************************************)
(* However often it is bound, restarted or moved there.                    *)
(***************************************************************************)
THEOREM BoundOnce == Spec => []OneBindingPerApp
<1> QED
  BY BindingsConsistent, PTL

(***************************************************************************)
(* DNS servers and limits never outlive the record of their interface.     *)
(***************************************************************************)
THEOREM SettingsForgotten == Spec => []SettingsNeedRecord
<1>1. TypeInv /\ RecordInv => SettingsNeedRecord
  BY DEF RecordInv
<1> QED
  BY <1>1, RecordsAlways, PTL

(***************************************************************************)
(* The records of the state file agree with each other in every state.     *)
(***************************************************************************)
THEOREM RecordsAgree == Spec => []RecordsConsistent
<1>1. TypeOK /\ OneBindingPerApp /\ BindingAgreesWithRecord /\ SettingsNeedRecord => RecordsConsistent
  BY DEF RecordsConsistent
<1> QED
  BY <1>1, Typing, BindingsConsistent, SettingsForgotten, PTL
-----------------------------------------------------------------------------
(***************************************************************************)
(* What a pass tore down and has not recorded yet is gone from the kernel, *)
(* but for the pieces whose removal failed in silence.                     *)
(***************************************************************************)
Unplumbed(i) ==
    /\ i \notin ns \ orphans.ns
    /\ \A s \in Subnet : <<i, s>> \notin veth \ orphans.veth /\ <<i, s>> \notin nat \ orphans.nat
    /\ subnets[i] \notin rule \ orphans.rule
    /\ \A s \in Tabled \ orphans.table : table[s] # i

FindInv ==
    /\ Recoverable
    /\ pc = "sweep" => \A i \in torn : Unplumbed(i)

LEMMA InitFind == Init => FindInv
BY NullIsNew DEF Init, FindInv, Recoverable, Accounted, NoPieces, Tabled, Recorded

\* Pieces only go, or become orphans.
Shrinks ==
    /\ ns' \ orphans'.ns \subseteq ns \ orphans.ns
    /\ veth' \ orphans'.veth \subseteq veth \ orphans.veth
    /\ nat' \ orphans'.nat \subseteq nat \ orphans.nat
    /\ rule' \ orphans'.rule \subseteq rule \ orphans.rule
    /\ \A s \in Tabled' \ orphans'.table : s \in Tabled \ orphans.table /\ table'[s] = table[s]

\* No piece of i is left, by the subnet i had so far, but orphans.
LeavesNothing(i) ==
    /\ i \notin ns' \ orphans'.ns
    /\ \A s \in Subnet : <<i, s>> \notin veth' \ orphans'.veth /\ <<i, s>> \notin nat' \ orphans'.nat
    /\ subnets[i] \notin rule' \ orphans'.rule
    /\ \A s \in Tabled' \ orphans'.table : table'[s] # i

LEMMA ForsakeShrinks ==
  ASSUME NEW pieces, Forsake(pieces),
         ns' \subseteq ns, veth' \subseteq veth, nat' \subseteq nat, rule' \subseteq rule,
         \A s \in Tabled' : s \in Tabled /\ table'[s] = table[s]
  PROVE  Shrinks
<1> DEFINE o == [ns    |-> (orphans.ns \cup pieces.ns) \cap ns',
                 veth  |-> (orphans.veth \cup pieces.veth) \cap veth',
                 nat   |-> (orphans.nat \cup pieces.nat) \cap nat',
                 rule  |-> (orphans.rule \cup pieces.rule) \cap rule',
                 table |-> (orphans.table \cup pieces.table) \cap Tabled']
<1>1. /\ o.ns = (orphans.ns \cup pieces.ns) \cap ns'
      /\ o.veth = (orphans.veth \cup pieces.veth) \cap veth'
      /\ o.nat = (orphans.nat \cup pieces.nat) \cap nat'
      /\ o.rule = (orphans.rule \cup pieces.rule) \cap rule'
      /\ o.table = (orphans.table \cup pieces.table) \cap Tabled'
  OBVIOUS
<1>2. orphans' = o
  BY DEF Forsake
<1> QED
  BY <1>1, <1>2 DEF Shrinks

\* A removal takes pieces away, and only of the one interface.
LEMMA RemovalShrinks ==
  ASSUME TypeInv, NEW i, NEW s, NEW R, RemovePlumbing(i, s, R), NEW pieces, Forsake(pieces)
  PROVE  Shrinks
<1>1. /\ ns' \subseteq ns /\ veth' \subseteq veth /\ nat' \subseteq nat /\ rule' \subseteq rule
      /\ \A t \in Tabled' : t \in Tabled /\ table'[t] = table[t]
  BY DEF RemovePlumbing, TypeInv, TypeOK, Tabled
<1> QED
  BY <1>1, ForsakeShrinks

LEMMA WipeShrinks ==
  ASSUME TypeInv, NEW F, NEW R, Wipe(F, R), NEW pieces, Forsake(pieces)
  PROVE  Shrinks
<1>1. /\ ns' \subseteq ns /\ veth' \subseteq veth /\ nat' \subseteq nat /\ rule' \subseteq rule
      /\ \A t \in Tabled' : t \in Tabled /\ table'[t] = table[t]
  BY DEF Wipe, TypeInv, TypeOK, Tabled
<1> QED
  BY <1>1, ForsakeShrinks

\* Less plumbing, the same records: what is left can still be found.
LEMMA FindShrinks ==
  ASSUME TypeInv, FindInv, UNCHANGED subnets, Shrinks,
         pc' = "sweep" => pc = "sweep" /\ torn' = torn
  PROVE  FindInv'
<1>1. Recoverable'
  BY DEF FindInv, Recoverable, Accounted, Recorded, Shrinks
<1>2. ASSUME NEW i \in torn, Unplumbed(i) PROVE Unplumbed(i)'
  BY <1>2 DEF Unplumbed, Shrinks
<1> QED
  BY <1>1, <1>2 DEF FindInv

LEMMA FindUntouched ==
  ASSUME TypeInv, FindInv, UNCHANGED <<subnets, orphans, kernel>>,
         pc' = "sweep" => pc = "sweep" /\ torn' = torn
  PROVE  FindInv'
<1>1. Shrinks
  BY DEF Shrinks, kernel, Tabled
<1> QED
  BY <1>1, FindShrinks

\* Interfaces that are orphans leave nothing but orphans.
LEMMA FindForgotten ==
  ASSUME TypeInv, FindInv, NEW gone, ForgetIfaces(gone), Shrinks,
         \A i \in Iface \cap gone : LeavesNothing(i),
         pc' # "sweep"
  PROVE  FindInv'
<1>0. \A i \in Iface : subnets'[i] = IF i \in gone THEN None ELSE subnets[i]
  BY DEF ForgetIfaces
<1>1. ASSUME NEW i \in ns' \ orphans'.ns PROVE Recorded(i)'
  <2>1. i \in ns \ orphans.ns /\ i \in Iface
    BY DEF Shrinks, TypeInv, TypeOK
  <2>2. Recorded(i) /\ i \notin gone
    BY <2>1 DEF FindInv, Recoverable, Accounted, LeavesNothing
  <2> QED
    BY <1>0, <2>1, <2>2 DEF Recorded
<1>2. ASSUME NEW v \in veth' \ orphans'.veth PROVE subnets'[v[1]] = v[2]
  <2>1. v \in veth \ orphans.veth /\ v[1] \in Iface /\ v[2] \in Subnet /\ v = <<v[1], v[2]>>
    BY DEF Shrinks, TypeInv, TypeOK
  <2>2. subnets[v[1]] = v[2] /\ v[1] \notin gone
    BY <2>1 DEF FindInv, Recoverable, Accounted, LeavesNothing
  <2> QED
    BY <1>0, <2>1, <2>2
<1>3. ASSUME NEW n \in nat' \ orphans'.nat PROVE subnets'[n[1]] = n[2]
  <2>1. n \in nat \ orphans.nat /\ n[1] \in Iface /\ n[2] \in Subnet /\ n = <<n[1], n[2]>>
    BY DEF Shrinks, TypeInv, TypeOK
  <2>2. subnets[n[1]] = n[2] /\ n[1] \notin gone
    BY <2>1 DEF FindInv, Recoverable, Accounted, LeavesNothing
  <2> QED
    BY <1>0, <2>1, <2>2
<1>4. ASSUME NEW s \in rule' \ orphans'.rule PROVE \E i \in Iface : subnets'[i] = s
  <2>1. PICK i \in Iface : subnets[i] = s
    BY DEF Shrinks, FindInv, Recoverable, Accounted
  <2>2. i \notin gone
    BY <2>1 DEF LeavesNothing
  <2> QED
    BY <1>0, <2>1, <2>2
<1>5. ASSUME NEW s \in Tabled' \ orphans'.table PROVE subnets'[table'[s]] = s
  <2>1. s \in Tabled \ orphans.table /\ table'[s] = table[s] /\ table[s] \in Iface
    BY DEF Shrinks, TypeInv, TypeOK, Tabled
  <2>2. subnets[table[s]] = s /\ table[s] \notin gone
    BY <2>1 DEF FindInv, Recoverable, Accounted, LeavesNothing
  <2> QED
    BY <1>0, <2>1, <2>2
<1>6. Recoverable'
  BY <1>1, <1>2, <1>3, <1>4, <1>5 DEF Recoverable, Accounted
<1> QED
  BY <1>6 DEF FindInv

\* Where it is said what came of a removal, nothing else is left.
LEMMA RemovalLeaves ==
  ASSUME TypeInv, FindInv, NEW i \in Iface, NEW R,
         RemovePlumbing(i, subnets[i], R),
         Forsake(Failed({i}, {subnets[i]}, R))
  PROVE  LeavesNothing(i)
<1> DEFINE f == Failed({i}, {subnets[i]}, R)
           s == subnets[i]
<1>1. /\ f.ns = IF "ns" \in R THEN {} ELSE {i}
      /\ f.veth = IF "veth" \in R THEN {} ELSE {i} \X {s}
      /\ f.nat = IF "nat" \in R THEN {} ELSE {i} \X {s}
      /\ f.rule = IF "rule" \in R THEN {} ELSE {s}
      /\ f.table = IF "table" \in R THEN {} ELSE {s}
  BY DEF Failed
<1> HIDE DEF f
<1>2. /\ orphans'.ns = (orphans.ns \cup f.ns) \cap ns'
      /\ orphans'.veth = (orphans.veth \cup f.veth) \cap veth'
      /\ orphans'.nat = (orphans.nat \cup f.nat) \cap nat'
      /\ orphans'.rule = (orphans.rule \cup f.rule) \cap rule'
      /\ orphans'.table = (orphans.table \cup f.table) \cap Tabled'
  BY DEF Forsake, f
<1>4. i \notin ns' \ orphans'.ns
  BY <1>1, <1>2 DEF RemovePlumbing
<1>5. ASSUME NEW t \in Subnet PROVE <<i, t>> \notin veth' \ orphans'.veth
  BY <1>1, <1>2 DEF RemovePlumbing, FindInv, Recoverable, Accounted, TypeInv, TypeOK
<1>6. ASSUME NEW t \in Subnet PROVE <<i, t>> \notin nat' \ orphans'.nat
  BY <1>1, <1>2 DEF RemovePlumbing, FindInv, Recoverable, Accounted, TypeInv, TypeOK
<1>7. s \notin rule' \ orphans'.rule
  BY <1>1, <1>2 DEF RemovePlumbing
<1>8. ASSUME NEW t \in Tabled' \ orphans'.table PROVE table'[t] # i
  <2>1. t \in Tabled /\ t \notin orphans.table /\ table'[t] = table[t]
    BY <1>2 DEF RemovePlumbing, TypeInv, TypeOK, Tabled
  <2>2. table[t] = i => t = s
    BY <2>1 DEF FindInv, Recoverable, Accounted
  <2>3. s \notin Tabled' \ orphans'.table
    BY <1>1, <1>2, NullIsNew DEF RemovePlumbing, TypeInv, TypeOK, Tabled
  <2> QED
    BY <2>1, <2>2, <2>3
<1> QED
  BY <1>4, <1>5, <1>6, <1>7, <1>8 DEF LeavesNothing

\* A reset leaves orphans only of what it does not keep.
LEMMA WipeLeaves ==
  ASSUME TypeInv, RecordInv, FindInv, NEW F \in SUBSET Iface, NEW R, Wipe(F, R),
         Forsake([Failed(F, SubnetsOf(F), R) EXCEPT !.table = @ \cup Overlooked]),
         NEW i \in Iface \ kept
  PROVE  LeavesNothing(i)
<1> DEFINE f == [Failed(F, SubnetsOf(F), R) EXCEPT !.table = @ \cup Overlooked]
<1>1. /\ f.ns = IF "ns" \in R THEN {} ELSE F
      /\ f.veth = IF "veth" \in R THEN {} ELSE F \X SubnetsOf(F)
      /\ f.nat = IF "nat" \in R THEN {} ELSE F \X SubnetsOf(F)
      /\ f.rule = IF "rule" \in R THEN {} ELSE SubnetsOf(F)
      /\ f.table = (IF "table" \in R THEN {} ELSE SubnetsOf(F)) \cup Overlooked
  BY DEF Failed
<1> HIDE DEF f
<1>2. /\ orphans'.ns = (orphans.ns \cup f.ns) \cap ns'
      /\ orphans'.veth = (orphans.veth \cup f.veth) \cap veth'
      /\ orphans'.nat = (orphans.nat \cup f.nat) \cap nat'
      /\ orphans'.rule = (orphans.rule \cup f.rule) \cap rule'
      /\ orphans'.table = (orphans.table \cup f.table) \cap Tabled'
  BY DEF Forsake, f
<1>3. subnets[i] \notin KeptSubnets \cap Subnet
  BY NullIsNew DEF KeptSubnets, RecordInv, DistinctSubnets, BindingAgreesWithRecord,
                   Recorded, TypeInv, TypeOK, Binding
<1>4. i \notin ns' \ orphans'.ns
  BY <1>1, <1>2 DEF Wipe
<1>5. \A t \in Subnet : subnets[i] = t /\ i \in F => t \in SubnetsOf(F)
  BY DEF SubnetsOf
<1>6. ASSUME NEW t \in Subnet PROVE <<i, t>> \notin veth' \ orphans'.veth
  BY <1>1, <1>2, <1>5 DEF Wipe, FindInv, Recoverable, Accounted
<1>7. ASSUME NEW t \in Subnet PROVE <<i, t>> \notin nat' \ orphans'.nat
  BY <1>1, <1>2, <1>3, <1>5 DEF Wipe, FindInv, Recoverable, Accounted
<1>8. subnets[i] \notin rule' \ orphans'.rule
  BY <1>1, <1>2, <1>3 DEF Wipe, TypeInv, TypeOK
<1>9. ASSUME NEW t \in Tabled' \ orphans'.table PROVE table'[t] # i
  <2>1. t \in Subnet /\ t \in Tabled /\ t \notin orphans.table /\ table'[t] = table[t]
    BY <1>2 DEF Wipe, Tabled
  <2>2. table[t] = i => t = subnets[i]
    BY <2>1 DEF FindInv, Recoverable, Accounted
  <2>3. t \in KeptSubnets \/ t \in f.table
    BY <1>1, <2>1 DEF Wipe, Tabled
  <2>4. t \notin f.table
    BY <1>2
  <2> QED
    BY <1>3, <2>1, <2>2, <2>3, <2>4
<1> QED
  BY <1>4, <1>6, <1>7, <1>8, <1>9 DEF LeavesNothing

LEMMA FindTearDown ==
  ASSUME TypeInv, FindInv, NEW i \in Iface, TearDownAndForget(i), pc' # "sweep"
  PROVE  FindInv'
<1>1. PICK R : RemovePlumbing(i, subnets[i], R) /\ Forsake(Failed({i}, {subnets[i]}, R))
  BY DEF TearDownAndForget
<1>2. ForgetIfaces({i})
  BY DEF TearDownAndForget
<1>3. LeavesNothing(i)
  BY <1>1, RemovalLeaves
<1>4. Shrinks
  BY <1>1, RemovalShrinks
<1> QED
  BY <1>2, <1>3, <1>4, FindForgotten

\* A teardown that does not raise took everything whose removal is reported.
LEMMA CompleteRemoval ==
  ASSUME TypeInv, FindInv, NEW i \in Iface, NEW R, TearDown(i, R), Complete(R)
  PROVE  LeavesNothing(i) /\ Shrinks
<1>1. R \cup Reported = R
  BY DEF Complete
<1>2. RemovePlumbing(i, subnets[i], R) /\ Forsake(Failed({i}, {subnets[i]}, R))
  BY <1>1 DEF TearDown
<1> QED
  BY <1>2, RemovalLeaves, RemovalShrinks

LEMMA FindSaved ==
  ASSUME TypeInv, FindInv, NEW i \in Iface, NEW newSettings, SaveSubnet(i, newSettings),
         UNCHANGED <<orphans, kernel>>, pc' # "sweep"
  PROVE  FindInv'
<1>1. \A j \in Iface : \/ subnets'[j] = subnets[j]
                       \/ j = i /\ ~Recorded(j)
  BY DEF SaveSubnet, TypeInv, TypeOK
<1>2. \A j \in Iface : Recorded(j) => Recorded(j)' /\ subnets'[j] = subnets[j]
  BY <1>1 DEF Recorded
<1>3. \A s \in Subnet, j \in Iface : subnets[j] = s => subnets'[j] = s
  BY <1>2, NullIsNew DEF Recorded
<1>4. Recoverable'
  BY <1>2, <1>3 DEF FindInv, Recoverable, Accounted, kernel, Tabled, TypeInv, TypeOK
<1> QED
  BY <1>4 DEF FindInv

LEMMA NextFind == TypeInv /\ RecordInv /\ FindInv /\ [Next]_vars => FindInv'
<1> SUFFICES ASSUME TypeInv, RecordInv, FindInv, [Next]_vars PROVE FindInv'
  OBVIOUS
<1> USE DEF memory, disk
<1>1. ASSUME NEW i \in Iface, NEW a \in App, NEW how \in Policies, BindRequest(i, a, how)
      PROVE FindInv'
  <2>1. CASE pc' = "plumb"
    BY <1>1, <2>1, FindSaved DEF BindRequest, Take
  <2>2. CASE pc' = "closing"
    BY <1>1, <2>2, FindUntouched DEF BindRequest, Take
  <2> QED
    BY <1>1, <2>1, <2>2 DEF BindRequest, Take
<1>2. ASSUME NEW b \in bindings, NEW request, StopFirst(b, request) PROVE FindInv'
  BY <1>2, FindUntouched DEF StopFirst, Take
<1>3. ASSUME NEW i \in Iface, RemoveRequest(i) PROVE FindInv'
  BY <1>3, FindUntouched DEF RemoveRequest, Take
<1>4. ASSUME NEW i \in Iface, NEW byHand \in BOOLEAN, SetSettings(i, byHand) PROVE FindInv'
  BY <1>4, FindUntouched DEF SetSettings
<1>5. CASE ResetRequest \/ TeardownRequest \/ WatchTeardown
  BY <1>5, FindUntouched DEF ResetRequest, TeardownRequest, WatchTeardown, BeginTeardown, Take
<1>6. CASE Closed
  <2>1. CASE pc' = "plumb"
    <3>1. /\ SaveSubnet(job.iface, IF job.op = "bind" THEN SettingsAfterBind(job.iface)
                                                     ELSE {settings})
          /\ job.iface \in Iface /\ UNCHANGED <<orphans, kernel>>
      BY <1>6, <2>1 DEF Closed, Release, TypeInv, JobOK, OnIface
    <3> QED
      BY <2>1, <3>1, FindSaved
  <2>2. CASE pc' # "plumb"
    BY <1>6, <2>2, FindUntouched DEF Closed, Release
  <2> QED
    BY <2>1, <2>2
<1>7. CASE NotClosed \/ LaunchFails \/ (\E p \in Pid : Launch(p)) \/ LaunchExited \/ RecordBinding
  BY <1>7, FindUntouched
     DEF NotClosed, LaunchFails, Launch, LaunchExited, RecordBinding, Goto, Release
<1>8. CASE Plumb
  <2>1. PICK k \in 0..5 : BuildPieces(job.iface, subnets[job.iface], k)
    BY <1>8 DEF Plumb
  <2>2. /\ job.iface \in Iface /\ Recorded(job.iface) /\ subnets[job.iface] \in Subnet
        /\ pc' # "sweep" /\ UNCHANGED <<subnets, orphans>>
    BY <1>8 DEF Plumb, Goto, TypeInv, TypeOK, JobOK, OnIface, Building, Recorded
  <2>3. Accounted(orphans)
    BY DEF FindInv, Recoverable
  <2>4. /\ ns' \subseteq ns \cup {job.iface}
        /\ veth' \subseteq veth \cup {<<job.iface, subnets[job.iface]>>}
        /\ nat' \subseteq nat \cup {<<job.iface, subnets[job.iface]>>}
        /\ rule' \subseteq rule \cup {subnets[job.iface]}
    BY <2>1 DEF BuildPieces
  <2>5. \A s \in Tabled' : \/ s = subnets[job.iface] /\ table'[s] = job.iface
                           \/ s \in Tabled /\ table'[s] = table[s]
    BY <2>1, <2>2 DEF BuildPieces, Tabled, TypeInv, TypeOK
  <2>6. Accounted(orphans)'
    BY <2>2, <2>3, <2>4, <2>5 DEF Accounted, Recorded
  <2> QED
    BY <2>2, <2>6 DEF FindInv, Recoverable
<1>9. CASE Rollback
  <2>1. CASE TeardownDue(job.iface)
    BY <1>9, <2>1, FindTearDown DEF Rollback, Release, TypeInv, JobOK, OnIface, Building
  <2>2. CASE ~TeardownDue(job.iface)
    BY <1>9, <2>2, FindUntouched DEF Rollback, Release
  <2> QED
    BY <2>1, <2>2
<1>10. CASE DropMoved
  <2>1. CASE TeardownDue(job.from)
    BY <1>10, <2>1, FindTearDown DEF DropMoved, TeardownDue, Release, TypeInv, JobOK
  <2>2. CASE ~TeardownDue(job.from)
    BY <1>10, <2>2, FindUntouched DEF DropMoved, Release
  <2> QED
    BY <2>1, <2>2
<1>11. CASE Remove
  <2>0. PICK i \in Iface : i = job.iface
    BY <1>11 DEF Remove, TypeInv, JobOK, OnIface
  <2>1. i \in Iface /\ pc' # "sweep"
    BY <1>11 DEF Remove, Release, TypeInv, JobOK, OnIface
  <2>2. CASE UNCHANGED <<disk, kernel, orphans>>
    BY <2>1, <2>2, FindUntouched
  <2>3. ASSUME NEW R, TearDown(i, R), UNCHANGED disk PROVE FindInv'
    <3>1. Shrinks
      BY <2>3, RemovalShrinks DEF TearDown
    <3> QED
      BY <2>1, <2>3, <3>1, FindShrinks
  <2>4. ASSUME NEW R, TearDown(i, R), Complete(R), ForgetIfaces({i}) PROVE FindInv'
    BY <2>1, <2>4, CompleteRemoval, FindForgotten
  <2> QED
    BY <1>11, <2>0, <2>2, <2>3, <2>4 DEF Remove
<1>12. CASE (\E b \in unseen : Examine(b)) \/ Survey
  BY <1>12, FindUntouched DEF Examine, Survey, Goto
<1>13. CASE Examined
  BY <1>13 DEF Examined, Goto, FindInv, Recoverable, Accounted, Recorded, Tabled,
               kernel, RecordInv, PassOK
<1>14. ASSUME NEW i \in sweep, SweepIface(i) PROVE FindInv'
  <2>1. /\ i \in Iface /\ pc = "sweep" /\ UNCHANGED subnets
    BY <1>14 DEF SweepIface, TypeInv, TypeOK
  <2>2. CASE ~TeardownDue(i)
    BY <1>14, <2>1, <2>2, FindUntouched DEF SweepIface
  <2>3. ASSUME NEW R, TearDown(i, R), pc' = "free" PROVE FindInv'
    <3>1. Shrinks
      BY <2>3, RemovalShrinks DEF TearDown
    <3> QED
      BY <2>1, <2>3, <3>1, FindShrinks
  <2>4. ASSUME NEW R, TearDown(i, R), Complete(R), torn' = torn \cup {i}
        PROVE FindInv'
    <3>1. LeavesNothing(i) /\ Shrinks
      BY <2>1, <2>4, CompleteRemoval
    <3>2. Recoverable'
      BY <2>1, <3>1 DEF FindInv, Recoverable, Accounted, Recorded, Shrinks
    <3>3. Unplumbed(i)'
      BY <2>1, <3>1 DEF LeavesNothing, Unplumbed
    <3>4. ASSUME NEW j \in torn PROVE Unplumbed(j)'
      BY <2>1, <3>1, <3>4 DEF FindInv, Unplumbed, Shrinks
    <3> QED
      BY <2>1, <2>4, <3>2, <3>3, <3>4 DEF FindInv
  <2> QED
    BY <1>14, <2>2, <2>3, <2>4 DEF SweepIface, Release
<1>15. CASE Swept
  <2>1. pc = "sweep" /\ pc' # "sweep" /\ ForgetIfaces(torn) /\ UNCHANGED <<kernel, orphans>>
    BY <1>15 DEF Swept, Release
  <2>2. Shrinks
    BY <2>1 DEF Shrinks, kernel, Tabled
  <2>3. \A i \in torn : LeavesNothing(i)
    BY <2>1 DEF FindInv, Unplumbed, LeavesNothing, kernel, Tabled
  <2> QED
    BY <2>1, <2>2, <2>3, FindForgotten
<1>16. CASE Reset
  <2>0. PICK F, R :
           /\ F \subseteq TeardownFails
           /\ Wipe(F, R)
           /\ Forsake([Failed(F, SubnetsOf(F), R) EXCEPT !.table = @ \cup Overlooked])
    BY <1>16 DEF Reset
  <2>1. Shrinks
    BY <2>0, WipeShrinks
  <2>2. ASSUME NEW i \in Iface \ kept PROVE LeavesNothing(i)
    BY <2>0, <2>2, WipeLeaves, FailingAreIfaces
  <2> QED
    BY <1>16, <2>1, <2>2, FindForgotten DEF Reset, Release
<1>17. CASE Processes \/ WatchCheck \/ Crash
  BY <1>17, FindUntouched DEF Processes, StartOnHost, Fork, Exit, WatchCheck, Crash, Release
<1>18. CASE CrashInTeardown
  BY <1>18, FindShrinks, RemovalShrinks, WipeShrinks DEF CrashInTeardown, Release
<1>19. CASE Reboot
  <2>1. Shrinks
    BY <1>19 DEF Reboot, Shrinks, Tabled
  <2> QED
    BY <1>19, <2>1, FindShrinks DEF Reboot, Release
<1>20. CASE LoseState
  <2>1. /\ UNCHANGED kernel /\ pc' # "sweep"
        /\ orphans'.ns = ns /\ orphans'.veth = veth /\ orphans'.nat = nat
        /\ orphans'.rule = rule /\ orphans'.table = Tabled
    BY <1>20 DEF LoseState
  <2> QED
    BY <2>1 DEF FindInv, Recoverable, Accounted, Tabled, kernel
<1>21. CASE UNCHANGED vars
  BY <1>21, FindUntouched DEF vars
<1> QED
  BY <1>1, <1>2, <1>3, <1>4, <1>5, <1>6, <1>7, <1>8, <1>9, <1>10, <1>11, <1>12, <1>13, <1>14,
     <1>15, <1>16, <1>17, <1>18, <1>19, <1>20, <1>21
     DEF Next, NewRequest, Work, Faults, RestartRequest, MoveRequest

(***************************************************************************)
(* Whatever fails, crashes or is lost: the state file names every piece of *)
(* plumbing that exists, except the pieces whose own removal failed where  *)
(* the record goes all the same, the tables that reset overlooks and what  *)
(* a lost state file named.                                                *)
(***************************************************************************)
THEOREM AlwaysFound == Spec => []Recoverable
<1>1. Init => FindInv
  BY InitFind
<1>2. (TypeInv /\ RecordInv) /\ FindInv /\ [Next]_vars => FindInv'
  BY NextFind
<1>3. FindInv => Recoverable
  BY DEF FindInv
<1> QED
  BY <1>1, <1>2, <1>3, RecordsAlways, PTL DEF Spec
-----------------------------------------------------------------------------
(***************************************************************************)
(* A pass drops bindings from its copy while the namespaces empty around   *)
(* it: nothing enters one meanwhile, so where something still runs at the  *)
(* end it ran all the time, and the last binding there was not dropped.    *)
(***************************************************************************)
KeepInv ==
    /\ pc \in {"examine", "sweep"} =>
          \A i \in Iface : Busy(i) /\ Bound(i, bindings) => Bound(i, left)
    /\ job.op \in {"teardown", "watch"} => pc \in {"examine", "sweep"}

LEMMA InitKeep == Init => KeepInv
BY DEF Init, KeepInv, NoJob

\* A step that is not of a pass, or with which a pass ends.
LEMMA KeepOutside ==
  ASSUME pc' \notin {"examine", "sweep"}, job'.op \notin {"teardown", "watch"}
  PROVE  KeepInv'
BY DEF KeepInv

\* A step that leaves the records and the copy alone and makes nothing busy.
LEMMA KeepUntouched ==
  ASSUME KeepInv, UNCHANGED <<bindings, left, job>>,
         pc' = pc \/ {pc, pc'} \subseteq {"examine", "sweep"},
         \A i \in Iface : Busy(i)' => Busy(i)
  PROVE  KeepInv'
BY DEF KeepInv, Bound

\* Only a launch or a fork puts a process into a namespace, and a fork does so
\* only where there is one.
LEMMA ProcessesStay ==
  ASSUME TypeInv, Processes
  PROVE  \A i \in Iface : Busy(i)' => Busy(i)
<1>1. ASSUME NEW p \in Pid, NEW a \in App, StartOnHost(p, a)
      PROVE \A i \in Iface : InNetns(i)' # {} => InNetns(i) # {}
  BY <1>1, NullIsNew DEF StartOnHost, InNetns, TypeInv, TypeOK
<1>2. ASSUME NEW p \in Pid, NEW q \in Pid, Fork(p, q)
      PROVE \A i \in Iface : InNetns(i)' # {} => InNetns(i) # {}
  BY <1>2, NullIsNew DEF Fork, Alive, InNetns, TypeInv, TypeOK, Process
<1>3. ASSUME NEW p \in Pid, Exit(p)
      PROVE \A i \in Iface : InNetns(i)' # {} => InNetns(i) # {}
  BY <1>3, NullIsNew DEF Exit, Alive, InNetns, TypeInv, TypeOK, Process
<1>4. UNCHANGED ns
  BY DEF Processes, StartOnHost, Fork, Exit, kernel
<1> QED
  BY <1>1, <1>2, <1>3, <1>4 DEF Processes, Busy

LEMMA ExamineKeeps ==
  ASSUME TypeInv, KeepInv, NEW b \in unseen, Examine(b)
  PROVE  KeepInv'
<1>1. /\ pc = "examine" /\ UNCHANGED <<pc, job, bindings, ns, proc>>
      /\ left' = IF BindingLive(b, left) THEN left ELSE left \ {b}
  BY DEF Examine, disk, kernel
<1>2. \A i \in Iface : Busy(i)' <=> Busy(i)
  BY <1>1 DEF Busy, InNetns
<1>3. CASE BindingLive(b, left)
  BY <1>1, <1>2, <1>3 DEF KeepInv, Bound
<1>4. CASE ~BindingLive(b, left)
  <2>1. ASSUME NEW i \in Iface, Busy(i), Bound(i, bindings) PROVE Bound(i, left \ {b})
    <3>1. PICK c \in left : c.iface = i
      BY <1>1, <2>1 DEF KeepInv, Bound
    <3>2. CASE c # b
      BY <3>1, <3>2 DEF Bound
    <3>3. CASE c = b
      <4>1. Shared(b, left)
        BY <1>4, <2>1, <3>1, <3>3 DEF BindingLive
      <4> QED
        BY <3>1, <3>3, <4>1 DEF Shared, Bound
    <3> QED
      BY <3>2, <3>3
  <2> QED
    BY <1>1, <1>2, <1>4, <2>1 DEF KeepInv, Bound
<1> QED
  BY <1>3, <1>4

LEMMA NextKeep == TypeInv /\ KeepInv /\ [Next]_vars => KeepInv'
<1> SUFFICES ASSUME TypeInv, KeepInv, [Next]_vars PROVE KeepInv'
  OBVIOUS
<1> USE DEF memory, disk, kernel
<1>r. ASSUME Release PROVE KeepInv'
  BY <1>r, KeepOutside DEF Release, NoJob
<1>g. ASSUME NEW step \in Steps \ {"examine", "sweep"}, Goto(step), pc \notin {"examine", "sweep"}
      PROVE KeepInv'
  BY <1>g, KeepOutside DEF Goto, KeepInv
<1>b. ASSUME UNCHANGED <<ns, proc>> PROVE \A i \in Iface : Busy(i)' => Busy(i)
  BY <1>b DEF Busy, InNetns
<1>1. CASE NewRequest
  <2>1. ASSUME NEW i \in Iface, NEW a \in App, NEW how \in Policies, BindRequest(i, a, how) PROVE KeepInv'
    BY <2>1, KeepOutside DEF BindRequest, Take, Request
  <2>2. ASSUME NEW b \in bindings, NEW request, request.op \in {"restart", "move"}, StopFirst(b, request)
        PROVE KeepInv'
    BY <2>2, KeepOutside DEF StopFirst, Take
  <2>3. ASSUME NEW i \in Iface, RemoveRequest(i) PROVE KeepInv'
    BY <2>3, KeepOutside DEF RemoveRequest, Take, Request
  <2>4. ASSUME NEW i \in Iface, NEW byHand \in BOOLEAN, SetSettings(i, byHand) PROVE KeepInv'
    BY <2>4, <1>b, KeepUntouched DEF SetSettings
  <2>5. CASE ResetRequest
    BY <2>5, KeepOutside DEF ResetRequest, Take, Request
  <2>6. CASE TeardownRequest
    BY <2>6 DEF TeardownRequest, BeginTeardown, Take, KeepInv, Bound
  <2>7. ASSUME NEW b \in bindings, NEW how, RestartRequest(b, how) PROVE KeepInv'
    <3>1. Request("restart", b.iface, b.app, None, how).op = "restart" BY DEF Request
    <3> QED BY <2>2, <2>7, <3>1 DEF RestartRequest
  <2>8. ASSUME NEW b \in bindings, NEW to, NEW how, MoveRequest(b, to, how) PROVE KeepInv'
    <3>1. Request("move", to, b.app, b.iface, how).op = "move" BY DEF Request
    <3> QED BY <2>2, <2>8, <3>1 DEF MoveRequest
  <2> QED
    BY <1>1, <2>1, <2>3, <2>4, <2>5, <2>6, <2>7, <2>8 DEF NewRequest
<1>2. CASE WatchTeardown
  BY <1>2 DEF WatchTeardown, BeginTeardown, Take, KeepInv, Bound
<1>3. CASE Closed
  <2>1. CASE Release BY <2>1, <1>r
  <2>2. CASE pc' = "plumb" /\ job' = [job EXCEPT !.policy = "ask"]
    <3>1. job'.op = job.op BY <2>2 DEF TypeInv, TypeOK, Job
    <3> QED BY <1>3, <2>2, <3>1, KeepOutside DEF Closed, KeepInv
  <2> QED BY <1>3, <2>1, <2>2 DEF Closed
<1>4. CASE NotClosed BY <1>4, <1>r DEF NotClosed
<1>5. CASE Plumb \/ LaunchFails \/ (\E p \in Pid : Launch(p)) \/ LaunchExited
  <2>1. \E step \in {"launch", "rollback", "wait"} : Goto(step)
    BY <1>5 DEF Plumb, LaunchFails, Launch, LaunchExited
  <2>2. pc \in {"plumb", "launch", "wait"}
    BY <1>5 DEF Plumb, LaunchFails, Launch, LaunchExited
  <2> QED BY <2>1, <2>2, <1>g DEF Steps
<1>6. CASE RecordBinding
  BY <1>6, <1>r, <1>g DEF RecordBinding, Steps
<1>7. CASE Rollback \/ DropMoved \/ Remove \/ Swept \/ Reset
  BY <1>7, <1>r DEF Rollback, DropMoved, Remove, Swept, Reset
<1>8. ASSUME NEW b \in unseen, Examine(b) PROVE KeepInv'
  BY <1>8, ExamineKeeps
<1>9. CASE Examined
  BY <1>9, <1>b, KeepUntouched DEF Examined, Goto
<1>10. ASSUME NEW i \in sweep, SweepIface(i) PROVE KeepInv'
  <2>1. CASE Release BY <2>1, <1>r
  <2>2. CASE ~Release
    <3>1. UNCHANGED <<pc, job, left, bindings, proc>> /\ ns' \subseteq ns
      BY <1>10, <2>2 DEF SweepIface, TearDown, RemovePlumbing
    <3>2. \A j \in Iface : Busy(j)' => Busy(j)
      BY <3>1 DEF Busy, InNetns
    <3> QED BY <3>1, <3>2, KeepUntouched
  <2> QED BY <2>1, <2>2
<1>11. CASE Survey
  BY <1>11, <1>g DEF Survey, Steps
<1>12. CASE Processes
  <2>1. UNCHANGED <<bindings, left, job, pc>>
    BY <1>12 DEF Processes, StartOnHost, Fork, Exit
  <2> QED BY <1>12, <2>1, ProcessesStay, KeepUntouched
<1>13. CASE WatchCheck
  BY <1>13, <1>b, KeepUntouched DEF WatchCheck
<1>14. CASE Crash \/ CrashInTeardown \/ Reboot
  BY <1>14, <1>r DEF Crash, CrashInTeardown, Reboot
<1>15. CASE LoseState
  BY <1>15, KeepOutside DEF LoseState, KeepInv
<1>16. CASE UNCHANGED vars
  BY <1>16, <1>b, KeepUntouched DEF vars
<1> QED
  BY <1>1, <1>2, <1>3, <1>4, <1>5, <1>6, <1>7, <1>8, <1>9, <1>10, <1>11, <1>12, <1>13, <1>14,
     <1>15, <1>16 DEF Next, Work, Faults

(***************************************************************************)
(* A pass of teardown_idle, asked for or of the watcher, never drops the   *)
(* last binding of a namespace in which something still runs.              *)
(***************************************************************************)
THEOREM BusyKeepsOne == Spec => BusyKeepsBinding
<1>1. ASSUME TypeInv, KeepInv, [Next]_vars, job.op \in {"teardown", "watch"},
             NEW b \in bindings \ bindings', Busy(b.iface)
      PROVE  Bound(b.iface, bindings')
  <2>1. pc \in {"examine", "sweep"} /\ b.iface \in Iface
    BY <1>1 DEF KeepInv, TypeInv, TypeOK, Binding
  <2>2. bindings' = left
    BY <1>1, <2>1
       DEF Next, NewRequest, Work, Faults, BindRequest, RestartRequest, MoveRequest, StopFirst, RemoveRequest,
           SetSettings, ResetRequest, TeardownRequest, WatchTeardown, BeginTeardown, Take, Closed,
           NotClosed, Plumb, LaunchFails, Launch, LaunchExited, RecordBinding, Rollback, DropMoved,
           Remove, Examine, Examined, SweepIface, Swept, Survey, Reset, Processes, StartOnHost, Fork,
           Exit, WatchCheck, Crash, CrashInTeardown, Reboot, LoseState, disk, vars
  <2>3. Bound(b.iface, left)
    BY <1>1, <2>1 DEF KeepInv, Bound
  <2> QED BY <2>2, <2>3
<1>2. TypeInv /\ KeepInv /\ [Next]_vars =>
        [job.op \in {"teardown", "watch"} =>
           \A b \in bindings \ bindings' : Busy(b.iface) => Bound(b.iface, bindings')]_vars
  BY <1>1
<1> QED
  BY <1>2, InitTyped, NextTyped, InitKeep, NextKeep, PTL DEF Spec, BusyKeepsBinding

-----------------------------------------------------------------------------
(***************************************************************************)
(* Proofs that a running application keeps its plumbing and that the       *)
(* binding manager keeps the promise stated in Leases, as long as the      *)
(* state file is not lost.                                                 *)
(***************************************************************************)

(***************************************************************************)
(* The namespace of a launch is complete before anything is launched in    *)
(* it; what a pass tore down, or a reset is about to, is empty, and stays  *)
(* so: only a launch or a fork puts a process into a namespace.            *)
(***************************************************************************)
RouteInv ==
    /\ RunningIsRouted
    /\ pc = "launch" => Routed(job.iface)
    /\ pc = "sweep" => \A i \in torn : InNetns(i) = {}
    /\ pc = "wipe" => \A i \in Iface : InNetns(i) # {} => i \in kept

LEMMA InitRouted == Init => RouteInv
BY NullIsNew DEF Init, RouteInv, RunningIsRouted, InNetns

\* The plumbing and the records stay, and nobody enters a namespace.
LEMMA RouteUntouched ==
  ASSUME TypeInv, RouteInv, UNCHANGED <<subnets, kernel>>,
         \A i \in Iface : InNetns(i)' # {} => InNetns(i) # {},
         pc' = "launch" => pc = "launch" /\ job' = job,
         pc' = "sweep" => (pc = "sweep" /\ torn' = torn) \/ torn' = {},
         pc' = "wipe" => pc = "wipe" /\ kept' = kept
  PROVE  RouteInv'
<1>1. \A i : Routed(i)' <=> Routed(i)
  BY DEF Routed, Recorded, kernel
<1>2. RunningIsRouted' /\ (pc' = "launch" => Routed(job.iface)')
  BY <1>1 DEF RouteInv, RunningIsRouted
<1>3. pc' = "sweep" => \A i \in torn' : InNetns(i)' = {}
  BY DEF RouteInv, TypeInv, TypeOK
<1> QED
  BY <1>2, <1>3 DEF RouteInv

LEMMA SameProcesses ==
  ASSUME UNCHANGED proc
  PROVE  \A i \in Iface : InNetns(i)' = InNetns(i)
BY DEF InNetns

LEMMA IdleIsEmpty ==
  ASSUME RouteInv, NEW i \in Iface, ~Busy(i)
  PROVE  InNetns(i) = {}
BY DEF RouteInv, RunningIsRouted, Routed, Busy

\* Removing the plumbing of an idle interface, and forgetting idle ones.
LEMMA RemovalSpares ==
  ASSUME TypeInv, RecordInv, RouteInv, NEW i \in Iface, ~Busy(i), NEW R,
         RemovePlumbing(i, subnets[i], R), UNCHANGED proc,
         \A j \in Iface : j # i => subnets'[j] = subnets[j]
  PROVE  RunningIsRouted'
<1>1. ASSUME NEW j \in Iface, InNetns(j)' # {} PROVE Routed(j)'
  <2>1. InNetns(j) # {} /\ InNetns(i) = {}
    BY <1>1, SameProcesses, IdleIsEmpty
  <2>2. Routed(j) /\ j # i
    BY <2>1 DEF RouteInv, RunningIsRouted
  <2>3. subnets[i] # subnets[j]
    BY <2>2 DEF RecordInv, DistinctSubnets, Routed
  <2> QED
    BY <2>2, <2>3 DEF Routed, Recorded, RemovePlumbing, TypeInv, TypeOK
<1> QED
  BY <1>1 DEF RunningIsRouted

LEMMA ForgettingSpares ==
  ASSUME TypeInv, RouteInv, NEW gone, ForgetIfaces(gone), UNCHANGED <<kernel, proc>>,
         \A i \in Iface : i \in gone => InNetns(i) = {}
  PROVE  RunningIsRouted'
<1>1. ASSUME NEW j \in Iface, InNetns(j)' # {} PROVE Routed(j)'
  <2>1. InNetns(j) # {} /\ j \notin gone
    BY <1>1, SameProcesses
  <2>2. Routed(j) /\ subnets'[j] = subnets[j]
    BY <2>1 DEF RouteInv, RunningIsRouted, ForgetIfaces
  <2> QED
    BY <2>2 DEF Routed, Recorded, kernel
<1> QED
  BY <1>1 DEF RunningIsRouted

LEMMA WipeSpares ==
  ASSUME TypeInv, RouteInv, pc = "wipe", NEW F, NEW R, Wipe(F, R), UNCHANGED proc,
         \A j \in kept : subnets'[j] = subnets[j]
  PROVE  RunningIsRouted'
<1>1. ASSUME NEW j \in Iface, InNetns(j)' # {} PROVE Routed(j)'
  <2>1. InNetns(j) # {}
    BY <1>1, SameProcesses
  <2>2. Routed(j) /\ j \in kept /\ subnets'[j] = subnets[j]
    BY <2>1 DEF RouteInv, RunningIsRouted
  <2>3. subnets[j] \in KeptSubnets /\ subnets[j] \in Subnet
    BY <2>2 DEF KeptSubnets, Routed, Recorded, TypeInv, TypeOK
  <2> QED
    BY <2>2, <2>3 DEF Routed, Recorded, Wipe
<1> QED
  BY <1>1 DEF RunningIsRouted

LEMMA SavingSpares ==
  ASSUME TypeInv, RouteInv, NEW i \in Iface, NEW newSettings, SaveSubnet(i, newSettings),
         UNCHANGED <<kernel, proc>>, pc' = "plumb"
  PROVE  RouteInv'
<1>1. \A j \in Iface : Recorded(j) => subnets'[j] = subnets[j]
  BY DEF SaveSubnet, TypeInv, TypeOK
<1> QED
  BY <1>1, SameProcesses DEF RouteInv, RunningIsRouted, Routed, Recorded, kernel

LEMMA NextRouted ==
  ASSUME ~MayLoseState
  PROVE  TypeInv /\ RecordInv /\ RouteInv /\ [Next]_vars => RouteInv'
<1> SUFFICES ASSUME TypeInv, RecordInv, RouteInv, [Next]_vars PROVE RouteInv'
  OBVIOUS
<1> USE DEF memory, disk
<1>1. ASSUME NEW i \in Iface, NEW a \in App, NEW how \in Policies, BindRequest(i, a, how)
      PROVE RouteInv'
  <2>1. CASE pc' = "plumb"
    BY <1>1, <2>1, SavingSpares DEF BindRequest, Take
  <2>2. CASE pc' = "closing"
    BY <1>1, <2>2, RouteUntouched, SameProcesses DEF BindRequest, Take
  <2> QED
    BY <1>1, <2>1, <2>2 DEF BindRequest, Take
<1>2. ASSUME NEW b \in bindings, NEW request, StopFirst(b, request) PROVE RouteInv'
  BY <1>2, RouteUntouched, SameProcesses DEF StopFirst, Take
<1>3. ASSUME NEW i \in Iface, RemoveRequest(i) PROVE RouteInv'
  BY <1>3, RouteUntouched, SameProcesses DEF RemoveRequest, Take
<1>4. ASSUME NEW i \in Iface, NEW byHand \in BOOLEAN, SetSettings(i, byHand) PROVE RouteInv'
  BY <1>4, RouteUntouched, SameProcesses DEF SetSettings
<1>5. CASE ResetRequest \/ TeardownRequest \/ WatchTeardown
  BY <1>5, RouteUntouched, SameProcesses
     DEF ResetRequest, TeardownRequest, WatchTeardown, BeginTeardown, Take
<1>6. CASE Closed
  <2>1. CASE pc' = "plumb"
    <3>1. /\ SaveSubnet(job.iface, IF job.op = "bind" THEN SettingsAfterBind(job.iface)
                                                     ELSE {settings})
          /\ job.iface \in Iface /\ UNCHANGED <<kernel, proc>>
      BY <1>6, <2>1 DEF Closed, Release, TypeInv, JobOK, OnIface
    <3> QED
      BY <2>1, <3>1, SavingSpares
  <2>2. CASE pc' # "plumb"
    BY <1>6, <2>2, RouteUntouched, SameProcesses DEF Closed, Release
  <2> QED
    BY <2>1, <2>2
<1>7. CASE NotClosed \/ LaunchFails \/ LaunchExited \/ RecordBinding
  BY <1>7, RouteUntouched, SameProcesses
     DEF NotClosed, LaunchFails, LaunchExited, RecordBinding, Goto, Release
<1>8. CASE Plumb
  <2>1. PICK k \in 0..5 : /\ BuildPieces(job.iface, subnets[job.iface], k)
                          /\ Goto(IF k = 5 THEN "launch" ELSE "rollback")
    BY <1>8 DEF Plumb
  <2>2. /\ job.iface \in Iface /\ Recorded(job.iface) /\ subnets[job.iface] \in Subnet
        /\ UNCHANGED <<subnets, proc, job>>
    BY <1>8, <2>1 DEF Plumb, Goto, TypeInv, TypeOK, JobOK, OnIface, Building, Recorded
  <2>3. ASSUME NEW j \in Iface, Routed(j) PROVE Routed(j)'
    <3>1. j # job.iface => subnets[j] # subnets[job.iface]
      BY <2>2, <2>3 DEF RecordInv, DistinctSubnets
    <3>2. j \in ns' /\ Recorded(j)' /\ <<j, subnets[j]>> \in veth' /\ <<j, subnets[j]>> \in nat'
      BY <2>1, <2>2, <2>3 DEF BuildPieces, Routed, Recorded
    <3>3. subnets[j] \in rule' /\ table'[subnets[j]] = j
      BY <2>1, <2>2, <2>3, <3>1 DEF BuildPieces, Routed, TypeInv, TypeOK
    <3> QED
      BY <2>2, <3>2, <3>3 DEF Routed
  <2>4. k = 5 => Routed(job.iface)'
    BY <2>1, <2>2 DEF BuildPieces, Routed, Recorded, TypeInv, TypeOK
  <2>5. pc' = "launch" => k = 5
    BY <2>1 DEF Goto
  <2>6. RunningIsRouted'
    BY <2>2, <2>3, SameProcesses DEF RouteInv, RunningIsRouted
  <2>7. pc' \in {"launch", "rollback"}
    BY <2>1 DEF Goto
  <2> QED
    BY <2>4, <2>5, <2>6, <2>7 DEF RouteInv
<1>9. ASSUME NEW p \in Pid, Launch(p) PROVE RouteInv'
  <2>1. Routed(job.iface)
    BY <1>9 DEF Launch, RouteInv
  <2>2. \A i \in Iface : InNetns(i)' # {} => InNetns(i) # {} \/ i = job.iface
    BY <1>9, NullIsNew DEF Launch, InNetns, TypeInv, TypeOK, Process
  <2>3. \A i \in Iface : Routed(i) => Routed(i)'
    BY <1>9 DEF Launch, Routed, Recorded, kernel
  <2>4. pc' = "wait"
    BY <1>9 DEF Launch, Goto
  <2> QED
    BY <2>1, <2>2, <2>3, <2>4 DEF RouteInv, RunningIsRouted
<1>10. CASE Rollback
  <2>1. CASE TeardownDue(job.iface)
    <3>1. PICK R : RemovePlumbing(job.iface, subnets[job.iface], R)
      BY <1>10, <2>1 DEF Rollback, TearDownAndForget
    <3>2. /\ job.iface \in Iface /\ ~Busy(job.iface) /\ UNCHANGED proc /\ pc' = "free"
          /\ \A j \in Iface : j # job.iface => subnets'[j] = subnets[j]
      BY <1>10, <2>1 DEF Rollback, TearDownAndForget, ForgetIfaces, TeardownDue, Release,
                         TypeInv, JobOK, OnIface
    <3> QED
      BY <3>1, <3>2, RemovalSpares DEF RouteInv
  <2>2. CASE ~TeardownDue(job.iface)
    BY <1>10, <2>2, RouteUntouched, SameProcesses DEF Rollback, Release
  <2> QED
    BY <2>1, <2>2
<1>11. CASE DropMoved
  <2>1. CASE TeardownDue(job.from)
    <3>1. PICK R : RemovePlumbing(job.from, subnets[job.from], R)
      BY <1>11, <2>1 DEF DropMoved, TearDownAndForget
    <3>2. /\ job.from \in Iface /\ ~Busy(job.from) /\ UNCHANGED proc /\ pc' = "free"
          /\ \A j \in Iface : j # job.from => subnets'[j] = subnets[j]
      BY <1>11, <2>1 DEF DropMoved, TearDownAndForget, ForgetIfaces, TeardownDue, Release,
                         TypeInv, JobOK
    <3> QED
      BY <3>1, <3>2, RemovalSpares DEF RouteInv
  <2>2. CASE ~TeardownDue(job.from)
    BY <1>11, <2>2, RouteUntouched, SameProcesses DEF DropMoved, Release
  <2> QED
    BY <2>1, <2>2
<1>12. CASE Remove
  <2>1. job.iface \in Iface /\ UNCHANGED proc /\ pc' = "free"
    BY <1>12 DEF Remove, Release, TypeInv, JobOK, OnIface
  <2>2. CASE UNCHANGED <<disk, kernel>>
    BY <2>1, <2>2, RouteUntouched, SameProcesses
  <2>3. ASSUME NEW R, RemovePlumbing(job.iface, subnets[job.iface], R), ~Busy(job.iface),
               UNCHANGED disk \/ ForgetIfaces({job.iface})
        PROVE RouteInv'
    <3>1. \A j \in Iface : j # job.iface => subnets'[j] = subnets[j]
      BY <2>3 DEF ForgetIfaces
    <3> QED
      BY <2>1, <2>3, <3>1, RemovalSpares DEF RouteInv
  <2> QED
    BY <1>12, <2>2, <2>3 DEF Remove, TeardownDue, TearDown
<1>13. CASE \E b \in unseen : Examine(b)
  BY <1>13, RouteUntouched, SameProcesses DEF Examine
<1>14. CASE Examined
  BY <1>14, RouteUntouched, SameProcesses DEF Examined, Goto, RecordInv, PassOK
<1>15. ASSUME NEW i \in sweep, SweepIface(i) PROVE RouteInv'
  <2>1. i \in Iface /\ pc = "sweep" /\ UNCHANGED <<subnets, proc>>
    BY <1>15 DEF SweepIface, TypeInv, TypeOK
  <2>2. CASE ~TeardownDue(i)
    BY <1>15, <2>1, <2>2, RouteUntouched, SameProcesses DEF SweepIface
  <2>3. CASE TeardownDue(i)
    <3>1. PICK R : RemovePlumbing(i, subnets[i], R)
      BY <1>15, <2>3 DEF SweepIface, TearDown
    <3>2. RunningIsRouted'
      BY <2>1, <2>3, <3>1, RemovalSpares DEF TeardownDue
    <3>3. torn' \subseteq torn \cup {i} /\ pc' \in {"sweep", "free"}
      BY <1>15, <2>1, <2>3 DEF SweepIface, Release
    <3>4. InNetns(i) = {}
      BY <2>1, <2>3, IdleIsEmpty DEF TeardownDue
    <3>5. torn' \subseteq Iface
      BY <2>1, <3>3 DEF TypeInv, TypeOK
    <3> QED
      BY <2>1, <3>2, <3>3, <3>4, <3>5, SameProcesses DEF RouteInv
  <2> QED
    BY <2>2, <2>3
<1>16. CASE Swept
  BY <1>16, ForgettingSpares DEF Swept, Release, RouteInv
<1>17. CASE Survey
  <2>1. \A i \in Iface : InNetns(i) # {} => i \in kept'
    BY <1>17, IdleIsEmpty DEF Survey
  <2>2. pc' = "wipe" /\ UNCHANGED <<subnets, kernel, proc>>
    BY <1>17 DEF Survey, Goto
  <2> QED
    BY <2>1, <2>2, SameProcesses DEF RouteInv, RunningIsRouted, Routed, Recorded, kernel
<1>18. CASE Reset
  <2>1. PICK F, R : Wipe(F, R)
    BY <1>18 DEF Reset
  <2>2. /\ pc = "wipe" /\ pc' = "free" /\ UNCHANGED proc
        /\ \A j \in kept : subnets'[j] = subnets[j]
    BY <1>18 DEF Reset, Release, ForgetIfaces, TypeInv, TypeOK
  <2> QED
    BY <2>1, <2>2, WipeSpares DEF RouteInv
<1>19. CASE Processes
  <2>1. ASSUME NEW p \in Pid, NEW a \in App, StartOnHost(p, a)
        PROVE \A i \in Iface : InNetns(i)' # {} => InNetns(i) # {}
    BY <2>1, NullIsNew DEF StartOnHost, InNetns, TypeInv, TypeOK
  <2>2. ASSUME NEW p \in Pid, NEW q \in Pid, Fork(p, q)
        PROVE \A i \in Iface : InNetns(i)' # {} => InNetns(i) # {}
    BY <2>2, NullIsNew DEF Fork, Alive, InNetns, TypeInv, TypeOK, Process
  <2>3. ASSUME NEW p \in Pid, Exit(p)
        PROVE \A i \in Iface : InNetns(i)' # {} => InNetns(i) # {}
    BY <2>3, NullIsNew DEF Exit, Alive, InNetns, TypeInv, TypeOK, Process
  <2>4. UNCHANGED <<subnets, kernel, pc, job, torn, kept>>
    BY <1>19 DEF Processes, StartOnHost, Fork, Exit
  <2>5. \A i \in Iface : InNetns(i)' # {} => InNetns(i) # {}
    BY <1>19, <2>1, <2>2, <2>3 DEF Processes
  <2> QED
    BY <2>4, <2>5, RouteUntouched
<1>20. CASE WatchCheck \/ Crash
  BY <1>20, RouteUntouched, SameProcesses DEF WatchCheck, Crash, Release
<1>21. CASE CrashInTeardown
  <2>1. pc' = "free" /\ UNCHANGED <<subnets, proc>>
    BY <1>21 DEF CrashInTeardown, Release
  <2>2. ASSUME NEW i \in Iface, NEW R, TeardownDue(i), RemovePlumbing(i, subnets[i], R)
        PROVE RouteInv'
    BY <2>1, <2>2, RemovalSpares DEF RouteInv, TeardownDue
  <2>3. ASSUME NEW F, NEW R, pc = "wipe", Wipe(F, R) PROVE RouteInv'
    BY <2>1, <2>3, WipeSpares DEF RouteInv
  <2> QED
    BY <1>21, <2>2, <2>3 DEF CrashInTeardown
<1>22. CASE Reboot
  <2>1. \A i \in Iface : InNetns(i)' = {}
    BY <1>22 DEF Reboot, InNetns
  <2>2. pc' = "free"
    BY <1>22 DEF Reboot, Release
  <2> QED
    BY <2>1, <2>2 DEF RouteInv, RunningIsRouted
<1>23. CASE LoseState
  BY <1>23 DEF LoseState
<1>24. CASE UNCHANGED vars
  BY <1>24, RouteUntouched, SameProcesses DEF vars
<1> QED
  BY <1>1, <1>2, <1>3, <1>4, <1>5, <1>6, <1>7, <1>8, <1>9, <1>10, <1>11, <1>12, <1>13, <1>14,
     <1>15, <1>16, <1>17, <1>18, <1>19, <1>20, <1>21, <1>22, <1>23, <1>24
     DEF Next, NewRequest, Work, Faults, RestartRequest, MoveRequest

(***************************************************************************)
(* As long as the state file is not lost, a process in the namespace of an *)
(* interface always has its link, NAT rule and policy rule.                *)
(***************************************************************************)
THEOREM RunningRouted == ASSUME ~MayLoseState PROVE Spec => []RunningIsRouted
<1>1. Init => RouteInv
  BY InitRouted
<1>2. (TypeInv /\ RecordInv) /\ RouteInv /\ [Next]_vars => RouteInv'
  BY NextRouted
<1>3. RouteInv => RunningIsRouted
  BY DEF RouteInv
<1> QED
  BY <1>1, <1>2, <1>3, RecordsAlways, PTL DEF Spec

(***************************************************************************)
(* As long as the state file is not lost, a reset takes nothing from under *)
(* a namespace in which something runs.                                    *)
(***************************************************************************)
THEOREM ResetSpares == ASSUME ~MayLoseState PROVE Spec => ResetKeepsBusyPlumbing
<1>1. ASSUME TypeInv, RouteInv, [Next]_vars, pc = "wipe", pc' = "free", UNCHANGED <<proc, faults>>,
             NEW i \in Iface, Busy(i)
      PROVE  Connected(i)'
  <2>1. ~Fault
    BY <1>1 DEF Fault, TypeInv, TypeOK
  <2>2. Reset
    BY <1>1, <2>1
       DEF Next, NewRequest, Work, Faults, BindRequest, RestartRequest, MoveRequest, StopFirst, RemoveRequest,
           SetSettings, ResetRequest, TeardownRequest, WatchTeardown, BeginTeardown, Take, Closed,
           NotClosed, Plumb, LaunchFails, Launch, LaunchExited, RecordBinding, Rollback, DropMoved,
           Remove, Examine, Examined, SweepIface, Swept, Survey, Processes, StartOnHost, Fork,
           Exit, WatchCheck, Crash, CrashInTeardown, Reboot, LoseState, vars
  <2>3. PICK F, R : Wipe(F, R)
    BY <2>2 DEF Reset
  <2>4. Routed(i) /\ i \in kept
    BY <1>1 DEF RouteInv, RunningIsRouted, Busy
  <2>5. subnets[i] \in KeptSubnets /\ subnets[i] \in Subnet
    BY <1>1, <2>4 DEF KeptSubnets, Routed, Recorded, TypeInv, TypeOK
  <2> QED
    BY <2>3, <2>4, <2>5 DEF Wipe, Routed, Connected
<1>2. TypeInv /\ RouteInv /\ [Next]_vars =>
        [pc = "wipe" /\ pc' = "free" /\ UNCHANGED <<proc, faults>> =>
           \A i \in Iface : Busy(i) /\ Connected(i) => Connected(i)']_vars
  BY <1>1
<1>3. (TypeInv /\ RecordInv) /\ RouteInv /\ [Next]_vars => RouteInv'
  BY NextRouted
<1> QED
  BY <1>2, <1>3, InitRouted, RecordsAlways, PTL DEF Spec, ResetKeepsBusyPlumbing
-----------------------------------------------------------------------------
(***************************************************************************)
(* The refinement: a record is a lease, the processes in a namespace are   *)
(* its tenants.                                                            *)
(***************************************************************************)
LEMMA PromiseInit == Init => Promise!LeaseInit
BY DEF Init, Promise!LeaseInit, InNetns

LEMMA PromiseStutters ==
  ASSUME UNCHANGED subnets, \A i \in Iface : InNetns(i)' = InNetns(i)
  PROVE  UNCHANGED Promise!leaseVars
BY DEF Promise!leaseVars

LEMMA PromiseGrants ==
  ASSUME TypeInv, NEW i \in Iface, NEW newSettings, SaveSubnet(i, newSettings), UNCHANGED proc
  PROVE  Promise!LeaseNext \/ UNCHANGED Promise!leaseVars
<1>0. \A j \in Iface : InNetns(j)' = InNetns(j)
  BY SameProcesses
<1>1. CASE UNCHANGED subnets
  BY <1>0, <1>1, PromiseStutters
<1>2. ASSUME NEW s \in Subnet \ UsedSubnets, ~Recorded(i), subnets' = [subnets EXCEPT ![i] = s]
      PROVE  Promise!LeaseNext
  <2>1. Promise!Grant(i, s)
    BY <1>0, <1>2 DEF Promise!Grant, Promise!Unused, UsedSubnets, Recorded
  <2> QED
    BY <2>1 DEF Promise!LeaseNext
<1> QED
  BY <1>1, <1>2 DEF SaveSubnet

LEMMA PromiseRevokes ==
  ASSUME NEW gone \in SUBSET Iface, ForgetIfaces(gone), UNCHANGED proc,
         \A i \in gone : InNetns(i) = {}
  PROVE  Promise!LeaseNext
<1>1. Promise!Revoke(gone)
  BY SameProcesses DEF ForgetIfaces, Promise!Revoke
<1> QED
  BY <1>1 DEF Promise!LeaseNext

LEMMA PromiseEnters ==
  ASSUME TypeInv, NEW i \in Iface, NEW p \in Pid, Recorded(i), ~Alive(p), UNCHANGED subnets,
         NEW x \in Process, x.at = i, proc' = [proc EXCEPT ![p] = x]
  PROVE  Promise!LeaseNext
<1>1. /\ p \notin InNetns(i)
      /\ InNetns(i)' = InNetns(i) \cup {p}
      /\ \A j \in Iface : j # i => InNetns(j)' = InNetns(j)
  <2>1. x # None /\ proc[p] = None
    BY NullIsNew DEF Alive
  <2>2. \A q \in Pid : proc'[q] = IF q = p THEN x ELSE proc[q]
    BY DEF TypeInv, TypeOK
  <2> QED
    BY <2>1, <2>2 DEF InNetns
<1>2. Promise!Enter(i, p)
  BY <1>1 DEF Promise!Enter, Recorded
<1> QED
  BY <1>2 DEF Promise!LeaseNext

LEMMA PromiseKept ==
  ASSUME ~MayLoseState
  PROVE  TypeInv /\ RecordInv /\ RouteInv /\ [Next]_vars =>
            Promise!LeaseNext \/ UNCHANGED Promise!leaseVars
<1> SUFFICES ASSUME TypeInv, RecordInv, RouteInv, [Next]_vars
             PROVE  Promise!LeaseNext \/ UNCHANGED Promise!leaseVars
  OBVIOUS
<1> DEFINE Goal == Promise!LeaseNext \/ UNCHANGED Promise!leaseVars
<1> SUFFICES Goal
  OBVIOUS
<1>0. UNCHANGED <<subnets, proc>> => Goal
  BY SameProcesses, PromiseStutters
<1>00. ASSUME NEW gone \in SUBSET Iface, ForgetIfaces(gone), UNCHANGED proc,
              \A i \in gone : InNetns(i) = {}
       PROVE  Goal
  BY <1>00, PromiseRevokes
<1>000. ASSUME NEW i \in Iface, NEW newSettings, SaveSubnet(i, newSettings), UNCHANGED proc
        PROVE  Goal
  BY <1>000, PromiseGrants
<1> HIDE DEF Goal
<1> USE DEF disk
<1>1. ASSUME NEW i \in Iface, NEW a \in App, NEW how \in Policies, BindRequest(i, a, how)
      PROVE Goal
  BY <1>1, <1>0, <1>000 DEF BindRequest
<1>2. ASSUME NEW b \in bindings, NEW request, StopFirst(b, request) PROVE Goal
  BY <1>2, <1>0 DEF StopFirst
<1>3. CASE \/ \E i \in Iface : RemoveRequest(i) \/ \E byHand \in BOOLEAN : SetSettings(i, byHand)
           \/ ResetRequest \/ TeardownRequest \/ WatchTeardown
  BY <1>3, <1>0 DEF RemoveRequest, SetSettings, ResetRequest, TeardownRequest, WatchTeardown,
                    BeginTeardown
<1>4. CASE Closed
  <2>1. CASE pc' = "plumb"
    <3>1. /\ SaveSubnet(job.iface, IF job.op = "bind" THEN SettingsAfterBind(job.iface)
                                                     ELSE {settings})
          /\ job.iface \in Iface /\ UNCHANGED proc
      BY <1>4, <2>1 DEF Closed, Release, TypeInv, JobOK, OnIface
    <3> QED
      BY <3>1, <1>000
  <2>2. CASE pc' # "plumb"
    BY <1>4, <2>2, <1>0 DEF Closed
  <2> QED
    BY <2>1, <2>2
<1>5. CASE NotClosed \/ Plumb \/ LaunchFails \/ LaunchExited \/ RecordBinding
  BY <1>5, <1>0 DEF NotClosed, Plumb, LaunchFails, LaunchExited, RecordBinding
<1>6. ASSUME NEW p \in Pid, Launch(p) PROVE Goal
  <2>1. job.iface \in Iface /\ job.app \in App /\ Recorded(job.iface)
    BY <1>6 DEF Launch, TypeInv, JobOK, OnIface, Building
  <2>2. [at |-> job.iface, app |-> job.app, parent |-> None] \in Process
    BY <2>1 DEF Process
  <2> QED
    BY <1>6, <2>1, <2>2, PromiseEnters DEF Launch, Goal
<1>7. CASE Rollback
  <2>1. CASE TeardownDue(job.iface)
    <3>1. /\ job.iface \in Iface /\ ~Busy(job.iface) /\ UNCHANGED proc
          /\ ForgetIfaces({job.iface})
      BY <1>7, <2>1 DEF Rollback, TearDownAndForget, TeardownDue, TypeInv, JobOK, OnIface
    <3> QED
      BY <3>1, <1>00, IdleIsEmpty
  <2>2. CASE ~TeardownDue(job.iface)
    BY <1>7, <2>2, <1>0 DEF Rollback
  <2> QED
    BY <2>1, <2>2
<1>8. CASE DropMoved
  <2>1. CASE TeardownDue(job.from)
    <3>1. /\ job.from \in Iface /\ ~Busy(job.from) /\ UNCHANGED proc
          /\ ForgetIfaces({job.from})
      BY <1>8, <2>1 DEF DropMoved, TearDownAndForget, TeardownDue, TypeInv, JobOK
    <3> QED
      BY <3>1, <1>00, IdleIsEmpty
  <2>2. CASE ~TeardownDue(job.from)
    BY <1>8, <2>2, <1>0 DEF DropMoved
  <2> QED
    BY <2>1, <2>2
<1>9. CASE Remove
  <2>1. CASE UNCHANGED disk
    BY <1>9, <2>1, <1>0 DEF Remove
  <2>2. CASE ~UNCHANGED disk
    <3>1. /\ job.iface \in Iface /\ ~Busy(job.iface) /\ UNCHANGED proc
          /\ ForgetIfaces({job.iface})
      BY <1>9, <2>2 DEF Remove, TeardownDue, TypeInv, JobOK, OnIface
    <3> QED
      BY <3>1, <1>00, IdleIsEmpty
  <2> QED
    BY <2>1, <2>2
<1>10. CASE (\E b \in unseen : Examine(b)) \/ Examined \/ (\E i \in sweep : SweepIface(i)) \/ Survey
  BY <1>10, <1>0 DEF Examine, Examined, SweepIface, Survey
<1>11. CASE Swept
  <2>1. torn \in SUBSET Iface /\ ForgetIfaces(torn) /\ UNCHANGED proc
        /\ \A i \in torn : InNetns(i) = {}
    BY <1>11 DEF Swept, RouteInv, TypeInv, TypeOK
  <2> QED
    BY <2>1, <1>00
<1>12. CASE Reset
  <2>1. ForgetIfaces(Iface \ kept) /\ UNCHANGED proc
        /\ \A i \in Iface \ kept : InNetns(i) = {}
    BY <1>12 DEF Reset, RouteInv
  <2> QED
    BY <2>1, <1>00
<1>13. ASSUME NEW p \in Pid, NEW a \in App, StartOnHost(p, a) PROVE Goal
  <2>1. \A i \in Iface : InNetns(i)' = InNetns(i)
    BY <1>13, NullIsNew DEF StartOnHost, FreePid, Alive, InNetns, TypeInv, TypeOK
  <2> QED
    BY <1>13, <2>1, PromiseStutters DEF StartOnHost, Goal
<1>14. ASSUME NEW p \in Pid, NEW q \in Pid, Fork(p, q) PROVE Goal
  <2> DEFINE x == [proc[p] EXCEPT !.parent = p]
  <2>1. x \in Process /\ x.at = proc[p].at /\ ~Alive(q) /\ UNCHANGED subnets
        /\ proc' = [proc EXCEPT ![q] = x]
    BY <1>14 DEF Fork, FreePid, Alive, TypeInv, TypeOK, Process
  <2>2. CASE proc[p].at \in Iface
    <3>1. InNetns(proc[p].at) # {}
      BY <1>14 DEF Fork, Alive, InNetns
    <3>2. Recorded(proc[p].at)
      BY <2>2, <3>1 DEF RouteInv, RunningIsRouted, Routed
    <3> HIDE DEF x
    <3> QED
      BY <2>1, <2>2, <3>2, PromiseEnters DEF Goal
  <2>3. CASE proc[p].at \notin Iface
    <3> HIDE DEF x
    <3>1. \A i \in Iface : InNetns(i)' = InNetns(i)
      BY <2>1, <2>3 DEF Alive, InNetns, TypeInv, TypeOK
    <3> QED
      BY <2>1, <3>1, PromiseStutters DEF Goal
  <2> QED
    BY <2>2, <2>3
<1>15. ASSUME NEW p \in Pid, Exit(p) PROVE Goal
  <2>1. \A i \in Iface : InNetns(i)' = InNetns(i) \ {p}
    <3>1. ASSUME NEW q \in Pid, q # p, proc[q] # None
          PROVE  proc'[q] # None /\ proc'[q].at = proc[q].at
      <4>1. proc[q] \in Process
        BY <3>1 DEF TypeInv, TypeOK
      <4>2. proc'[q] \in {proc[q], [proc[q] EXCEPT !.parent = None]}
        BY <1>15, <3>1 DEF Exit, Alive
      <4>3. \A y \in {proc[q], [proc[q] EXCEPT !.parent = None]} :
               y \in Process /\ y.at = proc[q].at
        BY <4>1 DEF Process
      <4> QED
        BY <4>2, <4>3, NullIsNew
    <3>2. ASSUME NEW q \in Pid, q = p \/ proc[q] = None PROVE proc'[q] = None
      BY <1>15, <3>2 DEF Exit, Alive
    <3> QED
      BY <3>1, <3>2 DEF InNetns
  <2>2. UNCHANGED subnets /\ Alive(p)
    BY <1>15 DEF Exit
  <2>3. CASE proc[p].at \in Iface
    <3>1. /\ p \in InNetns(proc[p].at)
          /\ \A i \in Iface : i # proc[p].at => p \notin InNetns(i)
      BY <2>2 DEF InNetns, Alive
    <3>2. Promise!Leave(proc[p].at, p)
      BY <2>1, <2>2, <2>3, <3>1 DEF Promise!Leave
    <3> QED
      BY <2>3, <3>2 DEF Promise!LeaseNext, Goal
  <2>4. CASE proc[p].at \notin Iface
    <3>1. \A i \in Iface : InNetns(i)' = InNetns(i)
      BY <2>1, <2>4 DEF InNetns
    <3> QED
      BY <2>2, <3>1, PromiseStutters DEF Goal
  <2> QED
    BY <2>3, <2>4
<1>16. CASE WatchCheck \/ Crash \/ CrashInTeardown
  BY <1>16, <1>0 DEF WatchCheck, Crash, CrashInTeardown
<1>17. CASE Reboot
  <2>1. (\A i \in Iface : InNetns(i)' = {}) /\ UNCHANGED subnets
    BY <1>17 DEF Reboot, InNetns
  <2>2. Promise!PowerCycle
    BY <2>1 DEF Promise!PowerCycle
  <2> QED
    BY <2>2 DEF Promise!LeaseNext, Goal
<1>18. CASE LoseState
  BY <1>18 DEF LoseState
<1>19. CASE UNCHANGED vars
  BY <1>19, <1>0 DEF vars
<1> QED
  BY <1>1, <1>2, <1>3, <1>4, <1>5, <1>6, <1>7, <1>8, <1>9, <1>10, <1>11, <1>12, <1>13, <1>14,
     <1>15, <1>16, <1>17, <1>18, <1>19
     DEF Next, NewRequest, Work, Processes, Faults, RestartRequest, MoveRequest

(***************************************************************************)
(* The binding manager implements Leases: a record is given to one         *)
(* interface at a time, and is only given back when nothing runs on it.    *)
(***************************************************************************)
THEOREM PromiseIsKept == ASSUME ~MayLoseState PROVE Spec => KeepsPromise
<1>1. Init => RouteInv /\ Promise!LeaseInit
  BY InitRouted, PromiseInit
<1>2. (TypeInv /\ RecordInv) /\ RouteInv /\ [Next]_vars => RouteInv'
  BY NextRouted
<1>3. (TypeInv /\ RecordInv) /\ RouteInv /\ [Next]_vars => [Promise!LeaseNext]_(Promise!leaseVars)
  BY PromiseKept
<1> QED
  BY <1>1, <1>2, <1>3, RecordsAlways, PTL DEF Spec, KeepsPromise, Promise!LeaseSpec
=============================================================================
