--------------------------- MODULE Plumbing_proofs ---------------------------
(***************************************************************************)
(* The namespace and the veth pair, for any commands that may fail and any *)
(* number of faults: a launch finds the pair in service, and the pair is   *)
(* out of reach only when it could not be deleted.  Then the name servers, *)
(* for any servers, lists, applications and number of events.              *)
(***************************************************************************)
EXTENDS MCPlumbing, TLAPS

Flags == /\ recorded \in BOOLEAN /\ named \in BOOLEAN /\ hostEnd \in BOOLEAN
         /\ farEnd \in BOOLEAN /\ failed \in BOOLEAN /\ strand \in BOOLEAN

Places == /\ far \in Ends /\ procs \subseteq {"starting", "inside", "unnamed"}
          /\ op \in {"none", "bind", "teardown", "reset"} /\ pc \in Steps

Count == faults \in 0..MaxFaults

LEMMA TypeParts == TypeOK <=> Flags /\ Places /\ Count
  BY Zenon DEF TypeOK, Flags, Places, Count

\* What is true or false stays so.
LEMMA FlagsStep == Flags /\ [Next]_vars => Flags'
<1> SUFFICES ASSUME Flags, [Next]_vars
             PROVE  Flags'
  OBVIOUS
<1> USE DEF Flags, kernel, Goto, Release, Fails, Fault, Broken
<1>1. CASE BindRequest BY <1>1 DEF BindRequest
<1>2. CASE EnsureNamespace BY <1>2 DEF EnsureNamespace
<1>3. CASE AddLink BY <1>3 DEF AddLink
<1>4. CASE MoveLink BY <1>4 DEF MoveLink
<1>5. CASE SetUpHostEnd BY <1>5 DEF SetUpHostEnd
<1>6. CASE SetUpFarEnd BY <1>6 DEF SetUpFarEnd
<1>7. CASE Launch BY <1>7 DEF Launch
<1>8. CASE RollBack BY <1>8 DEF RollBack
<1>9. ASSUME NEW r \in {"teardown", "reset"}, RemoveRequest(r)
      PROVE  Flags'
  BY <1>9 DEF RemoveRequest
<1>10. CASE DeleteLink BY <1>10 DEF DeleteLink
<1>11. CASE DeleteNamespace BY <1>11 DEF DeleteNamespace, End
<1>12. CASE Record BY <1>12 DEF Record
<1>13. CASE Enter BY <1>13 DEF Enter
<1>14. ASSUME NEW w \in {"inside", "unnamed"}, Exit(w)
       PROVE  Flags'
  BY <1>14 DEF Exit
<1>15. CASE Crash BY <1>15 DEF Crash
<1>16. CASE Reboot BY <1>16 DEF Reboot
<1>17. CASE UNCHANGED vars BY <1>17 DEF vars
<1> QED
  BY <1>1, <1>2, <1>3, <1>4, <1>5, <1>6, <1>7, <1>8, <1>9, <1>10, <1>11, <1>12, <1>13,
     <1>14, <1>15, <1>16, <1>17 DEF Next

\* What is somewhere, or does something, stays in its set.
LEMMA PlacesStep == Places /\ [Next]_vars => Places'
<1> SUFFICES ASSUME Places, [Next]_vars
             PROVE  Places'
  OBVIOUS
<1> USE DEF Places, Ends, Steps, kernel, Goto, Release, Fails, Fault, Broken
<1>1. CASE BindRequest BY <1>1 DEF BindRequest
<1>2. CASE EnsureNamespace BY <1>2 DEF EnsureNamespace
<1>3. CASE AddLink BY <1>3 DEF AddLink
<1>4. CASE MoveLink BY <1>4 DEF MoveLink
<1>5. CASE SetUpHostEnd BY <1>5 DEF SetUpHostEnd
<1>6. CASE SetUpFarEnd BY <1>6 DEF SetUpFarEnd
<1>7. CASE Launch BY <1>7 DEF Launch
<1>8. CASE RollBack BY <1>8 DEF RollBack
<1>9. ASSUME NEW r \in {"teardown", "reset"}, RemoveRequest(r)
      PROVE  Places'
  BY <1>9 DEF RemoveRequest
<1>10. CASE DeleteLink BY <1>10 DEF DeleteLink
<1>11. CASE DeleteNamespace BY <1>11 DEF DeleteNamespace, End
<1>12. CASE Record BY <1>12 DEF Record
<1>13. CASE Enter BY <1>13 DEF Enter
<1>14. ASSUME NEW w \in {"inside", "unnamed"}, Exit(w)
       PROVE  Places'
  BY <1>14 DEF Exit
<1>15. CASE Crash BY <1>15 DEF Crash
<1>16. CASE Reboot BY <1>16 DEF Reboot
<1>17. CASE UNCHANGED vars BY <1>17 DEF vars
<1> QED
  BY <1>1, <1>2, <1>3, <1>4, <1>5, <1>6, <1>7, <1>8, <1>9, <1>10, <1>11, <1>12, <1>13,
     <1>14, <1>15, <1>16, <1>17 DEF Next

\* A step counts one fault, or none.
Same == faults' = faults \/ Fault

LEMMA CountStep == Count /\ [Next]_vars => Count'
<1> SUFFICES ASSUME Count, [Next]_vars
             PROVE  Count'
  OBVIOUS
<1>0. Fault => Count' BY BoundIsRight DEF Count, Fault
<1>same. Same
  <2> USE DEF Same, kernel, Fails, Fault, Broken
  <2>1. CASE BindRequest BY <2>1 DEF BindRequest
  <2>2. CASE EnsureNamespace BY <2>2 DEF EnsureNamespace
  <2>3. CASE AddLink BY <2>3 DEF AddLink
  <2>4. CASE MoveLink BY <2>4 DEF MoveLink
  <2>5. CASE SetUpHostEnd BY <2>5 DEF SetUpHostEnd
  <2>6. CASE SetUpFarEnd BY <2>6 DEF SetUpFarEnd
  <2>7. CASE Launch BY <2>7 DEF Launch
  <2>8. CASE RollBack BY <2>8 DEF RollBack
  <2>9. ASSUME NEW r \in {"teardown", "reset"}, RemoveRequest(r)
        PROVE  Same
    BY <2>9 DEF RemoveRequest
  <2>10. CASE DeleteLink BY <2>10 DEF DeleteLink
  <2>11. CASE DeleteNamespace BY <2>11 DEF DeleteNamespace, End
  <2>12. CASE Record BY <2>12 DEF Record
  <2>13. CASE Enter BY <2>13 DEF Enter
  <2>14. ASSUME NEW w \in {"inside", "unnamed"}, Exit(w)
         PROVE  Same
    BY <2>14 DEF Exit
  <2>15. CASE Crash BY <2>15 DEF Crash
  <2>16. CASE Reboot BY <2>16 DEF Reboot
  <2>17. CASE UNCHANGED vars BY <2>17 DEF vars
  <2> QED
    BY <2>1, <2>2, <2>3, <2>4, <2>5, <2>6, <2>7, <2>8, <2>9, <2>10, <2>11, <2>12, <2>13,
       <2>14, <2>15, <2>16, <2>17 DEF Next
<1> QED BY <1>0, <1>same DEF Same, Count

\* Every variable holds a value of its kind, in every reachable state.
THEOREM TypeCorrect == Spec => []TypeOK
<1>1. Init => Flags BY Zenon DEF Init, Flags
<1>2. Init => Places BY DEF Init, Places, Ends, Steps
<1>3. Init => Count BY BoundIsRight DEF Init, Count
<1>4. TypeOK' <=> Flags' /\ Places' /\ Count'
  BY Zenon DEF TypeOK, Flags, Places, Count
<1> QED BY <1>1, <1>2, <1>3, <1>4, TypeParts, FlagsStep, PlacesStep, CountStep, PTL DEF Spec

-----------------------------------------------------------------------------
\* How far the building has come says what is there.
Built ==
    /\ pc \in {"add", "move", "host end", "far end", "launch"} => named
    /\ pc \in {"host end", "far end", "launch"} => far = "inside"
    /\ pc \in {"far end", "launch"} => hostEnd
    /\ pc = "launch" => farEnd

\* A pair that outlives its removal could not be deleted, and a pair out of
\* reach is held by a process.
Stranded ==
    /\ pc = "unname" /\ far = "inside" => strand
    /\ far = "lost" => strand /\ "unnamed" \in procs

\* Between the removal of the pair and the record, an operation that has met no
\* failure leaves nothing.
Removed ==
    /\ pc = "unname" /\ ~failed => far = "gone"
    /\ pc = "record" /\ op = "teardown" => ~named /\ far = "gone"

IInv == Built /\ Stranded /\ Removed

LEMMA InvInit == Init => IInv
  BY DEF Init, IInv, Built, Stranded, Removed

\* Each action keeps the invariant.
LEMMA InvStep == Places /\ IInv /\ [Next]_vars => IInv'
<1> SUFFICES ASSUME Places, IInv, [Next]_vars
             PROVE  Built' /\ Stranded' /\ Removed'
  BY DEF IInv
<1> USE DEF IInv, Built, Stranded, Removed, kernel, Goto, Release, Fails, Fault, Broken
<1>1. CASE BindRequest BY <1>1 DEF BindRequest
<1>2. CASE EnsureNamespace BY <1>2 DEF EnsureNamespace
<1>3. CASE AddLink BY <1>3 DEF AddLink
<1>4. CASE MoveLink BY <1>4 DEF MoveLink
<1>5. CASE SetUpHostEnd BY <1>5 DEF SetUpHostEnd
<1>6. CASE SetUpFarEnd BY <1>6 DEF SetUpFarEnd
<1>7. CASE Launch BY <1>7 DEF Launch
<1>8. CASE RollBack BY <1>8 DEF RollBack
<1>9. ASSUME NEW r \in {"teardown", "reset"}, RemoveRequest(r)
      PROVE  Built' /\ Stranded' /\ Removed'
  BY <1>9 DEF RemoveRequest
<1>10. CASE DeleteLink BY <1>10 DEF DeleteLink
<1>11. CASE DeleteNamespace
  \* A pair in the namespace could not be deleted; without a failure there is none.
  <2>1. Built' BY <1>11 DEF DeleteNamespace, End
  <2>2. Stranded' BY <1>11 DEF DeleteNamespace, End, Places, Ends
  <2>3. Removed' BY <1>11 DEF DeleteNamespace, End, Places, Ends
  <2> QED BY <2>1, <2>2, <2>3
<1>12. CASE Record BY <1>12 DEF Record
<1>13. CASE Enter BY <1>13 DEF Enter
<1>14. ASSUME NEW w \in {"inside", "unnamed"}, Exit(w)
       PROVE  Built' /\ Stranded' /\ Removed'
  BY <1>14 DEF Exit
<1>15. CASE Crash BY <1>15 DEF Crash
<1>16. CASE Reboot BY <1>16 DEF Reboot
<1>17. CASE UNCHANGED vars BY <1>17 DEF vars
<1> QED
  BY <1>1, <1>2, <1>3, <1>4, <1>5, <1>6, <1>7, <1>8, <1>9, <1>10, <1>11, <1>12, <1>13,
     <1>14, <1>15, <1>16, <1>17 DEF Next

LEMMA Inductive == Spec => []IInv
<1>1. TypeOK => Places BY TypeParts
<1> QED BY InvInit, InvStep, <1>1, TypeCorrect, PTL DEF Spec

\* An application is launched only into a namespace whose pair is set up, after
\* whatever failures, crashes and removals (_bind_plumbed, ensure_veth).
THEOREM LinkedAtLaunch == Spec => []LinkedWhenLaunched
<1>1. IInv => LinkedWhenLaunched BY DEF IInv, Built, LinkedWhenLaunched
<1> QED BY Inductive, <1>1, PTL

\* The pair is out of reach only after its deletion has failed
\* (_teardown_plumbing deletes it before the namespace).
THEOREM LostByFailure == Spec => []LostOnlyByFailure
<1>1. IInv => LostOnlyByFailure BY DEF IInv, Stranded, LostOnlyByFailure
<1> QED BY Inductive, <1>1, PTL

\* A teardown that records its end has left neither namespace nor pair
\* (_teardown_plumbing: "The first failure is raised at the end").
THEOREM ForgottenGone == Spec => []ForgottenIsGone
<1>1. IInv => ForgottenIsGone BY DEF IInv, Removed, ForgottenIsGone
<1> QED BY Inductive, <1>1, PTL
-----------------------------------------------------------------------------
(* The name servers, while the host keeps its nsswitch.conf *)

\* The variables as sequences, sets and functions.
Words == {None, "ns", "host"}
Typed(A, lists) ==
    /\ dns \in lists \cup {None}
    /\ redirect \in Seq(Server) /\ resolv \in Seq(Server) /\ servers \in Seq(Server)
    /\ nsswitch \in BOOLEAN /\ warned \in BOOLEAN /\ followed \in BOOLEAN /\ hostResolve \in BOOLEAN
    /\ step \in {"idle", "first", "probe", "write", "fill", "nsswitch", "second", "save", "launch"}
    /\ step # "idle" => servers # <<>> /\ choice.list \in lists \cup {None}
    /\ answers \subseteq Server /\ own \subseteq Server
    /\ answering \subseteq {servers[k] : k \in DOMAIN servers}
    /\ app \in [A -> [resolv : Words, nsswitch : Words]]

\* Ordering changes no more than places.
OrderedFrom(old, good, new) ==
    /\ new \in Seq(Server) /\ Len(new) = Len(old)
    /\ {new[k] : k \in DOMAIN new} = {old[k] : k \in DOMAIN old}
    /\ good # {} /\ good \subseteq {old[k] : k \in DOMAIN old} => new # <<>> /\ Head(new) \in good

LEMMA OrderedKeeps ==
    ASSUME NEW old \in Seq(Server), NEW good, NEW at \in [DOMAIN old -> DOMAIN old],
           \A k \in DOMAIN old : \E j \in DOMAIN old : at[j] = k,
           \A j, k \in DOMAIN old : j < k /\ old[at[k]] \in good => old[at[j]] \in good
    PROVE  OrderedFrom(old, good, [k \in DOMAIN old |-> old[at[k]]])
<1> DEFINE new == [k \in DOMAIN old |-> old[at[k]]]
<1>1. Len(old) \in Nat /\ DOMAIN old = 1..Len(old) /\ \A k \in DOMAIN old : old[k] \in Server
  OBVIOUS
<1>2. new \in [1..Len(old) -> Server]
  BY <1>1
<1>3. new \in Seq(Server) /\ Len(new) = Len(old) /\ DOMAIN new = DOMAIN old
  BY <1>1, <1>2
<1>4. \A k \in DOMAIN old : new[k] = old[at[k]]
  OBVIOUS
<1> HIDE DEF new
<1>5. {new[k] : k \in DOMAIN new} = {old[k] : k \in DOMAIN old}
  BY <1>3, <1>4
<1>6. ASSUME good # {}, good \subseteq {old[k] : k \in DOMAIN old}
      PROVE  new # <<>> /\ Head(new) \in good
  <2>1. PICK k \in DOMAIN old : old[k] \in good
    BY <1>6
  <2>2. PICK j \in DOMAIN old : at[j] = k
    BY <2>1
  <2>3. 1 \in DOMAIN old /\ (j = 1 \/ 1 < j)
    BY <1>1, <2>2
  <2>4. old[at[1]] \in good
    BY <2>1, <2>2, <2>3
  <2>5. new # <<>> /\ Head(new) = new[1]
    BY <1>1, <1>3, <2>3
  <2>6. new[1] = old[at[1]]
    BY <1>4, <2>3
  <2> QED BY <2>4, <2>5, <2>6
<1> QED BY <1>3, <1>5, <1>6 DEF OrderedFrom, new

LEMMA FilesOrder ==
    ASSUME servers \in Seq(Server), servers' \in Files!Ordered
    PROVE  OrderedFrom(servers, answering, servers')
<1>1. PICK at \in Files!Bijection(DOMAIN servers, DOMAIN servers) :
        /\ servers' = [k \in DOMAIN servers |-> servers[at[k]]]
        /\ \A j, k \in DOMAIN servers : j < k =>
              IF servers[at[j]] \in answering <=> servers[at[k]] \in answering THEN at[j] < at[k]
              ELSE servers[at[j]] \in answering
  BY DEF Files!Ordered
<1>2. at \in [DOMAIN servers -> DOMAIN servers] /\ \A k \in DOMAIN servers : \E j \in DOMAIN servers : at[j] = k
  BY <1>1 DEF Files!Bijection, Files!Surjection
<1>3. PICK old, good, new : old = servers /\ good = answering /\ new = servers'
  OBVIOUS
<1>4. OrderedFrom(old, good, [k \in DOMAIN old |-> old[at[k]]])
  <2>1. old \in Seq(Server) /\ at \in [DOMAIN old -> DOMAIN old]
    BY <1>2, <1>3
  <2>2. \A k \in DOMAIN old : \E j \in DOMAIN old : at[j] = k
    BY <1>2, <1>3
  <2>3. \A j, k \in DOMAIN old : j < k /\ old[at[k]] \in good => old[at[j]] \in good
    BY <1>1, <1>3
  <2> QED BY <2>1, <2>2, <2>3, OrderedKeeps
<1>5. new = [k \in DOMAIN old |-> old[at[k]]]
  BY <1>1, <1>3
<1> QED BY <1>3, <1>4, <1>5

LEMMA ServicesOrder ==
    ASSUME servers \in Seq(Server), servers' \in Services!Ordered
    PROVE  OrderedFrom(servers, answering, servers')
<1>1. PICK at \in Services!Bijection(DOMAIN servers, DOMAIN servers) :
        /\ servers' = [k \in DOMAIN servers |-> servers[at[k]]]
        /\ \A j, k \in DOMAIN servers : j < k =>
              IF servers[at[j]] \in answering <=> servers[at[k]] \in answering THEN at[j] < at[k]
              ELSE servers[at[j]] \in answering
  BY DEF Services!Ordered
<1>2. at \in [DOMAIN servers -> DOMAIN servers] /\ \A k \in DOMAIN servers : \E j \in DOMAIN servers : at[j] = k
  BY <1>1 DEF Services!Bijection, Services!Surjection
<1>3. PICK old, good, new : old = servers /\ good = answering /\ new = servers'
  OBVIOUS
<1>4. OrderedFrom(old, good, [k \in DOMAIN old |-> old[at[k]]])
  <2>1. old \in Seq(Server) /\ at \in [DOMAIN old -> DOMAIN old]
    BY <1>2, <1>3
  <2>2. \A k \in DOMAIN old : \E j \in DOMAIN old : at[j] = k
    BY <1>2, <1>3
  <2>3. \A j, k \in DOMAIN old : j < k /\ old[at[k]] \in good => old[at[j]] \in good
    BY <1>1, <1>3
  <2> QED BY <2>1, <2>2, <2>3, OrderedKeeps
<1>5. new = [k \in DOMAIN old |-> old[at[k]]]
  BY <1>1, <1>3
<1> QED BY <1>3, <1>4, <1>5

-----------------------------------------------------------------------------
(* Where only resolv.conf is replaced, and only the copy of nsswitch.conf may not fail *)

\* The servers of a list, and those of the choice of a user, or of none.
Names(list) == {list[k] : k \in DOMAIN list}
Of(list) == Names(IF list = None THEN Automatic ELSE list)

\* What a configuration works with, and what it has written so far.
Working ==
    /\ step # "idle" => Names(servers) = Of(choice.list)
    /\ step \in {"nsswitch", "second", "save"} => resolv = servers
    /\ step = "save" /\ ~warned => redirect = servers

\* Applications ask systemd-resolved only if the host does not.
Mounted ==
    /\ step \in {"second", "save", "launch"} => nsswitch = hostResolve
    /\ \A a \in App : Files!Runs(a) /\ app[a].nsswitch = "host" => ~hostResolve

\* What is followed is written everywhere.
Written ==
    followed =>
        /\ step \in {"idle", "launch"} /\ resolv = redirect /\ redirect # <<>>
        /\ Names(redirect) = Of(dns)

FilesInv == Typed(App, FileLists) /\ Working /\ Mounted /\ Written

LEMMA FilesInit == Files!Init => FilesInv
<1> SUFFICES ASSUME Files!Init PROVE FilesInv
  OBVIOUS
<1>1. <<>> \in Seq(Server) /\ DOMAIN <<>> = {} /\ Files!NotRunning \in [resolv : Words, nsswitch : Words]
  BY DEF Files!NotRunning, Words
<1>2. Typed(App, FileLists)
  BY <1>1 DEF Files!Init, Typed
<1>3. Working /\ Mounted /\ Written
  BY DEF Files!Init, Working, Mounted, Written, Files!Runs
<1> QED BY <1>2, <1>3 DEF FilesInv

LEMMA OfLists ==
    ASSUME NEW list \in FileLists \cup ServiceLists \cup {None}
    PROVE  LET l == IF list = None THEN Automatic ELSE list
           IN  l \in Seq(Server) /\ l # <<>> /\ Names(l) = Of(list)
<1>1. IF list = None THEN list = None ELSE list \in FileLists \cup ServiceLists
  OBVIOUS
<1>2. \A l \in {Automatic} \cup FileLists \cup ServiceLists : l \in Seq(Server) /\ l # <<>>
  BY ListsAreLists
<1>3. CASE list = None BY <1>2, <1>3 DEF Of
<1>4. CASE list # None BY <1>1, <1>2, <1>4 DEF Of
<1> QED BY <1>3, <1>4

LEMMA FilesStep == ASSUME FilesInv, Files!Next PROVE FilesInv'
<1> USE DEF Files!namespace, Files!call, Files!outside, Files!Goes, Files!MayFail
<1>t. Typed(App, FileLists) /\ Working /\ Mounted /\ Written
  BY DEF FilesInv
<1>1. ASSUME NEW kind \in {"bind", "set"}, NEW list \in FileLists \cup {dns} \cup {None}, Files!Begin(kind, list),
             dns' \in {dns, list}
      PROVE  FilesInv'
  <2>1. list \in FileLists \cup {None}
    BY <1>t, <1>1 DEF Typed
  <2>2. servers' \in Seq(Server) /\ servers' # <<>> /\ Names(servers') = Of(list)
    BY <1>1, <2>1, OfLists DEF Files!Begin
  <2>3. step' = "first" /\ choice'.list = list /\ answering' = {} /\ warned' = FALSE /\ followed' = FALSE
        /\ dns' \in FileLists \cup {None}
        /\ UNCHANGED <<redirect, resolv, nsswitch, hostResolve, answers, app, own>>
    BY <1>t, <1>1, <2>1 DEF Files!Begin, Typed
  <2>4. Typed(App, FileLists)'
    BY <1>t, <2>1, <2>2, <2>3 DEF Typed
  <2>5. Working'
    BY <2>2, <2>3 DEF Working
  <2>6. Mounted' /\ Written'
    BY <1>t, <2>3 DEF Mounted, Written, Files!Runs, Files!NotRunning
  <2> QED BY <2>4, <2>5, <2>6 DEF FilesInv
<1>2. CASE Files!First
  <2>1. Typed(App, FileLists)' BY <1>t, <1>2 DEF Files!First, Typed
  <2>2. Working' /\ Mounted' /\ Written'
    BY <1>t, <1>2 DEF Files!First, Working, Mounted, Written, Files!Runs, Files!NotRunning
  <2> QED BY <2>1, <2>2 DEF FilesInv
<1>3. CASE Files!Probe
  <2>1. step = "probe" /\ step' = "write" /\ warned' \in BOOLEAN /\ own' = answers
        /\ UNCHANGED <<dns, redirect, resolv, nsswitch, choice, servers, hostResolve, answers, app, followed>>
    BY <1>3 DEF Files!Probe
  <2>2. answering' \subseteq {servers[k] : k \in DOMAIN servers}
    BY <1>3 DEF Files!Probe, Files!ToSet
  <2>3. Typed(App, FileLists)' BY <1>t, <2>1, <2>2 DEF Typed
  <2>4. Working' /\ Mounted' /\ Written'
    BY <1>t, <2>1 DEF Working, Mounted, Written, Files!Runs, Files!NotRunning
  <2> QED BY <2>3, <2>4 DEF FilesInv
<1>4. CASE Files!Truncate
  <2>1. step = "write" /\ step' = "fill" /\ resolv' = <<>>
        /\ UNCHANGED <<dns, redirect, nsswitch, choice, answering, warned, hostResolve, answers, app, own, followed>>
    BY <1>4 DEF Files!Truncate
  <2>2. OrderedFrom(servers, answering, servers')
    BY <1>t, <1>4, FilesOrder DEF Files!Truncate, Typed
  <2>3. servers' \in Seq(Server) /\ servers' # <<>> /\ Names(servers') = Names(servers)
    <3>1. Len(servers') = Len(servers) /\ servers \in Seq(Server) /\ servers # <<>>
      BY <1>t, <2>1, <2>2 DEF Typed, OrderedFrom
    <3>2. Len(servers) # 0
      BY <3>1
    <3> QED BY <2>2, <3>1, <3>2 DEF OrderedFrom, Names
  <2>4. Typed(App, FileLists)'
    <3>1. answering \subseteq {servers'[k] : k \in DOMAIN servers'}
      BY <1>t, <2>3 DEF Typed, Names
    <3>2. <<>> \in Seq(Server)
      OBVIOUS
    <3> QED BY <1>t, <2>1, <2>3, <3>1, <3>2 DEF Typed
  <2>5. Working' /\ Mounted' /\ Written'
    BY <1>t, <2>1, <2>3 DEF Working, Mounted, Written, Files!Runs, Files!NotRunning
  <2> QED BY <2>4, <2>5 DEF FilesInv
<1>5. CASE Files!Fill
  <2>1. Typed(App, FileLists)' BY <1>t, <1>5 DEF Files!Fill, Typed
  <2>2. Working' /\ Mounted' /\ Written'
    BY <1>t, <1>5 DEF Files!Fill, Working, Mounted, Written, Files!Runs, Files!NotRunning
  <2> QED BY <2>1, <2>2 DEF FilesInv
<1>6. CASE Files!Nsswitch
  <2>1. step = "nsswitch" /\ step' = "second" /\ nsswitch' = hostResolve
        /\ UNCHANGED <<dns, redirect, resolv, choice, servers, answering, warned, hostResolve, answers, app, own, followed>>
    BY <1>6 DEF Files!Nsswitch
  <2>2. Typed(App, FileLists)' BY <1>t, <2>1 DEF Typed
  <2>3. Working' /\ Mounted' /\ Written'
    BY <1>t, <2>1 DEF Working, Mounted, Written, Files!Runs, Files!NotRunning
  <2> QED BY <2>2, <2>3 DEF FilesInv
<1>7. CASE Files!Second
  <2>1. Typed(App, FileLists)' BY <1>t, <1>7 DEF Files!Second, Typed
  <2>2. Working' /\ Mounted' /\ Written'
    BY <1>t, <1>7 DEF Files!Second, Working, Mounted, Written, Files!Runs, Files!NotRunning
  <2> QED BY <2>1, <2>2 DEF FilesInv
<1>8. CASE Files!Save
  <2>1. step = "save" /\ step' \in {"launch", "idle"} /\ dns' = choice.list /\ followed' = ~warned
        /\ UNCHANGED <<redirect, resolv, nsswitch, choice, servers, answering, warned, hostResolve, answers, app, own>>
    BY <1>8 DEF Files!Save
  <2>2. Typed(App, FileLists)' BY <1>t, <2>1 DEF Typed
  <2>3. Working' /\ Mounted'
    BY <1>t, <2>1 DEF Working, Mounted, Files!Runs, Files!NotRunning
  <2>4. Written'
    BY <1>t, <2>1 DEF Typed, Working, Written
  <2> QED BY <2>2, <2>3, <2>4 DEF FilesInv
<1>9. CASE Files!Launch
  <2>1. step = "launch" /\ step' = "idle"
        /\ UNCHANGED <<dns, redirect, resolv, nsswitch, choice, servers, answering, warned, hostResolve, answers, own, followed>>
    BY <1>9 DEF Files!Launch
  <2>2. app' \in [App -> [resolv : Words, nsswitch : Words]]
        /\ \A a \in App : app'[a] = app[a] \/ app'[a].nsswitch = IF nsswitch THEN "ns" ELSE "host"
    <3>1. CASE UNCHANGED app BY <1>t, <3>1 DEF Typed
    <3>2. CASE ~UNCHANGED app
      <4>1. PICK b \in App : app' = [app EXCEPT ![b] = [resolv |-> "ns", nsswitch |-> IF nsswitch THEN "ns" ELSE "host"]]
        BY <1>9, <3>2 DEF Files!Launch
      <4> QED BY <1>t, <4>1 DEF Typed, Words
    <3> QED BY <3>1, <3>2
  <2>3. Typed(App, FileLists)' BY <1>t, <2>1, <2>2 DEF Typed
  <2>4. Mounted'
    BY <1>t, <2>1, <2>2 DEF Mounted, Typed, Files!Runs, Files!NotRunning
  <2>5. Working' /\ Written'
    BY <1>t, <2>1 DEF Working, Written
  <2> QED BY <2>3, <2>4, <2>5 DEF FilesInv
<1>10. CASE Files!Crash \/ Files!Network
  <2>1. /\ step' \in {step, "idle"} /\ answers' \subseteq Server
        /\ UNCHANGED <<dns, redirect, resolv, nsswitch, choice, servers, answering, warned, hostResolve, app, own, followed>>
    BY <1>t, <1>10 DEF Typed, Files!Crash, Files!Network, Files!Event
  <2>2. Typed(App, FileLists)' BY <1>t, <2>1 DEF Typed
  <2>3. Working' /\ Mounted' /\ Written'
    BY <1>t, <2>1 DEF Working, Mounted, Written, Files!Runs, Files!NotRunning
  <2> QED BY <2>2, <2>3 DEF FilesInv
<1>11. CASE Files!Teardown
  <2>1. Typed(App, FileLists)'
    <3>1. /\ step' = "idle" /\ dns' = None /\ redirect' = <<>> /\ resolv' = <<>> /\ nsswitch' = FALSE /\ followed' = FALSE
          /\ UNCHANGED <<choice, servers, answering, warned, hostResolve, answers, app, own>>
      BY <1>11 DEF Files!Teardown
    <3>2. <<>> \in Seq(Server)
      OBVIOUS
    <3> QED BY <1>t, <3>1, <3>2 DEF Typed
  <2>2. Working' /\ Mounted' /\ Written'
    BY <1>t, <1>11 DEF Files!Teardown, Working, Mounted, Written, Files!Runs, Files!NotRunning
  <2> QED BY <2>1, <2>2 DEF FilesInv
<1>12. CASE Files!ReplaceResolv \/ \E a \in App : Files!Quit(a)
  <2>1. UNCHANGED <<dns, redirect, resolv, nsswitch, step, choice, servers, answering, warned, hostResolve, answers, own, followed>>
    BY <1>12 DEF Files!ReplaceResolv, Files!Event, Files!Quit
  <2>2. app' \in [App -> [resolv : Words, nsswitch : Words]]
        /\ \A a \in App : app'[a] = Files!NotRunning \/ (Files!Runs(a) /\ app'[a].nsswitch = app[a].nsswitch)
    <3>1. CASE Files!ReplaceResolv
      <4>1. app' = [a \in App |-> IF Files!Runs(a) THEN [app[a] EXCEPT !.resolv = "host"] ELSE app[a]]
        BY <3>1 DEF Files!ReplaceResolv, Files!Detach
      <4>2. \A r \in [resolv : Words, nsswitch : Words] :
                /\ [r EXCEPT !.resolv = "host"] \in [resolv : Words, nsswitch : Words]
                /\ [r EXCEPT !.resolv = "host"].nsswitch = r.nsswitch
        BY DEF Words
      <4> QED BY <1>t, <4>1, <4>2 DEF Typed, Files!Runs
    <3>2. CASE \E a \in App : Files!Quit(a)
      BY <1>t, <3>2 DEF Typed, Files!Quit, Files!Runs, Files!NotRunning, Words
    <3> QED BY <1>12, <3>1, <3>2
  <2>3. Typed(App, FileLists)' BY <1>t, <2>1, <2>2 DEF Typed
  <2>4. Mounted'
    BY <1>t, <2>1, <2>2 DEF Mounted, Files!Runs, Files!NotRunning
  <2>5. Working' /\ Written'
    BY <1>t, <2>1 DEF Working, Written
  <2> QED BY <2>3, <2>4, <2>5 DEF FilesInv
<1>13. ~Files!ReplaceNsswitch
  BY DEF Files!ReplaceNsswitch
<1>14. CASE Files!Bind \/ Files!SetDns
  BY <1>1, <1>14 DEF Files!Bind, Files!SetDns
<1> QED
  BY <1>2, <1>3, <1>4, <1>5, <1>6, <1>7, <1>8, <1>9, <1>10, <1>11, <1>12, <1>13, <1>14
  DEF Files!Next, Files!Configure

\* What is claimed of these files.
LEMMA FilesClaims == FilesInv => Files!TypeOK /\ Files!KeptInside /\ Files!Follow
<1> SUFFICES ASSUME FilesInv PROVE Files!TypeOK /\ Files!KeptInside /\ Files!Follow
  OBVIOUS
<1>t. Typed(App, FileLists) /\ Mounted /\ Written
  BY DEF FilesInv
<1>1. Files!TypeOK
  BY <1>t DEF Typed, Files!TypeOK, Files!Steps, Files!ToSet, Words
<1>2. \A l \in Seq(Server) : l # <<>> => Head(l) \in Names(l)
  <2> SUFFICES ASSUME NEW l \in Seq(Server), l # <<>> PROVE Head(l) \in Names(l)
    OBVIOUS
  <2>1. 1 \in DOMAIN l /\ Head(l) = l[1]
    OBVIOUS
  <2> QED BY <2>1 DEF Names
<1>3. \A l \in Seq(Server) : Names(l) \subseteq Server
  BY DEF Names
<1>4. redirect \in Seq(Server) /\ resolv \in Seq(Server) /\ Files!ToSet(redirect) = Names(redirect)
  BY <1>t DEF Typed, Files!ToSet, Names
<1>5. ASSUME redirect # <<>>, NEW a \in App, Files!Runs(a)
      PROVE  /\ Files!Lookup(a) \in Server
             /\ resolv = redirect => Files!Lookup(a) = Head(redirect)
  <2>1. Files!Lookup(a) = Files!Sent(Files!Asks(a))
    BY <1>t, <1>5 DEF Mounted, Files!Lookup
  <2>2. Files!Asks(a) \in {"stub", Head(resolv)}
    BY DEF Files!Asks
  <2>3. Head(redirect) \in Server /\ Head(redirect) \in Names(redirect) /\ "stub" \notin Names(redirect)
    BY <1>2, <1>3, <1>4, <1>5, NamesDiffer
  <2> QED BY <1>3, <1>4, <1>5, <2>1, <2>2, <2>3 DEF Files!Sent
<1>6. Files!KeptInside
  BY <1>5 DEF Files!KeptInside
<1>7. Files!Follow
  <2> SUFFICES ASSUME followed
               PROVE  /\ resolv = redirect /\ Files!ToSet(redirect) = Files!ToSet(IF dns = None THEN Automatic ELSE dns)
                      /\ \A a \in App : Files!Runs(a) => Files!Lookup(a) = Head(redirect)
    BY DEF Files!Follow
  <2>1. resolv = redirect /\ redirect # <<>> /\ Names(redirect) = Of(dns)
    BY <1>t DEF Written
  <2>2. Of(dns) = Files!ToSet(IF dns = None THEN Automatic ELSE dns)
    BY DEF Of, Names, Files!ToSet
  <2> QED BY <1>4, <1>5, <2>1, <2>2
<1> QED BY <1>1, <1>6, <1>7

-----------------------------------------------------------------------------
(* Where nsswitch.conf is replaced as well, and the first redirect is loaded *)

\* What the probe has shown of the servers.
Tried ==
    /\ step = "probe" => redirect = servers
    /\ step = "write" => answering \subseteq own /\ (warned \/ answering # {})
    /\ step \in {"fill", "nsswitch", "second", "save"} /\ ~warned => Head(servers) \in own
    /\ step = "save" /\ ~warned => redirect = servers
    /\ followed => step \in {"idle", "launch"} /\ Head(redirect) \in own

ServicesInv == Typed(Single, ServiceLists) /\ Tried

LEMMA ServicesInit == Services!Init => ServicesInv
<1> SUFFICES ASSUME Services!Init PROVE ServicesInv
  OBVIOUS
<1>1. <<>> \in Seq(Server) /\ DOMAIN <<>> = {} /\ Services!NotRunning \in [resolv : Words, nsswitch : Words]
  BY DEF Services!NotRunning, Words
<1>2. Typed(Single, ServiceLists)
  BY <1>1 DEF Services!Init, Typed
<1>3. Tried
  BY DEF Services!Init, Tried
<1> QED BY <1>2, <1>3 DEF ServicesInv

LEMMA ServicesStep == ASSUME ServicesInv, Services!Next PROVE ServicesInv'
<1> USE DEF Services!namespace, Services!call, Services!outside, Services!Goes, Services!MayFail
<1>t. Typed(Single, ServiceLists) /\ Tried
  BY DEF ServicesInv
<1>1. ASSUME NEW kind \in {"bind", "set"}, NEW list \in ServiceLists \cup {dns} \cup {None}, Services!Begin(kind, list),
             dns' \in {dns, list}
      PROVE  ServicesInv'
  <2>1. list \in ServiceLists \cup {None}
    BY <1>t, <1>1 DEF Typed
  <2>2. servers' \in Seq(Server) /\ servers' # <<>>
    BY <1>1, <2>1, OfLists DEF Services!Begin
  <2>3. step' = "first" /\ choice'.list = list /\ answering' = {} /\ warned' = FALSE /\ followed' = FALSE
        /\ dns' \in ServiceLists \cup {None}
        /\ UNCHANGED <<redirect, resolv, nsswitch, hostResolve, answers, app, own>>
    BY <1>t, <1>1, <2>1 DEF Services!Begin, Typed
  <2>4. Typed(Single, ServiceLists)'
    BY <1>t, <2>1, <2>2, <2>3 DEF Typed
  <2>5. Tried'
    BY <2>3 DEF Tried
  <2> QED BY <2>4, <2>5 DEF ServicesInv
<1>2. CASE Services!First
  <2>1. Typed(Single, ServiceLists)' BY <1>t, <1>2 DEF Services!First, Typed
  <2>2. Tried' BY <1>t, <1>2 DEF Services!First, Tried
  <2> QED BY <2>1, <2>2 DEF ServicesInv
<1>3. CASE Services!Probe
  <2>1. step = "probe" /\ step' = "write" /\ warned' = (warned \/ answering' = {}) /\ own' = answers
        /\ UNCHANGED <<dns, redirect, resolv, nsswitch, choice, servers, hostResolve, answers, app, followed>>
    BY <1>3 DEF Services!Probe
  <2>2. answering' \subseteq {s \in Services!ToSet(servers) : Services!Sent(s) \in answers}
    BY <1>3 DEF Services!Probe
  <2>3. answering' \subseteq {servers[k] : k \in DOMAIN servers}
    BY <2>2 DEF Services!ToSet
  <2>4. Typed(Single, ServiceLists)'
    <3>1. warned' \in BOOLEAN BY <2>1
    <3> QED BY <1>t, <2>1, <2>3, <3>1 DEF Typed
  <2>5. answering' \subseteq own'
    <3>1. redirect = servers BY <1>t, <2>1 DEF Tried
    <3>2. \A s \in Services!ToSet(servers) : Services!Sent(s) = s
      BY <3>1 DEF Services!Sent
    <3> QED BY <2>1, <2>2, <3>2
  <2>6. Tried'
    BY <1>t, <2>1, <2>5 DEF Tried
  <2> QED BY <2>4, <2>6 DEF ServicesInv
<1>4. CASE Services!Truncate
  <2>1. step = "write" /\ step' = "fill" /\ resolv' = <<>>
        /\ UNCHANGED <<dns, redirect, nsswitch, choice, answering, warned, hostResolve, answers, app, own, followed>>
    BY <1>4 DEF Services!Truncate
  <2>2. OrderedFrom(servers, answering, servers')
    BY <1>t, <1>4, ServicesOrder DEF Services!Truncate, Typed
  <2>3. servers' \in Seq(Server) /\ servers' # <<>> /\ Names(servers') = Names(servers)
    <3>1. Len(servers') = Len(servers) /\ servers \in Seq(Server) /\ servers # <<>>
      BY <1>t, <2>1, <2>2 DEF Typed, OrderedFrom
    <3>2. Len(servers) # 0
      BY <3>1
    <3> QED BY <2>2, <3>1, <3>2 DEF OrderedFrom, Names
  <2>4. Typed(Single, ServiceLists)'
    <3>1. answering \subseteq {servers'[k] : k \in DOMAIN servers'}
      BY <1>t, <2>3 DEF Typed, Names
    <3>2. <<>> \in Seq(Server)
      OBVIOUS
    <3> QED BY <1>t, <2>1, <2>3, <3>1, <3>2 DEF Typed
  <2>5. ~warned => Head(servers') \in own
    BY <1>t, <2>1, <2>2 DEF Tried, Typed, OrderedFrom
  <2>6. Tried'
    BY <1>t, <2>1, <2>5 DEF Tried
  <2> QED BY <2>4, <2>6 DEF ServicesInv
<1>5. CASE Services!Fill
  <2>1. Typed(Single, ServiceLists)' BY <1>t, <1>5 DEF Services!Fill, Typed
  <2>2. Tried' BY <1>t, <1>5 DEF Services!Fill, Tried
  <2> QED BY <2>1, <2>2 DEF ServicesInv
<1>6. CASE Services!Nsswitch
  <2>1. Typed(Single, ServiceLists)' BY <1>t, <1>6 DEF Services!Nsswitch, Typed
  <2>2. Tried' BY <1>t, <1>6 DEF Services!Nsswitch, Tried
  <2> QED BY <2>1, <2>2 DEF ServicesInv
<1>7. CASE Services!Second
  <2>1. Typed(Single, ServiceLists)' BY <1>t, <1>7 DEF Services!Second, Typed
  <2>2. Tried' BY <1>t, <1>7 DEF Services!Second, Tried
  <2> QED BY <2>1, <2>2 DEF ServicesInv
<1>8. CASE Services!Save
  <2>1. step = "save" /\ step' \in {"launch", "idle"} /\ dns' = choice.list /\ followed' = ~warned
        /\ UNCHANGED <<redirect, resolv, nsswitch, choice, servers, answering, warned, hostResolve, answers, app, own>>
    BY <1>8 DEF Services!Save
  <2>2. Typed(Single, ServiceLists)' BY <1>t, <2>1 DEF Typed
  <2>3. Tried' BY <1>t, <2>1 DEF Tried, Typed
  <2> QED BY <2>2, <2>3 DEF ServicesInv
<1>9. CASE Services!Launch
  <2>1. step = "launch" /\ step' = "idle"
        /\ UNCHANGED <<dns, redirect, resolv, nsswitch, choice, servers, answering, warned, hostResolve, answers, own, followed>>
    BY <1>9 DEF Services!Launch
  <2>2. app' \in [Single -> [resolv : Words, nsswitch : Words]]
    <3>1. CASE UNCHANGED app BY <1>t, <3>1 DEF Typed
    <3>2. CASE ~UNCHANGED app
      <4>1. PICK b \in Single : app' = [app EXCEPT ![b] = [resolv |-> "ns", nsswitch |-> IF nsswitch THEN "ns" ELSE "host"]]
        BY <1>9, <3>2 DEF Services!Launch
      <4> QED BY <1>t, <4>1 DEF Typed, Words
    <3> QED BY <3>1, <3>2
  <2>3. Typed(Single, ServiceLists)' BY <1>t, <2>1, <2>2 DEF Typed
  <2>4. Tried' BY <1>t, <2>1 DEF Tried
  <2> QED BY <2>3, <2>4 DEF ServicesInv
<1>10. CASE Services!Crash \/ Services!Network
  <2>1. /\ step' \in {step, "idle"} /\ answers' \subseteq Server
        /\ UNCHANGED <<dns, redirect, resolv, nsswitch, choice, servers, answering, warned, hostResolve, app, own, followed>>
    BY <1>t, <1>10 DEF Typed, Services!Crash, Services!Network, Services!Event
  <2>2. Typed(Single, ServiceLists)' BY <1>t, <2>1 DEF Typed
  <2>3. Tried' BY <1>t, <2>1 DEF Tried
  <2> QED BY <2>2, <2>3 DEF ServicesInv
<1>11. CASE Services!Teardown
  <2>1. Typed(Single, ServiceLists)'
    <3>1. /\ step' = "idle" /\ dns' = None /\ redirect' = <<>> /\ resolv' = <<>> /\ nsswitch' = FALSE /\ followed' = FALSE
          /\ UNCHANGED <<choice, servers, answering, warned, hostResolve, answers, app, own>>
      BY <1>11 DEF Services!Teardown
    <3>2. <<>> \in Seq(Server)
      OBVIOUS
    <3> QED BY <1>t, <3>1, <3>2 DEF Typed
  <2>2. Tried' BY <1>t, <1>11 DEF Services!Teardown, Tried
  <2> QED BY <2>1, <2>2 DEF ServicesInv
<1>12. CASE Services!ReplaceResolv \/ Services!ReplaceNsswitch \/ \E a \in Single : Services!Quit(a)
  <2>1. /\ hostResolve' \in BOOLEAN
        /\ UNCHANGED <<dns, redirect, resolv, nsswitch, step, choice, servers, answering, warned, answers, own, followed>>
    BY <1>t, <1>12 DEF Typed, Services!ReplaceResolv, Services!ReplaceNsswitch, Services!Event, Services!Quit
  <2>2. app' \in [Single -> [resolv : Words, nsswitch : Words]]
    <3>0. \A r \in [resolv : Words, nsswitch : Words] :
              /\ [r EXCEPT !.resolv = "host"] \in [resolv : Words, nsswitch : Words]
              /\ [r EXCEPT !.nsswitch = "host"] \in [resolv : Words, nsswitch : Words]
      BY DEF Words
    <3>1. CASE Services!ReplaceResolv
      <4>1. app' = [a \in Single |-> IF Services!Runs(a) THEN [app[a] EXCEPT !.resolv = "host"] ELSE app[a]]
        BY <3>1 DEF Services!ReplaceResolv, Services!Detach
      <4> QED BY <1>t, <3>0, <4>1 DEF Typed
    <3>2. CASE Services!ReplaceNsswitch
      <4>1. app' = [a \in Single |-> IF Services!Runs(a) THEN [app[a] EXCEPT !.nsswitch = "host"] ELSE app[a]]
        BY <3>2 DEF Services!ReplaceNsswitch, Services!Detach
      <4> QED BY <1>t, <3>0, <4>1 DEF Typed
    <3>3. CASE \E a \in Single : Services!Quit(a)
      BY <1>t, <3>3 DEF Typed, Services!Quit, Services!NotRunning, Words
    <3> QED BY <1>12, <3>1, <3>2, <3>3
  <2>3. Typed(Single, ServiceLists)' BY <1>t, <2>1, <2>2 DEF Typed
  <2>4. Tried' BY <1>t, <2>1 DEF Tried
  <2> QED BY <2>3, <2>4 DEF ServicesInv
<1>13. CASE Services!Bind \/ Services!SetDns
  BY <1>1, <1>13 DEF Services!Bind, Services!SetDns
<1> QED
  BY <1>2, <1>3, <1>4, <1>5, <1>6, <1>7, <1>8, <1>9, <1>10, <1>11, <1>12, <1>13
  DEF Services!Next, Services!Configure

LEMMA ServicesClaims == ServicesInv => Services!TypeOK /\ Services!BestFirst
<1>1. Typed(Single, ServiceLists) => Services!TypeOK
  BY DEF Typed, Services!TypeOK, Services!Steps, Services!ToSet, Words
<1> QED BY <1>1 DEF ServicesInv, Tried, Services!BestFirst

-----------------------------------------------------------------------------
(* Both *)

LookupsInv == IF part = "services" THEN ServicesInv ELSE FilesInv

LEMMA LookupsStay == ASSUME UNCHANGED <<part, lookups>>, LookupsInv PROVE LookupsInv'
<1>1. UNCHANGED <<part, dns, redirect, resolv, nsswitch, step, choice, servers, answering, warned,
                  hostResolve, answers, app, events, own, followed>>
  BY DEF lookups
<1>2. CASE part = "services"
  BY <1>1, <1>2 DEF LookupsInv, ServicesInv, Typed, Tried
<1>3. CASE part # "services"
  BY <1>1, <1>3 DEF LookupsInv, FilesInv, Typed, Working, Mounted, Written, Files!Runs, Files!NotRunning
<1> QED BY <1>2, <1>3

\* Lookups stay on the servers of the namespace, also between two steps, after
\* failures and crashes and when the host replaces its resolv.conf, and a
\* configuration without a warning is followed by what runs; without a warning the
\* first server has answered the probe itself, also when nsswitch.conf is replaced
\* (configure_namespace_dns, order_dns_servers, dns_redirect_restore).
THEOREM LookupsAlwaysFollow == PlumbingSpec => []LookupsFollow
<1>1. PlumbingInit => LookupsInv
  BY FilesInit, ServicesInit DEF PlumbingInit, LookupsInv
<1>2. ASSUME LookupsInv, [PlumbingNext]_<<part, vars, lookups>> PROVE LookupsInv'
  <2>1. CASE part = "namespace" /\ UNCHANGED <<part, lookups>>
    BY <1>2, <2>1, LookupsStay
  <2>2. CASE part = "files" /\ Files!Next /\ UNCHANGED part
    BY <1>2, <2>2, FilesStep DEF LookupsInv
  <2>3. CASE part = "services" /\ Services!Next /\ UNCHANGED part
    BY <1>2, <2>3, ServicesStep DEF LookupsInv
  <2>4. CASE UNCHANGED <<part, vars, lookups>>
    BY <1>2, <2>4, LookupsStay
  <2> QED BY <1>2, <2>1, <2>2, <2>3, <2>4 DEF PlumbingNext
<1>3. LookupsInv => LookupsFollow
  BY FilesClaims, ServicesClaims DEF LookupsInv, LookupsFollow
<1> QED BY <1>1, <1>2, <1>3, PTL DEF PlumbingSpec

=============================================================================
