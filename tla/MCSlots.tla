------------------------------ MODULE MCSlots ------------------------------
(* Instances of Adoption for TLC in which adoptions share slots.           *)
EXTENDS AdoptionProps, TLC

\* Interfaces, groups and processes are interchangeable.
SlotSymmetry == Permutations(Iface) \cup Permutations(Group) \cup Permutations(Pid)

\* Two scenes: one process that comes and goes between two interfaces, with a
\* crash, reboot or loss at any step; and two processes that fork on one
\* interface, with none of these.  The watcher, whose pass begins like that of
\* teardown-idle, stays away.
VARIABLE scene
Scenes ==
    [iface : {Iface}, pid : {{p} : p \in Pid}, faults : {MaxFaults}]
        \cup [iface : {{i} : i \in Iface}, pid : {Pid}, faults : {0}]

Within ==
    /\ watch = {}
    /\ up \cup scene.iface = Iface
    /\ \A a \in records \cup {job.for} : a = NoRecord \/ a.iface \in scene.iface
    /\ \A p \in Pid \ scene.pid : ~Alive(p)
    /\ faults <= scene.faults

SlotsSpec ==
    /\ Init /\ scene \in Scenes
    /\ [][Next /\ UNCHANGED scene /\ Within']_<<vars, scene>>
=============================================================================
