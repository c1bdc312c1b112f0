# InterMux in TLA+

InterMux starts applications on a network interface of the user's choice. On Linux it gives the
interface a network namespace with a veth pair, a /24 subnet, a NAT rule and a policy route, and
launches the application inside. Applications that already run can be adopted through a cgroup. On
Windows it points them at a local SOCKS proxy bound to the adapter. This directory holds a TLA+
specification of the parts where order, failure and concurrency matter, model-checked with TLC and,
for those that work as root on the kernel and the state file, proved with TLAPS.

## Inventory

| part | state it keeps | operations | hard behaviour | what makes it correct |
|---|---|---|---|---|
| binding lifecycle (`engine.py`, `watch.py`, `system/procs.py`) | namespaces, veths, rules, processes | bind, restart, move, remove, teardown-idle, reset, set DNS and limit | applications fork, hand off and exit at any time; the watcher decides without the lock; the helper or the machine dies between two commands; removals fail | what runs stays routed; what exists can be found; what is idle is reclaimed |
| state file (`state.py`) | `state.json`, its lock | load, save, quarantine | lock-free readers, unreadable files, power cuts, edits | a good file is never lost; it behaves as one register |
| adoption (`engine.adopt`, `system/adopt.py`) | cgroups, slots, nftables, policy tables, records | adopt, release, refresh, sweep | processes fork while they are moved; helper dies half way; release leaves members | members always have their policy; slots are unique |
| policy routing (`system/routing.py`, `engine.refresh_routes`) | ip rules and tables | ensure, refresh, remove | a link goes down and up in the middle; the kernel drops routes silently | no packet of a bound application leaves by another interface |
| firewall (`system/firewall.py`) | NAT and forward rules, trusted zone | ensure, check, remove | firewalld reloads | put back while needed, gone after |
| namespaces and links (`system/netns.py`) | a namespace, a pair of links | add, move, set up, delete | a kill between two commands; a process that enters late; one that outlives the name | the pair is whole at a launch; nothing unrecorded is left |
| name servers (`engine.configure_namespace_dns`, `dnsconf.py`, `netns.py`) | redirect, `resolv.conf`, `nsswitch.conf`, mounts | choose, probe, redirect, write | a step fails between two others; the host replaces its files under the mounts | lookups stay inside; the list announced is the list used |
| subnet pool (`subnets.py`) | none of its own | pick | records that were lost | distinct subnets |
| helper and protocol (`helper/*`) | one request at a time | check, lock, run, answer | prompts nobody answers, timeouts, interrupts, one item of a batch that fails | the answer is what happened; requests are not mixed |
| command line (`cli.py`) | none | every command | the world changes between a question and its answer | nothing is closed or removed without consent; exit code 0 is true of what the command found |
| window and worker (`ui/app.py`, `ui/worker.py`) | queue, running jobs, snapshot, table | queue, start, request, refresh, select | dialogs run the event loop inside a handler; results arrive after the world changed | one request at a time; the table follows and never goes back |
| Windows proxies (`windows/core/*`, `windows/gui/app.py`, `windows/cli.py`) | proxy per address | launch, stop all, relay | several launcher threads without a lock; late start; half-closed relays | traffic leaves by the adapter or is refused; one proxy per address |
| the rest: rates, widgets, parsing, packaging, website, bug report, VPN window | none that persists | | | not modelled, see below |

The parts meet in the state file and the kernel. The helper (root, one process per request of the
window or the command line) and the watcher (root, a service that wakes every three seconds) both
take `state_lock` around load, change and save. The watcher first looks without the lock
(`needs_teardown`), as do the window's readings of the state. Applications know of none of this:
they start, fork, hand off to another process and exit when they like.

## Modules

| module | what it is |
|---|---|
| `Leases` | abstract: a subnet is leased to one interface, and a lease is not revoked while a process depends on it |
| `Bindings`, `BindingsProps` | the binding lifecycle: state file, kernel, processes, the operation that holds the lock, the watcher, crashes and reboots; the refinement of `Leases` |
| `Adoption`, `AdoptionProps` | cgroups, slots, nft tables and policy of applications that already run, links that flap, the watcher |
| `Routing`, `RoutingProps` | rule, table, kill switch, NAT, forwarding and trusted zone, command by command, while links and firewalls change |
| `Namespaces` | one namespace and its pair of links, command by command |
| `Dns` | the name servers of one namespace, step by step, and the mounts in its applications |
| `StateCell` | abstract: one register that operations change one at a time and a power cut may set back |
| `StateFile` | load, save by rename, quarantine, lock, readers without it; the refinement of `StateCell` |
| `Helper`, `HelperProps` | the calls of the helper: prompt, check, lock, operations, answer, timeout |
| `Protocol` | the validation of a request, and what the helper reads of it |
| `Cli`, `CliProps` | one run of the command line |
| `Window`, `WindowProps` | the handlers, dialogs, queue, requests, snapshots and timers of the main window |
| `Tables`, `TablesProps` | its table: rows, selection, buttons, form |
| `Proxies`, `ProxiesProps` | Windows: the registry of proxies, launches, Stop All, the end of the program |
| `Socks` | Windows: the handshake and the relay of one connection |
| `MCBindings`, `MCAdoption`, `MCSlots`, `MCRouting`, `MCPlumbing`, `MCStateFile`, `MCCalls`, `MCDesktop`, `MCWindows` | instances for TLC |
| `Bindings_proofs`, `Adoption_proofs`, `Routing_proofs`, `Plumbing_proofs`, `StateFile_proofs`, `Calls_proofs`, `Desktop_proofs`, `Proxies_proofs` | theorems and proofs |

How they fit together. `Bindings` treats building and removing as a step that succeeds, fails or
stops half way; `Namespaces`, `Routing` and `Dns` open that step up into its commands, for one
interface or two, and show what `Bindings` assumes of it: whatever was left behind, the next bind
finishes it, and a removal that is recorded has removed everything. `StateFile` justifies that
`Bindings` and `Adoption` change the records in one step. `Adoption` shares the lock and the file
with `Bindings` but no kernel object (an adopted process is in the host's namespace,
`filter_host_netns`). `Helper` shows that requests reach the engine one after the other, `Protocol`
that they are well formed, `Cli` and `Window` what their users may expect. `Proxies` and `Socks`
are the Windows edition, which shares no code with the rest.

### `Bindings` and the code

State. `subnets`, `bindings` and `settings` are `State.namespaces`, `State.bindings` and
`State.dns` with `State.limits`. `ns`, `veth`, `nat`, `rule` and `table` are the pieces
`_bind_plumbed` builds and `_teardown_plumbing` removes; a namespace has a name derived from its
interface, a subnet is named by its index in the pool. `proc` is `/proc`: where a process runs,
its application and its parent. `pc` and `job` are the one operation that holds `state_lock`; the
lock is taken with the request and dropped with `Release`.

Actions. Each operation begins with a request (`BindRequest`, `RestartRequest`, `MoveRequest`,
`RemoveRequest`, `ResetRequest`, `TeardownRequest`, `WatchTeardown`) and continues with a step
wherever something else can happen in between: waiting for processes to exit (`Closed`,
`NotClosed`), building (`Plumb`), launching (`Launch`, `LaunchFails`), looking after `LAUNCH_WAIT`
(`RecordBinding`, `LaunchExited`), clearing up (`Rollback`, `DropMoved`), looking at one binding
(`Examine`) or one interface (`SweepIface`) at a time, surveying and wiping (`Survey`, `Reset`).
Applications launch on the host, fork and exit between any two of these steps, and `WatchCheck`
reads the state file without the lock.

Abstractions, and why they lose nothing the properties look at:

* A build is a prefix of the pieces in their order; a removal is any subset of the pieces, since
  `_teardown_plumbing` attempts every step and raises the first failure at the end. It raises only for
  what tells it (`Reported`): that the NAT rule (`firewall.py:141`) or the `ip rule`
  (`routing.py:197`) did not come off goes unnoticed, and the record goes (`engine.py:537`).
  `TeardownFails` and `FailingPieces` say where and what may fail. A removal is one
  step: nothing else acts on those pieces under the lock, and a death in the middle is
  `CrashInTeardown`, which leaves any subset behind.
* A request that is refused changes nothing, so it is no step. A batch is a sequence of requests.
* `stop_app` and `kill_app` only make processes exit, which processes may do at any time.
* The profile modes of restart and move are a policy: a separate profile lets a second copy run.
* The uid filter of `terminate` is one reason among others why a process survives it.
* The order of the interfaces in a pass is any order, the order of the bindings likewise.
* Resolver files, the trusted zone and `ip_forward` are in `Dns` and `Routing`; applying limits has
  no bearing on who is routed or recorded.
* A save that fails is a `Crash`: the operation ends, the disk is as before.
* A launched process is in its namespace from the launch on. The code grants it `LAUNCH_WAIT`; one
  that enters later is in `Namespaces`.

`orphans` is the one history variable: the pieces whose removal failed while their record went all the
same (in silence, or in a rollback or a move, which drop the record whatever came of it), the
tables that reset overlooks, and what a lost state file named.

### `Adoption` and the code

State. `records` is `State.adoptions`; the id, mark, table and priority of a record follow from its
group and slot. `member` is the cgroup of each process, `groups` the directories under
`intermux/`. `nft[s]` is the table `intermux_adopt<s>`: which group it marks, and the interface it
masquerades on. `rule`, `route` and `fallback` are the fwmark rule of a slot, the default of the
interface in its table (metric 100) and the unreachable default behind it (metric 1000). `up` is
the kernel's view of the links.

Actions. `AdoptRequest` lists the processes, picks the slot and makes the group; `Join` moves one
process; `SetPolicy`, `Mark` and `Save` follow in the order of `adopt`. `Undo` is its `rollback`.
A release (`List`, `Eject`, `Ejected`, `Strip`, `Unmark`, `Released`) is one sequence of steps for
`release_adoption`, `reset`, `teardown_idle` and, with marks before policy, the rollback; `job.op`
says whose it is. `ResetMarks` and `ResetSweep` remove what no record names. `WatchCheck` looks
without the lock; `Idle`, `IdleDone` and `Refresh` are its pass. Between any two of these steps
processes start, fork into the group of their parent and exit, and links go down and up.

Abstractions:

* There is one user; "the processes of the application" are any set of live processes that no
  adoption has yet. Processes in a namespace of InterMux are not among them.
* `listed` holds the processes that are still the ones listed: the comparison of start times. A group
  that cannot be read counts as empty where the code takes it so (`ReadMembers`), and each move out of
  a group may fail by itself (`Eject`).
  Listing is one step, and a number is not reused between the read of `cgroup.procs` and the write.
* The IPv6 rules and tables are built and removed next to the IPv4 ones and only reject; they are
  left out, and so are `src_valid_mark`, conntrack entries, gateways (a changed one is a table that
  is not as it should be) and the exemption of DNS from the marks.
* `apply_policy` and `remove_policy` are one step each, cut short after any prefix when a command
  fails; a link may still go down before and after them.
* A save that fails is a `Crash`, but for the one of `adopt`, which is rolled back.
* `refresh_routes`, which comes first in a pass, may raise: then no adoption is refreshed (`Found`).
* `MayFail` names what may fail: commands, and the listing of nft tables, which `kernel_slots` takes
  for an empty list. With the listing failing after the state was lost or a rollback failed,
  `MarksLeadHome` does not hold; that is the best effort the comment in the code speaks of, and
  the runs keep the two apart.

`letGo` is a history variable: the groups InterMux has begun to release.

### `Routing` and the code

State. `rule` and `table` are what `ip rule` and `ip route show table` list for each subnet: the
subnet on the veth, the default by the interface, the unreachable default behind it, and a default
that an older version left (`StrayRoutes`). `filter` holds the three rules of `nat_rules`, `trusted`
firewalld's zone, `link` the gateway of an interface that `is_bindable` accepts. Interface, subnet
and table number are one name, as `Bindings` shows subnets to be distinct.

Actions. A bind runs `ensure_veth`, `enable_forwarding`, `ensure_nat`, `trust_veth`, the five commands
of `ensure_policy` and the launch; a refresh (`RefreshRequest`) reads the links once, works on what
it read, and for each interface looks (`Look`) and rebuilds. A command that raises rolls a bind back
and makes a refresh go to the next interface (`Raise`). `Teardown` is `teardown_idle` for one
interface. It may happen or not: when it is due is decided by `needs_teardown`, which `Bindings`
models, and that it comes in the end is `IdleIsReclaimed` there. Links go, come and change gateway, firewalls are reloaded, and the helper dies between
any two commands. `due` is the watcher's minute, which is noted before the refresh is made.

Abstractions: removal is any subset of its steps, as in `Bindings`, and in `Failing` are those that may
fail; IPv6 only rejects and is left out;
which back end lists the rules does not matter. `Egress` is what the kernel does with a packet of the
subnet: the rule's table, the lowest metric first, else the main table.

### `Namespaces` and the code

State. One namespace and its pair: whether the name exists, where the far end is (`"lost"`: in a
namespace that has no name left, kept by a process in it), which ends are set up, and the processes
that are on their way in, inside, or inside without a name. Actions are the commands of
`ensure_namespace`, `ensure_veth` and `_teardown_plumbing`, each of which may fail, with `Crash` and
`Reboot` between them; `Enter` and `Exit` are the launched process. The existence checks of
`ensure_veth` are the guards. `strand` is a history variable.

### `Dns` and the code

State. `state.dns`, the list the redirect of the namespace was loaded with, its `resolv.conf` and
`nsswitch.conf`, the step and local variables of `configure_namespace_dns`, and for each application
whether its mounts are those of the namespace or of the host. A server answers or not. The probe goes
through the first redirect, so that an answer may be another server's; `own` is the history variable
that tells them apart. Actions: a bind saves the list it was given before it builds anything and begins the
configuration then, `set_dns` saves it at the end; `Configure` is its seven steps, `Crash` ends it anywhere, and the host replaces either file, which detaches the mount.

### `StateFile` and the code

State. The text at the path and whether it is on the disk, what a power cut would leave there, the
writers' temporary files, the files moved aside, the lock, and for each process its step, the text it
has read and the state it has in memory. `Faults` names what may go wrong: a write (a full disk), the
process, the power, a read (an `OSError`), an edit by hand (`Damage`).

Actions. `state_lock` and `load_state` are `Lock`, `Read`, `Parse`, `Quarantine`; `save_state` is
`MakeTemp`, `Write`, `Sync`, `Rename`, with `WriteFails` and `Unlink`; an operation may save more than
once (`Change`). Contents are sets of entries; an entry names the check of `state_from_dict` that it
fails, if any, so that `Loaded` says which are dropped and which repaired.

### `Helper` and `Protocol` and the code

`Helper`: a client calls (`subprocess.run` with its timeout), the user grants or denies or never
answers, the helper checks the request, takes the lock, runs the operations in order and answers.
`status` runs without the lock, a batch holds it from its first to its last operation and goes on
after one that is refused. Timeout, Ctrl-C, a killed client and a killed helper may come at any step.
`log` is the history of what ran.

`Protocol`: requests are what the clients can send, with every parameter left out, right, or wrong in
a way its validator tells apart. `ValidateRequest` is `validate_request`, `_validate_spec` and
`_v_ops` with the tables of actions as they are in the source; `Reads` is what `server.py` takes of
the result.

### `Cli` and the code

One command, from `parse` to its exit code, on a world of instances, records and adoptions that may
change once at any step (`Meanwhile`). `Resolve` is `_resolve_app` with its fallback to records;
`Confirm`, `Ask` and `Choice` the prompts, on inputs that end early or make no sense; `Call` what the
helper does to the world, in one step; `ExitCode` the code the report returns. Ctrl-C is `Interrupt`.
To `kill`, the helper looks for an application by the name of its processes alone (`Findable` holds the
applications that bear it; a wrapper's processes do not); to `stop`, also by what descends from the last
launch, and where it is the only one bound it takes the whole namespace. It may find none and say
that all went well. What `reset` tells is about recorded bindings only.

### `Window` and `Tables` and the code

`Window`: the main loop runs one handler at a time, but a dialog runs it again inside the handler:
`stack` holds the handlers that wait. `_on_assign` plans the queue item by item, with a question that
may come for each; `_run_mutation` locks the buttons and submits; threads read the state or call the
helper and put their results into the queue of `Worker`; `Worker._poll` delivers. `_auto_refresh_tick` asks for a
snapshot when none is under way. Items can be added, removed and cleared between.

`Tables`: `ActiveRows` is `active_rows`, which puts the `Group` of each interface after that of the one
before it in the order of their names (interfaces are numbered in that order); `Prune`, and `Place` once
for each row, are `_sync_tree` on a widget that keeps an order, and a memory of what was written to save
writing it again; `Chosen`, `Kept` and `RowButtons` are what hangs on the selection: form, public
addresses, buttons. How long a row keeps the address it was given is left out.

### `Proxies` and `Socks` and the code

`Proxies`: `get_or_start` is four steps (look, create and start, wait up to ten seconds, store) in
the thread of each launch, and Assign All starts a thread for each entry and waits for none; `stop_all` iterates over the dictionary, which raises when another thread
changes it. A server's thread listens late or not at all (`slow`). `user` is who drives it: somebody
who clicks at any moment; a patient user, who never has two launches on one adapter under way (in the
queue of one Assign All either) and lets launches end before Stop All, but has launches on several
adapters race; or the command line.

`Socks`: the handler reads greeting, request and address, connects within fifteen seconds, and starts
the relay of each direction as a task. Peers send chunks, end their side, vanish or stop reading at any moment.
The reply of success is written before the clause that closes the connection to the destination
(`proxy_engine.py:204`), so that it may raise and leave that open.

## Runs

| run | instance | properties |
|---|---|---|
| `bindings_watch` | 1 interface, 2 applications (one without a process name of its own), 2 process numbers, fairness, 1 crash, reboot or loss of the state file | `RecordsConsistent`, `BusyKeepsBinding`, `IdleIsReclaimed` |
| `bindings_faults` | 2 interfaces, 1 application, 1 process number, of removals on one interface the NAT rule's and the namespace's may fail, 1 crash or reboot | `DistinctSubnets`, `Recoverable`, `RunningIsRouted`, `KeepsPromise` (refines `Leases`), `ResetKeepsBusyPlumbing` |
| `adoption_slots` | 2 groups, 2 slots, any command may fail, in two scenes: 1 process, 2 interfaces, 1 crash, reboot or loss of the state; and 2 processes that fork, 1 interface | `SlotsDistinct`, `RoutedOrBlocked`, `MarksLeadHome`, `NeverStolen` |
| `adoption_watch` | 2 interfaces, 2 process numbers, 1 group, fairness, listing of nft tables may fail, 1 fault | `RoutedOrBlocked`, `RouteReturns`, `EmptyIsReleased` |
| `routing_links` | 2 interfaces, 2 gateways, every command that builds may fail, 3 faults | `RoutedOrBlocked`, `NothingLeft` |
| `routing_returns` | 1 interface, 2 gateways, fairness, 2 faults, reading the links may fail | `ConnectionReturns` |
| `plumbing` | `Namespaces`: every command may fail, 3 faults. `Dns`: 3 servers, 2 applications, 2 events; and 1 application with more lists and a host that replaces `nsswitch.conf` too | `LinkedWhenLaunched`, `LostOnlyByFailure`, `ForgottenIsGone`; `LookupsFollow` |
| `state_file` | 2 writers, a reader of root, failing writes, kills and power cuts, 2 faults; and a file that is edited or cannot be read, with the same reader of root and one of a user | `NeverTorn`, `IsOneCell` (refines `StateCell`); `EditedIsSafe` |
| `calls` | `Helper`: a window, a terminal and a root shell, 2 calls. `Protocol`: every choice of parameters, batches of up to 3. `Cli`: 2 binaries, one whose processes do not bear its name, 2 interfaces, 1 change by others, every command | `AnswersAreTrue`, `EverythingReturns`; `RequestsChecked`; `DoesAsAgreed` |
| `desktop` | `Window`: 2 items, 2 threads, 1 dialog in another handler, 2 changes of the state, 1 failing reading. `Tables`: 2 interfaces, 2 applications, 2 adoptions, in three scenes | `OneAtATime`, `QueueKept`, `TablesFollow`, `AssignEnds`; `TableIsTrue`, `ChoiceKept` |
| `windows` | `Proxies`: 2 adapters, 2 launches, 1 proxy that is late or cannot listen. `Socks`: 2 chunks each way, peers that stop reading | `ExitsByAdapter`, `RegistryTrue`; `RelayIsRight`; `EverythingEnds` of both |
| `bindings_lost` | as `bindings_faults`, with a state file that may be lost | `ResetKeepsBusyPlumbing`, which the code does not keep then |

A run whose instance names several modules checks them side by side: `part` says which of them
moves, the others stand still. They share no variable, so that a state or step of all is one of each,
and a property of one is violated by a behaviour of all if and only if it is by one of its own. What
stands still has no fair step enabled, so fairness asks nothing of it.

Most properties are conjunctions, each of whose parts is defined and explained by itself where the
property is; they say together what a user of the part may rely on.

Bounds, and why they are enough. Two applications on one interface are what it takes to share a
namespace; two process numbers let a launcher and its child exist at once and numbers be reused. Two
interfaces are what a move, a clash of subnets and a refresh that comes to a second interface need.
One fault suffices to interrupt an operation at any step, and the next operation then meets what it
left; `Routing` and `Namespaces` have more, so that a failure comes on top of a flap or of what
another failure left. Two slots and two groups let what one adoption left behind meet the next; the second process is
the child that is forked during a release, or the stranger that gets a listed number. In
`StateFile` two writers are what a lost update needs, and two faults a torn file under a second write.
In `Dns` three servers let the old list, the new one and the gateway differ. In `Helper` two calls are
what it takes to be mixed; in `Window` two threads let a reading overtake a request, and one dialog is
what a handler waits in, since it takes the input: only timers and results are served under it, and handlers nest
no further unless a dialog fails to take the input (`MayNotGrab`, which the run leaves out; see
`OneRequest` below); in `Proxies` two launches are what the registry
needs to be looked at twice before it is written. In `Socks` the second chunk is read when
the first has been delivered, or arrives while it is written. Proofs, where there are, cover all sizes.

Symmetry is used where interfaces, process numbers, gateways or applications are interchangeable and
no property of the run is a liveness property. Deadlock is not looked for in `calls`, `desktop` and
`windows`: a command ends, a window is closed, a connection is over.

Fairness, and what in the code justifies it.

* `Bindings`, `Adoption`, `Routing`: an operation that holds the lock goes on (its commands have
  timeouts); the watcher's loop keeps checking (`watch.run`, every three seconds); a watcher that
  waits for the lock gets it if it is free again and again (`flock` queues its waiters), hence strong
  fairness; minutes pass. Nothing is assumed of applications, links or users, nor of `Teardown` in `Routing`.
* `Window`: timers that are due are served again and again when the event loop runs (`after`), also
  inside dialogs, hence strong fairness for `Tick` and `Poll`; threads run and their calls return (the
  client has a timeout); a handler without a dialog ends. Users need not answer dialogs.
* `Proxies`: threads run, the message boxes are answered, and a server that is starting either
  listens or stays dead; `CommandReturns` needs no more, as the wait for a server ends by itself.
* `Socks`: the event loop runs what is ready; the attempt to connect ends. Peers need do nothing: a
  chunk is written, and a closed transport flushed, only if the peer reads, as `drain` waits for it.
* `Helper`: helper and client's clock run; the lock is strongly fair. Nobody answers the prompt.
* `Cli`: the command's own steps.

## What the code does not keep

These definitions state what a comment, a document or a plain expectation says of the program and
TLC refutes on the instance given. The first is a run; the others are found again by checking the
definition in place of the run's properties.

Linux, as root:

* `ResetKeepsBusyPlumbing` with a lost state file (run `bindings_lost`; `engine.py:617`): reset keeps
  the namespace and veth of a busy namespace it has no record of, but removes its rules.
* `CheckMissesNothing` (`bindings_watch`; `watch.py:47`): `needs_teardown` looks at namespaces,
  `teardown_idle` at process trees. While one of two applications keeps a namespace busy, the binding
  of the other stays after it has exited.
* `OnlyEmptyBindingsDropped` (`bindings_watch`; `engine.py:525`): conversely, a pass drops bindings of
  namespaces that still have processes, against `SECURITY.md`.
* `AlwaysRecoverable` (`bindings_faults`; `engine.py:199`, `:537`): a rollback whose removal fails
  forgets the interface all the same, and so does any removal when it is the NAT rule or the `ip rule` that
  does not come off (`firewall.py:141`, `routing.py:197`). `Recoverable` is the same but for `orphans`:
  just these pieces, and no others, may exist without a record.
* `OthersReclaimed` (`bindings_faults` with fairness; `engine.py:537`): while one removal fails, the
  pass ends there and later interfaces wait, against the README.
* `NobodyStranded` (`plumbing`; `engine.py:535`): a process that enters its namespace after the look
  and before the removal of the name is left in a namespace without one.
* `RoutedOrBlocked` of `Routing` with `"stray"` in `Failing` (`routing.py:182`): while the kernel does
  not let a stray default be deleted, packets follow it.
* `NothingLeft` of `Routing` with `"unnat"` in `Failing` (`firewall.py:141`): a NAT rule that cannot be
  deleted is passed over and the record goes.
* `BestFirst` with `"first"` in `Failing` (`engine.py:63`): when the first redirect fails, the probe
  goes through the old one, and a server of the old list answers for one of the new.
* `KeptInside` and `Follow` where `nsswitch.conf` is replaced (`netns.py:230`): the mount is gone, the
  host's file asks systemd-resolved first, and lookups leave the namespace.
* That only bad files are moved aside (`state.py:320`): a reader of root without the lock, such as the
  watcher, which has read a bad file moves what is at the path by then, which may be the good one a
  writer has just saved. `OnlyInvalidMoved` claims of such a reader only that what it read was bad, and
  of an operation, under the lock, that what it moves is too.
* `TimeoutIsSaid` (`calls`; `helper/client.py:53`): the helper that `pkexec` became belongs to root, so
  that the kill after the timeout raises; leaving `subprocess.run` then waits for the helper to end, and
  "could not start helper" is told, not "did not respond within".
* That exit code 0 means that nothing is left (`cli.py:627`, `engine.py:291`, `:303`): `reset` says
  nothing of a namespace that was kept because something runs in it which no binding records; `kill`
  finds nothing of an application whose processes do not bear its name; nor does `stop` when others share
  the namespace, or it misses what an earlier launch left there. `ZeroMeansDone` is about what they find.

The window:

* `OneRequest` with `MayNotGrab` (`ui/app.py:309`): when a dialog cannot take the input, a second
  request can be made under it.
* `SelectionSurvives` (`ui/app.py:375`): rows of the queue are named by their place, so when started
  items leave it the selection is of another item.
* A refresh asked for while a snapshot is under way is dropped (`ui/app.py:1069`): the table is stale
  until the next timer; that it is not for ever is `TablesFollow`.
* `OwnProcesses` (`ui/app.py:65`): a row of a binding shows the processes of the whole namespace, the
  other applications' included, where the README speaks of "its" PID.

Windows:

* `OnePerAdapter` and `RegistryLive` without the condition `Patient` (`proxy_engine.py:276`, `:285`): two
  launches on one adapter both find no proxy, and a single Assign All of two entries is enough, as it
  starts a thread for each (`windows/gui/app.py:434`, `:495`); `stop_all` ends while a launch registers a proxy, or
  raises half way because the dictionary changed.
* `ExitsByAdapter` with `Reuse` (`proxy_engine.py:104`): the port of a stopped proxy may be handed to
  another adapter's, and an application that still runs leaves by that.
* `StopMeansDefault` (`windows/gui/app.py:509`): after Stop All running applications are refused; they
  do not use the default interface as the question says.
* `StaysAssigned` (`windows/cli.py:120`): `assign` returns, its process ends, and the proxy with it.
* `FirefoxIsBound` (`platform_utils.py:206`): the values in `user.js` are written bare; the line of the
  host, `user_pref("network.proxy.socks", 127.0.0.1);`, is no preference, and Firefox has no proxy.
* `AnswerArrives` (`proxy_engine.py:253`): the end of one direction closes the other; a client that
  has sent all it has, and waits, loses the rest of the answer.
* That both connections are always closed: the one to the destination stays open when the client is gone
  before the reply of success (`proxy_engine.py:204`), and both do while a peer does not read
  (`:248`). `BothClosed` names these cases.

## Proofs

The theorems are about `Spec` of the module they extend, for any sets of interfaces, applications,
processes, groups, subnets, slots, gateways, writers and entries, any number of faults, and under the
assumptions that the modules name: numbers are numbers, null values are none of the values, texts that
are not the state differ from those that are.

* `Bindings_proofs`: `Typing`. `TypeOK` is not inductive: what an operation builds and records is
  well typed because it was asked for an interface and has saved a subnet before it builds (`JobOK`).
  `SubnetsDistinct`, `BindingsConsistent`, `SettingsForgotten` and, together, `RecordsAgree`: the
  inductive invariant `RecordInv` adds what a pass keeps in memory (`PassOK`): it only drops bindings,
  and it keeps none on an interface it tore down. `AlwaysFound` is about
  every piece that is not in `orphans`, whichever removals fail. It adds to `RecordInv` that
  what a pass tore down and has not recorded is gone from the kernel or an orphan (`FindInv`); that reset keeps no
  rule of an interface it forgets follows from distinct subnets. `BusyKeepsOne` rests on `KeepInv`: of
  what a pass has left of a busy interface's bindings there is always one.
  `RunningRouted`, `ResetSpares` and `PromiseIsKept` are for a state file that is not
  lost (`~MayLoseState`; run `bindings_lost` shows that the second needs it). `RouteInv` says that a
  launch only happens in complete plumbing, that what a pass has torn down is empty and stays so, and
  that reset keeps every namespace something runs in. The refinement maps records to leases and
  processes in a namespace to tenants.
* `Adoption_proofs`: `Typing`; `SlotsNeverShared`, from `Fresh`: an adoption in progress, or its
  rollback, has a slot and a group that no record has; `NobodyStolen`, from `ListedAreFree`: what is
  listed and still the process listed is in no group. `AlwaysRoutedOrBlocked`: `OperationInv` says
  which record an operation is about
  and that a release, also one of a reset, has begun before anything is taken away; with distinct
  slots nothing else loses its rule, table or marks. `BuiltInv` says what an adoption has built
  when it is saved. `MarksAlwaysLeadHome` needs the listing of nft tables not to fail: a slot is then
  taken with no marks in it (`Unmarked`), and a record only ever has its own (`OwnMarks`).
* `Routing_proofs`: `TypeCorrect`; `AlwaysRoutedOrBlocked`, if stray routes can be deleted: `OfRecord`
  says that what runs is recorded, `Guarded` that the table of what runs has its fallback and no stray
  default before the rule sends packets to it; `ForgottenIsGone`, if removals succeed. Each assumption
  is needed, see above.
* `Plumbing_proofs`: `TypeCorrect`, `LinkedAtLaunch`, `LostByFailure`, `ForgottenGone`, from one
  inductive invariant that says for each command what those before it have left, also when it finds
  what another operation left. `LookupsAlwaysFollow`, for any servers, lists, applications and events:
  `Working` says what a configuration works with and has written so far, `Written` that what is
  followed is written wherever it is read, `Mounted` that an application reads the host's own
  `nsswitch.conf` only where that does not ask systemd-resolved, and `Tried` what the probe of the servers
  has shown when it chooses.
* `StateFile_proofs`: `TypeCorrect`, `AlwaysWhole`; `OneCellRefined`: without damage and failing reads
  `StateFile` implements `StateCell`. The invariant says that the writer that holds the lock has in
  memory what the file says, and every other process is not about to write; a rename is the step of
  the cell, everything else but a power cut is a stutter. `AlwaysSafe` is about a file that anybody
  edits and that readers of root load, and may move, without the lock: a writer holds the lock and has read what is at the path (`Reads`), only a spoilt file gets to
  the step that moves it, and each defect a text can have fails a check or is mended, so that what is in
  memory is always sane.
* `Calls_proofs`: `AlwaysTrueAnswers`, for any clients, any requests and any number of calls. What a
  client was told can only be true because of what the log holds of its call, so `CallsInv` follows
  the log: a helper that has not yet run has written nothing under its call's number (`Fresh`), the one
  that runs wrote the last lines of the log, one for each of its operations so far (`Wrote`), it alone
  holds the lock (`HoldsLock`), and numbers of calls are not used twice (`NumbersDiffer`). What was told
  of earlier calls stays true because later lines carry other numbers (`RanStays`). `CommandsAgree`, for
  any command lines in which what launches names an interface, and any changes by others: `CliInv` says
  what each step of a command has asked the helper for (`OnItsWay`), that every call is about the path
  that was shown and the first of two changed nothing (`AboutPath`), that what it does to running
  applications was agreed to (`Agreed`), and that nothing of what was looked for is left between a good
  answer and its report, unless others act (`Achieved`). `RequestsAlwaysChecked`, for any requests: every validator accepts what
  it returns and returns it again (`CleanStays`), every default is accepted by its own validator
  (`SpecsAreSound`), so what was filled in passes unchanged, alone (`SpecTwice`), in a batch (`OpsTwice`)
  and as a whole (`RequestTwice`).
* `Desktop_proofs`: `AlwaysLocked` and `AlwaysForward` hold also when a dialog cannot take the input;
  `BaseInv` says that a dialog of a start asks about an item left to plan (`TypeInv`), that each result in the
  queue is of a job that has finished, and only once (`Queued`), that the count behind the buttons is of
  the requests that are out or whose result waits (`Locked`), that a snapshot is awaited from its
  request to its delivery, on every path (`Awaited`), and that no reading is newer than the state nor
  older than what is shown (`Fresh`). `AlwaysOneAtATime` and `AlwaysQueueKept` assume that dialogs take
  the input (`~MayNotGrab`), and `OneRequest` fails without: `ModalInv` adds that a handler that waits
  does so alone and with no request out (`OneDialog`), that a start that was begun is being planned or
  is out (`Begun`) and that what is planned or out stands in the queue (`PlansQueued`).
  `TableAlwaysTrue` and `ChoiceAlwaysKept` are about `DesktopSpec`, for any number of interfaces
  (`IfacesAreNumbered`), any applications and any snapshots that are real (`WorldIsReal`: no binding is
  listed twice, every bound interface has a namespace, what lives belongs to what is listed, and an
  adoption stays on its interface, as its id is drawn anew for each, `engine.py:729`). `active_rows` and `_sync_tree` are loops, so their models are functions of
  the number of passes, and what they return is shown of every number of passes: a set of numbers that has
  0 and the successor of each of its elements has all, because one without a least element is empty
  (`Least`, `Induct`). `WantedIsDue` shows that `ActiveRows` gives the rows that are due, each once and
  after the row it stands under; `SyncShows` that after `k` passes the first `k` rows stand in order
  where they belong, before what is still to be placed, so that the last pass leaves nothing else.
  `TableInv` needs, besides what is claimed, that what a row says is what it was last told, as
  `_sync_tree` relies on its memory to save writing, and that a row keeps its parent from one snapshot to
  the next, or a child would go with the parent it used to have. `ChoiceAlwaysKept` rests on `RowStays`:
  `Prune` takes no row that is still wanted.
* `Proxies_proofs`: `AlwaysByAdapter` for any user, if ports are not handed out twice (`~Reuse`, which
  it needs, see above): `ExitInv` says that the port a launch holds, at every step, and what is
  registered belong to a server of its adapter. `RegistryAlwaysTrue`, for a patient user, launches on any number of
  adapters at once, and proxies that are late or fail: `CalmInv` says
  that there is one launch for an adapter (`OneLaunch`) and none under way with a stop, that a proxy that listens is registered or about
  to be, and one that starts is waited for (`Awaited`), and what a stop that is under way has left of the
  registry (`Live`); a proxy whose launch gave up is the exception (`GivenUp`). `AlwaysRelayed`, for any
  number of chunks, and peers that stop reading or go at any moment: `Said` gives the replies by stage of the
  handshake; `Piped` says that a task holds at most one chunk that it has read and not written, and
  that one is lost only if the side it was for has closed or gone.

Every safety property that a run checks is stated by a theorem, as are the two refinements. Only
model-checked, and why: every liveness property (`IdleIsReclaimed`, `RouteReturns`, `EmptyIsReleased`,
`ConnectionReturns`, `EverythingReturns`, `TablesFollow`, `AssignEnds`,
`EverythingEnds`), as fairness is out of the prover's reach. What holds under `Fairness` only in part is
proved in that part: that the table never goes back to an older state, which `TablesFollow` also says, is
`AlwaysForward`.

## What comes next

* `Bindings` and `Adoption` over one state file in one instance: a reset that does both.
* `Routing` with two uplinks that share a gateway, and the rule that `refresh_routes` does not look at
  (`engine.py:577`).
* Marks that another service flushes (`adopt.py:402`).
* `Routing` and `Dns` for one namespace: a redirect under a firewall that is reloaded.

## Not modelled

* Queries and parsing (`netinfo`, `nm`, `desktop_entries`, Firefox profiles, `psutil` tables): they
  keep no state; what the models need of an answer is a choice among its kinds.
* Traffic rates and history: for display only. `tc` commands: pure I/O on recorded limits.
* Safe opening of files (`safefs`), sessions and environments, dependency checks: no order of steps
  of the system depends on them.
* The VPN window: a list of NetworkManager's connections with buttons, one request at a time.
* Widgets, icons, drag, menus, hints, layout, tables and messages of the command line, the bug report.
* Installers, packaging and the website.
* Hazards without a property: a bind that fails keeps the DNS servers and limits it was asked to set
  (`engine.py:166`); a number reused between two reads in `adopt` (`engine.py:726`); processes forked
  by one that is not moved yet (`engine.py:744`); a missing ip rule that the refresh does not look for
  (`engine.py:577`); marks flushed by another service (`adopt.py:402`). The first leaves a setting that
  the user asked for; the second and third are the gaps between two reads of `/proc` and between a
  list and its use, which the models take as one step; the others need an outside actor that undoes
  single objects.
