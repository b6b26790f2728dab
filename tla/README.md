# vvnext: TLA+ models, model checking and proofs

vvnext is a command-line tool that manages a fleet of sing-box machines: *near*
nodes that clients connect to, and *far* (or *residential*) nodes that near nodes
reach through point-to-point WireGuard tunnels.  Everything runs on the operator's
machine: a command reads files (`inventory.yaml`, `state.yaml`, `materials/`,
`rendered/`, checkpoints under `state/`), talks to the nodes over ssh, and rewrites
the files.  There is no daemon and no lock; the hard behaviour is in histories of
commands, in commands that overlap, die or are resumed, and in ssh sessions that
break in the middle of a procedure.

## Inventory of the system

| component | source | state it keeps | operations | what makes it correct |
|---|---|---|---|---|
| overlay allocator | `overlay.py`, `state.py` | `state.yaml`: the /30 block of each near/far pair, a port per far node | `compute_topology`, `load_state`, `save_state` | no block is given twice; pairs that stay keep their block; the subnet does not run out |
| inventory | `inventory.py` | `inventory.yaml` | `load_inventory` and its validators | a command leaves a file the next one can load |
| resource allocator | `allocator.py` | none | names, `port_base`, `wg_port`, SNI | unique per role |
| node deployment | `deploy.py`, `ssh.py` | `/tmp/config.json`, `/etc/sing-box/config.json`, its `.bak`, the service | `deploy_node` | all or nothing; only checked configurations are installed |
| fleet deployment | `deploy.py`, `cli.py` | a pool of two threads, futures, results | `deploy_fleet`, `vvnext deploy` | exit status tells the truth; ends |
| add-node | `cli.py` | a checkpoint per machine, the inventory, keys, pairs | 13 steps, `--resume` | a machine that was "added successfully" is listed, tunnelled and deployed; a resumed command succeeds |
| init | `cli.py` | one checkpoint | 13 steps, `--resume` | as add-node, for a whole fleet |
| batch-add | `cli.py` | none of its own | several machines in one command | as add-node |
| remove-node | `cli.py` | the inventory | drop one entry | the inventory still loads |
| key materials | `keys.py` | `materials/` | generate, rotate | live nodes have keys, both ends the same |
| configuration generator | `config_generator.py` | `rendered/<node>/` | near and far configurations, manifest, client entries | the two ends of a tunnel agree; listen ports are distinct |
| bootstrap | `bootstrap.py` | packages, service, firewall of a node | 10 groups of ssh commands | repeated until it returns, it returns; what it is for is then there; it never shuts its own session out; the open ports are the ones the node listens on |
| subscriptions | `subscription/` | `rendered/subscription/` | merge, classify, group, format | every client entry is reachable and in the group of its link |
| subscription server | `subscription/server.py`, `cli.py` | two threads, a socket, a backlog | start, stop, signals, GET, HEAD | stop returns; clients are served, with what was rebuilt |
| health, audit, monitor | `health.py`, `audit.py`, `collector.py`, `cli.py` | a report | questions to every live node | green verdicts are true, no node is forgotten, monitor goes on |
| probe | `probe.py` | none | parses what a new machine answers | (conversions) |
| DNS | `dns.py` | records at the provider | list, then create or update | no duplicate records |

Components talk through the files and through return values.  `add-node`, `init` and
`batch-add` call the allocator, the key generator, the overlay, the configuration
generator and `deploy_node` in turn; `vvnext deploy` reads what they rendered.
`PROJECT.json` lists the components with their status and the hazards with the
properties that cover them.

## Modules

### Overlay, OverlayState, MCOverlay, OverlayProofs, OverlayStateProofs

`Overlay` has the operators of `compute_topology`: `DesiredPairs` (lines 12-21),
`ReusedPairs` and `UsedOffsets` (23-37), `NewOffset` (39-54: `Before` is the loop
order, `Turn` how many new pairs come first, `NthFree` what `next_offset` has become
by then), `Topology` and `NewState` (56-70), and the two address conversions with
their arithmetic over two octets.  Near node names are naturals because the code
sorts by name; a far node without `wg_port` has the port `NoPort`.  The loop that
increments `next_offset` is stated by its result, the (k+1)-th number that is not
used; the run's mutants and the proofs tie it to the rest.

`OverlayState` puts the operators into commands.  A run loads the inventory, works on
its copy, rewrites the file, loads the state, computes and saves it, with a step
between any two file operations, so that several runs interleave.  `write_text`
truncates and then fills: `OpenInventory`/`WriteInventory` and
`OpenState`/`WriteState` are separate steps and `Crash` may come between them.
`load_state` reads an empty file as an empty state; an empty inventory (`torn`) stops
every command.  `RemoveNode` reads the inventory once, where the command reads it twice.
`EditPeers` and `EditPort` are the edits the guides ask operators to make by hand.

### AtomicDeploy, NodeDeploy, MCDeploy

`NodeDeploy` has one action per ssh command of `deploy_node`, over the three files and
the service of a node.  A configuration is a model value; the sets `Checked`, `Good`
and `Flaky` say what the node makes of it.  `Lose` is an ssh error at any command,
`Reboot` empties `/tmp`, restarts the service and breaks every connection, and several
`Deployer`s are several processes.  `AtomicDeploy` is the promise of `deploy_node`'s
docstring (True on success, rollback otherwise) and what the code makes of it when a
connection breaks (`Break`) or the node reboots (`Restart`).  `asked` is the
configuration of the attempt: an attempt that ends "ok" serves it (a flaky one may be
down again), one that fails was not asked for a good one and changes nothing on a node
whose service runs with the installed file (`clean`), and a break leaves such a node with
the old configuration, the asked one or none.  `AllOrNothing` is the refinement.

### Bootstrap, Provision, ProvisionProofs

`Bootstrap` is `bootstrap_node`: `Script` is the list of its ssh commands, one operator
per function of the source, by role, provider, mirror and whether the node has a `wg_port`
(a far node of protocol remote-socks has none).  A command is a name; what it
leaves on the node is a fact of the same name, and `ReliesOn` and `Succeeds` say when it
fails: what it needs is missing, `useradd` finds the user, apt-get finds the package
lock taken.  `Drop` ends the session, `TimeOut` leaves an apt-get running (`late`) that
`AptEnds` later, and `BootReboot` takes what does not outlive a reboot.

`Provision` composes it with `NodeDeploy` on one node, as add-node and init do:
bootstrap until it returns (`Retry`), then deploy; init resumed before its checkpoint
bootstraps a node that was done (`Again`); a reboot is one step of both.  Not in it:
init deploys to a node whose bootstrap failed, and a fresh init bootstraps a node that
serves; no reboot happens while apt-get runs (dpkg would need repair by hand), and
packages do not conflict.

### DeployFleet, FleetChecks, SubServer, Commands, CommandsProofs

`DeployFleet` is the `deploy` command: choosing targets, the pool, futures, the
collecting loop, and the exception that leaves it when a target is not in the inventory.
The queue is a set: which of the submitted names a worker takes next does not matter to
any property. A worker may stay in `deploy_node` for ever, as its upload has no timeout.

`FleetChecks` is health, audit and monitor: a command visits the live nodes and puts one
question after the other to each (`Questions`), while services stop and start and nodes
leave the network and come back (`Change`) between any two. Health passes over a far
node without `wg_port` (one not in `ported`); monitor may be called with one target. The
three differ in what an exception does: nothing is raised in health, audit notes a
critical finding and leaves the node (`InspectFails`), monitor notes an error in the row
and asks on, unless the session could not be opened (`Gather`). `seen` is history: what
was true of a node when it was asked something.

`SubServer` is `sub server start` with its two threads.  `Bind`, `LoadTls` and `Install`
are the steps of start, `Stop`, `ShutDown`, `Close`, `Clear` and `Join` those of stop,
which a signal begins anew at any of them (the wait of `ShutDown` is one step: a signal
that comes while `Event.wait` holds its lock, where the nested stop would wait for that
lock for ever, is not modelled).  `Serve` to `Respond` are the serving thread,
one client at a time.  `OpenFile` and `FillFile` are `write_text` under the feet of a
server that reads the files; a rebuild may die between them.

`Commands` puts the three side by side: one process runs one of them.  They share
nothing, so that one run explores all three; each keeps its own fairness.

### AddNode, AddNodeProofs

The 13 steps with the checkpoint of each, deaths at any step and between an effect and
its checkpoint, failing ssh sessions, and `--resume`.  Every file is written with
`write_text`, and a death between truncating and filling it (`DieWriting`, and
`DieRebuilding` for the keys a resumed command completes) puts it into `torn`: an empty
checkpoint, inventory or key file makes the commands that read it raise, an empty
`state.yaml` counts as an empty state until it is written again.  The key files are one
entry of `torn`, whatever node they are of; the three secrets all nodes share
(`keys.py:86-98`) are left out.  `Disciplined` is an assumption about the operator: an
interrupted add-node that can be resumed is, before another machine is added, and a
machine that is listed is not added again.

### InitPipeline, InitProofs

`vvnext init --config`, one action per step, with a loop action per node in steps 6, 8
and 9.  `unsaved` is the time between a step's effect and its checkpoint.  A
configuration file and the inventory built from it are the set of their nodes.
`Resume` takes the nodes from `inventory.yaml`, as lines 194-199 do, and `StartAfresh`
overwrites the checkpoint only with its first step.  The loops pass over nodes that are
not live (`Left`).  `torn` has the files a death has left empty (`DieWriting`,
`DieCompleting`): the checkpoint, the inventory, or one of a node's key files, on each of
which a resumed command raises.  `Operate`, the operator that liveness assumes, repeats
`--resume` as the guides say, and never starts afresh.  Step 10 reads
`settings.dns_provider`, a field `Settings` does not have, so that every command ends
there (`SetUpDns`) and steps 11 to 13 have no action.

### Fleet, MCFleet, FleetProofs

The composition: `inventory.yaml`, `state.yaml`, the keys, the rendered and the running
configuration of every node, over batches, removals, edits of `wg_peers`, deployments
and rotations. It takes `Topology`, `NewState` and `Loads` from `Overlay`. A
configuration is what two ends of a tunnel must agree on: the node's own key and, per
peer, address, port and the peer's key (`NearConfig` for `_build_wg_endpoint`,
`FarConfig` for `_build_far_wg_endpoint`). `BatchNode` is one turn of the loop of phase
3, up to the outcome of the deployment, which it prints: `reported` are the nodes it
printed OK for. `BatchSave` is the one write of the inventory; `BatchDies` leaves what
the turns before it left, and `BatchDiesWriting` an empty `state.yaml` (`wiped`) or an
empty configuration as well. The inventory and the key files are written in one step
here: when one of them is left empty, the commands that read it raise, as `AddNode` and
`InitPipeline` have it. A machine that is added may be new or one that ran before
(`fresh`). Other commands wait for the batch to end: interleaving is the subject of
`OverlayState`, and add-node that of `AddNode`.

### Subscription, MCSubscription, SubscriptionProofs

The three files of a near node are written one after the other, and a file stands for
the peer list it was rendered for; `Manifest`, `Clients` and `Inbounds` give what is in
them, in the order of the generator.  `Rebuild` concatenates the files of the listed
nodes, matches entries and proxies by position (`Merged`), keeps the first proxy of a
label (`Deduped`) and groups names by bucket (`Bucket`, `GroupBuckets`).  It may happen
at any moment, also while another command renders.  A `port_base` lies above the ports
that every near node has, as those `allocate_port_base` gives do; the inventory accepts
any number, and one a little below 443, 2053, 8443 or 8444 would make an overlay port
meet a fixed one.

## Runs

Every run ends within five minutes with two workers; `fleet` takes about three, the others
less.

| run | question | bounds |
|---|---|---|
| `overlay_sequential` | do blocks stay disjoint, bounded and stable over every history of commands and edits? | 2 near, 2 far, one command at a time, no deaths, one hand-edited port |
| `overlay_concurrent` | do types and disjoint blocks survive overlapping commands of which one may die? | 1 near, 2 far, 2 commands, 1 death |
| `provision` | is a node never locked out, complete once a bootstrap returned, and a deployment to it all or nothing, whatever drops, times out or reboots? | the 6 kinds of node, 4 configurations, 1 lost deployment, 1 lost bootstrap, 1 reboot, 1 bootstrap of a bootstrapped node |
| `provision_reachable` (violation) | does a bootstrapped node that serves pass the health check? | 2 configurations, no loss |
| `deploy_interrupted` (violation) | is there a rollback after every failure? | 2 configurations, 1 loss |
| `commands` | deploy: does the exit status tell the truth, is nothing left behind, does it end unless an upload stalls? health, audit, monitor: are green verdicts true, is a DOWN explained, is no node forgotten, do they go on? sub server: is what is served fresh, does stop return, is every client served? | 3 names and 2 workers; a near and a far node; 2 clients, 1 file, 2 rebuilds, 2 signals |
| `addnode` | is a machine reported as added really part of the fleet, and does resuming succeed where no death left a file empty that it reads? | 4 machines, 3 letters, 2 deaths, 1 failed session |
| `init` | is what the checkpoint calls done about one fleet, is nothing rendered without keys, and does init, once there is an inventory, come to the end of the deployment unless a file it reads was left empty? | 2 nodes, 2 configuration files, an earlier inventory or none, 2 deaths, 1 failed session |
| `init_resume` (violation) | does a resumed init go on with the nodes of its configuration file? | 1 failed session |
| `fleet` | do near nodes of a batch peer with every far node, keep their blocks once reported, and never run without keys? | 2 near, 2 far, 2 batches, 1 removal or edit, 1 rotation, 1 death |
| `fleet_connects` (violation) | do tunnels connect once deploy has nothing left to do? | as `fleet` |
| `subscription` | can a subscription always be loaded, do groups keep their promise, do proxies reach their exit? | 3 near and 3 far nodes with shared labels, 3 peer lists, 3 renderings |

The bounds are the smallest with the interesting cases: two near nodes for the order
of allocation and two far nodes for holes in the middle of the pool and for
`wg_port` order; two commands for a lost update and one death for a truncated file;
one configuration that runs, one that passes the check and does not run, one that flaps
and one that fails the check; a loss and a reboot so that an attempt starts from the
debris of the one before it; more machines than letters so that `generate_node_id` runs
out.  Far nodes and runs are interchangeable, which is the symmetry used; no run with a
liveness property uses symmetry.

For `provision`, one lost session after an apt-get was left running, one reboot and one
bootstrap more than needed are what a command has to be repeated for; the attempts to
deploy are not bounded.  For `commands`, a near and a far node are asked different
questions and each may fail while the other is visited; services and network change
without bound; the second signal interrupts the stop of the first at each of its steps,
and the second client waits behind the first; the second rebuild truncates what the
first wrote.

For `init`, two configuration files are needed to mix fleets, two deaths so that one
command is interrupted before and one after the inventory is written, and so that a file
left empty meets what another death left.  For `fleet`, a
batch that dies needs a second one that reuses its names and blocks; the removal makes
a hole in the ports.  For `subscription`, a node that is rendered twice with another
list and dies in between is one whose files do not match, and a neighbour listed after
it is one whose entries are shifted; the fleet has an exit no group takes.

Deadlock is checked except where the system really stops: an add-node history ends
when every machine is added, the commands of `commands` end, after a death that tears
`inventory.yaml` no command starts, and the histories of `fleet` and `subscription` end
when their bounds are used up.

### Fairness

`ssh.py` passes a timeout to `connect` and to `exec_command`, so that the reads of an
answer end; the exit status is then awaited without one (`recv_exit_status`), and the
models assume that a node which has closed the output of a command sends it.  An upload
(`open_sftp`, `put`) has no timeout at all: no fairness is assumed of it.

`NodeDeploy`: an attempt that is not in its upload goes on (`Answered`), and `AttemptEnds`
says that, once past the upload, it ends.  `Provision`: the same, and a bootstrap that did
not return is run again, its commands end, and so does an apt-get left behind.
`DeployFleet`: workers take names and the main thread goes on, but nothing makes a worker
end: `CommandEnds` has the premise `NoneStalls`, that no worker is under way for ever.
`FleetChecks`: every question has a timeout, and none uploads.  `SubServer`: threads are
scheduled.  The serving thread waits
for a client without a timeout, which no fairness of the code ends: `StopReturns` and
`ClientsServed` are said of clients that speak or go away, as a premise (`ClientsSpeak`).
`AddNode`: a command runs on, and the operator resumes what was interrupted; deaths and
failed sessions are bounded.  `InitPipeline`: a command runs on, and the operator does
not give up resuming (`Operate`; strong fairness because a command that runs disables
it).  What resuming does not get past is in the properties: `AddCompletes` and
`InitDeploys` except the empty files on which every resumed command raises, and
`InitDeploys` begins when there is an inventory.yaml, because a resumed init with a
checkpoint of the first steps and no inventory raises each time.

## Proofs

Every invariant and every action property that a passing run checks is also a theorem,
for all values of the constants.  `OverlayProofs` has the lemmas about the operators of
`Overlay`; the other modules have the theorems of one specification each.

`OverlayStateProofs` (for all sets of nodes and runs and any number of deaths):
`OverlayTypes`, `NoSharedBlock` and `PoolNeverGrows` state that the
invariants of the concurrent run hold for every instance.  Neither is inductive: the
state a run will write depends on the copy and the state it read earlier.  The
inductive invariant is `FilesSound`: the state file and every state a run has seen are
*sound* (each pair's entry is the block of some offset below the number of pairs, and
different pairs have different offsets), and the inventory and every copy are proper.
The step that matters is `NewStateSound`: a sound state and a proper inventory give a
sound new state.  It rests on `RoundTrip` (`IpToOffset` undoes `NearIp`),
`NewOffsetInjective` (different new pairs get different free offsets, because `Before`
is a total order on pairs with distinct ports, and `NthFree` grows with the turn) and
`NewOffsetIs` (an offset found is free and below the number of pairs).  `TunnelsStay`
proves `AddressesStable` for one run at a time without deaths, from `Remembered`: the
state file, when no run is writing it, is the state saved with the latest topology.

`ProvisionProofs` is about the life of a node.  Of deployments: `TypeCorrect` for any
number of deployers; `OnlyChecked`, `GoodIsAccepted`, `FailureRestores` and
`DeployIsAtomic` (every step of `deploy_node` is a stutter or a step of `AtomicDeploy`)
with one deployer, whatever is lost and rebooted.
The invariants relate the step a deployer has reached to what is in the files:
`Installed` (what is past the check is checked), `Accepting` (what is carried is the
configuration of the attempt) and `Restorable` (until the attempt ends, what it found is
in the configuration file or in the backup).  `ProvisioningDeploys` (the life of a node,
bootstraps included, implements `NodeDeploy`) gives `ProvisionedNodeIsSafe`: all of it for
the specification the `provision` run checks.

Of bootstraps, for a node of either role and provider: `ProvisioningCompletes`
(what `Delivered` names: all that outlives a reboot but the user's groups and sudo rights)
and `SshStaysOpen`.  Their invariant `Bootstrapped` says that the commands of the script the
session is past have left what outlives a reboot, and that wherever `ufw enable` has run
the rule for ssh is there.  A session may start on a node any number of
others have left anywhere, so that the second part cannot come from the position alone:
it comes from `SshFirst`, that in every script the rule stands before the command that
enables the firewall.  The lemmas before it say of the concatenated script what stands
where.

`CommandsProofs`: a component's step leaves the others' variables alone, so that
`CommandsInv` is the conjunction of an inductive invariant for each, with any number of
names, workers, nodes, clients, files, rebuilds and signals.  `DeployInv`: a submitted
name is in exactly one of queue, workers and futures, and a result is what its future
returned.  `CheckInv`: a node that was asked the question that tells (the first of
health, the last of audit, the third of monitor) was up, or has put into the report or
the row what makes the verdict a failure; the report alone does not imply that, since it
does not say how far a node has been asked.  `VisitInv` counts: of a node that has been
left the report has what it owes, of the one that is visited what has been asked so far
(or nothing, where it owes a row), of the others nothing; when a round is over, that is
`NobodyForgotten`.  `ServerInv`:
what is on disk is no older than what was last written to its end, and older than the
rebuild under way only if whole; a request remembers nothing that was not written.

`InitProofs`: `InitTypes`, `CheckpointHolds` and `RenderedHasKeys` for any nodes and
configuration files and any number of deaths and failed sessions.  `OneFleet` speaks of
the checkpoint and the files only, and what keeps it true is in the memory of a command:
`Place` (a command past step 1 is one step ahead of the checkpoint, and from step 6 on
works on the nodes of inventory.yaml) and `Behind` (which keys, blocks and configurations
the steps behind it have left).  Step 1 is the exception that `Place` states: `init`
without `--resume` runs it under the checkpoint of an earlier `init`.

`AddNodeProofs`: `AddNodeTypes` for any operator, `EachListedOnce` and
`AddedStaysListed` for one who resumes an interrupted command first and adds no listed
machine (`Disciplined`; without it they do not hold, see below), whatever files a death
leaves empty. `ListedOnce` is kept by what a command remembers between allocating a name
and listing it, over deaths and resumes: `OneAtATime` (at most one machine has a
checkpoint), `Reserved` (the name and the port in a checkpoint or in memory belong to no
entry but the machine's own), `CopyIs` (the copy of the inventory a command works on is
the file it will rewrite), `Blocks` (blocks are for tunnels the inventory asks for) and
`Behind` (what the steps behind a command have left).

`FleetProofs`: `FleetTypes`, `NothingInstalledKeyless`, `AddressesKept` and
`BatchPeersWithAll`, for any fleet, any batches and any number of deaths, removals, edits
and rotations.  The properties speak of what nodes run with and of state.yaml; a batch
changes both while the inventory it will write is in its memory, and may die before it
writes it.  The inductive invariant `FleetInv` has five parts: `Counted` (bounds),
`Files` (inventory and state are proper), `Configs` (what is rendered or running has keys
and addresses of the pool), `Memory` (what the batch has in memory
is the file with the machines added, whose near nodes peer with all its far nodes, far
machines before near ones) and `Promises` (unless a death left state.yaml empty, a near
node reported OK that is listed, or in the memory of the batch under way, runs with the
blocks state.yaml has).  `Promises` survives a recomputed topology because pairs that stay keep
their blocks, which are lemmas of `OverlayProofs`, and because within a batch pairs are
only added.

`SubscriptionProofs`: `SubscriptionTypes`, `EveryMemberResolves`, `GroupsAreHonest` and
`EveryLinkReaches`, for any fleet, labels, regions and peer lists.  Only a rebuild changes
the subscription, and what it makes rests on facts about lists.  `FlattenPairs`: lists
that agree pairwise, concatenated, agree position by position; since `PartsAgree` says that
the two files of one rendering have the same links in the same order, an entry and the
proxy in its position are of one link.  `FirstOfName`: a name that occurs has a first
occurrence, so that deduplication takes no name away.  `NameTells`: proxies of one name
enter and exit in one region, so that it does not matter which of them is kept.
`PortsTell`: ports of one node differ.  The induction these need over the length of a list
is said of sets of numbers (`InductiveSet`, from the library's theorem that a nonempty
subset of a well-founded order has a minimal element), and the same way `FlattenSeq`, a
recursive function, is shown to exist.

The assumptions are those the modules name (`OverlayAssumption`, `StateAssumption`,
`DeployAssumption`, `ProvisionAssumption`, `InitAssumption`, `AddNodeAssumption`,
`SubscriptionAssumption` and the `FleetAssumption` of `DeployFleet` and of `Fleet`, all
evaluated by TLC in the runs) and the ones written in the theorems: `OneRun` without
deaths for `TunnelsStay`, `OneDeployer`, `Disciplined`.

Only model-checked: liveness (`AttemptEnds`, `BootstrapReturns`, `CommandEnds`,
`ChecksGoOn`, `StopReturns`, `ClientsServed`, `AddCompletes`, `InitDeploys`), as the
provers handle neither fairness nor ENABLED; and the violations, of which TLC shows the
behaviour.

## What the code does otherwise than its documents say

The four violation runs: an ssh error after `mv` leaves the new configuration without a
rollback; the firewall of a near node drops what the node listens for
(`bootstrap.py:191-200` opens `port_base`, `config_generator.py:56-86` listens from
`port_base + 1` on) and the health check asks for; an init interrupted before step 5 and
resumed goes on without the nodes of its configuration file; after an edit of `wg_peers`
deploy has nothing to install and the new tunnel is in no configuration.

Met on the way and not made into runs:

- a death while `state.yaml` is written leaves an empty file, and the next topology
  moves every tunnel (`state.py:26-27`; `TunnelsStay` assumes no death, `AddressesKept`
  that none left the file empty);
- a death while a checkpoint is written leaves an empty file, and every `--resume` raises
  on it until it is deleted (`cli.py:588` and `:579`, `:176` and `:169`), as it does on an
  empty `inventory.yaml` or key file;
- an empty `vless-uuid.txt` or `anytls-password.txt` is taken as the secret
  (`keys.py:86-93`);
- a node that batch-add printed OK for is forgotten when the batch dies later: it runs,
  but is not in the inventory, and its blocks go to others (`cli.py:1054`, `:1068`);
- the upload of a configuration has no timeout (`ssh.py:42-47`): a node that stops
  answering there keeps `deploy` from ending;
- remove-node leaves its node in others' `wg_peers`, and no command loads the inventory
  until it is edited (`cli.py:1131-1133`, `inventory.py:86-91`);
- the deploy that follows a rotation or a batch in the guides has the same gap as the one
  after an edit: nothing is rendered again, so that rotated keys stay on the operator's
  machine, and a far node never learns of a near node added after it;
- the topology keeps the old `wg_port` of a far node for one recompute after the port
  was edited (`overlay.py:36`);
- two processes that deploy to one node share `/tmp/config.json`, so that
  `OnlyCheckedInstalled` holds for one deployer only;
- a target that is not in the inventory makes `deploy_fleet` drop the results of the
  others (`deploy.py:174`);
- add-node generates keys while its node is pending and the generator skips pending
  nodes, so that the first run of a near node stops at step 9 and succeeds when resumed
  (`cli.py:684`, `keys.py:104-106`);
- an add-node resumed after another one took its name reports success without listing
  its machine (`cli.py:687-696`);
- no route profile has "residential" in it (`config_generator.py:655-664`), so that the
  bucket and the group of residential exits stay empty (`classifier.py:79-81`) and their
  proxies are in the US groups, if they are in one at all;
- of two near nodes with one label only the first is in the subscription
  (`builder.py:52-61`);
- a session that ends after `useradd` leaves a user without sudo for good: a later
  bootstrap finds the user and returns before the sudoers file (`bootstrap.py:64-66`,
  against its docstring in line 62);
- the conntrack settings do not outlive a reboot, as nothing loads the module again
  (`bootstrap.py:86`), and each bootstrap appends one more clamp rule (`:242`);
- `check_udp` sends from an unconnected socket, on which a refused datagram is not
  reported, so that a dead far node passes health (`health.py:61-82`);
- `check_wg_tunnel`, `check_service_status` and `AlertDebouncer` are called by no command
  (`README.md:31` and `docs/advanced.md:191` speak of them), and an alert is sent at
  every run;
- audit passes no rendered configurations, so that drift is never checked
  (`cli.py:1474`, against `:1466` and `docs/architecture.md:345`);
- monitor reads the inventory once, and shows a node that was removed since for ever;
- a stop by Ctrl+C exits with status 1: `Exit(0)` is an `Exception` for the handler
  around it (`cli.py:1434`, `:1442`);
- a certificate that cannot be loaded leaves the server set and its thread not
  started: a second start returns at once and a stop would wait for ever
  (`server.py:179-209`; the command ends instead);
- a client that connects and says nothing keeps every other client and stop waiting;
- the systemd unit calls a command that does not exist (`server.py:267`).

## Not modelled, and the plan

`PROJECT.json` gives a reason for every component that is not modelled.  DNS: the
upsert is reached by no command, as `cli.py` tests two settings that do not exist; what
is reached prints instructions.  probe and settings keep no state and take no steps.
Left out of modelled components: validators of single fields, the SNI choice, the
domain rules and fixed sections of a configuration, the text of the three subscription
formats, HEAD, the message of an alert, the push to InfluxDB.

The order of the plan was: allocator, deployment of a node, of a fleet, add-node, init,
the fleet composition, subscriptions, bootstrap with deployments, the commands over the
fleet.  Left, in this order:

1. two rebuilds at once, and a rebuild in the composition of `Fleet`;
2. the domain rules of a configuration;
3. that one run of `OverlayState` implements an allocator without files, step by step.
