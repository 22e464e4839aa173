# A TLA+ model of clatto

clatto is a stateless NAT64/CLAT daemon: it reads packets from a tun device,
translates them between IPv4 and IPv6 and writes them back. "Stateless" has one
exception, the dynamic pool, which lends IPv4 addresses to IPv6 hosts and keeps
the leases over restarts. This directory models the parts of the daemon where
several goroutines, the clock, the file system or failures meet, checks them
with TLC on small instances, and proves the main results with TLAPS for every
instance.

## The system and what is modelled

| part | source | modules | status |
|---|---|---|---|
| dynamic pool | `internal/addrmap/pool.go` | `Pool`, `Leases`, `PoolProofs`, `PoolLeases` | modelled |
| the pool's state file | `pool.go` Save, write, Load | `StateFile`, `StateFileProofs` | modelled |
| run loop | `internal/daemon/daemon.go` Run | `Lifecycle`, `LifecycleProofs` | modelled |
| packet engine | `internal/tundev/engine.go` | `Lifecycle` | in part: a process; batches abstracted, `SetTranslator` planned |
| main | `cmd/clatto/main.go` | `Lifecycle` | goroutines, select, exit status |
| admin server | `internal/admin/server.go` | `Lifecycle` | Serve only |
| reload | `daemon.go` Apply, Reload, WatchFile | (`Pool`, `StateFile` in part) | planned |
| address table | `internal/addrmap/table.go` | (`Pool` in part) | planned |
| translator, checksums | `internal/xlate` | | planned |
| kernel configuration | `internal/netconf` | | planned |
| configuration | `internal/config` | (`Pool` in part) | planned in part |
| events, metrics, test device, benchmark | `events.go`, `observe`, `fake.go`, `test/bench` | | left out: no behaviour depends on them |

`main` starts the admin server, the reload goroutines and `Daemon.Run`. Run
creates the device, starts the engine's goroutine, and then serves a ticker that
calls `Pool.Maintain` and saves the pool. The engine calls the translator, the
translator the table, and the table the pool. A reload builds a new table and a
new translator, keeps the pool if its prefix is unchanged, and swaps them in.

## Pool

State: `used` (bitmap), `by4`, `mapped` and `dormant` are the pool's four
indexes; `host` holds the `dynHost` records. A record is named by its offset.
`reserved`, `minLease`, `maxLease` are what a configuration sets. `worker` and
`ticker` are the goroutines' program counters and locals.

Atomicity follows the lock `p.mu`:

- `Lookup6`, then `Store6` or `Assign`: lookup6 drops the read lock before it
  stores `lastUse`, and assign takes the write lock afresh.
- `Lookup4`, `Check4`, `Store4`: lookup4 reads `dormant` and stores without a lock.
- `MaintainNow`, `MaintainMax`, `MaintainDemote`, `MaintainRelease`, `SaveState`:
  the clock and the leases are read before the lock; the two loops run under the
  lock, but the workers' lock-free accesses fall between them.
- `SetLeases`, `Build`: what a reload does to a pool it keeps. Build replaces
  `p.reserved` without the lock, so it may also fall into the probe of an `Assign`:
  the steps before some `k` ask the old table, the others the new one. One Build
  per probe is modelled; each needs a whole reload.
- `LoadLine`, `LoadEnd`, `LoadError`: Load, before the pool is used.

A worker that holds a record Maintain has released is marked `orphan`. A clock
reading used later is any value between its action and the present.

`Leases` is the abstract promise: an address has one holder, a host one address,
and an address changes hands or is freed only while its holder is dormant. The
mapping takes `owner` from `by4` and the records, `active` from their flags.

Hashing is abstracted to the starting offset `Hash[h]`; events are left out.

## StateFile

`Pool.Save` step by step on a file system with inodes: open with truncation,
write under the lock, clear dirty, close, rename, remove on failure. Run's ticker
calls it without the daemon's lock, Apply and Run's exit with it, so two Saves
can overlap. `Restart` is a crash (or stop) at any point followed by Load. Load
takes in all of the file, or part of it: the file cannot be opened, the scanner
fails part of the way (what was read so far stays), lines are refused because
their address is reserved by now or outside the pool, or the file is not whole.
The daemon logs an error and goes on with what there is, in a pool that is not
dirty. `loaded` is FALSE from such a Load until a Save has replaced the file.
The assignments are a version number, and part of a version counts as an earlier
one. An inode holds a version, `Blank`, or `Torn`,
which stands for any other content. Crashes are of the process: what was written
survives. Apply's replacement of the pool after its save is left to `Reload`;
here the pool stays, as when Apply fails after it.

## Lifecycle

The engine's loop, its closer goroutine, Run, the admin server and main, with the
three one-place channels between them. A blocked `select` in main is the state
`parked`, so the first event to occur decides, while a select that finds several
cases ready may take any. `LinkVanishes` is the tun link deleted by someone else,
which the device reports as `os.ErrClosed`. The final save may be written, fail
(which is only logged) or find nothing to do; Run returns the same result after
each, so exit status 0 says nothing about it.

## Runs

| run | what it shows | distinct states |
|---|---|---|
| `pool_serve` | the daemon's setting: indexes consistent, reserved addresses not lent, no address lost early, no needless rejection, changes marked dirty, refines `Leases` | 400k |
| `pool_two_workers` | the same core with two packet goroutines and reloads | 650k |
| `pool_live` | an expired assignment is released; no needless rejection while reloads move the reserved address, also during a probe | 221k |
| `lifecycle_stop` | exit status 0 is earned; a cancelled context ends the process | 640 |
| `lifecycle_safe` | main never leaves an engine or a device behind, and never exits before the final save has been tried | 1.1k |
| `state_file_one` | one saver, Close and Rename not failing: the file is whole; it goes back, and differs from a clean pool, only after a Load of a part and until the next Save | 3.4k |
| `state_file_two` | two savers: what is written is up to date until the last block is out | 279k |

Five runs show a disagreement between the code and what its comments say:

- `pool_used_stays_mapped`: Maintain can demote a host between lookup6's map
  access and its store, so a host that has just sent is not mapped.
- `pool_handed_out_unreserved`: after a reload reserves a lent address, the
  takeover in a full pool hands it to a new host; only the probe asks `reserved`.
- `lifecycle_vanish`: a nil result of the engine is consumed and Run waits for a
  second one for ever.
- `state_file_renames`: dirty is cleared before Close and Rename can fail.
- `state_file_torn`: two Saves share `path~~`, and one can rename the file the
  other has just truncated.

What the passing runs do not promise: a failed Load costs the assignments in the
file, because the next save, at the latest the forced one at exit, renames an
empty or partial pool over it. And a packet that is probing while a reload moves
the reserved address can be rejected although either table alone would leave an
address free; `RejectedOnlyWhenFull` and `LeavesHolderOnlyWhenDue` therefore count
an address as reserved if the table before or the one after the step claims it.

Bounds. Three hosts for two usable addresses (`pool_serve`) reach collisions of
the probe, its wrap past offset 0, a full pool, takeover and rejection. A clock
of 3 or 4 with leases of 1 and 2 reaches demotion, release, stale readings and
times in the future at Load. `pool_two_workers` has one address for two hosts, so
that every pair of operations meets on it; the workers are symmetric. Two
consecutive read errors stand for the code's ten: the limit matters only by
being reached, reset or not reached. Two or three versions reach an old file, a new file
and a change during a save; four inodes are enough for `path` and two savers
(proved, `OpenedFacts`).

Fairness. `pool_live`: weak fairness of the ticker's steps, since Run's loop
serves its ticker as long as it runs, and of Load, which is sequential code.
`lifecycle_*`: weak fairness of each goroutine that can run. A read that has
been started may wait for packets for ever, but a closed device ends it, which
is the only thing the liveness properties need. Signals, failures and the admin
server's end are not fair.

Deadlock is checked except where Run may wait for ever (`lifecycle_safe`,
`lifecycle_vanish`).

## Proofs

- `Leases.LeasesAreExclusive`: the promise implies that no two hosts share an
  address and no host has two.
- `PoolProofs`: `TypeCorrect` and `IndexesAgree`. `Consistent` is inductive with
  two additions: a worker inside a lookup has a host and an offset, and a worker
  that holds a record either holds one still in `by4` or is marked orphan.
  Without the second, a late store could write into a freed slot.
- `PoolLeases`: from that invariant, the refinement `PoolKeepsLeases` and the
  action properties `OwnerChangesAreDirty`, `HoldersKeepAddresses`,
  `RejectsOnlyWhenFull`. `ReservedStayFree` assumes that all configurations reserve
  the same addresses (a reload may reserve a lent one), `AnswersGoToAsker` that
  there is one worker, as the daemon has: another could take over an assignment
  demoted between a lookup's map access and its return.
- `LifecycleProofs`: `LifecycleTypes`, `OrderlyExit`, and `ZeroIsEarned` if the
  link does not vanish. The invariant orders the goroutines: a value in a channel
  means its sender has returned, Run saves only after the engine has returned,
  and main leaves only with Run's value in hand.
- `StateFileProofs`: `WritesArePresent` for any savers. For one saver,
  `OneSaverIsAtomic`, `DiskGoesForward` and, if Close and Rename do not fail,
  `CleanIsSaved`. The invariant `Whole` says what the temporary file holds at each place
  in Save and that, unless Load took in only part of it, the file at path is not
  newer than that file or the pool.

Assumptions are the named `ASSUME`s of `Pool`, `Lifecycle` and `StateFile` and
those in the theorems. Only model-checked: the liveness properties
(`ExpiredIsReleased`, `ShutsDown`), which are outside the prover's reach.

## Plan

1. `Reload`: SIGHUP, the watcher and the API calling Apply; ResolveWith's side
   effects on the running pool before a late error; the swap of translator and
   current configuration; Save of the old pool and Load of the new one, composed
   with the ticker. Properties: a failed Apply changes nothing, the last file is
   applied, no lease is lost by a reload, generations only grow.
2. `AddrTable`: Build's ordering and checks, and both mappings, over short
   addresses, against a longest-prefix reference; round trips.
3. `Netconf`: Apply and Update as sequences of calls that can fail, against the
   set of addresses, routes and rules the options ask for; retry after failure.
4. `Xlate`: decisions per packet, fragmentation and lengths, the ICMP error rules
   (no error about an error), hop limits; `Checksum`: fold and the incremental
   update against a full sum.
5. Proofs: Reload's safety invariants, Netconf's convergence on success, and
   the fragmentation lemmas.

Left out for good: YAML and environment parsing, log and metric output, and the
stubs for other systems, which change no state that the daemon reads.
