-------------------------------- MODULE Pool --------------------------------
(***************************************************************************)
(* The dynamic address pool of internal/addrmap/pool.go: IPv4 addresses    *)
(* lent to IPv6 hosts on demand.  The goroutines that touch a pool are the *)
(* packet workers (lookup4, lookup6, assign), the daemon's maintenance     *)
(* ticker (Maintain, Save) and a reload (SetLeases, Table.Build).          *)
(*                                                                         *)
(* An address is its offset from the pool base.  A dynHost is named by its *)
(* offset, which never changes and which at most one reachable dynHost     *)
(* has; Nil (offset 0, never lent) stands for a nil pointer.  A worker may *)
(* still hold the pointer of a dynHost that Maintain has released: its     *)
(* "orphan" flag says so, and what it stores there reaches nobody.         *)
(*                                                                         *)
(* A step that holds p.mu throughout is one action, except Maintain, whose *)
(* two loops are separate because the workers' lock-free loads and stores  *)
(* of lastUse and dormant run between them.  Table.Build takes no lock, so *)
(* it may fall between two steps of assign's probe (at most one does).     *)
(***************************************************************************)
EXTENDS Integers, FiniteSets

CONSTANTS
  Hosts,         \* IPv6 hosts that draw from the pool
  NoHost,        \* not a host
  Workers,       \* packet goroutines (the daemon runs one)
  PoolMax,       \* p.max: usable offsets are 1..PoolMax
  Hash,          \* starting offset of the probe for each host
  LeaseChoices,  \* <<minLease, maxLease>> pairs a configuration may set
  ReservedSets,  \* sets of offsets a configuration may reserve
  MaxTime        \* bound on the clock

Nil == 0
Offsets == 1 .. PoolMax

ASSUME PoolAssumption ==
  /\ PoolMax \in Nat \ {0}
  /\ Hash \in [Hosts -> 0 .. PoolMax]
  /\ NoHost \notin Hosts
  /\ LeaseChoices \subseteq Nat \X Nat
  /\ ReservedSets \subseteq SUBSET Offsets
  /\ MaxTime \in Nat

VARIABLES
  phase,     \* "loading" until Load has returned, then "running"
  now,       \* the wall clock, in seconds
  minLease, maxLease,
  reserved,  \* offsets for which p.reserved answers true
  used,      \* the bitmap
  by4,       \* offsets with an entry in p.by4
  host,      \* the dynHost at each offset, NoLease where by4 has none
  mapped,    \* p.mapped:  host -> offset of its dynHost, or Nil
  dormant,   \* p.dormant: host -> offset of its dynHost, or Nil
  dirty,
  worker,    \* each worker's program counter and locals
  ticker     \* the maintenance goroutine's program counter and locals

table == <<used, by4, host, mapped, dormant>>
config == <<minLease, maxLease, reserved>>
vars == <<phase, now, config, table, dirty, worker, ticker>>

DynHost == [v6: Hosts \cup {NoHost}, lastUse: Int, dormant: BOOLEAN]
WorkerState == [at: {"idle", "hit6", "assign", "hit4", "live4"},
                a: Hosts \cup {NoHost}, d: 0 .. PoolMax,
                since: 0 .. MaxTime, orphan: BOOLEAN]
TickerState == [at: {"idle", "max", "demote", "release", "save"},
                t: 0 .. MaxTime, min: Nat, max: Nat]

NoLease == [v6 |-> NoHost, lastUse |-> 0, dormant |-> FALSE]
NoWork == [at |-> "idle", a |-> NoHost, d |-> Nil, since |-> 0, orphan |-> FALSE]
Resting == [at |-> "idle", t |-> 0, min |-> 0, max |-> 0]

\* p.mu is free: only Maintain's two loops hold it across actions.
Unlocked == ticker.at # "release"

-----------------------------------------------------------------------------
(* NewPool, and Load before the pool is used.                              *)

Init ==
  /\ phase = "loading"
  /\ now \in 1 .. MaxTime
  /\ \E l \in LeaseChoices : minLease = l[1] /\ maxLease = l[2]
  /\ reserved \in ReservedSets
  /\ used = {0}
  /\ by4 = {}
  /\ host = [o \in Offsets |-> NoLease]
  /\ mapped = [h \in Hosts |-> Nil]
  /\ dormant = [h \in Hosts |-> Nil]
  /\ dirty = FALSE
  /\ worker = [w \in Workers |-> NoWork]
  /\ ticker = Resting

\* activate for a set of dynHosts, all given their present lastUse.
Activate(S) ==
  /\ host' = [o \in Offsets |-> IF o \in S THEN [host[o] EXCEPT !.dormant = FALSE]
                                           ELSE host[o]]
  /\ mapped' = [h \in Hosts |->
                  IF \E o \in S : host[o].v6 = h
                    THEN CHOOSE o \in S : host[o].v6 = h ELSE mapped[h]]
  /\ dormant' = [h \in Hosts |->
                  IF \E o \in S : host[o].v6 = h THEN Nil ELSE dormant[h]]

\* read: one accepted line of the state file.  A line that fails a check
\* changes nothing and is not an action.
LoadLine(off, v6, last) ==
  /\ phase = "loading"
  /\ off # 0 /\ off \notin used /\ off \notin reserved
  /\ dormant[v6] = Nil /\ mapped[v6] = Nil
  /\ used' = used \cup {off}
  /\ by4' = by4 \cup {off}
  /\ host' = [host EXCEPT ![off] = [v6 |-> v6, lastUse |-> last, dormant |-> TRUE]]
  /\ dormant' = [dormant EXCEPT ![v6] = off]
  /\ UNCHANGED <<phase, now, config, mapped, dirty, worker, ticker>>

\* read: the loop over the loaded hosts.  If one was last used in the future
\* the clock cannot be trusted and every host stays dormant.
LoadEnd ==
  /\ phase = "loading"
  /\ phase' = "running"
  /\ \/ /\ \E o \in by4 : host[o].lastUse > now
        /\ host' = [o \in Offsets |->
                      IF o \in by4 THEN [host[o] EXCEPT !.lastUse = now - minLease]
                                   ELSE host[o]]
        /\ UNCHANGED <<mapped, dormant>>
     \/ /\ \A o \in by4 : host[o].lastUse <= now
        /\ Activate({o \in by4 : host[o].lastUse + minLease >= now})
  /\ UNCHANGED <<now, config, used, by4, dirty, worker, ticker>>

\* read: the scanner fails; what was read so far stays dormant, and the daemon
\* goes on with it.
LoadError ==
  /\ phase = "loading"
  /\ phase' = "running"
  /\ UNCHANGED <<now, config, table, dirty, worker, ticker>>

-----------------------------------------------------------------------------
(* A packet worker.  A clock reading is taken some time before it is used: *)
(* it is any value between the action that precedes it and the present.    *)

Working(w, at) == phase = "running" /\ worker[w].at = at
Goto(w, at, a, d) ==
  worker' = [worker EXCEPT ![w] = [at |-> at, a |-> a, d |-> d,
                                   since |-> now, orphan |-> FALSE]]
Done(w) == worker' = [worker EXCEPT ![w] = NoWork]

\* d.lastUse.Store(t), seen by the pool unless d has been released.
Touch(w, t) ==
  host' = IF worker[w].orphan THEN host
                              ELSE [host EXCEPT ![worker[w].d].lastUse = t]

\* lookup6: the read-locked map access.  A miss without allocate returns.
Lookup6(w, a) ==
  /\ Working(w, "idle") /\ Unlocked
  /\ IF mapped[a] # Nil THEN Goto(w, "hit6", a, mapped[a])
                        ELSE Goto(w, "assign", a, Nil)
  /\ UNCHANGED <<phase, now, config, table, dirty, ticker>>

\* lookup6: the store into the dynHost found, and the return of its v4.
Store6(w) ==
  /\ Working(w, "hit6")
  /\ \E t \in worker[w].since .. now : Touch(w, t)
  /\ Done(w)
  /\ UNCHANGED <<phase, now, config, used, by4, mapped, dormant, dirty, ticker>>

\* lookup4: the read-locked map access.  A miss returns.
Lookup4(w, off) ==
  /\ Working(w, "idle") /\ Unlocked
  /\ off \in by4
  /\ Goto(w, "hit4", NoHost, off)
  /\ UNCHANGED <<phase, now, config, table, dirty, ticker>>

\* lookup4: the unlocked read of d.dormant; a released dynHost is dormant.
Check4(w) ==
  /\ Working(w, "hit4")
  /\ IF worker[w].orphan \/ host[worker[w].d].dormant
       THEN Done(w)
       ELSE Goto(w, "live4", NoHost, worker[w].d)
  /\ UNCHANGED <<phase, now, config, table, dirty, ticker>>

\* lookup4: the store, and the return of d.v6.
Store4(w) ==
  /\ Working(w, "live4")
  /\ \E t \in worker[w].since .. now : Touch(w, t)
  /\ Done(w)
  /\ UNCHANGED <<phase, now, config, used, by4, mapped, dormant, dirty, ticker>>

\* Mutant of Probe: the mask is dropped.
ProbeUnmasked(a, i) == Hash[a] + i

\* The offset probed at step i.
Probe(a, i) == (Hash[a] + i) % (PoolMax + 1)

\* What p.reserved answers from at step i, if a Build falls just before step k.
Asked(i, k) == IF i < k THEN reserved ELSE reserved'

\* Mutants of Free: p.reserved, or isUsed, is not asked.
FreeOrReserved(off, claimed) == off # 0 /\ off \notin used
FreeOrUsed(off, claimed) == off # 0 /\ off \notin claimed

\* The probing loop's continue conditions, negated.
Free(off, claimed) == off # 0 /\ off \notin used /\ off \notin claimed

\* Mutant of Stops: the loop ends one step early.
StopsShort(a, k) == {i \in 0 .. PoolMax - 1 : Free(Probe(a, i), Asked(i, k))}

\* The steps at which the probe of a would stop.
Stops(a, k) == {i \in 0 .. PoolMax : Free(Probe(a, i), Asked(i, k))}

DormantOffsets == {dormant[h] : h \in Hosts} \ {Nil}

\* Mutants of Oldest: the comparison is turned round; all assignments compete.
OldestNewest == {o \in DormantOffsets :
                   \A p \in DormantOffsets : host[o].lastUse >= host[p].lastUse}
OldestOfAll == {o \in by4 : \A p \in by4 : host[o].lastUse <= host[p].lastUse}

\* The dormant dynHosts least recently used: iteration order picks one.
Oldest == {o \in DormantOffsets :
             \A p \in DormantOffsets : host[o].lastUse <= host[p].lastUse}

\* assign: another worker has mapped the host since lookup6 missed it.
AssignMapped(a, t) ==
  /\ mapped[a] # Nil
  /\ host' = [host EXCEPT ![mapped[a]].lastUse = t]
  /\ UNCHANGED <<used, by4, mapped, dormant, dirty>>

\* Mutant of AssignDormant: the dormant entry is not deleted.
AssignDormantKept(a, t) ==
  /\ mapped[a] = Nil /\ dormant[a] # Nil
  /\ host' = [host EXCEPT ![dormant[a]] =
                [v6 |-> @.v6, lastUse |-> t, dormant |-> FALSE]]
  /\ mapped' = [mapped EXCEPT ![host[dormant[a]].v6] = dormant[a]]
  /\ UNCHANGED <<used, by4, dormant, dirty>>

\* assign: the host has a dormant assignment; activate it.
AssignDormant(a, t) ==
  /\ mapped[a] = Nil /\ dormant[a] # Nil
  /\ host' = [host EXCEPT ![dormant[a]] =
                [v6 |-> @.v6, lastUse |-> t, dormant |-> FALSE]]
  /\ mapped' = [mapped EXCEPT ![host[dormant[a]].v6] = dormant[a]]
  /\ dormant' = [dormant EXCEPT ![host[dormant[a]].v6] = Nil]
  /\ UNCHANGED <<used, by4, dirty>>

\* assign: the first free offset from the host's hash on.
AssignFree(a, t, k) ==
  /\ mapped[a] = Nil /\ dormant[a] = Nil
  /\ \E i \in Stops(a, k) :
       /\ \A j \in Stops(a, k) : i <= j
       /\ LET off == Probe(a, i) IN
            /\ used' = used \cup {off}
            /\ by4' = by4 \cup {off}
            /\ host' = [host EXCEPT ![off] =
                          [v6 |-> a, lastUse |-> t, dormant |-> FALSE]]
            /\ mapped' = [mapped EXCEPT ![a] = off]
  /\ dirty' = TRUE
  /\ UNCHANGED dormant

\* Mutant of AssignOldest: the pool is not marked dirty.
AssignOldestClean(a, t, k) ==
  /\ mapped[a] = Nil /\ dormant[a] = Nil /\ Stops(a, k) = {}
  /\ \E o \in Oldest :
       /\ host' = [host EXCEPT ![o] = [v6 |-> a, lastUse |-> t, dormant |-> FALSE]]
       /\ mapped' = [mapped EXCEPT ![a] = o]
       /\ dormant' = [dormant EXCEPT ![host[o].v6] = Nil]
  /\ UNCHANGED <<used, by4, dirty>>

\* assign: no free offset; take over the least recently used dormant one.
AssignOldest(a, t, k) ==
  /\ mapped[a] = Nil /\ dormant[a] = Nil /\ Stops(a, k) = {}
  /\ \E o \in Oldest :
       /\ host' = [host EXCEPT ![o] = [v6 |-> a, lastUse |-> t, dormant |-> FALSE]]
       /\ mapped' = [mapped EXCEPT ![a] = o]
       /\ dormant' = [dormant EXCEPT ![host[o].v6] = Nil]
  /\ dirty' = TRUE
  /\ UNCHANGED <<used, by4>>

\* assign: the pool is exhausted and the packet is rejected.
AssignNone(a, k) ==
  /\ mapped[a] = Nil /\ dormant[a] = Nil /\ Stops(a, k) = {}
  /\ DormantOffsets = {}
  /\ UNCHANGED <<table, dirty>>

\* assign as a whole, with the Build that falls into it, if there is one.
Assign(w) ==
  /\ Working(w, "assign") /\ Unlocked
  /\ reserved' \in ReservedSets
  /\ \E t \in worker[w].since .. now, k \in Offsets :
       \/ AssignMapped(worker[w].a, t)
       \/ AssignDormant(worker[w].a, t)
       \/ AssignFree(worker[w].a, t, k)
       \/ AssignOldest(worker[w].a, t, k)
       \/ AssignNone(worker[w].a, k)
  /\ Done(w)
  /\ UNCHANGED <<phase, now, minLease, maxLease, ticker>>

-----------------------------------------------------------------------------
(* The maintenance ticker: Maintain, then Save if dirty.                   *)

Ticking(at) == phase = "running" /\ ticker.at = at

\* Maintain reads the clock and, without the lock, each of the two leases.
MaintainNow ==
  /\ Ticking("idle")
  /\ ticker' = [at |-> "max", t |-> now, min |-> minLease, max |-> 0]
  /\ UNCHANGED <<phase, now, config, table, dirty, worker>>

MaintainMax ==
  /\ Ticking("max")
  /\ ticker' = [ticker EXCEPT !.at = "demote", !.max = maxLease]
  /\ UNCHANGED <<phase, now, config, table, dirty, worker>>

\* The hosts Maintain's first loop finds unused for the minimum lease.
Idle == {h \in Hosts : mapped[h] # Nil /\ host[mapped[h]].lastUse + ticker.min < ticker.t}

\* Maintain takes the lock; its first loop makes idle assignments dormant.
MaintainDemote ==
  /\ Ticking("demote")
  /\ mapped' = [h \in Hosts |-> IF h \in Idle THEN Nil ELSE mapped[h]]
  /\ dormant' = [h \in Hosts |-> IF h \in Idle THEN mapped[h] ELSE dormant[h]]
  /\ host' = [o \in Offsets |-> IF \E h \in Idle : mapped[h] = o
                THEN [host[o] EXCEPT !.dormant = TRUE] ELSE host[o]]
  /\ ticker' = [ticker EXCEPT !.at = "release"]
  /\ UNCHANGED <<phase, now, config, used, by4, dirty, worker>>

\* Mutants of Expired: the wrong lease is compared; the wrong index is read.
ExpiredEarly ==
  {h \in Hosts : dormant[h] # Nil /\ host[dormant[h]].lastUse + ticker.min < ticker.t}
ExpiredMapped ==
  {h \in Hosts : mapped[h] # Nil /\ host[mapped[h]].lastUse + ticker.max < ticker.t}

\* The hosts Maintain's second loop finds unused for the maximum lease.
Expired ==
  {h \in Hosts : dormant[h] # Nil /\ host[dormant[h]].lastUse + ticker.max < ticker.t}

\* Maintain's second loop releases expired assignments; then it unlocks.
MaintainRelease ==
  /\ Ticking("release")
  /\ LET offs == {dormant[h] : h \in Expired}
     IN /\ dormant' = [h \in Hosts |-> IF h \in Expired THEN Nil ELSE dormant[h]]
        /\ by4' = by4 \ offs
        /\ used' = used \ offs
        /\ host' = [o \in Offsets |-> IF o \in offs THEN NoLease ELSE host[o]]
        /\ dirty' = (dirty \/ Expired # {})
        /\ worker' = [w \in Workers |-> IF worker[w].d \in offs
                        THEN [worker[w] EXCEPT !.orphan = TRUE] ELSE worker[w]]
  /\ ticker' = [ticker EXCEPT !.at = "save"]
  /\ UNCHANGED <<phase, now, config, mapped>>

\* savePoolState: Save clears dirty once it has written the assignments; it
\* leaves it set if it cannot create or write the file.
SaveState ==
  /\ Ticking("save")
  /\ dirty' \in {FALSE, dirty}
  /\ ticker' = Resting
  /\ UNCHANGED <<phase, now, config, table, worker>>

-----------------------------------------------------------------------------
(* A reload keeps the pool and changes its leases and reserved addresses.  *)

SetLeases(l) ==
  /\ phase = "running" /\ Unlocked
  /\ minLease' = l[1] /\ maxLease' = l[2]
  /\ UNCHANGED <<phase, now, reserved, table, dirty, worker, ticker>>

\* Table.Build replaces p.reserved, without the lock.
Build(S) ==
  /\ phase = "running"
  /\ reserved' = S
  /\ UNCHANGED <<phase, now, minLease, maxLease, table, dirty, worker, ticker>>

Tick ==
  /\ phase = "running" /\ now < MaxTime
  /\ now' = now + 1
  /\ UNCHANGED <<phase, config, table, dirty, worker, ticker>>

Load == \/ \E off \in Offsets, v6 \in Hosts, last \in 1 .. MaxTime : LoadLine(off, v6, last)
        \/ LoadEnd
        \/ LoadError
Packet(w) == \/ \E a \in Hosts : Lookup6(w, a)
             \/ Store6(w)
             \/ \E off \in Offsets : Lookup4(w, off)
             \/ Check4(w)
             \/ Store4(w)
             \/ Assign(w)
Maintain == MaintainNow \/ MaintainMax \/ MaintainDemote \/ MaintainRelease \/ SaveState
Reload == \/ \E l \in LeaseChoices : SetLeases(l)
          \/ \E S \in ReservedSets : Build(S)

Next == Load \/ (\E w \in Workers : Packet(w)) \/ Maintain \/ Reload \/ Tick

Spec == Init /\ [][Next]_vars

-----------------------------------------------------------------------------
(* Properties.                                                             *)

\* Every variable has the type its Go counterpart has.
TypeOK ==
  /\ phase \in {"loading", "running"}
  /\ now \in 1 .. MaxTime
  /\ minLease \in Nat /\ maxLease \in Nat
  /\ reserved \in ReservedSets
  /\ used \subseteq 0 .. PoolMax
  /\ by4 \subseteq Offsets
  /\ host \in [Offsets -> DynHost]
  /\ mapped \in [Hosts -> 0 .. PoolMax]
  /\ dormant \in [Hosts -> 0 .. PoolMax]
  /\ dirty \in BOOLEAN
  /\ worker \in [Workers -> WorkerState]
  /\ ticker \in TickerState

\* The bitmap, the address index, the two host indexes and the dynHosts'
\* own fields describe the same assignments: an offset is marked used iff
\* by4 has it; by4's dynHost is in exactly one of mapped and dormant, the one
\* its flag names, under the key it carries; and the host indexes hold
\* nothing else.  A leak of an address, or one lent to two hosts, breaks it.
Consistent ==
  /\ used = by4 \cup {0}
  /\ \A o \in by4 :
       /\ host[o].v6 \in Hosts
       /\ mapped[host[o].v6] = IF host[o].dormant THEN Nil ELSE o
       /\ dormant[host[o].v6] = IF host[o].dormant THEN o ELSE Nil
  /\ \A h \in Hosts :
       /\ mapped[h] # Nil => mapped[h] \in by4 /\ host[mapped[h]].v6 = h
       /\ dormant[h] # Nil => dormant[h] \in by4 /\ host[dormant[h]].v6 = h

\* Who holds each address.
Owner == [o \in Offsets |-> IF o \in by4 THEN host[o].v6 ELSE NoHost]

\* The addresses whose holder is mapped.
Active == {o \in by4 : ~host[o].dormant}

\* No address that the table claims for something else is lent, while the
\* set of such addresses stays what it was when the pool was built.
NoReservedLent == by4 \cap reserved = {}

\* With a single packet goroutine, the address lookup6 is about to return is
\* held by the host that asked, unless Maintain has released it in between
\* (no other goroutine can lend or reassign it during the lookup).
AnswerHeldByAsker ==
  \A w \in Workers :
    worker[w].at = "hit6" /\ ~worker[w].orphan => Owner[worker[w].d] = worker[w].a

\* Save is skipped only if nothing needs saving: every step that lends,
\* reassigns or releases an address leaves the pool dirty.
DirtyTracksOwner ==
  [][phase = "running" /\ Owner' # Owner => dirty']_vars

\* An address leaves its holder only by expiry of the maximum lease (as the
\* ticker read it) or by takeover, and a takeover happens only when every
\* address is lent or reserved (by the table before the step or the one after
\* it) and hits the least recently used of the dormant assignments; it never
\* hits an active one.
LeavesHolderOnlyWhenDue ==
  [][\A o \in by4 :
       Owner'[o] # Owner[o] =>
         /\ host[o].dormant
         /\ \/ /\ Owner'[o] = NoHost
               /\ host[o].lastUse + ticker.max < ticker.t
            \/ /\ Owner'[o] # NoHost
               /\ \A p \in Offsets : p \in by4 \/ p \in reserved \cup reserved'
               /\ \A p \in by4 : host[p].dormant => host[o].lastUse <= host[p].lastUse
    ]_vars

\* A worker whose host has no assignment gives up only when every address is
\* actively used or reserved, by the table it started under or one built since:
\* the probe visits the whole pool whatever offset it starts from, and no
\* dormant address goes unused.
RejectedOnlyWhenFull ==
  [][\A w \in Workers :
       worker[w].at = "assign" /\ worker'[w].at = "idle" =>
         \/ mapped'[worker[w].a] # Nil
         \/ \A o \in Offsets : o \in reserved \cup reserved' \/ (o \in by4 /\ ~host[o].dormant)
    ]_vars

\* An address a table claims for a static entry or the translator itself is
\* never handed to a host, whatever reloads have done in between (a table that
\* is replaced in that very step may or may not count).
HandedOutUnreserved ==
  [][\A o \in Offsets :
       Owner'[o] # Owner[o] /\ Owner'[o] # NoHost => o \notin reserved \cap reserved']_vars

\* A packet keeps the assignment it is translated through mapped: once lookup6
\* has stored its time of use and returned, the host is still mapped to it.
UsedStaysMapped ==
  [][\A w \in Workers :
       worker[w].at = "hit6" /\ worker'[w].at = "idle" =>
         mapped'[worker[w].a] = worker[w].d]_vars

\* The pool keeps the promise of Leases: addresses are lent one to a host, and
\* change hands or are freed only while dormant.
L == INSTANCE Leases WITH owner <- Owner, active <- Active
KeepsLeases == L!Spec

\* The daemon's ticker fires for as long as Run is in its loop.
FairSpec == Spec /\ WF_vars(Maintain) /\ WF_vars(Load)

\* Every assignment idle for longer than the maximum lease is eventually
\* released, unless it is used again: Maintain's two loops reach it wherever
\* it is, mapped or dormant.
ExpiredIsReleased ==
  \A o \in Offsets :
    (o \in by4 /\ host[o].lastUse + maxLease < now)
      ~> (o \notin by4 \/ host[o].lastUse + maxLease >= now)

=============================================================================
