------------------------------- MODULE Leases -------------------------------
(***************************************************************************)
(* What the dynamic pool promises its hosts, without its indexes, locks    *)
(* and clocks (the comment on type Pool in internal/addrmap/pool.go): an   *)
(* address has one holder and a host one address; a holder is active or    *)
(* dormant; an address changes hands, or becomes free, only while dormant. *)
(***************************************************************************)
EXTENDS TLAPS

CONSTANTS Hosts, NoHost, Offsets

VARIABLES
  owner,   \* the holder of each address, or NoHost
  active   \* the addresses whose holder is active

lease == <<owner, active>>

Held == {o \in Offsets : owner[o] # NoHost}
HasNone(h) == \A o \in Offsets : owner[o] # h

Init == owner = [o \in Offsets |-> NoHost] /\ active = {}

\* A saved assignment is read back.
Restore(o, h) ==
  /\ o \notin Held /\ HasNone(h)
  /\ owner' = [owner EXCEPT ![o] = h]
  /\ UNCHANGED active

\* Holders become active again, at the same addresses.
Wake(S) == S \subseteq Held /\ active' = active \cup S /\ UNCHANGED owner

\* A free address, or a dormant holder's, goes to a host that has none.
Lend(o, h) ==
  /\ o \notin active /\ HasNone(h)
  /\ owner' = [owner EXCEPT ![o] = h]
  /\ active' = active \cup {o}

\* Idle holders become dormant.
Rest(S) == S \subseteq active /\ active' = active \ S /\ UNCHANGED owner

\* Dormant holders lose their address.
Reclaim(S) ==
  /\ S \subseteq Held \ active
  /\ owner' = [o \in Offsets |-> IF o \in S THEN NoHost ELSE owner[o]]
  /\ UNCHANGED active

Next ==
  \/ \E o \in Offsets, h \in Hosts : Restore(o, h) \/ Lend(o, h)
  \/ \E S \in SUBSET Offsets : Wake(S) \/ Rest(S) \/ Reclaim(S)

Spec == Init /\ [][Next]_lease

\* No host holds two addresses and every active address has a holder.
OneAddressPerHost ==
  /\ owner \in [Offsets -> Hosts \cup {NoHost}]
  /\ active \subseteq Held
  /\ \A o, p \in Held : owner[o] = owner[p] => o = p

\* The promise of the pool keeps one address per host, and an active address
\* held: whatever implements it never lends an address to two hosts.
THEOREM LeasesAreExclusive == ASSUME NoHost \notin Hosts PROVE Spec => []OneAddressPerHost
<1>1. Init => OneAddressPerHost
  BY DEF Init, OneAddressPerHost, Held
<1>2. OneAddressPerHost /\ [Next]_lease => OneAddressPerHost'
  <2> SUFFICES ASSUME OneAddressPerHost, [Next]_lease PROVE OneAddressPerHost'
    OBVIOUS
  <2> USE DEF OneAddressPerHost, Held
  <2>1. ASSUME NEW o \in Offsets, NEW h \in Hosts, Restore(o, h) PROVE OneAddressPerHost'
    BY <2>1 DEF Restore, HasNone
  <2>2. ASSUME NEW o \in Offsets, NEW h \in Hosts, Lend(o, h) PROVE OneAddressPerHost'
    BY <2>2 DEF Lend, HasNone
  <2>3. ASSUME NEW S \in SUBSET Offsets, Wake(S) \/ Rest(S) PROVE OneAddressPerHost'
    BY <2>3 DEF Wake, Rest
  <2>4. ASSUME NEW S \in SUBSET Offsets, Reclaim(S) PROVE OneAddressPerHost'
    BY <2>4 DEF Reclaim
  <2>5. CASE UNCHANGED lease
    BY <2>5 DEF lease
  <2> QED
    BY <2>1, <2>2, <2>3, <2>4, <2>5 DEF Next
<1> QED
  BY <1>1, <1>2, PTL DEF Spec

=============================================================================
