------------------------------ MODULE StateFile -----------------------------
(***************************************************************************)
(* The pool's state file: Pool.Save (internal/addrmap/pool.go), called by  *)
(* Run's ticker when the pool is dirty and by Run on its way out, both in  *)
(* the goroutine "run", and by Apply before it replaces the pool, in       *)
(* another goroutine.  Between them: crashes, and a restart that loads.    *)
(*                                                                         *)
(* The assignments are a version number.  A file is an inode; path and     *)
(* path~~ are directory entries.  An inode's data is the version written   *)
(* to it, Blank, or Torn (anything else: part of a version, two versions   *)
(* laid over each other, a hole left by a truncation).  Load gives the     *)
(* pool all that the file holds or, when it fails or refuses lines, a part *)
(* of it, which counts as an earlier version; the daemon goes on with it.  *)
(***************************************************************************)
EXTENDS Naturals

CONSTANTS
  Savers,       \* goroutines that may be in Save: {"run"} or {"run", "apply"}
  MaxVersion,   \* bound on the changes to the pool
  RenameFails,  \* whether Close or Rename can fail
  Blank, Torn   \* data that is no version

ASSUME StateFileAssumption ==
  /\ "run" \in Savers /\ Savers \subseteq {"run", "apply"}
  /\ MaxVersion \in Nat /\ RenameFails \in BOOLEAN
  /\ Blank \notin 0 .. MaxVersion /\ Torn \notin 0 .. MaxVersion /\ Blank # Torn

VARIABLES
  version,   \* the pool's assignments
  dirty,     \* p.dirty
  loaded,    \* FALSE from a Load of part of the file until a Save replaces it
  stopping,  \* Run has left its loop
  path, tmp, \* the inodes the two names refer to, or None
  data,      \* each inode's data
  saver      \* each goroutine: where in Save, its file, the version it writes

None == 0
Inodes == 1 .. 4
Versions == 0 .. MaxVersion
Places == {"idle", "open", "write", "writing", "close", "rename", "remove"}
SaverState == [at: Places, ino: Inodes \cup {None}, snap: Versions, over: BOOLEAN]
Quiet == [at |-> "idle", ino |-> None, snap |-> 0, over |-> FALSE]
vars == <<version, dirty, loaded, stopping, path, tmp, data, saver>>

Init ==
  /\ version = 0 /\ dirty = FALSE /\ loaded = TRUE /\ stopping = FALSE
  /\ path = None /\ tmp = None
  /\ data = [i \in Inodes |-> Blank]
  /\ saver = [s \in Savers |-> Quiet]

\* Mutant of Unlocked: write does not take the lock.
UnlockedAlways == TRUE

\* p.mu is free: write holds it.
Unlocked == \A s \in Savers : saver[s].at # "writing"

\* An assignment is created, reassigned or released.  Before Run leaves its
\* loop for good the engine has stopped.
Change ==
  /\ Unlocked /\ ~stopping /\ version < MaxVersion
  /\ version' = version + 1 /\ dirty' = TRUE
  /\ UNCHANGED <<loaded, stopping, path, tmp, data, saver>>

-----------------------------------------------------------------------------
(* Save.                                                                   *)

Goes(s, at) == saver' = [saver EXCEPT ![s].at = at]

\* savePoolState: the ticker saves a dirty pool, without holding d.mu.
SaveTick ==
  /\ saver["run"].at = "idle" /\ ~stopping /\ dirty
  /\ Goes("run", "open")
  /\ UNCHANGED <<version, dirty, loaded, stopping, path, tmp, data>>

\* Run, on its way out, and Apply hold d.mu and save any pool.
SaveStop ==
  /\ saver["run"].at = "idle" /\ ~stopping
  /\ \A s \in Savers : saver[s].at = "idle"
  /\ stopping' = TRUE /\ Goes("run", "open")
  /\ UNCHANGED <<version, dirty, loaded, path, tmp, data>>

SaveApply(s) ==
  /\ s = "apply" /\ saver[s].at = "idle"
  /\ stopping => saver["run"].at = "idle"
  /\ Goes(s, "open")
  /\ UNCHANGED <<version, dirty, loaded, stopping, path, tmp, data>>

\* The file that O_CREATE|O_TRUNC opens: the one named path~~, or a new one.
Opened ==
  IF tmp # None THEN tmp
  ELSE CHOOSE i \in Inodes : i # path /\ \A s \in Savers : saver[s].ino # i

Open(s) ==
  /\ saver[s].at = "open"
  /\ \/ /\ tmp' = Opened
        /\ data' = [data EXCEPT ![Opened] = Blank]
        /\ saver' = [saver EXCEPT ![s] = [at |-> "write", ino |-> Opened,
                                          snap |-> 0, over |-> FALSE]]
     \/ saver' = [saver EXCEPT ![s] = Quiet] /\ UNCHANGED <<tmp, data>>
  /\ UNCHANGED <<version, dirty, loaded, stopping, path>>

\* write takes the lock and fixes what it writes; the first block is out.
WriteBegin(s) ==
  /\ saver[s].at = "write" /\ Unlocked
  /\ LET i == saver[s].ino IN
       /\ data' = [data EXCEPT ![i] = Torn]
       /\ saver' = [saver EXCEPT ![s] = [at |-> "writing", ino |-> i, snap |-> version,
                                         over |-> data[i] # Blank]]
  /\ UNCHANGED <<version, dirty, loaded, stopping, path, tmp>>

\* What the file may hold after the last block: the version, but if another
\* Open has truncated it meanwhile, the rest of it; and if it held other data
\* when this write began, perhaps a remainder of that.
Written(s) ==
  IF data[saver[s].ino] = Blank THEN {Blank, Torn}
  ELSE {saver[s].snap} \cup (IF saver[s].over THEN {Torn} ELSE {})

\* Mutant of WriteEnd: the error of a write is lost.
WriteEndBlind(s) ==
  /\ saver[s].at = "writing"
  /\ \E d \in Written(s) \cup {Torn} : data' = [data EXCEPT ![saver[s].ino] = d]
  /\ dirty' = FALSE
  /\ Goes(s, "close")
  /\ UNCHANGED <<version, loaded, stopping, path, tmp>>

\* The last block is out, dirty is cleared and the lock released; or a block
\* cannot be written and dirty stays.
WriteEnd(s) ==
  /\ saver[s].at = "writing"
  /\ \/ /\ \E d \in Written(s) : data' = [data EXCEPT ![saver[s].ino] = d]
        /\ dirty' = FALSE
        /\ Goes(s, "close")
     \/ Goes(s, "remove") /\ UNCHANGED <<data, dirty>>
  /\ UNCHANGED <<version, loaded, stopping, path, tmp>>

Close(s) ==
  /\ saver[s].at = "close"
  /\ Goes(s, "rename") \/ (RenameFails /\ Goes(s, "remove"))
  /\ UNCHANGED <<version, dirty, loaded, stopping, path, tmp, data>>

\* Mutant of Rename: the file is linked, and path~~ keeps its name.
RenameLinks(s) ==
  /\ saver[s].at = "rename" /\ tmp # None
  /\ path' = tmp /\ loaded' = TRUE
  /\ saver' = [saver EXCEPT ![s] = Quiet]
  /\ UNCHANGED <<version, dirty, stopping, tmp, data>>

\* Whatever file is named path~~ by now becomes path.
Rename(s) ==
  /\ saver[s].at = "rename"
  /\ \/ /\ tmp # None
        /\ path' = tmp /\ tmp' = None /\ loaded' = TRUE
        /\ saver' = [saver EXCEPT ![s] = Quiet]
     \/ /\ tmp = None \/ RenameFails
        /\ Goes(s, "remove") /\ UNCHANGED <<path, tmp, loaded>>
  /\ UNCHANGED <<version, dirty, stopping, data>>

\* Mutant of Remove: the wrong name is removed.
RemovePath(s) ==
  /\ saver[s].at = "remove"
  /\ path' = None
  /\ saver' = [saver EXCEPT ![s] = Quiet]
  /\ UNCHANGED <<version, dirty, loaded, stopping, tmp, data>>

Remove(s) ==
  /\ saver[s].at = "remove"
  /\ tmp' = None
  /\ saver' = [saver EXCEPT ![s] = Quiet]
  /\ UNCHANGED <<version, dirty, loaded, stopping, path, data>>

-----------------------------------------------------------------------------

\* What the file at path holds: no version if there is none, or none whole.
OnDisk == IF path # None /\ data[path] \in Versions THEN data[path] ELSE 0

\* What Load may make of the file if it cannot be opened, if reading it fails
\* part of the way, if lines are refused (an address that is reserved by now,
\* or outside the pool), or if it is not whole: any part of it.
Parts == IF path = None THEN {} ELSE IF data[path] = Torn THEN Versions ELSE 0 .. OnDisk

\* The process dies, or has stopped, and is started again.  New loads the
\* file; a missing one is no error, any other error is only logged.  Load
\* leaves dirty alone, so the new pool is clean either way.
Restart ==
  /\ \/ /\ path # None => data[path] \in Versions
        /\ version' = OnDisk /\ loaded' = TRUE
     \/ version' \in Parts /\ loaded' = FALSE
  /\ dirty' = FALSE /\ stopping' = FALSE
  /\ saver' = [s \in Savers |-> Quiet]
  /\ UNCHANGED <<path, tmp, data>>

Save(s) == \/ SaveApply(s) \/ Open(s) \/ WriteBegin(s) \/ WriteEnd(s)
           \/ Close(s) \/ Rename(s) \/ Remove(s)

Next == Change \/ SaveTick \/ SaveStop \/ (\E s \in Savers : Save(s)) \/ Restart

Spec == Init /\ [][Next]_vars

-----------------------------------------------------------------------------
(* Properties.                                                             *)

\* Every variable has its type, and no file has both names.
TypeOK ==
  /\ version \in Versions /\ dirty \in BOOLEAN
  /\ loaded \in BOOLEAN /\ stopping \in BOOLEAN
  /\ path \in Inodes \cup {None} /\ tmp \in Inodes \cup {None}
  /\ tmp # None => tmp # path
  /\ data \in [Inodes -> Versions \cup {Blank, Torn}]
  /\ saver \in [Savers -> SaverState]

\* Save is atomic: whenever the process dies, the file at path holds the whole
\* of some version, or there is none yet.
WholeAtPath == path # None => data[path] \in Versions

\* Only a Load that took in part of the file can cost assignments: as long as
\* the pool stems from all of it, no save, failed save, crash or restart takes
\* the file back to an older version.
DiskNeverOlder == [][loaded => OnDisk' >= OnDisk]_vars

\* write holds the lock from the first block to the last: what is being
\* written is the pool as it is, not as it was when the write began.
WritesPresent == \A s \in Savers : saver[s].at = "writing" => saver[s].snap = version

\* Dirty can be relied on: a pool that is not dirty, and no save of which is
\* between clearing dirty and its end, is what the file holds, unless Load
\* took in only part of that file and no Save has replaced it since.
CleanMeansSaved ==
  loaded /\ ~dirty /\ (\A s \in Savers : saver[s].at \notin {"close", "rename", "remove"})
    => OnDisk = version

=============================================================================
