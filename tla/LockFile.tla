------------------------------ MODULE LockFile ------------------------------
(***************************************************************************)
(* bb.utils.lockfile and unlockfile (utils.py): one lock file, any number  *)
(* of processes.  The file is removed by whoever unlocks it last, so a     *)
(* process may get an flock on a file that is no longer the one on disk;   *)
(* lockfile compares inode numbers and starts again.  A step is a system   *)
(* call.  An inode number is free for reuse once no name and no open file  *)
(* refers to it.  Left out: an open that fails, and the directory that is  *)
(* not writable, for which lockfile() ends the process.                    *)
(***************************************************************************)
EXTENDS FiniteSets

CONSTANTS
  Procs, Inodes,
  NoFile,          \* not an inode: no such file, or not open
  Calls,           \* the (shared, retry, block) callers pass
  MayInterrupt,    \* whether a signal may break a blocking flock (timeout())
  MayDie,          \* whether a process may die, or close a lock it holds
  AtomicConversion \* whether flock turns a shared lock into an exclusive one
                   \* in one step; flock(2) does not promise it

ASSUME NoFileFresh == NoFile \notin Inodes
ASSUME CallsType == Calls \subseteq [shared : BOOLEAN, retry : BOOLEAN,
                                     block : BOOLEAN]
ASSUME FlagsType == {MayInterrupt, MayDie, AtomicConversion} \subseteq BOOLEAN

VARIABLES
  pc,    \* the system call a process makes next
  call,  \* the arguments of its last lockfile()
  fd,    \* the inode of its open lock file
  lock,  \* the flock it has on it: "none", "shared" or "exclusive"
  path,  \* the inode the lock file's name refers to
  lost   \* history: somebody broke off a call, died, closed without unlock,
         \* or could not promote a shared lock

vars == <<pc, call, fd, lock, path, lost>>

Init == /\ pc = [p \in Procs |-> "idle"]
        /\ call \in [Procs -> Calls]
        /\ fd = [p \in Procs |-> NoFile]
        /\ lock = [p \in Procs |-> "none"]
        /\ path = NoFile
        /\ lost = FALSE

Kind(p) == IF call[p].shared THEN "shared" ELSE "exclusive"

Goto(p, s) == pc' = [pc EXCEPT ![p] = s]

(* The other processes with an flock on p's file.                          *)
Rivals(p) == {q \in Procs \ {p} : fd[q] = fd[p] /\ lock[q] # "none"}

Compatible(p, kind) ==
  \A q \in Rivals(p) : kind = "shared" /\ lock[q] = "shared"

-----------------------------------------------------------------------------
(* lockfile(name, shared, retry, block).                                   *)

Lock(p) == /\ pc[p] \in {"idle", "refused"}
           /\ \E c \in Calls : call' = [call EXCEPT ![p] = c]
           /\ Goto(p, "open")
           /\ UNCHANGED <<fd, lock, path, lost>>

(* open(name, 'a+') creates the file when there is none.                   *)
Open(p) == /\ pc[p] = "open"
           /\ \E i \in Inodes : /\ \/ path = i
                                   \/ path = NoFile /\ \A q \in Procs : fd[q] # i
                                /\ fd' = [fd EXCEPT ![p] = i]
                                /\ path' = i
           /\ Goto(p, "flock")
           /\ UNCHANGED <<call, lock, lost>>

Flock(p) == /\ pc[p] = "flock" /\ Compatible(p, Kind(p))
            /\ lock' = [lock EXCEPT ![p] = Kind(p)]
            /\ Goto(p, "exists")
            /\ UNCHANGED <<call, fd, path, lost>>

(* LOCK_NB, asked for when neither retry nor block is.                     *)
NonBlocking(p) == ~call[p].retry /\ ~call[p].block

FlockRefused(p) == /\ pc[p] = "flock" /\ NonBlocking(p)
                   /\ ~Compatible(p, Kind(p))
                   /\ Goto(p, "close")
                   /\ UNCHANGED <<call, fd, lock, path, lost>>

(* The alarm of bb.utils.timeout, or another signal, raises from flock, as *)
(* the one caller with block=True expects (cooker.post_serve).             *)
FlockInterrupted(p) == /\ MayInterrupt
                       /\ pc[p] = "flock" /\ call[p].block
                       /\ Goto(p, "close")
                       /\ lost' = TRUE
                       /\ UNCHANGED <<call, fd, lock, path>>

(* Mutated form: flock is tried again on the file already open.            *)
StartOver_SameFile == "flock"

(* Where the loop goes on when the file locked is not the one on disk.     *)
StartOver == "close"

Exists(p) == /\ pc[p] = "exists"
             /\ Goto(p, IF path # NoFile THEN "stat" ELSE StartOver)
             /\ UNCHANGED <<call, fd, lock, path, lost>>

(* Mutated form: the inode numbers are not compared.                       *)
SameFile_Any(p) == path # NoFile

(* os.stat(lf.name) succeeds and shows the inode p has locked.             *)
SameFile(p) == path = fd[p]

Stat(p) == /\ pc[p] = "stat"
           /\ Goto(p, IF SameFile(p) THEN "held" ELSE StartOver)
           /\ UNCHANGED <<call, fd, lock, path, lost>>

(* lf.close(), then round the loop again or return None.                   *)
Close(p) == /\ pc[p] = "close"
            /\ fd' = [fd EXCEPT ![p] = NoFile]
            /\ lock' = [lock EXCEPT ![p] = "none"]
            /\ Goto(p, IF call[p].retry THEN "open" ELSE "refused")
            /\ UNCHANGED <<call, path, lost>>

-----------------------------------------------------------------------------
(* unlockfile(lf).                                                         *)

(* A conversion that is not atomic gives the shared lock up first.         *)
Unlock(p) == /\ pc[p] = "held"
             /\ Goto(p, "promote")
             /\ lock' = IF AtomicConversion \/ lock[p] = "exclusive" THEN lock
                        ELSE [lock EXCEPT ![p] = "none"]
             /\ UNCHANGED <<call, fd, path, lost>>

(* Mutated form: the file is removed whoever else has it locked.           *)
MayRemove_Any(p) == TRUE

(* flock(LOCK_EX | LOCK_NB) succeeds.                                      *)
MayRemove(p) == Compatible(p, "exclusive")

(* A failed conversion loses the lock; the failure is ignored.             *)
Promote(p) == /\ pc[p] = "promote"
              /\ IF MayRemove(p)
                   THEN /\ Goto(p, "unlink") /\ UNCHANGED lost
                        /\ lock' = [lock EXCEPT ![p] = "exclusive"]
                   ELSE /\ Goto(p, "drop") /\ lost' = (lost \/ call[p].shared)
                        /\ lock' = [lock EXCEPT ![p] = "none"]
              /\ UNCHANGED <<call, fd, path>>

(* Mutated form: the file is left behind.                                  *)
AfterUnlink_Left == path

(* The name goes, whatever file it refers to.                              *)
AfterUnlink == NoFile

Unlink(p) == /\ pc[p] = "unlink"
             /\ path' = AfterUnlink
             /\ Goto(p, "drop")
             /\ UNCHANGED <<call, fd, lock, lost>>

(* LOCK_UN and close().                                                    *)
Drop(p) == /\ pc[p] = "drop"
           /\ fd' = [fd EXCEPT ![p] = NoFile]
           /\ lock' = [lock EXCEPT ![p] = "none"]
           /\ Goto(p, "idle")
           /\ UNCHANGED <<call, path, lost>>

-----------------------------------------------------------------------------
(* The process ends, wherever it is, or closes a lock it holds without     *)
(* unlocking it (cooker.post_serve): the file stays.                       *)
Die(p) == /\ MayDie /\ pc[p] \notin {"idle", "refused"}
          /\ fd' = [fd EXCEPT ![p] = NoFile]
          /\ lock' = [lock EXCEPT ![p] = "none"]
          /\ Goto(p, "idle")
          /\ lost' = TRUE
          /\ UNCHANGED <<call, path>>

Acquire(p) == \/ Open(p) \/ Flock(p) \/ FlockRefused(p) \/ FlockInterrupted(p)
              \/ Exists(p) \/ Stat(p) \/ Close(p)
Release(p) == Unlock(p) \/ Promote(p) \/ Unlink(p) \/ Drop(p)

Next == \E p \in Procs : Lock(p) \/ Acquire(p) \/ Release(p) \/ Die(p)

Spec == Init /\ [][Next]_vars

(* A process that is in lockfile or holds a lock goes on; the kernel       *)
(* grants a lock to some process that waits for it, not to a given one.    *)
FairSpec == /\ Spec
            /\ \A p \in Procs : WF_vars(Acquire(p)) /\ WF_vars(Release(p))

-----------------------------------------------------------------------------
(* Properties.                                                             *)

Pcs == {"idle", "refused", "open", "flock", "exists", "stat", "close",
        "held", "promote", "unlink", "drop"}
Locks == {"none", "shared", "exclusive"}

(* Types of the variables.                                                 *)
TypeOK == /\ pc \in [Procs -> Pcs]
          /\ call \in [Procs -> Calls]
          /\ fd \in [Procs -> Inodes \cup {NoFile}]
          /\ lock \in [Procs -> Locks]
          /\ path \in Inodes \cup {NoFile}
          /\ lost \in BOOLEAN

Holders == {p \in Procs : pc[p] = "held"}

(* Of the processes lockfile() has returned a lock to, either one holds it *)
(* exclusively or all of them share it, although the file is removed,      *)
(* created again and its inode number reused under them.                   *)
Exclusion == \A p, q \in Holders : p # q => call[p].shared /\ call[q].shared

(* The lock a caller holds is on the file the next caller will open.       *)
Linked == \A p \in Procs : pc[p] \in {"held", "promote", "unlink"} => path = fd[p]

(* What flock guarantees, and which system calls leave a file open.        *)
Granted ==
  /\ \A p, q \in Procs : (p # q /\ fd[p] = fd[q] /\ lock[p] = "exclusive")
                           => lock[q] = "none"
  /\ \A p \in Procs :
       /\ pc[p] \in {"idle", "refused", "open"} => fd[p] = NoFile
       /\ fd[p] = NoFile => pc[p] \in {"idle", "refused", "open"} /\ lock[p] = "none"
       /\ pc[p] \in {"exists", "stat", "held"} => lock[p] = Kind(p)
       /\ pc[p] = "promote" => lock[p] # "none"
       /\ pc[p] = "unlink" => lock[p] = "exclusive"

(* The inductive invariant behind Exclusion: a file that is locked or      *)
(* about to be removed is still the one the name refers to (lockfile's     *)
(* inode check, unlockfile's promotion).                                   *)
LockInv == TypeOK /\ Granted /\ Linked

(* "We should clean up after ourselves": when nobody is using the lock,    *)
(* and nobody died over it or gave up a shared one while others shared it, *)
(* its file is gone.                                                       *)
CleanedUp ==
  (~lost /\ \A p \in Procs : pc[p] \in {"idle", "refused"}) => path = NoFile

Waiting(p) == pc[p] \in {"open", "flock", "exists", "stat", "close"}

(* Starting again never turns into a livelock: while somebody waits, the   *)
(* lock is taken again and again, or the last to wait gives up.            *)
SomebodyGetsIt == (\E p \in Procs : Waiting(p))
                    ~> (Holders # {} \/ \A p \in Procs : ~Waiting(p))
=============================================================================
