--------------------------- MODULE LockFileProofs ---------------------------
(***************************************************************************)
(* Proofs about LockFile for any number of processes and inodes, on a      *)
(* kernel that converts a shared lock in one step.  The heart of the       *)
(* argument is Linked: a file somebody holds is the one the name refers    *)
(* to, so all holders have their flock on one inode, and whoever removes   *)
(* the name holds that inode alone.                                        *)
(***************************************************************************)
EXTENDS LockFile, TLAPS

LEMMA InitInv == Init => LockInv
  BY NoFileFresh DEF Init, LockInv, TypeOK, Granted, Linked, Pcs, Locks

LEMMA LockStep == ASSUME LockInv, NEW p \in Procs, Lock(p) PROVE LockInv'
  BY DEF LockInv, TypeOK, Granted, Linked, Lock, Goto, Kind, Pcs, Locks

LEMMA OpenStep == ASSUME LockInv, NEW p \in Procs, Open(p) PROVE LockInv'
  BY NoFileFresh DEF LockInv, TypeOK, Granted, Linked, Open, Goto, Kind, Pcs, Locks

LEMMA FlockStep == ASSUME LockInv, NEW p \in Procs, Flock(p) PROVE LockInv'
  BY DEF LockInv, TypeOK, Granted, Linked, Flock, Goto, Kind, Compatible,
         Rivals, Pcs, Locks

LEMMA RefuseStep ==
  ASSUME LockInv, NEW p \in Procs, FlockRefused(p) \/ FlockInterrupted(p)
  PROVE  LockInv'
<1>1. CASE FlockRefused(p)
  BY <1>1 DEF LockInv, TypeOK, Granted, Linked, FlockRefused, Goto, Kind,
              Pcs, Locks
<1>2. CASE FlockInterrupted(p)
  BY <1>2 DEF LockInv, TypeOK, Granted, Linked, FlockInterrupted, Goto, Kind,
              Pcs, Locks
<1> QED BY <1>1, <1>2

LEMMA CheckStep ==
  ASSUME LockInv, NEW p \in Procs, Exists(p) \/ Stat(p)
  PROVE  LockInv'
<1>1. CASE Exists(p)
  BY <1>1 DEF LockInv, TypeOK, Granted, Linked, Exists, StartOver, Goto, Kind,
              Pcs, Locks
<1>2. CASE Stat(p)
  BY <1>2 DEF LockInv, TypeOK, Granted, Linked, Stat, StartOver, SameFile,
              Goto, Kind, Pcs, Locks
<1> QED BY <1>1, <1>2

LEMMA CloseStep ==
  ASSUME LockInv, NEW p \in Procs, Close(p) \/ Drop(p) \/ Die(p)
  PROVE  LockInv'
<1>1. CASE Close(p)
  BY <1>1 DEF LockInv, TypeOK, Granted, Linked, Close, Goto, Kind, Pcs, Locks
<1>2. CASE Drop(p)
  BY <1>2 DEF LockInv, TypeOK, Granted, Linked, Drop, Goto, Kind, Pcs, Locks
<1>3. CASE Die(p)
  BY <1>3 DEF LockInv, TypeOK, Granted, Linked, Die, Goto, Kind, Pcs, Locks
<1> QED BY <1>1, <1>2, <1>3

LEMMA UnlockStep ==
  ASSUME LockInv, AtomicConversion, NEW p \in Procs, Unlock(p) \/ Promote(p)
  PROVE  LockInv'
<1>1. CASE Unlock(p)
  BY <1>1 DEF LockInv, TypeOK, Granted, Linked, Unlock, Goto, Kind, Pcs, Locks
<1>2. CASE Promote(p)
  <2>1. lost' \in BOOLEAN
    BY <1>2 DEF LockInv, TypeOK, Promote
  <2>2. /\ UNCHANGED <<call, fd, path>>
        /\ \/ Goto(p, "unlink") /\ lock' = [lock EXCEPT ![p] = "exclusive"]
              /\ MayRemove(p)
           \/ Goto(p, "drop") /\ lock' = [lock EXCEPT ![p] = "none"]
        /\ pc[p] = "promote"
    BY <1>2 DEF Promote
  <2> QED BY <2>1, <2>2 DEF LockInv, TypeOK, Granted, Linked, MayRemove,
                            Compatible, Rivals, Goto, Kind, Pcs, Locks
<1> QED BY <1>1, <1>2

LEMMA UnlinkStep == ASSUME LockInv, NEW p \in Procs, Unlink(p) PROVE LockInv'
  BY DEF LockInv, TypeOK, Granted, Linked, Unlink, AfterUnlink, Goto, Kind,
         Pcs, Locks

(* LockInv holds in every state, whatever the callers pass, whoever dies   *)
(* and however inode numbers are reused.                                   *)
THEOREM LockInvCorrect == ASSUME AtomicConversion PROVE Spec => []LockInv
<1>1. LockInv /\ [Next]_vars => LockInv'
  <2>1. CASE UNCHANGED vars
    BY <2>1 DEF LockInv, TypeOK, Granted, Linked, vars, Kind
  <2>2. CASE Next
    BY <2>2, AtomicConversion, LockStep, OpenStep, FlockStep, RefuseStep,
       CheckStep, CloseStep, UnlockStep, UnlinkStep
       DEF Next, Acquire, Release
  <2> QED BY <2>1, <2>2
<1> QED BY <1>1, InitInv, PTL DEF Spec

(* Of the processes lockfile() has returned a lock to, either one holds it *)
(* exclusively or all of them share it.                                    *)
THEOREM ExclusionCorrect == ASSUME AtomicConversion PROVE Spec => []Exclusion
<1>1. LockInv => Exclusion
  <2> SUFFICES ASSUME LockInv, NEW p \in Holders, NEW q \in Holders, p # q
               PROVE  call[p].shared /\ call[q].shared
    BY DEF Exclusion
  <2>1. /\ p \in Procs /\ q \in Procs
        /\ fd[p] = fd[q] /\ lock[p] = Kind(p) /\ lock[q] = Kind(q)
    BY DEF Holders, LockInv, Granted, Linked
  <2>2. lock[p] # "exclusive" /\ lock[q] # "exclusive"
    BY <2>1 DEF LockInv, Granted, Kind
  <2> QED BY <2>1, <2>2 DEF Kind
<1> QED BY <1>1, LockInvCorrect, PTL

-----------------------------------------------------------------------------
(* Who will remove the file.                                               *)

(* A file given up or removed under its lock is not the one on disk: its   *)
(* inode cannot be reused while it is open.                                *)
Stale ==
  \A p \in Procs :
    /\ pc[p] = "flock" => lock[p] = "none"
    /\ pc[p] = "promote" => lock[p] = Kind(p)
    /\ pc[p] = "close" /\ lock[p] # "none" => path # fd[p]
    /\ pc[p] = "drop" /\ ~lost => path # fd[p]

(* Somebody is on the way to check, hold and remove the file on disk.      *)
InCharge(p) ==
  fd[p] = path /\ pc[p] \in {"flock", "exists", "stat", "held", "promote", "unlink"}
Owned == ~lost /\ path # NoFile => \E p \in Procs : InCharge(p)

LEMMA StaleStep ==
  ASSUME LockInv, Stale, AtomicConversion, NEW p \in Procs,
         Lock(p) \/ Acquire(p) \/ Release(p) \/ Die(p)
  PROVE  Stale'
<1> USE DEF LockInv, TypeOK, Granted, Stale, Kind, Goto
<1>1. CASE Lock(p) BY <1>1 DEF Lock
<1>2. CASE Open(p) BY <1>2, NoFileFresh DEF Open
<1>3. CASE Flock(p) BY <1>3 DEF Flock
<1>4. CASE FlockRefused(p) BY <1>4 DEF FlockRefused
<1>5. CASE FlockInterrupted(p) BY <1>5 DEF FlockInterrupted
<1>6. CASE Exists(p) BY <1>6 DEF Exists, StartOver
<1>7. CASE Stat(p) BY <1>7 DEF Stat, StartOver, SameFile
<1>8. CASE Close(p) BY <1>8 DEF Close
<1>9. CASE Unlock(p) BY <1>9 DEF Unlock, Linked
<1>10. CASE Promote(p)
  <2>1. CASE MayRemove(p)
    BY <1>10, <2>1 DEF Promote
  <2>2. CASE ~MayRemove(p)
    <3>1. lock[p] # "exclusive"
      BY <2>2 DEF MayRemove, Compatible, Rivals
    <3>2. call[p].shared
      BY <1>10, <3>1 DEF Promote
    <3> QED BY <1>10, <2>2, <3>2 DEF Promote
  <2> QED BY <2>1, <2>2
<1>11. CASE Unlink(p) BY <1>11 DEF Unlink, AfterUnlink
<1>12. CASE Drop(p) BY <1>12 DEF Drop
<1>13. CASE Die(p) BY <1>13 DEF Die
<1> QED BY <1>1, <1>2, <1>3, <1>4, <1>5, <1>6, <1>7, <1>8, <1>9, <1>10,
           <1>11, <1>12, <1>13 DEF Acquire, Release

(* A step of p that leaves the name and everybody else alone.              *)
LEMMA ChargeKept ==
  ASSUME Owned, NEW p \in Procs, path' = path, ~lost' => ~lost,
         \A q \in Procs \ {p} : pc'[q] = pc[q] /\ fd'[q] = fd[q],
         ~lost' /\ InCharge(p) => InCharge(p)' \/ \E q \in Procs \ {p} : InCharge(q)
  PROVE  Owned'
BY DEF Owned, InCharge

LEMMA OwnedStep ==
  ASSUME LockInv, Stale, Owned, NEW p \in Procs,
         Lock(p) \/ Acquire(p) \/ Release(p) \/ Die(p)
  PROVE  Owned'
<1> USE DEF LockInv, TypeOK, Goto
<1>1. CASE Lock(p) BY <1>1, ChargeKept DEF Lock, InCharge
<1>2. CASE Open(p) BY <1>2 DEF Open, Owned, InCharge
<1>3. CASE Flock(p) BY <1>3, ChargeKept DEF Flock, InCharge
<1>4. CASE FlockRefused(p)
  <2>1. PICK q \in Procs \ {p} : fd[q] = fd[p] /\ lock[q] # "none"
    BY <1>4 DEF FlockRefused, Compatible, Rivals
  <2>2. ~lost /\ InCharge(p) => InCharge(q)
    BY <1>4, <2>1 DEF InCharge, FlockRefused, Granted, Stale, Pcs
  <2> QED BY <1>4, <2>2, ChargeKept DEF FlockRefused
<1>5. CASE FlockInterrupted(p) BY <1>5 DEF FlockInterrupted, Owned
<1>6. CASE Exists(p)
  <2>1. CASE path = NoFile BY <1>6, <2>1 DEF Exists, Owned
  <2>2. CASE path # NoFile
    BY <1>6, <2>2, ChargeKept DEF Exists, InCharge
  <2> QED BY <2>1, <2>2
<1>7. CASE Stat(p) BY <1>7, ChargeKept DEF Stat, SameFile, InCharge
<1>8. CASE Close(p) BY <1>8, ChargeKept DEF Close, InCharge
<1>9. CASE Unlock(p) BY <1>9, ChargeKept DEF Unlock, InCharge
<1>10. CASE Promote(p)
  <2>1. CASE MayRemove(p)
    BY <1>10, <2>1, ChargeKept DEF Promote, InCharge
  <2>2. CASE ~MayRemove(p)
    <3>1. lock[p] # "exclusive"
      BY <2>2 DEF MayRemove, Compatible, Rivals, Granted
    <3>2. lost'
      BY <1>10, <2>2, <3>1 DEF Promote, Stale, Kind
    <3> QED BY <3>2 DEF Owned
  <2> QED BY <2>1, <2>2
<1>11. CASE Unlink(p) BY <1>11 DEF Unlink, AfterUnlink, Owned
<1>12. CASE Drop(p) BY <1>12, ChargeKept DEF Drop, InCharge
<1>13. CASE Die(p) BY <1>13 DEF Die, Owned
<1> QED BY <1>1, <1>2, <1>3, <1>4, <1>5, <1>6, <1>7, <1>8, <1>9, <1>10,
           <1>11, <1>12, <1>13 DEF Acquire, Release

(* When nobody uses the lock, and nobody died over it, broke off or gave   *)
(* up a shared one next to others, its file is gone, however many raced    *)
(* to open, check and remove it.                                           *)
THEOREM CleanedUpCorrect == ASSUME AtomicConversion PROVE Spec => []CleanedUp
<1>1. Init => Stale /\ Owned
  BY DEF Init, Stale, Owned
<1>2. LockInv /\ Stale /\ Owned /\ [Next]_vars => Stale' /\ Owned'
  <2> SUFFICES ASSUME LockInv, Stale, Owned, [Next]_vars PROVE Stale' /\ Owned'
    OBVIOUS
  <2>1. CASE UNCHANGED vars
    BY <2>1 DEF vars, Stale, Owned, InCharge, Kind
  <2>2. CASE Next
    BY <2>2, AtomicConversion, StaleStep, OwnedStep DEF Next
  <2> QED BY <2>1, <2>2
<1>3. LockInv /\ Owned => CleanedUp
  BY DEF CleanedUp, Owned, InCharge
<1> QED BY <1>1, <1>2, <1>3, LockInvCorrect, PTL DEF Spec
=============================================================================
