----------------------------- MODULE MCLockFile -----------------------------
(* Values for LockFile's constants: the argument combinations the callers  *)
(* use.                                                                    *)
EXTENDS LockFile, TLC

Args(s, r, b) == [shared |-> s, retry |-> r, block |-> b]

Plain    == Args(FALSE, TRUE, FALSE)   \* fetch2, fileslocked, save_merge
Sharing  == Args(TRUE, TRUE, FALSE)    \* sstate_install, save_extras
TryOnce  == Args(FALSE, FALSE, FALSE)  \* lockBitbake
WaitOnce == Args(FALSE, FALSE, TRUE)   \* post_serve

Every    == {Plain, Sharing, TryOnce, WaitOnce}
Retrying == {Plain, Sharing}

Symmetric == Permutations(Procs) \cup Permutations(Inodes)
=============================================================================
