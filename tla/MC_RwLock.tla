----------------------------- MODULE MC_RwLock -----------------------------
(* Three threads; every operation of the class, or the blocking ones only. *)
EXTENDS RwLock

CONSTANTS t1, t2, t3

MCThreads == {t1, t2, t3}
AllCalls == {"lock_read", "try_lock_read", "lock_write", "try_lock_write"}
BlockingCalls == {"lock_read", "lock_write"}
=============================================================================
