--------------------------- MODULE MCLoginLockout ---------------------------
(* Small instances of LoginLockout: logins are interchangeable.            *)
EXTENDS LoginLockout, TLC

CONSTANTS l1, l2, l3, l4

Interchangeable == Permutations(Logins)
=============================================================================
