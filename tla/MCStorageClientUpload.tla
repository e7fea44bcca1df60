----------------------- MODULE MCStorageClientUpload -----------------------
(* Model-checking instance of StorageClientUpload.                         *)
EXTENDS StorageClientUpload

MCShares == {0, 1}

\* One share, for instances whose share is longer.
MCOneShare == {0}

=============================================================================
