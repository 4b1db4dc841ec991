------------------------------ MODULE FileStore ------------------------------
(***************************************************************************)
(* What file-mgmt promises about one path of a tenant: the path holds      *)
(* nothing or one upload; an upload is stored at once and at most once,    *)
(* and, once its client was answered, only if its copy was already on the  *)
(* way.  FileMgmt implements it.                                           *)
(***************************************************************************)
CONSTANTS Uploads, NoUpload

VARIABLES
    file,       \* what the path holds
    pending,    \* uploads neither stored nor refused
    late        \* uploads refused while they were about to be stored

StoreInit == file = NoUpload /\ pending = Uploads /\ late = {}

Store(u) ==
    /\ u \in pending \cup late
    /\ file' = u /\ pending' = pending \ {u} /\ late' = late \ {u}

\* Answered otherwise, or forgotten by a kill; a copy under way may still be executed, or is given up.
Refuse(refused) ==
    /\ pending' = pending \ refused
    /\ late' \subseteq late \cup refused
    /\ UNCHANGED file

\* A removal of the file, or of the tenant.
Discard == file' = NoUpload /\ UNCHANGED <<pending, late>>

StoreNext ==
    \/ Discard
    \/ \E u \in Uploads : Store(u)
    \/ \E refused \in SUBSET pending : Refuse(refused)

StoreSpec == StoreInit /\ [][StoreNext]_<<file, pending, late>>
=============================================================================
