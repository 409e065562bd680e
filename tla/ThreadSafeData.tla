--------------------------- MODULE ThreadSafeData ---------------------------
(***************************************************************************)
(* ThreadSafeData of Concurrent_Control_Component/ReadWriteLock.h: an int  *)
(* behind std::shared_mutex, used as in test_shared_mutex: every reader    *)
(* calls read() once and every writer calls write() once.                  *)
(*                                                                         *)
(* Both methods hold the shared_mutex for their whole body, so each is one *)
(* action: this is also the abstract specification of what data guarded by *)
(* a readers-writer lock promises, see ReadWriteLock.                      *)
(***************************************************************************)
CONSTANTS Readers, Writers

VARIABLES data_,     \* the value: "initial" or the writer that wrote last
          seen,      \* of each reader: what read() returned
          finished   \* the threads whose call has taken effect

vars == <<data_, seen, finished>>

Init == /\ data_ = "initial"
        /\ seen = [r \in Readers |-> "nothing"]
        /\ finished = {}

read(r) == /\ r \notin finished
           /\ seen' = [seen EXCEPT ![r] = data_]
           /\ finished' = finished \cup {r}
           /\ UNCHANGED data_

write(w) == /\ w \notin finished
            /\ data_' = w
            /\ finished' = finished \cup {w}
            /\ UNCHANGED seen

Next == \/ \E r \in Readers : read(r)
        \/ \E w \in Writers : write(w)

Spec == Init /\ [][Next]_vars
=============================================================================
