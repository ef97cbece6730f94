--------------------------- MODULE MCUuidMgrLive ---------------------------
(****************************************************************************)
(* UuidMgr with a budget of calls per thread, under weak fairness of every  *)
(* thread.  A pthread mutex may starve a thread as long as others keep      *)
(* coming back for it, so the promise that calls return is stated for       *)
(* threads that make finitely many calls.                                   *)
(****************************************************************************)
EXTENDS UuidMgr

CONSTANT MaxCalls     \* bound: calls one thread makes

VARIABLE calls        \* calls each thread has made

LiveVars == <<vars, calls>>

LiveInit == Init /\ calls = [t \in Threads |-> 0]

LiveStep(t) == Step(t) /\ UNCHANGED calls

LiveNext ==
    \/ \E t \in Threads :
         \/ LiveStep(t)
         \/ /\ calls[t] < MaxCalls
            /\ \E c \in Calls : Call(t, c)
            /\ calls' = [calls EXCEPT ![t] = @ + 1]
    \/ (Start \/ Fini) /\ UNCHANGED calls

LiveSpec ==
    /\ LiveInit
    /\ [][LiveNext]_LiveVars
    /\ \A t \in Threads : WF_LiveVars(LiveStep(t))

\* Every call of arb_select_master_slave, arb_query_master_slave and
\* arb_remove_duallive returns: the two levels of mutexes never deadlock, and
\* no error path of arb_disk_open_impl keeps one of them or a reference.
CallReturns == \A t \in Threads : pc[t] # "idle" ~> pc[t] = "idle"

\* A mapped disk whose last pair is removed loses its file or gains a pair:
\* the last unlock deletes the file although the remover is not the last one.
EmptiedFileGoes ==
    \A u \in Uuids :
        (\E n \in tree : uuid[n] = u /\ disk[n] /\ dlis[u] = {})
            ~> (file[u] = "none" \/ dlis[u] # {})
=============================================================================
