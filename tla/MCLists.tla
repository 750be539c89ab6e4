------------------------------- MODULE MCLists -------------------------------
(***************************************************************************)
(* The lists of the servant system: the event list, for a servant with two *)
(* sources and with room for three events besides the End Flag event; the  *)
(* lists of the kernel, for four tasks; the free blocks of heap_2.c; and   *)
(* the ring of messages of a queue of three.                               *)
(* They share no state, so a behaviour follows one of them and leaves the  *)
(* others as they start.                                                   *)
(***************************************************************************)
EXTENDS EventRings, KernelLists, Heap2, QueueStorage

CONSTANTS s1, s2, s3, t1, t2, t3, t4

VARIABLE user   \* whose lists are followed

MCRelations == {<<s1, s3>>, <<s2, s3>>}
MCTasks     == {t1, t2, t3, t4}
Perms       == Permutations({s1, s2})

MCInit ==
  /\ RingInit /\ KernelListsInit /\ Heap2Init /\ StorageInit
  /\ user = "events" \/ (user \in {"kernel", "heap", "queue"} /\ now = 0)

MCNext ==
  \/ user = "events" /\ RingNext /\ UNCHANGED <<kernelVars, heapVars, storageVars, user>>
  \/ user = "kernel" /\ KernelListsNext /\ UNCHANGED <<ringVars, heapVars, storageVars, user>>
  \/ user = "heap" /\ Heap2Next /\ UNCHANGED <<ringVars, kernelVars, storageVars, user>>
  \/ user = "queue" /\ StorageNext /\ UNCHANGED <<ringVars, kernelVars, heapVars, user>>

MCSpec == MCInit /\ [][MCNext]_<<ringVars, kernelVars, heapVars, storageVars, user>>
=============================================================================
