------------------------------- MODULE RwAbs --------------------------------
(***************************************************************************)
(* What a readers-writers lock promises: a writer is alone, readers are    *)
(* with readers only.                                                      *)
(***************************************************************************)
CONSTANT Threads

VARIABLES readers, writers      \* the threads inside

AbsInit == readers = {} /\ writers = {}

Read(t) == /\ writers = {}
           /\ t \notin readers
           /\ readers' = readers \cup {t}
           /\ UNCHANGED writers

Write(t) == /\ readers = {} /\ writers = {}
            /\ writers' = {t}
            /\ UNCHANGED readers

Leave(t) == /\ t \in readers \cup writers
            /\ readers' = readers \ {t}
            /\ writers' = writers \ {t}

AbsNext == \E t \in Threads : Read(t) \/ Write(t) \/ Leave(t)

AbsSpec == AbsInit /\ [][AbsNext]_<<readers, writers>>
=============================================================================
