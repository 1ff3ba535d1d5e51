-------------------------------- MODULE FsAbs --------------------------------
(***************************************************************************)
(* What the Pintos file system promises its callers: a name denotes at     *)
(* most one file; an open file keeps its contents for as long as it is     *)
(* open, also when its name is removed or given to another file; a write   *)
(* changes one sector of one file, and none while somebody denies writes;  *)
(* a crash forgets who has what open and nothing else.                     *)
(***************************************************************************)
EXTENDS Naturals, Sequences

CONSTANTS
    Names,          \* file names
    Handles,        \* struct file
    Ids,            \* identities of files (inode numbers)
    Lengths,        \* file lengths, in sectors
    Values,         \* contents of a sector
    Zero,           \* a sector of zeros
    None            \* no file

VARIABLES
    named,          \* the file that each name denotes, or None
    opened,         \* the file that each handle refers to, or None
    denying,        \* the handles that deny writes
    content,        \* the sectors of each file; empty if it does not exist
    calling         \* a call that creates, removes or closes is under way

fsVars == <<named, opened, denying, content>>
absVars == <<fsVars, calling>>

Exists(id) == \/ \E n \in Names : named[n] = id
              \/ \E h \in Handles : opened[h] = id

AbsInit == /\ named = [n \in Names |-> None]
           /\ opened = [h \in Handles |-> None]
           /\ denying = {}
           /\ content = [id \in Ids |-> <<>>]
           /\ calling = FALSE

Create(n) ==
    /\ named[n] = None
    /\ \E id \in Ids, len \in Lengths :
          /\ ~Exists(id)
          /\ named' = [named EXCEPT ![n] = id]
          /\ content' = [content EXCEPT ![id] = [i \in 1 .. len |-> Zero]]
    /\ UNCHANGED <<opened, denying>>

\* The contents of what still exists after a step stay; the rest is forgotten.
Forget == content' = [id \in Ids |-> IF Exists(id)' THEN content[id] ELSE <<>>]

Remove(n) == /\ named[n] # None
             /\ named' = [named EXCEPT ![n] = None]
             /\ Forget
             /\ UNCHANGED <<opened, denying>>

Open(h) == /\ opened[h] = None
           /\ \E id \in Ids : Exists(id) /\ opened' = [opened EXCEPT ![h] = id]
           /\ UNCHANGED <<named, denying, content>>

Close(h) == /\ opened[h] # None
            /\ opened' = [opened EXCEPT ![h] = None]
            /\ denying' = denying \ {h}
            /\ Forget
            /\ UNCHANGED named

Deny(h) == /\ opened[h] # None
           /\ denying' \in {denying \cup {h}, denying \ {h}}
           /\ UNCHANGED <<named, opened, content>>

\* Only a write changes what a file contains; a call under way does not.
Write(h) ==
    /\ ~calling /\ ~calling'
    /\ opened[h] # None
    /\ \A g \in denying : opened[g] # opened[h]
    /\ \E i \in DOMAIN content[opened[h]], v \in Values :
          content' = [content EXCEPT ![opened[h]][i] = v]
    /\ UNCHANGED <<named, opened, denying>>

Crash == /\ opened' = [h \in Handles |-> None]
         /\ denying' = {}
         /\ Forget
         /\ UNCHANGED named

\* A call takes several steps; what it does to the files is one of them.
AbsNext == /\ calling' \in BOOLEAN
           /\ \/ UNCHANGED fsVars
              \/ \E n \in Names : Create(n) \/ Remove(n)
              \/ \E h \in Handles : Open(h) \/ Close(h) \/ Deny(h) \/ Write(h)
              \/ Crash

AbsSpec == AbsInit /\ [][AbsNext]_absVars
=============================================================================
