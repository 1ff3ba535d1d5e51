------------------------------ MODULE QueueAbs ------------------------------
(***************************************************************************)
(* A bounded first-in first-out queue of bytes.                            *)
(***************************************************************************)
EXTENDS Naturals, Sequences

CONSTANTS Bytes, Capacity

VARIABLES
    content,        \* the bytes in the queue, oldest first
    given,          \* the byte put in last
    last            \* the byte taken out last

AbsInit == content = <<>> /\ given \in Bytes /\ last \in Bytes

Put == /\ Len(content) < Capacity
       /\ given' \in Bytes
       /\ content' = Append(content, given')
       /\ UNCHANGED last

Get == /\ content # <<>>
       /\ last' = Head(content)
       /\ content' = Tail(content)
       /\ UNCHANGED given

AbsSpec == AbsInit /\ [][Put \/ Get]_<<content, given, last>>
=============================================================================
