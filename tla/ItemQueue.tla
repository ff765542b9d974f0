----------------------------- MODULE ItemQueue -----------------------------
(***************************************************************************)
(* What a Serializer promises: the values that went in come out, equal and *)
(* in the order they went in, whatever the growth of the buffer between;   *)
(* a file holds what was saved to it and load() appends it.                *)
(***************************************************************************)
EXTENDS Sequences

CONSTANT Item,     \* the values that can be serialized
         Nothing   \* not an item

VARIABLES queue,  \* the values put and not yet taken
          file,   \* the values saved in the file
          got     \* the value of the last extraction, if it gave one

vars == <<queue, file, got>>

Init == queue = <<>> /\ file = <<>> /\ got = Nothing

Put(i) == queue' = Append(queue, i) /\ UNCHANGED <<file, got>>

Take ==
    /\ queue # <<>>
    /\ got' = Head(queue)
    /\ queue' = Tail(queue)
    /\ UNCHANGED file

\* An extraction from an exhausted queue gives nothing, or no bytes at all.
Miss ==
    /\ queue = <<>>
    /\ got' \in {Nothing} \cup [kind : {"list", "block"}, val : {<<>>}]
    /\ UNCHANGED <<queue, file>>

Forget == queue' = <<>> /\ UNCHANGED <<file, got>>

Save(append) ==
    /\ file' = (IF append THEN file ELSE <<>>) \o queue
    /\ UNCHANGED <<queue, got>>

Load == queue' = queue \o file /\ UNCHANGED <<file, got>>

Next ==
    \/ Take \/ Miss \/ Forget \/ Load
    \/ \E i \in Item : Put(i)
    \/ \E append \in BOOLEAN : Save(append)

Spec == Init /\ [][Next]_vars
=============================================================================
