-------------------------------- MODULE Tree --------------------------------
(***************************************************************************)
(* What a filesystem promises: paths name files and directories, one each, *)
(* and every path's parent is a directory.                                 *)
(***************************************************************************)
EXTENDS Integers, SequencesExt

CONSTANTS
  Paths,    \* sequences of names, closed under Front
  Cells,    \* contents of a unit of data
  MaxSize   \* bound on the units of a file

VARIABLE tree   \* the node at each path there is

Node(type, data) == [type |-> type, data |-> data]
Root == <<>>

\* The data of a file after cell was written at offset: gaps read as 0.
Spliced(data, offset, cell) ==
  [i \in 1 .. (IF Len(data) > offset THEN Len(data) ELSE offset + 1) |->
     CASE i = offset + 1 -> cell
       [] i # offset + 1 /\ i <= Len(data) -> data[i]
       [] OTHER -> 0]

Create(p, type) ==
  /\ p \notin DOMAIN tree
  /\ Front(p) \in DOMAIN tree /\ tree[Front(p)].type = "DIRECTORY"
  /\ tree' = tree @@ (p :> Node(type, <<>>))

Delete(p) ==
  /\ p \in DOMAIN tree
  /\ \A q \in DOMAIN tree \ {Root} : Front(q) # p
  /\ tree' = [q \in DOMAIN tree \ {p} |-> tree[q]]

Write(p, data) ==
  /\ p \in DOMAIN tree /\ tree[p].type = "FILE"
  /\ tree' = [tree EXCEPT ![p].data = data]

Init == tree = (Root :> Node("DIRECTORY", <<>>))

Next ==
  /\ tree' # tree
  /\ \E p \in Paths \ {Root} :
       \/ \E type \in {"FILE", "DIRECTORY"} : Create(p, type)
       \/ Delete(p)
       \/ Write(p, <<>>)
       \/ /\ p \in DOMAIN tree
          /\ \E offset \in 0 .. MaxSize - 1, cell \in Cells :
               Write(p, Spliced(tree[p].data, offset, cell))

Spec == Init /\ [][Next]_tree
=============================================================================
