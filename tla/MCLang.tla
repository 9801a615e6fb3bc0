------------------------------- MODULE MCLang -------------------------------
(* The language: tables, namespaces, conditions and the heap.  They share no state, so one of them
   at a time takes its steps. *)
EXTENDS Table, Namespaces, Conditions, Heap, TLC

VARIABLE part

\* Two keys with one hash, and one with another hash that starts at the same slot.
MCHashOf == [k \in TableKeys |-> IF k \in {"k1", "k2"} THEN 3 ELSE 7]

langVars == <<tableVars, namespaceVars, conditionVars, heapVars, part>>

MCInit ==
  /\ TableInit /\ NamespacesInit /\ ConditionsInit /\ HeapInit
  /\ part \in {"table", "namespaces", "conditions", "heap"}

MCNext ==
  /\ UNCHANGED part
  /\ \/ /\ part = "table" /\ TableNext
        /\ UNCHANGED <<namespaceVars, conditionVars, heapVars>>
     \/ /\ part = "namespaces" /\ NamespacesNext
        /\ UNCHANGED <<tableVars, conditionVars, heapVars>>
     \/ /\ part = "conditions" /\ ConditionsNext
        /\ UNCHANGED <<tableVars, namespaceVars, heapVars>>
     \/ /\ part = "heap" /\ HeapNext
        /\ UNCHANGED <<tableVars, namespaceVars, conditionVars>>

MCSpec == MCInit /\ [][MCNext]_langVars
=============================================================================
