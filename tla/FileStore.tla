------------------------------- MODULE FileStore -------------------------------
(***************************************************************************)
(* What the files of an entity promise, whatever storage keeps them.  A    *)
(* file that is listed is whole until its uploader has asked to delete it; *)
(* then it is empty, and stays listed until the deletion has ended, also   *)
(* when the process stops in between.  A download delivers a file that was *)
(* whole during the call, and says it is missing only of one that is not   *)
(* listed; of any file it may fail, but not once it has opened it.         *)
(***************************************************************************)
CONSTANTS FileIds, Users, Entities, Calls, Nothing

VARIABLES
    listed,    \* who uploaded each file, where it is listed, and whether it is whole
    removing,  \* the deletions under way: the file, and who asked
    wants,     \* what each download wants
    got        \* and what has become of it

vars == <<listed, removing, wants, got>>

Init ==
    /\ listed \in [FileIds -> {Nothing} \cup [by: Users, entity: Entities, whole: {TRUE}]]
    /\ removing = {}
    /\ wants = [q \in Calls |-> Nothing]
    /\ got = [q \in Calls |-> "none"]

Upload(f) ==
    /\ listed[f] = Nothing
    /\ \E u \in Users, e \in Entities : listed' = [listed EXCEPT ![f] = [by |-> u, entity |-> e, whole |-> TRUE]]
    /\ UNCHANGED <<removing, wants, got>>

Move(f) ==
    /\ listed[f] # Nothing
    /\ \E e \in Entities : listed' = [listed EXCEPT ![f].entity = e]
    /\ UNCHANGED <<removing, wants, got>>

Ask(f) ==
    /\ listed[f] # Nothing
    /\ removing' = removing \cup {<<f, listed[f].by>>}
    /\ UNCHANGED <<listed, wants, got>>

\* Of the deletions under way any may end here.
Ending == removing' \subseteq removing

Empty(f) ==
    /\ listed[f] # Nothing /\ <<f, listed[f].by>> \in removing
    /\ listed' = [listed EXCEPT ![f].whole = FALSE]
    /\ Ending /\ UNCHANGED <<wants, got>>

Remove(f) ==
    /\ listed[f] # Nothing /\ ~listed[f].whole /\ <<f, listed[f].by>> \in removing
    /\ listed' = [listed EXCEPT ![f] = Nothing]
    /\ Ending /\ UNCHANGED <<wants, got>>

Give == Ending /\ UNCHANGED <<listed, wants, got>>

Want(q, f) ==
    /\ wants[q] = Nothing /\ wants' = [wants EXCEPT ![q] = f]
    /\ UNCHANGED <<listed, removing, got>>

Whole(f) == listed[f] # Nothing /\ listed[f].whole

Open(q) ==
    /\ wants[q] # Nothing /\ got[q] = "none" /\ Whole(wants[q])
    /\ got' = [got EXCEPT ![q] = "opened"]
    /\ UNCHANGED <<listed, removing, wants>>

Deliver(q) ==
    /\ \/ got[q] = "opened" /\ got' = [got EXCEPT ![q] = "content"]
       \/ /\ wants[q] # Nothing /\ got[q] \in {"none", "opened"} /\ listed[wants[q]] = Nothing
          /\ got' = [got EXCEPT ![q] = "missing"]
       \/ wants[q] # Nothing /\ got[q] = "none" /\ got' = [got EXCEPT ![q] = "failed"]
    /\ UNCHANGED <<listed, removing, wants>>

Restart ==
    /\ Ending
    /\ got' \in [Calls -> {"none", "opened", "content", "missing", "failed", "cut"}]
    /\ \A q \in Calls : got'[q] # got[q] => got[q] \in {"none", "opened"} /\ got'[q] = "cut"
    /\ UNCHANGED <<listed, wants>>

Next ==
    \/ \E f \in FileIds : Upload(f) \/ Move(f) \/ Ask(f) \/ Empty(f) \/ Remove(f)
    \/ \E q \in Calls : (\E f \in FileIds : Want(q, f)) \/ Open(q) \/ Deliver(q)
    \/ Give \/ Restart

Spec == Init /\ [][Next]_vars

=============================================================================
