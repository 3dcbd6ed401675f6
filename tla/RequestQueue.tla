---------------------------- MODULE RequestQueue ----------------------------
(***************************************************************************)
(* What the requests and return-requests directories promise, whatever     *)
(* process serves them: a request is published whole, each of its entries  *)
(* is handled at least once after that, and the request is marked          *)
(* .processed only when every entry has been handled.                      *)
(*                                                                         *)
(* api.request_machines and api.request_return_machines publish (a rename  *)
(* of a prepared directory); impl/watchers/request.py handles and marks.   *)
(***************************************************************************)
CONSTANTS
    Dirs,       \* request directories, by name
    Entries     \* names of files in them

VARIABLES
    published,  \* the directories that exist
    contents,   \* their entries, fixed when they are published
    handled,    \* the entries a handler has returned from
    processed   \* the directories that hold a .processed file

vars == <<published, contents, handled, processed>>

Init ==
    /\ published = {}
    /\ contents = [d \in Dirs |-> {}]
    /\ handled = [d \in Dirs |-> {}]
    /\ processed = {}

Publish(d, entries) ==
    /\ d \notin published
    /\ published' = published \cup {d}
    /\ contents' = [contents EXCEPT ![d] = entries]
    /\ UNCHANGED <<handled, processed>>

Handle(d, e) ==
    /\ d \in published
    /\ e \in contents[d]
    /\ handled' = [handled EXCEPT ![d] = @ \cup {e}]
    /\ UNCHANGED <<published, contents, processed>>

Complete(d) ==
    /\ d \in published
    /\ contents[d] \subseteq handled[d]
    /\ processed' = processed \cup {d}
    /\ UNCHANGED <<published, contents, handled>>

Next ==
    \E d \in Dirs :
        \/ \E entries \in SUBSET Entries : Publish(d, entries)
        \/ \E e \in Entries : Handle(d, e)
        \/ Complete(d)

Spec == Init /\ [][Next]_vars
=============================================================================
