---------------------------- MODULE CurrentState ----------------------------
(***************************************************************************)
(* What a current-state table promises its readers, with no batches, no    *)
(* files and no crashes: a view of a log of changes in which the version   *)
(* shown for a key is a change of that key and is only ever replaced by a  *)
(* later change of that key.                                               *)
(***************************************************************************)
EXTENDS Naturals, Sequences

CONSTANT Keys

VARIABLES
    log,   \* Seq(Keys): the key that each change is about
    view   \* [Keys -> Nat]: the position in the log of the version shown, or 0

Init ==
    /\ log = <<>>
    /\ view = [k \in Keys |-> 0]

Change(k) ==
    /\ log' = Append(log, k)
    /\ UNCHANGED view

\* Any keys may catch up at once, and may skip changes in between.
Later(k, version) ==
    /\ version \in DOMAIN log
    /\ version > view[k]
    /\ log[version] = k

CatchUp ==
    /\ view' \in [Keys -> DOMAIN log \cup {0}]
    /\ \A k \in Keys : view'[k] # view[k] => Later(k, view'[k])
    /\ UNCHANGED log

Next == (\E k \in Keys : Change(k)) \/ CatchUp

Spec == Init /\ [][Next]_<<log, view>>
=============================================================================
