--------------------------- MODULE JoinedResponse ---------------------------
(***************************************************************************)
(* What a joined response promises.  For the items of the response some    *)
(* join records are found; each of them is owed: the record it points to   *)
(* has to be asked for, and nests at most one document under its own item. *)
(* The response leaves only when nothing is owed, or it fails as a whole.  *)
(***************************************************************************)
EXTENDS Integers

CONSTANTS Items, Rows

VARIABLES
    owed,    \* <<item, row>>: found, the related record not dealt with yet
    nested,  \* how many documents a row has nested under an item
    status   \* "run", "sent" or "failed"

vars == <<owed, nested, status>>

Init ==
    /\ owed = {}
    /\ nested = [d \in Items \X Rows |-> 0]
    /\ status = "run"

\* The join records S of one item are found.
Find(i, S) ==
    /\ status = "run"
    /\ \A row \in S : nested[<<i, row>>] = 0
    /\ owed' = owed \cup ({i} \X S)
    /\ UNCHANGED <<nested, status>>

\* The related record of d is there, and n = 1, or there is none.
Settle(d, n) ==
    /\ status = "run"
    /\ d \in owed
    /\ owed' = owed \ {d}
    /\ nested' = [nested EXCEPT ![d] = @ + n]
    /\ UNCHANGED status

Send ==
    /\ status = "run"
    /\ owed = {}
    /\ status' = "sent"
    /\ UNCHANGED <<owed, nested>>

Fail ==
    /\ status = "run"
    /\ status' = "failed"
    /\ UNCHANGED <<owed, nested>>

Next ==
    \/ \E i \in Items, S \in SUBSET Rows : Find(i, S)
    \/ \E d \in owed, n \in 0..1 : Settle(d, n)
    \/ Send
    \/ Fail

Spec == Init /\ [][Next]_vars
=============================================================================
