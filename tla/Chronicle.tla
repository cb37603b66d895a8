------------------------------ MODULE Chronicle ------------------------------
(****************************************************************************)
(* What a workspace's memory promises, with no files in it: one history of  *)
(* numbered entries, each naming the one before it, to which entries are    *)
(* added at the end and never anything else.  Entries "are never rewritten  *)
(* or deleted" (memory_commands.py:1821); "numbering is continuous across   *)
(* the fold" (pending.py:62).                                               *)
(****************************************************************************)
EXTENDS Naturals, Sequences

CONSTANT Genesis   \* what the first entry names as the one before it

VARIABLE history   \* the entries, oldest first

Tip(h) == IF h = <<>> THEN Genesis ELSE h[Len(h)].id

Init == history = <<>>

\* One more entry, numbered next and linked to the tip; the rest is as it was.
Add ==
    LET n == Len(history) + 1
    IN /\ Len(history') = n
       /\ \A i \in 1..Len(history) : history'[i] = history[i]
       /\ history'[n].seq = n
       /\ history'[n].prev = Tip(history)

Spec == Init /\ [][Add]_history
=============================================================================
