----------------------------- MODULE ChatJournal -----------------------------
(* What a chat run promises the reader of its stored journal: a journal is  *)
(* opened once, only grows, and ends with its first terminal event; it may  *)
(* be forgotten as a whole, and then opened anew.                           *)
EXTENDS Naturals, Sequences

CONSTANT None
VARIABLE journal      \* None, or the types of the stored events in order

Outcomes == {"completed", "failed", "cancelled"}

Ended == \E i \in DOMAIN journal : journal[i] \in Outcomes

Open == journal = None /\ journal' = <<>>

(* One or more events are added; only the last may be an outcome. *)
Extend ==
    /\ journal # None /\ ~Ended
    /\ journal' # None
    /\ Len(journal') > Len(journal)
    /\ SubSeq(journal', 1, Len(journal)) = journal
    /\ \A i \in 1..(Len(journal') - 1) : journal'[i] \notin Outcomes

Forget == journal # None /\ journal' = None

Spec == journal = None /\ [][Open \/ Extend \/ Forget]_journal
=============================================================================
