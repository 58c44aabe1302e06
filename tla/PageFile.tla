------------------------------ MODULE PageFile ------------------------------
(***************************************************************************)
(* What the page layer promises the B+tree: a file of pages and a list of  *)
(* free pages linked through them.  There is no cache, no page object and  *)
(* no read in two steps: a page is written, given out and taken back at    *)
(* once.  The promise has two holes, both the code's.  An internal node    *)
(* that is read back from the disk may be lost; and the end of the process *)
(* takes the counter of pages and the list back to where they were saved,  *)
(* while the pages stay as they are.                                       *)
(***************************************************************************)
EXTENDS Naturals

CONSTANTS MaxPage, Value

Page == 1..MaxPage
Node == [kind: {"leaf", "internal"}, data: Value]
Free(next) == [kind |-> "free", data |-> next]
Lost == [kind |-> "lost", data |-> 0]

VARIABLES
    content,    \* page -> what is in it
    nPage,      \* the pages below nPage have been given out once
    firstFree,  \* the head of the list of free pages, or 0
    saved,      \* nPage and firstFree as they were saved
    torn        \* has something ended in the middle of a change

vars == <<content, nPage, firstFree, saved, torn>>

Counters == [nPage |-> nPage, firstFree |-> firstFree]

Init ==
    /\ content = [p \in Page |-> [kind |-> "unwritten", data |-> 0]]
    /\ nPage = 1
    /\ firstFree = 0
    /\ saved = Counters
    /\ torn = FALSE

Write(p, node) ==
    /\ content' = [content EXCEPT ![p] = node]
    /\ UNCHANGED <<nPage, firstFree, saved, torn>>

\* A leaf is never lost, as long as no page has two owners.  The statement that
\* met the lost node may end there.
Lose(p) ==
    /\ content[p].kind = "internal" \/ torn
    /\ content' = [content EXCEPT ![p] = Lost]
    /\ torn' \in {torn, TRUE}
    /\ UNCHANGED <<nPage, firstFree, saved>>

\* A page that was never given out, when no page is free.
Extend ==
    /\ firstFree = 0
    /\ nPage \in Page
    /\ nPage' = nPage + 1
    /\ UNCHANGED <<content, firstFree, saved, torn>>

Take ==
    /\ firstFree # 0
    /\ content[firstFree].kind = "free"
    /\ firstFree' = content[firstFree].data
    /\ UNCHANGED <<content, nPage, saved, torn>>

Release(p) ==
    /\ content[p].kind \in {"leaf", "internal", "lost"}
    /\ content' = [content EXCEPT ![p] = Free(firstFree)]
    /\ firstFree' = p
    /\ UNCHANGED <<nPage, saved, torn>>

Save ==
    /\ saved' = Counters
    /\ UNCHANGED <<content, nPage, firstFree, torn>>

\* A statement ends with pages that it was given and has not written.
Abandon ==
    /\ torn' = TRUE
    /\ UNCHANGED <<content, nPage, firstFree, saved>>

\* The process ends and starts again; what was saved comes back.
Restart ==
    /\ nPage' = saved.nPage
    /\ firstFree' = saved.firstFree
    /\ torn' \in IF saved = Counters THEN {torn, TRUE} ELSE {TRUE}
    /\ UNCHANGED <<content, saved>>

Next ==
    \/ \E p \in Page : Release(p) \/ Lose(p) \/ \E node \in Node : Write(p, node)
    \/ Extend \/ Take
    \/ Save \/ Abandon \/ Restart

Spec == Init /\ [][Next]_vars
=============================================================================
