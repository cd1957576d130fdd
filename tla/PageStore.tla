----------------------------- MODULE PageStore -----------------------------
(***************************************************************************)
(* What the disk cache of pages (app/page/page_cache.cpp) promises: for a  *)
(* page it gives back the contents the program last managed to store for   *)
(* that page, or nothing.  It may forget a page at any time (a slot is     *)
(* evicted) and may fail to give what it has (a write was torn, the copy   *)
(* is old); it never makes anything up and never goes back to contents it  *)
(* had replaced or forgotten.  PageCacheFile implements this with slots    *)
(* and checksums in a file.                                                *)
(***************************************************************************)
CONSTANTS PageIds, Payloads, Nothing

VARIABLES store,     \* the contents kept of each page
          asked,     \* the page and contents of the save in progress
          shown      \* what the last load gave

storeVars == <<store, asked, shown>>

NoAsk == [page |-> Nothing, bytes |-> Nothing]

Init == /\ store = [p \in PageIds |-> Nothing]
        /\ asked = NoAsk
        /\ shown = NoAsk

(* The pages a step is not about stay, or are forgotten. *)
KeepsOrForgets(P) == \A p \in P : store'[p] \in {store[p], Nothing}

Ask(p, x) == /\ asked = NoAsk
             /\ asked' = [page |-> p, bytes |-> x]
             /\ UNCHANGED <<store, shown>>

Forget == /\ store' \in [PageIds -> Payloads \cup {Nothing}]
          /\ KeepsOrForgets(PageIds)
          /\ asked' \in {asked, NoAsk}
          /\ UNCHANGED shown

Put == /\ asked # NoAsk
       /\ store' \in [PageIds -> Payloads \cup {Nothing}]
       /\ store'[asked.page] = asked.bytes
       /\ KeepsOrForgets(PageIds \ {asked.page})
       /\ asked' = NoAsk
       /\ UNCHANGED shown

Load(p) == /\ asked = NoAsk
           /\ shown' \in {NoAsk, [page |-> p, bytes |-> store[p]]}
           /\ UNCHANGED <<store, asked>>

Next == \/ \E p \in PageIds, x \in Payloads : Ask(p, x)
        \/ Forget
        \/ Put
        \/ \E p \in PageIds : Load(p)

Spec == Init /\ [][Next]_storeVars
=============================================================================
