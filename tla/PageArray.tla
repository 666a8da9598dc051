------------------------------ MODULE PageArray ------------------------------
(***************************************************************************)
(* What a cached file promises its users: an array of pages that grows, in *)
(* which a page changes only when somebody writes it, and a read answers   *)
(* what was written last.                                                  *)
(***************************************************************************)
EXTENDS Naturals, Sequences

CONSTANT Pages   \* the contents a page may have

VARIABLES
    pages,  \* the array; page k is its element k + 1
    call    \* the last call, with its arguments and its answer

Init == pages = << >> /\ call = <<"open">>

Grow(p) ==
    /\ pages' = Append(pages, p)
    /\ call' = <<"append", p>>

Read(k) ==
    /\ call' = <<"read", k, pages[k + 1]>>
    /\ UNCHANGED pages

Write(k, p) ==
    /\ pages' = [pages EXCEPT ![k + 1] = p]
    /\ call' = <<"write", k, p>>

Next ==
    \/ \E p \in Pages : Grow(p)
    \/ \E k \in 0..(Len(pages) - 1) : Read(k) \/ \E p \in Pages : Write(k, p)

Spec == Init /\ [][Next]_<<pages, call>>
=============================================================================
