------------------------------ MODULE PageCache ------------------------------
(***************************************************************************)
(* A file behind a page cache: data_file, cache and cached_file of core/io.*)
(* A cached file is a record and an operation an operator on it.  Frames   *)
(* and pages are counted from 0, as in the code; a page's content is a     *)
(* value.  The frames are taken in turn (m_currentCacheIndex): one filled  *)
(* since the hand last came by gets a second chance, one in use is passed  *)
(* over.                                                                   *)
(***************************************************************************)
EXTENDS Integers, Functions

CONSTANT CacheSize

NoPage == "no page"   \* what a new frame, or a page never written, holds

FrameIds == 0..(CacheSize - 1)

EmptyFrame == [page |-> NoPage, key |-> 0, empty |-> TRUE, recent |-> 1,
               uses |-> 0, modified |-> FALSE]

NewFile ==
    [frame |-> [i \in FrameIds |-> EmptyFrame],  \* m_cachedArray
     hand  |-> 0,                                \* m_currentCacheIndex
     index |-> [k \in {} |-> 0],                 \* m_index
     count |-> 0,                                \* m_count
     disk  |-> [k \in {} |-> NoPage]]            \* the pages written so far

Cached(f) == DOMAIN f.index
Written(f) == DOMAIN f.disk

FileType(f, Page) ==
    /\ f.frame \in [FrameIds -> [page : Page \cup {NoPage}, key : Nat, empty : BOOLEAN,
                                 recent : 0..1, uses : Nat, modified : BOOLEAN]]
    /\ f.hand \in FrameIds
    /\ f.count \in Nat
    /\ Cached(f) \cup Written(f) \subseteq 0..(f.count - 1)
    /\ f.index \in [Cached(f) -> FrameIds]
    /\ f.disk \in [Written(f) -> Page]

Put(fun, k, v) == [m \in DOMAIN fun \cup {k} |-> IF m = k THEN v ELSE fun[m]]
-----------------------------------------------------------------------------
Unused(f) == {i \in FrameIds : f.frame[i].empty \/ f.frame[i].uses = 0}

Spent(f) == {i \in Unused(f) : f.frame[i].empty \/ f.frame[i].recent = 0}

Ahead(f, i) == (i - f.hand) % CacheSize

(* The hand goes round until a frame can be taken; a second round finds the*)
(* chances the first one has used up.  With every frame in use it goes     *)
(* round for ever.                                                         *)
Victim(f) ==
    LET S == IF Spent(f) # {} THEN Spent(f) ELSE Unused(f)
    IN  CHOOSE i \in S : \A j \in S : Ahead(f, i) <= Ahead(f, j)

(* The frames that lose their chance on the way. *)
Passed(f) ==
    IF Spent(f) = {} THEN Unused(f)
    ELSE {i \in Unused(f) : Ahead(f, i) < Ahead(f, Victim(f))}

(* Faulty variants: a page that is in the file already is not written      *)
(* again; the page is still found.                                         *)
KickOnce(f, i) ==
    LET old == f.frame[i]
    IN  IF old.empty THEN f
        ELSE [f EXCEPT !.disk  = IF old.key \in Written(f) THEN @ ELSE Put(@, old.key, old.page),
                       !.index = Restrict(@, DOMAIN @ \ {old.key})]

KickIndexed(f, i) ==
    LET old == f.frame[i]
    IN  IF old.empty THEN f ELSE [f EXCEPT !.disk = Put(@, old.key, old.page)]

(* kick_element: what the frame holds is written back if it was modified.  *)
Kick(f, i) ==
    LET old == f.frame[i]
    IN  IF old.empty THEN f
        ELSE [f EXCEPT !.disk  = IF old.modified THEN Put(@, old.key, old.page) ELSE @,
                       !.index = Restrict(@, DOMAIN @ \ {old.key})]

(* get_cache_page: frame Victim(f) is now key's; it still holds what it held*)
GetCachePage(f, key) ==
    LET v == Victim(f)
    IN  [Kick(f, v) EXCEPT
            !.frame = [i \in FrameIds |->
                CASE i = v -> [f.frame[i] EXCEPT !.key = key, !.empty = FALSE,
                                                 !.recent = 1, !.modified = FALSE]
                  [] i # v /\ i \in Passed(f) -> [f.frame[i] EXCEPT !.recent = 0]
                  [] OTHER -> f.frame[i]],
            !.hand = (v + 1) % CacheSize]

(* Faulty variant: a page just read is not marked. *)
FillClean(f, i, key, page) ==
    [f EXCEPT !.frame[i].page = page,
              !.index = IF key \in DOMAIN @ THEN @ ELSE Put(@, key, i)]

(* The end of load and of operator[] after a miss. *)
Fill(f, i, key, page) ==
    [f EXCEPT !.frame[i].page = page, !.frame[i].modified = TRUE,
              !.index = IF key \in DOMAIN @ THEN @ ELSE Put(@, key, i)]

(* push_back *)
PushBack(f, page) ==
    [Fill(GetCachePage(f, f.count), Victim(f), f.count, page) EXCEPT !.count = @ + 1]

(* data_file::get: nothing beyond m_blockCount; a gap holds nothing that   *)
(* this run put there.                                                     *)
OnDisk(f, key) == \E k \in Written(f) : key <= k
Get(f, key) == IF key \in Written(f) THEN f.disk[key] ELSE NoPage

(* operator[]; after an I/O error the frame stays taken. *)
Fetch(f, key) ==
    LET g == GetCachePage(f, key)
    IN  IF key \in Cached(f) THEN f
        ELSE IF OnDisk(g, key) THEN Fill(g, Victim(f), key, Get(g, key))
        ELSE g

PageOf(f, key) == f.frame[f.index[key]].page

(* Faulty variant: nobody counts the users. *)
MarkNothing(f, key) == f

MarkUsed(f, key) == [f EXCEPT !.frame[f.index[key]].uses = @ + 1]
ClearUsed(f, key) == [f EXCEPT !.frame[f.index[key]].uses = @ - 1]
SetModified(f, key) == [f EXCEPT !.frame[f.index[key]].modified = TRUE]
=============================================================================
