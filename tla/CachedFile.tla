----------------------------- MODULE CachedFile -----------------------------
(***************************************************************************)
(* A cached file and its users, all on one thread.  The node log appends   *)
(* pages and reads them (external_vector).  The hash set reads and appends *)
(* pages too, and holds the pages of a chain while it works on them: it    *)
(* marks them used, keeps pointers to their frames, writes through these   *)
(* and lets go (buffered_complex_hashset, block_chain_t).                  *)
(***************************************************************************)
EXTENDS PageCache, FiniteSets

CONSTANTS
    Pages,     \* the contents a page may have
    MaxPages,  \* bound: pages appended
    MaxHeld    \* bound: pages held at a time; fewer than CacheSize

ASSUME CacheAssumption ==
    /\ CacheSize \in Nat
    /\ MaxHeld \in Nat
    /\ MaxHeld < CacheSize
    /\ NoPage \notin Pages

VARIABLES
    file,   \* the cached file
    held,  \* m_blocksData: for a page held, its frame and the modified flag
    call   \* a history: the last call, with its arguments and its answer

vars == <<file, held, call>>

Held == DOMAIN held

(* What operator[] answers; nothing after an I/O error. *)
Answer(f, k) == IF k \in Cached(f) THEN PageOf(f, k) ELSE NoPage

Hold(k, f, modified) ==
    /\ file' = MarkUsed(f, k)
    /\ held' = Put(held, k, [at |-> f.index[k], modified |-> modified])
-----------------------------------------------------------------------------
(* external_vector::push_back, request_block *)
AppendPage(p) ==
    /\ file.count < MaxPages
    /\ file' = PushBack(file, p)
    /\ call' = <<"append", p>>
    /\ UNCHANGED held

(* external_vector::operator[], and a block asked for without holding it. *)
Read(k) ==
    /\ file' = Fetch(file, k)
    /\ call' = <<"read", k, Answer(file', k)>>
    /\ UNCHANGED held

(* The constructor of block_chain_t, for one block. *)
Acquire(k) ==
    /\ k \notin Held
    /\ Cardinality(Held) < MaxHeld
    /\ k \in Cached(Fetch(file, k))
    /\ Hold(k, Fetch(file, k), FALSE)
    /\ call' = <<"read", k, PageOf(Fetch(file, k), k)>>

(* append_new_block with the lambda of insert_into_chain. *)
Extend(p) ==
    /\ file.count < MaxPages
    /\ Cardinality(Held) < MaxHeld
    /\ Hold(file.count, PushBack(file, p), TRUE)
    /\ call' = <<"append", p>>

(* A block of the chain is read, through the pointer to its frame. *)
ReadHeld(k) ==
    /\ call' = <<"read", k, file.frame[held[k].at].page>>
    /\ UNCHANGED <<file, held>>

(* A block of the chain changes, through the pointer to its frame. *)
WriteHeld(k, p) ==
    /\ file' = [file EXCEPT !.frame[held[k].at].page = p]
    /\ held' = [held EXCEPT ![k].modified = TRUE]
    /\ call' = <<"write", k, p>>

(* remove_last_blocks, for one block. *)
Release(k) ==
    /\ file' = ClearUsed(IF held[k].modified THEN SetModified(file, k) ELSE file, k)
    /\ held' = Restrict(held, Held \ {k})
    /\ UNCHANGED call

Init ==
    /\ file = NewFile
    /\ held = [k \in {} |-> << >>]
    /\ call = <<"open">>

Next ==
    \/ \E p \in Pages : AppendPage(p) \/ Extend(p)
    \/ \E k \in 0..(file.count - 1) : Read(k) \/ Acquire(k)
    \/ \E k \in Held : ReadHeld(k) \/ Release(k) \/ \E p \in Pages : WriteHeld(k, p)

Spec == Init /\ [][Next]_vars
-----------------------------------------------------------------------------
AllPages == 0..(file.count - 1)

Calls ==
    {<<"open">>} \cup {<<"append", p>> : p \in Pages}
    \cup {<<"read", k, p>> : k \in AllPages, p \in Pages}
    \cup {<<"write", k, p>> : k \in AllPages, p \in Pages}

TypeOK ==
    /\ FileType(file, Pages)
    /\ call \in Calls
    /\ Held \subseteq AllPages
    /\ held \in [Held -> [at : FrameIds, modified : BOOLEAN]]

(* A page is in one frame at most and is found there; a frame in use is the*)
(* frame its users point to.                                               *)
FramesAreFound ==
    /\ \A k \in Cached(file) : LET fr == file.frame[file.index[k]]
                               IN  ~ fr.empty /\ fr.key = k
    /\ \A i \in FrameIds : LET fr == file.frame[i]
                           IN  ~ fr.empty => fr.key \in Cached(file) /\ file.index[fr.key] = i

(* The pointers of a chain stay good: a page held stays in its frame, what-*)
(* ever else is read or appended meanwhile (buffered_complex_hashset.h:265,*)
(* where the pointer is kept).                                             *)
PointersStayGood ==
    /\ \A k \in Held : k \in Cached(file) /\ file.index[k] = held[k].at
    /\ \A i \in FrameIds :
          file.frame[i].uses = Cardinality({k \in Held : held[k].at = i})

(* No page is lost: one that is not cached is in the file, and the file's  *)
(* end is beyond it; one that is cached will be written back, though a hit *)
(* marks nothing and a user may write through a pointer it got by a hit    *)
(* (cache.h:99).                                                           *)
NoPageIsLost ==
    \A k \in AllPages :
        IF k \in Cached(file) THEN file.frame[file.index[k]].modified
        ELSE k \in Written(file)

Array == INSTANCE PageArray WITH
    pages <- [i \in 1..file.count |->
                 IF i - 1 \in Cached(file) THEN PageOf(file, i - 1) ELSE Get(file, i - 1)]

(* Behind its cache the file is an array: a page changes only in the step  *)
(* of the user who writes it, whatever is evicted, read back, held or let  *)
(* go, and each read, through operator[] or through a pointer kept, answers*)
(* what was last written there (cache.h:91, block_chain.h:577).            *)
RefinesPageArray == Array!Spec
=============================================================================
