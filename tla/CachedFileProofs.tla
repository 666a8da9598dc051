--------------------------- MODULE CachedFileProofs ---------------------------
(***************************************************************************)
(* The page cache keeps every page and every pointer, whatever the number  *)
(* of frames, of pages and of pages held, as long as fewer pages are held  *)
(* than there are frames.  The vector upon such a file is an array, however *)
(* many values share a block.                                              *)
(***************************************************************************)
EXTENDS CachedFile, ComplexVector, FiniteSetTheorems, WellFoundedInduction, TLAPS

-----------------------------------------------------------------------------
LEMMA LeastNat ==
    ASSUME NEW T \in SUBSET Nat, T # {}
    PROVE  \E n \in T : \A m \in T : n <= m
<1> DEFINE below(n) == 0..n
           R == StrictSubsetOrdering(Nat)
           D == {below(n) : n \in T}
<1>1. \A n \in Nat : below(n) \in FiniteSubsetsOf(Nat)
    BY FS_Interval DEF FiniteSubsetsOf
<1>2. IsWellFoundedOn(R, FiniteSubsetsOf(Nat))
    BY FS_StrictSubsetOrderingWellFounded
<1>3. D \subseteq FiniteSubsetsOf(Nat) /\ D # {}
    BY <1>1
<1>4. PICK x \in D : \A y \in D : ~ (<<y, x>> \in R)
  <2> HIDE DEF R, D
  <2> QED BY <1>2, <1>3, WFMin
<1>5. PICK n \in T : x = below(n)
    OBVIOUS
<1>6. ASSUME NEW m \in T, m < n
      PROVE  FALSE
  <2>1. below(m) \in D
    BY <1>6
  <2>2. m \in Nat /\ n \in Nat
    OBVIOUS
  <2>3. below(m) \subseteq below(n) /\ n \in below(n) /\ n \notin below(m)
    BY <1>6, <2>2
  <2>4. below(m) \in SUBSET Nat /\ below(n) \in SUBSET Nat
    OBVIOUS
  <2> HIDE DEF D, below
  <2>5. <<below(m), below(n)>> \in R
    BY <2>3, <2>4 DEF StrictSubsetOrdering
  <2> QED BY <1>4, <1>5, <2>1, <2>5
<1> QED BY <1>6
-----------------------------------------------------------------------------
(* The fields a file has. *)
IsFile(f) ==
    f = [frame |-> f.frame, hand |-> f.hand, index |-> f.index,
         count |-> f.count, disk |-> f.disk]

Found(f) ==
    /\ \A k \in Cached(f) : ~ f.frame[f.index[k]].empty /\ f.frame[f.index[k]].key = k
    /\ \A i \in FrameIds : ~ f.frame[i].empty =>
          f.frame[i].key \in Cached(f) /\ f.index[f.frame[i].key] = i

(* A frame taken holds a page somebody wrote. *)
Full(f) == \A i \in FrameIds : ~ f.frame[i].empty => f.frame[i].page \in Pages

Kept(f) ==
    \A k \in 0..(f.count - 1) :
        IF k \in Cached(f) THEN f.frame[f.index[k]].modified ELSE k \in Written(f)

(* The page a user of the file finds. *)
Content(f, k) == IF k \in Cached(f) THEN PageOf(f, k) ELSE Get(f, k)

SamePages(f, g) == \A k \in 0..(f.count - 1) : Content(g, k) = Content(f, k)

FileInv(f) == IsFile(f) /\ FileType(f, Pages) /\ Found(f) /\ Full(f) /\ Kept(f)

(* What a frame is made of. *)
FrameRecord ==
    [page : Pages \cup {NoPage}, key : Nat, empty : BOOLEAN,
     recent : 0..1, uses : Nat, modified : BOOLEAN]

(* A frame can be taken when one is not in use, and it is one of those.    *)
LEMMA VictimIsUnused ==
    ASSUME NEW f, f.hand \in FrameIds, CacheSize \in Nat \ {0}, Unused(f) # {}
    PROVE  Victim(f) \in Unused(f)
<1> DEFINE S == IF Spent(f) # {} THEN Spent(f) ELSE Unused(f)
           T == {Ahead(f, i) : i \in S}
<1>1. S # {} /\ S \subseteq Unused(f) /\ S \subseteq FrameIds
    BY DEF Spent, Unused
<1>2. \A i \in FrameIds : Ahead(f, i) \in Nat
    BY DEF Ahead, FrameIds
<1>3. T \in SUBSET Nat /\ T # {}
    BY <1>1, <1>2
<1>4. PICK n \in T : \A m \in T : n <= m
    BY <1>3, LeastNat
<1>5. \E i \in S : \A j \in S : Ahead(f, i) <= Ahead(f, j)
    BY <1>4
<1>6. Victim(f) = CHOOSE i \in S : \A j \in S : Ahead(f, i) <= Ahead(f, j)
    BY DEF Victim
<1> HIDE DEF S
<1> QED BY <1>1, <1>5, <1>6

Entered(f, key, page) == Fill(GetCachePage(f, key), Victim(f), key, page)

(* new is the frame of a page that has just entered, old what it was. *)
IsNewFrame(new, old, key, page) ==
    /\ new \in FrameRecord
    /\ new.key = key /\ new.page = page /\ new.uses = old.uses
    /\ new.empty = FALSE /\ new.modified = TRUE

LEMMA Assigned ==
    ASSUME NEW old \in FrameRecord, NEW key \in Nat, NEW page \in Pages
    PROVE  IsNewFrame([[old EXCEPT !.key = key, !.empty = FALSE, !.recent = 1, !.modified = FALSE]
                          EXCEPT !.page = page, !.modified = TRUE], old, key, page)
<1> DEFINE mid == [old EXCEPT !.key = key, !.empty = FALSE, !.recent = 1, !.modified = FALSE]
           new == [mid EXCEPT !.page = page, !.modified = TRUE]
<1>1. mid \in FrameRecord
  <2> DEFINE one == 1
  <2>0. one \in 0..1
    OBVIOUS
  <2> HIDE DEF one
  <2>1. ASSUME NEW r \in FrameRecord
        PROVE  [r EXCEPT !.recent = one] \in FrameRecord
    BY <2>0 DEF FrameRecord
  <2>4. ASSUME NEW r \in FrameRecord
        PROVE  [r EXCEPT !.modified = FALSE] \in FrameRecord
    BY DEF FrameRecord
  <2>2. [old EXCEPT !.key = key, !.empty = FALSE] \in FrameRecord
    BY DEF FrameRecord
  <2>3. mid = [[[old EXCEPT !.key = key, !.empty = FALSE] EXCEPT !.recent = 1]
                  EXCEPT !.modified = FALSE]
    OBVIOUS
  <2> QED BY <2>1, <2>2, <2>3, <2>4 DEF one
<1>2. mid.key = key
    BY DEF FrameRecord
<1>3. mid.uses = old.uses
    BY DEF FrameRecord
<1>4. mid.empty = FALSE
    BY DEF FrameRecord
<1> HIDE DEF mid
<1>5. new \in FrameRecord
    BY <1>1 DEF FrameRecord
<1>6. new.key = mid.key /\ new.uses = mid.uses /\ new.page = page
    BY <1>1 DEF FrameRecord
<1>7. new.empty = mid.empty
    BY <1>1 DEF FrameRecord
<1>8. new.modified = TRUE
    BY <1>1 DEF FrameRecord
<1> HIDE DEF new
<1>9. IsNewFrame(new, old, key, page)
    BY <1>2, <1>3, <1>4, <1>5, <1>6, <1>7, <1>8 DEF IsNewFrame
<1> QED BY <1>9 DEF new, mid

(* What the file f is after a page has entered the cache in frame v. *)
HasEntered(g, f, v, key, page) ==
    LET old == f.frame[v]
    IN  /\ IsFile(g)
        /\ DOMAIN g.frame = FrameIds /\ g.frame = [i \in FrameIds |-> g.frame[i]]
        /\ IsNewFrame(g.frame[v], old, key, page)
        /\ \A i \in FrameIds : i # v =>
               g.frame[i] = IF i \in Passed(f) THEN [f.frame[i] EXCEPT !.recent = 0] ELSE f.frame[i]
        /\ g.hand \in FrameIds
        /\ g.index = [k \in (IF old.empty THEN Cached(f) ELSE Cached(f) \ {old.key}) \cup {key} |->
                         IF k = key THEN v ELSE f.index[k]]
        /\ g.disk = IF old.empty THEN f.disk ELSE Put(f.disk, old.key, old.page)
        /\ g.count = f.count

LEMMA EnteredFields ==
    ASSUME NEW f, FileInv(f), NEW v \in FrameIds, v = Victim(f),
           CacheSize \in Nat \ {0},
           NEW key \in Nat, key \notin Cached(f), NEW page \in Pages
    PROVE  HasEntered(Entered(f, key, page), f, v, key, page)
<1> DEFINE old == f.frame[v]
           c   == Kick(f, v)
           h   == GetCachePage(f, key)
           g   == Entered(f, key, page)
<1>1. /\ f.frame \in [FrameIds -> [page : Pages \cup {NoPage}, key : Nat, empty : BOOLEAN,
                                   recent : 0..1, uses : Nat, modified : BOOLEAN]]
      /\ f.index \in [Cached(f) -> FrameIds]
      /\ IsFile(f)
    BY DEF FileInv, FileType
<1>2. ~ old.empty => old.modified
    BY <1>1 DEF FileInv, Found, Kept, FileType
<1>3. /\ IsFile(c)
      /\ c.index = IF old.empty THEN f.index ELSE [k \in Cached(f) \ {old.key} |-> f.index[k]]
      /\ c.disk = IF old.empty THEN f.disk ELSE Put(f.disk, old.key, old.page)
      /\ c.count = f.count
    BY <1>1, <1>2 DEF Kick, IsFile, Restrict, Cached
<1> DEFINE F == [i \in FrameIds |->
                CASE i = v -> [f.frame[i] EXCEPT !.key = key, !.empty = FALSE,
                                                 !.recent = 1, !.modified = FALSE]
                  [] i # v /\ i \in Passed(f) -> [f.frame[i] EXCEPT !.recent = 0]
                  [] OTHER -> f.frame[i]]
<1>4. h = [c EXCEPT !.frame = F, !.hand = (v + 1) % CacheSize]
    BY DEF GetCachePage
<1> HIDE DEF c, F, h
<1>5. /\ IsFile(h)
      /\ h.frame = F
      /\ h.hand = (v + 1) % CacheSize
      /\ h.index = c.index
      /\ h.disk = c.disk
      /\ h.count = c.count
    BY <1>3, <1>4 DEF IsFile
<1>6. key \notin DOMAIN h.index
    BY <1>1, <1>3, <1>5 DEF Cached
<1>7. g = [h EXCEPT !.frame[v].page = page, !.frame[v].modified = TRUE,
                    !.index = Put(h.index, key, v)]
    BY <1>6 DEF Entered, Fill, h
<1> HIDE DEF g
<1>8. /\ IsFile(g)
      /\ g.frame = [F EXCEPT ![v].page = page, ![v].modified = TRUE]
      /\ g.hand = h.hand /\ g.disk = h.disk /\ g.count = h.count
      /\ g.index = Put(h.index, key, v)
    BY <1>5, <1>7 DEF IsFile
<1>9. /\ DOMAIN g.frame = FrameIds /\ g.frame = [i \in FrameIds |-> g.frame[i]]
      /\ IsNewFrame(g.frame[v], old, key, page)
      /\ \A i \in FrameIds : i # v =>
             g.frame[i] = IF i \in Passed(f) THEN [f.frame[i] EXCEPT !.recent = 0] ELSE f.frame[i]
  <2> DEFINE new == [F[v] EXCEPT !.page = page, !.modified = TRUE]
  <2>1. /\ DOMAIN F = FrameIds
        /\ F[v] = [old EXCEPT !.key = key, !.empty = FALSE, !.recent = 1, !.modified = FALSE]
        /\ \A i \in FrameIds : i # v =>
              F[i] = IF i \in Passed(f) THEN [f.frame[i] EXCEPT !.recent = 0] ELSE f.frame[i]
    BY DEF F
  <2>2. old \in FrameRecord
    BY <1>1 DEF FrameRecord
  <2> HIDE DEF old
  <2>3. IsNewFrame(new, old, key, page)
    BY <2>1, <2>2, Assigned
  <2>4. g.frame = [F EXCEPT ![v] = new]
    BY <1>8, <2>1
  <2> HIDE DEF new
  <2> QED BY <2>1, <2>3, <2>4
<1>10. g.hand \in FrameIds
    BY <1>5, <1>8 DEF FrameIds
<1>11. g.index = [k \in (IF old.empty THEN Cached(f) ELSE Cached(f) \ {old.key}) \cup {key} |->
                                IF k = key THEN v ELSE f.index[k]]
    BY <1>1, <1>3, <1>5, <1>6, <1>8 DEF Put, Cached
<1> QED BY <1>3, <1>5, <1>8, <1>9, <1>10, <1>11 DEF g, HasEntered

(* A page that enters, new or back from the file, leaves the file in order,*)
(* and the pages in use where they are.                                    *)
LEMMA EnteredInv ==
    ASSUME NEW f, FileInv(f), NEW v \in Unused(f), v = Victim(f),
           CacheSize \in Nat \ {0},
           NEW key \in Nat, key \notin Cached(f), NEW page \in Pages,
           NEW n \in Nat, f.count <= n, key < n, \A k \in f.count..(n - 1) : k = key
    PROVE  LET g == [Entered(f, key, page) EXCEPT !.count = n]
           IN  /\ FileInv(g)
               /\ g.count = n
               /\ key \in Cached(g) /\ g.index[key] = v
               /\ \A i \in FrameIds : g.frame[i].uses = f.frame[i].uses
               /\ \A k \in Cached(f) : f.frame[f.index[k]].uses # 0 =>
                      k \in Cached(g) /\ g.index[k] = f.index[k]
               /\ Content(g, key) = page
               /\ \A k \in 0..(n - 1) : k # key => Content(g, k) = Content(f, k)
<1> DEFINE e == Entered(f, key, page)
           g == [e EXCEPT !.count = n]
           old == f.frame[v]
<1>1. v \in FrameIds /\ (old.empty \/ old.uses = 0)
    BY DEF Unused
<1>2. /\ f.frame \in [FrameIds -> FrameRecord]
      /\ f.index \in [Cached(f) -> FrameIds]
      /\ f.disk \in [Written(f) -> Pages]
      /\ f.count \in Nat
      /\ Cached(f) \cup Written(f) \subseteq 0..(f.count - 1)
      /\ Found(f) /\ Full(f) /\ Kept(f)
    BY DEF FileInv, FileType, FrameRecord
<1>3. HasEntered(e, f, v, key, page)
    BY <1>1, EnteredFields
<1> HIDE DEF e
<1>4. /\ IsFile(g)
      /\ g.frame = e.frame /\ g.hand = e.hand /\ g.index = e.index
      /\ g.disk = e.disk /\ g.count = n
    BY <1>3 DEF HasEntered, IsFile
<1> HIDE DEF g
<1>5. old \in FrameRecord
    BY <1>1, <1>2
<1>6. /\ g.frame \in [FrameIds -> FrameRecord]
      /\ g.frame[v].page = page /\ g.frame[v].key = key /\ g.frame[v].empty = FALSE
      /\ g.frame[v].modified = TRUE /\ g.frame[v].uses = old.uses
      /\ \A i \in FrameIds : i # v =>
            /\ g.frame[i].page = f.frame[i].page /\ g.frame[i].key = f.frame[i].key
            /\ g.frame[i].empty = f.frame[i].empty
            /\ g.frame[i].modified = f.frame[i].modified
            /\ g.frame[i].uses = f.frame[i].uses
  <2>1. \A r \in FrameRecord : LET c == [r EXCEPT !.recent = 0]
                              IN  /\ c \in FrameRecord
                                  /\ c.page = r.page /\ c.key = r.key /\ c.empty = r.empty
                                  /\ c.modified = r.modified /\ c.uses = r.uses
    BY DEF FrameRecord
  <2>2. IsNewFrame(g.frame[v], old, key, page)
    BY <1>3, <1>4 DEF HasEntered
  <2>3. ASSUME NEW i \in FrameIds, i # v
        PROVE  /\ g.frame[i] \in FrameRecord
               /\ g.frame[i].page = f.frame[i].page /\ g.frame[i].key = f.frame[i].key
               /\ g.frame[i].empty = f.frame[i].empty
               /\ g.frame[i].modified = f.frame[i].modified
               /\ g.frame[i].uses = f.frame[i].uses
    <3>1. f.frame[i] \in FrameRecord
      BY <1>2
    <3>2. g.frame[i] = [f.frame[i] EXCEPT !.recent = 0] \/ g.frame[i] = f.frame[i]
      BY <1>3, <1>4, <2>3 DEF HasEntered
    <3> QED BY <2>1, <3>1, <3>2
  <2>4. \A i \in FrameIds : g.frame[i] \in FrameRecord
    BY <2>2, <2>3 DEF IsNewFrame
  <2>5. g.frame \in [FrameIds -> FrameRecord]
    BY <1>3, <1>4, <2>4 DEF HasEntered
  <2> QED BY <2>2, <2>3, <2>5 DEF IsNewFrame
<1>7. /\ Cached(g) = (IF old.empty THEN Cached(f) ELSE Cached(f) \ {old.key}) \cup {key}
      /\ g.index \in [Cached(g) -> FrameIds]
      /\ g.index[key] = v
      /\ \A k \in Cached(g) : k # key => k \in Cached(f) /\ g.index[k] = f.index[k]
    BY <1>1, <1>2, <1>3, <1>4 DEF HasEntered, Cached
<1>8. ~ old.empty => old.key \in Cached(f) /\ f.index[old.key] = v /\ old.page \in Pages
    BY <1>1, <1>2 DEF Found, Full
<1>9. /\ Written(g) = IF old.empty THEN Written(f) ELSE Written(f) \cup {old.key}
      /\ g.disk \in [Written(g) -> Pages]
    BY <1>2, <1>3, <1>4, <1>8 DEF HasEntered, Written, Put
<1>10. FileType(g, Pages)
  <2>1. Cached(g) \cup Written(g) \subseteq 0..(n - 1)
    BY <1>2, <1>7, <1>8, <1>9
  <2> QED BY <1>3, <1>4, <1>6, <1>7, <1>9, <2>1 DEF FileType, FrameRecord, HasEntered
<1>11. \A k \in Cached(g) : k # key => g.index[k] # v
  <2> SUFFICES ASSUME NEW k \in Cached(g), k # key, f.index[k] = v, k \in Cached(f)
               PROVE  FALSE
    BY <1>7
  <2>1. ~ old.empty /\ old.key = k
    BY <1>2 DEF Found
  <2> QED BY <1>7, <2>1
<1>12. Found(g)
  <2>1. ASSUME NEW k \in Cached(g)
        PROVE  ~ g.frame[g.index[k]].empty /\ g.frame[g.index[k]].key = k
    <3>1. CASE k = key
      BY <1>6, <1>7, <3>1
    <3>2. CASE k # key
      <4>1. k \in Cached(f) /\ g.index[k] = f.index[k] /\ f.index[k] # v /\ f.index[k] \in FrameIds
        BY <1>2, <1>7, <1>11, <3>2
      <4> QED BY <1>2, <1>6, <4>1 DEF Found
    <3> QED BY <3>1, <3>2
  <2>2. ASSUME NEW i \in FrameIds, ~ g.frame[i].empty
        PROVE  g.frame[i].key \in Cached(g) /\ g.index[g.frame[i].key] = i
    <3>1. CASE i = v
      BY <1>6, <1>7, <3>1
    <3>2. CASE i # v
      <4>1. f.frame[i].key \in Cached(f) /\ f.index[f.frame[i].key] = i
            /\ g.frame[i].key = f.frame[i].key
        BY <1>2, <1>6, <2>2, <3>2 DEF Found
      <4>2. ~ old.empty => f.frame[i].key # old.key
        BY <1>8, <3>2, <4>1
      <4> QED BY <1>7, <4>1, <4>2
    <3> QED BY <3>1, <3>2
  <2> QED BY <2>1, <2>2 DEF Found
<1>13. Full(g)
    BY <1>2, <1>6 DEF Full
<1>14. Kept(g)
  <2> SUFFICES ASSUME NEW k \in 0..(n - 1)
               PROVE  IF k \in Cached(g) THEN g.frame[g.index[k]].modified
                      ELSE k \in Written(g)
    BY <1>4 DEF Kept
  <2>1. CASE k = key
    BY <1>6, <1>7, <2>1
  <2>2. CASE k # key
    <3>1. k \in 0..(f.count - 1)
      BY <1>2, <2>2
    <3>2. CASE k \in Cached(g)
      <4>1. k \in Cached(f) /\ g.index[k] = f.index[k] /\ f.index[k] # v /\ f.index[k] \in FrameIds
        BY <1>2, <1>7, <1>11, <2>2, <3>2
      <4>2. f.frame[f.index[k]].modified
        BY <1>2, <3>1, <4>1 DEF Kept
      <4> QED BY <1>6, <3>2, <4>1, <4>2
    <3>3. CASE k \notin Cached(g)
      BY <1>2, <1>7, <1>9, <2>2, <3>1, <3>3 DEF Kept
    <3> QED BY <3>2, <3>3
  <2> QED BY <2>1, <2>2
<1>15. \A i \in FrameIds : g.frame[i].uses = f.frame[i].uses
    BY <1>6
<1>16. ASSUME NEW k \in Cached(f), f.frame[f.index[k]].uses # 0
       PROVE  k \in Cached(g) /\ g.index[k] = f.index[k]
  <2>1. ~ f.frame[f.index[k]].empty /\ f.frame[f.index[k]].key = k
    BY <1>2 DEF Found
  <2>2. f.index[k] # v
    BY <1>1, <1>16, <2>1
  <2>3. ~ old.empty => k # old.key
    BY <1>8, <2>2
  <2> QED BY <1>7, <2>3
<1>17. Content(g, key) = page
    BY <1>6, <1>7 DEF Content, PageOf
<1>18. ASSUME NEW k \in 0..(n - 1), k # key
       PROVE  Content(g, k) = Content(f, k)
  <2>1. CASE k \in Cached(g)
    <3>1. k \in Cached(f) /\ g.index[k] = f.index[k] /\ f.index[k] # v /\ f.index[k] \in FrameIds
      BY <1>2, <1>7, <1>11, <1>18, <2>1
    <3> QED BY <1>6, <2>1, <3>1 DEF Content, PageOf
  <2>2. CASE k \in Cached(f) /\ k \notin Cached(g)
    <3>1. ~ old.empty /\ k = old.key
      BY <1>7, <2>2
    <3>2. Content(f, k) = old.page
      BY <1>8, <2>2, <3>1 DEF Content, PageOf
    <3>3. k \in Written(g) /\ g.disk[k] = old.page
      BY <1>3, <1>4, <1>9, <3>1 DEF HasEntered, Put
    <3> QED BY <2>2, <3>2, <3>3 DEF Content, Get
  <2>3. CASE k \notin Cached(f) /\ k \notin Cached(g)
    <3>1. old.empty \/ k # old.key
      BY <1>8, <2>3
    <3>2. (k \in Written(g) <=> k \in Written(f)) /\ (k \in Written(f) => g.disk[k] = f.disk[k])
      BY <1>3, <1>4, <1>9, <3>1 DEF HasEntered, Put, Written
    <3> QED BY <2>3, <3>2 DEF Content, Get
  <2> QED BY <2>1, <2>2, <2>3
<1> QED BY <1>4, <1>7, <1>10, <1>12, <1>13, <1>14, <1>15, <1>16, <1>17, <1>18 DEF FileInv, g, e
-----------------------------------------------------------------------------
(* The users of a file f are right: each finds its page in the frame it    *)
(* points to, and a frame counts the users it has.                         *)
Users(h, i) == {k \in DOMAIN h : h[k].at = i}

Good(f, h) ==
    /\ \A k \in DOMAIN h : k \in Cached(f) /\ f.index[k] = h[k].at
    /\ \A i \in FrameIds : f.frame[i].uses = Cardinality(Users(h, i))

HeldType(f, h) ==
    /\ h \in [DOMAIN h -> [at : FrameIds, modified : BOOLEAN]]
    /\ DOMAIN h \subseteq 0..(f.count - 1)
    /\ IsFiniteSet(DOMAIN h)
    /\ Cardinality(DOMAIN h) <= MaxHeld

(* From f to g the frames in use stay what they are. *)
KeepsUsed(f, g) ==
    /\ \A i \in FrameIds : g.frame[i].uses = f.frame[i].uses
    /\ \A k \in Cached(f) : f.frame[f.index[k]].uses # 0 =>
           k \in Cached(g) /\ g.index[k] = f.index[k]

LEMMA UsersFinite ==
    ASSUME NEW h, IsFiniteSet(DOMAIN h)
    PROVE  \A i : IsFiniteSet(Users(h, i))
BY FS_Subset DEF Users

LEMMA HeldIsUsed ==
    ASSUME NEW f, NEW h, Good(f, h), IsFiniteSet(DOMAIN h),
           NEW k \in DOMAIN h, h[k].at \in FrameIds
    PROVE  f.frame[h[k].at].uses \in Nat \ {0}
<1>1. k \in Users(h, h[k].at)
    BY DEF Users
<1>2. IsFiniteSet(Users(h, h[k].at))
    BY UsersFinite
<1> QED BY <1>1, <1>2, FS_EmptySet, FS_CardinalityType DEF Good

(* Fewer pages are held than there are frames: one is free. *)
LEMMA UnusedExists ==
    ASSUME CacheAssumption, NEW f, NEW h, Good(f, h), HeldType(f, h)
    PROVE  Unused(f) # {}
<1> SUFFICES ASSUME Unused(f) = {}
             PROVE  FALSE
    OBVIOUS
<1> DEFINE user == [i \in FrameIds |-> CHOOSE k \in DOMAIN h : h[k].at = i]
<1>1. ASSUME NEW i \in FrameIds
      PROVE  \E k \in DOMAIN h : h[k].at = i
  <2>1. Cardinality(Users(h, i)) # 0
    BY DEF Unused, Good
  <2>2. Users(h, i) # {}
    BY <2>1, FS_EmptySet
  <2> QED BY <2>2 DEF Users
<1>2. user \in [FrameIds -> DOMAIN h] /\ \A i \in FrameIds : h[user[i]].at = i
    BY <1>1
<1>3. IsFiniteSet(FrameIds) /\ Cardinality(FrameIds) = CacheSize
    BY FS_Interval DEF FrameIds, CacheAssumption
<1>4. Cardinality(DOMAIN h) < Cardinality(FrameIds) /\ IsFiniteSet(DOMAIN h)
    BY <1>3, FS_CardinalityType DEF HeldType, CacheAssumption
<1> HIDE DEF user
<1>5. \E i, j \in FrameIds : i # j /\ user[i] = user[j]
    BY <1>2, <1>3, <1>4, FS_PigeonHole
<1> QED BY <1>2, <1>5

LEMMA GoodKept ==
    ASSUME NEW f, NEW g, NEW h, Good(f, h), HeldType(f, h), KeepsUsed(f, g)
    PROVE  Good(g, h)
<1>1. ASSUME NEW k \in DOMAIN h
      PROVE  k \in Cached(g) /\ g.index[k] = h[k].at
  <2>1. h[k].at \in FrameIds /\ k \in Cached(f) /\ f.index[k] = h[k].at
    BY DEF HeldType, Good
  <2>2. f.frame[h[k].at].uses # 0
    BY <2>1, HeldIsUsed DEF HeldType
  <2> QED BY <2>1, <2>2 DEF KeepsUsed
<1> QED BY <1>1 DEF Good, KeepsUsed

-----------------------------------------------------------------------------
(* A page appended, and a page asked for. *)
LEMMA PushBackInv ==
    ASSUME NEW f, FileInv(f), Unused(f) # {}, CacheSize \in Nat \ {0}, NEW page \in Pages
    PROVE  LET g == PushBack(f, page)
           IN  /\ FileInv(g) /\ KeepsUsed(f, g) /\ g.count = f.count + 1 /\ f.count \in Cached(g)
               /\ SamePages(f, g) /\ Content(g, f.count) = page
<1>1. f.count \in Nat /\ f.count \notin Cached(f) /\ f.hand \in FrameIds
    BY DEF FileInv, FileType
<1>2. Victim(f) \in Unused(f)
    BY <1>1, VictimIsUnused
<1> DEFINE e == Entered(f, f.count, page)
           g == [e EXCEPT !.count = f.count + 1]
<1>3. e.count = f.count
  <2>1. Victim(f) \in FrameIds
    BY <1>2 DEF Unused
  <2>2. HasEntered(e, f, Victim(f), f.count, page)
    BY <1>1, <2>1, EnteredFields
  <2> HIDE DEF e
  <2> QED BY <2>2 DEF HasEntered
<1>4. PushBack(f, page) = [e EXCEPT !.count = e.count + 1]
    BY DEF PushBack, Entered
<1>5. PushBack(f, page) = g
    BY <1>3, <1>4
<1>6. /\ FileInv(g) /\ KeepsUsed(f, g) /\ g.count = f.count + 1 /\ f.count \in Cached(g)
      /\ SamePages(f, g) /\ Content(g, f.count) = page
  <2> DEFINE n == f.count + 1
  <2>1. n \in Nat /\ f.count <= n /\ f.count < n /\ \A k \in f.count..(n - 1) : k = f.count
    BY <1>1
  <2> HIDE DEF n
  <2>2. LET a == [Entered(f, f.count, page) EXCEPT !.count = n]
        IN  /\ FileInv(a) /\ KeepsUsed(f, a) /\ a.count = n /\ f.count \in Cached(a)
            /\ Content(a, f.count) = page
            /\ \A k \in 0..(n - 1) : k # f.count => Content(a, k) = Content(f, k)
    BY <1>1, <1>2, <2>1, EnteredInv DEF KeepsUsed
  <2>3. \A k \in 0..(f.count - 1) : k \in 0..(n - 1) /\ k # f.count
    BY <1>1 DEF n
  <2> QED BY <2>2, <2>3 DEF n, SamePages
<1> QED BY <1>5, <1>6

LEMMA FetchInv ==
    ASSUME NEW f, FileInv(f), Unused(f) # {}, CacheSize \in Nat \ {0},
           NEW key \in 0..(f.count - 1)
    PROVE  LET g == Fetch(f, key)
           IN  /\ FileInv(g) /\ KeepsUsed(f, g) /\ g.count = f.count /\ key \in Cached(g)
               /\ SamePages(f, g)
<1>1. CASE key \in Cached(f)
    BY <1>1 DEF Fetch, KeepsUsed, SamePages
<1>2. CASE key \notin Cached(f)
  <2> DEFINE h == GetCachePage(f, key)
             v == Victim(f)
             old == f.frame[v]
             page == Get(h, key)
             e == Entered(f, key, page)
             g == [e EXCEPT !.count = f.count]
  <2>1. /\ f.count \in Nat /\ key \in Nat /\ f.hand \in FrameIds
        /\ key \in Written(f) /\ f.disk \in [Written(f) -> Pages]
        /\ f = [frame |-> f.frame, hand |-> f.hand, index |-> f.index,
                count |-> f.count, disk |-> f.disk]
    BY <1>2 DEF FileInv, FileType, Kept, IsFile
  <2>2. v \in Unused(f) /\ v \in FrameIds
    BY <2>1, VictimIsUnused DEF Unused
  <2>3. ~ old.empty => old.key # key /\ old.page \in Pages
    BY <1>2, <2>2 DEF FileInv, Found, Full
  <2>4. h.disk = Kick(f, v).disk
    <3>1. DOMAIN Kick(f, v) = DOMAIN f
      BY <2>1 DEF Kick
    <3> QED BY <2>1, <3>1 DEF GetCachePage
  <2>5. h.disk = f.disk \/ (~ old.empty /\ h.disk = Put(f.disk, old.key, old.page))
    BY <2>1, <2>4 DEF Kick
  <2>6. key \in Written(h) /\ page \in Pages /\ page = f.disk[key]
    BY <2>1, <2>3, <2>5 DEF Written, Get, Put
  <2>7. OnDisk(h, key)
    BY <2>1, <2>6 DEF OnDisk
  <2>8. Fetch(f, key) = e
    BY <1>2, <2>7 DEF Fetch, Entered
  <2> HIDE DEF page
  <2>9. IsFile(e) /\ e.count = f.count
    <3>1. HasEntered(e, f, v, key, page)
      BY <1>2, <2>1, <2>2, <2>6, EnteredFields
    <3> HIDE DEF e
    <3> QED BY <3>1 DEF HasEntered
  <2> HIDE DEF e
  <2>10. g = e
    BY <2>9 DEF IsFile
  <2>11. /\ FileInv(g) /\ KeepsUsed(f, g) /\ g.count = f.count /\ key \in Cached(g)
         /\ Content(g, key) = page
         /\ \A k \in 0..(f.count - 1) : k # key => Content(g, k) = Content(f, k)
    BY <1>2, <2>1, <2>2, <2>6, EnteredInv DEF KeepsUsed, e
  <2>12. Content(f, key) = page
    BY <1>2, <2>1, <2>6 DEF Content, Get
  <2> HIDE DEF g
  <2> QED BY <2>8, <2>10, <2>11, <2>12 DEF SamePages
<1> QED BY <1>1, <1>2

(* A frame whose page stays what it is and where it is. *)
LEMMA FrameInv ==
    ASSUME NEW f, FileInv(f), NEW i \in FrameIds, NEW new \in FrameRecord,
           new.key = f.frame[i].key, new.empty = f.frame[i].empty,
           f.frame[i].modified => new.modified,
           new.page = f.frame[i].page \/ new.page \in Pages
    PROVE  LET g == [f EXCEPT !.frame[i] = new]
           IN  /\ FileInv(g)
               /\ g.index = f.index /\ g.count = f.count
               /\ g.frame[i] = new
               /\ \A j \in FrameIds : j # i => g.frame[j] = f.frame[j]
               /\ \A k \in 0..(f.count - 1) : Content(g, k) =
                      IF k \in Cached(f) /\ f.index[k] = i THEN new.page ELSE Content(f, k)
<1> DEFINE g == [f EXCEPT !.frame[i] = new]
<1>1. IsFile(f) /\ f.frame \in [FrameIds -> FrameRecord]
    BY DEF FileInv, FileType, FrameRecord
<1>2. /\ IsFile(g)
      /\ g.frame = [f.frame EXCEPT ![i] = new]
      /\ g.index = f.index /\ g.count = f.count /\ g.hand = f.hand /\ g.disk = f.disk
    BY <1>1 DEF IsFile
<1> HIDE DEF g
<1>3. /\ g.frame \in [FrameIds -> FrameRecord]
      /\ g.frame[i] = new
      /\ \A j \in FrameIds : j # i => g.frame[j] = f.frame[j]
    BY <1>1, <1>2
<1>4. FileType(g, Pages)
    BY <1>2, <1>3 DEF FileInv, FileType, Cached, Written, FrameRecord
<1>5. /\ Cached(g) = Cached(f) /\ Written(g) = Written(f)
      /\ \A k \in Cached(f) : f.index[k] \in FrameIds
    BY <1>2 DEF Cached, Written, FileInv, FileType
<1>6. \A j \in FrameIds : /\ g.frame[j].key = f.frame[j].key
                          /\ g.frame[j].empty = f.frame[j].empty
                          /\ f.frame[j].modified => g.frame[j].modified
                          /\ g.frame[j].page = f.frame[j].page \/ g.frame[j].page \in Pages
    BY <1>3
<1>7. Found(g)
    BY <1>2, <1>5, <1>6 DEF FileInv, Found
<1>8. Full(g)
    BY <1>6 DEF FileInv, Full
<1>9. Kept(g)
    BY <1>2, <1>5, <1>6 DEF FileInv, Kept
<1>10. ASSUME NEW k \in 0..(f.count - 1)
       PROVE  Content(g, k) = IF k \in Cached(f) /\ f.index[k] = i THEN new.page ELSE Content(f, k)
    BY <1>2, <1>3, <1>5 DEF Content, PageOf, Get
<1> QED BY <1>2, <1>3, <1>4, <1>7, <1>8, <1>9, <1>10 DEF FileInv, g

(* The number of users of a frame changes. *)
LEMMA UsesInv ==
    ASSUME NEW f, FileInv(f), NEW i \in FrameIds, NEW u \in Nat
    PROVE  LET g == [f EXCEPT !.frame[i].uses = u]
           IN  /\ FileInv(g)
               /\ g.index = f.index /\ g.count = f.count
               /\ g.frame[i].uses = u
               /\ \A j \in FrameIds : j # i => g.frame[j] = f.frame[j]
               /\ SamePages(f, g)
<1> DEFINE new == [f.frame[i] EXCEPT !.uses = u]
<1>1. f.frame[i] \in FrameRecord
    BY DEF FileInv, FileType, FrameRecord
<1>2. /\ new \in FrameRecord /\ new.uses = u
      /\ new.key = f.frame[i].key /\ new.empty = f.frame[i].empty
      /\ new.modified = f.frame[i].modified /\ new.page = f.frame[i].page
    BY <1>1 DEF FrameRecord
<1>3. [f EXCEPT !.frame[i].uses = u] = [f EXCEPT !.frame[i] = new]
    OBVIOUS
<1>4. \A k \in Cached(f) : f.index[k] = i => Content(f, k) = f.frame[i].page
    BY DEF Content, PageOf
<1> HIDE DEF new
<1> QED BY <1>2, <1>3, <1>4, FrameInv DEF SamePages

LEMMA HoldInv ==
    ASSUME NEW f, NEW h, FileInv(f), Good(f, h), HeldType(f, h),
           NEW k \in Cached(f), k \notin DOMAIN h, Cardinality(DOMAIN h) < MaxHeld,
           NEW m \in BOOLEAN, MaxHeld \in Nat
    PROVE  LET g  == MarkUsed(f, k)
               h2 == Put(h, k, [at |-> f.index[k], modified |-> m])
           IN  /\ FileInv(g) /\ Good(g, h2) /\ HeldType(g, h2)
               /\ SamePages(f, g) /\ g.count = f.count
<1> DEFINE i == f.index[k]
           u == f.frame[i].uses + 1
           g == [f EXCEPT !.frame[i].uses = u]
           ptr == [at |-> i, modified |-> m]
           h2 == Put(h, k, ptr)
<1>1. i \in FrameIds /\ k \in 0..(f.count - 1)
    BY DEF FileInv, FileType
<1>2. u \in Nat
    BY <1>1 DEF FileInv, FileType
<1>3. MarkUsed(f, k) = g
    BY DEF MarkUsed
<1>4. /\ FileInv(g) /\ g.index = f.index /\ g.count = f.count
      /\ g.frame[i].uses = u
      /\ \A j \in FrameIds : j # i => g.frame[j] = f.frame[j]
      /\ SamePages(f, g)
  <2> HIDE DEF i, u
  <2> QED BY <1>1, <1>2, UsesInv
<1> HIDE DEF g
<1>5. ptr \in [at : FrameIds, modified : BOOLEAN] /\ ptr.at = i
    BY <1>1
<1> HIDE DEF ptr
<1>6. /\ DOMAIN h2 = DOMAIN h \cup {k} /\ h2[k] = ptr
      /\ \A j \in DOMAIN h : h2[j] = h[j]
      /\ h2 = [j \in DOMAIN h2 |-> h2[j]]
    BY DEF Put
<1> HIDE DEF h2
<1>7. HeldType(g, h2)
  <2>1. h2 \in [DOMAIN h2 -> [at : FrameIds, modified : BOOLEAN]]
    BY <1>5, <1>6 DEF HeldType
  <2>2. DOMAIN h2 \subseteq 0..(g.count - 1)
    BY <1>1, <1>4, <1>6 DEF HeldType
  <2>3. IsFiniteSet(DOMAIN h2) /\ Cardinality(DOMAIN h2) = Cardinality(DOMAIN h) + 1
    BY <1>6, FS_AddElement DEF HeldType
  <2>4. Cardinality(DOMAIN h2) <= MaxHeld
    BY <2>3, FS_CardinalityType DEF HeldType
  <2> QED BY <2>1, <2>2, <2>3, <2>4 DEF HeldType
<1>8. Good(g, h2)
  <2>1. ASSUME NEW j \in DOMAIN h2
        PROVE  j \in Cached(g) /\ g.index[j] = h2[j].at
    BY <1>4, <1>5, <1>6 DEF Good, Cached
  <2>2. ASSUME NEW j \in FrameIds
        PROVE  g.frame[j].uses = Cardinality(Users(h2, j))
    <3>1. IsFiniteSet(Users(h, j)) /\ k \notin Users(h, j)
      <4>1. IsFiniteSet(Users(h, j))
        BY UsersFinite DEF HeldType
      <4> QED BY <4>1 DEF Users
    <3>2. CASE j = i
      <4>1. Users(h2, j) = Users(h, j) \cup {k}
        BY <1>5, <1>6, <3>2 DEF Users
      <4>2. Cardinality(Users(h2, j)) = Cardinality(Users(h, j)) + 1
        BY <3>1, <4>1, FS_AddElement
      <4> QED BY <1>1, <1>4, <3>2, <4>2 DEF Good
    <3>3. CASE j # i
      <4>1. Users(h2, j) = Users(h, j)
        BY <1>5, <1>6, <3>3 DEF Users
      <4> QED BY <1>4, <3>3, <4>1 DEF Good
    <3> QED BY <3>2, <3>3
  <2> QED BY <2>1, <2>2 DEF Good
<1> QED BY <1>3, <1>4, <1>7, <1>8 DEF h2, ptr

LEMMA LetGoInv ==
    ASSUME NEW f, NEW h, FileInv(f), Good(f, h), HeldType(f, h), NEW k \in DOMAIN h,
           MaxHeld \in Nat
    PROVE  LET g  == ClearUsed(f, k)
               h2 == Restrict(h, DOMAIN h \ {k})
           IN  /\ FileInv(g) /\ Good(g, h2) /\ HeldType(g, h2)
               /\ SamePages(f, g) /\ g.count = f.count
<1> DEFINE i == f.index[k]
           u == f.frame[i].uses - 1
           g == [f EXCEPT !.frame[i].uses = u]
           h2 == Restrict(h, DOMAIN h \ {k})
<1>1. i \in FrameIds /\ h[k].at = i
    BY DEF Good, HeldType
<1>2. u \in Nat
  <2>1. f.frame[i].uses \in Nat \ {0}
    BY <1>1, HeldIsUsed DEF HeldType
  <2> QED BY <2>1
<1>3. ClearUsed(f, k) = g
    BY DEF ClearUsed
<1>4. /\ FileInv(g) /\ g.index = f.index /\ g.count = f.count
      /\ g.frame[i].uses = u
      /\ \A j \in FrameIds : j # i => g.frame[j] = f.frame[j]
      /\ SamePages(f, g)
  <2> HIDE DEF i, u
  <2> QED BY <1>1, <1>2, UsesInv
<1> HIDE DEF g
<1>5. /\ DOMAIN h2 = DOMAIN h \ {k}
      /\ \A j \in DOMAIN h2 : h2[j] = h[j]
      /\ h2 = [j \in DOMAIN h2 |-> h2[j]]
    BY DEF Restrict
<1> HIDE DEF h2
<1>6. HeldType(g, h2)
  <2>1. h2 \in [DOMAIN h2 -> [at : FrameIds, modified : BOOLEAN]]
    BY <1>5 DEF HeldType
  <2>2. DOMAIN h2 \subseteq 0..(g.count - 1)
    BY <1>4, <1>5 DEF HeldType
  <2>3. IsFiniteSet(DOMAIN h2) /\ Cardinality(DOMAIN h2) = Cardinality(DOMAIN h) - 1
    BY <1>5, FS_RemoveElement DEF HeldType
  <2>4. Cardinality(DOMAIN h) \in Nat /\ Cardinality(DOMAIN h) <= MaxHeld
    BY FS_CardinalityType DEF HeldType
  <2>6. Cardinality(DOMAIN h2) <= MaxHeld
    BY <2>3, <2>4
  <2> QED BY <2>1, <2>2, <2>3, <2>6 DEF HeldType
<1>7. Good(g, h2)
  <2>1. ASSUME NEW j \in DOMAIN h2
        PROVE  j \in Cached(g) /\ g.index[j] = h2[j].at
    BY <1>4, <1>5 DEF Good, Cached
  <2>2. ASSUME NEW j \in FrameIds
        PROVE  g.frame[j].uses = Cardinality(Users(h2, j))
    <3>1. IsFiniteSet(Users(h, j))
      BY UsersFinite DEF HeldType
    <3>2. CASE j = i
      <4>1. Users(h2, j) = Users(h, j) \ {k} /\ k \in Users(h, j)
        BY <1>1, <1>5, <3>2 DEF Users
      <4>2. Cardinality(Users(h2, j)) = Cardinality(Users(h, j)) - 1
        BY <3>1, <4>1, FS_RemoveElement
      <4> QED BY <1>1, <1>4, <3>2, <4>2 DEF Good
    <3>3. CASE j # i
      <4>1. Users(h2, j) = Users(h, j)
        BY <1>1, <1>5, <3>3 DEF Users
      <4> QED BY <1>4, <3>3, <4>1 DEF Good
    <3> QED BY <3>2, <3>3
  <2> QED BY <2>1, <2>2 DEF Good
<1> QED BY <1>3, <1>4, <1>6, <1>7 DEF h2

(* A page held is written or marked: its frame keeps its users. *)
LEMMA ChangeInv ==
    ASSUME NEW f, NEW h, FileInv(f), Good(f, h), HeldType(f, h),
           NEW i \in FrameIds, NEW new \in FrameRecord,
           new.key = f.frame[i].key, new.empty = f.frame[i].empty,
           new.uses = f.frame[i].uses, f.frame[i].modified => new.modified,
           new.page = f.frame[i].page \/ new.page \in Pages
    PROVE  LET g == [f EXCEPT !.frame[i] = new]
           IN  /\ FileInv(g) /\ Good(g, h) /\ HeldType(g, h)
               /\ g.count = f.count
               /\ \A k \in 0..(f.count - 1) : Content(g, k) =
                      IF k \in Cached(f) /\ f.index[k] = i THEN new.page ELSE Content(f, k)
<1> DEFINE g == [f EXCEPT !.frame[i] = new]
<1>1. /\ FileInv(g) /\ g.index = f.index /\ g.count = f.count
      /\ g.frame[i] = new
      /\ \A j \in FrameIds : j # i => g.frame[j] = f.frame[j]
      /\ \A k \in 0..(f.count - 1) : Content(g, k) =
             IF k \in Cached(f) /\ f.index[k] = i THEN new.page ELSE Content(f, k)
    BY FrameInv
<1> HIDE DEF g
<1>2. \A j \in FrameIds : g.frame[j].uses = f.frame[j].uses
    BY <1>1
<1>3. KeepsUsed(f, g)
    BY <1>1, <1>2 DEF KeepsUsed, Cached
<1>4. Good(g, h)
    BY <1>3, GoodKept
<1>5. HeldType(g, h)
    BY <1>1 DEF HeldType
<1> QED BY <1>1, <1>4, <1>5 DEF g
-----------------------------------------------------------------------------
(* Page k is now p, the others are what they were. *)
OneWritten(f, g, k, p) ==
    \A j \in 0..(f.count - 1) : Content(g, j) = IF j = k THEN p ELSE Content(f, j)

(* What one step, the call d after the call c, does to the pages: nothing, *)
(* an answer that is the page's content, one page more, or one written.    *)
Changed(f, g, c, d) ==
    \/ g.count = f.count /\ SamePages(f, g) /\ d = c
    \/ /\ g.count = f.count /\ SamePages(f, g)
       /\ \E k \in 0..(f.count - 1) : d = <<"read", k, Content(f, k)>>
    \/ /\ g.count = f.count + 1 /\ SamePages(f, g)
       /\ Content(g, f.count) \in Pages /\ d = <<"append", Content(g, f.count)>>
    \/ /\ g.count = f.count
       /\ \E p \in Pages : \E k \in 0..(f.count - 1) :
             OneWritten(f, g, k, p) /\ d = <<"write", k, p>>

(* What holds in every state. *)
Inv == FileInv(file) /\ Good(file, held) /\ HeldType(file, held)

LEMMA InitInv ==
    ASSUME CacheAssumption, Init
    PROVE  Inv
<1>1. CacheSize \in Nat \ {0} /\ 0 \in FrameIds
    BY DEF CacheAssumption, FrameIds
<1>2. held = [k \in {} |-> << >>] /\ DOMAIN held = {}
    BY DEF Init
<1>3. /\ IsFile(file)
      /\ file.frame = [i \in FrameIds |-> EmptyFrame]
      /\ file.hand = 0 /\ file.count = 0
      /\ file.index = [k \in {} |-> 0] /\ file.disk = [k \in {} |-> NoPage]
    BY DEF Init, NewFile, IsFile
<1>4. EmptyFrame \in FrameRecord /\ EmptyFrame.empty = TRUE /\ EmptyFrame.uses = 0
    BY DEF EmptyFrame, FrameRecord
<1>5. Cached(file) = {} /\ Written(file) = {}
    BY <1>3 DEF Cached, Written
<1>6. FileType(file, Pages)
    BY <1>1, <1>3, <1>4, <1>5 DEF FileType, FrameRecord
<1>7. Found(file) /\ Full(file) /\ Kept(file)
    BY <1>3, <1>4, <1>5 DEF Found, Full, Kept
<1>8. HeldType(file, held)
    BY <1>2, FS_EmptySet DEF HeldType, CacheAssumption
<1>9. \A i : Users(held, i) = {}
    BY <1>2 DEF Users
<1>10. Good(file, held)
    BY <1>2, <1>3, <1>4, <1>9, FS_EmptySet DEF Good
<1> QED BY <1>3, <1>6, <1>7, <1>8, <1>10 DEF Inv, FileInv

(* A step of the file that keeps the frames in use. *)
LEMMA QuietStep ==
    ASSUME Inv, FileInv(file'), KeepsUsed(file, file'), file.count <= file'.count,
           UNCHANGED held
    PROVE  Inv'
<1>1. Good(file', held)
    BY GoodKept DEF Inv
<1>2. HeldType(file', held)
  <2>1. file.count \in Nat /\ file'.count \in Nat
    BY DEF Inv, FileInv, FileType
  <2> QED BY <2>1 DEF Inv, HeldType
<1> QED BY <1>1, <1>2 DEF Inv

LEMMA NextInv ==
    ASSUME CacheAssumption, Inv, [Next]_vars
    PROVE  Inv' /\ Changed(file, file', call, call')
<1>1. /\ CacheSize \in Nat \ {0} /\ MaxHeld \in Nat
      /\ Unused(file) # {} /\ file.count \in Nat
    BY UnusedExists DEF CacheAssumption, Inv, FileInv, FileType
<1>2. ASSUME NEW p \in Pages, AppendPage(p)
      PROVE  Inv' /\ Changed(file, file', call, call')
  <2>1. /\ FileInv(file') /\ KeepsUsed(file, file') /\ file'.count = file.count + 1
        /\ SamePages(file, file') /\ Content(file', file.count) = p
    BY <1>1, <1>2, PushBackInv DEF AppendPage, Inv
  <2> QED BY <1>1, <1>2, <2>1, QuietStep DEF AppendPage, Changed
<1>3. ASSUME NEW k \in 0..(file.count - 1), Read(k)
      PROVE  Inv' /\ Changed(file, file', call, call')
  <2>1. /\ FileInv(file') /\ KeepsUsed(file, file') /\ file'.count = file.count
        /\ SamePages(file, file')
    BY <1>1, <1>3, FetchInv DEF Read, Inv
  <2>2. /\ FileInv(file') /\ KeepsUsed(file, file') /\ file'.count = file.count
        /\ k \in Cached(file') /\ SamePages(file, file')
    BY <1>1, <1>3, FetchInv DEF Read, Inv
  <2>3. Inv'
    BY <1>1, <1>3, <2>1, QuietStep DEF Read
  <2>4. call' = <<"read", k, Content(file, k)>>
    <3>1. Answer(file', k) = Content(file', k) /\ Content(file', k) = Content(file, k)
      BY <2>2 DEF Answer, Content, SamePages
    <3> QED BY <1>3, <3>1 DEF Read
  <2> QED BY <2>2, <2>3, <2>4 DEF Changed
<1>4. ASSUME NEW f, FileInv(f), KeepsUsed(file, f), file.count <= f.count,
             NEW k \in Cached(f), k \notin Held, Cardinality(Held) < MaxHeld,
             NEW m \in BOOLEAN, Hold(k, f, m),
             Changed(file, f, call, call')
      PROVE  Inv' /\ Changed(file, file', call, call')
  <2>1. Good(f, held)
    BY <1>4, GoodKept DEF Inv
  <2>2. HeldType(f, held)
    <3>1. f.count \in Nat
      BY <1>4 DEF FileInv, FileType
    <3> QED BY <1>1, <1>4, <3>1 DEF Inv, HeldType
  <2>3. Inv' /\ SamePages(f, file') /\ file'.count = f.count
    BY <1>1, <1>4, <2>1, <2>2, HoldInv DEF Hold, Held, Inv
  <2>4. f.count = file.count \/ f.count = file.count + 1
    BY <1>4 DEF Changed
  <2>5. \A j \in 0..(f.count - 1) : Content(file', j) = Content(f, j)
    BY <2>3 DEF SamePages
  <2>6. /\ \A j \in 0..(file.count - 1) : j \in 0..(f.count - 1)
        /\ f.count = file.count + 1 => file.count \in 0..(f.count - 1)
    BY <1>1, <2>4
  <2> QED BY <1>4, <2>3, <2>5, <2>6 DEF Changed, SamePages, OneWritten
<1>5. ASSUME NEW k \in 0..(file.count - 1), Acquire(k)
      PROVE  Inv' /\ Changed(file, file', call, call')
  <2> DEFINE f == Fetch(file, k)
  <2>1. /\ FileInv(f) /\ KeepsUsed(file, f) /\ f.count = file.count /\ k \in Cached(f)
        /\ SamePages(file, f)
    BY <1>1, FetchInv DEF Inv
  <2>2. k \notin Held /\ Cardinality(Held) < MaxHeld /\ Hold(k, f, FALSE)
    BY <1>5 DEF Acquire
  <2>3. file.count <= f.count
    BY <1>1, <2>1
  <2> HIDE DEF f
  <2>4. Changed(file, f, call, call')
    <3>1. call' = <<"read", k, PageOf(f, k)>>
      BY <1>5 DEF Acquire, f
    <3>2. PageOf(f, k) = Content(f, k) /\ Content(f, k) = Content(file, k)
      BY <2>1 DEF Content, SamePages
    <3> QED BY <2>1, <3>1, <3>2 DEF Changed
  <2> QED BY <1>4, <2>1, <2>2, <2>3, <2>4
<1>6. ASSUME NEW p \in Pages, Extend(p)
      PROVE  Inv' /\ Changed(file, file', call, call')
  <2> DEFINE f == PushBack(file, p)
             k == file.count
  <2>1. /\ FileInv(f) /\ KeepsUsed(file, f) /\ f.count = k + 1 /\ k \in Cached(f)
        /\ SamePages(file, f) /\ Content(f, k) = p
    BY <1>1, PushBackInv DEF Inv
  <2>2. Cardinality(Held) < MaxHeld /\ Hold(k, f, TRUE)
    BY <1>6 DEF Extend
  <2>3. k \notin Held
    BY <1>1 DEF Inv, HeldType, Held
  <2>4. file.count <= f.count
    BY <1>1, <2>1
  <2>5. Changed(file, f, call, call')
    <3>1. call' = <<"append", p>>
      BY <1>6 DEF Extend
    <3> HIDE DEF f
    <3> QED BY <2>1, <3>1 DEF Changed
  <2> HIDE DEF f, k
  <2> QED BY <1>4, <2>1, <2>2, <2>3, <2>4, <2>5
<1>7. ASSUME NEW k \in Held, NEW p \in Pages, WriteHeld(k, p)
      PROVE  Inv' /\ Changed(file, file', call, call')
  <2> DEFINE i == held[k].at
             new == [file.frame[i] EXCEPT !.page = p]
             ptr == [held[k] EXCEPT !.modified = TRUE]
  <2>1. i \in FrameIds /\ file.frame[i] \in FrameRecord
        /\ held[k] \in [at : FrameIds, modified : BOOLEAN]
    BY DEF Inv, HeldType, Held, FileInv, FileType, FrameRecord
  <2>2. /\ new \in FrameRecord /\ new.page = p
        /\ new.key = file.frame[i].key /\ new.empty = file.frame[i].empty
        /\ new.modified = file.frame[i].modified /\ new.uses = file.frame[i].uses
    BY <2>1 DEF FrameRecord
  <2>3. file' = [file EXCEPT !.frame[i] = new]
    BY <1>7 DEF WriteHeld
  <2>4. /\ FileInv(file') /\ Good(file', held) /\ HeldType(file', held)
        /\ file'.count = file.count
        /\ \A j \in 0..(file.count - 1) : Content(file', j) =
               IF j \in Cached(file) /\ file.index[j] = i THEN new.page ELSE Content(file, j)
    <3> HIDE DEF new, i
    <3> QED BY <2>1, <2>2, <2>3, ChangeInv DEF Inv
  <2>5. ptr \in [at : FrameIds, modified : BOOLEAN] /\ ptr.at = held[k].at
    BY <2>1
  <2>6. held' = [held EXCEPT ![k] = ptr]
    BY <1>7 DEF WriteHeld
  <2> HIDE DEF ptr, new
  <2>7. /\ DOMAIN held' = DOMAIN held
        /\ held' = [j \in DOMAIN held' |-> held'[j]]
        /\ \A j \in DOMAIN held : /\ held'[j].at = held[j].at
                                  /\ held'[j] \in [at : FrameIds, modified : BOOLEAN]
    BY <2>5, <2>6 DEF Held, Inv, HeldType
  <2>8. \A j : Users(held', j) = Users(held, j)
    BY <2>7 DEF Users
  <2>9. Good(file', held')
    BY <2>4, <2>7, <2>8 DEF Good
  <2>10. HeldType(file', held')
    BY <2>4, <2>7 DEF HeldType
  <2>11. /\ k \in 0..(file.count - 1)
         /\ \A j \in Cached(file) : file.index[j] = i <=> j = k
    BY DEF Inv, Good, HeldType, Held, FileInv, Found
  <2>12. k \in Cached(file)
    BY DEF Inv, Good, Held
  <2>13. \A j \in 0..(file.count - 1) : Content(file', j) = IF j = k THEN p ELSE Content(file, j)
    <3> HIDE DEF new, i
    <3> QED BY <2>2, <2>4, <2>11, <2>12
  <2>14. Changed(file, file', call, call')
    <3>1. OneWritten(file, file', k, p) /\ call' = <<"write", k, p>>
      BY <1>7, <2>13 DEF OneWritten, WriteHeld
    <3> QED BY <2>4, <2>11, <3>1 DEF Changed
  <2> QED BY <2>4, <2>9, <2>10, <2>14 DEF Inv
<1>8. ASSUME NEW k \in Held, Release(k)
      PROVE  Inv' /\ Changed(file, file', call, call')
  <2> DEFINE f == IF held[k].modified THEN SetModified(file, k) ELSE file
  <2>1. /\ FileInv(f) /\ Good(f, held) /\ HeldType(f, held)
        /\ SamePages(file, f) /\ f.count = file.count
    <3>1. CASE held[k].modified
      <4> DEFINE i == file.index[k]
                 new == [file.frame[i] EXCEPT !.modified = TRUE]
      <4>1. i \in FrameIds /\ file.frame[i] \in FrameRecord
        BY DEF Inv, Good, HeldType, Held, FileInv, FileType, FrameRecord
      <4>2. /\ new \in FrameRecord /\ new.modified = TRUE
            /\ new.key = file.frame[i].key /\ new.page = file.frame[i].page
            /\ new.uses = file.frame[i].uses
        BY <4>1 DEF FrameRecord
      <4>3. new.empty = file.frame[i].empty
        BY <4>1 DEF FrameRecord
      <4>4. f = [file EXCEPT !.frame[i] = new]
        BY <3>1 DEF SetModified
      <4>5. \A j \in Cached(file) : file.index[j] = i => Content(file, j) = file.frame[i].page
        BY DEF Content, PageOf
      <4> HIDE DEF f, new, i
      <4> QED BY <4>1, <4>2, <4>3, <4>4, <4>5, ChangeInv DEF Inv, SamePages
    <3>2. CASE ~ held[k].modified
      BY <3>2 DEF Inv, SamePages
    <3> QED BY <3>1, <3>2
  <2>2. file' = ClearUsed(f, k) /\ held' = Restrict(held, Held \ {k})
    BY <1>8 DEF Release
  <2> HIDE DEF f
  <2>3. Inv' /\ SamePages(f, file') /\ file'.count = f.count
    BY <1>1, <2>1, <2>2, LetGoInv DEF Inv, Held
  <2>4. call' = call
    BY <1>8 DEF Release
  <2> QED BY <2>1, <2>3, <2>4 DEF Changed, SamePages
<1>9. ASSUME NEW k \in Held, ReadHeld(k)
      PROVE  Inv' /\ Changed(file, file', call, call')
  <2>1. file' = file /\ held' = held /\ call' = <<"read", k, file.frame[held[k].at].page>>
    BY <1>9 DEF ReadHeld
  <2>2. k \in 0..(file.count - 1) /\ k \in Cached(file) /\ file.index[k] = held[k].at
    BY DEF Inv, Good, HeldType, Held
  <2>3. file.frame[held[k].at].page = Content(file, k)
    BY <2>2 DEF Content, PageOf
  <2>4. Inv'
    BY <2>1 DEF Inv
  <2> QED BY <2>1, <2>2, <2>3, <2>4 DEF Changed, SamePages
<1>10. CASE UNCHANGED vars
    BY <1>10 DEF vars, Inv, Changed, SamePages
<1>11. CASE Next
    BY <1>2, <1>3, <1>5, <1>6, <1>7, <1>8, <1>9, <1>11 DEF Next
<1> QED BY <1>10, <1>11

(* A page has one of the contents Pages. *)
LEMMA ContentType ==
    ASSUME Inv, NEW k \in 0..(file.count - 1)
    PROVE  Content(file, k) \in Pages
<1>1. CASE k \in Cached(file)
  <2>1. file.index[k] \in FrameIds /\ ~ file.frame[file.index[k]].empty
    BY <1>1 DEF Inv, FileInv, FileType, Found
  <2> QED BY <1>1, <2>1 DEF Inv, FileInv, Full, Content, PageOf
<1>2. CASE k \notin Cached(file)
  <2>1. k \in Written(file) /\ file.disk[k] \in Pages
    BY <1>2 DEF Inv, FileInv, FileType, Kept
  <2> QED BY <1>2, <2>1 DEF Content, Get
<1> QED BY <1>1, <1>2

LEMMA CallsKept ==
    ASSUME CacheAssumption, Inv, call \in Calls, [Next]_vars
    PROVE  call' \in Calls'
<1>1. file.count \in Nat /\ Changed(file, file', call, call')
    BY NextInv DEF Inv, FileInv, FileType
<1>2. file'.count = file.count \/ file'.count = file.count + 1
    BY <1>1 DEF Changed
<1>3. \A k \in AllPages : k \in AllPages'
    BY <1>1, <1>2 DEF AllPages
<1>4. CASE call' = call
    BY <1>3, <1>4 DEF Calls
<1>5. CASE \E k \in 0..(file.count - 1) : call' = <<"read", k, Content(file, k)>>
    BY <1>3, <1>5, ContentType DEF Calls, AllPages
<1>6. CASE \E p \in Pages : call' = <<"append", p>>
    BY <1>6 DEF Calls
<1>7. CASE \E p \in Pages : \E k \in 0..(file.count - 1) : call' = <<"write", k, p>>
    BY <1>3, <1>7 DEF Calls, AllPages
<1> QED BY <1>1, <1>4, <1>5, <1>6, <1>7 DEF Changed

LEMMA InvMeans ==
    ASSUME Inv
    PROVE  /\ call \in Calls => TypeOK
           /\ FramesAreFound /\ PointersStayGood /\ NoPageIsLost
<1>1. call \in Calls => TypeOK
    BY DEF Inv, FileInv, HeldType, TypeOK, Held, AllPages
<1>2. FramesAreFound
    BY DEF Inv, FileInv, Found, FramesAreFound
<1>3. PointersStayGood
    BY DEF Inv, Good, Users, PointersStayGood, Held
<1>4. NoPageIsLost
    BY DEF Inv, FileInv, Kept, NoPageIsLost, AllPages
<1> QED BY <1>1, <1>2, <1>3, <1>4

LEMMA AlwaysInv == Spec => []Inv
<1>1. Init => Inv
    BY CacheAssumption, InitInv
<1>2. Inv /\ [Next]_vars => Inv'
    BY CacheAssumption, NextInv
<1> QED BY <1>1, <1>2, PTL DEF Spec
-----------------------------------------------------------------------------
(* The cache and its users keep their types (cache.h, cached_file.h,       *)
(* block_chain_t), however many frames and pages there are.                *)
THEOREM CachedFileTypes == Spec => []TypeOK
<1>1. Init => call \in Calls
    BY DEF Init, Calls
<1>2. Inv /\ call \in Calls /\ [Next]_vars => (call \in Calls)'
    BY CacheAssumption, CallsKept
<1>3. Inv /\ call \in Calls => TypeOK
    BY InvMeans
<1> QED BY <1>1, <1>2, <1>3, AlwaysInv, PTL DEF Spec

(* The index of cache.h and the keys in its frames say the same: a page is *)
(* never in two frames, and an eviction leaves no entry behind.            *)
THEOREM FramesFound == Spec => []FramesAreFound
BY AlwaysInv, InvMeans, PTL

(* A page of a block chain stays in the frame the chain points to and is   *)
(* counted there as often as it is held, while others are read, appended   *)
(* and evicted (mark_used, clear_used, get_cache_page).                    *)
THEOREM PointersGood == Spec => []PointersStayGood
BY AlwaysInv, InvMeans, PTL

(* Every page appended is in a frame that will be written back, or in the  *)
(* file (kick_element, load, operator[]).                                  *)
THEOREM PagesKept == Spec => []NoPageIsLost
BY AlwaysInv, InvMeans, PTL
-----------------------------------------------------------------------------
(* The pages as an array, and how a step changes it. *)
PagesOf(f) == [i \in 1..f.count |-> Content(f, i - 1)]

LEMMA ArraySame ==
    ASSUME NEW f, NEW g, f.count \in Nat, SamePages(f, g), g.count = f.count
    PROVE  PagesOf(g) = PagesOf(f)
<1>1. \A i \in 1..f.count : Content(g, i - 1) = Content(f, i - 1)
    BY DEF SamePages
<1> QED BY <1>1 DEF PagesOf

LEMMA ArrayGrows ==
    ASSUME NEW f, NEW g, f.count \in Nat, SamePages(f, g), g.count = f.count + 1
    PROVE  PagesOf(g) = Append(PagesOf(f), Content(g, f.count))
<1>1. \A i \in 1..f.count : Content(g, i - 1) = Content(f, i - 1)
    BY DEF SamePages
<1> DEFINE P == PagesOf(f)
           Q == PagesOf(g)
           S == {Content(f, i - 1) : i \in 1..f.count}
<1>2. P \in Seq(S) /\ Len(P) = f.count
  <2>1. P \in [1..f.count -> S]
    BY DEF PagesOf
  <2> HIDE DEF P, S
  <2> QED BY <2>1
<1>3. Append(P, Content(g, f.count)) =
        [i \in 1..(f.count + 1) |-> IF i = f.count + 1 THEN Content(g, f.count) ELSE P[i]]
  <2> HIDE DEF P
  <2> QED BY <1>2
<1>4. \A i \in 1..(f.count + 1) :
         Q[i] = IF i = f.count + 1 THEN Content(g, f.count) ELSE P[i]
    BY <1>1 DEF PagesOf
<1>5. Q = [i \in 1..(f.count + 1) |-> Q[i]]
    BY DEF PagesOf
<1> HIDE DEF P, Q
<1>6. Q = Append(P, Content(g, f.count))
    BY <1>3, <1>4, <1>5
<1> QED BY <1>6 DEF P, Q

LEMMA ArrayWritten ==
    ASSUME NEW f, NEW g, f.count \in Nat, g.count = f.count,
           NEW k \in 0..(f.count - 1), NEW p, OneWritten(f, g, k, p)
    PROVE  PagesOf(g) = [PagesOf(f) EXCEPT ![k + 1] = p]
<1>1. \A i \in 1..f.count : Content(g, i - 1) = IF i = k + 1 THEN p ELSE Content(f, i - 1)
    BY DEF OneWritten
<1>2. [PagesOf(f) EXCEPT ![k + 1] = p] =
        [i \in 1..f.count |-> IF i = k + 1 THEN p ELSE Content(f, i - 1)]
    BY DEF PagesOf
<1> QED BY <1>1, <1>2 DEF PagesOf

LEMMA NextRefines ==
    ASSUME CacheAssumption, Inv, [Next]_vars
    PROVE  Array!Next \/ (PagesOf(file') = PagesOf(file) /\ call' = call)
<1>1. file.count \in Nat /\ Changed(file, file', call, call')
    BY NextInv DEF Inv, FileInv, FileType
<1>2. Len(PagesOf(file)) = file.count
    BY <1>1 DEF PagesOf
<1>3. CASE file'.count = file.count /\ SamePages(file, file') /\ call' = call
    BY <1>1, <1>3, ArraySame
<1>4. CASE /\ file'.count = file.count /\ SamePages(file, file')
           /\ \E k \in 0..(file.count - 1) : call' = <<"read", k, Content(file, k)>>
  <2>1. PICK k \in 0..(file.count - 1) : call' = <<"read", k, Content(file, k)>>
    BY <1>4
  <2>2. PagesOf(file') = PagesOf(file) /\ PagesOf(file)[k + 1] = Content(file, k)
    <3>1. k + 1 \in 1..file.count /\ (k + 1) - 1 = k
      BY <1>1
    <3> QED BY <1>1, <1>4, <3>1, ArraySame DEF PagesOf
  <2>3. Array!Read(k)
    BY <2>1, <2>2 DEF Array!Read, PagesOf, Content
  <2> QED BY <1>2, <2>3 DEF Array!Next, PagesOf, Content
<1>5. CASE /\ file'.count = file.count + 1 /\ SamePages(file, file')
           /\ Content(file', file.count) \in Pages
           /\ call' = <<"append", Content(file', file.count)>>
  <2>1. PagesOf(file') = Append(PagesOf(file), Content(file', file.count))
    BY <1>1, <1>5, ArrayGrows
  <2>2. PICK p \in Pages : p = Content(file', file.count)
    BY <1>5
  <2>3. Array!Grow(p)
    BY <1>5, <2>1, <2>2 DEF Array!Grow, PagesOf, Content
  <2> QED BY <2>3 DEF Array!Next
<1>6. CASE /\ file'.count = file.count
           /\ \E p \in Pages : \E k \in 0..(file.count - 1) :
                 OneWritten(file, file', k, p) /\ call' = <<"write", k, p>>
  <2>1. PICK p \in Pages, k \in 0..(file.count - 1) :
             OneWritten(file, file', k, p) /\ call' = <<"write", k, p>>
    BY <1>6
  <2>2. PagesOf(file') = [PagesOf(file) EXCEPT ![k + 1] = p]
    BY <1>1, <1>6, <2>1, ArrayWritten
  <2>3. Array!Write(k, p)
    BY <2>1, <2>2 DEF Array!Write, PagesOf, Content
  <2> QED BY <1>2, <2>3 DEF Array!Next, PagesOf, Content
<1> QED BY <1>1, <1>3, <1>4, <1>5, <1>6 DEF Changed

(* Behind its cache a file is an array of pages (PageArray): a page changes*)
(* only in the step of the user who writes it (WriteHeld), whatever is     *)
(* evicted, read back, held or let go, and operator[] and the pointers of a*)
(* chain answer what was written last.                                     *)
THEOREM CachedFileIsArray == Spec => RefinesPageArray
<1>1. Init => Array!Init
  <2> SUFFICES ASSUME Init
               PROVE  file.count = 0 /\ call = <<"open">>
    BY DEF Array!Init
  <2> QED BY DEF Init, NewFile
<1>2. Inv /\ [Next]_vars => [Array!Next]_<<PagesOf(file), call>>
    BY CacheAssumption, NextRefines DEF PagesOf
<1> QED BY <1>1, <1>2, AlwaysInv, PTL DEF Spec, RefinesPageArray, Array!Spec, PagesOf, Content
-----------------------------------------------------------------------------
(* The complex vector with large blocks, as the node log has them.         *)

LargeAssumption ==
    /\ UseLargeBlocks = TRUE
    /\ ElementsPerBlock \in Nat \ {0}

(* Every block in data is full, and back is not.                           *)
VectorInv ==
    /\ data \in Seq(Seq(Values))
    /\ \A b \in 1..Len(data) : Len(data[b]) = ElementsPerBlock
    /\ back \in Seq(Values)
    /\ Len(back) < ElementsPerBlock
    /\ size = ElementsPerBlock * Len(data) + Len(back)

-----------------------------------------------------------------------------
LEMMA DivMod ==
    ASSUME NEW E \in Nat \ {0}, NEW i \in Nat
    PROVE  /\ i \div E \in Nat
           /\ i % E \in 0..(E - 1)
           /\ i = E * (i \div E) + (i % E)
    BY Z3

LEMMA DivUnique ==
    ASSUME NEW E \in Nat \ {0}, NEW n \in Nat, NEW r \in 0..(E - 1)
    PROVE  /\ (E * n + r) \div E = n
           /\ (E * n + r) % E = r
    BY Z3

(* The product grows with its second factor. *)
LEMMA TimesLess ==
    ASSUME NEW E \in Nat \ {0}, NEW m \in Nat, NEW n \in Nat
    PROVE  /\ E * m \in Nat
           /\ m < n => E * m + E <= E * n
           /\ E * (n + 1) = E * n + E
    BY Z3

(* The address of a value: in a full block, or in the one that waits.      *)
LEMMA Address ==
    ASSUME LargeAssumption, VectorInv, NEW i \in Nat, i < size
    PROVE  LET b == i \div ElementsPerBlock
               o == i % ElementsPerBlock
           IN  /\ b \in Nat /\ o \in 0..(ElementsPerBlock - 1)
               /\ b < Len(data) \/ (b = Len(data) /\ o < Len(back))
<1> DEFINE E == ElementsPerBlock
           b == i \div E
           o == i % E
           n == Len(data)
<1>1. E \in Nat \ {0} /\ n \in Nat /\ Len(back) \in Nat
    BY DEF LargeAssumption, VectorInv
<1>2. b \in Nat /\ o \in 0..(E - 1) /\ i = E * b + o
    BY <1>1, DivMod
<1>3. i < E * n + Len(back) /\ Len(back) < E
    BY DEF VectorInv
<1> HIDE DEF E, b, o, n
<1>4. ~ (n < b)
    <2>1. SUFFICES ASSUME n < b PROVE FALSE
        OBVIOUS
    <2>2. E * n + E <= E * b /\ E * b \in Nat /\ E * n \in Nat
        BY <2>1, <1>1, <1>2, TimesLess
    <2> QED
        BY <2>2, <1>1, <1>2, <1>3
<1>5. b = n => o < Len(back)
    <2>1. E * n \in Nat
        BY <1>1, TimesLess
    <2> QED
        BY <2>1, <1>1, <1>2, <1>3
<1>6. b < n \/ (b = n /\ o < Len(back))
    BY <1>1, <1>2, <1>4, <1>5
<1> QED
    BY <1>2, <1>6 DEF E, b, o, n

-----------------------------------------------------------------------------
(* The invariant holds, and a push appends its value. *)

LEMMA VectorStart == LargeAssumption /\ VectorInit => VectorInv
BY DEF LargeAssumption, VectorInit, VectorInv

LEMMA VectorStep ==
    ASSUME LargeAssumption, VectorInv, NEW v \in Values, PushLarge(v)
    PROVE  VectorInv'
<1> DEFINE E == ElementsPerBlock
<1>1. E \in Nat \ {0} /\ Len(data) \in Nat /\ Len(back) \in Nat
    BY DEF LargeAssumption, VectorInv
<1>2. /\ Append(back, v) \in Seq(Values)
      /\ Len(Append(back, v)) = Len(back) + 1
    BY DEF VectorInv
<1>3. CASE Len(back) + 1 = E
    <2>1. data' = Append(data, Append(back, v)) /\ back' = << >> /\ size' = size + 1
        BY <1>3 DEF PushLarge
    <2>2. /\ data' \in Seq(Seq(Values))
          /\ Len(data') = Len(data) + 1
          /\ \A b \in 1..Len(data') : Len(data'[b]) = E
        BY <2>1, <1>2, <1>3 DEF VectorInv
    <2>3. E * (Len(data) + 1) = E * Len(data) + E /\ E * Len(data) \in Nat
        BY <1>1, TimesLess
    <2>4. size' = E * Len(data') + Len(back')
        <3>1. size = E * Len(data) + Len(back) /\ Len(back') = 0
            BY <2>1 DEF VectorInv
        <3>2. E * Len(data') = E * Len(data) + E
            BY <2>2, <2>3
        <3>3. size' = E * Len(data) + Len(back) + 1
            BY <2>1, <3>1, <2>3, <1>1
        <3> HIDE DEF E
        <3> QED
            BY <3>1, <3>2, <3>3, <2>3, <1>1, <1>3
    <2> QED
        BY <2>1, <2>2, <2>4, <1>1 DEF VectorInv
<1>4. CASE Len(back) + 1 # E
    <2>1. data' = data /\ back' = Append(back, v) /\ size' = size + 1
        BY <1>4 DEF PushLarge
    <2>2. E * Len(data) \in Nat
        BY <1>1, TimesLess
    <2> QED
        BY <2>1, <2>2, <1>1, <1>2, <1>4 DEF VectorInv
<1> QED
    BY <1>3, <1>4

(* What was there is read as before; the new value is read at the end.     *)
LEMMA GetAfterPush ==
    ASSUME LargeAssumption, VectorInv, NEW v \in Values, PushLarge(v)
    PROVE  /\ \A i \in Nat : i < size => GetLarge(i)' = GetLarge(i)
           /\ \A i \in Nat : i = size => GetLarge(i)' = v
<1> DEFINE E == ElementsPerBlock
<1>1. E \in Nat \ {0} /\ Len(data) \in Nat /\ Len(back) \in 0..(E - 1)
    BY DEF LargeAssumption, VectorInv
<1>2. ASSUME NEW i \in Nat, i < size
      PROVE  GetLarge(i)' = GetLarge(i)
    <2> DEFINE b == i \div E
               o == i % E
    <2>1. /\ b \in Nat /\ o \in 0..(E - 1)
          /\ b < Len(data) \/ (b = Len(data) /\ o < Len(back))
        BY <1>2, Address
    <2>2. CASE Len(back) + 1 = E
        <3>1. data' = Append(data, Append(back, v)) /\ back' = << >>
            BY <2>2 DEF PushLarge
        <3>2. b < Len(data') /\ Len(data') = Len(data) + 1
            BY <3>1, <2>1, <1>1 DEF VectorInv
        <3>3. CASE b < Len(data)
            <4>1. data'[b + 1] = data[b + 1]
                BY <3>1, <3>3, <2>1 DEF VectorInv
            <4> QED
                BY <4>1, <3>2, <3>3 DEF GetLarge
        <3>4. CASE b = Len(data) /\ o < Len(back)
            <4>1. data'[b + 1] = Append(back, v)
                BY <3>1, <3>4, <2>1 DEF VectorInv
            <4>2. Append(back, v)[o + 1] = back[o + 1]
                BY <3>4, <2>1, <1>1 DEF VectorInv
            <4>3. ~ (b < Len(data))
                BY <3>4, <1>1
            <4> QED
                BY <4>1, <4>2, <4>3, <3>2 DEF GetLarge
        <3> QED
            BY <2>1, <3>3, <3>4
    <2>3. CASE Len(back) + 1 # E
        <3>1. data' = data /\ back' = Append(back, v)
            BY <2>3 DEF PushLarge
        <3>2. CASE b < Len(data)
            BY <3>1, <3>2 DEF GetLarge
        <3>3. CASE b = Len(data) /\ o < Len(back)
            <4>1. Append(back, v)[o + 1] = back[o + 1]
                BY <3>3, <2>1, <1>1 DEF VectorInv
            <4>2. ~ (b < Len(data))
                BY <3>3, <1>1
            <4> QED
                BY <4>1, <4>2, <3>1 DEF GetLarge
        <3> QED
            BY <2>1, <3>2, <3>3
    <2> QED
        BY <2>2, <2>3
<1>3. ASSUME NEW i \in Nat, i = size
      PROVE  GetLarge(i)' = v
    <2>1. i = E * Len(data) + Len(back)
        BY <1>3 DEF VectorInv
    <2>2. i \div E = Len(data) /\ i % E = Len(back)
        BY <2>1, <1>1, DivUnique
    <2>3. Append(back, v)[Len(back) + 1] = v
        BY <1>1 DEF VectorInv
    <2>4. CASE Len(back) + 1 = E
        <3>1. data' = Append(data, Append(back, v))
            BY <2>4 DEF PushLarge
        <3>2. Len(data) < Len(data') /\ data'[Len(data) + 1] = Append(back, v)
            BY <3>1, <1>1 DEF VectorInv
        <3> QED
            BY <3>2, <2>2, <2>3 DEF GetLarge
    <2>5. CASE Len(back) + 1 # E
        <3>1. data' = data /\ back' = Append(back, v)
            BY <2>5 DEF PushLarge
        <3>2. ~ (Len(data) < Len(data))
            BY <1>1
        <3> QED
            BY <3>1, <3>2, <2>2, <2>3 DEF GetLarge
    <2> QED
        BY <2>4, <2>5
<1> QED
    BY <1>2, <1>3

-----------------------------------------------------------------------------
(* The node log is an array: with large blocks every push appends its value*)
(* and changes nothing that was read before (complex_vector.h, push_back   *)
(* and get).                                                               *)
THEOREM LargeVectorAppends == LargeAssumption /\ VectorSpec => PushAppends
<1> SUFFICES ASSUME LargeAssumption PROVE VectorSpec => PushAppends
    OBVIOUS
<1>1. VectorInit => VectorInv
    BY VectorStart
<1>2. VectorInv /\ [VectorNext]_vectorVars => VectorInv'
    <2>1. CASE UNCHANGED vectorVars
        BY <2>1 DEF vectorVars, VectorInv
    <2>2. ASSUME VectorInv, NEW v \in Values, Push(v)
          PROVE  VectorInv'
        BY <2>2, VectorStep DEF Push, LargeAssumption
    <2> QED
        BY <2>1, <2>2 DEF VectorNext
<1>3. VectorInv /\ [VectorNext]_vectorVars
        => [\E v \in Values : Push(v) /\ Contents' = Append(Contents, Pushed(v))]_vectorVars
    <2> SUFFICES ASSUME VectorInv, NEW v \in Values, Push(v)
                 PROVE  Contents' = Append(Contents, Pushed(v))
        BY DEF VectorNext
    <2>1. PushLarge(v) /\ UseLargeBlocks = TRUE
        BY DEF Push, LargeAssumption
    <2>2. size \in Nat /\ size' = size + 1
        <3>1. Len(data) \in Nat /\ Len(back) \in Nat
            BY DEF VectorInv
        <3>2. ElementsPerBlock * Len(data) \in Nat
            BY <3>1, TimesLess DEF LargeAssumption
        <3> QED
            BY <2>1, <3>1, <3>2 DEF VectorInv, PushLarge
    <2>3. /\ Contents = [i \in 1..size |-> GetLarge(i - 1)]
          /\ Contents' = [i \in 1..size' |-> GetLarge(i - 1)']
          /\ Pushed(v) = v
        BY <2>1 DEF Contents, Size, GetValue, Pushed
    <2>4. \A i \in 1..size : GetLarge(i - 1)' = GetLarge(i - 1)
        BY <2>1, <2>2, GetAfterPush
    <2>5. \A i \in 1..size' : i \notin 1..size => GetLarge(i - 1)' = v
        BY <2>1, <2>2, GetAfterPush
    <2> QED
        BY <2>2, <2>3, <2>4, <2>5
<1> QED
    BY <1>1, <1>2, <1>3, PTL DEF VectorSpec, PushAppends
===============================================================================
