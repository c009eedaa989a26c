------------------------------- MODULE Fds_proofs ------------------------------
(***************************************************************************)
(* The invariant of the flash records and its proof: every action of       *)
(* module Fds keeps it, and what the runs check follows from it.           *)
(***************************************************************************)
EXTENDS Fds_facts

AvailSet(z, a, t) == t = [z EXCEPT !.m_swap_page_avail = a]
TypeSets(z, p, k, t) == t = [z EXCEPT !.m_pages[p].page_type = k]
SwapTag(z, p, t) == t = [z EXCEPT !.m_pages[p].page_type = "SWAP", !.m_swap_page_avail = TRUE, !.m_gc.swap_page = p]

\* The assignment to the kind of a page.
LEMMA TypeExcept ==
  ASSUME NEW z, Ram(z), NEW pages, z.m_pages = pages, NEW p, NEW k, NEW other, TypeSet(pages, p, k, other), NEW t, TypeSets(z, p, k, t)
  PROVE  PagesSet(z, other, t)
<1> QED
  BY DEF TypeSet, TypeSets, PagesSet, Ram

\* The assignments that go with the swap page's tag.
LEMMA SwapTagExcept ==
  ASSUME NEW z, Ram(z), NEW pages, z.m_pages = pages, NEW p, NEW other, TypeSet(pages, p, "SWAP", other), NEW t, SwapTag(z, p, t),
         NEW t1, PagesSet(z, other, t1), NEW t2, AvailSet(t1, TRUE, t2), NEW t3, SwapSet(t2, p, t3)
  PROVE  t = t3
<1>1. PICK a : a = TRUE
  OBVIOUS
<1>2. t1 = [z EXCEPT !.m_pages = other] /\ other = [pages EXCEPT ![p].page_type = "SWAP"]
  BY DEF PagesSet, TypeSet
<1>3. t2 = [t1 EXCEPT !.m_swap_page_avail = a] /\ t3 = [t2 EXCEPT !.m_gc.swap_page = p]
  BY <1>1 DEF AvailSet, SwapSet
<1>4. t = [z EXCEPT !.m_pages[p].page_type = "SWAP", !.m_swap_page_avail = a, !.m_gc.swap_page = p]
  BY <1>1 DEF SwapTag
<1> HIDE <1>1
<1> QED
  BY <1>2, <1>3, <1>4 DEF Ram

\* What changes when there is a swap page.
LEMMA AvailChanged ==
  ASSUME NEW z, Ram(z), NEW a, NEW t, AvailSet(z, a, t)
  PROVE  /\ Ram(t) /\ FsKept(z, t) /\ t.m_flags = z.m_flags /\ t.m_cmd_queue = z.m_cmd_queue /\ t.m_chunk_queue = z.m_chunk_queue
         /\ t.m_pages = z.m_pages /\ t.m_gc = z.m_gc /\ t.stack = z.stack /\ t.m_last_rec_id = z.m_last_rec_id
         /\ t.m_swap_page_avail = a
<1> QED
  BY DEF AvailSet, Ram, FsKept

\* A page is tagged as one of records.
LEMMA InitValid ==
  ASSUME NEW x, NEW f, NEW tk, NEW ds, At(x, f, tk, ds), Formats(x), x.m_swap_page_avail = TRUE,
         NEW p \in Page, x.m_pages[p].page_type = "ERASED", NEW res,
         res = Executing([FsStore(x, StartAddr(p), fds_page_tag_valid) EXCEPT !.m_pages[p].page_type = "VALID"])
  PROVE  Executes(res, f, tk, ds)
<1>1. PICK dst, words : dst = StartAddr(p) /\ words = fds_page_tag_valid
  OBVIOUS
<1>2. PICK z : z = FsStore(x, dst, words)
  OBVIOUS
<1>3. PICK op : op = Store(dst, words)
  OBVIOUS
<1>4. Ram(z) /\ Begun(z, op) /\ Kept(x, z)
  <2>1. Ram(x) /\ Free(x)
    BY DEF At
  <2> QED
    BY <1>2, <1>3, <2>1, StartedStore
<1>5. PICK other : TypeSet(x.m_pages, p, "VALID", other)
  BY DEF TypeSet
<1>6. PICK t : TypeSets(z, p, "VALID", t)
  BY DEF TypeSets
<1>7. PagesSet(z, other, t)
  <2>1. z.m_pages = x.m_pages
    BY <1>4 DEF Kept
  <2> QED
    BY <1>4, <1>5, <1>6, <2>1, TypeExcept
<1>8. res = Executing(t)
  BY <1>1, <1>2, <1>6 DEF TypeSets
<1>9. Ram(t) /\ Becomes(x, t, x.m_cmd_queue, x.m_chunk_queue, other, x.m_gc, x.stack) /\ FsKept(z, t)
  BY <1>4, <1>7, KeptBecomes, PagesGo
<1>10. Begun(t, op)
  BY <1>4, <1>9, FsStays
<1>11. Forms(x, t, other, x.m_gc)
  BY <1>9 DEF Forms, Becomes
<1>12. PagesTyped(x.m_pages) /\ IsGc(x.m_gc) /\ x.m_gc.p_scan_addr = NULL /\ x.m_gc.state = "NONE"
  BY DEF At, Core, Layout, PagesOK, GcOK, Formats, Mid
<1>13. other[x.m_gc.swap_page].page_type = "SWAP"
  <2>1. x.m_gc.swap_page \in Page /\ x.m_gc.swap_page # p /\ x.m_pages[x.m_gc.swap_page].page_type = "SWAP"
    BY <1>12 DEF IsGc, Formats
  <2>2. other[x.m_gc.swap_page] = x.m_pages[x.m_gc.swap_page]
    BY <1>5, <1>12, <2>1, TypeSetIs
  <2> QED
    BY <2>1, <2>2
<1>14. op = Store(StartAddr(p), PageTag("valid", "plain"))
  BY <1>1, <1>3 DEF fds_page_tag_valid
<1>15. Begins(t, f, tk, ds, op)
  <2>1. PICK w0 : w0 = "valid"
    OBVIOUS
  <2>2. PICK k : k = "VALID"
    OBVIOUS
  <2>3. w0 \in {"swap", "valid"} /\ k = IF w0 = "swap" THEN "SWAP" ELSE "VALID"
    BY <2>1, <2>2
  <2>4. TypeSet(x.m_pages, p, k, other) /\ op = Store(StartAddr(p), PageTag(w0, "plain"))
    BY <2>1, <2>2, <1>5, <1>14
  <2> QED
    BY <2>3, <2>4, <1>9, <1>10, <1>11, <1>12, <1>13, InitBegins
<1>16. res.x = t /\ res.ret = "EXECUTING"
  BY ONLY <1>8 DEF Executing, Says
<1> QED
  BY <1>15, <1>16 DEF Executes

\* A page is tagged as the swap page.
LEMMA InitSwap ==
  ASSUME NEW x, NEW f, NEW tk, NEW ds, At(x, f, tk, ds), Formats(x), x.m_swap_page_avail = FALSE,
         NEW p \in Page, x.m_pages[p].page_type = "ERASED", NEW res,
         res = Executing([FsStore(x, StartAddr(p), fds_page_tag_swap)
                              EXCEPT !.m_pages[p].page_type = "SWAP",
                                     !.m_swap_page_avail = TRUE, !.m_gc.swap_page = p])
  PROVE  Executes(res, f, tk, ds)
<1>1. PICK dst, words : dst = StartAddr(p) /\ words = fds_page_tag_swap
  OBVIOUS
<1>2. PICK z : z = FsStore(x, dst, words)
  OBVIOUS
<1>3. PICK op : op = Store(dst, words)
  OBVIOUS
<1>4. Ram(z) /\ Begun(z, op) /\ Kept(x, z)
  <2>1. Ram(x) /\ Free(x)
    BY DEF At
  <2> QED
    BY <1>2, <1>3, <2>1, StartedStore
<1>5. PICK other : TypeSet(x.m_pages, p, "SWAP", other)
  BY DEF TypeSet
<1>6. PICK t : SwapTag(z, p, t)
  BY DEF SwapTag
<1>7. PICK t1 : PagesSet(z, other, t1)
  BY DEF PagesSet
<1>8. PICK t2 : AvailSet(t1, TRUE, t2)
  BY DEF AvailSet
<1>9. PICK t3 : SwapSet(t2, p, t3)
  BY DEF SwapSet
<1>10. t = t3
  <2>1. z.m_pages = x.m_pages
    BY <1>4 DEF Kept
  <2> QED
    BY <1>4, <1>5, <1>6, <1>7, <1>8, <1>9, <2>1, SwapTagExcept
<1>11. res = Executing(t)
  BY <1>1, <1>2, <1>6 DEF SwapTag
<1>12. Ram(t1) /\ Becomes(x, t1, x.m_cmd_queue, x.m_chunk_queue, other, x.m_gc, x.stack) /\ FsKept(z, t1)
  BY <1>4, <1>7, KeptBecomes, PagesGo
<1>13. /\ Ram(t2) /\ FsKept(t1, t2) /\ t2.m_flags = t1.m_flags /\ t2.m_cmd_queue = t1.m_cmd_queue
       /\ t2.m_chunk_queue = t1.m_chunk_queue /\ t2.m_pages = t1.m_pages /\ t2.m_gc = t1.m_gc /\ t2.stack = t1.stack
       /\ t2.m_last_rec_id = t1.m_last_rec_id /\ t2.m_swap_page_avail = TRUE
  <2>1. PICK yes : yes = TRUE
    OBVIOUS
  <2>2. AvailSet(t1, yes, t2)
    BY <1>8, <2>1
  <2>3. /\ Ram(t2) /\ FsKept(t1, t2) /\ t2.m_flags = t1.m_flags /\ t2.m_cmd_queue = t1.m_cmd_queue
        /\ t2.m_chunk_queue = t1.m_chunk_queue /\ t2.m_pages = t1.m_pages /\ t2.m_gc = t1.m_gc /\ t2.stack = t1.stack
        /\ t2.m_last_rec_id = t1.m_last_rec_id /\ t2.m_swap_page_avail = yes
    BY ONLY <1>12, <2>2, AvailChanged
  <2> QED
    BY <2>1, <2>3
<1>14. PagesTyped(x.m_pages) /\ IsGc(x.m_gc) /\ x.m_gc.p_scan_addr = NULL /\ x.m_gc.state = "NONE"
  BY DEF At, Core, Layout, PagesOK, GcOK, Formats, Mid
<1>15. PICK gc : gc = [x.m_gc EXCEPT !.swap_page = p]
  OBVIOUS
<1>16. IsGc(gc) /\ gc.state = "NONE" /\ gc.p_scan_addr = NULL /\ gc.swap_page = p
  BY <1>14, <1>15 DEF IsGc
<1>17. GcSet(t2, gc, t3)
  <2>1. t2.m_gc = x.m_gc
    BY <1>12, <1>13 DEF Becomes
  <2> QED
    BY <1>9, <1>13, <1>15, <2>1, GcSets
<1>18. Becomes(t2, t2, t2.m_cmd_queue, t2.m_chunk_queue, t2.m_pages, t2.m_gc, t2.stack)
  BY Itself
<1>19. Ram(t3) /\ Becomes(t2, t3, t2.m_cmd_queue, t2.m_chunk_queue, t2.m_pages, gc, t2.stack) /\ FsKept(t2, t3)
  BY <1>13, <1>17, <1>18, GcChanged
<1>20. Begun(t, op)
  <2>1. Begun(t1, op)
    BY <1>4, <1>12, FsStays
  <2>2. Begun(t2, op)
    BY <2>1, <1>13, FsStays
  <2> QED
    BY <2>2, <1>10, <1>19, FsStays
<1>21. Forms(x, t, other, gc)
  BY <1>10, <1>12, <1>13, <1>19 DEF Forms, Becomes
<1>22. other[gc.swap_page].page_type = "SWAP"
  BY <1>5, <1>14, <1>16, TypeSetIs
<1>23. op = Store(StartAddr(p), PageTag("swap", "plain"))
  BY <1>1, <1>3 DEF fds_page_tag_swap
<1>24. Begins(t, f, tk, ds, op)
  <2>1. PICK w0 : w0 = "swap"
    OBVIOUS
  <2>2. PICK k : k = "SWAP"
    OBVIOUS
  <2>3. w0 \in {"swap", "valid"} /\ (k = IF w0 = "swap" THEN "SWAP" ELSE "VALID") /\ w0 # "valid"
    BY <2>1, <2>2
  <2>4. TypeSet(x.m_pages, p, k, other) /\ op = Store(StartAddr(p), PageTag(w0, "plain"))
    BY SMTT(20), <2>1, <2>2, <1>5, <1>23
  <2> QED
    BY <2>3, <2>4, <1>10, <1>16, <1>19, <1>20, <1>21, <1>22, InitBegins
<1>25. res.x = t /\ res.ret = "EXECUTING"
  BY ONLY <1>11 DEF Executing, Says
<1> QED
  BY <1>24, <1>25 DEF Executes

\* A page is formatted, or there is none left, or no erased one left.
LEMMA InitExec ==
  ASSUME NEW x, NEW f, NEW tk, NEW ds, At(x, f, tk, ds), Formats(x), NEW cur, NEW res, InitFrom(x, cur, res)
  PROVE  \/ Executes(res, f, tk, ds)
         \/ cur = FDS_MAX_PAGES
            /\ res = Completed([x EXCEPT !.m_flags = (@ \ {"INITIALIZING"}) \cup {"INITIALIZED"}])
         \/ res = Completed(x)
<1>1. CASE \E p \in Page : /\ x.m_pages[p].page_type = "ERASED" /\ x.m_swap_page_avail = TRUE
                     /\ res = Executing([FsStore(x, StartAddr(p), fds_page_tag_valid)
                                           EXCEPT !.m_pages[p].page_type = "VALID"])
  <2>1. PICK p \in Page : /\ x.m_pages[p].page_type = "ERASED" /\ x.m_swap_page_avail = TRUE
                     /\ res = Executing([FsStore(x, StartAddr(p), fds_page_tag_valid)
                                           EXCEPT !.m_pages[p].page_type = "VALID"])
    BY <1>1
  <2> QED
    BY <2>1, InitValid
<1>2. CASE \E p \in Page : /\ x.m_pages[p].page_type = "ERASED" /\ x.m_swap_page_avail = FALSE
                     /\ res = Executing([FsStore(x, StartAddr(p), fds_page_tag_swap)
                              EXCEPT !.m_pages[p].page_type = "SWAP",
                                     !.m_swap_page_avail = TRUE, !.m_gc.swap_page = p])
  <2>1. PICK p \in Page : /\ x.m_pages[p].page_type = "ERASED" /\ x.m_swap_page_avail = FALSE
                     /\ res = Executing([FsStore(x, StartAddr(p), fds_page_tag_swap)
                              EXCEPT !.m_pages[p].page_type = "SWAP",
                                     !.m_swap_page_avail = TRUE, !.m_gc.swap_page = p])
    BY <1>2
  <2> QED
    BY <2>1, InitSwap
<1> QED
  BY <1>1, <1>2 DEF InitFrom

\* The formatting has ended.
Empties(x, flags, t) == t = [x EXCEPT !.m_cmd_queue = Tail(@), !.m_flags = flags]

\* What is left once the formatting has ended.
LEMMA EmptiesIs ==
  ASSUME NEW x, NEW f, NEW tk, NEW ds, At(x, f, tk, ds), Formats(x), NEW flags, NEW t, Empties(x, flags, t)
  PROVE  /\ Ram(t) /\ Free(t) /\ t.m_flags = flags /\ t.m_cmd_queue = <<>> /\ t.m_chunk_queue = x.m_chunk_queue
         /\ t.m_pages = x.m_pages /\ t.m_gc = x.m_gc /\ t.stack = x.stack /\ t.m_last_rec_id = x.m_last_rec_id
         /\ t.m_swap_page_avail = x.m_swap_page_avail
         /\ Core(t, f, tk, ds) /\ BoundsOK(t)
<1>1. PICK q : q = x.m_cmd_queue
  OBVIOUS
<1>2. Layout(x.m_pages, q, x.m_chunk_queue, x.m_gc, x.stack, tk, ds, f) /\ Ram(x) /\ Free(x) /\ BoundsOK(x)
  BY <1>1 DEF At, Core
<1>3. QueueOK(x.m_pages, q, x.m_gc) /\ IsList(q)
  BY <1>2 DEF Layout, QueueOK
<1>4. HeadIs(q, {"INIT"}) /\ Len(q) = 1 /\ x.m_gc.state = "NONE" /\ q # <<>>
  BY <1>1 DEF Formats, HeadIs
<1>5. Head(q) = q[1] /\ ~IsStore(q[1])
  BY <1>3, <1>4, ListHead DEF HeadIs, IsStore
<1>6. Tail(q) = <<>>
  <2>1. IsList(Tail(q)) /\ Len(Tail(q)) = Len(q) - 1
    BY <1>3, <1>4, ListHead
  <2>2. PICK r : r = Tail(q)
    OBVIOUS
  <2>3. PICK m : m = Len(q) /\ m = 1
    BY <1>4
  <2>4. IsList(r) /\ Len(r) = m - 1
    BY <2>1, <2>2, <2>3
  <2>5. Len(r) = 0
    BY <2>3, <2>4
  <2>6. ~(r # <<>>)
    BY <2>4, <2>5, ListIs
  <2> QED
    BY <2>2, <2>6
<1>7. /\ Ram(t) /\ FsKept(x, t) /\ t.m_flags = flags /\ t.m_cmd_queue = Tail(q) /\ t.m_chunk_queue = x.m_chunk_queue
      /\ t.m_pages = x.m_pages /\ t.m_gc = x.m_gc /\ t.stack = x.stack /\ t.m_last_rec_id = x.m_last_rec_id
      /\ t.m_swap_page_avail = x.m_swap_page_avail
  BY <1>1, <1>2 DEF Empties, Ram, FsKept
<1>8. Free(t)
  BY <1>2, <1>7, FsStays
<1>9. Layout(x.m_pages, Tail(q), x.m_chunk_queue, x.m_gc, x.stack, tk, ds, f)
  BY <1>2, <1>4, <1>5, LayoutPops DEF Mid
<1>10. BoundsOK(t)
  <2>1. FDS_CMD_QUEUE_SIZE \in Nat /\ FDS_CMD_QUEUE_SIZE >= 2
    BY LimitsAre
  <2>2. Len(t.m_cmd_queue) = 0
    BY <1>6, <1>7, ListNone
  <2>3. 0 <= FDS_CMD_QUEUE_SIZE
    BY <2>1
  <2>4. Len(t.m_cmd_queue) <= FDS_CMD_QUEUE_SIZE
    BY <2>2, <2>3
  <2>5. Len(t.m_chunk_queue) <= FDS_CHUNK_QUEUE_SIZE
    BY <1>2, <1>7 DEF BoundsOK
  <2> QED
    BY <2>4, <2>5 DEF BoundsOK
<1> QED
  BY <1>6, <1>7, <1>8, <1>9, <1>10 DEF Core

Dozes(y, f, tk, ds) == /\ Ram(y) /\ Free(y) /\ FlashOK(f) /\ ~Active(y) /\ Dormant(y, f, tk, ds)

\* Without commands there are no chunks.
LEMMA NoChunks ==
  ASSUME NEW q, q = <<>>, NEW ch, ChunksOK(q, ch)
  PROVE  ch = <<>>
<1>1. IsList(ch) /\ Len(q) = 0
  BY DEF ChunksOK
<1>2. PICK rest \in [0 .. Len(q) -> 0 .. Len(ch)] : IsRest(rest, q, ch)
  BY DEF ChunksOK
<1>3. Len(ch) = 0
  BY <1>1, <1>2 DEF IsRest
<1> QED
  BY <1>1, <1>3, ListIs

\* Without commands no page is full.
LEMMA PagesFit ==
  ASSUME NEW pages, NEW q, NEW gc, NEW f, FlashOK(f), PagesOK(pages, q, gc, f), \A v : Extra(q, v) = 0, NEW p \in Page
  PROVE  pages[p].words_reserved < FS_PAGE_SIZE_WORDS /\ pages[p].write_offset < FS_PAGE_SIZE_WORDS
<1>1. PICK w \in Nat, b \in Nat : w = pages[p].write_offset /\ b = pages[p].words_reserved
  BY DEF PagesOK, PagesTyped, IsPage
<1>2. FS_PAGE_SIZE_WORDS \in Nat /\ FS_PAGE_SIZE_WORDS > 4
  BY Sizes DEF Size
<1>3. PICK v : v = pages[p].vpage_id
  OBVIOUS
<1>4. PICK x \in Nat : x = Extra(q, v) /\ x = 0
  OBVIOUS
<1>5. End(f, p) = StartAddr(p) + w + x
  BY <1>1, <1>3, <1>4 DEF PagesOK, EndsOK
<1>6. PICK s \in Nat, t \in Nat, z \in Nat : s = StartAddr(p) /\ t = End(f, p) /\ t < z /\ z = s + Size
  BY EndIs
<1>7. t = s + w + x
  BY <1>5, <1>6
<1>8. w < FS_PAGE_SIZE_WORDS
  BY <1>2, <1>4, <1>6, <1>7 DEF Size
<1>9. b = 0 \/ w + b < FS_PAGE_SIZE_WORDS
  BY <1>1 DEF PagesOK, RoomOK
<1>10. b < FS_PAGE_SIZE_WORDS
  BY <1>2, <1>9
<1> QED
  BY <1>1, <1>8, <1>10

\* A formatting that ends well leaves nothing to do.
LEMMA InitRests ==
  ASSUME NEW x, NEW f, NEW tk, NEW ds, At(x, f, tk, ds), Formats(x), x.m_swap_page_avail = TRUE,
         NEW flags, "INITIALIZED" \in flags, "PROCESSING" \notin flags, NEW t, Empties(x, flags, t)
  PROVE  Rests(t, f, tk, ds)
<1>1. /\ Ram(t) /\ Free(t) /\ t.m_flags = flags /\ t.m_cmd_queue = <<>> /\ t.m_chunk_queue = x.m_chunk_queue
      /\ t.m_pages = x.m_pages /\ t.m_gc = x.m_gc /\ t.stack = x.stack /\ t.m_last_rec_id = x.m_last_rec_id
      /\ t.m_swap_page_avail = x.m_swap_page_avail /\ Core(t, f, tk, ds) /\ BoundsOK(t)
  BY EmptiesIs
<1>2. FlashOK(f) /\ FlagsOK(x)
  BY DEF At
<1>3. FlagsOK(t)
  BY <1>1, <1>2 DEF FlagsOK, Formats, HeadIs
<1> QED
  BY <1>1, <1>2, <1>3 DEF Rests, At, Active

\* One that finds no page leaves the records unusable.
LEMMA InitDozes ==
  ASSUME NEW x, NEW f, NEW tk, NEW ds, At(x, f, tk, ds), Formats(x),
         NEW flags, flags = x.m_flags \ {"PROCESSING"}, NEW t, Empties(x, flags, t)
  PROVE  Dozes(t, f, tk, ds)
<1>1. /\ Ram(t) /\ Free(t) /\ t.m_flags = flags /\ t.m_cmd_queue = <<>> /\ t.m_chunk_queue = x.m_chunk_queue
      /\ t.m_pages = x.m_pages /\ t.m_gc = x.m_gc /\ t.stack = x.stack /\ t.m_last_rec_id = x.m_last_rec_id
      /\ t.m_swap_page_avail = x.m_swap_page_avail /\ Core(t, f, tk, ds) /\ BoundsOK(t)
  BY EmptiesIs
<1>2. FlashOK(f) /\ FlagsOK(x)
  BY DEF At
<1>3. "INITIALIZED" \notin flags /\ "INITIALIZING" \in flags /\ "PROCESSING" \notin flags
  BY <1>2 DEF FlagsOK, Formats
<1>4. Layout(t.m_pages, <<>>, t.m_chunk_queue, t.m_gc, t.stack, tk, ds, f)
  BY <1>1 DEF Core
<1>5. t.m_chunk_queue = <<>>
  <2>1. PICK q : q = <<>>
    OBVIOUS
  <2>2. ChunksOK(q, t.m_chunk_queue)
    BY <1>4, <2>1 DEF Layout
  <2> QED
    BY <2>1, <2>2, NoChunks
<1>6. PagesTyped(t.m_pages)
  BY <1>4 DEF Layout, PagesOK
<1>7. \A p \in Page : t.m_pages[p].words_reserved < FS_PAGE_SIZE_WORDS /\ t.m_pages[p].write_offset < FS_PAGE_SIZE_WORDS
  <2>1. PICK q : q = <<>>
    OBVIOUS
  <2>2. PagesOK(t.m_pages, q, t.m_gc, f)
    BY <1>4, <2>1 DEF Layout
  <2>3. \A v : Extra(q, v) = 0
    BY <2>1 DEF Extra, HeadIs
  <2> QED
    BY <1>2, <2>2, <2>3, PagesFit
<1>8. \A s \in Slots : ds[s] = <<>> \/ ds[s].record_id \in 0 .. MaxId
  BY <1>4 DEF Layout, DescsOK, IsDesc
<1>9. t.fs_queue = <<>>
  BY <1>1 DEF Free
<1>10. ~Active(t)
  BY <1>1, <1>3 DEF Active
<1>11. Dormant(t, f, tk, ds)
  BY <1>1, <1>3, <1>5, <1>6, <1>7, <1>8, <1>9 DEF Dormant
<1> QED
  BY <1>1, <1>2, <1>10, <1>11 DEF Dozes

\* The command that formats the pages is executed.
LEMMA InitNext ==
  ASSUME NEW x, NEW f, NEW tk, NEW ds, At(x, f, tk, ds), NEW op, AtWork(x, op, f), HeadIs(x.m_cmd_queue, {"INIT"}),
         NEW dst, dst = op.dst, NEW res, res = Execute(x, TRUE, dst, f), NEW t, t = Advance(res, f)
  PROVE  Leaves(t, f, tk, ds) \/ Dozes(t, f, tk, ds)
<1>1. PICK q : q = x.m_cmd_queue
  OBVIOUS
<1>2. Head(q).id = "INIT" /\ q # <<>>
  BY <1>1 DEF HeadIs
<1>3. /\ Len(q) = 1 /\ x.m_swap_page_avail = TRUE /\ x.m_pages[x.m_gc.swap_page].page_type = "SWAP" /\ x.m_gc.state = "NONE"
      /\ \E p \in Page : op.dst = StartAddr(p)
  BY <1>1, <1>2 DEF AtWork, HeadIs
<1>4. Formats(x)
  BY <1>1, <1>3 DEF Formats
<1>5. PICK p \in Page : dst = StartAddr(p)
  BY <1>3
<1>6. PICK cur \in Nat : cur = p + 1
  BY PageIs
<1>7. CurIs(dst, cur)
  <2>1. dst \in Nat /\ dst # -1
    BY <1>5, PageIs
  <2>2. dst \div FS_PAGE_SIZE_WORDS = p
    BY <1>5, StartIs
  <2> QED
    BY <1>6, <2>1, <2>2 DEF NULL, CurIs
<1>8. res = InitExecute(x, TRUE, dst)
  BY <1>1, <1>2 DEF Execute, Cmd
<1>9. InitFrom(x, cur, res)
  <2>1. HasMore(x, cur)
    BY <1>3 DEF HasMore
  <2> QED
    BY <2>1, <1>7, <1>8, InitIs
<1>10. CASE Executes(res, f, tk, ds)
  BY <1>10, AdvanceIs
<1>11. CASE res = Completed([x EXCEPT !.m_flags = (@ \ {"INITIALIZING"}) \cup {"INITIALIZED"}])
  <2>1. PICK on : on = (x.m_flags \ {"INITIALIZING"}) \cup {"INITIALIZED"}
    OBVIOUS
  <2>2. PICK y : FlagsSet(x, on, y)
    BY DEF FlagsSet
  <2>3. res = Completed(y)
    BY <1>11, <2>1, <2>2 DEF FlagsSet
  <2>4. res.x = y /\ res.ret = "COMPLETED"
    BY ONLY <2>3 DEF Completed, Says
  <2>5. Ram(x)
    BY DEF At
  <2>6. y.m_cmd_queue = q /\ y.m_flags = on /\ Ram(y)
    BY <1>1, <2>2, <2>5, FlagsSetIs
  <2>7. PICK z : Pops(y, z)
    BY DEF Pops
  <2>8. Tail(q) = <<>>
    <3>1. PICK r : Empties(x, on, r)
      BY DEF Empties
    <3>2. r.m_cmd_queue = <<>>
      BY <1>4, <3>1, EmptiesIs
    <3>3. r.m_cmd_queue = Tail(q)
      BY <1>1, <2>5, <3>1 DEF Empties, Ram
    <3> QED
      BY <3>2, <3>3
  <2>9. z.m_cmd_queue = <<>> /\ z.m_flags = on
    BY <2>6, <2>7, <2>8 DEF Pops, Ram
  <2>10. PICK flags : flags = on \ {"PROCESSING"}
    OBVIOUS
  <2>11. t = [z EXCEPT !.m_flags = @ \ {"PROCESSING"}]
    BY <2>4, <2>7, <2>9 DEF Advance, Pops
  <2>12. t = [z EXCEPT !.m_flags = flags]
    BY <2>6, <2>7, <2>9, <2>10, <2>11 DEF Pops, Ram
  <2>13. Empties(x, flags, t)
    BY <1>1, <2>2, <2>5, <2>7, <2>12 DEF Empties, Pops, FlagsSet, Ram
  <2>14. "INITIALIZED" \in flags /\ "PROCESSING" \notin flags
    BY <2>1, <2>10
  <2> QED
    BY <1>3, <1>4, <2>13, <2>14, InitRests DEF Leaves
<1>12. CASE res = Completed(x)
  <2>4. res.x = x /\ res.ret = "COMPLETED"
    BY ONLY <1>12 DEF Completed, Says
  <2>5. Ram(x)
    BY DEF At
  <2>7. PICK z : Pops(x, z)
    BY DEF Pops
  <2>8. Tail(q) = <<>>
    <3>1. PICK r, flags : Empties(x, flags, r)
      BY DEF Empties
    <3>2. r.m_cmd_queue = <<>>
      BY <1>4, <3>1, EmptiesIs
    <3>3. r.m_cmd_queue = Tail(q)
      BY <1>1, <2>5, <3>1 DEF Empties, Ram
    <3> QED
      BY <3>2, <3>3
  <2>9. z.m_cmd_queue = <<>> /\ z.m_flags = x.m_flags
    BY <1>1, <2>5, <2>7, <2>8 DEF Pops, Ram
  <2>10. PICK flags : flags = x.m_flags \ {"PROCESSING"}
    OBVIOUS
  <2>11. t = [z EXCEPT !.m_flags = @ \ {"PROCESSING"}]
    BY <2>4, <2>7, <2>9 DEF Advance, Pops
  <2>12. t = [z EXCEPT !.m_flags = flags]
    BY <2>5, <2>7, <2>9, <2>10, <2>11 DEF Pops, Ram
  <2>13. Empties(x, flags, t)
    BY <1>1, <2>5, <2>7, <2>12 DEF Empties, Pops, Ram
  <2> QED
    BY <1>4, <2>10, <2>13, InitDozes
<1> QED
  BY <1>4, <1>9, <1>10, <1>11, <1>12, InitExec

\* A flash operation has ended: the command goes on, or the next one begins.
LEMMA CallbackIs ==
  ASSUME NEW x, NEW f, NEW tk, NEW ds, At(x, f, tk, ds), NEW op, AtWork(x, op, f),
         NEW dst, dst = op.dst, NEW res, res = Execute(x, TRUE, dst, f), NEW t, t = Advance(res, f)
  PROVE  Leaves(t, f, tk, ds) \/ Dozes(t, f, tk, ds)
<1>1. CASE HeadIs(x.m_cmd_queue, {"INIT"})
  BY <1>1, InitNext
<1>2. CASE ~HeadIs(x.m_cmd_queue, {"INIT"})
  BY <1>2, ExecNext, AdvanceIs
<1> QED
  BY <1>1, <1>2

--------------------------------------------------------------------------------

(* What is left behind is as the invariant wants it. *)
Carries(y, z) == Ram(z) /\ Kept(y, z) /\ (Free(y) => Free(z)) /\ \A op : Begun(y, op) => Begun(z, op)

\* What the invariant says does not depend on the call that reports a command.
LEMMA AtCarries ==
  ASSUME NEW y, NEW z, Carries(y, z), NEW f, NEW tk, NEW ds
  PROVE  /\ At(y, f, tk, ds) => At(z, f, tk, ds)
         /\ Core(y, f, tk, ds) => Core(z, f, tk, ds)
         /\ FlagsOK(y) => FlagsOK(z)
         /\ BoundsOK(y) => BoundsOK(z)
         /\ \A op : AtWork(y, op, f) => AtWork(z, op, f)
         /\ Stuck(y) => Stuck(z)
         /\ Active(y) <=> Active(z)
<1>1. Kept(y, z) /\ Ram(z) /\ (Free(y) => Free(z))
  BY DEF Carries
<1>2. Core(y, f, tk, ds) => Core(z, f, tk, ds)
  BY <1>1 DEF Core, Kept
<1>3. FlagsOK(y) => FlagsOK(z)
  BY <1>1 DEF FlagsOK, Kept
<1>4. BoundsOK(y) => BoundsOK(z)
  BY <1>1 DEF BoundsOK, Kept
<1>5. \A op : AtWork(y, op, f) => AtWork(z, op, f)
  BY <1>1 DEF AtWork, Kept
<1>6. Stuck(y) => Stuck(z)
  BY <1>1 DEF Stuck, Kept
<1>7. Active(y) <=> Active(z)
  BY <1>1 DEF Active, Kept
<1>8. At(y, f, tk, ds) => At(z, f, tk, ds)
  BY <1>1, <1>2, <1>3, <1>4 DEF At
<1> QED
  BY <1>2, <1>3, <1>4, <1>5, <1>6, <1>7, <1>8

\* So for the result of a handler.
LEMMA LeavesCarries ==
  ASSUME NEW y, NEW z, Carries(y, z), NEW f, NEW tk, NEW ds, Leaves(y, f, tk, ds)
  PROVE  Leaves(z, f, tk, ds)
<1>1. CASE \E op : Begins(y, f, tk, ds, op)
  <2>1. PICK op : Begins(y, f, tk, ds, op)
    BY <1>1
  <2>2. PICK g : g = Done(f, op)
    OBVIOUS
  <2>3. /\ Begun(y, op) /\ SafeOp(f, op) /\ Core(y, g, tk, ds) /\ AtWork(y, op, g)
        /\ FlagsOK(y) /\ BoundsOK(y) /\ Accounts(y.m_pages, y.m_cmd_queue, f) /\ y.m_cmd_queue # <<>>
    BY <2>1, <2>2 DEF Begins
  <2>4. Ram(z) /\ Begun(z, op) /\ z.m_pages = y.m_pages /\ z.m_cmd_queue = y.m_cmd_queue
    BY <2>3 DEF Carries, Kept
  <2>5. Core(z, g, tk, ds) /\ AtWork(z, op, g) /\ FlagsOK(z) /\ BoundsOK(z)
    BY <2>3, AtCarries
  <2>6. Begins(z, f, tk, ds, op)
    BY <2>2, <2>3, <2>4, <2>5 DEF Begins
  <2> QED
    BY <2>6 DEF Leaves
<1>2. CASE Rests(y, f, tk, ds)
  <2>1. At(y, f, tk, ds) /\ Active(y) /\ (y.m_cmd_queue # <<>> => Stuck(y))
    BY <1>2 DEF Rests
  <2>2. z.m_cmd_queue = y.m_cmd_queue
    BY DEF Carries, Kept
  <2>3. At(z, f, tk, ds) /\ Active(z) /\ (z.m_cmd_queue # <<>> => Stuck(z))
    BY <2>1, <2>2, AtCarries
  <2> QED
    BY <2>3 DEF Rests, Leaves
<1> QED
  BY <1>1, <1>2 DEF Leaves

\* So where the records are unusable.
LEMMA DozesCarries ==
  ASSUME NEW y, NEW z, Carries(y, z), NEW f, NEW tk, NEW ds, Dozes(y, f, tk, ds)
  PROVE  Dozes(z, f, tk, ds)
<1>1. Kept(y, z) /\ Ram(z) /\ Free(z) /\ Free(y) /\ FlashOK(f) /\ ~Active(y) /\ Dormant(y, f, tk, ds)
  BY DEF Carries, Dozes
<1>2. ~Active(z)
  BY <1>1 DEF Active, Kept
<1>3. z.fs_queue = <<>>
  BY <1>1 DEF Free
<1>4. Dormant(z, f, tk, ds)
  BY <1>1, <1>3 DEF Dormant, Kept
<1> QED
  BY <1>1, <1>2, <1>4 DEF Dozes

\* The queue of fstorage is looked at once more.
LEMMA QueueProcessCarries ==
  ASSUME NEW y, NEW f, NEW tk, NEW ds, Ram(y), Free(y) \/ \E op : Begun(y, op), NEW z, z = QueueProcess(y)
  PROVE  Carries(y, z) /\ z.reported = y.reported
<1>1. CASE z = y
  BY <1>1 DEF Carries, Kept
<1>2. CASE Free(y)
  <2>1. z = y
    BY <1>2 DEF Free, QueueProcess
  <2> QED
    BY <1>1, <2>1
<1>3. CASE \E op : Begun(y, op)
  <2>1. PICK op : Begun(y, op)
    BY <1>3
  <2>2. CASE "PROCESSING" \in y.fs_flags
    <3>1. z = y
      BY <2>2 DEF QueueProcess
    <3> QED
      BY <1>1, <3>1
  <2>3. CASE "PROCESSING" \notin y.fs_flags
    <3>1. FsOther(y) /\ y.fs_queue = <<op>> /\ y.fs_queue # <<>>
      BY <2>1, <2>3 DEF Begun
    <3>2. Busy(y)
      BY <3>1 DEF FsOther, Busy, Other, NoOp
    <3>3. z = [y EXCEPT !.fs_flags = @ \cup {"FLASH_REQ_PENDING"}]
      BY <2>3, <3>1, <3>2 DEF QueueProcess
    <3>4. Ram(z) /\ Kept(y, z) /\ z.reported = y.reported
      BY <3>3 DEF Ram, Kept
    <3>5. ~Free(y)
      BY <3>1 DEF Free
    <3>6. /\ z.fs_queue = y.fs_queue /\ z.m_retry_count = y.m_retry_count /\ z.result = y.result
          /\ z.sd = y.sd /\ z.events = y.events /\ z.fs_flags = y.fs_flags \cup {"FLASH_REQ_PENDING"}
      BY <3>3 DEF Ram
    <3>7. FsOther(z)
      BY <3>1, <3>6 DEF FsOther
    <3>8. \A o : Begun(y, o) => Begun(z, o)
      BY <2>3, <3>6, <3>7 DEF Begun
    <3> QED
      BY <3>4, <3>5, <3>8 DEF Carries
  <2> QED
    BY <2>2, <2>3
<1> QED
  BY <1>2, <1>3

\* A handler leaves the storage idle, or with one operation begun.
LEMMA LeavesFs ==
  ASSUME NEW y, NEW f, NEW tk, NEW ds, Leaves(y, f, tk, ds) \/ Dozes(y, f, tk, ds)
  PROVE  Ram(y) /\ (Free(y) \/ \E op : Begun(y, op))
<1>1. CASE \E op : Begins(y, f, tk, ds, op)
  BY <1>1 DEF Begins
<1>2. CASE Rests(y, f, tk, ds)
  BY <1>2 DEF Rests, At
<1>3. CASE Dozes(y, f, tk, ds)
  BY <1>3 DEF Dozes
<1> QED
  BY <1>1, <1>2, <1>3 DEF Leaves

\* A handler has returned.
Returned(y, z) == Carries(y, z) /\ z.reported = NoOp /\ z.kept = FALSE

\* In either case the storage has taken what it was asked.
LEMMA Resulting ==
  ASSUME NEW y, Free(y) \/ \E op : Begun(y, op)
  PROVE  y.result = "SUCCESS"
<1> QED
  BY DEF Free, Begun

\* An operation that was begun is what the invariant wants to be pending.
LEMMA BeginsGood ==
  ASSUME NEW z, NEW f, NEW tk, NEW ds, NEW op, Begins(z, f, tk, ds, op), z.reported = NoOp, z.kept = FALSE
  PROVE  Ram(z) /\ FsOK(z) /\ Active(z) /\ Good(z, f, tk, ds)
<1>1. PICK g : g = Done(f, op)
  OBVIOUS
<1>2. /\ Ram(z) /\ Begun(z, op) /\ SafeOp(f, op) /\ Core(z, g, tk, ds) /\ AtWork(z, op, g)
      /\ FlagsOK(z) /\ BoundsOK(z) /\ Accounts(z.m_pages, z.m_cmd_queue, f) /\ z.m_cmd_queue # <<>>
  BY <1>1 DEF Begins
<1>3. IsOp(op)
  BY <1>2 DEF SafeOp
<1>4. FsAt(z) /\ Op(z) = op /\ Pending(z)
  BY <1>2, <1>3, BegunAt
<1>5. Now(z, f) = g
  BY <1>1, <1>4 DEF Now
<1>6. z.result = "SUCCESS" /\ z.fs_queue # <<>>
  BY <1>2, <1>4, Resulting DEF Pending
<1>7. FsOK(z)
  BY <1>4, <1>6, FsAtIs
<1>8. Place(z, g)
  BY <1>2, <1>4, <1>6 DEF Place
<1>9. Good(z, f, tk, ds)
  BY <1>2, <1>4, <1>5, <1>8 DEF Good
<1>10. Active(z)
  BY <1>2 DEF Active
<1> QED
  BY <1>2, <1>7, <1>9, <1>10

\* With nothing to do, nothing is pending.
LEMMA RestsGood ==
  ASSUME NEW z, NEW f, NEW tk, NEW ds, Rests(z, f, tk, ds), z.reported = NoOp, z.kept = FALSE
  PROVE  Ram(z) /\ FsOK(z) /\ Active(z) /\ Good(z, f, tk, ds)
<1>1. /\ Ram(z) /\ Free(z) /\ FlashOK(f) /\ Core(z, f, tk, ds) /\ FlagsOK(z) /\ BoundsOK(z) /\ Active(z)
      /\ z.m_cmd_queue # <<>> => Stuck(z)
  BY DEF Rests, At
<1>2. FsAt(z) /\ ~Pending(z)
  BY <1>1, FreeAt
<1>3. z.result = "SUCCESS" /\ z.fs_queue = <<>>
  BY <1>1 DEF Free
<1>4. FsOK(z)
  BY <1>2, <1>3, FsAtIs
<1>5. Now(z, f) = f
  BY <1>2 DEF Now
<1>6. Place(z, f)
  BY <1>1, <1>3 DEF Place
<1>7. Accounts(z.m_pages, z.m_cmd_queue, f)
  BY <1>1, EndsAccount DEF Core, Layout, PagesOK
<1>8. Good(z, f, tk, ds)
  BY <1>1, <1>2, <1>5, <1>6, <1>7 DEF Good
<1> QED
  BY <1>1, <1>4, <1>8

\* A handler that has returned leaves things as the invariant wants them.
LEMMA ReturnedGood ==
  ASSUME NEW y, NEW z, Returned(y, z), NEW f, NEW tk, NEW ds, Leaves(y, f, tk, ds)
  PROVE  Ram(z) /\ FsOK(z) /\ Active(z) /\ Good(z, f, tk, ds)
<1>1. Leaves(z, f, tk, ds) /\ z.reported = NoOp /\ z.kept = FALSE
  BY LeavesCarries DEF Returned
<1> QED
  BY <1>1, BeginsGood, RestsGood DEF Leaves

\* So where the records are unusable.
LEMMA ReturnedDozes ==
  ASSUME NEW y, NEW z, Returned(y, z), NEW f, NEW tk, NEW ds, Dozes(y, f, tk, ds)
  PROVE  Ram(z) /\ FsOK(z) /\ ~Active(z) /\ Dormant(z, f, tk, ds)
<1>1. Dozes(z, f, tk, ds) /\ z.reported = NoOp /\ z.kept = FALSE
  BY DozesCarries DEF Returned
<1>2. Ram(z) /\ Free(z) /\ ~Active(z) /\ Dormant(z, f, tk, ds)
  BY <1>1 DEF Dozes
<1>3. FsOK(z)
  BY <1>1, <1>2, FreeAt, FsAtIs DEF Free
<1> QED
  BY <1>2, <1>3

\* Either of both.
Leaving(y, f, tk, ds) == Leaves(y, f, tk, ds) \/ Dozes(y, f, tk, ds)
Settles(z, f, tk, ds) ==
  /\ Ram(z) /\ FsOK(z)
  /\ Active(z) => Good(z, f, tk, ds)
  /\ ~Active(z) => Dormant(z, f, tk, ds)

\* In both cases.
LEMMA ReturnedSettles ==
  ASSUME NEW y, NEW z, Returned(y, z), NEW f, NEW tk, NEW ds, Leaving(y, f, tk, ds)
  PROVE  Settles(z, f, tk, ds)
<1>1. CASE Leaves(y, f, tk, ds)
  BY <1>1, ReturnedGood DEF Settles
<1>2. CASE Dozes(y, f, tk, ds)
  BY <1>2, ReturnedDozes DEF Settles
<1> QED
  BY <1>1, <1>2 DEF Leaving

\* The flash operation under way is, or is not, as it was.
SameWork(x, z) == Kept(x, z) /\ z.fs_queue = x.fs_queue /\ (Pending(z) <=> Pending(x))

\* The operation pending is what matters of the storage.
LEMMA GoodSame ==
  ASSUME NEW x, NEW z, SameWork(x, z), NEW f, NEW tk, NEW ds
  PROVE  /\ Good(x, f, tk, ds) => Good(z, f, tk, ds)
         /\ Dormant(x, f, tk, ds) => Dormant(z, f, tk, ds)
         /\ Active(x) <=> Active(z)
<1>1. Kept(x, z) /\ z.fs_queue = x.fs_queue /\ (Pending(z) <=> Pending(x)) /\ Op(z) = Op(x)
  BY DEF SameWork, Op
<1>2. Now(z, f) = Now(x, f)
  BY <1>1 DEF Now
<1>3. Active(x) <=> Active(z)
  BY <1>1 DEF Active, Kept
<1>4. Dormant(x, f, tk, ds) => Dormant(z, f, tk, ds)
  BY <1>1 DEF Dormant, Kept
<1>5. ASSUME Good(x, f, tk, ds) PROVE Good(z, f, tk, ds)
  <2>1. PICK g : g = Now(x, f)
    OBVIOUS
  <2>2. /\ Core(x, g, tk, ds) /\ Place(x, g) /\ FlagsOK(x) /\ BoundsOK(x)
        /\ Accounts(x.m_pages, x.m_cmd_queue, f) /\ (Pending(x) => SafeOp(f, Op(x)))
    BY <1>5, <2>1 DEF Good
  <2>3. Core(z, g, tk, ds)
    BY <1>1, <2>2 DEF Core, Kept
  <2>4. FlagsOK(z)
    BY <1>1, <2>2 DEF FlagsOK, Kept
  <2>5. BoundsOK(z)
    BY <1>1, <2>2 DEF BoundsOK, Kept
  <2>6. Place(z, g)
    <3>1. AtWork(x, Op(x), g) => AtWork(z, Op(z), g)
      BY <1>1 DEF AtWork, Kept
    <3>2. Stuck(x) => Stuck(z)
      BY <1>1 DEF Stuck, Kept
    <3> QED
      BY <1>1, <2>2, <3>1, <3>2 DEF Place, Kept
  <2>7. Accounts(z.m_pages, z.m_cmd_queue, f)
    BY <1>1, <2>2 DEF Kept
  <2>8. Pending(z) => SafeOp(f, Op(z))
    BY <1>1, <2>2
  <2> QED
    BY <1>2, <2>1, <2>3, <2>4, <2>5, <2>6, <2>7, <2>8 DEF Good
<1> QED
  BY <1>3, <1>4, <1>5

\* The storage may otherwise change as it likes.
LEMMA SettlesSame ==
  ASSUME NEW x, NEW z, SameWork(x, z), NEW f, NEW tk, NEW ds, Settles(x, f, tk, ds),
         Ram(z), FsOK(z)
  PROVE  Settles(z, f, tk, ds)
<1> QED
  BY GoodSame DEF Settles

--------------------------------------------------------------------------------

(* The flash events. *)
Dispatched(x, y) == \E kept \in BOOLEAN :
  y = [FsSysEventHandler([x EXCEPT !.events = Tail(@)], Head(x.events)) EXCEPT !.kept = kept]

\* The event is that of another user.
LEMMA OtherEvent ==
  ASSUME NEW x, Ram(x), FsOK(x), x.events # <<>>, "PROCESSING" \notin x.fs_flags,
         NEW y, Dispatched(x, y)
  PROVE  /\ Ram(y) /\ Kept(x, y) /\ y.reported = NoOp /\ y.result = "SUCCESS" /\ y.sd = NoOp /\ y.events = <<>>
         /\ y.fs_queue = x.fs_queue /\ y.m_retry_count = 0 /\ "PROCESSING" \notin y.fs_flags /\ y.result = "SUCCESS"
<1>1. PICK kept : y = [FsSysEventHandler([x EXCEPT !.events = Tail(@)], Head(x.events)) EXCEPT !.kept = kept]
  BY DEF Dispatched
<1>2. PICK a : a = [x EXCEPT !.events = Tail(@)]
  OBVIOUS
<1>3. PICK b : b = FsSysEventHandler(a, Head(x.events))
  OBVIOUS
<1>4. y = [b EXCEPT !.kept = kept]
  BY <1>1, <1>2, <1>3
<1>5. /\ x.reported = NoOp /\ x.result = "SUCCESS" /\ x.m_retry_count = 0 /\ FsOther(x)
  BY DEF FsOK
<1>6. x.sd = NoOp /\ Tail(x.events) = <<>>
  <2>1. PICK s : x.events = <<s>> /\ x.sd = NoOp
    BY <1>5 DEF FsOther
  <2> QED
    BY <2>1
<1>7. a.fs_flags = x.fs_flags /\ Ram(a)
  BY <1>2 DEF Ram
<1>8. b = [a EXCEPT !.fs_flags = @ \ {"FLASH_REQ_PENDING"}]
  BY <1>3, <1>7 DEF FsSysEventHandler
<1>9. Ram(b) /\ Kept(a, b) /\ b.reported = a.reported /\ b.result = a.result /\ b.sd = a.sd /\ b.events = a.events
      /\ b.fs_queue = a.fs_queue /\ b.m_retry_count = a.m_retry_count /\ b.fs_flags = a.fs_flags \ {"FLASH_REQ_PENDING"}
  BY <1>7, <1>8 DEF Ram, Kept
<1>10. Kept(x, a) /\ a.reported = x.reported /\ a.result = x.result /\ a.sd = x.sd /\ a.events = Tail(x.events)
       /\ a.fs_queue = x.fs_queue /\ a.m_retry_count = x.m_retry_count
  BY <1>2 DEF Ram, Kept
<1>11. Ram(y) /\ Kept(b, y) /\ y.reported = b.reported /\ y.result = b.result /\ y.sd = b.sd /\ y.events = b.events
       /\ y.fs_queue = b.fs_queue /\ y.m_retry_count = b.m_retry_count /\ y.fs_flags = b.fs_flags
  BY <1>4, <1>9 DEF Ram, Kept
<1>12. Kept(x, y)
  BY <1>9, <1>10, <1>11 DEF Kept
<1>13. "PROCESSING" \notin y.fs_flags
  BY <1>7, <1>9, <1>11
<1> QED
  BY <1>5, <1>6, <1>9, <1>10, <1>11, <1>12, <1>13

\* The operation has failed.
LEMMA ErrorEvent ==
  ASSUME NEW x, Ram(x), FsOK(x), x.events = <<"ERROR">>, "PROCESSING" \in x.fs_flags,
         FS_CMD_MAX_RETRIES > 0, NEW y, Dispatched(x, y)
  PROVE  /\ Ram(y) /\ Kept(x, y) /\ y.reported = NoOp /\ y.result = "SUCCESS" /\ y.sd = NoOp /\ y.events = <<>>
         /\ y.fs_queue = x.fs_queue /\ y.m_retry_count = 1 /\ y.fs_flags = x.fs_flags
<1>1. PICK kept : y = [FsSysEventHandler([x EXCEPT !.events = Tail(@)], Head(x.events)) EXCEPT !.kept = kept]
  BY DEF Dispatched
<1>2. PICK a : a = [x EXCEPT !.events = Tail(@)]
  OBVIOUS
<1>3. PICK b : b = FsSysEventHandler(a, Head(x.events))
  OBVIOUS
<1>4. y = [b EXCEPT !.kept = kept]
  BY <1>1, <1>2, <1>3
<1>5. /\ x.reported = NoOp /\ x.result = "SUCCESS" /\ FsAtWork(x)
  BY DEF FsOK
<1>6. x.sd = NoOp /\ Tail(x.events) = <<>> /\ x.m_retry_count = 0 /\ Head(x.events) = "ERROR"
  BY <1>5 DEF FsAtWork
<1>7. /\ Ram(a) /\ Kept(x, a) /\ a.reported = x.reported /\ a.result = x.result /\ a.sd = x.sd /\ a.events = Tail(x.events)
      /\ a.fs_queue = x.fs_queue /\ a.m_retry_count = x.m_retry_count /\ a.fs_flags = x.fs_flags
  BY <1>2 DEF Ram, Kept
<1>8. b = [a EXCEPT !.m_retry_count = @ + 1]
  <2>1. b = OnOperationFailure(a)
    BY <1>3, <1>6, <1>7 DEF FsSysEventHandler
  <2>2. PICK c : c = [a EXCEPT !.m_retry_count = @ + 1]
    OBVIOUS
  <2>3. c.m_retry_count = a.m_retry_count + 1
    BY <1>7, <2>2 DEF Ram
  <2>4. c.m_retry_count = 1
    BY <1>6, <1>7, <2>3
  <2>5. ~(c.m_retry_count > FS_CMD_MAX_RETRIES)
    BY <2>4, FstorageAssumption
  <2> QED
    BY <2>1, <2>2, <2>5 DEF OnOperationFailure
<1>9. Ram(b) /\ Kept(a, b) /\ b.reported = a.reported /\ b.result = a.result /\ b.sd = a.sd /\ b.events = a.events
      /\ b.fs_queue = a.fs_queue /\ b.m_retry_count = a.m_retry_count + 1 /\ b.fs_flags = a.fs_flags
  BY <1>7, <1>8 DEF Ram, Kept
<1>10. b.m_retry_count = 1
  BY <1>6, <1>7, <1>9
<1>11. Ram(y) /\ Kept(b, y) /\ y.reported = b.reported /\ y.result = b.result /\ y.sd = b.sd /\ y.events = b.events
       /\ y.fs_queue = b.fs_queue /\ y.m_retry_count = b.m_retry_count /\ y.fs_flags = b.fs_flags
  BY <1>4, <1>9 DEF Ram, Kept
<1>12. Kept(x, y)
  BY <1>7, <1>9, <1>11 DEF Kept
<1> QED
  BY <1>5, <1>6, <1>7, <1>9, <1>10, <1>11, <1>12

\* The operation has been done.
LEMMA SuccessEvent ==
  ASSUME NEW x, Ram(x), FsOK(x), x.events = <<"SUCCESS">>, "PROCESSING" \in x.fs_flags,
         NEW y, Dispatched(x, y)
  PROVE  Ram(y) /\ Kept(x, y) /\ Free(y) /\ y.reported = Op(x) /\ Op(x) # NoOp /\ x.fs_queue # <<>>
<1>1. PICK kept : y = [FsSysEventHandler([x EXCEPT !.events = Tail(@)], Head(x.events)) EXCEPT !.kept = kept]
  BY DEF Dispatched
<1>2. PICK a : a = [x EXCEPT !.events = Tail(@)]
  OBVIOUS
<1>3. PICK b : b = FsSysEventHandler(a, Head(x.events))
  OBVIOUS
<1>4. y = [b EXCEPT !.kept = kept]
  BY <1>1, <1>2, <1>3
<1>5. PICK op : x.reported = NoOp /\ x.result = "SUCCESS" /\ FsAtWork(x) /\ x.fs_queue = <<op>> /\ IsOp(op)
  BY DEF FsOK
<1>6. x.sd = NoOp /\ Tail(x.events) = <<>> /\ Head(x.events) = "SUCCESS"
  BY <1>5 DEF FsAtWork
<1>7. /\ Ram(a) /\ Kept(x, a) /\ a.sd = x.sd /\ a.events = Tail(x.events)
      /\ a.fs_queue = x.fs_queue /\ a.fs_flags = x.fs_flags
  BY <1>2 DEF Ram, Kept
<1>8. PICK c : c = [a EXCEPT !.m_retry_count = 0]
  OBVIOUS
<1>9. /\ Ram(c) /\ Kept(a, c) /\ c.sd = a.sd /\ c.events = a.events
      /\ c.fs_queue = a.fs_queue /\ c.fs_flags = a.fs_flags /\ c.m_retry_count = 0
  BY <1>7, <1>8 DEF Ram, Kept
<1>10. b = CmdConsume(c, "SUCCESS")
  BY <1>3, <1>6, <1>7, <1>8 DEF FsSysEventHandler, OnOperationSuccess
<1>11. Tail(c.fs_queue) = <<>> /\ Head(c.fs_queue) = op
  BY <1>5, <1>7, <1>9
<1>12. b = [c EXCEPT !.fs_queue = <<>>, !.fs_flags = @ \ {"PROCESSING"}, !.reported = op, !.result = "SUCCESS"]
  BY <1>10, <1>11 DEF CmdConsume
<1>13. Ram(b) /\ Kept(c, b) /\ b.reported = op /\ b.result = "SUCCESS" /\ b.sd = c.sd /\ b.events = c.events
      /\ b.fs_queue = <<>> /\ b.m_retry_count = c.m_retry_count /\ b.fs_flags = c.fs_flags \ {"PROCESSING"}
  BY <1>9, <1>12 DEF Ram, Kept
<1>14. Ram(y) /\ Kept(b, y) /\ y.reported = b.reported /\ y.result = b.result /\ y.sd = b.sd /\ y.events = b.events
       /\ y.fs_queue = b.fs_queue /\ y.m_retry_count = b.m_retry_count /\ y.fs_flags = b.fs_flags
  BY <1>4, <1>13 DEF Ram, Kept
<1>15. Kept(x, y)
  BY <1>7, <1>9, <1>13, <1>14 DEF Kept
<1>16. Op(x) = op /\ op # NoOp
  BY <1>5, KindsOfOp DEF Op
<1>17. y.sd = NoOp /\ y.events = <<>>
  BY <1>6, <1>7, <1>9, <1>13, <1>14
<1>18. y.fs_queue = <<>> /\ "PROCESSING" \notin y.fs_flags /\ y.m_retry_count = 0 /\ y.result = "SUCCESS"
  BY <1>9, <1>13, <1>14
<1> QED
  BY <1>5, <1>13, <1>14, <1>15, <1>16, <1>17, <1>18 DEF Free

KeptSet(z, k, t) == t = [z EXCEPT !.kept = k]

\* What changes when a call is remembered.
LEMMA KeptSetIs ==
  ASSUME NEW z, Ram(z), NEW k, NEW t, KeptSet(z, k, t)
  PROVE  /\ Ram(t) /\ Kept(z, t) /\ FsKept(z, t) /\ t.reported = z.reported /\ t.result = z.result /\ t.kept = k
         /\ Carries(z, t)
<1>1. Ram(t) /\ Kept(z, t) /\ FsKept(z, t) /\ t.reported = z.reported /\ t.result = z.result /\ t.kept = k
  BY DEF Ram, Kept, FsKept, KeptSet
<1>2. Carries(z, t)
  BY <1>1, FsStays DEF Carries
<1> QED
  BY <1>1, <1>2

\* The operation of fstorage is begun now, or was not.
LEMMA OtherEventSettles ==
  ASSUME NEW x, NEW f, NEW tk, NEW ds, Settles(x, f, tk, ds), x.events # <<>>, "PROCESSING" \notin x.fs_flags,
         NEW y, Dispatched(x, y), NEW z, NEW k, k = FALSE, KeptSet(QueueProcess(y), k, z)
  PROVE  Settles(z, f, tk, ds) /\ y.reported = NoOp
<1>1. Ram(x) /\ FsOK(x)
  BY DEF Settles
<1>2. /\ Ram(y) /\ Kept(x, y) /\ y.reported = NoOp /\ y.result = "SUCCESS" /\ y.sd = NoOp /\ y.events = <<>>
      /\ y.fs_queue = x.fs_queue /\ y.m_retry_count = 0 /\ "PROCESSING" \notin y.fs_flags
  BY <1>1, OtherEvent
<1>3. PICK w : w = QueueProcess(y)
  OBVIOUS
<1>4. CASE x.fs_queue = <<>>
  <2>1. w = y
    BY <1>2, <1>3, <1>4 DEF QueueProcess
  <2>2. Ram(z) /\ Kept(y, z) /\ FsKept(y, z) /\ z.reported = y.reported /\ z.result = y.result /\ z.kept = FALSE
    BY <1>2, <1>3, <2>1, KeptSetIs
  <2>3. Kept(x, z)
    BY <1>2, <2>2 DEF Kept
  <2>4. z.fs_queue = <<>> /\ z.sd = NoOp /\ z.events = <<>> /\ z.m_retry_count = 0 /\ "PROCESSING" \notin z.fs_flags
    BY <1>2, <1>4, <2>2 DEF FsKept
  <2>5. SameWork(x, z)
    BY <1>4, <2>3, <2>4 DEF SameWork, Pending
  <2>6. FsOK(z)
    BY <1>2, <2>2, <2>4 DEF FsOK
  <2> QED
    BY <1>2, <2>2, <2>5, <2>6, SettlesSame
<1>5. CASE x.fs_queue # <<>>
  <2>1. PICK op : x.fs_queue = <<op>> /\ IsOp(op)
    BY <1>1, <1>5 DEF FsOK
  <2>2. Head(y.fs_queue) = op /\ y.fs_queue # <<>> /\ ~Busy(y)
    BY <1>2, <2>1 DEF Busy
  <2>3. w = [y EXCEPT !.fs_flags = @ \cup {"PROCESSING"}, !.sd = op]
    BY <1>2, <1>3, <2>2 DEF QueueProcess
  <2>4. Ram(w) /\ Kept(y, w) /\ w.reported = y.reported /\ w.result = y.result /\ w.fs_flags = y.fs_flags \cup {"PROCESSING"}
        /\ w.sd = op /\ w.fs_queue = y.fs_queue /\ w.events = y.events /\ w.m_retry_count = y.m_retry_count
    BY <1>2, <2>3 DEF Ram, Kept
  <2>5. Ram(z) /\ Kept(w, z) /\ FsKept(w, z) /\ z.reported = w.reported /\ z.result = w.result /\ z.kept = FALSE
    BY <1>3, <2>4, KeptSetIs
  <2>6. Kept(x, z)
    BY <1>2, <2>4, <2>5 DEF Kept
  <2>7. z.fs_queue = <<op>> /\ z.sd = op /\ z.events = <<>> /\ z.m_retry_count = 0 /\ "PROCESSING" \in z.fs_flags
    BY <1>2, <2>1, <2>4, <2>5 DEF FsKept
  <2>8. SameWork(x, z)
    BY <2>1, <2>6, <2>7 DEF SameWork, Pending
  <2>9. FsOK(z)
    <3>1. Op(z) = op
      BY <2>7 DEF Op
    <3>2. FsAtWork(z)
      BY <2>7, <3>1 DEF FsAtWork
    <3>3. z.reported = NoOp /\ z.result = "SUCCESS" /\ z.kept = FALSE
      BY <1>2, <2>4, <2>5
    <3> QED
      BY <2>1, <2>7, <3>2, <3>3 DEF FsOK
  <2> QED
    BY <1>2, <2>5, <2>8, <2>9, SettlesSame
<1> QED
  BY <1>4, <1>5

\* An operation that failed stays at the head, its flag set, and is not begun again.
LEMMA ErrorEventSettles ==
  ASSUME NEW x, NEW f, NEW tk, NEW ds, Settles(x, f, tk, ds), x.events = <<"ERROR">>, "PROCESSING" \in x.fs_flags,
         FS_CMD_MAX_RETRIES > 0,
         NEW y, Dispatched(x, y), NEW z, NEW k, k = FALSE, KeptSet(QueueProcess(y), k, z)
  PROVE  Settles(z, f, tk, ds) /\ y.reported = NoOp
<1>1. Ram(x) /\ FsOK(x)
  BY DEF Settles
<1>2. /\ Ram(y) /\ Kept(x, y) /\ y.reported = NoOp /\ y.result = "SUCCESS" /\ y.sd = NoOp /\ y.events = <<>>
      /\ y.fs_queue = x.fs_queue /\ y.m_retry_count = 1 /\ y.fs_flags = x.fs_flags
  BY <1>1, ErrorEvent
<1>3. QueueProcess(y) = y
  BY <1>2 DEF QueueProcess
<1>4. Ram(z) /\ Kept(y, z) /\ FsKept(y, z) /\ z.reported = y.reported /\ z.result = y.result /\ z.kept = FALSE
  BY <1>2, <1>3, KeptSetIs
<1>5. Kept(x, z)
  BY <1>2, <1>4 DEF Kept
<1>6. PICK op : x.fs_queue = <<op>> /\ IsOp(op)
  BY <1>1 DEF FsOK
<1>7. z.fs_queue = <<op>> /\ z.sd = NoOp /\ z.events = <<>> /\ z.m_retry_count = 1 /\ "PROCESSING" \in z.fs_flags
  BY <1>2, <1>4, <1>6 DEF FsKept
<1>8. SameWork(x, z)
  BY <1>5, <1>6, <1>7 DEF SameWork, Pending
<1>9. FsOK(z)
  <2>1. FsAtWork(z)
    BY <1>2, <1>7 DEF FsAtWork
  <2>2. z.reported = NoOp /\ z.result = "SUCCESS" /\ z.kept = FALSE
    BY <1>2, <1>4
  <2> QED
    BY <1>6, <1>7, <2>1, <2>2 DEF FsOK
<1> QED
  BY <1>2, <1>4, <1>8, <1>9, SettlesSame

\* The operation has been done, and its command goes on.
Finished(s, z) == z = [s EXCEPT !.kept = FALSE, !.reported = NoOp, !.result = "SUCCESS"]

\* The call of a handler has returned.
LEMMA FinishedIs ==
  ASSUME NEW s, Ram(s), Free(s) \/ (\E op : Begun(s, op)), NEW z, Finished(s, z)
  PROVE  Returned(s, z)
<1>1. s.result = "SUCCESS"
  BY Resulting
<1>2. PICK k : k = FALSE
  OBVIOUS
<1>3. z = [s EXCEPT !.kept = k, !.reported = NoOp, !.result = "SUCCESS"]
  BY <1>2 DEF Finished
<1> HIDE <1>2
<1>4. Ram(z) /\ Kept(s, z) /\ FsKept(s, z) /\ z.reported = NoOp /\ z.kept = k
  BY <1>1, <1>3 DEF Ram, Kept, FsKept
<1>5. Carries(s, z)
  BY <1>4, FsStays DEF Carries
<1> QED
  BY <1>2, <1>4, <1>5 DEF Returned

\* An operation that has ended lets its command go on.
LEMMA SuccessEventSettles ==
  ASSUME NEW x, NEW f, NEW tk, NEW ds, Settles(x, f, tk, ds), FlashOK(f),
         x.events = <<"SUCCESS">>, "PROCESSING" \in x.fs_flags, NEW y, Dispatched(x, y),
         NEW z, Finished(QueueProcess(Advance(FsCallback(y, f), f)), z)
  PROVE  Settles(z, f, tk, ds) /\ y.reported # NoOp
<1>1. Ram(x) /\ FsOK(x)
  BY DEF Settles
<1>2. Ram(y) /\ Kept(x, y) /\ Free(y) /\ y.reported = Op(x) /\ Op(x) # NoOp /\ x.fs_queue # <<>>
  BY <1>1, SuccessEvent
<1>3. Good(x, f, tk, ds)
  <2>1. ~Dormant(x, f, tk, ds)
    BY <1>2 DEF Dormant
  <2> QED
    BY <2>1 DEF Settles
<1>4. Now(x, f) = f
  BY DEF Now, Pending
<1>5. Core(x, f, tk, ds) /\ Place(x, f) /\ FlagsOK(x) /\ BoundsOK(x)
  BY <1>3, <1>4 DEF Good
<1>6. AtWork(x, Op(x), f)
  BY <1>2, <1>5 DEF Place
<1>7. At(y, f, tk, ds)
  <2>1. Core(y, f, tk, ds)
    BY <1>2, <1>5 DEF Core, Kept
  <2>2. FlagsOK(y)
    BY <1>2, <1>5 DEF FlagsOK, Kept
  <2>3. BoundsOK(y)
    BY <1>2, <1>5 DEF BoundsOK, Kept
  <2> QED
    BY <1>2, <2>1, <2>2, <2>3 DEF At
<1>8. AtWork(y, Op(x), f)
  BY <1>2, <1>6 DEF AtWork, Kept
<1>9. PICK done : done = FsCallback(y, f)
  OBVIOUS
<1>10. PICK op : op = Op(x)
  OBVIOUS
<1>11. done = Execute(y, TRUE, op.dst, f)
  <2>1. (y.result = "SUCCESS") = TRUE
    BY <1>2 DEF Free
  <2>2. done = Execute(y, y.result = "SUCCESS", y.reported.dst, f)
    BY <1>9 DEF FsCallback
  <2> QED
    BY <2>1, <2>2, <1>2, <1>10, Zenon
<1>12. PICK t : t = Advance(done, f)
  OBVIOUS
<1>13. Leaving(t, f, tk, ds)
  <2>1. PICK dst : dst = op.dst
    OBVIOUS
  <2>2. done = Execute(y, TRUE, dst, f)
    BY <1>11, <2>1
  <2>3. AtWork(y, op, f)
    BY <1>8, <1>10
  <2>4. Leaves(t, f, tk, ds) \/ Dozes(t, f, tk, ds)
    BY <1>7, <1>12, <2>1, <2>2, <2>3, CallbackIs, ZenonT(60)
  <2> QED
    BY <2>4 DEF Leaving
<1>14. PICK s : s = QueueProcess(t)
  OBVIOUS
<1>15. Carries(t, s)
  BY <1>13, <1>14, LeavesFs, QueueProcessCarries DEF Leaving
<1>16. Leaving(s, f, tk, ds)
  BY <1>13, <1>15, LeavesCarries, DozesCarries DEF Leaving
<1>17. Returned(s, z)
  <2>1. Ram(s) /\ (Free(s) \/ \E o : Begun(s, o))
    BY <1>16, LeavesFs DEF Leaving
  <2>2. Finished(s, z)
    BY <1>9, <1>12, <1>14
  <2> QED
    BY <2>1, <2>2, FinishedIs
<1> QED
  BY <1>2, <1>16, <1>17, ReturnedSettles

--------------------------------------------------------------------------------

(* The SoftDevice. *)
UsedOK(u) == u \in [DOMAIN Limit -> Nat] /\ \A k \in DOMAIN Limit : u[k] <= Limit[k]

\* The operation has been done, the event is to come.
EndsTo(x, z, s) == z = [x EXCEPT !.sd = NoOp, !.events = Append(@, s)]

\* What changes when the SoftDevice ends an operation.
LEMMA EndsToIs ==
  ASSUME NEW x, Ram(x), x.events = <<>>, NEW s, NEW z, EndsTo(x, z, s)
  PROVE  /\ Ram(z) /\ Kept(x, z) /\ z.sd = NoOp /\ z.events = <<s>> /\ z.fs_queue = x.fs_queue /\ z.fs_flags = x.fs_flags
         /\ z.m_retry_count = x.m_retry_count /\ z.reported = x.reported /\ z.result = x.result /\ z.kept = x.kept
<1>1. Append(x.events, s) = <<s>>
  OBVIOUS
<1>2. PICK l : l = <<s>>
  OBVIOUS
<1>3. z = [x EXCEPT !.sd = NoOp, !.events = l]
  BY <1>1, <1>2 DEF EndsTo
<1>4. /\ Ram(z) /\ Kept(x, z) /\ z.sd = NoOp /\ z.events = l /\ z.fs_queue = x.fs_queue /\ z.fs_flags = x.fs_flags
         /\ z.m_retry_count = x.m_retry_count /\ z.reported = x.reported /\ z.result = x.result /\ z.kept = x.kept
  BY <1>3 DEF Ram, Kept
<1> QED
  BY <1>2, <1>4

\* What the SoftDevice can be at.
LEMMA SdIs ==
  ASSUME NEW x, FsOK(x), x.sd # NoOp
  PROVE  /\ x.events = <<>> /\ x.m_retry_count = 0 /\ x.reported = NoOp /\ x.result = "SUCCESS" /\ x.kept = FALSE
         /\ \/ x.sd = Other /\ "PROCESSING" \notin x.fs_flags /\ (x.fs_queue = <<>> \/ \E op : x.fs_queue = <<op>> /\ IsOp(op))
            \/ "PROCESSING" \in x.fs_flags /\ \E op : x.fs_queue = <<op>> /\ IsOp(op) /\ x.sd = op /\ Op(x) = op
<1>1. CASE x.fs_queue = <<>>
  BY <1>1 DEF FsOK, FsOther
<1>2. CASE \E op : x.fs_queue = <<op>> /\ IsOp(op)
                   /\ "PROCESSING" \notin x.fs_flags /\ x.m_retry_count = 0 /\ FsOther(x)
  BY <1>2 DEF FsOK, FsOther
<1>3. CASE \E op : x.fs_queue = <<op>> /\ IsOp(op) /\ "PROCESSING" \in x.fs_flags /\ FsAtWork(x)
  BY <1>3 DEF FsOK, FsAtWork, Op
<1> QED
  BY <1>1, <1>2, <1>3 DEF FsOK

\* The operation of another user ends, or that of its own fails.
LEMMA EventComes ==
  ASSUME NEW x, NEW f, NEW tk, NEW ds, Settles(x, f, tk, ds), x.sd # NoOp,
         NEW s, NEW z, EndsTo(x, z, s),
         \/ x.sd = Other /\ s \in {"SUCCESS", "ERROR"}
         \/ s = "ERROR"
  PROVE  Settles(z, f, tk, ds)
<1>1. Ram(x) /\ FsOK(x)
  BY DEF Settles
<1>2. /\ x.events = <<>> /\ x.m_retry_count = 0 /\ x.reported = NoOp /\ x.result = "SUCCESS" /\ x.kept = FALSE
      /\ \/ x.sd = Other /\ "PROCESSING" \notin x.fs_flags /\ (x.fs_queue = <<>> \/ \E op : x.fs_queue = <<op>> /\ IsOp(op))
         \/ "PROCESSING" \in x.fs_flags /\ \E op : x.fs_queue = <<op>> /\ IsOp(op) /\ x.sd = op /\ Op(x) = op
  BY <1>1, SdIs
<1>3. /\ Ram(z) /\ Kept(x, z) /\ z.sd = NoOp /\ z.events = <<s>> /\ z.fs_queue = x.fs_queue /\ z.fs_flags = x.fs_flags
      /\ z.m_retry_count = x.m_retry_count /\ z.reported = x.reported /\ z.result = x.result /\ z.kept = x.kept
  BY <1>1, <1>2, EndsToIs
<1>4. CASE x.sd = Other /\ "PROCESSING" \notin x.fs_flags /\ (x.fs_queue = <<>> \/ \E op : x.fs_queue = <<op>> /\ IsOp(op))
  <2>1. FsOther(z)
    BY <1>3 DEF FsOther
  <2>2. FsOK(z)
    BY <1>2, <1>3, <1>4, <2>1 DEF FsOK
  <2>3. SameWork(x, z)
    BY <1>3, <1>4 DEF SameWork, Pending
  <2> QED
    BY <1>3, <2>2, <2>3, SettlesSame
<1>5. CASE "PROCESSING" \in x.fs_flags /\ \E op : x.fs_queue = <<op>> /\ IsOp(op) /\ x.sd = op /\ Op(x) = op
  <2>1. PICK op : x.fs_queue = <<op>> /\ IsOp(op) /\ x.sd = op /\ Op(x) = op
    BY <1>5
  <2>2. op # Other
    BY <2>1, KindsOfOp
  <2>3. s = "ERROR"
    BY <2>1, <2>2
  <2>4. FsAtWork(z)
    BY <1>2, <1>3, <2>3 DEF FsAtWork
  <2>5. FsOK(z)
    BY <1>2, <1>3, <1>5, <2>1, <2>4 DEF FsOK
  <2>6. SameWork(x, z)
    <3>1. <<"ERROR">> # <<"SUCCESS">>
      OBVIOUS
    <3>2. x.events # <<"SUCCESS">> /\ z.events # <<"SUCCESS">>
      BY <1>2, <1>3, <2>3, <3>1
    <3> QED
      BY <1>3, <2>1, <3>2 DEF SameWork, Pending
  <2> QED
    BY <1>3, <2>5, <2>6, SettlesSame
<1> QED
  BY <1>2, <1>4, <1>5

\* Its own is done.
LEMMA WorkDone ==
  ASSUME NEW x, NEW f, NEW tk, NEW ds, Settles(x, f, tk, ds), x.sd # NoOp, x.sd # Other,
         NEW z, EndsTo(x, z, "SUCCESS"), NEW g, g = Done(f, x.sd)
  PROVE  Settles(z, g, tk, ds) /\ FlashOK(g)
<1>1. Ram(x) /\ FsOK(x)
  BY DEF Settles
<1>2. /\ x.events = <<>> /\ x.m_retry_count = 0 /\ x.reported = NoOp /\ x.result = "SUCCESS" /\ x.kept = FALSE
      /\ "PROCESSING" \in x.fs_flags /\ \E op : x.fs_queue = <<op>> /\ IsOp(op) /\ x.sd = op /\ Op(x) = op
  BY <1>1, SdIs
<1>3. PICK op : x.fs_queue = <<op>> /\ IsOp(op) /\ x.sd = op /\ Op(x) = op
  BY <1>2
<1>4. /\ Ram(z) /\ Kept(x, z) /\ z.sd = NoOp /\ z.events = <<"SUCCESS">> /\ z.fs_queue = x.fs_queue /\ z.fs_flags = x.fs_flags
      /\ z.m_retry_count = x.m_retry_count /\ z.reported = x.reported /\ z.result = x.result /\ z.kept = x.kept
  BY <1>1, <1>2, EndsToIs
<1>5. Good(x, f, tk, ds) /\ Active(x)
  <2>1. x.fs_queue # <<>>
    BY <1>3
  <2>2. ~Dormant(x, f, tk, ds)
    BY <2>1 DEF Dormant
  <2> QED
    BY <2>2 DEF Settles
<1>6. Pending(x) /\ ~Pending(z)
  <2>1. x.events # <<"SUCCESS">> /\ x.fs_queue # <<>>
    BY <1>2, <1>3
  <2> QED
    BY <1>2, <1>4, <2>1 DEF Pending
<1>7. Now(x, f) = g /\ Now(z, g) = g
  BY <1>3, <1>6 DEF Now
<1>8. /\ Core(x, g, tk, ds) /\ Place(x, g) /\ FlagsOK(x) /\ BoundsOK(x) /\ SafeOp(f, op)
  BY <1>3, <1>5, <1>6, <1>7 DEF Good
<1>9. FlashOK(g)
  <2>1. Len(op.words) \in Cuts(op)
    <3>1. IsList(op.words)
      <4>1. CASE \E d \in Address : \E w : IsList(w) /\ op = Store(d, w)
        BY <4>1, StoreIs
      <4>2. CASE \E p \in Page : op = Erase(p)
        BY <4>2, EraseIs
      <4> QED
        BY <1>3, <4>1, <4>2 DEF IsOp
    <3>2. Len(op.words) \in Nat
      BY <3>1, ListIs
    <3> QED
      BY <3>2 DEF Cuts
  <2>2. FlashOK(After(f, op, Len(op.words)))
    BY <1>8, <2>1 DEF SafeOp
  <2> QED
    BY <1>3, <2>2 DEF Done
<1>10. Good(z, g, tk, ds)
  <2>1. Core(z, g, tk, ds)
    BY <1>4, <1>8 DEF Core, Kept
  <2>2. FlagsOK(z)
    BY <1>4, <1>8 DEF FlagsOK, Kept
  <2>3. BoundsOK(z)
    BY <1>4, <1>8 DEF BoundsOK, Kept
  <2>4. Place(z, g)
    <3>1. Op(z) = op
      BY <1>3, <1>4 DEF Op
    <3>2. AtWork(x, op, g) => AtWork(z, op, g)
      BY <1>4 DEF AtWork, Kept
    <3> QED
      BY <1>3, <1>4, <1>8, <3>1, <3>2 DEF Place, Kept
  <2>5. Accounts(z.m_pages, z.m_cmd_queue, g)
    BY <2>1, EndsAccount DEF Core, Layout, PagesOK
  <2> QED
    BY <1>6, <1>7, <2>1, <2>2, <2>3, <2>4, <2>5 DEF Good
<1>11. FsOK(z)
  <2>1. FsAtWork(z)
    BY <1>2, <1>4 DEF FsAtWork
  <2> QED
    BY <1>2, <1>3, <1>4, <2>1 DEF FsOK
<1>12. Active(z)
  BY <1>4, <1>5 DEF Active, Kept
<1> QED
  BY <1>4, <1>9, <1>10, <1>11, <1>12 DEF Settles

\* What the SoftDevice leaves in the flash.
LEMMA AppliedIs ==
  ASSUME IsFlash(flash), NEW n
  PROVE  /\ Applied(Other, n) = flash /\ Applied(NoOp, n) = flash
         /\ \A op : IsOp(op) => Applied(op, n) = After(flash, op, n)
<1>1. Applied(Other, n) = flash /\ Applied(NoOp, n) = flash
  BY DEF Applied, IsFlash, Other, NoOp
<1>2. ASSUME NEW op, IsOp(op) PROVE Applied(op, n) = After(flash, op, n)
  <2>1. op.kind \in {"store", "erase"}
    BY <1>2, KindsOfOp
  <2> QED
    BY <2>1 DEF Applied, After
<1> QED
  BY <1>1, <1>2

\* A sound flash holds words.
LEMMA FlashIs ==
  ASSUME FlashOK(flash)
  PROVE  IsFlash(flash)
<1> QED
  BY DEF FlashOK

\* The SoftDevice ends an operation as the invariant expects of it.
LEMMA SoftDeviceEndsOK ==
  ASSUME NEW tk, NEW ds, Settles(e, flash, tk, ds), FlashOK(flash), SoftDeviceEnds
  PROVE  Settles(e', flash', tk, ds) /\ FlashOK(flash')
<1>1. e.sd # NoOp /\ flash' = Applied(e.sd, WordsOf(e.sd)) /\ EndsTo(e, e', "SUCCESS")
  BY DEF SoftDeviceEnds, EndsTo
<1>2. CASE e.sd = Other
  <2>1. flash' = flash
    BY <1>1, <1>2, FlashIs, AppliedIs
  <2> QED
    BY <1>1, <1>2, <2>1, EventComes
<1>3. CASE e.sd # Other
  <2>1. PICK op : e.sd = op /\ IsOp(op)
    BY <1>1, <1>3, SdIs DEF Settles
  <2>2. op.kind \in {"store", "erase"}
    BY <2>1, KindsOfOp
  <2>3. WordsOf(op) = Len(op.words)
    BY <2>2 DEF WordsOf
  <2>4. flash' = Done(flash, e.sd)
    BY <1>1, <2>1, <2>3, FlashIs, AppliedIs DEF Done
  <2> QED
    BY <1>1, <1>3, <2>4, WorkDone
<1> QED
  BY <1>2, <1>3

\* It fails one.
LEMMA SoftDeviceFailsOK ==
  ASSUME NEW tk, NEW ds, Settles(e, flash, tk, ds), SoftDeviceFails
  PROVE  Settles(e', flash', tk, ds)
<1>1. e.sd # NoOp /\ flash' = flash /\ EndsTo(e, e', "ERROR")
  BY DEF SoftDeviceFails, EndsTo
<1> QED
  BY <1>1, EventComes

\* Another user of the flash gets in first, while no operation of fstorage is flagged as begun.
LEMMA OtherUserBeginsOK ==
  ASSUME NEW tk, NEW ds, Settles(e, flash, tk, ds), ~Meddles, OtherUserBegins
  PROVE  Settles(e', flash', tk, ds)
<1>1. e.sd = NoOp /\ e.events = <<>> /\ flash' = flash /\ e' = [e EXCEPT !.sd = Other] /\ "PROCESSING" \notin e.fs_flags
  BY DEF OtherUserBegins, Busy
<1>2. Ram(e) /\ FsOK(e)
  BY DEF Settles
<1>3. /\ e.fs_queue = <<>> /\ "PROCESSING" \notin e.fs_flags /\ e.m_retry_count = 0
      /\ e.reported = NoOp /\ e.result = "SUCCESS" /\ e.kept = FALSE
  <2>1. ASSUME NEW op, e.fs_queue = <<op>>, IsOp(op) PROVE ~FsOther(e) /\ "PROCESSING" \notin e.fs_flags
    <3>1. ~FsOther(e)
      BY <1>1 DEF FsOther, NoOp, Other
    <3> QED
      BY <1>1, <3>1
  <2> QED
    BY <1>2, <2>1 DEF FsOK
<1>4. PICK z : z = e'
  OBVIOUS
<1>5. /\ Ram(z) /\ Kept(e, z) /\ z.sd = Other /\ z.events = e.events /\ z.fs_queue = e.fs_queue /\ z.fs_flags = e.fs_flags
      /\ z.m_retry_count = e.m_retry_count /\ z.reported = e.reported /\ z.result = e.result /\ z.kept = e.kept
  BY <1>1, <1>2, <1>4 DEF Ram, Kept
<1>6. FsOther(z)
  BY <1>1, <1>5 DEF FsOther
<1>7. FsOK(z)
  BY <1>3, <1>5, <1>6 DEF FsOK
<1>8. SameWork(e, z)
  BY <1>3, <1>5 DEF SameWork, Pending
<1> QED
  BY <1>1, <1>4, <1>5, <1>7, <1>8, SettlesSame

--------------------------------------------------------------------------------

(* A restart. *)

\* The RAM after a reset, component by component.
LEMMA EngineIs ==
  Engine = [fs_queue |-> <<>>, fs_flags |-> {}, m_retry_count |-> 0, reported |-> NoOp, result |-> "SUCCESS",
       sd |-> NoOp, events |-> <<>>, m_flags |-> {}, m_last_rec_id |-> 0, m_cmd_queue |-> <<>>,
       m_chunk_queue |-> <<>>, m_pages |-> [p \in Page |-> PageData],
       m_swap_page_avail |-> FALSE,
       m_gc |-> [state |-> "NONE", cur_page |-> 0, swap_page |-> 0, p_scan_addr |-> NULL, do_gc_page |-> {}],
       m_gc_runs |-> 0, tok |-> <<>>, stack |-> NULL, kept |-> FALSE]
<1> QED
  BY DEF Engine, FsRam

\* It is as the invariant wants it, whatever the flash holds.
LEMMA EngineSettles ==
  ASSUME NEW f, NEW tk, tk = <<>>, NEW ds, ds = [s \in Slots |-> <<>>]
  PROVE  Settles(Engine, f, tk, ds)
<1>1. PICK x : x = Engine
  OBVIOUS
<1>2. /\ x.fs_queue = <<>> /\ x.fs_flags = {} /\ x.m_retry_count = 0 /\ x.reported = NoOp /\ x.result = "SUCCESS"
      /\ x.sd = NoOp /\ x.events = <<>> /\ x.m_flags = {} /\ x.m_last_rec_id = 0 /\ x.m_cmd_queue = <<>>
      /\ x.m_chunk_queue = <<>> /\ x.m_pages = [p \in Page |-> PageData] /\ x.m_swap_page_avail = FALSE
      /\ x.m_gc = [state |-> "NONE", cur_page |-> 0, swap_page |-> 0, p_scan_addr |-> NULL, do_gc_page |-> {}]
      /\ x.m_gc_runs = 0 /\ x.tok = <<>> /\ x.stack = NULL /\ x.kept = FALSE
  BY <1>1, EngineIs
<1>3. Ram(x)
  BY <1>1, EngineIs DEF Ram
<1>4. FsOK(x)
  BY <1>2 DEF FsOK
<1>5. ~Active(x)
  BY <1>2 DEF Active
<1>6. PagesTyped(x.m_pages) /\ \A p \in Page : x.m_pages[p].words_reserved = 0 /\ x.m_pages[p].write_offset = 0
  <2>1. PICK pages : pages = x.m_pages
    OBVIOUS
  <2>2. pages = [p \in Page |-> PageData]
    BY <1>2, <2>1
  <2>3. PICK d : d = PageData
    OBVIOUS
  <2>4. 0 \in Page
    BY Sizes, SMT
  <2>5. PICK z \in Nat : z = 0
    OBVIOUS
  <2>6. d = [page_type |-> "UNDEFINED", vpage_id |-> z, write_offset |-> z, words_reserved |-> z, records_open |-> z]
    BY <2>3, <2>5 DEF PageData
  <2>7. IsPage(d)
    BY <2>4, <2>5, <2>6 DEF IsPage, PageTypes
  <2>8. \A p \in Page : pages[p] = d
    BY <2>2, <2>3
  <2>9. pages = [p \in Page |-> pages[p]]
    BY <2>2
  <2>10. d.words_reserved = 0 /\ d.write_offset = 0
    BY <2>5, <2>6
  <2> QED
    BY <2>1, <2>7, <2>8, <2>9, <2>10 DEF PagesTyped
<1>7. 0 < FS_PAGE_SIZE_WORDS
  BY Sizes, SMT DEF Size
<1>8. IsGc(x.m_gc) /\ x.m_gc.state = "NONE" /\ x.m_gc.p_scan_addr = NULL
  <2>1. 0 \in Page
    BY Sizes, SMT
  <2>2. PICK gc : gc = x.m_gc
    OBVIOUS
  <2>3. PICK z \in Page : z = 0
    BY <2>1
  <2>4. gc = [state |-> "NONE", cur_page |-> z, swap_page |-> z, p_scan_addr |-> NULL, do_gc_page |-> {}]
    BY <1>2, <2>2, <2>3
  <2>5. {} \subseteq Page
    OBVIOUS
  <2> QED
    BY <2>2, <2>3, <2>4, <2>5 DEF IsGc
<1>9. Dormant(x, f, tk, ds)
  <2>1. \A s \in Slots : ds[s] = <<>>
    OBVIOUS
  <2>2. \A p \in Page : x.m_pages[p].words_reserved < FS_PAGE_SIZE_WORDS /\ x.m_pages[p].write_offset < FS_PAGE_SIZE_WORDS
    BY <1>6, <1>7
  <2> QED
    BY <1>2, <1>6, <1>8, <2>1, <2>2 DEF Dormant
<1> QED
  BY <1>1, <1>3, <1>4, <1>5, <1>9 DEF Settles

\* Power is lost: what was being written leaves the flash sound.
LEMMA PowerLossOK ==
  ASSUME NEW tk, NEW ds, Settles(e, flash, tk, ds), FlashOK(flash), PowerLoss
  PROVE  FlashOK(flash') /\ e' = Engine /\ desc' = [s \in Slots |-> <<>>] /\ token' = <<>>
<1>1. flash' \in Left /\ e' = Engine /\ desc' = [s \in Slots |-> <<>>] /\ token' = <<>>
  BY DEF PowerLoss
<1>2. CASE e.sd = NoOp \/ e.sd = Other
  <2>1. flash' = flash
    <3>1. \E k : flash' = Applied(e.sd, k)
      BY <1>1 DEF Left
    <3> QED
      BY <1>2, <3>1, FlashIs, AppliedIs
  <2> QED
    BY <1>1, <2>1
<1>3. CASE e.sd # NoOp /\ e.sd # Other
  <2>1. FsOK(e)
    BY DEF Settles
  <2>2. PICK op : e.fs_queue = <<op>> /\ IsOp(op) /\ e.sd = op /\ Op(e) = op
    BY <1>3, <2>1, SdIs
  <2>3. e.fs_queue # <<>> /\ e.events = <<>>
    <3>1. e.events = <<>>
      BY <1>3, <2>1, SdIs
    <3>2. e.fs_queue # <<>>
      BY <2>2
    <3> QED
      BY <3>1, <3>2
  <2>4. Pending(e)
    BY <2>3 DEF Pending
  <2>5. ~Dormant(e, flash, tk, ds)
    BY <2>3 DEF Dormant
  <2>6. SafeOp(flash, op)
    BY <2>2, <2>4, <2>5 DEF Settles, Good
  <2>7. op.kind \in {"store", "erase"}
    BY <2>2, KindsOfOp
  <2>8. WordsOf(op) = Len(op.words)
    BY <2>7 DEF WordsOf
  <2>9. \E k \in Cuts(op) : flash' = Applied(op, k)
    BY <1>1, <2>2, <2>8 DEF Left, Cuts
  <2>10. PICK k \in Cuts(op) : flash' = Applied(op, k)
    BY <2>9
  <2>11. flash' = After(flash, op, k)
    BY <2>2, <2>10, FlashIs, AppliedIs
  <2> QED
    BY <1>1, <2>6, <2>11 DEF SafeOp
<1> QED
  BY <1>2, <1>3

\* A blank flash.
LEMMA BlankFlash ==
  ASSUME NEW f, f = [a \in Address |-> Erased]
  PROVE  FlashOK(f)
<1>1. IsFlash(f) /\ \A a \in Address : f[a] = Erased
  BY DEF IsFlash
<1>2. WordOK(Erased)
  BY FstorageAssumption DEF WordOK, IsTL
<1>3. WordsOK(f)
  BY <1>1, <1>2 DEF WordsOK
<1>4. \A p \in Page : IsBlank(f, p)
  <2>1. TAKE p \in Page
  <2>2. \A a \in StartAddr(p) .. EndAddr(p) - 1 : a \in Address
    <3>1. TAKE a \in StartAddr(p) .. EndAddr(p) - 1
    <3>2. a \in Int /\ StartAddr(p) <= a /\ a < EndAddr(p)
      BY PageIs, SMT
    <3> QED
      BY <3>2, PageWords
  <2> QED
    BY <1>1, <2>2 DEF IsBlank, Blank
<1>5. \A p \in Page : /\ Kind(f, p) = "ERASED" /\ KindIs(f, p, "ERASED")
                      /\ PageOK(f, p, HeadersOf(f, p), End(f, p))
  <2>1. TAKE p \in Page
  <2>2. KindIs(f, p, "ERASED")
    BY <1>4 DEF KindIs
  <2>3. Laid(f, p, {}, Base(p)) /\ HeadersOf(f, p) = {} /\ End(f, p) = Base(p)
    BY <1>3, <1>4, BlankPage
  <2>4. PageOK(f, p, HeadersOf(f, p), End(f, p))
    BY <2>2, <2>3 DEF PageOK
  <2> QED
    BY <2>2, <2>4, Identified
<1>6. \E p \in Page : TRUE
  BY Sizes, SMT
<1> QED
  BY <1>1, <1>3, <1>5, <1>6 DEF FlashOK

\* Which event comes for an operation that was begun.
LEMMA WhichEvent ==
  ASSUME NEW x, FsOK(x), x.events # <<>>, "PROCESSING" \in x.fs_flags
  PROVE  x.events = <<"SUCCESS">> \/ x.events = <<"ERROR">>
<1>1. PICK op : x.fs_queue = <<op>> /\ FsAtWork(x)
  BY DEF FsOK
<1> QED
  BY <1>1 DEF FsAtWork

EventResult(y, f, z) ==
  IF y.reported = NoOp THEN KeptSet(QueueProcess(y), FALSE, z)
  ELSE Finished(QueueProcess(Advance(FsCallback(y, f), f)), z)

\* The handler of an event keeps the invariant.
LEMMA EventSettles ==
  ASSUME NEW x, NEW f, NEW tk, NEW ds, Settles(x, f, tk, ds), FlashOK(f), x.events # <<>>,
         FS_CMD_MAX_RETRIES > 0, NEW y, Dispatched(x, y), NEW z, EventResult(y, f, z)
  PROVE  Settles(z, f, tk, ds)
<1>1. FsOK(x) /\ Ram(x)
  BY DEF Settles
<1>2. PICK no : no = FALSE
  OBVIOUS
<1>3. y.reported = NoOp => KeptSet(QueueProcess(y), no, z)
  BY <1>2 DEF EventResult
<1>4. y.reported # NoOp => Finished(QueueProcess(Advance(FsCallback(y, f), f)), z)
  BY DEF EventResult
<1>5. CASE "PROCESSING" \notin x.fs_flags
  <2>1. y.reported = NoOp
    BY <1>1, <1>5, OtherEvent
  <2>2. KeptSet(QueueProcess(y), no, z)
    BY <1>3, <2>1
  <2> QED
    BY <1>2, <1>5, <2>2, OtherEventSettles
<1>6. CASE "PROCESSING" \in x.fs_flags /\ x.events = <<"ERROR">>
  <2>1. y.reported = NoOp
    BY <1>1, <1>6, ErrorEvent
  <2>2. KeptSet(QueueProcess(y), no, z)
    BY <1>3, <2>1
  <2> QED
    BY <1>2, <1>6, <2>2, ErrorEventSettles
<1>7. CASE "PROCESSING" \in x.fs_flags /\ x.events = <<"SUCCESS">>
  <2>1. y.reported # NoOp
    BY <1>1, <1>7, SuccessEvent
  <2>2. Finished(QueueProcess(Advance(FsCallback(y, f), f)), z)
    BY <1>4, <2>1
  <2> QED
    BY <1>7, <2>2, SuccessEventSettles
<1> QED
  BY <1>1, <1>5, <1>6, <1>7, WhichEvent

\* The step of the event keeps the invariant.
LEMMA FlashEventOK ==
  ASSUME NEW tk, NEW ds, Settles(e, flash, tk, ds), FlashOK(flash), FS_CMD_MAX_RETRIES > 0, FlashEvent
  PROVE  Settles(e', flash', tk, ds)
<1>1. e.events # <<>> /\ flash' = flash
  BY DEF FlashEvent
<1>2. \E y : Dispatched(e, y) /\ EventResult(y, flash, e')
  <2>1. PICK y \in {[FsSysEventHandler([e EXCEPT !.events = Tail(@)], Head(e.events)) EXCEPT !.kept = kept] : kept \in BOOLEAN} :
       IF y.reported = NoOp THEN e' = [QueueProcess(y) EXCEPT !.kept = FALSE]
       ELSE \E done \in {FsCallback(y, flash)} :
              e' = [QueueProcess(Advance(done, flash)) EXCEPT
                      !.kept = FALSE, !.reported = NoOp, !.result = "SUCCESS"]
    BY DEF FlashEvent
  <2>2. Dispatched(e, y)
    BY <2>1 DEF Dispatched
  <2>3. CASE y.reported = NoOp
    <3>1. e' = [QueueProcess(y) EXCEPT !.kept = FALSE]
      BY <2>1, <2>3
    <3> QED
      BY <2>2, <2>3, <3>1 DEF EventResult, KeptSet
  <2>4. CASE y.reported # NoOp
    <3>1. PICK done \in {FsCallback(y, flash)} :
              e' = [QueueProcess(Advance(done, flash)) EXCEPT
                      !.kept = FALSE, !.reported = NoOp, !.result = "SUCCESS"]
      BY <2>1, <2>4
    <3>2. e' = [QueueProcess(Advance(FsCallback(y, flash), flash)) EXCEPT
                      !.kept = FALSE, !.reported = NoOp, !.result = "SUCCESS"]
      BY <3>1
    <3> QED
      BY <2>2, <2>4, <3>2 DEF EventResult, Finished
  <2> QED
    BY <2>3, <2>4
<1>3. PICK y : Dispatched(e, y) /\ EventResult(y, flash, e')
  BY <1>2
<1> QED
  BY <1>1, <1>3, EventSettles

--------------------------------------------------------------------------------

(* No command is called back for. *)

\* The storage takes an operation without an event.
LEMMA StoreMute ==
  ASSUME NEW x, Ram(x), Free(x), NEW dst, NEW words, NEW y, y = FsStore(x, dst, words)
  PROVE  Ram(y) /\ y.reported = x.reported /\ y.kept = x.kept
<1>1. Ram(y)
  BY StartedStore
<1>2. y.reported = x.reported /\ y.kept = x.kept
  <2>1. PICK op : op = Store(dst, words)
    OBVIOUS
  <2>2. y = CmdEnqueue(x, op)
    BY <2>1 DEF FsStore
  <2>3. PICK t : t = [x EXCEPT !.fs_queue = Append(@, op)]
    OBVIOUS
  <2>4. t.reported = x.reported /\ t.kept = x.kept /\ Ram(t)
    BY <2>3 DEF Ram
  <2>5. PICK u : u = QueueProcess(t)
    OBVIOUS
  <2>6. u.reported = t.reported /\ u.kept = t.kept
    BY <2>4, <2>5 DEF QueueProcess, Ram
  <2>7. y = x \/ y = u
    BY <2>2, <2>3, <2>5 DEF CmdEnqueue
  <2> QED
    BY <2>4, <2>6, <2>7
<1> QED
  BY <1>1, <1>2

\* Commands of records.
LEMMA WriteMute ==
  ASSUME NEW x, Ram(x), Free(x), IsStore(Cmd(x)), Cmd(x).op_code = "WRITE_TL", NEW res, res = StoreExecute(x, TRUE)
  PROVE  res.x.reported = x.reported
<1>1. PICK dst, words, z : z = FsStore(x, dst, words)
                           /\ res = Executing([z EXCEPT !.m_cmd_queue[1].op_code = "WRITE_ID"])
  <2>1. res = Executing([FsStore(x, WriteAddr(x, PageOf(x, Cmd(x).vpage_id)) + OFFSET_TL, <<TL(Cmd(x).length_words, "valid")>>)
                           EXCEPT !.m_cmd_queue[1].op_code = "WRITE_ID"])
    BY DEF StoreExecute
  <2> QED
    BY <2>1
<1>2. Ram(z) /\ z.reported = x.reported
  BY <1>1, StoreMute
<1>3. PICK t : t = [z EXCEPT !.m_cmd_queue[1].op_code = "WRITE_ID"]
  OBVIOUS
<1>4. t.reported = z.reported
  BY <1>2, <1>3 DEF Ram
<1>5. res = Executing(t)
  BY <1>1, <1>3
<1>6. res.x = t
  BY ONLY <1>5 DEF Executing, Says
<1> QED
  BY <1>2, <1>4, <1>6

\* Commands to clear.
LEMMA ClearAtMute ==
  ASSUME NEW x, Ram(x), Free(x), NEW a, NEW y, y = ClearAt(x, a)
  PROVE  Ram(y) /\ y.reported = x.reported
<1>1. PICK z : z = FsStore(x, a, <<TLInvalid>>) /\ y = [z EXCEPT !.stack = a]
  BY DEF ClearAt
<1>2. Ram(z) /\ z.reported = x.reported
  BY <1>1, StoreMute
<1> QED
  BY <1>1, <1>2 DEF Ram

\* The assignments to the first command report nothing.
LEMMA SetMute ==
  ASSUME NEW z, Ram(z), NEW code, NEW s, NEW t
  PROVE  /\ t = [z EXCEPT !.m_cmd_queue[1].op_code = code] => t.reported = z.reported
         /\ t = [z EXCEPT !.m_cmd_queue[1].instance = s] => t.reported = z.reported /\ Ram(t)
         /\ t = [z EXCEPT !.tok = s] => t.reported = z.reported /\ Ram(t)
<1>1. t = [z EXCEPT !.m_cmd_queue[1].op_code = code] => t.reported = z.reported
  BY DEF Ram
<1>2. t = [z EXCEPT !.m_cmd_queue[1].instance = s] => t.reported = z.reported /\ Ram(t)
  BY DEF Ram
<1>3. t = [z EXCEPT !.tok = s] => t.reported = z.reported /\ Ram(t)
  BY DEF Ram
<1> QED
  BY <1>1, <1>2, <1>3

\* Clearing a record reports nothing.
LEMMA ClearTLMute ==
  ASSUME NEW x, Ram(x), Free(x), Cmd(x).op_code = "CLEAR_TL", NEW f, NEW res, res = ClearExecute(x, TRUE, f)
  PROVE  res.x.reported = x.reported
<1> PICK code : code = "DONE"
  OBVIOUS
<1>1. PICK a : a = IF x.kept /\ x.stack # NULL THEN x.stack
         ELSE SeekRecord(x, f, Cmd(x).vpage_id, Cmd(x).record_id)
  OBVIOUS
<1>2. res = IF a = NULL THEN Says([x EXCEPT !.m_cmd_queue[1].op_code = code], "NOT_FOUND")
          ELSE Executing([[ClearAt(x, a) EXCEPT
                                 !.m_cmd_queue[1].instance = InstanceAt(f, a)] EXCEPT !.m_cmd_queue[1].op_code = code])
  BY <1>1 DEF ClearExecute
<1>3. CASE a = NULL
  <2>1. PICK t : t = [x EXCEPT !.m_cmd_queue[1].op_code = code]
    OBVIOUS
  <2>2. PICK why : why = "NOT_FOUND"
    OBVIOUS
  <2>3. res = Says(t, why)
    BY <1>2, <1>3, <2>1, <2>2
  <2>4. res.x = t
    BY ONLY <2>3 DEF Says
  <2>5. t.reported = x.reported
    BY <2>1, SetMute
  <2> QED
    BY <2>4, <2>5
<1>4. CASE a # NULL
  <2>1. PICK s : s = InstanceAt(f, a)
    OBVIOUS
  <2>2. PICK y : y = ClearAt(x, a)
    OBVIOUS
  <2>3. PICK t : t = [y EXCEPT !.m_cmd_queue[1].instance = s]
    OBVIOUS
  <2>4. PICK u : u = [t EXCEPT !.m_cmd_queue[1].op_code = code]
    OBVIOUS
  <2>5. res = Executing(u)
    BY <1>2, <1>4, <2>1, <2>2, <2>3, <2>4
  <2>6. res.x = u
    BY ONLY <2>5 DEF Executing, Says
  <2>7. Ram(y) /\ y.reported = x.reported
    BY <2>2, ClearAtMute
  <2>8. Ram(t) /\ t.reported = y.reported
    BY <2>3, <2>7, SetMute
  <2>9. u.reported = t.reported
    BY <2>4, <2>8, SetMute
  <2> QED
    BY <2>6, <2>7, <2>8, <2>9
<1> QED
  BY <1>3, <1>4

\* Nor does clearing the records of an instance.
LEMMA ClearInstanceMute ==
  ASSUME NEW x, Ram(x), Free(x), Cmd(x).op_code = "CLEAR_INSTANCE", NEW f, NEW res, res = ClearExecute(x, TRUE, f)
  PROVE  res.x.reported = x.reported
<1>1. PICK next : next = FindRecord(x, f, Cmd(x).instance, x.tok)
  OBVIOUS
<1>2. res = IF next = <<>> THEN Completed([[x EXCEPT !.tok = <<>>] EXCEPT !.m_cmd_queue[1].op_code = "DONE"])
            ELSE Executing([ClearAt(x, next[2]) EXCEPT !.tok = next])
  BY <1>1 DEF ClearExecute
<1>3. CASE next = <<>>
  <2>1. PICK none : none = <<>>
    OBVIOUS
  <2>2. PICK y : y = [x EXCEPT !.tok = none]
    OBVIOUS
  <2>3. PICK t : t = [y EXCEPT !.m_cmd_queue[1].op_code = "DONE"]
    OBVIOUS
  <2>4. res = Completed(t)
    BY <1>2, <1>3, <2>1, <2>2, <2>3
  <2>5. res.x = t
    BY ONLY <2>4 DEF Completed, Says
  <2>6. Ram(y) /\ y.reported = x.reported
    BY <2>2, SetMute
  <2>7. t.reported = y.reported
    BY <2>3, <2>6, SetMute
  <2> QED
    BY <2>5, <2>6, <2>7
<1>4. CASE next # <<>>
  <2>1. PICK a : a = next[2]
    OBVIOUS
  <2>2. PICK y : y = ClearAt(x, a)
    OBVIOUS
  <2>3. PICK t : t = [y EXCEPT !.tok = next]
    OBVIOUS
  <2>4. res = Executing(t)
    BY <1>2, <1>4, <2>1, <2>2, <2>3
  <2>5. res.x = t
    BY ONLY <2>4 DEF Executing, Says
  <2>6. Ram(y) /\ y.reported = x.reported
    BY <2>2, ClearAtMute
  <2>7. t.reported = y.reported
    BY <2>3, <2>6, SetMute
  <2> QED
    BY <2>5, <2>6, <2>7
<1> QED
  BY <1>3, <1>4

\* Nor does collecting the next page.
LEMMA GcPageMute ==
  ASSUME NEW x, Ram(x), Free(x), NEW res, res = GcPage(x)
  PROVE  res.x.reported = x.reported
<1>1. PICK free : free = {p \in x.m_gc.do_gc_page : Data(x, p).records_open = 0}
  OBVIOUS
<1>2. PICK p : p = Min(free)
  OBVIOUS
<1>3. CASE free = {}
  <2>1. PICK t : t = [x EXCEPT !.m_gc.state = "BEGIN", !.m_gc.cur_page = 0,
                              !.m_gc.p_scan_addr = NULL, !.m_gc.do_gc_page = {}]
    OBVIOUS
  <2>2. res = Completed(t)
    BY <1>1, <1>3, <2>1 DEF GcPage
  <2>3. res.x = t
    BY ONLY <2>2 DEF Completed, Says
  <2>4. t.reported = x.reported
    BY <2>1 DEF Ram
  <2> QED
    BY <2>3, <2>4
<1>4. CASE free # {}
  <2>1. PICK dst : dst = StartAddr(p) + 3
    OBVIOUS
  <2>2. PICK z : z = FsStore(x, dst, <<<<"tag3", "gc">>>>)
    OBVIOUS
  <2>3. PICK t : t = [z EXCEPT !.m_gc.state = "GC_PAGE", !.m_gc.cur_page = p,
                       !.m_gc.do_gc_page = {i \in @ : i > p}]
    OBVIOUS
  <2>4. res = Executing(t)
    BY <1>1, <1>2, <1>4, <2>1, <2>2, <2>3 DEF GcPage
  <2>5. res.x = t
    BY ONLY <2>4 DEF Executing, Says
  <2>6. Ram(z) /\ z.reported = x.reported
    BY <2>2, StoreMute
  <2>7. t.reported = z.reported
    BY <2>3, <2>6 DEF Ram
  <2> QED
    BY <2>5, <2>6, <2>7
<1> QED
  BY <1>3, <1>4

\* Nor does beginning to collect.
LEMMA GcBeginMute ==
  ASSUME NEW x, Ram(x), Free(x), x.m_gc.state = "BEGIN", NEW f, NEW res, res = GcExecute(x, TRUE, f)
  PROVE  res.x.reported = x.reported
<1>1. res = GcBegin(x)
  BY DEF GcExecute
<1>2. PICK todo : todo = {p \in Page : Data(x, p).page_type = "VALID"}
  OBVIOUS
<1>3. PICK n : n = x.m_gc_runs + 1
  OBVIOUS
<1>4. PICK none : none = NULL
  OBVIOUS
<1>5. PICK t1 : RunsSet(x, n, t1)
  BY DEF RunsSet
<1>6. PICK t2 : StackSet(t1, none, t2)
  BY DEF StackSet
<1>7. PICK t3 : TodoSet(t2, todo, t3)
  BY DEF TodoSet
<1>8. t3 = [x EXCEPT !.m_gc_runs = @ + 1, !.stack = NULL, !.m_gc.do_gc_page = todo]
  BY <1>3, <1>4, <1>5, <1>6, <1>7 DEF RunsSet, StackSet, TodoSet
<1>9. res = GcPage(t3)
  BY <1>1, <1>2, <1>8 DEF GcBegin
<1>10. Ram(t1) /\ FsKept(x, t1) /\ t1.reported = x.reported
  BY <1>5 DEF RunsSet, Ram, FsKept
<1>11. Ram(t2) /\ FsKept(t1, t2) /\ t2.reported = t1.reported
  BY <1>6, <1>10 DEF StackSet, Ram, FsKept
<1>12. Ram(t3) /\ FsKept(t2, t3) /\ t3.reported = t2.reported
  BY <1>7, <1>11 DEF TodoSet, Ram, FsKept
<1>13. Free(t3)
  BY <1>10, <1>11, <1>12, FsStays
<1>14. res.x.reported = t3.reported
  BY <1>9, <1>12, <1>13, GcPageMute
<1> QED
  BY <1>10, <1>11, <1>12, <1>14

\* Nor does formatting.
LEMMA InitMute ==
  ASSUME NEW x, Ram(x), Free(x), NEW cur, NEW res, InitFrom(x, cur, res)
  PROVE  res.x.reported = x.reported /\ res.x.kept = x.kept
<1>1. CASE res = Completed([x EXCEPT !.m_flags = (@ \ {"INITIALIZING"}) \cup {"INITIALIZED"}])
  <2>1. PICK t : t = [x EXCEPT !.m_flags = (@ \ {"INITIALIZING"}) \cup {"INITIALIZED"}]
    OBVIOUS
  <2>2. res = Completed(t)
    BY <1>1, <2>1
  <2>3. res.x = t
    BY ONLY <2>2 DEF Completed, Says
  <2> QED
    BY <2>1, <2>3 DEF Ram
<1>2. CASE res = Completed(x)
  <2>1. res.x = x
    BY ONLY <1>2 DEF Completed, Says
  <2> QED
    BY <2>1
<1>3. ASSUME NEW p, NEW dst, res = Executing([FsStore(x, dst, fds_page_tag_valid)
                                           EXCEPT !.m_pages[p].page_type = "VALID"])
      PROVE res.x.reported = x.reported /\ res.x.kept = x.kept
  <2>1. PICK z : z = FsStore(x, dst, fds_page_tag_valid)
    OBVIOUS
  <2>2. PICK t : t = [z EXCEPT !.m_pages[p].page_type = "VALID"]
    OBVIOUS
  <2>3. res = Executing(t)
    BY <1>3, <2>1, <2>2
  <2>4. res.x = t
    BY ONLY <2>3 DEF Executing, Says
  <2>5. Ram(z) /\ z.reported = x.reported /\ z.kept = x.kept
    BY <2>1, StoreMute
  <2>6. t.reported = z.reported /\ t.kept = z.kept
    BY <2>2, <2>5 DEF Ram
  <2> QED
    BY <2>4, <2>5, <2>6
<1>4. ASSUME NEW p, NEW dst, res = Executing([FsStore(x, dst, fds_page_tag_swap)
                              EXCEPT !.m_pages[p].page_type = "SWAP",
                                     !.m_swap_page_avail = TRUE, !.m_gc.swap_page = p])
      PROVE res.x.reported = x.reported /\ res.x.kept = x.kept
  <2>1. PICK z : z = FsStore(x, dst, fds_page_tag_swap)
    OBVIOUS
  <2>2. PICK t : t = [z EXCEPT !.m_pages[p].page_type = "SWAP", !.m_swap_page_avail = TRUE, !.m_gc.swap_page = p]
    OBVIOUS
  <2>3. res = Executing(t)
    BY <1>4, <2>1, <2>2
  <2>4. res.x = t
    BY ONLY <2>3 DEF Executing, Says
  <2>5. Ram(z) /\ z.reported = x.reported /\ z.kept = x.kept
    BY <2>1, StoreMute
  <2>6. t.reported = z.reported /\ t.kept = z.kept
    BY <2>2, <2>5 DEF Ram
  <2> QED
    BY <2>4, <2>5, <2>6
<1> QED
  BY <1>1, <1>2, <1>3, <1>4 DEF InitFrom

\* The handler of a fresh command.
FreshHead(x) == /\ x.m_cmd_queue # <<>> /\ Fresh(Head(x.m_cmd_queue))
                /\ Head(x.m_cmd_queue).id = "GC" => x.m_gc.state = "BEGIN"
Executed(x, dst, f, res) == res = Execute(x, TRUE, dst, f)
Mute(x, res) == res.x.reported = x.reported

\* A command that is at its beginning reports nothing before it has begun.
LEMMA FreshMute ==
  ASSUME NEW x, Ram(x), Free(x), FreshHead(x), NEW dst, NEW f, NEW res, Executed(x, dst, f, res)
  PROVE  Mute(x, res)
<1>1. Cmd(x) = Head(x.m_cmd_queue)
  BY DEF Cmd
<1>2. CASE IsStore(Cmd(x)) /\ Cmd(x).op_code = "WRITE_TL"
  <2>1. res = StoreExecute(x, TRUE)
    BY <1>2 DEF Execute, Executed, IsStore
  <2> QED
    BY <1>2, <2>1, WriteMute DEF Mute
<1>3. CASE Cmd(x).id = "CLEAR" /\ Cmd(x).op_code = "CLEAR_TL"
  <2>1. res = ClearExecute(x, TRUE, f)
    BY <1>3 DEF Execute, Executed
  <2> QED
    BY <1>3, <2>1, ClearTLMute DEF Mute
<1>4. CASE Cmd(x).id = "CLEAR_INST" /\ Cmd(x).op_code = "CLEAR_INSTANCE"
  <2>1. res = ClearExecute(x, TRUE, f)
    BY <1>4 DEF Execute, Executed
  <2> QED
    BY <1>4, <2>1, ClearInstanceMute DEF Mute
<1>5. CASE Cmd(x).id = "GC"
  <2>1. res = GcExecute(x, TRUE, f)
    BY <1>5 DEF Execute, Executed
  <2>2. x.m_gc.state = "BEGIN"
    BY <1>1, <1>5 DEF FreshHead
  <2> QED
    BY <2>1, <2>2, GcBeginMute DEF Mute
<1> QED
  BY <1>1, <1>2, <1>3, <1>4, <1>5 DEF FreshHead, Fresh

--------------------------------------------------------------------------------

(* A command comes. *)
Submits(x, y, r, dh, other, after, new) ==
  /\ Ram(y) /\ FsKept(x, y) /\ y.reported = x.reported
  /\ y.m_cmd_queue = r /\ y.m_chunk_queue = dh /\ y.m_pages = other /\ y.m_gc = after
  /\ y.m_last_rec_id = new /\ new \in 0 .. MaxId
  /\ y.m_flags = x.m_flags /\ y.m_swap_page_avail = x.m_swap_page_avail /\ y.stack = x.stack

\* Commands come behind q, which then is r, and the collection becomes after.
Grows(q, r, gc, after) ==
  /\ IsList(r) /\ r # <<>>
  /\ q # <<>> => Head(r) = Head(q)
  /\ q = <<>> => Fresh(Head(r)) /\ (Head(r).id = "GC" => after.state = "BEGIN")
  /\ after.swap_page = gc.swap_page /\ (after = gc \/ after.state = "BEGIN")
  /\ HeadIs(q, {"GC"}) => after = gc

\* The pages, the collection and the queues that they leave.
Submittable(x, g, r, dh, other, after, tk, ds) ==
  /\ Alters(x.m_pages, other) /\ SameOffsets(x.m_pages, other) /\ Grows(x.m_cmd_queue, r, x.m_gc, after)
  /\ Len(r) <= FDS_CMD_QUEUE_SIZE /\ Len(dh) <= FDS_CHUNK_QUEUE_SIZE
  /\ Layout(other, r, dh, after, x.stack, tk, ds, g)

\* A command of the client never formats.
LEMMA FreshIs ==
  ASSUME NEW c, Fresh(c)
  PROVE  c.id # "INIT"
<1> QED
  BY DEF Fresh, IsStore

\* The collector is left alone, or told to begin.
LEMMA AsksIs ==
  ASSUME NEW q, NEW gc, NEW c, NEW after, Asks(q, gc, c, after)
  PROVE  /\ after.swap_page = gc.swap_page /\ (c.id = "GC" => after.state = "BEGIN")
         /\ (after = gc \/ after.state = "BEGIN")
         /\ IsList(q) /\ HeadIs(q, {"GC"}) => after = gc
<1>1. CASE c.id # "GC" /\ after = gc
  BY <1>1
<1>2. CASE c.id = "GC" /\ Collects(after, "BEGIN", gc.cur_page, gc.swap_page, gc.p_scan_addr, gc.do_gc_page)
           /\ \A n \in 1 .. Len(q) : q[n].id # "GC"
  <2>1. after.swap_page = gc.swap_page /\ after.state = "BEGIN"
    BY <1>2 DEF Collects
  <2>2. ~(IsList(q) /\ HeadIs(q, {"GC"}))
    <3>1. SUFFICES ASSUME IsList(q), HeadIs(q, {"GC"}) PROVE FALSE
      OBVIOUS
    <3>2. q # <<>> /\ Head(q).id = "GC"
      BY <3>1 DEF HeadIs
    <3>3. Head(q) = q[1]
      BY <3>1, <3>2, ListHead
    <3>4. Len(q) \in Nat /\ Len(q) >= 1
      BY <3>1, <3>2, ListIs
    <3>5. 1 \in 1 .. Len(q)
      BY <3>4, SMT
    <3> QED
      BY <1>2, <3>2, <3>3, <3>5
  <2> QED
    BY <1>2, <2>1, <2>2
<1> QED
  BY <1>1, <1>2 DEF Asks

\* The head, and what it has written, stay.
LEMMA HeadStays ==
  ASSUME NEW q, q # <<>>, NEW r, NEW gc, NEW after, Grows(q, r, gc, after)
  PROVE  /\ r # <<>> /\ Head(r) = Head(q)
         /\ \A ids : HeadIs(r, ids) <=> HeadIs(q, ids)
         /\ \A v : Extra(r, v) = Extra(q, v)
<1>1. r # <<>> /\ Head(r) = Head(q)
  BY DEF Grows
<1>2. \A ids : HeadIs(r, ids) <=> HeadIs(q, ids)
  BY <1>1 DEF HeadIs
<1>3. \A v : Extra(r, v) = Extra(q, v)
  BY <1>1, <1>2 DEF Extra
<1> QED
  BY <1>1, <1>2, <1>3

\* One command comes.
LEMMA GrowsOne ==
  ASSUME NEW q, IsList(q), NEW gc, NEW c, NEW after, Asks(q, gc, c, after), Fresh(c)
  PROVE  Grows(q, Append(q, c), gc, after)
<1>1. PICK r : r = Append(q, c)
  OBVIOUS
<1>2. IsList(r) /\ r # <<>>
  BY <1>1, ListAppend
<1>3. q = <<>> => Head(r) = c
  BY <1>1
<1>4. q # <<>> => Head(r) = Head(q)
  <2>1. HAVE q # <<>>
  <2>2. Len(q) \in Nat /\ Len(q) >= 1
    BY <2>1, ListIs
  <2>3. 1 \in 1 .. Len(q)
    BY <2>2, SMT
  <2>4. r[1] = q[1]
    BY <1>1, <2>3, ListAppend
  <2> QED
    BY <1>2, <2>1, <2>4, ListHead
<1>5. /\ after.swap_page = gc.swap_page /\ (c.id = "GC" => after.state = "BEGIN")
      /\ (after = gc \/ after.state = "BEGIN")
      /\ HeadIs(q, {"GC"}) => after = gc
  BY AsksIs
<1>6. Grows(q, r, gc, after)
  BY <1>2, <1>3, <1>4, <1>5 DEF Grows
<1> QED
  BY <1>1, <1>6

\* Another one comes.
LEMMA GrowsMore ==
  ASSUME NEW q, NEW r, NEW gc, Grows(q, r, gc, gc), NEW c
  PROVE  Grows(q, Append(r, c), gc, gc)
<1>1. PICK t : t = Append(r, c)
  OBVIOUS
<1>2. IsList(r) /\ r # <<>>
  BY DEF Grows
<1>3. IsList(t) /\ t # <<>>
  BY <1>1, <1>2, ListAppend
<1>4. Head(t) = Head(r)
  <2>1. Len(r) \in Nat /\ Len(r) >= 1
    BY <1>2, ListIs
  <2>2. 1 \in 1 .. Len(r)
    BY <2>1, SMT
  <2>3. t[1] = r[1]
    BY <1>1, <1>2, <2>2, ListAppend
  <2> QED
    BY <1>2, <1>3, <2>3, ListHead
<1>5. Grows(q, t, gc, gc)
  BY <1>3, <1>4 DEF Grows
<1> QED
  BY <1>1, <1>5

\* The record being written stays where it is.
LEMMA WritingStays ==
  ASSUME NEW pages, NEW other, Alters(pages, other), SameOffsets(pages, other), NEW c, NEW g, WritingAt(pages, c, g)
  PROVE  WritingAt(other, c, g)
<1>1. PICK p \in Page, a \in Address : WritesAt(pages, c, g, p, a)
  BY DEF WritingAt
<1>2. other[p].page_type = pages[p].page_type /\ other[p].vpage_id = pages[p].vpage_id
      /\ other[p].write_offset = pages[p].write_offset
  BY DEF Alters, SameOffsets
<1>3. WritesAt(other, c, g, p, a)
  BY <1>1, <1>2 DEF WritesAt
<1> QED
  BY <1>3 DEF WritingAt

\* While a command is executed another one comes.
LEMMA SubmitsBusy ==
  ASSUME NEW x, NEW f, NEW tk, NEW ds, Settles(x, f, tk, ds), "INITIALIZED" \in x.m_flags,
         x.m_cmd_queue # <<>>, NEW z, NEW r, NEW dh, NEW other, NEW after, NEW new, NEW tl, NEW dt,
         Submits(x, z, r, dh, other, after, new), z.kept = FALSE,
         Submittable(x, Now(x, f), r, dh, other, after, tl, dt)
  PROVE  Settles(z, f, tl, dt)
<1>1. Ram(x) /\ FsOK(x) /\ Good(x, f, tk, ds)
  BY DEF Settles, Active
<1>2. PICK g : g = Now(x, f)
  OBVIOUS
<1>3. PICK q : q = x.m_cmd_queue
  OBVIOUS
<1>5. Core(x, g, tk, ds) /\ Place(x, g) /\ FlagsOK(x) /\ BoundsOK(x) /\ Accounts(x.m_pages, q, f) /\ (Pending(x) => SafeOp(f, Op(x)))
  BY <1>1, <1>2, <1>3 DEF Good
<1>6. q # <<>>
  BY <1>3
<1>4. Grows(q, r, x.m_gc, after)
  BY <1>3 DEF Submittable
<1>7. r # <<>> /\ Head(r) = Head(q) /\ \A ids : HeadIs(r, ids) <=> HeadIs(q, ids)
  BY <1>4, <1>6, HeadStays
<1>8. \A v : Extra(r, v) = Extra(q, v)
  BY <1>4, <1>6, HeadStays
<1>9. /\ Ram(z) /\ FsKept(x, z) /\ z.reported = x.reported
      /\ z.m_cmd_queue = r /\ z.m_chunk_queue = dh /\ z.m_pages = other /\ z.m_gc = after
      /\ z.m_last_rec_id = new /\ new \in 0 .. MaxId
      /\ z.m_flags = x.m_flags /\ z.m_swap_page_avail = x.m_swap_page_avail /\ z.stack = x.stack
  BY DEF Submits
<1>10. /\ Alters(x.m_pages, other) /\ SameOffsets(x.m_pages, other)
       /\ Len(r) <= FDS_CMD_QUEUE_SIZE /\ Len(dh) <= FDS_CHUNK_QUEUE_SIZE
       /\ Layout(other, r, dh, after, z.stack, tl, dt, g)
  BY <1>2, <1>9 DEF Submittable
<1>11. FsOK(z)
  <2>1. /\ z.fs_queue = x.fs_queue /\ z.fs_flags = x.fs_flags /\ z.m_retry_count = x.m_retry_count
        /\ z.sd = x.sd /\ z.events = x.events /\ z.result = x.result
    BY <1>9 DEF FsKept
  <2>2. Op(z) = Op(x)
    BY <2>1 DEF Op
  <2>3. (FsOther(x) => FsOther(z)) /\ (FsAtWork(x) => FsAtWork(z))
    BY <2>1, <2>2 DEF FsOther, FsAtWork
  <2> QED
    BY <1>1, <1>9, <2>1, <2>3 DEF FsOK
<1>12. z.fs_queue = x.fs_queue /\ Op(z) = Op(x) /\ (Pending(z) <=> Pending(x)) /\ Now(z, f) = g
  <2>1. z.fs_queue = x.fs_queue /\ z.fs_flags = x.fs_flags /\ z.events = x.events
    BY <1>9 DEF FsKept
  <2> QED
    BY <1>2, <2>1 DEF Op, Pending, Now
<1>13. Core(z, g, tl, dt)
  BY <1>9, <1>10 DEF Core
<1>14. after.swap_page = x.m_gc.swap_page /\ (after = x.m_gc \/ after.state = "BEGIN")
       /\ (HeadIs(q, {"GC"}) => after = x.m_gc)
  BY <1>4 DEF Grows
<1>15. ~HeadIs(q, {"INIT"})
  BY <1>3, <1>5 DEF FlagsOK
<1>16. Place(z, g)
  <2>1. x.fs_queue = <<>> => Stuck(z)
    <3>1. HAVE x.fs_queue = <<>>
    <3>2. Stuck(x)
      BY <1>3, <1>5, <1>6, <3>1 DEF Place
    <3> QED
      BY <1>3, <1>7, <1>9, <1>14, <3>2 DEF Stuck
  <2>2. x.fs_queue # <<>> => AtWork(z, Op(z), g)
    <3>1. HAVE x.fs_queue # <<>>
    <3>2. AtWork(x, Op(x), g)
      BY <1>3, <1>5, <1>6, <3>1 DEF Place
    <3>3. CASE HeadIs(q, {"WRITE", "UPDATE"}) /\ WritingAt(x.m_pages, Head(q), g)
      <4>1. WritingAt(other, Head(r), g)
        BY <1>7, <1>10, <3>3, WritingStays
      <4> QED
        BY <1>7, <1>9, <3>3, <4>1 DEF AtWork
    <3>4. CASE HeadIs(q, {"CLEAR"}) /\ Head(q).op_code = "DONE"
      BY <1>7, <1>9, <3>4 DEF AtWork
    <3>5. CASE HeadIs(q, {"CLEAR_INST"}) /\ Head(q).op_code = "CLEAR_INSTANCE"
      BY <1>7, <1>9, <3>5 DEF AtWork
    <3>6. CASE HeadIs(q, {"GC"}) /\ x.m_gc.state \in Mid
      <4>1. after = x.m_gc
        BY <1>14, <3>6
      <4> QED
        BY <1>7, <1>9, <3>6, <4>1 DEF AtWork
    <3> QED
      BY <1>3, <1>15, <3>2, <3>3, <3>4, <3>5, <3>6 DEF AtWork
  <2> QED
    BY <1>7, <1>9, <1>12, <2>1, <2>2 DEF Place
<1>17. FlagsOK(z)
  <2>1. "PROCESSING" \in z.m_flags
    BY <1>3, <1>5, <1>6, <1>9 DEF FlagsOK
  <2>2. ~HeadIs(r, {"INIT"})
    BY <1>7, <1>15
  <2>3. x.m_pages[x.m_gc.swap_page].page_type = "SWAP" /\ x.m_gc.state \in {"NONE", "BEGIN"} \cup Mid
    BY <1>5 DEF FlagsOK
  <2>4. x.m_gc.swap_page \in Page
    BY <1>5 DEF Core, Layout, GcOK, IsGc
  <2>5. other[after.swap_page].page_type = "SWAP"
    BY <1>10, <1>14, <2>3, <2>4 DEF Alters
  <2>6. after.state \in {"NONE", "BEGIN"} \cup Mid
    BY <1>14, <2>3
  <2> QED
    BY <1>7, <1>9, <2>1, <2>2, <2>5, <2>6 DEF FlagsOK
<1>18. BoundsOK(z)
  BY <1>9, <1>10 DEF BoundsOK
<1>19. Accounts(z.m_pages, z.m_cmd_queue, f)
  <2>1. \A p \in Page : /\ other[p].page_type = x.m_pages[p].page_type /\ other[p].vpage_id = x.m_pages[p].vpage_id
                        /\ other[p].write_offset = x.m_pages[p].write_offset
    BY <1>10 DEF Alters, SameOffsets
  <2> QED
    BY <1>5, <1>8, <1>9, <2>1 DEF Accounts
<1>20. Good(z, f, tl, dt)
  BY <1>5, <1>12, <1>13, <1>16, <1>17, <1>18, <1>19 DEF Good
<1>21. Active(z)
  BY <1>9 DEF Active
<1> QED
  BY <1>9, <1>11, <1>20, <1>21 DEF Settles

\* The queue was empty: the command is begun.
LEMMA SubmitsIdle ==
  ASSUME NEW x, NEW f, NEW tk, NEW ds, Settles(x, f, tk, ds), FlashOK(f), "INITIALIZED" \in x.m_flags,
         x.m_cmd_queue = <<>>, NEW y, NEW r, NEW dh, NEW other, NEW after, NEW new, NEW tl, NEW dt,
         Submits(x, y, r, dh, other, after, new),
         Submittable(x, Now(x, f), r, dh, other, after, tl, dt),
         NEW u, FlagsSet(y, y.m_flags \cup {"PROCESSING"}, u), NEW z, KeptSet(CmdQueueProcess(u, f), FALSE, z)
  PROVE  Settles(z, f, tl, dt)
<1>1. Ram(x) /\ FsOK(x) /\ Good(x, f, tk, ds)
  BY DEF Settles, Active
<1>2. x.fs_queue = <<>>
  BY <1>1 DEF Good, Place
<1>3. Free(x) /\ x.reported = NoOp
  <2>1. ~ \E op : x.fs_queue = <<op>> /\ IsOp(op)
    BY <1>2
  <2> QED
    BY <1>1, <1>2, <2>1 DEF FsOK, Free
<1>4. ~Pending(x) /\ Now(x, f) = f
  BY <1>2 DEF Pending, Now
<1>7. /\ Ram(y) /\ FsKept(x, y) /\ y.reported = NoOp
      /\ y.m_cmd_queue = r /\ y.m_chunk_queue = dh /\ y.m_pages = other /\ y.m_gc = after
      /\ y.m_last_rec_id = new /\ new \in 0 .. MaxId
      /\ y.m_flags = x.m_flags /\ y.m_swap_page_avail = x.m_swap_page_avail /\ y.stack = x.stack
  BY <1>3 DEF Submits
<1>8. /\ Alters(x.m_pages, other) /\ Grows(x.m_cmd_queue, r, x.m_gc, after)
      /\ Len(r) <= FDS_CMD_QUEUE_SIZE /\ Len(dh) <= FDS_CHUNK_QUEUE_SIZE
      /\ Layout(other, r, dh, after, x.stack, tl, dt, f)
  BY <1>4 DEF Submittable
<1>6. r # <<>> /\ Fresh(Head(r)) /\ (Head(r).id = "GC" => after.state = "BEGIN")
  BY <1>8 DEF Grows
<1>9. PICK flags : flags = y.m_flags \cup {"PROCESSING"}
  OBVIOUS
<1>10. FlagsSet(y, flags, u)
  BY <1>9
<1>11. /\ Ram(u) /\ FsKept(y, u) /\ u.m_flags = flags /\ u.m_cmd_queue = r /\ u.m_chunk_queue = dh
       /\ u.m_pages = other /\ u.m_gc = after /\ u.stack = x.stack /\ u.m_last_rec_id = new
       /\ u.m_swap_page_avail = x.m_swap_page_avail
  BY <1>7, <1>10, FlagsSetIs
<1>12. u.reported = NoOp
  BY <1>7, <1>10 DEF FlagsSet, Ram
<1>13. Free(u)
  BY <1>3, <1>7, <1>11, FsStays
<1>14. FlagsOK(u)
  <2>1. "PROCESSING" \in u.m_flags /\ "INITIALIZED" \in u.m_flags
    BY <1>7, <1>9, <1>11
  <2>2. ~HeadIs(r, {"INIT"})
    BY <1>6, FreshIs DEF HeadIs
  <2>3. x.m_pages[x.m_gc.swap_page].page_type = "SWAP" /\ x.m_gc.state \in {"NONE", "BEGIN"} \cup Mid
    BY <1>1 DEF Good, FlagsOK
  <2>4. x.m_gc.swap_page \in Page
    BY <1>1 DEF Good, Core, Layout, GcOK, IsGc
  <2>5. after.swap_page = x.m_gc.swap_page /\ (after = x.m_gc \/ after.state = "BEGIN")
    BY <1>8 DEF Grows
  <2>6. other[after.swap_page].page_type = "SWAP"
    BY <1>8, <2>3, <2>4, <2>5 DEF Alters
  <2>7. after.state \in {"NONE", "BEGIN"} \cup Mid
    BY <2>3, <2>5
  <2> QED
    BY <1>6, <1>7, <1>11, <2>1, <2>2, <2>6, <2>7 DEF FlagsOK
<1>15. BoundsOK(u)
  BY <1>8, <1>11 DEF BoundsOK
<1>16. Core(u, f, tl, dt)
  BY <1>8, <1>11 DEF Core
<1>17. At(u, f, tl, dt)
  BY <1>11, <1>13, <1>14, <1>15, <1>16 DEF At
<1>18. FreshHead(u)
  BY <1>6, <1>11 DEF FreshHead
<1>19. PICK yes : yes = TRUE
  OBVIOUS
<1>20. PICK dst : dst = NULL
  OBVIOUS
<1>21. PICK res : res = Execute(u, TRUE, dst, f)
  OBVIOUS
<1>22. CmdQueueProcess(u, f) = res.x
  BY <1>20, <1>21 DEF CmdQueueProcess
<1>23. Leaves(res.x, f, tl, dt)
  BY <1>17, <1>18, <1>21, ExecFresh DEF FreshHead
<1>24. res.x.reported = NoOp
  <2>1. Ram(u)
    BY <1>11
  <2>2. Executed(u, dst, f, res)
    BY <1>21 DEF Executed
  <2>3. Mute(u, res)
    BY <1>13, <1>18, <2>1, <2>2, FreshMute
  <2> QED
    BY <1>12, <2>3 DEF Mute
<1>25. PICK t : t = res.x
  OBVIOUS
<1>26. PICK no : no = FALSE
  OBVIOUS
<1>27. KeptSet(t, no, z)
  BY <1>22, <1>25, <1>26
<1>28. Leaves(t, f, tl, dt) /\ t.reported = NoOp
  BY <1>23, <1>24, <1>25
<1>29. Ram(t)
  BY <1>28, LeavesFs
<1>30. Carries(t, z) /\ z.reported = t.reported /\ z.kept = no
  BY <1>27, <1>29, KeptSetIs
<1>31. Returned(t, z)
  BY <1>26, <1>28, <1>30 DEF Returned
<1> QED
  BY <1>28, <1>31, ReturnedSettles DEF Leaving

\* A command comes, and is begun if none is executed.
LEMMA Submitted ==
  ASSUME NEW x, NEW f, NEW tk, NEW ds, Settles(x, f, tk, ds), FlashOK(f), "INITIALIZED" \in x.m_flags,
         NEW w, NEW r, NEW dh, NEW other, NEW after, NEW new, NEW tl, NEW dt,
         Submits(x, w, r, dh, other, after, new),
         Submittable(x, Now(x, f), r, dh, other, after, tl, dt),
         NEW k, NEW y, KeptSet(w, k, y), NEW z, KeptSet(CmdQueueProcessStart(y, f), FALSE, z)
  PROVE  Settles(z, f, tl, dt)
<1>1. Submits(x, y, r, dh, other, after, new)
  <2>1. Ram(w)
    BY DEF Submits
  <2>2. /\ Ram(y) /\ Kept(w, y) /\ FsKept(w, y) /\ y.reported = w.reported
    BY <2>1, KeptSetIs
  <2> QED
    BY <2>2 DEF Submits, Kept, FsKept
<1>2. FlagsOK(x)
  BY DEF Settles, Good, Active
<1>3. y.m_flags = x.m_flags /\ Ram(y)
  BY <1>1 DEF Submits
<1>4. PICK no : no = FALSE
  OBVIOUS
<1>5. CASE x.m_cmd_queue # <<>>
  <2>1. "PROCESSING" \in y.m_flags
    BY <1>2, <1>3, <1>5 DEF FlagsOK
  <2>2. CmdQueueProcessStart(y, f) = y
    BY <2>1 DEF CmdQueueProcessStart
  <2>3. KeptSet(y, no, z)
    BY <1>4, <2>2
  <2>4. /\ Ram(z) /\ Kept(y, z) /\ FsKept(y, z) /\ z.reported = y.reported /\ z.kept = no
    BY <1>3, <2>3, KeptSetIs
  <2>5. Submits(x, z, r, dh, other, after, new)
    BY <1>1, <2>4 DEF Submits, Kept, FsKept
  <2>6. z.kept = FALSE
    BY <1>4, <2>4
  <2> QED
    BY <1>5, <2>5, <2>6, SubmitsBusy
<1>6. CASE x.m_cmd_queue = <<>>
  <2>1. "PROCESSING" \notin y.m_flags
    BY <1>2, <1>3, <1>6 DEF FlagsOK
  <2>2. PICK u : FlagsSet(y, y.m_flags \cup {"PROCESSING"}, u)
    BY DEF FlagsSet
  <2>3. CmdQueueProcessStart(y, f) = CmdQueueProcess(u, f)
    BY <2>1, <2>2 DEF CmdQueueProcessStart, FlagsSet
  <2>4. KeptSet(CmdQueueProcess(u, f), FALSE, z)
    BY <2>3
  <2> QED
    BY <1>1, <1>6, <2>2, <2>4, SubmitsIdle
<1> QED
  BY <1>5, <1>6

--------------------------------------------------------------------------------

(* Steps of the client are counted. *)

\* A step of the client is counted, within its bound.
LEMMA SpendIs ==
  ASSUME UsedOK(used), NEW kind \in DOMAIN Limit, kind # "all", Spend(kind)
  PROVE  /\ UsedOK(used') /\ used[kind] < Limit[kind] /\ used[kind] \in Nat
         /\ \A k \in DOMAIN Limit : k # kind /\ k # "all" => used'[k] = used[k]
<1>1. DOMAIN Limit = {"write", "update", "clear", "clear_inst", "gc", "find", "open", "reserve", "fault", "loss", "all"}
      /\ \A k \in DOMAIN Limit : Limit[k] \in Nat
  BY FdsAssumption
<1>2. used \in [DOMAIN Limit -> Nat] /\ \A k \in DOMAIN Limit : used[k] <= Limit[k]
  BY DEF UsedOK
<1>3. /\ used[kind] < Limit[kind] /\ used["all"] < Limit["all"]
      /\ used' = [used EXCEPT ![kind] = @ + 1, !["all"] = @ + 1]
  BY DEF Spend
<1>4. "all" \in DOMAIN Limit
  BY <1>1
<1>5. PICK a \in Nat, b \in Nat : a = used[kind] /\ b = used["all"]
  BY <1>2, <1>4
<1>6. PICK m \in Nat, n \in Nat : m = Limit[kind] /\ n = Limit["all"]
  BY <1>1, <1>4
<1>7. a < m /\ b < n
  BY <1>3, <1>5, <1>6
<1>8. PICK i \in Nat, j \in Nat : i = a + 1 /\ j = b + 1
  OBVIOUS
<1>9. i <= m /\ j <= n
  BY <1>7, <1>8, SMT
<1>10. used' = [[used EXCEPT ![kind] = i] EXCEPT !["all"] = j]
  BY <1>2, <1>3, <1>4, <1>5, <1>8
<1>11. used' \in [DOMAIN Limit -> Nat]
  BY <1>2, <1>10
<1>12. \A k \in DOMAIN Limit : used'[k] = IF k = "all" THEN j ELSE IF k = kind THEN i ELSE used[k]
  BY <1>2, <1>10
<1>13. \A k \in DOMAIN Limit : used'[k] <= Limit[k]
  <2>1. TAKE k \in DOMAIN Limit
  <2>2. CASE k = "all"
    BY <1>6, <1>9, <1>12, <2>2
  <2>3. CASE k = kind /\ k # "all"
    BY <1>6, <1>9, <1>12, <2>3
  <2>4. CASE k # kind /\ k # "all"
    BY <1>2, <1>12, <2>4
  <2> QED
    BY <2>2, <2>3, <2>4
<1> QED
  BY <1>2, <1>3, <1>11, <1>12, <1>13 DEF UsedOK

\* What is counted.
LEMMA LimitKinds ==
  DOMAIN Limit = {"write", "update", "clear", "clear_inst", "gc", "find", "open", "reserve", "fault", "loss", "all"}
<1> QED
  BY FdsAssumption

\* How many records have been asked for, when one more is.
LEMMA WrittenIs ==
  ASSUME UsedOK(used), used["write"] < Limit["write"] \/ used["update"] < Limit["update"]
  PROVE  Written \in Nat /\ Written < Limit["write"] + Limit["update"]
<1>1. "write" \in DOMAIN Limit /\ "update" \in DOMAIN Limit
  BY LimitKinds
<1>2. PICK a \in Nat, b \in Nat : a = used["write"] /\ b = used["update"]
  BY <1>1 DEF UsedOK
<1>3. PICK m \in Nat, n \in Nat : m = Limit["write"] /\ n = Limit["update"]
  BY LimitsAre
<1>4. a <= m /\ b <= n
  BY <1>1, <1>2, <1>3 DEF UsedOK
<1>5. a < m \/ b < n
  BY <1>2, <1>3
<1>6. Written = a + b
  BY <1>2 DEF Written
<1>7. a + b \in Nat /\ a + b < m + n
  BY <1>4, <1>5, SMT
<1> QED
  BY <1>3, <1>6, <1>7

--------------------------------------------------------------------------------

(* A record is asked for. *)

\* The state of a client that may ask.
Ready(x, f, tk, ds) == Settles(x, f, tk, ds) /\ FlashOK(f) /\ "INITIALIZED" \in x.m_flags

\* What the invariant says to a client that calls.
LEMMA ReadyIs ==
  ASSUME NEW x, NEW f, NEW tk, NEW ds, Ready(x, f, tk, ds)
  PROVE  /\ Ram(x) /\ FlagsOK(x) /\ BoundsOK(x) /\ x.m_last_rec_id \in 0 .. MaxId
         /\ Layout(x.m_pages, x.m_cmd_queue, x.m_chunk_queue, x.m_gc, x.stack, tk, ds, Now(x, f))
         /\ PagesTyped(x.m_pages) /\ Apart(x.m_pages) /\ RoomOK(x.m_pages, x.m_gc)
         /\ QueueOK(x.m_pages, x.m_cmd_queue, x.m_gc) /\ ChunksOK(x.m_cmd_queue, x.m_chunk_queue)
         /\ SpaceOK(x.m_pages, x.m_cmd_queue, tk) /\ DescsOK(x.m_pages, ds) /\ TokenOK(x.m_pages, tk)
         /\ IsGc(x.m_gc) /\ IsList(x.m_cmd_queue) /\ IsList(x.m_chunk_queue)
         /\ Good(x, f, tk, ds)
<1>1. Ram(x) /\ Good(x, f, tk, ds)
  BY DEF Ready, Settles, Active
<1>2. FlagsOK(x) /\ BoundsOK(x) /\ Core(x, Now(x, f), tk, ds)
  BY <1>1 DEF Good
<1>3. Layout(x.m_pages, x.m_cmd_queue, x.m_chunk_queue, x.m_gc, x.stack, tk, ds, Now(x, f))
  BY <1>2 DEF Core
<1>4. PagesOK(x.m_pages, x.m_cmd_queue, x.m_gc, Now(x, f))
      /\ QueueOK(x.m_pages, x.m_cmd_queue, x.m_gc) /\ ChunksOK(x.m_cmd_queue, x.m_chunk_queue)
      /\ SpaceOK(x.m_pages, x.m_cmd_queue, tk) /\ DescsOK(x.m_pages, ds)
      /\ GcOK(x.m_pages, x.m_cmd_queue, x.m_gc, x.stack, Now(x, f))
  BY <1>3 DEF Layout
<1>5. PagesTyped(x.m_pages) /\ Apart(x.m_pages) /\ RoomOK(x.m_pages, x.m_gc)
  BY <1>4 DEF PagesOK
<1>6. TokenOK(x.m_pages, tk)
  BY <1>4 DEF SpaceOK
<1>7. IsGc(x.m_gc)
  BY <1>4 DEF GcOK
<1>8. IsList(x.m_cmd_queue)
  BY <1>4 DEF QueueOK
<1>9. IsList(x.m_chunk_queue)
  BY <1>4 DEF ChunksOK
<1>10. x.m_last_rec_id \in 0 .. MaxId
  BY <1>2 DEF FlagsOK
<1> QED
  BY <1>1, <1>2, <1>3, <1>4, <1>5, <1>6, <1>7, <1>8, <1>9, <1>10

DescSet(ds, s, d, dt) == dt = [ds EXCEPT ![s] = d]

\* What changes when a descriptor does.
LEMMA DescSetIs ==
  ASSUME NEW pages, NEW ds, DescsOK(pages, ds), NEW s, NEW d, IsDesc(pages, d), NEW dt, DescSet(ds, s, d, dt)
  PROVE  DescsOK(pages, dt)
<1>1. ds = [i \in Slots |-> ds[i]] /\ \A i \in Slots : ds[i] = <<>> \/ IsDesc(pages, ds[i])
  BY DEF DescsOK
<1>2. dt = [i \in Slots |-> dt[i]] /\ \A i \in Slots : dt[i] = ds[i] \/ dt[i] = d
  BY <1>1 DEF DescSet
<1> QED
  BY <1>1, <1>2 DEF DescsOK

\* A descriptor names a page there is.
LEMMA DescriptorIs ==
  ASSUME NEW pages, NEW v, ValidPage(pages, v), NEW k \in 0 .. MaxId, NEW rec, NEW magic, NEW d, d = Descriptor(v, k, rec, magic)
  PROVE  IsDesc(pages, d)
<1> QED
  BY DEF Descriptor, IsDesc

\* The descriptors are as good with other reservations.
LEMMA DescsAlter ==
  ASSUME NEW pages, NEW other, Alters(pages, other), NEW ds, DescsOK(pages, ds)
  PROVE  DescsOK(other, ds)
<1>1. \A v : ValidPage(pages, v) => ValidPage(other, v)
  BY DEF Alters, ValidPage
<1> QED
  BY <1>1 DEF DescsOK, IsDesc

\* A record comes.
LEMMA AskRecord ==
  ASSUME NEW x, NEW f, NEW tk, NEW ds, Ready(x, f, tk, ds),
         NEW other, Alters(x.m_pages, other), SameOffsets(x.m_pages, other), RoomOK(other, x.m_gc),
         NEW id \in {"WRITE", "UPDATE"}, NEW lengths \in ChunkLists, NEW s \in Slots, NEW v \in Page, ValidPage(x.m_pages, v),
         NEW new \in 0 .. MaxId, NEW c, Made(id, lengths, s, v, new, c),
         Written \in Nat, Written < Limit["write"] + Limit["update"],
         RoomFor(x, 1, Len(lengths)), SumOf(lengths) <= FS_PAGE_SIZE_WORDS,
         NEW q, q = x.m_cmd_queue, NEW tl, SpaceOK(other, Append(q, c), tl), NEW dh, dh = x.m_chunk_queue \o Chunks(lengths)
  PROVE  /\ Submittable(x, Now(x, f), Append(q, c), dh, other, x.m_gc, tl, ds)
         /\ IsCmd(c) /\ ~ (c.id = "GC")
<1>1. Layout(x.m_pages, q, x.m_chunk_queue, x.m_gc, x.stack, tk, ds, Now(x, f)) /\ QueueOK(x.m_pages, q, x.m_gc)
      /\ ChunksOK(q, x.m_chunk_queue) /\ IsList(q) /\ IsList(x.m_chunk_queue) /\ BoundsOK(x)
  BY ReadyIs
<1>2. /\ IsCmd(c) /\ CmdOK(x.m_pages, c) /\ Fresh(c) /\ IsStore(c) /\ c.id # "GC" /\ c.vpage_id = v
      /\ c.length_words = SumOf(lengths) /\ c.num_chunks = Len(lengths) /\ c.chunk_offset = 3 /\ c.num_chunks \in Nat
  <2>1. MadeFrom(x.m_pages, id, lengths, s, v, new, c)
    BY DEF MadeFrom
  <2> QED
    BY <2>1, MadeIs DEF IsMade
<1>3. PICK k \in Nat, l \in Nat, m \in Nat : k = Len(lengths) /\ l = Len(x.m_chunk_queue) /\ m = Len(q)
  BY <1>1, LengthsAre, ListIs
<1>4. PICK b \in Nat, qs \in Nat : b = FDS_CHUNK_QUEUE_SIZE /\ qs = FDS_CMD_QUEUE_SIZE
  BY LimitsAre
<1>5. l <= b - k /\ m <= qs - 1
  BY <1>3, <1>4 DEF RoomFor
<1>6. k <= b
  BY <1>5, SMT
<1>7. Brings(c, Chunks(lengths)) /\ Len(Chunks(lengths)) = Len(lengths)
  BY <1>2, <1>3, <1>4, <1>6, ChunksAre
<1>8. \A i \in 1 .. Len(q) : q[i].num_chunks \in Nat
  BY <1>1, QueueWords
<1>9. ChunksOK(Append(q, c), dh)
  BY <1>1, <1>2, <1>7, <1>8, ChunksAppend
<1>10. Asks(q, x.m_gc, c, x.m_gc)
  BY <1>2 DEF Asks
<1>11. Layout(other, Append(q, c), dh, x.m_gc, x.stack, tl, ds, Now(x, f))
  BY <1>1, <1>2, <1>9, <1>10, LayoutAppends
<1>12. Grows(q, Append(q, c), x.m_gc, x.m_gc)
  BY <1>1, <1>2, <1>10, GrowsOne
<1>13. Len(Append(q, c)) <= FDS_CMD_QUEUE_SIZE
  <2>1. Len(Append(q, c)) = m + 1
    BY <1>1, <1>3, ListAppend
  <2>2. m + 1 <= qs
    BY <1>5, SMT
  <2> QED
    BY <1>4, <2>1, <2>2
<1>14. Len(dh) <= FDS_CHUNK_QUEUE_SIZE
  <2>1. IsList(Chunks(lengths))
    BY <1>7 DEF Brings
  <2>4. PICK cs : cs = Chunks(lengths)
    OBVIOUS
  <2>5. PICK ch : ch = x.m_chunk_queue
    OBVIOUS
  <2>6. IsList(ch) /\ IsList(cs) /\ Len(ch) = l /\ Len(cs) = k
    BY <1>1, <1>3, <1>7, <2>1, <2>4, <2>5
  <2>7. Len(ch \o cs) = Len(ch) + Len(cs)
    BY ONLY <2>6, ListConcat
  <2>2. Len(dh) = l + k
    BY <2>4, <2>5, <2>6, <2>7
  <2>3. l + k <= b
    BY <1>5, SMT
  <2> QED
    BY <1>4, <2>2, <2>3
<1> QED
  BY <1>2, <1>11, <1>12, <1>13, <1>14 DEF Submittable

--------------------------------------------------------------------------------

(* The calls that ask for a record. *)

\* A call has returned, and the queue has been looked at.
LEMMA RunsIs ==
  ASSUME NEW x, Runs(x, LAMBDA y : CmdQueueProcessStart(y, flash))
  PROVE  \E k, y : KeptSet(x, k, y) /\ KeptSet(CmdQueueProcessStart(y, flash), FALSE, e')
<1>1. PICK y \in {[x EXCEPT !.kept = kept] : kept \in BOOLEAN} : e' = [CmdQueueProcessStart(y, flash) EXCEPT !.kept = FALSE]
  BY DEF Runs
<1>2. PICK k \in BOOLEAN : y = [x EXCEPT !.kept = k]
  BY <1>1
<1>3. KeptSet(x, k, y)
  BY <1>2 DEF KeptSet
<1>4. PICK no : no = FALSE
  OBVIOUS
<1>5. KeptSet(CmdQueueProcessStart(y, flash), no, e')
  BY <1>1, <1>4 DEF KeptSet
<1> QED
  BY <1>3, <1>4, <1>5

\* Where there is room.
LEMMA RoomIs ==
  ASSUME NEW x, NEW n \in Nat, Spacious(x, n) # {}, NEW p, p = Min(Spacious(x, n)), PagesTyped(x.m_pages)
  PROVE  /\ p \in Page /\ x.m_pages[p].page_type = "VALID"
         /\ \E w \in Nat, m \in Nat : /\ w = x.m_pages[p].write_offset /\ m = x.m_pages[p].words_reserved
                                      /\ w + (m + (3 + n)) < FS_PAGE_SIZE_WORDS
<1>1. \A i \in Page : i \in Nat
  BY PageIs
<1>2. Spacious(x, n) \subseteq Page
  BY DEF Spacious
<1>3. p \in Spacious(x, n)
  BY <1>1, <1>2, MinIs
<1>4. p \in Page /\ Data(x, p).page_type = "VALID" /\ PageHasSpace(x, p, FDS_HEADER_SIZE + n)
  BY <1>3 DEF Spacious
<1>5. IsPage(x.m_pages[p])
  BY <1>4 DEF PagesTyped
<1>6. PICK w \in Nat, m \in Nat : w = x.m_pages[p].write_offset /\ m = x.m_pages[p].words_reserved
  BY <1>5 DEF IsPage
<1>7. PICK l \in Nat : l = FS_PAGE_SIZE_WORDS
  BY Sizes DEF Size
<1>8. (3 + n) + w + m < l
  BY <1>4, <1>6, <1>7 DEF PageHasSpace, Data, FDS_HEADER_SIZE
<1>9. w + (m + (3 + n)) < l
  BY <1>8, SMT
<1> QED
  BY <1>4, <1>6, <1>7, <1>9 DEF Data

ReservedSet(x, p, n, t) == t = Reserved(x, p, n)
IsReserved(x, p, b, t) ==
  /\ Ram(t) /\ FsKept(x, t) /\ t.reported = x.reported /\ t.kept = x.kept
  /\ t.m_cmd_queue = x.m_cmd_queue /\ t.m_chunk_queue = x.m_chunk_queue /\ t.m_gc = x.m_gc
  /\ t.m_last_rec_id = x.m_last_rec_id /\ t.m_flags = x.m_flags /\ t.m_swap_page_avail = x.m_swap_page_avail
  /\ t.stack = x.stack
  /\ Reserves(x.m_pages, t.m_pages, p, b)

\* What changes when words are reserved for a record.
LEMMA ReservedIs ==
  ASSUME NEW x, Ram(x), PagesTyped(x.m_pages), NEW p \in Page, NEW m \in Nat, m = x.m_pages[p].words_reserved, NEW n \in Nat,
         NEW b \in Nat, b = m + (3 + n), NEW t, ReservedSet(x, p, n, t)
  PROVE  IsReserved(x, p, b, t)
<1>1. PICK pages : pages = x.m_pages
  OBVIOUS
<1>3. pages = [i \in Page |-> pages[i]] /\ IsPage(pages[p])
  BY <1>1 DEF PagesTyped
<1>4. PICK d : d = pages[p]
  OBVIOUS
<1>5. d.words_reserved + FDS_HEADER_SIZE + n = b
  BY <1>1, <1>4 DEF FDS_HEADER_SIZE
<1>6. PICK new : new = [pages EXCEPT ![p].words_reserved = b]
  OBVIOUS
<1>7. [pages EXCEPT ![p].words_reserved = @ + FDS_HEADER_SIZE + n] = new
  BY <1>3, <1>4, <1>5, <1>6
<1>8. t = [x EXCEPT !.m_pages = [pages EXCEPT ![p].words_reserved = @ + FDS_HEADER_SIZE + n]]
  BY <1>1 DEF ReservedSet, Reserved
<1>9. t = [x EXCEPT !.m_pages = new]
  BY <1>7, <1>8
<1>10. Ram(t) /\ t.m_pages = new
  BY <1>9 DEF Ram
<1>11. /\ FsKept(x, t) /\ t.reported = x.reported /\ t.kept = x.kept
       /\ t.m_cmd_queue = x.m_cmd_queue /\ t.m_chunk_queue = x.m_chunk_queue /\ t.m_gc = x.m_gc
       /\ t.m_last_rec_id = x.m_last_rec_id /\ t.m_flags = x.m_flags /\ t.m_swap_page_avail = x.m_swap_page_avail
       /\ t.stack = x.stack
  BY <1>9 DEF Ram, FsKept
<1>12. Reserves(pages, new, p, b)
  BY <1>1, <1>6, ReservesIs
<1> QED
  BY <1>1, <1>10, <1>11, <1>12 DEF IsReserved

NewId(x, new) == new = (x.m_last_rec_id + 1) % (MaxId + 1)

\* The number of the next record is within its bound.
LEMMA NewIdIs ==
  ASSUME NEW x, x.m_last_rec_id \in 0 .. MaxId, NEW new, NewId(x, new)
  PROVE  new \in 0 .. MaxId
<1>1. PICK m \in Nat : m = MaxId
  BY FdsAssumption
<1>2. PICK l \in Nat : l = x.m_last_rec_id
  BY <1>1
<1>3. PICK a \in Nat, b \in Nat : a = l + 1 /\ b = m + 1 /\ b > 0
  OBVIOUS
<1>4. new = a % b
  BY <1>1, <1>2, <1>3 DEF NewId
<1>5. a % b \in 0 .. b - 1
  BY <1>3, SMT
<1>6. new \in Int /\ 0 <= new /\ new <= b - 1
  BY <1>4, <1>5
<1>7. b - 1 = m
  BY <1>3, SMT
<1> QED
  BY <1>1, <1>6, <1>7

QueuedSet(x, id, lengths, s, v, t) == t = Queued(x, id, lengths, s, v)
IsQueued(x, new, c, lengths, t) ==
  /\ Ram(t) /\ FsKept(x, t) /\ t.reported = x.reported /\ t.kept = x.kept
  /\ t.m_pages = x.m_pages /\ t.m_gc = x.m_gc /\ t.m_flags = x.m_flags /\ t.m_swap_page_avail = x.m_swap_page_avail
  /\ t.stack = x.stack
  /\ t.m_last_rec_id = new /\ t.m_cmd_queue = Append(x.m_cmd_queue, c)
  /\ t.m_chunk_queue = x.m_chunk_queue \o Chunks(lengths)

\* What changes when the command of a record comes.
LEMMA QueuedIs ==
  ASSUME NEW x, Ram(x), NEW id, NEW lengths, NEW s, NEW v, NEW t, QueuedSet(x, id, lengths, s, v, t)
  PROVE  \E new, c : NewId(x, new) /\ Made(id, lengths, s, v, new, c) /\ IsQueued(x, new, c, lengths, t)
<1>1. PICK new : NewId(x, new)
  BY DEF NewId
<1>2. PICK c : Made(id, lengths, s, v, new, c)
  BY DEF Made
<1>3. t = [x EXCEPT !.m_last_rec_id = new, !.m_cmd_queue = Append(@, c), !.m_chunk_queue = @ \o Chunks(lengths)]
  BY <1>1, <1>2 DEF QueuedSet, Queued, NewId, Made, Chunks
<1>4. PICK q, ch : q = Append(x.m_cmd_queue, c) /\ ch = x.m_chunk_queue \o Chunks(lengths)
  OBVIOUS
<1>5. t = [x EXCEPT !.m_last_rec_id = new, !.m_cmd_queue = q, !.m_chunk_queue = ch]
  BY <1>3, <1>4 DEF Ram
<1>6. /\ Ram(t) /\ FsKept(x, t) /\ t.reported = x.reported /\ t.kept = x.kept
      /\ t.m_pages = x.m_pages /\ t.m_gc = x.m_gc /\ t.m_flags = x.m_flags /\ t.m_swap_page_avail = x.m_swap_page_avail
      /\ t.stack = x.stack /\ t.m_last_rec_id = new /\ t.m_cmd_queue = q /\ t.m_chunk_queue = ch
  BY <1>5 DEF Ram, FsKept
<1>7. IsQueued(x, new, c, lengths, t)
  BY <1>4, <1>6 DEF IsQueued
<1> QED
  BY <1>1, <1>2, <1>7

\* A record is asked for, and y is what is submitted.
Asked(x, y, f, tl, ds, v) ==
  \E r, dh, other, new :
    /\ Submits(x, y, r, dh, other, x.m_gc, new) /\ Submittable(x, Now(x, f), r, dh, other, x.m_gc, tl, ds)
    /\ y.m_last_rec_id = new /\ ValidPage(other, v) /\ Alters(x.m_pages, other)
    /\ IsList(x.m_cmd_queue) /\ Len(r) = Len(x.m_cmd_queue) + 1

\* A record is asked for on a page with room for it.
LEMMA WriteAsked ==
  ASSUME NEW x, NEW f, NEW tk, NEW ds, Ready(x, f, tk, ds),
         NEW id \in {"WRITE", "UPDATE"}, NEW lengths \in ChunkLists, NEW s \in Slots,
         Written \in Nat, Written < Limit["write"] + Limit["update"],
         RoomFor(x, 1, Len(lengths)), Spacious(x, SumOf(lengths)) # {},
         NEW p, p = Min(Spacious(x, SumOf(lengths))),
         NEW t, ReservedSet(x, p, SumOf(lengths), t),
         NEW v, v = x.m_pages[p].vpage_id, NEW y, QueuedSet(t, id, lengths, s, v, y)
  PROVE  Asked(x, y, f, tk, ds, v) /\ p \in Page
<1>1. /\ Ram(x) /\ PagesTyped(x.m_pages) /\ Apart(x.m_pages) /\ RoomOK(x.m_pages, x.m_gc)
      /\ QueueOK(x.m_pages, x.m_cmd_queue, x.m_gc) /\ SpaceOK(x.m_pages, x.m_cmd_queue, tk)
      /\ IsList(x.m_cmd_queue) /\ x.m_last_rec_id \in 0 .. MaxId
  BY ReadyIs
<1>2. PICK n \in Nat : n = SumOf(lengths)
  BY LengthsAre
<1>3. /\ p \in Page /\ x.m_pages[p].page_type = "VALID"
      /\ \E w \in Nat, m \in Nat : /\ w = x.m_pages[p].write_offset /\ m = x.m_pages[p].words_reserved
                                   /\ w + (m + (3 + n)) < FS_PAGE_SIZE_WORDS
  BY SMTT(20), <1>1, <1>2, RoomIs
<1>4. PICK w \in Nat, m \in Nat : /\ w = x.m_pages[p].write_offset /\ m = x.m_pages[p].words_reserved
                                  /\ w + (m + (3 + n)) < FS_PAGE_SIZE_WORDS
  BY <1>3
<1>10. PICK b \in Nat : b = m + (3 + n)
  OBVIOUS
<1>26. ReservedSet(x, p, n, t)
  BY <1>2
<1>27. IsReserved(x, p, b, t)
  BY <1>1, <1>3, <1>4, <1>10, <1>26, ReservedIs
<1>5. /\ Ram(t) /\ FsKept(x, t) /\ t.reported = x.reported
      /\ t.m_cmd_queue = x.m_cmd_queue /\ t.m_chunk_queue = x.m_chunk_queue /\ t.m_gc = x.m_gc
      /\ t.m_last_rec_id = x.m_last_rec_id /\ t.m_flags = x.m_flags /\ t.m_swap_page_avail = x.m_swap_page_avail
      /\ t.stack = x.stack
      /\ Reserves(x.m_pages, t.m_pages, p, b)
  BY <1>27 DEF IsReserved
<1>28. PICK new, c : NewId(t, new) /\ Made(id, lengths, s, v, new, c) /\ IsQueued(t, new, c, lengths, y)
  BY <1>5, QueuedIs
<1>6. /\ NewId(t, new) /\ Made(id, lengths, s, v, new, c)
      /\ y.m_last_rec_id = new /\ y.m_cmd_queue = Append(t.m_cmd_queue, c)
      /\ y.m_chunk_queue = t.m_chunk_queue \o Chunks(lengths)
  BY <1>28 DEF IsQueued
<1>7. /\ Ram(y) /\ FsKept(t, y) /\ y.reported = t.reported
      /\ y.m_pages = t.m_pages /\ y.m_gc = t.m_gc /\ y.m_flags = t.m_flags /\ y.m_swap_page_avail = t.m_swap_page_avail
      /\ y.stack = t.stack
  BY <1>28 DEF IsQueued
<1>8. new \in 0 .. MaxId
  BY <1>1, <1>5, <1>6, NewIdIs
<1>9. PICK other : other = t.m_pages
  OBVIOUS
<1>11. Reserves(x.m_pages, other, p, b)
  BY <1>5, <1>9
<1>12. Alters(x.m_pages, other) /\ SameOffsets(x.m_pages, other)
  BY <1>11 DEF Reserves
<1>13. RoomOK(other, x.m_gc)
  <2>1. w + b < FS_PAGE_SIZE_WORDS
    BY <1>4, <1>10
  <2> QED
    BY <1>1, <1>3, <1>4, <1>11, <2>1, ReservesRoom
<1>14. v \in Page /\ ValidPage(x.m_pages, v)
  <2>1. IsPage(x.m_pages[p])
    BY <1>1, <1>3 DEF PagesTyped
  <2> QED
    BY <1>3, <2>1 DEF IsPage, ValidPage
<1>15. MadeFrom(x.m_pages, id, lengths, s, v, new, c)
  BY <1>6, <1>8, <1>14 DEF MadeFrom
<1>16. IsMade(x.m_pages, c, lengths, v)
  BY <1>15, MadeIs
<1>17. IsCmd(c) /\ IsStore(c) /\ c.vpage_id = x.m_pages[p].vpage_id /\ c.length_words = n
  BY <1>2, <1>16 DEF IsMade
<1>18. PICK q, dh : q = x.m_cmd_queue /\ dh = x.m_chunk_queue \o Chunks(lengths)
  OBVIOUS
<1>19. SpaceOK(other, Append(q, c), tk)
  BY <1>1, <1>3, <1>4, <1>5, <1>9, <1>10, <1>17, <1>18, SpaceStore
<1>20. SumOf(lengths) <= FS_PAGE_SIZE_WORDS
  <2>1. PICK l \in Nat : l = FS_PAGE_SIZE_WORDS
    BY Sizes DEF Size
  <2>2. n <= l
    BY SMTT(20), <1>4, <2>1
  <2> QED
    BY <1>2, <2>1, <2>2
<1>21. Submittable(x, Now(x, f), Append(q, c), dh, other, x.m_gc, tk, ds)
  BY <1>6, <1>8, <1>12, <1>13, <1>14, <1>18, <1>19, <1>20, AskRecord
<1>22. PICK r : r = Append(q, c)
  OBVIOUS
<1>23. Len(r) = Len(x.m_cmd_queue) + 1
  BY <1>1, <1>18, <1>22, ListAppend
<1>24. Submits(x, y, r, dh, other, x.m_gc, new)
  <2>1. FsKept(x, y) /\ y.reported = x.reported
    BY <1>5, <1>7 DEF FsKept
  <2> QED
    BY <1>5, <1>6, <1>7, <1>8, <1>9, <1>18, <1>22, <2>1 DEF Submits
<1>25. ValidPage(other, v)
  BY <1>12, <1>14 DEF ValidPage, Alters
<1> QED
  BY <1>1, <1>3, <1>6, <1>12, <1>21, <1>22, <1>23, <1>24, <1>25 DEF Asked

Steady(x, f, u, tk, ds) == Settles(x, f, tk, ds) /\ FlashOK(f) /\ UsedOK(u)

\* With other descriptors.
LEMMA Redescribed ==
  ASSUME NEW x, NEW g, NEW r, NEW dh, NEW other, NEW after, NEW tk, NEW ds, Submittable(x, g, r, dh, other, after, tk, ds),
         NEW s, NEW d, NEW v, NEW k \in 0 .. MaxId, NEW rec, NEW magic, d = Descriptor(v, k, rec, magic), ValidPage(other, v),
         NEW dt, DescSet(ds, s, d, dt)
  PROVE  Submittable(x, g, r, dh, other, after, tk, dt)
<1>1. Layout(other, r, dh, after, x.stack, tk, ds, g)
  BY DEF Submittable
<1>2. DescsOK(other, ds)
  BY <1>1 DEF Layout
<1>3. IsDesc(other, d)
  BY DescriptorIs
<1>4. DescsOK(other, dt)
  BY <1>2, <1>3, DescSetIs
<1>5. Layout(other, r, dh, after, x.stack, tk, dt, g)
  BY <1>1, <1>4, LayoutDescs
<1> QED
  BY <1>5 DEF Submittable

\* The record is submitted.
LEMMA AskedSettles ==
  ASSUME NEW x, NEW f, NEW tk, NEW ds, Ready(x, f, tk, ds),
         NEW y, NEW tl, NEW v, Asked(x, y, f, tl, ds, v),
         NEW s, NEW d, NEW rec, NEW magic, d = Descriptor(v, y.m_last_rec_id, rec, magic), NEW dt, DescSet(ds, s, d, dt),
         NEW k, NEW w, KeptSet(y, k, w), NEW z, KeptSet(CmdQueueProcessStart(w, f), FALSE, z)
  PROVE  Settles(z, f, tl, dt)
<1>1. PICK r, dh, other, new :
        /\ Submits(x, y, r, dh, other, x.m_gc, new) /\ Submittable(x, Now(x, f), r, dh, other, x.m_gc, tl, ds)
        /\ y.m_last_rec_id = new /\ ValidPage(other, v)
  BY DEF Asked
<1>2. new \in 0 .. MaxId
  BY <1>1 DEF Submits
<1>3. PICK g, after : g = Now(x, f) /\ after = x.m_gc
  OBVIOUS
<1>4. Submittable(x, g, r, dh, other, after, tl, dt)
  BY <1>1, <1>2, <1>3, Redescribed
<1>5. Settles(x, f, tk, ds) /\ FlashOK(f) /\ "INITIALIZED" \in x.m_flags
  BY DEF Ready
<1> QED
  BY <1>1, <1>3, <1>4, <1>5, Submitted

\* fds_record_write() keeps the invariant.
LEMMA FdsWriteOK ==
  ASSUME Steady(e, flash, used, token, desc), NEW s \in Slots, FdsWrite(s)
  PROVE  Steady(e', flash', used', token', desc')
<1>1. Settles(e, flash, token, desc) /\ FlashOK(flash) /\ UsedOK(used)
  BY DEF Steady
<1>14. PICK lengths \in ChunkLists :
         LET room == Spacious(e, SumOf(lengths))
             p == Min(room)
             x == Queued(Reserved(e, p, SumOf(lengths)), "WRITE", lengths, s, Data(e, p).vpage_id)
         IN /\ RoomFor(e, 1, Len(lengths)) /\ room # {}
            /\ Runs(x, LAMBDA y : CmdQueueProcessStart(y, flash))
            /\ desc' = [desc EXCEPT ![s] = Descriptor(Data(e, p).vpage_id, x.m_last_rec_id, NULL, 0)]
  BY DEF FdsWrite
<1>15. PICK room : room = Spacious(e, SumOf(lengths))
  OBVIOUS
<1>16. PICK p : p = Min(room)
  OBVIOUS
<1>17. PICK v : v = Data(e, p).vpage_id
  OBVIOUS
<1>18. PICK x : x = Queued(Reserved(e, p, SumOf(lengths)), "WRITE", lengths, s, v)
  OBVIOUS
<1>2. /\ RoomFor(e, 1, Len(lengths)) /\ room # {} /\ Runs(x, LAMBDA y : CmdQueueProcessStart(y, flash))
      /\ desc' = [desc EXCEPT ![s] = Descriptor(v, x.m_last_rec_id, NULL, 0)]
  BY <1>14, <1>15, <1>16, <1>17, <1>18
<1>3. "INITIALIZED" \in e.m_flags /\ Spend("write") /\ flash' = flash /\ token' = token
  BY DEF FdsWrite, Initialized
<1>4. /\ UsedOK(used') /\ used["write"] < Limit["write"]
  BY <1>1, <1>3, SpendIs, LimitKinds
<1>5. Ready(e, flash, token, desc)
  BY <1>1, <1>3 DEF Ready
<1>6. Written \in Nat /\ Written < Limit["write"] + Limit["update"]
  BY <1>1, <1>4, WrittenIs
<1>7. PICK t : ReservedSet(e, p, SumOf(lengths), t)
  BY DEF ReservedSet
<1>8. QueuedSet(t, "WRITE", lengths, s, v, x)
  BY <1>18, <1>7 DEF ReservedSet, QueuedSet
<1>9. Asked(e, x, flash, token, desc, v)
  BY <1>2, <1>5, <1>6, <1>7, <1>8, <1>15, <1>16, <1>17, WriteAsked DEF Data
<1>10. PICK k, y : KeptSet(x, k, y) /\ KeptSet(CmdQueueProcessStart(y, flash), FALSE, e')
  BY <1>2, RunsIs
<1>11. PICK d, rec, magic : rec = NULL /\ magic = 0 /\ d = Descriptor(v, x.m_last_rec_id, rec, magic)
  OBVIOUS
<1>12. DescSet(desc, s, d, desc')
  BY <1>2, <1>11 DEF DescSet
<1>13. Settles(e', flash, token, desc')
  BY <1>5, <1>9, <1>10, <1>11, <1>12, AskedSettles
<1> QED
  BY <1>1, <1>3, <1>4, <1>13 DEF Steady

\* Commands come.
Comes(x, y, f, tl, ds) ==
  \E r, dh, other, after, new :
    Submits(x, y, r, dh, other, after, new) /\ Submittable(x, Now(x, f), r, dh, other, after, tl, ds)

\* Commands that come keep the invariant, whether or not the queue was at work.
LEMMA ComesSettles ==
  ASSUME NEW x, NEW f, NEW tk, NEW ds, Ready(x, f, tk, ds),
         NEW y, NEW tl, NEW dt, Comes(x, y, f, tl, dt),
         NEW k, NEW w, KeptSet(y, k, w), NEW z, KeptSet(CmdQueueProcessStart(w, f), FALSE, z)
  PROVE  Settles(z, f, tl, dt)
<1>1. PICK r, dh, other, after, new :
        Submits(x, y, r, dh, other, after, new) /\ Submittable(x, Now(x, f), r, dh, other, after, tl, dt)
  BY DEF Comes
<1>2. Settles(x, f, tk, ds) /\ FlashOK(f) /\ "INITIALIZED" \in x.m_flags
  BY DEF Ready
<1> QED
  BY <1>1, <1>2, Submitted

\* With other descriptors.
LEMMA ComesDescribed ==
  ASSUME NEW x, NEW y, NEW f, NEW tl, NEW ds, Comes(x, y, f, tl, ds), NEW v, ValidPage(x.m_pages, v),
         NEW s, NEW d, NEW k \in 0 .. MaxId, NEW rec, NEW magic, d = Descriptor(v, k, rec, magic),
         NEW dt, DescSet(ds, s, d, dt)
  PROVE  Comes(x, y, f, tl, dt)
<1>1. PICK r, dh, other, after, new :
        Submits(x, y, r, dh, other, after, new) /\ Submittable(x, Now(x, f), r, dh, other, after, tl, ds)
  BY DEF Comes
<1>2. Alters(x.m_pages, other)
  BY <1>1 DEF Submittable
<1>3. ValidPage(other, v)
  BY <1>2 DEF ValidPage, Alters
<1>4. PICK g : g = Now(x, f)
  OBVIOUS
<1>5. Submittable(x, g, r, dh, other, after, tl, dt)
  BY <1>1, <1>3, <1>4, Redescribed
<1> QED
  BY <1>1, <1>4, <1>5 DEF Comes

\* The command of a record comes.
LEMMA AskedComes ==
  ASSUME NEW x, NEW y, NEW f, NEW tl, NEW ds, NEW v, Asked(x, y, f, tl, ds, v)
  PROVE  Comes(x, y, f, tl, ds) /\ ValidPage(x.m_pages, v)
<1>1. PICK r, dh, other, new :
        /\ Submits(x, y, r, dh, other, x.m_gc, new) /\ Submittable(x, Now(x, f), r, dh, other, x.m_gc, tl, ds)
        /\ ValidPage(other, v) /\ Alters(x.m_pages, other)
  BY DEF Asked
<1>2. PICK after : after = x.m_gc
  OBVIOUS
<1>3. Comes(x, y, f, tl, ds)
  BY <1>1, <1>2 DEF Comes
<1>4. ValidPage(x.m_pages, v)
  BY <1>1 DEF ValidPage, Alters
<1> QED
  BY <1>3, <1>4

QueueMore(y, c, t) == t = [y EXCEPT !.m_cmd_queue = Append(@, c)]

\* What changes when another command comes.
LEMMA QueueMoreIs ==
  ASSUME NEW y, Ram(y), NEW c, NEW t, QueueMore(y, c, t)
  PROVE  /\ Ram(t) /\ FsKept(y, t) /\ t.reported = y.reported /\ t.m_cmd_queue = Append(y.m_cmd_queue, c)
         /\ t.m_chunk_queue = y.m_chunk_queue /\ t.m_pages = y.m_pages /\ t.m_gc = y.m_gc
         /\ t.m_last_rec_id = y.m_last_rec_id /\ t.m_flags = y.m_flags /\ t.m_swap_page_avail = y.m_swap_page_avail
         /\ t.stack = y.stack
<1>1. PICK r : r = Append(y.m_cmd_queue, c)
  OBVIOUS
<1>2. t = [y EXCEPT !.m_cmd_queue = r]
  BY <1>1 DEF QueueMore
<1> QED
  BY <1>1, <1>2 DEF Ram, FsKept

\* The clearing of the old record comes behind the new one.
LEMMA ClearAsked ==
  ASSUME NEW x, NEW y, NEW f, NEW tl, NEW ds, NEW v, Asked(x, y, f, tl, ds, v), NEW n, RoomFor(x, 2, n),
         NEW i \in Page, ValidPage(x.m_pages, i), NEW k \in 0 .. MaxId, NEW c, Clears(i, k, c), NEW t, QueueMore(y, c, t)
  PROVE  Comes(x, t, f, tl, ds)
<1>1. PICK r, dh, other, new :
        /\ Submits(x, y, r, dh, other, x.m_gc, new) /\ Submittable(x, Now(x, f), r, dh, other, x.m_gc, tl, ds)
        /\ Alters(x.m_pages, other) /\ IsList(x.m_cmd_queue) /\ Len(r) = Len(x.m_cmd_queue) + 1
  BY DEF Asked
<1>2. PICK gc, g, stack : gc = x.m_gc /\ g = Now(x, f) /\ stack = x.stack
  OBVIOUS
<1>3. /\ Alters(x.m_pages, other) /\ SameOffsets(x.m_pages, other) /\ Grows(x.m_cmd_queue, r, gc, gc)
      /\ Len(dh) <= FDS_CHUNK_QUEUE_SIZE /\ Layout(other, r, dh, gc, stack, tl, ds, g)
  BY <1>1, <1>2 DEF Submittable
<1>4. /\ PagesOK(other, r, gc, g) /\ QueueOK(other, r, gc) /\ ChunksOK(r, dh) /\ SpaceOK(other, r, tl)
  BY <1>3 DEF Layout
<1>5. PagesTyped(other) /\ RoomOK(other, gc)
  BY <1>4 DEF PagesOK
<1>6. Alters(other, other) /\ SameOffsets(other, other)
  BY <1>5 DEF Alters, SameOffsets
<1>7. ValidPage(other, i)
  BY <1>3 DEF ValidPage, Alters
<1>8. IsCmd(c) /\ CmdOK(other, c) /\ Fresh(c) /\ ~IsStore(c) /\ c.id = "CLEAR" /\ c.num_chunks \in Nat
  BY <1>7, ClearIs
<1>9. IsList(r)
  BY <1>4 DEF QueueOK
<1>10. \A j \in 1 .. Len(r) : r[j].num_chunks \in Nat
  BY <1>4, QueueWords
<1>11. ChunksOK(Append(r, c), dh)
  BY <1>4, <1>8, <1>9, <1>10, ChunksPlus
<1>12. SpaceOK(other, Append(r, c), tl)
  BY <1>4, <1>5, <1>8, SpacePlain
<1>13. Asks(r, gc, c, gc)
  BY <1>8 DEF Asks
<1>14. Layout(other, Append(r, c), dh, gc, stack, tl, ds, g)
  BY <1>3, <1>5, <1>6, <1>8, <1>11, <1>12, <1>13, LayoutAppends
<1>15. Grows(x.m_cmd_queue, Append(r, c), gc, gc)
  BY <1>3, GrowsMore
<1>16. Len(Append(r, c)) <= FDS_CMD_QUEUE_SIZE
  <2>1. PICK l \in Nat, m \in Nat, qs \in Nat : l = Len(r) /\ m = Len(x.m_cmd_queue) /\ qs = FDS_CMD_QUEUE_SIZE
    BY <1>1, <1>9, ListIs, LimitsAre
  <2>2. m <= qs - 2 /\ l = m + 1
    BY <1>1, <2>1 DEF RoomFor
  <2>3. l + 1 <= qs
    BY <2>2, SMT
  <2>4. Len(Append(r, c)) = l + 1
    BY <1>9, <2>1, ListAppend
  <2> QED
    BY <2>1, <2>3, <2>4
<1>17. PICK u : u = Append(r, c)
  OBVIOUS
<1>18. Submittable(x, g, u, dh, other, gc, tl, ds)
  BY <1>2, <1>3, <1>14, <1>15, <1>16, <1>17 DEF Submittable
<1>19. Submits(x, t, u, dh, other, gc, new)
  <2>1. /\ Ram(y) /\ FsKept(x, y) /\ y.reported = x.reported
        /\ y.m_cmd_queue = r /\ y.m_chunk_queue = dh /\ y.m_pages = other /\ y.m_gc = gc
        /\ y.m_last_rec_id = new /\ new \in 0 .. MaxId
        /\ y.m_flags = x.m_flags /\ y.m_swap_page_avail = x.m_swap_page_avail /\ y.stack = x.stack
    BY <1>1, <1>2 DEF Submits
  <2>2. /\ Ram(t) /\ FsKept(y, t) /\ t.reported = y.reported /\ t.m_cmd_queue = Append(y.m_cmd_queue, c)
        /\ t.m_chunk_queue = y.m_chunk_queue /\ t.m_pages = y.m_pages /\ t.m_gc = y.m_gc
        /\ t.m_last_rec_id = y.m_last_rec_id /\ t.m_flags = y.m_flags /\ t.m_swap_page_avail = y.m_swap_page_avail
        /\ t.stack = y.stack
    BY <2>1, QueueMoreIs
  <2>3. FsKept(x, t)
    BY <2>1, <2>2 DEF FsKept
  <2> QED
    BY <1>17, <2>1, <2>2, <2>3 DEF Submits
<1> QED
  BY <1>2, <1>18, <1>19 DEF Comes

\* fds_record_update() keeps the invariant.
LEMMA FdsUpdateOK ==
  ASSUME Steady(e, flash, used, token, desc), NEW s \in Slots, FdsUpdate(s)
  PROVE  Steady(e', flash', used', token', desc')
<1>1. Settles(e, flash, token, desc) /\ FlashOK(flash) /\ UsedOK(used)
  BY DEF Steady
<1>2. PICK lengths \in ChunkLists :
         LET room == Spacious(e, SumOf(lengths))
             p == Min(room)
             x == Queued(Reserved(e, p, SumOf(lengths)), "UPDATE", lengths, s, Data(e, p).vpage_id)
             c == [Command("CLEAR", "CLEAR_TL") EXCEPT
                     !.vpage_id = desc[s].vpage_id, !.record_id = desc[s].record_id]
         IN /\ RoomFor(e, 2, Len(lengths)) /\ room # {}
            /\ Runs([x EXCEPT !.m_cmd_queue = Append(@, c)],
                    LAMBDA y : CmdQueueProcessStart(y, flash))
            /\ desc' = [desc EXCEPT ![s].vpage_id = Data(e, p).vpage_id]
  BY DEF FdsUpdate
<1>3. /\ "INITIALIZED" \in e.m_flags /\ Spend("update") /\ flash' = flash /\ token' = token
      /\ desc[s] # <<>>
  BY DEF FdsUpdate, Initialized
<1>4. /\ UsedOK(used') /\ used["update"] < Limit["update"]
  BY <1>1, <1>3, SpendIs, LimitKinds
<1>5. Ready(e, flash, token, desc)
  BY <1>1, <1>3 DEF Ready
<1>6. Written \in Nat /\ Written < Limit["write"] + Limit["update"]
  BY <1>1, <1>4, WrittenIs
<1>7. PICK room : room = Spacious(e, SumOf(lengths))
  OBVIOUS
<1>8. PICK p : p = Min(room)
  OBVIOUS
<1>9. PICK v : v = Data(e, p).vpage_id
  OBVIOUS
<1>10. PICK t : ReservedSet(e, p, SumOf(lengths), t)
  BY DEF ReservedSet
<1>11. PICK x : QueuedSet(t, "UPDATE", lengths, s, v, x)
  BY DEF QueuedSet
<1>12. PICK i, k : i = desc[s].vpage_id /\ k = desc[s].record_id
  OBVIOUS
<1>13. PICK c : Clears(i, k, c)
  BY DEF Clears
<1>14. PICK y : QueueMore(x, c, y)
  BY DEF QueueMore
<1>15. /\ RoomFor(e, 2, Len(lengths)) /\ room # {}
       /\ Runs(y, LAMBDA z : CmdQueueProcessStart(z, flash))
       /\ desc' = [desc EXCEPT ![s].vpage_id = v]
  BY <1>2, <1>7, <1>8, <1>9, <1>10, <1>11, <1>12, <1>13, <1>14 DEF ReservedSet, QueuedSet, Clears, QueueMore
<1>16. RoomFor(e, 1, Len(lengths))
  <2>1. IsList(e.m_cmd_queue)
    BY <1>5, ReadyIs
  <2>2. PICK m \in Nat, qs \in Nat : m = Len(e.m_cmd_queue) /\ qs = FDS_CMD_QUEUE_SIZE
    BY <2>1, ListIs, LimitsAre
  <2>3. m <= qs - 2
    BY <1>15, <2>2 DEF RoomFor
  <2>4. m <= qs - 1
    BY <2>3, SMT
  <2> QED
    BY <1>15, <2>2, <2>4 DEF RoomFor
<1>17. Asked(e, x, flash, token, desc, v)
  BY <1>5, <1>6, <1>7, <1>8, <1>9, <1>10, <1>11, <1>15, <1>16, WriteAsked DEF Data
<1>18. DescsOK(e.m_pages, desc) /\ PagesTyped(e.m_pages)
  BY <1>5, ReadyIs
<1>19. IsDesc(e.m_pages, desc[s])
  BY <1>3, <1>18 DEF DescsOK
<1>20. ValidPage(e.m_pages, i) /\ k \in 0 .. MaxId /\ i \in Page
  BY <1>12, <1>18, <1>19 DEF IsDesc, ValidPage, PagesTyped, IsPage
<1>21. Comes(e, y, flash, token, desc)
  BY <1>13, <1>14, <1>15, <1>17, <1>20, ClearAsked
<1>22. PICK d, rec, magic : rec = desc[s].p_rec /\ magic = desc[s].gc_magic /\ d = Descriptor(v, k, rec, magic)
  OBVIOUS
<1>23. d = [desc[s] EXCEPT !.vpage_id = v]
  BY <1>12, <1>19, <1>22 DEF IsDesc, Descriptor
<1>24. desc = [j \in Slots |-> desc[j]]
  BY <1>18 DEF DescsOK
<1>25. DescSet(desc, s, d, desc')
  BY <1>15, <1>23, <1>24 DEF DescSet
<1>26. ValidPage(e.m_pages, v)
  BY <1>17, AskedComes
<1>27. Comes(e, y, flash, token, desc')
  BY <1>20, <1>21, <1>22, <1>25, <1>26, ComesDescribed
<1>28. PICK kept, w : KeptSet(y, kept, w) /\ KeptSet(CmdQueueProcessStart(w, flash), FALSE, e')
  BY <1>15, RunsIs
<1>29. Settles(e', flash, token, desc')
  BY <1>5, <1>27, <1>28, ComesSettles
<1> QED
  BY <1>1, <1>3, <1>4, <1>29 DEF Steady

--------------------------------------------------------------------------------

(* Clearing, and collecting. *)
Joins(x, c, after, t) == t = [x EXCEPT !.m_cmd_queue = Append(@, c), !.m_gc = after]

\* What changes when a command comes that takes no chunks.
LEMMA JoinsIs ==
  ASSUME NEW x, Ram(x), NEW c, NEW after, NEW t, Joins(x, c, after, t)
  PROVE  /\ Ram(t) /\ FsKept(x, t) /\ t.reported = x.reported /\ t.m_cmd_queue = Append(x.m_cmd_queue, c)
         /\ t.m_chunk_queue = x.m_chunk_queue /\ t.m_pages = x.m_pages /\ t.m_gc = after
         /\ t.m_last_rec_id = x.m_last_rec_id /\ t.m_flags = x.m_flags /\ t.m_swap_page_avail = x.m_swap_page_avail
         /\ t.stack = x.stack
<1>1. PICK r : r = Append(x.m_cmd_queue, c)
  OBVIOUS
<1>2. t = [x EXCEPT !.m_cmd_queue = r, !.m_gc = after]
  BY <1>1 DEF Joins
<1> QED
  BY <1>1, <1>2 DEF Ram, FsKept

\* A command without chunks comes.
LEMMA PlainComes ==
  ASSUME NEW x, NEW f, NEW tk, NEW ds, Ready(x, f, tk, ds), NEW n, RoomFor(x, 1, n),
         NEW c, CmdOK(x.m_pages, c), IsCmd(c), Fresh(c), ~IsStore(c), c.num_chunks \in Nat,
         NEW after, Asks(x.m_cmd_queue, x.m_gc, c, after), NEW t, Joins(x, c, after, t)
  PROVE  Comes(x, t, f, tk, ds)
<1>1. PICK pages, q, ch, gc, g, stack :
        /\ pages = x.m_pages /\ q = x.m_cmd_queue /\ ch = x.m_chunk_queue /\ gc = x.m_gc /\ g = Now(x, f) /\ stack = x.stack
  OBVIOUS
<1>2. /\ Ram(x) /\ BoundsOK(x) /\ x.m_last_rec_id \in 0 .. MaxId /\ PagesTyped(pages) /\ RoomOK(pages, gc)
      /\ Layout(pages, q, ch, gc, stack, tk, ds, g) /\ QueueOK(pages, q, gc) /\ ChunksOK(q, ch) /\ SpaceOK(pages, q, tk)
      /\ IsList(q)
  BY <1>1, ReadyIs
<1>3. Alters(pages, pages) /\ SameOffsets(pages, pages)
  BY <1>2 DEF Alters, SameOffsets
<1>4. \A j \in 1 .. Len(q) : q[j].num_chunks \in Nat
  BY <1>2, QueueWords
<1>5. ChunksOK(Append(q, c), ch)
  BY <1>2, <1>4, ChunksPlus
<1>6. SpaceOK(pages, Append(q, c), tk)
  BY <1>2, SpacePlain
<1>7. Asks(q, gc, c, after) /\ CmdOK(pages, c)
  BY <1>1
<1>8. Layout(pages, Append(q, c), ch, after, stack, tk, ds, g)
  BY <1>2, <1>3, <1>5, <1>6, <1>7, LayoutAppends
<1>9. Grows(q, Append(q, c), gc, after)
  BY <1>2, <1>7, GrowsOne
<1>10. Len(Append(q, c)) <= FDS_CMD_QUEUE_SIZE
  <2>1. PICK m \in Nat, qs \in Nat : m = Len(q) /\ qs = FDS_CMD_QUEUE_SIZE
    BY <1>2, ListIs, LimitsAre
  <2>2. m <= qs - 1
    BY <1>1, <2>1 DEF RoomFor
  <2>3. m + 1 <= qs
    BY <2>2, SMT
  <2>4. Len(Append(q, c)) = m + 1
    BY <1>2, <2>1, ListAppend
  <2> QED
    BY <2>1, <2>3, <2>4
<1>11. Len(ch) <= FDS_CHUNK_QUEUE_SIZE
  BY <1>1, <1>2 DEF BoundsOK
<1>12. PICK u : u = Append(q, c)
  OBVIOUS
<1>13. Submittable(x, g, u, ch, pages, after, tk, ds)
  BY <1>1, <1>3, <1>8, <1>9, <1>10, <1>11, <1>12 DEF Submittable
<1>14. PICK new : new = x.m_last_rec_id
  OBVIOUS
<1>15. Submits(x, t, u, ch, pages, after, new)
  BY <1>1, <1>2, <1>12, <1>14, JoinsIs DEF Submits
<1> QED
  BY <1>1, <1>13, <1>15 DEF Comes

\* What the collector is left with.
Begun2(gc, c, after) ==
  /\ c.id # "GC" => after = gc
  /\ c.id = "GC" => Collects(after, "BEGIN", gc.cur_page, gc.swap_page, gc.p_scan_addr, gc.do_gc_page)

\* A command without chunks is put into the queue.
LEMMA EnqueueIs ==
  ASSUME Ram(e), IsGc(e.m_gc), NEW c, NEW kind, Enqueue(c, kind)
  PROVE  \E after, t : /\ Joins(e, c, after, t) /\ Begun2(e.m_gc, c, after)
                       /\ Runs(t, LAMBDA y : CmdQueueProcessStart(y, flash))
<1>1. PICK x : /\ x = [e EXCEPT !.m_cmd_queue = Append(@, c), !.m_gc.state = IF c.id = "GC" THEN "BEGIN" ELSE @]
               /\ Runs(x, LAMBDA y : CmdQueueProcessStart(y, flash))
  BY DEF Enqueue
<1>2. PICK gc, r : gc = e.m_gc /\ r = Append(e.m_cmd_queue, c)
  OBVIOUS
<1>3. PICK state : state = IF c.id = "GC" THEN "BEGIN" ELSE gc.state
  OBVIOUS
<1>4. PICK after : after = [gc EXCEPT !.state = state]
  OBVIOUS
<1>5. gc = [state |-> gc.state, cur_page |-> gc.cur_page, swap_page |-> gc.swap_page,
            p_scan_addr |-> gc.p_scan_addr, do_gc_page |-> gc.do_gc_page]
  BY <1>2 DEF IsGc
<1>6. after = [state |-> state, cur_page |-> gc.cur_page, swap_page |-> gc.swap_page,
               p_scan_addr |-> gc.p_scan_addr, do_gc_page |-> gc.do_gc_page]
  BY <1>4, <1>5
<1>7. Begun2(e.m_gc, c, after)
  <2>1. CASE c.id = "GC"
    BY <1>2, <1>3, <1>6, <2>1 DEF Begun2, Collects
  <2>2. CASE c.id # "GC"
    BY <1>2, <1>3, <1>5, <1>6, <2>2 DEF Begun2
  <2> QED
    BY <2>1, <2>2
<1>8. x = [e EXCEPT !.m_cmd_queue = r, !.m_gc = after]
  <2>1. [gc EXCEPT !.state = IF c.id = "GC" THEN "BEGIN" ELSE @] = after
    BY <1>3, <1>4, <1>5
  <2>2. x = [e EXCEPT !.m_cmd_queue = r, !.m_gc = [gc EXCEPT !.state = IF c.id = "GC" THEN "BEGIN" ELSE @]]
    BY <1>1, <1>2 DEF Ram
  <2> QED
    BY <2>1, <2>2
<1>9. Joins(e, c, after, x)
  BY <1>2, <1>8 DEF Joins, Ram
<1> QED
  BY <1>1, <1>7, <1>9

\* A command that brings no record.
LEMMA EnqueueOK ==
  ASSUME Steady(e, flash, used, token, desc), NEW kind \in DOMAIN Limit, kind # "all",
         NEW c, Enqueue(c, kind), CmdOK(e.m_pages, c), IsCmd(c), Fresh(c), ~IsStore(c), c.num_chunks \in Nat,
         c.id = "GC" => ~Collecting(e)
  PROVE  Steady(e', flash', used', token', desc')
<1>1. Settles(e, flash, token, desc) /\ FlashOK(flash) /\ UsedOK(used)
  BY DEF Steady
<1>2. /\ "INITIALIZED" \in e.m_flags /\ Spend(kind) /\ flash' = flash /\ token' = token /\ desc' = desc
      /\ RoomFor(e, 1, 0)
  BY DEF Enqueue, Initialized, client
<1>3. UsedOK(used')
  BY <1>1, <1>2, SpendIs, LimitKinds
<1>4. Ready(e, flash, token, desc)
  BY <1>1, <1>2 DEF Ready
<1>5. Ram(e) /\ IsGc(e.m_gc) /\ IsList(e.m_cmd_queue)
  BY <1>4, ReadyIs
<1>6. PICK after, t : /\ Joins(e, c, after, t) /\ Begun2(e.m_gc, c, after)
                      /\ Runs(t, LAMBDA y : CmdQueueProcessStart(y, flash))
  BY <1>5, EnqueueIs
<1>7. Asks(e.m_cmd_queue, e.m_gc, c, after)
  <2>1. CASE c.id # "GC"
    BY <1>6, <2>1 DEF Asks, Begun2
  <2>2. CASE c.id = "GC"
    <3>1. \A n \in 1 .. Len(e.m_cmd_queue) : e.m_cmd_queue[n].id # "GC"
      <4>1. DOMAIN e.m_cmd_queue = 1 .. Len(e.m_cmd_queue)
        BY <1>5, ListIs
      <4> QED
        BY <2>2, <4>1 DEF Collecting
    <3> QED
      BY <1>6, <2>2, <3>1 DEF Asks, Begun2
  <2> QED
    BY <2>1, <2>2
<1>8. PICK n : n = 0
  OBVIOUS
<1>9. RoomFor(e, 1, n)
  BY <1>2, <1>8
<1>10. Comes(e, t, flash, token, desc)
  BY <1>4, <1>6, <1>7, <1>9, PlainComes
<1>11. PICK kept, w : KeptSet(t, kept, w) /\ KeptSet(CmdQueueProcessStart(w, flash), FALSE, e')
  BY <1>6, RunsIs
<1>12. Settles(e', flash, token, desc)
  BY <1>4, <1>10, <1>11, ComesSettles
<1> QED
  BY <1>1, <1>2, <1>3, <1>12 DEF Steady

\* fds_record_delete() keeps the invariant.
LEMMA FdsClearOK ==
  ASSUME Steady(e, flash, used, token, desc), NEW s \in Slots, FdsClear(s)
  PROVE  Steady(e', flash', used', token', desc')
<1>1. PICK i, k : i = desc[s].vpage_id /\ k = desc[s].record_id
  OBVIOUS
<1>2. PICK c : Clears(i, k, c)
  BY DEF Clears
<1>3. desc[s] # <<>> /\ Enqueue(c, "clear")
  BY <1>1, <1>2 DEF FdsClear, Clears
<1>4. Ready(e, flash, token, desc)
  BY <1>3 DEF Ready, Steady, Enqueue, Initialized
<1>5. DescsOK(e.m_pages, desc) /\ PagesTyped(e.m_pages)
  BY <1>4, ReadyIs
<1>6. IsDesc(e.m_pages, desc[s])
  BY <1>3, <1>5 DEF DescsOK
<1>7. ValidPage(e.m_pages, i) /\ k \in 0 .. MaxId /\ i \in Page
  BY <1>1, <1>5, <1>6 DEF IsDesc, ValidPage, PagesTyped, IsPage
<1>8. PICK pages : pages = e.m_pages
  OBVIOUS
<1>9. IsCmd(c) /\ CmdOK(pages, c) /\ Fresh(c) /\ ~IsStore(c) /\ c.id = "CLEAR" /\ c.num_chunks \in Nat
  BY <1>2, <1>7, <1>8, ClearIs
<1>10. PICK kind : kind = "clear"
  OBVIOUS
<1>11. kind \in DOMAIN Limit /\ kind # "all"
  BY <1>10, LimitKinds
<1> QED
  BY <1>3, <1>8, <1>9, <1>10, <1>11, EnqueueOK

\* Clearing an instance keeps the invariant.
LEMMA FdsClearByInstanceOK ==
  ASSUME Steady(e, flash, used, token, desc), NEW s \in Slots, FdsClearByInstance(s)
  PROVE  Steady(e', flash', used', token', desc')
<1>1. PICK c : c = [Command("CLEAR_INST", "CLEAR_INSTANCE") EXCEPT !.instance = s]
  OBVIOUS
<1>2. Enqueue(c, "clear_inst")
  BY <1>1 DEF FdsClearByInstance
<1>3. PICK pages : pages = e.m_pages
  OBVIOUS
<1>4. IsCmd(c) /\ CmdOK(pages, c) /\ Fresh(c) /\ ~IsStore(c) /\ c.num_chunks \in Nat
  BY <1>1, OthersAre
<1>5. c.id = "CLEAR_INST"
  BY <1>1 DEF Command
<1>6. PICK kind : kind = "clear_inst"
  OBVIOUS
<1>7. kind \in DOMAIN Limit /\ kind # "all"
  BY <1>6, LimitKinds
<1> QED
  BY <1>2, <1>3, <1>4, <1>5, <1>6, <1>7, EnqueueOK

\* fds_gc() keeps the invariant, of a client that waits for the collection under way.
LEMMA FdsGcOK ==
  ASSUME Steady(e, flash, used, token, desc), Patient, FdsGc
  PROVE  Steady(e', flash', used', token', desc')
<1>1. PICK c : c = Command("GC", "NONE")
  OBVIOUS
<1>2. Enqueue(c, "gc") /\ ~Collecting(e)
  BY <1>1 DEF FdsGc, MayLook
<1>3. PICK pages : pages = e.m_pages
  OBVIOUS
<1>4. IsCmd(c) /\ CmdOK(pages, c) /\ Fresh(c) /\ ~IsStore(c) /\ c.num_chunks \in Nat
  BY <1>1, OthersAre
<1>6. PICK kind : kind = "gc"
  OBVIOUS
<1>7. kind \in DOMAIN Limit /\ kind # "all"
  BY <1>6, LimitKinds
<1> QED
  BY <1>2, <1>3, <1>4, <1>6, <1>7, EnqueueOK

--------------------------------------------------------------------------------

(* The reservation of the client. *)

\* Where it is, and how long.
LEMMA TokenIs ==
  ASSUME NEW pages, NEW gc, NEW q, NEW tk, PagesTyped(pages), Apart(pages), RoomOK(pages, gc), QueueOK(pages, q, gc),
         SpaceOK(pages, q, tk), tk # <<>>
  PROVE  /\ tk = [vpage_id |-> tk.vpage_id, lengths |-> tk.lengths] /\ tk.lengths \in ChunkLists /\ tk.vpage_id \in Page
         /\ ValidPage(pages, tk.vpage_id)
         /\ \E p \in Page, m \in Nat, n \in Nat :
              /\ pages[p].page_type = "VALID" /\ pages[p].vpage_id = tk.vpage_id
              /\ (CHOOSE i \in Page : pages[i].vpage_id = tk.vpage_id) = p
              /\ m = pages[p].words_reserved /\ n = SumOf(tk.lengths) /\ n <= m /\ n <= FS_PAGE_SIZE_WORDS
<1>1. /\ tk = [vpage_id |-> tk.vpage_id, lengths |-> tk.lengths] /\ tk.lengths \in ChunkLists
      /\ ValidPage(pages, tk.vpage_id)
  BY DEF SpaceOK, TokenOK
<1>2. PICK p \in Page : /\ pages[p].page_type = "VALID" /\ pages[p].vpage_id = tk.vpage_id
                        /\ (CHOOSE i \in Page : pages[i].vpage_id = tk.vpage_id) = p
  BY <1>1, ValidPageIs
<1>3. IsPage(pages[p])
  BY DEF PagesTyped
<1>4. PICK m \in Nat, w \in Nat : m = pages[p].words_reserved /\ w = pages[p].write_offset
  BY <1>3 DEF IsPage
<1>5. PICK n \in Nat : n = SumOf(tk.lengths)
  BY <1>1, LengthsAre
<1>6. n <= m
  BY <1>2, <1>4, <1>5, SpaceCancel
<1>7. PICK l \in Nat : l = FS_PAGE_SIZE_WORDS
  BY Sizes DEF Size
<1>8. w + m < l
  BY <1>2, <1>4, <1>7 DEF RoomOK
<1>9. n <= l
  BY <1>6, <1>8, SMT
<1>10. tk.vpage_id \in Page
  BY <1>2, <1>3 DEF IsPage
<1> QED
  BY <1>1, <1>2, <1>4, <1>5, <1>6, <1>7, <1>9, <1>10

\* The record that was reserved is asked for.
LEMMA TokenAsked ==
  ASSUME NEW x, NEW f, NEW tk, NEW ds, Ready(x, f, tk, ds), tk # <<>>, NEW s \in Slots,
         Written \in Nat, Written < Limit["write"] + Limit["update"],
         RoomFor(x, 1, Len(tk.lengths)), NEW none, none = <<>>,
         NEW v, v = tk.vpage_id, NEW y, QueuedSet(x, "WRITE", tk.lengths, s, v, y)
  PROVE  Asked(x, y, f, none, ds, v)
<1>1. /\ Ram(x) /\ PagesTyped(x.m_pages) /\ Apart(x.m_pages) /\ RoomOK(x.m_pages, x.m_gc)
      /\ QueueOK(x.m_pages, x.m_cmd_queue, x.m_gc) /\ SpaceOK(x.m_pages, x.m_cmd_queue, tk)
      /\ IsList(x.m_cmd_queue) /\ x.m_last_rec_id \in 0 .. MaxId
  BY ReadyIs
<1>2. PICK pages, gc, q : pages = x.m_pages /\ gc = x.m_gc /\ q = x.m_cmd_queue
  OBVIOUS
<1>3. /\ tk.lengths \in ChunkLists /\ tk.vpage_id \in Page /\ ValidPage(pages, tk.vpage_id)
      /\ \E p \in Page, m \in Nat, n \in Nat :
           /\ pages[p].page_type = "VALID" /\ pages[p].vpage_id = tk.vpage_id
           /\ (CHOOSE i \in Page : pages[i].vpage_id = tk.vpage_id) = p
           /\ m = pages[p].words_reserved /\ n = SumOf(tk.lengths) /\ n <= m /\ n <= FS_PAGE_SIZE_WORDS
  BY <1>1, <1>2, TokenIs
<1>4. PICK n \in Nat : n = SumOf(tk.lengths) /\ n <= FS_PAGE_SIZE_WORDS
  BY <1>3
<1>5. PICK lengths, id : lengths = tk.lengths /\ id = "WRITE"
  OBVIOUS
<1>6. PICK new, c : NewId(x, new) /\ Made(id, lengths, s, v, new, c) /\ IsQueued(x, new, c, lengths, y)
  BY <1>1, <1>5, QueuedIs
<1>7. new \in 0 .. MaxId
  BY <1>1, <1>6, NewIdIs
<1>8. MadeFrom(x.m_pages, id, lengths, s, v, new, c)
  BY <1>2, <1>3, <1>5, <1>6, <1>7 DEF MadeFrom
<1>9. IsMade(x.m_pages, c, lengths, v)
  BY <1>8, MadeIs
<1>10. IsCmd(c) /\ IsStore(c) /\ c.vpage_id = tk.vpage_id /\ c.length_words = n
  BY <1>4, <1>5, <1>9 DEF IsMade
<1>11. SpaceOK(pages, Append(q, c), none)
  BY <1>1, <1>2, <1>4, <1>10, SpaceTokenStore
<1>12. Alters(x.m_pages, pages) /\ SameOffsets(x.m_pages, pages) /\ RoomOK(pages, gc)
  BY <1>1, <1>2 DEF Alters, SameOffsets
<1>13. PICK dh : dh = x.m_chunk_queue \o Chunks(lengths)
  OBVIOUS
<1>14. SumOf(lengths) <= FS_PAGE_SIZE_WORDS /\ lengths \in ChunkLists /\ v \in Page /\ ValidPage(x.m_pages, v) /\ id \in {"WRITE", "UPDATE"}
  BY <1>2, <1>3, <1>4, <1>5
<1>15. RoomFor(x, 1, Len(lengths)) /\ RoomOK(pages, x.m_gc)
  BY <1>2, <1>5, <1>12
<1>16. Submittable(x, Now(x, f), Append(q, c), dh, pages, x.m_gc, none, ds)
  BY <1>2, <1>6, <1>7, <1>11, <1>12, <1>13, <1>14, <1>15, AskRecord
<1>17. PICK r : r = Append(q, c)
  OBVIOUS
<1>18. Len(r) = Len(x.m_cmd_queue) + 1
  BY <1>1, <1>2, <1>17, ListAppend
<1>19. Submits(x, y, r, dh, pages, x.m_gc, new)
  BY <1>2, <1>6, <1>7, <1>13, <1>17 DEF Submits, IsQueued
<1>20. y.m_last_rec_id = new
  BY <1>6 DEF IsQueued
<1> QED
  BY <1>1, <1>2, <1>12, <1>14, <1>16, <1>17, <1>18, <1>19, <1>20 DEF Asked

\* Writing what was reserved keeps the invariant.
LEMMA FdsWriteReservedOK ==
  ASSUME Steady(e, flash, used, token, desc), NEW s \in Slots, FdsWriteReserved(s)
  PROVE  Steady(e', flash', used', token', desc')
<1>1. Settles(e, flash, token, desc) /\ FlashOK(flash) /\ UsedOK(used)
  BY DEF Steady
<1>2. PICK v : v = token.vpage_id
  OBVIOUS
<1>3. PICK x : QueuedSet(e, "WRITE", token.lengths, s, v, x)
  BY DEF QueuedSet
<1>4. /\ "INITIALIZED" \in e.m_flags /\ Spend("write") /\ flash' = flash /\ token' = <<>> /\ token # <<>>
      /\ RoomFor(e, 1, Len(token.lengths)) /\ Runs(x, LAMBDA y : CmdQueueProcessStart(y, flash))
      /\ desc' = [desc EXCEPT ![s] = Descriptor(v, x.m_last_rec_id, NULL, 0)]
  BY <1>2, <1>3 DEF FdsWriteReserved, Initialized, QueuedSet
<1>5. /\ UsedOK(used') /\ used["write"] < Limit["write"]
  BY <1>1, <1>4, SpendIs, LimitKinds
<1>6. Ready(e, flash, token, desc)
  BY <1>1, <1>4 DEF Ready
<1>7. Written \in Nat /\ Written < Limit["write"] + Limit["update"]
  BY <1>1, <1>5, WrittenIs
<1>8. PICK none : none = <<>>
  OBVIOUS
<1>9. Asked(e, x, flash, none, desc, v)
  BY <1>2, <1>3, <1>4, <1>6, <1>7, <1>8, TokenAsked
<1>10. PICK k, y : KeptSet(x, k, y) /\ KeptSet(CmdQueueProcessStart(y, flash), FALSE, e')
  BY <1>4, RunsIs
<1>11. PICK d, rec, magic : rec = NULL /\ magic = 0 /\ d = Descriptor(v, x.m_last_rec_id, rec, magic)
  OBVIOUS
<1>12. DescSet(desc, s, d, desc')
  BY <1>4, <1>11 DEF DescSet
<1>13. Settles(e', flash, none, desc')
  BY <1>6, <1>9, <1>10, <1>11, <1>12, AskedSettles
<1> QED
  BY <1>1, <1>4, <1>5, <1>8, <1>13 DEF Steady

--------------------------------------------------------------------------------

(* The pages, the reservation or the descriptors change, and nothing else. *)
Repaged(x, other, y) == y = [x EXCEPT !.m_pages = other]

\* What changes when the pages do.
LEMMA RepagedIs ==
  ASSUME NEW x, Ram(x), NEW other, NEW y, Repaged(x, other, y)
  PROVE  /\ Ram(y) /\ FsKept(x, y) /\ y.reported = x.reported /\ y.kept = x.kept /\ y.m_pages = other
         /\ y.m_cmd_queue = x.m_cmd_queue /\ y.m_chunk_queue = x.m_chunk_queue /\ y.m_gc = x.m_gc
         /\ y.m_last_rec_id = x.m_last_rec_id /\ y.m_flags = x.m_flags /\ y.m_swap_page_avail = x.m_swap_page_avail
         /\ y.stack = x.stack
<1> QED
  BY DEF Repaged, Ram, FsKept

\* The storage has the same operation pending.
LEMMA FsSame ==
  ASSUME NEW x, FsOK(x), NEW y, FsKept(x, y), y.reported = x.reported, y.kept = x.kept, NEW f
  PROVE  FsOK(y) /\ y.fs_queue = x.fs_queue /\ Op(y) = Op(x) /\ (Pending(y) <=> Pending(x)) /\ Now(y, f) = Now(x, f)
<1>1. /\ y.fs_queue = x.fs_queue /\ y.fs_flags = x.fs_flags /\ y.m_retry_count = x.m_retry_count
      /\ y.sd = x.sd /\ y.events = x.events /\ y.result = x.result
  BY DEF FsKept
<1>2. Op(y) = Op(x)
  BY <1>1 DEF Op
<1>3. (FsOther(x) => FsOther(y)) /\ (FsAtWork(x) => FsAtWork(y))
  BY <1>1, <1>2 DEF FsOther, FsAtWork
<1>4. FsOK(y)
  BY <1>1, <1>3 DEF FsOK
<1>5. (Pending(y) <=> Pending(x)) /\ Now(y, f) = Now(x, f)
  BY <1>1 DEF Pending, Now, Op
<1> QED
  BY <1>1, <1>2, <1>4, <1>5

\* Where only their numbers change, the invariant stays.
LEMMA PagesSettle ==
  ASSUME NEW x, NEW f, NEW tk, NEW ds, Settles(x, f, tk, ds), Active(x), NEW other, NEW y, Repaged(x, other, y),
         Alters(x.m_pages, other), SameOffsets(x.m_pages, other), NEW tl, NEW dt,
         Layout(other, x.m_cmd_queue, x.m_chunk_queue, x.m_gc, x.stack, tl, dt, Now(x, f))
  PROVE  Settles(y, f, tl, dt)
<1>1. Ram(x) /\ FsOK(x) /\ Good(x, f, tk, ds)
  BY DEF Settles
<1>2. PICK g, q, gc, pages : g = Now(x, f) /\ q = x.m_cmd_queue /\ gc = x.m_gc /\ pages = x.m_pages
  OBVIOUS
<1>3. Core(x, g, tk, ds) /\ Place(x, g) /\ FlagsOK(x) /\ BoundsOK(x) /\ Accounts(pages, q, f) /\ (Pending(x) => SafeOp(f, Op(x)))
  BY <1>1, <1>2 DEF Good
<1>4. /\ Ram(y) /\ FsKept(x, y) /\ y.reported = x.reported /\ y.kept = x.kept /\ y.m_pages = other
      /\ y.m_cmd_queue = q /\ y.m_chunk_queue = x.m_chunk_queue /\ y.m_gc = gc
      /\ y.m_last_rec_id = x.m_last_rec_id /\ y.m_flags = x.m_flags /\ y.m_swap_page_avail = x.m_swap_page_avail
      /\ y.stack = x.stack
  BY <1>1, <1>2, RepagedIs
<1>5. FsOK(y) /\ y.fs_queue = x.fs_queue /\ Op(y) = Op(x) /\ (Pending(y) <=> Pending(x)) /\ Now(y, f) = g
  BY <1>1, <1>2, <1>4, FsSame
<1>6. Core(y, g, tl, dt)
  BY <1>2, <1>4 DEF Core
<1>7. GcOK(pages, q, gc, x.stack, g)
  BY <1>2, <1>3 DEF Core, Layout
<1>8. gc.swap_page \in Page
  BY <1>7 DEF GcOK, IsGc
<1>9. other[gc.swap_page].page_type = pages[gc.swap_page].page_type
  BY <1>2, <1>8 DEF Alters
<1>10. Place(y, g)
  <2>1. q # <<>> /\ x.fs_queue = <<>> => Stuck(y)
    <3>1. HAVE q # <<>> /\ x.fs_queue = <<>>
    <3>2. Stuck(x)
      BY <1>2, <1>3, <3>1 DEF Place
    <3> QED
      BY <1>2, <1>4, <3>2 DEF Stuck
  <2>2. q # <<>> /\ x.fs_queue # <<>> => AtWork(y, Op(y), g)
    <3>1. HAVE q # <<>> /\ x.fs_queue # <<>>
    <3>2. AtWork(x, Op(x), g)
      BY <1>2, <1>3, <3>1 DEF Place
    <3>3. CASE HeadIs(q, {"WRITE", "UPDATE"}) /\ WritingAt(pages, Head(q), g)
      <4>1. WritingAt(other, Head(q), g)
        BY <1>2, <3>3, WritingStays
      <4> QED
        BY <1>4, <3>3, <4>1 DEF AtWork
    <3>4. CASE HeadIs(q, {"CLEAR"}) /\ Head(q).op_code = "DONE"
      BY <1>4, <3>4 DEF AtWork
    <3>5. CASE HeadIs(q, {"CLEAR_INST"}) /\ Head(q).op_code = "CLEAR_INSTANCE"
      BY <1>4, <3>5 DEF AtWork
    <3>6. CASE HeadIs(q, {"GC"}) /\ gc.state \in Mid
      BY <1>4, <3>6 DEF AtWork
    <3>7. CASE /\ HeadIs(q, {"INIT"}) /\ Len(q) = 1 /\ x.m_swap_page_avail = TRUE
               /\ pages[gc.swap_page].page_type = "SWAP" /\ gc.state = "NONE"
               /\ \E p \in Page : Op(x).dst = StartAddr(p)
      BY <1>4, <1>5, <1>9, <3>7 DEF AtWork
    <3> QED
      BY <1>2, <3>2, <3>3, <3>4, <3>5, <3>6, <3>7 DEF AtWork
  <2>3. q = <<>> => x.fs_queue = <<>>
    BY <1>2, <1>3 DEF Place
  <2> QED
    BY <1>4, <1>5, <2>1, <2>2, <2>3 DEF Place
<1>11. FlagsOK(y)
  BY <1>2, <1>3, <1>4, <1>9 DEF FlagsOK
<1>12. BoundsOK(y)
  BY <1>2, <1>3, <1>4 DEF BoundsOK
<1>13. Accounts(other, q, f)
  BY <1>2, <1>3 DEF Accounts, Alters, SameOffsets
<1>14. Good(y, f, tl, dt)
  BY <1>3, <1>4, <1>5, <1>6, <1>10, <1>11, <1>12, <1>13 DEF Good
<1>15. Active(y)
  BY <1>2, <1>4 DEF Active
<1> QED
  BY <1>4, <1>5, <1>14, <1>15 DEF Settles

\* A record is opened, or closed.
Opens(pages, other) == /\ Alters(pages, other) /\ SameOffsets(pages, other)
                       /\ \A i \in Page : other[i].words_reserved = pages[i].words_reserved

\* What changes when a record is opened or closed.
LEMMA OpensIs ==
  ASSUME NEW pages, PagesTyped(pages), NEW p, NEW b, NEW other, other = [pages EXCEPT ![p].records_open = b]
  PROVE  Opens(pages, other)
<1>1. pages = [i \in Page |-> pages[i]] /\ \A i \in Page : IsPage(pages[i])
  BY DEF PagesTyped
<1>2. other = [i \in Page |-> other[i]]
  BY <1>1
<1>3. ASSUME NEW i \in Page
      PROVE  /\ IsPage(other[i]) /\ other[i].page_type = pages[i].page_type /\ other[i].vpage_id = pages[i].vpage_id
             /\ other[i].write_offset = pages[i].write_offset /\ other[i].words_reserved = pages[i].words_reserved
  <2>1. IsPage(pages[i])
    BY <1>1
  <2>2. CASE i # p
    <3>1. other[i] = pages[i]
      BY <1>1, <2>2
    <3> QED
      BY <2>1, <3>1
  <2>3. CASE i = p
    <3>1. PICK d, c : d = pages[i] /\ c = other[i]
      OBVIOUS
    <3>2. c = [d EXCEPT !.records_open = b]
      BY <1>1, <2>3, <3>1
    <3>3. IsPage(d)
      BY <2>1, <3>1
    <3>4. d = [page_type |-> d.page_type, vpage_id |-> d.vpage_id, write_offset |-> d.write_offset,
               words_reserved |-> d.words_reserved, records_open |-> d.records_open]
      BY <3>3 DEF IsPage
    <3>5. c = [page_type |-> d.page_type, vpage_id |-> d.vpage_id, write_offset |-> d.write_offset,
               words_reserved |-> d.words_reserved, records_open |-> b]
      BY <3>2, <3>4
    <3>6. c.page_type = d.page_type /\ c.vpage_id = d.vpage_id /\ c.write_offset = d.write_offset
          /\ c.words_reserved = d.words_reserved /\ c.records_open = b
      BY <3>5
    <3>7. IsPage(c)
      BY <3>3, <3>5, <3>6 DEF IsPage
    <3> QED
      BY <3>1, <3>6, <3>7
  <2> QED
    BY <2>2, <2>3
<1> QED
  BY <1>2, <1>3 DEF Opens, Alters, SameOffsets, PagesTyped

\* The layout does not depend on the open records.
LEMMA OpensLayout ==
  ASSUME NEW pages, NEW q, NEW ch, NEW gc, NEW stack, NEW tk, NEW ds, NEW f,
         Layout(pages, q, ch, gc, stack, tk, ds, f), NEW other, Opens(pages, other)
  PROVE  Layout(other, q, ch, gc, stack, tk, ds, f)
<1>1. /\ Alters(pages, other) /\ SameOffsets(pages, other)
      /\ \A i \in Page : other[i].words_reserved = pages[i].words_reserved
  BY DEF Opens
<1>2. RoomOK(pages, gc) /\ SpaceOK(pages, q, tk)
  BY DEF Layout, PagesOK
<1>3. \A i \in Page : other[i].page_type = pages[i].page_type /\ other[i].vpage_id = pages[i].vpage_id
                      /\ other[i].write_offset = pages[i].write_offset
  BY <1>1 DEF Alters, SameOffsets
<1>4. RoomOK(other, gc)
  BY <1>1, <1>2, <1>3 DEF RoomOK
<1>5. TokenOK(other, tk)
  BY <1>2, <1>3 DEF SpaceOK, TokenOK, ValidPage
<1>6. SpaceOK(other, q, tk)
  BY <1>1, <1>2, <1>3, <1>5 DEF SpaceOK
<1> QED
  BY <1>1, <1>4, <1>6, LayoutReserves

\* Reserving keeps the invariant.
LEMMA FdsReserveOK ==
  ASSUME Steady(e, flash, used, token, desc), FdsReserve
  PROVE  Steady(e', flash', used', token', desc')
<1>1. Settles(e, flash, token, desc) /\ FlashOK(flash) /\ UsedOK(used)
  BY DEF Steady
<1>2. PICK lengths \in ChunkLists :
        LET room == Spacious(e, SumOf(lengths))
            p == Min(room)
        IN /\ room # {}
           /\ e' = Reserved(e, p, SumOf(lengths))
           /\ token' = [vpage_id |-> Data(e, p).vpage_id, lengths |-> lengths]
  BY DEF FdsReserve
<1>3. /\ "INITIALIZED" \in e.m_flags /\ Spend("reserve") /\ flash' = flash /\ desc' = desc /\ token = <<>>
  BY DEF FdsReserve, Initialized
<1>4. /\ UsedOK(used')
  BY <1>1, <1>3, SpendIs, LimitKinds
<1>5. Ready(e, flash, token, desc)
  BY <1>1, <1>3 DEF Ready
<1>6. PICK pages, q, ch, gc, g, stack :
        /\ pages = e.m_pages /\ q = e.m_cmd_queue /\ ch = e.m_chunk_queue /\ gc = e.m_gc /\ g = Now(e, flash) /\ stack = e.stack
  OBVIOUS
<1>7. /\ Ram(e) /\ PagesTyped(pages) /\ Apart(pages) /\ RoomOK(pages, gc)
      /\ Layout(pages, q, ch, gc, stack, token, desc, g) /\ QueueOK(pages, q, gc) /\ SpaceOK(pages, q, token)
  BY <1>5, <1>6, ReadyIs
<1>8. PICK n \in Nat : n = SumOf(lengths)
  BY LengthsAre
<1>9. PICK p : p = Min(Spacious(e, n))
  OBVIOUS
<1>10. Spacious(e, n) # {}
  BY <1>2, <1>8
<1>40. PagesTyped(e.m_pages)
  BY <1>6, <1>7
<1>11. /\ p \in Page /\ e.m_pages[p].page_type = "VALID"
       /\ \E w \in Nat, m \in Nat : /\ w = e.m_pages[p].write_offset /\ m = e.m_pages[p].words_reserved
                                    /\ w + (m + (3 + n)) < FS_PAGE_SIZE_WORDS
  BY ONLY <1>8, <1>9, <1>10, <1>40, RoomIs, SMTT(60)
<1>12. PICK w \in Nat, m \in Nat : /\ w = pages[p].write_offset /\ m = pages[p].words_reserved
                                   /\ w + (m + (3 + n)) < FS_PAGE_SIZE_WORDS
  BY <1>6, <1>11
<1>13. PICK b \in Nat : b = m + (3 + n)
  OBVIOUS
<1>14. ReservedSet(e, p, n, e') /\ token' = [vpage_id |-> Data(e, p).vpage_id, lengths |-> lengths]
  BY <1>2, <1>8, <1>9 DEF ReservedSet
<1>15. IsReserved(e, p, b, e')
  BY <1>6, <1>7, <1>11, <1>12, <1>13, <1>14, ReservedIs
<1>16. PICK other : other = e'.m_pages
  OBVIOUS
<1>17. Reserves(pages, other, p, b)
  BY <1>6, <1>15, <1>16 DEF IsReserved
<1>18. Alters(pages, other) /\ SameOffsets(pages, other)
  BY <1>17 DEF Reserves
<1>19. RoomOK(other, gc)
  <2>1. w + b < FS_PAGE_SIZE_WORDS
    BY <1>12, <1>13
  <2> QED
    BY <1>6, <1>7, <1>11, <1>12, <1>17, <2>1, ReservesRoom
<1>20. PICK new : new = token'
  OBVIOUS
<1>21. new # <<>> /\ new.vpage_id = pages[p].vpage_id /\ new.lengths = lengths
       /\ new = [vpage_id |-> new.vpage_id, lengths |-> new.lengths]
  BY <1>6, <1>14, <1>20 DEF Data
<1>22. TokenOK(pages, new)
  BY <1>6, <1>11, <1>21 DEF TokenOK, ValidPage
<1>23. SpaceOK(pages, q, <<>>)
  BY <1>3, <1>7
<1>24. SpaceOK(other, q, new)
  BY <1>6, <1>7, <1>8, <1>11, <1>12, <1>13, <1>17, <1>21, <1>22, <1>23, SpaceToken
<1>25. Layout(other, q, ch, gc, stack, new, desc, g)
  BY <1>7, <1>18, <1>19, <1>24, LayoutReserves
<1>26. Repaged(e, other, e')
  <2>1. PICK y : y = e'
    OBVIOUS
  <2>2. \E new2 : y = [e EXCEPT !.m_pages = new2]
    BY <1>14, <2>1 DEF ReservedSet, Reserved, Ram
  <2>3. PICK new2 : y = [e EXCEPT !.m_pages = new2]
    BY <2>2
  <2>4. y.m_pages = new2
    BY <1>7, <2>3 DEF Ram
  <2> QED
    BY <1>16, <2>1, <2>3, <2>4 DEF Repaged
<1>27. Active(e)
  BY <1>3 DEF Active
<1>28. Settles(e', flash, new, desc)
  BY <1>1, <1>6, <1>18, <1>25, <1>26, <1>27, PagesSettle
<1> QED
  BY <1>1, <1>3, <1>4, <1>20, <1>28 DEF Steady

\* So does giving it up.
LEMMA FdsReserveCancelOK ==
  ASSUME Steady(e, flash, used, token, desc), FdsReserveCancel
  PROVE  Steady(e', flash', used', token', desc')
<1>1. Settles(e, flash, token, desc) /\ FlashOK(flash) /\ UsedOK(used)
  BY DEF Steady
<1>2. /\ "INITIALIZED" \in e.m_flags /\ token # <<>> /\ token' = <<>> /\ flash' = flash /\ used' = used /\ desc' = desc
      /\ e' = [e EXCEPT !.m_pages[PageOf(e, token.vpage_id)].words_reserved = @ - SumOf(token.lengths)]
  BY DEF FdsReserveCancel, Initialized
<1>3. Ready(e, flash, token, desc)
  BY <1>1, <1>2 DEF Ready
<1>4. PICK pages, q, ch, gc, g, stack :
        /\ pages = e.m_pages /\ q = e.m_cmd_queue /\ ch = e.m_chunk_queue /\ gc = e.m_gc /\ g = Now(e, flash) /\ stack = e.stack
  OBVIOUS
<1>5. /\ Ram(e) /\ PagesTyped(pages) /\ Apart(pages) /\ RoomOK(pages, gc)
      /\ Layout(pages, q, ch, gc, stack, token, desc, g) /\ QueueOK(pages, q, gc) /\ SpaceOK(pages, q, token)
  BY <1>3, <1>4, ReadyIs
<1>6. \E p \in Page, m \in Nat, n \in Nat :
        /\ pages[p].page_type = "VALID" /\ pages[p].vpage_id = token.vpage_id
        /\ (CHOOSE i \in Page : pages[i].vpage_id = token.vpage_id) = p
        /\ m = pages[p].words_reserved /\ n = SumOf(token.lengths) /\ n <= m /\ n <= FS_PAGE_SIZE_WORDS
  BY <1>2, <1>5, TokenIs
<1>7. PICK p \in Page, m \in Nat, n \in Nat :
        /\ pages[p].page_type = "VALID" /\ pages[p].vpage_id = token.vpage_id
        /\ (CHOOSE i \in Page : pages[i].vpage_id = token.vpage_id) = p
        /\ m = pages[p].words_reserved /\ n = SumOf(token.lengths) /\ n <= m
  BY <1>6
<1>8. PageOf(e, token.vpage_id) = p
  BY <1>4, <1>7 DEF PageOf, Data
<1>9. PICK b \in Nat : b = m - n
  BY <1>7, SMT
<1>10. PICK other : other = [pages EXCEPT ![p].words_reserved = b]
  OBVIOUS
<1>11. e' = [e EXCEPT !.m_pages = other]
  <2>1. e' = [e EXCEPT !.m_pages[p].words_reserved = @ - n]
    BY <1>2, <1>7, <1>8
  <2>2. pages = [i \in Page |-> pages[i]] /\ IsPage(pages[p])
    BY <1>5 DEF PagesTyped
  <2>3. PICK d : d = pages[p]
    OBVIOUS
  <2>4. d.words_reserved - n = b
    BY <1>7, <1>9, <2>3
  <2>5. [pages EXCEPT ![p].words_reserved = @ - n] = other
    BY <1>10, <2>2, <2>3, <2>4
  <2>6. e' = [e EXCEPT !.m_pages = [pages EXCEPT ![p].words_reserved = @ - n]]
    BY <1>4, <2>1
  <2> QED
    BY <2>5, <2>6
<1>12. Reserves(pages, other, p, b)
  BY <1>5, <1>10, ReservesIs
<1>13. Alters(pages, other) /\ SameOffsets(pages, other)
  BY <1>12 DEF Reserves
<1>14. PICK w \in Nat : w = pages[p].write_offset
  BY <1>5 DEF PagesTyped, IsPage
<1>15. w + b < FS_PAGE_SIZE_WORDS
  <2>1. PICK l \in Nat : l = FS_PAGE_SIZE_WORDS
    BY Sizes DEF Size
  <2>2. w + m < l
    BY <1>5, <1>7, <1>14, <2>1 DEF RoomOK
  <2>3. w + b < l
    BY <1>7, <1>9, <2>2, SMT
  <2> QED
    BY <2>1, <2>3
<1>16. RoomOK(other, gc)
  BY <1>5, <1>7, <1>12, <1>14, <1>15, ReservesRoom
<1>17. PICK none : none = <<>>
  OBVIOUS
<1>18. SpaceOK(other, q, none)
  <2>1. \A o : Reserves(pages, o, p, m - n) => SpaceOK(o, q, <<>>)
    BY <1>2, <1>5, <1>7, SpaceCancel
  <2> QED
    BY <1>9, <1>12, <1>17, <2>1
<1>19. Layout(other, q, ch, gc, stack, none, desc, g)
  BY <1>5, <1>13, <1>16, <1>18, LayoutReserves
<1>20. Repaged(e, other, e')
  BY <1>11 DEF Repaged
<1>21. Active(e)
  BY <1>2 DEF Active
<1>22. Settles(e', flash, none, desc)
  BY <1>1, <1>4, <1>13, <1>19, <1>20, <1>21, PagesSettle
<1> QED
  BY <1>1, <1>2, <1>17, <1>22 DEF Steady

\* The number of a record in the flash is within the bound.
LEMMA IdAtIs ==
  ASSUME NEW f, FlashOK(f), NEW p \in Page, NEW a \in HeadersOf(f, p)
  PROVE  IdAt(f, a) \in 0 .. MaxId
<1>1. IdOK(f[a + 2])
  BY EndIs
<1>2. PICK m \in Nat : m = MaxId
  BY FdsAssumption
<1>3. PICK w : w = f[a + 2]
  OBVIOUS
<1>4. IdAt(f, a) = IF w = Erased THEN MaxId ELSE w[2]
  BY <1>3 DEF IdAt, OFFSET_ID
<1>5. CASE w = Erased
  BY <1>2, <1>4, <1>5
<1>6. CASE w # Erased
  <2>1. PICK n \in 0 .. MaxId : w = <<"ID", n>>
    BY <1>1, <1>3, <1>6 DEF IdOK
  <2>2. w[2] = n
    BY <2>1
  <2> QED
    BY <1>4, <1>6, <2>2
<1> QED
  BY <1>5, <1>6

\* Other descriptors.
LEMMA DescSettles ==
  ASSUME NEW x, NEW f, NEW tk, NEW ds, Ready(x, f, tk, ds), NEW s, NEW v, ValidPage(x.m_pages, v),
         NEW k \in 0 .. MaxId, NEW rec, NEW magic, NEW d, d = Descriptor(v, k, rec, magic), NEW dt, DescSet(ds, s, d, dt),
         NEW other, Opens(x.m_pages, other), NEW y, Repaged(x, other, y)
  PROVE  Settles(y, f, tk, dt)
<1>1. PICK pages, q, ch, gc, g, stack :
        /\ pages = x.m_pages /\ q = x.m_cmd_queue /\ ch = x.m_chunk_queue /\ gc = x.m_gc /\ g = Now(x, f) /\ stack = x.stack
  OBVIOUS
<1>2. Layout(pages, q, ch, gc, stack, tk, ds, g) /\ DescsOK(pages, ds)
  BY <1>1, ReadyIs
<1>3. IsDesc(pages, d)
  BY <1>1, DescriptorIs
<1>4. DescsOK(pages, dt)
  BY <1>2, <1>3, DescSetIs
<1>5. Layout(pages, q, ch, gc, stack, tk, dt, g)
  BY <1>2, <1>4, LayoutDescs
<1>6. Opens(pages, other)
  BY <1>1
<1>7. Layout(other, q, ch, gc, stack, tk, dt, g)
  BY <1>5, <1>6, OpensLayout
<1>8. Alters(pages, other) /\ SameOffsets(pages, other)
  BY <1>6 DEF Opens
<1>9. Settles(x, f, tk, ds) /\ Active(x)
  BY DEF Ready, Active
<1> QED
  BY <1>1, <1>7, <1>8, <1>9, PagesSettle

\* A search keeps the invariant.
LEMMA FdsFindOK ==
  ASSUME Steady(e, flash, used, token, desc), NEW s \in Slots, FdsFind(s)
  PROVE  Steady(e', flash', used', token', desc')
<1>1. Settles(e, flash, token, desc) /\ FlashOK(flash) /\ UsedOK(used)
  BY DEF Steady
<1>2. /\ "INITIALIZED" \in e.m_flags /\ Spend("find") /\ flash' = flash /\ e' = e /\ token' = token
  BY DEF FdsFind, Initialized
<1>3. PICK va \in Visible(e, flash) :
        desc' = [desc EXCEPT ![s] = Descriptor(va[1], IdAt(flash, va[2]), va[2], e.m_gc_runs)]
  BY DEF FdsFind
<1>4. /\ UsedOK(used')
  BY <1>1, <1>2, SpendIs, LimitKinds
<1>5. Ready(e, flash, token, desc)
  BY <1>1, <1>2 DEF Ready
<1>6. PICK pages : pages = e.m_pages
  OBVIOUS
<1>7. Ram(e) /\ PagesTyped(pages)
  BY <1>5, <1>6, ReadyIs
<1>8. Lies(pages, flash, va[2]) /\ ValidPage(pages, va[1])
  BY <1>1, <1>6, <1>7, SeenAre
<1>9. PICK k : k = IdAt(flash, va[2])
  OBVIOUS
<1>10. k \in 0 .. MaxId
  BY <1>1, <1>8, <1>9, IdAtIs DEF Lies
<1>11. PICK d, v, rec, magic : v = va[1] /\ rec = va[2] /\ magic = e.m_gc_runs /\ d = Descriptor(v, k, rec, magic)
  OBVIOUS
<1>12. DescSet(desc, s, d, desc')
  BY <1>3, <1>9, <1>11 DEF DescSet
<1>13. Opens(e.m_pages, pages)
  BY <1>6, <1>7 DEF Opens, Alters, SameOffsets
<1>14. Repaged(e, pages, e')
  BY <1>2, <1>6, <1>7 DEF Repaged, Ram
<1>15. Settles(e', flash, token, desc')
  BY <1>5, <1>6, <1>8, <1>10, <1>11, <1>12, <1>13, <1>14, DescSettles
<1> QED
  BY <1>1, <1>2, <1>4, <1>15 DEF Steady

\* So does opening a record.
LEMMA FdsOpenOK ==
  ASSUME Steady(e, flash, used, token, desc), NEW s \in Slots, FdsOpen(s)
  PROVE  Steady(e', flash', used', token', desc')
<1>1. Settles(e, flash, token, desc) /\ FlashOK(flash) /\ UsedOK(used)
  BY DEF Steady
<1>2. /\ "INITIALIZED" \in e.m_flags /\ Spend("open") /\ flash' = flash /\ token' = token /\ desc[s] # <<>>
  BY DEF FdsOpen, Initialized
<1>3. PICK a : /\ desc' = [desc EXCEPT ![s].p_rec = a, ![s].gc_magic = e.m_gc_runs]
               /\ e' = [e EXCEPT !.m_pages[PageOf(e, desc[s].vpage_id)].records_open = @ + 1]
  BY DEF FdsOpen
<1>4. /\ UsedOK(used')
  BY <1>1, <1>2, SpendIs, LimitKinds
<1>5. Ready(e, flash, token, desc)
  BY <1>1, <1>2 DEF Ready
<1>6. PICK pages : pages = e.m_pages
  OBVIOUS
<1>7. Ram(e) /\ PagesTyped(pages) /\ DescsOK(pages, desc)
  BY <1>5, <1>6, ReadyIs
<1>8. PICK p : p = PageOf(e, desc[s].vpage_id)
  OBVIOUS
<1>9. PICK b : b = pages[p].records_open + 1
  OBVIOUS
<1>10. PICK other : other = [pages EXCEPT ![p].records_open = b]
  OBVIOUS
<1>11. Opens(pages, other)
  BY <1>7, <1>10, OpensIs
<1>12. IsDesc(pages, desc[s])
  BY <1>2, <1>7 DEF DescsOK
<1>13. PICK d, v, k, magic : v = desc[s].vpage_id /\ k = desc[s].record_id /\ magic = e.m_gc_runs /\ d = Descriptor(v, k, a, magic)
  OBVIOUS
<1>14. ValidPage(pages, v) /\ k \in 0 .. MaxId
  BY <1>12, <1>13 DEF IsDesc
<1>15. DescSet(desc, s, d, desc')
  <2>1. desc = [j \in Slots |-> desc[j]]
    BY <1>7 DEF DescsOK
  <2>2. PICK c : c = desc[s]
    OBVIOUS
  <2>3. c = [vpage_id |-> c.vpage_id, record_id |-> c.record_id, p_rec |-> c.p_rec, gc_magic |-> c.gc_magic]
    BY <1>12, <2>2 DEF IsDesc
  <2>4. d = [[c EXCEPT !.p_rec = a] EXCEPT !.gc_magic = magic]
    <3>1. d = [vpage_id |-> c.vpage_id, record_id |-> c.record_id, p_rec |-> a, gc_magic |-> magic]
      BY <1>13, <2>2 DEF Descriptor
    <3>2. PICK h : h = [c EXCEPT !.p_rec = a]
      OBVIOUS
    <3>3. h = [vpage_id |-> c.vpage_id, record_id |-> c.record_id, p_rec |-> a, gc_magic |-> c.gc_magic]
      BY <2>3, <3>2
    <3>4. [h EXCEPT !.gc_magic = magic] = d
      BY <3>1, <3>3
    <3> QED
      BY <3>2, <3>4
  <2>5. desc' = [[desc EXCEPT ![s].p_rec = a] EXCEPT ![s].gc_magic = magic]
    BY <1>3, <1>13
  <2>6. PICK mid : mid = [desc EXCEPT ![s].p_rec = a]
    OBVIOUS
  <2>7. mid = [desc EXCEPT ![s] = [c EXCEPT !.p_rec = a]]
    BY <2>1, <2>2, <2>6
  <2>8. mid[s] = [c EXCEPT !.p_rec = a]
    BY <2>1, <2>7
  <2>9. desc' = [mid EXCEPT ![s] = d]
    BY <2>4, <2>5, <2>6, <2>8
  <2> QED
    BY <2>1, <2>7, <2>9 DEF DescSet
<1>16. Repaged(e, other, e')
  <2>1. e' = [e EXCEPT !.m_pages[p].records_open = @ + 1]
    BY <1>3, <1>8
  <2>2. e' = [e EXCEPT !.m_pages = [pages EXCEPT ![p].records_open = @ + 1]]
    BY <1>6, <2>1
  <2>3. [pages EXCEPT ![p].records_open = @ + 1] = other
    BY <1>9, <1>10
  <2> QED
    BY <2>2, <2>3 DEF Repaged
<1>17. Settles(e', flash, token, desc')
  BY <1>5, <1>6, <1>11, <1>13, <1>14, <1>15, <1>16, DescSettles
<1> QED
  BY <1>1, <1>2, <1>4, <1>17 DEF Steady

\* So does closing it.
LEMMA FdsCloseOK ==
  ASSUME Steady(e, flash, used, token, desc), NEW s \in Slots, FdsClose(s)
  PROVE  Steady(e', flash', used', token', desc')
<1>1. Settles(e, flash, token, desc) /\ FlashOK(flash) /\ UsedOK(used)
  BY DEF Steady
<1>2. /\ flash' = flash /\ token' = token /\ used' = used /\ desc' = desc
      /\ e' = [e EXCEPT !.m_pages[PageOf(e, desc[s].vpage_id)].records_open = (@ - 1) % (2 ^ 16)]
  BY DEF FdsClose
<1>3. PICK pages, q, ch, gc, g, stack :
        /\ pages = e.m_pages /\ q = e.m_cmd_queue /\ ch = e.m_chunk_queue /\ gc = e.m_gc /\ g = Now(e, flash) /\ stack = e.stack
  OBVIOUS
<1>4. Ram(e) /\ FsOK(e)
  BY <1>1 DEF Settles
<1>5. PagesTyped(pages)
  BY <1>1, <1>3 DEF Settles, Good, Core, Layout, PagesOK, Dormant
<1>6. PICK p : p = PageOf(e, desc[s].vpage_id)
  OBVIOUS
<1>7. PICK b : b = (pages[p].records_open - 1) % (2 ^ 16)
  OBVIOUS
<1>8. PICK other : other = [pages EXCEPT ![p].records_open = b]
  OBVIOUS
<1>9. Opens(pages, other)
  BY <1>5, <1>8, OpensIs
<1>10. Repaged(e, other, e')
  <2>1. e' = [e EXCEPT !.m_pages[p].records_open = (@ - 1) % (2 ^ 16)]
    BY <1>2, <1>6
  <2>2. e' = [e EXCEPT !.m_pages = [pages EXCEPT ![p].records_open = (@ - 1) % (2 ^ 16)]]
    BY <1>3, <2>1
  <2>3. [pages EXCEPT ![p].records_open = (@ - 1) % (2 ^ 16)] = other
    BY <1>7, <1>8
  <2> QED
    BY <2>2, <2>3 DEF Repaged
<1>11. Alters(pages, other) /\ SameOffsets(pages, other)
  BY <1>9 DEF Opens
<1>12. CASE Active(e)
  <2>1. Layout(pages, q, ch, gc, stack, token, desc, g)
    BY <1>1, <1>3, <1>12 DEF Settles, Good, Core
  <2>2. Layout(other, q, ch, gc, stack, token, desc, g)
    BY <1>9, <2>1, OpensLayout
  <2>3. Settles(e', flash, token, desc)
    BY <1>1, <1>3, <1>10, <1>11, <1>12, <2>2, PagesSettle
  <2> QED
    BY <1>1, <1>2, <2>3 DEF Steady
<1>13. CASE ~Active(e)
  <2>1. Dormant(e, flash, token, desc)
    BY <1>1, <1>13 DEF Settles
  <2>2. PICK y : y = e'
    OBVIOUS
  <2>3. /\ Ram(y) /\ FsKept(e, y) /\ y.reported = e.reported /\ y.kept = e.kept /\ y.m_pages = other
        /\ y.m_cmd_queue = e.m_cmd_queue /\ y.m_chunk_queue = e.m_chunk_queue /\ y.m_gc = e.m_gc
        /\ y.m_last_rec_id = e.m_last_rec_id /\ y.m_flags = e.m_flags /\ y.m_swap_page_avail = e.m_swap_page_avail
        /\ y.stack = e.stack
    BY <1>4, <1>10, <2>2, RepagedIs
  <2>4. FsOK(y) /\ y.fs_queue = e.fs_queue
    BY <1>4, <2>3, FsSame
  <2>5. \A i \in Page : other[i].words_reserved < FS_PAGE_SIZE_WORDS /\ other[i].write_offset < FS_PAGE_SIZE_WORDS
    BY <1>3, <1>9, <1>11, <2>1 DEF Opens, SameOffsets, Dormant
  <2>6. PagesTyped(other)
    BY <1>11 DEF Alters
  <2>7. Dormant(y, flash, token, desc)
    BY <2>1, <2>3, <2>4, <2>5, <2>6 DEF Dormant
  <2>8. ~Active(y)
    BY <1>13, <2>3 DEF Active
  <2>9. Settles(y, flash, token, desc)
    BY <2>3, <2>4, <2>7, <2>8 DEF Settles
  <2> QED
    BY <1>1, <1>2, <2>2, <2>9 DEF Steady
<1> QED
  BY <1>12, <1>13

--------------------------------------------------------------------------------

(* What fds_init finds. *)
Scanned(f, pages) == pages = [p \in Page |-> FoundPage(f, p)]

\* Where the records of a page end, in words.
ScannedPage(f, pages, p) ==
  /\ IsPage(pages[p]) /\ pages[p].page_type = Kind(f, p) /\ pages[p].vpage_id = p /\ pages[p].words_reserved = 0
  /\ pages[p].page_type \in {"SWAP", "VALID", "GC", "ERASED"}
  /\ \E s \in Nat, t \in Nat, w \in Nat, l \in Nat :
       /\ s = StartAddr(p) /\ t = End(f, p) /\ w = pages[p].write_offset /\ l = FS_PAGE_SIZE_WORDS /\ w < l /\ 4 < l
       /\ Kind(f, p) = "VALID" => s + w = t
       /\ Kind(f, p) # "VALID" => w = 4

\* What fds_init() finds of a page.
LEMMA ScannedIs ==
  ASSUME NEW f, FlashOK(f), NEW pages, Scanned(f, pages), NEW p \in Page
  PROVE  ScannedPage(f, pages, p)
<1>1. PICK s \in Nat, t \in Nat, z \in Nat :
           /\ s = StartAddr(p) /\ t = End(f, p) /\ z = EndAddr(p) /\ s + 4 = Base(p) /\ s + 4 <= t /\ t < z
           /\ z = s + Size
  BY EndIs
<1>2. PICK l \in Nat : l = FS_PAGE_SIZE_WORDS /\ l = Size /\ l >= 5
  BY Sizes DEF Size
<1>3. PICK k : k = Kind(f, p)
  OBVIOUS
<1>4. k \in {"SWAP", "VALID", "GC", "ERASED"}
  BY <1>3, KindKnown
<1>5. PICK d : d = pages[p]
  OBVIOUS
<1>6. PICK o : o = IF k = "VALID" THEN t - s ELSE 4
  OBVIOUS
<1>7. o \in Nat /\ o < l /\ (k = "VALID" => s + o = t) /\ (k # "VALID" => o = 4)
  <2>1. CASE k = "VALID"
    <3>1. PICK n \in Nat : n = t - s
      BY <1>1, SMT
    <3>2. n < l /\ s + n = t
      BY <1>1, <1>2, <3>1, SMT
    <3> QED
      BY <1>6, <2>1, <3>1, <3>2
  <2>2. CASE k # "VALID"
    <3>1. o = 4
      BY <1>6, <2>2
    <3> QED
      BY <1>2, <2>2, <3>1
  <2> QED
    BY <2>1, <2>2
<1>8. d = [page_type |-> k, vpage_id |-> p, words_reserved |-> 0, records_open |-> 0, write_offset |-> o]
  <2>1. pages[p] = [page_type |-> PageIdentify(f, p), vpage_id |-> p, words_reserved |-> 0, records_open |-> 0,
                    write_offset |-> IF PageIdentify(f, p) = "VALID"
                                     THEN ScanEnd(f, Base(p), EndAddr(p)) - StartAddr(p)
                                     ELSE FDS_PAGE_TAG_SIZE]
    <3>1. pages[p] = FoundPage(f, p)
      BY DEF Scanned
    <3> QED
      BY <3>1 DEF FoundPage
  <2>2. ScanEnd(f, Base(p), EndAddr(p)) = t
    BY <1>1 DEF End
  <2>3. PageIdentify(f, p) = k
    BY <1>3 DEF Kind
  <2>5. (IF PageIdentify(f, p) = "VALID"
         THEN ScanEnd(f, Base(p), EndAddr(p)) - StartAddr(p) ELSE FDS_PAGE_TAG_SIZE) = o
    <3>1. CASE k = "VALID"
      BY <1>1, <1>6, <2>2, <2>3, <3>1
    <3>2. CASE k # "VALID"
      BY <1>6, <2>3, <3>2 DEF FDS_PAGE_TAG_SIZE
    <3> QED
      BY <3>1, <3>2
  <2> QED
    BY <1>5, <2>1, <2>3, <2>5
<1>9. d.page_type = k /\ d.vpage_id = p /\ d.words_reserved = 0 /\ d.records_open = 0 /\ d.write_offset = o
  BY <1>8
<1>10. IsPage(d)
  <2>1. d = [page_type |-> d.page_type, vpage_id |-> d.vpage_id, write_offset |-> d.write_offset,
             words_reserved |-> d.words_reserved, records_open |-> d.records_open]
    BY <1>8
  <2>2. k \in PageTypes
    BY <1>4 DEF PageTypes
  <2> QED
    BY <1>7, <1>9, <2>1, <2>2 DEF IsPage
<1>11. \E s2 \in Nat, t2 \in Nat, w2 \in Nat, l2 \in Nat :
       /\ s2 = StartAddr(p) /\ t2 = End(f, p) /\ w2 = pages[p].write_offset /\ l2 = FS_PAGE_SIZE_WORDS /\ w2 < l2 /\ 4 < l2
       /\ Kind(f, p) = "VALID" => s2 + w2 = t2
       /\ Kind(f, p) # "VALID" => w2 = 4
  <2>1. 4 < l
    BY <1>2, SMT
  <2>2. /\ s = StartAddr(p) /\ t = End(f, p) /\ o = pages[p].write_offset /\ l = FS_PAGE_SIZE_WORDS /\ o < l /\ 4 < l
        /\ Kind(f, p) = "VALID" => s + o = t
        /\ Kind(f, p) # "VALID" => o = 4
    BY <1>1, <1>2, <1>3, <1>5, <1>7, <1>9, <2>1
  <2> QED
    BY <1>7, <2>2
<1> QED
  BY <1>3, <1>4, <1>5, <1>9, <1>10, <1>11 DEF ScannedPage

\* The pages found are within their bounds.
LEMMA ScannedPages ==
  ASSUME NEW f, FlashOK(f), NEW pages, Scanned(f, pages)
  PROVE  PagesTyped(pages) /\ Apart(pages)
         /\ \A p \in Page : pages[p].words_reserved < FS_PAGE_SIZE_WORDS /\ pages[p].write_offset < FS_PAGE_SIZE_WORDS
<1>1. pages = [p \in Page |-> pages[p]]
  BY DEF Scanned
<1>2. \A p \in Page : ScannedPage(f, pages, p)
  BY ScannedIs
<1>3. PagesTyped(pages)
  BY <1>1, <1>2 DEF PagesTyped, ScannedPage
<1>4. Apart(pages)
  <2>1. SUFFICES ASSUME NEW p \in Page, NEW q \in Page, pages[p].vpage_id = pages[q].vpage_id
                 PROVE  p = q
    BY DEF Apart
  <2>2. pages[p].vpage_id = p /\ pages[q].vpage_id = q
    BY <1>2 DEF ScannedPage
  <2> QED
    BY <2>1, <2>2
<1>5. ASSUME NEW p \in Page
      PROVE  pages[p].words_reserved < FS_PAGE_SIZE_WORDS /\ pages[p].write_offset < FS_PAGE_SIZE_WORDS
  <2>1. PICK w \in Nat, l \in Nat : w = pages[p].write_offset /\ l = FS_PAGE_SIZE_WORDS /\ w < l /\ 4 < l
    BY <1>2 DEF ScannedPage
  <2>2. 0 < l
    BY <2>1, SMT
  <2>3. pages[p].words_reserved = 0
    BY <1>2 DEF ScannedPage
  <2> QED
    BY <2>1, <2>2, <2>3
<1> QED
  BY <1>3, <1>4, <1>5

\* Without commands there is little to say.
LEMMA NothingQueued ==
  ASSUME NEW q, q = <<>>, NEW ch, ch = <<>>, NEW tk, tk = <<>>, NEW pages, NEW gc
  PROVE  /\ ChunksOK(q, ch) /\ QueueOK(pages, q, gc) /\ \A v : Extra(q, v) = 0
         /\ \A v : \A m \in Nat : DueWithin(q, tk, v, m)
<1>1. IsList(q) /\ Len(q) = 0 /\ IsList(ch) /\ Len(ch) = 0
  BY ListNone
<1>2. PICK z \in Nat : z = 0
  OBVIOUS
<1>3. Len(q) = z /\ Len(ch) = z /\ 1 .. z = {} /\ 0 .. z = {0}
  BY <1>1, <1>2
<1>4. QueueOK(pages, q, gc)
  BY <1>1, <1>3 DEF QueueOK
<1>5. ChunksOK(q, ch)
  <2>1. PICK rest : rest = [n \in 0 .. z |-> z]
    OBVIOUS
  <2>2. rest \in [0 .. z -> 0 .. z] /\ rest[0] = z /\ rest[z] = z /\ \A n \in 0 .. z : rest[n] = z
    BY <1>2, <2>1
  <2>3. z = 0
    BY <1>2
  <2>4. IsRest(rest, q, ch)
    <3>1. rest \in [0 .. Len(q) -> 0 .. Len(ch)]
      BY <1>3, <2>2
    <3>2. rest[0] = Len(ch) /\ rest[Len(q)] = 0
      BY <1>3, <2>2, <2>3
    <3>3. \A m, n \in 0 .. Len(q) : m <= n => rest[n] <= rest[m]
      BY <1>3, <2>2, <2>3
    <3>4. \A n \in 1 .. Len(q) : FALSE
      BY <1>3
    <3> QED
      BY <3>1, <3>2, <3>3, <3>4 DEF IsRest
  <2>5. \A i \in 1 .. Len(ch) : FALSE
    BY <1>3
  <2>6. rest \in [0 .. Len(q) -> 0 .. Len(ch)]
    BY <1>3, <2>2
  <2> QED
    BY <1>1, <2>4, <2>5, <2>6 DEF ChunksOK
<1>6. \A v : Extra(q, v) = 0
  BY DEF Extra, HeadIs
<1>7. ASSUME NEW v, NEW m \in Nat PROVE DueWithin(q, tk, v, m)
  <2>1. PICK due : due = [n \in 0 .. z |-> z]
    OBVIOUS
  <2>2. due \in [0 .. z -> 0 .. m] /\ due[z] = z /\ \A n \in 0 .. z : due[n] = z
    BY <1>2, <2>1
  <2>3. TokenWords(tk, v) = z
    BY <1>2 DEF TokenWords
  <2>4. IsDue(due, q, tk, v)
    <3>1. due[Len(q)] = TokenWords(tk, v)
      BY <1>3, <2>2, <2>3
    <3>2. \A i, n \in 0 .. Len(q) : i <= n => due[n] <= due[i]
      BY <1>2, <1>3, <2>2
    <3>3. \A n \in 1 .. Len(q) : FALSE
      BY <1>3
    <3> QED
      BY <3>1, <3>2, <3>3 DEF IsDue
  <2>5. due \in [0 .. Len(q) -> 0 .. m]
    BY <1>3, <2>2
  <2> QED
    BY <2>4, <2>5 DEF DueWithin
<1> QED
  BY <1>4, <1>5, <1>6, <1>7

Lone(gc) == IsGc(gc) /\ gc.state = "NONE" /\ gc.p_scan_addr = NULL

\* The pages are found as they are in the flash.
LEMMA ScannedLayout ==
  ASSUME NEW f, FlashOK(f), \A p \in Page : Kind(f, p) # "GC", NEW pages, Scanned(f, pages), NEW gc, Lone(gc),
         NEW none, none = <<>>, NEW stack, stack = NULL, NEW ds, ds = [s \in Slots |-> <<>>]
  PROVE  /\ Layout(pages, none, none, gc, stack, none, ds, f)
         /\ \A p \in Page : End(f, p) = StartAddr(p) + pages[p].write_offset
<1>1. PagesTyped(pages) /\ Apart(pages) /\ \A p \in Page : ScannedPage(f, pages, p)
  BY ScannedPages, ScannedIs
<1>2. \A p \in Page : pages[p].page_type = Kind(f, p) /\ pages[p].words_reserved = 0
                      /\ pages[p].page_type \in {"SWAP", "VALID", "GC", "ERASED"}
  BY <1>1 DEF ScannedPage
<1>3. IsGc(gc) /\ gc.state = "NONE" /\ gc.p_scan_addr = NULL
  BY DEF Lone
<1>4. KindsOK(pages, gc, f)
  BY <1>2, <1>3 DEF KindsOK, KindNow
<1>5. ASSUME NEW p \in Page
      PROVE  \E s \in Nat, t \in Nat, w \in Nat, l \in Nat :
                /\ s = StartAddr(p) /\ t = End(f, p) /\ w = pages[p].write_offset /\ l = FS_PAGE_SIZE_WORDS /\ w < l
                /\ s + w = t /\ (pages[p].page_type # "VALID" => w = 4)
  <2>1. PICK s \in Nat, t \in Nat, w \in Nat, l \in Nat :
       /\ s = StartAddr(p) /\ t = End(f, p) /\ w = pages[p].write_offset /\ l = FS_PAGE_SIZE_WORDS /\ w < l /\ 4 < l
       /\ Kind(f, p) = "VALID" => s + w = t
       /\ Kind(f, p) # "VALID" => w = 4
    BY <1>1 DEF ScannedPage
  <2>2. s + 4 = Base(p)
    BY <2>1, EndIs
  <2>3. CASE Kind(f, p) = "VALID"
    BY <1>2, <2>1, <2>3
  <2>4. CASE Kind(f, p) = "SWAP"
    <3>1. End(f, p) = Base(p)
      BY <2>4 DEF FlashOK
    <3> QED
      BY <1>2, <2>1, <2>2, <2>4, <3>1
  <2>5. CASE Kind(f, p) = "ERASED"
    <3>1. IsBlank(f, p) /\ WordsOK(f)
      BY <2>5, KindKnown DEF FlashOK, KindIs
    <3>2. End(f, p) = Base(p)
      BY <3>1, BlankPage
    <3> QED
      BY <1>2, <2>1, <2>2, <2>5, <3>2
  <2> QED
    BY <2>3, <2>4, <2>5, KindKnown
<1>6. \A p \in Page : End(f, p) = StartAddr(p) + pages[p].write_offset
  <2>1. TAKE p \in Page
  <2> QED
    BY <1>5
<1>7. /\ ChunksOK(none, none) /\ QueueOK(pages, none, gc) /\ \A v : Extra(none, v) = 0
      /\ \A v : \A m \in Nat : DueWithin(none, none, v, m)
  BY NothingQueued
<1>8. EndsOK(pages, none, f)
  <2>1. SUFFICES ASSUME NEW p \in Page
                 PROVE  End(f, p) = StartAddr(p) + pages[p].write_offset + Extra(none, pages[p].vpage_id)
    BY DEF EndsOK
  <2>2. PICK s \in Nat, t \in Nat, w \in Nat : s = StartAddr(p) /\ t = End(f, p) /\ w = pages[p].write_offset /\ s + w = t
    BY <1>5, <2>1
  <2>3. PICK z \in Nat : z = Extra(none, pages[p].vpage_id) /\ z = 0
    BY <1>7
  <2>4. t = s + w + z
    BY <2>2, <2>3
  <2> QED
    BY <2>2, <2>3, <2>4
<1>9. RoomOK(pages, gc)
  <2>1. ASSUME NEW p \in Page, pages[p].page_type = "VALID"
        PROVE  pages[p].write_offset + pages[p].words_reserved < FS_PAGE_SIZE_WORDS
    <3>1. PICK w \in Nat, l \in Nat : w = pages[p].write_offset /\ l = FS_PAGE_SIZE_WORDS /\ w < l
      BY <1>5, <2>1
    <3>2. PICK z \in Nat : z = pages[p].words_reserved /\ z = 0
      BY <1>2, <2>1
    <3>3. w + z < l
      BY <3>1, <3>2
    <3> QED
      BY <3>1, <3>2, <3>3
  <2>2. ASSUME NEW p \in Page, pages[p].page_type # "VALID" PROVE pages[p].write_offset = 4
    BY <1>5, <2>2
  <2> QED
    BY <1>2, <2>1, <2>2 DEF RoomOK
<1>10. PagesOK(pages, none, gc, f)
  BY <1>1, <1>4, <1>8, <1>9 DEF PagesOK
<1>11. SpaceOK(pages, none, none)
  <2>1. \A p \in Page : pages[p].words_reserved \in Nat
    BY <1>1 DEF PagesTyped, IsPage
  <2> QED
    BY <1>7, <2>1 DEF SpaceOK, TokenOK
<1>12. GcOK(pages, none, gc, stack, f)
  BY <1>3 DEF GcOK, Mid
<1>13. DescsOK(pages, ds)
  BY DEF DescsOK
<1>14. StackOK(pages, stack, f)
  BY DEF StackOK
<1> QED
  BY <1>6, <1>7, <1>10, <1>11, <1>12, <1>13, <1>14 DEF Layout

\* The RAM once the pages have been looked at.
Found(y, f, x) ==
  /\ Ram(x) /\ FsKept(y, x) /\ x.reported = y.reported /\ x.kept = y.kept /\ x.m_flags = y.m_flags
  /\ x.m_cmd_queue = y.m_cmd_queue /\ x.m_chunk_queue = y.m_chunk_queue /\ x.stack = y.stack
  /\ Scanned(f, x.m_pages) /\ x.m_last_rec_id \in 0 .. MaxId
  /\ x.m_swap_page_avail = (y.m_swap_page_avail \/ \E p \in Page : Kind(f, p) = "SWAP")
  /\ IsGc(x.m_gc) /\ x.m_gc.p_scan_addr = y.m_gc.p_scan_addr
  /\ (\A p \in Page : Kind(f, p) # "GC") => x.m_gc.state = y.m_gc.state
  /\ (\E p \in Page : Kind(f, p) = "SWAP") => Kind(f, x.m_gc.swap_page) = "SWAP"
LastId(f, last) == last = Max({0} \cup IdsUsed(f))

\* The last number found is within its bound.
LEMMA LastIdIs ==
  ASSUME NEW f, FlashOK(f), NEW last, LastId(f, last)
  PROVE  last \in 0 .. MaxId
<1>1. PICK s : s = {0} \cup IdsUsed(f)
  OBVIOUS
<1>2. PICK m \in Nat : m = MaxId
  BY FdsAssumption
<1>3. ASSUME NEW k \in s PROVE k \in 0 .. m
  <2>1. CASE k = 0
    BY <2>1
  <2>2. CASE k # 0
    <3>1. PICK a \in UNION {HeadersOf(f, p) : p \in OfType(f, "VALID")} : k = IdAt(f, a)
      BY <1>1, <1>3, <2>2 DEF IdsUsed
    <3>2. PICK p \in Page : a \in HeadersOf(f, p)
      BY DEF OfType
    <3> QED
      BY <1>2, <3>1, <3>2, IdAtIs
  <2> QED
    BY <2>1, <2>2
<1>4. s # {}
  BY <1>1
<1>5. Max(s) \in s
  BY <1>3, <1>4, MaxIs
<1>6. last = Max(s)
  BY <1>1 DEF LastId
<1> QED
  BY <1>2, <1>3, <1>5, <1>6

\* A page of a kind, if there is one.
LastOf(s, old, p) == p = IF s = {} THEN old ELSE Max(s)

\* The last of some pages is one of them.
LEMMA LastIs ==
  ASSUME NEW s, s \subseteq Page, NEW old \in Page, NEW p, LastOf(s, old, p)
  PROVE  p \in Page /\ (s # {} => p \in s)
<1>1. PICK n \in Nat : Page = 0 .. n - 1 /\ n >= 1
  BY Sizes
<1>2. PICK m \in Nat : m = n - 1
  BY <1>1, SMT
<1>3. \A a \in s : a \in 0 .. m
  BY <1>1, <1>2
<1>4. CASE s = {}
  BY <1>4 DEF LastOf
<1>5. CASE s # {}
  <2>1. Max(s) \in s
    BY <1>3, <1>5, MaxIs
  <2> QED
    BY <1>5, <2>1 DEF LastOf
<1> QED
  BY <1>4, <1>5

ScansWith(y, f, x, swap, gcs, last, pages, avail, p, c, state) ==
  /\ swap = OfType(f, "SWAP") /\ gcs = OfType(f, "GC") /\ LastId(f, last) /\ Scanned(f, pages)
  /\ avail = (y.m_swap_page_avail \/ swap # {})
  /\ p = (IF swap = {} THEN y.m_gc.swap_page ELSE Max(swap))
  /\ c = (IF gcs = {} THEN y.m_gc.cur_page ELSE Max(gcs))
  /\ state = (IF gcs = {} THEN y.m_gc.state ELSE "GC_PAGE")
  /\ x = [y EXCEPT !.m_last_rec_id = last, !.m_pages = pages, !.m_swap_page_avail = avail,
                   !.m_gc.swap_page = p, !.m_gc.cur_page = c, !.m_gc.state = state]

\* What fds_init() makes of the pages, name by name.
LEMMA PagesInitIs ==
  ASSUME NEW y, NEW f, NEW x, x = PagesInit(y, f), Ram(y), IsGc(y.m_gc)
  PROVE  \E swap, gcs, last, pages, avail, p, c, state : ScansWith(y, f, x, swap, gcs, last, pages, avail, p, c, state)
<1>1. PICK swap, gcs, last, pages, avail, p, c, state :
    /\ swap = OfType(f, "SWAP") /\ gcs = OfType(f, "GC") /\ last = Max({0} \cup IdsUsed(f))
    /\ pages = [i \in Page |-> FoundPage(f, i)]
    /\ avail = (y.m_swap_page_avail \/ swap # {})
    /\ p = (IF swap = {} THEN y.m_gc.swap_page ELSE Max(swap))
    /\ c = (IF gcs = {} THEN y.m_gc.cur_page ELSE Max(gcs))
    /\ state = (IF gcs = {} THEN y.m_gc.state ELSE "GC_PAGE")
  OBVIOUS
<1>2. x = [y EXCEPT !.m_last_rec_id = last, !.m_pages = pages, !.m_swap_page_avail = avail,
                   !.m_gc.swap_page = p, !.m_gc.cur_page = c, !.m_gc.state = state]
  BY <1>1 DEF PagesInit
<1>3. LastId(f, last) /\ Scanned(f, pages)
  BY <1>1 DEF LastId, Scanned
<1>4. ScansWith(y, f, x, swap, gcs, last, pages, avail, p, c, state)
  BY <1>1, <1>2, <1>3 DEF ScansWith
<1> QED
  BY <1>4

\* What it has found is sound.
LEMMA ScansFound ==
  ASSUME NEW y, Ram(y), IsGc(y.m_gc), NEW f, FlashOK(f), NEW x, x = PagesInit(y, f)
  PROVE  Found(y, f, x)
<1>0. PICK swap, gcs, last, pages, avail, p, c, state : ScansWith(y, f, x, swap, gcs, last, pages, avail, p, c, state)
  BY PagesInitIs
<1>1. /\ swap = OfType(f, "SWAP") /\ gcs = OfType(f, "GC") /\ LastId(f, last) /\ Scanned(f, pages)
      /\ avail = (y.m_swap_page_avail \/ swap # {})
      /\ p = (IF swap = {} THEN y.m_gc.swap_page ELSE Max(swap))
      /\ c = (IF gcs = {} THEN y.m_gc.cur_page ELSE Max(gcs))
      /\ state = (IF gcs = {} THEN y.m_gc.state ELSE "GC_PAGE")
      /\ x = [y EXCEPT !.m_last_rec_id = last, !.m_pages = pages, !.m_swap_page_avail = avail,
                       !.m_gc.swap_page = p, !.m_gc.cur_page = c, !.m_gc.state = state]
  BY <1>0 DEF ScansWith
<1>3. swap = {i \in Page : Kind(f, i) = "SWAP"} /\ gcs = {i \in Page : Kind(f, i) = "GC"}
  BY <1>1 DEF OfType, Kind
<1>5. last \in 0 .. MaxId
  BY <1>1, LastIdIs
<1>6. Scanned(f, pages)
  BY <1>1
<1>7. y.m_gc.cur_page \in Page /\ y.m_gc.swap_page \in Page /\ y.m_gc.do_gc_page \subseteq Page
  BY DEF IsGc
<1>8. LastOf(swap, y.m_gc.swap_page, p) /\ LastOf(gcs, y.m_gc.cur_page, c)
  BY <1>1 DEF LastOf
<1>9. swap \subseteq Page /\ gcs \subseteq Page
  BY <1>3
<1>10. p \in Page /\ (swap # {} => p \in swap)
  BY <1>7, <1>8, <1>9, LastIs
<1>11. c \in Page
  BY <1>7, <1>8, <1>9, LastIs
<1>12. PICK gc : gc = y.m_gc
  OBVIOUS
<1>13. gc = [state |-> gc.state, cur_page |-> gc.cur_page, swap_page |-> gc.swap_page,
             p_scan_addr |-> gc.p_scan_addr, do_gc_page |-> gc.do_gc_page]
  BY <1>12 DEF IsGc
<1>14. PICK new : new = [state |-> state, cur_page |-> c, swap_page |-> p,
                         p_scan_addr |-> gc.p_scan_addr, do_gc_page |-> gc.do_gc_page]
  OBVIOUS
<1>15. [gc EXCEPT !.swap_page = p, !.cur_page = c, !.state = state] = new
  <2>1. PICK g1 : g1 = [gc EXCEPT !.swap_page = p]
    OBVIOUS
  <2>2. g1 = [state |-> gc.state, cur_page |-> gc.cur_page, swap_page |-> p,
              p_scan_addr |-> gc.p_scan_addr, do_gc_page |-> gc.do_gc_page]
    BY <1>13, <2>1
  <2>3. PICK g2 : g2 = [g1 EXCEPT !.cur_page = c]
    OBVIOUS
  <2>4. g2 = [state |-> gc.state, cur_page |-> c, swap_page |-> p,
              p_scan_addr |-> gc.p_scan_addr, do_gc_page |-> gc.do_gc_page]
    BY <2>2, <2>3
  <2>5. PICK g3 : g3 = [g2 EXCEPT !.state = state]
    OBVIOUS
  <2>6. g3 = new
    BY <1>14, <2>4, <2>5
  <2>7. [gc EXCEPT !.swap_page = p, !.cur_page = c, !.state = state] = g3
    BY <2>1, <2>3, <2>5
  <2> QED
    BY <2>6, <2>7
<1>16. x = [y EXCEPT !.m_last_rec_id = last, !.m_pages = pages, !.m_swap_page_avail = avail, !.m_gc = new]
  <2>1. x = [y EXCEPT !.m_last_rec_id = last, !.m_pages = pages, !.m_swap_page_avail = avail,
                      !.m_gc = [gc EXCEPT !.swap_page = p, !.cur_page = c, !.state = state]]
    <3>1. PICK z : z = [y EXCEPT !.m_last_rec_id = last, !.m_pages = pages, !.m_swap_page_avail = avail]
      OBVIOUS
    <3>2. Ram(z) /\ z.m_gc = gc
      BY <1>12, <3>1 DEF Ram
    <3>3. x = [[[z EXCEPT !.m_gc.swap_page = p] EXCEPT !.m_gc.cur_page = c] EXCEPT !.m_gc.state = state]
      BY <1>1, <3>1
    <3>4. PICK z1 : z1 = [z EXCEPT !.m_gc.swap_page = p]
      OBVIOUS
    <3>5. z1 = [z EXCEPT !.m_gc = [gc EXCEPT !.swap_page = p]]
      BY <3>2, <3>4
    <3>6. Ram(z1) /\ z1.m_gc = [gc EXCEPT !.swap_page = p]
      BY <3>2, <3>5 DEF Ram
    <3>7. PICK z2 : z2 = [z1 EXCEPT !.m_gc.cur_page = c]
      OBVIOUS
    <3>8. z2 = [z1 EXCEPT !.m_gc = [gc EXCEPT !.swap_page = p, !.cur_page = c]]
      BY <3>6, <3>7
    <3>9. Ram(z2) /\ z2.m_gc = [gc EXCEPT !.swap_page = p, !.cur_page = c]
      BY <3>6, <3>8 DEF Ram
    <3>10. x = [z2 EXCEPT !.m_gc = [gc EXCEPT !.swap_page = p, !.cur_page = c, !.state = state]]
      BY <3>3, <3>4, <3>7, <3>9
    <3>11. PICK g3 : g3 = [gc EXCEPT !.swap_page = p, !.cur_page = c, !.state = state]
      OBVIOUS
    <3>12. x = [z EXCEPT !.m_gc = g3]
      <4>1. PICK g1, g2 : g1 = [gc EXCEPT !.swap_page = p] /\ g2 = [gc EXCEPT !.swap_page = p, !.cur_page = c]
        OBVIOUS
      <4>2. z1 = [z EXCEPT !.m_gc = g1] /\ z2 = [z1 EXCEPT !.m_gc = g2] /\ x = [z2 EXCEPT !.m_gc = g3]
        BY <3>5, <3>8, <3>10, <3>11, <4>1
      <4> QED
        BY <3>2, <4>2 DEF Ram
    <3> QED
      BY <3>1, <3>11, <3>12
  <2> QED
    BY <1>15, <2>1
<1>17. /\ Ram(x) /\ FsKept(y, x) /\ x.reported = y.reported /\ x.kept = y.kept /\ x.m_flags = y.m_flags
       /\ x.m_cmd_queue = y.m_cmd_queue /\ x.m_chunk_queue = y.m_chunk_queue /\ x.stack = y.stack
       /\ x.m_pages = pages /\ x.m_last_rec_id = last /\ x.m_swap_page_avail = avail /\ x.m_gc = new
  BY ZenonT(30), <1>16 DEF Ram, FsKept
<1>18. new.state = state /\ new.cur_page = c /\ new.swap_page = p /\ new.p_scan_addr = gc.p_scan_addr /\ new.do_gc_page = gc.do_gc_page
  BY <1>14
<1>19. IsGc(new)
  BY <1>7, <1>10, <1>11, <1>12, <1>14, <1>18 DEF IsGc
<1>20. (\A i \in Page : Kind(f, i) # "GC") => state = gc.state
  BY <1>1, <1>3, <1>12
<1>21. (\E i \in Page : Kind(f, i) = "SWAP") => Kind(f, p) = "SWAP"
  BY <1>3, <1>10
<1>22. avail = (y.m_swap_page_avail \/ \E i \in Page : Kind(f, i) = "SWAP")
  <2>1. (swap # {}) <=> \E i \in Page : Kind(f, i) = "SWAP"
    BY <1>3
  <2> QED
    BY <1>1, <2>1
<1> QED
  BY <1>5, <1>6, <1>12, <1>17, <1>18, <1>19, <1>20, <1>21, <1>22 DEF Found

--------------------------------------------------------------------------------

(* What fds_init does of what it has found. *)

\* The RAM after the pages have been looked at, with nothing in the queue.
Looked(y, f, ds, x) ==
  /\ Found(y, f, x) /\ Ram(y) /\ FlashOK(f) /\ y.m_cmd_queue = <<>> /\ y.m_chunk_queue = <<>> /\ y.fs_queue = <<>>
  /\ "PROCESSING" \notin y.m_flags /\ "INITIALIZING" \notin y.m_flags /\ "INITIALIZED" \notin y.m_flags
  /\ y.stack = NULL /\ ds = [s \in Slots |-> <<>>]
  /\ \/ \A p \in Page : Kind(f, p) \notin {"VALID", "ERASED"}
     \/ y.m_swap_page_avail = FALSE /\ y.m_gc.state = "NONE" /\ y.m_gc.p_scan_addr = NULL

\* What has been looked at, by its parts.
LEMMA LookedIs ==
  ASSUME NEW y, NEW f, NEW ds, NEW x, Looked(y, f, ds, x)
  PROVE  /\ Ram(x) /\ FsKept(y, x) /\ x.reported = y.reported /\ x.kept = y.kept /\ x.m_flags = y.m_flags
         /\ x.m_cmd_queue = <<>> /\ x.m_chunk_queue = <<>> /\ x.fs_queue = <<>> /\ x.stack = NULL
         /\ Scanned(f, x.m_pages) /\ PagesTyped(x.m_pages) /\ x.m_last_rec_id \in 0 .. MaxId /\ IsGc(x.m_gc)
         /\ \A p \in Page : x.m_pages[p].page_type = Kind(f, p)
         /\ \A p \in Page : x.m_pages[p].words_reserved < FS_PAGE_SIZE_WORDS /\ x.m_pages[p].write_offset < FS_PAGE_SIZE_WORDS
<1>1. Found(y, f, x) /\ FlashOK(f) /\ y.m_cmd_queue = <<>> /\ y.m_chunk_queue = <<>> /\ y.fs_queue = <<>> /\ y.stack = NULL
  BY DEF Looked
<1>2. /\ Ram(x) /\ FsKept(y, x) /\ x.reported = y.reported /\ x.kept = y.kept /\ x.m_flags = y.m_flags
      /\ x.m_cmd_queue = <<>> /\ x.m_chunk_queue = <<>> /\ x.stack = NULL
      /\ Scanned(f, x.m_pages) /\ x.m_last_rec_id \in 0 .. MaxId /\ IsGc(x.m_gc)
  BY <1>1 DEF Found
<1>3. x.fs_queue = <<>>
  BY <1>1, <1>2 DEF FsKept
<1>4. PICK pages : pages = x.m_pages
  OBVIOUS
<1>5. PagesTyped(pages)
         /\ \A p \in Page : pages[p].words_reserved < FS_PAGE_SIZE_WORDS /\ pages[p].write_offset < FS_PAGE_SIZE_WORDS
  BY <1>1, <1>2, <1>4, ScannedPages
<1>6. \A p \in Page : ScannedPage(f, pages, p)
  BY <1>1, <1>2, <1>4, ScannedIs
<1>7. \A p \in Page : pages[p].page_type = Kind(f, p)
  BY <1>6 DEF ScannedPage
<1> QED
  BY <1>2, <1>3, <1>4, <1>5, <1>7

FlagsTo(x, flags, z) == z = [x EXCEPT !.m_flags = flags]

\* What changes when the flags do.
LEMMA FlagsToIs ==
  ASSUME NEW x, Ram(x), NEW flags, NEW z, FlagsTo(x, flags, z)
  PROVE  /\ Ram(z) /\ FsKept(x, z) /\ z.m_flags = flags /\ z.m_cmd_queue = x.m_cmd_queue /\ z.m_chunk_queue = x.m_chunk_queue
         /\ z.m_pages = x.m_pages /\ z.m_gc = x.m_gc /\ z.stack = x.stack /\ z.m_last_rec_id = x.m_last_rec_id
         /\ z.m_swap_page_avail = x.m_swap_page_avail /\ z.reported = x.reported /\ z.kept = x.kept
<1> QED
  BY DEF Ram, FlagsTo, FsKept

\* It returns with nothing queued, and is not initialised.
LEMMA LookedDozes ==
  ASSUME NEW y, NEW f, NEW tk, tk = <<>>, NEW ds, NEW x, Looked(y, f, ds, x), FsOK(y),
         NEW flags, NEW z, FlagsTo(x, flags, z), "PROCESSING" \notin flags, "INITIALIZED" \notin flags,
         "INITIALIZING" \in flags \/ \A p \in Page : Kind(f, p) \notin {"VALID", "ERASED"}
  PROVE  Settles(z, f, tk, ds)
<1>1. /\ Ram(x) /\ FsKept(y, x) /\ x.reported = y.reported /\ x.kept = y.kept /\ x.m_flags = y.m_flags
      /\ x.m_cmd_queue = <<>> /\ x.m_chunk_queue = <<>> /\ x.fs_queue = <<>> /\ x.stack = NULL
      /\ PagesTyped(x.m_pages) /\ IsGc(x.m_gc)
      /\ \A p \in Page : x.m_pages[p].words_reserved < FS_PAGE_SIZE_WORDS /\ x.m_pages[p].write_offset < FS_PAGE_SIZE_WORDS
  BY LookedIs
<1>2. /\ Ram(z) /\ FsKept(x, z) /\ z.m_flags = flags /\ z.m_cmd_queue = <<>> /\ z.m_chunk_queue = <<>>
      /\ z.m_pages = x.m_pages /\ z.m_gc = x.m_gc /\ z.stack = NULL
      /\ z.reported = x.reported /\ z.kept = x.kept
  BY <1>1, FlagsToIs
<1>3. z.fs_queue = <<>>
  BY <1>1, <1>2 DEF FsKept
<1>4. FsOK(x)
  BY <1>1, FsSame
<1>5. FsOK(z)
  BY <1>2, <1>4, FsSame
<1>6. ds = [s \in Slots |-> <<>>]
  BY DEF Looked
<1>7. Dormant(z, f, tk, ds)
  <2>1. \A s \in Slots : ds[s] = <<>>
    BY <1>6
  <2>2. /\ z.m_chunk_queue = <<>> /\ z.fs_queue = <<>> /\ PagesTyped(z.m_pages) /\ "PROCESSING" \notin z.m_flags
        /\ \A p \in Page : z.m_pages[p].words_reserved < FS_PAGE_SIZE_WORDS /\ z.m_pages[p].write_offset < FS_PAGE_SIZE_WORDS
    BY <1>1, <1>2, <1>3
  <2>3. "INITIALIZING" \notin z.m_flags => \A p \in Page : Kind(f, p) \notin {"VALID", "ERASED"}
    BY <1>2
  <2> QED
    BY <1>1, <1>2, <1>6, <2>1, <2>2, <2>3 DEF Dormant
<1>8. ~Active(z)
  BY <1>2 DEF Active
<1> QED
  BY <1>2, <1>5, <1>7, <1>8 DEF Settles

\* There is no collection to take up again, and there are pages to use.
Usable(f) == (\A p \in Page : Kind(f, p) # "GC") /\ \E p \in Page : Kind(f, p) \in {"VALID", "ERASED"}

\* Where a swap page is left, the layout holds.
LEMMA LookedLayout ==
  ASSUME NEW y, NEW f, NEW ds, NEW x, Looked(y, f, ds, x), Usable(f), NEW tk, tk = <<>>
  PROVE  /\ Layout(x.m_pages, x.m_cmd_queue, x.m_chunk_queue, x.m_gc, x.stack, tk, ds, f)
         /\ \A p \in Page : End(f, p) = StartAddr(p) + x.m_pages[p].write_offset
         /\ Lone(x.m_gc) /\ x.m_swap_page_avail \in BOOLEAN
         /\ x.m_swap_page_avail = TRUE => Kind(f, x.m_gc.swap_page) = "SWAP"
         /\ (\E p \in Page : Kind(f, p) = "SWAP") => Kind(f, x.m_gc.swap_page) = "SWAP"
<1>1. /\ x.m_cmd_queue = <<>> /\ x.m_chunk_queue = <<>> /\ x.stack = NULL
      /\ Scanned(f, x.m_pages) /\ IsGc(x.m_gc)
  BY LookedIs
<1>2. /\ Found(y, f, x) /\ FlashOK(f) /\ ds = [s \in Slots |-> <<>>]
      /\ \/ \A p \in Page : Kind(f, p) \notin {"VALID", "ERASED"}
         \/ y.m_swap_page_avail = FALSE /\ y.m_gc.state = "NONE" /\ y.m_gc.p_scan_addr = NULL
  BY DEF Looked
<1>3. /\ \A p \in Page : Kind(f, p) # "GC"
      /\ \E p \in Page : Kind(f, p) \in {"VALID", "ERASED"}
  BY DEF Usable
<1>4. y.m_swap_page_avail = FALSE /\ y.m_gc.state = "NONE" /\ y.m_gc.p_scan_addr = NULL
  BY <1>2, <1>3
<1>5. /\ x.m_gc.p_scan_addr = NULL /\ x.m_gc.state = "NONE"
      /\ x.m_swap_page_avail = (y.m_swap_page_avail \/ \E p \in Page : Kind(f, p) = "SWAP")
      /\ (\E p \in Page : Kind(f, p) = "SWAP") => Kind(f, x.m_gc.swap_page) = "SWAP"
  BY <1>2, <1>3, <1>4 DEF Found
<1>6. Lone(x.m_gc)
  BY <1>1, <1>5 DEF Lone
<1>7. x.m_swap_page_avail \in BOOLEAN /\ (x.m_swap_page_avail = TRUE => \E p \in Page : Kind(f, p) = "SWAP")
  BY <1>4, <1>5, Zenon
<1>8. PICK pages, gc, none, stack : pages = x.m_pages /\ gc = x.m_gc /\ none = <<>> /\ stack = NULL
  OBVIOUS
<1>9. /\ Layout(pages, none, none, gc, stack, none, ds, f)
      /\ \A p \in Page : End(f, p) = StartAddr(p) + pages[p].write_offset
  BY <1>1, <1>2, <1>3, <1>6, <1>8, ScannedLayout
<1> QED
  BY <1>1, <1>5, <1>6, <1>7, <1>8, <1>9

\* All the pages are formatted: the data storage is ready.
LEMMA LookedReady ==
  ASSUME NEW y, NEW f, NEW tk, tk = <<>>, NEW ds, NEW x, Looked(y, f, ds, x), FsOK(y), Usable(f),
         \A p \in Page : Kind(f, p) # "ERASED",
         NEW flags, flags = y.m_flags \cup {"INITIALIZED"}, NEW z, FlagsTo(x, flags, z)
  PROVE  Settles(z, f, tk, ds)
<1>1. /\ Ram(x) /\ FsKept(y, x) /\ x.reported = y.reported /\ x.kept = y.kept /\ x.m_flags = y.m_flags
      /\ x.m_cmd_queue = <<>> /\ x.m_chunk_queue = <<>> /\ x.fs_queue = <<>> /\ x.m_last_rec_id \in 0 .. MaxId
      /\ \A p \in Page : x.m_pages[p].page_type = Kind(f, p)
  BY LookedIs
<1>2. /\ Layout(x.m_pages, x.m_cmd_queue, x.m_chunk_queue, x.m_gc, x.stack, tk, ds, f)
      /\ \A p \in Page : End(f, p) = StartAddr(p) + x.m_pages[p].write_offset
      /\ Lone(x.m_gc)
      /\ (\E p \in Page : Kind(f, p) = "SWAP") => Kind(f, x.m_gc.swap_page) = "SWAP"
  BY LookedLayout
<1>3. /\ Ram(z) /\ FsKept(x, z) /\ z.m_flags = flags /\ z.m_cmd_queue = x.m_cmd_queue /\ z.m_chunk_queue = x.m_chunk_queue
      /\ z.m_pages = x.m_pages /\ z.m_gc = x.m_gc /\ z.stack = x.stack /\ z.m_last_rec_id = x.m_last_rec_id
      /\ z.reported = x.reported /\ z.kept = x.kept
  BY <1>1, FlagsToIs
<1>4. FsOK(x)
  BY <1>1, FsSame
<1>5. FsOK(z) /\ z.fs_queue = x.fs_queue
  BY <1>3, <1>4, FsSame
<1>6. z.fs_queue = <<>> /\ z.m_cmd_queue = <<>>
  BY <1>1, <1>3, <1>5
<1>7. ~Pending(z) /\ Now(z, f) = f
  BY <1>6 DEF Pending, Now
<1>8. Core(z, Now(z, f), tk, ds)
  BY <1>2, <1>3, <1>7 DEF Core
<1>9. \E p \in Page : Kind(f, p) = "SWAP"
  <2>1. FlashOK(f)
    BY DEF Looked
  <2>2. PICK p \in Page : Kind(f, p) # "VALID"
    BY <2>1 DEF FlashOK
  <2>3. Kind(f, p) \in {"SWAP", "VALID", "GC", "ERASED"}
    BY <2>1, KindKnown
  <2> QED
    BY <2>2, <2>3 DEF Usable
<1>10. x.m_gc.swap_page \in Page
  BY <1>2 DEF Lone, IsGc
<1>11. z.m_pages[z.m_gc.swap_page].page_type = "SWAP" /\ z.m_gc.state = "NONE"
  BY <1>1, <1>2, <1>3, <1>9, <1>10 DEF Lone
<1>12. FlagsOK(z)
  <2>1. "PROCESSING" \notin z.m_flags
    BY <1>3 DEF Looked
  <2>2. \A ids : ~HeadIs(z.m_cmd_queue, ids)
    BY <1>6 DEF HeadIs
  <2> QED
    BY <1>1, <1>3, <1>6, <1>11, <2>1, <2>2 DEF FlagsOK
<1>13. BoundsOK(z)
  <2>1. PICK q, ch : q = z.m_cmd_queue /\ ch = z.m_chunk_queue
    OBVIOUS
  <2>2. q = <<>> /\ ch = <<>>
    BY <1>1, <1>3, <1>6, <2>1
  <2>3. Len(q) = 0 /\ Len(ch) = 0
    BY <2>2, ListNone
  <2>4. FDS_CMD_QUEUE_SIZE \in Nat /\ FDS_CHUNK_QUEUE_SIZE \in Nat
    BY FdsAssumption
  <2>5. Len(q) <= FDS_CMD_QUEUE_SIZE /\ Len(ch) <= FDS_CHUNK_QUEUE_SIZE
    BY <2>3, <2>4
  <2> QED
    BY <2>1, <2>5 DEF BoundsOK
<1>14. Place(z, Now(z, f))
  BY <1>6 DEF Place
<1>15. Accounts(z.m_pages, z.m_cmd_queue, f)
  BY <1>2, <1>3 DEF Accounts
<1>16. Active(z)
  BY <1>3 DEF Active
<1> QED
  BY <1>3, <1>5, <1>7, <1>8, <1>12, <1>13, <1>14, <1>15, <1>16 DEF Settles, Good

\* The command that formats the pages comes.
LEMMA InitLayout ==
  ASSUME NEW pages, NEW gc, NEW stack, NEW ds, NEW f, NEW none, none = <<>>,
         Layout(pages, none, none, gc, stack, none, ds, f), Lone(gc),
         NEW c, IsCmd(c), c.id = "INIT", c.num_chunks \in Nat, NEW r, r = <<c>>
  PROVE  Layout(pages, r, none, gc, stack, none, ds, f)
<1>1. /\ PagesOK(pages, none, gc, f) /\ QueueOK(pages, none, gc) /\ ChunksOK(none, none) /\ SpaceOK(pages, none, none)
      /\ StackOK(pages, stack, f) /\ GcOK(pages, none, gc, stack, f) /\ DescsOK(pages, ds)
  BY DEF Layout
<1>2. IsGc(gc) /\ gc.state = "NONE" /\ gc.p_scan_addr = NULL
  BY DEF Lone
<1>3. IsList(none) /\ Len(none) = 0
  BY ListNone
<1>4. r = Append(none, c)
  OBVIOUS
<1>5. IsList(r) /\ Len(r) = 1 /\ r[1] = c /\ Head(r) = c
  BY ListOne
<1>6. ~IsStore(c) /\ ~IsStore(Head(r))
  BY <1>5 DEF IsStore
<1>7. \A i \in 1 .. Len(none) : none[i].num_chunks \in Nat
  BY <1>3
<1>8. ChunksOK(r, none)
  BY <1>1, <1>3, <1>4, <1>6, <1>7, ChunksPlus
<1>9. PagesTyped(pages)
  BY <1>1 DEF PagesOK
<1>10. SpaceOK(pages, r, none)
  BY <1>1, <1>4, <1>6, <1>9, SpacePlain
<1>11. \A v : Extra(r, v) = 0 /\ Extra(none, v) = 0
  <2>1. \A v : Extra(r, v) = 0
    BY <1>5, <1>6, NoExtra
  <2>2. \A v : Extra(none, v) = 0
    BY DEF Extra, HeadIs
  <2> QED
    BY <2>1, <2>2
<1>12. EndsOK(pages, r, f)
  BY <1>1, <1>11 DEF PagesOK, EndsOK
<1>13. PagesOK(pages, r, gc, f)
  BY <1>1, <1>12 DEF PagesOK
<1>14. QueueOK(pages, r, gc)
  <2>1. CmdOK(pages, c)
    BY <1>6 DEF CmdOK
  <2>2. \A n \in 1 .. Len(r) : n = 1
    BY <1>5
  <2>3. \A n \in 1 .. Len(r) : ~(n > 1)
    BY <2>2
  <2>4. \A n \in 1 .. Len(r) : r[n] = c
    BY <1>5, <2>2
  <2> QED
    BY <1>5, <2>1, <2>2, <2>3, <2>4 DEF QueueOK
<1>15. GcOK(pages, r, gc, stack, f)
  BY <1>2 DEF GcOK, Mid
<1> QED
  BY <1>1, <1>8, <1>10, <1>13, <1>14, <1>15 DEF Layout

Formatting(x, flags, c, z) == z = [x EXCEPT !.m_flags = flags, !.m_cmd_queue = <<c>>]

\* What changes when the command to format comes.
LEMMA FormattingIs ==
  ASSUME NEW x, Ram(x), NEW flags, NEW c, NEW z, Formatting(x, flags, c, z)
  PROVE  /\ Ram(z) /\ FsKept(x, z) /\ z.m_flags = flags /\ z.m_cmd_queue = <<c>> /\ z.m_chunk_queue = x.m_chunk_queue
         /\ z.m_pages = x.m_pages /\ z.m_gc = x.m_gc /\ z.stack = x.stack /\ z.m_last_rec_id = x.m_last_rec_id
         /\ z.m_swap_page_avail = x.m_swap_page_avail /\ z.reported = x.reported /\ z.kept = x.kept
<1> QED
  BY DEF Ram, Formatting, FsKept

\* The command that formats the pages.
LEMMA InitCommand ==
  ASSUME NEW c, c = Command("INIT", "NONE")
  PROVE  IsCmd(c) /\ c.id = "INIT" /\ c.num_chunks \in Nat
<1>1. PICK z \in Nat : z = 0
  OBVIOUS
<1>2. PICK t \in Nat : t = 3
  OBVIOUS
<1>3. z \in Page /\ z \in 0 .. MaxId
  BY <1>1, Sizes, FdsAssumption
<1>4. c = [id |-> "INIT", op_code |-> "NONE", num_chunks |-> z, chunk_offset |-> t,
           vpage_id |-> z, record_id |-> z, length_words |-> z, instance |-> z, data |-> <<>>]
  BY <1>1, <1>2 DEF Command, OFFSET_DATA
<1> QED
  BY <1>3, <1>4 DEF IsCmd

FormatsAt(x, z, f, tk, ds, c) ==
  At(z, f, tk, ds) /\ Formats(z) /\ z.m_pages = x.m_pages /\ z.reported = NoOp /\ z.kept = FALSE /\ z.m_cmd_queue = <<c>>

\* With it at the head of the queue, the invariant holds.
LEMMA LookedAt ==
  ASSUME NEW y, NEW f, NEW tk, tk = <<>>, NEW ds, NEW x, Looked(y, f, ds, x), FsOK(y), Usable(f),
         NEW flags, "INITIALIZING" \in flags, "PROCESSING" \in flags, "INITIALIZED" \notin flags,
         NEW c, c = Command("INIT", "NONE"), NEW z, Formatting(x, flags, c, z)
  PROVE  FormatsAt(x, z, f, tk, ds, c)
<1>1. /\ Ram(x) /\ FsKept(y, x) /\ x.reported = y.reported /\ x.kept = y.kept
      /\ x.m_cmd_queue = <<>> /\ x.m_chunk_queue = <<>> /\ x.fs_queue = <<>> /\ x.m_last_rec_id \in 0 .. MaxId
      /\ \A p \in Page : x.m_pages[p].page_type = Kind(f, p)
  BY LookedIs
<1>2. /\ Layout(x.m_pages, x.m_cmd_queue, x.m_chunk_queue, x.m_gc, x.stack, tk, ds, f)
      /\ Lone(x.m_gc) /\ x.m_swap_page_avail \in BOOLEAN
      /\ x.m_swap_page_avail = TRUE => Kind(f, x.m_gc.swap_page) = "SWAP"
  BY LookedLayout
<1>3. /\ Ram(z) /\ FsKept(x, z) /\ z.m_flags = flags /\ z.m_cmd_queue = <<c>> /\ z.m_chunk_queue = x.m_chunk_queue
      /\ z.m_pages = x.m_pages /\ z.m_gc = x.m_gc /\ z.stack = x.stack /\ z.m_last_rec_id = x.m_last_rec_id
      /\ z.m_swap_page_avail = x.m_swap_page_avail /\ z.reported = x.reported /\ z.kept = x.kept
  BY <1>1, FormattingIs
<1>4. FsOK(x)
  BY <1>1, FsSame
<1>5. FsOK(z) /\ z.fs_queue = x.fs_queue
  BY <1>3, <1>4, FsSame
<1>6. z.fs_queue = <<>> /\ z.reported = NoOp /\ z.kept = FALSE /\ z.result = "SUCCESS" /\ FsAt(z)
  BY <1>1, <1>5, FsAtIs
<1>7. Free(z)
  BY <1>6 DEF Free, FsAt
<1>8. PICK pages, gc, none, stack, r : pages = x.m_pages /\ gc = x.m_gc /\ none = <<>> /\ stack = x.stack /\ r = <<c>>
  OBVIOUS
<1>9. IsCmd(c) /\ c.id = "INIT" /\ c.num_chunks \in Nat
  BY InitCommand
<1>10. Layout(pages, none, none, gc, stack, none, ds, f) /\ Lone(gc)
  BY <1>1, <1>2, <1>8
<1>11. Layout(pages, r, none, gc, stack, none, ds, f)
  BY <1>8, <1>9, <1>10, InitLayout
<1>12. Core(z, f, tk, ds)
  BY <1>1, <1>3, <1>8, <1>11 DEF Core
<1>13. IsList(r) /\ Len(r) = 1 /\ Head(r) = c /\ r # <<>>
  BY <1>8, ListOne
<1>14. HeadIs(z.m_cmd_queue, {"INIT"})
  BY <1>3, <1>8, <1>9, <1>13 DEF HeadIs
<1>15. FlagsOK(z)
  BY <1>1, <1>3, <1>8, <1>13, <1>14 DEF FlagsOK
<1>16. BoundsOK(z)
  <2>1. PICK q, ch : q = z.m_cmd_queue /\ ch = z.m_chunk_queue
    OBVIOUS
  <2>2. q = r /\ ch = none
    BY <1>1, <1>3, <1>8, <2>1
  <2>3. Len(q) = 1 /\ Len(ch) = 0
    BY <1>8, <1>13, <2>2, ListNone
  <2>4. FDS_CMD_QUEUE_SIZE \in Nat /\ FDS_CMD_QUEUE_SIZE >= 1 /\ FDS_CHUNK_QUEUE_SIZE \in Nat
    BY FdsAssumption
  <2>5. Len(q) <= FDS_CMD_QUEUE_SIZE /\ Len(ch) <= FDS_CHUNK_QUEUE_SIZE
    BY <2>3, <2>4
  <2> QED
    BY <2>1, <2>5 DEF BoundsOK
<1>17. FlashOK(f)
  BY DEF Looked
<1>18. x.m_gc.swap_page \in Page /\ x.m_gc.state = "NONE"
  BY <1>2 DEF Lone, IsGc
<1>19. Formats(z)
  <2>1. z.m_swap_page_avail \in BOOLEAN /\ z.m_gc.state = "NONE" /\ Len(z.m_cmd_queue) = 1
    BY <1>2, <1>3, <1>8, <1>13, <1>18
  <2>2. z.m_swap_page_avail = TRUE => z.m_pages[z.m_gc.swap_page].page_type = "SWAP"
    BY <1>1, <1>2, <1>3, <1>18
  <2> QED
    BY <1>14, <2>1, <2>2 DEF Formats
<1>20. At(z, f, tk, ds)
  BY <1>3, <1>7, <1>12, <1>15, <1>16, <1>17 DEF At
<1> QED
  BY <1>3, <1>6, <1>19, <1>20 DEF FormatsAt

\* The first page is formatted.
LEMMA LookedFormats ==
  ASSUME NEW y, NEW f, NEW tk, tk = <<>>, NEW ds, NEW x, Looked(y, f, ds, x), FsOK(y), Usable(f),
         NEW b \in Page, Kind(f, b) = "ERASED",
         NEW flags, "INITIALIZING" \in flags, "PROCESSING" \in flags, "INITIALIZED" \notin flags,
         NEW c, c = Command("INIT", "NONE"), NEW z, Formatting(x, flags, c, z), NEW w, w = CmdQueueProcess(z, f)
  PROVE  Settles(w, f, tk, ds)
<1>1. At(z, f, tk, ds) /\ Formats(z) /\ z.m_pages = x.m_pages /\ z.reported = NoOp /\ z.kept = FALSE /\ z.m_cmd_queue = <<c>>
  <2>1. FormatsAt(x, z, f, tk, ds, c)
    BY LookedAt
  <2> QED
    BY <2>1 DEF FormatsAt
<1>2. z.m_pages[b].page_type = "ERASED"
  BY <1>1, LookedIs
<1>3. PICK dst : dst = NULL
  OBVIOUS
<1>4. PICK cur \in Nat : cur = 0
  OBVIOUS
<1>5. CurIs(dst, cur)
  BY <1>3, <1>4 DEF CurIs
<1>6. PICK res : res = Execute(z, TRUE, dst, f)
  OBVIOUS
<1>7. w = res.x
  BY <1>3, <1>6 DEF CmdQueueProcess
<1>8. c.id = "INIT"
  BY InitCommand
<1>9. Head(z.m_cmd_queue) = c
  BY <1>1, ListOne
<1>10. res = InitExecute(z, TRUE, dst)
  BY <1>6, <1>8, <1>9 DEF Execute, Cmd
<1>11. b >= cur
  BY <1>4, PageIs
<1>12. HasMore(z, cur)
  BY <1>1, <1>2, <1>11 DEF HasMore, Formats
<1>13. InitFrom(z, cur, res)
  BY <1>5, <1>10, <1>12, InitIs
<1>14. cur # FDS_MAX_PAGES
  <2>1. Count >= 1 /\ Count \in Nat
    BY Sizes
  <2>2. FDS_MAX_PAGES = Count
    BY SMTT(20) DEF Count
  <2> QED
    BY <1>4, <2>1, <2>2
<1>15. Executes(res, f, tk, ds)
  <2>1. CASE \E p \in Page : /\ z.m_pages[p].page_type = "ERASED" /\ z.m_swap_page_avail = TRUE
                     /\ res = Executing([FsStore(z, StartAddr(p), fds_page_tag_valid)
                                           EXCEPT !.m_pages[p].page_type = "VALID"])
    BY <1>1, <2>1, InitValid
  <2>2. CASE \E p \in Page : /\ z.m_pages[p].page_type = "ERASED" /\ z.m_swap_page_avail = FALSE
                     /\ res = Executing([FsStore(z, StartAddr(p), fds_page_tag_swap)
                              EXCEPT !.m_pages[p].page_type = "SWAP",
                                     !.m_swap_page_avail = TRUE, !.m_gc.swap_page = p])
    BY <1>1, <2>2, InitSwap
  <2> QED
    BY Zenon, <1>2, <1>11, <1>13, <1>14, <2>1, <2>2 DEF InitFrom
<1>16. res.x.reported = NoOp /\ res.x.kept = FALSE
  BY <1>1, <1>13, InitMute DEF At
<1>17. PICK op : Begins(w, f, tk, ds, op)
  BY <1>7, <1>15 DEF Executes
<1>18. w.reported = NoOp /\ w.kept = FALSE
  BY <1>7, <1>16
<1> QED
  BY <1>17, <1>18, BeginsGood DEF Settles

Blanks(f) == {p \in Page : Kind(f, p) = "ERASED"}
Filled(f) == {p \in Page : Kind(f, p) = "VALID"}
Halved(f) == {p \in Page : Kind(f, p) = "GC"}
InitFinds(x, f, z) ==
  \/ Filled(f) = {} /\ Blanks(f) = {} /\ z = x
  \/ Halved(f) # {} /\ z = [x EXCEPT !.m_flags = @ \cup {"INITIALIZING"}]
  \/ Filled(f) # {} /\ Halved(f) = {} /\ Blanks(f) = {} /\ z = [x EXCEPT !.m_flags = @ \cup {"INITIALIZED"}]
  \/ Blanks(f) # {} /\ Halved(f) = {}
     /\ z = CmdQueueProcessStart([[x EXCEPT !.m_flags = @ \cup {"INITIALIZING"}]
                                    EXCEPT !.m_cmd_queue = <<Command("INIT", "NONE")>>], f)

\* fds_init() by the case it finds.
LEMMA FdsInitIs ==
  ASSUME FdsInit
  PROVE  /\ InitFinds(PagesInit(e, flash), flash, e')
         /\ "INITIALIZED" \notin e.m_flags /\ "INITIALIZING" \notin e.m_flags
         /\ UNCHANGED <<flash, used, desc, open, token>>
<1>1. PICK x, valid, gcs, blank :
        /\ x = PagesInit(e, flash) /\ valid = OfType(flash, "VALID")
        /\ gcs = OfType(flash, "GC") /\ blank = OfType(flash, "ERASED")
  OBVIOUS
<1>5. /\ "INITIALIZED" \notin e.m_flags /\ "INITIALIZING" \notin e.m_flags
      /\ UNCHANGED <<flash, used, desc, open, token>>
  BY DEF FdsInit, Initialized, client
<1>6. e' = CASE valid = {} /\ blank = {} -> x
               [] (valid # {} \/ blank # {}) /\ gcs # {} -> [x EXCEPT !.m_flags = @ \cup {"INITIALIZING"}]
               [] (valid # {} \/ blank # {}) /\ gcs = {} /\ blank = {} -> [x EXCEPT !.m_flags = @ \cup {"INITIALIZED"}]
               [] OTHER -> CmdQueueProcessStart([[x EXCEPT !.m_flags = @ \cup {"INITIALIZING"}]
                                    EXCEPT !.m_cmd_queue = <<Command("INIT", "NONE")>>], flash)
  BY <1>1 DEF FdsInit, Flagged
<1>7. valid = Filled(flash) /\ gcs = Halved(flash) /\ blank = Blanks(flash)
  BY <1>1 DEF Filled, Halved, Blanks, Kind, OfType
<1>8. InitFinds(x, flash, e')
  BY <1>6, <1>7 DEF InitFinds
<1> QED
  BY <1>1, <1>5, <1>8

\* Each case is as the invariant wants it.
LEMMA InitSettles ==
  ASSUME NEW y, NEW f, NEW tk, NEW ds, Settles(y, f, tk, ds), FlashOK(f),
         "INITIALIZED" \notin y.m_flags, "INITIALIZING" \notin y.m_flags, NEW x, x = PagesInit(y, f), NEW z, InitFinds(x, f, z)
  PROVE  Settles(z, f, tk, ds)
<1>1. y.m_cmd_queue = <<>>
  <2>1. SUFFICES ASSUME y.m_cmd_queue # <<>> PROVE FALSE
    OBVIOUS
  <2>2. FlagsOK(y)
    BY <2>1 DEF Settles, Active, Good
  <2> QED
    BY <2>1, <2>2 DEF FlagsOK
<1>2. Dormant(y, f, tk, ds) /\ Ram(y) /\ FsOK(y)
  BY <1>1 DEF Settles, Active
<1>3. tk = <<>> /\ IsGc(y.m_gc)
  BY <1>2 DEF Dormant
<1>4. Found(y, f, x)
  BY <1>2, <1>3, ScansFound
<1>5. Looked(y, f, ds, x)
  BY <1>1, <1>2, <1>4 DEF Looked, Dormant
<1>6. Ram(x) /\ x.m_flags = y.m_flags /\ "PROCESSING" \notin y.m_flags
  BY <1>2, <1>5, LookedIs DEF Dormant
<1>7. \A p \in Page : Kind(f, p) \in {"SWAP", "VALID", "GC", "ERASED"}
  BY KindKnown
<1>8. CASE Filled(f) = {} /\ Blanks(f) = {} /\ z = x
  <2>1. \A p \in Page : Kind(f, p) \notin {"VALID", "ERASED"}
    BY <1>8 DEF Filled, Blanks
  <2>2. PICK flags : flags = x.m_flags
    OBVIOUS
  <2>3. FlagsTo(x, flags, z)
    BY <1>6, <1>8, <2>2 DEF FlagsTo, Ram
  <2> QED
    BY <1>2, <1>3, <1>5, <1>6, <2>1, <2>2, <2>3, LookedDozes
<1>9. CASE Halved(f) # {} /\ z = [x EXCEPT !.m_flags = @ \cup {"INITIALIZING"}]
  <2>1. PICK flags : flags = x.m_flags \cup {"INITIALIZING"}
    OBVIOUS
  <2>2. FlagsTo(x, flags, z)
    BY <1>9, <2>1 DEF FlagsTo
  <2>3. "INITIALIZING" \in flags /\ "INITIALIZED" \notin flags /\ "PROCESSING" \notin flags
    BY <1>6, <2>1
  <2> QED
    BY <1>2, <1>3, <1>5, <2>2, <2>3, LookedDozes
<1>10. CASE Filled(f) # {} /\ Halved(f) = {} /\ Blanks(f) = {} /\ z = [x EXCEPT !.m_flags = @ \cup {"INITIALIZED"}]
  <2>1. PICK flags : flags = y.m_flags \cup {"INITIALIZED"}
    OBVIOUS
  <2>2. FlagsTo(x, flags, z)
    BY <1>6, <1>10, <2>1 DEF FlagsTo
  <2>3. Usable(f)
    BY <1>10 DEF Usable, Filled, Halved
  <2>4. \A p \in Page : Kind(f, p) # "ERASED"
    BY <1>10 DEF Blanks
  <2> QED
    BY <1>2, <1>3, <1>5, <2>1, <2>2, <2>3, <2>4, LookedReady
<1>11. CASE /\ Blanks(f) # {} /\ Halved(f) = {}
            /\ z = CmdQueueProcessStart([[x EXCEPT !.m_flags = @ \cup {"INITIALIZING"}]
                                           EXCEPT !.m_cmd_queue = <<Command("INIT", "NONE")>>], f)
  <2>1. PICK c : c = Command("INIT", "NONE")
    OBVIOUS
  <2>2. PICK on, flags : on = y.m_flags \cup {"INITIALIZING"} /\ flags = on \cup {"PROCESSING"}
    OBVIOUS
  <2>3. PICK w0 : w0 = [[x EXCEPT !.m_flags = on] EXCEPT !.m_cmd_queue = <<c>>]
    OBVIOUS
  <2>4. w0.m_flags = on
    BY <1>6, <2>3 DEF Ram
  <2>5. PICK w : Formatting(x, flags, c, w)
    BY DEF Formatting
  <2>6. [w0 EXCEPT !.m_flags = @ \cup {"PROCESSING"}] = w
    BY <1>6, <2>2, <2>3, <2>5 DEF Ram, Formatting
  <2>7. z = CmdQueueProcessStart(w0, f)
    BY <1>6, <1>11, <2>1, <2>2, <2>3
  <2>8. "PROCESSING" \notin w0.m_flags
    BY <1>6, <2>2, <2>4
  <2>9. z = CmdQueueProcess(w, f)
    BY <2>6, <2>7, <2>8 DEF CmdQueueProcessStart
  <2>10. PICK b \in Page : Kind(f, b) = "ERASED"
    BY <1>11 DEF Blanks
  <2>11. Usable(f)
    BY <1>11, <2>10 DEF Usable, Halved
  <2>12. "INITIALIZING" \in flags /\ "PROCESSING" \in flags /\ "INITIALIZED" \notin flags
    BY <2>2
  <2> QED
    BY <1>2, <1>3, <1>5, <2>1, <2>5, <2>9, <2>10, <2>11, <2>12, LookedFormats
<1> QED
  BY <1>8, <1>9, <1>10, <1>11 DEF InitFinds

\* fds_init() keeps the invariant.
LEMMA FdsInitOK ==
  ASSUME Steady(e, flash, used, token, desc), FdsInit
  PROVE  Steady(e', flash', used', token', desc')
<1>1. PICK x : x = PagesInit(e, flash) /\ InitFinds(x, flash, e')
  BY FdsInitIs
<1>2. "INITIALIZED" \notin e.m_flags /\ "INITIALIZING" \notin e.m_flags
  BY FdsInitIs
<1>3. flash' = flash /\ used' = used /\ token' = token /\ desc' = desc
  BY FdsInitIs
<1>4. Settles(e, flash, token, desc) /\ FlashOK(flash) /\ UsedOK(used)
  BY DEF Steady
<1>5. Settles(e', flash, token, desc)
  BY <1>1, <1>2, <1>4, InitSettles
<1> QED
  BY <1>3, <1>4, <1>5 DEF Steady

--------------------------------------------------------------------------------

(* The steps together. *)

\* The invariant holds at the beginning.
LEMMA InitSteady ==
  ASSUME Init
  PROVE  Steady(e, flash, used, token, desc)
<1>1. /\ flash = [a \in Address |-> Erased] /\ e = Engine /\ used = [kind \in DOMAIN Limit |-> 0]
      /\ desc = [s \in Slots |-> <<>>] /\ token = <<>>
  BY DEF Init
<1>2. Settles(e, flash, token, desc)
  BY <1>1, EngineSettles
<1>3. FlashOK(flash)
  BY <1>1, BlankFlash
<1>4. UsedOK(used)
  <2>1. \A k \in DOMAIN Limit : Limit[k] \in Nat
    BY FdsAssumption
  <2>2. \A k \in DOMAIN Limit : used[k] = 0
    BY <1>1
  <2>3. used \in [DOMAIN Limit -> Nat]
    BY <1>1
  <2>4. \A k \in DOMAIN Limit : used[k] <= Limit[k]
    BY <2>1, <2>2
  <2> QED
    BY <2>3, <2>4 DEF UsedOK
<1> QED
  BY <1>2, <1>3, <1>4 DEF Steady

\* Another user begins, or the operation fails.
LEMMA SpendFault ==
  ASSUME UsedOK(used), Spend("fault")
  PROVE  UsedOK(used')
<1>1. PICK k : k = "fault"
  OBVIOUS
<1>2. k \in DOMAIN Limit /\ k # "all" /\ Spend(k)
  BY <1>1, LimitKinds
<1> QED
  BY <1>2, SpendIs

\* The SoftDevice keeps it, as long as no other user begins over a failed operation.
LEMMA SoftDeviceSteady ==
  ASSUME Steady(e, flash, used, token, desc), ~Meddles,
         SoftDeviceEnds \/ SoftDeviceFails \/ OtherUserBegins, UNCHANGED client
  PROVE  Steady(e', flash', used', token', desc')
<1>1. Settles(e, flash, token, desc) /\ FlashOK(flash) /\ UsedOK(used)
  BY DEF Steady
<1>2. token' = token /\ desc' = desc
  BY DEF client
<1>3. CASE SoftDeviceEnds
  <2>1. used' = used
    BY <1>3 DEF SoftDeviceEnds
  <2>2. Settles(e', flash', token, desc) /\ FlashOK(flash')
    BY <1>1, <1>3, SoftDeviceEndsOK
  <2> QED
    BY <1>1, <1>2, <2>1, <2>2 DEF Steady
<1>4. CASE SoftDeviceFails
  <2>1. Spend("fault") /\ flash' = flash
    BY <1>4 DEF SoftDeviceFails
  <2>2. UsedOK(used')
    BY <1>1, <2>1, SpendFault
  <2>3. Settles(e', flash', token, desc)
    BY <1>1, <1>4, SoftDeviceFailsOK
  <2> QED
    BY <1>1, <1>2, <2>1, <2>2, <2>3 DEF Steady
<1>5. CASE OtherUserBegins
  <2>1. Spend("fault") /\ flash' = flash
    BY <1>5 DEF OtherUserBegins
  <2>2. UsedOK(used')
    BY <1>1, <2>1, SpendFault
  <2>3. Settles(e', flash', token, desc)
    BY <1>1, <1>5, OtherUserBeginsOK
  <2> QED
    BY <1>1, <1>2, <2>1, <2>2, <2>3 DEF Steady
<1> QED
  BY <1>3, <1>4, <1>5

\* A loss of power keeps it.
LEMMA PowerLossSteady ==
  ASSUME Steady(e, flash, used, token, desc), PowerLoss
  PROVE  Steady(e', flash', used', token', desc')
<1>1. Settles(e, flash, token, desc) /\ FlashOK(flash) /\ UsedOK(used)
  BY DEF Steady
<1>2. FlashOK(flash') /\ e' = Engine /\ desc' = [s \in Slots |-> <<>>] /\ token' = <<>>
  BY <1>1, PowerLossOK
<1>3. Settles(e', flash', token', desc')
  BY <1>2, EngineSettles
<1>4. UsedOK(used')
  <2>1. PICK k : k = "loss"
    OBVIOUS
  <2>2. k \in DOMAIN Limit /\ k # "all" /\ Spend(k)
    BY <2>1, LimitKinds DEF PowerLoss
  <2> QED
    BY <1>1, <2>2, SpendIs
<1> QED
  BY <1>2, <1>3, <1>4 DEF Steady

\* The handler of an event keeps it.
LEMMA FlashEventSteady ==
  ASSUME Steady(e, flash, used, token, desc), FS_CMD_MAX_RETRIES > 0, FlashEvent
  PROVE  Steady(e', flash', used', token', desc')
<1>1. Settles(e, flash, token, desc) /\ FlashOK(flash) /\ UsedOK(used)
  BY DEF Steady
<1>2. flash' = flash /\ used' = used /\ token' = token /\ desc' = desc
  BY DEF FlashEvent, client
<1>3. Settles(e', flash', token, desc)
  BY <1>1, FlashEventOK
<1> QED
  BY <1>1, <1>2, <1>3 DEF Steady

Foreseen == Patient /\ FS_CMD_MAX_RETRIES > 0 /\ ~Meddles

\* Every step keeps it.
LEMMA NextSteady ==
  ASSUME Foreseen, Steady(e, flash, used, token, desc), [Next]_vars
  PROVE  Steady(e', flash', used', token', desc')
<1>1. Patient /\ FS_CMD_MAX_RETRIES > 0 /\ ~Meddles
  BY DEF Foreseen
<1>2. CASE FdsInit
  BY <1>2, FdsInitOK
<1>3. ASSUME NEW s \in Slots,
             \/ FdsWrite(s) \/ FdsUpdate(s) \/ FdsWriteReserved(s)
             \/ FdsClear(s) \/ FdsClearByInstance(s)
             \/ FdsFind(s) \/ FdsOpen(s) \/ FdsClose(s)
      PROVE  Steady(e', flash', used', token', desc')
  <2>1. CASE FdsWrite(s)
    BY <2>1, FdsWriteOK
  <2>2. CASE FdsUpdate(s)
    BY <2>2, FdsUpdateOK
  <2>3. CASE FdsWriteReserved(s)
    BY <2>3, FdsWriteReservedOK
  <2>4. CASE FdsClear(s)
    BY <2>4, FdsClearOK
  <2>5. CASE FdsClearByInstance(s)
    BY <2>5, FdsClearByInstanceOK
  <2>6. CASE FdsFind(s)
    BY <2>6, FdsFindOK
  <2>7. CASE FdsOpen(s)
    BY <2>7, FdsOpenOK
  <2>8. CASE FdsClose(s)
    BY <2>8, FdsCloseOK
  <2> QED
    BY <1>3, <2>1, <2>2, <2>3, <2>4, <2>5, <2>6, <2>7, <2>8
<1>4. CASE FdsReserve
  BY <1>4, FdsReserveOK
<1>5. CASE FdsReserveCancel
  BY <1>5, FdsReserveCancelOK
<1>6. CASE FdsGc
  BY <1>1, <1>6, FdsGcOK
<1>7. CASE FlashEvent
  BY <1>1, <1>7, FlashEventSteady
<1>8. CASE (SoftDeviceEnds \/ SoftDeviceFails \/ OtherUserBegins) /\ UNCHANGED client
  BY <1>1, <1>8, SoftDeviceSteady
<1>9. CASE PowerLoss
  BY <1>9, PowerLossSteady
<1>10. CASE UNCHANGED vars
  <2>1. e' = e /\ flash' = flash /\ used' = used /\ token' = token /\ desc' = desc
    BY <1>10 DEF vars
  <2> QED
    BY <2>1
<1> QED
  BY <1>2, <1>3, <1>4, <1>5, <1>6, <1>7, <1>8, <1>9, <1>10 DEF Next

--------------------------------------------------------------------------------

(* What the invariant says. *)

\* The flash is sound with the pending operation done, too.
LEMMA NowFlash ==
  ASSUME NEW x, NEW f, NEW tk, NEW ds, Good(x, f, tk, ds), FlashOK(f)
  PROVE  FlashOK(Now(x, f))
<1>1. CASE ~Pending(x)
  BY <1>1 DEF Now
<1>2. CASE Pending(x)
  <2>1. PICK op : op = Op(x)
    OBVIOUS
  <2>2. SafeOp(f, op)
    BY <1>2, <2>1 DEF Good
  <2>3. Len(op.words) \in Cuts(op)
    <3>1. IsList(op.words)
      <4>1. CASE \E d \in Address : \E w : IsList(w) /\ op = Store(d, w)
        BY <4>1, StoreIs
      <4>2. CASE \E p \in Page : op = Erase(p)
        BY <4>2, EraseIs
      <4> QED
        BY <2>2, <4>1, <4>2 DEF SafeOp, IsOp
    <3>2. Len(op.words) \in Nat
      BY <3>1, ListIs
    <3> QED
      BY <3>2 DEF Cuts
  <2>4. FlashOK(Done(f, op))
    BY <2>2, <2>3 DEF SafeOp, Done
  <2> QED
    BY <1>2, <2>1, <2>4 DEF Now
<1> QED
  BY <1>1, <1>2

\* The words of the commands queued are a number.
LEMMA ExtraNat ==
  ASSUME NEW pages, NEW q, NEW gc, QueueOK(pages, q, gc), NEW v
  PROVE  Extra(q, v) \in Nat
<1>1. CASE HeadIs(q, {"WRITE", "UPDATE"}) /\ Head(q).op_code # "WRITE_TL" /\ Head(q).vpage_id = v
  <2>1. IsCmd(Head(q))
    BY <1>1, QueueWords DEF HeadIs
  <2>2. PICK n \in Nat : n = Head(q).length_words
    BY <2>1, CmdFields
  <2>3. Extra(q, v) = 3 + n
    BY <1>1, <2>2 DEF Extra
  <2> QED
    BY <2>3
<1>2. CASE ~(HeadIs(q, {"WRITE", "UPDATE"}) /\ Head(q).op_code # "WRITE_TL" /\ Head(q).vpage_id = v)
  BY <1>2 DEF Extra
<1> QED
  BY <1>1, <1>2

\* Pages keep to their size.
LEMMA PagesWithin ==
  ASSUME NEW pages, NEW q, NEW gc, NEW f, FlashOK(f), PagesOK(pages, q, gc, f), QueueOK(pages, q, gc), NEW p \in Page
  PROVE  pages[p].words_reserved \in 0 .. FS_PAGE_SIZE_WORDS /\ pages[p].write_offset \in 0 .. FS_PAGE_SIZE_WORDS
<1>1. PICK w \in Nat, b \in Nat : w = pages[p].write_offset /\ b = pages[p].words_reserved
  BY DEF PagesOK, PagesTyped, IsPage
<1>2. PICK l \in Nat : l = FS_PAGE_SIZE_WORDS /\ l = Size
  BY Sizes DEF Size
<1>3. PICK v : v = pages[p].vpage_id
  OBVIOUS
<1>4. PICK x \in Nat : x = Extra(q, v)
  BY ExtraNat
<1>5. End(f, p) = StartAddr(p) + w + x
  BY <1>1, <1>3, <1>4 DEF PagesOK, EndsOK
<1>6. PICK s \in Nat, t \in Nat, z \in Nat : s = StartAddr(p) /\ t = End(f, p) /\ t < z /\ z = s + Size
  BY EndIs
<1>7. t = s + w + x
  BY <1>5, <1>6
<1>8. t < s + l
  BY <1>2, <1>6
<1>9. w <= l
  BY <1>7, <1>8, SMT
<1>10. b = 0 \/ w + b < l
  BY <1>1, <1>2 DEF PagesOK, RoomOK
<1>11. b <= l
  BY <1>10, SMT
<1>12. w \in 0 .. l /\ b \in 0 .. l
  BY <1>9, <1>11
<1> QED
  BY <1>1, <1>2, <1>12

\* What the invariant says while the records are in use.
LEMMA SteadyGood ==
  ASSUME Steady(e, flash, used, token, desc), Active(e)
  PROVE  /\ Good(e, flash, token, desc) /\ FlashOK(flash) /\ FlashOK(Now(e, flash)) /\ BoundsOK(e)
         /\ Layout(e.m_pages, e.m_cmd_queue, e.m_chunk_queue, e.m_gc, e.stack, token, desc, Now(e, flash))
<1>1. Good(e, flash, token, desc) /\ FlashOK(flash)
  BY DEF Steady, Settles
<1>2. FlashOK(Now(e, flash))
  BY <1>1, NowFlash
<1> QED
  BY <1>1, <1>2 DEF Good, Core

\* One operation at a time.
LEMMA SteadyQueue ==
  ASSUME Steady(e, flash, used, token, desc)
  PROVE  Len(e.fs_queue) <= 1
<1>1. FsOK(e)
  BY DEF Steady, Settles
<1>2. e.fs_queue = <<>> \/ \E op : e.fs_queue = <<op>>
  BY <1>1 DEF FsOK
<1>3. PICK q : q = e.fs_queue
  OBVIOUS
<1>4. CASE q = <<>>
  <2>1. Len(q) = 0
    BY <1>4, ListNone
  <2> QED
    BY <1>3, <2>1
<1>5. CASE \E op : q = <<op>>
  <2>1. Len(q) = 1
    BY <1>5, ListOne
  <2> QED
    BY <1>3, <2>1
<1> QED
  BY <1>2, <1>3, <1>4, <1>5

\* The invariant types the state.
LEMMA SteadyTypeOK ==
  ASSUME Steady(e, flash, used, token, desc)
  PROVE  TypeOK
<1>1. PICK pages : pages = e.m_pages
  OBVIOUS
<1>2. Len(e.fs_queue) <= 1
  BY SteadyQueue
<1>3. FS_PAGE_SIZE_WORDS \in Nat
  BY FstorageAssumption
<1>4. /\ \A s \in Slots : desc[s] = <<>> \/ desc[s].record_id \in 0 .. MaxId
      /\ BoundsOK(e) /\ PagesTyped(pages)
      /\ \A p \in Page : pages[p].words_reserved \in 0 .. FS_PAGE_SIZE_WORDS /\ pages[p].write_offset \in 0 .. FS_PAGE_SIZE_WORDS
  <2>1. CASE Active(e)
    <3>1. /\ FlashOK(Now(e, flash)) /\ BoundsOK(e)
          /\ Layout(e.m_pages, e.m_cmd_queue, e.m_chunk_queue, e.m_gc, e.stack, token, desc, Now(e, flash))
      BY <2>1, SteadyGood
    <3>2. /\ PagesOK(pages, e.m_cmd_queue, e.m_gc, Now(e, flash)) /\ QueueOK(pages, e.m_cmd_queue, e.m_gc)
          /\ DescsOK(pages, desc)
      BY <1>1, <3>1 DEF Layout
    <3>3. \A s \in Slots : desc[s] = <<>> \/ desc[s].record_id \in 0 .. MaxId
      BY <3>2 DEF DescsOK, IsDesc
    <3>4. PagesTyped(pages)
      BY <3>2 DEF PagesOK
    <3>5. \A p \in Page : pages[p].words_reserved \in 0 .. FS_PAGE_SIZE_WORDS /\ pages[p].write_offset \in 0 .. FS_PAGE_SIZE_WORDS
      BY <3>1, <3>2, PagesWithin
    <3> QED
      BY <3>1, <3>3, <3>4, <3>5
  <2>2. CASE ~Active(e)
    <3>1. Dormant(e, flash, token, desc) /\ e.m_cmd_queue = <<>>
      BY <2>2 DEF Steady, Settles, Active
    <3>2. /\ e.m_chunk_queue = <<>> /\ PagesTyped(pages)
          /\ \A s \in Slots : desc[s] = <<>> \/ desc[s].record_id \in 0 .. MaxId
          /\ \A p \in Page : pages[p].words_reserved < FS_PAGE_SIZE_WORDS /\ pages[p].write_offset < FS_PAGE_SIZE_WORDS
      BY <1>1, <3>1 DEF Dormant
    <3>3. BoundsOK(e)
      <4>1. Len(e.m_cmd_queue) = 0 /\ Len(e.m_chunk_queue) = 0
        BY <3>1, <3>2, ListNone
      <4>2. FDS_CMD_QUEUE_SIZE \in Nat /\ FDS_CHUNK_QUEUE_SIZE \in Nat
        BY FdsAssumption
      <4>3. PICK a \in Nat, b \in Nat : a = FDS_CMD_QUEUE_SIZE /\ b = FDS_CHUNK_QUEUE_SIZE
        BY <4>2
      <4> QED
        BY <4>1, <4>3 DEF BoundsOK
    <3>4. ASSUME NEW p \in Page
          PROVE  pages[p].words_reserved \in 0 .. FS_PAGE_SIZE_WORDS /\ pages[p].write_offset \in 0 .. FS_PAGE_SIZE_WORDS
      <4>1. PICK w \in Nat, b \in Nat : w = pages[p].write_offset /\ b = pages[p].words_reserved
        BY <3>2 DEF PagesTyped, IsPage
      <4>2. PICK l \in Nat : l = FS_PAGE_SIZE_WORDS
        BY <1>3
      <4>3. w < l /\ b < l
        <5>1. pages[p].words_reserved < FS_PAGE_SIZE_WORDS /\ pages[p].write_offset < FS_PAGE_SIZE_WORDS
          BY <3>2
        <5> QED
          BY <4>1, <4>2, <5>1
      <4>4. w \in 0 .. l /\ b \in 0 .. l
        BY <4>3
      <4> QED
        BY <4>1, <4>2, <4>4
    <3> QED
      BY <3>2, <3>3, <3>4
  <2> QED
    BY <2>1, <2>2
<1>5. \A p \in Page : pages[p].page_type \in PageTypes
  BY <1>4 DEF PagesTyped, IsPage
<1> QED
  BY <1>1, <1>2, <1>4, <1>5 DEF TypeOK, BoundsOK, Data

\* No word is written twice.
LEMMA SteadyWrittenOnce ==
  ASSUME Steady(e, flash, used, token, desc)
  PROVE  WrittenOnce
<1>1. WordsOK(flash)
  BY DEF Steady, FlashOK
<1> QED
  BY <1>1 DEF WordsOK, WordOK, WrittenOnce

\* Every word reserved has its command.
LEMMA SteadySpaceAccounted ==
  ASSUME Steady(e, flash, used, token, desc)
  PROVE  SpaceAccounted
<1> SUFFICES ASSUME Initialized, NEW p \in Page, Data(e, p).page_type = "VALID"
             PROVE  LET d == Data(e, p)
                        end == ScanEnd(flash, Base(p), EndAddr(p)) - StartAddr(p)
                    IN /\ d.write_offset + d.words_reserved < FS_PAGE_SIZE_WORDS
                       /\ Promised(d.vpage_id) <= d.words_reserved
                       /\ \/ end = d.write_offset
                          \/ /\ StoreCommands # {} /\ 1 \in StoreCommands
                             /\ Cmd(e).vpage_id = d.vpage_id
                             /\ end = d.write_offset + FDS_HEADER_SIZE + Cmd(e).length_words
  BY DEF SpaceAccounted
<1>1. PICK pages, q, d, v : pages = e.m_pages /\ q = e.m_cmd_queue /\ d = Data(e, p) /\ v = d.vpage_id
  OBVIOUS
<1>2. d = pages[p] /\ pages[p].page_type = "VALID"
  BY <1>1 DEF Data
<1>3. Active(e)
  BY DEF Active, Initialized
<1>4. /\ Good(e, flash, token, desc) /\ FlashOK(flash)
      /\ Layout(pages, q, e.m_chunk_queue, e.m_gc, e.stack, token, desc, Now(e, flash))
  BY <1>1, <1>3, SteadyGood
<1>5. /\ PagesOK(pages, q, e.m_gc, Now(e, flash)) /\ QueueOK(pages, q, e.m_gc) /\ SpaceOK(pages, q, token)
      /\ Accounts(pages, q, flash)
  BY <1>1, <1>4 DEF Layout, Good
<1>6. PICK w \in Nat, b \in Nat : w = d.write_offset /\ b = d.words_reserved
  BY <1>2, <1>5 DEF PagesOK, PagesTyped, IsPage
<1>7. w + b < FS_PAGE_SIZE_WORDS
  BY <1>2, <1>5, <1>6 DEF PagesOK, RoomOK
<1>8. Promised(v) <= b
  <2>1. DueWithin(q, token, v, b)
    BY <1>1, <1>2, <1>5, <1>6 DEF SpaceOK
  <2>2. IsList(q) /\ \A n \in 1 .. Len(q) : WordsFor(q[n], v) \in Nat
    BY <1>5, QueueWords
  <2>3. PICK l : l = [n \in DOMAIN q |-> WordsFor(q[n], v)]
    OBVIOUS
  <2>4. SumOf(l) + TokenWords(token, v) <= b
    BY <2>1, <2>2, <2>3, DueSum
  <2>5. Promised(v) = SumOf(l) + TokenWords(token, v)
    BY <1>1, <2>3 DEF Promised, TokenWords, FDS_HEADER_SIZE
  <2> QED
    BY <2>4, <2>5
<1>9. PICK s \in Nat, t \in Nat : s = StartAddr(p) /\ t = End(flash, p) /\ t = ScanEnd(flash, Base(p), EndAddr(p))
  BY <1>4, EndIs DEF End
<1>10. PICK end : end = t - s
  OBVIOUS
<1>11. \/ end = w
       \/ /\ StoreCommands # {} /\ 1 \in StoreCommands /\ Cmd(e).vpage_id = v
          /\ end = w + FDS_HEADER_SIZE + Cmd(e).length_words
  <2>1. PICK x \in Nat : x = Extra(q, v)
    BY <1>5, ExtraNat
  <2>2. t = s + w \/ t = s + w + x
    BY <1>1, <1>2, <1>5, <1>6, <1>9, <2>1 DEF Accounts
  <2>3. CASE t = s + w
    BY <1>10, <2>3
  <2>4. CASE t = s + w + x
    <3>1. end = w + x
      BY <1>10, <2>4
    <3>2. CASE HeadIs(q, {"WRITE", "UPDATE"}) /\ Head(q).op_code # "WRITE_TL" /\ Head(q).vpage_id = v
      <4>1. q # <<>> /\ Head(q).id \in {"WRITE", "UPDATE"}
        BY <3>2 DEF HeadIs
      <4>2. IsCmd(Head(q)) /\ Head(q) = q[1] /\ 1 \in 1 .. Len(q) /\ IsList(q)
        BY <1>5, <4>1, QueueWords
      <4>3. DOMAIN q = 1 .. Len(q)
        BY <4>2, ListIs
      <4>4. 1 \in StoreCommands
        BY <1>1, <4>1, <4>2, <4>3 DEF StoreCommands
      <4>5. PICK n \in Nat : n = Head(q).length_words
        BY <4>2, CmdFields
      <4>6. x = 3 + n
        BY <2>1, <3>2, <4>5 DEF Extra
      <4>7. end = w + 3 + n
        BY <3>1, <4>6
      <4> QED
        BY <1>1, <3>2, <4>4, <4>5, <4>7 DEF Cmd, FDS_HEADER_SIZE
    <3>3. CASE ~(HeadIs(q, {"WRITE", "UPDATE"}) /\ Head(q).op_code # "WRITE_TL" /\ Head(q).vpage_id = v)
      <4>1. x = 0
        BY <2>1, <3>3 DEF Extra
      <4> QED
        BY <3>1, <4>1
    <3> QED
      BY <3>2, <3>3
  <2> QED
    BY <2>2, <2>3, <2>4
<1>12. ScanEnd(flash, Base(p), EndAddr(p)) - StartAddr(p) = end
  BY <1>9, <1>10
<1> QED
  BY <1>1, <1>6, <1>7, <1>8, <1>11, <1>12

\* What holds of the flash and of the RAM between any two steps of the program: the invariant from which the
\* others follow (the pages in the flash, the table of pages, the two queues, the collection and fstorage's
\* operation agree), for a client, a retry bound and other users of the flash as Foreseen says.
THEOREM AlwaysSteady == ASSUME Foreseen PROVE Spec => []Steady(e, flash, used, token, desc)
<1>1. Init => Steady(e, flash, used, token, desc)
  BY InitSteady
<1>2. Steady(e, flash, used, token, desc) /\ [Next]_vars => Steady(e, flash, used, token, desc)'
  BY NextSteady
<1> QED
  BY <1>1, <1>2, PTL DEF Spec

\* The state keeps its type: queues within their bounds, pages within their size, record ids within MaxId.
THEOREM TypeCorrect == ASSUME Foreseen PROVE Spec => []TypeOK
<1>1. Steady(e, flash, used, token, desc) => TypeOK
  BY SteadyTypeOK
<1> QED
  BY <1>1, AlwaysSteady, PTL

\* No word of the flash is written twice without its page being erased in between, whatever the interleaving of
\* the commands, the flash events, the failures and the losses of power (fds.c:570-834, 1101-1380, fstorage.c:277-343).
THEOREM NeverRewritten == ASSUME Foreseen PROVE Spec => []WrittenOnce
<1>1. Steady(e, flash, used, token, desc) => WrittenOnce
  BY SteadyWrittenOnce
<1> QED
  BY <1>1, AlwaysSteady, PTL

\* Every word a queued command or the client's token is to write on a page is reserved there, and the page has room
\* for it (fds.c:1057-1084, 1178-1292): what SpaceAccounted says, in the middle of a collection as well.
THEOREM SpaceIsAccounted == ASSUME Foreseen PROVE Spec => []SpaceAccounted
<1>1. Steady(e, flash, used, token, desc) => SpaceAccounted
  BY SteadySpaceAccounted
<1> QED
  BY <1>1, AlwaysSteady, PTL

================================================================================
