--------------------------- MODULE Pstorage_proofs ---------------------------
(***************************************************************************)
(* That the block storage keeps its promise, proved for every number and   *)
(* size of pages, every length of the queue, every layout of blocks within *)
(* pages, and however often operations fail, other users come between or   *)
(* power is lost.                                                          *)
(*                                                                         *)
(* EngineInv says where the machine may stand.  Position: the place of the *)
(* running command it has reached (Place, for a command that keeps words   *)
(* in the swap page), with the counts and flags that belong to it.         *)
(* Contents: what the flash holds there, such that any first part of the   *)
(* operation of the place leaves it true (Worked); so an operation that    *)
(* failed half-way can be repeated.  Shows: the memory the clients see,    *)
(* which no operation changes.  Done adds what the whole operation has     *)
(* achieved, from which the next place follows.                            *)
(*                                                                         *)
(* The operators are about a table T, a machine x and a flash f, so that   *)
(* the lemmas can speak of the states between two entry actions.           *)
(***************************************************************************)
EXTENDS Pstorage, SequenceTheorems, TLAPS

(***************************************************************************)
(* Pages, modules and commands.                                            *)
(***************************************************************************)
\* The first word of a page.
At(p) == p * PageSize

\* The table: modules begin with a page, in order, and end where the next begins or before.
ModuleSet == [base_id : DataWords, block_size : 1 .. PageSize, block_count : 1 .. SwapAddr]
EndIn(T, m) == T[m].base_id + T[m].block_size * T[m].block_count
TableOK(T) ==
  /\ T \in Seq(ModuleSet)
  /\ \A m \in 1 .. Len(T) : /\ At(Page(T[m].base_id)) = T[m].base_id
                            /\ EndIn(T, m) <= SwapAddr
                            /\ <<T[m].block_size, T[m].block_count>> \in Registrations
  /\ \A m, n \in 1 .. Len(T) : m < n => EndIn(T, m) <= T[n].base_id
\* The words of module m, and of any.
Within(T, m, a) == T[m].base_id <= a /\ a < EndIn(T, m)
IsOwned(T, a) == a \in Nat /\ \E m \in 1 .. Len(T) : Within(T, m, a)

\* Commands, and those the checks of the parameters let through.
CommandSet == [op_code : {"store", "update", "clear"}, module_id : Nat, block_id : Nat,
               size : Nat, offset : Nat, data : Nat]
Start(c) == c.block_id + c.offset
First(c) == Page(Start(c))
Legal(T, c) ==
  /\ c \in CommandSet
  /\ c.module_id \in 1 .. Len(T) /\ c.size >= 1 /\ c.data <= MaxCommands
  /\ T[c.module_id].base_id <= c.block_id /\ CmdEnd(c) <= EndIn(T, c.module_id)
  /\ c.op_code = "clear" => c.offset = 0
  /\ c.op_code # "clear" => Page(c.block_id) = LastPage(c) /\ c.size <= PageSize
\* A command over whole pages: nothing of anybody else is on them.
Whole(T, c) == /\ At(First(c)) = Start(c)
               /\ \A a \in Nat : IsOwned(T, a) /\ Page(a) = LastPage(c) => a < CmdEnd(c)
\* TailWordSize(c) for the table T.
TailIn(T, c) ==
  LET end == EndIn(T, c.module_id)
  IN IF CmdEnd(c) = end \/ CmdEnd(c) % PageSize = 0 THEN 0
     ELSE IF Page(end) = Page(CmdEnd(c)) THEN end - CmdEnd(c)
     ELSE PageSize - (CmdEnd(c) % PageSize)

\* A word lies on its page.
LEMMA PageIs ==
  ASSUME NEW a \in Nat
  PROVE  /\ Page(a) \in Nat
         /\ At(Page(a)) \in Nat
         /\ At(Page(a)) <= a
         /\ a < At(Page(a)) + PageSize
         /\ a % PageSize = a - At(Page(a))
<1>1. PageSize \in Nat /\ PageSize > 0
  BY PstorageAssumption
<1>2. a = PageSize * (a \div PageSize) + (a % PageSize) /\ a % PageSize \in 0 .. PageSize - 1
      /\ a \div PageSize \in Int
  BY <1>1
<1>3. a \div PageSize >= 0
  BY <1>1
<1>4. (a \div PageSize) * PageSize = PageSize * (a \div PageSize)
  BY <1>1, <1>2
<1>5. (a \div PageSize) * PageSize \in Nat
  BY <1>1, <1>2, <1>3
<1> QED
  BY <1>1, <1>2, <1>3, <1>4, <1>5 DEF Page, At

\* Where a page begins, and the next one.
LEMMA AtIs ==
  ASSUME NEW p \in Nat
  PROVE  /\ At(p) \in Nat
         /\ At(p + 1) = At(p) + PageSize
<1>1. PageSize \in Nat /\ PageSize > 0
  BY PstorageAssumption
<1> QED
  BY <1>1 DEF At

\* A later page begins behind the end of an earlier one.
LEMMA AtGrows ==
  ASSUME NEW p \in Nat, NEW q \in Nat, p < q
  PROVE  At(p) + PageSize <= At(q)
<1>1. PageSize \in Nat /\ PageSize > 0
  BY PstorageAssumption
<1>2. PICK d \in Nat : q = (p + 1) + d
  <2>1. q - (p + 1) \in Nat /\ q = (p + 1) + (q - (p + 1))
    OBVIOUS
  <2> QED
    BY <2>1
<1>3. q * PageSize = (p * PageSize + PageSize) + d * PageSize
  BY <1>1, <1>2
<1>4. d * PageSize >= 0
  BY <1>1
<1> QED
  BY <1>1, <1>3, <1>4 DEF At

\* Pages are in the order of their words.
LEMMA PageGrows ==
  ASSUME NEW a \in Nat, NEW b \in Nat, a <= b
  PROVE  Page(a) <= Page(b)
<1> SUFFICES ASSUME Page(b) < Page(a) PROVE FALSE
  BY PageIs
<1>1. At(Page(b)) + PageSize <= At(Page(a))
  BY PageIs, AtGrows
<1>2. PageSize \in Nat /\ PageSize > 0
  BY PstorageAssumption
<1> QED
  BY <1>1, <1>2, PageIs

\* The page of a word is the one whose bounds it lies between.
LEMMA PageIsAt ==
  ASSUME NEW a \in Nat, NEW p \in Nat, At(p) <= a, a < At(p) + PageSize
  PROVE  Page(a) = p
<1>1. CASE Page(a) < p
  <2>1. At(Page(a)) + PageSize <= At(p)
    BY <1>1, PageIs, AtGrows
  <2> QED
    BY <2>1, PageIs, AtIs, PstorageAssumption
<1>2. CASE p < Page(a)
  <2>1. At(p) + PageSize <= At(Page(a))
    BY <1>2, PageIs, AtGrows
  <2> QED
    BY <2>1, PageIs, AtIs, PstorageAssumption
<1> QED
  BY <1>1, <1>2, PageIs

\* Moving by whole pages moves the page of a word by as many.
LEMMA PageOfSum ==
  ASSUME NEW k \in Nat, NEW r \in Nat, NEW a, a = At(k) + r
  PROVE  Page(a) = k + Page(r)
<1>1. PICK j \in Nat : j = Page(r)
  BY PageIs
<1>2. At(j) <= r /\ r < At(j) + PageSize /\ At(j) \in Nat
  BY <1>1, PageIs
<1>3. At(k + j) = At(k) + At(j) /\ At(k) \in Nat /\ PageSize \in Nat
  BY PstorageAssumption DEF At
<1>4. a \in Nat /\ k + j \in Nat /\ At(k + j) <= a /\ a < At(k + j) + PageSize
  BY <1>2, <1>3
<1> QED
  BY <1>1, <1>4, PageIsAt

\* The swap page is the page behind the data pages.
LEMMA SwapIs == SwapAddr = At(PSTORAGE_NUM_OF_PAGES) /\ SwapAddr \in Nat /\ PSTORAGE_NUM_OF_PAGES \in Nat
                /\ PageSize \in Nat /\ PageSize >= 1 /\ SwapAddr >= PageSize
                /\ Page(SwapAddr) = PSTORAGE_NUM_OF_PAGES
<1>1. PageSize \in Nat /\ PageSize > 0 /\ PSTORAGE_NUM_OF_PAGES \in Nat /\ PSTORAGE_NUM_OF_PAGES > 0
  BY PstorageAssumption
<1>2. SwapAddr = At(PSTORAGE_NUM_OF_PAGES)
  BY <1>1 DEF SwapAddr, At
<1>3. At(PSTORAGE_NUM_OF_PAGES) \in Nat
  BY <1>1, AtIs
<1>4. At(0) + PageSize <= At(PSTORAGE_NUM_OF_PAGES) /\ At(0) = 0
  <2>1. At(0) + PageSize <= At(PSTORAGE_NUM_OF_PAGES)
    BY <1>1, AtGrows
  <2> QED
    BY <1>1, <2>1 DEF At
<1>5. Page(SwapAddr) = PSTORAGE_NUM_OF_PAGES
  BY <1>1, <1>2, <1>3, PageIsAt
<1> QED
  BY <1>1, <1>2, <1>3, <1>4, <1>5

\* A word below the swap page is on a data page.
LEMMA PageOfData ==
  ASSUME NEW a \in Nat, a < SwapAddr
  PROVE  Page(a) < PSTORAGE_NUM_OF_PAGES /\ At(Page(a)) + PageSize <= SwapAddr
<1> DEFINE N == PSTORAGE_NUM_OF_PAGES
<1>1. N \in Nat /\ SwapAddr = At(N) /\ SwapAddr \in Nat /\ PageSize \in Nat
  BY SwapIs
<1>2. PICK p \in Nat : p = Page(a)
  BY PageIs
<1>3. At(p) <= a /\ At(p) \in Nat
  BY <1>2, PageIs
<1> HIDE DEF N
<1>4. p # N
  BY <1>1, <1>3
<1>5. ~ (N < p)
  <2> SUFFICES ASSUME N < p PROVE FALSE
    OBVIOUS
  <2>1. At(N) + PageSize <= At(p)
    BY <1>1, AtGrows
  <2> QED
    BY <1>1, <1>3, <2>1
<1>6. p < N
  BY <1>1, <1>4, <1>5
<1>7. At(p) + PageSize <= At(N)
  BY <1>1, <1>6, AtGrows
<1> QED
  BY <1>1, <1>2, <1>6, <1>7 DEF N

\* The fields of a registered module as numbers.
LEMMA ModuleIs ==
  ASSUME NEW T, TableOK(T), NEW m \in 1 .. Len(T)
  PROVE  /\ T[m].base_id \in Nat /\ T[m].base_id < SwapAddr
         /\ T[m].block_size \in Nat /\ T[m].block_size >= 1 /\ T[m].block_size <= PageSize
         /\ T[m].block_count \in Nat /\ T[m].block_count >= 1
         /\ EndIn(T, m) \in Nat /\ EndIn(T, m) <= SwapAddr /\ T[m].base_id < EndIn(T, m)
         /\ At(Page(T[m].base_id)) = T[m].base_id
         /\ <<T[m].block_size, T[m].block_count>> \in Registrations
<1>1. T[m] \in ModuleSet
  <2> HIDE DEF ModuleSet
  <2> QED
    BY DEF TableOK
<1>2. PICK r \in ModuleSet : r = T[m]
  BY <1>1
<1>3. /\ r.base_id \in DataWords /\ r.block_size \in 1 .. PageSize /\ r.block_count \in 1 .. SwapAddr
  BY DEF ModuleSet
<1>4. PICK b \in Nat, s \in Nat, n \in Nat : b = r.base_id /\ s = r.block_size /\ n = r.block_count
  BY <1>3, SwapIs DEF DataWords
<1>5. b < SwapAddr /\ s >= 1 /\ s <= PageSize /\ n >= 1
  BY <1>3, <1>4, SwapIs DEF DataWords
<1>6. s * n \in Nat /\ s * n >= 1
  BY <1>5
<1>7. EndIn(T, m) = b + s * n
  BY <1>2, <1>4 DEF EndIn
<1>8. EndIn(T, m) \in Nat /\ b < EndIn(T, m)
  BY <1>6, <1>7
<1>9. EndIn(T, m) <= SwapAddr /\ At(Page(T[m].base_id)) = T[m].base_id
      /\ <<T[m].block_size, T[m].block_count>> \in Registrations
  BY DEF TableOK
<1> QED
  BY <1>2, <1>4, <1>5, <1>8, <1>9

\* Where the blocks of a module are.
LEMMA BlockIs ==
  ASSUME NEW T, TableOK(T), NEW m \in 1 .. Len(T),
         NEW n \in 0 .. T[m].block_count - 1, NEW b, b = T[m].base_id + n * T[m].block_size
  PROVE  /\ b \in Nat /\ T[m].base_id <= b /\ b + T[m].block_size <= EndIn(T, m)
         /\ Page(b) = Page(b + T[m].block_size - 1)
<1>1. PICK base \in Nat, s \in Nat, k \in Nat :
        base = T[m].base_id /\ s = T[m].block_size /\ k = T[m].block_count
  BY ModuleIs
<1>2. s >= 1 /\ k >= 1 /\ <<s, k>> \in Registrations /\ At(Page(base)) = base /\ Page(base) \in Nat
  BY <1>1, ModuleIs, PageIs
<1>3. n \in Nat /\ n <= k - 1
  BY <1>1
<1>4. PICK o \in Nat : o = n * s
  BY <1>3
<1>5. o + s <= s * k
  <2>1. PICK d \in Nat : k = (n + 1) + d
    <3>1. k - (n + 1) \in Nat /\ k = (n + 1) + (k - (n + 1))
      BY <1>3
    <3> QED
      BY <3>1
  <2>2. s * k = (n * s + s) + s * d
    BY <1>3, <2>1
  <2>3. s * d >= 0
    BY <2>1
  <2> QED
    BY <1>4, <2>2, <2>3, <1>3
<1>6. b = base + o /\ EndIn(T, m) = base + s * k
  BY <1>1, <1>4 DEF EndIn
<1>7. Page(o) = Page(o + s - 1)
  <2>1. <<s, k>>[1] = s /\ <<s, k>>[2] = k
    OBVIOUS
  <2>2. n \in 0 .. k - 1
    BY <1>3
  <2>3. Page(n * s) = Page(n * s + s - 1)
    <3>1. s * k <= SwapAddr
      <4>1. PICK w \in Nat : w = s * k
        OBVIOUS
      <4>2. base + w <= SwapAddr
        <5>1. EndIn(T, m) <= SwapAddr
          BY ModuleIs
        <5> QED
          BY <1>1, <4>1, <5>1 DEF EndIn
      <4> QED
        BY <4>1, <4>2, SwapIs
    <3> QED
      BY <1>2, <2>1, <2>2, <3>1, BlocksAssumption
  <2> QED
    BY <1>4, <2>3
<1>8. Page(b) = Page(base) + Page(o)
  <2>1. b = At(Page(base)) + o
    BY <1>2, <1>6
  <2> QED
    BY <1>2, <2>1, PageOfSum
<1>9. Page(b + s - 1) = Page(base) + Page(o + s - 1)
  <2>1. PICK r \in Nat : r = o + s - 1
    BY <1>2
  <2>3. PICK d \in Nat : d = At(Page(base)) /\ d = base
    BY <1>2
  <2>2. b + s - 1 = d + r
    BY <1>2, <1>6, <2>1, <2>3
  <2> QED
    BY <1>2, <2>1, <2>2, <2>3, PageOfSum
<1>10. Page(b) = Page(b + s - 1)
  BY <1>7, <1>8, <1>9
<1>11. b \in Nat /\ base <= b /\ b + s <= EndIn(T, m)
  <2>1. s * k \in Nat
    OBVIOUS
  <2> QED
    BY <1>5, <1>6, <2>1
<1> QED
  BY <1>1, <1>10, <1>11

\* The fields of a command.
LEMMA CommandFields ==
  ASSUME NEW c \in CommandSet
  PROVE  /\ c.op_code \in {"store", "update", "clear"}
         /\ c.module_id \in Nat /\ c.block_id \in Nat /\ c.size \in Nat
         /\ c.offset \in Nat /\ c.data \in Nat
BY DEF CommandSet

\* The fields of a legal command as numbers: s and n are its first word and the first behind it.
LEMMA LegalIs ==
  ASSUME NEW T, TableOK(T), NEW c, Legal(T, c)
  PROVE  \E b \in Nat, s \in Nat, n \in Nat :
           /\ b = c.block_id /\ s = Start(c) /\ n = CmdEnd(c)
           /\ T[c.module_id].base_id <= b /\ b <= s /\ s < n
           /\ n <= EndIn(T, c.module_id) /\ n <= SwapAddr
           /\ n = s + c.size
           /\ Page(b) = First(c) /\ First(c) <= LastPage(c)
           /\ First(c) \in Nat /\ LastPage(c) \in Nat /\ LastPage(c) < PSTORAGE_NUM_OF_PAGES
           /\ Page(n - 1) = LastPage(c) /\ Page(s) = First(c)
           /\ At(First(c)) \in Nat /\ At(LastPage(c)) \in Nat
           /\ At(First(c)) <= s /\ s < At(First(c)) + PageSize
           /\ At(LastPage(c)) < n /\ n <= At(LastPage(c)) + PageSize
<1>1. c \in CommandSet /\ c.module_id \in 1 .. Len(T) /\ c.size >= 1
      /\ T[c.module_id].base_id <= c.block_id /\ CmdEnd(c) <= EndIn(T, c.module_id)
      /\ (c.op_code = "clear" => c.offset = 0)
      /\ (c.op_code # "clear" => Page(c.block_id) = LastPage(c))
  BY DEF Legal
<1>2. PICK b \in Nat, z \in Nat, o \in Nat : b = c.block_id /\ z = c.size /\ o = c.offset
  BY <1>1, CommandFields
<1>3. PICK s \in Nat : s = b + o
  BY <1>2
<1>4. PICK n \in Nat : n = s + z
  BY <1>3
<1>5. s = Start(c) /\ n = CmdEnd(c) /\ LastPage(c) = Page(n - 1)
  BY <1>2, <1>3, <1>4 DEF Start, CmdEnd, LastPage
<1>6. EndIn(T, c.module_id) \in Nat /\ EndIn(T, c.module_id) <= SwapAddr
  BY <1>1, ModuleIs
<1>7. z >= 1 /\ b <= s /\ s < n /\ n - 1 \in Nat /\ s <= n - 1 /\ n <= SwapAddr
  <2>1. z >= 1
    BY <1>1, <1>2
  <2>2. b <= s /\ s < n /\ n - 1 \in Nat /\ s <= n - 1
    BY <1>3, <1>4, <2>1
  <2>3. PICK k \in Nat : k = EndIn(T, c.module_id)
    BY <1>6
  <2>4. n <= k /\ k <= SwapAddr
    BY <1>1, <1>5, <1>6, <2>3
  <2>5. n <= SwapAddr
    BY <2>3, <2>4, SwapIs
  <2> QED
    BY <2>1, <2>2, <2>5
<1>8. First(c) = Page(s)
  BY <1>5 DEF First
<1>9. PICK m \in Nat : m = n - 1
  BY <1>7
<1>10. Page(b) <= Page(s) /\ Page(s) <= Page(m) /\ Page(b) \in Nat /\ Page(s) \in Nat /\ Page(m) \in Nat
  <2>1. s <= m
    BY <1>7, <1>9
  <2>2. Page(b) <= Page(s) /\ Page(s) <= Page(m)
    BY <1>7, <2>1, PageGrows
  <2> QED
    BY <2>2, PageIs
<1>11. Page(b) = Page(s)
  <2>1. CASE c.op_code = "clear"
    BY <1>1, <1>2, <1>3, <2>1
  <2>2. CASE c.op_code # "clear"
    <3>1. Page(b) = Page(m)
      BY <1>1, <1>2, <1>5, <1>9, <2>2
    <3> QED
      BY <1>10, <3>1
  <2> QED
    BY <2>1, <2>2
<1>12. Page(m) < PSTORAGE_NUM_OF_PAGES
  BY <1>7, <1>9, PageOfData, SwapIs
<1>13. At(Page(s)) \in Nat /\ At(Page(s)) <= s /\ s < At(Page(s)) + PageSize
  BY PageIs
<1>14. At(Page(m)) \in Nat /\ At(Page(m)) <= m /\ m < At(Page(m)) + PageSize
  BY PageIs
<1>15. At(Page(m)) < n /\ n <= At(Page(m)) + PageSize
  BY <1>9, <1>14, SwapIs
<1>16. LastPage(c) = Page(m)
  BY <1>5, <1>9
<1>17. Page(n - 1) = LastPage(c)
  BY <1>5
<1> WITNESS b \in Nat, s \in Nat, n \in Nat
<1>18. b = c.block_id /\ s = Start(c) /\ n = CmdEnd(c)
  BY <1>2, <1>5
<1>19. T[c.module_id].base_id <= b /\ b <= s /\ s < n
  BY <1>1, <1>2, <1>7
<1>20. n <= EndIn(T, c.module_id) /\ n <= SwapAddr
  BY <1>1, <1>5, <1>7
<1>21. n = s + c.size
  BY <1>2, <1>4
<1>22. Page(b) = First(c) /\ First(c) <= LastPage(c)
  BY <1>8, <1>10, <1>11, <1>16
<1>23. First(c) \in Nat /\ LastPage(c) \in Nat /\ LastPage(c) < PSTORAGE_NUM_OF_PAGES
  BY <1>8, <1>10, <1>12, <1>16
<1> QED
  BY <1>8, <1>13, <1>14, <1>15, <1>16, <1>17, <1>18, <1>19, <1>20, <1>21, <1>22, <1>23

\* The words behind a command that share its last page belong to its module or to none.
LEMMA OwnerIs ==
  ASSUME NEW T, TableOK(T), NEW c, Legal(T, c), NEW a, IsOwned(T, a),
         CmdEnd(c) <= a, Page(a) = LastPage(c)
  PROVE  a < EndIn(T, c.module_id)
<1>1. PICK m \in 1 .. Len(T) : Within(T, m, a) /\ a \in Nat
  BY DEF IsOwned
<1>2. c.module_id \in 1 .. Len(T)
  BY DEF Legal
<1>3. PICK b \in Nat, s \in Nat, n \in Nat :
        /\ b = c.block_id /\ n = CmdEnd(c) /\ T[c.module_id].base_id <= b /\ b <= s /\ s < n
        /\ n <= EndIn(T, c.module_id)
        /\ LastPage(c) \in Nat /\ At(LastPage(c)) \in Nat /\ At(LastPage(c)) < n
        /\ n <= At(LastPage(c)) + PageSize
  BY LegalIs
<1>4. PICK base \in Nat, end \in Nat : base = T[c.module_id].base_id /\ end = EndIn(T, c.module_id)
  BY <1>2, ModuleIs
<1>5. PICK from \in Nat, to \in Nat : from = T[m].base_id /\ to = EndIn(T, m)
  BY <1>1, ModuleIs
<1>6. from <= a /\ a < to /\ n <= a /\ base <= b /\ n <= end
  BY <1>1, <1>3, <1>4, <1>5 DEF Within
<1>7. CASE m = c.module_id
  BY <1>4, <1>5, <1>6, <1>7
<1>8. CASE m < c.module_id
  <2>1. EndIn(T, m) <= T[c.module_id].base_id
    BY <1>2, <1>8 DEF TableOK
  <2>2. to <= base
    BY <1>4, <1>5, <2>1
  <2> QED
    BY <1>1, <1>3, <1>6, <2>2
<1>9. CASE c.module_id < m
  <2>1. end <= from
    <3>1. EndIn(T, c.module_id) <= T[m].base_id
      BY <1>2, <1>9 DEF TableOK
    <3> QED
      BY <1>4, <1>5, <3>1
  <2>2. At(Page(from)) = from /\ Page(from) \in Nat
    BY <1>1, <1>5, ModuleIs, PageIs
  <2>3. Page(from) <= Page(a)
    BY <1>1, <1>6, PageGrows
  <2>4. At(LastPage(c)) < from
    BY <1>3, <1>6, <2>1
  <2>5. PICK p \in Nat, q \in Nat : p = Page(from) /\ q = LastPage(c)
    BY <1>3, <2>2
  <2>6. p <= q
    BY <2>3, <2>5
  <2>7. CASE p = q
    BY <2>2, <2>4, <2>5, <2>7, <1>3
  <2>8. CASE p < q
    <3>1. At(p) + PageSize <= At(q)
      BY <2>8, AtGrows
    <3> QED
      BY <3>1, <2>2, <2>4, <2>5, <1>3, SwapIs
  <2> QED
    BY <2>6, <2>7, <2>8
<1> QED
  BY <1>1, <1>2, <1>7, <1>8, <1>9

\* What the command does not cover of its last page, as far as it is anybody's, is its tail.
LEMMA TailIs ==
  ASSUME NEW T, TableOK(T), NEW c, Legal(T, c)
  PROVE  \E t \in Nat :
           /\ t = TailIn(T, c) /\ t < PageSize
           /\ t # 0 => /\ CmdEnd(c) + t <= At(LastPage(c)) + PageSize
                       /\ CmdEnd(c) % PageSize = CmdEnd(c) - At(LastPage(c))
           /\ \A a \in Nat : IsOwned(T, a) /\ Page(a) = LastPage(c) /\ CmdEnd(c) <= a
                               => a < CmdEnd(c) + t
<1>1. PICK b \in Nat, s \in Nat, n \in Nat :
        /\ n = CmdEnd(c) /\ s < n /\ n <= EndIn(T, c.module_id)
        /\ LastPage(c) \in Nat /\ At(LastPage(c)) \in Nat /\ At(LastPage(c)) < n
        /\ n <= At(LastPage(c)) + PageSize
  BY LegalIs
<1>2. PICK end \in Nat : end = EndIn(T, c.module_id)
  <2>1. c.module_id \in 1 .. Len(T)
    BY DEF Legal
  <2> QED
    BY <2>1, ModuleIs
<1>3. PICK l \in Nat : l = LastPage(c)
  BY <1>1
<1>4. PICK k \in Nat : k = At(l)
  BY <1>1, <1>3
<1>5. PageSize \in Nat /\ PageSize >= 1 /\ k < n /\ n <= k + PageSize /\ n <= end
  BY <1>1, <1>2, <1>3, <1>4, SwapIs
<1>6. ASSUME NEW a \in Nat, IsOwned(T, a), Page(a) = l, n <= a
      PROVE  a < end /\ a < k + PageSize
  <2>1. a < end
    BY <1>1, <1>2, <1>3, <1>6, OwnerIs
  <2>2. a < k + PageSize
    BY <1>4, <1>6, PageIs
  <2> QED
    BY <2>1, <2>2
<1>7. CASE n = k + PageSize
  <2>1. n = At(l + 1) /\ l + 1 \in Nat /\ n < At(l + 1) + PageSize
    BY <1>3, <1>4, <1>5, <1>7, AtIs
  <2>2. Page(n) = l + 1
    BY <1>5, <2>1, PageIsAt
  <2>3. n % PageSize = 0
    BY <1>5, <2>1, <2>2, PageIs
  <2>4. TailIn(T, c) = 0
    BY <1>1, <2>3 DEF TailIn
  <2>5. \A a \in Nat : ~ (IsOwned(T, a) /\ Page(a) = l /\ n <= a)
    BY <1>5, <1>6, <1>7
  <2> QED
    BY <1>1, <1>3, <1>5, <2>4, <2>5
<1>8. CASE n # k + PageSize
  <2>1. n < k + PageSize
    BY <1>5, <1>8
  <2>2. Page(n) = l
    BY <1>4, <1>5, <2>1, PageIsAt
  <2>3. n % PageSize = n - k
    BY <1>4, <2>2, PageIs
  <2>4. n % PageSize # 0
    BY <1>5, <2>3
  <2>5. CASE n = end
    <3>1. TailIn(T, c) = 0
      BY <1>1, <1>2, <2>5 DEF TailIn
    <3>2. \A a \in Nat : ~ (IsOwned(T, a) /\ Page(a) = l /\ n <= a)
      BY <1>5, <1>6, <2>5
    <3> QED
      BY <1>1, <1>3, <1>5, <3>1, <3>2
  <2>6. CASE n # end /\ Page(end) = Page(n)
    <3>1. TailIn(T, c) = end - n
      BY <1>1, <1>2, <2>4, <2>6 DEF TailIn
    <3>2. PICK t \in Nat : t = end - n
      BY <1>5
    <3>3. end < k + PageSize
      BY <1>4, <2>2, <2>6, PageIs
    <3>4. t < PageSize /\ n + t <= k + PageSize /\ n + t = end
      BY <1>5, <3>2, <3>3
    <3>5. t = TailIn(T, c)
      BY <3>1, <3>2
    <3>6. \A a \in Nat : IsOwned(T, a) /\ Page(a) = l /\ n <= a => a < n + t
      BY <1>6, <3>4
    <3> WITNESS t \in Nat
    <3> QED
      BY <1>1, <1>3, <1>4, <2>3, <3>4, <3>5, <3>6
  <2>7. CASE n # end /\ Page(end) # Page(n)
    <3>1. TailIn(T, c) = PageSize - (n % PageSize)
      BY <1>1, <1>2, <2>4, <2>7 DEF TailIn
    <3>2. PICK t \in Nat : t = PageSize - (n - k)
      BY <1>5, <2>1
    <3>3. t < PageSize /\ n + t = k + PageSize
      BY <1>5, <3>2
    <3>4. t = TailIn(T, c)
      BY <2>3, <3>1, <3>2
    <3>5. \A a \in Nat : IsOwned(T, a) /\ Page(a) = l /\ n <= a => a < n + t
      BY <1>6, <3>3
    <3>6. n + t <= k + PageSize
      BY <3>3, <1>5
    <3> WITNESS t \in Nat
    <3> QED
      BY <1>1, <1>3, <1>4, <2>3, <3>3, <3>4, <3>5, <3>6
  <2> QED
    BY <2>5, <2>6, <2>7
<1> QED
  BY <1>7, <1>8

\* A word of somebody's on the pages of a command that the command does not
\* cover is before it on its first page or behind it on its last.
LEMMA Outside ==
  ASSUME NEW T, TableOK(T), NEW c, Legal(T, c), NEW a, IsOwned(T, a), a \notin Span(c),
         Page(a) \in First(c) .. LastPage(c)
  PROVE  \/ Page(a) = First(c) /\ a < Start(c)
         \/ Page(a) = LastPage(c) /\ CmdEnd(c) <= a /\ a < CmdEnd(c) + TailIn(T, c)
<1>0. a \in Nat
  BY DEF IsOwned
<1>1. PICK b \in Nat, s \in Nat, n \in Nat :
        /\ s = Start(c) /\ n = CmdEnd(c) /\ s < n
        /\ First(c) <= LastPage(c) /\ First(c) \in Nat /\ LastPage(c) \in Nat
        /\ Page(n - 1) = LastPage(c) /\ Page(s) = First(c)
  BY LegalIs
<1>2. a < s \/ n <= a
  <2>1. Span(c) = s .. n - 1
    BY <1>1 DEF Span, Start
  <2> QED
    BY <1>0, <2>1
<1>3. CASE a < s
  <2>1. Page(a) <= Page(s)
    <3>1. a <= s
      BY <1>0, <1>3
    <3> QED
      BY <1>0, <3>1, PageGrows
  <2>2. Page(a) = First(c)
    <3>1. PICK p \in Nat, q \in Nat : p = Page(a) /\ q = First(c)
      BY <1>0, <1>1, PageIs
    <3>2. p <= q /\ q <= p
      BY <1>1, <2>1, <3>1
    <3> QED
      BY <3>1, <3>2
  <2> QED
    BY <1>1, <1>3, <2>2
<1>4. CASE n <= a
  <2>1. n - 1 \in Nat /\ n - 1 <= a
    BY <1>0, <1>1, <1>4
  <2>2. Page(n - 1) <= Page(a)
    BY <1>0, <2>1, PageGrows
  <2>3. Page(a) = LastPage(c)
    <3>1. PICK p \in Nat, q \in Nat : p = Page(a) /\ q = LastPage(c)
      BY <1>0, <1>1, PageIs
    <3>2. q <= p /\ p <= q
      BY <1>1, <2>2, <3>1
    <3> QED
      BY <3>1, <3>2
  <2> QED
    BY <1>0, <1>1, <1>4, <2>3, TailIs
<1> QED
  BY <1>2, <1>3, <1>4

\* Every page from the first to the last has a word of the command.
LEMMA PagesOfSpan ==
  ASSUME NEW T, TableOK(T), NEW c, Legal(T, c)
  PROVE  \A p \in Nat : p \in First(c) .. LastPage(c) <=> \E a \in Span(c) : Page(a) = p
<1>1. PICK b \in Nat, s \in Nat, n \in Nat :
        /\ s = Start(c) /\ n = CmdEnd(c) /\ s < n
        /\ First(c) <= LastPage(c) /\ First(c) \in Nat /\ LastPage(c) \in Nat
        /\ Page(n - 1) = LastPage(c) /\ Page(s) = First(c)
        /\ At(LastPage(c)) \in Nat /\ At(LastPage(c)) < n
  BY LegalIs
<1>2. Span(c) = s .. n - 1
  BY <1>1 DEF Span, Start
<1>3. ASSUME NEW a \in Span(c)
      PROVE  Page(a) \in First(c) .. LastPage(c)
  <2>1. a \in Nat /\ s <= a /\ a <= n - 1 /\ n - 1 \in Nat
    BY <1>1, <1>2
  <2>2. Page(s) <= Page(a) /\ Page(a) <= Page(n - 1) /\ Page(a) \in Nat
    BY <2>1, PageGrows, PageIs
  <2> QED
    BY <1>1, <2>2
<1>4. ASSUME NEW p \in Nat, p \in First(c) .. LastPage(c)
      PROVE  \E a \in Span(c) : Page(a) = p
  <2>1. CASE p = First(c)
    <3>1. s \in Span(c)
      BY <1>1, <1>2
    <3> QED
      BY <1>1, <2>1, <3>1
  <2>2. CASE p # First(c)
    <3>1. PICK f \in Nat, l \in Nat, k \in Nat : f = First(c) /\ l = LastPage(c) /\ k = At(p)
      BY <1>1, AtIs
    <3>2. f < p /\ p <= l
      BY <1>4, <2>2, <3>1
    <3>3. Page(k) = p
      BY <3>1, PageIsAt, SwapIs
    <3>4. k <= At(l)
      <4>1. CASE p = l
        BY <3>1, <4>1
      <4>2. CASE p < l
        <5>1. At(p) + PageSize <= At(l)
          BY <4>2, AtGrows
        <5> QED
          BY <1>1, <3>1, <5>1, SwapIs
      <4> QED
        BY <3>2, <4>1, <4>2
    <3>5. k < n
      BY <1>1, <3>1, <3>4
    <3>6. s <= k
      <4>1. ~ (k < s)
        <5>1. k < s => Page(k) <= Page(s)
          BY PageGrows
        <5>2. Page(s) = f
          BY <1>1, <3>1
        <5> QED
          BY <3>2, <3>3, <5>1, <5>2
      <4> QED
        BY <4>1
    <3>7. k \in Span(c)
      BY <1>2, <3>5, <3>6
    <3> QED
      BY <3>3, <3>7
  <2> QED
    BY <2>1, <2>2
<1> QED
  BY <1>3, <1>4

\* Whether a command lies on one page, as m_flags notes it (pstorage.c:425-435).
LEMMA SingleIs ==
  ASSUME NEW T, TableOK(T), NEW c, Legal(T, c)
  PROVE  Page(c.block_id) = Page(c.block_id + c.size - 1) <=> First(c) = LastPage(c)
<1>1. PICK b \in Nat, s \in Nat, n \in Nat :
        /\ b = c.block_id /\ s = Start(c) /\ n = CmdEnd(c) /\ b <= s /\ s < n /\ n = s + c.size
        /\ First(c) <= LastPage(c) /\ First(c) \in Nat /\ LastPage(c) \in Nat
        /\ Page(b) = First(c) /\ Page(n - 1) = LastPage(c)
  BY LegalIs
<1>2. c \in CommandSet /\ c.size >= 1 /\ (c.op_code = "clear" => c.offset = 0)
      /\ (c.op_code # "clear" => Page(c.block_id) = LastPage(c))
  BY DEF Legal
<1>3. PICK z \in Nat, o \in Nat : z = c.size /\ o = c.offset
  BY <1>2, CommandFields
<1>4. s = b + o /\ n = s + z /\ z >= 1
  BY <1>1, <1>2, <1>3 DEF Start
<1>5. PICK r \in Nat, m \in Nat : r = b + z - 1 /\ m = n - 1
  BY <1>1, <1>4
<1>6. CASE c.op_code = "clear"
  <2>1. r = m
    BY <1>2, <1>3, <1>4, <1>5, <1>6
  <2> QED
    BY <1>1, <1>3, <1>5, <2>1
<1>7. CASE c.op_code # "clear"
  <2>1. b <= r /\ r <= m
    BY <1>4, <1>5
  <2>2. Page(b) <= Page(r) /\ Page(r) <= Page(m) /\ Page(r) \in Nat
    BY <2>1, PageGrows, PageIs
  <2>3. Page(b) = LastPage(c)
    BY <1>1, <1>2, <1>7
  <2>4. Page(m) = LastPage(c)
    BY <1>1, <1>5
  <2>5. Page(r) = Page(b)
    BY <1>1, <2>2, <2>3, <2>4
  <2> QED
    BY <1>1, <1>3, <1>5, <2>3, <2>5
<1> QED
  BY <1>6, <1>7

\* The commands that clear_operation_execute takes for whole pages are (pstorage.c:1228-1239).
LEMMA WholeIs ==
  ASSUME NEW T, TableOK(T), NEW c, Legal(T, c), c.block_id % PageSize = 0,
         \/ c.size = PageSize
         \/ CmdEnd(c) = EndIn(T, c.module_id) /\ c.offset = 0
  PROVE  Whole(T, c)
<1>1. PICK b \in Nat, s \in Nat, n \in Nat :
        /\ b = c.block_id /\ s = Start(c) /\ n = CmdEnd(c) /\ b <= s /\ s < n /\ n = s + c.size
        /\ First(c) <= LastPage(c) /\ First(c) \in Nat /\ LastPage(c) \in Nat
        /\ Page(b) = First(c) /\ Page(n - 1) = LastPage(c)
        /\ At(LastPage(c)) \in Nat /\ n <= At(LastPage(c)) + PageSize /\ n <= EndIn(T, c.module_id)
  BY LegalIs
<1>2. c \in CommandSet /\ c.size >= 1 /\ (c.op_code = "clear" => c.offset = 0)
      /\ (c.op_code # "clear" => Page(c.block_id) = LastPage(c))
  BY DEF Legal
<1>3. PICK z \in Nat, o \in Nat : z = c.size /\ o = c.offset
  BY <1>2, CommandFields
<1>4. s = b + o /\ n = s + z /\ z >= 1
  BY <1>1, <1>2, <1>3 DEF Start
<1>5. b = At(Page(b))
  <2>1. b % PageSize = 0
    BY <1>1
  <2>2. b % PageSize = b - At(Page(b)) /\ At(Page(b)) \in Nat
    BY PageIs
  <2> QED
    BY <2>1, <2>2
<1>6. o = 0
  <2>1. CASE c.op_code = "clear"
    BY <1>2, <1>3, <2>1
  <2>2. CASE c.op_code # "clear" /\ c.size = PageSize
    <3>1. At(LastPage(c)) = b
      BY <1>1, <1>2, <1>5, <2>2
    <3>2. n <= b + PageSize /\ z = PageSize
      BY <1>1, <1>3, <2>2, <3>1
    <3> QED
      BY <1>4, <3>2, SwapIs
  <2>3. CASE c.offset = 0
    BY <1>3, <2>3
  <2> QED
    BY <2>1, <2>2, <2>3
<1>7. At(First(c)) = Start(c)
  BY <1>1, <1>4, <1>5, <1>6
<1>8. ASSUME NEW a \in Nat, IsOwned(T, a), Page(a) = LastPage(c), ~ (a < CmdEnd(c))
      PROVE  FALSE
  <2>0. CmdEnd(c) <= a
    BY <1>1, <1>8
  <2>1. PICK end \in Nat : end = EndIn(T, c.module_id)
    <3>1. c.module_id \in 1 .. Len(T)
      BY DEF Legal
    <3> QED
      BY <3>1, ModuleIs
  <2>2. a < end
    BY <1>8, <2>0, <2>1, OwnerIs
  <2>3. CASE CmdEnd(c) = EndIn(T, c.module_id)
    <3>1. n <= a /\ a < n
      BY <1>1, <2>0, <2>1, <2>2, <2>3
    <3> QED
      BY <1>8, <3>1
  <2>4. CASE c.size = PageSize
    <3>1. n = b + PageSize
      BY <1>3, <1>4, <1>6, <2>4, SwapIs
    <3>2. PICK p \in Nat : p = Page(b) /\ b = At(p)
      BY <1>1, <1>5
    <3>3. b <= n - 1 /\ n - 1 < b + PageSize /\ n - 1 \in Nat
      BY <3>1, SwapIs
    <3>4. Page(n - 1) = p
      BY <3>2, <3>3, PageIsAt
    <3>5. Page(a) = p
      BY <1>1, <1>8, <3>4
    <3>6. a < b + PageSize
      BY <3>2, <3>5, PageIs
    <3> QED
      BY <1>1, <2>0, <3>1, <3>6, SwapIs
  <2> QED
    BY <2>3, <2>4
<1> QED
  BY <1>7, <1>8 DEF Whole

(***************************************************************************)
(* What the clients may ask for.                                           *)
(***************************************************************************)
\* What a record of a call looks like, and what is asked of it.
LEMMA RequestIs ==
  ASSUME NEW tag, NEW c \in Requests(tag)
  PROVE  \E mod \in DOMAIN m_app_table : \E b \in Blocks(mod) :
           /\ c.module_id = mod /\ c.block_id = b /\ c.data = tag
           /\ c = [op_code |-> c.op_code, module_id |-> c.module_id, block_id |-> c.block_id,
                   size |-> c.size, offset |-> c.offset, data |-> c.data]
           /\ \/ /\ c.op_code \in {"store", "update"}
                 /\ c.size \in 1 .. BlockSize(mod) /\ c.offset \in 0 .. BlockSize(mod) - 1
              \/ /\ c.op_code = "clear" /\ c.offset = 0
                 /\ \E n \in 1 .. m_app_table[mod].block_count : c.size = n * BlockSize(mod)
<1> DEFINE Command(mod, op, b, s, o) == [op_code |-> op, module_id |-> mod, block_id |-> b,
                                         size |-> s, offset |-> o, data |-> tag]
<1> DEFINE Calls(mod) ==
             {Command(mod, op, b, s, o) : op \in {"store", "update"}, b \in Blocks(mod),
                s \in 1 .. BlockSize(mod), o \in 0 .. BlockSize(mod) - 1}
             \cup
             {Command(mod, "clear", b, n * BlockSize(mod), 0)
                : b \in Blocks(mod), n \in 1 .. m_app_table[mod].block_count}
<1>1. PICK mod \in DOMAIN m_app_table :
        \/ \E op \in {"store", "update"}, b \in Blocks(mod), s \in 1 .. BlockSize(mod),
              o \in 0 .. BlockSize(mod) - 1 : c = Command(mod, op, b, s, o)
        \/ \E b \in Blocks(mod), n \in 1 .. m_app_table[mod].block_count :
              c = Command(mod, "clear", b, n * BlockSize(mod), 0)
  <2>1. Requests(tag) = UNION {Calls(mod) : mod \in DOMAIN m_app_table}
    BY DEF Requests
  <2> HIDE DEF Calls
  <2>2. PICK mod \in DOMAIN m_app_table : c \in Calls(mod)
    BY <2>1
  <2> QED
    BY <2>2 DEF Calls
<1> HIDE DEF Calls
<1>2. CASE \E op \in {"store", "update"}, b \in Blocks(mod), s \in 1 .. BlockSize(mod),
              o \in 0 .. BlockSize(mod) - 1 : c = Command(mod, op, b, s, o)
  <2>1. PICK op \in {"store", "update"}, b \in Blocks(mod), s \in 1 .. BlockSize(mod),
             o \in 0 .. BlockSize(mod) - 1 : c = Command(mod, op, b, s, o)
    BY <1>2
  <2>2. c.op_code = op /\ c.module_id = mod /\ c.block_id = b /\ c.size = s /\ c.offset = o /\ c.data = tag
    BY <2>1
  <2> QED
    BY <2>1, <2>2
<1>3. CASE \E b \in Blocks(mod), n \in 1 .. m_app_table[mod].block_count :
              c = Command(mod, "clear", b, n * BlockSize(mod), 0)
  <2>1. PICK b \in Blocks(mod), n \in 1 .. m_app_table[mod].block_count :
              c = Command(mod, "clear", b, n * BlockSize(mod), 0)
    BY <1>3
  <2>2. PICK s : s = n * BlockSize(mod)
    OBVIOUS
  <2>3. c = Command(mod, "clear", b, s, 0)
    BY <2>1, <2>2
  <2>4. c.op_code = "clear" /\ c.module_id = mod /\ c.block_id = b /\ c.size = s /\ c.offset = 0 /\ c.data = tag
    BY <2>3
  <2>5. c = [op_code |-> c.op_code, module_id |-> c.module_id, block_id |-> c.block_id,
             size |-> c.size, offset |-> c.offset, data |-> c.data]
    BY <2>3, <2>4
  <2> QED
    BY <2>2, <2>4, <2>5
<1> QED
  BY <1>1, <1>2, <1>3

\* What passes the checks of the parameters is legal (pstorage.c:1397-1515).
LEMMA AcceptedIsLegal ==
  ASSUME TableOK(m_app_table), NEW tag \in Nat, tag <= MaxCommands, NEW c \in Accepted(tag)
  PROVE  Legal(m_app_table, c)
<1> DEFINE T == m_app_table
<1>1. c \in Requests(tag)
      /\ IF c.op_code = "clear" THEN CmdEnd(c) <= EndOfStorage(c.module_id)
         ELSE c.size + c.offset <= BlockSize(c.module_id)
  BY DEF Accepted
<1>2. PICK mod \in DOMAIN T : \E b \in Blocks(mod) :
           /\ c.module_id = mod /\ c.block_id = b /\ c.data = tag
           /\ c = [op_code |-> c.op_code, module_id |-> c.module_id, block_id |-> c.block_id,
                   size |-> c.size, offset |-> c.offset, data |-> c.data]
           /\ \/ /\ c.op_code \in {"store", "update"}
                 /\ c.size \in 1 .. BlockSize(mod) /\ c.offset \in 0 .. BlockSize(mod) - 1
              \/ /\ c.op_code = "clear" /\ c.offset = 0
                 /\ \E n \in 1 .. T[mod].block_count : c.size = n * BlockSize(mod)
  BY <1>1, RequestIs
<1>2a. PICK b \in Blocks(mod) :
           /\ c.module_id = mod /\ c.block_id = b /\ c.data = tag
           /\ c = [op_code |-> c.op_code, module_id |-> c.module_id, block_id |-> c.block_id,
                   size |-> c.size, offset |-> c.offset, data |-> c.data]
           /\ \/ /\ c.op_code \in {"store", "update"}
                 /\ c.size \in 1 .. BlockSize(mod) /\ c.offset \in 0 .. BlockSize(mod) - 1
              \/ /\ c.op_code = "clear" /\ c.offset = 0
                 /\ \E n \in 1 .. T[mod].block_count : c.size = n * BlockSize(mod)
  BY <1>2
<1>3. mod \in 1 .. Len(T) /\ DOMAIN T = 1 .. Len(T) /\ mod \in Nat
  BY DEF TableOK
<1>4. PICK base \in Nat, s \in Nat, k \in Nat :
        base = T[mod].base_id /\ s = T[mod].block_size /\ k = T[mod].block_count /\ s >= 1 /\ s <= PageSize
  BY <1>3, ModuleIs
<1>5. BlockSize(mod) = s /\ EndOfStorage(mod) = EndIn(T, mod)
  BY <1>4 DEF BlockSize, EndOfStorage, EndIn
<1>6. PICK i \in 0 .. k - 1 : b = base + i * s
  BY <1>4, <1>5 DEF Blocks
<1>7. b \in Nat /\ base <= b /\ b + s <= EndIn(T, mod) /\ Page(b) = Page(b + s - 1)
  <2>1. i \in 0 .. T[mod].block_count - 1 /\ b = T[mod].base_id + i * T[mod].block_size
    BY <1>4, <1>6
  <2>2. b \in Nat /\ T[mod].base_id <= b /\ b + T[mod].block_size <= EndIn(T, mod)
         /\ Page(b) = Page(b + T[mod].block_size - 1)
    BY <1>3, <2>1, BlockIs
  <2> QED
    BY <1>4, <2>2
<1> HIDE DEF T
<1>8. CASE c.op_code \in {"store", "update"} /\ c.size \in 1 .. s /\ c.offset \in 0 .. s - 1
  <2>1. PICK z \in Nat, o \in Nat : z = c.size /\ o = c.offset /\ z >= 1
    BY <1>4, <1>8
  <2>2. z + o <= s
    BY <1>1, <1>2a, <1>5, <1>8, <2>1
  <2>3. CmdEnd(c) = b + z + o
    BY <1>2a, <2>1 DEF CmdEnd
  <2>4. PICK m \in Nat : m = b + z + o - 1
    BY <1>7, <2>1
  <2>5. LastPage(c) = Page(m)
    <3>1. CmdEnd(c) - 1 = m
      BY <1>7, <2>1, <2>3, <2>4
    <3> QED
      BY <3>1 DEF LastPage
  <2>6. PICK r \in Nat : r = b + s - 1
    BY <1>4, <1>7
  <2>7. b <= m /\ m <= r
    BY <1>7, <2>1, <2>2, <2>4, <2>6
  <2>8. Page(b) <= Page(m) /\ Page(m) <= Page(r) /\ Page(b) \in Nat /\ Page(m) \in Nat
    BY <1>7, <2>7, PageGrows, PageIs
  <2>9. Page(b) = Page(m)
    BY <1>7, <2>6, <2>8
  <2>10. CmdEnd(c) <= EndIn(T, mod)
    <3>1. PICK end \in Nat : end = EndIn(T, mod)
      BY <1>3, ModuleIs DEF T
    <3> QED
      BY <1>7, <2>1, <2>2, <2>3, <3>1
  <2>11. c \in CommandSet
    BY <1>2a, <1>3, <1>7, <1>8, <2>1 DEF CommandSet
  <2>12. c.op_code # "clear" /\ c.size <= PageSize
    BY <1>4, <1>8, <2>1, SwapIs
  <2>13. c.block_id = b /\ c.module_id = mod /\ c.size >= 1 /\ c.data <= MaxCommands
    BY <1>2a, <2>1
  <2>14. T[c.module_id].base_id <= c.block_id
    BY <1>4, <1>7, <2>13
  <2> QED
    BY <1>3, <2>5, <2>9, <2>10, <2>11, <2>12, <2>13, <2>14 DEF Legal, T
<1>9. CASE c.op_code = "clear" /\ c.offset = 0 /\ \E n \in 1 .. k : c.size = n * s
  <2>1. PICK n \in 1 .. k : c.size = n * s
    BY <1>9
  <2>2. PICK z \in Nat : z = n * s
    BY <2>1
  <2>3. z >= 1
    BY <1>4, <2>1, <2>2
  <2>4. c.size = z
    BY <2>1, <2>2
  <2>5. c \in CommandSet
    BY <1>2a, <1>3, <1>7, <1>9, <2>4 DEF CommandSet
  <2>6. CmdEnd(c) <= EndIn(T, mod)
    BY <1>1, <1>2a, <1>5, <1>9
  <2>7. T[c.module_id].base_id <= c.block_id
    BY <1>2a, <1>4, <1>7
  <2>8. c.module_id = mod /\ c.data <= MaxCommands
    BY <1>2a
  <2> QED
    BY <1>3, <1>9, <2>3, <2>4, <2>5, <2>6, <2>7, <2>8 DEF Legal, T
<1> QED
  BY <1>2a, <1>4, <1>5, <1>8, <1>9 DEF T

\* A module more keeps the table in order (pstorage.c:1334-1372).
LEMMA RegisterKeeps ==
  ASSUME TableOK(m_app_table), PstorageRegister
  PROVE  TableOK(m_app_table')
<1> DEFINE T == m_app_table
           k == Len(T)
<1>1. PICK reg \in Registrations :
        /\ reg[1] <= PageSize /\ NextPageAddr + reg[1] * reg[2] <= SwapAddr
        /\ m_app_table' = Append(T, [base_id |-> NextPageAddr,
                                     block_size |-> reg[1], block_count |-> reg[2]])
  BY DEF PstorageRegister
<1>2. PICK s \in Nat \ {0}, n \in Nat \ {0} : s = reg[1] /\ n = reg[2] /\ reg = <<s, n>>
  BY PstorageAssumption
<1>3. T \in Seq(ModuleSet) /\ k \in Nat
  BY DEF TableOK
<1>4. PICK base \in Nat : /\ base = NextPageAddr /\ At(Page(base)) = base
                          /\ \A m \in 1 .. k : EndIn(T, m) <= base
  <2>1. CASE T = <<>>
    <3>1. NextPageAddr = 0 /\ k = 0
      BY <2>1 DEF NextPageAddr
    <3>2. At(Page(0)) = 0
      BY PageIs
    <3> QED
      BY <3>1, <3>2
  <2>2. CASE T # <<>>
    <3>1. k \in 1 .. k
      BY <1>3, <2>2
    <3>2. PICK end \in Nat : end = EndIn(T, k)
      BY <3>1, ModuleIs
    <3>3. EndOfStorage(Len(m_app_table)) = end
      BY <3>2 DEF EndOfStorage, BlockSize, EndIn
    <3>4. PICK a \in Nat : a = end + PageSize - 1
      BY SwapIs
    <3>5. PICK p \in Nat : p = Page(a)
      BY PageIs
    <3>6. NextPageAddr = At(p)
      BY <2>2, <3>3, <3>4, <3>5 DEF NextPageAddr, Page, At
    <3>7. At(p) \in Nat /\ Page(At(p)) = p
      <4>1. At(p) \in Nat
        BY AtIs
      <4>2. PICK q \in Nat : q = At(p)
        BY <4>1
      <4>3. Page(q) = p
        BY <4>2, PageIsAt, SwapIs
      <4> QED
        BY <4>2, <4>3
    <3>8. end <= At(p)
      <4>1. a < At(p) + PageSize
        BY <3>5, PageIs
      <4> QED
        BY <3>4, <3>7, <4>1, SwapIs
    <3>9. ASSUME NEW m \in 1 .. k
          PROVE  EndIn(T, m) <= At(p)
      <4>1. CASE m = k
        BY <3>2, <3>8, <4>1
      <4>2. CASE m < k
        <5>1. EndIn(T, m) <= T[k].base_id
          BY <3>1, <4>2 DEF TableOK
        <5>2. PICK x \in Nat, y \in Nat : x = EndIn(T, m) /\ y = T[k].base_id /\ y < end
          BY <3>1, <3>2, ModuleIs
        <5> QED
          BY <3>7, <3>8, <5>1, <5>2
      <4> QED
        BY <1>3, <4>1, <4>2
    <3> QED
      BY <3>6, <3>7, <3>9
  <2> QED
    BY <2>1, <2>2
<1>5. PICK mod : mod = [base_id |-> base, block_size |-> s, block_count |-> n]
  OBVIOUS
<1>6. mod.base_id = base /\ mod.block_size = s /\ mod.block_count = n
  BY <1>5
<1>7. PICK w \in Nat : w = s * n
  BY <1>2
<1>8. w >= 1 /\ n <= w /\ s <= PageSize /\ base + w <= SwapAddr
  <2>1. reg[1] * reg[2] = w
    BY <1>2, <1>7
  <2>2. base + w <= SwapAddr
    BY <1>1, <1>4, <2>1
  <2>3. w >= 1 /\ n <= w
    BY <1>2, <1>7
  <2> QED
    BY <1>1, <1>2, <2>2, <2>3
<1>9. mod \in ModuleSet
  <2>1. base < SwapAddr /\ n <= SwapAddr
    BY <1>2, <1>8, SwapIs
  <2>2. base \in DataWords /\ s \in 1 .. PageSize /\ n \in 1 .. SwapAddr
    BY <1>2, <1>8, <2>1, SwapIs DEF DataWords
  <2> QED
    BY <1>5, <2>2 DEF ModuleSet
<1>10. PICK U : U = Append(T, mod)
  OBVIOUS
<1>11. U = m_app_table'
  BY <1>1, <1>2, <1>4, <1>5, <1>10
<1>12. /\ U \in Seq(ModuleSet) /\ Len(U) = k + 1 /\ U[k + 1] = mod
       /\ \A m \in 1 .. k : U[m] = T[m]
  <2> HIDE DEF ModuleSet
  <2> QED
    BY <1>3, <1>9, <1>10
<1>13. \A m \in 1 .. k : EndIn(U, m) = EndIn(T, m)
  BY <1>12 DEF EndIn
<1>14. EndIn(U, k + 1) = base + w
  BY <1>6, <1>7, <1>12 DEF EndIn
<1>15. ASSUME NEW m \in 1 .. Len(U)
       PROVE  /\ At(Page(U[m].base_id)) = U[m].base_id
              /\ EndIn(U, m) <= SwapAddr
              /\ <<U[m].block_size, U[m].block_count>> \in Registrations
  <2>1. CASE m = k + 1
    BY <1>2, <1>4, <1>6, <1>8, <1>12, <1>14, <2>1
  <2>2. CASE m # k + 1
    <3>1. m \in 1 .. k
      BY <1>3, <1>12, <2>2
    <3> QED
      BY <1>12, <1>13, <3>1 DEF TableOK
  <2> QED
    BY <2>1, <2>2
<1>16. ASSUME NEW m \in 1 .. Len(U), NEW o \in 1 .. Len(U), m < o
       PROVE  EndIn(U, m) <= U[o].base_id
  <2>1. m \in 1 .. k
    BY <1>3, <1>12, <1>16
  <2>2. CASE o = k + 1
    BY <1>4, <1>6, <1>12, <1>13, <2>1, <2>2
  <2>3. CASE o # k + 1
    <3>1. o \in 1 .. k
      BY <1>3, <1>12, <2>3
    <3> QED
      BY <1>12, <1>13, <1>16, <2>1, <3>1 DEF TableOK
  <2> QED
    BY <2>2, <2>3
<1> HIDE DEF T, k
<1>17. TableOK(U)
  BY <1>12, <1>15, <1>16 DEF TableOK
<1> QED
  BY <1>11, <1>17

(***************************************************************************)
(* The machine and how it answers a callback or a flash call.              *)
(***************************************************************************)
Fields == {"m_state", "m_swap_sub_state", "m_cmd_queue", "m_head_word_size",
           "m_tail_word_size", "m_current_page_id", "m_num_of_command_retries",
           "m_num_of_bytes_written", "m_app_data_size", "m_flags", "sd", "sent", "others"}
IsEngine(x) == x = [n \in Fields |-> x[n]]
Running == {"STORE", "DATA_ERASE_WITH_SWAP", "DATA_ERASE"}

QueueOK(T, q) == /\ q \in Seq(CommandSet) /\ Len(q) <= PSTORAGE_CMD_QUEUE_SIZE
                 /\ \A i \in 1 .. Len(q) : Legal(T, q[i])

Sound(T, x) ==
  /\ IsEngine(x) /\ QueueOK(T, x.m_cmd_queue)
  /\ x.sent \in Nat /\ x.sent <= MaxCommands /\ (x.sent = 0 => x.m_cmd_queue = <<>>)
  /\ x.m_swap_sub_state \in SubStates /\ x.m_flags \subseteq Flags
  /\ x.m_head_word_size \in Nat /\ x.m_head_word_size < PageSize
  /\ x.m_tail_word_size \in Nat /\ x.m_tail_word_size < PageSize
  /\ x.m_current_page_id \in Nat /\ x.m_current_page_id <= PSTORAGE_NUM_OF_PAGES
  /\ x.m_num_of_command_retries \in Nat /\ x.m_num_of_command_retries <= SD_CMD_MAX_TRIES

\* The state of the machine before it calls the SoftDevice.
Ready(T, x) ==
  /\ Sound(T, x) /\ x.m_cmd_queue # <<>>
  /\ x.sd \in {NoOp, Other} /\ ~Busy(x)
  /\ x.m_num_of_command_retries < SD_CMD_MAX_TRIES

\* The queue has perhaps one command more.
Grew(T, q, n, r, m) ==
  \/ r = q /\ m = n
  \/ /\ m = n + 1 /\ m <= MaxCommands /\ Len(r) <= PSTORAGE_CMD_QUEUE_SIZE
     /\ \E c \in CommandSet : Legal(T, c) /\ r = Append(q, c)

\* Everything a callback does not change.
SameBut(x, y) ==
  /\ y.m_swap_sub_state = x.m_swap_sub_state
  /\ y.m_head_word_size = x.m_head_word_size /\ y.m_tail_word_size = x.m_tail_word_size
  /\ y.m_current_page_id = x.m_current_page_id
  /\ y.m_num_of_command_retries = x.m_num_of_command_retries
  /\ y.m_num_of_bytes_written = x.m_num_of_bytes_written
  /\ y.m_app_data_size = x.m_app_data_size

Notified(T, x, y) ==
  /\ IsEngine(y) /\ SameBut(x, y)
  /\ y.m_state = x.m_state /\ y.m_flags = x.m_flags /\ y.sd = x.sd /\ y.others = x.others
  /\ Grew(T, x.m_cmd_queue, x.sent, y.m_cmd_queue, y.sent)

\* How the SoftDevice may answer.
Called(T, x, op, y) ==
  /\ IsEngine(y) /\ SameBut(x, y)
  /\ \/ /\ y.m_state = x.m_state /\ y.m_cmd_queue = x.m_cmd_queue /\ y.sent = x.sent
        /\ \/ y.sd = op /\ y.m_flags = x.m_flags
           \/ y.sd = Other /\ y.m_flags = x.m_flags \cup {"FLASH_API_ERR_BUSY"}
     \/ /\ y.m_state = "ERROR" /\ y.sd = x.sd /\ y.m_flags = x.m_flags
        /\ Grew(T, x.m_cmd_queue, x.sent, y.m_cmd_queue, y.sent)

\* One command more keeps the queue in order and its head where it is.
LEMMA GrewIs ==
  ASSUME NEW T, NEW q, QueueOK(T, q), NEW n \in Nat, NEW r, NEW m, Grew(T, q, n, r, m), n <= MaxCommands
  PROVE  /\ QueueOK(T, r) /\ m \in Nat /\ m <= MaxCommands
         /\ (n = 0 => q = <<>>) => (m = 0 => r = <<>>)
         /\ q # <<>> => r # <<>> /\ Head(r) = Head(q)
<1>1. CASE r = q /\ m = n
  BY <1>1
<1>2. CASE /\ m = n + 1 /\ m <= MaxCommands /\ Len(r) <= PSTORAGE_CMD_QUEUE_SIZE
           /\ \E c \in CommandSet : Legal(T, c) /\ r = Append(q, c)
  <2>1. PICK c \in CommandSet : Legal(T, c) /\ r = Append(q, c)
    BY <1>2
  <2>2. q \in Seq(CommandSet) /\ \A i \in 1 .. Len(q) : Legal(T, q[i])
    BY DEF QueueOK
  <2>3. PICK k \in Nat : k = Len(q)
    BY <2>2
  <2> HIDE DEF CommandSet
  <2>4. /\ r \in Seq(CommandSet) /\ Len(r) = k + 1 /\ r[k + 1] = c
        /\ \A i \in 1 .. k : r[i] = q[i]
    BY <2>1, <2>2, <2>3
  <2>5. \A i \in 1 .. Len(r) : Legal(T, r[i])
    <3> SUFFICES ASSUME NEW i \in 1 .. k + 1 PROVE Legal(T, r[i])
      BY <2>4
    <3>1. CASE i = k + 1
      BY <2>1, <2>4, <3>1
    <3>2. CASE i # k + 1
      <4>1. i \in 1 .. k
        BY <3>2
      <4> QED
        BY <2>2, <2>3, <2>4, <4>1
    <3> QED
      BY <3>1, <3>2
  <2>6. QueueOK(T, r)
    BY <1>2, <2>4, <2>5 DEF QueueOK
  <2>7. q # <<>> => r # <<>> /\ Head(r) = Head(q)
    <3> SUFFICES ASSUME q # <<>> PROVE r # <<>> /\ Head(r) = Head(q)
      OBVIOUS
    <3>1. 1 \in 1 .. k
      BY <2>2, <2>3
    <3>2. r[1] = q[1] /\ r # <<>>
      BY <2>4, <3>1
    <3> QED
      BY <2>2, <2>4, <3>2
  <2>8. m \in Nat /\ m # 0
    BY <1>2
  <2> QED
    BY <1>2, <2>6, <2>7, <2>8
<1> QED
  BY <1>1, <1>2 DEF Grew

\* A callback changes the queue and the count of commands only.
LEMMA AppNotifyIs ==
  ASSUME TableOK(m_app_table), NEW x, Sound(m_app_table, x), NEW y \in AppNotify(x)
  PROVE  Notified(m_app_table, x, y)
<1>1. IsEngine(x) /\ x.sent \in Nat /\ x.sent <= MaxCommands /\ QueueOK(m_app_table, x.m_cmd_queue)
  BY DEF Sound
<1>2. CASE y = x
  BY <1>1, <1>2 DEF Notified, SameBut, Grew
<1>3. CASE /\ Len(x.m_cmd_queue) # PSTORAGE_CMD_QUEUE_SIZE /\ x.sent # MaxCommands
           /\ \E c \in Accepted(x.sent + 1) : y = [x EXCEPT !.m_cmd_queue = Append(@, c), !.sent = @ + 1]
  <2>1. PICK n \in Nat : n = x.sent + 1
    BY <1>1
  <2>2. PICK c \in Accepted(n) : y = [x EXCEPT !.m_cmd_queue = Append(@, c), !.sent = @ + 1]
    BY <1>3, <2>1
  <2>3. n <= MaxCommands
    BY <1>1, <1>3, <2>1, PstorageAssumption
  <2>4. Legal(m_app_table, c) /\ c \in CommandSet
    <3>1. Legal(m_app_table, c)
      BY <2>1, <2>3, AcceptedIsLegal
    <3> QED
      BY <3>1 DEF Legal
  <2>5. /\ IsEngine(y) /\ SameBut(x, y)
        /\ y.m_state = x.m_state /\ y.m_flags = x.m_flags /\ y.sd = x.sd /\ y.others = x.others
        /\ y.m_cmd_queue = Append(x.m_cmd_queue, c) /\ y.sent = x.sent + 1
    BY <1>1, <2>2 DEF IsEngine, Fields, SameBut
  <2>6. Len(y.m_cmd_queue) <= PSTORAGE_CMD_QUEUE_SIZE
    <3>1. PICK q \in Seq(CommandSet) : q = x.m_cmd_queue
      BY <1>1 DEF QueueOK
    <3>2. PICK k \in Nat : k = Len(q)
      BY <3>1
    <3>3. k <= PSTORAGE_CMD_QUEUE_SIZE /\ k # PSTORAGE_CMD_QUEUE_SIZE
      BY <1>1, <1>3, <3>1, <3>2 DEF QueueOK
    <3>4. Len(Append(q, c)) = k + 1
      <4> HIDE DEF CommandSet
      <4> QED
        BY <2>4, <3>1, <3>2
    <3> QED
      BY <2>5, <3>1, <3>3, <3>4, PstorageAssumption
  <2> QED
    BY <2>1, <2>3, <2>4, <2>5, <2>6 DEF Notified, Grew
<1> QED
  BY <1>2, <1>3 DEF AppNotify

\* What a flash call leaves behind (pstorage.c:331-355).
LEMMA FlashCallIs ==
  ASSUME TableOK(m_app_table), NEW x, Ready(m_app_table, x),
         NEW op, NEW y \in FlashCall(x, op)
  PROVE  Called(m_app_table, x, op, y)
<1>1. Sound(m_app_table, x) /\ IsEngine(x) /\ x.sd \in {NoOp, Other}
  BY DEF Ready, Sound
<1>2. CASE x.sd # NoOp /\ y = Raise(x, "FLASH_API_ERR_BUSY")
  <2>1. /\ IsEngine(y) /\ SameBut(x, y)
        /\ y.m_state = x.m_state /\ y.m_cmd_queue = x.m_cmd_queue /\ y.sent = x.sent
        /\ y.sd = x.sd /\ y.m_flags = x.m_flags \cup {"FLASH_API_ERR_BUSY"}
    BY <1>1, <1>2 DEF IsEngine, Fields, Raise, SameBut
  <2>2. y.sd = Other
    BY <1>1, <1>2, <2>1
  <2> QED
    BY <2>1, <2>2 DEF Called
<1>3. CASE y = [x EXCEPT !.sd = op]
  <2>1. /\ IsEngine(y) /\ SameBut(x, y)
        /\ y.m_state = x.m_state /\ y.m_cmd_queue = x.m_cmd_queue /\ y.sent = x.sent
        /\ y.sd = op /\ y.m_flags = x.m_flags
    BY <1>1, <1>3 DEF IsEngine, Fields, SameBut
  <2> QED
    BY <2>1 DEF Called
<1>4. CASE y \in NotifyErrorTransit(x)
  <2>1. PICK z \in AppNotify(x) : y = [z EXCEPT !.m_state = "ERROR"]
    BY <1>4 DEF NotifyErrorTransit
  <2>2. Notified(m_app_table, x, z)
    BY <1>1, AppNotifyIs
  <2>3. /\ IsEngine(y) /\ SameBut(z, y) /\ y.m_state = "ERROR" /\ y.sd = z.sd
        /\ y.m_flags = z.m_flags /\ y.m_cmd_queue = z.m_cmd_queue /\ y.sent = z.sent
    BY <2>1, <2>2 DEF IsEngine, Fields, SameBut, Notified
  <2> QED
    BY <2>2, <2>3 DEF Notified, Called, SameBut
<1>5. CASE y = [Raise(x, "FLASH_API_ERR_BUSY") EXCEPT !.sd = Other, !.others = @ + 1]
  <2>1. /\ IsEngine(y) /\ SameBut(x, y)
        /\ y.m_state = x.m_state /\ y.m_cmd_queue = x.m_cmd_queue /\ y.sent = x.sent
        /\ y.sd = Other /\ y.m_flags = x.m_flags \cup {"FLASH_API_ERR_BUSY"}
    BY <1>1, <1>5 DEF IsEngine, Fields, Raise, SameBut
  <2> QED
    BY <2>1 DEF Called
<1> QED
  BY <1>2, <1>3, <1>4, <1>5 DEF FlashCall

\* A failure that is reported for good.
LEMMA ErrorIs ==
  ASSUME TableOK(m_app_table), NEW x, Sound(m_app_table, x), NEW y \in NotifyErrorTransit(x)
  PROVE  /\ IsEngine(y) /\ SameBut(x, y)
         /\ y.m_state = "ERROR" /\ y.sd = x.sd /\ y.m_flags = x.m_flags
         /\ Grew(m_app_table, x.m_cmd_queue, x.sent, y.m_cmd_queue, y.sent)
<1>1. PICK z \in AppNotify(x) : y = [z EXCEPT !.m_state = "ERROR"]
  BY DEF NotifyErrorTransit
<1>2. Notified(m_app_table, x, z)
  BY AppNotifyIs
<1>3. /\ IsEngine(y) /\ SameBut(z, y) /\ y.m_state = "ERROR" /\ y.sd = z.sd
      /\ y.m_flags = z.m_flags /\ y.m_cmd_queue = z.m_cmd_queue /\ y.sent = z.sent
  BY <1>1, <1>2 DEF IsEngine, Fields, SameBut, Notified
<1> QED
  BY <1>2, <1>3 DEF Notified, SameBut

(***************************************************************************)
(* Where the machine may stand, and what the flash holds then.             *)
(***************************************************************************)
\* Where a command that keeps words in the swap page stands: p is the page at work,
\* h and t the words before and behind the command on its first and last page.
CopyFirst(c, p, h) == /\ p = First(c) /\ h = Start(c) - At(First(c))
                      /\ h # 0 \/ First(c) = LastPage(c)
CopyLast(c, p, h, t, fl) == /\ p = LastPage(c) /\ First(c) < LastPage(c) /\ h = 0 /\ t # 0
                            /\ "TAIL_SWAP_DONE" \in fl
WholePage(c, p, h, t, fl) ==
  /\ First(c) <= p /\ p <= LastPage(c) /\ First(c) < LastPage(c) /\ h = 0
  /\ "TAIL_SWAP_DONE" \notin fl
  /\ p = First(c) => At(First(c)) = Start(c)
  /\ p = LastPage(c) => t = 0

Place(c, sub, p, h, t, fl) ==
  /\ "SINGLE_PAGE_OPERATION" \in fl <=> First(c) = LastPage(c)
  /\ sub \in {"ERASE_SWAP", "WRITE_DATA_TO_SWAP"} =>
       \/ CopyFirst(c, p, h) /\ "TAIL_SWAP_DONE" \notin fl
       \/ CopyLast(c, p, h, t, fl)
  /\ sub = "ERASE_DATA_PAGE" =>
       \/ CopyFirst(c, p, h) /\ ("TAIL_SWAP_DONE" \in fl <=> First(c) = LastPage(c))
       \/ CopyLast(c, p, h, t, fl)
       \/ WholePage(c, p, h, t, fl)
  /\ sub = "RESTORE_HEAD" =>
       /\ p = First(c) + 1 /\ h = Start(c) - At(First(c)) /\ h # 0
       /\ "TAIL_SWAP_DONE" \in fl <=> First(c) = LastPage(c)
  /\ sub = "RESTORE_TAIL" => p = LastPage(c) + 1 /\ t # 0

\* The state of the machine fits the command it works on.
Position(T, x) ==
  /\ x.m_state \in Running /\ x.m_app_data_size = Cmd(x).size
  /\ x.m_state = "STORE" => /\ Cmd(x).op_code # "clear"
                            /\ x.m_num_of_bytes_written = Cmd(x).size
  /\ x.m_state = "DATA_ERASE" =>
       /\ Cmd(x).op_code # "store" /\ Whole(T, Cmd(x)) /\ x.m_tail_word_size = 0
       /\ First(Cmd(x)) <= x.m_current_page_id /\ x.m_current_page_id <= LastPage(Cmd(x))
  /\ x.m_state = "DATA_ERASE_WITH_SWAP" =>
       /\ Cmd(x).op_code # "store" /\ x.m_tail_word_size = TailIn(T, Cmd(x))
       /\ Place(Cmd(x), x.m_swap_sub_state, x.m_current_page_id, x.m_head_word_size,
                x.m_tail_word_size, x.m_flags)

\* The copy of a word in the swap page.
SwapWord(f, a) == f[SwapAddr + (a % PageSize)]

\* The words of a command on the pages before p are blank.
Cleared(c, p, f) == \A a \in Span(c) : Page(a) < p => f[a] = Erased
CopyBegun(p, f) == \A a \in DataWords : Page(a) = p => SwapWord(f, a) = Erased \/ SwapWord(f, a) = f[a]
Restorable(p, n, f) ==
  \A a \in DataWords : Page(a) = p /\ a >= n => f[a] = Erased \/ f[a] = SwapWord(f, a)
\* The words before the command are back on its first page: their copy is not needed.
Spare(c, p, f) ==
  First(c) < p => \A a \in DataWords : Page(a) = First(c) /\ a < Start(c)
                    => SwapWord(f, a) = Erased \/ SwapWord(f, a) = f[a]
Stored(c, f) == \A a \in Span(c) : f[a] = Erased \/ f[a] = Data(c.data, a - c.block_id - c.offset + 1)

\* What the flash holds at that place: nothing that stops the operation from being repeated.
Contents(x, f) ==
  /\ x.m_state = "STORE" /\ Cmd(x).op_code = "update" => Stored(Cmd(x), f)
  /\ x.m_state \in {"DATA_ERASE", "DATA_ERASE_WITH_SWAP"} =>
       Cleared(Cmd(x), x.m_current_page_id, f)
  /\ x.m_state = "DATA_ERASE_WITH_SWAP" =>
       /\ x.m_swap_sub_state = "ERASE_SWAP" => Spare(Cmd(x), x.m_current_page_id, f)
       /\ x.m_swap_sub_state = "ERASE_DATA_PAGE" /\ x.m_current_page_id < LastPage(Cmd(x)) =>
            Spare(Cmd(x), x.m_current_page_id, f)
       /\ x.m_swap_sub_state = "WRITE_DATA_TO_SWAP" => CopyBegun(x.m_current_page_id, f)
       /\ x.m_swap_sub_state = "RESTORE_HEAD" => Restorable(First(Cmd(x)), 0, f)
       /\ x.m_swap_sub_state = "RESTORE_TAIL" => Restorable(LastPage(Cmd(x)), CmdEnd(Cmd(x)), f)

\* The operation of the place.
IsOpOf(x, f, op) ==
  /\ x.m_state = "STORE" => op = StoreOp(Cmd(x))
  /\ x.m_state = "DATA_ERASE" => op = PageErase(x.m_current_page_id)
  /\ x.m_state = "DATA_ERASE_WITH_SWAP" => op = SubOp(x, x.m_swap_sub_state, f)

EngineInv(T, x, f) ==
  /\ Sound(T, x)
  /\ x.m_state \in {"IDLE", "ERROR"} \cup Running
  /\ x.m_state = "IDLE" => x.m_cmd_queue = <<>>
  /\ x.m_state # "IDLE" => x.m_cmd_queue # <<>>
  /\ x.m_state \notin Running => x.sd \in {NoOp, Other} /\ ~Busy(x)
  /\ x.m_state # "ERROR" => x.m_num_of_command_retries < SD_CMD_MAX_TRIES
  /\ x.m_state \in Running =>
       /\ IF Busy(x) THEN x.sd = Other ELSE IsOpOf(x, f, x.sd)
       /\ Position(T, x) /\ Contents(x, f)

FlashOK(f) == \A a \in FlashWords : f[a] \in Value

\* The words that are in the swap page only, and what the clients see of a word.
SwappedIn(x, a) ==
  /\ x.m_state = "DATA_ERASE_WITH_SWAP"
  /\ \/ x.m_swap_sub_state = "ERASE_DATA_PAGE" /\ Page(a) = x.m_current_page_id
     \/ x.m_swap_sub_state = "RESTORE_HEAD" /\ Page(a) = x.m_current_page_id - 1
     \/ x.m_swap_sub_state = "RESTORE_TAIL" /\ Page(a) = LastPage(Cmd(x)) /\ a >= CmdEnd(Cmd(x))
Kept(x, f, a) == IF SwappedIn(x, a) THEN SwapWord(f, a) ELSE f[a]

\* M is the memory the clients see.
Shows(T, x, f, M) ==
  \A a \in DataWords :
    /\ ~IsOwned(T, a) => M[a] = Erased
    /\ IsOwned(T, a) => M[a] = IF x.m_state \in Running /\ a \in Span(Cmd(x))
                               THEN Result(Cmd(x), a, f[a]) ELSE Kept(x, f, a)

\* The memory with a command in effect that has not touched the flash yet; with none.
ShowsWith(T, c, f, M) ==
  \A a \in DataWords :
    /\ ~IsOwned(T, a) => M[a] = Erased
    /\ IsOwned(T, a) => M[a] = IF a \in Span(c) THEN Result(c, a, f[a]) ELSE f[a]
AtRest(T, f, M) ==
  \A a \in DataWords : /\ ~IsOwned(T, a) => M[a] = Erased
                       /\ IsOwned(T, a) => M[a] = f[a]

\* Writing a word again is writing it once: what makes a retry harmless.
LEMMA OverIs ==
  ASSUME NEW o, NEW n
  PROVE  /\ Over(Erased, n) = n /\ Over(n, n) = n
         /\ Over(Over(o, n), n) = Over(o, n)
         /\ o \in Value /\ n \in Value => Over(o, n) \in Value
<1> USE PstorageAssumption
<1>1. Over(Erased, n) = n /\ Over(n, n) = n
  BY DEF Over
<1>2. Over(Over(o, n), n) = Over(o, n)
  BY DEF Over
<1>3. o \in Value /\ n \in Value => Over(o, n) \in Value
  BY DEF Over, Value
<1> QED
  BY <1>1, <1>2, <1>3

\* The addresses of a word and of its copy.
LEMMA WordIs ==
  ASSUME NEW a \in DataWords
  PROVE  /\ a \in Nat /\ a < SwapAddr /\ a \in FlashWords
         /\ Page(a) \in Nat /\ Page(a) < PSTORAGE_NUM_OF_PAGES
         /\ At(Page(a)) \in Nat /\ At(Page(a)) <= a /\ a < At(Page(a)) + PageSize
         /\ \E j \in Nat : /\ j = a % PageSize /\ j = a - At(Page(a)) /\ j < PageSize
                           /\ SwapAddr + j \in FlashWords /\ Page(SwapAddr + j) = PSTORAGE_NUM_OF_PAGES
<1>1. a \in Nat /\ a < SwapAddr /\ a \in FlashWords
  BY SwapIs DEF DataWords, FlashWords
<1>2. /\ Page(a) \in Nat /\ At(Page(a)) \in Nat /\ At(Page(a)) <= a
      /\ a < At(Page(a)) + PageSize /\ a % PageSize = a - At(Page(a))
  BY <1>1, PageIs
<1>3. Page(a) < PSTORAGE_NUM_OF_PAGES
  BY <1>1, PageOfData
<1>4. PICK k \in Nat : k = At(Page(a))
  BY <1>2
<1>5. PICK j \in Nat : j = a - k
  BY <1>1, <1>2, <1>4
<1>6. j = a % PageSize /\ j < PageSize
  BY <1>1, <1>2, <1>4, <1>5, SwapIs
<1>7. PICK w \in Nat : w = SwapAddr + j
  BY SwapIs
<1>8. w \in FlashWords
  BY <1>6, <1>7, SwapIs DEF FlashWords
<1>9. At(PSTORAGE_NUM_OF_PAGES) <= w /\ w < At(PSTORAGE_NUM_OF_PAGES) + PageSize
  BY <1>6, <1>7, SwapIs
<1>10. Page(w) = PSTORAGE_NUM_OF_PAGES
  BY <1>9, SwapIs, PageIsAt
<1> QED
  BY <1>1, <1>2, <1>3, <1>4, <1>5, <1>6, <1>7, <1>8, <1>10

\* What belongs to a module is on the data pages.
LEMMA OwnedIsData ==
  ASSUME NEW T, TableOK(T), NEW a, IsOwned(T, a)
  PROVE  a \in DataWords
<1>1. PICK m \in 1 .. Len(T) : Within(T, m, a)
  BY DEF IsOwned
<1>2. EndIn(T, m) \in Nat /\ EndIn(T, m) <= SwapAddr
  BY ModuleIs
<1>3. a \in Nat /\ a < EndIn(T, m)
  BY <1>1 DEF IsOwned, Within
<1> QED
  BY <1>2, <1>3, SwapIs DEF DataWords

(***************************************************************************)
(* What an operation, or a first part of it, does to the flash.            *)
(***************************************************************************)
EraseStep(f, g, p) ==
  \A a \in FlashWords : /\ Page(a) # p => g[a] = f[a]
                        /\ g[a] = f[a] \/ g[a] = Erased
EraseDone(g, p) == \A a \in FlashWords : Page(a) = p => g[a] = Erased
WriteStep(f, g, d, n, W) ==
  \A a \in FlashWords :
    /\ d <= a /\ a < d + n => g[a] = f[a] \/ g[a] = Over(f[a], W[a - d + 1])
    /\ ~(d <= a /\ a < d + n) => g[a] = f[a]
WriteDone(f, g, d, n, W) ==
  \A a \in FlashWords : d <= a /\ a < d + n => g[a] = Over(f[a], W[a - d + 1])

\* The erase of a page, as far as it came.
LEMMA AppliedErase ==
  ASSUME NEW p \in Nat, NEW part, NEW g, g = Applied(PageErase(p), part)
  PROVE  /\ EraseStep(flash, g, p)
         /\ FlashWords \subseteq part => EraseDone(g, p)
<1> DEFINE op == PageErase(p)
<1>1. /\ op.kind = "erase" /\ op.dst = At(p) /\ DOMAIN op.words = 1 .. PageSize
  BY DEF PageErase, At
<1>2. At(p) \in Nat /\ PageSize \in Nat
  BY AtIs, SwapIs
<1> HIDE DEF op
<1>3. ASSUME NEW a \in FlashWords
      PROVE  /\ g[a] = IF a \notin part \/ a - At(p) + 1 \notin 1 .. PageSize THEN flash[a] ELSE Erased
             /\ a - At(p) + 1 \in 1 .. PageSize <=> Page(a) = p
  <2>1. a \in Nat
    BY SwapIs DEF FlashWords
  <2>2. g[a] = IF op.kind \notin {"erase", "write"} \/ a \notin part
                  \/ a - op.dst + 1 \notin DOMAIN op.words
               THEN flash[a]
               ELSE IF op.kind = "erase" THEN Erased
               ELSE Over(flash[a], op.words[a - op.dst + 1])
    BY <1>3 DEF Applied, op
  <2>3. a - At(p) + 1 \in 1 .. PageSize <=> At(p) <= a /\ a < At(p) + PageSize
    BY <1>2, <2>1
  <2>4. At(p) <= a /\ a < At(p) + PageSize => Page(a) = p
    BY <2>1, PageIsAt
  <2>5. Page(a) = p => At(p) <= a /\ a < At(p) + PageSize
    BY <2>1, PageIs
  <2>6. g[a] = IF a \notin part \/ a - At(p) + 1 \notin 1 .. PageSize THEN flash[a] ELSE Erased
    BY <1>1, <2>2
  <2> QED
    BY <2>3, <2>4, <2>5, <2>6
<1>4. EraseStep(flash, g, p)
  BY <1>3 DEF EraseStep
<1>5. FlashWords \subseteq part => EraseDone(g, p)
  BY <1>3 DEF EraseDone
<1> QED
  BY <1>4, <1>5

\* A write, as far as it came.
LEMMA AppliedWrite ==
  ASSUME NEW d \in Nat, NEW n \in Nat, NEW W, DOMAIN W = 1 .. n,
         NEW part, NEW g, g = Applied(Write(d, W), part)
  PROVE  /\ WriteStep(flash, g, d, n, W)
         /\ FlashWords \subseteq part => WriteDone(flash, g, d, n, W)
<1> DEFINE op == Write(d, W)
<1>1. /\ op.kind = "write" /\ op.dst = d /\ op.words = W
  BY DEF Write
<1> HIDE DEF op
<1>3. ASSUME NEW a \in FlashWords
      PROVE  /\ g[a] = IF a \notin part \/ a - d + 1 \notin 1 .. n THEN flash[a]
                       ELSE Over(flash[a], W[a - d + 1])
             /\ a - d + 1 \in 1 .. n <=> d <= a /\ a < d + n
  <2>1. a \in Nat
    BY SwapIs DEF FlashWords
  <2>2. g[a] = IF op.kind \notin {"erase", "write"} \/ a \notin part
                  \/ a - op.dst + 1 \notin DOMAIN op.words
               THEN flash[a]
               ELSE IF op.kind = "erase" THEN Erased
               ELSE Over(flash[a], op.words[a - op.dst + 1])
    BY <1>3 DEF Applied, op
  <2>3. a - d + 1 \in 1 .. n <=> d <= a /\ a < d + n
    BY <2>1
  <2>6. g[a] = IF a \notin part \/ a - d + 1 \notin 1 .. n THEN flash[a]
               ELSE Over(flash[a], W[a - d + 1])
    BY <1>1, <2>2
  <2> QED
    BY <2>3, <2>6
<1>4. WriteStep(flash, g, d, n, W)
  BY <1>3 DEF WriteStep
<1>5. FlashWords \subseteq part => WriteDone(flash, g, d, n, W)
  BY <1>3 DEF WriteDone
<1> QED
  BY <1>4, <1>5

\* The operation of another user changes no word of these pages.
LEMMA AppliedOther ==
  ASSUME NEW f \in [FlashWords -> Value], f = flash, NEW op \in {NoOp, Other}, NEW part
  PROVE  Applied(op, part) = flash
<1>1. op.kind \notin {"erase", "write"}
  BY DEF NoOp, Other
<1> QED
  BY <1>1 DEF Applied

\* The data of a store or update of a page or less, from its first word on (pstorage.c:371-392).
LEMMA StoreOpIs ==
  ASSUME NEW c \in CommandSet, c.size <= PageSize
  PROVE  /\ StoreSize(c) = c.size
         /\ \E W : /\ StoreOp(c) = Write(Start(c), W) /\ DOMAIN W = 1 .. c.size
                   /\ \A i \in 1 .. c.size : W[i] = Data(c.data, i)
<1>1. /\ c.block_id \in Nat /\ c.size \in Nat /\ c.offset \in Nat /\ PageSize \in Nat
  BY CommandFields, SwapIs
<1>2. StoreSize(c) = c.size
  BY <1>1 DEF StoreSize
<1>3. PICK n \in Nat : n = c.size
  BY <1>1
<1>4. PICK t : t = c.data
  OBVIOUS
<1> DEFINE S == [i \in 1 .. n |-> Data(t, i)]
           W == SubSeq(S, 1, n)
<1>5. Source(c) = S
  BY <1>3, <1>4 DEF Source
<1>6. StoreOp(c) = Write(CmdEnd(c) - c.size, SubSeq(Source(c), c.size - c.size + 1, c.size))
  BY <1>2 DEF StoreOp
<1>7. CmdEnd(c) - c.size = Start(c) /\ c.size - c.size + 1 = 1
  BY <1>1 DEF CmdEnd, Start
<1>8. StoreOp(c) = Write(Start(c), W)
  BY <1>3, <1>5, <1>6, <1>7
<1>9. DOMAIN W = 1 .. n /\ \A i \in 1 .. n : W[i] = Data(t, i)
  <2> DEFINE D == {Data(t, i) : i \in 1 .. n}
  <2>1. S \in Seq(D) /\ Len(S) = n
    OBVIOUS
  <2> QED
    BY <2>1
<1> HIDE DEF W
<1> QED
  BY <1>2, <1>3, <1>4, <1>8, <1>9

CopyOf(W, f, from, n) == DOMAIN W = 1 .. n /\ \A i \in 1 .. n : W[i] = f[from + i - 1]

\* The words a copy writes.
LEMMA CopyIs ==
  ASSUME NEW f, NEW from \in Nat, NEW to, NEW n \in Nat
  PROVE  \E W : Copy(f, from, to, n) = Write(to, W) /\ CopyOf(W, f, from, n)
<1> DEFINE W == [i \in 1 .. n |-> f[from + i - 1]]
<1>1. Copy(f, from, to, n) = Write(to, W)
  BY DEF Copy
<1>2. DOMAIN W = 1 .. n /\ \A i \in 1 .. n : W[i] = f[from + i - 1]
  OBVIOUS
<1> HIDE DEF W
<1>3. CopyOf(W, f, from, n)
  BY <1>2 DEF CopyOf
<1> QED
  BY <1>1, <1>3

New(c, a) == Data(c.data, a - c.block_id - c.offset + 1)

\* What a command makes of a word.
LEMMA ResultIs ==
  ASSUME NEW c, NEW a, NEW o
  PROVE  /\ c.op_code = "store" => Result(c, a, o) = Over(o, New(c, a))
         /\ c.op_code = "update" => Result(c, a, o) = New(c, a)
         /\ c.op_code = "clear" => Result(c, a, o) = Erased
<1>1. c.op_code = "store" => Result(c, a, o) = Over(o, New(c, a))
  BY DEF Result, New
<1>2. c.op_code = "update" => Result(c, a, o) = New(c, a)
  BY DEF Result, New
<1>3. c.op_code = "clear" => Result(c, a, o) = Erased
  BY DEF Result
<1> QED
  BY <1>1, <1>2, <1>3

\* The command at the head is legal.
LEMMA CmdIs ==
  ASSUME NEW T, NEW x, QueueOK(T, x.m_cmd_queue), x.m_cmd_queue # <<>>
  PROVE  Legal(T, Cmd(x)) /\ Cmd(x) \in CommandSet
<1>1. PICK q \in Seq(CommandSet) : q = x.m_cmd_queue
  BY DEF QueueOK
<1>2. Len(q) \in Nat /\ Len(q) # 0 /\ Head(q) = q[1]
  BY <1>1
<1>3. 1 \in 1 .. Len(q)
  BY <1>2
<1>4. Legal(T, q[1])
  BY <1>1, <1>3 DEF QueueOK
<1>5. Legal(T, Cmd(x))
  BY <1>1, <1>2, <1>4 DEF Cmd
<1> QED
  BY <1>5 DEF Legal

\* The words of a command, as numbers.
LEMMA SpanIs ==
  ASSUME NEW T, TableOK(T), NEW c, Legal(T, c)
  PROVE  \A a : a \in Span(c) <=> a \in Nat /\ Start(c) <= a /\ a < CmdEnd(c)
<1>1. c \in CommandSet
  BY DEF Legal
<1>2. Start(c) \in Nat /\ CmdEnd(c) \in Nat
  BY <1>1, CommandFields DEF Start, CmdEnd
<1>3. PICK s \in Nat : s = Start(c)
  BY <1>2
<1>4. PICK n \in Nat : n = CmdEnd(c)
  BY <1>2
<1>5. Span(c) = s .. n - 1
  BY <1>3, <1>4 DEF Span, Start
<1> QED
  BY <1>3, <1>4, <1>5

\* A command covers words of its module only.
LEMMA SpanOwned ==
  ASSUME NEW T, TableOK(T), NEW c, Legal(T, c), NEW a \in Span(c)
  PROVE  IsOwned(T, a) /\ a \in DataWords
<1>1. /\ c.module_id \in 1 .. Len(T) /\ T[c.module_id].base_id <= c.block_id
      /\ CmdEnd(c) <= EndIn(T, c.module_id) /\ c \in CommandSet
  BY DEF Legal
<1>2. a \in Nat /\ Start(c) <= a /\ a < CmdEnd(c)
  BY SpanIs
<1>3. T[c.module_id].base_id \in Nat /\ EndIn(T, c.module_id) \in Nat
  BY <1>1, ModuleIs
<1>4. c.block_id \in Nat /\ c.offset \in Nat /\ c.size \in Nat
  BY <1>1, CommandFields
<1>5. Within(T, c.module_id, a)
  BY <1>1, <1>2, <1>3, <1>4 DEF Within, Start, CmdEnd
<1>6. IsOwned(T, a)
  BY <1>1, <1>2, <1>5 DEF IsOwned
<1> QED
  BY <1>6, OwnedIsData

\* The memory is the same where the words outside the command are.
LEMMA ShowsAgain ==
  ASSUME NEW T, NEW x, NEW y, x.m_state \in Running, y.m_state \in Running,
         Cmd(y) = Cmd(x), Cmd(x).op_code \in {"update", "clear"},
         NEW f, NEW g, NEW M, Shows(T, x, f, M),
         \A a \in DataWords : IsOwned(T, a) /\ a \notin Span(Cmd(x)) => Kept(y, g, a) = Kept(x, f, a)
  PROVE  Shows(T, y, g, M)
<1> SUFFICES ASSUME NEW a \in DataWords, IsOwned(T, a)
             PROVE  M[a] = IF a \in Span(Cmd(y)) THEN Result(Cmd(y), a, g[a]) ELSE Kept(y, g, a)
  BY DEF Shows
<1>1. M[a] = IF a \in Span(Cmd(x)) THEN Result(Cmd(x), a, f[a]) ELSE Kept(x, f, a)
  BY DEF Shows
<1>2. Result(Cmd(x), a, f[a]) = Result(Cmd(x), a, g[a])
  BY ResultIs
<1> QED
  BY <1>1, <1>2

(***************************************************************************)
(* Each operation may stop after any part of it and be done again.         *)
(***************************************************************************)
\* Writing the data of a command: the first words of it, or all.
LEMMA StoreKeeps ==
  ASSUME NEW T, TableOK(T), NEW x, x.m_state = "STORE", Legal(T, Cmd(x)),
         Cmd(x).op_code \in {"store", "update"},
         NEW f, NEW g, NEW M, Contents(x, f), Shows(T, x, f, M),
         NEW W, \A i \in 1 .. Cmd(x).size : W[i] = Data(Cmd(x).data, i),
         WriteStep(f, g, Start(Cmd(x)), Cmd(x).size, W)
  PROVE  /\ Contents(x, g) /\ Shows(T, x, g, M)
         /\ WriteDone(f, g, Start(Cmd(x)), Cmd(x).size, W) => AtRest(T, g, M)
<1> DEFINE c == Cmd(x)
<1>1. c \in CommandSet
  BY DEF Legal
<1>2. c.block_id \in Nat /\ c.offset \in Nat /\ c.size \in Nat
  BY <1>1, CommandFields
<1>3. PICK s \in Nat : s = Start(c)
  BY <1>2 DEF Start
<1>4. PICK k \in Nat : k = c.size
  BY <1>2
<1>5. CmdEnd(c) = s + k /\ s = c.block_id + c.offset
  BY <1>2, <1>3, <1>4 DEF CmdEnd, Start
<1>6. \A a : a \in Span(c) <=> a \in Nat /\ s <= a /\ a < s + k
  BY <1>3, <1>5, SpanIs
<1>7. ASSUME NEW a \in DataWords
      PROVE  /\ a \in Span(c) => W[a - s + 1] = New(c, a)
             /\ a \in Span(c) => g[a] = f[a] \/ g[a] = Over(f[a], New(c, a))
             /\ a \notin Span(c) => g[a] = f[a]
  <2>1. a \in Nat /\ a \in FlashWords
    BY WordIs
  <2>2. a \in Span(c) => W[a - s + 1] = New(c, a)
    <3> SUFFICES ASSUME a \in Span(c) PROVE W[a - s + 1] = New(c, a)
      OBVIOUS
    <3>1. PICK i \in Nat : i = a - s + 1 /\ i \in 1 .. k
      <4>1. a - s + 1 \in Nat /\ a - s + 1 \in 1 .. k
        BY <1>6, <2>1
      <4> QED
        BY <4>1
    <3>2. a - c.block_id - c.offset + 1 = i
      BY <1>2, <1>5, <2>1, <3>1
    <3> QED
      BY <1>4, <3>1, <3>2 DEF New
  <2>3. /\ s <= a /\ a < s + k => g[a] = f[a] \/ g[a] = Over(f[a], W[a - s + 1])
        /\ ~(s <= a /\ a < s + k) => g[a] = f[a]
    BY <1>3, <1>4, <2>1 DEF WriteStep
  <2> QED
    BY <1>6, <2>1, <2>2, <2>3
<1>8. \A a \in Span(c) : a \in DataWords
  BY SpanOwned
<1> HIDE DEF c
<1>9. Contents(x, g)
  <2> SUFFICES ASSUME c.op_code = "update", NEW a \in Span(c)
               PROVE  g[a] = Erased \/ g[a] = New(c, a)
    BY DEF Contents, Stored, New, c
  <2>1. f[a] = Erased \/ f[a] = New(c, a)
    BY DEF Contents, Stored, New, c
  <2>2. g[a] = f[a] \/ g[a] = Over(f[a], New(c, a))
    BY <1>7, <1>8
  <2> QED
    BY <2>1, <2>2, OverIs
<1>10. \A a \in DataWords : Kept(x, f, a) = f[a] /\ Kept(x, g, a) = g[a]
  BY DEF Kept, SwappedIn
<1>11. ASSUME NEW a \in DataWords, IsOwned(T, a)
       PROVE  M[a] = IF a \in Span(c) THEN Result(c, a, g[a]) ELSE g[a]
  <2>1. M[a] = IF a \in Span(c) THEN Result(c, a, f[a]) ELSE f[a]
    BY <1>10, <1>11 DEF Shows, Running, c
  <2>2. CASE a \in Span(c)
    <3>1. g[a] = f[a] \/ g[a] = Over(f[a], New(c, a))
      BY <1>7, <2>2
    <3>2. Over(g[a], New(c, a)) = Over(f[a], New(c, a))
      BY <3>1, OverIs
    <3>3. CASE c.op_code = "store"
      BY <2>1, <2>2, <3>2, <3>3, ResultIs
    <3>4. CASE c.op_code = "update"
      BY <2>1, <2>2, <3>4, ResultIs
    <3> QED
      BY <3>3, <3>4 DEF c
  <2>3. CASE a \notin Span(c)
    BY <1>7, <2>1, <2>3
  <2> QED
    BY <2>2, <2>3
<1>12. Shows(T, x, g, M)
  BY <1>10, <1>11 DEF Shows, c, Running
<1>13. ASSUME WriteDone(f, g, Start(c), c.size, W) PROVE AtRest(T, g, M)
  <2> SUFFICES ASSUME NEW a \in DataWords, IsOwned(T, a) PROVE M[a] = g[a]
    BY DEF AtRest, Shows
  <2>1. CASE a \in Span(c)
    <3>1. a \in FlashWords /\ s <= a /\ a < s + k
      BY <1>6, <2>1, WordIs
    <3>2. g[a] = Over(f[a], New(c, a))
      BY <1>3, <1>4, <1>7, <1>13, <2>1, <3>1 DEF WriteDone
    <3>3. M[a] = Result(c, a, f[a])
      BY <2>1 DEF Shows, Running, c
    <3>4. CASE c.op_code = "store"
      BY <3>2, <3>3, <3>4, ResultIs
    <3>5. CASE c.op_code = "update"
      <4>1. f[a] = Erased \/ f[a] = New(c, a)
        BY <2>1, <3>5 DEF Contents, Stored, New, c
      <4>2. Over(f[a], New(c, a)) = New(c, a)
        BY <4>1, OverIs
      <4> QED
        BY <3>2, <3>3, <3>5, <4>2, ResultIs
    <3> QED
      BY <3>4, <3>5 DEF c
  <2>2. CASE a \notin Span(c)
    BY <1>11, <2>2
  <2> QED
    BY <2>1, <2>2
<1> QED
  BY <1>9, <1>12, <1>13 DEF c

\* What leaves the swap page alone leaves every copy alone.
LEMMA SwapSame ==
  ASSUME NEW f, NEW g, \A b \in FlashWords : Page(b) = PSTORAGE_NUM_OF_PAGES => g[b] = f[b],
         NEW a \in DataWords
  PROVE  SwapWord(g, a) = SwapWord(f, a)
<1>1. PICK j \in Nat : j = a % PageSize /\ SwapAddr + j \in FlashWords
                       /\ Page(SwapAddr + j) = PSTORAGE_NUM_OF_PAGES
  BY WordIs
<1>2. PICK b \in FlashWords : b = SwapAddr + j /\ Page(b) = PSTORAGE_NUM_OF_PAGES
  BY <1>1
<1>3. SwapWord(g, a) = g[b] /\ SwapWord(f, a) = f[b]
  BY <1>1, <1>2 DEF SwapWord
<1> QED
  BY <1>2, <1>3

\* A command over whole pages shares none of them.
LEMMA NotOnItsPages ==
  ASSUME NEW T, TableOK(T), NEW c, Legal(T, c), Whole(T, c), NEW a, IsOwned(T, a), a \notin Span(c)
  PROVE  Page(a) \notin First(c) .. LastPage(c)
<1> SUFFICES ASSUME Page(a) \in First(c) .. LastPage(c) PROVE FALSE
  OBVIOUS
<1>1. a \in Nat
  BY DEF IsOwned
<1>2. \/ Page(a) = First(c) /\ a < Start(c)
      \/ Page(a) = LastPage(c) /\ CmdEnd(c) <= a
  BY Outside
<1>3. Start(c) \in Nat /\ CmdEnd(c) \in Nat
  BY CommandFields DEF Legal, Start, CmdEnd
<1>4. At(Page(a)) <= a /\ At(Page(a)) \in Nat
  BY <1>1, PageIs
<1> QED
  BY <1>1, <1>2, <1>3, <1>4 DEF Whole

\* The pages a place works on.
LEMMA PlaceIs ==
  ASSUME NEW T, TableOK(T), NEW x, Legal(T, Cmd(x)), Position(T, x), x.m_current_page_id \in Nat,
         x.m_state = "DATA_ERASE_WITH_SWAP", x.m_swap_sub_state \in SubStates
  PROVE  /\ x.m_swap_sub_state \in {"ERASE_SWAP", "WRITE_DATA_TO_SWAP", "ERASE_DATA_PAGE"} =>
              /\ First(Cmd(x)) <= x.m_current_page_id /\ x.m_current_page_id <= LastPage(Cmd(x))
              /\ x.m_current_page_id < PSTORAGE_NUM_OF_PAGES
         /\ x.m_swap_sub_state = "RESTORE_HEAD" => x.m_current_page_id = First(Cmd(x)) + 1
         /\ x.m_swap_sub_state = "RESTORE_TAIL" => x.m_current_page_id = LastPage(Cmd(x)) + 1
<1> DEFINE c == Cmd(x)
           p == x.m_current_page_id
<1>1. /\ First(c) <= LastPage(c) /\ First(c) \in Nat /\ LastPage(c) \in Nat
      /\ LastPage(c) < PSTORAGE_NUM_OF_PAGES /\ PSTORAGE_NUM_OF_PAGES \in Nat
  BY LegalIs, SwapIs
<1>2. Place(c, x.m_swap_sub_state, p, x.m_head_word_size, x.m_tail_word_size, x.m_flags)
  BY DEF Position
<1>3. CASE x.m_swap_sub_state \in {"ERASE_SWAP", "WRITE_DATA_TO_SWAP", "ERASE_DATA_PAGE"}
  <2>1. First(c) <= p /\ p <= LastPage(c)
    <3>1. \/ p = First(c) \/ p = LastPage(c)
          \/ First(c) <= p /\ p <= LastPage(c)
      BY <1>2, <1>3 DEF Place, CopyFirst, CopyLast, WholePage
    <3> HIDE DEF c, p
    <3> QED
      BY <1>1, <3>1
  <2>2. p < PSTORAGE_NUM_OF_PAGES
    BY <1>1, <2>1
  <2> QED
    BY <1>3, <2>1, <2>2
<1>4. CASE x.m_swap_sub_state = "RESTORE_HEAD"
  BY <1>2, <1>4 DEF Place
<1>5. CASE x.m_swap_sub_state = "RESTORE_TAIL"
  BY <1>2, <1>5 DEF Place
<1> QED
  BY <1>3, <1>4, <1>5 DEF SubStates

\* Erasing a page blanks the words of the command on it and changes nothing before.
LEMMA ClearedGrows ==
  ASSUME NEW T, TableOK(T), NEW c, Legal(T, c), NEW p \in Nat, NEW f, NEW g,
         EraseStep(f, g, p), Cleared(c, p, f)
  PROVE  Cleared(c, p, g) /\ (EraseDone(g, p) => Cleared(c, p + 1, g))
<1>1. \A a \in Span(c) : a \in FlashWords /\ Page(a) \in Nat
  BY SpanOwned, WordIs
<1>2. Cleared(c, p, g)
  BY <1>1 DEF Cleared, EraseStep
<1>3. ASSUME EraseDone(g, p) PROVE Cleared(c, p + 1, g)
  <2> SUFFICES ASSUME NEW a \in Span(c), Page(a) < p + 1 PROVE g[a] = Erased
    BY DEF Cleared
  <2>1. Page(a) < p \/ Page(a) = p
    BY <1>1
  <2>2. Page(a) < p => g[a] = Erased
    BY <1>2 DEF Cleared
  <2>3. Page(a) = p => g[a] = Erased
    BY <1>1, <1>3 DEF EraseDone
  <2> QED
    BY <2>1, <2>2, <2>3
<1> QED
  BY <1>2, <1>3

\* What leaves the words of the command alone leaves the cleared ones blank.
LEMMA ClearedSame ==
  ASSUME NEW T, TableOK(T), NEW c, Legal(T, c), NEW p, NEW f, NEW g, Cleared(c, p, f),
         \A a \in DataWords : a \in Span(c) => g[a] = f[a]
  PROVE  Cleared(c, p, g)
BY SpanOwned DEF Cleared

\* The erase of a page that is the command's alone.
LEMMA DataEraseKeeps ==
  ASSUME NEW T, TableOK(T), NEW x, x.m_state = "DATA_ERASE", Legal(T, Cmd(x)), Position(T, x),
         x.m_current_page_id \in Nat,
         NEW f, NEW g, NEW M, Contents(x, f), Shows(T, x, f, M), EraseStep(f, g, x.m_current_page_id)
  PROVE  /\ Contents(x, g) /\ Shows(T, x, g, M)
         /\ EraseDone(g, x.m_current_page_id) => Cleared(Cmd(x), x.m_current_page_id + 1, g)
<1> DEFINE c == Cmd(x)
           p == x.m_current_page_id
<1>1. /\ c.op_code # "store" /\ Whole(T, c) /\ First(c) <= p /\ p <= LastPage(c)
  BY DEF Position
<1>2. Cleared(c, p, f)
  BY DEF Contents
<1>3. Cleared(c, p, g) /\ (EraseDone(g, p) => Cleared(c, p + 1, g))
  <2> HIDE DEF c, p
  <2> QED
    BY <1>2, ClearedGrows DEF c, p
<1>4. Contents(x, g)
  BY <1>3 DEF Contents
<1>5. c.op_code \in {"update", "clear"}
  BY <1>1, CommandFields DEF Legal
<1>6. ASSUME NEW a \in DataWords, IsOwned(T, a), a \notin Span(c)
      PROVE  Kept(x, g, a) = Kept(x, f, a)
  <2>1. First(c) \in Nat /\ LastPage(c) \in Nat
    BY LegalIs
  <2>2. Page(a) # p
    <3>1. Page(a) \notin First(c) .. LastPage(c)
      BY <1>1, <1>6, NotOnItsPages
    <3>2. p \in First(c) .. LastPage(c)
      BY <1>1, <2>1
    <3> QED
      BY <3>1, <3>2
  <2>3. g[a] = f[a]
    BY <2>2, WordIs DEF EraseStep
  <2> QED
    BY <2>3 DEF Kept, SwappedIn
<1>7. Shows(T, x, g, M)
  BY <1>5, <1>6, ShowsAgain DEF Running
<1> QED
  BY <1>3, <1>4, <1>7

\* The erase of a page whose other words are in the swap page (pstorage.c:543-549).
LEMMA ErasePageKeeps ==
  ASSUME NEW T, TableOK(T), NEW x, x.m_state = "DATA_ERASE_WITH_SWAP",
         x.m_swap_sub_state = "ERASE_DATA_PAGE", Legal(T, Cmd(x)), Position(T, x),
         x.m_current_page_id \in Nat,
         NEW f, NEW g, NEW M, Contents(x, f), Shows(T, x, f, M), EraseStep(f, g, x.m_current_page_id)
  PROVE  /\ Contents(x, g) /\ Shows(T, x, g, M)
         /\ EraseDone(g, x.m_current_page_id) => Cleared(Cmd(x), x.m_current_page_id + 1, g)
<1> DEFINE c == Cmd(x)
           p == x.m_current_page_id
<1>1. c.op_code # "store" /\ p < PSTORAGE_NUM_OF_PAGES
  <2>1. x.m_swap_sub_state \in SubStates
    BY DEF SubStates
  <2> QED
    BY <2>1, PlaceIs DEF Position
<1>2. Cleared(c, p, f)
  BY DEF Contents
<1>3. Cleared(c, p, g) /\ (EraseDone(g, p) => Cleared(c, p + 1, g))
  <2> HIDE DEF c, p
  <2> QED
    BY <1>2, ClearedGrows DEF c, p
<1>6. \A b \in FlashWords : Page(b) = PSTORAGE_NUM_OF_PAGES => g[b] = f[b]
  BY <1>1, SwapIs DEF EraseStep
<1>4. Contents(x, g)
  <2>1. ASSUME p < LastPage(c) PROVE Spare(c, p, g)
    <3>1. Spare(c, p, f)
      BY <2>1 DEF Contents
    <3>2. ASSUME NEW a \in DataWords, Page(a) = First(c), First(c) < p
          PROVE  SwapWord(g, a) = SwapWord(f, a) /\ g[a] = f[a]
      <4>1. SwapWord(g, a) = SwapWord(f, a)
        BY <1>6, SwapSame
      <4>2. Page(a) # p
        BY <3>2, LegalIs
      <4>3. g[a] = f[a]
        BY <4>2, WordIs DEF EraseStep
      <4> QED
        BY <4>1, <4>3
    <3> QED
      BY <3>1, <3>2 DEF Spare
  <2> QED
    BY <1>3, <2>1 DEF Contents
<1>5. c.op_code \in {"update", "clear"}
  BY <1>1, CommandFields DEF Legal
<1>7. ASSUME NEW a \in DataWords
      PROVE  Kept(x, g, a) = Kept(x, f, a)
  <2>1. SwapWord(g, a) = SwapWord(f, a)
    BY <1>6, SwapSame
  <2>2. Page(a) # p => g[a] = f[a]
    BY WordIs DEF EraseStep
  <2>3. SwappedIn(x, a) <=> Page(a) = p
    BY DEF SwappedIn
  <2> QED
    BY <2>1, <2>2, <2>3 DEF Kept
<1>8. Shows(T, x, g, M)
  BY <1>5, <1>7, ShowsAgain DEF Running
<1> QED
  BY <1>3, <1>4, <1>8

\* The erase of the swap page while no word is in it only (pstorage.c:516-522).
LEMMA EraseSwapKeeps ==
  ASSUME NEW T, TableOK(T), NEW x, x.m_state = "DATA_ERASE_WITH_SWAP",
         x.m_swap_sub_state = "ERASE_SWAP", Legal(T, Cmd(x)), Position(T, x),
         NEW f, NEW g, NEW M, Contents(x, f), Shows(T, x, f, M),
         EraseStep(f, g, PSTORAGE_NUM_OF_PAGES)
  PROVE  /\ Contents(x, g) /\ Shows(T, x, g, M)
         /\ EraseDone(g, PSTORAGE_NUM_OF_PAGES) => \A p : CopyBegun(p, g)
<1> DEFINE c == Cmd(x)
<1>1. c.op_code \in {"update", "clear"}
  BY CommandFields DEF Position, Legal
<1>2. \A a \in DataWords : g[a] = f[a]
  BY WordIs, SwapIs DEF EraseStep
<1>3. Contents(x, g)
  <2>1. Cleared(c, x.m_current_page_id, g)
    BY <1>2, ClearedSame DEF Contents
  <2>2. \A a \in DataWords : SwapWord(g, a) = SwapWord(f, a) \/ SwapWord(g, a) = Erased
    BY WordIs DEF EraseStep, SwapWord
  <2>3. Spare(c, x.m_current_page_id, f)
    BY DEF Contents
  <2>4. Spare(c, x.m_current_page_id, g)
    BY <1>2, <2>2, <2>3 DEF Spare
  <2> QED
    BY <2>1, <2>4 DEF Contents
<1>4. \A a \in DataWords : Kept(x, g, a) = Kept(x, f, a)
  BY <1>2 DEF Kept, SwappedIn
<1>5. Shows(T, x, g, M)
  BY <1>1, <1>4, ShowsAgain DEF Running
<1>6. ASSUME EraseDone(g, PSTORAGE_NUM_OF_PAGES), NEW p PROVE CopyBegun(p, g)
  <2> SUFFICES ASSUME NEW a \in DataWords PROVE SwapWord(g, a) = Erased
    BY DEF CopyBegun
  <2>1. PICK j \in Nat : j = a % PageSize /\ SwapAddr + j \in FlashWords
                         /\ Page(SwapAddr + j) = PSTORAGE_NUM_OF_PAGES
    BY WordIs
  <2>2. PICK b \in FlashWords : b = SwapAddr + j /\ Page(b) = PSTORAGE_NUM_OF_PAGES
    BY <2>1
  <2>3. g[b] = Erased
    BY <1>6, <2>2 DEF EraseDone
  <2> QED
    BY <2>1, <2>2, <2>3 DEF SwapWord
<1> QED
  BY <1>3, <1>5, <1>6

Copied(p, g) == \A a \in DataWords : Page(a) = p => SwapWord(g, a) = g[a]
HeadRestored(c, g) ==
  \A a \in DataWords : Page(a) = First(c) /\ a < Start(c) => g[a] = SwapWord(g, a)
TailRestored(c, t, g) ==
  \A a \in DataWords : Page(a) = LastPage(c) /\ CmdEnd(c) <= a /\ a < CmdEnd(c) + t
                         => g[a] = SwapWord(g, a)

\* The copy of a page to the swap page (pstorage.c:527-537).
LEMMA WriteSwapKeeps ==
  ASSUME NEW T, TableOK(T), NEW x, x.m_state = "DATA_ERASE_WITH_SWAP",
         x.m_swap_sub_state = "WRITE_DATA_TO_SWAP", Legal(T, Cmd(x)), Position(T, x),
         NEW f, NEW g, NEW M, Contents(x, f), Shows(T, x, f, M),
         NEW p \in Nat, p = x.m_current_page_id,
         NEW W, CopyOf(W, f, At(p), PageSize),
         WriteStep(f, g, SwapAddr, PageSize, W)
  PROVE  /\ Contents(x, g) /\ Shows(T, x, g, M)
         /\ WriteDone(f, g, SwapAddr, PageSize, W) => Copied(p, g)
<1> DEFINE c == Cmd(x)
<1>1. c.op_code \in {"update", "clear"}
  BY CommandFields DEF Position, Legal
<1>2. SwapAddr \in Nat /\ PageSize \in Nat
  BY SwapIs
<1>3. ASSUME NEW a \in DataWords PROVE g[a] = f[a]
  <2>1. a \in FlashWords /\ a \in Nat /\ a < SwapAddr
    BY WordIs
  <2> QED
    BY <1>2, <2>1 DEF WriteStep
<1>4. ASSUME NEW a \in DataWords, Page(a) = p
      PROVE  /\ SwapWord(g, a) = SwapWord(f, a) \/ SwapWord(g, a) = Over(SwapWord(f, a), f[a])
             /\ WriteDone(f, g, SwapAddr, PageSize, W) => SwapWord(g, a) = Over(SwapWord(f, a), f[a])
  <2>1. PICK j \in Nat : /\ j = a % PageSize /\ j = a - At(p) /\ j < PageSize
                         /\ SwapAddr + j \in FlashWords
    BY <1>4, WordIs
  <2>2. PICK b \in FlashWords : b = SwapAddr + j
    BY <2>1
  <2>3. PICK i \in Nat : i = j + 1
    BY <2>1
  <2>4. At(p) \in Nat /\ a \in Nat
    BY AtIs, WordIs
  <2>5. i \in 1 .. PageSize /\ At(p) + i - 1 = a /\ b - SwapAddr + 1 = i
        /\ SwapAddr <= b /\ b < SwapAddr + PageSize
    <3>1. PICK q \in Nat : q = At(p)
      BY <2>4
    <3>2. PICK w \in Nat : w = SwapAddr
      BY <1>2
    <3>3. j = a - q /\ b = w + j
      BY <2>1, <2>2, <3>1, <3>2
    <3>4. i \in 1 .. PageSize
      BY <1>2, <2>1, <2>3
    <3>5. q + i - 1 = a /\ b - w + 1 = i /\ w <= b
      BY <2>3, <2>4, <3>3
    <3>6. b < w + PageSize
      BY <1>2, <2>1, <3>3
    <3> QED
      BY <3>1, <3>2, <3>4, <3>5, <3>6
  <2>6. W[b - SwapAddr + 1] = f[a]
    <3>1. \A k \in 1 .. PageSize : W[k] = f[At(p) + k - 1]
      BY DEF CopyOf
    <3> QED
      BY <2>5, <3>1
  <2>7. /\ g[b] = f[b] \/ g[b] = Over(f[b], W[b - SwapAddr + 1])
        /\ WriteDone(f, g, SwapAddr, PageSize, W) => g[b] = Over(f[b], W[b - SwapAddr + 1])
    BY <2>5 DEF WriteStep, WriteDone
  <2>8. SwapWord(g, a) = g[b] /\ SwapWord(f, a) = f[b]
    BY <2>1, <2>2 DEF SwapWord
  <2> QED
    BY <2>6, <2>7, <2>8
<1>5. \A a \in DataWords : Page(a) = p => SwapWord(f, a) = Erased \/ SwapWord(f, a) = f[a]
  BY DEF Contents, CopyBegun
<1>6. CopyBegun(p, g)
  <2> SUFFICES ASSUME NEW a \in DataWords, Page(a) = p
               PROVE  SwapWord(g, a) = Erased \/ SwapWord(g, a) = g[a]
    BY DEF CopyBegun
  <2>1. SwapWord(f, a) = Erased \/ SwapWord(f, a) = f[a]
    BY <1>5
  <2>2. Over(SwapWord(f, a), f[a]) = f[a]
    BY <2>1, OverIs
  <2> QED
    BY <1>3, <1>4, <2>1, <2>2
<1>7. Contents(x, g)
  <2>1. Cleared(c, x.m_current_page_id, g)
    BY <1>3, ClearedSame DEF Contents
  <2> QED
    BY <1>6, <2>1 DEF Contents
<1>8. \A a \in DataWords : Kept(x, g, a) = Kept(x, f, a)
  BY <1>3 DEF Kept, SwappedIn
<1>9. Shows(T, x, g, M)
  BY <1>1, <1>8, ShowsAgain DEF Running
<1>10. ASSUME WriteDone(f, g, SwapAddr, PageSize, W), NEW a \in DataWords, Page(a) = p
       PROVE  SwapWord(g, a) = g[a]
  <2>1. SwapWord(f, a) = Erased \/ SwapWord(f, a) = f[a]
    BY <1>5, <1>10
  <2>2. Over(SwapWord(f, a), f[a]) = f[a]
    BY <2>1, OverIs
  <2> QED
    BY <1>3, <1>4, <1>10, <2>2
<1> QED
  BY <1>7, <1>9, <1>10 DEF Copied

\* A run of words of a page is copied back from the swap page.
LEMMA RestoreStep ==
  ASSUME NEW p \in Nat, p < PSTORAGE_NUM_OF_PAGES, NEW d \in Nat, NEW n \in Nat, At(p) <= d,
         d + n <= At(p) + PageSize, NEW f, NEW g,
         NEW W, \A i \in 1 .. n : W[i] = f[SwapAddr + (d - At(p)) + i - 1],
         WriteStep(f, g, d, n, W), NEW k \in Nat, k <= d, Restorable(p, k, f)
  PROVE  /\ \A a \in DataWords : SwapWord(g, a) = SwapWord(f, a)
         /\ \A a \in DataWords : ~(d <= a /\ a < d + n) => g[a] = f[a]
         /\ Restorable(p, k, g)
         /\ WriteDone(f, g, d, n, W) =>
              \A a \in DataWords : d <= a /\ a < d + n => g[a] = SwapWord(g, a)
<1>1. SwapAddr \in Nat /\ PageSize \in Nat /\ At(p) \in Nat /\ PSTORAGE_NUM_OF_PAGES \in Nat
  BY SwapIs, AtIs
<1>2. At(p) + PageSize <= SwapAddr
  BY <1>1, SwapIs, AtGrows
<1>3. ASSUME NEW b \in FlashWords, Page(b) = PSTORAGE_NUM_OF_PAGES PROVE g[b] = f[b]
  <2>1. b \in Nat
    BY <1>1 DEF FlashWords
  <2>2. SwapAddr <= b
    BY <1>3, <2>1, PageIs, SwapIs
  <2>3. ~(b < d + n)
    BY <1>1, <1>2, <2>1, <2>2
  <2> QED
    BY <2>3 DEF WriteStep
<1>4. \A a \in DataWords : SwapWord(g, a) = SwapWord(f, a)
  BY <1>3, SwapSame
<1>5. \A a \in DataWords : ~(d <= a /\ a < d + n) => g[a] = f[a]
  BY WordIs DEF WriteStep
<1>6. ASSUME NEW a \in DataWords, d <= a, a < d + n
      PROVE  /\ g[a] = f[a] \/ g[a] = Over(f[a], SwapWord(f, a))
             /\ WriteDone(f, g, d, n, W) => g[a] = Over(f[a], SwapWord(f, a))
             /\ f[a] = Erased \/ f[a] = SwapWord(f, a)
  <2>1. a \in Nat /\ a \in FlashWords
    BY WordIs
  <2>2. At(p) <= a /\ a < At(p) + PageSize
    BY <1>1, <1>6, <2>1
  <2>3. Page(a) = p
    BY <2>1, <2>2, PageIsAt
  <2>4. PICK j \in Nat : j = a % PageSize /\ j = a - At(p)
    BY <2>3, WordIs
  <2>5. PICK i \in Nat : i = a - d + 1
    <3>1. a - d + 1 \in Nat
      BY <1>6, <2>1
    <3> QED
      BY <3>1
  <2>6. i \in 1 .. n /\ SwapAddr + (d - At(p)) + i - 1 = SwapAddr + j
    BY <1>1, <1>6, <2>1, <2>4, <2>5
  <2>7. W[i] = SwapWord(f, a)
    BY <2>4, <2>6 DEF SwapWord
  <2>8. /\ g[a] = f[a] \/ g[a] = Over(f[a], W[i])
        /\ WriteDone(f, g, d, n, W) => g[a] = Over(f[a], W[i])
    BY <1>6, <2>1, <2>5 DEF WriteStep, WriteDone
  <2>9. a >= k
    BY <1>6, <2>1
  <2>10. f[a] = Erased \/ f[a] = SwapWord(f, a)
    BY <2>3, <2>9 DEF Restorable
  <2> QED
    BY <2>7, <2>8, <2>10
<1>7. ASSUME NEW a \in DataWords, Page(a) = p, a >= k
      PROVE  g[a] = Erased \/ g[a] = SwapWord(g, a)
  <2>1. CASE d <= a /\ a < d + n
    BY <1>4, <1>6, <2>1, OverIs
  <2>2. CASE ~(d <= a /\ a < d + n)
    BY <1>4, <1>5, <1>7, <2>2 DEF Restorable
  <2> QED
    BY <2>1, <2>2
<1>8. ASSUME WriteDone(f, g, d, n, W), NEW a \in DataWords, d <= a, a < d + n
      PROVE  g[a] = SwapWord(g, a)
  BY <1>4, <1>6, <1>8, OverIs
<1> QED
  BY <1>4, <1>5, <1>7, <1>8 DEF Restorable

\* The copy of the words before the command back (pstorage.c:573-578).
LEMMA RestoreHeadKeeps ==
  ASSUME NEW T, TableOK(T), NEW x, x.m_state = "DATA_ERASE_WITH_SWAP",
         x.m_swap_sub_state = "RESTORE_HEAD", Legal(T, Cmd(x)), Position(T, x),
         x.m_current_page_id \in Nat, x.m_head_word_size \in Nat,
         NEW f, NEW g, NEW M, Contents(x, f), Shows(T, x, f, M),
         NEW W, CopyOf(W, f, SwapAddr, x.m_head_word_size),
         WriteStep(f, g, At(First(Cmd(x))), x.m_head_word_size, W)
  PROVE  /\ Contents(x, g) /\ Shows(T, x, g, M)
         /\ WriteDone(f, g, At(First(Cmd(x))), x.m_head_word_size, W) => HeadRestored(Cmd(x), g)
<1> DEFINE c == Cmd(x)
<1>1. c.op_code \in {"update", "clear"}
  BY CommandFields DEF Position, Legal
<1>2. PICK s \in Nat : /\ s = Start(c) /\ At(First(c)) \in Nat /\ At(First(c)) <= s
                       /\ s < At(First(c)) + PageSize /\ First(c) \in Nat
                       /\ First(c) < PSTORAGE_NUM_OF_PAGES
  <2>1. \E b \in Nat, s \in Nat, n \in Nat :
           /\ s = Start(c) /\ First(c) <= LastPage(c)
           /\ First(c) \in Nat /\ LastPage(c) \in Nat /\ LastPage(c) < PSTORAGE_NUM_OF_PAGES
           /\ At(First(c)) \in Nat /\ At(First(c)) <= s /\ s < At(First(c)) + PageSize
    BY LegalIs
  <2> QED
    BY <2>1, SwapIs
<1>3. PICK p \in Nat : p = First(c)
  BY <1>2
<1>4. PICK d \in Nat : d = At(p)
  BY <1>2, <1>3
<1>5. PICK h \in Nat : h = x.m_head_word_size
  OBVIOUS
<1>6. x.m_current_page_id = p + 1 /\ h = s - d
  BY <1>2, <1>3, <1>4, <1>5 DEF Position, Place
<1>7. d + h = s /\ d + h <= d + PageSize
  BY <1>2, <1>3, <1>4, <1>6, SwapIs
<1>8. Cleared(c, x.m_current_page_id, f) /\ Restorable(p, 0, f)
  BY <1>3 DEF Contents
<1> HIDE DEF c
<1>9. \A i \in 1 .. h : W[i] = f[SwapAddr + (d - At(p)) + i - 1]
  <2>1. \A i \in 1 .. h : SwapAddr + (d - At(p)) + i - 1 = SwapAddr + i - 1
    BY <1>4, SwapIs
  <2> QED
    BY <1>5, <2>1 DEF CopyOf
<1>10. /\ \A a \in DataWords : SwapWord(g, a) = SwapWord(f, a)
       /\ \A a \in DataWords : ~(d <= a /\ a < d + h) => g[a] = f[a]
       /\ Restorable(p, 0, g)
       /\ WriteDone(f, g, d, h, W) =>
              \A a \in DataWords : d <= a /\ a < d + h => g[a] = SwapWord(g, a)
  <2>1. WriteStep(f, g, d, h, W)
    BY <1>3, <1>4, <1>5 DEF c
  <2>2. p < PSTORAGE_NUM_OF_PAGES /\ At(p) <= d /\ d + h <= At(p) + PageSize /\ 0 <= d
    BY <1>2, <1>3, <1>4, <1>7
  <2> QED
    BY <1>8, <1>9, <2>1, <2>2, RestoreStep
<1>11. Contents(x, g)
  <2>1. ASSUME NEW a \in DataWords, a \in Span(c) PROVE g[a] = f[a]
    <3>1. s <= a /\ a \in Nat
      BY <1>2, <2>1, SpanIs DEF c
    <3> QED
      BY <1>7, <1>10, <3>1
  <2>2. Cleared(c, x.m_current_page_id, g)
    BY <1>8, <2>1, ClearedSame DEF c
  <2> QED
    BY <1>3, <1>10, <2>2 DEF Contents, c
<1>12. ASSUME NEW a \in DataWords PROVE Kept(x, g, a) = Kept(x, f, a)
  <2>1. SwappedIn(x, a) <=> Page(a) = p
    BY <1>6 DEF SwappedIn
  <2>2. Page(a) # p => g[a] = f[a]
    <3> SUFFICES ASSUME d <= a, a < d + h PROVE Page(a) = p
      BY <1>10
    <3>1. a \in Nat /\ At(p) <= a /\ a < At(p) + PageSize
      BY <1>4, <1>7, WordIs, SwapIs
    <3> QED
      BY <3>1, PageIsAt
  <2> QED
    BY <1>10, <2>1, <2>2 DEF Kept
<1>13. Shows(T, x, g, M)
  BY <1>1, <1>12, ShowsAgain DEF Running, c
<1>14. ASSUME WriteDone(f, g, d, h, W) PROVE HeadRestored(c, g)
  <2> SUFFICES ASSUME NEW a \in DataWords, Page(a) = p, a < s PROVE g[a] = SwapWord(g, a)
    BY <1>2, <1>3 DEF HeadRestored
  <2>1. d <= a /\ a < d + h
    BY <1>4, <1>7, WordIs
  <2> QED
    BY <1>10, <1>14, <2>1
<1> QED
  BY <1>3, <1>4, <1>5, <1>11, <1>13, <1>14 DEF c

\* The copy of the words behind the command back (pstorage.c:554-565).
LEMMA RestoreTailKeeps ==
  ASSUME NEW T, TableOK(T), NEW x, x.m_state = "DATA_ERASE_WITH_SWAP",
         x.m_swap_sub_state = "RESTORE_TAIL", Legal(T, Cmd(x)), Position(T, x),
         x.m_current_page_id \in Nat, x.m_tail_word_size \in Nat,
         NEW f, NEW g, NEW M, Contents(x, f), Shows(T, x, f, M),
         NEW v \in Nat, v = SwapAddr + (CmdEnd(Cmd(x)) % PageSize),
         NEW W, CopyOf(W, f, v, x.m_tail_word_size),
         WriteStep(f, g, CmdEnd(Cmd(x)), x.m_tail_word_size, W)
  PROVE  /\ Contents(x, g) /\ Shows(T, x, g, M)
         /\ WriteDone(f, g, CmdEnd(Cmd(x)), x.m_tail_word_size, W)
              => TailRestored(Cmd(x), x.m_tail_word_size, g)
<1> DEFINE c == Cmd(x)
<1>1. c.op_code \in {"update", "clear"}
  BY CommandFields DEF Position, Legal
<1>2. PICK n \in Nat : /\ n = CmdEnd(c) /\ At(LastPage(c)) \in Nat /\ At(LastPage(c)) < n
                       /\ n <= At(LastPage(c)) + PageSize
                       /\ LastPage(c) \in Nat /\ LastPage(c) < PSTORAGE_NUM_OF_PAGES
  <2>1. \E b \in Nat, s \in Nat, n \in Nat :
           /\ n = CmdEnd(c)
           /\ LastPage(c) \in Nat /\ LastPage(c) < PSTORAGE_NUM_OF_PAGES
           /\ At(LastPage(c)) \in Nat /\ At(LastPage(c)) < n /\ n <= At(LastPage(c)) + PageSize
    BY LegalIs
  <2> QED
    BY <2>1
<1>3. PICK p \in Nat : p = LastPage(c)
  BY <1>2
<1>4. PICK t \in Nat : t = x.m_tail_word_size
  OBVIOUS
<1>5. x.m_current_page_id = p + 1 /\ t # 0 /\ t = TailIn(T, c)
  BY <1>3, <1>4 DEF Position, Place
<1>6. n + t <= At(p) + PageSize /\ n % PageSize = n - At(p)
  <2>1. \E u \in Nat :
           /\ u = TailIn(T, c) /\ u < PageSize
           /\ u # 0 => /\ CmdEnd(c) + u <= At(LastPage(c)) + PageSize
                       /\ CmdEnd(c) % PageSize = CmdEnd(c) - At(LastPage(c))
    BY TailIs
  <2> QED
    BY <1>2, <1>3, <1>5, <2>1
<1>8. Cleared(c, x.m_current_page_id, f) /\ Restorable(p, n, f)
  BY <1>2, <1>3 DEF Contents
<1> HIDE DEF c
<1>9. \A i \in 1 .. t : W[i] = f[SwapAddr + (n - At(p)) + i - 1]
  <2>1. v = SwapAddr + (n - At(p))
    BY <1>2, <1>6 DEF c
  <2>2. \A i \in 1 .. t : W[i] = f[v + i - 1]
    BY <1>4 DEF CopyOf
  <2> QED
    BY <2>1, <2>2
<1>10. /\ \A a \in DataWords : SwapWord(g, a) = SwapWord(f, a)
       /\ \A a \in DataWords : ~(n <= a /\ a < n + t) => g[a] = f[a]
       /\ Restorable(p, n, g)
       /\ WriteDone(f, g, n, t, W) =>
              \A a \in DataWords : n <= a /\ a < n + t => g[a] = SwapWord(g, a)
  <2>1. WriteStep(f, g, n, t, W)
    BY <1>2, <1>4 DEF c
  <2>2. p < PSTORAGE_NUM_OF_PAGES /\ At(p) <= n /\ n + t <= At(p) + PageSize /\ n <= n
    BY <1>2, <1>3, <1>6
  <2> QED
    BY <1>8, <1>9, <2>1, <2>2, RestoreStep
<1>11. Contents(x, g)
  <2>1. ASSUME NEW a \in DataWords, a \in Span(c) PROVE g[a] = f[a]
    <3>1. a < n /\ a \in Nat
      BY <1>2, <2>1, SpanIs DEF c
    <3> QED
      BY <1>10, <3>1
  <2>2. Cleared(c, x.m_current_page_id, g)
    BY <1>8, <2>1, ClearedSame DEF c
  <2> QED
    BY <1>2, <1>3, <1>10, <2>2 DEF Contents, c
<1>12. ASSUME NEW a \in DataWords PROVE Kept(x, g, a) = Kept(x, f, a)
  <2>1. SwappedIn(x, a) <=> Page(a) = p /\ a >= n
    BY <1>2, <1>3 DEF SwappedIn, c
  <2>2. ~(Page(a) = p /\ a >= n) => g[a] = f[a]
    <3> SUFFICES ASSUME n <= a, a < n + t PROVE Page(a) = p /\ a >= n
      BY <1>10
    <3>1. a \in Nat /\ At(p) <= a /\ a < At(p) + PageSize
      BY <1>2, <1>3, <1>6, WordIs, SwapIs
    <3> QED
      BY <3>1, PageIsAt
  <2> QED
    BY <1>10, <2>1, <2>2 DEF Kept
<1>13. Shows(T, x, g, M)
  BY <1>1, <1>12, ShowsAgain DEF Running, c
<1>14. ASSUME WriteDone(f, g, n, t, W) PROVE TailRestored(c, t, g)
  BY <1>2, <1>10, <1>14 DEF TailRestored
<1> QED
  BY <1>2, <1>4, <1>11, <1>13, <1>14 DEF c

(***************************************************************************)
(* Each operation does what its place is for.                              *)
(***************************************************************************)
\* What the end of an operation has achieved.
Done(T, x, g, M) ==
  /\ x.m_state = "STORE" => AtRest(T, g, M)
  /\ x.m_state = "DATA_ERASE" => Cleared(Cmd(x), x.m_current_page_id + 1, g)
  /\ x.m_state = "DATA_ERASE_WITH_SWAP" =>
       /\ x.m_swap_sub_state = "ERASE_SWAP" => \A p : CopyBegun(p, g)
       /\ x.m_swap_sub_state = "WRITE_DATA_TO_SWAP" => Copied(x.m_current_page_id, g)
       /\ x.m_swap_sub_state = "ERASE_DATA_PAGE" => /\ EraseDone(g, x.m_current_page_id)
                                                   /\ Cleared(Cmd(x), x.m_current_page_id + 1, g)
       /\ x.m_swap_sub_state = "RESTORE_HEAD" => HeadRestored(Cmd(x), g)
       /\ x.m_swap_sub_state = "RESTORE_TAIL" => TailRestored(Cmd(x), x.m_tail_word_size, g)

Worked(T, x, f, g, M, part) ==
  /\ Contents(x, g) /\ Shows(T, x, g, M)
  /\ FlashWords \subseteq part => Done(T, x, g, M)
  /\ FlashOK(f) => FlashOK(g)

\* An erase leaves words the flash can hold.
LEMMA ErasedTyped ==
  ASSUME NEW f, NEW g, NEW p, EraseStep(f, g, p), FlashOK(f)
  PROVE  FlashOK(g)
BY DEF EraseStep, FlashOK, Value

\* So does a write of words the flash can hold.
LEMMA WrittenTyped ==
  ASSUME NEW f, NEW g, NEW d \in Nat, NEW n \in Nat, NEW W, WriteStep(f, g, d, n, W), FlashOK(f),
         \A i \in 1 .. n : W[i] \in Value
  PROVE  FlashOK(g)
<1> SUFFICES ASSUME NEW a \in FlashWords PROVE g[a] \in Value
  BY DEF FlashOK
<1>1. a \in Nat /\ f[a] \in Value
  BY SwapIs DEF FlashWords, FlashOK
<1>2. CASE d <= a /\ a < d + n
  <2>1. a - d + 1 \in 1 .. n
    BY <1>1, <1>2
  <2>2. g[a] = f[a] \/ g[a] = Over(f[a], W[a - d + 1])
    BY <1>2 DEF WriteStep
  <2> QED
    BY <1>1, <2>1, <2>2, OverIs
<1>3. CASE ~(d <= a /\ a < d + n)
  BY <1>1, <1>3 DEF WriteStep
<1> QED
  BY <1>2, <1>3

\* OperationWorks for each place: STORE.
LEMMA StoreWorks ==
  ASSUME NEW T, TableOK(T), NEW x, x.m_state = "STORE", Legal(T, Cmd(x)), Position(T, x),
         NEW M, Contents(x, flash), Shows(T, x, flash, M),
         NEW part, NEW g, g = Applied(StoreOp(Cmd(x)), part)
  PROVE  Worked(T, x, flash, g, M, part)
<1> DEFINE c == Cmd(x)
<1>1. c \in CommandSet /\ c.op_code \in {"store", "update"} /\ c.size <= PageSize
  BY CommandFields DEF Legal, Position
<1>2. c.size \in Nat /\ Start(c) \in Nat /\ c.data \in Nat /\ c.data <= MaxCommands
  BY <1>1, CommandFields DEF Start, Legal
<1>3. PICK W : /\ StoreOp(c) = Write(Start(c), W) /\ DOMAIN W = 1 .. c.size
               /\ \A i \in 1 .. c.size : W[i] = Data(c.data, i)
  BY <1>1, StoreOpIs
<1> HIDE DEF c
<1>4. PICK d \in Nat : d = Start(c)
  BY <1>2
<1>5. PICK n \in Nat : n = c.size
  BY <1>2
<1>6. WriteStep(flash, g, d, n, W) /\ (FlashWords \subseteq part => WriteDone(flash, g, d, n, W))
  <2>1. g = Applied(Write(d, W), part) /\ DOMAIN W = 1 .. n
    BY <1>3, <1>4, <1>5 DEF c
  <2> QED
    BY <2>1, AppliedWrite
<1>7. Contents(x, g) /\ Shows(T, x, g, M) /\ (WriteDone(flash, g, d, n, W) => AtRest(T, g, M))
  BY <1>1, <1>3, <1>4, <1>5, <1>6, StoreKeeps DEF c
<1>8. Done(T, x, g, M) <=> AtRest(T, g, M)
  BY DEF Done
<1>9. FlashOK(flash) => FlashOK(g)
  <2>1. ASSUME NEW i \in 1 .. n PROVE W[i] \in Value
    <3>1. i \in FlashWords
      BY <1>1, <1>5, SwapIs DEF FlashWords
    <3>2. c.data \in 0 .. MaxCommands
      BY <1>2, PstorageAssumption
    <3>3. W[i] = <<c.data, i>>
      BY <1>3, <1>5 DEF Data
    <3>4. <<c.data, i>> \in (0 .. MaxCommands) \X FlashWords
      BY <3>1, <3>2
    <3> QED
      BY <3>3, <3>4 DEF Value
  <2> QED
    BY <1>6, <2>1, WrittenTyped
<1> QED
  BY <1>6, <1>7, <1>8, <1>9 DEF Worked

\* DATA_ERASE.
LEMMA DataEraseWorks ==
  ASSUME NEW T, TableOK(T), NEW x, x.m_state = "DATA_ERASE", Legal(T, Cmd(x)), Position(T, x),
         x.m_current_page_id \in Nat,
         NEW M, Contents(x, flash), Shows(T, x, flash, M),
         NEW part, NEW g, g = Applied(PageErase(x.m_current_page_id), part)
  PROVE  Worked(T, x, flash, g, M, part)
<1>1. PICK p \in Nat : p = x.m_current_page_id
  OBVIOUS
<1>2. EraseStep(flash, g, p) /\ (FlashWords \subseteq part => EraseDone(g, p))
  BY <1>1, AppliedErase
<1>3. Contents(x, g) /\ Shows(T, x, g, M) /\ (EraseDone(g, p) => Cleared(Cmd(x), x.m_current_page_id + 1, g))
  BY <1>1, <1>2, DataEraseKeeps
<1>4. Done(T, x, g, M) <=> Cleared(Cmd(x), x.m_current_page_id + 1, g)
  BY DEF Done
<1> QED
  BY <1>2, <1>3, <1>4, ErasedTyped DEF Worked

\* ERASE_SWAP.
LEMMA EraseSwapWorks ==
  ASSUME NEW T, TableOK(T), NEW x, x.m_state = "DATA_ERASE_WITH_SWAP",
         x.m_swap_sub_state = "ERASE_SWAP", Legal(T, Cmd(x)), Position(T, x),
         NEW M, Contents(x, flash), Shows(T, x, flash, M),
         NEW part, NEW g, g = Applied(SubOp(x, x.m_swap_sub_state, flash), part)
  PROVE  Worked(T, x, flash, g, M, part)
<1>1. SubOp(x, x.m_swap_sub_state, flash) = PageErase(PSTORAGE_NUM_OF_PAGES)
  BY SwapIs DEF SubOp
<1>2. EraseStep(flash, g, PSTORAGE_NUM_OF_PAGES)
      /\ (FlashWords \subseteq part => EraseDone(g, PSTORAGE_NUM_OF_PAGES))
  BY <1>1, SwapIs, AppliedErase
<1>3. Contents(x, g) /\ Shows(T, x, g, M)
      /\ (EraseDone(g, PSTORAGE_NUM_OF_PAGES) => \A p : CopyBegun(p, g))
  BY <1>2, EraseSwapKeeps
<1>4. Done(T, x, g, M) <=> \A p : CopyBegun(p, g)
  BY DEF Done
<1> QED
  BY <1>2, <1>3, <1>4, ErasedTyped DEF Worked

\* ERASE_DATA_PAGE.
LEMMA ErasePageWorks ==
  ASSUME NEW T, TableOK(T), NEW x, x.m_state = "DATA_ERASE_WITH_SWAP",
         x.m_swap_sub_state = "ERASE_DATA_PAGE", Legal(T, Cmd(x)), Position(T, x),
         x.m_current_page_id \in Nat,
         NEW M, Contents(x, flash), Shows(T, x, flash, M),
         NEW part, NEW g, g = Applied(SubOp(x, x.m_swap_sub_state, flash), part)
  PROVE  Worked(T, x, flash, g, M, part)
<1>1. PICK p \in Nat : p = x.m_current_page_id
  OBVIOUS
<1>2. SubOp(x, x.m_swap_sub_state, flash) = PageErase(p)
  BY <1>1 DEF SubOp
<1>3. EraseStep(flash, g, p) /\ (FlashWords \subseteq part => EraseDone(g, p))
  BY <1>2, AppliedErase
<1>4. Contents(x, g) /\ Shows(T, x, g, M) /\ (EraseDone(g, p) => Cleared(Cmd(x), x.m_current_page_id + 1, g))
  BY <1>1, <1>3, ErasePageKeeps
<1>5. Done(T, x, g, M) <=> EraseDone(g, p) /\ Cleared(Cmd(x), x.m_current_page_id + 1, g)
  BY <1>1 DEF Done
<1> QED
  BY <1>3, <1>4, <1>5, ErasedTyped DEF Worked

\* WRITE_DATA_TO_SWAP.
LEMMA WriteSwapWorks ==
  ASSUME NEW T, TableOK(T), NEW x, x.m_state = "DATA_ERASE_WITH_SWAP",
         x.m_swap_sub_state = "WRITE_DATA_TO_SWAP", Legal(T, Cmd(x)), Position(T, x),
         x.m_current_page_id \in Nat,
         NEW M, Contents(x, flash), Shows(T, x, flash, M),
         NEW part, NEW g, g = Applied(SubOp(x, x.m_swap_sub_state, flash), part)
  PROVE  Worked(T, x, flash, g, M, part)
<1>1. PICK p \in Nat : p = x.m_current_page_id
  OBVIOUS
<1>2. At(p) \in Nat /\ SwapAddr \in Nat /\ PageSize \in Nat
  BY SwapIs, AtIs
<1>3. SubOp(x, x.m_swap_sub_state, flash) = Copy(flash, At(p), SwapAddr, PageSize)
  BY <1>1 DEF SubOp, At
<1>4. PICK W : /\ Copy(flash, At(p), SwapAddr, PageSize) = Write(SwapAddr, W)
               /\ CopyOf(W, flash, At(p), PageSize)
  BY <1>2, CopyIs
<1>5. WriteStep(flash, g, SwapAddr, PageSize, W)
      /\ (FlashWords \subseteq part => WriteDone(flash, g, SwapAddr, PageSize, W))
  BY <1>2, <1>3, <1>4, AppliedWrite DEF CopyOf
<1>6. Contents(x, g) /\ Shows(T, x, g, M)
      /\ (WriteDone(flash, g, SwapAddr, PageSize, W) => Copied(p, g))
  BY <1>1, <1>4, <1>5, WriteSwapKeeps
<1>7. Done(T, x, g, M) <=> Copied(x.m_current_page_id, g)
  BY DEF Done
<1>8. ASSUME FlashOK(flash), NEW i \in 1 .. PageSize PROVE W[i] \in Value
  <2>1. p < PSTORAGE_NUM_OF_PAGES
    <3>1. x.m_swap_sub_state \in SubStates
      BY DEF SubStates
    <3> QED
      BY <1>1, <3>1, PlaceIs
  <2>2. At(p) + PageSize <= SwapAddr
    BY <2>1, SwapIs, AtGrows
  <2>3. At(p) + i - 1 \in FlashWords
    BY <1>2, <2>2 DEF FlashWords
  <2> QED
    BY <1>4, <1>8, <2>3 DEF FlashOK, CopyOf
<1>9. FlashOK(flash) => FlashOK(g)
  BY <1>2, <1>5, <1>8, WrittenTyped
<1> QED
  BY <1>1, <1>5, <1>6, <1>7, <1>9 DEF Worked

\* RESTORE_HEAD.
LEMMA RestoreHeadWorks ==
  ASSUME NEW T, TableOK(T), NEW x, x.m_state = "DATA_ERASE_WITH_SWAP",
         x.m_swap_sub_state = "RESTORE_HEAD", Legal(T, Cmd(x)), Position(T, x),
         x.m_current_page_id \in Nat, x.m_head_word_size \in Nat, x.m_head_word_size < PageSize,
         NEW M, Contents(x, flash), Shows(T, x, flash, M),
         NEW part, NEW g, g = Applied(SubOp(x, x.m_swap_sub_state, flash), part)
  PROVE  Worked(T, x, flash, g, M, part)
<1> DEFINE c == Cmd(x)
<1>1. PICK p \in Nat : p = First(c) /\ p < PSTORAGE_NUM_OF_PAGES
  BY LegalIs, SwapIs
<1>2. PICK h \in Nat : h = x.m_head_word_size /\ h < PageSize
  OBVIOUS
<1>3. At(p) \in Nat /\ SwapAddr \in Nat /\ PageSize \in Nat
  BY SwapIs, AtIs
<1>4. x.m_current_page_id - 1 = p
  BY <1>1 DEF Position, Place
<1>5. SubOp(x, x.m_swap_sub_state, flash) = Copy(flash, SwapAddr, At(p), h)
  BY <1>2, <1>4 DEF SubOp, At
<1>6. PICK W : /\ Copy(flash, SwapAddr, At(p), h) = Write(At(p), W)
               /\ CopyOf(W, flash, SwapAddr, h)
  BY <1>3, CopyIs
<1>7. WriteStep(flash, g, At(p), h, W) /\ (FlashWords \subseteq part => WriteDone(flash, g, At(p), h, W))
  BY <1>3, <1>5, <1>6, AppliedWrite DEF CopyOf
<1>8. Contents(x, g) /\ Shows(T, x, g, M) /\ (WriteDone(flash, g, At(p), h, W) => HeadRestored(c, g))
  BY <1>1, <1>2, <1>6, <1>7, RestoreHeadKeeps
<1>9. Done(T, x, g, M) <=> HeadRestored(c, g)
  BY DEF Done
<1>10. ASSUME FlashOK(flash), NEW i \in 1 .. h PROVE W[i] \in Value
  <2>1. SwapAddr + i - 1 \in FlashWords
    BY <1>2, <1>3 DEF FlashWords
  <2> QED
    BY <1>6, <1>10, <2>1 DEF FlashOK, CopyOf
<1>11. FlashOK(flash) => FlashOK(g)
  BY <1>3, <1>7, <1>10, WrittenTyped
<1> QED
  BY <1>7, <1>8, <1>9, <1>11 DEF Worked

\* RESTORE_TAIL.
LEMMA RestoreTailWorks ==
  ASSUME NEW T, TableOK(T), NEW x, x.m_state = "DATA_ERASE_WITH_SWAP",
         x.m_swap_sub_state = "RESTORE_TAIL", Legal(T, Cmd(x)), Position(T, x),
         x.m_current_page_id \in Nat, x.m_tail_word_size \in Nat,
         NEW M, Contents(x, flash), Shows(T, x, flash, M),
         NEW part, NEW g, g = Applied(SubOp(x, x.m_swap_sub_state, flash), part)
  PROVE  Worked(T, x, flash, g, M, part)
<1> DEFINE c == Cmd(x)
<1>1. PICK n \in Nat : /\ n = CmdEnd(c) /\ At(LastPage(c)) \in Nat /\ At(LastPage(c)) < n
                       /\ n <= At(LastPage(c)) + PageSize
  <2>1. \E b \in Nat, s \in Nat, n \in Nat :
           /\ n = CmdEnd(c)
           /\ At(LastPage(c)) \in Nat /\ At(LastPage(c)) < n /\ n <= At(LastPage(c)) + PageSize
    BY LegalIs
  <2> QED
    BY <2>1
<1>2. PICK t \in Nat : t = x.m_tail_word_size
  OBVIOUS
<1>3. SwapAddr \in Nat /\ PageSize \in Nat
  BY SwapIs
<1>4. PICK r \in Nat : r = n % PageSize /\ r + t <= PageSize
  <2>1. t # 0 /\ t = TailIn(T, c)
    BY <1>2 DEF Position, Place
  <2>2. \E u \in Nat :
           /\ u = TailIn(T, c) /\ u < PageSize
           /\ u # 0 => /\ CmdEnd(c) + u <= At(LastPage(c)) + PageSize
                       /\ CmdEnd(c) % PageSize = CmdEnd(c) - At(LastPage(c))
    BY TailIs
  <2>3. n + t <= At(LastPage(c)) + PageSize /\ n % PageSize = n - At(LastPage(c))
    BY <1>1, <2>1, <2>2
  <2>4. n % PageSize \in Nat /\ (n % PageSize) + t <= PageSize
    BY <1>1, <1>3, <2>3
  <2> QED
    BY <2>4
<1> DEFINE v == SwapAddr + r
<1>5. SubOp(x, x.m_swap_sub_state, flash) = Copy(flash, v, n, t) /\ v \in Nat
  BY <1>1, <1>2, <1>3, <1>4 DEF SubOp
<1>12. v = SwapAddr + (CmdEnd(c) % PageSize)
  BY <1>1, <1>4
<1> HIDE DEF v
<1>6. PICK W : Copy(flash, v, n, t) = Write(n, W) /\ CopyOf(W, flash, v, t)
  BY <1>5, CopyIs
<1>7. WriteStep(flash, g, n, t, W) /\ (FlashWords \subseteq part => WriteDone(flash, g, n, t, W))
  BY <1>5, <1>6, AppliedWrite DEF CopyOf
<1>8. Contents(x, g) /\ Shows(T, x, g, M) /\ (WriteDone(flash, g, n, t, W) => TailRestored(c, x.m_tail_word_size, g))
  BY <1>1, <1>2, <1>5, <1>6, <1>7, <1>12, RestoreTailKeeps
<1>9. Done(T, x, g, M) <=> TailRestored(c, x.m_tail_word_size, g)
  BY DEF Done
<1>10. ASSUME FlashOK(flash), NEW i \in 1 .. t PROVE W[i] \in Value
  <2>1. v + i - 1 \in FlashWords
    BY <1>3, <1>4 DEF FlashWords, v
  <2> QED
    BY <1>6, <1>10, <2>1 DEF FlashOK, CopyOf
<1>11. FlashOK(flash) => FlashOK(g)
  BY <1>7, <1>10, WrittenTyped
<1> QED
  BY <1>7, <1>8, <1>9, <1>11 DEF Worked

\* Whatever the machine is at: a part of its operation leaves it at that place with the
\* memory as it was, and the whole of it has done what the place is for.
LEMMA OperationWorks ==
  ASSUME NEW T, TableOK(T), NEW x, Sound(T, x), x.m_cmd_queue # <<>>, Position(T, x),
         NEW M, Contents(x, flash), Shows(T, x, flash, M),
         NEW op, IsOpOf(x, flash, op), NEW part, NEW g, g = Applied(op, part)
  PROVE  Worked(T, x, flash, g, M, part)
<1>1. /\ Legal(T, Cmd(x)) /\ x.m_current_page_id \in Nat /\ x.m_swap_sub_state \in SubStates
      /\ x.m_head_word_size \in Nat /\ x.m_head_word_size < PageSize /\ x.m_tail_word_size \in Nat
  BY CmdIs DEF Sound
<1>2. x.m_state \in Running
  BY DEF Position
<1>3. CASE x.m_state = "STORE"
  BY <1>1, <1>3, StoreWorks DEF IsOpOf
<1>4. CASE x.m_state = "DATA_ERASE"
  BY <1>1, <1>4, DataEraseWorks DEF IsOpOf
<1>5. CASE x.m_state = "DATA_ERASE_WITH_SWAP"
  <2>1. g = Applied(SubOp(x, x.m_swap_sub_state, flash), part)
    BY <1>5 DEF IsOpOf
  <2>2. CASE x.m_swap_sub_state = "ERASE_SWAP"
    BY <1>1, <1>5, <2>1, <2>2, EraseSwapWorks
  <2>3. CASE x.m_swap_sub_state = "WRITE_DATA_TO_SWAP"
    BY <1>1, <1>5, <2>1, <2>3, WriteSwapWorks
  <2>4. CASE x.m_swap_sub_state = "ERASE_DATA_PAGE"
    BY <1>1, <1>5, <2>1, <2>4, ErasePageWorks
  <2>5. CASE x.m_swap_sub_state = "RESTORE_HEAD"
    BY <1>1, <1>5, <2>1, <2>5, RestoreHeadWorks
  <2>6. CASE x.m_swap_sub_state = "RESTORE_TAIL"
    BY <1>1, <1>5, <2>1, <2>6, RestoreTailWorks
  <2> QED
    BY <1>1, <2>2, <2>3, <2>4, <2>5, <2>6 DEF SubStates
<1> QED
  BY <1>2, <1>3, <1>4, <1>5 DEF Running

(***************************************************************************)
(* What a handler may leave behind.                                        *)
(***************************************************************************)
SafeBut(T, c, f, M) ==
  \A a \in DataWords : IsOwned(T, a) /\ Page(a) \notin First(c) .. LastPage(c) => M[a] = f[a]

Reported(q, z) == \E r : (r = q \/ \E c \in CommandSet : r = Append(q, c)) /\ z = Tail(r)

Started(T, y, f) ==
  \/ y.m_state = "IDLE"
  \/ y.m_state \in Running /\ \A N : ShowsWith(T, Cmd(y), f, N) => Shows(T, y, f, N)

\* The command goes on; or the module fails; or it is reported and the next one begins.
GoesOn(T, q, M, y, f) == y.m_state \in Running /\ y.m_cmd_queue = q /\ Shows(T, y, f, M)
Proceeds(T, q, M, y, f) ==
  \/ GoesOn(T, q, M, y, f)
  \/ y.m_state = "ERROR" /\ SafeBut(T, Cmd(y), f, M)
Outcome(T, q, M, y, f) ==
  \/ Proceeds(T, q, M, y, f)
  \/ AtRest(T, f, M) /\ Reported(q, y.m_cmd_queue) /\ Started(T, y, f)

\* Words outside the pages of the running command are in the flash as the clients see them.
LEMMA SafeIs ==
  ASSUME NEW T, TableOK(T), NEW x, Sound(T, x), x.m_cmd_queue # <<>>, Position(T, x),
         NEW f, NEW M, Shows(T, x, f, M)
  PROVE  SafeBut(T, Cmd(x), f, M)
<1> DEFINE c == Cmd(x)
<1> SUFFICES ASSUME NEW a \in DataWords, IsOwned(T, a), Page(a) \notin First(c) .. LastPage(c)
             PROVE  M[a] = f[a]
  BY DEF SafeBut
<1>1. Legal(T, c) /\ x.m_current_page_id \in Nat /\ x.m_swap_sub_state \in SubStates
  BY CmdIs DEF Sound
<1>2. /\ First(c) <= LastPage(c) /\ First(c) \in Nat /\ LastPage(c) \in Nat
  BY <1>1, LegalIs
<1>3. Page(a) \in Nat
  BY WordIs
<1>4. a \notin Span(c)
  BY <1>1, <1>3, PagesOfSpan
<1>5. ~SwappedIn(x, a)
  <2> SUFFICES ASSUME SwappedIn(x, a) PROVE FALSE
    OBVIOUS
  <2>1. x.m_state = "DATA_ERASE_WITH_SWAP"
    BY DEF SwappedIn
  <2>2. PICK p \in Nat : p = x.m_current_page_id
    BY <1>1
  <2>3. CASE x.m_swap_sub_state = "ERASE_DATA_PAGE" /\ Page(a) = p
    <3>1. First(c) <= p /\ p <= LastPage(c)
      BY <1>1, <2>1, <2>2, <2>3, PlaceIs
    <3> QED
      BY <1>2, <2>3, <3>1
  <2>4. CASE x.m_swap_sub_state = "RESTORE_HEAD" /\ Page(a) = p - 1
    <3>1. p = First(c) + 1
      BY <1>1, <2>1, <2>2, <2>4, PlaceIs
    <3> QED
      BY <1>2, <2>4, <3>1
  <2>5. CASE Page(a) = LastPage(c)
    BY <1>2, <2>5
  <2> QED
    BY <2>2, <2>3, <2>4, <2>5 DEF SwappedIn
<1> QED
  BY <1>4, <1>5 DEF Shows, Kept

\* What the answer of the SoftDevice does not change.
LEMMA CarriedIs ==
  ASSUME NEW T, NEW x, NEW y, SameBut(x, y), y.m_state = x.m_state,
         Cmd(y) = Cmd(x), y.m_flags \cup {"FLASH_API_ERR_BUSY"} = x.m_flags \cup {"FLASH_API_ERR_BUSY"},
         NEW f
  PROVE  /\ Position(T, x) => Position(T, y)
         /\ Contents(x, f) => Contents(y, f)
         /\ \A M : Shows(T, x, f, M) => Shows(T, y, f, M)
         /\ \A op : IsOpOf(x, f, op) => IsOpOf(y, f, op)
<1>1. Cmd(y) = Cmd(x)
  OBVIOUS
<1>2. /\ y.m_swap_sub_state = x.m_swap_sub_state
      /\ y.m_head_word_size = x.m_head_word_size /\ y.m_tail_word_size = x.m_tail_word_size
      /\ y.m_current_page_id = x.m_current_page_id
      /\ y.m_num_of_bytes_written = x.m_num_of_bytes_written
      /\ y.m_app_data_size = x.m_app_data_size
  BY DEF SameBut
<1>3. ("TAIL_SWAP_DONE" \in y.m_flags <=> "TAIL_SWAP_DONE" \in x.m_flags)
      /\ ("SINGLE_PAGE_OPERATION" \in y.m_flags <=> "SINGLE_PAGE_OPERATION" \in x.m_flags)
  OBVIOUS
<1>4. ASSUME NEW c, NEW sub, NEW p, NEW h, NEW t, Place(c, sub, p, h, t, x.m_flags)
      PROVE  Place(c, sub, p, h, t, y.m_flags)
  BY <1>3, <1>4 DEF Place, CopyLast, WholePage
<1>5. Position(T, x) => Position(T, y)
  BY <1>1, <1>2, <1>4 DEF Position
<1>6. Contents(x, f) => Contents(y, f)
  BY <1>1, <1>2 DEF Contents
<1>7. \A a : SwappedIn(y, a) <=> SwappedIn(x, a)
  BY <1>1, <1>2 DEF SwappedIn
<1>8. \A M : Shows(T, x, f, M) => Shows(T, y, f, M)
  BY <1>1, <1>7 DEF Shows, Kept
<1>9. \A sub : SubOp(y, sub, f) = SubOp(x, sub, f)
  BY <1>1, <1>2 DEF SubOp
<1>10. \A op : IsOpOf(x, f, op) => IsOpOf(y, f, op)
  BY <1>1, <1>2, <1>9 DEF IsOpOf
<1> QED
  BY <1>5, <1>6, <1>8, <1>10

\* A machine in order calls for the operation of its place and is in order, or has failed.
LEMMA CallsIs ==
  ASSUME NEW T, TableOK(T), NEW x, Ready(T, x), Position(T, x),
         NEW f, NEW M, Contents(x, f), Shows(T, x, f, M), NEW op, IsOpOf(x, f, op),
         NEW y, Called(T, x, op, y)
  PROVE  EngineInv(T, y, f) /\ Proceeds(T, x.m_cmd_queue, M, y, f)
<1>1. /\ Sound(T, x) /\ x.m_cmd_queue # <<>> /\ x.sd \in {NoOp, Other} /\ ~Busy(x)
      /\ x.m_num_of_command_retries < SD_CMD_MAX_TRIES /\ x.m_state \in Running
  BY DEF Ready, Position
<1>2. IsEngine(y) /\ SameBut(x, y)
  BY DEF Called
<1>3. /\ y.m_swap_sub_state \in SubStates
      /\ y.m_head_word_size \in Nat /\ y.m_head_word_size < PageSize
      /\ y.m_tail_word_size \in Nat /\ y.m_tail_word_size < PageSize
      /\ y.m_current_page_id \in Nat /\ y.m_current_page_id <= PSTORAGE_NUM_OF_PAGES
      /\ y.m_num_of_command_retries \in Nat /\ y.m_num_of_command_retries <= SD_CMD_MAX_TRIES
      /\ y.m_num_of_command_retries < SD_CMD_MAX_TRIES
  BY <1>1, <1>2 DEF Sound, SameBut
<1>4. CASE /\ y.m_state = x.m_state /\ y.m_cmd_queue = x.m_cmd_queue /\ y.sent = x.sent
           /\ \/ y.sd = op /\ y.m_flags = x.m_flags
              \/ y.sd = Other /\ y.m_flags = x.m_flags \cup {"FLASH_API_ERR_BUSY"}
  <2>1. Position(T, y) /\ Contents(y, f) /\ Shows(T, y, f, M) /\ IsOpOf(y, f, op)
    <3>1. Cmd(y) = Cmd(x)
      BY <1>4 DEF Cmd
    <3>2. y.m_flags \cup {"FLASH_API_ERR_BUSY"} = x.m_flags \cup {"FLASH_API_ERR_BUSY"}
      BY <1>4
    <3> QED
      BY <1>2, <1>4, <3>1, <3>2, CarriedIs
  <2>2. y.m_flags \subseteq Flags
    BY <1>1, <1>4 DEF Sound, Flags
  <2>3. Sound(T, y)
    BY <1>1, <1>2, <1>3, <1>4, <2>2 DEF Sound
  <2>4. IF Busy(y) THEN y.sd = Other ELSE IsOpOf(y, f, y.sd)
    BY <1>1, <1>4, <2>1 DEF Busy
  <2>5. y.m_state \notin {"IDLE", "ERROR"}
    BY <1>1, <1>4 DEF Running
  <2>6. EngineInv(T, y, f)
    BY <1>1, <1>3, <1>4, <2>1, <2>3, <2>4, <2>5 DEF EngineInv
  <2> QED
    BY <1>1, <1>4, <2>1, <2>6 DEF Proceeds, GoesOn
<1>5. CASE /\ y.m_state = "ERROR" /\ y.sd = x.sd /\ y.m_flags = x.m_flags
           /\ Grew(T, x.m_cmd_queue, x.sent, y.m_cmd_queue, y.sent)
  <2>1. QueueOK(T, x.m_cmd_queue) /\ x.sent \in Nat /\ x.sent <= MaxCommands
        /\ (x.sent = 0 => x.m_cmd_queue = <<>>) /\ x.m_flags \subseteq Flags
    BY <1>1 DEF Sound
  <2>2. /\ QueueOK(T, y.m_cmd_queue) /\ y.sent \in Nat /\ y.sent <= MaxCommands
        /\ (y.sent = 0 => y.m_cmd_queue = <<>>)
        /\ y.m_cmd_queue # <<>> /\ Head(y.m_cmd_queue) = Head(x.m_cmd_queue)
    BY <1>1, <1>5, <2>1, GrewIs
  <2>3. Sound(T, y)
    BY <1>2, <1>3, <1>5, <2>1, <2>2 DEF Sound
  <2>4. EngineInv(T, y, f)
    BY <1>1, <1>5, <2>2, <2>3 DEF EngineInv, Running, Busy
  <2>5. SafeBut(T, Cmd(x), f, M)
    BY <1>1, SafeIs
  <2>6. Cmd(y) = Cmd(x)
    BY <2>2 DEF Cmd
  <2> QED
    BY <1>5, <2>4, <2>5, <2>6 DEF Proceeds
<1> QED
  BY <1>4, <1>5 DEF Called

(***************************************************************************)
(* The entry actions.                                                      *)
(***************************************************************************)
\* The data of a command is written (pstorage.c:371-399).
LEMMA StoreEntryIs ==
  ASSUME TableOK(m_app_table), NEW x, Ready(m_app_table, x),
         Cmd(x).op_code \in {"store", "update"}, x.m_app_data_size = Cmd(x).size,
         NEW f, NEW M, Cmd(x).op_code = "update" => Stored(Cmd(x), f),
         ShowsWith(m_app_table, Cmd(x), f, M), NEW y \in StoreEntry(x)
  PROVE  EngineInv(m_app_table, y, f) /\ Proceeds(m_app_table, x.m_cmd_queue, M, y, f)
<1> DEFINE T == m_app_table
           v == [x EXCEPT !.m_state = "STORE"]
           z == [x EXCEPT !.m_state = "STORE", !.m_num_of_bytes_written = StoreSize(Cmd(x))]
           op == StoreOp(Cmd(x))
<1>1. Sound(T, x) /\ IsEngine(x) /\ x.m_cmd_queue # <<>>
  BY DEF Ready, Sound
<1>2. PICK w \in FlashCall(v, op) : y = [w EXCEPT !.m_num_of_bytes_written = StoreSize(Cmd(x))]
  BY DEF StoreEntry
<1>3. /\ IsEngine(v) /\ v.m_state = "STORE" /\ v.m_cmd_queue = x.m_cmd_queue
      /\ v.sent = x.sent /\ v.sd = x.sd /\ v.m_flags = x.m_flags /\ SameBut(x, v)
  BY <1>1 DEF IsEngine, Fields, SameBut
<1>4. /\ IsEngine(z) /\ z.m_state = "STORE" /\ z.m_cmd_queue = x.m_cmd_queue
      /\ z.sent = x.sent /\ z.sd = x.sd /\ z.m_flags = x.m_flags
      /\ z.m_swap_sub_state = x.m_swap_sub_state
      /\ z.m_head_word_size = x.m_head_word_size /\ z.m_tail_word_size = x.m_tail_word_size
      /\ z.m_current_page_id = x.m_current_page_id
      /\ z.m_num_of_command_retries = x.m_num_of_command_retries
      /\ z.m_num_of_bytes_written = StoreSize(Cmd(x))
      /\ z.m_app_data_size = x.m_app_data_size
  BY <1>1 DEF IsEngine, Fields
<1> HIDE DEF v, z, op
<1>5. Ready(T, v) /\ Ready(T, z)
  <2>1. Ready(T, v)
    BY <1>3 DEF Ready, Sound, SameBut, Busy
  <2>2. Ready(T, z)
    BY <1>4 DEF Ready, Sound, Busy
  <2> QED
    BY <2>1, <2>2
<1>6. Called(T, v, op, w)
  BY <1>2, <1>5, FlashCallIs
<1>7. Called(T, z, op, y)
  <2>1. IsEngine(w) /\ SameBut(v, w)
    BY <1>6 DEF Called
  <2>2. /\ IsEngine(y) /\ y.m_state = w.m_state /\ y.m_cmd_queue = w.m_cmd_queue
        /\ y.sent = w.sent /\ y.sd = w.sd /\ y.m_flags = w.m_flags
        /\ y.m_swap_sub_state = w.m_swap_sub_state
        /\ y.m_head_word_size = w.m_head_word_size /\ y.m_tail_word_size = w.m_tail_word_size
        /\ y.m_current_page_id = w.m_current_page_id
        /\ y.m_num_of_command_retries = w.m_num_of_command_retries
        /\ y.m_num_of_bytes_written = StoreSize(Cmd(x))
        /\ y.m_app_data_size = w.m_app_data_size
    BY <1>2, <2>1 DEF IsEngine, Fields
  <2>3. SameBut(z, y)
    BY <1>3, <1>4, <2>1, <2>2 DEF SameBut
  <2> QED
    BY <1>3, <1>4, <1>6, <2>2, <2>3 DEF Called
<1>8. Cmd(z) = Cmd(x)
  BY <1>4 DEF Cmd
<1>9. StoreSize(Cmd(x)) = Cmd(x).size
  <2>1. Legal(T, Cmd(x)) /\ Cmd(x) \in CommandSet
    BY <1>1, CmdIs DEF Sound
  <2>2. Cmd(x).size <= PageSize
    BY <2>1 DEF Legal
  <2> QED
    BY <2>1, <2>2, StoreOpIs
<1>10. Position(T, z)
  BY <1>4, <1>8, <1>9 DEF Position, Running
<1>11. Contents(z, f)
  BY <1>4, <1>8 DEF Contents
<1>12. Shows(T, z, f, M)
  BY <1>4, <1>8 DEF Shows, ShowsWith, Kept, SwappedIn, Running
<1>13. IsOpOf(z, f, op)
  BY <1>4, <1>8 DEF IsOpOf, op
<1> QED
  BY <1>4, <1>5, <1>7, <1>10, <1>11, <1>12, <1>13, CallsIs

\* Erasing pages as a whole (pstorage.c:465-468).
LEMMA DataEraseEntryIs ==
  ASSUME TableOK(m_app_table), NEW x, Ready(m_app_table, x),
         Cmd(x).op_code \in {"update", "clear"}, x.m_app_data_size = Cmd(x).size,
         Whole(m_app_table, Cmd(x)), x.m_tail_word_size = 0,
         First(Cmd(x)) <= x.m_current_page_id, x.m_current_page_id <= LastPage(Cmd(x)),
         NEW f, NEW M, Cleared(Cmd(x), x.m_current_page_id, f),
         ShowsWith(m_app_table, Cmd(x), f, M), NEW y \in DataEraseEntry(x)
  PROVE  EngineInv(m_app_table, y, f) /\ Proceeds(m_app_table, x.m_cmd_queue, M, y, f)
<1> DEFINE T == m_app_table
           z == [x EXCEPT !.m_state = "DATA_ERASE"]
           op == PageErase(x.m_current_page_id)
<1>1. Sound(T, x) /\ IsEngine(x)
  BY DEF Ready, Sound
<1>2. y \in FlashCall(z, op)
  BY DEF DataEraseEntry
<1>3. /\ IsEngine(z) /\ z.m_state = "DATA_ERASE" /\ z.m_cmd_queue = x.m_cmd_queue
      /\ z.sent = x.sent /\ z.sd = x.sd /\ z.m_flags = x.m_flags /\ SameBut(x, z)
  BY <1>1 DEF IsEngine, Fields, SameBut
<1> HIDE DEF z, op
<1>4. Ready(T, z)
  BY <1>3 DEF Ready, Sound, SameBut, Busy
<1>5. Called(T, z, op, y)
  BY <1>2, <1>4, FlashCallIs
<1>6. Cmd(z) = Cmd(x)
  BY <1>3 DEF Cmd
<1>7. Position(T, z)
  BY <1>3, <1>6 DEF Position, Running, SameBut
<1>8. Contents(z, f)
  BY <1>3, <1>6 DEF Contents, SameBut
<1>9. Shows(T, z, f, M)
  BY <1>3, <1>6 DEF Shows, ShowsWith, Kept, SwappedIn, Running
<1>10. IsOpOf(z, f, op)
  BY <1>3 DEF IsOpOf, op, SameBut
<1> QED
  BY <1>3, <1>4, <1>5, <1>7, <1>8, <1>9, <1>10, CallsIs

SwappedAt(c, sub, p, a) ==
  \/ sub = "ERASE_DATA_PAGE" /\ Page(a) = p
  \/ sub = "RESTORE_HEAD" /\ Page(a) = p - 1
  \/ sub = "RESTORE_TAIL" /\ Page(a) = LastPage(c) /\ a >= CmdEnd(c)
ShowsAt(T, c, sub, p, f, M) ==
  \A a \in DataWords :
    /\ ~IsOwned(T, a) => M[a] = Erased
    /\ IsOwned(T, a) => M[a] = IF a \in Span(c) THEN Result(c, a, f[a])
                               ELSE IF SwappedAt(c, sub, p, a) THEN SwapWord(f, a) ELSE f[a]
HeldAt(c, sub, p, f) ==
  /\ Cleared(c, p, f)
  /\ sub = "ERASE_SWAP" => Spare(c, p, f)
  /\ sub = "ERASE_DATA_PAGE" /\ p < LastPage(c) => Spare(c, p, f)
  /\ sub = "WRITE_DATA_TO_SWAP" => CopyBegun(p, f)
  /\ sub = "RESTORE_HEAD" => Restorable(First(c), 0, f)
  /\ sub = "RESTORE_TAIL" => Restorable(LastPage(c), CmdEnd(c), f)

\* Entering a sub-state whose place the machine has reached (pstorage.c:583-606).
LEMMA SubEntryIs ==
  ASSUME TableOK(m_app_table), NEW x, Ready(m_app_table, x), x.m_state = "DATA_ERASE_WITH_SWAP",
         Cmd(x).op_code \in {"update", "clear"}, x.m_app_data_size = Cmd(x).size,
         x.m_tail_word_size = TailIn(m_app_table, Cmd(x)), NEW sub \in SubStates,
         Place(Cmd(x), sub, x.m_current_page_id, x.m_head_word_size, x.m_tail_word_size, x.m_flags),
         NEW f, NEW M, HeldAt(Cmd(x), sub, x.m_current_page_id, f),
         ShowsAt(m_app_table, Cmd(x), sub, x.m_current_page_id, f, M), NEW y \in SubEntry(x, sub, f)
  PROVE  EngineInv(m_app_table, y, f) /\ Proceeds(m_app_table, x.m_cmd_queue, M, y, f)
<1> DEFINE T == m_app_table
           z == [x EXCEPT !.m_swap_sub_state = sub]
           op == SubOp(x, sub, f)
<1>1. Sound(T, x) /\ IsEngine(x)
  BY DEF Ready, Sound
<1>2. y \in FlashCall(z, op)
  BY DEF SubEntry
<1>3. /\ IsEngine(z) /\ z.m_state = x.m_state /\ z.m_cmd_queue = x.m_cmd_queue
      /\ z.sent = x.sent /\ z.sd = x.sd /\ z.m_flags = x.m_flags
      /\ z.m_swap_sub_state = sub
      /\ z.m_head_word_size = x.m_head_word_size /\ z.m_tail_word_size = x.m_tail_word_size
      /\ z.m_current_page_id = x.m_current_page_id
      /\ z.m_num_of_command_retries = x.m_num_of_command_retries
      /\ z.m_num_of_bytes_written = x.m_num_of_bytes_written
      /\ z.m_app_data_size = x.m_app_data_size
  BY <1>1 DEF IsEngine, Fields
<1> HIDE DEF z, op
<1>4. Ready(T, z)
  BY <1>3 DEF Ready, Sound, Busy
<1>5. Called(T, z, op, y)
  BY <1>2, <1>4, FlashCallIs
<1>6. Cmd(z) = Cmd(x)
  BY <1>3 DEF Cmd
<1>7. Position(T, z)
  BY <1>3, <1>6 DEF Position, Running
<1>8. Contents(z, f)
  BY <1>3, <1>6 DEF Contents, HeldAt
<1>9. Shows(T, z, f, M)
  <2>1. \A a : SwappedIn(z, a) <=> SwappedAt(Cmd(x), sub, x.m_current_page_id, a)
    BY <1>3, <1>6 DEF SwappedIn, SwappedAt
  <2>2. z.m_state \in Running
    BY <1>3 DEF Running
  <2> QED
    BY <1>6, <2>1, <2>2 DEF Shows, ShowsAt, Kept
<1>10. IsOpOf(z, f, op)
  <2>1. SubOp(z, sub, f) = op
    BY <1>3, <1>6 DEF SubOp, op
  <2> QED
    BY <1>3, <2>1 DEF IsOpOf
<1> QED
  BY <1>3, <1>4, <1>5, <1>7, <1>8, <1>9, <1>10, CallsIs

\* At its first page a command has no page behind it to be blank.
LEMMA ClearedFirst ==
  ASSUME NEW T, TableOK(T), NEW c, Legal(T, c), NEW f
  PROVE  Cleared(c, First(c), f)
<1> SUFFICES ASSUME NEW a \in Span(c), Page(a) < First(c) PROVE FALSE
  BY DEF Cleared
<1>1. Page(a) \in Nat /\ First(c) \in Nat /\ LastPage(c) \in Nat
  BY SpanOwned, WordIs, LegalIs
<1>2. Page(a) \in First(c) .. LastPage(c)
  BY <1>1, PagesOfSpan
<1> QED
  BY <1>1, <1>2

\* An address cut to a pstorage_size_t has lost whole pages only.
LEMMA AsSizeIs ==
  ASSUME NEW a \in Nat
  PROVE  \E w \in Nat, q \in Nat, j \in Nat, v \in Nat :
           /\ v = AsSize(a) /\ w = Page(v) /\ w < SizeRange
           /\ DataStart + Page(a) = w + q * SizeRange
           /\ j = a - At(Page(a)) /\ v = At(w) + j /\ j = v % PageSize /\ j = a % PageSize
<1>1. PICK z \in Nat, S \in Nat, D \in Nat :
        /\ z = PageSize /\ S = SizeRange /\ D = DataStart /\ z > 0 /\ S > 0
  BY PstorageAssumption
<1>2. PICK k \in Nat, j \in Nat : k = Page(a) /\ j = a - At(k) /\ j < z /\ j = a % PageSize
  <2>1. PICK k \in Nat, g \in Nat : /\ k = Page(a) /\ g = At(k) /\ g <= a /\ a < g + z
                                   /\ a % PageSize = a - g
    BY <1>1, PageIs
  <2>2. PICK j \in Nat : j = a - g
    BY <2>1
  <2> QED
    BY <1>1, <2>1, <2>2
<1>3. PICK m \in Nat : m = S * z /\ m > 0
  BY <1>1
<1>4. PICK u \in Nat : u = D * z + a
  BY <1>1
<1>5. PICK q \in Nat, v \in Nat : u = m * q + v /\ v < m /\ v = u % m
  <2>1. u = m * (u \div m) + (u % m) /\ u % m \in 0 .. m - 1 /\ u \div m \in Int
    BY <1>3, <1>4
  <2>2. u \div m >= 0
    BY <1>3, <1>4
  <2> QED
    BY <1>3, <2>1, <2>2
<1>6. v = AsSize(a)
  BY <1>1, <1>3, <1>4, <1>5 DEF AsSize
<1>7. PICK x \in Int : x = D + k - q * S
  BY <1>1, <1>2
<1>8. v = x * z + j
  <2>1. a = k * z + j
    <3>1. PICK g \in Nat : g = k * z
      BY <1>1
    <3>2. At(k) = g
      BY <1>1, <3>1 DEF At
    <3> QED
      BY <1>2, <3>1, <3>2
  <2>2. m * q = (q * S) * z
    BY <1>1, <1>3
  <2>3. PICK r \in Nat : r = q * S
    BY <1>1
  <2>4. x = D + k - r
    BY <1>7, <2>3
  <2>5. x * z = D * z + k * z - r * z
    BY <1>1, <1>2, <2>3, <2>4
  <2>6. u = D * z + (k * z + j) /\ u = r * z + v
    BY <1>4, <1>5, <2>1, <2>2, <2>3
  <2> QED
    BY <1>1, <1>2, <1>4, <1>5, <2>3, <2>5, <2>6
<1>9. x \in Nat
  <2> SUFFICES ASSUME x < 0 PROVE FALSE
    BY <1>7
  <2>1. PICK d \in Nat : x = -1 - d
    <3>1. -1 - x \in Nat /\ x = -1 - (-1 - x)
      BY <1>7
    <3> QED
      BY <3>1
  <2>2. x * z = -z - d * z /\ d * z >= 0
    BY <1>1, <2>1
  <2>3. PICK r \in Int, l \in Nat : r = x * z /\ l = d * z
    BY <1>1, <2>2
  <2>4. v = r + j /\ r = -z - l /\ j < z
    BY <1>2, <1>8, <2>2, <2>3
  <2> QED
    BY ONLY <2>4, v \in Nat, j \in Nat, z \in Nat, l \in Nat, r \in Int
<1>10. v = At(x) + j
  BY <1>1, <1>8 DEF At
<1>11. Page(v) = x /\ v % PageSize = j
  <2>1. Page(v) = x
    <3>1. At(x) \in Nat
      BY <1>9, AtIs
    <3>2. At(x) <= v /\ v < At(x) + PageSize
      BY <1>1, <1>2, <1>10, <3>1
    <3> QED
      BY <1>5, <1>9, <3>2, PageIsAt
  <2>2. v % PageSize = v - At(x)
    BY <1>5, <2>1, PageIs
  <2>3. At(x) \in Nat
    BY <1>9, AtIs
  <2> QED
    BY <1>2, <1>10, <2>1, <2>2, <2>3
<1>12. x < S
  <2> SUFFICES ASSUME S <= x PROVE FALSE
    BY <1>1, <1>9
  <2>1. PICK d \in Nat : x = S + d
    <3>1. x - S \in Nat /\ x = S + (x - S)
      BY <1>1, <1>9
    <3> QED
      BY <3>1
  <2>2. x * z = S * z + d * z /\ d * z >= 0
    BY <1>1, <2>1
  <2>3. PICK r \in Int, l \in Nat : r = x * z /\ l = d * z
    BY <1>1, <2>2
  <2>4. v = r + j /\ r = m + l /\ v < m
    BY <1>3, <1>5, <1>8, <2>2, <2>3
  <2> QED
    BY ONLY <2>4, v \in Nat, j \in Nat, m \in Nat, l \in Nat, r \in Int
<1>13. DataStart + Page(a) = x + q * SizeRange
  <2>1. PICK r \in Nat : r = q * S
    BY <1>1
  <2> QED
    BY <1>1, <1>2, <1>7, <1>9, <2>1
<1> QED
  BY <1>1, <1>2, <1>5, <1>6, <1>9, <1>10, <1>11, <1>12, <1>13

\* Multiples of a number are equal or at least that number apart.
LEMMA MultiplesApart ==
  ASSUME NEW S \in Nat, NEW m \in Nat, NEW n \in Nat
  PROVE  \E a \in Nat, b \in Nat : /\ a = m * S /\ b = n * S
                                  /\ (a = b \/ a + S <= b \/ b + S <= a)
<1>1. ASSUME NEW i \in Nat, NEW k \in Nat, i < k
      PROVE  i * S + S <= k * S
  <2>1. PICK d \in Nat : k = (i + 1) + d
    <3>1. k - (i + 1) \in Nat /\ k = (i + 1) + (k - (i + 1))
      BY <1>1
    <3> QED
      BY <3>1
  <2>2. k * S = (i * S + S) + d * S /\ d * S >= 0
    BY <2>1
  <2> QED
    BY <2>2
<1>2. PICK a \in Nat, b \in Nat : a = m * S /\ b = n * S
  OBVIOUS
<1>3. \/ a = b
      \/ a + S <= b
      \/ b + S <= a
  <2>1. m = n \/ m < n \/ n < m
    OBVIOUS
  <2>2. m < n => a + S <= b
    BY <1>1, <1>2
  <2>3. n < m => b + S <= a
    BY <1>1, <1>2
  <2> QED
    BY <1>2, <2>1, <2>2, <2>3
<1> QED
  BY <1>2, <1>3

\* The size of the tail, as the code computes it from the table.
LEMMA TailWordIs ==
  ASSUME TableOK(m_app_table), NEW c, Legal(m_app_table, c)
  PROVE  TailWordSize(c) = TailIn(m_app_table, c)
<1>1. PICK n \in Nat, end \in Nat :
        /\ n = CmdEnd(c) /\ end = EndIn(m_app_table, c.module_id) /\ end <= SwapAddr
        /\ end = EndOfStorage(c.module_id) /\ n <= end
  <2>1. EndIn(m_app_table, c.module_id) = EndOfStorage(c.module_id)
    BY DEF EndOfStorage, EndIn, BlockSize
  <2>2. c.module_id \in 1 .. Len(m_app_table)
    BY DEF Legal
  <2>3. EndIn(m_app_table, c.module_id) \in Nat /\ EndIn(m_app_table, c.module_id) <= SwapAddr
    BY <2>2, ModuleIs
  <2>4. \E n \in Nat : n = CmdEnd(c) /\ n <= EndIn(m_app_table, c.module_id)
    BY LegalIs
  <2> QED
    BY <2>1, <2>3, <2>4
<1>2. PICK w \in Nat, q \in Nat, j \in Nat, v \in Nat :
        /\ v = AsSize(n) /\ w = Page(v) /\ w < SizeRange
        /\ DataStart + Page(n) = w + q * SizeRange
        /\ j = n - At(Page(n)) /\ v = At(w) + j /\ j = v % PageSize /\ j = n % PageSize
  BY AsSizeIs
<1>3. PICK w2 \in Nat, q2 \in Nat, j2 \in Nat, v2 \in Nat :
        /\ v2 = AsSize(end) /\ w2 = Page(v2) /\ w2 < SizeRange
        /\ DataStart + Page(end) = w2 + q2 * SizeRange
        /\ j2 = end - At(Page(end)) /\ v2 = At(w2) + j2 /\ j2 = v2 % PageSize /\ j2 = end % PageSize
  BY AsSizeIs
<1>4. PICK k \in Nat, k2 \in Nat : k = Page(n) /\ k2 = Page(end)
  BY PageIs
<1>5. PICK N \in Nat, S \in Nat, D \in Nat :
        N = PSTORAGE_NUM_OF_PAGES /\ S = SizeRange /\ D = DataStart /\ N < S
  BY PstorageAssumption
<1>6. k <= k2
  BY <1>1, <1>4, PageGrows
<1>7. k2 <= N
  <2> SUFFICES ASSUME N < k2 PROVE FALSE
    BY <1>4, <1>5
  <2>1. At(N) + PageSize <= At(k2)
    BY <1>5, AtGrows
  <2>2. At(k2) <= end /\ At(k2) \in Nat
    BY <1>4, PageIs
  <2> QED
    BY <1>1, <1>5, <2>1, <2>2, SwapIs
<1>8. k = k2 <=> w = w2
  <2>1. PICK a \in Nat, b \in Nat : /\ a = q * S /\ b = q2 * S
                                   /\ (a = b \/ a + S <= b \/ b + S <= a)
    BY MultiplesApart
  <2>2. D + k = w + a /\ D + k2 = w2 + b /\ w < S /\ w2 < S
    BY <1>2, <1>3, <1>4, <1>5, <2>1
  <2>3. k < S /\ k2 < S
    BY <1>5, <1>6, <1>7
  <2> QED
    BY <2>1, <2>2, <2>3
<1>9. ASSUME w = w2 PROVE v2 - v = end - n
  <2>1. PICK g \in Nat, h \in Nat : g = At(w) /\ h = At(k)
    BY <1>4, AtIs
  <2>2. v = g + j /\ v2 = g + j2 /\ j = n - h /\ j2 = end - h
    BY <1>2, <1>3, <1>4, <1>8, <1>9, <2>1
  <2> QED
    BY <1>1, <1>2, <1>3, <2>1, <2>2
<1>10. TailWordSize(c) = IF n = end \/ n % PageSize = 0 THEN 0
                         ELSE IF w2 = w THEN v2 - v ELSE PageSize - j
  BY <1>1, <1>2, <1>3 DEF TailWordSize
<1>11. TailIn(m_app_table, c) = IF n = end \/ n % PageSize = 0 THEN 0
                                ELSE IF k2 = k THEN end - n ELSE PageSize - j
  BY <1>1, <1>2, <1>4 DEF TailIn
<1> QED
  BY <1>8, <1>9, <1>10, <1>11

\* A page that is erased as a whole has no word of anybody else.
LEMMA NoneOnWholePage ==
  ASSUME NEW T, TableOK(T), NEW c, Legal(T, c), NEW p \in Nat, NEW h, NEW t, NEW fl,
         WholePage(c, p, h, t, fl), t = TailIn(T, c), NEW a, IsOwned(T, a), a \notin Span(c)
  PROVE  Page(a) # p
<1> SUFFICES ASSUME Page(a) = p PROVE FALSE
  OBVIOUS
<1>1. /\ First(c) <= p /\ p <= LastPage(c) /\ First(c) < LastPage(c)
      /\ p = First(c) => At(First(c)) = Start(c)
      /\ p = LastPage(c) => t = 0
  BY DEF WholePage
<1>2. PICK s \in Nat, n \in Nat : /\ s = Start(c) /\ n = CmdEnd(c)
                                  /\ First(c) \in Nat /\ LastPage(c) \in Nat
  BY LegalIs
<1>3. Page(a) \in First(c) .. LastPage(c)
  BY <1>1, <1>2
<1>4. \/ Page(a) = First(c) /\ a < s
      \/ Page(a) = LastPage(c) /\ n <= a /\ a < n + t
  BY <1>2, <1>3, Outside
<1>5. a \in Nat /\ At(Page(a)) <= a /\ At(Page(a)) \in Nat
  BY PageIs DEF IsOwned
<1>6. CASE Page(a) = First(c) /\ a < s
  BY <1>1, <1>2, <1>5, <1>6
<1>7. CASE Page(a) = LastPage(c) /\ n <= a /\ a < n + t
  <2>1. t = 0
    BY <1>1, <1>7
  <2> QED
    BY <1>2, <1>5, <1>7, <2>1
<1> QED
  BY <1>4, <1>6, <1>7

\* Nothing is in the swap page only when a page is erased as a whole.
LEMMA WithoutSwap ==
  ASSUME NEW T, TableOK(T), NEW c, Legal(T, c), NEW p \in Nat, NEW h, NEW t, NEW fl,
         t = TailIn(T, c), NEW sub,
         \/ sub \in {"ERASE_SWAP", "WRITE_DATA_TO_SWAP"}
         \/ sub = "ERASE_DATA_PAGE" /\ WholePage(c, p, h, t, fl),
         NEW f, NEW M, ShowsWith(T, c, f, M)
  PROVE  ShowsAt(T, c, sub, p, f, M)
<1> SUFFICES ASSUME NEW a \in DataWords, IsOwned(T, a), a \notin Span(c)
             PROVE  ~SwappedAt(c, sub, p, a)
  BY DEF ShowsAt, ShowsWith
<1>1. CASE sub \in {"ERASE_SWAP", "WRITE_DATA_TO_SWAP"}
  BY <1>1 DEF SwappedAt
<1>2. CASE sub = "ERASE_DATA_PAGE" /\ WholePage(c, p, h, t, fl)
  <2>1. Page(a) # p
    BY <1>2, NoneOnWholePage
  <2> QED
    BY <1>2, <2>1 DEF SwappedAt
<1> QED
  BY <1>1, <1>2

\* The beginning of a clear or update of part of a page (pstorage.c:410-447).
LEMMA SwapEntryIs ==
  ASSUME TableOK(m_app_table), NEW x, Ready(m_app_table, x),
         Cmd(x).op_code \in {"update", "clear"}, x.m_app_data_size = Cmd(x).size,
         x.m_tail_word_size = TailIn(m_app_table, Cmd(x)),
         x.m_head_word_size = Start(Cmd(x)) % PageSize,
         NEW f, NEW M, ShowsWith(m_app_table, Cmd(x), f, M), NEW y \in SwapEntry(x, f)
  PROVE  EngineInv(m_app_table, y, f) /\ Proceeds(m_app_table, x.m_cmd_queue, M, y, f)
<1> DEFINE T == m_app_table
           c == Cmd(x)
           single == Page(c.block_id) = Page(c.block_id + c.size - 1)
           fl == (x.m_flags \ {"TAIL_SWAP_DONE", "SINGLE_PAGE_OPERATION"})
                   \cup IF single THEN {"SINGLE_PAGE_OPERATION"} ELSE {}
           z == [x EXCEPT !.m_state = "DATA_ERASE_WITH_SWAP",
                          !.m_current_page_id = Page(c.block_id), !.m_flags = fl]
           sub == IF z.m_head_word_size = 0 /\ ~single THEN "ERASE_DATA_PAGE" ELSE "ERASE_SWAP"
<1>1. Sound(T, x) /\ IsEngine(x) /\ Legal(T, c)
  BY CmdIs DEF Ready, Sound
<1>2. y \in SubEntry(z, sub, f)
  BY DEF SwapEntry
<1>3. /\ IsEngine(z) /\ z.m_state = "DATA_ERASE_WITH_SWAP" /\ z.m_cmd_queue = x.m_cmd_queue
      /\ z.sent = x.sent /\ z.sd = x.sd /\ z.m_flags = fl
      /\ z.m_swap_sub_state = x.m_swap_sub_state
      /\ z.m_head_word_size = x.m_head_word_size /\ z.m_tail_word_size = x.m_tail_word_size
      /\ z.m_current_page_id = Page(c.block_id)
      /\ z.m_num_of_command_retries = x.m_num_of_command_retries
      /\ z.m_app_data_size = x.m_app_data_size
  <2> HIDE DEF fl
  <2> QED
    BY <1>1 DEF IsEngine, Fields
<1>4. single <=> First(c) = LastPage(c)
  BY <1>1, SingleIs
<1>5. /\ ("SINGLE_PAGE_OPERATION" \in fl <=> First(c) = LastPage(c))
      /\ "TAIL_SWAP_DONE" \notin fl /\ fl \subseteq Flags
      /\ ("FLASH_API_ERR_BUSY" \in fl <=> "FLASH_API_ERR_BUSY" \in x.m_flags)
  <2>1. x.m_flags \subseteq Flags
    BY <1>1 DEF Sound
  <2> QED
    BY <1>4, <2>1 DEF Flags
<1> HIDE DEF z, fl
<1>6. /\ Page(c.block_id) = First(c) /\ First(c) \in Nat /\ First(c) < PSTORAGE_NUM_OF_PAGES
      /\ First(c) <= LastPage(c) /\ LastPage(c) \in Nat
      /\ Start(c) \in Nat
  <2>1. \E b \in Nat, s \in Nat :
           /\ b = c.block_id /\ s = Start(c) /\ Page(b) = First(c) /\ First(c) <= LastPage(c)
           /\ First(c) \in Nat /\ LastPage(c) \in Nat /\ LastPage(c) < PSTORAGE_NUM_OF_PAGES
    BY <1>1, LegalIs
  <2> QED
    BY <2>1, SwapIs
<1>7. Start(c) % PageSize = Start(c) - At(First(c)) /\ At(First(c)) \in Nat
  BY <1>6, PageIs DEF First
<1>8. Ready(T, z)
  BY <1>3, <1>5, <1>6, SwapIs DEF Ready, Sound, Busy
<1>9. Cmd(z) = c
  BY <1>3 DEF Cmd
<1>10. sub = IF x.m_head_word_size = 0 /\ First(c) # LastPage(c) THEN "ERASE_DATA_PAGE" ELSE "ERASE_SWAP"
  BY <1>3, <1>4
<1> HIDE DEF sub, c
<1>11. PICK p \in Nat : p = First(c) /\ p = z.m_current_page_id
  BY <1>3, <1>6 DEF c
<1>12. PICK h \in Nat : h = x.m_head_word_size /\ h = Start(c) - At(First(c))
  BY <1>1, <1>7 DEF Sound, c
<1>13. CASE h = 0 /\ First(c) # LastPage(c)
  <2>1. sub = "ERASE_DATA_PAGE"
    BY <1>10, <1>12, <1>13
  <2>2. First(c) < LastPage(c) /\ At(First(c)) = Start(c)
    BY <1>6, <1>7, <1>12, <1>13
  <2>3. WholePage(c, p, h, x.m_tail_word_size, fl)
    BY <1>5, <1>6, <1>11, <1>13, <2>2 DEF WholePage
  <2>4. Place(c, sub, p, h, x.m_tail_word_size, fl)
    BY <1>5, <2>1, <2>3 DEF Place
  <2>5. ShowsAt(T, c, sub, p, f, M)
    BY <1>1, <2>1, <2>3, WithoutSwap DEF c
  <2>6. HeldAt(c, sub, p, f)
    <3>1. Spare(c, p, f)
      BY <1>6, <1>11 DEF Spare
    <3> QED
      BY <1>1, <1>11, <2>1, <3>1, ClearedFirst DEF HeldAt
  <2>7. sub \in SubStates
    BY <2>1 DEF SubStates
  <2> QED
    BY <1>2, <1>3, <1>8, <1>9, <1>11, <1>12, <2>4, <2>5, <2>6, <2>7, SubEntryIs DEF c
<1>14. CASE ~(h = 0 /\ First(c) # LastPage(c))
  <2>1. sub = "ERASE_SWAP"
    BY <1>10, <1>12, <1>14
  <2>2. CopyFirst(c, p, h)
    BY <1>11, <1>12, <1>14 DEF CopyFirst
  <2>4. Place(c, sub, p, h, x.m_tail_word_size, fl)
    BY <1>5, <2>1, <2>2 DEF Place
  <2>5. ShowsAt(T, c, sub, p, f, M)
    BY <1>1, <2>1, WithoutSwap DEF c
  <2>6. HeldAt(c, sub, p, f)
    <3>1. Spare(c, p, f)
      BY <1>6, <1>11 DEF Spare
    <3> QED
      BY <1>1, <1>11, <2>1, <3>1, ClearedFirst DEF HeldAt
  <2>7. sub \in SubStates
    BY <2>1 DEF SubStates
  <2> QED
    BY <1>2, <1>3, <1>8, <1>9, <1>11, <1>12, <2>4, <2>5, <2>6, <2>7, SubEntryIs DEF c
<1> QED
  BY <1>13, <1>14

\* The beginning of any clear or update (pstorage.c:1203-1258).
LEMMA ClearOperationIs ==
  ASSUME TableOK(m_app_table), NEW x, Ready(m_app_table, x),
         Cmd(x).op_code \in {"update", "clear"}, x.m_app_data_size = Cmd(x).size,
         NEW f, NEW M, ShowsWith(m_app_table, Cmd(x), f, M), NEW y \in ClearOperation(x, f)
  PROVE  EngineInv(m_app_table, y, f) /\ Proceeds(m_app_table, x.m_cmd_queue, M, y, f)
<1> DEFINE T == m_app_table
           c == Cmd(x)
           whole == /\ c.block_id % PageSize = 0
                    /\ c.size = PageSize \/ (CmdEnd(c) = EndOfStorage(c.module_id) /\ c.offset = 0)
           v == [x EXCEPT !.m_tail_word_size = 0, !.m_current_page_id = Page(c.block_id)]
           z == [x EXCEPT !.m_head_word_size = (c.block_id + c.offset) % PageSize,
                          !.m_tail_word_size = TailWordSize(c)]
<1>1. Sound(T, x) /\ IsEngine(x) /\ Legal(T, c)
  BY CmdIs DEF Ready, Sound
<1>2. /\ Page(c.block_id) = First(c) /\ First(c) \in Nat /\ First(c) < PSTORAGE_NUM_OF_PAGES
      /\ First(c) <= LastPage(c) /\ LastPage(c) \in Nat
      /\ Start(c) \in Nat
  <2>1. \E b \in Nat, s \in Nat :
           /\ b = c.block_id /\ s = Start(c) /\ Page(b) = First(c) /\ First(c) <= LastPage(c)
           /\ First(c) \in Nat /\ LastPage(c) \in Nat /\ LastPage(c) < PSTORAGE_NUM_OF_PAGES
    BY <1>1, LegalIs
  <2> QED
    BY <2>1, SwapIs
<1>3. CASE whole /\ y \in DataEraseEntry(v)
  <2>1. /\ IsEngine(v) /\ v.m_state = x.m_state /\ v.m_cmd_queue = x.m_cmd_queue
        /\ v.sent = x.sent /\ v.sd = x.sd /\ v.m_flags = x.m_flags
        /\ v.m_swap_sub_state = x.m_swap_sub_state
        /\ v.m_head_word_size = x.m_head_word_size /\ v.m_tail_word_size = 0
        /\ v.m_current_page_id = Page(c.block_id)
        /\ v.m_num_of_command_retries = x.m_num_of_command_retries
        /\ v.m_app_data_size = x.m_app_data_size
    <3> HIDE DEF c
    <3> QED
      BY <1>1 DEF IsEngine, Fields
  <2> HIDE DEF v
  <2>2. Ready(T, v)
    BY <1>2, <2>1, SwapIs DEF Ready, Sound, Busy
  <2>3. Cmd(v) = c
    BY <2>1 DEF Cmd
  <2>4. Whole(T, c)
    <3>1. EndOfStorage(c.module_id) = EndIn(T, c.module_id)
      BY DEF EndOfStorage, EndIn, BlockSize
    <3> HIDE DEF c
    <3> QED
      BY <1>1, <1>3, <3>1, WholeIs
  <2>5. Cleared(c, v.m_current_page_id, f)
    BY <1>1, <1>2, <2>1, ClearedFirst
  <2> HIDE DEF c
  <2> QED
    BY <1>2, <1>3, <2>1, <2>2, <2>3, <2>4, <2>5, DataEraseEntryIs DEF c
<1>4. CASE y \in SwapEntry(z, f)
  <2>1. /\ IsEngine(z) /\ z.m_state = x.m_state /\ z.m_cmd_queue = x.m_cmd_queue
        /\ z.sent = x.sent /\ z.sd = x.sd /\ z.m_flags = x.m_flags
        /\ z.m_swap_sub_state = x.m_swap_sub_state
        /\ z.m_head_word_size = (c.block_id + c.offset) % PageSize
        /\ z.m_tail_word_size = TailWordSize(c)
        /\ z.m_current_page_id = x.m_current_page_id
        /\ z.m_num_of_command_retries = x.m_num_of_command_retries
        /\ z.m_app_data_size = x.m_app_data_size
    <3> HIDE DEF c
    <3> QED
      BY <1>1 DEF IsEngine, Fields
  <2> HIDE DEF z
  <2>2. z.m_head_word_size = Start(c) % PageSize /\ z.m_tail_word_size = TailIn(T, c)
    <3>1. TailWordSize(c) = TailIn(T, c)
      BY <1>1, TailWordIs
    <3> QED
      BY <2>1, <3>1 DEF Start
  <2>3. Start(c) % PageSize \in Nat /\ Start(c) % PageSize < PageSize
    BY <1>2, SwapIs
  <2>4. TailIn(T, c) \in Nat /\ TailIn(T, c) < PageSize
    BY <1>1, TailIs
  <2>5. Ready(T, z)
    BY <2>1, <2>2, <2>3, <2>4 DEF Ready, Sound, Busy
  <2>6. Cmd(z) = c
    BY <2>1 DEF Cmd
  <2> HIDE DEF c
  <2> QED
    BY <1>4, <2>1, <2>2, <2>5, <2>6, SwapEntryIs DEF c
<1> QED
  BY <1>3, <1>4 DEF ClearOperation

\* The beginning of any command (pstorage.c:1279-1302).
LEMMA CmdProcessIs ==
  ASSUME TableOK(m_app_table), NEW x, Ready(m_app_table, x), NEW f, NEW M,
         ShowsWith(m_app_table, Cmd(x), f, M), NEW y \in CmdProcess(x, f)
  PROVE  EngineInv(m_app_table, y, f) /\ Proceeds(m_app_table, x.m_cmd_queue, M, y, f)
<1> DEFINE T == m_app_table
           z == [x EXCEPT !.m_app_data_size = Cmd(x).size]
<1>1. Sound(T, x) /\ IsEngine(x)
  BY DEF Ready, Sound
<1>2. /\ IsEngine(z) /\ z.m_state = x.m_state /\ z.m_cmd_queue = x.m_cmd_queue
      /\ z.sent = x.sent /\ z.sd = x.sd /\ z.m_flags = x.m_flags
      /\ z.m_swap_sub_state = x.m_swap_sub_state
      /\ z.m_head_word_size = x.m_head_word_size /\ z.m_tail_word_size = x.m_tail_word_size
      /\ z.m_current_page_id = x.m_current_page_id
      /\ z.m_num_of_command_retries = x.m_num_of_command_retries
      /\ z.m_app_data_size = Cmd(x).size
  BY <1>1 DEF IsEngine, Fields
<1>3. IF Cmd(x).op_code = "store" THEN y \in StoreEntry(z) ELSE y \in ClearOperation(z, f)
  BY DEF CmdProcess
<1> HIDE DEF z
<1>4. Ready(T, z)
  BY <1>2 DEF Ready, Sound, Busy
<1>5. Cmd(z) = Cmd(x)
  BY <1>2 DEF Cmd
<1>6. Cmd(x).op_code \in {"store", "update", "clear"}
  <2>1. Cmd(x) \in CommandSet
    BY <1>1, CmdIs DEF Ready, Sound
  <2> QED
    BY <2>1, CommandFields
<1>7. CASE Cmd(x).op_code = "store"
  BY <1>2, <1>3, <1>4, <1>5, <1>7, StoreEntryIs
<1>8. CASE Cmd(x).op_code \in {"update", "clear"}
  BY <1>2, <1>3, <1>4, <1>5, <1>8, ClearOperationIs
<1> QED
  BY <1>6, <1>7, <1>8

\* IDLE is entered: the next command begins at once, if there is one (pstorage.c:305-312).
LEMMA IdleEntryIs ==
  ASSUME TableOK(m_app_table), NEW x, Sound(m_app_table, x), x.sd \in {NoOp, Other}, ~Busy(x),
         NEW f, NEW M, AtRest(m_app_table, f, M), NEW y \in IdleEntry(x, f)
  PROVE  /\ EngineInv(m_app_table, y, f)
         /\ \/ y.m_state = "ERROR" /\ SafeBut(m_app_table, Cmd(y), f, M)
            \/ y.m_cmd_queue = x.m_cmd_queue /\ Started(m_app_table, y, f)
<1> DEFINE T == m_app_table
           z == [x EXCEPT !.m_state = "IDLE", !.m_num_of_command_retries = 0,
                          !.m_num_of_bytes_written = 0]
<1>1. IsEngine(x)
  BY DEF Sound
<1>2. /\ IsEngine(z) /\ z.m_state = "IDLE" /\ z.m_cmd_queue = x.m_cmd_queue
      /\ z.sent = x.sent /\ z.sd = x.sd /\ z.m_flags = x.m_flags
      /\ z.m_swap_sub_state = x.m_swap_sub_state
      /\ z.m_head_word_size = x.m_head_word_size /\ z.m_tail_word_size = x.m_tail_word_size
      /\ z.m_current_page_id = x.m_current_page_id
      /\ z.m_num_of_command_retries = 0
      /\ z.m_app_data_size = x.m_app_data_size
  BY <1>1 DEF IsEngine, Fields
<1>3. IF z.m_cmd_queue = <<>> THEN y = z ELSE y \in CmdProcess(z, f)
  BY DEF IdleEntry
<1> HIDE DEF z
<1>4. SD_CMD_MAX_TRIES \in Nat /\ 0 < SD_CMD_MAX_TRIES
  BY PstorageAssumption
<1>5. Sound(T, z) /\ ~Busy(z)
  BY <1>2, <1>4 DEF Sound, Busy
<1>6. CASE z.m_cmd_queue = <<>>
  BY <1>2, <1>3, <1>4, <1>5, <1>6 DEF EngineInv, Started, Running
<1>7. CASE z.m_cmd_queue # <<>>
  <2>1. Ready(T, z)
    BY <1>2, <1>4, <1>5, <1>7 DEF Ready
  <2>2. ASSUME NEW N, ShowsWith(T, Cmd(z), f, N)
        PROVE  EngineInv(T, y, f) /\ Proceeds(T, z.m_cmd_queue, N, y, f)
    BY <1>3, <1>7, <2>1, <2>2, CmdProcessIs
  <2> DEFINE N0 == [a \in DataWords |-> IF ~IsOwned(T, a) THEN Erased
                                        ELSE IF a \in Span(Cmd(z)) THEN Result(Cmd(z), a, f[a]) ELSE f[a]]
  <2>3. ShowsWith(T, Cmd(z), f, N0)
    BY DEF ShowsWith
  <2> HIDE DEF N0
  <2>4. EngineInv(T, y, f) /\ Proceeds(T, z.m_cmd_queue, N0, y, f)
    BY <2>2, <2>3
  <2>5. CASE y.m_state = "ERROR"
    BY <2>4, <2>5 DEF SafeBut, AtRest
  <2>6. CASE y.m_state # "ERROR"
    <3>1. y.m_state \in Running /\ y.m_cmd_queue = z.m_cmd_queue
      BY <2>4, <2>6 DEF Proceeds, GoesOn
    <3>2. Cmd(y) = Cmd(z)
      BY <3>1 DEF Cmd
    <3>3. \A N : ShowsWith(T, Cmd(z), f, N) => Shows(T, y, f, N)
      BY <2>2, <2>6 DEF Proceeds, GoesOn
    <3> QED
      BY <1>2, <2>4, <3>1, <3>2, <3>3 DEF Started
  <2> QED
    BY <2>5, <2>6
<1> QED
  BY <1>6, <1>7

\* The queue without its head is in order.
LEMMA TailIsOK ==
  ASSUME NEW T, NEW q, QueueOK(T, q), q # <<>>
  PROVE  QueueOK(T, Tail(q))
<1>1. PICK s \in Seq(CommandSet) : s = q
  BY DEF QueueOK
<1> HIDE DEF CommandSet
<1>2. PICK k \in Nat : k = Len(s)
  BY <1>1
<1>3. k # 0
  BY <1>1, <1>2
<1>4. Tail(s) \in Seq(CommandSet) /\ Len(Tail(s)) = k - 1 /\ \A i \in 1 .. k - 1 : Tail(s)[i] = s[i + 1]
  BY <1>1, <1>2, <1>3
<1>5. Len(Tail(s)) <= PSTORAGE_CMD_QUEUE_SIZE
  BY <1>1, <1>2, <1>4, PstorageAssumption DEF QueueOK
<1>6. ASSUME NEW i \in 1 .. k - 1 PROVE Legal(T, Tail(s)[i])
  <2>1. i + 1 \in 1 .. k
    BY <1>2
  <2>2. Legal(T, s[i + 1])
    BY <1>1, <1>2, <2>1 DEF QueueOK
  <2> QED
    BY <1>4, <2>2
<1>7. QueueOK(T, Tail(s))
  BY <1>4, <1>5, <1>6 DEF QueueOK
<1> QED
  BY <1>1, <1>7

\* A command is reported and leaves the queue (pstorage.c:290-298).
LEMMA CommandEndIs ==
  ASSUME TableOK(m_app_table), NEW x, Ready(m_app_table, x),
         NEW f, NEW M, AtRest(m_app_table, f, M), NEW y \in CommandEnd(x, f)
  PROVE  EngineInv(m_app_table, y, f) /\ Outcome(m_app_table, x.m_cmd_queue, M, y, f)
<1> DEFINE T == m_app_table
<1>1. Sound(T, x) /\ x.m_cmd_queue # <<>> /\ x.sd \in {NoOp, Other} /\ ~Busy(x)
  BY DEF Ready
<1>2. PICK w \in AppNotify(x) : y \in IdleEntry([w EXCEPT !.m_cmd_queue = Tail(@)], f)
  BY DEF CommandEnd
<1> DEFINE z == [w EXCEPT !.m_cmd_queue = Tail(@)]
<1>3. Notified(T, x, w)
  BY <1>1, AppNotifyIs
<1>4. /\ IsEngine(z) /\ z.m_state = w.m_state /\ z.m_cmd_queue = Tail(w.m_cmd_queue)
      /\ z.sent = w.sent /\ z.sd = w.sd /\ z.m_flags = w.m_flags
      /\ z.m_swap_sub_state = w.m_swap_sub_state
      /\ z.m_head_word_size = w.m_head_word_size /\ z.m_tail_word_size = w.m_tail_word_size
      /\ z.m_current_page_id = w.m_current_page_id
      /\ z.m_num_of_command_retries = w.m_num_of_command_retries
  BY <1>3 DEF Notified, IsEngine, Fields
<1> HIDE DEF z
<1>5. /\ QueueOK(T, w.m_cmd_queue) /\ w.sent \in Nat /\ w.sent <= MaxCommands
      /\ w.m_cmd_queue # <<>> /\ (w.sent = 0 => w.m_cmd_queue = <<>>)
  <2>1. Grew(T, x.m_cmd_queue, x.sent, w.m_cmd_queue, w.sent)
    BY <1>3 DEF Notified
  <2>2. QueueOK(T, x.m_cmd_queue) /\ x.sent \in Nat /\ x.sent <= MaxCommands
        /\ (x.sent = 0 => x.m_cmd_queue = <<>>)
    BY <1>1 DEF Sound
  <2> QED
    BY <1>1, <2>1, <2>2, GrewIs
<1>6. QueueOK(T, z.m_cmd_queue)
  BY <1>4, <1>5, TailIsOK
<1>7. Sound(T, z) /\ z.sd \in {NoOp, Other} /\ ~Busy(z)
  BY <1>1, <1>3, <1>4, <1>5, <1>6 DEF Sound, Notified, SameBut, Busy
<1>8. /\ EngineInv(T, y, f)
      /\ \/ y.m_state = "ERROR" /\ SafeBut(T, Cmd(y), f, M)
         \/ y.m_cmd_queue = z.m_cmd_queue /\ Started(T, y, f)
  BY <1>2, <1>7, IdleEntryIs DEF z
<1>9. Reported(x.m_cmd_queue, z.m_cmd_queue)
  <2>1. w.m_cmd_queue = x.m_cmd_queue \/ \E c \in CommandSet : w.m_cmd_queue = Append(x.m_cmd_queue, c)
    BY <1>3 DEF Notified, Grew
  <2> QED
    BY <1>4, <2>1 DEF Reported
<1> QED
  BY <1>8, <1>9 DEF Outcome, Proceeds

\* All words of the command are blank: it ends, or its data is written (pstorage.c:765-779).
LEMMA ClearPostIs ==
  ASSUME TableOK(m_app_table), NEW x, Ready(m_app_table, x),
         Cmd(x).op_code \in {"update", "clear"}, x.m_app_data_size = Cmd(x).size,
         NEW f, NEW M, \A a \in Span(Cmd(x)) : f[a] = Erased,
         ShowsWith(m_app_table, Cmd(x), f, M), NEW y \in ClearPostProcessing(x, f)
  PROVE  EngineInv(m_app_table, y, f) /\ Outcome(m_app_table, x.m_cmd_queue, M, y, f)
<1>1. CASE Cmd(x).op_code = "clear"
  <2>1. AtRest(m_app_table, f, M)
    BY <1>1, ResultIs DEF AtRest, ShowsWith
  <2>2. y \in CommandEnd(x, f)
    BY <1>1 DEF ClearPostProcessing
  <2> QED
    BY <2>1, <2>2, CommandEndIs
<1>2. CASE Cmd(x).op_code = "update"
  <2>1. y \in StoreEntry(x)
    BY <1>2 DEF ClearPostProcessing
  <2>2. Stored(Cmd(x), f)
    BY DEF Stored
  <2>3. EngineInv(m_app_table, y, f) /\ Proceeds(m_app_table, x.m_cmd_queue, M, y, f)
    BY <1>2, <2>1, <2>2, StoreEntryIs
  <2> QED
    BY <2>3 DEF Outcome
<1> QED
  BY <1>1, <1>2

\* The command whose size has been counted down is reported like the whole one.
LEMMA CommandEndSame ==
  ASSUME TableOK(m_app_table), NEW x, IsEngine(x), x.sent \in Nat, x.sent <= MaxCommands,
         NEW q \in Seq(CommandSet), q = x.m_cmd_queue, q # <<>>, NEW n \in Nat, NEW f
  PROVE  CommandEnd([x EXCEPT !.m_cmd_queue[1].size = n], f) \subseteq CommandEnd(x, f)
<1> DEFINE d == [q[1] EXCEPT !.size = n]
           r == [q EXCEPT ![1] = d]
           y == [x EXCEPT !.m_cmd_queue = r]
<1>1. [x EXCEPT !.m_cmd_queue[1].size = n] = y
  BY DEF IsEngine, Fields
<1>2. PICK k \in Nat : k = Len(q) /\ k # 0
  OBVIOUS
<1>3. q[1] \in CommandSet
  <2> HIDE DEF CommandSet
  <2> QED
    BY <1>2
<1>4. d \in CommandSet
  BY <1>3 DEF CommandSet
<1> HIDE DEF d, CommandSet
<1>5. r \in Seq(CommandSet) /\ Len(r) = k /\ \A i \in 1 .. k : i # 1 => r[i] = q[i]
  BY <1>2, <1>4
<1> HIDE DEF r
<1>6. Tail(r) = Tail(q)
  BY <1>2, <1>5
<1>7. \A c \in CommandSet : Tail(Append(r, c)) = Tail(Append(q, c))
  <2> TAKE c \in CommandSet
  <2>1. Append(r, c) \in Seq(CommandSet) /\ Append(q, c) \in Seq(CommandSet)
        /\ Len(Append(r, c)) = k + 1 /\ Len(Append(q, c)) = k + 1
        /\ \A i \in 1 .. k + 1 : i # 1 => Append(r, c)[i] = Append(q, c)[i]
    BY <1>2, <1>5
  <2> HIDE DEF r
  <2> QED
    BY <1>2, <2>1
<1>8. IsEngine(y) /\ y.m_cmd_queue = r /\ y.sent = x.sent
      /\ [y EXCEPT !.m_cmd_queue = Tail(@)] = [x EXCEPT !.m_cmd_queue = Tail(@)]
  BY <1>6 DEF IsEngine, Fields
<1> HIDE DEF y
<1> SUFFICES ASSUME NEW o \in CommandEnd(y, f) PROVE o \in CommandEnd(x, f)
  BY <1>1
<1>11. PICK w \in AppNotify(y) : o \in IdleEntry([w EXCEPT !.m_cmd_queue = Tail(@)], f)
  BY DEF CommandEnd
<1> SUFFICES \E v \in AppNotify(x) :
               [v EXCEPT !.m_cmd_queue = Tail(@)] = [w EXCEPT !.m_cmd_queue = Tail(@)]
  BY <1>11 DEF CommandEnd
<1>9. CASE w = y
  BY <1>8, <1>9 DEF AppNotify
<1>10. CASE /\ Len(y.m_cmd_queue) # PSTORAGE_CMD_QUEUE_SIZE /\ y.sent # MaxCommands
            /\ \E c \in Accepted(y.sent + 1) : w = [y EXCEPT !.m_cmd_queue = Append(@, c), !.sent = @ + 1]
  <2>1. PICK tag \in Nat : tag = x.sent + 1 /\ tag <= MaxCommands
    <3>1. PICK mc \in Nat : mc = MaxCommands
      BY PstorageAssumption
    <3> QED
      BY <1>8, <1>10, <3>1
  <2>2. PICK c \in Accepted(tag) : w = [y EXCEPT !.m_cmd_queue = Append(@, c), !.sent = @ + 1]
    BY <1>8, <1>10, <2>1
  <2>3. c \in CommandSet
    BY <2>1, AcceptedIsLegal DEF Legal
  <2> DEFINE v == [x EXCEPT !.m_cmd_queue = Append(@, c), !.sent = @ + 1]
  <2>4. v \in AppNotify(x)
    BY <1>2, <1>5, <1>8, <1>10, <2>1 DEF AppNotify
  <2>5. [v EXCEPT !.m_cmd_queue = Tail(@)] = [w EXCEPT !.m_cmd_queue = Tail(@)]
    <3>1. w = [y EXCEPT !.m_cmd_queue = Append(r, c), !.sent = x.sent + 1]
      BY <1>8, <2>2
    <3>2. Tail(Append(r, c)) = Tail(Append(q, c))
      BY <1>7, <2>3
    <3>3. PICK t : t = Tail(Append(q, c))
      OBVIOUS
    <3>4. PICK g : g = Append(q, c)
      OBVIOUS
    <3>5. PICK b : b = Append(r, c)
      OBVIOUS
    <3>6. v = [x EXCEPT !.m_cmd_queue = g, !.sent = x.sent + 1] /\ Tail(g) = t
      BY <3>3, <3>4
    <3>7. w = [y EXCEPT !.m_cmd_queue = b, !.sent = x.sent + 1] /\ Tail(b) = t
      BY <3>1, <3>2, <3>3, <3>5
    <3>8. y = [x EXCEPT !.m_cmd_queue = r]
      BY DEF y
    <3> HIDE DEF v
    <3> QED
      BY <3>6, <3>7, <3>8 DEF IsEngine, Fields
  <2> QED
    BY <2>4, <2>5
<1> QED
  BY <1>9, <1>10 DEF AppNotify

\* What the clients see, said of the place instead of the machine.
LEMMA ShowsIsAt ==
  ASSUME NEW T, NEW x, x.m_state = "DATA_ERASE_WITH_SWAP", NEW f, NEW M, Shows(T, x, f, M)
  PROVE  ShowsAt(T, Cmd(x), x.m_swap_sub_state, x.m_current_page_id, f, M)
<1>1. \A a : SwappedIn(x, a) <=> SwappedAt(Cmd(x), x.m_swap_sub_state, x.m_current_page_id, a)
  BY DEF SwappedIn, SwappedAt
<1>2. x.m_state \in Running
  BY DEF Running
<1> QED
  BY <1>1, <1>2 DEF Shows, ShowsAt, Kept

\* With nothing in the swap page the clients see the flash and the command.
LEMMA ShowsIsWith ==
  ASSUME NEW T, NEW x, x.m_state \in {"STORE", "DATA_ERASE"}, NEW f, NEW M, Shows(T, x, f, M)
  PROVE  ShowsWith(T, Cmd(x), f, M)
BY DEF Shows, ShowsWith, Kept, SwappedIn, Running

KeptAt(c, sub, p, f, a) == IF SwappedAt(c, sub, p, a) THEN SwapWord(f, a) ELSE f[a]

\* From one place to the next: the words nobody's command covers stay what they are.
LEMMA ShowsMoves ==
  ASSUME NEW T, NEW c, NEW sub, NEW p, NEW f, NEW M, ShowsAt(T, c, sub, p, f, M), NEW sub2, NEW p2,
         \A a \in DataWords : IsOwned(T, a) /\ a \notin Span(c)
                                => KeptAt(c, sub2, p2, f, a) = KeptAt(c, sub, p, f, a)
  PROVE  ShowsAt(T, c, sub2, p2, f, M)
BY DEF ShowsAt, KeptAt

\* Nothing is left in the swap page only: the clients see the flash and the command.
LEMMA ShowsAtLast ==
  ASSUME NEW T, NEW c, NEW sub, NEW p, NEW f, NEW M, ShowsAt(T, c, sub, p, f, M),
         \A a \in DataWords : IsOwned(T, a) /\ a \notin Span(c) => KeptAt(c, sub, p, f, a) = f[a]
  PROVE  ShowsWith(T, c, f, M)
BY DEF ShowsAt, ShowsWith, KeptAt

\* Beyond the last page of the command all of its words are blank.
LEMMA ClearedAll ==
  ASSUME NEW T, TableOK(T), NEW c, Legal(T, c), NEW p \in Nat, LastPage(c) < p, NEW f, Cleared(c, p, f)
  PROVE  \A a \in Span(c) : f[a] = Erased
<1> SUFFICES ASSUME NEW a \in Span(c) PROVE Page(a) < p
  BY DEF Cleared
<1>1. Page(a) \in Nat /\ First(c) \in Nat /\ LastPage(c) \in Nat
  BY SpanOwned, WordIs, LegalIs
<1>2. Page(a) \in First(c) .. LastPage(c)
  BY <1>1, PagesOfSpan
<1> QED
  BY <1>1, <1>2

\* The end of an operation: ready to go on, with what it was for achieved.
Ended(T, x, f, M) ==
  /\ Ready(T, x) /\ Position(T, x) /\ Contents(x, f) /\ Shows(T, x, f, M) /\ Done(T, x, f, M)

\* What is known of the machine when an operation has ended.
LEMMA EndedIs ==
  ASSUME NEW T, TableOK(T), NEW x, Ready(T, x), Position(T, x), NEW f, NEW M,
         Contents(x, f), Shows(T, x, f, M)
  PROVE  /\ Sound(T, x) /\ IsEngine(x) /\ x.m_cmd_queue # <<>> /\ Legal(T, Cmd(x))
         /\ x.m_app_data_size = Cmd(x).size /\ x.m_swap_sub_state \in SubStates
         /\ x.m_current_page_id \in Nat /\ x.m_head_word_size \in Nat /\ x.m_tail_word_size \in Nat
         /\ First(Cmd(x)) \in Nat /\ LastPage(Cmd(x)) \in Nat /\ First(Cmd(x)) <= LastPage(Cmd(x))
         /\ LastPage(Cmd(x)) < PSTORAGE_NUM_OF_PAGES
         /\ x.m_state = "DATA_ERASE_WITH_SWAP" =>
              /\ Cmd(x).op_code \in {"update", "clear"} /\ x.m_tail_word_size = TailIn(T, Cmd(x))
              /\ Place(Cmd(x), x.m_swap_sub_state, x.m_current_page_id, x.m_head_word_size,
                       x.m_tail_word_size, x.m_flags)
              /\ ShowsAt(T, Cmd(x), x.m_swap_sub_state, x.m_current_page_id, f, M)
              /\ HeldAt(Cmd(x), x.m_swap_sub_state, x.m_current_page_id, f)
<1>1. Sound(T, x) /\ IsEngine(x) /\ x.m_cmd_queue # <<>>
  BY DEF Ready, Sound
<1>2. Legal(T, Cmd(x)) /\ Cmd(x).op_code \in {"store", "update", "clear"}
  BY <1>1, CmdIs, CommandFields DEF Sound
<1>3. /\ First(Cmd(x)) \in Nat /\ LastPage(Cmd(x)) \in Nat /\ First(Cmd(x)) <= LastPage(Cmd(x))
      /\ LastPage(Cmd(x)) < PSTORAGE_NUM_OF_PAGES
  BY <1>2, LegalIs
<1>4. ASSUME x.m_state = "DATA_ERASE_WITH_SWAP"
      PROVE  /\ Cmd(x).op_code \in {"update", "clear"} /\ x.m_tail_word_size = TailIn(T, Cmd(x))
             /\ Place(Cmd(x), x.m_swap_sub_state, x.m_current_page_id, x.m_head_word_size,
                      x.m_tail_word_size, x.m_flags)
             /\ ShowsAt(T, Cmd(x), x.m_swap_sub_state, x.m_current_page_id, f, M)
             /\ HeldAt(Cmd(x), x.m_swap_sub_state, x.m_current_page_id, f)
  <2>1. Cmd(x).op_code \in {"update", "clear"}
    BY <1>2, <1>4 DEF Position
  <2>2. /\ x.m_tail_word_size = TailIn(T, Cmd(x))
        /\ Place(Cmd(x), x.m_swap_sub_state, x.m_current_page_id, x.m_head_word_size,
                 x.m_tail_word_size, x.m_flags)
    BY <1>4 DEF Position
  <2>3. HeldAt(Cmd(x), x.m_swap_sub_state, x.m_current_page_id, f)
    BY <1>4 DEF Contents, HeldAt
  <2> QED
    BY <1>4, <2>1, <2>2, <2>3, ShowsIsAt
<1>5. /\ x.m_app_data_size = Cmd(x).size /\ x.m_swap_sub_state \in SubStates
      /\ x.m_current_page_id \in Nat /\ x.m_head_word_size \in Nat /\ x.m_tail_word_size \in Nat
  BY <1>1 DEF Position, Sound
<1> QED
  BY <1>1, <1>2, <1>3, <1>4, <1>5

(***************************************************************************)
(* The same operation once more, and what follows its success.             *)
(***************************************************************************)
\* A call repeated in the state the machine is in (pstorage.c:473-501).
LEMMA AgainIs ==
  ASSUME TableOK(m_app_table), NEW x, Ready(m_app_table, x), Position(m_app_table, x), NEW f, NEW M,
         Contents(x, f), Shows(m_app_table, x, f, M), NEW y \in Again(x, f)
  PROVE  EngineInv(m_app_table, y, f) /\ Outcome(m_app_table, x.m_cmd_queue, M, y, f)
<1> DEFINE T == m_app_table
           c == Cmd(x)
<1> SUFFICES EngineInv(T, y, f) /\ Proceeds(T, x.m_cmd_queue, M, y, f)
  BY DEF Outcome
<1>1. /\ x.m_state \in Running /\ Legal(T, c) /\ x.m_app_data_size = c.size
      /\ c.op_code \in {"store", "update", "clear"} /\ x.m_swap_sub_state \in SubStates
  BY EndedIs, CommandFields DEF Position, Legal
<1>2. CASE x.m_state = "STORE"
  <2>1. y \in StoreEntry(x)
    BY <1>2 DEF Again
  <2>2. c.op_code \in {"store", "update"}
    BY <1>1, <1>2 DEF Position
  <2>3. c.op_code = "update" => Stored(c, f)
    BY <1>2 DEF Contents
  <2>4. ShowsWith(T, c, f, M)
    BY <1>2, ShowsIsWith
  <2> QED
    BY <1>1, <2>1, <2>2, <2>3, <2>4, StoreEntryIs
<1>3. CASE x.m_state = "DATA_ERASE"
  <2>1. y \in DataEraseEntry(x)
    BY <1>3 DEF Again
  <2>2. /\ c.op_code \in {"update", "clear"} /\ Whole(T, c) /\ x.m_tail_word_size = 0
        /\ First(c) <= x.m_current_page_id /\ x.m_current_page_id <= LastPage(c)
    BY <1>1, <1>3 DEF Position
  <2>3. Cleared(c, x.m_current_page_id, f)
    BY <1>3 DEF Contents
  <2>4. ShowsWith(T, c, f, M)
    BY <1>3, ShowsIsWith
  <2> QED
    BY <1>1, <2>1, <2>2, <2>3, <2>4, DataEraseEntryIs
<1>4. CASE x.m_state = "DATA_ERASE_WITH_SWAP"
  <2>1. y \in SubEntry(x, x.m_swap_sub_state, f)
    BY <1>4 DEF Again
  <2>2. /\ c.op_code \in {"update", "clear"} /\ x.m_tail_word_size = TailIn(T, c)
        /\ Place(c, x.m_swap_sub_state, x.m_current_page_id, x.m_head_word_size,
                 x.m_tail_word_size, x.m_flags)
        /\ ShowsAt(T, c, x.m_swap_sub_state, x.m_current_page_id, f, M)
        /\ HeldAt(c, x.m_swap_sub_state, x.m_current_page_id, f)
    BY <1>4, EndedIs
  <2> QED
    BY <1>1, <1>4, <2>1, <2>2, SubEntryIs
<1> QED
  BY <1>1, <1>2, <1>3, <1>4 DEF Running

\* The data is written (pstorage.c:1047-1070).
LEMMA AfterStoreIs ==
  ASSUME TableOK(m_app_table), NEW x, x.m_state = "STORE", NEW f, NEW M, Ended(m_app_table, x, f, M),
         NEW y \in AfterStore(x, f)
  PROVE  EngineInv(m_app_table, y, f) /\ Outcome(m_app_table, x.m_cmd_queue, M, y, f)
<1> DEFINE T == m_app_table
           z == [x EXCEPT !.m_cmd_queue[1].size = 0]
<1>1. Sound(T, x) /\ IsEngine(x) /\ x.m_cmd_queue # <<>> /\ Ready(T, x) /\ AtRest(T, f, M)
  BY DEF Ended, Ready, Sound, Done
<1>2. x.m_num_of_bytes_written = Cmd(x).size
  BY DEF Ended, Position
<1>3. PICK q \in Seq(CommandSet) : q = x.m_cmd_queue /\ q # <<>>
  BY <1>1 DEF Sound, QueueOK
<1>4. Len(q) \in Nat /\ Len(q) # 0 /\ Head(q) = q[1] /\ q[1] \in CommandSet
  <2> HIDE DEF CommandSet
  <2> QED
    BY <1>3
<1>5. q[1].size \in Nat /\ Cmd(x) = q[1]
  BY <1>3, <1>4, CommandFields DEF Cmd
<1>6. [x EXCEPT !.m_cmd_queue[1].size = @ - x.m_num_of_bytes_written] = z
  <2>1. x.m_cmd_queue[1].size - x.m_num_of_bytes_written = 0
    BY <1>2, <1>3, <1>5
  <2> QED
    BY <2>1
<1>7. Cmd(z).size = 0
  <2> DEFINE d == [q[1] EXCEPT !.size = 0]
             r == [q EXCEPT ![1] = d]
  <2>1. d \in CommandSet /\ d.size = 0
    BY <1>4 DEF CommandSet
  <2>2. z.m_cmd_queue = r
    BY <1>1, <1>3 DEF IsEngine, Fields
  <2> HIDE DEF d, CommandSet, z
  <2>3. r \in Seq(CommandSet) /\ Len(r) # 0 /\ r[1] = d
    BY <1>3, <1>4, <2>1
  <2>4. Head(r) = d
    BY <2>3
  <2> QED
    BY <2>1, <2>2, <2>4 DEF Cmd
<1>8. y \in CommandEnd(z, f)
  BY <1>6, <1>7 DEF AfterStore
<1>9. x.sent \in Nat /\ x.sent <= MaxCommands
  BY <1>1 DEF Sound
<1>10. y \in CommandEnd(x, f)
  <2> HIDE DEF CommandSet
  <2> QED
    BY <1>1, <1>3, <1>8, <1>9, CommandEndSame
<1> QED
  BY <1>1, <1>10, CommandEndIs

\* A page of the command's own is blank (pstorage.c:1019-1039).
LEMMA AfterDataEraseIs ==
  ASSUME TableOK(m_app_table), NEW x, x.m_state = "DATA_ERASE", NEW f, NEW M,
         Ended(m_app_table, x, f, M), NEW y \in AfterDataErase(x, f)
  PROVE  EngineInv(m_app_table, y, f) /\ Outcome(m_app_table, x.m_cmd_queue, M, y, f)
<1> DEFINE T == m_app_table
           c == Cmd(x)
           z == [x EXCEPT !.m_current_page_id = @ + 1]
<1>1. /\ Sound(T, x) /\ IsEngine(x) /\ Ready(T, x) /\ Legal(T, c) /\ x.m_app_data_size = c.size
      /\ First(c) \in Nat /\ LastPage(c) \in Nat /\ First(c) <= LastPage(c)
      /\ LastPage(c) < PSTORAGE_NUM_OF_PAGES /\ c.op_code \in {"store", "update", "clear"}
  BY EndedIs, CommandFields DEF Ended, Legal
<1>2. PICK p \in Nat : p = x.m_current_page_id
  BY <1>1 DEF Sound
<1>3. PICK k \in Nat : k = p + 1
  OBVIOUS
<1>4. /\ c.op_code \in {"update", "clear"} /\ Whole(T, c) /\ x.m_tail_word_size = 0
      /\ First(c) <= p /\ p <= LastPage(c)
  BY <1>1, <1>2 DEF Ended, Position
<1>5. Cleared(c, k, f)
  BY <1>2, <1>3 DEF Ended, Done
<1>6. ShowsWith(T, c, f, M)
  BY ShowsIsWith DEF Ended
<1>7. /\ IsEngine(z) /\ z.m_state = x.m_state /\ z.m_cmd_queue = x.m_cmd_queue
      /\ z.sent = x.sent /\ z.sd = x.sd /\ z.m_flags = x.m_flags
      /\ z.m_swap_sub_state = x.m_swap_sub_state
      /\ z.m_head_word_size = x.m_head_word_size /\ z.m_tail_word_size = x.m_tail_word_size
      /\ z.m_current_page_id = k
      /\ z.m_num_of_command_retries = x.m_num_of_command_retries
      /\ z.m_app_data_size = x.m_app_data_size
  BY <1>1, <1>2, <1>3 DEF IsEngine, Fields
<1>8. IF IsPageEraseRequired(z) THEN y \in DataEraseEntry(z) ELSE y \in ClearPostProcessing(z, f)
  BY DEF AfterDataErase
<1> HIDE DEF z
<1>9. Cmd(z) = c
  BY <1>7 DEF Cmd
<1>10. Ready(T, z)
  <2>1. k <= PSTORAGE_NUM_OF_PAGES
    BY <1>1, <1>3, <1>4, SwapIs
  <2> QED
    BY <1>1, <1>7, <2>1 DEF Ready, Sound, Busy
<1>11. IsPageEraseRequired(z) <=> k <= LastPage(c)
  <2> HIDE DEF c
  <2> QED
    BY <1>1, <1>4, <1>7, <1>9 DEF IsPageEraseRequired
<1> HIDE DEF c
<1>12. CASE k <= LastPage(c)
  <2>1. First(c) <= k
    BY <1>1, <1>3, <1>4
  <2>2. EngineInv(T, y, f) /\ Proceeds(T, x.m_cmd_queue, M, y, f)
    BY <1>1, <1>4, <1>5, <1>6, <1>7, <1>8, <1>9, <1>10, <1>11, <1>12, <2>1, DataEraseEntryIs
  <2> QED
    BY <2>2 DEF Outcome
<1>13. CASE LastPage(c) < k
  <2>1. \A a \in Span(c) : f[a] = Erased
    BY <1>1, <1>5, <1>13, ClearedAll DEF c
  <2>2. ~IsPageEraseRequired(z)
    BY <1>1, <1>11, <1>13
  <2> QED
    BY <1>1, <1>4, <1>6, <1>7, <1>8, <1>9, <1>10, <2>1, <2>2, ClearPostIs
<1> QED
  BY <1>1, <1>12, <1>13

\* A move to another place of the same command.
LEMMA SwapStep ==
  ASSUME TableOK(m_app_table), NEW x, Ready(m_app_table, x), x.m_state = "DATA_ERASE_WITH_SWAP",
         Cmd(x).op_code \in {"update", "clear"}, x.m_app_data_size = Cmd(x).size,
         x.m_tail_word_size = TailIn(m_app_table, Cmd(x)),
         NEW k \in Nat, k <= PSTORAGE_NUM_OF_PAGES, NEW h \in Nat, h < PageSize,
         NEW fl, fl = x.m_flags \/ fl = x.m_flags \cup {"TAIL_SWAP_DONE"},
         NEW z, z = [x EXCEPT !.m_current_page_id = k, !.m_head_word_size = h, !.m_flags = fl],
         NEW sub \in SubStates, Place(Cmd(x), sub, k, h, x.m_tail_word_size, fl),
         NEW f, NEW M, HeldAt(Cmd(x), sub, k, f), ShowsAt(m_app_table, Cmd(x), sub, k, f, M),
         NEW y \in SubEntry(z, sub, f)
  PROVE  EngineInv(m_app_table, y, f) /\ Outcome(m_app_table, x.m_cmd_queue, M, y, f)
<1>1. IsEngine(x) /\ x.m_flags \subseteq Flags
  BY DEF Ready, Sound
<1>2. fl \subseteq Flags /\ ("FLASH_API_ERR_BUSY" \in fl <=> "FLASH_API_ERR_BUSY" \in x.m_flags)
  BY <1>1 DEF Flags
<1>3. /\ IsEngine(z) /\ z.m_state = x.m_state /\ z.m_cmd_queue = x.m_cmd_queue
      /\ z.sent = x.sent /\ z.sd = x.sd /\ z.m_flags = fl
      /\ z.m_swap_sub_state = x.m_swap_sub_state
      /\ z.m_head_word_size = h /\ z.m_tail_word_size = x.m_tail_word_size
      /\ z.m_current_page_id = k
      /\ z.m_num_of_command_retries = x.m_num_of_command_retries
      /\ z.m_app_data_size = x.m_app_data_size
  BY <1>1 DEF IsEngine, Fields
<1>4. Ready(m_app_table, z)
  BY <1>2, <1>3 DEF Ready, Sound, Busy
<1>5. Cmd(z) = Cmd(x)
  BY <1>3 DEF Cmd
<1>6. EngineInv(m_app_table, y, f) /\ Proceeds(m_app_table, x.m_cmd_queue, M, y, f)
  BY <1>3, <1>4, <1>5, SubEntryIs
<1> QED
  BY <1>6 DEF Outcome

\* The update that only moves the machine to the next page, or to no page at all.
LEMMA MovedIs ==
  ASSUME NEW x, IsEngine(x), NEW k
  PROVE  /\ [x EXCEPT !.m_current_page_id = k]
              = [x EXCEPT !.m_current_page_id = k, !.m_head_word_size = x.m_head_word_size,
                          !.m_flags = x.m_flags]
         /\ Raise([x EXCEPT !.m_current_page_id = k], "TAIL_SWAP_DONE")
              = [x EXCEPT !.m_current_page_id = k, !.m_head_word_size = x.m_head_word_size,
                          !.m_flags = x.m_flags \cup {"TAIL_SWAP_DONE"}]
         /\ x = [x EXCEPT !.m_current_page_id = x.m_current_page_id,
                          !.m_head_word_size = x.m_head_word_size, !.m_flags = x.m_flags]
         /\ Raise(x, "TAIL_SWAP_DONE")
              = [x EXCEPT !.m_current_page_id = x.m_current_page_id,
                          !.m_head_word_size = x.m_head_word_size,
                          !.m_flags = x.m_flags \cup {"TAIL_SWAP_DONE"}]
         /\ [x EXCEPT !.m_head_word_size = 0]
              = [x EXCEPT !.m_current_page_id = x.m_current_page_id, !.m_head_word_size = 0,
                          !.m_flags = x.m_flags]
         /\ Raise([x EXCEPT !.m_head_word_size = 0], "TAIL_SWAP_DONE")
              = [x EXCEPT !.m_current_page_id = x.m_current_page_id, !.m_head_word_size = 0,
                          !.m_flags = x.m_flags \cup {"TAIL_SWAP_DONE"}]
BY DEF IsEngine, Fields, Raise

\* The swap page is blank (pstorage.c:971-980).
LEMMA AfterEraseSwapIs ==
  ASSUME TableOK(m_app_table), NEW x, x.m_state = "DATA_ERASE_WITH_SWAP",
         x.m_swap_sub_state = "ERASE_SWAP", NEW f, NEW M, Ended(m_app_table, x, f, M),
         NEW y \in SubEntry(x, "WRITE_DATA_TO_SWAP", f)
  PROVE  EngineInv(m_app_table, y, f) /\ Outcome(m_app_table, x.m_cmd_queue, M, y, f)
<1> DEFINE T == m_app_table
           c == Cmd(x)
           sub == "WRITE_DATA_TO_SWAP"
<1>1. /\ c.op_code \in {"update", "clear"} /\ x.m_tail_word_size = TailIn(T, c)
      /\ x.m_app_data_size = c.size /\ x.m_current_page_id \in Nat
      /\ Place(c, x.m_swap_sub_state, x.m_current_page_id, x.m_head_word_size,
               x.m_tail_word_size, x.m_flags)
      /\ ShowsAt(T, c, x.m_swap_sub_state, x.m_current_page_id, f, M)
      /\ HeldAt(c, x.m_swap_sub_state, x.m_current_page_id, f)
  BY EndedIs DEF Ended
<1> HIDE DEF c
<1>2. Place(c, sub, x.m_current_page_id, x.m_head_word_size, x.m_tail_word_size, x.m_flags)
  BY <1>1 DEF Place
<1>3. CopyBegun(x.m_current_page_id, f)
  BY DEF Ended, Done
<1>4. HeldAt(c, sub, x.m_current_page_id, f)
  BY <1>1, <1>3 DEF HeldAt
<1>5. ShowsAt(T, c, sub, x.m_current_page_id, f, M)
  BY <1>1 DEF ShowsAt, SwappedAt
<1>6. sub \in SubStates /\ Ready(T, x)
  BY DEF SubStates, Ended
<1>7. EngineInv(T, y, f) /\ Proceeds(T, x.m_cmd_queue, M, y, f)
  BY <1>1, <1>2, <1>4, <1>5, <1>6, SubEntryIs DEF c
<1> QED
  BY <1>7 DEF Outcome

\* The page is in the swap page too (pstorage.c:948-966).
LEMMA AfterWriteToSwapIs ==
  ASSUME TableOK(m_app_table), NEW x, x.m_state = "DATA_ERASE_WITH_SWAP",
         x.m_swap_sub_state = "WRITE_DATA_TO_SWAP", NEW f, NEW M, Ended(m_app_table, x, f, M),
         NEW y \in AfterWriteToSwap(x, f)
  PROVE  EngineInv(m_app_table, y, f) /\ Outcome(m_app_table, x.m_cmd_queue, M, y, f)
<1> DEFINE T == m_app_table
           c == Cmd(x)
           sub == "ERASE_DATA_PAGE"
           single == "SINGLE_PAGE_OPERATION" \in x.m_flags
           fl == IF single THEN x.m_flags \cup {"TAIL_SWAP_DONE"} ELSE x.m_flags
           z == IF single THEN Raise(x, "TAIL_SWAP_DONE") ELSE x
<1>1. /\ c.op_code \in {"update", "clear"} /\ x.m_tail_word_size = TailIn(T, c)
      /\ x.m_app_data_size = c.size /\ x.m_current_page_id \in Nat /\ x.m_head_word_size \in Nat
      /\ Place(c, x.m_swap_sub_state, x.m_current_page_id, x.m_head_word_size,
               x.m_tail_word_size, x.m_flags)
      /\ ShowsAt(T, c, x.m_swap_sub_state, x.m_current_page_id, f, M)
      /\ HeldAt(c, x.m_swap_sub_state, x.m_current_page_id, f)
      /\ First(c) \in Nat /\ LastPage(c) \in Nat /\ First(c) <= LastPage(c)
      /\ IsEngine(x)
  BY EndedIs DEF Ended
<1>2. y \in SubEntry(z, sub, f)
  BY DEF AfterWriteToSwap
<1>3. /\ z = [x EXCEPT !.m_current_page_id = x.m_current_page_id,
                       !.m_head_word_size = x.m_head_word_size, !.m_flags = fl]
  BY <1>1, MovedIs
<1>4. single <=> First(c) = LastPage(c)
  BY <1>1 DEF Place
<1>5. /\ "SINGLE_PAGE_OPERATION" \in fl <=> First(c) = LastPage(c)
      /\ fl = x.m_flags \/ fl = x.m_flags \cup {"TAIL_SWAP_DONE"}
      /\ single => "TAIL_SWAP_DONE" \in fl
      /\ ~single => fl = x.m_flags
  BY <1>4
<1> HIDE DEF c, z, fl
<1>6. Place(c, sub, x.m_current_page_id, x.m_head_word_size, x.m_tail_word_size, fl)
  <2> HIDE DEF single
  <2>1. CASE CopyFirst(c, x.m_current_page_id, x.m_head_word_size) /\ "TAIL_SWAP_DONE" \notin x.m_flags
    <3>1. "TAIL_SWAP_DONE" \in fl <=> First(c) = LastPage(c)
      BY <1>4, <1>5, <2>1
    <3> QED
      BY <1>5, <2>1, <3>1 DEF Place
  <2>2. CASE CopyLast(c, x.m_current_page_id, x.m_head_word_size, x.m_tail_word_size, x.m_flags)
    <3>1. fl = x.m_flags
      BY <1>1, <1>4, <1>5, <2>2 DEF CopyLast
    <3> QED
      BY <1>5, <2>2, <3>1 DEF Place
  <2> QED
    BY <1>1, <2>1, <2>2 DEF Place
<1>7. HeldAt(c, sub, x.m_current_page_id, f)
  <2>1. PICK p \in Nat, k \in Nat, n \in Nat : p = x.m_current_page_id /\ k = First(c) /\ n = LastPage(c)
    BY <1>1
  <2>2. p = k \/ p = n
    BY <1>1, <2>1 DEF Place, CopyFirst, CopyLast
  <2>3. p < n => Spare(c, p, f)
    BY <2>1, <2>2 DEF Spare
  <2> QED
    BY <1>1, <2>1, <2>3 DEF HeldAt
<1>8. ShowsAt(T, c, sub, x.m_current_page_id, f, M)
  <2>1. Copied(x.m_current_page_id, f)
    BY DEF Ended, Done
  <2>2. ASSUME NEW a \in DataWords
        PROVE  KeptAt(c, sub, x.m_current_page_id, f, a)
                 = KeptAt(c, x.m_swap_sub_state, x.m_current_page_id, f, a)
    BY <2>1 DEF KeptAt, SwappedAt, Copied
  <2> QED
    BY <1>1, <2>2, ShowsMoves
<1>9. sub \in SubStates /\ Ready(T, x)
  BY DEF SubStates, Ended
<1>10. x.m_current_page_id <= PSTORAGE_NUM_OF_PAGES /\ x.m_head_word_size < PageSize
  BY <1>9 DEF Ready, Sound
<1> HIDE DEF single
<1> QED
  BY <1>1, <1>2, <1>3, <1>5, <1>6, <1>7, <1>8, <1>9, <1>10, SwapStep DEF c

(***************************************************************************)
(* Where the machine goes from the erase of page p, and that it holds      *)
(* there what the place demands.                                           *)
(***************************************************************************)
\* There is another page to erase as a whole.
More(c, k, t) == k < LastPage(c) \/ (k = LastPage(c) /\ t = 0)

\* The copy of the head is not needed past a page that is erased as a whole,
LEMMA SpareOn ==
  ASSUME NEW c, NEW p \in Nat, NEW k \in Nat, k = p + 1, First(c) \in Nat, First(c) <= p, NEW f,
         p = First(c) => At(First(c)) = Start(c), Spare(c, p, f)
  PROVE  Spare(c, k, f)
<1>1. CASE First(c) < p
  BY <1>1 DEF Spare
<1>2. CASE p = First(c)
  <2>1. ASSUME NEW a \in DataWords, Page(a) = First(c), a < Start(c) PROVE FALSE
    <3>1. At(First(c)) \in Nat /\ At(First(c)) <= a /\ a \in Nat
      BY <2>1, WordIs
    <3>2. a < At(First(c))
      BY <1>2, <2>1
    <3> QED
      BY <3>1, <3>2
  <2> QED
    BY <2>1 DEF Spare
<1> QED
  BY <1>1, <1>2

\* nor when the head is restored.
LEMMA SpareRestored ==
  ASSUME NEW c, NEW p, NEW f, HeadRestored(c, f)
  PROVE  Spare(c, p, f)
BY DEF Spare, HeadRestored

\* Each of the moves of data_page_erase_state_run leads to a place (pstorage.c:901-943).
LEMMA PageErasedPlace ==
  ASSUME NEW c, NEW p \in Nat, NEW h \in Nat, NEW t \in Nat, NEW fl, NEW k \in Nat, k = p + 1,
         First(c) \in Nat, LastPage(c) \in Nat, First(c) <= LastPage(c),
         Place(c, "ERASE_DATA_PAGE", p, h, t, fl)
  PROVE  /\ First(c) <= p /\ p <= LastPage(c)
         /\ h # 0 => Place(c, "RESTORE_HEAD", k, h, t, fl) /\ CopyFirst(c, p, h)
         /\ h = 0 /\ More(c, k, t) =>
              /\ WholePage(c, p, h, t, fl) /\ WholePage(c, k, h, t, fl)
              /\ Place(c, "ERASE_DATA_PAGE", k, h, t, fl)
         /\ h = 0 /\ ~More(c, k, t) =>
              /\ t = 0 => p = LastPage(c)
              /\ t # 0 /\ "TAIL_SWAP_DONE" \in fl => Place(c, "RESTORE_TAIL", k, h, t, fl) /\ p = LastPage(c)
              /\ t # 0 /\ "TAIL_SWAP_DONE" \notin fl =>
                   /\ WholePage(c, p, h, t, fl)
                   /\ Place(c, "ERASE_SWAP", k, h, t, fl \cup {"TAIL_SWAP_DONE"})
<1>1. /\ "SINGLE_PAGE_OPERATION" \in fl <=> First(c) = LastPage(c)
      /\ \/ CopyFirst(c, p, h) /\ ("TAIL_SWAP_DONE" \in fl <=> First(c) = LastPage(c))
         \/ CopyLast(c, p, h, t, fl)
         \/ WholePage(c, p, h, t, fl)
  BY DEF Place
<1>2. First(c) <= p /\ p <= LastPage(c)
  BY <1>1 DEF CopyFirst, CopyLast, WholePage
<1>3. ASSUME h # 0 PROVE Place(c, "RESTORE_HEAD", k, h, t, fl) /\ CopyFirst(c, p, h)
  <2>1. CopyFirst(c, p, h) /\ ("TAIL_SWAP_DONE" \in fl <=> First(c) = LastPage(c))
    BY <1>1, <1>3 DEF CopyLast, WholePage
  <2>2. k = First(c) + 1 /\ h = Start(c) - At(First(c))
    BY <2>1 DEF CopyFirst
  <2> QED
    BY <1>1, <1>3, <2>1, <2>2 DEF Place
<1>4. ASSUME h = 0, More(c, k, t)
      PROVE  /\ WholePage(c, p, h, t, fl) /\ WholePage(c, k, h, t, fl)
             /\ Place(c, "ERASE_DATA_PAGE", k, h, t, fl)
  <2>1. WholePage(c, p, h, t, fl)
    BY <1>1, <1>4 DEF CopyFirst, CopyLast, More
  <2>2. WholePage(c, k, h, t, fl)
    BY <1>4, <2>1 DEF WholePage, More
  <2> QED
    BY <1>1, <2>1, <2>2 DEF Place
<1>5. ASSUME h = 0, ~More(c, k, t)
      PROVE  /\ t = 0 => p = LastPage(c)
             /\ t # 0 /\ "TAIL_SWAP_DONE" \in fl => Place(c, "RESTORE_TAIL", k, h, t, fl) /\ p = LastPage(c)
             /\ t # 0 /\ "TAIL_SWAP_DONE" \notin fl =>
                  /\ WholePage(c, p, h, t, fl)
                  /\ Place(c, "ERASE_SWAP", k, h, t, fl \cup {"TAIL_SWAP_DONE"})
  <2>1. t = 0 => p = LastPage(c)
    BY <1>2, <1>5 DEF More
  <2>2. ASSUME t # 0, "TAIL_SWAP_DONE" \in fl
        PROVE  Place(c, "RESTORE_TAIL", k, h, t, fl) /\ p = LastPage(c)
    <3>1. p = LastPage(c)
      BY <1>1, <1>5, <2>2 DEF CopyFirst, CopyLast, WholePage, More
    <3> QED
      BY <1>1, <2>2, <3>1 DEF Place
  <2>3. ASSUME t # 0, "TAIL_SWAP_DONE" \notin fl
        PROVE  /\ WholePage(c, p, h, t, fl)
               /\ Place(c, "ERASE_SWAP", k, h, t, fl \cup {"TAIL_SWAP_DONE"})
    <3>1. WholePage(c, p, h, t, fl)
      BY <1>1, <1>5, <2>3 DEF CopyFirst, CopyLast
    <3>2. k = LastPage(c)
      BY <1>2, <1>5, <2>3, <3>1 DEF WholePage, More
    <3>3. CopyLast(c, k, h, t, fl \cup {"TAIL_SWAP_DONE"})
      BY <2>3, <3>1, <3>2 DEF CopyLast, WholePage
    <3>4. "SINGLE_PAGE_OPERATION" \in fl \cup {"TAIL_SWAP_DONE"} <=> First(c) = LastPage(c)
      BY <1>1
    <3> QED
      BY <3>1, <3>3, <3>4 DEF Place
  <2> QED
    BY <2>1, <2>2, <2>3
<1> QED
  BY <1>2, <1>3, <1>4, <1>5

\* A page that is blank can be restored.
LEMMA BlankRestorable ==
  ASSUME NEW f, NEW p, EraseDone(f, p), NEW n
  PROVE  Restorable(p, n, f)
<1>1. \A a \in DataWords : a \in FlashWords
  BY WordIs
<1> QED
  BY <1>1 DEF EraseDone, Restorable

\* A data page is blank (pstorage.c:901-943).
LEMMA AfterPageEraseIs ==
  ASSUME TableOK(m_app_table), NEW x, x.m_state = "DATA_ERASE_WITH_SWAP",
         x.m_swap_sub_state = "ERASE_DATA_PAGE", NEW f, NEW M, Ended(m_app_table, x, f, M),
         NEW y \in AfterPageErase(x, f)
  PROVE  EngineInv(m_app_table, y, f) /\ Outcome(m_app_table, x.m_cmd_queue, M, y, f)
<1> DEFINE T == m_app_table
           c == Cmd(x)
           fl == x.m_flags
<1>1. /\ c.op_code \in {"update", "clear"} /\ x.m_tail_word_size = TailIn(T, c)
      /\ x.m_app_data_size = c.size /\ Legal(T, c)
      /\ Place(c, "ERASE_DATA_PAGE", x.m_current_page_id, x.m_head_word_size, x.m_tail_word_size, fl)
      /\ ShowsAt(T, c, "ERASE_DATA_PAGE", x.m_current_page_id, f, M)
      /\ HeldAt(c, "ERASE_DATA_PAGE", x.m_current_page_id, f)
      /\ First(c) \in Nat /\ LastPage(c) \in Nat /\ First(c) <= LastPage(c)
      /\ LastPage(c) < PSTORAGE_NUM_OF_PAGES /\ PSTORAGE_NUM_OF_PAGES \in Nat
      /\ IsEngine(x) /\ Ready(T, x) /\ Sound(T, x)
  BY EndedIs, SwapIs DEF Ended
<1>2. PICK p \in Nat : p = x.m_current_page_id
  BY <1>1 DEF Sound
<1>3. PICK k \in Nat : k = p + 1
  OBVIOUS
<1>4. PICK h \in Nat : h = x.m_head_word_size /\ h < PageSize
  BY <1>1 DEF Sound
<1>5. PICK t \in Nat : t = x.m_tail_word_size
  BY <1>1 DEF Sound
<1>6. EraseDone(f, p) /\ Cleared(c, k, f)
  BY <1>2, <1>3 DEF Ended, Done
<1>26. HeldAt(c, "ERASE_DATA_PAGE", p, f)
  BY <1>1, <1>2
<1> DEFINE z == [x EXCEPT !.m_current_page_id = @ + 1]
<1>7. z = [x EXCEPT !.m_current_page_id = k]
  BY <1>2, <1>3
<1>8. /\ IsEngine(z) /\ z.m_state = x.m_state /\ z.m_cmd_queue = x.m_cmd_queue
      /\ z.sent = x.sent /\ z.sd = x.sd /\ z.m_flags = fl
      /\ z.m_swap_sub_state = x.m_swap_sub_state
      /\ z.m_head_word_size = h /\ z.m_tail_word_size = t
      /\ z.m_current_page_id = k
      /\ z.m_num_of_command_retries = x.m_num_of_command_retries
      /\ z.m_app_data_size = x.m_app_data_size
  BY <1>1, <1>4, <1>5, <1>7 DEF IsEngine, Fields
<1>9. z = [x EXCEPT !.m_current_page_id = k, !.m_head_word_size = h, !.m_flags = fl]
  <2> HIDE DEF z, c
  <2> QED
    BY <1>1, <1>4, <1>7, MovedIs
<1>25. Raise(z, "TAIL_SWAP_DONE")
         = [x EXCEPT !.m_current_page_id = k, !.m_head_word_size = h,
                     !.m_flags = fl \cup {"TAIL_SWAP_DONE"}]
  <2> HIDE DEF z, c
  <2> QED
    BY <1>1, <1>4, <1>7, MovedIs
<1>10. Cmd(z) = c
  BY <1>8 DEF Cmd
<1>11. y \in IF h # 0 THEN SubEntry(z, "RESTORE_HEAD", f)
             ELSE IF IsPageEraseRequired(z) THEN SubEntry(z, "ERASE_DATA_PAGE", f)
             ELSE IF t = 0 THEN ClearPostProcessing(z, f)
             ELSE IF "TAIL_SWAP_DONE" \in fl THEN SubEntry(z, "RESTORE_TAIL", f)
             ELSE SubEntry(Raise(z, "TAIL_SWAP_DONE"), "ERASE_SWAP", f)
  BY <1>8 DEF AfterPageErase
<1> HIDE DEF z, c, fl
<1>12. IsPageEraseRequired(z) <=> More(c, k, t)
  BY <1>8, <1>10 DEF IsPageEraseRequired, More
<1>13. Place(c, "ERASE_DATA_PAGE", p, h, t, fl)
  BY <1>1, <1>2, <1>4, <1>5
<1>14. First(c) <= p /\ p <= LastPage(c)
  BY <1>1, <1>3, <1>13, PageErasedPlace
<1>15. k <= PSTORAGE_NUM_OF_PAGES
  BY <1>1, <1>3, <1>14
<1>16. ShowsAt(T, c, "ERASE_DATA_PAGE", p, f, M)
  BY <1>1, <1>2
<1>17. t = TailIn(T, c) /\ x.m_tail_word_size = t
  BY <1>1, <1>5
<1>18. ASSUME NEW sub \in SubStates, Place(c, sub, k, h, t, fl), HeldAt(c, sub, k, f),
              ShowsAt(T, c, sub, k, f, M), y \in SubEntry(z, sub, f)
       PROVE  EngineInv(T, y, f) /\ Outcome(T, x.m_cmd_queue, M, y, f)
  <2>1. Place(c, sub, k, h, x.m_tail_word_size, fl) /\ x.m_tail_word_size = TailIn(T, c)
    BY <1>17, <1>18
  <2>2. fl = x.m_flags \/ fl = x.m_flags \cup {"TAIL_SWAP_DONE"}
    BY DEF fl
  <2> QED
    BY <1>1, <1>4, <1>9, <1>15, <1>18, <2>1, <2>2, SwapStep DEF c
<1>19. \A a \in DataWords : a \in Nat
  BY WordIs
<1>20. CASE h # 0
  <2>1. CopyFirst(c, p, h) /\ Place(c, "RESTORE_HEAD", k, h, t, fl)
    BY <1>1, <1>3, <1>13, <1>20, PageErasedPlace
  <2>2. Restorable(First(c), 0, f)
    BY <1>6, <2>1, BlankRestorable DEF CopyFirst
  <2>3. HeldAt(c, "RESTORE_HEAD", k, f)
    BY <1>6, <2>2 DEF HeldAt
  <2>4. ASSUME NEW a
        PROVE  KeptAt(c, "RESTORE_HEAD", k, f, a) = KeptAt(c, "ERASE_DATA_PAGE", p, f, a)
    <3>1. k - 1 = p
      BY <1>3
    <3> QED
      BY <3>1 DEF KeptAt, SwappedAt
  <2>5. ShowsAt(T, c, "RESTORE_HEAD", k, f, M)
    BY <1>16, <2>4, ShowsMoves
  <2>6. "RESTORE_HEAD" \in SubStates /\ y \in SubEntry(z, "RESTORE_HEAD", f)
    BY <1>11, <1>20 DEF SubStates
  <2> QED
    BY <1>18, <2>1, <2>3, <2>5, <2>6
<1>21. CASE h = 0 /\ More(c, k, t)
  <2>1. /\ WholePage(c, p, h, t, fl) /\ WholePage(c, k, h, t, fl)
        /\ Place(c, "ERASE_DATA_PAGE", k, h, t, fl)
    BY <1>1, <1>3, <1>13, <1>21, PageErasedPlace
  <2>6. Spare(c, k, f)
    <3>1. p < LastPage(c)
      BY <1>1, <1>3, <1>21 DEF More
    <3>2. Spare(c, p, f)
      BY <1>26, <3>1 DEF HeldAt
    <3> QED
      BY <1>1, <1>3, <1>14, <2>1, <3>2, SpareOn DEF WholePage
  <2>2. HeldAt(c, "ERASE_DATA_PAGE", k, f)
    BY <1>6, <2>6 DEF HeldAt
  <2>3. ASSUME NEW a, IsOwned(T, a), a \notin Span(c)
        PROVE  KeptAt(c, "ERASE_DATA_PAGE", k, f, a) = KeptAt(c, "ERASE_DATA_PAGE", p, f, a)
    <3>1. Page(a) # p /\ Page(a) # k
      BY <1>1, <1>17, <2>1, <2>3, NoneOnWholePage
    <3> QED
      BY <3>1 DEF KeptAt, SwappedAt
  <2>4. ShowsAt(T, c, "ERASE_DATA_PAGE", k, f, M)
    BY <1>16, <2>3, ShowsMoves
  <2>5. "ERASE_DATA_PAGE" \in SubStates /\ y \in SubEntry(z, "ERASE_DATA_PAGE", f)
    BY <1>11, <1>12, <1>21 DEF SubStates
  <2> QED
    BY <1>18, <2>1, <2>2, <2>4, <2>5
<1>22. CASE h = 0 /\ ~More(c, k, t) /\ t = 0
  <2>0. p = LastPage(c)
    BY <1>1, <1>3, <1>13, <1>22, PageErasedPlace
  <2>1. p = LastPage(c) /\ LastPage(c) < k
    BY <1>3, <2>0
  <2>2. \A a \in Span(c) : f[a] = Erased
    BY <1>1, <1>6, <2>1, ClearedAll
  <2>3. ASSUME NEW a \in DataWords, IsOwned(T, a), a \notin Span(c)
        PROVE  ~SwappedAt(c, "ERASE_DATA_PAGE", p, a)
    <3> SUFFICES ASSUME Page(a) = p PROVE FALSE
      BY DEF SwappedAt
    <3>1. Page(a) \in First(c) .. LastPage(c)
      BY <1>1, <2>1
    <3>2. PICK s \in Nat, n \in Nat : /\ s = Start(c) /\ n = CmdEnd(c)
                                      /\ At(First(c)) \in Nat /\ At(First(c)) <= s
      BY <1>1, LegalIs
    <3>3. \/ Page(a) = First(c) /\ a < s
          \/ n <= a /\ a < n + t
      BY <1>1, <1>17, <2>3, <3>1, <3>2, Outside
    <3>4. a \in Nat /\ At(Page(a)) <= a
      BY WordIs
    <3>5. ASSUME Page(a) = First(c), a < s PROVE FALSE
      <4>1. First(c) = LastPage(c) /\ p = First(c)
        BY <2>1, <3>5
      <4>2. CASE CopyFirst(c, p, h)
        <5>1. s = At(First(c))
          BY <1>22, <3>2, <4>2 DEF CopyFirst
        <5> QED
          BY <3>4, <3>5, <5>1
      <4>3. CASE CopyLast(c, p, h, t, fl) \/ WholePage(c, p, h, t, fl)
        BY <1>1, <4>1, <4>3 DEF CopyLast, WholePage
      <4> QED
        BY <1>13, <4>2, <4>3 DEF Place
    <3> QED
      BY <1>22, <3>2, <3>3, <3>4, <3>5
  <2>4. ShowsWith(T, c, f, M)
    BY <1>16, <2>3, ShowsAtLast DEF KeptAt
  <2>5. y \in ClearPostProcessing(z, f)
    BY <1>11, <1>12, <1>22
  <2>6. Ready(T, z)
    BY <1>1, <1>4, <1>5, <1>8, <1>15 DEF Ready, Sound, Busy, fl
  <2> QED
    BY <1>1, <1>8, <1>10, <2>2, <2>4, <2>5, <2>6, ClearPostIs
<1>23. CASE h = 0 /\ ~More(c, k, t) /\ t # 0 /\ "TAIL_SWAP_DONE" \in fl
  <2>1. Place(c, "RESTORE_TAIL", k, h, t, fl) /\ p = LastPage(c)
    BY <1>1, <1>3, <1>13, <1>23, PageErasedPlace
  <2>2. HeldAt(c, "RESTORE_TAIL", k, f)
    <3>1. Restorable(LastPage(c), CmdEnd(c), f)
      BY <1>6, <2>1, BlankRestorable
    <3> QED
      BY <1>6, <3>1 DEF HeldAt
  <2>3. ASSUME NEW a \in DataWords, IsOwned(T, a), a \notin Span(c)
        PROVE  KeptAt(c, "RESTORE_TAIL", k, f, a) = KeptAt(c, "ERASE_DATA_PAGE", p, f, a)
    <3>1. CASE Page(a) # p
      BY <2>1, <3>1 DEF KeptAt, SwappedAt
    <3>2. CASE Page(a) = p
      <4>1. Page(a) \in First(c) .. LastPage(c)
        BY <1>1, <2>1, <3>2
      <4>2. PICK s \in Nat, n \in Nat : /\ s = Start(c) /\ n = CmdEnd(c)
                                        /\ At(First(c)) \in Nat /\ At(First(c)) <= s
        BY <1>1, LegalIs
      <4>3. \/ Page(a) = First(c) /\ a < s
            \/ n <= a /\ a < n + t
        BY <1>1, <1>17, <2>3, <4>1, <4>2, Outside
      <4>4. a \in Nat /\ At(Page(a)) <= a
        BY WordIs
      <4>5. ASSUME Page(a) = First(c), a < s PROVE FALSE
        <5>1. First(c) = LastPage(c) /\ p = First(c)
          BY <2>1, <3>2, <4>5
        <5>2. CASE CopyFirst(c, p, h)
          <6>1. s = At(First(c))
            BY <1>23, <4>2, <5>2 DEF CopyFirst
          <6> QED
            BY <4>4, <4>5, <6>1
        <5>3. CASE CopyLast(c, p, h, t, fl) \/ WholePage(c, p, h, t, fl)
          BY <1>1, <5>1, <5>3 DEF CopyLast, WholePage
        <5> QED
          BY <1>13, <5>2, <5>3 DEF Place
      <4>6. CmdEnd(c) <= a
        BY <4>2, <4>3, <4>4, <4>5
      <4> QED
        BY <2>1, <3>2, <4>4, <4>6 DEF KeptAt, SwappedAt
    <3> QED
      BY <3>1, <3>2
  <2>4. ShowsAt(T, c, "RESTORE_TAIL", k, f, M)
    BY <1>16, <2>3, ShowsMoves
  <2>5. "RESTORE_TAIL" \in SubStates /\ y \in SubEntry(z, "RESTORE_TAIL", f)
    BY <1>11, <1>12, <1>23 DEF SubStates
  <2> QED
    BY <1>18, <2>1, <2>2, <2>4, <2>5
<1>24. CASE h = 0 /\ ~More(c, k, t) /\ t # 0 /\ "TAIL_SWAP_DONE" \notin fl
  <2>1. WholePage(c, p, h, t, fl) /\ Place(c, "ERASE_SWAP", k, h, t, fl \cup {"TAIL_SWAP_DONE"})
    BY <1>1, <1>3, <1>13, <1>24, PageErasedPlace
  <2>6. Spare(c, k, f)
    <3>1. p < LastPage(c)
      <4>1. p # LastPage(c)
        BY <1>24, <2>1 DEF WholePage
      <4> QED
        BY <1>1, <1>14, <4>1
    <3>2. Spare(c, p, f)
      BY <1>26, <3>1 DEF HeldAt
    <3> QED
      BY <1>1, <1>3, <1>14, <2>1, <3>2, SpareOn DEF WholePage
  <2>2. HeldAt(c, "ERASE_SWAP", k, f)
    BY <1>6, <2>6 DEF HeldAt
  <2>3. ASSUME NEW a, IsOwned(T, a), a \notin Span(c)
        PROVE  KeptAt(c, "ERASE_SWAP", k, f, a) = KeptAt(c, "ERASE_DATA_PAGE", p, f, a)
    <3>1. Page(a) # p
      BY <1>1, <1>17, <2>1, <2>3, NoneOnWholePage
    <3> QED
      BY <3>1 DEF KeptAt, SwappedAt
  <2>4. ShowsAt(T, c, "ERASE_SWAP", k, f, M)
    BY <1>16, <2>3, ShowsMoves
  <2>5. "ERASE_SWAP" \in SubStates /\ y \in SubEntry(Raise(z, "TAIL_SWAP_DONE"), "ERASE_SWAP", f)
    BY <1>11, <1>12, <1>24 DEF SubStates
  <2> QED
    <3>1. PICK fm : fm = fl \cup {"TAIL_SWAP_DONE"}
      OBVIOUS
    <3>2. Place(c, "ERASE_SWAP", k, h, x.m_tail_word_size, fm) /\ x.m_tail_word_size = TailIn(T, c)
      BY <1>17, <2>1, <3>1
    <3>3. fm = x.m_flags \/ fm = x.m_flags \cup {"TAIL_SWAP_DONE"}
      BY <3>1 DEF fl
    <3>4. Raise(z, "TAIL_SWAP_DONE")
            = [x EXCEPT !.m_current_page_id = k, !.m_head_word_size = h, !.m_flags = fm]
      BY <1>25, <3>1
    <3> QED
      BY <1>1, <1>4, <1>15, <2>2, <2>4, <2>5, <3>2, <3>3, <3>4, SwapStep DEF c
<1> QED
  BY <1>20, <1>21, <1>22, <1>23, <1>24

\* Each of the moves of head_restore_state_run leads to a place (pstorage.c:836-877).
LEMMA HeadRestoredPlace ==
  ASSUME NEW c, NEW p \in Nat, NEW h \in Nat, NEW t \in Nat, NEW fl,
         First(c) \in Nat, LastPage(c) \in Nat, First(c) <= LastPage(c),
         Place(c, "RESTORE_HEAD", p, h, t, fl)
  PROVE  /\ p = First(c) + 1
         /\ t # 0 /\ p = LastPage(c) => /\ First(c) < LastPage(c)
                                        /\ Place(c, "ERASE_SWAP", p, 0, t, fl \cup {"TAIL_SWAP_DONE"})
         /\ More(c, p, t) => /\ WholePage(c, p, 0, t, fl) /\ Place(c, "ERASE_DATA_PAGE", p, 0, t, fl)
                             /\ First(c) < LastPage(c)
         /\ ~(t # 0 /\ p = LastPage(c)) /\ ~More(c, p, t) => First(c) = LastPage(c)
         /\ t # 0 /\ First(c) = LastPage(c) => Place(c, "RESTORE_TAIL", p, h, t, fl)
<1>1. /\ p = First(c) + 1 /\ ("TAIL_SWAP_DONE" \in fl <=> First(c) = LastPage(c))
      /\ "SINGLE_PAGE_OPERATION" \in fl <=> First(c) = LastPage(c)
  BY DEF Place
<1>2. ASSUME t # 0, p = LastPage(c)
      PROVE  /\ First(c) < LastPage(c)
             /\ Place(c, "ERASE_SWAP", p, 0, t, fl \cup {"TAIL_SWAP_DONE"})
  <2>1. First(c) < LastPage(c)
    BY <1>1, <1>2
  <2>2. CopyLast(c, p, 0, t, fl \cup {"TAIL_SWAP_DONE"})
    BY <1>2, <2>1 DEF CopyLast
  <2>3. "SINGLE_PAGE_OPERATION" \in fl \cup {"TAIL_SWAP_DONE"} <=> First(c) = LastPage(c)
    BY <1>1
  <2> QED
    BY <2>1, <2>2, <2>3 DEF Place
<1>3. ASSUME More(c, p, t)
      PROVE  /\ WholePage(c, p, 0, t, fl) /\ Place(c, "ERASE_DATA_PAGE", p, 0, t, fl)
             /\ First(c) < LastPage(c)
  <2>1. First(c) < LastPage(c)
    BY <1>1, <1>3 DEF More
  <2>2. WholePage(c, p, 0, t, fl)
    BY <1>1, <1>3, <2>1 DEF WholePage, More
  <2> QED
    BY <1>1, <2>1, <2>2 DEF Place
<1>4. ~(t # 0 /\ p = LastPage(c)) /\ ~More(c, p, t) => First(c) = LastPage(c)
  BY <1>1 DEF More
<1>5. ASSUME t # 0, First(c) = LastPage(c) PROVE Place(c, "RESTORE_TAIL", p, h, t, fl)
  <2>1. p = LastPage(c) + 1
    BY <1>1, <1>5
  <2> QED
    BY <1>1, <1>5, <2>1 DEF Place
<1> QED
  BY <1>1, <1>2, <1>3, <1>4, <1>5

\* The words before the command are back (pstorage.c:836-877).
LEMMA AfterRestoreHeadIs ==
  ASSUME TableOK(m_app_table), NEW x, x.m_state = "DATA_ERASE_WITH_SWAP",
         x.m_swap_sub_state = "RESTORE_HEAD", NEW f, NEW M, Ended(m_app_table, x, f, M),
         NEW y \in AfterRestoreHead(x, f)
  PROVE  EngineInv(m_app_table, y, f) /\ Outcome(m_app_table, x.m_cmd_queue, M, y, f)
<1> DEFINE T == m_app_table
           c == Cmd(x)
           fl == x.m_flags
           here == "RESTORE_HEAD"
<1>1. /\ c.op_code \in {"update", "clear"} /\ x.m_tail_word_size = TailIn(T, c)
      /\ x.m_app_data_size = c.size /\ Legal(T, c)
      /\ Place(c, here, x.m_current_page_id, x.m_head_word_size, x.m_tail_word_size, fl)
      /\ ShowsAt(T, c, here, x.m_current_page_id, f, M)
      /\ HeldAt(c, here, x.m_current_page_id, f)
      /\ First(c) \in Nat /\ LastPage(c) \in Nat /\ First(c) <= LastPage(c)
      /\ IsEngine(x) /\ Ready(T, x) /\ Sound(T, x)
  BY EndedIs DEF Ended
<1>2. PICK p \in Nat : p = x.m_current_page_id /\ p <= PSTORAGE_NUM_OF_PAGES
  BY <1>1 DEF Sound
<1>3. PICK h \in Nat : h = x.m_head_word_size /\ h < PageSize
  BY <1>1 DEF Sound
<1>4. PICK t \in Nat : t = x.m_tail_word_size
  BY <1>1 DEF Sound
<1>5. /\ HeadRestored(c, f)
  BY DEF Ended, Done
<1>6. Cleared(c, p, f) /\ Restorable(First(c), 0, f)
  BY <1>1, <1>2 DEF HeldAt
<1> DEFINE z == [x EXCEPT !.m_head_word_size = 0]
<1>7. /\ z = [x EXCEPT !.m_current_page_id = p, !.m_head_word_size = 0, !.m_flags = fl]
  <2> HIDE DEF z, c
  <2> QED
    BY <1>1, <1>2, MovedIs DEF z
<1>8. Raise(z, "TAIL_SWAP_DONE")
        = [x EXCEPT !.m_current_page_id = p, !.m_head_word_size = 0,
                    !.m_flags = fl \cup {"TAIL_SWAP_DONE"}]
  <2> HIDE DEF z, c
  <2> QED
    BY <1>1, <1>2, MovedIs DEF z
<1>9. y \in IF t # 0 /\ p = LastPage(c) THEN SubEntry(Raise(z, "TAIL_SWAP_DONE"), "ERASE_SWAP", f)
            ELSE IF More(c, p, t) THEN SubEntry(z, "ERASE_DATA_PAGE", f)
            ELSE IF t # 0 THEN SubEntry(x, "RESTORE_TAIL", f)
            ELSE ClearPostProcessing(x, f)
  <2>1. IsTailSwapRequired(x) <=> t # 0 /\ p = LastPage(c)
    BY <1>2, <1>4 DEF IsTailSwapRequired
  <2>2. IsPageEraseRequired(x) <=> More(c, p, t)
    BY <1>2, <1>4 DEF IsPageEraseRequired, More
  <2> HIDE DEF c, z
  <2> QED
    BY <1>4, <2>1, <2>2 DEF AfterRestoreHead, z
<1> HIDE DEF z, c, fl
<1>10. Place(c, here, p, h, t, fl) /\ t = TailIn(T, c) /\ ShowsAt(T, c, here, p, f, M)
  BY <1>1, <1>2, <1>3, <1>4
<1>11. p = First(c) + 1
  BY <1>1, <1>10, HeadRestoredPlace
<1>12. 0 \in Nat /\ 0 < PageSize
  BY PstorageAssumption
<1>13. ASSUME NEW a \in DataWords, Page(a) = First(c), a < Start(c)
       PROVE  KeptAt(c, here, p, f, a) = f[a]
  BY <1>5, <1>13 DEF KeptAt, HeadRestored
<1>14. ASSUME NEW a, Page(a) # First(c)
       PROVE  KeptAt(c, here, p, f, a) = f[a]
  BY <1>1, <1>11, <1>14 DEF KeptAt, SwappedAt
<1>15. ASSUME NEW a \in DataWords, IsOwned(T, a), a \notin Span(c)
       PROVE  \/ KeptAt(c, here, p, f, a) = f[a]
              \/ /\ First(c) = LastPage(c) /\ Page(a) = LastPage(c) /\ CmdEnd(c) <= a
                 /\ a < CmdEnd(c) + TailIn(T, c)
  <2> SUFFICES ASSUME Page(a) = First(c) PROVE
              \/ KeptAt(c, here, p, f, a) = f[a]
              \/ /\ First(c) = LastPage(c) /\ Page(a) = LastPage(c) /\ CmdEnd(c) <= a
                 /\ a < CmdEnd(c) + TailIn(T, c)
    BY <1>14
  <2>1. Page(a) \in First(c) .. LastPage(c)
    BY <1>1
  <2>2. \/ Page(a) = First(c) /\ a < Start(c)
        \/ Page(a) = LastPage(c) /\ CmdEnd(c) <= a /\ a < CmdEnd(c) + TailIn(T, c)
    BY <1>1, <1>15, <2>1, Outside
  <2> QED
    BY <1>13, <2>2
<1>16. ASSUME NEW sub \in SubStates, NEW k \in Nat, k < PageSize, NEW fm,
              fm = x.m_flags \/ fm = x.m_flags \cup {"TAIL_SWAP_DONE"},
              Place(c, sub, p, k, t, fm), HeldAt(c, sub, p, f), ShowsAt(T, c, sub, p, f, M),
              NEW v, v = [x EXCEPT !.m_current_page_id = p, !.m_head_word_size = k, !.m_flags = fm],
              y \in SubEntry(v, sub, f)
       PROVE  EngineInv(T, y, f) /\ Outcome(T, x.m_cmd_queue, M, y, f)
  <2>1. Place(c, sub, p, k, x.m_tail_word_size, fm) /\ x.m_tail_word_size = TailIn(T, c)
    BY <1>4, <1>10, <1>16
  <2> QED
    BY <1>1, <1>2, <1>16, <2>1, SwapStep DEF c
<1>17. fl = x.m_flags
  BY DEF fl
<1>20. CASE t # 0 /\ p = LastPage(c)
  <2>1. /\ First(c) < LastPage(c)
        /\ Place(c, "ERASE_SWAP", p, 0, t, fl \cup {"TAIL_SWAP_DONE"})
    BY <1>1, <1>10, <1>20, HeadRestoredPlace
  <2>2. PICK fm : fm = fl \cup {"TAIL_SWAP_DONE"}
    OBVIOUS
  <2>3. HeldAt(c, "ERASE_SWAP", p, f)
    BY <1>5, <1>6, SpareRestored DEF HeldAt
  <2>4. ASSUME NEW a \in DataWords, IsOwned(T, a), a \notin Span(c)
        PROVE  KeptAt(c, "ERASE_SWAP", p, f, a) = KeptAt(c, here, p, f, a)
    <3>1. KeptAt(c, here, p, f, a) = f[a]
      BY <1>1, <1>15, <2>1, <2>4
    <3> QED
      BY <3>1 DEF KeptAt, SwappedAt
  <2>5. ShowsAt(T, c, "ERASE_SWAP", p, f, M)
    BY <1>10, <2>4, ShowsMoves
  <2>6. "ERASE_SWAP" \in SubStates /\ y \in SubEntry(Raise(z, "TAIL_SWAP_DONE"), "ERASE_SWAP", f)
    BY <1>9, <1>20 DEF SubStates
  <2>7. Raise(z, "TAIL_SWAP_DONE")
          = [x EXCEPT !.m_current_page_id = p, !.m_head_word_size = 0, !.m_flags = fm]
    BY <1>8, <2>2
  <2> QED
    BY <1>12, <1>16, <1>17, <2>1, <2>2, <2>3, <2>5, <2>6, <2>7
<1>21. CASE ~(t # 0 /\ p = LastPage(c)) /\ More(c, p, t)
  <2>1. /\ WholePage(c, p, 0, t, fl) /\ Place(c, "ERASE_DATA_PAGE", p, 0, t, fl)
        /\ First(c) < LastPage(c)
    BY <1>1, <1>10, <1>21, HeadRestoredPlace
  <2>2. HeldAt(c, "ERASE_DATA_PAGE", p, f)
    BY <1>5, <1>6, SpareRestored DEF HeldAt
  <2>3. ASSUME NEW a \in DataWords, IsOwned(T, a), a \notin Span(c)
        PROVE  KeptAt(c, "ERASE_DATA_PAGE", p, f, a) = KeptAt(c, here, p, f, a)
    <3>1. KeptAt(c, here, p, f, a) = f[a]
      BY <1>1, <1>15, <2>1, <2>3
    <3>2. Page(a) # p
      BY <1>1, <1>10, <2>1, <2>3, NoneOnWholePage
    <3> QED
      BY <3>1, <3>2 DEF KeptAt, SwappedAt
  <2>4. ShowsAt(T, c, "ERASE_DATA_PAGE", p, f, M)
    BY <1>10, <2>3, ShowsMoves
  <2>5. "ERASE_DATA_PAGE" \in SubStates /\ y \in SubEntry(z, "ERASE_DATA_PAGE", f)
    BY <1>9, <1>21 DEF SubStates
  <2> QED
    BY <1>7, <1>12, <1>16, <1>17, <2>1, <2>2, <2>4, <2>5
<1>22. CASE ~(t # 0 /\ p = LastPage(c)) /\ ~More(c, p, t) /\ t # 0
  <2>1. First(c) = LastPage(c) /\ Place(c, "RESTORE_TAIL", p, h, t, fl)
    BY <1>1, <1>10, <1>22, HeadRestoredPlace
  <2>2. PICK n \in Nat : n = CmdEnd(c) /\ Start(c) \in Nat /\ Start(c) < n
    BY <1>1, LegalIs
  <2>3. Restorable(LastPage(c), CmdEnd(c), f)
    BY <1>6, <2>1, WordIs DEF Restorable
  <2>4. HeldAt(c, "RESTORE_TAIL", p, f)
    BY <1>6, <2>3 DEF HeldAt
  <2>5. ASSUME NEW a \in DataWords, IsOwned(T, a), a \notin Span(c)
        PROVE  KeptAt(c, "RESTORE_TAIL", p, f, a) = KeptAt(c, here, p, f, a)
    <3>0. a \in Nat
      BY WordIs
    <3>1. CASE Page(a) # First(c)
      <4>1. KeptAt(c, "RESTORE_TAIL", p, f, a) = f[a]
        BY <2>1, <3>1 DEF KeptAt, SwappedAt
      <4> QED
        BY <1>14, <3>1, <4>1
    <3>2. CASE Page(a) = First(c) /\ a < Start(c)
      <4>1. ~(a >= CmdEnd(c))
        BY <2>2, <3>0, <3>2
      <4>2. KeptAt(c, "RESTORE_TAIL", p, f, a) = f[a]
        BY <4>1 DEF KeptAt, SwappedAt
      <4> QED
        BY <1>13, <3>2, <4>2
    <3>3. CASE Page(a) = LastPage(c) /\ a >= CmdEnd(c)
      <4>1. KeptAt(c, "RESTORE_TAIL", p, f, a) = SwapWord(f, a)
        BY <3>3 DEF KeptAt, SwappedAt
      <4>2. KeptAt(c, here, p, f, a) = SwapWord(f, a)
        <5>1. Page(a) = p - 1
          BY <1>1, <1>11, <2>1, <3>3
        <5> QED
          BY <5>1 DEF KeptAt, SwappedAt
      <4> QED
        BY <4>1, <4>2
    <3>4. a \notin Span(c) => a < Start(c) \/ a >= CmdEnd(c)
      BY <1>1, <2>2, <3>0, SpanIs
    <3> QED
      BY <2>1, <2>5, <3>1, <3>2, <3>3, <3>4
  <2>6. ShowsAt(T, c, "RESTORE_TAIL", p, f, M)
    BY <1>10, <2>5, ShowsMoves
  <2>7. "RESTORE_TAIL" \in SubStates /\ y \in SubEntry(x, "RESTORE_TAIL", f)
    BY <1>9, <1>22 DEF SubStates
  <2>8. x = [x EXCEPT !.m_current_page_id = p, !.m_head_word_size = h, !.m_flags = fl]
    BY <1>1, <1>2, <1>3, <1>17, MovedIs
  <2> QED
    BY <1>3, <1>16, <1>17, <2>1, <2>4, <2>6, <2>7, <2>8
<1>23. CASE ~(t # 0 /\ p = LastPage(c)) /\ ~More(c, p, t) /\ t = 0
  <2>1. First(c) = LastPage(c)
    BY <1>1, <1>10, <1>23, HeadRestoredPlace
  <2>2. LastPage(c) < p
    BY <1>1, <1>11, <2>1
  <2>3. \A a \in Span(c) : f[a] = Erased
    BY <1>1, <1>6, <2>2, ClearedAll
  <2>4. PICK n \in Nat : n = CmdEnd(c)
    BY <1>1, LegalIs
  <2>5. ASSUME NEW a \in DataWords, IsOwned(T, a), a \notin Span(c)
        PROVE  KeptAt(c, here, p, f, a) = f[a]
    <3> SUFFICES ASSUME CmdEnd(c) <= a, a < CmdEnd(c) + TailIn(T, c) PROVE FALSE
      BY <1>15, <2>5
    <3>1. a \in Nat
      BY WordIs
    <3> QED
      BY <1>10, <1>23, <2>4, <3>1
  <2>6. ShowsWith(T, c, f, M)
    BY <1>10, <2>5, ShowsAtLast
  <2>7. y \in ClearPostProcessing(x, f)
    BY <1>9, <1>23
  <2> QED
    BY <1>1, <2>3, <2>6, <2>7, ClearPostIs DEF c
<1> QED
  BY <1>20, <1>21, <1>22, <1>23

\* The words behind the command are back: nothing is in the swap page only.
LEMMA AfterRestoreTailIs ==
  ASSUME TableOK(m_app_table), NEW x, x.m_state = "DATA_ERASE_WITH_SWAP",
         x.m_swap_sub_state = "RESTORE_TAIL", NEW f, NEW M, Ended(m_app_table, x, f, M),
         NEW y \in ClearPostProcessing(x, f)
  PROVE  EngineInv(m_app_table, y, f) /\ Outcome(m_app_table, x.m_cmd_queue, M, y, f)
<1> DEFINE T == m_app_table
           c == Cmd(x)
           here == "RESTORE_TAIL"
<1>1. /\ c.op_code \in {"update", "clear"} /\ x.m_tail_word_size = TailIn(T, c)
      /\ x.m_app_data_size = c.size /\ Legal(T, c)
      /\ Place(c, here, x.m_current_page_id, x.m_head_word_size, x.m_tail_word_size, x.m_flags)
      /\ ShowsAt(T, c, here, x.m_current_page_id, f, M)
      /\ HeldAt(c, here, x.m_current_page_id, f)
      /\ First(c) \in Nat /\ LastPage(c) \in Nat /\ First(c) <= LastPage(c)
      /\ IsEngine(x) /\ Ready(T, x) /\ Sound(T, x)
  BY EndedIs DEF Ended
<1>2. PICK p \in Nat : p = x.m_current_page_id
  BY <1>1 DEF Sound
<1>3. TailRestored(c, x.m_tail_word_size, f)
  BY DEF Ended, Done
<1> HIDE DEF c
<1>4. p = LastPage(c) + 1 /\ LastPage(c) < p
  BY <1>1, <1>2 DEF Place
<1>5. Cleared(c, p, f)
  BY <1>1, <1>2 DEF HeldAt
<1>6. \A a \in Span(c) : f[a] = Erased
  BY <1>1, <1>4, <1>5, ClearedAll
<1>7. PICK s \in Nat, n \in Nat : s = Start(c) /\ n = CmdEnd(c) /\ s < n
  BY <1>1, LegalIs
<1>8. ASSUME NEW a \in DataWords, IsOwned(T, a), a \notin Span(c)
      PROVE  KeptAt(c, here, p, f, a) = f[a]
  <2> SUFFICES ASSUME Page(a) = LastPage(c), n <= a PROVE f[a] = SwapWord(f, a)
    BY <1>7, WordIs DEF KeptAt, SwappedAt
  <2>1. Page(a) \in First(c) .. LastPage(c)
    BY <1>1
  <2>2. \/ a < s
        \/ CmdEnd(c) <= a /\ a < CmdEnd(c) + TailIn(T, c)
    BY <1>1, <1>7, <1>8, <2>1, Outside
  <2>3. a \in Nat
    BY WordIs
  <2>4. CmdEnd(c) <= a /\ a < CmdEnd(c) + x.m_tail_word_size
    BY <1>1, <1>7, <2>2, <2>3
  <2> QED
    BY <1>3, <2>4 DEF TailRestored
<1>9. ShowsAt(T, c, here, p, f, M)
  BY <1>1, <1>2
<1>10. ShowsWith(T, c, f, M)
  BY <1>8, <1>9, ShowsAtLast
<1> QED
  BY <1>1, <1>6, <1>10, ClearPostIs DEF c

(***************************************************************************)
(* The operation outstanding.                                              *)
(***************************************************************************)
\* The erase of the swap page.
SwapErase(x, op) == /\ op.dst = SwapAddr /\ x.m_state = "DATA_ERASE_WITH_SWAP"
                    /\ x.m_swap_sub_state = "ERASE_SWAP"

\* The operation of a place is an erase or a write; what is erased is a page of the command
\* or the swap page.
LEMMA OpIs ==
  ASSUME NEW T, TableOK(T), NEW x, Sound(T, x), x.m_cmd_queue # <<>>, Position(T, x),
         NEW f, NEW op, IsOpOf(x, f, op)
  PROVE  /\ op.kind \in {"erase", "write"} /\ op # NoOp /\ op # Other
         /\ op.kind = "erase" => \/ SwapErase(x, op)
                                 \/ Page(op.dst) \in First(Cmd(x)) .. LastPage(Cmd(x))
<1>1. /\ Legal(T, Cmd(x)) /\ x.m_current_page_id \in Nat /\ x.m_swap_sub_state \in SubStates
      /\ x.m_state \in Running
  BY CmdIs DEF Sound, Position
<1>2. /\ First(Cmd(x)) \in Nat /\ LastPage(Cmd(x)) \in Nat /\ PSTORAGE_NUM_OF_PAGES \in Nat
  BY <1>1, LegalIs, SwapIs
<1>3. ASSUME NEW p \in Nat
      PROVE  PageErase(p).kind = "erase" /\ Page(PageErase(p).dst) = p
  <2>1. PICK a \in Nat : a = At(p)
    BY AtIs
  <2>2. a < a + PageSize
    BY SwapIs
  <2>3. Page(At(p)) = p
    BY <2>1, <2>2, PageIsAt
  <2> QED
    BY <2>3 DEF PageErase, At
<1>4. \A d, w : Write(d, w).kind = "write"
  BY DEF Write
<1>5. CASE op.kind \in {"erase", "write"} /\
           (op.kind = "erase" => \/ SwapErase(x, op)
                                 \/ Page(op.dst) \in First(Cmd(x)) .. LastPage(Cmd(x)))
  BY <1>5 DEF NoOp, Other
<1>6. CASE x.m_state = "STORE"
  <2>1. op.kind = "write"
    BY <1>4, <1>6 DEF IsOpOf, StoreOp
  <2> QED
    BY <1>5, <2>1
<1>7. CASE x.m_state = "DATA_ERASE"
  <2>1. op = PageErase(x.m_current_page_id)
    BY <1>7 DEF IsOpOf
  <2>2. First(Cmd(x)) <= x.m_current_page_id /\ x.m_current_page_id <= LastPage(Cmd(x))
    BY <1>7 DEF Position
  <2> QED
    BY <1>1, <1>2, <1>3, <1>5, <2>1, <2>2
<1>8. CASE x.m_state = "DATA_ERASE_WITH_SWAP"
  <2>1. op = SubOp(x, x.m_swap_sub_state, f)
    BY <1>8 DEF IsOpOf
  <2>2. CASE x.m_swap_sub_state = "ERASE_SWAP"
    <3>1. op = PageErase(PSTORAGE_NUM_OF_PAGES)
      BY <2>1, <2>2, SwapIs DEF SubOp
    <3>2. op.dst = SwapAddr
      BY <3>1, SwapIs DEF PageErase, At
    <3>3. SwapErase(x, op)
      BY <1>8, <2>2, <3>2 DEF SwapErase
    <3> QED
      BY <1>2, <1>3, <1>5, <3>1, <3>3
  <2>3. CASE x.m_swap_sub_state = "ERASE_DATA_PAGE"
    <3>1. op = PageErase(x.m_current_page_id)
      BY <2>1, <2>3 DEF SubOp
    <3>2. First(Cmd(x)) <= x.m_current_page_id /\ x.m_current_page_id <= LastPage(Cmd(x))
      BY <1>1, <1>8, <2>3, PlaceIs
    <3> QED
      BY <1>1, <1>2, <1>3, <1>5, <3>1, <3>2
  <2>4. CASE x.m_swap_sub_state \in {"WRITE_DATA_TO_SWAP", "RESTORE_HEAD", "RESTORE_TAIL"}
    <3>1. op.kind = "write"
      BY <1>4, <2>1, <2>4 DEF SubOp, Copy
    <3> QED
      BY <1>5, <3>1
  <2> QED
    BY <1>1, <2>2, <2>3, <2>4 DEF SubStates
<1> QED
  BY <1>1, <1>6, <1>7, <1>8 DEF Running

\* An engine at work has an operation outstanding: its own, or, if busy, another user's.
LEMMA AtWorkIs ==
  ASSUME NEW T, TableOK(T), NEW x, NEW f, EngineInv(T, x, f), x.m_state \in Running
  PROVE  /\ Sound(T, x) /\ IsEngine(x) /\ x.m_cmd_queue # <<>> /\ Position(T, x) /\ Contents(x, f)
         /\ x.m_num_of_command_retries < SD_CMD_MAX_TRIES
         /\ IF Busy(x) THEN x.sd = Other ELSE IsOpOf(x, f, x.sd) /\ x.sd.kind \in {"erase", "write"}
         /\ x.sd # NoOp
<1>1. x.m_state # "IDLE" /\ x.m_state # "ERROR"
  BY DEF Running
<1>2. /\ Sound(T, x) /\ x.m_cmd_queue # <<>> /\ Position(T, x) /\ Contents(x, f)
      /\ x.m_num_of_command_retries < SD_CMD_MAX_TRIES
      /\ IF Busy(x) THEN x.sd = Other ELSE IsOpOf(x, f, x.sd)
  BY <1>1 DEF EngineInv
<1>3. ~Busy(x) => x.sd.kind \in {"erase", "write"} /\ x.sd # NoOp
  BY <1>2, OpIs
<1>4. Other # NoOp
  <2>1. Other.kind = "other" /\ NoOp.kind = "none"
    BY DEF Other, NoOp
  <2> QED
    BY <2>1
<1> QED
  BY <1>2, <1>3, <1>4 DEF Sound

(***************************************************************************)
(* The end of the operation of a state: how the machine is found.          *)
(***************************************************************************)
\* The end of an operation, or of a first part of it, as the next handler finds it.
LEMMA EventIs ==
  ASSUME NEW T, TableOK(T), NEW x, x.m_state \in Running, EngineInv(T, x, flash),
         NEW M, Shows(T, x, flash, M), flash \in [FlashWords -> Value],
         NEW part, NEW g, g = Applied(x.sd, part),
         NEW z, z = [x EXCEPT !.sd = NoOp],
         NEW l, l = Lower(z, "FLASH_API_ERR_BUSY")
  PROVE  /\ z.m_state = x.m_state /\ z.m_swap_sub_state = x.m_swap_sub_state
         /\ z.m_cmd_queue = x.m_cmd_queue /\ Sound(T, z) /\ (Busy(z) <=> Busy(x))
         /\ Busy(x) => /\ Ready(T, l) /\ Position(T, l) /\ Contents(l, g) /\ Shows(T, l, g, M)
                       /\ l.m_cmd_queue = x.m_cmd_queue /\ l.m_state = x.m_state
         /\ ~Busy(x) => /\ Ready(T, z) /\ Position(T, z) /\ Contents(z, g) /\ Shows(T, z, g, M)
                        /\ FlashWords \subseteq part => Ended(T, z, g, M)
         /\ FlashOK(g)
<1>1. /\ Sound(T, x) /\ IsEngine(x) /\ x.m_cmd_queue # <<>> /\ Position(T, x) /\ Contents(x, flash)
      /\ x.m_num_of_command_retries < SD_CMD_MAX_TRIES
      /\ IF Busy(x) THEN x.sd = Other ELSE IsOpOf(x, flash, x.sd)
  BY AtWorkIs
<1>2. /\ IsEngine(z) /\ z.m_state = x.m_state /\ z.m_cmd_queue = x.m_cmd_queue
      /\ z.sent = x.sent /\ z.sd = NoOp /\ z.m_flags = x.m_flags
      /\ SameBut(x, z)
  BY <1>1 DEF IsEngine, Fields, SameBut
<1>3. Sound(T, z) /\ (Busy(z) <=> Busy(x)) /\ z.m_swap_sub_state = x.m_swap_sub_state
  BY <1>1, <1>2 DEF Sound, SameBut, Busy
<1>4. Cmd(z) = Cmd(x)
  BY <1>2 DEF Cmd
<1>5. /\ IsEngine(l) /\ l.m_state = x.m_state /\ l.m_cmd_queue = x.m_cmd_queue
      /\ l.sent = x.sent /\ l.sd = NoOp /\ l.m_flags = x.m_flags \ {"FLASH_API_ERR_BUSY"}
      /\ SameBut(x, l)
  BY <1>1, <1>2 DEF IsEngine, Fields, SameBut, Lower
<1>6. Cmd(l) = Cmd(x)
  BY <1>5 DEF Cmd
<1>7. FlashOK(flash)
  BY DEF FlashOK
<1>8. CASE Busy(x)
  <2>1. g = flash
    BY <1>1, <1>8, AppliedOther
  <2>2. l.m_flags \cup {"FLASH_API_ERR_BUSY"} = x.m_flags \cup {"FLASH_API_ERR_BUSY"}
    BY <1>5
  <2>3. Position(T, l) /\ Contents(l, flash) /\ Shows(T, l, flash, M)
    BY <1>1, <1>5, <1>6, <2>2, CarriedIs
  <2>4. ~Busy(l) /\ l.m_flags \subseteq Flags
    BY <1>1, <1>5 DEF Busy, Sound
  <2>5. Sound(T, l)
    BY <1>1, <1>5, <2>4 DEF Sound, SameBut
  <2>6. Ready(T, l)
    BY <1>1, <1>5, <2>4, <2>5 DEF Ready, SameBut
  <2> QED
    BY <1>2, <1>3, <1>5, <1>7, <1>8, <2>1, <2>3, <2>6
<1>9. CASE ~Busy(x)
  <2>1. Worked(T, x, flash, g, M, part)
    BY <1>1, <1>9, OperationWorks
  <2>2. Contents(x, g) /\ Shows(T, x, g, M) /\ FlashOK(g) /\ (FlashWords \subseteq part => Done(T, x, g, M))
    BY <1>7, <2>1 DEF Worked
  <2>3. Position(T, z) /\ Contents(z, g) /\ Shows(T, z, g, M)
    BY <1>1, <1>2, <1>4, <2>2, CarriedIs
  <2>4. Ready(T, z)
    BY <1>1, <1>2, <1>3, <1>9 DEF Ready, SameBut
  <2>5. Done(T, x, g, M) => Done(T, z, g, M)
    BY <1>2, <1>4 DEF Done, SameBut
  <2> QED
    BY <1>2, <1>3, <1>9, <2>2, <2>3, <2>4, <2>5 DEF Ended
<1> QED
  BY <1>8, <1>9

(***************************************************************************)
(* The steps: what each makes of the engine, the flash and the memory.     *)
(***************************************************************************)
Good(M) == /\ TableOK(m_app_table) /\ EngineInv(m_app_table, e, flash)
           /\ flash \in [FlashWords -> Value] /\ Shows(m_app_table, e, flash, M)
Stepped(M) == /\ m_app_table' = m_app_table /\ restarts' = restarts
              /\ EngineInv(m_app_table, e', flash') /\ flash' \in [FlashWords -> Value]
              /\ Outcome(m_app_table, e.m_cmd_queue, M, e', flash')

\* The flash is a function on its words.
LEMMA AppliedTyped ==
  ASSUME NEW op, NEW part, NEW g, g = Applied(op, part), FlashOK(g)
  PROVE  g \in [FlashWords -> Value]
<1>1. \E F : g = [a \in FlashWords |-> F[a]]
  BY DEF Applied
<1> QED
  BY <1>1 DEF FlashOK

\* The end of an operation of a state, given what follows in that state.
LEMMA SucceedsIs ==
  ASSUME NEW M, Good(M), e.m_state \in Running,
         NEW x, x = [e EXCEPT !.sd = NoOp],
         flash' = Applied(e.sd, FlashWords), m_app_table' = m_app_table, restarts' = restarts,
         NEW S, e' \in IF Busy(x) THEN Again(Lower(x, "FLASH_API_ERR_BUSY"), flash') ELSE S,
         Ended(m_app_table, x, flash', M) /\ x.m_state = e.m_state
           /\ x.m_swap_sub_state = e.m_swap_sub_state =>
             \A y \in S : /\ EngineInv(m_app_table, y, flash')
                         /\ Outcome(m_app_table, x.m_cmd_queue, M, y, flash')
  PROVE  Stepped(M)
<1> DEFINE T == m_app_table
<1>1. PICK l : l = Lower(x, "FLASH_API_ERR_BUSY")
  OBVIOUS
<1>2. PICK g : g = flash'
  OBVIOUS
<1>3. /\ TableOK(T) /\ EngineInv(T, e, flash) /\ Shows(T, e, flash, M)
      /\ flash \in [FlashWords -> Value]
  BY DEF Good
<1>4. g = Applied(e.sd, FlashWords) /\ FlashWords \subseteq FlashWords
  BY <1>2
<1>5. /\ x.m_state = e.m_state /\ x.m_swap_sub_state = e.m_swap_sub_state
      /\ x.m_cmd_queue = e.m_cmd_queue /\ (Busy(x) <=> Busy(e))
      /\ Busy(e) => /\ Ready(T, l) /\ Position(T, l) /\ Contents(l, g) /\ Shows(T, l, g, M)
                    /\ l.m_cmd_queue = e.m_cmd_queue
      /\ ~Busy(e) => Ended(T, x, g, M)
      /\ FlashOK(g)
  BY <1>1, <1>3, <1>4, EventIs
<1>6. g \in [FlashWords -> Value]
  BY <1>4, <1>5, AppliedTyped
<1>7. CASE Busy(e)
  <2>1. e' \in Again(l, g)
    BY <1>1, <1>2, <1>5, <1>7
  <2>2. EngineInv(T, e', g) /\ Outcome(T, l.m_cmd_queue, M, e', g)
    BY <1>3, <1>5, <1>7, <2>1, AgainIs
  <2> QED
    BY <1>2, <1>5, <1>6, <1>7, <2>2 DEF Stepped
<1>8. CASE ~Busy(e)
  <2>1. e' \in S
    BY <1>5, <1>8
  <2>2. EngineInv(T, e', g) /\ Outcome(T, x.m_cmd_queue, M, e', g)
    BY <1>2, <1>5, <1>8, <2>1
  <2> QED
    BY <1>2, <1>5, <1>6, <2>2 DEF Stepped
<1> QED
  BY <1>7, <1>8

\* Every handler of a success.
LEMMA DoneIs ==
  ASSUME NEW M, Good(M),
         StoreDone \/ DataEraseDone \/ EraseSwapDone \/ WriteToSwapDone \/ PageEraseDone
           \/ RestoreHeadDone \/ RestoreTailDone
  PROVE  Stepped(M)
<1> DEFINE T == m_app_table
           x == [e EXCEPT !.sd = NoOp]
           Ends(S) == /\ e.m_state \in Running /\ flash' = Applied(e.sd, FlashWords)
                      /\ m_app_table' = m_app_table /\ restarts' = restarts
                      /\ e' \in IF Busy(x) THEN Again(Lower(x, "FLASH_API_ERR_BUSY"), flash') ELSE S
           Follow(S) == Ended(T, x, flash', M) /\ x.m_state = e.m_state
                          /\ x.m_swap_sub_state = e.m_swap_sub_state =>
                            \A y \in S : /\ EngineInv(T, y, flash')
                                        /\ Outcome(T, x.m_cmd_queue, M, y, flash')
<1>1. ASSUME NEW S, Ends(S), Follow(S) PROVE Stepped(M)
  <2>1. PICK v : v = x
    OBVIOUS
  <2> QED
    BY <1>1, <2>1, SucceedsIs
<1>2. TableOK(m_app_table)
  BY DEF Good
<1>3. CASE StoreDone
  <2>1. Ends(AfterStore(x, flash')) /\ e.m_state = "STORE"
    BY <1>3 DEF StoreDone, Succeeds, Running
  <2>2. Follow(AfterStore(x, flash'))
    <3> HIDE DEF x
    <3> QED
      BY <1>2, <2>1, AfterStoreIs
  <2> QED
    BY <1>1, <2>1, <2>2
<1>4. CASE DataEraseDone
  <2>1. Ends(AfterDataErase(x, flash')) /\ e.m_state = "DATA_ERASE"
    BY <1>4 DEF DataEraseDone, Succeeds, Running
  <2>2. Follow(AfterDataErase(x, flash'))
    <3> HIDE DEF x
    <3> QED
      BY <1>2, <2>1, AfterDataEraseIs
  <2> QED
    BY <1>1, <2>1, <2>2
<1>5. CASE EraseSwapDone
  <2>1. /\ Ends(SubEntry(x, "WRITE_DATA_TO_SWAP", flash'))
        /\ e.m_state = "DATA_ERASE_WITH_SWAP" /\ e.m_swap_sub_state = "ERASE_SWAP"
    BY <1>5 DEF EraseSwapDone, Succeeds, Running, InSub
  <2>2. Follow(SubEntry(x, "WRITE_DATA_TO_SWAP", flash'))
    <3> HIDE DEF x
    <3> QED
      BY <1>2, <2>1, AfterEraseSwapIs
  <2> QED
    BY <1>1, <2>1, <2>2
<1>6. CASE WriteToSwapDone
  <2>1. /\ Ends(AfterWriteToSwap(x, flash'))
        /\ e.m_state = "DATA_ERASE_WITH_SWAP" /\ e.m_swap_sub_state = "WRITE_DATA_TO_SWAP"
    BY <1>6 DEF WriteToSwapDone, Succeeds, Running, InSub
  <2>2. Follow(AfterWriteToSwap(x, flash'))
    <3> HIDE DEF x
    <3> QED
      BY <1>2, <2>1, AfterWriteToSwapIs
  <2> QED
    BY <1>1, <2>1, <2>2
<1>7. CASE PageEraseDone
  <2>1. /\ Ends(AfterPageErase(x, flash'))
        /\ e.m_state = "DATA_ERASE_WITH_SWAP" /\ e.m_swap_sub_state = "ERASE_DATA_PAGE"
    BY <1>7 DEF PageEraseDone, Succeeds, Running, InSub
  <2>2. Follow(AfterPageErase(x, flash'))
    <3> HIDE DEF x
    <3> QED
      BY <1>2, <2>1, AfterPageEraseIs
  <2> QED
    BY <1>1, <2>1, <2>2
<1>8. CASE RestoreHeadDone
  <2>1. /\ Ends(AfterRestoreHead(x, flash'))
        /\ e.m_state = "DATA_ERASE_WITH_SWAP" /\ e.m_swap_sub_state = "RESTORE_HEAD"
    BY <1>8 DEF RestoreHeadDone, Succeeds, Running, InSub
  <2>2. Follow(AfterRestoreHead(x, flash'))
    <3> HIDE DEF x
    <3> QED
      BY <1>2, <2>1, AfterRestoreHeadIs
  <2> QED
    BY <1>1, <2>1, <2>2
<1>9. CASE RestoreTailDone
  <2>1. /\ Ends(ClearPostProcessing(x, flash'))
        /\ e.m_state = "DATA_ERASE_WITH_SWAP" /\ e.m_swap_sub_state = "RESTORE_TAIL"
    BY <1>9 DEF RestoreTailDone, Succeeds, Running, InSub
  <2>2. Follow(ClearPostProcessing(x, flash'))
    <3> HIDE DEF x
    <3> QED
      BY <1>2, <2>1, AfterRestoreTailIs
  <2> QED
    BY <1>1, <2>1, <2>2
<1> QED
  BY <1>3, <1>4, <1>5, <1>6, <1>7, <1>8, <1>9

\* A state that is neither IDLE nor ERROR is one at work.
LEMMA ActiveIs ==
  ASSUME NEW T, NEW x, NEW f, EngineInv(T, x, f), x.m_state \notin {"IDLE", "ERROR"}
  PROVE  x.m_state \in Running
BY DEF EngineInv

\* A failed operation is tried again, or the module fails (pstorage.c:1109-1166).
LEMMA FailsIs ==
  ASSUME NEW M, Good(M), FlashOperationFails
  PROVE  Stepped(M)
<1> DEFINE T == m_app_table
<1>1. PICK x : x = [e EXCEPT !.sd = NoOp]
  OBVIOUS
<1>2. PICK l : l = Lower(x, "FLASH_API_ERR_BUSY")
  OBVIOUS
<1>3. PICK y : y = [x EXCEPT !.m_num_of_command_retries = @ + 1]
  OBVIOUS
<1>4. /\ e.m_state \notin {"IDLE", "ERROR"}
      /\ e' \in IF Busy(x) THEN Again(l, flash')
                ELSE IF y.m_num_of_command_retries # SD_CMD_MAX_TRIES THEN Again(y, flash')
                ELSE NotifyErrorTransit(y)
      /\ m_app_table' = m_app_table /\ restarts' = restarts
  BY <1>1, <1>2, <1>3 DEF FlashOperationFails
<1>5. PICK part : flash' = Applied(e.sd, part)
  BY DEF FlashOperationFails
<1>6. PICK g : g = flash'
  OBVIOUS
<1>7. /\ TableOK(T) /\ EngineInv(T, e, flash) /\ Shows(T, e, flash, M)
      /\ flash \in [FlashWords -> Value]
  BY DEF Good
<1>8. e.m_state \in Running /\ g = Applied(e.sd, part)
  BY <1>4, <1>5, <1>6, <1>7, ActiveIs
<1>9. /\ x.m_state = e.m_state /\ x.m_swap_sub_state = e.m_swap_sub_state
      /\ x.m_cmd_queue = e.m_cmd_queue /\ Sound(T, x) /\ (Busy(x) <=> Busy(e))
      /\ Busy(e) => /\ Ready(T, l) /\ Position(T, l) /\ Contents(l, g) /\ Shows(T, l, g, M)
                    /\ l.m_cmd_queue = e.m_cmd_queue
      /\ ~Busy(e) => Ready(T, x) /\ Position(T, x) /\ Contents(x, g) /\ Shows(T, x, g, M)
      /\ FlashOK(g)
  BY <1>1, <1>2, <1>7, <1>8, EventIs
<1>10. g \in [FlashWords -> Value]
  BY <1>8, <1>9, AppliedTyped
<1> SUFFICES EngineInv(T, e', g) /\ Outcome(T, e.m_cmd_queue, M, e', g)
  BY <1>4, <1>6, <1>10 DEF Stepped
<1>11. CASE Busy(e)
  <2>1. e' \in Again(l, g)
    BY <1>4, <1>6, <1>9, <1>11
  <2> QED
    BY <1>7, <1>9, <1>11, <2>1, AgainIs
<1>12. CASE ~Busy(e)
  <2>1. PICK r \in Nat : r = x.m_num_of_command_retries /\ r < SD_CMD_MAX_TRIES
    BY <1>9, <1>12 DEF Ready, Sound
  <2>2. IsEngine(x) /\ SD_CMD_MAX_TRIES \in Nat
    BY <1>9, PstorageAssumption DEF Sound
  <2>3. PICK k \in Nat : k = r + 1 /\ k <= SD_CMD_MAX_TRIES
    BY <2>1, <2>2
  <2>4. /\ IsEngine(y) /\ y.m_state = x.m_state /\ y.m_cmd_queue = x.m_cmd_queue
        /\ y.sent = x.sent /\ y.sd = x.sd /\ y.m_flags = x.m_flags
        /\ y.m_swap_sub_state = x.m_swap_sub_state
        /\ y.m_head_word_size = x.m_head_word_size /\ y.m_tail_word_size = x.m_tail_word_size
        /\ y.m_current_page_id = x.m_current_page_id
        /\ y.m_num_of_command_retries = k
        /\ y.m_num_of_bytes_written = x.m_num_of_bytes_written
        /\ y.m_app_data_size = x.m_app_data_size
    BY <1>3, <2>1, <2>2, <2>3 DEF IsEngine, Fields
  <2>5. Cmd(y) = Cmd(x)
    BY <2>4 DEF Cmd
  <2>6. Sound(T, y) /\ y.m_cmd_queue # <<>> /\ y.sd \in {NoOp, Other} /\ ~Busy(y)
    BY <1>9, <1>12, <2>3, <2>4 DEF Ready, Sound, Busy
  <2>7. Position(T, y) /\ Contents(y, g) /\ Shows(T, y, g, M)
    <3>1. Position(T, x) => Position(T, y)
      BY <2>4, <2>5 DEF Position
    <3>2. Contents(x, g) => Contents(y, g)
      BY <2>4, <2>5 DEF Contents
    <3>3. \A a : SwappedIn(y, a) <=> SwappedIn(x, a)
      BY <2>4, <2>5 DEF SwappedIn
    <3>4. Shows(T, x, g, M) => Shows(T, y, g, M)
      BY <2>4, <2>5, <3>3 DEF Shows, Kept
    <3> QED
      BY <1>9, <1>12, <3>1, <3>2, <3>4
  <2>8. CASE k # SD_CMD_MAX_TRIES
    <3>0. k < SD_CMD_MAX_TRIES
      BY <2>2, <2>3, <2>8
    <3>1. Ready(T, y)
      BY <2>4, <2>6, <3>0 DEF Ready
    <3>2. e' \in Again(y, g)
      BY <1>4, <1>6, <1>9, <1>12, <2>4, <2>8
    <3> QED
      BY <1>7, <1>9, <2>4, <2>7, <3>1, <3>2, AgainIs
  <2>9. CASE k = SD_CMD_MAX_TRIES
    <3>1. PICK w : w = e' /\ w \in NotifyErrorTransit(y)
      BY <1>4, <1>9, <1>12, <2>4, <2>9
    <3>2. /\ IsEngine(w) /\ SameBut(y, w)
          /\ w.m_state = "ERROR" /\ w.sd = y.sd /\ w.m_flags = y.m_flags
          /\ Grew(T, y.m_cmd_queue, y.sent, w.m_cmd_queue, w.sent)
      BY <1>7, <2>6, <3>1, ErrorIs
    <3>3. /\ QueueOK(T, y.m_cmd_queue) /\ y.sent \in Nat /\ y.sent <= MaxCommands
          /\ (y.sent = 0 => y.m_cmd_queue = <<>>) /\ y.m_flags \subseteq Flags
      BY <2>6 DEF Sound
    <3>4. /\ QueueOK(T, w.m_cmd_queue) /\ w.sent \in Nat /\ w.sent <= MaxCommands
          /\ (w.sent = 0 => w.m_cmd_queue = <<>>)
          /\ w.m_cmd_queue # <<>> /\ Head(w.m_cmd_queue) = Head(y.m_cmd_queue)
      BY <2>6, <3>2, <3>3, GrewIs
    <3>5. Sound(T, w)
      BY <2>6, <3>2, <3>4 DEF Sound, SameBut
    <3>6. EngineInv(T, w, g)
      BY <2>6, <3>2, <3>4, <3>5 DEF EngineInv, Running, Busy
    <3>7. SafeBut(T, Cmd(y), g, M)
      BY <1>7, <2>6, <2>7, SafeIs
    <3>8. Cmd(w) = Cmd(y)
      BY <3>4 DEF Cmd
    <3> QED
      BY <3>1, <3>2, <3>6, <3>7, <3>8 DEF Outcome, Proceeds
  <2> QED
    BY <2>8, <2>9
<1> QED
  BY <1>11, <1>12

(***************************************************************************)
(* The steps that are not the end of an operation of its own.              *)
(***************************************************************************)
\* Out of work, what the clients see is the flash.
LEMMA AtRestIs ==
  ASSUME NEW T, NEW x, NEW f, NEW M, x.m_state \in {"IDLE", "ERROR"}
  PROVE  Shows(T, x, f, M) <=> AtRest(T, f, M)
<1>1. x.m_state \notin Running /\ \A a : ~SwappedIn(x, a)
  BY DEF Running, SwappedIn
<1> QED
  BY <1>1 DEF Shows, AtRest, Kept

\* The event of another user while nothing is at work changes nothing for the clients.
LEMMA IgnoredIs ==
  ASSUME NEW M, Good(M), EventIgnored
  PROVE  /\ EngineInv(m_app_table, e', flash) /\ Shows(m_app_table, e', flash, M)
         /\ e'.m_cmd_queue = e.m_cmd_queue /\ e'.m_state = e.m_state
<1> DEFINE T == m_app_table
<1>1. PICK y : y = e'
  OBVIOUS
<1>2. /\ EngineInv(T, e, flash) /\ Shows(T, e, flash, M)
  BY DEF Good
<1>3. e.m_state \in {"IDLE", "ERROR"} /\ y = [e EXCEPT !.sd = NoOp]
  BY <1>1 DEF EventIgnored
<1>4. Sound(T, e) /\ IsEngine(e) /\ ~Busy(e)
  BY <1>2, <1>3 DEF EngineInv, Sound, Running
<1>5. /\ IsEngine(y) /\ y.m_state = e.m_state /\ y.m_cmd_queue = e.m_cmd_queue
      /\ y.sent = e.sent /\ y.sd = NoOp /\ y.m_flags = e.m_flags
      /\ SameBut(e, y)
  BY <1>3, <1>4 DEF IsEngine, Fields, SameBut
<1>6. Sound(T, y) /\ ~Busy(y)
  BY <1>4, <1>5 DEF Sound, SameBut, Busy
<1>7. EngineInv(T, y, flash)
  BY <1>2, <1>3, <1>5, <1>6 DEF EngineInv, SameBut, Running
<1>8. Shows(T, y, flash, M)
  <2>1. AtRest(T, flash, M)
    BY <1>2, <1>3, AtRestIs
  <2>2. y.m_state \in {"IDLE", "ERROR"}
    BY <1>3, <1>5
  <2> QED
    BY <2>1, <2>2, AtRestIs
<1> QED
  BY <1>1, <1>5, <1>7, <1>8

\* Nor does the beginning of its operation.
LEMMA OtherUserIs ==
  ASSUME NEW M, Good(M), OtherUserBegins
  PROVE  /\ EngineInv(m_app_table, e', flash) /\ Shows(m_app_table, e', flash, M)
         /\ e'.m_cmd_queue = e.m_cmd_queue /\ e'.m_state = e.m_state
<1> DEFINE T == m_app_table
<1>1. PICK y : y = e'
  OBVIOUS
<1>2. /\ EngineInv(T, e, flash) /\ Shows(T, e, flash, M) /\ TableOK(T)
  BY DEF Good
<1>3. e.sd = NoOp /\ y = [e EXCEPT !.sd = Other, !.others = @ + 1]
  BY <1>1 DEF OtherUserBegins
<1>0. e.m_state \in {"IDLE", "ERROR"}
  <2>1. e.m_state \notin Running
    BY <1>2, <1>3, AtWorkIs
  <2> QED
    BY <1>2, <2>1, ActiveIs
<1>4. Sound(T, e) /\ IsEngine(e) /\ ~Busy(e)
  BY <1>0, <1>2 DEF EngineInv, Sound, Running
<1>5. /\ IsEngine(y) /\ y.m_state = e.m_state /\ y.m_cmd_queue = e.m_cmd_queue
      /\ y.sent = e.sent /\ y.sd = Other /\ y.m_flags = e.m_flags
      /\ SameBut(e, y)
  BY <1>3, <1>4 DEF IsEngine, Fields, SameBut
<1>6. Sound(T, y) /\ ~Busy(y)
  BY <1>4, <1>5 DEF Sound, SameBut, Busy
<1>7. EngineInv(T, y, flash)
  BY <1>0, <1>2, <1>5, <1>6 DEF EngineInv, SameBut, Running
<1>8. Shows(T, y, flash, M)
  BY <1>0, <1>2, <1>5, AtRestIs
<1> QED
  BY <1>1, <1>5, <1>7, <1>8

\* A command is put in the queue; the first one begins at once.
LEMMA EnqueueIs ==
  ASSUME NEW M, Good(M), CmdQueueEnqueue
  PROVE  \E c \in CommandSet, q \in Seq(CommandSet) :
           /\ Legal(m_app_table, c) /\ q = Append(e.m_cmd_queue, c)
           /\ EngineInv(m_app_table, e', flash)
           /\ e.m_cmd_queue # <<>> => /\ e'.m_cmd_queue = q /\ e'.m_state = e.m_state
                                      /\ Shows(m_app_table, e', flash, M)
           /\ e.m_cmd_queue = <<>> =>
                /\ e.m_state = "IDLE"
                /\ \A N : ShowsWith(m_app_table, c, flash, N)
                            => Proceeds(m_app_table, q, N, e', flash)
<1> DEFINE T == m_app_table
<1>1. PICK y : y = e'
  OBVIOUS
<1>2. /\ EngineInv(T, e, flash) /\ Shows(T, e, flash, M) /\ TableOK(T)
  BY DEF Good
<1>3. Sound(T, e) /\ IsEngine(e) /\ QueueOK(T, e.m_cmd_queue) /\ e.sent \in Nat
  BY <1>2 DEF EngineInv, Sound
<1>4. e.sent < MaxCommands /\ Len(e.m_cmd_queue) # PSTORAGE_CMD_QUEUE_SIZE
  BY DEF CmdQueueEnqueue
<1>5. PICK k \in Nat : k = e.sent + 1 /\ k <= MaxCommands /\ k # 0
  BY <1>3, <1>4, PstorageAssumption
<1>6. PICK c \in Accepted(k) : y \in LET x == [e EXCEPT !.m_cmd_queue = Append(@, c), !.sent = @ + 1]
                                     IN IF x.m_state = "IDLE" THEN CmdProcess(x, flash) ELSE {x}
  BY <1>1, <1>5 DEF CmdQueueEnqueue
<1>7. Legal(T, c) /\ c \in CommandSet
  BY <1>2, <1>5, AcceptedIsLegal DEF Legal
<1>8. PICK q \in Seq(CommandSet) : q = Append(e.m_cmd_queue, c) /\ Len(q) <= PSTORAGE_CMD_QUEUE_SIZE
  <2>1. PICK s \in Seq(CommandSet) : s = e.m_cmd_queue /\ Len(s) <= PSTORAGE_CMD_QUEUE_SIZE
    BY <1>3 DEF QueueOK
  <2> HIDE DEF CommandSet
  <2>2. PICK n \in Nat : n = Len(s)
    BY <2>1
  <2>3. n + 1 <= PSTORAGE_CMD_QUEUE_SIZE
    BY <1>4, <2>1, <2>2, PstorageAssumption
  <2>4. Append(s, c) \in Seq(CommandSet) /\ Len(Append(s, c)) = n + 1
    BY <1>7, <2>1, <2>2
  <2> QED
    BY <2>1, <2>3, <2>4
<1>9. PICK x : x = [e EXCEPT !.m_cmd_queue = Append(@, c), !.sent = @ + 1]
  OBVIOUS
<1>10. /\ IsEngine(x) /\ x.m_state = e.m_state /\ x.m_cmd_queue = q
       /\ x.sent = k /\ x.sd = e.sd /\ x.m_flags = e.m_flags /\ SameBut(e, x)
  <2>1. Append(e.m_cmd_queue, c) = q /\ e.sent + 1 = k
    BY <1>5, <1>8
  <2>2. x = [e EXCEPT !.m_cmd_queue = q, !.sent = k]
    BY <1>9, <2>1
  <2> QED
    BY <1>3, <2>2 DEF IsEngine, Fields, SameBut
<1>11. y \in IF x.m_state = "IDLE" THEN CmdProcess(x, flash) ELSE {x}
  BY <1>6, <1>9
<1>12. Grew(T, e.m_cmd_queue, e.sent, q, k)
  BY <1>5, <1>7, <1>8 DEF Grew
<1>13. /\ QueueOK(T, q) /\ (e.m_cmd_queue # <<>> => Head(q) = Head(e.m_cmd_queue))
  <2>1. e.sent <= MaxCommands
    BY <1>3 DEF Sound
  <2> QED
    BY <1>3, <1>12, <2>1, GrewIs
<1>14. q # <<>> /\ (e.m_cmd_queue = <<>> => Head(q) = c)
  <2> HIDE DEF CommandSet
  <2>1. PICK s \in Seq(CommandSet) : s = e.m_cmd_queue
    BY <1>3 DEF QueueOK
  <2>2. q = Append(s, c) /\ Len(q) = Len(s) + 1 /\ Len(s) \in Nat
    BY <1>7, <1>8, <2>1
  <2>3. s = <<>> => q[1] = c
    BY <1>7, <2>2
  <2> QED
    BY <1>8, <2>1, <2>2, <2>3
<1>15. Sound(T, x) /\ (Busy(x) <=> Busy(e))
  BY <1>3, <1>5, <1>10, <1>13 DEF Sound, SameBut, Busy
<1>16. CASE e.m_cmd_queue # <<>>
  <2>1. e.m_state # "IDLE" /\ y = x
    BY <1>2, <1>10, <1>11, <1>16 DEF EngineInv
  <2>2. Cmd(x) = Cmd(e)
    BY <1>10, <1>13, <1>16 DEF Cmd
  <2>3. /\ Position(T, e) => Position(T, x)
        /\ Contents(e, flash) => Contents(x, flash)
        /\ Shows(T, x, flash, M)
        /\ IsOpOf(e, flash, e.sd) => IsOpOf(x, flash, x.sd)
    BY <1>2, <1>10, <2>2, CarriedIs
  <2>4. EngineInv(T, x, flash)
    BY <1>2, <1>10, <1>14, <1>15, <2>1, <2>3 DEF EngineInv, SameBut
  <2> QED
    BY <1>1, <1>7, <1>8, <1>10, <1>16, <2>1, <2>3, <2>4
<1>17. CASE e.m_cmd_queue = <<>>
  <2>1. e.m_state = "IDLE"
    BY <1>2, <1>17 DEF EngineInv
  <2>2. y \in CmdProcess(x, flash)
    BY <1>10, <1>11, <2>1
  <2>3. Ready(T, x)
    BY <1>2, <1>10, <1>14, <1>15, <2>1 DEF Ready, EngineInv, Running, SameBut
  <2>4. Cmd(x) = c
    BY <1>10, <1>14, <1>17 DEF Cmd
  <2>5. ASSUME NEW N, ShowsWith(T, c, flash, N)
        PROVE  EngineInv(T, y, flash) /\ Proceeds(T, q, N, y, flash)
    BY <1>2, <1>10, <2>2, <2>3, <2>4, <2>5, CmdProcessIs
  <2> DEFINE N0 == [a \in DataWords |-> IF ~IsOwned(T, a) THEN Erased
                                        ELSE IF a \in Span(c) THEN Result(c, a, flash[a]) ELSE flash[a]]
  <2>6. ShowsWith(T, c, flash, N0)
    BY DEF ShowsWith
  <2> HIDE DEF N0
  <2>7. EngineInv(T, y, flash)
    BY <2>5, <2>6
  <2> QED
    BY <1>1, <1>7, <1>8, <1>17, <2>1, <2>5, <2>7
<1> QED
  BY <1>16, <1>17

\* What a loss of power leaves: words outside the pages of the running command are safe.
LEMMA PowerLossIs ==
  ASSUME NEW M, Good(M), PowerLoss
  PROVE  /\ EngineInv(m_app_table, e', flash') /\ flash' \in [FlashWords -> Value]
         /\ e'.m_state = "IDLE" /\ e'.m_cmd_queue = <<>>
         /\ e.m_state \in Running => SafeBut(m_app_table, Cmd(e), flash', M)
         /\ e.m_state \notin Running => flash' = flash
<1> DEFINE T == m_app_table
<1>1. PICK y : y = e'
  OBVIOUS
<1>2. /\ EngineInv(T, e, flash) /\ Shows(T, e, flash, M) /\ TableOK(T)
      /\ flash \in [FlashWords -> Value]
  BY DEF Good
<1>3. PICK part : flash' = Applied(e.sd, part)
  BY DEF PowerLoss
<1>4. PICK g : g = flash' /\ g = Applied(e.sd, part)
  BY <1>3
<1>5. y = [Engine EXCEPT !.sent = e.sent, !.others = e.others]
  BY <1>1 DEF PowerLoss
<1>6. /\ IsEngine(y) /\ y.m_state = "IDLE" /\ y.m_cmd_queue = <<>>
      /\ y.sent = e.sent /\ y.sd = NoOp /\ y.m_flags = {}
      /\ y.m_swap_sub_state = "ERASE_SWAP"
      /\ y.m_head_word_size = 0 /\ y.m_tail_word_size = 0
      /\ y.m_current_page_id = 0
      /\ y.m_num_of_command_retries = 0
  BY <1>5 DEF IsEngine, Fields, Engine
<1>7. EngineInv(T, y, g)
  <2>1. QueueOK(T, <<>>)
    <3> HIDE DEF CommandSet
    <3>1. <<>> \in Seq(CommandSet) /\ Len(<<>>) = 0
      OBVIOUS
    <3> QED
      BY <3>1, PstorageAssumption DEF QueueOK
  <2>2. e.sent \in Nat /\ e.sent <= MaxCommands
    BY <1>2 DEF EngineInv, Sound
  <2>3. Sound(T, y)
    BY <1>6, <2>1, <2>2, PstorageAssumption DEF Sound, SubStates
  <2> QED
    BY <1>6, <2>3, PstorageAssumption DEF EngineInv, Running, Busy
<1>8. CASE e.m_state \in Running
  <2>1. /\ Sound(T, e) /\ e.m_cmd_queue # <<>> /\ Position(T, e) /\ Contents(e, flash)
        /\ IF Busy(e) THEN e.sd = Other ELSE IsOpOf(e, flash, e.sd)
    BY <1>2, <1>8, AtWorkIs
  <2>2. FlashOK(flash)
    BY <1>2 DEF FlashOK
  <2>3. Shows(T, e, g, M) /\ FlashOK(g)
    <3>1. CASE Busy(e)
      <4>1. g = flash
        BY <1>2, <1>4, <2>1, <3>1, AppliedOther
      <4> QED
        BY <1>2, <2>2, <4>1
    <3>2. CASE ~Busy(e)
      <4>1. Worked(T, e, flash, g, M, part)
        BY <1>2, <1>4, <2>1, <3>2, OperationWorks
      <4> QED
        BY <2>2, <4>1 DEF Worked
    <3> QED
      BY <3>1, <3>2
  <2>4. SafeBut(T, Cmd(e), g, M)
    BY <1>2, <2>1, <2>3, SafeIs
  <2>5. g \in [FlashWords -> Value]
    BY <1>4, <2>3, AppliedTyped
  <2> QED
    BY <1>1, <1>4, <1>6, <1>7, <1>8, <2>4, <2>5
<1>9. CASE e.m_state \notin Running
  <2>1. e.sd \in {NoOp, Other}
    BY <1>2, <1>9 DEF EngineInv
  <2>2. g = flash
    BY <1>2, <1>4, <2>1, AppliedOther
  <2> QED
    BY <1>1, <1>2, <1>4, <1>6, <1>7, <1>9, <2>2
<1> QED
  BY <1>8, <1>9

\* A registration adds words and takes none.
LEMMA RegisteredIs ==
  ASSUME NEW M, Good(M), PstorageRegister
  PROVE  /\ TableOK(m_app_table') /\ EngineInv(m_app_table', e, flash)
         /\ e.m_state = "IDLE" /\ e.m_cmd_queue = <<>>
         /\ \A a : IsOwned(m_app_table, a) => IsOwned(m_app_table', a)
<1>1. /\ TableOK(m_app_table) /\ EngineInv(m_app_table, e, flash)
  BY DEF Good
<1>2. TableOK(m_app_table')
  BY <1>1, RegisterKeeps
<1>3. e.m_cmd_queue = <<>> /\ e.m_state = "IDLE"
  BY <1>1 DEF PstorageRegister, EngineInv, Sound
<1>4. PICK T : T = m_app_table'
  OBVIOUS
<1>5. EngineInv(T, e, flash)
  <2>1. QueueOK(T, e.m_cmd_queue)
    <3> HIDE DEF CommandSet
    <3>1. <<>> \in Seq(CommandSet) /\ Len(<<>>) = 0
      OBVIOUS
    <3> QED
      BY <1>3, <3>1, PstorageAssumption DEF QueueOK
  <2>2. Sound(T, e)
    BY <1>1, <2>1 DEF EngineInv, Sound
  <2> QED
    BY <1>1, <1>3, <2>2 DEF EngineInv, Running
<1>6. ASSUME NEW a, IsOwned(m_app_table, a) PROVE IsOwned(T, a)
  <2>1. PICK r : T = Append(m_app_table, r) /\ r \in ModuleSet
    <3>1. PICK r : T = Append(m_app_table, r)
      BY <1>4 DEF PstorageRegister
    <3>2. T \in Seq(ModuleSet) /\ m_app_table \in Seq(ModuleSet)
      BY <1>1, <1>2, <1>4 DEF TableOK
    <3> HIDE DEF ModuleSet
    <3> QED
      BY <3>1, <3>2
  <2>2. m_app_table \in Seq(ModuleSet)
    BY <1>1 DEF TableOK
  <2>3. PICK m \in 1 .. Len(m_app_table) : Within(m_app_table, m, a) /\ a \in Nat
    BY <1>6 DEF IsOwned
  <2> HIDE DEF ModuleSet
  <2>4. m \in 1 .. Len(T) /\ T[m] = m_app_table[m]
    BY <2>1, <2>2, <2>3
  <2> QED
    BY <2>3, <2>4 DEF IsOwned, Within, EndIn
<1> QED
  BY <1>2, <1>3, <1>4, <1>5, <1>6

Inv == /\ TableOK(m_app_table) /\ EngineInv(m_app_table, e, flash)
       /\ flash \in [FlashWords -> Value]
       /\ restarts \in 0 .. MaxRestarts

(***************************************************************************)
(* The memory of the clients.                                              *)
(***************************************************************************)
\* The words of the modules, as a set and by their bounds.
LEMMA OwnedIs ==
  ASSUME NEW T, TableOK(T), NEW O,
         O = UNION {T[m].base_id .. EndIn(T, m) - 1 : m \in DOMAIN T}
  PROVE  \A a : a \in O <=> IsOwned(T, a)
<1> SUFFICES ASSUME NEW a PROVE a \in O <=> IsOwned(T, a)
  OBVIOUS
<1>1. DOMAIN T = 1 .. Len(T)
  <2> HIDE DEF ModuleSet
  <2> QED
    BY DEF TableOK
<1>2. ASSUME NEW m \in 1 .. Len(T)
      PROVE  a \in T[m].base_id .. EndIn(T, m) - 1 <=> a \in Nat /\ Within(T, m, a)
  <2>1. PICK b \in Nat, n \in Nat : b = T[m].base_id /\ n = EndIn(T, m)
    BY ModuleIs
  <2>2. a \in b .. n - 1 <=> a \in Nat /\ b <= a /\ a < n
    OBVIOUS
  <2> QED
    BY <2>1, <2>2 DEF Within
<1>3. a \in O <=> \E m \in 1 .. Len(T) : a \in T[m].base_id .. EndIn(T, m) - 1
  BY <1>1
<1> QED
  BY <1>2, <1>3 DEF IsOwned

\* The memory of the refinement is what the clients see,
LEMMA MemIs ==
  ASSUME TableOK(m_app_table), EngineInv(m_app_table, e, flash)
  PROVE  /\ Shows(m_app_table, e, flash, Mem) /\ Mem = [a \in DataWords |-> Mem[a]]
         /\ \A a : a \in Owned <=> IsOwned(m_app_table, a)
<1>1. \A a : a \in Owned <=> IsOwned(m_app_table, a)
  <2>1. Owned = UNION {m_app_table[m].base_id .. EndIn(m_app_table, m) - 1 : m \in DOMAIN m_app_table}
    BY DEF Owned, EndOfStorage, EndIn, BlockSize
  <2> QED
    BY <2>1, OwnedIs
<1>2. \A a : InSwap(a) <=> SwappedIn(e, a)
  BY DEF InSwap, SwappedIn
<1>3. e.m_state \notin {"IDLE", "ERROR"} <=> e.m_state \in Running
  BY DEF EngineInv, Running
<1>4. \A a \in DataWords : Mem[a] = IF ~IsOwned(m_app_table, a) THEN Erased
                                    ELSE IF e.m_state \in Running /\ a \in Span(Cmd(e))
                                    THEN Result(Cmd(e), a, flash[a])
                                    ELSE IF SwappedIn(e, a) THEN flash[SwapAddr + (a % PageSize)]
                                    ELSE flash[a]
  BY <1>1, <1>2, <1>3 DEF Mem
<1>5. Mem = [a \in DataWords |-> Mem[a]]
  BY DEF Mem
<1> QED
  BY <1>1, <1>4, <1>5 DEF Shows, Kept, SwapWord

\* and is after a step.
LEMMA MemThenIs ==
  ASSUME TableOK(m_app_table'), EngineInv(m_app_table', e', flash')
  PROVE  /\ Shows(m_app_table', e', flash', Mem') /\ Mem' = [a \in DataWords |-> (Mem')[a]]
         /\ \A a : a \in Owned' <=> IsOwned(m_app_table', a)
<1>1. \A a : a \in Owned' <=> IsOwned(m_app_table', a)
  <2>1. PICK T : T = m_app_table'
    OBVIOUS
  <2>2. Owned' = UNION {T[m].base_id .. EndIn(T, m) - 1 : m \in DOMAIN T}
    BY <2>1 DEF Owned, EndOfStorage, EndIn, BlockSize
  <2> QED
    BY <2>1, <2>2, OwnedIs
<1>2. \A a : InSwap(a)' <=> SwappedIn(e', a)
  BY DEF InSwap, SwappedIn
<1>3. e'.m_state \notin {"IDLE", "ERROR"} <=> e'.m_state \in Running
  BY DEF EngineInv, Running
<1>4. \A a \in DataWords : (Mem')[a] = IF ~IsOwned(m_app_table', a) THEN Erased
                                    ELSE IF e'.m_state \in Running /\ a \in Span(Cmd(e'))
                                    THEN Result(Cmd(e'), a, flash'[a])
                                    ELSE IF SwappedIn(e', a) THEN flash'[SwapAddr + (a % PageSize)]
                                    ELSE flash'[a]
  BY <1>1, <1>2, <1>3 DEF Mem
<1>5. Mem' = [a \in DataWords |-> (Mem')[a]]
  BY DEF Mem
<1> QED
  BY <1>1, <1>4, <1>5 DEF Shows, Kept, SwapWord

\* There is one memory the clients see,
LEMMA SameMemory ==
  ASSUME NEW T, NEW x, NEW f, NEW M, NEW N, M = [a \in DataWords |-> M[a]], N = [a \in DataWords |-> N[a]],
         Shows(T, x, f, M), Shows(T, x, f, N)
  PROVE  M = N
<1>1. \A a \in DataWords : M[a] = N[a]
  BY DEF Shows
<1> QED
  BY <1>1

\* and one at rest.
LEMMA SameAtRest ==
  ASSUME NEW T, NEW f, NEW M, NEW N, M = [a \in DataWords |-> M[a]], N = [a \in DataWords |-> N[a]],
         AtRest(T, f, M), AtRest(T, f, N)
  PROVE  M = N
<1>1. \A a \in DataWords : M[a] = N[a]
  BY DEF AtRest
<1> QED
  BY <1>1

\* The effect of a command on a memory at rest.
Effected(c, M) == [a \in DataWords |-> IF a \in Span(c) THEN Result(c, a, M[a]) ELSE M[a]]

\* A command that has not touched the flash yet is in effect in the memory.
LEMMA EffectIs ==
  ASSUME NEW T, TableOK(T), NEW c, Legal(T, c), NEW f, NEW M, AtRest(T, f, M)
  PROVE  /\ ShowsWith(T, c, f, Effected(c, M))
         /\ Effected(c, M) = [a \in DataWords |-> Effected(c, M)[a]]
<1>1. \A a \in DataWords : ~IsOwned(T, a) => a \notin Span(c)
  BY SpanOwned
<1> QED
  BY <1>1 DEF ShowsWith, Effected, AtRest

\* What a failure spoils.
LEMMA SpoiledIs ==
  ASSUME NEW T, TableOK(T), NEW c, Legal(T, c), NEW f, NEW M, SafeBut(T, c, f, M), NEW N, AtRest(T, f, N)
  PROVE  \A a : IsOwned(T, a) /\ a \notin Touched(c) => N[a] = M[a]
<1> SUFFICES ASSUME NEW a, IsOwned(T, a), a \notin Touched(c) PROVE N[a] = M[a]
  OBVIOUS
<1>1. a \in DataWords /\ Page(a) \in Nat
  BY OwnedIsData, WordIs
<1>2. Page(a) \notin First(c) .. LastPage(c)
  BY <1>1, PagesOfSpan DEF Touched
<1> QED
  BY <1>1, <1>2 DEF SafeBut, AtRest

(***************************************************************************)
(* The invariant.                                                          *)
(***************************************************************************)
\* The invariant holds when pstorage_init has run.
LEMMA InvInit ==
  ASSUME Init
  PROVE  Inv
<1>1. TableOK(m_app_table)
  <2>1. <<>> \in Seq(ModuleSet) /\ Len(<<>>) = 0
    <3> HIDE DEF ModuleSet
    <3> QED
      OBVIOUS
  <2> HIDE DEF ModuleSet
  <2> QED
    BY <2>1 DEF Init, TableOK
<1>2. flash \in [FlashWords -> Value]
  <2>1. 0 \in 0 .. MaxCommands
    BY PstorageAssumption
  <2>2. \A a \in FlashWords : (IF a \in DataWords THEN Data(0, a) ELSE Mixed) \in Value
    BY <2>1 DEF Value, Data
  <2> QED
    BY <2>2 DEF Init
<1>3. EngineInv(m_app_table, e, flash)
  <2>0. e = Engine
    BY DEF Init
  <2>1. /\ IsEngine(e) /\ e.m_state = "IDLE" /\ e.m_cmd_queue = <<>>
        /\ e.sent = 0 /\ e.sd = NoOp /\ e.m_flags = {}
        /\ e.m_swap_sub_state = "ERASE_SWAP"
        /\ e.m_head_word_size = 0 /\ e.m_tail_word_size = 0
        /\ e.m_current_page_id = 0
        /\ e.m_num_of_command_retries = 0
    BY <2>0 DEF IsEngine, Fields, Engine
  <2>2. QueueOK(m_app_table, <<>>)
    <3> HIDE DEF CommandSet
    <3>1. <<>> \in Seq(CommandSet) /\ Len(<<>>) = 0
      OBVIOUS
    <3> QED
      BY <3>1, PstorageAssumption DEF QueueOK
  <2>3. Sound(m_app_table, e)
    BY <2>1, <2>2, PstorageAssumption DEF Sound, SubStates
  <2> QED
    BY <2>1, <2>3, PstorageAssumption DEF EngineInv, Running, Busy
<1>4. restarts \in 0 .. MaxRestarts
  BY PstorageAssumption DEF Init
<1> QED
  BY <1>1, <1>2, <1>3, <1>4 DEF Inv

\* The invariant in the words of the lemmas about steps.
LEMMA GoodIs ==
  ASSUME Inv
  PROVE  Good(Mem)
BY MemIs DEF Inv, Good

\* Every step keeps the invariant.
LEMMA InvStep ==
  ASSUME Inv, [Next]_vars
  PROVE  Inv'
<1>0. Good(Mem)
  BY GoodIs
<1>1. PICK M : Good(M)
  BY <1>0
<1>2. /\ TableOK(m_app_table) /\ EngineInv(m_app_table, e, flash)
      /\ flash \in [FlashWords -> Value] /\ restarts \in 0 .. MaxRestarts
  BY DEF Inv
<1>3. ASSUME Stepped(M) PROVE Inv'
  BY <1>2, <1>3 DEF Stepped, Inv
<1>4. ASSUME StoreDone \/ DataEraseDone \/ EraseSwapDone \/ WriteToSwapDone \/ PageEraseDone
               \/ RestoreHeadDone \/ RestoreTailDone
      PROVE  Inv'
  BY <1>1, <1>3, <1>4, DoneIs
<1>5. ASSUME FlashOperationFails PROVE Inv'
  BY <1>1, <1>3, <1>5, FailsIs
<1>6. ASSUME EventIgnored PROVE Inv'
  <2>1. EngineInv(m_app_table, e', flash)
    BY <1>1, <1>6, IgnoredIs
  <2> QED
    BY <1>2, <1>6, <2>1 DEF EventIgnored, Inv
<1>7. ASSUME OtherUserBegins PROVE Inv'
  <2>1. EngineInv(m_app_table, e', flash)
    BY <1>1, <1>7, OtherUserIs
  <2> QED
    BY <1>2, <1>7, <2>1 DEF OtherUserBegins, Inv
<1>8. ASSUME CmdQueueEnqueue PROVE Inv'
  <2>1. EngineInv(m_app_table, e', flash)
    BY <1>1, <1>8, EnqueueIs
  <2> QED
    BY <1>2, <1>8, <2>1 DEF CmdQueueEnqueue, Inv
<1>9. ASSUME PowerLoss PROVE Inv'
  <2>1. EngineInv(m_app_table, e', flash') /\ flash' \in [FlashWords -> Value]
    BY <1>1, <1>9, PowerLossIs
  <2>2. m_app_table' = m_app_table /\ restarts' \in 0 .. MaxRestarts
    BY <1>2, <1>9, PstorageAssumption DEF PowerLoss
  <2> QED
    BY <1>2, <2>1, <2>2 DEF Inv
<1>10. ASSUME PstorageRegister PROVE Inv'
  <2>1. TableOK(m_app_table') /\ EngineInv(m_app_table', e, flash)
    BY <1>1, <1>10, RegisteredIs
  <2>2. flash' = flash /\ e' = e /\ restarts' = restarts
    BY <1>10 DEF PstorageRegister
  <2> QED
    BY <1>2, <2>1, <2>2 DEF Inv
<1>11. ASSUME UNCHANGED vars PROVE Inv'
  BY <1>2, <1>11 DEF vars, Inv
<1> QED
  BY <1>4, <1>5, <1>6, <1>7, <1>8, <1>9, <1>10, <1>11 DEF Next, FlashEvent

\* The inductive invariant: registered modules do not overlap, every queued command is legal,
\* the machine is at a place of the running command with the operation of that place, and the
\* flash holds nothing there that keeps the operation from being repeated.
THEOREM InvHolds == Spec => []Inv
<1>1. Init => Inv
  BY InvInit
<1>2. Inv /\ [Next]_vars => Inv'
  BY InvStep
<1> QED
  BY <1>1, <1>2, PTL DEF Spec

\* The variables keep their types for every size of flash, queue and blocks: the page counter
\* never leaves the flash, the counts of head and tail never reach a page (pstorage.c:244-250).
THEOREM TypesAreOK == Spec => []TypeOK
<1>1. Inv => TypeOK
  <2> SUFFICES ASSUME Inv PROVE TypeOK
    OBVIOUS
  <2>1. /\ TableOK(m_app_table) /\ EngineInv(m_app_table, e, flash)
        /\ flash \in [FlashWords -> Value] /\ restarts \in 0 .. MaxRestarts
    BY DEF Inv
  <2>2. Sound(m_app_table, e) /\ e.m_state \in States
    BY <2>1 DEF EngineInv, States, Running
  <2>3. /\ e.m_swap_sub_state \in SubStates /\ e.m_flags \subseteq Flags
        /\ Len(e.m_cmd_queue) <= PSTORAGE_CMD_QUEUE_SIZE
    BY <2>2 DEF Sound, QueueOK
  <2>4. PICK h \in Nat, t \in Nat, p \in Nat, r \in Nat :
          /\ h = e.m_head_word_size /\ h < PageSize /\ t = e.m_tail_word_size /\ t < PageSize
          /\ p = e.m_current_page_id /\ p <= PSTORAGE_NUM_OF_PAGES
          /\ r = e.m_num_of_command_retries /\ r <= SD_CMD_MAX_TRIES
    BY <2>2 DEF Sound
  <2>5. h \in 0 .. PageSize - 1 /\ t \in 0 .. PageSize - 1 /\ p \in 0 .. PSTORAGE_NUM_OF_PAGES
        /\ r \in 0 .. SD_CMD_MAX_TRIES
    BY <2>4, PstorageAssumption
  <2>6. m_app_table \in Seq([base_id : DataWords, block_size : 1 .. PageSize, block_count : 1 .. SwapAddr])
    BY <2>1 DEF TableOK, ModuleSet
  <2> QED
    BY <2>1, <2>2, <2>3, <2>4, <2>5, <2>6 DEF TypeOK
<1> QED
  BY <1>1, InvHolds, PTL

\* A page is erased only if the running command changes words of it; the swap page
\* (pstorage.c:455, called at 467, 518 and 545) only when every word beside the command on a
\* page it has erased before is back in its place, or has no copy in the swap page.
THEOREM ErasesOnlyItsPages == Spec => []ErasesItsPages
<1>1. Inv => ErasesItsPages
  <2> SUFFICES ASSUME Inv, e.sd.kind = "erase" PROVE ErasesItsPages
    BY DEF ErasesItsPages
  <2> DEFINE c == Cmd(e)
             cur == e.m_current_page_id
             pages == Page(c.block_id + c.offset)
                        .. Page(c.block_id + c.offset + e.m_app_data_size - 1)
  <2>1. TableOK(m_app_table) /\ EngineInv(m_app_table, e, flash)
    BY DEF Inv
  <2>2. e.sd \notin {NoOp, Other}
    BY DEF NoOp, Other
  <2>3. e.m_state \in Running
    BY <2>1, <2>2 DEF EngineInv
  <2>4. /\ Sound(m_app_table, e) /\ e.m_cmd_queue # <<>> /\ Position(m_app_table, e)
        /\ Contents(e, flash) /\ IsOpOf(e, flash, e.sd)
    BY <2>1, <2>2, <2>3, AtWorkIs
  <2>5. \/ SwapErase(e, e.sd)
        \/ Page(e.sd.dst) \in First(c) .. LastPage(c)
    BY <2>1, <2>4, OpIs
  <2>6. /\ Legal(m_app_table, c) /\ c \in CommandSet /\ e.m_app_data_size = c.size
        /\ cur \in Nat /\ e.m_swap_sub_state \in SubStates
    BY <2>4, CmdIs DEF Sound, Position
  <2>7. PICK b \in Nat, o \in Nat, s \in Nat : b = c.block_id /\ o = c.offset /\ s = c.size
    BY <2>6, CommandFields
  <2>8. (b + o) + s - 1 = (b + s + o) - 1
    OBVIOUS
  <2>9. LastPage(c) = Page((b + o) + s - 1) /\ First(c) = Page(b + o)
    BY <2>7, <2>8 DEF LastPage, CmdEnd, First, Start
  <2>10. pages = First(c) .. LastPage(c)
    BY <2>6, <2>7, <2>9
  <2> HIDE DEF pages, c, cur
  <2>11. CASE Page(e.sd.dst) \in First(c) .. LastPage(c)
    BY <2>10, <2>11 DEF ErasesItsPages, pages, c
  <2>12. CASE SwapErase(e, e.sd)
    <3>1. Spare(c, cur, flash) /\ First(c) <= cur /\ cur <= LastPage(c)
      BY <2>1, <2>4, <2>6, <2>12, PlaceIs DEF Contents, SwapErase, c, cur
    <3>2. First(c) \in Nat /\ LastPage(c) \in Nat
      BY <2>1, <2>6, LegalIs
    <3>3. \A a : a \in Owned <=> IsOwned(m_app_table, a)
      BY <2>1, MemIs
    <3>4. ASSUME NEW a \in Owned, a \notin Span(c), Page(a) \in First(c) .. LastPage(c), Page(a) < cur
          PROVE  flash[SwapAddr + (a % PageSize)] \in {Erased, flash[a]}
      <4>1. IsOwned(m_app_table, a) /\ a \in DataWords
        BY <2>1, <3>3, <3>4, OwnedIsData
      <4>2. Page(a) # LastPage(c)
        BY <2>6, <3>1, <3>2, <3>4
      <4>3. Page(a) = First(c) /\ a < Start(c)
        BY <2>1, <2>6, <3>4, <4>1, <4>2, Outside
      <4>4. SwapWord(flash, a) = Erased \/ SwapWord(flash, a) = flash[a]
        BY <3>1, <3>4, <4>1, <4>3 DEF Spare
      <4> QED
        BY <4>4 DEF SwapWord
    <3>5. e.sd.dst = SwapAddr
      BY <2>12 DEF SwapErase
    <3> QED
      BY <2>10, <3>4, <3>5 DEF ErasesItsPages, pages, c, cur
  <2> QED
    BY <2>5, <2>11, <2>12
<1> QED
  BY <1>1, InvHolds, PTL

\* A flash event, which carries no name (pstorage.c:1136), finds the command it belongs to;
\* an idle or failed module has no operation of its own outstanding.
THEOREM EventsFindTheirCommand == Spec => []EventsAreAttributed
<1>1. Inv => EventsAreAttributed
  <2> SUFFICES ASSUME Inv PROVE EventsAreAttributed
    OBVIOUS
  <2>1. TableOK(m_app_table) /\ EngineInv(m_app_table, e, flash)
    BY DEF Inv
  <2>2. CASE e.m_state \in {"IDLE", "ERROR"}
    <3>1. e.sd \in {NoOp, Other} /\ ~Busy(e) /\ (e.m_state = "IDLE" => e.m_cmd_queue = <<>>)
      BY <2>1, <2>2 DEF EngineInv, Running
    <3> QED
      BY <2>2, <3>1 DEF EventsAreAttributed, NoOp, Other
  <2>3. CASE e.m_state \notin {"IDLE", "ERROR"}
    <3>1. e.m_state \in Running
      BY <2>1, <2>3, ActiveIs
    <3>2. /\ e.m_cmd_queue # <<>>
          /\ IF Busy(e) THEN e.sd = Other ELSE e.sd.kind \in {"erase", "write"}
      BY <2>1, <3>1, AtWorkIs
    <3> QED
      BY <2>3, <3>2 DEF EventsAreAttributed
  <2> QED
    BY <2>2, <2>3
<1> QED
  BY <1>1, InvHolds, PTL

(***************************************************************************)
(* The refinement.                                                         *)
(***************************************************************************)
\* Without a registration the owned words are the same.
LEMMA OwnedStays ==
  ASSUME m_app_table' = m_app_table
  PROVE  Owned' = Owned
BY DEF Owned, EndOfStorage, BlockSize

\* Taking the head of the queue off and putting it back.
LEMMA HeadOf ==
  ASSUME NEW T, NEW q, QueueOK(T, q), q # <<>>
  PROVE  /\ q[1] = Head(q) /\ Len(q) \in Nat /\ Len(q) >= 1 /\ q \in Seq(CommandSet)
         /\ \A c \in CommandSet : /\ Append(q, c) # <<>> /\ Append(q, c) # q
                                  /\ SubSeq(Append(q, c), 1, Len(Append(q, c)) - 1) = q
                                  /\ <<q[1]>> \o Tail(Append(q, c)) = Append(q, c)
         /\ <<q[1]>> \o Tail(q) = q
<1>1. q \in Seq(CommandSet)
  BY DEF QueueOK
<1> HIDE DEF CommandSet
<1>2. Len(q) \in Nat /\ Len(q) >= 1 /\ q[1] = Head(q) /\ q[1] \in CommandSet
  BY <1>1
<1>3. <<q[1]>> \o Tail(q) = q
  BY <1>1, <1>2
<1>4. ASSUME NEW c \in CommandSet
      PROVE  /\ Append(q, c) # <<>> /\ Append(q, c) # q
             /\ SubSeq(Append(q, c), 1, Len(Append(q, c)) - 1) = q
             /\ <<q[1]>> \o Tail(Append(q, c)) = Append(q, c)
  <2>1. /\ Append(q, c) \in Seq(CommandSet) /\ Len(Append(q, c)) = Len(q) + 1
        /\ Append(q, c)[1] = q[1]
    BY <1>1, <1>2, <1>4
  <2>2. PICK r \in Seq(CommandSet) : r = Append(q, c)
    BY <2>1
  <2>3. Len(r) = Len(q) + 1 /\ r # <<>> /\ r # q /\ r[1] = q[1]
    BY <1>2, <2>1, <2>2
  <2>4. <<r[1]>> \o Tail(r) = r
    <3>1. 1 \in 1 .. Len(r) /\ Len(r) \in 1 .. Len(r) /\ 1 + 1 = 2
      BY <1>2, <2>3
    <3>2. SubSeq(r, 1, Len(r)) = <<r[1]>> \o SubSeq(r, 1 + 1, Len(r))
      BY <2>2, <3>1, SubSeqRecursiveFirst
    <3>3. SubSeq(r, 1, Len(r)) = r
      BY <2>2, SubSeqFull
    <3>4. Tail(r) = SubSeq(r, 2, Len(r))
      BY <2>2, <2>3, TailIsSubSeq
    <3> QED
      BY <3>1, <3>2, <3>3, <3>4
  <2>5. SubSeq(Append(q, c), 1, Len(q)) = q
    <3>1. Append(q, c) = q \o <<c>> /\ <<c>> \in Seq(CommandSet)
      BY <1>1, <1>4, AppendIsConcat
    <3>2. 1 \in 1 .. Len(q) /\ Len(q) \in 1 .. Len(q)
      BY <1>2
    <3>3. SubSeq(q \o <<c>>, 1, Len(q)) = SubSeq(q, 1, Len(q))
      BY <1>1, <3>1, <3>2, SubSeqOfConcat1
    <3> QED
      BY <1>1, <3>1, <3>3, SubSeqFull
  <2>6. Len(Append(q, c)) - 1 = Len(q)
    BY <1>2, <2>1
  <2> QED
    BY <2>2, <2>3, <2>4, <2>5, <2>6
<1> QED
  BY <1>1, <1>2, <1>3, <1>4

\* Nothing the clients see changes.
LEMMA StuttersIs ==
  ASSUME Mem' = Mem, m_app_table' = m_app_table, e'.m_cmd_queue = e.m_cmd_queue,
         e'.m_state = "ERROR" <=> e.m_state = "ERROR"
  PROVE  UNCHANGED Store!vars
<1>1. Owned' = Owned
  BY OwnedStays
<1>2. (e'.m_state = "ERROR") = (e.m_state = "ERROR")
  OBVIOUS
<1> QED
  BY <1>1, <1>2 DEF Store!vars

\* A failure is a Fail of the memory: the pages of its command only are spoiled.
LEMMA FailIs ==
  ASSUME Inv, Inv', m_app_table' = m_app_table, e.m_state # "ERROR", e'.m_state = "ERROR",
         SafeBut(m_app_table, Cmd(e'), flash', Mem)
  PROVE  Store!Fail
<1> DEFINE T == m_app_table
           c == Cmd(e')
<1>1. TableOK(T) /\ EngineInv(T, e', flash')
  BY DEF Inv
<1>2. e'.m_cmd_queue # <<>> /\ QueueOK(T, e'.m_cmd_queue) /\ e'.m_state \in {"IDLE", "ERROR"}
  BY <1>1 DEF EngineInv, Sound
<1>3. Legal(T, c) /\ c = (e'.m_cmd_queue)[1]
  BY <1>2, CmdIs, HeadOf DEF Cmd
<1>4. Shows(T, e', flash', Mem')
  BY MemThenIs DEF Inv
<1>5. AtRest(T, flash', Mem')
  BY <1>2, <1>4, AtRestIs
<1>6. \A a : IsOwned(T, a) /\ a \notin Touched(c) => (Mem')[a] = Mem[a]
  BY <1>1, <1>3, <1>5, SpoiledIs
<1>7. \A a : a \in Owned <=> IsOwned(T, a)
  BY MemIs DEF Inv
<1>8. Owned' = Owned
  BY OwnedStays
<1>9. \A a \in Owned \ Touched((e'.m_cmd_queue)[1]) : (Mem')[a] = Mem[a]
  BY <1>3, <1>6, <1>7
<1> QED
  BY <1>2, <1>8, <1>9 DEF Store!Fail, Store!KeepsBut

\* A command that goes on.
LEMMA GoesOnIs ==
  ASSUME Inv, Inv', m_app_table' = m_app_table, NEW q, NEW M, M = [a \in DataWords |-> M[a]],
         GoesOn(m_app_table, q, M, e', flash')
  PROVE  Mem' = M /\ e'.m_cmd_queue = q /\ e'.m_state # "ERROR"
<1>1. Shows(m_app_table, e', flash', Mem') /\ Mem' = [a \in DataWords |-> (Mem')[a]]
  BY MemThenIs DEF Inv
<1>2. Shows(m_app_table, e', flash', M) /\ e'.m_state \in Running /\ e'.m_cmd_queue = q
  BY DEF GoesOn
<1>3. Mem' = M
  BY <1>1, <1>2, SameMemory
<1> QED
  BY <1>2, <1>3 DEF Running

\* A report is a Report: the next command is in effect in the same step.
LEMMA ReportIs ==
  ASSUME Inv, Inv', m_app_table' = m_app_table, e.m_state # "ERROR", e.m_cmd_queue # <<>>,
         AtRest(m_app_table, flash', Mem), Reported(e.m_cmd_queue, e'.m_cmd_queue),
         Started(m_app_table, e', flash')
  PROVE  Store!Report
<1> DEFINE T == m_app_table
<1>1. /\ TableOK(T) /\ EngineInv(T, e', flash') /\ QueueOK(T, e.m_cmd_queue)
      /\ QueueOK(T, e'.m_cmd_queue)
  BY DEF Inv, EngineInv, Sound
<1>2. /\ Shows(T, e', flash', Mem') /\ Mem' = [a \in DataWords |-> (Mem')[a]]
      /\ Mem = [a \in DataWords |-> Mem[a]]
  BY MemIs, MemThenIs DEF Inv
<1>3. Store!Grown(<<e.m_cmd_queue[1]>> \o e'.m_cmd_queue)
  <2>1. PICK r : /\ r = e.m_cmd_queue \/ \E c \in CommandSet : r = Append(e.m_cmd_queue, c)
                 /\ e'.m_cmd_queue = Tail(r)
    BY DEF Reported
  <2>2. <<e.m_cmd_queue[1]>> \o e'.m_cmd_queue = r
    BY <1>1, <2>1, HeadOf
  <2>3. r = e.m_cmd_queue \/ (r # <<>> /\ SubSeq(r, 1, Len(r) - 1) = e.m_cmd_queue)
    BY <1>1, <2>1, HeadOf
  <2> QED
    BY <2>2, <2>3 DEF Store!Grown
<1>4. e'.m_state # "ERROR" /\ Mem' = Store!Effect(e'.m_cmd_queue)
  <2>1. CASE e'.m_state = "IDLE"
    <3>1. e'.m_cmd_queue = <<>>
      BY <1>1, <2>1 DEF EngineInv
    <3>2. AtRest(T, flash', Mem')
      BY <1>2, <2>1, AtRestIs
    <3>3. Mem' = Mem
      BY <1>2, <3>2, SameAtRest
    <3> QED
      BY <2>1, <3>1, <3>3 DEF Store!Effect
  <2>2. CASE e'.m_state \in Running
    <3>1. e'.m_state # "IDLE" /\ e'.m_state # "ERROR"
      BY <2>2 DEF Running
    <3>2. e'.m_cmd_queue # <<>>
      BY <1>1, <3>1 DEF EngineInv
    <3>3. Legal(T, Cmd(e')) /\ Cmd(e') = (e'.m_cmd_queue)[1]
      BY <1>1, <3>2, CmdIs, HeadOf DEF Cmd
    <3>4. PICK N : N = Effected(Cmd(e'), Mem)
      OBVIOUS
    <3>5. ShowsWith(T, Cmd(e'), flash', N) /\ N = [a \in DataWords |-> N[a]]
      BY <1>1, <3>3, <3>4, EffectIs
    <3>6. Shows(T, e', flash', N)
      BY <3>1, <3>5 DEF Started
    <3>7. Mem' = N
      BY <1>2, <3>5, <3>6, SameMemory
    <3> QED
      BY <3>1, <3>2, <3>3, <3>4, <3>7 DEF Effected, Store!Effect
  <2> QED
    BY <2>1, <2>2 DEF Started
<1>5. Owned' = Owned
  BY OwnedStays
<1>6. (e'.m_state = "ERROR") = (e.m_state = "ERROR")
  BY <1>4
<1> QED
  BY <1>3, <1>4, <1>5, <1>6 DEF Store!Report

\* Every end of an operation is a stutter, a Fail or a Report.
LEMMA SteppedIs ==
  ASSUME Inv, Inv', Stepped(Mem), e.m_state \in Running
  PROVE  Store!Next \/ UNCHANGED Store!vars
<1> DEFINE T == m_app_table
<1>1. /\ m_app_table' = m_app_table /\ Outcome(T, e.m_cmd_queue, Mem, e', flash')
      /\ e.m_state # "ERROR" /\ e.m_state # "IDLE"
  BY DEF Stepped, Running
<1>2. e.m_cmd_queue # <<>>
  BY <1>1 DEF Inv, EngineInv
<1>3. Mem = [a \in DataWords |-> Mem[a]]
  BY MemIs DEF Inv
<1>4. CASE GoesOn(T, e.m_cmd_queue, Mem, e', flash')
  <2>1. Mem' = Mem /\ e'.m_cmd_queue = e.m_cmd_queue /\ e'.m_state # "ERROR"
    BY <1>1, <1>3, <1>4, GoesOnIs
  <2> QED
    BY <1>1, <2>1, StuttersIs
<1>5. CASE e'.m_state = "ERROR" /\ SafeBut(T, Cmd(e'), flash', Mem)
  BY <1>1, <1>5, FailIs DEF Store!Next
<1>6. CASE /\ AtRest(T, flash', Mem) /\ Reported(e.m_cmd_queue, e'.m_cmd_queue)
           /\ Started(T, e', flash')
  BY <1>1, <1>2, <1>6, ReportIs DEF Store!Next
<1> QED
  BY <1>1, <1>4, <1>5, <1>6 DEF Outcome, Proceeds

\* A command accepted is a Submit, or a Fail if the flash call is refused for good.
LEMMA SubmitIs ==
  ASSUME Inv, Inv', CmdQueueEnqueue
  PROVE  Store!Next
<1> DEFINE T == m_app_table
<1>1. m_app_table' = m_app_table /\ flash' = flash
  BY DEF CmdQueueEnqueue
<1>2. PICK c \in CommandSet, q \in Seq(CommandSet) :
        /\ Legal(T, c) /\ q = Append(e.m_cmd_queue, c)
        /\ EngineInv(T, e', flash)
        /\ e.m_cmd_queue # <<>> => /\ e'.m_cmd_queue = q /\ e'.m_state = e.m_state
                                   /\ Shows(T, e', flash, Mem)
        /\ e.m_cmd_queue = <<>> =>
             /\ e.m_state = "IDLE"
             /\ \A N : ShowsWith(T, c, flash, N) => Proceeds(T, q, N, e', flash)
  BY GoodIs, EnqueueIs
<1>3. /\ Shows(T, e', flash, Mem') /\ Mem' = [a \in DataWords |-> (Mem')[a]]
      /\ Mem = [a \in DataWords |-> Mem[a]] /\ Shows(T, e, flash, Mem)
  BY <1>1, MemIs, MemThenIs DEF Inv
<1>4. Owned' = Owned
  BY <1>1, OwnedStays
<1>5. TableOK(T) /\ QueueOK(T, e.m_cmd_queue) /\ QueueOK(T, e'.m_cmd_queue)
  BY <1>1 DEF Inv, EngineInv, Sound
<1>6. CASE e.m_cmd_queue # <<>>
  <2>1. e'.m_cmd_queue # e.m_cmd_queue /\ Store!Grown(e'.m_cmd_queue)
    BY <1>2, <1>5, <1>6, HeadOf DEF Store!Grown
  <2>2. Mem' = Mem
    BY <1>2, <1>3, <1>6, SameMemory
  <2>3. (e'.m_state = "ERROR") = (e.m_state = "ERROR")
    BY <1>2, <1>6
  <2> QED
    BY <1>4, <1>6, <2>1, <2>2, <2>3 DEF Store!Submit, Store!Next
<1>7. CASE e.m_cmd_queue = <<>>
  <2>1. e.m_state = "IDLE" /\ AtRest(T, flash, Mem)
    BY <1>2, <1>3, <1>7, AtRestIs
  <2>2. q # <<>> /\ q[1] = c /\ SubSeq(q, 1, Len(q) - 1) = <<>> /\ q = <<c>>
    <3> HIDE DEF CommandSet
    <3>1. q = <<c>>
      BY <1>2, <1>7
    <3>2. SubSeq(<<c>>, 1, 0) = <<>>
      OBVIOUS
    <3> QED
      BY <3>1, <3>2
  <2>3. PICK N : N = Effected(c, Mem)
    OBVIOUS
  <2>4. ShowsWith(T, c, flash, N) /\ N = [a \in DataWords |-> N[a]]
    BY <1>2, <1>5, <2>1, <2>3, EffectIs
  <2>5. Proceeds(T, q, N, e', flash)
    BY <1>2, <1>7, <2>4
  <2>6. CASE GoesOn(T, q, N, e', flash)
    <3>1. Mem' = N /\ e'.m_cmd_queue = q /\ e'.m_state # "ERROR"
      BY <1>1, <2>4, <2>6, GoesOnIs
    <3>2. N = Store!Effect(q)
      BY <2>2, <2>3 DEF Store!Effect, Effected
    <3>3. Store!Grown(q) /\ q # e.m_cmd_queue
      BY <1>7, <2>2 DEF Store!Grown
    <3>4. (e'.m_state = "ERROR") = (e.m_state = "ERROR")
      BY <2>1, <3>1
    <3> QED
      BY <1>4, <1>7, <3>1, <3>2, <3>3, <3>4 DEF Store!Submit, Store!Next
  <2>7. CASE e'.m_state = "ERROR" /\ SafeBut(T, Cmd(e'), flash, N)
    <3>1. e'.m_cmd_queue # <<>>
      BY <1>2, <2>7 DEF EngineInv
    <3>2. Cmd(e') = (e'.m_cmd_queue)[1] /\ Legal(T, Cmd(e'))
      BY <1>5, <3>1, CmdIs, HeadOf DEF Cmd
    <3>3. Shows(T, e', flash', Mem') /\ AtRest(T, flash, Mem')
      BY <1>1, <1>3, <2>7, AtRestIs
    <3>4. Mem' = Mem
      BY <1>3, <2>1, <3>3, SameAtRest
    <3>5. \A a \in Owned \ Touched((e'.m_cmd_queue)[1]) : (Mem')[a] = Mem[a]
      BY <3>4
    <3> QED
      BY <1>4, <2>1, <2>7, <3>1, <3>5 DEF Store!Fail, Store!KeepsBut, Store!Next
  <2> QED
    BY <2>5, <2>6, <2>7 DEF Proceeds
<1> QED
  BY <1>6, <1>7

\* A loss of power is a PowerLoss of the memory.
LEMMA LossIs ==
  ASSUME Inv, Inv', PowerLoss
  PROVE  Store!Next
<1> DEFINE T == m_app_table
<1>1. m_app_table' = m_app_table
  BY DEF PowerLoss
<1>2. /\ e'.m_state = "IDLE" /\ e'.m_cmd_queue = <<>>
      /\ e.m_state \in Running => SafeBut(T, Cmd(e), flash', Mem)
      /\ e.m_state \notin Running => flash' = flash
  BY GoodIs, PowerLossIs
<1>3. Shows(T, e', flash', Mem') /\ Shows(T, e, flash, Mem)
  BY <1>1, MemIs, MemThenIs DEF Inv
<1>4. AtRest(T, flash', Mem')
  BY <1>2, <1>3, AtRestIs
<1>5. TableOK(T) /\ EngineInv(T, e, flash) /\ QueueOK(T, e.m_cmd_queue)
  BY DEF Inv, EngineInv, Sound
<1>6. \A a : a \in Owned <=> IsOwned(T, a)
  BY MemIs DEF Inv
<1>7. Owned' = Owned
  BY <1>1, OwnedStays
<1>8. \A a \in Owned \ (IF e.m_cmd_queue = <<>> THEN {} ELSE Touched(e.m_cmd_queue[1])) : (Mem')[a] = Mem[a]
  <2>1. CASE e.m_state \in Running
    <3>1. e.m_cmd_queue # <<>>
      BY <1>5, <2>1 DEF EngineInv, Running
    <3>2. Legal(T, Cmd(e)) /\ Cmd(e) = e.m_cmd_queue[1]
      BY <1>5, <3>1, CmdIs, HeadOf DEF Cmd
    <3>3. \A a : IsOwned(T, a) /\ a \notin Touched(Cmd(e)) => (Mem')[a] = Mem[a]
      BY <1>2, <1>4, <1>5, <2>1, <3>2, SpoiledIs
    <3> QED
      BY <1>6, <3>1, <3>2, <3>3
  <2>2. CASE e.m_state \notin Running
    <3>1. e.m_state \in {"IDLE", "ERROR"}
      BY <1>5, <2>2 DEF EngineInv
    <3>2. AtRest(T, flash, Mem)
      BY <1>3, <3>1, AtRestIs
    <3>3. \A a : IsOwned(T, a) => (Mem')[a] = Mem[a]
      BY <1>2, <1>4, <1>5, <2>2, <3>2, OwnedIsData DEF AtRest
    <3> QED
      BY <1>6, <3>3
  <2> QED
    BY <2>1, <2>2
<1> QED
  BY <1>2, <1>7, <1>8 DEF Store!PowerLoss, Store!KeepsBut, Store!Next

\* A registration is a Register.
LEMMA RegisterIs ==
  ASSUME Inv, Inv', PstorageRegister
  PROVE  Store!Next
<1>1. e' = e /\ flash' = flash
  BY DEF PstorageRegister
<1>2. /\ e.m_state = "IDLE" /\ \A a : IsOwned(m_app_table, a) => IsOwned(m_app_table', a)
  BY GoodIs, RegisteredIs
<1>3. /\ Shows(m_app_table', e', flash', Mem') /\ Shows(m_app_table, e, flash, Mem)
      /\ \A a : a \in Owned <=> IsOwned(m_app_table, a)
      /\ \A a : a \in Owned' <=> IsOwned(m_app_table', a)
  BY MemIs, MemThenIs DEF Inv
<1>4. AtRest(m_app_table', flash, Mem') /\ AtRest(m_app_table, flash, Mem)
  BY <1>1, <1>2, <1>3, AtRestIs
<1>5. TableOK(m_app_table)
  BY DEF Inv
<1>6. \A a \in Owned : (Mem')[a] = Mem[a]
  BY <1>2, <1>3, <1>4, <1>5, OwnedIsData DEF AtRest
<1>7. Owned \subseteq Owned'
  BY <1>2, <1>3
<1>8. e'.m_cmd_queue = e.m_cmd_queue /\ (e'.m_state = "ERROR") = (e.m_state = "ERROR")
  BY <1>1
<1> QED
  BY <1>6, <1>7, <1>8 DEF Store!Register, Store!KeepsBut, Store!Next

\* The storage begins as the memory does.
LEMMA StoreInit ==
  ASSUME Init
  PROVE  Store!Init
<1>1. Inv
  BY InvInit
<1>2. /\ e.m_cmd_queue = <<>> /\ e.m_state = "IDLE" /\ m_app_table = <<>>
  BY DEF Init, Engine
<1>3. \A a : a \notin Owned
  BY <1>2 DEF Owned
<1>4. Owned = {}
  BY <1>3
<1>5. Mem \in [DataWords -> Value]
  <2>1. Mem = [a \in DataWords |-> Mem[a]] /\ Shows(m_app_table, e, flash, Mem)
        /\ \A a : a \in Owned <=> IsOwned(m_app_table, a)
    BY <1>1, MemIs DEF Inv
  <2>2. \A a \in DataWords : Mem[a] = Erased
    BY <1>3, <2>1 DEF Shows
  <2>3. Erased \in Value
    BY DEF Value
  <2> QED
    BY <2>1, <2>2, <2>3
<1> QED
  BY <1>2, <1>4, <1>5 DEF Store!Init

\* Every step of the storage is a step of the memory or a stutter.
LEMMA StoreStep ==
  ASSUME Inv, Inv', [Next]_vars
  PROVE  Store!Next \/ UNCHANGED Store!vars
<1>1. ASSUME StoreDone \/ DataEraseDone \/ EraseSwapDone \/ WriteToSwapDone \/ PageEraseDone
               \/ RestoreHeadDone \/ RestoreTailDone
      PROVE  Store!Next \/ UNCHANGED Store!vars
  <2>1. Stepped(Mem)
    BY <1>1, GoodIs, DoneIs
  <2>2. e.m_state \in Running
    BY <1>1 DEF StoreDone, DataEraseDone, EraseSwapDone, WriteToSwapDone, PageEraseDone,
                RestoreHeadDone, RestoreTailDone, Succeeds, Running
  <2> QED
    BY <2>1, <2>2, SteppedIs
<1>2. ASSUME FlashOperationFails PROVE Store!Next \/ UNCHANGED Store!vars
  <2>1. Stepped(Mem)
    BY <1>2, GoodIs, FailsIs
  <2>2. e.m_state \in Running
    BY <1>2, ActiveIs DEF FlashOperationFails, Inv
  <2> QED
    BY <2>1, <2>2, SteppedIs
<1>3. ASSUME EventIgnored \/ OtherUserBegins PROVE Store!Next \/ UNCHANGED Store!vars
  <2>1. m_app_table' = m_app_table /\ flash' = flash
    BY <1>3 DEF EventIgnored, OtherUserBegins
  <2>2. /\ Shows(m_app_table, e', flash, Mem)
        /\ e'.m_cmd_queue = e.m_cmd_queue /\ e'.m_state = e.m_state
    BY <1>3, GoodIs, IgnoredIs, OtherUserIs
  <2>3. /\ Shows(m_app_table, e', flash, Mem') /\ Mem' = [a \in DataWords |-> (Mem')[a]]
        /\ Mem = [a \in DataWords |-> Mem[a]]
    BY <2>1, MemIs, MemThenIs DEF Inv
  <2>4. Mem' = Mem
    BY <2>2, <2>3, SameMemory
  <2> QED
    BY <2>1, <2>2, <2>4, StuttersIs
<1>4. ASSUME UNCHANGED vars PROVE Store!Next \/ UNCHANGED Store!vars
  <2>1. Mem' = Mem
    BY <1>4 DEF vars, Mem, Owned, EndOfStorage, BlockSize, InSwap, Cmd
  <2> QED
    BY <1>4, <2>1, StuttersIs DEF vars
<1> QED
  BY <1>1, <1>2, <1>3, <1>4, SubmitIs, LossIs, RegisterIs DEF Next, FlashEvent

\* The storage implements the memory of BlockStore: each command changes its own words to what
\* it says and none of its neighbours', through every erase, copy, retry and wait; a failure or
\* a loss of power spoils the pages of the running command only (pstorage.c:290-1302).
THEOREM StoreIsKept == Spec => StoreKept
<1>1. Init => Store!Init
  BY StoreInit
<1>2. Inv /\ Inv' /\ [Next]_vars => [Store!Next]_Store!vars
  BY StoreStep
<1> QED
  BY <1>1, <1>2, InvHolds, PTL DEF Spec, StoreKept, Store!Spec
=============================================================================
