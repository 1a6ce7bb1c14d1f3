---------------------------- MODULE ElfLayoutProofs ----------------------------
(***************************************************************************)
(* That a program which load_elf_binary() starts has its image and that of *)
(* its interpreter in memory, and its heap behind it, for any word, page   *)
(* and address space, and any headers.  Sums that wrap are followed with   *)
(* a few lemmas on remainders and pages.                                   *)
(***************************************************************************)
EXTENDS ElfLayout, TLAPS

-------------------------------------------------------------------------------
(* Remainders.                                                             *)

\* What % and \div give.
LEMMA Division ==
  ASSUME NEW a \in Int, NEW n \in Nat \ {0}
  PROVE  a % n \in 0 .. n - 1 /\ a \div n \in Int /\ a = n * (a \div n) + (a % n)
OBVIOUS

\* Quotient and remainder are unique.
LEMMA DivisionUnique ==
  ASSUME NEW n \in Nat \ {0}, NEW q \in Int, NEW r \in 0 .. n - 1,
         NEW k \in Int, NEW s \in 0 .. n - 1, n * q + r = n * k + s
  PROVE  r = s
<1>1. n * (q - k) = s - r
  OBVIOUS
<1>2. CASE q - k >= 1
  <2>1. n * (q - k) >= n
    BY <1>2
  <2> QED
    BY <2>1, <1>1
<1>3. CASE q - k =< -1
  <2>1. n * (q - k) =< -n
    BY <1>3
  <2> QED
    BY <2>1, <1>1
<1> QED
  BY <1>1, <1>2, <1>3

\* A sum of whole multiples and a number below n has that number as remainder.
LEMMA ModIs ==
  ASSUME NEW n \in Nat \ {0}, NEW q \in Int, NEW r \in 0 .. n - 1
  PROVE  (n * q + r) % n = r
<1> DEFINE a == n * q + r
<1>1. a \in Int
  OBVIOUS
<1>2. a % n \in 0 .. n - 1 /\ a \div n \in Int /\ a = n * (a \div n) + (a % n)
  BY <1>1, Division
<1> HIDE DEF a
<1>3. n * (a \div n) + (a % n) = n * q + r
  BY <1>2 DEF a
<1>4. a % n = r
  BY <1>2, <1>3, DivisionUnique
<1> QED
  BY <1>4 DEF a

\* A number below n is its own remainder.
LEMMA SmallMod ==
  ASSUME NEW n \in Nat \ {0}, NEW r \in 0 .. n - 1
  PROVE  r % n = r
<1>1. (n * 0 + r) % n = r
  BY ModIs
<1> QED
  BY <1>1

\* A summand may be reduced.
LEMMA ModAdd ==
  ASSUME NEW n \in Nat \ {0}, NEW x \in Int, NEW y \in Int
  PROVE  ((x % n) + y) % n = (x + y) % n
<1> DEFINE z == (x % n) + y
           q == z \div n
           r == z % n
           k == x \div n
<1>1. x = n * k + (x % n) /\ k \in Int /\ (x % n) \in Int
  BY Division
<1>2. z \in Int /\ q \in Int /\ r \in 0 .. n - 1 /\ z = n * q + r
  BY <1>1, Division
<1>3. x + y = n * k + z
  BY <1>1
<1> HIDE DEF z, q, r, k
<1>4. x + y = n * (k + q) + r
  BY <1>1, <1>2, <1>3
<1>5. (n * (k + q) + r) % n = r
  BY <1>1, <1>2, ModIs
<1> QED
  BY <1>4, <1>5 DEF r, z

\* The remainder by a multiple keeps that by the divisor.
LEMMA ModMod ==
  ASSUME NEW n \in Nat \ {0}, NEW w \in Nat \ {0}, w % n = 0, NEW x \in Int
  PROVE  (x % w) % n = x % n
<1> DEFINE k == w \div n
           j == x \div w
           y == x % w
           q == y \div n
           r == y % n
<1>1. w = n * k /\ k \in Int
  BY Division
<1>2. x = w * j + y /\ j \in Int /\ y \in Int
  BY Division
<1>3. y = n * q + r /\ q \in Int /\ r \in 0 .. n - 1
  BY <1>2, Division
<1> HIDE DEF k, j, y, q, r
<1>4. w * j = n * (k * j) /\ k * j \in Int
  BY <1>1, <1>2
<1>5. x = n * (k * j + q) + r
  <2>1. n * (k * j + q) = n * (k * j) + n * q
    BY <1>3, <1>4
  <2> QED
    BY <1>2, <1>3, <1>4, <2>1
<1>6. (n * (k * j + q) + r) % n = r
  BY <1>3, <1>4, ModIs
<1> QED
  BY <1>5, <1>6 DEF r, y

-------------------------------------------------------------------------------
(* Pages.                                                                  *)

\* The word, a page and user space are whole and positive.
LEMMA ConstantsType ==
  /\ Word \in Nat \ {0} /\ Page \in Nat \ {0} /\ TaskSize \in Nat \ {0} /\ DynBase \in Nat \ {0}
  /\ Word % Page = 0 /\ TaskSize % Page = 0 /\ TaskSize < Word /\ DynBase < TaskSize
BY ImageAssumption

\* Whole pages: sums and differences, and the gap between two.
Whole(a) == a \in Int /\ a % Page = 0

\* Whole pages do not change where in its page a number is.
LEMMA WholeSum ==
  ASSUME NEW a, Whole(a), NEW x \in Int
  PROVE  (x + a) % Page = x % Page /\ (x - a) % Page = x % Page
<1>1. Page \in Nat \ {0} /\ a \in Int /\ a % Page = 0
  BY ConstantsType DEF Whole
<1>2. ((a % Page) + x) % Page = (a + x) % Page
  BY <1>1, ModAdd
<1>3. (x + a) % Page = x % Page
  BY <1>1, <1>2
<1>4. ((a % Page) + (x - a)) % Page = (a + (x - a)) % Page
  BY <1>1, ModAdd, x - a \in Int
<1> QED
  BY <1>1, <1>3, <1>4

\* Between two pages there is at least one page.
LEMMA WholeGap ==
  ASSUME NEW a, NEW b, Whole(a), Whole(b), a < b
  PROVE  a + Page =< b
<1>1. Page \in Nat \ {0} /\ a \in Int /\ b \in Int /\ b - a \in Int
  BY ConstantsType DEF Whole
<1>2. (b - a) % Page = 0
  BY <1>1, WholeSum DEF Whole
<1>3. CASE b - a < Page
  <2>1. (b - a) % Page = b - a
    BY <1>1, <1>3, SmallMod
  <2> QED
    BY <1>1, <1>2, <2>1
<1> QED
  BY <1>1, <1>3

\* The page an address is in.
LEMMA PageStartIs ==
  ASSUME NEW a \in Int
  PROVE  /\ Whole(PageStart(a))
         /\ PageStart(a) = a - (a % Page) /\ a % Page \in 0 .. Page - 1
         /\ PageStart(a) =< a /\ a < PageStart(a) + Page
         /\ \A m : Whole(m) /\ m =< a => m =< PageStart(a)
<1>1. Page \in Nat \ {0} /\ a % Page \in 0 .. Page - 1
  BY ConstantsType, Division
<1>2. PageStart(a) \in Int /\ PageStart(a) = a - (a % Page)
  BY <1>1 DEF PageStart
<1>3. PageStart(a) % Page = 0
  <2>1. PICK m \in Int : m = 0 - (a % Page)
    BY <1>1
  <2>2. ((a % Page) + m) % Page = (a + m) % Page
    BY <1>1, ModAdd
  <2>3. (a % Page) + m = 0 /\ a + m = PageStart(a)
    BY <1>1, <1>2, <2>1
  <2>4. 0 % Page = 0
    BY <1>1, SmallMod
  <2> QED
    BY <2>2, <2>3, <2>4
<1>4. ASSUME NEW m, Whole(m), m =< a PROVE m =< PageStart(a)
  <2>1. Whole(PageStart(a)) /\ m \in Int
    BY <1>2, <1>3, <1>4 DEF Whole
  <2>2. CASE PageStart(a) < m
    <3>1. PageStart(a) + Page =< m
      BY <1>4, <2>1, <2>2, WholeGap
    <3> QED
      BY <1>1, <1>2, <1>4, <2>1, <3>1
  <2> QED
    BY <1>2, <2>1, <2>2
<1> QED
  BY <1>1, <1>2, <1>3, <1>4 DEF Whole

\* User space and the word end with a page, and there is a page between.
LEMMA LastPage == Whole(TaskSize) /\ Whole(Word) /\ Whole(0) /\ TaskSize =< Word - Page
<1>1. Whole(TaskSize) /\ Whole(Word)
  BY ConstantsType DEF Whole
<1>2. Whole(0)
  BY ConstantsType, SmallMod DEF Whole
<1>3. TaskSize + Page =< Word
  BY <1>1, ConstantsType, WholeGap
<1> QED
  BY <1>1, <1>2, <1>3, ConstantsType

\* Up to the last page, PageAlign does not wrap.
LEMMA PageAlignIs ==
  ASSUME NEW a \in 0 .. Word - Page
  PROVE  /\ Whole(PageAlign(a)) /\ PageAlign(a) \in Nat
         /\ a =< PageAlign(a) /\ PageAlign(a) < a + Page
         /\ \A m : Whole(m) /\ a =< m => PageAlign(a) =< m
<1> DEFINE b == a + Page - 1
<1>1. Page \in Nat \ {0} /\ Word \in Nat \ {0} /\ b \in 0 .. Word - 1
  BY ConstantsType
<1>2. PageAlign(a) = PageStart(b)
  BY <1>1, SmallMod DEF PageAlign
<1>3. /\ Whole(PageStart(b)) /\ PageStart(b) =< b /\ b < PageStart(b) + Page
      /\ PageStart(b) \in Int
  BY <1>1, PageStartIs DEF Whole
<1>4. ASSUME NEW m, Whole(m), a =< m PROVE PageAlign(a) =< m
  <2>1. m \in Int
    BY <1>4 DEF Whole
  <2>2. CASE m < PageStart(b)
    <3>1. m + Page =< PageStart(b)
      BY <1>3, <1>4, <2>2, WholeGap
    <3> QED
      BY <1>1, <1>3, <1>4, <2>1, <3>1
  <2> QED
    BY <1>2, <1>3, <2>1, <2>2
<1> QED
  BY <1>1, <1>2, <1>3, <1>4

\* Whole pages may be added before or after rounding up.
LEMMA PageAlignShift ==
  ASSUME NEW a, Whole(a), NEW y \in 0 .. Word - Page, a + y \in 0 .. Word - Page
  PROVE  PageAlign(a + y) = a + PageAlign(y)
<1>1. /\ a \in Int /\ y \in Nat /\ Page \in Nat \ {0}
      /\ Whole(PageAlign(y)) /\ PageAlign(y) \in Nat
      /\ y =< PageAlign(y) /\ PageAlign(y) < y + Page
      /\ Whole(PageAlign(a + y)) /\ PageAlign(a + y) \in Nat
      /\ a + y =< PageAlign(a + y) /\ PageAlign(a + y) < a + y + Page
  BY PageAlignIs, ConstantsType DEF Whole
<1>2. Whole(PageAlign(y) + a)
  <2>1. PICK z \in Int : z = PageAlign(y)
    BY <1>1
  <2>2. (z + a) % Page = z % Page
    BY WholeSum
  <2> QED
    BY <1>1, <2>1, <2>2 DEF Whole
<1>3. PageAlign(a + y) =< PageAlign(y) + a
  BY <1>1, <1>2, PageAlignIs
<1>4. CASE PageAlign(a + y) < PageAlign(y) + a
  <2>1. PageAlign(a + y) + Page =< PageAlign(y) + a
    BY <1>1, <1>2, <1>4, WholeGap
  <2> QED
    BY <1>1, <2>1
<1> QED
  BY <1>1, <1>3, <1>4

\* The larger of two.
LEMMA LargerIs ==
  ASSUME NEW a \in Int, NEW b \in Int
  PROVE  /\ Larger(a, b) \in {a, b} /\ a =< Larger(a, b) /\ b =< Larger(a, b)
BY DEF Larger

-------------------------------------------------------------------------------
(* Memory and mappings.                                                    *)

\* What Images says of program headers.
LEMMA PhdrType ==
  ASSUME NEW p \in Phdr
  PROVE  /\ p.vaddr \in Unsigned /\ p.offset \in Unsigned
         /\ p.filesz \in Unsigned /\ p.memsz \in Unsigned /\ p.rw \in BOOLEAN
         /\ {p.vaddr, p.offset, p.filesz, p.memsz} \subseteq Int
BY ConstantsType DEF Phdr, Unsigned

\* What lies outside lo .. hi - 1 is as it was.
Kept(s, t, lo, hi) ==
  \A x \in Addr : x < lo \/ hi =< x =>
    t.byte[x] = s.byte[x] /\ (x \in s.rw => x \in t.rw)

\* Mapped() puts the bytes of a file in memory and leaves the rest alone.
LEMMA MappedIs ==
  ASSUME NEW s, NEW a \in Int, NEW e \in Int, NEW f, NEW rw \in BOOLEAN
  PROVE  /\ \A x \in Addr : a =< x /\ x < e =>
              /\ Mapped(s, a, e, f, rw).byte[x] = f[x]
              /\ rw => x \in Mapped(s, a, e, f, rw).rw
         /\ Kept(s, Mapped(s, a, e, f, rw), a, e)
         /\ rw => \A x : x \in s.rw => x \in Mapped(s, a, e, f, rw).rw
<1>1. Addr \subseteq Int
  BY ConstantsType DEF Addr
<1> QED
  BY <1>1 DEF Mapped, Kept

\* Zeroed() maps zeros between two addresses, like a vm_brk() that succeeded.
LEMMA ZeroedIs ==
  ASSUME NEW s, NEW a \in Int, NEW e \in Int
  PROVE  /\ \A x \in Addr : a =< x /\ x < e =>
              Zeroed(s, a, e).byte[x] = 0 /\ x \in Zeroed(s, a, e).rw
         /\ Kept(s, Zeroed(s, a, e), a, e)
         /\ \A x : x \in s.rw => x \in Zeroed(s, a, e).rw
<1> DEFINE f == [y \in Addr |-> 0]
<1>1. \A x \in Addr : f[x] = 0
  OBVIOUS
<1>2. Zeroed(s, a, e) = Mapped(s, a, e, f, TRUE)
  BY DEF Zeroed
<1> HIDE DEF f
<1>3. /\ \A x \in Addr : a =< x /\ x < e =>
           /\ Mapped(s, a, e, f, TRUE).byte[x] = f[x]
           /\ TRUE => x \in Mapped(s, a, e, f, TRUE).rw
      /\ Kept(s, Mapped(s, a, e, f, TRUE), a, e)
      /\ TRUE => \A x : x \in s.rw => x \in Mapped(s, a, e, f, TRUE).rw
  BY MappedIs
<1> QED
  BY <1>1, <1>2, <1>3

\* The pages that elf_map() gives to segment p from a on hold its file.
FilePages(t, a, p, file) ==
  \A x \in Int :
    a =< x /\ x < a + PageAlign(p.filesz + (p.vaddr % Page)) =>
      /\ x \in Addr
      /\ t.byte[x] = file + p.offset + (x - (a + (p.vaddr % Page)))
      /\ p.rw => x \in t.rw

\* elf_map() of a segment whose sizes do not wrap.
LEMMA ElfMapIs ==
  ASSUME NEW p \in Phdr, NEW addr \in Unsigned, NEW fixed \in BOOLEAN, NEW total \in Nat,
         NEW file \in Int, NEW r \in ElfMap(addr, p, fixed, total, file),
         p.filesz + (p.vaddr % Page) =< Word - Page,
         total > 0 => /\ PageAlign(total) >= PageAlign(p.filesz + (p.vaddr % Page))
                      /\ PageAlign(total) \in Nat
  PROVE  LET size == PageAlign(p.filesz + (p.vaddr % Page))
             whole == IF total > 0 THEN PageAlign(total) ELSE size
         IN \/ /\ size = 0
               /\ r = <<PageStart(addr), space>>
            \/ /\ size # 0
               /\ Whole(r[1]) /\ r[1] >= 0 /\ r[1] + whole =< TaskSize
               /\ fixed => r[1] = PageStart(addr)
               /\ ~fixed => \A x \in Int : r[1] =< x /\ x < r[1] + whole =>
                              space.byte[x] = Nothing
               /\ FilePages(r[2], r[1], p, file)
               /\ Kept(space, r[2], r[1], r[1] + whole)
<1> DEFINE v == p.vaddr % Page
           y == p.filesz + v
           off == (p.offset - v) % Word
           size == PageAlign(y)
           whole == IF total > 0 THEN PageAlign(total) ELSE size
           Result(a) ==
             LET bytes == Mapped(space, a, a + whole, [x \in Addr |-> file + off + x - a], p.rw)
             IN IF whole <= size THEN bytes
                ELSE Mapped(bytes, a + size, a + whole, [x \in Addr |-> Nothing], FALSE)
<1>1. /\ Word \in Nat \ {0} /\ Page \in Nat \ {0} /\ TaskSize \in Nat \ {0}
      /\ TaskSize + Page =< Word
      /\ p.offset \in 0 .. Word - 1 /\ p.filesz \in 0 .. Word - 1 /\ p.vaddr \in 0 .. Word - 1
      /\ p.rw \in BOOLEAN /\ addr \in 0 .. Word - 1
  BY ConstantsType, LastPage, PhdrType DEF Unsigned
<1>2. v \in 0 .. Page - 1
  <2>1. p.vaddr \in Int
    BY <1>1
  <2> QED
    BY <2>1, PageStartIs
<1>3. y \in 0 .. Word - Page /\ y % Word = y
  <2>1. y \in 0 .. Word - Page /\ y \in 0 .. Word - 1
    BY <1>1, <1>2
  <2> HIDE DEF y
  <2> QED
    BY <1>1, <2>1, SmallMod
<1>4. Whole(size) /\ size \in Nat /\ y =< size
  BY <1>3, PageAlignIs
<1>5. whole \in Nat /\ whole >= size
  BY <1>4
<1>6. off \in 0 .. Word - 1
  <2>1. p.offset - v \in Int
    BY <1>1, <1>2
  <2> HIDE DEF v
  <2> QED
    BY <1>1, <2>1, Division
<1>7. ElfMap(addr, p, fixed, total, file)
        = IF size = 0 THEN {<<PageStart(addr), space>>}
          ELSE IF off % Page # 0 \/ off + whole >= Word \/ whole = 0 THEN {}
          ELSE {<<a, Result(a)>> : a \in Places(PageStart(addr), whole, fixed)}
  <2> DEFINE z == y % Word
             Spots(t) ==
               LET s == PageAlign(t)
                   w == IF total > 0 THEN PageAlign(total) ELSE s
                   R(a) ==
                     LET bytes == Mapped(space, a, a + w, [x \in Addr |-> file + off + x - a], p.rw)
                     IN IF w <= s THEN bytes
                        ELSE Mapped(bytes, a + s, a + w, [x \in Addr |-> Nothing], FALSE)
               IN IF s = 0 THEN {<<PageStart(addr), space>>}
                  ELSE IF off % Page # 0 \/ off + w >= Word \/ w = 0 THEN {}
                  ELSE {<<a, R(a)>> : a \in Places(PageStart(addr), w, fixed)}
  <2>1. ElfMap(addr, p, fixed, total, file) = Spots(z)
    BY DEF ElfMap
  <2>2. z = y
    BY <1>3
  <2> HIDE DEF Spots, y, z
  <2>3. Spots(z) = Spots(y)
    BY <2>2
  <2> QED
    BY <2>1, <2>3 DEF Spots
<1>8. CASE size = 0
  BY <1>7, <1>8
<1>9. CASE size # 0
  <2>1. off + whole < Word
    <3> HIDE DEF off, whole, size, Result
    <3> QED
      BY <1>1, <1>5, <1>6, <1>7, <1>9
  <2>2. PICK a \in Places(PageStart(addr), whole, fixed) : r = <<a, Result(a)>>
    BY <1>7, <1>9
  <2>3. Page =< size
    BY <1>1, <1>4, <1>9, LastPage, WholeGap DEF Whole
  <2>4. off = p.offset - v
    <3>1. CASE p.offset < v
      <4>1. PICK z \in 0 .. Word - 1 : z = Word + p.offset - v
        BY <1>1, <1>2, <3>1
      <4>2. (Word * (-1) + z) % Word = z
        BY <1>1, ModIs
      <4>3. Word * (-1) + z = p.offset - v
        BY <1>1, <1>2, <4>1
      <4>4. off = z
        BY <4>2, <4>3
      <4> QED
        <5>1. whole >= Page /\ z + Page > Word
          BY <1>1, <1>2, <1>4, <1>5, <2>3, <4>1
        <5> HIDE DEF whole, off, v
        <5> QED
          BY <1>1, <1>5, <2>1, <4>1, <4>4, <5>1
    <3>2. CASE p.offset >= v
      <4>1. PICK z \in 0 .. Word - 1 : z = p.offset - v
        BY <1>1, <1>2, <3>2
      <4>2. z % Word = z
        BY <1>1, SmallMod
      <4> QED
        BY <4>1, <4>2
    <3> QED
      BY <1>1, <1>2, <3>1, <3>2
  <2>5. /\ Whole(a) /\ a >= 0 /\ a + whole =< TaskSize
        /\ fixed => a = PageStart(addr)
        /\ ~fixed => \A x \in a .. a + whole - 1 : space.byte[x] = Nothing
    <3>1. CASE fixed
      <4>1. a = PageStart(addr) /\ a + whole =< TaskSize
        BY <3>1, <2>2 DEF Places
      <4>2. Whole(PageStart(addr)) /\ 0 =< PageStart(addr)
        BY <1>1, PageStartIs, LastPage
      <4> QED
        BY <3>1, <4>1, <4>2
    <3>2. CASE ~fixed
      <4>1. /\ a \in Page .. TaskSize - whole /\ a % Page = 0
            /\ \A x \in a .. a + whole - 1 : space.byte[x] = Nothing
        BY <3>2, <2>2 DEF Places
      <4> QED
        BY <1>1, <1>5, <3>2, <4>1 DEF Whole
    <3> QED
      BY <3>1, <3>2
  <2>6. a \in Int /\ \A x \in Int : a =< x /\ x < a + size => x \in Addr
    BY <1>1, <1>4, <1>5, <2>5 DEF Addr, Whole
  <2> DEFINE f == [x \in Addr |-> file + off + x - a]
             bytes == Mapped(space, a, a + whole, f, p.rw)
             g == [x \in Addr |-> Nothing]
             rest == Mapped(bytes, a + size, a + whole, g, FALSE)
  <2>7. /\ \A x \in Addr : a =< x /\ x < a + whole =>
              bytes.byte[x] = f[x] /\ (p.rw => x \in bytes.rw)
        /\ Kept(space, bytes, a, a + whole)
    <3> HIDE DEF f, whole
    <3> QED
      BY <1>1, <1>5, <2>6, MappedIs
  <2>8. Kept(bytes, rest, a + size, a + whole)
    <3>1. PICK b \in Int, e \in Int : b = a + size /\ e = a + whole
      BY <1>4, <1>5, <2>6
    <3> HIDE DEF bytes, g, whole, size
    <3>2. Kept(bytes, Mapped(bytes, b, e, g, FALSE), b, e)
      BY MappedIs, FALSE \in BOOLEAN
    <3> QED
      BY <3>1, <3>2
  <2>9. r[1] = a /\ r[2] = IF whole =< size THEN bytes ELSE rest
    BY <2>2
  <2>10. \A x \in Addr : f[x] = file + p.offset + (x - (a + v))
    BY <1>1, <1>2, <2>4, <2>6, ConstantsType DEF Addr
  <2> HIDE DEF f, bytes, rest, whole, size, off, Result
  <2>11. Addr \subseteq Int /\ a + size \in Int /\ a + whole \in Int
    BY <1>4, <1>5, <2>6, ConstantsType DEF Addr
  <2>12. FilePages(r[2], a, p, file)
    <3> SUFFICES ASSUME NEW x \in Int, a =< x, x < a + size
                 PROVE  /\ x \in Addr
                        /\ r[2].byte[x] = file + p.offset + (x - (a + v))
                        /\ p.rw => x \in r[2].rw
      BY DEF FilePages, size
    <3>1. x \in Addr /\ x < a + whole
      BY <1>4, <1>5, <2>6
    <3>2. bytes.byte[x] = file + p.offset + (x - (a + v)) /\ (p.rw => x \in bytes.rw)
      BY <2>7, <2>10, <3>1
    <3>3. rest.byte[x] = bytes.byte[x] /\ (x \in bytes.rw => x \in rest.rw)
      BY <2>8, <3>1 DEF Kept
    <3> QED
      BY <2>9, <3>1, <3>2, <3>3
  <2>13. Kept(space, r[2], a, a + whole)
    <3> SUFFICES ASSUME NEW x \in Addr, x < a \/ a + whole =< x
                 PROVE  r[2].byte[x] = space.byte[x] /\ (x \in space.rw => x \in r[2].rw)
      BY DEF Kept
    <3>1. x \in Int /\ (x < a + size \/ a + whole =< x)
      BY <1>4, <1>5, <2>6, <2>11
    <3>2. bytes.byte[x] = space.byte[x] /\ (x \in space.rw => x \in bytes.rw)
      BY <2>7 DEF Kept
    <3>3. rest.byte[x] = bytes.byte[x] /\ (x \in bytes.rw => x \in rest.rw)
      BY <2>8, <3>1 DEF Kept
    <3> QED
      BY <2>9, <3>2, <3>3
  <2>14. ~fixed => \A x \in Int : r[1] =< x /\ x < r[1] + whole => space.byte[x] = Nothing
    <3> SUFFICES ASSUME ~fixed, NEW x \in Int, a =< x, x < a + whole
                 PROVE  space.byte[x] = Nothing
      BY <2>9
    <3>1. x \in a .. a + whole - 1
      BY <1>5, <2>6, <2>11
    <3> QED
      BY <2>5, <3>1
  <2> QED
    BY <1>9, <2>5, <2>9, <2>12, <2>13, <2>14 DEF whole, size
<1> QED
  BY <1>8, <1>9

-------------------------------------------------------------------------------
(* The inductive invariant.                                                *)

\* How far a file that was mapped with this bias is from the addresses in it.
Base(phdr, bias) == ((bias + phdr[1].vaddr) % Word) - phdr[1].vaddr
\* That of the binary, and that of the interpreter.
B == Base(image.phdr, load_bias)
C == Base(image.interp, load_addr)

\* Unsigned numbers, and biases of whole pages.
Types ==
  /\ image \in Images /\ i \in Nat
  /\ load_bias \in Unsigned /\ Whole(load_bias)
  /\ load_addr \in Unsigned /\ Whole(load_addr)
  /\ mm_brk \in Nat /\ elf_bss \in Nat /\ elf_brk \in Nat
  /\ total_size \in Unsigned /\ load_addr_set \in BOOLEAN

\* All segments of the binary are in memory.
AfterBinary == {"interp", "mapInterp", "checkInterp", "interpBss", "entry", "run"}

\* Where the loader stands, and what it has not begun to compute there.
Control ==
  /\ pc \in {"zero", "map", "check", "bss", "failed"} \cup AfterBinary
  /\ ~image.dyn => load_bias = 0
  /\ pc \in {"zero", "map", "check"} => i \in 1 .. Len(image.phdr)
  /\ pc \in {"zero", "map"} => load_addr_set = (i > 1)
  /\ pc \in {"interp", "mapInterp", "checkInterp", "interpBss"} => image.interp # <<>>
  /\ pc = "check" => load_addr_set
  /\ pc \in {"mapInterp", "checkInterp"} => i \in 1 .. Len(image.interp)
  /\ pc = "mapInterp" =>
       IF i = 1
       THEN /\ ~load_addr_set /\ load_addr = 0 /\ elf_bss = 0 /\ elf_brk = 0
            /\ total_size = TotalMappingSize(image.interp) /\ total_size > 0
       ELSE load_addr_set = image.interpDyn /\ total_size = 0
  /\ pc = "checkInterp" => load_addr_set = image.interpDyn /\ total_size = 0

\* The segments that were mapped and checked, and what the checks leave.
Passed == IF pc \in {"zero", "map", "check"} THEN 1 .. i - 1 ELSE DOMAIN image.phdr
Refused(p) == Overflows(p, p.vaddr)
Placed(p, bias) == ((bias + p.vaddr) % Word) + p.filesz =< TaskSize
Checked ==
  pc # "failed" =>
    /\ \A j \in Passed : ~Refused(image.phdr[j]) /\ Placed(image.phdr[j], load_bias)
    /\ pc = "check" /\ ~Refused(image.phdr[i]) => Placed(image.phdr[i], load_bias)

\* elf_bss and elf_brk are the largest ends so far.
Ends ==
  pc \in {"zero", "map", "check", "bss"} =>
    /\ \A j \in Passed :
         /\ image.phdr[j].vaddr + image.phdr[j].filesz =< elf_bss
         /\ image.phdr[j].vaddr + image.phdr[j].memsz =< elf_brk
    /\ IF Passed = {} THEN elf_bss = 0 /\ elf_brk = 0
       ELSE /\ \E j \in Passed : elf_bss = image.phdr[j].vaddr + image.phdr[j].filesz
            /\ \E j \in Passed : elf_brk = image.phdr[j].vaddr + image.phdr[j].memsz

\* The heap begins behind the segments.
Heap ==
  pc \in AfterBinary /\ Fits =>
    /\ mm_brk =< TaskSize
    /\ \A j \in DOMAIN image.phdr :
         ((load_bias + image.phdr[j].vaddr) % Word) + image.phdr[j].memsz =< mm_brk

\* The file of segment p is in memory b, its pages writable if it is.
FileIn(t, b, p, file) ==
  /\ 0 =< b + p.vaddr /\ b + p.vaddr + p.filesz =< TaskSize
  /\ \A x \in Addr : b + p.vaddr =< x =>
       /\ x < b + p.vaddr + p.filesz =>
            t.byte[x] = file + p.offset + (x - (b + p.vaddr))
       /\ p.rw /\ x < PageAlign(b + p.vaddr + p.filesz) => x \in t.rw

\* All of segment p is there.
WholeIn(t, b, p, file) ==
  /\ 0 =< b + p.vaddr /\ b + p.vaddr + p.memsz =< TaskSize
  /\ \A x \in Addr : b + p.vaddr =< x /\ x < b + p.vaddr + p.memsz =>
       /\ t.byte[x] = IF x < b + p.vaddr + p.filesz
                      THEN file + p.offset + (x - (b + p.vaddr)) ELSE 0
       /\ p.rw => x \in t.rw

BinaryIn(img, b, t, n) == \A j \in 1 .. n : WholeIn(t, b, img.phdr[j], BinaryByte)
InterpIn(img, c, t, n) == \A j \in 1 .. n : WholeIn(t, c, img.interp[j], InterpByte)

\* What the binary has in memory while its segments are mapped.
BinaryLoaded ==
  Fits /\ WellFormed(image.phdr) =>
    /\ pc = "zero" =>
         /\ BinaryIn(image, B, space, i - 2)
         /\ i > 1 => FileIn(space, B, image.phdr[i - 1], BinaryByte)
    /\ pc = "map" => BinaryIn(image, B, space, i - 1)
    /\ pc = "check" /\ ~Refused(image.phdr[i]) =>
         BinaryIn(image, B, space, i - 1) /\ FileIn(space, B, image.phdr[i], BinaryByte)
    /\ pc = "bss" =>
         /\ BinaryIn(image, B, space, Len(image.phdr) - 1)
         /\ FileIn(space, B, image.phdr[Len(image.phdr)], BinaryByte)

\* The room that the first mapping of the interpreter has reserved: all its segments
\* are in it and none of the binary is.
RoomStart(img, c) == c + PageStart(img.interp[1].vaddr)
RoomEnd(img, c) == RoomStart(img, c) + PageAlign(TotalMappingSize(img.interp))
Room(img, b, c) ==
  /\ 0 =< RoomStart(img, c) /\ RoomEnd(img, c) =< TaskSize
  /\ TotalMappingSize(img.interp) \in 1 .. Word - Page
  /\ \A j \in DOMAIN img.phdr : \A x \in Addr :
       b + img.phdr[j].vaddr =< x /\ x < b + img.phdr[j].vaddr + img.phdr[j].memsz =>
         x < RoomStart(img, c) \/ RoomEnd(img, c) =< x

\* elf_bss and elf_brk are the ends of segment p of the interpreter.
InterpEnds(c, p, bss, brk) ==
  bss = c + p.vaddr + p.filesz /\ brk = c + p.vaddr + p.memsz /\ bss =< brk

\* What is in memory from there on.
InterpLoaded ==
  Fits /\ WellFormed(image.phdr) /\ WellFormedInterp =>
    /\ pc \in AfterBinary \ {"checkInterp"} => BinaryIn(image, B, space, Len(image.phdr))
    /\ pc = "mapInterp" /\ i > 1 =>
         /\ Room(image, B, C) /\ InterpIn(image, C, space, i - 1)
         /\ InterpEnds(C, image.interp[i - 1], elf_bss, elf_brk)
    /\ pc = "checkInterp"
         /\ ~Overflows(image.interp[i], (load_addr + image.interp[i].vaddr) % Word) =>
           /\ BinaryIn(image, B, space, Len(image.phdr)) /\ Room(image, B, C)
           /\ InterpIn(image, C, space, i - 1)
           /\ FileIn(space, C, image.interp[i], InterpByte)
           /\ IF i = 1 THEN elf_bss = 0 /\ elf_brk = 0
              ELSE InterpEnds(C, image.interp[i - 1], elf_bss, elf_brk)
    /\ pc = "interpBss" =>
         LET n == Len(image.interp)
         IN /\ Room(image, B, C) /\ InterpIn(image, C, space, n - 1)
            /\ FileIn(space, C, image.interp[n], InterpByte)
            /\ InterpEnds(C, image.interp[n], elf_bss, elf_brk)
    /\ pc \in {"entry", "run"} => InterpIn(image, C, space, Len(image.interp))

IInv == Types /\ Control /\ Checked /\ Ends /\ Heap /\ BinaryLoaded /\ InterpLoaded

-------------------------------------------------------------------------------
(* What the invariant says of segments.                                    *)

\* The headers of the binary and of its interpreter have their types.
LEMMA ImageType ==
  ASSUME NEW img \in Images
  PROVE  /\ img.phdr \in Seq(Phdr) /\ img.phdr # <<>> /\ Len(img.phdr) \in Nat \ {0}
         /\ DOMAIN img.phdr = 1 .. Len(img.phdr)
         /\ \A j \in 1 .. Len(img.phdr) : img.phdr[j] \in Phdr
         /\ img.interp \in Seq(Phdr) /\ Len(img.interp) \in Nat
         /\ DOMAIN img.interp = 1 .. Len(img.interp)
         /\ \A j \in 1 .. Len(img.interp) : img.interp[j] \in Phdr
         /\ img.interp # <<>> => 1 \in 1 .. Len(img.interp)
         /\ img.dyn \in BOOLEAN /\ img.interpDyn \in BOOLEAN
<1>1. /\ img.phdr \in Seq(Phdr) /\ img.phdr # <<>> /\ img.interp \in Seq(Phdr)
      /\ img.dyn \in BOOLEAN /\ img.interpDyn \in BOOLEAN
  BY ImageAssumption
<1>2. \A s \in Seq(Phdr) :
        /\ Len(s) \in Nat /\ DOMAIN s = 1 .. Len(s) /\ \A j \in 1 .. Len(s) : s[j] \in Phdr
        /\ s # <<>> => 1 \in 1 .. Len(s)
  OBVIOUS
<1> QED
  BY <1>1, <1>2

\* A segment that passes the check does not wrap.
LEMMA CheckedIs ==
  ASSUME NEW p \in Phdr, NEW k \in Unsigned, ~Overflows(p, k)
  PROVE  p.filesz =< p.memsz /\ k + p.memsz =< TaskSize /\ k < TaskSize
<1>1. /\ TaskSize \in Int /\ p.memsz \in Int /\ p.filesz \in Int /\ k \in Int
  BY ConstantsType, PhdrType DEF Unsigned
<1> QED
  BY <1>1 DEF Overflows, BadAddr

\* Whole pages between two addresses of the same place in their pages.
LEMMA SamePlace ==
  ASSUME NEW a \in Int, NEW b \in Int, a % Page = b % Page
  PROVE  Whole(a - b)
<1>1. PICK m \in Int, n \in Int : m = PageStart(a) /\ n = PageStart(b)
  BY PageStartIs DEF Whole
<1>2. Whole(m) /\ Whole(n) /\ a - b = m - n
  <2>1. a % Page \in Int /\ b % Page \in Int
    BY PageStartIs, ConstantsType
  <2> QED
    BY <1>1, <2>1, PageStartIs
<1>3. (m - n) % Page = m % Page
  BY <1>1, <1>2, WholeSum
<1> QED
  BY <1>1, <1>2, <1>3 DEF Whole

\* Addresses in memory are those in the file, moved by whole pages.
LEMMA BaseIs ==
  ASSUME NEW phdr, phdr[1] \in Phdr, NEW bias \in Unsigned, Whole(bias)
  PROVE  /\ Whole(Base(phdr, bias))
         /\ Base(phdr, bias) + phdr[1].vaddr = (bias + phdr[1].vaddr) % Word
         /\ \A x \in Int : (bias + x) % Word = (Base(phdr, bias) + x) % Word
<1> DEFINE v == phdr[1].vaddr
           z == (bias + v) % Word
<1>1. /\ v \in Int /\ bias \in Int /\ bias + v \in Int
      /\ Word \in Nat \ {0} /\ Page \in Nat \ {0} /\ Word % Page = 0
  BY PhdrType, ConstantsType DEF Unsigned
<1>2. z \in Int
  <2>1. PICK c \in Int : c = bias + v
    BY <1>1
  <2>2. c % Word \in 0 .. Word - 1
    BY <1>1, Division
  <2> QED
    BY <1>1, <2>1, <2>2
<1>3. Base(phdr, bias) = z - v
  BY DEF Base
<1>4. z % Page = v % Page
  <2>1. z % Page = (bias + v) % Page
    BY <1>1, ModMod
  <2>2. (v + bias) % Page = v % Page
    BY <1>1, WholeSum
  <2> QED
    BY <1>1, <2>1, <2>2
<1>5. \A x \in Int : (bias + x) % Word = ((z - v) + x) % Word
  <2> SUFFICES ASSUME NEW x \in Int PROVE (bias + x) % Word = ((z - v) + x) % Word
    OBVIOUS
  <2>1. PICK c \in Int, d \in Int : c = bias + v /\ d = x - v
    BY <1>1
  <2>2. ((c % Word) + d) % Word = (c + d) % Word
    BY <1>1, ModAdd
  <2>3. c + d = bias + x /\ (c % Word) + d = (z - v) + x
    BY <1>1, <1>2, <2>1
  <2> QED
    BY <2>2, <2>3
<1>6. Whole(z - v)
  <2> HIDE DEF z, v
  <2> QED
    BY <1>1, <1>2, <1>4, SamePlace
<1>7. (z - v) + v = z
  BY <1>1, <1>2
<1> QED
  BY <1>3, <1>5, <1>6, <1>7

\* Up to the end of the word there is nothing to reduce.
LEMMA BaseAt ==
  ASSUME NEW phdr, phdr[1] \in Phdr, NEW bias \in Unsigned, Whole(bias),
         NEW x \in Int, Base(phdr, bias) + x \in 0 .. Word - 1
  PROVE  (bias + x) % Word = Base(phdr, bias) + x
<1>1. PICK y \in 0 .. Word - 1 : y = Base(phdr, bias) + x
  OBVIOUS
<1>2. y % Word = y
  BY ConstantsType, SmallMod
<1> QED
  BY <1>1, <1>2, BaseIs

\* Fits, of a binary and its bias.
FitsAt(img, bias) ==
  img.dyn =>
    \A j \in DOMAIN img.phdr :
      LET a == ((bias + img.phdr[1].vaddr) % Word) + img.phdr[j].vaddr - img.phdr[1].vaddr
      IN a >= 0 /\ a + img.phdr[j].memsz <= Word - Page

\* What Fits says of one segment.
LEMMA FitsIs ==
  /\ Fits <=> FitsAt(image, load_bias)
  /\ Fits' <=> FitsAt(image', load_bias')
BY DEF Fits, FitsAt

\* A segment of a binary that fits, by its distance from the file.
LEMMA Moved ==
  ASSUME NEW img \in Images, NEW bias \in Unsigned, Whole(bias), FitsAt(img, bias),
         ~img.dyn => bias = 0, NEW j \in DOMAIN img.phdr, ~Refused(img.phdr[j])
  PROVE  LET p == img.phdr[j]
             b == Base(img.phdr, bias)
         IN /\ Whole(b) /\ p \in Phdr /\ p.filesz =< p.memsz
            /\ 0 =< b + p.vaddr /\ b + p.vaddr + p.memsz =< Word - Page
            /\ p.vaddr + p.memsz =< TaskSize
            /\ \A y \in 0 .. p.memsz : (bias + (p.vaddr + y)) % Word = b + p.vaddr + y
<1> DEFINE p == img.phdr[j]
           b == Base(img.phdr, bias)
<1>1. /\ p \in Phdr /\ img.phdr[1] \in Phdr /\ img.dyn \in BOOLEAN
      /\ bias \in Unsigned /\ Whole(bias)
  BY ImageType
<1>2. /\ p.vaddr \in Unsigned /\ p.vaddr \in Int /\ p.memsz \in Int /\ p.memsz >= 0
      /\ img.phdr[1].vaddr \in 0 .. Word - 1
  BY <1>1, PhdrType DEF Unsigned
<1>3. /\ p.filesz =< p.memsz /\ p.vaddr + p.memsz =< TaskSize
  BY <1>1, <1>2, CheckedIs DEF Refused
<1>4. /\ Whole(b) /\ b \in Int /\ b + img.phdr[1].vaddr = (bias + img.phdr[1].vaddr) % Word
  BY <1>1, BaseIs DEF Whole
<1>5. 0 =< b + p.vaddr /\ b + p.vaddr + p.memsz =< Word - Page
  <2>1. CASE img.dyn
    <3> DEFINE a == ((bias + img.phdr[1].vaddr) % Word) + p.vaddr - img.phdr[1].vaddr
    <3>1. a >= 0 /\ a + p.memsz =< Word - Page
      BY <2>1 DEF FitsAt
    <3>2. a = b + p.vaddr
      BY <1>2, <1>4
    <3> QED
      BY <3>1, <3>2
  <2>2. CASE ~img.dyn
    <3>1. PICK v \in 0 .. Word - 1 : v = img.phdr[1].vaddr
      BY <1>2
    <3>2. v % Word = v /\ 0 + v = v
      BY ConstantsType, SmallMod
    <3>3. b = 0
      BY <1>2, <1>4, <2>2, <3>1, <3>2
    <3> QED
      BY <1>2, <1>3, <3>3, LastPage, ConstantsType DEF Unsigned
  <2> QED
    BY <1>1, <2>1, <2>2
<1>6. \A y \in 0 .. p.memsz : (bias + (p.vaddr + y)) % Word = b + p.vaddr + y
  <2> SUFFICES ASSUME NEW y \in 0 .. p.memsz
               PROVE  (bias + (p.vaddr + y)) % Word = b + p.vaddr + y
    OBVIOUS
  <2>1. PICK x \in Int : x = p.vaddr + y
    BY <1>2
  <2>2. b + x \in 0 .. Word - 1
    BY <1>2, <1>4, <1>5, <2>1, ConstantsType
  <2>3. (bias + x) % Word = b + x
    BY <1>1, <2>2, BaseAt
  <2> QED
    BY <1>2, <1>4, <2>1, <2>3
<1> QED
  BY <1>1, <1>3, <1>4, <1>5, <1>6

-------------------------------------------------------------------------------
(* Mapping a file.                                                         *)

\* Where elf_map() puts it, whatever the header says.
LEMMA ElfMapAt ==
  ASSUME NEW p, NEW addr \in Unsigned, NEW fixed \in BOOLEAN, NEW total, NEW file,
         NEW r \in ElfMap(addr, p, fixed, total, file)
  PROVE  /\ Whole(r[1]) /\ r[1] \in Nat
         /\ fixed => r[1] = PageStart(addr)
<1>1. addr \in Int /\ addr >= 0 /\ TaskSize \in Int /\ Page \in Nat \ {0}
  BY ConstantsType DEF Unsigned
<1>2. Whole(PageStart(addr)) /\ PageStart(addr) \in Nat
  BY <1>1, PageStartIs, LastPage DEF Whole
<1>3. r[1] = PageStart(addr) \/ \E w : r[1] \in Places(PageStart(addr), w, fixed)
  <2> DEFINE off == (p.offset - (p.vaddr % Page)) % Word
             size == PageAlign((p.filesz + (p.vaddr % Page)) % Word)
             whole == IF total > 0 THEN PageAlign(total) ELSE size
             Result(a) ==
               LET bytes == Mapped(space, a, a + whole, [x \in Addr |-> file + off + x - a], p.rw)
               IN IF whole <= size THEN bytes
                  ELSE Mapped(bytes, a + size, a + whole, [x \in Addr |-> Nothing], FALSE)
  <2>1. ElfMap(addr, p, fixed, total, file)
          = IF size = 0 THEN {<<PageStart(addr), space>>}
            ELSE IF off % Page # 0 \/ off + whole >= Word \/ whole = 0 THEN {}
            ELSE {<<a, Result(a)>> : a \in Places(PageStart(addr), whole, fixed)}
    BY DEF ElfMap
  <2> HIDE DEF Result, whole, off, size
  <2>2. \/ r = <<PageStart(addr), space>>
        \/ \E a \in Places(PageStart(addr), whole, fixed) : r = <<a, Result(a)>>
    BY <2>1
  <2> QED
    BY <2>2
<1>4. \A w : \A a \in Places(PageStart(addr), w, fixed) :
        IF fixed THEN a = PageStart(addr) ELSE a \in Page .. TaskSize - w /\ a % Page = 0
  BY DEF Places
<1>5. \A w : \A a \in Page .. TaskSize - w : a \in Nat
  BY <1>1
<1>6. fixed => r[1] = PageStart(addr)
  BY <1>3, <1>4
<1>7. Whole(r[1]) /\ r[1] \in Nat
  BY <1>2, <1>3, <1>4, <1>5 DEF Whole
<1> QED
  BY <1>6, <1>7

\* elf_map() of a segment that lies in user space.
LEMMA Mapping ==
  ASSUME NEW p \in Phdr, NEW addr \in Unsigned, addr % Page = p.vaddr % Page,
         NEW fixed \in BOOLEAN, NEW total \in Nat, NEW file \in Int,
         NEW r \in ElfMap(addr, p, fixed, total, file), ~BadAddr(r[1]),
         p.filesz + (p.vaddr % Page) =< TaskSize,
         total > 0 => /\ PageAlign(total) >= PageAlign(p.filesz + (p.vaddr % Page))
                      /\ PageAlign(total) \in Nat
  PROVE  LET size == PageAlign(p.filesz + (p.vaddr % Page))
             end == r[1] + (IF total > 0 THEN PageAlign(total) ELSE size)
         IN /\ r[1] + (p.filesz + (p.vaddr % Page)) =< TaskSize
            /\ FilePages(r[2], r[1], p, file)
            /\ Kept(space, r[2], r[1], end)
            /\ ~fixed /\ p.filesz > 0 =>
                 /\ end =< TaskSize
                 /\ \A x \in Int : r[1] =< x /\ x < end => space.byte[x] = Nothing
<1> DEFINE v == p.vaddr % Page
           y == p.filesz + v
           size == PageAlign(y)
           whole == IF total > 0 THEN PageAlign(total) ELSE size
<1>1. /\ r[1] \in Nat /\ Whole(r[1]) /\ (fixed => r[1] = PageStart(addr))
      /\ r[1] < TaskSize
  <2>1. r[1] \in Nat /\ Whole(r[1]) /\ (fixed => r[1] = PageStart(addr))
    BY ElfMapAt
  <2> QED
    BY <2>1, ConstantsType DEF BadAddr
<1>2. /\ p.filesz \in Nat /\ v \in Nat /\ TaskSize \in Nat /\ Word \in Nat /\ Page \in Nat
      /\ TaskSize =< Word - Page
  <2>1. p.vaddr \in Int /\ p.filesz \in Nat
    BY PhdrType DEF Unsigned
  <2>2. v \in 0 .. Page - 1
    BY <2>1, PageStartIs
  <2> QED
    BY <2>1, <2>2, ConstantsType, LastPage
<1>3. y \in 0 .. Word - Page /\ y =< TaskSize
  BY <1>2
<1>4. size \in Nat /\ y =< size
  BY <1>3, PageAlignIs
<1>5. whole \in Nat /\ size =< whole
  BY <1>4
<1>6. CASE size = 0 /\ r = <<PageStart(addr), space>>
  <2>1. r[1] + y =< TaskSize /\ p.filesz = 0
    BY <1>1, <1>2, <1>3, <1>4, <1>6
  <2>2. FilePages(r[2], r[1], p, file)
    <3> SUFFICES ASSUME NEW x \in Int, r[1] =< x, x < r[1] + size PROVE FALSE
      BY DEF FilePages
    <3> QED
      BY <1>1, <1>6
  <2>3. Kept(space, r[2], r[1], r[1] + whole)
    BY <1>6 DEF Kept
  <2> QED
    BY <2>1, <2>2, <2>3
<1>7. CASE /\ size # 0
           /\ Whole(r[1]) /\ r[1] >= 0 /\ r[1] + whole =< TaskSize
           /\ fixed => r[1] = PageStart(addr)
           /\ ~fixed => \A x \in Int : r[1] =< x /\ x < r[1] + whole =>
                          space.byte[x] = Nothing
           /\ FilePages(r[2], r[1], p, file)
           /\ Kept(space, r[2], r[1], r[1] + whole)
  <2>1. r[1] + y =< TaskSize
    <3> HIDE DEF y, whole, size
    <3> QED
      BY <1>1, <1>2, <1>3, <1>4, <1>5, <1>7
  <2> QED
    BY <1>7, <2>1
<1> QED
  <2>1. p.filesz + (p.vaddr % Page) =< Word - Page
    BY <1>3
  <2> QED
    BY <1>6, <1>7, <2>1, ElfMapIs

\* A segment of the binary is mapped.
LEMMA MapIs ==
  ASSUME Types, Control, pc = "map", Map, pc' = "check"
  PROVE  LET p == image.phdr[i]
             y == p.filesz + (p.vaddr % Page)
         IN \E a \in Nat :
              /\ Whole(a) /\ a < TaskSize
              /\ load_bias' \in Unsigned /\ Whole(load_bias')
              /\ ~image.dyn => load_bias' = 0
              /\ i > 1 => load_bias' = load_bias
              /\ (load_bias' + p.vaddr) % Word = a + (p.vaddr % Page)
              /\ ~Refused(p) =>
                   /\ a + y =< TaskSize
                   /\ FilePages(space', a, p, BinaryByte)
                   /\ Kept(space, space', a, a + PageAlign(y))
<1> DEFINE p == image.phdr[i]
           v == p.vaddr % Page
           fixed == ~image.dyn \/ load_addr_set
           bias == IF fixed THEN load_bias ELSE PageStart((DynBase - p.vaddr) % Word)
           at == (bias + p.vaddr) % Word
<1>1. /\ p \in Phdr /\ p.vaddr \in Int /\ p.vaddr >= 0 /\ v \in 0 .. Page - 1
      /\ Word \in Nat \ {0} /\ Page \in Nat \ {0} /\ TaskSize \in Nat
      /\ TaskSize < Word /\ Word % Page = 0 /\ DynBase \in Nat
      /\ load_bias \in 0 .. Word - 1 /\ Whole(load_bias)
  <2>1. p \in Phdr
    BY ImageType DEF Types, Control
  <2>2. p.vaddr \in Int /\ p.vaddr >= 0
    BY <2>1, PhdrType DEF Unsigned
  <2> QED
    BY <2>1, <2>2, ConstantsType, PageStartIs DEF Types, Unsigned
<1>2. fixed \in BOOLEAN
  BY ImageType DEF Types
<1>3. bias \in 0 .. Word - 1 /\ Whole(bias)
  <2>1. CASE fixed
    BY <1>1, <2>1
  <2>2. CASE ~fixed
    <3>1. PICK c \in Int : c = DynBase - p.vaddr
      BY <1>1
    <3>2. PICK d \in 0 .. Word - 1 : d = c % Word
      BY <1>1, Division
    <3>3. PageStart(d) \in 0 .. Word - 1 /\ Whole(PageStart(d))
      <4>1. /\ Whole(PageStart(d)) /\ PageStart(d) =< d
            /\ \A m : Whole(m) /\ m =< d => m =< PageStart(d)
        BY <3>2, PageStartIs
      <4>2. 0 =< PageStart(d)
        BY <3>2, <4>1, LastPage
      <4> QED
        BY <1>1, <3>2, <4>1, <4>2 DEF Whole
    <3> QED
      BY <2>2, <3>1, <3>2, <3>3
  <2> QED
    BY <2>1, <2>2
<1> HIDE DEF bias
<1>4. at \in 0 .. Word - 1 /\ at % Page = v
  <2>1. PICK c \in Int : c = bias + p.vaddr /\ c = p.vaddr + bias
    BY <1>1, <1>3
  <2>2. c % Word \in 0 .. Word - 1 /\ (c % Word) % Page = c % Page
    BY <1>1, Division, ModMod
  <2>3. (p.vaddr + bias) % Page = v
    BY <1>1, <1>3, WholeSum
  <2> QED
    BY <2>1, <2>2, <2>3
<1>5. PICK r \in ElfMap(at, p, fixed, 0, BinaryByte) :
        /\ ~BadAddr(r[1]) /\ space' = r[2]
        /\ load_bias' = IF fixed THEN load_bias ELSE (bias + r[1] - PageStart(at)) % Word
  BY DEF Map, Goto, Segment, Segments, bias
<1> HIDE DEF at, fixed, p, v
<1>6. PICK a \in Nat : a = r[1] /\ Whole(a) /\ a < TaskSize /\ (fixed => a = PageStart(at))
  <2>1. Whole(r[1]) /\ r[1] \in Nat /\ (fixed => r[1] = PageStart(at))
    BY <1>2, <1>4, <1>5, ElfMapAt DEF Unsigned
  <2> QED
    BY <1>1, <1>5, <2>1 DEF BadAddr
<1>7. a + v < TaskSize /\ a + v \in 0 .. Word - 1 /\ at = PageStart(at) + v
  <2>1. a + Page =< TaskSize
    BY <1>6, LastPage, WholeGap
  <2>2. PageStart(at) = at - (at % Page)
    BY <1>4, PageStartIs
  <2> QED
    BY <1>1, <1>4, <1>6, <2>1, <2>2
<1>8. /\ load_bias' \in 0 .. Word - 1 /\ Whole(load_bias')
      /\ (load_bias' + p.vaddr) % Word = a + v
  <2>1. CASE fixed
    <3>1. load_bias' = load_bias /\ bias = load_bias
      BY <1>5, <2>1 DEF bias
    <3>2. at = a + v
      BY <1>6, <1>7, <2>1
    <3> QED
      BY <1>1, <3>1, <3>2 DEF at
  <2>2. CASE ~fixed
    <3>1. PICK m \in Int : m = PageStart(at) /\ Whole(m)
      BY <1>4, PageStartIs DEF Whole
    <3>2. PICK c \in Int : c = bias + a - PageStart(at) /\ c = (bias + a) - m
      BY <1>3, <1>6, <3>1
    <3>3. load_bias' = c % Word
      BY <1>5, <1>6, <2>2, <3>2
    <3>4. Whole(c)
      <4>1. PICK d \in Int : d = bias + a
        BY <1>3, <1>6
      <4>2. d % Page = bias % Page
        BY <1>3, <1>6, <4>1, WholeSum
      <4>3. (d - m) % Page = d % Page
        BY <3>1, <4>1, WholeSum
      <4> QED
        BY <1>3, <3>2, <4>1, <4>2, <4>3 DEF Whole
    <3>5. c % Word \in 0 .. Word - 1 /\ (c % Word) % Page = c % Page
      BY <1>1, Division, ModMod
    <3>6. Whole(c % Word)
      BY <3>4, <3>5 DEF Whole
    <3>7. ((c % Word) + p.vaddr) % Word = (c + p.vaddr) % Word
      BY <1>1, ModAdd
    <3>8. PICK d \in Int, e \in Int : d = bias + p.vaddr /\ e = a - m
      BY <1>1, <1>3, <3>1
    <3>9. ((d % Word) + e) % Word = (d + e) % Word
      BY <1>1, ModAdd
    <3>10. c + p.vaddr = d + e /\ (d % Word) + e = a + v
      <4>1. d % Word = at
        BY <3>8 DEF at
      <4>2. at = m + v
        BY <1>7, <3>1
      <4> QED
        BY <1>1, <1>3, <3>1, <3>2, <3>8, <4>1, <4>2
    <3>11. (a + v) % Word = a + v
      BY <1>1, <1>7, SmallMod
    <3> QED
      BY <3>3, <3>5, <3>6, <3>7, <3>9, <3>10, <3>11
  <2> QED
    BY <2>1, <2>2
<1>9. (~image.dyn => load_bias' = 0) /\ (i > 1 => load_bias' = load_bias)
  BY <1>5 DEF Control, fixed
<1>10. ASSUME ~Refused(p)
       PROVE  /\ a + (p.filesz + v) =< TaskSize
              /\ FilePages(space', a, p, BinaryByte)
              /\ Kept(space, space', a, a + PageAlign(p.filesz + v))
  <2>1. p.filesz =< p.memsz /\ p.vaddr + p.memsz =< TaskSize
    BY <1>1, <1>10, CheckedIs, PhdrType DEF Refused
  <2>2. v =< p.vaddr
    <3>1. 0 =< PageStart(p.vaddr) /\ PageStart(p.vaddr) = p.vaddr - (p.vaddr % Page)
      BY <1>1, PageStartIs, LastPage
    <3> QED
      BY <1>1, <3>1 DEF v
  <2>3. p.filesz + v =< TaskSize
    BY <1>1, <2>1, <2>2, PhdrType
  <2>4. BinaryByte \in Int /\ ~(0 > 0) /\ 0 \in Nat
    BY DEF BinaryByte
  <2>5. /\ r[1] + (p.filesz + (p.vaddr % Page)) =< TaskSize
        /\ FilePages(r[2], r[1], p, BinaryByte)
        /\ Kept(space, r[2], r[1], r[1] + (IF 0 > 0 THEN PageAlign(0)
                                           ELSE PageAlign(p.filesz + (p.vaddr % Page))))
    <3>1. at \in Unsigned /\ at % Page = p.vaddr % Page
          /\ p.filesz + (p.vaddr % Page) =< TaskSize
      BY <1>4, <2>3 DEF Unsigned, v
    <3> QED
      BY <1>1, <1>2, <1>5, <2>4, <3>1, Mapping
  <2> QED
    BY <1>5, <1>6, <2>4, <2>5 DEF v
<1> QED
  BY <1>6, <1>8, <1>9, <1>10 DEF p, v, Unsigned

\* Nothing is mapped when the span of the interpreter ends in the last page of the word.
LEMMA NoRoom ==
  ASSUME NEW p \in Phdr, NEW addr, NEW fixed, NEW file, NEW total \in Unsigned,
         p.filesz > 0, p.filesz + (p.vaddr % Page) =< Word - Page, total > Word - Page
  PROVE  ElfMap(addr, p, fixed, total, file) = {}
<1> DEFINE y == p.filesz + (p.vaddr % Page)
           off == (p.offset - (p.vaddr % Page)) % Word
           size == PageAlign(y % Word)
           whole == IF total > 0 THEN PageAlign(total) ELSE size
           Result(a) ==
             LET bytes == Mapped(space, a, a + whole, [x \in Addr |-> file + off + x - a], p.rw)
             IN IF whole <= size THEN bytes
                ELSE Mapped(bytes, a + size, a + whole, [x \in Addr |-> Nothing], FALSE)
<1>1. /\ Word \in Nat \ {0} /\ Page \in Nat \ {0} /\ total \in 0 .. Word - 1
      /\ p.filesz \in Nat /\ p.vaddr \in Int /\ Page =< Word
  <2>1. p.filesz \in Nat /\ p.vaddr \in Int /\ TaskSize \in Nat /\ TaskSize =< Word - Page
    BY PhdrType, ConstantsType, LastPage DEF Unsigned
  <2> QED
    BY <2>1, ConstantsType DEF Unsigned
<1>2. p.vaddr % Page \in 0 .. Page - 1
  BY <1>1, PageStartIs
<1>3. y \in 1 .. Word - Page
  BY <1>1, <1>2
<1>4. size # 0
  <2> HIDE DEF y
  <2>1. y % Word = y
    <3>1. y \in 0 .. Word - 1
      BY <1>1, <1>3
    <3> QED
      BY <1>1, <3>1, SmallMod
  <2>2. y =< PageAlign(y)
    BY <1>1, <1>3, PageAlignIs
  <2> QED
    BY <1>3, <2>1, <2>2
<1>5. whole = 0
  <2>1. PICK c \in 0 .. Page - 2 : c = total + Page - 1 - Word
    BY <1>1
  <2>2. (Word * 1 + c) % Word = c
    <3>1. c \in 0 .. Word - 1
      BY <1>1, <2>1
    <3> QED
      BY <1>1, <3>1, ModIs
  <2>3. Word * 1 + c = total + Page - 1
    BY <1>1, <2>1
  <2>4. PageAlign(total) = PageStart(c)
    BY <2>2, <2>3 DEF PageAlign
  <2>5. c % Page = c
    <3>1. c \in 0 .. Page - 1
      BY <1>1, <2>1
    <3> QED
      BY <1>1, <3>1, SmallMod
  <2> QED
    BY <1>1, <2>1, <2>4, <2>5 DEF PageStart
<1>6. ElfMap(addr, p, fixed, total, file)
        = IF size = 0 THEN {<<PageStart(addr), space>>}
          ELSE IF off % Page # 0 \/ off + whole >= Word \/ whole = 0 THEN {}
          ELSE {<<a, Result(a)>> : a \in Places(PageStart(addr), whole, fixed)}
  BY DEF ElfMap
<1> HIDE DEF size, whole, off, Result
<1> QED
  BY <1>4, <1>5, <1>6

\* A segment of the interpreter is mapped; the first one reserves room for all.
LEMMA MapInterpIs ==
  ASSUME Types, Control, pc = "mapInterp", MapInterp, pc' = "checkInterp"
  PROVE  LET p == image.interp[i]
             y == p.filesz + (p.vaddr % Page)
             k == (load_addr' + p.vaddr) % Word
             room == PageAlign(total_size)
         IN \E a \in Nat :
              /\ Whole(a) /\ a < TaskSize
              /\ load_addr' \in Unsigned /\ Whole(load_addr')
              /\ i > 1 /\ image.interpDyn => load_addr' = load_addr
              /\ k = a + (p.vaddr % Page)
              /\ ~Overflows(p, k) /\ i > 1 =>
                   /\ a + y =< TaskSize
                   /\ FilePages(space', a, p, InterpByte)
                   /\ Kept(space, space', a, a + PageAlign(y))
              /\ ~Overflows(p, k) /\ i = 1 /\ image.interpDyn /\ p.filesz > 0 /\ y =< total_size =>
                   /\ total_size =< Word - Page
                   /\ a + y =< TaskSize
                   /\ FilePages(space', a, p, InterpByte)
                   /\ Kept(space, space', a, a + room)
                   /\ a + room =< TaskSize
                   /\ \A x \in Int : a =< x /\ x < a + room => space.byte[x] = Nothing
<1> DEFINE p == image.interp[i]
           v == p.vaddr % Page
           fixed == ~image.interpDyn \/ load_addr_set
           at == (load_addr + p.vaddr) % Word
<1>1. /\ p \in Phdr /\ p.vaddr \in Int /\ p.vaddr >= 0 /\ p.vaddr < Word /\ v \in 0 .. Page - 1
      /\ Word \in Nat \ {0} /\ Page \in Nat \ {0} /\ TaskSize \in Nat
      /\ TaskSize < Word /\ Word % Page = 0
      /\ load_addr \in 0 .. Word - 1 /\ Whole(load_addr) /\ total_size \in Nat
  <2>1. p \in Phdr
    BY ImageType DEF Types, Control
  <2>2. p.vaddr \in Int /\ p.vaddr >= 0 /\ p.vaddr < Word
    BY <2>1, PhdrType, ConstantsType DEF Unsigned
  <2>3. v \in 0 .. Page - 1
    BY <2>2, PageStartIs
  <2> QED
    BY <2>1, <2>2, <2>3, ConstantsType DEF Types, Unsigned
<1>2. fixed \in BOOLEAN
  BY ImageType DEF Types
<1>4. at \in 0 .. Word - 1 /\ at % Page = v
  <2>1. PICK c \in Int : c = load_addr + p.vaddr /\ c = p.vaddr + load_addr
    BY <1>1
  <2>2. c % Word \in 0 .. Word - 1 /\ (c % Word) % Page = c % Page
    BY <1>1, Division, ModMod
  <2>3. (p.vaddr + load_addr) % Page = v
    BY <1>1, WholeSum
  <2> QED
    BY <2>1, <2>2, <2>3
<1>5. PICK r \in ElfMap(at, p, fixed, total_size, InterpByte) :
        /\ ~BadAddr(r[1]) /\ space' = r[2]
        /\ load_addr' = IF fixed THEN load_addr ELSE (r[1] - PageStart(p.vaddr)) % Word
  BY DEF MapInterp, Goto, Segment, Segments
<1> HIDE DEF at, fixed, p, v
<1>6. PICK a \in Nat : a = r[1] /\ Whole(a) /\ a < TaskSize /\ (fixed => a = PageStart(at))
  <2>1. Whole(r[1]) /\ r[1] \in Nat /\ (fixed => r[1] = PageStart(at))
    BY <1>2, <1>4, <1>5, ElfMapAt DEF Unsigned
  <2> QED
    BY <1>1, <1>5, <2>1 DEF BadAddr
<1>7. a + v < TaskSize /\ a + v \in 0 .. Word - 1 /\ at = PageStart(at) + v
  <2>1. a + Page =< TaskSize
    BY <1>6, LastPage, WholeGap
  <2>2. PageStart(at) = at - (at % Page)
    BY <1>4, PageStartIs
  <2> QED
    BY <1>1, <1>4, <1>6, <2>1, <2>2
<1>8. /\ load_addr' \in 0 .. Word - 1 /\ Whole(load_addr')
      /\ (load_addr' + p.vaddr) % Word = a + v
  <2>1. CASE fixed
    <3>1. load_addr' = load_addr
      BY <1>5, <2>1
    <3>2. at = a + v
      BY <1>6, <1>7, <2>1
    <3> QED
      BY <1>1, <3>1, <3>2 DEF at
  <2>2. CASE ~fixed
    <3>1. PICK m \in Int : m = PageStart(p.vaddr) /\ Whole(m) /\ m = p.vaddr - v
      BY <1>1, PageStartIs DEF Whole, v
    <3>2. PICK c \in Int : c = r[1] - PageStart(p.vaddr) /\ c = a - m
      BY <1>6, <3>1
    <3>3. load_addr' = c % Word
      BY <1>5, <2>2, <3>2
    <3>4. Whole(c)
      <4>1. a \in Int /\ a % Page = 0
        BY <1>6 DEF Whole
      <4>2. (a - m) % Page = 0
        BY <3>1, <4>1, WholeSum
      <4>3. c % Page = 0
        BY <3>2, <4>2
      <4> QED
        BY <4>3 DEF Whole
    <3>5. c % Word \in 0 .. Word - 1 /\ (c % Word) % Page = c % Page
      BY <1>1, Division, ModMod
    <3>6. Whole(c % Word)
      BY <3>4, <3>5 DEF Whole
    <3>7. ((c % Word) + p.vaddr) % Word = (c + p.vaddr) % Word
      BY <1>1, ModAdd
    <3>8. c + p.vaddr = a + v
      <4>1. v \in Int /\ p.vaddr \in Int
        BY <1>1
      <4>2. m = p.vaddr - v
        BY <3>1
      <4>3. c = a - m
        BY <3>2
      <4> QED
        BY <4>1, <4>2, <4>3
    <3>9. (a + v) % Word = a + v
      BY <1>1, <1>7, SmallMod
    <3> QED
      BY <3>3, <3>5, <3>6, <3>7, <3>8, <3>9
  <2> QED
    BY <2>1, <2>2
<1>9. i > 1 /\ image.interpDyn => load_addr' = load_addr /\ total_size = 0
  <2>1. i > 1 => i # 1
    BY DEF Types
  <2> QED
    BY <1>5, <2>1 DEF Control, fixed
<1>10. i > 1 => total_size = 0
  <2>1. i > 1 => i # 1
    BY DEF Types
  <2> QED
    BY <2>1 DEF Control
<1>11. ASSUME ~Overflows(p, a + v)
       PROVE  p.filesz + v =< TaskSize
  <2>1. a + v \in Unsigned
    BY <1>7 DEF Unsigned
  <2>2. p.filesz =< p.memsz /\ (a + v) + p.memsz =< TaskSize
    BY <1>1, <1>11, <2>1, CheckedIs
  <2> QED
    BY <1>1, <1>6, <2>2, PhdrType
<1>12. InterpByte \in Int /\ at \in Unsigned /\ at % Page = p.vaddr % Page
  BY <1>1, <1>4 DEF InterpByte, Unsigned, v
<1>13. ASSUME ~Overflows(p, a + v), i > 1
       PROVE  /\ a + (p.filesz + v) =< TaskSize
              /\ FilePages(space', a, p, InterpByte)
              /\ Kept(space, space', a, a + PageAlign(p.filesz + v))
  <2>1. total_size = 0 /\ ~(total_size > 0) /\ p.filesz + (p.vaddr % Page) =< TaskSize
    BY <1>10, <1>11, <1>13 DEF v
  <2>2. /\ r[1] + (p.filesz + (p.vaddr % Page)) =< TaskSize
        /\ FilePages(r[2], r[1], p, InterpByte)
        /\ Kept(space, r[2], r[1], r[1] + (IF total_size > 0 THEN PageAlign(total_size)
                                           ELSE PageAlign(p.filesz + (p.vaddr % Page))))
    BY <1>1, <1>2, <1>5, <1>12, <2>1, Mapping
  <2> QED
    BY <1>5, <1>6, <2>1, <2>2 DEF v
<1>14. ASSUME ~Overflows(p, a + v), i = 1, image.interpDyn, p.filesz > 0,
              p.filesz + v =< total_size
       PROVE  /\ total_size =< Word - Page
              /\ a + (p.filesz + v) =< TaskSize
              /\ FilePages(space', a, p, InterpByte)
              /\ Kept(space, space', a, a + PageAlign(total_size))
              /\ a + PageAlign(total_size) =< TaskSize
              /\ \A x \in Int : a =< x /\ x < a + PageAlign(total_size) =>
                   space.byte[x] = Nothing
  <2>1. total_size > 0 /\ ~fixed /\ p.filesz + (p.vaddr % Page) =< TaskSize
    BY <1>11, <1>14 DEF Control, fixed, v
  <2>2. PICK y \in 0 .. Word - Page : y = p.filesz + (p.vaddr % Page)
    BY <1>1, <2>1, LastPage, PhdrType DEF Unsigned, v
  <2>3. total_size =< Word - Page
    BY <1>1, <1>5, <1>14, <2>2, NoRoom, ConstantsType DEF Types
  <2>4. PageAlign(total_size) \in Nat /\ PageAlign(total_size) >= PageAlign(y)
    <3>1. total_size \in 0 .. Word - Page
      BY <1>1, <2>3, ConstantsType
    <3>2. /\ Whole(PageAlign(total_size)) /\ PageAlign(total_size) \in Nat
          /\ total_size =< PageAlign(total_size)
      BY <3>1, PageAlignIs
    <3>3. y =< PageAlign(total_size)
      BY <1>1, <1>14, <2>2, <3>2 DEF v
    <3>4. PageAlign(y) =< PageAlign(total_size) /\ PageAlign(y) \in Nat
      BY <3>2, <3>3, PageAlignIs
    <3> QED
      BY <3>2, <3>4
  <2>5. LET end == r[1] + (IF total_size > 0 THEN PageAlign(total_size)
                           ELSE PageAlign(p.filesz + (p.vaddr % Page)))
        IN /\ r[1] + (p.filesz + (p.vaddr % Page)) =< TaskSize
           /\ FilePages(r[2], r[1], p, InterpByte)
           /\ Kept(space, r[2], r[1], end)
           /\ ~fixed /\ p.filesz > 0 =>
                /\ end =< TaskSize
                /\ \A x \in Int : r[1] =< x /\ x < end => space.byte[x] = Nothing
    BY <1>1, <1>2, <1>5, <1>12, <2>1, <2>2, <2>4, Mapping
  <2> QED
    BY <1>5, <1>6, <1>14, <2>1, <2>3, <2>5 DEF v
<1> QED
  BY <1>6, <1>8, <1>9, <1>13, <1>14 DEF p, v, Unsigned

-------------------------------------------------------------------------------
(* What stays and what is cleared.                                         *)

\* A segment keeps its file in memory when its bytes are left alone.
LEMMA FileKept ==
  ASSUME NEW s, NEW t, NEW b \in Int, NEW p \in Phdr, NEW file, NEW lo \in Int, NEW hi \in Int,
         FileIn(s, b, p, file), Kept(s, t, lo, hi), PageAlign(b + p.vaddr + p.filesz) =< lo
  PROVE  FileIn(t, b, p, file)
<1>1. /\ Addr \subseteq Int /\ b + p.vaddr + p.filesz \in Int
      /\ b + p.vaddr + p.filesz \in 0 .. Word - Page
  BY ConstantsType, LastPage, PhdrType DEF Addr, FileIn, Unsigned
<1>2. /\ PageAlign(b + p.vaddr + p.filesz) \in Int
      /\ b + p.vaddr + p.filesz =< PageAlign(b + p.vaddr + p.filesz)
  BY <1>1, PageAlignIs
<1> QED
  BY <1>1, <1>2 DEF FileIn, Kept

\* A segment stays whole when its bytes are left alone.
LEMMA WholeKept ==
  ASSUME NEW s, NEW t, NEW b, NEW p, NEW file, NEW lo, NEW hi,
         WholeIn(s, b, p, file), Kept(s, t, lo, hi),
         \A x \in Addr : b + p.vaddr =< x /\ x < b + p.vaddr + p.memsz => x < lo \/ hi =< x
  PROVE  WholeIn(t, b, p, file)
BY DEF WholeIn, Kept

\* What elf_map() gave, seen from the file.
LEMMA FileMapped ==
  ASSUME NEW t, NEW a \in Nat, Whole(a), NEW b \in Int, NEW p \in Phdr, NEW file \in Int,
         FilePages(t, a, p, file), b + p.vaddr = a + (p.vaddr % Page),
         a + (p.filesz + (p.vaddr % Page)) =< TaskSize
  PROVE  /\ FileIn(t, b, p, file)
         /\ PageAlign(b + p.vaddr + p.filesz) = a + PageAlign(p.filesz + (p.vaddr % Page))
<1> DEFINE v == p.vaddr % Page
           y == p.filesz + v
<1>1. /\ p.filesz \in Nat /\ p.vaddr \in Int /\ p.offset \in Int /\ TaskSize \in Nat
      /\ TaskSize =< Word - Page /\ Word \in Nat /\ Page \in Nat
  BY PhdrType, ConstantsType, LastPage DEF Unsigned
<1>2. v \in Nat
  <2>1. v \in 0 .. Page - 1
    BY <1>1, PageStartIs
  <2> QED
    BY <1>1, <2>1
<1>3. y \in 0 .. Word - Page /\ a + y \in 0 .. Word - Page
  BY <1>1, <1>2
<1>4. b + p.vaddr + p.filesz = a + y
  BY <1>1, <1>2
<1>5. PageAlign(a + y) = a + PageAlign(y) /\ PageAlign(y) \in Nat /\ y =< PageAlign(y)
  BY <1>3, PageAlignShift, PageAlignIs
<1>6. 0 =< b + p.vaddr /\ b + p.vaddr + p.filesz =< TaskSize
  BY <1>1, <1>2, <1>4
<1>7. ASSUME NEW x \in Addr, b + p.vaddr =< x, x < PageAlign(b + p.vaddr + p.filesz)
      PROVE  /\ t.byte[x] = file + p.offset + (x - (b + p.vaddr))
             /\ p.rw => x \in t.rw
  <2>1. x \in Int
    BY ConstantsType DEF Addr
  <2>2. a =< x /\ x < a + PageAlign(y)
    BY <1>1, <1>2, <1>4, <1>5, <1>7, <2>1
  <2> QED
    BY <2>1, <2>2 DEF FilePages
<1>8. b + p.vaddr + p.filesz =< PageAlign(b + p.vaddr + p.filesz)
  BY <1>3, <1>4, <1>5
<1>9. \A x \in Addr : x < b + p.vaddr + p.filesz => x < PageAlign(b + p.vaddr + p.filesz)
  <2>1. /\ Addr \subseteq Int /\ b + p.vaddr + p.filesz \in Int
        /\ PageAlign(b + p.vaddr + p.filesz) \in Int
    BY <1>1, <1>4, <1>5, ConstantsType DEF Addr
  <2> QED
    BY <1>8, <2>1
<1> QED
  BY <1>4, <1>5, <1>6, <1>7, <1>9 DEF FileIn

\* A segment is whole when its file is there and the rest is zero.
LEMMA WholeIs ==
  ASSUME NEW t, NEW b \in Int, NEW p \in Phdr, NEW file, FileIn(t, b, p, file),
         b + p.vaddr + p.memsz =< TaskSize,
         \A x \in Addr : b + p.vaddr + p.filesz =< x /\ x < b + p.vaddr + p.memsz =>
           t.byte[x] = 0 /\ x \in t.rw
  PROVE  WholeIn(t, b, p, file)
<1>1. /\ Addr \subseteq Int /\ b + p.vaddr + p.filesz \in 0 .. Word - Page
      /\ b + p.vaddr + p.memsz \in Int /\ b + p.vaddr \in Int
  BY ConstantsType, LastPage, PhdrType DEF Addr, FileIn, Unsigned
<1>2. /\ PageAlign(b + p.vaddr + p.filesz) \in Int
      /\ b + p.vaddr + p.filesz =< PageAlign(b + p.vaddr + p.filesz)
  BY <1>1, PageAlignIs
<1> SUFFICES ASSUME NEW x \in Addr, b + p.vaddr =< x, x < b + p.vaddr + p.memsz
             PROVE  /\ t.byte[x] = IF x < b + p.vaddr + p.filesz
                                   THEN file + p.offset + (x - (b + p.vaddr)) ELSE 0
                    /\ p.rw => x \in t.rw
  BY DEF WholeIn, FileIn
<1>3. CASE x < b + p.vaddr + p.filesz
  <2>1. x < PageAlign(b + p.vaddr + p.filesz)
    BY <1>1, <1>2, <1>3
  <2> QED
    BY <1>3, <2>1 DEF FileIn
<1>4. CASE ~(x < b + p.vaddr + p.filesz)
  BY <1>1, <1>4
<1> QED
  BY <1>3, <1>4

\* Anonymous pages for the end of a segment and the rest of its last file page cleared:
\* the pages behind it and n bytes, all that the segment has of that page.
LEMMA BssCleared ==
  ASSUME NEW b \in Int, NEW p \in Phdr, NEW file, FileIn(space, b, p, file),
         p.filesz < p.memsz, p.rw, NEW start \in Int, NEW end \in Int, NEW n \in Int,
         start = b + p.vaddr + p.filesz, end = b + p.vaddr + p.memsz,
         end =< Word - Page, PageAlign(end) =< TaskSize,
         n =< PageAlign(start) - start, n >= PageAlign(start) - start \/ n >= end - start
  PROVE  LET t == Cleared(AfterBrk(start, end), start, n)
         IN /\ Clearable(AfterBrk(start, end), start, n)
            /\ WholeIn(t, b, p, file)
            /\ Kept(space, t, start, PageAlign(end))
<1> DEFINE s == AfterBrk(start, end)
           t == Cleared(s, start, n)
           S == PageAlign(start)
           E == PageAlign(end)
<1>1. /\ start \in 0 .. Word - Page /\ end \in 0 .. Word - Page /\ start < end
      /\ Addr = 0 .. TaskSize - 1 /\ TaskSize \in Nat /\ 0 =< b + p.vaddr /\ b + p.vaddr =< start
      /\ b + p.vaddr \in Int
  BY ConstantsType, PhdrType DEF FileIn, Unsigned, Addr
<1>2. S \in Nat /\ E \in Nat /\ start =< S /\ end =< E /\ E =< TaskSize
  BY <1>1, PageAlignIs
<1>3. S =< E
  <2>1. Whole(E) /\ start =< E
    BY <1>1, <1>2, PageAlignIs
  <2> QED
    BY <1>1, <2>1, PageAlignIs
<1> HIDE DEF S, E
<1>4. /\ \A x \in Addr : S =< x /\ x < E => s.byte[x] = 0 /\ x \in s.rw
      /\ Kept(space, s, S, E)
      /\ \A x : x \in space.rw => x \in s.rw
  BY <1>2, ZeroedIs DEF AfterBrk, S, E
<1>5. \A x \in Addr : start =< x /\ x < S => x \in space.rw
  BY <1>1 DEF FileIn, S
<1>6. Clearable(s, start, n)
  <2> SUFFICES ASSUME NEW x \in start .. start + n - 1 PROVE x \in s.rw
    BY DEF Clearable
  <2>1. x \in Int /\ start =< x /\ x < S
    BY <1>1, <1>2 DEF S
  <2>2. x \in Addr
    BY <1>1, <1>2, <1>3, <2>1
  <2> QED
    BY <1>4, <1>5, <2>1, <2>2
<1>7. t = Zeroed(s, start, start + n)
  BY <1>6 DEF Cleared
<1>8. PICK e \in Int : e = start + n /\ e =< S /\ (e >= S \/ e >= end)
  <2>1. n =< S - start /\ (n >= S - start \/ n >= end - start)
    BY DEF S
  <2> QED
    BY <1>2, <2>1
<1> HIDE DEF s
<1>9. /\ \A x \in Addr : start =< x /\ x < e => t.byte[x] = 0 /\ x \in t.rw
      /\ Kept(s, t, start, e)
      /\ \A x : x \in s.rw => x \in t.rw
  BY <1>1, <1>7, <1>8, ZeroedIs
<1> HIDE DEF t
<1>10. Kept(space, t, start, E)
  <2> SUFFICES ASSUME NEW x \in Addr, x < start \/ E =< x
               PROVE  t.byte[x] = space.byte[x] /\ (x \in space.rw => x \in t.rw)
    BY DEF Kept
  <2>1. x \in Int /\ (x < start \/ e =< x) /\ (x < S \/ E =< x)
    BY <1>1, <1>2, <1>3, <1>8
  <2> QED
    BY <1>4, <1>9, <2>1 DEF Kept
<1>11. \A x \in Addr : start =< x /\ x < end => t.byte[x] = 0 /\ x \in t.rw
  <2> SUFFICES ASSUME NEW x \in Addr, start =< x, x < end PROVE t.byte[x] = 0 /\ x \in t.rw
    OBVIOUS
  <2>1. CASE x < e
    BY <1>9, <2>1
  <2>2. CASE ~(x < e)
    <3>1. S =< x /\ x < E /\ e =< x
      BY <1>1, <1>2, <1>8, <2>2
    <3>2. s.byte[x] = 0 /\ x \in s.rw
      BY <1>4, <3>1
    <3> QED
      BY <1>9, <3>1, <3>2 DEF Kept
  <2> QED
    BY <2>1, <2>2
<1>12. FileIn(t, b, p, file)
  <2>1. 0 =< b + p.vaddr /\ b + p.vaddr + p.filesz =< TaskSize
    BY DEF FileIn
  <2> SUFFICES ASSUME NEW x \in Addr, b + p.vaddr =< x
               PROVE  /\ x < b + p.vaddr + p.filesz =>
                           t.byte[x] = file + p.offset + (x - (b + p.vaddr))
                      /\ p.rw /\ x < PageAlign(b + p.vaddr + p.filesz) => x \in t.rw
    BY <2>1 DEF FileIn
  <2>2. x \in space.rw => x \in t.rw
    BY <1>4, <1>9
  <2>3. x < start => t.byte[x] = space.byte[x]
    BY <1>10 DEF Kept
  <2> QED
    BY <2>2, <2>3 DEF FileIn
<1>13. WholeIn(t, b, p, file)
  <2>1. p.filesz =< p.memsz
    BY PhdrType
  <2>2. end =< TaskSize
    BY <1>1, <1>2
  <2> QED
    BY <1>11, <1>12, <2>1, <2>2, WholeIs
<1> QED
  BY <1>6, <1>10, <1>13 DEF s, t, E

-------------------------------------------------------------------------------
(* The binary, step by step.                                               *)

\* The numbers that the steps compute.
LEMMA WordType ==
  ASSUME NEW x \in Int
  PROVE  x % Word \in Unsigned /\ x % Word \in Nat /\ PageAlign(x) \in Nat
<1>1. Word \in Nat \ {0} /\ Page \in Nat \ {0}
  BY ConstantsType
<1>2. x % Word \in 0 .. Word - 1
  BY <1>1, Division
<1>3. PICK y \in Int : y = x + Page - 1
  BY <1>1
<1>4. PICK z \in 0 .. Word - 1 : z = y % Word
  BY <1>1, Division
<1>5. PageStart(z) \in Nat
  <2>1. /\ PageStart(z) \in Int /\ PageStart(z) =< z
        /\ \A m : Whole(m) /\ m =< z => m =< PageStart(z)
    BY <1>4, PageStartIs DEF Whole
  <2> QED
    BY <1>4, <2>1, LastPage
<1> QED
  BY <1>1, <1>2, <1>3, <1>4, <1>5 DEF PageAlign, Unsigned

\* In ascending order, the ends of the last segment are the largest.
LEMMA LastEnds ==
  ASSUME Types, Control, Checked, Ends, WellFormed(image.phdr),
         pc \in {"zero", "map", "check", "bss"}, NEW n \in Nat, n >= 1, Passed = 1 .. n
  PROVE  LET p == image.phdr[n]
         IN /\ n \in DOMAIN image.phdr /\ p \in Phdr /\ ~Refused(p)
            /\ elf_bss = p.vaddr + p.filesz /\ elf_brk = p.vaddr + p.memsz
            /\ p.filesz =< p.memsz
            /\ \A j \in 1 .. n - 1 :
                 /\ j \in DOMAIN image.phdr
                 /\ image.phdr[j].vaddr + image.phdr[j].memsz =< PageStart(p.vaddr)
<1>1. /\ n \in 1 .. n /\ n \in Passed
  BY DEF Types
<1>2. \A j \in Passed :
        /\ j \in DOMAIN image.phdr /\ image.phdr[j] \in Phdr /\ ~Refused(image.phdr[j])
        /\ image.phdr[j].filesz =< image.phdr[j].memsz
  <2> SUFFICES ASSUME NEW j \in Passed
               PROVE  /\ j \in DOMAIN image.phdr /\ image.phdr[j] \in Phdr
                      /\ ~Refused(image.phdr[j])
                      /\ image.phdr[j].filesz =< image.phdr[j].memsz
    OBVIOUS
  <2>1. j \in DOMAIN image.phdr /\ image.phdr[j] \in Phdr
    BY ImageType DEF Passed, Types, Control
  <2>2. ~Refused(image.phdr[j])
    BY DEF Checked
  <2> QED
    BY <2>1, <2>2, CheckedIs, PhdrType DEF Refused
<1> PICK p \in Phdr : p = image.phdr[n]
  BY <1>1, <1>2
<1>3. /\ p.vaddr \in Nat /\ p.vaddr \in Int /\ p.filesz \in Nat /\ p.memsz \in Nat
      /\ p.filesz =< p.memsz
  BY <1>1, <1>2, PhdrType DEF Unsigned
<1>4. PageStart(p.vaddr) \in Int /\ PageStart(p.vaddr) =< p.vaddr
  BY <1>3, PageStartIs DEF Whole
<1>5. \A j \in 1 .. n - 1 :
        /\ j \in DOMAIN image.phdr
        /\ image.phdr[j].vaddr + image.phdr[j].memsz =< PageStart(p.vaddr)
  <2> SUFFICES ASSUME NEW j \in 1 .. n - 1
               PROVE  /\ j \in DOMAIN image.phdr
                      /\ image.phdr[j].vaddr + image.phdr[j].memsz =< PageStart(p.vaddr)
    OBVIOUS
  <2>1. j \in Passed /\ j < n
    OBVIOUS
  <2> QED
    BY <1>1, <1>2, <2>1 DEF WellFormed
<1>6. ASSUME NEW j \in Passed, j # n
      PROVE  /\ image.phdr[j].vaddr + image.phdr[j].memsz =< p.vaddr
             /\ image.phdr[j].vaddr + image.phdr[j].filesz =< p.vaddr
             /\ image.phdr[j].vaddr + image.phdr[j].memsz \in Int
             /\ image.phdr[j].vaddr + image.phdr[j].filesz \in Int
  <2>1. j \in 1 .. n - 1 /\ j \in 1 .. n
    BY <1>6
  <2>2. image.phdr[j].vaddr + image.phdr[j].memsz =< PageStart(p.vaddr)
    BY <1>5, <2>1
  <2>3. PICK u \in Int, f \in Int, m \in Int, w \in Int, z \in Int :
          /\ u = image.phdr[j].vaddr /\ f = image.phdr[j].filesz /\ m = image.phdr[j].memsz
          /\ w = PageStart(p.vaddr) /\ z = p.vaddr
    <3>1. {image.phdr[j].vaddr, image.phdr[j].filesz, image.phdr[j].memsz} \subseteq Int
      BY <1>2, PhdrType
    <3> QED
      BY <1>3, <1>4, <3>1
  <2>4. f =< m /\ w =< z /\ u + m =< w
    BY <1>2, <1>4, <2>2, <2>3
  <2>5. u + m =< z /\ u + f =< z /\ u + m \in Int /\ u + f \in Int
    BY <2>4
  <2> QED
    BY <2>3, <2>5
<1>7. /\ p.vaddr + p.filesz =< elf_bss /\ p.vaddr + p.memsz =< elf_brk
      /\ \E j \in Passed : elf_bss = image.phdr[j].vaddr + image.phdr[j].filesz
      /\ \E j \in Passed : elf_brk = image.phdr[j].vaddr + image.phdr[j].memsz
  BY <1>1 DEF Ends
<1> PICK v \in Int, f \in Nat, m \in Nat : v = p.vaddr /\ f = p.filesz /\ m = p.memsz
  BY <1>3
<1>8. elf_bss = p.vaddr + p.filesz
  <2>1. PICK j \in Passed : elf_bss = image.phdr[j].vaddr + image.phdr[j].filesz
    BY <1>7
  <2>2. CASE j = n
    BY <2>1, <2>2
  <2>3. CASE j # n
    <3>1. v + f =< elf_bss /\ elf_bss =< v /\ elf_bss \in Int
      BY <1>6, <1>7, <2>1, <2>3
    <3> QED
      BY <3>1
  <2> QED
    BY <2>2, <2>3
<1>9. elf_brk = p.vaddr + p.memsz
  <2>1. PICK j \in Passed : elf_brk = image.phdr[j].vaddr + image.phdr[j].memsz
    BY <1>7
  <2>2. CASE j = n
    BY <2>1, <2>2
  <2>3. CASE j # n
    <3>1. v + m =< elf_brk /\ elf_brk =< v /\ elf_brk \in Int
      BY <1>6, <1>7, <2>1, <2>3
    <3> QED
      BY <3>1
  <2> QED
    BY <2>2, <2>3
<1> QED
  BY <1>1, <1>2, <1>3, <1>5, <1>8, <1>9

\* The part of memory that the step of Zero and that of Bss clear: what the last segment
\* has beyond its file.
LEMMA BssOfLast ==
  ASSUME Types, Control, Checked, Ends, Fits, WellFormed(image.phdr),
         pc \in {"zero", "bss"}, NEW n \in Nat, n >= 1, Passed = 1 .. n,
         BinaryIn(image, B, space, n - 1), FileIn(space, B, image.phdr[n], BinaryByte)
  PROVE  LET start == (elf_bss + load_bias) % Word
             end == (elf_brk + load_bias) % Word
         IN /\ B \in Int /\ start = B + elf_bss /\ end = B + elf_brk
            /\ elf_bss \in 0 .. Word - Page /\ start \in 0 .. Word - Page
            /\ PageAlign(start) = B + PageAlign(elf_bss)
            /\ PageAlign(start) =< TaskSize
            /\ elf_brk =< elf_bss => BinaryIn(image, B, space, n)
            /\ \A k \in Int :
                 /\ elf_bss < elf_brk /\ PageAlign(end) =< TaskSize
                 /\ k =< PageAlign(start) - start
                 /\ k >= PageAlign(start) - start \/ k >= end - start
                 => /\ Clearable(AfterBrk(start, end), start, k)
                    /\ BinaryIn(image, B, Cleared(AfterBrk(start, end), start, k), n)
<1> DEFINE start == (elf_bss + load_bias) % Word
           end == (elf_brk + load_bias) % Word
<1> PICK p : p = image.phdr[n]
  OBVIOUS
<1>1. /\ n \in DOMAIN image.phdr /\ p \in Phdr /\ ~Refused(p)
      /\ elf_bss = p.vaddr + p.filesz /\ elf_brk = p.vaddr + p.memsz
      /\ p.filesz =< p.memsz
      /\ \A j \in 1 .. n - 1 :
           /\ j \in DOMAIN image.phdr
           /\ image.phdr[j].vaddr + image.phdr[j].memsz =< PageStart(p.vaddr)
  BY LastEnds
<1>2. /\ Whole(B) /\ 0 =< B + p.vaddr /\ B + p.vaddr + p.memsz =< Word - Page
      /\ p.vaddr + p.memsz =< TaskSize
      /\ \A y \in 0 .. p.memsz : (load_bias + (p.vaddr + y)) % Word = B + p.vaddr + y
  BY <1>1, Moved, FitsIs DEF Types, Control, B
<1>3. /\ B \in Int /\ p.vaddr \in Nat /\ p.filesz \in Nat /\ p.memsz \in Nat /\ load_bias \in Int
      /\ TaskSize \in Nat /\ Word \in Nat /\ Page \in Nat /\ TaskSize =< Word - Page
      /\ p.vaddr \in Int
  <2>1. p.vaddr \in Nat /\ p.filesz \in Nat /\ p.memsz \in Nat /\ p.vaddr \in Int
    BY <1>1, PhdrType DEF Unsigned
  <2>2. B \in Int /\ load_bias \in Int
    BY <1>2 DEF Whole, Types, Unsigned
  <2> QED
    BY <2>1, <2>2, ConstantsType, LastPage
<1>4. start = B + elf_bss /\ end = B + elf_brk
  <2>1. /\ (load_bias + (p.vaddr + p.filesz)) % Word = B + p.vaddr + p.filesz
        /\ (load_bias + (p.vaddr + p.memsz)) % Word = B + p.vaddr + p.memsz
    <3>1. p.filesz \in 0 .. p.memsz /\ p.memsz \in 0 .. p.memsz
      BY <1>1, <1>3
    <3> QED
      BY <1>2, <3>1
  <2>2. PICK b \in Int, l \in Int, v \in Nat, f \in Nat, m \in Nat :
          b = B /\ l = load_bias /\ v = p.vaddr /\ f = p.filesz /\ m = p.memsz
    BY <1>3
  <2>3. (v + f) + l = l + (v + f) /\ (v + m) + l = l + (v + m)
        /\ b + v + f = b + (v + f) /\ b + v + m = b + (v + m)
    OBVIOUS
  <2>4. elf_bss = v + f /\ elf_brk = v + m
    BY <1>1, <2>2
  <2> QED
    BY <2>1, <2>2, <2>3, <2>4
<1>20. PICK b \in Int, v \in Nat, f \in Nat, m \in Nat :
      b = B /\ v = p.vaddr /\ f = p.filesz /\ m = p.memsz
  BY <1>3
<1> HIDE DEF start, end
<1>5. /\ elf_bss \in 0 .. Word - Page /\ start \in 0 .. Word - Page /\ end \in Int
      /\ end =< Word - Page /\ start = B + p.vaddr + p.filesz /\ end = B + p.vaddr + p.memsz
  <2>1. elf_bss = v + f /\ elf_brk = v + m /\ f =< m /\ start = b + elf_bss /\ end = b + elf_brk
    BY <1>1, <1>4, <1>20
  <2>2. 0 =< b + v /\ b + v + m =< Word - Page /\ v + m =< TaskSize
    BY <1>2, <1>20
  <2>3. start = b + (v + f) /\ end = b + (v + m)
    BY <2>1
  <2>4. b + (v + f) = b + v + f /\ b + (v + m) = b + v + m
    OBVIOUS
  <2>5. PICK word \in Int, page \in Int, ts \in Int :
          word = Word /\ page = Page /\ ts = TaskSize /\ ts =< word - page
    BY <1>3
  <2>6. 0 =< b + v /\ b + v + m =< word - page /\ v + m =< ts /\ f =< m
    BY <2>1, <2>2, <2>5
  <2>7. /\ v + f \in 0 .. word - page /\ b + v + f \in 0 .. word - page
        /\ b + v + m \in Int
    BY <2>5, <2>6
  <2> QED
    BY <1>20, <2>1, <2>2, <2>3, <2>4, <2>5, <2>7
<1>6. PageAlign(start) = B + PageAlign(elf_bss)
  BY <1>2, <1>4, <1>5, PageAlignShift
<1>7. PageAlign(start) =< TaskSize
  <2>1. start =< TaskSize
    BY <1>5 DEF FileIn
  <2> QED
    BY <1>5, <2>1, PageAlignIs, LastPage
<1>8. ASSUME NEW t, NEW hi, Kept(space, t, start, hi), WholeIn(t, B, p, BinaryByte)
      PROVE  BinaryIn(image, B, t, n)
  <2> SUFFICES ASSUME NEW j \in 1 .. n PROVE WholeIn(t, B, image.phdr[j], BinaryByte)
    BY DEF BinaryIn
  <2>1. CASE j = n
    BY <1>8, <2>1
  <2>2. CASE j # n
    <3>1. j \in 1 .. n - 1
      BY <2>2
    <3> DEFINE q == image.phdr[j]
    <3>2. q.vaddr + q.memsz =< PageStart(p.vaddr) /\ j \in DOMAIN image.phdr
      BY <1>1, <3>1
    <3>3. q \in Phdr
      BY <3>2, ImageType DEF Types
    <3>4. q.vaddr \in Int /\ q.memsz \in Int
      BY <3>3, PhdrType
    <3>5. PageStart(p.vaddr) \in Int /\ PageStart(p.vaddr) =< p.vaddr
      BY <1>3, PageStartIs DEF Whole
    <3>6. WholeIn(space, B, q, BinaryByte)
      BY <3>1 DEF BinaryIn
    <3>7. \A x \in Addr : x < B + q.vaddr + q.memsz => x < start
      <4>1. B + q.vaddr + q.memsz =< start /\ Addr \subseteq Int /\ B + q.vaddr + q.memsz \in Int
        <5>1. PICK u \in Int, z \in Int, w \in Int :
                u = q.vaddr /\ z = q.memsz /\ w = PageStart(p.vaddr)
          BY <3>4, <3>5
        <5>2. u + z =< w /\ w =< v /\ start = b + v + f
          BY <1>5, <1>20, <3>2, <3>5, <5>1
        <5>3. b + u + z =< b + v + f /\ b + u + z \in Int
          BY <5>2
        <5> QED
          BY <1>20, <5>1, <5>2, <5>3, ConstantsType DEF Addr
      <4>2. PICK e \in Int, st \in Int : e = B + q.vaddr + q.memsz /\ st = start /\ e =< st
        BY <1>5, <4>1
      <4>3. \A x \in Int : x < e => x < st
        BY <4>2
      <4> QED
        BY <4>1, <4>2, <4>3
    <3> QED
      BY <1>8, <3>6, <3>7, WholeKept
  <2> QED
    BY <2>1, <2>2
<1>9. ASSUME elf_brk =< elf_bss PROVE BinaryIn(image, B, space, n)
  <2>1. p.memsz = p.filesz
    <3>1. v + m =< v + f /\ f =< m
      BY <1>1, <1>9, <1>20
    <3>2. m = f
      BY <3>1
    <3> QED
      BY <1>20, <3>2
  <2>2. \A x \in Addr : ~(B + p.vaddr + p.filesz =< x /\ x < B + p.vaddr + p.memsz)
    <3>1. Addr \subseteq Int
      BY ConstantsType DEF Addr
    <3>2. PICK e \in Int : e = b + v + f
      OBVIOUS
    <3>3. B + p.vaddr + p.filesz = e /\ B + p.vaddr + p.memsz = e
      BY <1>20, <2>1, <3>2
    <3>4. \A x \in Int : ~(e =< x /\ x < e)
      OBVIOUS
    <3> QED
      BY <3>1, <3>2, <3>3, <3>4
  <2>3. B + p.vaddr + p.memsz =< TaskSize
    BY <2>1 DEF FileIn
  <2>4. WholeIn(space, B, p, BinaryByte)
    BY <1>1, <1>3, <2>2, <2>3, WholeIs
  <2>5. Kept(space, space, start, start)
    BY DEF Kept
  <2> QED
    BY <1>8, <2>4, <2>5
<1>10. ASSUME NEW k \in Int, elf_bss < elf_brk, PageAlign(end) =< TaskSize,
              k =< PageAlign(start) - start,
              k >= PageAlign(start) - start \/ k >= end - start
       PROVE  /\ Clearable(AfterBrk(start, end), start, k)
              /\ BinaryIn(image, B, Cleared(AfterBrk(start, end), start, k), n)
  <2>1. p.filesz < p.memsz /\ p.rw
    <3>1. v + f < v + m
      BY <1>1, <1>10, <1>20
    <3>2. f < m
      BY <3>1
    <3>3. p.memsz > p.filesz
      BY <1>20, <3>2
    <3> QED
      BY <1>1, <1>20, <3>2, <3>3 DEF WellFormed
  <2>2. /\ Clearable(AfterBrk(start, end), start, k)
        /\ WholeIn(Cleared(AfterBrk(start, end), start, k), B, p, BinaryByte)
        /\ Kept(space, Cleared(AfterBrk(start, end), start, k), start, PageAlign(end))
    <3>1. /\ FileIn(space, B, p, BinaryByte) /\ B \in Int /\ p \in Phdr
          /\ start \in Int /\ end \in Int
      BY <1>1, <1>3, <1>5
    <3>2. start = B + p.vaddr + p.filesz /\ end = B + p.vaddr + p.memsz /\ end =< Word - Page
      BY <1>5
    <3>3. /\ elf_bss < elf_brk /\ PageAlign(end) =< TaskSize /\ k =< PageAlign(start) - start
          /\ k >= PageAlign(start) - start \/ k >= end - start
      BY <1>10
    <3>4. PICK st \in Int, en \in Int : st = start /\ en = end
      BY <3>1
    <3>5. /\ st = b + p.vaddr + p.filesz /\ en = b + p.vaddr + p.memsz /\ en =< Word - Page
          /\ FileIn(space, b, p, BinaryByte)
          /\ PageAlign(en) =< TaskSize /\ k =< PageAlign(st) - st
          /\ k >= PageAlign(st) - st \/ k >= en - st
      BY <1>20, <3>1, <3>2, <3>3, <3>4
    <3>6. /\ Clearable(AfterBrk(st, en), st, k)
          /\ WholeIn(Cleared(AfterBrk(st, en), st, k), b, p, BinaryByte)
          /\ Kept(space, Cleared(AfterBrk(st, en), st, k), st, PageAlign(en))
      BY <2>1, <3>1, <3>5, BssCleared, SMTT(60)
    <3> QED
      BY <1>20, <3>4, <3>6
  <2> QED
    BY <1>8, <2>2
<1> QED
  BY <1>3, <1>4, <1>5, <1>6, <1>7, <1>9, <1>10 DEF start, end

\* A step that fails leaves only types to show.
LEMMA FailedStep ==
  ASSUME Types', ~image'.dyn => load_bias' = 0, pc' = "failed"
  PROVE  IInv'
BY DEF IInv, Control, Checked, Ends, Heap, BinaryLoaded, InterpLoaded, AfterBinary

\* The invariant holds before the first segment.
LEMMA InitIInv == Init => IInv
<1> SUFFICES ASSUME Init PROVE IInv
  OBVIOUS
<1>1. Types
  <2>1. 0 \in Unsigned /\ Whole(0)
    BY ConstantsType, LastPage DEF Unsigned
  <2> QED
    BY <2>1 DEF Init, Types
<1>2. Len(image.phdr) \in Nat \ {0} /\ 1 \in 1 .. Len(image.phdr) /\ ~(1 > 1)
  <2>1. Len(image.phdr) \in Nat \ {0}
    BY ImageType DEF Init
  <2> QED
    BY <2>1
<1>3. Control
  <2>1. load_addr_set = (i > 1)
    <3>1. load_addr_set = FALSE /\ (i > 1) = (1 > 1)
      BY DEF Init
    <3>2. (1 > 1) = FALSE
      OBVIOUS
    <3> QED
      BY <3>1, <3>2
  <2>2. pc = "zero" /\ i = 1 /\ load_bias = 0
    BY DEF Init
  <2> QED
    BY <1>2, <2>1, <2>2 DEF Control, AfterBinary
<1>4. Passed = {}
  BY DEF Init, Passed
<1>5. Checked /\ Ends /\ Heap
  BY <1>4 DEF Init, Checked, Ends, Heap, AfterBinary
<1>6. BinaryLoaded
  <2>1. \A b, t : BinaryIn(image, b, t, i - 2)
    BY DEF BinaryIn, Init
  <2> QED
    BY <1>2, <2>1 DEF Init, BinaryLoaded
<1>7. InterpLoaded
  BY DEF Init, InterpLoaded, AfterBinary
<1> QED
  BY <1>1, <1>3, <1>5, <1>6, <1>7 DEF IInv

\* Before the next segment: the pages of the last one are completed.
LEMMA ZeroIInv == IInv /\ Zero => IInv'
<1> SUFFICES ASSUME IInv, Zero PROVE IInv'
  OBVIOUS
<1> DEFINE start == (elf_bss + load_bias) % Word
           end == (elf_brk + load_bias) % Word
           rest == PageAlign(elf_bss) - elf_bss
           nbyte == IF rest > elf_brk - elf_bss THEN elf_brk - elf_bss ELSE rest
<1>1. /\ Types /\ Control /\ Checked /\ Ends /\ Heap /\ BinaryLoaded /\ InterpLoaded
      /\ pc = "zero" /\ pc' \in {"map", "failed"}
      /\ UNCHANGED <<image, i, load_bias, load_addr_set, elf_bss, elf_brk, interpVars>>
  BY DEF IInv, Zero, Goto
<1>2. start \in Int /\ end \in Int /\ PageAlign(end) \in Nat
  <2>1. PICK c \in Int, d \in Int : c = elf_bss + load_bias /\ d = elf_brk + load_bias
    BY <1>1 DEF Types, Unsigned
  <2>2. c % Word \in Nat /\ d % Word \in Nat
    BY WordType
  <2>3. PageAlign(d % Word) \in Nat
    BY <2>2, WordType
  <2> QED
    BY <2>1, <2>2, <2>3
<1>3. mm_brk' = mm_brk \/ mm_brk' = PageAlign(end)
  BY DEF Zero
<1>4. Types'
  <2>1. mm_brk' \in Nat
    BY <1>1, <1>2, <1>3 DEF Types
  <2> QED
    BY <1>1, <2>1 DEF Types, interpVars
<1>5. CASE pc' = "failed"
  BY <1>1, <1>4, <1>5, FailedStep DEF Control
<1>6. CASE pc' = "map"
  <2>1. Control'
    BY <1>1, <1>6 DEF Control, AfterBinary
  <2>2. Passed' = Passed /\ Passed = 1 .. i - 1 /\ i \in Nat /\ i >= 1
    BY <1>1, <1>6 DEF Passed, Control, Types
  <2>3. Checked'
    BY <1>1, <1>6, <2>2 DEF Checked
  <2>4. Ends'
    BY <1>1, <1>6, <2>2 DEF Ends
  <2>5. Heap' /\ InterpLoaded'
    BY <1>6 DEF Heap, InterpLoaded, AfterBinary
  <2>6. ASSUME Fits, WellFormed(image.phdr) PROVE BinaryIn(image, B, space', i - 1)
    <3>1. CASE i = 1
      BY <3>1 DEF BinaryIn
    <3>2. CASE i # 1
      <4>1. PICK n \in Nat : n = i - 1 /\ n >= 1
        BY <2>2, <3>2
      <4>2. /\ Passed = 1 .. n /\ i > 1
            /\ BinaryIn(image, B, space, n - 1)
            /\ FileIn(space, B, image.phdr[n], BinaryByte)
        <5>1. i > 1 /\ i - 2 = n - 1
          BY <2>2, <3>2, <4>1
        <5> QED
          BY <1>1, <2>2, <2>6, <4>1, <5>1 DEF BinaryLoaded
      <4>3. /\ B \in Int /\ start = B + elf_bss /\ end = B + elf_brk
            /\ elf_bss \in 0 .. Word - Page /\ start \in 0 .. Word - Page
            /\ PageAlign(start) = B + PageAlign(elf_bss)
            /\ PageAlign(start) =< TaskSize
            /\ elf_brk =< elf_bss => BinaryIn(image, B, space, n)
            /\ \A k \in Int :
                 /\ elf_bss < elf_brk /\ PageAlign(end) =< TaskSize
                 /\ k =< PageAlign(start) - start
                 /\ k >= PageAlign(start) - start \/ k >= end - start
                 => /\ Clearable(AfterBrk(start, end), start, k)
                    /\ BinaryIn(image, B, Cleared(AfterBrk(start, end), start, k), n)
        BY <1>1, <2>6, <4>1, <4>2, BssOfLast
      <4>4. CASE elf_brk <= elf_bss
        <5>1. space' = space
          <6>1. ~(elf_brk > elf_bss)
            BY <1>1, <4>4 DEF Types
          <6> QED
            BY <6>1 DEF Zero
        <5> QED
          BY <4>1, <4>3, <4>4, <5>1
      <4>5. CASE ~(elf_brk <= elf_bss)
        <5>1. ~SetBrkFails(start, end) /\ space' = Cleared(AfterBrk(start, end), start, nbyte)
          BY <1>6, <4>5 DEF Zero, Goto
        <5>2. PageAlign(end) =< TaskSize
          <6>1. PageAlign(start) \in Nat /\ TaskSize \in Nat
            BY <1>2, WordType, ConstantsType
          <6>2. Larger(PageAlign(start), TaskSize) =< TaskSize
            BY <4>3, <6>1 DEF Larger
          <6>3. Larger(PageAlign(start), TaskSize) \in Int
            BY <6>1 DEF Larger
          <6> HIDE DEF start, end
          <6> QED
            BY <1>2, <5>1, <6>1, <6>2, <6>3 DEF SetBrkFails
        <5>3. PICK b \in Int, u \in Int, w \in Int, U \in Int :
                b = B /\ u = elf_bss /\ w = elf_brk /\ U = PageAlign(elf_bss)
          BY <1>1, <4>3, PageAlignIs DEF Types
        <5>4. /\ nbyte = IF U - u > w - u THEN w - u ELSE U - u
              /\ PageAlign(start) - start = (b + U) - (b + u)
              /\ end - start = (b + w) - (b + u)
              /\ u < w
          <6>1. u < w
            BY <4>5, <5>3
          <6> QED
            BY <4>3, <5>3, <6>1
        <5>5. (b + U) - (b + u) = U - u /\ (b + w) - (b + u) = w - u
          OBVIOUS
        <5>6. PICK k \in Int : /\ k = nbyte /\ k =< PageAlign(start) - start
                               /\ k >= PageAlign(start) - start \/ k >= end - start
          <6>1. PICK k \in Int : k = IF U - u > w - u THEN w - u ELSE U - u
            <7>1. U - u \in Int /\ w - u \in Int
              OBVIOUS
            <7> QED
              BY <7>1
          <6>2. k =< U - u /\ (k >= U - u \/ k >= w - u)
            BY <6>1
          <6> HIDE DEF nbyte, start, end
          <6> QED
            BY <5>4, <5>5, <6>1, <6>2
        <5>7. BinaryIn(image, B, Cleared(AfterBrk(start, end), start, k), n)
          <6> HIDE DEF nbyte, start, end
          <6> QED
            BY <4>3, <5>2, <5>3, <5>4, <5>6
        <5> QED
          BY <4>1, <5>1, <5>6, <5>7
      <4> QED
        BY <4>4, <4>5
    <3> QED
      BY <3>1, <3>2
  <2>7. BinaryLoaded'
    <3>1. B' = B /\ (Fits' <=> Fits) /\ (WellFormed(image.phdr))' = WellFormed(image.phdr)
      BY <1>1 DEF B, Fits, WellFormed
    <3> QED
      BY <1>1, <1>6, <2>6, <3>1 DEF BinaryLoaded
  <2> QED
    BY <1>4, <2>1, <2>3, <2>4, <2>5, <2>7 DEF IInv
<1> QED
  BY <1>1, <1>5, <1>6

\* The file of the next segment: above those before it, which stay as they are.
LEMMA MapIInv == IInv /\ Map => IInv'
<1> SUFFICES ASSUME IInv, Map PROVE IInv'
  OBVIOUS
<1>1. /\ Types /\ Control /\ Checked /\ Ends /\ Heap /\ BinaryLoaded /\ InterpLoaded
      /\ pc = "map" /\ pc' \in {"check", "failed"}
      /\ UNCHANGED <<image, i, mm_brk, elf_bss, elf_brk, interpVars>>
  BY DEF IInv, Map, Goto
<1>2. CASE pc' = "failed"
  <2>1. UNCHANGED <<load_bias, load_addr_set>>
    BY <1>2 DEF Map, Goto
  <2>2. Types'
    BY <1>1, <2>1 DEF Types, interpVars
  <2> QED
    BY <1>1, <1>2, <2>1, <2>2, FailedStep DEF Control
<1>3. CASE pc' = "check"
  <2> DEFINE p == image.phdr[i]
             v == p.vaddr % Page
             y == p.filesz + v
  <2>1. PICK a \in Nat :
          /\ Whole(a) /\ a < TaskSize
          /\ load_bias' \in Unsigned /\ Whole(load_bias')
          /\ ~image.dyn => load_bias' = 0
          /\ i > 1 => load_bias' = load_bias
          /\ (load_bias' + p.vaddr) % Word = a + v
          /\ ~Refused(p) =>
               /\ a + y =< TaskSize
               /\ FilePages(space', a, p, BinaryByte)
               /\ Kept(space, space', a, a + PageAlign(y))
    BY <1>1, <1>3, MapIs
  <2>2. load_addr_set' = TRUE
    BY <1>3 DEF Map, Goto
  <2>3. Types'
    BY <1>1, <2>1, <2>2 DEF Types, interpVars
  <2>4. Control'
    BY <1>1, <1>3, <2>1, <2>2 DEF Control, AfterBinary
  <2>5. /\ i \in 1 .. Len(image.phdr) /\ p \in Phdr /\ i \in DOMAIN image.phdr
        /\ Passed' = Passed /\ Passed = 1 .. i - 1 /\ i \in Nat
    <3>1. i \in 1 .. Len(image.phdr) /\ i \in Nat
      BY <1>1 DEF Control, Types
    <3> QED
      BY <1>1, <1>3, <3>1, ImageType DEF Types, Passed
  <2>6. p.vaddr \in Nat /\ p.vaddr \in Int /\ p.filesz \in Nat /\ v \in 0 .. Page - 1
        /\ PageStart(p.vaddr) = p.vaddr - v /\ v \in Int
    <3>1. p.vaddr \in Nat /\ p.vaddr \in Int /\ p.filesz \in Nat
      BY <2>5, PhdrType DEF Unsigned
    <3>2. v \in 0 .. Page - 1 /\ PageStart(p.vaddr) = p.vaddr - v
      BY <3>1, PageStartIs
    <3> QED
      BY <3>1, <3>2, ConstantsType
  <2>7. Checked'
    <3>1. ~Refused(p) => Placed(p, load_bias')
      <4>1. (a + v) + p.filesz = a + y
        BY <2>6
      <4> HIDE DEF v, y, p
      <4> QED
        BY <2>1, <4>1 DEF Placed
    <3>2. \A j \in Passed : ~Refused(image.phdr[j]) /\ Placed(image.phdr[j], load_bias')
      <4> SUFFICES ASSUME NEW j \in Passed
                   PROVE  ~Refused(image.phdr[j]) /\ Placed(image.phdr[j], load_bias')
        OBVIOUS
      <4>1. i > 1
        BY <2>5
      <4> QED
        BY <1>1, <2>1, <4>1 DEF Checked
    <3> QED
      BY <1>1, <1>3, <2>5, <3>1, <3>2 DEF Checked
  <2>8. Ends'
    BY <1>1, <1>3, <2>5 DEF Ends
  <2>9. Heap' /\ InterpLoaded'
    BY <1>3 DEF Heap, InterpLoaded, AfterBinary
  <2>10. ASSUME Fits', WellFormed(image.phdr), ~Refused(p)
         PROVE  BinaryIn(image, B', space', i - 1) /\ FileIn(space', B', p, BinaryByte)
    <3>1. /\ Whole(B') /\ B' \in Int /\ (load_bias' + (p.vaddr + 0)) % Word = B' + p.vaddr + 0
          /\ B' = Base(image.phdr, load_bias')
      <4>1. B' = Base(image.phdr, load_bias') /\ FitsAt(image, load_bias')
        BY <1>1, <2>10, FitsIs DEF B
      <4>2. 0 \in 0 .. p.memsz
        BY <2>5, PhdrType DEF Unsigned
      <4>3. image \in Images /\ load_bias' \in Unsigned
        BY <1>1, <2>1 DEF Types
      <4> QED
        BY <2>1, <2>5, <2>10, <4>1, <4>2, <4>3, Moved DEF Whole
    <3>2. B' + p.vaddr = a + v
      <4>1. PICK b \in Int, u \in Int : b = B' /\ u = p.vaddr
        BY <2>6, <3>1
      <4>2. u + 0 = u /\ b + u + 0 = b + u
        OBVIOUS
      <4> QED
        BY <2>1, <3>1, <4>1, <4>2
    <3>3. FileIn(space', B', p, BinaryByte)
      <4>1. BinaryByte \in Int
        BY DEF BinaryByte
      <4> QED
        BY <2>1, <2>5, <2>10, <3>1, <3>2, <4>1, FileMapped
    <3>4. ASSUME NEW j \in 1 .. i - 1 PROVE WholeIn(space', B', image.phdr[j], BinaryByte)
      <4> DEFINE q == image.phdr[j]
      <4>1. i > 1 /\ load_bias' = load_bias /\ B' = B /\ Fits
        <5>1. i > 1
          BY <2>5
        <5> QED
          BY <1>1, <2>1, <2>10, <5>1, FitsIs DEF B
      <4>2. WholeIn(space, B, q, BinaryByte)
        BY <1>1, <2>10, <4>1 DEF BinaryLoaded, BinaryIn
      <4>3. q.vaddr + q.memsz =< PageStart(p.vaddr) /\ q.vaddr \in Int /\ q.memsz \in Int
        <5>1. j \in DOMAIN image.phdr /\ j < i /\ q \in Phdr
          BY <1>1, <2>5, ImageType DEF Types
        <5> QED
          BY <2>5, <2>10, <5>1, PhdrType DEF WellFormed
      <4>4. \A x \in Addr : x < B' + q.vaddr + q.memsz => x < a
        <5>1. PICK b \in Int, u \in Int, m \in Int, w \in Int, pv \in Int :
                b = B' /\ u = q.vaddr /\ m = q.memsz /\ w = v /\ pv = p.vaddr
          BY <2>6, <3>1, <4>3
        <5>2. u + m =< pv - w /\ b + pv = a + w
          BY <2>6, <3>2, <4>3, <5>1
        <5>3. b + u + m =< a /\ b + u + m \in Int
          BY <5>2
        <5>4. \A x \in Int : x < b + u + m => x < a
          BY <5>3
        <5> QED
          BY <5>1, <5>4, ConstantsType DEF Addr
      <4> QED
        BY <2>1, <2>10, <4>1, <4>2, <4>4, WholeKept
    <3> QED
      BY <3>3, <3>4 DEF BinaryIn
  <2>11. BinaryLoaded'
    <3>1. (WellFormed(image.phdr))' = WellFormed(image.phdr)
      BY <1>1
    <3> QED
      BY <1>1, <1>3, <2>10, <3>1 DEF BinaryLoaded
  <2> QED
    BY <2>3, <2>4, <2>7, <2>8, <2>9, <2>11 DEF IInv
<1> QED
  BY <1>1, <1>2, <1>3

\* The check after a mapping: one more segment has passed.
LEMMA CheckIInv == IInv /\ Check => IInv'
<1> SUFFICES ASSUME IInv, Check PROVE IInv'
  OBVIOUS
<1> DEFINE p == image.phdr[i]
<1>1. /\ Types /\ Control /\ Checked /\ Ends /\ Heap /\ BinaryLoaded /\ InterpLoaded
      /\ pc = "check" /\ UNCHANGED <<image, space, binaryVars, interpVars>>
  BY DEF IInv, Check
<1>2. /\ i \in 1 .. Len(image.phdr) /\ p \in Phdr /\ i \in DOMAIN image.phdr
      /\ DOMAIN image.phdr = 1 .. Len(image.phdr) /\ Len(image.phdr) \in Nat
      /\ Passed = 1 .. i - 1 /\ i \in Nat
  <2>1. i \in 1 .. Len(image.phdr) /\ i \in Nat
    BY <1>1 DEF Control, Types
  <2> QED
    BY <1>1, <2>1, ImageType DEF Types, Passed
<1>3. CASE Refused(p)
  <2>1. pc' = "failed" /\ UNCHANGED <<i, elf_bss, elf_brk>>
    BY <1>1, <1>3 DEF Check, Goto, Segment, Segments, Refused
  <2>2. Types'
    BY <1>1, <2>1 DEF Types, binaryVars, interpVars
  <2> QED
    BY <1>1, <2>1, <2>2, FailedStep DEF Control, binaryVars
<1>4. CASE ~Refused(p)
  <2>1. PICK u \in Nat, f \in Nat, m \in Nat, bss \in Nat, brk \in Nat :
          /\ u = p.vaddr /\ f = p.filesz /\ m = p.memsz /\ bss = elf_bss /\ brk = elf_brk
          /\ f =< m /\ u + m =< TaskSize
    <3>1. p.vaddr \in Nat /\ p.filesz \in Nat /\ p.memsz \in Nat
      BY <1>2, PhdrType DEF Unsigned
    <3>2. p.filesz =< p.memsz /\ p.vaddr + p.memsz =< TaskSize
      BY <1>2, <1>4, CheckedIs, PhdrType DEF Refused
    <3> QED
      BY <1>1, <3>1, <3>2 DEF Types
  <2>2. (u + f) % Word = u + f /\ (u + m) % Word = u + m
    <3>1. PICK word \in Nat \ {0}, ts \in Nat : word = Word /\ ts = TaskSize /\ ts < word
      BY ConstantsType
    <3>2. u + f \in 0 .. word - 1 /\ u + m \in 0 .. word - 1
      BY <2>1, <3>1
    <3>3. PICK s \in 0 .. word - 1, t \in 0 .. word - 1 : s = u + f /\ t = u + m
      BY <3>2
    <3>4. s % word = s /\ t % word = t
      BY SmallMod
    <3> QED
      BY <3>1, <3>3, <3>4
  <2>3. /\ elf_bss' = Larger(bss, u + f) /\ elf_brk' = Larger(brk, u + m)
        /\ IF i < Len(image.phdr) THEN pc' = "zero" /\ i' = i + 1
           ELSE pc' = "bss" /\ i' = i
    <3>1. /\ elf_bss' = Larger(elf_bss, (p.vaddr + p.filesz) % Word)
          /\ elf_brk' = Larger(elf_brk, (p.vaddr + p.memsz) % Word)
          /\ IF i < Len(image.phdr) THEN pc' = "zero" /\ i' = i + 1
             ELSE pc' = "bss" /\ i' = i
      BY <1>1, <1>4 DEF Check, Goto, Segment, Segments, Refused
    <3> QED
      BY <2>1, <2>2, <3>1
  <2>4. /\ elf_bss' \in {bss, u + f} /\ bss =< elf_bss' /\ u + f =< elf_bss'
        /\ elf_brk' \in {brk, u + m} /\ brk =< elf_brk' /\ u + m =< elf_brk'
        /\ elf_bss' \in Nat /\ elf_brk' \in Nat
    BY <2>3 DEF Larger
  <2>5. /\ pc' \in {"zero", "bss"} /\ Passed' = 1 .. i /\ i' \in Nat
        /\ pc' = "zero" => i' = i + 1 /\ i' \in 1 .. Len(image.phdr) /\ i' > 1
        /\ pc' = "bss" => i = Len(image.phdr)
    <3>1. CASE i < Len(image.phdr)
      <4>1. pc' = "zero" /\ i' = i + 1 /\ i' - 1 = i
        BY <1>2, <2>3, <3>1
      <4> QED
        BY <1>2, <3>1, <4>1 DEF Passed
    <3>2. CASE ~(i < Len(image.phdr))
      <4>1. pc' = "bss" /\ i' = i /\ i = Len(image.phdr)
        BY <1>2, <2>3, <3>2
      <4> QED
        BY <1>1, <1>2, <4>1 DEF Passed
    <3> QED
      BY <3>1, <3>2
  <2>6. Types'
    BY <1>1, <2>4, <2>5 DEF Types, binaryVars, interpVars
  <2>7. Control'
    <3>1. load_addr_set' = TRUE /\ image' = image /\ load_bias' = load_bias
      BY <1>1 DEF Control, binaryVars, Types
    <3> QED
      BY <1>1, <2>5, <3>1 DEF Control, AfterBinary
  <2>8. \A j \in 1 .. i : j \in 1 .. i - 1 \/ j = i
    BY <1>2
  <2>9. Checked'
    <3>1. \A j \in 1 .. i : ~Refused(image.phdr[j]) /\ Placed(image.phdr[j], load_bias)
      BY <1>1, <1>2, <1>4, <2>8 DEF Checked
    <3> QED
      BY <1>1, <2>5, <3>1 DEF Checked, binaryVars
  <2>10. Ends'
    <3>1. \A j \in 1 .. i : /\ image.phdr[j].vaddr + image.phdr[j].filesz =< elf_bss'
                            /\ image.phdr[j].vaddr + image.phdr[j].memsz =< elf_brk'
      <4> SUFFICES ASSUME NEW j \in 1 .. i
                   PROVE  /\ image.phdr[j].vaddr + image.phdr[j].filesz =< elf_bss'
                          /\ image.phdr[j].vaddr + image.phdr[j].memsz =< elf_brk'
        OBVIOUS
      <4>1. CASE j = i
        BY <2>1, <2>4, <4>1
      <4>2. CASE j \in 1 .. i - 1
        <5>1. image.phdr[j] \in Phdr
          BY <1>1, <1>2, <4>2, ImageType DEF Types
        <5>2. PICK x \in Int, z \in Int : /\ x = image.phdr[j].vaddr + image.phdr[j].filesz
                                          /\ z = image.phdr[j].vaddr + image.phdr[j].memsz
          BY <5>1, PhdrType
        <5>3. x =< bss /\ z =< brk
          BY <1>1, <1>2, <2>1, <4>2, <5>2 DEF Ends
        <5> QED
          BY <2>4, <5>2, <5>3
      <4> QED
        BY <2>8, <4>1, <4>2
    <3>2. /\ \E j \in 1 .. i : elf_bss' = image.phdr[j].vaddr + image.phdr[j].filesz
          /\ \E j \in 1 .. i : elf_brk' = image.phdr[j].vaddr + image.phdr[j].memsz
      <4>1. i \in 1 .. i /\ \A j \in 1 .. i - 1 : j \in 1 .. i
        BY <1>2
      <4>2. u + f = image.phdr[i].vaddr + image.phdr[i].filesz
            /\ u + m = image.phdr[i].vaddr + image.phdr[i].memsz
        BY <2>1
      <4>3. CASE i = 1
        <5>1. Passed = {}
          BY <1>2, <4>3
        <5>2. bss = 0 /\ brk = 0
          BY <1>1, <2>1, <5>1 DEF Ends
        <5>3. elf_bss' = u + f /\ elf_brk' = u + m
          BY <2>4, <5>2
        <5> QED
          BY <4>1, <4>2, <5>3
      <4>4. CASE i # 1
        <5>1. Passed # {}
          <6>1. i - 1 >= 1
            BY <1>2, <4>4
          <6>2. 1 \in 1 .. i - 1
            BY <1>2, <6>1
          <6> QED
            BY <1>2, <6>2
        <5>2. /\ \E j \in Passed : bss = image.phdr[j].vaddr + image.phdr[j].filesz
              /\ \E j \in Passed : brk = image.phdr[j].vaddr + image.phdr[j].memsz
          BY <1>1, <2>1, <5>1 DEF Ends
        <5> QED
          BY <1>2, <2>4, <4>1, <4>2, <5>2
      <4> QED
        BY <4>3, <4>4
    <3>3. 1 .. i # {}
      BY <1>2
    <3>4. image' = image
      BY <1>1
    <3> QED
      BY <2>5, <3>1, <3>2, <3>3, <3>4 DEF Ends
  <2>11. Heap' /\ InterpLoaded'
    BY <2>5 DEF Heap, InterpLoaded, AfterBinary
  <2>12. BinaryLoaded'
    <3>1. /\ B' = B /\ (Fits' <=> Fits) /\ (WellFormed(image.phdr))' = WellFormed(image.phdr)
          /\ space' = space /\ image' = image
      BY <1>1 DEF B, Fits, binaryVars
    <3>2. pc' = "zero" => i' - 2 = i - 1 /\ i' - 1 = i
      BY <1>2, <2>5
    <3> QED
      BY <1>1, <1>4, <2>5, <3>1, <3>2 DEF BinaryLoaded
  <2> QED
    BY <2>6, <2>7, <2>9, <2>10, <2>11, <2>12 DEF IInv
<1> QED
  BY <1>3, <1>4

\* The heap of whatever passed the checks: behind every segment, and in user space.
LEMMA HeapIs ==
  ASSUME Types, Control, Checked, Ends, Fits, pc = "bss"
  PROVE  LET start == (elf_bss + load_bias) % Word
             end == (elf_brk + load_bias) % Word
         IN /\ PageAlign(start) =< TaskSize
            /\ \A j \in DOMAIN image.phdr :
                 ((load_bias + image.phdr[j].vaddr) % Word) + image.phdr[j].memsz =< PageAlign(end)
<1> DEFINE start == (elf_bss + load_bias) % Word
           end == (elf_brk + load_bias) % Word
<1>1. /\ Passed = DOMAIN image.phdr /\ Passed # {}
      /\ \A j \in Passed : /\ image.phdr[j] \in Phdr /\ ~Refused(image.phdr[j])
                           /\ Placed(image.phdr[j], load_bias)
  <2>1. Passed = DOMAIN image.phdr
    BY DEF Passed
  <2>2. DOMAIN image.phdr = 1 .. Len(image.phdr) /\ Len(image.phdr) \in Nat \ {0}
        /\ \A j \in 1 .. Len(image.phdr) : image.phdr[j] \in Phdr
    BY ImageType DEF Types
  <2>3. 1 \in 1 .. Len(image.phdr)
    BY <2>2
  <2> QED
    BY <2>1, <2>2, <2>3 DEF Checked
<1>2. \A j \in Passed :
        LET p == image.phdr[j]
        IN /\ Whole(B) /\ p.filesz =< p.memsz
           /\ 0 =< B + p.vaddr /\ B + p.vaddr + p.memsz =< Word - Page
           /\ \A y \in 0 .. p.memsz : (load_bias + (p.vaddr + y)) % Word = B + p.vaddr + y
  <2>1. /\ image \in Images /\ load_bias \in Unsigned /\ Whole(load_bias)
        /\ FitsAt(image, load_bias) /\ (~image.dyn => load_bias = 0)
    BY FitsIs DEF Types, Control
  <2> QED
    BY <1>1, <2>1, Moved DEF B
<1>3. PICK b \in Int, l \in Int, word \in Nat, page \in Nat, ts \in Nat :
        /\ b = B /\ l = load_bias /\ word = Word /\ page = Page /\ ts = TaskSize
        /\ ts =< word - page
  <2>1. B \in Int /\ load_bias \in Int
    BY <1>1, <1>2 DEF Whole, Types, Unsigned
  <2> QED
    BY <2>1, ConstantsType, LastPage
<1>4. /\ \E j \in Passed : elf_bss = image.phdr[j].vaddr + image.phdr[j].filesz
      /\ \E j \in Passed : elf_brk = image.phdr[j].vaddr + image.phdr[j].memsz
  BY <1>1 DEF Ends
<1>5. ASSUME NEW j \in Passed
      PROVE  /\ {image.phdr[j].vaddr, image.phdr[j].filesz, image.phdr[j].memsz} \subseteq Int
             /\ 0 =< image.phdr[j].filesz /\ 0 =< image.phdr[j].memsz
  BY <1>1, PhdrType DEF Unsigned
<1>6. PageAlign(start) =< TaskSize
  <2>1. PICK j \in Passed : elf_bss = image.phdr[j].vaddr + image.phdr[j].filesz
    BY <1>4
  <2>2. PICK u \in Int, f \in Int, m \in Int :
          /\ u = image.phdr[j].vaddr /\ f = image.phdr[j].filesz /\ m = image.phdr[j].memsz
          /\ 0 =< f /\ f =< m
    BY <1>2, <1>5
  <2>3. /\ (l + (u + f)) % Word = b + u + f /\ (l + (u + 0)) % Word = b + u + 0
        /\ 0 =< b + u /\ b + u + m =< word - page
    <3>1. f \in 0 .. m /\ 0 \in 0 .. m
      BY <2>2
    <3> QED
      BY <1>2, <1>3, <2>2, <3>1
  <2>4. elf_bss + load_bias = l + (u + f) /\ l + (u + 0) = l + u /\ b + u + 0 = b + u
    <3>1. (u + f) + l = l + (u + f) /\ l + (u + 0) = l + u /\ b + u + 0 = b + u
      OBVIOUS
    <3> QED
      BY <1>3, <2>1, <2>2, <3>1
  <2>5. ((l + u) % Word) + f =< ts
    BY <1>1, <1>3, <2>2 DEF Placed
  <2>6. start = b + u + f
    BY <2>3, <2>4
  <2>7. b + u + f =< ts /\ b + u + f \in 0 .. word - page
    <3>1. (l + u) % Word = b + u
      BY <2>3, <2>4
    <3>2. (b + u) + f =< ts
      BY <2>5, <3>1
    <3> QED
      BY <1>3, <2>2, <2>3, <3>2
  <2>8. PICK s \in 0 .. Word - Page : s = start /\ s =< TaskSize
    BY <1>3, <2>6, <2>7
  <2>9. PageAlign(s) =< TaskSize
    BY <2>8, PageAlignIs, LastPage
  <2> QED
    BY <2>8, <2>9
<1>7. ASSUME NEW k \in Passed
      PROVE  ((load_bias + image.phdr[k].vaddr) % Word) + image.phdr[k].memsz =< PageAlign(end)
  <2>1. PICK j \in Passed : elf_brk = image.phdr[j].vaddr + image.phdr[j].memsz
    BY <1>4
  <2>2. PICK u \in Int, m \in Int, w \in Int, z \in Int :
          /\ u = image.phdr[j].vaddr /\ m = image.phdr[j].memsz /\ 0 =< m
          /\ w = image.phdr[k].vaddr /\ z = image.phdr[k].memsz /\ 0 =< z
    BY <1>5
  <2>3. /\ (l + (u + m)) % Word = b + u + m /\ (l + (w + 0)) % Word = b + w + 0
        /\ 0 =< b + u /\ b + u + m =< word - page
    <3>1. m \in 0 .. m /\ 0 \in 0 .. z
      BY <2>2
    <3> QED
      BY <1>2, <1>3, <2>2, <3>1
  <2>4. elf_brk + load_bias = l + (u + m) /\ l + (w + 0) = l + w /\ b + w + 0 = b + w
    <3>1. (u + m) + l = l + (u + m) /\ l + (w + 0) = l + w /\ b + w + 0 = b + w
      OBVIOUS
    <3> QED
      BY <1>3, <2>1, <2>2, <3>1
  <2>5. w + z =< u + m
    <3>1. image.phdr[k].vaddr + image.phdr[k].memsz =< elf_brk
      BY DEF Ends
    <3> QED
      BY <2>1, <2>2, <3>1
  <2>6. end = b + u + m /\ (load_bias + image.phdr[k].vaddr) % Word = b + w
    BY <1>3, <2>2, <2>3, <2>4
  <2>7. b + u + m \in 0 .. word - page
    BY <2>2, <2>3
  <2>8. PICK e \in 0 .. Word - Page : e = end /\ e = b + u + m
    BY <1>3, <2>6, <2>7
  <2>9. PICK E \in Nat : E = PageAlign(e) /\ e =< E
    BY PageAlignIs
  <2>10. (b + w) + z =< E
    <3>1. e \in Int
      BY <2>7, <2>8
    <3> QED
      BY <2>5, <2>8, <2>9, <3>1
  <2> QED
    BY <2>2, <2>6, <2>8, <2>9, <2>10
<1> QED
  BY <1>1, <1>6, <1>7

\* After the last segment: its pages are completed and the heap begins behind them.
LEMMA BssIInv == IInv /\ Bss => IInv'
<1> SUFFICES ASSUME IInv, Bss PROVE IInv'
  OBVIOUS
<1> DEFINE start == (elf_bss + load_bias) % Word
           end == (elf_brk + load_bias) % Word
           rest == PageAlign(start) - start
           n == Len(image.phdr)
<1>1. /\ Types /\ Control /\ Checked /\ Ends /\ BinaryLoaded /\ pc = "bss"
      /\ UNCHANGED <<image, i, load_bias, load_addr_set, elf_bss, elf_brk, interpVars>>
  BY DEF IInv, Bss
<1>2. start \in Nat /\ end \in Nat /\ PageAlign(start) \in Nat /\ PageAlign(end) \in Nat
  <2>1. PICK c \in Int, d \in Int : c = elf_bss + load_bias /\ d = elf_brk + load_bias
    BY <1>1 DEF Types, Unsigned
  <2>2. c % Word \in Nat /\ d % Word \in Nat
    BY WordType
  <2>3. PageAlign(c % Word) \in Nat /\ PageAlign(d % Word) \in Nat
    BY <2>2, WordType
  <2> QED
    BY <2>1, <2>2, <2>3
<1>3. Types'
  <2>1. mm_brk' = mm_brk \/ mm_brk' = PageAlign(end)
    BY DEF Bss
  <2>2. mm_brk' \in Nat
    BY <1>1, <1>2, <2>1 DEF Types
  <2> QED
    BY <1>1, <2>2 DEF Types, interpVars
<1>4. CASE pc' = "failed"
  BY <1>1, <1>3, <1>4, FailedStep DEF Control
<1>5. CASE pc' # "failed"
  <2>1. /\ ~SetBrkFails(start, end) /\ mm_brk' = PageAlign(end) /\ pc' = AfterBss
        /\ \/ start = end /\ space' = AfterBrk(start, end)
           \/ /\ start # end /\ Clearable(AfterBrk(start, end), start, rest)
              /\ space' = Cleared(AfterBrk(start, end), start, rest)
    <3> HIDE DEF start, end
    <3> QED
      BY <1>5 DEF Bss, Goto, start, end
  <2>2. \/ pc' = "entry" /\ image.interp = <<>>
        \/ pc' = "interp" /\ image.interp # <<>>
    BY <2>1 DEF AfterBss
  <2>3. Passed = DOMAIN image.phdr /\ Passed' = DOMAIN image.phdr /\ Passed = 1 .. n
        /\ n \in Nat /\ n >= 1 /\ image' = image /\ load_bias' = load_bias
    <3>1. DOMAIN image.phdr = 1 .. n /\ n \in Nat \ {0}
      BY <1>1, ImageType DEF Types
    <3> QED
      BY <1>1, <2>2, <3>1 DEF Passed
  <2>4. Control'
    BY <1>1, <2>2, <2>3 DEF Control, AfterBinary
  <2>5. Checked'
    BY <1>1, <2>2, <2>3 DEF Checked
  <2>6. Ends'
    BY <2>2 DEF Ends
  <2>7. B' = B /\ (Fits' <=> Fits)
    BY <2>3 DEF B, Fits
  <2>8. ASSUME Fits PROVE PageAlign(end) =< TaskSize
    <3>1. PageAlign(start) =< TaskSize
      BY <1>1, <2>8, HeapIs
    <3>2. Larger(PageAlign(start), TaskSize) =< TaskSize /\ TaskSize \in Int
          /\ Larger(PageAlign(start), TaskSize) \in Int
      <4> HIDE DEF start
      <4> QED
        BY <1>2, <3>1, ConstantsType DEF Larger
    <3> HIDE DEF start, end
    <3> QED
      BY <1>2, <2>1, <3>2 DEF SetBrkFails
  <2>9. Heap'
    <3> SUFFICES ASSUME Fits'
                 PROVE  /\ mm_brk' =< TaskSize
                        /\ \A j \in DOMAIN image'.phdr :
                             ((load_bias' + image'.phdr[j].vaddr) % Word)
                               + image'.phdr[j].memsz =< mm_brk'
      BY DEF Heap
    <3>1. \A j \in DOMAIN image.phdr :
            ((load_bias + image.phdr[j].vaddr) % Word) + image.phdr[j].memsz =< PageAlign(end)
      BY <1>1, <2>7, HeapIs
    <3>2. PageAlign(end) =< TaskSize
      BY <2>7, <2>8
    <3> HIDE DEF end
    <3> QED
      BY <2>1, <2>3, <3>1, <3>2
  <2>10. ASSUME Fits, WellFormed(image.phdr) PROVE BinaryIn(image, B, space', n)
    <3>1. /\ BinaryIn(image, B, space, n - 1)
          /\ FileIn(space, B, image.phdr[n], BinaryByte)
      BY <1>1, <2>10 DEF BinaryLoaded
    <3>2. /\ B \in Int /\ start = B + elf_bss /\ end = B + elf_brk
          /\ elf_brk =< elf_bss => BinaryIn(image, B, space, n)
          /\ \A k \in Int :
               /\ elf_bss < elf_brk /\ PageAlign(end) =< TaskSize
               /\ k =< PageAlign(start) - start
               /\ k >= PageAlign(start) - start \/ k >= end - start
               => BinaryIn(image, B, Cleared(AfterBrk(start, end), start, k), n)
      <4> HIDE DEF n
      <4> QED
        BY <1>1, <2>3, <2>10, <3>1, BssOfLast
    <3> HIDE DEF start, end
    <3>3. PICK b \in Int, u \in Int, w \in Int : b = B /\ u = elf_bss /\ w = elf_brk
      BY <1>1, <3>2 DEF Types
    <3>4. CASE start = end
      <4>1. u = w
        <5>1. b + u = b + w
          BY <3>2, <3>3, <3>4
        <5> QED
          BY <5>1
      <4>2. BinaryIn(image, B, space, n)
        BY <3>2, <3>3, <4>1
      <4>3. space' = Zeroed(space, PageAlign(start), PageAlign(start))
        BY <2>1, <3>4 DEF AfterBrk
      <4>4. Kept(space, space', PageAlign(start), PageAlign(start))
        BY <1>2, <4>3, ZeroedIs
      <4>5. \A x \in Addr : x < PageAlign(start) \/ PageAlign(start) =< x
        BY <1>2, ConstantsType DEF Addr
      <4> QED
        BY <4>2, <4>4, <4>5, WholeKept DEF BinaryIn
    <3>5. CASE start # end
      <4>1. u < w
        <5>1. u # w
          BY <3>2, <3>3, <3>5
        <5>2. u =< w
          <6>1. /\ elf_bss = image.phdr[n].vaddr + image.phdr[n].filesz
                /\ elf_brk = image.phdr[n].vaddr + image.phdr[n].memsz
                /\ image.phdr[n].filesz =< image.phdr[n].memsz
                /\ image.phdr[n] \in Phdr
            <7> HIDE DEF n
            <7> QED
              BY <1>1, <2>3, <2>10, LastEnds
          <6>2. PICK v \in Int, f \in Int, m \in Int :
                  /\ v = image.phdr[n].vaddr /\ f = image.phdr[n].filesz
                  /\ m = image.phdr[n].memsz
            BY <6>1, PhdrType
          <6>3. v + f =< v + m
            <7>1. f =< m
              BY <6>1, <6>2
            <7> QED
              BY <7>1
          <6> QED
            BY <3>3, <6>1, <6>2, <6>3
        <5> QED
          BY <5>1, <5>2
      <4>2. PICK k \in Int : k = rest /\ k = PageAlign(start) - start
        BY <1>2
      <4>3. k =< PageAlign(start) - start /\ k >= PageAlign(start) - start
        BY <1>2, <4>2
      <4>4. BinaryIn(image, B, Cleared(AfterBrk(start, end), start, k), n)
        BY <2>8, <2>10, <3>2, <3>3, <4>1, <4>3
      <4> QED
        BY <2>1, <3>5, <4>2, <4>4
    <3> QED
      BY <3>4, <3>5
  <2>11. BinaryLoaded'
    BY <2>2 DEF BinaryLoaded
  <2>12. InterpLoaded'
    <3>1. (WellFormed(image.phdr))' = WellFormed(image.phdr)
      BY <2>3
    <3>2. \A c, t : image.interp = <<>> => InterpIn(image, c, t, Len(image.interp))
      BY DEF InterpIn
    <3> QED
      BY <2>2, <2>3, <2>7, <2>10, <3>1, <3>2 DEF InterpLoaded
  <2> QED
    BY <1>3, <2>4, <2>5, <2>6, <2>9, <2>11, <2>12 DEF IInv
<1> QED
  BY <1>4, <1>5

-------------------------------------------------------------------------------
(* The interpreter, step by step.                                          *)

\* The interpreter begins beside a binary that is complete, with its span measured.
LEMMA StartInterpIInv == IInv /\ StartInterp => IInv'
<1> SUFFICES ASSUME IInv, StartInterp PROVE IInv'
  OBVIOUS
<1>1. /\ Types /\ Control /\ Checked /\ Heap /\ InterpLoaded
      /\ pc = "interp" /\ i' = 1 /\ load_addr_set' = FALSE /\ load_addr' = 0
      /\ elf_bss' = 0 /\ elf_brk' = 0 /\ total_size' = TotalMappingSize(image.interp)
      /\ pc' = IF total_size' = 0 THEN "failed" ELSE "mapInterp"
      /\ UNCHANGED <<image, space, load_bias, mm_brk>>
  BY DEF IInv, StartInterp, Goto
<1>2. /\ image.interp # <<>> /\ 1 \in 1 .. Len(image.interp) /\ Len(image.interp) \in Nat \ {0}
      /\ \A j \in 1 .. Len(image.interp) : image.interp[j] \in Phdr
  <2>1. image.interp # <<>> /\ 1 \in 1 .. Len(image.interp) /\ Len(image.interp) \in Nat
        /\ \A j \in 1 .. Len(image.interp) : image.interp[j] \in Phdr
    BY <1>1, ImageType DEF Types, Control
  <2> QED
    BY <2>1
<1>3. total_size' \in Unsigned
  <2>1. /\ image.interp[Len(image.interp)] \in Phdr /\ image.interp[1] \in Phdr
    BY <1>2
  <2>2. PICK u \in Int, m \in Int, w \in Int :
          /\ u = image.interp[Len(image.interp)].vaddr
          /\ m = image.interp[Len(image.interp)].memsz
          /\ w = PageStart(image.interp[1].vaddr)
    <3>1. PageStart(image.interp[1].vaddr) \in Int
      BY <2>1, PhdrType, PageStartIs DEF Whole
    <3> QED
      BY <2>1, <3>1, PhdrType
  <2>3. PICK c \in Int : c = u + m - w
    OBVIOUS
  <2>4. TotalMappingSize(image.interp) = c % Word
    BY <2>2, <2>3 DEF TotalMappingSize
  <2> QED
    BY <1>1, <2>4, WordType
<1>4. Types'
  <2>1. 0 \in Unsigned /\ Whole(0)
    BY ConstantsType, LastPage DEF Unsigned
  <2> QED
    BY <1>1, <1>3, <2>1 DEF Types
<1>5. CASE total_size' = 0
  BY <1>1, <1>4, <1>5, FailedStep DEF Control
<1>6. CASE total_size' # 0
  <2>1. pc' = "mapInterp" /\ total_size' > 0
    BY <1>1, <1>3, <1>6, ConstantsType DEF Unsigned
  <2>2. Control'
    BY <1>1, <1>2, <2>1 DEF Control, AfterBinary
  <2>3. Passed' = DOMAIN image.phdr /\ Passed = DOMAIN image.phdr
    BY <1>1, <2>1 DEF Passed
  <2>4. Checked'
    BY <1>1, <2>1, <2>3 DEF Checked
  <2>5. Ends' /\ BinaryLoaded'
    BY <2>1 DEF Ends, BinaryLoaded
  <2>6. B' = B /\ (Fits' <=> Fits) /\ (WellFormed(image.phdr))' = WellFormed(image.phdr)
        /\ (WellFormedInterp' <=> WellFormedInterp)
    BY <1>1 DEF B, Fits, WellFormedInterp
  <2>7. Heap'
    BY <1>1, <2>1, <2>6 DEF Heap, AfterBinary
  <2>8. InterpLoaded'
    <3>1. ~(i' > 1)
      BY <1>1
    <3> QED
      BY <1>1, <2>1, <2>6, <3>1 DEF InterpLoaded, AfterBinary
  <2> QED
    BY <1>4, <2>2, <2>4, <2>5, <2>7, <2>8 DEF IInv
<1> QED
  BY <1>5, <1>6

\* The span that total_mapping_size() computes holds all segments.
LEMMA Span ==
  ASSUME NEW img \in Images, WellFormed(img.interp), img.interp # <<>>,
         TotalMappingSize(img.interp) > 0
  PROVE  /\ TotalMappingSize(img.interp) \in 1 .. Word - 1
         /\ \A j \in 1 .. Len(img.interp) :
              /\ PageStart(img.interp[1].vaddr) =< PageStart(img.interp[j].vaddr)
              /\ img.interp[j].vaddr + img.interp[j].memsz
                   =< PageStart(img.interp[1].vaddr) + TotalMappingSize(img.interp)
<1> DEFINE n == Len(img.interp)
           q(j) == img.interp[j]
<1>1. n \in Nat /\ n >= 1 /\ DOMAIN img.interp = 1 .. n /\ 1 \in 1 .. n /\ n \in 1 .. n
  <2>1. n \in Nat /\ DOMAIN img.interp = 1 .. n /\ 1 \in 1 .. n
    BY ImageType
  <2> QED
    BY <2>1
<1>2. \A j \in 1 .. n :
        /\ img.interp[j] \in Phdr
        /\ img.interp[j].vaddr \in Nat /\ img.interp[j].memsz \in Nat
        /\ PageStart(img.interp[j].vaddr) \in Nat
        /\ PageStart(img.interp[j].vaddr) =< img.interp[j].vaddr
  <2> SUFFICES ASSUME NEW j \in 1 .. n
               PROVE  /\ img.interp[j] \in Phdr
                      /\ img.interp[j].vaddr \in Nat /\ img.interp[j].memsz \in Nat
                      /\ PageStart(img.interp[j].vaddr) \in Nat
                      /\ PageStart(img.interp[j].vaddr) =< img.interp[j].vaddr
    OBVIOUS
  <2>1. img.interp[j] \in Phdr
    BY ImageType
  <2>2. PICK u \in Int : u = img.interp[j].vaddr /\ 0 =< u
    BY <2>1, PhdrType DEF Unsigned
  <2>3. PageStart(u) \in Int /\ PageStart(u) =< u /\ 0 =< PageStart(u)
    <3>1. /\ Whole(PageStart(u)) /\ PageStart(u) =< u
          /\ \A m : Whole(m) /\ m =< u => m =< PageStart(u)
      BY PageStartIs
    <3>2. 0 =< PageStart(u)
      BY <2>2, <3>1, LastPage
    <3> QED
      BY <3>1, <3>2 DEF Whole
  <2> QED
    BY <2>1, <2>2, <2>3, PhdrType DEF Unsigned
<1>3. \A j, k \in 1 .. n :
        j < k => img.interp[j].vaddr + img.interp[j].memsz =< PageStart(img.interp[k].vaddr)
  BY <1>1 DEF WellFormed
<1>4. img.interp[n].vaddr + img.interp[n].memsz =< Word
  BY <1>1 DEF WellFormed
<1>5. PICK w \in Nat, word \in Nat \ {0}, t \in Nat :
        /\ w = PageStart(img.interp[1].vaddr) /\ word = Word
        /\ t = img.interp[n].vaddr + img.interp[n].memsz /\ t =< word
  <2>1. PICK u \in Nat, m \in Nat : u = img.interp[n].vaddr /\ m = img.interp[n].memsz
    BY <1>1, <1>2
  <2>2. PICK t \in Nat : t = u + m
    OBVIOUS
  <2>3. t = img.interp[n].vaddr + img.interp[n].memsz
    BY <2>1, <2>2
  <2>4. t =< Word
    BY <1>4, <2>3
  <2> HIDE DEF n
  <2> QED
    BY <1>1, <1>2, <2>3, <2>4, ConstantsType
<1>6. ASSUME NEW j \in 1 .. n
      PROVE  /\ w =< PageStart(img.interp[j].vaddr)
             /\ img.interp[j].vaddr + img.interp[j].memsz =< t
  <2>1. PICK u \in Nat, m \in Nat, x \in Nat :
          /\ u = img.interp[j].vaddr /\ m = img.interp[j].memsz
          /\ x = PageStart(img.interp[j].vaddr) /\ x =< u
    BY <1>2
  <2>2. w =< x
    <3>1. CASE j = 1
      BY <1>5, <2>1, <3>1
    <3>2. CASE j # 1
      <4>1. PICK a \in Nat, b \in Nat : a = img.interp[1].vaddr /\ b = img.interp[1].memsz /\ w =< a
        BY <1>1, <1>2, <1>5
      <4>2. 1 < j
        BY <1>1, <3>2
      <4>3. a + b =< x
        BY <1>1, <1>3, <2>1, <4>1, <4>2
      <4> QED
        BY <4>1, <4>3
    <3> QED
      BY <3>1, <3>2
  <2>3. u + m =< t
    <3>1. CASE j = n
      BY <1>5, <2>1, <3>1
    <3>2. CASE j # n
      <4>1. PICK a \in Nat, b \in Nat, c \in Nat :
              /\ a = img.interp[n].vaddr /\ b = img.interp[n].memsz
              /\ c = PageStart(img.interp[n].vaddr) /\ c =< a /\ t = a + b
        BY <1>1, <1>2, <1>5
      <4>2. j < n
        BY <1>1, <3>2
      <4>3. u + m =< c
        BY <1>1, <1>3, <2>1, <4>1, <4>2
      <4> QED
        BY <4>1, <4>3
    <3> QED
      BY <3>1, <3>2
  <2> QED
    BY <2>1, <2>2, <2>3
<1>7. w =< t
  <2>1. PICK u \in Nat, m \in Nat : u = img.interp[n].vaddr /\ m = img.interp[n].memsz /\ t = u + m
    BY <1>1, <1>2, <1>5
  <2>2. PICK x \in Nat : x = PageStart(img.interp[n].vaddr) /\ x =< u /\ w =< x
    BY <1>1, <1>2, <1>6, <2>1
  <2> QED
    BY <2>1, <2>2
<1>8. TotalMappingSize(img.interp) = t - w /\ t - w \in 1 .. word - 1
  <2>1. PICK c \in 0 .. word : c = t - w
    BY <1>5, <1>7
  <2>2. TotalMappingSize(img.interp) = c % word
    <3>1. TotalMappingSize(img.interp)
            = (img.interp[n].vaddr + img.interp[n].memsz - PageStart(img.interp[1].vaddr)) % Word
      BY DEF TotalMappingSize
    <3> HIDE DEF n
    <3>2. PICK u \in Nat, m \in Nat : u = img.interp[n].vaddr /\ m = img.interp[n].memsz
      <4>1. img.interp[n].vaddr \in Nat /\ img.interp[n].memsz \in Nat
        BY <1>1, <1>2
      <4> QED
        BY <4>1
    <3>3. TotalMappingSize(img.interp) = (u + m - w) % word
      BY <1>5, <3>1, <3>2
    <3>4. c = u + m - w
      <4>1. t = u + m
        BY <1>5, <3>2
      <4> QED
        BY <2>1, <4>1
    <3>5. c % word = (u + m - w) % word
      BY <3>4, Zenon
    <3> QED
      BY <3>3, <3>5, Zenon
  <2>3. c # word
    <3>1. ASSUME c = word PROVE FALSE
      <4>1. (word * 1 + 0) % word = 0 /\ word * 1 + 0 = word
        BY ModIs
      <4> QED
        BY <2>2, <3>1, <4>1
    <3> QED
      BY <3>1
  <2>4. c % word = c
    <3>1. c \in 0 .. word - 1
      BY <2>1, <2>3
    <3> QED
      BY <3>1, SmallMod
  <2>5. c > 0
    BY <2>2, <2>4
  <2> QED
    BY <2>1, <2>2, <2>3, <2>4, <2>5
<1>9. w + (t - w) = t
  BY <1>7
<1> QED
  BY <1>5, <1>6, <1>8, <1>9

\* What is in memory is not Nothing.
LEMMA WholeThere ==
  ASSUME NEW t, NEW b \in Int, NEW p \in Phdr, WholeIn(t, b, p, BinaryByte),
         NEW x \in Addr, b + p.vaddr =< x, x < b + p.vaddr + p.memsz
  PROVE  t.byte[x] # Nothing
<1>1. x \in Int /\ b + p.vaddr \in Int /\ p.offset \in Int /\ p.offset >= 0
  BY PhdrType, ConstantsType DEF Addr, Unsigned
<1>2. \/ t.byte[x] = 0
      \/ t.byte[x] = BinaryByte + p.offset + (x - (b + p.vaddr))
  BY DEF WholeIn
<1>3. PICK d \in Int : d = x - (b + p.vaddr) /\ d >= 0
  BY <1>1
<1> QED
  BY <1>1, <1>2, <1>3 DEF BinaryByte, Nothing

\* A segment of the interpreter that lies in the room: where it is, and its pages.
LEMMA InRoom ==
  ASSUME NEW img \in Images, NEW addr \in Unsigned, Whole(addr), NEW b,
         WellFormed(img.interp), img.interp # <<>>, Room(img, b, Base(img.interp, addr)),
         NEW j \in 1 .. Len(img.interp)
  PROVE  LET q == img.interp[j]
             c == Base(img.interp, addr)
         IN /\ c \in Int /\ Whole(c) /\ q \in Phdr
            /\ RoomStart(img, c) \in Int /\ RoomEnd(img, c) \in Int /\ Whole(RoomEnd(img, c))
            /\ RoomStart(img, c) =< c + PageStart(q.vaddr)
            /\ 0 =< c + PageStart(q.vaddr)
            /\ c + q.vaddr + q.memsz =< RoomEnd(img, c)
            /\ RoomEnd(img, c) =< TaskSize
            /\ \A d \in 0 .. q.memsz : (addr + (q.vaddr + d)) % Word = c + q.vaddr + d
<1> DEFINE q == img.interp[j]
           c == Base(img.interp, addr)
           T == TotalMappingSize(img.interp)
<1>1. q \in Phdr /\ img.interp[1] \in Phdr
  BY ImageType
<1>2. Whole(c) /\ c \in Int
  BY <1>1, BaseIs DEF Whole
<1>3. T \in 1 .. Word - Page /\ 0 =< RoomStart(img, c) /\ RoomEnd(img, c) =< TaskSize
  BY DEF Room
<1>4. /\ PageStart(img.interp[1].vaddr) =< PageStart(q.vaddr)
      /\ q.vaddr + q.memsz =< PageStart(img.interp[1].vaddr) + T
  <2>1. T > 0
    BY <1>3, ConstantsType
  <2> QED
    BY <2>1, Span
<1>5. /\ Whole(PageStart(img.interp[1].vaddr)) /\ PageStart(img.interp[1].vaddr) \in Int
      /\ PageStart(q.vaddr) \in Int /\ PageStart(q.vaddr) =< q.vaddr
      /\ q.vaddr \in Int /\ q.memsz \in Int /\ 0 =< q.memsz
  <2>1. q.vaddr \in Int /\ q.memsz \in Int /\ 0 =< q.memsz /\ img.interp[1].vaddr \in Int
    BY <1>1, PhdrType DEF Unsigned
  <2>2. /\ Whole(PageStart(img.interp[1].vaddr))
        /\ Whole(PageStart(q.vaddr)) /\ PageStart(q.vaddr) =< q.vaddr
    BY <2>1, PageStartIs
  <2> QED
    BY <2>1, <2>2 DEF Whole
<1>6. Whole(PageAlign(T)) /\ PageAlign(T) \in Int /\ T =< PageAlign(T)
  <2>1. T \in 0 .. Word - Page
    BY <1>3, ConstantsType
  <2> HIDE DEF T
  <2> QED
    BY <2>1, PageAlignIs
<1> HIDE DEF c, q, T
<1>7. PICK w \in Int, x \in Int, u \in Int, m \in Int, R \in Int, t \in Int :
        /\ w = PageStart(img.interp[1].vaddr) /\ x = PageStart(q.vaddr)
        /\ u = q.vaddr /\ m = q.memsz /\ R = PageAlign(T) /\ t = T
        /\ w =< x /\ x =< u /\ 0 =< m /\ u + m =< w + t /\ t =< R
        /\ Whole(w) /\ Whole(R)
  <2>1. T \in Int
    BY <1>3, ConstantsType
  <2> QED
    BY <1>4, <1>5, <1>6, <2>1
<1>8. RoomStart(img, c) = c + w /\ RoomEnd(img, c) = c + w + R
  BY <1>7 DEF RoomStart, RoomEnd, T
<1>9. PICK k \in Int, ts \in Int, word \in Int :
        /\ k = c /\ ts = TaskSize /\ word = Word /\ ts < word
        /\ 0 =< k + w /\ k + w + R =< ts
  BY <1>2, <1>3, <1>8, ConstantsType
<1>10. w =< x /\ x =< u /\ 0 =< m /\ u + m =< w + t /\ t =< R
  BY <1>7
<1>11. u + m =< w + R
  BY <1>10
<1>12. /\ k + w =< k + x /\ 0 =< k + x /\ k + u + m =< k + w + R
       /\ 0 =< k + u /\ k + u + m =< ts
  BY <1>9, <1>10, <1>11
<1>13. Whole(k + w + R)
  <2>1. PICK y \in Int, z \in Int : y = k + w /\ z = k + w + R /\ z = y + R
    OBVIOUS
  <2>2. (k + w) % Page = k % Page /\ (y + R) % Page = y % Page
    BY <1>7, WholeSum
  <2> QED
    BY <1>2, <1>9, <2>1, <2>2 DEF Whole
<1>14. ASSUME NEW d \in 0 .. m PROVE (addr + (u + d)) % Word = k + u + d
  <2>1. PICK y \in Int : y = u + d
    OBVIOUS
  <2>2. k + y \in 0 .. word - 1 /\ k + y = k + u + d
    BY <1>9, <1>10, <1>12, <2>1
  <2>3. (addr + y) % Word = c + y
    BY <1>1, <1>9, <2>2, BaseAt DEF c
  <2> QED
    BY <1>9, <2>1, <2>2, <2>3
<1>15. /\ c + PageStart(q.vaddr) = k + x /\ c + q.vaddr + q.memsz = k + u + m
       /\ RoomStart(img, c) = k + w /\ RoomEnd(img, c) = k + w + R
       /\ c + q.vaddr = k + u /\ q.memsz = m /\ q.vaddr = u
  BY <1>7, <1>8, <1>9
<1>16. /\ RoomStart(img, c) \in Int /\ RoomEnd(img, c) \in Int /\ Whole(RoomEnd(img, c))
       /\ RoomStart(img, c) =< c + PageStart(q.vaddr)
       /\ 0 =< c + PageStart(q.vaddr)
       /\ c + q.vaddr + q.memsz =< RoomEnd(img, c)
       /\ \A d \in 0 .. q.memsz : (addr + (q.vaddr + d)) % Word = c + q.vaddr + d
  BY <1>12, <1>13, <1>14, <1>15
<1> QED
  BY <1>1, <1>2, <1>3, <1>16 DEF c, q

\* The first segment takes free room for all, the others lie in it.
LEMMA MapInterpIInv == IInv /\ MapInterp => IInv'
<1> SUFFICES ASSUME IInv, MapInterp PROVE IInv'
  OBVIOUS
<1>1. /\ Types /\ Control /\ Checked /\ Heap /\ InterpLoaded
      /\ pc = "mapInterp" /\ pc' \in {"checkInterp", "failed"} /\ total_size' = 0
      /\ UNCHANGED <<image, i, load_bias, mm_brk, elf_bss, elf_brk>>
  BY DEF IInv, MapInterp, Goto
<1>2. 0 \in Unsigned
  BY ConstantsType DEF Unsigned
<1>3. CASE pc' = "failed"
  <2>1. UNCHANGED <<load_addr, load_addr_set>>
    BY <1>3 DEF MapInterp, Goto
  <2>2. Types'
    BY <1>1, <1>2, <2>1 DEF Types
  <2> QED
    BY <1>1, <1>3, <2>2, FailedStep DEF Control
<1>4. CASE pc' = "checkInterp"
  <2> DEFINE q == image.interp[i]
             v == q.vaddr % Page
             y == q.filesz + v
             k == (load_addr' + q.vaddr) % Word
             n == Len(image.phdr)
  <2>1. PICK a \in Nat :
          /\ Whole(a) /\ a < TaskSize
          /\ load_addr' \in Unsigned /\ Whole(load_addr')
          /\ i > 1 /\ image.interpDyn => load_addr' = load_addr
          /\ k = a + v
          /\ ~Overflows(q, k) /\ i > 1 =>
               /\ a + y =< TaskSize
               /\ FilePages(space', a, q, InterpByte)
               /\ Kept(space, space', a, a + PageAlign(y))
          /\ ~Overflows(q, k) /\ i = 1 /\ image.interpDyn /\ q.filesz > 0 /\ y =< total_size =>
               /\ total_size =< Word - Page
               /\ a + y =< TaskSize
               /\ FilePages(space', a, q, InterpByte)
               /\ Kept(space, space', a, a + PageAlign(total_size))
               /\ a + PageAlign(total_size) =< TaskSize
               /\ \A x \in Int : a =< x /\ x < a + PageAlign(total_size) =>
                    space.byte[x] = Nothing
    BY <1>1, <1>4, MapInterpIs
  <2>2. load_addr_set' = image.interpDyn
    BY <1>4 DEF MapInterp, Goto
  <2>3. /\ image.interp # <<>> /\ i \in 1 .. Len(image.interp) /\ i \in DOMAIN image.interp
        /\ i \in Nat /\ q \in Phdr /\ image.interp[1] \in Phdr /\ image.interpDyn \in BOOLEAN
        /\ DOMAIN image.interp = 1 .. Len(image.interp) /\ 1 \in 1 .. Len(image.interp)
    <3>1. image.interp # <<>> /\ i \in 1 .. Len(image.interp) /\ i \in Nat
      BY <1>1 DEF Control, Types
    <3> QED
      BY <1>1, <3>1, ImageType DEF Types
  <2>4. Types'
    BY <1>1, <1>2, <2>1, <2>2, <2>3 DEF Types
  <2>5. Control'
    BY <1>1, <1>4, <2>2, <2>3 DEF Control, AfterBinary
  <2>6. Checked'
    <3>1. Passed' = DOMAIN image.phdr /\ Passed = DOMAIN image.phdr
      BY <1>1, <1>4 DEF Passed
    <3> QED
      BY <1>1, <1>4, <3>1 DEF Checked
  <2>7. Ends' /\ BinaryLoaded'
    BY <1>4 DEF Ends, BinaryLoaded
  <2>8. B' = B /\ (Fits' <=> Fits) /\ (WellFormed(image.phdr))' = WellFormed(image.phdr)
        /\ (WellFormedInterp' <=> WellFormedInterp)
    BY <1>1 DEF B, Fits, WellFormedInterp
  <2>9. Heap'
    BY <1>1, <1>4, <2>8 DEF Heap, AfterBinary
  <2>10. /\ q.vaddr \in Int /\ 0 =< q.vaddr /\ q.filesz \in Nat /\ q.memsz \in Nat
         /\ v \in 0 .. Page - 1 /\ v \in Nat /\ PageStart(q.vaddr) = q.vaddr - v
    <3>1. q.vaddr \in Int /\ 0 =< q.vaddr /\ q.filesz \in Nat /\ q.memsz \in Nat
      BY <2>3, PhdrType DEF Unsigned
    <3>2. v \in 0 .. Page - 1 /\ PageStart(q.vaddr) = q.vaddr - v
      BY <3>1, PageStartIs
    <3> QED
      BY <3>1, <3>2, ConstantsType
  <2>11. /\ C' = Base(image.interp, load_addr') /\ Whole(C') /\ C' \in Int
         /\ C' + image.interp[1].vaddr = (load_addr' + image.interp[1].vaddr) % Word
    <3>1. C' = Base(image.interp, load_addr')
      BY <1>1 DEF C
    <3> QED
      BY <2>1, <2>3, <3>1, BaseIs DEF Whole
  <2>12. ASSUME Fits, WellFormed(image.phdr), WellFormedInterp, ~Overflows(q, k)
         PROVE  /\ BinaryIn(image, B, space', n) /\ Room(image, B, C')
                /\ InterpIn(image, C', space', i - 1)
                /\ FileIn(space', C', q, InterpByte)
                /\ IF i = 1 THEN elf_bss = 0 /\ elf_brk = 0
                   ELSE InterpEnds(C', image.interp[i - 1], elf_bss, elf_brk)
    <3>1. /\ WellFormed(image.interp) /\ image.interpDyn /\ image.interp[1].filesz > 0
          /\ BinaryIn(image, B, space, n)
      BY <1>1, <2>3, <2>12 DEF WellFormedInterp, InterpLoaded, AfterBinary
    <3>2. q.filesz =< q.memsz /\ k + q.memsz =< TaskSize
      <4>1. k \in Unsigned
        <5>1. PICK z \in Int : z = load_addr' + q.vaddr
          BY <2>1, <2>10 DEF Unsigned
        <5> QED
          BY <5>1, WordType
      <4> QED
        BY <2>3, <2>12, <4>1, CheckedIs
    <3>3. /\ DOMAIN image.phdr = 1 .. n /\ B \in Int
          /\ \A j \in 1 .. n : image.phdr[j] \in Phdr
      <4>1. image.phdr[1] \in Phdr /\ DOMAIN image.phdr = 1 .. n
            /\ \A j \in 1 .. n : image.phdr[j] \in Phdr
        <5>1. /\ DOMAIN image.phdr = 1 .. n /\ n \in Nat \ {0}
              /\ \A j \in 1 .. n : image.phdr[j] \in Phdr
          BY <1>1, ImageType DEF Types
        <5>2. 1 \in 1 .. n
          BY <5>1
        <5> QED
          BY <5>1, <5>2
      <4>2. B \in Int
        BY <1>1, <4>1, BaseIs DEF B, Whole, Types
      <4> QED
        BY <4>1, <4>2
    <3>4. InterpByte \in Int
      BY ConstantsType DEF InterpByte
    <3>5. CASE i = 1
      <4>1. /\ total_size = TotalMappingSize(image.interp) /\ total_size > 0
            /\ elf_bss = 0 /\ elf_brk = 0
        BY <1>1, <3>5 DEF Control
      <4>2. y =< total_size /\ total_size \in Nat
        <5>1. /\ q.vaddr + q.memsz =< PageStart(q.vaddr) + total_size
              /\ total_size \in 1 .. Word - 1
          BY <1>1, <2>3, <3>1, <3>5, <4>1, Span DEF Types
        <5>2. PICK u \in Int, f \in Int, m \in Int, w \in Int, t \in Int :
                u = q.vaddr /\ f = q.filesz /\ m = q.memsz /\ w = v /\ t = total_size /\ 1 =< t
          <6>1. total_size \in Int /\ 1 =< total_size
            BY <5>1, ConstantsType
          <6>2. q.vaddr \in Int /\ q.filesz \in Int /\ q.memsz \in Int /\ v \in Int
            BY <2>10
          <6> HIDE DEF q, v
          <6> QED
            BY <6>1, <6>2
        <5>3. u + m =< (u - w) + t /\ f =< m
          BY <2>10, <3>2, <5>1, <5>2
        <5>4. f + w =< t
          BY <5>3
        <5> QED
          BY <5>2, <5>4
      <4>3. /\ total_size =< Word - Page /\ a + y =< TaskSize
            /\ FilePages(space', a, q, InterpByte)
            /\ Kept(space, space', a, a + PageAlign(total_size))
            /\ a + PageAlign(total_size) =< TaskSize
            /\ \A x \in Int : a =< x /\ x < a + PageAlign(total_size) =>
                 space.byte[x] = Nothing
        <5> HIDE DEF y, k
        <5> QED
          BY <2>1, <2>12, <3>1, <3>5, <4>2
      <4>4. C' + q.vaddr = a + v
        BY <2>1, <2>11, <3>5
      <4>5. /\ RoomStart(image, C') = a
            /\ RoomEnd(image, C') = a + PageAlign(total_size)
        <5>1. C' + PageStart(q.vaddr) = a
          <6>1. PICK c \in Int, u \in Int, w \in Int : c = C' /\ u = q.vaddr /\ w = v
            BY <2>10, <2>11
          <6>2. c + u = a + w
            BY <4>4, <6>1
          <6>3. c + (u - w) = a
            BY <6>2
          <6> QED
            BY <2>10, <6>1, <6>3
        <5> QED
          BY <3>5, <4>1, <5>1 DEF RoomStart, RoomEnd
      <4>6. ASSUME NEW j \in 1 .. n, NEW x \in Addr, B + image.phdr[j].vaddr =< x,
                   x < B + image.phdr[j].vaddr + image.phdr[j].memsz
            PROVE  x < a \/ a + PageAlign(total_size) =< x
        <5>1. space.byte[x] # Nothing
          BY <3>1, <3>3, <4>6, WholeThere DEF BinaryIn
        <5>2. x \in Int /\ a + PageAlign(total_size) \in Int
          BY <1>1, <4>2, WordType, ConstantsType DEF Addr
        <5> QED
          BY <4>3, <5>1, <5>2
      <4>7. Room(image, B, C')
        <5>1. TotalMappingSize(image.interp) \in 1 .. Word - Page
          <6>1. PICK t \in Nat, w \in Int : t = total_size /\ w = Word - Page /\ t =< w /\ t > 0
            BY <4>1, <4>2, <4>3, ConstantsType
          <6> QED
            BY <4>1, <6>1
        <5>2. 0 =< a
          OBVIOUS
        <5> QED
          BY <3>3, <4>3, <4>5, <4>6, <5>1, <5>2 DEF Room
      <4>8. BinaryIn(image, B, space', n)
        BY <3>1, <4>3, <4>6, WholeKept DEF BinaryIn
      <4>9. InterpIn(image, C', space', i - 1)
        BY <3>5 DEF InterpIn
      <4>10. FileIn(space', C', q, InterpByte)
        BY <2>1, <2>3, <2>11, <3>4, <4>3, <4>4, FileMapped
      <4> QED
        BY <3>5, <4>1, <4>7, <4>8, <4>9, <4>10
    <3>6. CASE i # 1
      <4>1. /\ i > 1 /\ load_addr' = load_addr /\ C' = C
            /\ Room(image, B, C) /\ InterpIn(image, C, space, i - 1)
            /\ InterpEnds(C, image.interp[i - 1], elf_bss, elf_brk)
        <5>1. i > 1
          BY <2>3, <3>6
        <5>2. load_addr' = load_addr
          BY <2>1, <3>1, <5>1
        <5>3. C' = C
          BY <2>11, <5>2 DEF C
        <5> QED
          BY <1>1, <2>12, <5>1, <5>2, <5>3 DEF InterpLoaded
      <4>2. /\ RoomStart(image, C') \in Int /\ RoomEnd(image, C') \in Int
            /\ Whole(RoomEnd(image, C'))
            /\ RoomStart(image, C') =< C' + PageStart(q.vaddr)
            /\ C' + q.vaddr + q.memsz =< RoomEnd(image, C') /\ RoomEnd(image, C') =< TaskSize
            /\ (load_addr' + (q.vaddr + 0)) % Word = C' + q.vaddr + 0
        <5>1. 0 \in 0 .. q.memsz
          BY <2>10
        <5>2. Room(image, B, Base(image.interp, load_addr')) /\ image \in Images
              /\ load_addr' \in Unsigned /\ Whole(load_addr')
          BY <1>1, <2>1, <2>11, <4>1 DEF Types
        <5>3. LET c == Base(image.interp, load_addr')
              IN /\ RoomStart(image, c) \in Int /\ RoomEnd(image, c) \in Int
                 /\ Whole(RoomEnd(image, c))
                 /\ RoomStart(image, c) =< c + PageStart(q.vaddr)
                 /\ c + q.vaddr + q.memsz =< RoomEnd(image, c) /\ RoomEnd(image, c) =< TaskSize
                 /\ \A d \in 0 .. q.memsz : (load_addr' + (q.vaddr + d)) % Word = c + q.vaddr + d
          BY <2>3, <3>1, <5>2, InRoom
        <5> QED
          BY <2>11, <5>1, <5>3
      <4>3. PICK c \in Int, u \in Int, f \in Int, m \in Int, w \in Int, L \in Int, H \in Int :
              /\ c = C' /\ u = q.vaddr /\ f = q.filesz /\ m = q.memsz /\ w = v
              /\ L = RoomStart(image, C') /\ H = RoomEnd(image, C') /\ f =< m
        <5>1. /\ q.vaddr \in Int /\ q.filesz \in Int /\ q.memsz \in Int /\ v \in Int
              /\ q.filesz =< q.memsz /\ C' \in Int
              /\ RoomStart(image, C') \in Int /\ RoomEnd(image, C') \in Int
          BY <2>10, <2>11, <3>2, <4>2
        <5> HIDE DEF q, v
        <5> QED
          BY <5>1
      <4>4. c + u = a + w
        <5>1. u + 0 = u /\ c + u + 0 = c + u
          OBVIOUS
        <5>2. (load_addr' + u) % Word = c + u
          BY <4>2, <4>3, <5>1
        <5> QED
          BY <2>1, <4>3, <5>2
      <4>5. L =< a /\ c + u + f =< H
        <5>1. L =< c + (u - w) /\ c + u + m =< H
          BY <2>10, <4>2, <4>3
        <5> QED
          BY <4>3, <4>4, <5>1
      <4>6. /\ a + y =< TaskSize
            /\ FilePages(space', a, q, InterpByte)
            /\ Kept(space, space', a, a + PageAlign(y))
        <5> HIDE DEF y, k
        <5> QED
          BY <2>1, <2>12, <4>1
      <4>7. C' + q.vaddr = a + v
        BY <4>3, <4>4
      <4>8. /\ FileIn(space', C', q, InterpByte)
            /\ PageAlign(C' + q.vaddr + q.filesz) = a + PageAlign(y)
        <5>1. /\ FilePages(space', a, q, InterpByte) /\ C' + q.vaddr = a + (q.vaddr % Page)
              /\ a + (q.filesz + (q.vaddr % Page)) =< TaskSize
              /\ a \in Nat /\ Whole(a) /\ C' \in Int /\ q \in Phdr /\ InterpByte \in Int
          BY <2>1, <2>3, <2>11, <3>4, <4>6, <4>7
        <5> HIDE DEF q
        <5> QED
          BY <5>1, FileMapped
      <4>9. a + PageAlign(y) =< H /\ PageAlign(y) \in Int
        <5>1. PICK e \in Int : e = c + u + f /\ e = C' + q.vaddr + q.filesz
          BY <4>3
        <5>2. e \in 0 .. Word - Page
          <6>1. 0 =< e /\ H =< TaskSize
            <7>1. 0 =< f /\ 0 =< w
              BY <2>10, <4>3
            <7>2. 0 =< a + w + f
              BY <7>1
            <7> QED
              BY <4>2, <4>3, <4>4, <5>1, <7>2
          <6>2. PICK ts \in Int, wp \in Int : ts = TaskSize /\ wp = Word - Page /\ ts =< wp
            BY LastPage, ConstantsType
          <6>3. e =< wp
            BY <4>5, <5>1, <6>1, <6>2
          <6> QED
            BY <6>1, <6>2, <6>3
        <5>3. e =< H /\ Whole(H)
          BY <4>2, <4>3, <4>5, <5>1
        <5>4. PageAlign(e) =< H
          BY <5>2, <5>3, PageAlignIs
        <5>5. PageAlign(y) \in Int
          <6>1. y \in Int
            BY <2>10
          <6> HIDE DEF y
          <6> QED
            BY <6>1, WordType
        <5> QED
          BY <4>8, <5>1, <5>4, <5>5
      <4>10. PICK E \in Int : E = a + PageAlign(y) /\ E =< H /\ Kept(space, space', a, E)
        <5> HIDE DEF y
        <5> QED
          BY <4>6, <4>9
      <4>11. BinaryIn(image, B, space', n)
        <5> SUFFICES ASSUME NEW j \in 1 .. n PROVE WholeIn(space', B, image.phdr[j], BinaryByte)
          BY DEF BinaryIn
        <5>1. WholeIn(space, B, image.phdr[j], BinaryByte)
          BY <3>1 DEF BinaryIn
        <5>2. \A x \in Addr :
                B + image.phdr[j].vaddr =< x
                  /\ x < B + image.phdr[j].vaddr + image.phdr[j].memsz => x < L \/ H =< x
          BY <3>3, <4>1, <4>3 DEF Room
        <5>3. \A x \in Addr : x < L \/ H =< x => x < a \/ E =< x
          <6>1. L =< a /\ E =< H
            BY <4>5, <4>10
          <6>2. \A x \in Int : x < L \/ H =< x => x < a \/ E =< x
            BY <6>1
          <6> QED
            BY <6>2, ConstantsType DEF Addr
        <5> QED
          BY <4>10, <5>1, <5>2, <5>3, WholeKept
      <4>12. InterpIn(image, C', space', i - 1)
        <5> SUFFICES ASSUME NEW j \in 1 .. i - 1
                     PROVE  WholeIn(space', C', image.interp[j], InterpByte)
          BY DEF InterpIn
        <5> DEFINE r == image.interp[j]
        <5>1. WholeIn(space, C', r, InterpByte)
          BY <4>1 DEF InterpIn
        <5>2. r.vaddr + r.memsz =< PageStart(q.vaddr) /\ r.vaddr \in Int /\ r.memsz \in Int
          <6>1. j \in DOMAIN image.interp /\ j < i /\ r \in Phdr
            BY <1>1, <2>3, ImageType DEF Types
          <6> QED
            BY <2>3, <3>1, <6>1, PhdrType DEF WellFormed
        <5>3. PICK z \in Int, s \in Int : z = r.vaddr /\ s = r.memsz
          BY <5>2
        <5>4. z + s =< u - w
          BY <2>10, <4>3, <5>2, <5>3
        <5>5. c + z + s =< a /\ c + z + s \in Int
          BY <4>4, <5>4
        <5>6. \A x \in Int : x < c + z + s => x < a
          BY <5>5
        <5>7. \A x \in Addr : x < C' + r.vaddr + r.memsz => x < a
          BY <4>3, <5>3, <5>6, ConstantsType DEF Addr
        <5> QED
          BY <4>10, <5>1, <5>7, WholeKept
      <4> QED
        BY <3>6, <4>1, <4>8, <4>11, <4>12
    <3> QED
      BY <3>5, <3>6
  <2>13. InterpLoaded'
    BY <1>1, <1>4, <2>8, <2>12 DEF InterpLoaded
  <2> QED
    BY <2>4, <2>5, <2>6, <2>7, <2>9, <2>13 DEF IInv
<1> QED
  BY <1>1, <1>3, <1>4

\* The check of a segment of the interpreter: its end is the largest, and it is whole
\* unless it is the last one.
LEMMA CheckInterpIInv == IInv /\ CheckInterp => IInv'
<1> SUFFICES ASSUME IInv, CheckInterp PROVE IInv'
  OBVIOUS
<1> DEFINE q == image.interp[i]
           k == (load_addr + q.vaddr) % Word
           n == Len(image.interp)
<1>1. /\ Types /\ Control /\ Checked /\ Heap /\ InterpLoaded /\ pc = "checkInterp"
      /\ UNCHANGED <<image, space, binaryVars, interpVars>>
  BY DEF IInv, CheckInterp
<1>2. /\ image.interp # <<>> /\ i \in 1 .. n /\ n \in Nat /\ i \in Nat
      /\ i \in DOMAIN image.interp
      /\ q \in Phdr /\ image.interp[1] \in Phdr /\ DOMAIN image.interp = 1 .. n
      /\ \A j \in 1 .. n : image.interp[j] \in Phdr
  <2>1. image.interp # <<>> /\ i \in 1 .. n /\ i \in Nat
    BY <1>1 DEF Control, Types
  <2> QED
    BY <1>1, <2>1, ImageType DEF Types
<1>3. k \in Unsigned
  <2>1. PICK z \in Int : z = load_addr + q.vaddr
    <3>1. load_addr \in Int /\ q.vaddr \in Int
      BY <1>1, <1>2, PhdrType DEF Types, Unsigned
    <3> QED
      BY <3>1
  <2> QED
    BY <2>1, WordType
<1>4. CASE Overflows(q, k)
  <2>1. pc' = "failed" /\ UNCHANGED <<i, elf_bss, elf_brk>>
    BY <1>1, <1>4 DEF CheckInterp, Goto, Segment, Segments
  <2>2. Types'
    BY <1>1, <2>1 DEF Types, binaryVars, interpVars
  <2> QED
    BY <1>1, <2>1, <2>2, FailedStep DEF Control, binaryVars
<1>5. CASE ~Overflows(q, k)
  <2>1. PICK kk \in Nat, f \in Nat, m \in Nat, bss \in Nat, brk \in Nat :
          /\ kk = k /\ f = q.filesz /\ m = q.memsz /\ bss = elf_bss /\ brk = elf_brk
          /\ f =< m /\ kk + m =< TaskSize
    <3>1. q.filesz \in Nat /\ q.memsz \in Nat /\ k \in Nat
      BY <1>2, <1>3, PhdrType, ConstantsType DEF Unsigned
    <3>2. q.filesz =< q.memsz /\ k + q.memsz =< TaskSize
      BY <1>2, <1>3, <1>5, CheckedIs
    <3> HIDE DEF k, q
    <3> QED
      BY <1>1, <3>1, <3>2 DEF Types
  <2>2. (kk + f) % Word = kk + f /\ (kk + m) % Word = kk + m
    <3>1. PICK word \in Nat \ {0}, ts \in Nat : word = Word /\ ts = TaskSize /\ ts < word
      BY ConstantsType
    <3>2. kk + f \in 0 .. word - 1 /\ kk + m \in 0 .. word - 1
      BY <2>1, <3>1
    <3>3. PICK s \in 0 .. word - 1, t \in 0 .. word - 1 : s = kk + f /\ t = kk + m
      BY <3>2
    <3>4. s % word = s /\ t % word = t
      BY SmallMod
    <3> QED
      BY <3>1, <3>3, <3>4
  <2>3. /\ elf_bss' = Larger(bss, kk + f) /\ elf_brk' = Larger(brk, kk + m)
        /\ IF i < n THEN pc' = "mapInterp" /\ i' = i + 1
           ELSE pc' = "interpBss" /\ i' = i
    <3>1. /\ elf_bss' = Larger(elf_bss, (k + q.filesz) % Word)
          /\ elf_brk' = Larger(elf_brk, (k + q.memsz) % Word)
          /\ IF i < n THEN pc' = "mapInterp" /\ i' = i + 1
             ELSE pc' = "interpBss" /\ i' = i
      BY <1>1, <1>5 DEF CheckInterp, Goto, Segment, Segments
    <3> HIDE DEF k, q, n
    <3> QED
      BY <2>1, <2>2, <3>1
  <2>4. elf_bss' \in Nat /\ elf_brk' \in Nat
    BY <2>3 DEF Larger
  <2>5. /\ pc' \in {"mapInterp", "interpBss"} /\ i' \in Nat
        /\ pc' = "mapInterp" => i' = i + 1 /\ i' \in 1 .. n /\ i' > 1 /\ i < n
        /\ pc' = "interpBss" => i = n
    <3> HIDE DEF n
    <3>1. CASE i < n
      <4>1. i + 1 \in 1 .. n /\ i + 1 > 1 /\ i + 1 \in Nat
        BY <1>2, <3>1
      <4> QED
        BY <2>3, <3>1, <4>1
    <3>2. CASE ~(i < n)
      <4>1. i = n
        BY <1>2, <3>2
      <4> QED
        BY <1>2, <2>3, <3>2, <4>1
    <3> QED
      BY <3>1, <3>2
  <2>6. Types'
    BY <1>1, <2>4, <2>5 DEF Types, binaryVars, interpVars
  <2>7. Control'
    <3>1. i' > 1 => i' # 1
      BY <2>5
    <3> QED
      BY <1>1, <1>2, <2>5, <3>1 DEF Control, AfterBinary, binaryVars, interpVars
  <2>8. Checked'
    <3>1. Passed' = DOMAIN image.phdr /\ Passed = DOMAIN image.phdr
      BY <1>1, <2>5 DEF Passed
    <3> QED
      BY <1>1, <2>5, <3>1 DEF Checked, binaryVars
  <2>9. Ends' /\ BinaryLoaded'
    BY <2>5 DEF Ends, BinaryLoaded
  <2>10. /\ B' = B /\ C' = C /\ (Fits' <=> Fits) /\ (WellFormedInterp' <=> WellFormedInterp)
         /\ (WellFormed(image.phdr))' = WellFormed(image.phdr)
         /\ image' = image /\ space' = space
    BY <1>1 DEF B, C, Fits, WellFormedInterp, binaryVars, interpVars
  <2>11. Heap'
    BY <1>1, <2>5, <2>10 DEF Heap, AfterBinary, binaryVars
  <2>12. ASSUME Fits, WellFormed(image.phdr), WellFormedInterp
         PROVE  /\ BinaryIn(image, B, space, Len(image.phdr)) /\ Room(image, B, C)
                /\ InterpIn(image, C, space, i - 1) /\ FileIn(space, C, q, InterpByte)
                /\ InterpEnds(C, q, elf_bss', elf_brk')
                /\ i < n => InterpIn(image, C, space, i)
    <3>1. /\ BinaryIn(image, B, space, Len(image.phdr)) /\ Room(image, B, C)
          /\ InterpIn(image, C, space, i - 1) /\ FileIn(space, C, q, InterpByte)
          /\ IF i = 1 THEN elf_bss = 0 /\ elf_brk = 0
             ELSE InterpEnds(C, image.interp[i - 1], elf_bss, elf_brk)
      BY <1>1, <1>5, <2>12 DEF InterpLoaded
    <3>2. /\ C \in Int /\ C + q.vaddr + q.memsz =< TaskSize /\ k = C + q.vaddr
          /\ q.vaddr \in Int /\ PageStart(q.vaddr) =< q.vaddr /\ PageStart(q.vaddr) \in Int
      <4>1. C = Base(image.interp, load_addr) /\ WellFormed(image.interp)
            /\ image \in Images /\ load_addr \in Unsigned /\ Whole(load_addr)
        BY <1>1, <2>12 DEF C, WellFormedInterp, Types
      <4>2. /\ C \in Int /\ RoomEnd(image, C) \in Int
            /\ C + q.vaddr + q.memsz =< RoomEnd(image, C) /\ RoomEnd(image, C) =< TaskSize
            /\ \A d \in 0 .. q.memsz : (load_addr + (q.vaddr + d)) % Word = C + q.vaddr + d
        BY <1>2, <3>1, <4>1, InRoom
      <4>3. q.vaddr \in Int /\ PageStart(q.vaddr) =< q.vaddr /\ PageStart(q.vaddr) \in Int
        <5>1. q.vaddr \in Int
          BY <1>2, PhdrType
        <5> QED
          BY <5>1, PageStartIs DEF Whole
      <4>4. (load_addr + (q.vaddr + 0)) % Word = C + q.vaddr + 0
        <5>1. 0 \in 0 .. q.memsz
          BY <2>1
        <5> QED
          BY <4>2, <5>1
      <4>5. PICK u \in Int, c \in Int, e \in Int, h \in Int, ts \in Int :
              /\ u = q.vaddr /\ c = C /\ e = q.memsz /\ h = RoomEnd(image, C) /\ ts = TaskSize
        <5>1. q.memsz \in Int
          BY <2>1
        <5> HIDE DEF q
        <5> QED
          BY <4>2, <4>3, <5>1, ConstantsType
      <4>6. u + 0 = u /\ c + u + 0 = c + u
        OBVIOUS
      <4>7. k = C + q.vaddr
        BY <4>4, <4>5, <4>6
      <4>8. c + u + e =< ts
        <5>1. c + u + e =< h /\ h =< ts
          BY <4>2, <4>5
        <5> QED
          BY <5>1
      <4> QED
        BY <4>2, <4>3, <4>5, <4>7, <4>8
    <3>3. InterpEnds(C, q, elf_bss', elf_brk')
      <4>1. PICK c \in Int, u \in Int : c = C /\ u = q.vaddr /\ kk = c + u
        <5>1. kk = C + q.vaddr /\ C \in Int /\ q.vaddr \in Int
          BY <2>1, <3>2
        <5> HIDE DEF q
        <5> QED
          BY <5>1
      <4>2. bss =< kk /\ brk =< kk
        <5>1. CASE i = 1
          <6>1. bss = 0 /\ brk = 0
            BY <2>1, <3>1, <5>1
          <6> QED
            BY <6>1
        <5>2. CASE i # 1
          <6> DEFINE r == image.interp[i - 1]
          <6>1. i - 1 \in 1 .. n /\ i - 1 < i
            BY <1>2, <5>2
          <6>2. InterpEnds(C, r, elf_bss, elf_brk)
            BY <3>1, <5>2
          <6>3. r \in Phdr /\ r.memsz =< r.filesz
                /\ r.vaddr + r.memsz =< PageStart(q.vaddr)
            <7>1. i - 1 \in 1 .. n - 1
              BY <1>2, <6>1
            <7>2. r \in Phdr /\ r.memsz =< r.filesz
              BY <1>2, <2>12, <6>1, <7>1 DEF WellFormedInterp
            <7>3. r.vaddr + r.memsz =< PageStart(q.vaddr)
              BY <1>2, <2>12, <6>1 DEF WellFormedInterp, WellFormed
            <7> QED
              BY <7>2, <7>3
          <6>4. PICK z \in Int, s \in Int, x \in Int :
                  z = r.vaddr /\ s = r.memsz /\ x = PageStart(q.vaddr)
            <7>1. r.vaddr \in Int /\ r.memsz \in Int
              BY <6>3, PhdrType
            <7> HIDE DEF r
            <7> QED
              BY <3>2, <7>1
          <6>5. z + s =< x /\ x =< u
            BY <3>2, <4>1, <6>3, <6>4
          <6>6. brk = c + z + s /\ bss =< brk
            BY <2>1, <4>1, <6>2, <6>4 DEF InterpEnds
          <6>7. c + z + s =< c + u
            BY <6>5
          <6> QED
            BY <4>1, <6>6, <6>7
        <5> QED
          BY <5>1, <5>2
      <4>3. elf_bss' = kk + f /\ elf_brk' = kk + m
        BY <2>3, <4>2 DEF Larger
      <4>4. kk + f = c + u + f /\ kk + m = c + u + m /\ kk + f =< kk + m
        BY <2>1, <4>1
      <4> QED
        BY <2>1, <4>1, <4>3, <4>4 DEF InterpEnds
    <3>4. ASSUME i < n PROVE InterpIn(image, C, space, i)
      <4>1. q.memsz =< q.filesz
        <5>1. i \in 1 .. n - 1
          BY <1>2, <3>4
        <5> QED
          BY <2>12, <5>1 DEF WellFormedInterp
      <4>2. PICK b \in Int, e \in Int :
              b = C + q.vaddr + q.filesz /\ e = C + q.vaddr + q.memsz /\ e =< b
        <5>1. PICK c \in Int, u \in Int : c = C /\ u = q.vaddr
          BY <3>2
        <5>2. m =< f /\ c + u + m =< c + u + f
          BY <2>1, <4>1
        <5> QED
          BY <2>1, <5>1, <5>2
      <4>3. \A x \in Addr : ~(C + q.vaddr + q.filesz =< x /\ x < C + q.vaddr + q.memsz)
        <5>1. \A x \in Int : ~(b =< x /\ x < e)
          BY <4>2
        <5> QED
          BY <4>2, <5>1, ConstantsType DEF Addr
      <4>4. WholeIn(space, C, q, InterpByte)
        BY <1>2, <3>1, <3>2, <4>3, WholeIs
      <4>5. \A j \in 1 .. i : j \in 1 .. i - 1 \/ j = i
        BY <1>2
      <4> QED
        BY <3>1, <4>4, <4>5 DEF InterpIn
    <3> QED
      BY <3>1, <3>3, <3>4
  <2>13. InterpLoaded'
    <3>1. pc' = "mapInterp" => i' - 1 = i /\ i < n
      BY <1>2, <2>5
    <3>2. pc' = "mapInterp" => i' = i + 1
      BY <2>5
    <3> SUFFICES ASSUME Fits', (WellFormed(image.phdr))', WellFormedInterp' PROVE InterpLoaded'
      BY DEF InterpLoaded
    <3>3. /\ BinaryIn(image, B, space, Len(image.phdr)) /\ Room(image, B, C)
          /\ InterpIn(image, C, space, i - 1) /\ FileIn(space, C, q, InterpByte)
          /\ InterpEnds(C, q, elf_bss', elf_brk')
          /\ i < n => InterpIn(image, C, space, i)
      BY <2>10, <2>12
    <3>4. CASE pc' = "mapInterp"
      BY <2>10, <3>1, <3>3, <3>4 DEF InterpLoaded, AfterBinary
    <3>5. CASE pc' = "interpBss"
      BY <2>5, <2>10, <3>3, <3>5 DEF InterpLoaded, AfterBinary
    <3> QED
      BY <2>5, <3>4, <3>5
  <2> QED
    BY <2>6, <2>7, <2>8, <2>9, <2>11, <2>13 DEF IInv
<1> QED
  BY <1>4, <1>5

\* Two parts may be cleared in either order.
LEMMA ZeroedTwice ==
  ASSUME NEW s, NEW a, NEW b, NEW c, NEW d
  PROVE  Zeroed(Zeroed(s, a, b), c, d) = Zeroed(Zeroed(s, c, d), a, b)
<1>1. (s.rw \cup a .. b - 1) \cup c .. d - 1 = (s.rw \cup c .. d - 1) \cup a .. b - 1
  OBVIOUS
<1> QED
  BY <1>1 DEF Zeroed, Mapped

\* What vm_brk() is asked for after the last page of the files: the pages up to brk,
\* though the difference wraps when there are none.
LEMMA BssSize ==
  ASSUME NEW bss \in Int, NEW brk \in Int, 0 =< bss, bss < brk, brk =< TaskSize
  PROVE  /\ PageAlign(bss) \in Nat /\ bss =< PageAlign(bss)
         /\ PageAlign(bss) + PageAlign((brk - PageAlign(bss)) % Word) = PageAlign(brk)
<1>1. PICK word \in Nat \ {0}, page \in Nat \ {0}, ts \in Nat :
        word = Word /\ page = Page /\ ts = TaskSize /\ ts =< word - page /\ page =< word
  <2>1. TaskSize \in Nat /\ Word \in Nat \ {0} /\ Page \in Nat \ {0} /\ TaskSize =< Word - Page
    BY ConstantsType, LastPage
  <2> QED
    BY <2>1
<1>2. bss \in 0 .. Word - Page /\ brk \in 0 .. Word - Page
  BY <1>1
<1>3. /\ Whole(PageAlign(bss)) /\ PageAlign(bss) \in Nat /\ bss =< PageAlign(bss)
      /\ PageAlign(bss) < bss + Page /\ \A m : Whole(m) /\ bss =< m => PageAlign(bss) =< m
  BY <1>2, PageAlignIs
<1>4. /\ Whole(PageAlign(brk)) /\ PageAlign(brk) \in Nat /\ brk =< PageAlign(brk)
      /\ \A m : Whole(m) /\ brk =< m => PageAlign(brk) =< m
  BY <1>2, PageAlignIs
<1>5. PICK from \in Nat : from = PageAlign(bss) /\ from < bss + page /\ Whole(from)
  BY <1>1, <1>3
<1>6. CASE from =< brk
  <2>1. PICK y \in 0 .. word - page : y = brk - from /\ from + y = brk
    BY <1>1, <1>6
  <2>2. y % Word = y
    <3>1. y \in 0 .. word - 1
      BY <1>1, <2>1
    <3> QED
      BY <1>1, <3>1, SmallMod
  <2>3. PageAlign(from + y) = from + PageAlign(y)
    BY <1>1, <1>2, <1>5, <2>1, PageAlignShift
  <2> QED
    BY <1>3, <1>5, <2>1, <2>2, <2>3
<1>7. CASE brk < from
  <2>1. PICK x \in 0 .. page - 2 : x = brk - from + page - 1
    BY <1>1, <1>5, <1>7
  <2>2. (brk - from) % word = word + (brk - from)
    <3>1. PICK z \in 0 .. word - 1 : z = word + (brk - from)
      BY <1>1, <1>7, <2>1
    <3>2. (word * (-1) + z) % word = z /\ word * (-1) + z = brk - from
      <4>1. (word * (-1) + z) % word = z
        BY ModIs
      <4>2. word * (-1) + z = brk - from
        BY <3>1
      <4> QED
        BY <4>1, <4>2
    <3> QED
      BY <3>1, <3>2
  <2>3. (word + (brk - from) + page - 1) % word = x
    <3>1. x \in 0 .. word - 1
      BY <1>1, <2>1
    <3>2. (word * 1 + x) % word = x
      BY <3>1, ModIs
    <3>3. word * 1 + x = word + (brk - from) + page - 1
      BY <2>1
    <3> QED
      BY <3>2, <3>3
  <2>4. PageAlign(word + (brk - from)) = PageStart(x)
    BY <1>1, <2>3 DEF PageAlign
  <2>5. PageStart(x) = 0
    <3>1. x \in 0 .. page - 1
      BY <2>1
    <3>2. x % page = x
      BY <3>1, SmallMod
    <3> QED
      BY <1>1, <3>2 DEF PageStart
  <2>6. PageAlign(brk) = from
    <3>1. PageAlign(brk) =< from
      BY <1>4, <1>5, <1>7
    <3>2. bss =< PageAlign(brk)
      BY <1>4
    <3>3. from =< PageAlign(brk)
      BY <1>3, <1>4, <1>5, <3>2
    <3> QED
      BY <1>4, <3>1, <3>3
  <2>7. from + 0 = from
    OBVIOUS
  <2> QED
    BY <1>1, <1>3, <1>5, <2>2, <2>4, <2>5, <2>6, <2>7
<1> QED
  BY <1>5, <1>6, <1>7

\* The bss of the interpreter lies in the room, above its other segments.
LEMMA InterpBssIInv == IInv /\ InterpBss => IInv'
<1> SUFFICES ASSUME IInv, InterpBss PROVE IInv'
  OBVIOUS
<1> DEFINE n == Len(image.interp)
           q == image.interp[n]
           from == PageAlign(elf_bss)
           size == PageAlign((elf_brk - from) % Word)
<1>1. /\ Types /\ Control /\ Checked /\ Heap /\ InterpLoaded
      /\ pc = "interpBss" /\ pc' \in {"entry", "failed"}
      /\ UNCHANGED <<image, i, binaryVars, elf_bss, elf_brk, interpVars>>
  BY DEF IInv, InterpBss, Goto
<1>2. Types'
  BY <1>1 DEF Types, binaryVars, interpVars
<1>3. CASE pc' = "failed"
  BY <1>1, <1>2, <1>3, FailedStep DEF Control, binaryVars
<1>4. CASE pc' = "entry"
  <2>1. Control'
    BY <1>1, <1>4 DEF Control, AfterBinary, binaryVars, interpVars
  <2>2. Checked'
    <3>1. Passed' = DOMAIN image.phdr /\ Passed = DOMAIN image.phdr
      BY <1>1, <1>4 DEF Passed
    <3> QED
      BY <1>1, <1>4, <3>1 DEF Checked, binaryVars
  <2>3. Ends' /\ BinaryLoaded'
    BY <1>4 DEF Ends, BinaryLoaded
  <2>4. /\ B' = B /\ C' = C /\ (Fits' <=> Fits) /\ (WellFormedInterp' <=> WellFormedInterp)
        /\ (WellFormed(image.phdr))' = WellFormed(image.phdr) /\ image' = image
    BY <1>1 DEF B, C, Fits, WellFormedInterp, binaryVars, interpVars
  <2>5. Heap'
    BY <1>1, <1>4, <2>4 DEF Heap, AfterBinary, binaryVars
  <2>6. ASSUME Fits, WellFormed(image.phdr), WellFormedInterp
        PROVE  BinaryIn(image, B, space', Len(image.phdr)) /\ InterpIn(image, C, space', n)
    <3>1. /\ BinaryIn(image, B, space, Len(image.phdr)) /\ Room(image, B, C)
          /\ InterpIn(image, C, space, n - 1) /\ FileIn(space, C, q, InterpByte)
          /\ InterpEnds(C, q, elf_bss, elf_brk)
      BY <1>1, <2>6 DEF InterpLoaded, AfterBinary
    <3>2. /\ image.interp # <<>> /\ n \in Nat /\ n \in 1 .. n
          /\ DOMAIN image.interp = 1 .. n /\ q \in Phdr /\ WellFormed(image.interp)
          /\ \A j \in 1 .. n : image.interp[j] \in Phdr
      <4>1. image.interp # <<>>
        BY <1>1 DEF Control
      <4>2. /\ n \in Nat /\ 1 \in 1 .. n /\ DOMAIN image.interp = 1 .. n
            /\ \A j \in 1 .. n : image.interp[j] \in Phdr
        BY <1>1, <4>1, ImageType DEF Types
      <4>3. n \in 1 .. n
        <5> HIDE DEF n
        <5> QED
          BY <4>2
      <4> QED
        BY <2>6, <4>1, <4>2, <4>3 DEF WellFormedInterp
    <3>3. /\ C \in Int /\ RoomStart(image, C) \in Int /\ RoomEnd(image, C) \in Int
          /\ Whole(RoomEnd(image, C)) /\ RoomStart(image, C) =< C + PageStart(q.vaddr)
          /\ 0 =< C + PageStart(q.vaddr)
          /\ C + q.vaddr + q.memsz =< RoomEnd(image, C) /\ RoomEnd(image, C) =< TaskSize
      <4>1. C = Base(image.interp, load_addr) /\ image \in Images
            /\ load_addr \in Unsigned /\ Whole(load_addr)
        BY <1>1 DEF C, Types
      <4>2. /\ Room(image, B, Base(image.interp, load_addr))
            /\ n \in 1 .. Len(image.interp)
        BY <3>1, <3>2, <4>1
      <4>3. LET d == Base(image.interp, load_addr)
            IN /\ d \in Int /\ RoomStart(image, d) \in Int /\ RoomEnd(image, d) \in Int
               /\ Whole(RoomEnd(image, d))
               /\ RoomStart(image, d) =< d + PageStart(image.interp[n].vaddr)
               /\ 0 =< d + PageStart(image.interp[n].vaddr)
               /\ d + image.interp[n].vaddr + image.interp[n].memsz =< RoomEnd(image, d)
               /\ RoomEnd(image, d) =< TaskSize
        <5> HIDE DEF n
        <5> QED
          BY <3>2, <4>1, <4>2, InRoom
      <4> QED
        BY <4>1, <4>3
    <3>4. PICK c \in Int, u \in Int, f \in Int, m \in Int, w \in Int, L \in Int, H \in Int,
               ts \in Int :
            /\ c = C /\ u = q.vaddr /\ f = q.filesz /\ m = q.memsz /\ w = PageStart(q.vaddr)
            /\ L = RoomStart(image, C) /\ H = RoomEnd(image, C) /\ ts = TaskSize
            /\ 0 =< f
      <4>1. q.vaddr \in Int /\ q.filesz \in Int /\ q.memsz \in Int /\ 0 =< q.filesz
        BY <3>2, PhdrType DEF Unsigned
      <4>2. PageStart(q.vaddr) \in Int
        BY <4>1, PageStartIs DEF Whole
      <4>3. C \in Int /\ RoomStart(image, C) \in Int /\ RoomEnd(image, C) \in Int
        BY <3>3
      <4>4. TaskSize \in Int
        BY ConstantsType
      <4> HIDE DEF q
      <4> QED
        BY <4>1, <4>2, <4>3, <4>4
    <3>5. /\ w =< u /\ L =< c + w /\ 0 =< c + w /\ c + u + m =< H /\ H =< ts
      <4>1. PageStart(u) =< u
        BY PageStartIs
      <4>2. L =< c + w /\ 0 =< c + w
        BY <3>3, <3>4
      <4>3. c + u + m =< H /\ H =< ts
        BY <3>3, <3>4
      <4>4. w =< u
        BY <3>4, <4>1
      <4> QED
        BY <4>2, <4>3, <4>4
    <3>6. /\ elf_bss = c + u + f /\ elf_brk = c + u + m /\ elf_bss =< elf_brk
      BY <3>1, <3>4 DEF InterpEnds
    <3>7. /\ L =< c + u + f /\ 0 =< c + u + f /\ c + u + m =< ts
      <4>1. 0 =< f /\ w =< u
        BY <3>4, <3>5
      <4>2. c + w =< c + u + f
        BY <4>1
      <4> QED
        BY <3>5, <4>2
    <3>8. ASSUME NEW t, NEW E \in Int, Kept(space, t, elf_bss, E), E =< H,
                 WholeIn(t, C, q, InterpByte)
          PROVE  BinaryIn(image, B, t, Len(image.phdr)) /\ InterpIn(image, C, t, n)
      <4>1. PICK e \in Int : e = elf_bss /\ e = c + u + f
        BY <3>6
      <4>2. \A x \in Addr : x < L \/ H =< x => x < elf_bss \/ E =< x
        <5>1. L =< e /\ E =< H
          BY <3>7, <3>8, <4>1
        <5>2. \A x \in Int : x < L \/ H =< x => x < e \/ E =< x
          BY <5>1
        <5> QED
          BY <4>1, <5>2, ConstantsType DEF Addr
      <4>3. BinaryIn(image, B, t, Len(image.phdr))
        <5> SUFFICES ASSUME NEW j \in 1 .. Len(image.phdr)
                     PROVE  WholeIn(t, B, image.phdr[j], BinaryByte)
          BY DEF BinaryIn
        <5>1. WholeIn(space, B, image.phdr[j], BinaryByte)
          BY <3>1 DEF BinaryIn
        <5>2. j \in DOMAIN image.phdr
          BY <1>1, ImageType DEF Types
        <5>3. \A x \in Addr :
                B + image.phdr[j].vaddr =< x
                  /\ x < B + image.phdr[j].vaddr + image.phdr[j].memsz => x < L \/ H =< x
          BY <3>1, <3>4, <5>2 DEF Room
        <5> QED
          BY <3>8, <4>2, <5>1, <5>3, WholeKept
      <4>4. ASSUME NEW j \in 1 .. n - 1 PROVE WholeIn(t, C, image.interp[j], InterpByte)
        <5> DEFINE r == image.interp[j]
        <5>1. WholeIn(space, C, r, InterpByte)
          BY <3>1 DEF InterpIn
        <5>2. r.vaddr + r.memsz =< PageStart(q.vaddr) /\ r \in Phdr
          <6>1. j \in 1 .. n /\ j < n
            BY <3>2
          <6> QED
            BY <3>2, <6>1 DEF WellFormed
        <5>3. PICK z \in Int, s \in Int : z = r.vaddr /\ s = r.memsz
          BY <5>2, PhdrType
        <5>4. z + s =< w
          BY <3>4, <5>2, <5>3
        <5>5. c + z + s =< c + u + f
          <6>1. w =< u /\ 0 =< f
            BY <3>4, <3>5
          <6>2. z + s =< u
            BY <5>4, <6>1
          <6> QED
            BY <6>1, <6>2
        <5>6. \A x \in Int : x < c + z + s => x < e
          BY <4>1, <5>5
        <5>7. \A x \in Addr : x < C + r.vaddr + r.memsz => x < elf_bss
          BY <3>4, <4>1, <5>3, <5>6, ConstantsType DEF Addr
        <5> QED
          BY <3>8, <5>1, <5>7, WholeKept
      <4>5. InterpIn(image, C, t, n)
        <5>1. \A j \in 1 .. n : j \in 1 .. n - 1 \/ j = n
          <6> HIDE DEF n
          <6> QED
            BY <3>2
        <5> QED
          BY <3>8, <4>4, <5>1 DEF InterpIn
      <4> QED
        BY <4>3, <4>5
    <3>9. CASE elf_brk =< elf_bss
      <4>1. space' = space
        <5>1. ~(elf_brk > elf_bss)
          BY <1>1, <3>9 DEF Types
        <5> QED
          BY <5>1 DEF InterpBss
      <4>2. WholeIn(space, C, q, InterpByte)
        <5>1. PICK b \in Int, e \in Int :
                b = C + q.vaddr + q.filesz /\ e = C + q.vaddr + q.memsz /\ e =< b
          BY <3>4, <3>6, <3>9
        <5>2. \A x \in Int : ~(b =< x /\ x < e)
          BY <5>1
        <5>3. \A x \in Addr : ~(C + q.vaddr + q.filesz =< x /\ x < C + q.vaddr + q.memsz)
          BY <5>1, <5>2, ConstantsType DEF Addr
        <5>4. C + q.vaddr + q.memsz =< TaskSize
          BY <3>4, <3>7
        <5> HIDE DEF q
        <5> QED
          BY <3>1, <3>2, <3>3, <5>3, <5>4, WholeIs DEF q
      <4>3. Kept(space, space, elf_bss, H)
        BY DEF Kept
      <4>4. H =< H
        BY <3>4
      <4> QED
        BY <3>4, <3>8, <4>1, <4>2, <4>3, <4>4
    <3>10. CASE ~(elf_brk =< elf_bss)
      <4>1. PICK bss \in Int, brk \in Int :
              /\ bss = elf_bss /\ brk = elf_brk /\ bss < brk
              /\ bss = c + u + f /\ brk = c + u + m /\ 0 =< bss /\ brk =< ts
        <5>1. PICK bss \in Int, brk \in Int : bss = c + u + f /\ brk = c + u + m
          OBVIOUS
        <5>2. bss < brk
          BY <3>6, <3>10, <5>1
        <5> QED
          BY <3>6, <3>7, <5>1, <5>2
      <4>2. /\ from \in Nat /\ bss =< from /\ from + size = PageAlign(brk)
        <5>1. 0 =< bss /\ bss < brk /\ brk =< TaskSize
          BY <3>4, <4>1
        <5>2. /\ PageAlign(bss) \in Nat /\ bss =< PageAlign(bss)
              /\ PageAlign(bss) + PageAlign((brk - PageAlign(bss)) % Word) = PageAlign(brk)
          BY <5>1, BssSize
        <5> QED
          BY <4>1, <5>2
      <4>3. /\ Clearable(space, elf_bss, from - elf_bss) /\ from + size =< TaskSize
            /\ space' = Zeroed(Cleared(space, elf_bss, from - elf_bss), from, from + size)
        <5>1. /\ elf_brk > elf_bss
              /\ IF ~Clearable(space, elf_bss, from - elf_bss) \/ from + size > TaskSize
                 THEN pc' = "failed"
                 ELSE space' = Zeroed(Cleared(space, elf_bss, from - elf_bss), from, from + size)
          BY <3>10 DEF InterpBss, Goto
        <5>2. from + size \in Int /\ TaskSize \in Int
          <6>1. PageAlign(brk) \in Nat
            BY <4>1, WordType
          <6> QED
            BY <4>2, <6>1, ConstantsType
        <5> HIDE DEF from, size
        <5> QED
          BY <1>4, <5>1, <5>2
      <4>4. space' = Zeroed(AfterBrk(bss, brk), bss, bss + (from - bss))
        <5>1. space' = Zeroed(Zeroed(space, bss, bss + (from - bss)), from, PageAlign(brk))
          <6> HIDE DEF from, size
          <6> QED
            BY <4>1, <4>2, <4>3 DEF Cleared
        <5>2. space' = Zeroed(Zeroed(space, from, PageAlign(brk)), bss, bss + (from - bss))
          BY <5>1, ZeroedTwice
        <5> QED
          BY <4>1, <5>2 DEF AfterBrk
      <4>5. /\ Clearable(AfterBrk(bss, brk), bss, from - bss)
            /\ WholeIn(Cleared(AfterBrk(bss, brk), bss, from - bss), C, q, InterpByte)
            /\ Kept(space, Cleared(AfterBrk(bss, brk), bss, from - bss), bss, PageAlign(brk))
        <5>1. PICK k \in Int : k = from - bss /\ k =< PageAlign(bss) - bss
                               /\ k >= PageAlign(bss) - bss
          <6>1. from = PageAlign(bss)
            BY <4>1
          <6> HIDE DEF from
          <6> QED
            BY <4>2, <6>1
        <5>2. f < m /\ q.filesz < q.memsz
          <6>1. f < m
            BY <4>1
          <6> QED
            BY <3>4, <6>1
        <5>3. q.rw
          <6>1. q.memsz > q.filesz
            BY <3>4, <5>2
          <6> QED
            BY <3>2, <6>1 DEF WellFormed
        <5>4. bss = C + q.vaddr + q.filesz /\ brk = C + q.vaddr + q.memsz
          BY <3>4, <4>1
        <5>5. brk =< Word - Page /\ PageAlign(brk) =< TaskSize
          <6>1. PICK wp \in Int : wp = Word - Page /\ ts =< wp
            BY <3>4, ConstantsType, LastPage
          <6>2. brk =< wp
            BY <4>1, <6>1
          <6> QED
            BY <4>2, <4>3, <6>1, <6>2
        <5> HIDE DEF q, from
        <5> QED
          BY <3>1, <3>2, <3>3, <5>1, <5>2, <5>3, <5>4, <5>5, BssCleared
      <4>6. space' = Cleared(AfterBrk(bss, brk), bss, from - bss)
        <5> HIDE DEF from
        <5> QED
          BY <4>4, <4>5 DEF Cleared
      <4>7. PICK E \in Int : E = PageAlign(brk) /\ E =< H
        <5>1. brk \in 0 .. Word - Page
          <6>1. PICK wp \in Int : wp = Word - Page /\ ts =< wp
            BY <3>4, ConstantsType, LastPage
          <6>2. 0 =< brk /\ brk =< wp
            BY <4>1, <6>1
          <6> QED
            BY <6>1, <6>2
        <5>2. brk =< H /\ Whole(H)
          BY <3>3, <3>4, <3>5, <4>1
        <5> QED
          BY <5>1, <5>2, PageAlignIs
      <4> QED
        <5> HIDE DEF n, q, from
        <5> QED
          BY <3>8, <4>1, <4>5, <4>6, <4>7
    <3> QED
      BY <3>9, <3>10
  <2>7. InterpLoaded'
    BY <1>1, <1>4, <2>4, <2>6 DEF InterpLoaded, AfterBinary
  <2> QED
    BY <1>2, <2>1, <2>2, <2>3, <2>5, <2>7 DEF IInv
<1> QED
  BY <1>1, <1>3, <1>4

\* The test of e_entry changes nothing in memory.
LEMMA EntryIInv == IInv /\ Entry => IInv'
<1> SUFFICES ASSUME IInv, Entry PROVE IInv'
  OBVIOUS
<1>1. /\ Types /\ Control /\ Checked /\ Heap /\ InterpLoaded
      /\ pc = "entry" /\ pc' \in {"run", "failed"}
      /\ UNCHANGED <<image, i, space, binaryVars, elf_bss, elf_brk, interpVars>>
  BY DEF IInv, Entry, Goto
<1>2. Types'
  BY <1>1 DEF Types, binaryVars, interpVars
<1>3. CASE pc' = "failed"
  BY <1>1, <1>2, <1>3, FailedStep DEF Control, binaryVars
<1>4. CASE pc' = "run"
  <2>1. Control'
    BY <1>1, <1>4 DEF Control, AfterBinary, binaryVars, interpVars
  <2>2. Checked'
    <3>1. Passed' = DOMAIN image.phdr /\ Passed = DOMAIN image.phdr
      BY <1>1, <1>4 DEF Passed
    <3> QED
      BY <1>1, <1>4, <3>1 DEF Checked, binaryVars
  <2>3. Ends' /\ BinaryLoaded'
    BY <1>4 DEF Ends, BinaryLoaded
  <2>4. /\ B' = B /\ C' = C /\ (Fits' <=> Fits) /\ (WellFormedInterp' <=> WellFormedInterp)
        /\ (WellFormed(image.phdr))' = WellFormed(image.phdr) /\ image' = image
    BY <1>1 DEF B, C, Fits, WellFormedInterp, binaryVars, interpVars
  <2>5. Heap'
    BY <1>1, <1>4, <2>4 DEF Heap, AfterBinary, binaryVars
  <2>6. InterpLoaded'
    BY <1>1, <1>4, <2>4 DEF InterpLoaded, AfterBinary
  <2> QED
    BY <1>2, <2>1, <2>2, <2>3, <2>5, <2>6 DEF IInv
<1> QED
  BY <1>1, <1>3, <1>4

\* The invariant speaks of the variables only.
LEMMA StutterIInv == IInv /\ UNCHANGED vars => IInv'
<1> SUFFICES ASSUME IInv, UNCHANGED vars PROVE IInv'
  OBVIOUS
<1>1. UNCHANGED <<image, pc, i, space, mm_brk, load_bias, load_addr_set, elf_bss, elf_brk,
                  load_addr, total_size>>
  BY DEF vars, binaryVars, interpVars
<1>2. /\ Types' = Types /\ Control' = Control /\ Passed' = Passed /\ B' = B /\ C' = C
      /\ Fits' = Fits /\ WellFormedInterp' = WellFormedInterp
  BY <1>1 DEF Types, Control, Passed, B, C, Fits, WellFormedInterp
<1>3. Checked' /\ Ends' /\ Heap'
  BY <1>1, <1>2 DEF IInv, Checked, Ends, Heap
<1>4. BinaryLoaded' /\ InterpLoaded'
  BY <1>1, <1>2 DEF IInv, BinaryLoaded, InterpLoaded
<1> QED
  BY <1>2, <1>3, <1>4 DEF IInv

\* Every step keeps the invariant.
LEMMA NextIInv == IInv /\ [Next]_vars => IInv'
BY ZeroIInv, MapIInv, CheckIInv, BssIInv, StartInterpIInv, MapInterpIInv, CheckInterpIInv,
   InterpBssIInv, EntryIInv, StutterIInv DEF Next, Ended

-------------------------------------------------------------------------------
(* What every reachable state satisfies.                                   *)

\* The bookkeeping of load_elf_binary() and load_elf_interp(): which segments are in
\* memory at each step, where the files moved to, what the checks have left, and the
\* room that the interpreter has.
THEOREM LayoutInvariant == Spec => []IInv
<1>1. Init => IInv
  BY InitIInv
<1>2. IInv /\ [Next]_vars => IInv'
  BY NextIInv
<1> QED
  BY <1>1, <1>2, PTL DEF Spec

\* A file whose segments are whole is loaded as ImageRight asks.
LEMMA LoadedIs ==
  ASSUME NEW phdr, phdr[1] \in Phdr, NEW bias \in Unsigned, Whole(bias), NEW file,
         \A j \in DOMAIN phdr : /\ phdr[j] \in Phdr
                                /\ WholeIn(space, Base(phdr, bias), phdr[j], file)
  PROVE  Loaded(phdr, bias, file)
<1> DEFINE b == Base(phdr, bias)
<1>1. b \in Int
  BY BaseIs DEF Whole
<1> SUFFICES ASSUME NEW j \in DOMAIN phdr, NEW d \in 0 .. phdr[j].memsz - 1
             PROVE  LET a == (bias + phdr[j].vaddr + d) % Word
                    IN /\ a \in Addr
                       /\ space.byte[a] = IF d < phdr[j].filesz
                                          THEN file + phdr[j].offset + d ELSE 0
                       /\ phdr[j].rw => a \in space.rw
  BY DEF Loaded
<1> HIDE DEF b
<1>2. /\ phdr[j] \in Phdr /\ 0 =< b + phdr[j].vaddr
      /\ b + phdr[j].vaddr + phdr[j].memsz =< TaskSize
      /\ \A x \in Addr :
           b + phdr[j].vaddr =< x /\ x < b + phdr[j].vaddr + phdr[j].memsz =>
             /\ space.byte[x] = IF x < b + phdr[j].vaddr + phdr[j].filesz
                                THEN file + phdr[j].offset + (x - (b + phdr[j].vaddr)) ELSE 0
             /\ phdr[j].rw => x \in space.rw
  BY DEF WholeIn, b
<1>3. PICK u \in Int, f \in Int, m \in Int, c \in Int, e \in Int, ts \in Int, word \in Int :
        /\ u = phdr[j].vaddr /\ f = phdr[j].filesz /\ m = phdr[j].memsz /\ c = b /\ e = d
        /\ ts = TaskSize /\ word = Word /\ ts < word
  <2>1. phdr[j].vaddr \in Int /\ phdr[j].filesz \in Int /\ phdr[j].memsz \in Int
    BY <1>2, PhdrType
  <2>2. d \in Int /\ TaskSize \in Int /\ Word \in Int /\ TaskSize < Word
    BY <2>1, ConstantsType
  <2> QED
    BY <1>1, <2>1, <2>2
<1>4. 0 =< e /\ e < m /\ 0 =< c + u /\ c + u + m =< ts
  BY <1>2, <1>3
<1>5. PICK x \in Int : x = c + u + e
  OBVIOUS
<1>6. /\ 0 =< x /\ x < ts /\ c + u =< x /\ x < c + u + m
      /\ x - (c + u) = e /\ (x < c + u + f <=> e < f)
  BY <1>4, <1>5
<1>7. (bias + phdr[j].vaddr + d) % Word = x
  <2>1. PICK y \in Int, l \in Int : y = u + e /\ l = bias /\ x = c + y
    BY <1>5, ConstantsType DEF Unsigned
  <2>2. c + y \in 0 .. word - 1
    BY <1>3, <1>6, <2>1
  <2>3. (bias + y) % Word = b + y
    BY <1>3, <2>2, BaseAt DEF b
  <2>4. l + y = l + u + e
    BY <2>1
  <2> QED
    BY <1>3, <2>1, <2>3, <2>4
<1>8. x \in Addr
  BY <1>3, <1>6 DEF Addr
<1>9. /\ space.byte[x] = IF e < f THEN file + phdr[j].offset + e ELSE 0
      /\ phdr[j].rw => x \in space.rw
  BY <1>2, <1>3, <1>6, <1>8
<1> QED
  BY <1>3, <1>7, <1>8, <1>9

\* A program that is started from well-formed files has its image and that of its
\* interpreter in memory, byte for byte, and its heap begins behind its segments.
THEOREM ImageRightHolds == Spec => []ImageRight
<1>1. IInv => ImageRight
  <2> SUFFICES ASSUME IInv, pc = "run", Fits PROVE ImageRight
    BY DEF ImageRight
  <2>1. /\ Types /\ Control /\ Checked /\ Heap /\ InterpLoaded
    BY DEF IInv
  <2>2. /\ mm_brk <= TaskSize
        /\ \A j \in DOMAIN image.phdr :
             ((load_bias + image.phdr[j].vaddr) % Word) + image.phdr[j].memsz <= mm_brk
    BY <2>1 DEF Heap, AfterBinary
  <2>3. ASSUME WellFormed(image.phdr), WellFormedInterp
        PROVE  /\ Loaded(image.phdr, load_bias, BinaryByte)
               /\ Loaded(image.interp, load_addr, InterpByte)
    <3>1. /\ BinaryIn(image, B, space, Len(image.phdr))
          /\ InterpIn(image, C, space, Len(image.interp))
      BY <2>1, <2>3 DEF InterpLoaded, AfterBinary
    <3>2. /\ DOMAIN image.phdr = 1 .. Len(image.phdr) /\ Len(image.phdr) \in Nat \ {0}
          /\ \A j \in 1 .. Len(image.phdr) : image.phdr[j] \in Phdr
          /\ DOMAIN image.interp = 1 .. Len(image.interp)
          /\ \A j \in 1 .. Len(image.interp) : image.interp[j] \in Phdr
          /\ image.interp # <<>> => 1 \in 1 .. Len(image.interp)
      BY <2>1, ImageType DEF Types
    <3>3. /\ load_bias \in Unsigned /\ Whole(load_bias)
          /\ load_addr \in Unsigned /\ Whole(load_addr)
      BY <2>1 DEF Types
    <3>4. Loaded(image.phdr, load_bias, BinaryByte)
      <4>1. image.phdr[1] \in Phdr
        <5>1. 1 \in 1 .. Len(image.phdr)
          BY <3>2
        <5> QED
          BY <3>2, <5>1
      <4> QED
        BY <3>1, <3>2, <3>3, <4>1, LoadedIs DEF BinaryIn, B
    <3>5. Loaded(image.interp, load_addr, InterpByte)
      <4>1. CASE image.interp = <<>>
        BY <4>1 DEF Loaded
      <4>2. CASE image.interp # <<>>
        BY <3>1, <3>2, <3>3, <4>2, LoadedIs DEF InterpIn, C
      <4> QED
        BY <4>1, <4>2
    <3> QED
      BY <3>4, <3>5
  <2> QED
    BY <2>2, <2>3 DEF ImageRight
<1> QED
  BY <1>1, LayoutInvariant, PTL

=====
