------------------------------- MODULE ElfLayout -------------------------------
(***************************************************************************)
(* The image that load_elf_binary() lays out from the program headers of a *)
(* binary and of its interpreter (binfmt_elf.c): mapping the file, the     *)
(* anonymous pages of the bss, what is cleared of the last page of a       *)
(* segment, the checks on sizes and the base of what may be placed         *)
(* anywhere, in arithmetic that wraps.                                     *)
(*                                                                         *)
(* Memory is a function from addresses to bytes of a file, zero, or        *)
(* nothing.  vm_mmap(), vm_brk(), vm_munmap() and clear_user() are mmap.c  *)
(* and uaccess.h, as far as the loader depends on them.                    *)
(***************************************************************************)
EXTENDS Integers, Sequences, FiniteSets

CONSTANTS
  Word,       \* 2^w: unsigned long
  Page,       \* ELF_MIN_ALIGN
  TaskSize,   \* TASK_SIZE
  DynBase,    \* ELF_ET_DYN_BASE
  Images      \* a binary and its interpreter: see ImageAssumption

Unsigned == 0 .. Word - 1
\* A program header of type PT_LOAD; rw is PF_W.
Phdr == [vaddr : Unsigned, offset : Unsigned, filesz : Unsigned, memsz : Unsigned,
         rw : BOOLEAN]

ASSUME ImageAssumption ==
  /\ {Word, Page, TaskSize, DynBase} \subseteq Nat \ {0}
  /\ Word % Page = 0 /\ TaskSize % Page = 0 /\ TaskSize < Word /\ DynBase < TaskSize
  /\ \A image \in Images :
       /\ image.dyn \in BOOLEAN                      \* ET_DYN
       /\ image.phdr \in Seq(Phdr) /\ image.phdr # <<>>
       /\ image.interp \in Seq(Phdr)                 \* <<>>: no PT_INTERP
       /\ image.interpDyn \in BOOLEAN

VARIABLES
  image,
  pc, i,              \* where the loader is, and the segment it is at
  space,              \* bytes of the address space, and what of it may be written
  mm_brk,             \* mm->brk
  load_bias, load_addr_set,
  elf_bss, elf_brk,   \* the largest end of a file mapping, and of a segment
  load_addr,          \* of the interpreter
  total_size          \* of the interpreter, until its first mapping

binaryVars == <<load_bias, load_addr_set, mm_brk>>
interpVars == <<load_addr, total_size>>
vars == <<image, pc, i, space, binaryVars, elf_bss, elf_brk, interpVars>>

-------------------------------------------------------------------------------
(* Arithmetic and memory.                                                  *)

PageStart(a) == a - (a % Page)
PageAlign(a) == PageStart((a + Page - 1) % Word)
Larger(a, b) == IF a > b THEN a ELSE b

Addr == 0 .. TaskSize - 1
BadAddr(a) == a >= TaskSize
Nothing == -1
Stack == TaskSize - Page .. TaskSize - 1
BinaryByte == 1          \* byte 0 of the binary, and of the interpreter
InterpByte == Word + 1

\* Bytes a .. e - 1 become what f gives.
Mapped(s, a, e, f, rw) ==
  [byte |-> [x \in Addr |-> IF x \in a .. e - 1 THEN f[x] ELSE s.byte[x]],
   rw |-> IF rw THEN s.rw \cup a .. e - 1 ELSE s.rw \ (a .. e - 1)]
Zeroed(s, a, e) == Mapped(s, a, e, [x \in Addr |-> 0], TRUE)

\* clear_user() of n bytes, which fails on a page that is not mapped or not writable.
Clearable(s, a, n) == a .. a + n - 1 \subseteq s.rw
Cleared(s, a, n) == IF Clearable(s, a, n) THEN Zeroed(s, a, a + n) ELSE s

\* set_brk()
SetBrkFails(start, end) == PageAlign(end) > Larger(PageAlign(start), TaskSize)
AfterBrk(start, end) == Zeroed(space, PageAlign(start), PageAlign(end))

\* Where vm_mmap() puts size bytes: there, or wherever it is free.
Places(addr, size, fixed) ==
  IF fixed
  THEN {a \in {addr} : a + size <= TaskSize}
  ELSE {a \in Page .. TaskSize - size :
          a % Page = 0 /\ \A x \in a .. a + size - 1 : space.byte[x] = Nothing}

\* elf_map(): the addresses and spaces that may come of it, none when it fails.  With
\* total, what the first mapping reserves beyond its size is unmapped again.
ElfMap(addr, p, fixed, total, file) ==
  LET off == (p.offset - (p.vaddr % Page)) % Word
      size == PageAlign((p.filesz + (p.vaddr % Page)) % Word)
      whole == IF total > 0 THEN PageAlign(total) ELSE size
  IN IF size = 0
     THEN {<<PageStart(addr), space>>}
     ELSE IF off % Page # 0 \/ off + whole >= Word \/ whole = 0 THEN {}
     ELSE LET Result(a) ==
                LET bytes == Mapped(space, a, a + whole,
                                    [x \in Addr |-> file + off + x - a], p.rw)
                IN IF whole <= size THEN bytes
                   ELSE Mapped(bytes, a + size, a + whole, [x \in Addr |-> Nothing], FALSE)
          IN {<<a, Result(a)>> : a \in Places(PageStart(addr), whole, fixed)}

-------------------------------------------------------------------------------
Goto(l) == pc' = l
Segments == IF pc \in {"zero", "map", "check"} THEN image.phdr ELSE image.interp
Segment == Segments[i]

\* flush_old_exec() and setup_arg_pages(): only the stack is mapped.
Init ==
  /\ image \in Images
  /\ pc = "zero" /\ i = 1
  /\ space = [byte |-> [x \in Addr |-> IF x \in Stack THEN 0 ELSE Nothing], rw |-> Stack]
  /\ mm_brk = 0 /\ load_bias = 0 /\ load_addr_set = FALSE
  /\ elf_bss = 0 /\ elf_brk = 0 /\ load_addr = 0 /\ total_size = 0

\* Mutant: the partial page before the next segment is not cleared.
ZeroPagesOnly ==
  /\ pc = "zero"
  /\ \/ elf_brk <= elf_bss /\ Goto("map") /\ UNCHANGED <<space, mm_brk>>
     \/ LET start == (elf_bss + load_bias) % Word
            end == (elf_brk + load_bias) % Word
        IN /\ elf_brk > elf_bss
           /\ IF SetBrkFails(start, end)
              THEN Goto("failed") /\ UNCHANGED <<space, mm_brk>>
              ELSE /\ mm_brk' = PageAlign(end)
                   /\ space' = AfterBrk(start, end)
                   /\ Goto("map")
  /\ UNCHANGED <<image, i, load_bias, load_addr_set, elf_bss, elf_brk, interpVars>>
\* A segment before this one had memory beyond its file: anonymous pages, and the rest
\* of the last page cleared, if it can be.
Zero ==
  /\ pc = "zero"
  /\ \/ elf_brk <= elf_bss /\ Goto("map") /\ UNCHANGED <<space, mm_brk>>
     \/ LET start == (elf_bss + load_bias) % Word
            end == (elf_brk + load_bias) % Word
            rest == PageAlign(elf_bss) - elf_bss
            nbyte == IF rest > elf_brk - elf_bss THEN elf_brk - elf_bss ELSE rest
        IN /\ elf_brk > elf_bss
           /\ IF SetBrkFails(start, end)
              THEN Goto("failed") /\ UNCHANGED <<space, mm_brk>>
              ELSE /\ mm_brk' = PageAlign(end)
                   /\ space' = Cleared(AfterBrk(start, end), start, nbyte)
                   /\ Goto("map")
  /\ UNCHANGED <<image, i, load_bias, load_addr_set, elf_bss, elf_brk, interpVars>>

\* The file of a segment is mapped; the first one of an ET_DYN says where the rest goes.
Map ==
  LET p == Segment
      fixed == ~image.dyn \/ load_addr_set
      bias == IF fixed THEN load_bias ELSE PageStart((DynBase - p.vaddr) % Word)
      at == (bias + p.vaddr) % Word
      results == {r \in ElfMap(at, p, fixed, 0, BinaryByte) : ~BadAddr(r[1])}
  IN /\ pc = "map"
     /\ \/ results = {} /\ Goto("failed") /\ UNCHANGED <<space, load_bias, load_addr_set>>
        \/ \E r \in results :
             /\ space' = r[2]
             /\ load_bias' = IF fixed THEN load_bias
                             ELSE (bias + r[1] - PageStart(at)) % Word
             /\ load_addr_set' = TRUE
             /\ Goto("check")
     /\ UNCHANGED <<image, i, mm_brk, elf_bss, elf_brk, interpVars>>

\* Mutant: the sum is compared, which may have wrapped.
OverflowsBySum(p, k) ==
  BadAddr(k) \/ p.filesz > p.memsz \/ (k + p.memsz) % Word > TaskSize
\* "Check to see if the section's size will overflow the allowed task size."
Overflows(p, k) ==
  BadAddr(k) \/ p.filesz > p.memsz \/ p.memsz > TaskSize \/ TaskSize - p.memsz < k

\* The check of a segment that is mapped already, and the two ends.
Check ==
  LET p == Segment
  IN /\ pc = "check"
     /\ \/ Overflows(p, p.vaddr) /\ Goto("failed") /\ UNCHANGED <<i, elf_bss, elf_brk>>
        \/ /\ ~Overflows(p, p.vaddr)
           /\ elf_bss' = Larger(elf_bss, (p.vaddr + p.filesz) % Word)
           /\ elf_brk' = Larger(elf_brk, (p.vaddr + p.memsz) % Word)
           /\ IF i < Len(Segments)
              THEN Goto("zero") /\ i' = i + 1
              ELSE Goto("bss") /\ UNCHANGED i
     /\ UNCHANGED <<image, space, binaryVars, interpVars>>

AfterBss == IF image.interp = <<>> THEN "entry" ELSE "interp"
\* set_brk() and padzero() after the last segment, before the interpreter is mapped.
Bss ==
  LET start == (elf_bss + load_bias) % Word
      end == (elf_brk + load_bias) % Word
      rest == PageAlign(start) - start
  IN /\ pc = "bss"
     /\ IF SetBrkFails(start, end)
        THEN Goto("failed") /\ UNCHANGED <<space, mm_brk>>
        ELSE /\ mm_brk' = PageAlign(end)
             /\ \/ start = end /\ space' = AfterBrk(start, end)
                   /\ Goto(AfterBss)
                \/ LET s == AfterBrk(start, end)
                   IN /\ start # end
                      /\ space' = Cleared(s, start, rest)
                      /\ Goto(IF Clearable(s, start, rest) THEN AfterBss ELSE "failed")
     /\ UNCHANGED <<image, i, load_bias, load_addr_set, elf_bss, elf_brk, interpVars>>

-------------------------------------------------------------------------------
(* load_elf_interp().                                                      *)

\* total_mapping_size(): up to the end of the last segment.
TotalMappingSize(phdr) ==
  LET last == phdr[Len(phdr)]
  IN (last.vaddr + last.memsz - PageStart(phdr[1].vaddr)) % Word

StartInterp ==
  /\ pc = "interp"
  /\ total_size' = TotalMappingSize(image.interp)
  /\ Goto(IF total_size' = 0 THEN "failed" ELSE "mapInterp")
  /\ i' = 1 /\ load_addr_set' = FALSE /\ load_addr' = 0
  /\ elf_bss' = 0 /\ elf_brk' = 0
  /\ UNCHANGED <<image, space, load_bias, mm_brk>>

\* Mutant: room is asked for the first segment only.
MapInterpFirst ==
  LET p == Segment
      fixed == ~image.interpDyn \/ load_addr_set
      results == {r \in ElfMap((load_addr + p.vaddr) % Word, p, fixed, 0, InterpByte) :
                    ~BadAddr(r[1])}
  IN /\ pc = "mapInterp"
     /\ \/ results = {} /\ Goto("failed")
           /\ UNCHANGED <<space, load_addr, load_addr_set>>
        \/ \E r \in results :
             /\ space' = r[2]
             /\ load_addr_set' = image.interpDyn
             /\ load_addr' = IF fixed THEN load_addr
                             ELSE (r[1] - PageStart(p.vaddr)) % Word
             /\ Goto("checkInterp")
     /\ total_size' = 0
     /\ UNCHANGED <<image, i, load_bias, mm_brk, elf_bss, elf_brk>>
\* The first segment reserves room for all of them.
MapInterp ==
  LET p == Segment
      fixed == ~image.interpDyn \/ load_addr_set
      results == {r \in ElfMap((load_addr + p.vaddr) % Word, p, fixed, total_size,
                               InterpByte) : ~BadAddr(r[1])}
  IN /\ pc = "mapInterp"
     /\ \/ results = {} /\ Goto("failed")
           /\ UNCHANGED <<space, load_addr, load_addr_set>>
        \/ \E r \in results :
             /\ space' = r[2]
             /\ load_addr_set' = image.interpDyn
             /\ load_addr' = IF fixed THEN load_addr
                             ELSE (r[1] - PageStart(p.vaddr)) % Word
             /\ Goto("checkInterp")
     /\ total_size' = 0
     /\ UNCHANGED <<image, i, load_bias, mm_brk, elf_bss, elf_brk>>

CheckInterp ==
  LET p == Segment
      k == (load_addr + p.vaddr) % Word
  IN /\ pc = "checkInterp"
     /\ \/ Overflows(p, k) /\ Goto("failed") /\ UNCHANGED <<i, elf_bss, elf_brk>>
        \/ /\ ~Overflows(p, k)
           /\ elf_bss' = Larger(elf_bss, (k + p.filesz) % Word)
           /\ elf_brk' = Larger(elf_brk, (k + p.memsz) % Word)
           /\ IF i < Len(Segments)
              THEN Goto("mapInterp") /\ i' = i + 1
              ELSE Goto("interpBss") /\ UNCHANGED i
     /\ UNCHANGED <<image, space, binaryVars, interpVars>>

\* padzero() and vm_brk() of what is beyond the last page of the files.
InterpBss ==
  LET from == PageAlign(elf_bss)
      size == PageAlign((elf_brk - from) % Word)
  IN /\ pc = "interpBss"
     /\ \/ elf_brk <= elf_bss /\ Goto("entry") /\ UNCHANGED space
        \/ /\ elf_brk > elf_bss
           /\ IF ~Clearable(space, elf_bss, from - elf_bss) \/ from + size > TaskSize
              THEN Goto("failed") /\ UNCHANGED space
              ELSE /\ space' = Zeroed(Cleared(space, elf_bss, from - elf_bss),
                                      from, from + size)
                   /\ Goto("entry")
     /\ UNCHANGED <<image, i, binaryVars, elf_bss, elf_brk, interpVars>>

\* BAD_ADDR(elf_entry), with any e_entry in the file.
Entry ==
  /\ pc = "entry"
  /\ Goto("run") \/ Goto("failed")
  /\ UNCHANGED <<image, i, space, binaryVars, elf_bss, elf_brk, interpVars>>

Ended == pc \in {"run", "failed"} /\ UNCHANGED vars

Next ==
  \/ Zero \/ Map \/ Check \/ Bss
  \/ StartInterp \/ MapInterp \/ CheckInterp \/ InterpBss
  \/ Entry \/ Ended

Spec == Init /\ [][Next]_vars

-------------------------------------------------------------------------------
(* Correctness.                                                            *)

\* What a linker promises: segments in ascending order on pages of their own, none that
\* wraps, memory beyond the file only where it may be written.
WellFormed(phdr) ==
  /\ \A j \in DOMAIN phdr :
       /\ phdr[j].memsz > phdr[j].filesz => phdr[j].rw
       /\ phdr[j].vaddr + phdr[j].memsz <= Word
  /\ \A j, k \in DOMAIN phdr :
       j < k => phdr[j].vaddr + phdr[j].memsz <= PageStart(phdr[k].vaddr)
\* Of an interpreter, that it may lie anywhere, that its first segment has a file to be
\* placed by, and that the last one alone has memory beyond its file.
WellFormedInterp ==
  /\ WellFormed(image.interp)
  /\ \A j \in 1 .. Len(image.interp) - 1 : image.interp[j].memsz <= image.interp[j].filesz
  /\ image.interp # <<>> => image.interpDyn /\ image.interp[1].filesz > 0

Loaded(phdr, base, file) ==
  \A j \in DOMAIN phdr :
    \A d \in 0 .. phdr[j].memsz - 1 :
      LET a == (base + phdr[j].vaddr + d) % Word
      IN /\ a \in Addr
         /\ space.byte[a] = IF d < phdr[j].filesz THEN file + phdr[j].offset + d ELSE 0
         /\ phdr[j].rw => a \in space.rw

\* The segments of an ET_DYN are checked where they are in the file.  Moved with the
\* first of them, they must not wrap.
Fits ==
  image.dyn =>
    \A j \in DOMAIN image.phdr :
      LET a == ((load_bias + image.phdr[1].vaddr) % Word)
                 + image.phdr[j].vaddr - image.phdr[1].vaddr
      IN a >= 0 /\ a + image.phdr[j].memsz <= Word - Page

\* A program that is started from well-formed files has its image and that of its
\* interpreter in memory, byte for byte, zero beyond the files.  Whatever the headers
\* say, its heap begins in user space and none of its segments reaches beyond that.
ImageRight ==
  pc = "run" /\ Fits =>
    /\ WellFormed(image.phdr) /\ WellFormedInterp =>
         /\ Loaded(image.phdr, load_bias, BinaryByte)
         /\ Loaded(image.interp, load_addr, InterpByte)
    /\ mm_brk <= TaskSize
    /\ \A j \in DOMAIN image.phdr :
         ((load_bias + image.phdr[j].vaddr) % Word) + image.phdr[j].memsz <= mm_brk

===============================================================================
