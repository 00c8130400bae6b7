------------------------------- MODULE Registers -------------------------------
(***************************************************************************)
(* src/core/registers.c as operators.  A register file is the sequence of  *)
(* the 27 words of struct user_regs_struct; the code takes the place of a  *)
(* register in its table of descriptions for its place in the file.        *)
(***************************************************************************)
EXTENDS Integers, Sequences, SequencesExt

\* reg_t, in the order of its declaration.
Reg ==
  <<"rax", "rbx", "rcx", "rdx", "rdi", "rsi", "rbp", "rsp", "r8", "r9", "r10",
    "r11", "r12", "r13", "r14", "r15", "rip", "rflags", "cs", "orig_rax",
    "fs_base", "gs_base", "fs", "gs", "ss", "ds", "es">>

\* reg_desc_array: the register, its DWARF number and, where it is another
\* than the register's own, its name.
RegDescs ==
  LET desc(r, n) == [r |-> r, dwarf |-> n, name |-> r]
  IN <<desc("r15", 15), desc("r14", 14), desc("r13", 13), desc("r12", 12),
       desc("rbp", 6), desc("rbx", 3), desc("r11", 11), desc("r10", 10),
       desc("r9", 9), desc("r8", 8), desc("rax", 0), desc("rcx", 2),
       desc("rdx", 1), desc("rsi", 4), desc("rdi", 5), desc("orig_rax", -1),
       desc("rip", -1), desc("cs", 51),
       [r |-> "rflags", dwarf |-> 49, name |-> "eflags"],
       desc("rsp", 7), desc("ss", 52), desc("fs_base", 58),
       desc("gs_base", 59), desc("ds", 53), desc("es", 50), desc("fs", 54),
       desc("gs", 55)>>

\* Mutant of IndexOf: the register's value as an enumerator is the index.
IndexInEnum(r) == SelectInSeq(Reg, LAMBDA q : q = r)

\* The loops over the table take the first description that fits.
IndexOf(r) == SelectInSeq(RegDescs, LAMBDA d : d.r = r)

GetRegister(file, r) == file[IndexOf(r)]

SetRegister(file, r, value) == [file EXCEPT ![IndexOf(r)] = value]

\* For a number or a name that no description has, an assert fails.
FromDwarf(n) == RegDescs[SelectInSeq(RegDescs, LAMBDA d : d.dwarf = n)].r

FromName(name) == RegDescs[SelectInSeq(RegDescs, LAMBDA d : d.name = name)].r

NameOf(r) == RegDescs[IndexOf(r)].name

\* External: the fields of struct user_regs_struct, in the kernel's order.
UserRegs ==
  <<"r15", "r14", "r13", "r12", "rbp", "rbx", "r11", "r10", "r9", "r8", "rax",
    "rcx", "rdx", "rsi", "rdi", "orig_rax", "rip", "cs", "eflags", "rsp", "ss",
    "fs_base", "gs_base", "ds", "es", "fs", "gs">>

\* External: registers by their DWARF numbers, for those of the 64-bit ABI that
\* have a field; 0 to 15, then the ones from 49 on.
AbiRegs ==
  LET general == <<"rax", "rdx", "rcx", "rbx", "rsi", "rdi", "rbp", "rsp", "r8",
                   "r9", "r10", "r11", "r12", "r13", "r14", "r15">>
      others  == <<"eflags", "es", "cs", "ss", "ds", "fs", "gs">>
      bases   == <<"fs_base", "gs_base">>
  IN [n \in (0 .. 15) \union (49 .. 55) \union {58, 59} |->
        IF n <= 15 THEN general[n + 1]
        ELSE IF n <= 55 THEN others[n - 48] ELSE bases[n - 57]]
=============================================================================
