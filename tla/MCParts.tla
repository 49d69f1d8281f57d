------------------------------ MODULE MCParts -------------------------------
(***************************************************************************)
(* The parts of the system that share no state with one another, checked   *)
(* side by side: a behaviour is one of the part that part names, and the   *)
(* variables of the others stay as they were initially.                    *)
(***************************************************************************)
EXTENDS Mem, File, Umalloc, Shell, Grep

CONSTANTS u1, u2

Symm == Permutations({u1, u2})

\* Programs for exec(): one segment; and a read-only one, a gap and another.
TwoPrograms ==
  {<<[vaddr |-> 0, memsz |-> 1, w |-> FALSE]>>,
   <<[vaddr |-> 0, memsz |-> 2, w |-> FALSE], [vaddr |-> 4, memsz |-> 1, w |-> TRUE]>>}
SbrkSizes == {3, -3, -20}
\* A file over a direct and an indirect block.
ThreeBytes == <<1, 2, 1>>

SeqsUpTo(S, n) == UNION {[1..k -> S] : k \in 0..n}
ShortLines == SeqsUpTo({"a", " ", ">", "|", "&", ";", "(", ")"}, 5)
\* a|a|a  (a<a;a>a)|a>>aa  (a|a)&;a  a|(a&)
PipeLines ==
  {<<"a", "|", "a", "|", "a">>,
   <<"(", "a", "<", "a", ";", "a", ">", "a", ")", "|", "a", ">", ">", "a", "a">>,
   <<"(", "a", "|", "a", ")", "&", ";", "a">>,
   <<"a", "|", "(", "a", "&", ")">>}
\* Every short pattern on single lines, and two patterns on longer inputs.
PatternsAndTexts ==
  (SeqsUpTo({"a", ".", "*", "^", "$"}, 3) \X {t \o <<"n">> : t \in SeqsUpTo({"a", "b"}, 3)})
  \union ({<<"a">>, <<"^", "b", "$">>} \X SeqsUpTo({"a", "b", "n"}, 6))

VARIABLE part

allvars == <<memvars, filevars, heapvars, shellvars, grepvars>>

InitParts ==
  /\ part \in {"mem", "file", "heap", "shell", "grep"}
  /\ MemInit /\ FileInit /\ HeapInit
  /\ IF part = "shell" THEN ShellInit ELSE line = <<>> /\ ShellStart
  /\ IF part = "grep" THEN GrepInit ELSE re = <<>> /\ text = <<>> /\ GrepStart

NextParts ==
  \/ part = "mem" /\ MemNext
     /\ UNCHANGED <<part, filevars, heapvars, shellvars, grepvars>>
  \/ part = "file" /\ FileNext
     /\ UNCHANGED <<part, memvars, heapvars, shellvars, grepvars>>
  \/ part = "heap" /\ HeapNext
     /\ UNCHANGED <<part, memvars, filevars, shellvars, grepvars>>
  \/ part = "shell" /\ ShellNext
     /\ UNCHANGED <<part, memvars, filevars, heapvars, grepvars>>
  \/ part = "grep" /\ GrepNext
     /\ UNCHANGED <<part, memvars, filevars, heapvars, shellvars>>

Spec == InitParts /\ [][NextParts]_<<part, allvars>>

(* Every page is in exactly one place, whichever kalloc()s fail:           *)
(* PagesAccounted of module Mem, where that is the part that runs.         *)
MemPagesAccounted == part = "mem" => PagesAccounted

(* copyout(), copyin() and copyinstr() treat every address alike:          *)
(* CopyExact of module Mem, where that is the part that runs.              *)
MemCopyExact == part = "mem" => CopyExact

(* Descriptor counts, block bitmap and contents are exact: FilesExact of   *)
(* module File, where that is the part that runs.                          *)
FileFilesExact == part = "file" => FilesExact
=============================================================================
