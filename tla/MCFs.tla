-------------------------------- MODULE MCFs --------------------------------
(* Two processes, a root directory and two more inodes.                    *)
EXTENDS Fs, TLC
CONSTANTS p1, p2
MCNames == {"a", "b"}
rel(e) == [abs |-> FALSE, elems |-> e]
MCCalls ==
  {[op |-> c[1], path |-> rel(c[2]), new |-> NoPath] :
     c \in {<<"creat", <<"a">>>>, <<"mkdir", <<"a">>>>, <<"mkdir", <<"a", "b">>>>,
            <<"unlink", <<"a">>>>, <<"unlink", <<"a", "b">>>>,
            <<"chdir", <<"a", "b">>>>, <<"chdir", <<"a">>>>, <<"chdir", <<"..">>>>, <<"open", <<"a">>>>}}
  \union {[op |-> "mknod", path |-> [abs |-> TRUE, elems |-> <<"b">>], new |-> NoPath]}
  \union {[op |-> "link", path |-> rel(<<"a">>), new |-> rel(<<"b">>)]}
\* After mkdir("a") and mkdir("a/b").
MCTrees ==
  LET dir(self, parent, nlink) ==
        [type |-> "DIR", nlink |-> nlink, ents |-> [NoEnts EXCEPT !["."] = self, ![".."] = parent]]
  IN  {[i \in Inums |->
         CASE i = 1 -> [dir(1, 1, 2) EXCEPT !.ents["a"] = 2]
           [] i = 2 -> [dir(2, 1, 2) EXCEPT !.ents["b"] = 3]
           [] i = 3 -> dir(3, 2, 1)
           [] OTHER -> FreeInode]}
\* Without power failures.
SpecPowered == Init /\ [][\E p \in Procs : Step(p)]_vars
Symm == Permutations(Procs)
=============================================================================
