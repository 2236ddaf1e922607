------------------------------ MODULE MCMiniGrep ------------------------------
(* Small file trees for MiniGrep.  The hit counts are powers of two, so that *)
(* a sum tells which files were counted.                                     *)
EXTENDS MiniGrep

MCPaths == {"/", "a", "b", "c", "d", "e"}

Tree(dirs, links, children, denied) ==
  [ kind     |-> [p \in MCPaths |-> IF p \in dirs THEN "dir"
                                   ELSE IF p \in links THEN "link" ELSE "reg"],
    children |-> [p \in MCPaths |-> IF p \in dirs THEN children[p] ELSE {}],
    hits     |-> [p \in MCPaths |-> CASE p = "a" -> 1 [] p = "b" -> 2
                                      [] p = "c" -> 4 [] p = "e" -> 8
                                      [] OTHER -> 16],
    denied   |-> denied ]

(* Directories two deep, files at both levels, a link.                       *)
Nested == Tree({"/", "d"}, {"e"},
               ("/" :> {"a", "b", "d"}) @@ ("d" :> {"c", "e"}), {})

(* Fewer entries than threads; a file and a directory that cannot be opened. *)
Closed == Tree({"/", "c", "d"}, {},
               ("/" :> {"d"}) @@ ("d" :> {"a", "b", "c"}) @@ ("c" :> {"e"}),
               {"b", "c"})

(* More entries than the arguments of two threads can hold.                  *)
Wide == Tree({"/"}, {}, ("/" :> {"a", "b", "c", "d", "e"}), {})

(* Nothing to search; a start directory that cannot be opened; a start path  *)
(* that is a regular file.                                                   *)
Empty    == Tree({"/"}, {}, ("/" :> {}), {})
NoAccess == Tree({"/"}, {}, ("/" :> {"a"}), {"/"})
OneFile  == Tree({}, {}, <<>>, {})

MCTrees == {Nested, Closed, Wide, Empty, NoAccess, OneFile}
===============================================================================
