------------------------------ MODULE MCImports -----------------------------
(* Source trees for TLC: every tree of three files and two paths, where a  *)
(* path may be missing, name the root, or name the same file as the other; *)
(* and every tree in which three paths name the root and two other files.  *)
EXTENDS Imports, TLC

CONSTANTS f0, f1, f2, p, q, r

Lists(paths) == {<<>>} \cup {<<x>> : x \in paths} \cup
                {<<x, y>> : x \in paths, y \in paths}
MCPrograms ==
  [target : {[x \in {p, q} |-> t[x]] @@ (r :> Missing) :
                t \in [{p, q} -> {f0, f1, f2, Missing}]},
   uses : [{f0, f1, f2} -> Lists({p, q}) \cup {Unreadable}]]
  \cup
  [target : {(p :> f0) @@ (q :> f1) @@ (r :> f2)},
   uses : [{f0, f1, f2} -> Lists({p, q, r})]]
=============================================================================
