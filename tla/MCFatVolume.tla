---------------------------- MODULE MCFatVolume ----------------------------
(* Small instances of FatVolume for TLC. *)
EXTENDS FatVolume, TLC

CONSTANTS a, b

MCNames == {a, b}
Symmetry == Permutations(MCNames)

P(base, via, leaf) == [base |-> base, via |-> via, leaf |-> leaf]

(* Files beside each other; either name may also be a directory.           *)
FilePaths == {P("abs", Blank, leaf) : leaf \in MCNames}

(* Directories made, entered, renamed and removed through the root and the *)
(* current directory.                                                      *)
DirPaths ==
  {P(base, Blank, leaf) : base \in {"abs", "rel"}, leaf \in MCNames}
    \cup {P("rel", Blank, DotDot)}

(* The same through a directory on the way, "." and "..".                  *)
DeepPaths ==
  DirPaths \cup {P("rel", a, b), P("rel", b, a), P("rel", a, DotDot), P("rel", b, DotDot)}
           \cup {P("rel", DotDot, leaf) : leaf \in MCNames}
           \cup {P("rel", Blank, Dot), P("abs", Blank, Blank)}
=============================================================================
