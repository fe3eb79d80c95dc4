----------------------------- MODULE MCFatShell -----------------------------
(* Small instances of FatShell for TLC. *)
EXTENDS FatShell, TLC

CONSTANTS a, b

MCNames == {a, b}
Symmetry == Permutations(MCNames)

P(base, via, leaf) == [base |-> base, via |-> via, leaf |-> leaf]

(* Two names in the root. *)
RootPaths == {P("abs", Blank, leaf) : leaf \in MCNames}

(* The same, and the directory above the current one.                      *)
ShellPaths == RootPaths \cup {P("rel", Blank, DotDot)}
=============================================================================
