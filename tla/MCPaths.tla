------------------------------ MODULE MCPaths ------------------------------
(***************************************************************************)
(* Small instances of Paths: every path of up to four pieces after the     *)
(* first slash, well-formed or not, and every request of up to four        *)
(* characters.                                                             *)
(***************************************************************************)
EXTENDS Paths

Pieces ==
  { << "/" >>, << "a" >>, << "." >>, << "*" >>, << "{" >>, << "}" >>, << "|" >>,
    matchOneTemplate, matchAnyTemplate }

SeqsUpTo(S, n) == UNION { [ 1..m -> S ] : m \in 0..n }

PathsOf(n) == { << "/" >> \o FlattenSeq(s) : s \in SeqsUpTo(Pieces, n) }
Rules == PathsOf(4) \cup { << "a" >>, << "*" >> }

Requests == { << "/" >> \o s : s \in SeqsUpTo({ "/", "a", "." }, 4) }
=============================================================================
