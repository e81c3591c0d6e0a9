--------------------------- MODULE MCRuntimeStore ---------------------------
(***************************************************************************)
(* Instances of RuntimeStore for TLC.  `flake' is the enrolled, pinned     *)
(* installable; `branch' is an unpinned one that also realizes to a        *)
(* runtime whose pi does not start; `path' is a store output given as an   *)
(* absolute path and `dir' a directory outside the store.                  *)
(***************************************************************************)
EXTENDS RuntimeStore

CONSTANTS p1, p2, s1, s2, bad, d1, flake, branch, path, dir

OneProc  == {p1}
TwoProcs == {p1, p2}

AllInstallables == {flake, branch, path, dir}
AllPrebuilt     == {path, dir}
AllRealizes     == [i \in AllInstallables |->
                      CASE i = flake  -> {s1}
                        [] i = branch -> {s2, bad}
                        [] i = path   -> {s2}
                        [] i = dir    -> {d1}]
AllStore        == {s1, s2, bad}
AllPlain        == {d1}
AllSound        == {s1, s2, d1}

\* A smaller instance for interleavings: the enrolled installable against the
\* unpinned one.
FewInstallables == {flake, branch}
FewRealizes     == [i \in FewInstallables |-> AllRealizes[i]]
FewSound        == {s1, s2}
=============================================================================
