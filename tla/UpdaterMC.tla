------------------------------ MODULE UpdaterMC ------------------------------
(***************************************************************************)
(* Archives for TLC: the Windows package; for the others the .tar.gz of a  *)
(* release, and a .zip made by hand without a top directory.               *)
(***************************************************************************)
EXTENDS Updater, TLC

CONSTANTS package, tarball, zipped

MCAbout ==
  [a \in {package, tarball, zipped} |->
     [platform |-> IF a = package THEN "windows" ELSE "unix",
      zip |-> a # tarball, nested |-> a # zipped, version |-> <<1, 1, 0>>]]

MCVersion == <<1, 0, 9>>

Symmetric == Permutations(Request)
=============================================================================
