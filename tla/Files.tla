------------------------------- MODULE Files -------------------------------
(***************************************************************************)
(* What the build driver's modules say of a file: the bytes it has, out of *)
(* a small set, or that it does not exist.  A hash stands for the bytes it *)
(* is of (no collisions).                                                  *)
(***************************************************************************)
EXTENDS Naturals

CONSTANTS
    Versions,   \* what the bytes of a file can be
    NoFile      \* a file that does not exist

ASSUME NoFileAssumption ==
    /\ NoFile \notin Versions
    /\ NoFile \notin [src : Versions \cup {NoFile}, hdr : Versions \cup {NoFile}]
    /\ NoFile \notin Nat
=============================================================================
