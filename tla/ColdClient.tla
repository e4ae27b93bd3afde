------------------------------ MODULE ColdClient ------------------------------
(***************************************************************************)
(* What a user client promises about the memory it keeps pinned: at most   *)
(* one package, and a boot session only on top of that package.  A package *)
(* is never exchanged for another in one step, and a session never         *)
(* outlives, nor is ever built on, a package other than the one held.      *)
(***************************************************************************)
CONSTANTS Packages,  \* the packages a caller may pass
          None       \* no package

VARIABLES package,   \* the package that is completely staged, or None
          prepared   \* a cold session is ready

vars == <<package, prepared>>

Init == package = None /\ prepared = FALSE

\* A package is complete; nothing was held before.
Stage(p) ==
  /\ package = None
  /\ prepared = FALSE
  /\ package' = p
  /\ UNCHANGED prepared

\* A session is complete, on the package held.
Prepare ==
  /\ package # None
  /\ prepared = FALSE
  /\ prepared' = TRUE
  /\ UNCHANGED package

\* The session alone is given up, for a new one or a failed attempt at one.
ReleaseSession ==
  /\ prepared = TRUE
  /\ prepared' = FALSE
  /\ UNCHANGED package

\* Everything is given up: a new package, a rejected one, or the client stops.
ReleaseAll ==
  /\ package # None
  /\ package' = None
  /\ prepared' = FALSE

Next ==
  \/ \E p \in Packages : Stage(p)
  \/ Prepare
  \/ ReleaseSession
  \/ ReleaseAll

Spec == Init /\ [][Next]_vars
=============================================================================
