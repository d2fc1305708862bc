--------------------------- MODULE BundleHandover ---------------------------
(***************************************************************************)
(* What a convergence layer promises BP about the bundles handed to one    *)
(* session: a bundle is let go by the sending node only after the          *)
(* receiving node has acquired it.  Acquiring it more than once is         *)
(* allowed - BP suppresses duplicates - losing it is not.                  *)
(***************************************************************************)
CONSTANT Bundles

VARIABLES acquired,   \* bundles the receiving node's BP has taken
          released    \* bundles the sending node's BP was told are sent

Init == acquired = {} /\ released = {}

Acquire(b) == acquired' = acquired \cup {b} /\ UNCHANGED released

Release(b) ==
    /\ b \in acquired
    /\ released' = released \cup {b}
    /\ UNCHANGED acquired

Next == \E b \in Bundles : Acquire(b) \/ Release(b)

Spec == Init /\ [][Next]_<<acquired, released>>
=============================================================================
