------------------------------- MODULE Aead -------------------------------
(***************************************************************************)
(* What authenticated encryption promises its users: whatever arrives, a   *)
(* message is released only if it was sealed under the same key, nonce and *)
(* associated data.  A packet that is refused changes nothing here.        *)
(***************************************************************************)
CONSTANT Message   \* what is sealed and released, with key, nonce and aad

VARIABLES sealed, released

Init == sealed = {} /\ released = {}

Seal ==
  /\ sealed \subseteq sealed'
  /\ sealed' \subseteq Message
  /\ UNCHANGED released

Release ==
  /\ released \subseteq released'
  /\ released' \subseteq sealed
  /\ UNCHANGED sealed

Spec == Init /\ [][Seal \/ Release]_<<sealed, released>>
=============================================================================
