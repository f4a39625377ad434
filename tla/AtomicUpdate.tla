---------------------------- MODULE AtomicUpdate ----------------------------
(***************************************************************************)
(* What the update pipeline promises of the installed release, however     *)
(* often its many file operations are cut off: an installation is taken    *)
(* apart only for a request and an offer, and both stand until it is whole *)
(* again; an offer is used up only when it is what is installed; and an    *)
(* installation never changes under a process that serves.  An offer may   *)
(* be spoiled while a process serves: of what is made of it then, or of    *)
(* what waited for it, nothing is promised until the next one.             *)
(* RuntimeUpdate implements this specification.                            *)
(***************************************************************************)
CONSTANTS
  Releases,
  Initial,   \* the release of the first installation
  Nothing,   \* not a release
  Spoiled    \* half of one

VARIABLES
  installed, \* the release that all files and records are of, or Nothing
  recorded,  \* the release that was whole last, or Nothing if that record is lost
  offered,   \* the release that waits to be installed, half of one, or Nothing
  asked,     \* is its installation requested?
  serving    \* does a process serve?

vars == <<installed, recorded, offered, asked, serving>>

Init ==
  /\ installed = Initial /\ recorded = Initial
  /\ offered = Nothing /\ asked = FALSE /\ serving = FALSE

Offer(v) ==
  /\ serving
  /\ offered' = v
  /\ UNCHANGED <<installed, recorded, asked, serving>>

Spoil ==
  /\ serving
  /\ offered' \in {Spoiled, Nothing}
  /\ UNCHANGED <<installed, recorded, asked, serving>>

Ask ==
  /\ serving
  /\ asked' = TRUE
  /\ UNCHANGED <<installed, recorded, offered, serving>>

GoDown ==
  /\ serving
  /\ serving' = FALSE
  /\ UNCHANGED <<installed, recorded, offered, asked>>

ComeUp ==
  /\ ~serving
  /\ serving' = TRUE
  /\ UNCHANGED <<installed, recorded, offered, asked>>

(* The installation is taken apart, or gets no further; a process may come up on what is there. *)
Break ==
  /\ ~serving /\ asked /\ offered # Nothing
  /\ installed' = Nothing /\ recorded' \in {recorded, Nothing}
  /\ serving' \in BOOLEAN
  /\ UNCHANGED <<offered, asked>>

(* It becomes whole, as what was asked for or as what it was before. *)
Mend ==
  /\ ~serving /\ installed = Nothing
  /\ installed' \in ({recorded} \union IF asked THEN {offered} ELSE {}) \intersect Releases
  /\ recorded' = installed'
  /\ UNCHANGED <<offered, asked, serving>>

(* What half an offer leads to. *)
Wreck ==
  /\ ~serving /\ asked /\ offered = Spoiled
  /\ {installed', recorded'} \subseteq Releases \union {Nothing}
  /\ serving' \in BOOLEAN
  /\ UNCHANGED <<offered, asked>>

UseUp ==
  /\ ~serving /\ asked
  /\ offered \in {installed, Spoiled} /\ offered # Nothing
  /\ offered' = Nothing
  /\ UNCHANGED <<installed, recorded, asked, serving>>

Withdraw ==
  /\ ~serving /\ offered = Nothing
  /\ asked' = FALSE
  /\ serving' \in BOOLEAN
  /\ UNCHANGED <<installed, recorded, offered>>

Next ==
  \/ \E v \in Releases : Offer(v)
  \/ Spoil \/ Ask \/ GoDown \/ ComeUp \/ Break \/ Mend \/ Wreck \/ UseUp \/ Withdraw

Spec == Init /\ [][Next]_vars

=============================================================================
