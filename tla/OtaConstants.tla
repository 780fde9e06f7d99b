---------------------------- MODULE OtaConstants ----------------------------
(* The constants of Ota and what is assumed of them. *)
EXTENDS Naturals

CONSTANTS
  Versions,   \* well-formed versions, as numbers in their order
  Dev,        \* a version that is not well-formed
  None,       \* no image, an empty URL
  MaxFails,   \* kMaxAutoOtaTrialCount
  MaxTrials,  \* kMaxFetchTrial
  Chunks,     \* how many reads an image takes
  Limit,      \* kWatchDogRebootMsec, in minutes
  MaxEvents

ASSUME VersionsAssumption ==
  Versions \subseteq Nat /\ Dev \notin Versions /\ None \notin Versions \cup {Dev}
ASSUME NumbersAssumption ==
  {MaxFails, MaxTrials, Chunks, Limit} \subseteq Nat \ {0} /\ MaxEvents \in Nat
=============================================================================
