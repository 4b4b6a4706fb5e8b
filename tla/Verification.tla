---------------------------- MODULE Verification ----------------------------
(***************************************************************************)
(* Block verification (verify.ts): the backend that is looked up in two    *)
(* places and kept once it is found, and the comparison of a source's      *)
(* claims about a block with what its proof attests.                       *)
(***************************************************************************)
EXTENDS Naturals, Sequences

VARIABLES installed, \* the package that each place holds
          backend,   \* the place the backend was loaded from, "none" before
          verdict    \* what the last check came to

vars == <<installed, backend, verdict>>

\* This module's location, then the working directory.
bases == <<"module", "cwd">>
Places == {"module", "cwd"}

\* Node remembers a module that loads, so one without the function stays.
Packages == {"none", "broken", "foreign", "usable"}

Networks == {"devnet", "mainnet"}

\* A precomputed block; only a genuine one has a proof.
Blocks == [genuine : BOOLEAN, network : Networks]

\* What the proof of the block in question attests.
facts == [height |-> "1", stateHash |-> "'x'", previousStateHash |-> "'x'",
          stagedLedgerHash |-> "'x'"]

NoVerdict == [kind |-> "none"]

-----------------------------------------------------------------------------
\* A plausible slip: the search ends at the first place that fails.
FirstPlaceOnly(places) ==
  IF backend # "none" THEN backend
  ELSE IF installed[bases[1]] = "usable" THEN bases[1] ELSE "none"

loadBackend(places) ==
  LET usable == {i \in DOMAIN places : installed[places[i]] = "usable"}
  IN IF backend # "none" THEN backend
     ELSE IF usable = {} THEN "none"
     ELSE places[CHOOSE i \in usable : \A j \in usable : i <= j]

\* The wasm rejects by throwing what has no proof under the network's key.
verifyPrecomputed(block, network) ==
  block.genuine /\ block.network = (IF network = "undefined" THEN "devnet" ELSE network)

\* The fields whose claim differs; one that is undefined claims nothing.
mismatches(claimed) ==
  {f \in DOMAIN claimed : claimed[f] # "undefined" /\ claimed[f] # facts[f]}

compareToClaims(claimed) ==
  [kind |-> "judged", honest |-> mismatches(claimed) = {}, mismatches |-> mismatches(claimed)]

checkBlockClaims(block, claimed, network) ==
  /\ verdict = NoVerdict
  /\ backend' = loadBackend(bases)
  /\ verdict' = IF backend' = "none" THEN [kind |-> "VerificationBackendError"]
                ELSE IF ~verifyPrecomputed(block, network) THEN [kind |-> "VerificationError"]
                ELSE compareToClaims(claimed)
  /\ UNCHANGED installed

\* The environment installs the package, or repairs it.
Install(place, package) ==
  /\ installed[place] \in {"none", "broken"}
  /\ installed[place] # package /\ package # "none"
  /\ installed' = [installed EXCEPT ![place] = package]
  /\ UNCHANGED <<backend, verdict>>

\* The caller has read the verdict and may check again.
Heard == verdict # NoVerdict /\ verdict' = NoVerdict /\ UNCHANGED <<installed, backend>>

Init == installed = [p \in Places |-> "none"] /\ backend = "none" /\ verdict = NoVerdict
=============================================================================
