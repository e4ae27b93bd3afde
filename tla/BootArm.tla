------------------------------ MODULE BootArm -------------------------------
(***************************************************************************)
(* The arming contract (boot_arm.cpp): a challenge is derived from the     *)
(* facts of the cold session and a nonce, an operator answers it, and a    *)
(* request to boot is checked against the facts as they are by then.  The  *)
(* two functions keep no state; the caller, which the user client does not *)
(* have yet, holds the context, the nonce and the answer, and anything may *)
(* happen to the session between the answer and the request.               *)
(*                                                                         *)
(* A digest is the tuple of the fields it is taken over: SHA-256 is taken  *)
(* for injective, and fields have fixed widths.                            *)
(***************************************************************************)
EXTENDS Integers, Sequences

CONSTANTS PageBytes,    \* kPageBytes
          PhaseCount,   \* kGa102BootPhaseCount
          Digests,      \* package digests, 0 for none
          Identities,   \* PCI identities, 0 for none
          Addresses,    \* boundaries and DMA addresses
          Nonces,       \* nonces, 0 for none
          MaxChanges    \* bound: changes of the session

ASSUME ArmAssumption ==
  /\ {PageBytes, PhaseCount} \subseteq Nat \ {0} /\ MaxChanges \in Nat
  /\ \A s \in {Digests, Identities, Addresses, Nonces} : s \subseteq Nat /\ 0 \in s

VARIABLES context,  \* BootArmContext of the session as it is
          nonce,    \* nonce of the attempt
          answer,   \* challenge the operator answered, none or one
          report,   \* BootArmReport of the last request, none or one
          changes   \* changes so far

armVars == << context, nonce, answer, report, changes >>

kBootArmContractVersion == 1

\* BootArmContext and the values its fields may have.
Values ==
  [version |-> {1, 2}, packageDigest |-> Digests, stagedPackageDigest |-> Digests,
   livePciIdentity |-> Identities, packagePciIdentity |-> Identities,
   effectiveBoundary |-> Addresses, queueBacking |-> Addresses,
   radix3FirmwareRoot |-> Addresses, bootPhaseCount |-> {PhaseCount - 1, PhaseCount},
   liveBoundaryBound |-> BOOLEAN, bootSessionReady |-> BOOLEAN,
   sequencePolicyValid |-> BOOLEAN, recoveryPolicyValid |-> BOOLEAN]

PageAddress(a) == a # 0 /\ a % PageBytes = 0

\* What CheckContext looks for, in its order.
ContextFaults(c) ==
  << << "UnsupportedVersion", c.version # kBootArmContractVersion >>,
     << "PackageDigestMissing", 0 \in {c.packageDigest, c.stagedPackageDigest} >>,
     << "PackageDigestMismatch", c.packageDigest # c.stagedPackageDigest >>,
     << "PciIdentityMissing", 0 \in {c.livePciIdentity, c.packagePciIdentity} >>,
     << "PciIdentityMismatch", c.livePciIdentity # c.packagePciIdentity >>,
     << "LiveBoundaryNotBound", ~c.liveBoundaryBound \/ ~PageAddress(c.effectiveBoundary) >>,
     << "BootSessionNotReady", ~c.bootSessionReady >>,
     << "AddressGraphInvalid",
        ~PageAddress(c.queueBacking) \/ ~PageAddress(c.radix3FirmwareRoot) >>,
     << "WrongBootPhaseCount", c.bootPhaseCount # PhaseCount >>,
     << "SequencePolicyRejected", ~c.sequencePolicyValid >>,
     << "RecoveryPolicyRejected", ~c.recoveryPolicyValid >> >>

\* The first fault of a list that is there.
FirstFault(faults) ==
  LET found == {i \in DOMAIN faults : faults[i][2]}
  IN  IF found = {} THEN "None"
      ELSE faults[CHOOSE i \in found : \A j \in found : i <= j][1]

CheckContext(c) == FirstFault(ContextFaults(c))

\* Mutant: the root of the firmware is not part of the challenge.
SerializedWithoutRoot(c, n) ==
  << c.version, c.packageDigest, c.livePciIdentity, c.packagePciIdentity,
     c.effectiveBoundary, c.queueBacking, c.bootPhaseCount, n >>

\* The bytes BuildBootArmChallenge hashes.  The staged digest and the proofs
\* are not among them: in a context that passed they have one value.
Serialized(c, n) ==
  << c.version, c.packageDigest, c.livePciIdentity, c.packagePciIdentity,
     c.effectiveBoundary, c.queueBacking, c.radix3FirmwareRoot, c.bootPhaseCount, n >>

\* BuildBootArmChallenge; the digest of a refused one is all zero.
BuildBootArmChallenge(c, n) ==
  LET checked == CheckContext(c)
      failure == FirstFault(<< << checked, checked # "None" >>, << "NonceMissing", n = 0 >> >>)
      valid   == failure = "None"
  IN  [valid |-> valid, failure |-> failure,
       digest |-> IF valid THEN Serialized(c, n) ELSE << >>]

\* CheckBootArmRequest.
CheckBootArmRequest(request) ==
  LET expected == BuildBootArmChallenge(request.context, request.nonce)
      failure  == FirstFault(
        << << expected.failure, ~expected.valid >>,
           << "ExperimentalWritesNotRequested", ~request.enableExperimentalWrites >>,
           << "ConfirmationMismatch", ~request.confirmation >>,
           << "ChallengeMismatch", request.challengeResponse # expected.digest >> >>)
  IN  [accepted |-> failure = "None", failure |-> failure]

-----------------------------------------------------------------------------
(* The session, the operator and the caller *)

\* A session that is ready to boot.
ArmInit ==
  /\ context \in
       {[version |-> kBootArmContractVersion, packageDigest |-> d, stagedPackageDigest |-> d,
         livePciIdentity |-> id, packagePciIdentity |-> id, effectiveBoundary |-> b,
         queueBacking |-> b, radix3FirmwareRoot |-> b, bootPhaseCount |-> PhaseCount,
         liveBoundaryBound |-> TRUE, bootSessionReady |-> TRUE,
         sequencePolicyValid |-> TRUE, recoveryPolicyValid |-> TRUE] :
           d \in Digests \ {0}, id \in Identities \ {0},
           b \in {a \in Addresses : PageAddress(a)}}
  /\ nonce \in Nonces
  /\ answer = {} /\ report = {} /\ changes = 0

\* A package is staged, a session prepared or released, the GPU exchanged ...
ChangeSession ==
  /\ changes < MaxChanges
  /\ \E f \in DOMAIN Values : \E v \in Values[f] :
       v # context[f] /\ context' = [context EXCEPT ![f] = v]
  /\ changes' = changes + 1 /\ report' = {}
  /\ UNCHANGED << nonce, answer >>

\* ... or another attempt begun.
NewNonce ==
  /\ changes < MaxChanges
  /\ nonce' \in Nonces \ {nonce}
  /\ changes' = changes + 1 /\ report' = {}
  /\ UNCHANGED << context, answer >>

\* The operator is shown the challenge and answers it.
AnswerChallenge ==
  LET challenge == BuildBootArmChallenge(context, nonce)
  IN  /\ challenge.valid
      /\ answer' = {[context |-> context, nonce |-> nonce, digest |-> challenge.digest]}
      /\ report' = {}
      /\ UNCHANGED << context, nonce, changes >>

\* A boot is requested with that answer, or with none.
RequestBoot ==
  \E writes, confirmed \in BOOLEAN,
     response \in {a.digest : a \in answer} \cup {<< >>} :
    /\ report' = {[writes |-> writes, confirmed |-> confirmed, answered |-> response # << >>,
                   result |-> CheckBootArmRequest(
                     [context |-> context, nonce |-> nonce, challengeResponse |-> response,
                      confirmation |-> confirmed, enableExperimentalWrites |-> writes])]}
    /\ UNCHANGED << context, nonce, answer, changes >>

ArmNext == ChangeSession \/ NewNonce \/ AnswerChallenge \/ RequestBoot

ArmSpec == ArmInit /\ [][ArmNext]_armVars

-----------------------------------------------------------------------------
(* Properties *)

\* A request is accepted exactly when it has both consents and the operator's
\* answer was given for this nonce and for this very context, in every field a
\* boot would use: an answer does not survive a change of the package, the
\* GPU, the boundary, an address or a proof, and nothing else makes it fail.
\* (CheckBootArmRequest keeps no record of nonces: the same answer arms again.)
ArmedExactlyWhenAnswered ==
  \A r \in report :
    r.result.accepted <=>
      /\ r.writes /\ r.confirmed /\ r.answered
      /\ \E a \in answer : a.context = context /\ a.nonce = nonce

=============================================================================
