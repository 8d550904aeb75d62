--------------------------- MODULE FederationProof ---------------------------
(***************************************************************************)
(* What the validators sign and how the program counts their signatures:   *)
(* the canonical messages of shared/src/claim.rs and                       *)
(* shared/src/governance.rs, the validator-set rules of validation.rs and  *)
(* the ed25519-precompile check of verification.rs.                        *)
(*                                                                         *)
(* A message is a record.  Its `type' stands for the domain tag and the    *)
(* action byte, so records of different types are different messages, as   *)
(* their byte layouts are.  The protocol version and the program id are    *)
(* the same in every message of one deployment and are left out; so is     *)
(* the SHA-256 of the parameters, taken to be injective.                   *)
(***************************************************************************)
EXTENDS Integers, Sequences, FiniteSets

CONSTANTS
    Keys,           \* public keys, the default (all-zero) one included
    DefaultKey,     \* Pubkey::default()
    MaxValidators   \* MAX_VALIDATORS, 16 in the program

ASSUME KeysAssumption ==
    /\ DefaultKey \in Keys
    /\ IsFiniteSet(Keys)
    /\ MaxValidators \in Nat \ {0}

-----------------------------------------------------------------------------
(* The validators of a set, whatever their order. *)
Members(validators) == {validators[i] : i \in DOMAIN validators}

(* A non-empty list of at most MaxValidators distinct usable keys, with a  *)
(* threshold it can reach.                                                 *)
validate_validator_set(validators, threshold) ==
    /\ validators # <<>>
    /\ Len(validators) <= MaxValidators
    /\ 1 <= threshold /\ threshold <= Len(validators)
    /\ \A i \in DOMAIN validators : validators[i] # DefaultKey
    /\ \A i, j \in DOMAIN validators : i < j => validators[i] # validators[j]

-----------------------------------------------------------------------------
(* The canonical messages.  Every one of them names the epoch.             *)

deposit_claim_message(epoch, outpoint, amount, recipient) ==
    [type |-> "deposit", epoch |-> epoch, outpoint |-> outpoint,
     amount |-> amount, recipient |-> recipient]

withdrawal_completion_message(epoch, index, txid, height, amount, dest) ==
    [type |-> "completion", epoch |-> epoch, index |-> index, txid |-> txid,
     height |-> height, amount |-> amount, dest |-> dest]

(* governance_message over rotation_params. *)
rotation_message(epoch, threshold, validators) ==
    [type |-> "rotation", epoch |-> epoch, threshold |-> threshold,
     validators |-> validators]

(* governance_message over tvl_raise_params. *)
raise_message(epoch, newMax) ==
    [type |-> "raise", epoch |-> epoch, newMax |-> newMax]

(* governance_message over cancel_params: the kind of the pending action   *)
(* and its execution time.                                                 *)
cancel_message(epoch, action, eta) ==
    [type |-> "cancel", epoch |-> epoch, action |-> action, eta |-> eta]

-----------------------------------------------------------------------------
(* A proof is the list of entries of the ed25519 precompile instruction    *)
(* that precedes the program's own: each names a signer and the message    *)
(* it signed, and the runtime has verified each signature.                 *)
Entries(signatures, maxLen) == UNION {[1..n -> signatures] : n \in 1..maxLen}

(* Mutant: a signer may appear in several entries. *)
EntriesAccepted_repeats(entries, message, validators) ==
    /\ Len(entries) >= 1
    /\ \A i \in DOMAIN entries :
          /\ entries[i].message = message
          /\ entries[i].key \in Members(validators)

(* Every entry must carry exactly the expected message, be by a current    *)
(* validator, and not repeat a signer: any entry that does not is an       *)
(* error, never merely ignored.                                            *)
EntriesAccepted(entries, message, validators) ==
    /\ Len(entries) >= 1
    /\ \A i \in DOMAIN entries :
          /\ entries[i].message = message
          /\ entries[i].key \in Members(validators)
          /\ \A j \in DOMAIN entries : i # j => entries[i].key # entries[j].key

(* Mutant: the comparison with the threshold is off by one. *)
require_federation_approval_short(entries, message, set) ==
    /\ EntriesAccepted(entries, message, set.validators)
    /\ Len(entries) + 1 >= set.threshold

(* count_unique_validator_signers followed by the threshold comparison.    *)
(* Accepted entries have distinct signers, so their number is the count.   *)
require_federation_approval(entries, message, set) ==
    /\ EntriesAccepted(entries, message, set.validators)
    /\ Len(entries) >= set.threshold

-----------------------------------------------------------------------------
(* What an approval is supposed to mean: at least `threshold' different    *)
(* members of the set signed this very message.  The specification the     *)
(* properties use, stated without reference to entry lists.                *)
ApprovedBy(set, message, signatures) ==
    Cardinality({k \in Members(set.validators) :
                    [key |-> k, message |-> message] \in signatures})
        >= set.threshold
=============================================================================
