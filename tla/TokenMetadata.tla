---------------------------- MODULE TokenMetadata ----------------------------
(***************************************************************************)
(* What wallets display for the wrapped token: the program's two metadata  *)
(* instructions (instructions/token_metadata.rs), composed with the rest   *)
(* of the program, and the two glc-admin commands that send them.          *)
(*                                                                         *)
(* A command reads the metadata, decides and sends; its transaction lands  *)
(* later or never, when the metadata, or the admin, may be another.  The   *)
(* verdict a command prints after reading back changes nothing and is left *)
(* out.  Of the three strings, name and symbol behave alike: one is kept.  *)
(***************************************************************************)
EXTENDS BridgeProgram

CONSTANTS
    Names, Uris,        \* what an operator may ask for
    CanonicalName,      \* WRAPPED_GLC_NAME
    OverLong,           \* texts beyond MAX_NAME_LEN, MAX_URI_LEN, or an empty name
    MaxWrites           \* bound: metadata transactions sent and not yet decided

ASSUME MetadataAssumption ==
    CanonicalName \in Names \ OverLong /\ MaxWrites \in Nat

VARIABLES
    metadata,           \* the Metaplex account of the wrapped mint
    writes              \* metadata transactions in flight

metadataVars == <<metadata, writes>>

NoMetadata == [exists |-> FALSE, name |-> None, uri |-> None]
Shown(name, uri) == [exists |-> TRUE, name |-> name, uri |-> uri]

(* Anchor's account constraints: the admin of the moment, a mint that exists. *)
MayWrite(caller) ==
    config.initialized /\ config.admin = caller /\ config.has_mint

-----------------------------------------------------------------------------
(* The program.                                                            *)

(* Mutant: created over what is already there. *)
create_token_metadata_again(w) ==
    /\ w.ix = "create"
    /\ MayWrite(w.by)
    /\ w.uri \notin OverLong
    /\ metadata' = Shown(CanonicalName, w.uri)

(* Created with the fixed name, or left exactly as it is. *)
create_token_metadata(w) ==
    /\ w.ix = "create"
    /\ MayWrite(w.by)
    /\ w.uri \notin OverLong
    /\ metadata' = IF metadata.exists THEN metadata ELSE Shown(CanonicalName, w.uri)

(* Only what exists is updated; equal values write nothing. *)
update_token_metadata(w) ==
    /\ w.ix = "update"
    /\ MayWrite(w.by)
    /\ {w.name, w.uri} \cap OverLong = {}
    /\ metadata.exists
    /\ metadata' = Shown(w.name, w.uri)

-----------------------------------------------------------------------------
(* The commands.  send_transaction's preflight runs the instruction once   *)
(* and sends nothing that fails.                                           *)

Send(w) ==
    /\ Cardinality(writes) < MaxWrites
    /\ MayWrite(w.by) /\ {w.name, w.uri} \cap OverLong = {}
    /\ writes' = writes \cup {w}
    /\ UNCHANGED metadata

(* `token-metadata': creates what does not exist. *)
token_metadata(caller, uri) ==
    /\ ~metadata.exists
    /\ Send([ix |-> "create", by |-> caller, name |-> CanonicalName, uri |-> uri])

(* `update-token-metadata': an omitted value is the one that was read, so  *)
(* a change of the other one carries it along.                             *)
update_command(caller, name, uri) ==
    /\ metadata.exists
    /\ Shown(name, uri) # metadata
    /\ Send([ix |-> "update", by |-> caller, name |-> name, uri |-> uri])

Lands(w) ==
    /\ create_token_metadata(w) \/ update_token_metadata(w)
    /\ writes' = writes \ {w}

(* Refused when it is executed, or never executed. *)
Expires(w) == writes' = writes \ {w} /\ UNCHANGED metadata

MetadataStep ==
    \/ \E a \in Admins, u \in Uris : token_metadata(a, u)
    \/ \E a \in Admins, n \in Names, u \in Uris : update_command(a, n, u)
    \/ \E w \in writes : Lands(w) \/ Expires(w)

MetadataInit == Init /\ metadata = NoMetadata /\ writes = {}

MetadataNext ==
    \/ Next /\ UNCHANGED metadataVars
    \/ MetadataStep /\ UNCHANGED vars

MetadataSpec == MetadataInit /\ [][MetadataNext]_<<vars, metadata, writes>>

-----------------------------------------------------------------------------
(* token_metadata.rs: an existing account "is left alone" by a second      *)
(* creation, and only the admin of the moment changes what wallets show.   *)
(* A creation sent before the account existed, or any transaction of an    *)
(* admin who has handed over meanwhile, never undoes a name given since.   *)
(* An update the admin of the moment sent earlier may: it restates every   *)
(* value the command read, also the ones it was not asked to change.       *)
RenamesAreTheAdmins ==
    [][metadata.exists /\ metadata' # metadata =>
         \E w \in writes \ writes' :
            /\ w.ix = "update" /\ w.by = config.admin
            /\ metadata' = Shown(w.name, w.uri)]_<<vars, metadata, writes>>
=============================================================================
