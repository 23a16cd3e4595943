-------------------------------- MODULE Keys --------------------------------
(***************************************************************************)
(* Which keys the options of a command give, and which containers they      *)
(* open (lib/utils.go, cmd/options.go, container/container.go).  A key is   *)
(* one half of a pair.  The options KeyFile and Key of a source are to give *)
(* a public key, those of a destination a private one.                      *)
(***************************************************************************)
CONSTANTS
    KeyPairs,
    NoKey       \* an option that is not given

Private(k) == [pair |-> k, private |-> TRUE]

Public(k) == [pair |-> k, private |-> FALSE]

Key == [pair : KeyPairs, private : BOOLEAN]

ASSUME KeysAssumption == NoKey \notin Key

KeyOptions ==
    [noEncryption : BOOLEAN, keyFile : Key \cup {NoKey}, key : Key \cup {NoKey}]

Given(o) == {o.keyFile, o.key} \ {NoKey}

(* Both is an error, and in neither there is no key to be found.            *)
OneGiven(o) == (o.keyFile = NoKey) # (o.key = NoKey)

(* WithIdentities and LoadIdentities: the text is to be a private key.      *)
IdentitiesLoad(o) ==
    o.noEncryption \/ (OneGiven(o) /\ \A key \in Given(o) : key.private)

(* WithRecipients and LoadRecipients: the text is to be a public key.  No   *)
(* public key is derived from a private one, which is an error.             *)
RecipientsLoad(o) ==
    o.noEncryption \/ (OneGiven(o) /\ \A key \in Given(o) : ~key.private)

(* Mutant: NoEncryption is only looked at when backups are made.            *)
IdentitiesAnyway(o) == {key.pair : key \in Given(o)}

Identities(o) == IF o.noEncryption THEN {} ELSE {key.pair : key \in Given(o)}

(* Who NewWriter encrypts for: nobody for a plain container.                *)
Recipients(o) == IF o.noEncryption THEN {} ELSE {key.pair : key \in Given(o)}

(* Unseal: without identities only a plain container is accepted, with them *)
(* only one that is encrypted for one of them.                              *)
Unseals(recipients, identities) ==
    IF identities = {} THEN recipients = {} ELSE recipients \cap identities # {}
=============================================================================
