---------------------------- MODULE PackageKeys ----------------------------
(***************************************************************************)
(* What opens a .tracer file.  Its key is derived from a passphrase and the *)
(* salt in its header, slowly; the files of one batch share a salt and a    *)
(* master key and have keys derived from that and their nonce, so that a    *)
(* batch pays for one derivation when it is written and for one when it is  *)
(* read.  Two derivations agree only when everything they start from does.  *)
(***************************************************************************)
EXTENDS Naturals

\* DeriveMasterKeyWithArgon2id and DeriveSubkeyFromBatchMaster.
MasterKey(pass, salt) == [pass |-> pass, salt |-> salt]
Subkey(master, nonce) == [master |-> master, nonce |-> nonce]

\* EncryptBytesInternal: BuildDefaultHeaderV2 and the ciphertext; in a batch
\* the salt is the session's.
Sealed(pass, salt, nonce, content) ==
    [version |-> 2, kdf |-> "argon2id", salt |-> salt, nonce |-> nonce,
     key |-> MasterKey(pass, salt), content |-> content]
SealedInBatch(master, salt, nonce, content) ==
    [version |-> 2, kdf |-> "batch", salt |-> salt, nonce |-> nonce,
     key |-> Subkey(master, nonce), content |-> content]

\* The first format has neither batches nor compression.
SealedV1(pass, salt, nonce, content) ==
    [Sealed(pass, salt, nonce, content) EXCEPT !.version = 1]

\* No file, what a failed write left of one, and ParseHeader, which passes
\* neither.
NoTracer == [kdf |-> "none"]
TornTracer == [kdf |-> "torn"]
Readable(file) == file.kdf \in {"argon2id", "batch"}

\* Whose passphrase a file was sealed with, and that it was sealed as above.
SealedFor(file) == IF file.kdf = "batch" THEN file.key.master.pass ELSE file.key.pass
WellSealed(file) ==
    LET master == MasterKey(SealedFor(file), file.salt)
    IN  file.key = IF file.kdf = "batch" THEN Subkey(master, file.nonce) ELSE master

(***************************************************************************)
(* The session of a batch that is read: the master keys it has derived, by  *)
(* salt.                                                                   *)
(***************************************************************************)
NoKeys == [salt \in {} |-> salt]

\* FindCachedMasterKey, or the derivation.
\* Mutant: any cached key will do.
FoundMasterKeyAny(keys, pass, salt) ==
    IF DOMAIN keys = {} THEN MasterKey(pass, salt)
    ELSE keys[CHOOSE s \in DOMAIN keys : TRUE]
FoundMasterKey(keys, pass, salt) ==
    IF salt \in DOMAIN keys THEN keys[salt] ELSE MasterKey(pass, salt)

\* GetOrDeriveMasterKeyForHeader and CacheMasterKey, for the header of a batch.
WithMasterKey(keys, pass, file) ==
    IF file.kdf = "batch"
    THEN [s \in DOMAIN keys \cup {file.salt} |->
             IF s = file.salt THEN FoundMasterKey(keys, pass, file.salt) ELSE keys[s]]
    ELSE keys

\* DeriveDecryptKey, with the keys the session had.
DerivedKey(keys, pass, file) ==
    IF file.kdf = "batch" THEN Subkey(FoundMasterKey(keys, pass, file.salt), file.nonce)
    ELSE MasterKey(pass, file.salt)

\* DecryptCiphertext: the tag of the ciphertext tells a wrong key.
Opens(keys, pass, file) == DerivedKey(keys, pass, file) = file.key
=============================================================================
