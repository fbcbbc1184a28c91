------------------------------ MODULE KeyVault ------------------------------
(* kdf.rs, keys.rs, secretbox.rs, the wrapping half of recovery.rs and       *)
(* parse_salt_from_key_hash.  Base64 text is what it decodes to: NotBase64   *)
(* is text that is none, Odd decodes to bytes of a wrong length.  Encryption *)
(* and derivation are ideal: a box opens under the key it was made with.     *)
EXTENDS RecoveryCode

CONSTANTS Passwords, Salts, NotBase64, Odd

SessionKeys == [password : Passwords, salt : Salts]

(* parse_salt_from_key_hash, on what stands between the '$' signs.           *)
ParseSalt(keyHash) == IF Len(keyHash) = 2 THEN Ok(keyHash[1]) ELSE Err("InvalidKeyHash")

(* Faulty variant: the salt is decoded and checked, and left out.            *)
DeriveSessionKeyUnsalted(password, salt) ==
  Ok([password |-> password, salt |-> CHOOSE s \in Salts : TRUE])

(* derive_session_key                                                        *)
DeriveSessionKey(password, salt) ==
  IF salt = NotBase64 THEN Err("Base64")
  ELSE IF salt = Odd THEN Err("InvalidLength")
  ELSE Ok([password |-> password, salt |-> salt])

(* nonce || ciphertext; the nonce is left out.                               *)
Box(key, plain) == [key |-> key, plain |-> plain]

(* encrypt_secretbox, encrypt_secretbox_string, encrypt_private_key and      *)
(* encrypt_private_key_for_recovery                                          *)
EncryptSecretbox(plain, key) ==
  IF key = NotBase64 THEN Err("Base64")
  ELSE IF key = Odd THEN Err("InvalidLength")
  ELSE Ok(Box(key, plain))

(* decrypt_secretbox; a box of less than 40 bytes is Odd.                    *)
DecryptSecretbox(box, key) ==
  IF box = NotBase64 \/ key = NotBase64 THEN Err("Base64")
  ELSE IF key = Odd THEN Err("InvalidLength")
  ELSE IF box = Odd THEN Err("TooShort")
  ELSE IF box.key # key THEN Err("Decryption")
  ELSE Ok(box.plain)

(* What the callers of these put together: the session key of a password and *)
(* a key hash; the private key that a wrapped one opens to under a password, *)
(* or under a typed recovery code; a private key wrapped under a new         *)
(* password, or for a new code.  Each stops at its first error.              *)
SessionKeyOf(keyHash, password) ==
  LET salt == ParseSalt(keyHash)
  IN  IF Answered(salt) THEN DeriveSessionKey(password, salt.val[1]) ELSE salt

UnwrapWithPassword(keyHash, wrapped, password) ==
  LET key == SessionKeyOf(keyHash, password)
  IN  IF Answered(key) THEN DecryptSecretbox(wrapped, key.val[1]) ELSE key

UnwrapWithCode(backup, spelling) ==
  LET secret == RecoveryKeyToSecret(spelling)
  IN  IF Answered(secret) THEN DecryptSecretbox(backup, secret.val[1]) ELSE secret

KeyHash(salt) == <<salt, "argon2id">>

WrapWithPassword(private, password, salt) ==
  LET key == DeriveSessionKey(password, salt)
      wrapped == EncryptSecretbox(private, key.val[1])
  IN  IF ~Answered(key) THEN key
      ELSE IF ~Answered(wrapped) THEN wrapped
      ELSE Ok([keyHash |-> KeyHash(salt), wrapped |-> wrapped.val[1]])

WrapForRecovery(private, drawn) ==
  LET rk == GenerateRecoveryKey(drawn)
      backup == EncryptSecretbox(private, rk.secret.val[1])
  IN  IF ~Answered(rk.secret) THEN rk.secret
      ELSE IF ~Answered(backup) THEN backup
      ELSE Ok([code |-> rk.code, backup |-> backup.val[1]])
=============================================================================
