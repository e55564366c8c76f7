-------------------------------- MODULE Hope ---------------------------------
(***************************************************************************)
(* The HOPE login (hope.h, hope.cpp): the lists of fields of its three     *)
(* stages, and what each side reads from the other's.  A digest is a       *)
(* constant run of bytes for each algorithm, text and session key.         *)
(***************************************************************************)
EXTENDS FieldList

CONSTANTS HmacSha1Name, HmacMd5Name, BlowfishName,  \* a length and as many characters
          FieldIdOf,         \* from the names of fields to their numbers
          HopeVersion,       \* 197 in the code
          MinSessionKeySize  \* kMinSessionKeySize, 32
FieldNames == {"UserLogin", "UserPassword", "SessionKey", "MacAlg", "ServerCipherAlg",
               "ClientCipherAlg", "Vers"}
ASSUME NamesAssumption ==
  /\ \A name \in {HmacSha1Name, HmacMd5Name, BlowfishName} : name \in Seq(Byte) /\ name # << >>
  /\ HmacSha1Name # HmacMd5Name
ASSUME FieldIdAssumption ==
  /\ FieldIdOf \in [FieldNames -> Word]
  /\ \A a, b \in FieldNames : FieldIdOf[a] = FieldIdOf[b] => a = b
ASSUME HopeVersionAssumption == HopeVersion \in Word
ASSUME MinSessionKeySizeAssumption == MinSessionKeySize \in Nat

MacAlgorithm == {"hmac_sha1", "hmac_md5"}

\* The server's encoder takes any session key; a client takes these.
SessionKeys == {key \in Seq(Byte) : Len(key) >= MinSessionKeySize}
HopeOffer == [session_key : SessionKeys, mac : MacAlgorithm]
HopeProof == [login : Seq(Byte), password : Seq(Byte)]

NameOf(algorithm) == IF algorithm = "hmac_sha1" THEN HmacSha1Name ELSE HmacMd5Name

Field(name, data) == [id |-> FieldIdOf[name], data |-> data]

(* find_field(): the first one in wire order; field_data(): no bytes if none. *)
FieldData(fields, name) ==
  LET those == {i \in 1..Len(fields) : fields[i].id = FieldIdOf[name]}
  IN  IF those = {} THEN << >> ELSE fields[Min(those)].data

(* The second entry that the count 2 announces is not sent. *)
Stage1Login ==
  << Field("UserLogin", <<0>>), Field("UserPassword", <<0>>),
     Field("MacAlg", U16(2) \o HmacSha1Name), Field("ClientCipherAlg", U16(1) \o BlowfishName) >>

Stage2Reply(session_key, algorithm) ==
  << Field("SessionKey", session_key), Field("MacAlg", U16(1) \o NameOf(algorithm)),
     Field("ServerCipherAlg", U16(1) \o BlowfishName) >>

Stage2Login(mac_login, mac_password, server_cipher) ==
  << Field("UserLogin", mac_login), Field("UserPassword", mac_password),
     Field("ClientCipherAlg", server_cipher), Field("Vers", IntegerData(HopeVersion)) >>

-----------------------------------------------------------------------------
\* Faulty: what is not HMAC-SHA1 is taken for HMAC-MD5.
ParseMacLoosely(field) ==
  IF Len(field) < 3 THEN Fail("malformed")
  ELSE IF Rest(field, 2) = HmacSha1Name THEN Good("hmac_sha1")
  ELSE Good("hmac_md5")

ParseMac(field) ==
  IF Len(field) < 3 THEN Fail("malformed")
  ELSE IF Rest(field, 2) = HmacSha1Name THEN Good("hmac_sha1")
  ELSE IF Rest(field, 2) = HmacMd5Name THEN Good("hmac_md5")
  ELSE Fail("unsupported_mac_algorithm")

ParseCipher(field) ==
  IF Len(field) < 3 THEN Fail("malformed")
  ELSE IF Rest(field, 2) = BlowfishName THEN Good("blowfish")
  ELSE Fail("unsupported_cipher_algorithm")

-----------------------------------------------------------------------------
(* What the client makes of the second stage, and the server of the third. *)
(* hope.h leaves both readers to the applications, which do not exist yet: *)
(* no function of hope.cpp is one.  They are put together here from what   *)
(* it has for them, find_field() and the comparison of names, and from     *)
(* what hope.h says a client rejects.                                      *)
EncodeOffer(offer) == EncodeFieldList(Stage2Reply(offer.session_key, offer.mac))

SessionKeyOf(fields) ==
  IF Len(FieldData(fields, "SessionKey")) < MinSessionKeySize THEN Fail("malformed")
  ELSE Good(FieldData(fields, "SessionKey"))

DecodeOffer(bytes) ==
  Then(DecodeFieldList(bytes), LAMBDA list :
  Then(SessionKeyOf(list.value), LAMBDA key :
  Then(ParseMac(FieldData(list.value, "MacAlg")), LAMBDA mac :
  Then(ParseCipher(FieldData(list.value, "ServerCipherAlg")), LAMBDA cipher :
    Good([session_key |-> key.value, mac |-> mac.value])))))

EncodeProof(proof) ==
  EncodeFieldList(Stage2Login(proof.login, proof.password, U16(1) \o BlowfishName))

DecodeProof(bytes) ==
  Then(DecodeFieldList(bytes), LAMBDA list :
  Then(ParseCipher(FieldData(list.value, "ClientCipherAlg")), LAMBDA cipher :
  Then(DecodeInteger(FieldData(list.value, "Vers")), LAMBDA version :
    IF version.value # HopeVersion THEN Fail("version")
    ELSE Good([login    |-> FieldData(list.value, "UserLogin"),
               password |-> FieldData(list.value, "UserPassword")]))))

(* auth.h: the plain login sends its texts with every bit inverted. *)
Scramble(text) == [i \in 1..Len(text) |-> MaxU8 - text[i]]
=============================================================================
