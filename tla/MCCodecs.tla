------------------------------ MODULE MCCodecs -------------------------------
(* Codecs with bytes of eight values, so that a length of one byte ends at *)
(* 7, one of two bytes at 63: each sample is small, at a limit, or one     *)
(* beyond it.                                                              *)
EXTENDS Codecs

FLATFILE == <<7, 0, 0, 1>>
RESUME   == <<7, 0, 0, 2>>
IVA1     == <<7, 0, 0, 6>>
RAW      == 1
ZLIB     == 5
DATA     == <<7, 0, 0, 3>>
HARC     == <<7, 0, 0, 5>>
HTRK     == <<7, 0, 0, 4>>

Text(n)  == [i \in 1..n |-> i % Base]

Sampled(k, values) == {<<k, v>> : v \in values}

FieldLists ==
  LET field(id, n) == [id |-> id, data |-> Text(n)]
  IN  {<< >>, << field(1, 0) >>, << field(9, 2), field(9, 1) >>, << field(63, 63) >>,
       << field(1, 64) >>, [i \in 1..63 |-> field(i, 0)], [i \in 1..64 |-> field(1, 0)]}

Integers32 == {-2048, -2047, -64, -1, 0, 1, 7, 8, 63, 64, 2047}

Files ==
  {[type |-> 1, creator |-> 4095, file_size |-> 65, name_script |-> 3, name |-> Text(n)] :
     n \in {0, 2, 63, 64}}

Users ==
  {[id |-> 5, icon_id |-> icon, flags |-> 2, name |-> Text(n)] :
     icon \in {-32, -1, 31}, n \in {0, 63, 64}}

FlatFiles ==
  LET fork(n) == [type |-> 9, compression |-> 1, data |-> Text(n)]
  IN  {[version |-> 1, forks |-> f] :
         f \in {<< >>, << fork(0) >>, << fork(3), fork(1) >>, << fork(64) >>}}

InfoForks ==
  LET date == [year |-> 3, msecs |-> 1, seconds |-> 4095]
  IN  {[platform |-> 1, type_sig |-> 2, creator_sig |-> 3, flags |-> 4, platform_flags |-> 5,
        reserved |-> Text(32), create_date |-> date, modify_date |-> [date EXCEPT !.year = 4],
        name_script |-> 6, name |-> Text(n), comment |-> Text(c)] :
          n \in {0, 2}, c \in {0, 3, 64}}

Resumes ==
  LET entry(f, n) == [fork |-> Number(f), data_size |-> n]
  IN  {[version |-> 1, entries |-> e] :
         e \in {<< >>, << entry(DATA, 4095) >>, << entry(DATA, 3), entry(RESUME, 1) >>}}

FolderItems ==
  LET name(n) == [script |-> 1, name |-> Text(n)]
  IN  {[folder |-> n = 0, path |-> [i \in 1..n |-> name(2 * i)]] : n \in 0..3}
        \cup {[folder |-> TRUE, path |-> << name(8) >>],
              [folder |-> TRUE, path |-> [i \in 1..6 |-> name(7)]]}

Registrations ==
  {[type |-> 1, port |-> 55, user_count |-> 2, flags |-> 1, pass_id |-> 100,
    texts |-> << Text(n), Text(2), Text(p) >>] : n \in {0, 7, 8}, p \in {0, 1, 8}}

Handshakes ==
  {[version |-> v, login |-> Text(n), password |-> Text(p)] :
     v \in {1, 2}, n \in {0, 3, 4}, p \in {0, 2, 5}}

Server(n, d) ==
  [address |-> <<1, 2, 3, 4>>, port |-> 55, user_count |-> 9, flags |-> 0,
   texts |-> << Text(n), Text(d) >>]

ServerLists ==
  {[total_count |-> 8, servers |-> s] :
     s \in {<< >>, << Server(1, 2) >>, << Server(0, 7), Server(7, 0) >>, << Server(8, 0) >>,
            [i \in 1..4 |-> Server(i, i % 2)], [i \in 1..4 |-> Server(i, IF i = 1 THEN 1 ELSE 0)], [i \in 1..5 |-> Server(0, 0)]}}

Lookups == {<< >>, << Server(0, 0) >>, << Server(7, 7) >>, << Server(0, 8) >>}

Archives ==
  LET name(n) == [script |-> 1, name |-> Text(n)]
      entry(n, r, p) == [type |-> 9, path |-> [i \in 1..n |-> name(i)], reserved |-> Text(r),
                         compression_type |-> IF n = 2 THEN ZLIB ELSE RAW, decompressed_size |-> p,
                         payload |-> Text(p)]
  IN  {[archive_size |-> 100, archive_name |-> Text(3), file_auto_launch |-> 1,
        reserved3 |-> Text(r), entries |-> e] :
          r \in {0, 2}, e \in {<< >>, << entry(2, 1, 3) >>, << entry(0, 0, 0), entry(1, 0, 1) >>}}

(* With bytes of four values a fork of 256 bytes is one too large. *)
LargeForks ==
  Sampled("flat", {[version |-> 1, forks |-> << [type |-> 1, compression |-> 0, data |-> Zeros(n)] >>] :
                     n \in {0, 255, 256}})
BinaryTag == <<1, 0, 1, 1>>
BinaryText == <<1, 0, 1>>

Hellos    == {[protocol |-> 1000, sub_protocol |-> 2000, version |-> 1, sub_version |-> 2]}
Greetings == {[protocol |-> 1000, error |-> e] : e \in {0, 1}}
Headers   == {[flag |-> 7, is_reply |-> 1, type |-> 60, id |-> 4095, error |-> 1,
               total_size |-> 9, data_size |-> 3]}
Transactions == {[header |-> [h EXCEPT !.data_size = n], data |-> Text(n)] : h \in Headers, n \in {0, 3, 64}}
Stamps    == {[year |-> 3, msecs |-> 63, seconds |-> 4095]}
Guids     == {[time_low |-> 4000, time_mid |-> 50, time_hi_and_version |-> 7,
               clock_seq_hi_and_reserved |-> 6, clock_seq_low |-> 5, node |-> Text(6)]}
Masks     == {<< >>, << <<0, TRUE>>, <<23, TRUE>> >>, << <<2, TRUE>>, <<3, TRUE>>, <<2, FALSE>> >>,
              [i \in 1..24 |-> <<i - 1, i % 2 = 0>>], << <<11, TRUE>>, <<11, TRUE>>, <<4, FALSE>> >>}
Ivars ==
  LET item(id, n) == [id |-> id, data |-> Text(n)]
  IN  {[text_encoding |-> 1, items |-> i] :
         i \in {<< >>, << item(1, 0) >>, << item(5, 2), item(5, 1) >>, << item(1, 1), item(2, 0), item(3, 2) >>}}

FieldNumbers ==
  [UserLogin |-> 1, UserPassword |-> 2, SessionKey |-> 3, MacAlg |-> 4, ServerCipherAlg |-> 5,
   ClientCipherAlg |-> 6, Vers |-> 7]
Sha1Name == <<4, 1, 2, 3, 4>>
Md5Name  == <<3, 1, 2, 5>>
Blowfish == <<3, 6, 7, 6>>
Offers == {[session_key |-> Text(n), mac |-> a] : n \in {4, 62, 64}, a \in {"hmac_sha1", "hmac_md5"}}
Proofs == {[login |-> Text(n), password |-> Text(p)] : n \in {4, 5}, p \in {4, 5}}

Messages == {Text(n) : n \in 0..26} \cup {Zeros(n) : n \in 1..13} \cup {<<4>>, <<4, 0>>}

MCInflatable == <<3, 2, 1>>
MCTails == {<<0>>, <<7>>, <<0, 0>>, <<0, 1>>, Zeros(4), Zeros(12), Zeros(16)}

MCSamples ==
  Sampled("fields", FieldLists) \cup Sampled("integer", Integers32)
    \cup Sampled("file", Files) \cup Sampled("user", Users)
    \cup Sampled("flat", FlatFiles) \cup Sampled("info", InfoForks)
    \cup Sampled("resume", Resumes) \cup Sampled("item", FolderItems)
    \cup Sampled("folder_resume", Resumes) \cup Sampled("registration", Registrations)
    \cup Sampled("handshake", Handshakes) \cup Sampled("reply", {0, 1, 63})
    \cup Sampled("servers", ServerLists) \cup Sampled("lookup", Lookups)
    \cup Sampled("archive", Archives) \cup Sampled("command", {1, 2, 3})
    \cup Sampled("hello", Hellos) \cup Sampled("greeting", Greetings)
    \cup Sampled("header", Headers) \cup Sampled("transaction", Transactions)
    \cup Sampled("stamp", Stamps) \cup Sampled("guid", Guids)
    \cup Sampled("access", Masks) \cup Sampled("ivar", Ivars)
    \cup Sampled("offer", Offers) \cup Sampled("proof", Proofs)
    \cup Sampled("scrambled", {Text(n) : n \in 0..8})
    \cup Sampled("md5", Messages) \cup Sampled("sha1", Messages)

(* The lengths that the formats can say end at 7, 63 and 4095. *)
Exceeds(n, lengths) == \E length \in lengths : length > n
Lengths(texts) == {Len(texts[i]) : i \in 1..Len(texts)}

MCOversized ==
  {s \in MCSamples :
     LET k == s[1]
         v == s[2]
     IN  CASE k = "fields" -> Exceeds(63, {Len(v)} \cup {Len(v[i].data) : i \in 1..Len(v)})
           [] k \in {"file", "user"} -> Exceeds(63, {Len(v.name)})
           [] k = "info" -> Exceeds(63, {Len(v.name), Len(v.comment)})
           [] k = "item" -> \/ Exceeds(7, {Len(v.path[i].name) : i \in 1..Len(v.path)})
                            \/ Exceeds(63, {4 + Len(FlattenSeq([i \in 1..Len(v.path) |-> <<0, 0, 0>> \o v.path[i].name]))})
           [] k = "folder_resume" -> Exceeds(63, {42 + 16 * Len(v.entries)})
           [] k = "registration" -> Exceeds(7, Lengths(v.texts))
           [] k = "offer" -> Exceeds(63, {Len(v.session_key)})
           [] k = "lookup" -> v # << >> /\ Exceeds(7, Lengths(v[1].texts))
           [] k = "servers" ->
                \/ \E i \in 1..Len(v.servers) : Exceeds(7, Lengths(v.servers[i].texts))
                \/ Exceeds(63, {4 + 12 * Len(v.servers)
                     + Len(FlattenSeq([i \in 1..Len(v.servers) |-> FlattenSeq(v.servers[i].texts)]))})
           [] OTHER -> FALSE}
=============================================================================
