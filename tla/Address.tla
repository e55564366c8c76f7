------------------------------ MODULE Address -------------------------------
(***************************************************************************)
(* An aw::net::IpAddress on its way through a program: to_text() writes    *)
(* it, somebody writes it down or mistypes it, from_text() reads it, and   *)
(* the sockaddr conversions hand it to the kernel and get it back.         *)
(*                                                                         *)
(* Digits are numbers, 0..Radix - 1 and the capital letters behind them;   *)
(* all other characters are constants.                                     *)
(***************************************************************************)
EXTENDS Integers, SequencesExt

CONSTANTS
  Dot, Colon, Open, Close,  \* the characters '.' ':' '[' ']'
  Other,                    \* any further character
  Decimal, Radix,           \* 10 and 16 in the code
  OctetCount, MaxOctet,     \* 4 and 255
  GroupCount, GroupDigits,  \* 8 and 4
  MaxPort, PortDigits,      \* 65535 and 5
  Addresses,                \* the addresses the program meets
  MaxNumeral                \* bound: digits of a number somebody writes down

ASSUME AddressAssumption ==
  /\ Decimal \in 2..Radix /\ Radix \in Nat
  /\ \A n \in {OctetCount, GroupCount, GroupDigits, PortDigits, MaxOctet, MaxPort, MaxNumeral} :
       n \in Nat \ {0}

Decimals   == 0..Decimal - 1
Capitals   == Radix..2 * Radix - Decimal - 1
HexDigits  == 0..Radix - 1 \cup Capitals
Characters == HexDigits \cup {Dot, Colon, Open, Close, Other}

-----------------------------------------------------------------------------
(* Reading.                                                                *)

Refused == [ok |-> FALSE]
Read(v) == [ok |-> TRUE, value |-> v]

(* static_cast to 8 bits *)
Octet(n) == n % (MaxOctet + 1)

Number(digits, base) == FoldLeft(LAMBDA n, d : n * base + d, 0, digits)

Find(text, c)  == SelectInSeq(text, LAMBDA d : d = c)
After(text, i) == SubSeq(text, i + 1, Len(text))

ParsePort(text) ==
  IF text = << >> \/ Len(text) > PortDigits \/ ~(\A i \in 1..Len(text) : text[i] \in Decimals)
    THEN Refused
  ELSE IF Number(text, Decimal) > MaxPort THEN Refused
  ELSE Read(Number(text, Decimal))

\* Faulty: one more than an octet holds, which then wraps to zero.
OctetNearlyFits(value) == value <= MaxOctet + 1

OctetFits(value) == value <= MaxOctet

ParseIpv4Host(host) ==
  LET Character(at, c) ==
        IF c = Dot
        THEN [octets |-> Append(at.octets, Octet(at.value)), value |-> 0, in_number |-> FALSE,
              ok |-> at.ok /\ at.in_number /\ Len(at.octets) < OctetCount - 1]
        ELSE IF c \in Decimals
        THEN [at EXCEPT !.value = @ * Decimal + c, !.in_number = TRUE,
                        !.ok = @ /\ OctetFits(at.value * Decimal + c)]
        ELSE [at EXCEPT !.ok = FALSE]
      end == FoldLeft(Character,
               [octets |-> << >>, value |-> 0, in_number |-> FALSE, ok |-> TRUE], host)
  IN  IF end.ok /\ end.in_number /\ Len(end.octets) = OctetCount - 1
      THEN Read(Append(end.octets, Octet(end.value))) ELSE Refused

HexValue(c) == IF c \in Capitals THEN c - (Radix - Decimal) ELSE c

(* What stands between the colons. *)
Pieces(part) ==
  FoldLeft(LAMBDA ps, c : IF c = Colon THEN Append(ps, << >>)
                          ELSE [ps EXCEPT ![Len(ps)] = Append(@, c)], << << >> >>, part)

IsGroup(piece) ==
  Len(piece) \in 1..GroupDigits /\ \A i \in 1..Len(piece) : piece[i] \in HexDigits

ParseGroups(part) ==
  LET pieces == Pieces(part)
  IN  IF part = << >> THEN Read(<< >>)
      ELSE IF Len(pieces) > GroupCount \/ ~(\A i \in 1..Len(pieces) : IsGroup(pieces[i]))
        THEN Refused
      ELSE Read([i \in 1..Len(pieces) |->
                   Number([j \in 1..Len(pieces[i]) |-> HexValue(pieces[i][j])], Radix)])

(* The first "::", or 0. *)
FindCompression(host) ==
  SelectInSeq([i \in 1..Len(host) - 1 |-> <<host[i], host[i + 1]>>],
              LAMBDA two : two = <<Colon, Colon>>)

\* Faulty: groups that are missing at the end are let pass.
IsBeginning(groups) == Len(groups) <= GroupCount

IsWhole(groups) == Len(groups) = GroupCount

\* Faulty: "::" may stand for no group at all.
LeavesSome(head, tail) == Len(head) + Len(tail) <= GroupCount

LeavesRoom(head, tail) == Len(head) + Len(tail) <= GroupCount - 1

ParseIpv6Host(host) ==
  LET compression == FindCompression(host)
      all  == ParseGroups(host)
      head == ParseGroups(SubSeq(host, 1, compression - 1))
      tail == ParseGroups(After(host, compression + 1))
  IN  IF compression = 0
        THEN IF all.ok /\ IsWhole(all.value) THEN all ELSE Refused
      ELSE IF ~(head.ok /\ tail.ok) \/ ~LeavesRoom(head.value, tail.value) THEN Refused
      ELSE Read(head.value
                  \o [i \in 1..GroupCount - Len(head.value) - Len(tail.value) |-> 0]
                  \o tail.value)

Ipv4(octets, port) == [family |-> "ipv4", parts |-> octets, port |-> port, scope_id |-> 0]
Ipv6(groups, port) == [family |-> "ipv6", parts |-> groups, port |-> port, scope_id |-> 0]

WithPort(host, port, family) ==
  IF ~host.ok \/ ~port.ok THEN Refused
  ELSE Read(IF family = "ipv4" THEN Ipv4(host.value, port.value) ELSE Ipv6(host.value, port.value))

FromBrackets(text) ==
  LET close     == Find(text, Close)
      remainder == After(text, close)
      port == IF remainder = << >> THEN Read(0)
              ELSE IF remainder[1] # Colon THEN Refused ELSE ParsePort(Tail(remainder))
  IN  IF close = 0 THEN Refused
      ELSE WithPort(ParseIpv6Host(SubSeq(text, 2, close - 1)), port, "ipv6")

(* A suffix of digits is a port when its colon is the only one. *)
HasPort(text, colon) ==
  /\ colon \in 1..Len(text) - 1 /\ Find(text, Colon) = colon
  /\ \A i \in colon + 1..Len(text) : text[i] \in Decimals

FromText(text) ==
  LET colon == SelectLastInSeq(text, LAMBDA c : c = Colon)
      port == IF HasPort(text, colon) THEN ParsePort(After(text, colon)) ELSE Read(0)
      host == IF HasPort(text, colon) THEN SubSeq(text, 1, colon - 1) ELSE text
  IN  IF text # << >> /\ text[1] = Open THEN FromBrackets(text)
      ELSE IF Find(host, Dot) # 0 THEN WithPort(ParseIpv4Host(host), port, "ipv4")
      ELSE WithPort(ParseIpv6Host(host), port, "ipv6")

-----------------------------------------------------------------------------
(* Writing.                                                                *)

Digits(n, base) ==
  LET count == CHOOSE k \in 1..n + 1 : n < base^k /\ (k = 1 \/ base^(k - 1) <= n)
  IN  [i \in 1..count |-> (n \div base^(count - i)) % base]

Join(texts, c) ==
  FoldLeft(LAMBDA all, t : IF all = << >> THEN t ELSE all \o <<c>> \o t, << >>, texts)

(* The zeros from group i on. *)
RunLength(groups, i) == Max({n \in 0..GroupCount - i + 1 : \A j \in i..i + n - 1 : groups[j] = 0})

\* Faulty: the first run of zeros is taken, however short.
FirstRun(groups) ==
  IF \A i \in 1..GroupCount : groups[i] # 0 THEN 1
  ELSE Min({i \in 1..GroupCount : groups[i] = 0})

(* Of the longest runs the first. *)
BestStart(groups) ==
  CHOOSE i \in 1..GroupCount : \A j \in 1..GroupCount :
    IF j < i THEN RunLength(groups, j) < RunLength(groups, i)
             ELSE RunLength(groups, j) <= RunLength(groups, i)

GroupsText(groups) ==
  LET hex   == [i \in 1..GroupCount |-> Digits(groups[i], Radix)]
      start == BestStart(groups)
      run   == RunLength(groups, start)
  IN  IF run < 2 THEN Join(hex, Colon)
      ELSE Join(SubSeq(hex, 1, start - 1), Colon) \o <<Colon, Colon>>
             \o Join(SubSeq(hex, start + run, GroupCount), Colon)

ToText(a) ==
  LET host == IF a.family = "ipv4"
              THEN Join([i \in 1..OctetCount |-> Digits(a.parts[i], Decimal)], Dot)
              ELSE <<Open>> \o GroupsText(a.parts) \o <<Close>>
  IN  host \o <<Colon>> \o Digits(a.port, Decimal)

-----------------------------------------------------------------------------
(* The kernel's form.  The four octets are one integer there, in memory    *)
(* with the first octet first, which a little-endian host reads from the   *)
(* other end.                                                              *)

NetworkAddress(octets) == Number(octets, MaxOctet + 1)
OctetOf(network, i)    == Octet(network \div (MaxOctet + 1)^i)

(* htonl() on a little-endian host *)
HostToNetwork(host) ==
  NetworkAddress([i \in 1..OctetCount |-> OctetOf(host, i - 1)])

ToSockaddr(a) ==
  IF a.family = "ipv4"
  THEN [family |-> "AF_INET", addr |-> HostToNetwork(NetworkAddress(a.parts)), port |-> a.port]
  ELSE [family |-> "AF_INET6", addr |-> a.parts, port |-> a.port, scope_id |-> a.scope_id]

\* Faulty: the integer is taken for one in the host's order.
OctetsInHostOrder(network) == [i \in 1..OctetCount |-> OctetOf(network, OctetCount - i)]

OctetsInMemory(network) == [i \in 1..OctetCount |-> OctetOf(network, i - 1)]

FromSockaddr(in) ==
  IF in.family = "AF_INET6"
  THEN [Ipv6(in.addr, in.port) EXCEPT !.scope_id = in.scope_id]
  ELSE Ipv4(OctetsInMemory(in.addr), in.port)

-----------------------------------------------------------------------------
VARIABLES address,   \* an address of the program
          text,      \* what is written for it
          way,       \* how the text came about
          got,       \* what from_text() makes of the text
          seen       \* what the kernel says of an address it was given
vars == <<address, text, way, got, seen>>

Nothing == [ok |-> FALSE, error |-> "nothing yet"]

(* Every way to write an address: leading zeros, capitals, "::" for any    *)
(* zeros, brackets or none.                                                *)
Numerals(n, digits, base, most) ==
  {s \in SeqOf(digits, most) : s # << >> /\ Number([i \in 1..Len(s) |-> HexValue(s[i])], base) = n}

OctetNumerals == [n \in 0..MaxOctet |-> Numerals(n, Decimals, Decimal, MaxNumeral)]
PortNumerals  == [n \in 0..MaxPort |-> Numerals(n, Decimals, Decimal, PortDigits)]
GroupNumerals ==
  [n \in 0..Radix^GroupDigits - 1 |-> Numerals(n, HexDigits, Radix, GroupDigits)]

Joins(choices, c) ==
  FoldLeft(LAMBDA all, ns : {IF t = << >> THEN n ELSE t \o <<c>> \o n : t \in all, n \in ns},
           {<< >>}, choices)

HostTexts(groups) ==
  LET choices == [i \in 1..GroupCount |-> GroupNumerals[groups[i]]]
      runs == {r \in (1..GroupCount) \X (1..GroupCount) :
                 r[1] <= r[2] /\ \A i \in r[1]..r[2] : groups[i] = 0}
  IN  Joins(choices, Colon)
        \cup UNION {{head \o <<Colon, Colon>> \o tail :
                        head \in Joins(SubSeq(choices, 1, r[1] - 1), Colon),
                        tail \in Joins(SubSeq(choices, r[2] + 1, GroupCount), Colon)} : r \in runs}

TextsOf(a) ==
  LET ports == {<<Colon>> \o n : n \in PortNumerals[a.port]}
                 \cup {none \in {<< >>} : a.port = 0}
      hosts == IF a.family = "ipv4"
               THEN Joins([i \in 1..OctetCount |-> OctetNumerals[a.parts[i]]], Dot)
               ELSE {<<Open>> \o host \o <<Close>> : host \in HostTexts(a.parts)}
  IN  {host \o port : host \in hosts, port \in ports}
        \cup {host \in IF a.family = "ipv6" THEN HostTexts(a.parts) ELSE {} : a.port = 0}

Mistyped(s) ==
  {SubSeq(s, 1, i - 1) \o SubSeq(s, i + 1, Len(s)) : i \in 1..Len(s)}
    \cup {[s EXCEPT ![i] = c] : i \in 1..Len(s), c \in Characters}
    \cup {SubSeq(s, 1, i) \o <<c>> \o SubSeq(s, i + 1, Len(s)) : i \in 0..Len(s), c \in Characters}

Init ==
  /\ address \in Addresses
  /\ text = << >> /\ way = "unwritten"
  /\ got = Nothing /\ seen = Nothing

Write ==
  /\ way = "unwritten" /\ seen = Nothing
  /\ text' = ToText(address) /\ way' = "printed"
  /\ UNCHANGED <<address, got, seen>>

WriteDown ==
  /\ way = "unwritten" /\ seen = Nothing
  /\ text' \in TextsOf(address) /\ way' = "written"
  /\ UNCHANGED <<address, got, seen>>

Mistype ==
  /\ way = "printed" /\ got = Nothing
  /\ text' \in Mistyped(text) \ {text} /\ way' = "mistyped"
  /\ UNCHANGED <<address, got, seen>>

Parse ==
  /\ way # "unwritten" /\ got = Nothing
  /\ got' = FromText(text)
  /\ UNCHANGED <<address, text, way, seen>>

(* connect() or bind() takes the address, and the kernel names it again:   *)
(* remote_address(), local_address(), Datagram::from.                      *)
Connect ==
  /\ got.ok \/ way = "unwritten"
  /\ seen = Nothing
  /\ seen' = Read(FromSockaddr(ToSockaddr(IF got.ok THEN got.value ELSE address)))
  /\ UNCHANGED <<address, text, way, got>>

Next == Write \/ WriteDown \/ Mistype \/ Parse \/ Connect
Spec == Init /\ [][Next]_vars

-----------------------------------------------------------------------------
IpAddress ==
  [family : {"ipv4"}, parts : [1..OctetCount -> 0..MaxOctet], port : 0..MaxPort, scope_id : {0}]
    \cup [family : {"ipv6"}, parts : [1..GroupCount -> 0..Radix^GroupDigits - 1],
          port : 0..MaxPort, scope_id : Nat]

\* Whatever was read, or came back from the kernel, is an address of one of
\* the two families, of so many octets or groups.
TypeOK ==
  /\ address \in IpAddress
  /\ text \in Seq(Characters)
  /\ got.ok => got.value \in IpAddress
  /\ seen.ok => seen.value \in IpAddress

\* from_text() reads an address from its texts and from no others: every way
\* to write an address is read as that address, and a text that is read as
\* an address is one of the ways to write it.
ReadsExactly ==
  /\ way = "mistyped" /\ got.ok => text \in TextsOf(got.value)
  /\ way = "written" /\ got # Nothing => got = Read([address EXCEPT !.scope_id = 0])

\* An address survives being printed, read and handed to the kernel, with
\* all but its scope, and without the text with its scope too.
SameAddress ==
  seen.ok =>
    CASE way = "unwritten" -> seen.value = address
      [] way \in {"printed", "written"} -> seen.value = [address EXCEPT !.scope_id = 0]
      [] way = "mistyped" -> seen.value = got.value

\* What is printed is the shortest text with brackets and a port, unless
\* that has "::" for a single group: of several runs of zeros the longest
\* one is left out, also at the start and at the end.
PrintsShortest ==
  way = "printed" /\ address.family = "ipv6" =>
    \A t \in TextsOf(address) :
      \/ t[1] # Open \/ Find(After(t, Find(t, Close)), Colon) = 0
      \/ Len(text) <= Len(t)
      \/ Len(text) = Len(t) + 1
           /\ Cardinality({i \in 1..Len(t) : t[i] = Colon}) = GroupCount
=============================================================================
