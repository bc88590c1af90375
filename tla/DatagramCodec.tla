--------------------------- MODULE DatagramCodec ----------------------------
(***************************************************************************)
(* The two encodings a datagram goes through: the SOCKS5 UDP packet of the *)
(* local client (src/socks5/udp_associate.rs) and the frame on the         *)
(* WebSocket (src/wss_gateway/datagram.rs).                                *)
(*                                                                         *)
(* A cell is a byte with Base values.  Fixed-size fields that are copied   *)
(* and never computed with (the identifier, an IPv4 address, a port) are   *)
(* one cell each; the length fields keep their widths of one, two and four *)
(* cells, so that a length wraps modulo Base^width.  Targets are IPv4 or   *)
(* domain names, the two kinds that the packets of a client can name.      *)
(***************************************************************************)
EXTENDS Integers, Sequences

CONSTANTS Base,         \* values of a cell
          MaxPayload    \* MAX_DATAGRAM_PAYLOAD_BYTES

ASSUME CodecAssumption ==
  /\ Base \in Nat /\ Base > 3
  /\ MaxPayload \in Nat /\ MaxPayload < Base * Base * Base * Base

Version  == 1
KindIpV4 == 1
KindName == 3

IpTarget(ip, port)       == [ip |-> ip, port |-> port]
DomainTarget(name, port) == [domain |-> name, port |-> port]
IsDomain(target)         == "domain" \in DOMAIN target

Invalid == [error |-> "invalid"]

Cell == 0..(Base - 1)

(* to_be_bytes of a length cast to u16 and u32, and from_be_bytes. *)
BigEndian2(n) == <<(n \div Base) % Base, n % Base>>
BigEndian4(n) == LET high == (n \div Base) \div Base
                 IN <<(high \div Base) % Base, high % Base, (n \div Base) % Base, n % Base>>
Value2(c) == c[1] * Base + c[2]
Value4(c) == ((c[1] * Base + c[2]) * Base + c[3]) * Base + c[4]

(* Indexing past the end of a slice panics; text that is not text does not *)
(* parse, and here one cell value stands for what UTF-8 refuses.           *)
Cells(f, first, last) ==
  [i \in 1..(last - first + 1) |->
     IF first + i - 1 <= Len(f) THEN f[first + i - 1] ELSE "panic"]
IsText(cells) == \A i \in DOMAIN cells : cells[i] # 0

-----------------------------------------------------------------------------
EncodeTarget(target) ==
  IF IsDomain(target)
  THEN <<KindName, Len(target.domain) % Base>> \o target.domain \o <<target.port>>
  ELSE <<KindIpV4, target.ip, target.port>>

EncodeDatagram(e) ==
  IF IsDomain(e.target) /\ Len(e.target.domain) >= Base THEN Invalid
  ELSE [cells |-> <<Version, e.id>> \o EncodeTarget(e.target)
           \o BigEndian2(Len(e.client.ip)) \o e.client.ip \o <<e.client.port>>
           \o BigEndian4(Len(e.payload)) \o e.payload]

(* The target whose kind is at cell `at`, and the cell after it. *)
TargetAt(f, at) ==
  CASE f[at] = KindIpV4 /\ Len(f) >= at + 2 ->
         [target |-> IpTarget(f[at + 1], f[at + 2]), next |-> at + 3]
    [] f[at] = KindName /\ Len(f) > at /\ Len(f) >= at + f[at + 1] + 2 ->
         LET end  == at + 1 + f[at + 1]
             name == Cells(f, at + 2, end)
         IN IF IsText(name)
            THEN [target |-> DomainTarget(name, f[end + 1]), next |-> end + 2]
            ELSE Invalid
    [] OTHER -> Invalid

(* The client's address is the text of its IP with a length of its own,    *)
(* and a port; then come the payload's length and the payload.             *)
DecodeRest_Unchecked(f, id, head) ==
  LET at    == head.next
      ipEnd == at + 1 + Value2(Cells(f, at, at + 1))
      size  == Value4(Cells(f, ipEnd + 2, ipEnd + 5))
  IN IF Len(f) < at + 1 \/ Len(f) < ipEnd + 5 THEN Invalid
     ELSE [id |-> id, target |-> head.target,
           client |-> [ip |-> Cells(f, at + 2, ipEnd), port |-> f[ipEnd + 1]],
           payload |-> Cells(f, ipEnd + 6, ipEnd + 5 + size)]

DecodeRest(f, id, head) ==
  LET at    == head.next
      ipEnd == at + 1 + Value2(Cells(f, at, at + 1))
      size  == Value4(Cells(f, ipEnd + 2, ipEnd + 5))
      ip    == Cells(f, at + 2, ipEnd)
  IN IF \/ Len(f) < at + 1 \/ Len(f) < ipEnd + 5
        \/ ~IsText(ip) \/ Len(f) < ipEnd + 5 + size
     THEN Invalid
     ELSE [id |-> id, target |-> head.target,
           client |-> [ip |-> ip, port |-> f[ipEnd + 1]],
           payload |-> Cells(f, ipEnd + 6, ipEnd + 5 + size)]

DecodeDatagram(f) ==
  IF Len(f) < 3 \/ f[1] # Version THEN Invalid
  ELSE LET head == TargetAt(f, 3)
       IN IF head = Invalid THEN Invalid ELSE DecodeRest(f, f[2], head)

-----------------------------------------------------------------------------
(* DatagramEnvelope::validate. *)
Valid(e) ==
  /\ Len(e.payload) <= MaxPayload
  /\ IsDomain(e.target) => e.target.domain # <<>>

(* parse_udp_datagram: two reserved cells, the fragment number, a target   *)
(* and the payload.  The source check is the relay loop's.                 *)
ParsePacket(p, id, client) ==
  IF Len(p) < 4 \/ \E i \in 1..3 : p[i] # 0 THEN Invalid
  ELSE LET head == TargetAt(p, 4)
           e    == [id |-> id, client |-> client, target |-> head.target,
                    payload |-> Cells(p, head.next, Len(p))]
       IN IF head # Invalid /\ Valid(e) THEN e ELSE Invalid

(* encode_udp_datagram, for a reply on its way to the client. *)
EncodePacket(e) ==
  IF IsDomain(e.target) /\ Len(e.target.domain) >= Base THEN Invalid
  ELSE [cells |-> <<0, 0, 0>> \o EncodeTarget(e.target) \o e.payload]

=============================================================================
