------------------------ MODULE WssConnectionProofs -------------------------
(***************************************************************************)
(* For every number of connections, every packet, answer and timeout: what *)
(* the two gateways tell each other is true, a datagram frame decodes to   *)
(* what was encoded, and the paths are a best-effort datagram service.     *)
(*                                                                         *)
(* The first part is about the codec alone: Layout says which field is at  *)
(* which cell of a frame, and FrameRoundTrip and PacketRoundTrip that both *)
(* encodings are read back.  The second part is the inductive invariant:   *)
(* every frame on its way says something that stays true until it is read  *)
(* (Upward, Downward); a datagram is in one place at a time (UpQueue,      *)
(* Exchange), and the two sides of a handshake know of each other only by  *)
(* those frames (Handshake).  Each step is shown to keep it for its own    *)
(* connection and to leave the others alone (StepKeeps).                   *)
(***************************************************************************)
EXTENDS WssConnection, TLAPS

(* What the packets of a client can say, with names and payloads as long   *)
(* as their length fields and the limit on payloads allow.                 *)
Names    == {s \in Seq(Cell \ {0}) : 0 < Len(s) /\ Len(s) < Base}
Payloads == {s \in Seq(Cell) : Len(s) <= MaxPayload}
Targets  == [ip : Cell, port : Cell] \cup [domain : Names, port : Cell]
Envelopes ==
  [id : {Association}, client : {Client}, target : Targets, payload : Payloads]

(* f has s at cell `at`; f is a frame cut short, or all of it. *)
Has(f, at, s) == at + Len(s) - 1 <= Len(f) /\ \A i \in 1..Len(s) : f[at + i - 1] = s[i]
Prefix(f, g)  == Len(f) <= Len(g) /\ \A i \in 1..Len(f) : f[i] = g[i]

-----------------------------------------------------------------------------
(* Parts of a frame, one behind the other. *)
LEMMA Glue ==
  ASSUME NEW s \in Seq(Cell), NEW t \in Seq(Cell)
  PROVE  /\ s \o t \in Seq(Cell) /\ Len(s \o t) = Len(s) + Len(t)
         /\ \A i \in 1..Len(s) : (s \o t)[i] = s[i]
         /\ \A i \in 1..Len(t) : (s \o t)[Len(s) + i] = t[i]
OBVIOUS

(* A sequence that ends a frame, and one before it. *)
LEMMA HasLast ==
  ASSUME NEW s \in Seq(Cell), NEW t \in Seq(Cell)
  PROVE  Has(s \o t, Len(s) + 1, t)
<1>1. Len(s) \in Nat /\ Len(t) \in Nat
  OBVIOUS
<1>2. \A i \in 1..Len(t) : (Len(s) + 1) + i - 1 = Len(s) + i
  BY <1>1
<1> QED
  BY <1>1, <1>2, Glue DEF Has

LEMMA HasBefore ==
  ASSUME NEW s \in Seq(Cell), NEW t \in Seq(Cell), NEW u \in Seq(Cell), NEW at \in Nat \ {0},
         Has(s, at, u)
  PROVE  Has(s \o t, at, u)
<1>1. Len(s) \in Nat /\ Len(t) \in Nat /\ Len(u) \in Nat
  OBVIOUS
<1>2. \A i \in 1..Len(u) : at + i - 1 \in 1..Len(s)
  BY <1>1 DEF Has
<1> QED
  BY <1>1, <1>2, Glue DEF Has

(* What a frame holds, its prefix holds as far as it goes. *)
LEMMA HasInPrefix ==
  ASSUME NEW f \in Seq(Cell), NEW g \in Seq(Cell), NEW u \in Seq(Cell), NEW at \in Nat \ {0},
         Has(g, at, u), Prefix(f, g), at + Len(u) - 1 <= Len(f)
  PROVE  Has(f, at, u)
<1>1. Len(f) \in Nat /\ Len(g) \in Nat /\ Len(u) \in Nat
  OBVIOUS
<1>2. \A i \in 1..Len(u) : at + i - 1 \in 1..Len(f)
  BY <1>1
<1> QED
  BY <1>1, <1>2 DEF Has, Prefix

(* Lengths in their widths: what is written is read again. *)
LEMMA Division ==
  ASSUME NEW n \in Nat
  PROVE  /\ n \div Base \in Nat /\ n % Base \in Cell
         /\ n = (n \div Base) * Base + (n % Base)
BY CodecAssumption DEF Cell

(* Arithmetic of lengths that are written as cells. *)
LEMMA DivisionBound ==
  ASSUME NEW n \in Nat, NEW x \in Nat, n < x * Base
  PROVE  n \div Base < x
<1>1. /\ Base \in Nat /\ Base > 0 /\ n \div Base \in Nat
      /\ n >= (n \div Base) * Base
  BY Division, CodecAssumption DEF Cell
<1>2. ASSUME n \div Base >= x
      PROVE  FALSE
  <2>1. (n \div Base) * Base >= x * Base
    BY <1>1, <1>2
  <2> QED
    BY <1>1, <2>1
<1> QED
  BY <1>1, <1>2

LEMMA SmallLength ==
  ASSUME NEW n \in Nat, n < Base
  PROVE  n % Base = n /\ n \div Base = 0
BY CodecAssumption

(* A length survives two cells if it is below Base^2 ... *)
LEMMA TwoCells ==
  ASSUME NEW n \in Nat
  PROVE  /\ BigEndian2(n) \in Seq(Cell) /\ Len(BigEndian2(n)) = 2
         /\ n < Base * Base => BigEndian2(n)[1] * Base + BigEndian2(n)[2] = n
<1>1. /\ n \div Base \in Nat /\ (n \div Base) % Base \in Cell /\ n % Base \in Cell
      /\ n = (n \div Base) * Base + (n % Base)
  BY Division
<1>2. /\ BigEndian2(n) \in Seq(Cell) /\ Len(BigEndian2(n)) = 2
      /\ BigEndian2(n)[1] = (n \div Base) % Base /\ BigEndian2(n)[2] = n % Base
  BY <1>1 DEF BigEndian2
<1>3. n < Base * Base => (n \div Base) % Base = n \div Base
  <2>1. n < Base * Base => n \div Base < Base
    BY DivisionBound, CodecAssumption
  <2> QED
    BY <1>1, <2>1, SmallLength
<1> QED
  BY <1>1, <1>2, <1>3

(* ... and four cells if it is below Base^4. *)
LEMMA FourCells ==
  ASSUME NEW n \in Nat
  PROVE  /\ BigEndian4(n) \in Seq(Cell) /\ Len(BigEndian4(n)) = 4
         /\ n < Base * Base * Base * Base => Value4(BigEndian4(n)) = n
<1> DEFINE q == n \div Base
           p == q \div Base
           o == p \div Base
<1>1. /\ q \in Nat /\ p \in Nat /\ o \in Nat
      /\ n % Base \in Cell /\ q % Base \in Cell /\ p % Base \in Cell /\ o % Base \in Cell
      /\ n = q * Base + (n % Base) /\ q = p * Base + (q % Base) /\ p = o * Base + (p % Base)
  BY Division
<1>2. /\ BigEndian4(n) \in Seq(Cell) /\ Len(BigEndian4(n)) = 4
      /\ BigEndian4(n)[1] = o % Base /\ BigEndian4(n)[2] = p % Base
      /\ BigEndian4(n)[3] = q % Base /\ BigEndian4(n)[4] = n % Base
  BY <1>1 DEF BigEndian4
<1>3. ASSUME n < Base * Base * Base * Base
      PROVE  Value4(BigEndian4(n)) = n
  <2>1. Base \in Nat /\ Base * Base \in Nat /\ Base * Base * Base \in Nat
    BY CodecAssumption
  <2>2. q < Base * Base * Base
    BY <1>3, <2>1, DivisionBound
  <2>3. p < Base * Base
    BY <1>1, <2>1, <2>2, DivisionBound
  <2>4. o < Base
    BY <1>1, <2>1, <2>3, DivisionBound
  <2>5. o % Base = o
    BY <1>1, <2>4, SmallLength
  <2>6. Value4(BigEndian4(n)) = ((o * Base + (p % Base)) * Base + (q % Base)) * Base + (n % Base)
    BY <1>2, <2>5 DEF Value4
  <2> HIDE DEF q, p, o
  <2> QED
    BY <1>1, <2>6
<1> QED
  BY <1>2, <1>3

(* A slice inside of the frame is what was written there: no panic.        *)
LEMMA Slice ==
  ASSUME NEW f \in Seq(Cell), NEW s \in Seq(Cell), NEW at \in Nat \ {0},
         Has(f, at, s)
  PROVE  Cells(f, at, at + Len(s) - 1) = s
<1>1. Len(s) \in Nat /\ DOMAIN s = 1..Len(s) /\ Len(f) \in Nat
  OBVIOUS
<1>2. \A i \in 1..Len(s) : at + i - 1 <= Len(f) /\ f[at + i - 1] = s[i]
  BY <1>1 DEF Has
<1>3. (at + Len(s) - 1) - at + 1 = Len(s)
  BY <1>1
<1>4. Cells(f, at, at + Len(s) - 1)
        = [i \in 1..Len(s) |-> IF at + i - 1 <= Len(f) THEN f[at + i - 1] ELSE "panic"]
  BY <1>3 DEF Cells
<1>5. s = [i \in 1..Len(s) |-> s[i]]
  BY <1>1
<1> QED
  BY <1>2, <1>4, <1>5

(* A slice inside a sequence of cells is a sequence of cells. *)
LEMMA SliceIsCells ==
  ASSUME NEW f \in Seq(Cell), NEW at \in Nat \ {0}, NEW n \in Nat, at + n - 1 <= Len(f)
  PROVE  /\ Cells(f, at, at + n - 1) \in Seq(Cell) /\ Len(Cells(f, at, at + n - 1)) = n
         /\ \A i \in 1..n : Cells(f, at, at + n - 1)[i] = f[at + i - 1]
<1>1. (at + n - 1) - at + 1 = n
  OBVIOUS
<1>2. Cells(f, at, at + n - 1)
        = [i \in 1..n |-> IF at + i - 1 <= Len(f) THEN f[at + i - 1] ELSE "panic"]
  BY <1>1 DEF Cells
<1>3. \A i \in 1..n : at + i - 1 <= Len(f) /\ f[at + i - 1] \in Cell
  OBVIOUS
<1> QED
  BY <1>2, <1>3, SMTT(30)

-----------------------------------------------------------------------------
(* The target of a packet or a frame. *)
LEMMA SmallCells == /\ 0 \in Cell /\ 1 \in Cell /\ 3 \in Cell
                    /\ Version \in Cell /\ KindIpV4 \in Cell /\ KindName \in Cell
BY CodecAssumption DEF Cell, Version, KindIpV4, KindName

(* The two kinds of targets are told apart by their fields. *)
LEMMA TargetKinds ==
  ASSUME NEW t \in Targets
  PROVE  \/ /\ ~IsDomain(t) /\ t.ip \in Cell /\ t.port \in Cell
            /\ t = IpTarget(t.ip, t.port)
         \/ /\ IsDomain(t) /\ t.domain \in Names /\ t.port \in Cell
            /\ t = DomainTarget(t.domain, t.port)
BY DEF Targets, IsDomain, IpTarget, DomainTarget

(* A name is text, and no longer than its length field can say. *)
LEMMA NameCells ==
  ASSUME NEW s \in Names
  PROVE  s \in Seq(Cell) /\ Len(s) \in Cell /\ Len(s) % Base = Len(s) /\ Len(s) > 0 /\ IsText(s)
<1>1. s \in Seq(Cell \ {0}) /\ Len(s) \in Nat /\ 0 < Len(s) /\ Len(s) < Base
  BY DEF Names
<1>2. s \in Seq(Cell) /\ \A i \in DOMAIN s : s[i] # 0
  BY <1>1
<1>3. Len(s) \in Cell
  BY <1>1, CodecAssumption DEF Cell
<1> QED
  BY <1>1, <1>2, <1>3, SmallLength DEF IsText

(* A target is written as at least three cells, led by its kind. *)
LEMMA TargetWritten ==
  ASSUME NEW t \in Targets
  PROVE  /\ EncodeTarget(t) \in Seq(Cell)
         /\ ~IsDomain(t) => /\ Len(EncodeTarget(t)) = 3
                            /\ EncodeTarget(t)[1] = KindIpV4
                            /\ EncodeTarget(t)[2] = t.ip /\ EncodeTarget(t)[3] = t.port
         /\ IsDomain(t) => /\ Len(EncodeTarget(t)) = Len(t.domain) + 3
                           /\ EncodeTarget(t)[1] = KindName
                           /\ EncodeTarget(t)[2] = Len(t.domain)
                           /\ Has(EncodeTarget(t), 3, t.domain)
                           /\ EncodeTarget(t)[Len(t.domain) + 3] = t.port
<1>1. CASE ~IsDomain(t)
  <2>1. t.ip \in Cell /\ t.port \in Cell
    BY <1>1, TargetKinds
  <2> QED
    BY <1>1, <2>1, SmallCells DEF EncodeTarget
<1>2. CASE IsDomain(t)
  <2> DEFINE head == <<KindName, Len(t.domain)>>
             last == <<t.port>>
  <2>1. t.domain \in Names /\ t.port \in Cell
    BY <1>2, TargetKinds
  <2>2. t.domain \in Seq(Cell) /\ Len(t.domain) \in Cell /\ Len(t.domain) % Base = Len(t.domain)
    BY <2>1, NameCells
  <2>3. /\ head \in Seq(Cell) /\ Len(head) + 1 = 3 /\ head[1] = KindName /\ head[2] = Len(t.domain)
        /\ last \in Seq(Cell) /\ last[1] = t.port /\ Len(last) = 1
        /\ 1 \in 1..Len(head) /\ 2 \in 1..Len(head) /\ 1 \in 1..Len(last)
    BY <2>1, <2>2, SmallCells
  <2>4. EncodeTarget(t) = (head \o t.domain) \o last
    BY <1>2, <2>2 DEF EncodeTarget
  <2> HIDE DEF head, last
  <2> DEFINE front == head \o t.domain
  <2>5. /\ front \in Seq(Cell) /\ Len(front) = Len(t.domain) + 2
        /\ front[1] = KindName /\ front[2] = Len(t.domain) /\ Has(front, 3, t.domain)
        /\ 1 \in 1..Len(front) /\ 2 \in 1..Len(front)
    <3>1. /\ front \in Seq(Cell) /\ Len(front) = Len(head) + Len(t.domain)
          /\ \A i \in 1..Len(head) : front[i] = head[i]
      BY <2>2, <2>3, Glue
    <3>2. Has(front, Len(head) + 1, t.domain)
      BY <2>2, <2>3, HasLast
    <3>3. Len(t.domain) \in Nat /\ Len(head) \in Nat /\ Len(head) + 1 = 3
      BY <2>2, <2>3
    <3> QED
      BY <2>3, <3>1, <3>2, <3>3
  <2> HIDE DEF front
  <2>6. /\ front \o last \in Seq(Cell) /\ Len(front \o last) = Len(front) + Len(last)
        /\ \A i \in 1..Len(front) : (front \o last)[i] = front[i]
        /\ \A i \in 1..Len(last) : (front \o last)[Len(front) + i] = last[i]
    BY <2>3, <2>5, Glue
  <2>7. Has(front \o last, 3, t.domain)
    BY <2>2, <2>3, <2>5, HasBefore
  <2>8. EncodeTarget(t) = front \o last
    BY <2>4 DEF front
  <2>9. Len(t.domain) \in Nat /\ (Len(t.domain) + 2) + 1 = Len(t.domain) + 3
    BY <2>2
  <2> QED
    BY <1>2, <2>3, <2>5, <2>6, <2>7, <2>8, <2>9
<1> QED
  BY <1>1, <1>2

LEMMA PrefixCell ==
  ASSUME NEW f \in Seq(Cell), NEW g \in Seq(Cell), NEW u \in Seq(Cell), NEW at \in Nat \ {0},
         Has(g, at, u), Prefix(f, g), NEW i \in 1..Len(u), at + i - 1 <= Len(f)
  PROVE  f[at + i - 1] = u[i]
<1>1. Len(f) \in Nat /\ Len(u) \in Nat /\ at + i - 1 \in 1..Len(f)
  OBVIOUS
<1> QED
  BY <1>1 DEF Has, Prefix

(* As much of a target as is there is read, and is one only if all is.     *)
LEMMA TargetRead ==
  ASSUME NEW t \in Targets, NEW f \in Seq(Cell), NEW g \in Seq(Cell), NEW at \in Nat \ {0},
         Has(g, at, EncodeTarget(t)), Prefix(f, g), at <= Len(f)
  PROVE  TargetAt(f, at) = IF at + Len(EncodeTarget(t)) - 1 <= Len(f)
                           THEN [target |-> t, next |-> at + Len(EncodeTarget(t))]
                           ELSE Invalid
<1> DEFINE s == EncodeTarget(t)
<1>1. s \in Seq(Cell) /\ Len(f) \in Nat /\ Len(s) \in Nat /\ KindIpV4 # KindName
  BY TargetWritten DEF KindIpV4, KindName
<1>2. \A i \in 1..Len(s) : at + i - 1 <= Len(f) => f[at + i - 1] = s[i]
  BY <1>1, PrefixCell
<1>3. CASE ~IsDomain(t)
  <2>1. /\ Len(s) = 3 /\ s[1] = KindIpV4 /\ s[2] = t.ip /\ s[3] = t.port
        /\ t = IpTarget(t.ip, t.port)
    BY <1>3, TargetWritten, TargetKinds
  <2>2. 1 \in 1..Len(s) /\ 2 \in 1..Len(s) /\ 3 \in 1..Len(s)
    BY <2>1
  <2> HIDE DEF s
  <2>3. f[at] = KindIpV4
    BY <1>1, <1>2, <2>1, <2>2
  <2>4. at + 2 <= Len(f) => f[at + 1] = t.ip /\ f[at + 2] = t.port
    BY <1>1, <1>2, <2>1, <2>2
  <2>5. at + Len(s) - 1 = at + 2 /\ at + Len(s) = at + 3
    BY <2>1
  <2> QED
    BY <1>1, <2>1, <2>3, <2>4, <2>5 DEF TargetAt, s
<1>4. CASE IsDomain(t)
  <2> DEFINE n == Len(t.domain)
  <2>1. /\ Len(s) = n + 3 /\ s[1] = KindName /\ s[2] = n /\ s[n + 3] = t.port
        /\ Has(s, 3, t.domain)
        /\ t = DomainTarget(t.domain, t.port) /\ t.domain \in Names
    BY <1>4, TargetWritten, TargetKinds
  <2>2. t.domain \in Seq(Cell) /\ n \in Nat /\ n > 0 /\ IsText(t.domain)
    BY <2>1, NameCells
  <2>3. 1 \in 1..Len(s) /\ 2 \in 1..Len(s) /\ n + 3 \in 1..Len(s)
    BY <2>1, <2>2
  <2> HIDE DEF s, n
  <2>4. f[at] = KindName
    BY <1>1, <1>2, <2>1, <2>3
  <2>5. Len(f) > at => f[at + 1] = n
    BY <1>1, <1>2, <2>1, <2>3
  <2>6. CASE at + Len(s) - 1 <= Len(f)
    <3>1. f[at + n + 2] = t.port
      BY <1>1, <1>2, <2>1, <2>2, <2>3, <2>6
    <3>2. Cells(f, at + 2, at + 1 + n) = t.domain
      <4>1. Has(f, at + 2, t.domain)
        <5>1. \A i \in 1..n : 2 + i \in 1..Len(s) /\ s[2 + i] = t.domain[i]
          <6>1. \A i \in 1..n : 3 + i - 1 = 2 + i /\ 2 + i \in 1..Len(s)
            BY <2>1, <2>2
          <6> QED
            BY <2>1, <6>1 DEF Has, n
        <5>2. \A i \in 1..n : f[(at + 2) + i - 1] = t.domain[i]
          <6>1. \A i \in 1..n : /\ at + (2 + i) - 1 = (at + 2) + i - 1
                                /\ at + (2 + i) - 1 <= Len(f)
            BY <1>1, <2>1, <2>2, <2>6
          <6> QED
            BY <1>2, <5>1, <6>1
        <5>3. (at + 2) + n - 1 <= Len(f)
          BY <1>1, <2>1, <2>2, <2>6
        <5> QED
          BY <5>2, <5>3 DEF Has, n
      <4>2. at + 2 \in Nat \ {0} /\ (at + 2) + n - 1 = at + 1 + n
        BY <2>2
      <4> QED
        BY <2>2, <4>1, <4>2, Slice, ZenonT(60) DEF n
    <3>3. /\ Len(f) > at /\ Len(f) >= at + n + 2
          /\ (at + 1 + n) + 1 = at + n + 2 /\ (at + 1 + n) + 2 = at + Len(s)
      BY <1>1, <2>1, <2>2, <2>6
    <3>4. TargetAt(f, at) = [target |-> DomainTarget(t.domain, f[(at + 1 + n) + 1]),
                             next |-> (at + 1 + n) + 2]
      BY <1>1, <2>2, <2>4, <2>5, <3>2, <3>3 DEF TargetAt
    <3> QED
      BY <2>1, <2>6, <3>1, <3>3, <3>4 DEF s
  <2>7. CASE ~(at + Len(s) - 1 <= Len(f))
    <3>1. ~(Len(f) > at /\ Len(f) >= at + f[at + 1] + 2)
      BY <1>1, <2>1, <2>2, <2>5, <2>7
    <3> QED
      BY <1>1, <2>4, <2>7, <3>1 DEF TargetAt, s
  <2> QED
    BY <2>6, <2>7
<1> QED
  BY <1>3, <1>4

-----------------------------------------------------------------------------
(* A frame: where each of its fields is.  Size is Len under a name that     *)
(* stays folded: the provers rewrite an equation on Len into one on DOMAIN. *)
Size(s) == Len(s)

LEMMA GlueSize ==
  ASSUME NEW s \in Seq(Cell)
  PROVE  /\ Size(s) \in Nat /\ Has(s, 1, s)
         /\ \A t \in Seq(Cell) : /\ s \o t \in Seq(Cell) /\ Size(s \o t) = Size(s) + Size(t)
                                 /\ Has(s \o t, Size(s) + 1, t)
<1>1. Size(s) \in Nat /\ Has(s, 1, s)
  BY DEF Size, Has
<1>2. \A t \in Seq(Cell) : s \o t \in Seq(Cell) /\ Size(s \o t) = Size(s) + Size(t)
  BY Glue DEF Size
<1>3. \A t \in Seq(Cell) : Has(s \o t, Size(s) + 1, t)
  BY HasLast DEF Size
<1> QED
  BY <1>1, <1>2, <1>3

LEMMA HasStill ==
  ASSUME NEW s \in Seq(Cell), NEW t \in Seq(Cell), NEW u \in Seq(Cell), NEW at \in Nat \ {0}
  PROVE  Has(s, at, u) => Has(s \o t, at, u)
BY HasBefore

(* The cells of a frame, each field behind the one before. *)
Layout(g, e, m, n, p) ==
  /\ Size(g) = m + n + 9 + p
  /\ Has(g, 1, <<Version, e.id>>) /\ Has(g, 3, EncodeTarget(e.target))
  /\ Has(g, m + 3, BigEndian2(n)) /\ Has(g, m + 5, e.client.ip)
  /\ Has(g, m + n + 5, <<e.client.port>>) /\ Has(g, m + n + 6, BigEndian4(p))
  /\ Has(g, m + n + 10, e.payload)

(* An envelope is written without an error, in the layout. *)
LEMMA FrameWritten ==
  ASSUME NEW e \in Envelopes,
         NEW g, g = EncodeDatagram(e).cells,
         NEW m \in Nat, m = Size(EncodeTarget(e.target)),
         NEW n \in Nat, n = Size(e.client.ip)
  PROVE  /\ EncodeDatagram(e) # Invalid /\ EncodeDatagram(e) = [cells |-> g]
         /\ g \in Seq(Cell) /\ Layout(g, e, m, n, Size(e.payload))
<1>1. /\ e.id = Association /\ e.client = Client
      /\ e.target \in Targets /\ e.payload \in Payloads
  BY DEF Envelopes
<1>2. /\ e.client.ip \in Seq(Cell \ {0}) /\ e.client.port \in Cell /\ n < Base * Base
      /\ e.id \in Cell
  BY <1>1, ConnectionAssumption DEF Size
<1>3. e.client.ip \in Seq(Cell) /\ IsText(e.client.ip)
  BY <1>2 DEF IsText
<1>4. e.payload \in Seq(Cell) /\ Len(e.payload) \in Nat
  BY <1>1 DEF Payloads
<1>5. EncodeTarget(e.target) \in Seq(Cell) 
  BY <1>1, TargetWritten
<1>6. ~(IsDomain(e.target) /\ Len(e.target.domain) >= Base)
  <2>1. IsDomain(e.target) => e.target.domain \in Names
    BY <1>1, TargetKinds
  <2> QED
    BY <2>1, CodecAssumption DEF Names
<1> DEFINE cells == <<Version, e.id>> \o EncodeTarget(e.target)
                      \o BigEndian2(n) \o e.client.ip \o <<e.client.port>>
                      \o BigEndian4(Len(e.payload)) \o e.payload
<1>7. EncodeDatagram(e) = [cells |-> cells]
  BY <1>6 DEF EncodeDatagram, Size
<1>8. EncodeDatagram(e).cells = cells /\ EncodeDatagram(e) # Invalid
  <2> HIDE DEF cells
  <2> QED
    BY <1>7 DEF Invalid
<1>9. g = cells
  BY <1>8
<1>10. /\ BigEndian2(n) \in Seq(Cell) /\ Len(BigEndian2(n)) = 2
       /\ BigEndian4(Len(e.payload)) \in Seq(Cell) /\ Len(BigEndian4(Len(e.payload))) = 4
  BY <1>2, <1>4, TwoCells, FourCells
<1>11. /\ <<Version, e.id>> \in Seq(Cell) /\ Len(<<Version, e.id>>) = 2
       /\ <<e.client.port>> \in Seq(Cell) /\ Len(<<e.client.port>>) = 1
  BY <1>2, SmallCells
<1> DEFINE p1 == <<Version, e.id>>
           p3 == BigEndian2(n)
           p5 == <<e.client.port>>
           p6 == BigEndian4(Len(e.payload))
           p2 == EncodeTarget(e.target)
           p4 == e.client.ip
           p7 == e.payload
<1>12. /\ p1 \in Seq(Cell) /\ p2 \in Seq(Cell) /\ p3 \in Seq(Cell) /\ p4 \in Seq(Cell)
       /\ p5 \in Seq(Cell) /\ p6 \in Seq(Cell) /\ p7 \in Seq(Cell)
  BY <1>3, <1>4, <1>5, <1>10, <1>11
<1>13. /\ Size(p1) = 2 /\ Size(p2) = m /\ Size(p3) = 2 /\ Size(p4) = n
       /\ Size(p5) = 1 /\ Size(p6) = 4
  <2>1. Size(p1) = 2 /\ Size(p5) = 1
    BY DEF Size
  <2>2. Size(p3) = 2 /\ Size(p6) = 4
    BY DEF Size, BigEndian2, BigEndian4
  <2>3. Size(p2) = m /\ Size(p4) = n
    OBVIOUS
  <2> QED
    BY <2>1, <2>2, <2>3
<1> DEFINE f2 == p1 \o p2
           f3 == f2 \o p3
           f4 == f3 \o p4
           f5 == f4 \o p5
           f6 == f5 \o p6
           f7 == f6 \o p7
<1>14. g = f7
  BY <1>9
<1> HIDE DEF p1, p2, p3, p4, p5, p6, p7, cells
<1>15. /\ 1 \in Nat \ {0} /\ 3 \in Nat \ {0} /\ m + 3 \in Nat \ {0} /\ m + 5 \in Nat \ {0}
       /\ m + n + 5 \in Nat \ {0} /\ m + n + 6 \in Nat \ {0}
       /\ 2 + 1 = 3 /\ (m + 2) + 1 = m + 3 /\ (m + 2) + 2 = m + 4 /\ (m + 4) + 1 = m + 5
       /\ (m + 4) + n = m + n + 4 /\ (m + n + 4) + 1 = m + n + 5 /\ (m + n + 5) + 1 = m + n + 6
       /\ (m + n + 5) + 4 = m + n + 9 /\ (m + n + 9) + 1 = m + n + 10 /\ 2 + m = m + 2
  OBVIOUS
<1>16. /\ f2 \in Seq(Cell) /\ Size(f2) = m + 2
       /\ Has(f2, 1, p1) /\ Has(f2, 3, p2)
  <2>1. /\ f2 \in Seq(Cell) /\ Size(f2) = m + 2
        /\ Has(f2, 3, p2)
    <3>1. /\ f2 \in Seq(Cell) /\ Size(f2) = Size(p1) + Size(p2)
          /\ Has(f2, Size(p1) + 1, p2)
      BY <1>12, GlueSize
    <3> HIDE DEF f2
    <3> QED
      BY <1>13, <1>15, <3>1
  <2>2. /\ Has(f2, 1, p1)
    BY <1>12, <1>15, GlueSize, HasStill
  <2> QED
    BY <2>1, <2>2
<1> HIDE DEF f2
<1>17. /\ f3 \in Seq(Cell) /\ Size(f3) = m + 4
       /\ Has(f3, 1, p1) /\ Has(f3, 3, p2) /\ Has(f3, m + 3, p3)
  <2>1. /\ f3 \in Seq(Cell) /\ Size(f3) = m + 4
        /\ Has(f3, m + 3, p3)
    BY <1>12, <1>13, <1>15, <1>16, GlueSize
  <2>2. /\ Has(f3, 1, p1) /\ Has(f3, 3, p2)
    BY <1>12, <1>15, <1>16, HasStill
  <2> QED
    BY <2>1, <2>2
<1> HIDE DEF f3
<1>18. /\ f4 \in Seq(Cell) /\ Size(f4) = m + n + 4
       /\ Has(f4, 1, p1) /\ Has(f4, 3, p2) /\ Has(f4, m + 3, p3) /\ Has(f4, m + 5, p4)
  <2>1. /\ f4 \in Seq(Cell) /\ Size(f4) = m + n + 4
        /\ Has(f4, m + 5, p4)
    BY <1>12, <1>13, <1>15, <1>17, GlueSize
  <2>2. /\ Has(f4, 1, p1) /\ Has(f4, 3, p2) /\ Has(f4, m + 3, p3)
    BY <1>12, <1>15, <1>17, HasStill
  <2> QED
    BY <2>1, <2>2
<1> HIDE DEF f4
<1>19. /\ f5 \in Seq(Cell) /\ Size(f5) = m + n + 5
       /\ Has(f5, 1, p1) /\ Has(f5, 3, p2) /\ Has(f5, m + 3, p3) /\ Has(f5, m + 5, p4)
       /\ Has(f5, m + n + 5, p5)
  <2>1. /\ f5 \in Seq(Cell) /\ Size(f5) = m + n + 5
        /\ Has(f5, m + n + 5, p5)
    BY <1>12, <1>13, <1>15, <1>18, GlueSize
  <2>2. /\ Has(f5, 1, p1) /\ Has(f5, 3, p2) /\ Has(f5, m + 3, p3) /\ Has(f5, m + 5, p4)
    BY <1>12, <1>15, <1>18, HasStill
  <2> QED
    BY <2>1, <2>2
<1> HIDE DEF f5
<1>20. /\ f6 \in Seq(Cell) /\ Size(f6) = m + n + 9
       /\ Has(f6, 1, p1) /\ Has(f6, 3, p2) /\ Has(f6, m + 3, p3) /\ Has(f6, m + 5, p4)
       /\ Has(f6, m + n + 5, p5) /\ Has(f6, m + n + 6, p6)
  <2>1. /\ f6 \in Seq(Cell) /\ Size(f6) = m + n + 9
        /\ Has(f6, m + n + 6, p6)
    BY <1>12, <1>13, <1>15, <1>19, GlueSize
  <2>2. /\ Has(f6, 1, p1) /\ Has(f6, 3, p2) /\ Has(f6, m + 3, p3) /\ Has(f6, m + 5, p4)
        /\ Has(f6, m + n + 5, p5)
    BY <1>12, <1>15, <1>19, HasStill
  <2> QED
    BY <2>1, <2>2
<1> HIDE DEF f6
<1>21. /\ f7 \in Seq(Cell) /\ Size(f7) = m + n + 9 + Size(p7)
       /\ Has(f7, 1, p1) /\ Has(f7, 3, p2) /\ Has(f7, m + 3, p3) /\ Has(f7, m + 5, p4)
       /\ Has(f7, m + n + 5, p5) /\ Has(f7, m + n + 6, p6) /\ Has(f7, m + n + 10, p7)
  <2>1. /\ f7 \in Seq(Cell) /\ Size(f7) = m + n + 9 + Size(p7)
        /\ Has(f7, m + n + 10, p7)
    BY <1>12, <1>13, <1>15, <1>20, GlueSize
  <2>2. /\ Has(f7, 1, p1) /\ Has(f7, 3, p2) /\ Has(f7, m + 3, p3) /\ Has(f7, m + 5, p4)
        /\ Has(f7, m + n + 5, p5) /\ Has(f7, m + n + 6, p6)
    BY <1>12, <1>15, <1>20, HasStill
  <2> QED
    BY <2>1, <2>2
<1> HIDE DEF f7
<1> QED
  BY <1>1, <1>2, <1>3, <1>5, <1>7, <1>8, <1>14, <1>21 DEF Layout, Size, p1, p2, p3, p4, p5, p6, p7

-----------------------------------------------------------------------------
(* What a frame, or the beginning of one, is read as. *)
LEMMA FieldRead ==
  ASSUME NEW f \in Seq(Cell), NEW g \in Seq(Cell), NEW u \in Seq(Cell), NEW at \in Nat \ {0},
         Has(g, at, u), Prefix(f, g), NEW last \in Nat, at + Size(u) = last + 1, last <= Size(f)
  PROVE  Cells(f, at, last) = u
<1>1. Size(u) \in Nat
  BY GlueSize
<1>2. last = at + Size(u) - 1
  BY <1>1
<1>3. last = at + Len(u) - 1 /\ last <= Len(f)
  BY <1>2 DEF Size
<1>4. Has(f, at, u)
  BY <1>3, HasInPrefix
<1> QED
  BY <1>3, <1>4, Slice

(* One cell of a field that lies inside the frame. *)
LEMMA CellRead ==
  ASSUME NEW f \in Seq(Cell), NEW g \in Seq(Cell), NEW u \in Seq(Cell), NEW at \in Nat \ {0},
         Has(g, at, u), Prefix(f, g), NEW i \in Nat \ {0}, i <= Size(u),
         NEW k \in Nat, at + i = k + 1, k <= Size(f)
  PROVE  f[k] = u[i]
<1>1. i \in 1..Len(u) /\ at + i - 1 <= Len(f) /\ k = at + i - 1
  <2>1. k <= Len(f) /\ i <= Len(u)
    BY DEF Size
  <2> QED
    BY <2>1
<1> QED
  BY <1>1, PrefixCell

(* Both length fields are read back. *)
LEMMA LengthFields ==
  ASSUME NEW n \in Nat
  PROVE  /\ BigEndian2(n) \in Seq(Cell) /\ Size(BigEndian2(n)) = 2
         /\ BigEndian4(n) \in Seq(Cell) /\ Size(BigEndian4(n)) = 4
         /\ n < Base * Base => Value2(BigEndian2(n)) = n
         /\ n < Base * Base * Base * Base => Value4(BigEndian4(n)) = n
<1>1. Size(BigEndian2(n)) = 2 /\ Size(BigEndian4(n)) = 4
  BY DEF Size, BigEndian2, BigEndian4
<1> QED
  BY <1>1, TwoCells, FourCells DEF Value2

(* The fields of an envelope have the lengths that the layout needs. *)
LEMMA EnvelopeFields ==
  ASSUME NEW e \in Envelopes
  PROVE  /\ e.id \in Cell /\ e.target \in Targets
         /\ e.client.ip \in Seq(Cell) /\ IsText(e.client.ip) /\ Size(e.client.ip) < Base * Base
         /\ e.client.port \in Cell
         /\ e.payload \in Seq(Cell) /\ Size(e.payload) < Base * Base * Base * Base
         /\ EncodeTarget(e.target) \in Seq(Cell) /\ Size(EncodeTarget(e.target)) >= 3
         /\ Size(EncodeTarget(e.target)) \in Nat /\ Size(e.client.ip) \in Nat
         /\ Size(e.payload) \in Nat
         /\ e = [id |-> e.id, client |-> e.client, target |-> e.target, payload |-> e.payload]
         /\ e.client = [ip |-> e.client.ip, port |-> e.client.port]
<1>1. /\ e.id = Association /\ e.client = Client
      /\ e.target \in Targets /\ e.payload \in Payloads
      /\ e = [id |-> e.id, client |-> e.client, target |-> e.target, payload |-> e.payload]
  BY DEF Envelopes
<1>2. /\ e.client.ip \in Seq(Cell \ {0}) /\ e.client.port \in Cell
      /\ Size(e.client.ip) < Base * Base /\ e.id \in Cell
      /\ e.client = [ip |-> e.client.ip, port |-> e.client.port]
  BY <1>1, ConnectionAssumption DEF Size
<1>3. e.client.ip \in Seq(Cell) /\ IsText(e.client.ip)
  BY <1>2 DEF IsText
<1>4. e.payload \in Seq(Cell) /\ Size(e.payload) < Base * Base * Base * Base
  <2>1. Base * Base * Base * Base \in Nat
    BY CodecAssumption
  <2> QED
    BY <1>1, <2>1, CodecAssumption DEF Payloads, Size
<1>5. EncodeTarget(e.target) \in Seq(Cell) /\ Len(EncodeTarget(e.target)) >= 3
  <2>1. IsDomain(e.target) => e.target.domain \in Names
    BY <1>1, TargetKinds
  <2>2. IsDomain(e.target) => Len(e.target.domain) \in Nat
    BY <2>1 DEF Names
  <2> QED
    BY <1>1, <2>2, TargetWritten
<1>6. Size(EncodeTarget(e.target)) >= 3
  BY <1>5 DEF Size
<1> QED
  BY <1>1, <1>2, <1>3, <1>4, <1>5, <1>6, GlueSize

(* The envelope a frame was made of, if all of it is there, else Invalid.  *)
LEMMA LayoutRead ==
  ASSUME NEW e \in Envelopes, NEW f \in Seq(Cell), NEW g \in Seq(Cell), Prefix(f, g),
         Layout(g, e, Size(EncodeTarget(e.target)), Size(e.client.ip), Size(e.payload))
  PROVE  DecodeDatagram(f) = IF Len(f) = Len(g) THEN e ELSE Invalid
<1> DEFINE s == EncodeTarget(e.target)
           m == Size(s)
           n == Size(e.client.ip)
           p == Size(e.payload)
           l == Size(f)
<1>1. /\ s \in Seq(Cell) /\ e.client.ip \in Seq(Cell) /\ e.payload \in Seq(Cell)
      /\ m \in Nat /\ n \in Nat /\ p \in Nat /\ l \in Nat /\ m >= 3
      /\ p < Base * Base * Base * Base /\ e.target \in Targets
  BY EnvelopeFields, GlueSize
<1>2. /\ n < Base * Base /\ IsText(e.client.ip) /\ e.client.port \in Cell
      /\ Has(g, 1, <<Version, e.id>>) /\ Has(g, 3, s)
      /\ Has(g, m + 3, BigEndian2(n)) /\ Has(g, m + 5, e.client.ip)
      /\ Has(g, m + n + 5, <<e.client.port>>)
      /\ Has(g, m + n + 6, BigEndian4(p)) /\ Has(g, m + n + 10, e.payload)
  BY EnvelopeFields DEF Layout
<1>3. Size(g) = m + n + 9 + p
  BY DEF Layout
<1>8. Len(f) = l /\ Len(g) = Size(g)
  BY DEF Size
<1>4. /\ e.id \in Cell
      /\ e = [id |-> e.id, client |-> e.client, target |-> e.target, payload |-> e.payload]
      /\ e.client = [ip |-> e.client.ip, port |-> e.client.port]
  BY EnvelopeFields
<1> HIDE DEF s, m, n, p, l
<1>6. CASE l < 3
  BY <1>1, <1>3, <1>6, <1>8 DEF DecodeDatagram
<1>7. CASE l >= 3
  <2> DEFINE head == TargetAt(f, 3)
  <2>1. f[1] = Version /\ f[2] = e.id
    <3> DEFINE u == <<Version, e.id>>
    <3>1. u \in Seq(Cell) /\ Size(u) = 2 /\ u[1] = Version /\ u[2] = e.id
      BY <1>4, SmallCells DEF Size
    <3>2. Has(g, 1, u)
      BY <1>2
    <3> HIDE DEF u
    <3>3. /\ 1 \in Nat \ {0} /\ 2 \in Nat \ {0} /\ 1 <= Size(u) /\ 2 <= Size(u)
          /\ 1 + 1 = 1 + 1 /\ 1 + 2 = 2 + 1 /\ 1 <= Size(f) /\ 2 <= Size(f)
      BY <1>1, <1>7, <3>1 DEF l
    <3>4. f[1] = u[1] /\ f[2] = u[2]
      BY <3>1, <3>2, <3>3, CellRead
    <3> QED
      BY <3>1, <3>4
  <2>2. head = IF m + 2 <= l THEN [target |-> e.target, next |-> m + 3] ELSE Invalid
    <3>1. 3 \in Nat \ {0} /\ 3 <= Len(f)
      BY <1>8, <1>7
    <3>2. head = IF 3 + Len(s) - 1 <= Len(f) THEN [target |-> e.target, next |-> 3 + Len(s)]
                 ELSE Invalid
      BY <1>1, <1>2, <1>3, <3>1, TargetRead DEF s
    <3>3. head = IF 3 + m - 1 <= l THEN [target |-> e.target, next |-> 3 + m] ELSE Invalid
      BY <3>2 DEF m, l, Size
    <3>4. 3 + m - 1 = m + 2 /\ 3 + m = m + 3
      BY <1>1
    <3> QED
      BY <3>3, <3>4
  <2>3. DecodeDatagram(f) = IF head = Invalid THEN Invalid ELSE DecodeRest(f, e.id, head)
    BY <1>1, <1>8, <1>7, <2>1 DEF DecodeDatagram
  <2>4. CASE ~(m + 2 <= l)
    BY <1>1, <1>3, <1>8, <2>2, <2>3, <2>4
  <2>5. CASE m + 2 <= l
    <3> HIDE DEF head
    <3> DEFINE length2 == Cells(f, m + 3, (m + 3) + 1)
               ipEnd   == (m + 3) + 1 + Value2(length2)
               length4 == Cells(f, ipEnd + 2, ipEnd + 5)
               size    == Value4(length4)
               ip      == Cells(f, (m + 3) + 2, ipEnd)
               content == Cells(f, ipEnd + 6, ipEnd + 5 + size)
    <3>1. head = [target |-> e.target, next |-> m + 3] /\ head # Invalid
      BY <2>2, <2>5 DEF Invalid
    <3>2. DecodeDatagram(f) =
            IF \/ l < (m + 3) + 1 \/ l < ipEnd + 5 \/ ~IsText(ip) \/ l < ipEnd + 5 + size
            THEN Invalid
            ELSE [id |-> e.id, target |-> e.target,
                  client |-> [ip |-> ip, port |-> f[ipEnd + 1]], payload |-> content]
      <4>1. head.next = m + 3 /\ head.target = e.target
        BY <3>1
      <4> QED
        BY <1>8, <2>3, <3>1, <4>1 DEF DecodeRest
    <3>3. CASE l < m + 4
      <4>1. l < (m + 3) + 1 /\ l # m + n + 9 + p
        BY <1>1, <3>3
      <4>2. DecodeDatagram(f) = Invalid
        BY <3>2, <4>1
      <4> QED
        BY <1>3, <1>8, <4>1, <4>2
    <3>4. CASE l >= m + 4
      <4>1. length2 = BigEndian2(n)
        <5>1. /\ BigEndian2(n) \in Seq(Cell) /\ Has(g, m + 3, BigEndian2(n))
              /\ m + 3 \in Nat \ {0} /\ (m + 3) + 1 \in Nat
          BY <1>1, <1>2, LengthFields
        <5>2. (m + 3) + Size(BigEndian2(n)) = ((m + 3) + 1) + 1 /\ (m + 3) + 1 <= Size(f)
          BY <1>1, <3>4, LengthFields DEF l
        <5> QED
          BY <5>1, <5>2, FieldRead
      <4>2. ipEnd = m + n + 4
        <5>1. Value2(length2) = n
          BY <1>1, <1>2, <4>1, LengthFields
        <5> HIDE DEF length2
        <5> QED
          BY <1>1, <5>1
      <4> HIDE DEF ipEnd
      <4>3. CASE l < m + n + 9
        <5>1. l < ipEnd + 5 /\ l # m + n + 9 + p
          BY <1>1, <4>2, <4>3
        <5>2. DecodeDatagram(f) = Invalid
          BY <3>2, <5>1
        <5> QED
          BY <1>3, <1>8, <5>1, <5>2
      <4>4. CASE l >= m + n + 9
        <5>1. ip = e.client.ip
          <6>1. /\ e.client.ip \in Seq(Cell) /\ Has(g, m + 5, e.client.ip)
                /\ m + 5 \in Nat \ {0} /\ m + n + 4 \in Nat
            <7>1. m + 5 \in Nat \ {0} /\ m + n + 4 \in Nat
              BY <1>1
            <7> QED
              BY <1>1, <1>2, <7>1
          <6>2. (m + 5) + Size(e.client.ip) = (m + n + 4) + 1 /\ m + n + 4 <= Size(f)
            <7>1. (m + 5) + n = (m + n + 4) + 1 /\ m + n + 4 <= l
              BY <1>1, <4>4
            <7> QED
              BY <7>1 DEF n, l
          <6>3. (m + 3) + 2 = m + 5
            BY <1>1
          <6>4. Cells(f, m + 5, m + n + 4) = e.client.ip
            BY <6>1, <6>2, FieldRead
          <6> QED
            BY <4>2, <6>3, <6>4
        <5>2. f[ipEnd + 1] = e.client.port
          <6> DEFINE u == <<e.client.port>>
          <6>1. u \in Seq(Cell) /\ Size(u) = 1 /\ u[1] = e.client.port /\ Has(g, m + n + 5, u)
            BY <1>2 DEF Size
          <6> HIDE DEF u
          <6>2. /\ (m + n + 5) + 1 = (m + n + 5) + 1 /\ (m + n + 4) + 1 = m + n + 5
                /\ m + n + 5 \in Nat \ {0} /\ m + n + 5 \in Nat /\ m + n + 5 <= Size(f)
                /\ 1 \in Nat \ {0} /\ 1 <= Size(u)
            BY <1>1, <4>4, <6>1 DEF l
          <6>3. f[m + n + 5] = u[1]
            BY <6>1, <6>2, CellRead
          <6> QED
            BY <4>2, <6>1, <6>2, <6>3
        <5>3. size = p
          <6>1. /\ BigEndian4(p) \in Seq(Cell) /\ Has(g, m + n + 6, BigEndian4(p))
                /\ m + n + 6 \in Nat \ {0} /\ m + n + 9 \in Nat
                /\ (m + n + 6) + Size(BigEndian4(p)) = (m + n + 9) + 1 /\ m + n + 9 <= Size(f)
            <7>1. BigEndian4(p) \in Seq(Cell) /\ Size(BigEndian4(p)) = 4
              BY <1>1, LengthFields
            <7>2. Has(g, m + n + 6, BigEndian4(p))
              BY <1>2
            <7>3. m + n + 6 \in Nat \ {0} /\ m + n + 9 \in Nat /\ (m + n + 6) + 4 = (m + n + 9) + 1
              BY <1>1
            <7>4. m + n + 9 <= Size(f)
              BY <4>4 DEF l
            <7> QED
              BY <7>1, <7>2, <7>3, <7>4
          <6>3. (m + n + 4) + 2 = m + n + 6 /\ (m + n + 4) + 5 = m + n + 9
            BY <1>1
          <6>4. Cells(f, m + n + 6, m + n + 9) = BigEndian4(p)
            BY <6>1, FieldRead
          <6>2. length4 = BigEndian4(p)
            BY <4>2, <6>3, <6>4
          <6> QED
            BY <1>1, <6>2, LengthFields
        <5> HIDE DEF size, ip
        <5>4. CASE l < m + n + 9 + p
          BY <1>1, <1>3, <1>8, <3>2, <4>2, <4>4, <5>3, <5>4
        <5>5. CASE l >= m + n + 9 + p
          <6>1. l = m + n + 9 + p
            BY <1>1, <1>3, <1>8, <5>5 DEF Prefix
          <6>2. content = e.payload
            <7>1. /\ e.payload \in Seq(Cell) /\ Has(g, m + n + 10, e.payload)
                  /\ m + n + 10 \in Nat \ {0} /\ m + n + 9 + p \in Nat
              <8>1. m + n + 10 \in Nat \ {0} /\ m + n + 9 + p \in Nat
                BY <1>1
              <8>2. e.payload \in Seq(Cell)
                BY <1>1
              <8>3. Has(g, m + n + 10, e.payload)
                BY <1>2
              <8> QED
                BY <8>1, <8>2, <8>3
            <7>2. (m + n + 10) + Size(e.payload) = (m + n + 9 + p) + 1 /\ m + n + 9 + p <= Size(f)
              <8>1. (m + n + 10) + p = (m + n + 9 + p) + 1 /\ m + n + 9 + p <= l
                BY <1>1, <5>5
              <8> QED
                BY <8>1 DEF p, l
            <7>3. (m + n + 4) + 6 = m + n + 10 /\ (m + n + 4) + 5 + p = m + n + 9 + p
              BY <1>1
            <7>4. Cells(f, m + n + 10, m + n + 9 + p) = e.payload
              BY <7>1, <7>2, FieldRead
            <7> QED
              BY <4>2, <5>3, <7>3, <7>4
          <6> HIDE DEF content
          <6>3. ~(l < (m + 3) + 1 \/ l < ipEnd + 5 \/ ~IsText(ip) \/ l < ipEnd + 5 + size)
            <7>1. ~(l < (m + 3) + 1) /\ ~(l < (m + n + 4) + 5) /\ ~(l < (m + n + 4) + 5 + p)
              BY <1>1, <6>1
            <7> QED
              BY <1>2, <4>2, <5>1, <5>3, <7>1
          <6>4. DecodeDatagram(f) =
                  [id |-> e.id, target |-> e.target,
                   client |-> [ip |-> e.client.ip, port |-> e.client.port],
                   payload |-> e.payload]
            BY <3>2, <5>1, <5>2, <6>2, <6>3
          <6> QED
            BY <1>3, <1>4, <1>8, <6>1, <6>4
        <5> QED
          BY <1>1, <5>4, <5>5
      <4> QED
        BY <1>1, <4>3, <4>4
    <3> QED
      BY <1>1, <3>3, <3>4
  <2> QED
    BY <1>1, <2>4, <2>5
<1> QED
  BY <1>1, <1>6, <1>7

(* A frame decodes to the envelope it was made of; cut short, it is refused. *)
LEMMA FrameRoundTrip ==
  ASSUME NEW e \in Envelopes
  PROVE  /\ EncodeDatagram(e) # Invalid
         /\ EncodeDatagram(e).cells \in Seq(Cell)
         /\ DecodeDatagram(EncodeDatagram(e).cells) = e
         /\ \A n \in 0..(Len(EncodeDatagram(e).cells) - 1) :
              DecodeDatagram(SubSeq(EncodeDatagram(e).cells, 1, n)) = Invalid
<1>1. /\ EncodeDatagram(e) # Invalid /\ EncodeDatagram(e).cells \in Seq(Cell)
      /\ Layout(EncodeDatagram(e).cells, e, Size(EncodeTarget(e.target)), Size(e.client.ip),
                Size(e.payload))
  BY FrameWritten, EnvelopeFields
<1> DEFINE g == EncodeDatagram(e).cells
<1>2. /\ g \in Seq(Cell)
      /\ Layout(g, e, Size(EncodeTarget(e.target)), Size(e.client.ip), Size(e.payload))
  BY <1>1
<1> HIDE DEF g
<1>3. DecodeDatagram(g) = e
  <2>1. Prefix(g, g)
    BY <1>2 DEF Prefix
  <2> QED
    BY <1>2, <2>1, LayoutRead
<1>4. ASSUME NEW n \in 0..(Len(g) - 1)
      PROVE  DecodeDatagram(SubSeq(g, 1, n)) = Invalid
  <2> DEFINE f == SubSeq(g, 1, n)
  <2>1. f \in Seq(Cell) /\ Len(f) # Len(g) /\ Prefix(f, g)
    <3>1. n \in Nat /\ n <= Len(g) /\ n # Len(g) /\ Len(g) \in Nat
      BY <1>2
    <3>2. f = [i \in 1..n |-> g[i]] /\ \A i \in 1..n : g[i] \in Cell
      BY <1>2, <3>1
    <3>3. f \in Seq(Cell) /\ Len(f) = n /\ \A i \in 1..n : f[i] = g[i]
      BY <3>1, <3>2
    <3> HIDE DEF f
    <3> QED
      BY <3>1, <3>3 DEF Prefix
  <2> HIDE DEF f
  <2>2. DecodeDatagram(f) = Invalid
    BY <1>2, <2>1, LayoutRead
  <2> QED
    BY <2>2 DEF f
<1> QED
  BY <1>1, <1>3, <1>4 DEF g

-----------------------------------------------------------------------------
(* Packets of the local client. *)
LEMMA TargetTyped ==
  ASSUME NEW f \in Seq(Cell), NEW at \in Nat \ {0}, at <= Len(f), TargetAt(f, at) # Invalid
  PROVE  /\ TargetAt(f, at).next \in Nat \ {0} /\ TargetAt(f, at).next <= Len(f) + 1
         /\ \/ TargetAt(f, at).target \in [ip : Cell, port : Cell]
            \/ /\ TargetAt(f, at).target \in [domain : Seq(Cell \ {0}), port : Cell]
               /\ Len(TargetAt(f, at).target.domain) < Base
<1>1. Len(f) \in Nat /\ f[at] \in Cell /\ KindIpV4 # KindName
  BY DEF KindIpV4, KindName
<1>2. CASE f[at] = KindIpV4 /\ Len(f) >= at + 2
  <2>1. TargetAt(f, at) = [target |-> IpTarget(f[at + 1], f[at + 2]), next |-> at + 3]
    BY <1>1, <1>2 DEF TargetAt
  <2>2. f[at + 1] \in Cell /\ f[at + 2] \in Cell /\ at + 3 \in Nat \ {0} /\ at + 3 <= Len(f) + 1
    BY <1>1, <1>2
  <2> QED
    BY <2>1, <2>2 DEF IpTarget
<1>3. CASE f[at] = KindName /\ Len(f) > at /\ Len(f) >= at + f[at + 1] + 2
  <2> DEFINE n    == f[at + 1]
             end  == at + 1 + n
             name == Cells(f, at + 2, end)
  <2>1. n \in Cell /\ n \in Nat /\ n < Base /\ Len(f) >= at + n + 2
    <3>1. f[at + 1] \in Cell
      BY <1>1, <1>3
    <3> QED
      BY <1>3, <3>1, CodecAssumption DEF Cell
  <2> HIDE DEF n
  <2>2. name \in Seq(Cell) /\ Len(name) = n
    <3>1. (at + 2) + n - 1 = end /\ (at + 2) + n - 1 <= Len(f) /\ at + 2 \in Nat \ {0}
      BY <1>1, <2>1
    <3> HIDE DEF end
    <3> QED
      BY <2>1, <3>1, SliceIsCells
  <2>3. end + 1 \in 1..Len(f) /\ end + 2 \in Nat \ {0} /\ end + 2 <= Len(f) + 1
    BY <1>1, <2>1
  <2>4. TargetAt(f, at) = IF IsText(name)
                          THEN [target |-> DomainTarget(name, f[end + 1]), next |-> end + 2]
                          ELSE Invalid
    BY <1>1, <1>3 DEF TargetAt, n
  <2> HIDE DEF name, end
  <2>5. IsText(name) /\ name \in Seq(Cell \ {0}) /\ Len(name) < Base
    <3>1. IsText(name)
      BY <2>4
    <3> QED
      BY <2>1, <2>2, <3>1 DEF IsText
  <2> QED
    BY <2>3, <2>4, <2>5 DEF DomainTarget
<1>4. CASE ~(f[at] = KindIpV4 /\ Len(f) >= at + 2)
           /\ ~(f[at] = KindName /\ Len(f) > at /\ Len(f) >= at + f[at + 1] + 2)
  BY <1>4 DEF TargetAt
<1> QED
  BY <1>2, <1>3, <1>4

(* What a packet parses to is an envelope of this association. *)
LEMMA PacketParsed ==
  ASSUME NEW p \in Seq(Cell), ParsePacket(p, Association, Client) # Invalid
  PROVE  ParsePacket(p, Association, Client) \in Envelopes
<1> DEFINE head == TargetAt(p, 4)
           pay  == Cells(p, head.next, Len(p))
           e    == [id |-> Association, client |-> Client, target |-> head.target, payload |-> pay]
<1>1. Len(p) >= 4 /\ head # Invalid /\ Valid(e) /\ ParsePacket(p, Association, Client) = e
  BY DEF ParsePacket
<1>2. /\ head.next \in Nat \ {0} /\ head.next <= Len(p) + 1
      /\ \/ head.target \in [ip : Cell, port : Cell]
         \/ /\ head.target \in [domain : Seq(Cell \ {0}), port : Cell]
            /\ Len(head.target.domain) < Base
  BY <1>1, TargetTyped
<1> HIDE DEF head
<1>3. pay \in Seq(Cell)
  <2> DEFINE n == Len(p) - head.next + 1
  <2>1. n \in Nat /\ head.next + n - 1 = Len(p) /\ head.next + n - 1 <= Len(p)
    BY <1>2
  <2> HIDE DEF n
  <2> QED
    BY <1>2, <2>1, SliceIsCells, ZenonT(60)
<1> HIDE DEF pay
<1>4. pay \in Payloads
  BY <1>1, <1>3 DEF Valid, Payloads
<1>5. head.target \in Targets
  <2>1. CASE head.target \in [ip : Cell, port : Cell]
    BY <2>1 DEF Targets
  <2>2. CASE /\ head.target \in [domain : Seq(Cell \ {0}), port : Cell]
             /\ Len(head.target.domain) < Base
    <3>1. IsDomain(head.target)
      BY <2>2 DEF IsDomain
    <3>2. head.target.domain # <<>>
      BY <1>1, <3>1 DEF Valid
    <3>3. head.target.domain \in Names
      BY <2>2, <3>2 DEF Names
    <3> QED
      BY <2>2, <3>3 DEF Targets
  <2> QED
    BY <1>2, <2>1, <2>2
<1> QED
  BY <1>1, <1>4, <1>5 DEF Envelopes

(* A reply's packet is written without an error and read back. *)
LEMMA PacketRoundTrip ==
  ASSUME NEW e \in Envelopes
  PROVE  /\ EncodePacket(e) # Invalid
         /\ ParsePacket(EncodePacket(e).cells, Association, Client) = e
<1> DEFINE s == EncodeTarget(e.target)
           u == <<0, 0, 0>>
           g == (u \o s) \o e.payload
           m == Size(s)
           p == Size(e.payload)
<1>1. /\ e.id = Association /\ e.client = Client /\ e.target \in Targets /\ e.payload \in Payloads
      /\ e = [id |-> e.id, client |-> e.client, target |-> e.target, payload |-> e.payload]
  BY DEF Envelopes
<1>2. s \in Seq(Cell) /\ e.payload \in Seq(Cell) /\ m \in Nat /\ m >= 3 /\ p \in Nat
  BY EnvelopeFields
<1>3. u \in Seq(Cell) /\ Size(u) = 3 /\ u[1] = 0 /\ u[2] = 0 /\ u[3] = 0
  BY SmallCells DEF Size
<1>4. EncodePacket(e) = [cells |-> g]
  <2>1. IsDomain(e.target) => e.target.domain \in Names
    BY <1>1, TargetKinds
  <2>2. ~(IsDomain(e.target) /\ Len(e.target.domain) >= Base)
    BY <2>1, CodecAssumption DEF Names
  <2> QED
    BY <2>2 DEF EncodePacket
<1> HIDE DEF s, u, m, p
<1>5. /\ g \in Seq(Cell) /\ Size(g) = m + p + 3
      /\ Has(g, 1, u) /\ Has(g, 4, s) /\ Has(g, m + 4, e.payload)
  <2> DEFINE h == u \o s
  <2>1. /\ h \in Seq(Cell) /\ Size(h) = Size(u) + Size(s) /\ Has(h, Size(u) + 1, s) /\ Has(u, 1, u)
    BY <1>2, <1>3, GlueSize
  <2>2. Size(h) = m + 3 /\ Has(h, 4, s) /\ 4 \in Nat \ {0} /\ 1 \in Nat \ {0}
    <3>1. Size(u) + Size(s) = m + 3 /\ Size(u) + 1 = 4
      BY <1>2, <1>3 DEF m
    <3> HIDE DEF h
    <3> QED
      BY <2>1, <3>1
  <2>3. Has(h, 1, u)
    BY <1>2, <1>3, <2>1, <2>2, HasStill
  <2> HIDE DEF h
  <2>4. /\ h \o e.payload \in Seq(Cell) /\ Size(h \o e.payload) = Size(h) + Size(e.payload)
        /\ Has(h \o e.payload, Size(h) + 1, e.payload)
    BY <1>2, <2>1, GlueSize
  <2>5. Has(h \o e.payload, 1, u) /\ Has(h \o e.payload, 4, s)
    BY <1>2, <1>3, <2>1, <2>2, <2>3, HasStill
  <2>6. g = h \o e.payload
    BY DEF h
  <2>7. (m + 3) + p = m + p + 3 /\ (m + 3) + 1 = m + 4
    BY <1>2
  <2> HIDE DEF g
  <2> QED
    BY <2>2, <2>4, <2>5, <2>6, <2>7 DEF p
<1> HIDE DEF g
<1>6. Prefix(g, g) /\ Len(g) = Size(g) /\ Len(g) \in Nat
  BY <1>5 DEF Prefix, Size
<1>7. g[1] = 0 /\ g[2] = 0 /\ g[3] = 0
  <2>1. /\ 1 \in Nat \ {0} /\ 2 \in Nat \ {0} /\ 3 \in Nat \ {0}
        /\ 1 <= Size(u) /\ 2 <= Size(u) /\ 3 <= Size(u)
        /\ 1 + 1 = 1 + 1 /\ 1 + 2 = 2 + 1 /\ 1 + 3 = 3 + 1
        /\ 1 <= Size(g) /\ 2 <= Size(g) /\ 3 <= Size(g)
    BY <1>2, <1>3, <1>5
  <2>2. g[1] = u[1] /\ g[2] = u[2] /\ g[3] = u[3]
    BY <1>3, <1>5, <1>6, <2>1, CellRead
  <2> QED
    BY <1>3, <2>2
<1>8. TargetAt(g, 4) = [target |-> e.target, next |-> m + 4]
  <2>1. 4 \in Nat \ {0} /\ 4 <= Len(g)
    BY <1>2, <1>5, <1>6
  <2>2. TargetAt(g, 4) = IF 4 + Len(s) - 1 <= Len(g)
                         THEN [target |-> e.target, next |-> 4 + Len(s)] ELSE Invalid
    BY <1>1, <1>5, <1>6, <2>1, TargetRead DEF s
  <2>3. 4 + m - 1 <= Size(g) /\ 4 + m = m + 4
    BY <1>2, <1>5
  <2> QED
    BY <2>2, <2>3 DEF m, Size
<1>9. Cells(g, m + 4, Len(g)) = e.payload
  <2>1. /\ m + 4 \in Nat \ {0} /\ Size(g) \in Nat /\ (m + 4) + Size(e.payload) = Size(g) + 1
        /\ Size(g) <= Size(g)
    <3>1. m + 4 \in Nat \ {0} /\ m + p + 3 \in Nat /\ (m + 4) + p = (m + p + 3) + 1
      BY <1>2
    <3>2. (m + 4) + p = Size(g) + 1 /\ Size(g) \in Nat
      BY <1>5, <3>1
    <3> QED
      BY <3>1, <3>2 DEF p
  <2>2. Cells(g, m + 4, Size(g)) = e.payload
    BY <1>2, <1>5, <1>6, <2>1, FieldRead
  <2> QED
    BY <1>6, <2>2
<1>10. Valid(e)
  <2>1. IsDomain(e.target) => e.target.domain \in Names
    BY <1>1, TargetKinds
  <2> QED
    BY <1>1, <2>1 DEF Valid, Names, Payloads
<1>11. ParsePacket(g, Association, Client) = e
  <2>1. ~(Len(g) < 4) /\ ~(\E i \in 1..3 : g[i] # 0)
    BY <1>2, <1>5, <1>6, <1>7
  <2>2. TargetAt(g, 4) # Invalid
    BY <1>8 DEF Invalid
  <2> QED
    BY <1>1, <1>8, <1>9, <1>10, <2>1, <2>2 DEF ParsePacket
<1> QED
  BY <1>4, <1>11 DEF Invalid

-----------------------------------------------------------------------------
(* Frames and the queues they are in. *)
Tags == {"token", "ok", "connect", "connected", "open", "ready", "datagram", "chunk", "close",
         "cut"}
Frames == [tag : Tags, cells : Seq(Cell)]
Plain  == {f \in Frames : f.tag # "datagram"}

(* What may be on its way to the server of c, and what to its client: each *)
(* frame says something that is true as long as it can be read.            *)
Upward(c) ==
  {f \in Frames :
     /\ f.tag = "open" => use[c] = "datagram"
     /\ f.tag = "datagram" => /\ envelope[c] \in Envelopes
                              /\ f.cells = EncodeDatagram(envelope[c]).cells}

Downward(c) ==
  {f \in Frames :
     /\ f.tag = "connected" => trusted[c] /\ target[c] # "none"
     /\ f.tag = "ready" => /\ use[c] = "datagram" /\ trusted[c]
                           /\ server[c] \in {"looping", "waiting", "ended"}
     /\ f.tag = "datagram" => /\ envelope[c] \in Envelopes /\ answered[c]
                              /\ f.cells = EncodeDatagram(Reply(c)).cells}

OneDatagram(s) ==
  \A i \in 1..Len(s) : \A j \in 1..Len(s) :
    s[i].tag = "datagram" /\ s[j].tag = "datagram" => i = j

Early(c) == client[c] \in {"idle", "connecting", "authenticating", "requesting"}

(* A datagram is sent once, and once it is received it is nowhere else.    *)
UpQueue(c) ==
  /\ up[c] \in Seq(Upward(c)) /\ OneDatagram(up[c])
  /\ Early(c) \/ remote[c] # Nothing => up[c] \in Seq(Plain)

DownQueue(c) == down[c] \in Seq(Downward(c))

(* The two sides of a connection, as far as each depends on the other.     *)
Handshake(c) ==
  /\ client[c] \in {"idle", "connecting"} => server[c] = "absent"
  /\ server[c] \in {"accepted", "connecting", "relaying", "looping", "waiting"} => trusted[c]
  /\ server[c] \in {"looping", "waiting"} => use[c] = "datagram"
  /\ client[c] \in {"open", "half"} => trusted[c] /\ target[c] # "none"
  /\ client[c] \in {"awaiting", "closing"} =>
       trusted[c] /\ server[c] \in {"looping", "waiting", "ended"}
  /\ client[c] \notin {"open", "half", "ended"} => outcome[c] = "none"

(* Where the datagram of an emission is, and its answer. *)
Exchange(c) ==
  /\ client[c] = "idle" => envelope[c] = Nothing
  /\ use[c] = "datagram" /\ client[c] \notin {"idle", "ended"} => envelope[c] \in Envelopes
  /\ Early(c) => remote[c] = Nothing
  /\ remote[c] # Nothing => envelope[c] \in Envelopes /\ remote[c] = Content(envelope[c])
  /\ answered[c] => remote[c] # Nothing
  /\ server[c] = "waiting" => remote[c] # Nothing /\ ~answered[c]
  /\ got[c] # Nothing => /\ client[c] \in {"closing", "ended"}
                         /\ answered[c] /\ envelope[c] \in Envelopes /\ got[c] = Reply(c)

Types ==
  /\ TypeOK
  /\ envelope \in [Conn -> Envelopes \cup {Nothing}] /\ got \in [Conn -> Envelopes \cup {Nothing}]
  /\ DOMAIN remote = Conn
  /\ up \in [Conn -> Seq(Frames)] /\ down \in [Conn -> Seq(Frames)]

(* Connections are taken one after the other. *)
Sequential ==
  \A c \in Conn : client[c] # "idle" => \A b \in 1..(c - 1) : client[b] = "ended"

ConnInv(c) == UpQueue(c) /\ DownQueue(c) /\ Handshake(c) /\ Exchange(c)

IInv == Types /\ Sequential /\ \A c \in Conn : ConnInv(c)

-----------------------------------------------------------------------------
(* Queues. *)
LEMMA QueueOps ==
  ASSUME NEW S, NEW s \in Seq(S)
  PROVE  /\ s # <<>> => Head(s) \in S /\ Tail(s) \in Seq(S)
         /\ \A t \in Seq(S) : s \o t \in Seq(S)
         /\ <<>> \in Seq(S)
OBVIOUS

(* A queue of frames that may be there is one of frames that still may. *)
LEMMA Wider ==
  ASSUME NEW S, NEW T, S \subseteq T, NEW s \in Seq(S)
  PROVE  s \in Seq(T)
OBVIOUS

(* Without datagrams there is not a second one. *)
LEMMA PlainIsOne ==
  ASSUME NEW s \in Seq(Plain)
  PROVE  OneDatagram(s)
<1>1. \A i \in 1..Len(s) : s[i].tag # "datagram"
  <2>1. \A i \in 1..Len(s) : s[i] \in Plain
    OBVIOUS
  <2> QED
    BY <2>1 DEF Plain
<1> QED
  BY <1>1 DEF OneDatagram

(* Behind plain frames, or before them, one datagram remains one. *)
LEMMA OneGlued ==
  ASSUME NEW s \in Seq(Frames), NEW t \in Seq(Frames),
         \/ OneDatagram(s) /\ t \in Seq(Plain)
         \/ s \in Seq(Plain) /\ OneDatagram(t)
  PROVE  OneDatagram(s \o t)
<1> DEFINE g == s \o t
<1>1. /\ g \in Seq(Frames) /\ Len(g) = Len(s) + Len(t) /\ Len(s) \in Nat /\ Len(t) \in Nat
      /\ \A i \in 1..Len(s) : g[i] = s[i]
      /\ \A i \in 1..Len(t) : g[Len(s) + i] = t[i]
  OBVIOUS
<1> HIDE DEF g
<1>2. ASSUME NEW i \in 1..Len(g), g[i].tag = "datagram"
      PROVE  \/ i \in 1..Len(s) /\ s[i].tag = "datagram"
             \/ i - Len(s) \in 1..Len(t) /\ t[i - Len(s)].tag = "datagram"
  <2>1. CASE i \in 1..Len(s)
    BY <1>1, <1>2, <2>1
  <2>2. CASE i \notin 1..Len(s)
    <3>1. i - Len(s) \in 1..Len(t) /\ Len(s) + (i - Len(s)) = i
      BY <1>1, <2>2
    <3>2. g[Len(s) + (i - Len(s))] = t[i - Len(s)]
      BY <1>1, <3>1
    <3> QED
      BY <1>2, <3>1, <3>2
  <2> QED
    BY <2>1, <2>2
<1>3. \A q \in Seq(Plain) : \A i \in 1..Len(q) : q[i].tag # "datagram"
  <2>1. \A q \in Seq(Plain) : \A i \in 1..Len(q) : q[i] \in Plain
    OBVIOUS
  <2> QED
    BY <2>1 DEF Plain
<1>4. ASSUME NEW i \in 1..Len(g), NEW j \in 1..Len(g),
             g[i].tag = "datagram", g[j].tag = "datagram"
      PROVE  i = j
  <2>1. CASE OneDatagram(s) /\ t \in Seq(Plain)
    <3>1. /\ i \in 1..Len(s) /\ s[i].tag = "datagram"
          /\ j \in 1..Len(s) /\ s[j].tag = "datagram"
      BY <1>2, <1>3, <1>4, <2>1
    <3> QED
      BY <2>1, <3>1 DEF OneDatagram
  <2>2. CASE s \in Seq(Plain) /\ OneDatagram(t)
    <3>1. /\ i - Len(s) \in 1..Len(t) /\ t[i - Len(s)].tag = "datagram"
          /\ j - Len(s) \in 1..Len(t) /\ t[j - Len(s)].tag = "datagram"
      BY <1>2, <1>3, <1>4, <2>2
    <3>2. i - Len(s) = j - Len(s)
      BY <2>2, <3>1 DEF OneDatagram
    <3> QED
      BY <1>1, <3>2
  <2> QED
    BY <2>1, <2>2
<1> QED
  BY <1>4 DEF OneDatagram, g

(* Once the datagram is taken, what is left is plain. *)
LEMMA OneTaken ==
  ASSUME NEW s \in Seq(Frames), OneDatagram(s), s # <<>>
  PROVE  /\ OneDatagram(Tail(s))
         /\ Head(s).tag = "datagram" => Tail(s) \in Seq(Plain)
<1> DEFINE t == Tail(s)
<1>1. /\ t \in Seq(Frames) /\ Len(t) = Len(s) - 1 /\ Len(s) \in Nat /\ Len(s) > 0
      /\ \A i \in 1..Len(t) : t[i] = s[i + 1] /\ i + 1 \in 1..Len(s)
      /\ Head(s) = s[1]
  OBVIOUS
<1> HIDE DEF t
<1>2. ASSUME NEW i \in 1..Len(t), NEW j \in 1..Len(t),
             t[i].tag = "datagram", t[j].tag = "datagram"
      PROVE  i = j
  <2>1. i + 1 = j + 1
    BY <1>1, <1>2 DEF OneDatagram
  <2> QED
    BY <1>1, <2>1
<1>3. ASSUME Head(s).tag = "datagram"
      PROVE  t \in Seq(Plain)
  <2>1. ASSUME NEW i \in 1..Len(t)
        PROVE  t[i] \in Plain
    <3>1. t[i] = s[i + 1] /\ i + 1 \in 1..Len(s) /\ 1 \in 1..Len(s) /\ i + 1 # 1
      BY <1>1
    <3>2. s[i + 1].tag # "datagram"
      BY <1>1, <1>3, <3>1 DEF OneDatagram
    <3>3. t[i] \in Frames
      BY <1>1
    <3> QED
      BY <3>1, <3>2, <3>3 DEF Plain
  <2> QED
    BY <1>1, <2>1
<1> QED
  BY <1>2, <1>3 DEF OneDatagram, t

(* Frames that say nothing may always be on their way. *)
LEMMA PlainFrames ==
  ASSUME NEW t \in Tags \ {"datagram"}, NEW c \in Conn
  PROVE  /\ Frame(t) \in Plain /\ Frame(t) \in Frames
         /\ t # "open" => Frame(t) \in Upward(c)
         /\ t \notin {"connected", "ready"} => Frame(t) \in Downward(c)
<1>1. Frame(t) \in Frames /\ Frame(t).tag = t
  BY DEF Frames, Frame
<1> QED
  BY <1>1 DEF Plain, Upward, Downward

LEMMA QueueTypes ==
  ASSUME NEW c \in Conn
  PROVE  Upward(c) \subseteq Frames /\ Downward(c) \subseteq Frames /\ Plain \subseteq Frames
BY DEF Upward, Downward, Plain

-----------------------------------------------------------------------------
(* A step of one connection leaves the others alone. *)
Same(c) ==
  /\ use'[c] = use[c] /\ trusted'[c] = trusted[c] /\ client'[c] = client[c]
  /\ envelope'[c] = envelope[c] /\ outcome'[c] = outcome[c] /\ server'[c] = server[c]
  /\ up'[c] = up[c] /\ down'[c] = down[c] /\ target'[c] = target[c] /\ remote'[c] = remote[c]
  /\ answered'[c] = answered[c] /\ got'[c] = got[c]

(* A connection that is left alone keeps its part of the invariant. *)
LEMMA SameKeeps ==
  ASSUME NEW c \in Conn, ConnInv(c), Same(c)
  PROVE  ConnInv(c)'
<1>1. Reply(c)' = Reply(c)
  BY DEF Same, Reply
<1>2. Upward(c)' = Upward(c)
  BY DEF Same, Upward
<1>3. Downward(c)' = Downward(c)
  BY <1>1 DEF Same, Downward
<1>4. UpQueue(c)'
  BY <1>2 DEF Same, ConnInv, UpQueue, Early
<1>5. DownQueue(c)'
  BY <1>3 DEF Same, ConnInv, DownQueue
<1>6. Handshake(c)'
  BY DEF Same, ConnInv, Handshake
<1>7. Exchange(c)'
  BY <1>1 DEF Same, ConnInv, Exchange, Early
<1> QED
  BY <1>4, <1>5, <1>6, <1>7 DEF ConnInv

(* What is to be shown of a step of c. *)
LEMMA StepKeeps ==
  ASSUME IInv, NEW c \in Conn, Types', ConnInv(c)',
         \A b \in Conn \ {c} : Same(b),
         client[c] = "ended" => client'[c] = "ended",
         client[c] = "idle" =>
           client'[c] = "idle" \/ \A b \in 1..(c - 1) : client[b] = "ended"
  PROVE  IInv'
<1>1. \A b \in Conn : ConnInv(b)'
  BY SameKeeps DEF IInv
<1>2. Sequential'
  <2> SUFFICES ASSUME NEW x \in Conn, client'[x] # "idle", NEW b \in 1..(x - 1)
               PROVE  client'[b] = "ended"
    BY DEF Sequential
  <2>1. b \in Conn /\ b # x
    BY ConnectionAssumption DEF Conn
  <2>2. client[b] = "ended"
    <3>1. CASE x = c
      BY <3>1 DEF IInv, Sequential
    <3>2. CASE x # c
      <4>1. client[x] # "idle"
        BY <3>2 DEF Same
      <4> QED
        BY <4>1 DEF IInv, Sequential
    <3> QED
      BY <3>1, <3>2
  <2> QED
    BY <2>1, <2>2 DEF Same
<1> QED
  BY <1>1, <1>2 DEF IInv

(* What the steps do to the queues. *)
LEMMA Sends ==
  ASSUME Types, NEW c \in Conn, NEW frames \in Seq(Frames), ToServer(c, frames)
  PROVE  /\ up' \in [Conn -> Seq(Frames)]
         /\ up'[c] = IF server[c] \in {"absent", "ended"} THEN <<>> ELSE up[c] \o frames
         /\ \A b \in Conn \ {c} : up'[b] = up[b]
<1>1. up[c] \o frames \in Seq(Frames) /\ <<>> \in Seq(Frames)
  BY QueueOps DEF Types
<1> QED
  BY <1>1 DEF Types, ToServer

LEMMA Replies ==
  ASSUME Types, NEW c \in Conn, NEW frames \in Seq(Frames), ToClient(c, frames)
  PROVE  /\ down' \in [Conn -> Seq(Frames)]
         /\ down'[c] = IF client[c] = "ended" THEN <<>> ELSE down[c] \o frames
         /\ \A b \in Conn \ {c} : down'[b] = down[b]
<1>1. down[c] \o frames \in Seq(Frames) /\ <<>> \in Seq(Frames)
  BY QueueOps DEF Types
<1> QED
  BY <1>1 DEF Types, ToClient

(* What the server takes from the head of its queue, and what the client. *)
LEMMA ServerReads ==
  ASSUME IInv, NEW c \in Conn, up[c] # <<>>
  PROVE  /\ [up EXCEPT ![c] = Tail(up[c])] \in [Conn -> Seq(Frames)]
         /\ Head(up[c]) \in Upward(c) /\ Tail(up[c]) \in Seq(Upward(c))
         /\ OneDatagram(Tail(up[c]))
         /\ Head(up[c]).tag = "datagram" => Tail(up[c]) \in Seq(Plain)
         /\ up[c] \in Seq(Plain) => Tail(up[c]) \in Seq(Plain)
<1>1. up \in [Conn -> Seq(Frames)] /\ up[c] \in Seq(Upward(c)) /\ OneDatagram(up[c])
  BY DEF IInv, Types, ConnInv, UpQueue
<1>2. Tail(up[c]) \in Seq(Frames) /\ Tail(up[c]) \in Seq(Upward(c)) /\ Head(up[c]) \in Upward(c)
  BY <1>1, QueueOps
<1>3. up[c] \in Seq(Plain) => Tail(up[c]) \in Seq(Plain)
  BY QueueOps
<1>4. OneDatagram(Tail(up[c])) /\ (Head(up[c]).tag = "datagram" => Tail(up[c]) \in Seq(Plain))
  BY <1>1, OneTaken
<1> QED
  BY <1>1, <1>2, <1>3, <1>4

LEMMA ClientReads ==
  ASSUME IInv, NEW c \in Conn, down[c] # <<>>
  PROVE  /\ [down EXCEPT ![c] = Tail(down[c])] \in [Conn -> Seq(Frames)]
         /\ Head(down[c]) \in Downward(c) /\ Tail(down[c]) \in Seq(Downward(c))
<1>1. down \in [Conn -> Seq(Frames)] /\ down[c] \in Seq(Downward(c))
  BY DEF IInv, Types, ConnInv, DownQueue
<1>2. Tail(down[c]) \in Seq(Frames) /\ Tail(down[c]) \in Seq(Downward(c))
      /\ Head(down[c]) \in Downward(c)
  BY <1>1, QueueOps
<1> QED
  BY <1>1, <1>2

(* Appending to a queue to the server: plain frames, or the one datagram.  *)
LEMMA UpAppended ==
  ASSUME IInv, NEW c \in Conn, NEW frames \in Seq(Frames), ToServer(c, frames),
         Upward(c) \subseteq Upward(c)', frames \in Seq(Upward(c)'),
         \/ frames \in Seq(Plain) /\ (Early(c)' => Early(c))
                                  /\ (remote'[c] # Nothing => remote[c] # Nothing)
         \/ Early(c) /\ ~Early(c)' /\ remote'[c] = Nothing /\ OneDatagram(frames)
  PROVE  UpQueue(c)'
<1>1. /\ up[c] \in Seq(Upward(c)) /\ OneDatagram(up[c])
      /\ Early(c) \/ remote[c] # Nothing => up[c] \in Seq(Plain)
      /\ up[c] \in Seq(Frames)
  BY DEF IInv, Types, ConnInv, UpQueue
<1>2. up'[c] = IF server[c] \in {"absent", "ended"} THEN <<>> ELSE up[c] \o frames
  BY Sends DEF IInv
<1>3. CASE up'[c] = <<>>
  <2>1. up'[c] \in Seq(Plain) /\ up'[c] \in Seq(Upward(c)')
    BY <1>3
  <2> QED
    BY <2>1, PlainIsOne DEF UpQueue
<1>4. CASE up'[c] = up[c] \o frames
  <2>1. up[c] \in Seq(Upward(c)')
    BY <1>1, Wider
  <2>2. up[c] \o frames \in Seq(Upward(c)')
    BY <2>1, QueueOps
  <2>3. OneDatagram(up[c] \o frames)
    BY <1>1, OneGlued
  <2>4. Early(c)' \/ remote'[c] # Nothing => up[c] \o frames \in Seq(Plain)
    BY <1>1, QueueOps
  <2> QED
    BY <1>4, <2>2, <2>3, <2>4 DEF UpQueue
<1> QED
  BY <1>2, <1>3, <1>4

(* Nothing is added to the queue to the server. *)
LEMMA UpKept ==
  ASSUME IInv, NEW c \in Conn, up'[c] = up[c], Upward(c) \subseteq Upward(c)',
         Early(c)' => Early(c), remote'[c] # Nothing => remote[c] # Nothing
  PROVE  UpQueue(c)'
<1>1. /\ up[c] \in Seq(Upward(c)) /\ OneDatagram(up[c])
      /\ Early(c) \/ remote[c] # Nothing => up[c] \in Seq(Plain)
  BY DEF IInv, ConnInv, UpQueue
<1>2. up[c] \in Seq(Upward(c)')
  BY <1>1, Wider
<1> QED
  BY <1>1, <1>2 DEF UpQueue

(* The same for the queue to the client. *)
LEMMA DownAppended ==
  ASSUME IInv, NEW c \in Conn, NEW frames \in Seq(Frames), ToClient(c, frames),
         Downward(c) \subseteq Downward(c)', frames \in Seq(Downward(c)')
  PROVE  DownQueue(c)'
<1>1. down[c] \in Seq(Downward(c)')
  BY Wider DEF IInv, ConnInv, DownQueue
<1>2. down'[c] = IF client[c] = "ended" THEN <<>> ELSE down[c] \o frames
  BY Replies DEF IInv
<1>3. down[c] \o frames \in Seq(Downward(c)') /\ <<>> \in Seq(Downward(c)')
  BY <1>1, QueueOps
<1> QED
  BY <1>2, <1>3 DEF DownQueue

LEMMA DownKept ==
  ASSUME IInv, NEW c \in Conn, Downward(c) \subseteq Downward(c)',
         \/ down'[c] = down[c] \/ down'[c] = <<>>
         \/ down[c] # <<>> /\ down'[c] = Tail(down[c])
  PROVE  DownQueue(c)'
<1>1. down[c] \in Seq(Downward(c)')
  BY Wider DEF IInv, ConnInv, DownQueue
<1>2. <<>> \in Seq(Downward(c)') /\ (down[c] # <<>> => Tail(down[c]) \in Seq(Downward(c)'))
  BY <1>1, QueueOps
<1> QED
  BY <1>1, <1>2 DEF DownQueue

LEMMA UpConsumed ==
  ASSUME IInv, NEW c \in Conn, up[c] # <<>>, up'[c] = Tail(up[c]), Upward(c) \subseteq Upward(c)',
         Early(c)' => Early(c),
         remote'[c] # Nothing => remote[c] # Nothing \/ Head(up[c]).tag = "datagram",
         Early(c) => remote'[c] = Nothing
  PROVE  UpQueue(c)'
<1>1. /\ Tail(up[c]) \in Seq(Upward(c)) /\ OneDatagram(Tail(up[c]))
      /\ Head(up[c]).tag = "datagram" => Tail(up[c]) \in Seq(Plain)
      /\ up[c] \in Seq(Plain) => Tail(up[c]) \in Seq(Plain)
  BY ServerReads
<1>2. Early(c) \/ remote[c] # Nothing => up[c] \in Seq(Plain)
  BY DEF IInv, ConnInv, UpQueue
<1>3. Tail(up[c]) \in Seq(Upward(c)')
  BY <1>1, Wider
<1> QED
  BY <1>1, <1>2, <1>3 DEF UpQueue

LEMMA UpPlain ==
  ASSUME NEW c \in Conn, up'[c] \in Seq(Plain), up'[c] \in Seq(Upward(c)')
  PROVE  UpQueue(c)'
BY PlainIsOne DEF UpQueue

(* What could be said stays true when only these things change. *)
LEMMA Grows ==
  ASSUME NEW c \in Conn, use'[c] = use[c],
         envelope'[c] = envelope[c] \/ envelope[c] = Nothing
  PROVE  /\ Upward(c) \subseteq Upward(c)'
         /\ /\ trusted'[c] = trusted[c]
            /\ target[c] # "none" => target'[c] # "none"
            /\ server[c] \in {"looping", "waiting", "ended"} =>
                 server'[c] \in {"looping", "waiting", "ended"}
            /\ answered[c] => answered'[c]
            => Downward(c) \subseteq Downward(c)'
<1>1. Nothing \notin Envelopes
  BY DEF Nothing, Envelopes
<1>2. envelope[c] \in Envelopes => envelope'[c] = envelope[c] /\ Reply(c)' = Reply(c)
  BY <1>1 DEF Reply
<1> QED
  BY <1>2 DEF Upward, Downward

(* The last frames of a connection are plain. *)
LEMMA Farewells ==
  ASSUME NEW c \in Conn, NEW farewell \in {<<>>, <<Frame("close")>>}
  PROVE  /\ farewell \o <<Frame("cut")>> \in Seq(Plain)
         /\ farewell \o <<Frame("cut")>> \in Seq(Frames)
         /\ farewell \o <<Frame("cut")>> \in Seq(Upward(c)')
         /\ farewell \o <<Frame("cut")>> \in Seq(Downward(c)')
<1>1. "cut" \in Tags \ {"datagram"} /\ "close" \in Tags \ {"datagram"}
  BY DEF Tags
<1>2. /\ Frame("cut").tag = "cut" /\ Frame("close").tag = "close"
      /\ Frame("cut") \in Frames /\ Frame("close") \in Frames
  BY <1>1, PlainFrames DEF Frame
<1>3. ASSUME NEW S, Frame("cut") \in S, Frame("close") \in S
      PROVE  farewell \o <<Frame("cut")>> \in Seq(S)
  <2>1. CASE farewell = <<>>
    BY <1>3, <2>1
  <2>2. CASE farewell = <<Frame("close")>>
    <3>1. farewell \in Seq(S) /\ <<Frame("cut")>> \in Seq(S)
      BY <1>3, <2>2
    <3> QED
      BY <3>1, QueueOps
  <2> QED
    BY <2>1, <2>2
<1>4. /\ Frame("cut") \in Plain /\ Frame("close") \in Plain
      /\ Frame("cut") \in Upward(c)' /\ Frame("close") \in Upward(c)'
      /\ Frame("cut") \in Downward(c)' /\ Frame("close") \in Downward(c)'
  BY <1>2 DEF Plain, Upward, Downward
<1> QED
  BY <1>2, <1>3, <1>4

(* The attempt or the stream ends, in one of many ways. *)
Results == {"ok", "failed", "timed_out", "cancelled"}

LEMMA ClientEndsKeeps ==
  ASSUME IInv, NEW c \in Conn, NEW result \in Results,
         NEW farewell \in {<<>>, <<Frame("close")>>},
         ClientEnds(c, result, farewell), client[c] \notin {"idle", "ended"},
         UNCHANGED <<fixed, serverSide, envelope, got, accepting>>
  PROVE  IInv'
<1> DEFINE frames == farewell \o <<Frame("cut")>>
<1>1. frames \in Seq(Plain) /\ frames \in Seq(Frames) /\ frames \in Seq(Upward(c)')
  BY Farewells
<1>2. ToServer(c, frames)
  BY DEF ClientEnds
<1> HIDE DEF frames
<1>3. /\ up' \in [Conn -> Seq(Frames)]
      /\ \A b \in Conn \ {c} : up'[b] = up[b]
  BY <1>1, <1>2, Sends DEF IInv
<1>4. /\ client' = [client EXCEPT ![c] = "ended"] /\ outcome' = [outcome EXCEPT ![c] = result]
      /\ down' = [down EXCEPT ![c] = <<>>]
      /\ age' = [age EXCEPT ![c] = 0] /\ wait' = [wait EXCEPT ![c] = 0]
      /\ use' = use /\ trusted' = trusted /\ server' = server /\ hold' = hold
      /\ target' = target /\ fin' = fin /\ remote' = remote /\ answered' = answered
      /\ envelope' = envelope /\ got' = got /\ accepting' = accepting
  BY DEF ClientEnds, ClientTo, fixed, serverSide
<1>5. Types'
  <2>1. TypeOK'
    BY <1>4, ConnectionAssumption DEF IInv, Types, TypeOK, Results
  <2>2. down' \in [Conn -> Seq(Frames)]
    BY <1>4 DEF IInv, Types
  <2> QED
    BY <1>3, <1>4, <2>1, <2>2 DEF IInv, Types
<1>6. /\ client'[c] = "ended" /\ down'[c] = <<>> /\ Reply(c)' = Reply(c)
      /\ use'[c] = use[c] /\ envelope'[c] = envelope[c] /\ remote'[c] = remote[c]
  BY <1>4 DEF IInv, Types, TypeOK, Reply
<1>7. UpQueue(c)'
  <2>1. Upward(c) \subseteq Upward(c)'
    BY <1>6, Grows
  <2>2. ~Early(c)'
    BY <1>6 DEF Early
  <2> QED
    BY <1>1, <1>2, <1>6, <2>1, <2>2, UpAppended
<1>8. DownQueue(c)'
  BY <1>6 DEF DownQueue
<1>9. Handshake(c)'
  BY <1>4, <1>6 DEF IInv, ConnInv, Handshake
<1>10. Exchange(c)'
  BY <1>4, <1>6 DEF IInv, ConnInv, Exchange, Early
<1>11. \A b \in Conn \ {c} : Same(b)
  BY <1>3, <1>4 DEF IInv, Types, TypeOK, Same
<1> QED
  BY <1>5, <1>6, <1>7, <1>8, <1>9, <1>10, <1>11, StepKeeps DEF ConnInv

LEMMA EndingKeeps ==
  ASSUME IInv, NEW c \in Conn,
         \/ ConnectFails(c) \/ Cancel(c) \/ StreamLeaves(c) \/ Refused(c)
         \/ CloseSent(c) \/ CloseFails(c) \/ EmitTimeout(c)
  PROVE  IInv'
<1>1. PICK result \in Results, farewell \in {<<>>, <<Frame("close")>>} :
        ClientEnds(c, result, farewell)
  BY DEF ConnectFails, Cancel, StreamLeaves, Refused, CloseSent, CloseFails, EmitTimeout, Results
<1>2. /\ client[c] \notin {"idle", "ended"}
      /\ UNCHANGED <<fixed, serverSide, envelope, got, accepting>>
  BY DEF ConnectFails, Cancel, StreamLeaves, Refused, CloseSent, CloseFails, EmitTimeout,
         Attempting
<1> QED
  BY <1>1, <1>2, ClientEndsKeeps

LEMMA BeginKeeps ==
  ASSUME IInv, NEW c \in Conn, Begin(c)
  PROVE  IInv'
<1>1. /\ client[c] = "idle" /\ \A b \in 1..(c - 1) : client[b] = "ended"
      /\ use' = use /\ trusted' = trusted /\ server' = server /\ hold' = hold
      /\ target' = target /\ fin' = fin /\ remote' = remote /\ answered' = answered
      /\ up' = up /\ down' = down /\ age' = age /\ wait' = wait /\ got' = got
      /\ accepting' = accepting
  BY DEF Begin, fixed, serverSide
<1>2. \/ /\ use[c] = "stream" /\ client' = [client EXCEPT ![c] = "connecting"]
         /\ envelope' = envelope /\ outcome' = outcome
      \/ /\ use[c] = "datagram" /\ client' = [client EXCEPT ![c] = "ended"]
         /\ outcome' = [outcome EXCEPT ![c] = "rejected"] /\ envelope' = envelope
      \/ \E e \in Envelopes :
           /\ use[c] = "datagram" /\ client' = [client EXCEPT ![c] = "connecting"]
           /\ envelope' = [envelope EXCEPT ![c] = e] /\ outcome' = outcome
  <2>1. ASSUME NEW packet \in Packet[c], ParsePacket(packet, Association, Client) # Invalid
        PROVE  ParsePacket(packet, Association, Client) \in Envelopes
    <3>1. packet \in Seq(Cell)
      BY ConnectionAssumption
    <3> QED
      BY <2>1, <3>1, PacketParsed
  <2> QED
    BY <2>1 DEF Begin, ClientTo
<1>3. Types'
  <2>1. /\ \/ client' = [client EXCEPT ![c] = "connecting"]
           \/ client' = [client EXCEPT ![c] = "ended"]
        /\ outcome' = outcome \/ outcome' = [outcome EXCEPT ![c] = "rejected"]
        /\ envelope' = envelope \/ \E e \in Envelopes : envelope' = [envelope EXCEPT ![c] = e]
    BY <1>2
  <2>2. TypeOK'
    <3>1. client' \in [Conn -> {"idle", "connecting", "authenticating", "requesting",
                                "awaiting", "closing", "open", "half", "ended"}]
      <4>1. client \in [Conn -> {"idle", "connecting", "authenticating", "requesting",
                                 "awaiting", "closing", "open", "half", "ended"}]
        BY DEF IInv, Types, TypeOK
      <4> QED
        BY <2>1, <4>1
    <3>2. outcome' \in [Conn -> {"none", "rejected", "ok", "failed", "timed_out",
                                 "cancelled"}]
      BY <2>1 DEF IInv, Types, TypeOK
    <3> QED
      BY <1>1, <3>1, <3>2 DEF IInv, Types, TypeOK
  <2>3. envelope' \in [Conn -> Envelopes \cup {Nothing}]
    BY <2>1 DEF IInv, Types
  <2> QED
    BY <1>1, <2>2, <2>3 DEF IInv, Types
<1>4. /\ envelope[c] = Nothing /\ remote[c] = Nothing /\ ~answered[c] /\ got[c] = Nothing
      /\ server[c] = "absent" /\ outcome[c] = "none" /\ Early(c)
  BY <1>1 DEF IInv, ConnInv, Handshake, Exchange, Early, TypeOK, Types
<1>5. /\ client'[c] \in {"connecting", "ended"}
      /\ client'[c] = "connecting" => outcome'[c] = "none"
      /\ use[c] = "datagram" /\ client'[c] = "connecting" => envelope'[c] \in Envelopes
  BY <1>2, <1>4 DEF IInv, Types, TypeOK
<1>6. UpQueue(c)' /\ DownQueue(c)'
  BY <1>1, <1>4, Grows, UpKept, DownKept
<1>7. Handshake(c)'
  BY <1>1, <1>4, <1>5 DEF Handshake
<1>8. Exchange(c)'
  BY <1>1, <1>4, <1>5 DEF Exchange
<1>9. \A b \in Conn \ {c} : Same(b)
  BY <1>1, <1>2 DEF IInv, Types, TypeOK, Same
<1> QED
  BY <1>1, <1>3, <1>6, <1>7, <1>8, <1>9, StepKeeps DEF ConnInv

LEMMA ConnectKeeps ==
  ASSUME IInv, NEW c \in Conn, Connect(c)
  PROVE  IInv'
<1>1. /\ client[c] = "connecting" /\ client' = [client EXCEPT ![c] = "authenticating"]
      /\ server' = [server EXCEPT ![c] = "authenticating"]
      /\ up' = [up EXCEPT ![c] = <<Frame("token")>>]
      /\ use' = use /\ trusted' = trusted /\ hold' = hold /\ envelope' = envelope
      /\ target' = target /\ fin' = fin /\ remote' = remote /\ answered' = answered
      /\ down' = down /\ age' = age /\ wait' = wait /\ got' = got /\ outcome' = outcome
      /\ accepting' = accepting
  BY DEF Connect, ClientTo, fixed
<1>2. Frame("token") \in Plain /\ Frame("token") \in Upward(c)' /\ Frame("token") \in Frames
  <2>1. Frame("token") \in Frames /\ Frame("token").tag = "token"
    BY DEF Frame, Frames, Tags
  <2> QED
    BY <2>1 DEF Plain, Upward
<1>3. Types'
  <2>1. TypeOK'
    BY <1>1 DEF IInv, Types, TypeOK
  <2>2. up' \in [Conn -> Seq(Frames)]
    BY <1>1, <1>2 DEF IInv, Types
  <2> QED
    BY <1>1, <2>1, <2>2 DEF IInv, Types
<1>4. /\ client'[c] = "authenticating" /\ server'[c] = "authenticating" /\ server[c] = "absent"
      /\ outcome[c] = "none" /\ Early(c)
  BY <1>1 DEF IInv, Types, TypeOK, ConnInv, Handshake, Early
<1>5. UpQueue(c)'
  <2>1. up'[c] = <<Frame("token")>>
    BY <1>1 DEF IInv, Types
  <2>2. up'[c] \in Seq(Plain) /\ up'[c] \in Seq(Upward(c)')
    BY <1>2, <2>1
  <2> QED
    BY <2>2, UpPlain
<1>6. DownQueue(c)'
  BY <1>1, <1>4, Grows, DownKept
<1>7. Handshake(c)'
  BY <1>1, <1>4 DEF IInv, ConnInv, Handshake
<1>8. Exchange(c)'
  <2>1. Reply(c)' = Reply(c)
    BY <1>1 DEF Reply
  <2> QED
    BY <1>1, <1>4, <2>1 DEF IInv, ConnInv, Exchange, Early
<1>9. \A b \in Conn \ {c} : Same(b)
  BY <1>1 DEF IInv, Types, TypeOK, Same
<1> QED
  BY <1>1, <1>3, <1>4, <1>5, <1>6, <1>7, <1>8, <1>9, StepKeeps DEF ConnInv

LEMMA AuthenticatedKeeps ==
  ASSUME IInv, NEW c \in Conn, Authenticated(c)
  PROVE  IInv'
<1> DEFINE frames == <<Frame(IF use[c] = "stream" THEN "connect" ELSE "open")>>
<1>1. /\ client[c] = "authenticating" /\ down[c] # <<>> /\ ToServer(c, frames)
      /\ client' = [client EXCEPT ![c] = "requesting"]
      /\ down' = [down EXCEPT ![c] = Tail(down[c])]
      /\ use' = use /\ trusted' = trusted /\ server' = server /\ hold' = hold
      /\ target' = target /\ fin' = fin /\ remote' = remote /\ answered' = answered
      /\ envelope' = envelope /\ outcome' = outcome /\ age' = age /\ wait' = wait /\ got' = got
      /\ accepting' = accepting
  BY DEF Authenticated, ClientTo, Heard, fixed, serverSide
<1>2. frames \in Seq(Plain) /\ frames \in Seq(Frames) /\ frames \in Seq(Upward(c)')
  <2>1. /\ Frame("connect") \in Frames /\ Frame("connect").tag = "connect"
        /\ Frame("open") \in Frames /\ Frame("open").tag = "open"
    BY DEF Frame, Frames, Tags
  <2>2. use[c] # "stream" => use'[c] = "datagram"
    BY <1>1 DEF IInv, Types, TypeOK
  <2>3. Frame(IF use[c] = "stream" THEN "connect" ELSE "open") \in Plain \cap Frames \cap Upward(c)'
    BY <2>1, <2>2 DEF Plain, Upward
  <2> QED
    BY <2>3
<1> HIDE DEF frames
<1>3. up' \in [Conn -> Seq(Frames)] /\ \A b \in Conn \ {c} : up'[b] = up[b]
  BY <1>1, <1>2, Sends DEF IInv
<1>4. Types'
  <2>1. TypeOK'
    BY <1>1 DEF IInv, Types, TypeOK
  <2>2. down' \in [Conn -> Seq(Frames)]
    BY <1>1, ClientReads
  <2> QED
    BY <1>1, <1>3, <2>1, <2>2 DEF IInv, Types
<1>5. /\ client'[c] = "requesting" /\ down'[c] = Tail(down[c]) /\ Reply(c)' = Reply(c)
      /\ Upward(c) \subseteq Upward(c)' /\ Downward(c) \subseteq Downward(c)' /\ Early(c)
  BY <1>1, Grows DEF IInv, Types, TypeOK, Reply, Early
<1>6. UpQueue(c)'
  BY <1>1, <1>2, <1>5, UpAppended
<1>7. DownQueue(c)'
  BY <1>1, <1>5, DownKept
<1>8. Handshake(c)'
  BY <1>1, <1>5 DEF IInv, ConnInv, Handshake
<1>9. Exchange(c)'
  BY <1>1, <1>5 DEF IInv, ConnInv, Exchange, Early
<1>10. \A b \in Conn \ {c} : Same(b)
  BY <1>1, <1>3 DEF IInv, Types, TypeOK, Same
<1> QED
  BY <1>1, <1>4, <1>6, <1>7, <1>8, <1>9, <1>10, StepKeeps DEF ConnInv

LEMMA OpenedKeeps ==
  ASSUME IInv, NEW c \in Conn, Opened(c)
  PROVE  IInv'
<1>1. /\ client[c] = "requesting" /\ down[c] # <<>> /\ Head(down[c]).tag = "connected"
      /\ client' = [client EXCEPT ![c] = "open"] /\ outcome' = [outcome EXCEPT ![c] = "ok"]
      /\ down' = [down EXCEPT ![c] = Tail(down[c])]
      /\ use' = use /\ trusted' = trusted /\ server' = server /\ hold' = hold
      /\ target' = target /\ fin' = fin /\ remote' = remote /\ answered' = answered
      /\ envelope' = envelope /\ age' = age /\ wait' = wait /\ got' = got /\ up' = up
      /\ accepting' = accepting
  BY DEF Opened, ClientTo, Heard, fixed, serverSide
<1>2. /\ down' \in [Conn -> Seq(Frames)] /\ trusted[c] /\ target[c] # "none"
  BY <1>1, ClientReads DEF Downward
<1>3. Types'
  <2>1. TypeOK'
    BY <1>1 DEF IInv, Types, TypeOK
  <2> QED
    BY <1>1, <1>2, <2>1 DEF IInv, Types
<1>4. /\ client'[c] = "open" /\ outcome'[c] = "ok" /\ down'[c] = Tail(down[c])
      /\ Reply(c)' = Reply(c)
      /\ Upward(c) \subseteq Upward(c)' /\ Downward(c) \subseteq Downward(c)' /\ ~Early(c)'
  BY <1>1, Grows DEF IInv, Types, TypeOK, Reply, Early
<1>5. UpQueue(c)' /\ DownQueue(c)'
  BY <1>1, <1>4, UpKept, DownKept
<1>6. Handshake(c)'
  BY <1>1, <1>2, <1>4 DEF IInv, ConnInv, Handshake
<1>7. Exchange(c)'
  BY <1>1, <1>4 DEF IInv, ConnInv, Exchange, Early
<1>8. \A b \in Conn \ {c} : Same(b)
  BY <1>1 DEF IInv, Types, TypeOK, Same
<1> QED
  BY <1>1, <1>3, <1>5, <1>6, <1>7, <1>8, StepKeeps DEF ConnInv

(* A reply is an envelope as well: an answer is a payload. *)
LEMMA ReplyTyped ==
  ASSUME NEW c \in Conn, envelope[c] \in Envelopes
  PROVE  Reply(c) \in Envelopes
<1>1. Answer[c] \in Payloads
  BY ConnectionAssumption DEF Payloads
<1> QED
  BY <1>1 DEF Reply, Envelopes

LEMMA EmitKeeps ==
  ASSUME IInv, NEW c \in Conn, Emit(c)
  PROVE  IInv'
<1> DEFINE cells == EncodeDatagram(envelope[c]).cells
           frames == <<DatagramFrame(cells)>>
<1>1. client[c] = "requesting" /\ down[c] # <<>> /\ Head(down[c]).tag = "ready"
  BY DEF Emit, Heard
<1>2. /\ use[c] = "datagram" /\ trusted[c] /\ server[c] \in {"looping", "waiting", "ended"}
      /\ Tail(down[c]) \in Seq(Downward(c))
      /\ [down EXCEPT ![c] = Tail(down[c])] \in [Conn -> Seq(Frames)]
  BY <1>1, ClientReads DEF Downward
<1>3. envelope[c] \in Envelopes /\ remote[c] = Nothing /\ Early(c)
  BY <1>1, <1>2 DEF IInv, ConnInv, Exchange, Early
<1>4. EncodeDatagram(envelope[c]) # Invalid /\ cells \in Seq(Cell)
  BY <1>3, FrameRoundTrip
<1>5. /\ client' = [client EXCEPT ![c] = "awaiting"] /\ ToServer(c, frames)
      /\ down' = [down EXCEPT ![c] = Tail(down[c])]
      /\ use' = use /\ trusted' = trusted /\ server' = server /\ hold' = hold
      /\ target' = target /\ fin' = fin /\ remote' = remote /\ answered' = answered
      /\ envelope' = envelope /\ outcome' = outcome /\ age' = age /\ wait' = wait /\ got' = got
      /\ accepting' = accepting
  BY <1>4 DEF Emit, ClientTo, fixed, serverSide
<1>6. envelope'[c] = envelope[c]
  BY <1>5
<1> HIDE DEF cells
<1>7. frames \in Seq(Frames) /\ frames \in Seq(Upward(c)') /\ OneDatagram(frames)
  <2>1. DatagramFrame(cells) \in Frames /\ DatagramFrame(cells).tag = "datagram"
        /\ DatagramFrame(cells).cells = cells
    BY <1>4 DEF DatagramFrame, Frames, Tags
  <2>2. EncodeDatagram(envelope[c])' = EncodeDatagram(envelope[c])
    BY <1>6 DEF EncodeDatagram
  <2>3. DatagramFrame(cells) \in Upward(c)'
    BY <1>3, <1>6, <2>1 DEF Upward, cells
  <2> QED
    BY <2>1, <2>3 DEF OneDatagram
<1> HIDE DEF frames
<1>8. up' \in [Conn -> Seq(Frames)] /\ \A b \in Conn \ {c} : up'[b] = up[b]
  BY <1>5, <1>7, Sends DEF IInv
<1>9. Types'
  <2>1. TypeOK'
    BY <1>5 DEF IInv, Types, TypeOK
  <2> QED
    BY <1>2, <1>5, <1>8, <2>1 DEF IInv, Types
<1>10. /\ client'[c] = "awaiting" /\ down'[c] = Tail(down[c]) /\ Reply(c)' = Reply(c)
       /\ Upward(c) \subseteq Upward(c)' /\ Downward(c) \subseteq Downward(c)' /\ ~Early(c)'
       /\ remote'[c] = Nothing
  BY <1>3, <1>5, Grows DEF IInv, Types, TypeOK, Reply, Early
<1>11. UpQueue(c)'
  BY <1>3, <1>5, <1>7, <1>10, UpAppended
<1>12. DownQueue(c)'
  BY <1>1, <1>5, <1>10, DownKept
<1>13. Handshake(c)'
  BY <1>1, <1>2, <1>5, <1>10 DEF IInv, ConnInv, Handshake
<1>14. Exchange(c)'
  BY <1>1, <1>3, <1>5, <1>10 DEF IInv, ConnInv, Exchange, Early
<1>15. \A b \in Conn \ {c} : Same(b)
  BY <1>5, <1>8 DEF IInv, Types, TypeOK, Same
<1> QED
  BY <1>1, <1>9, <1>11, <1>12, <1>13, <1>14, <1>15, StepKeeps DEF ConnInv

LEMMA ReplyArrivesKeeps ==
  ASSUME IInv, NEW c \in Conn, ReplyArrives(c)
  PROVE  IInv'
<1>1. client[c] = "awaiting" /\ down[c] # <<>> /\ Head(down[c]).tag = "datagram"
  BY DEF ReplyArrives, Heard
<1>2. CASE ClientEnds(c, "failed", <<>>) /\ UNCHANGED got
  <2>1. /\ client[c] \notin {"idle", "ended"}
        /\ UNCHANGED <<fixed, serverSide, envelope, got, accepting>>
    BY <1>1, <1>2 DEF ReplyArrives
  <2> QED
    BY <1>2, <2>1, ClientEndsKeeps DEF Results
<1>3. CASE ~(ClientEnds(c, "failed", <<>>) /\ UNCHANGED got)
  <2>1. /\ envelope[c] \in Envelopes /\ answered[c]
        /\ Head(down[c]).cells = EncodeDatagram(Reply(c)).cells
        /\ [down EXCEPT ![c] = Tail(down[c])] \in [Conn -> Seq(Frames)]
    BY <1>1, ClientReads DEF Downward
  <2>2. Reply(c) \in Envelopes
    BY <2>1, ReplyTyped
  <2>3. DecodeDatagram(Head(down[c]).cells) = Reply(c)
    BY <2>1, <2>2, FrameRoundTrip
  <2>4. ParsePacket(EncodePacket(Reply(c)).cells, Association, Client) = Reply(c)
    BY <2>2, PacketRoundTrip
  <2>5. /\ client' = [client EXCEPT ![c] = "closing"] /\ got' = [got EXCEPT ![c] = Reply(c)]
        /\ down' = [down EXCEPT ![c] = Tail(down[c])]
        /\ use' = use /\ trusted' = trusted /\ server' = server /\ hold' = hold
        /\ target' = target /\ fin' = fin /\ remote' = remote /\ answered' = answered
        /\ envelope' = envelope /\ outcome' = outcome /\ age' = age /\ wait' = wait /\ up' = up
        /\ accepting' = accepting
    BY <1>3, <2>3, <2>4 DEF ReplyArrives, ClientTo, fixed, serverSide
  <2>6. Types'
    <3>1. TypeOK'
      BY <2>5 DEF IInv, Types, TypeOK
    <3>2. got' \in [Conn -> Envelopes \cup {Nothing}]
      BY <2>2, <2>5 DEF IInv, Types
    <3> QED
      BY <2>1, <2>5, <3>1, <3>2 DEF IInv, Types
  <2>7. /\ client'[c] = "closing" /\ got'[c] = Reply(c) /\ down'[c] = Tail(down[c])
        /\ Reply(c)' = Reply(c)
        /\ Upward(c) \subseteq Upward(c)' /\ Downward(c) \subseteq Downward(c)' /\ ~Early(c)'
    BY <2>5, Grows DEF IInv, Types, TypeOK, Reply, Early
  <2>8. UpQueue(c)' /\ DownQueue(c)'
    BY <1>1, <2>5, <2>7, UpKept, DownKept
  <2>9. Handshake(c)'
    BY <1>1, <2>5, <2>7 DEF IInv, ConnInv, Handshake
  <2>10. Exchange(c)'
    BY <1>1, <2>1, <2>5, <2>7 DEF IInv, ConnInv, Exchange
  <2>11. \A b \in Conn \ {c} : Same(b)
    BY <2>5 DEF IInv, Types, TypeOK, Same
  <2> QED
    BY <1>1, <2>5, <2>6, <2>8, <2>9, <2>10, <2>11, StepKeeps DEF ConnInv
<1> QED
  BY <1>2, <1>3

LEMMA WindowKeeps ==
  ASSUME IInv, NEW c \in Conn, WindowExpires(c)
  PROVE  IInv'
<1>1. /\ client[c] = "awaiting" /\ client' = [client EXCEPT ![c] = "closing"]
      /\ use' = use /\ trusted' = trusted /\ server' = server /\ hold' = hold
      /\ target' = target /\ fin' = fin /\ remote' = remote /\ answered' = answered
      /\ envelope' = envelope /\ outcome' = outcome /\ age' = age /\ wait' = wait /\ got' = got
      /\ up' = up /\ down' = down /\ accepting' = accepting
  BY DEF WindowExpires, ClientTo, fixed, serverSide
<1>2. Types'
  <2>1. TypeOK'
    BY <1>1 DEF IInv, Types, TypeOK
  <2> QED
    BY <1>1, <2>1 DEF IInv, Types
<1>3. /\ client'[c] = "closing" /\ Reply(c)' = Reply(c)
      /\ Upward(c) \subseteq Upward(c)' /\ Downward(c) \subseteq Downward(c)' /\ ~Early(c)'
  BY <1>1, Grows DEF IInv, Types, TypeOK, Reply, Early
<1>4. UpQueue(c)' /\ DownQueue(c)'
  BY <1>1, <1>3, UpKept, DownKept
<1>5. Handshake(c)'
  BY <1>1, <1>3 DEF IInv, ConnInv, Handshake
<1>6. Exchange(c)'
  BY <1>1, <1>3 DEF IInv, ConnInv, Exchange
<1>7. \A b \in Conn \ {c} : Same(b)
  BY <1>1 DEF IInv, Types, TypeOK, Same
<1> QED
  BY <1>1, <1>2, <1>4, <1>5, <1>6, <1>7, StepKeeps DEF ConnInv

(* The bridge tasks of a stream send plain frames, or only read.           *)
LEMMA StreamKeeps ==
  ASSUME IInv, NEW c \in Conn, StreamSends(c) \/ StreamFinishes(c) \/ StreamReceives(c)
  PROVE  IInv'
<1>1. /\ client[c] \in {"open", "half"}
      /\ client' = client \/ client' = [client EXCEPT ![c] = "half"]
      /\ use' = use /\ trusted' = trusted /\ server' = server /\ hold' = hold
      /\ target' = target /\ fin' = fin /\ remote' = remote /\ answered' = answered
      /\ envelope' = envelope /\ outcome' = outcome /\ age' = age /\ wait' = wait /\ got' = got
      /\ accepting' = accepting
      /\ \/ up' = up
         \/ ToServer(c, <<Frame("chunk")>>) \/ ToServer(c, <<Frame("close")>>)
      /\ \/ down' = down
         \/ down[c] # <<>> /\ down' = [down EXCEPT ![c] = Tail(down[c])]
  BY DEF StreamSends, StreamFinishes, StreamReceives, ClientTo, Heard, fixed, clientSide,
         serverSide
<1>2. /\ client'[c] \in {"open", "half"} /\ Reply(c)' = Reply(c)
      /\ Upward(c) \subseteq Upward(c)' /\ Downward(c) \subseteq Downward(c)'
      /\ ~Early(c)' /\ ~Early(c)
  BY <1>1, Grows DEF IInv, Types, TypeOK, Reply, Early
<1>3. /\ up' \in [Conn -> Seq(Frames)] /\ UpQueue(c)'
      /\ \A b \in Conn \ {c} : up'[b] = up[b]
  <2>1. CASE up' = up
    BY <1>1, <1>2, <2>1, UpKept DEF IInv, Types
  <2>2. ASSUME NEW t \in {"chunk", "close"}, ToServer(c, <<Frame(t)>>)
        PROVE  /\ up' \in [Conn -> Seq(Frames)] /\ UpQueue(c)'
               /\ \A b \in Conn \ {c} : up'[b] = up[b]
    <3> DEFINE frames == <<Frame(t)>>
    <3>1. frames \in Seq(Plain) /\ frames \in Seq(Frames) /\ frames \in Seq(Upward(c)')
      <4>1. Frame(t) \in Plain /\ Frame(t) \in Frames /\ Frame(t) \in Upward(c)
        BY PlainFrames DEF Tags
      <4> QED
        BY <1>2, <4>1
    <3>2. ToServer(c, frames)
      BY <2>2
    <3> HIDE DEF frames
    <3> QED
      BY <1>1, <1>2, <3>1, <3>2, Sends, UpAppended DEF IInv
  <2> QED
    BY <1>1, <2>1, <2>2
<1>4. /\ down' \in [Conn -> Seq(Frames)] /\ DownQueue(c)'
      /\ \A b \in Conn \ {c} : down'[b] = down[b]
  <2>1. CASE down' = down
    BY <1>2, <2>1, DownKept DEF IInv, Types
  <2>2. CASE down[c] # <<>> /\ down' = [down EXCEPT ![c] = Tail(down[c])]
    <3>1. down'[c] = Tail(down[c]) /\ \A b \in Conn \ {c} : down'[b] = down[b]
      BY <2>2 DEF IInv, Types
    <3> QED
      BY <1>2, <2>2, <3>1, DownKept, ClientReads
  <2> QED
    BY <1>1, <2>1, <2>2
<1>5. Types'
  <2>1. client' \in [Conn -> {"idle", "connecting", "authenticating", "requesting", "awaiting",
                              "closing", "open", "half", "ended"}]
    <3>1. client \in [Conn -> {"idle", "connecting", "authenticating", "requesting", "awaiting",
                               "closing", "open", "half", "ended"}]
      BY DEF IInv, Types, TypeOK
    <3> QED
      BY <1>1, <3>1
  <2>2. TypeOK'
    BY <1>1, <2>1 DEF IInv, Types, TypeOK
  <2> QED
    BY <1>1, <1>3, <1>4, <2>2 DEF IInv, Types
<1>6. Handshake(c)'
  BY <1>1, <1>2 DEF IInv, ConnInv, Handshake
<1>7. Exchange(c)'
  BY <1>1, <1>2 DEF IInv, ConnInv, Exchange
<1>8. \A b \in Conn \ {c} : Same(b)
  BY <1>1, <1>3, <1>4 DEF IInv, Types, TypeOK, Same
<1> QED
  BY <1>1, <1>2, <1>3, <1>4, <1>5, <1>6, <1>7, <1>8, StepKeeps DEF ConnInv

LEMMA ClientKeeps ==
  ASSUME IInv, NEW c \in Conn, ClientStep(c) \/ Attempt(c)
  PROVE  IInv'
BY BeginKeeps, ConnectKeeps, EndingKeeps, StreamKeeps, AuthenticatedKeeps, OpenedKeeps,
   EmitKeeps, ReplyArrivesKeeps, WindowKeeps DEF ClientStep, Attempt

-----------------------------------------------------------------------------
(* The handler returns, in one of many ways. *)
LEMMA ServerEndsKeeps ==
  ASSUME IInv, NEW c \in Conn, NEW farewell \in {<<>>, <<Frame("close")>>},
         ServerEnds(c, farewell), server[c] # "absent",
         UNCHANGED <<fixed, clientSide, remote, accepting>>,
         target' = target \/ target' = [target EXCEPT ![c] = "ended"],
         fin' = fin \/ fin' = [fin EXCEPT ![c] = TRUE],
         answered' = answered \/ (remote[c] # Nothing /\ answered' = [answered EXCEPT ![c] = TRUE])
  PROVE  IInv'
<1> DEFINE frames == farewell \o <<Frame("cut")>>
<1>1. frames \in Seq(Frames) /\ frames \in Seq(Downward(c)')
  BY Farewells
<1>2. ToClient(c, frames)
  BY DEF ServerEnds
<1> HIDE DEF frames
<1>3. down' \in [Conn -> Seq(Frames)] /\ \A b \in Conn \ {c} : down'[b] = down[b]
  BY <1>1, <1>2, Replies DEF IInv
<1>4. /\ server' = [server EXCEPT ![c] = "ended"] /\ up' = [up EXCEPT ![c] = <<>>]
      /\ hold' = [hold EXCEPT ![c] = 0]
      /\ use' = use /\ trusted' = trusted /\ client' = client /\ envelope' = envelope
      /\ outcome' = outcome /\ age' = age /\ wait' = wait /\ got' = got /\ remote' = remote
      /\ accepting' = accepting
  BY DEF ServerEnds, ServerTo, fixed, clientSide
<1>5. /\ target' \in [Conn -> {"none", "open", "ended"}]
      /\ target[c] # "none" => target'[c] # "none"
      /\ \A b \in Conn \ {c} : target'[b] = target[b]
  BY DEF IInv, Types, TypeOK
<1>6. fin' \in [Conn -> BOOLEAN]
  BY DEF IInv, Types, TypeOK
<1>7. /\ answered' \in [Conn -> BOOLEAN]
      /\ answered[c] => answered'[c]
      /\ answered'[c] => answered[c] \/ remote[c] # Nothing
      /\ \A b \in Conn \ {c} : answered'[b] = answered[b]
  <2>1. answered \in [Conn -> BOOLEAN]
    BY DEF IInv, Types, TypeOK
  <2> QED
    BY <2>1
<1>8. Types'
  <2>0. hold' \in [Conn -> 0..Window]
    <3>1. hold \in [Conn -> 0..Window] /\ 0 \in 0..Window
      BY ConnectionAssumption DEF IInv, Types, TypeOK
    <3> QED
      BY <1>4, <3>1
  <2>1. TypeOK'
    BY <1>4, <1>5, <1>6, <1>7, <2>0 DEF IInv, Types, TypeOK
  <2>2. up' \in [Conn -> Seq(Frames)]
    BY <1>4 DEF IInv, Types
  <2> QED
    BY <1>3, <1>4, <2>1, <2>2 DEF IInv, Types
<1>9. server'[c] = "ended" /\ up'[c] = <<>> /\ Reply(c)' = Reply(c)
  BY <1>4 DEF IInv, Types, TypeOK, Reply
<1>10. /\ Downward(c) \subseteq Downward(c)'
       /\ client[c] \notin {"idle", "connecting"}
  BY <1>4, <1>5, <1>7, <1>9, Grows DEF IInv, ConnInv, Handshake
<1>11. UpQueue(c)'
  <2>1. up'[c] \in Seq(Plain) /\ up'[c] \in Seq(Upward(c)')
    BY <1>9
  <2> QED
    BY <2>1, UpPlain
<1>12. DownQueue(c)'
  BY <1>1, <1>2, <1>10, DownAppended
<1>13. Handshake(c)'
  BY <1>4, <1>5, <1>9, <1>10 DEF IInv, ConnInv, Handshake
<1>14. Exchange(c)'
  BY <1>4, <1>7, <1>9, <1>10 DEF IInv, ConnInv, Exchange, Early
<1>15. \A b \in Conn \ {c} : Same(b)
  BY <1>3, <1>4, <1>5, <1>7 DEF IInv, Types, TypeOK, Same
<1> QED
  BY <1>4, <1>8, <1>11, <1>12, <1>13, <1>14, <1>15, StepKeeps DEF ConnInv

(* The ways for the handler to end that change nothing else. *)
LEMMA ReturningKeeps ==
  ASSUME IInv, NEW c \in Conn,
         TargetFails(c) \/ PeerLost(c) \/ TargetBreaks(c) \/ ForeignPacket(c) \/ LoopCloses(c)
  PROVE  IInv'
<1>1. /\ ServerEnds(c, <<>>) /\ server[c] # "absent"
      /\ UNCHANGED <<fixed, clientSide, remote, accepting>>
      /\ target' = target /\ fin' = fin /\ answered' = answered
  BY DEF TargetFails, PeerLost, TargetBreaks, ForeignPacket, LoopCloses
<1> QED
  BY <1>1, ServerEndsKeeps

LEMMA AuthorizeKeeps ==
  ASSUME IInv, NEW c \in Conn, Authorize(c)
  PROVE  IInv'
<1>1. CASE ~trusted[c]
  <2>1. /\ ServerEnds(c, <<Frame("close")>>) /\ server[c] # "absent"
        /\ UNCHANGED <<fixed, clientSide, remote, accepting>>
        /\ target' = target /\ fin' = fin /\ answered' = answered
    BY <1>1 DEF Authorize, AuthAllows
  <2> QED
    BY <2>1, ServerEndsKeeps
<1>2. CASE trusted[c]
  <2> DEFINE frames == <<Frame("ok")>>
  <2>1. /\ server[c] = "authenticating" /\ up[c] # <<>> /\ Head(up[c]).tag = "token"
        /\ server' = [server EXCEPT ![c] = "accepted"] /\ up' = [up EXCEPT ![c] = Tail(up[c])]
        /\ ToClient(c, frames)
        /\ use' = use /\ trusted' = trusted /\ client' = client /\ envelope' = envelope
        /\ outcome' = outcome /\ age' = age /\ wait' = wait /\ got' = got /\ remote' = remote
        /\ hold' = hold /\ target' = target /\ fin' = fin /\ answered' = answered
        /\ accepting' = accepting
    BY <1>2 DEF Authorize, AuthAllows, ServerTo, Reads, Consume, fixed, clientSide
  <2>2. frames \in Seq(Frames) /\ frames \in Seq(Downward(c)) 
    <3>1. Frame("ok") \in Frames /\ Frame("ok") \in Downward(c)
      BY PlainFrames DEF Tags
    <3> QED
      BY <3>1
  <2> HIDE DEF frames
  <2>3. down' \in [Conn -> Seq(Frames)] /\ \A b \in Conn \ {c} : down'[b] = down[b]
    BY <2>1, <2>2, Sends, Replies DEF IInv
  <2>4. Types'
    <3>1. TypeOK'
      BY <2>1 DEF IInv, Types, TypeOK
    <3>2. up' \in [Conn -> Seq(Frames)]
      BY <2>1, ServerReads
    <3> QED
      BY <2>1, <2>3, <3>1, <3>2 DEF IInv, Types
  <2>5. /\ server'[c] = "accepted" /\ up'[c] = Tail(up[c]) /\ Reply(c)' = Reply(c)
        /\ Upward(c) \subseteq Upward(c)' /\ Downward(c) \subseteq Downward(c)'
        /\ client[c] \notin {"idle", "connecting", "awaiting", "closing"}
    BY <2>1, Grows DEF IInv, Types, TypeOK, Reply, ConnInv, Handshake
  <2>6. UpQueue(c)'
    BY <2>1, <2>5, UpConsumed DEF IInv, ConnInv, Exchange, Early
  <2>7. DownQueue(c)'
    BY <2>1, <2>2, <2>5, Wider, DownAppended
  <2>8. Handshake(c)'
    BY <1>2, <2>1, <2>5 DEF IInv, ConnInv, Handshake
  <2>9. Exchange(c)'
    BY <2>1, <2>5 DEF IInv, ConnInv, Exchange, Early
  <2>10. \A b \in Conn \ {c} : Same(b)
    BY <2>1, <2>3 DEF IInv, Types, TypeOK, Same
  <2> QED
    BY <2>1, <2>4, <2>6, <2>7, <2>8, <2>9, <2>10, StepKeeps DEF ConnInv
<1> QED
  BY <1>1, <1>2

LEMMA ServeConnectKeeps ==
  ASSUME IInv, NEW c \in Conn, ServeConnect(c)
  PROVE  IInv'
<1>1. /\ server[c] = "accepted" /\ up[c] # <<>> /\ Head(up[c]).tag = "connect"
      /\ server' = [server EXCEPT ![c] = "connecting"] /\ up' = [up EXCEPT ![c] = Tail(up[c])]
      /\ use' = use /\ trusted' = trusted /\ client' = client /\ envelope' = envelope
      /\ outcome' = outcome /\ age' = age /\ wait' = wait /\ got' = got /\ remote' = remote
      /\ hold' = hold /\ target' = target /\ fin' = fin /\ answered' = answered /\ down' = down
      /\ accepting' = accepting
  BY DEF ServeConnect, ServerTo, Reads, Consume, fixed, clientSide
<1>2. Types'
  <2>1. TypeOK'
    BY <1>1 DEF IInv, Types, TypeOK
  <2>2. up' \in [Conn -> Seq(Frames)]
    BY <1>1, ServerReads
  <2> QED
    BY <1>1, <2>1, <2>2 DEF IInv, Types
<1>3. /\ server'[c] = "connecting" /\ up'[c] = Tail(up[c]) /\ Reply(c)' = Reply(c)
      /\ Upward(c) \subseteq Upward(c)' /\ Downward(c) \subseteq Downward(c)'
      /\ client[c] \notin {"idle", "connecting", "awaiting", "closing"} /\ trusted[c]
  BY <1>1, Grows DEF IInv, Types, TypeOK, Reply, ConnInv, Handshake
<1>4. UpQueue(c)'
  BY <1>1, <1>3, UpConsumed DEF IInv, ConnInv, Exchange, Early
<1>5. DownQueue(c)'
  BY <1>1, <1>3, DownKept
<1>6. Handshake(c)'
  BY <1>1, <1>3 DEF IInv, ConnInv, Handshake
<1>7. Exchange(c)'
  BY <1>1, <1>3 DEF IInv, ConnInv, Exchange, Early
<1>8. \A b \in Conn \ {c} : Same(b)
  BY <1>1 DEF IInv, Types, TypeOK, Same
<1> QED
  BY <1>1, <1>2, <1>4, <1>5, <1>6, <1>7, <1>8, StepKeeps DEF ConnInv

LEMMA TargetConnectedKeeps ==
  ASSUME IInv, NEW c \in Conn, TargetConnected(c)
  PROVE  IInv'
<1> DEFINE frames == <<Frame("connected")>>
<1>1. /\ server[c] = "connecting" /\ ToClient(c, frames)
      /\ server' = [server EXCEPT ![c] = "relaying"] /\ target' = [target EXCEPT ![c] = "open"]
      /\ use' = use /\ trusted' = trusted /\ client' = client /\ envelope' = envelope
      /\ outcome' = outcome /\ age' = age /\ wait' = wait /\ got' = got /\ remote' = remote
      /\ hold' = hold /\ fin' = fin /\ answered' = answered /\ up' = up
      /\ accepting' = accepting
  BY DEF TargetConnected, ServerTo, fixed, clientSide
<1>2. /\ server'[c] = "relaying" /\ target'[c] = "open" /\ Reply(c)' = Reply(c)
      /\ Upward(c) \subseteq Upward(c)' /\ Downward(c) \subseteq Downward(c)'
      /\ client[c] \notin {"idle", "connecting", "awaiting", "closing"}
      /\ trusted[c] /\ trusted'[c]
  BY <1>1, Grows DEF IInv, Types, TypeOK, Reply, ConnInv, Handshake
<1>3. frames \in Seq(Frames) /\ frames \in Seq(Downward(c)')
  <2>1. Frame("connected") \in Frames /\ Frame("connected").tag = "connected"
    BY DEF Frame, Frames, Tags
  <2>2. Frame("connected") \in Downward(c)'
    BY <1>2, <2>1 DEF Downward
  <2> QED
    BY <2>1, <2>2
<1> HIDE DEF frames
<1>4. down' \in [Conn -> Seq(Frames)] /\ \A b \in Conn \ {c} : down'[b] = down[b]
  BY <1>1, <1>3, Replies DEF IInv
<1>5. Types'
  <2>1. TypeOK'
    BY <1>1 DEF IInv, Types, TypeOK
  <2> QED
    BY <1>1, <1>4, <2>1 DEF IInv, Types
<1>6. UpQueue(c)'
  BY <1>1, <1>2, UpKept DEF Early
<1>7. DownQueue(c)'
  BY <1>1, <1>2, <1>3, DownAppended
<1>8. Handshake(c)'
  BY <1>1, <1>2 DEF IInv, ConnInv, Handshake
<1>9. Exchange(c)'
  BY <1>1, <1>2 DEF IInv, ConnInv, Exchange, Early
<1>10. \A b \in Conn \ {c} : Same(b)
  BY <1>1, <1>4 DEF IInv, Types, TypeOK, Same
<1> QED
  BY <1>1, <1>5, <1>6, <1>7, <1>8, <1>9, <1>10, StepKeeps DEF ConnInv

LEMMA ServeOpenKeeps ==
  ASSUME IInv, NEW c \in Conn, ServeOpen(c)
  PROVE  IInv'
<1> DEFINE frames == <<Frame("ready")>>
<1>1. /\ server[c] = "accepted" /\ up[c] # <<>> /\ Head(up[c]).tag = "open"
      /\ ToClient(c, frames)
      /\ server' = [server EXCEPT ![c] = "looping"] /\ up' = [up EXCEPT ![c] = Tail(up[c])]
      /\ use' = use /\ trusted' = trusted /\ client' = client /\ envelope' = envelope
      /\ outcome' = outcome /\ age' = age /\ wait' = wait /\ got' = got /\ remote' = remote
      /\ hold' = hold /\ target' = target /\ fin' = fin /\ answered' = answered
      /\ accepting' = accepting
  BY DEF ServeOpen, ServerTo, Reads, Consume, fixed, clientSide
<1>2. use[c] = "datagram"
  BY <1>1, ServerReads DEF Upward
<1>3. /\ server'[c] = "looping" /\ up'[c] = Tail(up[c]) /\ Reply(c)' = Reply(c)
      /\ Upward(c) \subseteq Upward(c)' /\ Downward(c) \subseteq Downward(c)'
      /\ client[c] \notin {"idle", "connecting", "awaiting", "closing"}
      /\ trusted[c] /\ trusted'[c] /\ use'[c] = "datagram"
  BY <1>1, <1>2, Grows DEF IInv, Types, TypeOK, Reply, ConnInv, Handshake
<1>4. frames \in Seq(Frames) /\ frames \in Seq(Downward(c)')
  <2>1. Frame("ready") \in Frames /\ Frame("ready").tag = "ready"
    BY DEF Frame, Frames, Tags
  <2>2. Frame("ready") \in Downward(c)'
    BY <1>3, <2>1 DEF Downward
  <2> QED
    BY <2>1, <2>2
<1> HIDE DEF frames
<1>5. down' \in [Conn -> Seq(Frames)] /\ \A b \in Conn \ {c} : down'[b] = down[b]
  BY <1>1, <1>4, Replies DEF IInv
<1>6. Types'
  <2>1. TypeOK'
    BY <1>1 DEF IInv, Types, TypeOK
  <2>2. up' \in [Conn -> Seq(Frames)]
    BY <1>1, ServerReads
  <2> QED
    BY <1>1, <1>5, <2>1, <2>2 DEF IInv, Types
<1>7. UpQueue(c)'
  BY <1>1, <1>3, UpConsumed DEF IInv, ConnInv, Exchange, Early
<1>8. DownQueue(c)'
  BY <1>1, <1>3, <1>4, DownAppended
<1>9. Handshake(c)'
  BY <1>1, <1>3 DEF IInv, ConnInv, Handshake
<1>10. Exchange(c)'
  BY <1>1, <1>3 DEF IInv, ConnInv, Exchange, Early
<1>11. \A b \in Conn \ {c} : Same(b)
  BY <1>1, <1>5 DEF IInv, Types, TypeOK, Same
<1> QED
  BY <1>1, <1>6, <1>7, <1>8, <1>9, <1>10, <1>11, StepKeeps DEF ConnInv

-----------------------------------------------------------------------------
(* The two directions of a stream's handler. *)
LEMMA UplinkKeeps ==
  ASSUME IInv, NEW c \in Conn,
         Uplink(c) \/ (UplinkCloses(c) /\ target[c] # "ended")
  PROVE  IInv'
<1>1. /\ server[c] = "relaying" /\ up[c] # <<>>
      /\ Head(up[c]).tag = "chunk" \/ Head(up[c]).tag = "close"
      /\ up' = [up EXCEPT ![c] = Tail(up[c])]
      /\ use' = use /\ trusted' = trusted /\ client' = client /\ envelope' = envelope
      /\ outcome' = outcome /\ age' = age /\ wait' = wait /\ got' = got /\ remote' = remote
      /\ hold' = hold /\ target' = target /\ answered' = answered /\ down' = down
      /\ server' = server /\ accepting' = accepting
  BY DEF Uplink, UplinkCloses, Reads, Consume, fixed, clientSide, serverSide
<1>2. Types'
  <2>1. fin' \in [Conn -> BOOLEAN]
    <3>1. fin' = fin \/ fin' = [fin EXCEPT ![c] = TRUE]
      BY DEF Uplink, UplinkCloses, serverSide
    <3>2. fin \in [Conn -> BOOLEAN]
      BY DEF IInv, Types, TypeOK
    <3> QED
      BY <3>1, <3>2
  <2>2. TypeOK'
    BY <1>1, <2>1 DEF IInv, Types, TypeOK
  <2>3. up' \in [Conn -> Seq(Frames)]
    BY <1>1, ServerReads
  <2> QED
    BY <1>1, <2>2, <2>3 DEF IInv, Types
<1>3. /\ up'[c] = Tail(up[c]) /\ Reply(c)' = Reply(c)
      /\ Upward(c) \subseteq Upward(c)' /\ Downward(c) \subseteq Downward(c)'
      /\ Head(up[c]).tag # "datagram"
  BY <1>1, Grows DEF IInv, Types, Reply
<1>4. UpQueue(c)'
  BY <1>1, <1>3, UpConsumed DEF IInv, ConnInv, Exchange, Early
<1>5. DownQueue(c)'
  BY <1>1, <1>3, DownKept
<1>6. Handshake(c)'
  BY <1>1 DEF IInv, ConnInv, Handshake
<1>7. Exchange(c)'
  BY <1>1, <1>3 DEF IInv, ConnInv, Exchange, Early
<1>8. \A b \in Conn \ {c} : Same(b)
  BY <1>1 DEF IInv, Types, TypeOK, Same
<1> QED
  BY <1>1, <1>2, <1>4, <1>5, <1>6, <1>7, <1>8, StepKeeps DEF ConnInv

LEMMA UplinkClosesKeeps ==
  ASSUME IInv, NEW c \in Conn, UplinkCloses(c)
  PROVE  IInv'
<1>1. CASE target[c] = "ended"
  <2>1. /\ ServerEnds(c, <<>>) /\ server[c] # "absent"
        /\ UNCHANGED <<fixed, clientSide, remote, accepting>>
        /\ target' = target /\ fin' = [fin EXCEPT ![c] = TRUE] /\ answered' = answered
    BY <1>1 DEF UplinkCloses
  <2> QED
    BY <2>1, ServerEndsKeeps
<1>2. CASE target[c] # "ended"
  BY <1>2, UplinkKeeps
<1> QED
  BY <1>1, <1>2

LEMMA DownlinkKeeps ==
  ASSUME IInv, NEW c \in Conn, Downlink(c) \/ TargetCloses(c)
  PROVE  IInv'
<1>1. /\ server[c] = "relaying" /\ target[c] = "open"
      /\ target' = target \/ target' = [target EXCEPT ![c] = "ended"]
      /\ UNCHANGED <<fixed, clientSide, fin, remote, answered, accepting>>
  BY DEF Downlink, TargetCloses
<1>2. CASE fin[c]
  <2>1. ServerEnds(c, <<>>) /\ server[c] # "absent"
    BY <1>1, <1>2 DEF Downlink, TargetCloses
  <2> QED
    BY <1>1, <2>1, ServerEndsKeeps
<1>3. CASE ~fin[c]
  <2>1. PICK tag \in {"chunk", "close"} : ToClient(c, <<Frame(tag)>>)
    BY <1>3 DEF Downlink, TargetCloses
  <2> DEFINE frames == <<Frame(tag)>>
  <2>2. ToClient(c, frames) /\ frames \in Seq(Frames) /\ frames \in Seq(Downward(c))
    <3>1. Frame(tag) \in Frames /\ Frame(tag) \in Downward(c)
      BY PlainFrames DEF Tags
    <3> QED
      BY <2>1, <3>1
  <2> HIDE DEF frames
  <2>3. /\ use' = use /\ trusted' = trusted /\ client' = client /\ envelope' = envelope
        /\ outcome' = outcome /\ age' = age /\ wait' = wait /\ got' = got /\ remote' = remote
        /\ hold' = hold /\ fin' = fin /\ answered' = answered /\ up' = up
        /\ server' = server /\ accepting' = accepting
    BY <1>1, <1>3 DEF Downlink, TargetCloses, fixed, clientSide
  <2>4. down' \in [Conn -> Seq(Frames)] /\ \A b \in Conn \ {c} : down'[b] = down[b]
    BY <2>2, Replies DEF IInv
  <2>5. /\ target' \in [Conn -> {"none", "open", "ended"}] /\ target'[c] # "none"
        /\ \A b \in Conn \ {c} : target'[b] = target[b]
    BY <1>1 DEF IInv, Types, TypeOK
  <2>6. Types'
    <3>1. TypeOK'
      BY <2>3, <2>5 DEF IInv, Types, TypeOK
    <3> QED
      BY <2>3, <2>4, <3>1 DEF IInv, Types
  <2>7. /\ Reply(c)' = Reply(c)
        /\ Upward(c) \subseteq Upward(c)' /\ Downward(c) \subseteq Downward(c)'
    BY <2>3, <2>5, Grows DEF Reply
  <2>8. UpQueue(c)'
    BY <2>3, <2>7, UpKept DEF Early
  <2>9. DownQueue(c)'
    BY <2>2, <2>7, Wider, DownAppended
  <2>10. Handshake(c)'
    BY <1>1, <2>3, <2>5 DEF IInv, ConnInv, Handshake
  <2>11. Exchange(c)'
    BY <2>3, <2>7 DEF IInv, ConnInv, Exchange, Early
  <2>12. \A b \in Conn \ {c} : Same(b)
    BY <2>3, <2>4, <2>5 DEF Same
  <2> QED
    BY <2>3, <2>6, <2>8, <2>9, <2>10, <2>11, <2>12, StepKeeps DEF ConnInv
<1> QED
  BY <1>2, <1>3

-----------------------------------------------------------------------------
(* The relay loop of a datagram's handler. *)
LEMMA RelayOutboundKeeps ==
  ASSUME IInv, NEW c \in Conn, RelayOutbound(c)
  PROVE  IInv'
<1>1. server[c] = "looping" /\ up[c] # <<>> /\ Head(up[c]).tag = "datagram"
  BY DEF RelayOutbound, Reads
<1>2. CASE ServerEnds(c, <<>>) /\ UNCHANGED remote
  <2>1. /\ server[c] # "absent" /\ UNCHANGED <<fixed, clientSide, remote, accepting>>
        /\ target' = target /\ fin' = fin /\ answered' = answered
    BY <1>1, <1>2 DEF RelayOutbound
  <2> QED
    BY <1>2, <2>1, ServerEndsKeeps
<1>3. CASE ~(ServerEnds(c, <<>>) /\ UNCHANGED remote)
  <2>1. /\ envelope[c] \in Envelopes
        /\ Head(up[c]).cells = EncodeDatagram(envelope[c]).cells
    BY <1>1, ServerReads DEF Upward
  <2>2. DecodeDatagram(Head(up[c]).cells) = envelope[c]
    BY <2>1, FrameRoundTrip
  <2>3. /\ remote' = [remote EXCEPT ![c] = Content(envelope[c])]
        /\ server' = [server EXCEPT ![c] = "waiting"] /\ up' = [up EXCEPT ![c] = Tail(up[c])]
        /\ use' = use /\ trusted' = trusted /\ client' = client /\ envelope' = envelope
        /\ outcome' = outcome /\ age' = age /\ wait' = wait /\ got' = got
        /\ hold' = hold /\ target' = target /\ fin' = fin /\ answered' = answered
        /\ down' = down /\ accepting' = accepting
    BY <1>3, <2>2 DEF RelayOutbound, ServerTo, Consume, fixed, clientSide
  <2>4. ~Early(c) /\ remote[c] = Nothing
    <3>1. ~(up[c] \in Seq(Plain))
      <4>1. up[c] \in Seq(Plain) => Head(up[c]) \in Plain
        BY <1>1, QueueOps
      <4> QED
        BY <1>1, <4>1 DEF Plain
    <3> QED
      BY <3>1 DEF IInv, ConnInv, UpQueue
  <2>5. Types'
    <3>1. TypeOK'
      BY <2>3 DEF IInv, Types, TypeOK
    <3>2. up' \in [Conn -> Seq(Frames)]
      BY <1>1, <2>3, ServerReads
    <3>3. DOMAIN remote' = Conn
      BY <2>3 DEF IInv, Types
    <3> QED
      BY <2>3, <3>1, <3>2, <3>3 DEF IInv, Types
  <2>6. /\ server'[c] = "waiting" /\ up'[c] = Tail(up[c]) /\ Reply(c)' = Reply(c)
        /\ remote'[c] = Content(envelope[c])
        /\ Upward(c) \subseteq Upward(c)' /\ Downward(c) \subseteq Downward(c)'
        /\ client[c] \notin {"idle", "connecting"} /\ ~Early(c)'
    BY <1>1, <2>3, <2>4, Grows DEF IInv, Types, TypeOK, Reply, ConnInv, Handshake, Early
  <2>7. UpQueue(c)'
    BY <1>1, <2>3, <2>4, <2>6, UpConsumed
  <2>8. DownQueue(c)'
    BY <2>3, <2>6, DownKept
  <2>9. Handshake(c)'
    BY <1>1, <2>3, <2>6 DEF IInv, ConnInv, Handshake
  <2>10. Exchange(c)'
    <3>1. Content(envelope[c]) # Nothing
      BY DEF Content, Nothing
    <3>2. ~answered[c]
      BY <2>4 DEF IInv, ConnInv, Exchange
    <3> QED
      BY <2>1, <2>3, <2>6, <3>1, <3>2 DEF IInv, ConnInv, Exchange
  <2>11. \A b \in Conn \ {c} : Same(b)
    BY <2>3 DEF IInv, Types, TypeOK, Same
  <2> QED
    BY <2>3, <2>5, <2>7, <2>8, <2>9, <2>10, <2>11, StepKeeps DEF ConnInv
<1> QED
  BY <1>2, <1>3

LEMMA RelayInboundKeeps ==
  ASSUME IInv, NEW c \in Conn, RelayInbound(c)
  PROVE  IInv'
<1> DEFINE cells == EncodeDatagram(Reply(c)).cells
           frames == <<DatagramFrame(cells)>>
<1>1. /\ server[c] = "waiting" /\ answered' = [answered EXCEPT ![c] = TRUE]
      /\ UNCHANGED <<fixed, clientSide, target, fin, remote, accepting>>
  BY DEF RelayInbound
<1>2. /\ envelope[c] \in Envelopes /\ remote[c] = Content(envelope[c]) /\ remote[c] # Nothing
      /\ ~answered[c]
  BY <1>1 DEF IInv, ConnInv, Exchange
<1>3. Reply(c) \in Envelopes /\ EncodeDatagram(Reply(c)) # Invalid /\ cells \in Seq(Cell)
  BY <1>2, ReplyTyped, FrameRoundTrip
<1>4. [id |-> Association, client |-> Client, target |-> remote[c].target,
       payload |-> Answer[c]] = Reply(c)
  BY <1>2 DEF Reply, Envelopes, Content
<1>5. CASE ServerEnds(c, <<>>)
  BY <1>1, <1>2, <1>5, ServerEndsKeeps
<1>6. CASE ~ServerEnds(c, <<>>)
  <2>1. /\ ToClient(c, frames)
        /\ server' = [server EXCEPT ![c] = "looping"] /\ hold' = [hold EXCEPT ![c] = 0]
        /\ use' = use /\ trusted' = trusted /\ client' = client /\ envelope' = envelope
        /\ outcome' = outcome /\ age' = age /\ wait' = wait /\ got' = got /\ remote' = remote
        /\ target' = target /\ fin' = fin /\ up' = up /\ accepting' = accepting
    BY <1>4, <1>6 DEF RelayInbound, ServerTo, fixed, clientSide
  <2> HIDE DEF cells
  <2>2. /\ server'[c] = "looping" /\ answered'[c] /\ Reply(c)' = Reply(c)
        /\ envelope'[c] = envelope[c]
        /\ Upward(c) \subseteq Upward(c)' /\ Downward(c) \subseteq Downward(c)'
        /\ client[c] \notin {"idle", "connecting"} /\ use[c] = "datagram" /\ trusted[c]
    BY <1>1, <2>1, Grows DEF IInv, Types, TypeOK, Reply, ConnInv, Handshake
  <2>3. frames \in Seq(Frames) /\ frames \in Seq(Downward(c)')
    <3>1. /\ DatagramFrame(cells) \in Frames /\ DatagramFrame(cells).tag = "datagram"
          /\ DatagramFrame(cells).cells = cells
      BY <1>3 DEF DatagramFrame, Frames, Tags
    <3>2. EncodeDatagram(Reply(c))' = EncodeDatagram(Reply(c))
      BY <2>2 DEF EncodeDatagram
    <3>3. DatagramFrame(cells) \in Downward(c)'
      BY <1>2, <2>2, <3>1, <3>2 DEF Downward, cells
    <3> QED
      BY <3>1, <3>3
  <2> HIDE DEF frames
  <2>4. down' \in [Conn -> Seq(Frames)] /\ \A b \in Conn \ {c} : down'[b] = down[b]
    BY <2>1, <2>3, Replies DEF IInv
  <2>5. Types'
    <3>1. hold' \in [Conn -> 0..Window]
      BY <2>1, ConnectionAssumption DEF IInv, Types, TypeOK
    <3>2. answered' \in [Conn -> BOOLEAN]
      BY <1>1 DEF IInv, Types, TypeOK
    <3>3. TypeOK'
      BY <2>1, <3>1, <3>2 DEF IInv, Types, TypeOK
    <3> QED
      BY <2>1, <2>4, <3>3 DEF IInv, Types
  <2>6. UpQueue(c)'
    BY <2>1, <2>2, UpKept DEF Early
  <2>7. DownQueue(c)'
    BY <2>1, <2>2, <2>3, DownAppended
  <2>8. Handshake(c)'
    BY <1>1, <2>1, <2>2 DEF IInv, ConnInv, Handshake
  <2>9. Exchange(c)'
    BY <1>2, <2>1, <2>2 DEF IInv, ConnInv, Exchange, Early
  <2>10. \A b \in Conn \ {c} : Same(b)
    BY <1>1, <2>1, <2>4 DEF IInv, Types, TypeOK, Same
  <2> QED
    BY <2>1, <2>5, <2>6, <2>7, <2>8, <2>9, <2>10, StepKeeps DEF ConnInv
<1> QED
  BY <1>5, <1>6

LEMMA ServerWindowKeeps ==
  ASSUME IInv, NEW c \in Conn, ServerWindowExpires(c)
  PROVE  IInv'
<1>1. /\ server[c] = "waiting"
      /\ server' = [server EXCEPT ![c] = "looping"] /\ hold' = [hold EXCEPT ![c] = 0]
      /\ use' = use /\ trusted' = trusted /\ client' = client /\ envelope' = envelope
      /\ outcome' = outcome /\ age' = age /\ wait' = wait /\ got' = got /\ remote' = remote
      /\ target' = target /\ fin' = fin /\ answered' = answered /\ up' = up /\ down' = down
      /\ accepting' = accepting
  BY DEF ServerWindowExpires, ServerTo, fixed, clientSide
<1>2. Types'
  <2>1. hold' \in [Conn -> 0..Window]
    BY <1>1, ConnectionAssumption DEF IInv, Types, TypeOK
  <2>2. TypeOK'
    BY <1>1, <2>1 DEF IInv, Types, TypeOK
  <2> QED
    BY <1>1, <2>2 DEF IInv, Types
<1>3. /\ server'[c] = "looping" /\ Reply(c)' = Reply(c)
      /\ Upward(c) \subseteq Upward(c)' /\ Downward(c) \subseteq Downward(c)'
      /\ client[c] \notin {"idle", "connecting"} /\ use[c] = "datagram" /\ trusted[c]
  BY <1>1, Grows DEF IInv, Types, TypeOK, Reply, ConnInv, Handshake
<1>4. UpQueue(c)' /\ DownQueue(c)'
  BY <1>1, <1>3, UpKept, DownKept DEF Early
<1>5. Handshake(c)'
  BY <1>1, <1>3 DEF IInv, ConnInv, Handshake
<1>6. Exchange(c)'
  BY <1>1, <1>3 DEF IInv, ConnInv, Exchange, Early
<1>7. \A b \in Conn \ {c} : Same(b)
  BY <1>1 DEF IInv, Types, TypeOK, Same
<1> QED
  BY <1>1, <1>2, <1>4, <1>5, <1>6, <1>7, StepKeeps DEF ConnInv

LEMMA ServerKeeps ==
  ASSUME IInv, NEW c \in Conn, Handler(c) \/ TargetStep(c)
  PROVE  IInv'
BY ReturningKeeps, AuthorizeKeeps, ServeConnectKeeps, TargetConnectedKeeps, ServeOpenKeeps,
   UplinkKeeps, UplinkClosesKeeps, DownlinkKeeps, RelayOutboundKeeps, RelayInboundKeeps,
   ServerWindowKeeps DEF Handler, TargetStep

-----------------------------------------------------------------------------
(* What happens to a connection, or to all of them. *)
LEMMA BreakKeeps ==
  ASSUME IInv, NEW c \in Conn, Break(c)
  PROVE  IInv'
<1> DEFINE frames == <<Frame("cut")>>
<1>1. /\ client[c] \notin {"idle", "connecting", "ended"}
      /\ up' = [up EXCEPT ![c] = IF server[c] = "ended" THEN <<>> ELSE frames]
      /\ down' = [down EXCEPT ![c] = frames]
      /\ use' = use /\ trusted' = trusted /\ client' = client /\ envelope' = envelope
      /\ outcome' = outcome /\ age' = age /\ wait' = wait /\ got' = got /\ remote' = remote
      /\ hold' = hold /\ target' = target /\ fin' = fin /\ answered' = answered
      /\ server' = server /\ accepting' = accepting
  BY DEF Break, fixed, clientSide, serverSide
<1>2. /\ frames \in Seq(Plain) /\ frames \in Seq(Frames) /\ frames \in Seq(Upward(c))
      /\ frames \in Seq(Downward(c))
  <2>1. /\ Frame("cut") \in Plain /\ Frame("cut") \in Frames /\ Frame("cut") \in Upward(c)
        /\ Frame("cut") \in Downward(c)
    BY PlainFrames DEF Tags
  <2> QED
    BY <2>1
<1> HIDE DEF frames
<1>3. /\ up' \in [Conn -> Seq(Frames)] /\ down' \in [Conn -> Seq(Frames)]
      /\ up'[c] \in {<<>>, frames} /\ down'[c] = frames
      /\ \A b \in Conn \ {c} : up'[b] = up[b] /\ down'[b] = down[b]
  <2>1. <<>> \in Seq(Frames)
    OBVIOUS
  <2> QED
    BY <1>1, <1>2, <2>1 DEF IInv, Types
<1>4. Types'
  <2>1. TypeOK'
    BY <1>1 DEF IInv, Types, TypeOK
  <2> QED
    BY <1>1, <1>3, <2>1 DEF IInv, Types
<1>5. /\ Reply(c)' = Reply(c)
      /\ Upward(c) \subseteq Upward(c)' /\ Downward(c) \subseteq Downward(c)'
  BY <1>1, Grows DEF Reply
<1>6. UpQueue(c)'
  <2>1. frames \in Seq(Upward(c)')
    BY <1>2, <1>5, Wider
  <2>2. up'[c] \in Seq(Plain) /\ up'[c] \in Seq(Upward(c)')
    BY <1>2, <1>3, <2>1
  <2> QED
    BY <2>2, UpPlain
<1>7. DownQueue(c)'
  BY <1>2, <1>3, <1>5, Wider DEF DownQueue
<1>8. Handshake(c)'
  BY <1>1 DEF IInv, ConnInv, Handshake
<1>9. Exchange(c)'
  BY <1>1, <1>5 DEF IInv, ConnInv, Exchange, Early
<1>10. \A b \in Conn \ {c} : Same(b)
  BY <1>1, <1>3 DEF Same
<1> QED
  BY <1>1, <1>4, <1>6, <1>7, <1>8, <1>9, <1>10, StepKeeps DEF ConnInv

(* All handlers go with the server's process. *)
LEMMA ServerExitsKeeps ==
  ASSUME IInv, ServerExits
  PROVE  IInv'
<1> DEFINE open == {c \in Conn : server[c] \notin {"absent", "ended"}}
           frames == <<Frame("cut")>>
<1>1. /\ server' = [c \in Conn |-> IF c \in open THEN "ended" ELSE server[c]]
      /\ hold' = [c \in Conn |-> 0] /\ up' = [c \in Conn |-> <<>>]
      /\ down' = [c \in Conn |-> IF c \in open /\ client[c] # "ended" THEN frames ELSE down[c]]
      /\ use' = use /\ trusted' = trusted /\ client' = client /\ envelope' = envelope
      /\ outcome' = outcome /\ age' = age /\ wait' = wait /\ got' = got /\ remote' = remote
      /\ target' = target /\ fin' = fin /\ answered' = answered
      /\ accepting' \in BOOLEAN
  BY DEF ServerExits, fixed, clientSide
<1>2. \A c \in Conn : frames \in Seq(Frames) /\ frames \in Seq(Downward(c))
  <2> TAKE c \in Conn
  <2>1. Frame("cut") \in Frames /\ Frame("cut") \in Downward(c)
    BY PlainFrames DEF Tags
  <2> QED
    BY <2>1
<1> HIDE DEF frames
<1>3. \A c \in Conn :
        /\ server'[c] = IF server[c] = "absent" THEN "absent" ELSE "ended"
        /\ up'[c] = <<>> /\ down'[c] \in {frames, down[c]}
  BY <1>1 DEF IInv, Types, TypeOK
<1> HIDE DEF open
<1>4. Types'
  <2>1. server' \in [Conn -> {"absent", "authenticating", "accepted", "connecting", "relaying",
                              "looping", "waiting", "ended"}]
    BY <1>1, <1>3
  <2>2. hold' \in [Conn -> 0..Window]
    <3>1. 0 \in 0..Window
      BY ConnectionAssumption
    <3> QED
      BY <1>1, <3>1
  <2>3. TypeOK'
    BY <1>1, <2>1, <2>2 DEF IInv, Types, TypeOK
  <2>4. up' \in [Conn -> Seq(Frames)]
    BY <1>1
  <2>5. down' \in [Conn -> Seq(Frames)]
    BY <1>1, <1>2, <1>3 DEF IInv, Types
  <2> QED
    BY <1>1, <2>3, <2>4, <2>5 DEF IInv, Types
<1>5. ASSUME NEW c \in Conn
      PROVE  ConnInv(c)'
  <2>1. /\ server'[c] = IF server[c] = "absent" THEN "absent" ELSE "ended"
        /\ up'[c] = <<>> /\ down'[c] \in {frames, down[c]}
    BY <1>3
  <2>2. Reply(c)' = Reply(c) /\ Downward(c) \subseteq Downward(c)'
    BY <1>1, <2>1, Grows DEF Reply
  <2>3. UpQueue(c)'
    <3>1. up'[c] \in Seq(Plain) /\ up'[c] \in Seq(Upward(c)')
      BY <2>1
    <3> QED
      BY <3>1, UpPlain
  <2>4. DownQueue(c)'
    <3>1. frames \in Seq(Downward(c)') /\ down[c] \in Seq(Downward(c)')
      BY <1>2, <2>2, Wider DEF IInv, ConnInv, DownQueue
    <3> QED
      BY <2>1, <3>1 DEF DownQueue
  <2>5. Handshake(c)'
    BY <1>1, <2>1 DEF IInv, ConnInv, Handshake
  <2>6. Exchange(c)'
    BY <1>1, <2>1, <2>2 DEF IInv, ConnInv, Exchange, Early
  <2> QED
    BY <2>3, <2>4, <2>5, <2>6 DEF ConnInv
<1>6. Sequential'
  BY <1>1 DEF IInv, Sequential
<1> QED
  BY <1>4, <1>5, <1>6 DEF IInv

(* Time passes, or nothing that is told apart here changes. *)
LEMMA QuietKeeps ==
  ASSUME IInv, ServerStarts \/ Tick \/ UNCHANGED vars
  PROVE  IInv'
<1>1. /\ use' = use /\ trusted' = trusted /\ client' = client /\ envelope' = envelope
      /\ outcome' = outcome /\ server' = server /\ up' = up /\ down' = down /\ target' = target
      /\ fin' = fin /\ remote' = remote /\ answered' = answered /\ got' = got
  BY DEF ServerStarts, Tick, vars, fixed, clientSide, serverSide
<1>2. age' \in [Conn -> 0..WssTimeout] /\ wait' \in [Conn -> 0..Window]
      /\ hold' \in [Conn -> 0..Window] /\ accepting' \in BOOLEAN
  <2>1. /\ age \in [Conn -> 0..WssTimeout] /\ wait \in [Conn -> 0..Window]
        /\ hold \in [Conn -> 0..Window] /\ accepting \in BOOLEAN
    BY DEF IInv, Types, TypeOK
  <2>2. CASE Tick
    <3>1. \A c \in Conn :
            /\ Attempting(c) => age[c] + 1 \in 0..WssTimeout
            /\ client[c] = "awaiting" => wait[c] + 1 \in 0..Window
            /\ server[c] = "waiting" => hold[c] + 1 \in 0..Window
      <4> TAKE c \in Conn
      <4>1. /\ Attempting(c) => age[c] < WssTimeout
            /\ client[c] = "awaiting" => wait[c] < Window
            /\ server[c] = "waiting" => hold[c] < Window
        BY <2>2 DEF Tick
      <4>2. age[c] \in 0..WssTimeout /\ wait[c] \in 0..Window /\ hold[c] \in 0..Window
        BY <2>1
      <4>3. WssTimeout \in Nat /\ Window \in Nat
        BY ConnectionAssumption
      <4> HIDE DEF Attempting
      <4> QED
        BY <4>1, <4>2, <4>3
    <3>2. age' \in [Conn -> 0..WssTimeout]
      BY <2>1, <2>2, <3>1 DEF Tick
    <3>3. wait' \in [Conn -> 0..Window]
      BY <2>1, <2>2, <3>1 DEF Tick
    <3>4. hold' \in [Conn -> 0..Window]
      BY <2>1, <2>2, <3>1 DEF Tick
    <3> QED
      BY <2>1, <2>2, <3>2, <3>3, <3>4 DEF Tick
  <2>3. CASE ServerStarts \/ UNCHANGED vars
    BY <2>1, <2>3 DEF ServerStarts, vars, clientSide, serverSide
  <2> QED
    BY <2>2, <2>3
<1>3. Types'
  <2>1. TypeOK'
    BY <1>1, <1>2 DEF IInv, Types, TypeOK
  <2> QED
    BY <1>1, <2>1 DEF IInv, Types
<1>4. \A c \in Conn : Same(c)
  BY <1>1 DEF Same
<1>5. \A c \in Conn : ConnInv(c)'
  BY <1>4, SameKeeps DEF IInv
<1>6. Sequential'
  BY <1>1 DEF IInv, Sequential
<1> QED
  BY <1>3, <1>5, <1>6 DEF IInv

LEMMA InitHolds ==
  ASSUME Init
  PROVE  IInv
<1>1. TypeOK
  <2>1. 0 \in 0..WssTimeout /\ 0 \in 0..Window
    BY ConnectionAssumption
  <2>2. trusted \in [Conn -> BOOLEAN]
    BY DEF Init
  <2> QED
    BY <2>1, <2>2 DEF Init, TypeOK
<1>2. Types
  BY <1>1 DEF Init, Types
<1>3. ASSUME NEW c \in Conn
      PROVE  ConnInv(c)
  <2>1. up[c] = <<>> /\ down[c] = <<>>
    BY DEF Init
  <2>2. UpQueue(c)
    <3>1. up[c] \in Seq(Plain) /\ up[c] \in Seq(Upward(c))
      BY <2>1
    <3> QED
      BY <3>1, PlainIsOne DEF UpQueue
  <2>3. DownQueue(c)
    BY <2>1 DEF DownQueue
  <2>4. Handshake(c) /\ Exchange(c)
    BY DEF Init, Handshake, Exchange
  <2> QED
    BY <2>2, <2>3, <2>4 DEF ConnInv
<1>4. Sequential
  BY DEF Init, Sequential
<1> QED
  BY <1>2, <1>3, <1>4 DEF IInv

LEMMA NextKeeps ==
  ASSUME IInv, [Next]_vars
  PROVE  IInv'
BY ClientKeeps, ServerKeeps, BreakKeeps, ServerExitsKeeps, QuietKeeps DEF Next, Over

(* The invariant holds of every behaviour of the gateways. *)
THEOREM Inductive == Spec => []IInv
<1>1. Init => IInv
  BY InitHolds
<1>2. IInv /\ [Next]_vars => IInv'
  BY NextKeeps
<1> QED
  BY <1>1, <1>2, PTL DEF Spec

-----------------------------------------------------------------------------
(* The state of the connections has its shape, and the clocks their bounds.*)
THEOREM ConnectionTypes == Spec => []TypeOK
<1>1. IInv => TypeOK
  BY DEF IInv, Types
<1> QED
  BY <1>1, Inductive, PTL

(* What a client was told about its connection is so at the other end: an  *)
(* opened stream has a target that was connected, and a datagram is sent   *)
(* only to a relay loop (or what is left of one), of a server that         *)
(* accepted the token (open_stream and emit_datagram against               *)
(* handle_accepted).                                                       *)
THEOREM AcksMeanServed == Spec => []AckMeansServed
<1>1. IInv => AckMeansServed
  BY DEF IInv, ConnInv, Handshake, AckMeansServed
<1> QED
  BY <1>1, Inductive, PTL

(* Whatever the packets and the answers, every datagram frame under way    *)
(* decodes to the envelope or the reply it was made of, and cut short      *)
(* anywhere it is refused (encode_datagram and decode_datagram).           *)
THEOREM FramesRoundTrip == Spec => []FramesDecode
<1>1. IInv => FramesDecode
  <2> SUFFICES ASSUME IInv, NEW c \in Conn
               PROVE  /\ \A i \in DOMAIN up[c] :
                           up[c][i].tag = "datagram" => Decodes(up[c][i], envelope[c])
                      /\ \A i \in DOMAIN down[c] :
                           down[c][i].tag = "datagram" => Decodes(down[c][i], Reply(c))
    BY DEF FramesDecode
  <2>1. ASSUME NEW f, NEW e \in Envelopes, f.cells = EncodeDatagram(e).cells
        PROVE  Decodes(f, e)
    BY <2>1, FrameRoundTrip DEF Decodes
  <2>2. ASSUME NEW i \in DOMAIN up[c], up[c][i].tag = "datagram"
        PROVE  Decodes(up[c][i], envelope[c])
    <3>1. up[c][i] \in Upward(c)
      BY DEF IInv, ConnInv, UpQueue
    <3> QED
      BY <2>1, <2>2, <3>1 DEF Upward
  <2>3. ASSUME NEW i \in DOMAIN down[c], down[c][i].tag = "datagram"
        PROVE  Decodes(down[c][i], Reply(c))
    <3>1. down[c][i] \in Downward(c)
      BY DEF IInv, ConnInv, DownQueue
    <3> QED
      BY <2>1, <2>3, <3>1, ReplyTyped DEF Downward
  <2> QED
    BY <2>2, <2>3
<1> QED
  BY <1>1, Inductive, PTL

-----------------------------------------------------------------------------
(* The emissions of datagrams are emissions of the best-effort service.    *)
Phase(p) == CASE p = "idle" -> "idle" [] p = "ended" -> "over" [] OTHER -> "pending"
Said(e)  == IF e = Nothing THEN Nothing ELSE Content(e)

Offered  == [c \in Conn |-> Said(envelope[c])]
Emission == [c \in Conn |-> Phase(client[c])]
AtClient == [c \in Conn |-> Said(got[c])]

(* A datagram is not the absence of one. *)
LEMMA NothingIsApart ==
  /\ Nothing \notin Envelopes
  /\ \A e \in Envelopes : Content(e) # Nothing /\ Said(e) = Content(e)
<1>1. Nothing \notin Envelopes
  BY DEF Nothing, Envelopes
<1>2. \A e : Content(e) # Nothing
  BY DEF Content, Nothing
<1> QED
  BY <1>1, <1>2 DEF Said

(* The steps of the service, in terms of what the mapping shows of the state. *)
LEMMA ServiceSteps ==
  ASSUME NEW c \in Conn
  PROVE  /\ /\ Emission[c] = "idle" /\ \A o \in Conn : Emission[o] # "pending"
            /\ Emission' = [Emission EXCEPT ![c] = "pending"]
            /\ \A o \in Conn \ {c} : Offered'[o] = Offered[o]
            /\ remote' = remote /\ answered' = answered /\ AtClient' = AtClient
            => Service!Next
         /\ /\ Offered[c] # Nothing /\ remote[c] = Nothing
            /\ remote' = [remote EXCEPT ![c] = Offered[c]]
            /\ Offered' = Offered /\ Emission' = Emission /\ answered' = answered
            /\ AtClient' = AtClient
            => Service!Next
         /\ /\ remote[c] # Nothing /\ ~answered[c]
            /\ answered' = [answered EXCEPT ![c] = TRUE]
            /\ Offered' = Offered /\ Emission' = Emission /\ remote' = remote
            /\ AtClient' = AtClient
            => Service!Next
         /\ /\ Emission[c] = "pending" /\ answered[c] /\ AtClient[c] = Nothing
            /\ AtClient' = [AtClient EXCEPT
                 ![c] = [target |-> Offered[c].target, payload |-> Answer[c]]]
            /\ Offered' = Offered /\ Emission' = Emission /\ remote' = remote
            /\ answered' = answered
            => Service!Next
         /\ /\ Emission[c] # "over"
            /\ Emission[c] = "idle" => \A o \in Conn : Emission[o] # "pending"
            /\ Emission' = [Emission EXCEPT ![c] = "over"]
            /\ Offered' = Offered /\ remote' = remote /\ answered' = answered
            /\ AtClient' = AtClient
            => Service!Next
         /\ /\ Offered' = Offered /\ Emission' = Emission /\ remote' = remote
            /\ answered' = answered /\ AtClient' = AtClient
            => UNCHANGED Service!vars
BY DEF Service!Next, Service!Begin, Service!Relay, Service!TakeAnswer, Service!Deliver,
       Service!Finish, Service!vars, Offered, Emission, AtClient, Said, Phase

LEMMA EndIsFinish ==
  ASSUME IInv, NEW c \in Conn, client[c] \notin {"idle", "ended"},
         client' = [client EXCEPT ![c] = "ended"],
         UNCHANGED <<serverSide, envelope, got>>
  PROVE  Service!Next
<1>1. Emission[c] = "pending" /\ Emission' = [Emission EXCEPT ![c] = "over"]
  BY DEF IInv, Types, TypeOK, Emission, Phase
<1>2. Offered' = Offered /\ remote' = remote /\ answered' = answered /\ AtClient' = AtClient
  BY DEF serverSide, Offered, AtClient, Said
<1> QED
  BY <1>1, <1>2, ServiceSteps

LEMMA MoveIsStutter ==
  ASSUME IInv, NEW c \in Conn,
         \/ client' = client
         \/ \E p : /\ client' = [client EXCEPT ![c] = p] /\ p \notin {"idle", "ended"}
                   /\ client[c] \notin {"idle", "ended"},
         UNCHANGED <<remote, answered, envelope, got>>
  PROVE  UNCHANGED Service!vars
<1>1. Emission' = Emission
  BY DEF IInv, Types, TypeOK, Emission, Phase
<1>2. Offered' = Offered /\ remote' = remote /\ answered' = answered /\ AtClient' = AtClient
  BY DEF Offered, AtClient, Said
<1> QED
  BY <1>1, <1>2, ServiceSteps

LEMMA BeginIsBegin ==
  ASSUME IInv, NEW c \in Conn, Begin(c)
  PROVE  Service!Next
<1>1. /\ client[c] = "idle" /\ \A b \in 1..(c - 1) : client[b] = "ended"
      /\ remote' = remote /\ answered' = answered /\ got' = got
  BY DEF Begin, serverSide
<1>2. \/ client' = [client EXCEPT ![c] = "ended"] /\ envelope' = envelope
      \/ /\ client' = [client EXCEPT ![c] = "connecting"]
         /\ envelope' = envelope \/ \E e : envelope' = [envelope EXCEPT ![c] = e]
  BY DEF Begin, ClientTo
<1>3. Emission[c] = "idle" /\ \A o \in Conn : Emission[o] # "pending"
  <2>1. ASSUME NEW o \in Conn
        PROVE  client[o] \in {"idle", "ended"}
    <3>1. CASE o \in 1..(c - 1)
      BY <1>1, <3>1
    <3>2. CASE o = c
      BY <1>1, <3>2
    <3>3. CASE o \notin 1..(c - 1) /\ o # c
      <4>1. c \in 1..(o - 1)
        BY <3>3, ConnectionAssumption DEF Conn
      <4> QED
        BY <1>1, <4>1 DEF IInv, Sequential
    <3> QED
      BY <3>1, <3>2, <3>3
  <2> QED
    BY <1>1, <2>1 DEF Emission, Phase
<1>4. AtClient' = AtClient
  BY <1>1 DEF AtClient, Said
<1>5. CASE client' = [client EXCEPT ![c] = "ended"] /\ envelope' = envelope
  <2>1. Emission' = [Emission EXCEPT ![c] = "over"] /\ Offered' = Offered
    BY <1>5 DEF IInv, Types, TypeOK, Emission, Phase, Offered, Said
  <2> QED
    BY <1>1, <1>3, <1>4, <2>1, ServiceSteps
<1>6. CASE /\ client' = [client EXCEPT ![c] = "connecting"]
           /\ envelope' = envelope \/ \E e : envelope' = [envelope EXCEPT ![c] = e]
  <2>1. Emission' = [Emission EXCEPT ![c] = "pending"]
    BY <1>6 DEF IInv, Types, TypeOK, Emission, Phase
  <2>2. \A o \in Conn \ {c} : envelope'[o] = envelope[o]
    BY <1>6 DEF IInv, Types
  <2>3. \A o \in Conn \ {c} : Offered'[o] = Offered[o]
    BY <2>2 DEF Offered, Said
  <2> QED
    BY <1>1, <1>3, <1>4, <2>1, <2>3, ServiceSteps
<1> QED
  BY <1>2, <1>5, <1>6

LEMMA ReplyIsDeliver ==
  ASSUME IInv, NEW c \in Conn, ReplyArrives(c)
  PROVE  Service!Next
<1>1. client[c] = "awaiting" /\ down[c] # <<>> /\ Head(down[c]).tag = "datagram"
      /\ UNCHANGED <<serverSide, envelope>>
  BY DEF ReplyArrives, Heard
<1>2. CASE ClientEnds(c, "failed", <<>>) /\ UNCHANGED got
  BY <1>1, <1>2, EndIsFinish DEF ClientEnds, ClientTo
<1>3. CASE ~(ClientEnds(c, "failed", <<>>) /\ UNCHANGED got)
  <2>1. /\ envelope[c] \in Envelopes /\ answered[c]
        /\ Head(down[c]).cells = EncodeDatagram(Reply(c)).cells
    BY <1>1, ClientReads DEF Downward
  <2>2. Reply(c) \in Envelopes
    BY <2>1, ReplyTyped
  <2>3. /\ DecodeDatagram(Head(down[c]).cells) = Reply(c)
        /\ ParsePacket(EncodePacket(Reply(c)).cells, Association, Client) = Reply(c)
    BY <2>1, <2>2, FrameRoundTrip, PacketRoundTrip
  <2>4. client' = [client EXCEPT ![c] = "closing"] /\ got' = [got EXCEPT ![c] = Reply(c)]
    BY <1>3, <2>3 DEF ReplyArrives, ClientTo
  <2>5. Emission[c] = "pending" /\ Emission' = Emission
    BY <1>1, <2>4 DEF IInv, Types, TypeOK, Emission, Phase
  <2>6. AtClient[c] = Nothing
    BY <1>1 DEF AtClient, Said, IInv, ConnInv, Exchange
  <2>7. Said(Reply(c)) = [target |-> Offered[c].target, payload |-> Answer[c]]
    BY <2>1, <2>2, NothingIsApart DEF Offered, Content, Reply, Envelopes
  <2>8. AtClient' = [AtClient EXCEPT ![c] = Said(Reply(c))]
    <3>1. AtClient' = [b \in Conn |-> Said(got'[b])]
      BY DEF AtClient, Said
    <3> QED
      BY <2>4, <3>1 DEF AtClient, IInv, Types
  <2>9. Offered' = Offered /\ remote' = remote /\ answered' = answered
    BY <1>1 DEF Offered, Said, serverSide
  <2> QED
    BY <2>1, <2>5, <2>6, <2>7, <2>8, <2>9, ServiceSteps
<1> QED
  BY <1>2, <1>3

LEMMA OutboundIsRelay ==
  ASSUME IInv, NEW c \in Conn, RelayOutbound(c), remote' # remote
  PROVE  Service!Next
<1>1. up[c] # <<>> /\ Head(up[c]).tag = "datagram" /\ UNCHANGED <<clientSide, answered>>
  BY DEF RelayOutbound, Reads
<1>2. /\ envelope[c] \in Envelopes
      /\ Head(up[c]).cells = EncodeDatagram(envelope[c]).cells
  BY <1>1, ServerReads DEF Upward
<1>3. DecodeDatagram(Head(up[c]).cells) = envelope[c]
  BY <1>2, FrameRoundTrip
<1>4. remote' = [remote EXCEPT ![c] = Content(envelope[c])]
  BY <1>3 DEF RelayOutbound
<1>5. remote[c] = Nothing
  <2>1. up[c] \in Seq(Plain) => Head(up[c]) \in Plain
    BY <1>1, QueueOps
  <2> QED
    BY <1>1, <2>1 DEF Plain, IInv, ConnInv, UpQueue
<1>6. Offered[c] = Content(envelope[c]) /\ Offered[c] # Nothing
  BY <1>2, NothingIsApart DEF Offered
<1>7. Offered' = Offered /\ Emission' = Emission /\ AtClient' = AtClient /\ answered' = answered
  BY <1>1 DEF Offered, Emission, AtClient, Said, Phase, clientSide
<1> QED
  BY <1>4, <1>5, <1>6, <1>7, ServiceSteps

LEMMA InboundIsTakeAnswer ==
  ASSUME IInv, NEW c \in Conn, RelayInbound(c)
  PROVE  Service!Next
<1>1. /\ answered' = [answered EXCEPT ![c] = TRUE] /\ UNCHANGED <<clientSide, remote>>
      /\ remote[c] # Nothing /\ ~answered[c]
  BY DEF RelayInbound, IInv, ConnInv, Exchange
<1>2. Offered' = Offered /\ Emission' = Emission /\ AtClient' = AtClient
  BY <1>1 DEF Offered, Emission, AtClient, Said, Phase, clientSide
<1> QED
  BY <1>1, <1>2, ServiceSteps

(* Every step is a step of the service or is not seen by it. *)
LEMMA ServiceStep ==
  ASSUME IInv, [Next]_vars
  PROVE  Service!Next \/ UNCHANGED Service!vars
<1>1. ASSUME NEW c \in Conn, ClientStep(c) \/ Attempt(c)
      PROVE  Service!Next \/ UNCHANGED Service!vars
  <2>1. CASE Begin(c)
    BY <2>1, BeginIsBegin
  <2>2. CASE ReplyArrives(c)
    BY <2>2, ReplyIsDeliver
  <2>3. ASSUME NEW result, NEW farewell, ClientEnds(c, result, farewell),
               client[c] \notin {"idle", "ended"}, UNCHANGED <<serverSide, envelope, got>>
        PROVE  Service!Next
    BY <2>3, EndIsFinish DEF ClientEnds, ClientTo
  <2>4. CASE \/ ConnectFails(c) \/ Cancel(c) \/ StreamLeaves(c) \/ Refused(c)
             \/ CloseSent(c) \/ CloseFails(c) \/ EmitTimeout(c)
    BY <2>3, <2>4 DEF ConnectFails, Cancel, StreamLeaves, Refused, CloseSent, CloseFails,
                      EmitTimeout, Attempting
  <2>5. CASE \/ Connect(c) \/ Authenticated(c) \/ Opened(c) \/ WindowExpires(c)
             \/ StreamSends(c) \/ StreamFinishes(c) \/ StreamReceives(c)
    <3>1. /\ \/ client' = client
             \/ \E p : /\ client' = [client EXCEPT ![c] = p] /\ p \notin {"idle", "ended"}
                       /\ client[c] \notin {"idle", "ended"}
          /\ UNCHANGED <<remote, answered, envelope, got>>
      BY <2>5 DEF Connect, Authenticated, Opened, WindowExpires, StreamSends, StreamFinishes,
                  StreamReceives, ClientTo, clientSide, serverSide
    <3> QED
      BY <3>1, MoveIsStutter
  <2>6. CASE Emit(c)
    <3>1. client[c] \notin {"idle", "ended"} /\ UNCHANGED <<serverSide, envelope, got>>
      BY <2>6 DEF Emit
    <3>2. CASE ClientEnds(c, "failed", <<>>)
      BY <2>3, <3>1, <3>2
    <3>3. CASE client' = [client EXCEPT ![c] = "awaiting"]
      <4>1. \E p : /\ client' = [client EXCEPT ![c] = p] /\ p \notin {"idle", "ended"}
                   /\ client[c] \notin {"idle", "ended"}
        <5> WITNESS "awaiting"
        <5> QED
          BY <3>1, <3>3
      <4>2. UNCHANGED <<remote, answered, envelope, got>>
        BY <3>1 DEF serverSide
      <4> QED
        BY <4>1, <4>2, MoveIsStutter
    <3> QED
      BY <2>6, <3>2, <3>3 DEF Emit, ClientTo
  <2> QED
    BY <1>1, <2>1, <2>2, <2>4, <2>5, <2>6 DEF ClientStep, Attempt
<1>2. ASSUME NEW c \in Conn, Handler(c) \/ TargetStep(c)
      PROVE  Service!Next \/ UNCHANGED Service!vars
  <2>1. CASE RelayOutbound(c) /\ remote' # remote
    BY <2>1, OutboundIsRelay
  <2>2. CASE RelayInbound(c)
    BY <2>2, InboundIsTakeAnswer
  <2>3. CASE ~(RelayOutbound(c) /\ remote' # remote) /\ ~RelayInbound(c)
    <3>1. UNCHANGED <<client, remote, answered, envelope, got>>
      BY <1>2, <2>3 DEF Handler, TargetStep, Authorize, ServeConnect, ServeOpen, PeerLost,
                        TargetConnected, TargetFails, Uplink, UplinkCloses, RelayOutbound,
                        ServerWindowExpires, LoopCloses, Downlink, TargetCloses, TargetBreaks,
                        ForeignPacket, clientSide, serverSide
    <3> QED
      BY <3>1, MoveIsStutter
  <2> QED
    BY <2>1, <2>2, <2>3
<1>3. ASSUME \/ \E c \in Conn : Break(c)
             \/ ServerExits \/ ServerStarts \/ Tick \/ UNCHANGED vars
      PROVE  UNCHANGED Service!vars
  <2>1. UNCHANGED <<client, remote, answered, envelope, got>>
    BY <1>3 DEF Break, ServerExits, ServerStarts, Tick, vars, clientSide, serverSide
  <2>2. CASE Conn = {}
    BY <2>1, <2>2 DEF Service!vars
  <2>3. CASE Conn # {}
    BY <2>1, <2>3, MoveIsStutter
  <2> QED
    BY <2>2, <2>3
<1> QED
  BY <1>1, <1>2, <1>3 DEF Next, Over

LEMMA ServiceInit ==
  ASSUME Init
  PROVE  Service!Init
BY DEF Init, Service!Init

(* The paths implement the best-effort datagram service: at most once and  *)
(* unchanged, the right answer or none, only while the emission waits.     *)
THEOREM PathsAreBestEffort == Spec => IsBestEffort
<1>1. Init => Service!Init
  BY ServiceInit
<1>2. IInv /\ [Next]_vars => [Service!Next]_(Service!vars)
  BY ServiceStep
<1> QED
  BY <1>1, <1>2, Inductive, PTL DEF Spec, IsBestEffort, Service!Spec

=============================================================================
