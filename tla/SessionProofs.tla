--------------------------- MODULE SessionProofs ---------------------------
(***************************************************************************)
(* For any names, tokens, addresses and field sizes, however TCP cuts the  *)
(* stream and whenever it breaks: names and tokens arrive as they were     *)
(* sent, and a client hears what the server has written.                   *)
(***************************************************************************)
EXTENDS Session, SequenceTheorems, WellFoundedInduction, TLAPS

-----------------------------------------------------------------------------
(***************************************************************************)
(* String fields                                                           *)
(***************************************************************************)

LEMMA MinLeast ==
    ASSUME NEW S \in SUBSET Nat, S # {}
    PROVE  Min(S) \in S /\ \A y \in S : Min(S) <= y
<1>1. PICK x \in S : \A y \in S : ~(<<y, x>> \in OpToRel(<, Nat))
  BY NatLessThanWellFounded, WFMin, Zenon
<1>2. ASSUME NEW y \in Nat, NEW z \in Nat, y < z PROVE <<y, z>> \in OpToRel(<, Nat)
  BY <1>2, Zenon DEF OpToRel
<1>3. ASSUME NEW y \in S PROVE x <= y
  <2>1. ~(y < x)
    BY <1>1, <1>2, Zenon
  <2> QED
    BY <2>1
<1> QED
  BY <1>3, Zenon DEF Min

\* Byte strings can be joined in either order.
LEMMA JoinBytes ==
    \A s, t, u \in Seq(Byte) : (s \o t) \o u = s \o (t \o u)
<1> TAKE s, t, u \in Seq(Byte)
<1> QED
  BY ConcatAssociative, SMTT(15)

LEMMA Sizes ==
    /\ MAX_PAIRING_NAME \in Nat \ {0} /\ TOKEN_LENGTH \in Nat \ {0}
    /\ CLIENT_REQUEST_SIZE = MAX_PAIRING_NAME + TOKEN_LENGTH + 4 /\ CLIENT_REQUEST_SIZE \in Nat
    /\ SERVER_RESPONSE_SIZE = 13 + TOKEN_LENGTH
    /\ SERVER_RESPONSE_SIZE \in Nat /\ SERVER_RESPONSE_SIZE > 0 /\ 0 <= SERVER_RESPONSE_SIZE
<1>1. MAX_PAIRING_NAME \in Nat \ {0} /\ TOKEN_LENGTH \in Nat \ {0}
  BY ProtocolAssumption, Zenon
<1> QED
  BY <1>1 DEF CLIENT_REQUEST_SIZE, SERVER_RESPONSE_SIZE

\* A field has its size.
LEMMA FieldBytes ==
    ASSUME NEW s \in Seq(Byte), NEW n \in Nat \ {0}
    PROVE  /\ Field(s, n) \in Seq(Byte) /\ Len(Field(s, n)) = n
           /\ \A i \in 1..n : Field(s, n)[i] = IF i <= Len(s) /\ i < n THEN s[i] ELSE 0
<1>1. \A i \in 1..n : (IF i <= Len(s) /\ i < n THEN s[i] ELSE 0) \in Byte
  <2>1. 0 \in Byte
    BY DEF Byte
  <2> QED
    BY <2>1
<1> QED
  BY <1>1 DEF Field

\* What a parser finds in a field: the bytes before the first zero.
LEMMA TerminatedBytes ==
    ASSUME NEW f \in Seq(Byte)
    PROVE  /\ Terminated(f) \in Seq(Byte) /\ Len(Terminated(f)) <= Len(f)
           /\ \A i \in 1..Len(Terminated(f)) : Terminated(f)[i] = f[i] /\ f[i] # 0
           /\ Len(Terminated(f)) = Len(f) \/ f[Len(Terminated(f)) + 1] = 0
<1> DEFINE I == {i \in 1..Len(f) : f[i] = 0}
<1>1. CASE I = {}
  <2>1. Terminated(f) = f
    BY <1>1, Zenon DEF Terminated
  <2> QED
    BY <1>1, <2>1
<1>2. CASE I # {}
  <2> DEFINE m == Min(I)
  <2>1. m \in I /\ \A y \in I : m <= y
    <3>1. I \in SUBSET Nat
      OBVIOUS
    <3> HIDE DEF I
    <3> QED
      BY <1>2, <3>1, MinLeast
  <2>5. Terminated(f) = SubSeq(f, 1, m - 1)
    BY <1>2, Zenon DEF Terminated
  <2> HIDE DEF m
  <2>3. m \in 1..Len(f) /\ f[m] = 0 /\ \A i \in 1..m - 1 : f[i] # 0
    BY <2>1
  <2> HIDE DEF I
  <2>4. /\ SubSeq(f, 1, m - 1) \in Seq(Byte) /\ Len(SubSeq(f, 1, m - 1)) = m - 1
        /\ \A i \in 1..m - 1 : SubSeq(f, 1, m - 1)[i] = f[i]
    BY <2>3
  <2> QED
    BY <2>3, <2>4, <2>5
<1> QED
  BY <1>1, <1>2, Zenon

\* A string comes out of a field whole, or cut at a zero byte or at the end.
LEMMA FieldText ==
    ASSUME NEW s \in Seq(Byte), NEW n \in Nat \ {0}
    PROVE  LET t == Terminated(Field(s, n))
           IN  /\ t \in Seq(Byte) /\ Len(t) <= Len(s) /\ Len(t) < n
               /\ \A i \in 1..Len(t) : t[i] = s[i] /\ s[i] # 0
               /\ Len(t) \in {Len(s), n - 1} \/ s[Len(t) + 1] = 0
<1> DEFINE f == Field(s, n)
           t == Terminated(f)
<1>1. /\ f \in Seq(Byte) /\ Len(f) = n
      /\ \A i \in 1..n : f[i] = IF i <= Len(s) /\ i < n THEN s[i] ELSE 0
  BY FieldBytes, Zenon
<1> HIDE DEF f
<1>2. /\ t \in Seq(Byte) /\ Len(t) <= n
      /\ \A i \in 1..Len(t) : t[i] = f[i] /\ f[i] # 0
      /\ Len(t) = n \/ f[Len(t) + 1] = 0
  BY <1>1, TerminatedBytes, Zenon
<1> HIDE DEF t
<1>3. Len(t) < n /\ Len(t) <= Len(s)
  BY <1>1, <1>2
<1>4. \A i \in 1..Len(t) : t[i] = s[i] /\ s[i] # 0
  BY <1>1, <1>2, <1>3
<1>5. Len(t) \in {Len(s), n - 1} \/ s[Len(t) + 1] = 0
  BY <1>1, <1>2, <1>3
<1> QED
  BY <1>2, <1>3, <1>4, <1>5 DEF t, f

LEMMA AsciiBytes ==
    ASSUME NEW b \in Ascii
    PROVE  /\ b \in Byte /\ b # 0 /\ b \notin Continuation
           /\ \A k \in 1..3 : b \notin Lead[k]
           /\ \A c : <<b, c>> \notin Unused
<1>1. b \in Byte /\ b # 0 /\ b \notin Continuation /\ b \notin {224, 237, 240, 244}
  BY DEF Ascii, Byte, Continuation
<1>2. \A k \in 1..3 : b \notin Lead[k]
  BY DEF Ascii, Lead
<1>3. \A c : <<b, c>> \notin Unused
  BY <1>1, Zenon DEF Unused
<1> QED
  BY <1>1, <1>2, <1>3

LEMMA UuidBytes ==
    ASSUME NEW u \in Uuid
    PROVE  /\ u \in Seq(Byte) /\ Len(u) = TOKEN_LENGTH - 1
           /\ \A i \in 1..Len(u) : u[i] \in Ascii /\ u[i] # 0
<1>1. u \in Seq(Ascii) /\ Len(u) = TOKEN_LENGTH - 1
  BY ProtocolAssumption, Zenon
<1>2. \A i \in 1..Len(u) : u[i] \in Ascii /\ u[i] \in Byte /\ u[i] # 0
  <2>1. \A i \in 1..Len(u) : u[i] \in Ascii
    BY <1>1
  <2> QED
    BY <2>1, AsciiBytes, Zenon
<1> QED
  BY <1>1, <1>2

\* A UUID fills its field and comes out of it; an empty field stays empty.
LEMMA TokenField ==
    /\ \A u \in Uuid : u \in Seq(Byte) /\ Terminated(Field(u, TOKEN_LENGTH)) = u
    /\ Terminated(Field(<<>>, TOKEN_LENGTH)) = <<>>
<1> USE Sizes
<1>1. ASSUME NEW u \in Uuid PROVE u \in Seq(Byte) /\ Terminated(Field(u, TOKEN_LENGTH)) = u
  <2>1. u \in Seq(Byte) /\ Len(u) = TOKEN_LENGTH - 1 /\ \A i \in 1..Len(u) : u[i] # 0
    BY UuidBytes, Zenon
  <2> DEFINE t == Terminated(Field(u, TOKEN_LENGTH))
  <2>2. /\ t \in Seq(Byte) /\ Len(t) <= Len(u) /\ Len(t) < TOKEN_LENGTH
        /\ \A i \in 1..Len(t) : t[i] = u[i] /\ u[i] # 0
        /\ Len(t) \in {Len(u), TOKEN_LENGTH - 1} \/ u[Len(t) + 1] = 0
    BY <2>1, FieldText, Zenon
  <2> HIDE DEF t
  <2>3. Len(t) = Len(u)
    BY <2>1, <2>2
  <2>4. t = u
    BY <2>1, <2>2, <2>3
  <2> QED
    BY <2>1, <2>4, Zenon DEF t
<1>2. Terminated(Field(<<>>, TOKEN_LENGTH)) = <<>>
  <2> DEFINE t == Terminated(Field(<<>>, TOKEN_LENGTH))
  <2>1. <<>> \in Seq(Byte) /\ Len(<<>>) = 0
    OBVIOUS
  <2>2. t \in Seq(Byte) /\ Len(t) <= 0
    BY <2>1, FieldText, Zenon
  <2> QED
    BY <2>2
<1> QED
  BY <1>1, <1>2

\* Valid text stays valid when it is cut before a zero.
LEMMA CutUtf8 ==
    ASSUME NEW s \in Seq(Byte), NEW t \in Seq(Byte), IsUtf8(s), Len(t) <= Len(s),
           \A i \in 1..Len(t) : t[i] = s[i], Len(t) = Len(s) \/ s[Len(t) + 1] = 0
    PROVE  IsUtf8(t)
<1> DEFINE Any == {0} \cup Ascii \cup Lead[1] \cup Continuation
           Continues(x, i) == i <= Len(x) /\ x[i] \in Continuation
           Wanted(x, i) == \E k \in 1..3 : i > k /\ x[i - k] \in Lead[k]
<1>1. /\ \A i \in 1..Len(s) + 1 : Continues(s, i) <=> Wanted(s, i)
      /\ \A i \in 1..Len(s) : s[i] \in Any
      /\ \A i \in 2..Len(s) : <<s[i - 1], s[i]>> \notin Unused
  BY Zenon DEF IsUtf8
<1>2. SUFFICES /\ \A i \in 1..Len(t) + 1 : Continues(t, i) <=> Wanted(t, i)
               /\ \A i \in 1..Len(t) : t[i] \in Any
               /\ \A i \in 2..Len(t) : <<t[i - 1], t[i]>> \notin Unused
  BY Zenon DEF IsUtf8
<1>3. 0 \notin Continuation
  BY DEF Continuation
<1> HIDE DEF Any
<1>4. \A i \in 1..Len(t) : t[i] \in Any
  BY <1>1
<1>5. ASSUME NEW i \in 1..Len(t) + 1 PROVE Continues(t, i) <=> Wanted(t, i)
  <2>1. i \in 1..Len(s) + 1
    OBVIOUS
  <2>2. Wanted(t, i) <=> Wanted(s, i)
    <3>1. \A k \in 1..3 : i > k => t[i - k] = s[i - k]
      OBVIOUS
    <3> QED
      BY <3>1, Zenon
  <2>3. Continues(t, i) <=> Continues(s, i)
    <3>1. CASE i <= Len(t)
      BY <3>1
    <3>2. CASE i = Len(t) + 1
      BY <1>3, <3>2
    <3> QED
      BY <3>1, <3>2
  <2> QED
    BY <1>1, <2>1, <2>2, <2>3, Zenon
<1>6. ASSUME NEW i \in 2..Len(t) PROVE <<t[i - 1], t[i]>> \notin Unused
  <2>1. i \in 2..Len(s) /\ t[i - 1] = s[i - 1] /\ t[i] = s[i]
    OBVIOUS
  <2> QED
    BY <1>1, <2>1, Zenon
<1> QED
  BY <1>4, <1>5, <1>6, Zenon

LEMMA EmptyUtf8 == IsUtf8(<<>>)
BY DEF IsUtf8

LEMMA UuidUtf8 == \A u \in Uuid : IsUtf8(u)
<1> SUFFICES ASSUME NEW u \in Uuid PROVE IsUtf8(u)
  OBVIOUS
<1>1. u \in Seq(Byte) /\ \A i \in 1..Len(u) : u[i] \in Ascii
  BY UuidBytes, Zenon
<1>2. \A i \in 1..Len(u) :
        /\ u[i] \notin Continuation
        /\ \A k \in 1..3 : u[i] \notin Lead[k]
        /\ \A c : <<u[i], c>> \notin Unused
  BY <1>1, AsciiBytes, Zenon
<1>3. \A i \in 1..Len(u) + 1, k \in 1..3 : i > k => i - k \in 1..Len(u)
  BY <1>1
<1>4. \A i \in 2..Len(u) : i - 1 \in 1..Len(u)
  BY <1>1
<1>5. \A i \in 1..Len(u) + 1 : i <= Len(u) => i \in 1..Len(u)
  BY <1>1
<1> QED
  BY <1>1, <1>2, <1>3, <1>4, <1>5, Zenon DEF IsUtf8

-----------------------------------------------------------------------------
(***************************************************************************)
(* Messages                                                                *)
(***************************************************************************)

LEMMA Middle ==
    ASSUME NEW S, NEW f \in Seq(S), NEW g \in Seq(S), NEW h \in Seq(S)
    PROVE  /\ f \o g \o h \in Seq(S) /\ Len(f \o g \o h) = Len(f) + Len(g) + Len(h)
           /\ SubSeq(f \o g \o h, 1, Len(f)) = f
           /\ SubSeq(f \o g \o h, Len(f) + 1, Len(f) + Len(g)) = g
OBVIOUS

\* Whichever library writes the request, the server finds the name and the token
\* in their fields.
RequestOf(n, t) == Field(n, MAX_PAIRING_NAME) \o Field(t, TOKEN_LENGTH) \o <<0, 0, 0, 0>>

LEMMA RequestLayout ==
    ASSUME NEW n \in Seq(Byte), NEW t \in Seq(Byte)
    PROVE  /\ RequestOf(n, t) \in Seq(Byte) /\ Len(RequestOf(n, t)) = CLIENT_REQUEST_SIZE
           /\ SubSeq(RequestOf(n, t), 1, MAX_PAIRING_NAME) = Field(n, MAX_PAIRING_NAME)
           /\ SubSeq(RequestOf(n, t), MAX_PAIRING_NAME + 1, MAX_PAIRING_NAME + TOKEN_LENGTH)
                = Field(t, TOKEN_LENGTH)
<1> DEFINE f == Field(n, MAX_PAIRING_NAME)
           g == Field(t, TOKEN_LENGTH)
           z == <<0, 0, 0, 0>>
<1>1. f \in Seq(Byte) /\ Len(f) = MAX_PAIRING_NAME /\ g \in Seq(Byte) /\ Len(g) = TOKEN_LENGTH
  BY FieldBytes, Sizes, Zenon
<1>2. z \in Seq(Byte) /\ Len(z) = 4
  BY DEF Byte
<1> HIDE DEF f, g, z
<1>i. f \in Seq(Byte) /\ g \in Seq(Byte) /\ z \in Seq(Byte)
  BY <1>1, <1>2, Zenon
<1>3. /\ f \o g \o z \in Seq(Byte) /\ Len(f \o g \o z) = Len(f) + Len(g) + Len(z)
      /\ SubSeq(f \o g \o z, 1, Len(f)) = f
      /\ SubSeq(f \o g \o z, Len(f) + 1, Len(f) + Len(g)) = g
  BY <1>i, Middle
<1>4. RequestOf(n, t) = f \o g \o z
  BY Zenon DEF RequestOf, f, g, z
<1> QED
  BY <1>1, <1>2, <1>3, <1>4, Zenon DEF CLIENT_REQUEST_SIZE, f, g

LEMMA PortBytes ==
    ASSUME NEW p \in U16
    PROVE  p \div 256 \in Byte /\ p % 256 \in Byte /\ 256 * (p \div 256) + (p % 256) = p
<1>1. p \in Int /\ 0 <= p /\ p < 256 * 256
  BY DEF U16
<1> DEFINE hi == p \div 256
           lo == p % 256
<1>2. hi \in Int /\ 0 <= hi /\ hi <= 255
  BY <1>1, SMT
<1>3. lo \in Int /\ 0 <= lo /\ lo <= 255
  BY <1>1, SMT
<1>4. 256 * hi + lo = p
  BY <1>1, SMT
<1> HIDE DEF hi, lo
<1>5. hi \in Byte /\ lo \in Byte
  BY <1>2, <1>3, SMT DEF Byte
<1> QED
  BY <1>4, <1>5, Zenon DEF hi, lo

\* An IPv4 address takes six bytes,
V4 == {a \in [ip : Seq(Byte), port : U16] : Len(a.ip) = 4}

LEMMA V4Fields ==
    ASSUME NEW a \in V4
    PROVE  /\ a = [ip |-> a.ip, port |-> a.port]
           /\ a.ip \in Seq(Byte) /\ Len(a.ip) = 4 /\ a.port \in U16
BY SMT DEF V4

LEMMA AddressLayout ==
    ASSUME NEW a \in V4
    PROVE  /\ AddressBytes(a) \in Seq(Byte) /\ Len(AddressBytes(a)) = 6
           /\ \A j \in 1..4 : AddressBytes(a)[j] = a.ip[j]
           /\ 256 * AddressBytes(a)[5] + AddressBytes(a)[6] = a.port
<1> DEFINE s == a.ip
           hi == a.port \div 256
           lo == a.port % 256
           t == <<hi, lo>>
<1>1. s \in Seq(Byte) /\ Len(s) = 4 /\ a.port \in U16
  BY V4Fields, Zenon
<1>2. hi \in Byte /\ lo \in Byte /\ 256 * hi + lo = a.port
  BY <1>1, PortBytes, Zenon
<1>3. AddressBytes(a) = s \o t
  BY Zenon DEF AddressBytes
<1> HIDE DEF s, hi, lo
<1>4. t \in Seq(Byte) /\ Len(t) = 2 /\ t[1] = hi /\ t[2] = lo
  BY <1>2, SMT
<1> HIDE DEF t
<1>5. /\ s \o t \in Seq(Byte) /\ Len(s \o t) = Len(s) + Len(t)
      /\ \A i \in 1..Len(s) + Len(t) : (s \o t)[i] = IF i <= Len(s) THEN s[i] ELSE t[i - Len(s)]
  BY <1>1, <1>4, ConcatProperties, Zenon
<1>6. s \o t \in Seq(Byte) /\ Len(s \o t) = 6 /\ \A j \in 1..4 : (s \o t)[j] = s[j]
  BY <1>1, <1>4, <1>5
<1>7. (s \o t)[5] = t[1] /\ (s \o t)[6] = t[2]
  BY <1>1, <1>4, <1>5
<1>8. (s \o t)[5] = hi /\ (s \o t)[6] = lo
  BY <1>4, <1>7, Zenon
<1>9. \A j \in 1..4 : (s \o t)[j] = a.ip[j]
  BY <1>6, Zenon DEF s
<1> DEFINE w == s \o t
<1>10. /\ w \in Seq(Byte) /\ Len(w) = 6
       /\ \A j \in 1..4 : w[j] = a.ip[j]
       /\ w[5] = hi /\ w[6] = lo
  BY <1>6, <1>8, <1>9, Zenon
<1>11. AddressBytes(a) = w
  BY <1>3, Zenon
<1> HIDE DEF w
<1>12. 256 * w[5] + w[6] = a.port
  BY <1>2, <1>10, Zenon
<1> QED
  BY <1>10, <1>11, <1>12, Zenon

\* and is read back from where they are.
LEMMA AddressComesBack ==
    ASSUME NEW a \in V4, NEW data \in Seq(Byte), NEW i \in Nat \ {0}, i + 5 <= Len(data),
           \A j \in 1..6 : data[i + j - 1] = AddressBytes(a)[j]
    PROVE  AddressAt(data, i) = a
<1>1. a = [ip |-> a.ip, port |-> a.port] /\ a.ip \in Seq(Byte) /\ Len(a.ip) = 4
  BY V4Fields, Zenon
<1>2. SubSeq(data, i, i + 3) = a.ip
  <2> DEFINE x == SubSeq(data, i, i + 3)
  <2>1. x \in Seq(Byte) /\ Len(x) = 4
    OBVIOUS
  <2>2. ASSUME NEW j \in 1..4 PROVE x[j] = a.ip[j]
    <3>1. x[j] = data[i + j - 1]
      OBVIOUS
    <3>2. data[i + j - 1] = AddressBytes(a)[j]
      <4>1. j \in 1..6
        BY SMT
      <4> QED
        BY <4>1, Zenon
    <3>3. AddressBytes(a)[j] = a.ip[j]
      BY AddressLayout, Zenon
    <3> QED
      BY <3>1, <3>2, <3>3, Zenon
  <2> HIDE DEF x
  <2>3. Len(x) = Len(a.ip) /\ \A j \in 1..Len(x) : x[j] = a.ip[j]
    BY <1>1, <2>1, <2>2
  <2>4. x = a.ip
    BY <1>1, <2>1, <2>3, SeqEqual, Zenon
  <2> QED
    BY <2>4, Zenon DEF x
<1>3. 256 * data[i + 4] + data[i + 5] = a.port
  <2>1. data[i + 5 - 1] = AddressBytes(a)[5] /\ data[i + 6 - 1] = AddressBytes(a)[6]
    OBVIOUS
  <2>2. i + 5 - 1 = i + 4 /\ i + 6 - 1 = i + 5
    OBVIOUS
  <2>3. data[i + 4] = AddressBytes(a)[5] /\ data[i + 5] = AddressBytes(a)[6]
    BY <2>1, <2>2, Zenon
  <2>4. 256 * AddressBytes(a)[5] + AddressBytes(a)[6] = a.port
    BY AddressLayout, Zenon
  <2> QED
    BY <2>3, <2>4, Zenon
<1> QED
  BY <1>1, <1>2, <1>3 DEF AddressAt

\* Every status has its code.
LEMMA CodeComesBack ==
    ASSUME NEW s \in Range(Status)
    PROVE  Code(s) \in 0..3 /\ Status[Code(s) + 1] = s /\ StatusFrom(Code(s)) = s
<1>1. s \in {"waiting", "paired", "timeout", "error"}
  BY DEF Status, Range
<1>2. Code(s) = (CASE s = "waiting" -> 1 [] s = "paired" -> 2 [] s = "timeout" -> 3 [] OTHER -> 4) - 1
  BY <1>1 DEF Code, Status
<1> QED
  BY <1>1, <1>2 DEF Status, StatusFrom

LEMMA Tail2 ==
    ASSUME NEW S, NEW f \in Seq(S), NEW g \in Seq(S)
    PROVE  SubSeq(f \o g, Len(f) + 1, Len(f) + Len(g)) = g
OBVIOUS

\* A status, two addresses and a token field in a row.
LaidOut(S, d, h, a, b, f) ==
    /\ d \in Seq(S) /\ Len(d) = 13 + Len(f) /\ d[1] = h[1]
    /\ \A j \in 1..6 : d[2 + j - 1] = a[j] /\ d[8 + j - 1] = b[j]
    /\ SubSeq(d, 14, 13 + Len(f)) = f

LEMMA FourParts ==
    ASSUME NEW S, NEW h \in Seq(S), NEW a \in Seq(S), NEW b \in Seq(S), NEW f \in Seq(S),
           Len(h) = 1, Len(a) = 6, Len(b) = 6
    PROVE  LaidOut(S, h \o a \o b \o f, h, a, b, f)
<1> DEFINE x == h \o a
           y == x \o b
           q == y \o f
<1>1. /\ x \in Seq(S) /\ Len(x) = 7 /\ x[1] = h[1]
      /\ \A j \in 1..6 : x[2 + j - 1] = a[j]
  <2>1. /\ x \in Seq(S) /\ Len(x) = Len(h) + Len(a)
        /\ \A i \in 1..Len(h) + Len(a) : x[i] = IF i <= Len(h) THEN h[i] ELSE a[i - Len(h)]
    BY ConcatProperties, Zenon
  <2> HIDE DEF x
  <2> QED
    BY <2>1
<1> HIDE DEF x
<1>2. /\ y \in Seq(S) /\ Len(y) = 13 /\ y[1] = h[1]
      /\ \A j \in 1..6 : y[2 + j - 1] = a[j] /\ y[8 + j - 1] = b[j]
  <2>1. /\ y \in Seq(S) /\ Len(y) = Len(x) + Len(b)
        /\ \A i \in 1..Len(x) + Len(b) : y[i] = IF i <= Len(x) THEN x[i] ELSE b[i - Len(x)]
    BY <1>1, ConcatProperties, Zenon
  <2> HIDE DEF y
  <2> QED
    BY <1>1, <2>1
<1> HIDE DEF y
<1>3. /\ q \in Seq(S) /\ Len(q) = Len(y) + Len(f)
      /\ \A i \in 1..Len(y) + Len(f) : q[i] = IF i <= Len(y) THEN y[i] ELSE f[i - Len(y)]
  <2>1. y \in Seq(S)
    BY <1>2, Zenon
  <2> QED
    BY <2>1, ConcatProperties, ZenonT(40)
<1>4. SubSeq(q, Len(y) + 1, Len(y) + Len(f)) = f
  BY <1>2, Tail2, Zenon
<1> HIDE DEF q
<1>5. q[1] = h[1] /\ Len(q) = 13 + Len(f)
  <2>1. Len(f) \in Nat /\ Len(y) = 13
    BY <1>2
  <2>2. 1 \in 1..Len(y) + Len(f) /\ 1 <= Len(y)
    BY <2>1
  <2>3. q[1] = y[1]
    BY <1>3, <2>2, Zenon
  <2> QED
    BY <1>2, <1>3, <2>1, <2>3, Zenon
<1>6. ASSUME NEW j \in 1..6 PROVE q[2 + j - 1] = a[j] /\ q[8 + j - 1] = b[j]
  <2>n. Len(y) \in Nat /\ Len(f) \in Nat
    BY <1>2
  <2>1. \A i \in 1..Len(y) : q[i] = y[i]
    BY <1>3, <2>n
  <2>2. 2 + j - 1 \in 1..Len(y) /\ 8 + j - 1 \in 1..Len(y)
    BY <1>2
  <2> QED
    BY <1>2, <2>1, <2>2, Zenon
<1>7. SubSeq(q, 14, 13 + Len(f)) = f
  BY <1>2, <1>4
<1>8. LaidOut(S, q, h, a, b, f)
  BY <1>3, <1>5, <1>6, <1>7, Zenon DEF LaidOut
<1> QED
  BY <1>8, Zenon DEF q, y, x

LEMMA PeerAddresses ==
    /\ Peers \subseteq V4 /\ Unspecified \in V4
    /\ Unspecified \notin Peers /\ None \notin Peers /\ None # Unspecified
<1>1. ASSUME NEW a \in Peers PROVE a \in V4 /\ a # Unspecified
  <2>1. a \in [ip : Seq(Byte), port : U16 \ {0}] /\ Len(a.ip) = 4
    BY SessionAssumption, Zenon DEF Peers, from_socket_addr
  <2> QED
    BY <2>1 DEF V4, Unspecified
<1>2. Unspecified \in V4
  <2>1. <<0, 0, 0, 0>> \in Seq(Byte) /\ Len(<<0, 0, 0, 0>>) = 4 /\ 0 \in U16
    BY DEF Byte, U16
  <2> QED
    BY <2>1 DEF V4, Unspecified
<1> QED
  BY <1>1, <1>2, SessionAssumption, Zenon DEF Peers

\* What a client reads: a C++ client sees a missing peer as 0.0.0.0:0.
AsHeard(k, r) == IF k = "cpp" /\ r.peer_info = None THEN [r EXCEPT !.peer_info = Unspecified] ELSE r

LEMMA ResponseFields ==
    ASSUME NEW r \in Responses
    PROVE  /\ r = Response(r.status, r.your_info, r.peer_info, r.token)
           /\ r.status \in Range(Status) /\ r.your_info \in V4 /\ r.token \in Uuid
           /\ r.peer_info = None \/ (r.peer_info \in V4 /\ r.peer_info # Unspecified)
           /\ r.status # "error" => r.token # Nil
BY PeerAddresses, Zenon DEF Responses, Response

\* Where the fields of a response are.
LEMMA ResponseLayout ==
    ASSUME NEW r \in Responses
    PROVE  LET data == ServerResponseToBytes(r)
           IN  /\ data \in Seq(Byte) /\ Len(data) = SERVER_RESPONSE_SIZE
               /\ data[1] = Code(r.status)
               /\ AddressAt(data, 2) = r.your_info
               /\ AddressAt(data, 8) = IF r.peer_info = None THEN Unspecified ELSE r.peer_info
               /\ TokenText(data) = r.token
<1> DEFINE peer == IF r.peer_info = None THEN Unspecified ELSE r.peer_info
           h == <<Code(r.status)>>
           a == AddressBytes(r.your_info)
           b == AddressBytes(peer)
           f == Field(r.token, TOKEN_LENGTH)
           data == h \o a \o b \o f
<1>1. /\ r.status \in Range(Status) /\ r.your_info \in V4 /\ r.token \in Uuid
      /\ peer \in V4
  BY ResponseFields, PeerAddresses
<1>2. ServerResponseToBytes(r) = data
  BY Zenon DEF ServerResponseToBytes
<1>3. h \in Seq(Byte) /\ Len(h) = 1 /\ h[1] = Code(r.status)
  <2>1. Code(r.status) \in Byte
    <3>1. Code(r.status) \in 0..3
      BY <1>1, CodeComesBack, Zenon
    <3> QED
      BY <3>1 DEF Byte
  <2> QED
    BY <2>1
<1> HIDE DEF peer
<1>4. a \in Seq(Byte) /\ Len(a) = 6 /\ b \in Seq(Byte) /\ Len(b) = 6
  BY <1>1, AddressLayout
<1>5. f \in Seq(Byte) /\ Len(f) = TOKEN_LENGTH /\ Terminated(f) = r.token
  BY <1>1, TokenField, FieldBytes, Sizes, Zenon
<1> HIDE DEF h, a, b, f
<1>6. /\ data \in Seq(Byte) /\ Len(data) = 13 + Len(f) /\ data[1] = h[1]
      /\ \A j \in 1..6 : data[2 + j - 1] = a[j] /\ data[8 + j - 1] = b[j]
      /\ SubSeq(data, 14, 13 + Len(f)) = f
  <2>1. /\ h \in Seq(Byte) /\ a \in Seq(Byte) /\ b \in Seq(Byte) /\ f \in Seq(Byte)
        /\ Len(h) = 1 /\ Len(a) = 6 /\ Len(b) = 6
    BY <1>3, <1>4, <1>5, Zenon
  <2>2. LaidOut(Byte, data, h, a, b, f)
    BY <2>1, FourParts, Zenon
  <2> HIDE DEF data
  <2> QED
    BY <2>2, Zenon DEF LaidOut
<1> HIDE DEF data
<1>7. Len(data) = SERVER_RESPONSE_SIZE /\ Len(data) >= 13
  <2>1. Len(data) = 13 + TOKEN_LENGTH
    BY <1>5, <1>6, Zenon
  <2> QED
    BY <2>1, Sizes
<1>8. AddressAt(data, 2) = r.your_info
  <2>1. 2 \in Nat \ {0} /\ 2 + 5 <= Len(data)
    BY <1>6, <1>7
  <2> QED
    BY <1>1, <1>6, <2>1, AddressComesBack, Zenon DEF a
<1>9. AddressAt(data, 8) = peer
  <2>1. 8 \in Nat \ {0} /\ 8 + 5 <= Len(data)
    BY <1>6, <1>7
  <2> QED
    BY <1>1, <1>6, <2>1, AddressComesBack, Zenon DEF b
<1>10. TokenText(data) = r.token
  BY <1>5, <1>6, Zenon DEF TokenText
<1> QED
  BY <1>2, <1>3, <1>6, <1>7, <1>8, <1>9, <1>10, Zenon DEF peer

\* Either client reads the response that was written.
LEMMA ResponseComesBack ==
    ASSUME NEW r \in Responses
    PROVE  /\ ServerResponseFromBytes(ServerResponseToBytes(r)) = AsHeard("rust", r)
           /\ parse_server_response(ServerResponseToBytes(r)) = AsHeard("cpp", r)
<1> DEFINE data == ServerResponseToBytes(r)
           peer == IF r.peer_info = None THEN Unspecified ELSE r.peer_info
<1>1. /\ Len(data) = SERVER_RESPONSE_SIZE /\ data[1] = Code(r.status)
      /\ AddressAt(data, 2) = r.your_info /\ AddressAt(data, 8) = peer /\ TokenText(data) = r.token
  BY ResponseLayout, Zenon
<1>2. /\ r = Response(r.status, r.your_info, r.peer_info, r.token)
      /\ r.status \in Range(Status) /\ r.token \in Uuid
      /\ r.peer_info = None \/ r.peer_info # Unspecified
  BY ResponseFields, Zenon
<1>3. Status[Code(r.status) + 1] = r.status /\ StatusFrom(Code(r.status)) = r.status
  BY <1>2, CodeComesBack, Zenon
<1>4. IsUtf8(r.token)
  BY <1>2, UuidUtf8
<1>5. r.token = <<>> => Nil = r.token
  <2>1. r.token \in Seq(Byte) /\ Nil \in Seq(Byte) /\ Len(r.token) = Len(Nil)
    BY <1>2, UuidBytes, ProtocolAssumption, Zenon
  <2> QED
    BY <2>1
<1>6. ~(Len(data) < SERVER_RESPONSE_SIZE)
  BY <1>1, Sizes
<1> HIDE DEF data
<1>7. ServerResponseFromBytes(data) = Response(r.status, r.your_info, r.peer_info, r.token)
  BY <1>1, <1>2, <1>3, <1>4, <1>5, <1>6, Zenon DEF ServerResponseFromBytes
<1>8. parse_server_response(data) = Response(r.status, r.your_info, peer, r.token)
  BY <1>1, <1>3, <1>6, Zenon DEF parse_server_response
<1>9. AsHeard("rust", r) = r /\ AsHeard("cpp", r) = Response(r.status, r.your_info, peer, r.token)
  BY <1>2, Zenon DEF AsHeard, Response
<1> HIDE DEF peer
<1>10. ServerResponseFromBytes(data) = AsHeard("rust", r)
  BY <1>2, <1>7, <1>9, Zenon
<1>11. parse_server_response(data) = AsHeard("cpp", r)
  BY <1>8, <1>9, Zenon
<1> QED
  BY <1>10, <1>11, Zenon DEF data

\* What from_bytes makes of a request.
LEMMA RequestParsed ==
    ASSUME NEW n \in Seq(Byte), NEW t \in Seq(Byte)
    PROVE  LET nm == Terminated(Field(n, MAX_PAIRING_NAME))
               text == Terminated(Field(t, TOKEN_LENGTH))
               q == ClientRequestFromBytes(RequestOf(n, t))
           IN  IF ~IsUtf8(nm) \/ nm = <<>> \/ ~IsUtf8(text) \/ text \notin Uuid \cup {<<>>}
               THEN IsErr(q)
               ELSE ~IsErr(q) /\ q.name = nm /\ q.token = IF text = <<>> THEN None ELSE text
<1> DEFINE nm == Terminated(Field(n, MAX_PAIRING_NAME))
           text == Terminated(Field(t, TOKEN_LENGTH))
           data == RequestOf(n, t)
<1>1. /\ Len(data) = CLIENT_REQUEST_SIZE
      /\ Terminated(SubSeq(data, 1, MAX_PAIRING_NAME)) = nm
      /\ Terminated(SubSeq(data, MAX_PAIRING_NAME + 1, MAX_PAIRING_NAME + TOKEN_LENGTH)) = text
  BY RequestLayout, Zenon
<1>2. ~(Len(data) < CLIENT_REQUEST_SIZE)
  BY <1>1, Sizes
<1> HIDE DEF nm, text, data
<1>3. \A e : IsErr(Err(e))
  BY Zenon DEF IsErr, Err
<1>4. ~IsErr([name |-> nm, token |-> IF text = <<>> THEN None ELSE text])
  BY Zenon DEF IsErr
<1>5. CASE ~IsUtf8(nm) \/ nm = <<>> \/ ~IsUtf8(text) \/ text \notin Uuid \cup {<<>>}
  BY <1>1, <1>2, <1>3, <1>5, Zenon DEF ClientRequestFromBytes, nm, text, data
<1>6. CASE ~(~IsUtf8(nm) \/ nm = <<>> \/ ~IsUtf8(text) \/ text \notin Uuid \cup {<<>>})
  <2>1. ClientRequestFromBytes(data) = [name |-> nm, token |-> IF text = <<>> THEN None ELSE text]
    BY <1>1, <1>2, <1>6, Zenon DEF ClientRequestFromBytes
  <2> QED
    BY <1>4, <1>6, <2>1 DEF nm, text, data
<1> QED
  BY <1>5, <1>6, Zenon

\* from_bytes always gives something, a request or an error.
LEMMA RequestIsSomething ==
    ASSUME NEW data \in Seq(Byte), Len(data) = CLIENT_REQUEST_SIZE
    PROVE  ClientRequestFromBytes(data) # None
<1> DEFINE nm == Terminated(SubSeq(data, 1, MAX_PAIRING_NAME))
           text == Terminated(SubSeq(data, MAX_PAIRING_NAME + 1, MAX_PAIRING_NAME + TOKEN_LENGTH))
<1>1. nm \in Seq(Byte)
  <2>1. SubSeq(data, 1, MAX_PAIRING_NAME) \in Seq(Byte)
    BY Sizes
  <2> QED
    BY <2>1, TerminatedBytes, Zenon
<1> HIDE DEF nm, text
<1>2. \A e \in {"InvalidLength", "InvalidUtf8", "EmptyPairingName", "InvalidToken"} : Err(e) # None
  <2>1. \A e \in {"InvalidLength", "InvalidUtf8", "EmptyPairingName", "InvalidToken"} :
          Err(e) \in [error : {"InvalidLength", "InvalidUtf8", "EmptyPairingName", "InvalidToken"}]
    BY DEF Err
  <2> QED
    BY <2>1, ProtocolAssumption, Zenon
<1>3. ASSUME NEW t \in Uuid \cup {None} PROVE [name |-> nm, token |-> t] # None
  <2>1. [name |-> nm, token |-> t] \in [name : Seq(Byte), token : Uuid \cup {None}]
    BY <1>1, Zenon
  <2> QED
    BY <2>1, ProtocolAssumption, Zenon
<1>4. text \in Uuid \cup {<<>>} => (IF text = <<>> THEN None ELSE text) \in Uuid \cup {None}
  BY Zenon
<1> QED
  BY <1>2, <1>3, <1>4, Zenon DEF ClientRequestFromBytes, nm, text

\* The name the server finds is the caller's, as far as the field carries it.
LEMMA NameFound ==
    ASSUME NEW n \in Seq(Byte), NEW t \in Seq(Byte), NEW q, q = ClientRequestFromBytes(RequestOf(n, t)),
           ~IsErr(q)
    PROVE  /\ IsPrefix(q.name, n)
           /\ Len(q.name) \in {Len(n), MAX_PAIRING_NAME - 1} \/ n[Len(q.name) + 1] = 0
<1> DEFINE nm == Terminated(Field(n, MAX_PAIRING_NAME))
<1>1. q.name = nm
  BY RequestParsed, Zenon
<1>2. /\ nm \in Seq(Byte) /\ Len(nm) <= Len(n)
      /\ \A i \in 1..Len(nm) : nm[i] = n[i]
      /\ Len(nm) \in {Len(n), MAX_PAIRING_NAME - 1} \/ n[Len(nm) + 1] = 0
  BY FieldText, Sizes, Zenon
<1> HIDE DEF nm
<1> QED
  BY <1>1, <1>2, Zenon DEF IsPrefix

\* A refused request has a name that is empty, not UTF-8 or too long, or a token
\* that is no UUID.
LEMMA RefusedFor ==
    ASSUME NEW n \in Seq(Byte), NEW t \in Seq(Byte), IsErr(ClientRequestFromBytes(RequestOf(n, t)))
    PROVE  \/ n = <<>> \/ n[1] = 0 \/ ~IsUtf8(n) \/ Len(n) >= MAX_PAIRING_NAME
           \/ t \notin Uuid \cup {<<>>}
<1> DEFINE nm == Terminated(Field(n, MAX_PAIRING_NAME))
           text == Terminated(Field(t, TOKEN_LENGTH))
<1>1. ~IsUtf8(nm) \/ nm = <<>> \/ ~IsUtf8(text) \/ text \notin Uuid \cup {<<>>}
  BY RequestParsed, Zenon
<1>2. /\ nm \in Seq(Byte) /\ Len(nm) <= Len(n)
      /\ \A i \in 1..Len(nm) : nm[i] = n[i]
      /\ Len(nm) \in {Len(n), MAX_PAIRING_NAME - 1} \/ n[Len(nm) + 1] = 0
  BY FieldText, Sizes, Zenon
<1>3. t \in Uuid \cup {<<>>} => text = t
  BY TokenField, Zenon
<1>4. IsUtf8(<<>>) /\ \A u \in Uuid : IsUtf8(u)
  BY EmptyUtf8, UuidUtf8, Zenon
<1> HIDE DEF nm, text
<1>5. SUFFICES ASSUME n # <<>>, n[1] # 0, IsUtf8(n), ~(Len(n) >= MAX_PAIRING_NAME), t \in Uuid \cup {<<>>}
               PROVE  FALSE
  OBVIOUS
<1>6. IsUtf8(text)
  BY <1>3, <1>4, <1>5, Zenon
<1>7. Len(nm) = Len(n) \/ n[Len(nm) + 1] = 0
  BY <1>2, <1>5, Sizes
<1>8. nm # <<>>
  BY <1>2, <1>5, <1>7
<1>9. IsUtf8(nm)
  BY <1>2, <1>5, <1>7, CutUtf8
<1> QED
  BY <1>1, <1>3, <1>5, <1>6, <1>8, <1>9

-----------------------------------------------------------------------------
(***************************************************************************)
(* Streams                                                                 *)
(***************************************************************************)

LEMMA CutInTwo ==
    ASSUME NEW S, NEW s \in Seq(S), NEW k \in 0..Len(s)
    PROVE  /\ SubSeq(s, 1, k) \in Seq(S) /\ Len(SubSeq(s, 1, k)) = k
           /\ SubSeq(s, k + 1, Len(s)) \in Seq(S)
           /\ SubSeq(s, 1, k) \o SubSeq(s, k + 1, Len(s)) = s
<1>1. SubSeq(s, 1, k) \in Seq(S) /\ Len(SubSeq(s, 1, k)) = k /\ SubSeq(s, k + 1, Len(s)) \in Seq(S)
  OBVIOUS
<1>2. 1 \in 1..Len(s) + 1 /\ k \in 1 - 1..Len(s) /\ Len(s) \in k..Len(s)
  OBVIOUS
<1>3. SubSeq(s, 1, k) \o SubSeq(s, k + 1, Len(s)) = SubSeq(s, 1, Len(s))
  BY <1>2, ConcatAdjacentSubSeq, Zenon
<1>4. SubSeq(s, 1, Len(s)) = s
  OBVIOUS
<1> QED
  BY <1>1, <1>3, <1>4, Zenon

Moved(size, stream, read, stream2, read2) ==
    /\ stream2 \in Seq(Byte) /\ read2 \in Seq(Byte) /\ Len(read2) <= size
    /\ read2 \o stream2 = read \o stream

\* Reading moves bytes from the stream to the reader, and no others.
LEMMA DeliverKeeps ==
    ASSUME NEW n \in Nat, NEW size \in Nat, NEW stream \in Seq(Byte), NEW read \in Seq(Byte),
           Len(read) <= size, NEW stream2, NEW read2, Deliver(n, size, stream, read, stream2, read2)
    PROVE  Moved(size, stream, read, stream2, read2)
<1> DEFINE S == {n, size - Len(read), Len(stream)}
           k == Min(S)
<1>1. S \in SUBSET Nat /\ S # {}
  OBVIOUS
<1>2. k \in S /\ \A y \in S : k <= y
  BY <1>1, MinLeast, Zenon
<1>3. read2 = read \o SubSeq(stream, 1, k) /\ stream2 = SubSeq(stream, k + 1, Len(stream))
  BY Zenon DEF Deliver
<1>4. k \in 0..Len(stream) /\ k <= size - Len(read)
  BY <1>1, <1>2
<1> DEFINE more == SubSeq(stream, 1, k)
<1> HIDE DEF k
<1>5. more \in Seq(Byte) /\ Len(more) = k /\ stream2 \in Seq(Byte) /\ more \o stream2 = stream
  BY <1>3, <1>4, CutInTwo, Zenon
<1> HIDE DEF more
<1>6. read \o more \in Seq(Byte) /\ Len(read \o more) = Len(read) + Len(more)
  BY <1>5, ConcatProperties, Zenon
<1>7. (read \o more) \o stream2 = read \o (more \o stream2)
  <2>1. more \in Seq(Byte) /\ stream2 \in Seq(Byte)
    BY <1>5, Zenon
  <2> QED
    BY <2>1, JoinBytes, Zenon
<1>8. Len(read) + Len(more) <= size
  BY <1>4, <1>5
<1>9. read2 = read \o more
  BY <1>3 DEF more
<1> QED
  BY <1>5, <1>6, <1>7, <1>8, <1>9, Zenon DEF Moved

LEMMA PrefixFacts ==
    ASSUME NEW S, NEW s \in Seq(S), NEW t \in Seq(S)
    PROVE  IsPrefix(s, s) /\ IsPrefix(s, s \o t) /\ (IsPrefix(s, <<>>) => s = <<>>)
<1>1. s \o t \in Seq(S) /\ Len(s) <= Len(s \o t) /\ \A i \in 1..Len(s) : (s \o t)[i] = s[i]
  OBVIOUS
<1>2. IsPrefix(s, s) /\ IsPrefix(s, s \o t)
  BY <1>1 DEF IsPrefix
<1>3. ASSUME IsPrefix(s, <<>>) PROVE s = <<>>
  <2>1. Len(s) <= Len(<<>>) /\ Len(<<>>) = 0
    BY <1>3 DEF IsPrefix
  <2> QED
    BY <2>1
<1> QED
  BY <1>2, <1>3, Zenon

FirstRead(s, t, b, c) == s = b /\ IsPrefix(t, c) /\ (s \o t = b \o c => t = c)

\* What has been read first is the first block of what was written.
LEMMA FirstBlock ==
    ASSUME NEW S, NEW s \in Seq(S), NEW t \in Seq(S), NEW b \in Seq(S), NEW c \in Seq(S),
           IsPrefix(s \o t, b \o c), Len(s) = Len(b)
    PROVE  FirstRead(s, t, b, c)
<1> DEFINE x == s \o t
           y == b \o c
<1>1. /\ x \in Seq(S) /\ Len(x) = Len(s) + Len(t)
      /\ \A i \in 1..Len(s) + Len(t) : x[i] = IF i <= Len(s) THEN s[i] ELSE t[i - Len(s)]
  BY ConcatProperties, Zenon
<1>2. /\ y \in Seq(S) /\ Len(y) = Len(b) + Len(c)
      /\ \A i \in 1..Len(b) + Len(c) : y[i] = IF i <= Len(b) THEN b[i] ELSE c[i - Len(b)]
  BY ConcatProperties
<1>3. IsPrefix(x, y)
  OBVIOUS
<1> HIDE DEF x, y
<1>4. Len(x) <= Len(y) /\ \A i \in 1..Len(x) : x[i] = y[i]
  BY <1>3, Zenon DEF IsPrefix
<1>5. ASSUME NEW i \in 1..Len(s) PROVE s[i] = b[i]
  <2>1. i \in 1..Len(x) /\ i \in 1..Len(b) + Len(c) /\ i <= Len(s) /\ i <= Len(b)
    BY <1>1
  <2>2. x[i] = s[i] /\ y[i] = b[i]
    BY <1>1, <1>2, <2>1, Zenon
  <2> QED
    BY <1>4, <2>1, <2>2
<1>6. s = b
  BY <1>5, SeqEqual, Zenon
<1>7. Len(t) <= Len(c)
  BY <1>1, <1>2, <1>4
<1>8. ASSUME NEW i \in 1..Len(t) PROVE t[i] = c[i]
  <2>1. Len(s) + i \in 1..Len(x) /\ Len(s) + i \in 1..Len(b) + Len(c) /\ ~(Len(s) + i <= Len(s))
    BY <1>1, <1>7
  <2>2. x[Len(s) + i] = t[i]
    BY <1>1, <2>1
  <2>3. y[Len(s) + i] = c[i]
    BY <1>2, <2>1
  <2> QED
    BY <1>4, <2>1, <2>2, <2>3
<1>9. IsPrefix(t, c)
  BY <1>7, <1>8, Zenon DEF IsPrefix
<1>10. x = y => t = c
  <2>1. x = y => Len(t) = Len(c)
    BY <1>1, <1>2
  <2> QED
    BY <1>8, <2>1, SeqEqual, Zenon
<1> QED
  BY <1>6, <1>9, <1>10, Zenon DEF x, y, FirstRead

-----------------------------------------------------------------------------
(***************************************************************************)
(* The client's request                                                    *)
(***************************************************************************)

\* The text of the token that goes into the request.
Text == IF kind = "rust" /\ saved = None THEN <<>> ELSE saved

LEMMA RequestWritten ==
    ASSUME TypeOK
    PROVE  /\ name \in Seq(Byte) /\ Text \in Seq(Byte) /\ RequestBytes = RequestOf(name, Text)
           /\ RequestBytes \in Seq(Byte) /\ Len(RequestBytes) = CLIENT_REQUEST_SIZE
<1>1. name \in Seq(Byte)
  BY SessionAssumption, Zenon DEF TypeOK
<1>2. Text \in Seq(Byte)
  <2>1. <<>> \in Seq(Byte) /\ \A u \in Uuid \cup StoredToken : u \in Seq(Byte)
    BY UuidBytes, SessionAssumption
  <2> QED
    BY <2>1, Zenon DEF TypeOK, Text, NoToken
<1>3. RequestBytes = RequestOf(name, Text)
  BY Zenon DEF TypeOK, RequestBytes, RequestOf, ClientRequestToBytes, build_client_request, Text
<1> QED
  BY <1>1, <1>2, <1>3, RequestLayout, Zenon

\* The properties follow from the invariant.
LEMMA SessionImplies == SessionInv => RefusedForCause /\ TokenComesBack
<1> SUFFICES ASSUME SessionInv PROVE RefusedForCause /\ TokenComesBack
  OBVIOUS
<1> USE DEF SessionInv
<1>1. name \in Seq(Byte) /\ Text \in Seq(Byte) /\ RequestBytes = RequestOf(name, Text)
  BY RequestWritten
<1>2. request # None /\ heard = <<>> => request = ClientRequestFromBytes(RequestOf(name, Text))
  BY <1>1, Zenon DEF RequestInv
<1>3. RefusedForCause
  <2> SUFFICES ASSUME error \in Range(said)
               PROVE  /\ token = None
                      /\ heard = <<>> =>
                           \/ addr \notin Peers
                           \/ request # None /\ ~IsErr(request)
                           \/ name = <<>> \/ name[1] = 0 \/ ~IsUtf8(name) \/ Len(name) >= MAX_PAIRING_NAME
                           \/ saved \notin Uuid \cup {NoToken[kind]}
    BY Zenon DEF RefusedForCause
  <2>1. PICK i \in 1..Len(said) : said[i] = error
    BY DEF TypeOK, Range
  <2>2. token = None
    <3>1. error.status = "error"
      BY Zenon DEF error, Response
    <3>2. said[i].status = "error"
      BY <2>1, <3>1
    <3> QED
      BY <3>2, Zenon DEF TaskInv
  <2>3. request # None \/ addr \notin Peers
    <3>1. said # <<>>
      OBVIOUS
    <3> QED
      BY <3>1, Zenon DEF TaskInv
  <2>4. ASSUME request # None, IsErr(request), heard = <<>>, saved \in Uuid \cup {NoToken[kind]}
        PROVE  name = <<>> \/ name[1] = 0 \/ ~IsUtf8(name) \/ Len(name) >= MAX_PAIRING_NAME
    <3>1. Text \in Uuid \cup {<<>>}
      BY <2>4, ProtocolAssumption, Zenon DEF Text, TypeOK, NoToken
    <3> QED
      BY <1>1, <1>2, <2>4, <3>1, RefusedFor, Zenon
  <2> QED
    BY <2>2, <2>3, <2>4, Zenon
<1>4. TokenComesBack
  <2> SUFFICES ASSUME request # None, ~IsErr(request), heard = <<>>, told # None PROVE request.token = told
    BY Zenon DEF TokenComesBack
  <2>1. told \in Uuid /\ told # Nil /\ Text = told
    BY ProtocolAssumption, Zenon DEF TypeOK, Tokens, Text
  <2>2. told # <<>>
    <3>1. told \in Seq(Byte) /\ Nil \in Seq(Byte) /\ Len(told) = Len(Nil)
      BY <2>1, UuidBytes, ProtocolAssumption, Zenon
    <3> QED
      BY <2>1, <3>1
  <2>3. Terminated(Field(told, TOKEN_LENGTH)) = told
    BY <2>1, TokenField, Zenon
  <2> QED
    BY <1>1, <1>2, <2>1, <2>2, <2>3, RequestParsed
<1> QED
  BY <1>3, <1>4, Zenon

-----------------------------------------------------------------------------
(***************************************************************************)
(* The server's responses                                                  *)
(***************************************************************************)

LEMMA AtMostTwo ==
    ASSUME NEW m \in Nat, NEW n \in Nat, n <= m
    PROVE  /\ m <= 1 /\ m # n => m = 1 /\ n = 0
           /\ m <= 2 /\ m # n /\ m # n + 1 => m = 2 /\ n = 0 /\ m - n = 2
           /\ (m = n => m - n = 0) /\ (m = n + 1 => m - n = 1 /\ m \in 1..m)
OBVIOUS

LEMMA UnheardCases ==
    ASSUME TypeOK, HeardAsSaid
    PROVE  /\ Len(said) = Len(heard) => Unheard = <<>>
           /\ Len(said) = Len(heard) + 1 =>
                /\ said[Len(said)] \in Responses
                /\ Unheard = ServerResponseToBytes(said[Len(said)])
           /\ Len(said) # Len(heard) /\ Len(said) # Len(heard) + 1 =>
                /\ Len(said) = 2 /\ Len(heard) = 0 /\ said[1] \in Responses /\ said[2] \in Responses
                /\ Unheard = ServerResponseToBytes(said[1]) \o ServerResponseToBytes(said[2])
<1>1. Len(said) \in Nat /\ Len(heard) \in Nat /\ Len(said) <= 2 /\ Len(heard) <= Len(said)
  BY DEF TypeOK, HeardAsSaid
<1>2. \A i \in 1..Len(said) : said[i] \in Responses
  BY DEF TypeOK
<1>3. CASE Len(said) = Len(heard)
  <2>1. Len(said) - Len(heard) = 0
    BY <1>1, <1>3, AtMostTwo, Zenon
  <2> QED
    BY <1>1, <1>3, <2>1 DEF Unheard
<1>4. CASE Len(said) = Len(heard) + 1
  <2>1. Len(said) - Len(heard) = 1 /\ Len(said) \in 1..Len(said) /\ Len(said) # Len(heard)
    BY <1>1, <1>4, AtMostTwo
  <2> QED
    BY <1>2, <1>4, <2>1 DEF Unheard
<1>5. CASE Len(said) # Len(heard) /\ Len(said) # Len(heard) + 1
  <2>1. Len(said) - Len(heard) = 2 /\ Len(said) = 2 /\ Len(heard) = 0
    <3> DEFINE m == Len(said)
               n == Len(heard)
    <3>1. m \in Nat /\ n \in Nat /\ m <= 2 /\ n <= m /\ m # n /\ m # n + 1
      BY <1>1, <1>5
    <3> HIDE DEF m, n
    <3>2. m - n = 2 /\ m = 2 /\ n = 0
      BY <3>1
    <3> QED
      BY <3>2 DEF m, n
  <2>2. said[1] \in Responses /\ said[2] \in Responses
    BY <1>2, <2>1
  <2> QED
    BY <1>5, <2>1, <2>2 DEF Unheard
<1> QED
  BY <1>3, <1>4, <1>5, Zenon

\* A response written while the connection lasts joins those not heard yet.
LEMMA WriteStep ==
    ASSUME SessionInv, link = "open", Len(said) <= 1, NEW r \in Responses, NEW next, Write(r, next),
           UNCHANGED <<kind, heard, rest, link>>
    PROVE  /\ said' \in Seq(Responses) /\ Len(said') = Len(said) + 1 /\ down' \in Seq(Byte)
           /\ \A i \in 1..Len(said) : said'[i] = said[i]
           /\ said'[Len(said')] = r
           /\ ResponseInv' /\ HeardAsSaid'
<1> DEFINE B == ServerResponseToBytes(r)
<1>t. TypeOK /\ HeardAsSaid /\ ResponseInv
  BY DEF SessionInv
<1>1. /\ said' \in Seq(Responses) /\ Len(said') = Len(said) + 1
      /\ \A i \in 1..Len(said) : said'[i] = said[i]
      /\ said'[Len(said) + 1] = r
  BY <1>t, AppendProperties DEF Write, TypeOK
<1>2. B \in Seq(Byte) /\ down \in Seq(Byte) /\ rest \in Seq(Byte) /\ down' = down \o B
  BY <1>t, ResponseLayout, Zenon DEF Write, TypeOK
<1>n. Len(said) \in Nat /\ Len(heard) \in Nat /\ Len(heard) <= Len(said)
  BY <1>t DEF TypeOK, HeardAsSaid
<1>3. HeardAsSaid'
  <2>1. Len(heard') <= Len(said')
    BY <1>1, <1>n
  <2>2. ASSUME NEW i \in 1..Len(heard)
        PROVE  heard[i] = IF kind = "cpp" /\ said'[i].peer_info = None
                          THEN [said'[i] EXCEPT !.peer_info = Unspecified] ELSE said'[i]
    <3>1. i \in 1..Len(said)
      BY <1>n
    <3> QED
      BY <1>t, <1>1, <3>1, Zenon DEF HeardAsSaid
  <2> QED
    BY <2>1, <2>2 DEF HeardAsSaid
<1> HIDE DEF B
<1>4. Unheard' = Unheard \o B /\ Unheard \in Seq(Byte)
  <2>1. CASE Len(said) = Len(heard)
    <3>1. Unheard = <<>> /\ Unheard' = B
      BY <1>1, <1>n, <2>1 DEF Unheard, B
    <3> QED
      BY <1>2, <3>1
  <2>2. CASE Len(said) # Len(heard)
    <3>1. Len(said) = 1 /\ Len(heard) = 0
      BY <1>n, <2>2, AtMostTwo, Zenon
    <3>2. said[1] \in Responses
      <4>1. \A i \in 1..Len(said) : said[i] \in Responses
        BY <1>t DEF TypeOK
      <4> QED
        BY <3>1, <4>1
    <3>3. Unheard = ServerResponseToBytes(said[1]) /\ Unheard' = ServerResponseToBytes(said[1]) \o B
      BY <1>1, <3>1 DEF Unheard, B
    <3> QED
      BY <3>2, <3>3, ResponseLayout
  <2> QED
    BY <2>1, <2>2
<1>5. rest' \o down' = Unheard'
  <2>1. rest \o down = Unheard
    BY <1>t, Zenon DEF ResponseInv
  <2>2. rest \o (down \o B) = (rest \o down) \o B
    <3>1. rest \in Seq(Byte) /\ down \in Seq(Byte) /\ B \in Seq(Byte)
      BY <1>2, Zenon
    <3> QED
      BY <3>1, JoinBytes, Zenon
  <2> QED
    BY <1>2, <1>4, <2>1, <2>2, Zenon
<1>6. Unheard' \in Seq(Byte)
  BY <1>2, <1>4
<1>7. ResponseInv'
  <2>1. IsPrefix(Unheard', Unheard')
    BY <1>6, PrefixFacts
  <2>2. Len(rest') <= SERVER_RESPONSE_SIZE
    BY <1>t, Zenon DEF ResponseInv, SERVER_RESPONSE_SIZE
  <2> QED
    BY <1>5, <2>1, <2>2 DEF ResponseInv
<1> QED
  BY <1>1, <1>2, <1>3, <1>7

\* A whole response in rest is the first that was not heard.
LEMMA UnderstandStep ==
    ASSUME SessionInv, Understand
    PROVE  /\ Len(heard) + 1 \in 1..Len(said) /\ said[Len(heard) + 1] \in Responses
           /\ Parsed(rest) = AsHeard(kind, said[Len(heard) + 1])
           /\ ResponseInv' /\ HeardAsSaid' /\ HeardOut'
<1> DEFINE j == Len(heard) + 1
           Block(i) == ServerResponseToBytes(said[i])
<1>t. TypeOK /\ HeardAsSaid /\ ResponseInv /\ TaskInv /\ HeardOut
  BY Zenon DEF SessionInv
<1>u. /\ Len(rest) = SERVER_RESPONSE_SIZE /\ rest' = <<>> /\ UNCHANGED <<said, down, kind>>
      /\ heard' = Append(heard, Parsed(rest))
      /\ link' = IF Final(Parsed(rest)) THEN "closed" ELSE link
  BY Zenon DEF Understand, server
<1>s. SERVER_RESPONSE_SIZE \in Nat /\ SERVER_RESPONSE_SIZE > 0
  BY Sizes, Zenon
<1>n. /\ Len(said) \in Nat /\ Len(heard) \in Nat /\ Len(heard) <= Len(said)
      /\ \A i \in 1..Len(said) : said[i] \in Responses
  BY <1>t DEF TypeOK, HeardAsSaid
<1>h. Len(heard') = j /\ heard'[j] = Parsed(rest) /\ \A i \in 1..Len(heard) : heard'[i] = heard[i]
  BY <1>t, <1>u DEF TypeOK
<1>b. rest \in Seq(Byte) /\ down \in Seq(Byte) /\ IsPrefix(rest \o down, Unheard)
      /\ (link = "open" => rest \o down = Unheard)
  BY <1>t, Zenon DEF TypeOK, ResponseInv
<1>c. link # "closed"
  <2>1. rest # <<>>
    BY <1>u, <1>s
  <2> QED
    BY <1>t, <2>1, Zenon DEF HeardOut
<1>1. /\ j \in 1..Len(said) /\ rest = Block(j)
      /\ IsPrefix(down, Unheard') /\ (link = "open" => down = Unheard')
  <2>1. CASE Len(said) = Len(heard)
    <3>1. IsPrefix(rest \o down, <<>>)
      BY <1>b, <1>t, <2>1, UnheardCases
    <3> DEFINE all == rest \o down
    <3>a. all \in Seq(Byte) /\ IsPrefix(all, <<>>)
      BY <1>b, <3>1, ConcatProperties, Zenon
    <3> HIDE DEF all
    <3>b. all = <<>>
      BY <3>a, PrefixFacts
    <3>2. rest \o down = <<>>
      BY <3>b DEF all
    <3>3. Len(rest) = 0
      BY <1>b, <3>2
    <3> QED
      BY <1>u, <1>s, <3>3
  <2>2. CASE Len(said) = Len(heard) + 1
    <3>1. j \in 1..Len(said) /\ Len(said) = j
      BY <1>n, <2>2
    <3>2. Unheard = Block(j) /\ Block(j) \in Seq(Byte) /\ Len(Block(j)) = SERVER_RESPONSE_SIZE
      BY <1>t, <2>2, <3>1, UnheardCases, ResponseLayout, Zenon
    <3>3. Block(j) \o <<>> = Block(j) /\ <<>> \in Seq(Byte)
      BY <3>2, ConcatEmptySeq
    <3> HIDE DEF Block
    <3>a. IsPrefix(rest \o down, Block(j) \o <<>>) /\ Len(rest) = Len(Block(j))
      BY <1>b, <1>u, <3>2, <3>3, Zenon
    <3>b. FirstRead(rest, down, Block(j), <<>>)
      BY <1>b, <3>a, <3>2, <3>3, FirstBlock, Zenon
    <3>4. rest = Block(j) /\ IsPrefix(down, <<>>) /\ (rest \o down = Block(j) \o <<>> => down = <<>>)
      BY <3>b DEF FirstRead
    <3>5. Unheard' = <<>>
      BY <1>h, <1>n, <1>u, <3>1 DEF Unheard
    <3> QED
      BY <1>b, <3>1, <3>2, <3>3, <3>4, <3>5
  <2>3. CASE Len(said) # Len(heard) /\ Len(said) # Len(heard) + 1
    <3>1. Len(said) = 2 /\ Len(heard) = 0 /\ Unheard = Block(1) \o Block(2)
      BY <1>t, <2>3, UnheardCases, Zenon
    <3>2. /\ Block(1) \in Seq(Byte) /\ Len(Block(1)) = SERVER_RESPONSE_SIZE /\ Block(2) \in Seq(Byte)
      BY <1>t, <2>3, UnheardCases, ResponseLayout, Zenon
    <3>3. j = 1 /\ Len(heard') = 1
      BY <1>h, <3>1
    <3>4. Unheard' = Block(2)
      BY <1>u, <3>1, <3>3 DEF Unheard
    <3> HIDE DEF Block
    <3>a. IsPrefix(rest \o down, Block(1) \o Block(2)) /\ Len(rest) = Len(Block(1))
      BY <1>b, <1>u, <3>1, <3>2
    <3>5. /\ rest = Block(1) /\ IsPrefix(down, Block(2))
          /\ rest \o down = Block(1) \o Block(2) => down = Block(2)
      <4>1. FirstRead(rest, down, Block(1), Block(2))
        BY <1>b, <3>a, <3>2, FirstBlock, Zenon
      <4> QED
        BY <4>1 DEF FirstRead
    <3> QED
      BY <1>b, <3>1, <3>3, <3>4, <3>5
  <2> QED
    BY <2>1, <2>2, <2>3, Zenon
<1>2. said[j] \in Responses
  BY <1>n, <1>1
<1>3. Parsed(rest) = AsHeard(kind, said[j])
  BY <1>t, <1>1, <1>2, ResponseComesBack DEF Parsed, TypeOK
<1>4. HeardAsSaid'
  <2>1. Len(heard') <= Len(said')
    BY <1>h, <1>u, <1>1, <1>n
  <2>a. \A i \in 1..Len(heard) : heard[i] = AsHeard(kind, said[i])
    BY <1>t DEF HeardAsSaid, AsHeard
  <2>2. ASSUME NEW i \in 1..Len(heard') PROVE heard'[i] = AsHeard(kind, said[i])
    <3>1. CASE i = j
      BY <1>h, <1>3, <3>1
    <3>2. CASE i # j
      <4> DEFINE n == Len(heard)
      <4>a. n \in Nat /\ i \in 1..(n + 1) /\ i # n + 1
        BY <1>h, <1>n, <3>2
      <4>1. i \in 1..Len(heard)
        <5> HIDE DEF n
        <5>1. i \in 1..n
          BY <4>a
        <5> QED
          BY <5>1, Zenon DEF n
      <4> QED
        BY <1>h, <2>a, <4>1, Zenon
    <3> QED
      BY <3>1, <3>2, Zenon
  <2> QED
    BY <1>u, <2>1, <2>2, Zenon DEF HeardAsSaid, AsHeard
<1>f. Final(Parsed(rest)) => j = Len(said) /\ down = Unheard'
  <2> SUFFICES ASSUME Final(Parsed(rest)) PROVE j = Len(said) /\ down = Unheard'
    OBVIOUS
  <2>1. Parsed(rest).status = said[j].status
    BY <1>2, <1>3, ResponseFields, Zenon DEF AsHeard, Response
  <2>2. j = Len(said)
    BY <1>t, <1>1, <2>1, Zenon DEF TaskInv, Final
  <2>3. Unheard' = <<>>
    <3>1. Len(said') - Len(heard') = 0
      BY <1>h, <1>u, <1>n, <2>2
    <3> QED
      BY <3>1, Zenon DEF Unheard
  <2> QED
    BY <1>b, <1>1, <2>2, <2>3, PrefixFacts, Zenon
<1>5. ResponseInv'
  <2>1. rest' \o down' = down /\ Len(rest') <= SERVER_RESPONSE_SIZE'
    BY <1>b, <1>u, <1>s, ConcatEmptySeq DEF SERVER_RESPONSE_SIZE
  <2>2. link' \in {"open", "closed"} => down = Unheard'
    BY <1>u, <1>c, <1>1, <1>f, Zenon
  <2> QED
    BY <1>u, <1>1, <2>1, <2>2, Zenon DEF ResponseInv
<1>6. HeardOut'
  BY <1>u, <1>c, <1>f, <1>h, Zenon DEF HeardOut
<1> QED
  BY <1>1, <1>2, <1>3, <1>4, <1>5, <1>6, Zenon

-----------------------------------------------------------------------------
(***************************************************************************)
(* The invariant is kept                                                   *)
(***************************************************************************)

LEMMA Constructed ==
    /\ error \in Responses /\ Final(error)
    /\ \A a \in Peers, t \in Tokens :
         /\ waiting(a, t) \in Responses /\ ~Final(waiting(a, t))
         /\ timeout(a, t) \in Responses
         /\ \A b \in Peers : paired(a, b, t) \in Responses
<1>1. {"waiting", "paired", "timeout", "error"} \subseteq Range(Status)
  <2>1. DOMAIN Status = {1, 2, 3, 4}
    BY DEF Status
  <2> QED
    BY <2>1 DEF Status, Range
<1>2. Nil \in Uuid
  BY ProtocolAssumption
<1> QED
  BY <1>1, <1>2 DEF Responses, Final, error, waiting, timeout, paired, Response, Tokens

\* handle_connection writes a response r and waits for a peer, or is done.
LEMMA AnswerStep ==
    ASSUME SessionInv, task \in Working, Len(said) <= 1, NEW r \in Responses, NEW next, Write(r, next),
           UNCHANGED <<client, link, addr, up, buf>>,
           next = "done" \/ (/\ next = "waiting" /\ ~Final(r) /\ said = <<>>
                             /\ addr \in Peers /\ token' # None),
           token' \in Tokens \cup {None}, r.status = "error" => token' = None,
           request' # None \/ addr \notin Peers,
           request' = request \/ request' = ClientRequestFromBytes(RequestBytes),
           NameArrives'
    PROVE  SessionInv'
<1>t. TypeOK /\ TaskInv /\ RequestInv /\ (told # None => saved = told)
  BY DEF SessionInv
<1>u. /\ UNCHANGED <<kind, name, saved, attempts, rest, heard, told>>
      /\ task' = next
  BY Zenon DEF client, Write
<1>o. link = "open"
  BY <1>t, Zenon DEF TaskInv
<1>1. /\ said' \in Seq(Responses) /\ Len(said') = Len(said) + 1 /\ down' \in Seq(Byte)
      /\ \A i \in 1..Len(said) : said'[i] = said[i]
      /\ said'[Len(said')] = r
      /\ ResponseInv' /\ HeardAsSaid'
  BY <1>u, <1>o, WriteStep, Zenon
<1>2. Len(said) \in Nat
  BY <1>t DEF TypeOK
<1>3. TypeOK'
  <2>1. Len(said') <= 2
    BY <1>1, <1>2
  <2>2. task' \in Working \cup {"none", "hung", "done", "gone"}
    BY <1>u, Zenon DEF Working
  <2>3. \A s \in {up', down', buf', rest'} : s \in Seq(Byte)
    BY <1>1, <1>t, <1>u DEF TypeOK
  <2>4. NoToken' = NoToken
    BY Zenon DEF NoToken
  <2> QED
    BY <1>t, <1>u, <1>1, <2>1, <2>2, <2>3, <2>4 DEF TypeOK, NoToken
<1>4. TaskInv'
  <2>0. \A i \in 1..Len(said') : Final(said'[i]) => i = Len(said') /\ said'[i] = r
    <3> SUFFICES ASSUME NEW i \in 1..Len(said'), i # Len(said') PROVE ~Final(said'[i])
      BY <1>1, Zenon
    <3>1. i \in 1..Len(said) /\ said'[i] = said[i]
      BY <1>1, <1>2
    <3>2. task \notin {"done", "gone"}
      BY Zenon DEF Working
    <3>3. ~Final(said[i])
      BY <1>t, <3>1, <3>2, Zenon DEF TaskInv
    <3> QED
      BY <3>1, <3>3, Zenon DEF Final
  <2>e. \A x : x.status = "error" => Final(x)
    BY Zenon DEF Final
  <2>a. /\ addr' = addr /\ link' = "open" /\ Peers' = Peers
        /\ request' # None \/ addr' \notin Peers
    BY <1>o, Zenon DEF Peers
  <2>1. CASE next = "done"
    <3>1. \A i \in 1..Len(said') :
            /\ Final(said'[i]) => i = Len(said') /\ task' \in {"done", "gone"}
            /\ said'[i].status = "error" => token' = None
      BY <1>u, <2>0, <2>e, <2>1, Zenon
    <3>2. task' = "done"
      BY <1>u, <2>1, Zenon
    <3> QED
      BY <2>a, <3>1, <3>2, Zenon DEF TaskInv, Working, Final
  <2>2. CASE next = "waiting"
    <3>1. said = <<>> /\ ~Final(r) /\ addr \in Peers /\ token' # None /\ task' = "waiting"
      BY <1>u, <2>2, Zenon
    <3>2. Len(said') = 1
      BY <1>1, <3>1
    <3>3. \A i \in 1..Len(said') : ~Final(said'[i]) /\ said'[i].status # "error"
      BY <2>0, <2>e, <3>1, Zenon
    <3> QED
      BY <2>a, <3>1, <3>2, <3>3, Zenon DEF TaskInv, Working, Final
  <2> QED
    BY <2>1, <2>2
<1>5. RequestInv'
  <2>1. RequestBytes' = RequestBytes
    BY <1>u DEF RequestBytes
  <2>2. request' # None /\ heard' = <<>> => request' = ClientRequestFromBytes(RequestBytes)
    BY <1>t, <1>u, Zenon DEF RequestInv
  <2> QED
    BY <1>u, <2>1, <2>2, Zenon DEF RequestInv
<1>6. HeardOut'
  BY <1>o, Zenon DEF HeardOut
<1> QED
  BY <1>t, <1>u, <1>1, <1>3, <1>4, <1>5, <1>6, Zenon DEF SessionInv

\* The task goes on or the client sees its end, and nothing else changes.
LEMMA QuietStep ==
    ASSUME SessionInv, UNCHANGED <<client, up, down, addr, buf, request, token, said>>,
           TypeOK', TaskInv', HeardOut',
           link' = link \/ link = "open", task' \in {"accepted", "reading"} => task' = task
    PROVE  SessionInv'
<1>t. RequestInv /\ ResponseInv /\ NameArrives /\ HeardAsSaid /\ (told # None => saved = told)
  BY Zenon DEF SessionInv
<1>u. UNCHANGED <<kind, name, saved, attempts, rest, heard, told>>
  BY Zenon DEF client
<1>1. RequestInv'
  BY <1>t, <1>u, Zenon DEF RequestInv, RequestBytes
<1>2. ResponseInv'
  <2>1. Unheard' = Unheard /\ SERVER_RESPONSE_SIZE' = SERVER_RESPONSE_SIZE
    BY <1>u, Zenon DEF Unheard, SERVER_RESPONSE_SIZE
  <2>2. link' \in {"open", "closed"} => link \in {"open", "closed"}
    BY Zenon
  <2> QED
    BY <1>t, <1>u, <2>1, <2>2, Zenon DEF ResponseInv
<1>3. NameArrives' /\ HeardAsSaid'
  BY <1>t, <1>u, Zenon DEF NameArrives, HeardAsSaid
<1> QED
  BY <1>t, <1>u, <1>1, <1>2, <1>3, Zenon DEF SessionInv

\* A task that hangs, gives up its client or begins to unregister.
LEMMA TaskMoves == ASSUME SessionInv, Hang \/ RequestTimeout \/ WaitTimesOut PROVE SessionInv'
<1>t. TypeOK /\ TaskInv /\ HeardOut
  BY Zenon DEF SessionInv
<1>u. UNCHANGED <<client, link, up, down, addr, buf, request, token, said>>
  BY Zenon DEF Hang, RequestTimeout, WaitTimesOut
<1>v. UNCHANGED <<kind, name, saved, attempts, rest, heard, told>>
  BY <1>u, Zenon DEF client
<1>w. /\ task \in Working /\ task' \in {"hung", "done", "unregister"}
      /\ task' = "unregister" => task = "waiting"
  BY Zenon DEF Hang, RequestTimeout, WaitTimesOut, Working
<1>1. TypeOK'
  BY <1>t, <1>u, <1>v, <1>w, Zenon DEF TypeOK, NoToken, Working
<1>2. TaskInv'
  <2>1. \A i \in 1..Len(said) : ~Final(said[i]) /\ (said[i].status = "error" => token = None)
    <3>1. task \notin {"done", "gone"}
      BY <1>w, Zenon DEF Working
    <3> QED
      BY <1>t, <3>1, Zenon DEF TaskInv
  <2>2. link = "open" /\ (said # <<>> => request # None \/ addr \notin Peers)
    BY <1>t, <1>w, Zenon DEF TaskInv
  <2>3. task = "waiting" => addr \in Peers /\ Len(said) = 1 /\ token # None
    BY <1>t, Zenon DEF TaskInv, Working
  <2> QED
    BY <1>u, <1>w, <2>1, <2>2, <2>3, Zenon DEF TaskInv, Working, Peers, Final
<1>3. HeardOut'
  BY <1>t, <1>u, <1>v, Zenon DEF HeardOut
<1>4. task' \in {"accepted", "reading"} => task' = task
  BY <1>w, Zenon
<1> QED
  BY <1>u, <1>1, <1>2, <1>3, <1>4, QuietStep, Zenon

\* The end of a stream comes between two responses: what was written and not yet
\* parsed is a whole number of responses, and less than one is left.
LEMMA EofStep == ASSUME SessionInv, Eof PROVE SessionInv'
<1>t. TypeOK /\ TaskInv /\ ResponseInv /\ HeardAsSaid
  BY Zenon DEF SessionInv
<1>u. /\ link = "open" /\ task = "done" /\ down = <<>> /\ Len(rest) < SERVER_RESPONSE_SIZE
      /\ link' = "closed" /\ UNCHANGED <<client, server, up, down>>
  BY Zenon DEF Eof
<1>v. UNCHANGED <<kind, name, saved, attempts, rest, heard, told, addr, buf, task, request, token, said>>
  BY <1>u, Zenon DEF client, server
<1>1. TypeOK'
  BY <1>t, <1>u, <1>v, Zenon DEF TypeOK, NoToken, Working
<1>2. TaskInv'
  BY <1>t, <1>u, <1>v, Zenon DEF TaskInv, Working, Peers, Final
<1>3. rest \in Seq(Byte) /\ rest = Unheard
  <2>1. rest \in Seq(Byte) /\ rest \o down = Unheard
    BY <1>t, <1>u, Zenon DEF TypeOK, ResponseInv
  <2>2. rest \o <<>> = rest
    BY <2>1, ConcatEmptySeq, Zenon
  <2> QED
    BY <1>u, <2>1, <2>2, Zenon
<1>s. SERVER_RESPONSE_SIZE \in Nat
  BY Sizes, Zenon
<1>4. Len(heard) = Len(said)
  <2>1. CASE Len(said) = Len(heard) + 1
    <3>1. Len(Unheard) = SERVER_RESPONSE_SIZE
      BY <1>t, <2>1, UnheardCases, ResponseLayout, Zenon
    <3> QED
      BY <1>u, <1>s, <1>3, <3>1
  <2>2. CASE Len(said) # Len(heard) /\ Len(said) # Len(heard) + 1
    <3> DEFINE a == ServerResponseToBytes(said[1])
               b == ServerResponseToBytes(said[2])
    <3>1. /\ a \in Seq(Byte) /\ Len(a) = SERVER_RESPONSE_SIZE /\ b \in Seq(Byte)
          /\ Unheard = a \o b
      BY <1>t, <2>2, UnheardCases, ResponseLayout, Zenon
    <3> HIDE DEF a, b
    <3>2. Len(rest) = Len(a) + Len(b)
      BY <1>3, <3>1, ConcatProperties, Zenon
    <3>3. Len(b) \in Nat
      BY <3>1
    <3> QED
      BY <1>u, <1>s, <3>1, <3>2, <3>3
  <2> QED
    BY <2>1, <2>2, Zenon
<1>5. rest = <<>>
  BY <1>t, <1>3, <1>4, UnheardCases, Zenon
<1>6. HeardOut'
  BY <1>v, <1>4, <1>5, Zenon DEF HeardOut
<1> QED
  BY <1>u, <1>v, <1>1, <1>2, <1>6, QuietStep, Zenon

LEMMA ConnectStep == ASSUME SessionInv, NEW a \in Address, Connect(a) PROVE SessionInv'
<1>t. TypeOK /\ (told # None => saved = told)
  BY Zenon DEF SessionInv
<1>u. /\ attempts < MaxAttempts /\ attempts' = attempts + 1 /\ link' = "open" /\ addr' = a
      /\ up' = RequestBytes /\ down' = <<>> /\ buf' = <<>> /\ rest' = <<>>
      /\ task' = "accepted" /\ request' = None /\ token' = None /\ heard' = <<>> /\ said' = <<>>
      /\ UNCHANGED <<kind, name, saved, told>>
  BY Zenon DEF Connect
<1>1. RequestBytes \in Seq(Byte) /\ RequestBytes' = RequestBytes
  BY <1>t, <1>u, RequestWritten, Zenon DEF RequestBytes
<1>e. /\ \A S : <<>> \in Seq(S)
      /\ <<>> \o RequestBytes = RequestBytes /\ <<>> \o <<>> = <<>> /\ Len(<<>>) = 0
  BY <1>1, ConcatEmptySeq
<1>2. TypeOK'
  <2>1. attempts' \in 0..MaxAttempts
    BY <1>t, <1>u, SessionAssumption DEF TypeOK
  <2>2. \A s \in {up', down', buf', rest'} : s \in Seq(Byte)
    BY <1>u, <1>1, <1>e, Zenon
  <2> QED
    BY <1>t, <1>u, <1>e, <2>1, <2>2 DEF TypeOK, NoToken, Working
<1>3. TaskInv'
  BY <1>u, <1>e DEF TaskInv, Working
<1>4. RequestInv'
  BY <1>u, <1>1, <1>e DEF RequestInv
<1>5. ResponseInv'
  <2>1. Unheard' = <<>>
    BY <1>u, <1>e DEF Unheard
  <2>2. SERVER_RESPONSE_SIZE' = SERVER_RESPONSE_SIZE /\ 0 <= SERVER_RESPONSE_SIZE
    BY Sizes, Zenon DEF SERVER_RESPONSE_SIZE
  <2>3. IsPrefix(<<>>, <<>>)
    BY <1>e, PrefixFacts, Zenon
  <2> QED
    BY <1>u, <1>e, <2>1, <2>2, <2>3, Zenon DEF ResponseInv
<1>6. NameArrives' /\ HeardAsSaid' /\ HeardOut'
  BY <1>u, <1>e DEF NameArrives, HeardAsSaid, HeardOut
<1> QED
  BY <1>t, <1>u, <1>2, <1>3, <1>4, <1>5, <1>6 DEF SessionInv

LEMMA BreakStep == ASSUME SessionInv, Break PROVE SessionInv'
<1>t. TypeOK /\ TaskInv /\ RequestInv /\ ResponseInv /\ NameArrives /\ HeardAsSaid /\ HeardOut
  BY Zenon DEF SessionInv
<1>u. /\ link = "open" /\ link' = "broken" /\ up' = <<>> /\ down' = <<>> /\ task' = "gone"
      /\ UNCHANGED <<kind, name, saved, attempts, rest, heard, told, addr, buf, request, token, said>>
  BY Zenon DEF Break, client
<1>1. TypeOK'
  <2>0. buf \in Seq(Byte) /\ rest \in Seq(Byte) /\ <<>> \in Seq(Byte)
    BY <1>t DEF TypeOK
  <2>1. \A s \in {up', down', buf', rest'} : s \in Seq(Byte)
    BY <1>u, <2>0, Zenon
  <2> QED
    BY <1>t, <1>u, <2>1, Zenon DEF TypeOK, NoToken
<1>2. TaskInv'
  BY <1>t, <1>u, Zenon DEF TaskInv, Working, Peers, Final
<1>3. RequestInv'
  BY <1>t, <1>u, Zenon DEF RequestInv, RequestBytes
<1>4. ResponseInv'
  <2>1. rest \in Seq(Byte) /\ down \in Seq(Byte) /\ rest \o down = Unheard /\ Unheard' = Unheard
    BY <1>t, <1>u, Zenon DEF TypeOK, ResponseInv, Unheard
  <2>2. IsPrefix(rest, Unheard) /\ rest \o <<>> = rest
    BY <2>1, PrefixFacts, ConcatEmptySeq, Zenon
  <2> QED
    BY <1>t, <1>u, <2>1, <2>2 DEF ResponseInv, SERVER_RESPONSE_SIZE
<1>5. NameArrives' /\ HeardAsSaid' /\ HeardOut'
  BY <1>t, <1>u DEF NameArrives, HeardAsSaid, HeardOut
<1> QED
  BY <1>u, <1>1, <1>2, <1>3, <1>4, <1>5 DEF SessionInv

LEMMA BeginStep == ASSUME SessionInv, Begin PROVE SessionInv'
<1>t. TypeOK /\ TaskInv /\ RequestInv /\ ResponseInv /\ NameArrives /\ HeardAsSaid /\ HeardOut
  BY Zenon DEF SessionInv
<1>u. /\ task = "accepted" /\ task \in Working
      /\ link = "open" /\ said = <<>> /\ token = None /\ addr \in Address
      /\ UNCHANGED <<client, link, up, addr, buf, request, token>>
  BY <1>t, Zenon DEF Begin, TaskInv, Working
<1>v. UNCHANGED <<kind, name, saved, attempts, rest, heard, told>>
  BY <1>u DEF client
<1>n. NameArrives' /\ token' \in Tokens \cup {None}
  BY <1>t, <1>u, <1>v, Zenon DEF NameArrives, TypeOK
<1>1. CASE from_socket_addr(addr) = None
  <2>1. Write(error, "done") /\ addr \notin Peers
    BY <1>1, <1>u, Zenon DEF Begin, Peers
  <2>2. Len(said) <= 1
    BY <1>u
  <2> QED
    BY <1>u, <1>n, <2>1, <2>2, Constructed, AnswerStep, Zenon
<1>2. CASE from_socket_addr(addr) # None
  <2>1. task' = "reading" /\ UNCHANGED <<said, down>> /\ addr \in Peers
    BY <1>2, <1>u, Zenon DEF Begin, Peers
  <2>2. TypeOK'
    BY <1>t, <1>u, <1>v, <2>1, Zenon DEF TypeOK, NoToken, Working
  <2>3. TaskInv'
    BY <1>t, <1>u, <1>v, <2>1, Zenon DEF TaskInv, Working, Peers, Final
  <2>4. RequestInv'
    BY <1>t, <1>u, <1>v, <2>1, Zenon DEF RequestInv, RequestBytes
  <2>5. ResponseInv' /\ HeardAsSaid' /\ HeardOut'
    BY <1>t, <1>u, <1>v, <2>1, Zenon DEF ResponseInv, Unheard, HeardAsSaid, HeardOut, SERVER_RESPONSE_SIZE
  <2> QED
    BY <1>n, <1>v, <2>2, <2>3, <2>4, <2>5 DEF SessionInv
<1> QED
  BY <1>1, <1>2

LEMMA ReadStep == ASSUME SessionInv, NEW n \in Piece, Read(n) PROVE SessionInv'
<1>t. TypeOK /\ TaskInv /\ RequestInv /\ ResponseInv /\ NameArrives /\ HeardAsSaid /\ HeardOut
  BY Zenon DEF SessionInv
<1>u. /\ task = "reading" /\ Len(buf) < CLIENT_REQUEST_SIZE
      /\ Deliver(n, CLIENT_REQUEST_SIZE, up, buf, up', buf')
      /\ UNCHANGED <<kind, name, saved, attempts, rest, heard, told, link, addr, task, request, token, said, down>>
  BY Zenon DEF Read, client
<1>1. /\ up' \in Seq(Byte) /\ buf' \in Seq(Byte) /\ buf' \o up' = buf \o up
  <2>1. CLIENT_REQUEST_SIZE \in Nat
    BY Sizes
  <2>2. n \in Nat /\ up \in Seq(Byte) /\ buf \in Seq(Byte)
    BY <1>t, SessionAssumption, Zenon DEF TypeOK
  <2>3. Len(buf) <= CLIENT_REQUEST_SIZE
    BY <1>u, <2>1, <2>2
  <2>4. Moved(CLIENT_REQUEST_SIZE, up, buf, up', buf')
    BY <1>u, <2>1, <2>2, <2>3, DeliverKeeps, Zenon
  <2> QED
    BY <2>4, Zenon DEF Moved
<1>2. TypeOK'
  <2>0. down \in Seq(Byte) /\ rest \in Seq(Byte)
    BY <1>t, Zenon DEF TypeOK
  <2>1. \A s \in {up', down', buf', rest'} : s \in Seq(Byte)
    BY <1>u, <1>1, <2>0, Zenon
  <2> QED
    BY <1>t, <1>u, <2>1, Zenon DEF TypeOK, NoToken, Working
<1>3. TaskInv'
  BY <1>t, <1>u, Zenon DEF TaskInv, Working, Peers, Final
<1>4. RequestInv'
  BY <1>t, <1>u, <1>1, Zenon DEF RequestInv, RequestBytes
<1>5. ResponseInv' /\ HeardAsSaid' /\ NameArrives' /\ HeardOut'
  <2>1. ResponseInv' /\ HeardOut'
    BY <1>t, <1>u, Zenon DEF ResponseInv, Unheard, HeardOut, SERVER_RESPONSE_SIZE
  <2>2. HeardAsSaid' /\ NameArrives'
    BY <1>t, <1>u, Zenon DEF HeardAsSaid, NameArrives
  <2> QED
    BY <2>1, <2>2, Zenon
<1> QED
  BY <1>u, <1>2, <1>3, <1>4, <1>5, Zenon DEF SessionInv

\* When a whole request has arrived it is all the client has sent.
LEMMA ParseStep == ASSUME SessionInv, Parse PROVE SessionInv'
<1>t. TypeOK /\ TaskInv /\ RequestInv /\ ResponseInv /\ HeardAsSaid /\ HeardOut
  BY Zenon DEF SessionInv
<1>u. /\ task = "reading" /\ task \in Working /\ link = "open" /\ said = <<>> /\ token = None
      /\ addr \in Peers /\ buf \o up = RequestBytes
      /\ Len(buf) = CLIENT_REQUEST_SIZE /\ request' = ClientRequestFromBytes(buf)
      /\ UNCHANGED <<client, link, addr, up, buf, token>>
  BY <1>t, Zenon DEF Parse, TaskInv, RequestInv, Working
<1>r. request' # None
  <2>1. buf \in Seq(Byte)
    BY <1>t, Zenon DEF TypeOK
  <2> QED
    BY <1>u, <2>1, RequestIsSomething, Zenon
<1>v. UNCHANGED <<kind, name, saved, attempts, rest, heard, told>> /\ RequestBytes' = RequestBytes
  BY <1>u, Zenon DEF client, RequestBytes
<1>1. buf = RequestBytes
  <2>1. buf \in Seq(Byte) /\ up \in Seq(Byte) /\ CLIENT_REQUEST_SIZE \in Nat
    BY <1>t, Sizes DEF TypeOK
  <2>2. Len(buf) + Len(up) = CLIENT_REQUEST_SIZE
    BY <1>t, <1>u, <2>1, RequestWritten, ConcatProperties, Zenon
  <2>3. up = <<>>
    BY <1>u, <2>1, <2>2
  <2> QED
    BY <1>u, <2>1, <2>3, ConcatEmptySeq, Zenon
<1>2. NameArrives'
  <2>1. /\ name \in Seq(Byte) /\ Text \in Seq(Byte)
        /\ request' = ClientRequestFromBytes(RequestOf(name, Text))
    BY <1>t, <1>u, <1>1, RequestWritten, Zenon
  <2>2. ~IsErr(request') =>
          /\ IsPrefix(request'.name, name)
          /\ Len(request'.name) \in {Len(name), MAX_PAIRING_NAME - 1} \/ name[Len(request'.name) + 1] = 0
    BY <2>1, NameFound, Zenon
  <2> QED
    BY <1>v, <2>2, Zenon DEF NameArrives, IsErr
<1>3. token' \in Tokens \cup {None}
  BY <1>t, <1>u, Zenon DEF TypeOK
<1>4. CASE IsErr(request')
  <2>1. Write(error, "done")
    BY <1>4, Zenon DEF Parse
  <2>2. Len(said) <= 1
    BY <1>u
  <2> QED
    BY <1>u, <1>r, <1>1, <1>2, <1>3, <2>1, <2>2, Constructed, AnswerStep, Zenon
<1>5. CASE ~IsErr(request')
  <2>1. task' = "register" /\ UNCHANGED <<said, down>>
    BY <1>5 DEF Parse
  <2>2. TypeOK'
    BY <1>t, <1>u, <1>v, <2>1, Zenon DEF TypeOK, NoToken, Working
  <2>3. TaskInv'
    BY <1>t, <1>u, <1>v, <1>r, <2>1, Zenon DEF TaskInv, Working, Peers, Final
  <2>4. RequestInv'
    BY <1>u, <1>v, <1>1, <2>1, Zenon DEF RequestInv
  <2>5. ResponseInv' /\ HeardAsSaid' /\ HeardOut'
    BY <1>t, <1>u, <1>v, <2>1, Zenon DEF ResponseInv, Unheard, HeardAsSaid, HeardOut, SERVER_RESPONSE_SIZE
  <2>6. told' # None => saved' = told'
    BY <1>v, Zenon DEF SessionInv
  <2> QED
    BY <1>2, <2>2, <2>3, <2>4, <2>5, <2>6 DEF SessionInv
<1> QED
  BY <1>4, <1>5, Zenon

\* register(), the peer's arrival and the end of the wait.
LEMMA DecideStep == ASSUME SessionInv, RegisterReturns \/ Unregistered \/ PeerStep PROVE SessionInv'
<1>t. TypeOK /\ TaskInv /\ NameArrives
  BY Zenon DEF SessionInv
<1>u. UNCHANGED <<client, link, addr, up, buf, request>>
  BY Zenon DEF RegisterReturns, PeerStep, RegisterFails, SenderDropped, Unregistered, RegisterWaiting,
               RegisterPaired, PeerArrives
<1>n. NameArrives'
  BY <1>t, <1>u, Zenon DEF NameArrives, client
<1>r. ASSUME task = "register"
      PROVE  /\ task \in Working /\ said = <<>> /\ Len(said) <= 1 /\ token = None
             /\ addr \in Peers /\ request' # None
  <2>1. /\ task \in Working /\ said = <<>> /\ token = None /\ addr \in Peers
        /\ request # None \/ addr \notin Peers
    BY <1>t, <1>r, Zenon DEF TaskInv, Working
  <2>2. Len(<<>>) <= 1
    OBVIOUS
  <2> QED
    BY <1>u, <2>1, <2>2, Zenon
<1>w. ASSUME task \in {"waiting", "unregister"}
      PROVE  /\ task \in Working /\ Len(said) <= 1 /\ addr \in Peers
             /\ token \in Tokens /\ request' # None
  <2>1. token \in Tokens \cup {None}
    BY <1>t, Zenon DEF TypeOK
  <2>2. /\ task \in Working /\ Len(said) = 1 /\ addr \in Peers /\ token # None
        /\ said # <<>> => request # None \/ addr \notin Peers
    BY <1>t, <1>w, Zenon DEF TaskInv, Working
  <2>3. Len(said) = 1 => Len(said) <= 1 /\ said # <<>>
    OBVIOUS
  <2> QED
    BY <1>u, <2>1, <2>2, <2>3, Zenon
<1>1. CASE RegisterFails
  <2>1. task = "register" /\ Write(error, "done") /\ token' = token
    BY <1>1, Zenon DEF RegisterFails
  <2> QED
    BY <1>u, <1>n, <1>r, <2>1, Constructed, AnswerStep, Zenon
<1>2. CASE SenderDropped \/ Unregistered
  <2>1. task \in {"waiting", "unregister"} /\ Write(timeout(addr, token), "done") /\ token' = token
    BY <1>2, Zenon DEF SenderDropped, Unregistered
  <2>2. timeout(addr, token) \in Responses /\ timeout(addr, token).status # "error"
    BY <1>w, <2>1, Constructed, Zenon DEF timeout, Response
  <2> QED
    BY <1>u, <1>n, <1>w, <2>1, <2>2, AnswerStep, Zenon
<1>3. ASSUME NEW t \in Uuid \ {Nil}, RegisterWaiting(t) PROVE SessionInv'
  <2>1. task = "register" /\ Write(waiting(addr, t), "waiting") /\ token' = t
    BY <1>3, Zenon DEF RegisterWaiting
  <2>2. /\ t \in Tokens /\ t # None
        /\ waiting(addr, t) \in Responses /\ ~Final(waiting(addr, t)) /\ waiting(addr, t).status # "error"
    BY <1>r, <2>1, Constructed, ProtocolAssumption, Zenon DEF Tokens, waiting, Response
  <2> QED
    BY <1>u, <1>n, <1>r, <2>1, <2>2, AnswerStep, Zenon
<1>4. ASSUME NEW t \in Uuid \ {Nil}, NEW p \in Peers, RegisterPaired(p, t) PROVE SessionInv'
  <2>1. task = "register" /\ Write(paired(addr, p, t), "done") /\ token' = t
    BY <1>4, Zenon DEF RegisterPaired
  <2>2. t \in Tokens /\ paired(addr, p, t) \in Responses /\ paired(addr, p, t).status # "error"
    BY <1>r, <2>1, Constructed, Zenon DEF Tokens, paired, Response
  <2> QED
    BY <1>u, <1>n, <1>r, <2>1, <2>2, AnswerStep, Zenon
<1>5. ASSUME NEW p \in Peers, PeerArrives(p) PROVE SessionInv'
  <2>1. task = "waiting" /\ Write(paired(addr, p, token), "done") /\ token' = token
    BY <1>5, Zenon DEF PeerArrives
  <2>2. paired(addr, p, token) \in Responses /\ paired(addr, p, token).status # "error"
    BY <1>w, <2>1, Constructed, Zenon DEF paired, Response
  <2> QED
    BY <1>u, <1>n, <1>w, <2>1, <2>2, AnswerStep, Zenon
<1> QED
  BY <1>1, <1>2, <1>3, <1>4, <1>5, Zenon DEF RegisterReturns, PeerStep

LEMMA HearStep == ASSUME SessionInv, NEW n \in Piece, Hear(n) PROVE SessionInv'
<1>t. TypeOK /\ TaskInv /\ RequestInv /\ ResponseInv /\ NameArrives /\ HeardAsSaid /\ HeardOut
  BY Zenon DEF SessionInv
<1>u. /\ link = "open" /\ Deliver(n, SERVER_RESPONSE_SIZE, down, rest, down', rest')
      /\ UNCHANGED <<addr, buf, task, request, token, said, link, up, kind, name, saved, attempts, heard, told>>
  BY Zenon DEF Hear, server
<1>1. /\ down' \in Seq(Byte) /\ rest' \in Seq(Byte) /\ Len(rest') <= SERVER_RESPONSE_SIZE
      /\ rest' \o down' = rest \o down
  <2>1. SERVER_RESPONSE_SIZE \in Nat
    BY Sizes, Zenon
  <2>2. n \in Nat /\ down \in Seq(Byte) /\ rest \in Seq(Byte) /\ Len(rest) <= SERVER_RESPONSE_SIZE
    BY <1>t, SessionAssumption, Zenon DEF TypeOK, ResponseInv
  <2>3. Moved(SERVER_RESPONSE_SIZE, down, rest, down', rest')
    BY <1>u, <2>1, <2>2, DeliverKeeps, Zenon
  <2> QED
    BY <2>3, Zenon DEF Moved
<1>2. TypeOK'
  <2>0. up \in Seq(Byte) /\ buf \in Seq(Byte)
    BY <1>t, Zenon DEF TypeOK
  <2>1. \A s \in {up', down', buf', rest'} : s \in Seq(Byte)
    BY <1>u, <1>1, <2>0, Zenon
  <2> QED
    BY <1>t, <1>u, <2>1 DEF TypeOK, NoToken, Working
<1>3. TaskInv'
  BY <1>t, <1>u, Zenon DEF TaskInv, Working, Peers, Final
<1>4. RequestInv'
  BY <1>t, <1>u, Zenon DEF RequestInv, RequestBytes
<1>5. ResponseInv'
  <2>1. Unheard' = Unheard
    BY <1>u, Zenon DEF Unheard
  <2> QED
    BY <1>t, <1>u, <1>1, <2>1, Zenon DEF ResponseInv, SERVER_RESPONSE_SIZE
<1>6. HeardAsSaid' /\ NameArrives' /\ HeardOut'
  BY <1>t, <1>u, Zenon DEF HeardAsSaid, NameArrives, HeardOut
<1> QED
  BY <1>u, <1>2, <1>3, <1>4, <1>5, <1>6 DEF SessionInv

\* A client sees the status and the token of a response as they are.
LEMMA FieldsHeard ==
    ASSUME NEW k, NEW q \in Responses
    PROVE  /\ AsHeard(k, q) \in [status : Range(Status), your_info : Peers \cup {Unspecified},
                                 peer_info : Peers \cup {Unspecified, None}, token : Uuid]
           /\ AsHeard(k, q).status = q.status /\ AsHeard(k, q).token = q.token
           /\ AsHeard(k, q).status # "error" => AsHeard(k, q).token \in Tokens
<1>1. q \in [status : Range(Status), your_info : Peers \cup {Unspecified}, peer_info : Peers \cup {None},
             token : Uuid] /\ (q.status # "error" => q.token # Nil)
  BY Zenon DEF Responses
<1> QED
  BY <1>1 DEF AsHeard, Tokens

\* The token the client keeps is the one the server wrote.
LEMMA UnderstandKeeps == ASSUME SessionInv, Understand PROVE SessionInv'
<1> DEFINE j == Len(heard) + 1
           r == Parsed(rest)
<1>t. TypeOK /\ TaskInv /\ RequestInv /\ NameArrives
  BY Zenon DEF SessionInv
<1>u. /\ heard' = Append(heard, r) /\ rest' = <<>>
      /\ saved' = IF r.status = "error" THEN NoToken[kind] ELSE r.token
      /\ told' = IF r.status = "error" THEN None ELSE said[Len(heard')].token
      /\ link' = IF Final(r) THEN "closed" ELSE link
      /\ UNCHANGED <<addr, buf, task, request, token, said, up, down, kind, name, attempts>>
  BY Zenon DEF Understand, server
<1>1. /\ j \in 1..Len(said) /\ said[j] \in Responses /\ r = AsHeard(kind, said[j])
      /\ ResponseInv' /\ HeardAsSaid' /\ HeardOut'
  BY UnderstandStep, Zenon
<1> HIDE DEF r
<1>2. /\ r \in [status : Range(Status), your_info : Peers \cup {Unspecified},
                peer_info : Peers \cup {Unspecified, None}, token : Uuid]
      /\ r.status = said[j].status /\ r.token = said[j].token
      /\ r.status # "error" => r.token \in Tokens
  BY <1>1, FieldsHeard, Zenon
<1>3. Len(heard') = j /\ heard' # <<>>
  <2>1. heard \in Seq([status : Range(Status), your_info : Peers \cup {Unspecified},
                       peer_info : Peers \cup {Unspecified, None}, token : Uuid])
    BY <1>t, Zenon DEF TypeOK
  <2> QED
    BY <1>u, <1>2, <2>1
<1>4. /\ told' \in Tokens \cup {None} /\ (told' # None => saved' = told')
      /\ saved' \in {NoToken[kind]} \cup Uuid
  BY <1>u, <1>2, <1>3, Zenon
<1>5. TypeOK'
  <2>0. up \in Seq(Byte) /\ buf \in Seq(Byte) /\ down \in Seq(Byte) /\ <<>> \in Seq(Byte)
    BY <1>t DEF TypeOK
  <2>1. \A s \in {up', down', buf', rest'} : s \in Seq(Byte)
    BY <1>u, <2>0, Zenon
  <2>2. heard' \in Seq([status : Range(Status), your_info : Peers \cup {Unspecified},
                        peer_info : Peers \cup {Unspecified, None}, token : Uuid])
    BY <1>t, <1>u, <1>2, AppendProperties DEF TypeOK
  <2>3. link' \in {"none", "open", "closed", "broken"}
    BY <1>t, <1>u DEF TypeOK
  <2> QED
    BY <1>t, <1>u, <1>4, <2>1, <2>2, <2>3, Zenon DEF TypeOK, NoToken, Working, Peers, Responses
<1>6. TaskInv'
  <2>1. Final(r) => task \in {"done", "gone"}
    BY <1>t, <1>1, <1>2, Zenon DEF TaskInv, Final
  <2>2. Final(r) => task \notin Working \cup {"hung"}
    BY <2>1, Zenon DEF Working
  <2>3. task \in Working \cup {"hung"} => link' = "open"
    BY <1>t, <1>u, <2>2, Zenon DEF TaskInv
  <2> QED
    BY <1>t, <1>u, <2>3, Zenon DEF TaskInv, Working, Peers, Final
<1>7. RequestInv'
  <2>1. said # <<>>
    BY <1>1
  <2> QED
    BY <1>t, <1>u, <1>3, <2>1 DEF TaskInv, RequestInv
<1>8. NameArrives'
  BY <1>t, <1>u DEF NameArrives
<1> QED
  BY <1>1, <1>4, <1>5, <1>6, <1>7, <1>8 DEF SessionInv

LEMMA SessionInit == Init => SessionInv
<1> SUFFICES ASSUME Init PROVE SessionInv
  OBVIOUS
<1>i. /\ kind \in {"rust", "cpp"} /\ name \in PairingName
      /\ saved \in {NoToken[kind]} \cup (IF kind = "cpp" THEN StoredToken ELSE {})
      /\ attempts = 0 /\ link = "none" /\ addr = None
      /\ up = <<>> /\ down = <<>> /\ buf = <<>> /\ rest = <<>>
      /\ task = "none" /\ request = None /\ token = None
      /\ heard = <<>> /\ said = <<>> /\ told = None
  BY Zenon DEF Init
<1>e. (\A S : <<>> \in Seq(S)) /\ <<>> \o <<>> = <<>> /\ Len(<<>>) = 0
  OBVIOUS
<1>1. TypeOK
  <2>1. \A s \in {up, down, buf, rest} : s \in Seq(Byte)
    BY <1>i, <1>e, Zenon
  <2>2. attempts \in 0..MaxAttempts
    BY <1>i, SessionAssumption
  <2> QED
    BY <1>i, <1>e, <2>1, <2>2 DEF TypeOK
<1>2. TaskInv /\ RequestInv /\ NameArrives /\ HeardAsSaid /\ HeardOut
  BY <1>i, <1>e DEF TaskInv, Working, RequestInv, NameArrives, HeardAsSaid, HeardOut
<1>3. ResponseInv
  <2>1. Unheard = <<>>
    BY <1>i, <1>e DEF Unheard
  <2>2. IsPrefix(<<>>, <<>>)
    BY <1>e, PrefixFacts, Zenon
  <2>3. 0 <= SERVER_RESPONSE_SIZE
    BY Sizes
  <2> QED
    BY <1>i, <1>e, <2>1, <2>2, <2>3 DEF ResponseInv
<1> QED
  BY <1>i, <1>1, <1>2, <1>3, Zenon DEF SessionInv

LEMMA SessionStep == SessionInv /\ [Next]_vars => SessionInv'
<1> SUFFICES ASSUME SessionInv, [Next]_vars PROVE SessionInv'
  OBVIOUS
<1>1. ASSUME NEW a \in Address, Connect(a) PROVE SessionInv'
  BY <1>1, ConnectStep, Zenon
<1>2. CASE Break
  BY <1>2, BreakStep, Zenon
<1>10. CASE Hang \/ RequestTimeout \/ WaitTimesOut
  BY <1>10, TaskMoves, Zenon
<1>11. CASE Eof
  BY <1>11, EofStep, Zenon
<1>3. CASE Begin
  BY <1>3, BeginStep
<1>4. CASE Parse
  BY <1>4, ParseStep
<1>5. CASE RegisterReturns \/ Unregistered \/ PeerStep
  BY <1>5, DecideStep, Zenon
<1>6. ASSUME NEW n \in Piece, Read(n) PROVE SessionInv'
  BY <1>6, ReadStep, Zenon
<1>7. ASSUME NEW n \in Piece, Hear(n) PROVE SessionInv'
  BY <1>7, HearStep, Zenon
<1>8. CASE Understand
  BY <1>8, UnderstandKeeps
<1>9. CASE UNCHANGED vars
  <2>1. UNCHANGED <<kind, name, saved, attempts, rest, heard, told, addr, buf, task, request, token, said, link, up, down>>
    BY <1>9, Zenon DEF vars, client, server
  <2>2. TypeOK'
    BY <2>1 DEF SessionInv, TypeOK, NoToken
  <2>a. TaskInv' /\ RequestInv' /\ HeardOut'
    BY <2>1 DEF SessionInv, TaskInv, RequestInv, RequestBytes, HeardOut
  <2>3. ResponseInv'
    BY <2>1, Zenon DEF SessionInv, ResponseInv, Unheard
  <2>4. NameArrives' /\ HeardAsSaid'
    BY <2>1 DEF SessionInv, NameArrives, HeardAsSaid
  <2> QED
    BY <2>1, <2>2, <2>a, <2>3, <2>4 DEF SessionInv
<1> QED
  BY <1>1, <1>2, <1>10, <1>11, <1>3, <1>4, <1>5, <1>6, <1>7, <1>8, <1>9, Zenon
     DEF Next, HandlerStep, ServerReads, ClientReads, Stopped

\* The streams, the task of handle_connection and the token the client keeps are
\* related as SessionInv says, for every size of the fields, every name, token
\* and address, every way TCP cuts the streams, and any number of connections.
THEOREM SessionInvariant == Spec => []SessionInv
<1> QED
  BY SessionInit, SessionStep, PTL DEF Spec

\* from_bytes gives the name the caller meant, as far as the field carries it.
THEOREM NameAlwaysArrives == Spec => []NameArrives
<1>1. SessionInv => NameArrives
  BY DEF SessionInv
<1> QED
  BY <1>1, SessionInvariant, PTL

\* Whatever handle_connection answers with ERROR has an IPv6 address, an unusable
\* name or token, or a register() that failed; and nobody is refused on the
\* connection on which they were given a token.
THEOREM AlwaysRefusedForCause == Spec => []RefusedForCause
<1>1. SessionInv => RefusedForCause
  BY SessionImplies
<1> QED
  BY <1>1, SessionInvariant, PTL

\* A token goes to the client through to_bytes and either client's parser, and
\* comes back in its next request as it was.
THEOREM TokenAlwaysComesBack == Spec => []TokenComesBack
<1>1. SessionInv => TokenComesBack
  BY SessionImplies, Zenon
<1> QED
  BY <1>1, SessionInvariant, PTL

\* However TCP cuts the stream, the client parses the responses that the server
\* has written, in their order.
THEOREM AlwaysHeardAsSaid == Spec => []HeardAsSaid
<1>1. SessionInv => HeardAsSaid
  BY Zenon DEF SessionInv
<1> QED
  BY <1>1, SessionInvariant, PTL

\* However TCP cuts the stream: when it ends in order, the client has parsed all
\* that the server has written, and is not in the middle of a response.
THEOREM AlwaysHeardOut == Spec => []HeardOut
<1>1. SessionInv => HeardOut
  BY Zenon DEF SessionInv
<1> QED
  BY <1>1, SessionInvariant, PTL

=============================================================================
