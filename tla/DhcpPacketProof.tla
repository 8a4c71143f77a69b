--------------------------- MODULE DhcpPacketProof ---------------------------
(***************************************************************************)
(* What DhcpOption and the buffer do, for packets of any bytes and length. *)
(***************************************************************************)
EXTENDS DhcpPacket, WellFoundedInduction, TLAPS

USE SMTT(30), Z3T(30), ZenonT(30)

LEMMA ReceivedFits ==
  ASSUME NEW p \in Packets
  PROVE  received(p) \in Nat /\ received(p) <= BufLen /\ received(p) <= Len(p.wire)
  BY DhcpAssumption DEF DhcpAssumption, received

\* Reading a packet leaves a buffer of bytes of the same size.
LEMMA OverwrittenIsBuffer ==
  ASSUME NEW p \in Packets, NEW b \in Seq(Byte), Len(b) = BufLen
  PROVE  overwritten(b, p) \in Seq(Byte) /\ Len(overwritten(b, p)) = BufLen
  <1> DEFINE n == received(p)
             new == SubSeq(p.wire, 1, n)
             old == SubSeq(b, n + 1, BufLen)
  <1>1. n \in Nat /\ n <= BufLen /\ n <= Len(p.wire) /\ BufLen \in Nat /\ p.wire \in Seq(Byte)
    BY ReceivedFits, DhcpAssumption DEF DhcpAssumption, wellFormed
  <1> HIDE DEF n
  <1>2. new \in Seq(Byte) /\ Len(new) = n
    BY <1>1
  <1>3. old \in Seq(Byte) /\ Len(old) = BufLen - n
    BY <1>1
  <1> HIDE DEF new, old
  <1>4. new \o old \in Seq(Byte) /\ Len(new \o old) = BufLen
    BY <1>1, <1>2, <1>3
  <1> QED BY <1>4 DEF overwritten, new, old, n

LEMMA ByteIsNat == \A x \in Byte : x \in Nat
  BY DEF Byte

\* An option lies within the slice it is taken from, and the next slice is
\* what follows it there: at least two bytes shorter.
LEMMA OptionInSlice ==
  ASSUME NEW b \in Seq(Byte), NEW s \in Slice, s.lo <= s.hi, s.hi <= Len(b)
  PROVE  LET o == DhcpOption(b, s)
         IN  /\ o.val \in Slice /\ o.next \in Slice
             /\ o.val.lo <= o.val.hi /\ o.val.hi <= s.hi
             /\ o.next.lo <= o.next.hi /\ o.next.hi <= s.hi
             /\ o.typ # 255 => /\ o.val.lo >= s.lo + 2 /\ o.val.hi = o.next.lo
                               /\ o.next.hi = s.hi
             /\ o.typ = 255 => o.next = nil
  <1> DEFINE len == s.hi - s.lo
             l   == b[s.lo + 2]
  <1>1. s.lo \in Nat /\ s.hi \in Nat
    BY DEF Slice
  <1>2. ASSUME len >= 2 PROVE l \in Nat
    <2>1. s.lo + 2 \in 1 .. Len(b)
      BY <1>1, <1>2
    <2>2. l \in Byte
      BY <2>1
    <2> QED BY <2>2, ByteIsNat
  <1>3. CASE len < 2
    BY <1>1, <1>3 DEF DhcpOption, nil, Slice
  <1>4. CASE len >= 2 /\ (b[s.lo + 1] = 255 \/ len < l + 2)
    BY <1>1, <1>2, <1>4 DEF DhcpOption, nil, Slice
  <1>5. CASE len >= 2 /\ b[s.lo + 1] # 255 /\ ~(len < l + 2)
    <2>1. l \in Nat /\ s.lo + 2 + l <= s.hi
      BY <1>1, <1>2, <1>5
    <2>2. DhcpOption(b, s) = [typ  |-> b[s.lo + 1],
                              val  |-> [lo |-> s.lo + 2, hi |-> s.lo + 2 + l],
                              next |-> [lo |-> s.lo + 2 + l, hi |-> s.hi]]
      BY <1>1, <1>5 DEF DhcpOption
    <2> QED BY <1>1, <1>5, <2>1, <2>2 DEF Slice
  <1> QED BY <1>1, <1>2, <1>3, <1>4, <1>5

\* The bytes of a slice are as many as its bounds say.
LEMMA BytesLength ==
  ASSUME NEW b \in Seq(Byte), NEW s \in Slice, s.lo <= s.hi, s.hi <= Len(b)
  PROVE  bytes(b, s) \in Seq(Byte) /\ Len(bytes(b, s)) = s.hi - s.lo
  BY DEF bytes, Slice

-----------------------------------------------------------------------------
(* Induction over naturals, as the least counterexample: WFMin takes a set *)
(* where the library's induction theorems take a predicate.                *)

LEMMA NatMin ==
  ASSUME NEW T \in SUBSET Nat, T # {}
  PROVE  \E x \in T : \A y \in T : x <= y
  <1> DEFINE R == OpToRel(<, Nat)
  <1>1. PICK x \in T : \A y \in T : ~(<<y, x>> \in R)
    <2>1. IsWellFoundedOn(R, Nat)
      BY NatLessThanWellFounded, ZenonT(30)
    <2> QED BY <2>1, WFMin, ZenonT(30)
  <1>2. \A y \in T : ~(y < x)
    BY <1>1, ZenonT(30) DEF OpToRel
  <1> QED BY <1>2

\* A set of naturals that has 0 and the successors of its members below n has
\* all naturals up to n.
LEMMA UpTo ==
  ASSUME NEW n \in Nat, NEW T, 0 \in T, \A k \in 0 .. n - 1 : k \in T => k + 1 \in T
  PROVE  0 .. n \subseteq T
  <1> DEFINE Bad == {k \in 0 .. n : k \notin T}
  <1> SUFFICES ASSUME Bad # {} PROVE FALSE
    OBVIOUS
  <1>1. PICK x \in Bad : \A y \in Bad : x <= y
    <2>1. Bad \in SUBSET Nat
      OBVIOUS
    <2> HIDE DEF Bad
    <2> QED BY <2>1, NatMin
  <1>2. x \in 1 .. n
    OBVIOUS
  <1>3. x - 1 \in T
    BY <1>1, <1>2
  <1> QED BY <1>2, <1>3

-----------------------------------------------------------------------------
(* Sequences, by their length and elements.                                *)

LEMMA CatIs ==
  ASSUME NEW S, NEW s \in Seq(S), NEW t \in Seq(S)
  PROVE  /\ s \o t \in Seq(S) /\ Len(s) \in Nat /\ Len(t) \in Nat
         /\ Len(s \o t) = Len(s) + Len(t)
         /\ \A x \in 1 .. Len(s) : (s \o t)[x] = s[x]
         /\ \A x \in 1 .. Len(t) : (s \o t)[Len(s) + x] = t[x]
  OBVIOUS

LEMMA SubSeqIs ==
  ASSUME NEW S, NEW s \in Seq(S), NEW i \in Nat, NEW l \in Nat, i + l <= Len(s)
  PROVE  /\ SubSeq(s, i + 1, i + l) \in Seq(S)
         /\ Len(SubSeq(s, i + 1, i + l)) = l
         /\ \A x \in 1 .. l : SubSeq(s, i + 1, i + l)[x] = s[i + x]
  OBVIOUS

LEMMA SameSeq ==
  ASSUME NEW S, NEW s \in Seq(S), NEW t \in Seq(S), Len(s) = Len(t),
         \A x \in 1 .. Len(s) : s[x] = t[x]
  PROVE  s = t
  OBVIOUS

-----------------------------------------------------------------------------
(* The bytes of a sequence of options.                                     *)

AnyOption == Option \cup VendorOption

LEMMA EncodeIsSeq ==
  ASSUME NEW o \in AnyOption
  PROVE  /\ o.typ \in Byte \ {255} /\ o.val \in Seq(Byte)
         /\ encode(o) \in Seq(Nat) /\ Len(encode(o)) = Len(o.val) + 2
         /\ encode(o)[1] = o.typ /\ encode(o)[2] = Len(o.val)
         /\ \A i \in 1 .. Len(o.val) : encode(o)[i + 2] = o.val[i]
  <1>1. o.typ \in Byte \ {255} /\ o.val \in Seq(Byte)
    BY DEF AnyOption, Option, VendorOption, Byte
  <1>2. o.typ \in Nat /\ o.val \in Seq(Nat) /\ Len(o.val) \in Nat
    <2>1. \A i \in 1 .. Len(o.val) : o.val[i] \in Nat
      BY <1>1, ByteIsNat
    <2> QED BY <1>1, <2>1, ByteIsNat
  <1> QED BY <1>1, <1>2 DEF encode

\* encoded is defined: there is a function that satisfies its equation.
LEMMA EncodedDefined ==
  ASSUME NEW os \in Seq(AnyOption)
  PROVE  /\ encoded(os) \in [0 .. Len(os) -> Seq(Nat)]
         /\ encoded(os)[0] = <<>>
         /\ \A i \in 1 .. Len(os) : encoded(os)[i] = encoded(os)[i - 1] \o encode(os[i])
  <1> DEFINE n == Len(os)
             good(f, k) == /\ f \in [0 .. k -> Seq(Nat)] /\ f[0] = <<>>
                           /\ \A i \in 1 .. k : f[i] = f[i - 1] \o encode(os[i])
             T == {k \in 0 .. n : \E f : good(f, k)}
  <1>1. 0 \in T
    <2>1. good([i \in 0 .. 0 |-> <<>>], 0)
      OBVIOUS
    <2> HIDE DEF good
    <2>2. \E f : good(f, 0)
      BY <2>1
    <2> QED BY <2>2
  <1>2. ASSUME NEW k \in 0 .. n - 1, k \in T PROVE k + 1 \in T
    <2>1. PICK f : good(f, k)
      BY <1>2, ZenonT(30)
    <2> DEFINE g == [i \in 0 .. k + 1 |-> IF i = k + 1 THEN f[k] \o encode(os[k + 1]) ELSE f[i]]
    <2>2. encode(os[k + 1]) \in Seq(Nat)
      BY EncodeIsSeq
    <2>3. f[k] \o encode(os[k + 1]) \in Seq(Nat)
      BY <2>1, <2>2
    <2>4. g \in [0 .. k + 1 -> Seq(Nat)] /\ g[0] = <<>>
      BY <2>1, <2>3
    <2>5. \A i \in 1 .. k + 1 : g[i] = g[i - 1] \o encode(os[i])
      <3> SUFFICES ASSUME NEW i \in 1 .. k + 1 PROVE g[i] = g[i - 1] \o encode(os[i])
        OBVIOUS
      <3>1. CASE i = k + 1
        <4>1. g[i] = f[k] \o encode(os[k + 1]) /\ g[k] = f[k] /\ i - 1 = k
          BY <3>1
        <4> QED BY <3>1, <4>1, ZenonT(30)
      <3>2. CASE i # k + 1
        <4>1. i \in 1 .. k /\ g[i] = f[i] /\ g[i - 1] = f[i - 1]
          BY <3>2
        <4> QED BY <2>1, <4>1, ZenonT(30)
      <3> QED BY <3>1, <3>2, ZenonT(30)
    <2>6. good(g, k + 1)
      BY <2>4, <2>5, ZenonT(30)
    <2> HIDE DEF g, good
    <2>7. \E h : good(h, k + 1)
      BY <2>6
    <2> QED BY <2>7
  <1>3. n \in T
    <2>1. n \in Nat /\ n \in 0 .. n
      OBVIOUS
    <2> HIDE DEF T, n
    <2> QED BY <1>1, <1>2, <2>1, UpTo, ZenonT(30)
  <1>4. PICK f : good(f, n)
    BY <1>3, ZenonT(30)
  <1>5. f = [i \in 0 .. n |-> IF i = 0 THEN <<>> ELSE f[i - 1] \o encode(os[i])]
    BY <1>4
  <1>6. encoded(os) = [i \in 0 .. n |-> IF i = 0 THEN <<>> ELSE encoded(os)[i - 1] \o encode(os[i])]
    BY <1>5, Zenon DEF encoded
  <1> HIDE DEF good
  <1>7. /\ encoded(os)[0] = <<>>
        /\ \A i \in 1 .. n : encoded(os)[i] = encoded(os)[i - 1] \o encode(os[i])
    BY <1>6
  <1> DEFINE U == {k \in 0 .. n : encoded(os)[k] \in Seq(Nat)}
  <1>8. 0 \in U
    <2>1. 0 \in 0 .. n /\ <<>> \in Seq(Nat)
      OBVIOUS
    <2> QED BY <1>7, <2>1, ZenonT(30)
  <1>9. ASSUME NEW k \in 0 .. n - 1, k \in U PROVE k + 1 \in U
    <2>1. encode(os[k + 1]) \in Seq(Nat)
      BY EncodeIsSeq
    <2>2. k + 1 \in 1 .. n /\ (k + 1) - 1 = k
      OBVIOUS
    <2>3. encoded(os)[k + 1] = encoded(os)[k] \o encode(os[k + 1])
      BY <1>7, <2>2, ZenonT(30)
    <2>4. encoded(os)[k] \in Seq(Nat)
      BY <1>9
    <2>5. encoded(os)[k + 1] \in Seq(Nat)
      BY <2>1, <2>3, <2>4
    <2> QED BY <2>2, <2>5
  <1>10. 0 .. n \subseteq U
    <2>1. n \in Nat
      OBVIOUS
    <2> HIDE DEF U, n
    <2> QED BY <1>8, <1>9, <2>1, UpTo
  <1> QED BY <1>6, <1>7, <1>10, ZenonT(30)

\* Where the i-th of the options ends.
ends(os, i) == Len(encoded(os)[i])

LEMMA EndsStep ==
  ASSUME NEW os \in Seq(AnyOption), NEW i \in 0 .. Len(os) - 1
  PROVE  /\ ends(os, 0) = 0 /\ ends(os, i) \in Nat
         /\ os[i + 1] \in AnyOption /\ Len(os[i + 1].val) \in Nat
         /\ ends(os, i + 1) = ends(os, i) + 2 + Len(os[i + 1].val)
         /\ \A x \in 1 .. ends(os, i) : encoded(os)[i + 1][x] = encoded(os)[i][x]
         /\ encoded(os)[i + 1][ends(os, i) + 1] = os[i + 1].typ
         /\ encoded(os)[i + 1][ends(os, i) + 2] = Len(os[i + 1].val)
         /\ \A x \in 1 .. Len(os[i + 1].val) :
               encoded(os)[i + 1][ends(os, i) + 2 + x] = os[i + 1].val[x]
  <1> DEFINE o == os[i + 1]
             e == encoded(os)[i]
             f == encoded(os)[i + 1]
             v == Len(o.val)
  <1>1. i + 1 \in 1 .. Len(os) /\ (i + 1) - 1 = i /\ i \in 0 .. Len(os) /\ 0 \in 0 .. Len(os)
    OBVIOUS
  <1>2. e \in Seq(Nat) /\ f = e \o encode(o) /\ encoded(os)[0] = <<>> /\ o \in AnyOption
    <2>1. /\ encoded(os) \in [0 .. Len(os) -> Seq(Nat)] /\ encoded(os)[0] = <<>>
          /\ \A k \in 1 .. Len(os) : encoded(os)[k] = encoded(os)[k - 1] \o encode(os[k])
      BY EncodedDefined, ZenonT(30)
    <2>2. e \in Seq(Nat)
      BY <1>1, <2>1
    <2>3. f = encoded(os)[(i + 1) - 1] \o encode(o)
      BY <1>1, <2>1, ZenonT(30)
    <2>4. o \in AnyOption
      BY <1>1
    <2> QED BY <1>1, <2>1, <2>2, <2>3, <2>4
  <1> HIDE DEF o, e, f
  <1>3. /\ encode(o) \in Seq(Nat) /\ v \in Nat /\ Len(encode(o)) = v + 2
        /\ encode(o)[1] = o.typ /\ encode(o)[2] = v
        /\ \A x \in 1 .. v : encode(o)[x + 2] = o.val[x]
    <2>1. /\ o.val \in Seq(Byte) /\ encode(o) \in Seq(Nat) /\ Len(encode(o)) = Len(o.val) + 2
          /\ encode(o)[1] = o.typ /\ encode(o)[2] = Len(o.val)
          /\ \A x \in 1 .. Len(o.val) : encode(o)[x + 2] = o.val[x]
      BY <1>2, EncodeIsSeq, ZenonT(30)
    <2>2. Len(o.val) \in Nat
      BY <2>1
    <2> QED BY <2>1, <2>2, ZenonT(30)
  <1> HIDE DEF v
  <1>4. Len(e) \in Nat /\ Len(f) = Len(e) + 2 + v
    <2>1. Len(e) \in Nat /\ Len(f) = Len(e) + Len(encode(o))
      BY <1>2, <1>3, CatIs, ZenonT(30)
    <2> QED BY <1>3, <2>1
  <1>5. /\ \A x \in 1 .. Len(e) : f[x] = e[x]
        /\ \A x \in 1 .. v + 2 : f[Len(e) + x] = encode(o)[x]
    BY <1>2, <1>3
  <1>6. f[Len(e) + 1] = o.typ /\ f[Len(e) + 2] = v
    BY <1>3, <1>5
  <1>7. ASSUME NEW x \in 1 .. v PROVE f[Len(e) + 2 + x] = o.val[x]
    <2>1. x + 2 \in 1 .. v + 2 /\ Len(e) + 2 + x = Len(e) + (x + 2)
      BY <1>3, <1>4
    <2> QED BY <1>3, <1>5, <2>1, ZenonT(30)
  <1>8. Len(encoded(os)[0]) = 0
    BY <1>2
  <1> QED BY <1>2, <1>3, <1>4, <1>5, <1>6, <1>7, <1>8, ZenonT(30) DEF ends, o, e, f, v

\* What is encoded so far stays in front when more is added.
LEMMA EncodedPrefix ==
  ASSUME NEW os \in Seq(AnyOption), NEW i \in 0 .. Len(os), NEW j \in i .. Len(os)
  PROVE  /\ ends(os, i) \in Nat /\ ends(os, j) \in Nat /\ ends(os, i) <= ends(os, j)
         /\ \A x \in 1 .. ends(os, i) : encoded(os)[j][x] = encoded(os)[i][x]
  <1> DEFINE n == Len(os)
             pre(k) == /\ ends(os, k) \in Nat /\ ends(os, i) <= ends(os, k)
                       /\ \A x \in 1 .. ends(os, i) : encoded(os)[k][x] = encoded(os)[i][x]
             T == {k \in 0 .. n : i <= k => pre(k)}
  <1>0. n \in Nat /\ \A k \in 0 .. n : ends(os, k) \in Nat
    BY EncodedDefined DEF ends
  <1>1. pre(i)
    BY <1>0
  <1>2. 0 \in T
    <2>1. 0 \in 0 .. n /\ (i <= 0 => i = 0)
      BY <1>0
    <2> HIDE DEF pre
    <2> QED BY <1>1, <2>1
  <1>3. ASSUME NEW k \in 0 .. n - 1, k \in T PROVE k + 1 \in T
    <2>1. CASE i <= k
      <3>1. /\ ends(os, k) \in Nat /\ ends(os, i) <= ends(os, k)
            /\ \A x \in 1 .. ends(os, i) : encoded(os)[k][x] = encoded(os)[i][x]
        BY <1>3, <2>1
      <3>2. /\ ends(os, k + 1) = ends(os, k) + 2 + Len(os[k + 1].val) /\ Len(os[k + 1].val) \in Nat
            /\ \A x \in 1 .. ends(os, k) : encoded(os)[k + 1][x] = encoded(os)[k][x]
        BY EndsStep
      <3>3. ends(os, k + 1) \in Nat /\ ends(os, i) <= ends(os, k + 1)
        BY <1>0, <3>1, <3>2
      <3>4. \A x \in 1 .. ends(os, i) : encoded(os)[k + 1][x] = encoded(os)[i][x]
        <4>1. \A x \in 1 .. ends(os, i) : x \in 1 .. ends(os, k)
          BY <1>0, <3>1
        <4> QED BY <3>1, <3>2, <4>1
      <3> QED BY <1>0, <3>3, <3>4
    <2>2. CASE i = k + 1
      BY <1>1, <2>2
    <2>3. CASE i > k + 1
      BY <2>3
    <2> HIDE DEF T
    <2> QED BY <2>1, <2>2, <2>3
  <1>4. 0 .. n \subseteq T
    <2> HIDE DEF T, n
    <2> QED BY <1>0, <1>2, <1>3, UpTo, ZenonT(30)
  <1>5. j \in T /\ i <= j
    BY <1>0, <1>4
  <1> QED BY <1>0, <1>5

\* The k-th option in bytes that encode the options os.
LEMMA EncodesAt ==
  ASSUME NEW b \in Seq(Byte), NEW os \in Seq(AnyOption), encodes(os, b),
         NEW k \in 0 .. Len(os) - 1
  PROVE  /\ ends(os, k + 1) <= Len(b)
         /\ b[ends(os, k) + 1] = os[k + 1].typ
         /\ b[ends(os, k) + 2] = Len(os[k + 1].val)
         /\ \A x \in 1 .. Len(os[k + 1].val) : b[ends(os, k) + 2 + x] = os[k + 1].val[x]
  <1> DEFINE n == Len(os)
             e == encoded(os)[k + 1]
             v == Len(os[k + 1].val)
  <1>1. /\ ends(os, k) \in Nat /\ v \in Nat /\ ends(os, k + 1) = ends(os, k) + 2 + v
        /\ e[ends(os, k) + 1] = os[k + 1].typ
        /\ e[ends(os, k) + 2] = v
        /\ \A x \in 1 .. v : e[ends(os, k) + 2 + x] = os[k + 1].val[x]
    BY EndsStep
  <1>2. k + 1 \in 0 .. n /\ n \in (k + 1) .. n /\ n \in Nat
    OBVIOUS
  <1>3. /\ ends(os, n) \in Nat /\ ends(os, k + 1) <= ends(os, n)
        /\ \A x \in 1 .. ends(os, k + 1) : encoded(os)[n][x] = e[x]
    BY <1>2, EncodedPrefix
  <1>4. /\ ends(os, n) <= Len(b)
        /\ encoded(os)[n] = SubSeq(b, 1, ends(os, n))
    BY DEF encodes, encodeAll, ends
  <1>5. \A x \in 1 .. ends(os, n) : b[x] = encoded(os)[n][x]
    <2>0. encoded(os) \in [0 .. n -> Seq(Nat)]
      BY EncodedDefined, ZenonT(30)
    <2>1. encoded(os)[n] \in Seq(Nat) /\ Len(encoded(os)[n]) = ends(os, n)
      BY <1>2, <2>0 DEF ends
    <2> DEFINE E == encoded(os)[n]
               L == ends(os, n)
    <2>2. E \in Seq(Nat) /\ Len(E) = L /\ L \in Nat /\ L <= Len(b) /\ E = SubSeq(b, 1, L)
      BY <1>3, <1>4, <2>1
    <2> HIDE DEF E, L
    <2>3. ASSUME NEW x \in 1 .. L PROVE b[x] = E[x]
      <3>1. SubSeq(b, 1, L)[x] = b[x]
        BY <2>2
      <3> QED BY <2>2, <3>1
    <2> QED BY <2>3 DEF E, L
  <1> HIDE DEF e, v, n
  <1>6. \A x \in 1 .. ends(os, k + 1) : b[x] = e[x]
    BY <1>1, <1>3, <1>5
  <1>7. ends(os, k + 1) <= Len(b)
    BY <1>1, <1>3, <1>4
  <1>8. b[ends(os, k) + 1] = os[k + 1].typ /\ b[ends(os, k) + 2] = v
    <2>1. ends(os, k) + 1 \in 1 .. ends(os, k + 1) /\ ends(os, k) + 2 \in 1 .. ends(os, k + 1)
      BY <1>1
    <2> QED BY <1>1, <1>6, <2>1
  <1>9. ASSUME NEW x \in 1 .. v PROVE b[ends(os, k) + 2 + x] = os[k + 1].val[x]
    <2>1. ends(os, k) + 2 + x \in 1 .. ends(os, k + 1)
      BY <1>1
    <2> QED BY <1>1, <1>6, <2>1, ZenonT(30)
  <1> QED BY <1>7, <1>8, <1>9 DEF v

\* Bytes base + 1 to base + m of the buffer c are the first m of the bytes b,
\* which encode the options os.
holds(c, base, m, os, b) ==
    /\ c \in Seq(Byte) /\ base \in Nat /\ m \in Nat /\ base + m <= Len(c)
    /\ b \in Seq(Byte) /\ os \in Seq(AnyOption) /\ encodes(os, b) /\ m <= Len(b)
    /\ \A x \in 1 .. m : c[base + x] = b[x]

\* There, where the k-th option ends, DhcpOption finds the next one, whole and
\* with the value that was meant, if it is within the m bytes.
LEMMA FindsOption ==
  ASSUME NEW c, NEW base, NEW m, NEW os, NEW b, holds(c, base, m, os, b),
         NEW k \in 0 .. Len(os) - 1, ends(os, k + 1) <= m
  PROVE  LET o == DhcpOption(c, [lo |-> base + ends(os, k), hi |-> base + m])
         IN  /\ o.typ = os[k + 1].typ /\ o.typ # 255
             /\ o.val = [lo |-> base + ends(os, k) + 2, hi |-> base + ends(os, k + 1)]
             /\ o.next = [lo |-> base + ends(os, k + 1), hi |-> base + m]
             /\ bytes(c, o.val) = os[k + 1].val
  <1> DEFINE l == Len(os[k + 1].val)
             e == ends(os, k)
             v == os[k + 1].val
  <1>0. /\ c \in Seq(Byte) /\ base \in Nat /\ m \in Nat /\ base + m <= Len(c)
        /\ b \in Seq(Byte) /\ os \in Seq(AnyOption) /\ encodes(os, b) /\ m <= Len(b)
        /\ \A x \in 1 .. m : c[base + x] = b[x]
    BY DEF holds
  <1>1. e \in Nat /\ l \in Nat /\ ends(os, k + 1) = e + 2 + l /\ os[k + 1] \in AnyOption
    BY <1>0, EndsStep
  <1>2. /\ b[e + 1] = os[k + 1].typ /\ b[e + 2] = l
        /\ \A x \in 1 .. l : b[e + 2 + x] = v[x]
    BY <1>0, EncodesAt, ZenonT(30)
  <1>3. os[k + 1].typ # 255 /\ v \in Seq(Byte)
    BY <1>1, EncodeIsSeq
  <1> HIDE DEF l, e, v
  <1>9. /\ base \in Nat /\ m \in Nat /\ e \in Nat /\ l \in Nat /\ e + 2 + l <= m
        /\ Len(c) \in Nat /\ base + m <= Len(c)
    BY <1>0, <1>1
  <1>4. c[base + e + 1] = os[k + 1].typ /\ c[base + e + 2] = l
    <2>1. e + 1 \in 1 .. m /\ e + 2 \in 1 .. m
      BY <1>0, <1>1
    <2>2. c[base + (e + 1)] = b[e + 1] /\ c[base + (e + 2)] = b[e + 2]
      BY <1>0, <2>1
    <2>3. base + (e + 1) = base + e + 1 /\ base + (e + 2) = base + e + 2
      BY <1>0, <1>1
    <2> QED BY <1>2, <2>2, <2>3
  <1> DEFINE s == [lo |-> base + e, hi |-> base + m]
             w == [lo |-> base + e + 2, hi |-> base + e + 2 + l]
  <1>5. DhcpOption(c, s) = [typ |-> os[k + 1].typ, val |-> w,
                            next |-> [lo |-> base + e + 2 + l, hi |-> base + m]]
    <2>1. s.lo = base + e /\ s.hi = base + m
      OBVIOUS
    <2>2. ~(s.hi - s.lo < 2) /\ ~(s.hi - s.lo < l + 2)
      BY <1>0, <1>1, <2>1
    <2>3. c[s.lo + 1] = os[k + 1].typ /\ c[s.lo + 2] = l
      BY <1>4, <2>1
    <2> HIDE DEF s
    <2>4. DhcpOption(c, s) = [typ  |-> os[k + 1].typ,
                              val  |-> [lo |-> s.lo + 2, hi |-> s.lo + 2 + l],
                              next |-> [lo |-> s.lo + 2 + l, hi |-> s.hi]]
      BY <1>3, <2>2, <2>3 DEF DhcpOption
    <2> QED BY <2>1, <2>4
  <1>6. bytes(c, w) = v
    <2>1. Len(v) = l
      BY DEF l, v
    <2> DEFINE z == bytes(c, w)
               d == base + e + 2
    <2>2. z = SubSeq(c, d + 1, d + l)
      BY ZenonT(30) DEF bytes
    <2>6. d \in Nat /\ d + l <= Len(c)
      BY <1>9
    <2> HIDE DEF z, w, d
    <2>3. z \in Seq(Byte) /\ Len(z) = l /\ \A x \in 1 .. l : z[x] = c[d + x]
      BY <1>0, <1>9, <2>2, <2>6, SubSeqIs
    <2>4. ASSUME NEW x \in 1 .. l PROVE z[x] = v[x]
      <3>1. e + 2 + x \in 1 .. m /\ base + (e + 2 + x) = d + x
        BY <1>9 DEF d
      <3>2. c[base + (e + 2 + x)] = b[e + 2 + x]
        BY <1>0, <3>1
      <3> QED BY <1>2, <2>3, <3>1, <3>2
    <2>5. z = v
      BY <1>3, <2>1, <2>3, <2>4, SameSeq
    <2> QED BY <2>5 DEF z
  <1>7. base + e + 2 + l = base + ends(os, k + 1)
    BY <1>0, <1>1
  <1> QED BY <1>3, <1>5, <1>6, <1>7 DEF e, v

\* Where there is no further option within the m bytes, it finds none: what is
\* in the buffer after them does not matter.
LEMMA FindsEnd ==
  ASSUME NEW c, NEW base, NEW m, NEW os, NEW b, holds(c, base, m, os, b),
         NEW k \in 0 .. Len(os), ends(os, k) <= m,
         k = Len(os) \/ ends(os, k + 1) > m
  PROVE  DhcpOption(c, [lo |-> base + ends(os, k), hi |-> base + m]).typ = 255
  <1> DEFINE e == ends(os, k)
             s == [lo |-> base + ends(os, k), hi |-> base + m]
  <1>0. /\ c \in Seq(Byte) /\ base \in Nat /\ m \in Nat /\ base + m <= Len(c)
        /\ b \in Seq(Byte) /\ os \in Seq(AnyOption) /\ encodes(os, b) /\ m <= Len(b)
        /\ \A x \in 1 .. m : c[base + x] = b[x]
    BY DEF holds
  <1>1. e \in Nat /\ s.lo = base + e /\ s.hi = base + m
    BY <1>0, EncodedPrefix
  <1>2. CASE m - e < 2
    BY <1>0, <1>1, <1>2 DEF DhcpOption
  <1>3. CASE m - e >= 2
    <2>1. c[s.lo + 1] = b[e + 1] /\ c[s.lo + 2] = b[e + 2]
      <3>1. e + 1 \in 1 .. m /\ e + 2 \in 1 .. m /\ base + (e + 1) = s.lo + 1 /\ base + (e + 2) = s.lo + 2
        BY <1>0, <1>1, <1>3
      <3>2. c[base + (e + 1)] = b[e + 1] /\ c[base + (e + 2)] = b[e + 2]
        BY <1>0, <3>1
      <3> QED BY <3>1, <3>2
    <2>2. b[e + 1] = 255 \/ m - e < b[e + 2] + 2
      <3>1. CASE k # Len(os)
        <4>1. k \in 0 .. Len(os) - 1 /\ ends(os, k + 1) > m
          BY <1>0, <3>1
        <4>2. b[e + 2] = Len(os[k + 1].val)
          BY <1>0, <4>1, EncodesAt
        <4>3. ends(os, k + 1) = e + 2 + Len(os[k + 1].val) /\ Len(os[k + 1].val) \in Nat
          BY <1>0, <4>1, EndsStep
        <4>4. m \in Nat /\ e \in Nat
          BY <1>0, <1>1
        <4> DEFINE y == b[e + 2]
                   q == ends(os, k + 1)
        <4>5. y \in Nat /\ q = e + 2 + y /\ q > m
          BY <4>1, <4>2, <4>3
        <4> HIDE DEF e, y, q
        <4>6. m - e < y + 2
          BY ONLY <4>4, <4>5, SMTT(30), Z3T(30), ZenonT(30)
        <4> QED BY <4>6 DEF y
      <3>2. CASE k = Len(os)
        <4>1. Len(b) < e + 2 \/ b[e + 1] = 255 \/ Len(b) < e + 2 + b[e + 2]
          BY <1>0, <3>2 DEF encodes, encodeAll, ends
        <4>2. b[e + 2] \in Nat /\ Len(b) \in Nat
          <5>1. e + 2 \in 1 .. Len(b)
            BY <1>0, <1>1, <1>3
          <5> QED BY <1>0, <5>1, ByteIsNat
        <4>3. m \in Nat /\ e \in Nat /\ m <= Len(b)
          BY <1>0, <1>1
        <4> HIDE DEF e
        <4> QED BY <1>3, <4>1, <4>2, <4>3
      <3> QED BY <3>1, <3>2
    <2>3. s.hi - s.lo = m - e
      BY <1>0, <1>1
    <2> HIDE DEF s
    <2>4. c[s.lo + 1] = 255 \/ s.hi - s.lo < c[s.lo + 2] + 2
      BY <2>1, <2>2, <2>3
    <2>5. DhcpOption(c, s).typ = 255
      BY <2>4 DEF DhcpOption
    <2> QED BY <2>5 DEF s
  <1> QED BY <1>0, <1>1, <1>2, <1>3

-----------------------------------------------------------------------------
(* A packet in the buffer.                                                 *)

LEMMA PacketIs ==
  ASSUME NEW p \in Packets
  PROVE  /\ p.wire \in Seq(Byte) /\ p.means \in Seq(AnyOption) /\ Len(p.means) \in Nat
         /\ encodes(p.means, p.wire) /\ p.iface \in DOMAIN Interfaces
  BY DhcpAssumption DEF DhcpAssumption, wellFormed, AnyOption

\* Reading a packet leaves its first bytes, as many as fit, at the front.
LEMMA PacketInBuffer ==
  ASSUME NEW p \in Packets, NEW b \in Seq(Byte), Len(b) = BufLen
  PROVE  holds(overwritten(b, p), 0, received(p), p.means, p.wire)
  <1> DEFINE n == received(p)
             c == overwritten(b, p)
             new == SubSeq(p.wire, 1, n)
             old == SubSeq(b, n + 1, BufLen)
  <1>1. n \in Nat /\ n <= BufLen /\ n <= Len(p.wire) /\ BufLen \in Nat
    BY ReceivedFits, DhcpAssumption DEF DhcpAssumption
  <1>2. c \in Seq(Byte) /\ Len(c) = BufLen
    BY OverwrittenIsBuffer
  <1>3. p.wire \in Seq(Byte) /\ p.means \in Seq(AnyOption) /\ encodes(p.means, p.wire)
    BY PacketIs
  <1>4. \A x \in 1 .. n : c[0 + x] = p.wire[x]
    <2>1. c = new \o old
      BY DEF overwritten
    <2> HIDE DEF n, c
    <2>2. new \in Seq(Byte) /\ Len(new) = n /\ \A x \in 1 .. n : new[x] = p.wire[x]
      BY <1>1, <1>3
    <2>3. old \in Seq(Byte)
      BY <1>1
    <2> HIDE DEF new, old
    <2>4. \A x \in 1 .. n : c[x] = new[x]
      BY <2>1, <2>2, <2>3, CatIs
    <2> QED BY <1>1, <2>2, <2>4
  <1> HIDE DEF n, c
  <1>5. 0 + n <= Len(c)
    BY <1>1, <1>2
  <1>6. holds(c, 0, n, p.means, p.wire)
    BY <1>1, <1>2, <1>3, <1>4, <1>5 DEF holds
  <1> QED BY <1>6 DEF n, c

\* Once the next option is not in the buffer as a whole, no later one is.
LEMMA FittingUpTo ==
  ASSUME NEW p \in Packets, NEW k \in 0 .. Len(p.means), ends(p.means, k) <= received(p),
         k = Len(p.means) \/ ends(p.means, k + 1) > received(p)
  PROVE  fitting(p) = 1 .. k
  <1> DEFINE os == p.means
             n == Len(os)
             m == received(p)
  <1>1. os \in Seq(AnyOption) /\ n \in Nat /\ m \in Nat /\ m <= BufLen
    BY PacketIs, ReceivedFits
  <1>2. fitting(p) = {i \in 1 .. n : ends(os, i) <= BufLen}
    BY <1>1 DEF fitting, ends
  <1>3. BufLen \in Nat /\ Len(p.wire) \in Nat /\ (m = BufLen \/ m = Len(p.wire))
    BY DhcpAssumption, PacketIs DEF DhcpAssumption, received
  <1>4. ASSUME NEW i \in 1 .. n PROVE ends(os, i) \in Nat /\ ends(os, i) <= Len(p.wire)
    <2>1. i - 1 \in 0 .. n - 1 /\ (i - 1) + 1 = i /\ i \in i .. n /\ i \in 0 .. n
      BY <1>1
    <2>2. ends(os, i) \in Nat
      BY <1>1, <2>1, EncodedPrefix
    <2>3. ends(os, (i - 1) + 1) <= Len(p.wire)
      BY <2>1, PacketIs, EncodesAt, ZenonT(30)
    <2> QED BY <2>1, <2>2, <2>3
  <1>5. ASSUME NEW i \in 1 .. k PROVE ends(os, i) <= BufLen
    <2>1. i \in 0 .. n /\ k \in i .. n
      BY <1>1
    <2>2. ends(os, i) <= ends(os, k) /\ ends(os, i) \in Nat /\ ends(os, k) \in Nat
      BY <1>1, <2>1, EncodedPrefix
    <2> QED BY <1>1, <1>3, <2>2
  <1>6. ASSUME NEW i \in 1 .. n, i > k PROVE ~(ends(os, i) <= BufLen)
    <2>1. k + 1 \in 0 .. n /\ i \in (k + 1) .. n /\ k # n
      BY <1>1, <1>6
    <2>2. ends(os, k + 1) <= ends(os, i) /\ ends(os, k + 1) \in Nat /\ ends(os, i) \in Nat
      BY <1>1, <2>1, EncodedPrefix
    <2>3. ends(os, i) <= Len(p.wire)
      BY <1>4
    <2>4. ends(os, k + 1) > m
      BY <2>1
    <2> QED BY <1>1, <1>3, <2>2, <2>3, <2>4
  <1> HIDE DEF os, n, m
  <1>7. k \in 0 .. n
    BY DEF n, os
  <1> QED BY <1>1, <1>2, <1>5, <1>6, <1>7

LEMMA IsFitting ==
  ASSUME NEW p \in Packets, NEW i \in 1 .. Len(p.means), ends(p.means, i) <= received(p)
  PROVE  i \in fitting(p)
  <1>1. p.means \in Seq(AnyOption) /\ received(p) \in Nat /\ received(p) <= BufLen /\ BufLen \in Nat
    BY PacketIs, ReceivedFits, DhcpAssumption DEF DhcpAssumption
  <1>2. i \in 0 .. Len(p.means) /\ i \in i .. Len(p.means) /\ i \in DOMAIN p.means
    BY <1>1
  <1>3. ends(p.means, i) \in Nat
    BY <1>1, <1>2, EncodedPrefix
  <1>4. ends(p.means, i) <= BufLen
    BY <1>1, <1>3
  <1> QED BY <1>2, <1>4 DEF fitting, ends

\* Of the options with code t that are in the buffer the i-th one is the last:
\* lastVal is its value.
isLast(p, t, k, i) ==
    /\ k \in Nat /\ fitting(p) = 1 .. k /\ i \in 1 .. k /\ p.means[i].typ = t
    /\ \A j \in i + 1 .. k : p.means[j].typ # t

LEMMA LastValIs ==
  ASSUME NEW p, NEW t, NEW k, NEW i, isLast(p, t, k, i)
  PROVE  lastVal(p, t) = p.means[i].val
  <1>0. /\ k \in Nat /\ fitting(p) = 1 .. k /\ i \in 1 .. k /\ p.means[i].typ = t
        /\ \A j \in i + 1 .. k : p.means[j].typ # t
    BY DEF isLast
  <1> DEFINE W == withTyp(p, t)
             c == CHOOSE x \in W : \A j \in W : j <= x
  <1>1. i \in W /\ W \subseteq 1 .. k
    BY <1>0 DEF withTyp
  <1>2. \A j \in W : j <= i
    BY <1>0 DEF withTyp
  <1> HIDE DEF W
  <1>3. c \in W /\ \A j \in W : j <= c
    BY <1>1, <1>2, ZenonT(30)
  <1> HIDE DEF c
  <1>4. c = i
    <2>1. c \in 1 .. k /\ c <= i /\ i <= c
      BY <1>1, <1>2, <1>3
    <2>2. c \in Nat /\ i \in Nat
      BY <1>0, <2>1
    <2> QED BY ONLY <2>1, <2>2, SMTT(30), Z3T(30), ZenonT(30)
  <1> QED BY <1>4, ZenonT(30) DEF lastVal, W, c

LEMMA MaxIn ==
  ASSUME NEW n \in Nat, NEW T \in SUBSET (1 .. n), T # {}
  PROVE  \E x \in T : \A y \in T : y <= x
  <1> DEFINE U == {d \in Nat : \E x \in T : d = n - x}
  <1>1. U \in SUBSET Nat /\ U # {}
    <2>1. PICK x \in T : x \in 1 .. n
      BY ZenonT(30)
    <2>2. n - x \in U
      BY <2>1
    <2> QED BY <2>2, ZenonT(30)
  <1>2. PICK d \in U : \A c \in U : d <= c
    BY <1>1, NatMin, ZenonT(30)
  <1>3. PICK x \in T : d = n - x
    BY <1>2
  <1>4. ASSUME NEW y \in T PROVE y <= x
    <2>1. y \in 1 .. n /\ x \in 1 .. n
      OBVIOUS
    <2>2. n - y \in U
      BY <2>1
    <2>3. d <= n - y
      BY <1>2, <2>2
    <2> QED BY <1>3, <2>1, <2>3
  <1> QED BY <1>4

\* lastVal is the value of one of the options with its code.
LEMMA LastValIn ==
  ASSUME NEW p \in Packets, NEW t, withTyp(p, t) # {}
  PROVE  \E i \in withTyp(p, t) : lastVal(p, t) = p.means[i].val /\ p.means[i].val \in Seq(Byte)
  <1> DEFINE W == withTyp(p, t)
             c == CHOOSE x \in W : \A j \in W : j <= x
  <1>1. p.means \in Seq(AnyOption) /\ Len(p.means) \in Nat
    BY PacketIs
  <1>2. W \in SUBSET (1 .. Len(p.means))
    BY <1>1 DEF withTyp, fitting
  <1>3. \E x \in W : \A j \in W : j <= x
    <2> HIDE DEF W
    <2> QED BY <1>1, <1>2, MaxIn, ZenonT(30) DEF W
  <1>4. c \in W
    BY <1>3
  <1>5. lastVal(p, t) = p.means[c].val
    BY DEF lastVal
  <1> HIDE DEF c, W
  <1>6. p.means[c] \in AnyOption
    BY <1>1, <1>2, <1>4
  <1>7. p.means[c].val \in Seq(Byte)
    BY <1>6 DEF AnyOption, Option, VendorOption
  <1> QED BY <1>4, <1>5, <1>7 DEF W

LEMMA TailIs ==
  ASSUME NEW v \in Seq(Byte), NEW n \in Nat, Len(v) = n + 1
  PROVE  /\ SubSeq(v, 2, n + 1) \in Seq(Byte) /\ Len(SubSeq(v, 2, n + 1)) = n
         /\ \A x \in 1 .. n : SubSeq(v, 2, n + 1)[x] = v[1 + x]
  OBVIOUS

LEMMA GuidIn ==
  ASSUME NEW v \in Seq(Byte), Len(v) = 17
  PROVE  /\ SubSeq(v, 2, 17) \in Seq(Byte) /\ Len(SubSeq(v, 2, 17)) = 16
         /\ \A x \in 1 .. 16 : SubSeq(v, 2, 17)[x] = v[1 + x]
  <1>1. PICK n \in Nat : n = 16
    OBVIOUS
  <1>2. Len(v) = n + 1
    BY <1>1
  <1>3. /\ SubSeq(v, 2, n + 1) \in Seq(Byte) /\ Len(SubSeq(v, 2, n + 1)) = n
        /\ \A x \in 1 .. n : SubSeq(v, 2, n + 1)[x] = v[1 + x]
    BY <1>2, TailIs, ZenonT(30)
  <1>4. n + 1 = 17
    BY <1>1
  <1> QED BY <1>1, <1>3, <1>4

\* A GUID is its option's value without the first byte.
LEMMA GuidBytes ==
  ASSUME NEW b \in Seq(Byte), NEW d \in Nat, d + 17 <= Len(b)
  PROVE  LET g == bytes(b, [lo |-> d + 1, hi |-> d + 17])
             v == bytes(b, [lo |-> d, hi |-> d + 17])
         IN  g = SubSeq(v, 2, 17) /\ g \in Seq(Byte) /\ Len(g) = 16
  <1> DEFINE v == SubSeq(b, d + 1, d + 17)
             g == SubSeq(b, d + 1 + 1, d + 17)
             u == SubSeq(v, 2, 17)
  <1>1. v \in Seq(Byte) /\ Len(v) = 17 /\ \A x \in 1 .. 17 : v[x] = b[d + x]
    OBVIOUS
  <1>2. g \in Seq(Byte) /\ Len(g) = 16 /\ \A x \in 1 .. 16 : g[x] = b[d + 1 + x]
    OBVIOUS
  <1>3. u \in Seq(Byte) /\ Len(u) = 16 /\ \A x \in 1 .. 16 : u[x] = v[1 + x]
    BY <1>1, GuidIn, ZenonT(30)
  <1> HIDE DEF u, g, v
  <1>4. ASSUME NEW x \in 1 .. 16 PROVE g[x] = u[x]
    <2>1. 1 + x \in 1 .. 17 /\ d + (1 + x) = d + 1 + x
      OBVIOUS
    <2> QED BY <1>1, <1>2, <1>3, <2>1, ZenonT(30)
  <1>5. g = u
    BY <1>2, <1>3, <1>4, SameSeq, ZenonT(30)
  <1> QED BY <1>2, <1>5 DEF bytes, u, v, g

LEMMA GuidWhole ==
  ASSUME NEW u \in Seq(Byte), Len(u) = 17, u[1] = 0
  PROVE  <<0>> \o SubSeq(u, 2, 17) = u
  <1> DEFINE g == SubSeq(u, 2, 17)
             y == <<0>>
             z == y \o g
  <1>1. g \in Seq(Byte) /\ Len(g) = 16 /\ \A x \in 1 .. 16 : g[x] = u[1 + x]
    BY GuidIn
  <1> HIDE DEF g
  <1>2. z \in Seq(Byte) /\ Len(z) = 17 /\ z[1] = 0 /\ \A x \in 1 .. 16 : z[1 + x] = g[x]
    <2>1. y \in Seq(Byte) /\ Len(y) = 1 /\ y[1] = 0
      BY DEF Byte
    <2> HIDE DEF y
    <2>2. /\ z \in Seq(Byte) /\ Len(z) = Len(y) + Len(g)
          /\ \A x \in 1 .. Len(y) : z[x] = y[x]
          /\ \A x \in 1 .. Len(g) : z[Len(y) + x] = g[x]
      <3>1. y \in Seq(Byte) /\ g \in Seq(Byte)
        BY <1>1, <2>1
      <3> QED BY <3>1, CatIs
    <2> HIDE DEF z
    <2> QED BY <1>1, <2>1, <2>2
  <1> HIDE DEF z
  <1>3. ASSUME NEW x \in 1 .. 17 PROVE z[x] = u[x]
    <2>1. CASE x = 1
      BY <1>2, <2>1
    <2>2. CASE x # 1
      <3>1. x - 1 \in 1 .. 16 /\ 1 + (x - 1) = x
        BY <2>2
      <3> QED BY <1>1, <1>2, <3>1
    <2> QED BY <2>1, <2>2
  <1>4. z = u
    BY <1>2, <1>3, SameSeq, ZenonT(30)
  <1> QED BY <1>4 DEF z, y, g

\* Among the first k options, g is in the last one with a GUID.
lastGuid(os, k, g) ==
    \E i \in 1 .. k : /\ os[i].typ = 97 /\ g = SubSeq(os[i].val, 2, 17)
                      /\ \A j \in i + 1 .. k : os[j].typ # 97

LEMMA LastGuidKept ==
  ASSUME NEW os, NEW k \in Nat, NEW g, lastGuid(os, k, g), os[k + 1].typ # 97
  PROVE  lastGuid(os, k + 1, g)
  <1>1. PICK i \in 1 .. k : /\ os[i].typ = 97 /\ g = SubSeq(os[i].val, 2, 17)
                            /\ \A j \in i + 1 .. k : os[j].typ # 97
    BY DEF lastGuid
  <1>2. i \in 1 .. k + 1 /\ \A j \in i + 1 .. k + 1 : os[j].typ # 97
    BY <1>1
  <1> QED BY <1>1, <1>2 DEF lastGuid

LEMMA LastGuidNew ==
  ASSUME NEW os, NEW k \in Nat, os[k + 1].typ = 97
  PROVE  lastGuid(os, k + 1, SubSeq(os[k + 1].val, 2, 17))
  <1>1. k + 1 \in 1 .. k + 1 /\ \A j \in k + 1 + 1 .. k + 1 : os[j].typ # 97
    OBVIOUS
  <1> QED BY <1>1 DEF lastGuid

\* Of the packet p the first k options are in the buffer, and g is the GUID
\* in the last one of them that has any.
keeps(p, k, g) == p \in Packets /\ k \in Nat /\ fitting(p) = 1 .. k /\ lastGuid(p.means, k, g)

LEMMA LastGuidIs ==
  ASSUME NEW p, NEW k, NEW g, keeps(p, k, g)
  PROVE  g = SubSeq(lastVal(p, 97), 2, 17) /\ \E i \in 1 .. k : p.means[i].typ = 97
  <1>0. p \in Packets /\ k \in Nat /\ fitting(p) = 1 .. k /\ lastGuid(p.means, k, g)
    BY DEF keeps
  <1>1. PICK i \in 1 .. k : /\ p.means[i].typ = 97 /\ g = SubSeq(p.means[i].val, 2, 17)
                            /\ \A j \in i + 1 .. k : p.means[j].typ # 97
    BY <1>0, ZenonT(30) DEF lastGuid
  <1>2. lastVal(p, 97) = p.means[i].val
    <2>1. isLast(p, 97, k, i)
      BY <1>0, <1>1 DEF isLast
    <2> QED BY <2>1, LastValIs
  <1> QED BY <1>1, <1>2, ZenonT(30)

\* What DhcpOption gives a loop that has k options of p behind it: the next
\* option the packet means, or the end when c has no further one as a whole.
finds(p, c, k, o) ==
    \/ o.typ = 255 /\ fitting(p) = 1 .. k
    \/ /\ k + 1 \in 1 .. Len(p.means) /\ k + 1 \in fitting(p)
       /\ o.typ = p.means[k + 1].typ /\ o.typ # 255
       /\ bytes(c, o.val) = p.means[k + 1].val
       /\ o.val = [lo |-> ends(p.means, k) + 2, hi |-> ends(p.means, k + 1)]
       /\ o.next = [lo |-> ends(p.means, k + 1), hi |-> received(p)]
       /\ ends(p.means, k + 1) <= received(p)

LEMMA NextOption ==
  ASSUME NEW p \in Packets, NEW c, holds(c, 0, received(p), p.means, p.wire),
         NEW k \in 0 .. Len(p.means), ends(p.means, k) <= received(p),
         NEW s, s = [lo |-> ends(p.means, k), hi |-> received(p)]
  PROVE  finds(p, c, k, DhcpOption(c, s))
  <1> DEFINE os == p.means
             n == Len(p.means)
             m == received(p)
             o == DhcpOption(c, s)
  <1>3. os \in Seq(AnyOption) /\ n \in Nat /\ m \in Nat
    BY PacketIs, ReceivedFits
  <1>5. ends(os, k) \in Nat
    BY <1>3, EncodedPrefix
  <1>6. s = [lo |-> 0 + ends(os, k), hi |-> 0 + m]
    BY <1>3, <1>5
  <1>7. CASE k = n \/ ends(os, k + 1) > m
    <2>1. o.typ = 255
      BY <1>6, <1>7, FindsEnd
    <2>2. fitting(p) = 1 .. k
      BY <1>7, FittingUpTo
    <2> QED BY <2>1, <2>2 DEF finds
  <1>8. CASE ~(k = n \/ ends(os, k + 1) > m)
    <2>1. k \in 0 .. n - 1 /\ k + 1 \in 1 .. n /\ k + 1 \in 0 .. n /\ k + 1 \in (k + 1) .. n
      BY <1>3, <1>8
    <2>2. ends(os, k + 1) \in Nat
      BY <1>3, <2>1, EncodedPrefix
    <2>3. ends(os, k + 1) <= m
      BY <1>3, <1>8, <2>2
    <2>4. /\ o.typ = os[k + 1].typ /\ o.typ # 255
          /\ o.val = [lo |-> 0 + ends(os, k) + 2, hi |-> 0 + ends(os, k + 1)]
          /\ o.next = [lo |-> 0 + ends(os, k + 1), hi |-> 0 + m]
          /\ bytes(c, o.val) = os[k + 1].val
      BY <1>6, <2>1, <2>3, FindsOption
    <2>5. k + 1 \in fitting(p)
      BY <2>1, <2>3, IsFitting
    <2>6. 0 + ends(os, k) + 2 = ends(os, k) + 2 /\ 0 + ends(os, k + 1) = ends(os, k + 1) /\ 0 + m = m
      BY <1>3, <1>5, <2>2
    <2> QED BY <2>1, <2>3, <2>4, <2>5, <2>6 DEF finds
  <1> QED BY <1>7, <1>8

\* The slice g a loop takes for the GUID in a well-formed option o.
takes(p, c, k, o, g) ==
    /\ p \in Packets /\ holds(c, 0, received(p), p.means, p.wire)
    /\ k \in 0 .. Len(p.means) /\ finds(p, c, k, o) /\ o.typ # 255
    /\ Len(bytes(c, o.val)) = 17 /\ g = [lo |-> o.val.lo + 1, hi |-> o.val.hi]

LEMMA GuidFound ==
  ASSUME NEW p, NEW c, NEW k, NEW o, NEW g, takes(p, c, k, o, g)
  PROVE  g # nil /\ bytes(c, g) = SubSeq(p.means[k + 1].val, 2, 17)
  <1> USE DEF takes
  <1> DEFINE os == p.means
             d == ends(os, k) + 2
  <1>1. /\ k + 1 \in 1 .. Len(os) /\ bytes(c, o.val) = os[k + 1].val
        /\ o.val = [lo |-> ends(os, k) + 2, hi |-> ends(os, k + 1)]
        /\ ends(os, k + 1) <= received(p)
    BY DEF finds
  <1>2. os \in Seq(AnyOption) /\ Len(os) \in Nat
    BY PacketIs
  <1>3. k \in 0 .. Len(os) - 1
    BY <1>1, <1>2
  <1>4. ends(os, k) \in Nat /\ ends(os, k + 1) = ends(os, k) + 2 + Len(os[k + 1].val)
    BY <1>2, <1>3, EndsStep
  <1>5. d \in Nat /\ d + 17 = ends(os, k + 1)
    <2>1. Len(os[k + 1].val) = 17
      BY <1>1
    <2> HIDE DEF os
    <2> QED BY <1>4, <2>1
  <1>6. c \in Seq(Byte) /\ Len(c) \in Nat /\ d + 17 <= Len(c)
    <2>1. c \in Seq(Byte) /\ received(p) \in Nat /\ 0 + received(p) <= Len(c)
      BY DEF holds
    <2> QED BY <1>1, <1>5, <2>1
  <1>7. o.val = [lo |-> d, hi |-> d + 17] /\ g = [lo |-> d + 1, hi |-> d + 17]
    BY <1>1, <1>5
  <1> HIDE DEF d
  <1>8. bytes(c, g) = SubSeq(bytes(c, o.val), 2, 17)
    <2>1. bytes(c, [lo |-> d + 1, hi |-> d + 17]) = SubSeq(bytes(c, [lo |-> d, hi |-> d + 17]), 2, 17)
      BY <1>5, <1>6, GuidBytes
    <2> QED BY <1>7, <2>1
  <1>9. g # nil
    BY <1>5, <1>7 DEF nil
  <1> QED BY <1>1, <1>8, <1>9, ZenonT(30)

-----------------------------------------------------------------------------
(* The address a server gives for itself.                                  *)

LEMMA MinIs ==
  ASSUME NEW T \in SUBSET Nat, T # {}
  PROVE  Min(T) \in T /\ \A y \in T : Min(T) <= y
  <1>1. \E x \in T : \A y \in T : x <= y
    BY NatMin
  <1> QED BY <1>1, ZenonT(30) DEF Min

\* One of kind a.scope is the best of the addresses with these scopes.
bestOf(scope, scopes) ==
    \/ scope = "global"
    \/ scope = "link-local" /\ "global" \notin scopes
    \/ scope = "loopback" /\ scopes \subseteq {"loopback", "other"}

\* InterfaceIP returns a usable address of the interface, of the best kind that
\* the interface has, wherever it is among its addresses.
LEMMA BestAddress ==
  ASSUME NEW addrs \in Seq(Address), InterfaceIP(addrs) # NoIP
  PROVE  \E a \in {a \in Range(addrs) : usable(a)} :
            /\ a.ip = InterfaceIP(addrs) /\ a.ip \in Seq(Byte) /\ Len(a.ip) = 4
            /\ bestOf(a.scope, {c.scope : c \in {c \in Range(addrs) : usable(c)}})
  <1> DEFINE of(f) == {i \in DOMAIN addrs : usable(addrs[i]) /\ addrs[i].scope = prefer[f]}
             fs == {f \in DOMAIN prefer : of(f) # {}}
             U == {c \in Range(addrs) : usable(c)}
  <1>1. fs # {} /\ InterfaceIP(addrs) = addrs[Min(of(Min(fs)))].ip
    BY DEF InterfaceIP
  <1>2. DOMAIN prefer = 1 .. 3 /\ prefer[1] = "global" /\ prefer[2] = "link-local" /\ prefer[3] = "loopback"
    BY DEF prefer
  <1>3. fs \in SUBSET Nat /\ fs \subseteq 1 .. 3
    BY <1>2
  <1>4. Min(fs) \in fs /\ \A f \in fs : Min(fs) <= f
    <2> HIDE DEF fs
    <2> QED BY <1>1, <1>3, MinIs
  <1>5. PICK f \in fs : f = Min(fs)
    BY <1>4, ZenonT(30)
  <1>6. of(f) # {} /\ of(f) \in SUBSET Nat
    BY <1>5
  <1>7. Min(of(f)) \in of(f)
    <2> HIDE DEF of
    <2> QED BY <1>6, MinIs
  <1>8. PICK i \in DOMAIN addrs : /\ usable(addrs[i]) /\ addrs[i].scope = prefer[f]
                                  /\ InterfaceIP(addrs) = addrs[i].ip
    BY <1>1, <1>5, <1>7, ZenonT(30)
  <1>9. addrs[i] \in U
    BY <1>8 DEF Range
  <1>10. ASSUME NEW g \in 1 .. 3, g < f PROVE prefer[g] \notin {c.scope : c \in U}
    <2>1. g \notin fs
      <3> HIDE DEF fs
      <3>1. f \in Nat /\ \A h \in fs : f <= h
        BY <1>3, <1>4, <1>5
      <3> QED BY <1>10, <3>1
    <2>2. of(g) = {}
      BY <1>2, <2>1
    <2> QED BY <2>2 DEF Range
  <1>11. \A c \in U : c.scope \in {"global", "link-local", "loopback", "other"}
    BY DEF Range, Address
  <1>12. bestOf(addrs[i].scope, {c.scope : c \in U})
    <2>1. f \in {1, 2, 3}
      BY <1>3, <1>5
    <2>2. CASE f = 1
      BY <1>2, <1>8, <2>2 DEF bestOf
    <2>3. CASE f = 2
      <3>1. "global" \notin {c.scope : c \in U}
        BY <1>2, <1>10, <2>3
      <3> QED BY <1>2, <1>8, <2>3, <3>1 DEF bestOf
    <2>4. CASE f = 3
      <3>1. "global" \notin {c.scope : c \in U} /\ "link-local" \notin {c.scope : c \in U}
        BY <1>2, <1>10, <2>4
      <3>2. {c.scope : c \in U} \subseteq {"loopback", "other"}
        BY <1>11, <3>1
      <3> QED BY <1>2, <1>8, <2>4, <3>2, ZenonT(30) DEF bestOf
    <2> QED BY <2>1, <2>2, <2>3, <2>4
  <1>13. addrs[i].ip \in Seq(Byte) /\ Len(addrs[i].ip) = 4
    BY <1>8 DEF usable, Address
  <1> QED BY <1>8, <1>9, <1>12, <1>13, ZenonT(30)

-----------------------------------------------------------------------------
(* How a reply is read.                                                    *)

\* The equation of decoded.
decodeStep(f, b, i) ==
    IF i > Len(b) THEN <<Malformed>>
    ELSE IF b[i] = 255 THEN <<>>
    ELSE IF i = Len(b) THEN <<Malformed>>
    ELSE IF i + 1 + b[i + 1] > Len(b) THEN <<Malformed>>
    ELSE <<[typ |-> b[i], val |-> SubSeq(b, i + 2, i + 1 + b[i + 1])]>> \o f[i + 2 + b[i + 1]]

\* decoded is defined: there is a function that satisfies its equation.
LEMMA DecodedDefined ==
  ASSUME NEW b \in Seq(Byte)
  PROVE  \A i \in 1 .. Len(b) + 1 : decoded(b)[i] = decodeStep(decoded(b), b, i)
  <1> DEFINE n == Len(b)
             body(f, i) == decodeStep(f, b, i)
             T == {k \in 0 .. n : \E f : \A i \in n + 1 - k .. n + 1 : f[i] = body(f, i)}
  <1>0. n \in Nat
    OBVIOUS
  <1>1. \A i \in 1 .. n : b[i] \in Nat
    BY ByteIsNat
  <1>2. ASSUME NEW f, NEW g, NEW k \in 1 .. n + 1, NEW i \in k .. n + 1,
               \A j \in k + 1 .. n + 1 : f[j] = g[j]
        PROVE  body(f, i) = body(g, i)
    <2>1. CASE i >= n
      BY <1>0, <2>1 DEF decodeStep
    <2>2. CASE i < n /\ i + 1 + b[i + 1] > n
      BY <1>0, <2>2 DEF decodeStep
    <2>3. CASE i < n /\ ~(i + 1 + b[i + 1] > n)
      <3>1. b[i + 1] \in Nat
        BY <1>0, <1>1, <2>3
      <3>2. i + 2 + b[i + 1] \in k + 1 .. n + 1
        BY <1>0, <2>3, <3>1
      <3>3. f[i + 2 + b[i + 1]] = g[i + 2 + b[i + 1]]
        BY <1>2, <3>2
      <3> QED BY <3>3 DEF decodeStep
    <2> QED BY <1>0, <2>1, <2>2, <2>3
  <1> HIDE DEF body
  <1>3. 0 \in T
    <2> DEFINE f == [i \in {n + 1} |-> <<Malformed>>]
    <2>1. \A i \in n + 1 - 0 .. n + 1 : f[i] = body(f, i)
      BY <1>0 DEF body, decodeStep
    <2> HIDE DEF f
    <2>2. 0 \in 0 .. n /\ \E h : \A i \in n + 1 - 0 .. n + 1 : h[i] = body(h, i)
      BY <1>0, <2>1
    <2> QED BY <2>2
  <1>4. ASSUME NEW k \in 0 .. n - 1, k \in T PROVE k + 1 \in T
    <2>1. PICK f : \A i \in n + 1 - k .. n + 1 : f[i] = body(f, i)
      BY <1>4
    <2>2. PICK m \in 1 .. n : m = n + 1 - (k + 1) /\ m + 1 = n + 1 - k
      BY <1>0
    <2> DEFINE g == [i \in m .. n + 1 |-> IF i = m THEN body(f, m) ELSE f[i]]
    <2>3. \A j \in m + 1 .. n + 1 : f[j] = g[j]
      BY <1>0, <2>2
    <2>4. ASSUME NEW i \in m .. n + 1 PROVE g[i] = body(g, i)
      <3>1. body(f, i) = body(g, i)
        <4>1. m \in 1 .. n + 1
          BY <1>0
        <4> HIDE DEF g
        <4> QED BY <1>2, <2>3, <4>1
      <3>2. g[i] = body(f, i)
        BY <1>0, <2>1, <2>2
      <3> QED BY <3>1, <3>2
    <2> HIDE DEF g
    <2>5. \E h : \A i \in n + 1 - (k + 1) .. n + 1 : h[i] = body(h, i)
      BY <2>2, <2>4
    <2>6. k + 1 \in 0 .. n
      BY <1>0
    <2> QED BY <2>5, <2>6
  <1>5. n \in T
    <2>1. n \in 0 .. n
      BY <1>0
    <2> HIDE DEF T, n
    <2> QED BY <1>0, <1>3, <1>4, <2>1, UpTo, ZenonT(30)
  <1>6. PICK f : \A i \in 1 .. n + 1 : f[i] = body(f, i)
    <2>1. n + 1 - n = 1
      BY <1>0
    <2> QED BY <1>5, <2>1
  <1> DEFINE g == [i \in 1 .. n + 1 |-> f[i]]
  <1>7. g = [i \in 1 .. n + 1 |-> body(g, i)]
    <2>1. ASSUME NEW i \in 1 .. n + 1 PROVE g[i] = body(g, i)
      <3>1. 1 \in 1 .. n + 1 /\ \A j \in 1 + 1 .. n + 1 : f[j] = g[j]
        BY <1>0
      <3>2. body(f, i) = body(g, i)
        BY <1>2, <3>1
      <3> QED BY <1>6, <3>2
    <2> QED BY <2>1
  <1> HIDE DEF g
  <1>8. decoded(b) = [i \in 1 .. n + 1 |-> body(decoded(b), i)]
    <2>1. \E h : h = [i \in 1 .. n + 1 |-> body(h, i)]
      BY <1>7
    <2> QED BY <2>1, Zenon DEF decoded, decodeStep, body, n
  <1>9. \A i \in 1 .. n + 1 : decoded(b)[i] = body(decoded(b), i)
    BY <1>8
  <1> QED BY <1>9 DEF body

\* After its first i bytes, b has an option with value v.
optionAt(b, i, v) ==
    /\ b \in Seq(Byte) /\ i \in Nat /\ v \in Seq(Byte)
    /\ b[i + 1] # 255 /\ b[i + 2] = Len(v) /\ i + 2 + Len(v) <= Len(b)
    /\ \A x \in 1 .. Len(v) : b[i + 2 + x] = v[x]

\* An option that is written with its right length is read as it was meant.
LEMMA ReadsOption ==
  ASSUME NEW b, NEW i, NEW v, optionAt(b, i, v)
  PROVE  decoded(b)[i + 1] = <<[typ |-> b[i + 1], val |-> v]>> \o decoded(b)[i + 3 + Len(v)]
  <1>0. /\ b \in Seq(Byte) /\ i \in Nat /\ v \in Seq(Byte)
        /\ b[i + 1] # 255 /\ b[i + 2] = Len(v) /\ i + 2 + Len(v) <= Len(b)
        /\ \A x \in 1 .. Len(v) : b[i + 2 + x] = v[x]
    BY DEF optionAt
  <1> DEFINE d == i + 2
             l == Len(v)
             w == SubSeq(b, d + 1, d + l)
  <1>1. l \in Nat /\ d \in Nat /\ Len(b) \in Nat
    BY <1>0
  <1>2. w = v
    <2>1. w \in Seq(Byte) /\ Len(w) = l /\ \A x \in 1 .. l : w[x] = b[d + x]
      <3>1. d + l <= Len(b) /\ w = SubSeq(b, d + 1, d + l)
        BY <1>0
      <3> HIDE DEF d, l, w
      <3> QED BY <1>0, <1>1, <3>1, SubSeqIs
    <2> HIDE DEF w
    <2> QED BY <1>0, <2>1, SameSeq
  <1> DEFINE k == i + 1
  <1>3. /\ k \in 1 .. Len(b) + 1 /\ ~(k > Len(b)) /\ k # Len(b) /\ k + 1 = i + 2
        /\ ~(k + 1 + l > Len(b)) /\ k + 2 = d + 1 /\ k + 1 + l = d + l /\ k + 2 + l = i + 3 + l
    BY <1>0, <1>1
  <1>4. decoded(b)[k] = decodeStep(decoded(b), b, k)
    BY <1>0, <1>3, DecodedDefined
  <1>5. b[k] # 255 /\ b[k + 1] = l
    BY <1>0, <1>3
  <1> HIDE DEF k, l, d
  <1>6. decoded(b)[k] = <<[typ |-> b[k], val |-> SubSeq(b, k + 2, k + 1 + l)]>> \o decoded(b)[k + 2 + l]
    BY <1>3, <1>4, <1>5 DEF decodeStep
  <1>7. SubSeq(b, k + 2, k + 1 + l) = v
    BY <1>2, <1>3
  <1>8. decoded(b)[k] = <<[typ |-> b[k], val |-> v]>> \o decoded(b)[i + 3 + l]
    BY <1>3, <1>6, <1>7, ZenonT(30)
  <1> QED BY <1>8 DEF k, l

LEMMA ReadsEnd ==
  ASSUME NEW b \in Seq(Byte), NEW i \in Nat, i < Len(b), b[i + 1] = 255
  PROVE  decoded(b)[i + 1] = <<>>
  <1>1. i + 1 \in 1 .. Len(b) + 1 /\ ~(i + 1 > Len(b))
    OBVIOUS
  <1>2. decoded(b)[i + 1] = decodeStep(decoded(b), b, i + 1)
    BY <1>1, DecodedDefined
  <1> QED BY <1>1, <1>2 DEF decodeStep

\* The bytes h are in b after the first i.
piece(b, i, h) ==
    /\ b \in Seq(Byte) /\ h \in Seq(Byte) /\ i \in Nat /\ i + Len(h) <= Len(b)
    /\ \A x \in 1 .. Len(h) : b[i + x] = h[x]

LEMMA WholePiece ==
  ASSUME NEW b \in Seq(Byte)
  PROVE  piece(b, 0, b)
  BY DEF piece

\* The pieces of a concatenation.
LEMMA CutPiece ==
  ASSUME NEW b, NEW i, NEW s \in Seq(Byte), NEW t \in Seq(Byte), piece(b, i, s \o t)
  PROVE  piece(b, i, s) /\ piece(b, i + Len(s), t)
  <1>1. /\ b \in Seq(Byte) /\ i \in Nat /\ i + Len(s \o t) <= Len(b)
        /\ \A x \in 1 .. Len(s \o t) : b[i + x] = (s \o t)[x]
    BY DEF piece
  <1>2. /\ Len(s) \in Nat /\ Len(t) \in Nat /\ Len(s \o t) = Len(s) + Len(t)
        /\ \A x \in 1 .. Len(s) : (s \o t)[x] = s[x]
        /\ \A x \in 1 .. Len(t) : (s \o t)[Len(s) + x] = t[x]
    BY CatIs
  <1>3. Len(b) \in Nat
    BY <1>1
  <1>4. ASSUME NEW x \in 1 .. Len(s) PROVE b[i + x] = s[x]
    <2>1. x \in 1 .. Len(s \o t)
      BY <1>2
    <2> QED BY <1>1, <1>2, <2>1
  <1>5. ASSUME NEW x \in 1 .. Len(t) PROVE b[i + Len(s) + x] = t[x]
    <2>1. Len(s) + x \in 1 .. Len(s \o t) /\ i + (Len(s) + x) = i + Len(s) + x
      BY <1>1, <1>2
    <2>2. b[i + (Len(s) + x)] = (s \o t)[Len(s) + x]
      BY <1>1, <2>1
    <2> QED BY <1>2, <2>1, <2>2
  <1>6. i + Len(s) <= Len(b) /\ i + Len(s) \in Nat /\ (i + Len(s)) + Len(t) <= Len(b)
    BY <1>1, <1>2, <1>3
  <1> QED BY <1>1, <1>4, <1>5, <1>6 DEF piece

\* An option written as a head h, which has the code t, the length l and the
\* first bytes c of the value, and the rest w of the value.
writes(b, i, h, t, l, c, w) ==
    /\ piece(b, i, h) /\ piece(b, i + Len(h), w)
    /\ c \in Seq(Byte) /\ Len(h) = 2 + Len(c) /\ h[1] = t /\ h[2] = l
    /\ \A x \in 1 .. Len(c) : h[2 + x] = c[x]
    /\ t \in Int /\ t # 255 /\ l = Len(c) + Len(w)

\* From byte i + 1 on, the option with code t and value v is read, and then
\* what is read from byte n on.
follows(b, i, t, v, n) == decoded(b)[i + 1] = <<[typ |-> t, val |-> v]>> \o decoded(b)[n]

LEMMA ReadsPieces ==
  ASSUME NEW b, NEW i, NEW h, NEW t, NEW l, NEW c, NEW w, writes(b, i, h, t, l, c, w)
  PROVE  follows(b, i, t, c \o w, i + 3 + l)
  <1>1. /\ b \in Seq(Byte) /\ h \in Seq(Byte) /\ w \in Seq(Byte) /\ i \in Nat
        /\ \A x \in 1 .. Len(h) : b[i + x] = h[x]
        /\ (i + Len(h)) + Len(w) <= Len(b)
        /\ \A x \in 1 .. Len(w) : b[(i + Len(h)) + x] = w[x]
        /\ c \in Seq(Byte) /\ Len(h) = 2 + Len(c) /\ h[1] = t /\ h[2] = l
        /\ \A x \in 1 .. Len(c) : h[2 + x] = c[x]
        /\ t # 255 /\ l = Len(c) + Len(w)
    BY DEF piece, writes
  <1>2. /\ Len(c) \in Nat /\ Len(w) \in Nat /\ l \in Nat /\ Len(h) = 2 + Len(c)
        /\ h[1] = t /\ h[2] = l /\ \A x \in 1 .. Len(c) : h[2 + x] = c[x]
    BY <1>1
  <1> DEFINE v == c \o w
  <1>3. /\ v \in Seq(Byte) /\ Len(v) = l
        /\ \A x \in 1 .. Len(c) : v[x] = c[x]
        /\ \A x \in 1 .. Len(w) : v[Len(c) + x] = w[x]
    BY <1>1, <1>2, CatIs
  <1> HIDE DEF v
  <1>4. b[i + 1] = t /\ b[i + 2] = l
    BY <1>1, <1>2
  <1>5. ASSUME NEW x \in 1 .. l PROVE b[i + 2 + x] = v[x]
    <2>1. CASE x <= Len(c)
      <3>1. x \in 1 .. Len(c) /\ 2 + x \in 1 .. Len(h) /\ i + (2 + x) = i + 2 + x
        BY <1>1, <1>2, <2>1
      <3>2. b[i + (2 + x)] = h[2 + x]
        BY <1>1, <3>1
      <3> QED BY <1>2, <1>3, <3>1, <3>2
    <2>2. CASE x > Len(c)
      <3> DEFINE y == x - Len(c)
      <3>1. y \in 1 .. Len(w) /\ x = Len(c) + y
        BY <1>1, <1>2, <2>2
      <3>2. (i + Len(h)) + y = i + 2 + x
        BY <1>1, <1>2
      <3> HIDE DEF y
      <3>3. b[(i + Len(h)) + y] = w[y]
        BY <1>1, <3>1
      <3>4. v[Len(c) + y] = w[y]
        BY <1>3, <3>1
      <3> QED BY <3>1, <3>2, <3>3, <3>4
    <2> QED BY <1>2, <2>1, <2>2
  <1>6. Len(b) \in Nat /\ i + 2 + l <= Len(b)
    BY <1>1, <1>2
  <1>7. decoded(b)[i + 1] = <<[typ |-> b[i + 1], val |-> v]>> \o decoded(b)[i + 3 + Len(v)]
    <2>1. /\ b[i + 1] # 255 /\ b[i + 2] = Len(v) /\ i + 2 + Len(v) <= Len(b)
          /\ \A x \in 1 .. Len(v) : b[i + 2 + x] = v[x]
      BY <1>1, <1>3, <1>4, <1>5, <1>6
    <2>2. b \in Seq(Byte) /\ i \in Nat /\ v \in Seq(Byte)
      BY <1>1, <1>3
    <2>3. optionAt(b, i, v)
      BY <2>1, <2>2 DEF optionAt
    <2> QED BY <2>3, ReadsOption
  <1> QED BY <1>3, <1>4, <1>7 DEF v, follows

\* The options os have exactly the codes T, and the values F gives these.
reads(os, T, F) ==
    /\ os \in Seq([typ : Int, val : Seq(Byte)])
    /\ codes(os) = T
    /\ \A i \in DOMAIN os : os[i].val = F[os[i].typ]

LEMMA ReadsNone == \A F : reads(<<>>, {}, F)
  BY DEF reads, codes

LEMMA ReadsValue ==
  ASSUME NEW os, NEW T, NEW F, reads(os, T, F), NEW t \in T
  PROVE  valueOf(os, t) = F[t]
  <1> DEFINE c == CHOOSE i \in DOMAIN os : os[i].typ = t
  <1>1. \E i \in DOMAIN os : os[i].typ = t
    BY DEF reads, codes
  <1>2. c \in DOMAIN os /\ os[c].typ = t
    BY <1>1
  <1> HIDE DEF c
  <1>3. os[c].val = F[t]
    BY <1>2 DEF reads
  <1> QED BY <1>3 DEF valueOf, c

LEMMA ReadsOneMore ==
  ASSUME NEW os, NEW T, NEW F, reads(os, T, F), NEW t \in Int, F[t] \in Seq(Byte)
  PROVE  reads(<<[typ |-> t, val |-> F[t]]>> \o os, T \cup {t}, F)
  <1> DEFINE D == [typ : Int, val : Seq(Byte)]
             r == [typ |-> t, val |-> F[t]]
             q == <<r>> \o os
  <1>1. r \in D /\ os \in Seq(D) /\ r.typ = t /\ r.val = F[t]
    BY DEF reads
  <1> HIDE DEF D, r
  <1>2. /\ q \in Seq(D) /\ Len(os) \in Nat /\ Len(q) = 1 + Len(os) /\ q[1] = r
        /\ \A x \in 1 .. Len(os) : q[1 + x] = os[x]
    BY <1>1
  <1> HIDE DEF q
  <1>3. DOMAIN q = 1 .. Len(q) /\ DOMAIN os = 1 .. Len(os)
    BY <1>1, <1>2
  <1>4. ASSUME NEW x \in DOMAIN q
        PROVE  x = 1 \/ \E y \in DOMAIN os : x = 1 + y
    <2>1. CASE x # 1
      <3>1. x - 1 \in DOMAIN os /\ x = 1 + (x - 1)
        BY <1>2, <1>3, <2>1
      <3> QED BY <3>1
    <2> QED BY <2>1
  <1>5. 1 \in DOMAIN q /\ \A y \in DOMAIN os : 1 + y \in DOMAIN q
    BY <1>2, <1>3
  <1>6. ASSUME NEW x \in DOMAIN q PROVE q[x].val = F[q[x].typ] /\ q[x].typ \in T \cup {t}
    <2>1. CASE x = 1
      BY <1>1, <1>2, <2>1
    <2>2. ASSUME NEW y \in DOMAIN os, x = 1 + y PROVE q[x].val = F[q[x].typ] /\ q[x].typ \in T
      <3>1. q[x] = os[y]
        BY <1>2, <1>3, <2>2
      <3>2. os[y].val = F[os[y].typ] /\ os[y].typ \in T
        BY <2>2 DEF reads, codes
      <3> QED BY <3>1, <3>2
    <2> QED BY <1>4, <2>1, <2>2
  <1>7. codes(q) = T \cup {t}
    <2>1. ASSUME NEW z \in codes(q) PROVE z \in T \cup {t}
      <3>1. PICK x \in DOMAIN q : z = q[x].typ
        BY DEF codes
      <3> QED BY <1>6, <3>1
    <2>2. t \in codes(q)
      BY <1>1, <1>2, <1>5 DEF codes
    <2>3. ASSUME NEW z \in T PROVE z \in codes(q)
      <3>1. PICK y \in DOMAIN os : z = os[y].typ
        BY DEF codes, reads
      <3>2. z = q[1 + y].typ
        BY <1>2, <1>3, <3>1
      <3> QED BY <1>5, <3>1, <3>2 DEF codes
    <2> QED BY <2>1, <2>2, <2>3, ZenonT(30)
  <1>8. reads(q, T \cup {t}, F)
    BY <1>2, <1>6, <1>7 DEF reads, D
  <1> QED BY <1>8 DEF q, r

\* A sequence of n bytes.
sized(s, n) == s \in Seq(Byte) /\ Len(s) = n

LEMMA CatSized ==
  ASSUME NEW s, NEW t, NEW m \in Nat, NEW n \in Nat, sized(s, m), sized(t, n)
  PROVE  sized(s \o t, m + n)
  BY CatIs, ZenonT(30) DEF sized

LEMMA WholeSized ==
  ASSUME NEW b, NEW n, sized(b, n)
  PROVE  piece(b, 0, b)
  BY WholePiece DEF sized

LEMMA CutSized ==
  ASSUME NEW b, NEW s, NEW t, NEW m \in Nat, NEW n \in Nat, sized(s, m), sized(t, n),
         piece(b, 0, s \o t)
  PROVE  piece(b, 0, s) /\ piece(b, m, t)
  <1>1. s \in Seq(Byte) /\ t \in Seq(Byte) /\ Len(s) = m
    BY DEF sized
  <1>2. piece(b, 0, s) /\ piece(b, 0 + Len(s), t)
    BY <1>1, CutPiece
  <1> QED BY <1>1, <1>2

\* What is read from byte n of b on.
readsFrom(b, n, T, F) == reads(decoded(b)[n], T, F)

\* The bytes e are the end mark.
ending(e) == Len(e) = 1 /\ e[1] = 255

LEMMA ReadsLast ==
  ASSUME NEW b, NEW i \in Nat, NEW F, NEW e, ending(e), piece(b, i, e)
  PROVE  readsFrom(b, i + 1, {}, F)
  <1>1. b \in Seq(Byte) /\ i + Len(e) <= Len(b) /\ b[i + 1] = 255 /\ Len(e) = 1
    BY DEF piece, ending
  <1>2. decoded(b)[i + 1] = <<>>
    BY <1>1, ReadsEnd
  <1> QED BY <1>2, ReadsNone DEF readsFrom

\* After its first i bytes, b has an option with code t and the l bytes v.
optionIn(b, i, t, l, v) ==
    t \in Int /\ v \in Seq(Byte) /\ follows(b, i, t, v, i + 3 + l)

LEMMA OptionIn ==
  ASSUME NEW b, NEW i, NEW h, NEW t, NEW l, NEW c, NEW w, writes(b, i, h, t, l, c, w)
  PROVE  optionIn(b, i, t, l, c \o w)
  <1>1. w \in Seq(Byte) /\ c \in Seq(Byte) /\ t \in Int
    BY DEF piece, writes
  <1>2. c \o w \in Seq(Byte)
    BY <1>1, CatIs
  <1> QED BY <1>1, <1>2, ReadsPieces DEF optionIn

gives(F, t, v) == F[t] = v
adds(T, t, U) == U = T \cup {t}
\* An option after i bytes, with l in its value, is bytes k to n - 1.
spans(i, l, k, n) == k = i + 1 /\ n = i + 3 + l

\* What is read from the first byte of an option on, given what is read after it.
LEMMA ReadsNext ==
  ASSUME NEW b, NEW i, NEW t, NEW l, NEW k, NEW n, NEW T, NEW F, NEW v, NEW U,
         spans(i, l, k, n), gives(F, t, v), adds(T, t, U),
         optionIn(b, i, t, l, v), readsFrom(b, n, T, F)
  PROVE  readsFrom(b, k, U, F)
  <1>1. decoded(b)[k] = <<[typ |-> t, val |-> F[t]]>> \o decoded(b)[n]
    BY DEF follows, optionIn, spans, gives
  <1>2. reads(<<[typ |-> t, val |-> F[t]]>> \o decoded(b)[n], T \cup {t}, F)
    BY ReadsOneMore DEF readsFrom, optionIn, gives
  <1> QED BY <1>1, <1>2 DEF readsFrom, adds

\* A piece that is a concatenation, at any offset, and two that make one up.
LEMMA CutSizedAt ==
  ASSUME NEW b, NEW i \in Nat, NEW s, NEW t, NEW m \in Nat, NEW n \in Nat,
         sized(s, m), sized(t, n), piece(b, i, s \o t)
  PROVE  piece(b, i, s) /\ piece(b, i + m, t)
  <1>1. s \in Seq(Byte) /\ t \in Seq(Byte) /\ Len(s) = m
    BY DEF sized
  <1>2. piece(b, i, s) /\ piece(b, i + Len(s), t)
    BY <1>1, CutPiece
  <1> QED BY <1>1, <1>2

LEMMA JoinPiece ==
  ASSUME NEW b, NEW i \in Nat, NEW s, NEW t, NEW m \in Nat, NEW n \in Nat,
         sized(s, m), sized(t, n), piece(b, i, s), piece(b, i + m, t)
  PROVE  piece(b, i, s \o t)
  <1> DEFINE c == s \o t
  <1>1. s \in Seq(Byte) /\ t \in Seq(Byte) /\ Len(s) = m /\ Len(t) = n
    BY DEF sized
  <1>2. /\ c \in Seq(Byte) /\ Len(c) = Len(s) + Len(t)
        /\ \A x \in 1 .. Len(s) : c[x] = s[x]
        /\ \A y \in 1 .. Len(t) : c[Len(s) + y] = t[y]
    <2>1. s \in Seq(Byte) /\ t \in Seq(Byte)
      BY <1>1
    <2> QED BY ONLY <2>1, CatIs, SMTT(30), Z3T(30), ZenonT(30)
  <1> HIDE DEF c
  <1>3. Len(c) = m + n /\ \A x \in 1 .. m : c[x] = s[x]
    BY <1>1, <1>2
  <1>4. \A y \in 1 .. n : c[m + y] = t[y]
    BY <1>1, <1>2
  <1>5. /\ b \in Seq(Byte) /\ i + m + n <= Len(b) /\ Len(b) \in Nat
        /\ \A x \in 1 .. m : b[i + x] = s[x]
        /\ \A x \in 1 .. n : b[i + m + x] = t[x]
    BY <1>1 DEF piece
  <1>6. ASSUME NEW x \in 1 .. m + n PROVE b[i + x] = c[x]
    <2>1. CASE x <= m
      BY <1>3, <1>5, <2>1
    <2>2. CASE x > m
      <3>1. PICK y \in 1 .. n : x = m + y
        <4>1. x - m \in 1 .. n /\ x = m + (x - m)
          BY <2>2
        <4> QED BY <4>1
      <3>2. i + x = i + m + y
        BY <3>1
      <3> QED BY <1>4, <1>5, <3>1, <3>2, ZenonT(30)
    <2> QED BY <2>1, <2>2
  <1>7. i + Len(c) <= Len(b) /\ \A x \in 1 .. Len(c) : b[i + x] = c[x]
    <2>1. i + Len(c) <= Len(b)
      BY <1>3, <1>5
    <2> QED BY <1>3, <1>6, <2>1
  <1> QED BY <1>2, <1>5, <1>7, ZenonT(30) DEF piece, c
=============================================================================
