----------------------------- MODULE Calculations -----------------------------
(* calculations.cpp and checksums.cpp: the hash functions a P4 program may *)
(* name, the custom CRC and the Toeplitz hash whose parameters RPCs change *)
(* while packets are hashed, the buffer a calculation is applied to, and   *)
(* the checksums that are updated and verified with them; and the          *)
(* incremental checksum extern of psa_switch.                              *)
(* A byte has CaByte bits instead of 8, so a 16 bit word has 2 * CaByte,   *)
(* and so on; the CRC register has CaWidth bits (a multiple of CaByte).    *)
EXTENDS Integers, Sequences, SequencesExt, Bitwise

CONSTANTS CaByte, CaWidth,
          CaThreads,    \* threads that process packets
          CaRpcs,       \* threads of the RPC server
          CaConfigs,    \* CRC configurations (the first one is crc_custom_init)
          CaFirst,
          CaKeys,       \* Toeplitz keys, as byte sequences
          CaBuilders,   \* what the calculations are over (BufBuilder entries)
          CaMaxOps      \* bound on calculations and RPCs

ASSUME CaAssumption == /\ CaByte \in Nat \ {0} /\ CaWidth % CaByte = 0
                       /\ CaFirst \in CaConfigs

VARIABLES caCfg, caTable,  \* crc_custom: config and crc_table
          caOwner,         \* holder of crc_custom's mutex
          caCrc,           \* a CRC computation of a thread: buffer, byte, remainder
          caPend,          \* an RPC's new configuration and the table made for it
          caKey,           \* toeplitz: host_key, in words
          caIdx, caSeen,   \* round_robin(_consistent): counter and hashes
          caSum,           \* PSA_InternetChecksum: sum
          caTotal,         \* what was added less what was subtracted
          caField,         \* the checksum field of a header: valid, condition, value
          caAnswer,        \* the last result a thread obtained
          caOps

caVars == <<caCfg, caTable, caOwner, caCrc, caPend, caKey, caIdx, caSeen, caSum,
            caTotal, caField, caAnswer, caOps>>

CaPow2(n) == 2 ^ n
CaBytes == 0..CaPow2(CaByte) - 1
CaBit(x, i) == (x \div CaPow2(i)) % 2
CaNone == [alg |-> "none"]
CaRest == [buf |-> <<>>, at |-> 0, rem |-> 0]

\* reflect<T>: the low n bits of x in the opposite order.
Reflect(x, n) == FoldLeft(LAMBDA r, i : r + CaBit(x, i - 1) * CaPow2(n - i), 0, [i \in 1..n |-> i])

\* The number n consecutive bytes spell, most significant first.
BigEndian(s) == FoldLeft(LAMBDA r, b : r * CaPow2(CaByte) + b, 0, s)
\* What a load of the same bytes into a register gives on this machine.
LittleEndian(s) == BigEndian(Reverse(s))
-----------------------------------------------------------------------------
(* The buffer.                                                             *)

\* The bits of the low n bits of v, most significant first.
BitsOf(v, n) == [i \in 1..n |-> CaBit(v, n - i)]

\* BufBuilder::Deparse: fields and headers of invalid headers contribute
\* nothing; bytes are completed with zeros; the payload starts on a byte.
BuildBuf(entries, payload) ==
  LET bits == FoldLeft(LAMBDA r, e : IF e.valid THEN r \o BitsOf(e.v, e.n) ELSE r, <<>>, entries)
      pad == [i \in 1..((-Len(bits)) % CaByte) |-> 0]
      all == bits \o pad
  IN  [k \in 1..(Len(all) \div CaByte) |->
         FoldLeft(LAMBDA r, b : 2 * r + b, 0, SubSeq(all, (k - 1) * CaByte + 1, k * CaByte))]
      \o payload
-----------------------------------------------------------------------------
(* The functions.                                                          *)

\* crc_custom::recompute_crc_table: modulo-2 division of each byte followed
\* by zeros, a bit at a time.
CrcDivide(poly, rem) ==
  LET shifted == (2 * rem) % CaPow2(CaWidth)
  IN  IF rem >= CaPow2(CaWidth - 1) THEN shifted ^^ poly ELSE shifted
CrcTable(c) ==
  [d \in CaBytes |-> FoldLeft(LAMBDA r, i : CrcDivide(c.poly, r),
                              d * CaPow2(CaWidth - CaByte), [i \in 1..CaByte |-> i])]

\* One byte of crc_custom::operator().
CrcByte(c, table, rem, b) ==
  LET in == IF c.refIn THEN Reflect(b, CaByte) ELSE b
      data == in ^^ (rem \div CaPow2(CaWidth - CaByte))
  IN  table[data] ^^ ((rem * CaPow2(CaByte)) % CaPow2(CaWidth))
\* crc16, crcCCITT and crc32: the same loop over a table that is compiled in.
CrcFixed(poly, init, xorOut, refl) ==
  [poly |-> poly, init |-> init, xorOut |-> xorOut, refIn |-> refl, refOut |-> refl]
CaOnes == CaPow2(CaWidth) - 1
Crc16 == CrcFixed(5, 0, 0, TRUE)
CrcCCITT == CrcFixed(3, CaOnes, 0, FALSE)
Crc32 == CrcFixed(7, CaOnes, CaOnes, TRUE)
CrcFinal(c, rem) == (IF c.refOut THEN Reflect(rem, CaWidth) ELSE rem) ^^ c.xorOut

CrcOf(c, s) ==
  CrcFinal(c, FoldLeft(LAMBDA r, b : CrcByte(c, CrcTable(c), r, b), c.init, s))

\* Addition in a register of n bytes with the carry added back.
EndAround(n, x, y) ==
  LET m == CaPow2(n * CaByte) IN IF ((x + y) % m) < y THEN (x + y + 1) % m ELSE (x + y) % m

\* The pieces of 4, 2 and 1 bytes the tail of less than 8 bytes is read in.
Cksum16Tail(s) ==
  LET four == 4 * (Len(s) \div 4)
      two == 2 * (Len(s) \div 2)
  IN  <<SubSeq(s, 1, four), SubSeq(s, four + 1, two), SubSeq(s, two + 1, Len(s))>>

\* cksum16: 8 bytes at a time, the tail in pieces, folded down to 2 bytes,
\* complemented and put in host order.
Cksum16(s) ==
  LET words == Len(s) \div 8
      pieces == [k \in 1..words |-> SubSeq(s, 8 * k - 7, 8 * k)]
                \o Cksum16Tail(SubSeq(s, 8 * words + 1, Len(s)))
      sum == FoldLeft(LAMBDA r, p : EndAround(8, r, LittleEndian(p)), 0, pieces)
      t1 == EndAround(4, sum % CaPow2(4 * CaByte), sum \div CaPow2(4 * CaByte))
      t3 == EndAround(2, t1 % CaPow2(2 * CaByte), t1 \div CaPow2(2 * CaByte))
      inv == CaPow2(2 * CaByte) - 1 - t3
  IN  ((inv % CaPow2(CaByte)) * CaPow2(CaByte)) + (inv \div CaPow2(CaByte))

\* emitAsInteger<T> for a T of n bytes: short input is padded at the tail.
EmitAsInteger(s, n) == BigEndian(s) * CaPow2((n - Len(s)) * CaByte)

\* xor_hash<T>: whole words, then the tail.
XorHash(s, n) ==
  LET words == Len(s) \div n
      pieces == [k \in 1..words |-> SubSeq(s, n * (k - 1) + 1, n * k)]
                \o <<SubSeq(s, n * words + 1, Len(s))>>
  IN  FoldLeft(LAMBDA r, p : r ^^ EmitAsInteger(p, n), 0, pieces)

\* toeplitz: the input in words of 4 bytes; for each bit set in a word the
\* key shifted left by the bit's place, the next key word shifted in.
ToeplitzWord(l, r, w) ==
  LET n == 4 * CaByte
  IN  FoldLeft(LAMBDA x, i : IF CaBit(w, n - 1 - i) = 0 THEN x
                 ELSE x ^^ (((l * CaPow2(i)) % CaPow2(n)) + (r \div CaPow2(n - i))),
               0, [i \in 1..n |-> i - 1])
Toeplitz(key, s) ==
  LET words == Len(s) \div 4
      rest == SubSeq(s, 4 * words + 1, Len(s))
      input == [k \in 1..words |-> BigEndian(SubSeq(s, 4 * k - 3, 4 * k))]
               \o (IF rest = <<>> THEN <<>> ELSE <<EmitAsInteger(rest, 4)>>)
  IN  FoldLeft(LAMBDA x, k : x ^^ ToeplitzWord(key[((k - 1) % Len(key)) + 1],
                                               key[(k % Len(key)) + 1], input[k]),
               0, [k \in 1..Len(input) |-> k])

\* identity: the first 8 bytes as a number.
Identity(s) == BigEndian(SubSeq(s, 1, IF Len(s) < 8 THEN Len(s) ELSE 8))
-----------------------------------------------------------------------------
(* The state: threads and RPCs.                                            *)

CaInit ==
  /\ caCfg = CaFirst /\ caTable = CrcTable(CaFirst)
  /\ caOwner = "none"
  /\ caCrc = [t \in CaThreads |-> CaRest]
  /\ caPend = [r \in CaRpcs |-> CaNone]
  /\ caKey = <<0>>
  /\ caIdx = [rr |-> 0, rrc |-> 0] /\ caSeen = << >>
  /\ caSum = 0 /\ caTotal = 0
  /\ caField = [valid |-> TRUE, met |-> TRUE, value |-> 0]
  /\ caAnswer = CaNone
  /\ caOps = 0

CaCounted == caOps < CaMaxOps /\ caOps' = caOps + 1
CaAnswer(alg, s, out) ==
  caAnswer' = [alg |-> alg, buf |-> s, out |-> out, cfg |-> caCfg, key |-> caKey,
               field |-> caField]
CaBufs == {BuildBuf(b.entries, b.payload) : b \in CaBuilders}

\* Calculation_::output for the functions without parameters.
HashFixed(t, s) ==
  /\ caCrc[t] = CaRest /\ CaCounted
  /\ \/ CaAnswer("cksum16", s, Cksum16(s))
     \/ \E c \in {Crc16, CrcCCITT, Crc32} :
          caAnswer' = [alg |-> "crc", buf |-> s, cfg |-> c, out |-> CrcOf(c, s)]
     \/ CaAnswer("xor16", s, XorHash(s, 2))
     \/ CaAnswer("identity", s, Identity(s))
     \/ CaAnswer("toeplitz", s, Toeplitz(caKey, s))
  /\ UNCHANGED <<caCfg, caTable, caOwner, caCrc, caPend, caKey, caIdx, caSeen, caField, caSum, caTotal>>

\* round_robin and round_robin_consistent.
HashRoundRobin(t, s) ==
  /\ caCrc[t] = CaRest /\ CaCounted
  /\ \/ /\ CaAnswer("rr", s, caIdx.rr) /\ caIdx' = [caIdx EXCEPT !.rr = @ + 1]
        /\ UNCHANGED caSeen
     \/ /\ s \in DOMAIN caSeen /\ CaAnswer("rrc", s, caSeen[s]) /\ UNCHANGED <<caIdx, caSeen>>
     \/ /\ s \notin DOMAIN caSeen /\ CaAnswer("rrc", s, caIdx.rrc)
        /\ caSeen' = [x \in DOMAIN caSeen \cup {s} |-> IF x = s THEN caIdx.rrc ELSE caSeen[x]]
        /\ caIdx' = [caIdx EXCEPT !.rrc = @ + 1]
  /\ UNCHANGED <<caCfg, caTable, caOwner, caCrc, caPend, caKey, caField, caSum, caTotal>>

\* crc_custom::operator() holds the mutex from the first byte to the last.
CrcBegin(t, s) ==
  /\ caCrc[t] = CaRest /\ caOwner = "none" /\ CaCounted
  /\ caOwner' = t
  /\ caCrc' = [caCrc EXCEPT ![t] = [buf |-> s, at |-> 1, rem |-> caCfg.init]]
  /\ UNCHANGED <<caCfg, caTable, caPend, caKey, caIdx, caSeen, caField, caAnswer, caSum, caTotal>>
CrcStep(t) ==
  LET c == caCrc[t] IN
  /\ c.at \in 1..Len(c.buf)
  /\ caCrc' = [caCrc EXCEPT ![t].rem = CrcByte(caCfg, caTable, c.rem, c.buf[c.at]),
                            ![t].at = @ + 1]
  /\ UNCHANGED <<caCfg, caTable, caOwner, caPend, caKey, caIdx, caSeen, caField, caAnswer, caOps, caSum, caTotal>>
CrcEnd(t) ==
  LET c == caCrc[t] IN
  /\ c.at > Len(c.buf)
  /\ CaAnswer("crc", c.buf, CrcFinal(caCfg, c.rem))
  /\ caOwner' = "none" /\ caCrc' = [caCrc EXCEPT ![t] = CaRest]
  /\ UNCHANGED <<caCfg, caTable, caPend, caKey, caIdx, caSeen, caField, caOps, caSum, caTotal>>

\* CustomCrcMgr::update_config: the table is made before the mutex is
\* taken; a calculation of another type is refused and nothing changes.
CrcUpdate(r, c) ==
  /\ caPend[r] = CaNone /\ CaCounted
  /\ caPend' = [caPend EXCEPT ![r] = [alg |-> "crc", cfg |-> c, table |-> CrcTable(c)]]
  /\ UNCHANGED <<caCfg, caTable, caOwner, caCrc, caKey, caIdx, caSeen, caField, caAnswer, caSum, caTotal>>

\* A mutation of CrcSwap: the mutex is not taken.
CrcSwapUnlocked(r) ==
  /\ caPend[r] # CaNone
  /\ caCfg' = caPend[r].cfg /\ caTable' = caPend[r].table
  /\ caPend' = [caPend EXCEPT ![r] = CaNone]
  /\ UNCHANGED <<caOwner, caCrc, caKey, caIdx, caSeen, caField, caAnswer, caOps, caSum, caTotal>>

CrcSwap(r) ==
  /\ caPend[r] # CaNone /\ caOwner = "none"
  /\ caCfg' = caPend[r].cfg /\ caTable' = caPend[r].table
  /\ caPend' = [caPend EXCEPT ![r] = CaNone]
  /\ UNCHANGED <<caOwner, caCrc, caKey, caIdx, caSeen, caField, caAnswer, caOps, caSum, caTotal>>

\* toeplitz::update_key: only keys of whole words are accepted.
UpdateKey(k) ==
  /\ CaCounted
  /\ caKey' = IF Len(k) < 4 \/ Len(k) % 4 # 0 THEN caKey
              ELSE [i \in 1..(Len(k) \div 4) |-> BigEndian(SubSeq(k, 4 * i - 3, 4 * i))]
  /\ UNCHANGED <<caCfg, caTable, caOwner, caCrc, caPend, caIdx, caSeen, caField, caAnswer, caSum, caTotal>>
-----------------------------------------------------------------------------
(* Checksums.                                                              *)

\* The header's validity and the condition's outcome for the next packet.
NewChecksumPacket(valid, met, v) ==
  /\ CaCounted /\ caField' = [valid |-> valid, met |-> met, value |-> v]
  /\ UNCHANGED <<caCfg, caTable, caOwner, caCrc, caPend, caKey, caIdx, caSeen, caAnswer, caSum, caTotal>>

\* IPv4Checksum leaves an invalid header alone, and so verifies it.
Ipv4Update(f, s) == IF f.valid THEN [f EXCEPT !.value = Cksum16(s)] ELSE f
Ipv4Verify(f, s) == f.valid => f.value = Cksum16(s)

\* CalcBasedChecksum looks at the field whether or not its header is valid.
CalcUpdate(f, s) == [f EXCEPT !.value = Cksum16(s)]
CalcVerify(f, s) == f.value = Cksum16(s)

\* Checksum::update, for both kinds of checksum.
ChecksumUpdate(t, s) ==
  /\ caCrc[t] = CaRest /\ CaCounted
  /\ IF caField.met THEN caField' \in {Ipv4Update(caField, s), CalcUpdate(caField, s)}
                    ELSE UNCHANGED caField
  /\ caAnswer' = [alg |-> "update", buf |-> s, field |-> caField']
  /\ UNCHANGED <<caCfg, caTable, caOwner, caCrc, caPend, caKey, caIdx, caSeen, caSum, caTotal>>

\* Checksum::verify: skipped when the target field is invalid or the
\* condition is not met.
ChecksumVerify(t, s) ==
  /\ caCrc[t] = CaRest /\ CaCounted
  /\ \E r \in {Ipv4Verify(caField, s), CalcVerify(caField, s)} :
       CaAnswer("verify", s, caField.valid /\ caField.met => r)
  /\ UNCHANGED <<caCfg, caTable, caOwner, caCrc, caPend, caKey, caIdx, caSeen, caField, caSum,
                 caTotal>>

\* ones_complement_sum of psa_internet_checksum.cpp, on 16 bit words.
OnesComplementSum(x, y) ==
  LET m == CaPow2(2 * CaByte) IN IF x + y >= m THEN (x + y + 1) % m ELSE x + y

\* PSA_InternetChecksum::add and ::subtract take the words of the fields
\* from the last one, until what is left is 0.
CaWords(s) == [k \in 1..(Len(s) \div 2) |-> BigEndian(SubSeq(s, 2 * k - 1, 2 * k))]
CaNonZero(w) ==
  LET n == {k \in 1..Len(w) : w[k] # 0}
  IN  Reverse(SubSeq(w, IF n = {} THEN Len(w) + 1 ELSE CHOOSE k \in n : \A j \in n : k <= j, Len(w)))
CaSumOf(w) == FoldLeft(LAMBDA r, x : r + x, 0, w)

IcAdd(s) ==
  /\ CaCounted /\ Len(s) % 2 = 0
  /\ caSum' = FoldLeft(OnesComplementSum, caSum, CaNonZero(CaWords(s)))
  /\ caTotal' = caTotal + CaSumOf(CaWords(s))
  /\ UNCHANGED <<caCfg, caTable, caOwner, caCrc, caPend, caKey, caIdx, caSeen, caField, caAnswer>>
IcSubtract(s) ==
  /\ CaCounted /\ Len(s) % 2 = 0
  /\ caSum' = FoldLeft(LAMBDA r, x : OnesComplementSum(r, CaPow2(2 * CaByte) - 1 - x), caSum,
                       CaNonZero(CaWords(s)))
  /\ caTotal' = caTotal - CaSumOf(CaWords(s))
  /\ UNCHANGED <<caCfg, caTable, caOwner, caCrc, caPend, caKey, caIdx, caSeen, caField, caAnswer>>
IcClear ==
  /\ CaCounted /\ caSum # 0 /\ caSum' = 0 /\ caTotal' = 0
  /\ UNCHANGED <<caCfg, caTable, caOwner, caCrc, caPend, caKey, caIdx, caSeen, caField, caAnswer>>

CaNext ==
  \/ IcClear \/ \E s \in CaBufs : IcAdd(s) \/ IcSubtract(s)
  \/ \E t \in CaThreads, s \in CaBufs :
       HashFixed(t, s) \/ HashRoundRobin(t, s) \/ CrcBegin(t, s)
         \/ ChecksumUpdate(t, s) \/ ChecksumVerify(t, s)
  \/ \E t \in CaThreads : CrcStep(t) \/ CrcEnd(t)
  \/ \E r \in CaRpcs : CrcSwap(r) \/ \E c \in CaConfigs : CrcUpdate(r, c)
  \/ \E k \in CaKeys : UpdateKey(k)
  \/ \E valid, met \in BOOLEAN : NewChecksumPacket(valid, met, 0)

CaSpec == CaInit /\ [][CaNext]_caVars
-----------------------------------------------------------------------------
(* Reference definitions.                                                  *)

\* The bits of a buffer, each byte's most significant bit first.
MessageBits(s, reflected) ==
  FoldLeft(LAMBDA r, b : r \o BitsOf(IF reflected THEN Reflect(b, CaByte) ELSE b, CaByte), <<>>, s)

\* A CRC by its definition: a shift register fed one message bit at a time.
RefCrc(c, s) ==
  CrcFinal(c, FoldLeft(LAMBDA r, b :
      ((2 * r) % CaPow2(CaWidth)) ^^ (IF CaBit(r, CaWidth - 1) # b THEN c.poly ELSE 0),
    c.init, MessageBits(s, c.refIn)))

\* RFC 1071: the complement of the ones' complement sum of the big-endian
\* 16 bit words, the last one completed with a zero byte.
RefCksum16(s) ==
  LET w == [k \in 1..((Len(s) + 1) \div 2) |->
              EmitAsInteger(SubSeq(s, 2 * k - 1, IF 2 * k <= Len(s) THEN 2 * k ELSE Len(s)), 2)]
      max == CaPow2(2 * CaByte) - 1
      sum == FoldLeft(LAMBDA r, x : r + x, 0, w)
  IN  max - (IF sum > 0 /\ sum % max = 0 THEN max ELSE sum % max)

\* Toeplitz: for each message bit set, the window of the (repeated) key
\* that starts at that bit.
RefToeplitz(key, s) ==
  LET n == 4 * CaByte
      bits == MessageBits(s, FALSE)
      keyBits == FoldLeft(LAMBDA r, w : r \o BitsOf(w, n), <<>>, key)
      window(i) == FoldLeft(LAMBDA r, j : 2 * r + keyBits[((i + j - 2) % Len(keyBits)) + 1], 0,
                            [j \in 1..n |-> j])
  IN  FoldLeft(LAMBDA x, i : IF bits[i] = 0 THEN x ELSE x ^^ window(i), 0,
               [i \in 1..Len(bits) |-> i])

\* The CRC object is consistent and its mutex has one owner.
CaTypeOK ==
  /\ caCfg \in CaConfigs /\ caTable \in [CaBytes -> 0..CaPow2(CaWidth) - 1]
  /\ caOwner \in CaThreads \cup {"none"}
  /\ caOps \in 0..CaMaxOps
  /\ caField \in [valid : BOOLEAN, met : BOOLEAN, value : 0..CaPow2(2 * CaByte) - 1]

\* Every hash a thread obtains is the value its definition gives for the
\* buffer: a CRC under one configuration, although RPCs replace it while
\* packets are hashed; cksum16, read 8 bytes at a time in machine order, is
\* the Internet checksum; the Toeplitz hash under one key; a checksum that
\* was just updated verifies; and the incremental checksum is congruent to
\* what was added less what was subtracted.
AnswersAreReference ==
  /\ (caSum - caTotal) % (CaPow2(2 * CaByte) - 1) = 0
  /\ LET a == caAnswer IN
    CASE a.alg = "crc" -> a.out = RefCrc(a.cfg, a.buf)
      [] a.alg = "cksum16" -> a.out = RefCksum16(a.buf)
      [] a.alg = "toeplitz" -> a.out = RefToeplitz(a.key, a.buf)
      [] a.alg = "update" -> a.field.valid /\ a.field.met => a.field.value = RefCksum16(a.buf)
      [] a.alg = "verify" -> a.out = (a.field.valid /\ a.field.met
                                        => a.field.value = RefCksum16(a.buf))
      [] a.alg = "rrc" -> caSeen[a.buf] = a.out
      [] OTHER -> TRUE
=============================================================================
