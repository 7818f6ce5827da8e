---------------------------- MODULE TransferProofs ----------------------------
(***************************************************************************)
(* The transfers of one endpoint, proved for every buffer, length and      *)
(* address: the loop of clean_invalidate_dcache_by_address, and the words  *)
(* of the descriptor and the queue head.                                   *)
(***************************************************************************)
EXTENDS Transfer, TLAPS

FirstLine == request.addr \div LINESIZE

(***************************************************************************)
(* The cursor is on a line, the lines behind it are clean, and those still *)
(* to come end where num_lines says, whatever the alignment of the range.  *)
(***************************************************************************)
CursorOK ==
    /\ addr = LINESIZE * (addr \div LINESIZE)
    /\ (addr \div LINESIZE) + lines =
         FirstLine + (IF request.size = 0 THEN 0 ELSE num_lines(request.size))
    /\ cleaned = {l \in Nat : FirstLine <= l /\ l < addr \div LINESIZE}
    /\ FirstLine <= addr \div LINESIZE

CleanInv ==
    /\ buffer \in Buffers
    /\ CAPABILITIES \in Int
    /\ request \in [addr : Nat, size : Nat]
    /\ addr \in Nat /\ lines \in Nat
    /\ CursorOK

\* A field of a word is a natural number below the field's range.
LEMMA FieldInRange ==
    ASSUME NEW w \in Int
    PROVE  read_reg(w, MAXIMUM_PACKET_LENGTH) \in 0 .. 2 * KB - 1
BY DEF read_reg, MAXIMUM_PACKET_LENGTH, KB

\* Changing a field of a word gives a word.
LEMMA ModifiedIsInt ==
    ASSUME NEW w \in Int, NEW v \in Int,
           NEW f \in {ZLT, MAXIMUM_PACKET_LENGTH, IOS}
    PROVE  modify_reg(w, f, v) \in Int
BY DEF modify_reg, read_reg, ZLT, MAXIMUM_PACKET_LENGTH, IOS, KB

\* Where the loop starts, the cursor is on the first line of the range.
LEMMA LoopStarts ==
    ASSUME NEW what, NEW a \in Nat, NEW n \in Nat,
           clean_invalidate_dcache(what, a, n)
    PROVE  /\ request' \in [addr : Nat, size : Nat]
           /\ addr' \in Nat /\ lines' \in Nat
           /\ CursorOK'
<1>1. /\ request' = [addr |-> a, size |-> n]
      /\ addr' = a - (a % LINESIZE)
      /\ lines' = IF n = 0 THEN 0 ELSE num_lines(n)
      /\ cleaned' = {}
  BY DEF clean_invalidate_dcache
<1>2. /\ addr' \in Nat
      /\ addr' = LINESIZE * (a \div LINESIZE)
      /\ addr' \div LINESIZE = a \div LINESIZE
  BY <1>1 DEF LINESIZE
<1>3. lines' \in Nat
  BY <1>1 DEF num_lines, LINESIZE
<1>4. FirstLine' = a \div LINESIZE /\ request'.size = n
  BY <1>1 DEF FirstLine
<1>5. a \div LINESIZE \in Nat
  BY DEF LINESIZE
<1>6. cleaned' = {l \in Nat : FirstLine' <= l /\ l < addr' \div LINESIZE}
  BY <1>1, <1>2, <1>4, <1>5
<1>7. CursorOK'
  BY <1>1, <1>2, <1>3, <1>4, <1>5, <1>6 DEF CursorOK
<1> QED
  BY <1>1, <1>2, <1>3, <1>7

\* An endpoint's queue head and buffer are as Endpoint::new made them.
LEMMA CleanInvInit == Init => CleanInv
<1> SUFFICES ASSUME Init PROVE CleanInv
  OBVIOUS
<1>1. buffer \in [ptr : Nat, len : Nat]
  BY LayoutAssumption DEF Init
<1>2. CAPABILITIES \in Int
  <2>1. Least(buffer.len, KB) \in Int /\ Bit(kind = "control_out") \in Int
    BY <1>1 DEF Least, KB, Bit
  <2>2. modify_reg(0, ZLT, 1) \in Int
    BY ModifiedIsInt
  <2>3. modify_reg(modify_reg(0, ZLT, 1), MAXIMUM_PACKET_LENGTH,
                   Least(buffer.len, KB)) \in Int
    BY <2>1, <2>2, ModifiedIsInt
  <2>4. NewCapabilities(buffer.len, kind) \in Int
    BY <2>1, <2>3, ModifiedIsInt DEF NewCapabilities
  <2> QED
    BY <2>4 DEF Init
<1>3. CursorOK
  BY DEF Init, CursorOK, FirstLine, LINESIZE
<1> QED
  BY <1>2, <1>3 DEF Init, CleanInv

\* One turn of the loop takes the cursor, and the lines behind it, one on.
LEMMA LoopGoesOn == CleanInv /\ clean_line => CleanInv'
<1> SUFFICES ASSUME CleanInv, clean_line PROVE CleanInv'
  OBVIOUS
<1> USE DEF CleanInv
<1>1. /\ lines > 0 /\ lines' = lines - 1
      /\ addr' = addr + LINESIZE
      /\ cleaned' = cleaned \cup {addr \div LINESIZE}
      /\ request' = request /\ buffer' = buffer /\ CAPABILITIES' = CAPABILITIES
  BY DEF clean_line, words
<1>2. addr \div LINESIZE \in Nat /\ FirstLine \in Nat
  BY DEF LINESIZE, FirstLine
<1>3. /\ addr' \in Nat /\ lines' \in Nat
      /\ addr' \div LINESIZE = (addr \div LINESIZE) + 1
      /\ addr' = LINESIZE * (addr' \div LINESIZE)
  BY <1>1 DEF CursorOK, LINESIZE
<1>4. FirstLine' = FirstLine
  BY <1>1 DEF FirstLine
<1>5. (addr' \div LINESIZE) + lines' =
        FirstLine' + (IF request'.size = 0 THEN 0 ELSE num_lines(request'.size))
  <2> DEFINE n == IF request.size = 0 THEN 0 ELSE num_lines(request.size)
  <2>1. n \in Int
    BY DEF num_lines, LINESIZE
  <2>2. (addr \div LINESIZE) + lines = FirstLine + n
    BY DEF CursorOK
  <2> HIDE DEF n
  <2>3. (addr' \div LINESIZE) + lines' = FirstLine + n
    BY <1>1, <1>2, <1>3, <2>1, <2>2
  <2> QED
    BY <1>1, <1>4, <2>3 DEF n
<1>6. cleaned' = {l \in Nat : FirstLine' <= l /\ l < addr' \div LINESIZE}
  <2> DEFINE here == addr \div LINESIZE
  <2>1. cleaned = {l \in Nat : FirstLine <= l /\ l < here} /\ FirstLine <= here
    BY DEF CursorOK
  <2> HIDE DEF here
  <2>2. {l \in Nat : FirstLine <= l /\ l < here} \cup {here} =
          {l \in Nat : FirstLine <= l /\ l < here + 1}
    BY <1>2, <2>1 DEF here
  <2> QED
    BY <1>1, <1>3, <1>4, <2>1, <2>2 DEF here
<1>7. FirstLine' <= addr' \div LINESIZE
  BY <1>2, <1>3, <1>4 DEF CursorOK
<1>8. CursorOK'
  BY <1>3, <1>5, <1>6, <1>7 DEF CursorOK
<1> QED
  BY <1>1, <1>3, <1>8

LEMMA CleanInvStep == CleanInv /\ [Next]_vars => CleanInv'
<1> SUFFICES ASSUME CleanInv, [Next]_vars PROVE CleanInv'
  OBVIOUS
<1>1. CASE UNCHANGED <<buffer, CAPABILITIES, cache>>
  BY <1>1 DEF CleanInv, CursorOK, FirstLine, cache
<1>2. CASE enable_zlt
  <2>1. CAPABILITIES' \in Int
    BY <1>2, ModifiedIsInt DEF enable_zlt, CleanInv
  <2> QED
    BY <1>2, <2>1 DEF enable_zlt, CleanInv, CursorOK, FirstLine, cache
<1>3. CASE clean_line
  BY <1>3, LoopGoesOn
<1>4. ASSUME NEW len \in Lengths, write(len) PROVE CleanInv'
  <2> DEFINE n == volatile_copy(volatile_copy(Least(max_packet_len, len)))
  <2>1. /\ clean_invalidate_dcache("buffer", buffer.ptr, n)
        /\ buffer' = buffer /\ CAPABILITIES' = CAPABILITIES
    BY <1>4 DEF write, words
  <2>2. buffer \in [ptr : Nat, len : Nat] /\ len \in Nat
    BY LayoutAssumption DEF CleanInv
  <2>3. max_packet_len \in Nat
    <3>1. CAPABILITIES \in Int
      BY DEF CleanInv
    <3>2. read_reg(CAPABILITIES, MAXIMUM_PACKET_LENGTH) \in 0 .. 2 * KB - 1
      BY <3>1, FieldInRange
    <3> DEFINE top == 2 * KB - 1
    <3>3. top \in Int
      BY DEF KB
    <3> HIDE DEF top
    <3>4. read_reg(CAPABILITIES, MAXIMUM_PACKET_LENGTH) \in 0 .. top
      BY <3>2 DEF top
    <3> QED
      BY <3>3, <3>4 DEF max_packet_len
  <2>4. n \in Nat
    BY <2>2, <2>3 DEF volatile_copy, Least
  <2> HIDE DEF n
  <2>5. /\ request' \in [addr : Nat, size : Nat]
        /\ addr' \in Nat /\ lines' \in Nat
        /\ CursorOK'
    BY <2>1, <2>2, <2>4, LoopStarts
  <2> QED
    BY <2>1, <2>5 DEF CleanInv
<1>5. ASSUME NEW what, NEW n \in Nat, clean_invalidate_dcache(what, SlotAddr, n),
             UNCHANGED <<buffer, CAPABILITIES>>
      PROVE  CleanInv'
  <2>1. /\ request' \in [addr : Nat, size : Nat]
        /\ addr' \in Nat /\ lines' \in Nat
        /\ CursorOK'
    BY <1>5, LayoutAssumption, LoopStarts
  <2> QED
    BY <1>5, <2>1 DEF CleanInv
<1>6. CASE schedule_transfer
  BY <1>5, <1>6 DEF schedule_transfer, TdSize
<1>7. CASE schedule_transfer_qh
  BY <1>5, <1>7 DEF schedule_transfer_qh, QhSize
<1>8. ASSUME NEW len \in Lengths, read(len) PROVE CleanInv'
  BY <1>1, <1>8 DEF read, words
<1>9. ASSUME NEW n, arm(n) PROVE CleanInv'
  BY <1>1, <1>9 DEF arm, words
<1>10. CASE schedule_transfer_prime
  BY <1>1, <1>10 DEF schedule_transfer_prime, words
<1>11. ASSUME NEW n, NEW error, Retire(n, error) PROVE CleanInv'
  BY <1>1, <1>11 DEF Retire
<1>12. CASE Flushed
  BY <1>1, <1>12 DEF Flushed
<1>13. CASE UNCHANGED vars
  BY <1>1, <1>13 DEF vars, words
<1> QED
  BY <1>2, <1>3, <1>4, <1>6, <1>7, <1>8, <1>9, <1>10, <1>11, <1>12, <1>13 DEF Next

LEMMA CleanInvHolds == Spec => []CleanInv
BY CleanInvInit, CleanInvStep, PTL DEF Spec

(***************************************************************************)
(* No line outside the range is ever cleaned: rounding the address down    *)
(* and the number of lines up never adds up to a line too many, wherever   *)
(* the range lies and however long it is.                                  *)
(***************************************************************************)
THEOREM CleaningStaysWithin == Spec => []CleansWithin
<1>1. CleanInv => CleansWithin
  <2> SUFFICES ASSUME CleanInv, NEW l \in cleaned
               PROVE  l \in LinesOf(request.addr, request.size)
    BY DEF CleansWithin
  <2>1. request.addr \in Nat /\ request.size \in Nat /\ addr \in Nat /\ lines \in Nat
    BY DEF CleanInv
  <2>2. /\ l \in Nat /\ FirstLine <= l /\ l < addr \div LINESIZE
        /\ (addr \div LINESIZE) + lines =
             FirstLine + (IF request.size = 0 THEN 0 ELSE num_lines(request.size))
    BY DEF CleanInv, CursorOK
  <2>3. request.size > 0
    BY <2>1, <2>2 DEF FirstLine, LINESIZE
  <2>4. l < FirstLine + num_lines(request.size)
    BY <2>1, <2>2, <2>3 DEF FirstLine, LINESIZE, num_lines
  <2>5. l <= (request.addr + request.size - 1) \div LINESIZE
    BY <2>1, <2>2, <2>3, <2>4 DEF FirstLine, LINESIZE, num_lines
  <2> QED
    BY <2>1, <2>2, <2>3, <2>5 DEF LinesOf, FirstLine, LINESIZE
<1> QED
  BY <1>1, CleanInvHolds, PTL

(***************************************************************************)
(* And every line of the range has been cleaned when the loop ends, but    *)
(* for the last one of a range that spills over.                           *)
(***************************************************************************)
THEOREM CleaningCovers == Spec => []RangeCleaned
<1>1. CleanInv => RangeCleaned
  <2> SUFFICES ASSUME CleanInv, lines = 0,
                      NEW l \in LinesOf(request.addr, request.size)
               PROVE  \/ l \in cleaned
                      \/ /\ Spills
                         /\ l = (request.addr + request.size - 1) \div LINESIZE
    BY DEF RangeCleaned
  <2> DEFINE a == request.addr
             n == request.size
  <2>1. a \in Nat /\ n \in Nat /\ addr \in Nat
    BY DEF CleanInv
  <2>2. /\ n > 0
        /\ l \in Nat /\ a \div LINESIZE <= l /\ l <= (a + n - 1) \div LINESIZE
    BY <2>1 DEF LinesOf, LINESIZE
  <2>3. addr \div LINESIZE = (a \div LINESIZE) + num_lines(n)
    BY <2>1, <2>2 DEF CleanInv, CursorOK, FirstLine, num_lines, LINESIZE
  <2>4. l < addr \div LINESIZE => l \in cleaned
    BY <2>2 DEF CleanInv, CursorOK, FirstLine
  <2>5. CASE l < addr \div LINESIZE
    BY <2>4, <2>5
  <2>6. CASE ~(l < addr \div LINESIZE)
    <3>1. l >= (a \div LINESIZE) + ((n - 1) \div LINESIZE) + 1
      BY <2>1, <2>2, <2>3, <2>6 DEF num_lines, LINESIZE
    <3>2. l = (a + n - 1) \div LINESIZE /\ (a % LINESIZE) + ((n - 1) % LINESIZE) >= LINESIZE
      BY <2>1, <2>2, <3>1 DEF LINESIZE
    <3> QED
      BY <3>2 DEF Spills
  <2> QED
    BY <2>5, <2>6
<1> QED
  BY <1>1, CleanInvHolds, PTL

(***************************************************************************)
(* Words.  A word is the sum of its fields, each in units of its lowest    *)
(* bit, so that writing one of them changes that term and no other.        *)
(***************************************************************************)

\* Division with remainder, and its uniqueness.
LEMMA Divided ==
    ASSUME NEW n \in Nat, n > 0, NEW w \in Nat
    PROVE  \E q \in Nat, r \in Nat : r < n /\ w = n * q + r
<1>1. w \div n \in Nat /\ w % n \in Nat /\ w % n < n /\ w = n * (w \div n) + (w % n)
  OBVIOUS
<1> QED BY <1>1

LEMMA DivMod ==
    ASSUME NEW n \in Nat, NEW q \in Nat, NEW r \in Nat, r < n, NEW w, w = n * q + r
    PROVE  w \div n = q /\ w % n = r
OBVIOUS

\* A token, its bits by the fields they are in; rest has those of none.
Token(total, ioc, rest, st) == 64 * KB * total + 32 * KB * ioc + 256 * rest + st
IsToken(total, ioc, rest, st) ==
    /\ total \in Nat /\ total < 32 * KB
    /\ ioc \in {0, 1}
    /\ rest \in Nat /\ rest < 128
    /\ st \in Nat /\ st < 256

\* What the fields of a token read as.
LEMMA TokenRead ==
    ASSUME NEW total, NEW ioc, NEW rest, NEW st, IsToken(total, ioc, rest, st),
           NEW w, w = Token(total, ioc, rest, st)
    PROVE  /\ w \in Word
           /\ read_reg(w, STATUS) = st
           /\ read_reg(w, IOC) = ioc
           /\ read_reg(w, TOTAL_BYTES) = total
<1> USE DEF IsToken
<1>1. /\ w \in Nat /\ w <= (2 * KB * KB - 1) * KB + KB - 1
  BY DEF Token, KB
<1>2. w % 256 = st
  <2>1. w = 256 * (256 * total + 128 * ioc + rest) + st
    BY DEF Token, KB
  <2>2. 256 * total + 128 * ioc + rest \in Nat /\ 256 \in Nat /\ st \in Nat /\ st < 256
    OBVIOUS
  <2> HIDE DEF IsToken
  <2> QED BY <2>1, <2>2, DivMod
<1>3. w \div (32 * KB) = 2 * total + ioc
  <2>1. w = (32 * KB) * (2 * total + ioc) + (256 * rest + st)
    BY DEF Token, KB
  <2>2. /\ 32 * KB \in Nat /\ 2 * total + ioc \in Nat
        /\ 256 * rest + st \in Nat /\ 256 * rest + st < 32 * KB
    BY DEF KB
  <2> HIDE DEF IsToken
  <2> QED BY <2>1, <2>2, DivMod
<1>4. w \div (64 * KB) = total
  <2>1. w = (64 * KB) * total + (32 * KB * ioc + 256 * rest + st)
    BY DEF Token, KB
  <2>2. /\ 64 * KB \in Nat /\ 32 * KB * ioc + 256 * rest + st \in Nat
        /\ 32 * KB * ioc + 256 * rest + st < 64 * KB /\ total \in Nat
    BY DEF KB
  <2> HIDE DEF IsToken
  <2> QED BY <2>1, <2>2, DivMod
<1>5. (2 * total + ioc) % 2 = ioc
  <2>1. total \in Nat /\ ioc \in Nat /\ ioc < 2 /\ 2 \in Nat
    OBVIOUS
  <2> HIDE DEF IsToken
  <2> QED BY <2>1, DivMod
<1>6. total % (32 * KB) = total
  BY DEF KB
<1>7. w \div 1 = w
  BY <1>1
<1>8. w \in Word
  BY <1>1 DEF Word
<1>9. /\ read_reg(w, STATUS) = (w \div 1) % 256
      /\ read_reg(w, IOC) = (w \div (32 * KB)) % 2
      /\ read_reg(w, TOTAL_BYTES) = (w \div (64 * KB)) % (32 * KB)
  BY DEF read_reg, STATUS, IOC, TOTAL_BYTES
<1> QED
  BY <1>2, <1>3, <1>4, <1>5, <1>6, <1>7, <1>8, <1>9

\* Every word is a token.
LEMMA TokenParts ==
    ASSUME NEW w \in Word
    PROVE  \E total, ioc, rest, st :
              IsToken(total, ioc, rest, st) /\ w = Token(total, ioc, rest, st)
<1>1. w \in Nat /\ w < (64 * KB) * (32 * KB)
  <2>1. KB \in Nat
    BY DEF KB
  <2>2. w \in Nat /\ w <= (2 * KB * KB - 1) * KB + KB - 1
    BY <2>1 DEF Word
  <2>3. (2 * KB * KB - 1) * KB + KB - 1 < (64 * KB) * (32 * KB)
    BY DEF KB
  <2> QED BY <2>1, <2>2, <2>3
<1>2. 64 * KB \in Nat /\ 64 * KB > 0 /\ 32 * KB \in Nat /\ 32 * KB > 0
  BY DEF KB
<1>3. PICK total \in Nat, l \in Nat : l < 64 * KB /\ w = (64 * KB) * total + l
  BY <1>1, <1>2, Divided
<1>4. PICK ioc \in Nat, m \in Nat : m < 32 * KB /\ l = (32 * KB) * ioc + m
  BY <1>2, Divided
<1>5. PICK rest \in Nat, st \in Nat : st < 256 /\ m = 256 * rest + st
  <2> DEFINE n == 256
  <2>1. n \in Nat /\ n > 0
    OBVIOUS
  <2> HIDE DEF n
  <2>2. \E rest \in Nat, st \in Nat : st < n /\ m = n * rest + st
    BY <2>1, Divided
  <2> QED BY <2>2 DEF n
<1>6. total < 32 * KB /\ ioc \in {0, 1} /\ rest < 128
  BY <1>1, <1>3, <1>4, <1>5 DEF KB
<1>7. w = Token(total, ioc, rest, st)
  BY <1>3, <1>4, <1>5 DEF Token, KB
<1> QED BY <1>5, <1>6, <1>7 DEF IsToken

\* Writing a field of the token changes that field and no other.
LEMMA WriteStatus ==
    ASSUME NEW w \in Word, NEW v \in Nat, v < 256
    PROVE  /\ modify_reg(w, STATUS, v) \in Word
           /\ read_reg(modify_reg(w, STATUS, v), STATUS) = v
           /\ read_reg(modify_reg(w, STATUS, v), IOC) = read_reg(w, IOC)
           /\ read_reg(modify_reg(w, STATUS, v), TOTAL_BYTES) = read_reg(w, TOTAL_BYTES)
<1>1. PICK total, ioc, rest, st :
        IsToken(total, ioc, rest, st) /\ w = Token(total, ioc, rest, st)
  BY TokenParts
<1>2. /\ read_reg(w, STATUS) = st
      /\ read_reg(w, IOC) = ioc
      /\ read_reg(w, TOTAL_BYTES) = total
  BY <1>1, TokenRead
<1>3. modify_reg(w, STATUS, v) = w + (v - st)
  <2>1. modify_reg(w, STATUS, v) = w + ((v % 256) - st) * 1
    BY <1>2 DEF modify_reg, STATUS
  <2>2. v % 256 = v /\ st \in Nat
    BY <1>1 DEF IsToken
  <2> QED BY <2>1, <2>2
<1>4. w + (v - st) = Token(total, ioc, rest, v) /\ IsToken(total, ioc, rest, v)
  BY <1>1 DEF Token, IsToken, KB
<1> QED BY <1>2, <1>3, <1>4, TokenRead

\* So with the other fields.
LEMMA WriteIoc ==
    ASSUME NEW w \in Word, NEW v \in {0, 1}
    PROVE  /\ modify_reg(w, IOC, v) \in Word
           /\ read_reg(modify_reg(w, IOC, v), STATUS) = read_reg(w, STATUS)
           /\ read_reg(modify_reg(w, IOC, v), IOC) = v
           /\ read_reg(modify_reg(w, IOC, v), TOTAL_BYTES) = read_reg(w, TOTAL_BYTES)
<1>1. PICK total, ioc, rest, st :
        IsToken(total, ioc, rest, st) /\ w = Token(total, ioc, rest, st)
  BY TokenParts
<1>2. /\ read_reg(w, STATUS) = st
      /\ read_reg(w, IOC) = ioc
      /\ read_reg(w, TOTAL_BYTES) = total
  BY <1>1, TokenRead
<1>3. modify_reg(w, IOC, v) = w + (v - ioc) * (32 * KB)
  <2>1. modify_reg(w, IOC, v) = w + ((v % 2) - read_reg(w, IOC)) * (32 * KB)
    BY DEF modify_reg, IOC
  <2>2. v % 2 = v
    OBVIOUS
  <2> QED BY <1>2, <2>1, <2>2
<1>4. /\ w + (v - ioc) * (32 * KB) = Token(total, v, rest, st)
      /\ IsToken(total, v, rest, st)
  BY <1>1 DEF Token, IsToken, KB
<1> QED BY <1>2, <1>3, <1>4, TokenRead

LEMMA WriteTotal ==
    ASSUME NEW w \in Word, NEW v \in Nat, v < 32 * KB
    PROVE  /\ modify_reg(w, TOTAL_BYTES, v) \in Word
           /\ read_reg(modify_reg(w, TOTAL_BYTES, v), STATUS) = read_reg(w, STATUS)
           /\ read_reg(modify_reg(w, TOTAL_BYTES, v), IOC) = read_reg(w, IOC)
           /\ read_reg(modify_reg(w, TOTAL_BYTES, v), TOTAL_BYTES) = v
<1>1. PICK total, ioc, rest, st :
        IsToken(total, ioc, rest, st) /\ w = Token(total, ioc, rest, st)
  BY TokenParts
<1>2. /\ read_reg(w, STATUS) = st
      /\ read_reg(w, IOC) = ioc
      /\ read_reg(w, TOTAL_BYTES) = total
  BY <1>1, TokenRead
<1>3. modify_reg(w, TOTAL_BYTES, v) = w + (v - total) * (64 * KB)
  <2>1. modify_reg(w, TOTAL_BYTES, v) =
          w + ((v % (32 * KB)) - read_reg(w, TOTAL_BYTES)) * (64 * KB)
    BY DEF modify_reg, TOTAL_BYTES
  <2>2. v % (32 * KB) = v
    BY DEF KB
  <2> QED BY <1>2, <2>1, <2>2
<1>4. /\ w + (v - total) * (64 * KB) = Token(v, ioc, rest, st)
      /\ IsToken(v, ioc, rest, st)
  BY <1>1 DEF Token, IsToken, KB
<1> QED BY <1>2, <1>3, <1>4, TokenRead

\* A queue head's word has nothing but its three fields.
Capabilities(zlt, mpl, ios) == 512 * KB * KB * zlt + 64 * KB * mpl + 32 * KB * ios
IsCapabilities(zlt, mpl, ios) ==
    zlt \in {0, 1} /\ mpl \in Nat /\ mpl <= KB /\ ios \in {0, 1}

LEMMA CapabilitiesRead ==
    ASSUME NEW zlt, NEW mpl, NEW ios, IsCapabilities(zlt, mpl, ios),
           NEW w, w = Capabilities(zlt, mpl, ios)
    PROVE  /\ w \in Word
           /\ read_reg(w, ZLT) = zlt
           /\ read_reg(w, MAXIMUM_PACKET_LENGTH) = mpl
           /\ read_reg(w, IOS) = ios
<1> USE DEF IsCapabilities
<1>1. /\ w \in Nat /\ w <= (2 * KB * KB - 1) * KB + KB - 1
  BY DEF Capabilities, KB
<1>2. w \in Word
  BY <1>1 DEF Word
<1>3. (w \div (512 * KB * KB)) % 2 = zlt
  <2>1. /\ w = (512 * KB * KB) * zlt + (64 * KB * mpl + 32 * KB * ios)
        /\ 512 * KB * KB \in Nat /\ 64 * KB * mpl + 32 * KB * ios \in Nat
        /\ 64 * KB * mpl + 32 * KB * ios < 512 * KB * KB
        /\ zlt \in Nat
    BY DEF Capabilities, KB
  <2>2. w \div (512 * KB * KB) = zlt
    BY <2>1, DivMod
  <2>3. zlt % 2 = zlt
    OBVIOUS
  <2> QED BY <2>2, <2>3
<1>4. (w \div (64 * KB)) % (2 * KB) = mpl
  <2>1. /\ w = (64 * KB) * (8 * KB * zlt + mpl) + 32 * KB * ios
        /\ 64 * KB \in Nat /\ 8 * KB * zlt + mpl \in Nat
        /\ 32 * KB * ios \in Nat /\ 32 * KB * ios < 64 * KB
    BY DEF Capabilities, KB
  <2>2. w \div (64 * KB) = 8 * KB * zlt + mpl
    BY <2>1, DivMod
  <2>3. /\ 8 * KB * zlt + mpl = (2 * KB) * (4 * zlt) + mpl
        /\ 2 * KB \in Nat /\ 4 * zlt \in Nat /\ mpl \in Nat /\ mpl < 2 * KB
    BY DEF KB
  <2>4. (8 * KB * zlt + mpl) % (2 * KB) = mpl
    BY <2>3, DivMod
  <2> QED BY <2>2, <2>4
<1>5. (w \div (32 * KB)) % 2 = ios
  <2>1. /\ w = (32 * KB) * (16 * KB * zlt + 2 * mpl + ios) + 0
        /\ 32 * KB \in Nat /\ 16 * KB * zlt + 2 * mpl + ios \in Nat /\ 0 < 32 * KB
    BY DEF Capabilities, KB
  <2>2. w \div (32 * KB) = 16 * KB * zlt + 2 * mpl + ios
    BY <2>1, DivMod
  <2>3. (16 * KB * zlt + 2 * mpl + ios) % 2 = ios
    BY DEF KB
  <2> QED BY <2>2, <2>3
<1> QED
  BY <1>2, <1>3, <1>4, <1>5 DEF read_reg, ZLT, MAXIMUM_PACKET_LENGTH, IOS

\* Endpoint::new builds it from nothing.
LEMMA CapabilitiesNew ==
    ASSUME NEW len \in Nat, NEW k
    PROVE  NewCapabilities(len, k) =
             Capabilities(1, Least(len, KB), Bit(k = "control_out"))
<1> DEFINE mpl == Least(len, KB)
           ios == Bit(k = "control_out")
<1>1. mpl \in Nat /\ mpl <= KB /\ ios \in {0, 1}
  BY DEF Least, Bit, KB
<1> HIDE DEF mpl, ios
<1>2. modify_reg(0, ZLT, 1) = Capabilities(1, 0, 0)
  <2>1. 0 = Capabilities(0, 0, 0) /\ IsCapabilities(0, 0, 0)
    BY DEF Capabilities, IsCapabilities, KB
  <2>2. read_reg(0, ZLT) = 0
    BY <2>1, CapabilitiesRead
  <2>3. modify_reg(0, ZLT, 1) = 0 + ((1 % 2) - 0) * (512 * KB * KB)
    BY <2>2 DEF modify_reg, ZLT
  <2> QED BY <2>3 DEF Capabilities, KB
<1>3. modify_reg(Capabilities(1, 0, 0), MAXIMUM_PACKET_LENGTH, mpl) = Capabilities(1, mpl, 0)
  <2>1. IsCapabilities(1, 0, 0)
    BY DEF IsCapabilities, KB
  <2>2. read_reg(Capabilities(1, 0, 0), MAXIMUM_PACKET_LENGTH) = 0
    BY <2>1, CapabilitiesRead
  <2>3. mpl % (2 * KB) = mpl
    BY <1>1 DEF KB
  <2>4. modify_reg(Capabilities(1, 0, 0), MAXIMUM_PACKET_LENGTH, mpl) =
          Capabilities(1, 0, 0) + ((mpl % (2 * KB)) - 0) * (64 * KB)
    BY <2>2 DEF modify_reg, MAXIMUM_PACKET_LENGTH
  <2> QED BY <1>1, <2>3, <2>4 DEF Capabilities, KB
<1>4. modify_reg(Capabilities(1, mpl, 0), IOS, ios) = Capabilities(1, mpl, ios)
  <2>1. IsCapabilities(1, mpl, 0)
    BY <1>1 DEF IsCapabilities
  <2>2. read_reg(Capabilities(1, mpl, 0), IOS) = 0
    BY <2>1, CapabilitiesRead
  <2>3. ios % 2 = ios
    BY <1>1
  <2>4. modify_reg(Capabilities(1, mpl, 0), IOS, ios) =
          Capabilities(1, mpl, 0) + ((ios % 2) - 0) * (32 * KB)
    BY <2>2 DEF modify_reg, IOS
  <2> QED BY <1>1, <2>3, <2>4 DEF Capabilities, KB
<1> QED
  BY <1>2, <1>3, <1>4 DEF NewCapabilities, mpl, ios

\* enable_zlt clears ZLT and nothing else.
LEMMA CapabilitiesZlt ==
    ASSUME NEW zlt, NEW mpl, NEW ios, IsCapabilities(zlt, mpl, ios)
    PROVE  modify_reg(Capabilities(zlt, mpl, ios), ZLT, 0) = Capabilities(0, mpl, ios)
<1>1. read_reg(Capabilities(zlt, mpl, ios), ZLT) = zlt
  BY CapabilitiesRead
<1>2. modify_reg(Capabilities(zlt, mpl, ios), ZLT, 0) =
        Capabilities(zlt, mpl, ios) + ((0 % 2) - zlt) * (512 * KB * KB)
  BY <1>1 DEF modify_reg, ZLT
<1> QED
  BY <1>2 DEF Capabilities, IsCapabilities, KB
(***************************************************************************)
(* One transfer after another.  The descriptor holds what was asked for    *)
(* from schedule_transfer on until the controller retires it, and then     *)
(* what was moved; the queue head keeps the packet length it was given.    *)
(***************************************************************************)
Limit == Least(buffer.len, KB)

Filled ==
    /\ td.NEXT = 1
    /\ read_reg(td.TOKEN, IOC) = 1
    /\ read_reg(td.TOKEN, STATUS) = ACTIVE
    /\ read_reg(td.TOKEN, TOTAL_BYTES) = size
    /\ td.last_transfer_size = size
    /\ td.BUFFER_POINTERS = [k \in Pages |-> IF size = 0 THEN 0 ELSE first_byte(buffer.ptr, k)]

WordsInv ==
    /\ TypeOK
    /\ \E zlt \in {0, 1} :
         CAPABILITIES = Capabilities(zlt, Limit, Bit(kind = "control_out"))
    /\ size <= Limit /\ returned <= buffer.len
    /\ pc = "idle" => bytes_transferred(td) = moved
    /\ pc \in {"td", "qh", "primed"} => Filled
    /\ pc \in {"qh", "primed"} => overlay.NEXT = TdAddr /\ status(overlay) = 0

\* The fields of a descriptor whose token alone is written.
LEMMA SetField ==
    ASSUME NEW t \in Td, NEW f, NEW v, modify_reg(t.TOKEN, f, v) \in Word
    PROVE  /\ set_field(t, f, v) \in Td
           /\ set_field(t, f, v).TOKEN = modify_reg(t.TOKEN, f, v)
           /\ set_field(t, f, v).NEXT = t.NEXT
           /\ set_field(t, f, v).BUFFER_POINTERS = t.BUFFER_POINTERS
           /\ set_field(t, f, v).last_transfer_size = t.last_transfer_size
<1> HIDE DEF Word
<1> QED BY DEF set_field, Td

\* Every pointer is an address.
LEMMA PointersTyped ==
    ASSUME NEW ptr \in Nat, NEW n \in Nat
    PROVE  [k \in Pages |-> IF n = 0 THEN 0 ELSE first_byte(ptr, k)] \in [Pages -> Nat]
<1> SUFFICES ASSUME NEW k \in Pages PROVE first_byte(ptr, k) \in Nat
  OBVIOUS
<1>1. PTR_ALIGNMENT \in Nat /\ PTR_ALIGNMENT > 0
  BY DEF PTR_ALIGNMENT, KB
<1>2. PICK q \in Nat, r \in Nat : r < PTR_ALIGNMENT /\ ptr = PTR_ALIGNMENT * q + r
  BY <1>1, Divided
<1>3. ptr % PTR_ALIGNMENT = r
  BY <1>1, <1>2, DivMod
<1>4. k \in Nat /\ k * PTR_ALIGNMENT \in Nat
  BY <1>1 DEF Pages
<1> QED BY <1>1, <1>2, <1>3, <1>4 DEF first_byte

\* What schedule_transfer makes of any descriptor.
FilledTd(t, ptr, n) ==
    set_active(set_interrupt_on_complete(set_buffer(set_terminate(t), ptr, n), TRUE))

LEMMA FillWords ==
    ASSUME NEW t \in Td, NEW ptr \in Nat, NEW n \in Nat, n < 32 * KB,
           NEW u, u = FilledTd(t, ptr, n)
    PROVE  /\ u \in Td
           /\ u.NEXT = 1
           /\ read_reg(u.TOKEN, IOC) = 1
           /\ read_reg(u.TOKEN, STATUS) = ACTIVE
           /\ read_reg(u.TOKEN, TOTAL_BYTES) = n
           /\ u.last_transfer_size = n
           /\ u.BUFFER_POINTERS = [k \in Pages |-> IF n = 0 THEN 0 ELSE first_byte(ptr, k)]
<1> DEFINE pointers == [k \in Pages |-> IF n = 0 THEN 0 ELSE first_byte(ptr, k)]
           t1 == set_terminate(t)
           t2 == set_field(t1, TOTAL_BYTES, n)
           t3 == [t2 EXCEPT !.last_transfer_size = n, !.BUFFER_POINTERS = pointers]
           t4 == set_field(t3, IOC, 1)
<1>0. pointers \in [Pages -> Nat]
  BY PointersTyped
<1>1. t1 \in Td /\ t1.NEXT = 1 /\ t1.TOKEN \in Word
  <2> HIDE DEF Word
  <2> QED BY DEF set_terminate, Td
<1> HIDE DEF t1, pointers
<1>2. /\ modify_reg(t1.TOKEN, TOTAL_BYTES, n) \in Word
      /\ read_reg(modify_reg(t1.TOKEN, TOTAL_BYTES, n), TOTAL_BYTES) = n
  BY <1>1, WriteTotal
<1>3. /\ t2 \in Td /\ t2.NEXT = 1 /\ t2.TOKEN \in Word
      /\ read_reg(t2.TOKEN, TOTAL_BYTES) = n
  BY <1>1, <1>2, SetField
<1> HIDE DEF t2
<1>4. /\ t3 \in Td /\ t3.NEXT = 1 /\ t3.TOKEN = t2.TOKEN
      /\ t3.last_transfer_size = n /\ t3.BUFFER_POINTERS = pointers
  <2> HIDE DEF Word
  <2> QED BY <1>0, <1>3 DEF Td
<1> HIDE DEF t3
<1>5. /\ modify_reg(t3.TOKEN, IOC, 1) \in Word
      /\ read_reg(modify_reg(t3.TOKEN, IOC, 1), IOC) = 1
      /\ read_reg(modify_reg(t3.TOKEN, IOC, 1), TOTAL_BYTES) = n
  BY <1>3, <1>4, WriteIoc
<1>6. /\ t4 \in Td /\ t4.NEXT = 1 /\ t4.TOKEN = modify_reg(t3.TOKEN, IOC, 1)
      /\ t4.last_transfer_size = n /\ t4.BUFFER_POINTERS = pointers
  BY <1>4, <1>5, SetField
<1> HIDE DEF t4
<1>7. /\ modify_reg(t4.TOKEN, STATUS, ACTIVE) \in Word
      /\ read_reg(modify_reg(t4.TOKEN, STATUS, ACTIVE), STATUS) = ACTIVE
      /\ read_reg(modify_reg(t4.TOKEN, STATUS, ACTIVE), IOC) = 1
      /\ read_reg(modify_reg(t4.TOKEN, STATUS, ACTIVE), TOTAL_BYTES) = n
  <2>1. ACTIVE \in Nat /\ ACTIVE < 256
    BY DEF ACTIVE
  <2>2. t4.TOKEN \in Word /\ read_reg(t4.TOKEN, IOC) = 1
        /\ read_reg(t4.TOKEN, TOTAL_BYTES) = n
    BY <1>5, <1>6
  <2> QED BY <2>1, <2>2, WriteStatus
<1>8. u = set_field(t4, STATUS, ACTIVE)
  BY DEF FilledTd, set_active, set_interrupt_on_complete, set_buffer, Bit,
         t4, t3, t2, t1, pointers
<1>9. /\ u \in Td /\ u.TOKEN = modify_reg(t4.TOKEN, STATUS, ACTIVE)
      /\ u.NEXT = 1 /\ u.last_transfer_size = n /\ u.BUFFER_POINTERS = pointers
  <2>1. modify_reg(t4.TOKEN, STATUS, ACTIVE) \in Word
    BY <1>7
  <2> DEFINE v == set_field(t4, STATUS, ACTIVE)
  <2>2. /\ v \in Td /\ v.TOKEN = modify_reg(t4.TOKEN, STATUS, ACTIVE)
        /\ v.NEXT = t4.NEXT /\ v.BUFFER_POINTERS = t4.BUFFER_POINTERS
        /\ v.last_transfer_size = t4.last_transfer_size
    BY <1>6, <2>1, SetField
  <2> HIDE DEF v
  <2>3. u = v
    BY <1>8 DEF v
  <2> QED BY <1>6, <2>2, <2>3
<1> HIDE DEF Word, Td
<1> QED
  BY <1>7, <1>9 DEF pointers

\* What the controller makes of one it has retired.
LEMMA RetireWords ==
    ASSUME NEW t \in Td, NEW error \in Errors \cup {0}, NEW n \in Nat,
           n <= read_reg(t.TOKEN, TOTAL_BYTES),
           NEW u, u = set_field(set_field(t, STATUS, error), TOTAL_BYTES,
                                read_reg(t.TOKEN, TOTAL_BYTES) - n)
    PROVE  /\ u \in Td
           /\ status(u) = error
           /\ read_reg(u.TOKEN, TOTAL_BYTES) = read_reg(t.TOKEN, TOTAL_BYTES) - n
           /\ u.last_transfer_size = t.last_transfer_size
<1> DEFINE total == read_reg(t.TOKEN, TOTAL_BYTES)
           t1 == set_field(t, STATUS, error)
<1>0. t.TOKEN \in Word
  <2> HIDE DEF Word
  <2> QED BY DEF Td
<1>1. total \in Nat /\ total < 32 * KB
  <2>1. PICK tot, ioc, rest, st :
          IsToken(tot, ioc, rest, st) /\ t.TOKEN = Token(tot, ioc, rest, st)
    BY <1>0, TokenParts
  <2>2. total = tot
    BY <2>1, TokenRead
  <2> QED BY <2>1, <2>2 DEF IsToken
<1>2. error \in Nat /\ error < 256
  BY DEF Errors
<1> HIDE DEF total
<1>3. /\ modify_reg(t.TOKEN, STATUS, error) \in Word
      /\ read_reg(modify_reg(t.TOKEN, STATUS, error), STATUS) = error
  BY <1>0, <1>2, WriteStatus
<1>4. /\ t1 \in Td /\ t1.TOKEN \in Word /\ read_reg(t1.TOKEN, STATUS) = error
      /\ t1.last_transfer_size = t.last_transfer_size
  BY <1>3, SetField
<1> HIDE DEF t1
<1>5. total - n \in Nat /\ total - n < 32 * KB
  <2>1. 32 * KB \in Nat
    BY DEF KB
  <2> QED BY <1>1, <2>1 DEF total
<1>6. /\ modify_reg(t1.TOKEN, TOTAL_BYTES, total - n) \in Word
      /\ read_reg(modify_reg(t1.TOKEN, TOTAL_BYTES, total - n), TOTAL_BYTES) = total - n
      /\ read_reg(modify_reg(t1.TOKEN, TOTAL_BYTES, total - n), STATUS) = error
  BY <1>4, <1>5, WriteTotal
<1>7. u = set_field(t1, TOTAL_BYTES, total - n)
  BY DEF t1, total
<1>8. /\ u \in Td /\ u.last_transfer_size = t1.last_transfer_size
      /\ u.TOKEN = modify_reg(t1.TOKEN, TOTAL_BYTES, total - n)
  BY <1>4, <1>6, <1>7, SetField
<1> QED
  BY <1>4, <1>6, <1>8 DEF total, status

\* The packet length is the queue head's, whatever else its word holds.
LEMMA PacketLength ==
    ASSUME WordsInv
    PROVE  /\ Limit \in Nat /\ Limit <= KB /\ Limit <= buffer.len
           /\ buffer.ptr \in Nat /\ buffer.len \in Nat
           /\ max_packet_len = Limit
           /\ CAPABILITIES \in Word
           /\ read_reg(CAPABILITIES, IOS) = Bit(kind = "control_out")
<1>1. buffer \in [ptr : Nat, len : Nat]
  BY LayoutAssumption DEF WordsInv, TypeOK
<1>2. /\ Limit \in Nat /\ Limit <= KB /\ Limit <= buffer.len
      /\ Bit(kind = "control_out") \in {0, 1}
  BY <1>1 DEF Limit, Least, KB, Bit
<1>3. PICK zlt \in {0, 1} :
        CAPABILITIES = Capabilities(zlt, Limit, Bit(kind = "control_out"))
  BY DEF WordsInv
<1>4. IsCapabilities(zlt, Limit, Bit(kind = "control_out"))
  BY <1>2 DEF IsCapabilities
<1> QED
  BY <1>1, <1>2, <1>3, <1>4, CapabilitiesRead DEF max_packet_len

\* A queue head and a descriptor that are new hold nothing.
LEMMA WordsInit == Init => WordsInv
<1> SUFFICES ASSUME Init PROVE WordsInv
  OBVIOUS
<1>1. buffer \in [ptr : Nat, len : Nat]
  BY LayoutAssumption DEF Init
<1>2. CAPABILITIES = Capabilities(1, Limit, Bit(kind = "control_out"))
  BY <1>1, CapabilitiesNew DEF Init, Limit
<1>3. IsCapabilities(1, Limit, Bit(kind = "control_out"))
  BY <1>1 DEF IsCapabilities, Limit, Least, Bit, KB
<1>4. CAPABILITIES \in Word
  BY <1>2, <1>3, CapabilitiesRead
<1>5. 0 = Token(0, 0, 0, 0) /\ IsToken(0, 0, 0, 0) /\ 0 \in Word
  <2>1. 0 = Token(0, 0, 0, 0) /\ IsToken(0, 0, 0, 0)
    BY DEF Token, IsToken, KB
  <2> QED BY <2>1, TokenRead
<1>6. NewTd \in Td
  <2>1. [k \in Pages |-> 0] \in [Pages -> Nat]
    OBVIOUS
  <2> HIDE DEF Word
  <2> QED BY <1>5, <2>1 DEF NewTd, Td
<1>7. /\ set_terminate(NewTd) \in Td /\ set_terminate(NewTd).TOKEN = 0
      /\ set_terminate(NewTd).last_transfer_size = 0
  <2>1. NewTd.TOKEN = 0 /\ NewTd.last_transfer_size = 0
    BY DEF NewTd
  <2> HIDE DEF Word
  <2> QED BY <1>6, <2>1 DEF set_terminate, Td
<1>8. /\ modify_reg(0, STATUS, 0) \in Word
      /\ read_reg(modify_reg(0, STATUS, 0), TOTAL_BYTES) = 0
  BY <1>5, TokenRead, WriteStatus
<1>9. /\ td \in Td /\ td.TOKEN = modify_reg(0, STATUS, 0)
      /\ td.last_transfer_size = 0
  BY <1>7, <1>8, SetField DEF Init, clear_status
<1>10. TypeOK
  <2> HIDE DEF Word, Td
  <2> QED BY <1>4, <1>6, <1>9 DEF Init, TypeOK
<1>11. bytes_transferred(td) = 0
  BY <1>8, <1>9 DEF bytes_transferred
<1>12. Limit \in Nat
  BY <1>1 DEF Limit, Least, KB
<1> HIDE DEF Word, Td
<1>13. size <= Limit /\ returned <= buffer.len
  BY <1>1, <1>12 DEF Init
<1> QED
  BY <1>2, <1>10, <1>11, <1>13 DEF Init, WordsInv

\* Cleaning is only of the three objects, and takes numbers to numbers.
LEMMA CleanTyped ==
    ASSUME CleanInv, CleanInv'
    PROVE  /\ request' \in [addr : Nat, size : Nat]
           /\ addr' \in Nat /\ lines' \in Nat /\ cleaned' \subseteq Nat
BY DEF CleanInv, CursorOK

\* The calls that choose what to transfer leave the words alone.
LEMMA ChooseKeeps ==
    ASSUME WordsInv, CleanInv, CleanInv',
           UNCHANGED <<kind, buffer, words, moved>>,
           pc' \in {"fill", "buffer"}, object' \in {"buffer", "td", "qh"},
           size' \in Nat, size' <= Limit, returned' \in Nat, returned' <= buffer.len
    PROVE  WordsInv'
<1> HIDE DEF Word, Td
<1>1. /\ request' \in [addr : Nat, size : Nat]
      /\ addr' \in Nat /\ lines' \in Nat /\ cleaned' \subseteq Nat
  BY CleanTyped
<1>2. TypeOK'
  BY <1>1 DEF WordsInv, TypeOK, words
<1>3. Limit' = Limit
  BY DEF Limit
<1> QED
  BY <1>2, <1>3 DEF WordsInv, words

\* The three calls do so, within the packet length.
LEMMA WriteStep ==
    ASSUME WordsInv, CleanInv, CleanInv', NEW len \in Lengths, write(len)
    PROVE  WordsInv'
<1>1. len \in Nat
  BY LayoutAssumption
<1>2. volatile_copy(Least(max_packet_len, len)) \in Nat
      /\ volatile_copy(Least(max_packet_len, len)) <= Limit
  BY <1>1, PacketLength DEF volatile_copy, Least
<1>3. /\ size' = volatile_copy(Least(max_packet_len, len))
      /\ pc' = "buffer" /\ object' = "buffer"
      /\ UNCHANGED <<kind, buffer, words, moved, returned>>
  BY DEF write, clean_invalidate_dcache
<1>4. returned' \in Nat /\ returned' <= buffer.len
  BY <1>3 DEF WordsInv, TypeOK
<1> QED
  BY <1>2, <1>3, <1>4, ChooseKeeps

LEMMA ReadStep ==
    ASSUME WordsInv, CleanInv, CleanInv', NEW len \in Lengths, read(len)
    PROVE  WordsInv'
<1>1. len \in Nat
  BY LayoutAssumption
<1>2. bytes_transferred(td) \in Nat
  BY DEF read, WordsInv, TypeOK
<1>3. /\ returned' \in Nat /\ returned' <= buffer.len
  <2>1. returned' = volatile_copy(Least(max_packet_len, Least(len, bytes_transferred(td))))
    BY DEF read
  <2> QED BY <1>1, <1>2, <2>1, PacketLength DEF volatile_copy, Least
<1>4. /\ size' = Limit /\ pc' = "fill" /\ object' = object
      /\ UNCHANGED <<kind, buffer, words, moved>>
  BY PacketLength DEF read, cache
<1>5. object \in {"buffer", "td", "qh"}
  BY DEF WordsInv, TypeOK
<1>6. size' \in Nat /\ size' <= Limit
  BY <1>4, PacketLength
<1>7. pc' \in {"fill", "buffer"} /\ object' \in {"buffer", "td", "qh"}
  BY <1>4, <1>5
<1> QED
  BY <1>3, <1>4, <1>6, <1>7, ChooseKeeps

LEMMA ArmStep ==
    ASSUME WordsInv, CleanInv, CleanInv', NEW n \in {0, max_packet_len}, arm(n)
    PROVE  WordsInv'
<1>1. n \in Nat /\ n <= Limit
  BY PacketLength
<1>2. /\ size' = n /\ pc' = "fill" /\ object' = object /\ returned' = returned
      /\ UNCHANGED <<kind, buffer, words, moved>>
  BY DEF arm, cache
<1>3. /\ object' \in {"buffer", "td", "qh"}
      /\ returned' \in Nat /\ returned' <= buffer.len
  BY <1>2 DEF WordsInv, TypeOK
<1>4. size' \in Nat /\ size' <= Limit /\ pc' \in {"fill", "buffer"}
  BY <1>1, <1>2
<1> QED
  BY <1>2, <1>3, <1>4, ChooseKeeps

\* Filling, cleaning and retiring, whatever the words held before.
LEMMA FillStep ==
    ASSUME WordsInv, CleanInv, CleanInv', schedule_transfer
    PROVE  WordsInv'
<1>1. /\ td' = set_active(set_interrupt_on_complete(
                 set_buffer(set_terminate(td), buffer.ptr, size), TRUE))
      /\ pc' = "td" /\ object' = "td"
      /\ UNCHANGED <<kind, buffer, CAPABILITIES, overlay, size, moved, returned>>
  BY DEF schedule_transfer, clean_invalidate_dcache
<1>2. /\ td \in Td /\ overlay \in Td /\ size \in Nat /\ size <= Limit
      /\ moved \in Nat /\ returned \in Nat
  BY DEF WordsInv, TypeOK
<1>3. size < 32 * KB /\ buffer.ptr \in Nat
  BY <1>2, PacketLength DEF KB
<1>4. td' \in Td /\ Filled'
  <2>1. /\ td' \in Td /\ td'.NEXT = 1 /\ read_reg(td'.TOKEN, IOC) = 1
        /\ read_reg(td'.TOKEN, STATUS) = ACTIVE
        /\ read_reg(td'.TOKEN, TOTAL_BYTES) = size
        /\ td'.last_transfer_size = size
        /\ td'.BUFFER_POINTERS =
             [k \in Pages |-> IF size = 0 THEN 0 ELSE first_byte(buffer.ptr, k)]
    <3>1. td' = FilledTd(td, buffer.ptr, size)
      BY <1>1 DEF FilledTd
    <3> QED BY <1>2, <1>3, <3>1, FillWords
  <2> QED BY <1>1, <2>1 DEF Filled
<1> HIDE DEF Word, Td, Filled
<1>5. TypeOK'
  BY <1>1, <1>2, <1>4, CleanTyped DEF WordsInv, TypeOK
<1>6. Limit' = Limit
  BY <1>1 DEF Limit
<1> QED
  BY <1>1, <1>4, <1>5, <1>6 DEF WordsInv

LEMMA QhStep ==
    ASSUME WordsInv, CleanInv, CleanInv', schedule_transfer_qh
    PROVE  WordsInv'
<1>1. /\ pc = "td"
      /\ overlay' = clear_status(set_next(overlay, TdAddr))
      /\ pc' = "qh" /\ object' = "qh"
      /\ UNCHANGED <<kind, buffer, CAPABILITIES, td, size, moved, returned>>
  BY DEF schedule_transfer_qh, clean_invalidate_dcache, Cleaned
<1>2. overlay \in Td
  BY DEF WordsInv, TypeOK
<1> DEFINE o == set_next(overlay, TdAddr)
<1>3. o \in Td /\ o.NEXT = TdAddr /\ o.TOKEN \in Word
  <2> HIDE DEF Word
  <2> QED BY <1>2, LayoutAssumption DEF set_next, Td
<1> HIDE DEF o
<1>4. /\ modify_reg(o.TOKEN, STATUS, 0) \in Word
      /\ read_reg(modify_reg(o.TOKEN, STATUS, 0), STATUS) = 0
  BY <1>3, WriteStatus
<1>5. overlay' \in Td /\ overlay'.NEXT = TdAddr /\ status(overlay') = 0
  <2> DEFINE v == set_field(o, STATUS, 0)
  <2>1. v \in Td /\ v.NEXT = TdAddr /\ v.TOKEN = modify_reg(o.TOKEN, STATUS, 0)
    BY <1>3, <1>4, SetField
  <2>2. overlay' = v
    BY <1>1 DEF clear_status, o
  <2> HIDE DEF v
  <2> QED BY <1>4, <2>1, <2>2 DEF status
<1> HIDE DEF Word, Td
<1>6. TypeOK'
  BY <1>1, <1>5, CleanTyped DEF WordsInv, TypeOK
<1>7. Filled' /\ Limit' = Limit
  BY <1>1 DEF WordsInv, Filled, Limit
<1>8. status(overlay)' = 0
  BY <1>5 DEF status
<1> QED
  BY <1>1, <1>5, <1>6, <1>7, <1>8 DEF WordsInv

LEMMA RetireStep ==
    ASSUME WordsInv, CleanInv, CleanInv',
           NEW n \in Lengths \cup {size}, NEW error \in Errors \cup {0}, Retire(n, error)
    PROVE  WordsInv'
<1> DEFINE total == read_reg(td.TOKEN, TOTAL_BYTES)
<1>1. /\ pc = "primed" /\ pc' = "idle" /\ n <= total
      /\ td' = set_field(set_field(td, STATUS, error), TOTAL_BYTES, total - n)
      /\ overlay' = [td' EXCEPT !.last_transfer_size = overlay.last_transfer_size]
      /\ moved' = n
      /\ UNCHANGED <<kind, buffer, CAPABILITIES, size, cache, returned>>
  BY DEF Retire
<1>2. /\ td \in Td /\ overlay \in Td /\ size \in Nat /\ returned \in Nat
      /\ total = size /\ td.last_transfer_size = size
  BY <1>1 DEF WordsInv, TypeOK, Filled
<1>3. n \in Nat
  BY <1>2, LayoutAssumption
<1>4. /\ td' \in Td /\ td'.last_transfer_size = size
      /\ read_reg(td'.TOKEN, TOTAL_BYTES) = size - n
  BY <1>1, <1>2, <1>3, RetireWords
<1>5. bytes_transferred(td') = n
  BY <1>2, <1>3, <1>4 DEF bytes_transferred
<1>6. overlay' \in Td
  <2>1. overlay.last_transfer_size \in Nat
    BY <1>2 DEF Td
  <2> HIDE DEF Word
  <2> QED BY <1>1, <1>4, <2>1 DEF Td
<1> HIDE DEF Word, Td
<1>7. TypeOK'
  BY <1>1, <1>3, <1>4, <1>6 DEF WordsInv, TypeOK, cache
<1>8. Limit' = Limit
  BY <1>1 DEF Limit
<1>9. bytes_transferred(td)' = moved'
  BY <1>1, <1>5 DEF bytes_transferred
<1> QED
  BY <1>1, <1>7, <1>8, <1>9 DEF WordsInv

\* A transfer that is flushed has moved none of what it was to move.
LEMMA FlushedStep ==
    ASSUME WordsInv, CleanInv, CleanInv', Flushed
    PROVE  WordsInv'
<1>1. /\ pc = "primed" /\ pc' = "idle" /\ moved' = 0
      /\ overlay' = [td EXCEPT !.last_transfer_size = overlay.last_transfer_size]
      /\ UNCHANGED <<kind, buffer, CAPABILITIES, td, size, cache, returned>>
  BY DEF Flushed
<1>2. /\ td \in Td /\ overlay \in Td /\ size \in Nat
      /\ read_reg(td.TOKEN, TOTAL_BYTES) = size /\ td.last_transfer_size = size
  BY <1>1 DEF WordsInv, TypeOK, Filled
<1>3. bytes_transferred(td') = 0
  BY <1>1, <1>2 DEF bytes_transferred
<1>4. overlay' \in Td
  <2>1. overlay.last_transfer_size \in Nat
    BY <1>2 DEF Td
  <2> HIDE DEF Word
  <2> QED BY <1>1, <1>2, <2>1 DEF Td
<1> HIDE DEF Word, Td
<1>5. TypeOK'
  BY <1>1, <1>4 DEF WordsInv, TypeOK, cache
<1>6. Limit' = Limit
  BY <1>1 DEF Limit
<1>7. bytes_transferred(td)' = moved'
  BY <1>1, <1>3 DEF bytes_transferred
<1> QED
  BY <1>1, <1>5, <1>6, <1>7 DEF WordsInv

\* Every step keeps the invariant.
LEMMA WordsStep == WordsInv /\ CleanInv /\ CleanInv' /\ [Next]_vars => WordsInv'
<1> SUFFICES ASSUME WordsInv, CleanInv, CleanInv', [Next]_vars PROVE WordsInv'
  OBVIOUS
<1> HIDE DEF Word, Td
<1>1. CASE enable_zlt
  <2>1. /\ pc = "idle" /\ CAPABILITIES' = modify_reg(CAPABILITIES, ZLT, 0)
        /\ UNCHANGED <<kind, buffer, overlay, td, pc, size, cache, moved, returned>>
    BY <1>1 DEF enable_zlt
  <2>2. PICK zlt \in {0, 1} :
          CAPABILITIES = Capabilities(zlt, Limit, Bit(kind = "control_out"))
    BY DEF WordsInv
  <2>3. /\ IsCapabilities(zlt, Limit, Bit(kind = "control_out"))
        /\ IsCapabilities(0, Limit, Bit(kind = "control_out"))
    BY PacketLength DEF IsCapabilities, Bit
  <2>4. CAPABILITIES' = Capabilities(0, Limit, Bit(kind = "control_out"))
    BY <2>1, <2>2, <2>3, CapabilitiesZlt
  <2>5. CAPABILITIES' \in Word
    BY <2>3, <2>4, CapabilitiesRead
  <2>6. TypeOK'
    BY <2>1, <2>5 DEF WordsInv, TypeOK, cache
  <2>7. Limit' = Limit /\ Bit(kind = "control_out")' = Bit(kind = "control_out")
    BY <2>1 DEF Limit, Bit
  <2>8. \E z \in {0, 1} : CAPABILITIES' = Capabilities(z, Limit', Bit(kind = "control_out")')
    BY <2>4, <2>7
  <2>9. size' <= Limit' /\ returned' <= buffer.len'
    BY <2>1, <2>7 DEF WordsInv
  <2>10. bytes_transferred(td)' = moved'
    BY <2>1 DEF WordsInv, bytes_transferred
  <2> QED BY <2>1, <2>6, <2>8, <2>9, <2>10 DEF WordsInv
<1>2. CASE clean_line
  <2>1. /\ pc' = pc /\ object' = object
        /\ UNCHANGED <<kind, buffer, words, size, moved, returned>>
    BY <1>2 DEF clean_line
  <2>2. TypeOK'
    BY <2>1, CleanTyped DEF WordsInv, TypeOK, words
  <2>3. Limit' = Limit /\ (Filled <=> Filled')
    BY <2>1 DEF Limit, Filled, words
  <2> QED BY <2>1, <2>2, <2>3 DEF WordsInv, words
<1>3. ASSUME NEW len \in Lengths, write(len) PROVE WordsInv'
  BY <1>3, WriteStep
<1>4. ASSUME NEW len \in Lengths, read(len) PROVE WordsInv'
  BY <1>4, ReadStep
<1>5. ASSUME NEW n \in {0, max_packet_len}, arm(n) PROVE WordsInv'
  BY <1>5, ArmStep
<1>6. CASE schedule_transfer
  BY <1>6, FillStep
<1>7. CASE schedule_transfer_qh
  BY <1>7, QhStep
<1>8. CASE schedule_transfer_prime
  <2>1. /\ pc = "qh" /\ pc' = "primed"
        /\ UNCHANGED <<kind, buffer, words, size, cache, moved, returned>>
    BY <1>8 DEF schedule_transfer_prime, Cleaned
  <2>2. TypeOK'
    BY <2>1 DEF WordsInv, TypeOK, words, cache
  <2>3. Limit' = Limit /\ Filled'
    BY <2>1 DEF WordsInv, Limit, Filled, words
  <2> QED BY <2>1, <2>2, <2>3 DEF WordsInv, words
<1>9. ASSUME NEW n \in Lengths \cup {size}, NEW error \in Errors \cup {0}, Retire(n, error)
      PROVE  WordsInv'
  BY <1>9, RetireStep
<1>11. CASE Flushed
  BY <1>11, FlushedStep
<1>10. CASE UNCHANGED vars
  <2>1. Limit' = Limit /\ (Filled <=> Filled')
    BY <1>10 DEF Limit, Filled, vars, words
  <2>2. TypeOK'
    BY <1>10 DEF WordsInv, TypeOK, vars, words, cache
  <2> QED BY <1>10, <2>1, <2>2 DEF WordsInv, vars, words, cache
<1> QED
  BY <1>1, <1>2, <1>3, <1>4, <1>5, <1>6, <1>7, <1>8, <1>9, <1>10, <1>11 DEF Next

LEMMA WordsHold == Spec => []WordsInv
<1>1. Init => WordsInv
  BY WordsInit
<1> QED
  BY <1>1, WordsStep, CleanInvHolds, PTL DEF Spec

(***************************************************************************)
(* No word ever leaves its 31 bits, and what bytes_transferred subtracts   *)
(* stays a natural number, for any buffer and any transfer.                *)
(***************************************************************************)
THEOREM TypeCorrect == Spec => []TypeOK
<1>1. WordsInv => TypeOK
  BY DEF WordsInv
<1> QED
  BY <1>1, WordsHold, PTL

(***************************************************************************)
(* Whatever the controller left in the descriptor and the queue head, what *)
(* it finds there when it is primed again is the transfer that was asked   *)
(* for: writing one field of a word never changes another.                 *)
(***************************************************************************)
THEOREM ArmedAsAsked == Spec => []Armed
<1>1. WordsInv => Armed
  <2> SUFFICES ASSUME WordsInv, pc = "primed" PROVE Armed
    BY DEF Armed
  <2>1. Filled /\ overlay.NEXT = TdAddr /\ status(overlay) = 0
        /\ size <= Limit /\ size \in Nat
    BY DEF WordsInv, TypeOK
  <2>2. td.NEXT % 2 = 1 /\ size <= buffer.len
    BY <2>1, PacketLength DEF Filled
  <2> QED BY <2>1, <2>2, PacketLength DEF Armed, Filled, status, Limit
<1> QED
  BY <1>1, WordsHold, PTL

(***************************************************************************)
(* The controller reaches every byte of a transfer by the page pointers,   *)
(* wherever the buffer lies.  A transfer is never longer than a page, so   *)
(* that it takes the first pointer, or the first two.                      *)
(***************************************************************************)
THEOREM EveryByteReached == Spec => []BufferReached
<1>1. WordsInv => BufferReached
  <2> SUFFICES ASSUME WordsInv, pc = "primed", NEW i \in 0 .. size - 1
               PROVE  Reached(i) = buffer.ptr + i
    BY DEF BufferReached
  <2> DEFINE p == PTR_ALIGNMENT
             ptr == buffer.ptr
  <2>1. size \in Nat /\ size <= KB /\ i \in Nat /\ i < size
    BY PacketLength DEF WordsInv, TypeOK, KB
  <2>2. p \in Nat /\ p > 0 /\ i < p
    BY <2>1 DEF PTR_ALIGNMENT, KB
  <2>3. td.BUFFER_POINTERS = [k \in Pages |-> first_byte(ptr, k)]
    BY <2>1 DEF WordsInv, Filled
  <2>4. td.BUFFER_POINTERS[0] = ptr /\ td.BUFFER_POINTERS[1] = ptr - (ptr % p) + 1 * p
    BY <2>3 DEF first_byte, Pages
  <2>5. ptr \in Nat
    BY PacketLength
  <2> HIDE DEF p, ptr
  <2>6. PICK q \in Nat, r \in Nat : r < p /\ ptr = p * q + r
    BY <2>2, <2>5, Divided
  <2>7. ptr % p = r
    BY <2>2, <2>6, DivMod
  <2>8. CASE r + i < p
    <3> DEFINE none == 0
               offset == r + i
    <3>1. /\ offset = p * none + offset /\ offset \in Nat /\ offset < p
          /\ p \in Nat /\ none \in Nat
      BY <2>1, <2>2, <2>6, <2>8
    <3>2. offset \div p = 0 /\ offset % p = offset
      <4> HIDE DEF none, offset
      <4> QED BY <2>2, <3>1
    <3>3. Reached(i) = ptr - (ptr % p) + (r + i)
      BY <2>4, <2>7, <3>2 DEF Reached, p
    <3> QED BY <2>1, <2>5, <2>6, <2>7, <3>3 DEF ptr
  <2>9. CASE ~(r + i < p)
    <3> DEFINE one == 1
               rest == r + i - p
    <3>1. /\ r + i = p * one + rest /\ rest \in Nat /\ rest < p
          /\ p \in Nat /\ one \in Nat
      BY <2>1, <2>2, <2>6, <2>9
    <3>2. (r + i) \div p = 1 /\ (r + i) % p = r + i - p
      <4> HIDE DEF one, rest
      <4>1. (r + i) \div p = one /\ (r + i) % p = rest
        BY <3>1, DivMod
      <4> QED BY <4>1 DEF one, rest
    <3> DEFINE page == ptr - (ptr % p) + 1 * p
               next == q + 1
               none == 0
    <3>3. /\ page = p * next + none /\ next \in Nat
          /\ p \in Nat /\ none \in Nat /\ none < p
      BY <2>2, <2>6, <2>7
    <3>4. page % p = 0
      <4> HIDE DEF page, next, none
      <4>1. page % p = none
        BY <3>3, DivMod
      <4> QED BY <4>1 DEF none
    <3>5. Reached(i) = page - (page % p) + (r + i - p)
      BY <2>4, <2>7, <3>2 DEF Reached, p
    <3>6. page = ptr - r + p
      BY <2>2, <2>5, <2>7
    <3> HIDE DEF page
    <3> QED BY <2>1, <2>2, <2>5, <2>6, <3>4, <3>5, <3>6 DEF ptr
  <2> QED BY <2>8, <2>9
<1> QED
  BY <1>1, WordsHold, PTL

(***************************************************************************)
(* What bytes_transferred answers is what the controller moved, whether    *)
(* the transfer was full or short, failed or was flushed, and a read       *)
(* returns no more than the buffer has.                                    *)
(***************************************************************************)
THEOREM CountExact == Spec => []Counted
<1>1. WordsInv => Counted
  BY DEF WordsInv, Counted
<1> QED
  BY <1>1, WordsHold, PTL

(***************************************************************************)
(* Between one call and the next, the words are a descriptor that is lent  *)
(* and given back.  What its status bits say is one of three things.       *)
(***************************************************************************)
LEMMA StatusSays ==
    ASSUME NEW e \in Errors
    PROVE  /\ (0 \div e) % 2 = 0
           /\ (ACTIVE \div e) % 2 = 0
           /\ (e \div e) % 2 = 1
<1>1. CASE e = 64
  BY <1>1 DEF ACTIVE
<1>2. CASE e = 32
  BY <1>2 DEF ACTIVE
<1>3. CASE e = 8
  BY <1>3 DEF ACTIVE
<1> QED BY <1>1, <1>2, <1>3 DEF Errors

\* The descriptor that a Td is seen as.
Seen(t) ==
    [status |-> IF ~check_errors(t) THEN "error"
                ELSE IF status(t) = ACTIVE THEN "active" ELSE "idle",
     total |-> read_reg(t.TOKEN, TOTAL_BYTES),
     last |-> t.last_transfer_size]

LEMMA SeenStatus ==
    ASSUME NEW t
    PROVE  /\ status(t) = 0 => Seen(t).status = "idle"
           /\ status(t) = ACTIVE => Seen(t).status = "active"
           /\ status(t) \in Errors => Seen(t).status = "error"
           /\ check_errors(t) <=> Seen(t).status # "error"
<1>1. CASE status(t) = 0
  <2>1. check_errors(t)
    BY <1>1, StatusSays DEF check_errors
  <2> QED BY <1>1, <2>1 DEF Seen, ACTIVE, Errors
<1>2. CASE status(t) = ACTIVE
  <2>1. check_errors(t)
    BY <1>2, StatusSays DEF check_errors
  <2> QED BY <1>2, <2>1 DEF Seen, ACTIVE, Errors
<1>3. CASE status(t) \in Errors
  <2>1. (status(t) \div status(t)) % 2 = 1
    BY <1>3, StatusSays
  <2>2. ~check_errors(t)
    BY <1>3, <2>1 DEF check_errors
  <2> QED BY <1>3, <2>2 DEF Seen, ACTIVE, Errors
<1>4. check_errors(t) <=> Seen(t).status # "error"
  BY DEF Seen
<1> QED BY <1>1, <1>2, <1>3, <1>4

\* The mapped state is a function of the words and of where the call stands.
LEMMA SeenAs ==
    /\ Descriptor = Seen(td)
    /\ Descriptor' = Seen(td')
BY DEF Descriptor, Seen

\* A step that leaves the descriptor alone, and whose it is.
LEMMA LendingStutters ==
    ASSUME UNCHANGED <<td, returned>>,
           pc \in {"td", "qh", "primed"} <=> pc' \in {"td", "qh", "primed"}
    PROVE  UNCHANGED Lending!transfer
BY SeenAs DEF Lending!transfer

LEMMA LendingInit == Init => Lending!Init
<1> SUFFICES ASSUME Init PROVE Lending!Init
  OBVIOUS
<1>1. td \in Td /\ pc = "idle" /\ returned = 0
  BY WordsInit DEF Init, WordsInv, TypeOK
<1>2. /\ status(td) = 0
      /\ read_reg(td.TOKEN, TOTAL_BYTES) = 0
      /\ td.last_transfer_size = 0
  <2>1. 0 \in Word /\ read_reg(0, TOTAL_BYTES) = 0
    <3>1. 0 = Token(0, 0, 0, 0) /\ IsToken(0, 0, 0, 0)
      BY DEF Token, IsToken, KB
    <3> QED BY <3>1, TokenRead
  <2>2. /\ modify_reg(0, STATUS, 0) \in Word
        /\ read_reg(modify_reg(0, STATUS, 0), STATUS) = 0
        /\ read_reg(modify_reg(0, STATUS, 0), TOTAL_BYTES) = 0
    BY <2>1, WriteStatus
  <2>3. /\ td.TOKEN = modify_reg(0, STATUS, 0)
        /\ td.last_transfer_size = 0
    BY DEF Init, clear_status, set_field, set_terminate, NewTd
  <2> QED BY <2>2, <2>3 DEF status
<1>3. Descriptor.status = "idle" /\ Descriptor.total = 0 /\ Descriptor.last = 0
  BY <1>2, SeenAs, SeenStatus DEF Seen
<1>4. Descriptor = [status |-> "idle", total |-> 0, last |-> 0]
  BY <1>3 DEF Descriptor
<1> QED
  BY <1>1, <1>4 DEF Lending!Init

\* schedule_transfer lends it: every field the controller reads is written.
LEMMA FillLends ==
    ASSUME WordsInv, WordsInv', schedule_transfer
    PROVE  \E n \in 0 .. max_packet_len : Lending!Lend(n)
<1>1. /\ pc \in {"fill", "buffer"} /\ pc' = "td"
      /\ size' = size /\ returned' = returned
  BY DEF schedule_transfer, clean_invalidate_dcache, Cleaned
<1>2. /\ status(td') = ACTIVE
      /\ read_reg(td'.TOKEN, TOTAL_BYTES) = size
      /\ td'.last_transfer_size = size
  BY <1>1 DEF WordsInv, Filled, status
<1>3. size \in 0 .. max_packet_len /\ size <= max_packet_len
  BY PacketLength DEF WordsInv, TypeOK
<1>4. Descriptor' = [status |-> "active", total |-> size, last |-> size]
  BY <1>2, SeenAs, SeenStatus DEF Seen
<1>5. Lending!Lend(size)
  BY <1>1, <1>3, <1>4 DEF Lending!Lend
<1> QED
  BY <1>3, <1>5

\* The controller gives it back with what it wrote into two fields.
LEMMA RetireGivesBack ==
    ASSUME WordsInv, NEW n \in Lengths \cup {size}, NEW error \in Errors \cup {0},
           Retire(n, error)
    PROVE  \E outcome \in {"idle", "error"}, left \in 0 .. Descriptor.total :
              Lending!GiveBack(outcome, left)
<1> DEFINE total == read_reg(td.TOKEN, TOTAL_BYTES)
           outcome == IF error = 0 THEN "idle" ELSE "error"
<1>1. /\ pc = "primed" /\ pc' = "idle" /\ n <= total
      /\ td' = set_field(set_field(td, STATUS, error), TOTAL_BYTES, total - n)
      /\ returned' = returned
  BY DEF Retire
<1>2. td \in Td /\ size \in Nat /\ total = size
  BY <1>1 DEF WordsInv, TypeOK, Filled
<1>3. n \in Nat
  BY <1>2, LayoutAssumption
<1>4. /\ status(td') = error
      /\ read_reg(td'.TOKEN, TOTAL_BYTES) = total - n
      /\ td'.last_transfer_size = td.last_transfer_size
  BY <1>1, <1>2, <1>3, RetireWords
<1>5. total - n \in 0 .. total /\ total - n <= total
  BY <1>1, <1>2, <1>3
<1>6. Descriptor.total = total /\ Descriptor.last = td.last_transfer_size
  BY DEF Descriptor
<1> HIDE DEF total
<1>7. Descriptor' = [status |-> outcome, total |-> total - n, last |-> Descriptor.last]
  <2>1. Seen(td').status = outcome
    BY <1>4, SeenStatus DEF Errors
  <2> QED BY <1>4, <1>6, <2>1, SeenAs DEF Seen
<1>8. Lending!GiveBack(outcome, total - n)
  BY <1>1, <1>5, <1>6, <1>7 DEF Lending!GiveBack
<1> QED
  BY <1>5, <1>6, <1>8

\* A read returns what was moved, if nothing failed.
LEMMA ReadReads ==
    ASSUME WordsInv, NEW len \in Lengths, read(len)
    PROVE  Lending!Read(len)
<1>1. /\ pc = "idle" /\ pc' = "fill" /\ check_errors(td) /\ td' = td
      /\ returned' = volatile_copy(Least(max_packet_len,
                                         Least(len, bytes_transferred(td))))
  BY DEF read, words
<1>2. len \in Nat /\ bytes_transferred(td) \in Nat
  BY <1>1, LayoutAssumption DEF WordsInv, TypeOK
<1>3. bytes_transferred(td) = Descriptor.last - Descriptor.total
  BY DEF bytes_transferred, Descriptor
<1>4. returned' = Lending!Least(max_packet_len, Lending!Least(len, bytes_transferred(td)))
  BY <1>1, <1>2, PacketLength DEF volatile_copy, Least, Lending!Least
<1>5. Descriptor' = Descriptor /\ Descriptor.status # "error"
  BY <1>1, SeenAs, SeenStatus
<1> QED
  BY <1>1, <1>3, <1>4, <1>5 DEF Lending!Read

(***************************************************************************)
(* The words of the descriptor implement the record that Driver has for    *)
(* it: what failed, what is left and what was asked for are told apart     *)
(* from call to call, for any buffer and any sequence of transfers.        *)
(***************************************************************************)
THEOREM WordsAreATransfer == Spec => ImplementsTransfer
<1>1. WordsInv /\ WordsInv' /\ [Next]_vars => [Lending!Next]_(Lending!transfer)
  <2> SUFFICES ASSUME WordsInv, WordsInv', [Next]_vars
               PROVE  Lending!Next \/ UNCHANGED Lending!transfer
    OBVIOUS
  <2>1. CASE enable_zlt
    BY <2>1, LendingStutters DEF enable_zlt
  <2>2. CASE clean_line
    BY <2>2, LendingStutters DEF clean_line, words
  <2>3. ASSUME NEW len \in Lengths, write(len) PROVE UNCHANGED Lending!transfer
    BY <2>3, LendingStutters DEF write, words, clean_invalidate_dcache
  <2>4. ASSUME NEW len \in Lengths, read(len) PROVE Lending!Next
    BY <2>4, ReadReads DEF Lending!Next
  <2>5. ASSUME NEW n, arm(n) PROVE UNCHANGED Lending!transfer
    BY <2>5, LendingStutters DEF arm, words
  <2>6. CASE schedule_transfer
    BY <2>6, FillLends DEF Lending!Next
  <2>7. CASE schedule_transfer_qh
    BY <2>7, LendingStutters DEF schedule_transfer_qh, clean_invalidate_dcache, Cleaned
  <2>8. CASE schedule_transfer_prime
    BY <2>8, LendingStutters DEF schedule_transfer_prime, words, Cleaned
  <2>9. ASSUME NEW n \in Lengths \cup {size}, NEW error \in Errors \cup {0},
               Retire(n, error)
        PROVE  Lending!Next
    BY <2>9, RetireGivesBack DEF Lending!Next
  <2>10. CASE Flushed
    <3>1. Descriptor' = Descriptor
      BY <2>10, SeenAs DEF Flushed
    <3> QED
      BY <2>10, <3>1 DEF Flushed, Lending!TakeBack, Lending!Next
  <2>11. CASE UNCHANGED vars
    BY <2>11, LendingStutters DEF vars, words
  <2> QED
    BY <2>1, <2>2, <2>3, <2>4, <2>5, <2>6, <2>7, <2>8, <2>9, <2>10, <2>11 DEF Next
<1> QED
  BY <1>1, LendingInit, WordsHold, PTL DEF Spec, ImplementsTransfer, Lending!Spec
=============================================================================
