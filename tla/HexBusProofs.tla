----------------------------- MODULE HexBusProofs -----------------------------
(***************************************************************************)
(* Proofs about HexBus for a client that reads: any addresses, lengths and *)
(* data, any number of calls, a slow bus and slaves that err.              *)
(***************************************************************************)
EXTENDS HexBus, FiniteSetTheorems, SequenceTheorems, TLAPS

\* The client reads.  Where a slave may err, it reads in the ways that name
\* their address in every call (after an error the device has moved on and
\* m_lastaddr has not).  The idle reports between two answers do not use up
\* readword's patience.
ReadsOnly ==
    /\ Kinds \subseteq {"readio", "readi", "readz"}
    /\ Errors => "readi" \notin Kinds
    /\ MaxIdle < AbortCountdown

-----------------------------------------------------------------------------
(* The invariant.                                                          *)

Typing ==
    /\ m_addr_set \in BOOLEAN /\ m_inc \in BOOLEAN /\ m_isspace \in BOOLEAN
    /\ m_interrupt_flag \in BOOLEAN /\ m_bus_err \in BOOLEAN
    /\ m_lastaddr \in Word /\ m_lastaddr % 4 = 0
    /\ m_cmd \in Chars \cup {"none"}
    /\ m_nacks \in Nat /\ n \in Nat /\ abort_countdown \in 1 .. 3
    /\ outcome \in {"none", "ok", "buserr"}
    /\ word \in Word /\ buf \in Seq(Word)
    /\ d2h \in Seq(Chars)
    /\ r_cmd \in Commands /\ r_word \in Word
    /\ o_wb_addr \in 0 .. (WordSize \div 4) - 1 /\ o_wb_data \in Word
    /\ cmd_loaded \in BOOLEAN /\ o_wb_cyc \in BOOLEAN /\ o_wb_we \in BOOLEAN
    /\ inc \in BOOLEAN /\ last_cr \in BOOLEAN
    /\ nidle \in 0 .. MaxIdle

\* The address of the call's access number k, counted from 0
At(k) == (call.a + IF Increments(call.kind) THEN 4 * k ELSE 0) % WordSize

\* What the bus has done since the call began
AccessInv ==
    /\ ~dropped
    /\ accesses \in Seq([we : BOOLEAN, a : Word, d : Word, err : BOOLEAN])
    /\ Len(accesses) <= call.len
    /\ \A i \in 1 .. Len(accesses) :
         ~accesses[i].we /\ accesses[i].a = At(i - 1) /\ (accesses[i].err => Errors)

\* Reports that tell readword nothing it waits for
Quiet     == {Space, "Z", "I", "T"}
Idles(s)  == Cardinality({i \in 1 .. Len(s) : s[i] = "Z"})
HeldQuiet == m_isspace \/ m_cmd \in {"none", "Z", "I", "T"}
HeldIdle  == Flag(~m_isspace /\ m_cmd = "Z")
Used      == AbortCountdown - abort_countdown

\* The answer to the call's read number k, counted from 1, as it is spelt
Spelt(k) == IF accesses[k].err THEN <<"E">> ELSE <<"R">> \o AllDigits(accesses[k].d)

\* The address command's word and the digits that spell it
Named == call.a + Flag(~Increments(call.kind))

\* readword has taken the letter l and perhaps digits of w; rest comes next
Taking(l, w, rest) ==
    /\ ~m_isspace /\ m_cmd = l
    /\ \/ word = 0 /\ d2h = AllDigits(w) \o rest
       \/ word = w \div Base /\ d2h = <<Digit[w % Base]>> \o rest
       \/ word = w /\ d2h = rest

\* What readword has yet to see is quiet, up to a report of the address, and
\* then comes rest; z idle reports of them may be counted
Before(rest, z) ==
    \/ HeldQuiet /\ d2h = rest /\ Used + HeldIdle <= z
    \/ n = 0 /\ HeldQuiet /\ \E a \in Seq(Quiet) :
          d2h = a \o (<<"A">> \o AllDigits(Named)) \o rest /\ Used + HeldIdle + Idles(a) <= z
    \/ n = 0 /\ Taking("A", Named, rest) /\ Used <= z

\* No answer is on its way to the host
NoAnswer ==
    \E rest \in Seq(Quiet), z \in Nat : Before(rest, z) /\ z + Idles(rest) <= nidle

\* The call has an address command to send: what is left of it in h2d, and
\* what hbpack has of it
Naming ==
    /\ n = 0 /\ ~o_wb_cyc
    /\ HeldQuiet /\ d2h \in Seq(Quiet) /\ Used + HeldIdle + Idles(d2h) <= nidle
    /\ \/ h2d = <<"A", Digit[Named \div Base], Digit[Named % Base], "R", Space>> /\ ~cmd_loaded
       \/ /\ h2d = <<Digit[Named \div Base], Digit[Named % Base], "R", Space>>
          /\ cmd_loaded /\ r_cmd = "A" /\ r_word = 0
       \/ /\ h2d = <<Digit[Named % Base], "R", Space>>
          /\ cmd_loaded /\ r_cmd = "A" /\ r_word = Named \div Base
       \/ h2d = <<"R", Space>> /\ cmd_loaded /\ r_cmd = "A" /\ r_word = Named

\* The device is where the call's read number k, counted from 0, wants it
Placed(k) == inc = Increments(call.kind) /\ 4 * o_wb_addr = At(k)

\* The read command is on its way to the device, or on the bus
Asking ==
    /\ Placed(n) /\ NoAnswer
    /\ \/ h2d = <<"R", Space>> /\ ~cmd_loaded /\ ~o_wb_cyc
       \/ h2d = <<Space>> /\ cmd_loaded /\ r_cmd = "R" /\ r_word = 0 /\ ~o_wb_cyc
       \/ h2d = <<>> /\ ~cmd_loaded /\ o_wb_cyc /\ ~o_wb_we

\* The bus has answered, and the answer is on its way
Answered ==
    /\ h2d = <<>> /\ ~cmd_loaded /\ ~o_wb_cyc
    /\ Len(accesses) = n + 1
    /\ accesses[n + 1].err \/ Placed(n + 1)
    /\ \E after \in Seq(Quiet) :
         /\ Idles(after) <= nidle
         /\ \/ \E b \in Seq(Quiet), z \in Nat :
                 Before(b \o Spelt(n + 1) \o after, z) /\ z + Idles(b) <= MaxIdle
            \/ ~accesses[n + 1].err /\ Taking("R", accesses[n + 1].d, after)
            \/ accesses[n + 1].err /\ ~m_isspace /\ m_cmd = "E" /\ d2h = after

\* A call in progress
Busy ==
    /\ call \in Calls /\ Legal(call)
    /\ n < call.len /\ Len(buf) = n
    /\ m_inc = Increments(call.kind) /\ m_lastaddr = At(n)
    /\ outcome = "none"
    /\ \A i \in 1 .. n : accesses[i].d = buf[i] /\ ~accesses[i].err
    /\ \/ Len(accesses) = n /\ (Naming \/ Asking)
       \/ Answered

\* Between calls
Resting ==
    /\ h2d = <<>> /\ ~cmd_loaded /\ ~o_wb_cyc
    /\ HeldQuiet /\ d2h \in Seq(Quiet) /\ HeldIdle + Idles(d2h) <= nidle
    /\ m_addr_set /\ m_inc => inc /\ m_lastaddr = 4 * o_wb_addr
    /\ (call \in Calls /\ Legal(call)) \/ call = NoCall
    /\ outcome = "ok" =>
          /\ Len(accesses) = call.len /\ Len(buf) = call.len
          /\ \A i \in 1 .. call.len : accesses[i].d = buf[i] /\ ~accesses[i].err
    /\ outcome = "buserr" => \E i \in 1 .. Len(accesses) : accesses[i].err

HInv ==
    /\ Typing /\ AccessInv
    /\ \/ pc = "idle" /\ Resting
       \/ pc = "readword" /\ Busy

-----------------------------------------------------------------------------
(* Words, addresses and their spelling.                                    *)

LEMMA Constants ==
    /\ Base \in Nat /\ Base > 0 /\ Base <= 16 /\ Base % 4 = 0
    /\ Addrs \subseteq Word /\ \A a \in Addrs : a % 4 = 0
    /\ Data \subseteq Word /\ Lens \subseteq Nat \ {0}
    /\ MaxIdle \in Nat /\ Backlog \in Nat
BY HexBusAssumption

LEMMA WordSizeIs ==
    /\ WordSize \in Nat /\ WordSize >= 16 /\ WordSize % 4 = 0 /\ WordSize \div 4 \in Nat
    /\ WordSize = 4 * (WordSize \div 4) /\ WordSize \div 4 > 0
<1>1. PICK q \in Nat : Base = 4 * q /\ q > 0
  <2>1. Base = 4 * (Base \div 4) /\ Base \div 4 \in Nat
    BY Constants
  <2> QED BY <2>1, Constants
<1>2. /\ Base * Base = 4 * (4 * (q * q)) /\ q * q \in Nat /\ q * q >= 1
    BY <1>1
<1> DEFINE s == q * q
<1>3. s \in Nat /\ s >= 1 /\ WordSize = 4 * (4 * s)
    BY <1>2 DEF WordSize
<1> HIDE DEF s
<1> QED BY <1>3

\* The letters of the protocol are not digits, and the digits differ
LEMMA DigitsDiffer ==
    /\ \A d \in 0 .. 15 : Digit[d] \notin Commands \cup {Space, "K", "E", "I", "Z", "T", "none"}
    /\ \A d, e \in 0 .. 15 : Digit[d] = Digit[e] => d = e
<1>1. /\ Digit[0] = "0" /\ Digit[1] = "1" /\ Digit[2] = "2" /\ Digit[3] = "3"
      /\ Digit[4] = "4" /\ Digit[5] = "5" /\ Digit[6] = "6" /\ Digit[7] = "7"
      /\ Digit[8] = "8" /\ Digit[9] = "9" /\ Digit[10] = "a" /\ Digit[11] = "b"
      /\ Digit[12] = "c" /\ Digit[13] = "d" /\ Digit[14] = "e" /\ Digit[15] = "f"
    BY DEF Digit
<1>2. \A d \in 0 .. 15 : \/ d = 0 \/ d = 1 \/ d = 2 \/ d = 3 \/ d = 4 \/ d = 5 \/ d = 6 \/ d = 7
                         \/ d = 8 \/ d = 9 \/ d = 10 \/ d = 11 \/ d = 12 \/ d = 13 \/ d = 14 \/ d = 15
    OBVIOUS
<1>3. ASSUME NEW d \in 0 .. 15
      PROVE  Digit[d] \notin Commands \cup {Space, "K", "E", "I", "Z", "T", "none"}
    BY <1>1, <1>2 DEF Commands, Space
<1>4. ASSUME NEW d \in 0 .. 15, NEW e \in 0 .. 15, Digit[d] = Digit[e]
      PROVE  d = e
    BY <1>1, <1>2, <1>4
<1> QED BY <1>3, <1>4

LEMMA DigitIs ==
    ASSUME NEW d \in 0 .. Base - 1
    PROVE  /\ Digit[d] \in Digits /\ Digit[d] \in Chars /\ Value(Digit[d]) = d
           /\ Digit[d] \notin Commands \cup {Space, "K", "E", "I", "Z", "T", "none"}
<1>1. 0 .. Base - 1 \subseteq 0 .. 15
    BY Constants
<1>2. \A e \in 0 .. Base - 1 : Digit[e] = Digit[d] => e = d
    BY <1>1, DigitsDiffer
<1> QED BY <1>1, <1>2, DigitsDiffer DEF Digits, Chars, Value

LEMMA LettersAreNotDigits ==
    \A c \in Commands \cup {Space, "K", "E", "I", "Z", "T", "none"} : c \notin Digits
<1>1. 0 .. Base - 1 \subseteq 0 .. 15
    BY Constants
<1> QED BY <1>1, DigitsDiffer DEF Digits

\* Two digits shifted into a word that is 0 make the word they spell
LEMMA SpellingIsRead ==
    ASSUME NEW w \in Word
    PROVE  /\ w \div Base \in 0 .. Base - 1 /\ w % Base \in 0 .. Base - 1
           /\ w \div Base \in Word
           /\ ShiftIn(0, Digit[w \div Base]) = w \div Base
           /\ ShiftIn(w \div Base, Digit[w % Base]) = w
<1> DEFINE h == w \div Base
           l == w % Base
<1>1. l \in 0 .. Base - 1 /\ h \in Int /\ w = Base * h + l
    BY Constants DEF Word
<1>2. h \in 0 .. Base - 1
  <2>1. w \in Nat /\ w < Base * Base
    BY Constants DEF Word, WordSize
  <2> HIDE DEF h, l
  <2>2. ASSUME h < 0 PROVE FALSE
    <3>1. Base * h <= Base * (-1)
      BY <2>2, <1>1, Constants
    <3> QED BY <1>1, <2>1, <3>1, Constants
  <2>3. ASSUME h >= Base PROVE FALSE
    <3>1. Base * h >= Base * Base
      BY <2>3, <1>1, Constants
    <3> QED BY <1>1, <2>1, <3>1, Constants
  <2> QED BY <1>1, <2>2, <2>3, Constants
<1>3. Value(Digit[h]) = h /\ Value(Digit[l]) = l
    BY <1>1, <1>2, DigitIs
<1> HIDE DEF h, l
<1>4. WordSize \in Nat /\ Base <= WordSize /\ h \in 0 .. WordSize - 1
  <2>1. Base <= Base * Base
    BY Constants
  <2> QED BY <1>2, <2>1, Constants DEF WordSize
<1>5. (0 * Base + h) % WordSize = h
  <2>1. 0 * Base + h = h
    BY <1>2, Constants
  <2> QED BY <1>4, <2>1
<1>6. (h * Base + l) % WordSize = w
  <2>1. h * Base + l = w
    BY <1>1, <1>2, Constants
  <2> QED BY <1>4, <2>1 DEF Word
<1> QED BY <1>1, <1>2, <1>3, <1>4, <1>5, <1>6 DEF ShiftIn, h, l, Word

\* A remainder is known by what it must be
LEMMA RemainderIs ==
    ASSUME NEW m \in Nat, m > 0, NEW q \in Int, NEW r \in 0 .. m - 1
    PROVE  (m * q + r) % m = r
<1> DEFINE x == m * q + r
           p == x \div m
           s == x % m
<1>1. x \in Int /\ s \in 0 .. m - 1 /\ p \in Int /\ x = m * p + s
    OBVIOUS
<1>2. m * (p - q) = r - s
    BY <1>1
<1> DEFINE d == p - q
<1>3. d \in Int /\ m * d = r - s
    BY <1>1, <1>2
<1> HIDE DEF p, s, x, d
<1>4. ASSUME d > 0 PROVE FALSE
  <2>1. m * d >= m
    BY <1>3, <1>4
  <2> QED BY <1>1, <1>3, <2>1
<1>5. ASSUME d < 0 PROVE FALSE
  <2>1. m * d <= -m
    BY <1>3, <1>5
  <2> QED BY <1>1, <1>3, <2>1
<1>6. s = r
  <2>1. d = 0
    BY <1>3, <1>4, <1>5
  <2> QED BY <1>1, <1>3, <2>1
<1> QED BY <1>6 DEF s, x

\* Adding to a remainder is adding before taking it
LEMMA RemainderOfSum ==
    ASSUME NEW m \in Nat, m > 0, NEW x \in Nat, NEW y \in Nat, y <= m
    PROVE  ((x % m) + y) % m = (x + y) % m
<1> DEFINE r == x % m
           q == x \div m
<1>1. r \in 0 .. m - 1 /\ q \in Int /\ x = m * q + r
    OBVIOUS
<1> HIDE DEF r, q
<1>2. CASE r + y < m
  <2>1. x + y = m * q + (r + y) /\ r + y = m * 0 + (r + y) /\ r + y \in 0 .. m - 1
    BY <1>1, <1>2
  <2> QED BY <2>1, RemainderIs DEF r
<1>3. CASE r + y >= m
  <2>1. x + y = m * (q + 1) + (r + y - m) /\ r + y = m * 1 + (r + y - m) /\ r + y - m \in 0 .. m - 1
    BY <1>1, <1>3
  <2>2. q + 1 \in Int
    BY <1>1
  <2>3. (m * (q + 1) + (r + y - m)) % m = r + y - m
    BY <2>1, <2>2, RemainderIs
  <2>4. (m * 1 + (r + y - m)) % m = r + y - m
    BY <2>1, RemainderIs
  <2> QED BY <2>1, <2>3, <2>4 DEF r
<1> QED BY <1>1, <1>2, <1>3

\* The word of an address command says its address, and in its low bit
\* whether it stays there
LEMMA AddressCommand ==
    ASSUME NEW a \in Addrs, NEW f \in {0, 1}
    PROVE  /\ a + f \in Word /\ (a + f) % 2 = f /\ ((a + f) \div 2) % 2 = 0
           /\ (a + f) \div 4 \in 0 .. (WordSize \div 4) - 1
           /\ 4 * ((a + f) \div 4) = a /\ (a + f) - ((a + f) % 4) = a
           /\ a \in Word /\ a % 4 = 0
<1>1. a \in Nat /\ a < WordSize /\ a % 4 = 0
    BY Constants, WordSizeIs DEF Word
<1>2. PICK q \in Nat : a = 4 * q
    BY <1>1
<1>3. q < WordSize \div 4
    BY <1>1, <1>2, WordSizeIs
<1>4. (a + f) \div 4 = q /\ (a + f) % 4 = f /\ (a + f) % 2 = f /\ ((a + f) \div 2) % 2 = 0
    BY <1>2
<1> QED BY <1>1, <1>2, <1>3, <1>4, WordSizeIs DEF Word

\* The device's address register and the byte address it stands for
LEMMA RegisterMoves ==
    ASSUME NEW o \in 0 .. (WordSize \div 4) - 1, NEW f \in {0, 1}
    PROVE  /\ (o + f) % (WordSize \div 4) \in 0 .. (WordSize \div 4) - 1
           /\ 4 * ((o + f) % (WordSize \div 4)) = (4 * o + 4 * f) % WordSize
<1> DEFINE m == WordSize \div 4
<1>1. m \in Nat /\ m > 0 /\ WordSize = 4 * m /\ WordSize \in Nat
    BY WordSizeIs
<1> HIDE DEF m
<1>2. o \in 0 .. m - 1
    BY DEF m
<1>3. CASE o + f < m
  <2>1. o + f = m * 0 + (o + f) /\ o + f \in 0 .. m - 1
    BY <1>1, <1>2, <1>3
  <2>2. 4 * o + 4 * f = WordSize * 0 + 4 * (o + f) /\ 4 * (o + f) \in 0 .. WordSize - 1
    BY <1>1, <1>2, <1>3
  <2>3. (o + f) % m = o + f
    BY <1>1, <2>1, RemainderIs
  <2>4. (4 * o + 4 * f) % WordSize = 4 * (o + f)
    BY <1>1, <2>2, RemainderIs
  <2> QED BY <2>1, <2>3, <2>4 DEF m
<1>4. CASE o + f >= m
  <2>1. o + f = m * 1 + 0 /\ 0 \in 0 .. m - 1
    BY <1>1, <1>2, <1>4
  <2>2. 4 * o + 4 * f = WordSize * 1 + 0 /\ 0 \in 0 .. WordSize - 1
    BY <1>1, <1>2, <1>4
  <2>3. (o + f) % m = 0
    BY <1>1, <2>1, RemainderIs
  <2>4. (4 * o + 4 * f) % WordSize = 0
    BY <1>1, <2>2, RemainderIs
  <2> QED BY <2>1, <2>3, <2>4 DEF m
<1> QED BY <1>1, <1>2, <1>3, <1>4

\* A remainder of a multiple of four is one
LEMMA RemainderOfFours ==
    ASSUME NEW x \in Nat, x % 4 = 0
    PROVE  (x % WordSize) % 4 = 0
<1> DEFINE m == WordSize \div 4
           y == x % WordSize
           p == x \div WordSize
<1>1. m \in Nat /\ WordSize = 4 * m /\ WordSize \in Nat /\ WordSize > 0
    BY WordSizeIs
<1>2. p \in Int /\ y \in Nat /\ x = WordSize * p + y
    BY <1>1
<1>3. PICK q \in Nat : x = 4 * q
    OBVIOUS
<1> HIDE DEF m, y, p
<1>4. (4 * m) * p = 4 * (m * p) /\ m * p \in Int
    BY <1>1, <1>2
<1> DEFINE z == m * p
<1>5. y = 4 * (q - z) /\ z \in Int
    BY <1>1, <1>2, <1>3, <1>4
<1> HIDE DEF z
<1>6. y % 4 = 0
    BY <1>2, <1>3, <1>5
<1> QED BY <1>6 DEF y

\* From one access of a call to the next
LEMMA AtMoves ==
    ASSUME call \in Calls, NEW k \in Nat
    PROVE  /\ At(0) = call.a /\ At(k) \in Word /\ At(k) % 4 = 0 /\ call.a \in Addrs
           /\ At(k + 1) = (At(k) + IF Increments(call.kind) THEN 4 ELSE 0) % WordSize
<1>0. call.a \in Addrs
    BY DEF Calls
<1>1. call.a \in Addrs /\ call.a \in Nat /\ call.a < WordSize /\ WordSize \in Nat /\ WordSize >= 16
  <2>1. call.a \in Word
    BY <1>0, Constants
  <2> QED BY <1>0, <2>1, WordSizeIs DEF Word
<1>2. call.a = WordSize * 0 + call.a /\ call.a \in 0 .. WordSize - 1
    BY <1>1
<1>3. call.a % WordSize = call.a
    BY <1>1, <1>2, RemainderIs
<1>6. call.a % 4 = 0
    BY <1>0, Constants
<1>4. CASE Increments(call.kind)
  <2>0. (call.a + 4 * k) % 4 = 0 /\ call.a + 4 * k \in Nat
    BY <1>1, <1>6
  <2>4. ((call.a + 4 * k) % WordSize) % 4 = 0
    BY <2>0, RemainderOfFours
  <2>1. call.a + 4 * k \in Nat /\ call.a + 4 * (k + 1) = (call.a + 4 * k) + 4 /\ call.a + 4 * 0 = call.a
    BY <1>1
  <2>2. (((call.a + 4 * k) % WordSize) + 4) % WordSize = ((call.a + 4 * k) + 4) % WordSize
    <3> DEFINE x == call.a + 4 * k
    <3>1. x \in Nat /\ 4 \in Nat /\ 4 <= WordSize /\ WordSize > 0
      BY <1>1, <2>1
    <3> HIDE DEF x
    <3>2. ((x % WordSize) + 4) % WordSize = (x + 4) % WordSize
      BY <1>1, <3>1, RemainderOfSum
    <3> QED BY <3>2 DEF x
  <2>3. (call.a + 4 * k) % WordSize \in 0 .. WordSize - 1
    BY <1>1, <2>1
  <2> QED BY <1>1, <1>3, <1>4, <2>1, <2>2, <2>3, <2>4 DEF At, Word
<1>5. CASE ~Increments(call.kind)
  <2>1. call.a + 0 = call.a /\ call.a \in Word
    BY <1>1 DEF Word
  <2>2. At(k) = call.a /\ At(k + 1) = call.a /\ At(0) = call.a
    BY <1>3, <1>5, <2>1 DEF At
  <2>3. (At(k) + 0) % WordSize = call.a
    BY <1>3, <2>1, <2>2
  <2> QED BY <1>0, <1>5, <1>6, <2>1, <2>2, <2>3
<1> QED BY <1>4, <1>5

-----------------------------------------------------------------------------
(* The stream of reports.                                                  *)

\* Where the idle reports are
IdlesAt(s) == {i \in 1 .. Len(s) : s[i] = "Z"}

LEMMA IdlesFinite ==
    ASSUME NEW S, NEW s \in Seq(S)
    PROVE  IsFiniteSet(IdlesAt(s)) /\ Idles(s) \in Nat /\ Idles(s) = Cardinality(IdlesAt(s))
<1>1. IsFiniteSet(1 .. Len(s))
    BY FS_Interval, LenProperties
<1>2. IsFiniteSet(IdlesAt(s))
    BY <1>1, FS_Subset DEF IdlesAt
<1>3. Idles(s) = Cardinality(IdlesAt(s))
    BY DEF Idles, IdlesAt
<1> QED BY <1>2, <1>3, FS_CardinalityType

LEMMA IdlesEmpty == Idles(<<>>) = 0
<1>1. {i \in 1 .. Len(<<>>) : <<>>[i] = "Z"} = {}
    OBVIOUS
<1> QED BY <1>1, FS_EmptySet DEF Idles

\* The idle reports of a sequence that lies k places further on in another
LEMMA IdlesShift ==
    ASSUME NEW S, NEW t \in Seq(S), NEW k \in Nat, NEW T, IsFiniteSet(T),
           \A i \in IdlesAt(t) : i + k \in T
    PROVE  Idles(t) <= Cardinality(T)
<1> DEFINE f == [i \in IdlesAt(t) |-> i + k]
<1>1. \A i \in IdlesAt(t) : i \in Nat
    BY LenProperties DEF IdlesAt
<1>2. f \in Injection(IdlesAt(t), T)
  <2>1. f \in [IdlesAt(t) -> T]
    OBVIOUS
  <2>2. \A i, j \in IdlesAt(t) : f[i] = f[j] => i = j
    BY <1>1
  <2> QED BY <2>1, <2>2 DEF Injection, IsInjective
<1>3. Cardinality(IdlesAt(t)) <= Cardinality(T)
    BY <1>2, FS_Injection
<1> QED BY <1>3, IdlesFinite

LEMMA IdlesAppend ==
    ASSUME NEW S, NEW s \in Seq(S), NEW c \in S
    PROVE  Idles(s \o <<c>>) = Idles(s) + Flag(c = "Z")
<1> DEFINE t == Append(s, c)
<1>0. s \o <<c>> = t
    BY AppendIsConcat
<1>1. t \in Seq(S) /\ Len(t) = Len(s) + 1 /\ Len(s) \in Nat /\ t[Len(s) + 1] = c
      /\ \A i \in 1 .. Len(s) : t[i] = s[i]
    BY AppendProperties, LenProperties
<1>2. IdlesAt(t) = IF c = "Z" THEN IdlesAt(s) \cup {Len(s) + 1} ELSE IdlesAt(s)
  <2> HIDE DEF t
  <2>1. \A i \in 1 .. Len(t) : i \in 1 .. Len(s) \/ i = Len(s) + 1
    BY <1>1
  <2>2. \A i \in 1 .. Len(s) : i \in 1 .. Len(t)
    BY <1>1
  <2>3. Len(s) + 1 \in 1 .. Len(t)
    BY <1>1
  <2> QED BY <1>1, <2>1, <2>2, <2>3 DEF IdlesAt
<1>3. Len(s) + 1 \notin IdlesAt(s)
    BY <1>1 DEF IdlesAt
<1>4. /\ IsFiniteSet(IdlesAt(s)) /\ Idles(s) \in Nat /\ Idles(s) = Cardinality(IdlesAt(s))
      /\ Idles(t) = Cardinality(IdlesAt(t))
    BY <1>1, IdlesFinite
<1>5. Cardinality(IdlesAt(s) \cup {Len(s) + 1}) = Idles(s) + 1
    BY <1>3, <1>4, FS_AddElement
<1> HIDE DEF t
<1>6. CASE c = "Z"
    BY <1>0, <1>2, <1>4, <1>5, <1>6 DEF Flag
<1>7. CASE c # "Z"
  <2>1. Idles(t) = Idles(s)
    BY <1>2, <1>4, <1>7
  <2>2. Idles(s \o <<c>>) = Idles(s)
    BY <1>0, <2>1
  <2> QED BY <1>4, <1>7, <2>2 DEF Flag
<1> QED BY <1>6, <1>7

\* Reading a character
LEMMA IdlesTail ==
    ASSUME NEW S, NEW s \in Seq(S), s # <<>>
    PROVE  Idles(Tail(s)) + Flag(Head(s) = "Z") <= Idles(s)
<1>1. /\ Tail(s) \in Seq(S) /\ Head(s) = s[1] /\ Len(s) \in Nat /\ Len(s) > 0
      /\ Len(Tail(s)) = Len(s) - 1 /\ \A i \in 1 .. Len(Tail(s)) : Tail(s)[i] = s[i + 1]
  <2>1. Tail(s) \in Seq(S) /\ Len(Tail(s)) = Len(s) - 1 /\ Head(s) = s[1]
        /\ \A i \in 1 .. Len(Tail(s)) : Tail(s)[i] = s[i + 1]
    BY HeadTailProperties
  <2>2. Len(s) \in Nat /\ Len(s) # 0
    BY LenProperties, EmptySeq
  <2> QED BY <2>1, <2>2
<1> DEFINE T == IdlesAt(s) \ {1}
<1>2. \A i \in IdlesAt(Tail(s)) : i + 1 \in T
  <2> SUFFICES ASSUME NEW i \in 1 .. Len(Tail(s)), Tail(s)[i] = "Z"
               PROVE  i + 1 \in 1 .. Len(s) /\ s[i + 1] = "Z" /\ i + 1 # 1
    BY DEF IdlesAt
  <2> QED BY <1>1
<1>3. IsFiniteSet(IdlesAt(s)) /\ Idles(s) \in Nat /\ Idles(s) = Cardinality(IdlesAt(s))
    BY IdlesFinite
<1>4. IsFiniteSet(T) /\ Cardinality(T) = IF 1 \in IdlesAt(s) THEN Idles(s) - 1 ELSE Idles(s)
    BY <1>3, FS_RemoveElement
<1>5. 1 \in IdlesAt(s) <=> Head(s) = "Z"
    BY <1>1 DEF IdlesAt
<1>6. Idles(Tail(s)) <= Cardinality(T) /\ Idles(Tail(s)) \in Nat
  <2> HIDE DEF T
  <2> QED BY <1>1, <1>2, <1>4, IdlesShift, IdlesFinite
<1> QED BY <1>3, <1>4, <1>5, <1>6 DEF Flag

\* Throwing the first k characters away
LEMMA IdlesSuffix ==
    ASSUME NEW S, NEW s \in Seq(S), NEW k \in 1 .. Len(s)
    PROVE  /\ SubSeq(s, k + 1, Len(s)) \in Seq(S)
           /\ Idles(SubSeq(s, k + 1, Len(s))) <= Idles(s)
           /\ Idles(SubSeq(s, k + 1, Len(s))) \in Nat
<1> DEFINE t == SubSeq(s, k + 1, Len(s))
<1>1. Len(s) \in Nat /\ k \in Nat
    BY LenProperties
<1>2. /\ t \in Seq(S) /\ Len(t) = IF k + 1 <= Len(s) THEN Len(s) - (k + 1) + 1 ELSE 0
      /\ \A i \in 1 .. Len(s) - (k + 1) + 1 : t[i] = s[k + 1 + i - 1]
  <2>1. \A i \in k + 1 .. Len(s) : s[i] \in S
    BY <1>1, ElementOfSeq
  <2>2. k + 1 \in Int /\ Len(s) \in Int
    BY <1>1
  <2> QED BY <2>1, <2>2, SubSeqProperties
<1> HIDE DEF t
<1>3. \A i \in IdlesAt(t) : i + k \in IdlesAt(s)
  <2> SUFFICES ASSUME NEW i \in 1 .. Len(t), t[i] = "Z"
               PROVE  i + k \in 1 .. Len(s) /\ s[i + k] = "Z"
    BY DEF IdlesAt
  <2>1. i \in 1 .. Len(s) - (k + 1) + 1 /\ k + 1 + i - 1 = i + k /\ i + k \in 1 .. Len(s)
    BY <1>1, <1>2
  <2> QED BY <1>2, <2>1
<1>4. Idles(t) <= Cardinality(IdlesAt(s))
    BY <1>1, <1>2, <1>3, IdlesShift, IdlesFinite
<1> QED BY <1>2, <1>4, IdlesFinite DEF t

\* The front of a concatenation
LEMMA FrontOfConcat ==
    ASSUME NEW S, NEW a \in Seq(S), NEW b \in Seq(S), a # <<>>
    PROVE  /\ a \o b # <<>> /\ Head(a \o b) = Head(a) /\ Head(a) \in S
           /\ Tail(a) \in Seq(S) /\ Tail(a \o b) = Tail(a) \o b
<1>1. /\ Len(a) \in Nat /\ Len(b) \in Nat /\ Len(a) > 0
  <2>1. Len(a) \in Nat /\ Len(b) \in Nat /\ Len(a) # 0
    BY LenProperties, EmptySeq
  <2> QED BY <2>1
<1>2. /\ a \o b \in Seq(S) /\ Len(a \o b) = Len(a) + Len(b)
      /\ \A i \in 1 .. Len(a) + Len(b) : (a \o b)[i] = IF i <= Len(a) THEN a[i] ELSE b[i - Len(a)]
    BY ConcatProperties
<1> DEFINE c == a \o b
<1>3. c \in Seq(S) /\ Len(c) = Len(a) + Len(b) /\ c # <<>>
    BY <1>1, <1>2
<1>4. /\ Head(a) = a[1] /\ Head(c) = c[1] /\ Head(a) \in S
      /\ Tail(a) \in Seq(S) /\ Len(Tail(a)) = Len(a) - 1 /\ \A i \in 1 .. Len(Tail(a)) : Tail(a)[i] = a[i + 1]
      /\ Tail(c) \in Seq(S) /\ Len(Tail(c)) = Len(c) - 1 /\ \A i \in 1 .. Len(Tail(c)) : Tail(c)[i] = c[i + 1]
  <2> HIDE DEF c
  <2>1. /\ Tail(a) \in Seq(S) /\ Len(Tail(a)) = Len(a) - 1 /\ Head(a) \in S
        /\ \A i \in 1 .. Len(Tail(a)) : Tail(a)[i] = a[i + 1]
    BY HeadTailProperties
  <2>2. /\ Tail(c) \in Seq(S) /\ Len(Tail(c)) = Len(c) - 1 /\ \A i \in 1 .. Len(Tail(c)) : Tail(c)[i] = c[i + 1]
    BY <1>3, HeadTailProperties
  <2> QED BY <2>1, <2>2
<1>5. Head(c) = Head(a)
    BY <1>1, <1>2, <1>4
<1> DEFINE d == Tail(a) \o b
<1>6. /\ d \in Seq(S) /\ Len(d) = Len(Tail(a)) + Len(b)
      /\ \A i \in 1 .. Len(Tail(a)) + Len(b) : d[i] = IF i <= Len(Tail(a)) THEN Tail(a)[i] ELSE b[i - Len(Tail(a))]
    BY <1>4, ConcatProperties
<1>7. \A i \in 1 .. Len(a) + Len(b) : c[i] = IF i <= Len(a) THEN a[i] ELSE b[i - Len(a)]
    BY <1>2
<1> HIDE DEF c, d
<1>8. ASSUME NEW i \in 1 .. Len(Tail(c))
      PROVE  Tail(c)[i] = d[i]
  <2>1. i \in Nat /\ i + 1 \in 1 .. Len(a) + Len(b) /\ i \in 1 .. Len(Tail(a)) + Len(b)
    BY <1>1, <1>3, <1>4
  <2>2. Tail(c)[i] = IF i + 1 <= Len(a) THEN a[i + 1] ELSE b[i + 1 - Len(a)]
    BY <1>4, <1>7, <2>1
  <2>3. CASE i + 1 <= Len(a)
    <3>1. i \in 1 .. Len(Tail(a)) /\ i <= Len(Tail(a))
      BY <1>1, <1>4, <2>1, <2>3
    <3> QED BY <1>4, <1>6, <2>1, <2>2, <2>3, <3>1
  <2>4. CASE ~(i + 1 <= Len(a))
    <3>1. ~(i <= Len(Tail(a))) /\ i - Len(Tail(a)) = i + 1 - Len(a)
      BY <1>1, <1>4, <2>1, <2>4
    <3> QED BY <1>6, <2>1, <2>2, <2>4, <3>1
  <2> QED BY <2>3, <2>4
<1>9. Tail(c) = d
  <2>1. Len(Tail(c)) = Len(d)
    BY <1>1, <1>3, <1>4, <1>6
  <2> QED BY <1>4, <1>6, <1>8, <2>1, SeqEqual
<1> QED BY <1>3, <1>4, <1>5, <1>9 DEF c, d

LEMMA FrontOfOne ==
    ASSUME NEW S, NEW x \in S, NEW b \in Seq(S)
    PROVE  /\ <<x>> \o b # <<>> /\ <<x>> \o b \in Seq(S)
           /\ Head(<<x>> \o b) = x /\ Tail(<<x>> \o b) = b
<1>1. <<x>> \in Seq(S) /\ <<x>> # <<>> /\ Head(<<x>>) = x /\ Tail(<<x>>) = <<>>
    OBVIOUS
<1>2. /\ <<x>> \o b # <<>> /\ Head(<<x>> \o b) = Head(<<x>>) /\ Tail(<<x>> \o b) = Tail(<<x>>) \o b
    BY <1>1, FrontOfConcat
<1>3. <<>> \o b = b /\ <<x>> \o b \in Seq(S)
    BY <1>1, ConcatEmptySeq, ConcatProperties
<1> QED BY <1>1, <1>2, <1>3

\* Joining to an empty sequence, and two ways to join three
LEMMA Joins ==
    ASSUME NEW S, NEW a \in Seq(S), NEW b \in Seq(S), NEW c \in Seq(S)
    PROVE  /\ <<>> \o a = a /\ a \o <<>> = a /\ a \o b \in Seq(S)
           /\ (a \o b) \o c = a \o (b \o c)
BY ConcatEmptySeq, ConcatProperties, ConcatAssociative

\* The same of texts, whose set the provers need not look into
Texts == Seq(Chars)

LEMMA JoinsOfTexts ==
    \A a, b, c \in Texts : (a \o b) \o c = a \o (b \o c)
BY Joins DEF Texts

-----------------------------------------------------------------------------
(* One character read by readword, by what it ends.                        *)

\* What reading leaves alone
HostKeeps == UNCHANGED <<m_nacks, call, device, accesses, dropped>>

LEMMA ReadDigit ==
    ASSUME Typing, Readword, Head(d2h) \in Digits
    PROVE  /\ d2h # <<>> /\ d2h' = Tail(d2h) /\ pc' = "readword" /\ HostKeeps
           /\ word' = ShiftIn(word, Head(d2h)) /\ m_isspace' = FALSE
           /\ UNCHANGED <<m_addr_set, m_inc, m_lastaddr, m_cmd, m_interrupt_flag, m_bus_err,
                          n, buf, abort_countdown, outcome, h2d>>
BY DEF Readword, ReadwordDigit, ReadwordOther, ReadwordDone, ReadwordThrow, Take, HostKeeps

\* A quiet report ends: readword goes on, an idle report is counted
LEMMA ReadQuiet ==
    ASSUME Typing, Readword, Head(d2h) \notin Digits, HeldQuiet, Used + HeldIdle <= 2
    PROVE  /\ d2h # <<>> /\ d2h' = Tail(d2h) /\ pc' = "readword" /\ HostKeeps
           /\ NewCommand(Head(d2h)) /\ Used' = Used + HeldIdle /\ abort_countdown' \in 1 .. 3
           /\ m_addr_set' \in BOOLEAN /\ m_interrupt_flag' \in BOOLEAN
           /\ UNCHANGED <<m_inc, m_lastaddr, m_bus_err, n, buf, outcome, h2d>>
<1>1. abort_countdown \in 1 .. 3 /\ m_addr_set \in BOOLEAN /\ m_interrupt_flag \in BOOLEAN
    BY DEF Typing
<1>2. m_isspace \/ m_cmd \in {"none", "Z", "I", "T"}
    BY DEF HeldQuiet
<1>3. m_isspace \/ m_cmd # "R"
    BY <1>2
<1>4. ~ReadwordDone /\ ~ReadwordDigit
    BY <1>3 DEF ReadwordDone, ReadwordDigit
<1>5. ~ReadwordThrow
  <2>1. m_isspace \/ m_cmd # "E"
    BY <1>2
  <2>2. ~m_isspace /\ m_cmd = "Z" => abort_countdown # 1
    BY <1>1 DEF Used, HeldIdle, Flag, AbortCountdown
  <2> QED BY <2>1, <2>2 DEF ReadwordThrow
<1>6. ReadwordOther
    BY <1>4, <1>5 DEF Readword
<1>7. /\ d2h # <<>> /\ d2h' = Tail(d2h) /\ pc' = "readword" /\ HostKeeps
      /\ NewCommand(Head(d2h)) /\ UNCHANGED <<n, buf, outcome, h2d>>
  <2>1. /\ d2h # <<>> /\ d2h' = Tail(d2h) /\ pc' = "readword"
        /\ NewCommand(Head(d2h)) /\ UNCHANGED <<call, n, buf, outcome, h2d, device, accesses, dropped>>
    BY <1>6 DEF ReadwordOther, Take
  <2>2. m_nacks' = m_nacks
    BY <1>2, <1>6 DEF ReadwordOther, Acknowledged, Ignored
  <2> QED BY <2>1, <2>2 DEF HostKeeps
<1>8. CASE m_isspace
  <2>1. UNCHANGED <<m_addr_set, m_inc, m_lastaddr, m_interrupt_flag, m_bus_err, abort_countdown>>
    BY <1>6, <1>8 DEF ReadwordOther, Acknowledged, Ignored
  <2>2. HeldIdle = 0
    BY <1>8 DEF HeldIdle, Flag
  <2>3. Used' = Used + HeldIdle
    BY <1>1, <2>1, <2>2 DEF Used, AbortCountdown
  <2> QED BY <1>1, <1>7, <2>1, <2>3
<1>9. CASE ~m_isspace /\ m_cmd = "Z"
  <2>1. /\ UNCHANGED <<m_addr_set, m_inc, m_lastaddr, m_interrupt_flag, m_bus_err>>
        /\ abort_countdown > 1 /\ abort_countdown' = abort_countdown - 1
    BY <1>6, <1>9 DEF ReadwordOther, Acknowledged, Ignored
  <2>2. HeldIdle = 1
    BY <1>9 DEF HeldIdle, Flag
  <2>3. Used' = Used + HeldIdle /\ abort_countdown' \in 1 .. 3
    BY <1>1, <2>1, <2>2 DEF Used, AbortCountdown
  <2> QED BY <1>1, <1>7, <2>1, <2>3
<1>10. CASE ~m_isspace /\ m_cmd # "Z"
  <2>0. m_cmd \in {"none", "I", "T"}
    BY <1>2, <1>10
  <2>1. /\ UNCHANGED <<m_inc, m_lastaddr, m_bus_err, abort_countdown>>
        /\ m_addr_set' \in BOOLEAN /\ m_interrupt_flag' \in BOOLEAN
    BY <1>1, <1>6, <1>10, <2>0 DEF ReadwordOther, Acknowledged, Ignored
  <2>2. HeldIdle = 0
    BY <1>10 DEF HeldIdle, Flag
  <2>3. Used' = Used + HeldIdle
    BY <1>1, <2>1, <2>2 DEF Used, AbortCountdown
  <2> QED BY <1>1, <1>7, <2>1, <2>3
<1> QED BY <1>8, <1>9, <1>10

\* A report of the address ends
LEMMA ReadAddress ==
    ASSUME Typing, Readword, Head(d2h) \notin Digits, ~m_isspace, m_cmd = "A"
    PROVE  /\ d2h # <<>> /\ d2h' = Tail(d2h) /\ pc' = "readword" /\ HostKeeps
           /\ NewCommand(Head(d2h)) /\ abort_countdown' = abort_countdown
           /\ m_inc' = (word % 2 = 0) /\ m_lastaddr' = word - (word % 4)
           /\ m_addr_set' = TRUE
           /\ UNCHANGED <<m_interrupt_flag, m_bus_err, n, buf, outcome, h2d>>
<1>1. ReadwordOther
    BY DEF Readword, ReadwordDigit, ReadwordDone, ReadwordThrow
<1>2. /\ d2h # <<>> /\ d2h' = Tail(d2h) /\ pc' = "readword"
      /\ NewCommand(Head(d2h)) /\ UNCHANGED <<call, n, buf, outcome, h2d, device, accesses, dropped>>
    BY <1>1 DEF ReadwordOther, Take
<1>3. TakeAddress /\ UNCHANGED <<m_interrupt_flag, m_nacks, m_bus_err, abort_countdown>>
    BY <1>1 DEF ReadwordOther, Acknowledged, Ignored
<1> QED BY <1>2, <1>3 DEF TakeAddress, HostKeeps

\* An answer ends
LEMMA ReadAnswer ==
    ASSUME Typing, Readword, Head(d2h) \notin Digits, ~m_isspace, m_cmd = "R"
    PROVE  ReadwordDone
BY DEF Readword, ReadwordDigit, ReadwordOther, ReadwordThrow, Acknowledged, Ignored

\* The report of an error ends
LEMMA ReadError ==
    ASSUME Typing, Readword, Head(d2h) \notin Digits, ~m_isspace, m_cmd = "E"
    PROVE  /\ d2h # <<>> /\ d2h' = Tail(d2h) /\ pc' = "idle" /\ outcome' = "buserr" /\ HostKeeps
           /\ NewCommand(Head(d2h)) /\ m_bus_err' = TRUE
           /\ UNCHANGED <<m_addr_set, m_inc, m_lastaddr, m_interrupt_flag, n, buf, abort_countdown, h2d>>
<1>1. ReadwordThrow
    BY DEF Readword, ReadwordDigit, ReadwordOther, ReadwordDone, Acknowledged, Ignored
<1> QED BY <1>1 DEF ReadwordThrow, Take, Throw, HostKeeps

-----------------------------------------------------------------------------
(* Reading towards the answer.                                             *)

LEMMA NamedIs ==
    ASSUME call \in Calls
    PROVE  /\ Named \in Word /\ Named - (Named % 4) = call.a /\ (Named \div 2) % 2 = 0
           /\ Named % 2 = 0 <=> Increments(call.kind)
           /\ Named \div 4 \in 0 .. (WordSize \div 4) - 1 /\ 4 * (Named \div 4) = call.a
           /\ call.a \in Word /\ call.a % 4 = 0
<1> DEFINE f == Flag(~Increments(call.kind))
<1>1. call.a \in Addrs
    BY DEF Calls
<1>2. f \in {0, 1} /\ (f = 0 <=> Increments(call.kind))
    BY DEF Flag
<1> HIDE DEF f
<1>3. Named = call.a + f
    BY DEF Named, f
<1>4. /\ call.a + f \in Word /\ (call.a + f) % 2 = f /\ ((call.a + f) \div 2) % 2 = 0
      /\ (call.a + f) \div 4 \in 0 .. (WordSize \div 4) - 1
      /\ 4 * ((call.a + f) \div 4) = call.a /\ (call.a + f) - ((call.a + f) % 4) = call.a
      /\ call.a \in Word /\ call.a % 4 = 0
    BY <1>1, <1>2, AddressCommand
<1> QED BY <1>2, <1>3, <1>4

LEMMA SpellingType ==
    ASSUME NEW w \in Word
    PROVE  /\ Digit[w \div Base] \in Digits /\ Digit[w % Base] \in Digits
           /\ Digit[w \div Base] \in Chars /\ Digit[w % Base] \in Chars
           /\ AllDigits(w) \in Seq(Chars)
           /\ AllDigits(w) = <<Digit[w \div Base]>> \o <<Digit[w % Base]>>
<1>1. /\ Digit[w \div Base] \in Digits /\ Digit[w % Base] \in Digits
      /\ Digit[w \div Base] \in Chars /\ Digit[w % Base] \in Chars
    BY SpellingIsRead, DigitIs
<1> QED BY <1>1 DEF AllDigits

LEMMA QuietIs ==
    ASSUME NEW c \in Quiet
    PROVE  /\ c \in Chars /\ c \notin Digits /\ c \in {Space, "Z", "I", "T"}
           /\ c # "A" /\ c # "R" /\ c # "E"
<1>1. c \in {Space, "Z", "I", "T"}
    BY DEF Quiet
<1>2. c \in Chars /\ c \notin Digits
    BY <1>1, LettersAreNotDigits DEF Chars
<1> QED BY <1>1, <1>2 DEF Space

LEMMA QuietSeq ==
    ASSUME NEW s \in Seq(Quiet)
    PROVE  s \in Seq(Chars) /\ (s # <<>> => Head(s) \in Quiet /\ Tail(s) \in Seq(Quiet))
<1>1. Quiet \subseteq Chars
    BY QuietIs
<1>2. s \in Seq(Chars)
    BY <1>1, SeqMonotonic
<1> QED BY <1>2, HeadTailProperties

\* What readword holds after a quiet character
LEMMA HoldsQuiet ==
    ASSUME Typing, NEW c \in Quiet, NewCommand(c)
    PROVE  /\ HeldQuiet' /\ HeldIdle' = Flag(c = "Z") /\ word' = 0
           /\ m_cmd' \in Chars \cup {"none"} /\ m_isspace' \in BOOLEAN
<1>1. c \in Chars /\ c \in {Space, "Z", "I", "T"} /\ m_cmd \in Chars \cup {"none"}
    BY QuietIs DEF Typing
<1>2. word' = 0 /\ m_isspace' = (c = Space) /\ m_cmd' = IF c = Space THEN m_cmd ELSE c
    BY DEF NewCommand
<1>3. CASE c = Space
  <2>1. m_isspace' = TRUE /\ m_cmd' = m_cmd /\ c # "Z"
    BY <1>2, <1>3 DEF Space
  <2> QED BY <1>1, <1>2, <2>1 DEF HeldQuiet, HeldIdle, Flag
<1>4. CASE c # Space
  <2>1. m_isspace' = FALSE /\ m_cmd' = c
    BY <1>2, <1>4
  <2>2. HeldQuiet'
    BY <1>1, <1>4, <2>1 DEF HeldQuiet
  <2>3. HeldIdle' = Flag(c = "Z")
    BY <2>1 DEF HeldIdle, Flag
  <2> QED BY <1>1, <1>2, <2>1, <2>2, <2>3
<1> QED BY <1>3, <1>4

\* What readword holds after another letter
LEMMA HoldsLetter ==
    ASSUME NEW c \in {"A", "R", "E"}, NewCommand(c)
    PROVE  ~m_isspace' /\ m_isspace' \in BOOLEAN /\ m_cmd' = c /\ word' = 0 /\ m_cmd' \in Chars
<1>1. c # Space /\ c \in Chars
    BY DEF Space, Chars, Commands
<1> QED BY <1>1 DEF NewCommand

\* The types of what readword keeps, after it has read a character
HostTypes ==
    /\ m_addr_set' \in BOOLEAN /\ m_isspace' \in BOOLEAN /\ m_interrupt_flag' \in BOOLEAN
    /\ m_bus_err' \in BOOLEAN /\ m_cmd' \in Chars \cup {"none"} /\ abort_countdown' \in 1 .. 3
    /\ word' \in Word /\ d2h' \in Seq(Chars)

LEMMA UsedIs ==
    ASSUME Typing
    PROVE  Used \in 0 .. 2 /\ HeldIdle \in {0, 1} /\ abort_countdown \in 1 .. 3
BY DEF Typing, Used, AbortCountdown, HeldIdle, Flag

\* The spelling of a word is read a digit at a time
LEMMA ReadSpelling ==
    ASSUME Typing, Readword, NEW l, NEW w \in Word, NEW rest \in Seq(Chars), Taking(l, w, rest)
    PROVE  \/ word = w /\ d2h = rest
           \/ /\ pc' = "readword" /\ HostKeeps /\ HostTypes /\ Taking(l, w, rest)'
              /\ UNCHANGED <<m_inc, m_lastaddr, n, buf, outcome, abort_countdown, h2d>>
<1> DEFINE x == Digit[w \div Base]
           y == Digit[w % Base]
<1>1. /\ x \in Digits /\ y \in Digits /\ x \in Chars /\ y \in Chars
      /\ AllDigits(w) = <<x>> \o <<y>>
      /\ ShiftIn(0, x) = w \div Base /\ ShiftIn(w \div Base, y) = w
      /\ w \div Base \in Word
    BY SpellingType, SpellingIsRead
<1> HIDE DEF x, y
<1>2. ASSUME NEW c \in Digits, NEW left \in Seq(Chars), NEW v \in Word, c \in Chars,
             d2h = <<c>> \o left, ShiftIn(word, c) = v,
             (left = <<y>> \o rest /\ v = w \div Base) \/ (left = rest /\ v = w)
      PROVE  /\ pc' = "readword" /\ HostKeeps /\ HostTypes /\ Taking(l, w, rest)'
             /\ UNCHANGED <<m_inc, m_lastaddr, n, buf, outcome, abort_countdown, h2d>>
  <2>1. Head(d2h) = c /\ Tail(d2h) = left
    BY <1>2, FrontOfOne
  <2>2. /\ d2h' = left /\ pc' = "readword" /\ HostKeeps /\ word' = v /\ m_isspace' = FALSE
        /\ UNCHANGED <<m_addr_set, m_inc, m_lastaddr, m_cmd, m_interrupt_flag, m_bus_err,
                       n, buf, abort_countdown, outcome, h2d>>
    BY <1>2, <2>1, ReadDigit
  <2>3. Taking(l, w, rest)'
    BY <1>2, <2>2 DEF Taking, y
  <2>4. HostTypes
    BY <1>2, <2>2 DEF HostTypes, Typing
  <2> QED BY <2>2, <2>3, <2>4
<1>3. CASE word = 0 /\ d2h = AllDigits(w) \o rest
  <2>1. <<x>> \in Seq(Chars) /\ <<y>> \in Seq(Chars) /\ <<y>> \o rest \in Seq(Chars)
    BY <1>1, FrontOfOne
  <2>2. d2h = <<x>> \o (<<y>> \o rest)
    BY <1>1, <1>3, <2>1, Joins
  <2> QED BY <1>1, <1>2, <1>3, <2>1, <2>2
<1>4. CASE word = w \div Base /\ d2h = <<y>> \o rest
    BY <1>1, <1>2, <1>4
<1> QED BY <1>3, <1>4 DEF Taking, y

\* A read with rest still to come either stays before rest or takes its
\* first character; it neither gives up nor forgets where the device is
LEMMA ReadBefore ==
    ASSUME Typing, Readword, call \in Calls, m_inc <=> Increments(call.kind),
           n = 0 => m_lastaddr = call.a,
           NEW rest \in Seq(Chars), rest # <<>> => Head(rest) \notin Digits,
           NEW z \in Nat, z <= 2, Before(rest, z)
    PROVE  /\ pc' = "readword" /\ HostKeeps
           /\ UNCHANGED <<m_inc, m_lastaddr, n, buf, outcome, h2d>>
           /\ m_addr_set' \in BOOLEAN /\ m_interrupt_flag' \in BOOLEAN /\ m_bus_err' \in BOOLEAN
           /\ abort_countdown' \in 1 .. 3
           /\ \/ Before(rest, z)' /\ HostTypes
              \/ rest # <<>> /\ d2h' = Tail(rest) /\ NewCommand(Head(rest)) /\ Used' <= z
<1>1. /\ Used \in 0 .. 2 /\ HeldIdle \in {0, 1} /\ abort_countdown \in 1 .. 3
      /\ m_bus_err \in BOOLEAN /\ m_addr_set \in BOOLEAN /\ m_interrupt_flag \in BOOLEAN
      /\ m_cmd \in Chars \cup {"none"} /\ m_inc \in BOOLEAN
    BY UsedIs DEF Typing
<1>2. /\ Named \in Word /\ Named - (Named % 4) = call.a
      /\ Named % 2 = 0 <=> Increments(call.kind)
    BY NamedIs
<1> DEFINE x == Digit[Named \div Base]
           y == Digit[Named % Base]
<1>3. /\ x \in Digits /\ y \in Digits /\ x \in Chars /\ y \in Chars
      /\ AllDigits(Named) = <<x>> \o <<y>> /\ AllDigits(Named) \in Seq(Chars)
      /\ ShiftIn(0, x) = Named \div Base /\ ShiftIn(Named \div Base, y) = Named
      /\ Named \div Base \in Word
    BY <1>2, SpellingType, SpellingIsRead
<1>4. d2h # <<>> /\ d2h \in Seq(Chars)
    BY DEF Typing, Readword, ReadwordDigit, ReadwordOther, ReadwordDone, ReadwordThrow, Take
<1>5. Tail(d2h) \in Seq(Chars)
    BY <1>4, HeadTailProperties
<1> HIDE DEF x, y
<1>6. ASSUME HeldQuiet, d2h = rest, Used + HeldIdle <= z
      PROVE  /\ pc' = "readword" /\ HostKeeps
             /\ UNCHANGED <<m_inc, m_lastaddr, n, buf, outcome, h2d>>
             /\ m_addr_set' \in BOOLEAN /\ m_interrupt_flag' \in BOOLEAN /\ m_bus_err' \in BOOLEAN
             /\ abort_countdown' \in 1 .. 3
             /\ rest # <<>> /\ d2h' = Tail(rest) /\ NewCommand(Head(rest)) /\ Used' <= z
  <2>1. Head(d2h) \notin Digits /\ Used + HeldIdle <= 2
    BY <1>1, <1>4, <1>6
  <2>2. /\ d2h' = Tail(d2h) /\ pc' = "readword" /\ HostKeeps
        /\ NewCommand(Head(d2h)) /\ Used' = Used + HeldIdle /\ abort_countdown' \in 1 .. 3
        /\ m_addr_set' \in BOOLEAN /\ m_interrupt_flag' \in BOOLEAN
        /\ UNCHANGED <<m_inc, m_lastaddr, m_bus_err, n, buf, outcome, h2d>>
    BY <1>6, <2>1, ReadQuiet
  <2> QED BY <1>1, <1>4, <1>6, <2>2
<1>7. ASSUME n = 0, HeldQuiet, NEW a \in Seq(Quiet),
             d2h = a \o (<<"A">> \o AllDigits(Named)) \o rest, Used + HeldIdle + Idles(a) <= z
      PROVE  /\ pc' = "readword" /\ HostKeeps
             /\ UNCHANGED <<m_inc, m_lastaddr, n, buf, outcome, h2d>>
             /\ m_addr_set' \in BOOLEAN /\ m_interrupt_flag' \in BOOLEAN /\ m_bus_err' \in BOOLEAN
             /\ abort_countdown' \in 1 .. 3
             /\ Before(rest, z)' /\ HostTypes
  <2> DEFINE t == <<"A">> \o AllDigits(Named)
  <2>1. "A" \in Chars /\ "A" \notin Digits
    BY LettersAreNotDigits DEF Chars, Commands
  <2>2. a \in Seq(Chars) /\ t \in Seq(Chars) /\ (a # <<>> => Head(a) \in Quiet /\ Tail(a) \in Seq(Quiet))
    BY <1>3, <2>1, QuietSeq, FrontOfOne
  <2>3. Idles(a) \in Nat
    BY IdlesFinite
  <2>4. a \o t \in Seq(Chars) /\ (a \o t) \o rest = a \o (t \o rest) /\ t \o rest \in Seq(Chars)
    <3> HIDE DEF t
    <3>1. a \o t \in Seq(Chars) /\ t \o rest \in Seq(Chars)
      BY <2>2, Joins
    <3>2. a \in Texts /\ t \in Texts /\ rest \in Texts
      BY <2>2 DEF Texts
    <3>3. (a \o t) \o rest = a \o (t \o rest)
      BY <3>2, JoinsOfTexts
    <3> QED BY <3>1, <3>3
  <2>5. d2h = a \o (t \o rest)
    BY <1>7, <2>4
  <2> HIDE DEF t
  <2>6. Head(d2h) = IF a = <<>> THEN "A" ELSE Head(a)
    <3>1. CASE a = <<>>
      <4>1. d2h = t \o rest
        BY <2>4, <2>5, <3>1, ConcatEmptySeq
      <4>2. t # <<>> /\ Head(t) = "A"
        BY <1>3, <2>1, FrontOfOne DEF t
      <4> QED BY <2>2, <3>1, <4>1, <4>2, FrontOfConcat
    <3>2. CASE a # <<>>
      BY <2>2, <2>4, <2>5, <3>2, FrontOfConcat
    <3> QED BY <3>1, <3>2
  <2>7. Head(d2h) \notin Digits
    BY <2>1, <2>2, <2>6, QuietIs
  <2>8. /\ d2h' = Tail(d2h) /\ pc' = "readword" /\ HostKeeps
        /\ NewCommand(Head(d2h)) /\ Used' = Used + HeldIdle /\ abort_countdown' \in 1 .. 3
        /\ m_addr_set' \in BOOLEAN /\ m_interrupt_flag' \in BOOLEAN
        /\ UNCHANGED <<m_inc, m_lastaddr, m_bus_err, n, buf, outcome, h2d>>
    <3>1. Used + HeldIdle <= 2
      BY <1>1, <1>7, <2>3
    <3> QED BY <1>7, <2>7, <3>1, ReadQuiet
  <2>9. call' = call /\ Named' = Named /\ n' = 0
    BY <1>7, <2>8 DEF HostKeeps, Named
  <2>10. CASE a = <<>>
    <3>1. ~m_isspace' /\ m_isspace' \in BOOLEAN /\ m_cmd' = "A" /\ word' = 0 /\ m_cmd' \in Chars
      BY <2>6, <2>8, <2>10, HoldsLetter
    <3>2. d2h' = AllDigits(Named) \o rest
      <4>1. d2h = t \o rest
        BY <2>4, <2>5, <2>10, ConcatEmptySeq
      <4>2. t # <<>> /\ Tail(t) = AllDigits(Named)
        BY <1>3, <2>1, FrontOfOne DEF t
      <4>3. t \in Seq(Chars) /\ rest \in Seq(Chars)
        BY <2>2
      <4>4. Tail(t \o rest) = Tail(t) \o rest
        BY <4>2, <4>3, FrontOfConcat
      <4> QED BY <2>8, <4>1, <4>2, <4>4
    <3>3. Used' <= z
      BY <1>1, <1>7, <2>3, <2>8
    <3>4. Before(rest, z)'
      BY <2>9, <3>1, <3>2, <3>3 DEF Before, Taking
    <3>5. HostTypes
      BY <1>1, <1>2, <1>5, <2>8, <3>1, WordSizeIs DEF HostTypes, Word
    <3> QED BY <1>1, <2>8, <3>4, <3>5
  <2>11. CASE a # <<>>
    <3> DEFINE c == Head(a)
    <3>1. c \in Quiet /\ NewCommand(c)
      BY <2>2, <2>6, <2>8, <2>11
    <3> HIDE DEF c
    <3>2. /\ HeldQuiet' /\ HeldIdle' = Flag(c = "Z") /\ word' = 0
          /\ m_cmd' \in Chars \cup {"none"} /\ m_isspace' \in BOOLEAN
      BY <3>1, HoldsQuiet
    <3>3. d2h' = (Tail(a) \o t) \o rest
      <4>1. d2h' = Tail(a) \o (t \o rest)
        <5> DEFINE u == t \o rest
        <5>1. a \in Seq(Chars) /\ u \in Seq(Chars)
          BY <2>2, <2>4
        <5> HIDE DEF u
        <5>2. Tail(a \o u) = Tail(a) \o u
          BY <2>11, <5>1, FrontOfConcat
        <5> QED BY <2>5, <2>8, <5>2 DEF u
      <4>2. Tail(a) \in Seq(Chars)
        BY <2>2, <2>11, QuietSeq
      <4>3. Tail(a) \in Texts /\ t \in Texts /\ rest \in Texts
        BY <2>2, <4>2 DEF Texts
      <4>4. (Tail(a) \o t) \o rest = Tail(a) \o (t \o rest)
        BY <4>3, JoinsOfTexts
      <4> QED BY <4>1, <4>4
    <3>4. Used' + HeldIdle' + Idles(Tail(a)) <= z
      <4>1. Idles(Tail(a)) + Flag(c = "Z") <= Idles(a)
        BY <2>11, IdlesTail DEF c
      <4>2. Idles(Tail(a)) \in Nat
        BY <2>2, <2>11, IdlesFinite
      <4>3. Used' + HeldIdle' + Idles(Tail(a)) = Used + HeldIdle + (Idles(Tail(a)) + HeldIdle')
                /\ HeldIdle' \in {0, 1}
        <5>1. HeldIdle' \in {0, 1}
          BY <3>2 DEF Flag
        <5> QED BY <1>1, <2>8, <4>2, <5>1
      <4>4. Idles(Tail(a)) + HeldIdle' <= Idles(a)
        BY <3>2, <4>1
      <4> QED BY <1>1, <1>7, <2>3, <4>2, <4>3, <4>4
    <3>5. Before(rest, z)'
      BY <2>2, <2>9, <2>11, <3>2, <3>3, <3>4 DEF Before, t
    <3>6. HostTypes
      BY <1>1, <1>2, <1>5, <2>8, <3>2, WordSizeIs DEF HostTypes, Word
    <3> QED BY <1>1, <2>8, <3>5, <3>6
  <2> QED BY <2>10, <2>11
<1>8. ASSUME n = 0, Taking("A", Named, rest), Used <= z
      PROVE  /\ pc' = "readword" /\ HostKeeps
             /\ UNCHANGED <<m_inc, m_lastaddr, n, buf, outcome, h2d>>
             /\ m_addr_set' \in BOOLEAN /\ m_interrupt_flag' \in BOOLEAN /\ m_bus_err' \in BOOLEAN
             /\ abort_countdown' \in 1 .. 3
             /\ \/ Before(rest, z)' /\ HostTypes
                \/ rest # <<>> /\ d2h' = Tail(rest) /\ NewCommand(Head(rest)) /\ Used' <= z
  <2>0. ~m_isspace /\ m_cmd = "A"
    BY <1>8 DEF Taking
  <2> PICK w \in Word : w = Named
    BY <1>2
  <2>1. CASE /\ pc' = "readword" /\ HostKeeps /\ HostTypes /\ Taking("A", w, rest)'
             /\ UNCHANGED <<m_inc, m_lastaddr, n, buf, outcome, abort_countdown, h2d>>
    <3>1. n' = 0 /\ Used' = Used /\ Named' = w
      BY <1>8, <2>1 DEF Used, Named, HostKeeps
    <3>2. Before(rest, z)'
      BY <1>8, <2>1, <3>1 DEF Before, Taking
    <3> QED BY <1>1, <2>1, <3>2 DEF HostTypes
  <2>2. \/ word = w /\ d2h = rest
        \/ /\ pc' = "readword" /\ HostKeeps /\ HostTypes /\ Taking("A", w, rest)'
           /\ UNCHANGED <<m_inc, m_lastaddr, n, buf, outcome, abort_countdown, h2d>>
    <3>1. Taking("A", w, rest)
      BY <1>8
    <3> QED BY <3>1, ReadSpelling
  <2>4. CASE word = Named /\ d2h = rest
    <3>1. Head(d2h) \notin Digits
      BY <1>4, <2>4
    <3>2. /\ d2h # <<>> /\ d2h' = Tail(d2h) /\ pc' = "readword" /\ HostKeeps
          /\ NewCommand(Head(d2h)) /\ abort_countdown' = abort_countdown
          /\ m_inc' = (word % 2 = 0) /\ m_lastaddr' = word - (word % 4)
          /\ m_addr_set' = TRUE
          /\ UNCHANGED <<m_interrupt_flag, m_bus_err, n, buf, outcome, h2d>>
      BY <2>0, <3>1, ReadAddress
    <3>3. m_lastaddr' = m_lastaddr /\ m_inc' = m_inc
      <4>1. m_lastaddr' = call.a
        BY <1>2, <2>4, <3>2
      <4>2. m_inc' <=> m_inc
        BY <1>2, <2>4, <3>2
      <4>3. m_inc' \in BOOLEAN /\ m_inc \in BOOLEAN
        BY <1>1, <3>2
      <4> QED BY <1>8, <4>1, <4>2, <4>3
    <3>4. Used' = Used
      BY <3>2 DEF Used
    <3> QED BY <1>1, <1>4, <1>8, <2>4, <3>2, <3>3, <3>4
  <2> QED BY <2>1, <2>2, <2>4
<1> QED BY <1>6, <1>7, <1>8 DEF Before

-----------------------------------------------------------------------------
(* The host reads a character.                                             *)

\* Taking a quiet character off the front of the stream
LEMMA QuietTaken ==
    ASSUME Typing, NEW s \in Seq(Quiet), s # <<>>, NewCommand(Head(s))
    PROVE  /\ HeldQuiet' /\ HeldIdle' \in {0, 1} /\ Tail(s) \in Seq(Quiet) /\ Tail(s) \in Seq(Chars)
           /\ Idles(Tail(s)) \in Nat /\ HeldIdle' + Idles(Tail(s)) <= Idles(s)
           /\ m_cmd' \in Chars \cup {"none"} /\ m_isspace' \in BOOLEAN /\ word' \in Word
<1>1. Head(s) \in Quiet /\ Tail(s) \in Seq(Quiet)
    BY QuietSeq
<1>2. /\ HeldQuiet' /\ HeldIdle' = Flag(Head(s) = "Z") /\ word' = 0
      /\ m_cmd' \in Chars \cup {"none"} /\ m_isspace' \in BOOLEAN
    BY <1>1, HoldsQuiet
<1>3. Idles(Tail(s)) + Flag(Head(s) = "Z") <= Idles(s)
    BY IdlesTail
<1>4. Idles(Tail(s)) \in Nat /\ Tail(s) \in Seq(Chars)
    BY <1>1, IdlesFinite, QuietSeq
<1>5. HeldIdle' \in {0, 1}
    BY <1>2 DEF Flag
<1>6. HeldIdle' + Idles(Tail(s)) <= Idles(s)
  <2>1. Idles(Tail(s)) + HeldIdle' <= Idles(s)
    BY <1>2, <1>3
  <2> QED BY <1>4, <1>5, <2>1
<1>7. word' \in Word
    BY <1>2, WordSizeIs DEF Word
<1> QED BY <1>1, <1>2, <1>4, <1>5, <1>6, <1>7

\* A read that changes nothing but what the host takes in keeps the rest
LEMMA ReadTypes ==
    ASSUME Typing, HostKeeps, HostTypes, UNCHANGED <<m_inc, m_lastaddr, n, buf, outcome>>
    PROVE  Typing'
BY DEF Typing, HostKeeps, HostTypes, device

LEMMA AccessesKept ==
    ASSUME AccessInv, UNCHANGED <<call, accesses, dropped>>
    PROVE  AccessInv'
BY DEF AccessInv, At

LEMMA BusyKept ==
    ASSUME Busy, UNCHANGED <<call, accesses, m_inc, m_lastaddr, n, buf, outcome>>,
           \/ Len(accesses) = n /\ (Naming' \/ Asking')
           \/ Answered'
    PROVE  Busy'
BY DEF Busy, At, Legal

LEMMA SomethingToRead ==
    ASSUME Typing, Readword
    PROVE  d2h # <<>> /\ d2h \in Seq(Chars) /\ pc = "readword"
BY DEF Typing, Readword, ReadwordDigit, ReadwordOther, ReadwordDone, ReadwordThrow, Take

\* While the address command is still to be sent
LEMMA ReadNaming ==
    ASSUME ReadsOnly, Typing, AccessInv, Readword, Busy, Len(accesses) = n, Naming
    PROVE  pc' = "readword" /\ Typing' /\ AccessInv' /\ Busy'
<1> PICK s \in Seq(Quiet) : s = d2h
    BY DEF Naming
<1>1. /\ Used \in 0 .. 2 /\ HeldIdle \in {0, 1} /\ Idles(s) \in Nat /\ nidle \in 0 .. MaxIdle /\ MaxIdle <= 2
      /\ HeldQuiet /\ Used + HeldIdle + Idles(s) <= nidle
    BY UsedIs, IdlesFinite, Constants DEF Typing, ReadsOnly, AbortCountdown, Naming
<1>2. s # <<>> /\ Head(d2h) \notin Digits
    BY SomethingToRead, QuietSeq, QuietIs
<1>3. /\ d2h' = Tail(s) /\ pc' = "readword" /\ HostKeeps
      /\ NewCommand(Head(s)) /\ Used' = Used + HeldIdle /\ abort_countdown' \in 1 .. 3
      /\ m_addr_set' \in BOOLEAN /\ m_interrupt_flag' \in BOOLEAN
      /\ UNCHANGED <<m_inc, m_lastaddr, m_bus_err, n, buf, outcome, h2d>>
  <2>1. Used + HeldIdle <= 2
    BY <1>1, Constants
  <2> QED BY <1>1, <1>2, <2>1, ReadQuiet
<1>4. /\ HeldQuiet' /\ HeldIdle' \in {0, 1} /\ Tail(s) \in Seq(Quiet) /\ Tail(s) \in Seq(Chars)
      /\ Idles(Tail(s)) \in Nat /\ HeldIdle' + Idles(Tail(s)) <= Idles(s)
      /\ m_cmd' \in Chars \cup {"none"} /\ m_isspace' \in BOOLEAN /\ word' \in Word
    BY <1>2, <1>3, QuietTaken
<1>5. HostTypes
    BY <1>3, <1>4 DEF HostTypes, Typing
<1>6. Typing' /\ AccessInv'
    BY <1>3, <1>5, ReadTypes, AccessesKept DEF HostKeeps
<1>7. Used' + HeldIdle' + Idles(Tail(s)) <= nidle'
  <2>1. nidle' = nidle
    BY <1>3 DEF HostKeeps, device
  <2> QED BY <1>1, <1>3, <1>4, <2>1, Constants
<1>8. Naming'
    BY <1>3, <1>4, <1>7 DEF Naming, Named, HostKeeps, device
<1>9. Busy'
    BY <1>3, <1>8, BusyKept DEF HostKeeps
<1> QED BY <1>3, <1>6, <1>9

LEMMA OneOrNone == \A h \in {0, 1} : h \in Nat /\ 0 + h <= h
OBVIOUS

LEMMA OneMore ==
    \A z \in Nat, h \in {0, 1}, u \in Int : u <= z => z + h \in Nat /\ u + h <= z + h
OBVIOUS

\* While the read command is on its way or on the bus
LEMMA ReadAsking ==
    ASSUME ReadsOnly, Typing, AccessInv, Readword, Busy, Len(accesses) = n, Asking
    PROVE  pc' = "readword" /\ Typing' /\ AccessInv' /\ Busy'
<1>1. PICK rest \in Seq(Quiet), z \in Nat : Before(rest, z) /\ z + Idles(rest) <= nidle
    BY DEF Asking, NoAnswer
<1>2. /\ Idles(rest) \in Nat /\ nidle \in 0 .. MaxIdle /\ MaxIdle <= 2 /\ z <= 2
      /\ rest \in Seq(Chars) /\ (rest # <<>> => Head(rest) \notin Digits)
  <2>1. Idles(rest) \in Nat /\ nidle \in 0 .. MaxIdle /\ MaxIdle <= 2
    BY IdlesFinite, Constants DEF Typing, ReadsOnly, AbortCountdown
  <2>2. rest \in Seq(Chars) /\ (rest # <<>> => Head(rest) \notin Digits)
    BY QuietSeq, QuietIs
  <2> QED BY <1>1, <2>1, <2>2, Constants
<1>3. call \in Calls /\ (m_inc <=> Increments(call.kind)) /\ (n = 0 => m_lastaddr = call.a)
    BY AtMoves DEF Busy
<1>4. /\ pc' = "readword" /\ HostKeeps
      /\ UNCHANGED <<m_inc, m_lastaddr, n, buf, outcome, h2d>>
      /\ m_addr_set' \in BOOLEAN /\ m_interrupt_flag' \in BOOLEAN /\ m_bus_err' \in BOOLEAN
      /\ abort_countdown' \in 1 .. 3
      /\ \/ Before(rest, z)' /\ HostTypes
         \/ rest # <<>> /\ d2h' = Tail(rest) /\ NewCommand(Head(rest)) /\ Used' <= z
    BY <1>1, <1>2, <1>3, ReadBefore
<1>5. NoAnswer' /\ HostTypes
  <2>0. nidle' = nidle
    BY <1>4 DEF HostKeeps, device
  <2>1. CASE Before(rest, z)' /\ HostTypes
    BY <1>1, <2>0, <2>1 DEF NoAnswer
  <2>2. CASE rest # <<>> /\ d2h' = Tail(rest) /\ NewCommand(Head(rest)) /\ Used' <= z
    <3>1. /\ HeldQuiet' /\ HeldIdle' \in {0, 1} /\ Tail(rest) \in Seq(Quiet) /\ Tail(rest) \in Seq(Chars)
          /\ Idles(Tail(rest)) \in Nat /\ HeldIdle' + Idles(Tail(rest)) <= Idles(rest)
          /\ m_cmd' \in Chars \cup {"none"} /\ m_isspace' \in BOOLEAN /\ word' \in Word
      BY <2>2, QuietTaken
    <3> PICK h \in {0, 1} : h = HeldIdle'
      BY <3>1
    <3>7. Used' \in Int
      BY <1>4 DEF Used, AbortCountdown
    <3> PICK u \in Int : u = Used'
      BY <3>7
    <3> DEFINE y == z + h
    <3> PICK left \in Seq(Quiet) : left = Tail(rest)
      BY <3>1
    <3>2. y \in Nat /\ Used' + HeldIdle' <= y
      <4>1. u <= z
        BY <2>2
      <4>2. y \in Nat /\ u + h <= y
        BY <4>1, OneMore
      <4> QED BY <4>2
    <3>3. Before(left, y)'
      BY <2>2, <3>1, <3>2 DEF Before
    <3>4. y + Idles(left) <= nidle
      <4>1. h + Idles(left) <= Idles(rest) /\ Idles(left) \in Nat
        BY <3>1
      <4> QED BY <1>1, <1>2, <4>1
    <3> HIDE DEF y
    <3>5. HostTypes
      BY <1>4, <2>2, <3>1 DEF HostTypes
    <3> QED BY <2>0, <3>2, <3>3, <3>4, <3>5 DEF NoAnswer
  <2> QED BY <1>4, <2>1, <2>2
<1>6. Typing' /\ AccessInv'
    BY <1>4, <1>5, ReadTypes, AccessesKept DEF HostKeeps
<1>7. Asking'
    BY <1>4, <1>5 DEF Asking, Placed, At, HostKeeps, device
<1>8. Busy'
    BY <1>4, <1>7, BusyKept DEF HostKeeps
<1> QED BY <1>4, <1>6, <1>8

\* The answer on its way, letter first
LEMMA SpeltIs ==
    ASSUME Typing, AccessInv, Len(accesses) = n + 1
    PROVE  /\ accesses[n + 1].err \in BOOLEAN /\ accesses[n + 1].d \in Word
           /\ Spelt(n + 1) \in Seq(Chars) /\ Spelt(n + 1) # <<>>
           /\ Head(Spelt(n + 1)) = IF accesses[n + 1].err THEN "E" ELSE "R"
           /\ Tail(Spelt(n + 1)) = IF accesses[n + 1].err THEN <<>> ELSE AllDigits(accesses[n + 1].d)
<1> DEFINE r == accesses[n + 1]
<1>1. r \in [we : BOOLEAN, a : Word, d : Word, err : BOOLEAN]
  <2>1. n \in Nat /\ n + 1 \in 1 .. Len(accesses)
    BY DEF Typing
  <2>2. accesses \in Seq([we : BOOLEAN, a : Word, d : Word, err : BOOLEAN])
    BY DEF AccessInv
  <2> QED BY <2>1, <2>2, ElementOfSeq
<1>2. r.err \in BOOLEAN /\ r.d \in Word
    BY <1>1
<1>3. Spelt(n + 1) = IF r.err THEN <<"E">> ELSE <<"R">> \o AllDigits(r.d)
    BY DEF Spelt
<1> HIDE DEF r
<1>4. "E" \in Chars /\ "R" \in Chars
    BY DEF Chars, Commands
<1>5. CASE r.err
  <2>1. Spelt(n + 1) = <<"E">>
    BY <1>3, <1>5
  <2>2. <<"E">> \in Seq(Chars) /\ <<"E">> # <<>> /\ Head(<<"E">>) = "E" /\ Tail(<<"E">>) = <<>>
    BY <1>4
  <2> QED BY <1>2, <1>5, <2>1, <2>2 DEF r
<1>6. CASE ~r.err
  <2>1. Spelt(n + 1) = <<"R">> \o AllDigits(r.d) /\ AllDigits(r.d) \in Seq(Chars)
    BY <1>2, <1>3, <1>6, SpellingType
  <2> DEFINE t == AllDigits(r.d)
  <2>2. t \in Seq(Chars)
    BY <2>1
  <2> HIDE DEF t
  <2>3. /\ <<"R">> \o t # <<>> /\ <<"R">> \o t \in Seq(Chars)
        /\ Head(<<"R">> \o t) = "R" /\ Tail(<<"R">> \o t) = t
    BY <1>4, <2>2, FrontOfOne
  <2> QED BY <1>2, <1>6, <2>1, <2>3 DEF r, t
<1> QED BY <1>5, <1>6

\* Towards an answer that is on its way
LEMMA ReadTowards ==
    ASSUME ReadsOnly, Typing, AccessInv, Readword, Busy, Answered, NEW after \in Seq(Quiet),
           Idles(after) <= nidle, NEW b \in Seq(Quiet), NEW z \in Nat,
           Before(b \o Spelt(n + 1) \o after, z), z + Idles(b) <= MaxIdle
    PROVE  pc' = "readword" /\ Typing' /\ AccessInv' /\ Busy'
<1>1. /\ accesses[n + 1].err \in BOOLEAN /\ accesses[n + 1].d \in Word
      /\ Spelt(n + 1) \in Seq(Chars) /\ Spelt(n + 1) # <<>>
      /\ Head(Spelt(n + 1)) = IF accesses[n + 1].err THEN "E" ELSE "R"
      /\ Tail(Spelt(n + 1)) = IF accesses[n + 1].err THEN <<>> ELSE AllDigits(accesses[n + 1].d)
    BY SpeltIs DEF Answered
<1> PICK sp \in Seq(Chars) : sp = Spelt(n + 1)
    BY <1>1
<1> PICK err \in BOOLEAN : err = accesses[n + 1].err
    BY <1>1
<1> PICK d \in Word : d = accesses[n + 1].d
    BY <1>1
<1>2. /\ b \in Seq(Chars) /\ after \in Seq(Chars) /\ AllDigits(d) \in Seq(Chars)
      /\ b # <<>> => Head(b) \in Quiet /\ Tail(b) \in Seq(Quiet)
    BY QuietSeq, SpellingType
<1> DEFINE rest == b \o sp \o after
<1>3. rest \in Seq(Chars) /\ rest = b \o (sp \o after) /\ sp \o after \in Seq(Chars)
  <2>1. b \in Texts /\ sp \in Texts /\ after \in Texts
    BY <1>2 DEF Texts
  <2>2. b \o sp \in Seq(Chars) /\ sp \o after \in Seq(Chars)
    BY <1>2, ConcatProperties
  <2>3. b \o sp \o after \in Seq(Chars)
    BY <1>2, <2>2, ConcatProperties
  <2>4. b \o sp \o after = b \o (sp \o after)
    BY <2>1, JoinsOfTexts
  <2> QED BY <2>2, <2>3, <2>4
<1>4. /\ sp \o after # <<>> /\ Head(sp \o after) = (IF err THEN "E" ELSE "R")
      /\ Tail(sp \o after) = (IF err THEN <<>> ELSE AllDigits(d)) \o after
  <2>1. sp # <<>> /\ after \in Seq(Chars)
    BY <1>1, <1>2
  <2>2. sp \o after # <<>> /\ Head(sp \o after) = Head(sp) /\ Tail(sp \o after) = Tail(sp) \o after
    BY <2>1, FrontOfConcat
  <2> QED BY <1>1, <2>2
<1>5. b = <<>> => rest = sp \o after
    BY <1>3, Joins
<1>6. b # <<>> => rest # <<>> /\ Head(rest) = Head(b) /\ Tail(rest) = Tail(b) \o (sp \o after)
  <2> DEFINE t == sp \o after
  <2>1. t \in Seq(Chars) /\ b \in Seq(Chars)
    BY <1>2, <1>3
  <2> HIDE DEF t
  <2>2. b # <<>> => b \o t # <<>> /\ Head(b \o t) = Head(b) /\ Tail(b \o t) = Tail(b) \o t
    BY <2>1, FrontOfConcat
  <2> QED BY <1>3, <2>2 DEF t
<1> HIDE DEF rest
<1>7. rest # <<>> /\ Head(rest) \notin Digits
  <2>1. "E" \notin Digits /\ "R" \notin Digits
    BY LettersAreNotDigits DEF Commands
  <2> QED BY <1>2, <1>4, <1>5, <1>6, <2>1, QuietIs
<1>8. z <= 2 /\ Idles(b) \in Nat /\ MaxIdle \in Nat
  <2>1. MaxIdle \in Nat /\ MaxIdle <= 2 /\ Idles(b) \in Nat
    BY Constants, IdlesFinite DEF ReadsOnly, AbortCountdown
  <2> QED BY <2>1
<1>9. call \in Calls /\ (m_inc <=> Increments(call.kind)) /\ (n = 0 => m_lastaddr = call.a)
    BY AtMoves DEF Busy
<1>10. /\ pc' = "readword" /\ HostKeeps
       /\ UNCHANGED <<m_inc, m_lastaddr, n, buf, outcome, h2d>>
       /\ m_addr_set' \in BOOLEAN /\ m_interrupt_flag' \in BOOLEAN /\ m_bus_err' \in BOOLEAN
       /\ abort_countdown' \in 1 .. 3
       /\ \/ Before(rest, z)' /\ HostTypes
          \/ rest # <<>> /\ d2h' = Tail(rest) /\ NewCommand(Head(rest)) /\ Used' <= z
  <2>1. Before(rest, z)
    BY DEF rest
  <2> QED BY <1>3, <1>7, <1>8, <1>9, <2>1, ReadBefore
<1>11. /\ Spelt(n + 1)' = sp /\ accesses[n + 1].err' = err /\ accesses[n + 1].d' = d
       /\ nidle' = nidle /\ h2d' = <<>> /\ ~cmd_loaded' /\ ~o_wb_cyc' /\ Len(accesses') = n' + 1
       /\ (err \/ Placed(n + 1)')
  <2>1. UNCHANGED <<accesses, n, call, nidle, h2d, cmd_loaded, o_wb_cyc, o_wb_addr, inc>>
    BY <1>10 DEF HostKeeps, device
  <2>2. h2d = <<>> /\ ~cmd_loaded /\ ~o_wb_cyc /\ Len(accesses) = n + 1 /\ (err \/ Placed(n + 1))
    BY DEF Answered
  <2> QED BY <2>1, <2>2 DEF Spelt, Placed, At
<1>12. Answered' /\ HostTypes
  <2>1. CASE Before(rest, z)' /\ HostTypes
    <3>1. Before(b \o Spelt(n + 1) \o after, z)'
      BY <1>11, <2>1 DEF rest
    <3> QED BY <1>11, <2>1, <3>1 DEF Answered
  <2>2. CASE b = <<>> /\ d2h' = Tail(rest) /\ NewCommand(Head(rest))
    <3>1. d2h' = (IF err THEN <<>> ELSE AllDigits(d)) \o after /\ NewCommand(IF err THEN "E" ELSE "R")
      BY <1>4, <1>5, <2>2
    <3>2. /\ ~m_isspace' /\ m_isspace' \in BOOLEAN /\ m_cmd' = (IF err THEN "E" ELSE "R")
          /\ word' = 0 /\ m_cmd' \in Chars
      BY <3>1, HoldsLetter
    <3>3. word' \in Word
      BY <3>2, WordSizeIs DEF Word
    <3>4. CASE err
      <4>1. d2h' = after
        BY <1>2, <3>1, <3>4, Joins
      <4>2. HostTypes
        BY <1>2, <1>10, <3>2, <3>3, <4>1 DEF HostTypes
      <4> QED BY <1>11, <3>2, <3>4, <4>1, <4>2 DEF Answered
    <3>5. CASE ~err
      <4>1. Taking("R", d, after)'
        BY <3>1, <3>2, <3>5 DEF Taking
      <4>2. d2h' \in Seq(Chars)
        BY <1>2, <3>1, <3>5, Joins
      <4>3. HostTypes
        BY <1>10, <3>2, <3>3, <4>2 DEF HostTypes
      <4>4. Taking("R", accesses[n + 1].d, after)'
        BY <1>11, <4>1 DEF Taking
      <4> QED BY <1>11, <3>5, <4>3, <4>4 DEF Answered
    <3> QED BY <3>4, <3>5
  <2>3. CASE b # <<>> /\ d2h' = Tail(rest) /\ NewCommand(Head(rest)) /\ Used' <= z
    <3>1. /\ HeldQuiet' /\ HeldIdle' \in {0, 1} /\ Tail(b) \in Seq(Quiet) /\ Tail(b) \in Seq(Chars)
          /\ Idles(Tail(b)) \in Nat /\ HeldIdle' + Idles(Tail(b)) <= Idles(b)
          /\ m_cmd' \in Chars \cup {"none"} /\ m_isspace' \in BOOLEAN /\ word' \in Word
      BY <1>6, <2>3, QuietTaken
    <3> PICK h \in {0, 1} : h = HeldIdle'
      BY <3>1
    <3>2. Used' \in Int
      BY <1>10 DEF Used, AbortCountdown
    <3> PICK u \in Int : u = Used'
      BY <3>2
    <3> PICK left \in Seq(Quiet) : left = Tail(b)
      BY <3>1
    <3> DEFINE y == z + h
    <3>3. y \in Nat /\ Used' + HeldIdle' <= y
      <4>1. u <= z
        BY <2>3
      <4>2. y \in Nat /\ u + h <= y
        BY <4>1, OneMore
      <4> QED BY <4>2
    <3>4. y + Idles(left) <= MaxIdle
      <4>1. h + Idles(left) <= Idles(b) /\ Idles(left) \in Nat
        BY <3>1
      <4> QED BY <1>8, <4>1
    <3> HIDE DEF y
    <3>5. d2h' = left \o sp \o after /\ d2h' \in Seq(Chars)
      <4>1. d2h' = left \o (sp \o after) /\ left \in Seq(Chars)
        BY <1>6, <2>3, <3>1
      <4>0. left \in Seq(Chars) /\ sp \in Seq(Chars) /\ after \in Seq(Chars)
        BY <1>2, <4>1
      <4>6. left \in Texts /\ sp \in Texts /\ after \in Texts
        BY <4>0 DEF Texts
      <4>4. (left \o sp) \o after = left \o (sp \o after)
        BY <4>6, JoinsOfTexts
      <4>5. left \o sp \in Seq(Chars)
        BY <4>0, Joins
      <4>2. (left \o sp) \o after = left \o (sp \o after) /\ left \o sp \in Seq(Chars)
        BY <4>4, <4>5
      <4>3. (left \o sp) \o after \in Seq(Chars)
        BY <1>2, <4>2, Joins
      <4> QED BY <4>1, <4>2, <4>3
    <3>6. Before(left \o Spelt(n + 1) \o after, y)'
      BY <1>11, <3>1, <3>3, <3>5 DEF Before
    <3>7. HostTypes
      BY <1>10, <3>1, <3>5 DEF HostTypes
    <3> QED BY <1>11, <3>3, <3>4, <3>6, <3>7 DEF Answered
  <2> QED BY <1>10, <2>1, <2>2, <2>3
<1>13. Typing' /\ AccessInv'
    BY <1>10, <1>12, ReadTypes, AccessesKept DEF HostKeeps
<1>14. Busy'
    BY <1>10, <1>12, BusyKept DEF HostKeeps
<1> QED BY <1>10, <1>13, <1>14

\* The answer's last digit is in: the call asks for the next word or ends
LEMMA ReadLast ==
    ASSUME Typing, AccessInv, Readword, Busy, Answered, NEW after \in Seq(Quiet),
           Idles(after) <= nidle, ~accesses[n + 1].err, ~m_isspace, m_cmd = "R",
           word = accesses[n + 1].d, d2h = after
    PROVE  /\ Typing' /\ AccessInv'
           /\ (pc' = "readword" /\ Busy') \/ (pc' = "idle" /\ Resting')
<1>1. /\ n \in Nat /\ call \in Calls /\ Legal(call) /\ n < call.len /\ Len(buf) = n /\ buf \in Seq(Word)
      /\ m_inc = Increments(call.kind) /\ m_lastaddr = At(n) /\ m_inc \in BOOLEAN /\ word \in Word
      /\ \A i \in 1 .. n : accesses[i].d = buf[i] /\ ~accesses[i].err
      /\ h2d = <<>> /\ ~cmd_loaded /\ ~o_wb_cyc /\ Len(accesses) = n + 1 /\ Placed(n + 1)
      /\ nidle \in 0 .. MaxIdle /\ abort_countdown \in 1 .. 3 /\ outcome = "none"
    BY DEF Typing, Busy, Answered
<1>2. call.len \in Nat /\ n + 1 <= call.len
  <2>1. call.len \in Lens
    BY <1>1 DEF Calls
  <2>2. call.len \in Nat
    BY <2>1, Constants
  <2> QED BY <1>1, <2>2
<1>3. Head(d2h) \in Quiet /\ Head(d2h) \notin Digits /\ after # <<>>
    BY SomethingToRead, QuietSeq, QuietIs
<1>4. ReadwordDone
    BY <1>3, ReadAnswer
<1>5. /\ d2h' = Tail(after) /\ NewCommand(Head(after)) /\ Advance /\ n' = n + 1
      /\ buf' = Append(buf, word) /\ abort_countdown' = 3
      /\ UNCHANGED <<m_addr_set, m_inc, m_nacks, m_interrupt_flag, m_bus_err, call, device, accesses, dropped>>
    BY <1>4 DEF ReadwordDone, Take, AbortCountdown
<1>6. /\ HeldQuiet' /\ HeldIdle' \in {0, 1} /\ Tail(after) \in Seq(Quiet) /\ Tail(after) \in Seq(Chars)
      /\ Idles(Tail(after)) \in Nat /\ HeldIdle' + Idles(Tail(after)) <= Idles(after)
      /\ m_cmd' \in Chars \cup {"none"} /\ m_isspace' \in BOOLEAN /\ word' \in Word
    BY <1>3, <1>5, QuietTaken
<1>7. m_lastaddr' = At(n + 1) /\ At(n + 1) \in Word /\ At(n + 1) % 4 = 0
  <2>1. At(n + 1) = (At(n) + IF Increments(call.kind) THEN 4 ELSE 0) % WordSize
    BY <1>1, AtMoves
  <2>2. At(n) % WordSize = At(n)
    <3>1. At(n) \in Word
      BY <1>1, AtMoves
    <3>2. At(n) = WordSize * 0 + At(n) /\ At(n) \in 0 .. WordSize - 1
      BY <3>1, WordSizeIs DEF Word
    <3> QED BY <3>1, <3>2, WordSizeIs, RemainderIs DEF Word
  <2>3. At(n) + 0 = At(n)
    BY <1>1, AtMoves, WordSizeIs DEF Word
  <2>4. m_lastaddr' = At(n + 1)
    <3>1. CASE Increments(call.kind)
      BY <1>1, <1>5, <2>1, <3>1 DEF Advance
    <3>2. CASE ~Increments(call.kind)
      BY <1>1, <1>5, <2>1, <2>2, <2>3, <3>2 DEF Advance
    <3> QED BY <3>1, <3>2
  <2>5. n + 1 \in Nat
    BY <1>1
  <2> QED BY <1>1, <2>4, <2>5, AtMoves
<1>8. /\ buf' \in Seq(Word) /\ Len(buf') = n + 1
      /\ \A i \in 1 .. n + 1 : accesses'[i].d = buf'[i] /\ ~accesses'[i].err
  <2>1. /\ buf' \in Seq(Word) /\ Len(buf') = n + 1 /\ buf'[n + 1] = word
        /\ \A i \in 1 .. n : buf'[i] = buf[i]
    BY <1>1, <1>5, AppendProperties
  <2>2. \A i \in 1 .. n + 1 : i \in 1 .. n \/ i = n + 1
    BY <1>1
  <2>3. accesses' = accesses
    BY <1>5
  <2> QED BY <1>1, <2>1, <2>2, <2>3
<1>9. AccessInv'
    BY <1>5, AccessesKept
<1>10. CASE n + 1 < call.len
  <2>1. h2d' = <<"R", Space>> /\ pc' = "readword" /\ outcome' = "none"
    BY <1>1, <1>4, <1>10 DEF ReadwordDone, ReadCommand
  <2>2. Typing'
    BY <1>1, <1>5, <1>6, <1>7, <1>8, <2>1 DEF Typing, device
  <2>3. NoAnswer'
    <3> PICK h \in {0, 1} : h = HeldIdle'
      BY <1>6
    <3> PICK left \in Seq(Quiet) : left = Tail(after)
      BY <1>6
    <3>1. Used' = 0
      BY <1>5 DEF Used, AbortCountdown
    <3>2. h \in Nat /\ Used' + HeldIdle' <= h
      <4>1. h \in Nat /\ 0 + h <= h
        BY OneOrNone
      <4> QED BY <3>1, <4>1
    <3>3. Before(left, h)'
      BY <1>5, <1>6, <3>2 DEF Before
    <3>4. h + Idles(left) <= nidle'
      <4>1. h + Idles(left) <= Idles(after) /\ Idles(left) \in Nat /\ Idles(after) \in Nat /\ nidle' = nidle
        BY <1>5, <1>6, IdlesFinite DEF device
      <4>2. nidle \in Nat
        BY <1>1, Constants
      <4> QED BY <4>1, <4>2
    <3> QED BY <3>2, <3>3, <3>4 DEF NoAnswer
  <2>4. Asking'
    BY <1>1, <1>5, <2>1, <2>3 DEF Asking, Placed, At, device
  <2>5. Busy'
    BY <1>1, <1>5, <1>7, <1>8, <1>10, <2>1, <2>4 DEF Busy, At, Legal
  <2> QED BY <1>9, <2>1, <2>2, <2>5
<1>11. CASE ~(n + 1 < call.len)
  <2>1. call.len = n + 1
    BY <1>1, <1>2, <1>11
  <2>2. m_lastaddr' = (call.a + (IF Increments(call.kind) THEN 4 * call.len ELSE 0)) % WordSize
    BY <1>7, <2>1 DEF At
  <2>3. h2d' = <<>> /\ pc' = "idle" /\ outcome' = "ok"
    BY <1>1, <1>4, <1>11, <2>2 DEF ReadwordDone
  <2>4. Typing'
    BY <1>1, <1>5, <1>6, <1>7, <1>8, <2>3 DEF Typing, device
  <2>5. HeldIdle' + Idles(d2h') <= nidle'
    <3>1. HeldIdle' + Idles(Tail(after)) <= Idles(after) /\ Idles(after) <= nidle /\ nidle' = nidle
      BY <1>5, <1>6 DEF device
    <3> PICK h \in {0, 1} : h = HeldIdle'
      BY <1>6
    <3>2. Idles(Tail(after)) \in Nat /\ Idles(after) \in Nat /\ nidle \in Nat
      BY <1>1, <1>6, IdlesFinite, Constants
    <3>3. h + Idles(Tail(after)) <= nidle
      BY <3>1, <3>2
    <3> QED BY <1>5, <3>1, <3>3
  <2>6. Resting'
    BY <1>1, <1>5, <1>6, <1>7, <1>8, <2>1, <2>3, <2>5 DEF Resting, Placed, At, Legal, device
  <2> QED BY <1>9, <2>3, <2>4, <2>6
<1> QED BY <1>10, <1>11

\* The report of an error is in: the call ends
LEMMA ReadFailure ==
    ASSUME ReadsOnly, Typing, AccessInv, Readword, Busy, Answered, NEW after \in Seq(Quiet),
           Idles(after) <= nidle, accesses[n + 1].err, ~m_isspace, m_cmd = "E", d2h = after
    PROVE  Typing' /\ AccessInv' /\ pc' = "idle" /\ Resting'
<1>1. /\ n \in Nat /\ call \in Calls /\ Legal(call)
      /\ m_inc = Increments(call.kind) /\ h2d = <<>> /\ ~cmd_loaded /\ ~o_wb_cyc
      /\ Len(accesses) = n + 1 /\ nidle \in 0 .. MaxIdle
    BY DEF Typing, Busy, Answered
<1>2. Head(d2h) \notin Digits /\ after # <<>>
    BY SomethingToRead, QuietSeq, QuietIs
<1>3. /\ d2h' = Tail(after) /\ pc' = "idle" /\ outcome' = "buserr" /\ HostKeeps
      /\ NewCommand(Head(after)) /\ m_bus_err' = TRUE
      /\ UNCHANGED <<m_addr_set, m_inc, m_lastaddr, m_interrupt_flag, n, buf, abort_countdown, h2d>>
    BY <1>2, ReadError
<1>4. /\ HeldQuiet' /\ HeldIdle' \in {0, 1} /\ Tail(after) \in Seq(Quiet) /\ Tail(after) \in Seq(Chars)
      /\ Idles(Tail(after)) \in Nat /\ HeldIdle' + Idles(Tail(after)) <= Idles(after)
      /\ m_cmd' \in Chars \cup {"none"} /\ m_isspace' \in BOOLEAN /\ word' \in Word
    BY <1>2, <1>3, QuietTaken
<1>5. ~m_inc'
  <2>1. n + 1 \in 1 .. Len(accesses)
    BY <1>1
  <2>2. Errors
    BY <2>1 DEF AccessInv
  <2>3. call.kind \in Kinds
    BY <1>1 DEF Calls
  <2>4. call.kind \in {"readio", "readz"}
    BY <2>2, <2>3 DEF ReadsOnly
  <2> QED BY <1>1, <1>3, <2>4 DEF Increments
<1>6. HeldIdle' + Idles(d2h') <= nidle'
  <2>1. HeldIdle' + Idles(Tail(after)) <= Idles(after) /\ Idles(after) <= nidle /\ nidle' = nidle
    BY <1>3, <1>4 DEF HostKeeps, device
  <2> PICK h \in {0, 1} : h = HeldIdle'
    BY <1>4
  <2>2. Idles(Tail(after)) \in Nat /\ Idles(after) \in Nat /\ nidle \in Nat
    BY <1>1, <1>4, IdlesFinite, Constants
  <2>3. h + Idles(Tail(after)) <= nidle
    BY <2>1, <2>2
  <2> QED BY <1>3, <2>1, <2>3
<1>7. \E i \in 1 .. Len(accesses') : accesses'[i].err
  <2>1. accesses' = accesses /\ n + 1 \in 1 .. Len(accesses)
    BY <1>1, <1>3 DEF HostKeeps
  <2> QED BY <2>1
<1>8. Resting'
    BY <1>1, <1>3, <1>4, <1>5, <1>6, <1>7 DEF Resting, Legal, HostKeeps, device
<1>9. Typing'
    BY <1>3, <1>4 DEF Typing, HostKeeps, device
<1>10. AccessInv'
    BY <1>3, AccessesKept DEF HostKeeps
<1> QED BY <1>3, <1>8, <1>9, <1>10

\* A digit of the answer is in
LEMMA ReadAnswerDigit ==
    ASSUME Typing, AccessInv, Readword, Busy, Answered, NEW after \in Seq(Quiet),
           Idles(after) <= nidle, ~accesses[n + 1].err, Taking("R", accesses[n + 1].d, after)
    PROVE  \/ word = accesses[n + 1].d /\ d2h = after
           \/ pc' = "readword" /\ Typing' /\ AccessInv' /\ Busy'
<1>1. accesses[n + 1].d \in Word
    BY SpeltIs DEF Answered
<1> PICK d \in Word : d = accesses[n + 1].d
    BY <1>1
<1>2. after \in Seq(Chars) /\ Taking("R", d, after)
    BY QuietSeq
<1>3. \/ word = d /\ d2h = after
      \/ /\ pc' = "readword" /\ HostKeeps /\ HostTypes /\ Taking("R", d, after)'
         /\ UNCHANGED <<m_inc, m_lastaddr, n, buf, outcome, abort_countdown, h2d>>
    BY <1>2, ReadSpelling
<1>4. CASE /\ pc' = "readword" /\ HostKeeps /\ HostTypes /\ Taking("R", d, after)'
           /\ UNCHANGED <<m_inc, m_lastaddr, n, buf, outcome, abort_countdown, h2d>>
  <2>1. UNCHANGED <<accesses, n, call, nidle, h2d, cmd_loaded, o_wb_cyc, o_wb_addr, inc>>
    BY <1>4 DEF HostKeeps, device
  <2>2. Taking("R", accesses[n + 1].d, after)'
    BY <1>4, <2>1 DEF Taking
  <2>3. Answered'
    BY <2>1, <2>2 DEF Answered, Placed, At
  <2>4. Typing' /\ AccessInv'
    BY <1>4, ReadTypes, AccessesKept DEF HostKeeps
  <2>5. Busy'
    BY <1>4, <2>3, BusyKept DEF HostKeeps
  <2> QED BY <1>4, <2>4, <2>5
<1> QED BY <1>3, <1>4

\* Whatever the host reads
LEMMA HostReads ==
    ASSUME ReadsOnly, HInv, Readword
    PROVE  HInv'
<1>1. Typing /\ AccessInv /\ Busy
    BY SomethingToRead DEF HInv
<1>2. CASE Len(accesses) = n /\ Naming
    BY <1>1, <1>2, ReadNaming DEF HInv
<1>3. CASE Len(accesses) = n /\ Asking
    BY <1>1, <1>3, ReadAsking DEF HInv
<1>4. CASE Answered
  <2>1. PICK after \in Seq(Quiet) :
         /\ Idles(after) <= nidle
         /\ \/ \E b \in Seq(Quiet), z \in Nat :
                 Before(b \o Spelt(n + 1) \o after, z) /\ z + Idles(b) <= MaxIdle
            \/ ~accesses[n + 1].err /\ Taking("R", accesses[n + 1].d, after)
            \/ accesses[n + 1].err /\ ~m_isspace /\ m_cmd = "E" /\ d2h = after
    BY <1>4 DEF Answered
  <2>2. ASSUME NEW b \in Seq(Quiet), NEW z \in Nat,
               Before(b \o Spelt(n + 1) \o after, z), z + Idles(b) <= MaxIdle
        PROVE  HInv'
    BY <1>1, <1>4, <2>1, <2>2, ReadTowards DEF HInv
  <2>3. CASE ~accesses[n + 1].err /\ Taking("R", accesses[n + 1].d, after)
    <3>1. ~m_isspace /\ m_cmd = "R"
      BY <2>3 DEF Taking
    <3>2. CASE word = accesses[n + 1].d /\ d2h = after
      BY <1>1, <1>4, <2>1, <2>3, <3>1, <3>2, ReadLast DEF HInv
    <3>3. CASE pc' = "readword" /\ Typing' /\ AccessInv' /\ Busy'
      BY <3>3 DEF HInv
    <3> QED BY <1>1, <1>4, <2>1, <2>3, <3>2, <3>3, ReadAnswerDigit
  <2>4. CASE accesses[n + 1].err /\ ~m_isspace /\ m_cmd = "E" /\ d2h = after
    BY <1>1, <1>4, <2>1, <2>4, ReadFailure DEF HInv
  <2> QED BY <2>1, <2>2, <2>3, <2>4
<1> QED BY <1>1, <1>2, <1>3, <1>4 DEF Busy

-----------------------------------------------------------------------------
(* The client between calls, and the call it makes.                        *)

LEMMA Listening ==
    ASSUME HInv, Usleep
    PROVE  HInv'
<1>1. Typing /\ AccessInv /\ Resting /\ d2h \in Seq(Quiet)
    BY DEF HInv, Usleep, Resting
<1>2. PICK k \in 1 .. Len(d2h) :
        /\ d2h' = SubSeq(d2h, k + 1, Len(d2h))
        /\ m_interrupt_flag' \in BOOLEAN /\ m_bus_err' \in BOOLEAN
    BY <1>1 DEF Usleep, Typing
<1>3. UNCHANGED <<m_addr_set, m_inc, m_lastaddr, m_cmd, m_isspace, m_nacks,
                  frame, h2d, device, accesses, dropped>>
    BY DEF Usleep
<1>4. d2h' \in Seq(Quiet) /\ Idles(d2h') <= Idles(d2h) /\ Idles(d2h') \in Nat /\ Idles(d2h) \in Nat
    BY <1>1, <1>2, IdlesSuffix, IdlesFinite
<1>5. d2h' \in Seq(Chars)
    BY <1>4, QuietSeq
<1>6. Typing'
    BY <1>1, <1>2, <1>3, <1>5 DEF Typing, frame, device
<1>7. AccessInv'
    BY <1>1, <1>3, AccessesKept DEF frame
<1>8. HeldQuiet' /\ HeldIdle' + Idles(d2h') <= nidle'
  <2>1. HeldQuiet' /\ HeldIdle' = HeldIdle /\ nidle' = nidle
    BY <1>1, <1>3 DEF Resting, HeldQuiet, HeldIdle, device
  <2>2. HeldIdle + Idles(d2h) <= nidle /\ HeldIdle \in {0, 1} /\ nidle \in Nat
    BY <1>1, UsedIs, Constants DEF Resting, Typing
  <2>3. HeldIdle + Idles(d2h') <= nidle
    BY <1>4, <2>2
  <2> QED BY <2>1, <2>3
<1>9. Resting'
    BY <1>1, <1>3, <1>4, <1>8 DEF Resting, Legal, frame, device
<1>10. pc' = "idle"
    BY <1>3 DEF Usleep, frame
<1> QED BY <1>6, <1>7, <1>9, <1>10 DEF HInv

LEMMA Clearing ==
    ASSUME HInv, Clear
    PROVE  HInv'
<1>1. Typing /\ AccessInv /\ Resting /\ pc = "idle"
    BY DEF HInv, Clear
<1>2. /\ m_interrupt_flag' \in BOOLEAN /\ m_bus_err' \in BOOLEAN
      /\ UNCHANGED <<m_addr_set, m_inc, m_lastaddr, m_cmd, m_isspace, m_nacks,
                     frame, h2d, d2h, device, accesses, dropped>>
    BY <1>1 DEF Clear, Typing
<1>3. Typing' /\ AccessInv'
    BY <1>1, <1>2, AccessesKept DEF Typing, frame, device
<1>4. Resting' /\ pc' = "idle"
    BY <1>1, <1>2 DEF Resting, HeldQuiet, HeldIdle, Legal, frame, device
<1> QED BY <1>3, <1>4 DEF HInv

LEMMA CommandsAreSpelt ==
    ASSUME NEW x \in Chars, NEW y \in Chars
    PROVE  (<<"A">> \o <<x, y>>) \o <<"R", Space>> = <<"A", x, y, "R", Space>>
<1> DEFINE s == <<x, y, "R", Space>>
           t == <<x, y>>
           u == <<"R", Space>>
           v == <<"A", x, y, "R", Space>>
<1>1. "A" \in Chars /\ "R" \in Chars /\ Space \in Chars
    BY DEF Chars, Commands
<1>2. /\ t \in Seq(Chars) /\ u \in Seq(Chars) /\ <<"A">> \in Seq(Chars) /\ s \in Seq(Chars) /\ v \in Seq(Chars)
      /\ Len(t) = 2 /\ Len(u) = 2 /\ Len(s) = 4 /\ Len(v) = 5
    BY <1>1
<1>3. /\ t[1] = x /\ t[2] = y /\ u[1] = "R" /\ u[2] = Space
      /\ s[1] = x /\ s[2] = y /\ s[3] = "R" /\ s[4] = Space
      /\ v[1] = "A" /\ v[2] = x /\ v[3] = y /\ v[4] = "R" /\ v[5] = Space
    OBVIOUS
<1> HIDE DEF s, t, u, v
<1>4. t \o u = s
  <2>1. /\ t \o u \in Seq(Chars) /\ Len(t \o u) = Len(t) + Len(u)
        /\ \A i \in 1 .. Len(t) + Len(u) : (t \o u)[i] = IF i <= Len(t) THEN t[i] ELSE u[i - Len(t)]
    BY <1>2, ConcatProperties
  <2>2. Len(t \o u) = 4 /\ \A i \in 1 .. 4 : (t \o u)[i] = s[i]
    BY <1>2, <1>3, <2>1
  <2> QED BY <1>2, <2>1, <2>2, SeqEqual
<1>5. <<"A">> \o s = v
  <2>1. /\ <<"A">> \o s \in Seq(Chars) /\ Len(<<"A">> \o s) = Len(<<"A">>) + Len(s)
        /\ \A i \in 1 .. Len(<<"A">>) + Len(s) :
             (<<"A">> \o s)[i] = IF i <= Len(<<"A">>) THEN <<"A">>[i] ELSE s[i - Len(<<"A">>)]
    BY <1>2, ConcatProperties
  <2>2. Len(<<"A">>) = 1 /\ <<"A">>[1] = "A"
    OBVIOUS
  <2>3. Len(<<"A">> \o s) = 5 /\ \A i \in 1 .. 5 : (<<"A">> \o s)[i] = v[i]
    BY <1>2, <1>3, <2>1, <2>2
  <2> QED BY <1>2, <2>1, <2>3, SeqEqual
<1>6. (<<"A">> \o t) \o u = <<"A">> \o (t \o u)
    BY <1>2, Joins
<1> QED BY <1>4, <1>5, <1>6 DEF t, u, v

\* A call begins: with an address command, or without one where the device
\* already is where the call wants it
LEMMA Calling ==
    ASSUME ReadsOnly, HInv, NEW c \in Calls, Call(c)
    PROVE  HInv'
<1>1. Typing /\ AccessInv /\ Resting /\ Legal(c)
    BY DEF HInv, Call
<1>2. c.kind \in {"readio", "readi", "readz"} /\ c.a \in Addrs /\ c.len \in Nat /\ c.len > 0
  <2>1. c.kind \in Kinds /\ c.a \in Addrs /\ c.len \in Lens
    BY DEF Calls
  <2>2. c.len \in Nat \ {0}
    BY <2>1, Constants
  <2>3. c.len \in Nat /\ c.len > 0
    BY <2>2
  <2> QED BY <2>1, <2>3 DEF ReadsOnly
<1> DEFINE p == Increments(c.kind)
           w == c.a + Flag(~p)
<1>3. ReadvBegin(c)
    BY <1>2 DEF Call, WritevBegin, IsRead
<1>4. /\ h2d' = EncodeAddress(c.a, p) \o ReadCommand
      /\ m_lastaddr' = c.a /\ m_addr_set' = TRUE /\ m_inc' = p /\ pc' = "readword" /\ n' = 0
      /\ call' = c /\ buf' = <<>> /\ word' = 0 /\ abort_countdown' = 3 /\ outcome' = "none"
      /\ accesses' = <<>>
      /\ UNCHANGED <<m_nacks, m_cmd, m_isspace, m_interrupt_flag, m_bus_err, d2h, device, dropped>>
  <2>1. h2d' = <<>> \o EncodeAddress(c.a, p) \o ReadCommand
    BY <1>1, <1>3 DEF ReadvBegin, Resting
  <2>2. <<>> \o EncodeAddress(c.a, p) = EncodeAddress(c.a, p)
    BY DEF EncodeAddress, AllDigits
  <2> QED BY <1>3, <2>1, <2>2 DEF ReadvBegin, Call, AbortCountdown
<1>5. /\ w \in Word /\ p \in BOOLEAN /\ c.a \in Word /\ c.a % 4 = 0
      /\ (w % 4 = 0 => p /\ w = c.a /\ w % 2 = 0)
  <2> DEFINE f == Flag(~p)
  <2>1. f \in {0, 1} /\ (f = 0 <=> p) /\ p \in BOOLEAN
    BY DEF Flag, Increments
  <2> HIDE DEF f
  <2>2. c.a + f \in Word /\ (c.a + f) % 2 = f /\ (c.a + f) - ((c.a + f) % 4) = c.a /\ c.a \in Word /\ c.a % 4 = 0
    BY <1>2, <2>1, AddressCommand
  <2>3. (c.a + f) % 4 = 0 => c.a + f = c.a
    BY <2>2, WordSizeIs DEF Word
  <2>4. c.a + f = c.a => f = 0
    BY <2>1, <2>2, WordSizeIs DEF Word
  <2> QED BY <2>1, <2>2, <2>3, <2>4 DEF f
<1>6. Named' = w /\ At(0)' = c.a
  <2>1. Named' = w
    BY <1>4 DEF Named
  <2>2. (c.a + IF Increments(c.kind) THEN 4 * 0 ELSE 0) % WordSize = c.a
    <3>1. c.a = WordSize * 0 + c.a /\ c.a \in 0 .. WordSize - 1 /\ c.a + 0 = c.a
      BY <1>5, WordSizeIs DEF Word
    <3>2. c.a % WordSize = c.a
      BY <3>1, WordSizeIs, RemainderIs
    <3> QED BY <3>1, <3>2
  <2> QED BY <1>4, <2>1, <2>2 DEF At
<1> HIDE DEF p, w
<1>7. /\ HeldQuiet' /\ HeldIdle' = HeldIdle /\ Used' = 0 /\ nidle' = nidle /\ d2h' = d2h
      /\ ~cmd_loaded' /\ ~o_wb_cyc' /\ Idles(d2h) \in Nat /\ HeldIdle \in {0, 1}
      /\ d2h \in Seq(Quiet) /\ HeldIdle + Idles(d2h) <= nidle
  <2>1. d2h \in Seq(Quiet) /\ HeldIdle \in {0, 1}
    BY <1>1, UsedIs DEF Resting
  <2> QED BY <1>1, <1>4, <2>1, IdlesFinite DEF Resting, HeldQuiet, HeldIdle, Used, AbortCountdown, device
<1>8. Typing'
    BY <1>1, <1>4, <1>5, WordSizeIs DEF Typing, Word, device
<1>9. AccessInv'
    BY <1>1, <1>2, <1>4 DEF AccessInv
<1>10. Naming' \/ Asking'
  <2>1. CASE m_addr_set /\ w = m_lastaddr /\ m_inc = (w % 2 = 0)
    <3>1. EncodeAddress(c.a, p) = <<>>
      BY <2>1 DEF EncodeAddress, w
    <3>2. h2d' = <<"R", Space>>
      BY <1>4, <3>1 DEF ReadCommand
    <3>3. p /\ w = c.a /\ m_inc /\ inc /\ m_lastaddr = 4 * o_wb_addr
      <4>1. m_lastaddr % 4 = 0 /\ m_inc \in BOOLEAN
        BY <1>1 DEF Typing
      <4>2. p /\ w = c.a /\ m_inc /\ m_addr_set
        BY <1>5, <2>1, <4>1
      <4> QED BY <1>1, <4>2 DEF Resting
    <3>4. Placed(0)'
      <4>1. inc' = inc /\ o_wb_addr' = o_wb_addr /\ inc \in BOOLEAN
        BY <1>1, <1>4 DEF device, Typing
      <4> QED BY <1>4, <1>6, <2>1, <3>3, <4>1 DEF Placed, p
    <3>5. NoAnswer'
      <4> PICK rest \in Seq(Quiet) : rest = d2h
        BY <1>7
      <4> PICK z \in {0, 1} : z = HeldIdle
        BY <1>7
      <4>1. z \in Nat /\ Used' + HeldIdle' <= z
        <5>1. z \in Nat /\ 0 + z <= z
          BY OneOrNone
        <5> QED BY <1>7, <5>1
      <4>2. Before(rest, z)'
        BY <1>7, <4>1 DEF Before
      <4> QED BY <1>7, <4>1, <4>2 DEF NoAnswer
    <3> QED BY <1>4, <1>7, <3>2, <3>4, <3>5 DEF Asking
  <2>2. CASE ~(m_addr_set /\ w = m_lastaddr /\ m_inc = (w % 2 = 0))
    <3>1. EncodeAddress(c.a, p) = <<"A">> \o AllDigits(w)
      BY <2>2 DEF EncodeAddress, w
    <3>2. h2d' = <<"A", Digit[w \div Base], Digit[w % Base], "R", Space>>
      BY <1>4, <1>5, <3>1, SpellingType, CommandsAreSpelt DEF ReadCommand, AllDigits
    <3>3. Used' + HeldIdle' + Idles(d2h') <= nidle'
      <4>1. 0 + HeldIdle + Idles(d2h) = HeldIdle + Idles(d2h)
        BY <1>7
      <4> QED BY <1>7, <4>1
    <3> QED BY <1>4, <1>6, <1>7, <3>2, <3>3 DEF Naming
  <2> QED BY <2>1, <2>2
<1>11. Busy'
    BY <1>1, <1>2, <1>4, <1>6, <1>10 DEF Busy, Legal, p
<1> QED BY <1>4, <1>8, <1>9, <1>11 DEF HInv

-----------------------------------------------------------------------------
(* The device reports.                                                     *)

LEMMA TakingGrows ==
    ASSUME NEW l, NEW w \in Word, NEW rest \in Seq(Chars), NEW t \in Seq(Chars), Taking(l, w, rest),
           d2h' = d2h \o t, UNCHANGED <<m_isspace, m_cmd, word>>
    PROVE  Taking(l, w, rest \o t)'
<1>1. AllDigits(w) \in Seq(Chars) /\ <<Digit[w % Base]>> \in Seq(Chars)
  <2> DEFINE y == Digit[w % Base]
  <2>1. y \in Chars /\ AllDigits(w) \in Seq(Chars)
    BY SpellingType
  <2> HIDE DEF y
  <2>2. <<y>> \in Seq(Chars)
    BY <2>1
  <2> QED BY <2>1, <2>2 DEF y
<1>2. (AllDigits(w) \o rest) \o t = AllDigits(w) \o (rest \o t)
  <2>1. AllDigits(w) \in Seq(Chars)
    BY <1>1
  <2> QED BY <2>1, Joins
<1>3. (<<Digit[w % Base]>> \o rest) \o t = <<Digit[w % Base]>> \o (rest \o t)
  <2>1. <<Digit[w % Base]>> \in Seq(Chars)
    BY <1>1
  <2> QED BY <2>1, Joins
<1> QED BY <1>2, <1>3 DEF Taking

\* What follows in the stream does not change what comes before
LEMMA BeforeGrows ==
    ASSUME call \in Calls, NEW rest \in Seq(Chars), NEW z \in Nat, NEW t \in Seq(Chars), Before(rest, z),
           d2h' = d2h \o t,
           UNCHANGED <<m_isspace, m_cmd, word, abort_countdown, call, n>>
    PROVE  Before(rest \o t, z)'
<1>1. HeldQuiet' = HeldQuiet /\ HeldIdle' = HeldIdle /\ Used' = Used /\ Named' = Named /\ n' = n
    BY DEF HeldQuiet, HeldIdle, Used, Named
<1> PICK w \in Word : w = Named
    BY NamedIs
<1>2. <<"A">> \o AllDigits(w) \in Seq(Chars)
  <2>1. "A" \in Chars /\ AllDigits(w) \in Seq(Chars)
    BY SpellingType DEF Chars, Commands
  <2> QED BY <2>1, FrontOfOne
<1>3. CASE HeldQuiet /\ d2h = rest /\ Used + HeldIdle <= z
    BY <1>1, <1>3 DEF Before
<1>4. ASSUME n = 0, HeldQuiet, NEW a \in Seq(Quiet),
             d2h = a \o (<<"A">> \o AllDigits(Named)) \o rest, Used + HeldIdle + Idles(a) <= z
      PROVE  Before(rest \o t, z)'
  <2> DEFINE s == a \o (<<"A">> \o AllDigits(w))
  <2>1. a \in Seq(Chars)
    BY QuietSeq
  <2>2. s \in Seq(Chars)
    BY <1>2, <2>1, Joins
  <2>3. d2h = s \o rest
    BY <1>4
  <2> HIDE DEF s
  <2>4. d2h' = s \o (rest \o t)
    BY <2>2, <2>3, Joins
  <2> QED BY <1>1, <1>4, <2>4 DEF Before, s
<1>5. CASE n = 0 /\ Taking("A", Named, rest) /\ Used <= z
  <2>1. Taking("A", w, rest \o t)'
    <3>1. Taking("A", w, rest)
      BY <1>5
    <3> QED BY <3>1, TakingGrows
  <2>2. Taking("A", Named, rest \o t)'
    BY <1>1, <2>1 DEF Taking
  <2> QED BY <1>1, <1>5, <2>2 DEF Before
<1> QED BY <1>3, <1>4, <1>5 DEF Before

\* What a report of the device alone leaves as it was
Reporting == UNCHANGED <<host, frame, h2d, cmd_loaded, r_cmd, r_word, o_wb_cyc,
                         o_wb_we, o_wb_addr, inc, o_wb_data, history>>

\* The text has at most k idle reports
IdlesAtMost(t, k) == \A s \in Seq(Quiet) : Idles(s \o t) <= Idles(s) + k

\* A quiet report, k idle reports in it
LEMMA QuietReport ==
    ASSUME HInv, Reporting, NEW t \in Seq(Quiet), NEW k \in Nat, d2h' = d2h \o t,
           IdlesAtMost(t, k),
           nidle' = nidle + k, nidle + k <= MaxIdle, last_cr' \in BOOLEAN
    PROVE  HInv'
<1>1. /\ UNCHANGED <<m_isspace, m_cmd, word, abort_countdown, call, n, buf, outcome, m_inc, m_lastaddr,
                     accesses, dropped, h2d, cmd_loaded, r_cmd, r_word, o_wb_cyc, o_wb_we, o_wb_addr, inc,
                     m_addr_set, m_interrupt_flag, m_bus_err, m_nacks, pc, o_wb_data>>
      /\ Typing /\ AccessInv
    BY DEF Reporting, host, frame, history, HInv
<1>2. t \in Seq(Chars) /\ nidle \in Nat /\ nidle' \in 0 .. MaxIdle
    BY <1>1, QuietSeq, Constants DEF Typing
<1>3. Typing'
  <2>1. d2h' \in Seq(Chars)
    BY <1>1, <1>2, Joins DEF Typing
  <2> QED BY <1>1, <1>2, <2>1 DEF Typing
<1>4. AccessInv'
    BY <1>1, AccessesKept
<1>5. HeldQuiet' = HeldQuiet /\ HeldIdle' = HeldIdle /\ Used' = Used /\ HeldIdle \in {0, 1} /\ Used \in 0 .. 2
    BY <1>1, UsedIs DEF HeldQuiet, HeldIdle, Used
<1>6. ASSUME NEW s \in Seq(Quiet)
      PROVE  s \o t \in Seq(Quiet) /\ Idles(s \o t) \in Nat /\ Idles(s) \in Nat /\ Idles(s \o t) <= Idles(s) + k
  <2>1. s \o t \in Seq(Quiet)
    BY Joins
  <2> QED BY <2>1, IdlesFinite DEF IdlesAtMost
<1>7. ASSUME NEW s \in Seq(Quiet), NEW z \in Nat, z + Idles(s) <= nidle
      PROVE  z + Idles(s \o t) <= nidle'
    BY <1>2, <1>6, <1>7
<1>8. CASE pc = "idle" /\ Resting
  <2>1. d2h \in Seq(Quiet) /\ HeldIdle + Idles(d2h) <= nidle
    BY <1>8 DEF Resting
  <2> PICK s \in Seq(Quiet) : s = d2h
    BY <2>1
  <2> PICK z \in {0, 1} : z = HeldIdle
    BY <1>5
  <2>2. d2h' \in Seq(Quiet) /\ HeldIdle' + Idles(d2h') <= nidle'
    <3>1. z + Idles(s) <= nidle /\ z \in Nat
      BY <2>1, OneOrNone
    <3>2. z + Idles(s \o t) <= nidle'
      BY <1>7, <3>1
    <3> QED BY <1>5, <1>6, <3>2
  <2>3. Resting'
    BY <1>1, <1>5, <1>8, <2>2 DEF Resting, Legal
  <2> QED BY <1>1, <1>3, <1>4, <1>8, <2>3 DEF HInv
<1>9. CASE pc = "readword" /\ Busy
  <2>0. call \in Calls
    BY <1>9 DEF Busy
  <2>1. CASE Len(accesses) = n /\ Naming
    <3>1. d2h \in Seq(Quiet) /\ Used + HeldIdle + Idles(d2h) <= nidle
      BY <2>1 DEF Naming
    <3> PICK s \in Seq(Quiet) : s = d2h
      BY <3>1
    <3> PICK h \in {0, 1} : h = HeldIdle
      BY <1>5
    <3> PICK u \in 0 .. 2 : u = Used
      BY <1>5
    <3>2. d2h' \in Seq(Quiet) /\ Used' + HeldIdle' + Idles(d2h') <= nidle'
      <4>1. u + h + Idles(s) <= nidle /\ u + h \in Nat
        BY <3>1, OneOrNone
      <4>2. u + h + Idles(s \o t) <= nidle'
        BY <1>7, <4>1
      <4> QED BY <1>5, <1>6, <4>2
    <3>3. Naming'
      BY <1>1, <1>5, <2>1, <3>2 DEF Naming, Named
    <3>4. Busy'
      BY <1>1, <1>9, <2>1, <3>3, BusyKept
    <3> QED BY <1>1, <1>3, <1>4, <1>9, <3>4 DEF HInv
  <2>2. CASE Len(accesses) = n /\ Asking
    <3>1. PICK rest \in Seq(Quiet), z \in Nat : Before(rest, z) /\ z + Idles(rest) <= nidle
      BY <2>2 DEF Asking, NoAnswer
    <3>2. rest \in Seq(Chars)
      BY QuietSeq
    <3>3. Before(rest \o t, z)'
      BY <1>1, <1>2, <2>0, <3>1, <3>2, BeforeGrows
    <3>4. NoAnswer'
      BY <1>6, <1>7, <3>1, <3>3 DEF NoAnswer
    <3>5. Asking'
      BY <1>1, <2>2, <3>4 DEF Asking, Placed, At
    <3>6. Busy'
      BY <1>1, <1>9, <2>2, <3>5, BusyKept
    <3> QED BY <1>1, <1>3, <1>4, <1>9, <3>6 DEF HInv
  <2>3. CASE Answered
    <3>1. PICK after \in Seq(Quiet) :
           /\ Idles(after) <= nidle
           /\ \/ \E b \in Seq(Quiet), z \in Nat :
                   Before(b \o Spelt(n + 1) \o after, z) /\ z + Idles(b) <= MaxIdle
              \/ ~accesses[n + 1].err /\ Taking("R", accesses[n + 1].d, after)
              \/ accesses[n + 1].err /\ ~m_isspace /\ m_cmd = "E" /\ d2h = after
      BY <2>3 DEF Answered
    <3>2. accesses[n + 1].d \in Word /\ Spelt(n + 1) \in Seq(Chars)
      BY <1>1, <2>3, SpeltIs DEF Answered
    <3> PICK d \in Word : d = accesses[n + 1].d
      BY <3>2
    <3> PICK sp \in Seq(Chars) : sp = Spelt(n + 1)
      BY <3>2
    <3>3. Spelt(n + 1)' = sp /\ accesses[n + 1].d' = d /\ accesses[n + 1].err' = accesses[n + 1].err
      BY <1>1 DEF Spelt
    <3>4. after \in Seq(Chars) /\ after \o t \in Seq(Quiet) /\ Idles(after \o t) <= nidle'
      <4>1. 0 + Idles(after) <= nidle
        BY <1>6, <3>1
      <4>2. 0 + Idles(after \o t) <= nidle'
        BY <1>7, <4>1
      <4> QED BY <1>6, <4>2, QuietSeq
    <3> PICK left \in Seq(Quiet) : left = after \o t
      BY <3>4
    <3>10. /\ h2d' = <<>> /\ ~cmd_loaded' /\ ~o_wb_cyc' /\ Len(accesses') = n' + 1
           /\ (accesses[n + 1].err \/ Placed(n + 1))' /\ Idles(left) <= nidle'
      BY <1>1, <2>3, <3>4 DEF Answered, Placed, At
    <3>5. ASSUME NEW b \in Seq(Quiet), NEW z \in Nat,
                 Before(b \o Spelt(n + 1) \o after, z), z + Idles(b) <= MaxIdle
          PROVE  Answered'
      <4> DEFINE s == b \o sp
                 r == s \o after
      <4>1. b \in Seq(Chars)
        BY QuietSeq
      <4>2. s \in Seq(Chars)
        BY <4>1, Joins
      <4>3. r = s \o after /\ Before(r, z)
        BY <3>5
      <4> HIDE DEF s
      <4>0. s \in Seq(Chars) /\ after \in Seq(Chars) /\ t \in Seq(Chars)
        BY <1>2, <3>4, <4>2
      <4>7. s \o after \in Seq(Chars)
        BY <4>0, Joins
      <4>9. s \in Texts /\ after \in Texts /\ t \in Texts
        BY <4>0 DEF Texts
      <4>8. (s \o after) \o t = s \o (after \o t)
        BY <4>9, JoinsOfTexts
      <4>4. r \in Seq(Chars) /\ r \o t = s \o (after \o t)
        BY <4>3, <4>7, <4>8
      <4> HIDE DEF r
      <4>5. Before(r \o t, z)'
        BY <1>1, <1>2, <2>0, <4>3, <4>4, BeforeGrows
      <4>6. Before(b \o Spelt(n + 1) \o left, z)'
        BY <3>3, <4>4, <4>5 DEF s
      <4> QED BY <3>5, <3>10, <4>6 DEF Answered
    <3>6. ASSUME ~accesses[n + 1].err, Taking("R", accesses[n + 1].d, after)
          PROVE  Answered'
      <4>1. Taking("R", d, after \o t)'
        <5>1. Taking("R", d, after)
          BY <3>6
        <5> QED BY <1>1, <1>2, <3>4, <5>1, TakingGrows
      <4>2. Taking("R", accesses[n + 1].d, left)'
        BY <3>3, <4>1 DEF Taking
      <4>3. ~(accesses[n + 1].err)'
        BY <3>3, <3>6
      <4> QED BY <3>10, <4>2, <4>3 DEF Answered
    <3>7. ASSUME accesses[n + 1].err, ~m_isspace, m_cmd = "E", d2h = after
          PROVE  Answered'
      <4>1. (accesses[n + 1].err /\ ~m_isspace /\ m_cmd = "E" /\ d2h = left)'
        BY <1>1, <3>3, <3>7
      <4> QED BY <3>10, <4>1 DEF Answered
    <3>8. Answered'
      <4>1. CASE \E b \in Seq(Quiet), z \in Nat :
                   Before(b \o Spelt(n + 1) \o after, z) /\ z + Idles(b) <= MaxIdle
        BY <3>5, <4>1
      <4>2. CASE accesses[n + 1].err /\ ~m_isspace /\ m_cmd = "E" /\ d2h = after
        BY <3>7, <4>2
      <4> QED BY <3>1, <3>6, <4>1, <4>2
    <3>9. Busy'
      BY <1>1, <1>9, <3>8, BusyKept
    <3> QED BY <1>1, <1>3, <1>4, <1>9, <3>9 DEF HInv
  <2> QED BY <1>9, <2>1, <2>2, <2>3 DEF Busy
<1> QED BY <1>8, <1>9 DEF HInv

LEMMA Reports ==
    /\ <<"I">> \in Seq(Quiet) /\ IdlesAtMost(<<"I">>, 0)
    /\ <<"Z">> \in Seq(Quiet) /\ IdlesAtMost(<<"Z">>, 1)
    /\ <<Space, Space>> \in Seq(Quiet) /\ IdlesAtMost(<<Space, Space>>, 0)
<1>1. "I" \in Quiet /\ "Z" \in Quiet /\ Space \in Quiet /\ "I" # "Z" /\ Space # "Z"
    BY DEF Quiet, Space
<1>2. /\ <<"I">> \in Seq(Quiet) /\ <<"Z">> \in Seq(Quiet) /\ <<Space>> \in Seq(Quiet)
      /\ <<Space, Space>> \in Seq(Quiet) /\ <<Space, Space>> = <<Space>> \o <<Space>>
    BY <1>1
<1>3. ASSUME NEW s \in Seq(Quiet)
      PROVE  /\ Idles(s \o <<"I">>) <= Idles(s) + 0 /\ Idles(s \o <<"Z">>) <= Idles(s) + 1
             /\ Idles(s \o <<Space, Space>>) <= Idles(s) + 0
  <2>1. /\ Idles(s \o <<"I">>) = Idles(s) + Flag("I" = "Z") /\ Idles(s \o <<"Z">>) = Idles(s) + Flag("Z" = "Z")
        /\ Idles(s \o <<Space>>) = Idles(s) + Flag(Space = "Z") /\ Idles(s) \in Nat
    BY <1>1, IdlesAppend, IdlesFinite
  <2>2. Flag("I" = "Z") = 0 /\ Flag("Z" = "Z") = 1 /\ Flag(Space = "Z") = 0
    BY <1>1 DEF Flag
  <2> PICK u \in Seq(Quiet) : u = s \o <<Space>>
    BY <1>2, Joins
  <2>3. Idles(u \o <<Space>>) = Idles(u) + 0
    BY <1>1, <2>2, IdlesAppend
  <2>4. s \o <<Space, Space>> = u \o <<Space>>
    BY <1>2, Joins
  <2>5. Idles(s) + 0 = Idles(s)
    BY <2>1
  <2>6. Idles(u) + 0 = Idles(s)
    BY <2>1, <2>2, <2>5
  <2>7. Idles(s) <= Idles(s) /\ Idles(s) + 1 <= Idles(s) + 1
    BY <2>1
  <2>8. Idles(s \o <<"I">>) = Idles(s) + 0 /\ Idles(s \o <<"Z">>) = Idles(s) + 1
    BY <2>1, <2>2
  <2>9. Idles(s \o <<Space, Space>>) = Idles(s)
    BY <2>3, <2>4, <2>6
  <2> QED BY <2>5, <2>7, <2>8, <2>9
<1> QED BY <1>2, <1>3 DEF IdlesAtMost

LEMMA Quieting ==
    ASSUME HInv, DeviceInterrupt \/ DeviceIdle \/ DeviceNewline
    PROVE  HInv'
<1>1. nidle \in 0 .. MaxIdle /\ MaxIdle \in Nat /\ last_cr' \in BOOLEAN
    BY Constants DEF HInv, Typing, DeviceInterrupt, DeviceIdle, DeviceNewline, Send
<1>2. Reporting
    BY DEF Reporting, DeviceInterrupt, DeviceIdle, DeviceNewline, history
<1>3. CASE DeviceInterrupt
  <2>1. d2h' = d2h \o <<"I">> /\ nidle' = nidle + 0 /\ nidle + 0 <= MaxIdle /\ 0 \in Nat
    BY <1>1, <1>3 DEF DeviceInterrupt, Send
  <2> QED BY <1>1, <1>2, <2>1, Reports, QuietReport
<1>4. CASE DeviceIdle
  <2>1. d2h' = d2h \o <<"Z">> /\ nidle' = nidle + 1 /\ nidle + 1 <= MaxIdle /\ 1 \in Nat
    BY <1>1, <1>4 DEF DeviceIdle, Send
  <2> QED BY <1>1, <1>2, <2>1, Reports, QuietReport
<1>5. CASE DeviceNewline
  <2>1. d2h' = d2h \o <<Space, Space>> /\ nidle' = nidle + 0 /\ nidle + 0 <= MaxIdle /\ 0 \in Nat
    BY <1>1, <1>5 DEF DeviceNewline
  <2> QED BY <1>1, <1>2, <2>1, Reports, QuietReport
<1> QED BY <1>3, <1>4, <1>5

\* The bus answers: the access is the call's next one, and its answer is the
\* only one on its way
LEMMA Answering ==
    ASSUME ReadsOnly, HInv, NEW err \in BOOLEAN, NEW v \in Data, BusAnswer(err, v)
    PROVE  HInv'
<1>1. Typing /\ AccessInv /\ o_wb_cyc
    BY DEF HInv, BusAnswer
<1>2. pc = "readword" /\ Busy /\ Len(accesses) = n /\ Asking
    BY <1>1 DEF HInv, Resting, Busy, Naming, Answered
<1>3. h2d = <<>> /\ ~cmd_loaded /\ ~o_wb_we /\ Placed(n) /\ NoAnswer
    BY <1>1, <1>2 DEF Asking
<1>4. /\ n \in Nat /\ call \in Calls /\ v \in Word /\ n < call.len /\ o_wb_addr \in 0 .. (WordSize \div 4) - 1
      /\ accesses \in Seq([we : BOOLEAN, a : Word, d : Word, err : BOOLEAN]) /\ inc \in BOOLEAN
    BY <1>1, <1>2, Constants DEF Typing, AccessInv, Busy
<1> DEFINE r == [we |-> FALSE, a |-> 4 * o_wb_addr, d |-> v, err |-> err]
           t == IF err THEN <<"E">> ELSE <<"R">> \o AllDigits(v)
<1>5. /\ o_wb_cyc' = FALSE /\ (err => Errors) /\ o_wb_addr' = NextAddr
      /\ d2h' = d2h \o t /\ last_cr' = FALSE /\ nidle' = 0 /\ accesses' = Append(accesses, r)
      /\ UNCHANGED <<host, frame, h2d, cmd_loaded, r_cmd, r_word, o_wb_we, inc, o_wb_data, dropped>>
  <2>1. o_wb_we = FALSE
    BY <1>1, <1>3 DEF Typing
  <2> QED BY <2>1 DEF BusAnswer, Send
<1>6. 4 * o_wb_addr = At(n) /\ inc = Increments(call.kind)
    BY <1>3 DEF Placed
<1>7. /\ o_wb_addr' \in 0 .. (WordSize \div 4) - 1
      /\ 4 * o_wb_addr' = (At(n) + IF Increments(call.kind) THEN 4 ELSE 0) % WordSize
  <2> DEFINE f == Flag(inc)
  <2>1. f \in {0, 1} /\ 4 * f = (IF Increments(call.kind) THEN 4 ELSE 0)
    BY <1>6 DEF Flag
  <2> HIDE DEF f
  <2>2. /\ (o_wb_addr + f) % (WordSize \div 4) \in 0 .. (WordSize \div 4) - 1
        /\ 4 * ((o_wb_addr + f) % (WordSize \div 4)) = (4 * o_wb_addr + 4 * f) % WordSize
    BY <1>4, <2>1, RegisterMoves
  <2>3. o_wb_addr' = (o_wb_addr + f) % (WordSize \div 4)
    BY <1>5 DEF NextAddr, f
  <2> QED BY <1>6, <2>1, <2>2, <2>3
<1>8. At(n) \in Word /\ At(n + 1) = (At(n) + IF Increments(call.kind) THEN 4 ELSE 0) % WordSize
    BY <1>4, AtMoves
<1>9. r \in [we : BOOLEAN, a : Word, d : Word, err : BOOLEAN]
    BY <1>4, <1>6, <1>8
<1>10. t \in Seq(Chars)
  <2>1. "E" \in Chars /\ "R" \in Chars /\ AllDigits(v) \in Seq(Chars)
    BY <1>4, SpellingType DEF Chars, Commands
  <2>2. <<"R">> \o AllDigits(v) \in Seq(Chars)
    BY <2>1, FrontOfOne
  <2>3. <<"E">> \in Seq(Chars)
    BY <2>1
  <2> QED BY <2>2, <2>3
<1> HIDE DEF t
<1>11. /\ accesses' \in Seq([we : BOOLEAN, a : Word, d : Word, err : BOOLEAN])
       /\ Len(accesses') = n + 1 /\ accesses'[n + 1] = r
       /\ \A i \in 1 .. n : accesses'[i] = accesses[i]
  <2> HIDE DEF r
  <2>1. /\ accesses' \in Seq([we : BOOLEAN, a : Word, d : Word, err : BOOLEAN])
        /\ Len(accesses') = Len(accesses) + 1 /\ accesses'[Len(accesses) + 1] = r
        /\ \A i \in 1 .. Len(accesses) : accesses'[i] = accesses[i]
    BY <1>4, <1>5, <1>9, AppendProperties
  <2> QED BY <1>2, <2>1
<1>12. /\ UNCHANGED <<m_isspace, m_cmd, word, abort_countdown, call, n, buf, outcome, m_inc, m_lastaddr,
                      dropped, h2d, cmd_loaded, r_cmd, r_word, inc, m_addr_set, m_interrupt_flag,
                      m_bus_err, m_nacks, pc, o_wb_we, o_wb_data>>
    BY <1>5 DEF host, frame
<1>13. Typing'
  <2>1. d2h' \in Seq(Chars)
    BY <1>1, <1>5, <1>10, Joins DEF Typing
  <2>2. nidle' \in 0 .. MaxIdle
    BY <1>5, Constants
  <2>3. o_wb_cyc' \in BOOLEAN /\ last_cr' \in BOOLEAN
    BY <1>5 DEF Typing
  <2>4. /\ m_addr_set' \in BOOLEAN /\ m_inc' \in BOOLEAN /\ m_isspace' \in BOOLEAN
        /\ m_interrupt_flag' \in BOOLEAN /\ m_bus_err' \in BOOLEAN
        /\ cmd_loaded' \in BOOLEAN /\ o_wb_we' \in BOOLEAN /\ inc' \in BOOLEAN
    BY <1>1, <1>12 DEF Typing
  <2>5. /\ m_lastaddr' \in Word /\ m_lastaddr' % 4 = 0 /\ m_cmd' \in Chars \cup {"none"}
        /\ m_nacks' \in Nat /\ n' \in Nat /\ abort_countdown' \in 1 .. 3
        /\ outcome' \in {"none", "ok", "buserr"}
        /\ word' \in Word /\ buf' \in Seq(Word)
        /\ r_cmd' \in Commands /\ r_word' \in Word /\ o_wb_data' \in Word
    BY <1>1, <1>12 DEF Typing
  <2>6. o_wb_addr' \in 0 .. (WordSize \div 4) - 1
    BY <1>7
  <2> QED BY <2>1, <2>2, <2>3, <2>4, <2>5, <2>6 DEF Typing
<1>14. AccessInv'
  <2>1. \A i \in 1 .. n + 1 : i \in 1 .. n \/ i = n + 1
    BY <1>4
  <2>2. \A i \in 1 .. n + 1 : ~accesses'[i].we /\ accesses'[i].a = At(i - 1) /\ (accesses'[i].err => Errors)
    <3> SUFFICES ASSUME NEW i \in 1 .. n + 1
                 PROVE  ~accesses'[i].we /\ accesses'[i].a = At(i - 1) /\ (accesses'[i].err => Errors)
      OBVIOUS
    <3>1. CASE i \in 1 .. n
      BY <1>1, <1>2, <1>11, <3>1 DEF AccessInv
    <3>2. CASE i = n + 1
      <4>1. i - 1 = n
        BY <1>4, <3>2
      <4> QED BY <1>5, <1>6, <1>11, <3>2, <4>1
    <3> QED BY <2>1, <3>1, <3>2
  <2>3. call.len \in Nat /\ n + 1 <= call.len
    <3>1. call.len \in Lens
      BY <1>4 DEF Calls
    <3>2. call.len \in Nat
      BY <3>1, Constants
    <3> QED BY <1>4, <3>2
  <2>4. ~dropped'
    BY <1>1, <1>12 DEF AccessInv
  <2>5. \A i \in 1 .. Len(accesses') :
          ~accesses'[i].we /\ accesses'[i].a = At(i - 1)' /\ (accesses'[i].err => Errors)
    BY <1>11, <1>12, <2>2 DEF At
  <2> QED BY <1>11, <1>12, <2>3, <2>4, <2>5 DEF AccessInv
<1>15. Answered'
  <2>1. PICK b \in Seq(Quiet), z \in Nat : Before(b, z) /\ z + Idles(b) <= nidle
    BY <1>3 DEF NoAnswer
  <2>2. b \in Seq(Chars) /\ z + Idles(b) <= MaxIdle
    <3>1. nidle \in 0 .. MaxIdle /\ MaxIdle \in Nat /\ Idles(b) \in Nat
      BY <1>1, IdlesFinite, Constants DEF Typing
    <3>2. z + Idles(b) <= MaxIdle
      BY <2>1, <3>1
    <3> QED BY <3>2, QuietSeq
  <2> PICK sp \in Seq(Chars) : sp = t
    BY <1>10
  <2>3. Before(b \o sp, z)'
    BY <1>4, <1>5, <1>12, <2>1, <2>2, BeforeGrows
  <2>4. <<>> \in Seq(Quiet) /\ (b \o sp) \o <<>> = b \o sp
    <3>1. b \o sp \in Seq(Chars)
      BY <2>2, Joins
    <3> QED BY <3>1, Joins
  <2>5. Spelt(n + 1)' = sp
    BY <1>11, <1>12 DEF Spelt, t
  <2>6. Before(b \o Spelt(n + 1) \o <<>>, z)'
    BY <2>3, <2>4, <2>5
  <2>7. Idles(<<>>) <= nidle'
    BY <1>5, IdlesEmpty
  <2>8. Placed(n + 1)'
    BY <1>6, <1>7, <1>8, <1>12 DEF Placed, At
  <2>9. h2d' = <<>> /\ ~cmd_loaded' /\ ~o_wb_cyc' /\ Len(accesses') = n' + 1
    BY <1>3, <1>5, <1>11, <1>12
  <2> QED BY <2>2, <2>4, <2>6, <2>7, <2>8, <2>9 DEF Answered
<1>16. Busy'
  <2>1. \A i \in 1 .. n : accesses'[i].d = buf[i] /\ ~accesses'[i].err
    BY <1>2, <1>11 DEF Busy
  <2> QED BY <1>2, <1>12, <1>15, <2>1 DEF Busy, At, Legal
<1> QED BY <1>2, <1>12, <1>13, <1>14, <1>16 DEF HInv

-----------------------------------------------------------------------------
(* The device takes a character of a command.                              *)

\* What such a step leaves alone
Receives == /\ UNCHANGED <<host, frame, nidle, accesses>>
            /\ UNCHANGED <<o_wb_addr, inc, d2h, last_cr, dropped>>

LEMMA Fronts ==
    ASSUME NEW x \in Chars, NEW y \in Chars
    PROVE  /\ Head(<<"A", x, y, "R", Space>>) = "A" /\ Tail(<<"A", x, y, "R", Space>>) = <<x, y, "R", Space>>
           /\ Head(<<x, y, "R", Space>>) = x /\ Tail(<<x, y, "R", Space>>) = <<y, "R", Space>>
           /\ Head(<<y, "R", Space>>) = y /\ Tail(<<y, "R", Space>>) = <<"R", Space>>
           /\ Head(<<"R", Space>>) = "R" /\ Tail(<<"R", Space>>) = <<Space>>
           /\ Head(<<Space>>) = Space /\ Tail(<<Space>>) = <<>>
OBVIOUS

LEMMA ReceiveDigit ==
    ASSUME DeviceChar, NEW c \in Digits, Head(h2d) = c
    PROVE  /\ h2d' = Tail(h2d) /\ r_word' = ShiftIn(r_word, c) /\ Receives
           /\ UNCHANGED <<cmd_loaded, r_cmd, o_wb_cyc, o_wb_we, o_wb_data>>
BY DEF DeviceChar, Receives

LEMMA ReceiveFirst ==
    ASSUME DeviceChar, Head(h2d) \notin Digits, ~cmd_loaded
    PROVE  /\ h2d' = Tail(h2d) /\ r_word' = 0 /\ Receives
           /\ cmd_loaded' = (Head(h2d) \in Commands) /\ r_cmd' = (IF Head(h2d) \in Commands THEN Head(h2d) ELSE r_cmd)
           /\ UNCHANGED <<o_wb_cyc, o_wb_we, o_wb_data>>
BY DEF DeviceChar, Receives

LEMMA ReceiveCommand ==
    ASSUME DeviceChar, Head(h2d) \notin Digits, cmd_loaded
    PROVE  /\ h2d' = Tail(h2d) /\ r_word' = 0 /\ Execute(r_cmd, r_word)
           /\ cmd_loaded' = (Head(h2d) \in Commands) /\ r_cmd' = (IF Head(h2d) \in Commands THEN Head(h2d) ELSE r_cmd)
           /\ UNCHANGED <<host, frame, nidle, accesses>>
BY DEF DeviceChar

\* A step that keeps all but what the device has of the commands
LEMMA ReceiveKept ==
    ASSUME Typing, AccessInv, Busy, pc = "readword", Receives, Len(accesses) = n,
           cmd_loaded' \in BOOLEAN, r_cmd' \in Commands, r_word' \in Word, o_wb_cyc' \in BOOLEAN,
           o_wb_we' \in BOOLEAN, o_wb_data' \in Word, Naming' \/ Asking'
    PROVE  HInv'
<1>1. Typing'
    BY DEF Typing, Receives, host, frame
<1>2. AccessInv'
    BY AccessesKept DEF Receives, frame
<1>3. Busy' /\ pc' = "readword"
    BY BusyKept DEF Receives, host, frame
<1> QED BY <1>1, <1>2, <1>3 DEF HInv

\* A character of the address command
LEMMA ReceivingName ==
    ASSUME HInv, DeviceChar, Typing, AccessInv, Busy, pc = "readword", Len(accesses) = n, Naming
    PROVE  HInv'
<1>1. /\ n = 0 /\ o_wb_cyc = FALSE /\ HeldQuiet /\ d2h \in Seq(Quiet)
      /\ Used + HeldIdle + Idles(d2h) <= nidle
      /\ call \in Calls /\ r_word \in Word /\ r_cmd \in Commands /\ cmd_loaded \in BOOLEAN
      /\ o_wb_data \in Word /\ o_wb_we \in BOOLEAN
    BY DEF Naming, Busy, Typing
<1>2. Named \in Word
    BY <1>1, NamedIs
<1> DEFINE x == Digit[Named \div Base]
           y == Digit[Named % Base]
<1>3. /\ x \in Digits /\ y \in Digits /\ x \in Chars /\ y \in Chars
      /\ ShiftIn(0, x) = Named \div Base /\ ShiftIn(Named \div Base, y) = Named
      /\ Named \div Base \in Word /\ 0 \in Word
  <2>1. x \in Digits /\ y \in Digits /\ x \in Chars /\ y \in Chars
    BY <1>2, SpellingType
  <2>2. /\ ShiftIn(0, x) = Named \div Base /\ ShiftIn(Named \div Base, y) = Named
        /\ Named \div Base \in Word
    BY <1>2, SpellingIsRead
  <2>3. 0 \in Word
    BY WordSizeIs DEF Word
  <2> QED BY <2>1, <2>2, <2>3
<1>4. /\ Head(<<"A", x, y, "R", Space>>) = "A" /\ Tail(<<"A", x, y, "R", Space>>) = <<x, y, "R", Space>>
      /\ Head(<<x, y, "R", Space>>) = x /\ Tail(<<x, y, "R", Space>>) = <<y, "R", Space>>
      /\ Head(<<y, "R", Space>>) = y /\ Tail(<<y, "R", Space>>) = <<"R", Space>>
      /\ Head(<<"R", Space>>) = "R" /\ Tail(<<"R", Space>>) = <<Space>>
    BY <1>3, Fronts
<1>5. "A" \notin Digits /\ "R" \notin Digits /\ "A" \in Commands /\ "R" \in Commands
    BY LettersAreNotDigits DEF Commands
<1>6. ASSUME Receives, UNCHANGED <<o_wb_cyc, o_wb_we, o_wb_data>>, cmd_loaded' = TRUE, r_cmd' = "A",
             \/ h2d' = <<x, y, "R", Space>> /\ r_word' = 0
             \/ h2d' = <<y, "R", Space>> /\ r_word' = Named \div Base
             \/ h2d' = <<"R", Space>> /\ r_word' = Named
      PROVE  HInv'
  <2>1. UNCHANGED <<m_isspace, m_cmd, abort_countdown, call, n, d2h, nidle, accesses>>
    BY <1>6 DEF Receives, host, frame
  <2>2. Naming'
    BY <1>1, <1>6, <2>1 DEF Naming, HeldQuiet, HeldIdle, Used, Named
  <2>3. r_word' \in Word
    BY <1>2, <1>3, <1>6
  <2> QED BY <1>1, <1>5, <1>6, <2>2, <2>3, ReceiveKept
<1> HIDE DEF x, y
<1>7. CASE h2d = <<"A", x, y, "R", Space>> /\ ~cmd_loaded
  <2>1. Head(h2d) = "A" /\ Tail(h2d) = <<x, y, "R", Space>>
    BY <1>4, <1>7
  <2> QED BY <1>5, <1>6, <1>7, <2>1, ReceiveFirst
<1>8. CASE h2d = <<x, y, "R", Space>> /\ cmd_loaded /\ r_cmd = "A" /\ r_word = 0
  <2>1. Head(h2d) = x /\ Tail(h2d) = <<y, "R", Space>>
    BY <1>4, <1>8
  <2> QED BY <1>1, <1>3, <1>6, <1>8, <2>1, ReceiveDigit
<1>9. CASE h2d = <<y, "R", Space>> /\ cmd_loaded /\ r_cmd = "A" /\ r_word = Named \div Base
  <2>1. Head(h2d) = y /\ Tail(h2d) = <<"R", Space>>
    BY <1>4, <1>9
  <2> QED BY <1>1, <1>3, <1>6, <1>9, <2>1, ReceiveDigit
<1>10. CASE h2d = <<"R", Space>> /\ cmd_loaded /\ r_cmd = "A" /\ r_word = Named
  <2>1. Head(h2d) = "R" /\ Tail(h2d) = <<Space>>
    BY <1>4, <1>10
  <2>2. /\ h2d' = <<Space>> /\ r_word' = 0 /\ Execute("A", Named)
        /\ cmd_loaded' = TRUE /\ r_cmd' = "R" /\ UNCHANGED <<host, frame, nidle, accesses>>
    BY <1>5, <1>10, <2>1, ReceiveCommand
  <2>3. /\ (Named \div 2) % 2 = 0 /\ (Named % 2 = 0 <=> Increments(call.kind))
        /\ Named \div 4 \in 0 .. (WordSize \div 4) - 1 /\ 4 * (Named \div 4) = call.a
    BY <1>1, NamedIs
  <2>4. /\ o_wb_addr' = Named \div 4 /\ inc' = (Named % 2 = 0)
        /\ d2h' = d2h \o (<<"A">> \o AllDigits(4 * o_wb_addr' + Flag(~inc'))) /\ last_cr' = FALSE
        /\ UNCHANGED <<o_wb_cyc, o_wb_we, o_wb_data, dropped>>
    BY <1>1, <2>2, <2>3 DEF Execute, Send
  <2>5. 4 * o_wb_addr' = call.a /\ inc' = Increments(call.kind) /\ inc' \in BOOLEAN
    BY <2>3, <2>4 DEF Increments
  <2>6. d2h' = d2h \o (<<"A">> \o AllDigits(Named))
    BY <2>4, <2>5 DEF Named
  <2>7. UNCHANGED <<m_isspace, m_cmd, abort_countdown, call, n, nidle, accesses, word, m_addr_set, m_inc,
                    m_lastaddr, m_nacks, m_interrupt_flag, m_bus_err, buf, outcome, pc>>
    BY <2>2 DEF host, frame
  <2>8. <<"A">> \o AllDigits(Named) \in Seq(Chars) /\ d2h' \in Seq(Chars)
    <3> PICK w \in Word : w = Named
      BY <1>2
    <3> DEFINE t == <<"A">> \o AllDigits(w)
    <3>1. "A" \in Chars /\ AllDigits(w) \in Seq(Chars)
      BY SpellingType DEF Chars, Commands
    <3>2. t \in Seq(Chars) /\ d2h \in Seq(Chars)
      BY <1>1, <3>1, FrontOfOne, QuietSeq
    <3>3. d2h' = d2h \o t
      BY <2>6
    <3> HIDE DEF t
    <3>4. d2h' \in Seq(Chars)
      BY <3>2, <3>3, Joins
    <3> QED BY <3>2, <3>4 DEF t
  <2>9. NoAnswer'
    <3> PICK a \in Seq(Quiet) : a = d2h
      BY <1>1
    <3>1. Named' = Named /\ HeldQuiet' /\ HeldIdle' = HeldIdle /\ Used' = Used /\ n' = 0 /\ nidle' = nidle
      BY <1>1, <2>7 DEF Named, HeldQuiet, HeldIdle, Used
    <3>2. d2h' = (a \o (<<"A">> \o AllDigits(Named))) \o <<>>
      <4>1. d2h' \o <<>> = d2h'
        BY <2>8, Joins
      <4> QED BY <2>6, <4>1
    <3>3. nidle \in Nat
      BY Constants DEF Typing
    <3> PICK z \in Nat : z = nidle
      BY <3>3
    <3>4. Used' + HeldIdle' + Idles(a) <= z
      BY <1>1, <3>1
    <3>5. Before(<<>>, z)'
      BY <3>1, <3>2, <3>4 DEF Before
    <3>6. z + Idles(<<>>) <= nidle' /\ <<>> \in Seq(Quiet)
      BY <3>1, IdlesEmpty
    <3> QED BY <3>5, <3>6 DEF NoAnswer
  <2>10. Placed(n)'
    BY <1>1, <2>5, <2>7, AtMoves DEF Placed, At
  <2>11. Asking'
    BY <1>1, <2>2, <2>4, <2>9, <2>10 DEF Asking
  <2>12. Typing'
    BY <1>3, <1>5, <2>2, <2>3, <2>4, <2>5, <2>7, <2>8 DEF Typing
  <2>13. AccessInv' /\ Busy' /\ pc' = "readword"
    BY <2>4, <2>7, <2>11, AccessesKept, BusyKept
  <2> QED BY <2>12, <2>13 DEF HInv
<1> QED BY <1>7, <1>8, <1>9, <1>10 DEF Naming, x, y

\* A character of the read command
LEMMA ReceivingRead ==
    ASSUME HInv, DeviceChar, Typing, AccessInv, Busy, pc = "readword", Len(accesses) = n, Asking
    PROVE  HInv'
<1>1. /\ Placed(n) /\ NoAnswer /\ o_wb_cyc \in BOOLEAN /\ cmd_loaded \in BOOLEAN /\ 0 \in Word
      /\ o_wb_data \in Word /\ o_wb_we \in BOOLEAN /\ r_cmd \in Commands
    BY WordSizeIs DEF Asking, Typing, Word
<1>2. "R" \notin Digits /\ Space \notin Digits /\ "R" \in Commands /\ Space \notin Commands
    BY LettersAreNotDigits DEF Commands, Space
<1>3. /\ Head(<<"R", Space>>) = "R" /\ Tail(<<"R", Space>>) = <<Space>>
      /\ Head(<<Space>>) = Space /\ Tail(<<Space>>) = <<>>
    OBVIOUS
<1>4. h2d # <<>>
    BY DEF DeviceChar
<1>5. ASSUME Receives
      PROVE  Placed(n)' /\ NoAnswer'
  <2>1. UNCHANGED <<m_isspace, m_cmd, abort_countdown, call, n, nidle, d2h, word, o_wb_addr, inc>>
    BY <1>5 DEF Receives, host, frame
  <2> QED BY <1>1, <2>1 DEF Placed, At, NoAnswer, Before, Taking, HeldQuiet, HeldIdle, Used, Named
<1>6. CASE h2d = <<"R", Space>> /\ ~cmd_loaded /\ ~o_wb_cyc
  <2>1. /\ h2d' = <<Space>> /\ r_word' = 0 /\ Receives /\ cmd_loaded' = TRUE /\ r_cmd' = "R"
        /\ UNCHANGED <<o_wb_cyc, o_wb_we, o_wb_data>>
    BY <1>2, <1>3, <1>6, ReceiveFirst
  <2>2. Asking'
    BY <1>5, <1>6, <2>1 DEF Asking
  <2> QED BY <1>1, <1>2, <2>1, <2>2, ReceiveKept
<1>7. CASE h2d = <<Space>> /\ cmd_loaded /\ r_cmd = "R" /\ r_word = 0 /\ ~o_wb_cyc
  <2>1. /\ h2d' = <<>> /\ r_word' = 0 /\ Execute("R", 0) /\ cmd_loaded' = FALSE /\ r_cmd' = r_cmd
        /\ UNCHANGED <<host, frame, nidle, accesses>>
    <3>1. Head(h2d) = Space /\ Tail(h2d) = <<>>
      BY <1>3, <1>7
    <3>2. /\ h2d' = Tail(h2d) /\ r_word' = 0 /\ Execute(r_cmd, r_word)
          /\ cmd_loaded' = (Head(h2d) \in Commands) /\ r_cmd' = (IF Head(h2d) \in Commands THEN Head(h2d) ELSE r_cmd)
          /\ UNCHANGED <<host, frame, nidle, accesses>>
      BY <1>2, <1>7, <3>1, ReceiveCommand
    <3>3. (Head(h2d) \in Commands) = FALSE
      BY <1>2, <3>1
    <3>4. cmd_loaded' = FALSE /\ r_cmd' = r_cmd
      BY <3>2, <3>3
    <3>5. Execute("R", 0)
      BY <1>7, <3>2
    <3> QED BY <3>1, <3>2, <3>4, <3>5
  <2>2. /\ o_wb_cyc' = TRUE /\ o_wb_we' = FALSE /\ o_wb_data' = 0
        /\ UNCHANGED <<o_wb_addr, inc, d2h, last_cr, dropped>>
    BY <1>7, <2>1 DEF Execute
  <2>3. Receives
    BY <2>1, <2>2 DEF Receives
  <2>4. Asking'
    BY <1>5, <2>1, <2>2, <2>3 DEF Asking
  <2> QED BY <1>1, <2>1, <2>2, <2>3, <2>4, ReceiveKept
<1> QED BY <1>4, <1>6, <1>7 DEF Asking

LEMMA Receiving ==
    ASSUME HInv, DeviceChar
    PROVE  HInv'
<1>1. h2d # <<>>
    BY DEF DeviceChar
<1>2. Typing /\ AccessInv /\ pc = "readword" /\ Busy /\ Len(accesses) = n /\ (Naming \/ Asking)
    BY <1>1 DEF HInv, Resting, Busy, Answered
<1> QED BY <1>2, ReceivingName, ReceivingRead

-----------------------------------------------------------------------------
(* The invariant holds, and what it means.                                 *)

LEMMA Beginning ==
    ASSUME Init
    PROVE  HInv
<1>1. /\ m_addr_set = FALSE /\ m_inc \in BOOLEAN /\ m_lastaddr \in Addrs /\ m_cmd = "none"
      /\ m_isspace \in BOOLEAN /\ m_nacks = 0 /\ m_interrupt_flag = FALSE /\ m_bus_err = FALSE
      /\ pc = "idle" /\ call = NoCall /\ n = 0 /\ buf = <<>> /\ word = 0
      /\ abort_countdown = 3 /\ outcome = "none" /\ h2d = <<>> /\ d2h = <<"T">>
      /\ cmd_loaded = FALSE /\ r_cmd = "R" /\ r_word = 0
      /\ o_wb_cyc = FALSE /\ o_wb_we = FALSE /\ o_wb_data = 0
      /\ o_wb_addr \in {a \div 4 : a \in Addrs} /\ inc \in BOOLEAN /\ last_cr = FALSE
      /\ nidle = 0 /\ accesses = <<>> /\ dropped = FALSE
    BY DEF Init, AbortCountdown
<1>2. "T" \in Quiet /\ "T" # "Z"
    BY DEF Quiet
<1>3. <<"T">> \in Seq(Quiet) /\ <<>> \in Seq(Quiet) /\ <<>> \o <<"T">> = <<"T">>
    BY <1>2
<1>4. d2h \in Seq(Quiet) /\ Idles(d2h) = 0
  <2>1. Idles(<<>> \o <<"T">>) = Idles(<<>>) + Flag("T" = "Z")
    BY <1>2, <1>3, IdlesAppend
  <2>2. Flag("T" = "Z") = 0
    BY DEF Flag
  <2> QED BY <1>1, <1>3, <2>1, <2>2, IdlesEmpty
<1>5. o_wb_addr \in 0 .. (WordSize \div 4) - 1 /\ m_lastaddr \in Word /\ m_lastaddr % 4 = 0
  <2>1. PICK a \in Addrs : o_wb_addr = a \div 4
    BY <1>1
  <2>2. (a + 0) \div 4 \in 0 .. (WordSize \div 4) - 1 /\ a \in Word
    BY AddressCommand
  <2>3. a + 0 = a
    BY <2>2, WordSizeIs DEF Word
  <2> QED BY <1>1, <2>1, <2>2, <2>3, Constants
<1>6. Typing
  <2>1. 0 \in Word /\ 0 \in 0 .. MaxIdle /\ d2h \in Seq(Chars) /\ "R" \in Commands /\ buf \in Seq(Word)
    <3>1. 0 \in Word /\ 0 \in 0 .. MaxIdle
      BY WordSizeIs, Constants DEF Word
    <3>2. d2h \in Seq(Chars)
      BY <1>4, QuietSeq
    <3>3. "R" \in Commands /\ buf \in Seq(Word)
      BY <1>1 DEF Commands
    <3> QED BY <3>1, <3>2, <3>3
  <2>2. /\ m_addr_set \in BOOLEAN /\ m_interrupt_flag \in BOOLEAN /\ m_bus_err \in BOOLEAN
        /\ m_cmd \in Chars \cup {"none"} /\ m_nacks \in Nat /\ n \in Nat /\ abort_countdown \in 1 .. 3
        /\ outcome \in {"none", "ok", "buserr"} /\ cmd_loaded \in BOOLEAN /\ o_wb_cyc \in BOOLEAN
        /\ o_wb_we \in BOOLEAN /\ last_cr \in BOOLEAN
    <3>1. /\ m_addr_set \in BOOLEAN /\ m_interrupt_flag \in BOOLEAN /\ m_bus_err \in BOOLEAN
          /\ cmd_loaded \in BOOLEAN /\ o_wb_cyc \in BOOLEAN /\ o_wb_we \in BOOLEAN /\ last_cr \in BOOLEAN
      BY <1>1
    <3>2. m_cmd \in Chars \cup {"none"} /\ outcome \in {"none", "ok", "buserr"}
      BY <1>1
    <3>3. 0 \in Nat /\ 3 \in 1 .. 3
      OBVIOUS
    <3> QED BY <1>1, <3>1, <3>2, <3>3
  <2>3. word \in Word /\ r_word \in Word /\ o_wb_data \in Word /\ nidle \in 0 .. MaxIdle /\ r_cmd \in Commands
    BY <1>1, <2>1
  <2> QED BY <1>1, <1>5, <2>1, <2>2, <2>3 DEF Typing
<1>7. AccessInv
  <2>1. <<>> \in Seq([we : BOOLEAN, a : Word, d : Word, err : BOOLEAN]) /\ Len(<<>>) = 0 /\ call.len = 0
    BY <1>1 DEF NoCall
  <2> QED BY <1>1, <2>1 DEF AccessInv
<1>8. Resting
  <2>1. HeldQuiet /\ HeldIdle = 0
    BY <1>1 DEF HeldQuiet, HeldIdle, Flag
  <2> QED BY <1>1, <1>4, <2>1 DEF Resting
<1> QED BY <1>1, <1>6, <1>7, <1>8 DEF HInv

LEMMA Standing ==
    ASSUME HInv, UNCHANGED vars
    PROVE  HInv'
<1>1. /\ UNCHANGED <<m_addr_set, m_inc, m_lastaddr, m_cmd, m_isspace, m_nacks, m_interrupt_flag, m_bus_err>>
      /\ UNCHANGED <<pc, call, n, buf, word, abort_countdown, outcome, h2d, d2h, accesses, dropped>>
      /\ UNCHANGED <<cmd_loaded, r_cmd, r_word, o_wb_cyc, o_wb_we, o_wb_addr, inc, o_wb_data, last_cr, nidle>>
    BY DEF vars, host, frame, device, history
<1>2. Typing' <=> Typing
    BY <1>1 DEF Typing
<1>3. AccessInv' <=> AccessInv
    BY <1>1 DEF AccessInv, At
<1>4. HeldQuiet' = HeldQuiet /\ HeldIdle' = HeldIdle /\ Used' = Used /\ Named' = Named
    BY <1>1 DEF HeldQuiet, HeldIdle, Used, Named
<1>5. Resting' <=> Resting
    BY <1>1, <1>4 DEF Resting, Legal
<1>6. Busy => Busy'
  <2> SUFFICES ASSUME Busy PROVE Busy'
    OBVIOUS
  <2>1. Naming => Naming'
    BY <1>1, <1>4 DEF Naming
  <2>2. Asking => Asking'
    BY <1>1, <1>4 DEF Asking, Placed, At, NoAnswer, Before, Taking
  <2>3. Answered => Answered'
    <3>1. Spelt(n + 1)' = Spelt(n + 1) /\ Placed(n + 1)' = Placed(n + 1)
      BY <1>1 DEF Spelt, Placed, At
    <3>2. ASSUME NEW rest, NEW z
          PROVE  Before(rest, z) => Before(rest, z)'
      BY <1>1, <1>4 DEF Before, Taking
    <3>3. ASSUME NEW w, NEW rest
          PROVE  Taking("R", w, rest) => Taking("R", w, rest)'
      BY <1>1 DEF Taking
    <3>4. ASSUME Answered
          PROVE  Answered'
      <4>1. PICK after \in Seq(Quiet) :
             /\ Idles(after) <= nidle
             /\ \/ \E b \in Seq(Quiet), z \in Nat :
                     Before(b \o Spelt(n + 1) \o after, z) /\ z + Idles(b) <= MaxIdle
                \/ ~accesses[n + 1].err /\ Taking("R", accesses[n + 1].d, after)
                \/ accesses[n + 1].err /\ ~m_isspace /\ m_cmd = "E" /\ d2h = after
        BY <3>4 DEF Answered
      <4> QED BY <1>1, <3>1, <3>2, <3>3, <3>4, <4>1 DEF Answered
    <3> QED BY <3>4
  <2>4. (Len(accesses) = n /\ (Naming' \/ Asking')) \/ Answered'
    BY <2>1, <2>2, <2>3 DEF Busy
  <2> QED BY <1>1, <2>4, BusyKept
<1> QED BY <1>1, <1>2, <1>3, <1>5, <1>6 DEF HInv

LEMMA Stepping ==
    ASSUME ReadsOnly, HInv, [Next]_vars
    PROVE  HInv'
<1>1. pc # "readidle"
    BY DEF HInv
<1>2. ~Readidle /\ ~ReadidleReturn
    BY <1>1 DEF Readidle, ReadidleDigit, ReadidleOther, ReadidleThrow, ReadidleReturn
<1>3. ASSUME NEW c \in Calls, Call(c) PROVE HInv'
    BY <1>3, Calling
<1>4. ASSUME NEW err \in BOOLEAN, NEW v \in Data, BusAnswer(err, v) PROVE HInv'
    BY <1>4, Answering
<1> QED BY <1>2, <1>3, <1>4, HostReads, Listening, Clearing, Receiving, Quieting, Standing DEF Next

LEMMA HInvMeansTypes ==
    ASSUME HInv
    PROVE  TypeOK
<1>1. Typing /\ (pc = "idle" \/ pc = "readword")
    BY DEF HInv
<1>2. h2d \in Seq(Chars)
  <2>1. "A" \in Chars /\ "R" \in Chars /\ Space \in Chars
    BY DEF Chars, Commands
  <2>4. <<>> \in Seq(Chars) /\ <<Space>> \in Seq(Chars) /\ <<"R", Space>> \in Seq(Chars)
    BY <2>1
  <2>2. CASE h2d = <<>> \/ h2d = <<Space>> \/ h2d = <<"R", Space>>
    BY <2>2, <2>4
  <2>3. CASE Naming /\ Busy
    <3> DEFINE x == Digit[Named \div Base]
               y == Digit[Named % Base]
    <3>1. x \in Chars /\ y \in Chars
      BY <2>3, NamedIs, SpellingType DEF Busy
    <3>2. h2d = <<"A", x, y, "R", Space>> \/ h2d = <<x, y, "R", Space>> \/ h2d = <<y, "R", Space>>
          \/ h2d = <<"R", Space>>
      BY <2>3 DEF Naming
    <3> HIDE DEF x, y
    <3>3. /\ <<"A", x, y, "R", Space>> \in Seq(Chars) /\ <<x, y, "R", Space>> \in Seq(Chars)
          /\ <<y, "R", Space>> \in Seq(Chars)
      BY <2>1, <3>1
    <3> QED BY <2>4, <3>2, <3>3
  <2> QED BY <2>2, <2>3 DEF HInv, Resting, Busy, Asking, Answered
<1>3. m_lastaddr \in {a \in Word : a % 4 = 0}
    BY <1>1 DEF Typing
<1> QED BY <1>1, <1>2, <1>3 DEF TypeOK, Typing

LEMMA HInvMeansOwnAccesses ==
    ASSUME ReadsOnly, HInv
    PROVE  AccessesAreTheCallsOwn
<1>1. AccessInv /\ (call \in Calls \/ call = NoCall)
    BY DEF HInv, Resting, Busy
<1>2. ASSUME NEW i \in 1 .. Len(accesses)
      PROVE  /\ accesses[i].we = Wanted(call)[i].we /\ accesses[i].a = Wanted(call)[i].a
             /\ accesses[i].we => accesses[i].d = call.buf[i]
  <2>1. accesses[i] \in [we : BOOLEAN, a : Word, d : Word, err : BOOLEAN]
    BY <1>1, ElementOfSeq DEF AccessInv
  <2>2. accesses[i].we = FALSE /\ accesses[i].a = At(i - 1)
    BY <1>1, <2>1 DEF AccessInv
  <2>3. Len(accesses) \in Nat /\ Len(accesses) <= call.len
    BY <1>1, LenProperties DEF AccessInv
  <2>4. call \in Calls
    <3>1. call # NoCall
      BY <2>3 DEF NoCall
    <3> QED BY <1>1, <3>1
  <2>5. call.kind \in Kinds /\ call.len \in Lens
    BY <2>4 DEF Calls
  <2>6. IsRead(call.kind)
    BY <2>5 DEF ReadsOnly, IsRead
  <2>7. i \in 1 .. call.len
    <3>1. call.len \in Nat
      BY <2>5, Constants
    <3> QED BY <2>3, <3>1
  <2>8. Wanted(call)[i] = [we |-> ~IsRead(call.kind),
                           a |-> (call.a + IF Increments(call.kind) THEN 4 * (i - 1) ELSE 0) % WordSize]
    BY <2>7 DEF Wanted
  <2> DEFINE t == (call.a + IF Increments(call.kind) THEN 4 * (i - 1) ELSE 0) % WordSize
  <2>10. t = At(i - 1) /\ (~IsRead(call.kind)) = FALSE
    BY <2>6 DEF At
  <2>11. Wanted(call)[i] = [we |-> FALSE, a |-> t]
    BY <2>8, <2>10
  <2> HIDE DEF t
  <2>9. Wanted(call)[i].we = FALSE /\ Wanted(call)[i].a = At(i - 1)
    BY <2>10, <2>11
  <2> QED BY <2>2, <2>9
<1>3. ~dropped /\ Len(accesses) <= call.len
    BY <1>1 DEF AccessInv
<1> QED BY <1>2, <1>3 DEF AccessesAreTheCallsOwn

LEMMA HInvMeansReturns ==
    ASSUME HInv
    PROVE  ReturnsWhatTheBusDid
<1>1. ASSUME outcome = "ok"
      PROVE  /\ Len(accesses) = call.len
             /\ \A i \in 1 .. call.len : ~accesses[i].err
             /\ buf = [i \in 1 .. call.len |-> accesses[i].d]
  <2>1. Resting /\ Typing
    BY <1>1 DEF HInv, Busy
  <2>2. /\ Len(accesses) = call.len /\ Len(buf) = call.len /\ buf \in Seq(Word)
        /\ \A i \in 1 .. call.len : accesses[i].d = buf[i] /\ ~accesses[i].err
    BY <1>1, <2>1 DEF Resting, Typing
  <2>3. buf = [i \in 1 .. Len(buf) |-> buf[i]]
    BY <2>2
  <2> QED BY <2>2, <2>3
<1>2. ASSUME outcome = "buserr"
      PROVE  \E i \in 1 .. Len(accesses) : accesses[i].err
    BY <1>2 DEF HInv, Busy, Resting
<1> QED BY <1>1, <1>2, HInvMeansTypes DEF ReturnsWhatTheBusDid

LEMMA HInvMeansBelief ==
    ASSUME HInv
    PROVE  AddressBeliefIsTrue
BY DEF HInv, Resting, AddressBeliefIsTrue

\* The invariant holds of every run in which the client reads
LEMMA HexBusInvariant ==
    ASSUME ReadsOnly
    PROVE  Spec => []HInv
BY Beginning, Stepping, PTL DEF Spec

\* What the device does on the bus is what the call in progress asked for, at
\* its addresses and in its order: no skipped address command
\* (HEXBUS::encode_address) leaves the device somewhere else, whatever idle
\* reports, interrupts and newlines come in between, and no command meets a
\* busy device.
THEOREM ReadsAreTheCallsOwn ==
    ASSUME ReadsOnly
    PROVE  Spec => []AccessesAreTheCallsOwn
BY HexBusInvariant, HInvMeansOwnAccesses, PTL

\* A read that returns has had its words from the bus, in order, and BUSERR
\* is thrown only by the call whose access erred (HEXBUS::readword, readv).
THEOREM ReadsReturnWhatTheBusDid ==
    ASSUME ReadsOnly
    PROVE  Spec => []ReturnsWhatTheBusDid
BY HexBusInvariant, HInvMeansReturns, PTL

\* Between calls the host's belief about the device's address is true, and
\* readv's last check never ends the process.
THEOREM ReadsKeepTheBelief ==
    ASSUME ReadsOnly
    PROVE  Spec => []AddressBeliefIsTrue
BY HexBusInvariant, HInvMeansBelief, PTL
=============================================================================
