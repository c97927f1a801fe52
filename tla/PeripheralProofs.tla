-------------------------- MODULE PeripheralProofs --------------------------
(***************************************************************************)
(* What the virtual peripherals and the trace backends promise, for every  *)
(* size of their arrays and every sequence of calls.  The ring lemmas of   *)
(* the UART serve the SPI slave; the others need none.  The last section   *)
(* joins the components' invariants to that of a program that uses one of  *)
(* them.                                                                   *)
(***************************************************************************)
EXTENDS Peripherals, UartProofs, WellFoundedInduction

(***************************************************************************)
(* The register pointer of the I2C device, rejected transfers included.    *)
(***************************************************************************)
\* The pointer is behind the last byte read, and inside the bank if any was.
Placed ==
    /\ cursor = origin + Len(stream)
    /\ origin <= MaxPointer \/ origin <= RegCount
    /\ cursor <= MaxPointer \/ cursor <= RegCount
    /\ stream # << >> => cursor <= RegCount

\* What a log says of register r, and that it is the byte b.
Says(log, r, b) ==
    \/ WritesOf(log, r) = {} /\ b = 0
    \/ \E j \in WritesOf(log, r) :
         /\ \A i \in WritesOf(log, r) : i <= j
         /\ b = log[j].bytes[r - log[j].reg + 1]

\* Every register holds what was last sent to it.
BankHolds == \A r \in Regs : Says(sent, r, regs[r])

Writes == [reg : Nat, bytes : Seq(Bytes)]

I2cInv == I2cTypes /\ Placed /\ BankHolds /\ ReadsGiveLastSent

\* There is one last write.
LEMMA SaysLast ==
    ASSUME NEW log \in Seq(Writes), NEW r, NEW b, Says(log, r, b)
    PROVE  b = LastSent(log, r)
<1>1. CASE WritesOf(log, r) = {}
  BY <1>1 DEF Says, LastSent
<1>2. CASE WritesOf(log, r) # {}
  <2> DEFINE IsLast(j) == \A i \in WritesOf(log, r) : i <= j
             c == CHOOSE j \in WritesOf(log, r) : IsLast(j)
  <2>1. PICK j \in WritesOf(log, r) : IsLast(j) /\ b = log[j].bytes[r - log[j].reg + 1]
    BY <1>2 DEF Says
  <2>2. c \in WritesOf(log, r) /\ IsLast(c)
    <3> HIDE DEF IsLast
    <3> QED
      BY <2>1
  <2>3. WritesOf(log, r) \subseteq Nat
    BY DEF WritesOf
  <2>4. c = j
    <3>1. c <= j /\ j <= c /\ c \in Nat /\ j \in Nat
      BY <2>1, <2>2, <2>3
    <3> HIDE DEF c
    <3> QED
      BY <3>1
  <2>5. LastSent(log, r) = log[c].bytes[r - log[c].reg + 1]
    BY <1>2 DEF LastSent
  <2> HIDE DEF c
  <2> QED
    BY <2>1, <2>4, <2>5
<1> QED
  BY <1>1, <1>2

\* A log that grows by a write says the new byte of the registers the write
\* covers, and of the others what it said.
LEMMA SaysAppended ==
    ASSUME NEW log \in Seq(Writes), NEW w \in Writes, NEW r, NEW b, NEW new,
           Says(log, r, b),
           IF w.reg + Len(w.bytes) <= RegCount /\ Within(r, w.reg, w.bytes)
           THEN new = w.bytes[r - w.reg + 1] ELSE new = b
    PROVE  Says(Append(log, w), r, new)
<1> DEFINE n == Len(log)
           longer == Append(log, w)
           Covers(j) == /\ longer[j].reg + Len(longer[j].bytes) <= RegCount
                        /\ Within(r, longer[j].reg, longer[j].bytes)
<1>1. /\ n \in Nat /\ DOMAIN log = 1 .. n /\ DOMAIN longer = 1 .. n + 1
      /\ longer[n + 1] = w /\ \A j \in 1 .. n : longer[j] = log[j]
  OBVIOUS
<1>2. WritesOf(log, r) \subseteq 1 .. n
  BY <1>1 DEF WritesOf
<1>3. \A j \in 1 .. n : j \in WritesOf(longer, r) <=> j \in WritesOf(log, r)
  BY <1>1 DEF WritesOf
<1>4. /\ WritesOf(longer, r) \subseteq 1 .. n + 1
      /\ n + 1 \in WritesOf(longer, r) <=>
           w.reg + Len(w.bytes) <= RegCount /\ Within(r, w.reg, w.bytes)
  BY <1>1 DEF WritesOf
<1> HIDE DEF longer, n
<1>5. CASE n + 1 \in WritesOf(longer, r)
  <2>1. \A i \in WritesOf(longer, r) : i <= n + 1
    BY <1>1, <1>4
  <2>2. new = longer[n + 1].bytes[r - longer[n + 1].reg + 1]
    BY <1>1, <1>4, <1>5
  <2> QED
    BY <1>5, <2>1, <2>2 DEF Says, longer
<1>6. CASE n + 1 \notin WritesOf(longer, r)
  <2>1. new = b
    BY <1>4, <1>6
  <2>2. WritesOf(longer, r) = WritesOf(log, r)
    <3>1. \A j \in WritesOf(longer, r) : j \in 1 .. n
      BY <1>1, <1>4, <1>6
    <3> QED
      BY <1>2, <1>3, <3>1
  <2> QED
    BY <1>1, <1>2, <2>1, <2>2 DEF Says, longer
<1> QED
  BY <1>5, <1>6

LEMMA InitI2c == I2cInit => I2cInv
<1> SUFFICES ASSUME I2cInit PROVE I2cInv
  OBVIOUS
<1>1. RegCount \in Nat /\ MaxPointer \in Nat /\ MaxTransactions \in Nat /\ 0 \in Bytes
  BY BankAssumption, I2cAssumption
<1>2. DeviceOK
  BY <1>1 DEF I2cInit, DeviceInit, DeviceOK
<1>3. BankHolds
  BY DEF I2cInit, DeviceInit, BankHolds, Says, WritesOf
<1>4. I2cTypes
  BY <1>1, <1>2 DEF I2cInit, I2cTypes
<1> QED
  BY <1>1, <1>3, <1>4 DEF I2cInit, I2cInv, Placed, ReadsGiveLastSent

\* Every access leaves a well-typed device.
LEMMA DeviceTyped ==
    ASSUME DeviceOK, NEW null \in BOOLEAN, NEW reg \in Nat, NEW len \in Nat,
           NEW bytes \in Seq(Bytes), NEW rc \in HookResults \cup {-1},
           \/ DeviceReset \/ DeviceRead(null, reg, len, rc)
           \/ DeviceWrite(null, reg, bytes, rc)
           \/ DevicePoint(reg) \/ UNCHANGED device
    PROVE  DeviceOK'
<1>1. rc \in Int /\ RegCount \in Nat /\ 0 \in Bytes
  BY BankAssumption
<1>2. CASE DeviceReset
  BY <1>1, <1>2 DEF DeviceReset, DeviceOK
<1>3. CASE DeviceRead(null, reg, len, rc)
  BY <1>1, <1>3 DEF DeviceRead, DeviceOK
<1>4. CASE DeviceWrite(null, reg, bytes, rc)
  <2>1. \A r \in Regs : Within(r, reg, bytes) => bytes[r - reg + 1] \in Bytes
    BY <1>1 DEF Regs, Within
  <2>2. regs' \in [Regs -> Bytes]
    BY <1>4, <2>1 DEF DeviceWrite, DeviceOK
  <2> QED
    BY <1>1, <1>4, <2>2 DEF DeviceWrite, DeviceOK
<1>5. CASE DevicePoint(reg) \/ UNCHANGED device
  BY <1>1, <1>5 DEF DevicePoint, DeviceOK, device
<1> QED
  BY <1>2, <1>3, <1>4, <1>5

\* A read that succeeds appends what on_read makes of the registers from the
\* pointer on.
LEMMA I2cReadKept ==
    ASSUME I2cInv, NEW null \in BOOLEAN, NEW n \in 0 .. MaxLen, MasterRead(null, n)
    PROVE  I2cInv'
<1> DEFINE Read == [by : Rewrites, byte : Bytes]
<1>1. /\ n \in Nat /\ RegCount \in Nat /\ MaxPointer \in Nat /\ MaxTransactions \in Nat
      /\ cursor \in Nat /\ origin \in Nat /\ stream \in Seq(Read) /\ Len(stream) \in Nat
      /\ regs \in [Regs -> Bytes] /\ transactions \in 0 .. MaxTransactions
      /\ sent \in Seq(Writes) /\ Rewrites \subseteq [Bytes -> Bytes]
  BY BankAssumption, I2cAssumption DEF I2cInv, I2cTypes, DeviceOK, Writes
<1>2. PICK rc \in HookResults \cup {-1}, rewrite \in Rewrites :
        /\ DeviceRead(null, cursor, n, rc)
        /\ IF rc = 0
           THEN cursor' = cursor + n /\ stream' = stream \o Got(rewrite, n)
           ELSE UNCHANGED <<cursor, stream>>
  BY DEF MasterRead
<1>3. /\ regs' = regs /\ origin' = origin /\ sent' = sent
      /\ transactions' \in 0 .. MaxTransactions
  BY <1>1, <1>2 DEF MasterRead, DeviceRead, Transfer
<1>4. DeviceOK'
  <2>1. << >> \in Seq(Bytes)
    OBVIOUS
  <2> QED
    BY <1>1, <1>2, <2>1, DeviceTyped DEF I2cInv, I2cTypes
<1>5. BankHolds'
  BY <1>3 DEF I2cInv, BankHolds
<1>6. CASE rc = 0
  <2> DEFINE got == Got(rewrite, n)
  <2>1. cursor + n <= RegCount
    BY <1>2, <1>6 DEF DeviceRead, Access, Reaches
  <2>2. \A k \in 1 .. n : cursor + k - 1 \in Regs
    BY <1>1, <2>1 DEF Regs
  <2>3. /\ got \in Seq(Read) /\ Len(got) = n
        /\ \A k \in 1 .. n : got[k] = [by |-> rewrite, byte |-> rewrite[regs[cursor + k - 1]]]
    <3> DEFINE Byte(k) == [by |-> rewrite, byte |-> rewrite[regs[cursor + k - 1]]]
    <3>1. \A k \in 1 .. n : rewrite[regs[cursor + k - 1]] \in Bytes
      BY <1>1, <2>2
    <3>2. got = [k \in 1 .. n |-> Byte(k)]
      BY <1>1 DEF Got, Answer
    <3>3. \A k \in 1 .. n : Byte(k) \in Read
      BY <3>1
    <3>4. \A k \in 1 .. n : got[k] = Byte(k)
      BY <3>2
    <3>5. got \in Seq(Read) /\ Len(got) = n
      <4> HIDE DEF got, Read, Byte
      <4> QED
        BY <1>1, <3>2, <3>3
    <3> QED
      BY <3>4, <3>5
  <2>4. /\ stream' = stream \o got /\ stream' \in Seq(Read) /\ Len(stream') = Len(stream) + n
        /\ cursor' = cursor + n
    <3>1. stream' = stream \o got /\ cursor' = cursor + n
      BY <1>2, <1>6
    <3> HIDE DEF got, Read
    <3>2. stream \o got \in Seq(Read) /\ Len(stream \o got) = Len(stream) + n
      BY <1>1, <2>3, ConcatProperties
    <3> QED
      BY <3>1, <3>2
  <2>5. ASSUME NEW k \in DOMAIN stream'
        PROVE  stream'[k].byte = stream'[k].by[LastSent(sent', origin' + k - 1)]
    <3>1. k \in 1 .. Len(stream) + n
      BY <1>1, <2>4
    <3>2. CASE k <= Len(stream)
      <4>1. k \in DOMAIN stream /\ stream'[k] = stream[k]
        BY <1>1, <2>3, <2>4, <3>1, <3>2
      <4> QED
        BY <1>3, <4>1 DEF I2cInv, ReadsGiveLastSent
    <3>3. CASE k > Len(stream)
      <4>1. stream'[k] = got[k - Len(stream)] /\ k - Len(stream) \in 1 .. n
        BY <1>1, <2>3, <2>4, <3>1, <3>3
      <4>2. cursor + (k - Len(stream)) - 1 = origin + k - 1
        BY <1>1, <3>1 DEF I2cInv, Placed
      <4>3. stream'[k] = [by |-> rewrite, byte |-> rewrite[regs[origin + k - 1]]]
            /\ origin + k - 1 \in Regs
        BY <2>2, <2>3, <4>1, <4>2
      <4>4. regs[origin + k - 1] = LastSent(sent, origin + k - 1)
        BY <1>1, <4>3, SaysLast DEF I2cInv, BankHolds
      <4> QED
        BY <1>3, <4>3, <4>4
    <3> QED
      BY <1>1, <3>1, <3>2, <3>3
  <2>6. Placed'
    BY <1>1, <1>3, <2>1, <2>4 DEF I2cInv, Placed
  <2>7. I2cTypes'
    BY <1>1, <1>3, <1>4, <2>4 DEF I2cInv, I2cTypes
  <2>8. ReadsGiveLastSent'
    BY <2>5, <2>6 DEF Placed, ReadsGiveLastSent
  <2> QED
    BY <1>5, <2>6, <2>7, <2>8 DEF I2cInv
<1>7. CASE rc # 0
  <2>1. UNCHANGED <<cursor, stream>>
    BY <1>2, <1>7
  <2> QED
    BY <1>3, <1>4, <1>5, <2>1 DEF I2cInv, I2cTypes, Placed, ReadsGiveLastSent
<1> QED
  BY <1>6, <1>7

\* A write sets the pointer and starts a new stream, and so does a reset.
LEMMA I2cRestartKept ==
    ASSUME I2cInv,
           ResetBase \/ \E p \in 0 .. MaxPointer, n \in 0 .. MaxLen : MasterWrite(p, n)
    PROVE  I2cInv'
<1>1. /\ RegCount \in Nat /\ MaxPointer \in Nat /\ MaxLen \in Nat /\ MaxTransactions \in Nat
      /\ cursor \in Nat /\ transactions \in 0 .. MaxTransactions
      /\ cursor <= MaxPointer \/ cursor <= RegCount
      /\ sent \in Seq(Writes) /\ 0 \in Bytes /\ DeviceOK
  BY BankAssumption, I2cAssumption DEF I2cInv, I2cTypes, Placed, Writes
<1>2. CASE ResetBase
  <2>1. DeviceOK'
    BY <1>1, <1>2 DEF ResetBase, DeviceReset, DeviceOK
  <2>2. BankHolds'
    BY <1>2 DEF ResetBase, DeviceReset, BankHolds, Says, WritesOf
  <2>3. cursor' = cursor /\ transactions' = 0 /\ sent' = << >> /\ origin' = cursor
        /\ stream' = << >>
    BY <1>2 DEF ResetBase
  <2>4. I2cTypes'
    BY <1>1, <2>1, <2>3 DEF I2cTypes
  <2> QED
    BY <1>1, <2>2, <2>3, <2>4 DEF I2cInv, Placed, ReadsGiveLastSent
<1>3. ASSUME NEW p \in 0 .. MaxPointer, NEW n \in 0 .. MaxLen, MasterWrite(p, n)
      PROVE  I2cInv'
  <2> DEFINE bytes == Payload(transactions', n)
             w == [reg |-> p, bytes |-> bytes]
  <2>1. /\ cursor' = p /\ origin' = p /\ stream' = << >> /\ p \in Nat /\ n \in Nat
        /\ transactions' = transactions + 1 /\ transactions' \in 1 .. MaxTransactions
    BY <1>1, <1>3 DEF MasterWrite, Transfer
  <2>2. bytes \in Seq(Bytes)
    <3>1. \A k \in 1 .. n : k \in 1 .. MaxLen
      BY <1>1
    <3>2. \A k \in 1 .. n : (transactions' - 1) * MaxLen + k \in Bytes
      BY <2>1, <3>1, I2cAssumption
    <3> QED
      BY <2>1, <3>2 DEF Payload
  <2>3. w \in Writes /\ w.reg = p /\ w.bytes = bytes
    BY <2>1, <2>2 DEF Writes
  <2> HIDE DEF bytes, w
  <2>4. CASE n > 0
    <3>1. PICK rc \in HookResults \cup {-1} : DeviceWrite(FALSE, p, bytes, rc)
      BY <1>3, <2>4 DEF MasterWrite, bytes
    <3>2. sent' = Append(sent, w)
      BY <1>3, <2>4 DEF MasterWrite, bytes, w
    <3>3. DeviceOK'
      BY <1>1, <2>1, <2>2, <3>1, DeviceTyped
    <3>4. sent' \in Seq(Writes)
      BY <1>1, <2>3, <3>2
    <3>5. ASSUME NEW r \in Regs PROVE Says(sent', r, regs'[r])
      <4>1. Says(sent, r, regs[r])
        BY DEF I2cInv, BankHolds
      <4>2. regs'[r] = IF p + Len(bytes) <= RegCount /\ Within(r, p, bytes)
                       THEN bytes[r - p + 1] ELSE regs[r]
        BY <3>1 DEF DeviceWrite, Reaches
      <4>3. IF w.reg + Len(w.bytes) <= RegCount /\ Within(r, w.reg, w.bytes)
            THEN regs'[r] = w.bytes[r - w.reg + 1] ELSE regs'[r] = regs[r]
        BY <2>3, <4>2
      <4> QED
        BY <1>1, <2>3, <3>2, <4>1, <4>3, SaysAppended
    <3>6. BankHolds'
      BY <3>5 DEF BankHolds
    <3>7. I2cTypes'
      BY <1>1, <2>1, <3>3, <3>4 DEF I2cTypes, Writes
    <3> QED
      BY <1>1, <2>1, <3>6, <3>7 DEF I2cInv, Placed, ReadsGiveLastSent
  <2>5. CASE ~(n > 0)
    <3>1. DevicePoint(p) /\ sent' = sent
      BY <1>3, <2>5 DEF MasterWrite
    <3>2. DeviceOK' /\ regs' = regs
      BY <1>1, <2>1, <3>1 DEF DevicePoint, DeviceOK
    <3>3. BankHolds'
      BY <3>1, <3>2 DEF I2cInv, BankHolds
    <3>4. I2cTypes'
      BY <1>1, <2>1, <3>1, <3>2 DEF I2cInv, I2cTypes
    <3> QED
      BY <1>1, <2>1, <3>3, <3>4 DEF I2cInv, Placed, ReadsGiveLastSent
  <2> QED
    BY <2>4, <2>5
<1> QED
  BY <1>2, <1>3

LEMMA I2cKept == I2cInv /\ [I2cNext]_i2c => I2cInv'
<1>1. ASSUME I2cInv, UNCHANGED i2c PROVE I2cInv'
  BY <1>1 DEF i2c, device, history, I2cInv, I2cTypes, DeviceOK, Placed, BankHolds,
     ReadsGiveLastSent
<1> QED
  BY <1>1, I2cReadKept, I2cRestartKept DEF I2cNext
-----------------------------------------------------------------------------
\* The device and its pointer keep their types, for every size of the bank.
THEOREM I2cTypeCorrect == I2cSpec => []I2cTypes
<1>1. I2cInv => I2cTypes
  BY DEF I2cInv
<1> QED
  BY InitI2c, I2cKept, <1>1, PTL DEF I2cSpec

\* A read gives, from where the master set the pointer on and each once, what
\* on_read makes of the bytes last sent to the registers, whatever transfers fail,
\* are rejected or miss the bank in between.
THEOREM ReadsHold == I2cSpec => []ReadsGiveLastSent
<1>1. I2cInv => ReadsGiveLastSent
  BY DEF I2cInv
<1> QED
  BY InitI2c, I2cKept, <1>1, PTL DEF I2cSpec
-----------------------------------------------------------------------------
(***************************************************************************)
(* The ADC.  sample_idx and conversions are two counters of the code that  *)
(* are always equal, which is what numbers the conversions.                *)
(***************************************************************************)
Counted(ch) ==
    /\ swept[ch] \in Seq(Int) /\ Len(swept[ch]) = conversions[ch]
    /\ sample_idx[ch] = conversions[ch]
    /\ \A k \in 1 .. conversions[ch] : swept[ch][k] \in {-1, k - 1}

AdcInv ==
    /\ Adc!TypeOK /\ resolution_bits \in Resolutions \cup {DefaultBits}
    /\ DOMAIN swept = Adc!Inputs
    /\ \A ch \in Adc!Inputs : Counted(ch)

LEMMA SpanIs == AdcInv => Adc!Span \in Nat \ {0}
  BY PeripheralsAssumption DEF AdcInv, Adc!Span

LEMMA InitAdc == Adc!Init => AdcInv
<1> SUFFICES ASSUME Adc!Init PROVE AdcInv
  OBVIOUS
<1>1. Channels \in Nat /\ 2 ^ WordBits \in Nat \ {0} /\ DefaultBits \in Nat \ {0}
      /\ Resolutions \subseteq Nat
  BY PeripheralsAssumption
<1>2. resolution_bits \in Nat \ {0} /\ resolution_bits \in Resolutions \cup {DefaultBits}
  BY <1>1 DEF Adc!Init
<1>3. Adc!Span \in Nat \ {0}
  BY <1>2, PeripheralsAssumption DEF Adc!Span
<1>4. Adc!TypeOK
  BY <1>1, <1>2, <1>3 DEF Adc!Init, Adc!TypeOK, Adc!Zero, Adc!Codes
<1>5. \A ch \in Adc!Inputs : Counted(ch)
  BY DEF Adc!Init, Adc!Zero, Adc!Nothing, Counted
<1> QED
  BY <1>2, <1>4, <1>5 DEF AdcInv, Adc!Init, Adc!Nothing

\* A conversion appends its number to the sweep of its channel.
LEMMA ConversionCounts ==
    ASSUME AdcInv, NEW ch \in Adc!Inputs, NEW code \in Adc!Codes, Adc!Read(ch, code)
    PROVE  AdcInv'
<1> DEFINE idx == IF ch \in gen THEN sample_idx[ch] ELSE -1
           in == IF ch \in gen THEN code ELSE fixed[ch]
<1>1. /\ resolution_bits' = resolution_bits /\ fixed' = fixed /\ gen' = gen
      /\ result' = in % Adc!Span
      /\ swept' = [swept EXCEPT ![ch] = Append(@, idx)]
      /\ sample_idx' = [sample_idx EXCEPT ![ch] = @ + 1]
      /\ conversions' = [conversions EXCEPT ![ch] = @ + 1]
  BY DEF Adc!Read, Adc!settings
<1>2. /\ Adc!Span \in Nat \ {0} /\ Adc!Span' = Adc!Span
      /\ Adc!TypeOK /\ resolution_bits \in Resolutions \cup {DefaultBits}
      /\ DOMAIN swept = Adc!Inputs /\ 2 ^ WordBits \in Nat
  BY <1>1, SpanIs, PeripheralsAssumption DEF AdcInv, Adc!Span
<1>3. in \in Nat /\ sample_idx[ch] \in Nat /\ conversions[ch] \in Nat
  BY <1>2 DEF Adc!TypeOK, Adc!Codes
<1>4. in % Adc!Span \in 0 .. Adc!Span - 1
  <2> HIDE DEF in
  <2> QED
    BY <1>2, <1>3
<1> HIDE DEF in
<1>5. Adc!TypeOK'
  <2>1. sample_idx' \in [Adc!Inputs -> Nat] /\ conversions' \in [Adc!Inputs -> Nat]
    BY <1>1, <1>2, <1>3 DEF Adc!TypeOK
  <2> QED
    BY <1>1, <1>2, <1>4, <2>1 DEF Adc!TypeOK
<1>6. ASSUME NEW c \in Adc!Inputs PROVE Counted(c)'
  <2>1. CASE c # ch
    <3>1. swept'[c] = swept[c] /\ conversions'[c] = conversions[c] /\ sample_idx'[c] = sample_idx[c]
      BY <1>1, <1>2, <2>1 DEF Adc!TypeOK
    <3> QED
      BY <3>1 DEF AdcInv, Counted
  <2>2. CASE c = ch
    <3>1. /\ swept[ch] \in Seq(Int) /\ Len(swept[ch]) = conversions[ch]
          /\ sample_idx[ch] = conversions[ch]
          /\ \A k \in 1 .. conversions[ch] : swept[ch][k] \in {-1, k - 1}
      BY DEF AdcInv, Counted
    <3>2. /\ swept'[c] = Append(swept[ch], idx) /\ conversions'[c] = conversions[ch] + 1
          /\ sample_idx'[c] = sample_idx[ch] + 1
      BY <1>1, <1>2, <2>2 DEF Adc!TypeOK
    <3>3. idx \in Int /\ idx \in {-1, (conversions[ch] + 1) - 1}
      BY <1>3, <3>1
    <3> HIDE DEF idx
    <3>4. Append(swept[ch], idx) \in Seq(Int) /\ Len(Append(swept[ch], idx)) = conversions[ch] + 1
          /\ \A k \in 1 .. conversions[ch] + 1 :
               Append(swept[ch], idx)[k] = IF k = conversions[ch] + 1 THEN idx ELSE swept[ch][k]
      BY <1>3, <3>1, <3>3
    <3>5. \A k \in 1 .. conversions[ch] + 1 : swept'[c][k] \in {-1, k - 1}
      BY <1>3, <3>1, <3>2, <3>3, <3>4
    <3> QED
      BY <1>3, <3>1, <3>2, <3>4, <3>5 DEF Counted
  <2> QED
    BY <2>1, <2>2
<1>7. DOMAIN swept' = Adc!Inputs
  BY <1>1, <1>2
<1> QED
  BY <1>1, <1>2, <1>5, <1>6, <1>7 DEF AdcInv

LEMMA AdcKept == AdcInv /\ [Adc!Next]_adc => AdcInv'
<1> SUFFICES ASSUME AdcInv PROVE [Adc!Next]_adc => AdcInv'
  OBVIOUS
<1>1. /\ Channels \in Nat /\ Adc!Span \in Nat \ {0} /\ Adc!TypeOK
      /\ 2 ^ WordBits \in Nat \ {0}
  BY SpanIs, PeripheralsAssumption DEF AdcInv
<1>2. CASE Adc!Reset
  <2>1. Adc!TypeOK' /\ \A ch \in Adc!Inputs : Counted(ch)'
    BY <1>1, <1>2 DEF Adc!Reset, Adc!TypeOK, Adc!Zero, Adc!Nothing, Adc!Span, Adc!Codes, Counted
  <2> QED
    BY <1>2, <2>1 DEF Adc!Reset, Adc!Nothing, AdcInv
<1>3. ASSUME NEW ch \in 0 .. Channels, NEW code \in Adc!Codes,
             Adc!SetFixed(ch, code) \/ Adc!SetGen(ch)
      PROVE  AdcInv'
  <2>1. UNCHANGED <<resolution_bits, sample_idx, conversions, result, swept>>
    BY <1>3 DEF Adc!SetFixed, Adc!SetGen
  <2>2. fixed' \in [Adc!Inputs -> Adc!Codes] /\ gen' \subseteq Adc!Inputs
    BY <1>1, <1>3 DEF Adc!SetFixed, Adc!SetGen, Adc!TypeOK
  <2> QED
    BY <1>1, <2>1, <2>2 DEF AdcInv, Counted, Adc!TypeOK, Adc!Span
<1>4. ASSUME NEW ch \in 0 .. Channels, NEW code \in Adc!Codes, Adc!Read(ch, code)
      PROVE  AdcInv'
  <2>1. CASE ch \in Adc!Inputs
    BY <1>4, <2>1, ConversionCounts
  <2>2. CASE ch \notin Adc!Inputs
    <3>1. UNCHANGED <<resolution_bits, fixed, gen, sample_idx, conversions, swept>> /\ result' = 0
      BY <1>4, <2>2 DEF Adc!Read, Adc!settings
    <3> QED
      BY <1>1, <3>1 DEF AdcInv, Counted, Adc!TypeOK, Adc!Span
  <2> QED
    BY <2>1, <2>2
<1>5. CASE UNCHANGED adc
  BY <1>1, <1>5 DEF adc, AdcInv, Counted, Adc!TypeOK, Adc!Span
<1> QED
  BY <1>2, <1>3, <1>4, <1>5 DEF Adc!Next

LEMMA AdcPromises == AdcInv => Adc!TypeOK /\ SweepContinues
  BY DEF AdcInv, Counted, SweepContinues, Adc!SweepContinues
-----------------------------------------------------------------------------
(***************************************************************************)
(* The GPIO bank.  The level bit of a pin nobody drove from outside        *)
(* follows its writes, whatever the mode.                                  *)
(***************************************************************************)
GpioEvents == [pin : Pins, level : {0, 1}]

WritesTo(p) == {k \in DOMAIN gpio_written : gpio_written[k].pin = p}

\* Either the pin was never written and its level is clear, or its last write
\* gave the level.
Follows(p) ==
    \/ WritesTo(p) = {} /\ p \notin levels
    \/ \E k \in WritesTo(p) :
         /\ \A j \in WritesTo(p) : j <= k
         /\ gpio_written[k].level = Gpio!Level(p)

GpioInv ==
    /\ Gpio!TypeOK /\ gpio_written \in Seq(GpioEvents)
    /\ \A p \in Pins \ gpio_injected : Follows(p)

LEMMA InitGpio == Gpio!Init => GpioInv
<1> SUFFICES ASSUME Gpio!Init PROVE GpioInv
  OBVIOUS
<1>1. EventLog \in Nat
  BY PeripheralsAssumption
<1> QED
  BY <1>1 DEF Gpio!Init, Gpio!TypeOK, GpioInv, Follows, WritesTo

\* A write is the last of its pin and changes no other pin's.
LEMMA WriteFollows ==
    ASSUME GpioInv, NEW p \in Pins, NEW level \in {0, 1}, Gpio!Write(p, level)
    PROVE  GpioInv'
<1> DEFINE e == Gpio!Event(p, level)
           n == Len(gpio_written)
<1>1. e \in GpioEvents /\ e.pin = p /\ e.level = level
  BY DEF Gpio!Event, GpioEvents
<1>2. /\ levels' = (IF level = 1 THEN levels \cup {p} ELSE levels \ {p})
      /\ gpio_written' = Append(gpio_written, e) /\ gpio_injected' = gpio_injected \ {p}
      /\ outputs' = outputs /\ pulls_up' = pulls_up /\ pulls_down' = pulls_down
      /\ events' = IF Len(events) < EventLog THEN Append(events, e) ELSE events
  BY DEF Gpio!Write, Gpio!Driven
<1> HIDE DEF e
<1>3. gpio_written \in Seq(GpioEvents) /\ n \in Nat /\ DOMAIN gpio_written = 1 .. n
  BY DEF GpioInv
<1>4. /\ gpio_written' \in Seq(GpioEvents) /\ DOMAIN gpio_written' = 1 .. n + 1
      /\ gpio_written'[n + 1] = e
      /\ \A k \in 1 .. n : gpio_written'[k] = gpio_written[k]
  BY <1>1, <1>2, <1>3
<1>5. Gpio!TypeOK'
  <2>1. events \in Seq(GpioEvents) /\ Len(events) <= EventLog /\ EventLog \in Nat
    BY PeripheralsAssumption DEF GpioInv, Gpio!TypeOK, GpioEvents
  <2>2. events' \in Seq(GpioEvents) /\ Len(events') <= EventLog
    BY <1>1, <1>2, <2>1
  <2> QED
    BY <1>2, <2>2 DEF GpioInv, Gpio!TypeOK, GpioEvents
<1>6. ASSUME NEW q \in Pins \ gpio_injected' PROVE Follows(q)'
  <2>1. CASE q = p
    <3>1. n + 1 \in WritesTo(q)' /\ \A j \in WritesTo(q)' : j <= n + 1
      BY <1>1, <1>3, <1>4, <2>1 DEF WritesTo
    <3>2. gpio_written'[n + 1].level = Gpio!Level(q)'
      BY <1>1, <1>2, <1>4, <2>1 DEF Gpio!Level
    <3> QED
      BY <3>1, <3>2 DEF Follows
  <2>2. CASE q # p
    <3>1. WritesTo(q)' = WritesTo(q) /\ WritesTo(q) \subseteq 1 .. n
      BY <1>1, <1>3, <1>4, <2>2 DEF WritesTo
    <3>2. Gpio!Level(q)' = Gpio!Level(q) /\ (q \in levels' <=> q \in levels)
      BY <1>2, <2>2 DEF Gpio!Level
    <3>3. Follows(q)
      BY <1>2, <2>2 DEF GpioInv
    <3>4. CASE WritesTo(q) = {} /\ q \notin levels
      BY <3>1, <3>2, <3>4 DEF Follows
    <3>5. ASSUME NEW k \in WritesTo(q), \A j \in WritesTo(q) : j <= k,
                 gpio_written[k].level = Gpio!Level(q)
          PROVE  Follows(q)'
      BY <1>4, <3>1, <3>2, <3>5 DEF Follows
    <3> QED
      BY <3>3, <3>4, <3>5 DEF Follows
  <2> QED
    BY <2>1, <2>2
<1> QED
  BY <1>4, <1>5, <1>6 DEF GpioInv

LEMMA GpioKept == GpioInv /\ [Gpio!Next]_gpio => GpioInv'
<1> SUFFICES ASSUME GpioInv PROVE [Gpio!Next]_gpio => GpioInv'
  OBVIOUS
<1>1. EventLog \in Nat /\ Gpio!TypeOK
  BY PeripheralsAssumption DEF GpioInv
<1>2. CASE Gpio!Reset
  BY <1>1, <1>2 DEF Gpio!Reset, Gpio!TypeOK, GpioInv, Follows, WritesTo
<1>3. ASSUME NEW p \in Pins, \/ \E mode \in Gpio!Modes : Gpio!SetMode(p, mode)
                             \/ \E pull \in Gpio!Pulls : Gpio!SetPull(p, pull)
      PROVE  GpioInv'
  <2>1. UNCHANGED <<levels, events, gpio_written, gpio_injected>>
    BY <1>3 DEF Gpio!SetMode, Gpio!SetPull
  <2>2. Gpio!TypeOK'
    BY <1>1, <1>3, <2>1 DEF Gpio!SetMode, Gpio!SetPull, Gpio!TypeOK, Gpio!Pulls
  <2> QED
    BY <2>1, <2>2 DEF GpioInv, Follows, WritesTo, Gpio!Level
<1>4. ASSUME NEW p \in Pins, NEW level \in {0, 1}, Gpio!Inject(p, level)
      PROVE  GpioInv'
  <2>1. /\ levels' = (IF level = 1 THEN levels \cup {p} ELSE levels \ {p})
        /\ gpio_injected' = gpio_injected \cup {p}
        /\ UNCHANGED <<outputs, pulls_up, pulls_down, events, gpio_written>>
    BY <1>4 DEF Gpio!Inject, Gpio!Driven
  <2>2. Gpio!TypeOK'
    BY <1>1, <2>1 DEF Gpio!TypeOK
  <2>3. ASSUME NEW q \in Pins \ gpio_injected' PROVE Follows(q)'
    <3>1. q # p /\ Follows(q) /\ (q \in levels' <=> q \in levels)
      BY <2>1 DEF GpioInv
    <3> QED
      BY <2>1, <3>1 DEF Follows, WritesTo, Gpio!Level
  <2> QED
    BY <2>1, <2>2, <2>3 DEF GpioInv
<1>5. CASE UNCHANGED gpio
  BY <1>1, <1>5 DEF gpio, GpioInv, Gpio!TypeOK, Follows, WritesTo, Gpio!Level
<1> QED
  BY <1>2, <1>3, <1>4, <1>5, WriteFollows DEF Gpio!Next

\* The greatest index is the one LastWritten chooses.
LEMMA GpioPromises == GpioInv => Gpio!TypeOK /\ OutputReadsBack
<1> SUFFICES ASSUME GpioInv, NEW p \in outputs \ gpio_injected
             PROVE  Gpio!Read(p) = Gpio!LastWritten(p)
  BY DEF GpioInv, OutputReadsBack, Gpio!OutputReadsBack
<1>1. p \in Pins /\ Follows(p) /\ Gpio!Read(p) = Gpio!Level(p)
  BY DEF GpioInv, Gpio!TypeOK, Gpio!Read
<1>2. gpio_written \in Seq(GpioEvents) /\ WritesTo(p) \subseteq Nat
  BY DEF GpioInv, WritesTo
<1>3. CASE WritesTo(p) = {} /\ p \notin levels
  BY <1>1, <1>3 DEF WritesTo, Gpio!LastWritten, Gpio!Level
<1>4. ASSUME NEW k \in WritesTo(p), \A j \in WritesTo(p) : j <= k,
             gpio_written[k].level = Gpio!Level(p)
      PROVE  Gpio!Read(p) = Gpio!LastWritten(p)
  <2> DEFINE last == CHOOSE m \in WritesTo(p) : \A j \in WritesTo(p) : j <= m
  <2>1. last \in WritesTo(p) /\ \A j \in WritesTo(p) : j <= last
    BY <1>4
  <2>2. last = k
    BY <1>2, <1>4, <2>1
  <2>3. Gpio!LastWritten(p) = gpio_written[last].level
    BY <1>4 DEF Gpio!LastWritten, WritesTo
  <2> QED
    BY <1>1, <1>4, <2>2, <2>3
<1> QED
  BY <1>1, <1>3, <1>4 DEF Follows
-----------------------------------------------------------------------------
(***************************************************************************)
(* The in-memory trace backend.  The array holds the characters that       *)
(* reached it and fitted, then a NUL; no character is a NUL, so the first  *)
(* NUL is that one and nothing behind it is read.                          *)
(***************************************************************************)
Chars == 1 .. MaxChars
BufSlots == 0 .. BufSize - 1

Held ==
    /\ s_len = Trace!Smaller(Len(passed), BufSize - 1)
    /\ \A k \in 1 .. s_len : s_buf[k - 1] = passed[k]
    /\ s_buf[s_len] = 0

TraceInv ==
    /\ s_buf \in [BufSlots -> 0 .. MaxChars] /\ s_len \in BufSlots
    /\ printed \in 0 .. MaxChars /\ passed \in Seq(Chars)
    /\ Held

LEMMA TraceSizes ==
    /\ BufSize \in Nat /\ BufSize > 0 /\ MaxChars \in Nat /\ MaxRun \in Nat
    /\ PrintfSize \in Nat /\ PrintfSize > 0 /\ 0 \in BufSlots
  BY PeripheralsAssumption, UartAssumption DEF BufSlots

LEMMA InitTrace == Trace!Init => TraceInv
<1> SUFFICES ASSUME Trace!Init PROVE TraceInv
  OBVIOUS
<1>1. passed \in Seq(Chars) /\ Len(passed) = 0
  BY DEF Trace!Init
<1> QED
  BY <1>1, TraceSizes DEF Trace!Init, TraceInv, Held, Trace!Smaller, BufSlots

\* How far ceedless_trace_backend_write advances the end of the string.
LEMMA KeptIs ==
    ASSUME TraceInv, NEW n \in Nat
    PROVE  /\ Trace!Kept(n) \in 0 .. n
           /\ s_len + Trace!Kept(n) = Trace!Smaller(Len(passed) + n, BufSize - 1)
           /\ Trace!Kept(n) = 0 => n = 0 \/ s_len >= BufSize - 1
<1>1. /\ BufSize \in Nat /\ BufSize > 0 /\ s_len \in Nat /\ s_len <= BufSize - 1
      /\ Len(passed) \in Nat /\ s_len = Trace!Smaller(Len(passed), BufSize - 1)
  BY TraceSizes DEF TraceInv, BufSlots, Held
<1> DEFINE p == Len(passed)
<1>2. s_len = IF p < BufSize - 1 THEN p ELSE BufSize - 1
  BY <1>1 DEF Trace!Smaller
<1>3. Trace!Smaller(p + n, BufSize - 1) = IF p + n < BufSize - 1 THEN p + n ELSE BufSize - 1
  BY DEF Trace!Smaller
<1> HIDE DEF p
<1>4. p \in Nat
  BY <1>1 DEF p
<1>5. CASE s_len + n < BufSize
  <2>1. Trace!Kept(n) = n
    BY <1>5 DEF Trace!Kept
  <2> QED
    BY <1>1, <1>2, <1>3, <1>4, <1>5, <2>1 DEF p
<1>6. CASE ~(s_len + n < BufSize)
  <2>1. Trace!Kept(n) = BufSize - 1 - s_len
    BY <1>1, <1>6 DEF Trace!Kept
  <2>2. BufSize - 1 - s_len \in 0 .. n /\ s_len + (BufSize - 1 - s_len) = BufSize - 1
    BY <1>1, <1>6
  <2>3. Trace!Smaller(p + n, BufSize - 1) = BufSize - 1
    BY <1>1, <1>2, <1>3, <1>4, <1>6
  <2>4. BufSize - 1 - s_len = 0 => s_len >= BufSize - 1
    BY <1>1
  <2> QED
    BY <2>1, <2>2, <2>3, <2>4 DEF p
<1> QED
  BY <1>5, <1>6

\* A write adds the characters that fit and moves the NUL behind them.
LEMMA CaptureHolds ==
    ASSUME TraceInv, NEW n \in Nat, printed + n <= MaxChars,
           printed' \in 0 .. MaxChars, Trace!Captured(n)
    PROVE  TraceInv'
<1> DEFINE kept == Trace!Kept(n)
           new == [k \in 1 .. n |-> printed + k]
<1>1. /\ BufSize \in Nat /\ BufSize > 0 /\ MaxChars \in Nat
      /\ s_buf \in [BufSlots -> 0 .. MaxChars] /\ s_len \in Nat /\ s_len <= BufSize - 1
      /\ printed \in Nat /\ passed \in Seq(Chars) /\ Len(passed) \in Nat
  BY TraceSizes DEF TraceInv, BufSlots
<1>2. /\ kept \in 0 .. n /\ s_len + kept = Trace!Smaller(Len(passed) + n, BufSize - 1)
      /\ kept = 0 => n = 0 \/ s_len >= BufSize - 1
  BY KeptIs
<1>3. /\ s_buf' = (IF kept = 0 /\ s_len >= BufSize - 1 THEN s_buf
                   ELSE [k \in BufSlots |->
                           IF k \in s_len .. s_len + kept - 1 THEN printed + 1 + (k - s_len)
                           ELSE IF k = s_len + kept THEN 0 ELSE s_buf[k]])
      /\ s_len' = s_len + kept /\ passed' = passed \o new
  BY DEF Trace!Captured, BufSlots
<1> HIDE DEF kept
<1>4. new \in Seq(Chars) /\ Len(new) = n /\ \A k \in 1 .. n : new[k] = printed + k
  BY <1>1 DEF Chars
<1> HIDE DEF new
<1>5. /\ passed' \in Seq(Chars) /\ Len(passed') = Len(passed) + n
      /\ \A k \in 1 .. Len(passed) : passed'[k] = passed[k]
      /\ \A k \in 1 .. n : passed'[Len(passed) + k] = printed + k
  <2>1. /\ passed \o new \in Seq(Chars) /\ Len(passed \o new) = Len(passed) + n
        /\ \A k \in 1 .. Len(passed) + n :
             (passed \o new)[k] = IF k <= Len(passed) THEN passed[k] ELSE new[k - Len(passed)]
    BY <1>1, <1>4, ConcatProperties
  <2>2. ASSUME NEW k \in 1 .. n PROVE (passed \o new)[Len(passed) + k] = printed + k
    BY <1>1, <1>4, <2>1
  <2> QED
    BY <1>1, <1>3, <2>1, <2>2
<1>6. s_len' = Trace!Smaller(Len(passed'), BufSize - 1) /\ s_len' \in BufSlots
  BY <1>1, <1>2, <1>3, <1>5 DEF Trace!Smaller, BufSlots
<1>7. Held
  BY DEF TraceInv
<1>8. CASE kept = 0 /\ s_len >= BufSize - 1
  <2>1. s_buf' = s_buf /\ s_len' = s_len /\ s_len <= Len(passed)
    BY <1>1, <1>3, <1>7, <1>8 DEF Held, Trace!Smaller
  <2>2. Held'
    BY <1>1, <1>5, <1>6, <1>7, <2>1 DEF Held
  <2> QED
    BY <1>1, <1>5, <1>6, <2>1, <2>2 DEF TraceInv
<1>9. CASE ~(kept = 0 /\ s_len >= BufSize - 1)
  <2>1. s_buf' = [k \in BufSlots |->
                    IF k \in s_len .. s_len + kept - 1 THEN printed + 1 + (k - s_len)
                    ELSE IF k = s_len + kept THEN 0 ELSE s_buf[k]]
    BY <1>3, <1>9
  <2>2. s_buf' \in [BufSlots -> 0 .. MaxChars] /\ s_buf'[s_len'] = 0
    BY <1>1, <1>2, <1>3, <1>6, <2>1 DEF BufSlots
  <2>3. ASSUME NEW k \in 1 .. s_len' PROVE s_buf'[k - 1] = passed'[k]
    <3>1. k \in Nat /\ k - 1 \in BufSlots /\ k <= s_len + kept
      BY <1>1, <1>2, <1>3, <1>6 DEF BufSlots
    <3>2. CASE k <= s_len
      <4>1. k \in 1 .. s_len /\ k \in 1 .. Len(passed)
        BY <1>1, <1>7, <3>1, <3>2 DEF Held, Trace!Smaller
      <4>2. s_buf'[k - 1] = s_buf[k - 1]
        BY <1>1, <1>2, <2>1, <3>1, <4>1
      <4> QED
        BY <1>5, <1>7, <4>1, <4>2 DEF Held
    <3>3. CASE k > s_len
      <4>1. s_len = Len(passed) /\ k - s_len \in 1 .. n
        <5>1. s_len < Trace!Smaller(Len(passed) + n, BufSize - 1)
          BY <1>1, <1>2, <3>1, <3>3
        <5> QED
          BY <1>1, <1>2, <1>7, <3>1, <3>3, <5>1 DEF Held, Trace!Smaller
      <4>2. s_buf'[k - 1] = printed + (k - s_len)
        BY <1>1, <1>2, <2>1, <3>1, <3>3
      <4>3. Len(passed) + (k - s_len) = k
        BY <1>1, <3>1, <4>1
      <4> QED
        BY <1>5, <4>1, <4>2, <4>3
    <3> QED
      BY <1>1, <3>1, <3>2, <3>3
  <2> QED
    BY <1>5, <1>6, <2>2, <2>3 DEF TraceInv, Held
<1> QED
  BY <1>8, <1>9

LEMMA TraceKept == TraceInv /\ [Trace!Next]_trace => TraceInv'
<1> SUFFICES ASSUME TraceInv PROVE [Trace!Next]_trace => TraceInv'
  OBVIOUS
<1>1. CASE Trace!Clear
  <2>1. passed' \in Seq(Chars) /\ Len(passed') = 0
    BY <1>1 DEF Trace!Clear
  <2> QED
    BY <1>1, <2>1, TraceSizes DEF Trace!Clear, TraceInv, Held, Trace!Smaller, BufSlots
<1>2. ASSUME NEW n \in 0 .. MaxRun, Trace!Write(n) \/ Trace!Printf(n)
      PROVE  TraceInv'
  <2>1. /\ n \in Nat /\ printed \in Nat /\ printed + n <= MaxChars
        /\ printed' \in 0 .. MaxChars
    BY <1>2, TraceSizes DEF Trace!Write, Trace!Printf, Trace!Printing, TraceInv
  <2>2. PICK m \in 0 .. n : Trace!Captured(m)
    <3>1. CASE Trace!Write(n)
      BY <2>1, <3>1 DEF Trace!Write
    <3>2. CASE Trace!Printf(n)
      <4>1. Trace!Smaller(n, PrintfSize - 1) \in 0 .. n
        BY <2>1, TraceSizes DEF Trace!Smaller
      <4> QED
        BY <3>2, <4>1 DEF Trace!Printf
    <3> QED
      BY <1>2, <3>1, <3>2
  <2>3. m \in Nat /\ printed + m <= MaxChars
    BY <2>1, TraceSizes
  <2> QED
    BY <2>1, <2>2, <2>3, CaptureHolds
<1>3. CASE UNCHANGED trace
  BY <1>3 DEF trace, TraceInv, Held
<1> QED
  BY <1>1, <1>2, <1>3 DEF Trace!Next

LEMMA TracePromises == TraceInv => Trace!TypeOK /\ TextIsTrace
<1> SUFFICES ASSUME TraceInv PROVE Trace!TypeOK /\ Trace!TextIsTrace
  BY DEF TextIsTrace
<1> DEFINE end == CHOOSE k \in BufSlots : s_buf[k] = 0 /\ \A m \in 0 .. k - 1 : s_buf[m] # 0
           n == Trace!Smaller(Len(passed), BufSize - 1)
<1>1. /\ BufSize \in Nat /\ BufSize > 0 /\ s_len \in Nat /\ s_len \in BufSlots
      /\ passed \in Seq(Chars) /\ s_len = n /\ s_len <= Len(passed)
      /\ \A k \in 1 .. s_len : s_buf[k - 1] = passed[k]
      /\ s_buf[s_len] = 0
  BY TraceSizes DEF TraceInv, Held, BufSlots, Trace!Smaller
<1>2. \A m \in 0 .. s_len - 1 : s_buf[m] # 0
  <2> SUFFICES ASSUME NEW m \in 0 .. s_len - 1 PROVE s_buf[m] # 0
    OBVIOUS
  <2>1. m + 1 \in 1 .. s_len /\ (m + 1) - 1 = m /\ m + 1 \in 1 .. Len(passed)
    BY <1>1
  <2>2. s_buf[m] = passed[m + 1] /\ passed[m + 1] \in Chars
    BY <1>1, <2>1
  <2> QED
    BY <2>2 DEF Chars
<1>3. end = s_len
  <2>1. end \in BufSlots /\ s_buf[end] = 0 /\ \A m \in 0 .. end - 1 : s_buf[m] # 0
    BY <1>1, <1>2
  <2> HIDE DEF end
  <2> QED
    BY <1>1, <1>2, <2>1 DEF BufSlots
<1>4. Trace!Text = [k \in 1 .. s_len |-> s_buf[k - 1]]
  BY <1>3 DEF Trace!Text, BufSlots
<1> HIDE DEF n
<1>5. SubSeq(passed, 1, n) = [k \in 1 .. s_len |-> s_buf[k - 1]]
  <2>1. SubSeq(passed, 1, n) = [k \in 1 .. s_len |-> passed[k]]
    BY <1>1
  <2> QED
    BY <1>1, <2>1
<1>6. Trace!TypeOK
  BY <1>1 DEF TraceInv, Held, Trace!TypeOK, BufSlots, Chars
<1> QED
  BY <1>4, <1>5, <1>6 DEF Trace!TextIsTrace, n
-----------------------------------------------------------------------------
(***************************************************************************)
(* The backends that pass the trace on.  Whatever a backend does with the  *)
(* write in progress, it takes a run of bytes off its front and shows the  *)
(* beginning of that run.                                                  *)
(***************************************************************************)
Below(a, b) == a # 0 /\ b # 0 => a < b

\* Leaving the NULs out, the bytes of one sequence and then the other rise.
Rising(s, t) ==
    /\ \A j, k \in 1 .. Len(s) : j < k => Below(s[j], s[k])
    /\ \A j, k \in 1 .. Len(t) : j < k => Below(t[j], t[k])
    /\ \A j \in 1 .. Len(s), k \in 1 .. Len(t) : Below(s[j], t[k])

AtMost(s, n) == \A k \in 1 .. Len(s) : s[k] <= n

\* The condition under which no byte goes missing.
Faithful ==
    \/ backend \in Backends!Whole \cup {"uart"} \/ (backend = "itm" /\ ~lost)
    \/ backend = "semihost" /\ \A k \in DOMAIN traced : traced[k] # 0

BackendsInv ==
    /\ todo \in Seq(Cells) /\ shown \in Seq(Cells) /\ traced \in Seq(Cells)
    /\ waiting => backend = "itm" /\ todo # << >>
    /\ Faithful => shown \o todo = traced
    /\ Rising(shown, todo) /\ AtMost(shown, Len(traced)) /\ AtMost(todo, Len(traced))

LEMMA InitBackends == Backends!Init => BackendsInv
<1> SUFFICES ASSUME Backends!Init PROVE BackendsInv
  OBVIOUS
<1>1. /\ todo = << >> /\ shown = << >> /\ traced = << >> /\ ~waiting
      /\ << >> \in Seq(Cells) /\ Len(<< >>) = 0 /\ << >> \o << >> = << >>
  BY DEF Backends!Init
<1> QED
  BY <1>1 DEF BackendsInv, Rising, AtMost

\* Of the m bytes taken off the front of t the first l join s.
LEMMA TakingRises ==
    ASSUME NEW S, NEW s \in Seq(S), NEW t \in Seq(S), NEW m \in 0 .. Len(t),
           NEW l \in 0 .. m, NEW n \in Nat, Rising(s, t), AtMost(s, n), AtMost(t, n)
    PROVE  /\ s \o SubSeq(t, 1, l) \in Seq(S) /\ SubSeq(t, m + 1, Len(t)) \in Seq(S)
           /\ Rising(s \o SubSeq(t, 1, l), SubSeq(t, m + 1, Len(t)))
           /\ AtMost(s \o SubSeq(t, 1, l), n) /\ AtMost(SubSeq(t, m + 1, Len(t)), n)
<1> DEFINE front == SubSeq(t, 1, l)
           rest == SubSeq(t, m + 1, Len(t))
           all == s \o front
<1>1. /\ Len(s) \in Nat /\ Len(t) \in Nat /\ m \in Nat /\ l \in Nat /\ l <= m /\ m <= Len(t)
  OBVIOUS
<1>2. /\ front \in Seq(S) /\ Len(front) = l /\ \A k \in 1 .. l : front[k] = t[k]
  BY <1>1
<1>3. /\ rest \in Seq(S) /\ Len(rest) = Len(t) - m
      /\ \A k \in 1 .. (Len(t) - m) : rest[k] = t[m + k]
  BY <1>1
<1> HIDE DEF front, rest
<1>4. /\ all \in Seq(S) /\ Len(all) = Len(s) + l
      /\ \A k \in 1 .. Len(s) + l : all[k] = IF k <= Len(s) THEN s[k] ELSE t[k - Len(s)]
  <2>1. /\ all \in Seq(S) /\ Len(all) = Len(s) + Len(front)
        /\ \A k \in 1 .. Len(s) + Len(front) :
             all[k] = IF k <= Len(s) THEN s[k] ELSE front[k - Len(s)]
    BY <1>2, ConcatProperties
  <2> QED
    BY <1>1, <1>2, <2>1
<1> HIDE DEF all
<1>5. ASSUME NEW j \in 1 .. Len(all), NEW k \in 1 .. Len(all), j < k
      PROVE  Below(all[j], all[k])
  <2>1. CASE k <= Len(s)
    BY <1>1, <1>4, <1>5, <2>1 DEF Rising
  <2>2. CASE j <= Len(s) /\ ~(k <= Len(s))
    <3>1. k - Len(s) \in 1 .. Len(t) /\ j \in 1 .. Len(s)
      BY <1>1, <1>4, <2>2
    <3> QED
      BY <1>4, <2>2, <3>1 DEF Rising
  <2>3. CASE ~(j <= Len(s))
    <3>1. /\ k - Len(s) \in 1 .. Len(t) /\ j - Len(s) \in 1 .. Len(t)
          /\ j - Len(s) < k - Len(s) /\ ~(k <= Len(s))
      BY <1>1, <1>4, <1>5, <2>3
    <3> QED
      BY <1>4, <2>3, <3>1 DEF Rising
  <2> QED
    BY <2>1, <2>2, <2>3
<1>6. ASSUME NEW j \in 1 .. Len(rest), NEW k \in 1 .. Len(rest), j < k
      PROVE  Below(rest[j], rest[k])
  <2>1. m + j \in 1 .. Len(t) /\ m + k \in 1 .. Len(t) /\ m + j < m + k
    BY <1>1, <1>3, <1>6
  <2> QED
    BY <1>3, <2>1 DEF Rising
<1>7. ASSUME NEW j \in 1 .. Len(all), NEW k \in 1 .. Len(rest)
      PROVE  Below(all[j], rest[k])
  <2>1. m + k \in 1 .. Len(t) /\ rest[k] = t[m + k]
    BY <1>1, <1>3
  <2>2. CASE j <= Len(s)
    BY <1>1, <1>4, <2>1, <2>2 DEF Rising
  <2>3. CASE ~(j <= Len(s))
    <3>1. j - Len(s) \in 1 .. Len(t) /\ j - Len(s) < m + k
      BY <1>1, <1>3, <1>4, <2>3
    <3> QED
      BY <1>4, <2>1, <2>3, <3>1 DEF Rising
  <2> QED
    BY <2>2, <2>3
<1>8. AtMost(all, n)
  <2> SUFFICES ASSUME NEW k \in 1 .. Len(all) PROVE all[k] <= n
    BY DEF AtMost
  <2>1. CASE k <= Len(s)
    BY <1>1, <1>4, <2>1 DEF AtMost
  <2>2. CASE ~(k <= Len(s))
    <3>1. k - Len(s) \in 1 .. Len(t)
      BY <1>1, <1>4, <2>2
    <3> QED
      BY <1>4, <2>2, <3>1 DEF AtMost
  <2> QED
    BY <2>1, <2>2
<1>9. AtMost(rest, n)
  <2> SUFFICES ASSUME NEW k \in 1 .. Len(rest) PROVE rest[k] <= n
    BY DEF AtMost
  <2>1. m + k \in 1 .. Len(t) /\ rest[k] = t[m + k]
    BY <1>1, <1>3
  <2> QED
    BY <2>1 DEF AtMost
<1>10. Rising(all, rest)
  BY <1>5, <1>6, <1>7 DEF Rising
<1> QED
  BY <1>3, <1>4, <1>8, <1>9, <1>10 DEF all, front, rest

\* All that is taken joins: the two sequences are the same text as before.
LEMMA MovingKeeps ==
    ASSUME NEW s \in Seq(Cells), NEW t \in Seq(Cells), NEW m \in 0 .. Len(t)
    PROVE  (s \o SubSeq(t, 1, m)) \o SubSeq(t, m + 1, Len(t)) = s \o t
<1> DEFINE front == SubSeq(t, 1, m)
           rest == SubSeq(t, m + 1, Len(t))
<1>1. front \in Seq(Cells) /\ rest \in Seq(Cells)
  BY SplitAt
<1>2. front \o rest = t
  BY SplitAt
<1> HIDE DEF front, rest
<1>3. (s \o front) \o rest = s \o (front \o rest)
  BY <1>1, ConcatAssociative
<1> QED
  BY <1>2, <1>3 DEF front, rest

\* A backend takes bytes and shows some of them; unless all that it took, then
\* one of those behaviours that lose bytes.
LEMMA TakingKeeps ==
    ASSUME BackendsInv, NEW m \in 0 .. Len(todo), NEW l \in 0 .. m,
           shown' = shown \o SubSeq(todo, 1, l), todo' = SubSeq(todo, m + 1, Len(todo)),
           traced' = traced, backend' = backend, lost => lost', ~waiting',
           Faithful /\ Faithful' => l = m
    PROVE  BackendsInv'
<1>1. /\ todo \in Seq(Cells) /\ shown \in Seq(Cells) /\ traced \in Seq(Cells)
      /\ Len(traced) \in Nat /\ Rising(shown, todo)
      /\ AtMost(shown, Len(traced)) /\ AtMost(todo, Len(traced))
  BY DEF BackendsInv
<1>2. /\ shown \o SubSeq(todo, 1, l) \in Seq(Cells)
      /\ SubSeq(todo, m + 1, Len(todo)) \in Seq(Cells)
      /\ Rising(shown \o SubSeq(todo, 1, l), SubSeq(todo, m + 1, Len(todo)))
      /\ AtMost(shown \o SubSeq(todo, 1, l), Len(traced))
      /\ AtMost(SubSeq(todo, m + 1, Len(todo)), Len(traced))
  BY <1>1, TakingRises
<1>3. ASSUME Faithful' PROVE shown' \o todo' = traced'
  <2>1. Faithful
    BY <1>3 DEF Faithful
  <2>2. shown \o todo = traced /\ l = m
    BY <1>3, <2>1 DEF BackendsInv
  <2>3. (shown \o SubSeq(todo, 1, m)) \o SubSeq(todo, m + 1, Len(todo)) = shown \o todo
    BY <1>1, MovingKeeps
  <2> QED
    BY <2>2, <2>3
<1> QED
  BY <1>2, <1>3 DEF BackendsInv, Rising, AtMost

\* A write puts the next numbers, and NULs, behind all that was written.
LEMMA WritingKeeps ==
    ASSUME BackendsInv, NEW n \in 0 .. MaxBytes, NEW nuls \in SUBSET (1 .. n),
           Backends!Write(n, nuls)
    PROVE  BackendsInv'
<1> DEFINE new == [k \in 1 .. n |-> IF k \in nuls THEN 0 ELSE Len(traced) + k]
           w == Len(traced)
<1>1. /\ todo = << >> /\ todo' = new /\ traced' = traced \o todo'
      /\ shown' = shown /\ waiting' = waiting /\ backend' = backend /\ lost' = lost
      /\ w + n <= MaxBytes
  BY DEF Backends!Write
<1>2. /\ shown \in Seq(Cells) /\ traced \in Seq(Cells) /\ w \in Nat /\ n \in Nat
      /\ Len(shown) \in Nat /\ MaxBytes \in Nat /\ ~waiting
  BY <1>1, UartAssumption DEF BackendsInv
<1>3. /\ new \in Seq(Cells) /\ Len(new) = n
      /\ \A k \in 1 .. n : new[k] = 0 \/ new[k] = w + k
  BY <1>1, <1>2 DEF Cells
<1> HIDE DEF new
<1>4. /\ traced' \in Seq(Cells) /\ Len(traced') = w + n
      /\ \A k \in 1 .. w : traced'[k] = traced[k]
  <2>1. /\ traced \o new \in Seq(Cells) /\ Len(traced \o new) = Len(traced) + Len(new)
        /\ \A k \in 1 .. Len(traced) + Len(new) :
             (traced \o new)[k] = IF k <= Len(traced) THEN traced[k]
                                  ELSE new[k - Len(traced)]
    BY <1>2, <1>3, ConcatProperties
  <2> QED
    BY <1>1, <1>2, <1>3, <2>1
<1> HIDE DEF w
<1>5. AtMost(shown, w) /\ \A k \in 1 .. Len(shown) : shown[k] \in Nat
  BY <1>2 DEF BackendsInv, w, Cells
<1>6. Rising(shown, new)
  <2>1. \A j, k \in 1 .. Len(shown) : j < k => Below(shown[j], shown[k])
    BY DEF BackendsInv, Rising
  <2>2. \A j, k \in 1 .. n : j < k => Below(new[j], new[k])
    BY <1>2, <1>3 DEF Below
  <2>3. \A j \in 1 .. Len(shown), k \in 1 .. n : Below(shown[j], new[k])
    <3> SUFFICES ASSUME NEW j \in 1 .. Len(shown), NEW k \in 1 .. n
                 PROVE  Below(shown[j], new[k])
      OBVIOUS
    <3>1. shown[j] \in Nat /\ shown[j] <= w /\ (new[k] = 0 \/ new[k] = w + k)
      BY <1>3, <1>5 DEF AtMost
    <3> QED
      BY <1>2, <3>1 DEF Below
  <2> QED
    BY <1>3, <2>1, <2>2, <2>3 DEF Rising
<1>7. AtMost(shown, w + n) /\ AtMost(new, w + n)
  <2>1. \A k \in 1 .. Len(shown) : shown[k] \in Nat /\ shown[k] <= w
    BY <1>5 DEF AtMost
  <2>2. \A k \in 1 .. Len(shown) : shown[k] <= w + n
    BY <1>2, <2>1
  <2>3. \A k \in 1 .. n : new[k] <= w + n
    BY <1>2, <1>3
  <2> QED
    BY <1>3, <2>2, <2>3 DEF AtMost
<1>8. ASSUME Faithful' PROVE shown \o new = traced \o new
  <2>1. Faithful
    <3>1. \A k \in DOMAIN traced : k \in DOMAIN traced' /\ traced'[k] = traced[k]
      BY <1>2, <1>4 DEF w
    <3> QED
      BY <1>1, <1>8, <3>1 DEF Faithful
  <2>2. shown \o << >> = traced
    BY <1>1, <2>1 DEF BackendsInv
  <2>3. shown \o << >> = shown
    BY <1>2, ConcatEmptySeq
  <2> QED
    BY <2>2, <2>3
<1> QED
  BY <1>1, <1>2, <1>3, <1>4, <1>6, <1>7, <1>8 DEF BackendsInv

LEMMA LeastIndex ==
    ASSUME NEW T \in SUBSET Nat, T # {}
    PROVE  \E m \in T : \A b \in T : m <= b
<1>1. PICK m \in T : \A b \in T : ~(<<b, m>> \in OpToRel(<, Nat))
  BY WFMin, NatLessThanWellFounded
<1>2. \A b \in T : ~(b < m)
  BY <1>1 DEF OpToRel
<1> QED
  BY <1>2

\* Semihosting prints what comes before the first NUL of a chunk, all of it when
\* there is none.
LEMMA PrintedIs ==
    ASSUME NEW s \in Seq(Cells), NEW m \in 0 .. Len(s)
    PROVE  \E l \in 0 .. m :
             /\ Backends!Printed(SubSeq(s, 1, m)) = SubSeq(s, 1, l)
             /\ (\A k \in 1 .. m : s[k] # 0) => l = m
<1> DEFINE chunk == SubSeq(s, 1, m)
           end == {k \in DOMAIN chunk : \A j \in 1 .. k : chunk[j] # 0}
           nuls == {k \in 1 .. m : s[k] = 0}
<1>1. m \in Nat /\ Len(s) \in Nat /\ m <= Len(s)
  OBVIOUS
<1>2. chunk \in Seq(Cells) /\ DOMAIN chunk = 1 .. m /\ \A k \in 1 .. m : chunk[k] = s[k]
  BY <1>1
<1>3. Backends!Printed(chunk) = [k \in end |-> chunk[k]]
  BY DEF Backends!Printed
<1> HIDE DEF chunk
<1>4. ASSUME NEW l \in 0 .. m, end = 1 .. l
      PROVE  Backends!Printed(chunk) = SubSeq(s, 1, l)
  <2>1. SubSeq(s, 1, l) = [k \in 1 .. l |-> s[k]]
    BY <1>1
  <2>2. \A k \in 1 .. l : chunk[k] = s[k]
    BY <1>1, <1>2
  <2> HIDE DEF end
  <2> QED
    BY <1>3, <1>4, <2>1, <2>2
<1>5. CASE nuls = {}
  <2>1. end = 1 .. m
    BY <1>1, <1>2, <1>5
  <2>2. Backends!Printed(chunk) = SubSeq(s, 1, m)
    BY <1>1, <1>4, <2>1
  <2> QED
    BY <1>1, <2>2 DEF chunk
<1>6. CASE nuls # {}
  <2>1. nuls \in SUBSET Nat
    BY <1>1
  <2>2. PICK z \in nuls : \A b \in nuls : z <= b
    <3> HIDE DEF nuls
    <3> QED
      BY <1>6, <2>1, LeastIndex
  <2>3. z \in 1 .. m /\ s[z] = 0 /\ z - 1 \in 0 .. m
    BY <1>1, <2>2
  <2>4. end = 1 .. z - 1
    <3>1. ASSUME NEW k \in 1 .. z - 1 PROVE k \in end
      <4>1. k \in 1 .. m /\ \A j \in 1 .. k : j \in 1 .. m /\ j \notin nuls
        BY <1>1, <2>2, <2>3
      <4> QED
        BY <1>2, <4>1
    <3>2. ASSUME NEW k \in end PROVE k \in 1 .. z - 1
      BY <1>1, <1>2, <2>3
    <3> HIDE DEF end
    <3> QED
      BY <3>1, <3>2
  <2>5. Backends!Printed(chunk) = SubSeq(s, 1, z - 1)
    BY <1>4, <2>3, <2>4
  <2>6. ~(\A k \in 1 .. m : s[k] # 0)
    BY <2>3
  <2> QED
    BY <2>3, <2>5, <2>6 DEF chunk
<1> QED
  BY <1>5, <1>6

LEMMA BackendsKept == BackendsInv /\ [Backends!Next]_backends => BackendsInv'
<1> SUFFICES ASSUME BackendsInv PROVE [Backends!Next]_backends => BackendsInv'
  OBVIOUS
<1>1. /\ todo \in Seq(Cells) /\ shown \in Seq(Cells) /\ traced \in Seq(Cells)
      /\ waiting => backend = "itm" /\ todo # << >>
  BY DEF BackendsInv
<1>2. /\ Len(todo) \in Nat /\ SubSeq(todo, 1, Len(todo)) = todo
      /\ SubSeq(todo, Len(todo) + 1, Len(todo)) = << >>
  BY <1>1
<1>3. ASSUME todo # << >>
      PROVE  /\ 0 \in 0 .. 1 /\ 1 \in 0 .. Len(todo)
             /\ SubSeq(todo, 1 + 1, Len(todo)) = Tail(todo)
             /\ shown \o SubSeq(todo, 1, 1) = Append(shown, Head(todo))
             /\ shown \o SubSeq(todo, 1, 0) = shown
  <2>1. Len(todo) > 0 /\ SubSeq(todo, 1, 0) = << >>
    BY <1>1, <1>3
  <2>4. SubSeq(todo, 1, 1) = << Head(todo) >>
    <3> DEFINE one == SubSeq(todo, 1, 1)
               two == << Head(todo) >>
    <3>1. one \in Seq(Cells) /\ Len(one) = 1 /\ one[1] = Head(todo)
      BY <1>1, <2>1
    <3>2. two \in Seq(Cells) /\ Len(two) = 1 /\ two[1] = Head(todo)
      BY <1>1, <2>1
    <3> HIDE DEF one, two
    <3>3. \A i \in 1 .. Len(one) : one[i] = two[i]
      BY <3>1, <3>2
    <3>4. one = two
      BY <3>1, <3>2, <3>3, SeqEqual
    <3> QED
      BY <3>4 DEF one, two
  <2>2. Append(shown, Head(todo)) = shown \o << Head(todo) >>
    BY <1>1, <1>3, AppendIsConcat
  <2>3. shown \o << >> = shown
    BY <1>1, ConcatEmptySeq
  <2> QED
    BY <1>1, <1>3, <2>1, <2>2, <2>3, <2>4
<1>4. CASE Backends!PutWhole
  <2>1. /\ shown' = shown \o SubSeq(todo, 1, Len(todo))
        /\ todo' = SubSeq(todo, Len(todo) + 1, Len(todo))
        /\ traced' = traced /\ backend' = backend /\ lost' = lost /\ ~waiting'
    BY <1>1, <1>2, <1>4 DEF Backends!PutWhole, Backends!Whole
  <2> QED
    BY <1>2, <2>1, TakingKeeps
<1>5. CASE Backends!PutUart
  <2>1. /\ shown' = shown \o SubSeq(todo, 1, 1) /\ todo' = SubSeq(todo, 1 + 1, Len(todo))
        /\ traced' = traced /\ backend' = backend /\ lost' = lost /\ ~waiting'
        /\ 1 \in 0 .. Len(todo) /\ 1 \in 0 .. 1
    BY <1>1, <1>3, <1>5 DEF Backends!PutUart
  <2> QED
    BY <2>1, TakingKeeps
<1>6. CASE Backends!ItmEnters
  <2>1. CASE enabled
    BY <1>1, <1>6, <2>1 DEF Backends!ItmEnters, BackendsInv, Rising, AtMost, Faithful
  <2>2. CASE ~enabled
    <3>1. /\ shown' = shown \o SubSeq(todo, 1, 0) /\ todo' = SubSeq(todo, 1 + 1, Len(todo))
          /\ traced' = traced /\ backend' = backend /\ lost' = TRUE /\ ~waiting'
          /\ 1 \in 0 .. Len(todo) /\ 0 \in 0 .. 1
      BY <1>1, <1>3, <1>6, <2>2 DEF Backends!ItmEnters
    <3>2. ~Faithful'
      BY <1>6, <3>1 DEF Backends!ItmEnters, Faithful, Backends!Whole
    <3> QED
      BY <3>1, <3>2, TakingKeeps
  <2> QED
    BY <2>1, <2>2
<1>7. CASE Backends!ItmStores
  <2>1. /\ todo' = SubSeq(todo, 1 + 1, Len(todo)) /\ backend = "itm"
        /\ traced' = traced /\ backend' = backend /\ ~waiting'
        /\ 1 \in 0 .. Len(todo) /\ 0 \in 0 .. 1 /\ 1 \in 0 .. 1
    BY <1>1, <1>3, <1>7 DEF Backends!ItmStores
  <2>2. CASE enabled
    <3>1. shown' = shown \o SubSeq(todo, 1, 1) /\ lost' = lost
      BY <1>1, <1>3, <1>7, <2>2 DEF Backends!ItmStores
    <3> QED
      BY <2>1, <3>1, TakingKeeps
  <2>3. CASE ~enabled
    <3>1. shown' = shown \o SubSeq(todo, 1, 0) /\ lost' = TRUE
      BY <1>1, <1>3, <1>7, <2>3 DEF Backends!ItmStores
    <3>2. ~Faithful'
      BY <2>1, <3>1 DEF Faithful, Backends!Whole
    <3> QED
      BY <2>1, <3>1, <3>2, TakingKeeps
  <2> QED
    BY <2>2, <2>3
<1>8. CASE Backends!PutChunk
  <2>1. Backends!Taken \in 0 .. Len(todo)
    BY <1>1, PeripheralsAssumption DEF Backends!Taken
  <2>2. PICK l \in 0 .. Backends!Taken :
          /\ Backends!Printed(SubSeq(todo, 1, Backends!Taken)) = SubSeq(todo, 1, l)
          /\ (\A k \in 1 .. Backends!Taken : todo[k] # 0) => l = Backends!Taken
    BY <1>1, <2>1, PrintedIs
  <2>3. /\ shown' = shown \o SubSeq(todo, 1, l)
        /\ todo' = SubSeq(todo, Backends!Taken + 1, Len(todo))
        /\ traced' = traced /\ backend' = backend /\ lost' = lost /\ ~waiting'
        /\ backend = "semihost"
    BY <1>1, <1>8, <2>2 DEF Backends!PutChunk
  <2>4. ASSUME Faithful PROVE l = Backends!Taken
    <3>1. shown \o todo = traced /\ \A k \in DOMAIN traced : traced[k] # 0
      BY <2>3, <2>4 DEF BackendsInv, Faithful, Backends!Whole
    <3>2. ASSUME NEW k \in 1 .. Backends!Taken PROVE todo[k] # 0
      <4>1. Len(shown) + k \in DOMAIN traced /\ traced[Len(shown) + k] = todo[k]
        <5>1. /\ Len(shown \o todo) = Len(shown) + Len(todo)
              /\ \A i \in 1 .. Len(shown) + Len(todo) :
                   (shown \o todo)[i] = IF i <= Len(shown) THEN shown[i]
                                        ELSE todo[i - Len(shown)]
          BY <1>1, ConcatProperties
        <5>2. Len(shown) + k \in 1 .. Len(shown) + Len(todo) /\ ~(Len(shown) + k <= Len(shown))
              /\ (Len(shown) + k) - Len(shown) = k
          BY <1>1, <1>2, <2>1
        <5> QED
          BY <1>1, <3>1, <5>1, <5>2
      <4> QED
        BY <3>1, <4>1
    <3> QED
      BY <2>2, <3>2
  <2> QED
    BY <2>1, <2>3, <2>4, TakingKeeps
<1>9. CASE Backends!Probe \/ UNCHANGED backends
  <2>1. UNCHANGED <<backend, waiting, todo, shown, traced, lost>>
    BY <1>9 DEF Backends!Probe, backends
  <2> QED
    BY <2>1 DEF BackendsInv, Rising, AtMost, Faithful
<1>10. ASSUME NEW n \in 0 .. MaxBytes, NEW nuls \in SUBSET (1 .. n), Backends!Write(n, nuls)
       PROVE  BackendsInv'
  BY <1>10, WritingKeeps
<1> QED
  BY <1>4, <1>5, <1>6, <1>7, <1>8, <1>9, <1>10 DEF Backends!Next

LEMMA BackendsPromise == BackendsInv => ShownIsWritten
<1> SUFFICES ASSUME BackendsInv PROVE Backends!ShownIsWritten
  BY DEF ShownIsWritten
<1>1. ASSUME Faithful PROVE shown \o todo = traced
  BY <1>1 DEF BackendsInv
<1>2. ASSUME NEW j \in DOMAIN shown, NEW k \in DOMAIN shown, j < k,
             0 \notin {shown[j], shown[k]}
      PROVE  shown[j] < shown[k]
  BY <1>2 DEF BackendsInv, Rising, Below
<1> QED
  BY <1>1, <1>2 DEF Backends!ShownIsWritten, Faithful
-----------------------------------------------------------------------------
(***************************************************************************)
(* The SPI slave.  Its ring is the ring of the UART; what came back and    *)
(* what is queued rise like the two sequences of a backend, the idle bytes *)
(* being the NULs.                                                         *)
(***************************************************************************)
Loadable == 0 .. MaxLoaded
SpiQueued == Contents(rx_queue, spi_head, spi_tail)

Among(b, s) == \E k \in 1 .. Len(s) : s[k] = b

Accounted ==
    /\ Rising(miso, SpiQueued) /\ AtMost(miso, loaded) /\ AtMost(SpiQueued, loaded)
    /\ \A k \in 1 .. Len(SpiQueued) : SpiQueued[k] # 0
    /\ \A b \in 1 .. loaded : Among(b, miso) \/ Among(b, SpiQueued) <=> b \notin dropped

SpiTypes ==
    /\ Spi!DeviceOK /\ cs_asserted \in BOOLEAN
    /\ tx_log \in Seq(1 .. MaxClocks) /\ Len(tx_log) <= Size
    /\ rx_queue \in Arrays(Loadable) /\ spi_head \in Slots /\ spi_tail \in Slots
    /\ loaded \in 0 .. MaxLoaded /\ clocks \in 0 .. MaxClocks
    /\ miso \in Seq(Loadable) /\ dropped \subseteq 1 .. loaded

SpiInv == SpiTypes /\ Accounted

LEMMA SpiSizes ==
    /\ Size \in Nat /\ Size > 1 /\ MaxLoaded \in Nat /\ MaxClocks \in Nat /\ MaxRun \in Nat
    /\ RegCount \in Nat /\ 0 \in Slots /\ 0 \in Loadable
  BY RingAssumption, UartAssumption, BankAssumption, PeripheralsAssumption DEF Slots, Loadable

\* The ring of the SPI slave is the ring of the UART.
LEMMA SameRing ==
    /\ Spi!Slots = Slots /\ Spi!Idle = 0
    /\ \A h, t : Spi!Free(h, t) = Free(h, t)
    /\ \A h, n : Spi!Forward(h, n) = Forward(h, n)
    /\ \A buf, t, bytes : Spi!Stored(buf, t, bytes) = Stored(buf, t, bytes)
    /\ Spi!Queued = SpiQueued
<1>1. Spi!Slots = Slots /\ Spi!Idle = 0
  BY DEF Spi!Slots, Slots, Spi!Idle
<1>2. \A h, t : Spi!Free(h, t) = Free(h, t) /\ Spi!Used(h, t) = Used(h, t)
  BY DEF Spi!Free, Free, Spi!Used, Used
<1>3. \A h, n : Spi!Forward(h, n) = Forward(h, n)
  BY DEF Spi!Forward, Forward
<1>4. \A buf, t, bytes : Spi!Stored(buf, t, bytes) = Stored(buf, t, bytes)
  BY DEF Spi!Stored, Stored, Spi!Slots, Slots
<1>5. Spi!Queued = SpiQueued
  BY DEF Spi!Queued, SpiQueued, Spi!Contents, Contents, Spi!Used, Used, Spi!Forward, Forward
<1> QED
  BY <1>1, <1>2, <1>3, <1>4, <1>5

LEMMA QueuedIs ==
    ASSUME SpiTypes
    PROVE  /\ SpiQueued \in Seq(Loadable)
           /\ Len(SpiQueued) = Used(spi_head, spi_tail)
           /\ Len(SpiQueued) \in 0 .. Size - 1
<1>1. rx_queue \in Arrays(Loadable) /\ spi_head \in Slots /\ spi_tail \in Slots
  BY DEF SpiTypes
<1>2. SpiQueued \in Seq(Loadable) /\ Len(SpiQueued) = Used(spi_head, spi_tail)
  BY <1>1, ContentsIs DEF SpiQueued
<1> QED
  BY <1>1, <1>2, UsedIs

LEMMA AmongBoth ==
    ASSUME NEW S, NEW s \in Seq(S), NEW t \in Seq(S), NEW b
    PROVE  Among(b, s \o t) <=> Among(b, s) \/ Among(b, t)
<1> DEFINE all == s \o t
<1>1. /\ Len(s) \in Nat /\ Len(t) \in Nat /\ Len(all) = Len(s) + Len(t)
      /\ \A k \in 1 .. Len(s) + Len(t) : all[k] = IF k <= Len(s) THEN s[k] ELSE t[k - Len(s)]
  BY ConcatProperties
<1> HIDE DEF all
<1>2. ASSUME Among(b, all) PROVE Among(b, s) \/ Among(b, t)
  <2>1. PICK k \in 1 .. Len(s) + Len(t) : all[k] = b
    BY <1>1, <1>2 DEF Among
  <2>2. CASE k <= Len(s)
    BY <1>1, <2>1, <2>2 DEF Among
  <2>3. CASE ~(k <= Len(s))
    <3>1. k - Len(s) \in 1 .. Len(t)
      BY <1>1, <2>3
    <3> QED
      BY <1>1, <2>1, <2>3, <3>1 DEF Among
  <2> QED
    BY <2>2, <2>3
<1>3. ASSUME Among(b, s) PROVE Among(b, all)
  <2>1. PICK k \in 1 .. Len(s) : s[k] = b
    BY <1>3 DEF Among
  <2>2. k \in 1 .. Len(s) + Len(t) /\ k <= Len(s)
    BY <1>1
  <2> QED
    BY <1>1, <2>1, <2>2 DEF Among
<1>4. ASSUME Among(b, t) PROVE Among(b, all)
  <2>1. PICK k \in 1 .. Len(t) : t[k] = b
    BY <1>4 DEF Among
  <2>2. /\ Len(s) + k \in 1 .. Len(s) + Len(t) /\ ~(Len(s) + k <= Len(s))
        /\ (Len(s) + k) - Len(s) = k
    BY <1>1
  <2> QED
    BY <1>1, <2>1, <2>2 DEF Among
<1> QED
  BY <1>2, <1>3, <1>4 DEF all

\* Greater bytes at the end of the second keep two sequences rising.
LEMMA JoiningRises ==
    ASSUME NEW S \in SUBSET Nat, NEW s \in Seq(S), NEW t \in Seq(S), NEW u \in Seq(S),
           NEW n \in Nat, Rising(s, t), AtMost(s, n), AtMost(t, n),
           \A k \in 1 .. Len(u) : u[k] = n + k
    PROVE  Rising(s, t \o u) /\ AtMost(t \o u, n + Len(u))
<1> DEFINE all == t \o u
<1>1. /\ Len(s) \in Nat /\ Len(t) \in Nat /\ Len(u) \in Nat /\ Len(all) = Len(t) + Len(u)
      /\ \A k \in 1 .. Len(t) + Len(u) : all[k] = IF k <= Len(t) THEN t[k] ELSE u[k - Len(t)]
  BY ConcatProperties
<1> HIDE DEF all
<1>2. /\ \A k \in 1 .. Len(s) : s[k] \in Nat /\ s[k] <= n
      /\ \A k \in 1 .. Len(t) : t[k] \in Nat /\ t[k] <= n
  <2>1. \A k \in 1 .. Len(s) : s[k] \in S
    OBVIOUS
  <2>2. \A k \in 1 .. Len(t) : t[k] \in S
    OBVIOUS
  <2> QED
    BY <2>1, <2>2 DEF AtMost
<1>3. ASSUME NEW k \in 1 .. Len(all), ~(k <= Len(t))
      PROVE  /\ all[k] = n + (k - Len(t)) /\ k - Len(t) \in 1 .. Len(u)
  <2>1. k - Len(t) \in 1 .. Len(u)
    BY <1>1, <1>3
  <2> QED
    BY <1>1, <1>3, <2>1
<1>4. ASSUME NEW j \in 1 .. Len(all), NEW k \in 1 .. Len(all), j < k
      PROVE  Below(all[j], all[k])
  <2>1. CASE k <= Len(t)
    BY <1>1, <1>4, <2>1 DEF Rising
  <2>2. CASE j <= Len(t) /\ ~(k <= Len(t))
    <3>1. all[j] \in Nat /\ all[j] <= n
      BY <1>1, <1>2, <2>2
    <3>2. all[k] = n + (k - Len(t)) /\ k - Len(t) \in Nat /\ k - Len(t) > 0
      BY <1>1, <1>3, <2>2
    <3> QED
      BY <3>1, <3>2 DEF Below
  <2>3. CASE ~(j <= Len(t))
    <3>1. /\ ~(k <= Len(t)) /\ j - Len(t) < k - Len(t)
          /\ j - Len(t) \in Nat /\ k - Len(t) \in Nat
      BY <1>1, <1>4, <2>3
    <3>2. all[j] = n + (j - Len(t)) /\ all[k] = n + (k - Len(t))
      BY <1>3, <2>3, <3>1
    <3> QED
      BY <3>1, <3>2 DEF Below
  <2> QED
    BY <2>1, <2>2, <2>3
<1>5. ASSUME NEW j \in 1 .. Len(s), NEW k \in 1 .. Len(all)
      PROVE  Below(s[j], all[k])
  <2>1. CASE k <= Len(t)
    BY <1>1, <2>1 DEF Rising
  <2>2. CASE ~(k <= Len(t))
    <3>1. all[k] = n + (k - Len(t)) /\ k - Len(t) \in Nat /\ k - Len(t) > 0
      BY <1>1, <1>3, <2>2
    <3>2. s[j] \in Nat /\ s[j] <= n
      BY <1>2
    <3> QED
      BY <3>1, <3>2 DEF Below
  <2> QED
    BY <2>1, <2>2
<1>6. ASSUME NEW k \in 1 .. Len(all) PROVE all[k] <= n + Len(u)
  <2>1. CASE k <= Len(t)
    BY <1>1, <1>2, <2>1
  <2>2. CASE ~(k <= Len(t))
    BY <1>1, <1>3, <2>2
  <2> QED
    BY <2>1, <2>2
<1>7. Rising(s, all) /\ AtMost(all, n + Len(u))
  BY <1>4, <1>5, <1>6 DEF Rising, AtMost
<1> QED
  BY <1>7 DEF all

\* Zeros at the end of the first do too.
LEMMA IdleRises ==
    ASSUME NEW S, NEW s \in Seq(S), NEW t \in Seq(S), NEW u \in Seq(S),
           NEW n \in Nat, Rising(s, t), AtMost(s, n), \A k \in 1 .. Len(u) : u[k] = 0
    PROVE  Rising(s \o u, t) /\ AtMost(s \o u, n)
<1> DEFINE all == s \o u
<1>1. /\ Len(s) \in Nat /\ Len(u) \in Nat /\ Len(all) = Len(s) + Len(u)
      /\ \A k \in 1 .. Len(s) + Len(u) : all[k] = IF k <= Len(s) THEN s[k] ELSE u[k - Len(s)]
  BY ConcatProperties
<1> HIDE DEF all
<1>2. ASSUME NEW k \in 1 .. Len(all), ~(k <= Len(s)) PROVE all[k] = 0
  <2>1. k - Len(s) \in 1 .. Len(u)
    BY <1>1, <1>2
  <2> QED
    BY <1>1, <1>2, <2>1
<1>3. ASSUME NEW j \in 1 .. Len(all), NEW k \in 1 .. Len(all), j < k
      PROVE  Below(all[j], all[k])
  <2>1. CASE k <= Len(s)
    BY <1>1, <1>3, <2>1 DEF Rising
  <2>2. CASE ~(k <= Len(s))
    BY <1>2, <2>2 DEF Below
  <2> QED
    BY <2>1, <2>2
<1>4. ASSUME NEW j \in 1 .. Len(all), NEW k \in 1 .. Len(t)
      PROVE  Below(all[j], t[k])
  <2>1. CASE j <= Len(s)
    BY <1>1, <2>1 DEF Rising
  <2>2. CASE ~(j <= Len(s))
    BY <1>2, <2>2 DEF Below
  <2> QED
    BY <2>1, <2>2
<1>5. ASSUME NEW k \in 1 .. Len(all) PROVE all[k] <= n
  <2>1. CASE k <= Len(s)
    BY <1>1, <2>1 DEF AtMost
  <2>2. CASE ~(k <= Len(s))
    BY <1>2, <2>2
  <2> QED
    BY <2>1, <2>2
<1>6. Rising(all, t) /\ AtMost(all, n)
  BY <1>3, <1>4, <1>5 DEF Rising, AtMost
<1> QED
  BY <1>6 DEF all

LEMMA BankTyped ==
    ASSUME Spi!DeviceOK, NEW null \in BOOLEAN, NEW reg \in Regs, NEW len \in Nat,
           NEW rc \in HookResults \cup {-1},
           \/ Spi!DeviceRead(null, reg, len, rc)
           \/ Spi!DeviceWrite(null, reg, [k \in 1 .. len |-> Spi!Mark], rc)
    PROVE  Spi!DeviceOK'
<1> DEFINE bytes == [k \in 1 .. len |-> Spi!Mark]
<1>1. rc \in Int /\ RegCount \in Nat /\ reg \in Nat
  BY BankAssumption DEF Regs
<1>2. CASE Spi!DeviceRead(null, reg, len, rc)
  BY <1>1, <1>2 DEF Spi!DeviceRead, Spi!DeviceOK
<1>3. CASE Spi!DeviceWrite(null, reg, bytes, rc)
  <2>1. Spi!Mark \in Bytes
    BY BankAssumption DEF Spi!Mark
  <2>2. /\ Len(bytes) = len
        /\ \A r \in reg .. reg + len - 1 : bytes[r - reg + 1] \in Bytes
    BY <1>1, <2>1
  <2> HIDE DEF bytes
  <2>3. spi_regs' \in [Spi!Regs -> Bytes]
    BY <1>1, <1>3, <2>2 DEF Spi!DeviceWrite, Spi!Within, Spi!DeviceOK, Spi!Regs
  <2> QED
    BY <1>1, <1>3, <2>3 DEF Spi!DeviceWrite, Spi!DeviceOK
<1> QED
  BY <1>2, <1>3

\* Right after an initialisation or a reset.
SpiCleared ==
    /\ rx_queue \in Arrays(Loadable)
    /\ spi_head = 0 /\ spi_tail = 0 /\ loaded = 0 /\ miso = << >> /\ dropped = {}

LEMMA ClearedAccounts == SpiCleared => Accounted
<1> SUFFICES ASSUME SpiCleared PROVE Accounted
  OBVIOUS
<1>1. Used(0, 0) = 0
  BY SpiSizes, UsedIs
<1>2. Len(SpiQueued) = 0
  BY <1>1, SpiSizes, ContentsIs DEF SpiQueued, SpiCleared
<1>3. Len(miso) = 0
  BY DEF SpiCleared
<1> QED
  BY <1>2, <1>3 DEF Accounted, Rising, AtMost, SpiCleared

LEMMA InitSpi == Spi!Init => SpiInv
<1> SUFFICES ASSUME Spi!Init PROVE SpiInv
  OBVIOUS
<1>1. Spi!DeviceOK
  BY BankAssumption DEF Spi!Init, Spi!DeviceInit, Spi!DeviceOK
<1>2. SpiCleared
  BY SpiSizes, SameRing DEF Spi!Init, SpiCleared, Arrays, Loadable
<1>3. Accounted
  BY <1>2, ClearedAccounts
<1>4. /\ tx_log \in Seq(1 .. MaxClocks) /\ Len(tx_log) <= Size
      /\ miso \in Seq(Loadable) /\ dropped \subseteq 1 .. loaded
  BY SpiSizes DEF Spi!Init
<1>5. loaded \in 0 .. MaxLoaded /\ clocks \in 0 .. MaxClocks
  BY SpiSizes DEF Spi!Init
<1>6. cs_asserted \in BOOLEAN
  BY DEF Spi!Init
<1> QED
  BY <1>1, <1>2, <1>3, <1>4, <1>5, <1>6, SpiSizes DEF SpiCleared, SpiInv, SpiTypes

\* What StoredAppends says of the bytes of this ring.
LEMMA LoadStores ==
    ASSUME NEW buf \in Arrays(Loadable), NEW h \in Slots, NEW t \in Slots,
           NEW bytes \in Seq(Loadable), Len(bytes) <= Free(h, t)
    PROVE  /\ Stored(buf, t, bytes) \in Arrays(Loadable)
           /\ Forward(t, Len(bytes)) \in Slots
           /\ Contents(Stored(buf, t, bytes), h, Forward(t, Len(bytes)))
                = Contents(buf, h, t) \o bytes
<1>1. Contents(Stored(buf, t, bytes), h, Forward(t, Len(bytes)))
        = Contents(buf, h, t) \o bytes
  BY StoredAppends, SMT
<1>2. Stored(buf, t, bytes) \in Arrays(Loadable) /\ Forward(t, Len(bytes)) \in Slots
  BY StoredAppends, Zenon
<1> QED
  BY <1>1, <1>2

\* vp_spi_load_rx: the bytes that find room rise above all that were loaded, the
\* others are dropped.
LEMMA LoadKeeps ==
    ASSUME SpiInv, NEW n \in 1 .. MaxRun, Spi!LoadRx(n)
    PROVE  SpiInv'
<1> DEFINE k == Spi!Smaller(n, Free(spi_head, spi_tail))
           new == [m \in 1 .. k |-> loaded + m]
<1>1. /\ SpiTypes /\ Accounted /\ n \in Nat /\ n > 0
      /\ spi_head \in Slots /\ spi_tail \in Slots /\ loaded \in Nat
  BY SpiSizes DEF SpiInv, SpiTypes
<1>2. /\ loaded' = loaded + n /\ loaded + n <= MaxLoaded
      /\ rx_queue' = Stored(rx_queue, spi_tail, new) /\ spi_tail' = Forward(spi_tail, k)
      /\ dropped' = dropped \cup (loaded + k + 1 .. loaded + n)
      /\ spi_head' = spi_head /\ miso' = miso /\ tx_log' = tx_log /\ clocks' = clocks
      /\ cs_asserted' = cs_asserted
      /\ UNCHANGED <<spi_regs, spi_reads, spi_writes, spi_reg, spi_status>>
  BY SameRing DEF Spi!LoadRx, Spi!device
<1>3. k \in 0 .. n /\ k <= Free(spi_head, spi_tail)
  <2>1. Free(spi_head, spi_tail) \in Nat
    BY <1>1, SpiSizes, UsedIs
  <2> QED
    BY <1>1, <2>1 DEF Spi!Smaller
<1> HIDE DEF k
<1>4. /\ new \in Seq(Loadable) /\ Len(new) = k /\ \A m \in 1 .. k : new[m] = loaded + m
  BY <1>1, <1>2, <1>3, SpiSizes DEF Loadable
<1> HIDE DEF new
<1>5. /\ rx_queue' \in Arrays(Loadable) /\ spi_tail' \in Slots
      /\ SpiQueued' = SpiQueued \o new
  <2>1. rx_queue \in Arrays(Loadable) /\ Len(new) <= Free(spi_head, spi_tail)
    BY <1>1, <1>3, <1>4 DEF SpiTypes
  <2>2. new \in Seq(Loadable)
    BY <1>4
  <2>3. spi_head \in Slots /\ spi_tail \in Slots
    BY <1>1
  <2>4. /\ Stored(rx_queue, spi_tail, new) \in Arrays(Loadable)
        /\ Forward(spi_tail, Len(new)) \in Slots
        /\ Contents(Stored(rx_queue, spi_tail, new), spi_head, Forward(spi_tail, Len(new)))
             = Contents(rx_queue, spi_head, spi_tail) \o new
    BY <2>1, <2>2, <2>3, LoadStores, Zenon
  <2> QED
    BY <1>2, <1>4, <2>4 DEF SpiQueued
<1>6. SpiQueued \in Seq(Loadable)
  BY <1>1, QueuedIs
<1>7. SpiTypes'
  <2>1. Spi!DeviceOK'
    BY <1>1, <1>2 DEF SpiTypes, Spi!DeviceOK
  <2>2. dropped' \subseteq 1 .. loaded'
    BY <1>1, <1>2, <1>3 DEF SpiTypes
  <2> QED
    BY <1>1, <1>2, <1>5, <2>1, <2>2 DEF SpiTypes
<1>8. Rising(miso, SpiQueued') /\ AtMost(SpiQueued', loaded + k)
  <2>1. /\ Rising(miso, SpiQueued) /\ AtMost(miso, loaded) /\ AtMost(SpiQueued, loaded)
        /\ miso \in Seq(Loadable)
    BY <1>1 DEF Accounted, SpiTypes
  <2>2. \A m \in 1 .. Len(new) : new[m] = loaded + m
    BY <1>4
  <2>3. Loadable \in SUBSET Nat
    BY SpiSizes DEF Loadable
  <2>4. new \in Seq(Loadable)
    BY <1>4
  <2>5. Rising(miso, SpiQueued \o new) /\ AtMost(SpiQueued \o new, loaded + Len(new))
    BY <1>1, <1>6, <2>1, <2>2, <2>3, <2>4, JoiningRises, Zenon
  <2> QED
    BY <1>4, <1>5, <2>5
<1>9. ASSUME NEW s \in Seq(Loadable), NEW i \in Nat, AtMost(s, i), i <= loaded + n
      PROVE  AtMost(s, loaded')
  <2>1. \A m \in 1 .. Len(s) : s[m] \in Nat /\ s[m] <= i
    BY <1>9, SpiSizes DEF AtMost, Loadable
  <2> QED
    BY <1>1, <1>2, <1>9, <2>1 DEF AtMost
<1>10. AtMost(miso, loaded') /\ AtMost(SpiQueued', loaded')
  <2>1. miso \in Seq(Loadable) /\ SpiQueued' \in Seq(Loadable)
    BY <1>1, <1>4, <1>5, <1>6, ConcatProperties DEF SpiTypes
  <2>2. loaded <= loaded + n /\ loaded + k <= loaded + n /\ loaded + k \in Nat
    BY <1>1, <1>3
  <2> QED
    BY <1>1, <1>8, <1>9, <2>1, <2>2 DEF Accounted
<1>11. \A b : Among(b, SpiQueued') <=> Among(b, SpiQueued) \/ Among(b, new)
  BY <1>4, <1>5, <1>6, AmongBoth
<1>12. \A i \in 1 .. Len(SpiQueued') : SpiQueued'[i] # 0
  <2> SUFFICES ASSUME Among(0, SpiQueued') PROVE FALSE
    BY DEF Among
  <2>1. ~Among(0, SpiQueued)
    BY <1>1 DEF Accounted, Among
  <2>2. ~Among(0, new)
    BY <1>1, <1>4 DEF Among
  <2> QED
    BY <1>11, <2>1, <2>2
<1>13. ASSUME NEW b \in 1 .. loaded'
       PROVE  Among(b, miso') \/ Among(b, SpiQueued') <=> b \notin dropped'
  <2>1. Among(b, new) <=> b \in loaded + 1 .. loaded + k
    <3>1. ASSUME Among(b, new) PROVE b \in loaded + 1 .. loaded + k
      BY <1>1, <1>3, <1>4, <3>1 DEF Among
    <3>2. ASSUME b \in loaded + 1 .. loaded + k PROVE Among(b, new)
      <4>1. b - loaded \in 1 .. k /\ loaded + (b - loaded) = b
        BY <1>1, <1>3, <3>2
      <4> QED
        BY <1>4, <4>1 DEF Among
    <3> QED
      BY <3>1, <3>2
  <2>2. CASE b <= loaded
    <3>1. Among(b, miso) \/ Among(b, SpiQueued) <=> b \notin dropped
      BY <1>1, <2>2 DEF Accounted
    <3>2. ~Among(b, new) /\ (b \in dropped' <=> b \in dropped)
      BY <1>1, <1>2, <1>3, <2>1, <2>2
    <3> QED
      BY <1>2, <1>11, <3>1, <3>2
  <2>3. CASE ~(b <= loaded)
    <3>1. ~Among(b, miso) /\ ~Among(b, SpiQueued) /\ b \notin dropped
      BY <1>1, <2>3 DEF Accounted, AtMost, Among, SpiTypes
    <3>2. b \in dropped' <=> b \notin loaded + 1 .. loaded + k
      BY <1>1, <1>2, <1>3, <2>3, <3>1
    <3> QED
      BY <1>2, <1>11, <2>1, <3>1, <3>2
  <2> QED
    BY <2>2, <2>3
<1>14. Accounted'
  BY <1>2, <1>8, <1>10, <1>12, <1>13 DEF Accounted
<1> QED
  BY <1>7, <1>14 DEF SpiInv

\* The bytes n clocks bring back: the first of the queue, then idle ones.
LEMMA ShiftedIs ==
    ASSUME SpiTypes, NEW n \in Nat
    PROVE  \E l \in 0 .. n, idle \in Seq(Loadable) :
             /\ l = Spi!Smaller(n, Len(SpiQueued)) /\ l \in 0 .. Len(SpiQueued)
             /\ \A k \in 1 .. Len(idle) : idle[k] = 0
             /\ Spi!Shifted(n) = SubSeq(SpiQueued, 1, l) \o idle
<1> DEFINE q == SpiQueued
           l == Spi!Smaller(n, Len(q))
           idle == [k \in 1 .. n - l |-> 0]
           front == SubSeq(q, 1, l)
           got == Spi!Shifted(n)
<1>1. q \in Seq(Loadable) /\ Len(q) \in Nat /\ 0 \in Loadable /\ n \in Nat
  BY QueuedIs, SpiSizes
<1>2. got = [k \in 1 .. n |-> IF k <= Len(q) THEN q[k] ELSE 0]
  BY SameRing DEF Spi!Shifted
<1> HIDE DEF q, got
<1>3. l \in 0 .. n /\ l \in 0 .. Len(q) /\ (l = n \/ l = Len(q))
  BY <1>1 DEF Spi!Smaller
<1> HIDE DEF l
<1>4. /\ idle \in Seq(Loadable) /\ Len(idle) = n - l
      /\ \A k \in 1 .. n - l : idle[k] = 0
  BY <1>1, <1>3
<1>5. /\ front \in Seq(Loadable) /\ Len(front) = l
      /\ \A k \in 1 .. l : front[k] = q[k]
  BY <1>1, <1>3
<1>6. \A k \in 1 .. Len(q) : q[k] \in Loadable
  BY <1>1
<1>7. got \in Seq(Loadable) /\ Len(got) = n
  BY <1>1, <1>2, <1>6
<1> HIDE DEF idle, front
<1>8. /\ front \o idle \in Seq(Loadable) /\ Len(front \o idle) = n
      /\ \A k \in 1 .. n : (front \o idle)[k] = IF k <= l THEN front[k] ELSE idle[k - l]
  <2>1. front \in Seq(Loadable) /\ idle \in Seq(Loadable)
    BY <1>4, <1>5
  <2>2. /\ front \o idle \in Seq(Loadable) /\ Len(front \o idle) = Len(front) + Len(idle)
        /\ \A k \in 1 .. Len(front) + Len(idle) :
             (front \o idle)[k] = IF k <= Len(front) THEN front[k] ELSE idle[k - Len(front)]
    BY <2>1, ConcatProperties
  <2>3. Len(front) + Len(idle) = n
    BY <1>1, <1>3, <1>4, <1>5
  <2> QED
    BY <1>5, <2>2, <2>3
<1>9. ASSUME NEW k \in 1 .. n PROVE got[k] = (front \o idle)[k]
  <2>1. CASE k <= l
    <3>1. k <= Len(q) /\ k \in 1 .. l
      BY <1>1, <1>3, <2>1
    <3> QED
      BY <1>2, <1>5, <1>8, <2>1, <3>1
  <2>2. CASE ~(k <= l)
    <3>1. l = Len(q) /\ k - l \in 1 .. n - l /\ ~(k <= Len(q))
      BY <1>1, <1>3, <2>2
    <3> QED
      BY <1>2, <1>4, <1>8, <2>2, <3>1
  <2> QED
    BY <2>1, <2>2
<1>10. got = front \o idle
  <2> HIDE DEF got
  <2> QED
    BY <1>7, <1>8, <1>9, SeqEqual
<1>11. l \in 0 .. n /\ idle \in Seq(Loadable) /\ \A k \in 1 .. Len(idle) : idle[k] = 0
  BY <1>3, <1>4
<1> QED
  BY <1>3, <1>10, <1>11 DEF q, got, l, front

\* vp_spi_xfer: the front of the queue comes back, and idle bytes behind it.
LEMMA XferKeeps ==
    ASSUME SpiInv, NEW n \in 1 .. MaxRun, Spi!Xfer(n)
    PROVE  SpiInv'
<1> DEFINE q == SpiQueued
<1>1. /\ SpiTypes /\ Accounted /\ n \in Nat /\ n > 0
      /\ q \in Seq(Loadable) /\ Len(q) = Used(spi_head, spi_tail) /\ Len(q) \in Nat
      /\ miso \in Seq(Loadable) /\ loaded \in Nat
  BY SpiSizes, QueuedIs DEF SpiInv, SpiTypes
<1>2. PICK l \in 0 .. n, idle \in Seq(Loadable) :
        /\ l = Spi!Smaller(n, Len(q)) /\ l \in 0 .. Len(q)
        /\ \A k \in 1 .. Len(idle) : idle[k] = 0
        /\ Spi!Shifted(n) = SubSeq(q, 1, l) \o idle
  BY <1>1, ShiftedIs
<1> DEFINE front == SubSeq(q, 1, l)
           rest == SubSeq(q, l + 1, Len(q))
<1>3. /\ clocks + n <= MaxClocks /\ clocks' = clocks + n /\ tx_log' = Spi!Logged(n)
      /\ miso' = miso \o (front \o idle) /\ spi_head' = Forward(spi_head, l)
      /\ rx_queue' = rx_queue /\ spi_tail' = spi_tail /\ cs_asserted' = cs_asserted
      /\ loaded' = loaded /\ dropped' = dropped
      /\ UNCHANGED <<spi_regs, spi_reads, spi_writes, spi_reg, spi_status>>
  BY <1>2, SameRing DEF Spi!Xfer, Spi!device
<1>4. spi_head' \in Slots /\ SpiQueued' = rest
  <2>1. rx_queue \in Arrays(Loadable) /\ spi_head \in Slots /\ spi_tail \in Slots
    BY <1>1 DEF SpiTypes
  <2>2. l \in 0 .. Used(spi_head, spi_tail)
    BY <1>1, <1>2
  <2>3. Forward(spi_head, l) \in Slots
    BY <2>1, <2>2, ForwardTakes, Zenon
  <2>4. Contents(rx_queue, Forward(spi_head, l), spi_tail)
          = SubSeq(Contents(rx_queue, spi_head, spi_tail), l + 1,
                   Len(Contents(rx_queue, spi_head, spi_tail)))
    BY <2>1, <2>2, ForwardTakes
  <2> QED
    BY <1>3, <2>3, <2>4 DEF SpiQueued
<1>5. front \in Seq(Loadable) /\ rest \in Seq(Loadable) /\ front \o rest = q
  <2>1. q \in Seq(Loadable) /\ l \in 0 .. Len(q)
    BY <1>1, <1>2
  <2> HIDE DEF q
  <2>2. front \in Seq(Loadable) /\ rest \in Seq(Loadable)
    BY <2>1, SplitAt, Zenon
  <2>3. front \o rest = q
    BY <2>1, SplitAt
  <2> QED
    BY <2>2, <2>3
<1>6. /\ miso \o front \in Seq(Loadable)
      /\ Rising(miso \o front, rest) /\ AtMost(miso \o front, loaded) /\ AtMost(rest, loaded)
  <2>1. Rising(miso, q) /\ AtMost(miso, loaded) /\ AtMost(q, loaded)
    BY <1>1 DEF Accounted
  <2>2. miso \in Seq(Loadable) /\ q \in Seq(Loadable) /\ loaded \in Nat
    BY <1>1
  <2>3. l \in 0 .. Len(q) /\ l \in 0 .. l
    BY <1>1, <1>2
  <2> HIDE DEF q
  <2> QED
    BY <2>1, <2>2, <2>3, TakingRises
<1> HIDE DEF q, front, rest
<1>7. miso' = (miso \o front) \o idle
  <2>1. miso \in Seq(Loadable) /\ front \in Seq(Loadable) /\ idle \in Seq(Loadable)
    BY <1>1, <1>5
  <2>2. (miso \o front) \o idle = miso \o (front \o idle)
    BY <2>1, ConcatAssociative
  <2> QED
    BY <1>3, <2>2
<1>8. Rising(miso', rest) /\ AtMost(miso', loaded) /\ miso' \in Seq(Loadable)
  <2>1. \A k \in 1 .. Len(idle) : idle[k] = 0
    BY <1>2
  <2>2. miso \o front \in Seq(Loadable) /\ rest \in Seq(Loadable)
    BY <1>5, <1>6
  <2>3. Rising(miso \o front, rest) /\ AtMost(miso \o front, loaded) /\ loaded \in Nat
    BY <1>1, <1>6
  <2>4. Rising((miso \o front) \o idle, rest) /\ AtMost((miso \o front) \o idle, loaded)
    BY <2>1, <2>2, <2>3, IdleRises
  <2>5. (miso \o front) \o idle \in Seq(Loadable)
    BY <2>2, ConcatProperties
  <2> QED
    BY <1>7, <2>4, <2>5
<1>9. ASSUME NEW b \in 1 .. loaded
      PROVE  Among(b, miso') \/ Among(b, rest) <=> b \notin dropped
  <2>1. Among(b, q) <=> Among(b, front) \/ Among(b, rest)
    BY <1>5, AmongBoth
  <2>2. Among(b, miso \o front) <=> Among(b, miso) \/ Among(b, front)
    BY <1>1, <1>5, AmongBoth
  <2>3. Among(b, (miso \o front) \o idle) <=> Among(b, miso \o front) \/ Among(b, idle)
    BY <1>6, AmongBoth
  <2>4. ~Among(b, idle)
    BY <1>2 DEF Among
  <2>5. Among(b, miso) \/ Among(b, q) <=> b \notin dropped
    BY <1>1 DEF Accounted, q
  <2> QED
    BY <1>7, <2>1, <2>2, <2>3, <2>4, <2>5
<1>10. \A k \in 1 .. Len(rest) : rest[k] # 0
  <2> SUFFICES ASSUME Among(0, rest) PROVE FALSE
    BY DEF Among
  <2>1. Among(0, q)
    BY <1>5, AmongBoth
  <2> QED
    BY <1>1, <2>1 DEF Accounted, Among, q
<1>11. Accounted'
  BY <1>3, <1>4, <1>6, <1>8, <1>9, <1>10 DEF Accounted
<1>12. tx_log' \in Seq(1 .. MaxClocks) /\ Len(tx_log') <= Size
  <2> DEFINE m == Spi!Smaller(n, Size - Len(tx_log))
             new == [k \in 1 .. m |-> clocks + k]
  <2>1. /\ tx_log \in Seq(1 .. MaxClocks) /\ Len(tx_log) \in Nat /\ Len(tx_log) <= Size
        /\ clocks \in Nat /\ MaxClocks \in Nat /\ Size \in Nat
    BY <1>1, SpiSizes DEF SpiTypes
  <2>2. m \in 0 .. n /\ m <= Size - Len(tx_log)
    BY <1>1, <2>1 DEF Spi!Smaller
  <2>3. tx_log' = tx_log \o new
    BY <1>3 DEF Spi!Logged
  <2> HIDE DEF m
  <2>4. new \in Seq(1 .. MaxClocks) /\ Len(new) = m
    BY <1>1, <1>3, <2>1, <2>2
  <2> HIDE DEF new
  <2>5. /\ tx_log \o new \in Seq(1 .. MaxClocks)
        /\ Len(tx_log \o new) = Len(tx_log) + Len(new)
    BY <2>1, <2>4, ConcatProperties
  <2> QED
    BY <2>1, <2>2, <2>3, <2>4, <2>5
<1>13. SpiTypes'
  <2>1. Spi!DeviceOK'
    BY <1>1, <1>3 DEF SpiTypes, Spi!DeviceOK
  <2>2. clocks' \in 0 .. MaxClocks
    BY <1>1, <1>3, SpiSizes DEF SpiTypes
  <2> QED
    BY <1>1, <1>3, <1>4, <1>8, <1>12, <2>1, <2>2 DEF SpiTypes
<1> QED
  BY <1>11, <1>13 DEF SpiInv

LEMMA SpiKept == SpiInv /\ [Spi!Next]_spi => SpiInv'
<1> SUFFICES ASSUME SpiInv PROVE [Spi!Next]_spi => SpiInv'
  OBVIOUS
<1>1. SpiTypes /\ Accounted
  BY DEF SpiInv
<1>2. CASE Spi!Reset
  <2>1. /\ tx_log' = << >> /\ cs_asserted' = FALSE /\ clocks' = 0 /\ Spi!DeviceReset
        /\ rx_queue' = rx_queue
    BY <1>2 DEF Spi!Reset
  <2>3. SpiCleared'
    BY <1>1, <1>2 DEF Spi!Reset, SpiCleared, SpiTypes
  <2>2. Spi!DeviceOK'
    BY <2>1, BankAssumption DEF Spi!DeviceReset, Spi!DeviceOK
  <2>4. Accounted'
    BY <2>3, ClearedAccounts, PTL
  <2>5. /\ tx_log' \in Seq(1 .. MaxClocks) /\ Len(tx_log') <= Size
        /\ miso' \in Seq(Loadable) /\ dropped' \subseteq 1 .. loaded'
    BY <2>1, <2>3, SpiSizes DEF SpiCleared
  <2>6. loaded' \in 0 .. MaxLoaded /\ clocks' \in 0 .. MaxClocks
    BY <2>1, <2>3, SpiSizes DEF SpiCleared
  <2>7. cs_asserted' \in BOOLEAN
    BY <2>1
  <2> QED
    BY <2>2, <2>4, <2>5, <2>6, <2>7, <2>3, SpiSizes DEF SpiCleared, SpiInv, SpiTypes
<1>3. ASSUME Spi!DeviceOK', UNCHANGED <<tx_log, rx_queue, spi_head, spi_tail,
                                      loaded, clocks, miso, dropped>>,
             cs_asserted' \in BOOLEAN
      PROVE  SpiInv'
  <2>1. SpiQueued' = SpiQueued
    BY <1>3 DEF SpiQueued
  <2>2. Accounted'
    BY <1>1, <1>3, <2>1 DEF Accounted
  <2> QED
    BY <1>1, <1>3, <2>2 DEF SpiInv, SpiTypes
<1>4. ASSUME NEW on \in BOOLEAN, Spi!ChipSelect(on) PROVE SpiInv'
  <2>1. Spi!DeviceOK'
    BY <1>1, <1>4 DEF SpiTypes, Spi!DeviceOK, Spi!ChipSelect, Spi!device
  <2> QED
    BY <1>3, <1>4, <2>1 DEF Spi!ChipSelect, Spi!ring, Spi!history
<1>5. ASSUME NEW null \in BOOLEAN, NEW reg \in Spi!Regs, NEW len \in 0 .. RegCount,
             NEW rc \in HookResults \cup {-1}, Spi!UseBank(null, reg, len, rc)
      PROVE  SpiInv'
  <2>1. Spi!DeviceOK'
    BY <1>1, <1>5, BankTyped DEF SpiTypes, Spi!UseBank, Spi!Regs, Regs
  <2> QED
    BY <1>1, <1>3, <1>5, <2>1 DEF Spi!UseBank, Spi!ring, Spi!history, SpiTypes
<1>6. CASE UNCHANGED spi
  <2>1. Spi!DeviceOK'
    BY <1>1, <1>6 DEF spi, SpiTypes, Spi!DeviceOK
  <2> QED
    BY <1>1, <1>3, <1>6, <2>1 DEF spi, SpiTypes
<1> QED
  BY <1>2, <1>4, <1>5, <1>6, LoadKeeps, XferKeeps DEF Spi!Next

LEMMA SpiPromises == SpiInv => Spi!TypeOK /\ NothingInvented
<1> SUFFICES ASSUME SpiInv PROVE Spi!TypeOK /\ Spi!NothingInvented
  BY DEF NothingInvented
<1> DEFINE q == SpiQueued
           seen == miso \o q
           Answered(k) == k > Len(miso) \/ seen[k] # 0
           answers == {k \in DOMAIN seen : Answered(k)}
           l == Len(miso)
<1>1. /\ SpiTypes /\ Accounted /\ miso \in Seq(Loadable) /\ q \in Seq(Loadable)
      /\ loaded \in Nat
  BY SpiSizes, QueuedIs DEF SpiInv, SpiTypes
<1>2. /\ l \in Nat /\ Len(q) \in Nat /\ DOMAIN seen = 1 .. l + Len(q)
      /\ \A k \in 1 .. l + Len(q) : seen[k] = IF k <= l THEN miso[k] ELSE q[k - l]
  BY <1>1, ConcatProperties
<1>3. /\ Rising(miso, q) /\ AtMost(miso, loaded) /\ AtMost(q, loaded)
      /\ \A k \in 1 .. Len(q) : q[k] # 0
      /\ \A b \in 1 .. loaded : Among(b, miso) \/ Among(b, q) <=> b \notin dropped
  BY <1>1 DEF Accounted
<1>4. /\ \A k \in 1 .. l : miso[k] \in Nat
      /\ \A k \in 1 .. Len(q) : q[k] \in Nat
  BY <1>1, SpiSizes DEF Loadable
<1>5. Spi!NothingInvented <=>
        /\ {seen[k] : k \in answers} = (1 .. loaded) \ dropped
        /\ \A j, k \in answers : j < k => seen[j] < seen[k]
  BY SameRing DEF Spi!NothingInvented
<1> HIDE DEF q, seen, l
<1>6. ASSUME NEW k \in answers
      PROVE  /\ seen[k] \in Nat /\ seen[k] # 0 /\ seen[k] <= loaded
             /\ Among(seen[k], miso) \/ Among(seen[k], q)
  <2>1. k \in 1 .. l + Len(q) /\ (k > l \/ seen[k] # 0)
    BY <1>2 DEF l
  <2>2. CASE k <= l
    <3>1. k \in 1 .. Len(miso) /\ seen[k] = miso[k]
      BY <1>2, <2>1, <2>2 DEF l
    <3> QED
      BY <1>2, <1>3, <1>4, <2>1, <2>2, <3>1 DEF AtMost, Among, l
  <2>3. CASE ~(k <= l)
    <3>1. k - l \in 1 .. Len(q) /\ seen[k] = q[k - l]
      BY <1>2, <2>1, <2>3
    <3> QED
      BY <1>3, <1>4, <3>1 DEF AtMost, Among
  <2> QED
    BY <2>2, <2>3
<1>7. ASSUME NEW b \in (1 .. loaded) \ dropped PROVE \E k \in answers : seen[k] = b
  <2>1. Among(b, miso) \/ Among(b, q)
    BY <1>3
  <2>2. CASE Among(b, miso)
    <3>1. PICK k \in 1 .. Len(miso) : miso[k] = b
      BY <2>2 DEF Among
    <3>2. k \in 1 .. l + Len(q) /\ k <= l /\ b # 0
      BY <1>1, <1>2 DEF l
    <3> QED
      BY <1>2, <3>1, <3>2
  <2>3. CASE Among(b, q)
    <3>1. PICK k \in 1 .. Len(q) : q[k] = b
      BY <2>3 DEF Among
    <3>2. l + k \in 1 .. l + Len(q) /\ ~(l + k <= l) /\ (l + k) - l = k /\ l + k > l
      BY <1>2
    <3> QED
      BY <1>2, <3>1, <3>2 DEF l
  <2> QED
    BY <2>1, <2>2, <2>3
<1>8. {seen[k] : k \in answers} = (1 .. loaded) \ dropped
  <2>1. ASSUME NEW k \in answers PROVE seen[k] \in (1 .. loaded) \ dropped
    BY <1>1, <1>3, <1>6
  <2> HIDE DEF answers
  <2> QED
    BY <1>7, <2>1
<1>9. ASSUME NEW j \in answers, NEW k \in answers, j < k PROVE seen[j] < seen[k]
  <2>1. j \in 1 .. l + Len(q) /\ k \in 1 .. l + Len(q)
    BY <1>2
  <2>2. seen[j] # 0 /\ seen[k] # 0
    BY <1>6
  <2>3. Below(seen[j], seen[k])
    <3>1. CASE k <= l
      <4>1. j \in 1 .. Len(miso) /\ k \in 1 .. Len(miso) /\ j <= l
        BY <1>2, <1>9, <2>1, <3>1 DEF l
      <4> QED
        BY <1>2, <1>3, <1>9, <2>1, <3>1, <4>1 DEF Rising
    <3>2. CASE j <= l /\ ~(k <= l)
      <4>1. j \in 1 .. Len(miso) /\ k - l \in 1 .. Len(q)
        BY <1>2, <2>1, <3>2 DEF l
      <4> QED
        BY <1>2, <1>3, <2>1, <3>2, <4>1 DEF Rising
    <3>3. CASE ~(j <= l)
      <4>1. /\ ~(k <= l) /\ j - l \in 1 .. Len(q) /\ k - l \in 1 .. Len(q)
            /\ j - l < k - l
        BY <1>2, <1>9, <2>1, <3>3
      <4> QED
        BY <1>2, <1>3, <2>1, <3>3, <4>1 DEF Rising
    <3> QED
      BY <3>1, <3>2, <3>3
  <2> QED
    BY <2>2, <2>3 DEF Below
<1>10. Spi!TypeOK
  <2>1. dropped \subseteq 1 .. MaxLoaded
    BY <1>1, SpiSizes DEF SpiTypes
  <2> QED
    BY <1>1, <2>1, SameRing DEF SpiTypes, Spi!TypeOK, Arrays, Loadable
<1> QED
  BY <1>5, <1>8, <1>9, <1>10
-----------------------------------------------------------------------------
(***************************************************************************)
(* The peripherals together.  A step of a program that uses one of them is *)
(* a step of it or leaves it alone, so every component keeps its own       *)
(* invariant.                                                              *)
(***************************************************************************)
PeripheralsInv ==
    UartInv /\ I2cInv /\ SpiInv /\ GpioInv /\ TraceInv /\ AdcInv /\ BackendsInv

LEMMA StepOfEach ==
    [Next]_vars =>
      /\ [UartNext]_uart /\ [I2cNext]_i2c /\ [Spi!Next]_spi /\ [Gpio!Next]_gpio
      /\ [Trace!Next]_trace /\ [Adc!Next]_adc /\ [Backends!Next]_backends
  BY DEF Next, vars, UseUart, UseI2c, UseSpi, UseGpio, UseTrace, UseAdc, UseBackends

LEMMA InitPeripherals == Init => PeripheralsInv
<1>1. Init => /\ UartInit /\ I2cInit /\ Spi!Init /\ Gpio!Init /\ Trace!Init /\ Adc!Init
              /\ Backends!Init
  BY DEF Init
<1> QED
  BY <1>1, InitUart, InitI2c, InitSpi, InitGpio, InitTrace, InitAdc, InitBackends
  DEF PeripheralsInv

LEMMA PeripheralsKept == PeripheralsInv /\ [Next]_vars => PeripheralsInv'
<1>1. PeripheralsInv <=>
        UartInv /\ I2cInv /\ SpiInv /\ GpioInv /\ TraceInv /\ AdcInv /\ BackendsInv
  BY DEF PeripheralsInv
<1> QED
  BY <1>1, StepOfEach, UartKept, I2cKept, SpiKept, GpioKept, TraceKept, AdcKept,
     BackendsKept, PTL

LEMMA Promises ==
    PeripheralsInv =>
      /\ TypeOK /\ NothingInvented /\ OutputReadsBack /\ TextIsTrace /\ SweepContinues
      /\ ShownIsWritten
<1>1. I2cInv => I2cTypes
  BY DEF I2cInv
<1> QED
  BY <1>1, UartInvTypes, SpiPromises, GpioPromises, TracePromises, AdcPromises, BackendsPromise
  DEF PeripheralsInv, TypeOK

LEMMA PeripheralsHold == Spec => []PeripheralsInv
  BY InitPeripherals, PeripheralsKept, PTL DEF Spec

\* A program that uses the peripherals uses each as its own specification says,
\* so what is proved of the UART and of the I2C device alone holds here too.
THEOREM EachAlone == Spec => UartSpec /\ I2cSpec
<1>1. Init => UartInit /\ I2cInit
  BY DEF Init
<1> QED
  BY <1>1, StepOfEach, PTL DEF Spec, UartSpec, I2cSpec

\* The indices stay in their arrays, a pin is never pulled both ways, the trace
\* ends with a NUL inside its buffer, and a conversion fits the resolution.
THEOREM PeripheralTypes == Spec => []TypeOK
  BY PeripheralsHold, Promises, PTL

\* SPI: a loaded byte comes back once and in order, is queued, or was dropped.
THEOREM SpiHolds == Spec => []NothingInvented
  BY PeripheralsHold, Promises, PTL

\* GPIO: an output nobody drove from outside reads back what was written.
THEOREM GpioHolds == Spec => []OutputReadsBack
  BY PeripheralsHold, Promises, PTL

\* Trace: the captured string is the beginning of what was printed.
THEOREM TraceHolds == Spec => []TextIsTrace
  BY PeripheralsHold, Promises, PTL

\* ADC: the conversions of a channel are numbered without a gap.
THEOREM AdcHolds == Spec => []SweepContinues
  BY PeripheralsHold, Promises, PTL

\* Every backend shows what was written, in order and once.
THEOREM BackendsHold == Spec => []ShownIsWritten
  BY PeripheralsHold, Promises, PTL
=============================================================================
