-------------------------------- MODULE VpI2c --------------------------------
(***************************************************************************)
(* The I2C device of src/src/virtual_peripheral.c: a register bank behind  *)
(* a bus address and an 8-bit register pointer, used by a driver under     *)
(* test as the bus master.  vp_i2c_start changes nothing.                  *)
(***************************************************************************)
EXTENDS VpDevice

CONSTANTS
    MaxPointer,        \* greatest first byte of a write (255)
    MaxLen,            \* bound: payload bytes and bytes read at once
    MaxTransactions    \* bound: bus transactions between two resets

\* The payload bytes are told apart: byte k of transaction t is
\* (t - 1) * MaxLen + k.
ASSUME I2cAssumption ==
    /\ {MaxPointer, MaxLen, MaxTransactions} \subseteq Nat
    /\ \A t \in 1 .. MaxTransactions, k \in 1 .. MaxLen : (t - 1) * MaxLen + k \in Bytes

VARIABLES
    cursor,
    transactions,  \* history: transfers with at least one byte since the reset
    sent,          \* history: the writes with payload since then
    origin,        \* history: where the pointer was last set to
    stream         \* history: the bytes that successful reads got since then,
                   \* each with what on_read did to it

history == <<transactions, sent, origin, stream>>
i2c == <<device, cursor, history>>

\* vp_i2c_init on a fresh object.
I2cInit ==
    /\ DeviceInit /\ cursor = 0
    /\ transactions = 0 /\ sent = << >> /\ origin = 0 /\ stream = << >>

Transfer == transactions < MaxTransactions /\ transactions' = transactions + 1

\* vp_device_reset of the base: the cursor stays where it is.
ResetBase ==
    /\ DeviceReset
    /\ transactions' = 0 /\ sent' = << >> /\ origin' = cursor /\ stream' = << >>
    /\ UNCHANGED cursor

Payload(t, n) == [k \in 1 .. n |-> (t - 1) * MaxLen + k]

\* vp_i2c_master_write: the first byte is the register pointer, n more bytes
\* are payload.  A write of nothing, or from NULL, does nothing.
MasterWrite(p, n) ==
    /\ Transfer
    /\ cursor' = p /\ origin' = p /\ stream' = << >>
    /\ LET bytes == Payload(transactions', n)
       IN  IF n > 0
           THEN /\ \E rc \in HookResults \cup {-1} : DeviceWrite(FALSE, p, bytes, rc)
                /\ sent' = Append(sent, [reg |-> p, bytes |-> bytes])
           ELSE DevicePoint(p) /\ UNCHANGED sent

\* The bytes a read gets, each with what on_read did to it.
Got(rewrite, n) ==
    [k \in 1 .. n |-> [by |-> rewrite, byte |-> Answer(rewrite, cursor, n)[k]]]

MutMasterRead(null, n) ==
    /\ Transfer
    /\ \E rc \in HookResults \cup {-1}, rewrite \in Rewrites :
         /\ DeviceRead(null, cursor, n, rc)
         /\ cursor' = cursor + n
         /\ stream' = IF rc = 0 THEN stream \o Got(rewrite, n) ELSE stream
    /\ UNCHANGED <<sent, origin>>

\* vp_i2c_master_read: only a read that succeeds moves the cursor.
MasterRead(null, n) ==
    /\ Transfer
    /\ \E rc \in HookResults \cup {-1}, rewrite \in Rewrites :
         /\ DeviceRead(null, cursor, n, rc)
         /\ IF rc = 0
            THEN cursor' = cursor + n /\ stream' = stream \o Got(rewrite, n)
            ELSE UNCHANGED <<cursor, stream>>
    /\ UNCHANGED <<sent, origin>>

I2cNext ==
    \/ ResetBase
    \/ \E p \in 0 .. MaxPointer, n \in 0 .. MaxLen : MasterWrite(p, n)
    \/ \E null \in BOOLEAN, n \in 0 .. MaxLen : MasterRead(null, n)

I2cSpec == I2cInit /\ [][I2cNext]_i2c
-----------------------------------------------------------------------------
\* The type invariant.
I2cTypes ==
    /\ DeviceOK
    /\ cursor \in Nat /\ origin \in 0 .. (MaxPointer + RegCount)
    /\ transactions \in 0 .. MaxTransactions
    /\ sent \in Seq([reg : Nat, bytes : Seq(Bytes)])
    /\ stream \in Seq([by : Rewrites, byte : Bytes])

\* The writes of a log that fit the bank and cover register r.
WritesOf(log, r) ==
    {j \in DOMAIN log :
       log[j].reg + Len(log[j].bytes) <= RegCount /\ Within(r, log[j].reg, log[j].bytes)}

\* The byte that a log last wrote to register r, 0 if it did not.
LastSent(log, r) ==
    IF WritesOf(log, r) = {} THEN 0
    ELSE LET w == log[CHOOSE j \in WritesOf(log, r) : \A i \in WritesOf(log, r) : i <= j]
         IN  w.bytes[r - w.reg + 1]

\* However transfers fail in between, the cursor is behind the bytes the master
\* has read since it set the pointer, and each of these is what on_read makes of
\* the byte last sent to its register: of a write that on_write rejected as
\* well, of one that does not fit the bank nothing.
ReadsGiveLastSent ==
    /\ cursor = origin + Len(stream)
    /\ \A k \in DOMAIN stream :
         stream[k].byte = stream[k].by[LastSent(sent, origin + k - 1)]
=============================================================================
