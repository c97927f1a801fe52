------------------------------ MODULE VpDevice ------------------------------
(***************************************************************************)
(* The register bank every virtual peripheral is built on: vp_device_t of  *)
(* src/src/virtual_peripheral.c.  Its operations are the actions here;     *)
(* VpI2c and VpSpi compose them with their own state.                      *)
(*                                                                         *)
(* The hooks on_read and on_write answer with any of HookResults, 0 where  *)
(* none is set, and on_read may rewrite the bytes it answers with; both    *)
(* are assumed to leave the bank itself to the device.                     *)
(***************************************************************************)
EXTENDS RegisterBank, Sequences

VARIABLES regs, read_calls, write_calls, last_reg, last_status

device == <<regs, read_calls, write_calls, last_reg, last_status>>

DeviceInit ==
    /\ regs = [r \in Regs |-> 0]
    /\ read_calls = 0 /\ write_calls = 0 /\ last_reg = 0 /\ last_status = 0

\* vp_device_reset.
DeviceReset ==
    /\ regs' = [r \in Regs |-> 0]
    /\ read_calls' = 0 /\ write_calls' = 0 /\ last_reg' = 0 /\ last_status' = 0

\* vp_device_read of len registers from reg on, into a buffer or NULL.
DeviceRead(null, reg, len, rc) ==
    /\ Access(null, reg, len, rc)
    /\ read_calls' = read_calls + 1
    /\ last_reg' = reg /\ last_status' = rc
    /\ UNCHANGED <<regs, write_calls>>

\* What the buffer of a read that reaches the bank holds when it returns: the
\* registers, as on_read left them.
Answer(rewrite, reg, len) == [k \in 1 .. len |-> rewrite[regs[reg + k - 1]]]

\* Is register r written by these bytes from reg on?
Within(r, reg, bytes) == r \in reg .. reg + Len(bytes) - 1

MutDeviceWrite(null, reg, bytes, rc) ==
    /\ Access(null, reg, Len(bytes), rc)
    /\ write_calls' = write_calls + 1
    /\ last_reg' = reg /\ last_status' = rc
    /\ regs' = [r \in Regs \cup reg .. reg + Len(bytes) - 1 |->
                  IF Within(r, reg, bytes) THEN bytes[r - reg + 1] ELSE regs[r]]
    /\ UNCHANGED read_calls

\* vp_device_write of bytes, or of NULL: the bank is written before on_write
\* may reject the access.
DeviceWrite(null, reg, bytes, rc) ==
    /\ Access(null, reg, Len(bytes), rc)
    /\ write_calls' = write_calls + 1
    /\ last_reg' = reg /\ last_status' = rc
    /\ regs' = [r \in Regs |->
                  IF Reaches(null, reg, Len(bytes)) /\ Within(r, reg, bytes)
                  THEN bytes[r - reg + 1] ELSE regs[r]]
    /\ UNCHANGED read_calls

\* A pointer-only I2C write goes past vp_device_write but counts as one.
DevicePoint(reg) ==
    /\ write_calls' = write_calls + 1
    /\ last_reg' = reg /\ last_status' = 0
    /\ UNCHANGED <<regs, read_calls>>

DeviceOK ==
    /\ regs \in [Regs -> Bytes]
    /\ read_calls \in Nat /\ write_calls \in Nat
    /\ last_reg \in Nat /\ last_status \in Int
=============================================================================
