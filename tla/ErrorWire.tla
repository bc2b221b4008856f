------------------------------ MODULE ErrorWire ------------------------------
(***************************************************************************)
(* The six bytes a guest reports the outcome of its set-up with: the       *)
(* encoding of a Result<(), PostSpawnGuest> in the guest, the packed       *)
(* structure in memory, and the decoding in the host.                      *)
(***************************************************************************)
EXTENDS Integers, Sequences

CONSTANT LastSyscall  \* the largest number of the enum Syscall, but for Unknown

\* Netlink::Syscall shifts the number by one and must stay below the two
\* subtags that follow.
ASSUME LastSyscallAssumption == LastSyscall \in 0 .. 252

Unknown == 255
Syscalls == 0 .. LastSyscall \cup {Unknown}
Errnos == 1 .. 4095
MaxI32 == 2147483647

NetlinkKinds ==
  <<"MalformedHeader", "TruncatedMessage", "SequenceMismatch", "IncorrectSize",
    "BufferTooSmall", "IntegerOverflow", "IncompleteWrite", "AckTimeout">>

OtherKinds ==
  <<"InvalidCgroupsState", "BufferTooSmall", "IntegerOverflow",
    "InvalidDirectoryMountPoint", "InvalidRegularFileMountPoint",
    "DestinationExists", "MappingsLengthMismatch", "NonzeroResolvedLen",
    "HostSourcedFileMismatch">>

\* Outcomes: a kind, what it is about, and a number.
Ok == <<"Ok", "", 0>>
Plain(kind) == <<kind, "", 0>>
Syscall(s, e) == <<"Syscall", s, e>>
Netlink(kind) == <<"Netlink", kind, 0>>
NetlinkErrno(e) == <<"NetlinkErrno", "", e>>
NetlinkInvalidError(v) == <<"NetlinkInvalidError", "", v>>
NetlinkSyscall(s, e) == <<"NetlinkSyscall", s, e>>
Other(kind) == <<"Other", kind, 0>>

\* The values of PostSpawnGuest, and every i32 for an error number that is none.
IsError(r) ==
  \/ r[1] \in {"IncompleteWrite", "CStrBufferTooSmall", "FromBytesWithNulError",
              "InvalidWireFormat"} /\ r = Plain(r[1])
  \/ r = Syscall(r[2], r[3]) /\ r[2] \in Syscalls /\ r[3] \in Errnos
  \/ \E i \in 1 .. 8 : r = Netlink(NetlinkKinds[i])
  \/ r = NetlinkErrno(r[3]) /\ r[3] \in Errnos
  \/ /\ r = NetlinkInvalidError(r[3]) /\ r[3] \in Int
     /\ -MaxI32 - 1 <= r[3] /\ r[3] <= MaxI32
  \/ r = NetlinkSyscall(r[2], r[3]) /\ r[2] \in Syscalls /\ r[3] \in Errnos
  \/ \E i \in 1 .. 9 : r = Other(OtherKinds[i])

Index(seq, x) == CHOOSE i \in 1 .. Len(seq) : seq[i] = x

Wire(tag, subtag, value) == [tag |-> tag, subtag |-> subtag, value |-> value]

\* The number of a system call without the shift.
SubtagUnshifted(s) == s

Subtag(s) == s + 1

\* From<Result<(), PostSpawnGuest>> for PostSpawnGuestWire
Encode(r) ==
  CASE r = Ok -> Wire(255, 0, 0)
    [] r[1] = "Syscall" -> Wire(254, r[2], r[3])
    [] r[1] = "Netlink" -> Wire(253, 0, Index(NetlinkKinds, r[2]))
    [] r[1] = "NetlinkErrno" -> Wire(253, 255, r[3])
    [] r[1] = "NetlinkInvalidError" -> Wire(253, 254, r[3])
    [] r[1] = "NetlinkSyscall" /\ r[2] < 255 -> Wire(253, Subtag(r[2]), r[3])
    [] r[1] = "NetlinkSyscall" /\ r[2] = 255 -> Wire(253, 0, MaxI32)
    [] r[1] = "IncompleteWrite" -> Wire(252, 0, 0)
    [] r[1] = "CStrBufferTooSmall" -> Wire(251, 0, 0)
    [] r[1] = "FromBytesWithNulError" -> Wire(250, 0, 0)
    [] r[1] = "InvalidWireFormat" -> Wire(249, 0, 0)
    [] r[1] = "Other" -> Wire(Index(OtherKinds, r[2]) - 1, 0, 0)

\* From<u8> for Syscall
SyscallOf(n) == IF n \in 0 .. LastSyscall THEN n ELSE Unknown

Invalid == Plain("InvalidWireFormat")

\* An outcome with the error number v, if there is such a number.
WithErrno(outcome, v) == IF v \in Errnos THEN outcome ELSE Invalid

DecodeNetlink(subtag, v) ==
  CASE subtag = 0 ->
         IF v \in 1 .. Len(NetlinkKinds) THEN Netlink(NetlinkKinds[v]) ELSE Invalid
    [] subtag = 255 -> WithErrno(NetlinkErrno(v), v)
    [] subtag = 254 -> NetlinkInvalidError(v)
    [] subtag \in 1 .. 253 -> WithErrno(NetlinkSyscall(SyscallOf(subtag - 1), v), v)

\* From<u8> for PostSpawnGuest
DecodeOther(tag) ==
  IF tag \in 0 .. Len(OtherKinds) - 1 THEN Other(OtherKinds[tag + 1]) ELSE Invalid

\* From<PostSpawnGuestWire> for Result<(), PostSpawnGuest>
Decode(w) ==
  CASE w.tag = 255 -> Ok
    [] w.tag = 254 -> WithErrno(Syscall(SyscallOf(w.subtag), w.value), w.value)
    [] w.tag = 253 -> DecodeNetlink(w.subtag, w.value)
    [] w.tag = 252 -> Plain("IncompleteWrite")
    [] w.tag = 251 -> Plain("CStrBufferTooSmall")
    [] w.tag = 250 -> Plain("FromBytesWithNulError")
    [] w.tag \in 0 .. 249 -> DecodeOther(w.tag)

(***************************************************************************)
(* repr(C, packed): two bytes and a little-endian i32.                     *)
(***************************************************************************)
MessageSize == 6

BytesOf(w) ==
  <<w.tag, w.subtag, w.value % 256, (w.value \div 256) % 256,
    (w.value \div 65536) % 256, (w.value \div 16777216) % 256>>

Signed(byte) == IF byte >= 128 THEN byte - 256 ELSE byte

FromBytes(b) ==
  Wire(b[1], b[2], Signed(b[6]) * 16777216 + b[5] * 65536 + b[4] * 256 + b[3])

(***************************************************************************)
(* What a report is worth.  Everything the guest can say arrives as it was *)
(* said, but for a system call without a number inside a netlink error:    *)
(* "this should be sufficient to always result in an invalid error".       *)
(***************************************************************************)
Understood(r) == IF r[1] = "NetlinkSyscall" /\ r[2] = Unknown THEN Invalid ELSE r

=============================================================================
