----------------------------- MODULE WireProofs ------------------------------
(***************************************************************************)
(* What crosses the two boundaries of the set-up byte by byte. That a      *)
(* report of the guest survives its encoding, its bytes and the pipe, for  *)
(* every error number, every number of system calls and every choice of    *)
(* errors; and that an acknowledgement of the kernel's is read as what it  *)
(* is, for every size of the buffer and the budget, every set of errors    *)
(* and however many datagrams are lost, cut, repeated or put together.     *)
(***************************************************************************)
EXTENDS StatusChannel, Netlink, SequenceTheorems, TLAPS

I32 == {v \in Int : -MaxI32 - 1 <= v /\ v <= MaxI32}

Wires == [tag : 0 .. 255, subtag : 0 .. 255, value : I32]

\* The index of a kind is the index it is found at: the lists have no repetition.
LEMMA NetlinkIndex ==
  ASSUME NEW i \in 1 .. 8
  PROVE  Index(NetlinkKinds, NetlinkKinds[i]) = i
<1>1. i \in {1, 2, 3, 4, 5, 6, 7, 8}
  OBVIOUS
<1>2. \A j \in 1 .. 8 : NetlinkKinds[j] = NetlinkKinds[i] => j = i
  <2>1. SUFFICES ASSUME NEW j \in 1 .. 8, NetlinkKinds[j] = NetlinkKinds[i]
                 PROVE  j = i
    OBVIOUS
  <2>2. j \in {1, 2, 3, 4, 5, 6, 7, 8}
    BY <2>1
  <2> QED
    BY <1>1, <2>1, <2>2 DEF NetlinkKinds
<1>3. Len(NetlinkKinds) = 8
  BY DEF NetlinkKinds
<1> QED
  BY <1>2, <1>3 DEF Index

LEMMA OtherIndex ==
  ASSUME NEW i \in 1 .. 9
  PROVE  Index(OtherKinds, OtherKinds[i]) = i
<1>1. i \in {1, 2, 3, 4, 5, 6, 7, 8, 9}
  OBVIOUS
<1>2. \A j \in 1 .. 9 : OtherKinds[j] = OtherKinds[i] => j = i
  <2>1. SUFFICES ASSUME NEW j \in 1 .. 9, OtherKinds[j] = OtherKinds[i]
                 PROVE  j = i
    OBVIOUS
  <2>2. j \in {1, 2, 3, 4, 5, 6, 7, 8, 9}
    BY <2>1
  <2> QED
    BY <1>1, <2>1, <2>2 DEF OtherKinds
<1>3. Len(OtherKinds) = 9
  BY DEF OtherKinds
<1> QED
  BY <1>2, <1>3 DEF Index

\* The four bytes of an i32 give it back.
LEMMA FourBytes ==
  ASSUME NEW v \in I32
  PROVE  Signed((v \div 16777216) % 256) * 16777216 + ((v \div 65536) % 256) * 65536
           + ((v \div 256) % 256) * 256 + (v % 256) = v
<1> DEFINE a == v \div 256
           b == a \div 256
           c == b \div 256
<1>1. v \in Int /\ -2147483648 <= v /\ v <= 2147483647
  BY SMTT(60) DEF MaxI32, I32
<1>2. a \in Int /\ v = 256 * a + (v % 256) /\ v % 256 \in 0 .. 255
  BY <1>1, SMTT(60)
<1>3. b \in Int /\ a = 256 * b + (a % 256) /\ a % 256 \in 0 .. 255
  <2> HIDE DEF a
  <2> QED
    BY <1>2, SMTT(60)
<1>4. c \in Int /\ b = 256 * c + (b % 256) /\ b % 256 \in 0 .. 255
  <2> HIDE DEF b
  <2> QED
    BY <1>3, SMTT(60)
<1>5. v \div 65536 = b /\ v \div 16777216 = c
  <2> HIDE DEF a, b, c
  <2>1. v = 65536 * b + (256 * (a % 256) + (v % 256))
    BY <1>1, <1>2, <1>3, SMTT(60)
  <2>2. v = 16777216 * c + (65536 * (b % 256) + 256 * (a % 256) + (v % 256))
    BY <1>1, <1>2, <1>3, <1>4, SMTT(60)
  <2>3. v \div 65536 = b
    BY <1>1, <1>2, <1>3, <2>1, SMTT(60)
  <2>4. v \div 16777216 = c
    BY <1>1, <1>2, <1>3, <1>4, <2>2, SMTT(60)
  <2> QED
    BY <2>3, <2>4, SMTT(60)
<1>6. c \in -128 .. 127
  <2> HIDE DEF a, b, c
  <2> QED
    BY <1>1, <1>2, <1>3, <1>4, SMTT(60)
<1>7. Signed(c % 256) = c
  <2> HIDE DEF c
  <2>1. CASE c >= 0
    BY <2>1, <1>6, SMTT(60) DEF Signed
  <2>2. CASE c < 0
    BY <2>2, <1>6, SMTT(60) DEF Signed
  <2> QED
    BY <2>1, <2>2, <1>6, SMTT(60)
<1> HIDE DEF a, b, c
<1>8. c * 16777216 + (b % 256) * 65536 + (a % 256) * 256 + (v % 256) = v
  BY <1>1, <1>2, <1>3, <1>4, SMTT(60)
<1>9. v \div 256 = a
  BY DEF a
<1> QED
  BY <1>5, <1>7, <1>8, <1>9, SMTT(60)

\* A byte of a number is a byte.
LEMMA ByteRange == ASSUME NEW x \in Int PROVE x % 256 \in 0 .. 255
  OBVIOUS

LEMMA QuotientIsInt ==
  ASSUME NEW x \in Int
  PROVE  /\ x \div 256 \in Int /\ x \div 65536 \in Int /\ x \div 16777216 \in Int
  OBVIOUS

LEMMA BytesRoundTrip ==
  ASSUME NEW w \in Wires
  PROVE  /\ BytesOf(w) \in Seq(0 .. 255) /\ Len(BytesOf(w)) = MessageSize
         /\ FromBytes(BytesOf(w)) = w
<1>1. /\ w.tag \in 0 .. 255 /\ w.subtag \in 0 .. 255 /\ w.value \in I32
      /\ w = [tag |-> w.tag, subtag |-> w.subtag, value |-> w.value]
  BY DEF Wires
<1>2. w.value \in Int
  BY <1>1, SMTT(60) DEF MaxI32, I32
<1>3. /\ w.value % 256 \in 0 .. 255 /\ (w.value \div 256) % 256 \in 0 .. 255
      /\ (w.value \div 65536) % 256 \in 0 .. 255 /\ (w.value \div 16777216) % 256 \in 0 .. 255
  <2>1. /\ w.value \div 256 \in Int /\ w.value \div 65536 \in Int
        /\ w.value \div 16777216 \in Int
    BY <1>2, QuotientIsInt
  <2>2. w.value % 256 \in 0 .. 255
    BY <1>2, ByteRange
  <2>3. (w.value \div 256) % 256 \in 0 .. 255
    BY <2>1, ByteRange
  <2>4. (w.value \div 65536) % 256 \in 0 .. 255
    BY <2>1, ByteRange
  <2>5. (w.value \div 16777216) % 256 \in 0 .. 255
    BY <2>1, ByteRange
  <2> QED
    BY <2>2, <2>3, <2>4, <2>5
<1>4. BytesOf(w) \in Seq(0 .. 255) /\ Len(BytesOf(w)) = MessageSize
  BY <1>1, <1>3 DEF BytesOf, MessageSize
<1>5. FromBytes(BytesOf(w)) = w
  <2>1. FromBytes(BytesOf(w)) =
          Wire(w.tag, w.subtag,
               Signed((w.value \div 16777216) % 256) * 16777216
                 + ((w.value \div 65536) % 256) * 65536
                 + ((w.value \div 256) % 256) * 256 + (w.value % 256))
    BY DEF FromBytes, BytesOf
  <2> QED
    BY <2>1, <1>1, FourBytes DEF Wire
<1> QED
  BY <1>4, <1>5

LEMMA WithErrnoOfErrno ==
  ASSUME NEW o, NEW e \in Errnos
  PROVE  WithErrno(o, e) = o
BY DEF WithErrno

\* Every number the guest has is one the host knows.
LEMMA SyscallRoundTrip ==
  ASSUME NEW s \in Syscalls
  PROVE  SyscallOf(s) = s /\ s \in 0 .. 255 /\ (s # Unknown => s \in 0 .. 252)
BY LastSyscallAssumption DEF SyscallOf, Syscalls, Unknown

\* Every outcome has a wire form, and the host understands it as it was meant.
LEMMA EncodeRoundTrip ==
  ASSUME NEW r, r = Ok \/ IsError(r)
  PROVE  Encode(r) \in Wires /\ Decode(Encode(r)) = Understood(r)
<1> USE DEF Wires, Wire, Understood, Unknown
<1>1. CASE r = Ok
  <2>0. r = <<"Ok", "", 0>> /\ r[1] = "Ok"
    BY <1>1 DEF Ok
  <2>1. Encode(r) = Wire(255, 0, 0)
    BY <1>1, <2>0 DEF Encode
  <2>2. Decode(Encode(r)) = Ok
    BY <2>1 DEF Decode
  <2>3. Understood(r) = Ok
    BY <1>1, <2>0
  <2> QED
    BY <2>1, <2>2, <2>3, SMTT(60) DEF MaxI32, I32
<1>2. CASE \E s \in Syscalls, e \in Errnos : r = Syscall(s, e)
  <2>1. PICK s \in Syscalls, e \in Errnos : r = Syscall(s, e)
    BY <1>2
  <2>2. r[1] = "Syscall" /\ r[2] = s /\ r[3] = e /\ r # Ok
    BY <2>1 DEF Syscall, Ok
  <2>3. Encode(r) = Wire(254, s, e)
    BY <2>2 DEF Encode
  <2>4. e \in I32
    BY SMTT(60) DEF Errnos, MaxI32, I32
  <2> QED
    BY <2>1, <2>2, <2>3, <2>4, SyscallRoundTrip, WithErrnoOfErrno DEF Decode
<1>3. CASE \E i \in 1 .. 8 : r = Netlink(NetlinkKinds[i])
  <2>1. PICK i \in 1 .. 8 : r = Netlink(NetlinkKinds[i])
    BY <1>3
  <2>2. r[1] = "Netlink" /\ r[2] = NetlinkKinds[i] /\ r # Ok
    BY <2>1 DEF Netlink, Ok
  <2>3. Encode(r) = Wire(253, 0, i)
    BY <2>2, NetlinkIndex DEF Encode
  <2>4. Len(NetlinkKinds) = 8
    BY DEF NetlinkKinds
  <2>5. Decode(Encode(r)) = Netlink(NetlinkKinds[i])
    BY <2>3, <2>4 DEF Decode, DecodeNetlink
  <2> QED
    BY <2>1, <2>2, <2>3, <2>5, SMTT(60) DEF MaxI32, I32
<1>4. CASE \E e \in Errnos : r = NetlinkErrno(e)
  <2>1. PICK e \in Errnos : r = NetlinkErrno(e)
    BY <1>4
  <2>2. r[1] = "NetlinkErrno" /\ r[3] = e /\ r # Ok
    BY <2>1 DEF NetlinkErrno, Ok
  <2>3. Encode(r) = Wire(253, 255, e)
    BY <2>2 DEF Encode
  <2>4. e \in I32
    BY SMTT(60) DEF Errnos, MaxI32, I32
  <2> QED
    BY <2>1, <2>2, <2>3, <2>4, WithErrnoOfErrno DEF Decode, DecodeNetlink
<1>5. CASE \E v \in I32 : r = NetlinkInvalidError(v)
  <2>1. PICK v \in I32 : r = NetlinkInvalidError(v)
    BY <1>5
  <2>2. r[1] = "NetlinkInvalidError" /\ r[3] = v /\ r # Ok
    BY <2>1 DEF NetlinkInvalidError, Ok
  <2>3. Encode(r) = Wire(253, 254, v)
    BY <2>2 DEF Encode
  <2> QED
    BY <2>1, <2>2, <2>3 DEF Decode, DecodeNetlink
<1>6. CASE \E s \in Syscalls, e \in Errnos : r = NetlinkSyscall(s, e)
  <2>1. PICK s \in Syscalls, e \in Errnos : r = NetlinkSyscall(s, e)
    BY <1>6
  <2>2. r[1] = "NetlinkSyscall" /\ r[2] = s /\ r[3] = e /\ r # Ok
    BY <2>1 DEF NetlinkSyscall, Ok
  <2>3. e \in I32
    BY SMTT(60) DEF Errnos, MaxI32, I32
  <2>4. CASE s = Unknown
    <3>1. Encode(r) = Wire(253, 0, MaxI32)
      BY <2>2, <2>4 DEF Encode
    <3>2. Len(NetlinkKinds) = 8
      BY DEF NetlinkKinds
    <3> QED
      BY <2>2, <2>4, <3>1, <3>2, SMTT(60) DEF Decode, DecodeNetlink, MaxI32, I32
  <2>5. CASE s # Unknown
    <3>1. s \in 0 .. 252 /\ SyscallOf(s) = s
      BY <2>5, SyscallRoundTrip
    <3>2. Encode(r) = Wire(253, s + 1, e)
      BY <2>2, <3>1 DEF Encode, Subtag
    <3>3. s + 1 \in 1 .. 253 /\ s + 1 \in 0 .. 255 /\ (s + 1) - 1 = s
      BY <3>1
    <3>4. Decode(Encode(r)) = WithErrno(NetlinkSyscall(SyscallOf(s), e), e)
      BY <3>2, <3>3 DEF Decode, DecodeNetlink
    <3> QED
      BY <2>1, <2>2, <2>3, <2>5, <3>1, <3>2, <3>3, <3>4, WithErrnoOfErrno
  <2> QED
    BY <2>4, <2>5
<1>7. CASE \E i \in 1 .. 9 : r = Other(OtherKinds[i])
  <2>1. PICK i \in 1 .. 9 : r = Other(OtherKinds[i])
    BY <1>7
  <2>2. r[1] = "Other" /\ r[2] = OtherKinds[i] /\ r # Ok
    BY <2>1 DEF Other, Ok
  <2>3. Encode(r) = Wire(i - 1, 0, 0)
    BY <2>2, OtherIndex DEF Encode
  <2>4. Len(OtherKinds) = 9
    BY DEF OtherKinds
  <2>5. i - 1 \in 0 .. 8 /\ (i - 1) + 1 = i
    OBVIOUS
  <2>6. Decode(Encode(r)) = Other(OtherKinds[i])
    BY <2>3, <2>4, <2>5 DEF Decode, DecodeOther
  <2> QED
    BY <2>1, <2>2, <2>3, <2>5, <2>6, SMTT(60) DEF MaxI32, I32
<1>8. CASE \E k \in {"IncompleteWrite", "CStrBufferTooSmall", "FromBytesWithNulError",
                     "InvalidWireFormat"} : r = Plain(k)
  <2>1. PICK k \in {"IncompleteWrite", "CStrBufferTooSmall", "FromBytesWithNulError",
                    "InvalidWireFormat"} : r = Plain(k)
    BY <1>8
  <2>2. r[1] = k /\ r # Ok
    BY <2>1 DEF Plain, Ok
  <2>3. Len(OtherKinds) = 9
    BY DEF OtherKinds
  <2>4. 0 \in I32
    BY SMTT(60) DEF MaxI32, I32
  <2>5. Understood(r) = r
    BY <2>1, <2>2
  <2>6. CASE k = "IncompleteWrite"
    <3>1. Encode(r) = Wire(252, 0, 0)
      BY <2>2, <2>6 DEF Encode
    <3> QED
      BY SMTT(30), <2>1, <2>4, <2>5, <2>6, <3>1 DEF Decode
  <2>7. CASE k = "CStrBufferTooSmall"
    <3>1. Encode(r) = Wire(251, 0, 0)
      BY <2>2, <2>7 DEF Encode
    <3> QED
      BY SMTT(30), <2>1, <2>4, <2>5, <2>7, <3>1 DEF Decode
  <2>8. CASE k = "FromBytesWithNulError"
    <3>1. Encode(r) = Wire(250, 0, 0)
      BY <2>2, <2>8 DEF Encode
    <3> QED
      BY SMTT(30), <2>1, <2>4, <2>5, <2>8, <3>1 DEF Decode
  <2>9. CASE k = "InvalidWireFormat"
    <3>1. Encode(r) = Wire(249, 0, 0)
      BY <2>2, <2>9 DEF Encode
    <3>2. Decode(Encode(r)) = Invalid
      BY <2>3, <3>1 DEF Decode, DecodeOther
    <3> QED
      BY <2>1, <2>4, <2>5, <2>9, <3>1, <3>2 DEF Invalid
  <2> QED
    BY <2>6, <2>7, <2>8, <2>9
<1> QED
  BY <1>1, <1>2, <1>3, <1>4, <1>5, <1>6, <1>7, <1>8 DEF IsError, I32

\* What arrives of a report is what it says, but for a system call without a
\* number inside a netlink error: no two outcomes share their bytes otherwise.
THEOREM WireRoundTrip ==
  ASSUME NEW r, r = Ok \/ IsError(r)
  PROVE  /\ BytesOf(Encode(r)) \in Seq(0 .. 255)
         /\ Len(BytesOf(Encode(r))) = MessageSize
         /\ Decode(FromBytes(BytesOf(Encode(r)))) = Understood(r)
BY EncodeRoundTrip, BytesRoundTrip

(***************************************************************************)
(* The pipe.  Bytes(1) \o Bytes(2) are the reports of which every byte was *)
(* written; the host has taken some of them from the front.                *)
(***************************************************************************)
Byte == 0 .. 255
Messages == SetupErrors \cup ExecErrors \cup {Ok}
Msg(i) == BytesOf(Encode(reports[i]))
Delivered(i) ==
  i \in 1 .. Len(reports) /\ i \notin lost /\ (i = Len(reports) => out = <<>>)
Bytes(i) == IF Delivered(i) THEN Msg(i) ELSE <<>>

TypeOK ==
  /\ guest \in Alive \cup {"program", "exited"}
  /\ reports \in Seq(Messages) /\ Len(reports) \in 0 .. 2
  /\ lost \subseteq 1 .. Len(reports)
  /\ pipe \in Seq(Byte) /\ buf \in Seq(Byte) /\ Len(buf) \in 0 .. MessageSize
  /\ host \in {"read_setup", "read_exec", "done"}

\* What the guest has reported at each of its steps, and what it has yet to
\* write of its last report: all of it or nothing.
GuestOK ==
  /\ out # <<>> =>
       reports # <<>> /\ out = Msg(Len(reports)) /\ Len(reports) \notin lost
  /\ guest \in {"setup", "action", "program", "exited"} => out = <<>>
  /\ guest = "setup" => reports = <<>>
  /\ guest \in {"write_setup", "action", "program"} => Len(reports) = 1
  /\ guest \in {"action", "program"} => reports[1] = Ok
  /\ guest = "write_exec" => Len(reports) = 2
  /\ Len(reports) = 2 => reports[1] = Ok /\ reports[2] # Ok

InTransit ==
  /\ host = "read_setup" => buf \o pipe = Bytes(1) \o Bytes(2)
  /\ host = "read_exec" =>
       Delivered(1) /\ reports[1] = Ok /\ buf \o pipe = Bytes(2)

Answered ==
  host = "done" =>
    \/ /\ answer = Ok
       /\ Delivered(1) /\ reports[1] = Ok /\ guest \notin Alive
       /\ Len(reports) = 2 => 2 \in lost
    \/ /\ Len(reports) # 0 /\ Delivered(Len(reports)) /\ reports[Len(reports)] # Ok
       /\ answer = Understood(reports[Len(reports)])
    \/ answer[1] = "PartialTransfer" /\ answer[2] = "error"
    \/ /\ answer = PartialTransfer(0, "")
       /\ guest \notin Alive
       /\ reports = <<>> \/ 1 \in lost

IInv == TypeOK /\ GuestOK /\ InTransit /\ Answered

\* An error is not understood as a success or as a transfer cut short.
LEMMA UnderstoodError ==
  ASSUME NEW r, IsError(r)
  PROVE  r # Ok /\ Understood(r) # Ok /\ Understood(r)[1] # "PartialTransfer"
<1>1. r[1] \in {"IncompleteWrite", "CStrBufferTooSmall", "FromBytesWithNulError",
                "InvalidWireFormat", "Syscall", "Netlink", "NetlinkErrno",
                "NetlinkInvalidError", "NetlinkSyscall", "Other"}
  <2>1. \A x, y : /\ Syscall(x, y)[1] = "Syscall"
                  /\ NetlinkSyscall(x, y)[1] = "NetlinkSyscall"
    BY DEF Syscall, NetlinkSyscall
  <2>2. \A x : /\ Netlink(x)[1] = "Netlink" /\ NetlinkErrno(x)[1] = "NetlinkErrno"
               /\ NetlinkInvalidError(x)[1] = "NetlinkInvalidError"
               /\ Other(x)[1] = "Other"
    BY DEF Netlink, NetlinkErrno, NetlinkInvalidError, Other
  <2>3. r = Syscall(r[2], r[3]) => r[1] = "Syscall"
    BY <2>1, Zenon
  <2>4. r = NetlinkSyscall(r[2], r[3]) => r[1] = "NetlinkSyscall"
    BY <2>1, Zenon
  <2>5. r = NetlinkErrno(r[3]) => r[1] = "NetlinkErrno"
    BY <2>2, Zenon
  <2>6. r = NetlinkInvalidError(r[3]) => r[1] = "NetlinkInvalidError"
    BY <2>2, Zenon
  <2>7. /\ (\E x : r = Netlink(x)) => r[1] = "Netlink"
        /\ (\E x : r = Other(x)) => r[1] = "Other"
    BY <2>2, Zenon
  <2> QED
    BY <2>3, <2>4, <2>5, <2>6, <2>7, Zenon DEF IsError
<1>2. Ok[1] = "Ok" /\ Invalid[1] = "InvalidWireFormat"
  BY DEF Ok, Invalid, Plain
<1> QED
  BY <1>1, <1>2 DEF Understood

LEMMA MessageFacts ==
  ASSUME TypeOK, NEW i \in 1 .. Len(reports)
  PROVE  /\ reports[i] \in Messages
         /\ Msg(i) \in Seq(Byte) /\ Len(Msg(i)) = 6 /\ Msg(i) # <<>>
         /\ Decode(FromBytes(Msg(i))) = Understood(reports[i])
<1>1. reports[i] \in Messages
  BY DEF TypeOK
<1>2. reports[i] = Ok \/ IsError(reports[i])
  BY <1>1, ErrorsAssumption DEF Messages
<1> QED
  BY <1>1, <1>2, WireRoundTrip DEF Msg, Byte, MessageSize

LEMMA BytesFacts ==
  ASSUME TypeOK, NEW i \in {1, 2}
  PROVE  /\ Bytes(i) \in Seq(Byte)
         /\ Delivered(i) => Bytes(i) = Msg(i) /\ Len(Bytes(i)) = 6
         /\ ~Delivered(i) => Bytes(i) = <<>> /\ Len(Bytes(i)) = 0
<1>1. CASE Delivered(i)
  BY <1>1, MessageFacts DEF Bytes, Delivered
<1>2. CASE ~Delivered(i)
  BY <1>2, EmptySeq DEF Bytes
<1> QED
  BY <1>1, <1>2

\* The bytes as sequences.
LEMMA Catenation ==
  /\ <<>> \in Seq(Byte) /\ Len(<<>>) = 0
  /\ \A a \in Seq(Byte) : /\ Len(a) \in Nat /\ (Len(a) = 0 => a = <<>>)
                          /\ a \o <<>> = a /\ <<>> \o a = a
  /\ \A a, b \in Seq(Byte) : a \o b \in Seq(Byte) /\ Len(a \o b) = Len(a) + Len(b)
  /\ \A a, b, c \in Seq(Byte) : (a \o b) \o c = a \o (b \o c)
<1>1. \A a \in Seq(Byte) : Len(a) \in Nat /\ (Len(a) = 0 => a = <<>>)
  BY EmptySeq, LenProperties
<1>2. \A a, b \in Seq(Byte) : a \o b \in Seq(Byte) /\ Len(a \o b) = Len(a) + Len(b)
  BY ConcatProperties
<1>3. \A a, b, c \in Seq(Byte) : (a \o b) \o c = a \o (b \o c)
  BY ConcatAssociative
<1> QED
  BY <1>1, <1>2, <1>3, EmptySeq, ConcatEmptySeq

\* Two ways to cut a sequence at the same place are one.
LEMMA Cancel ==
  ASSUME NEW a \in Seq(Byte), NEW b \in Seq(Byte), NEW c \in Seq(Byte),
         NEW d \in Seq(Byte), a \o b = c \o d, Len(a) = Len(c)
  PROVE  a = c /\ b = d
<1>1. \A i \in 1 .. Len(a) : a[i] = c[i]
  <2> SUFFICES ASSUME NEW i \in 1 .. Len(a)
               PROVE  a[i] = c[i]
    OBVIOUS
  <2>1. (a \o b)[i] = a[i] /\ (c \o d)[i] = c[i]
    BY ConcatProperties
  <2> QED
    BY <2>1
<1>2. a = c
  BY <1>1, SeqEqual
<1> QED
  BY <1>2, ConcatSimplifications

\* A step that changes nothing of the reports leaves what was delivered alone.
LEMMA SameReports ==
  ASSUME reports' = reports, lost' = lost, out' = out
  PROVE  \A i : /\ Msg(i)' = Msg(i) /\ Delivered(i)' = Delivered(i)
                /\ Bytes(i)' = Bytes(i)
BY DEF Msg, Delivered, Bytes

LEMMA InitInv == Init => IInv
<1> SUFFICES ASSUME Init PROVE IInv
  OBVIOUS
<1>1. <<>> \in Seq(Byte) /\ <<>> \in Seq(Messages) /\ Len(<<>>) = 0 /\ <<>> \o <<>> = <<>>
  BY EmptySeq, ConcatEmptySeq
<1>2. TypeOK /\ GuestOK /\ Answered
  BY <1>1 DEF Init, TypeOK, GuestOK, Answered, MessageSize, Alive
<1>3. InTransit
  BY <1>1 DEF Init, InTransit, Bytes, Delivered
<1> QED
  BY <1>2, <1>3 DEF IInv

LEMMA ReportInv ==
  ASSUME IInv, NEW r \in Messages, NEW to,
         \/ guest = "setup" /\ to = "write_setup"
         \/ guest = "action" /\ to = "write_exec" /\ r # Ok,
         Report(r, to)
  PROVE  IInv'
<1> USE DEF IInv
<1>1. /\ reports' = Append(reports, r) /\ out' = BytesOf(Encode(r)) /\ guest' = to
      /\ lost' = lost /\ pipe' = pipe /\ host' = host /\ buf' = buf /\ answer' = answer
  BY DEF Report
<1>2. /\ reports' \in Seq(Messages) /\ Len(reports') = Len(reports) + 1
      /\ reports'[Len(reports')] = r
      /\ \A i \in 1 .. Len(reports) : reports'[i] = reports[i]
  BY <1>1 DEF TypeOK
<1>3. /\ guest = "setup" => Len(reports) = 0
      /\ guest = "action" => Len(reports) = 1 /\ reports[1] = Ok
      /\ out = <<>>
  BY EmptySeq DEF GuestOK
<1>4. TypeOK'
  BY <1>1, <1>2, <1>3 DEF TypeOK, Alive
<1>5. out' = Msg(Len(reports))' /\ out' # <<>>
  BY <1>1, <1>2, <1>3, <1>4, MessageFacts, WireRoundTrip, ErrorsAssumption
     DEF Msg, Messages, MessageSize
<1>6. GuestOK'
  <2>1. reports' # <<>> /\ Len(reports') \notin lost'
    BY <1>1, <1>2, <1>3, <1>4, EmptySeq DEF TypeOK
  <2>2. guest = "setup" => Len(reports') = 1
    BY <1>2, <1>3
  <2>3. guest = "action" => Len(reports') = 2 /\ reports'[1] = Ok /\ reports'[2] # Ok
    <3> SUFFICES ASSUME guest = "action"
                 PROVE  Len(reports') = 2 /\ reports'[1] = Ok /\ reports'[2] # Ok
      OBVIOUS
    <3>1. Len(reports) = 1 /\ reports[1] = Ok /\ r # Ok
      BY <1>3
    <3>2. Len(reports') = 2
      BY <1>2, <3>1
    <3>3. reports'[2] = r /\ reports'[1] = reports[1]
      BY <1>2, <3>1, <3>2
    <3> QED
      BY <3>1, <3>2, <3>3
  <2> QED
    BY <1>1, <1>5, <2>1, <2>2, <2>3 DEF GuestOK
<1>7. \A i \in {1, 2} : Delivered(i)' = Delivered(i) /\ Bytes(i)' = Bytes(i)
  BY <1>1, <1>2, <1>3, <1>5 DEF Delivered, Bytes, Msg
<1>8. InTransit'
  BY <1>1, <1>2, <1>3, <1>7 DEF InTransit, Delivered
<1>9. Answered'
  BY <1>1, <1>2, <1>3 DEF Answered, Alive, Delivered
<1> QED
  BY <1>4, <1>6, <1>8, <1>9

LEMMA WriteInv == IInv /\ Write => IInv'
<1> SUFFICES ASSUME IInv, Write PROVE IInv'
  OBVIOUS
<1> USE DEF IInv
<1>0. PICK n \in Taken : /\ pipe' = pipe \o SubSeq(out, 1, n)
                         /\ out' = SubSeq(out, n + 1, Len(out))
  BY DEF Write
<1>1. /\ guest \in {"write_setup", "write_exec"} /\ out # <<>>
      /\ guest' = guest /\ reports' = reports /\ lost' = lost
      /\ host' = host /\ buf' = buf /\ answer' = answer
  BY DEF Write
<1>11. PICK l \in {1, 2} : l = Len(reports)
  BY <1>1, EmptySeq DEF GuestOK, TypeOK
<1>2. l = Len(reports) /\ out = Msg(l) /\ out \in Seq(Byte) /\ Len(out) = 6
  BY <1>1, <1>11, MessageFacts DEF GuestOK
<1>3. n = 6
  BY <1>2, PipeBufAssumption DEF Taken, MessageSize
<1>4. pipe' = pipe \o Msg(l) /\ out' = <<>>
  <2>1. SubSeq(out, 1, n) = out
    BY <1>2, <1>3, SubSeqFull
  <2>2. SubSeq(out, n + 1, Len(out)) = <<>>
    BY <1>2, <1>3, SubSeqEmpty
  <2>3. pipe' = pipe \o out /\ out' = <<>>
    BY <1>0, <2>1, <2>2, Zenon
  <2> QED
    BY <1>2, <2>3
<1>5. TypeOK'
  BY <1>1, <1>2, <1>4, ConcatProperties DEF TypeOK
<1>6. GuestOK'
  BY <1>1, <1>4 DEF GuestOK
<1>7. l \notin lost
  BY <1>1, <1>11 DEF GuestOK
<1>8. /\ ~Delivered(l) /\ Delivered(l)' /\ Bytes(l) = <<>> /\ Bytes(l)' = Msg(l)
      /\ l = 1 => ~Delivered(2) /\ ~Delivered(2)' /\ Bytes(2) = <<>> /\ Bytes(2)' = <<>>
      /\ l = 2 => Delivered(1)' = Delivered(1) /\ Bytes(1)' = Bytes(1)
  <2>1. Msg(1)' = Msg(1) /\ Msg(2)' = Msg(2)
    BY <1>1 DEF Msg
  <2>2. ~Delivered(l) /\ Delivered(l)' /\ (l = 1 => ~Delivered(2) /\ ~Delivered(2)')
    <3>1. l \in 1 .. Len(reports) /\ (l = 1 => 2 \notin 1 .. Len(reports))
      BY <1>11
    <3>2. Len(reports') = l /\ l \notin lost'
      BY <1>1, <1>7, <1>11
    <3>3. ~Delivered(l)
      BY <1>1, <1>11 DEF Delivered
    <3>4. Delivered(l)'
      BY <1>1, <1>4, <3>1, <3>2 DEF Delivered
    <3>5. l = 1 => ~Delivered(2) /\ ~Delivered(2)'
      BY <1>1, <3>1 DEF Delivered
    <3> QED
      BY <3>3, <3>4, <3>5
  <2>3. l = 2 => Delivered(1)' = Delivered(1)
    BY <1>1, <1>2 DEF Delivered
  <2> QED
    <3>1. CASE l = 1
      <4>1. /\ ~Delivered(1) /\ Delivered(1)' /\ ~Delivered(2) /\ ~Delivered(2)'
        BY <2>2, <3>1
      <4> QED
        BY <3>1, <4>1, <2>1 DEF Bytes
    <3>2. CASE l = 2
      <4>1. /\ ~Delivered(2) /\ Delivered(2)' /\ Delivered(1)' = Delivered(1)
        BY <2>2, <2>3, <3>2
      <4> QED
        BY <3>2, <4>1, <2>1 DEF Bytes
    <3> QED
      BY <1>2, <3>1, <3>2
<1>9. InTransit'
  <2>1. buf \o (pipe \o Msg(l)) = (buf \o pipe) \o Msg(l)
    <3>1. buf \in Seq(Byte) /\ pipe \in Seq(Byte) /\ Msg(l) \in Seq(Byte)
      BY <1>2 DEF TypeOK
    <3> QED
      BY <3>1, Catenation
  <2>2. CASE l = 1
    <3>1. Bytes(1) \o Bytes(2) = <<>> /\ Bytes(1)' \o Bytes(2)' = Msg(1)
      <4>1. Bytes(1) = <<>> /\ Bytes(2) = <<>> /\ Bytes(1)' = Msg(1) /\ Bytes(2)' = <<>>
        BY <1>8, <2>2
      <4>2. <<>> \o <<>> = <<>> /\ Msg(1) \o <<>> = Msg(1)
        BY <1>2, <2>2, Catenation
      <4> QED
        BY <4>1, <4>2
    <3>2. <<>> \o Msg(1) = Msg(1)
      BY <1>2, <2>2, ConcatEmptySeq
    <3> QED
      BY <1>1, <1>4, <1>8, <2>1, <2>2, <3>1, <3>2 DEF InTransit
  <2>3. CASE l = 2
    <3>1. /\ (Bytes(1) \o Bytes(2)) \o Msg(2) = Bytes(1)' \o Bytes(2)'
          /\ Bytes(2) \o Msg(2) = Bytes(2)'
      <4>1. Bytes(1) \in Seq(Byte) /\ Bytes(2) = <<>> /\ Msg(2) \in Seq(Byte)
        BY <1>2, <1>8, <2>3, BytesFacts
      <4>2. Bytes(1)' = Bytes(1) /\ Bytes(2)' = Msg(2)
        BY <1>8, <2>3
      <4>3. Bytes(1) \o <<>> = Bytes(1) /\ <<>> \o Msg(2) = Msg(2)
        BY <4>1, Catenation
      <4> QED
        BY <4>1, <4>2, <4>3
    <3> QED
      BY <1>1, <1>4, <1>8, <2>1, <2>3, <3>1 DEF InTransit
  <2> QED
    BY <1>2, <2>2, <2>3
<1>10. Answered'
  BY <1>1, <1>2, <1>8 DEF Answered, Alive
<1> QED
  BY <1>5, <1>6, <1>9, <1>10

\* What becomes of a guest that is interrupted in a write, or never gets to it.
LEMMA LoseInv ==
  ASSUME IInv, guest \in Alive, guest' \in {guest, "exited"}, out' = <<>>,
         lost' = IF out = <<>> THEN lost ELSE lost \cup {Len(reports)},
         UNCHANGED <<reports, pipe, host, buf, answer>>
  PROVE  IInv'
<1> USE DEF IInv
<1>1. out # <<>> => Len(reports) \in 1 .. 2
  BY EmptySeq DEF GuestOK, TypeOK
<1>2. TypeOK'
  <2>1. lost' \subseteq 1 .. Len(reports)
    <3>1. lost \subseteq 1 .. Len(reports)
      BY DEF TypeOK
    <3>2. out # <<>> => Len(reports) \in 1 .. Len(reports)
      BY <1>1
    <3> QED
      BY <3>1, <3>2
  <2> QED
    BY <2>1 DEF TypeOK
<1>3. GuestOK'
  BY DEF GuestOK, Alive
<1>4. \A i \in {1, 2} : Delivered(i)' = Delivered(i) /\ Bytes(i)' = Bytes(i)
  BY <1>1 DEF GuestOK, Delivered, Bytes, Msg
<1>5. InTransit'
  BY <1>4 DEF InTransit
<1>6. Answered'
  <2>1. Len(reports) # 0 => Len(reports) \in {1, 2}
    BY DEF TypeOK
  <2>2. Len(reports) # 0 => Delivered(Len(reports))' = Delivered(Len(reports))
    BY <1>4, <2>1
  <2> QED
    BY <1>4, <2>2 DEF Answered
<1> QED
  BY <1>2, <1>3, <1>5, <1>6

LEMMA LeaveInv ==
  ASSUME IInv, Continue \/ Exec
  PROVE  IInv'
<1> USE DEF IInv
<1>1. /\ reports' = reports /\ lost' = lost /\ out' = out /\ out = <<>>
      /\ pipe' = pipe /\ host' = host /\ buf' = buf /\ answer' = answer
  BY DEF Continue, Exec, GuestOK
<1>2. /\ guest \in {"write_setup", "write_exec", "action"}
      /\ guest' \in {"action", "exited", "program"}
      /\ guest' = "action" => Len(reports) = 1 /\ reports[1] = Ok
      /\ guest' = "program" => guest = "action"
  BY DEF Continue, Exec, GuestOK
<1>3. TypeOK'
  BY <1>1, <1>2 DEF TypeOK, Alive
<1>4. GuestOK'
  BY <1>1, <1>2 DEF GuestOK
<1>5. \A i : Delivered(i)' = Delivered(i) /\ Bytes(i)' = Bytes(i)
  BY <1>1, SameReports
<1>6. InTransit'
  BY <1>1, <1>5 DEF InTransit
<1>7. Answered'
  BY <1>1, <1>2, <1>5 DEF Answered, Alive
<1> QED
  BY <1>3, <1>4, <1>6, <1>7

LEMMA ReadInv == IInv /\ Read => IInv'
<1> SUFFICES ASSUME IInv, Read PROVE IInv'
  OBVIOUS
<1> USE DEF IInv
<1>1. PICK n \in 1 .. MinOf(Len(pipe), MessageSize - Len(buf)) :
             /\ buf' = buf \o SubSeq(pipe, 1, n)
             /\ pipe' = SubSeq(pipe, n + 1, Len(pipe))
  BY DEF Read
<1>2. /\ host \in {"read_setup", "read_exec"} /\ guest' = guest /\ reports' = reports
      /\ lost' = lost /\ out' = out /\ host' = host /\ answer' = answer
  BY DEF Read, Reading
<1>3. n \in 1 .. Len(pipe) /\ n <= MessageSize - Len(buf)
  BY <1>1 DEF MinOf, MessageSize, TypeOK
<1>4. /\ SubSeq(pipe, 1, n) \in Seq(Byte) /\ Len(SubSeq(pipe, 1, n)) = n
      /\ SubSeq(pipe, n + 1, Len(pipe)) \in Seq(Byte)
  BY <1>3, SubSeqProperties DEF TypeOK
<1>5. TypeOK'
  <2>1. buf' \in Seq(Byte) /\ Len(buf') = Len(buf) + n /\ pipe' \in Seq(Byte)
    BY <1>1, <1>4, Catenation DEF TypeOK
  <2>2. Len(buf') \in 0 .. MessageSize
    BY <1>3, <2>1, SMTT(60) DEF TypeOK, MessageSize
  <2> QED
    BY <1>2, <2>1, <2>2 DEF TypeOK
<1>6. buf' \o pipe' = buf \o pipe
  <2>1. SubSeq(pipe, 1, n) \o SubSeq(pipe, n + 1, Len(pipe)) = pipe
    BY <1>3, ConcatAdjacentSubSeq, SubSeqFull DEF TypeOK
  <2> QED
    <3>1. buf \in Seq(Byte)
      BY DEF TypeOK
    <3>2. (buf \o SubSeq(pipe, 1, n)) \o SubSeq(pipe, n + 1, Len(pipe))
            = buf \o (SubSeq(pipe, 1, n) \o SubSeq(pipe, n + 1, Len(pipe)))
      BY <1>4, <3>1, Catenation, ZenonT(60)
    <3> QED
      BY <1>1, <2>1, <3>2, Zenon
<1>7. \A i : /\ Msg(i)' = Msg(i) /\ Delivered(i)' = Delivered(i)
             /\ Bytes(i)' = Bytes(i)
  BY <1>2, SameReports
<1>8. GuestOK' /\ InTransit' /\ Answered'
  BY <1>2, <1>6, <1>7 DEF GuestOK, InTransit, Answered
<1> QED
  BY <1>5, <1>8

\* The host answers once, from what it has read.
LEMMA ReturnInv ==
  ASSUME IInv, NEW a, Return(a),
         \/ a = Ok /\ Delivered(1) /\ reports[1] = Ok /\ guest \notin Alive
            /\ (Len(reports) = 2 => 2 \in lost)
         \/ /\ Len(reports) # 0 /\ Delivered(Len(reports)) /\ reports[Len(reports)] # Ok
            /\ a = Understood(reports[Len(reports)])
         \/ a[1] = "PartialTransfer" /\ a[2] = "error"
         \/ a = PartialTransfer(0, "") /\ guest \notin Alive
            /\ (reports = <<>> \/ 1 \in lost)
  PROVE  IInv'
<1> USE DEF IInv
<1>1. /\ host' = "done" /\ answer' = a /\ guest' = guest /\ reports' = reports
      /\ lost' = lost /\ out' = out /\ pipe' = pipe /\ buf' = buf
  BY DEF Return
<1>2. \A i : /\ Msg(i)' = Msg(i) /\ Delivered(i)' = Delivered(i)
             /\ Bytes(i)' = Bytes(i)
  BY <1>1, SameReports
<1>3. TypeOK'
  BY <1>1 DEF TypeOK
<1>4. GuestOK' /\ InTransit'
  BY <1>1, <1>2 DEF GuestOK, InTransit
<1>5. Answered'
  BY <1>1, <1>2 DEF Answered
<1> QED
  BY <1>3, <1>4, <1>5

LEMMA EndOfFileInv == IInv /\ EndOfFile => IInv'
<1> SUFFICES ASSUME IInv, EndOfFile PROVE IInv'
  OBVIOUS
<1> USE DEF IInv
<1>1. /\ host \in {"read_setup", "read_exec"} /\ Len(buf) < 6
      /\ pipe = <<>> /\ guest \notin Alive /\ out = <<>>
  BY DEF EndOfFile, Reading, MessageSize, TypeOK, GuestOK
<1>2. buf \o pipe = buf
  BY <1>1, ConcatEmptySeq DEF TypeOK
<1>3. CASE host = "read_setup"
  <2>1. Len(buf) = Len(Bytes(1)) + Len(Bytes(2))
    BY <1>2, <1>3, BytesFacts, ConcatProperties DEF InTransit
  <2>2. /\ Len(Bytes(1)) \in {0, 6} /\ Len(Bytes(2)) \in {0, 6}
        /\ Delivered(1) => Len(Bytes(1)) = 6
    BY BytesFacts
  <2>3. Len(buf) = 0 /\ ~Delivered(1)
    <3> DEFINE x == Len(Bytes(1))
               y == Len(Bytes(2))
               z == Len(buf)
    <3>1. x \in {0, 6} /\ y \in {0, 6} /\ z = x + y /\ z < 6
      BY <1>1, <2>1, <2>2
    <3> HIDE DEF x, y, z
    <3>2. z = 0 /\ x # 6
      BY <3>1
    <3> QED
      BY <2>2, <3>2, Zenon DEF x, z
  <2>4. reports = <<>> \/ 1 \in lost
    BY <1>1, <2>3, EmptySeq DEF Delivered, TypeOK
  <2>5. Return(PartialTransfer(0, ""))
    BY <1>3, <2>3 DEF EndOfFile
  <2> QED
    BY <1>1, <2>4, <2>5, ReturnInv
<1>4. CASE host = "read_exec"
  <2>1. buf = Bytes(2) /\ Delivered(1) /\ reports[1] = Ok
    BY <1>2, <1>4 DEF InTransit
  <2>2. ~Delivered(2) /\ buf = <<>>
    <3>1. /\ Delivered(2) => Len(Bytes(2)) = 6
          /\ ~Delivered(2) => Bytes(2) = <<>>
      BY BytesFacts
    <3>2. Len(buf) # 6
      BY <1>1
    <3> QED
      BY <2>1, <3>1, <3>2, Zenon
  <2>3. Len(reports) = 2 => 2 \in lost
    BY <1>1, <2>2 DEF Delivered
  <2>4. Return(Ok)
    BY <1>4, <2>2 DEF EndOfFile
  <2> QED
    BY <1>1, <2>1, <2>3, <2>4, ReturnInv
<1> QED
  BY <1>1, <1>3, <1>4

\* A whole message is the first report, or the second when the first is lost or
\* was taken.
LEMMA InterpretInv == IInv /\ Interpret => IInv'
<1> SUFFICES ASSUME IInv, Interpret PROVE IInv'
  OBVIOUS
<1> USE DEF IInv
<1>1. host \in {"read_setup", "read_exec"} /\ Len(buf) = 6
  BY DEF Interpret, MessageSize
<1> DEFINE r == Decode(FromBytes(buf))
<1>2. CASE host = "read_setup" /\ Delivered(1)
  <2>1. buf = Bytes(1) /\ pipe = Bytes(2)
    <3>1. /\ Bytes(1) \in Seq(Byte) /\ Len(Bytes(1)) = 6 /\ Bytes(2) \in Seq(Byte)
      BY <1>2, BytesFacts
    <3>2. buf \in Seq(Byte) /\ pipe \in Seq(Byte) /\ Len(buf) = Len(Bytes(1))
      BY <1>1, <3>1 DEF TypeOK
    <3>3. buf \o pipe = Bytes(1) \o Bytes(2)
      BY <1>1, <1>2 DEF InTransit
    <3> QED
      BY <3>1, <3>2, <3>3, Cancel
  <2>2. r = Understood(reports[1]) /\ reports[1] \in Messages
    BY <1>2, <2>1, MessageFacts, BytesFacts DEF Delivered
  <2>3. CASE reports[1] = Ok
    <3>1. r = Ok
      <4>1. Ok[1] # "NetlinkSyscall"
        BY DEF Ok
      <4> QED
        BY <2>2, <2>3, <4>1 DEF Understood
    <3>2. /\ host' = "read_exec" /\ buf' = <<>>
          /\ guest' = guest /\ reports' = reports /\ lost' = lost /\ out' = out
          /\ pipe' = pipe /\ answer' = answer
      BY <1>2, <3>1 DEF Interpret
    <3>3. \A i : /\ Msg(i)' = Msg(i) /\ Delivered(i)' = Delivered(i)
                 /\ Bytes(i)' = Bytes(i)
      BY <3>2, SameReports
    <3>4. <<>> \in Seq(Byte) /\ Len(<<>>) = 0 /\ <<>> \o pipe = pipe
      BY EmptySeq, ConcatEmptySeq DEF TypeOK
    <3>5. TypeOK'
      BY <3>2, <3>4 DEF TypeOK, MessageSize
    <3>6. GuestOK' /\ InTransit' /\ Answered'
      BY <1>2, <2>1, <2>3, <3>2, <3>3, <3>4 DEF GuestOK, InTransit, Answered
    <3> QED
      BY <3>5, <3>6
  <2>4. CASE reports[1] # Ok
    <3>1. IsError(reports[1]) /\ r # Ok
      BY <2>2, <2>4, ErrorsAssumption, UnderstoodError DEF Messages
    <3>2. Len(reports) = 1
      BY <1>2, <2>4 DEF GuestOK, TypeOK, Delivered
    <3>3. Return(r)
      BY <3>1 DEF Interpret
    <3> QED
      <4>1. Len(reports) # 0 /\ Delivered(Len(reports)) /\ reports[Len(reports)] # Ok
        BY <1>2, <2>4, <3>2
      <4>2. r = Understood(reports[Len(reports)])
        BY <2>2, <3>2
      <4> HIDE DEF r
      <4> QED
        BY <3>3, <4>1, <4>2, ReturnInv
  <2> QED
    BY <2>3, <2>4
<1>3. CASE ~(host = "read_setup" /\ Delivered(1))
  <2>1. buf \o pipe = Bytes(2)
    BY <1>1, <1>3, BytesFacts, ConcatEmptySeq DEF InTransit
  <2>2. Len(buf) + Len(pipe) = Len(Bytes(2)) /\ Len(pipe) \in Nat
    BY <2>1, ConcatProperties, LenProperties DEF TypeOK
  <2>3. Delivered(2) /\ Len(pipe) = 0
    <3>1. /\ Delivered(2) => Len(Bytes(2)) = 6
          /\ ~Delivered(2) => Len(Bytes(2)) = 0
      BY BytesFacts
    <3>2. Len(Bytes(2)) = 6 + Len(pipe) /\ Len(pipe) \in Nat
      BY <1>1, <2>2
    <3>3. Len(Bytes(2)) # 0
      BY <3>2
    <3> QED
      BY <3>1, <3>2, <3>3
  <2>4. pipe = <<>> /\ buf = Msg(2)
    BY <2>1, <2>3, EmptySeq, ConcatEmptySeq, BytesFacts DEF TypeOK
  <2>5. Len(reports) = 2 /\ reports[2] # Ok
    <3>1. 2 \in 1 .. Len(reports) /\ Len(reports) \in 0 .. 2
      BY <2>3 DEF Delivered, TypeOK
    <3>2. Len(reports) = 2
      BY <3>1
    <3> QED
      BY <3>2 DEF GuestOK
  <2>6. r = Understood(reports[2]) /\ reports[2] \in Messages
    BY <2>4, <2>5, MessageFacts
  <2>7. IsError(reports[2]) /\ r # Ok
    BY <2>5, <2>6, ErrorsAssumption, UnderstoodError DEF Messages
  <2>8. Return(r)
    BY <2>7 DEF Interpret
  <2> QED
    <3>1. Len(reports) # 0 /\ Delivered(Len(reports)) /\ reports[Len(reports)] # Ok
      BY <2>3, <2>5
    <3>2. r = Understood(reports[Len(reports)])
      BY <2>5, <2>6
    <3> HIDE DEF r
    <3> QED
      BY <2>8, <3>1, <3>2, ReturnInv
<1> QED
  BY <1>2, <1>3

LEMMA NextInv == IInv /\ [Next]_vars => IInv'
<1> SUFFICES ASSUME IInv, [Next]_vars PROVE IInv'
  OBVIOUS
<1>1. CASE FinishSetup
  BY <1>1, ReportInv DEF FinishSetup, Messages
<1>2. CASE FailExec
  <2>1. PICK r \in ExecErrors : guest = "action" /\ Report(r, "write_exec")
    BY <1>2 DEF FailExec
  <2>2. r \in Messages /\ r # Ok
    BY ErrorsAssumption, UnderstoodError DEF Messages
  <2> QED
    BY <2>1, <2>2, ReportInv
<1>3. CASE Write
  BY <1>3, WriteInv
<1>4. CASE WriteFails
  <2>1. guest \in Alive /\ out # <<>>
    BY <1>4 DEF WriteFails, Alive
  <2> QED
    BY <1>4, <2>1, LoseInv DEF WriteFails
<1>5. CASE Continue \/ Exec
  BY <1>5, LeaveInv
<1>6. CASE Die
  BY <1>6, LoseInv DEF Die
<1>7. CASE Read
  BY <1>7, ReadInv
<1>8. CASE ReadFails
  <2>1. PICK e : e = PartialTransfer(Len(buf), "error") /\ Return(e)
    BY <1>8 DEF ReadFails
  <2>2. e[1] = "PartialTransfer" /\ e[2] = "error"
    BY <2>1 DEF PartialTransfer
  <2> QED
    BY <2>1, <2>2, ReturnInv
<1>9. CASE EndOfFile
  BY <1>9, EndOfFileInv
<1>10. CASE Interpret
  BY <1>10, InterpretInv
<1>11. CASE UNCHANGED vars
  <2>1. \A i : /\ Msg(i)' = Msg(i) /\ Delivered(i)' = Delivered(i)
               /\ Bytes(i)' = Bytes(i)
    BY <1>11, SameReports DEF vars
  <2>2. TypeOK'
    BY <1>11 DEF vars, IInv, TypeOK
  <2>3. GuestOK' /\ InTransit' /\ Answered'
    BY <1>11, <2>1 DEF vars, IInv, GuestOK, InTransit, Answered
  <2> QED
    BY <2>2, <2>3 DEF IInv
<1> QED
  BY <1>1, <1>2, <1>3, <1>4, <1>5, <1>6, <1>7, <1>8, <1>9, <1>10, <1>11 DEF Next

\* The invariant says more of an answer than the property does.
LEMMA InvLearns == IInv => HostLearnsOutcome
<1> SUFFICES ASSUME IInv, host = "done" PROVE HostLearnsOutcome
  BY DEF HostLearnsOutcome
<1> USE DEF IInv
<1>1. CASE /\ Len(reports) # 0 /\ Delivered(Len(reports)) /\ reports[Len(reports)] # Ok
           /\ answer = Understood(reports[Len(reports)])
  <2>1. IsError(reports[Len(reports)])
    BY <1>1, ErrorsAssumption DEF TypeOK, Messages
  <2>2. answer # Ok /\ answer[1] # "PartialTransfer"
    BY <1>1, <2>1, UnderstoodError
  <2>3. guest # "program"
    BY <1>1 DEF GuestOK
  <2> QED
    BY <1>1, <2>2, <2>3, EmptySeq DEF HostLearnsOutcome, Delivered
<1>2. CASE ~(/\ Len(reports) # 0 /\ Delivered(Len(reports)) /\ reports[Len(reports)] # Ok
             /\ answer = Understood(reports[Len(reports)]))
  BY <1>2 DEF Answered, HostLearnsOutcome, Delivered
<1> QED
  BY <1>1, <1>2

\* What the caller of spawn is told of the guest's set-up is what happened there,
\* for every error, every number of system calls, every atomic write size and
\* every way the transfer goes (clone_into, host_post_clone).
THEOREM LearnsOutcome == Spec => []HostLearnsOutcome
<1>1. IInv /\ [Next]_vars => IInv'
  BY NextInv
<1> QED
  BY InitInv, <1>1, InvLearns, PTL DEF Spec

-----------------------------------------------------------------------------
\* The words of the two requests.
BodyWords ==
  {<<"rtattr", 8, "IFA_LOCAL">>, <<"rtattr", 8, "IFA_ADDRESS">>, <<"address", "loopback">>,
   <<"ifaddrmsg", "inet", 8>>, <<"index", "lo">>,
   <<"ifinfomsg", "unspec">>, <<"flags", "up">>, <<"change", "up">>}

LEMMA AttributeIs ==
  ASSUME NEW t \in {"IFA_LOCAL", "IFA_ADDRESS"}
  PROVE  /\ Attribute(t, <<<<"address", "loopback">>>>) \in Seq(BodyWords)
         /\ Len(Attribute(t, <<<<"address", "loopback">>>>)) = 2
<1> DEFINE p == <<<<"address", "loopback">>>>
           h == <<<<"rtattr", 8, t>>>>
<1>1. p \in Seq(BodyWords) /\ h \in Seq(BodyWords) /\ Len(p) = 1 /\ Len(h) = 1
  BY DEF BodyWords
<1>2. Attribute(t, p) = h \o p
  BY <1>1 DEF Attribute
<1> HIDE DEF p, h
<1>3. h \o p \in Seq(BodyWords) /\ Len(h \o p) = Len(h) + Len(p)
  BY <1>1, ConcatProperties
<1>4. Len(h) + Len(p) = 2
  BY <1>1
<1> QED
  BY <1>2, <1>3, <1>4 DEF p

LEMMA BodyIs ==
  ASSUME NEW r \in {"RTM_NEWADDR", "RTM_NEWLINK"}
  PROVE  Body(r) \in Seq(BodyWords) /\ Len(Body(r)) \in {4, 6}
<1>1. CASE r = "RTM_NEWADDR"
  <2> DEFINE h == <<<<"ifaddrmsg", "inet", 8>>, <<"index", "lo">>>>
             a == Attribute("IFA_LOCAL", <<<<"address", "loopback">>>>)
             b == Attribute("IFA_ADDRESS", <<<<"address", "loopback">>>>)
  <2>1. h \in Seq(BodyWords) /\ Len(h) = 2
    BY DEF BodyWords
  <2>2. Body(r) = (h \o a) \o b
    BY <1>1 DEF Body, AddressBody
  <2>3. /\ a \in Seq(BodyWords) /\ Len(a) = 2
        /\ b \in Seq(BodyWords) /\ Len(b) = 2
    BY AttributeIs
  <2> HIDE DEF h, a, b
  <2>4. h \o a \in Seq(BodyWords) /\ Len(h \o a) = Len(h) + Len(a)
    BY <2>1, <2>3, ConcatProperties
  <2>5. /\ (h \o a) \o b \in Seq(BodyWords)
        /\ Len((h \o a) \o b) = Len(h \o a) + Len(b)
    BY <2>3, <2>4, ConcatProperties
  <2> QED
    BY <2>1, <2>2, <2>3, <2>4, <2>5
<1>2. CASE r = "RTM_NEWLINK"
  BY <1>2 DEF Body, BringUpBody, BodyWords
<1> QED
  BY <1>1, <1>2

\* Behind the length, a request says what it is and which number it has.
LEMMA MessageIs ==
  ASSUME NEW r \in {"RTM_NEWADDR", "RTM_NEWLINK"}, NEW n
  PROVE  /\ Len(Message(r, n)) \in 8 .. 10
         /\ Message(r, n)[2] = <<"type", r>>
         /\ Message(r, n)[3] = <<"sequence", n>>
<1> DEFINE b == Body(r)
           h == <<<<"length", Header + 4 * Len(b)>>, <<"type", r>>, <<"sequence", n>>, <<"pid", 0>>>>
           S == BodyWords \cup {h[1], h[2], h[3], h[4]}
<1>1. h \in Seq(S) /\ Len(h) = 4 /\ h[2] = <<"type", r>> /\ h[3] = <<"sequence", n>>
  OBVIOUS
<1>2. b \in Seq(S) /\ Len(b) \in {4, 6}
  BY BodyIs
<1>3. Message(r, n) = h \o b
  BY DEF Message
<1> HIDE DEF h, b, S
<1>4. /\ Len(h \o b) = Len(h) + Len(b)
      /\ \A i \in 1 .. Len(h) + Len(b) : (h \o b)[i] = IF i <= Len(h) THEN h[i] ELSE b[i - Len(h)]
  BY <1>1, <1>2, ConcatProperties
<1>5. (h \o b)[2] = h[2] /\ (h \o b)[3] = h[3]
  BY <1>1, <1>2, <1>4
<1>6. \A k \in {4, 6} : 4 + k \in 8 .. 10
  OBVIOUS
<1>7. Len(h \o b) = 4 + Len(b)
  BY <1>1, <1>4
<1> QED
  BY <1>1, <1>2, <1>3, <1>5, <1>6, <1>7


-----------------------------------------------------------------------------
\* The inductive invariant of the acknowledgements.

Replies ==
  [at : Nat, type : {"NLMSG_ERROR", "NLMSG_NOOP", "RTM_NEWLINK"}, seq : Nat,
   size : Nat, claimed : Nat, error : Int]

\* Messages follow each other without a gap; all but the last claim what they
\* occupy, and the last does or is malformed.
LaidOut(d) ==
  /\ d \in Seq(Replies)
  /\ d # <<>> => d[1].at = 0
  /\ \A i \in 1 .. Len(d) :
       d[i].claimed = d[i].size \/ d[i].claimed < Header \/ d[i].claimed > d[i].size
  /\ \A i \in 1 .. Len(d) - 1 :
       d[i].claimed = d[i].size /\ d[i + 1].at = d[i].at + Aligned(d[i].size)

Datagrams == [messages : Seq(Replies), cut : BOOLEAN]

\* The requests that are acknowledged.
Acked == 2 - Len(request)

\* An answer without an error is to a request that is carried out, and one with
\* an error to the request at hand, which is not.
Genuine(m) ==
  m.type = "NLMSG_ERROR" /\ m.claimed >= Header + ErrorSize =>
    /\ m.error = 0 => m.seq < Len(kernel.done)
    /\ m.error < 0 =>
         /\ pc \notin {"build", "send"} /\ request # <<>>
         /\ m.seq = Acked /\ Len(kernel.done) = Acked
         /\ kernel.refused = <<Head(request), -m.error>>

AllGenuine(d) == \A i \in 1 .. Len(d) : Genuine(d[i])

Queued ==
  /\ socket \in Seq(Datagrams)
  /\ \A i \in 1 .. Len(socket) : LaidOut(socket[i].messages) /\ AllGenuine(socket[i].messages)

\* The guest is at a message of the datagram, or past the last one.
AtMessage ==
  /\ LaidOut(datagram) /\ AllGenuine(datagram)
  /\ pc = "read" =>
       /\ offset \in Nat
       /\ offset >= Received \/ \E i \in 1 .. Len(datagram) : datagram[i].at = offset

\* How far the two requests are.
Progress ==
  /\ request \in {<<"RTM_NEWADDR", "RTM_NEWLINK">>, <<"RTM_NEWLINK">>, <<>>}
  /\ kernel.done \in {<<>>, <<"RTM_NEWADDR">>, <<"RTM_NEWADDR", "RTM_NEWLINK">>}
  /\ Len(kernel.done) \in {Acked, Acked + 1}
  /\ kernel = [done |-> kernel.done, refused |-> kernel.refused]
  /\ pc \in {"build", "send", "poll", "receive", "read", "done"}
  /\ pc = "build" => request # <<>> /\ sequence = Acked
  /\ pc \in {"send", "poll", "receive", "read"} =>
       request # <<>> /\ sequence = Acked + 1 /\ awaited = Acked
  /\ pc \in {"build", "send"} => Len(kernel.done) = Acked
  /\ pc # "done" => result = <<"none">>
  /\ result = <<"ok">> => request = <<>>

Built ==
  /\ buffer = [i \in 1 .. BufferWords |-> buffer[i]]
  /\ pc = "send" =>
       buffer[2] = <<"type", Head(request)>> /\ buffer[3] = <<"sequence", awaited>>

ReportedAsRefused ==
  result \in {<<"errno", e>> : e \in KernelErrnos} =>
    kernel.refused = <<Head(request), result[2]>>

LoopbackIInv == Progress /\ Built /\ Queued /\ AtMessage /\ ReportedAsRefused

-----------------------------------------------------------------------------
\* Datagrams.

LEMMA AlignedIs ==
  ASSUME NEW n \in Nat
  PROVE  Aligned(n) \in Nat /\ Aligned(n) >= n
  BY DEF Aligned

\* A message of its own, of the right length or of none.
LEMMA AloneIsLaidOut ==
  ASSUME NEW m \in Replies, m.at = 0,
         m.claimed = m.size \/ m.claimed < Header \/ m.claimed > m.size
  PROVE  LaidOut(<<m>>)
  BY DEF LaidOut

LEMMA ReplyIs ==
  ASSUME NEW t \in {"NLMSG_ERROR", "NLMSG_NOOP", "RTM_NEWLINK"}, NEW q \in Nat,
         NEW z \in Nat, NEW c \in Nat, NEW e \in Int, NEW m, m = Reply(t, q, z, c, e)
  PROVE  /\ m \in Replies /\ m.at = 0 /\ m.type = t /\ m.seq = q /\ m.size = z
         /\ m.claimed = c /\ m.error = e
  BY DEF Reply, Replies

SameButAt(m, n) ==
  /\ m.type = n.type /\ m.seq = n.seq /\ m.size = n.size
  /\ m.claimed = n.claimed /\ m.error = n.error

\* Putting a message in front of others moves them back by its size.
LEMMA InFrontIs ==
  ASSUME NEW m \in Replies, NEW d \in Seq(Replies)
  PROVE  /\ InFrontOf(m, d) \in Seq(Replies) /\ Len(InFrontOf(m, d)) = Len(d) + 1
         /\ InFrontOf(m, d)[1] = m
         /\ \A i \in 1 .. Len(d) :
              /\ SameButAt(InFrontOf(m, d)[i + 1], d[i])
              /\ InFrontOf(m, d)[i + 1].at = d[i].at + Aligned(m.size)
<1> DEFINE t == [i \in 1 .. Len(d) |-> [d[i] EXCEPT !.at = d[i].at + Aligned(m.size)]]
<1>1. Aligned(m.size) \in Nat
  BY AlignedIs DEF Replies
<1>2. \A r \in Replies : \A n \in Nat : [r EXCEPT !.at = n] \in Replies
  BY DEF Replies
<1>3. \A r \in Replies : \A n \in Nat :
        SameButAt([r EXCEPT !.at = n], r) /\ [r EXCEPT !.at = n].at = n
  BY DEF Replies, SameButAt
<1>4. /\ t \in Seq(Replies) /\ Len(t) = Len(d)
      /\ \A i \in 1 .. Len(d) : SameButAt(t[i], d[i]) /\ t[i].at = d[i].at + Aligned(m.size)
  <2>1. \A i \in 1 .. Len(d) : d[i] \in Replies /\ d[i].at + Aligned(m.size) \in Nat
    <3> SUFFICES ASSUME NEW i \in 1 .. Len(d)
                 PROVE  d[i] \in Replies /\ d[i].at + Aligned(m.size) \in Nat
      OBVIOUS
    <3>1. d[i] \in Replies
      OBVIOUS
    <3>2. d[i].at \in Nat
      BY <3>1 DEF Replies
    <3> QED
      BY <1>1, <3>1, <3>2
  <2>2. \A i \in 1 .. Len(d) : [d[i] EXCEPT !.at = d[i].at + Aligned(m.size)] \in Replies
    BY <1>2, <2>1
  <2>3. ASSUME NEW i \in 1 .. Len(d)
        PROVE  SameButAt(t[i], d[i]) /\ t[i].at = d[i].at + Aligned(m.size)
    <3>1. t[i] = [d[i] EXCEPT !.at = d[i].at + Aligned(m.size)]
      OBVIOUS
    <3> HIDE DEF t
    <3> QED
      BY <1>3, <2>1, <3>1
  <2>4. t \in Seq(Replies) /\ Len(t) = Len(d)
    BY <2>2
  <2> QED
    BY <2>3, <2>4
<1>5. InFrontOf(m, d) = <<m>> \o t
  BY DEF InFrontOf
<1>6. <<m>> \in Seq(Replies) /\ Len(<<m>>) = 1 /\ <<m>>[1] = m
  OBVIOUS
<1> HIDE DEF t
<1>7. /\ <<m>> \o t \in Seq(Replies)
      /\ Len(<<m>> \o t) = Len(<<m>>) + Len(t)
      /\ \A i \in 1 .. Len(<<m>>) + Len(t) :
           (<<m>> \o t)[i] = IF i <= Len(<<m>>) THEN <<m>>[i] ELSE t[i - Len(<<m>>)]
  BY <1>4, <1>6, ConcatProperties
<1>8. \A i \in 1 .. Len(d) : (<<m>> \o t)[i + 1] = t[i]
  BY <1>4, <1>6, <1>7
<1> QED
  BY <1>4, <1>5, <1>6, <1>7, <1>8

LEMMA InFrontIsLaidOut ==
  ASSUME NEW m \in Replies, m.at = 0, m.claimed = m.size, NEW d, LaidOut(d)
  PROVE  LaidOut(InFrontOf(m, d))
<1>1. PICK e : e = InFrontOf(m, d)
  OBVIOUS
<1>2. d \in Seq(Replies)
  BY DEF LaidOut
<1>3. /\ e \in Seq(Replies) /\ Len(e) = Len(d) + 1 /\ e[1] = m
      /\ \A i \in 1 .. Len(d) : SameButAt(e[i + 1], d[i]) /\ e[i + 1].at = d[i].at + Aligned(m.size)
  BY <1>1, <1>2, InFrontIs
<1>4. \A i \in 1 .. Len(d) : d[i] \in Replies
  BY <1>2
<1>5. ASSUME NEW i \in 1 .. Len(d)
      PROVE  /\ e[i + 1].at = d[i].at + Aligned(m.size)
             /\ e[i + 1].size = d[i].size /\ e[i + 1].claimed = d[i].claimed
  BY <1>3 DEF SameButAt
<1>6. Len(d) \in Nat
  BY <1>2
<1>7. ASSUME NEW i \in 1 .. Len(e)
      PROVE  e[i].claimed = e[i].size \/ e[i].claimed < Header \/ e[i].claimed > e[i].size
  <2>1. CASE i = 1
    BY <1>3, <2>1
  <2>2. CASE i # 1
    <3>1. i - 1 \in 1 .. Len(d) /\ i = (i - 1) + 1
      BY <1>3, <1>6, <2>2
    <3>2. /\ e[i].size = d[i - 1].size /\ e[i].claimed = d[i - 1].claimed
      BY <1>5, <3>1
    <3> QED
      BY <3>1, <3>2 DEF LaidOut
  <2> QED
    BY <2>1, <2>2
<1>8. ASSUME NEW i \in 1 .. Len(e) - 1
      PROVE  e[i].claimed = e[i].size /\ e[i + 1].at = e[i].at + Aligned(e[i].size)
  <2>1. CASE i = 1
    <3>1. 1 \in 1 .. Len(d) /\ d # <<>>
      BY <1>2, <1>3, <1>6
    <3>2. d[1].at = 0
      BY <3>1 DEF LaidOut
    <3>3. e[2].at = 0 + Aligned(m.size)
      BY <1>5, <3>1, <3>2
    <3> QED
      BY <1>3, <2>1, <3>3
  <2>2. CASE i # 1
    <3>1. i - 1 \in 1 .. Len(d) - 1 /\ i = (i - 1) + 1 /\ i \in 1 .. Len(d) /\ i - 1 \in 1 .. Len(d)
      BY <1>3, <1>6, <2>2
    <3>2. PICK k : k = i - 1
      OBVIOUS
    <3>3. /\ k \in 1 .. Len(d) - 1 /\ i = k + 1 /\ k + 1 \in 1 .. Len(d) /\ k \in 1 .. Len(d)
      BY <3>1, <3>2
    <3>4. d[k].claimed = d[k].size /\ d[k + 1].at = d[k].at + Aligned(d[k].size)
      BY <3>3 DEF LaidOut
    <3>5. /\ e[k + 1].at = d[k].at + Aligned(m.size)
          /\ e[k + 1].size = d[k].size /\ e[k + 1].claimed = d[k].claimed
          /\ e[i + 1].at = d[k + 1].at + Aligned(m.size)
      BY <1>5, <3>3
    <3>6. /\ d[k].at \in Nat /\ Aligned(d[k].size) \in Nat /\ Aligned(m.size) \in Nat
      BY <1>4, <3>3, AlignedIs DEF Replies
    <3>7. \A x, y, z \in Nat : (x + y) + z = (x + z) + y
      OBVIOUS
    <3> QED
      BY <3>3, <3>4, <3>5, <3>6, <3>7
  <2> QED
    BY <2>1, <2>2
<1> QED
  BY <1>1, <1>3, <1>7, <1>8 DEF LaidOut

\* Where a message is does not matter to what it says.
LEMMA InFrontIsGenuine ==
  ASSUME NEW m \in Replies, NEW d \in Seq(Replies), Genuine(m), AllGenuine(d)
  PROVE  AllGenuine(InFrontOf(m, d))
<1>1. PICK e : e = InFrontOf(m, d)
  OBVIOUS
<1>2. /\ Len(e) = Len(d) + 1 /\ e[1] = m /\ \A i \in 1 .. Len(d) : SameButAt(e[i + 1], d[i])
  BY <1>1, InFrontIs
<1>3. Len(d) \in Nat
  OBVIOUS
<1>4. ASSUME NEW i \in 1 .. Len(e) PROVE Genuine(e[i])
  <2>1. CASE i = 1
    BY <1>2, <2>1
  <2>2. CASE i # 1
    <3>1. PICK k : k = i - 1
      OBVIOUS
    <3>2. k \in 1 .. Len(d) /\ i = k + 1
      BY <1>2, <1>3, <2>2, <3>1
    <3>3. SameButAt(e[i], d[k]) /\ Genuine(d[k])
      BY <1>2, <3>2 DEF AllGenuine
    <3> QED
      BY <3>3 DEF SameButAt, Genuine
  <2> QED
    BY <2>1, <2>2
<1> QED
  BY <1>1, <1>4 DEF AllGenuine

\* What answers nothing is laid out like everything else and no answer.
LEMMA NotificationIs ==
  ASSUME NEW q \in Nat
  PROVE  /\ Notification(q) \in Replies /\ Notification(q).at = 0
         /\ Notification(q).claimed = Notification(q).size /\ Genuine(Notification(q))
<1>1. Notification(q) = Reply("RTM_NEWLINK", q, 32, 32, 0)
  BY DEF Notification, Header
<1>2. PICK m : m = Notification(q)
  OBVIOUS
<1>3. m \in Replies /\ m.at = 0 /\ m.type = "RTM_NEWLINK" /\ m.size = 32 /\ m.claimed = 32
  <2>1. m = Reply("RTM_NEWLINK", q, 32, 32, 0)
    BY <1>1, <1>2
  <2> QED
    BY <2>1 DEF Reply, Replies
<1> QED
  BY <1>2, <1>3 DEF Genuine

LEMMA AloneIsGenuine ==
  ASSUME NEW m, Genuine(m)
  PROVE  AllGenuine(<<m>>)
  BY DEF AllGenuine

\* A message of its own that is no answer, or one with an impossible error.
LEMMA NoAnswerAlone ==
  ASSUME NEW t \in {"NLMSG_ERROR", "NLMSG_NOOP", "RTM_NEWLINK"}, NEW q \in Nat,
         NEW z \in Nat, NEW c \in Nat, NEW e \in Nat,
         t = "NLMSG_ERROR" => c < 36 \/ e > 0,
         c = z \/ c < 16 \/ c > z
  PROVE  LaidOut(<<Reply(t, q, z, c, e)>>) /\ AllGenuine(<<Reply(t, q, z, c, e)>>)
<1>1. PICK m : m = Reply(t, q, z, c, e)
  OBVIOUS
<1>2. /\ m \in Replies /\ m.at = 0 /\ m.type = t /\ m.seq = q /\ m.size = z
      /\ m.claimed = c /\ m.error = e
  BY <1>1 DEF Reply, Replies
<1>3. LaidOut(<<m>>)
  BY <1>2, AloneIsLaidOut DEF Header
<1>4. Genuine(m)
  BY <1>2 DEF Genuine, Header, ErrorSize
<1> QED
  BY <1>1, <1>3, <1>4, AloneIsGenuine

LEMMA NoiseIs ==
  ASSUME NEW q \in Nat, NEW d \in NoiseMessages(q)
  PROVE  LaidOut(d) /\ AllGenuine(d)
<1>1. \/ d = <<>>
      \/ d = <<Reply("NLMSG_NOOP", q, 8, 8, 0)>>
      \/ d = <<Reply("NLMSG_NOOP", q, 16, 8, 0)>>
      \/ d = <<Reply("NLMSG_NOOP", q, 16, 20, 0)>>
      \/ d = <<Reply("NLMSG_NOOP", q, 18, 18, 0)>>
      \/ d = <<Reply("NLMSG_ERROR", q, 20, 20, 0)>>
      \/ d = <<Reply("NLMSG_ERROR", q, 36, 36, 1)>>
      \/ d = <<Notification(q)>>
      \/ d = InFrontOf(Notification(q), <<Notification(q)>>)
  BY DEF NoiseMessages, Header, ErrorSize
<1>2. CASE d = <<>>
  BY <1>2 DEF LaidOut, AllGenuine
<1>3. CASE d = <<Reply("NLMSG_NOOP", q, 8, 8, 0)>> \/ d = <<Reply("NLMSG_NOOP", q, 16, 8, 0)>>
  BY <1>3, NoAnswerAlone
<1>4. CASE d = <<Reply("NLMSG_NOOP", q, 16, 20, 0)>> \/ d = <<Reply("NLMSG_NOOP", q, 18, 18, 0)>>
  BY <1>4, NoAnswerAlone
<1>5. CASE d = <<Reply("NLMSG_ERROR", q, 20, 20, 0)>> \/ d = <<Reply("NLMSG_ERROR", q, 36, 36, 1)>>
  BY <1>5, NoAnswerAlone
<1>6. LaidOut(<<Notification(q)>>) /\ AllGenuine(<<Notification(q)>>)
  BY NotificationIs, AloneIsLaidOut, AloneIsGenuine
<1>7. CASE d = InFrontOf(Notification(q), <<Notification(q)>>)
  <2>1. <<Notification(q)>> \in Seq(Replies)
    BY NotificationIs
  <2> QED
    BY <1>6, <1>7, <2>1, NotificationIs, InFrontIsLaidOut, InFrontIsGenuine
<1> QED
  BY <1>1, <1>2, <1>3, <1>4, <1>5, <1>6, <1>7

-----------------------------------------------------------------------------
\* Steps that leave the requests and the kernel alone.

\* What is genuine stays so until the kernel or the guest gets on.
LEMMA StaysGenuine ==
  ASSUME NEW m, Genuine(m), kernel' = kernel, request' = request,
         pc \in {"build", "send"} \/ pc' \notin {"build", "send"}
  PROVE  Genuine(m)'
  BY DEF Genuine, Acked

LEMMA AllStayGenuine ==
  ASSUME NEW d, AllGenuine(d), kernel' = kernel, request' = request,
         pc \in {"build", "send"} \/ pc' \notin {"build", "send"}
  PROVE  AllGenuine(d)'
  BY StaysGenuine DEF AllGenuine

LEMMA QueueStays ==
  ASSUME Queued, socket' = socket, kernel' = kernel, request' = request,
         pc \in {"build", "send"} \/ pc' \notin {"build", "send"}
  PROVE  Queued'
  BY AllStayGenuine DEF Queued

LEMMA DatagramStays ==
  ASSUME AtMessage, datagram' = datagram, offset' = offset, kernel' = kernel,
         request' = request, pc \in {"build", "send"} \/ pc' \notin {"build", "send"},
         pc' \in {pc, "done", "poll", "receive"}
  PROVE  AtMessage'
<1>1. LaidOut(datagram) /\ AllGenuine(datagram)
  BY DEF AtMessage
<1>2. PICK d : d = datagram
  OBVIOUS
<1>3. AllGenuine(d)'
  BY <1>1, <1>2, AllStayGenuine
<1>4. d = datagram' /\ AllGenuine(datagram)'
  BY <1>2, <1>3
<1> QED
  BY <1>1, <1>4 DEF AtMessage, Received

LEMMA OneIsNotTwo == \A s, e : <<s>> # <<"errno", e>>
<1> SUFFICES ASSUME NEW s, NEW e, <<s>> = <<"errno", e>> PROVE FALSE
  OBVIOUS
<1>1. Len(<<s>>) = 1 /\ Len(<<"errno", e>>) = 2
  OBVIOUS
<1> QED
  BY <1>1

\* The guest waits, finds nothing, or gives up.
LEMMA WaitingKeeps ==
  ASSUME LoopbackIInv, request' = request, kernel' = kernel, socket' = socket,
         buffer' = buffer, sequence' = sequence, awaited' = awaited,
         datagram' = datagram, offset' = offset,
         \/ pc \in {"poll", "receive", "read"} /\ pc' \in {"poll", "receive"} /\ result' = result
         \/ pc \in {"poll", "receive", "read", "build", "send"} /\ pc' = "done"
              /\ \E s : result' = <<s>> /\ s # "ok"
  PROVE  LoopbackIInv'
<1>1. Progress /\ Built /\ Queued /\ AtMessage /\ ReportedAsRefused
  BY DEF LoopbackIInv
<1>2. pc' \in {"poll", "receive", "done"}
  OBVIOUS
<1>3. Progress'
  BY <1>1 DEF Progress, Acked
<1>4. Built'
  BY <1>1, <1>2 DEF Built
<1>5. Queued' /\ AtMessage'
  BY <1>1, <1>2, QueueStays, DatagramStays
<1>6. ReportedAsRefused'
  <2>1. CASE result' = result
    BY <1>1, <2>1 DEF ReportedAsRefused
  <2>2. CASE \E s : result' = <<s>> /\ s # "ok"
    BY <2>2, OneIsNotTwo DEF ReportedAsRefused
  <2> QED
    BY <2>1, <2>2
<1> QED
  BY <1>3, <1>4, <1>5, <1>6 DEF LoopbackIInv

LEMMA WaitsKeep ==
  ASSUME LoopbackIInv,
         Tick \/ Poll \/ ReceiveNothing \/ ReadAll \/ PollTimesOut \/ Fail
           \/ ReadMalformed \/ ReadMismatch \/ ReadShortAnswer
  PROVE  LoopbackIInv'
<1>1. /\ request' = request /\ kernel' = kernel /\ socket' = socket
      /\ buffer' = buffer /\ sequence' = sequence /\ awaited' = awaited
      /\ datagram' = datagram /\ offset' = offset
  BY DEF Tick, Poll, ReceiveNothing, ReadAll, PollTimesOut, Fail, ReadMalformed,
         ReadMismatch, ReadShortAnswer, End, Guest
<1>2. CASE Tick \/ Poll \/ ReceiveNothing \/ ReadAll
  BY <1>1, <1>2, WaitingKeeps DEF Tick, Poll, ReceiveNothing, ReadAll
<1>3. CASE PollTimesOut \/ Fail \/ ReadMalformed \/ ReadMismatch \/ ReadShortAnswer
  <2>1. pc \in {"poll", "receive", "read", "build", "send"} /\ pc' = "done"
    BY <1>3 DEF PollTimesOut, Fail, ReadMalformed, ReadMismatch, ReadShortAnswer, IsAnswer,
                ReadsOn, End
  <2>2. result' \in {<<"AckTimeout">>, <<"failed">>, <<"MalformedHeader">>,
                     <<"SequenceMismatch">>, <<"IncorrectSize">>}
    BY <1>3 DEF PollTimesOut, Fail, ReadMalformed, ReadMismatch, ReadShortAnswer, End
  <2> QED
    BY <1>1, <2>1, <2>2, WaitingKeeps
<1> QED
  BY <1>2, <1>3

-----------------------------------------------------------------------------
\* What arrives on the socket.

LEMMA LoopbackInitImpliesIInv == LoopbackInit => LoopbackIInv
<1> SUFFICES ASSUME LoopbackInit PROVE LoopbackIInv
  OBVIOUS
<1>1. Progress
  BY DEF LoopbackInit, Progress, Acked
<1>2. Built
  BY DEF LoopbackInit, Built
<1>3. Queued
  BY DEF LoopbackInit, Queued
<1>4. AtMessage
  BY DEF LoopbackInit, AtMessage, LaidOut, AllGenuine
<1>5. ReportedAsRefused
  BY OneIsNotTwo DEF LoopbackInit, ReportedAsRefused
<1> QED
  BY <1>1, <1>2, <1>3, <1>4, <1>5 DEF LoopbackIInv

\* A step of others that queues what is in order.
LEMMA SocketKeeps ==
  ASSUME LoopbackIInv, UNCHANGED <<guestvars, kernel>>,
         socket' \in Seq(Datagrams),
         \A i \in 1 .. Len(socket') :
           LaidOut(socket'[i].messages) /\ AllGenuine(socket'[i].messages)
  PROVE  LoopbackIInv'
<1>1. Progress /\ Built /\ AtMessage /\ ReportedAsRefused
  BY DEF LoopbackIInv
<1>2. /\ pc' = pc /\ request' = request /\ buffer' = buffer /\ sequence' = sequence
      /\ awaited' = awaited /\ datagram' = datagram /\ offset' = offset /\ result' = result
      /\ kernel' = kernel
  BY DEF guestvars
<1>3. Progress' /\ Built' /\ ReportedAsRefused'
  BY <1>1, <1>2 DEF Progress, Acked, Built, ReportedAsRefused
<1>4. AtMessage'
  BY <1>1, <1>2, DatagramStays
<1>5. Queued'
  <2>1. PICK q : q = socket'
    OBVIOUS
  <2>2. \A i \in 1 .. Len(q) : LaidOut(q[i].messages) /\ AllGenuine(q[i].messages)
    BY <2>1
  <2>3. \A i \in 1 .. Len(q) : LaidOut(q[i].messages) /\ AllGenuine(q[i].messages)'
    BY <1>2, <2>2, AllStayGenuine
  <2> QED
    BY <2>1, <2>3 DEF Queued
<1> QED
  BY <1>3, <1>4, <1>5 DEF LoopbackIInv

\* A datagram at the end of the queue.
LEMMA AppendedIs ==
  ASSUME NEW s \in Seq(Datagrams), NEW d \in Datagrams, NEW q, q = Append(s, d)
  PROVE  /\ q \in Seq(Datagrams) /\ Len(q) = Len(s) + 1 /\ q[Len(s) + 1] = d
         /\ \A i \in 1 .. Len(s) : q[i] = s[i]
         /\ \A i \in 1 .. Len(q) : i \in 1 .. Len(s) \/ i = Len(s) + 1
<1> HIDE DEF Datagrams
<1> QED
  OBVIOUS

LEMMA LengthTells ==
  ASSUME NEW s, NEW a, NEW b, NEW c, s \in {a, b, c}, Len(a) = 2, Len(b) = 1, Len(c) = 0
  PROVE  /\ Len(s) \in 0 .. 2
         /\ s = a <=> Len(s) = 2
         /\ s = b <=> Len(s) = 1
         /\ s = c <=> Len(s) = 0
<1>1. Len(s) \in 0 .. 2
  OBVIOUS
<1>2. s = a <=> Len(s) = 2
  OBVIOUS
<1>3. s = b <=> Len(s) = 1
  OBVIOUS
<1>4. s = c <=> Len(s) = 0
  OBVIOUS
<1> QED
  BY <1>1, <1>2, <1>3, <1>4

LEMMA AckedIs ==
  ASSUME Progress
  PROVE  /\ Acked \in 0 .. 2 /\ Len(kernel.done) \in Nat
         /\ request = <<"RTM_NEWADDR", "RTM_NEWLINK">> <=> Acked = 0
         /\ request = <<"RTM_NEWLINK">> <=> Acked = 1
         /\ request = <<>> <=> Acked = 2
         /\ kernel.done = <<>> <=> Len(kernel.done) = 0
         /\ kernel.done = <<"RTM_NEWADDR">> <=> Len(kernel.done) = 1
         /\ kernel.done = <<"RTM_NEWADDR", "RTM_NEWLINK">> <=> Len(kernel.done) = 2
         /\ Len(kernel.done) >= Acked
<1> DEFINE both == <<"RTM_NEWADDR", "RTM_NEWLINK">>
           first == <<"RTM_NEWADDR">>
           last == <<"RTM_NEWLINK">>
           none == <<>>
<1>1. Len(both) = 2 /\ Len(first) = 1 /\ Len(last) = 1 /\ Len(none) = 0
  OBVIOUS
<1>2. /\ request \in {both, last, none} /\ kernel.done \in {none, first, both}
      /\ Len(kernel.done) \in {Acked, Acked + 1}
  BY DEF Progress
<1>3. Acked = 2 - Len(request)
  BY DEF Acked
<1> HIDE DEF both, first, last, none
<1>4. /\ Len(request) \in 0 .. 2
      /\ request = both <=> Len(request) = 2
      /\ request = last <=> Len(request) = 1
      /\ request = none <=> Len(request) = 0
  BY <1>1, <1>2, LengthTells
<1>5. /\ Len(kernel.done) \in 0 .. 2
      /\ kernel.done = both <=> Len(kernel.done) = 2
      /\ kernel.done = first <=> Len(kernel.done) = 1
      /\ kernel.done = none <=> Len(kernel.done) = 0
  BY <1>1, <1>2, LengthTells
<1>6. \A n \in 0 .. 2 :
        2 - n \in 0 .. 2 /\ (2 - n = 0 <=> n = 2) /\ (2 - n = 1 <=> n = 1) /\ (2 - n = 2 <=> n = 0)
  OBVIOUS
<1>7. /\ Acked \in 0 .. 2
      /\ Acked = 0 <=> Len(request) = 2
      /\ Acked = 1 <=> Len(request) = 1
      /\ Acked = 2 <=> Len(request) = 0
  BY <1>3, <1>4, <1>6
<1>8. Len(kernel.done) \in Nat /\ Len(kernel.done) >= Acked
  BY <1>2, <1>5, <1>7
<1> QED
  BY <1>4, <1>5, <1>7, <1>8 DEF both, first, last, none

LEMMA ArriveKeeps ==
  ASSUME LoopbackIInv, Arrive
  PROVE  LoopbackIInv'
<1>1. Progress /\ Queued
  BY DEF LoopbackIInv
<1>2. PICK seq \in 0 .. 1, cut \in BOOLEAN :
        \E messages \in NoiseMessages(seq) \cup {<<Ack(s)>> : s \in 0 .. sequence - 2} :
          socket' = Append(socket, [messages |-> messages, cut |-> cut])
  BY DEF Arrive
<1>3. PICK messages \in NoiseMessages(seq) \cup {<<Ack(s)>> : s \in 0 .. sequence - 2} :
        socket' = Append(socket, [messages |-> messages, cut |-> cut])
  BY <1>2
<1>5. LaidOut(messages) /\ AllGenuine(messages)
  <2>1. CASE messages \in NoiseMessages(seq)
    BY <2>1, NoiseIs
  <2>2. CASE \E s \in 0 .. sequence - 2 : messages = <<Ack(s)>>
    <3>1. PICK s \in 0 .. sequence - 2 : messages = <<Ack(s)>>
      BY <2>2
    <3>2. PICK m : m = Ack(s)
      OBVIOUS
    <3>3. /\ Acked \in 0 .. 2 /\ Len(kernel.done) >= Acked
          /\ pc # "done" => sequence \in {Acked, Acked + 1}
      BY <1>1, AckedIs DEF Progress
    <3>4. s \in Nat /\ s < Len(kernel.done)
      BY <3>3 DEF Arrive
    <3>5. /\ m \in Replies /\ m.at = 0 /\ m.seq = s /\ m.size = 36 /\ m.claimed = 36
          /\ m.error = 0
      BY <3>2, <3>4 DEF Ack, Reply, Replies, Header, ErrorSize
    <3>6. Genuine(m)
      BY <3>4, <3>5 DEF Genuine
    <3> QED
      BY <3>1, <3>2, <3>5, <3>6, AloneIsLaidOut, AloneIsGenuine
  <2> QED
    BY <2>1, <2>2
<1>6. PICK d : d = [messages |-> messages, cut |-> cut]
  OBVIOUS
<1>7. d \in Datagrams /\ d.messages = messages
  BY <1>5, <1>6 DEF LaidOut, Datagrams
<1>8. PICK q : q = socket'
  OBVIOUS
<1>9. /\ q \in Seq(Datagrams) /\ Len(q) = Len(socket) + 1 /\ q[Len(socket) + 1] = d
      /\ \A i \in 1 .. Len(socket) : q[i] = socket[i]
      /\ \A i \in 1 .. Len(q) : i \in 1 .. Len(socket) \/ i = Len(socket) + 1
  <2>1. q = Append(socket, d)
    BY <1>3, <1>6, <1>8
  <2>2. socket \in Seq(Datagrams)
    BY <1>1 DEF Queued
  <2> QED
    BY <1>7, <2>1, <2>2, AppendedIs
<1>10. \A i \in 1 .. Len(q) : LaidOut(q[i].messages) /\ AllGenuine(q[i].messages)
  BY <1>1, <1>5, <1>7, <1>9 DEF Queued
<1> QED
  BY <1>8, <1>9, <1>10, SocketKeeps DEF Arrive

LEMMA CoalesceKeeps ==
  ASSUME LoopbackIInv, Coalesce
  PROVE  LoopbackIInv'
<1>1. Queued
  BY DEF LoopbackIInv
<1>2. PICK i \in 1 .. Len(socket), seq \in 0 .. 1 :
        socket' = [socket EXCEPT ![i].messages = InFrontOf(Notification(seq), @)]
  BY DEF Coalesce
<1>3. PICK m : m = InFrontOf(Notification(seq), socket[i].messages)
  OBVIOUS
<1>4. socket \in Seq(Datagrams) /\ LaidOut(socket[i].messages) /\ AllGenuine(socket[i].messages)
  BY <1>1 DEF Queued
<1>5. socket[i].messages \in Seq(Replies)
  BY <1>4 DEF LaidOut
<1>6. LaidOut(m) /\ AllGenuine(m)
  BY <1>3, <1>4, <1>5, NotificationIs, InFrontIsLaidOut, InFrontIsGenuine
<1>7. \A d \in Datagrams : \A n \in Seq(Replies) :
        [d EXCEPT !.messages = n] \in Datagrams /\ [d EXCEPT !.messages = n].messages = n
  BY DEF Datagrams
<1>8. PICK d : d = [socket[i] EXCEPT !.messages = m]
  OBVIOUS
<1>9. d \in Datagrams /\ d.messages = m
  <2>1. socket[i] \in Datagrams /\ m \in Seq(Replies)
    BY <1>4, <1>6 DEF LaidOut
  <2> QED
    BY <1>7, <1>8, <2>1
<1>10. PICK q : q = socket'
  OBVIOUS
<1>11. q = [socket EXCEPT ![i] = d]
  BY <1>2, <1>3, <1>8, <1>10
<1>12. /\ q \in Seq(Datagrams) /\ Len(q) = Len(socket) /\ q[i] = d
       /\ \A j \in 1 .. Len(socket) : j # i => q[j] = socket[j]
  BY <1>4, <1>9, <1>11
<1>13. \A j \in 1 .. Len(q) : LaidOut(q[j].messages) /\ AllGenuine(q[j].messages)
  BY <1>1, <1>6, <1>9, <1>12 DEF Queued
<1> QED
  BY <1>10, <1>12, <1>13, SocketKeeps DEF Coalesce

\* What is behind the first datagram.
LEMMA TailIs ==
  ASSUME Queued, socket # <<>>
  PROVE  /\ Tail(socket) \in Seq(Datagrams)
         /\ \A i \in 1 .. Len(Tail(socket)) :
              LaidOut(Tail(socket)[i].messages) /\ AllGenuine(Tail(socket)[i].messages)
<1>1. socket \in Seq(Datagrams)
  BY DEF Queued
<1>2. /\ Tail(socket) \in Seq(Datagrams) /\ Len(Tail(socket)) = Len(socket) - 1
      /\ Len(socket) \in Nat /\ \A i \in 1 .. Len(Tail(socket)) : Tail(socket)[i] = socket[i + 1]
  BY <1>1
<1>3. \A i \in 1 .. Len(Tail(socket)) : i + 1 \in 1 .. Len(socket)
  BY <1>2
<1> QED
  BY <1>2, <1>3 DEF Queued

LEMMA LoseKeeps ==
  ASSUME LoopbackIInv, Lose
  PROVE  LoopbackIInv'
<1>1. Queued
  BY DEF LoopbackIInv
<1> QED
  BY <1>1, TailIs, SocketKeeps DEF Lose

-----------------------------------------------------------------------------
\* The guest builds and sends a request, and the kernel handles it.

LEMMA BuildKeepsLoopback ==
  ASSUME LoopbackIInv, Build
  PROVE  LoopbackIInv'
<1>1. Progress /\ Built /\ Queued /\ AtMessage /\ ReportedAsRefused
  BY DEF LoopbackIInv
<1>2. /\ pc = "build" /\ pc' = "send" /\ awaited' = sequence /\ sequence' = sequence + 1
      /\ request' = request /\ datagram' = datagram /\ offset' = offset /\ result' = result
      /\ kernel' = kernel /\ socket' = socket /\ request # <<>>
  BY DEF Build, Guest
<1>3. Progress'
  BY <1>1, <1>2 DEF Progress, Acked
<1>4. Head(request) \in {"RTM_NEWADDR", "RTM_NEWLINK"}
  BY <1>1, <1>2 DEF Progress
<1>5. Built'
  <2> DEFINE words == Message(Head(request), sequence)
  <2>1. buffer' = [i \in 1 .. BufferWords |-> IF i <= Len(words) THEN words[i] ELSE buffer[i]]
    BY DEF Build
  <2>2. /\ Len(words) \in 8 .. 10
        /\ words[2] = <<"type", Head(request)>> /\ words[3] = <<"sequence", sequence>>
    BY <1>4, MessageIs
  <2>3. BufferWords \in Nat /\ BufferWords >= 10
    BY NetlinkAssumption
  <2> HIDE DEF words
  <2>4. buffer'[2] = words[2] /\ buffer'[3] = words[3]
    BY <2>1, <2>2, <2>3
  <2>5. buffer' = [i \in 1 .. BufferWords |-> buffer'[i]]
    BY <2>1
  <2> QED
    BY <1>2, <2>2, <2>4, <2>5 DEF Built
<1>6. Queued' /\ AtMessage'
  <2>1. Queued'
    BY <1>1, <1>2, QueueStays
  <2>2. PICK d : d = datagram
    OBVIOUS
  <2>3. AllGenuine(d)'
    BY <1>1, <1>2, <2>2, AllStayGenuine DEF AtMessage
  <2>4. AllGenuine(datagram)'
    BY <1>2, <2>2, <2>3
  <2> QED
    BY <1>1, <1>2, <2>1, <2>4 DEF AtMessage
<1>7. ReportedAsRefused'
  BY <1>1, <1>2 DEF ReportedAsRefused
<1> QED
  BY <1>3, <1>5, <1>6, <1>7 DEF LoopbackIInv

\* Before a request is handled there is no answer to it, and none with an error.
LEMMA BeforeItIsHandled ==
  ASSUME Progress, pc = "send", NEW m \in Replies, Genuine(m)
  PROVE  m.type = "NLMSG_ERROR" /\ m.claimed >= Header + ErrorSize /\ m.error <= 0 =>
           m.error = 0 /\ m.seq < Acked
<1>1. Len(kernel.done) = Acked
  BY DEF Progress
<1>2. m.error \in Int
  BY DEF Replies
<1> QED
  BY <1>1, <1>2 DEF Genuine

\* One more name behind one or none.
LEMMA AppendedNames ==
  ASSUME NEW S, NEW a \in S, NEW b \in S
  PROVE  Append(<<>>, a) = <<a>> /\ Append(<<a>>, b) = <<a, b>>
<1>1. <<>> \in Seq(S)
  OBVIOUS
<1>2. <<a>> \in Seq(S)
  OBVIOUS
<1>3. <<a, b>> \in Seq(S)
  OBVIOUS
<1>4. Append(<<>>, a) = <<a>>
  OBVIOUS
<1>5. PICK s : s = <<a>>
  OBVIOUS
<1>6. s \in Seq(S) /\ Len(s) = 1 /\ s[1] = a
  BY <1>2, <1>5
<1>7. PICK t : t = Append(s, b)
  OBVIOUS
<1>8. t \in Seq(S)
  BY <1>6, <1>7, AppendProperties
<1>9. Len(t) = 2 /\ t[1] = a /\ t[2] = b
  <2>1. /\ Len(t) = Len(s) + 1 /\ t[Len(s) + 1] = b
        /\ \A i \in 1 .. Len(s) : t[i] = s[i]
    <3>1. s \in Seq(S)
      BY <1>6
    <3> QED
      BY <1>7, <3>1, AppendProperties
  <2>2. Len(s) + 1 = 2 /\ 1 \in 1 .. Len(s)
    BY <1>6
  <2> QED
    BY <1>6, <2>1, <2>2
<1>10. t = <<a, b>>
  <2>1. Len(<<a, b>>) = 2
    OBVIOUS
  <2>2. \A i \in 1 .. 2 : t[i] = <<a, b>>[i]
    BY <1>9
  <2> QED
    BY <1>3, <1>8, <1>9, <2>1, <2>2, SeqEqual
<1> QED
  BY <1>4, <1>5, <1>7, <1>10

LEMMA SentIs ==
  ASSUME Progress, Built, pc = "send", NEW words,
         words = SubSeq(buffer, 1, Len(Message(Head(request), awaited)))
  PROVE  /\ Len(words) \in 8 .. 10
         /\ words[2] = <<"type", Head(request)>> /\ words[3] = <<"sequence", Acked>>
<1>1. PICK n : n = Len(Message(Head(request), awaited))
  OBVIOUS
<1>2. Head(request) \in {"RTM_NEWADDR", "RTM_NEWLINK"}
  BY DEF Progress
<1>3. n \in 8 .. 10
  BY <1>1, <1>2, MessageIs
<1> DEFINE S == {buffer[i] : i \in 1 .. BufferWords}
<1>4. buffer \in Seq(S) /\ Len(buffer) = BufferWords
  <2>1. PICK b : b = [i \in 1 .. BufferWords |-> buffer[i]]
    OBVIOUS
  <2>2. b = buffer
    BY <2>1 DEF Built
  <2>3. BufferWords \in Nat
    BY NetlinkAssumption
  <2>4. \A i \in 1 .. BufferWords : buffer[i] \in S
    OBVIOUS
  <2> HIDE DEF S
  <2>5. b \in Seq(S) /\ Len(b) = BufferWords
    BY <2>1, <2>3, <2>4
  <2> QED
    BY <2>2, <2>5
<1> HIDE DEF S
<1>5. n \in 0 .. Len(buffer)
  BY <1>3, <1>4, NetlinkAssumption
<1>6. /\ Len(SubSeq(buffer, 1, n)) = n
      /\ \A i \in 1 .. n : SubSeq(buffer, 1, n)[i] = buffer[i]
  BY <1>3, <1>4, <1>5
<1>7. words = SubSeq(buffer, 1, n)
  BY <1>1
<1>8. words[2] = buffer[2] /\ words[3] = buffer[3] /\ Len(words) = n
  BY <1>3, <1>6, <1>7
<1> QED
  BY <1>3, <1>8 DEF Built, Progress

\* The request at hand is carried out as the next of the two.
LEMMA DoneNext ==
  ASSUME Progress, Len(kernel.done) = Acked, request # <<>>
  PROVE  /\ Append(kernel.done, Head(request))
              \in {<<"RTM_NEWADDR">>, <<"RTM_NEWADDR", "RTM_NEWLINK">>}
         /\ Len(Append(kernel.done, Head(request))) = Acked + 1
         /\ Acked \in 0 .. 1
<1>1. \A a, b \in {"RTM_NEWADDR", "RTM_NEWLINK"} :
        /\ Append(<<>>, a) = <<a>> /\ Append(<<a>>, b) = <<a, b>>
        /\ Len(<<a>>) = 1 /\ Len(<<a, b>>) = 2
  <2> SUFFICES ASSUME NEW a \in {"RTM_NEWADDR", "RTM_NEWLINK"},
                      NEW b \in {"RTM_NEWADDR", "RTM_NEWLINK"}
               PROVE  /\ Append(<<>>, a) = <<a>> /\ Append(<<a>>, b) = <<a, b>>
                      /\ Len(<<a>>) = 1 /\ Len(<<a, b>>) = 2
    OBVIOUS
  <2>1. PICK S : S = {"RTM_NEWADDR", "RTM_NEWLINK"}
    OBVIOUS
  <2>2. a \in S /\ b \in S
    BY <2>1
  <2> QED
    BY <2>2, AppendedNames
<1>2. Acked \in 0 .. 1
  BY AckedIs
<1>3. CASE Acked = 0
  <2>1. kernel.done = <<>> /\ Head(request) = "RTM_NEWADDR"
    BY <1>3, AckedIs
  <2>2. Append(<<>>, "RTM_NEWADDR") = <<"RTM_NEWADDR">> /\ Len(<<"RTM_NEWADDR">>) = 1
    BY <1>1
  <2> QED
    BY <1>3, <2>1, <2>2
<1>4. CASE Acked = 1
  <2>1. kernel.done = <<"RTM_NEWADDR">> /\ Head(request) = "RTM_NEWLINK"
    BY <1>4, AckedIs
  <2>2. /\ Append(<<"RTM_NEWADDR">>, "RTM_NEWLINK") = <<"RTM_NEWADDR", "RTM_NEWLINK">>
        /\ Len(<<"RTM_NEWADDR", "RTM_NEWLINK">>) = 2
    BY <1>1
  <2> QED
    BY <1>4, <2>1, <2>2
<1> QED
  BY <1>2, <1>3, <1>4

\* The kernel has handled the request at hand, maybe carried it out, and maybe
\* answered it.
LEMMA HandledKeeps ==
  ASSUME LoopbackIInv, pc = "send", pc' = "poll", request' = request, buffer' = buffer,
         sequence' = sequence, awaited' = awaited, datagram' = datagram, offset' = offset,
         result' = result,
         kernel' = [done |-> kernel'.done, refused |-> kernel'.refused],
         kernel'.done \in {kernel.done, Append(kernel.done, Head(request))},
         \/ socket' = socket
         \/ \E m \in Replies : /\ socket' = Append(socket, Datagram(<<m>>))
                               /\ m.at = 0 /\ m.claimed = m.size /\ Genuine(m)'
  PROVE  LoopbackIInv'
<1>1. Progress /\ Built /\ Queued /\ AtMessage /\ ReportedAsRefused
  BY DEF LoopbackIInv
<1>2. Len(kernel.done) = Acked /\ Acked' = Acked /\ request # <<>>
  BY <1>1 DEF Progress, Acked
<1>3. /\ kernel'.done \in {<<>>, <<"RTM_NEWADDR">>, <<"RTM_NEWADDR", "RTM_NEWLINK">>}
      /\ Len(kernel'.done) \in {Acked, Acked + 1}
      /\ Acked \in 0 .. 1
  BY <1>1, <1>2, DoneNext DEF Progress
<1>4. Progress'
  BY <1>1, <1>2, <1>3 DEF Progress
<1>5. Built'
  BY <1>1 DEF Built
<1>6. ASSUME NEW m \in Replies, Genuine(m) PROVE Genuine(m)'
  <2>1. m.type = "NLMSG_ERROR" /\ m.claimed >= Header + ErrorSize /\ m.error <= 0 =>
          m.error = 0 /\ m.seq < Acked
    BY <1>1, <1>6, BeforeItIsHandled
  <2>2. m.seq \in Nat /\ m.error \in Int
    BY DEF Replies
  <2>3. m.seq < Acked => m.seq < Len(kernel'.done)
    BY <1>3, <2>2
  <2> QED
    BY <2>1, <2>2, <2>3 DEF Genuine
<1>7. ASSUME NEW d \in Seq(Replies), AllGenuine(d) PROVE AllGenuine(d)'
  <2>1. \A i \in 1 .. Len(d) : d[i] \in Replies
    OBVIOUS
  <2> QED
    BY <1>6, <1>7, <2>1 DEF AllGenuine
<1>8. AtMessage'
  <2>1. PICK d : d = datagram
    OBVIOUS
  <2>2. d \in Seq(Replies) /\ LaidOut(d) /\ AllGenuine(d)
    BY <1>1, <2>1 DEF AtMessage, LaidOut
  <2>3. AllGenuine(d)'
    BY <1>7, <2>2
  <2> QED
    BY <2>1, <2>2, <2>3 DEF AtMessage
<1>9. \A i \in 1 .. Len(socket) :
        /\ socket[i].messages \in Seq(Replies) /\ LaidOut(socket[i].messages)
        /\ AllGenuine(socket[i].messages)
  BY <1>1 DEF Queued, LaidOut
<1>10. PICK q : q = socket
  OBVIOUS
<1>11. \A i \in 1 .. Len(q) : AllGenuine(q[i].messages)'
  BY <1>7, <1>9, <1>10
<1>12. Queued'
  <2>1. CASE socket' = socket
    BY <1>1, <1>9, <1>10, <1>11, <2>1 DEF Queued
  <2>2. ASSUME NEW m \in Replies, socket' = Append(socket, Datagram(<<m>>)),
               m.at = 0, m.claimed = m.size, Genuine(m)'
        PROVE  Queued'
    <3>1. PICK d : d = Datagram(<<m>>)
      OBVIOUS
    <3>2. d.messages = <<m>> /\ d \in Datagrams
      BY <3>1 DEF Datagram, Datagrams
    <3>3. LaidOut(<<m>>)
      BY <2>2, AloneIsLaidOut
    <3>4. AllGenuine(<<m>>)'
      BY <2>2 DEF AllGenuine
    <3>5. PICK r : r = Append(socket, d)
      OBVIOUS
    <3>6. /\ r \in Seq(Datagrams) /\ Len(r) = Len(socket) + 1 /\ r[Len(socket) + 1] = d
          /\ \A i \in 1 .. Len(socket) : r[i] = socket[i]
          /\ \A i \in 1 .. Len(r) : i \in 1 .. Len(socket) \/ i = Len(socket) + 1
      <4>1. socket \in Seq(Datagrams)
        BY <1>1 DEF Queued
      <4> QED
        BY <3>2, <3>5, <4>1, AppendedIs
    <3>7. \A i \in 1 .. Len(r) : LaidOut(r[i].messages)
      BY <1>9, <3>2, <3>3, <3>6
    <3>8. PICK n : n = Len(socket)
      OBVIOUS
    <3>9. /\ \A i \in 1 .. n : r[i] = q[i]
          /\ \A i \in 1 .. Len(r) : i \in 1 .. n \/ i = n + 1
          /\ Len(q) = n /\ r[n + 1] = d
      BY <1>10, <3>6, <3>8
    <3>10. \A i \in 1 .. Len(r) : AllGenuine(r[i].messages)'
      BY <1>11, <3>2, <3>4, <3>9
    <3>11. socket' = r
      BY <2>2, <3>1, <3>5
    <3> QED
      BY <3>6, <3>7, <3>10, <3>11 DEF Queued
  <2> QED
    BY <2>1, <2>2
<1>13. ReportedAsRefused'
  BY <1>1, OneIsNotTwo DEF ReportedAsRefused, Progress
<1> QED
  BY <1>4, <1>5, <1>8, <1>12, <1>13 DEF LoopbackIInv


\* The kernel does not know what was sent, carries it out and answers or does
\* not, or refuses it.
LEMMA SendKeeps ==
  ASSUME LoopbackIInv, Send
  PROVE  LoopbackIInv'
<1>1. Progress /\ Built
  BY DEF LoopbackIInv
<1>2. /\ pc = "send" /\ pc' = "poll" /\ request' = request /\ buffer' = buffer
      /\ sequence' = sequence /\ awaited' = awaited /\ datagram' = datagram
      /\ offset' = offset /\ result' = result
  BY DEF Send
<1>3. PICK words : words = SubSeq(buffer, 1, Len(Message(Head(request), awaited)))
  OBVIOUS
<1>4. /\ Len(words) \in 8 .. 10
      /\ words[2] = <<"type", Head(request)>> /\ words[3] = <<"sequence", Acked>>
  BY <1>1, <1>2, <1>3, SentIs
<1>5. words[2][2] = Head(request) /\ words[3][2] = Acked
  BY <1>4
<1>6. Handle(words)
  BY <1>3 DEF Send
<1>7. /\ kernel = [done |-> kernel.done, refused |-> kernel.refused]
      /\ Len(kernel.done) = Acked /\ request # <<>>
  BY <1>1, <1>2 DEF Progress
<1>8. Acked \in 0 .. 2 /\ Acked' = Acked
  BY <1>1, <1>2, AckedIs DEF Acked
<1>9. CASE UNCHANGED <<kernel, socket>>
  BY <1>2, <1>7, <1>9, HandledKeeps
<1> DEFINE Carried == kernel' = [kernel EXCEPT !.done = Append(kernel.done, Head(request))]
<1>10. ASSUME Carried
       PROVE  /\ kernel' = [done |-> kernel'.done, refused |-> kernel'.refused]
              /\ kernel'.done = Append(kernel.done, Head(request))
  BY <1>7, <1>10
<1>11. CASE CarryOut(words)
  <2>1. Carried /\ socket' = Append(socket, Datagram(<<Ack(Acked)>>))
    BY <1>5, <1>11 DEF CarryOut
  <2>2. /\ kernel' = [done |-> kernel'.done, refused |-> kernel'.refused]
        /\ kernel'.done = Append(kernel.done, Head(request))
    BY <1>10, <2>1
  <2>3. PICK m : m = Ack(Acked)
    OBVIOUS
  <2>4. /\ m \in Replies /\ m.at = 0 /\ m.claimed = m.size /\ m.seq = Acked /\ m.error = 0
    BY <1>8, <2>3 DEF Ack, Reply, Replies, Header, ErrorSize
  <2>5. Genuine(m)'
    <3>1. Len(kernel'.done) = Acked + 1
      BY <1>1, <1>7, <2>2, DoneNext
    <3>2. m.seq < Len(kernel'.done)
      BY <1>8, <2>4, <3>1
    <3> QED
      BY <2>4, <3>2 DEF Genuine
  <2>6. socket' = Append(socket, Datagram(<<m>>))
    BY <2>1, <2>3
  <2> QED
    BY <1>2, <2>2, <2>4, <2>5, <2>6, HandledKeeps
<1>12. CASE Refuse(words)
  <2>1. PICK e \in KernelErrnos :
          /\ kernel' = [kernel EXCEPT !.refused = <<Head(request), e>>]
          /\ socket' = Append(socket, Datagram(<<Refusal(Acked, 4 * Len(words), e)>>))
    BY <1>5, <1>12 DEF Refuse
  <2>2. /\ kernel' = [done |-> kernel'.done, refused |-> kernel'.refused]
        /\ kernel'.done = kernel.done /\ kernel'.refused = <<Head(request), e>>
    BY <1>7, <2>1
  <2>3. e \in 1 .. 4095 /\ -(-e) = e
    BY NetlinkAssumption
  <2>4. PICK m : m = Refusal(Acked, 4 * Len(words), e)
    OBVIOUS
  <2>5. /\ m \in Replies /\ m.at = 0 /\ m.claimed = m.size /\ m.seq = Acked /\ m.error = -e
    BY <1>4, <1>8, <2>3, <2>4 DEF Refusal, Reply, Replies, Header
  <2>6. Genuine(m)'
    <3>1. m.error # 0 /\ -m.error = e
      <4>1. \A n \in 1 .. 4095 : -n # 0
        OBVIOUS
      <4>2. m.error = -e
        BY <2>5
      <4> QED
        BY <2>3, <4>1, <4>2
    <3>2. pc' \notin {"build", "send"} /\ request' # <<>> /\ Head(request') = Head(request)
      BY <1>2, <1>7
    <3>3. m.seq = Acked' /\ Len(kernel'.done) = Acked'
      BY <1>7, <1>8, <2>2, <2>5
    <3> QED
      BY <2>2, <3>1, <3>2, <3>3 DEF Genuine
  <2>7. socket' = Append(socket, Datagram(<<m>>))
    BY <2>1, <2>4
  <2> QED
    BY <1>2, <2>2, <2>5, <2>6, <2>7, HandledKeeps
<1>13. CASE Carried /\ socket' = socket
  BY <1>2, <1>10, <1>13, HandledKeeps
<1> HIDE DEF Carried
<1>14. \/ UNCHANGED <<kernel, socket>> \/ CarryOut(words) \/ Refuse(words)
       \/ Carried /\ socket' = socket
  BY <1>5, <1>6 DEF Handle, Carried
<1> QED
  BY <1>9, <1>11, <1>12, <1>13, <1>14

-----------------------------------------------------------------------------
\* The guest reads an answer.

\* The first datagram is taken from the queue.
LEMMA ReceiveKeeps ==
  ASSUME LoopbackIInv, Receive
  PROVE  LoopbackIInv'
<1>1. Progress /\ Built /\ Queued /\ AtMessage /\ ReportedAsRefused
  BY DEF LoopbackIInv
<1>2. /\ pc = "receive" /\ pc' \in {"read", "done"} /\ socket # <<>>
      /\ socket' = Tail(socket) /\ request' = request /\ buffer' = buffer
      /\ sequence' = sequence /\ awaited' = awaited /\ kernel' = kernel
  BY DEF Receive
<1>3. \/ pc' = "done" /\ result' = <<"TruncatedMessage">> /\ datagram' = datagram /\ offset' = offset
      \/ pc' = "read" /\ datagram' = Head(socket).messages /\ offset' = 0 /\ result' = result
  BY DEF Receive
<1>4. Progress' /\ Built'
  BY <1>1, <1>2, <1>3 DEF Progress, Acked, Built
<1>5. ReportedAsRefused'
  <2>1. CASE result' = result
    BY <1>1, <1>2, <2>1 DEF ReportedAsRefused
  <2>2. CASE result' = <<"TruncatedMessage">>
    BY <2>2, OneIsNotTwo DEF ReportedAsRefused
  <2> QED
    BY <1>3, <2>1, <2>2
<1>6. Queued'
  <2>1. PICK q : q = Tail(socket)
    OBVIOUS
  <2>2. /\ q \in Seq(Datagrams)
        /\ \A i \in 1 .. Len(q) : LaidOut(q[i].messages) /\ AllGenuine(q[i].messages)
    BY <1>1, <1>2, <2>1, TailIs
  <2>3. \A i \in 1 .. Len(q) : AllGenuine(q[i].messages)'
    BY <1>2, <2>2, AllStayGenuine
  <2> QED
    BY <1>2, <2>1, <2>2, <2>3 DEF Queued
<1>7. AtMessage'
  <2>1. CASE pc' = "done" /\ datagram' = datagram /\ offset' = offset
    BY <1>1, <1>2, <2>1, DatagramStays
  <2>2. CASE pc' = "read" /\ datagram' = Head(socket).messages /\ offset' = 0
    <3>1. PICK d : d = Head(socket).messages
      OBVIOUS
    <3>2. LaidOut(d) /\ AllGenuine(d)
      <4>1. socket \in Seq(Datagrams)
        BY <1>1 DEF Queued
      <4>2. 1 \in 1 .. Len(socket) /\ Head(socket) = socket[1]
        BY <1>2, <4>1
      <4> QED
        BY <1>1, <3>1, <4>2 DEF Queued
    <3>3. AllGenuine(d)'
      BY <1>2, <3>2, AllStayGenuine
    <3>4. d = <<>> => Received' = 0
      BY <2>2, <3>1 DEF Received
    <3>5. d # <<>> => 1 \in 1 .. Len(d) /\ d[1].at = 0
      BY <3>2 DEF LaidOut
    <3> QED
      BY <2>2, <3>1, <3>2, <3>3, <3>4, <3>5 DEF AtMessage
  <2> QED
    BY <1>3, <2>1, <2>2
<1> QED
  BY <1>4, <1>5, <1>6, <1>7 DEF LoopbackIInv

\* What the guest reads is a message of the datagram.
LEMMA ReadHere ==
  ASSUME AtMessage, ReadsOn
  PROVE  \E i \in 1 .. Len(datagram) :
           Here = datagram[i] /\ datagram[i].at = offset /\ datagram[i] \in Replies
             /\ Genuine(datagram[i])
<1>1. LaidOut(datagram) /\ AllGenuine(datagram) /\ offset \in Nat
  BY DEF AtMessage, ReadsOn
<1>2. datagram \in Seq(Replies)
  BY <1>1 DEF LaidOut
<1>3. Received \in Int
  <2>1. CASE datagram = <<>>
    BY <2>1 DEF Received
  <2>2. CASE datagram # <<>>
    <3>1. datagram[Len(datagram)] \in Replies
      BY <1>2, <2>2
    <3> QED
      BY <2>2, <3>1 DEF Received, Replies
  <2> QED
    BY <2>1, <2>2
<1>4. ~(offset >= Received)
  BY <1>1, <1>3 DEF ReadsOn, Remaining
<1>5. \E i \in 1 .. Len(datagram) : datagram[i].at = offset
  BY <1>4 DEF AtMessage, ReadsOn
<1>6. PICK k : k = CHOOSE i \in 1 .. Len(datagram) : datagram[i].at = offset
  OBVIOUS
<1>7. k \in 1 .. Len(datagram) /\ datagram[k].at = offset /\ Here = datagram[k]
  BY <1>5, <1>6 DEF Here
<1> QED
  BY <1>1, <1>2, <1>7 DEF AllGenuine

\* Where the message behind the one at hand starts.
LEMMA NextMessage ==
  ASSUME LaidOut(datagram), NEW i \in 1 .. Len(datagram), datagram[i].at = offset,
         ~(datagram[i].claimed < Header), ~(datagram[i].claimed > Received - offset)
  PROVE  LET next == offset + Aligned(datagram[i].claimed)
         IN  /\ next \in Nat
             /\ next >= Received \/ \E j \in 1 .. Len(datagram) : datagram[j].at = next
<1> DEFINE d == datagram
           n == Len(datagram)
<1>1. /\ d \in Seq(Replies) /\ n \in Nat /\ d # <<>>
      /\ d[i].claimed = d[i].size \/ d[i].claimed < Header \/ d[i].claimed > d[i].size
  BY DEF LaidOut
<1>2. d[i] \in Replies
  BY <1>1
<1>3. /\ d[i].at \in Nat /\ d[i].size \in Nat /\ d[i].claimed \in Nat
      /\ Aligned(d[i].claimed) \in Nat /\ Aligned(d[i].claimed) >= d[i].claimed
  BY <1>2, AlignedIs DEF Replies
<1>4. CASE i = n
  <2>1. Received = d[i].at + d[i].size
    BY <1>1, <1>4 DEF Received
  <2>2. d[i].claimed = d[i].size
    BY <1>1, <1>3, <2>1
  <2>3. d[i].at + Aligned(d[i].claimed) >= Received
    BY <1>3, <2>1, <2>2
  <2> QED
    BY <1>3, <2>3
<1>5. CASE i # n
  <2>1. i \in 1 .. n - 1 /\ i + 1 \in 1 .. n
    BY <1>1, <1>5
  <2>2. d[i].claimed = d[i].size /\ d[i + 1].at = d[i].at + Aligned(d[i].size)
    BY <2>1 DEF LaidOut
  <2> QED
    BY <1>3, <2>1, <2>2
<1> QED
  BY <1>4, <1>5

LEMMA SkipKeeps ==
  ASSUME LoopbackIInv, Skip
  PROVE  LoopbackIInv'
<1>1. Progress /\ Built /\ Queued /\ AtMessage /\ ReportedAsRefused
  BY DEF LoopbackIInv
<1>2. /\ pc = "read" /\ pc' = pc /\ request' = request /\ buffer' = buffer
      /\ sequence' = sequence /\ awaited' = awaited /\ datagram' = datagram
      /\ result' = result /\ kernel' = kernel /\ socket' = socket
      /\ ReadsOn /\ ~Malformed /\ offset' = offset + Aligned(Here.claimed)
  BY DEF Skip, Guest, NextOffset, ReadsOn
<1>3. Progress' /\ Built' /\ ReportedAsRefused'
  BY <1>1, <1>2 DEF Progress, Acked, Built, ReportedAsRefused
<1>4. Queued'
  BY <1>1, <1>2, QueueStays
<1>5. AtMessage'
  <2>1. PICK i \in 1 .. Len(datagram) : Here = datagram[i] /\ datagram[i].at = offset
    BY <1>1, <1>2, ReadHere
  <2>2. ~(Here.claimed < Header) /\ ~(Here.claimed > Received - offset)
    BY <1>2 DEF Malformed, Remaining
  <2>3. /\ offset' \in Nat
        /\ offset' >= Received \/ \E j \in 1 .. Len(datagram) : datagram[j].at = offset'
    <3>1. LaidOut(datagram)
      BY <1>1 DEF AtMessage
    <3> QED
      BY <1>2, <2>1, <2>2, <3>1, NextMessage
  <2>4. Received' = Received
    BY <1>2 DEF Received
  <2>5. LaidOut(datagram) /\ AllGenuine(datagram)
    BY <1>1 DEF AtMessage
  <2>6. PICK d : d = datagram
    OBVIOUS
  <2>7. AllGenuine(d)'
    BY <1>2, <2>5, <2>6, AllStayGenuine
  <2> QED
    BY <1>2, <2>3, <2>4, <2>5, <2>6, <2>7 DEF AtMessage
<1> QED
  BY <1>3, <1>4, <1>5 DEF LoopbackIInv

\* An acknowledgement is of the request at hand, since the numbers agree; the
\* request is done, and no refusal of it is under way.
LEMMA AnsweredKeeps ==
  ASSUME LoopbackIInv, ReadAnswer, Here.error = 0
  PROVE  LoopbackIInv'
<1>1. Progress /\ Built /\ Queued /\ AtMessage /\ ReportedAsRefused
  BY DEF LoopbackIInv
<1>2. /\ pc = "read" /\ ReadsOn /\ Here.seq = awaited /\ Here.type = "NLMSG_ERROR"
      /\ Here.claimed >= Header + ErrorSize
      /\ request' = Tail(request) /\ pc' = (IF Len(request) = 1 THEN "done" ELSE "build")
      /\ result' = (IF Len(request) = 1 THEN <<"ok">> ELSE result)
      /\ buffer' = buffer /\ sequence' = sequence /\ awaited' = awaited /\ datagram' = datagram
      /\ offset' = offset /\ kernel' = kernel /\ socket' = socket
  BY DEF ReadAnswer, IsAnswer, ReadsOn, Matches, Guest
<1>3. request # <<>> /\ sequence = Acked + 1 /\ awaited = Acked /\ result = <<"none">>
  BY <1>1, <1>2 DEF Progress
<1>4. Len(kernel.done) = Acked + 1
  <2>1. Genuine(Here)
    BY <1>1, <1>2, ReadHere
  <2>2. Acked < Len(kernel.done)
    BY <1>2, <1>3, <2>1 DEF Genuine
  <2>3. Acked \in 0 .. 2 /\ Len(kernel.done) \in {Acked, Acked + 1}
    BY <1>1, AckedIs DEF Progress
  <2> QED
    BY <2>2, <2>3
<1>5. \/ /\ request = <<"RTM_NEWADDR", "RTM_NEWLINK">> /\ request' = <<"RTM_NEWLINK">>
         /\ Len(request) = 2 /\ pc' = "build" /\ result' = result
      \/ /\ request = <<"RTM_NEWLINK">> /\ request' = <<>>
         /\ Len(request) = 1 /\ pc' = "done" /\ result' = <<"ok">>
  <2>1. request \in {<<"RTM_NEWADDR", "RTM_NEWLINK">>, <<"RTM_NEWLINK">>}
    BY <1>1, <1>3 DEF Progress
  <2>2. CASE request = <<"RTM_NEWADDR", "RTM_NEWLINK">>
    <3>1. Len(request) = 2
      BY <2>2
    <3>2. Tail(request) = <<"RTM_NEWLINK">>
      BY <2>2
    <3> QED
      BY <1>2, <2>2, <3>1, <3>2
  <2>3. CASE request = <<"RTM_NEWLINK">>
    <3>1. Len(request) = 1
      BY <2>3
    <3>2. Tail(request) = <<>>
      BY <2>3
    <3> QED
      BY <1>2, <2>3, <3>1, <3>2
  <2> QED
    BY <2>1, <2>2, <2>3
<1>6. Acked' = Acked + 1
  <2>1. Len(<<"RTM_NEWLINK">>) = 1
    OBVIOUS
  <2>2. Len(<<>>) = 0
    OBVIOUS
  <2>3. CASE Len(request) = 2 /\ request' = <<"RTM_NEWLINK">>
    <3>1. Len(request') = 1
      BY <2>1, <2>3
    <3> QED
      BY <2>3, <3>1 DEF Acked
  <2>4. CASE Len(request) = 1 /\ request' = <<>>
    <3>1. Len(request') = 0
      BY <2>2, <2>4
    <3> QED
      BY <2>4, <3>1 DEF Acked
  <2> QED
    BY <1>5, <2>3, <2>4
<1>7. Progress'
  <2>1. Acked \in 0 .. 1
    BY <1>1, <1>3, AckedIs
  <2>2. Len(kernel'.done) = Acked'
    BY <1>2, <1>4, <1>6
  <2>3. /\ request' \in {<<"RTM_NEWADDR", "RTM_NEWLINK">>, <<"RTM_NEWLINK">>, <<>>}
        /\ pc' \in {"build", "done"}
        /\ pc' = "build" => request' # <<>> /\ result' = <<"none">>
        /\ result' = <<"ok">> => request' = <<>>
    <3>1. <<"none">> # <<"ok">> /\ <<"RTM_NEWLINK">> # <<>>
      OBVIOUS
    <3> QED
      BY <1>3, <1>5, <3>1
  <2>4. /\ kernel'.done \in {<<>>, <<"RTM_NEWADDR">>, <<"RTM_NEWADDR", "RTM_NEWLINK">>}
        /\ kernel' = [done |-> kernel'.done, refused |-> kernel'.refused]
    BY <1>1, <1>2 DEF Progress
  <2>5. sequence' = Acked'
    BY <1>2, <1>3, <1>6
  <2> QED
    BY <2>2, <2>3, <2>4, <2>5 DEF Progress
<1>8. Built'
  BY <1>1, <1>2, <1>5 DEF Built
<1>9. ASSUME NEW m, Genuine(m) PROVE Genuine(m)'
  <2>1. m.type = "NLMSG_ERROR" /\ m.claimed >= Header + ErrorSize => ~(m.error < 0)
    BY <1>4, <1>9, AckedIs, <1>1 DEF Genuine
  <2> QED
    BY <1>2, <1>9, <2>1 DEF Genuine
<1>10. ASSUME NEW d, AllGenuine(d) PROVE AllGenuine(d)'
  BY <1>9, <1>10 DEF AllGenuine
<1>11. Queued'
  <2>1. PICK q : q = socket
    OBVIOUS
  <2>2. \A i \in 1 .. Len(q) : AllGenuine(q[i].messages)'
    BY <1>1, <1>10, <2>1 DEF Queued
  <2> QED
    BY <1>1, <1>2, <2>1, <2>2 DEF Queued
<1>12. AtMessage'
  <2>1. PICK d : d = datagram
    OBVIOUS
  <2>2. AllGenuine(d)'
    BY <1>1, <1>10, <2>1 DEF AtMessage
  <2> QED
    BY <1>1, <1>2, <1>5, <2>1, <2>2 DEF AtMessage
<1>13. ReportedAsRefused'
  BY <1>3, <1>5, OneIsNotTwo DEF ReportedAsRefused
<1> QED
  BY <1>7, <1>8, <1>11, <1>12, <1>13 DEF LoopbackIInv

\* An error is the one the request at hand was refused with.
LEMMA RefusedKeeps ==
  ASSUME LoopbackIInv, ReadAnswer, Here.error # 0
  PROVE  LoopbackIInv'
<1>1. Progress /\ Built /\ Queued /\ AtMessage /\ ReportedAsRefused
  BY DEF LoopbackIInv
<1>2. /\ pc = "read" /\ ReadsOn /\ Here.seq = awaited /\ Here.type = "NLMSG_ERROR"
      /\ Here.claimed >= Header + ErrorSize
      /\ request' = request /\ pc' = "done"
      /\ buffer' = buffer /\ sequence' = sequence /\ awaited' = awaited /\ datagram' = datagram
      /\ offset' = offset /\ kernel' = kernel /\ socket' = socket
  BY DEF ReadAnswer, IsAnswer, ReadsOn, Matches, Guest
<1>3. PICK m \in Replies : m = Here /\ Genuine(m)
  BY <1>1, <1>2, ReadHere
<1>4. PICK e \in Int, n \in Int : e = m.error /\ n = -e
  BY DEF Replies
<1>5. (n \in 1 .. 4095 /\ result' = <<"errno", n>>) \/ result' = <<"InvalidError">>
  <2>1. e = Here.error /\ e # 0
    BY <1>3, <1>4
  <2>2. result' = Refused(e)
    BY <2>1 DEF ReadAnswer
  <2>3. Refused(e) = IF n \in 1 .. 4095 THEN <<"errno", n>> ELSE <<"InvalidError">>
    BY <1>4 DEF Refused
  <2>4. PICK known : known = <<"errno", n>>
    OBVIOUS
  <2>5. PICK unknown : unknown = <<"InvalidError">>
    OBVIOUS
  <2>6. Refused(e) = IF n \in 1 .. 4095 THEN known ELSE unknown
    BY <2>3, <2>4, <2>5
  <2>7. (n \in 1 .. 4095 /\ Refused(e) = known) \/ Refused(e) = unknown
    BY <2>6
  <2> QED
    BY <2>2, <2>4, <2>5, <2>7
<1>6. result' # <<"ok">>
  BY <1>5, OneIsNotTwo
<1>7. Progress' /\ Built'
  BY <1>1, <1>2, <1>6 DEF Progress, Acked, Built
<1>8. Queued' /\ AtMessage'
  BY <1>1, <1>2, QueueStays, DatagramStays
<1>9. ReportedAsRefused'
  <2>1. CASE n \in 1 .. 4095 /\ result' = <<"errno", n>>
    <3>1. m.error < 0 /\ -m.error = n
      <4>1. e < 0 /\ -e = n
        <5>1. e \in Int /\ n = -e
          BY <1>4
        <5>2. n \in 1 .. 4095
          BY <2>1
        <5> QED
          BY <5>1, <5>2
      <4>2. m.error = e
        BY <1>4
      <4> QED
        BY <4>1, <4>2
    <3>2. kernel.refused = <<Head(request), n>>
      BY <1>2, <1>3, <3>1 DEF Genuine
    <3>3. kernel'.refused = <<Head(request'), result'[2]>>
      BY <1>2, <2>1, <3>2
    <3> QED
      BY <3>3 DEF ReportedAsRefused
  <2>2. CASE result' = <<"InvalidError">>
    BY <2>2, OneIsNotTwo DEF ReportedAsRefused
  <2> QED
    BY <1>5, <2>1, <2>2
<1> QED
  BY <1>7, <1>8, <1>9 DEF LoopbackIInv

-----------------------------------------------------------------------------
LEMMA LoopbackStepKeeps ==
  ASSUME LoopbackIInv, [LoopbackNext]_loopbackVars
  PROVE  LoopbackIInv'
<1>1. CASE Build
  BY <1>1, BuildKeepsLoopback
<1>2. CASE Send
  BY <1>2, SendKeeps
<1>3. CASE \/ Tick \/ Poll \/ ReceiveNothing \/ ReadAll \/ PollTimesOut \/ Fail
           \/ ReadMalformed \/ ReadMismatch \/ ReadShortAnswer
  BY <1>3, WaitsKeep
<1>4. CASE Receive
  BY <1>4, ReceiveKeeps
<1>5. CASE Skip
  BY <1>5, SkipKeeps
<1>6. CASE ReadAnswer
  BY <1>6, AnsweredKeeps, RefusedKeeps
<1>7. CASE Arrive
  BY <1>7, ArriveKeeps
<1>8. CASE Coalesce
  BY <1>8, CoalesceKeeps
<1>9. CASE Lose
  BY <1>9, LoseKeeps
<1>10. CASE UNCHANGED loopbackVars
  <2>1. UNCHANGED <<guestvars, kernel>> /\ socket' = socket
    BY <1>10 DEF loopbackVars
  <2>2. Queued
    BY DEF LoopbackIInv
  <2> QED
    BY <2>1, <2>2, SocketKeeps DEF Queued
<1> QED
  BY <1>1, <1>2, <1>3, <1>4, <1>5, <1>6, <1>7, <1>8, <1>9, <1>10 DEF LoopbackNext, GuestStep

\* setup_loopback succeeds only when the kernel has carried out the address and
\* then the link, does not build the second request before the first is done, and
\* reports the error the request at hand was refused with, whatever is lost, cut,
\* repeated or put together on the socket, and however much of it.
THEOREM AcknowledgementsAreGenuine == LoopbackSpec => []AckIsGenuine
<1>1. LoopbackIInv => AckIsGenuine
  <2> SUFFICES ASSUME LoopbackIInv PROVE AckIsGenuine
    OBVIOUS
  <2>1. Progress /\ ReportedAsRefused
    BY DEF LoopbackIInv
  <2>2. result = <<"ok">> => kernel.done = <<"RTM_NEWADDR", "RTM_NEWLINK">>
    <3> SUFFICES ASSUME result = <<"ok">>
                 PROVE  kernel.done = <<"RTM_NEWADDR", "RTM_NEWLINK">>
      OBVIOUS
    <3>1. Acked = 2
      BY <2>1, AckedIs DEF Progress
    <3>2. Len(kernel.done) \in {2, 3} /\ kernel.done \in
            {<<>>, <<"RTM_NEWADDR">>, <<"RTM_NEWADDR", "RTM_NEWLINK">>}
      BY <2>1, <3>1 DEF Progress
    <3>3. Len(<<>>) = 0 /\ Len(<<"RTM_NEWADDR">>) = 1
      OBVIOUS
    <3> QED
      BY <3>2, <3>3
  <2>3. request = <<"RTM_NEWLINK">> => Head(kernel.done \o <<"none">>) = "RTM_NEWADDR"
    <3> SUFFICES ASSUME request = <<"RTM_NEWLINK">>
                 PROVE  Head(kernel.done \o <<"none">>) = "RTM_NEWADDR"
      OBVIOUS
    <3>1. Acked = 1 /\ Len(kernel.done) >= 1
      BY <2>1, AckedIs
    <3>2. kernel.done \in {<<"RTM_NEWADDR">>, <<"RTM_NEWADDR", "RTM_NEWLINK">>}
      <4>1. Len(<<>>) = 0
        OBVIOUS
      <4> QED
        BY <2>1, <3>1, <4>1 DEF Progress
    <3>3. PICK s : s = kernel.done
      OBVIOUS
    <3> DEFINE S == {"RTM_NEWADDR", "RTM_NEWLINK", "none"}
    <3>4. s \in Seq(S) /\ Len(s) \in 1 .. 2 /\ s[1] = "RTM_NEWADDR"
      <4>1. CASE s = <<"RTM_NEWADDR">>
        BY <4>1
      <4>2. CASE s = <<"RTM_NEWADDR", "RTM_NEWLINK">>
        BY <4>2
      <4> QED
        BY <3>2, <3>3, <4>1, <4>2
    <3>5. PICK t : t = <<"none">>
      OBVIOUS
    <3>6. t \in Seq(S) /\ Len(t) = 1
      BY <3>5
    <3> HIDE DEF S
    <3>7. /\ s \o t \in Seq(S) /\ Len(s \o t) = Len(s) + Len(t)
          /\ (s \o t)[1] = s[1]
      BY <3>4, <3>6, ConcatProperties
    <3>8. Head(s \o t) = s[1]
      BY <3>4, <3>6, <3>7
    <3> QED
      BY <3>3, <3>4, <3>5, <3>8
  <2> QED
    BY <2>1, <2>2, <2>3 DEF AckIsGenuine, ReportedAsRefused
<1> QED
  BY <1>1, LoopbackInitImpliesIInv, LoopbackStepKeeps, PTL DEF LoopbackSpec

=============================================================================
