--------------------------- MODULE MCStatusChannel ---------------------------
(***************************************************************************)
(* StatusChannel for TLC with all 59 system calls, every kind of error and *)
(* the error numbers and values at the edges of their ranges.              *)
(***************************************************************************)
EXTENDS StatusChannel

SomeErrnos == {1, 8, 38, 256, 4095}
InvalidValues == {1, 8, 65536, MaxI32, -4096, -65536, -MaxI32 - 1}

SyscallErrors == {Syscall(s, e) : s \in Syscalls, e \in SomeErrnos}

GuestErrors ==
  SyscallErrors
    \cup {NetlinkSyscall(s, e) : s \in Syscalls, e \in SomeErrnos}
    \cup {Netlink(NetlinkKinds[i]) : i \in 1 .. Len(NetlinkKinds)}
    \cup {NetlinkErrno(e) : e \in SomeErrnos}
    \cup {NetlinkInvalidError(v) : v \in InvalidValues}
    \cup {Plain(k) : k \in {"IncompleteWrite", "CStrBufferTooSmall",
                            "FromBytesWithNulError", "InvalidWireFormat"}}
    \cup {Other(OtherKinds[i]) : i \in 1 .. Len(OtherKinds)}

=============================================================================
