------------------------------- MODULE Netlink -------------------------------
(***************************************************************************)
(* setup_loopback: two rtnetlink requests built in one buffer, each sent   *)
(* and waited for, against a kernel that carries a request out or refuses  *)
(* it and queues an acknowledgement, and a socket on which datagrams can   *)
(* be lost, cut, repeated or of something else.                            *)
(*                                                                         *)
(* Messages are sequences of 32-bit words, since everything written is     *)
(* aligned to four bytes; lengths are in bytes, as they are on the wire.   *)
(***************************************************************************)
EXTENDS Integers, Sequences

CONSTANTS
  BufferWords,  \* words of the buffer a request is built in (256)
  Budget,       \* clock ticks of the polling budget of one acknowledgement
  KernelErrnos, \* errors the kernel answers a request with
  MaxNoise      \* how many datagrams arrive that answer nothing

Header == 16  \* size of nlmsghdr in bytes
ErrorSize == 20  \* size of nlmsgerr

ASSUME NetlinkAssumption ==
  /\ BufferWords \in Nat /\ BufferWords >= 10
  /\ Budget \in Nat /\ MaxNoise \in Nat
  /\ KernelErrnos \subseteq 1 .. 4095

VARIABLES
  pc,        \* the guest's step
  request,   \* the requests left to make, in order
  buffer,    \* the words of the buffer
  sequence,  \* the next sequence number
  awaited,   \* the sequence number the guest waits for
  budget,    \* ticks left of the polling budget
  datagram,  \* the datagram being read
  offset,    \* the offset in it
  result,    \* what setup_loopback returns
  kernel,    \* what the kernel has carried out, and the last request it refused
  socket,    \* datagrams queued for the guest
  noise      \* datagrams so far that answer nothing

guestvars == <<pc, request, buffer, sequence, awaited, budget, datagram, offset, result>>
loopbackVars == <<guestvars, kernel, socket, noise>>

(***************************************************************************)
(* Requests.                                                               *)
(***************************************************************************)
Attribute(type, payload) ==
  <<<<"rtattr", 4 + 4 * Len(payload), type>>>> \o payload

AddressBody ==
  <<<<"ifaddrmsg", "inet", 8>>, <<"index", "lo">>>>
    \o Attribute("IFA_LOCAL", <<<<"address", "loopback">>>>)
    \o Attribute("IFA_ADDRESS", <<<<"address", "loopback">>>>)

BringUpBody ==
  <<<<"ifinfomsg", "unspec">>, <<"index", "lo">>, <<"flags", "up">>, <<"change", "up">>>>

Body(r) == IF r = "RTM_NEWADDR" THEN AddressBody ELSE BringUpBody

\* finish_netlink_message: a length of the whole message, and the number of
\* this request.
Message(r, seq) ==
  LET body == Body(r)
  IN <<<<"length", Header + 4 * Len(body)>>, <<"type", r>>, <<"sequence", seq>>,
       <<"pid", 0>>>> \o body

(***************************************************************************)
(* The kernel.                                                             *)
(***************************************************************************)
\* A netlink message in a datagram: where it starts, its size, the length it
\* claims, and what else the guest looks at.
Reply(type, seq, size, claimed, error) ==
  [at |-> 0, type |-> type, seq |-> seq, size |-> size, claimed |-> claimed, error |-> error]

\* Messages are aligned to four bytes.
Aligned(n) == ((n + 3) \div 4) * 4

\* A message with others behind it in the same datagram.
InFrontOf(m, messages) ==
  <<m>> \o [i \in 1 .. Len(messages) |-> [messages[i] EXCEPT !.at = @ + Aligned(m.size)]]

Ack(seq) ==
  Reply("NLMSG_ERROR", seq, Header + ErrorSize, Header + ErrorSize, 0)

\* A refusal has the request in it.
Refusal(seq, length, errno) ==
  Reply("NLMSG_ERROR", seq, 4 + Header + length, 4 + Header + length, -errno)

Datagram(messages) == [messages |-> messages, cut |-> FALSE]

\* rtnetlink takes a request whose length is right and that is one of the two.
TakesRequest(words) ==
  \E r \in {"RTM_NEWADDR", "RTM_NEWLINK"}, seq \in 0 .. 1 :
    Len(words) >= Len(Message(r, seq)) /\ SubSeq(words, 1, Len(Message(r, seq))) = Message(r, seq)

CarryOut(words) ==
  /\ kernel' = [kernel EXCEPT !.done = Append(@, words[2][2])]
  /\ socket' = Append(socket, Datagram(<<Ack(words[3][2])>>))

Refuse(words) ==
  \E e \in KernelErrnos :
    /\ kernel' = [kernel EXCEPT !.refused = <<words[2][2], e>>]
    /\ socket' = Append(socket, Datagram(<<Refusal(words[3][2], 4 * Len(words), e)>>))

\* sendto has the kernel handle the request before it returns; the answer
\* may find no memory.
Handle(words) ==
  IF ~TakesRequest(words) THEN UNCHANGED <<kernel, socket>>
  ELSE \/ CarryOut(words)
       \/ Refuse(words)
       \/ /\ kernel' = [kernel EXCEPT !.done = Append(@, words[2][2])]
          /\ UNCHANGED socket

(***************************************************************************)
(* What else a datagram may hold: nothing, less than a header, a message   *)
(* with a false length, one of another request or of none, notifications   *)
(* before an answer, an error without a code or with one that is no error, *)
(* and answers cut by a buffer or repeated.                                *)
(***************************************************************************)
Notification(seq) == Reply("RTM_NEWLINK", seq, Header + 16, Header + 16, 0)

NoiseMessages(seq) ==
  {<<>>,
   <<Reply("NLMSG_NOOP", seq, 8, 8, 0)>>,
   <<Reply("NLMSG_NOOP", seq, Header, 8, 0)>>,
   <<Reply("NLMSG_NOOP", seq, Header, Header + 4, 0)>>,
   <<Reply("NLMSG_NOOP", seq, Header + 2, Header + 2, 0)>>,
   <<Reply("NLMSG_ERROR", seq, Header + 4, Header + 4, 0)>>,
   <<Reply("NLMSG_ERROR", seq, Header + ErrorSize, Header + ErrorSize, 1)>>,
   <<Notification(seq)>>,
   InFrontOf(Notification(seq), <<Notification(seq)>>)}

Arrive ==
  /\ noise < MaxNoise /\ pc # "done"
  /\ noise' = noise + 1
  /\ \E seq \in 0 .. 1, cut \in BOOLEAN :
       \E messages \in NoiseMessages(seq) \cup {<<Ack(s)>> : s \in 0 .. sequence - 2} :
         socket' = Append(socket, [messages |-> messages, cut |-> cut])
  /\ UNCHANGED <<guestvars, kernel>>

\* A notification and the answer in one datagram.
Coalesce ==
  /\ noise < MaxNoise /\ socket # <<>>
  /\ noise' = noise + 1
  /\ \E i \in 1 .. Len(socket), seq \in 0 .. 1 :
       socket' = [socket EXCEPT ![i].messages = InFrontOf(Notification(seq), @)]
  /\ UNCHANGED <<guestvars, kernel>>

Lose ==
  /\ noise < MaxNoise /\ socket # <<>>
  /\ noise' = noise + 1 /\ socket' = Tail(socket)
  /\ UNCHANGED <<guestvars, kernel>>

(***************************************************************************)
(* setup_loopback and send_message.                                        *)
(***************************************************************************)
Guest == UNCHANGED <<kernel, socket, noise>>

End(r) ==
  /\ pc' = "done" /\ result' = r
  /\ UNCHANGED <<request, buffer, sequence, awaited, budget, datagram, offset>>
  /\ Guest

\* The second request is written over the first.
Build ==
  /\ pc = "build" /\ request # <<>>
  /\ LET words == Message(Head(request), sequence)
     IN buffer' = [i \in 1 .. BufferWords |->
                     IF i <= Len(words) THEN words[i] ELSE buffer[i]]
  /\ awaited' = sequence /\ sequence' = sequence + 1 /\ pc' = "send"
  /\ UNCHANGED <<request, budget, datagram, offset, result>> /\ Guest

Send ==
  /\ pc = "send"
  /\ Handle(SubSeq(buffer, 1, Len(Message(Head(request), awaited))))
  /\ budget' = Budget /\ pc' = "poll"
  /\ UNCHANGED <<request, buffer, sequence, awaited, datagram, offset, result, noise>>

\* Any system call may fail, sendto may write less, and an answer for which
\* there was no memory makes the next call fail.
Fail ==
  /\ pc \in {"build", "send", "poll", "receive"}
  /\ End(<<"failed">>)

(***************************************************************************)
(* check_for_ack.                                                          *)
(***************************************************************************)
\* ppoll takes the time it has waited off the budget, also when it is
\* interrupted and called again.
Tick ==
  /\ pc = "poll" /\ socket = <<>> /\ budget > 0
  /\ budget' = budget - 1
  /\ UNCHANGED <<pc, request, buffer, sequence, awaited, datagram, offset, result>>
  /\ Guest

PollTimesOut == pc = "poll" /\ socket = <<>> /\ budget = 0 /\ End(<<"AckTimeout">>)

Poll ==
  /\ pc = "poll" /\ socket # <<>>
  /\ pc' = "receive"
  /\ UNCHANGED <<request, buffer, sequence, awaited, budget, datagram, offset, result>>
  /\ Guest

\* What ppoll saw may be gone: EAGAIN.
ReceiveNothing ==
  /\ pc = "receive" /\ socket = <<>>
  /\ pc' = "poll"
  /\ UNCHANGED <<request, buffer, sequence, awaited, budget, datagram, offset, result>>
  /\ Guest

Receive ==
  /\ pc = "receive" /\ socket # <<>>
  /\ socket' = Tail(socket)
  /\ IF Head(socket).cut
     THEN /\ pc' = "done" /\ result' = <<"TruncatedMessage">>
          /\ UNCHANGED <<datagram, offset>>
     ELSE /\ pc' = "read" /\ datagram' = Head(socket).messages /\ offset' = 0
          /\ UNCHANGED result
  /\ UNCHANGED <<request, buffer, sequence, awaited, budget, kernel, noise>>

\* The bytes of the datagram, and those from the offset on.
Received ==
  IF datagram = <<>> THEN 0 ELSE datagram[Len(datagram)].at + datagram[Len(datagram)].size

Remaining == Received - offset

\* The message at the offset.
Here == datagram[CHOOSE i \in 1 .. Len(datagram) : datagram[i].at = offset]

Malformed ==
  Remaining < Header \/ Here.claimed < Header \/ Here.claimed > Remaining

ReadsOn == pc = "read" /\ Remaining > 0

ReadMalformed == ReadsOn /\ Malformed /\ End(<<"MalformedHeader">>)

\* A number that is only checked not to be of the future.
MatchesLoosely == Here.seq <= awaited

Matches == Here.seq = awaited

ReadMismatch == ReadsOn /\ ~Malformed /\ ~Matches /\ End(<<"SequenceMismatch">>)

IsAnswer == ReadsOn /\ ~Malformed /\ Matches /\ Here.type = "NLMSG_ERROR"

\* The range of the kernel's errors.
Refused(error) ==
  IF -error \in 1 .. 4095 THEN <<"errno", -error>> ELSE <<"InvalidError">>

ReadAnswer ==
  /\ IsAnswer /\ Here.claimed >= Header + ErrorSize
  /\ IF Here.error = 0
     THEN /\ request' = Tail(request)
          /\ pc' = IF Len(request) = 1 THEN "done" ELSE "build"
          /\ result' = IF Len(request) = 1 THEN <<"ok">> ELSE result
     ELSE /\ pc' = "done"
          /\ result' = Refused(Here.error)
          /\ UNCHANGED request
  /\ UNCHANGED <<buffer, sequence, awaited, budget, datagram, offset>> /\ Guest

ReadShortAnswer ==
  IsAnswer /\ Here.claimed < Header + ErrorSize /\ End(<<"IncorrectSize">>)

\* The loop without the step to the next message.
Stay == offset

\* Anything else is passed over.
NextOffset == offset + Aligned(Here.claimed)

Skip ==
  /\ ReadsOn /\ ~Malformed /\ Matches /\ Here.type # "NLMSG_ERROR"
  /\ offset' = NextOffset
  /\ UNCHANGED <<pc, request, buffer, sequence, awaited, budget, datagram, result>>
  /\ Guest

ReadAll ==
  /\ pc = "read" /\ Remaining <= 0
  /\ pc' = "poll"
  /\ UNCHANGED <<request, buffer, sequence, awaited, budget, datagram, offset, result>>
  /\ Guest

LoopbackInit ==
  /\ pc = "build" /\ request = <<"RTM_NEWADDR", "RTM_NEWLINK">>
  /\ buffer = [i \in 1 .. BufferWords |-> <<"zero">>]
  /\ sequence = 0 /\ awaited = 0 /\ budget = 0 /\ datagram = <<>> /\ offset = 0
  /\ result = <<"none">>
  /\ kernel = [done |-> <<>>, refused |-> <<>>] /\ socket = <<>> /\ noise = 0

GuestStep ==
  \/ Build \/ Send \/ PollTimesOut \/ Poll \/ ReceiveNothing \/ Receive
  \/ ReadMalformed \/ ReadMismatch \/ ReadAnswer \/ ReadShortAnswer \/ Skip \/ ReadAll

LoopbackNext == GuestStep \/ Fail \/ Tick \/ Arrive \/ Coalesce \/ Lose

\* The guest is scheduled and the clock runs.
LoopbackSpec ==
  /\ LoopbackInit /\ [][LoopbackNext]_loopbackVars
  /\ WF_loopbackVars(GuestStep) /\ WF_loopbackVars(Tick)

-----------------------------------------------------------------------------
\* setup_loopback succeeds only if the kernel has carried out both requests,
\* the address before the link and each once; the second is not even sent
\* before the first is done; and an error of the kernel's is reported as the
\* one it has answered the request at hand with, whatever else arrives.
AckIsGenuine ==
  /\ result = <<"ok">> => kernel.done = <<"RTM_NEWADDR", "RTM_NEWLINK">>
  /\ request = <<"RTM_NEWLINK">> => Head(kernel.done \o <<"none">>) = "RTM_NEWADDR"
  /\ result \in {<<"errno", e>> : e \in KernelErrnos} =>
       kernel.refused = <<Head(request), result[2]>>

\* Whatever is lost, cut or repeated, the guest gets to an end: no datagram
\* is read for ever, and an acknowledgement that does not come is given up.
LoopbackSettles == <>(result # <<"none">>)

=============================================================================
