------------------------------ MODULE NetPport ------------------------------
(***************************************************************************)
(* netpport (sw/host/netpport.cpp), the program on the Raspberry Pi that   *)
(* gives network clients the two channels of the FPGA's parallel port: the *)
(* debugging bus on one socket and the console on the other.  Its main     *)
(* loop polls the sockets, forwards what the FPGA has sent, and then       *)
(* serves the command and the console socket in turn.  Every byte written  *)
(* to the port may bring one back; MUXDCOMMS keeps those in m_rd_buf until *)
(* the loop next reads.                                                    *)
(*                                                                         *)
(* A byte is a channel, its top bit, and a number that tells it from the   *)
(* other bytes of its sender.                                              *)
(***************************************************************************)
EXTENDS Integers, Sequences, SequencesExt

CONSTANTS
    Senders,     \* channels whose client sends anything
    MaxClient,   \* bytes each client sends
    MaxFpga,     \* bytes the FPGA sends on each channel
    Chunk,       \* bytes taken from a socket or the port at once (256)
    BufSize,     \* m_rd_size (8192)
    MaxIter,     \* rounds of the forwarding loop (18)
    MayClose     \* whether clients ever close their connection

Channels == {"cmd", "con"}
Bytes    == [ch : Channels, id : Nat]
Junk     == [ch |-> "con", id |-> 0]      \* what the buffer held before

ASSUME NetPportAssumption ==
    /\ Senders \subseteq Channels
    /\ {MaxClient, MaxFpga, Chunk, BufSize, MaxIter} \subseteq Nat \ {0}
    /\ BufSize >= 3 * Chunk /\ MaxIter >= 2
    /\ MayClose \in BOOLEAN

VARIABLES
    \* MUXDCOMMS
    m_rd_buf, m_rd_pos, m_rd_fill,
    \* LINBUFS of each channel
    m_connected,
    \* main: where it is, what poll() reported, rounds of forwarding made
    pc, revents, iterations,
    \* each client's connection, and the bytes sent to netpport and by it
    client, c2n, nsent,
    \* the FPGA's bytes not yet fetched, how many it has sent, those it got
    fpga_out, fsent, fpga_in,
    \* history: bytes of each channel sent by the FPGA while its client was
    \* connected and not yet delivered; a delivery that was not the one due
    due, corrupt

muxd    == <<m_rd_buf, m_rd_pos, m_rd_fill>>
loop    == <<pc, revents, iterations>>
clients == <<client, c2n, nsent>>
fpga    == <<fpga_out, fsent, fpga_in>>
vars    == <<muxd, m_connected, loop, clients, fpga, due, corrupt>>

\* The bytes of s that belong to one channel
OfChannel(s, ch) ==
    LET upTo[n \in 0 .. Len(s)] ==
            IF n = 0 THEN <<>>
            ELSE IF s[n].ch = ch THEN Append(upTo[n - 1], s[n]) ELSE upTo[n - 1]
    IN  upTo[Len(s)]
Least(a, b) == IF a < b THEN a ELSE b
Take(s, k) == SubSeq(s, 1, Least(k, Len(s)))
Drop(s, k) == SubSeq(s, k + 1, Len(s))

\* How many bytes n clocks of the port can bring: a byte that is ready is
\* fetched, one that comes up meanwhile may be; 0xff says there is none
Fetched(n) == (IF n = 0 \/ fpga_out = <<>> THEN 0 ELSE 1) .. Least(n, Len(fpga_out))

(***************************************************************************)
(* MUXDCOMMS.                                                              *)
(***************************************************************************)

\* The bytes waiting in m_rd_buf
Buffered == [i \in 1 .. m_rd_fill |-> m_rd_buf[m_rd_pos + i - 1]]

\* Mutant of Write: the bytes that came back are forgotten
MutWriteForgets(bytes, k) ==
    /\ k \in Fetched(Len(bytes))
    /\ UNCHANGED muxd
    /\ fpga_out' = Drop(fpga_out, k)
    /\ fpga_in' = fpga_in \o bytes

\* Mutant of Write: the last byte is sent twice
MutWriteTwice(bytes, k) ==
    /\ k \in Fetched(Len(bytes))
    /\ UNCHANGED muxd
    /\ fpga_out' = Drop(fpga_out, k)
    /\ fpga_in' = Append(fpga_in \o bytes, Last(bytes))

\* write(n, bytes): room is made by moving the waiting bytes to the front;
\* pp_xfer then sends every byte and stores the k bytes that come back
Write(bytes, k) ==
    LET n   == Len(bytes)
        mv  == n > BufSize - m_rd_fill - m_rd_pos
        pos == IF mv THEN 0 ELSE m_rd_pos
        old == IF mv THEN [i \in 0 .. BufSize - 1 |->
                             IF i < m_rd_fill THEN m_rd_buf[m_rd_pos + i]
                                              ELSE m_rd_buf[i]]
                     ELSE m_rd_buf
    IN  /\ k \in Fetched(n)
        /\ m_rd_pos' = pos
        /\ m_rd_buf' = [i \in 0 .. BufSize - 1 |->
                          IF i \in pos .. pos + k - 1 THEN fpga_out[i - pos + 1]
                                                      ELSE old[i]]
        /\ m_rd_fill' = m_rd_fill + k
        /\ fpga_out' = Drop(fpga_out, k)
        /\ fpga_in' = fpga_in \o bytes

(***************************************************************************)
(* The main loop.                                                          *)
(***************************************************************************)

\* What poll() can report of a channel: somebody wants to connect, or there
\* are bytes or the end of the connection to read
Ready(ch) == IF m_connected[ch] THEN c2n[ch] # <<>> \/ client[ch] = "closed"
                                ELSE client[ch] = "waiting"

\* Mutant of Poll: when poll() reports nothing the loop starts over
MutPoll ==
    /\ pc = "poll"
    /\ revents' = [ch \in Channels |->
                     IF ~Ready(ch) THEN "none"
                     ELSE IF m_connected[ch] THEN "read" ELSE "accept"]
    /\ iterations' = 0
    /\ pc' = IF \E ch \in Channels : Ready(ch) THEN "forward" ELSE "poll"
    /\ UNCHANGED <<muxd, m_connected, clients, fpga, due, corrupt>>

Poll ==
    /\ pc = "poll"
    /\ revents' = [ch \in Channels |->
                     IF ~Ready(ch) THEN "none"
                     ELSE IF m_connected[ch] THEN "read" ELSE "accept"]
    /\ iterations' = 0
    /\ pc' = "forward"
    /\ UNCHANGED <<muxd, m_connected, clients, fpga, due, corrupt>>

\* pport->read(): first what is waiting in m_rd_buf, then k bytes of the port
ReadPort(k, raw) ==
    LET ln == Least(Chunk, m_rd_fill)
    IN  /\ k \in Fetched(Chunk - ln)
        /\ raw = Take(Buffered, ln) \o Take(fpga_out, k)
        /\ m_rd_fill' = m_rd_fill - ln
        /\ m_rd_pos' = IF m_rd_fill' = 0 THEN 0 ELSE m_rd_pos + ln
        /\ fpga_out' = Drop(fpga_out, k)
        /\ UNCHANGED <<m_rd_buf, fsent, fpga_in>>

\* Bytes s of one channel go to its client, if there is one: they should be
\* the ones due
Deliver(ch, s) ==
    [left |-> IF m_connected[ch] THEN Drop(due[ch], Len(s)) ELSE due[ch],
     wrong |-> m_connected[ch] /\ client[ch] = "open"
                 /\ s # Take(due[ch], Len(s))]

\* Mutant of MoreRounds: no loop
MutOneRound(i)   == FALSE

\* Whether the forwarding loop goes on after i rounds
MoreRounds(i) == i < MaxIter

\* One round: read, split by the top bit, write to the clients.  A write to a
\* client that has closed its end may still succeed, or ends the program.
Forward ==
    /\ pc = "forward"
    /\ \E k \in 0 .. Len(fpga_out) :
         LET raw == Take(Buffered, Least(Chunk, m_rd_fill)) \o Take(fpga_out, k)
             to(ch) == OfChannel(raw, ch)
             d(ch)  == Deliver(ch, to(ch))
         IN  /\ ReadPort(k, raw)
             /\ due' = [ch \in Channels |-> d(ch).left]
             /\ corrupt' = (corrupt \/ \E ch \in Channels : d(ch).wrong)
             /\ IF raw = <<>>
                THEN pc' = "cmd" /\ UNCHANGED iterations
                ELSE \/ /\ iterations' = iterations + 1
                        /\ pc' = IF MoreRounds(iterations') THEN "forward" ELSE "cmd"
                     \/ /\ \E ch \in Channels :
                             to(ch) # <<>> /\ m_connected[ch] /\ client[ch] = "closed"
                        /\ pc' = "exit"
                        /\ UNCHANGED iterations
    /\ UNCHANGED <<m_connected, revents, clients>>

\* accept(), or a read of the socket: its end closes the connection, bytes go
\* to the port with the top bit that names the channel
Serve(ch, next) ==
    /\ pc = ch
    /\ pc' = next
    /\ \/ /\ revents[ch] = "none"
          /\ UNCHANGED <<muxd, m_connected, client, c2n, fpga, due>>
       \/ /\ revents[ch] = "accept"
          /\ m_connected' = [m_connected EXCEPT ![ch] = TRUE]
          /\ client' = [client EXCEPT ![ch] = IF @ = "waiting" THEN "open" ELSE @]
          /\ due' = [due EXCEPT ![ch] = OfChannel(Buffered \o fpga_out, ch)]
          /\ UNCHANGED <<muxd, c2n, fpga>>
       \/ /\ revents[ch] = "read" /\ c2n[ch] = <<>>
          /\ m_connected' = [m_connected EXCEPT ![ch] = FALSE]
          /\ client' = [client EXCEPT ![ch] = "none"]
          /\ due' = [due EXCEPT ![ch] = <<>>]
          /\ UNCHANGED <<muxd, c2n, fpga>>
       \/ /\ revents[ch] = "read" /\ c2n[ch] # <<>>
          /\ \E n \in 1 .. Least(Chunk, Len(c2n[ch])), k \in 0 .. Len(fpga_out) :
               /\ Write(Take(c2n[ch], n), k)
               /\ c2n' = [c2n EXCEPT ![ch] = Drop(@, n)]
          /\ UNCHANGED <<m_connected, client, fsent, due>>
    /\ UNCHANGED <<revents, iterations, nsent, corrupt>>

ServeCmd == Serve("cmd", "con")
ServeCon == Serve("con", "poll")

(***************************************************************************)
(* The surroundings.                                                       *)
(***************************************************************************)
Connect(ch) ==
    /\ client[ch] = "none" /\ ~m_connected[ch]
    /\ client' = [client EXCEPT ![ch] = "waiting"]
    /\ UNCHANGED <<muxd, m_connected, loop, c2n, nsent, fpga, due, corrupt>>

ClientSend(ch) ==
    /\ ch \in Senders /\ client[ch] = "open" /\ nsent[ch] < MaxClient
    /\ nsent' = [nsent EXCEPT ![ch] = @ + 1]
    /\ c2n' = [c2n EXCEPT ![ch] = Append(@, [ch |-> ch, id |-> nsent'[ch]])]
    /\ UNCHANGED <<muxd, m_connected, loop, client, fpga, due, corrupt>>

ClientClose(ch) ==
    /\ MayClose /\ client[ch] = "open"
    /\ client' = [client EXCEPT ![ch] = "closed"]
    /\ UNCHANGED <<muxd, m_connected, loop, c2n, nsent, fpga, due, corrupt>>

FpgaSend(ch) ==
    /\ fsent[ch] < MaxFpga
    /\ fsent' = [fsent EXCEPT ![ch] = @ + 1]
    /\ fpga_out' = Append(fpga_out, [ch |-> ch, id |-> fsent'[ch]])
    /\ due' = IF m_connected[ch]
              THEN [due EXCEPT ![ch] = Append(@, [ch |-> ch, id |-> fsent'[ch]])]
              ELSE due
    /\ UNCHANGED <<muxd, m_connected, loop, clients, fpga_in, corrupt>>

Init ==
    /\ m_rd_buf = [i \in 0 .. BufSize - 1 |-> Junk]
    /\ m_rd_pos = 0 /\ m_rd_fill = 0
    /\ m_connected = [ch \in Channels |-> FALSE]
    /\ pc = "poll" /\ revents = [ch \in Channels |-> "none"] /\ iterations = 0
    /\ client = [ch \in Channels |-> "none"]
    /\ c2n = [ch \in Channels |-> <<>>] /\ nsent = [ch \in Channels |-> 0]
    /\ fpga_out = <<>> /\ fsent = [ch \in Channels |-> 0] /\ fpga_in = <<>>
    /\ due = [ch \in Channels |-> <<>>] /\ corrupt = FALSE

Next ==
    \/ Poll \/ Forward \/ ServeCmd \/ ServeCon
    \/ \E ch \in Channels :
         Connect(ch) \/ ClientSend(ch) \/ ClientClose(ch) \/ FpgaSend(ch)

\* netpport never waits for ever: its poll has a time limit.  Nothing makes
\* the clients or the FPGA do anything.
Spec == Init /\ [][Next]_vars /\ WF_vars(Poll \/ Forward \/ ServeCmd \/ ServeCon)

-----------------------------------------------------------------------------
\* Every variable has its type.
TypeOK ==
    /\ m_rd_buf \in [0 .. BufSize - 1 -> Bytes]
    /\ m_rd_pos \in 0 .. BufSize /\ m_rd_fill \in 0 .. BufSize
    /\ iterations \in 0 .. MaxIter
    /\ pc \in {"poll", "forward", "cmd", "con", "exit"}
    /\ m_connected \in [Channels -> BOOLEAN]
    /\ client \in [Channels -> {"none", "waiting", "open", "closed"}]

\* The bytes waiting and the cursors stay inside the buffer, with both clients sending as
\* fast as they can: the loop takes out as much as two writes put in, so
\* write() never has to enlarge the buffer, which would leave m_rd_size
\* behind.
BufferFits == TypeOK /\ m_rd_pos + m_rd_fill <= BufSize

\* A connected client gets the bytes the FPGA sent on its channel: each one,
\* once, in order, and no other; and nothing is missing from what is still
\* on its way to the client.
DeliveredIntact ==
    /\ ~corrupt
    /\ \A ch \in Channels :
        m_connected[ch] => due[ch] = OfChannel(Buffered \o fpga_out, ch)

\* The FPGA gets the bytes of each client in order, none missing.
ForwardedInOrder ==
    \A ch \in Channels :
        LET got == OfChannel(fpga_in, ch)
        IN  \A i \in 1 .. Len(got) : got[i].id = i

\* What the FPGA sends to a connected client leaves netpport, or the client
\* has closed its end and netpport finds out.
EverythingDelivered ==
    \A ch \in Channels : (due[ch] # <<>>) ~> (due[ch] = <<>> \/ pc = "exit")
=============================================================================
